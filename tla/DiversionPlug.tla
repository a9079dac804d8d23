---------------------------- MODULE DiversionPlug ----------------------------
(***************************************************************************)
(* What the inverter-overload protection of the diversion plug promises    *)
(* (bridge.py, solar_charge.py): an overload starts a cooldown, and during *)
(* it no command to switch the plug on is given out.  A command that was   *)
(* given out before may still reach the plug; anything may switch it off.  *)
(* A restart of the server forgets the cooldown.  SolarCharge implements   *)
(* this specification.                                                     *)
(***************************************************************************)
EXTENDS Naturals

CONSTANTS Commander,   \* who may give out a command
          Cooldown     \* length of the cooldown

VARIABLES plug,        \* is the plug on
          protect,     \* what is left of the cooldown
          granted      \* who has an ON command on its way

plugVars == <<plug, protect, granted>>

PlugInit ==
  /\ plug = FALSE
  /\ protect = 0
  /\ granted = {}

Grant(c) ==
  /\ protect = 0
  /\ granted' = granted \cup {c}
  /\ UNCHANGED <<plug, protect>>

Engage(c) ==
  /\ c \in granted
  /\ plug' = TRUE
  /\ UNCHANGED <<protect, granted>>

Settle(c) ==
  /\ granted' = granted \ {c}
  /\ UNCHANGED <<plug, protect>>

Release ==
  /\ plug' = FALSE
  /\ UNCHANGED <<protect, granted>>

Overload ==
  /\ protect' = Cooldown
  /\ UNCHANGED <<plug, granted>>

Elapse ==
  /\ protect > 0
  /\ protect' = protect - 1
  /\ UNCHANGED <<plug, granted>>

Forget ==
  /\ protect' = 0
  /\ granted' = {}
  /\ plug' \in {plug, FALSE}

PlugNext ==
  \/ \E c \in Commander : Grant(c) \/ Engage(c) \/ Settle(c)
  \/ Release \/ Overload \/ Elapse \/ Forget

PlugSpec == PlugInit /\ [][PlugNext]_plugVars
=============================================================================

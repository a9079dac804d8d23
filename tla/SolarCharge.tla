----------------------------- MODULE SolarCharge -----------------------------
(***************************************************************************)
(* The diversion plug and the two processes that switch it: the server,    *)
(* which evaluates every 30 s whether surplus may go into the car          *)
(* (server.py), and the bridge, which switches the plug off the moment the *)
(* device reports an overload (bridge.py).  They share the time stamp of   *)
(* the last overload, a file.  The server never reads the plug: it trusts  *)
(* its runtime cache.                                                      *)
(***************************************************************************)
EXTENDS SolarPlan

CONSTANTS
  Evals,            \* evaluations that may run at once
  Recording,        \* those of the loop (record=True), the others preview
  Modes,            \* values of the mode setting
  Conditions,       \* inputs of the decision, other than the load
  HouseLoads,       \* what the house draws
  CarLoad,          \* what the car draws
  TripLoad,         \* inverter_protect_load_w
  NoLoadThreshold,  \* no_load_threshold_w
  Cooldown,         \* inverter_protect_cooldown_s
  Debounce,         \* the bridge's pause between two OFF commands
  MinHold, VerifyDelay, NoLoadCooldown

\* There is one loop, and the settings are in the ranges that update_config
\* allows: at least 10 s of min_hold_s, 60 s of cooldown.
ASSUME SolarAssumption ==
  /\ Recording \subseteq Evals /\ \A d, e \in Recording : d = e
  /\ Modes \subseteq {"off", "test", "active"} /\ "off" \in Modes
  /\ \A c \in Conditions : ComputePlan(c) \in Actions
  /\ HouseLoads \subseteq Nat /\ 0 \in HouseLoads /\ CarLoad \in Nat
  /\ {TripLoad, NoLoadThreshold} \subseteq Nat
  /\ {Cooldown, MinHold, VerifyDelay, NoLoadCooldown, Debounce} \subseteq Nat \ {0}
  /\ Debounce <= MinHold /\ Debounce <= Cooldown

VARIABLES
  plug,      \* the plug itself
  house,     \* the load of the house
  car,       \* is a car connected
  cond,      \* the other inputs of the decision, as they are now
  mode,      \* the setting
  rt,        \* RuntimeState, with the time that is left for its time stamps
  newer,     \* last_overload_ts > last_toggle_ts
  protect,   \* time left until the cooldown after the last overload ends
  debounce,  \* time left in which the bridge sends no OFF command
  trip,      \* is an OFF command of the bridge on its way
  ev,        \* the evaluations
  doubt      \* history: something may have set runtime and plug at odds

solarVars == <<plug, house, car, cond, mode, rt, newer, protect,
               debounce, trip, ev, doubt>>
world == <<house, car, cond, mode>>
bridge == <<protect, debounce, trip>>

None == -1
Later(timer, span) == IF timer > span THEN timer - span ELSE 0
Span == IF MinHold > VerifyDelay THEN MinHold ELSE VerifyDelay

Total == house + (IF plug /\ car THEN CarLoad ELSE 0)

\* The load that the server polled last: any that the device may have had
\* lately, for the bridge serves its last reading whatever its age.
RecentLoads == {h + c : h \in HouseLoads, c \in {0, CarLoad}}

\* on, min_hold left, load before the toggle, time to the verification
\* (None: no verification open), no-load cooldown left.
Runtime ==
  [on: BOOLEAN, hold: 0..MinHold, pre: {None} \cup Nat,
   verify: {None} \cup (0..VerifyDelay), cooldown: 0..NoLoadCooldown]
FreshRuntime ==
  [on |-> FALSE, hold |-> 0, pre |-> None, verify |-> None, cooldown |-> 0]

Idle == [pc |-> "idle"]
Asleep == [pc |-> "sleep"]
\* The loop sleeps after an evaluation.
Done(e) == IF e \in Recording THEN Asleep ELSE Idle
Working(e) == ev[e] \notin {Idle, Asleep}
Sending(e, want) == ev[e].pc = "set" /\ ev[e].want = want

SolarInit ==
  /\ plug = FALSE
  /\ house \in HouseLoads
  /\ car \in BOOLEAN
  /\ cond \in Conditions
  /\ mode \in Modes
  /\ rt = FreshRuntime
  /\ newer = FALSE
  /\ protect = 0 /\ debounce = 0 /\ trip = FALSE
  /\ ev = [e \in Evals |-> Idle]
  /\ doubt = FALSE

(***************************************************************************)
(* The world: loads, the other inputs, the user's setting, time.           *)
(***************************************************************************)
HouseChanges ==
  /\ house' \in HouseLoads \ {house}
  /\ UNCHANGED <<plug, car, cond, mode, rt, newer, bridge, ev, doubt>>

CarChanges ==
  /\ car' = ~car
  /\ UNCHANGED <<plug, house, cond, mode, rt, newer, bridge, ev, doubt>>

ConditionsChange ==
  /\ cond' \in Conditions \ {cond}
  /\ UNCHANGED <<plug, house, car, mode, rt, newer, bridge, ev, doubt>>

\* Changing the mode leaves the plug and the runtime as they are.
SetMode ==
  /\ mode' \in Modes \ {mode}
  /\ UNCHANGED <<plug, house, car, cond, rt, newer, bridge, ev, doubt>>

\* One interval of solar_charge_loop.
Tick ==
  /\ rt' = [rt EXCEPT !.hold = Later(@, 1),
                      !.verify = IF @ = None THEN None ELSE Later(@, 1),
                      !.cooldown = Later(@, 1)]
  /\ protect' = Later(protect, 1)
  /\ debounce' = Later(debounce, 1)
  /\ ev' = [e \in Evals |->
              IF ev[e].pc = "set" /\ ev[e].since < Span
              THEN [ev[e] EXCEPT !.since = @ + 1]
              ELSE IF ev[e] = Asleep THEN Idle ELSE ev[e]]
  /\ UNCHANGED <<plug, world, newer, trip, doubt>>

(***************************************************************************)
(* An evaluation of the server.                                            *)
(***************************************************************************)
EvalStart(e) ==
  /\ ev[e].pc = "idle"
  /\ mode # "off"
  /\ ev' = [ev EXCEPT ![e] = [pc |-> "weather", mode |-> mode, cond |-> cond]]
  /\ UNCHANGED <<plug, world, rt, newer, bridge, doubt>>

\* The bridge has switched the plug off since the last toggle: the overload
\* counts as the toggle.  How long ago it was is not known beyond the cooldown.
Reconciled ==
  {[FreshRuntime EXCEPT !.hold = h] :
     h \in IF protect > 0 THEN {Later(MinHold, Cooldown - protect)}
                           ELSE 0..Later(MinHold, Cooldown)}

\* The plan of an evaluation that has the plug down as `before' and finds the
\* runtime r; the no-load cooldown comes before every other consideration.
PlanOf(t, load, r, before) ==
  IF r.cooldown > 0 THEN "skip"
  ELSE GateInverterProtect(
         GateLoadCeiling(
           GateMinHold(ComputePlan(t.cond), r.hold > 0, before),
           load, before),
         protect > 0)

Verifying(r) == r.on /\ r.pre # None /\ r.verify = 0
LoadMissing(load, r) == load - r.pre < NoLoadThreshold

\* Mutant: every evaluation within the cooldown starts it again.
VerifiedSliding(load, r) ==
  IF r.cooldown > 0 THEN [r EXCEPT !.cooldown = NoLoadCooldown]
  ELSE IF Verifying(r) /\ LoadMissing(load, r)
  THEN [r EXCEPT !.pre = None, !.verify = None, !.cooldown = NoLoadCooldown]
  ELSE r

\* What the verification leaves of the runtime.
Verified(load, r) ==
  IF ~Verifying(r) THEN r
  ELSE IF LoadMissing(load, r)
  THEN [r EXCEPT !.pre = None, !.verify = None, !.cooldown = NoLoadCooldown]
  ELSE [r EXCEPT !.verify = None]

Send(e, want, load, noLoad) ==
  ev' = [ev EXCEPT ![e] = [pc |-> "set", want |-> want,
                           load |-> IF want = "on" THEN load ELSE 0,
                           noLoad |-> noLoad, since |-> 0, reached |-> FALSE,
                           overtaken |-> FALSE]]

\* Everything from the reply to the plug's power reading to the command.
Decide(e, t, r, before) ==
  \E load \in RecentLoads :
    LET noLoad == Verifying(r) /\ LoadMissing(load, r)
        plan == IF noLoad THEN "off" ELSE PlanOf(t, load, r, before)
    IN /\ rt' = Verified(load, r)
       /\ IF e \in Recording /\ t.mode = "active" /\ plan # "skip"
          THEN Send(e, plan, load, noLoad)
          ELSE ev' = [ev EXCEPT ![e] = Done(e)]

WeatherReply(e) ==
  /\ ev[e].pc = "weather"
  /\ newer' = (newer /\ ~rt.on)
  /\ \E r \in IF newer /\ rt.on THEN Reconciled ELSE {rt} :
       IF r.on
       THEN /\ ev' = [ev EXCEPT ![e].pc = "status"]
            /\ rt' = r
       ELSE Decide(e, ev[e], r, FALSE)
  /\ UNCHANGED <<plug, world, bridge, doubt>>

StatusReply(e) ==
  /\ ev[e].pc = "status"
  /\ Decide(e, ev[e], rt, TRUE)
  /\ UNCHANGED <<plug, world, newer, bridge, doubt>>

\* The command reaches the plug; a retry may reach it again.
SetReaches(e) ==
  /\ ev[e].pc = "set"
  /\ plug' = (ev[e].want = "on")
  /\ ev' = [ev EXCEPT ![e].reached = TRUE]
  /\ UNCHANGED <<world, rt, newer, bridge, doubt>>

TurnedOn(t) ==
  [rt EXCEPT !.on = TRUE, !.hold = Later(MinHold, t.since), !.pre = t.load,
             !.verify = Later(VerifyDelay, t.since)]

\* An OFF of the no-load detection keeps the cooldown it has just set.
TurnedOff(t) ==
  [FreshRuntime EXCEPT !.hold = Later(MinHold, t.since),
                       !.pre = IF t.noLoad THEN rt.pre ELSE None,
                       !.verify = IF t.noLoad THEN rt.verify ELSE None,
                       !.cooldown = IF t.noLoad THEN rt.cooldown ELSE 0]

\* Mutant: the runtime is written before the command has reached the plug.
SetReturnsEarly(e) ==
  /\ ev[e].pc = "set"
  /\ rt' = IF ev[e].want = "on" THEN TurnedOn(ev[e]) ELSE TurnedOff(ev[e])
  /\ newer' = ev[e].overtaken
  /\ doubt' = (doubt \/ ev[e].overtaken)
  /\ ev' = [ev EXCEPT ![e] = Done(e)]
  /\ UNCHANGED <<plug, world, bridge>>

SetReturns(e) ==
  /\ ev[e].pc = "set" /\ ev[e].reached
  /\ rt' = IF ev[e].want = "on" THEN TurnedOn(ev[e]) ELSE TurnedOff(ev[e])
  /\ newer' = ev[e].overtaken
  /\ doubt' = (doubt \/ ev[e].overtaken)
  /\ ev' = [ev EXCEPT ![e] = Done(e)]
  /\ UNCHANGED <<plug, world, bridge>>

SetFails(e) ==
  /\ ev[e].pc = "set"
  /\ doubt' = TRUE
  /\ ev' = [ev EXCEPT ![e] = Done(e)]
  /\ UNCHANGED <<plug, world, rt, newer, bridge>>

(***************************************************************************)
(* The bridge's push handler.                                              *)
(***************************************************************************)
Overloaded == mode # "off" /\ Total >= TripLoad

Stamped(t) == IF t.pc = "set" THEN [t EXCEPT !.overtaken = TRUE] ELSE t

\* Mutant: one OFF command per cooldown.
PushOncePerCooldown ==
  /\ Overloaded
  /\ protect' = Cooldown
  /\ newer' = TRUE
  /\ ev' = [e \in Evals |-> Stamped(ev[e])]
  /\ IF debounce > 0 \/ protect > 0 THEN UNCHANGED <<debounce, trip>>
                     ELSE debounce' = Debounce /\ trip' = TRUE
  /\ UNCHANGED <<plug, world, rt, doubt>>

Push ==
  /\ Overloaded
  /\ protect' = Cooldown
  /\ newer' = TRUE
  /\ ev' = [e \in Evals |-> Stamped(ev[e])]
  /\ IF debounce > 0 THEN UNCHANGED <<debounce, trip>>
                     ELSE debounce' = Debounce /\ trip' = TRUE
  /\ UNCHANGED <<plug, world, rt, doubt>>

TripReaches ==
  /\ trip
  /\ trip' = FALSE
  /\ plug' = FALSE
  /\ UNCHANGED <<world, rt, newer, protect, debounce, ev, doubt>>

TripFails ==
  /\ trip
  /\ trip' = FALSE
  /\ doubt' = TRUE
  /\ UNCHANGED <<plug, world, rt, newer, protect, debounce, ev>>

BridgeRestart ==
  /\ debounce' = 0
  /\ trip' = FALSE
  /\ doubt' = (doubt \/ trip)
  /\ UNCHANGED <<plug, world, rt, newer, protect, ev>>

(***************************************************************************)
(* A restart of the server forgets the cooldown and forces the plug off,   *)
(* best effort, unless the mode is off.                                    *)
(***************************************************************************)
ServerRestart ==
  /\ protect' = 0
  /\ newer' = FALSE
  /\ ev' = [e \in Evals |-> Idle]
  /\ \/ /\ mode # "off"
        /\ plug' = FALSE
        /\ rt' = [FreshRuntime EXCEPT !.hold = MinHold]
        /\ UNCHANGED doubt
     \/ /\ plug' \in IF mode # "off" THEN {plug, FALSE} ELSE {plug}
        /\ rt' = FreshRuntime
        /\ doubt' = TRUE
  /\ UNCHANGED <<world, debounce, trip>>

EvalStep(e) ==
  EvalStart(e) \/ WeatherReply(e) \/ StatusReply(e) \/ SetReaches(e)
    \/ SetReturns(e) \/ SetFails(e)

SolarNext ==
  \/ HouseChanges \/ CarChanges \/ ConditionsChange \/ SetMode \/ Tick
  \/ \E e \in Evals : EvalStep(e)
  \/ Push \/ TripReaches \/ TripFails \/ BridgeRestart \/ ServerRestart

SolarSpec == SolarInit /\ [][SolarNext]_solarVars

\* Tasks of asyncio that are ready run, a command to a plug returns or
\* raises, the device reports, the loop evaluates again, time passes.
Fairness ==
  /\ WF_solarVars(Tick) /\ WF_solarVars(Push)
  /\ \A e \in Recording :
       /\ WF_solarVars(EvalStart(e)) /\ WF_solarVars(WeatherReply(e))
       /\ WF_solarVars(SetReturns(e) \/ SetFails(e))
  /\ \A e \in Evals : WF_solarVars(StatusReply(e))

FairSolarSpec == SolarSpec /\ Fairness

(***************************************************************************)
(* Properties.                                                             *)
(***************************************************************************)
Task ==
  {Idle, Asleep}
  \cup [pc: {"weather", "status"}, mode: Modes \ {"off"}, cond: Conditions]
  \cup [pc: {"set"}, want: {"on", "off"}, load: Nat, noLoad: BOOLEAN,
        since: 0..Span, reached: BOOLEAN, overtaken: BOOLEAN]

\* Every variable keeps its shape; only the loop's evaluations send commands.
SolarTypeOK ==
  /\ plug \in BOOLEAN /\ house \in HouseLoads /\ car \in BOOLEAN
  /\ cond \in Conditions /\ mode \in Modes
  /\ rt \in Runtime
  /\ newer \in BOOLEAN /\ trip \in BOOLEAN
  /\ protect \in 0..Cooldown /\ debounce \in 0..Debounce
  /\ ev \in [Evals -> Task]
  /\ \A e \in Evals : ev[e].pc = "set" => e \in Recording
  /\ doubt \in BOOLEAN

\* The overload protection keeps its promise: from an overload to the end of
\* its cooldown the server gives out no ON command (gate_inverter_protect,
\* with the stamp read before the awaits of the evaluation).
Latch == INSTANCE DiversionPlug
           WITH Commander <- Evals,
                granted <- {e \in Evals : Sending(e, "on")}
OverloadLatched == Latch!PlugSpec

\* A plug that the server believes off is off once all commands are done, unless one failed, an
\* overload came in while a command was on its way, or the forced OFF after a
\* restart did not succeed; the server never corrects a wrong belief of this
\* kind, because it never reads the plug's state.
BelievedOffIsOff ==
  ~rt.on /\ ~trip /\ ~doubt /\ (\A e \in Evals : ~Working(e)) => ~plug

\* The shape of the state, and the belief about the plug.
SolarInv == SolarTypeOK /\ BelievedOffIsOff

\* A plug that the server holds on while the conditions call for off is sent
\* an OFF command: neither min-hold nor the cooldown of the no-load detection,
\* which passes over all checks, can postpone it for ever.
CalledOff == rt.on /\ mode = "active" /\ ComputePlan(cond) = "off"
OffIsSent == CalledOff ~> (~CalledOff \/ \E e \in Evals : Sending(e, "off"))

\* An overload with the plug on leads to an OFF command of the bridge: the
\* debounce, which runs before the command has succeeded, ends.
OverloadTripped == (plug /\ Overloaded) ~> (trip \/ ~plug \/ ~Overloaded)

\* While the no-load cooldown runs, the plug has been switched off or is about
\* to be, or a command has failed (RuntimeState: "the plug is forced OFF and
\* no_load_cooldown_until is set").
NoLoadCutsPlug ==
  rt.cooldown > 0 /\ rt.on /\ ~doubt => \E e \in Evals : Sending(e, "off")
=============================================================================

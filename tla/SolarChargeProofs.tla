-------------------------- MODULE SolarChargeProofs --------------------------
(***************************************************************************)
(* The diversion plug with its server and its bridge (SolarCharge) does    *)
(* what the overload protection promises (DiversionPlug), for every value  *)
(* of the constants: every initial state maps to an initial one, and every *)
(* step to a step or to a stutter.                                         *)
(*                                                                         *)
(* The second part is about what the server believes of a plug that it     *)
(* never reads: BeliefInv follows a command from the decision to its       *)
(* delivery, against the OFF that the bridge sends of its own accord.      *)
(***************************************************************************)
EXTENDS SolarCharge, TLAPS

\* Who has an ON command on its way.
Granted == {e \in Evals : Sending(e, "on")}

\* The shape of the state that the mapping depends on.
LatchInv ==
  /\ protect \in Nat
  /\ DOMAIN ev = Evals
  /\ \A e \in Evals : /\ "pc" \in DOMAIN ev[e]
                      /\ ev[e].pc = "set" => "want" \in DOMAIN ev[e]

-----------------------------------------------------------------------------
(* The decision *)

\* No plan made within the cooldown says on.
LEMMA PlanHeldBack ==
  ASSUME NEW t, NEW load, NEW r, NEW before, protect \in Nat,
         PlanOf(t, load, r, before) = "on"
  PROVE  protect = 0
  BY DEF PlanOf, GateInverterProtect

\* An evaluation that decides either gives out an ON command outside the
\* cooldown or leaves the commands that are on their way alone.
LEMMA DecideGrants ==
  ASSUME LatchInv, NEW e \in Evals, NEW t, NEW r, NEW before,
         ev[e].pc # "set", Decide(e, t, r, before)
  PROVE  \/ protect = 0 /\ Granted' = Granted \cup {e}
         \/ Granted' = Granted
<1>1. PICK load, noLoad, plan :
        /\ plan = "off" \/ plan = PlanOf(t, load, r, before)
        /\ Send(e, plan, load, noLoad) \/ ev' = [ev EXCEPT ![e] = Done(e)]
  BY Zenon DEF Decide
<1>2. plan = "on" => protect = 0
  BY <1>1, PlanHeldBack DEF LatchInv
<1>3. CASE ev' = [ev EXCEPT ![e] = Done(e)]
  BY <1>3 DEF LatchInv, Granted, Sending, Done, Idle, Asleep
<1>4. CASE Send(e, plan, load, noLoad)
  <2>1. /\ ev'[e].pc = "set" /\ ev'[e].want = plan
        /\ \A f \in Evals \ {e} : ev'[f] = ev[f]
    BY <1>4 DEF Send, LatchInv
  <2>2. CASE plan = "on"
    BY <2>1, <2>2, <1>2 DEF Granted, Sending
  <2>3. CASE plan # "on"
    BY <2>1, <2>3 DEF Granted, Sending
  <2> QED  BY <2>2, <2>3
<1> QED  BY <1>1, <1>3, <1>4

\* A decision keeps the shape.
LEMMA DecideShape ==
  ASSUME LatchInv, NEW e \in Evals, NEW t, NEW r, NEW before,
         Decide(e, t, r, before), UNCHANGED protect
  PROVE  LatchInv'
<1>1. PICK load, noLoad, want :
        Send(e, want, load, noLoad) \/ ev' = [ev EXCEPT ![e] = Done(e)]
  BY Zenon DEF Decide
<1>2. CASE Send(e, want, load, noLoad)
  BY <1>2 DEF Send, LatchInv
<1>3. CASE ev' = [ev EXCEPT ![e] = Done(e)]
  BY <1>3 DEF LatchInv, Done, Idle, Asleep
<1> QED  BY <1>1, <1>2, <1>3

-----------------------------------------------------------------------------
(* The invariant *)

LEMMA LatchInit == SolarInit => LatchInv
  BY DEF SolarInit, LatchInv, Idle

LEMMA LatchStep == LatchInv /\ [SolarNext]_solarVars => LatchInv'
<1> SUFFICES ASSUME LatchInv, [SolarNext]_solarVars PROVE LatchInv'
  OBVIOUS
<1>1. CASE UNCHANGED solarVars
  BY <1>1 DEF solarVars, bridge, world, LatchInv
<1>2. CASE HouseChanges \/ CarChanges \/ ConditionsChange \/ SetMode
             \/ TripReaches \/ TripFails \/ BridgeRestart
  BY <1>2 DEF HouseChanges, CarChanges, ConditionsChange, SetMode, TripReaches,
              TripFails, BridgeRestart, bridge, world, LatchInv
<1>3. CASE Tick
  <2>1. protect' \in Nat
    BY <1>3 DEF Tick, Later, LatchInv
  <2>2. \A e \in Evals :
          ev'[e] = IF ev[e].pc = "set" /\ ev[e].since < Span
                   THEN [ev[e] EXCEPT !.since = @ + 1]
                   ELSE IF ev[e] = Asleep THEN Idle ELSE ev[e]
    BY <1>3 DEF Tick
  <2>3. DOMAIN ev' = Evals
    BY <1>3 DEF Tick
  <2> QED  BY <2>1, <2>2, <2>3 DEF LatchInv, Idle
<1>4. ASSUME NEW e \in Evals, EvalStep(e) PROVE LatchInv'
  <2>1. CASE EvalStart(e)
    BY <2>1 DEF EvalStart, bridge, LatchInv
  <2>2. CASE WeatherReply(e)
    <3>1. CASE ev' = [ev EXCEPT ![e].pc = "status"] /\ UNCHANGED protect
      BY <3>1 DEF LatchInv
    <3>2. UNCHANGED protect
      BY <2>2 DEF WeatherReply, bridge
    <3>3. \/ ev' = [ev EXCEPT ![e].pc = "status"]
          \/ \E r : Decide(e, ev[e], r, FALSE)
      BY <2>2, Zenon DEF WeatherReply
    <3> QED  BY <3>1, <3>2, <3>3, DecideShape
  <2>3. CASE StatusReply(e)
    <3>1. UNCHANGED protect /\ Decide(e, ev[e], rt, TRUE)
      BY <2>3, Zenon DEF StatusReply, bridge
    <3> QED  BY <3>1, DecideShape
  <2>4. CASE SetReaches(e)
    BY <2>4 DEF SetReaches, bridge, LatchInv
  <2>5. CASE SetReturns(e) \/ SetFails(e)
    BY <2>5 DEF SetReturns, SetFails, bridge, LatchInv, Done, Idle, Asleep
  <2> QED  BY <1>4, <2>1, <2>2, <2>3, <2>4, <2>5 DEF EvalStep
<1>5. CASE Push
  BY <1>5, SolarAssumption DEF SolarAssumption, Push, Stamped, LatchInv
<1>6. CASE ServerRestart
  BY <1>6 DEF ServerRestart, Idle, LatchInv
<1> QED  BY <1>1, <1>2, <1>3, <1>4, <1>5, <1>6, Zenon DEF SolarNext

-----------------------------------------------------------------------------
(* The mapping *)

LEMMA MapsInit == SolarInit => Latch!PlugInit
  BY DEF SolarInit, Latch!PlugInit, Sending, Idle

\* What happens to the commands on their way is read off the evaluations.
LEMMA MapsEval ==
  ASSUME LatchInv, NEW e \in Evals, EvalStep(e)
  PROVE  \/ Latch!Grant(e) \/ Latch!Engage(e) \/ Latch!Settle(e)
         \/ Latch!Release
         \/ UNCHANGED <<plug, protect, Granted>>
<1>1. CASE EvalStart(e)
  BY <1>1 DEF EvalStart, bridge, LatchInv, Granted, Sending
<1>2. CASE WeatherReply(e)
  <2>1. UNCHANGED <<plug, protect>> /\ ev[e].pc = "weather"
    BY <1>2 DEF WeatherReply, bridge
  <2>2. \/ ev' = [ev EXCEPT ![e].pc = "status"]
        \/ \E r : Decide(e, ev[e], r, FALSE)
    BY <1>2, Zenon DEF WeatherReply
  <2>3. CASE ev' = [ev EXCEPT ![e].pc = "status"]
    BY <2>1, <2>3 DEF LatchInv, Granted, Sending
  <2>4. CASE \E r : Decide(e, ev[e], r, FALSE)
    BY <2>1, <2>4, DecideGrants DEF Latch!Grant, Granted
  <2> QED  BY <2>2, <2>3, <2>4
<1>3. CASE StatusReply(e)
  <2>1. UNCHANGED <<plug, protect>> /\ ev[e].pc = "status"
    BY <1>3 DEF StatusReply, bridge
  <2>2. Decide(e, ev[e], rt, TRUE)
    BY <1>3, Zenon DEF StatusReply
  <2> QED  BY <2>1, <2>2, DecideGrants DEF Latch!Grant, Granted
<1>4. CASE SetReaches(e)
  <2>1. Granted' = Granted
    BY <1>4 DEF SetReaches, LatchInv, Granted, Sending
  <2>2. CASE ev[e].want = "on"
    BY <1>4, <2>1, <2>2 DEF SetReaches, bridge, Latch!Engage, Granted, Sending
  <2>3. CASE ev[e].want # "on"
    BY <1>4, <2>1, <2>3 DEF SetReaches, bridge, Latch!Release, Granted
  <2> QED  BY <2>2, <2>3
<1>5. CASE SetReturns(e) \/ SetFails(e)
  <2>1. Granted' = Granted \ {e}
    BY <1>5 DEF SetReturns, SetFails, LatchInv, Granted, Sending, Done, Idle, Asleep
  <2> QED  BY <1>5, <2>1 DEF SetReturns, SetFails, bridge, Latch!Settle, Granted
<1> QED  BY <1>1, <1>2, <1>3, <1>4, <1>5 DEF EvalStep

LEMMA MapsStep ==
  ASSUME LatchInv, [SolarNext]_solarVars
  PROVE  [Latch!PlugNext]_(Latch!plugVars)
<1> SUFFICES \/ Latch!PlugNext
             \/ UNCHANGED <<plug, protect, Granted>>
  BY DEF Latch!plugVars, Granted
<1>1. CASE UNCHANGED solarVars
  BY <1>1 DEF solarVars, bridge, Granted, Sending
<1>2. CASE HouseChanges \/ CarChanges \/ ConditionsChange \/ SetMode
             \/ TripFails \/ BridgeRestart
  BY <1>2 DEF HouseChanges, CarChanges, ConditionsChange, SetMode, TripFails,
              BridgeRestart, bridge, world, Granted, Sending
<1>3. CASE Tick
  <2>1. \A e \in Evals : Sending(e, "on")' <=> Sending(e, "on")
    BY <1>3 DEF Tick, LatchInv, Sending, Idle, Asleep
  <2>2. Granted' = Granted
    BY <2>1 DEF Granted
  <2>3. (protect > 0 /\ protect' = protect - 1) \/ UNCHANGED protect
    BY <1>3 DEF Tick, Later, LatchInv
  <2> QED  BY <1>3, <2>2, <2>3 DEF Tick, Latch!PlugNext, Latch!Elapse, Granted
<1>4. CASE \E e \in Evals : EvalStep(e)
  BY <1>4, MapsEval, Zenon DEF Latch!PlugNext
<1>5. CASE Push
  <2>1. Granted' = Granted
    BY <1>5 DEF Push, Stamped, LatchInv, Granted, Sending
  <2> QED  BY <1>5, <2>1 DEF Push, Latch!PlugNext, Latch!Overload, Granted
<1>6. CASE TripReaches
  BY <1>6 DEF TripReaches, Latch!PlugNext, Latch!Release, Sending
<1>7. CASE ServerRestart
  <2>1. Granted' = {}
    BY <1>7 DEF ServerRestart, Granted, Sending, Idle
  <2> QED  BY <1>7, <2>1 DEF ServerRestart, Latch!PlugNext, Latch!Forget, Granted
<1> QED
  BY <1>1, <1>2, <1>3, <1>4, <1>5, <1>6, <1>7, Zenon DEF SolarNext

\* From an overload to the end of its cooldown the server gives out no command
\* to switch the plug on, whatever it evaluates, however its evaluations, the
\* bridge's commands and restarts of both processes interleave (bridge.py,
\* solar_charge.py gate_inverter_protect).
THEOREM OverloadProtection == SolarSpec => OverloadLatched
<1>1. SolarInit => LatchInv /\ Latch!PlugInit
  BY LatchInit, MapsInit
<1>2. LatchInv /\ [SolarNext]_solarVars => LatchInv'
  BY LatchStep
<1>3. LatchInv /\ [SolarNext]_solarVars => [Latch!PlugNext]_(Latch!plugVars)
  BY MapsStep
<1> QED
  BY <1>1, <1>2, <1>3, PTL DEF SolarSpec, OverloadLatched, Latch!PlugSpec

-----------------------------------------------------------------------------
(* What the server believes.  The invariant says when runtime and plug     *)
(* agree while nothing has come between them, and why the bridge's OFF     *)
(* always precedes the next ON: its pause between two OFF commands is over *)
(* before the cooldown of the overload, or the hold after a restart, lets  *)
(* the server switch on again.                                             *)

\* The loop's command on its way, if there is one.
Commanding == \E e \in Recording : ev[e].pc = "set"

\* What the server believes off is off, or the bridge's OFF is on its way; so
\* is a plug believed on for which an overload has been stamped, and one in
\* the pause in which the bridge sends no second OFF.
Agreed ==
  ~Commanding =>
    /\ ~rt.on => trip \/ ~plug
    /\ rt.on /\ newer => trip \/ ~plug
    /\ debounce > 0 => trip \/ ~plug

\* The bridge's pause is over before the server may switch on again.
Shielded ==
  \/ debounce <= protect
  \/ /\ ~rt.on /\ debounce <= rt.hold
     /\ \A e \in Recording : ev[e].pc \notin {"status", "set"}

\* A command into which no overload came.
Delivered ==
  \A e \in Recording : ev[e].pc = "set" =>
    /\ ev[e].want = "off" /\ ev[e].reached => ~plug
    /\ ev[e].want = "on" /\ ~ev[e].overtaken => debounce = 0

Belief == ~doubt => Agreed /\ Shielded /\ Delivered
BeliefInv == SolarTypeOK /\ Belief

\* The kinds of a task, one by one.
Looking == [pc: {"weather", "status"}, mode: Modes \ {"off"}, cond: Conditions]
Commands ==
  [pc: {"set"}, want: {"on", "off"}, load: Nat, noLoad: BOOLEAN,
   since: 0..Span, reached: BOOLEAN, overtaken: BOOLEAN]

LEMMA TaskKinds ==
  /\ Task = {Idle, Asleep} \cup Looking \cup Commands
  /\ \A w \in Task : /\ w.pc = "set" => w \in Commands
                     /\ w.pc \in {"weather", "status"} => w \in Looking
                     /\ w.pc \in {"idle", "sleep"} => w \in {Idle, Asleep}
  /\ Idle.pc = "idle" /\ Asleep.pc = "sleep"
BY DEF Task, Looking, Commands, Idle, Asleep

LEMMA LaterStays ==
  ASSUME NEW N \in Nat, NEW timer \in 0..N, NEW span \in Nat
  PROVE  Later(timer, span) \in 0..N /\ Later(timer, span) <= timer
BY DEF Later

LEMMA Spans ==
  ASSUME SolarAssumption
  PROVE  /\ MinHold \in Nat /\ VerifyDelay \in Nat /\ NoLoadCooldown \in Nat
         /\ Cooldown \in Nat /\ Debounce \in Nat /\ Span \in Nat
         /\ Debounce <= MinHold /\ Debounce <= Cooldown
         /\ FreshRuntime \in Runtime
BY DEF SolarAssumption, Span, FreshRuntime, Runtime, None

LEMMA RuntimeFields ==
  ASSUME NEW r \in Runtime
  PROVE  /\ r.on \in BOOLEAN /\ r.hold \in 0..MinHold /\ r.pre \in {None} \cup Nat
         /\ r.verify \in {None} \cup (0..VerifyDelay) /\ r.cooldown \in 0..NoLoadCooldown
BY DEF Runtime

\* The verification leaves the state of the plug and its hold alone.
LEMMA VerifiedKeeps ==
  ASSUME SolarAssumption, NEW r \in Runtime, NEW load
  PROVE  /\ Verified(load, r) \in Runtime
         /\ Verified(load, r).on = r.on /\ Verified(load, r).hold = r.hold
<1> DEFINE r1 == [r EXCEPT !.verify = None]
           r2 == [r EXCEPT !.pre = None]
           r3 == [r2 EXCEPT !.verify = None]
           r4 == [r3 EXCEPT !.cooldown = NoLoadCooldown]
<1>1. r1 \in Runtime /\ r1.on = r.on /\ r1.hold = r.hold
  BY DEF Runtime
<1>2. r2 \in Runtime /\ r2.on = r.on /\ r2.hold = r.hold
  BY DEF Runtime
<1>3. Verified(load, r) \in {r, r1, r4}
  BY DEF Verified
<1> HIDE DEF r1, r2
<1>4. r3 \in Runtime /\ r3.on = r.on /\ r3.hold = r.hold
  BY <1>2 DEF Runtime
<1> HIDE DEF r3
<1>5. NoLoadCooldown \in 0..NoLoadCooldown
  BY Spans
<1>6. r4 \in Runtime /\ r4.on = r.on /\ r4.hold = r.hold
  BY <1>4, <1>5 DEF Runtime
<1> HIDE DEF r4
<1> QED
  BY <1>1, <1>3, <1>6

\* Why a plan says on, or off.
LEMMA PlanReasons ==
  ASSUME SolarAssumption, NEW t, t.cond \in Conditions, NEW load, NEW r \in Runtime,
         NEW before \in BOOLEAN, protect \in Nat
  PROVE  /\ PlanOf(t, load, r, before) \in {"on", "off", "skip"}
         /\ PlanOf(t, load, r, before) = "on" => ~before /\ protect = 0 /\ r.hold = 0
         /\ PlanOf(t, load, r, before) = "off" => before
<1>1. ComputePlan(t.cond) \in {"on", "off", "skip"}
  BY DEF SolarAssumption, Actions
<1>2. r.hold \in Nat
  BY Spans, RuntimeFields
<1> QED
  BY <1>1, <1>2 DEF PlanOf, GateInverterProtect, GateLoadCeiling, GateMinHold

\* What a decision does to its evaluation and to the runtime.
LEMMA DecideStep ==
  ASSUME SolarAssumption, ev \in [Evals -> Task], NEW e \in Evals,
         NEW t, t.cond \in Conditions, NEW r \in Runtime, NEW before \in BOOLEAN,
         protect \in Nat, Decide(e, t, r, before)
  PROVE  /\ rt' \in Runtime /\ rt'.on = r.on /\ rt'.hold = r.hold
         /\ \E w \in Task :
              /\ ev' = [ev EXCEPT ![e] = w]
              /\ \/ w \in {Idle, Asleep}
                 \/ /\ e \in Recording
                    /\ w.pc = "set" /\ ~w.reached /\ ~w.overtaken
                    /\ w.want = "on" => ~before /\ protect = 0 /\ r.hold = 0
                    /\ w.want = "off" => before \/ r.on
<1>1. PICK load \in RecentLoads :
        LET noLoad == Verifying(r) /\ LoadMissing(load, r)
            plan == IF noLoad THEN "off" ELSE PlanOf(t, load, r, before)
        IN /\ rt' = Verified(load, r)
           /\ IF e \in Recording /\ t.mode = "active" /\ plan # "skip"
              THEN Send(e, plan, load, noLoad)
              ELSE ev' = [ev EXCEPT ![e] = Done(e)]
  BY Zenon DEF Decide
<1> DEFINE noLoad == Verifying(r) /\ LoadMissing(load, r)
           plan == IF noLoad THEN "off" ELSE PlanOf(t, load, r, before)
<1>2. rt' \in Runtime /\ rt'.on = r.on /\ rt'.hold = r.hold
  <2>1. rt' = Verified(load, r)
    BY <1>1, Zenon
  <2> QED
    BY <2>1, VerifiedKeeps
<1>3. /\ plan \in {"on", "off", "skip"}
      /\ plan = "on" => ~before /\ protect = 0 /\ r.hold = 0
      /\ plan = "off" => before \/ r.on
      /\ noLoad \in BOOLEAN
  <2>1. noLoad => r.on
    BY DEF Verifying
  <2>2. noLoad \in BOOLEAN
    BY DEF Verifying, LoadMissing
  <2> QED
    BY <2>1, <2>2, PlanReasons
<1>4. \/ ev' = [ev EXCEPT ![e] = Done(e)]
      \/ e \in Recording /\ plan # "skip" /\ Send(e, plan, load, noLoad)
  BY <1>1, Zenon
<1> HIDE DEF noLoad, plan
<1>5. CASE ev' = [ev EXCEPT ![e] = Done(e)]
  <2>1. Done(e) \in {Idle, Asleep} /\ Done(e) \in Task
    BY DEF Done, Task
  <2> QED
    BY <1>2, <1>5, <2>1
<1>6. CASE e \in Recording /\ plan # "skip" /\ Send(e, plan, load, noLoad)
  <2> DEFINE w == [pc |-> "set", want |-> plan, load |-> IF plan = "on" THEN load ELSE 0,
                   noLoad |-> noLoad, since |-> 0, reached |-> FALSE, overtaken |-> FALSE]
  <2>1. ev' = [ev EXCEPT ![e] = w]
    BY <1>6 DEF Send
  <2>2. load \in Nat
    <3>1. PICK h \in HouseLoads, c \in {0, CarLoad} : load = h + c
      BY DEF RecentLoads
    <3>2. h \in Nat /\ c \in Nat
      BY DEF SolarAssumption
    <3> QED
      BY <3>1, <3>2
  <2>3. w \in Commands
    BY <1>3, <1>6, <2>2, Spans DEF Commands
  <2>4. w \in Task
    BY <2>3, TaskKinds
  <2> QED
    BY <1>2, <1>3, <1>6, <2>1, <2>4
<1> QED
  BY <1>4, <1>5, <1>6

\* One evaluation moves on.
LEMMA Moves ==
  ASSUME SolarTypeOK, NEW e \in Evals, NEW w \in Task, ev' = [ev EXCEPT ![e] = w],
         w.pc = "set" => e \in Recording
  PROVE  /\ ev' \in [Evals -> Task]
         /\ \A d \in Evals : ev'[d] = IF d = e THEN w ELSE ev[d]
         /\ \A d \in Evals : ev'[d].pc = "set" => d \in Recording
BY DEF SolarTypeOK

LEMMA BeliefInit == ASSUME SolarAssumption, SolarInit PROVE BeliefInv
<1>1. SolarTypeOK
  <2>1. ev \in [Evals -> Task] /\ \A e \in Evals : ev[e].pc # "set"
    BY TaskKinds DEF SolarInit
  <2>2. 0 \in 0..Cooldown /\ 0 \in 0..Debounce
    BY Spans
  <2>3. rt \in Runtime
    BY Spans DEF SolarInit
  <2> QED
    BY <2>1, <2>2, <2>3 DEF SolarInit, SolarTypeOK
<1>2. \A e \in Recording : ev[e].pc = "idle"
  BY DEF SolarInit, SolarAssumption, Idle
<1>3. rt.on = FALSE /\ plug = FALSE /\ newer = FALSE /\ debounce = 0 /\ protect = 0
  BY DEF SolarInit, FreshRuntime
<1> QED
  BY <1>1, <1>2, <1>3 DEF BeliefInv, Belief, Agreed, Shielded, Delivered

LEMMA BeliefWorld ==
  ASSUME BeliefInv, HouseChanges \/ CarChanges \/ ConditionsChange \/ SetMode
  PROVE  BeliefInv'
<1>1. UNCHANGED <<plug, rt, newer, protect, debounce, trip, ev, doubt>>
      /\ house' \in HouseLoads /\ car' \in BOOLEAN /\ cond' \in Conditions /\ mode' \in Modes
  BY DEF HouseChanges, CarChanges, ConditionsChange, SetMode, bridge, BeliefInv, SolarTypeOK
<1>2. SolarTypeOK'
  BY <1>1 DEF BeliefInv, SolarTypeOK
<1>3. Belief'
  BY <1>1 DEF BeliefInv, Belief, Agreed, Shielded, Delivered, Commanding
<1> QED
  BY <1>2, <1>3 DEF BeliefInv

LEMMA BeliefTick == ASSUME SolarAssumption, BeliefInv, Tick PROVE BeliefInv'
<1>1. /\ rt' = [rt EXCEPT !.hold = Later(@, 1),
                          !.verify = IF @ = None THEN None ELSE Later(@, 1),
                          !.cooldown = Later(@, 1)]
      /\ protect' = Later(protect, 1) /\ debounce' = Later(debounce, 1)
      /\ UNCHANGED <<plug, world, newer, trip, doubt>>
  BY DEF Tick
<1>2. rt \in Runtime /\ protect \in 0..Cooldown /\ debounce \in 0..Debounce
      /\ ev \in [Evals -> Task]
  BY DEF BeliefInv, SolarTypeOK
<1>3. protect' \in 0..Cooldown /\ debounce' \in 0..Debounce
  BY <1>1, <1>2, Spans, LaterStays
<1>4. rt' \in Runtime /\ rt'.on = rt.on /\ rt'.hold = Later(rt.hold, 1)
  <2>1. /\ Later(rt.hold, 1) \in 0..MinHold /\ Later(rt.cooldown, 1) \in 0..NoLoadCooldown
        /\ (IF rt.verify = None THEN None ELSE Later(rt.verify, 1)) \in {None} \cup (0..VerifyDelay)
    BY <1>2, Spans, RuntimeFields, LaterStays
  <2>2. rt' = [on |-> rt.on, hold |-> Later(rt.hold, 1), pre |-> rt.pre,
               verify |-> IF rt.verify = None THEN None ELSE Later(rt.verify, 1),
               cooldown |-> Later(rt.cooldown, 1)]
    BY <1>1, <1>2 DEF Runtime
  <2> QED
    BY <1>2, <2>1, <2>2, RuntimeFields DEF Runtime
<1>5. ASSUME NEW e \in Evals
      PROVE  /\ ev'[e] \in Task
             /\ ev'[e].pc \in {"status", "set"} => ev'[e].pc = ev[e].pc
             /\ ev[e].pc = "set" => ev'[e].pc = "set"
             /\ ev'[e].pc = "set" => /\ ev'[e].want = ev[e].want
                                     /\ ev'[e].reached = ev[e].reached
                                     /\ ev'[e].overtaken = ev[e].overtaken
  <2>1. ev'[e] = IF ev[e].pc = "set" /\ ev[e].since < Span
                 THEN [ev[e] EXCEPT !.since = @ + 1]
                 ELSE IF ev[e] = Asleep THEN Idle ELSE ev[e]
    BY DEF Tick
  <2>2. CASE ev[e].pc = "set" /\ ev[e].since < Span
    <3>1. ev[e] \in Commands /\ ev[e].since + 1 \in 0..Span
      BY <1>2, <2>2, TaskKinds, Spans DEF Commands
    <3>2. [ev[e] EXCEPT !.since = @ + 1] \in Commands
      BY <3>1 DEF Commands
    <3> QED
      BY <2>1, <2>2, <3>1, <3>2, TaskKinds DEF Commands
  <2>3. CASE ~(ev[e].pc = "set" /\ ev[e].since < Span)
    BY <1>2, <2>1, <2>3, TaskKinds
  <2> QED
    BY <2>2, <2>3
<1>6. ev' = [e \in Evals |-> ev'[e]]
  BY DEF Tick
<1>7. SolarTypeOK'
  <2>1. ev' \in [Evals -> Task]
    BY <1>5, <1>6
  <2> QED
    BY <1>1, <1>3, <1>4, <1>5, <2>1 DEF BeliefInv, SolarTypeOK, world
<1>8. \A e \in Recording : e \in Evals
  BY DEF SolarAssumption
<1>9. Commanding' <=> Commanding
  BY <1>5, <1>8 DEF Commanding
<1>10. ASSUME ~doubt' PROVE Agreed' /\ Shielded' /\ Delivered'
  <2>1. ~doubt /\ Agreed /\ Shielded /\ Delivered
    BY <1>1, <1>10 DEF BeliefInv, Belief
  <2>2. debounce \in Nat /\ debounce' \in Nat /\ (debounce' > 0 => debounce > 0)
        /\ (debounce = 0 => debounce' = 0)
    BY <1>1, <1>2, Spans DEF Later
  <2>3. Agreed'
    BY <1>1, <1>4, <1>9, <2>1, <2>2 DEF Agreed
  <2>4. rt.hold \in Nat /\ protect \in Nat
    BY <1>2, Spans, RuntimeFields
  <2>5. Shielded'
    <3>1. debounce <= protect => debounce' <= protect'
      BY <1>1, <2>2, <2>4 DEF Later
    <3>2. debounce <= rt.hold => debounce' <= rt'.hold
      BY <1>1, <1>4, <2>2, <2>4 DEF Later
    <3> QED
      BY <1>4, <1>5, <1>8, <2>1, <3>1, <3>2 DEF Shielded
  <2>6. Delivered'
    BY <1>1, <1>5, <1>8, <2>1, <2>2 DEF Delivered
  <2> QED
    BY <2>3, <2>5, <2>6
<1> QED
  BY <1>7, <1>10 DEF BeliefInv, Belief

LEMMA BeliefEvalStart ==
  ASSUME SolarAssumption, BeliefInv, NEW e \in Evals, EvalStart(e) PROVE BeliefInv'
<1> DEFINE w == [pc |-> "weather", mode |-> mode, cond |-> cond]
<1>1. /\ ev[e].pc = "idle" /\ mode # "off" /\ ev' = [ev EXCEPT ![e] = w]
      /\ UNCHANGED <<plug, house, car, cond, mode, rt, newer, protect, debounce, trip, doubt>>
  BY DEF EvalStart, world, bridge
<1>2. SolarTypeOK /\ Belief
  BY DEF BeliefInv
<1>3. w \in Task /\ w.pc = "weather"
  BY <1>1, <1>2, TaskKinds DEF SolarTypeOK, Looking
<1> HIDE DEF w
<1>4. /\ ev' \in [Evals -> Task] /\ \A d \in Evals : ev'[d].pc = "set" => d \in Recording
      /\ \A d \in Evals : ev'[d] = IF d = e THEN w ELSE ev[d]
  BY <1>1, <1>2, <1>3, Moves
<1>5. \A d \in Recording : d \in Evals
  BY DEF SolarAssumption
<1>6. SolarTypeOK'
  BY <1>1, <1>2, <1>4 DEF SolarTypeOK
<1>7. Belief'
  BY <1>1, <1>2, <1>3, <1>4, <1>5 DEF Belief, Agreed, Shielded, Delivered, Commanding
<1> QED
  BY <1>6, <1>7 DEF BeliefInv

\* A decision that finds the runtime r, with what follows for the beliefs.
LEMMA BeliefDecide ==
  ASSUME SolarAssumption, BeliefInv, NEW e \in Evals, ev[e].pc \in {"weather", "status"},
         NEW r \in Runtime, NEW before \in BOOLEAN, Decide(e, ev[e], r, before),
         newer' \in BOOLEAN, rt.on = FALSE \/ r.on = FALSE \/ r = rt,
         UNCHANGED <<plug, house, car, cond, mode, protect, debounce, trip, doubt>>,
         \/ before /\ ev[e].pc = "status" /\ r = rt /\ newer' = newer
         \/ ~before /\ ~r.on /\ (r = rt \/ (rt.on /\ newer))
  PROVE  BeliefInv'
<1>1. SolarTypeOK /\ Belief /\ ev[e] \in Task /\ protect \in Nat /\ debounce \in Nat
  BY Spans DEF BeliefInv, SolarTypeOK
<1>2. ev[e] \in Looking /\ ev[e].cond \in Conditions
  BY <1>1, TaskKinds DEF Looking
<1>3. /\ rt' \in Runtime /\ rt'.on = r.on /\ rt'.hold = r.hold
      /\ \E w \in Task :
           /\ ev' = [ev EXCEPT ![e] = w]
           /\ \/ w \in {Idle, Asleep}
              \/ /\ e \in Recording
                 /\ w.pc = "set" /\ ~w.reached /\ ~w.overtaken
                 /\ w.want = "on" => ~before /\ protect = 0 /\ r.hold = 0
                 /\ w.want = "off" => before \/ r.on
  <2>1. ev \in [Evals -> Task]
    BY <1>1 DEF SolarTypeOK
  <2> QED
    BY <1>1, <1>2, <2>1, DecideStep
<1>4. PICK w \in Task :
        /\ ev' = [ev EXCEPT ![e] = w]
        /\ \/ w \in {Idle, Asleep}
           \/ /\ e \in Recording
              /\ w.pc = "set" /\ ~w.reached /\ ~w.overtaken
              /\ w.want = "on" => ~before /\ protect = 0 /\ r.hold = 0
              /\ w.want = "off" => before \/ r.on
  BY <1>3, Zenon
<1>5. w.pc \in {"idle", "sleep", "set"} /\ (w.pc = "set" => e \in Recording /\ w \in Commands)
  BY <1>4, TaskKinds
<1>6. /\ ev' \in [Evals -> Task] /\ \A d \in Evals : ev'[d].pc = "set" => d \in Recording
      /\ \A d \in Evals : ev'[d] = IF d = e THEN w ELSE ev[d]
  BY <1>1, <1>4, <1>5, Moves
<1>7. \A d \in Recording : d \in Evals
  BY DEF SolarAssumption
<1>8. SolarTypeOK'
  BY <1>1, <1>3, <1>6 DEF SolarTypeOK
<1>9. rt \in Runtime /\ r.on \in BOOLEAN /\ rt.on \in BOOLEAN
  BY <1>1, RuntimeFields DEF SolarTypeOK
<1>10. ASSUME ~doubt' PROVE Agreed' /\ Shielded' /\ Delivered'
  <2>1. ~doubt /\ Agreed /\ Shielded /\ Delivered
    BY <1>1, <1>10 DEF Belief
  <2>2. ~Commanding' => ~Commanding
    BY <1>6, <1>7 DEF Commanding
  <2>3. Agreed'
    <3>1. SUFFICES ASSUME ~Commanding'
                   PROVE  /\ ~rt'.on => trip \/ ~plug
                          /\ rt'.on /\ newer' => trip \/ ~plug
                          /\ debounce > 0 => trip \/ ~plug
      BY DEF Agreed
    <3>2. /\ ~rt.on => trip \/ ~plug
          /\ rt.on /\ newer => trip \/ ~plug
          /\ debounce > 0 => trip \/ ~plug
      BY <2>1, <2>2, <3>1 DEF Agreed
    <3> QED
      BY <1>3, <1>9, <3>2
  \* Where the plug may be switched on, the bridge's pause is over.
  <2>4. w.pc = "set" /\ w.want = "on" => debounce = 0
    <3>1. SUFFICES ASSUME w.pc = "set", w.want = "on" PROVE debounce = 0
      OBVIOUS
    <3>2. ~before /\ protect = 0 /\ r.hold = 0
      BY <1>4, <3>1, TaskKinds
    <3>3. CASE debounce <= protect
      BY <1>1, <3>2, <3>3
    <3>4. CASE ~rt.on /\ debounce <= rt.hold
      BY <1>1, <1>9, <3>2, <3>4
    <3> QED
      BY <2>1, <3>3, <3>4 DEF Shielded
  <2>5. Shielded'
    <3>1. CASE debounce <= protect
      BY <3>1 DEF Shielded
    <3>2. CASE ~(debounce <= protect)
      <4>1. ~rt.on /\ debounce <= rt.hold /\ \A d \in Recording : ev[d].pc \notin {"status", "set"}
        BY <2>1, <3>2 DEF Shielded
      <4>2. e \in Recording => ~before
        BY <4>1
      <4>3. r = rt
        BY <4>1, <1>9
      <4>4. w.pc # "set"
        <5>1. SUFFICES ASSUME w.pc = "set" PROVE FALSE
          OBVIOUS
        <5>2. e \in Recording /\ w.want \in {"on", "off"}
          BY <1>5, <5>1 DEF Commands
        <5>3. CASE w.want = "on"
          BY <1>1, <2>4, <3>2, <5>1, <5>3
        <5>4. CASE w.want = "off"
          BY <1>4, <1>9, <4>1, <4>2, <4>3, <5>1, <5>2, <5>4, TaskKinds
        <5> QED
          BY <5>2, <5>3, <5>4
      <4>5. \A d \in Recording : ev'[d].pc \notin {"status", "set"}
        BY <1>5, <1>6, <1>7, <4>1, <4>4
      <4> QED
        BY <1>3, <4>1, <4>3, <4>5 DEF Shielded
    <3> QED
      BY <3>1, <3>2
  <2>6. Delivered'
    <3>1. ASSUME NEW d \in Recording, ev'[d].pc = "set"
          PROVE  /\ ev'[d].want = "off" /\ ev'[d].reached => ~plug
                 /\ ev'[d].want = "on" /\ ~ev'[d].overtaken => debounce = 0
      <4>1. CASE d = e
        BY <1>4, <1>6, <1>7, <2>4, <3>1, <4>1, TaskKinds
      <4>2. CASE d # e
        BY <1>6, <1>7, <2>1, <3>1, <4>2 DEF Delivered
      <4> QED
        BY <4>1, <4>2
    <3> QED
      BY <3>1 DEF Delivered
  <2> QED
    BY <2>3, <2>5, <2>6
<1> QED
  BY <1>8, <1>10 DEF BeliefInv, Belief

\* The runtime that follows an overload: off, with what is left of the hold.
LEMMA ReconciledOff ==
  ASSUME SolarAssumption, NEW r \in Reconciled, protect \in 0..Cooldown
  PROVE  r \in Runtime /\ ~r.on
<1>1. PICK h \in IF protect > 0 THEN {Later(MinHold, Cooldown - protect)}
                                ELSE 0..Later(MinHold, Cooldown) :
        r = [FreshRuntime EXCEPT !.hold = h]
  BY DEF Reconciled
<1>2. h \in 0..MinHold
  BY <1>1, Spans DEF Later
<1> QED
  BY <1>1, <1>2, Spans DEF FreshRuntime, Runtime

LEMMA BeliefWeather ==
  ASSUME SolarAssumption, BeliefInv, NEW e \in Evals, WeatherReply(e) PROVE BeliefInv'
<1>1. /\ ev[e].pc = "weather" /\ newer' = (newer /\ ~rt.on)
      /\ UNCHANGED <<plug, house, car, cond, mode, protect, debounce, trip, doubt>>
  BY DEF WeatherReply, world, bridge
<1>2. PICK r \in IF newer /\ rt.on THEN Reconciled ELSE {rt} :
        IF r.on
        THEN ev' = [ev EXCEPT ![e].pc = "status"] /\ rt' = r
        ELSE Decide(e, ev[e], r, FALSE)
  BY Zenon DEF WeatherReply
<1>3. SolarTypeOK /\ Belief /\ rt \in Runtime /\ newer \in BOOLEAN /\ protect \in 0..Cooldown
  BY DEF BeliefInv, SolarTypeOK
<1>4. r \in Runtime /\ (r.on => r = rt) /\ (r = rt \/ (rt.on /\ newer))
      /\ (r.on => ~newer)
  BY <1>2, <1>3, ReconciledOff
<1>5. CASE ~r.on
  <2>1. Decide(e, ev[e], r, FALSE)
    BY <1>2, <1>5
  <2>2. newer' \in BOOLEAN /\ (r.on = FALSE) /\ FALSE \in BOOLEAN
    BY <1>1, <1>3, <1>4, <1>5, RuntimeFields
  <2> QED
    BY <1>1, <1>4, <1>5, <2>1, <2>2, BeliefDecide
<1>6. CASE r.on
  <2> DEFINE w == [ev[e] EXCEPT !.pc = "status"]
  <2>1. ev' = [ev EXCEPT ![e] = w] /\ rt' = rt /\ rt.on /\ ~newer /\ ~newer'
    BY <1>1, <1>2, <1>4, <1>6
  <2>2. ev[e] \in Looking
    BY <1>1, <1>3, TaskKinds DEF SolarTypeOK
  <2>3. w \in Task /\ w.pc = "status"
    BY <2>2, TaskKinds DEF Looking
  <2> HIDE DEF w
  <2>4. /\ ev' \in [Evals -> Task] /\ \A d \in Evals : ev'[d].pc = "set" => d \in Recording
        /\ \A d \in Evals : ev'[d] = IF d = e THEN w ELSE ev[d]
    BY <1>3, <2>1, <2>3, Moves
  <2>5. \A d \in Recording : d \in Evals
    BY DEF SolarAssumption
  <2>6. newer' \in BOOLEAN
    BY <1>1, <1>3, <2>1
  <2>7. SolarTypeOK'
    BY <1>1, <1>3, <2>1, <2>4, <2>6 DEF SolarTypeOK
  <2>8. Belief'
    BY <1>1, <1>3, <2>1, <2>3, <2>4, <2>5 DEF Belief, Agreed, Shielded, Delivered, Commanding
  <2> QED
    BY <2>7, <2>8 DEF BeliefInv
<1> QED
  BY <1>5, <1>6

LEMMA BeliefStatus ==
  ASSUME SolarAssumption, BeliefInv, NEW e \in Evals, StatusReply(e) PROVE BeliefInv'
<1>1. /\ ev[e].pc = "status" /\ Decide(e, ev[e], rt, TRUE)
      /\ UNCHANGED <<plug, house, car, cond, mode, newer, protect, debounce, trip, doubt>>
  BY Zenon DEF StatusReply, world, bridge
<1>2. rt \in Runtime /\ newer \in BOOLEAN /\ TRUE \in BOOLEAN
  BY DEF BeliefInv, SolarTypeOK
<1> QED
  BY <1>1, <1>2, BeliefDecide

LEMMA BeliefReaches ==
  ASSUME SolarAssumption, BeliefInv, NEW e \in Evals, SetReaches(e) PROVE BeliefInv'
<1> DEFINE w == [ev[e] EXCEPT !.reached = TRUE]
<1>1. /\ ev[e].pc = "set" /\ plug' = (ev[e].want = "on") /\ ev' = [ev EXCEPT ![e] = w]
      /\ UNCHANGED <<house, car, cond, mode, rt, newer, protect, debounce, trip, doubt>>
  BY DEF SetReaches, world, bridge
<1>2. SolarTypeOK /\ Belief /\ ev[e] \in Commands /\ e \in Recording
  BY <1>1, TaskKinds DEF BeliefInv, SolarTypeOK
<1>3. w \in Commands /\ w.pc = "set" /\ w.want = ev[e].want /\ w.overtaken = ev[e].overtaken
  BY <1>2 DEF Commands
<1>4. w \in Task
  BY <1>3, TaskKinds
<1> HIDE DEF w
<1>5. /\ ev' \in [Evals -> Task] /\ \A d \in Evals : ev'[d].pc = "set" => d \in Recording
      /\ \A d \in Evals : ev'[d] = IF d = e THEN w ELSE ev[d]
  BY <1>1, <1>2, <1>4, Moves
<1>6. \A d \in Recording : d \in Evals /\ d = e
  BY <1>2 DEF SolarAssumption
<1>7. SolarTypeOK'
  BY <1>1, <1>2, <1>5 DEF SolarTypeOK
<1>8. Commanding /\ Commanding'
  BY <1>1, <1>2, <1>3, <1>5 DEF Commanding
<1>9. ASSUME ~doubt' PROVE Agreed' /\ Shielded' /\ Delivered'
  <2>1. ~doubt /\ Agreed /\ Shielded /\ Delivered
    BY <1>1, <1>2, <1>9 DEF Belief
  <2>2. Agreed'
    BY <1>8 DEF Agreed
  <2>3. Shielded'
    BY <1>1, <1>2, <2>1 DEF Shielded
  <2>4. Delivered'
    BY <1>1, <1>2, <1>3, <1>5, <1>6, <2>1 DEF Delivered
  <2> QED
    BY <2>2, <2>3, <2>4
<1> QED
  BY <1>7, <1>9 DEF BeliefInv, Belief

\* What a command that has returned leaves in the runtime.
LEMMA Returned ==
  ASSUME SolarAssumption, rt \in Runtime, NEW t \in Commands
  PROVE  /\ TurnedOn(t) \in Runtime /\ TurnedOn(t).on
         /\ TurnedOff(t) \in Runtime /\ ~TurnedOff(t).on
<1>1. /\ t.since \in Nat /\ t.load \in Nat /\ t.noLoad \in BOOLEAN
  BY Spans DEF Commands
<1>2. Later(MinHold, t.since) \in 0..MinHold /\ Later(VerifyDelay, t.since) \in 0..VerifyDelay
  <2>1. MinHold \in 0..MinHold /\ VerifyDelay \in 0..VerifyDelay
    BY Spans
  <2> QED
    BY <1>1, <2>1, Spans, LaterStays
<1> DEFINE h == Later(MinHold, t.since)
           on1 == [rt EXCEPT !.on = TRUE]
           on2 == [on1 EXCEPT !.hold = h]
           on3 == [on2 EXCEPT !.pre = t.load]
           on4 == [on3 EXCEPT !.verify = Later(VerifyDelay, t.since)]
           off1 == [FreshRuntime EXCEPT !.hold = h]
           off2 == [off1 EXCEPT !.pre = IF t.noLoad THEN rt.pre ELSE None]
           off3 == [off2 EXCEPT !.verify = IF t.noLoad THEN rt.verify ELSE None]
           off4 == [off3 EXCEPT !.cooldown = IF t.noLoad THEN rt.cooldown ELSE 0]
<1>3. TurnedOn(t) = on4
  BY DEF TurnedOn
<1>4. TurnedOff(t) = off4
  BY DEF TurnedOff
<1>5. h \in 0..MinHold
  BY <1>2
<1>6. /\ (IF t.noLoad THEN rt.pre ELSE None) \in {None} \cup Nat
      /\ (IF t.noLoad THEN rt.verify ELSE None) \in {None} \cup (0..VerifyDelay)
      /\ (IF t.noLoad THEN rt.cooldown ELSE 0) \in 0..NoLoadCooldown
  BY <1>1, Spans, RuntimeFields
<1> HIDE DEF h
<1>7. on1 \in Runtime /\ on1.on
  BY DEF Runtime
<1> HIDE DEF on1
<1>8. on2 \in Runtime /\ on2.on
  BY <1>5, <1>7 DEF Runtime
<1> HIDE DEF on2
<1>9. on3 \in Runtime /\ on3.on
  BY <1>1, <1>8 DEF Runtime
<1> HIDE DEF on3
<1>10. on4 \in Runtime /\ on4.on
  BY <1>2, <1>9 DEF Runtime
<1> HIDE DEF on4
<1>11. off1 \in Runtime /\ ~off1.on
  <2>1. FreshRuntime \in Runtime /\ ~FreshRuntime.on
    BY Spans DEF FreshRuntime
  <2> QED
    BY <1>5, <2>1 DEF Runtime
<1> HIDE DEF off1
<1>12. off2 \in Runtime /\ ~off2.on
  BY <1>6, <1>11 DEF Runtime
<1> HIDE DEF off2
<1>13. off3 \in Runtime /\ ~off3.on
  BY <1>6, <1>12 DEF Runtime
<1> HIDE DEF off3
<1>14. off4 \in Runtime /\ ~off4.on
  BY <1>6, <1>13 DEF Runtime
<1> HIDE DEF off4
<1> QED
  BY <1>3, <1>4, <1>10, <1>14

LEMMA BeliefReturns ==
  ASSUME SolarAssumption, BeliefInv, NEW e \in Evals, SetReturns(e) PROVE BeliefInv'
<1>1. /\ ev[e].pc = "set" /\ ev[e].reached
      /\ rt' = IF ev[e].want = "on" THEN TurnedOn(ev[e]) ELSE TurnedOff(ev[e])
      /\ newer' = ev[e].overtaken /\ doubt' = (doubt \/ ev[e].overtaken)
      /\ ev' = [ev EXCEPT ![e] = Done(e)]
      /\ UNCHANGED <<plug, house, car, cond, mode, protect, debounce, trip>>
  BY DEF SetReturns, world, bridge
<1>2. SolarTypeOK /\ Belief /\ ev[e] \in Commands /\ e \in Recording /\ rt \in Runtime
  BY <1>1, TaskKinds DEF BeliefInv, SolarTypeOK
<1>3. Done(e) \in Task /\ Done(e).pc \in {"idle", "sleep"}
  BY TaskKinds DEF Done
<1>4. /\ ev' \in [Evals -> Task] /\ \A d \in Evals : ev'[d].pc = "set" => d \in Recording
      /\ \A d \in Evals : ev'[d] = IF d = e THEN Done(e) ELSE ev[d]
  BY <1>1, <1>2, <1>3, Moves
<1>5. \A d \in Recording : d \in Evals /\ d = e
  BY <1>2 DEF SolarAssumption
<1>6. rt' \in Runtime /\ (rt'.on <=> ev[e].want = "on")
  BY <1>1, <1>2, Returned
<1>7. /\ ev[e].want \in {"on", "off"} /\ ev[e].overtaken \in BOOLEAN /\ doubt \in BOOLEAN
  BY <1>2 DEF Commands, SolarTypeOK
<1>8. SolarTypeOK'
  BY <1>1, <1>2, <1>4, <1>6, <1>7 DEF SolarTypeOK
<1>9. \A d \in Recording : ev'[d].pc \notin {"status", "set"}
  BY <1>3, <1>4, <1>5
<1>10. debounce \in Nat /\ protect \in Nat
  BY <1>2, Spans DEF SolarTypeOK
<1>11. ASSUME ~doubt' PROVE Agreed' /\ Shielded' /\ Delivered'
  <2>1. ~doubt /\ ~ev[e].overtaken /\ Shielded /\ Delivered
    BY <1>1, <1>2, <1>11 DEF Belief
  <2>2. ev[e].want = "off" => ~plug
    BY <1>1, <1>2, <2>1 DEF Delivered
  <2>3. ev[e].want = "on" => debounce = 0
    BY <1>1, <1>2, <2>1 DEF Delivered
  <2>4. Agreed'
    BY <1>1, <1>6, <1>7, <1>10, <2>1, <2>2, <2>3 DEF Agreed
  <2>5. debounce <= protect
    BY <1>1, <1>2, <2>1 DEF Shielded
  <2>6. Shielded'
    BY <1>1, <2>5 DEF Shielded
  <2>7. Delivered'
    BY <1>9 DEF Delivered
  <2> QED
    BY <2>4, <2>6, <2>7
<1> QED
  BY <1>8, <1>11 DEF BeliefInv, Belief

LEMMA BeliefFails ==
  ASSUME SolarAssumption, BeliefInv, NEW e \in Evals, SetFails(e) PROVE BeliefInv'
<1>1. /\ doubt' = TRUE /\ ev' = [ev EXCEPT ![e] = Done(e)]
      /\ UNCHANGED <<plug, house, car, cond, mode, rt, newer, protect, debounce, trip>>
  BY DEF SetFails, world, bridge
<1>2. SolarTypeOK
  BY DEF BeliefInv
<1>3. Done(e) \in Task /\ Done(e).pc \in {"idle", "sleep"}
  BY TaskKinds DEF Done
<1>4. ev' \in [Evals -> Task] /\ \A d \in Evals : ev'[d].pc = "set" => d \in Recording
  BY <1>1, <1>2, <1>3, Moves
<1> QED
  BY <1>1, <1>2, <1>4 DEF BeliefInv, Belief, SolarTypeOK

LEMMA BeliefPush == ASSUME SolarAssumption, BeliefInv, Push PROVE BeliefInv'
<1>1. /\ protect' = Cooldown /\ newer' = TRUE
      /\ ev' = [e \in Evals |-> Stamped(ev[e])]
      /\ \/ debounce > 0 /\ UNCHANGED <<debounce, trip>>
         \/ ~(debounce > 0) /\ debounce' = Debounce /\ trip' = TRUE
      /\ UNCHANGED <<plug, house, car, cond, mode, rt, doubt>>
  BY DEF Push, world
<1>2. SolarTypeOK /\ Belief /\ ev \in [Evals -> Task] /\ debounce \in 0..Debounce
  BY DEF BeliefInv, SolarTypeOK
<1>3. ASSUME NEW e \in Evals
      PROVE  /\ ev'[e] \in Task /\ ev'[e].pc = ev[e].pc
             /\ ev[e].pc = "set" => /\ ev'[e].want = ev[e].want /\ ev'[e].reached = ev[e].reached
                                    /\ ev'[e].overtaken
  <2>1. CASE ev[e].pc = "set"
    <3>1. ev[e] \in Commands /\ ev'[e] = [ev[e] EXCEPT !.overtaken = TRUE]
      BY <1>1, <1>2, <2>1, TaskKinds DEF Stamped
    <3>2. ev'[e] \in Commands
      BY <3>1 DEF Commands
    <3> QED
      BY <2>1, <3>1, <3>2, TaskKinds DEF Commands
  <2>2. CASE ev[e].pc # "set"
    BY <1>1, <1>2, <2>2 DEF Stamped
  <2> QED
    BY <2>1, <2>2
<1>4. ev' \in [Evals -> Task]
  BY <1>1, <1>3
<1>5. protect' \in 0..Cooldown /\ debounce' \in 0..Debounce /\ debounce' <= protect'
  BY <1>1, <1>2, Spans
<1>6. SolarTypeOK'
  BY <1>1, <1>2, <1>3, <1>4, <1>5 DEF SolarTypeOK
<1>7. \A e \in Recording : e \in Evals
  BY DEF SolarAssumption
<1>8. Commanding' <=> Commanding
  BY <1>3, <1>7 DEF Commanding
<1>9. Delivered' \/ doubt
  BY <1>1, <1>2, <1>3, <1>7 DEF Delivered, Belief
<1>10. Shielded'
  BY <1>5 DEF Shielded
<1>11. Agreed' \/ doubt
  BY <1>1, <1>2, <1>8 DEF Agreed, Belief
<1> QED
  BY <1>1, <1>6, <1>9, <1>10, <1>11 DEF BeliefInv, Belief

LEMMA BeliefBridge ==
  ASSUME SolarAssumption, BeliefInv, TripReaches \/ TripFails \/ BridgeRestart PROVE BeliefInv'
<1>1. SolarTypeOK /\ Belief
  BY DEF BeliefInv
<1>2. UNCHANGED <<house, car, cond, mode, rt, newer, protect, ev>>
  BY DEF TripReaches, TripFails, BridgeRestart, world
<1>3. CASE TripReaches
  <2>1. plug' = FALSE /\ trip' = FALSE /\ UNCHANGED <<debounce, doubt>>
    BY <1>3 DEF TripReaches
  <2> QED
    BY <1>1, <1>2, <2>1 DEF BeliefInv, SolarTypeOK, Belief, Agreed, Shielded, Delivered, Commanding
<1>4. CASE TripFails
  BY <1>1, <1>2, <1>4 DEF TripFails, BeliefInv, SolarTypeOK, Belief
<1>5. CASE BridgeRestart
  <2>1. debounce' = 0 /\ trip' = FALSE /\ doubt' = (doubt \/ trip) /\ UNCHANGED plug
    BY <1>5 DEF BridgeRestart
  <2>2. 0 \in 0..Debounce /\ protect \in Nat
    BY <1>1, Spans DEF SolarTypeOK
  <2>3. SolarTypeOK'
    BY <1>1, <1>2, <2>1, <2>2 DEF SolarTypeOK
  <2>4. Belief'
    <3>1. SUFFICES ASSUME ~doubt' PROVE Agreed' /\ Shielded' /\ Delivered'
      BY DEF Belief
    <3>2. ~doubt /\ ~trip /\ Agreed /\ Delivered
      BY <1>1, <2>1, <3>1 DEF Belief
    <3>3. Agreed'
      BY <1>2, <2>1, <3>2 DEF Agreed, Commanding
    <3>4. Shielded'
      BY <1>2, <2>1, <2>2 DEF Shielded
    <3>5. Delivered'
      BY <1>2, <2>1, <3>2 DEF Delivered
    <3> QED
      BY <3>3, <3>4, <3>5
  <2> QED
    BY <2>3, <2>4 DEF BeliefInv
<1> QED
  BY <1>3, <1>4, <1>5

LEMMA BeliefRestart == ASSUME SolarAssumption, BeliefInv, ServerRestart PROVE BeliefInv'
<1>1. /\ protect' = 0 /\ newer' = FALSE /\ ev' = [e \in Evals |-> Idle]
      /\ UNCHANGED <<house, car, cond, mode, debounce, trip>>
  BY DEF ServerRestart, world
<1>2. \/ /\ plug' = FALSE /\ UNCHANGED doubt
         /\ rt' = [FreshRuntime EXCEPT !.hold = MinHold]
      \/ plug' \in {plug, FALSE} /\ rt' = FreshRuntime /\ doubt' = TRUE
  BY DEF ServerRestart
<1>3. SolarTypeOK
  BY DEF BeliefInv
<1>4. /\ [FreshRuntime EXCEPT !.hold = MinHold] \in Runtime
      /\ [FreshRuntime EXCEPT !.hold = MinHold].hold = MinHold
      /\ [FreshRuntime EXCEPT !.hold = MinHold].on = FALSE
  <2>1. MinHold \in 0..MinHold /\ FreshRuntime \in Runtime /\ FreshRuntime.on = FALSE
    BY Spans DEF FreshRuntime
  <2> QED
    BY <2>1 DEF Runtime
<1>5. ev' \in [Evals -> Task] /\ \A e \in Evals : ev'[e].pc = "idle"
  BY <1>1, TaskKinds
<1>6. 0 \in 0..Cooldown /\ debounce <= MinHold
  BY <1>3, Spans DEF SolarTypeOK
<1>7. \A e \in Recording : e \in Evals
  BY DEF SolarAssumption
<1>8. SolarTypeOK'
  <2>1. rt' \in Runtime /\ plug' \in BOOLEAN /\ doubt' \in BOOLEAN
    BY <1>2, <1>3, <1>4, Spans DEF SolarTypeOK
  <2> QED
    BY <1>1, <1>3, <1>5, <1>6, <2>1 DEF SolarTypeOK
<1>9. ~doubt' => Agreed' /\ Shielded' /\ Delivered'
  BY <1>1, <1>2, <1>4, <1>5, <1>6, <1>7 DEF Agreed, Shielded, Delivered
<1> QED
  BY <1>8, <1>9 DEF BeliefInv, Belief

\* The state is well-formed, and a plug that the server believes off is off
\* once all commands are done, but for the causes that the property names, for
\* any loads, spans and number of previews (server.py 3899-3916, 4084-4189;
\* bridge.py 475-494).
THEOREM BeliefsAreRight == SolarSpec => []SolarInv
<1>1. SolarInit => BeliefInv
  BY SolarAssumption, BeliefInit
<1>2. BeliefInv /\ [SolarNext]_solarVars => BeliefInv'
  <2> SUFFICES ASSUME BeliefInv, [SolarNext]_solarVars PROVE BeliefInv'
    OBVIOUS
  <2>1. CASE HouseChanges \/ CarChanges \/ ConditionsChange \/ SetMode
    BY <2>1, BeliefWorld
  <2>2. CASE Tick
    BY <2>2, SolarAssumption, BeliefTick
  <2>3. ASSUME NEW e \in Evals, EvalStep(e) PROVE BeliefInv'
    BY <2>3, SolarAssumption, BeliefEvalStart, BeliefWeather, BeliefStatus, BeliefReaches,
       BeliefReturns, BeliefFails DEF EvalStep
  <2>4. CASE Push
    BY <2>4, SolarAssumption, BeliefPush
  <2>5. CASE TripReaches \/ TripFails \/ BridgeRestart
    BY <2>5, SolarAssumption, BeliefBridge
  <2>6. CASE ServerRestart
    BY <2>6, SolarAssumption, BeliefRestart
  <2>7. CASE UNCHANGED solarVars
    <3>1. UNCHANGED <<plug, house, car, cond, mode, rt, newer, protect, debounce, trip, ev, doubt>>
      BY <2>7 DEF solarVars
    <3> QED
      BY <3>1 DEF BeliefInv, SolarTypeOK, Belief, Agreed, Shielded, Delivered, Commanding
  <2> QED
    BY <2>1, <2>2, <2>3, <2>4, <2>5, <2>6, <2>7 DEF SolarNext
<1>3. BeliefInv => SolarInv
  <2> SUFFICES ASSUME BeliefInv PROVE BelievedOffIsOff
    BY DEF BeliefInv, SolarInv
  <2>1. \A e \in Recording : e \in Evals
    BY SolarAssumption DEF SolarAssumption
  <2>2. (\A e \in Evals : ~Working(e)) => ~Commanding
    BY <2>1, TaskKinds DEF Working, Commanding
  <2> QED
    BY <2>2 DEF BeliefInv, Belief, Agreed, BelievedOffIsOff
<1> QED
  BY <1>1, <1>2, <1>3, PTL DEF SolarSpec
=============================================================================

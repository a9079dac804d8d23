---------------------------- MODULE DeviceProofs ----------------------------
(***************************************************************************)
(* Theorems about the components that read and switch devices, and about   *)
(* what the forecaster learns from their history, for every value of their *)
(* constants.  The components share no state; each section gives the       *)
(* invariant its argument rests on.                                        *)
(***************************************************************************)
EXTENDS BalanceWindow, DeviceMirror, DeviceParams, F7Pulse, PackCache, ViewFanout,
        KasaPlugs, SmartCharge, HistoryFits, SequenceTheorems, SumLemmas

-----------------------------------------------------------------------------
(* The pack-balance window: its age bounds how long the car has been held  *)
(* and how long the window has stood down                                  *)

BalanceTypeOK ==
  /\ opened \in Int /\ held \in Nat /\ rested \in Nat
  /\ verdict \in {"none", "clear", "due", "stalled"}

\* The history, read off the age of the window.
NoWindow == opened = Closed /\ held = 0 /\ rested = 0
Holding == 0 <= opened /\ opened <= MaxWindow /\ held <= opened /\ rested = 0
StandingDown ==
  /\ MaxWindow < opened /\ opened <= MaxWindow + StandDown
  /\ held = 0 /\ rested <= opened - MaxWindow

\* What the last verdict says of the age.
VerdictFits ==
  /\ verdict = "clear" => opened = Closed
  /\ verdict = "due" => 0 <= opened /\ opened < MaxWindow
  /\ verdict = "stalled" =>
       MaxWindow <= opened /\ opened < MaxWindow + StandDown /\ held = 0

WindowInv ==
  BalanceTypeOK /\ (NoWindow \/ Holding \/ StandingDown) /\ VerdictFits

LEMMA StandDownPositive ==
  ASSUME MaxWindow > 0
  PROVE  StandDown \in Nat \ {0} /\ MaxWindow + StandDown <= MaxAge
  BY BalanceAssumption DEF BalanceAssumption, StandDown

LEMMA WindowInit ==
  ASSUME BalanceInit PROVE WindowInv
  BY DEF BalanceInit, WindowInv, BalanceTypeOK, NoWindow, VerdictFits, Closed

\* A day makes the window older, and what it has done so far with it.
LEMMA DayStep ==
  ASSUME MaxWindow > 0, WindowInv, Day PROVE WindowInv'
<1>1. StandDown' = StandDown
  BY DEF Day, StandDown
<1>2. BalanceTypeOK'
  BY BalanceAssumption DEF BalanceAssumption, Day, Older, WindowInv, BalanceTypeOK
<1>3. VerdictFits'
  BY DEF Day, VerdictFits
<1>4. CASE verdict = "clear"
  BY <1>4, StandDownPositive, BalanceAssumption
  DEF BalanceAssumption, Day, Older, Closed, WindowInv, BalanceTypeOK, NoWindow,
      Holding, StandingDown, VerdictFits
<1>5. CASE verdict \in {"due", "stalled"}
  <2>1. opened' = opened + 1 /\ opened >= 0
    BY <1>5, StandDownPositive, BalanceAssumption
    DEF BalanceAssumption, Day, Older, WindowInv, BalanceTypeOK, VerdictFits
  <2> QED
    BY <1>1, <1>5, <2>1, StandDownPositive, BalanceAssumption, <1>2, <1>3
    DEF BalanceAssumption, Day, Closed, WindowInv, BalanceTypeOK, NoWindow,
        Holding, StandingDown, VerdictFits
<1>6. verdict \in {"clear", "due", "stalled"}
  BY DEF Day, WindowInv, BalanceTypeOK
<1> QED
  BY <1>2, <1>3, <1>4, <1>5, <1>6 DEF WindowInv

\* An evaluation either closes the window or gives a verdict on its age.
LEMMA EvaluateConcludes ==
  ASSUME NEW lookup \in BOOLEAN, Evaluate(lookup)
  PROVE  /\ UNCHANGED triggers
         /\ \/ CloseWindow
            \/ Conclude(IF Stalled(WindowAge) THEN "stalled" ELSE "due", WindowAge)
<1>1. UNCHANGED triggers
  BY DEF Evaluate
<1>2. CloseWindow \/ \E days, calendar : Judge(days, calendar)
  BY Zenon DEF Evaluate
<1> QED  BY <1>1, <1>2, Zenon DEF Judge

LEMMA EvaluateStep ==
  ASSUME MaxWindow > 0, WindowInv, NEW lookup \in BOOLEAN, Evaluate(lookup)
  PROVE  WindowInv'
<1>1. StandDown' = StandDown
  BY EvaluateConcludes DEF StandDown
<1>2. CASE CloseWindow
  BY <1>2 DEF CloseWindow, Conclude, Closed, WindowInv, BalanceTypeOK, NoWindow, VerdictFits
<1>3. CASE Conclude(IF Stalled(WindowAge) THEN "stalled" ELSE "due", WindowAge)
  BY <1>1, <1>3, StandDownPositive, BalanceAssumption
  DEF BalanceAssumption, Conclude, Stalled, WindowAge, Closed, WindowInv,
      BalanceTypeOK, NoWindow, Holding, StandingDown, VerdictFits
<1> QED  BY <1>2, <1>3, EvaluateConcludes

LEMMA WindowStep ==
  ASSUME MaxWindow > 0 PROVE WindowInv /\ [BalanceNext]_balanceVars => WindowInv'
<1> SUFFICES ASSUME WindowInv, [BalanceNext]_balanceVars PROVE WindowInv'
  OBVIOUS
<1>1. CASE UNCHANGED balanceVars \/ PacksDrift \/ MainChanges \/ TtlPasses
  BY <1>1
  DEF balanceVars, PacksDrift, MainChanges, TtlPasses, WindowInv, BalanceTypeOK,
      NoWindow, Holding, StandingDown, StandDown, VerdictFits
<1>2. CASE ServerRestart
  BY <1>2 DEF ServerRestart, Closed, WindowInv, BalanceTypeOK, NoWindow, VerdictFits
<1> QED
  BY <1>1, <1>2, DayStep, EvaluateStep, Zenon DEF BalanceNext

-----------------------------------------------------------------------------
\* The car is held for at most MaxWindow days on end and a stalled window
\* stands down for at most StandDown days, however long the two are and
\* whatever the packs, the main unit, the database and restarts do
\* (solar_charge.py 509-546).
THEOREM DutyCycleBounded == BalanceSpec => []BalanceDutyCycle
<1>1. CASE MaxWindow > 0
  <2>1. BalanceInit => WindowInv
    BY WindowInit
  <2>2. WindowInv /\ [BalanceNext]_balanceVars => WindowInv'
    BY <1>1, WindowStep
  <2>3. WindowInv => BalanceDutyCycle
    BY <1>1, StandDownPositive, BalanceAssumption
    DEF BalanceAssumption, WindowInv, BalanceTypeOK, NoWindow, Holding,
        StandingDown, BalanceDutyCycle
  <2> QED  BY <2>1, <2>2, <2>3, PTL DEF BalanceSpec
<1>2. CASE ~(MaxWindow > 0)
  <2>1. BalanceDutyCycle
    BY <1>2 DEF BalanceDutyCycle
  <2> QED  BY <2>1, PTL
<1> QED  BY <1>1, <1>2
-----------------------------------------------------------------------------
(* The device mirror: without a disturbance everything that bridge and     *)
(* server keep belongs to the selected device or to none                   *)

\* Of the selected device, or nothing yet.
OfSelected(d) == d \in {NoDevice, selected}

\* What the iterations under way carry.
CarriesSelected ==
  /\ poller.pc = "fetch" => poller.active = selected
  /\ tick.pc \in {"store", "samples", "packs"} => tick.of = selected /\ selected # NoDevice
  /\ tick.pc = "samples" => OfSelected(tick.dev)

ChartOK ==
  /\ "of" \in DOMAIN chart
  /\ ~disturbed => chart.of \subseteq {selected} \ {NoDevice}

OneDevice ==
  /\ OfSelected(mirror) /\ OfSelected(cached)
  /\ OfSelected(device) /\ OfSelected(status)
  /\ CarriesSelected

MirrorInv == ChartOK /\ (~disturbed => OneDevice)

LEMMA MirrorInitInv == MirrorInit => MirrorInv
  BY DEF MirrorInit, MirrorInv, ChartOK, OneDevice, CarriesSelected,
         OfSelected, Resting, EmptyChart

\* Steps of the bridge leave the server's copies alone, and those of the
\* server what the bridge has selected.
LEMMA BridgeStep ==
  ASSUME MirrorInv,
         ListDevices \/ Wake \/ Answer \/ IterationEnds \/ IterationFails
           \/ PropertyPush \/ BridgeRestarts
  PROVE  MirrorInv'
<1>1. UNCHANGED viewVars
  BY DEF ListDevices, Wake, Answer, IterationEnds, IterationFails, PropertyPush,
         BridgeRestarts
<1>2. CASE ListDevices
  <2>1. /\ selected = NoDevice /\ selected' \in Devices
        /\ poller' = [pc |-> "fetch", active |-> selected']
        /\ UNCHANGED <<mirror, disturbed>>
    BY <1>2 DEF ListDevices
  <2> QED
    BY <1>1, <2>1, MirrorAssumption
    DEF viewVars, MirrorAssumption, MirrorInv, ChartOK, OneDevice, CarriesSelected,
        OfSelected
<1>3. CASE Wake \/ Answer \/ IterationFails
  <2>1. /\ UNCHANGED <<selected, mirror, disturbed>>
        /\ \/ poller' = [pc |-> "fetch", active |-> selected]
           \/ UNCHANGED poller
           \/ poller' = Resting
    BY <1>3 DEF Wake, Answer, IterationFails
  <2> QED
    BY <1>1, <2>1
    DEF viewVars, MirrorInv, ChartOK, OneDevice, CarriesSelected, OfSelected, Resting
<1>4. CASE IterationEnds \/ PropertyPush
  BY <1>1, <1>4
  DEF IterationEnds, MirrorActive, PropertyPush, viewVars, MirrorInv,
      ChartOK, OneDevice, CarriesSelected, OfSelected, Resting
<1>5. CASE BridgeRestarts
  BY <1>1, <1>5
  DEF BridgeRestarts, viewVars, MirrorInv, ChartOK, Resting
<1> QED  BY <1>2, <1>3, <1>4, <1>5

LEMMA PollStep ==
  ASSUME MirrorInv, LoopPoll \/ LoopStore \/ ForcePoll \/ Reconnect
  PROVE  MirrorInv'
<1>1. UNCHANGED <<bridgeVars, disturbed>>
  BY DEF LoopPoll, LoopStore, ForcePoll, Reconnect
<1>2. CASE LoopPoll
  BY <1>1, <1>2
  DEF LoopPoll, CachedAfterPoll, bridgeVars, MirrorInv, ChartOK,
      OneDevice, CarriesSelected, OfSelected, Resting, EmptyChart
<1>3. CASE LoopStore
  BY <1>1, <1>3
  DEF LoopStore, bridgeVars, MirrorInv, ChartOK, OneDevice,
      CarriesSelected, OfSelected, Resting
<1>4. CASE ForcePoll \/ Reconnect
  BY <1>1, <1>4
  DEF ForcePoll, Reconnect, CachedAfterPoll, bridgeVars, MirrorInv,
      ChartOK, OneDevice, CarriesSelected, OfSelected
<1> QED  BY <1>2, <1>3, <1>4

LEMMA ChartStep ==
  ASSUME MirrorInv, LoopHydrate \/ LoopAppend \/ LoopFails \/ IntervalPasses
  PROVE  MirrorInv'
<1>1. UNCHANGED <<bridgeVars, cached, device, status, disturbed>>
  BY DEF LoopHydrate, LoopAppend, LoopFails, IntervalPasses
<1>2. CASE LoopHydrate
  <2>1. /\ "of" \in DOMAIN chart'
        /\ chart'.of \subseteq chart.of \cup ({tick.dev} \ {NoDevice})
    BY <1>2 DEF LoopHydrate, MirrorInv, ChartOK
  <2> QED
    BY <1>1, <1>2, <2>1
    DEF LoopHydrate, bridgeVars, MirrorInv, ChartOK, OneDevice, CarriesSelected, OfSelected
<1>3. CASE LoopAppend
  <2>1. /\ "of" \in DOMAIN chart'
        /\ chart'.of \subseteq chart.of \cup {tick.of}
    BY <1>3 DEF LoopAppend, MirrorInv, ChartOK
  <2>2. ~disturbed => tick.of \in {selected}
    BY <1>3 DEF LoopAppend, MirrorInv, OneDevice, CarriesSelected
  <2> QED
    BY <1>1, <1>3, <2>1, <2>2
    DEF LoopAppend, bridgeVars, MirrorInv, ChartOK, OneDevice, CarriesSelected, OfSelected,
        Resting
<1>4. CASE LoopFails \/ IntervalPasses
  BY <1>1, <1>4
  DEF LoopFails, IntervalPasses, bridgeVars, MirrorInv, ChartOK,
      OneDevice, CarriesSelected, OfSelected, Resting
<1> QED  BY <1>2, <1>3, <1>4

\* A selection that meets no iteration starts from nothing.
LEMMA SelectStep ==
  ASSUME MirrorInv, NEW d \in Devices, Select(d) \/ SelectUnanswered(d)
  PROVE  MirrorInv'
<1>1. CASE Select(d)
  <2>1. ~disturbed' => tick = Resting /\ poller = Resting
    BY <1>1, Zenon DEF Select
  <2>2. /\ selected' = d /\ mirror' = NoDevice /\ cached' = NoDevice
        /\ device' = NoDevice /\ status' = NoDevice /\ chart' = EmptyChart
        /\ UNCHANGED <<tick, poller>>
    BY <1>1 DEF Select, BridgeSelects, ResetView
  <2> QED
    BY <2>1, <2>2
    DEF MirrorInv, ChartOK, OneDevice, CarriesSelected, OfSelected, Resting, EmptyChart
<1>2. CASE SelectUnanswered(d)
  BY <1>2
  DEF SelectUnanswered, BridgeSelects, viewVars, MirrorInv, ChartOK
<1> QED  BY <1>1, <1>2

LEMMA MirrorStep == MirrorInv /\ [MirrorNext]_mirrorVars => MirrorInv'
<1> SUFFICES ASSUME MirrorInv, [MirrorNext]_mirrorVars PROVE MirrorInv'
  OBVIOUS
<1>1. CASE UNCHANGED mirrorVars
  BY <1>1
  DEF mirrorVars, bridgeVars, viewVars, MirrorInv, ChartOK, OneDevice,
      CarriesSelected, OfSelected
<1> QED
  BY <1>1, BridgeStep, PollStep, ChartStep, SelectStep, Zenon DEF MirrorNext

-----------------------------------------------------------------------------
\* For any set of devices: what the dashboard shows belongs to the device it
\* names, however polls, pushes, selections, reconnects and failures
\* interleave, unless the last selection was disturbed or the bridge restarted
\* since (server.py 308-313, 391-396, 8221-8229).
THEOREM DashboardShowsOwnData == MirrorSpec => []ShownDataIsOwn
<1>1. MirrorInit => MirrorInv
  BY MirrorInitInv
<1>2. MirrorInv /\ [MirrorNext]_mirrorVars => MirrorInv'
  BY MirrorStep
<1>3. MirrorInv => ShownDataIsOwn
  BY DEF MirrorInv, ChartOK, OneDevice, OfSelected, ShownDataIsOwn
<1> QED
  BY <1>1, <1>2, <1>3, PTL DEF MirrorSpec
-----------------------------------------------------------------------------
(* The learned parameters: ChoiceStays is inductive as it stands           *)

LEMMA ChoiceKept == ChoiceStays /\ [ParamsNext]_paramsVars => ChoiceStays'
<1> SUFFICES ASSUME ChoiceStays, [ParamsNext]_paramsVars PROVE ChoiceStays'
  OBVIOUS
\* What the user has stored is the only thing a read may leave.
<1>1. ASSUME chosen # Nothing, Reads(row), UNCHANGED chosen PROVE ChoiceStays'
  BY <1>1 DEF ChoiceStays, Reads, Ladder, Row
<1>2. CASE Resolve \/ RefitEnds
  BY <1>1, <1>2 DEF Resolve, RefitEnds, ChoiceStays
<1>3. CASE ClearParam \/ RefitStarts
  BY <1>3 DEF ClearParam, RefitStarts, ChoiceStays
<1>4. CASE FitStarts \/ \E v \in SecondChoices : SaveSecond(v)
  BY <1>4 DEF FitStarts, SaveSecond, ChoiceStays
<1>5. CASE FitEnds
  BY <1>5 DEF FitEnds, ChoiceStays
<1>6. CASE \E v \in Values : SetParam(v)
  BY <1>6 DEF SetParam, ChoiceStays
<1>7. CASE UNCHANGED paramsVars
  BY <1>7 DEF paramsVars, ChoiceStays
<1> QED
  BY <1>2, <1>3, <1>4, <1>5, <1>6, <1>7 DEF ParamsNext

\* No read, refit, preview or save of the second place displaces the value a
\* user has chosen, for any values and fits.
THEOREM ChoiceRemains == ParamsSpec => []ChoiceStays
<1>1. ParamsInit => ChoiceStays
  BY DEF ParamsInit, ChoiceStays
<1> QED
  BY <1>1, ChoiceKept, PTL DEF ParamsSpec
-----------------------------------------------------------------------------
(* The pulses of the F7 workaround: the stamp on disk is never older than  *)
(* the last pulse                                                          *)

PulseInv ==
  /\ sinceStamp \in -1 .. MaxTime /\ sincePulse \in 0 .. MaxTime
  /\ sincePulse = IF sinceStamp = Unstamped THEN MaxTime ELSE sinceStamp
  /\ pulse = NoPulse \/ pulse \in [pc : {"on", "wait"}, left : Int]

LEMMA PulseKept == PulseInv /\ [F7Next]_f7Vars => PulseInv'
<1> SUFFICES ASSUME PulseInv, [F7Next]_f7Vars PROVE PulseInv'
  OBVIOUS
<1>1. CASE F7Tick
  BY <1>1, F7Assumption DEF F7Tick, PulseInv, Unstamped, F7Assumption
<1>2. CASE PulseTime
  <2>1. /\ sinceStamp' = OneOlder(sinceStamp) /\ sincePulse' = OneOlder(sincePulse)
        /\ \/ pulse' = NoPulse
           \/ pulse.pc = "wait" /\ pulse' = [pulse EXCEPT !.left = @ - 1]
    BY <1>2 DEF PulseTime
  <2>2. pulse' = NoPulse \/ pulse' \in [pc : {"on", "wait"}, left : Int]
    BY <2>1 DEF PulseInv, NoPulse
  <2> QED
    BY <2>1, <2>2, F7Assumption DEF PulseInv, OneOlder, Unstamped, F7Assumption
<1>3. CASE PulseOn
  <2>1. /\ UNCHANGED <<sinceStamp, sincePulse>>
        /\ pulse' \in {NoPulse, [pulse EXCEPT !.pc = "wait"]}
        /\ pulse.pc = "on"
    BY <1>3 DEF PulseOn, PulseCommand
  <2>2. pulse' = NoPulse \/ pulse' \in [pc : {"on", "wait"}, left : Int]
    BY <2>1 DEF PulseInv, NoPulse
  <2> QED
    BY <2>1, <2>2 DEF PulseInv
<1>4. CASE PulseOff \/ F7Restart
  BY <1>4 DEF PulseOff, PulseCommand, F7Restart, PulseInv
<1>5. CASE LatchesF7 \/ SunChanges \/ Report \/ UserSwitches \/ SetConfig \/ UNCHANGED f7Vars
  BY <1>5 DEF LatchesF7, SunChanges, Report, UserSwitches, SetConfig, f7Vars, PulseInv
<1> QED
  BY <1>1, <1>2, <1>3, <1>4, <1>5 DEF F7Next

\* Only a tick begins a pulse, and it has looked at the stamp.
LEMMA PulseBegins ==
  ASSUME PulseInv, [F7Next]_f7Vars, pulse = NoPulse, pulse' # NoPulse
  PROVE  sincePulse >= PulseCooldown
<1>1. CASE F7Tick
  BY <1>1, F7Assumption DEF F7Tick, EvaluateF7, PulseInv, Unstamped, F7Assumption
<1>2. CASE PulseOn \/ PulseOff
  BY <1>2 DEF PulseOn, PulseOff, NoPulse
<1>3. CASE PulseTime \/ F7Restart
  BY <1>3 DEF PulseTime, F7Restart
<1>4. CASE LatchesF7 \/ SunChanges \/ Report \/ UserSwitches \/ SetConfig \/ UNCHANGED f7Vars
  BY <1>4 DEF LatchesF7, SunChanges, Report, UserSwitches, SetConfig, f7Vars
<1> QED
  BY <1>1, <1>2, <1>3, <1>4 DEF F7Next

\* Pulses are PulseCooldown apart for any cooldown and pulse length, whatever is
\* saved, fails or restarts in between.
THEOREM PulsesApart == F7Spec => PulsesSpaced
<1>1. F7Init => PulseInv
  BY F7Assumption DEF F7Init, PulseInv, Unstamped, F7Assumption
<1>2. PulseInv /\ [F7Next]_f7Vars
        => [pulse = NoPulse /\ pulse' # NoPulse => sincePulse >= PulseCooldown]_f7Vars
  BY PulseBegins
<1> QED
  BY <1>1, <1>2, PulseKept, PTL DEF F7Spec, PulsesSpaced
-----------------------------------------------------------------------------
(* Battery packs: once settled, memory and database both hold packs        *)

PackTypeOK ==
  /\ attached \subseteq Packs /\ snapshot \subseteq Packs
  /\ bridgePacks = Unknown \/ bridgePacks \subseteq Packs
  /\ serverPacks = Unknown \/ serverPacks \subseteq Packs
  /\ DOMAIN asking = {"loop", "panel"}
  /\ \A c \in {"loop", "panel"} : asking[c].packs \subseteq Packs

BothHold == settled => snapshot # {} /\ serverPacks \notin {Unknown, {}}

PackInv == PackTypeOK /\ BothHold

\* A caller's request comes to something else.
LEMMA AskingType ==
  ASSUME PackTypeOK, NEW c \in {"loop", "panel"}, NEW pc, NEW packs \in SUBSET Packs,
         asking' = [asking EXCEPT ![c] = [pc |-> pc, packs |-> packs]]
  PROVE  /\ DOMAIN asking' = {"loop", "panel"}
         /\ \A d \in {"loop", "panel"} : asking'[d].packs \subseteq Packs
BY DEF PackTypeOK

LEMMA TakesKept ==
  ASSUME PackInv, NEW c \in {"loop", "panel"}, ServerTakes(c) PROVE PackInv'
<1> DEFINE packs == asking[c].packs
<1>1. PICK readable \in BOOLEAN, writable \in BOOLEAN :
        LET written == writable /\ Recorded(c, packs) = packs /\ packs # {}
        IN  /\ serverPacks' = KeepOrRecord(packs, readable)
            /\ snapshot' = IF written THEN Recorded(c, packs) ELSE snapshot
            /\ settled' = IF written THEN TRUE
                          ELSE settled /\ (readable \/ packs # {}
                                             \/ serverPacks \notin {Unknown, {}})
  BY DEF ServerTakes
<1>2. /\ packs \subseteq Packs /\ UNCHANGED <<attached, bridgePacks>>
      /\ asking' = [asking EXCEPT ![c] = [pc |-> "idle", packs |-> {}]]
  BY DEF PackInv, PackTypeOK, ServerTakes, Nobody
<1>3. packs # Unknown
  BY <1>2, PackAssumption DEF PackAssumption, Unknown
<1> HIDE DEF packs
<1>4. /\ serverPacks' = Unknown \/ serverPacks' \subseteq Packs
      /\ snapshot' \subseteq Packs
  BY <1>1, <1>2 DEF KeepOrRecord, PackInv, PackTypeOK
<1>5. PackTypeOK'
  BY <1>2, <1>4, AskingType DEF PackInv, PackTypeOK
<1>6. snapshot # Unknown
  BY PackAssumption DEF PackAssumption, Unknown, PackInv, PackTypeOK
<1>7. BothHold'
  BY <1>1, <1>3, <1>6 DEF KeepOrRecord, Recorded, PackInv, BothHold
<1> QED
  BY <1>5, <1>7 DEF PackInv

LEMMA PacksKept == PackInv /\ [PackNext]_packVars => PackInv'
<1> SUFFICES ASSUME PackInv, [PackNext]_packVars PROVE PackInv'
  OBVIOUS
<1>1. CASE PackPush \/ PackBridgeRestarts \/ PersistIntervalPasses \/ UNCHANGED packVars
  BY <1>1 DEF PackPush, PackBridgeRestarts, PersistIntervalPasses, packVars, PackInv,
     PackTypeOK, BothHold
<1>2. CASE Attach
  BY <1>2 DEF Attach, PackInv, PackTypeOK, BothHold
<1>3. CASE LoopAsks \/ \E anew \in BOOLEAN : PanelAsks(anew)
  <2>1. /\ UNCHANGED <<attached, bridgePacks, serverPacks, snapshot, settled>>
        /\ \E c \in {"loop", "panel"} :
             asking' = [asking EXCEPT ![c] = [pc |-> "waiting", packs |-> {}]]
    BY <1>3 DEF LoopAsks, PanelAsks
  <2> QED
    BY <2>1, AskingType DEF PackInv, PackTypeOK, BothHold
<1>4. ASSUME NEW c \in {"loop", "panel"}, BridgeAnswers(c) PROVE PackInv'
  <2>1. PICK some \in IF bridgePacks # Unknown THEN {bridgePacks} ELSE {attached, {}} :
          /\ bridgePacks' = some
          /\ asking' = [asking EXCEPT ![c] = [pc |-> "answered", packs |-> some]]
    BY <1>4 DEF BridgeAnswers
  <2>2. some \in SUBSET Packs /\ UNCHANGED <<attached, serverPacks, snapshot, settled>>
    BY <1>4, <2>1 DEF BridgeAnswers, PackInv, PackTypeOK
  <2> QED
    BY <2>1, <2>2, AskingType DEF PackInv, PackTypeOK, BothHold
<1>5. ASSUME NEW c \in {"loop", "panel"}, RequestFails(c) PROVE PackInv'
  <2>1. /\ UNCHANGED <<attached, bridgePacks, serverPacks, snapshot, settled>>
        /\ asking' = [asking EXCEPT ![c] = [pc |-> "idle", packs |-> {}]]
    BY <1>5 DEF RequestFails, Nobody
  <2> QED
    BY <2>1, AskingType DEF PackInv, PackTypeOK, BothHold
<1>6. CASE PackServerRestarts
  <2>1. snapshot # Unknown
    BY PackAssumption DEF PackAssumption, Unknown, PackInv, PackTypeOK
  <2> QED
    BY <1>6, <2>1 DEF PackServerRestarts, PackInv, PackTypeOK, BothHold, Nobody
<1> QED
  BY <1>1, <1>2, <1>3, <1>4, <1>5, <1>6, TakesKept DEF PackNext

\* Packs weigh something.
LEMMA CapacityCounts ==
  ASSUME NEW packs \in SUBSET Packs, packs # {}
  PROVE  TotalCapacity(packs) > MainWh
<1>1. packs \ Unknown = packs /\ IsFiniteSet(packs)
  BY PackAssumption, FS_Subset DEF PackAssumption, Unknown
<1>2. Cardinality(packs) \in Nat /\ Cardinality(packs) # 0
  BY <1>1, FS_CardinalityType, FS_EmptySet
<1>3. \A n \in Nat \ {0} : MainWh + PackWh * n > MainWh
  BY PackAssumption DEF PackAssumption
<1> QED
  BY <1>1, <1>2, <1>3 DEF TotalCapacity

\* However the cloud's empty answers, pushes, restarts of the bridge and of the
\* server and failures of the database interleave, for any set of packs.
THEOREM PacksStayKnown == PackSpec => []PacksRemembered
<1>1. PackInit => PackInv
  BY DEF PackInit, PackInv, PackTypeOK, BothHold, Nobody
<1>2. PackInv => PacksRemembered
  BY CapacityCounts DEF PackInv, PackTypeOK, BothHold, PacksRemembered
<1> QED
  BY <1>1, <1>2, PacksKept, PTL DEF PackSpec
-----------------------------------------------------------------------------
(* A recovered plug: what the pass and the last failure say of the time    *)
(* for which the plug has been reachable                                   *)

SavedEntries ==
  [saved : {TRUE}, fails : 0 .. MaxFails, seen : BOOLEAN, sinceFail : 0 .. Limit,
   isOn : BOOLEAN]

KasaTypeOK ==
  /\ plug \in {"off", "on", "gone"}
  /\ entry = NoEntry \/ entry \in SavedEntries
  /\ pass \in [pc : {"sleep", "walk", "ask", "told", "rest"}, age : Nat,
               what : {"none", "record", "deleted", "off", "on", "gone"}]
  /\ pass.age <= IF pass.pc = "sleep" THEN Base ELSE PassTime
  /\ refresh \in [pc : {"sleep", "told"}, age : 0 .. PassTime,
                  what : {"none", "off", "on", "gone"}]
  /\ backFor \in 0 .. Limit
  /\ pass.pc = "told" => pass.what \in {"off", "on", "gone"}
  /\ refresh.pc = "told" => refresh.what \in {"off", "on", "gone"}

\* An answer that a plug is gone is as old as the time since it is back.
LateAnswers ==
  /\ plug = "gone" => backFor = 0
  /\ pass.pc = "told" /\ pass.what = "gone" => backFor <= pass.age
  /\ refresh.pc = "told" /\ refresh.what = "gone" => backFor <= refresh.age

\* A pass whose list does not have the record is older than the record.
ListIsOlder ==
  /\ pass.what = "record" => pass.pc = "walk" /\ entry.saved
  /\ pass.what = "deleted" => pass.pc = "walk"
  /\ entry.saved /\ pass.pc = "walk" /\ pass.what # "record" => backFor <= pass.age

\* The last failure, and the pass that has left the plug alone or is to ask it.
FailedLately == entry.saved /\ entry.fails > 0 => backFor <= PassTime + entry.sinceFail

AskedSoon ==
  entry.saved /\ StatusOf # "online" =>
    backFor <= pass.age + MaxBackoff
                 + CASE pass.pc = "rest" -> PassTime
                     [] pass.pc = "sleep" -> 2 * PassTime
                     [] OTHER -> 2 * PassTime + Base

KasaInv == KasaTypeOK /\ LateAnswers /\ ListIsOlder /\ FailedLately /\ AskedSoon

LEMMA KasaNumbers ==
  /\ Base \in Nat \ {0} /\ MaxBackoff \in Nat /\ PassTime \in Nat /\ MaxFails \in Nat \ {0}
  /\ Recovery \in Nat /\ Limit \in Nat /\ Limit = MaxBackoff + Base + 3 * PassTime + 1
BY KasaAssumption DEF KasaAssumption, Recovery, Limit

LEMMA SinceIsNumber ==
  ASSUME KasaTypeOK, entry.saved PROVE entry.sinceFail \in 0 .. Limit
<1>1. entry = NoEntry \/ entry \in SavedEntries
  BY DEF KasaTypeOK
<1>2. entry # NoEntry
  BY DEF NoEntry
<1> QED
  BY <1>1, <1>2 DEF SavedEntries

\* What a recorded answer makes of the record.
LEMMA ProbedType ==
  ASSUME NEW what \in {"off", "on", "gone"}, Probed(what),
         entry = NoEntry \/ entry \in SavedEntries
  PROVE  /\ entry' = NoEntry \/ entry' \in SavedEntries
         /\ entry'.saved = entry.saved
         /\ entry'.saved /\ what = "gone" => entry'.fails > 0 /\ entry'.sinceFail = 0
         /\ entry'.saved /\ what # "gone" => entry'.fails = 0 /\ entry'.seen
<1>1. CASE entry = NoEntry
  BY <1>1 DEF Probed, NoEntry
<1>2. CASE entry \in SavedEntries /\ what = "gone"
  <2> DEFINE n == IF entry.fails < MaxFails THEN entry.fails + 1 ELSE entry.fails
  <2>1. n \in 0 .. MaxFails /\ n > 0 /\ 0 \in 0 .. Limit
    BY <1>2, KasaNumbers DEF SavedEntries
  <2>2. entry' = [entry EXCEPT !.fails = n, !.sinceFail = 0]
    BY <1>2 DEF Probed, SavedEntries
  <2> HIDE DEF n
  <2> QED
    BY <1>2, <2>1, <2>2 DEF SavedEntries
<1>3. CASE entry \in SavedEntries /\ what # "gone"
  <2>1. entry' = [entry EXCEPT !.fails = 0, !.seen = TRUE, !.isOn = (what = "on")]
    BY <1>3 DEF Probed, SavedEntries
  <2>2. 0 \in 0 .. MaxFails /\ (what = "on") \in BOOLEAN
    BY KasaNumbers
  <2> QED
    BY <1>3, <2>1, <2>2 DEF SavedEntries
<1> QED
  BY <1>1, <1>2, <1>3

\* The reconciler's own steps but the recording of an answer.
LEMMA PassKept ==
  ASSUME KasaInv, PassStarts \/ PassReaches \/ PassAsks \/ PassEnds
  PROVE  KasaInv'
<1> USE KasaNumbers
<1>1. CASE PassStarts
  <2>1. /\ pass.pc = "sleep" /\ pass.age = Base /\ UNCHANGED <<plug, entry, refresh, backFor>>
        /\ pass' = [pc |-> "walk", age |-> 0, what |-> IF entry.saved THEN "record" ELSE "none"]
    BY <1>1 DEF PassStarts, KasaInv, KasaTypeOK
  <2>2. KasaTypeOK' /\ LateAnswers' /\ ListIsOlder' /\ FailedLately'
    BY <2>1 DEF KasaInv, KasaTypeOK, LateAnswers, ListIsOlder, FailedLately
  <2>3. AskedSoon'
    BY <2>1 DEF KasaInv, KasaTypeOK, AskedSoon, StatusOf
  <2> QED
    BY <2>2, <2>3 DEF KasaInv
<1>2. CASE PassReaches
  <2>1. PICK waits \in Waits :
          pass' = [pass EXCEPT !.pc = IF waits THEN "rest" ELSE "ask", !.what = "none"]
    BY <1>2, Zenon DEF PassReaches
  <2>2. /\ pass.pc = "walk" /\ UNCHANGED <<plug, entry, refresh, backFor>>
        /\ pass'.pc = (IF waits THEN "rest" ELSE "ask") /\ pass'.what = "none"
        /\ pass'.age = pass.age
        /\ pass' \in [pc : {"sleep", "walk", "ask", "told", "rest"}, age : Nat,
                      what : {"none", "record", "deleted", "off", "on", "gone"}]
    <3>1. pass.pc = "walk" /\ UNCHANGED <<plug, entry, refresh, backFor>>
      BY <1>2, Zenon DEF PassReaches
    <3> DEFINE pc == IF waits THEN "rest" ELSE "ask"
    <3>2. pc \in {"rest", "ask"} /\ pass' = [pass EXCEPT !.pc = pc, !.what = "none"]
      BY <2>1, Zenon
    <3> HIDE DEF pc
    <3>3. /\ pass'.pc = pc /\ pass'.what = "none" /\ pass'.age = pass.age
          /\ pass' \in [pc : {"sleep", "walk", "ask", "told", "rest"}, age : Nat,
                        what : {"none", "record", "deleted", "off", "on", "gone"}]
      BY <3>2 DEF KasaInv, KasaTypeOK
    <3> QED
      BY <3>1, <3>3, Zenon DEF pc
  <2>3. KasaTypeOK' /\ LateAnswers' /\ ListIsOlder' /\ FailedLately'
    BY <2>2 DEF KasaInv, KasaTypeOK, LateAnswers, ListIsOlder, FailedLately
  \* A pass leaves alone only what has failed shortly before it began.
  <2>4. ASSUME entry.saved, StatusOf # "online", waits
        PROVE  backFor <= pass.age + MaxBackoff + PassTime
    <3>1. CASE pass.what # "record"
      BY <2>2, <2>4, <3>1 DEF KasaInv, KasaTypeOK, ListIsOlder
    <3>2. CASE pass.what = "record"
      <4>1. entry.fails > 0 /\ entry.sinceFail - pass.age < MaxBackoff
        BY <2>4, <3>2 DEF Waits, TooEarly
      <4>2. entry.sinceFail \in Nat /\ backFor <= PassTime + entry.sinceFail
        BY <2>4, <4>1, SinceIsNumber DEF KasaInv, KasaTypeOK, FailedLately
      <4> QED
        BY <4>1, <4>2 DEF KasaInv, KasaTypeOK
    <3> QED
      BY <3>1, <3>2
  <2>5. AskedSoon'
    BY <2>2, <2>4 DEF KasaInv, KasaTypeOK, AskedSoon, StatusOf
  <2> QED
    BY <2>3, <2>5 DEF KasaInv
<1>3. CASE PassAsks
  <2>1. PICK what \in Seen :
          /\ pass' = [pass EXCEPT !.pc = "told", !.what = what]
          /\ backFor' = IF Busy(what) THEN 0 ELSE backFor
    BY <1>3, Zenon DEF PassAsks
  <2>2. /\ pass.pc = "ask" /\ UNCHANGED <<plug, entry, refresh>>
        /\ what \in {"off", "on", "gone"}
        /\ what = "gone" => backFor' = 0
        /\ backFor' <= backFor /\ backFor' \in 0 .. Limit
    <3>1. pass.pc = "ask" /\ UNCHANGED <<plug, entry, refresh>>
      BY <1>3, Zenon DEF PassAsks
    <3>2. what \in {"off", "on", "gone"} /\ (what = "gone" => backFor' = 0)
      BY <2>1 DEF Seen, Busy, KasaInv, KasaTypeOK, LateAnswers
    <3>3. backFor' <= backFor /\ backFor' \in 0 .. Limit
      BY <2>1 DEF KasaInv, KasaTypeOK
    <3> QED
      BY <3>1, <3>2, <3>3
  <2>3. /\ pass'.pc = "told" /\ pass'.what = what /\ pass'.age = pass.age
        /\ pass' \in [pc : {"sleep", "walk", "ask", "told", "rest"}, age : Nat,
                      what : {"none", "record", "deleted", "off", "on", "gone"}]
    BY <2>1, <2>2 DEF KasaInv, KasaTypeOK
  <2>4. KasaTypeOK' /\ LateAnswers' /\ ListIsOlder'
    BY <2>2, <2>3 DEF KasaInv, KasaTypeOK, LateAnswers, ListIsOlder
  <2>5. FailedLately' /\ AskedSoon'
    BY <2>2, <2>3, SinceIsNumber DEF KasaInv, KasaTypeOK, FailedLately, AskedSoon, StatusOf
  <2> QED
    BY <2>4, <2>5 DEF KasaInv
<1>4. CASE PassEnds
  <2>1. /\ pass.pc = "rest" /\ pass' = Asleep /\ UNCHANGED <<plug, entry, refresh, backFor>>
    BY <1>4 DEF PassEnds
  <2>2. KasaTypeOK' /\ LateAnswers' /\ ListIsOlder' /\ FailedLately'
    BY <2>1 DEF Asleep, KasaInv, KasaTypeOK, LateAnswers, ListIsOlder, FailedLately
  <2>3. AskedSoon'
    BY <2>1 DEF Asleep, KasaInv, KasaTypeOK, AskedSoon, StatusOf
  <2> QED
    BY <2>2, <2>3 DEF KasaInv
<1> QED
  BY <1>1, <1>2, <1>3, <1>4

\* An answer is recorded, of the pass or of the probe.
LEMMA AnswersKept ==
  ASSUME KasaInv, PassRecords \/ Refresh \/ RefreshRecords
  PROVE  KasaInv'
<1> USE KasaNumbers
<1>1. CASE PassRecords
  <2>1. /\ pass.pc = "told" /\ Probed(pass.what) /\ UNCHANGED <<plug, refresh, backFor>>
        /\ pass'.pc = "rest" /\ pass'.what = "none" /\ pass'.age = pass.age
        /\ pass' \in [pc : {"sleep", "walk", "ask", "told", "rest"}, age : Nat,
                      what : {"none", "record", "deleted", "off", "on", "gone"}]
    BY <1>1 DEF PassRecords, KasaInv, KasaTypeOK
  <2>2. pass.what \in {"off", "on", "gone"}
    BY <2>1 DEF KasaInv, KasaTypeOK
  <2>3. /\ entry' = NoEntry \/ entry' \in SavedEntries
        /\ entry'.saved /\ pass.what = "gone" => entry'.fails > 0 /\ entry'.sinceFail = 0
        /\ entry'.saved /\ pass.what # "gone" => entry'.fails = 0 /\ entry'.seen
    BY <2>1, <2>2, ProbedType DEF KasaInv, KasaTypeOK
  <2>4. KasaTypeOK' /\ LateAnswers' /\ ListIsOlder'
    BY <2>1, <2>3 DEF KasaInv, KasaTypeOK, LateAnswers, ListIsOlder
  <2>5. FailedLately' /\ AskedSoon'
    BY <2>1, <2>2, <2>3 DEF KasaInv, KasaTypeOK, LateAnswers, FailedLately, AskedSoon, StatusOf
  <2> QED
    BY <2>4, <2>5 DEF KasaInv
<1>2. CASE Refresh
  <2>1. PICK what \in Seen :
          /\ refresh' = [pc |-> "told", age |-> 0, what |-> what]
          /\ backFor' = IF Busy(what) THEN 0 ELSE backFor
    BY <1>2 DEF Refresh
  <2>2. /\ UNCHANGED <<plug, entry, pass>>
        /\ what \in {"off", "on", "gone"}
        /\ what = "gone" => backFor' = 0
        /\ backFor' <= backFor /\ backFor' \in 0 .. Limit
    <3>1. UNCHANGED <<plug, entry, pass>>
      BY <1>2, Zenon DEF Refresh
    <3>2. what \in {"off", "on", "gone"} /\ (what = "gone" => backFor' = 0)
      BY <2>1 DEF Seen, Busy, KasaInv, KasaTypeOK, LateAnswers
    <3>3. backFor' <= backFor /\ backFor' \in 0 .. Limit
      BY <2>1 DEF KasaInv, KasaTypeOK
    <3> QED
      BY <3>1, <3>2, <3>3
  <2>3. KasaTypeOK' /\ LateAnswers' /\ ListIsOlder'
    BY <2>1, <2>2 DEF KasaInv, KasaTypeOK, LateAnswers, ListIsOlder
  <2>4. FailedLately' /\ AskedSoon'
    BY <2>2, SinceIsNumber DEF KasaInv, KasaTypeOK, FailedLately, AskedSoon, StatusOf
  <2> QED
    BY <2>3, <2>4 DEF KasaInv
<1>3. CASE RefreshRecords
  <2>1. /\ refresh.pc = "told" /\ Probed(refresh.what) /\ UNCHANGED <<plug, pass, backFor>>
        /\ refresh' = Asleep
    BY <1>3 DEF RefreshRecords
  <2>2. refresh.what \in {"off", "on", "gone"}
    BY <2>1 DEF KasaInv, KasaTypeOK
  <2>3. /\ entry' = NoEntry \/ entry' \in SavedEntries
        /\ entry'.saved = entry.saved
        /\ entry'.saved /\ refresh.what = "gone" => entry'.fails > 0 /\ entry'.sinceFail = 0
        /\ entry'.saved /\ refresh.what # "gone" => entry'.fails = 0 /\ entry'.seen
    BY <2>1, <2>2, ProbedType DEF KasaInv, KasaTypeOK
  <2>4. KasaTypeOK' /\ LateAnswers' /\ ListIsOlder'
    BY <2>1, <2>3 DEF Asleep, KasaInv, KasaTypeOK, LateAnswers, ListIsOlder
  <2>5. FailedLately' /\ AskedSoon'
    BY <2>1, <2>2, <2>3 DEF KasaInv, KasaTypeOK, LateAnswers, FailedLately, AskedSoon, StatusOf
  <2> QED
    BY <2>4, <2>5 DEF KasaInv
<1> QED
  BY <1>1, <1>2, <1>3

\* The plug comes and goes, is switched, saved and deleted.
LEMMA RegistryKept ==
  ASSUME KasaInv, TestToggle \/ Save \/ Delete \/ PlugLeaves \/ PlugReturns
  PROVE  KasaInv'
<1> USE KasaNumbers
<1>1. CASE TestToggle
  <2>1. plug # "gone" /\ plug' \in {"off", "on"} /\ UNCHANGED <<entry, pass, refresh, backFor>>
    BY <1>1 DEF TestToggle
  <2> QED
    BY <2>1 DEF KasaInv, KasaTypeOK, LateAnswers, ListIsOlder, FailedLately, AskedSoon, StatusOf
<1>2. CASE Save /\ entry.saved
  <2>1. UNCHANGED <<plug, entry, pass, refresh, backFor>>
    BY <1>2 DEF Save
  <2> QED
    BY <2>1 DEF KasaInv, KasaTypeOK, LateAnswers, ListIsOlder, FailedLately, AskedSoon, StatusOf
<1>3. CASE Save /\ ~entry.saved
  <2>1. entry' = NewEntry /\ backFor' = 0 /\ UNCHANGED <<plug, pass, refresh>>
    BY <1>3 DEF Save
  <2>2. entry' \in SavedEntries
    BY <2>1 DEF NewEntry, SavedEntries
  <2>3. KasaTypeOK' /\ LateAnswers' /\ ListIsOlder'
    BY <1>3, <2>1, <2>2 DEF NewEntry, KasaInv, KasaTypeOK, LateAnswers, ListIsOlder
  <2>4. FailedLately' /\ AskedSoon'
    BY <2>1 DEF NewEntry, KasaInv, KasaTypeOK, FailedLately, AskedSoon, StatusOf
  <2> QED
    BY <2>3, <2>4 DEF KasaInv
<1>4. CASE Delete
  <2>1. /\ entry.saved /\ entry' = NoEntry /\ UNCHANGED <<plug, refresh, backFor>>
        /\ pass' = IF pass.what = "record" THEN [pass EXCEPT !.what = "deleted"] ELSE pass
    BY <1>4 DEF Delete
  <2>2. /\ pass' \in [pc : {"sleep", "walk", "ask", "told", "rest"}, age : Nat,
                      what : {"none", "record", "deleted", "off", "on", "gone"}]
        /\ pass'.pc = pass.pc /\ pass'.age = pass.age
        /\ pass'.what = IF pass.what = "record" THEN "deleted" ELSE pass.what
    BY <2>1 DEF KasaInv, KasaTypeOK
  <2> QED
    BY <2>1, <2>2
    DEF NoEntry, KasaInv, KasaTypeOK, LateAnswers, ListIsOlder, FailedLately, AskedSoon
<1>5. CASE PlugLeaves \/ PlugReturns
  <2>1. plug' \in {"off", "on", "gone"} /\ backFor' = 0 /\ UNCHANGED <<entry, pass, refresh>>
    BY <1>5 DEF PlugLeaves, PlugReturns
  <2>2. KasaTypeOK' /\ LateAnswers' /\ ListIsOlder'
    BY <2>1 DEF KasaInv, KasaTypeOK, LateAnswers, ListIsOlder
  <2>3. FailedLately' /\ AskedSoon'
    BY <2>1, SinceIsNumber DEF KasaInv, KasaTypeOK, FailedLately, AskedSoon, StatusOf
  <2> QED
    BY <2>2, <2>3 DEF KasaInv
<1> QED
  BY <1>1, <1>2, <1>3, <1>4, <1>5

LEMMA KasaTimeKept == KasaInv /\ KasaTime => KasaInv'
<1> SUFFICES ASSUME KasaInv, KasaTime PROVE KasaInv'
  OBVIOUS
<1> USE KasaNumbers
<1>1. /\ pass.age < IF pass.pc = "sleep" THEN Base ELSE PassTime
      /\ refresh.pc = "told" => refresh.age < PassTime
      /\ pass' = [pass EXCEPT !.age = @ + 1]
      /\ refresh' = IF refresh.pc = "told" THEN [refresh EXCEPT !.age = @ + 1] ELSE refresh
      /\ entry' = IF entry.saved THEN [entry EXCEPT !.sinceFail = Aged(@)] ELSE entry
      /\ backFor' = IF plug = "gone" THEN 0 ELSE Aged(backFor)
      /\ UNCHANGED plug
  BY DEF KasaTime
<1>2. /\ pass' \in [pc : {"sleep", "walk", "ask", "told", "rest"}, age : Nat,
                    what : {"none", "record", "deleted", "off", "on", "gone"}]
      /\ pass'.pc = pass.pc /\ pass'.age = pass.age + 1 /\ pass'.what = pass.what
  BY <1>1 DEF KasaInv, KasaTypeOK
<1>3. /\ refresh' \in [pc : {"sleep", "told"}, age : 0 .. PassTime,
                       what : {"none", "off", "on", "gone"}]
      /\ refresh'.pc = refresh.pc /\ refresh'.what = refresh.what
      /\ refresh.pc = "told" => refresh'.age = refresh.age + 1
  BY <1>1 DEF KasaInv, KasaTypeOK
<1>4. backFor' \in 0 .. Limit /\ backFor' <= backFor + 1
  BY <1>1 DEF Aged, KasaInv, KasaTypeOK
<1>5. CASE entry = NoEntry
  <2>1. entry' = NoEntry /\ ~entry'.saved
    BY <1>1, <1>5 DEF NoEntry
  <2>2. KasaTypeOK' /\ LateAnswers'
    BY <1>1, <1>2, <1>3, <1>4, <2>1 DEF KasaInv, KasaTypeOK, LateAnswers
  <2> QED
    BY <1>2, <1>5, <2>1, <2>2 DEF KasaInv, ListIsOlder, FailedLately, AskedSoon
<1>6. CASE entry \in SavedEntries
  <2>1. /\ entry' \in SavedEntries /\ entry'.saved /\ entry.saved
        /\ entry'.fails = entry.fails /\ entry'.seen = entry.seen
        /\ entry'.sinceFail = Aged(entry.sinceFail)
    <3>1. entry' = [entry EXCEPT !.sinceFail = Aged(entry.sinceFail)]
      BY <1>1, <1>6 DEF SavedEntries
    <3>2. Aged(entry.sinceFail) \in 0 .. Limit
      BY <1>6 DEF SavedEntries, Aged
    <3> QED
      BY <1>6, <3>1, <3>2 DEF SavedEntries
  <2>2. KasaTypeOK' /\ LateAnswers'
    BY <1>1, <1>2, <1>3, <1>4, <2>1 DEF KasaInv, KasaTypeOK, LateAnswers
  <2>3. ListIsOlder'
    BY <1>2, <1>4, <2>1 DEF KasaInv, KasaTypeOK, ListIsOlder
  <2>4. FailedLately'
    <3>1. entry.sinceFail \in 0 .. Limit
      BY <1>6 DEF SavedEntries
    <3> QED
      BY <1>4, <2>1, <3>1 DEF KasaInv, KasaTypeOK, FailedLately, Aged
  <2>5. AskedSoon'
    BY <1>2, <1>4, <2>1 DEF KasaInv, KasaTypeOK, AskedSoon, StatusOf
  <2> QED
    BY <2>2, <2>3, <2>4, <2>5 DEF KasaInv
<1> QED
  BY <1>5, <1>6 DEF KasaInv, KasaTypeOK

\* For any pace of the reconciler and length of its passes, and any answers,
\* refreshes, saves and deletions meanwhile.
THEOREM RecoveryIsSeen == KasaSpec => []RecoveredPlugSeen
<1>1. KasaInit => KasaInv
  BY KasaNumbers DEF KasaInit, Asleep, NoEntry, KasaInv, KasaTypeOK, LateAnswers, ListIsOlder,
     FailedLately, AskedSoon
<1>2. KasaInv /\ UNCHANGED kasaVars => KasaInv'
  BY DEF kasaVars, KasaInv, KasaTypeOK, LateAnswers, ListIsOlder, FailedLately, AskedSoon, StatusOf
<1>3. KasaInv /\ [KasaNext]_kasaVars => KasaInv'
  BY <1>2, PassKept, AnswersKept, RegistryKept, KasaTimeKept DEF KasaNext
<1>4. KasaInv => RecoveredPlugSeen
  BY KasaNumbers DEF KasaInv, KasaTypeOK, AskedSoon, RecoveredPlugSeen, Recovery
<1> QED
  BY <1>1, <1>3, <1>4, PTL DEF KasaSpec
-----------------------------------------------------------------------------
(* Who sees what: sockets are numbered as they are opened, a broadcast     *)
(* goes through them in that order, and a browser in the midst of a        *)
(* selection has the new view on its socket and the old one in its cookie  *)

\* Every set of numbers up to a bound has a least one.
LEMMA Smallest ==
  ASSUME NEW n \in Nat, NEW S \in SUBSET (0 .. n), S # {}
  PROVE  \E m \in S : \A k \in S : m <= k
<1> DEFINE R == StrictSubsetOrdering(0 .. n)
           below == {0 .. m : m \in S}
<1>1. IsWellFoundedOn(R, FiniteSubsetsOf(0 .. n))
  BY FS_StrictSubsetOrderingWellFounded
<1>2. below \subseteq FiniteSubsetsOf(0 .. n) /\ below # {}
  <2>1. \A m \in S : 0 .. m \subseteq 0 .. n /\ 0 .. m \in below
    OBVIOUS
  <2>2. \A m \in S : IsFiniteSet(0 .. m)
    BY FS_Interval
  <2>3. \A m \in S : 0 .. m \in FiniteSubsetsOf(0 .. n)
    BY <2>1, <2>2 DEF FiniteSubsetsOf
  <2> QED
    BY <2>1, <2>3
<1>3. PICK x \in below : \A y \in below : ~ (<<y, x>> \in R)
  <2> HIDE DEF R, below
  <2> QED
    BY <1>1, <1>2, WFMin
<1>4. PICK m \in S : x = 0 .. m
  OBVIOUS
<1>5. ASSUME NEW k \in S, k < m PROVE FALSE
  <2>1. 0 .. k \in below /\ 0 .. k \subseteq 0 .. m /\ m \in 0 .. m /\ m \notin 0 .. k
    BY <1>5
  <2>2. <<0 .. k, 0 .. m>> \in R
    BY <1>2, <2>1 DEF StrictSubsetOrdering
  <2> QED
    BY <1>3, <1>4, <2>1, <2>2
<1> QED
  BY <1>5

FanoutTypeOK ==
  /\ sockets \in 0 .. MaxOpened
  /\ socket \in [Browsers -> 0 .. sockets]
  /\ DOMAIN cookie = Browsers /\ DOMAIN view = Browsers /\ DOMAIN shown = Browsers
  /\ DOMAIN fanout = Tasks
  /\ \A t \in Tasks : /\ DOMAIN fanout[t] = {"pc", "at", "size", "choice"}
                      /\ fanout[t].pc \in {"idle", "sending"} /\ fanout[t].at \in Nat

Numbered == \A b, c \in Clients : socket[b] = socket[c] => b = c

\* What a browser's socket and cookie say, and what its own selection, when one
\* is on its way, has done about it.
Settled(b) == view[b] = cookie[b] /\ shown[b] = cookie[b]
Selecting(b) ==
  /\ view[b] = fanout[b].choice
  /\ socket[b] <= fanout[b].at => shown[b] = view[b]

Consistent(b) == IF fanout[b].pc = "idle" THEN Settled(b) ELSE Selecting(b)

FanoutInv ==
  FanoutTypeOK /\ Numbered /\ (secured => \A b \in Clients \ parted : Consistent(b))

LEMMA ClientsAre ==
  ASSUME FanoutTypeOK
  PROVE  /\ Clients = {b \in Browsers : socket[b] \in 1 .. sockets}
         /\ Browsers \subseteq Tasks /\ Server \in Tasks
BY DEF FanoutTypeOK, Clients, Tasks

\* The first of some sockets is one of them, and none is before it.
LEMMA FirstIs ==
  ASSUME FanoutTypeOK, NEW bs \in SUBSET Browsers, bs # {}
  PROVE  First(bs) \in bs /\ \A c \in bs : socket[First(bs)] <= socket[c]
<1> DEFINE S == {socket[b] : b \in bs}
<1>1. S \in SUBSET (0 .. sockets) /\ S # {} /\ sockets \in Nat
  BY FanoutAssumption DEF FanoutTypeOK, FanoutAssumption
<1>2. PICK m \in S : \A k \in S : m <= k
  <2> HIDE DEF S
  <2> QED
    BY <1>1, Smallest
<1>3. \E b \in bs : \A c \in bs : socket[b] <= socket[c]
  BY <1>2
<1> QED
  BY <1>3 DEF First

\* A message is sent to the socket c: its browser is shown what its view is,
\* and the broadcast of the task t is now there.
LEMMA Sends ==
  ASSUME FanoutInv, NEW t \in Tasks, NEW c \in Clients,
         fanout[t].pc = "sending", UNCHANGED <<secured, cookie, sockets, socket, view, parted>>,
         \A b \in Clients : socket[b] > fanout[t].at => socket[c] <= socket[b],
         shown' = [shown EXCEPT ![c] = view[c]],
         fanout' = [fanout EXCEPT ![t].at = socket[c]]
  PROVE  FanoutInv'
<1>1. FanoutTypeOK' /\ Clients' = Clients
  BY ClientsAre DEF FanoutInv, FanoutTypeOK, Clients
<1>2. Numbered'
  BY <1>1 DEF FanoutInv, Numbered, Clients
<1>3. ASSUME secured, NEW b \in Clients \ parted PROVE Consistent(b)'
  <2>1. /\ Consistent(b) /\ b \in Browsers /\ b \in Tasks /\ c \in Browsers
        /\ socket[b] \in Nat /\ socket[c] \in Nat /\ fanout[b].at \in Nat
    BY <1>3, ClientsAre DEF FanoutInv, FanoutTypeOK
  <2>2. /\ fanout'[b].pc = fanout[b].pc /\ fanout'[b].choice = fanout[b].choice
        /\ fanout'[b].at = IF b = t THEN socket[c] ELSE fanout[b].at
    BY <2>1 DEF FanoutInv, FanoutTypeOK
  <2>3. shown'[b] = IF b = c THEN view[b] ELSE shown[b]
    BY <2>1 DEF FanoutInv, FanoutTypeOK
  <2>4. CASE fanout[b].pc = "idle"
    BY <2>1, <2>2, <2>3, <2>4 DEF Consistent, Settled
  <2>5. CASE fanout[b].pc # "idle"
    <3>1. b = t /\ b # c /\ socket[b] <= socket[c] => socket[b] <= fanout[b].at
      BY <1>3, <2>1 DEF FanoutInv, Numbered
    <3> QED
      BY <2>1, <2>2, <2>3, <2>5, <3>1 DEF Consistent, Selecting
  <2> QED
    BY <2>4, <2>5
<1> QED
  BY <1>1, <1>2, <1>3 DEF FanoutInv

LEMMA SendKept ==
  ASSUME FanoutInv, NEW t \in Tasks, SendNext(t) PROVE FanoutInv'
<1> DEFINE c == First(Unreached(t))
<1>1. Unreached(t) \in SUBSET Browsers /\ Unreached(t) # {} /\ FanoutTypeOK
  BY DEF SendNext, Unreached, Clients, FanoutInv
<1>2. c \in Unreached(t) /\ \A b \in Unreached(t) : socket[c] <= socket[b]
  BY <1>1, FirstIs
<1>3. /\ fanout[t].pc = "sending" /\ UNCHANGED <<secured, cookie, sockets, socket, view, parted>>
      /\ shown' = [shown EXCEPT ![c] = view[c]]
      /\ fanout' = [fanout EXCEPT ![t].at = socket[c]]
  BY DEF SendNext
<1> HIDE DEF c
<1>4. c \in Clients /\ \A b \in Clients : socket[b] > fanout[t].at => socket[c] <= socket[b]
  BY <1>2 DEF Unreached
<1> QED
  BY <1>3, <1>4, Sends

\* A broadcast begins: of the server, or of a browser that selects v.
LEMMA IteratesType ==
  ASSUME FanoutTypeOK, NEW t \in Tasks, NEW choice, NEW views, Clients # {},
         Iterates(t, choice, views), DOMAIN view' = Browsers,
         UNCHANGED <<sockets, socket, cookie>>
  PROVE  /\ FanoutTypeOK'
         /\ First(Clients) \in Clients
         /\ \A b \in Clients : socket[First(Clients)] <= socket[b]
         /\ shown' = [shown EXCEPT ![First(Clients)] = views[First(Clients)]]
         /\ fanout'[t].pc = "sending" /\ fanout'[t].at = socket[First(Clients)]
         /\ fanout'[t].choice = choice
         /\ \A u \in Tasks \ {t} : fanout'[u] = fanout[u]
<1>1. First(Clients) \in Clients /\ \A b \in Clients : socket[First(Clients)] <= socket[b]
  BY FirstIs DEF Clients
<1>2. socket[First(Clients)] \in Nat
  BY <1>1 DEF FanoutTypeOK, Clients
<1> QED
  BY <1>1, <1>2 DEF Iterates, FanoutTypeOK

LEMMA PollKept == FanoutInv /\ PollBroadcast => FanoutInv'
<1> SUFFICES ASSUME FanoutInv, PollBroadcast PROVE FanoutInv'
  OBVIOUS
<1>1. /\ Clients # {} /\ Iterates(Server, NoView, view)
      /\ UNCHANGED <<secured, cookie, sockets, socket, view, parted>>
      /\ FanoutTypeOK
  BY DEF PollBroadcast, FanoutInv
<1>2. DOMAIN view' = Browsers /\ Server \in Tasks
  BY <1>1 DEF FanoutTypeOK, Tasks
<1>3. /\ FanoutTypeOK' /\ First(Clients) \in Clients
      /\ shown' = [shown EXCEPT ![First(Clients)] = view[First(Clients)]]
      /\ \A u \in Tasks \ {Server} : fanout'[u] = fanout[u]
  BY <1>1, <1>2, IteratesType
<1>4. Clients' = Clients /\ Numbered'
  BY <1>1 DEF Clients, FanoutInv, Numbered
<1>5. ASSUME secured, NEW b \in Clients \ parted PROVE Consistent(b)'
  <2>1. /\ Consistent(b) /\ b \in Browsers /\ b \in Tasks \ {Server}
    BY <1>5, FanoutAssumption DEF FanoutInv, Clients, Tasks, FanoutAssumption
  <2>2. fanout'[b] = fanout[b]
    BY <1>3, <2>1
  <2>3. shown'[b] \in {shown[b], view[b]} /\ (shown[b] = view[b] => shown'[b] = view[b])
    BY <1>3, <2>1 DEF FanoutInv, FanoutTypeOK
  <2> QED
    BY <1>1, <2>1, <2>2, <2>3 DEF Consistent, Settled, Selecting
<1> QED
  BY <1>1, <1>3, <1>4, <1>5 DEF FanoutInv

LEMMA SelectKept ==
  ASSUME FanoutInv, NEW b \in Browsers, NEW v, SelectView(b, v) PROVE FanoutInv'
<1>1. /\ fanout[b].pc = "idle"
      /\ view' = [c \in Browsers |-> IF c \in Bumped(b) THEN v ELSE view[c]]
      /\ UNCHANGED <<secured, sockets, socket, parted>>
      /\ FanoutTypeOK /\ b \in Tasks
  BY DEF SelectView, FanoutInv, Tasks
<1>2. Clients' = Clients /\ Numbered'
  BY <1>1 DEF Clients, FanoutInv, Numbered
<1>3. ASSUME secured, NEW c \in Browsers
      PROVE  view'[c] = IF c = b /\ c \in Clients THEN v ELSE view[c]
  BY <1>1, <1>3 DEF Bumped
<1>4. CASE Clients = {}
  <2>1. /\ cookie' = [cookie EXCEPT ![b] = v] /\ UNCHANGED <<shown, fanout>>
    BY <1>4 DEF SelectView
  <2> QED
    BY <1>1, <1>2, <1>4, <2>1 DEF FanoutInv, FanoutTypeOK
<1>5. CASE Clients # {}
  <2>1. Iterates(b, v, view') /\ UNCHANGED cookie
    BY <1>5 DEF SelectView
  <2>2. DOMAIN view' = Browsers
    BY <1>1
  <2> DEFINE f == First(Clients)
  <2>3. /\ FanoutTypeOK' /\ f \in Clients /\ \A c \in Clients : socket[f] <= socket[c]
        /\ shown' = [shown EXCEPT ![f] = view'[f]]
        /\ fanout'[b].pc = "sending" /\ fanout'[b].at = socket[f] /\ fanout'[b].choice = v
        /\ \A u \in Tasks \ {b} : fanout'[u] = fanout[u]
    BY <1>1, <1>5, <2>1, <2>2, IteratesType
  <2> HIDE DEF f
  <2>4. ASSUME secured, NEW c \in Clients \ parted PROVE Consistent(c)'
    <3>1. /\ c \in Browsers /\ c \in Tasks /\ Consistent(c) /\ f \in Browsers
          /\ socket[c] \in Nat /\ socket[f] \in Nat
      BY <2>3, <2>4, <1>1 DEF FanoutInv, FanoutTypeOK, Clients, Tasks
    <3>2. shown'[c] = IF c = f THEN view'[c] ELSE shown[c]
      BY <2>3, <3>1 DEF FanoutInv, FanoutTypeOK
    <3>3. CASE c = b
      <4>1. view'[c] = v /\ fanout'[c].pc = "sending" /\ fanout'[c].choice = v
            /\ fanout'[c].at = socket[f]
        BY <1>3, <2>3, <2>4, <3>3
      <4>2. socket'[c] <= socket[f] => c = f
        BY <1>1, <2>3, <2>4, <3>1 DEF FanoutInv, Numbered
      <4> QED
        BY <3>2, <4>1, <4>2 DEF Consistent, Selecting
    <3>4. CASE c # b
      <4>1. view'[c] = view[c] /\ fanout'[c] = fanout[c]
        BY <1>3, <2>3, <2>4, <3>1, <3>4
      <4> QED
        BY <1>1, <2>1, <3>1, <3>2, <4>1 DEF Consistent, Settled, Selecting
    <3> QED
      BY <3>3, <3>4
  <2> QED
    BY <1>1, <1>2, <2>3, <2>4 DEF FanoutInv
<1> QED
  BY <1>4, <1>5

\* Sockets go: nothing changes for the others.
LEMMA GoneType ==
  ASSUME FanoutTypeOK, NEW gone \in SUBSET Browsers, Without(gone), UNCHANGED sockets
  PROVE  /\ socket' \in [Browsers -> 0 .. sockets']
         /\ DOMAIN view' = Browsers /\ DOMAIN shown' = Browsers
         /\ Clients' = Clients \ gone
         /\ \A b \in Clients' : /\ socket'[b] = socket[b] /\ view'[b] = view[b]
                                /\ shown'[b] = shown[b]
<1>1. 0 \in 0 .. sockets
  BY FanoutAssumption DEF FanoutTypeOK, FanoutAssumption
<1> QED
  BY <1>1 DEF FanoutTypeOK, Without, Clients

LEMMA DisconnectKept ==
  ASSUME FanoutInv, NEW b \in Browsers, Disconnect(b) PROVE FanoutInv'
<1>1. Without({b}) /\ UNCHANGED <<secured, cookie, sockets, fanout, parted>> /\ FanoutTypeOK
  BY DEF Disconnect, FanoutInv
<1>2. /\ socket' \in [Browsers -> 0 .. sockets']
      /\ DOMAIN view' = Browsers /\ DOMAIN shown' = Browsers
      /\ Clients' = Clients \ {b}
      /\ \A c \in Clients' : socket'[c] = socket[c] /\ view'[c] = view[c] /\ shown'[c] = shown[c]
  BY <1>1, GoneType
<1>3. FanoutTypeOK' /\ Numbered'
  BY <1>1, <1>2 DEF FanoutInv, FanoutTypeOK, Numbered
<1> QED
  BY <1>1, <1>2, <1>3 DEF FanoutInv, Consistent, Settled, Selecting

LEMMA EndsKept ==
  ASSUME FanoutInv, NEW t \in Tasks, BroadcastEnds(t) PROVE FanoutInv'
<1>1. PICK dead \in SUBSET Clients : Without(dead)
  BY DEF BroadcastEnds
<1>2. /\ fanout[t].pc = "sending" /\ Unreached(t) = {} /\ FanoutTypeOK
      /\ cookie' = IF t = Server THEN cookie ELSE [cookie EXCEPT ![t] = fanout[t].choice]
      /\ fanout' = [fanout EXCEPT ![t] = Quiet]
      /\ UNCHANGED <<secured, sockets, parted>>
  BY DEF BroadcastEnds, FanoutInv
<1>3. /\ socket' \in [Browsers -> 0 .. sockets']
      /\ DOMAIN view' = Browsers /\ DOMAIN shown' = Browsers
      /\ Clients' = Clients \ dead
      /\ \A c \in Clients' : socket'[c] = socket[c] /\ view'[c] = view[c] /\ shown'[c] = shown[c]
  BY <1>1, <1>2, GoneType DEF Clients
<1>4. FanoutTypeOK' /\ Numbered'
  BY <1>2, <1>3 DEF FanoutInv, FanoutTypeOK, Numbered, Quiet
<1>5. ASSUME secured, NEW b \in Clients' \ parted PROVE Consistent(b)'
  <2>1. /\ b \in Clients /\ b \in Browsers /\ b \in Tasks /\ Consistent(b) /\ b # Server
        /\ socket[b] \in Nat /\ fanout[b].at \in Nat
    BY <1>2, <1>3, <1>5, FanoutAssumption
    DEF FanoutInv, FanoutTypeOK, Clients, Tasks, FanoutAssumption
  <2>2. CASE b = t
    <3>1. socket[b] <= fanout[b].at
      BY <1>2, <2>1, <2>2 DEF Unreached
    <3>2. view[b] = fanout[b].choice /\ shown[b] = view[b]
      BY <1>2, <2>1, <2>2, <3>1 DEF Consistent, Selecting
    <3>3. cookie'[b] = fanout[b].choice /\ fanout'[b].pc = "idle"
      BY <1>2, <2>1, <2>2 DEF FanoutTypeOK, Quiet
    <3> QED
      BY <1>3, <1>5, <3>2, <3>3 DEF Consistent, Settled
  <2>3. CASE b # t
    <3>1. cookie'[b] = cookie[b] /\ fanout'[b] = fanout[b]
      BY <1>2, <2>1, <2>3 DEF FanoutTypeOK
    <3> QED
      BY <1>3, <1>5, <2>1, <3>1 DEF Consistent, Settled, Selecting
  <2> QED
    BY <2>2, <2>3
<1> QED
  BY <1>2, <1>4, <1>5 DEF FanoutInv

LEMMA InterruptedKept ==
  ASSUME FanoutInv, NEW t \in Tasks, Interrupted(t) PROVE FanoutInv'
<1>1. /\ fanout' = [fanout EXCEPT ![t] = Quiet] /\ FanoutTypeOK
      /\ parted' = parted \cup ({t} \cap Browsers) \cup Clients
      /\ UNCHANGED <<secured, cookie, sockets, socket, view, shown>>
  BY DEF Interrupted, FanoutInv
<1>2. FanoutTypeOK' /\ Clients' = Clients /\ Numbered'
  BY <1>1 DEF FanoutInv, FanoutTypeOK, Numbered, Clients, Quiet
<1> QED
  BY <1>1, <1>2 DEF FanoutInv

\* A socket is opened: it has a number of its own, and a browser that is in the
\* midst of a selection is one whose view and cookie may differ.
LEMMA ConnectKept ==
  ASSUME FanoutInv, NEW b \in Browsers, Connect(b) PROVE FanoutInv'
<1>1. /\ socket[b] = 0 /\ sockets < MaxOpened /\ sockets' = sockets + 1
      /\ socket' = [socket EXCEPT ![b] = sockets + 1]
      /\ view' = [view EXCEPT ![b] = cookie[b]] /\ shown' = [shown EXCEPT ![b] = cookie[b]]
      /\ parted' = IF fanout[b].pc = "idle" THEN parted \ {b} ELSE parted \cup {b}
      /\ UNCHANGED <<secured, cookie, fanout>> /\ FanoutTypeOK
  BY DEF Connect, FanoutInv
<1>2. FanoutTypeOK'
  <2>1. sockets' \in 0 .. MaxOpened /\ sockets \in Nat
    BY <1>1, FanoutAssumption DEF FanoutTypeOK, FanoutAssumption
  <2>2. socket' \in [Browsers -> 0 .. sockets']
    BY <1>1, <2>1 DEF FanoutTypeOK
  <2> QED
    BY <1>1, <2>1, <2>2 DEF FanoutTypeOK
<1>3. /\ Clients' = Clients \cup {b}
      /\ \A c \in Clients : /\ c # b /\ c \in Browsers /\ socket'[c] = socket[c]
                            /\ view'[c] = view[c] /\ shown'[c] = shown[c]
                            /\ socket[c] < socket'[b]
      /\ socket'[b] = sockets + 1 /\ view'[b] = cookie[b] /\ shown'[b] = cookie[b]
  BY <1>1, FanoutAssumption DEF FanoutTypeOK, Clients, FanoutAssumption
<1>4. Numbered'
  <2>1. \A c \in Clients : socket[c] \in Nat
    BY <1>1 DEF FanoutTypeOK, Clients
  <2> QED
    BY <1>1, <1>3, <2>1 DEF FanoutInv, FanoutTypeOK, Numbered
<1>5. ASSUME secured, NEW c \in Clients' \ parted' PROVE Consistent(c)'
  <2>1. CASE c = b
    BY <1>1, <1>3, <1>5, <2>1 DEF Consistent, Settled
  <2>2. CASE c # b
    BY <1>1, <1>3, <1>5, <2>2 DEF FanoutInv, Consistent, Settled, Selecting
  <2> QED
    BY <2>1, <2>2
<1> QED
  BY <1>1, <1>2, <1>4, <1>5 DEF FanoutInv

\* For any number of browsers, views and sockets, and any interleaving of the
\* broadcasts with selections, sockets that come and go, and failed sends.
THEOREM OwnViewShown == FanoutSpec => []EachSeesItsOwn
<1>1. FanoutInit => FanoutInv
  BY FanoutAssumption DEF FanoutInit, FanoutInv, FanoutTypeOK, Numbered, Clients, Quiet,
     FanoutAssumption
<1>2. FanoutInv /\ UNCHANGED fanoutVars => FanoutInv'
  BY DEF fanoutVars, FanoutInv, FanoutTypeOK, Numbered, Clients, Consistent, Settled, Selecting
<1>3. FanoutInv /\ [FanoutNext]_fanoutVars => FanoutInv'
  BY <1>2, ConnectKept, DisconnectKept, SelectKept, PollKept, InterruptedKept, SendKept, EndsKept
  DEF FanoutNext
<1>4. FanoutInv => EachSeesItsOwn
  BY DEF FanoutInv, EachSeesItsOwn, Consistent, Settled
<1> QED
  BY <1>1, <1>3, <1>4, PTL DEF FanoutSpec

-----------------------------------------------------------------------------
(* The smart charge planner.  While the target is within reach, it stays   *)
(* so: with the plug on nothing is lost, and with the plug off what is     *)
(* missing fits into fewer whole hours than are left after this one.       *)

LEMMA SmartConstants ==
  /\ Hours \in Nat /\ Hours > 0 /\ PerHour \in Nat /\ PerHour > 0
  /\ Gain \in Nat /\ Gain > 0 /\ Drain \in Nat /\ Drain > 0 /\ Target \in Nat
  /\ Full \in Nat /\ Full = Target + 2 * Gain
  /\ Sunrise \in Nat /\ Sunrise = Hours * PerHour
  /\ HourlyGain \in Nat /\ HourlyGain > 0 /\ HourlyGain = PerHour * (Gain + Drain)
<1>1. /\ Hours \in Nat /\ Hours > 0 /\ PerHour \in Nat /\ PerHour > 0
      /\ Gain \in Nat /\ Gain > 0 /\ Drain \in Nat /\ Drain > 0 /\ Target \in Nat
  BY SmartChargeAssumption DEF SmartChargeAssumption
<1>2. Full \in Nat /\ Full = Target + 2 * Gain
  BY <1>1 DEF Full
<1>3. Sunrise \in Nat /\ Sunrise = Hours * PerHour
  BY <1>1 DEF Sunrise
<1>4. HourlyGain \in Nat /\ HourlyGain > 0 /\ HourlyGain = PerHour * (Gain + Drain)
  BY <1>1 DEF HourlyGain
<1> QED
  BY <1>1, <1>2, <1>3, <1>4

LEMMA ClampIs ==
  ASSUME NEW x \in Int
  PROVE  /\ Clamp(x) \in 0 .. Full
         /\ x \in 0 .. Full => Clamp(x) = x
         /\ x > Full => Clamp(x) = Full
         /\ x < 0 => Clamp(x) = 0
<1> DEFINE m == Min({x, Full})
<1>1. Full \in Int /\ Full >= 0
  BY SmartConstants
<1>2. m \in {x, Full} /\ m <= x /\ m <= Full
  BY <1>1, MinOfTwo
<1>3. Clamp(x) = Max({0, m})
  BY DEF Clamp
<1> HIDE DEF m
<1>4. m \in Int /\ 0 \in Int
  BY <1>1, <1>2
<1>5. Max({0, m}) \in {0, m} /\ 0 <= Max({0, m}) /\ m <= Max({0, m})
  BY <1>4, MaxOfTwo
<1> QED
  BY <1>1, <1>2, <1>3, <1>4, <1>5

\* Can the target still be reached with the plug on from tick t?
Reach(t, soc) == soc + Gain * (Sunrise - t) >= Target

LEMMA WithinIsReach ==
  ASSUME NEW t \in 0 .. Sunrise, NEW soc \in 0 .. Full
  PROVE  Within(t, soc) <=> Reach(t, soc)
<1>1. soc + Gain * (Sunrise - t) \in Int
  BY SmartConstants
<1> QED
  BY <1>1, ClampIs, SmartConstants DEF Within, BestCase, Reach

LEMMA AddAndTake ==
  ASSUME NEW a \in Int, NEW b \in Int, NEW m \in Int
  PROVE  a * (m + 1) = a * m + a /\ (a + b) * m = a * m + b * m
  OBVIOUS

LEMMA TimesLess ==
  ASSUME NEW a \in Int, NEW b \in Int, NEW c \in Nat, a <= b
  PROVE  c * a <= c * b
  OBVIOUS

LEMMA CeilCovers ==
  ASSUME NEW a \in Nat, NEW b \in Nat, b > 0
  PROVE  CeilDiv(a, b) \in Nat /\ a <= b * CeilDiv(a, b)
  BY DEF CeilDiv

\* What is missing fits into the hours that are planned.
LEMMA NeededCovers ==
  ASSUME NEW deficit \in Nat
  PROVE  NeededHours(deficit) \in Nat /\ deficit <= HourlyGain * NeededHours(deficit)
<1> DEFINE c == CeilDiv(deficit, HourlyGain)
           n == NeededHours(deficit)
<1>1. c \in Nat /\ deficit <= HourlyGain * c
  BY CeilCovers, SmartConstants
<1>2. n = Max({1, c})
  BY DEF NeededHours
<1> HIDE DEF c, n
<1>3. n \in {1, c} /\ c <= n
  BY <1>1, <1>2, MaxOfTwo
<1>4. n \in Nat /\ HourlyGain * c <= HourlyGain * n
  BY <1>1, <1>3, SmartConstants, TimesLess
<1>5. HourlyGain * c \in Int /\ HourlyGain * n \in Int
  BY <1>1, <1>4, SmartConstants
<1> QED
  BY <1>1, <1>4, <1>5 DEF n

\* The hour of a tick, and the whole hours after it.
LEMMA HourBounds ==
  ASSUME NEW t \in Nat, t < Sunrise
  PROVE  /\ HourOf(t) \in Nat
         /\ PerHour * (Hours - 1 - HourOf(t)) <= Sunrise - t - 1
<1>1. HourOf(t) \in Nat /\ t < PerHour * HourOf(t) + PerHour
  BY SmartConstants DEF HourOf
<1>2. PerHour * (Hours - 1 - HourOf(t)) = Hours * PerHour - PerHour - PerHour * HourOf(t)
  BY <1>1, SmartConstants
<1> QED
  BY <1>1, <1>2, SmartConstants

\* Waiting does no harm unless the battery runs empty.
LEMMA WaitingIsSafe ==
  ASSUME NEW t \in Nat, t < Sunrise, NEW soc \in 0 .. Full,
         soc >= Drain * (Sunrise - t), ~PlanOn(t, soc)
  PROVE  Reach(t + 1, soc - Drain)
<1> DEFINE m == Sunrise - t - 1
           h == HourOf(t)
           d == Target - Baseline(t, soc)
           n == NeededHours(d)
<1>1. m \in Nat /\ Sunrise - t = m + 1 /\ Sunrise - (t + 1) = m
  BY SmartConstants
<1>2. Drain * (Sunrise - t) = Drain * m + Drain /\ Drain * m \in Nat /\ Gain * m \in Nat
  <2> HIDE DEF m
  <2> QED
    BY <1>1, SmartConstants, AddAndTake
<1>3. Baseline(t, soc) = soc - Drain * m - Drain
  <2> HIDE DEF m
  <2>1. soc - Drain * (Sunrise - t) \in 0 .. Full
    BY <1>1, <1>2, SmartConstants
  <2>2. Baseline(t, soc) = soc - Drain * (Sunrise - t)
    BY <2>1, ClampIs DEF Baseline
  <2> QED
    BY <1>1, <1>2, <2>2, SmartConstants
<1>4. Reach(t + 1, soc - Drain) <=> d <= Gain * m + Drain * m
  BY <1>1, <1>2, <1>3, SmartConstants DEF Reach
<1>5. CASE d <= 0
  <2>1. d \in Int
    BY <1>2, <1>3, SmartConstants
  <2> HIDE DEF d, m
  <2> QED
    BY <1>2, <1>4, <1>5, <2>1
<1>6. CASE d > 0
  <2>1. d \in Nat /\ Baseline(t, soc) < Target
    BY <1>2, <1>3, <1>6, SmartConstants
  <2>2. h \in Nat /\ PerHour * (Hours - 1 - h) <= m
    BY HourBounds
  <2>3. h < MarginHour /\ h \notin PickPlannedHours(Candidates(t), n)
    BY <2>1, <2>2, SmartConstants DEF PlanOn, MarginHour
  <2>4. n \in Nat /\ d <= HourlyGain * n
    BY <2>1, NeededCovers
  <2> HIDE DEF d, n, m, h
  <2>5. n < Cardinality(Candidates(t)) /\ Candidates(t) = h .. Hours - 2
    <3>1. Candidates(t) = h .. Hours - 2 /\ h \in Candidates(t)
      BY <2>2, <2>3, SmartConstants DEF Candidates, MarginHour, h
    <3>2. Cardinality(Candidates(t)) \in Int
      BY <2>2, <2>3, <3>1, FS_Interval, SmartConstants DEF MarginHour
    <3> QED
      BY <2>3, <2>4, <3>1, <3>2 DEF PickPlannedHours
  <2>6. Cardinality(Candidates(t)) = Hours - 1 - h
    BY <2>2, <2>3, <2>5, FS_Interval, SmartConstants DEF MarginHour
  <2>7. n <= Hours - 1 - h
    BY <2>2, <2>4, <2>5, <2>6, SmartConstants
  <2>8. HourlyGain * n <= HourlyGain * (Hours - 1 - h)
    BY <2>2, <2>4, <2>7, SmartConstants, TimesLess
  <2>9. HourlyGain * (Hours - 1 - h) = (Gain + Drain) * (PerHour * (Hours - 1 - h))
    <3> DEFINE w == Hours - 1 - h
    <3>1. w \in Int
      BY <2>2, SmartConstants
    <3> HIDE DEF w
    <3>2. PerHour * (Gain + Drain) * w = (Gain + Drain) * (PerHour * w)
      BY <3>1, SmartConstants
    <3> QED
      BY <3>2, SmartConstants DEF w
  <2>10. (Gain + Drain) * (PerHour * (Hours - 1 - h)) <= (Gain + Drain) * m
    <3>1. PerHour * (Hours - 1 - h) \in Int /\ Gain + Drain \in Nat
      BY <2>2, SmartConstants
    <3> QED
      BY <1>1, <2>2, <3>1, TimesLess
  <2>11. (Gain + Drain) * m = Gain * m + Drain * m
    BY <1>1, SmartConstants, AddAndTake
  <2>12. HourlyGain * n \in Int /\ HourlyGain * (Hours - 1 - h) \in Int /\ d \in Int
    BY <2>1, <2>2, <2>4, SmartConstants
  <2> QED
    BY <1>2, <1>4, <2>4, <2>8, <2>9, <2>10, <2>11, <2>12
<1>7. d \in Int
  BY <1>2, <1>3, SmartConstants
<1> HIDE DEF d
<1> QED
  BY <1>5, <1>6, <1>7

\* What the plan keeps: the target stays within reach, at each tick and within.
SmartInv ==
  /\ night \in 0 .. Sunrise /\ charge \in 0 .. Full
  /\ supply \in BOOLEAN /\ decided \in BOOLEAN /\ possible \in BOOLEAN
  /\ decided => night < Sunrise
  /\ possible /\ (~decided \/ supply) => Reach(night, charge)
  /\ possible /\ decided /\ ~supply /\ Lasts => Reach(night + 1, charge - Drain)

LEMMA SmartEvaluated ==
  ASSUME SmartInv, Evaluated PROVE SmartInv'
<1>1. UNCHANGED <<night, charge, possible>> /\ decided' = TRUE /\ supply' = PlanOn(night, charge)
      /\ decided = FALSE /\ night \in Nat /\ night < Sunrise /\ charge \in 0 .. Full
  BY SmartConstants DEF Evaluated, SmartInv
<1>2. supply' \in BOOLEAN
  BY <1>1 DEF PlanOn
<1>3. Sunrise' = Sunrise /\ Full' = Full
  OBVIOUS
<1>4. possible' /\ decided' /\ supply' = FALSE /\ Lasts' => Reach(night + 1, charge - Drain)
  BY <1>1, WaitingIsSafe DEF Lasts
<1>5. possible => Reach(night, charge)
  BY <1>1 DEF SmartInv
<1> QED
  BY <1>1, <1>2, <1>4, <1>5 DEF SmartInv, Reach, Lasts

LEMMA SmartTick ==
  ASSUME SmartInv, TickPasses PROVE SmartInv'
<1> DEFINE x == IF supply THEN charge + Gain ELSE charge - Drain
           m == Sunrise - night - 1
<1>1. night \in Nat /\ night < Sunrise /\ charge \in 0 .. Full /\ decided = TRUE
      /\ night' = night + 1 /\ decided' = FALSE /\ supply' = supply /\ charge' = Clamp(x)
      /\ possible' = (possible /\ (supply \/ Lasts)) /\ supply \in BOOLEAN /\ possible \in BOOLEAN
  BY SmartConstants DEF TickPasses, SmartInv
<1>2. x \in Int /\ m \in Nat /\ Sunrise - night = m + 1 /\ Sunrise - (night + 1) = m
  BY <1>1, SmartConstants
<1>3. Gain * m \in Nat /\ Gain * (m + 1) = Gain * m + Gain
  <2> HIDE DEF m
  <2> QED
    BY <1>2, SmartConstants, AddAndTake
<1>4. charge' \in 0 .. Full
  <2> HIDE DEF x
  <2> QED
    BY <1>1, <1>2, ClampIs
<1>5. possible' \in BOOLEAN
  BY <1>1 DEF Lasts
<1>6. possible' => charge' + Gain * m >= Target
  <2>1. CASE possible /\ supply
    <3>1. charge + Gain * m + Gain >= Target /\ x = charge + Gain
      <4>1. Reach(night, charge)
        BY <2>1 DEF SmartInv
      <4>2. charge + Gain * (Sunrise - night) >= Target
        BY <4>1 DEF Reach
      <4>3. charge + Gain * (m + 1) >= Target
        BY <1>2, <4>2
      <4>4. x = charge + Gain
        BY <2>1
      <4> HIDE DEF m, x
      <4> QED
        BY <1>1, <1>2, <1>3, <4>3, <4>4, SmartConstants
    <3>2. charge' = IF x <= Full THEN x ELSE Full
      BY <1>1, <1>2, <3>1, ClampIs, SmartConstants
    <3> QED
      BY <1>1, <1>3, <3>1, <3>2, SmartConstants
  <2>2. CASE possible /\ supply = FALSE /\ Lasts
    <3>1. charge - Drain + Gain * m >= Target /\ x = charge - Drain
      BY <1>1, <1>2, <2>2 DEF SmartInv, Reach
    <3>2. charge' >= x
      BY <1>1, <1>2, <3>1, ClampIs, SmartConstants
    <3> HIDE DEF x
    <3> QED
      BY <1>2, <1>3, <1>4, <3>1, <3>2, SmartConstants
  <2> QED
    BY <1>1, <2>1, <2>2
<1>7. possible' => Reach(night', charge')
  BY <1>1, <1>2, <1>6 DEF Reach
<1>8. night' \in 0 .. Sunrise
  BY <1>1, SmartConstants
<1> QED
  BY <1>1, <1>4, <1>5, <1>7, <1>8 DEF SmartInv, Reach

\* The target is reached at sunrise whenever it was within reach of the plug
\* and every tick since was evaluated, but for a battery that would run empty,
\* for any length of the night, prices, gain, drain and target (smart_charge.py
\* 306-340, 428-430).
THEOREM TargetIsReached == SmartSpec => []ReachedAtSunrise
<1>1. SmartInit => SmartInv
  <2> SUFFICES ASSUME SmartInit PROVE SmartInv
    OBVIOUS
  <2>1. night = 0 /\ charge \in 0 .. Full /\ supply = FALSE /\ decided = FALSE
        /\ possible = Within(0, charge) /\ 0 \in 0 .. Sunrise
    BY SmartConstants DEF SmartInit
  <2>2. possible = TRUE \/ possible = FALSE
    BY <2>1 DEF Within
  <2>3. possible => Reach(night, charge)
    BY <2>1, WithinIsReach
  <2> QED
    BY <2>1, <2>2, <2>3 DEF SmartInv
<1>2. SmartInv /\ [SmartNext]_smartVars => SmartInv'
  <2> SUFFICES ASSUME SmartInv, [SmartNext]_smartVars PROVE SmartInv'
    OBVIOUS
  <2>1. ASSUME NotEvaluated PROVE SmartInv'
    BY <2>1 DEF NotEvaluated, SmartInv
  <2>2. ASSUME Recovers PROVE SmartInv'
    <3>1. Reach(night, charge)
      BY <2>2, WithinIsReach DEF Recovers, SmartInv
    <3> QED
      BY <2>2, <3>1 DEF Recovers, SmartInv, Reach
  <2>3. CASE UNCHANGED smartVars
    BY <2>3 DEF smartVars, SmartInv, Reach, Lasts
  <2> QED
    BY <2>1, <2>2, <2>3, SmartEvaluated, SmartTick DEF SmartNext
<1>3. SmartInv => ReachedAtSunrise
  <2> SUFFICES ASSUME SmartInv, night = Sunrise, possible PROVE charge >= Target
    BY DEF ReachedAtSunrise
  <2>1. decided = FALSE /\ charge \in Int /\ Gain * (Sunrise - night) = 0
    BY SmartConstants DEF SmartInv
  <2> QED
    BY <2>1, SmartConstants DEF SmartInv, Reach
<1> QED
  BY <1>1, <1>2, <1>3, PTL DEF SmartSpec

-----------------------------------------------------------------------------
(* What the forecaster learns.  A rank of samples, a median and a trimmed   *)
(* median is one of them, so a fit that takes one takes what an hour had.   *)

\* Some sample has a given rank: the least of those that enough others do not
\* exceed, for below it there are no more than up to the one before.
LEMMA RankedIsSample ==
  ASSUME NEW f, IsFiniteSet(DOMAIN f), \A x \in DOMAIN f : f[x] \in Int,
         NEW k \in 1 .. Cardinality(DOMAIN f)
  PROVE  Ranked(f, k) \in Range(f)
<1> DEFINE Below(v) == {x \in DOMAIN f : f[x] < v}
           UpTo(v) == {x \in DOMAIN f : f[x] <= v}
           C == {v \in Range(f) : k <= Cardinality(UpTo(v))}
<1>1. IsFiniteSet(Range(f)) /\ \A v \in Range(f) : v \in Int
  <2>1. IsFiniteSet({f[x] : x \in DOMAIN f})
    BY ImageIsFinite
  <2> QED
    BY <2>1 DEF Range
<1>2. DOMAIN f # {}
  BY FS_EmptySet
<1>3. C # {}
  <2>1. Range(f) # {}
    BY <1>2 DEF Range
  <2>2. Max(Range(f)) \in Range(f) /\ \A v \in Range(f) : v <= Max(Range(f))
    BY <1>1, <2>1, LargestNumber
  <2>3. UpTo(Max(Range(f))) = DOMAIN f
    BY <2>2 DEF Range
  <2> QED
    BY <2>2, <2>3, FS_CardinalityType
<1>4. IsFiniteSet(C) /\ \A v \in C : v \in Int
  BY <1>1, FS_Subset
<1>5. PICK v \in C : \A w \in C : v <= w
  <2> HIDE DEF C
  <2> QED
    BY <1>3, <1>4, SmallestNumber
<1>6. Cardinality(Below(v)) < k
  <2>1. CASE Below(v) = {}
    BY <2>1, FS_EmptySet
  <2>2. CASE Below(v) # {}
    <3> DEFINE S == {f[x] : x \in Below(v)}
    <3>1. IsFiniteSet(Below(v))
      BY FS_Subset
    <3>2. IsFiniteSet(S) /\ S # {} /\ \A w \in S : w \in Int
      <4>1. IsFiniteSet(S)
        BY <3>1, ImageIsFinite
      <4> QED
        BY <4>1, <2>2
    <3>3. Max(S) \in S /\ \A w \in S : w <= Max(S)
      <4> HIDE DEF S
      <4> QED
        BY <3>2, LargestNumber
    <3>4. Max(S) \in Range(f) /\ Max(S) < v
      BY <3>3 DEF Range
    <3>5. Below(v) = UpTo(Max(S))
      <4>1. ASSUME NEW x \in Below(v) PROVE x \in UpTo(Max(S))
        BY <3>3
      <4>2. ASSUME NEW x \in UpTo(Max(S)) PROVE x \in Below(v)
        BY <3>4, <1>1, <1>5
      <4> QED
        BY <4>1, <4>2
    <3>6. ~(v <= Max(S))
      BY <3>4, <1>1, <1>5
    <3>7. Max(S) \notin C
      BY <3>6, <1>5
    <3>8. ~(k <= Cardinality(UpTo(Max(S))))
      BY <3>4, <3>7
    <3>9. Cardinality(Below(v)) \in Nat /\ k \in Nat
      BY <3>1, FS_CardinalityType
    <3>10. ~(k <= Cardinality(Below(v)))
      BY <3>5, <3>8
    <3> HIDE DEF Below
    <3> QED
      BY <3>9, <3>10
  <2> QED
    BY <2>1, <2>2
<1>7. \E w \in Range(f) : Cardinality(Below(w)) < k /\ k <= Cardinality(UpTo(w))
  BY <1>5, <1>6
<1> QED
  BY <1>7 DEF Ranked

\* The median, and the trimmed one, are samples.
LEMMA MedianIsSample ==
  ASSUME NEW f, IsFiniteSet(DOMAIN f), DOMAIN f # {}, \A x \in DOMAIN f : f[x] \in Int
  PROVE  Median(f) \in Range(f)
<1>1. Cardinality(DOMAIN f) \in Nat /\ Cardinality(DOMAIN f) # 0
  BY FS_CardinalityType, FS_EmptySet
<1>2. Size(f) \div 2 + 1 \in 1 .. Cardinality(DOMAIN f)
  BY <1>1 DEF Size
<1> QED
  BY <1>2, RankedIsSample DEF Median

LEMMA TrimmedIsSample ==
  ASSUME NEW f, IsFiniteSet(DOMAIN f), DOMAIN f # {}, \A x \in DOMAIN f : f[x] \in Int
  PROVE  TrimmedMedian(f) \in Range(f)
<1> DEFINE n == Cardinality(DOMAIN f)
           trim == IF n < 5 THEN 0 ELSE Max({1, n \div 10})
<1>1. n \in Nat /\ n # 0
  BY FS_CardinalityType, FS_EmptySet
<1>2. trim \in Nat /\ 2 * trim < n
  <2>1. CASE n < 5
    BY <1>1, <2>1
  <2>2. CASE n >= 5
    <3>1. n \div 10 \in Nat /\ 10 * (n \div 10) <= n
      <4> HIDE DEF n
      <4> QED
        BY <1>1
    <3>2. ASSUME NEW m \in Int PROVE Max({1, m}) \in {1, m}
      <4>1. \E x \in {1, m} : \A y \in {1, m} : x >= y
        <5>1. CASE m <= 1
          BY <5>1
        <5>2. CASE ~(m <= 1)
          BY <5>2
        <5> QED
          BY <5>1, <5>2
      <4> QED
        BY <4>1 DEF Max
    <3>3. Max({1, n \div 10}) \in {1, n \div 10}
      <4> HIDE DEF n
      <4> QED
        BY <3>1, <3>2
    <3> QED
      <4> HIDE DEF n
      <4> QED
        BY <1>1, <2>2, <3>1, <3>3
  <2> QED
    BY <1>1, <2>1, <2>2
<1>3. trim + (n - 2 * trim) \div 2 + 1 \in 1 .. n
  <2> HIDE DEF n, trim
  <2>1. n - 2 * trim \in Nat
    BY <1>1, <1>2
  <2>2. (n - 2 * trim) \div 2 \in Nat /\ 2 * ((n - 2 * trim) \div 2) <= n - 2 * trim
    BY <2>1
  <2> QED
    BY <1>1, <1>2, <2>2
<1> QED
  BY <1>3, RankedIsSample DEF TrimmedMedian, Size

-----------------------------------------------------------------------------
(* An hour of the unit *)

LEMMA HourKindIs ==
  ASSUME NEW k \in HourKinds
  PROVE  /\ k.load \in {20, 50} /\ k.ghi \in {0, 60, 100} /\ k.ac \in {0, 60}
         /\ k.car \in BOOLEAN /\ k.seen \in BOOLEAN
         /\ (k.car => k.load = 20 /\ k.ghi = 100 /\ k.ac = 60)
<1>1. \E load \in {20, 50}, ghi \in {0, 60, 100}, grid \in {0, 60}, car, seen \in BOOLEAN :
        /\ k = [load |-> load, ghi |-> ghi, ac |-> grid, car |-> car, seen |-> seen]
        /\ (car => load = 20 /\ ghi = 100 /\ grid = 60)
  <2>1. CASE k \in {Hour(20, 0, 0, FALSE, TRUE), Hour(50, 0, 0, FALSE, TRUE),
                    Hour(20, 100, 0, FALSE, TRUE), Hour(20, 60, 0, FALSE, TRUE)}
    BY <2>1 DEF Hour
  <2>2. CASE k \in {Hour(20, 0, 60, FALSE, TRUE), Hour(20, 100, 60, TRUE, TRUE),
                    Hour(20, 0, 60, FALSE, FALSE)}
    BY <2>2 DEF Hour
  <2> QED
    BY <2>1, <2>2 DEF HourKinds
<1> QED
  BY <1>1

LEMMA UnitIs ==
  \A u \in Units :
    /\ u.meter \in {"acip", "ip"} /\ u.plug \in {"logged", "measures"}
    /\ u.forecast \in {"weather", "zone", "none"} /\ u.start \in 0 .. FullBattery
BY DEF Units, FullBattery

LEMMA SunOfHour ==
  ASSUME NEW k \in HourKinds, NEW level \in Int
  PROVE  /\ SunIn(k, level) \in 0 .. Yield
         /\ 100 * SunIn(k, level) <= Yield * k.ghi
         /\ SunIn(k, level) = 0 <=> k.ghi = 0
         /\ (k.ghi = 100 /\ level <= Taper) => SunIn(k, level) = Yield
<1>1. k.ghi \in {0, 60, 100}
  BY HourKindIs
<1>2. SunIn(k, level) = ((k.ghi * 80) \div 100) \div (IF level > 950 THEN 2 ELSE 1)
  BY DEF SunIn, Yield, Taper
<1>3. CASE k.ghi = 0
  BY <1>2, <1>3 DEF Yield, Taper
<1>4. CASE k.ghi = 60
  <2>1. SunIn(k, level) \in {48, 24}
    BY <1>2, <1>4
  <2> QED
    BY <1>4, <2>1 DEF Yield
<1>5. CASE k.ghi = 100
  <2>1. SunIn(k, level) = IF level > 950 THEN 40 ELSE 80
    BY <1>2, <1>5
  <2> QED
    BY <1>5, <2>1 DEF Yield, Taper
<1> QED
  BY <1>1, <1>3, <1>4, <1>5

\* What an hour takes from the battery; without the car it is the tenth more
\* than the load, and the unit's own.
LEMMA DrainOfHour ==
  ASSUME NEW k \in HourKinds
  PROVE  /\ LoadOut(k) \in {20, 50, 170} /\ Drained(k) \in 32 .. 197
         /\ ~k.car => LoadOut(k) = k.load /\ k.load \in {20, 50} /\ Drained(k) <= 65
         /\ k.car => LoadOut(k) = k.load + CarLoad /\ k.load = 20
         /\ 10 * Drained(k) = 11 * LoadOut(k) + 100
<1>1. k.load \in {20, 50} /\ k.car \in BOOLEAN /\ (k.car => k.load = 20)
  BY HourKindIs
<1>2. Drained(k) = LoadOut(k) + (LoadOut(k) * 10) \div 100 + 10
  BY DEF Drained, Overhead, Parasitic
<1>3. LoadOut(k) = k.load + IF k.car THEN 150 ELSE 0
  BY DEF LoadOut, CarLoad
<1>4. CASE k.car
  <2>1. LoadOut(k) = 170
    BY <1>1, <1>3, <1>4
  <2> QED
    BY <1>1, <1>2, <1>4, <2>1 DEF CarLoad
<1>5. CASE ~k.car
  <2>1. LoadOut(k) = k.load
    BY <1>1, <1>3, <1>5
  <2>2. CASE k.load = 20
    BY <1>1, <1>2, <1>5, <2>1, <2>2
  <2>3. CASE k.load = 50
    BY <1>1, <1>2, <1>5, <2>1, <2>3
  <2> QED
    BY <1>1, <2>2, <2>3
<1> QED
  BY <1>4, <1>5

LEMMA LevelAfterHour ==
  ASSUME NEW k \in HourKinds, NEW level \in 0 .. FullBattery
  PROVE  /\ AfterHour(k, level) \in 0 .. FullBattery
         /\ AfterHour(k, level) >= level - 197
         /\ (k.ghi = 0 /\ k.ac = 0 /\ level >= 197) => AfterHour(k, level) = level - Drained(k)
<1> DEFINE in == SunIn(k, level) + k.ac
           net == (in * ChargeYield) \div 100 - Drained(k)
<1>1. in \in Nat /\ (k.ghi = 0 /\ k.ac = 0 => in = 0)
  BY SunOfHour, HourKindIs DEF Yield, FullBattery
<1>2. Drained(k) \in 32 .. 197
  BY DrainOfHour
<1>3. (in * 90) \div 100 \in Nat /\ (in = 0 => (in * 90) \div 100 = 0)
  <2> HIDE DEF in
  <2> QED
    BY <1>1
<1>4. net \in Int /\ net >= -197 /\ (k.ghi = 0 /\ k.ac = 0 => net = -Drained(k))
  <2> HIDE DEF in
  <2> QED
    BY <1>1, <1>2, <1>3 DEF ChargeYield
<1>5. AfterHour(k, level) = IF level + net < 0 THEN 0
                            ELSE IF level + net > 1000 THEN 1000 ELSE level + net
  BY DEF AfterHour, FullBattery
<1> HIDE DEF net, in
<1> QED
  BY <1>2, <1>4, <1>5 DEF FullBattery

-----------------------------------------------------------------------------
(* The history.  There is a level for the begin of each hour, and one for   *)
(* the present; the buckets are those of the hours that were seen.          *)

Buckets ==
  [ts : Nat, input : Int, output : Int, solar : Int, ac : Int, soc : Int,
   plugged : Int, diverted : Int]

Levels == [1 .. Len(lived) + 1 -> 0 .. FullBattery]

Lived(levels) ==
  /\ levels[Len(lived) + 1] = stored
  /\ \A h \in 1 .. Len(lived) : levels[h + 1] = AfterHour(lived[h], levels[h])

Kept(levels) ==
  \A i \in 1 .. Len(rows) : rows[i] = Bucket(rows[i].ts, lived[rows[i].ts], levels[rows[i].ts])

HistoryInv ==
  /\ unit \in Units /\ stored \in 0 .. FullBattery
  /\ lived \in Seq(HourKinds) /\ rows \in Seq(Buckets)
  /\ \A h \in 1 .. Len(lived) : lived[h].ghi > 0 => Daylight(h)
  /\ \A i \in 1 .. Len(rows) : rows[i].ts \in 1 .. Len(lived)
  /\ \A i, j \in 1 .. Len(rows) : i < j => rows[i].ts < rows[j].ts
  /\ \E levels \in Levels : Lived(levels) /\ Kept(levels)

LEMMA BucketIs ==
  ASSUME unit \in Units, NEW h \in Nat, NEW k \in HourKinds, NEW level \in 0 .. FullBattery
  PROVE  Bucket(h, k, level) \in Buckets /\ Bucket(h, k, level).ts = h
<1>1. SunIn(k, level) \in Int /\ LoadOut(k) \in Int /\ k.ac \in Int
  BY SunOfHour, DrainOfHour, HourKindIs DEF FullBattery, Yield
<1>2. AfterHour(k, level) \in 0 .. FullBattery
  BY LevelAfterHour
<1>3. (level + AfterHour(k, level)) \div (2 * PerPoint) \in Int
  BY <1>2, SMTT(40) DEF FullBattery, PerPoint
<1> QED
  BY <1>1, <1>3 DEF Bucket, Buckets, CarLoad

LEMMA HistoryBegins == FitsInit => HistoryInv
<1> SUFFICES ASSUME FitsInit PROVE HistoryInv
  OBVIOUS
<1>1. unit \in Units /\ lived = << >> /\ stored = unit.start /\ rows = << >>
  BY DEF FitsInit
<1>2. stored \in 0 .. FullBattery
  BY <1>1, UnitIs
<1>3. Len(lived) = 0 /\ Len(rows) = 0 /\ lived \in Seq(HourKinds) /\ rows \in Seq(Buckets)
  BY <1>1
<1> DEFINE levels == [h \in 1 .. 1 |-> stored]
<1>4. levels \in Levels /\ Lived(levels) /\ Kept(levels)
  BY <1>2, <1>3 DEF Levels, Lived, Kept
<1> HIDE DEF levels
<1> QED
  BY <1>1, <1>2, <1>3, <1>4 DEF HistoryInv

LEMMA HistoryGoesOn ==
  ASSUME HistoryInv, NEW k \in HourKinds, HourPasses(k)
  PROVE  HistoryInv'
<1> DEFINE n == Len(lived)
           b == Bucket(n + 1, k, stored)
<1>1. PICK levels \in Levels : Lived(levels) /\ Kept(levels)
  BY DEF HistoryInv
<1>2. /\ unit \in Units /\ stored \in 0 .. FullBattery
      /\ lived \in Seq(HourKinds) /\ rows \in Seq(Buckets)
      /\ n \in Nat /\ Len(rows) \in Nat
  BY DEF HistoryInv
<1>3. /\ lived' = Append(lived, k) /\ stored' = AfterHour(k, stored) /\ unit' = unit
      /\ rows' = IF k.seen THEN Append(rows, b) ELSE rows
      /\ k.ghi > 0 => Daylight(n + 1)
  BY DEF HourPasses
<1>4. /\ lived' \in Seq(HourKinds) /\ Len(lived') = n + 1 /\ lived'[n + 1] = k
      /\ \A h \in 1 .. n : lived'[h] = lived[h]
  BY <1>2, <1>3
<1>5. b \in Buckets /\ b.ts = n + 1
  BY <1>2, BucketIs
<1> HIDE DEF b
<1>6. /\ rows' \in Seq(Buckets)
      /\ \A i \in 1 .. Len(rows) : rows'[i] = rows[i]
      /\ Len(rows') = Len(rows) \/ (Len(rows') = Len(rows) + 1 /\ rows'[Len(rows) + 1] = b)
  <2>1. CASE rows' = rows
    BY <1>2, <2>1
  <2>2. CASE rows' = Append(rows, b)
    BY <1>2, <1>5, <2>2
  <2> QED
    BY <1>3, <2>1, <2>2
<1>7. stored' \in 0 .. FullBattery
  BY <1>2, <1>3, LevelAfterHour
<1>8. \A h \in 1 .. Len(lived') : lived'[h].ghi > 0 => Daylight(h)
  <2> SUFFICES ASSUME NEW h \in 1 .. n + 1, lived'[h].ghi > 0 PROVE Daylight(h)
    BY <1>4
  <2>1. CASE h = n + 1
    BY <1>3, <1>4, <2>1
  <2>2. CASE h \in 1 .. n
    BY <1>4, <2>2 DEF HistoryInv
  <2> QED
    BY <1>2, <2>1, <2>2
<1>9. \A i \in 1 .. Len(rows) : rows[i].ts \in 1 .. n
  BY DEF HistoryInv
<1>10. \A i \in 1 .. Len(rows') : \/ i \in 1 .. Len(rows) /\ rows'[i] = rows[i]
                                  \/ i = Len(rows) + 1 /\ rows'[i] = b
  BY <1>2, <1>6
<1>11. \A i \in 1 .. Len(rows') : rows'[i].ts \in 1 .. Len(lived')
  BY <1>2, <1>4, <1>5, <1>9, <1>10, SMTT(30)
<1>12. \A i, j \in 1 .. Len(rows') : i < j => rows'[i].ts < rows'[j].ts
  <2> SUFFICES ASSUME NEW i \in 1 .. Len(rows'), NEW j \in 1 .. Len(rows'), i < j
               PROVE  rows'[i].ts < rows'[j].ts
    OBVIOUS
  <2>1. i \in 1 .. Len(rows) /\ rows'[i] = rows[i]
    BY <1>2, <1>6, <1>10
  <2>2. CASE j \in 1 .. Len(rows) /\ rows'[j] = rows[j]
    BY <2>1, <2>2 DEF HistoryInv
  <2>3. CASE rows'[j] = b
    BY <1>2, <1>5, <1>9, <2>1, <2>3
  <2> QED
    BY <1>10, <2>2, <2>3
<1>13. PICK more \in [1 .. n + 2 -> 0 .. FullBattery] :
          more[n + 2] = stored' /\ \A h \in 1 .. n + 1 : more[h] = levels[h]
  <2> DEFINE m == [h \in 1 .. n + 2 |-> IF h = n + 2 THEN stored' ELSE levels[h]]
  <2>1. levels \in [1 .. n + 1 -> 0 .. FullBattery]
    BY <1>1 DEF Levels
  <2>2. m \in [1 .. n + 2 -> 0 .. FullBattery]
    BY <1>2, <1>7, <2>1
  <2>3. m[n + 2] = stored' /\ \A h \in 1 .. n + 1 : m[h] = levels[h]
    BY <1>2
  <2> QED
    BY <2>2, <2>3
<1>14. levels[n + 1] = stored /\ \A h \in 1 .. n : levels[h + 1] = AfterHour(lived[h], levels[h])
  BY <1>1 DEF Lived
<1>15. Lived(more)'
  <2>1. more[Len(lived') + 1] = stored'
    BY <1>2, <1>4, <1>13
  <2>2. ASSUME NEW h \in 1 .. Len(lived') PROVE more[h + 1] = AfterHour(lived'[h], more[h])
    <3>1. CASE h = n + 1
      BY <1>2, <1>3, <1>4, <1>13, <1>14, <3>1
    <3>2. CASE h \in 1 .. n
      <4>1. h + 1 \in 1 .. n + 1 /\ h \in 1 .. n + 1
        BY <1>2, <3>2
      <4> QED
        BY <1>4, <1>13, <1>14, <3>2, <4>1
    <3> QED
      BY <1>2, <1>4, <3>1, <3>2
  <2> QED
    BY <2>1, <2>2 DEF Lived
<1>16. Kept(more)'
  <2> SUFFICES ASSUME NEW i \in 1 .. Len(rows')
               PROVE  (rows[i] = Bucket(rows[i].ts, lived[rows[i].ts], more[rows[i].ts]))'
    BY DEF Kept
  <2>1. ASSUME NEW h, NEW l, NEW x PROVE Bucket(h, l, x)' = Bucket(h, l, x)
    BY <1>3 DEF Bucket
  <2>4. Bucket(rows[i].ts, lived[rows[i].ts], more[rows[i].ts])'
          = Bucket(rows'[i].ts, lived'[rows'[i].ts], more[rows'[i].ts])
    BY <1>3 DEF Bucket
  <2>2. CASE i \in 1 .. Len(rows) /\ rows'[i] = rows[i]
    <3>1. rows[i].ts \in 1 .. n /\ rows[i].ts \in 1 .. n + 1
      BY <1>2, <1>9, <2>2
    <3>2. rows[i] = Bucket(rows[i].ts, lived[rows[i].ts], levels[rows[i].ts])
      BY <1>1, <2>2 DEF Kept
    <3> QED
      BY <1>4, <1>13, <2>4, <2>2, <3>1, <3>2
  <2>3. CASE rows'[i] = b
    <3>1. more[n + 1] = stored /\ lived'[n + 1] = k /\ rows'[i].ts = n + 1
      <4>1. n + 1 \in 1 .. n + 1
        BY <1>2
      <4>2. more[n + 1] = stored
        BY <1>13, <1>14, <4>1
      <4> QED
        BY <1>4, <1>5, <2>3, <4>2
    <3>2. b = Bucket(n + 1, k, stored)
      BY DEF b
    <3>3. Bucket(rows'[i].ts, lived'[rows'[i].ts], more[rows'[i].ts]) = Bucket(n + 1, k, stored)
      BY <3>1
    <3> QED
      BY <2>3, <2>4, <3>2, <3>3
  <2> QED
    BY <1>10, <2>2, <2>3
<1>17. unit' \in Units
  BY <1>2, <1>3
<1>18. more \in Levels'
  BY <1>2, <1>4, <1>13 DEF Levels
<1>19. (\E l \in Levels : Lived(l) /\ Kept(l))'
  BY <1>15, <1>16, <1>18
<1> QED
  BY <1>4, <1>6, <1>7, <1>8, <1>11, <1>12, <1>17, <1>19 DEF HistoryInv

-----------------------------------------------------------------------------
(* What a bucket shows of its hour *)

LEMMA RowIs ==
  ASSUME HistoryInv, NEW i \in DOMAIN rows
  PROVE  /\ rows[i].ts \in 1 .. Len(lived) /\ rows[i].ts \in Nat
         /\ lived[rows[i].ts] \in HourKinds
         /\ \E level \in 0 .. FullBattery :
              rows[i] = Bucket(rows[i].ts, lived[rows[i].ts], level)
<1>1. i \in 1 .. Len(rows) /\ rows \in Seq(Buckets) /\ lived \in Seq(HourKinds)
  BY DEF HistoryInv
<1>2. rows[i].ts \in 1 .. Len(lived)
  BY <1>1 DEF HistoryInv
<1>3. rows[i].ts \in Nat /\ lived[rows[i].ts] \in HourKinds
  BY <1>1, <1>2
<1>4. PICK levels \in Levels : Kept(levels)
  BY DEF HistoryInv
<1>5. levels[rows[i].ts] \in 0 .. FullBattery
  BY <1>1, <1>2, <1>4 DEF Levels
<1>6. rows[i] = Bucket(rows[i].ts, lived[rows[i].ts], levels[rows[i].ts])
  BY <1>1, <1>4 DEF Kept
<1> QED
  BY <1>2, <1>3, <1>5, <1>6

LEMMA RowShows ==
  ASSUME HistoryInv, NEW i \in DOMAIN rows, NEW k, k = lived[rows[i].ts]
  PROVE  /\ k \in HourKinds /\ rows[i].output = LoadOut(k)
         /\ rows[i].ac = IF unit.meter = "acip" THEN k.ac ELSE 0
         /\ rows[i].solar = rows[i].input - rows[i].ac
         /\ rows[i].plugged = IF unit.plug # "logged" THEN -1 ELSE IF k.car THEN 100 ELSE 0
         /\ rows[i].diverted = IF unit.plug = "measures" /\ k.car THEN CarLoad ELSE 0
         /\ \E sun \in 0 .. Yield : /\ rows[i].input = sun + k.ac
                                    /\ 100 * sun <= Yield * k.ghi /\ (sun = 0 <=> k.ghi = 0)
<1>1. PICK level \in 0 .. FullBattery : rows[i] = Bucket(rows[i].ts, k, level)
  BY RowIs
<1>2. k \in HourKinds /\ k.ac \in {0, 60} /\ level \in Int
  BY RowIs, HourKindIs
<1>3. /\ rows[i].output = LoadOut(k)
      /\ rows[i].ac = IF unit.meter = "acip" THEN k.ac ELSE 0
      /\ rows[i].input = SunIn(k, level) + k.ac
      /\ rows[i].solar = SunIn(k, level) + k.ac - (IF unit.meter = "acip" THEN k.ac ELSE 0)
      /\ rows[i].plugged = IF unit.plug # "logged" THEN -1 ELSE IF k.car THEN 100 ELSE 0
      /\ rows[i].diverted = IF unit.plug = "measures" /\ k.car THEN CarLoad ELSE 0
  <2>1. rows[i].output = LoadOut(k) /\ rows[i].ac = IF unit.meter = "acip" THEN k.ac ELSE 0
    BY <1>1 DEF Bucket
  <2>2. rows[i].input = SunIn(k, level) + k.ac
    BY <1>1 DEF Bucket
  <2>3. rows[i].solar = SunIn(k, level) + k.ac - (IF unit.meter = "acip" THEN k.ac ELSE 0)
    BY <1>1 DEF Bucket
  <2>4. rows[i].plugged = IF unit.plug # "logged" THEN -1 ELSE IF k.car THEN 100 ELSE 0
    BY <1>1 DEF Bucket
  <2>5. rows[i].diverted = IF unit.plug = "measures" /\ k.car THEN CarLoad ELSE 0
    BY <1>1 DEF Bucket
  <2> QED
    BY <2>1, <2>2, <2>3, <2>4, <2>5
<1>4. /\ SunIn(k, level) \in 0 .. Yield /\ 100 * SunIn(k, level) <= Yield * k.ghi
      /\ (SunIn(k, level) = 0 <=> k.ghi = 0)
  BY <1>2, SunOfHour
<1>5. rows[i].solar = rows[i].input - rows[i].ac
  BY <1>2, <1>3, <1>4 DEF Yield
<1> QED
  BY <1>2, <1>3, <1>4, <1>5

-----------------------------------------------------------------------------
(* The drain's diagnosis *)

LEMMA DiagnosisCounts == HistoryInv => DiagnosisIsFit
<1> SUFFICES ASSUME HistoryInv PROVE DiagnosisIsFit
  OBVIOUS
<1>1. Len(rows) \in Nat /\ rows \in Seq(Buckets) /\ DOMAIN Pairs = 1 .. Len(rows) - 1
  BY DEF HistoryInv, Pairs
<1>2. ASSUME NEW i \in DOMAIN Pairs
      PROVE  Rejection(Pairs[i].a, Pairs[i].b) = "qualifying" <=> Discharges(Pairs[i].a, Pairs[i].b)
  <2>1. i \in 1 .. Len(rows) /\ i + 1 \in 1 .. Len(rows)
    BY <1>1, <1>2
  <2>2. Pairs[i].a \in Buckets /\ Pairs[i].b \in Buckets
    BY <1>1, <1>2, <2>1 DEF Pairs
  <2> DEFINE a == Pairs[i].a
             b == Pairs[i].b
  <2>3. /\ a.soc \in Int /\ b.soc \in Int /\ a.solar \in Int /\ a.ac \in Int
        /\ a.ts \in Int /\ b.ts \in Int /\ a.output \in Int
    BY <2>2 DEF Buckets
  <2> HIDE DEF a, b
  <2>4. Rejection(a, b) = "qualifying" <=> Discharges(a, b)
    BY <2>3 DEF Rejection, Discharges, MinDrop, Noise, MaxPairGap, MinOut
  <2> QED
    BY <2>4 DEF a, b
<1>3. {i \in DOMAIN Pairs : Rejection(Pairs[i].a, Pairs[i].b) = "qualifying"}
        = {i \in DOMAIN Pairs : Discharges(Pairs[i].a, Pairs[i].b)}
  BY <1>2
<1>4. InverterOverhead.windows
        = Cardinality({i \in DOMAIN Pairs : Discharges(Pairs[i].a, Pairs[i].b)})
  BY DEF InverterOverhead
<1>5. Readiness.ready /\ Readiness.doubtful => InverterOverhead.windows < MinWindows
  <2>1. /\ Readiness.ready <=> (Len(rows) >= 2 /\ rows[Len(rows)].ts - rows[1].ts >= DayHours)
        /\ Readiness.doubtful <=> (Len(rows) < 2 \/ InverterOverhead.windows < MinWindows)
    BY Zenon DEF Readiness
  <2>2. Len(rows) >= 2 => ~(Len(rows) < 2)
    BY <1>1
  <2> QED
    BY <2>1, <2>2, Zenon
<1> QED
  BY <1>3, <1>4, <1>5 DEF DiagnosisIsFit

-----------------------------------------------------------------------------
(* The charger *)

LEMMA WeatherOf ==
  ASSUME HistoryInv, NEW ts \in Nat
  PROVE  GhiAt(ts) = IF unit.forecast = "weather" /\ ts - 1 \in 1 .. Len(lived)
                     THEN {lived[ts - 1].ghi} ELSE {}
<1>1. DOMAIN lived = 1 .. Len(lived) /\ Len(lived) \in Nat
  BY DEF HistoryInv
<1>2. CASE unit.forecast # "weather"
  BY <1>2 DEF GhiAt, Weather
<1>3. CASE unit.forecast = "weather"
  <2>1. \A v \in Weather : v.ts = ts => ts - 1 \in 1 .. Len(lived) /\ v.ghi = lived[ts - 1].ghi
    BY <1>1, <1>3 DEF Weather
  <2>2. ts - 1 \in 1 .. Len(lived) => [ts |-> ts, ghi |-> lived[ts - 1].ghi] \in Weather
    <3> SUFFICES ASSUME ts - 1 \in 1 .. Len(lived)
                 PROVE  [ts |-> ts, ghi |-> lived[ts - 1].ghi] \in Weather
      OBVIOUS
    <3>1. (ts - 1) + 1 = ts
      OBVIOUS
    <3> QED
      BY <1>1, <1>3, <3>1 DEF Weather
  <2> QED
    BY <1>3, <2>1, <2>2 DEF GhiAt
<1> QED
  BY <1>2, <1>3

LEMMA ChargeIsGrid ==
  ASSUME HistoryInv, NEW c \in ChargeCandidates
  PROVE  /\ c.ts \in 1 .. Len(lived) /\ lived[c.ts].ac \in Int
         /\ \/ c.power = lived[c.ts].ac
            \/ unit.forecast = "weather" /\ (c.ts > 1 => lived[c.ts - 1].ghi < DarkGhi)
<1> DEFINE Classified(b) == b.ac >= MinInput /\ b.solar < MinInput
<1>1. PICK j \in DOMAIN rows :
        /\ c = [ts |-> rows[j].ts,
                power |-> IF Classified(rows[j]) THEN rows[j].ac ELSE rows[j].input]
        /\ Classified(rows[j]) \/ NoSun(rows[j])
  BY DEF ChargeCandidates
<1> DEFINE k == lived[rows[j].ts]
<1>2. /\ rows[j].ts \in 1 .. Len(lived) /\ rows[j].ts \in Nat /\ k \in HourKinds
      /\ k.ac \in {0, 60} /\ k.ghi \in {0, 60, 100}
  BY RowIs, HourKindIs
<1>3. /\ rows[j].ac = IF unit.meter = "acip" THEN k.ac ELSE 0
      /\ \E sun \in 0 .. Yield : rows[j].input = sun + k.ac /\ (sun = 0 <=> k.ghi = 0)
  BY RowShows
<1>4. c.ts = rows[j].ts /\ c.power = IF Classified(rows[j]) THEN rows[j].ac ELSE rows[j].input
  BY <1>1
<1>5. CASE Classified(rows[j])
  <2>1. rows[j].ac = k.ac
    BY <1>2, <1>3, <1>5 DEF MinInput
  <2> QED
    BY <1>2, <1>4, <1>5, <2>1
<1>6. CASE ~Classified(rows[j]) /\ GhiAt(rows[j].ts) # {}
  <2>1. unit.forecast = "weather" /\ GhiAt(rows[j].ts) = {lived[rows[j].ts - 1].ghi}
    BY <1>2, <1>6, WeatherOf
  <2>2. lived[rows[j].ts - 1].ghi < DarkGhi
    BY <1>1, <1>6, <2>1 DEF NoSun
  <2> QED
    BY <1>2, <1>4, <2>1, <2>2
<1>7. CASE ~Classified(rows[j]) /\ GhiAt(rows[j].ts) = {}
  <2>1. ~Daylight(rows[j].ts)
    BY <1>1, <1>7 DEF NoSun
  <2>2. k.ghi = 0
    BY <1>2, <2>1 DEF HistoryInv
  <2>3. rows[j].input = k.ac
    BY <1>2, <1>3, <2>2 DEF Yield
  <2> QED
    BY <1>2, <1>4, <1>7, <2>3
<1> QED
  BY <1>5, <1>6, <1>7

LEMMA ChargeRateHolds == HistoryInv => ChargeRateIsGrid
<1> SUFFICES ASSUME HistoryInv PROVE ChargeRateIsGrid
  OBVIOUS
<1> DEFINE Excused(c) == unit.forecast = "weather" /\ (c.ts > 1 => lived[c.ts - 1].ghi < DarkGhi)
           P == {c.power : c \in ChargeCandidates}
<1>1. \A c \in ChargeCandidates : c.power = lived[c.ts].ac \/ Excused(c)
  BY ChargeIsGrid
<1>2. ASSUME \A c \in ChargeCandidates : ~Excused(c)
      PROVE  MaxCharge \in {-1} \cup {lived[h].ac : h \in DOMAIN lived}
  <2>1. CASE Cardinality(ChargeCandidates) < MinCharges
    BY <2>1 DEF MaxCharge
  <2>2. CASE ~(Cardinality(ChargeCandidates) < MinCharges)
    <3>1. IsFiniteSet(DOMAIN rows) /\ DOMAIN lived = 1 .. Len(lived)
      BY FS_Interval DEF HistoryInv
    <3>2. IsFiniteSet(ChargeCandidates)
      <4> DEFINE g == [i \in DOMAIN rows |->
                         [ts |-> rows[i].ts,
                          power |-> IF rows[i].ac >= MinInput /\ rows[i].solar < MinInput
                                    THEN rows[i].ac ELSE rows[i].input]]
                 S == {g[i] : i \in DOMAIN rows}
      <4>1. IsFiniteSet(S)
        <5> HIDE DEF g
        <5> QED
          BY <3>1, ImageIsFinite
      <4>2. ChargeCandidates \subseteq S
        BY DEF ChargeCandidates
      <4> QED
        BY <4>1, <4>2, FS_Subset
    <3>3. ChargeCandidates # {}
      <4>1. MinCharges \in Nat /\ 0 < MinCharges
        BY FitsAssumption DEF FitsAssumption
      <4> QED
        BY <2>2, <4>1, FS_EmptySet
    <3>4. \A p \in P : p \in {lived[h].ac : h \in DOMAIN lived} /\ p \in Int
      BY <1>1, <1>2, <3>1, ChargeIsGrid
    <3>5. IsFiniteSet(P) /\ P # {}
      <4> DEFINE g == [c \in ChargeCandidates |-> c.power]
      <4>1. P = {g[c] : c \in ChargeCandidates}
        OBVIOUS
      <4> HIDE DEF g
      <4>2. IsFiniteSet(P)
        BY <3>2, <4>1, ImageIsFinite
      <4> QED
        BY <3>3, <4>2
    <3>6. MaxCharge = Max(P)
      BY <2>2 DEF MaxCharge
    <3> HIDE DEF P
    <3>7. Max(P) \in P
      BY <3>4, <3>5, LargestNumber
    <3> QED
      BY <3>4, <3>6, <3>7
  <2> QED
    BY <2>1, <2>2
<1> QED
  BY <1>1, <1>2 DEF ChargeRateIsGrid

-----------------------------------------------------------------------------
(* The load.  What the profile knows of an hour is a load that the          *)
(* household had, or less.                                                  *)

MostLoad == Max({lived[h].load : h \in DOMAIN lived} \cup {IdleLoadW})

LEMMA MostLoadIs ==
  ASSUME HistoryInv
  PROVE  /\ MostLoad \in Nat /\ MostLoad >= IdleLoadW
         /\ \A h \in DOMAIN lived : lived[h].load <= MostLoad
<1> DEFINE g == [h \in DOMAIN lived |-> lived[h].load]
           S == {g[h] : h \in DOMAIN lived}
           T == S \cup {IdleLoadW}
<1>1. IsFiniteSet(DOMAIN lived) /\ lived \in Seq(HourKinds)
  BY FS_Interval DEF HistoryInv
<1>2. \A h \in DOMAIN lived : lived[h].load \in {20, 50}
  BY <1>1, HourKindIs
<1>3. S = {lived[h].load : h \in DOMAIN lived}
  OBVIOUS
<1>4. IsFiniteSet(S)
  <2> HIDE DEF g
  <2> QED
    BY <1>1, ImageIsFinite
<1>5. MostLoad = Max(T)
  BY <1>3 DEF MostLoad
<1>6. \A x \in T : x \in Int /\ (x \in {20, 50} \/ x = 5)
  BY <1>2 DEF IdleLoadW
<1>7. IsFiniteSet(T)
  <2> HIDE DEF S
  <2> QED
    BY <1>4, FS_AddElement
<1>8. T # {} /\ 5 \in T /\ \A h \in DOMAIN lived : lived[h].load \in T
  BY <1>3 DEF IdleLoadW
<1> HIDE DEF T
<1>9. Max(T) \in T /\ \A x \in T : x <= Max(T)
  BY <1>6, <1>7, <1>8, LargestNumber
<1> QED
  BY <1>5, <1>6, <1>8, <1>9 DEF IdleLoadW

\* The diverted load is taken off again, whichever way it was noted.
LEMMA NetLoadIs ==
  ASSUME HistoryInv, NEW i \in DOMAIN rows
  PROVE  NetLoad(rows[i]) = lived[rows[i].ts].load /\ NetLoad(rows[i]) \in 0 .. MostLoad
<1> DEFINE k == lived[rows[i].ts]
<1>1. /\ k \in HourKinds /\ rows[i].output = LoadOut(k)
      /\ rows[i].plugged = IF unit.plug # "logged" THEN -1 ELSE IF k.car THEN 100 ELSE 0
      /\ rows[i].diverted = IF unit.plug = "measures" /\ k.car THEN CarLoad ELSE 0
  BY RowShows
<1>2. unit.plug \in {"logged", "measures"}
  BY UnitIs DEF HistoryInv
<1>3. k.load \in {20, 50} /\ k.car \in BOOLEAN
  BY <1>1, HourKindIs
<1>4. rows[i].ts \in DOMAIN lived /\ k.load \in Nat /\ k.load <= MostLoad /\ MostLoad \in Nat
  <2>1. DOMAIN lived = 1 .. Len(lived)
    BY DEF HistoryInv
  <2> QED
    BY <1>3, <2>1, RowIs, MostLoadIs
<1>5. LoadOut(k) = k.load + IF k.car THEN 150 ELSE 0
  BY DEF LoadOut, CarLoad
<1>6. NetLoad(rows[i]) = k.load
  <2>1. CASE k.car /\ unit.plug = "logged"
    <3>1. rows[i].plugged = 100 /\ rows[i].output = k.load + 150
      BY <1>1, <1>5, <2>1
    <3>2. rows[i].output - (rows[i].plugged * CarLoad) \div 100 = k.load
      BY <1>3, <3>1 DEF CarLoad
    <3> QED
      BY <1>3, <3>1, <3>2 DEF NetLoad
  <2>2. CASE k.car /\ unit.plug = "measures"
    <3>1. rows[i].plugged = -1 /\ rows[i].output = k.load + 150 /\ rows[i].diverted = 150
      BY <1>1, <1>5, <2>2 DEF CarLoad
    <3> QED
      BY <1>3, <3>1 DEF NetLoad
  <2>3. CASE ~k.car
    <3>1. rows[i].output = k.load /\ rows[i].diverted = 0 /\ rows[i].plugged \in {-1, 0}
      BY <1>1, <1>3, <1>5, <2>3
    <3>2. (0 * CarLoad) \div 100 = 0
      BY DEF CarLoad
    <3>3. CASE rows[i].plugged = -1
      BY <1>3, <3>1, <3>3 DEF NetLoad
    <3>4. CASE rows[i].plugged = 0
      BY <1>3, <3>1, <3>2, <3>4 DEF NetLoad
    <3> QED
      BY <3>1, <3>3, <3>4
  <2> QED
    BY <1>2, <1>3, <2>1, <2>2, <2>3
<1> QED
  BY <1>4, <1>6

LEMMA LoadCapIs ==
  ASSUME HistoryInv, DOMAIN rows # {}
  PROVE  LoadCap \in 0 .. MostLoad
<1> DEFINE f == [i \in DOMAIN rows |-> NetLoad(rows[i])]
           n == Len(rows)
<1>1. DOMAIN rows = 1 .. n /\ n \in Nat /\ n # 0
  BY DEF HistoryInv
<1>2. IsFiniteSet(DOMAIN f) /\ Cardinality(DOMAIN f) = n
  BY <1>1, FS_Interval
<1>3. \A i \in DOMAIN f : f[i] \in 0 .. MostLoad
  BY NetLoadIs
<1>4. MostLoad \in Nat
  BY MostLoadIs
<1>5. \A i \in DOMAIN f : f[i] \in Int
  BY <1>3, <1>4
<1>6. (95 * n) \div 100 \in Nat
  <2> HIDE DEF n
  <2> QED
    BY <1>1
<1> DEFINE k == Min({(95 * n) \div 100 + 1, n})
<1>7. k \in 1 .. n
  <2> DEFINE m == (95 * n) \div 100 + 1
  <2>1. m \in Nat /\ m >= 1
    <3> HIDE DEF n
    <3> QED
      BY <1>6
  <2> HIDE DEF m, n
  <2>2. ASSUME NEW a \in Int, NEW b \in Int PROVE Min({a, b}) \in {a, b} /\ Min({a, b}) <= b
    BY MinOfTwo
  <2>3. Min({m, n}) \in {m, n} /\ Min({m, n}) <= n
    BY <1>1, <2>1, <2>2
  <2>4. Min({m, n}) \in 1 .. n
    BY <1>1, <2>1, <2>3
  <2> QED
    BY <2>4 DEF m, n
<1> HIDE DEF f, k
<1>8. Ranked(f, k) \in Range(f)
  BY <1>2, <1>5, <1>7, RankedIsSample
<1>9. LoadCap = Ranked(f, k)
  BY DEF LoadCap, f, k
<1> QED
  BY <1>3, <1>8, <1>9 DEF Range

LEMMA TypicalLoadIs ==
  ASSUME HistoryInv, NEW is \in SUBSET (DOMAIN rows), is # {}
  PROVE  TypicalLoad(is) \in 0 .. MostLoad
<1> DEFINE f == LoadsOf(is)
<1>1. LoadCap \in 0 .. MostLoad /\ MostLoad \in Nat
  BY LoadCapIs, MostLoadIs
<1>2. DOMAIN f = is /\ \A i \in is : f[i] = Min({NetLoad(rows[i]), LoadCap})
  BY DEF LoadsOf
<1>3. ASSUME NEW i \in is PROVE f[i] \in 0 .. MostLoad
  <2>1. NetLoad(rows[i]) \in 0 .. MostLoad
    BY NetLoadIs
  <2>2. ASSUME NEW a \in Int, NEW b \in Int PROVE Min({a, b}) \in {a, b}
    BY MinOfTwo
  <2>3. Min({NetLoad(rows[i]), LoadCap}) \in {NetLoad(rows[i]), LoadCap}
    BY <1>1, <2>1, <2>2
  <2> QED
    BY <1>1, <1>2, <2>1, <2>3
<1>4. IsFiniteSet(is)
  <2>1. IsFiniteSet(DOMAIN rows)
    BY FS_Interval DEF HistoryInv
  <2> QED
    BY <2>1, FS_Subset
<1>5. \A i \in DOMAIN f : f[i] \in Int
  BY <1>1, <1>2, <1>3
<1> HIDE DEF f
<1>6. TrimmedMedian(f) \in Range(f)
  BY <1>2, <1>4, <1>5, TrimmedIsSample
<1>7. TrimmedMedian(f) \in 0 .. MostLoad
  BY <1>2, <1>3, <1>6 DEF Range
<1> QED
  BY <1>7 DEF TypicalLoad, f

LEMMA HourLoadIs ==
  ASSUME HistoryInv, NEW is \in SUBSET (DOMAIN rows), is # {}
  PROVE  HourLoad(is) \in 0 .. MostLoad
<1> DEFINE recent == {i \in is : rows[i].ts >= Len(lived) + 1 - Recent}
           older == is \ recent
<1>1. \A s \in SUBSET (DOMAIN rows) : s # {} => TypicalLoad(s) \in 0 .. MostLoad
  BY TypicalLoadIs
<1>2. MostLoad \in Nat
  BY MostLoadIs
<1>3. CASE StableLoad(is) \/ Cardinality(is) < 6 \/ recent = {}
  BY <1>1, <1>3 DEF HourLoad
<1>4. CASE ~(StableLoad(is) \/ Cardinality(is) < 6 \/ recent = {})
  <2> DEFINE a == TypicalLoad(recent)
             b == TypicalLoad(IF older = {} THEN recent ELSE older)
  <2>1. HourLoad(is) = (70 * a + 30 * b) \div 100
    BY <1>4 DEF HourLoad
  <2>2. a \in 0 .. MostLoad /\ b \in 0 .. MostLoad
    BY <1>1, <1>4
  <2> HIDE DEF a, b
  <2>3. 70 * a + 30 * b \in 0 .. 100 * MostLoad
    BY <1>2, <2>2
  <2> QED
    BY <1>2, <2>1, <2>3
<1> QED
  BY <1>3, <1>4

LEMMA ProfileIs ==
  ASSUME HistoryInv, NEW k \in DOMAIN LoadProfile
  PROVE  LoadProfile[k] \in 0 .. MostLoad
<1> DEFINE is == {i \in DOMAIN rows : LoadKey(rows[i]) = k}
           top == Max({6 * IdleLoadW, LoadCap})
<1>1. is # {} /\ is \in SUBSET (DOMAIN rows)
  BY DEF LoadProfile
<1>2. LoadProfile[k] = Min({HourLoad(is), top})
  BY DEF LoadProfile
<1> HIDE DEF is
<1>3. HourLoad(is) \in 0 .. MostLoad /\ LoadCap \in 0 .. MostLoad /\ MostLoad \in Nat
  BY <1>1, HourLoadIs, LoadCapIs, MostLoadIs
<1>4. top \in Nat
  <2>1. ASSUME NEW a \in Int, NEW b \in Int PROVE Max({a, b}) \in {a, b}
    BY MaxOfTwo
  <2>2. 6 * IdleLoadW \in Int /\ LoadCap \in Int /\ 6 * IdleLoadW >= 0
    BY <1>3 DEF IdleLoadW
  <2>3. Max({6 * IdleLoadW, LoadCap}) \in {6 * IdleLoadW, LoadCap}
    BY <2>1, <2>2
  <2> QED
    BY <1>3, <2>2, <2>3
<1> HIDE DEF top
<1>5. ASSUME NEW a \in Int, NEW b \in Int PROVE Min({a, b}) \in {a, b} /\ Min({a, b}) <= a
  BY MinOfTwo
<1>6. /\ Min({HourLoad(is), top}) \in {HourLoad(is), top}
      /\ Min({HourLoad(is), top}) <= HourLoad(is)
  BY <1>3, <1>4, <1>5
<1> QED
  BY <1>2, <1>3, <1>4, <1>6

\* The drain is one of three kinds, and none of them gains.
LEMMA DrainKinds ==
  \E w, v, n : DrainModel = DefaultDrain(n) \/ DrainModel = Regression(w)
                \/ DrainModel = FromMedian(v) \/ DrainModel = FromMedian(w)
<1> DEFINE accepted == { i \in DOMAIN Pairs :
                           Pairs[i].a.soc >= StartFloor /\ Discharges(Pairs[i].a, Pairs[i].b) }
           windows == [i \in accepted |-> PairWindow(Pairs[i])]
           long == { r \in CleanRuns : RunHours(r) >= LongRun }
           pool == [r \in (IF Cardinality(long) >= 2 THEN long ELSE CleanRuns) |-> RunWindow(r)]
           few == Size(windows) < MinWindows
           narrow == Narrow([i \in accepted |-> windows[i].load \div windows[i].hours])
           enough == Size(pool) >= 2 /\ MedianImplied(pool) <= MaxParasitic
<1>1. DrainModel = IF few THEN DefaultDrain(Size(windows))
                   ELSE IF ~narrow THEN Regression(windows)
                   ELSE IF enough THEN FromMedian(pool) ELSE FromMedian(windows)
  BY DEF DrainModel
<1> HIDE DEF few, narrow, enough, pool, windows
<1>2. \/ DrainModel = DefaultDrain(Size(windows)) \/ DrainModel = Regression(windows)
      \/ DrainModel = FromMedian(pool) \/ DrainModel = FromMedian(windows)
  BY <1>1
<1> QED
  BY <1>2

LEMMA DrainIsNoGain == DrainModel.overhead \in Nat /\ DrainModel.parasitic \in Nat
<1>1. \A n : DefaultDrain(n).overhead \in Nat /\ DefaultDrain(n).parasitic \in Nat
  BY DEF DefaultDrain, Parasitic, Overhead
<1>2. ASSUME NEW m PROVE OneOf(0 .. MaxParasitic, m, Parasitic) \in Nat
  BY DEF OneOf, MaxParasitic, Parasitic
<1>3. ASSUME NEW w PROVE FromMedian(w).overhead \in Nat /\ FromMedian(w).parasitic \in Nat
  BY <1>2 DEF FromMedian, DefaultDrain, Overhead
<1>4. ASSUME NEW w PROVE Regression(w).overhead \in Nat /\ Regression(w).parasitic \in Nat
  <2> DEFINE n == Size(w)
             x == [i \in DOMAIN w |-> w[i].load \div w[i].hours]
             y == [i \in DOMAIN w |-> w[i].drain \div w[i].hours]
             sx == SumFunction(x)
             sy == SumFunction(y)
             sxy == SumFunction([i \in DOMAIN w |-> x[i] * y[i]])
             sxx == SumFunction([i \in DOMAIN w |-> x[i] * x[i]])
             denom == n * sxx - sx * sx
             slope == (100 * (n * sxy - sx * sy)) \div denom
             base == (100 * sy - slope * sx) \div (100 * n)
             bad == denom <= 0 \/ base \notin 0 .. MaxParasitic \/ slope - 100 \notin 0 .. 50
  <2>1. Regression(w) = IF bad THEN DefaultDrain(n)
                        ELSE [parasitic |-> base, overhead |-> slope - 100, windows |-> n]
    BY DEF Regression
  <2>2. ~bad => base \in 0 .. MaxParasitic /\ slope - 100 \in 0 .. 50
    <3> HIDE DEF base, slope, denom
    <3> QED
      OBVIOUS
  <2> HIDE DEF bad, base, slope, n
  <2> DEFINE d == slope - 100
  <2>3. ~bad => base \in Nat /\ d \in Nat
    BY <2>2 DEF MaxParasitic
  <2>4. Regression(w) = IF bad THEN DefaultDrain(n)
                        ELSE [parasitic |-> base, overhead |-> d, windows |-> n]
    BY <2>1
  <2> HIDE DEF d
  <2> QED
    BY <1>1, <2>3, <2>4
<1> QED
  BY <1>1, <1>3, <1>4, DrainKinds

\* The keys that a load is looked up with are a sequence.
LEMMA SixInARow == ASSUME NEW K, NEW f \in [1 .. 6 -> K] PROVE f \in Seq(K)
<1>1. 6 \in Nat
  OBVIOUS
<1>2. f \in UNION {[1 .. n -> K] : n \in Nat}
  BY <1>1
<1> QED
  BY <1>2, SeqDef

\* The hour looked up may be another one, what is added is the drain's.
LEMMA ExpectedIsBounded ==
  ASSUME NEW most \in Nat, most >= IdleLoadW, NEW profile,
         \A k \in DOMAIN profile : profile[k] \in 0 .. most,
         NEW drain, drain.overhead \in Nat, drain.parasitic \in Nat,
         NEW hour, NEW weekend
  PROVE  ExpectedLoad(profile, drain, hour, weekend)
           <= most + (most * drain.overhead) \div 100 + drain.parasitic
<1> DEFINE near == <<1, -1, 2, -2, 3, -3>>
           s == << <<hour, weekend>>, <<hour, ~weekend>> >>
           t == [i \in 1 .. 6 |-> <<(hour + near[i]) % DayHours, weekend>>]
           u == [i \in 1 .. 6 |-> <<(hour + near[i]) % DayHours, ~weekend>>]
           keys == s \o t \o u
           known == {i \in DOMAIN keys : keys[i] \in DOMAIN profile}
           base == IF known = {} THEN IdleLoadW ELSE profile[keys[Min(known)]]
           K == {s[1], s[2]} \cup {t[i] : i \in 1 .. 6} \cup {u[i] : i \in 1 .. 6}
<1>1. s \in Seq(K) /\ t \in Seq(K) /\ u \in Seq(K)
  <2> DEFINE a == <<hour, weekend>>
             b == <<hour, ~weekend>>
  <2>1. s \in Seq(K)
    <3>1. a \in K /\ b \in K
      OBVIOUS
    <3> HIDE DEF a, b, K
    <3>2. <<a, b>> \in Seq(K)
      BY <3>1
    <3> QED
      BY <3>2 DEF a, b
  <2>2. t \in [1 .. 6 -> K] /\ u \in [1 .. 6 -> K]
    <3> HIDE DEF s
    <3> QED
      OBVIOUS
  <2> HIDE DEF s, t, u, K
  <2>3. ASSUME NEW f \in [1 .. 6 -> K] PROVE f \in Seq(K)
    BY <2>3, SixInARow
  <2> QED
    BY <2>1, <2>2, <2>3
<1> HIDE DEF s, t, u, K
<1>2. keys \in Seq(K)
  BY <1>1
<1> HIDE DEF keys
<1>3. IsFiniteSet(DOMAIN keys) /\ \A i \in DOMAIN keys : i \in Int
  BY <1>2, FS_Interval
<1>4. IsFiniteSet(known) /\ \A i \in known : i \in Int
  BY <1>3, FS_Subset
<1>5. known # {} => Min(known) \in known
  <2> HIDE DEF known
  <2> QED
    BY <1>4, SmallestNumber
<1>6. base \in 0 .. most
  BY <1>5 DEF IdleLoadW
<1>7. ExpectedLoad(profile, drain, hour, weekend)
        = IF base = 0 THEN 0 ELSE base + (base * drain.overhead) \div 100 + drain.parasitic
  BY DEF ExpectedLoad, keys, s, t, u
<1> HIDE DEF base
<1> DEFINE o == drain.overhead
<1>8. base * o \in Nat /\ most * o \in Nat /\ base * o <= most * o
  <2>1. base \in Int /\ o \in Nat /\ base <= most /\ base >= 0
    BY <1>6
  <2> HIDE DEF o
  <2>2. base * o <= most * o
    BY <2>1, Grows
  <2> QED
    BY <2>1, <2>2
<1> HIDE DEF o
<1>9. ASSUME NEW x \in Nat, NEW y \in Nat, x <= y
      PROVE  x \div 100 <= y \div 100 /\ y \div 100 \in Nat /\ x \div 100 \in Nat
  BY <1>9
<1>10. /\ (base * o) \div 100 <= (most * o) \div 100
       /\ (most * o) \div 100 \in Nat /\ (base * o) \div 100 \in Nat
  BY <1>8, <1>9
<1>11. ExpectedLoad(profile, drain, hour, weekend)
         = IF base = 0 THEN 0 ELSE base + (base * o) \div 100 + drain.parasitic
  BY <1>7 DEF o
<1>12. ExpectedLoad(profile, drain, hour, weekend) <= most + (most * o) \div 100 + drain.parasitic
  BY <1>6, <1>10, <1>11
<1> QED
  BY <1>12 DEF o

LEMMA ProfileHolds == HistoryInv => ProfileIsDemand
<1> SUFFICES ASSUME HistoryInv PROVE ProfileIsDemand
  OBVIOUS
<1>1. \A k \in DOMAIN LoadProfile : LoadProfile[k] \in 0 .. MostLoad
  BY ProfileIs
<1>2. MostLoad \in Nat /\ MostLoad >= IdleLoadW
  BY MostLoadIs
<1>3. DrainModel.overhead \in Nat /\ DrainModel.parasitic \in Nat
  BY DrainIsNoGain
<1>4. ASSUME NEW hour, NEW weekend
      PROVE  ExpectedLoad(LoadProfile, DrainModel, hour, weekend)
               <= MostLoad + (MostLoad * DrainModel.overhead) \div 100 + DrainModel.parasitic
  BY <1>1, <1>2, <1>3, ExpectedIsBounded
<1> QED
  BY <1>4 DEF ProfileIsDemand, MostLoad

-----------------------------------------------------------------------------
(* The sun.  In each pair the bucket shows what the panels yielded under    *)
(* the pair's irradiance, or less; with headroom, all of it.                *)

LEMMA SunPairIs ==
  ASSUME HistoryInv, unit.meter = "acip", NEW tier, NEW p \in SunPairs(tier)
  PROVE  /\ p.ghi \in {60, 100} /\ p.row.solar \in 1 .. Yield /\ 100 * p.row.solar <= Yield * p.ghi
         /\ tier = "headroom" => p.ghi = 100 /\ p.row.solar = Yield
         /\ \E i \in DOMAIN rows : p = [ghi |-> p.ghi, row |-> rows[i]]
<1>1. PICK w \in Weather : w.ghi > MinGhi /\ p \in PairedHour(w)
  BY DEF SunPairs
<1>2. PICK h \in DOMAIN lived : w = [ts |-> h + 1, ghi |-> lived[h].ghi]
  BY <1>1 DEF Weather
<1>3. PICK i \in DOMAIN rows : rows[i].ts = w.ts - 1 /\ p = [ghi |-> w.ghi, row |-> rows[i]]
  BY <1>1 DEF PairedHour, RowAt
<1>4. h \in Nat /\ DOMAIN lived = 1 .. Len(lived)
  BY DEF HistoryInv
<1>5. rows[i].ts = h /\ p.row = rows[i] /\ p.ghi = lived[h].ghi /\ p.ghi > 50
  BY <1>1, <1>2, <1>3, <1>4 DEF MinGhi
<1> DEFINE k == lived[h]
<1>6. k \in HourKinds /\ k.ghi \in {60, 100} /\ k.ac \in {0, 60}
  <2>1. k \in HourKinds
    BY <1>3, <1>5, RowIs
  <2> QED
    BY <1>5, <2>1, HourKindIs
<1>7. /\ rows[i].ac = k.ac /\ rows[i].solar = rows[i].input - rows[i].ac
      /\ \E sun \in 0 .. Yield : /\ rows[i].input = sun + k.ac
                                 /\ 100 * sun <= Yield * k.ghi /\ (sun = 0 <=> k.ghi = 0)
  BY <1>3, <1>5, RowShows
<1>8. PICK sun \in 0 .. Yield : /\ rows[i].input = sun + k.ac /\ sun # 0
                                /\ 100 * sun <= Yield * k.ghi
  BY <1>6, <1>7
<1>9. rows[i].solar = sun
  BY <1>6, <1>7, <1>8 DEF Yield
<1>10. p.row.solar \in 1 .. Yield /\ 100 * p.row.solar <= Yield * p.ghi
  BY <1>5, <1>8, <1>9 DEF Yield
<1>11. ASSUME tier = "headroom" PROVE p.ghi = 100 /\ p.row.solar = Yield
  <2>1. p.ghi >= ClearGhi /\ p.row.soc <= HeadroomSoc
    BY <1>11 DEF SunPairs
  <2>2. p.ghi = 100 /\ k.ghi = 100
    BY <1>5, <1>6, <2>1 DEF ClearGhi
  <2>3. PICK level \in 0 .. FullBattery : rows[i] = Bucket(h, k, level)
    BY <1>3, <1>5, RowIs
  <2>4. level \in Int
    BY DEF FullBattery
  <2>5. (level + AfterHour(k, level)) \div 20 <= 70
    <3>1. rows[i].soc = (level + AfterHour(k, level)) \div (2 * PerPoint)
      BY <2>3 DEF Bucket
    <3> QED
      BY <1>5, <2>1, <3>1 DEF PerPoint, HeadroomSoc
  <2>6. AfterHour(k, level) \in Int /\ AfterHour(k, level) >= level - 197
    <3>1. AfterHour(k, level) \in 0 .. FullBattery /\ AfterHour(k, level) >= level - 197
      BY <1>6, LevelAfterHour
    <3> QED
      BY <3>1 DEF FullBattery
  <2> DEFINE after == AfterHour(k, level)
  <2>7. level <= 950
    <3> HIDE DEF after
    <3>1. (level + after) \div 20 <= 70 /\ after \in Int /\ after >= level - 197
      BY <2>5, <2>6 DEF after
    <3>2. level + after <= 1419
      BY <2>4, <3>1
    <3> QED
      BY <2>4, <3>1, <3>2
  <2>8. SunIn(k, level) = Yield
    BY <1>6, <2>2, <2>4, <2>7, SunOfHour DEF Taper
  <2>9. rows[i].input = SunIn(k, level) + k.ac
    BY <2>3 DEF Bucket
  <2> QED
    BY <1>5, <1>6, <1>7, <2>2, <2>8, <2>9 DEF Yield
<1> QED
  BY <1>3, <1>5, <1>6, <1>10, <1>11

LEMMA SunPairsAreFinite ==
  ASSUME HistoryInv, unit.meter = "acip", NEW tier
  PROVE  IsFiniteSet(SunPairs(tier)) /\ Cardinality(SunPairs(tier)) \in Nat
<1> DEFINE a == [i \in DOMAIN rows |-> [ghi |-> 60, row |-> rows[i]]]
           b == [i \in DOMAIN rows |-> [ghi |-> 100, row |-> rows[i]]]
           A == {a[i] : i \in DOMAIN rows}
           B == {b[i] : i \in DOMAIN rows}
<1>1. IsFiniteSet(DOMAIN rows)
  BY FS_Interval DEF HistoryInv
<1>2. ASSUME NEW p \in SunPairs(tier) PROVE p \in A \cup B
  <2>1. p.ghi \in {60, 100} /\ \E i \in DOMAIN rows : p = [ghi |-> p.ghi, row |-> rows[i]]
    BY SunPairIs
  <2> QED
    BY <2>1
<1>3. IsFiniteSet(A) /\ IsFiniteSet(B)
  <2> HIDE DEF a, b
  <2> QED
    BY <1>1, ImageIsFinite
<1> HIDE DEF A, B
<1>4. IsFiniteSet(A \cup B)
  BY <1>3, FS_Union
<1>5. IsFiniteSet(SunPairs(tier))
  BY <1>2, <1>4, FS_Subset
<1> QED
  BY <1>5, FS_CardinalityType

LEMMA SlopeIs ==
  ASSUME HistoryInv, unit.meter = "acip", NEW tier, SunPairs(tier) # {}
  PROVE  /\ Slope(SunPairs(tier)) \in Int /\ Slope(SunPairs(tier)) <= Yield
         /\ tier = "headroom" => Slope(SunPairs(tier)) = Yield
<1> DEFINE P == SunPairs(tier)
           g == [p \in P |-> p.ghi * p.row.solar]
           h == [p \in P |-> p.ghi * p.ghi]
           A == SumFunctionOnSet(g, P)
           B == SumFunctionOnSet(h, P)
<1>1. IsFiniteSet(P) /\ Cardinality(P) \in Nat /\ Cardinality(P) # 0
  BY SunPairsAreFinite, FS_EmptySet
<1>2. ASSUME NEW p \in P
      PROVE  /\ g[p] \in Int /\ h[p] \in Int /\ h[p] >= 1
             /\ 100 * g[p] <= Yield * h[p]
             /\ -1 * h[p] <= -1
             /\ tier = "headroom" => Yield * h[p] <= 100 * g[p]
  <2>1. /\ p.ghi \in {60, 100} /\ p.row.solar \in 1 .. Yield /\ 100 * p.row.solar <= Yield * p.ghi
        /\ tier = "headroom" => p.ghi = 100 /\ p.row.solar = Yield
    BY SunPairIs
  <2>2. g[p] = p.ghi * p.row.solar /\ h[p] = p.ghi * p.ghi
    OBVIOUS
  <2> HIDE DEF g, h, P
  <2>3. CASE p.ghi = 60
    BY <2>1, <2>2, <2>3 DEF Yield
  <2>4. CASE p.ghi = 100
    BY <2>1, <2>2, <2>4 DEF Yield
  <2> QED
    BY <2>1, <2>3, <2>4
<1>3. Slope(P) = (100 * A) \div B
  BY DEF Slope, SumFunction
<1> HIDE DEF P, g, h
<1>4. A \in Int /\ B \in Int
  BY <1>1, <1>2, SumIsNumber
<1>5. 100 * A <= Yield * B
  <2>1. 100 \in Int /\ Yield \in Int
    BY DEF Yield
  <2> QED
    BY <1>1, <1>2, <2>1, SumsCompare
<1>6. B > 0
  <2> DEFINE m == -1
  <2>1. m \in Int /\ \A p \in P : h[p] \in Int /\ m * h[p] <= m
    BY <1>2
  <2> HIDE DEF m
  <2>2. ASSUME NEW a \in Int, NEW b \in Int, \A p \in P : h[p] \in Int /\ a * h[p] <= b
        PROVE  a * B <= b * Cardinality(P)
    BY <1>1, <2>2, SumIsBounded
  <2> HIDE DEF A, B
  <2>3. m * B <= m * Cardinality(P)
    BY <2>1, <2>2
  <2> QED
    BY <1>1, <1>4, <2>3 DEF m
<1>7. tier = "headroom" => Yield * B <= 100 * A
  <2>1. 100 \in Int /\ Yield \in Int
    BY DEF Yield
  <2> QED
    BY <1>1, <1>2, <2>1, SumsCompare
<1> DEFINE s == (100 * A) \div B
<1> HIDE DEF A, B
<1>8. s \in Int /\ s * B <= 100 * A /\ s * B \in Int
  BY <1>4, <1>6, DivisionIs
<1> HIDE DEF s
<1>9. s <= Yield
  <2>1. s * B <= Yield * B
    BY <1>4, <1>5, <1>6, <1>8 DEF Yield
  <2>2. Yield \in Int
    BY DEF Yield
  <2> QED
    BY <1>4, <1>6, <1>8, <2>1, <2>2, Shrinks
<1>10. tier = "headroom" => s = Yield
  <2> SUFFICES ASSUME tier = "headroom" PROVE s = Yield
    OBVIOUS
  <2>1. 100 * A = Yield * B + 0
    BY <1>4, <1>5, <1>7 DEF Yield
  <2>2. (Yield * B + 0) \div B = Yield
    BY <1>4, <1>6, DivisionIsUnique DEF Yield
  <2> QED
    BY <2>1, <2>2 DEF s
<1> QED
  BY <1>3, <1>8, <1>9, <1>10 DEF P, s

\* What the fit believes, unless it believes nothing or the default.
CoefficientIsFitted == SolarCoefficient \notin {0, DefaultCoefficient}

LEMMA CoefficientIs ==
  ASSUME HistoryInv, unit.meter = "acip", CoefficientIsFitted
  PROVE  /\ SolarCoefficient \in 1 .. Yield
         /\ Tier = "headroom" => SolarCoefficient = Yield
<1> DEFINE P == SunPairs(Tier)
           c == Cardinality(P)
<1>1. c \in Nat
  BY SunPairsAreFinite
<1>2. SolarCoefficient = IF c < MinSamples THEN DefaultCoefficient
                         ELSE OneOf(5 .. 1500, Slope(P), DefaultCoefficient)
  BY DEF SolarCoefficient, CoefficientIsFitted
<1>3. ~(c < MinSamples) /\ Slope(P) \in 5 .. 1500 /\ SolarCoefficient = Slope(P)
  BY <1>2 DEF CoefficientIsFitted, OneOf
<1>4. P # {}
  BY <1>1, <1>3, FS_EmptySet DEF MinSamples
<1>5. Slope(P) <= Yield /\ (Tier = "headroom" => Slope(P) = Yield)
  BY <1>4, SlopeIs
<1> HIDE DEF P
<1> QED
  BY <1>3, <1>5 DEF Yield

\* No pair's ratio makes more of the coefficient than the panels yield.
LEMMA SunRatioIs ==
  ASSUME HistoryInv, unit.meter = "acip", CoefficientIsFitted, NEW tier, NEW p \in SunPairs(tier)
  PROVE  SunRatio(p) \in Int /\ SolarCoefficient * SunRatio(p) <= 100 * Yield
<1> DEFINE k == SolarCoefficient
           s == p.row.solar
           D == p.ghi * k
           r == (10000 * s) \div D
<1>1. k \in 1 .. 80
  BY CoefficientIs DEF Yield
<1>2. p.ghi \in {60, 100} /\ s \in 1 .. 80 /\ 100 * s <= 80 * p.ghi
  BY SunPairIs DEF Yield
<1>3. SunRatio(p) = r
  BY DEF SunRatio
<1> HIDE DEF k, s
<1>4. D \in Nat /\ D > 0 /\ 10000 * s \in Int
  <2>1. CASE p.ghi = 60
    BY <1>1, <1>2, <2>1
  <2>2. CASE p.ghi = 100
    BY <1>1, <1>2, <2>2
  <2> QED
    BY <1>2, <2>1, <2>2
<1>5. r \in Int /\ r * D <= 10000 * s
  <2> HIDE DEF D
  <2> QED
    BY <1>4, DivisionIs
<1> HIDE DEF r
<1>6. k * r <= 8000
  <2> DEFINE x == k * r
  <2>1. x \in Int
    BY <1>1, <1>5
  <2>2. CASE p.ghi = 60
    <3>1. D = 60 * k
      BY <1>1, <2>2
    <3>2. r * (60 * k) = 60 * (k * r)
      BY <1>1, <1>5
    <3>3. 60 * x <= 10000 * s
      BY <1>5, <3>1, <3>2
    <3> HIDE DEF x
    <3> QED
      BY <1>2, <2>1, <2>2, <3>3 DEF x
  <2>3. CASE p.ghi = 100
    <3>1. D = 100 * k
      BY <1>1, <2>3
    <3>2. r * (100 * k) = 100 * (k * r)
      BY <1>1, <1>5
    <3>3. 100 * x <= 10000 * s
      BY <1>5, <3>1, <3>2
    <3> HIDE DEF x
    <3> QED
      BY <1>2, <2>1, <2>3, <3>3 DEF x
  <2> QED
    BY <1>2, <2>2, <2>3
<1> QED
  BY <1>3, <1>5, <1>6 DEF k, Yield

\* A bound of the samples bounds the middle one, or the mean of two.
LEMMA MiddleIs ==
  ASSUME NEW f, IsFiniteSet(DOMAIN f), DOMAIN f # {}, NEW k \in Nat, NEW most \in Int,
         \A x \in DOMAIN f : f[x] \in Int /\ k * f[x] <= most
  PROVE  Middle(f) \in Int /\ k * Middle(f) <= most
<1> DEFINE n == Cardinality(DOMAIN f)
<1>1. n \in Nat /\ n # 0
  BY FS_CardinalityType, FS_EmptySet
<1>2. \A v \in Range(f) : v \in Int /\ k * v <= most
  BY DEF Range
<1>3. Median(f) \in Range(f)
  BY MedianIsSample
<1>4. CASE n % 2 = 1
  BY <1>2, <1>3, <1>4 DEF Middle, Size
<1>5. CASE n % 2 # 1
  <2> DEFINE a == Ranked(f, n \div 2)
             b == Median(f)
             c == (a + b) \div 2
  <2>1. n \div 2 \in 1 .. n
    <3> HIDE DEF n
    <3> QED
      BY <1>1, <1>5
  <2>2. a \in Range(f)
    BY <2>1, RankedIsSample
  <2>3. Middle(f) = c
    BY <1>5 DEF Middle, Size
  <2>4. a \in Int /\ b \in Int /\ k * a <= most /\ k * b <= most
    BY <1>2, <1>3, <2>2
  <2> HIDE DEF a, b, n
  <2>5. c \in Int /\ 2 * c <= a + b
    BY <2>4
  <2> HIDE DEF c
  <2>6. (2 * c) * k <= (a + b) * k
    BY <2>4, <2>5, Grows
  <2>7. (2 * c) * k = 2 * (k * c) /\ (a + b) * k = k * a + k * b /\ k * c \in Int
    BY <2>4, <2>5
  <2> DEFINE x == k * c
             y == k * a
             z == k * b
  <2>8. x \in Int /\ y \in Int /\ z \in Int /\ 2 * x <= y + z /\ y <= most /\ z <= most
    BY <2>4, <2>6, <2>7
  <2> HIDE DEF x, y, z
  <2>9. x <= most
    BY <2>8
  <2> QED
    BY <2>3, <2>5, <2>9 DEF x
<1> QED
  BY <1>4, <1>5

\* The middle of the hour's ratios, drawn towards one hundred percent, neither.
LEMMA DrawnIs ==
  ASSUME NEW k \in 1 .. 80, NEW n \in Nat, NEW m \in Int, k * m <= 8000
  PROVE  k * ((n * m + 400) \div (n + 4)) <= 8000
<1> DEFINE M == n + 4
           y == n * m + 400
           q == y \div M
<1>1. M \in Nat /\ M > 0 /\ y \in Int
  OBVIOUS
<1>2. q \in Int /\ q * M <= y /\ q * M \in Int
  <2> HIDE DEF M, y
  <2> QED
    BY <1>1, DivisionIs
<1> HIDE DEF q
<1>3. (q * M) * k <= y * k
  <2>1. k \in Nat
    OBVIOUS
  <2> HIDE DEF M, y
  <2> QED
    BY <1>1, <1>2, <2>1, Grows
<1>4. (k * m) * n <= 8000 * n
  BY Grows
<1>5. y * k = (k * m) * n + 400 * k
  OBVIOUS
<1>6. y * k <= 8000 * M
  <2> DEFINE a == (k * m) * n
  <2>1. a \in Int
    OBVIOUS
  <2>2. y * k = a + 400 * k /\ a <= 8000 * n
    BY <1>4, <1>5
  <2> HIDE DEF a, y
  <2> QED
    BY <2>1, <2>2
<1>7. (q * M) * k = (k * q) * M
  <2> HIDE DEF M, y
  <2> QED
    BY <1>1, <1>2
<1>8. k * q \in Int /\ y * k \in Int
  BY <1>1, <1>2
<1> HIDE DEF M, y
<1>9. (k * q) * M <= 8000 * M
  BY <1>1, <1>2, <1>3, <1>6, <1>7, <1>8
<1>10. k * q <= 8000
  <2> DEFINE z == k * q
  <2>1. z \in Int /\ z * M <= 8000 * M
    BY <1>8, <1>9
  <2> HIDE DEF z
  <2>2. z <= 8000
    BY <1>1, <2>1, Shrinks
  <2> QED
    BY <2>2 DEF z
<1> QED
  BY <1>10 DEF q, y, M

LEMMA ShapeIs ==
  ASSUME HistoryInv, unit.meter = "acip", CoefficientIsFitted, NEW hour \in DOMAIN DiurnalShape
  PROVE  SolarCoefficient * DiurnalShape[hour] <= 100 * Yield
<1> DEFINE k == SolarCoefficient
           pairs == {p \in SunPairs("broad") :
                       HourOfDay(p.row.ts) = hour /\ SunRatio(p) \in 5 .. 500}
           n == Cardinality(pairs)
           f == [p \in pairs |-> SunRatio(p)]
           m == Middle(f)
<1>1. k \in 1 .. 80
  BY CoefficientIs DEF Yield
<1>2. DiurnalShape[hour] = IF k = 0 \/ n = 0 THEN 100
                           ELSE (n * m + 100 * PriorStrength) \div (n + PriorStrength)
  BY DEF DiurnalShape
<1>3. IsFiniteSet(pairs) /\ n \in Nat
  <2>1. IsFiniteSet(SunPairs("broad"))
    BY SunPairsAreFinite
  <2>2. IsFiniteSet(pairs)
    BY <2>1, FS_Subset
  <2> HIDE DEF pairs
  <2> QED
    BY <2>2, FS_CardinalityType
<1>4. CASE n = 0
  <2> HIDE DEF k, n
  <2> QED
    BY <1>1, <1>2, <1>4 DEF Yield, k
<1>5. CASE n # 0
  <2>1. \A p \in pairs : f[p] \in Int /\ k * f[p] <= 8000
    <3>1. \A p \in pairs : SunRatio(p) \in Int /\ SolarCoefficient * SunRatio(p) <= 100 * Yield
      BY SunRatioIs
    <3> HIDE DEF pairs
    <3> QED
      BY <3>1 DEF Yield
  <2>2. DOMAIN f = pairs
    OBVIOUS
  <2> HIDE DEF f, pairs
  <2>3. pairs # {}
    BY <1>5, FS_EmptySet
  <2>4. k \in Nat
    BY <1>1
  <2>5. m \in Int /\ k * m <= 8000
    <3>1. ASSUME NEW most \in Int, NEW j \in Nat, \A p \in pairs : f[p] \in Int /\ j * f[p] <= most
          PROVE  m \in Int /\ j * m <= most
      BY <1>3, <2>2, <2>3, <3>1, MiddleIs
    <3> HIDE DEF m, k
    <3> QED
      BY <2>1, <2>4, <3>1
  <2> HIDE DEF k, n, m
  <2>6. k * ((n * m + 400) \div (n + 4)) <= 8000
    BY <1>1, <1>3, <2>5, DrawnIs
  <2>7. DiurnalShape[hour] = (n * m + 400) \div (n + 4)
    BY <1>1, <1>2, <1>5 DEF PriorStrength
  <2>8. k * DiurnalShape[hour] <= 8000
    BY <2>6, <2>7
  <2> QED
    BY <2>8 DEF Yield, k
<1> QED
  BY <1>4, <1>5

LEMMA CalibrationIs ==
  ASSUME HistoryInv, unit.meter = "acip", CoefficientIsFitted
  PROVE  SolarCoefficient * Calibration <= 100 * Yield
<1> DEFINE k == SolarCoefficient
           P == SunPairs(Tier)
           n == Cardinality(P)
           f == [p \in P |-> SunRatio(p)]
           S == SumFunctionOnSet(f, P)
<1>1. k \in 1 .. 80
  BY CoefficientIs DEF Yield
<1>2. IsFiniteSet(P) /\ n \in Nat
  BY SunPairsAreFinite
<1>3. Calibration = IF k = 0 \/ n < MinSamples THEN -1 ELSE S \div n
  BY DEF Calibration, SumFunction
<1>4. CASE n < MinSamples
  <2>1. Calibration = -1
    BY <1>3, <1>4
  <2> HIDE DEF k
  <2>2. k * Calibration <= 8000
    BY <1>1, <2>1
  <2> QED
    BY <2>2 DEF Yield, k
<1>5. CASE ~(n < MinSamples)
  <2>1. \A p \in P : f[p] \in Int /\ k * f[p] <= 8000
    <3>1. \A p \in P : SunRatio(p) \in Int /\ SolarCoefficient * SunRatio(p) <= 100 * Yield
      BY SunRatioIs
    <3> HIDE DEF P
    <3> QED
      BY <3>1 DEF Yield
  <2> HIDE DEF f, P, k
  <2>2. S \in Int
    BY <1>2, <2>1, SumIsNumber
  <2>3. ASSUME NEW a \in Int, NEW b \in Int, \A p \in P : f[p] \in Int /\ a * f[p] <= b
        PROVE  a * S <= b * n
    BY <1>2, <2>3, SumIsBounded
  <2> HIDE DEF S
  <2> DEFINE c == S \div n
  <2>4. k \in Int /\ k \in Nat /\ n > 0
    BY <1>1, <1>2, <1>5 DEF MinSamples
  <2> HIDE DEF n
  <2>5. k * S <= 8000 * n
    BY <2>1, <2>3, <2>4
  <2>6. c \in Int /\ c * n <= S /\ c * n \in Int
    BY <1>2, <2>2, <2>4, DivisionIs
  <2> HIDE DEF c
  <2>7. (c * n) * k <= S * k
    BY <2>2, <2>4, <2>6, Grows
  <2>8. (c * n) * k = (k * c) * n /\ S * k = k * S /\ k * c \in Int
    BY <1>2, <2>2, <2>4, <2>6
  <2> DEFINE z == k * c
             x == k * S
  <2>9. z \in Int /\ x \in Int /\ z * n <= x /\ x <= 8000 * n
    BY <2>2, <2>4, <2>5, <2>7, <2>8
  <2> HIDE DEF z, x
  <2>10. z <= 8000
    <3>1. z * n <= 8000 * n
      BY <1>2, <2>9
    <3> QED
      BY <1>2, <2>4, <2>9, <3>1, Shrinks
  <2>11. Calibration = c
    BY <1>3, <1>5, <1>1 DEF c
  <2>12. k * Calibration <= 8000
    BY <2>10, <2>11 DEF z
  <2> QED
    BY <2>12 DEF Yield, k
<1> QED
  BY <1>4, <1>5

LEMMA CoefficientHolds == HistoryInv => CoefficientIsCapability
<1> SUFFICES ASSUME HistoryInv, unit.meter = "acip", CoefficientIsFitted
             PROVE  /\ Tier = "headroom" => SolarCoefficient = Yield
                    /\ \A hour \in DOMAIN DiurnalShape :
                         SolarCoefficient * DiurnalShape[hour] <= 100 * Yield
                    /\ SolarCoefficient * Calibration <= 100 * Yield
  BY DEF CoefficientIsCapability, CoefficientIsFitted
<1> QED
  BY CoefficientIs, ShapeIs, CalibrationIs

-----------------------------------------------------------------------------
(* A run without a gap.  Nothing but the drain moves the charge of a clean  *)
(* hour, so from hour to hour both are known; a run has at most five.       *)

LEMMA CleanHour ==
  ASSUME HistoryInv, NEW i \in DOMAIN rows, Clean(rows[i]), NEW k, k = lived[rows[i].ts]
  PROVE  /\ k \in HourKinds /\ k.ghi = 0 /\ k.ac = 0
         /\ rows[i].output = LoadOut(k) /\ LoadOut(k) \in {20, 50} /\ Drained(k) \in 32 .. 65
<1>1. /\ k \in HourKinds /\ rows[i].output = LoadOut(k)
      /\ rows[i].ac = IF unit.meter = "acip" THEN k.ac ELSE 0
      /\ rows[i].solar = rows[i].input - rows[i].ac
      /\ \E sun \in 0 .. Yield : rows[i].input = sun + k.ac /\ (sun = 0 <=> k.ghi = 0)
  BY RowShows
<1>2. k.ac \in {0, 60} /\ (k.car => k.ghi = 100)
  BY <1>1, HourKindIs
<1>3. PICK sun \in 0 .. Yield : rows[i].input = sun + k.ac /\ (sun = 0 <=> k.ghi = 0)
  BY <1>1
<1>4. rows[i].solar <= 0 /\ rows[i].ac <= 0
  BY DEF Clean, Noise
<1>5. sun = 0 /\ k.ac = 0
  BY <1>1, <1>2, <1>3, <1>4 DEF Yield
<1>6. k.ghi = 0 /\ ~k.car
  BY <1>2, <1>3, <1>5
<1>7. LoadOut(k) \in {20, 50} /\ Drained(k) \in 32 .. 65
  BY <1>1, <1>6, DrainOfHour
<1> QED
  BY <1>1, <1>5, <1>6, <1>7

RowLoads == [i \in DOMAIN rows |-> rows[i].output]

\* What is known j hours into a run: the loads so far are 10 * q.
Upto(levels, r, j) ==
  /\ r.first + j <= r.last
  /\ rows[r.first + j].ts = rows[r.first].ts + j
  /\ \E q \in 0 .. 5 * j :
       /\ SumFunctionOnSet(RowLoads, r.first .. r.first + j - 1) = 10 * q
       /\ levels[rows[r.first].ts + j] = levels[rows[r.first].ts] - 11 * q - 10 * j

LEMMA RunIs ==
  ASSUME HistoryInv, NEW r \in CleanRuns
  PROVE  /\ r.first \in 1 .. Len(rows) /\ r.last \in 1 .. Len(rows) /\ r.first < r.last
         /\ \A i \in r.first .. r.last - 1 : Clean(rows[i]) /\ Clean(rows[i + 1])
                                             /\ rows[i + 1].ts = rows[i].ts + 1
         /\ RunHours(r) \in 2 .. 4 /\ rows[r.first].soc >= StartFloor
<1>1. /\ r \in [first : DOMAIN rows, last : DOMAIN rows]
      /\ \A i \in r.first .. r.last - 1 : GoesOn(i)
      /\ r.first < r.last /\ RunHours(r) \in 2 .. 4 /\ rows[r.first].soc >= StartFloor
  BY DEF CleanRuns, SplitRuns, MinRunHours, MaxRunHours
<1>2. DOMAIN rows = 1 .. Len(rows) /\ Len(rows) \in Nat
  BY DEF HistoryInv
<1>3. r.first \in 1 .. Len(rows) /\ r.last \in 1 .. Len(rows)
  BY <1>1, <1>2
<1>4. ASSUME NEW i \in r.first .. r.last - 1
      PROVE  Clean(rows[i]) /\ Clean(rows[i + 1]) /\ rows[i + 1].ts = rows[i].ts + 1
  <2>1. i \in 1 .. Len(rows) /\ i + 1 \in 1 .. Len(rows) /\ i < i + 1
    BY <1>2, <1>3, <1>4
  <2>2. Clean(rows[i]) /\ Clean(rows[i + 1]) /\ rows[i + 1].ts - rows[i].ts <= 1
    BY <1>1, <1>4 DEF GoesOn, MaxGap
  <2>3. rows[i].ts \in Nat /\ rows[i + 1].ts \in Nat
    BY <1>2, <2>1, RowIs
  <2>4. rows[i].ts < rows[i + 1].ts
    BY <2>1 DEF HistoryInv
  <2> QED
    BY <2>2, <2>3, <2>4
<1> QED
  BY <1>1, <1>3, <1>4

\* The level at a row's hour, and after it.
LEMMA LevelsAtRow ==
  ASSUME HistoryInv, NEW levels \in Levels, Lived(levels), Kept(levels), NEW i \in 1 .. Len(rows)
  PROVE  /\ levels[rows[i].ts] \in 0 .. FullBattery /\ levels[rows[i].ts + 1] \in 0 .. FullBattery
         /\ levels[rows[i].ts + 1] = AfterHour(lived[rows[i].ts], levels[rows[i].ts])
         /\ rows[i].soc = (levels[rows[i].ts] + levels[rows[i].ts + 1]) \div 20
<1> DEFINE h == rows[i].ts
<1>1. h \in 1 .. Len(lived) /\ h \in Nat /\ Len(lived) \in Nat
  <2>1. i \in DOMAIN rows
    BY DEF HistoryInv
  <2> QED
    BY <2>1, RowIs DEF HistoryInv
<1>2. levels[h + 1] = AfterHour(lived[h], levels[h])
  BY <1>1 DEF Lived
<1>3. h \in 1 .. Len(lived) + 1 /\ h + 1 \in 1 .. Len(lived) + 1
  BY <1>1
<1>4. levels[h] \in 0 .. FullBattery /\ levels[h + 1] \in 0 .. FullBattery
  BY <1>3 DEF Levels
<1>5. rows[i] = Bucket(h, lived[h], levels[h])
  BY DEF Kept
<1>6. rows[i].soc = (levels[h] + AfterHour(lived[h], levels[h])) \div (2 * PerPoint)
  BY <1>5 DEF Bucket
<1> QED
  BY <1>2, <1>4, <1>6 DEF PerPoint

LEMMA RunBegins ==
  ASSUME HistoryInv, NEW levels \in Levels, Lived(levels), Kept(levels), NEW r \in CleanRuns
  PROVE  Upto(levels, r, 0) /\ levels[rows[r.first].ts] \in 700 .. FullBattery
<1> DEFINE f == r.first
           h == rows[r.first].ts
<1>1. f \in 1 .. Len(rows) /\ r.last \in 1 .. Len(rows) /\ f < r.last /\ rows[f].soc >= 85
  BY RunIs DEF StartFloor
<1>2. /\ levels[h] \in 0 .. 1000 /\ levels[h + 1] \in 0 .. 1000
      /\ rows[f].soc = (levels[h] + levels[h + 1]) \div 20
  <2>1. /\ levels[h] \in 0 .. FullBattery /\ levels[h + 1] \in 0 .. FullBattery
        /\ rows[f].soc = (levels[h] + levels[h + 1]) \div 20
    BY <1>1, LevelsAtRow
  <2> QED
    BY <2>1, ZenonT(40) DEF FullBattery
<1>3. f \in Int /\ f + 0 = f /\ f .. f + 0 - 1 = {}
  BY <1>1
<1>4. SumFunctionOnSet(RowLoads, f .. f + 0 - 1) = 0
  BY <1>3, SumOfNone
<1>5. h \in Nat /\ h + 0 = h
  <2>1. f \in DOMAIN rows
    BY <1>1 DEF HistoryInv
  <2> QED
    BY <2>1, RowIs
<1> DEFINE l == levels[h]
           m == levels[h + 1]
<1>6. l \in 0 .. 1000 /\ m \in 0 .. 1000 /\ (l + m) \div 20 >= 85
  BY <1>1, <1>2, ZenonT(40)
<1>7. l \in 700 .. 1000
  <2> HIDE DEF l, m
  <2> QED
    BY <1>6, SMTT(60)
<1>8. levels[h + 0] = levels[h] - 11 * 0 - 10 * 0
  <2>1. levels[h + 0] = l
    BY <1>5
  <2> HIDE DEF l
  <2>2. l \in Int
    BY <1>7
  <2>3. ASSUME NEW x \in Int PROVE x - 11 * 0 - 10 * 0 = x
    OBVIOUS
  <2>4. l - 11 * 0 - 10 * 0 = l
    BY <2>2, <2>3
  <2> QED
    BY <2>1, <2>4 DEF l
<1>9. 0 \in 0 .. 5 * 0 /\ 10 * 0 = 0
  OBVIOUS
<1>10. f + 0 <= r.last /\ rows[f + 0].ts = h + 0
  BY <1>1, <1>3, <1>5
<1>11. Upto(levels, r, 0)
  <2>1. \E q \in 0 .. 5 * 0 : /\ SumFunctionOnSet(RowLoads, f .. f + 0 - 1) = 10 * q
                              /\ levels[h + 0] = levels[h] - 11 * q - 10 * 0
    BY <1>4, <1>8, <1>9
  <2> QED
    BY <1>10, <2>1 DEF Upto
<1> QED
  BY <1>7, <1>11, ZenonT(60) DEF FullBattery

LEMMA RunGoesOn ==
  ASSUME HistoryInv, NEW levels \in Levels, Lived(levels), Kept(levels), NEW r \in CleanRuns,
         NEW j \in 0 .. 3, Upto(levels, r, j), r.first + j < r.last
  PROVE  Upto(levels, r, j + 1)
<1> DEFINE f == r.first
           h == rows[r.first].ts
           i == f + j
           k == lived[rows[i].ts]
           o == LoadOut(k)
           d == Drained(k)
<1>1. PICK q \in 0 .. 5 * j :
        /\ SumFunctionOnSet(RowLoads, f .. f + j - 1) = 10 * q
        /\ levels[h + j] = levels[h] - 11 * q - 10 * j
  BY DEF Upto
<1>2. f \in 1 .. Len(rows) /\ r.last \in 1 .. Len(rows) /\ f \in Nat /\ r.last \in Nat
  BY RunIs
<1>3. i \in f .. r.last - 1 /\ i \in 1 .. Len(rows) /\ i + 1 = f + (j + 1) /\ i - 1 = f + j - 1
  BY <1>2
<1>4. i \in DOMAIN rows /\ rows[i].ts = h + j
  BY <1>3 DEF HistoryInv, Upto
<1>5. Clean(rows[i]) /\ rows[i + 1].ts = rows[i].ts + 1
  BY <1>3, RunIs
<1>6. /\ k \in HourKinds /\ k.ghi = 0 /\ k.ac = 0 /\ rows[i].output = o
      /\ o \in {20, 50} /\ d \in 32 .. 65
  BY <1>4, <1>5, CleanHour
<1>7. 10 * d = 11 * o + 100
  BY <1>6, DrainOfHour
<1>8. h \in Nat
  <2>1. f \in DOMAIN rows
    BY <1>2 DEF HistoryInv
  <2> QED
    BY <2>1, RowIs
<1>9. levels[h] \in 700 .. 1000
  <2>1. levels[h] \in 700 .. FullBattery
    BY RunBegins
  <2> QED
    BY <2>1, ZenonT(40) DEF FullBattery
<1> DEFINE l == levels[rows[i].ts]
<1>10. l \in 0 .. FullBattery /\ levels[rows[i].ts + 1] = AfterHour(k, l)
  BY <1>3, LevelsAtRow
<1>11. l = levels[h] - 11 * q - 10 * j /\ l >= 197
  <2>1. l = levels[h] - 11 * q - 10 * j
    BY <1>1, <1>4
  <2> HIDE DEF l
  <2>2. ASSUME NEW x \in 0 .. 3, NEW y \in 0 .. 5 * x PROVE y \in 0 .. 15
    BY <2>2
  <2>3. q \in 0 .. 15 /\ j \in 0 .. 3
    BY <2>2
  <2> DEFINE v == levels[h]
  <2>4. v \in 700 .. 1000 /\ l = v - 11 * q - 10 * j
    BY <1>9, <2>1, ZenonT(40)
  <2> HIDE DEF v
  <2>5. l >= 197
    BY <2>3, <2>4
  <2> QED
    BY <2>1, <2>5
<1>12. levels[rows[i].ts + 1] = l - d
  BY <1>6, <1>10, <1>11, LevelAfterHour
<1>13. PICK p \in {2, 5} : o = 10 * p /\ d = 11 * p + 10
  <2> HIDE DEF o, d
  <2> QED
    BY <1>6, <1>7
<1>14. SumFunctionOnSet(RowLoads, f .. i) = 10 * (q + p)
  <2>1. \A x \in f .. i : RowLoads[x] \in Int
    <3> SUFFICES ASSUME NEW x \in f .. i PROVE RowLoads[x] \in Int
      OBVIOUS
    <3>1. x \in 1 .. Len(rows)
      BY <1>2, <1>3
    <3>2. rows[x] \in Buckets /\ x \in DOMAIN rows
      BY <3>1 DEF HistoryInv
    <3> QED
      BY <3>2 DEF RowLoads, Buckets
  <2>2. RowLoads[i] = 10 * p
    BY <1>4, <1>6, <1>13 DEF RowLoads
  <2>3. f \in Int /\ i \in Int /\ f <= i
    BY <1>2
  <2> HIDE DEF i
  <2>4. SumFunctionOnSet(RowLoads, f .. i) = SumFunctionOnSet(RowLoads, f .. i - 1) + RowLoads[i]
    BY <2>1, <2>3, SumExtends
  <2>5. SumFunctionOnSet(RowLoads, f .. i - 1) = 10 * q
    BY <1>1, <1>3
  <2> QED
    BY <2>2, <2>4, <2>5
<1>15. levels[h + (j + 1)] = levels[h] - 11 * (q + p) - 10 * (j + 1)
  <2>1. rows[i].ts + 1 = h + (j + 1)
    BY <1>4, <1>8
  <2>2. levels[h + (j + 1)] = l - d
    BY <1>12, <2>1
  <2>3. l - d = levels[h] - 11 * (q + p) - 10 * (j + 1)
    <3> DEFINE v == levels[h]
    <3>1. l = v - 11 * q - 10 * j /\ v \in Int
      <4>1. \A x \in 700 .. 1000 : x \in Int
        OBVIOUS
      <4>2. v \in Int
        BY <1>9, <4>1, ZenonT(40)
      <4>3. l = v - 11 * q - 10 * j
        BY <1>11, ZenonT(40)
      <4> QED
        BY <4>2, <4>3, ZenonT(40)
    <3> HIDE DEF l, v, d
    <3>2. l - d = v - 11 * (q + p) - 10 * (j + 1)
      BY <1>13, <3>1
    <3> QED
      BY <3>2 DEF v
  <2> QED
    BY <2>2, <2>3
<1>16. q + p \in 0 .. 5 * (j + 1)
  BY <1>13
<1>17. f + (j + 1) <= r.last /\ rows[f + (j + 1)].ts = h + (j + 1)
  <2>1. f + (j + 1) <= r.last
    BY <1>2
  <2>2. rows[f + (j + 1)].ts = rows[i].ts + 1
    BY <1>3, <1>5
  <2>3. rows[i].ts + 1 = h + (j + 1)
    BY <1>4, <1>8
  <2> QED
    BY <2>1, <2>2, <2>3
<1>18. SumFunctionOnSet(RowLoads, f .. f + (j + 1) - 1) = 10 * (q + p)
  <2>1. f + (j + 1) - 1 = i
    BY <1>2
  <2> QED
    BY <1>14, <2>1
<1> HIDE DEF i
<1> QED
  BY <1>15, <1>16, <1>17, <1>18 DEF Upto

\* A run is as many buckets long as its hours say.
LEMMA RunEnds ==
  ASSUME HistoryInv, NEW levels \in Levels, Lived(levels), Kept(levels), NEW r \in CleanRuns
  PROVE  \E n \in 2 .. 4 : r.last = r.first + n /\ RunHours(r) = n /\ Upto(levels, r, n)
<1> DEFINE f == r.first
           l == r.last
           h == rows[f].ts
<1>1. f \in Nat /\ l \in Nat /\ f < l /\ RunHours(r) \in 2 .. 4 /\ l \in 1 .. Len(rows)
  BY RunIs
<1>2. RunHours(r) = rows[l].ts - h
  BY DEF RunHours
<1>3. h \in Nat
  <2>1. f \in DOMAIN rows
    BY RunIs DEF HistoryInv
  <2> QED
    BY <2>1, RowIs
<1>4. ASSUME NEW j \in 0 .. 4, Upto(levels, r, j) PROVE f + j <= l /\ rows[f + j].ts = h + j
  BY <1>4 DEF Upto
<1>5. ASSUME NEW j \in 0 .. 4, Upto(levels, r, j), f + j = l PROVE RunHours(r) = j
  <2>1. rows[l].ts = h + j
    BY <1>4, <1>5
  <2> QED
    BY <1>2, <1>3, <2>1
<1>6. ASSUME NEW j \in 0 .. 3, Upto(levels, r, j), f + j # l PROVE Upto(levels, r, j + 1)
  <2>1. f + j < l
    BY <1>1, <1>4, <1>6
  <2> QED
    BY <1>6, <2>1, RunGoesOn
<1>7. Upto(levels, r, 0)
  BY RunBegins
<1>8. Upto(levels, r, 1)
  <2>1. f + 0 # l /\ 0 + 1 = 1
    BY <1>1
  <2> QED
    BY <1>6, <1>7, <2>1
<1>9. Upto(levels, r, 2)
  <2>1. f + 1 # l /\ 1 + 1 = 2
    BY <1>1, <1>5, <1>8
  <2> QED
    BY <1>6, <1>8, <2>1
<1>10. CASE f + 2 = l
  BY <1>5, <1>9, <1>10
<1>11. ASSUME f + 2 # l PROVE Upto(levels, r, 3)
  <2>1. 2 + 1 = 3
    OBVIOUS
  <2> QED
    BY <1>6, <1>9, <1>11, <2>1
<1>12. CASE f + 2 # l /\ f + 3 = l
  BY <1>5, <1>11, <1>12
<1>13. CASE f + 2 # l /\ f + 3 # l
  <2>1. Upto(levels, r, 4)
    <3>1. 3 + 1 = 4
      OBVIOUS
    <3> QED
      BY <1>6, <1>11, <1>13, <3>1
  <2>2. f + 4 = l
    <3> SUFFICES ASSUME f + 4 # l PROVE FALSE
      OBVIOUS
    <3>1. f + 4 \in 1 .. Len(rows) /\ f + 4 < l
      BY <1>1, <1>4, <2>1
    <3>2. rows[f + 4].ts < rows[l].ts
      BY <1>1, <3>1 DEF HistoryInv
    <3>3. rows[f + 4].ts = h + 4
      BY <1>4, <2>1
    <3>4. rows[l].ts \in Nat
      <4>1. l \in DOMAIN rows
        BY <1>1 DEF HistoryInv
      <4> QED
        BY <4>1, RowIs
    <3> QED
      <4> DEFINE t == rows[l].ts
      <4>1. t \in Nat /\ h \in Nat /\ h + 4 < t
        BY <1>3, <3>2, <3>3, <3>4
      <4>2. t - h \in 2 .. 4
        BY <1>1, <1>2
      <4> HIDE DEF t, h
      <4> QED
        BY <4>1, <4>2
  <2> QED
    BY <1>5, <2>1, <2>2
<1> QED
  BY <1>10, <1>12, <1>13

\* The charge is the average of its bucket, so the drop of the run lacks half
\* of the first hour and has half of the last.
LEMMA RunArithmetic ==
  ASSUME NEW v \in Int, NEW q \in Int, NEW n \in Int, NEW d \in Int, NEW e \in Int
  PROVE  LET w == v - 11 * q - 10 * n
             drop == (v + (v - d)) \div 20 - (w + (w - e)) \div 20
             extra == drop * 10 - 10 * q - (10 * q * 10) \div 100 - 10 * n IN
         2 * extra - (e - d) \in -20 .. 20
<1> DEFINE w == v - 11 * q - 10 * n
           x == (v + (v - d)) \div 20
           y == (w + (w - e)) \div 20
<1>1. /\ x \in Int /\ y \in Int /\ w \in Int
      /\ 20 * x <= v + (v - d) /\ v + (v - d) < 20 * x + 20
      /\ 20 * y <= w + (w - e) /\ w + (w - e) < 20 * y + 20
  OBVIOUS
<1>2. (10 * q * 10) \div 100 = q
  OBVIOUS
<1>3. 2 * ((x - y) * 10 - 10 * q - q - 10 * n) - (e - d) \in -20 .. 20
  <2> HIDE DEF x, y
  <2> QED
    BY <1>1
<1> QED
  BY <1>2, <1>3

LEMMA RunsHold == HistoryInv => RunsMeasureTheDrain
<1> SUFFICES ASSUME HistoryInv, NEW r \in CleanRuns
             PROVE  LET extra == RunDrop(r) * PerPoint - RunLoad(r)
                                   - (RunLoad(r) * Overhead) \div 100 - Parasitic * RunHours(r)
                        ends == Drained(lived[rows[r.last].ts])
                                  - Drained(lived[rows[r.first].ts]) IN
                    2 * extra - ends \in -2 * PerPoint .. 2 * PerPoint
  BY DEF RunsMeasureTheDrain
<1>1. PICK levels \in Levels : Lived(levels) /\ Kept(levels)
  BY DEF HistoryInv
<1>2. PICK n \in 2 .. 4 : r.last = r.first + n /\ RunHours(r) = n /\ Upto(levels, r, n)
  BY <1>1, RunEnds
<1> DEFINE f == r.first
           l == r.last
           h == rows[f].ts
           d == Drained(lived[rows[f].ts])
           e == Drained(lived[rows[l].ts])
           v == levels[h]
<1>3. PICK q \in 0 .. 5 * n :
        /\ SumFunctionOnSet(RowLoads, f .. f + n - 1) = 10 * q
        /\ levels[h + n] = v - 11 * q - 10 * n
  BY <1>2 DEF Upto
<1>4. rows[l].ts = h + n
  BY <1>2 DEF Upto
<1>5. f \in 1 .. Len(rows) /\ l \in 1 .. Len(rows) /\ f \in DOMAIN rows /\ l \in DOMAIN rows
  BY RunIs DEF HistoryInv
<1>6. Clean(rows[f]) /\ Clean(rows[l])
  <2>1. f \in f .. l - 1 /\ l - 1 \in f .. l - 1 /\ (l - 1) + 1 = l
    <3>1. f \in Int /\ l = f + n
      BY <1>2, <1>5
    <3> HIDE DEF f, l
    <3> QED
      BY <3>1
  <2> QED
    BY <2>1, RunIs
<1>7. v \in 700 .. 1000
  <2>1. v \in 700 .. FullBattery
    BY <1>1, RunBegins
  <2> QED
    BY <2>1, ZenonT(40) DEF FullBattery
<1>8. d \in 32 .. 65 /\ e \in 32 .. 65
  BY <1>5, <1>6, CleanHour
<1> DEFINE w == levels[rows[l].ts]
<1>9. w = v - 11 * q - 10 * n
  BY <1>3, <1>4
<1>10. w >= 197 /\ w \in Int
  <2> HIDE DEF w, v
  <2> QED
    BY <1>7, <1>9
<1>11. rows[f].soc = (v + (v - d)) \div 20
  <2>1. /\ lived[rows[f].ts] \in HourKinds /\ lived[rows[f].ts].ghi = 0 /\ lived[rows[f].ts].ac = 0
    BY <1>5, <1>6, CleanHour
  <2>2. /\ v \in 0 .. FullBattery /\ levels[h + 1] = AfterHour(lived[rows[f].ts], v)
        /\ rows[f].soc = (v + levels[h + 1]) \div 20
    BY <1>1, <1>5, LevelsAtRow
  <2>3. levels[h + 1] = v - d
    <3>1. ASSUME NEW k \in HourKinds, NEW x \in 0 .. FullBattery,
                 k.ghi = 0, k.ac = 0, x >= 197
          PROVE  AfterHour(k, x) = x - Drained(k)
      BY <3>1, LevelAfterHour
    <3>2. v >= 197
      <4> HIDE DEF v
      <4> QED
        BY <1>7
    <3>3. AfterHour(lived[rows[f].ts], v) = v - d
      BY <2>1, <2>2, <3>1, <3>2, ZenonT(40)
    <3> QED
      BY <2>2, <3>3, ZenonT(40)
  <2> QED
    BY <2>2, <2>3
<1>12. rows[l].soc = (w + (w - e)) \div 20
  <2>1. /\ lived[rows[l].ts] \in HourKinds /\ lived[rows[l].ts].ghi = 0 /\ lived[rows[l].ts].ac = 0
    BY <1>5, <1>6, CleanHour
  <2>2. /\ w \in 0 .. FullBattery /\ levels[rows[l].ts + 1] = AfterHour(lived[rows[l].ts], w)
        /\ rows[l].soc = (w + levels[rows[l].ts + 1]) \div 20
    BY <1>1, <1>5, LevelsAtRow
  <2>3. levels[rows[l].ts + 1] = w - e
    BY <1>10, <2>1, <2>2, LevelAfterHour
  <2> QED
    BY <2>2, <2>3
<1>13. RunLoad(r) = 10 * q
  <2> DEFINE T == f .. l - 1
             g == [i \in T |-> rows[i].output]
  <2>1. RunLoad(r) = SumFunctionOnSet(g, T)
    BY DEF RunLoad, SumFunction
  <2>2. IsFiniteSet(T) /\ l - 1 = f + n - 1
    <3>1. l - 1 = f + n - 1 /\ f \in Int /\ l - 1 \in Int
      BY <1>2, <1>5
    <3> QED
      BY <3>1, FS_Interval
  <2>3. \A i \in T : g[i] = RowLoads[i]
    <3>1. \A i \in T : i \in DOMAIN rows
      BY <1>5 DEF HistoryInv
    <3> QED
      BY <3>1 DEF RowLoads
  <2>4. SumFunctionOnSet(g, T) = SumFunctionOnSet(RowLoads, T)
    <3> HIDE DEF g, T
    <3> QED
      BY <2>2, <2>3, SumAgrees
  <2> QED
    BY <1>3, <2>1, <2>2, <2>4
<1>14. RunDrop(r) = (v + (v - d)) \div 20 - (w + (w - e)) \div 20
  BY <1>11, <1>12 DEF RunDrop
<1> HIDE DEF v, w, d, e
<1>15. 2 * (((v + (v - d)) \div 20 - (w + (w - e)) \div 20) * 10 - 10 * q - (10 * q * 10) \div 100 - 10 * n)
         - (e - d) \in -20 .. 20
  BY <1>7, <1>8, <1>9, RunArithmetic
<1>16. LET extra == RunDrop(r) * 10 - RunLoad(r) - (RunLoad(r) * 10) \div 100 - 10 * RunHours(r) IN
       2 * extra - (e - d) \in -20 .. 20
  BY <1>2, <1>13, <1>14, <1>15
<1>17. LET extra == RunDrop(r) * PerPoint - RunLoad(r)
                    - (RunLoad(r) * Overhead) \div 100 - Parasitic * RunHours(r) IN
       2 * extra - (e - d) \in -2 * PerPoint .. 2 * PerPoint
  <2>1. -2 * 10 = -20 /\ 2 * 10 = 20
    OBVIOUS
  <2> QED
    BY <1>16, <2>1, ZenonT(40) DEF PerPoint, Overhead, Parasitic
<1> QED
  BY <1>17, ZenonT(40) DEF d, e

LEMMA FlowsFollow == HistoryInv => FlowsAreToldApart
BY CoefficientHolds, ChargeRateHolds, RunsHold, DiagnosisCounts, ProfileHolds
   DEF FlowsAreToldApart, SunAndGridApart, DrainIsMeasured

\* Whatever hours a unit lives through and whichever of them the server sees:
\* no run of buckets tells of a drain that was not the unit's, the power
\* learned for the charger is the grid's, the coefficient never exceeds what
\* the panels yield, no expected load holds the car that the controller
\* charged, and the diagnosis counts the windows of the fit.
THEOREM FlowsStayApart == FitsSpec => []FlowsAreToldApart
<1>1. HistoryInv /\ [FitsNext]_fitsVars => HistoryInv'
  <2> SUFFICES ASSUME HistoryInv, [FitsNext]_fitsVars PROVE HistoryInv'
    OBVIOUS
  <2>1. ASSUME NEW k \in HourKinds, HourPasses(k) PROVE HistoryInv'
    BY <2>1, HistoryGoesOn
  <2>2. CASE UNCHANGED fitsVars
    <3>1. unit' = unit /\ lived' = lived /\ stored' = stored /\ rows' = rows
      BY <2>2 DEF fitsVars
    <3>2. ASSUME NEW levels PROVE /\ Lived(levels)' <=> Lived(levels)
                                  /\ Kept(levels)' <=> Kept(levels)
      BY <3>1 DEF Lived, Kept, Bucket
    <3>3. Levels' = Levels
      BY <3>1 DEF Levels
    <3> QED
      BY <3>1, <3>2, <3>3 DEF HistoryInv
  <2> QED
    BY <2>1, <2>2 DEF FitsNext
<1> QED
  BY <1>1, HistoryBegins, FlowsFollow, PTL DEF FitsSpec
=============================================================================

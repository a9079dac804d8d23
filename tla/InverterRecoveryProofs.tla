----------------------- MODULE InverterRecoveryProofs -----------------------
(***************************************************************************)
(* Theorems about InverterRecovery, for every value of its constants.      *)
(*                                                                         *)
(* The argument for a user's AC OFF: the grace condition of the watchdog   *)
(* record changes only when an OFF begins (which retracts every cycle),    *)
(* when it ends, when time passes or when the record is reset; none of     *)
(* these creates a cycle, and the one step that does create a cycle is     *)
(* taken only outside the grace condition.                                 *)
(*                                                                         *)
(* The argument for the cuts: the lock serves requests in turn, so the OFF *)
(* of a cycle is with the bridge before the poll that the next frame comes *)
(* from (InTurn), and no cut is still to come when evaluate() ends one     *)
(* episode or counts a cycle of the next.  Cuts made and cuts to come are  *)
(* together at most the cycles counted (EpisodeInv).  The same invariant   *)
(* has the frames of a streak of low samples: each has a time of its own,  *)
(* because frames only become newer.                                       *)
(***************************************************************************)
EXTENDS InverterRecovery, FiniteSetTheorems, TLAPS

-----------------------------------------------------------------------------
(* The pure state machine                                                  *)

\* r is a well-formed record with the user-OFF history and pacing of s.
Kept(r, s) ==
    /\ r \in WatchdogState
    /\ r.pending_user_off_intents = s.pending_user_off_intents
    /\ r.last_user_off_ts = s.last_user_off_ts
    /\ r.last_attempt_ts = s.last_attempt_ts

LEMMA ZeroCounts == 0 \in 0 .. COLLAPSE_MIN_SAMPLES /\ 0 \in 0 .. MAX_CYCLES_PER_EPISODE
BY WatchdogAssumption DEF WatchdogAssumption

LEMMA NoStreakType ==
    ASSUME NEW s \in WatchdogState
    PROVE  Kept(NoStreak(s), s)
<1>1. NoStreak(s) \in WatchdogState
  BY ZeroCounts, Zenon DEF WatchdogState, NoStreak
<1> QED
  BY <1>1, SMT DEF WatchdogState, NoStreak, Kept

LEMMA NoEpisodeType ==
    ASSUME NEW s \in WatchdogState
    PROVE  Kept(NoEpisode(s), s)
<1>1. NoEpisode(s) \in WatchdogState
  BY ZeroCounts, Zenon DEF WatchdogState, NoEpisode
<1> QED
  BY <1>1, SMT DEF WatchdogState, NoEpisode, Kept

LEMMA ArmType ==
    ASSUME NEW s \in WatchdogState, NEW t \in Nat
    PROVE  Kept(Arm(s, t), s)
<1> DEFINE armed == [s EXCEPT !.hw_trip_active = TRUE, !.episode_cycles = 0]
<1>1. armed \in WatchdogState
  BY ZeroCounts, Zenon DEF WatchdogState
<1>2. Kept(armed, s)
  BY <1>1, SMT DEF WatchdogState, Kept
<1> QED
  BY <1>2 DEF Arm, Kept

LEMMA LowSampleType ==
    ASSUME NEW s \in WatchdogState, NEW t \in Nat
    PROVE  Kept(LowSample(s, t), s)
<1> DEFINE first == IF s.first_low_ts = 0 THEN t ELSE s.first_low_ts
           count == IF s.low_samples < COLLAPSE_MIN_SAMPLES
                    THEN s.low_samples + 1 ELSE s.low_samples
           low == [s EXCEPT !.first_low_ts = first, !.low_samples = count]
<1>1. first \in Nat /\ count \in 0 .. COLLAPSE_MIN_SAMPLES
  BY WatchdogAssumption DEF WatchdogAssumption, WatchdogState
<1>2. LowSample(s, t) = low
  BY DEF LowSample, WatchdogState
<1> HIDE DEF first, count
<1>3. low \in WatchdogState
  BY <1>1, Zenon DEF WatchdogState
<1>4. Kept(low, s)
  BY <1>3, SMT DEF WatchdogState, Kept
<1> QED
  BY <1>2, <1>4

\* Looking at a frame keeps the record well-formed, and changes neither the
\* OFF intents nor the time of the last user OFF nor that of the last cycle.
LEMMA TrackCollapseType ==
    ASSUME NEW s \in WatchdogState, NEW ac \in BOOLEAN, NEW out \in Outputs,
           NEW ts \in Nat, NEW floor \in BOOLEAN, NEW t \in Nat
    PROVE  Kept(TrackCollapse(s, ac, out, ts, floor, t), s)
<1> DEFINE seen == [s EXCEPT !.last_sample_ts = ts]
           high == [seen EXCEPT !.last_high_output_ts = t]
<1>1. Kept(s, s)
  BY DEF Kept
<1>2. Kept(seen, s)
  BY DEF WatchdogState, Kept
<1>3. Kept(high, s)
  <2> HIDE DEF seen
  <2> QED
    BY <1>2 DEF WatchdogState, Kept
<1> HIDE DEF seen, high
<1>4. \A r : Kept(r, s) => Kept(NoStreak(r), s) /\ Kept(NoEpisode(r), s)
  BY NoStreakType, NoEpisodeType DEF Kept
<1>5. Kept(Arm(LowSample(seen, t), t), s)
  BY <1>2, LowSampleType, ArmType DEF Kept
<1>6. \A r : Kept(r, s) => Kept(OutputReturned(r), s)
  BY <1>4 DEF OutputReturned
<1> QED
  BY <1>1, <1>2, <1>3, <1>4, <1>5, <1>6 DEF TrackCollapse, seen, high, Outputs

LEMMA ObserveType ==
    ASSUME NEW s \in WatchdogState, NEW ac \in BOOLEAN, NEW out \in Outputs,
           NEW ts \in Nat, NEW floor \in BOOLEAN, NEW t \in Nat
    PROVE  Kept(Observe(s, ac, out, ts, floor, t), s)
<1> DEFINE tracked == IF GraceActive(s, t) THEN NoStreak(s)
                      ELSE TrackCollapse(s, ac, out, ts, floor, t)
<1>1. Kept(tracked, s)
  BY TrackCollapseType, NoStreakType
<1> HIDE DEF tracked
<1>2. Kept(NoStreak(NoEpisode(tracked)), s)
  BY <1>1, NoStreakType, NoEpisodeType DEF Kept
<1>3. \A r : Kept(r, s) => Kept([r EXCEPT !.error_message = FALSE], s)
  BY DEF WatchdogState, Kept
<1> QED
  BY <1>1, <1>2, <1>3 DEF Observe, tracked

\* A cycle is decided only outside the grace condition and under the cap.
LEMMA CycleDecision ==
    ASSUME NEW s, NEW t, Decide(s, t) = "cycle"
    PROVE  /\ ~GraceActive(s, t)
           /\ s.hw_trip_active
           /\ s.episode_cycles < MAX_CYCLES_PER_EPISODE
           /\ t - s.last_attempt_ts >= RETRY_INTERVAL_S
BY DEF Decide

LEMMA CommitType ==
    ASSUME NEW s \in WatchdogState, NEW t \in Nat
    PROVE  LET c == Commit(s, Decide(s, t), t)
           IN  /\ c \in WatchdogState
               /\ c.pending_user_off_intents = s.pending_user_off_intents
               /\ c.last_user_off_ts = s.last_user_off_ts
               /\ c.last_attempt_ts = IF Decide(s, t) = "cycle" THEN t
                                     ELSE s.last_attempt_ts
<1>1. CASE Decide(s, t) = "cycle"
  <2> DEFINE n == s.episode_cycles + 1
             fired == [s EXCEPT !.last_attempt_ts = t, !.episode_cycles = n]
  <2>1. n \in 0 .. MAX_CYCLES_PER_EPISODE
    BY <1>1, CycleDecision, WatchdogAssumption DEF WatchdogAssumption, WatchdogState
  <2>2. Commit(s, Decide(s, t), t) = fired
    BY <1>1 DEF Commit, WatchdogState
  <2> HIDE DEF n
  <2>3. fired \in WatchdogState
    BY <2>1, Zenon DEF WatchdogState
  <2>4. /\ fired.pending_user_off_intents = s.pending_user_off_intents
        /\ fired.last_user_off_ts = s.last_user_off_ts
        /\ fired.last_attempt_ts = t
    BY SMT DEF WatchdogState
  <2> QED
    BY <1>1, <2>2, <2>3, <2>4
<1>2. CASE Decide(s, t) = "error"
  BY <1>2 DEF WatchdogState, Commit
<1>3. CASE Decide(s, t) \notin {"cycle", "error"}
  BY <1>3 DEF Commit
<1> QED
  BY <1>1, <1>2, <1>3

LEMMA NewStateType == NewState \in WatchdogState
BY ZeroCounts DEF NewState, WatchdogState

LEMMA ResetType ==
    ASSUME NEW s \in WatchdogState
    PROVE  /\ ResetState(s) \in WatchdogState
           /\ ResetState(s).pending_user_off_intents = s.pending_user_off_intents
           /\ ResetState(s).last_user_off_ts = 0
           /\ ResetState(s).last_attempt_ts = 0
BY NewStateType DEF ResetState, NewState, WatchdogState

LEMMA DismissType ==
    ASSUME NEW s \in WatchdogState
    PROVE  /\ DismissError(s) \in WatchdogState
           /\ DismissError(s).pending_user_off_intents = s.pending_user_off_intents
           /\ DismissError(s).last_user_off_ts = s.last_user_off_ts
           /\ DismissError(s).last_attempt_ts = 0
<1> DEFINE cleared == NoStreak(NoEpisode(s))
           unpaced == [cleared EXCEPT !.last_attempt_ts = 0]
<1>1. Kept(cleared, s)
  BY NoStreakType, NoEpisodeType DEF Kept
<1>2. DismissError(s) = [unpaced EXCEPT !.error_message = FALSE]
  BY DEF DismissError
<1> HIDE DEF cleared
<1>3. /\ unpaced \in WatchdogState
      /\ unpaced.pending_user_off_intents = s.pending_user_off_intents
      /\ unpaced.last_user_off_ts = s.last_user_off_ts
      /\ unpaced.last_attempt_ts = 0
  BY <1>1, SMT DEF WatchdogState, Kept
<1>4. \A r \in WatchdogState :
        LET e == [r EXCEPT !.error_message = FALSE]
        IN  e \in WatchdogState /\ Kept(e, r)
  BY DEF WatchdogState, Kept
<1> HIDE DEF unpaced
<1> QED
  BY <1>2, <1>3, <1>4 DEF Kept

\* The two updates made by the user request handler.
LEMMA IntentType ==
    ASSUME NEW s \in WatchdogState, NEW I \in SUBSET Tokens
    PROVE  LET w == [s EXCEPT !.pending_user_off_intents = I]
           IN  /\ w \in WatchdogState
               /\ w.pending_user_off_intents = I
               /\ w.last_user_off_ts = s.last_user_off_ts
               /\ w.last_attempt_ts = s.last_attempt_ts
BY DEF WatchdogState

LEMMA RecordUserOffType ==
    ASSUME NEW s \in WatchdogState, NEW t \in Nat
    PROVE  /\ RecordUserOff(s, t) \in WatchdogState
           /\ RecordUserOff(s, t).pending_user_off_intents = s.pending_user_off_intents
           /\ RecordUserOff(s, t).last_user_off_ts = t
           /\ RecordUserOff(s, t).last_attempt_ts = s.last_attempt_ts
BY DEF WatchdogState, RecordUserOff

-----------------------------------------------------------------------------
(* The RPC lock                                                            *)

RpcOK == lock \in Seq(Parties) /\ phase \in {"connect", "written", "published"} /\ since \in Nat

LEMMA EnqueueType ==
    ASSUME RpcOK, now \in Nat, NEW p \in Parties, Enqueue(p)
    PROVE  RpcOK'
BY DEF RpcOK, Enqueue

LEMMA ReleaseType ==
    ASSUME RpcOK, now \in Nat, lock # <<>>, Release
    PROVE  RpcOK'
BY DEF RpcOK, Release

LEMMA CommandType == \A p \in Parties \ {POLL} : Command(p) \in BOOLEAN
BY DEF Command

LEMMA AbandonType ==
    ASSUME RpcOK, orphans \subseteq BOOLEAN, NEW gone \in SUBSET (Parties \ {POLL}),
           Abandon(gone)
    PROVE  orphans' \subseteq BOOLEAN
<1>1. CASE orphans' = orphans
  BY <1>1
<1>2. CASE orphans' = orphans \cup {Command(Head(lock))} /\ Head(lock) \in gone
  BY <1>2, CommandType
<1> QED
  BY <1>1, <1>2 DEF Abandon

-----------------------------------------------------------------------------
(* Type correctness                                                        *)

TaskRecords == [pc : TaskStates, gen : Nat, wake : Nat]

LEMMA NoTaskType == NoTask \in TaskRecords
BY DEF NoTask, TaskRecords, TaskStates

LEMMA TaskType ==
    ASSUME task \in [Cycles -> TaskRecords], NEW k \in Cycles
    PROVE  /\ [task EXCEPT ![k] = NoTask] \in [Cycles -> TaskRecords]
           /\ \A pc \in TaskStates : [task EXCEPT ![k].pc = pc] \in [Cycles -> TaskRecords]
           /\ \A t \in Nat : [task EXCEPT ![k].pc = "sleep", ![k].wake = t]
                               \in [Cycles -> TaskRecords]
<1>2. [task EXCEPT ![k] = NoTask] \in [Cycles -> TaskRecords]
  BY NoTaskType, Zenon
<1>3. ASSUME NEW r \in TaskRecords, NEW pc \in TaskStates
      PROVE  [r EXCEPT !.pc = pc] \in TaskRecords
  BY DEF TaskRecords
<1>4. ASSUME NEW r \in TaskRecords, NEW t \in Nat
      PROVE  [r EXCEPT !.wake = t] \in TaskRecords
  BY DEF TaskRecords
<1>5. ASSUME NEW f \in [Cycles -> TaskRecords], NEW pc \in TaskStates
      PROVE  [f EXCEPT ![k].pc = pc] \in [Cycles -> TaskRecords]
  <2>1. [f[k] EXCEPT !.pc = pc] \in TaskRecords
    BY <1>3
  <2> QED
    BY <2>1, Zenon
<1>6. ASSUME NEW f \in [Cycles -> TaskRecords], NEW t \in Nat
      PROVE  [f EXCEPT ![k].wake = t] \in [Cycles -> TaskRecords]
  <2>1. [f[k] EXCEPT !.wake = t] \in TaskRecords
    BY <1>4
  <2> QED
    BY <2>1, Zenon
<1>7. ASSUME NEW t \in Nat
      PROVE  [task EXCEPT ![k].pc = "sleep", ![k].wake = t] \in [Cycles -> TaskRecords]
  <2> DEFINE asleep == [task EXCEPT ![k].pc = "sleep"]
  <2>1. asleep \in [Cycles -> TaskRecords]
    BY <1>5 DEF TaskStates
  <2>2. [asleep EXCEPT ![k].wake = t] \in [Cycles -> TaskRecords]
    <3> HIDE DEF asleep
    <3> QED
      BY <1>6, <2>1
  <2> QED
    BY <2>2
<1> QED
  BY <1>2, <1>5, <1>7

\* Every reachable state is well-formed.
THEOREM TypeCorrect == Spec => []TypeOK
<1> USE RecoveryAssumption DEF RecoveryAssumption
<1>1. Init => TypeOK
  BY NewStateType DEF Init, TypeOK, NoFrame, NoTask, Frames, Outputs, TaskStates
<1>2. TypeOK /\ [Next]_vars => TypeOK'
  <2> SUFFICES ASSUME TypeOK, [Next]_vars PROVE TypeOK'
    OBVIOUS
  <2> USE DEF deviceVars, rpcVars, pollVars, configVars, historyVars
  <2>00. task \in [Cycles -> TaskRecords]
    BY DEF TypeOK, TaskRecords
  <2>0. RpcOK /\ now \in Nat /\ orphans \subseteq BOOLEAN
    BY DEF TypeOK, RpcOK
  <2>1. CASE ClockTick
    BY <2>1 DEF ClockTick, TypeOK
  <2>2. CASE DeviceApply
    BY <2>2 DEF DeviceApply, TypeOK
  <2>3. CASE DeviceDisturbed
    <3>1. port' \in BOOLEAN
      BY <2>3 DEF DeviceDisturbed, TypeOK
    <3>2. wire' \in Seq(BOOLEAN)
      <4>1. (wire # <<>> /\ wire' = Tail(wire)) \/ wire' = wire
        BY <2>3 DEF DeviceDisturbed
      <4>2. wire \in Seq(BOOLEAN) /\ (wire # <<>> => Tail(wire) \in Seq(BOOLEAN))
        BY DEF TypeOK
      <4> QED
        BY <4>1, <4>2, Zenon
    <3> QED
      BY <2>3, <3>1, <3>2 DEF DeviceDisturbed, Event, TypeOK
  <2>4. CASE Push
    BY <2>4 DEF Push, TypeOK, Frames, Outputs
  <2>5. CASE LockPass
    <3>1. RpcOK'
      BY <2>0, <2>5, ReleaseType DEF LockPass
    <3> QED
      BY <2>5, <3>1 DEF LockPass, TypeOK, RpcOK
  <2>6. CASE RpcWrite
    BY <2>6 DEF RpcWrite, TypeOK
  <2>7. CASE RpcPublish
    <3>1. Command(Head(lock)) \in BOOLEAN
      BY <2>7, CommandType DEF RpcPublish, TypeOK
    <3> QED
      BY <2>7, <3>1 DEF RpcPublish, TypeOK
  <2>8. CASE OrphanPublish
    <3>1. PICK on \in orphans : wire' \in {Append(wire, on), wire} /\ orphans' = orphans \ {on}
      BY <2>8 DEF OrphanPublish
    <3>2. wire' \in Seq(BOOLEAN) /\ orphans' \subseteq BOOLEAN
      <4>1. on \in BOOLEAN
        BY <2>0
      <4>2. Append(wire, on) \in Seq(BOOLEAN) /\ wire \in Seq(BOOLEAN)
        BY <4>1 DEF TypeOK
      <4> QED
        BY <2>0, <3>1, <4>2
    <3> QED
      BY <2>8, <3>2 DEF OrphanPublish, TypeOK
  <2>9. CASE PollStart
    <3>1. RpcOK'
      BY <2>0, <2>9, EnqueueType DEF PollStart, Parties
    <3> QED
      BY <2>9, <3>1 DEF PollStart, TypeOK, RpcOK
  <2>10. CASE PollReply
    <3>1. RpcOK'
      BY <2>0, <2>10, ReleaseType DEF PollReply, Holder
    <3> QED
      BY <2>10, <3>1 DEF PollReply, TypeOK, RpcOK
  <2>11. CASE PollError
    <3>1. RpcOK'
      BY <2>0, <2>11, ReleaseType DEF PollError, Holder
    <3> QED
      BY <2>11, <3>1 DEF PollError, PollSleep, Event, TypeOK, RpcOK, NoFrame, Frames, Outputs
  <2>12. CASE WatchdogTick
    <3>1. wd' \in WatchdogState
      <4> DEFINE seen == Observe(wd, frame.ac, frame.out, frame.ts, floorSet, now)
      <4>1. seen \in WatchdogState
        BY ObserveType DEF TypeOK, Frames, Kept
      <4> HIDE DEF seen
      <4>2. Commit(seen, Decide(seen, now), now) \in WatchdogState
        BY <4>1, CommitType DEF TypeOK
      <4> QED
        BY <2>12, <4>2 DEF WatchdogTick, seen, TypeOK
    <3>2. cuts' \in Nat /\ lowFrames' \subseteq Nat
      <4>1. NoteFrame(wd) \/ UNCHANGED <<cuts, lowFrames>>
        BY <2>12 DEF WatchdogTick, historyVars
      <4>2. CASE NoteFrame(wd)
        BY <4>2 DEF NoteFrame, TypeOK, Frames
      <4> QED
        BY <4>1, <4>2 DEF TypeOK
    <3>3. /\ task' \in [Cycles -> TaskRecords]
          /\ episode' \subseteq Cycles /\ lastFire' \in Nat
      <4>1. \/ UNCHANGED <<task, episode, lastFire>>
            \/ /\ lastFire' = now
               /\ \E k \in Cycles :
                    /\ task' = [task EXCEPT ![k] = [pc |-> "start", gen |-> gen, wake |-> 0]]
                    /\ episode' = episode \cup {k}
        BY <2>12 DEF WatchdogTick
      <4>2. [pc |-> "start", gen |-> gen, wake |-> 0] \in TaskRecords
        BY DEF TypeOK, TaskStates, TaskRecords
      <4>3. task' \in [Cycles -> TaskRecords]
        BY <2>00, <4>1, <4>2, Zenon
      <4>4. episode' \subseteq Cycles /\ lastFire' \in Nat
        BY <4>1 DEF TypeOK
      <4> QED
        BY <4>3, <4>4
    <3>4. poll' = "idle" /\ frame' \in Frames /\ pollAt' \in Nat
      BY <2>12 DEF WatchdogTick, PollSleep, TypeOK, NoFrame, Frames, Outputs
    <3> QED
      BY <2>12, <3>1, <3>2, <3>3, <3>4 DEF WatchdogTick, TypeOK, TaskRecords
  <2>13. ASSUME NEW k \in Cycles, CycleStep(k) PROVE TypeOK'
    <3>1. ASSUME NEW pc \in {"off", "on"}, Proceed(k, pc) PROVE TypeOK'
      <4>1. RpcOK'
        BY <2>0, <3>1, EnqueueType DEF Proceed, Parties, RpcOK
      <4>2. task' \in [Cycles -> TaskRecords] /\ cancelling' \subseteq Cycles
        <5>1. task' = [task EXCEPT ![k].pc = pc] \/ task' = [task EXCEPT ![k] = NoTask]
          BY <3>1 DEF Proceed, EndTask
        <5>2. /\ [task EXCEPT ![k].pc = pc] \in [Cycles -> TaskRecords]
              /\ [task EXCEPT ![k] = NoTask] \in [Cycles -> TaskRecords]
          <6>1. pc \in TaskStates
            BY DEF TaskStates
          <6> QED
            BY <2>00, <6>1, TaskType, Zenon
        <5>3. task' \in [Cycles -> TaskRecords]
          BY <5>1, <5>2, Zenon
        <5> QED
          BY <3>1, <5>3 DEF Proceed, EndTask, TypeOK
      <4> QED
        BY <3>1, <4>1, <4>2 DEF Proceed, TypeOK, RpcOK, TaskRecords
    <3>2. CASE CycleReply(k)
      <4>1. RpcOK'
        BY <2>0, <3>2, ReleaseType DEF CycleReply, Holder
      <4>2. task' \in [Cycles -> TaskRecords] /\ cancelling' \subseteq Cycles
        <5>1. \/ task' = [task EXCEPT ![k].pc = "sleep", ![k].wake = now + PAUSE_S]
              \/ task' = [task EXCEPT ![k] = NoTask]
          BY <3>2 DEF CycleReply, EndTask
        <5>2. /\ [task EXCEPT ![k].pc = "sleep", ![k].wake = now + PAUSE_S]
                    \in [Cycles -> TaskRecords]
              /\ [task EXCEPT ![k] = NoTask] \in [Cycles -> TaskRecords]
          <6>1. now + PAUSE_S \in Nat
            BY <2>0
          <6> QED
            BY <2>00, <6>1, TaskType, Zenon
        <5>3. task' \in [Cycles -> TaskRecords]
          BY <5>1, <5>2, Zenon
        <5> QED
          BY <3>2, <5>3 DEF CycleReply, EndTask, TypeOK
      <4> QED
        BY <3>2, <4>1, <4>2 DEF CycleReply, TypeOK, RpcOK, TaskRecords
    <3>3. CASE CycleError(k)
      <4>1. RpcOK'
        BY <2>0, <3>3, ReleaseType DEF CycleError, Holder
      <4>2. orphans' \subseteq BOOLEAN
        BY <2>0, <3>3, AbandonType DEF CycleError, Parties
      <4>3. task' \in [Cycles -> TaskRecords] /\ cancelling' \subseteq Cycles
        BY <2>00, <3>3, TaskType DEF CycleError, EndTask, TypeOK
      <4> QED
        BY <3>3, <4>1, <4>2, <4>3 DEF CycleError, Event, TypeOK, RpcOK, TaskRecords
    <3>4. CASE CancelDelivered(k)
      <4>1. orphans' \subseteq BOOLEAN
        BY <2>0, <3>4, AbandonType DEF CancelDelivered, Cancel, Parties
      <4>2. task' \in [Cycles -> TaskRecords] /\ cancelling' \subseteq Cycles
        BY <2>00, <3>4, TaskType DEF CancelDelivered, EndTask, TypeOK
      <4> QED
        BY <3>4, <4>1, <4>2 DEF CancelDelivered, Cancel, TypeOK, TaskRecords
    <3> QED
      BY <2>13, <3>1, <3>2, <3>3, <3>4 DEF CycleStep, CycleStart, CycleWake
  <2>14. ASSUME NEW u \in Tokens, UserStep(u) PROVE TypeOK'
    <3>1. CASE UserOn(u)
      <4>1. RpcOK'
        BY <2>0, <3>1, EnqueueType DEF UserOn, Parties
      <4> QED
        BY <3>1, <4>1 DEF UserOn, Event, TypeOK, RpcOK
    <3>2. CASE UserOff(u)
      <4>1. wd' \in WatchdogState
        <5>1. wd.pending_user_off_intents \cup {u} \in SUBSET Tokens
          BY DEF TypeOK, WatchdogState
        <5>2. wd' = [wd EXCEPT !.pending_user_off_intents = wd.pending_user_off_intents \cup {u}]
          BY <3>2, Zenon DEF UserOff
        <5> QED
          BY <5>1, <5>2, IntentType DEF TypeOK
      <4>2. orphans' \subseteq BOOLEAN
        BY <2>0, <3>2, AbandonType DEF UserOff, Cancel, Parties
      <4>3. RpcOK'
        BY <2>0, <3>2 DEF UserOff, Cancel, Parties, RpcOK
      <4>4. task' \in [Cycles -> TaskRecords]
        BY <3>2, NoTaskType DEF UserOff
      <4>5. req' \in [Tokens -> {"idle", "on", "off"}]
        BY <3>2 DEF UserOff, TypeOK
      <4>6. UNCHANGED <<now, port, mirror, wire, pollVars, gen, configVars, historyVars>>
        BY <3>2, Zenon DEF UserOff
      <4>7. cancelling' = {} /\ events' = events + 1
        BY <3>2, Zenon DEF UserOff, Event
      <4> QED
        BY <4>1, <4>2, <4>3, <4>4, <4>5, <4>6, <4>7 DEF TypeOK, RpcOK, TaskRecords
    <3>3. ASSUME NEW ok \in BOOLEAN, UserEnd(u, ok) PROVE TypeOK'
      <4>1. RpcOK'
        BY <2>0, <3>3, ReleaseType DEF UserEnd, Holder
      <4>2. orphans' \subseteq BOOLEAN
        BY <2>0, <3>3, AbandonType DEF UserEnd, Parties
      <4>3. wd' \in WatchdogState
        <5> DEFINE stamped == IF ok /\ req[u] = "off" THEN RecordUserOff(wd, now) ELSE wd
        <5>1. stamped \in WatchdogState
          BY RecordUserOffType DEF TypeOK
        <5> HIDE DEF stamped
        <5>2. [stamped EXCEPT !.pending_user_off_intents = @ \ {u}] \in WatchdogState
          BY <5>1, IntentType DEF WatchdogState
        <5> QED
          BY <3>3, <5>2 DEF UserEnd, stamped
      <4>4. events' \in Nat /\ req' \in [Tokens -> {"idle", "on", "off"}]
        <5>1. events' = events \/ events' = events + 1
          BY <3>3, Zenon DEF UserEnd, Event
        <5>2. req' = [req EXCEPT ![u] = "idle"]
          BY <3>3, Zenon DEF UserEnd
        <5> QED
          BY <5>1, <5>2 DEF TypeOK
      <4> QED
        BY <3>3, <4>1, <4>2, <4>3, <4>4 DEF UserEnd, TypeOK, RpcOK
    <3> QED
      BY <2>14, <3>1, <3>2, <3>3 DEF UserStep
  <2>15. CASE RouteStep
    <3>1. ASSUME NEW on \in BOOLEAN, SetEnabled(on) PROVE TypeOK'
      BY <3>1 DEF SetEnabled, Event, TypeOK
    <3>2. CASE DisableCancel
      BY <3>2 DEF DisableCancel, CancelSoon, Live, TypeOK
    <3>3. CASE DisableReset
      BY <3>3, ResetType DEF DisableReset, TypeOK
    <3>4. CASE DismissCancel
      BY <3>4 DEF DismissCancel, CancelSoon, Event, Live, TypeOK
    <3>5. CASE DismissReset
      BY <3>5, DismissType DEF DismissReset, TypeOK
    <3>6. CASE SetFloor
      BY <3>6 DEF SetFloor, Event, TypeOK
    <3> QED
      BY <2>15, <3>1, <3>2, <3>3, <3>4, <3>5, <3>6 DEF RouteStep
  <2>16. CASE Restart
    <3>1. orphans' \subseteq BOOLEAN
      BY <2>0, <2>16, AbandonType DEF Restart
    <3>2. task' \in [Cycles -> TaskRecords]
      BY <2>16, NoTaskType DEF Restart
    <3>3. wd' \in WatchdogState /\ frame' \in Frames
      BY <2>16, NewStateType DEF Restart, NoFrame, Frames, Outputs
    <3> QED
      BY <2>16, <3>1, <3>2, <3>3 DEF Restart, Event, TypeOK, TaskRecords
  <2>17. CASE UNCHANGED vars
    BY <2>17 DEF vars, TypeOK
  <2> QED
    BY <2>1, <2>2, <2>3, <2>4, <2>5, <2>6, <2>7, <2>8, <2>9, <2>10, <2>11,
       <2>12, <2>13, <2>14, <2>15, <2>16, <2>17 DEF Next
<1> QED
  BY <1>1, <1>2, PTL DEF Spec

-----------------------------------------------------------------------------
(* The inductive invariant                                                 *)

\* The intents of the record are exactly the OFF requests being served, also
\* after the record was replaced (reset_state carries them over).
OffIntents == wd.pending_user_off_intents = {u \in Tokens : req[u] = "off"}

\* The pacing stamp of the record is the start of the last cycle.
Paced == lastFire = wd.last_attempt_ts

IInv == TypeOK /\ OffIntents /\ NoCycleDuringUserOff /\ Paced

\* The grace condition reads nothing but the intents, the last OFF and the clock.
LEMMA GraceFades ==
    ASSUME NEW r \in WatchdogState, NEW s \in WatchdogState,
           NEW t \in Nat, NEW later \in Nat, t <= later,
           r.pending_user_off_intents = s.pending_user_off_intents,
           r.last_user_off_ts \in {0, s.last_user_off_ts},
           GraceActive(r, later)
    PROVE  GraceActive(s, t)
BY WatchdogAssumption DEF WatchdogAssumption, GraceActive, WatchdogState

\* A tick leaves the user's side of the record alone, and starts a task only
\* outside the grace condition and RETRY_INTERVAL_S after the last cycle.
LEMMA TickFacts ==
    ASSUME TypeOK, WatchdogTick
    PROVE  /\ wd'.pending_user_off_intents = wd.pending_user_off_intents
           /\ wd'.last_user_off_ts = wd.last_user_off_ts
           /\ \/ task' = task /\ UNCHANGED lastFire
                   /\ wd'.last_attempt_ts = wd.last_attempt_ts
              \/ /\ ~GraceActive(wd, now)
                 /\ now - wd.last_attempt_ts >= RETRY_INTERVAL_S
                 /\ lastFire' = now /\ wd'.last_attempt_ts = now
<1> DEFINE seen == Observe(wd, frame.ac, frame.out, frame.ts, floorSet, now)
           action == Decide(seen, now)
<1>1. CASE ~enabled
  BY <1>1 DEF WatchdogTick, historyVars
<1>2. CASE enabled
  <2>1. Kept(seen, wd)
    BY ObserveType DEF TypeOK, Frames
  <2>2. /\ wd' = Commit(seen, action, now)
        /\ IF action = "cycle" THEN lastFire' = now
           ELSE UNCHANGED <<task, episode, lastFire>>
    BY <1>2 DEF WatchdogTick
  <2> HIDE DEF seen
  <2>3. /\ wd'.pending_user_off_intents = wd.pending_user_off_intents
        /\ wd'.last_user_off_ts = wd.last_user_off_ts
        /\ wd'.last_attempt_ts = IF action = "cycle" THEN now ELSE wd.last_attempt_ts
    BY <2>1, <2>2, CommitType DEF Kept, TypeOK
  <2>4. CASE action = "cycle"
    <3>1. ~GraceActive(seen, now) /\ now - seen.last_attempt_ts >= RETRY_INTERVAL_S
      BY <2>4, CycleDecision
    <3>2. ~GraceActive(wd, now) /\ now - wd.last_attempt_ts >= RETRY_INTERVAL_S
      BY <2>1, <3>1 DEF Kept, GraceActive
    <3> QED
      BY <2>2, <2>3, <2>4, <3>2
  <2>5. CASE action # "cycle"
    BY <2>2, <2>3, <2>5
  <2> QED
    BY <2>4, <2>5
<1> QED
  BY <1>1, <1>2 DEF TypeOK

\* IInv is preserved by every step.
LEMMA Preserved == IInv /\ TypeOK' /\ [Next]_vars => IInv'
<1> SUFFICES ASSUME IInv, TypeOK', [Next]_vars
             PROVE  OffIntents' /\ NoCycleDuringUserOff' /\ Paced'
  BY DEF IInv
<1> USE DEF deviceVars, rpcVars, pollVars, configVars, historyVars
<1>0. /\ wd \in WatchdogState /\ wd' \in WatchdogState /\ now \in Nat /\ now' \in Nat
      /\ req \in [Tokens -> {"idle", "on", "off"}]
      /\ \A k \in Cycles : task[k] \in TaskRecords /\ task \in [Cycles -> TaskRecords]
  BY DEF IInv, TypeOK, TaskRecords
<1>1. CASE UNCHANGED <<now, wd, task, req, lastFire>>
  BY <1>1 DEF IInv, OffIntents, NoCycleDuringUserOff, Paced, Live
<1>2. CASE ClockTick
  <2>1. GraceActive(wd', now') => GraceActive(wd, now)
    BY <1>0, <1>2, GraceFades DEF ClockTick
  <2> QED
    BY <1>2, <2>1 DEF ClockTick, IInv, OffIntents, NoCycleDuringUserOff, Paced, Live
<1>3. CASE WatchdogTick
  <2>1. UNCHANGED <<now, req>>
    BY <1>3 DEF WatchdogTick
  <2>2. GraceActive(wd', now') => GraceActive(wd, now)
    BY <1>0, <1>3, <2>1, TickFacts, GraceFades DEF IInv
  <2>3. OffIntents' /\ Paced'
    BY <1>3, <2>1, TickFacts DEF IInv, OffIntents, Paced
  <2>4. NoCycleDuringUserOff'
    BY <1>3, <2>2, TickFacts DEF IInv, NoCycleDuringUserOff, Live
  <2> QED
    BY <2>3, <2>4
<1>4. ASSUME NEW k \in Cycles, CycleStep(k)
      PROVE  OffIntents' /\ NoCycleDuringUserOff' /\ Paced'
  <2>1. UNCHANGED <<now, wd, req, lastFire>>
    BY <1>4 DEF CycleStep, CycleStart, CycleWake, Proceed, CycleReply, CycleError,
                CancelDelivered
  <2>2. /\ \A j \in Cycles \ {k} : task'[j] = task[j]
        /\ task[k].pc # "none" \/ task'[k].pc = "none"
    <3>1. CASE EndTask(k)
      BY <1>0, <3>1 DEF EndTask, NoTask
    <3>2. ASSUME NEW pc \in {"off", "on"}, task' = [task EXCEPT ![k].pc = pc],
                 task[k].pc \in {"start", "sleep"}
          PROVE  /\ \A j \in Cycles \ {k} : task'[j] = task[j]
                 /\ task[k].pc # "none"
      BY <1>0, <3>2
    <3>3. ASSUME task' = [task EXCEPT ![k].pc = "sleep", ![k].wake = now + PAUSE_S],
                 task[k].pc = "off"
          PROVE  /\ \A j \in Cycles \ {k} : task'[j] = task[j]
                 /\ task[k].pc # "none"
      BY <1>0, <3>3
    <3> QED
      BY <1>4, <3>1, <3>2, <3>3
         DEF CycleStep, CycleStart, CycleWake, Proceed, CycleReply, CycleError, CancelDelivered
  <2>3. Live' \subseteq Live
    BY <2>2 DEF Live
  <2> QED
    BY <2>1, <2>3 DEF IInv, OffIntents, NoCycleDuringUserOff, Paced
<1>5. ASSUME NEW u \in Tokens, UserStep(u)
      PROVE  OffIntents' /\ NoCycleDuringUserOff' /\ Paced'
  <2>1. CASE UserOn(u)
    BY <1>0, <2>1 DEF UserOn, IInv, OffIntents, NoCycleDuringUserOff, Paced, Live
  <2>2. CASE UserOff(u)
    <3>1. /\ wd'.pending_user_off_intents = wd.pending_user_off_intents \cup {u}
          /\ wd'.last_attempt_ts = wd.last_attempt_ts
      BY <1>0, <2>2, IntentType DEF UserOff, WatchdogState
    <3>2. Live' = {}
      BY <2>2 DEF UserOff, Live, NoTask
    <3>3. req' = [req EXCEPT ![u] = "off"] /\ UNCHANGED lastFire
      BY <2>2, Zenon DEF UserOff
    <3> QED
      BY <1>0, <3>1, <3>2, <3>3 DEF IInv, OffIntents, NoCycleDuringUserOff, Paced
  <2>3. ASSUME NEW ok \in BOOLEAN, UserEnd(u, ok)
        PROVE  OffIntents' /\ NoCycleDuringUserOff' /\ Paced'
    <3> DEFINE stamped == IF ok /\ req[u] = "off" THEN RecordUserOff(wd, now) ELSE wd
    <3>1. /\ stamped \in WatchdogState
          /\ stamped.pending_user_off_intents = wd.pending_user_off_intents
          /\ stamped.last_attempt_ts = wd.last_attempt_ts
          /\ req[u] # "off" => stamped.last_user_off_ts = wd.last_user_off_ts
      BY <1>0, RecordUserOffType
    <3>2. wd' = [stamped EXCEPT !.pending_user_off_intents = @ \ {u}]
      BY <2>3, Zenon DEF UserEnd
    <3> HIDE DEF stamped
    <3>3. /\ wd'.pending_user_off_intents = wd.pending_user_off_intents \ {u}
          /\ wd'.last_user_off_ts = stamped.last_user_off_ts
          /\ wd'.last_attempt_ts = wd.last_attempt_ts
      BY <3>1, <3>2, IntentType DEF WatchdogState
    <3>4. UNCHANGED <<now, task, lastFire>> /\ req' = [req EXCEPT ![u] = "idle"]
      BY <2>3, Zenon DEF UserEnd
    <3>5. OffIntents' /\ Paced'
      BY <1>0, <3>3, <3>4 DEF IInv, OffIntents, Paced
    <3>6. CASE req[u] = "off"
      \* the request was in its grace condition already
      <4>1. GraceActive(wd, now)
        BY <3>6 DEF IInv, OffIntents, GraceActive
      <4>2. Live' = {}
        BY <3>4, <4>1 DEF IInv, NoCycleDuringUserOff, Live
      <4> QED
        BY <3>5, <4>2 DEF NoCycleDuringUserOff
    <3>7. CASE req[u] # "off"
      <4>1. wd'.pending_user_off_intents = wd.pending_user_off_intents
        BY <1>0, <3>3, <3>7 DEF IInv, OffIntents
      <4>2. GraceActive(wd', now') => GraceActive(wd, now)
        BY <1>0, <3>1, <3>3, <3>4, <3>7, <4>1, GraceFades
      <4> QED
        BY <3>4, <3>5, <4>2 DEF IInv, NoCycleDuringUserOff, Live
    <3> QED
      BY <3>6, <3>7
  <2> QED
    BY <1>5, <2>1, <2>2, <2>3 DEF UserStep
<1>6. CASE DisableReset \/ DismissReset
  <2>1. /\ wd'.pending_user_off_intents = wd.pending_user_off_intents
        /\ wd'.last_user_off_ts \in {0, wd.last_user_off_ts}
        /\ wd'.last_attempt_ts = 0 /\ lastFire' = 0
    BY <1>0, <1>6, ResetType, DismissType DEF DisableReset, DismissReset
  <2>2. UNCHANGED <<now, task, req>>
    BY <1>6 DEF DisableReset, DismissReset
  <2>3. GraceActive(wd', now') => GraceActive(wd, now)
    BY <1>0, <2>1, <2>2, GraceFades
  <2> QED
    BY <2>1, <2>2, <2>3 DEF IInv, OffIntents, NoCycleDuringUserOff, Paced, Live
<1>7. CASE Restart
  <2>1. /\ wd' = NewState /\ lastFire' = 0
        /\ task' = [k \in Cycles |-> NoTask] /\ req' = [u \in Tokens |-> "idle"]
    BY <1>7, Zenon DEF Restart
  <2> QED
    BY <2>1 DEF NewState, NoTask, Live, OffIntents, NoCycleDuringUserOff, Paced
<1>8. CASE \/ DeviceApply \/ DeviceDisturbed \/ Push \/ LockPass \/ RpcWrite
           \/ RpcPublish \/ OrphanPublish \/ PollStart \/ PollReply \/ PollError
           \/ (\E on \in BOOLEAN : SetEnabled(on)) \/ DisableCancel \/ DismissCancel
           \/ SetFloor \/ UNCHANGED vars
  BY <1>1, <1>8 DEF DeviceApply, DeviceDisturbed, Push, LockPass, RpcWrite,
       RpcPublish, OrphanPublish, PollStart, PollReply, PollError, SetEnabled,
       DisableCancel, DismissCancel, CancelSoon, SetFloor, vars
<1> QED
  BY <1>2, <1>3, <1>4, <1>5, <1>6, <1>7, <1>8 DEF Next, RouteStep

LEMMA Invariance == Spec => []IInv
<1>1. Init /\ TypeOK => IInv
  BY DEF Init, IInv, OffIntents, NoCycleDuringUserOff, Paced, Live, NoTask, NewState
<1> QED
  BY <1>1, TypeCorrect, Preserved, PTL DEF Spec

-----------------------------------------------------------------------------
(* What the user's AC OFF is promised, and the pacing                      *)

\* From the click on AC OFF to the end of the grace period no recovery cycle
\* is alive, whatever the number of requests, tasks and interleavings.
THEOREM UserOffWins == Spec => []NoCycleDuringUserOff
BY Invariance, PTL DEF IInv

\* No recovery command is written to the bridge while an AC-OFF request of the
\* user is being served.
THEOREM UserOffUndisturbed == Spec => UserOffExcludesRecoveryCommand
<1>1. ASSUME IInv, RpcWrite, Head(lock) \in Cycles
      PROVE  \A u \in Tokens : req[u] # "off"
  <2>1. Head(lock) \in Live
    BY <1>1 DEF RpcWrite, Served, Live
  <2>2. ~GraceActive(wd, now)
    BY <1>1, <2>1 DEF IInv, NoCycleDuringUserOff
  <2> QED
    BY <1>1, <2>2 DEF IInv, OffIntents, GraceActive
<1>2. IInv => [RpcWrite /\ Head(lock) \in Cycles => \A u \in Tokens : req[u] # "off"]_vars
  BY <1>1
<1> QED
  BY <1>2, Invariance, PTL DEF UserOffExcludesRecoveryCommand

\* Two cycles start at least RETRY_INTERVAL_S apart.
THEOREM Pacing == Spec => CyclesArePaced
<1> DEFINE Step == \A k \in Cycles : task[k].pc = "none" /\ task'[k].pc = "start"
                     => now - lastFire >= RETRY_INTERVAL_S
<1>1. ASSUME IInv, [Next]_vars, NEW k \in Cycles,
             task[k].pc = "none", task'[k].pc = "start"
      PROVE  WatchdogTick
  <2>1. task' # task
    BY <1>1
  <2>2. task \in [Cycles -> TaskRecords]
    BY <1>1 DEF IInv, TypeOK, TaskRecords
  <2>3. ~\E j \in Cycles : CycleStep(j)
    <3> SUFFICES ASSUME NEW j \in Cycles, CycleStep(j) PROVE FALSE
      OBVIOUS
    <3>1. task'[j].pc # "start"
      BY <2>2 DEF CycleStep, CycleStart, CycleWake, Proceed, CycleReply, CycleError,
                CancelDelivered, EndTask, NoTask, TaskRecords
    <3>2. \A i \in Cycles \ {j} : task'[i] = task[i]
      BY <2>2 DEF CycleStep, CycleStart, CycleWake, Proceed, CycleReply, CycleError,
                CancelDelivered, EndTask, TaskRecords
    <3> QED
      BY <1>1, <3>1, <3>2
  <2>4. task' # [j \in Cycles |-> NoTask]
    BY <1>1 DEF NoTask
  <2> QED
    BY <1>1, <2>1, <2>3, <2>4, Zenon
       DEF Next, UserStep, UserOn, UserOff, UserEnd, RouteStep, SetEnabled,
         DisableCancel, DisableReset, DismissCancel, DismissReset, CancelSoon,
         SetFloor, Restart, ClockTick, DeviceApply, DeviceDisturbed, Push,
         LockPass, RpcWrite, RpcPublish, OrphanPublish, PollStart, PollReply,
         PollError, vars
<1>2. IInv /\ [Next]_vars => Step
  <2> SUFFICES ASSUME IInv, [Next]_vars, NEW k \in Cycles,
                      task[k].pc = "none", task'[k].pc = "start"
               PROVE  now - lastFire >= RETRY_INTERVAL_S
    OBVIOUS
  <2>1. WatchdogTick
    BY <1>1
  <2> QED
    BY <2>1, TickFacts DEF IInv, Paced
<1>3. IInv /\ [Next]_vars => [Step]_vars
  BY <1>2
<1> QED
  BY <1>3, Invariance, PTL DEF Spec, CyclesArePaced
-----------------------------------------------------------------------------
(* The queue for the RPC lock                                              *)

\* k waits, or holds, in front of the poll loop.
AheadOfPoll(q, k) == \E i \in 1 .. Len(q) : q[i] = k /\ \A j \in 1 .. i : q[j] # POLL

\* The poll loop and every task stand in the queue at most once.
OnceEach(q) == \A i, j \in 1 .. Len(q) : q[i] = q[j] /\ q[i] \notin Tokens => i = j

LEMMA QueueMembers ==
    ASSUME NEW q \in Seq(Parties)
    PROVE  Range(q) = {q[i] : i \in 1 .. Len(q)}
BY DEF Range

LEMMA Joined ==
    ASSUME NEW q \in Seq(Parties), NEW p \in Parties
    PROVE  /\ Range(Append(q, p)) = Range(q) \cup {p}
           /\ OnceEach(q) /\ (p \in Tokens \/ p \notin Range(q)) => OnceEach(Append(q, p))
           /\ \A k : AheadOfPoll(q, k) => AheadOfPoll(Append(q, p), k)
           /\ p # POLL /\ POLL \notin Range(q) => AheadOfPoll(Append(q, p), p)
<1> DEFINE r == Append(q, p)
<1>1. /\ r \in Seq(Parties) /\ Len(r) = Len(q) + 1 /\ Len(q) \in Nat
      /\ \A i \in 1 .. Len(q) : r[i] = q[i]
      /\ r[Len(q) + 1] = p
  OBVIOUS
<1> HIDE DEF r
<1>2. \A i \in 1 .. Len(r) : i \in 1 .. Len(q) \/ i = Len(q) + 1
  BY <1>1
<1>3. Range(r) = Range(q) \cup {p}
  BY <1>1, <1>2, QueueMembers
<1>4. OnceEach(q) /\ (p \in Tokens \/ p \notin Range(q)) => OnceEach(r)
  BY <1>1, <1>2, QueueMembers DEF OnceEach
<1>5. ASSUME NEW k, AheadOfPoll(q, k) PROVE AheadOfPoll(r, k)
  BY <1>1, <1>5 DEF AheadOfPoll
<1>6. ASSUME p # POLL, POLL \notin Range(q) PROVE AheadOfPoll(r, p)
  BY <1>1, <1>2, <1>6, QueueMembers DEF AheadOfPoll
<1> QED
  BY <1>3, <1>4, <1>5, <1>6 DEF r

LEMMA Left ==
    ASSUME NEW q \in Seq(Parties), q # <<>>
    PROVE  /\ Range(Tail(q)) \subseteq Range(q) /\ Head(q) \in Range(q)
           /\ OnceEach(q) => /\ OnceEach(Tail(q))
                             /\ Head(q) \notin Tokens => Head(q) \notin Range(Tail(q))
           /\ \A k : AheadOfPoll(q, k) =>
                       Head(q) # POLL /\ (Head(q) # k => AheadOfPoll(Tail(q), k))
<1> DEFINE r == Tail(q)
<1>1. /\ r \in Seq(Parties) /\ Len(q) = Len(r) + 1 /\ Len(r) \in Nat
      /\ \A i \in 1 .. Len(r) : r[i] = q[i + 1]
      /\ Head(q) = q[1]
  OBVIOUS
<1> HIDE DEF r
<1>2. /\ \A i \in 1 .. Len(r) : i + 1 \in 1 .. Len(q)
      /\ \A i \in 1 .. Len(q) : i = 1 \/ (i - 1 \in 1 .. Len(r) /\ q[i] = r[i - 1])
      /\ 1 \in 1 .. Len(q)
  BY <1>1
<1>3. Range(r) \subseteq Range(q) /\ Head(q) \in Range(q)
  <2>1. /\ Range(r) = {r[i] : i \in 1 .. Len(r)}
        /\ Range(q) = {q[i] : i \in 1 .. Len(q)}
    BY <1>1, QueueMembers
  <2> QED
    BY <1>1, <1>2, <2>1
<1>4. ASSUME OnceEach(q)
      PROVE  OnceEach(r) /\ (Head(q) \notin Tokens => Head(q) \notin Range(r))
  <2>1. OnceEach(r)
    BY <1>1, <1>2, <1>4 DEF OnceEach
  <2>2. ASSUME Head(q) \notin Tokens, NEW i \in 1 .. Len(r), r[i] = Head(q) PROVE FALSE
    <3>1. q[i + 1] = q[1] /\ q[1] \notin Tokens /\ i + 1 \in 1 .. Len(q)
      BY <1>1, <1>2, <2>2
    <3> QED
      BY <1>2, <1>4, <3>1 DEF OnceEach
  <2> QED
    BY <1>1, <2>1, <2>2, QueueMembers
<1>5. ASSUME NEW k, AheadOfPoll(q, k)
      PROVE  Head(q) # POLL /\ (Head(q) # k => AheadOfPoll(r, k))
  <2>1. PICK i \in 1 .. Len(q) : q[i] = k /\ \A j \in 1 .. i : q[j] # POLL
    BY <1>5 DEF AheadOfPoll
  <2>2. Head(q) # POLL
    BY <1>1, <2>1
  <2>3. ASSUME Head(q) # k PROVE AheadOfPoll(r, k)
    <3>1. i - 1 \in 1 .. Len(r) /\ r[i - 1] = k
      BY <1>1, <1>2, <2>1, <2>3
    <3>2. \A j \in 1 .. (i - 1) : r[j] # POLL
      BY <1>1, <2>1
    <3> QED
      BY <3>1, <3>2 DEF AheadOfPoll
  <2> QED
    BY <2>2, <2>3
<1> QED
  BY <1>3, <1>4, <1>5 DEF r
\* What the place of a task in the queue says of its step: a task that is to
\* switch AC off stands in front of the next poll.
TurnOf(k) ==
    /\ task[k].pc = "start" => poll = "idle" /\ now < pollAt /\ k \notin Range(lock)
    /\ task[k].pc = "off" => poll # "frame" /\ AheadOfPoll(lock, k)
    /\ task[k].pc = "sleep" => k \notin Range(lock)

InTurn ==
    /\ lock = <<>> => phase = "connect"
    /\ OnceEach(lock)
    /\ POLL \in Range(lock) => poll = "rpc"
    /\ \A k \in Cycles : TurnOf(k)

LEMMA InTurnInit == Init => InTurn
BY DEF Init, InTurn, TurnOf, NoTask, OnceEach, Range

\* Tasks that end keep the queue in order.
LEMMA TasksEnd ==
    ASSUME InTurn, UNCHANGED <<lock, poll, pollAt, now>>, lock = <<>> => phase' = "connect",
           \A k \in Cycles : task'[k].pc \in {"none", task[k].pc}
    PROVE  InTurn'
BY DEF InTurn, TurnOf

\* The holder leaves the queue; its task, if it is one, is over or sleeps.
LEMMA HolderLeaves ==
    ASSUME TypeOK, InTurn, lock # <<>>, Release, now' = now,
           \A k \in Cycles : \/ task'[k].pc \in {"none", task[k].pc}
                             \/ (k = Head(lock) /\ task'[k].pc = "sleep"),
           Head(lock) \in Cycles => task'[Head(lock)].pc \in {"none", "sleep"},
           Head(lock) # POLL => UNCHANGED <<poll, pollAt>>,
           Head(lock) = POLL => poll' # "rpc"
    PROVE  InTurn'
<1> USE RecoveryAssumption DEF RecoveryAssumption
<1>1. /\ lock \in Seq(Parties) /\ lock' = Tail(lock) /\ phase' = "connect"
  BY DEF TypeOK, Release
<1>2. /\ Range(lock') \subseteq Range(lock) /\ Head(lock) \in Range(lock)
      /\ OnceEach(lock')
      /\ Head(lock) \notin Tokens => Head(lock) \notin Range(lock')
      /\ \A k : AheadOfPoll(lock, k) =>
                  Head(lock) # POLL /\ (Head(lock) # k => AheadOfPoll(lock', k))
  BY <1>1, Left DEF InTurn
<1>3. POLL \in Range(lock') => poll' = "rpc"
  BY <1>2 DEF InTurn
<1>4. ASSUME NEW k \in Cycles PROVE TurnOf(k)'
  <2>1. CASE k = Head(lock)
    <3>1. k \notin Range(lock')
      BY <1>2, <2>1
    <3> QED
      BY <2>1, <3>1 DEF TurnOf
  <2>2. CASE k # Head(lock)
    <3>1. task'[k].pc \in {"none", task[k].pc}
      BY <2>2
    <3>2. CASE Head(lock) = POLL
      BY <1>2, <3>1, <3>2 DEF InTurn, TurnOf
    <3>3. CASE UNCHANGED <<poll, pollAt>>
      BY <1>2, <2>2, <3>1, <3>3 DEF InTurn, TurnOf
    <3> QED
      BY <3>2, <3>3
  <2> QED
    BY <2>1, <2>2
<1> QED
  BY <1>1, <1>2, <1>3, <1>4 DEF InTurn

\* A party joins the queue.
LEMMA PartyJoins ==
    ASSUME TypeOK, InTurn, NEW p \in Parties, lock' = Append(lock, p), now' = now,
           p \in Tokens \/ p \notin Range(lock),
           p = POLL => poll' = "rpc" /\ poll # "rpc" /\ poll # "frame" /\ now >= pollAt,
           p # POLL => UNCHANGED <<poll, pollAt>>,
           \A k \in Cycles \ {p} : task'[k].pc \in {"none", task[k].pc},
           p \in Cycles => task'[p].pc \in {"off", "on"},
           p \in Cycles /\ task'[p].pc = "off" => poll = "idle"
    PROVE  InTurn'
<1> USE RecoveryAssumption DEF RecoveryAssumption
<1>1. lock \in Seq(Parties) /\ lock' # <<>> /\ pollAt \in Nat /\ now \in Nat
  BY DEF TypeOK
<1>2. /\ Range(lock') = Range(lock) \cup {p}
      /\ OnceEach(lock')
      /\ \A k : AheadOfPoll(lock, k) => AheadOfPoll(lock', k)
      /\ p # POLL /\ POLL \notin Range(lock) => AheadOfPoll(lock', p)
  BY <1>1, Joined DEF InTurn
<1>3. POLL \in Range(lock') => poll' = "rpc"
  BY <1>2 DEF InTurn
<1>4. ASSUME NEW k \in Cycles PROVE TurnOf(k)'
  <2>1. CASE k = p
    <3>1. p # POLL
      BY <2>1
    <3>2. task'[k].pc = "off" => AheadOfPoll(lock', k)
      BY <1>2, <2>1, <3>1 DEF InTurn
    <3> QED
      BY <2>1, <3>1, <3>2 DEF TurnOf
  <2>2. CASE k # p /\ p = POLL
    BY <1>1, <1>2, <2>2 DEF InTurn, TurnOf
  <2>3. CASE k # p /\ p # POLL
    BY <1>2, <2>3 DEF InTurn, TurnOf
  <2> QED
    BY <2>1, <2>2, <2>3
<1> QED
  BY <1>1, <1>2, <1>3, <1>4 DEF InTurn
LEMMA CycleInTurn ==
    ASSUME TypeOK, InTurn, NEW k \in Cycles, CycleStep(k)
    PROVE  InTurn'
<1> USE RecoveryAssumption DEF RecoveryAssumption
<1> USE DEF deviceVars, rpcVars, pollVars, configVars, historyVars
<1>0. task \in [Cycles -> TaskRecords] /\ k \in Parties
  BY DEF TypeOK, TaskRecords, Parties
<1>1. ASSUME task' = [task EXCEPT ![k] = NoTask]
      PROVE  \A j \in Cycles : task'[j].pc \in {"none", task[j].pc} /\ task'[k].pc = "none"
  BY <1>0, <1>1 DEF NoTask
<1>2. ASSUME NEW pc \in {"off", "on"}, Proceed(k, pc), task[k].pc \in {"start", "sleep"},
             pc = "off" => task[k].pc = "start"
      PROVE  InTurn'
  <2>1. UNCHANGED <<poll, pollAt, now>>
    BY <1>2 DEF Proceed
  <2>2. CASE RecoveryStillAllowed(k)
    <3>1. task' = [task EXCEPT ![k].pc = pc] /\ lock' = Append(lock, k)
      BY <1>2, <2>2 DEF Proceed, Enqueue
    <3>2. /\ task'[k].pc = pc
          /\ \A j \in Cycles \ {k} : task'[j] = task[j]
      BY <1>0, <3>1 DEF TaskRecords
    <3>3. k \notin Range(lock) /\ (pc = "off" => poll = "idle")
      BY <1>2 DEF InTurn, TurnOf
    <3> QED
      BY <1>0, <2>1, <3>1, <3>2, <3>3, PartyJoins
  <2>3. CASE ~RecoveryStillAllowed(k)
    <3>1. EndTask(k) /\ UNCHANGED <<lock, phase>>
      BY <1>2, <2>3 DEF Proceed
    <3> QED
      BY <1>1, <2>1, <3>1, TasksEnd DEF EndTask, InTurn
  <2> QED
    BY <2>2, <2>3
<1>3. CASE CycleReply(k)
  <2>1. lock # <<>> /\ Head(lock) = k /\ Release /\ UNCHANGED <<poll, pollAt, now>>
    BY <1>3 DEF CycleReply, Holder
  <2>2. /\ task'[k].pc \in {"none", "sleep"}
        /\ \A j \in Cycles \ {k} : task'[j] = task[j]
    <3>1. \/ task' = [task EXCEPT ![k].pc = "sleep", ![k].wake = now + PAUSE_S]
          \/ task' = [task EXCEPT ![k] = NoTask]
      BY <1>3 DEF CycleReply, EndTask
    <3> QED
      BY <1>0, <1>1, <3>1 DEF TaskRecords
  <2> QED
    BY <2>1, <2>2, HolderLeaves
<1>4. CASE CycleError(k)
  <2>1. lock # <<>> /\ Head(lock) = k /\ Release /\ UNCHANGED <<poll, pollAt, now>>
    BY <1>4 DEF CycleError, Holder
  <2>2. task' = [task EXCEPT ![k] = NoTask]
    BY <1>4 DEF CycleError, EndTask
  <2> QED
    BY <1>1, <2>1, <2>2, HolderLeaves
<1>5. CASE CancelDelivered(k)
  <2>1. UNCHANGED <<lock, poll, pollAt, now>> /\ phase' \in {"connect", phase}
    BY <1>5 DEF CancelDelivered, Cancel
  <2>2. task' = [task EXCEPT ![k] = NoTask]
    BY <1>5 DEF CancelDelivered, EndTask
  <2> QED
    BY <1>1, <2>1, <2>2, TasksEnd DEF InTurn
<1> QED
  BY <1>2, <1>3, <1>4, <1>5 DEF CycleStep, CycleStart, CycleWake

LEMMA UserInTurn ==
    ASSUME TypeOK, InTurn, NEW u \in Tokens, UserStep(u)
    PROVE  InTurn'
<1> USE RecoveryAssumption DEF RecoveryAssumption
<1> USE DEF deviceVars, rpcVars, pollVars, configVars, historyVars
<1>0. u \in Parties /\ u # POLL /\ u \notin Cycles
  BY DEF Parties
<1>1. CASE UserOn(u)
  BY <1>0, <1>1, PartyJoins DEF UserOn, Enqueue
<1>2. CASE UserOff(u)
  <2>1. /\ lock' = Append(lock, u) /\ UNCHANGED <<poll, pollAt, now>>
        /\ task' = [k \in Cycles |-> NoTask]
    BY <1>2, Zenon DEF UserOff
  <2>2. \A k \in Cycles : task'[k].pc = "none"
    BY <2>1 DEF NoTask
  <2> QED
    BY <1>0, <2>1, <2>2, PartyJoins
<1>3. ASSUME NEW ok \in BOOLEAN, UserEnd(u, ok) PROVE InTurn'
  <2>1. /\ lock # <<>> /\ Head(lock) = u /\ Release
        /\ UNCHANGED <<poll, pollAt, now, task>>
    BY <1>3, Zenon DEF UserEnd, Holder
  <2> QED
    BY <1>0, <2>1, HolderLeaves
<1> QED
  BY <1>1, <1>2, <1>3 DEF UserStep

LEMMA TickInTurn ==
    ASSUME TypeOK, InTurn, WatchdogTick
    PROVE  InTurn'
<1>1. /\ poll = "frame" /\ poll' = "idle" /\ pollAt' = now + 1 /\ now \in Nat
      /\ UNCHANGED <<lock, phase, now>>
  BY DEF WatchdogTick, PollSleep, rpcVars, TypeOK
<1>2. \/ task' = task
      \/ \E k \in Cycles \ (Live \cup Range(lock)) :
           task' = [task EXCEPT ![k] = [pc |-> "start", gen |-> gen, wake |-> 0]]
  BY DEF WatchdogTick
<1>3. ASSUME NEW k \in Cycles
      PROVE  \/ task'[k].pc = task[k].pc
             \/ task'[k].pc = "start" /\ k \notin Range(lock)
  <2>1. task \in [Cycles -> TaskRecords]
    BY DEF TypeOK, TaskRecords
  <2>2. CASE task' = task
    BY <2>2
  <2>3. ASSUME NEW j \in Cycles \ (Live \cup Range(lock)),
               task' = [task EXCEPT ![j] = [pc |-> "start", gen |-> gen, wake |-> 0]]
        PROVE  \/ task'[k].pc = task[k].pc
               \/ task'[k].pc = "start" /\ k \notin Range(lock)
    BY <2>1, <2>3
  <2> QED
    BY <1>2, <2>2, <2>3
<1>4. ASSUME NEW k \in Cycles PROVE TurnOf(k)'
  BY <1>1, <1>3 DEF InTurn, TurnOf
<1> QED
  BY <1>1, <1>4 DEF InTurn

LEMMA InTurnKept == TypeOK /\ InTurn /\ [Next]_vars => InTurn'
<1> SUFFICES ASSUME TypeOK, InTurn, [Next]_vars PROVE InTurn'
  OBVIOUS
<1> USE RecoveryAssumption DEF RecoveryAssumption
<1> USE DEF deviceVars, rpcVars, pollVars, configVars, historyVars
<1>1. ASSUME UNCHANGED <<lock, poll, pollAt, now, task>>, phase' = phase \/ lock # <<>>
      PROVE  InTurn'
  BY <1>1 DEF InTurn, TurnOf
<1>2. CASE ClockTick
  BY <1>2 DEF ClockTick, InTurn, TurnOf
<1>3. CASE LockPass
  <2>1. lock # <<>> /\ Release /\ UNCHANGED <<now, poll, pollAt, task>>
    BY <1>3 DEF LockPass
  <2>2. Head(lock) \in Cycles /\ task[Head(lock)].pc \notin {"off", "on"}
    BY <1>3 DEF LockPass, Served
  <2>3. task[Head(lock)].pc \in {"none", "sleep"}
    <3>1. Head(lock) \in Range(lock)
      BY <2>1, Left DEF TypeOK
    <3>2. task[Head(lock)].pc \in TaskStates
      BY <2>2 DEF TypeOK
    <3> QED
      BY <2>2, <3>1, <3>2 DEF InTurn, TurnOf, TaskStates
  <2> QED
    BY <2>1, <2>2, <2>3, HolderLeaves
<1>4. CASE PollStart
  <2>1. POLL \notin Range(lock) /\ POLL \in Parties /\ POLL \notin Cycles
    BY <1>4 DEF PollStart, InTurn, Parties
  <2>2. /\ lock' = Append(lock, POLL) /\ poll = "idle" /\ poll' = "rpc" /\ now >= pollAt
        /\ UNCHANGED <<now, task>>
    BY <1>4 DEF PollStart, Enqueue
  <2> QED
    BY <2>1, <2>2, PartyJoins
<1>5. CASE PollReply \/ PollError
  <2>1. /\ lock # <<>> /\ Head(lock) = POLL /\ Release /\ poll' # "rpc"
        /\ UNCHANGED <<now, task>>
    BY <1>5 DEF PollReply, PollError, PollSleep, Holder
  <2>2. POLL \notin Cycles
    OBVIOUS
  <2> QED
    BY <2>1, <2>2, HolderLeaves
<1>6. CASE WatchdogTick
  BY <1>6, TickInTurn
<1>7. CASE Restart
  <2>1. /\ lock' = <<>> /\ phase' = "connect"
        /\ task' = [k \in Cycles |-> NoTask]
    BY <1>7, Zenon DEF Restart
  <2>2. \A k \in Cycles : task'[k].pc = "none"
    BY <2>1 DEF NoTask
  <2> QED
    BY <2>1, <2>2 DEF InTurn, TurnOf, OnceEach, Range
<1>8. CASE \/ DeviceApply \/ DeviceDisturbed \/ Push \/ RpcWrite \/ RpcPublish
           \/ OrphanPublish \/ RouteStep \/ UNCHANGED vars
  <2>1. UNCHANGED <<lock, poll, pollAt, now, task>> /\ (phase' = phase \/ lock # <<>>)
    BY <1>8 DEF DeviceApply, DeviceDisturbed, Push, RpcWrite, RpcPublish, OrphanPublish,
         RouteStep, SetEnabled, DisableCancel, DisableReset, DismissCancel, DismissReset,
         CancelSoon, SetFloor, vars
  <2> QED
    BY <1>1, <2>1
<1> QED
  BY <1>2, <1>3, <1>4, <1>5, <1>6, <1>7, <1>8, CycleInTurn, UserInTurn DEF Next
-----------------------------------------------------------------------------
(* What one frame does to the episode, the badge and the streak            *)

\* The counters of a record, as far as the episode and the streak go.
Counters(s) ==
    <<s.hw_trip_active, s.episode_cycles, s.error_message, s.low_samples, s.last_sample_ts>>

LEMMA CounterSteps ==
    ASSUME NEW s \in WatchdogState
    PROVE  /\ Counters(NoStreak(s)) = <<s.hw_trip_active, s.episode_cycles, s.error_message,
                                        0, s.last_sample_ts>>
           /\ Counters(NoEpisode(s)) = <<FALSE, 0, s.error_message, s.low_samples,
                                         s.last_sample_ts>>
           /\ \A ts \in Nat :
                Counters([s EXCEPT !.last_sample_ts = ts])
                  = <<s.hw_trip_active, s.episode_cycles, s.error_message, s.low_samples, ts>>
           /\ \A t \in Nat : Counters([s EXCEPT !.last_high_output_ts = t]) = Counters(s)
           /\ Counters([s EXCEPT !.error_message = FALSE])
                = <<s.hw_trip_active, s.episode_cycles, FALSE, s.low_samples, s.last_sample_ts>>
BY DEF WatchdogState, Counters, NoStreak, NoEpisode

LEMMA LowCounters ==
    ASSUME NEW s \in WatchdogState, NEW t \in Nat
    PROVE  /\ LowSample(s, t).hw_trip_active = s.hw_trip_active
           /\ LowSample(s, t).episode_cycles = s.episode_cycles
           /\ LowSample(s, t).error_message = s.error_message
           /\ LowSample(s, t).low_samples <= s.low_samples + 1
           /\ LowSample(s, t).last_sample_ts = s.last_sample_ts
BY WatchdogAssumption DEF WatchdogAssumption, LowSample, WatchdogState

LEMMA ArmCounters ==
    ASSUME NEW s \in WatchdogState, NEW t \in Nat
    PROVE  LET a == Arm(s, t)
           IN  /\ a.error_message = s.error_message
               /\ a.low_samples = s.low_samples /\ a.last_sample_ts = s.last_sample_ts
               /\ s.hw_trip_active => a.hw_trip_active /\ a.episode_cycles = s.episode_cycles
               /\ ~s.hw_trip_active /\ ~a.hw_trip_active => a.episode_cycles = s.episode_cycles
               /\ ~s.hw_trip_active /\ a.hw_trip_active =>
                    a.episode_cycles = 0 /\ s.low_samples >= COLLAPSE_MIN_SAMPLES
<1>1. CASE ~s.hw_trip_active /\ FullSignature(s, t)
  BY <1>1 DEF Arm, WatchdogState, FullSignature
<1>2. CASE ~(~s.hw_trip_active /\ FullSignature(s, t))
  BY <1>2 DEF Arm
<1> QED
  BY <1>1, <1>2

\* r is what the watchdog makes of s when it is shown a frame with time stamp
\* ts: `looked` when the frame is new, has a reading and no grace period runs,
\* `back` when it shows output above the floor or the port off.
Shown(r, s, back, looked, grace, ts) ==
    /\ back => ~r.hw_trip_active /\ r.episode_cycles = 0
    /\ ~back => r.episode_cycles = s.episode_cycles /\ (s.hw_trip_active => r.hw_trip_active)
    /\ r.hw_trip_active \/ r.episode_cycles = 0
    /\ r.error_message => s.error_message /\ r.hw_trip_active
    /\ s.error_message /\ ~r.error_message => back
    /\ back \/ grace => r.low_samples = 0
    /\ r.low_samples <= s.low_samples + 1
    /\ ~looked => r.low_samples <= s.low_samples
    /\ r.last_sample_ts = IF looked THEN ts ELSE s.last_sample_ts
    /\ ~s.hw_trip_active /\ r.hw_trip_active =>
         ~grace /\ looked /\ ~back /\ r.low_samples >= COLLAPSE_MIN_SAMPLES

\* The frame is new, has a reading and is looked at outside the grace period.
Looked(s, out, ts, floor, t) ==
    ts # s.last_sample_ts /\ floor /\ out # "none" /\ ~GraceActive(s, t)

\* The frame shows the port off or output above the floor.
Back(s, ac, out, ts, floor, t) ==
    ~ac \/ (Looked(s, out, ts, floor, t) /\ out \in {"mid", "high"})

LEMMA ObserveShown ==
    ASSUME NEW s \in WatchdogState, NEW ac \in BOOLEAN, NEW out \in Outputs,
           NEW ts \in Nat, NEW floor \in BOOLEAN, NEW t \in Nat,
           s.hw_trip_active \/ s.episode_cycles = 0, s.error_message => s.hw_trip_active
    PROVE  Shown(Observe(s, ac, out, ts, floor, t), s, Back(s, ac, out, ts, floor, t),
                 Looked(s, out, ts, floor, t), GraceActive(s, t), ts)
<1> DEFINE grace  == GraceActive(s, t)
           looked == Looked(s, out, ts, floor, t)
           back   == Back(s, ac, out, ts, floor, t)
           seen   == [s EXCEPT !.last_sample_ts = ts]
           high   == [seen EXCEPT !.last_high_output_ts = t]
           tracked == IF grace THEN NoStreak(s) ELSE TrackCollapse(s, ac, out, ts, floor, t)
           r      == Observe(s, ac, out, ts, floor, t)
<1> USE DEF Looked, Back
<1>1. /\ seen \in WatchdogState /\ high \in WatchdogState
      /\ Counters(seen) = <<s.hw_trip_active, s.episode_cycles, s.error_message, s.low_samples, ts>>
      /\ Counters(high) = Counters(seen)
  <2>1. seen \in WatchdogState
    BY DEF WatchdogState
  <2>2. Counters(seen) = <<s.hw_trip_active, s.episode_cycles, s.error_message, s.low_samples, ts>>
    BY CounterSteps
  <2> HIDE DEF seen
  <2>3. high \in WatchdogState
    BY <2>1 DEF WatchdogState
  <2>4. Counters(high) = Counters(seen)
    BY <2>1, CounterSteps
  <2> QED
    BY <2>1, <2>2, <2>3, <2>4
<1>2. s.low_samples \in Nat /\ COLLAPSE_MIN_SAMPLES \in Nat
  BY WatchdogAssumption DEF WatchdogAssumption, WatchdogState
<1>3. tracked \in WatchdogState
  BY TrackCollapseType, NoStreakType DEF Kept
<1> HIDE DEF seen, high
<1>4. \A q \in WatchdogState :
        /\ q.hw_trip_active \/ q.episode_cycles = 0 =>
             LET o == OutputReturned(q)
             IN  /\ o \in WatchdogState /\ ~o.hw_trip_active /\ o.episode_cycles = 0
                 /\ o.error_message = q.error_message
                 /\ o.low_samples = 0 /\ o.last_sample_ts = q.last_sample_ts
  <2> SUFFICES ASSUME NEW q \in WatchdogState, q.hw_trip_active \/ q.episode_cycles = 0
               PROVE  LET o == OutputReturned(q)
                      IN  /\ o \in WatchdogState /\ ~o.hw_trip_active /\ o.episode_cycles = 0
                          /\ o.error_message = q.error_message
                          /\ o.low_samples = 0 /\ o.last_sample_ts = q.last_sample_ts
    OBVIOUS
  <2> DEFINE ended == IF q.hw_trip_active THEN NoEpisode(q) ELSE q
  <2>1. /\ ended \in WatchdogState /\ ~ended.hw_trip_active /\ ended.episode_cycles = 0
        /\ ended.error_message = q.error_message /\ ended.last_sample_ts = q.last_sample_ts
    BY NoEpisodeType, CounterSteps DEF Kept, Counters
  <2> HIDE DEF ended
  <2>2. NoStreak(ended) \in WatchdogState
    BY <2>1, NoStreakType DEF Kept
  <2>3. Counters(NoStreak(ended)) = <<ended.hw_trip_active, ended.episode_cycles,
                                      ended.error_message, 0, ended.last_sample_ts>>
    BY <2>1, CounterSteps
  <2> QED
    BY <2>1, <2>2, <2>3 DEF OutputReturned, ended, Counters
\* the state before the decision on the badge
<1>5. /\ back /\ ac => ~tracked.hw_trip_active /\ tracked.episode_cycles = 0
      /\ ~back => /\ tracked.episode_cycles = s.episode_cycles
                  /\ s.hw_trip_active => tracked.hw_trip_active
      /\ ac => tracked.hw_trip_active \/ tracked.episode_cycles = 0
      /\ tracked.error_message = s.error_message
      /\ (ac /\ back) \/ grace => tracked.low_samples = 0
      /\ tracked.low_samples <= s.low_samples + 1
      /\ ~looked => tracked.low_samples <= s.low_samples
      /\ tracked.last_sample_ts = IF looked THEN ts ELSE s.last_sample_ts
      /\ ~s.hw_trip_active /\ tracked.hw_trip_active =>
           ~grace /\ looked /\ ~back /\ tracked.low_samples >= COLLAPSE_MIN_SAMPLES
  <2>1. CASE grace
    <3>1. tracked = NoStreak(s) /\ ~looked /\ (back => ~ac)
      BY <2>1
    <3>2. Counters(NoStreak(s)) = <<s.hw_trip_active, s.episode_cycles, s.error_message,
                                    0, s.last_sample_ts>>
      BY CounterSteps
    <3> HIDE DEF tracked, looked, back, grace
    <3> QED
      BY <1>2, <2>1, <3>1, <3>2 DEF Counters
  <2>2. CASE ~grace /\ ~looked
    <3>1. tracked = s /\ (back => ~ac)
      BY <2>2 DEF TrackCollapse
    <3> HIDE DEF tracked, looked, back, grace
    <3> QED
      BY <1>2, <2>2, <3>1
  <2>3. CASE looked /\ ~ac
    <3>1. tracked = NoStreak(seen) /\ back /\ ~grace
      BY <2>3 DEF TrackCollapse, seen
    <3>2. Counters(NoStreak(seen)) = <<seen.hw_trip_active, seen.episode_cycles,
                                       seen.error_message, 0, seen.last_sample_ts>>
      BY <1>1, CounterSteps
    <3> HIDE DEF tracked, looked, back, grace
    <3> QED
      BY <1>1, <1>2, <2>3, <3>1, <3>2 DEF Counters
  <2>4. CASE looked /\ ac /\ out = "low"
    <3>1. tracked = Arm(LowSample(seen, t), t) /\ ~back /\ ~grace
      BY <2>4 DEF TrackCollapse, seen
    <3>2. LowSample(seen, t) \in WatchdogState
      BY <1>1, LowSampleType DEF Kept
    <3> HIDE DEF tracked, looked, back, grace
    <3> QED
      BY <1>1, <1>2, <2>4, <3>1, <3>2, LowCounters, ArmCounters DEF Counters
  <2>5. CASE looked /\ ac /\ out \in {"mid", "high"}
    <3>1. tracked \in {OutputReturned(seen), OutputReturned(high)} /\ back /\ ~grace
      BY <2>5 DEF TrackCollapse, seen, high
    <3> HIDE DEF tracked, looked, back, grace
    <3> QED
      BY <1>1, <1>2, <1>4, <2>5, <3>1 DEF Counters
  <2> QED
    BY <2>1, <2>2, <2>3, <2>4, <2>5 DEF Outputs
<1>6. CASE ~ac
  <2> DEFINE over == NoEpisode(tracked)
             ended == NoStreak(over)
  <2>1. r = [ended EXCEPT !.error_message = FALSE] /\ back
    BY <1>6 DEF Observe
  <2> HIDE DEF tracked, r
  <2>2. over \in WatchdogState
    BY <1>3, NoEpisodeType DEF Kept
  <2>3. Counters(over) = <<FALSE, 0, tracked.error_message, tracked.low_samples,
                           tracked.last_sample_ts>>
    BY <1>3, CounterSteps
  <2> HIDE DEF over
  <2>4. ended \in WatchdogState
    BY <2>2, NoStreakType DEF Kept
  <2>5. Counters(ended) = <<over.hw_trip_active, over.episode_cycles, over.error_message, 0,
                            over.last_sample_ts>>
    BY <2>2, CounterSteps
  <2> HIDE DEF ended
  <2>6. Counters(r) = <<ended.hw_trip_active, ended.episode_cycles, FALSE, ended.low_samples,
                        ended.last_sample_ts>>
    BY <2>1, <2>4, CounterSteps
  <2>7. Counters(r) = <<FALSE, 0, FALSE, 0, tracked.last_sample_ts>>
    BY <2>3, <2>5, <2>6 DEF Counters
  <2> HIDE DEF looked, back, grace
  <2>8. /\ ~r.hw_trip_active /\ r.episode_cycles = 0 /\ ~r.error_message
        /\ r.low_samples = 0 /\ r.last_sample_ts = tracked.last_sample_ts
    BY <2>7 DEF Counters
  <2>9. Shown(r, s, back, looked, grace, ts)
    BY <1>2, <1>5, <2>1, <2>8 DEF Shown
  <2> QED
    BY <2>9 DEF r, looked, back, grace
<1>7. CASE ac /\ ~tracked.hw_trip_active
  <2>1. r = [tracked EXCEPT !.error_message = FALSE]
    BY <1>7 DEF Observe
  <2> HIDE DEF tracked, r
  <2>2. Counters(r) = <<tracked.hw_trip_active, tracked.episode_cycles, FALSE,
                        tracked.low_samples, tracked.last_sample_ts>>
    BY <1>3, <2>1, CounterSteps
  <2> HIDE DEF looked, back, grace
  <2>3. Shown(r, s, back, looked, grace, ts)
    BY <1>5, <1>7, <2>2 DEF Shown, Counters
  <2> QED
    BY <2>3 DEF r, looked, back, grace
<1>8. CASE ac /\ tracked.hw_trip_active
  <2>1. r = tracked
    BY <1>8 DEF Observe
  <2> HIDE DEF tracked, r, looked, back, grace
  <2>2. Shown(r, s, back, looked, grace, ts)
    BY <1>5, <1>8, <2>1 DEF Shown
  <2> QED
    BY <2>2 DEF r, looked, back, grace
<1> QED
  BY <1>6, <1>7, <1>8
-----------------------------------------------------------------------------
(* Cuts, badge and streak                                                  *)

\* The request of task k is with the bridge.
Written(k) == lock # <<>> /\ Head(lock) = k /\ phase # "connect"

\* Tasks of this episode whose AC-OFF command is still to be written.
Pending == {k \in episode : task[k].pc \in {"start", "off"} /\ ~Written(k)}

\* Cycles and badge exist only in an armed episode.
Armed ==
    /\ wd.hw_trip_active \/ wd.episode_cycles = 0
    /\ wd.error_message => wd.hw_trip_active

\* A cut is paid for by a cycle of the episode, before it is written and after.
Counted == IsFiniteSet(Pending) /\ cuts + Cardinality(Pending) <= wd.episode_cycles

\* Every sample of the streak is a frame of its own: time stamps only grow.
Streak ==
    /\ IsFiniteSet(lowFrames) /\ wd.low_samples <= Cardinality(lowFrames)
    /\ \A t \in lowFrames : t <= wd.last_sample_ts
    /\ frame.out # "none" => wd.last_sample_ts <= frame.ts
    /\ wd.last_sample_ts <= mirror.ts /\ frame.ts <= mirror.ts

EpisodeInv == Armed /\ Counted /\ Streak

LEMMA EpisodeInit == Init => EpisodeInv
<1> SUFFICES ASSUME Init PROVE EpisodeInv
  OBVIOUS
<1>1. Pending = {} /\ lowFrames = {} /\ cuts = 0
  BY DEF Init, Pending
<1>2. IsFiniteSet({}) /\ Cardinality({}) = 0
  BY FS_EmptySet
<1>3. wd = NewState /\ frame = NoFrame /\ mirror = NoFrame
  BY DEF Init
<1> QED
  BY <1>1, <1>2, <1>3 DEF EpisodeInv, Armed, Counted, Streak, NewState, NoFrame

LEMMA PendingShrinks ==
    ASSUME episode \subseteq Cycles, episode' = episode,
           \A k \in Cycles : task'[k].pc \in {"start", "off"} =>
                task[k].pc \in {"start", "off"} /\ (Written(k) => Written(k)')
    PROVE  Pending' \subseteq Pending
BY DEF Pending

LEMMA CountedKept ==
    ASSUME TypeOK, TypeOK', Counted, Pending' \subseteq Pending, cuts' = cuts,
           wd'.episode_cycles = wd.episode_cycles
    PROVE  Counted'
<1>1. IsFiniteSet(Pending') /\ Cardinality(Pending') <= Cardinality(Pending)
  BY FS_Subset DEF Counted
<1>2. Cardinality(Pending') \in Nat /\ Cardinality(Pending) \in Nat
  BY <1>1, FS_CardinalityType DEF Counted
<1>3. cuts \in Nat /\ wd.episode_cycles \in Nat
  BY WatchdogAssumption DEF TypeOK, WatchdogState, WatchdogAssumption
<1> QED
  BY <1>1, <1>2, <1>3 DEF Counted

\* The operator or a restart clears the record.
LEMMA CountedCleared ==
    ASSUME TypeOK', cuts' = 0, episode' = {}
    PROVE  Counted'
<1>1. Pending' = {}
  BY DEF Pending
<1>2. wd'.episode_cycles \in Nat
  BY WatchdogAssumption DEF TypeOK, WatchdogState, WatchdogAssumption
<1> QED
  BY <1>1, <1>2, FS_EmptySet DEF Counted

LEMMA CountedByRpcWrite ==
    ASSUME TypeOK, TypeOK', Counted, RpcWrite
    PROVE  Counted'
<1> USE RecoveryAssumption DEF RecoveryAssumption
<1> DEFINE h == Head(lock)
<1>1. /\ lock # <<>> /\ Served(h) /\ phase = "connect" /\ phase' = "written"
      /\ UNCHANGED <<lock, task, episode, wd>>
  BY DEF RpcWrite
<1>2. cuts' = IF h \in episode /\ ~Command(h) THEN cuts + 1 ELSE cuts
  BY DEF RpcWrite
<1>3. Pending' \subseteq Pending
  BY <1>1, PendingShrinks DEF Written, TypeOK
<1>4. CASE h \in episode /\ ~Command(h)
  <2>1. h \in Cycles /\ task[h].pc = "off"
    BY <1>1, <1>4 DEF Command, Served, TypeOK
  <2>2. h \in Pending /\ Pending' = Pending \ {h}
    BY <1>1, <1>4, <2>1 DEF Pending, Written
  <2>3. /\ IsFiniteSet(Pending') /\ Cardinality(Pending') = Cardinality(Pending) - 1
        /\ Cardinality(Pending) \in Nat
    BY <2>2, FS_RemoveElement, FS_CardinalityType DEF Counted
  <2>4. cuts \in Nat /\ wd.episode_cycles \in Nat
    BY WatchdogAssumption DEF TypeOK, WatchdogState, WatchdogAssumption
  <2> QED
    BY <1>1, <1>2, <1>4, <2>3, <2>4 DEF Counted
<1>5. CASE ~(h \in episode /\ ~Command(h))
  BY <1>1, <1>2, <1>3, <1>5, CountedKept
<1> QED
  BY <1>4, <1>5

\* The counters of the watchdog are not touched.
LEMMA StreakKept ==
    ASSUME TypeOK, TypeOK', Streak, lowFrames' = lowFrames,
           wd'.low_samples = wd.low_samples, wd'.last_sample_ts = wd.last_sample_ts,
           \/ mirror' = mirror /\ frame' \in {frame, mirror, NoFrame}
           \/ mirror'.ts = now /\ mirror.ts < now /\ frame' = frame
    PROVE  Streak'
<1>1. /\ mirror.ts \in Nat /\ frame.ts \in Nat /\ now \in Nat
      /\ wd.last_sample_ts \in Nat /\ NoFrame.ts = 0 /\ NoFrame.out = "none"
  BY DEF TypeOK, Frames, WatchdogState, NoFrame
<1> QED
  BY <1>1 DEF Streak

\* The streak is forgotten: the record is cleared, or a user's OFF is served.
LEMMA StreakCleared ==
    ASSUME TypeOK, TypeOK', Streak, lowFrames' = {}, wd'.low_samples = 0,
           wd'.last_sample_ts \in {0, wd.last_sample_ts}, mirror' = mirror,
           frame' \in {frame, NoFrame}
    PROVE  Streak'
<1>1. /\ mirror.ts \in Nat /\ frame.ts \in Nat
      /\ wd.last_sample_ts \in Nat /\ NoFrame.ts = 0 /\ NoFrame.out = "none"
  BY DEF TypeOK, Frames, WatchdogState, NoFrame
<1>2. IsFiniteSet({}) /\ Cardinality({}) = 0
  BY FS_EmptySet
<1> QED
  BY <1>1, <1>2 DEF Streak
LEMMA CommitCounters ==
    ASSUME NEW s \in WatchdogState, NEW t \in Nat
    PROVE  LET a == Decide(s, t)
               c == Commit(s, a, t)
           IN  /\ c.hw_trip_active = s.hw_trip_active
               /\ c.low_samples = s.low_samples /\ c.last_sample_ts = s.last_sample_ts
               /\ c.episode_cycles = IF a = "cycle" THEN s.episode_cycles + 1
                                     ELSE s.episode_cycles
               /\ c.error_message = IF a = "error" THEN TRUE ELSE s.error_message
               /\ a \in {"cycle", "error"} => s.hw_trip_active
<1>1. CASE Decide(s, t) = "cycle"
  <2>1. s.hw_trip_active
    BY <1>1, CycleDecision
  <2>2. Commit(s, Decide(s, t), t)
          = [s EXCEPT !.last_attempt_ts = t, !.episode_cycles = s.episode_cycles + 1]
    BY <1>1 DEF Commit, WatchdogState
  <2> QED
    BY <1>1, <2>1, <2>2 DEF WatchdogState
<1>2. CASE Decide(s, t) = "error"
  <2>1. s.hw_trip_active
    BY <1>2 DEF Decide
  <2> QED
    BY <1>2, <2>1 DEF Commit, WatchdogState
<1>3. CASE Decide(s, t) \notin {"cycle", "error"}
  BY <1>3 DEF Commit
<1> QED
  BY <1>1, <1>2, <1>3

\* A frame is evaluated: no cut is pending then, so a cycle that is started
\* is the only one unpaid for, and the streak grows by new frames only.
LEMMA EpisodeTick ==
    ASSUME TypeOK, TypeOK', InTurn, EpisodeInv, WatchdogTick
    PROVE  /\ EpisodeInv'
           /\ ~wd.hw_trip_active /\ wd'.hw_trip_active =>
                Cardinality(lowFrames') >= COLLAPSE_MIN_SAMPLES
           /\ wd.error_message /\ ~wd'.error_message =>
                ~frame.ac \/ frame.out \in {"mid", "high"}
<1> DEFINE seen == Observe(wd, frame.ac, frame.out, frame.ts, floorSet, now)
           action == Decide(seen, now)
           grace  == GraceActive(wd, now)
           looked == Looked(wd, frame.out, frame.ts, floorSet, now)
           back   == Back(wd, frame.ac, frame.out, frame.ts, floorSet, now)
<1>1. /\ wd \in WatchdogState /\ now \in Nat /\ frame \in Frames /\ mirror \in Frames
      /\ cuts \in Nat /\ lowFrames \subseteq Nat /\ episode \subseteq Cycles
      /\ wd.episode_cycles \in Nat /\ wd.low_samples \in Nat /\ wd.last_sample_ts \in Nat
      /\ frame.ts \in Nat /\ mirror.ts \in Nat
      /\ frame.ac \in BOOLEAN /\ frame.out \in Outputs /\ floorSet \in BOOLEAN
  <2>1. /\ wd \in WatchdogState /\ now \in Nat /\ frame \in Frames /\ mirror \in Frames
        /\ cuts \in Nat /\ lowFrames \subseteq Nat /\ episode \subseteq Cycles
        /\ floorSet \in BOOLEAN
    BY DEF TypeOK
  <2>2. wd.episode_cycles \in Nat /\ wd.low_samples \in Nat /\ wd.last_sample_ts \in Nat
    BY <2>1, WatchdogAssumption DEF WatchdogState, WatchdogAssumption
  <2> QED
    BY <2>1, <2>2 DEF Frames
<1>2. poll = "frame" /\ frame' = NoFrame /\ UNCHANGED <<lock, phase, mirror>>
  BY DEF WatchdogTick, PollSleep, rpcVars, deviceVars
<1>3. Pending = {} /\ \A k \in Cycles : task[k].pc \notin {"start", "off"}
  BY <1>1, <1>2 DEF InTurn, TurnOf, Pending
<1>4. NoFrame.ts = 0 /\ NoFrame.out = "none"
  BY DEF NoFrame
<1>5. CASE ~enabled
  <2>1. UNCHANGED <<wd, task, cuts, episode, lowFrames>>
    BY <1>5 DEF WatchdogTick, historyVars
  <2>2. Pending' = Pending
    BY <1>2, <2>1 DEF Pending, Written
  <2>3. Counted' /\ Streak'
    BY <1>2, <2>1, <2>2, CountedKept, StreakKept DEF EpisodeInv
  <2> QED
    BY <2>1, <2>3 DEF EpisodeInv, Armed
<1>6. CASE enabled
  <2>1. /\ wd' = Commit(seen, action, now) /\ NoteFrame(wd)
        /\ action = "cycle" =>
             \E k \in Cycles \ (Live \cup Range(lock)) :
                /\ task' = [task EXCEPT ![k] = [pc |-> "start", gen |-> gen, wake |-> 0]]
                /\ episode' = episode \cup {k}
        /\ action # "cycle" => UNCHANGED <<task, episode>>
    BY <1>6 DEF WatchdogTick
  <2>2. seen \in WatchdogState
    BY <1>1, ObserveType DEF Kept, Frames, TypeOK
  <2>3. Shown(seen, wd, back, looked, grace, frame.ts)
    <3>1. /\ wd.hw_trip_active \/ wd.episode_cycles = 0
          /\ wd.error_message => wd.hw_trip_active
      BY DEF EpisodeInv, Armed
    <3> QED
      BY <1>1, <3>1, ObserveShown
  <2>4. /\ cuts' = IF back THEN 0 ELSE cuts
        /\ lowFrames' = IF back \/ grace THEN {}
                        ELSE IF looked THEN lowFrames \cup {frame.ts} ELSE lowFrames
    BY <2>1 DEF NoteFrame, Looked, Back
  <2> HIDE DEF seen
  <2>5. /\ wd'.hw_trip_active = seen.hw_trip_active
        /\ wd'.low_samples = seen.low_samples /\ wd'.last_sample_ts = seen.last_sample_ts
        /\ wd'.episode_cycles = IF action = "cycle" THEN seen.episode_cycles + 1
                                ELSE seen.episode_cycles
        /\ wd'.error_message = IF action = "error" THEN TRUE ELSE seen.error_message
        /\ action \in {"cycle", "error"} => seen.hw_trip_active
    <3>1. now \in Nat
      BY <1>1
    <3> QED
      BY <2>1, <2>2, <3>1, CommitCounters
  <2>6. looked => frame.ts > wd.last_sample_ts /\ frame.ts \notin lowFrames
    BY <1>1 DEF EpisodeInv, Streak, Looked
  <2>7. seen.episode_cycles \in Nat /\ seen.low_samples \in Nat
    BY <2>2, WatchdogAssumption DEF WatchdogState, WatchdogAssumption
  <2> HIDE DEF action, looked, back, grace
  <2>8. Armed'
    BY <2>3, <2>5 DEF Shown, Armed
  <2>9. Counted'
    <3>1. CASE action = "cycle"
      <4>1. PICK k \in Cycles :
               /\ task' = [task EXCEPT ![k] = [pc |-> "start", gen |-> gen, wake |-> 0]]
               /\ episode' = episode \cup {k}
        BY <2>1, <3>1
      <4>2. \A j \in Cycles \ {k} : task'[j] = task[j]
        BY <4>1 DEF TypeOK
      <4>3. Pending' \subseteq {k}
        BY <1>1, <1>3, <4>1, <4>2 DEF Pending
      <4>4. IsFiniteSet(Pending') /\ Cardinality(Pending') \in 0 .. 1
        <5>1. IsFiniteSet({k}) /\ Cardinality({k}) = 1
          BY FS_Singleton
        <5>2. IsFiniteSet(Pending') /\ Cardinality(Pending') <= 1
          BY <4>3, <5>1, FS_Subset
        <5> QED
          BY <5>2, FS_CardinalityType
      <4>5. ~back /\ cuts' = cuts /\ wd'.episode_cycles = wd.episode_cycles + 1
        BY <2>3, <2>4, <2>5, <3>1 DEF Shown
      <4>6. cuts <= wd.episode_cycles
        BY <1>1, <1>3, FS_EmptySet DEF EpisodeInv, Counted
      <4> QED
        BY <1>1, <4>4, <4>5, <4>6 DEF Counted
    <3>2. CASE action # "cycle"
      <4>1. Pending' = {}
        BY <1>1, <1>3, <2>1, <3>2 DEF Pending
      <4>2. cuts <= wd.episode_cycles
        BY <1>1, <1>3, FS_EmptySet DEF EpisodeInv, Counted
      <4>3. cuts' \in Nat /\ cuts' <= wd'.episode_cycles
        BY <1>1, <2>3, <2>4, <2>5, <3>2, <4>2 DEF Shown
      <4> QED
        BY <4>1, <4>3, FS_EmptySet DEF Counted
    <3> QED
      BY <3>1, <3>2
  <2>10. IsFiniteSet(lowFrames') /\ wd'.low_samples <= Cardinality(lowFrames')
    <3>1. IsFiniteSet(lowFrames) /\ Cardinality(lowFrames) \in Nat
      BY FS_CardinalityType DEF EpisodeInv, Streak
    <3>2. CASE back \/ grace
      BY <2>3, <2>4, <2>5, <3>2, FS_EmptySet DEF Shown
    <3>3. CASE ~(back \/ grace) /\ looked
      <4>1. /\ IsFiniteSet(lowFrames \cup {frame.ts})
            /\ Cardinality(lowFrames \cup {frame.ts}) = Cardinality(lowFrames) + 1
        BY <2>6, <3>1, <3>3, FS_AddElement
      <4> QED
        BY <1>1, <2>3, <2>4, <2>5, <2>7, <3>1, <3>3, <4>1 DEF Shown, EpisodeInv, Streak
    <3>4. CASE ~(back \/ grace) /\ ~looked
      BY <1>1, <2>3, <2>4, <2>5, <2>7, <3>1, <3>4 DEF Shown, EpisodeInv, Streak
    <3> QED
      BY <3>2, <3>3, <3>4
  <2>11. Streak'
    <3>1. wd'.last_sample_ts \in {wd.last_sample_ts, frame.ts}
          /\ (looked => wd'.last_sample_ts = frame.ts)
          /\ wd'.last_sample_ts >= wd.last_sample_ts
      BY <1>1, <2>3, <2>5, <2>6 DEF Shown
    <3>2. \A t \in lowFrames' : t <= wd'.last_sample_ts
      <4>1. \A t \in lowFrames : t <= wd.last_sample_ts /\ t \in Nat
        BY <1>1 DEF EpisodeInv, Streak
      <4>2. \A t \in lowFrames : t <= wd'.last_sample_ts
        BY <1>1, <3>1, <4>1
      <4>3. CASE back \/ grace
        BY <2>4, <4>3
      <4>4. CASE ~(back \/ grace) /\ looked
        <5>1. lowFrames' = lowFrames \cup {frame.ts} /\ wd'.last_sample_ts = frame.ts
          BY <2>4, <3>1, <4>4
        <5> QED
          BY <1>1, <4>2, <5>1
      <4>5. CASE ~(back \/ grace) /\ ~looked
        BY <2>4, <4>2, <4>5
      <4> QED
        BY <4>3, <4>4, <4>5
    <3> QED
      BY <1>1, <1>2, <1>4, <2>10, <3>1, <3>2 DEF EpisodeInv, Streak
  <2>12. ASSUME ~wd.hw_trip_active, wd'.hw_trip_active
         PROVE  Cardinality(lowFrames') >= COLLAPSE_MIN_SAMPLES
    <3>1. wd'.low_samples >= COLLAPSE_MIN_SAMPLES /\ wd'.low_samples \in Nat
      BY <2>3, <2>5, <2>7, <2>12 DEF Shown
    <3>2. Cardinality(lowFrames') \in Nat /\ COLLAPSE_MIN_SAMPLES \in Nat
      BY <2>10, FS_CardinalityType, WatchdogAssumption DEF WatchdogAssumption
    <3> QED
      BY <2>10, <3>1, <3>2
  <2>13. ASSUME wd.error_message, ~wd'.error_message
         PROVE  ~frame.ac \/ frame.out \in {"mid", "high"}
    BY <2>3, <2>5, <2>13 DEF Shown, back, Back
  <2> QED
    BY <2>8, <2>9, <2>11, <2>12, <2>13 DEF EpisodeInv
<1> QED
  BY <1>5, <1>6 DEF TypeOK
\* A step that neither evaluates a frame nor clears the record.
LEMMA QuietStep ==
    ASSUME TypeOK, TypeOK', EpisodeInv, UNCHANGED <<cuts, episode, lowFrames>>,
           wd'.hw_trip_active = wd.hw_trip_active, wd'.episode_cycles = wd.episode_cycles,
           wd'.error_message = wd.error_message, wd'.low_samples = wd.low_samples,
           wd'.last_sample_ts = wd.last_sample_ts,
           \/ mirror' = mirror /\ frame' \in {frame, mirror, NoFrame}
           \/ mirror'.ts = now /\ mirror.ts < now /\ frame' = frame,
           \A k \in Cycles : task'[k].pc \in {"start", "off"} =>
                task[k].pc \in {"start", "off"} /\ (Written(k) => Written(k)')
    PROVE  EpisodeInv'
<1>1. Counted'
  BY PendingShrinks, CountedKept DEF TypeOK, EpisodeInv
<1>2. Streak'
  BY StreakKept DEF EpisodeInv
<1> QED
  BY <1>1, <1>2 DEF EpisodeInv, Armed

LEMMA EpisodeCycleStep ==
    ASSUME TypeOK, TypeOK', InTurn, EpisodeInv, NEW k \in Cycles, CycleStep(k)
    PROVE  EpisodeInv'
<1> USE DEF deviceVars, rpcVars, pollVars, configVars, historyVars
<1>0. task \in [Cycles -> TaskRecords] /\ lock \in Seq(Parties)
  BY DEF TypeOK, TaskRecords
<1>1. UNCHANGED <<cuts, episode, lowFrames, wd, mirror, frame>>
  BY DEF CycleStep, CycleStart, CycleWake, Proceed, CycleReply, CycleError, CancelDelivered
<1>2. ASSUME NEW j \in Cycles, task'[j].pc \in {"start", "off"}
      PROVE  task[j].pc \in {"start", "off"} /\ (Written(j) => Written(j)')
  <2>1. ASSUME task' = [task EXCEPT ![k] = NoTask] PROVE j # k /\ task'[j] = task[j]
    BY <1>0, <1>2, <2>1 DEF NoTask
  <2>2. ASSUME NEW pc \in {"off", "on"}, Proceed(k, pc), task[k].pc \in {"start", "sleep"},
               pc = "off" => task[k].pc = "start"
        PROVE  task[j].pc \in {"start", "off"} /\ (Written(j) => Written(j)')
    <3>1. CASE RecoveryStillAllowed(k)
      <4>1. /\ task' = [task EXCEPT ![k].pc = pc] /\ lock' = Append(lock, k)
            /\ phase' = phase
        BY <2>2, <3>1 DEF Proceed, Enqueue
      <4>2. task'[k].pc = pc /\ (j # k => task'[j] = task[j])
        BY <1>0, <4>1 DEF TaskRecords
      <4>3. Written(j) => Written(j)'
        <5>1. k \in Parties
          BY DEF Parties
        <5> QED
          BY <1>0, <4>1, <5>1 DEF Written
      <4> QED
        BY <1>2, <2>2, <4>2, <4>3
    <3>2. CASE ~RecoveryStillAllowed(k)
      BY <2>1, <1>2, <2>2, <3>2 DEF Proceed, EndTask, Written
    <3> QED
      BY <3>1, <3>2
  <2>3. CASE CycleReply(k)
    <3>1. lock # <<>> /\ Head(lock) = k
      BY <2>3 DEF CycleReply, Holder
    <3>2. j # k /\ task'[j] = task[j]
      <4>1. \/ task' = [task EXCEPT ![k].pc = "sleep", ![k].wake = now + PAUSE_S]
            \/ task' = [task EXCEPT ![k] = NoTask]
        BY <2>3 DEF CycleReply, EndTask
      <4> QED
        BY <1>0, <1>2, <2>1, <4>1 DEF TaskRecords
    <3> QED
      BY <1>2, <3>1, <3>2 DEF Written
  <2>4. CASE CycleError(k)
    <3>1. lock # <<>> /\ Head(lock) = k /\ task' = [task EXCEPT ![k] = NoTask]
      BY <2>4 DEF CycleError, EndTask, Holder
    <3> QED
      BY <1>2, <2>1, <3>1 DEF Written
  <2>5. CASE CancelDelivered(k)
    <3>1. /\ task' = [task EXCEPT ![k] = NoTask] /\ lock' = lock
          /\ phase' = IF lock # <<>> /\ Head(lock) \in {k} THEN "connect" ELSE phase
      BY <2>5 DEF CancelDelivered, EndTask, Cancel
    <3> QED
      BY <1>2, <2>1, <3>1 DEF Written
  <2> QED
    BY <2>2, <2>3, <2>4, <2>5 DEF CycleStep, CycleStart, CycleWake
<1> QED
  BY <1>1, <1>2, QuietStep

LEMMA EpisodeUserStep ==
    ASSUME TypeOK, TypeOK', EpisodeInv, NEW u \in Tokens, UserStep(u)
    PROVE  EpisodeInv'
<1> USE RecoveryAssumption DEF RecoveryAssumption
<1> USE DEF deviceVars, rpcVars, pollVars, configVars, historyVars
<1>0. /\ lock \in Seq(Parties) /\ u \in Parties /\ u \notin Cycles /\ now \in Nat
      /\ wd \in WatchdogState
  BY DEF TypeOK, Parties
<1>1. CASE UserOn(u)
  <2>1. /\ UNCHANGED <<cuts, episode, lowFrames, wd, mirror, frame, task, phase>>
        /\ lock' = Append(lock, u)
    BY <1>1 DEF UserOn, Enqueue
  <2>2. \A k \in Cycles : Written(k) => Written(k)'
    BY <1>0, <2>1 DEF Written
  <2> QED
    BY <2>1, <2>2, QuietStep
<1>2. CASE UserOff(u)
  <2>1. /\ UNCHANGED <<cuts, episode, lowFrames, mirror, frame>>
        /\ task' = [k \in Cycles |-> NoTask]
        /\ wd' = [wd EXCEPT !.pending_user_off_intents = @ \cup {u}]
    BY <1>2, Zenon DEF UserOff
  <2>2. \A k \in Cycles : task'[k].pc = "none"
    BY <2>1 DEF NoTask
  <2>3. /\ wd'.hw_trip_active = wd.hw_trip_active /\ wd'.episode_cycles = wd.episode_cycles
        /\ wd'.error_message = wd.error_message /\ wd'.low_samples = wd.low_samples
        /\ wd'.last_sample_ts = wd.last_sample_ts
    BY <1>0, <2>1 DEF WatchdogState
  <2> QED
    BY <2>1, <2>2, <2>3, QuietStep
<1>3. ASSUME NEW ok \in BOOLEAN, UserEnd(u, ok) PROVE EpisodeInv'
  <2> DEFINE stamped == IF ok /\ req[u] = "off" THEN RecordUserOff(wd, now) ELSE wd
  <2>1. /\ UNCHANGED <<cuts, episode, lowFrames, mirror, frame, task>>
        /\ lock # <<>> /\ Head(lock) = u
        /\ wd' = [stamped EXCEPT !.pending_user_off_intents = @ \ {u}]
    BY <1>3, Zenon DEF UserEnd, Holder
  <2>2. /\ stamped \in WatchdogState
        /\ stamped.hw_trip_active = wd.hw_trip_active
        /\ stamped.episode_cycles = wd.episode_cycles
        /\ stamped.error_message = wd.error_message /\ stamped.low_samples = wd.low_samples
        /\ stamped.last_sample_ts = wd.last_sample_ts
    BY <1>0 DEF RecordUserOff, WatchdogState
  <2> HIDE DEF stamped
  <2>3. /\ wd'.hw_trip_active = wd.hw_trip_active /\ wd'.episode_cycles = wd.episode_cycles
        /\ wd'.error_message = wd.error_message /\ wd'.low_samples = wd.low_samples
        /\ wd'.last_sample_ts = wd.last_sample_ts
    BY <2>1, <2>2 DEF WatchdogState
  <2>4. \A k \in Cycles : ~Written(k)
    BY <1>0, <2>1 DEF Written
  <2> QED
    BY <2>1, <2>3, <2>4, QuietStep
<1> QED
  BY <1>1, <1>2, <1>3 DEF UserStep

LEMMA EpisodeKept == TypeOK /\ TypeOK' /\ InTurn /\ EpisodeInv /\ [Next]_vars => EpisodeInv'
<1> SUFFICES ASSUME TypeOK, TypeOK', InTurn, EpisodeInv, [Next]_vars PROVE EpisodeInv'
  OBVIOUS
<1> USE RecoveryAssumption DEF RecoveryAssumption
<1> USE DEF deviceVars, rpcVars, pollVars, configVars, historyVars
<1>0. lock \in Seq(Parties) /\ POLL \in Parties /\ POLL \notin Cycles /\ wd \in WatchdogState
  BY DEF TypeOK, Parties
<1>1. ASSUME UNCHANGED <<cuts, episode, lowFrames, wd, task>>,
             \/ mirror' = mirror /\ frame' \in {frame, mirror, NoFrame}
             \/ mirror'.ts = now /\ mirror.ts < now /\ frame' = frame,
             \A k \in Cycles : task[k].pc \in {"start", "off"} => (Written(k) => Written(k)')
      PROVE  EpisodeInv'
  BY <1>1, QuietStep
<1>2. CASE \/ ClockTick \/ DeviceApply \/ DeviceDisturbed \/ RpcPublish \/ OrphanPublish
           \/ (\E on \in BOOLEAN : SetEnabled(on)) \/ DisableCancel \/ DismissCancel
           \/ SetFloor \/ UNCHANGED vars
  <2>1. /\ UNCHANGED <<cuts, episode, lowFrames, wd, task, mirror, frame, lock>>
        /\ phase' = phase \/ phase' = "published"
    BY <1>2 DEF ClockTick, DeviceApply, DeviceDisturbed, RpcPublish, OrphanPublish,
         SetEnabled, DisableCancel, DismissCancel, CancelSoon, SetFloor, vars
  <2>2. \A k \in Cycles : Written(k) => Written(k)'
    BY <2>1 DEF Written
  <2> QED
    BY <1>1, <2>1, <2>2
<1>3. CASE Push
  <2>1. /\ UNCHANGED <<cuts, episode, lowFrames, wd, task, frame, lock, phase>>
        /\ mirror.ts < now /\ mirror'.ts = now
    BY <1>3 DEF Push
  <2>2. \A k \in Cycles : Written(k) => Written(k)'
    BY <2>1 DEF Written
  <2> QED
    BY <1>1, <2>1, <2>2
<1>4. CASE LockPass
  <2>1. /\ UNCHANGED <<cuts, episode, lowFrames, wd, task, mirror, frame>>
        /\ lock # <<>> /\ Head(lock) \in Cycles
        /\ task[Head(lock)].pc \notin {"off", "on"}
    BY <1>4 DEF LockPass, Served
  <2>2. Head(lock) \in Range(lock)
    BY <1>0, <2>1, Left
  <2>3. \A k \in Cycles : task[k].pc \in {"start", "off"} => ~Written(k)
    BY <2>1, <2>2 DEF Written, InTurn, TurnOf
  <2> QED
    BY <1>1, <2>1, <2>3
<1>5. CASE RpcWrite
  <2>1. /\ UNCHANGED <<lowFrames, wd, mirror>>
        /\ frame' \in {frame, mirror}
    BY <1>5 DEF RpcWrite
  <2>2. Counted'
    BY <1>5, CountedByRpcWrite DEF EpisodeInv
  <2>3. Streak'
    BY <2>1, StreakKept DEF EpisodeInv
  <2> QED
    BY <2>1, <2>2, <2>3 DEF EpisodeInv, Armed
<1>6. CASE PollStart
  <2>1. /\ UNCHANGED <<cuts, episode, lowFrames, wd, task, mirror, frame, phase>>
        /\ lock' = Append(lock, POLL)
    BY <1>6 DEF PollStart, Enqueue
  <2>2. \A k \in Cycles : Written(k) => Written(k)'
    BY <1>0, <2>1 DEF Written
  <2> QED
    BY <1>1, <2>1, <2>2
<1>7. CASE PollReply \/ PollError
  <2>1. /\ UNCHANGED <<cuts, episode, lowFrames, wd, task, mirror>>
        /\ lock # <<>> /\ Head(lock) = POLL /\ frame' \in {frame, NoFrame}
    BY <1>7 DEF PollReply, PollError, PollSleep, Holder
  <2>2. \A k \in Cycles : ~Written(k)
    BY <1>0, <2>1 DEF Written
  <2> QED
    BY <1>1, <2>1, <2>2
<1>8. CASE WatchdogTick
  BY <1>8, EpisodeTick
<1>9. ASSUME NEW s \in WatchdogState, wd' = s, ~s.hw_trip_active, s.episode_cycles = 0,
             ~s.error_message, s.low_samples = 0, s.last_sample_ts \in {0, wd.last_sample_ts},
             cuts' = 0, episode' = {}, lowFrames' = {}, mirror' = mirror,
             frame' \in {frame, NoFrame}
      PROVE  EpisodeInv'
  <2>1. Counted'
    BY <1>9, CountedCleared
  <2>2. Streak'
    BY <1>9, StreakCleared DEF EpisodeInv
  <2> QED
    BY <1>9, <2>1, <2>2 DEF EpisodeInv, Armed
<1>10. CASE DisableReset \/ Restart
  <2>1. /\ wd' \in {ResetState(wd), NewState} /\ cuts' = 0 /\ episode' = {} /\ lowFrames' = {}
        /\ mirror' = mirror /\ frame' \in {frame, NoFrame}
    BY <1>10 DEF DisableReset, Restart
  <2>2. /\ wd' \in WatchdogState /\ ~wd'.hw_trip_active /\ wd'.episode_cycles = 0
        /\ ~wd'.error_message /\ wd'.low_samples = 0 /\ wd'.last_sample_ts = 0
    <3>1. /\ ~NewState.hw_trip_active /\ NewState.episode_cycles = 0
          /\ ~NewState.error_message /\ NewState.low_samples = 0 /\ NewState.last_sample_ts = 0
      BY DEF NewState
    <3>2. \A I : LET r == [NewState EXCEPT !.pending_user_off_intents = I]
                 IN  /\ ~r.hw_trip_active /\ r.episode_cycles = 0
                     /\ ~r.error_message /\ r.low_samples = 0 /\ r.last_sample_ts = 0
      BY NewStateType, <3>1 DEF WatchdogState
    <3> QED
      BY <1>0, <2>1, <3>1, <3>2, ResetType, NewStateType DEF ResetState
  <2> QED
    BY <1>9, <2>1, <2>2
<1>11. CASE DismissReset
  <2>1. /\ wd' = DismissError(wd) /\ cuts' = 0 /\ episode' = {} /\ lowFrames' = {}
        /\ mirror' = mirror /\ frame' = frame
    BY <1>11 DEF DismissReset
  <2> DEFINE over == NoEpisode(wd)
             ended == NoStreak(over)
             unpaced == [ended EXCEPT !.last_attempt_ts = 0]
  <2>2. wd' = [unpaced EXCEPT !.error_message = FALSE]
    BY <2>1 DEF DismissError
  <2>3. over \in WatchdogState /\ ~over.hw_trip_active /\ over.episode_cycles = 0
        /\ over.last_sample_ts = wd.last_sample_ts
    BY <1>0, NoEpisodeType, CounterSteps DEF Kept, Counters
  <2> HIDE DEF over
  <2>4. ended \in WatchdogState
    BY <2>3, NoStreakType DEF Kept
  <2>5. Counters(ended) = <<over.hw_trip_active, over.episode_cycles, over.error_message, 0,
                            over.last_sample_ts>>
    BY <2>3, CounterSteps
  <2> HIDE DEF ended
  <2>6. unpaced \in WatchdogState /\ Counters(unpaced) = Counters(ended)
    BY <2>4 DEF WatchdogState, Counters
  <2> HIDE DEF unpaced
  <2>7. Counters(wd') = <<unpaced.hw_trip_active, unpaced.episode_cycles, FALSE,
                          unpaced.low_samples, unpaced.last_sample_ts>>
    BY <2>2, <2>6, CounterSteps
  <2>8. /\ ~wd'.hw_trip_active /\ wd'.episode_cycles = 0 /\ ~wd'.error_message
        /\ wd'.low_samples = 0 /\ wd'.last_sample_ts = wd.last_sample_ts
    BY <2>3, <2>5, <2>6, <2>7 DEF Counters
  <2>9. wd' \in WatchdogState
    BY DEF TypeOK
  <2> QED
    BY <1>9, <2>1, <2>8, <2>9
<1> QED
  BY <1>2, <1>3, <1>4, <1>5, <1>6, <1>7, <1>8, <1>10, <1>11, EpisodeCycleStep, EpisodeUserStep
     DEF Next, RouteStep

LEMMA EpisodeInvariance == Spec => [](TypeOK /\ InTurn /\ EpisodeInv)
<1>1. Init => InTurn /\ EpisodeInv
  BY InTurnInit, EpisodeInit
<1>2. TypeOK /\ TypeOK' /\ InTurn /\ EpisodeInv /\ [Next]_vars => InTurn' /\ EpisodeInv'
  BY InTurnKept, EpisodeKept
<1> QED
  BY <1>1, <1>2, TypeCorrect, PTL DEF Spec

-----------------------------------------------------------------------------
(* What an episode may do to the house, and what the badge says            *)

\* At most MAX_CYCLES_PER_EPISODE AC-OFF commands of the recovery reach the
\* bridge between two moments at which the output was seen back or the
\* operator cleared the state, and the state stays well-formed.
THEOREM CutsBounded == Spec => []RecoveryInv
<1>1. TypeOK /\ EpisodeInv => RecoveryInv
  <2> SUFFICES ASSUME TypeOK, EpisodeInv PROVE CutsPerEpisode
    BY DEF RecoveryInv
  <2>1. Cardinality(Pending) \in Nat
    BY FS_CardinalityType DEF EpisodeInv, Counted
  <2>2. cuts \in Nat /\ wd.episode_cycles \in 0 .. MAX_CYCLES_PER_EPISODE
    BY DEF TypeOK, WatchdogState
  <2> QED
    BY <2>1, <2>2, WatchdogAssumption DEF EpisodeInv, Counted, CutsPerEpisode, WatchdogAssumption
<1> QED
  BY <1>1, EpisodeInvariance, PTL

\* The trip flag rises only when a frame is evaluated; the badge goes out only
\* then or when the operator or a restart clears the record.
LEMMA ArmedByTick ==
    ASSUME TypeOK, TypeOK', [Next]_vars, ~WatchdogTick
    PROVE  /\ wd'.hw_trip_active => wd.hw_trip_active
           /\ wd.error_message /\ ~wd'.error_message => route = "dismiss" \/ gen' # gen
<1> USE DEF deviceVars, rpcVars, pollVars, configVars, historyVars
<1>1. wd \in WatchdogState /\ wd' \in WatchdogState /\ now \in Nat
  BY DEF TypeOK
<1>2. CASE wd' = wd
  BY <1>2
<1>3. ASSUME NEW u \in Tokens, UserOff(u)
      PROVE  /\ wd'.hw_trip_active = wd.hw_trip_active
             /\ wd'.error_message = wd.error_message
  <2>1. wd' = [wd EXCEPT !.pending_user_off_intents = @ \cup {u}]
    BY <1>3, Zenon DEF UserOff
  <2> QED
    BY <1>1, <2>1 DEF WatchdogState
<1>4. ASSUME NEW u \in Tokens, NEW ok \in BOOLEAN, UserEnd(u, ok)
      PROVE  /\ wd'.hw_trip_active = wd.hw_trip_active
             /\ wd'.error_message = wd.error_message
  <2> DEFINE stamped == IF ok /\ req[u] = "off" THEN RecordUserOff(wd, now) ELSE wd
  <2>1. wd' = [stamped EXCEPT !.pending_user_off_intents = @ \ {u}]
    BY <1>4, Zenon DEF UserEnd
  <2>2. /\ stamped \in WatchdogState /\ stamped.hw_trip_active = wd.hw_trip_active
        /\ stamped.error_message = wd.error_message
    BY <1>1 DEF RecordUserOff, WatchdogState
  <2> HIDE DEF stamped
  <2> QED
    BY <2>1, <2>2 DEF WatchdogState
<1>5. CASE DisableReset \/ Restart \/ DismissReset
  <2>1. wd' \in {ResetState(wd), NewState, DismissError(wd)}
    BY <1>5 DEF DisableReset, Restart, DismissReset
  <2>2. ~ResetState(wd).hw_trip_active /\ ~NewState.hw_trip_active
    BY DEF ResetState, NewState
  <2>3. ~DismissError(wd).hw_trip_active
    BY <1>1 DEF DismissError, NoStreak, NoEpisode, WatchdogState
  <2>4. route = "dismiss" \/ gen' # gen
    <3>1. gen \in Nat
      BY DEF TypeOK
    <3> QED
      BY <1>5, <3>1 DEF DisableReset, Restart, DismissReset
  <2> QED
    BY <2>1, <2>2, <2>3, <2>4
<1>6. wd' = wd \/ DisableReset \/ Restart \/ DismissReset
        \/ (\E u \in Tokens : UserOff(u) \/ \E ok \in BOOLEAN : UserEnd(u, ok))
  BY Zenon DEF Next, UserStep, UserOn, RouteStep, SetEnabled, DisableCancel, DismissCancel,
       CancelSoon, SetFloor, ClockTick, DeviceApply, DeviceDisturbed, Push,
       LockPass, RpcWrite, RpcPublish, OrphanPublish, PollStart, PollReply, PollError,
       CycleStep, CycleStart, CycleWake, Proceed, CycleReply, CycleError, CancelDelivered, vars
<1> QED
  BY <1>2, <1>3, <1>4, <1>5, <1>6

\* A trip is declared only on COLLAPSE_MIN_SAMPLES frames with time stamps of
\* their own: a frame served again from the bridge's cache does not count.
THEOREM TripIsSeenOften == Spec => TripNeedsDistinctFrames
<1> DEFINE Step == ~wd.hw_trip_active /\ wd'.hw_trip_active
                     => Cardinality(lowFrames') >= COLLAPSE_MIN_SAMPLES
<1>1. TypeOK /\ TypeOK' /\ InTurn /\ EpisodeInv /\ [Next]_vars => [Step]_vars
  BY ArmedByTick, EpisodeTick
<1> QED
  BY <1>1, EpisodeInvariance, PTL DEF Spec, TripNeedsDistinctFrames
\* The badge "needs attention" goes out only on a frame that shows the output
\* back or the port off, or when the operator or a restart clears the record.
THEOREM BadgeStays == Spec => BadgeNotSilentlyWiped
<1> DEFINE Step == wd.error_message /\ ~wd'.error_message =>
                     \/ route = "dismiss" \/ gen' # gen
                     \/ poll = "frame" /\ (~frame.ac \/ frame.out \in {"mid", "high"})
<1>1. ASSUME TypeOK, TypeOK', InTurn, EpisodeInv, [Next]_vars PROVE Step
  <2>1. CASE WatchdogTick
    <3>1. poll = "frame"
      BY <2>1 DEF WatchdogTick
    <3> QED
      BY <1>1, <2>1, <3>1, EpisodeTick
  <2>2. CASE ~WatchdogTick
    BY <1>1, <2>2, ArmedByTick
  <2> QED
    BY <2>1, <2>2
<1>2. TypeOK /\ TypeOK' /\ InTurn /\ EpisodeInv /\ [Next]_vars => [Step]_vars
  BY <1>1
<1> QED
  BY <1>2, EpisodeInvariance, PTL DEF Spec, BadgeNotSilentlyWiped
=============================================================================

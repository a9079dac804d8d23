---------------------------- MODULE SiseliPublish ----------------------------
(***************************************************************************)
(* How decoded telemetry leaves the capture (siseli_local/parsers.py 715-  *)
(* 775, 2479-2541, core.py 737-807): the capture thread merges a payload   *)
(* and publishes it unless the throttle defers it, the health thread       *)
(* flushes what was deferred, sends heartbeats and revives a dead capture. *)
(* A snapshot is the number of payloads merged into it.                    *)
(***************************************************************************)
EXTENDS Integers

CONSTANTS
  UpdateInterval,  \* UPDATE_INTERVAL_SEC
  Heartbeat,       \* max(UPDATE_INTERVAL_SEC, EXPIRE_AFTER_SEC // 3); 0: none
  RestartLimit,    \* CAPTURE_RESTART_LIMIT
  MaxPayloads      \* bound

ASSUME PublishAssumption ==
  {UpdateInterval, Heartbeat, RestartLimit, MaxPayloads} \subseteq Nat

VARIABLES
  merged,    \* LAST_STATE
  retained,  \* last snapshot the sink took
  deferred,  \* PENDING_PUBLISH
  sinceSent, \* age of LAST_PUBLISH_TS, MaxAgeSent at most
  decoder,   \* the capture thread
  health,    \* the health thread
  sniffer,   \* "alive" or "dead"
  failures,  \* CAPTURE_FAILURES
  stopping   \* STOP_REQUESTED

publishVars == <<merged, retained, deferred, sinceSent, decoder, health, sniffer,
                 failures, stopping>>

MaxAgeSent == IF Heartbeat > UpdateInterval THEN Heartbeat ELSE UpdateInterval
Idle == [pc |-> "idle"]

\* Mutant: the sink is called after the lock is given back.
NeverLocked == FALSE

\* PUBLISH_LOCK, held from the snapshot to the sink's answer.
Locked == "publish" \in {decoder.pc, health.pc}

PublishInit ==
  /\ merged = 0 /\ retained = 0 /\ deferred = FALSE
  /\ sinceSent = MaxAgeSent
  /\ decoder = Idle /\ health = Idle
  /\ sniffer = "alive" /\ failures = 0 /\ stopping = FALSE

HeartbeatDue == Heartbeat > 0 /\ sinceSent >= Heartbeat
PendingDue == deferred /\ sinceSent >= UpdateInterval

\* The sink takes the snapshot, or refuses it: what it refuses it has lost
\* until the next one.
Handed(snapshot) ==
  /\ retained' \in {snapshot, retained}
  /\ deferred' = FALSE
  /\ sinceSent' = 0

\* update_state, outside the lock.
Merge ==
  /\ sniffer = "alive"
  /\ decoder = Idle
  /\ merged < MaxPayloads
  /\ merged' = merged + 1
  /\ decoder' = [pc |-> "merged"]
  /\ UNCHANGED <<retained, deferred, sinceSent, health, sniffer, failures, stopping>>

\* The lock is taken and the snapshot under it; a change is deferred when it
\* is too early.
TakeSnapshot ==
  /\ decoder.pc = "merged"
  /\ ~Locked
  /\ decoder' = IF sinceSent >= UpdateInterval
                THEN [pc |-> "publish", snapshot |-> merged] ELSE Idle
  /\ deferred' = TRUE
  /\ UNCHANGED <<merged, retained, sinceSent, health, sniffer, failures, stopping>>

PublishGroupedState ==
  /\ decoder.pc = "publish"
  /\ Handed(decoder.snapshot)
  /\ decoder' = Idle
  /\ UNCHANGED <<merged, health, sniffer, failures, stopping>>

\* Mutant: the window that ends is left to the next payload.
FlushHeartbeat == HeartbeatDue

\* publish_tick and republish_state: the check is made again under the lock.
FlushDue == HeartbeatDue \/ PendingDue

PublishTick ==
  /\ health.pc = "tick"
  /\ ~Locked
  /\ health' = IF FlushDue /\ merged > 0 THEN [pc |-> "publish", snapshot |-> merged] ELSE Idle
  /\ UNCHANGED <<merged, retained, deferred, sinceSent, decoder, sniffer, failures, stopping>>

Republish ==
  /\ health.pc = "publish"
  /\ Handed(health.snapshot)
  /\ health' = Idle
  /\ UNCHANGED <<merged, decoder, sniffer, failures, stopping>>

\* check_capture_thread, first in the tick: a dead thread is replaced, a few
\* times in a row, and then the bridge stops.
CheckCaptureThread ==
  /\ health = Idle
  /\ health' = [pc |-> "tick"]
  /\ IF sniffer = "alive" \/ stopping
     THEN /\ failures' = IF stopping THEN failures ELSE 0
          /\ UNCHANGED <<sniffer, stopping>>
     ELSE /\ failures' = failures + 1
          /\ \/ failures' < RestartLimit /\ sniffer' = "alive" /\ UNCHANGED stopping
             \/ stopping' = TRUE /\ UNCHANGED sniffer
  /\ UNCHANGED <<merged, retained, deferred, sinceSent, decoder>>

\* Between two payloads, or within one.
SnifferDies ==
  /\ sniffer = "alive"
  /\ decoder.pc # "publish"
  /\ sniffer' = "dead" /\ decoder' = Idle
  /\ UNCHANGED <<merged, retained, deferred, sinceSent, health, failures, stopping>>

PublishTime ==
  /\ sinceSent < MaxAgeSent
  /\ sinceSent' = sinceSent + 1
  /\ UNCHANGED <<merged, retained, deferred, decoder, health, sniffer, failures, stopping>>

HealthThread == CheckCaptureThread \/ PublishTick \/ Republish
CaptureThread == Merge \/ TakeSnapshot \/ PublishGroupedState

PublishNext == HealthThread \/ CaptureThread \/ SnifferDies \/ PublishTime

\* Both threads run; time passes; payloads and faults need not come.
PublishFairness ==
  /\ WF_publishVars(HealthThread)
  /\ WF_publishVars(TakeSnapshot) /\ WF_publishVars(PublishGroupedState)
  /\ WF_publishVars(PublishTime)

PublishSpec == PublishInit /\ [][PublishNext]_publishVars /\ PublishFairness

-----------------------------------------------------------------------------
\* The dashboard never goes back to an older snapshot (state.py 144-151: "a
\* total_increasing counter stepping backwards").
NeverOlder == [][retained' >= retained]_publishVars

\* A change that the throttle defers is offered to the sink even if no payload
\* ever follows (parsers.py 727-741), unless the stop was requested.
DeferredIsSent == deferred ~> (~deferred \/ stopping)
=============================================================================

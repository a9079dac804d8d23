-------------------------- MODULE InverterWatchdog --------------------------
(***************************************************************************)
(* The inverter recovery state machine of inverter_watchdog.py, as pure    *)
(* operators on a WatchdogState record.  The server drives it with one     *)
(* telemetry frame per poll tick (module InverterRecovery).                *)
(*                                                                         *)
(* Watts are abstracted to the four classes the code tells apart:          *)
(*   "high"  at or above OUTPUT_BASELINE_W                                 *)
(*   "low"   below the baseline and at or below the configured floor       *)
(*   "mid"   in between                                                    *)
(*   "none"  the frame carries no output reading                           *)
(* Time stamps are clock readings; 0 means "never", as in the code.        *)
(* consecutive_attempts only feeds log lines and is left out.              *)
(***************************************************************************)
EXTENDS Integers

CONSTANTS
    COLLAPSE_MIN_SAMPLES,     \* distinct low frames that make a streak
    COLLAPSE_MIN_DURATION_S,  \* time the streak must span
    ABRUPT_DROP_MAX_S,        \* longest baseline -> floor drop that is a trip
    MAX_CYCLES_PER_EPISODE,   \* off/on cycles before the badge latches
    RETRY_INTERVAL_S,         \* pacing between two cycles
    USER_GRACE_S,             \* suppression after a confirmed user OFF
    Tokens                    \* identities of concurrent user OFF requests

ASSUME WatchdogAssumption ==
    /\ COLLAPSE_MIN_SAMPLES \in Nat \ {0}
    /\ COLLAPSE_MIN_DURATION_S \in Nat
    /\ ABRUPT_DROP_MAX_S \in Nat
    /\ MAX_CYCLES_PER_EPISODE \in Nat \ {0}
    /\ RETRY_INTERVAL_S \in Nat \ {0}
    /\ USER_GRACE_S \in Nat

Outputs == {"high", "mid", "low", "none"}

Actions == {"idle", "cycle", "waiting", "user_grace", "error"}

WatchdogState ==
    [ last_high_output_ts : Nat,
      first_low_ts : Nat,
      low_samples : 0 .. COLLAPSE_MIN_SAMPLES,
      last_sample_ts : Nat,
      hw_trip_active : BOOLEAN,
      episode_cycles : 0 .. MAX_CYCLES_PER_EPISODE,
      last_attempt_ts : Nat,
      last_user_off_ts : Nat,
      pending_user_off_intents : SUBSET Tokens,
      error_message : BOOLEAN ]

NewState ==
    [ last_high_output_ts |-> 0, first_low_ts |-> 0, low_samples |-> 0,
      last_sample_ts |-> 0, hw_trip_active |-> FALSE, episode_cycles |-> 0,
      last_attempt_ts |-> 0, last_user_off_ts |-> 0,
      pending_user_off_intents |-> {}, error_message |-> FALSE ]

-----------------------------------------------------------------------------
(* _track_collapse                                                         *)

NoStreak(s) == [s EXCEPT !.first_low_ts = 0, !.low_samples = 0]

\* Mutant of NoEpisode: the pacing clock is reset with the episode.
NoEpisodeUnpaced(s) ==
    [s EXCEPT !.hw_trip_active = FALSE, !.episode_cycles = 0, !.last_attempt_ts = 0]

NoEpisode(s) == [s EXCEPT !.hw_trip_active = FALSE, !.episode_cycles = 0]

\* Any output above the floor ends the streak and a running episode.
OutputReturned(s) == NoStreak(IF s.hw_trip_active THEN NoEpisode(s) ELSE s)

\* low_samples is only compared with COLLAPSE_MIN_SAMPLES: it saturates there.
LowSample(s, now) ==
    [s EXCEPT !.first_low_ts = IF @ = 0 THEN now ELSE @,
              !.low_samples = IF @ < COLLAPSE_MIN_SAMPLES THEN @ + 1 ELSE @]

FullSignature(s, now) ==
    /\ s.low_samples >= COLLAPSE_MIN_SAMPLES
    /\ s.first_low_ts > 0
    /\ now - s.first_low_ts >= COLLAPSE_MIN_DURATION_S
    /\ s.last_high_output_ts > 0
    /\ s.first_low_ts - s.last_high_output_ts <= ABRUPT_DROP_MAX_S

\* Mutant of Arm: an armed episode is armed again.
Rearm(s, now) ==
    IF FullSignature(s, now)
    THEN [s EXCEPT !.hw_trip_active = TRUE, !.episode_cycles = 0]
    ELSE s

Arm(s, now) ==
    IF ~s.hw_trip_active /\ FullSignature(s, now)
    THEN [s EXCEPT !.hw_trip_active = TRUE, !.episode_cycles = 0]
    ELSE s

\* Mutant of TrackCollapse: a re-served cached frame counts again.
TrackReservedFrames(s, ac_on, output, sample_ts, floorSet, now) ==
    LET seen == [s EXCEPT !.last_sample_ts = sample_ts]
    IN  CASE ~floorSet \/ output = "none" -> s
          [] OTHER -> IF ac_on /\ output = "low" THEN Arm(LowSample(seen, now), now)
                      ELSE IF ac_on
                      THEN OutputReturned([seen EXCEPT !.last_high_output_ts = now])
                      ELSE NoStreak(seen)

\* Mutant of TrackCollapse: a frame without a reading counts as output.
TrackMissingReading(s, ac_on, output, sample_ts, floorSet, now) ==
    LET seen == [s EXCEPT !.last_sample_ts = sample_ts]
    IN  CASE ~floorSet \/ sample_ts = s.last_sample_ts -> s
          [] OTHER -> IF ~ac_on THEN NoStreak(seen)
                      ELSE IF output = "low" THEN Arm(LowSample(seen, now), now)
                      ELSE IF output = "high"
                      THEN OutputReturned([seen EXCEPT !.last_high_output_ts = now])
                      ELSE OutputReturned(seen)

TrackCollapse(s, ac_on, output, sample_ts, floorSet, now) ==
    LET seen == [s EXCEPT !.last_sample_ts = sample_ts]
    IN  CASE ~floorSet \/ output = "none" \/ sample_ts = s.last_sample_ts -> s
          [] OTHER ->
               CASE ~ac_on -> NoStreak(seen)
                 [] ac_on /\ output = "low" -> Arm(LowSample(seen, now), now)
                 [] ac_on /\ output = "mid" -> OutputReturned(seen)
                 [] OTHER -> OutputReturned(
                               [seen EXCEPT !.last_high_output_ts = now])

-----------------------------------------------------------------------------
(* evaluate, record_user_off, dismiss_error, reset_state                   *)

GraceActive(s, now) ==
    \/ s.pending_user_off_intents # {}
    \/ s.last_user_off_ts # 0 /\ now - s.last_user_off_ts < USER_GRACE_S

\* The state after the frame has been looked at, before a decision is taken.
Observe(s, ac_on, output, sample_ts, floorSet, now) ==
    LET tracked == IF GraceActive(s, now) THEN NoStreak(s)
                   ELSE TrackCollapse(s, ac_on, output, sample_ts, floorSet, now)
    IN  CASE ~ac_on -> [NoStreak(NoEpisode(tracked)) EXCEPT !.error_message = FALSE]
          [] ac_on /\ ~tracked.hw_trip_active ->
               [tracked EXCEPT !.error_message = FALSE]
          [] OTHER -> tracked

\* Mutant of Decide: the user's OFF is not looked at.
DecideInGrace(s, now) ==
    IF ~s.hw_trip_active THEN "idle"
    ELSE IF s.episode_cycles >= MAX_CYCLES_PER_EPISODE THEN "error"
    ELSE IF now - s.last_attempt_ts >= RETRY_INTERVAL_S THEN "cycle" ELSE "waiting"

\* The decision on an observed state.
Decide(s, now) ==
    CASE ~s.hw_trip_active -> "idle"
      [] s.hw_trip_active /\ GraceActive(s, now) -> "user_grace"
      [] OTHER ->
           CASE s.episode_cycles >= MAX_CYCLES_PER_EPISODE -> "error"
             [] s.episode_cycles < MAX_CYCLES_PER_EPISODE
                  /\ now - s.last_attempt_ts >= RETRY_INTERVAL_S -> "cycle"
             [] OTHER -> "waiting"

Commit(s, action, now) ==
    CASE action = "cycle" -> [s EXCEPT !.last_attempt_ts = now,
                                       !.episode_cycles = @ + 1]
      [] action = "error" -> [s EXCEPT !.error_message = TRUE]
      [] OTHER -> s

RecordUserOff(s, now) == [s EXCEPT !.last_user_off_ts = now]

DismissError(s) ==
    [NoStreak(NoEpisode(s)) EXCEPT !.last_attempt_ts = 0, !.error_message = FALSE]

\* reset_state: a fresh record that still owns the in-flight OFF intents.
ResetState(s) ==
    [NewState EXCEPT !.pending_user_off_intents = s.pending_user_off_intents]
=============================================================================

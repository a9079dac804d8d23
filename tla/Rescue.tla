------------------------------- MODULE Rescue -------------------------------
(***************************************************************************)
(* The dead-man rescue decision of rescue.py, as pure operators on a       *)
(* RescueState record.  States of charge are the levels the code tells     *)
(* apart, as integers.  Time stamps are kept as ages, capped at            *)
(* STALE_FIRE_S: the code only ever asks whether a reading is that old.    *)
(***************************************************************************)
EXTENDS Integers

CONSTANTS
    Levels,             \* battery levels, main unit and whole system
    ARM_MAIN_SOC_PCT,   \* a main reading at or below it calls for the rescue
    CLEAR_SOC_PCT,      \* a main reading at or above it ends the incident
    STALE_FIRE_S        \* silence that means the unit has died

ASSUME RescueAssumption ==
    /\ Levels \subseteq Int
    /\ ARM_MAIN_SOC_PCT \in Int /\ CLEAR_SOC_PCT \in Int
    /\ ARM_MAIN_SOC_PCT < CLEAR_SOC_PCT
    /\ STALE_FIRE_S \in Nat \ {0}

Ages == 0 .. STALE_FIRE_S

\* heard: a reading has been recorded (last_fresh_main is not None).
RescueState == [heard : BOOLEAN, main : Levels, age : Ages, fired : BOOLEAN]

\* A telemetry entry of the bridge.  known: there is one; new: its ts is above
\* the last one recorded (last_fresh_ts).
Entries == [known : BOOLEAN, new : BOOLEAN, main : Levels, system : Levels, age : Ages]

NewRescueState == [heard |-> FALSE, main |-> CHOOSE l \in Levels : TRUE,
                   age |-> STALE_FIRE_S, fired |-> FALSE]

\* The bookkeeping decide() does first: note a newer reading.
Record(st, entry) ==
    IF entry.new
    THEN [st EXCEPT !.heard = TRUE, !.main = entry.main, !.age = entry.age]
    ELSE st

\* A fresh reading that is high enough ends the incident.
Rearm(st) ==
    IF st.age < STALE_FIRE_S /\ st.heard /\ st.main >= CLEAR_SOC_PCT
    THEN [st EXCEPT !.fired = FALSE]
    ELSE st

\* The state decide() leaves behind.
Decided(st, entry) == IF entry.known THEN Rearm(Record(st, entry)) ELSE st

\* Mutant of Due: the latch is not looked at.
DueUnlatched(st, entry) ==
    entry.known /\ Record(st, entry).heard
                /\ Record(st, entry).main <= ARM_MAIN_SOC_PCT

\* Fire, "live" or "deadman": both ask for the same, one on a fresh reading
\* and one on a silent unit.
Due(st, entry) ==
    LET d == Decided(st, entry)
    IN  entry.known /\ ~d.fired /\ d.heard /\ d.main <= ARM_MAIN_SOC_PCT

MarkFired(st) == [st EXCEPT !.fired = TRUE]
=============================================================================

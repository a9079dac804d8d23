---------------------------- MODULE BalanceWindow ----------------------------
(***************************************************************************)
(* The pack-balance gate (server.py 3500-3597, solar_charge.py 453-546):   *)
(* the car gets nothing until the main unit is full, when that is overdue  *)
(* or the packs have drifted apart.  A window that lasts too long is given *)
(* up for a while.  One unit of time is a day; the loop evaluates at least *)
(* once in each.                                                           *)
(***************************************************************************)
EXTENDS Integers

CONSTANTS
  BalanceEvery,  \* balance_every_days
  MinFullAge,    \* SPREAD_TRIGGER_MIN_FULL_AGE_DAYS
  MaxWindow,     \* balance_max_window_days; 0: no bound
  MaxAge         \* bound: ages are not told apart beyond it

ASSUME BalanceAssumption ==
  /\ {BalanceEvery, MinFullAge, MaxWindow, MaxAge} \subseteq Nat
  /\ BalanceEvery > 0
  /\ MaxAge > BalanceEvery + MaxWindow /\ MaxAge >= 2 * MaxWindow

VARIABLES
  triggers,  \* which of "calendar" and "spread" are configured
  full,      \* does the main unit report the target
  fullAge,   \* days since it did, in the energy database, or Never
  spread,    \* of the packs: "unknown", "narrow" or "wide"
  lastFull,  \* the cached answer of the database, or NoCache
  fresh,     \* is it younger than its TTL
  opened,    \* age of _BALANCE_WINDOW_OPEN, or Closed
  verdict,   \* of the last evaluation: "clear", "due", "stalled"; "none" yet
  held,      \* history: days in a row with the car held
  rested     \* history: days in a row stalled

balanceVars == <<triggers, full, fullAge, spread, lastFull, fresh, opened,
                 verdict, held, rested>>

Never == -1
NoCache == -2
Closed == -1
Older(age) == IF age < 0 \/ age = MaxAge THEN age ELSE age + 1

BalanceInit ==
  /\ triggers \in SUBSET {"calendar", "spread"}
  /\ full = FALSE /\ fullAge \in {Never, 0}
  /\ spread = "unknown"
  /\ lastFull = NoCache /\ fresh = FALSE
  /\ opened = Closed
  /\ verdict = "none"
  /\ held = 0 /\ rested = 0

PacksDrift ==
  /\ spread' \in {"unknown", "narrow", "wide"} \ {spread}
  /\ UNCHANGED <<triggers, full, fullAge, lastFull, fresh, opened, verdict, held, rested>>

\* The main unit reaches or leaves the target; a full reading is recorded.
MainChanges ==
  /\ full' = ~full
  /\ fullAge' = IF full' THEN 0 ELSE fullAge
  /\ UNCHANGED <<triggers, spread, lastFull, fresh, opened, verdict, held, rested>>

Day ==
  /\ verdict # "none"
  /\ fullAge' = IF full THEN 0 ELSE Older(fullAge)
  /\ lastFull' = Older(lastFull)
  /\ fresh' = FALSE
  /\ opened' = Older(opened)
  /\ held' = IF verdict = "due" THEN held + 1 ELSE held
  /\ rested' = IF verdict = "stalled" THEN rested + 1 ELSE rested
  /\ verdict' = "none"
  /\ UNCHANGED <<triggers, full, spread>>

TtlPasses ==
  /\ fresh
  /\ fresh' = FALSE
  /\ UNCHANGED <<triggers, full, fullAge, spread, lastFull, opened, verdict, held, rested>>

SpreadFired(days) ==
  /\ "spread" \in triggers /\ spread = "wide"
  /\ days = Never \/ days >= MinFullAge

\* Stand-down of a stalled window.
StandDown == IF "calendar" \in triggers THEN BalanceEvery ELSE MaxWindow

\* Mutant: a window that was given up keeps its stamp.
WindowAgeKept == IF opened = Closed THEN 0 ELSE opened

\* balance_window_status: the age of the window after this evaluation.
WindowAge ==
  IF opened = Closed \/ (MaxWindow > 0 /\ opened >= MaxWindow + StandDown)
  THEN 0 ELSE opened

Stalled(age) == MaxWindow > 0 /\ age >= MaxWindow

Conclude(v, age) ==
  /\ verdict' = v
  /\ opened' = age
  /\ held' = IF v = "due" THEN held ELSE 0
  /\ rested' = IF v = "stalled" THEN rested ELSE 0

CloseWindow == Conclude("clear", Closed)

Judge(days, calendar) ==
  IF (calendar /\ (days = Never \/ days >= BalanceEvery)) \/ SpreadFired(days)
  THEN Conclude(IF Stalled(WindowAge) THEN "stalled" ELSE "due", WindowAge)
  ELSE CloseWindow

\* _balance_due_for: the last full charge is known from the live reading, the
\* cache or the database, which may fail; a failure is not cached.
Evaluate(lookup) ==
  /\ IF "calendar" \notin triggers /\ ~SpreadFired(Never)
     THEN CloseWindow /\ UNCHANGED <<lastFull, fresh>>
     ELSE \/ /\ full
             /\ lastFull' = 0 /\ fresh' = TRUE
             /\ Judge(0, "calendar" \in triggers)
          \/ /\ ~full /\ fresh
             /\ UNCHANGED <<lastFull, fresh>>
             /\ Judge(lastFull, "calendar" \in triggers)
          \/ /\ ~full /\ ~fresh /\ lookup
             /\ lastFull' = fullAge /\ fresh' = TRUE
             /\ Judge(fullAge, "calendar" \in triggers)
          \/ /\ ~full /\ ~fresh /\ ~lookup
             /\ UNCHANGED <<lastFull, fresh>>
             /\ IF SpreadFired(Never) THEN Judge(Never, FALSE) ELSE CloseWindow
  /\ UNCHANGED <<triggers, full, fullAge, spread>>

\* The stamp and the cache are in memory.
ServerRestart ==
  /\ lastFull' = NoCache /\ fresh' = FALSE
  /\ opened' = Closed
  /\ held' = 0 /\ rested' = 0 /\ verdict' = "none"
  /\ UNCHANGED <<triggers, full, fullAge, spread>>

BalanceNext ==
  \/ PacksDrift \/ MainChanges
  \/ Day \/ TtlPasses
  \/ \E lookup \in BOOLEAN : Evaluate(lookup)
  \/ ServerRestart

BalanceSpec == BalanceInit /\ [][BalanceNext]_balanceVars

-----------------------------------------------------------------------------
\* A window that never completes neither starves the car nor is given up for
\* good: the car is held for at most MaxWindow days on end, and a stalled
\* window stands down for at most StandDown days, whatever the packs, the main
\* unit and the database do (solar_charge.py 509-546).
BalanceDutyCycle ==
  MaxWindow > 0 => held <= MaxWindow /\ rested <= StandDown
=============================================================================

----------------------------- MODULE SmartCharge -----------------------------
(***************************************************************************)
(* Charging from the grid in the hours before sunrise (smart_charge.py     *)
(* 262-627, server.py 3076-3280): at each tick the charge at sunrise is    *)
(* predicted as if the plug stayed off; when it is too low, the cheapest   *)
(* hours that are needed are planned, always with the last one before the  *)
(* margin, and the plug follows.  One night until sunrise; the forecast of *)
(* the load is right.  Several ticks make an hour.                         *)
(***************************************************************************)
EXTENDS Integers, FiniteSetsExt

CONSTANTS
  Hours,      \* from now to sunrise
  PerHour,    \* ticks in an hour
  Gain,       \* charge stored in a tick with the plug on
  Drain,      \* charge the load takes in a tick with it off
  Target,     \* target_sunrise_soc_pct
  Prices      \* of the cost plan

ASSUME SmartChargeAssumption ==
  /\ {Hours, PerHour, Gain, Drain} \subseteq Nat \ {0}
  /\ Target \in Nat /\ Prices \subseteq Nat

VARIABLES
  rate,     \* price of each hour
  night,    \* ticks since the first hour began
  charge,   \* of the battery, Full at most
  supply,   \* is the plug on
  decided,  \* has this tick been evaluated
  possible  \* history: was the target within reach at the last disturbance,
            \* and has nothing disturbed the plan since

smartVars == <<rate, night, charge, supply, decided, possible>>

Full == Target + 2 * Gain
Sunrise == Hours * PerHour
Clamp(soc) == Max({0, Min({soc, Full})})

\* simulate_soc: without and with the plug on for the rest of the night.
Baseline(t, soc) == Clamp(soc - Drain * (Sunrise - t))
BestCase(t, soc) == Clamp(soc + Gain * (Sunrise - t))

Within(t, soc) == BestCase(t, soc) >= Target

\* Does the baseline not run empty?
Lasts == charge >= Drain * (Sunrise - night)

SmartInit ==
  /\ rate \in [0..Hours - 1 -> Prices]
  /\ night = 0
  /\ charge \in 0..Full
  /\ supply = FALSE /\ decided = FALSE
  /\ possible = Within(0, charge)

HourOf(t) == t \div PerHour
CeilDiv(a, b) == (a + b - 1) \div b

\* What an hour of charging adds to the charge at sunrise: the load is served
\* as well.
HourlyGain == PerHour * (Gain + Drain)

NeededHours(deficit) == Max({1, CeilDiv(deficit, HourlyGain)})

\* The hours up to the margin of one hour before sunrise, the current one
\* included; the last of them is mandatory.
MarginHour == Hours - 1
Candidates(t) == HourOf(t)..MarginHour - 1
MandatoryHour == MarginHour - 1

\* Cheapest first, among equals the latest.
Before(h, g) == rate[h] < rate[g] \/ (rate[h] = rate[g] /\ h > g)
Cheapest(hours, n) == {h \in hours : Cardinality({g \in hours : Before(g, h)}) < n}

PickPlannedHours(hours, needed) ==
  IF needed >= Cardinality(hours) THEN hours
  ELSE {MandatoryHour} \cup Cheapest(hours \ {MandatoryHour}, needed - 1)

\* Mutant: in the margin the charge of the moment decides.
PlanOnNow(t, soc) ==
  /\ Baseline(t, soc) < Target
  /\ \/ HourOf(t) >= MarginHour /\ soc < Target
     \/ HourOf(t) \in PickPlannedHours(Candidates(t),
                                       NeededHours(Target - Baseline(t, soc)))

\* compute_plan for the charge of the moment: in the margin the plug is on
\* until the baseline reaches the target.
PlanOn(t, soc) ==
  /\ Baseline(t, soc) < Target
  /\ \/ HourOf(t) >= MarginHour
     \/ HourOf(t) \in PickPlannedHours(Candidates(t),
                                       NeededHours(Target - Baseline(t, soc)))

\* The evaluation of the loop switches the plug.
Evaluated ==
  /\ night < Sunrise /\ ~decided
  /\ supply' = PlanOn(night, charge)
  /\ decided' = TRUE
  /\ UNCHANGED <<rate, night, charge, possible>>

\* Without weather, or when the plug does not answer, it stays as it is; a
\* forecast that is not ready has it switched off.
NotEvaluated ==
  /\ night < Sunrise /\ ~decided
  /\ supply' \in {supply, FALSE}
  /\ decided' = TRUE /\ possible' = FALSE
  /\ UNCHANGED <<rate, night, charge>>

\* History: the plan is followed again, from a charge from which the target is
\* within reach.
Recovers ==
  /\ ~possible /\ ~decided
  /\ Within(night, charge)
  /\ possible' = TRUE
  /\ UNCHANGED <<rate, night, charge, supply, decided>>

\* History: while the plug is off, a baseline that is empty before sunrise
\* hides how much is missing.
TickPasses ==
  /\ decided
  /\ night' = night + 1
  /\ charge' = Clamp(IF supply THEN charge + Gain ELSE charge - Drain)
  /\ decided' = FALSE
  /\ possible' = (possible /\ (supply \/ Lasts))
  /\ UNCHANGED <<rate, supply>>

SmartNext == Evaluated \/ NotEvaluated \/ Recovers \/ TickPasses

SmartSpec == SmartInit /\ [][SmartNext]_smartVars

-----------------------------------------------------------------------------
\* The target is reached at sunrise whenever it was within reach of the plug
\* and every tick since was evaluated: neither waiting for cheap hours nor the
\* rounding to hours ever wastes the time that is needed, unless the plug waits
\* while the battery would be empty before sunrise: the baseline stops at zero,
\* which makes the deficit too small (smart_charge.py 306-340, 428-430, 476:
\* "we can overshoot, but not undershoot").
ReachedAtSunrise == night = Sunrise /\ possible => charge >= Target
=============================================================================

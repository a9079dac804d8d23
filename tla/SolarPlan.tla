------------------------------ MODULE SolarPlan ------------------------------
(***************************************************************************)
(* The decision of the solar-charge controller (solar_charge.py): whether  *)
(* the diversion plug should go on, off, or stay as it is, as operators on *)
(* one record of inputs.  Charges are percent, loads watts, both in any    *)
(* unit.  SolarCharge uses the operators in its evaluation.                *)
(***************************************************************************)
EXTENDS Integers

CONSTANTS
  ComfortLow,     \* hard floor of the charge
  ComfortHigh,    \* charge from which a session may start
  SafeSunrise,    \* target_sunrise_soc_pct + safety_margin_pp
  Hysteresis,     \* on_hysteresis_pp
  LoadCeiling     \* max_system_load_w

ASSUME PlanAssumption ==
  /\ {ComfortLow, ComfortHigh, SafeSunrise, Hysteresis, LoadCeiling} \subseteq Int
  /\ ComfortLow < ComfortHigh
  /\ Hysteresis >= 0

Actions == {"on", "off", "skip"}

\* A forecast that could not be made.
Unknown == -1

\* What one decision looks at.  "sunrise" is the predicted charge at sunrise
\* with diversion, "trough" the lowest charge of the forecast without it,
\* "reserve" the charge at sunrise when the house alone drains the battery,
\* Unknown when the sun covers the load or an input is missing.
Inputs(Charges) ==
  [stale: BOOLEAN, soc: Charges, grid: BOOLEAN, balance: BOOLEAN,
   sunrise: Charges \cup {Unknown}, trough: Charges \cup {Unknown},
   reserve: Charges \cup {Unknown}]

Below(x, bound) == x # Unknown /\ x < bound

\* Checks that force the plug off before the forecast is looked at.
FailClosed(in) == in.stale \/ in.grid \/ in.balance \/ in.sunrise = Unknown

\* Checks that force it off for the battery's sake.
Endangered(in) ==
  \/ in.soc <= ComfortLow
  \/ Below(in.reserve, SafeSunrise)
  \/ Below(in.trough, ComfortLow)

\* The band of the cloudy-tomorrow guard in which the plug keeps its state.
CloudyBand(in) == Below(in.trough, ComfortLow + Hysteresis)

Headroom(in) ==
  in.sunrise >= SafeSunrise + Hysteresis /\ in.soc >= ComfortHigh

ComputePlan(in) ==
  CASE FailClosed(in) \/ Endangered(in) -> "off"
    [] ~(FailClosed(in) \/ Endangered(in)) /\ CloudyBand(in) -> "skip"
    [] OTHER -> IF in.sunrise < SafeSunrise THEN "off"
                ELSE IF Headroom(in) THEN "on" ELSE "skip"

\* A flip needs the last one to be min_hold_s ago; the state the plug is
\* taken to be in already needs no command.
GateMinHold(plan, held, before) ==
  IF held \/ plan = (IF before THEN "on" ELSE "off") THEN "skip" ELSE plan

GateLoadCeiling(plan, load, before) ==
  IF plan = "on" /\ ~before /\ load >= LoadCeiling THEN "skip" ELSE plan

\* Mutant: the cooldown holds back nothing.
GateNothing(plan, protected) == plan

GateInverterProtect(plan, protected) ==
  IF plan = "on" /\ protected THEN "skip" ELSE plan
=============================================================================

----------------------------- MODULE SocForecast -----------------------------
(***************************************************************************)
(* The forecast of the charge with and without the diversion, hour by hour *)
(* (forecaster.py 1696-1829, 1891-2106), as the solar-charge controller    *)
(* asks for it (server.py 3770-3830).  Charge is in percent of the         *)
(* capacity, power in percent an hour; rounding is left out.               *)
(***************************************************************************)
EXTENDS Integers, FiniteSetsExt

CONSTANTS
  Horizon,        \* hours of the forecast
  Suns, Demands,  \* sun and base load of an hour
  SolarCap,       \* recent peak with its headroom
  IdleLoad,       \* effective parasitic load
  Efficiency,     \* charge_efficiency in percent
  ExtraLoad,      \* of the car
  ExtraFloor,     \* extra_load_floor_pct
  ChargeCeiling,  \* fit_charge_ceiling; FullCharge without one
  FullCharge      \* 100 %

ASSUME ForecastAssumption ==
  /\ {Horizon, SolarCap, IdleLoad, Efficiency, ExtraLoad, ExtraFloor, FullCharge} \subseteq Nat
  /\ Suns \subseteq Nat /\ Demands \subseteq Nat /\ Efficiency <= 100
  /\ ChargeCeiling \in 0..FullCharge

VARIABLES
  weather,   \* what is known of each hour
  hour,      \* the next hour to simulate
  baseline,  \* charge without the diversion
  diverted   \* charge with it

forecastVars == <<weather, hour, baseline, diverted>>

ForecastHours == 1..Horizon

\* Sleep takes the unit off; the sun is capped by what was ever seen.
LoadOf(w) == IF w.asleep THEN 0 ELSE w.demand + IdleLoad
SolarOf(w) == Min({w.sun, SolarCap})
NetOf(h) == SolarOf(weather[h]) - LoadOf(weather[h])

Stored(net) == IF net > 0 THEN (net * Efficiency) \div 100 ELSE net

Clamped(soc) == Max({0, Min({soc, FullCharge})})

\* The hour's step, with the ceiling that the packs have.
After(soc, net) == Min({Clamped(soc + Stored(net)), ChargeCeiling})

\* What the battery loses at worst from hour h on if nothing is diverted any
\* more: min_cum_from against cum_nat.
Natural[h \in 1..Horizon + 1] ==
  IF h = 1 THEN 0 ELSE Natural[h - 1] + Stored(NetOf(h - 1))
WorstFrom(h) == Min({Natural[k] : k \in h..Horizon + 1}) - Natural[h]

\* Mutant: only the hour itself is looked at.
DivertsGreedily(h, soc) == Clamped(soc + Stored(NetOf(h) - ExtraLoad)) >= ExtraFloor

\* The car is credited with the hours in which the charge stays above the
\* floor for the rest of the forecast.
Diverts(h, soc) ==
  Clamped(soc + Stored(NetOf(h) - ExtraLoad)) + WorstFrom(h + 1) >= ExtraFloor

ForecastInit ==
  /\ weather \in [ForecastHours -> [sun : Suns, demand : Demands, asleep : BOOLEAN]]
  /\ \A h \in ForecastHours : weather[h].asleep => weather[h].sun = 0 /\ weather[h].demand = 0
  /\ hour = 1
  /\ baseline \in 0..FullCharge
  /\ diverted = baseline

\* simulate_soc, in both calls of build_forecast.
SimulateHour ==
  /\ hour <= Horizon
  /\ hour' = hour + 1
  /\ baseline' = After(baseline, NetOf(hour))
  /\ diverted' = After(diverted, NetOf(hour)
                                   - (IF Diverts(hour, diverted) THEN ExtraLoad ELSE 0))
  /\ UNCHANGED weather

ForecastNext == SimulateHour

ForecastSpec == ForecastInit /\ [][ForecastNext]_forecastVars

-----------------------------------------------------------------------------
\* The forecast with the car never falls below the floor in an hour in which
\* the forecast without it does not: the look-ahead keeps enough for the rest
\* of the window although it ignores what a full battery cannot store
\* (forecaster.py 1755: "would still stay above the floor").
DiversionSparesFloor == diverted >= Min({ExtraFloor, baseline})
=============================================================================

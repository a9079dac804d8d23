---------------------------- MODULE HistoryFits ----------------------------
(***************************************************************************)
(* What the forecaster learns from a unit's history (forecaster.py         *)
(* 419-1693, 1839-1888, energy_db.py 1432-1555).  A unit with one battery  *)
(* lives hour by hour; the server keeps a bucket of each hour it saw; the  *)
(* fits read the buckets.  Energy is in thousandths of the capacity, one   *)
(* bucket is one hour, ratios are in percent; the quotients are rounded    *)
(* down.                                                                   *)
(***************************************************************************)
EXTENDS Integers, Sequences, FiniteSetsExt

CONSTANTS
  MaxHours,     \* bound: hours lived
  DayHours,     \* hours of a day; the last DayHours - NightHours have light
  NightHours,
  FirstWeekday, \* of the first day, 0 is Monday
  MinWindows,   \* min_windows of the fits
  MinCharges    \* min_samples of fit_max_charge_w

ASSUME FitsAssumption ==
  /\ {MaxHours, DayHours, NightHours, FirstWeekday, MinWindows, MinCharges} \subseteq Nat
  /\ 0 < NightHours /\ NightHours < DayHours
  /\ 0 < MinWindows /\ 0 < MinCharges

VARIABLES
  unit,   \* what kind of unit it is
  lived,  \* its hours so far
  stored, \* energy in its battery
  rows    \* the buckets that the server has

fitsVars == <<unit, lived, stored, rows>>

FullBattery == 1000
PerPoint == 10         \* one percent

\* The unit itself.
Parasitic == 10
Overhead == 10         \* percent of the load
ChargeYield == 90       \* percent of what is charged
Yield == 80            \* percent of the irradiance
Taper == 950           \* above, the battery takes half of the sun
CarLoad == 150

\* meter: does the cloud report AC input ("acip"), or only all of it ("ip");
\* plug: does the controller log its plug, or does the plug measure; forecast:
\* is there weather, or only the time zone, or neither.
Units ==
  { [meter |-> "acip", plug |-> "logged",   forecast |-> "weather", start |-> 930],
    [meter |-> "acip", plug |-> "logged",   forecast |-> "weather", start |-> 600],
    [meter |-> "acip", plug |-> "measures", forecast |-> "zone",    start |-> 500],
    [meter |-> "ip",   plug |-> "logged",   forecast |-> "weather", start |-> 700],
    [meter |-> "ip",   plug |-> "measures", forecast |-> "zone",    start |-> 930],
    [meter |-> "ip",   plug |-> "logged",   forecast |-> "none",    start |-> 400] }

\* Hours: load, irradiance, AC input, is the car diverted to, is it seen.
Hour(load, ghi, ac, car, seen) ==
  [load |-> load, ghi |-> ghi, ac |-> ac, car |-> car, seen |-> seen]
HourKinds ==
  { Hour(20, 0, 0, FALSE, TRUE),   Hour(50, 0, 0, FALSE, TRUE),
    Hour(20, 100, 0, FALSE, TRUE), Hour(20, 60, 0, FALSE, TRUE),
    Hour(20, 0, 60, FALSE, TRUE),  Hour(20, 100, 60, TRUE, TRUE),
    Hour(20, 0, 60, FALSE, FALSE) }

\* Hours are numbered from 1; the first begins at midnight.
HourOfDay(h) == (h - 1) % DayHours
Weekend(h) == (FirstWeekday + (h - 1) \div DayHours) % 7 >= 5
Daylight(h) == HourOfDay(h) >= NightHours

SunIn(k, level) == ((k.ghi * Yield) \div 100) \div (IF level > Taper THEN 2 ELSE 1)
LoadOut(k) == k.load + IF k.car THEN CarLoad ELSE 0
Drained(k) == LoadOut(k) + (LoadOut(k) * Overhead) \div 100 + Parasitic
AfterHour(k, level) ==
  LET net == ((SunIn(k, level) + k.ac) * ChargeYield) \div 100 - Drained(k) IN
  IF level + net < 0 THEN 0 ELSE IF level + net > FullBattery THEN FullBattery ELSE level + net

\* EnergyDB.history: the bucket of hour h.  Charge is the average of the
\* readings, in whole percent; input that is not AC is solar.
Bucket(h, k, level) ==
  LET sun == SunIn(k, level)
      ac == IF unit.meter = "acip" THEN k.ac ELSE 0 IN
  [ts |-> h, input |-> sun + k.ac, output |-> LoadOut(k),
   solar |-> sun + k.ac - ac, ac |-> ac,
   soc |-> (level + AfterHour(k, level)) \div (2 * PerPoint),
   plugged |-> IF unit.plug # "logged" THEN -1 ELSE IF k.car THEN 100 ELSE 0,
   diverted |-> IF unit.plug = "measures" /\ k.car THEN CarLoad ELSE 0]

FitsInit ==
  /\ unit \in Units
  /\ lived = << >>
  /\ stored = unit.start
  /\ rows = << >>

HourPasses(k) ==
  /\ Len(lived) < MaxHours
  /\ k.ghi > 0 => Daylight(Len(lived) + 1)
  /\ lived' = Append(lived, k)
  /\ stored' = AfterHour(k, stored)
  /\ rows' = IF k.seen THEN Append(rows, Bucket(Len(lived) + 1, k, stored)) ELSE rows
  /\ UNCHANGED unit

FitsNext == \E k \in HourKinds : HourPasses(k)

FitsSpec == FitsInit /\ [][FitsNext]_fitsVars

-----------------------------------------------------------------------------
\* Open-Meteo's rows: the mean of the hour that ends at ts.
Weather == IF unit.forecast # "weather" THEN {}
           ELSE { [ts |-> h + 1, ghi |-> lived[h].ghi] : h \in DOMAIN lived }

\* Samples are functions; a fit that sorts them takes one by its rank.
Size(f) == Cardinality(DOMAIN f)
Ranked(f, k) ==
  CHOOSE v \in Range(f) : /\ Cardinality({ x \in DOMAIN f : f[x] < v }) < k
                          /\ k <= Cardinality({ x \in DOMAIN f : f[x] <= v })
Median(f) == Ranked(f, Size(f) \div 2 + 1)
OneOf(set, value, otherwise) == IF value \in set THEN value ELSE otherwise

\* Adjacent buckets, in order.
Pairs == [i \in 1..Len(rows) - 1 |->
            [a |-> rows[i], b |-> rows[i + 1], hours |-> rows[i + 1].ts - rows[i].ts]]

-----------------------------------------------------------------------------
(* The drain *)

MaxPairGap == 3       \* stands for the six hours
MinOut == 10
MinDrop == 2          \* INVERTER_FIT_MIN_SOC_DROP_PCT_MAIN
StartFloor == 85      \* MIN_FIT_START_SOC_PCT
Noise == 0            \* SOLAR_NOISE_WH, AC_NOISE_WH

Discharges(a, b) ==
  /\ a.soc - b.soc >= MinDrop
  /\ a.solar <= Noise /\ a.ac <= Noise
  /\ b.ts - a.ts <= MaxPairGap
  /\ a.output >= MinOut * (b.ts - a.ts)

\* fit_inverter_overhead_pct: [value, windows]
InverterOverhead ==
  LET ratio(p) == (100 * ((p.a.soc - p.b.soc) * PerPoint - p.a.output)) \div p.a.output
      windows == { i \in DOMAIN Pairs : Discharges(Pairs[i].a, Pairs[i].b) }
      n == Cardinality(windows) IN
  [value |-> IF n < MinWindows THEN Overhead
             ELSE OneOf(0..50, Median([i \in windows |-> ratio(Pairs[i])]), Overhead),
   windows |-> n]

\* diagnose_idle_windows: the first gate that a pair fails.
Rejection(a, b) ==
  IF a.soc - b.soc < MinDrop THEN "soc_drop_below_min_pp"
  ELSE IF a.solar > Noise THEN "solar_above_noise"
  ELSE IF a.ac > Noise THEN "ac_input_above_noise"
  ELSE IF b.ts - a.ts > MaxPairGap THEN "dt_out_of_range"
  ELSE IF a.output < MinOut * (b.ts - a.ts) THEN "out_w_under_50"
  ELSE "qualifying"

MaxGap == 1           \* MAX_BUCKET_GAP_H is between one and two buckets
MinRunHours == 2
MaxRunHours == 4      \* stands for the twelve hours
MinRunDrop == 3       \* MIN_RUN_SOC_DROP_PCT_MAIN
LongRun == 3          \* stands for the four hours

Clean(row) == row.solar <= Noise /\ row.ac <= Noise

\* Does the run that has bucket i go on with the next one?
GoesOn(i) == Clean(rows[i]) /\ Clean(rows[i + 1]) /\ rows[i + 1].ts - rows[i].ts <= MaxGap

\* Maximal sequences of clean buckets without a gap.
SplitRuns ==
  { r \in [first : DOMAIN rows, last : DOMAIN rows] :
      /\ r.first <= r.last /\ Clean(rows[r.first])
      /\ \A i \in r.first .. r.last - 1 : GoesOn(i)
      /\ r.first > 1 => ~GoesOn(r.first - 1)
      /\ r.last < Len(rows) => ~GoesOn(r.last) }

RunHours(r) == rows[r.last].ts - rows[r.first].ts
RunLoad(r) == SumFunction([i \in r.first .. r.last - 1 |-> rows[i].output])
RunDrop(r) == rows[r.first].soc - rows[r.last].soc

\* _clean_discharge_runs
CleanRuns ==
  { r \in SplitRuns :
      /\ r.first < r.last
      /\ RunHours(r) \in MinRunHours..MaxRunHours
      /\ rows[r.first].soc >= StartFloor
      /\ RunDrop(r) >= MinRunDrop
      /\ RunLoad(r) >= MinOut * RunHours(r) }

\* Energies rather than the average powers.
RunWindow(r) == [load |-> RunLoad(r), drain |-> RunDrop(r) * PerPoint, hours |-> RunHours(r)]
PairWindow(p) == [load |-> p.a.output, drain |-> (p.a.soc - p.b.soc) * PerPoint, hours |-> p.hours]

Implied(w) == (w.drain - w.load - (w.load * Overhead) \div 100) \div w.hours
MedianImplied(windows) == Median([i \in DOMAIN windows |-> Implied(windows[i])])

MaxParasitic == 200
DefaultDrain(n) == [parasitic |-> Parasitic, overhead |-> Overhead, windows |-> n]

\* The median of what the windows imply, nothing when it is negative.
FromMedian(windows) ==
  LET m == MedianImplied(windows) IN
  IF m < 0 THEN [DefaultDrain(Size(windows)) EXCEPT !.parasitic = 0]
  ELSE [DefaultDrain(Size(windows)) EXCEPT !.parasitic = OneOf(0..MaxParasitic, m, Parasitic)]

\* The loads spread less than twice between the tenth parts at both ends.
Narrow(loads) ==
  LET n == Size(loads) IN
  Ranked(loads, Min({(9 * n) \div 10 + 1, n})) < 2 * Ranked(loads, n \div 10 + 1)

\* Least squares of drain over load.
Regression(windows) ==
  LET n == Size(windows)
      x == [i \in DOMAIN windows |-> windows[i].load \div windows[i].hours]
      y == [i \in DOMAIN windows |-> windows[i].drain \div windows[i].hours]
      sx == SumFunction(x)
      sy == SumFunction(y)
      sxy == SumFunction([i \in DOMAIN windows |-> x[i] * y[i]])
      sxx == SumFunction([i \in DOMAIN windows |-> x[i] * x[i]])
      denom == n * sxx - sx * sx
      slope == (100 * (n * sxy - sx * sy)) \div denom
      base == (100 * sy - slope * sx) \div (100 * n) IN
  IF denom <= 0 \/ base \notin 0..MaxParasitic \/ slope - 100 \notin 0..50
  THEN DefaultDrain(n)
  ELSE [parasitic |-> base, overhead |-> slope - 100, windows |-> n]

\* fit_drain_model, without expansion packs
DrainModel ==
  LET accepted == { i \in DOMAIN Pairs :
                      Pairs[i].a.soc >= StartFloor /\ Discharges(Pairs[i].a, Pairs[i].b) }
      windows == [i \in accepted |-> PairWindow(Pairs[i])]
      long == { r \in CleanRuns : RunHours(r) >= LongRun }
      pool == [r \in (IF Cardinality(long) >= 2 THEN long ELSE CleanRuns) |-> RunWindow(r)] IN
  IF Size(windows) < MinWindows THEN DefaultDrain(Size(windows))
  ELSE IF ~Narrow([i \in accepted |-> windows[i].load \div windows[i].hours])
       THEN Regression(windows)
  ELSE IF Size(pool) >= 2 /\ MedianImplied(pool) <= MaxParasitic
       THEN FromMedian(pool)
  ELSE FromMedian(windows)

\* forecast_readiness: is the history long enough, are its windows enough
Readiness == [ready |-> Len(rows) >= 2 /\ rows[Len(rows)].ts - rows[1].ts >= DayHours,
              doubtful |-> Len(rows) < 2 \/ InverterOverhead.windows < MinWindows]

-----------------------------------------------------------------------------
(* Charging *)

MinInput == 40        \* min_input_w
DarkGhi == 50         \* GHI_DARK_THRESHOLD

\* The weather row with the bucket's time stamp, if there is one.
GhiAt(ts) == { w.ghi : w \in { v \in Weather : v.ts = ts } }

\* Input that is not sun: by the weather, else by the local night.
NoSun(row) ==
  IF GhiAt(row.ts) # {} THEN \A g \in GhiAt(row.ts) : g < DarkGhi
  ELSE unit.forecast = "zone" /\ ~Daylight(row.ts)

\* The hours fit_max_charge_w takes, with the power it takes them for; solar
\* at night is not AC for it.
ChargeCandidates ==
  LET classified(row) == row.ac >= MinInput /\ row.solar < MinInput
      inferred(row) ==
        /\ row.input >= MinInput /\ NoSun(row)
        /\ GhiAt(row.ts) # {} \/ row.solar < MinInput IN
  { [ts |-> rows[i].ts, power |-> IF classified(rows[i]) THEN rows[i].ac ELSE rows[i].input] :
      i \in { j \in DOMAIN rows : classified(rows[j]) \/ inferred(rows[j]) } }

\* The 95th percentile: of so few, the largest.
MaxCharge ==
  IF Cardinality(ChargeCandidates) < MinCharges THEN -1
  ELSE Max({ c.power : c \in ChargeCandidates })

-----------------------------------------------------------------------------
(* The sun *)

MinGhi == 50
MinSolar == 50        \* below it, the readings are noise
ClearGhi == 70        \* CLEAR_SKY_GHI_THRESHOLD; such a sky has no clouds
HeadroomSoc == 70     \* SOLAR_FIT_MAX_SOC_PCT
MinSamples == 2       \* MIN_FIT_SAMPLES
DefaultCoefficient == 32

RowAt(ts) == { rows[i] : i \in { j \in DOMAIN rows : rows[j].ts = ts } }

\* Mutant: the weather row is paired with the bucket that begins with it.
PairedNow(w) == { [ghi |-> w.ghi, row |-> r] : r \in RowAt(w.ts) }

\* A weather row belongs to the bucket that ends with it.
PairedHour(w) == { [ghi |-> w.ghi, row |-> r] : r \in RowAt(w.ts - 1) }

\* The hours of sun by tier: with headroom, clear, any.
SunPairs(tier) ==
  { p \in UNION { PairedHour(w) : w \in { v \in Weather : v.ghi > MinGhi } } :
      /\ p.row.solar > 0
      /\ tier \in {"clear", "headroom"} => p.ghi >= ClearGhi
      /\ tier = "headroom" => p.row.soc <= HeadroomSoc /\ p.row.ac = 0 }

Tier ==
  IF Cardinality(SunPairs("headroom")) >= MinSamples THEN "headroom"
  ELSE IF Cardinality(SunPairs("clear")) >= MinSamples THEN "clear" ELSE "broad"

\* Through the origin.
Slope(pairs) ==
  (100 * SumFunction([p \in pairs |-> p.ghi * p.row.solar]))
     \div SumFunction([p \in pairs |-> p.ghi * p.ghi])

\* fit_solar_coefficient: no panels, too little, or the slope
SolarCoefficient ==
  LET fitted(pairs) == IF Cardinality(pairs) < MinSamples THEN DefaultCoefficient
                       ELSE OneOf(5..1500, Slope(pairs), DefaultCoefficient) IN
  IF \A i \in DOMAIN rows : rows[i].solar <= MinSolar THEN 0 ELSE fitted(SunPairs(Tier))

\* What a pair yields of what the coefficient predicts, in percent.
SunRatio(p) == (10000 * p.row.solar) \div (p.ghi * SolarCoefficient)

\* solar_calibration_stats: the mean ratio
Calibration ==
  LET n == Cardinality(SunPairs(Tier)) IN
  IF SolarCoefficient = 0 \/ n < MinSamples THEN -1
  ELSE SumFunction([p \in SunPairs(Tier) |-> SunRatio(p)]) \div n

\* The mean of the middle two when there are two.
Middle(f) ==
  IF Size(f) % 2 = 1 THEN Median(f) ELSE (Ranked(f, Size(f) \div 2) + Median(f)) \div 2

PriorStrength == 4
\* fit_diurnal_shape: the middle ratio of the hour, drawn towards 100
DiurnalShape ==
  [hour \in 0..DayHours - 1 |->
     LET pairs == { p \in SunPairs("broad") :
                      HourOfDay(p.row.ts) = hour /\ SunRatio(p) \in 5..500 }
         n == Cardinality(pairs) IN
     IF SolarCoefficient = 0 \/ n = 0 THEN 100
     ELSE (n * Middle([p \in pairs |-> SunRatio(p)]) + 100 * PriorStrength)
            \div (n + PriorStrength)]

-----------------------------------------------------------------------------
(* The load *)

IdleLoadW == 5
Recent == 3           \* LOAD_RECENCY_S, in buckets
Variability == 50     \* LOAD_VARIABILITY_THRESHOLD

\* What the controller diverted is no demand: from its plug's log, else from
\* the plug's own measure.
NetLoad(row) ==
  LET net == IF row.plugged >= 0 THEN row.output - (row.plugged * CarLoad) \div 100
             ELSE row.output - row.diverted IN
  IF net < 0 THEN 0 ELSE net

\* _trimmed_median: LOAD_BUCKET_TRIM_PCT of the samples at either end count
\* for nothing, at least one.
TrimmedMedian(f) ==
  LET n == Size(f)
      trim == IF n < 5 THEN 0 ELSE Max({1, n \div 10}) IN
  Ranked(f, trim + (n - 2 * trim) \div 2 + 1)

\* The global 95th percentile.
LoadCap ==
  Ranked([i \in DOMAIN rows |-> NetLoad(rows[i])],
         Min({(95 * Len(rows)) \div 100 + 1, Len(rows)}))

\* The hour of the day and the kind of day; of buckets, their typical load.
LoadKey(row) == <<HourOfDay(row.ts), Weekend(row.ts)>>
LoadsOf(is) == [i \in is |-> Min({NetLoad(rows[i]), LoadCap})]
TypicalLoad(is) == TrimmedMedian(LoadsOf(is))

\* The middle half of the loads differs little from the typical one.
StableLoad(is) ==
  LET loads == LoadsOf(is)
      n == Size(loads) IN
  \/ TypicalLoad(is) = 0
  \/ 100 * (Ranked(loads, (3 * n) \div 4 + 1) - Ranked(loads, n \div 4 + 1))
       < Variability * TypicalLoad(is)

\* A stable hour has its median, of a variable one the recent days count more.
HourLoad(is) ==
  LET recent == { i \in is : rows[i].ts >= Len(lived) + 1 - Recent }
      older == is \ recent IN
  IF StableLoad(is) \/ Cardinality(is) < 6 \/ recent = {} THEN TypicalLoad(is)
  ELSE (70 * TypicalLoad(recent)
          + 30 * TypicalLoad(IF older = {} THEN recent ELSE older)) \div 100

\* fit_load_profile
LoadProfile ==
  [k \in { LoadKey(rows[i]) : i \in DOMAIN rows } |->
     Min({HourLoad({ i \in DOMAIN rows : LoadKey(rows[i]) = k }), Max({6 * IdleLoadW, LoadCap})})]

\* expected_load_w: the hour itself, of the other kind of day, then its
\* neighbours up to three hours away, closer and later ones first.
ExpectedLoad(profile, drain, hour, weekend) ==
  LET near == <<1, -1, 2, -2, 3, -3>>
      keys == << <<hour, weekend>>, <<hour, ~weekend>> >>
                \o [i \in 1..6 |-> <<(hour + near[i]) % DayHours, weekend>>]
                \o [i \in 1..6 |-> <<(hour + near[i]) % DayHours, ~weekend>>]
      known == { i \in DOMAIN keys : keys[i] \in DOMAIN profile }
      base == IF known = {} THEN IdleLoadW ELSE profile[keys[Min(known)]] IN
  IF base = 0 THEN 0
  ELSE base + (base * drain.overhead) \div 100 + drain.parasitic

-----------------------------------------------------------------------------
\* What a run of buckets says the unit drew beyond its loads is what it drew,
\* up to the rounding of the charge and half the difference of the loads at
\* its ends: charge is the average of a bucket, load its sum.  So nothing that
\* happened while the server was away counts (forecaster.py 998: "break a run
\* if poll dropped").
RunsMeasureTheDrain ==
  \A r \in CleanRuns :
    LET extra == RunDrop(r) * PerPoint - RunLoad(r) - (RunLoad(r) * Overhead) \div 100
                   - Parasitic * RunHours(r)
        ends == Drained(lived[rows[r.last].ts]) - Drained(lived[rows[r.first].ts]) IN
    2 * extra - ends \in -2 * PerPoint..2 * PerPoint

\* The diagnosis that the panel shows of a doubtful fit counts the windows
\* that the fit took (forecaster.py 1109: "keep these two in sync").
DiagnosisIsFit ==
  LET qualifying == Cardinality({ i \in DOMAIN Pairs :
                                    Rejection(Pairs[i].a, Pairs[i].b) = "qualifying" }) IN
  /\ qualifying = InverterOverhead.windows
  /\ Readiness.ready /\ Readiness.doubtful => qualifying < MinWindows

DrainIsMeasured == RunsMeasureTheDrain /\ DiagnosisIsFit

\* When the unit tells AC from sun, no hour is predicted more than the panels
\* yield, nor is a coefficient suggested that would; with enough hours of
\* headroom the coefficient is what they yield, whatever the battery refused
\* in others (forecaster.py 434: "the panel's actual capability ceiling").
CoefficientIsCapability ==
  \A k \in {SolarCoefficient} \ {0, DefaultCoefficient}, shape \in {DiurnalShape} :
    unit.meter = "acip" =>
      /\ Tier = "headroom" => k = Yield
      /\ \A hour \in DOMAIN shape : k * shape[hour] <= 100 * Yield
      /\ k * Calibration <= 100 * Yield

\* No hour's expected load counts the car that the controller charged
\* (forecaster.py 1464: "phantom" load).
ProfileIsDemand ==
  \A hour \in 0..DayHours - 1, weekend \in BOOLEAN, profile \in {LoadProfile},
     drain \in {DrainModel}, most \in {Max({ lived[h].load : h \in DOMAIN lived } \cup {IdleLoadW})} :
    ExpectedLoad(profile, drain, hour, weekend)
      <= most + (most * drain.overhead) \div 100 + drain.parasitic

\* The power learned for the charger is never the sun's: every hour it is
\* taken from had that AC input, unless the sun rose in that very hour - the
\* row looked up is of the hour before (forecaster.py 1227: "the sun is
\* physically too low").
ChargeRateIsGrid ==
  LET Excused(c) == unit.forecast = "weather" /\ (c.ts > 1 => lived[c.ts - 1].ghi < DarkGhi) IN
  /\ \A c \in ChargeCandidates : c.power = lived[c.ts].ac \/ Excused(c)
  /\ (\A c \in ChargeCandidates : ~Excused(c)) =>
       MaxCharge \in {-1} \cup { lived[h].ac : h \in DOMAIN lived }

\* What is learned of the sun is the panels', of the charger the grid's.
SunAndGridApart == CoefficientIsCapability /\ ChargeRateIsGrid

\* And of the drain the unit's, of the load the household's: no flow of energy
\* is learned as another, from the first hour on.
FlowsAreToldApart ==
  lived # << >> => SunAndGridApart /\ DrainIsMeasured /\ ProfileIsDemand
=============================================================================

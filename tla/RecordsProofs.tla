--------------------------- MODULE RecordsProofs ----------------------------
(***************************************************************************)
(* Theorems about what the system reads, writes down and foresees: the     *)
(* energy counters and their clock over restarts (EnergyClock), the daily  *)
(* rows of predicted and actual charge (DailySummary), the simulated       *)
(* charge with and without the diversion (SocForecast), the stream of the  *)
(* solar inverter's dongle (StreamReassembly), and the energy that a unit  *)
(* is credited with (EnergyLedger).                                        *)
(***************************************************************************)
EXTENDS EnergyClock, DailySummary, SocForecast, StreamReassembly, EnergyLedger,
        SequenceTheorems, SumLemmas

-----------------------------------------------------------------------------
(* The energy clock.  A counter that has a clock is at most as far as the  *)
(* clock: what the clock has not reached is still to be credited.  Clock   *)
(* and counter on disk are of one payload, and a clock is only compared    *)
(* with the boot that it was read in.                                      *)

\* A counter lags behind the time since it was zero.
Clocks == Nat \cup {NoReading}
ClockTypeOK ==
  /\ time \in Nat
  /\ host \in [boot : Nat, began : Nat] /\ host.began <= time
  /\ capturing \in BOOLEAN
  /\ energy \in [clock : Clocks, restored : BOOLEAN, counter : Nat, since : Nat]
  /\ cache \in [clock : Clocks, boot : Nat, counter : Nat, since : Nat]

\* What a counter with a clock of this boot may have been credited.
Lags(clock, counter, since) ==
  /\ counter <= time - since
  /\ clock # NoReading =>
       clock <= Monotonic /\ counter <= host.began + clock - since

ClockInv ==
  /\ ClockTypeOK
  /\ capturing => Lags(energy.clock, energy.counter, energy.since)
  /\ cache.boot <= host.boot
  /\ cache.counter <= time - cache.since
  /\ cache.boot = host.boot => Lags(cache.clock, cache.counter, cache.since)

LEMMA ClockInit == ASSUME EnergyInit PROVE ClockInv
<1>1. ClockTypeOK
  <2>1. /\ energy \in [clock : Clocks, restored : BOOLEAN, counter : Nat, since : Nat]
        /\ cache \in [clock : Clocks, boot : Nat, counter : Nat, since : Nat]
    BY DEF EnergyInit, Clocks
  <2>2. host \in [boot : Nat, began : Nat] /\ host.began <= time /\ time \in Nat /\ capturing = FALSE
    BY DEF EnergyInit
  <2> QED
    BY <2>1, <2>2 DEF ClockTypeOK
<1>2. ~capturing /\ cache.boot = 0 /\ host.boot = 1 /\ cache.counter = 0 /\ cache.since = 0 /\ time = 0
  BY DEF EnergyInit
<1> QED
  BY <1>1, <1>2 DEF ClockInv

\* A payload credits at most the time since the last one.
LEMMA CreditBounded ==
  ASSUME EnergyAssumption, ClockInv, capturing
  PROVE  /\ Credit \in Nat
         /\ energy.clock # NoReading => Credit <= Monotonic - energy.clock
         /\ energy.clock = NoReading => Credit = 0
<1> DEFINE dt == Max({0, Monotonic - energy.clock})
<1>1. Monotonic \in Nat /\ energy.clock \in Int /\ MaxDt \in Nat
  BY DEF EnergyAssumption, ClockInv, ClockTypeOK, Monotonic, Clocks, NoReading
<1>2. /\ dt \in {0, Monotonic - energy.clock}
      /\ 0 <= dt /\ Monotonic - energy.clock <= dt
  <2>1. 0 \in Int /\ Monotonic - energy.clock \in Int
    BY <1>1
  <2> QED
    BY <2>1, MaxOfTwo, Zenon
<1>3. dt \in Nat
  BY <1>1, <1>2
<1>4. energy.clock # NoReading => dt = Monotonic - energy.clock
  BY <1>1, <1>2 DEF ClockInv, Lags
<1>5. /\ Min({dt, MaxDt}) \in {dt, MaxDt}
      /\ Min({dt, MaxDt}) <= dt
  <2>1. dt \in Int /\ MaxDt \in Int
    BY <1>1, <1>3
  <2> QED
    BY <2>1, MinOfTwo, Zenon
<1>6. Credit = IF energy.clock = NoReading \/ (energy.restored /\ dt > MaxDt) THEN 0
               ELSE Min({dt, MaxDt})
  BY Zenon DEF Credit
<1> HIDE DEF dt
<1> QED
  BY <1>1, <1>3, <1>4, <1>5, <1>6

\* After the integration the memory is as far as its clock, whether the
\* credit was kept or lost.
LEMMA IntegratedLags ==
  ASSUME EnergyAssumption, ClockInv, capturing,
         NEW e, e \in {Integrated, [Integrated EXCEPT !.counter = energy.counter]}
  PROVE  /\ e \in [clock : Clocks, restored : BOOLEAN, counter : Nat, since : Nat]
         /\ e.clock = Monotonic
         /\ Lags(e.clock, e.counter, e.since)
<1>1. Credit \in Nat /\ (energy.clock # NoReading => Credit <= Monotonic - energy.clock)
      /\ (energy.clock = NoReading => Credit = 0)
  BY CreditBounded
<1>2. /\ energy \in [clock : Clocks, restored : BOOLEAN, counter : Nat, since : Nat]
      /\ Monotonic \in Nat /\ host.began \in Nat /\ time \in Nat
      /\ time = host.began + Monotonic
  BY DEF ClockInv, ClockTypeOK, Monotonic
<1>3. PICK c \in {0, Credit} :
        e = [clock |-> Monotonic, restored |-> FALSE,
             counter |-> energy.counter + c, since |-> energy.since]
  <2>1. CASE e = Integrated
    BY <1>1, <1>2, <2>1 DEF Integrated
  <2>2. CASE e = [Integrated EXCEPT !.counter = energy.counter]
    <3>1. energy.counter \in Nat /\ energy.counter = energy.counter + 0
      BY <1>2
    <3>2. e = [clock |-> Monotonic, restored |-> FALSE,
               counter |-> energy.counter, since |-> energy.since]
      BY <1>2, <2>2 DEF Integrated
    <3> QED
      BY <3>1, <3>2, Zenon
  <2> QED
    BY <2>1, <2>2
<1>4. energy.counter \in Nat /\ energy.since \in Nat /\ energy.clock \in Int /\ c \in Nat
  BY <1>1, <1>2 DEF Clocks, NoReading
<1>5. energy.counter + c <= host.began + Monotonic - energy.since
  BY <1>1, <1>2, <1>3, <1>4 DEF ClockInv, Lags
<1> QED
  BY <1>2, <1>3, <1>4, <1>5 DEF Clocks, NoReading, Lags

LEMMA ClockPayload == ASSUME EnergyAssumption, ClockInv, Payload PROVE ClockInv'
<1>1. capturing /\ UNCHANGED <<time, host, capturing>> /\ Monotonic' = Monotonic
  BY DEF Payload, Monotonic
<1>2. energy' \in {Integrated, [Integrated EXCEPT !.counter = energy.counter]}
  BY Zenon DEF Payload
<1>3. /\ energy' \in [clock : Clocks, restored : BOOLEAN, counter : Nat, since : Nat]
      /\ energy'.clock = Monotonic
      /\ Lags(energy'.clock, energy'.counter, energy'.since)
  BY <1>1, <1>2, IntegratedLags, Zenon
<1>4. \/ cache' = cache
      \/ energy' = Integrated /\ \E legible \in BOOLEAN : cache' = Saved(Integrated, legible)
  BY Zenon DEF Payload
<1>5. CASE cache' = cache
  BY <1>1, <1>3, <1>5 DEF ClockInv, ClockTypeOK, Lags
<1>6. CASE energy' = Integrated /\ \E legible \in BOOLEAN : cache' = Saved(Integrated, legible)
  <2>1. PICK k \in Clocks :
          /\ k \in {NoReading, energy'.clock}
          /\ cache' = [clock |-> k, boot |-> host.boot,
                       counter |-> energy'.counter, since |-> energy'.since]
    BY <1>3, <1>6, Zenon DEF Saved, Clocks
  <2>2. /\ cache' \in [clock : Clocks, boot : Nat, counter : Nat, since : Nat]
        /\ cache'.boot = host.boot
        /\ Lags(cache'.clock, cache'.counter, cache'.since)
    BY <1>3, <2>1 DEF ClockInv, ClockTypeOK, Lags
  <2> QED
    BY <1>1, <1>3, <2>2 DEF ClockInv, ClockTypeOK, Lags
<1> QED
  BY <1>4, <1>5, <1>6

\* A new process resumes a clock of its own boot only.
LEMMA ClockLoad ==
  ASSUME EnergyAssumption, ClockInv, NEW reset \in BOOLEAN, LoadCachedState(reset)
  PROVE  ClockInv'
<1>1. capturing' = TRUE /\ UNCHANGED <<time, host, cache>> /\ Monotonic' = Monotonic
  BY DEF LoadCachedState, Monotonic
<1>2. PICK legible \in BOOLEAN :
        energy' = [clock |-> IF Resumable(legible) /\ ~reset THEN cache.clock ELSE NoReading,
                   restored |-> Resumable(legible) /\ ~reset,
                   counter |-> IF reset THEN 0 ELSE cache.counter,
                   since |-> IF reset THEN time ELSE cache.since]
  BY Zenon DEF LoadCachedState
<1>3. Resumable(legible) \in BOOLEAN
  BY DEF Resumable
<1>4. energy' \in [clock : Clocks, restored : BOOLEAN, counter : Nat, since : Nat]
  BY <1>2, <1>3 DEF ClockInv, ClockTypeOK, Clocks
<1>5. Lags(energy'.clock, energy'.counter, energy'.since)
  BY <1>2, <1>3 DEF ClockInv, ClockTypeOK, Lags, Resumable, Monotonic
<1> QED
  BY <1>1, <1>4, <1>5 DEF ClockInv, ClockTypeOK, Lags

\* At a reboot every clock on disk is of an earlier boot.
LEMMA ClockReboot == ASSUME EnergyAssumption, ClockInv, Reboot PROVE ClockInv'
<1>1. /\ host' = [boot |-> host.boot + 1, began |-> time] /\ capturing' = FALSE
      /\ UNCHANGED <<time, energy, cache>>
  BY DEF Reboot
<1>2. ClockTypeOK'
  <2>1. host.boot + 1 \in Nat /\ time \in Nat /\ time <= time
    BY DEF ClockInv, ClockTypeOK
  <2>2. host' \in [boot : Nat, began : Nat] /\ host'.began = time /\ capturing' \in BOOLEAN
    BY <1>1, <2>1
  <2> QED
    BY <1>1, <2>1, <2>2 DEF ClockInv, ClockTypeOK
<1>3. host'.boot = host.boot + 1 /\ cache.boot <= host.boot
      /\ host.boot \in Nat /\ cache.boot \in Nat
  BY <1>1 DEF ClockInv, ClockTypeOK
<1>4. cache.boot <= host'.boot /\ cache.boot # host'.boot
  BY <1>3
<1> QED
  BY <1>1, <1>2, <1>4 DEF ClockInv

LEMMA ClockTime == ASSUME EnergyAssumption, ClockInv, EnergyTime PROVE ClockInv'
<1>1. /\ time' = time + 1 /\ UNCHANGED <<host, capturing, energy, cache>>
      /\ Monotonic' = Monotonic + 1
  BY DEF EnergyTime, Monotonic, ClockInv, ClockTypeOK
<1>2. ClockTypeOK'
  BY <1>1 DEF ClockInv, ClockTypeOK
<1>3. ASSUME NEW clock \in Clocks, NEW counter \in Nat, NEW since \in Nat,
             Lags(clock, counter, since)
      PROVE  /\ counter <= time + 1 - since
             /\ clock # NoReading =>
                  clock <= Monotonic + 1 /\ counter <= host.began + clock - since
  BY <1>3 DEF Lags, Clocks, NoReading, Monotonic, ClockInv, ClockTypeOK
<1> QED
  BY <1>1, <1>2, <1>3 DEF ClockInv, ClockTypeOK, Lags

\* No moment is credited twice, and none before the counters were reset
\* (state.py 123), for any cap, cache interval, number of boots and time.
THEOREM EnergyCountsOnce == EnergySpec => []CreditedOnce
<1>1. EnergyInit => ClockInv
  BY ClockInit
<1>2. ClockInv /\ [EnergyNext]_energyVars => ClockInv'
  <2> SUFFICES ASSUME ClockInv, [EnergyNext]_energyVars PROVE ClockInv'
    OBVIOUS
  <2>1. CASE Payload
    BY <2>1, EnergyAssumption, ClockPayload
  <2>2. ASSUME NEW reset \in BOOLEAN, LoadCachedState(reset) PROVE ClockInv'
    BY <2>2, EnergyAssumption, ClockLoad
  <2>3. CASE CaptureDies
    BY <2>3 DEF CaptureDies, ClockInv, ClockTypeOK, Lags, Monotonic
  <2>4. CASE Reboot
    BY <2>4, EnergyAssumption, ClockReboot
  <2>5. CASE EnergyTime
    BY <2>5, EnergyAssumption, ClockTime
  <2>6. CASE UNCHANGED energyVars
    BY <2>6 DEF energyVars, ClockInv, ClockTypeOK, Lags, Monotonic
  <2> QED
    BY <2>1, <2>2, <2>3, <2>4, <2>5, <2>6 DEF EnergyNext
<1>3. ClockInv => CreditedOnce
  BY DEF ClockInv, Lags, CreditedOnce
<1> QED
  BY <1>1, <1>2, <1>3, PTL DEF EnergySpec

-----------------------------------------------------------------------------
(* The daily rows.  As long as every tick has dated its row by the local   *)
(* day, a row's sunset is the one of its day, and its sunrise is entered   *)
(* anew before it can fall due within its day: an actual sunrise is only   *)
(* filled in when the day is over and its prediction final.                *)

DailyRows ==
  [sunset : Int, sunrise : Int, actualSunset : Int, actualSunrise : Int]
SummaryTypeOK ==
  /\ now \in 0..MaxNow
  /\ tickLoc \in {"none", "known", "unknown"}
  /\ rows \in [Dates -> DailyRows]
  /\ misdated \in BOOLEAN

\* A row at a time at which its predictions may still change.
RowInOrder(row, d, t) ==
  /\ row.sunset \in {Unset, 4 * d + 3}
  /\ row.sunrise \in {Unset, 4 * d + 1, 4 * d + 5}
  /\ row.actualSunset \in {Unset, row.sunset}
  /\ row.actualSunrise # Unset =>
       row.actualSunrise = row.sunrise /\ 4 * (d + 1) <= t

RowsInv ==
  /\ SummaryTypeOK
  /\ ~misdated => \A d \in Dates : RowInOrder(rows[d], d, now)

\* The quarters of a day, and what the forecast says in each.
LEMMA Quarters ==
  ASSUME NEW t \in Nat
  PROVE  /\ t \div 4 \in Nat /\ 4 * (t \div 4) <= t /\ t < 4 * (t \div 4) + 4
         /\ NextSunset(t) \in {Unset, 4 * (t \div 4) + 3}
         /\ NextSunrise(t) \in {4 * (t \div 4) + 1, 4 * (t \div 4) + 5}
         /\ NextSunrise(t) > t
<1>1. t \div 4 \in Nat /\ 4 * (t \div 4) <= t /\ t < 4 * (t \div 4) + 4
  OBVIOUS
<1>2. NextSunset(t) \in {Unset, 4 * (t \div 4) + 3}
  BY DEF NextSunset
<1>3. /\ NextSunrise(t) \in {4 * (t \div 4) + 1, 4 * (t \div 4) + 5}
      /\ NextSunrise(t) > t
  BY <1>1 DEF NextSunrise
<1> QED
  BY <1>1, <1>2, <1>3

UpsertedRow(row, sunset, sunrise) ==
  [sunset |-> Known(sunset, row.sunset), sunrise |-> Known(sunrise, row.sunrise),
   actualSunset |-> row.actualSunset, actualSunrise |-> row.actualSunrise]

LEMMA UpsertTyped ==
  ASSUME NEW rs \in [Dates -> DailyRows], NEW date,
         NEW sunset \in Int, NEW sunrise \in Int
  PROVE  /\ Upserted(rs, date, sunset, sunrise) \in [Dates -> DailyRows]
         /\ \A d \in Dates :
              Upserted(rs, date, sunset, sunrise)[d] =
                IF d = date THEN UpsertedRow(rs[d], sunset, sunrise) ELSE rs[d]
<1> DEFINE r1 == [rs[date] EXCEPT !.sunset = Known(sunset, @)]
           u == [rs EXCEPT ![date] = r1]
<1>1. Upserted(rs, date, sunset, sunrise) = [u EXCEPT ![date].sunrise = Known(sunrise, @)]
  BY DEF Upserted
<1>2. CASE date \notin Dates
  BY <1>1, <1>2
<1>3. CASE date \in Dates
  <2>1. rs[date] \in DailyRows
    BY <1>3
  <2>2. r1 \in DailyRows
        /\ r1 = [sunset |-> Known(sunset, rs[date].sunset), sunrise |-> rs[date].sunrise,
                 actualSunset |-> rs[date].actualSunset, actualSunrise |-> rs[date].actualSunrise]
    BY <2>1 DEF DailyRows, Known
  <2> HIDE DEF r1
  <2>3. u \in [Dates -> DailyRows] /\ u[date] = r1 /\ \A d \in Dates \ {date} : u[d] = rs[d]
    BY <1>3, <2>2
  <2> HIDE DEF u
  <2>4. [r1 EXCEPT !.sunrise = Known(sunrise, @)] = UpsertedRow(rs[date], sunset, sunrise)
    BY <2>2 DEF UpsertedRow
  <2>5. UpsertedRow(rs[date], sunset, sunrise) \in DailyRows
    BY <2>1 DEF UpsertedRow, DailyRows, Known
  <2>6. [u EXCEPT ![date].sunrise = Known(sunrise, @)] =
          [u EXCEPT ![date] = UpsertedRow(rs[date], sunset, sunrise)]
    BY <1>3, <2>3, <2>4
  <2> QED
    BY <1>1, <1>3, <2>3, <2>5, <2>6
<1> QED
  BY <1>2, <1>3

LEMMA BackfillTyped ==
  ASSUME NEW rs \in [Dates -> DailyRows]
  PROVE  Backfilled(rs) \in [Dates -> DailyRows]
<1> DEFINE f(d) ==
             [rs[d] EXCEPT !.actualSunset = IF @ = Unset /\ Due(rs[d].sunset) THEN SocAt(rs[d].sunset) ELSE @,
                           !.actualSunrise = IF @ = Unset /\ Due(rs[d].sunrise) THEN SocAt(rs[d].sunrise) ELSE @]
<1>1. Backfilled(rs) = [d \in Dates |-> f(d)]
  BY Zenon DEF Backfilled
<1>2. ASSUME NEW d \in Dates PROVE f(d) \in DailyRows
  BY DEF DailyRows, SocAt, Unset
<1> HIDE DEF f
<1> QED
  BY <1>1, <1>2

\* Filling the actual values of a row whose sunrise does not fall due on its day.
LEMMA BackfillInOrder ==
  ASSUME NEW t \in Nat, now = t, NEW rs \in [Dates -> DailyRows], NEW d \in Dates, d \in Nat,
         RowInOrder(rs[d], d, t),
         t < 4 * (d + 1) => rs[d].sunrise = Unset \/ rs[d].sunrise > t
  PROVE  RowInOrder(Backfilled(rs)[d], d, t)
<1>1. rs[d] \in DailyRows
  OBVIOUS
<1>2. PICK a \in Int, b \in Int :
        /\ Backfilled(rs)[d] = [sunset |-> rs[d].sunset, sunrise |-> rs[d].sunrise,
                                actualSunset |-> a, actualSunrise |-> b]
        /\ a \in {rs[d].actualSunset, rs[d].sunset, Unset}
        /\ \/ b = rs[d].actualSunrise
           \/ b = Unset
           \/ b = rs[d].sunrise /\ rs[d].sunrise # Unset /\ rs[d].sunrise <= t
  BY <1>1 DEF Backfilled, DailyRows, SocAt, Due, Unset
<1> QED
  BY <1>1, <1>2 DEF RowInOrder, DailyRows, Unset

LEMMA TickInOrder ==
  ASSUME SummaryAssumption, RowsInv, TickEnds PROVE RowsInv'
<1>1. PICK known \in BOOLEAN : known = (tickLoc = "known")
  OBVIOUS
<1> DEFINE date == LocalDate(now, known)
           u == Upserted(rows, date, NextSunset(now), NextSunrise(now))
<1>2. /\ rows' = Backfilled(u) /\ now' = now
      /\ misdated' = (misdated \/ tickLoc = "unknown") /\ tickLoc' = "none"
      /\ tickLoc # "none"
  BY <1>1 DEF TickEnds, UpdateDailySummary
<1>3. now \in Nat /\ MaxNow \in Nat /\ Shift \in Nat /\ rows \in [Dates -> DailyRows]
  BY DEF SummaryAssumption, RowsInv, SummaryTypeOK
<1>4. NextSunset(now) \in Int /\ NextSunrise(now) \in Int
  BY <1>3, Quarters DEF Unset
<1>5. /\ u \in [Dates -> DailyRows]
      /\ \A d \in Dates :
           u[d] = IF d = date THEN UpsertedRow(rows[d], NextSunset(now), NextSunrise(now))
                  ELSE rows[d]
  <2> HIDE DEF date
  <2> QED
    BY <1>3, <1>4, UpsertTyped
<1>6. SummaryTypeOK'
  <2>1. rows' \in [Dates -> DailyRows]
    BY <1>2, <1>5, BackfillTyped, Zenon
  <2> QED
    BY <1>2, <2>1 DEF RowsInv, SummaryTypeOK
<1>7. ASSUME ~misdated', NEW d \in Dates PROVE RowInOrder(rows'[d], d, now)
  <2>1. known /\ ~misdated /\ date = now \div 4
    BY <1>1, <1>2, <1>7 DEF RowsInv, SummaryTypeOK, LocalDate
  <2>2. d \in Nat
    BY <1>3 DEF Dates
  <2>3. RowInOrder(rows[d], d, now) /\ rows[d] \in DailyRows
    BY <1>3, <2>1 DEF RowsInv
  <2>4. /\ RowInOrder(u[d], d, now)
        /\ now < 4 * (d + 1) => u[d].sunrise = Unset \/ u[d].sunrise > now
    <3>1. CASE d = date
      <4>1. u[d] = UpsertedRow(rows[d], NextSunset(now), NextSunrise(now))
        BY <1>5, <3>1, Zenon
      <4>2. PICK a \in Int, b \in Int :
              /\ u[d] = [sunset |-> a, sunrise |-> b, actualSunset |-> rows[d].actualSunset,
                         actualSunrise |-> rows[d].actualSunrise]
              /\ a = Known(NextSunset(now), rows[d].sunset)
              /\ b = Known(NextSunrise(now), rows[d].sunrise)
        BY <1>4, <2>3, <4>1 DEF UpsertedRow, DailyRows, Known
      <4>3. /\ 4 * d <= now /\ now < 4 * d + 4
            /\ NextSunset(now) \in {Unset, 4 * d + 3}
            /\ NextSunrise(now) \in {4 * d + 1, 4 * d + 5} /\ NextSunrise(now) > now
        BY <1>3, <2>1, <3>1, Quarters
      <4>4. b = NextSunrise(now) /\ a \in {Unset, 4 * d + 3}
            /\ (rows[d].sunset = a \/ rows[d].sunset = Unset)
        BY <2>2, <2>3, <4>2, <4>3 DEF Known, RowInOrder, Unset
      <4>5. rows[d].actualSunrise = Unset
        BY <1>3, <2>2, <2>3, <4>3 DEF RowInOrder
      <4> QED
        BY <1>3, <2>2, <2>3, <4>2, <4>3, <4>4, <4>5 DEF RowInOrder, Unset
    <3>2. CASE d # date
      <4>1. u[d] = rows[d]
        BY <1>5, <3>2, Zenon
      <4>2. now < 4 * (d + 1) => now < 4 * d
        <5>1. d # now \div 4 /\ now \div 4 \in Nat /\ 4 * (now \div 4) <= now
              /\ now < 4 * (now \div 4) + 4
          BY <1>3, <2>1, <3>2, Quarters
        <5> QED
          BY <1>3, <2>2, <5>1
      <4> QED
        BY <1>3, <2>2, <2>3, <4>1, <4>2 DEF RowInOrder, Unset
    <3> QED
      BY <3>1, <3>2
  <2> HIDE DEF u
  <2>5. u \in [Dates -> DailyRows] /\ now = now
    BY <1>5
  <2>6. RowInOrder(Backfilled(u)[d], d, now)
    BY <1>3, <2>2, <2>4, <2>5, BackfillInOrder
  <2> QED
    BY <1>2, <2>6
<1> QED
  BY <1>2, <1>6, <1>7 DEF RowsInv

\* The actual charge of a row is that of the sunset or the sunrise that its
\* prediction is about, unless a tick has dated a row without the offset, for
\* any place and number of days (server.py 2328-2331).
THEOREM ActualsMeetPredictions == SummarySpec => []ActualOfPredicted
<1>1. SummaryInit => RowsInv
  <2> SUFFICES ASSUME SummaryInit PROVE RowsInv
    OBVIOUS
  <2>1. MaxNow \in Nat
    BY SummaryAssumption DEF SummaryAssumption
  <2>2. EmptyRow \in DailyRows /\ \A d \in Dates : RowInOrder(EmptyRow, d, now)
    BY DEF EmptyRow, DailyRows, RowInOrder, Unset
  <2> QED
    <3>1. /\ rows = [d \in Dates |-> EmptyRow] /\ now = 0 /\ tickLoc = "none" /\ misdated = FALSE
      BY DEF SummaryInit
    <3>2. now \in 0..MaxNow /\ rows \in [Dates -> DailyRows]
          /\ \A d \in Dates : RowInOrder(rows[d], d, now)
      BY <2>1, <2>2, <3>1
    <3> QED
      BY <3>1, <3>2 DEF RowsInv, SummaryTypeOK
<1>2. RowsInv /\ [SummaryNext]_summaryVars => RowsInv'
  <2> SUFFICES ASSUME RowsInv, [SummaryNext]_summaryVars PROVE RowsInv'
    OBVIOUS
  <2>1. CASE TickStarts \/ TickFails \/ SetLocation \/ UpdateTimezone
    BY <2>1 DEF TickStarts, TickFails, SetLocation, UpdateTimezone, RowsInv, SummaryTypeOK
  <2>2. CASE TickEnds
    BY <2>2, SummaryAssumption, TickInOrder
  <2>3. CASE TimePasses
    <3>1. now' = now + 1 /\ now' \in 0..MaxNow /\ UNCHANGED <<tickLoc, rows, misdated>>
      BY <2>3, SummaryAssumption DEF SummaryAssumption, TimePasses, RowsInv, SummaryTypeOK
    <3>2. \A d \in Dates : d \in Nat
      BY SummaryAssumption DEF SummaryAssumption, Dates
    <3>3. now \in Nat
      BY DEF RowsInv, SummaryTypeOK
    <3>4. \A d \in Dates : RowInOrder(rows[d], d, now) => RowInOrder(rows[d], d, now + 1)
      BY <3>2, <3>3 DEF RowInOrder
    <3> QED
      BY <3>1, <3>4 DEF RowsInv, SummaryTypeOK
  <2>4. CASE UNCHANGED summaryVars
    BY <2>4 DEF summaryVars, RowsInv, SummaryTypeOK
  <2> QED
    BY <2>1, <2>2, <2>3, <2>4 DEF SummaryNext
<1>3. RowsInv => ActualOfPredicted
  BY DEF RowsInv, RowInOrder, ActualOfPredicted
<1> QED
  BY <1>1, <1>2, <1>3, PTL DEF SummarySpec

-----------------------------------------------------------------------------
(* The simulated charge.  Natural is a recursive function: that it exists  *)
(* and is the running sum is proved by induction, and so is that the hours *)
(* from one on have a worst one.                                           *)

LEMMA ForecastConstants ==
  /\ Horizon \in Nat /\ SolarCap \in Nat /\ IdleLoad \in Nat /\ Efficiency \in Nat
  /\ ExtraLoad \in Nat /\ ExtraFloor \in Nat /\ FullCharge \in Nat
  /\ Suns \subseteq Nat /\ Demands \subseteq Nat
  /\ ChargeCeiling \in Nat /\ ChargeCeiling <= FullCharge
BY ForecastAssumption DEF ForecastAssumption

LEMMA ClampedIs ==
  ASSUME NEW x \in Int
  PROVE  Clamped(x) = IF x < 0 THEN 0 ELSE IF x > FullCharge THEN FullCharge ELSE x
<1> DEFINE m == Min({x, FullCharge})
<1>1. FullCharge \in Int /\ FullCharge >= 0
  BY ForecastConstants
<1>2. m \in {x, FullCharge} /\ m <= x /\ m <= FullCharge
  BY <1>1, MinOfTwo
<1>3. Clamped(x) = Max({0, m})
  BY DEF Clamped
<1> HIDE DEF m
<1>4. m \in Int /\ 0 \in Int
  BY <1>1, <1>2
<1>5. Max({0, m}) \in {0, m} /\ 0 <= Max({0, m}) /\ m <= Max({0, m})
  BY <1>4, MaxOfTwo
<1> QED
  BY <1>1, <1>2, <1>3, <1>4, <1>5

\* What an hour changes when nothing is clamped.
Step(h) == Stored(NetOf(h))

LEMMA StoredType ==
  ASSUME NEW x \in Int PROVE Stored(x) \in Int
  BY ForecastConstants DEF Stored

HourlyWeather == [sun : Suns, demand : Demands, asleep : BOOLEAN]
Weathers == [ForecastHours -> HourlyWeather]

LEMMA HourNet ==
  ASSUME NEW w \in HourlyWeather
  PROVE  SolarOf(w) \in Int /\ LoadOf(w) \in Int
<1>1. PICK s \in Suns, d \in Demands : w.sun = s /\ w.demand = d
  BY DEF HourlyWeather
<1>2. s \in Int /\ d \in Int /\ SolarCap \in Int /\ IdleLoad \in Int
  BY ForecastConstants
<1>3. Min({s, SolarCap}) \in Int
  BY <1>2, MinOfTwo
<1> QED
  BY <1>1, <1>2, <1>3 DEF SolarOf, LoadOf

LEMMA NetType ==
  ASSUME weather \in Weathers, NEW h \in ForecastHours
  PROVE  NetOf(h) \in Int /\ Step(h) \in Int
<1>1. weather[h] \in HourlyWeather
  BY DEF Weathers
<1>2. NetOf(h) \in Int
  BY <1>1, HourNet DEF NetOf
<1> QED
  BY <1>2, StoredType DEF Step

\* The sums exist.
Sums(n, f) ==
  /\ f \in [1 .. n + 1 -> Int]
  /\ f[1] = 0
  /\ \A k \in 1 .. n : f[k + 1] = f[k] + Step(k)

LEMMA SumsExist ==
  ASSUME weather \in Weathers
  PROVE  \E f : Sums(Horizon, f)
<1> DEFINE S == {n \in Nat : n <= Horizon => \E f : Sums(n, f)}
<1>1. 0 \in S
  <2>1. Sums(0, [k \in 1 .. 1 |-> 0])
    BY DEF Sums
  <2> QED
    BY <2>1
<1>2. ASSUME NEW n \in Nat, n \in S PROVE n + 1 \in S
  <2> SUFFICES ASSUME n + 1 <= Horizon PROVE \E f : Sums(n + 1, f)
    OBVIOUS
  <2>1. PICK f : Sums(n, f)
    BY <1>2, ForecastConstants
  <2> DEFINE g == [k \in 1 .. (n + 1) + 1 |-> IF k = n + 2 THEN f[n + 1] + Step(n + 1) ELSE f[k]]
  <2>2. Step(n + 1) \in Int
    BY NetType, ForecastConstants DEF ForecastHours
  <2>3. n + 1 \in 1 .. n + 1 /\ f[n + 1] \in Int
    BY <2>1 DEF Sums
  <2>4. g \in [1 .. (n + 1) + 1 -> Int] /\ g[1] = 0
    BY <2>1, <2>2, <2>3 DEF Sums
  <2>5. ASSUME NEW k \in 1 .. n + 1 PROVE g[k + 1] = g[k] + Step(k)
    <3>1. CASE k = n + 1
      BY <3>1
    <3>2. CASE k # n + 1
      BY <2>1, <3>2 DEF Sums
    <3> QED
      BY <3>1, <3>2
  <2>6. Sums(n + 1, g)
    <3> HIDE DEF g
    <3> QED
      BY <2>4, <2>5 DEF Sums
  <2> QED
    BY <2>6
<1> HIDE DEF S
<1>3. Horizon \in S
  BY <1>1, <1>2, Induction, ForecastConstants
<1> QED
  BY <1>3, ForecastConstants DEF S

LEMMA NaturalSums ==
  ASSUME weather \in Weathers
  PROVE  Sums(Horizon, Natural)
<1> DEFINE D == 1 .. Horizon + 1
           Eqn(f) == f = [h \in D |-> IF h = 1 THEN 0 ELSE f[h - 1] + Stored(NetOf(h - 1))]
<1>1. PICK f : Sums(Horizon, f)
  BY SumsExist
<1>2. Eqn(f)
  <2>1. ASSUME NEW h \in D
        PROVE  f[h] = IF h = 1 THEN 0 ELSE f[h - 1] + Stored(NetOf(h - 1))
    <3>1. CASE h = 1
      BY <1>1, <3>1 DEF Sums
    <3>2. CASE h # 1
      <4>1. h - 1 \in 1 .. Horizon /\ (h - 1) + 1 = h
        BY <3>2, ForecastConstants
      <4> QED
        BY <1>1, <3>2, <4>1 DEF Sums, Step
    <3> QED
      BY <3>1, <3>2
  <2>2. f = [h \in D |-> f[h]]
    BY <1>1 DEF Sums
  <2> QED
    BY <2>1, <2>2
<1>3. Eqn(Natural)
  BY <1>2 DEF Natural
<1> HIDE DEF Eqn
<1>4. \A h \in D : Natural[h] = IF h = 1 THEN 0 ELSE Natural[h - 1] + Step(h - 1)
  BY <1>3 DEF Eqn, Step
<1>5. \A k \in 1 .. Horizon : Natural[k + 1] = Natural[k] + Step(k)
  <2> TAKE k \in 1 .. Horizon
  <2>1. k + 1 \in D /\ k + 1 # 1 /\ (k + 1) - 1 = k
    BY ForecastConstants
  <2> QED
    BY <1>4, <2>1
<1>6. Natural[1] = 0
  BY <1>4, ForecastConstants
<1>7. DOMAIN Natural = D /\ Natural = [h \in D |-> Natural[h]]
  BY <1>3 DEF Eqn
<1>8. \A h \in D : Natural[h] \in Int
  <2> DEFINE S == {n \in Nat : n <= Horizon => Natural[n + 1] \in Int}
  <2>1. 0 \in S
    BY <1>6
  <2>2. ASSUME NEW n \in Nat, n \in S PROVE n + 1 \in S
    <3> SUFFICES ASSUME n + 1 <= Horizon PROVE Natural[(n + 1) + 1] \in Int
      OBVIOUS
    <3>1. n + 1 \in 1 .. Horizon /\ Natural[n + 1] \in Int
      BY <2>2, ForecastConstants
    <3>2. Step(n + 1) \in Int
      BY <3>1, NetType DEF ForecastHours
    <3> QED
      BY <1>5, <3>1, <3>2
  <2> HIDE DEF S
  <2>3. Nat \subseteq S
    BY <2>1, <2>2, Induction
  <2> TAKE h \in D
  <2>4. h - 1 \in Nat /\ h - 1 <= Horizon /\ (h - 1) + 1 = h
    BY ForecastConstants
  <2>5. h - 1 \in S
    BY <2>3, <2>4
  <2> QED
    BY <2>4, <2>5 DEF S
<1> QED
  BY <1>5, <1>6, <1>7, <1>8 DEF Sums

-----------------------------------------------------------------------------
\* The least of the sums from an hour on exists.
IsLeast(x, S) == x \in S /\ \A y \in S : x <= y
From(h) == {Natural[k] : k \in h .. Horizon + 1}

LEMMA LeastIsMin ==
  ASSUME NEW S, NEW x, IsLeast(x, S)
  PROVE  IsLeast(Min(S), S)
BY DEF IsLeast, Min

LEMMA FromHasLeast ==
  ASSUME weather \in Weathers, NEW h \in 1 .. Horizon + 1
  PROVE  IsLeast(Min(From(h)), From(h))
<1>1. Sums(Horizon, Natural)
  BY NaturalSums
<1>2. \A k \in 1 .. Horizon + 1 : Natural[k] \in Int
  BY <1>1 DEF Sums
<1> DEFINE Has(k) == \E x : IsLeast(x, From(k))
           S == {n \in Nat : n <= Horizon => Has(Horizon + 1 - n)}
<1>3. 0 \in S
  <2>1. From(Horizon + 1 - 0) = {Natural[Horizon + 1]}
    BY ForecastConstants DEF From
  <2>2. Natural[Horizon + 1] \in Int
    BY <1>2, ForecastConstants
  <2>3. IsLeast(Natural[Horizon + 1], From(Horizon + 1 - 0))
    BY <2>1, <2>2 DEF IsLeast
  <2> QED
    BY <2>3
<1>4. ASSUME NEW n \in Nat, n \in S PROVE n + 1 \in S
  <2> SUFFICES ASSUME n + 1 <= Horizon PROVE Has(Horizon + 1 - (n + 1))
    OBVIOUS
  <2> DEFINE k == Horizon - n
  <2>1. k \in 1 .. Horizon /\ Horizon + 1 - (n + 1) = k /\ Horizon + 1 - n = k + 1
    BY ForecastConstants
  <2>2. PICK x : IsLeast(x, From(k + 1))
    BY <1>4, <2>1, ForecastConstants
  <2> HIDE DEF k
  <2>3. From(k) = From(k + 1) \cup {Natural[k]}
    BY <2>1, ForecastConstants DEF From
  <2>4. From(k + 1) \subseteq Int /\ Natural[k] \in Int
    BY <1>2, <2>1, ForecastConstants DEF From
  <2>5. CASE x <= Natural[k]
    <3>1. IsLeast(x, From(k))
      BY <2>2, <2>3, <2>4, <2>5 DEF IsLeast
    <3> QED
      BY <2>1, <3>1
  <2>6. CASE ~(x <= Natural[k])
    <3>1. IsLeast(Natural[k], From(k))
      BY <2>2, <2>3, <2>4, <2>6 DEF IsLeast
    <3> QED
      BY <2>1, <3>1
  <2> QED
    BY <2>5, <2>6
<1> HIDE DEF S
<1>5. Nat \subseteq S
  BY <1>3, <1>4, Induction
<1>6. Horizon + 1 - h \in Nat /\ Horizon + 1 - h <= Horizon /\ Horizon + 1 - (Horizon + 1 - h) = h
  BY ForecastConstants
<1>7. Has(h)
  <2>1. Horizon + 1 - h \in S
    BY <1>5, <1>6
  <2>2. Has(Horizon + 1 - (Horizon + 1 - h))
    BY <1>6, <2>1 DEF S
  <2> QED
    BY <1>6, <2>2
<1> QED
  BY <1>7, LeastIsMin

\* What may still be lost, hour by hour.
LEMMA WorstStep ==
  ASSUME weather \in Weathers, NEW h \in 1 .. Horizon + 1
  PROVE  /\ WorstFrom(h) \in Int /\ WorstFrom(h) <= 0
         /\ h <= Horizon => WorstFrom(h) <= Step(h) + WorstFrom(h + 1)
<1>1. Sums(Horizon, Natural)
  BY NaturalSums
<1>2. \A k \in 1 .. Horizon + 1 : Natural[k] \in Int /\ From(k) \subseteq Int
  BY <1>1 DEF Sums, From
<1>3. WorstFrom(h) = Min(From(h)) - Natural[h]
  BY DEF WorstFrom, From
<1>4. Natural[h] \in From(h)
  BY DEF From
<1>5. WorstFrom(h) \in Int /\ WorstFrom(h) <= 0
  BY <1>2, <1>3, <1>4, FromHasLeast DEF IsLeast
<1>6. ASSUME h <= Horizon PROVE WorstFrom(h) <= Step(h) + WorstFrom(h + 1)
  <2>1. h + 1 \in 1 .. Horizon + 1 /\ h \in 1 .. Horizon
    BY <1>6, ForecastConstants
  <2>2. Min(From(h + 1)) \in From(h + 1) /\ Min(From(h + 1)) \in Int
    BY <1>2, <2>1, FromHasLeast DEF IsLeast
  <2>3. From(h + 1) \subseteq From(h)
    BY <2>1, ForecastConstants DEF From
  <2>4. Min(From(h)) <= Min(From(h + 1)) /\ Min(From(h)) \in Int
    BY <1>2, <2>2, <2>3, FromHasLeast DEF IsLeast
  <2>5. WorstFrom(h + 1) = Min(From(h + 1)) - Natural[h + 1]
    BY DEF WorstFrom, From
  <2>6. Natural[h + 1] = Natural[h] + Step(h)
    BY <1>1, <2>1 DEF Sums
  <2>7. Step(h) \in Int /\ Natural[h] \in Int /\ Natural[h + 1] \in Int
    BY <1>2, <2>1, NetType DEF ForecastHours
  <2> QED
    BY <1>3, <2>2, <2>4, <2>5, <2>6, <2>7
<1> QED
  BY <1>5, <1>6

-----------------------------------------------------------------------------
\* As soon as the car has taken something, either the baseline is as low, or
\* what the rest of the forecast can take from the charge leaves the floor.
ForecastInv ==
  /\ weather \in Weathers /\ hour \in 1 .. Horizon + 1
  /\ baseline \in 0 .. FullCharge /\ diverted \in 0 .. FullCharge
  /\ diverted >= baseline \/ diverted + WorstFrom(hour) >= ExtraFloor

LEMMA AfterIs ==
  ASSUME NEW soc \in Int, NEW net \in Int
  PROVE  /\ After(soc, net) \in 0 .. FullCharge
         /\ After(soc, net) = IF Clamped(soc + Stored(net)) <= ChargeCeiling
                                THEN Clamped(soc + Stored(net)) ELSE ChargeCeiling
<1>1. soc + Stored(net) \in Int
  BY StoredType
<1>2. Clamped(soc + Stored(net)) \in 0 .. FullCharge
  BY <1>1, ClampedIs, ForecastConstants
<1>3. ChargeCeiling \in Int
  BY ForecastConstants
<1> DEFINE c == Clamped(soc + Stored(net))
<1> HIDE DEF c
<1>4. c \in Int
  BY <1>2 DEF c
<1>5. Min({c, ChargeCeiling}) \in {c, ChargeCeiling} /\ Min({c, ChargeCeiling}) <= c
      /\ Min({c, ChargeCeiling}) <= ChargeCeiling
  BY <1>3, <1>4, MinOfTwo
<1>6. After(soc, net) = Min({c, ChargeCeiling})
  BY DEF After, c
<1>7. After(soc, net) = IF c <= ChargeCeiling THEN c ELSE ChargeCeiling
  BY <1>3, <1>4, <1>5, <1>6
<1> QED
  BY <1>2, <1>3, <1>7, ForecastConstants DEF c

LEMMA SimulatedHour ==
  ASSUME ForecastInv, SimulateHour PROVE ForecastInv'
<1>1. /\ weather \in Weathers /\ hour \in 1 .. Horizon /\ hour' = hour + 1 /\ weather' = weather
      /\ baseline \in Int /\ diverted \in Int
  BY ForecastConstants DEF SimulateHour, ForecastInv
<1>2. NetOf(hour) \in Int /\ Step(hour) \in Int /\ NetOf(hour) - ExtraLoad \in Int
      /\ Stored(NetOf(hour) - ExtraLoad) \in Int
  BY <1>1, NetType, StoredType, ForecastConstants DEF ForecastHours
<1> DEFINE w == WorstFrom(hour + 1)
           b == Clamped(baseline + Step(hour))
           d == Clamped(diverted + Step(hour))
           c == Clamped(diverted + Stored(NetOf(hour) - ExtraLoad))
<1>3. w \in Int /\ w <= 0 /\ WorstFrom(hour) <= Step(hour) + w /\ WorstFrom(hour) \in Int
  BY <1>1, WorstStep, ForecastConstants
<1>4. WorstFrom(hour)' = WorstFrom(hour') /\ WorstFrom(hour') = w
  <2>1. UNCHANGED Natural
    BY <1>1 DEF Natural, NetOf
  <2> QED
    BY <1>1, <2>1 DEF WorstFrom
<1>5. baseline' = IF b <= ChargeCeiling THEN b ELSE ChargeCeiling
  BY <1>1, <1>2, AfterIs DEF SimulateHour, Step
<1>6. baseline' \in 0 .. FullCharge /\ diverted' \in 0 .. FullCharge
  <2> DEFINE n == NetOf(hour) - (IF Diverts(hour, diverted) THEN ExtraLoad ELSE 0)
  <2>1. baseline' = After(baseline, NetOf(hour)) /\ diverted' = After(diverted, n)
    BY DEF SimulateHour
  <2>2. n \in Int
    BY <1>2
  <2> HIDE DEF n
  <2> QED
    BY <1>1, <1>2, <2>1, <2>2, AfterIs
<1>7. ChargeCeiling \in Int /\ ExtraFloor \in Int /\ ChargeCeiling <= FullCharge /\ FullCharge \in Nat
  BY ForecastConstants
<1>8. b \in Int /\ d \in Int /\ c \in Int
  BY <1>1, <1>2, <1>7, ClampedIs
<1>9. diverted' >= baseline' \/ diverted' + w >= ExtraFloor
  <2>1. CASE Diverts(hour, diverted)
    <3>1. c + w >= ExtraFloor
      BY <2>1 DEF Diverts
    <3>2. diverted' = IF c <= ChargeCeiling THEN c ELSE ChargeCeiling
      BY <1>1, <1>2, <2>1, AfterIs DEF SimulateHour
    <3> HIDE DEF b, c, d, w
    <3> QED
      BY <1>3, <1>5, <1>7, <1>8, <3>1, <3>2
  <2>2. CASE ~Diverts(hour, diverted)
    <3>1. diverted' = After(diverted, NetOf(hour))
      BY <1>2, <2>2 DEF SimulateHour
    <3>2. diverted' = IF d <= ChargeCeiling THEN d ELSE ChargeCeiling
      BY <1>1, <1>2, <3>1, AfterIs DEF Step
    <3>3. CASE diverted >= baseline
      <4>1. d >= b
        BY <1>1, <1>2, <1>7, <3>3, ClampedIs
      <4> HIDE DEF b, c, d, w
      <4> QED
        BY <1>5, <1>7, <1>8, <3>2, <4>1
    <3>4. CASE diverted + WorstFrom(hour) >= ExtraFloor
      <4>1. d >= diverted + Step(hour) \/ d = FullCharge
        BY <1>1, <1>2, <1>7, ClampedIs
      <4>2. diverted + Step(hour) + w >= ExtraFloor
        BY <1>1, <1>2, <1>3, <1>7, <3>4
      <4> HIDE DEF b, c, d, w
      <4> QED
        BY <1>1, <1>2, <1>3, <1>5, <1>7, <1>8, <3>2, <4>1, <4>2
    <3> QED
      BY <3>3, <3>4 DEF ForecastInv
  <2> QED
    BY <2>1, <2>2
<1>10. hour' \in 1 .. Horizon + 1
  BY <1>1, ForecastConstants
<1> HIDE DEF b, c, d, w
<1>11. diverted' >= baseline' \/ diverted' + WorstFrom(hour)' >= ExtraFloor
  BY <1>4, <1>9
<1> QED
  BY <1>1, <1>6, <1>10, <1>11 DEF ForecastInv, Weathers, ForecastHours, HourlyWeather

\* The forecast with the car never falls below the floor in an hour in which
\* the one without it does not, for any horizon, weather, load, efficiency,
\* floor and ceiling of the charge (forecaster.py 1755).
THEOREM FloorIsSpared == ForecastSpec => []DiversionSparesFloor
<1>1. ForecastInit => ForecastInv
  BY ForecastConstants DEF ForecastInit, ForecastInv, Weathers, HourlyWeather
<1>2. ForecastInv /\ [ForecastNext]_forecastVars => ForecastInv'
  <2> SUFFICES ASSUME ForecastInv, [ForecastNext]_forecastVars PROVE ForecastInv'
    OBVIOUS
  <2>1. CASE UNCHANGED forecastVars
    <3>1. UNCHANGED <<weather, hour, baseline, diverted>>
      BY <2>1 DEF forecastVars
    <3>2. UNCHANGED Natural
      BY <3>1 DEF Natural, NetOf
    <3> QED
      BY <3>1, <3>2 DEF ForecastInv, WorstFrom, Weathers
  <2> QED
    BY <2>1, SimulatedHour DEF ForecastNext
<1>3. ForecastInv => DiversionSparesFloor
  <2> SUFFICES ASSUME ForecastInv PROVE DiversionSparesFloor
    OBVIOUS
  <2>1. WorstFrom(hour) \in Int /\ WorstFrom(hour) <= 0
    BY WorstStep DEF ForecastInv
  <2>2. ExtraFloor \in Int /\ baseline \in Int /\ diverted \in Int
    BY ForecastConstants DEF ForecastInv
  <2>3. Min({ExtraFloor, baseline}) <= ExtraFloor /\ Min({ExtraFloor, baseline}) <= baseline
        /\ Min({ExtraFloor, baseline}) \in {ExtraFloor, baseline}
    BY <2>2, MinOfTwo
  <2> QED
    BY <2>1, <2>2, <2>3 DEF ForecastInv, DiversionSparesFloor
<1> QED
  BY <1>1, <1>2, <1>3, PTL DEF ForecastSpec

-----------------------------------------------------------------------------
(* The stream.  What is kept is consecutive and ends where the next byte   *)
(* is expected, and what is parked was sent; sequence numbers of the       *)
(* connection are in the order of its positions, for it is shorter than    *)
(* half of their range.                                                    *)

LEMMA StreamConstants ==
  /\ SeqSpace \in Nat /\ SeqSpace > 0 /\ PacketLen \in Nat /\ PacketLen > 0
  /\ Total \in Nat /\ Total < SeqSpace \div 2 /\ 2 * Total < SeqSpace /\ SeqSpace \div 2 < SeqSpace
  /\ SeqSpace \div 2 \in Nat
  /\ FirstSeq \in 0 .. SeqSpace - 1 /\ MaxSegment \in Nat /\ MaxStreamBuffer \in Nat
<1>1. /\ SeqSpace \in Nat /\ SeqSpace > 0 /\ PacketLen \in Nat /\ PacketLen > 0 /\ NumPackets \in Nat
      /\ NumPackets * PacketLen < SeqSpace \div 2
      /\ FirstSeq \in 0 .. SeqSpace - 1 /\ MaxSegment \in Nat /\ MaxStreamBuffer \in Nat
  BY StreamAssumption DEF StreamAssumption
<1>2. Total \in Nat
  BY <1>1 DEF Total
<1>3. Total < SeqSpace \div 2
  BY <1>1 DEF Total
<1>4. SeqSpace \div 2 \in Nat /\ 2 * (SeqSpace \div 2) <= SeqSpace
  BY <1>1
<1> QED
  BY <1>1, <1>2, <1>3, <1>4

Positions == 0 .. Total

\* Sequence numbers of positions: moves, order and distance.
LEMMA SeqIs ==
  ASSUME NEW p \in Positions
  PROVE  /\ SeqNumber(p) = IF FirstSeq + p < SeqSpace THEN FirstSeq + p ELSE FirstSeq + p - SeqSpace
         /\ SeqNumber(p) \in 0 .. SeqSpace - 1 /\ SeqNumber(p) # NoSeq
<1>0. SeqSpace \in Nat /\ p \in Nat /\ p < SeqSpace
  BY StreamConstants DEF Positions
<1>1. FirstSeq + p \in -SeqSpace .. 2 * SeqSpace - 1 /\ ~(FirstSeq + p < 0)
  BY <1>0, StreamConstants
<1>2. (FirstSeq + p) % SeqSpace
        = IF FirstSeq + p < 0 THEN FirstSeq + p + SeqSpace
          ELSE IF FirstSeq + p < SeqSpace THEN FirstSeq + p ELSE FirstSeq + p - SeqSpace
  <2> DEFINE x == FirstSeq + p
  <2>1. x \in -SeqSpace .. 2 * SeqSpace - 1
    BY <1>1
  <2> HIDE DEF x
  <2>2. x % SeqSpace = IF x < 0 THEN x + SeqSpace ELSE IF x < SeqSpace THEN x ELSE x - SeqSpace
    BY <2>1, StreamConstants, NearMod
  <2> QED
    BY <2>1, <2>2, <1>0, StreamConstants DEF x
<1>3. SeqNumber(p) = IF FirstSeq + p < SeqSpace THEN FirstSeq + p ELSE FirstSeq + p - SeqSpace
  BY <1>0, <1>1, <1>2, StreamConstants DEF SeqNumber
<1> QED
  BY <1>0, <1>1, <1>3, StreamConstants DEF NoSeq

LEMMA SeqMoves ==
  ASSUME NEW p \in Positions, NEW n \in Nat, p + n \in Positions
  PROVE  (SeqNumber(p) + n) % SeqSpace = SeqNumber(p + n)
<1> DEFINE x == SeqNumber(p) + n
<1>1. x \in -SeqSpace .. 2 * SeqSpace - 1
  BY SeqIs, StreamConstants DEF Positions
<1>2. x % SeqSpace = IF x < 0 THEN x + SeqSpace ELSE IF x < SeqSpace THEN x ELSE x - SeqSpace
  <2> HIDE DEF x
  <2> QED
    BY <1>1, StreamConstants, NearMod
<1> QED
  BY <1>1, <1>2, SeqIs, StreamConstants DEF Positions

LEMMA SeqDistance ==
  ASSUME NEW p \in Positions, NEW q \in Positions
  PROVE  SeqDiff(SeqNumber(p), SeqNumber(q)) = IF q <= p THEN p - q ELSE SeqSpace - (q - p)
<1> DEFINE x == SeqNumber(p) - SeqNumber(q)
<1>1. x \in -SeqSpace .. 2 * SeqSpace - 1
  BY SeqIs, StreamConstants
<1>2. x % SeqSpace = IF x < 0 THEN x + SeqSpace ELSE IF x < SeqSpace THEN x ELSE x - SeqSpace
  <2> HIDE DEF x
  <2> QED
    BY <1>1, StreamConstants, NearMod
<1> QED
  BY <1>1, <1>2, SeqIs, StreamConstants DEF Positions, SeqDiff

LEMMA SeqOrder ==
  ASSUME NEW p \in Positions, NEW q \in Positions
  PROVE  /\ SeqLt(SeqNumber(p), SeqNumber(q)) <=> p < q
         /\ SeqNumber(p) = SeqNumber(q) => p = q
<1>1. SeqDiff(SeqNumber(q), SeqNumber(p)) = IF p <= q THEN q - p ELSE SeqSpace - (p - q)
  BY SeqDistance
<1>2. SeqLt(SeqNumber(p), SeqNumber(q)) <=> p < q
  BY <1>1, StreamConstants DEF SeqLt, Positions
<1>3. SeqNumber(p) = SeqNumber(q) => p = q
  BY SeqIs, StreamConstants DEF Positions
<1> QED
  BY <1>2, <1>3

-----------------------------------------------------------------------------
\* Consecutive bytes that end before position q.
Run(b, q) ==
  /\ b \in Seq(Nat) /\ Len(b) <= q
  /\ \A i \in 1 .. Len(b) : b[i] = q - Len(b) + i - 1

LEMMA RunEmpty == ASSUME NEW q \in Nat PROVE Run(<<>>, q)
  BY DEF Run

LEMMA RunJoins ==
  ASSUME NEW p \in Nat, NEW q \in Nat, NEW a, NEW b, Run(a, p), Run(b, q), Len(b) = q - p
  PROVE  Run(a \o b, q)
<1>1. a \in Seq(Nat) /\ b \in Seq(Nat) /\ Len(a) \in Nat /\ Len(b) \in Nat /\ Len(a) <= p
  BY DEF Run
<1>2. a \o b \in Seq(Nat) /\ Len(a \o b) = Len(a) + Len(b)
  BY <1>1, ConcatProperties
<1>3. ASSUME NEW i \in 1 .. Len(a \o b) PROVE (a \o b)[i] = q - Len(a \o b) + i - 1
  <2>1. CASE i <= Len(a)
    <3>1. (a \o b)[i] = a[i]
      BY <1>1, <1>2, <2>1, ConcatProperties
    <3>2. a[i] = p - Len(a) + i - 1
      BY <1>1, <2>1 DEF Run
    <3> QED
      BY <1>1, <1>2, <3>1, <3>2
  <2>2. CASE i > Len(a)
    <3>1. (a \o b)[i] = b[i - Len(a)]
      BY <1>1, <1>2, <2>2, ConcatProperties
    <3>2. b[i - Len(a)] = q - Len(b) + (i - Len(a)) - 1
      BY <1>1, <1>2, <2>2 DEF Run
    <3> QED
      BY <1>1, <1>2, <3>1, <3>2
  <2> QED
    BY <1>1, <1>2, <2>1, <2>2
<1> QED
  BY <1>1, <1>2, <1>3 DEF Run

\* The end of a run is a run, and so is a packet's worth of it.
LEMMA RunEnds ==
  ASSUME NEW q \in Nat, NEW b, Run(b, q), NEW i \in 1 .. Len(b) + 1
  PROVE  /\ Run(SubSeq(b, i, Len(b)), q)
         /\ Len(SubSeq(b, i, Len(b))) = Len(b) - i + 1
<1>1. b \in Seq(Nat) /\ Len(b) \in Nat /\ Len(b) <= q
  BY DEF Run
<1> DEFINE e == SubSeq(b, i, Len(b))
<1>2. e \in Seq(Nat) /\ Len(e) = Len(b) - i + 1 /\ \A j \in 1 .. Len(b) - i + 1 : e[j] = b[i + j - 1]
  BY <1>1, SubSeqProperties
<1>3. \A j \in 1 .. Len(e) : e[j] = q - Len(e) + j - 1
  BY <1>1, <1>2 DEF Run
<1> HIDE DEF e
<1>4. Run(e, q)
  BY <1>1, <1>2, <1>3 DEF Run
<1> QED
  BY <1>2, <1>4 DEF e

Packets == {s \in Seq(Nat) : Len(s) = PacketLen /\ s[1] % PacketLen = 0
                               /\ \A j \in 2 .. PacketLen : s[j] = s[1] + j - 1}

LEMMA RunPacket ==
  ASSUME NEW q \in Nat, NEW b, Run(b, q), NEW i \in 1 .. Len(b), HeaderIsPlausible(b[i]),
         i + PacketLen <= Len(b) + 1
  PROVE  SubSeq(b, i, i + PacketLen - 1) \in Packets
<1>1. b \in Seq(Nat) /\ Len(b) \in Nat /\ Len(b) <= q /\ PacketLen \in Nat /\ PacketLen > 0
  BY StreamConstants DEF Run
<1> DEFINE e == SubSeq(b, i, i + PacketLen - 1)
<1>2. e \in Seq(Nat) /\ Len(e) = PacketLen /\ \A j \in 1 .. PacketLen : e[j] = b[i + j - 1]
  <2>1. i \in 1 .. Len(b) + 1 /\ i + PacketLen - 1 \in i - 1 .. Len(b)
    BY <1>1
  <2>2. (i + PacketLen - 1) - i + 1 = PacketLen
    BY <1>1
  <2> QED
    BY <1>1, <2>1, <2>2, SubSeqProperties
<1>3. e[1] = b[i] /\ \A j \in 1 .. PacketLen : e[j] = q - Len(b) + i + j - 2
  BY <1>1, <1>2 DEF Run
<1>4. e[1] % PacketLen = 0
  BY <1>3 DEF HeaderIsPlausible
<1> HIDE DEF e
<1>5. \A j \in 2 .. PacketLen : e[j] = e[1] + j - 1
  <2>1. e[1] = q - Len(b) + i + 1 - 2 /\ 1 \in 1 .. PacketLen
    BY <1>1, <1>3
  <2> QED
    BY <1>1, <1>3, <2>1
<1> QED
  BY <1>2, <1>4, <1>5 DEF Packets, e

\* What is taken from a run: packets, and a run that is left.
Founds(q) == {r \in [rest : Seq(Nat), got : Seq(Packets)] : Run(r.rest, q)}

LEMMA FromExtends ==
  ASSUME NEW q \in Nat, NEW more \in Founds(q), NEW pk \in Packets
  PROVE  [more EXCEPT !.got = <<pk>> \o @] \in Founds(q)
<1>1. more \in [rest : Seq(Nat), got : Seq(Packets)] /\ Run(more.rest, q)
  BY DEF Founds
<1>2. <<pk>> \in Seq(Packets) /\ more.got \in Seq(Packets)
  BY <1>1
<1>3. <<pk>> \o more.got \in Seq(Packets)
  BY <1>2, ConcatProperties
<1> DEFINE g == <<pk>> \o more.got
<1> HIDE DEF g
<1>4. [more EXCEPT !.got = g] \in [rest : Seq(Nat), got : Seq(Packets)]
      /\ [more EXCEPT !.got = g].rest = more.rest
  BY <1>1, <1>3 DEF g
<1>5. [more EXCEPT !.got = g] \in Founds(q)
  BY <1>1, <1>4 DEF Founds
<1> QED
  BY <1>5 DEF g

LEMMA NothingFound ==
  ASSUME NEW q \in Nat, NEW b \in Seq(Nat), Run(b, q)
  PROVE  [rest |-> b, got |-> <<>>] \in Founds(q)
<1>1. <<>> \in Seq(Packets)
  OBVIOUS
<1> DEFINE r == [rest |-> b, got |-> <<>>]
<1>2. r \in [rest : Seq(Nat), got : Seq(Packets)] /\ r.rest = b
  BY <1>1
<1> HIDE DEF r
<1>3. r \in Founds(q)
  BY <1>2 DEF Founds
<1> QED
  BY <1>3 DEF r

LEMMA ExtractFinds ==
  ASSUME NEW q \in Nat, NEW bytes, Run(bytes, q)
  PROVE  Extract(bytes) \in Founds(q)
<1> DEFINE L == Len(bytes)
           Body(f, i) ==
             IF i <= L /\ ~HeaderIsPlausible(bytes[i]) THEN f[i + 1]
             ELSE IF i + PacketLen > L + 1
                  THEN [rest |-> SubSeq(bytes, i, L), got |-> <<>>]
             ELSE [f[i + PacketLen] EXCEPT !.got = <<SubSeq(bytes, i, i + PacketLen - 1)>> \o @]
           Defined(f, n) == \A i \in L + 1 - n .. L + 1 : f[i] = Body(f, i)
           S == {n \in Nat : n <= L => \E f : Defined(f, n)}
           Eqn(f) == f = [i \in 1 .. L + 1 |-> Body(f, i)]
<1>1. L \in Nat /\ PacketLen \in Nat /\ PacketLen > 0
  BY StreamConstants DEF Run
<1>2. 0 \in S
  <2> DEFINE r == [rest |-> SubSeq(bytes, L + 1, L), got |-> <<>>]
             f == [i \in {L + 1} |-> r]
  <2>1. \A i \in L + 1 - 0 .. L + 1 : i = L + 1 /\ Body(f, i) = r
    BY <1>1
  <2>2. Defined(f, 0)
    BY <1>1, <2>1
  <2> QED
    BY <2>2
<1>3. ASSUME NEW n \in Nat, n \in S PROVE n + 1 \in S
  <2> SUFFICES ASSUME n + 1 <= L PROVE \E f : Defined(f, n + 1)
    <3> HIDE DEF Defined
    <3> QED
      OBVIOUS
  <2>1. PICK f : Defined(f, n)
    <3> HIDE DEF Defined
    <3> QED
      BY <1>1, <1>3
  <2> DEFINE k == L - n
             x == Body(f, k)
             g == [i \in k .. L + 1 |-> IF i = k THEN x ELSE f[i]]
  <2>2. k \in 1 .. L /\ L + 1 - (n + 1) = k /\ L + 1 - n = k + 1
    BY <1>1
  <2>3. \A i \in k + 1 .. L + 1 : g[i] = f[i]
    <3> HIDE DEF Body
    <3> QED
      BY <1>1, <2>2
  <2>4. g[k] = x
    <3> HIDE DEF Body
    <3> QED
      BY <1>1, <2>2
  <2> HIDE DEF g, k
  <2>5. ASSUME NEW i \in k .. L + 1 PROVE Body(g, i) = Body(f, i)
    <3>1. i \in Nat /\ i >= k
      BY <2>2
    <3>2. i <= L => g[i + 1] = f[i + 1]
      BY <1>1, <2>2, <2>3, <3>1
    <3>3. ~(i + PacketLen > L + 1) => g[i + PacketLen] = f[i + PacketLen]
      BY <1>1, <2>2, <2>3, <3>1
    <3> QED
      BY <3>2, <3>3
  <2>6. \A i \in k .. L + 1 : g[i] = Body(f, i)
    <3>1. \A i \in k + 1 .. L + 1 : f[i] = Body(f, i)
      BY <2>1, <2>2
    <3> HIDE DEF Body
    <3>2. \A i \in k .. L + 1 : i = k \/ i \in k + 1 .. L + 1
      BY <1>1, <2>2
    <3> QED
      BY <2>3, <2>4, <3>1, <3>2
  <2>7. Defined(g, n + 1)
    <3> HIDE DEF Body
    <3> QED
      BY <2>2, <2>5, <2>6
  <2> QED
    BY <2>7
<1>4. \E f : Defined(f, L)
  <2> HIDE DEF Defined
  <2>1. Nat \subseteq S
    <3> HIDE DEF S
    <3> QED
      BY <1>2, <1>3, Induction
  <2> QED
    BY <1>1, <2>1
<1>5. \E f : Eqn(f)
  <2>1. PICK f : Defined(f, L)
    BY <1>4
  <2> DEFINE g == [i \in 1 .. L + 1 |-> f[i]]
  <2>2. \A i \in 1 .. L + 1 : g[i] = f[i]
    OBVIOUS
  <2>3. ASSUME NEW i \in 1 .. L + 1 PROVE Body(g, i) = Body(f, i)
    <3> HIDE DEF g
    <3>1. i <= L => g[i + 1] = f[i + 1]
      BY <1>1, <2>2
    <3>2. ~(i + PacketLen > L + 1) => g[i + PacketLen] = f[i + PacketLen]
      BY <1>1, <2>2
    <3> QED
      BY <3>1, <3>2
  <2>4. L + 1 - L = 1
    BY <1>1
  <2>5. \A i \in 1 .. L + 1 : f[i] = Body(f, i)
    BY <2>1, <2>4
  <2>6. Eqn(g)
    <3> HIDE DEF Body
    <3> QED
      BY <2>3, <2>5
  <2> QED
    BY <2>6
<1> DEFINE from == CHOOSE f : Eqn(f)
<1>6. Eqn(from)
  <2> HIDE DEF Eqn
  <2> QED
    BY <1>5
<1>7. Extract(bytes) = from[1]
  BY DEF Extract
<1>8. \A i \in 1 .. L + 1 : from[i] = Body(from, i)
  <2> HIDE DEF Body
  <2> QED
    BY <1>6
<1> HIDE DEF from, Eqn
<1> DEFINE T == {n \in Nat : n <= L => \A i \in L + 1 - n .. L + 1 : from[i] \in Founds(q)}
<1>9. 0 \in T
  <2> SUFFICES from[L + 1] \in Founds(q)
    BY <1>1
  <2>1. from[L + 1] = [rest |-> SubSeq(bytes, L + 1, L), got |-> <<>>]
    <3>1. from[L + 1] = Body(from, L + 1)
      <4> HIDE DEF Body
      <4> QED
        BY <1>1, <1>8
    <3> QED
      BY <1>1, <3>1
  <2>2. Run(SubSeq(bytes, L + 1, L), q)
    BY <1>1, RunEnds
  <2>3. SubSeq(bytes, L + 1, L) \in Seq(Nat)
    BY <2>2 DEF Run
  <2> QED
    BY <2>1, <2>2, <2>3, NothingFound
<1>10. ASSUME NEW n \in Nat, n \in T PROVE n + 1 \in T
  <2> SUFFICES ASSUME n + 1 <= L
               PROVE  \A i \in L + 1 - (n + 1) .. L + 1 : from[i] \in Founds(q)
    OBVIOUS
  <2> DEFINE k == L - n
  <2>1. k \in 1 .. L /\ L + 1 - (n + 1) = k /\ L + 1 - n = k + 1
    BY <1>1
  <2>2. \A i \in k + 1 .. L + 1 : from[i] \in Founds(q)
    BY <1>1, <1>10, <2>1
  <2> HIDE DEF k
  <2>3. from[k] \in Founds(q)
    <3>1. from[k] = Body(from, k)
      <4> HIDE DEF Body
      <4> QED
        BY <1>1, <1>8, <2>1
    <3>2. CASE ~HeaderIsPlausible(bytes[k])
      <4>1. from[k] = from[k + 1]
        BY <1>1, <2>1, <3>1, <3>2
      <4>2. k + 1 \in k + 1 .. L + 1
        BY <1>1, <2>1
      <4> QED
        BY <2>2, <4>1, <4>2
    <3>3. CASE HeaderIsPlausible(bytes[k]) /\ k + PacketLen > L + 1
      <4>1. from[k] = [rest |-> SubSeq(bytes, k, L), got |-> <<>>]
        BY <3>1, <3>3
      <4>2. Run(SubSeq(bytes, k, L), q)
        BY <1>1, <2>1, RunEnds
      <4>3. SubSeq(bytes, k, L) \in Seq(Nat)
        BY <4>2 DEF Run
      <4> QED
        BY <4>1, <4>2, <4>3, NothingFound
    <3>4. CASE HeaderIsPlausible(bytes[k]) /\ ~(k + PacketLen > L + 1)
      <4>1. SubSeq(bytes, k, k + PacketLen - 1) \in Packets
        BY <1>1, <2>1, <3>4, RunPacket
      <4>2. from[k + PacketLen] \in Founds(q)
        BY <1>1, <2>1, <2>2, <3>4
      <4>3. from[k] = [from[k + PacketLen] EXCEPT
                         !.got = <<SubSeq(bytes, k, k + PacketLen - 1)>> \o @]
        BY <3>1, <3>4
      <4> QED
        BY <4>1, <4>2, <4>3, FromExtends
    <3> QED
      BY <3>2, <3>3, <3>4
  <2> QED
    BY <1>1, <2>1, <2>2, <2>3
<1> HIDE DEF T
<1>11. L \in T
  BY <1>1, <1>9, <1>10, Induction
<1>12. from[1] \in Founds(q)
  BY <1>1, <1>11 DEF T
<1> QED
  BY <1>7, <1>12

-----------------------------------------------------------------------------
\* Segments as they are sent, and what may be parked.
Sent(s) == \E pos, len \in Nat : len > 0 /\ pos + len <= Total /\ s = Segment(pos, len)
ParkedOK(ps) == IsFiniteSet(ps) /\ \A s \in ps : Sent(s)

LEMMA SegmentRun ==
  ASSUME NEW pos \in Nat, NEW len \in Nat, len > 0, pos + len <= Total
  PROVE  /\ pos \in Positions /\ pos + len \in Positions
         /\ Segment(pos, len).seq = SeqNumber(pos)
         /\ Run(Segment(pos, len).bytes, pos + len)
         /\ Len(Segment(pos, len).bytes) = len
<1>1. pos \in Positions /\ pos + len \in Positions
  BY StreamConstants DEF Positions
<1> DEFINE b == [i \in 1 .. len |-> pos + i - 1]
<1>2. b \in Seq(Nat) /\ Len(b) = len /\ \A i \in 1 .. len : b[i] = pos + i - 1
  OBVIOUS
<1>3. Segment(pos, len).seq = SeqNumber(pos) /\ Segment(pos, len).bytes = b
  BY DEF Segment
<1> HIDE DEF b
<1>4. Run(b, pos + len)
  BY <1>2 DEF Run
<1> QED
  BY <1>1, <1>2, <1>3, <1>4

\* What has joined goes from p on to where the next byte is expected.
JoinOK(j, p, ps) ==
  /\ j.left \subseteq ps
  /\ \E q \in Positions :
       q >= p /\ j.seq = SeqNumber(q) /\ Run(j.bytes, q) /\ Len(j.bytes) = q - p

LEMMA JoinNextOK ==
  ASSUME NEW p \in Positions, NEW ps, ParkedOK(ps), NEW j, JoinOK(j, p, ps)
  PROVE  JoinOK(JoinNext(j), p, ps)
<1> DEFINE hit == {s \in j.left : s.seq = j.seq}
           s == CHOOSE x \in hit : TRUE
<1>1. CASE hit = {}
  BY <1>1 DEF JoinNext
<1>2. CASE hit # {}
  <2>1. s \in j.left /\ s.seq = j.seq /\ Sent(s)
    BY <1>2 DEF JoinOK, ParkedOK
  <2>2. JoinNext(j) = [seq |-> (j.seq + Len(s.bytes)) % SeqSpace, bytes |-> j.bytes \o s.bytes,
                       left |-> j.left \ {s}]
    BY <1>2 DEF JoinNext
  <2> HIDE DEF hit, s
  <2>3. PICK pos \in Nat, len \in Nat :
             len > 0 /\ pos + len <= Total /\ s = Segment(pos, len)
    BY <2>1 DEF Sent
  <2>4. PICK q \in Positions :
             q >= p /\ j.seq = SeqNumber(q) /\ Run(j.bytes, q) /\ Len(j.bytes) = q - p
    BY DEF JoinOK
  <2>5. /\ pos \in Positions /\ pos + len \in Positions /\ s.seq = SeqNumber(pos)
        /\ Run(s.bytes, pos + len) /\ Len(s.bytes) = len
    BY <2>3, SegmentRun
  <2>6. q = pos
    BY <2>1, <2>4, <2>5, SeqOrder
  <2>7. (j.seq + Len(s.bytes)) % SeqSpace = SeqNumber(q + len)
    BY <2>3, <2>4, <2>5, <2>6, SeqMoves
  <2>8. q \in Nat /\ p \in Nat
    BY DEF Positions
  <2>9. Run(j.bytes \o s.bytes, q + len)
    BY <2>3, <2>4, <2>5, <2>6, <2>8, RunJoins
  <2>10. Len(j.bytes \o s.bytes) = (q + len) - p
    <3>1. j.bytes \in Seq(Nat) /\ s.bytes \in Seq(Nat)
      BY <2>4, <2>5 DEF Run
    <3>2. Len(j.bytes \o s.bytes) = Len(j.bytes) + Len(s.bytes)
      BY <3>1, ConcatProperties, Zenon
    <3> QED
      BY <2>3, <2>4, <2>5, <2>8, <3>2
  <2>11. q + len >= p /\ q + len \in Positions
    BY <2>3, <2>4, <2>5, <2>6, <2>8
  <2>12. j.left \ {s} \subseteq ps
    BY DEF JoinOK
  <2> DEFINE n == JoinNext(j)
             b == j.bytes \o s.bytes
             to == q + len
             m == (j.seq + Len(s.bytes)) % SeqSpace
             left == j.left \ {s}
  <2>13. n = [seq |-> m, bytes |-> b, left |-> left]
    BY <2>2, Zenon
  <2>14. m = SeqNumber(to) /\ Run(b, to) /\ Len(b) = to - p /\ to >= p /\ to \in Positions
    BY <2>7, <2>9, <2>10, <2>11, Zenon
  <2>15. left \subseteq ps
    BY <2>12
  <2> HIDE DEF n, m, b, to, left
  <2>16. n.seq = m /\ n.bytes = b /\ n.left = left
    BY <2>13
  <2>17. JoinOK(n, p, ps)
    BY <2>14, <2>15, <2>16 DEF JoinOK
  <2> QED
    BY <2>17 DEF n
<1> QED
  BY <1>1, <1>2

LEMMA JoinedOK ==
  ASSUME NEW p \in Positions, NEW ps, ParkedOK(ps), NEW seq, NEW bytes,
         JoinOK([seq |-> seq, bytes |-> bytes, left |-> ps], p, ps)
  PROVE  JoinOK(Joined(seq, bytes, ps), p, ps)
<1> DEFINE N == Cardinality(ps)
           j0 == [seq |-> seq, bytes |-> bytes, left |-> ps]
           Defined(f, n) == f[0] = j0 /\ \A k \in 1 .. n : f[k] = JoinNext(f[k - 1])
           S == {n \in Nat : \E f : Defined(f, n)}
           Eqn(f) == f = [n \in 0 .. N |-> IF n = 0 THEN j0 ELSE JoinNext(f[n - 1])]
<1>1. N \in Nat
  BY FS_CardinalityType DEF ParkedOK
<1>2. 0 \in S
  <2>1. Defined([n \in {0} |-> j0], 0)
    OBVIOUS
  <2> QED
    BY <2>1
<1>3. ASSUME NEW n \in Nat, n \in S PROVE n + 1 \in S
  <2>1. PICK f : Defined(f, n)
    BY <1>3
  <2> DEFINE x == JoinNext(f[n])
             g == [k \in 0 .. n + 1 |-> IF k = n + 1 THEN x ELSE f[k]]
  <2>2. g[n + 1] = x /\ \A k \in 0 .. n : g[k] = f[k]
    <3> HIDE DEF x
    <3> QED
      OBVIOUS
  <2> HIDE DEF g
  <2>3. g[0] = j0
    BY <2>1, <2>2
  <2>4. ASSUME NEW k \in 1 .. n + 1 PROVE g[k] = JoinNext(g[k - 1])
    <3>1. g[k - 1] = f[k - 1]
      BY <2>2
    <3>2. CASE k = n + 1
      BY <2>2, <3>1, <3>2
    <3>3. CASE k # n + 1
      <4>1. k \in 1 .. n /\ g[k] = f[k]
        BY <2>2, <3>3
      <4> QED
        BY <2>1, <3>1, <4>1
    <3> QED
      BY <3>2, <3>3
  <2>5. Defined(g, n + 1)
    BY <2>3, <2>4
  <2> HIDE DEF Defined
  <2> QED
    BY <2>5
<1>4. \E f : Defined(f, N)
  <2> HIDE DEF Defined
  <2>1. Nat \subseteq S
    <3> HIDE DEF S
    <3> QED
      BY <1>2, <1>3, Induction
  <2> QED
    BY <1>1, <2>1
<1>5. \E f : Eqn(f)
  <2>1. PICK f : Defined(f, N)
    BY <1>4
  <2> DEFINE g == [n \in 0 .. N |-> f[n]]
             Body(h, n) == IF n = 0 THEN j0 ELSE JoinNext(h[n - 1])
  <2>2. \A n \in 0 .. N : g[n] = f[n]
    OBVIOUS
  <2>3. ASSUME NEW n \in 0 .. N PROVE f[n] = Body(g, n)
    <3> HIDE DEF g
    <3>1. CASE n = 0
      BY <2>1, <3>1
    <3>2. CASE n # 0
      <4> HIDE DEF j0
      <4>1. n \in 1 .. N /\ n - 1 \in 0 .. N
        BY <1>1, <3>2
      <4>2. f[n] = JoinNext(f[n - 1])
        BY <2>1, <4>1
      <4>3. g[n - 1] = f[n - 1]
        BY <2>2, <4>1
      <4> QED
        BY <3>2, <4>2, <4>3
    <3> QED
      BY <3>1, <3>2
  <2>4. g = [n \in 0 .. N |-> Body(g, n)]
    <3> HIDE DEF Body
    <3> QED
      BY <2>3
  <2>5. Eqn(g)
    <3> HIDE DEF g, j0
    <3> QED
      BY <2>4
  <2> HIDE DEF Eqn
  <2> QED
    BY <2>5
<1> DEFINE after == CHOOSE f : Eqn(f)
<1>6. Eqn(after)
  <2> HIDE DEF Eqn
  <2> QED
    BY <1>5
<1>7. Joined(seq, bytes, ps) = after[N]
  BY DEF Joined
<1>8. \A n \in 0 .. N : after[n] = IF n = 0 THEN j0 ELSE JoinNext(after[n - 1])
  <2> HIDE DEF j0
  <2> QED
    BY <1>6
<1> HIDE DEF after, Eqn
<1> DEFINE T == {n \in Nat : n <= N => JoinOK(after[n], p, ps)}
<1>9. 0 \in T
  BY <1>1, <1>8
<1>10. ASSUME NEW n \in Nat, n \in T PROVE n + 1 \in T
  <2> SUFFICES ASSUME n + 1 <= N PROVE JoinOK(after[n + 1], p, ps)
    OBVIOUS
  <2>1. JoinOK(after[n], p, ps)
    BY <1>1, <1>10
  <2>2. after[n + 1] = JoinNext(after[n])
    <3> HIDE DEF j0
    <3>1. n + 1 \in 0 .. N /\ n + 1 # 0 /\ (n + 1) - 1 = n
      BY <1>1
    <3> QED
      BY <1>8, <3>1
  <2> QED
    BY <2>1, <2>2, JoinNextOK
<1> HIDE DEF T
<1>11. N \in T
  BY <1>1, <1>9, <1>10, Induction
<1> QED
  BY <1>1, <1>7, <1>11 DEF T

\* The end of the buffer.
LEMMA TrimmedOK ==
  ASSUME NEW q \in Nat, NEW b, Run(b, q)
  PROVE  Run(Trimmed(b), q)
<1>1. b \in Seq(Nat) /\ Len(b) \in Nat /\ MaxStreamBuffer \in Nat
  BY StreamConstants DEF Run
<1> DEFINE c == Len(b) - MaxStreamBuffer + 1
           i == Max({1, c})
<1>2. c \in Int /\ c <= Len(b) + 1
  BY <1>1
<1>3. i \in {1, c} /\ \A x \in {1, c} : i >= x
  <2> HIDE DEF c
  <2>1. \E x \in {1, c} : \A y \in {1, c} : x >= y
    BY <1>2
  <2> QED
    BY <2>1 DEF Max
<1>4. i \in 1 .. Len(b) + 1
  <2> HIDE DEF c, i
  <2> QED
    BY <1>1, <1>2, <1>3
<1>5. Trimmed(b) = SubSeq(b, i, Len(b))
  BY DEF Trimmed
<1> HIDE DEF i
<1> QED
  BY <1>1, <1>4, <1>5, RunEnds

StreamInv ==
  /\ ParkedOK(parked)
  /\ packets \in Seq(Packets)
  /\ \/ nextSeq = NoSeq /\ stream = <<>>
     \/ \E p \in Positions : nextSeq = SeqNumber(p) /\ Run(stream, p)

LEMMA AdvanceOK ==
  ASSUME NEW p0 \in Positions, NEW p \in Positions, p0 <= p, NEW bytes, Run(bytes, p),
         Len(bytes) = p - p0, NEW ps, ParkedOK(ps), NEW since, Run(since.stream, p0),
         Advance(SeqNumber(p0), bytes, ps, since)
  PROVE  StreamInv'
<1> DEFINE seq == (SeqNumber(p0) + Len(bytes)) % SeqSpace
           joined == Joined(seq, bytes, ps)
           whole == since.stream \o joined.bytes
           found == Extract(Trimmed(whole))
           j0 == [seq |-> seq, bytes |-> bytes, left |-> ps]
<1>0. p0 \in Nat /\ p \in Nat
  BY DEF Positions
<1>1. seq = SeqNumber(p)
  <2>1. Len(bytes) \in Nat /\ p0 + Len(bytes) = p
    BY <1>0
  <2> QED
    BY <2>1, SeqMoves
<1>2. JoinOK(j0, p0, ps)
  <2>1. j0.left = ps /\ j0.seq = seq /\ j0.bytes = bytes
    OBVIOUS
  <2> HIDE DEF j0, seq
  <2> QED
    BY <1>0, <1>1, <2>1 DEF JoinOK
<1> HIDE DEF seq
<1>3. JoinOK(joined, p0, ps)
  BY <1>2, JoinedOK
<1>4. /\ nextSeq' = joined.seq /\ parked' = joined.left
      /\ stream' = found.rest /\ packets' = found.got
  BY DEF Advance, seq
<1> HIDE DEF joined, found, whole
<1>5. PICK q \in Positions :
           q >= p0 /\ joined.seq = SeqNumber(q) /\ Run(joined.bytes, q) /\ Len(joined.bytes) = q - p0
  BY <1>3 DEF JoinOK
<1>6. q \in Nat
  BY DEF Positions
<1>7. Run(whole, q)
  BY <1>0, <1>5, <1>6, RunJoins DEF whole
<1>8. found \in Founds(q)
  BY <1>6, <1>7, TrimmedOK, ExtractFinds DEF found
<1>9. Run(found.rest, q) /\ found.got \in Seq(Packets)
  BY <1>8 DEF Founds
<1>10. ParkedOK(joined.left)
  BY <1>3, FS_Subset DEF JoinOK, ParkedOK
<1>11. ParkedOK(parked)'
  BY <1>4, <1>10 DEF ParkedOK, Sent
<1> QED
  BY <1>4, <1>5, <1>9, <1>11 DEF StreamInv

\* A parked segment, or none.
LEMMA SentHas ==
  ASSUME NEW s, Sent(s)
  PROVE  \E pos, len \in Nat :
           /\ len > 0 /\ pos + len <= Total /\ s = Segment(pos, len)
           /\ pos \in Positions /\ pos + len \in Positions /\ s.seq = SeqNumber(pos)
           /\ Run(s.bytes, pos + len) /\ Len(s.bytes) = len
BY SegmentRun DEF Sent

LEMMA AheadOK ==
  ASSUME StreamInv, NEW seg, Sent(seg), nextSeq # NoSeq, Ahead(seg)
  PROVE  StreamInv'
<1> DEFINE ps == IF \E p \in parked : p.seq = seg.seq THEN parked ELSE parked \cup {seg}
           seqs == {s.seq : s \in ps}
           least == Min(seqs)
<1>1. ParkedOK(ps)
  <2>1. IsFiniteSet(parked \cup {seg})
    BY FS_AddElement DEF StreamInv, ParkedOK
  <2> QED
    BY <2>1 DEF StreamInv, ParkedOK
<1>2. ps # {}
  OBVIOUS
<1> HIDE DEF ps
<1>3. seqs \subseteq Nat /\ seqs # {}
  <2>1. ASSUME NEW s \in ps PROVE s.seq \in Nat
    <3>1. Sent(s)
      BY <1>1 DEF ParkedOK
    <3> QED
      BY <3>1, SentHas, SeqIs, StreamConstants
  <2> QED
    BY <1>2, <2>1
<1>4. least \in seqs
  <2> HIDE DEF seqs
  <2>1. \E x \in seqs : \A y \in seqs : x <= y
    BY <1>3, LeastNumber
  <2> QED
    BY <2>1 DEF Min
<1>5. PICK s \in ps : s.seq = least
  BY <1>4
<1>6. Sent(s)
  BY <1>1 DEF ParkedOK
<1>7. PICK pos \in Positions : least = SeqNumber(pos)
  BY <1>5, <1>6, SentHas
<1>8. pos \in Nat
  BY DEF Positions
<1>9. Run(Restarted.stream, pos)
  BY <1>8, RunEmpty DEF Restarted
<1>10. \/ Advance(least, seg.bytes, ps, Restarted) /\ seg.seq = least
       \/ Advance(least, <<>>, ps, Restarted)
       \/ parked' = ps /\ packets' = <<>> /\ UNCHANGED <<nextSeq, stream>>
  BY DEF Ahead, ps
<1> HIDE DEF least
<1>11. CASE Advance(least, seg.bytes, ps, Restarted) /\ seg.seq = least
  <2>1. PICK from, len \in Nat :
             /\ len > 0 /\ from \in Positions /\ from + len \in Positions
             /\ seg.seq = SeqNumber(from) /\ Run(seg.bytes, from + len) /\ Len(seg.bytes) = len
    BY SentHas
  <2>2. Run(Restarted.stream, from)
    BY <2>1, RunEmpty DEF Restarted
  <2>3. from <= from + len /\ (from + len) - from = len
    BY <2>1
  <2>4. Advance(SeqNumber(from), seg.bytes, ps, Restarted)
    BY <1>11, <2>1
  <2> QED
    BY <1>1, <2>1, <2>2, <2>3, <2>4, AdvanceOK
<1>12. CASE Advance(least, <<>>, ps, Restarted)
  <2>1. Run(<<>>, pos) /\ Len(<<>>) = pos - pos /\ pos <= pos
    BY <1>8, RunEmpty
  <2>2. Advance(SeqNumber(pos), <<>>, ps, Restarted)
    BY <1>7, <1>12
  <2> QED
    BY <1>1, <1>9, <2>1, <2>2, AdvanceOK
<1>13. CASE parked' = ps /\ packets' = <<>> /\ UNCHANGED <<nextSeq, stream>>
  <2>1. ParkedOK(parked)'
    BY <1>1, <1>13 DEF ParkedOK, Sent
  <2>2. packets' \in Seq(Packets)
    BY <1>13
  <2> QED
    BY <1>13, <2>1, <2>2 DEF StreamInv
<1> QED
  BY <1>10, <1>11, <1>12, <1>13

LEMMA ReceiveOK ==
  ASSUME StreamInv, NEW pos \in Nat, NEW len \in Nat, len > 0, pos + len <= Total,
         Receive(Segment(pos, len))
  PROVE  StreamInv'
<1> DEFINE seg == Segment(pos, len)
           next == IF nextSeq = NoSeq THEN seg.seq ELSE nextSeq
           overlap == SeqDiff(next, seg.seq)
           held == [stream |-> stream, gap |-> gap]
<1>1. /\ pos \in Positions /\ pos + len \in Positions /\ seg.seq = SeqNumber(pos)
      /\ Run(seg.bytes, pos + len) /\ Len(seg.bytes) = len
  BY SegmentRun
<1>2. Sent(seg)
  BY DEF Sent
<1>3. PICK p \in Positions : next = SeqNumber(p) /\ Run(stream, p)
  <2>1. CASE nextSeq = NoSeq
    <3>1. stream = <<>>
      BY <2>1, SeqIs DEF StreamInv
    <3>2. Run(stream, pos)
      BY <3>1, RunEmpty
    <3> QED
      BY <1>1, <2>1, <3>2
  <2>2. CASE nextSeq # NoSeq
    BY <2>2 DEF StreamInv
  <2> QED
    BY <2>1, <2>2
<1>4. p \in Nat /\ ParkedOK(parked) /\ held.stream = stream
  BY DEF Positions, StreamInv
<1>5. \/ /\ SeqLt(seg.seq, next) /\ overlap >= Len(seg.bytes)
         /\ packets' = <<>> /\ UNCHANGED <<nextSeq, parked, stream, gap>>
      \/ /\ SeqLt(seg.seq, next) /\ ~(overlap >= Len(seg.bytes))
         /\ Advance(next, SubSeq(seg.bytes, overlap + 1, Len(seg.bytes)), parked, held)
      \/ SeqLt(next, seg.seq) /\ Ahead(seg)
      \/ /\ ~SeqLt(seg.seq, next) /\ ~SeqLt(next, seg.seq)
         /\ Advance(next, seg.bytes, parked, held)
  BY DEF Receive
<1> HIDE DEF seg, next, held, overlap
<1>6. (SeqLt(seg.seq, next) <=> pos < p) /\ (SeqLt(next, seg.seq) <=> p < pos)
  BY <1>1, <1>3, SeqOrder
<1>7. CASE packets' = <<>> /\ UNCHANGED <<nextSeq, parked, stream, gap>>
  <2>1. ParkedOK(parked)' /\ packets' \in Seq(Packets)
    BY <1>4, <1>7 DEF ParkedOK, Sent
  <2> QED
    BY <1>7, <2>1 DEF StreamInv
<1>8. CASE /\ SeqLt(seg.seq, next) /\ ~(overlap >= Len(seg.bytes))
           /\ Advance(next, SubSeq(seg.bytes, overlap + 1, Len(seg.bytes)), parked, held)
  <2>1. overlap = p - pos
    BY <1>1, <1>3, <1>4, <1>6, <1>8, SeqDistance DEF overlap
  <2>2. overlap + 1 \in 1 .. len + 1 /\ len - (overlap + 1) + 1 = (pos + len) - p /\ p <= pos + len
    BY <1>1, <1>4, <1>6, <1>8, <2>1
  <2> DEFINE b == SubSeq(seg.bytes, overlap + 1, Len(seg.bytes))
  <2>3. Run(b, pos + len) /\ Len(b) = (pos + len) - p
    <3>1. pos + len \in Nat
      OBVIOUS
    <3> DEFINE m == overlap + 1
    <3>2. m \in 1 .. Len(seg.bytes) + 1
      BY <1>1, <2>2
    <3> HIDE DEF m
    <3>3. Run(SubSeq(seg.bytes, m, Len(seg.bytes)), pos + len)
          /\ Len(SubSeq(seg.bytes, m, Len(seg.bytes))) = Len(seg.bytes) - m + 1
      BY <1>1, <3>1, <3>2, RunEnds
    <3> QED
      BY <1>1, <2>2, <3>3 DEF m
  <2>4. Advance(SeqNumber(p), b, parked, held) /\ Run(held.stream, p)
    BY <1>3, <1>4, <1>8
  <2> HIDE DEF b
  <2> QED
    BY <1>1, <1>4, <2>2, <2>3, <2>4, AdvanceOK
<1>9. CASE SeqLt(next, seg.seq) /\ Ahead(seg)
  <2>1. nextSeq # NoSeq
    <3>1. next # seg.seq
      BY <1>1, <1>3, <1>6, <1>9, <1>4, SeqOrder
    <3> QED
      BY <3>1 DEF next
  <2> QED
    BY <1>2, <1>9, <2>1, AheadOK
<1>10. CASE /\ ~SeqLt(seg.seq, next) /\ ~SeqLt(next, seg.seq)
            /\ Advance(next, seg.bytes, parked, held)
  <2>1. p = pos
    BY <1>4, <1>6, <1>10
  <2>2. Advance(SeqNumber(p), seg.bytes, parked, held) /\ Run(held.stream, p)
    BY <1>3, <1>4, <1>10
  <2>3. p <= p + len /\ (p + len) - p = len
    BY <1>4
  <2> QED
    BY <1>1, <1>4, <2>1, <2>2, <2>3, AdvanceOK
<1> QED
  BY <1>5, <1>7, <1>8, <1>9, <1>10

LEMMA ForgetOK ==
  ASSUME NEW next, Forget(next), next = NoSeq \/ next = SeqNumber(0)
  PROVE  StreamInv'
<1>1. parked' = {} /\ stream' = <<>> /\ packets' = <<>> /\ nextSeq' = next
  BY DEF Forget
<1>2. ParkedOK(parked)' /\ packets' \in Seq(Packets)
  BY <1>1, FS_EmptySet DEF ParkedOK
<1>3. 0 \in Positions /\ Run(<<>>, 0)
  BY StreamConstants, RunEmpty DEF Positions
<1> QED
  BY <1>1, <1>2, <1>3 DEF StreamInv

LEMMA StreamStep ==
  ASSUME StreamInv, [StreamNext]_streamVars
  PROVE  StreamInv'
<1>1. CASE Arrives
  <2>1. PICK pos \in 0 .. Total - 1, len \in 1 .. MaxSegment :
             pos + len <= Total /\ Receive(Segment(pos, len))
    BY <1>1 DEF Arrives
  <2>2. pos \in Nat /\ len \in Nat /\ len > 0
    BY StreamConstants
  <2> QED
    BY <2>1, <2>2, ReceiveOK
<1>2. CASE Syn
  BY <1>2, ForgetOK DEF Syn
<1>3. CASE Drop
  BY <1>3, ForgetOK DEF Drop
<1>4. CASE GapAges \/ UNCHANGED streamVars
  <2>1. UNCHANGED <<nextSeq, parked, stream>> /\ (packets' = <<>> \/ packets' = packets)
    BY <1>4 DEF GapAges, streamVars
  <2>2. ParkedOK(parked)'
    BY <2>1 DEF ParkedOK, Sent, StreamInv
  <2>3. packets' \in Seq(Packets)
    <3>1. packets \in Seq(Packets) /\ <<>> \in Seq(Packets)
      BY DEF StreamInv
    <3> QED
      BY <2>1, <3>1
  <2> QED
    BY <2>1, <2>2, <2>3 DEF StreamInv
<1> QED
  BY <1>1, <1>2, <1>3, <1>4 DEF StreamNext

\* A packet that is decoded was sent, whatever arrives, in whatever order, and
\* wherever the sequence numbers wrap (parsers.py 436-478, 519-651).
THEOREM PacketsAreSent == StreamSpec => []PacketsAreGenuine
<1>1. StreamInit => StreamInv
  BY FS_EmptySet DEF StreamInit, StreamInv, ParkedOK
<1>2. StreamInv /\ [StreamNext]_streamVars => StreamInv'
  BY StreamStep
<1>3. StreamInv => PacketsAreGenuine
  <2> SUFFICES ASSUME StreamInv, NEW i \in DOMAIN packets, NEW j \in 2 .. PacketLen
               PROVE  packets[i][1] % PacketLen = 0 /\ packets[i][j] = packets[i][1] + j - 1
    BY DEF PacketsAreGenuine
  <2>1. packets[i] \in Packets
    BY DEF StreamInv
  <2> QED
    BY <2>1 DEF Packets
<1> QED
  BY <1>1, <1>2, <1>3, PTL DEF StreamSpec

-----------------------------------------------------------------------------
(* The energy ledger.  Today: the local day, its hours and its rates.      *)

LEMMA LedgerConstants ==
  /\ BucketSpan \in Nat /\ BucketSpan > 0 /\ HourSpan \in Nat /\ HourSpan > 0
  /\ DaySpan \in Nat /\ DaySpan > 0 /\ MaxPause \in Nat /\ StartTime \in Nat
  /\ DaySpan % HourSpan = 0
BY LedgerAssumption DEF LedgerAssumption

\* The local day begins with its first second.
LEMMA DayBegins ==
  ASSUME NEW shift \in Nat, NEW t \in Nat, NEW b \in Nat, b <= t
  PROVE  /\ StartOfDay(t, shift) \in Int
         /\ (b + shift) \div DaySpan = (t + shift) \div DaySpan <=> b >= StartOfDay(t, shift)
         /\ b >= StartOfDay(t, shift) => b >= t - DaySpan
<1> DEFINE q == (t + shift) \div DaySpan
           k == (b + shift) \div DaySpan
           x == t + shift
           y == b + shift
<1>0. x \in Int /\ y \in Int /\ DaySpan \in Nat /\ DaySpan > 0
  BY LedgerConstants
<1>1. q \in Int /\ q * DaySpan \in Int /\ q * DaySpan <= x /\ x < q * DaySpan + DaySpan
  BY <1>0, DivisionIs
<1>2. k \in Int /\ k * DaySpan \in Int /\ k * DaySpan <= y /\ y < k * DaySpan + DaySpan
  BY <1>0, DivisionIs
<1>3. StartOfDay(t, shift) = q * DaySpan - shift
  BY DEF StartOfDay
<1>4. y <= x
  OBVIOUS
<1>5. k = q <=> y >= q * DaySpan
  <2> HIDE DEF q, k, x, y
  <2>1. k = q => y >= q * DaySpan
    BY <1>2
  <2>2. ASSUME y >= q * DaySpan PROVE ~(k < q)
    <3> SUFFICES ASSUME k < q PROVE FALSE
      OBVIOUS
    <3>1. (k + 1) * DaySpan <= q * DaySpan
      BY <1>0, <1>1, <1>2, Grows
    <3>2. (k + 1) * DaySpan = k * DaySpan + DaySpan
      BY <1>0, <1>2
    <3> QED
      BY <1>0, <1>1, <1>2, <2>2, <3>1, <3>2
  <2>3. ~(k > q)
    <3> SUFFICES ASSUME k > q PROVE FALSE
      OBVIOUS
    <3>1. (q + 1) * DaySpan <= k * DaySpan
      BY <1>0, <1>1, <1>2, Grows
    <3>2. (q + 1) * DaySpan = q * DaySpan + DaySpan
      BY <1>0, <1>1
    <3> QED
      BY <1>0, <1>1, <1>2, <1>4, <3>1, <3>2
  <2> QED
    BY <1>1, <1>2, <2>1, <2>2, <2>3
<1> QED
  <2> HIDE DEF q, k
  <2> DEFINE z == q * DaySpan
  <2>1. z \in Int /\ x < z + DaySpan /\ (k = q <=> y >= z) /\ StartOfDay(t, shift) = z - shift
    BY <1>1, <1>3, <1>5
  <2> HIDE DEF z
  <2>2. (k = q <=> b >= z - shift) /\ (b >= z - shift => b >= t - DaySpan)
    BY <1>0, <2>1
  <2> QED
    BY <2>1, <2>2 DEF k, q

LEMMA TodayIsBar ==
  ASSUME instant \in Nat, DOMAIN buckets \subseteq 0 .. instant, NEW shift \in Nat
  PROVE  LET today == (instant + shift) \div DaySpan
             bars == DailyRollup(shift) IN
         (IF today \in DOMAIN bars THEN bars[today] ELSE 0) = Today(shift)
<1> DEFINE today == (instant + shift) \div DaySpan
           date(b) == (b + shift) \div DaySpan
           inWindow == {b \in DOMAIN buckets : b >= instant - DaySpan}
           bars == [d \in {date(b) : b \in inWindow} |-> OutputOf({b \in inWindow : date(b) = d})]
           mine == {b \in DOMAIN buckets : b >= StartOfDay(instant, shift)}
<1>1. DailyRollup(shift) = bars
  BY DEF DailyRollup
<1>2. \A b \in DOMAIN buckets :
        (date(b) = today <=> b >= StartOfDay(instant, shift))
        /\ (b >= StartOfDay(instant, shift) => b >= instant - DaySpan)
  <2> SUFFICES ASSUME NEW b \in DOMAIN buckets
               PROVE  (date(b) = today <=> b >= StartOfDay(instant, shift))
                      /\ (b >= StartOfDay(instant, shift) => b >= instant - DaySpan)
    OBVIOUS
  <2>1. b \in Nat /\ b <= instant
    OBVIOUS
  <2> QED
    BY <2>1, DayBegins
<1> HIDE DEF today, date
<1>3. {b \in inWindow : date(b) = today} = mine
  BY <1>2
<1>4. Today(shift) = OutputOf(mine)
  BY DEF Today
<1>5. CASE today \in DOMAIN bars
  <2>1. bars[today] = OutputOf({b \in inWindow : date(b) = today})
    BY <1>5
  <2> QED
    BY <1>1, <1>3, <1>4, <1>5, <2>1 DEF today
<1>6. CASE today \notin DOMAIN bars
  <2>1. \A b \in inWindow : date(b) # today
    BY <1>6
  <2>2. mine = {}
    BY <1>3, <2>1
  <2>3. OutputOf({}) = 0
    BY SumOfNone DEF OutputOf, SumFunction
  <2> QED
    BY <1>1, <1>4, <1>6, <2>2, <2>3 DEF today
<1> QED
  BY <1>5, <1>6

\* Where the local hours are hours of UTC, an hour begins in the day in which
\* it is, and it is the same hour of the day.
LEMMA HoursOfDay ==
  ASSUME NEW shift \in Nat, shift % HourSpan = 0, NEW t \in Nat, NEW b \in Nat,
         NEW h, h = (b \div HourSpan) * HourSpan
  PROVE  /\ h >= StartOfDay(t, shift) <=> b >= StartOfDay(t, shift)
         /\ ((h + shift) % DaySpan) \div HourSpan = ((b + shift) % DaySpan) \div HourSpan
<1> DEFINE q == b \div HourSpan
           r == b % HourSpan
           j == shift \div HourSpan
           m == DaySpan \div HourSpan
           n == q + j
           k == n \div m
           i == n % m
<1>1. HourSpan \in Nat /\ HourSpan > 0 /\ DaySpan \in Nat /\ DaySpan > 0 /\ DaySpan % HourSpan = 0
  BY LedgerConstants
<1>2. q \in Int /\ r \in 0 .. HourSpan - 1 /\ b = q * HourSpan + r /\ h = q * HourSpan /\ h \in Int
  BY <1>1, DivisionIs
<1>3. j \in Int /\ shift = j * HourSpan
  BY <1>1, DivisionIs
<1>4. m \in Int /\ DaySpan = m * HourSpan
  BY <1>1, DivisionIs
<1>5. m \in Nat /\ m > 0
  <2> SUFFICES ASSUME m <= 0 PROVE FALSE
    BY <1>4
  <2> HIDE DEF m
  <2>1. m * HourSpan <= 0 * HourSpan
    BY <1>1, <1>4, Grows
  <2> QED
    BY <1>1, <1>4, <2>1
<1> HIDE DEF q, r, j, m
<1>6. n \in Int /\ k \in Int /\ i \in 0 .. m - 1 /\ n = k * m + i
  BY <1>2, <1>3, <1>5, DivisionIs
<1> HIDE DEF n, k, i
<1>7. ASSUME NEW s \in 0 .. HourSpan - 1
      PROVE  ((q * HourSpan + s + shift) % DaySpan) \div HourSpan = i
  <2>1. q * HourSpan + s + shift = n * HourSpan + s
    BY <1>1, <1>2, <1>3 DEF n
  <2>2. n * HourSpan + s = k * DaySpan + (i * HourSpan + s)
    <3>1. n * HourSpan = (k * m) * HourSpan + i * HourSpan
      BY <1>1, <1>5, <1>6
    <3>2. (k * m) * HourSpan = k * (m * HourSpan)
      BY <1>1, <1>5, <1>6
    <3>3. n * HourSpan = k * DaySpan + i * HourSpan
      BY <1>4, <3>1, <3>2
    <3> QED
      BY <1>1, <1>6, <3>3
  <2>3. i * HourSpan + s \in 0 .. DaySpan - 1
    <3>1. (i + 1) * HourSpan <= m * HourSpan /\ 0 * HourSpan <= i * HourSpan
      BY <1>1, <1>5, <1>6, Grows
    <3>2. (i + 1) * HourSpan = i * HourSpan + HourSpan /\ i * HourSpan \in Int
      BY <1>1, <1>6
    <3> QED
      BY <1>1, <1>4, <3>1, <3>2
  <2>4. (q * HourSpan + s + shift) % DaySpan = i * HourSpan + s
    <3> DEFINE e == i * HourSpan + s
               x == q * HourSpan + s + shift
    <3>1. x = k * DaySpan + e /\ e \in 0 .. DaySpan - 1
      BY <2>1, <2>2, <2>3, Zenon
    <3> HIDE DEF e, x
    <3>2. (k * DaySpan + e) % DaySpan = e
      BY <1>1, <1>6, <3>1, DivisionIsUnique
    <3> QED
      BY <3>1, <3>2 DEF e, x
  <2>5. (i * HourSpan + s) \div HourSpan = i
    BY <1>1, <1>6, DivisionIsUnique
  <2> QED
    BY <2>4, <2>5
<1>8. ((h + shift) % DaySpan) \div HourSpan = i
  <2>1. 0 \in 0 .. HourSpan - 1 /\ q * HourSpan + 0 + shift = h + shift
    BY <1>1, <1>2
  <2> QED
    BY <1>7, <2>1
<1>9. ((b + shift) % DaySpan) \div HourSpan = i
  BY <1>2, <1>7
<1>10. h >= StartOfDay(t, shift) <=> b >= StartOfDay(t, shift)
  <2> DEFINE d == (t + shift) \div DaySpan
             c == d * m - j
  <2>1. d \in Int
    BY <1>1, DivisionIs
  <2> HIDE DEF d
  <2>2. c \in Int
    BY <1>3, <1>5, <2>1
  <2>3. StartOfDay(t, shift) = c * HourSpan
    <3>1. StartOfDay(t, shift) = d * (m * HourSpan) - j * HourSpan
      BY <1>3, <1>4 DEF StartOfDay, d
    <3>2. d * (m * HourSpan) = (d * m) * HourSpan
      BY <1>1, <1>5, <2>1
    <3>3. (d * m - j) * HourSpan = (d * m) * HourSpan - j * HourSpan
      BY <1>1, <1>3, <1>5, <2>1
    <3> QED
      BY <3>1, <3>2, <3>3
  <2> HIDE DEF c
  <2>4. c * HourSpan \in Int
    BY <1>1, <2>2
  <2>5. CASE q >= c
    <3>1. c * HourSpan <= q * HourSpan
      BY <1>1, <1>2, <2>2, <2>5, Grows
    <3> QED
      BY <1>1, <1>2, <2>3, <2>4, <3>1
  <2>6. CASE q < c
    <3>1. (q + 1) * HourSpan <= c * HourSpan
      BY <1>1, <1>2, <2>2, <2>6, Grows
    <3>2. (q + 1) * HourSpan = q * HourSpan + HourSpan
      BY <1>1, <1>2
    <3> QED
      BY <1>1, <1>2, <2>3, <2>4, <3>1, <3>2
  <2> QED
    BY <1>2, <2>2, <2>5, <2>6
<1> QED
  BY <1>8, <1>9, <1>10

LEMMA SavingsOfHours ==
  ASSUME instant \in Nat, DOMAIN buckets \subseteq 0 .. instant,
         NEW shift \in Nat, shift % HourSpan = 0, NEW plan
  PROVE  LET mine == {b \in DOMAIN buckets : b >= StartOfDay(instant, shift)} IN
         TodaySavings(plan, shift, TRUE)
           = SumFunction([b \in mine |-> buckets[b].output * RateAt(plan, b, shift)])
<1> DEFINE hourOf(b) == (b \div HourSpan) * HourSpan
           mine == {b \in DOMAIN buckets : b >= StartOfDay(instant, shift)}
           hours == {b \in DOMAIN buckets : hourOf(b) >= StartOfDay(instant, shift)}
<1>1. TodaySavings(plan, shift, TRUE)
        = SumFunction([b \in hours |-> buckets[b].output * RateAt(plan, hourOf(b), shift)])
  BY DEF TodaySavings
<1>2. \A b \in DOMAIN buckets :
        /\ hourOf(b) >= StartOfDay(instant, shift) <=> b >= StartOfDay(instant, shift)
        /\ RateAt(plan, hourOf(b), shift) = RateAt(plan, b, shift)
  <2> SUFFICES ASSUME NEW b \in DOMAIN buckets
               PROVE  /\ hourOf(b) >= StartOfDay(instant, shift) <=> b >= StartOfDay(instant, shift)
                      /\ RateAt(plan, hourOf(b), shift) = RateAt(plan, b, shift)
    OBVIOUS
  <2>1. b \in Nat
    OBVIOUS
  <2>2. /\ hourOf(b) >= StartOfDay(instant, shift) <=> b >= StartOfDay(instant, shift)
        /\ ((hourOf(b) + shift) % DaySpan) \div HourSpan = ((b + shift) % DaySpan) \div HourSpan
    BY <2>1, HoursOfDay
  <2> HIDE DEF hourOf
  <2> QED
    BY <2>2, Zenon DEF RateAt
<1> HIDE DEF hourOf
<1>3. hours = mine
  BY <1>2
<1>4. [b \in hours |-> buckets[b].output * RateAt(plan, hourOf(b), shift)]
        = [b \in mine |-> buckets[b].output * RateAt(plan, b, shift)]
  BY <1>2, <1>3
<1> QED
  BY <1>1, <1>4 DEF hourOf

-----------------------------------------------------------------------------
(* What is credited: a sample that adds to a bucket adds to their sum what *)
(* it adds to the seconds that are credited.                               *)

LEMMA CoveredIs ==
  ASSUME NEW stamps \in SUBSET Nat, NEW x \in Nat
  PROVE  x \in Covered(stamps) <=> \E a, b \in stamps : a <= x /\ x < b /\ b - a <= MaxPause
<1> DEFINE pauses == {p \in stamps \X stamps :
                        p[2] - p[1] \in 1..MaxPause /\ ~\E t \in stamps : p[1] < t /\ t < p[2]}
<1>1. x \in Covered(stamps) <=> \E p \in pauses : x \in p[1] .. p[2] - 1
  BY DEF Covered
<1>2. ASSUME NEW p \in pauses, x \in p[1] .. p[2] - 1
      PROVE  \E a, b \in stamps : a <= x /\ x < b /\ b - a <= MaxPause
  <2>1. p[1] \in stamps /\ p[2] \in stamps /\ p[2] - p[1] <= MaxPause
    BY LedgerConstants
  <2> DEFINE a == p[1]
             b == p[2]
  <2>2. a \in Nat /\ b \in Nat /\ x \in a .. b - 1
    BY <1>2, <2>1
  <2> HIDE DEF a, b
  <2>3. a <= x /\ x < b
    BY <2>2
  <2> QED
    BY <2>1, <2>3 DEF a, b
<1>3. ASSUME NEW a \in stamps, NEW b \in stamps, a <= x, x < b, b - a <= MaxPause
      PROVE  \E p \in pauses : x \in p[1] .. p[2] - 1
  <2>1. PICK c \in stamps : c <= x /\ \A t \in stamps : t <= x => t <= c
    <3> DEFINE T == {x - t : t \in {u \in stamps : u <= x}}
    <3>1. T \in SUBSET Nat /\ T # {}
      BY <1>3
    <3> HIDE DEF T
    <3>2. PICK y \in T : \A z \in T : y <= z
      BY <3>1, LeastNumber
    <3>3. PICK u \in stamps : u <= x /\ y = x - u
      BY DEF T
    <3>4. ASSUME NEW t \in stamps, t <= x PROVE t <= u
      <4>1. x - t \in T
        BY <3>4 DEF T
      <4>2. y <= x - t
        BY <3>2, <4>1
      <4> QED
        BY <3>3, <4>2
    <3> QED
      BY <3>3, <3>4
  <2>2. PICK d \in stamps : x < d /\ \A t \in stamps : x < t => d <= t
    <3> DEFINE T == {t \in stamps : x < t}
    <3>1. T \in SUBSET Nat /\ T # {}
      BY <1>3
    <3> HIDE DEF T
    <3>2. PICK y \in T : \A z \in T : y <= z
      BY <3>1, LeastNumber
    <3> QED
      BY <3>2 DEF T
  <2> DEFINE p == <<c, d>>
  <2>3. c \in Nat /\ d \in Nat /\ a \in Nat /\ b \in Nat /\ a <= c /\ d <= b
    BY <1>3, <2>1, <2>2
  <2>4. d - c \in 1 .. MaxPause
    BY <1>3, <2>1, <2>2, <2>3, LedgerConstants
  <2>5. ~\E t \in stamps : c < t /\ t < d
    BY <2>1, <2>2
  <2>6. p[1] = c /\ p[2] = d /\ p \in stamps \X stamps
    OBVIOUS
  <2>7. p \in pauses /\ x \in p[1] .. p[2] - 1
    BY <2>1, <2>2, <2>3, <2>4, <2>5, <2>6
  <2> QED
    BY <2>7
<1> QED
  BY <1>1, <1>2, <1>3

\* A sum over the buckets, when one of them is added or gains d.
LEMMA SumGains ==
  ASSUME NEW g, NEW h, NEW T, IsFiniteSet(T), \A x \in T : g[x] \in Int, NEW b, NEW d \in Int,
         \A x \in T \ {b} : h[x] = g[x], h[b] = (IF b \in T THEN g[b] ELSE 0) + d
  PROVE  SumFunctionOnSet(h, T \cup {b}) = SumFunctionOnSet(g, T) + d
<1> DEFINE U == T \cup {b}
           R == T \ {b}
           r == SumFunctionOnSet(g, R)
<1>1. IsFiniteSet(U) /\ IsFiniteSet(R)
  BY FS_AddElement, FS_Subset
<1>2. b \in U /\ U \ {b} = R /\ \A x \in U : h[x] \in Int
  OBVIOUS
<1>3. SumFunctionOnSet(h, R) = r
  BY <1>1, SumAgrees
<1>4. r \in Int
  <2>1. \A x \in R : g[x] \in Int
    OBVIOUS
  <2> HIDE DEF R
  <2> QED
    BY <1>1, <2>1, SumIsNumber
<1> HIDE DEF U, R, r
<1>5. SumFunctionOnSet(h, U) = h[b] + r
  BY <1>1, <1>2, <1>3, SumWithout
<1>6. CASE b \in T
  <2>1. SumFunctionOnSet(g, T) = g[b] + r
    BY <1>6, SumWithout DEF R, r
  <2>2. h[b] = g[b] + d /\ g[b] \in Int
    BY <1>6
  <2> QED
    BY <1>4, <1>5, <2>1, <2>2 DEF U
<1>7. CASE b \notin T
  <2>1. R = T
    BY <1>7 DEF R
  <2>2. h[b] = d
    BY <1>7
  <2> QED
    BY <1>4, <1>5, <2>1, <2>2 DEF U, r
<1> QED
  BY <1>6, <1>7

LedgerRows == [output : Nat, diverted : Nat]
Outputs(bs) == [b \in DOMAIN bs |-> bs[b].output]

\* Rows are rows, no more is diverted than put out, and what is credited once
\* adds up.
BooksInv ==
  /\ buckets \in [DOMAIN buckets -> LedgerRows] /\ IsFiniteSet(DOMAIN buckets)
  /\ credited \subseteq Nat /\ IsFiniteSet(credited)
  /\ DivertedIsPart
  /\ ~twice /\ corrected = {} =>
       SumFunctionOnSet(Outputs(buckets), DOMAIN buckets) = 2 * Cardinality(credited)

\* A sample is put into its bucket.
LEMMA BooksGain ==
  ASSUME BooksInv, NEW b, NEW dt \in Nat, NEW power \in 0 .. 2, NEW seconds \in SUBSET Nat,
         IsFiniteSet(seconds), Cardinality(seconds) = dt,
         buckets' = WithSampleRow(b, [output |-> SampleRow(b).output + 2 * dt,
                                      diverted |-> SampleRow(b).diverted + power * dt]),
         credited' = credited \cup seconds,
         twice' = (twice \/ seconds \cap credited # {}), corrected' = corrected
  PROVE  BooksInv'
<1> DEFINE D == DOMAIN buckets
           row == SampleRow(b)
           new == [output |-> row.output + 2 * dt, diverted |-> row.diverted + power * dt]
           bs == [c \in D \cup {b} |-> IF c = b THEN new ELSE buckets[c]]
<1>1. buckets' = bs
  BY DEF WithSampleRow
<1>2. row \in LedgerRows /\ row.output = (IF b \in D THEN buckets[b].output ELSE 0)
      /\ row.output \in Nat /\ row.diverted \in Nat
  BY DEF BooksInv, SampleRow, NoSampleRow, LedgerRows
<1>3. power * dt \in Nat /\ power * dt <= 2 * dt
  <2>1. CASE power = 0
    BY <2>1
  <2>2. CASE power = 1
    BY <2>2
  <2>3. CASE power = 2
    BY <2>3
  <2> QED
    BY <2>1, <2>2, <2>3
<1>4. b \notin corrected => row.diverted <= row.output
  BY DEF BooksInv, DivertedIsPart, SampleRow, NoSampleRow
<1> HIDE DEF row
<1>5. new \in LedgerRows /\ new.output = row.output + 2 * dt
      /\ (b \notin corrected => new.diverted <= new.output)
  BY <1>2, <1>3, <1>4 DEF LedgerRows
<1> HIDE DEF new
<1>6. DOMAIN bs = D \cup {b} /\ bs \in [DOMAIN bs -> LedgerRows] /\ bs[b] = new
      /\ \A c \in D \ {b} : bs[c] = buckets[c]
  BY <1>5 DEF BooksInv
<1>7. IsFiniteSet(D \cup {b})
  BY FS_AddElement DEF BooksInv
<1> HIDE DEF bs
<1>8. DivertedIsPart'
  <2> SUFFICES ASSUME NEW c \in DOMAIN bs \ corrected PROVE bs[c].diverted <= bs[c].output
    BY <1>1 DEF DivertedIsPart
  <2> QED
    BY <1>5, <1>6 DEF BooksInv, DivertedIsPart
<1>9. ASSUME ~twice', corrected' = {}
      PROVE  SumFunctionOnSet(Outputs(bs), DOMAIN bs) = 2 * Cardinality(credited')
  <2> DEFINE g == Outputs(buckets)
             h == Outputs(bs)
  <2>1. (\A c \in D : g[c] = buckets[c].output /\ g[c] \in Int)
        /\ (\A c \in D \cup {b} : h[c] = bs[c].output)
    BY <1>6 DEF Outputs, BooksInv, LedgerRows
  <2>2. \A c \in D \ {b} : h[c] = g[c]
    BY <1>6, <2>1
  <2>3. h[b] = (IF b \in D THEN g[b] ELSE 0) + 2 * dt
    BY <1>2, <1>5, <1>6, <2>1
  <2> HIDE DEF g, h
  <2>4. SumFunctionOnSet(h, D \cup {b}) = SumFunctionOnSet(g, D) + 2 * dt
    <3> DEFINE d == 2 * dt
    <3>1. IsFiniteSet(D) /\ d \in Int
      BY DEF BooksInv
    <3> HIDE DEF D, d
    <3>2. h[b] = (IF b \in D THEN g[b] ELSE 0) + d
      BY <2>3 DEF d
    <3>3. \A c \in D : g[c] \in Int
      BY <2>1
    <3>4. ASSUME NEW T, NEW k, NEW l, IsFiniteSet(T), \A c \in T : k[c] \in Int,
                 \A c \in T \ {b} : l[c] = k[c], l[b] = (IF b \in T THEN k[b] ELSE 0) + d
          PROVE  SumFunctionOnSet(l, T \cup {b}) = SumFunctionOnSet(k, T) + d
      BY <3>1, <3>4, SumGains
    <3>5. SumFunctionOnSet(h, D \cup {b}) = SumFunctionOnSet(g, D) + d
      BY <2>2, <3>1, <3>2, <3>3, <3>4
    <3> QED
      BY <3>5 DEF d
  <2>5. SumFunctionOnSet(g, D) = 2 * Cardinality(credited)
    BY <1>9 DEF BooksInv, g
  <2>6. Cardinality(credited \cup seconds) = Cardinality(credited) + dt
    <3>1. credited \cap seconds = {}
      BY <1>9
    <3>2. Cardinality(credited \cup seconds)
            = Cardinality(credited) + Cardinality(seconds) - Cardinality(credited \cap seconds)
      BY FS_Union DEF BooksInv
    <3>3. Cardinality(credited) \in Nat /\ Cardinality(credited \cap seconds) = 0
      BY <3>1, FS_EmptySet, FS_CardinalityType DEF BooksInv
    <3> QED
      BY <3>2, <3>3
  <2>7. Cardinality(credited) \in Nat
    BY FS_CardinalityType DEF BooksInv
  <2> QED
    BY <1>6, <2>4, <2>5, <2>6, <2>7 DEF h
<1>10. credited' \subseteq Nat /\ IsFiniteSet(credited')
  BY FS_Union DEF BooksInv
<1> QED
  BY <1>1, <1>6, <1>7, <1>8, <1>9, <1>10 DEF BooksInv

LEMMA BooksCorrect ==
  ASSUME BooksInv, NEW start \in Nat, instant \in Nat, CorrectOutput(start, instant, 0)
  PROVE  BooksInv'
<1> DEFINE D == DOMAIN buckets
           touched == {b \in BucketOf(start) .. instant - 1 : b % BucketSpan = 0}
           fixed(b) == [SampleRow(b) EXCEPT !.output = 2 * 0 * BucketSpan]
           bs == [b \in D \cup touched |-> IF b \in touched THEN fixed(b) ELSE buckets[b]]
<1>1. buckets' = bs /\ corrected' = touched /\ corrected = {} /\ UNCHANGED <<credited, twice>>
  BY DEF CorrectOutput
<1>2. IsFiniteSet(touched)
  <2>1. BucketOf(start) \in Int /\ instant - 1 \in Int
    BY LedgerConstants, DivisionIs DEF BucketOf
  <2>2. IsFiniteSet(BucketOf(start) .. instant - 1)
    BY <2>1, FS_Interval
  <2> QED
    BY <2>2, FS_Subset
<1>3. \A b : fixed(b) \in LedgerRows
  <2> TAKE b
  <2>1. SampleRow(b) \in LedgerRows
    BY DEF BooksInv, SampleRow, NoSampleRow, LedgerRows
  <2>2. 2 * 0 * BucketSpan \in Nat
    BY LedgerConstants
  <2> QED
    BY <2>1, <2>2 DEF LedgerRows
<1> HIDE DEF touched, fixed
<1>4. DOMAIN bs = D \cup touched /\ bs \in [DOMAIN bs -> LedgerRows]
      /\ \A b \in D \ touched : bs[b] = buckets[b]
  BY <1>3 DEF BooksInv
<1>5. IsFiniteSet(D \cup touched)
  BY <1>2, FS_Union DEF BooksInv
<1>6. touched = {} => bs = buckets
  BY DEF BooksInv
<1> HIDE DEF bs
<1>7. DivertedIsPart'
  <2> SUFFICES ASSUME NEW c \in DOMAIN bs \ touched PROVE bs[c].diverted <= bs[c].output
    BY <1>1 DEF DivertedIsPart
  <2>1. c \in D \ corrected /\ bs[c] = buckets[c]
    BY <1>1, <1>4
  <2> QED
    BY <2>1 DEF BooksInv, DivertedIsPart
<1>8. ~twice' /\ corrected' = {} =>
        SumFunctionOnSet(Outputs(bs), DOMAIN bs) = 2 * Cardinality(credited')
  BY <1>1, <1>6 DEF BooksInv
<1> QED
  BY <1>1, <1>4, <1>5, <1>7, <1>8 DEF BooksInv

-----------------------------------------------------------------------------
(* As long as no two callers cross, what is credited lies before the latest *)
(* sample, so that the next one cannot credit it again.                    *)

Callers == {"live", "portal"}
LedgerSamples == [ts : Nat, diverted : {0, 2}]
Calls == [prev : LedgerSamples \cup {NoSample}, sample : LedgerSamples]

\* Nothing that was credited is as late as t.
CreditedBefore(t) == \A x \in credited : x < t

\* Stamps are recorded and not of the future.
TimesInv ==
  /\ instant \in Nat /\ DOMAIN buckets \subseteq 0 .. instant
  /\ samples \subseteq 0 .. instant /\ CreditedBefore(instant)
  /\ last = NoSample \/ (last \in LedgerSamples /\ last.ts \in samples)
  /\ asked = -1 \/ asked \in 0 .. instant
  /\ DOMAIN recording = Callers
  /\ \A c \in Callers :
       \/ recording[c] = NoCall
       \/ /\ recording[c] \in Calls /\ recording[c].sample.ts <= instant
          /\ recording[c].prev # NoSample => recording[c].prev.ts \in samples

\* As long as no two callers cross, what is credited is before the latest
\* sample; before the first one, before all that may come.
OrderInv ==
  /\ twice => crossed
  /\ last # NoSample /\ ~crossed => CreditedBefore(last.ts)
  /\ last = NoSample =>
       /\ asked # -1 => CreditedBefore(asked)
       /\ \A c \in Callers : recording[c] # NoCall =>
            recording[c].prev = NoSample /\ CreditedBefore(recording[c].sample.ts)

LedgerInv ==
  /\ TimesInv /\ OrderInv /\ BooksInv
  /\ credited \subseteq watched \cup Covered(samples)

LEMMA NoSampleIs ==
  /\ NoSample \notin LedgerSamples /\ NoSample.ts = -1
  /\ \A r \in LedgerSamples : r.ts \in Nat /\ r.diverted \in {0, 2}
BY DEF NoSample, LedgerSamples

LEMMA BooksUnchanged ==
  ASSUME BooksInv, UNCHANGED <<buckets, corrected, credited>>, twice' <=> twice PROVE BooksInv'
BY DEF BooksInv, DivertedIsPart

LEMMA ReadKeeps ==
  ASSUME LedgerInv, NEW c \in Callers, NEW ts \in 0 .. instant, NEW power \in {0, 2},
         RecordReads(c, ts, power), last = NoSample => CreditedBefore(ts),
         asked' = asked \/ asked' = -1,
         UNCHANGED <<instant, last, buckets, corrected, samples, watched, credited, twice, crossed>>
  PROVE  LedgerInv'
<1> DEFINE call == [prev |-> last, sample |-> [ts |-> ts, diverted |-> power]]
<1>1. recording' = [recording EXCEPT ![c] = call] /\ DOMAIN recording = Callers
  BY DEF RecordReads, LedgerInv, TimesInv
<1>2. call \in Calls /\ call.prev = last /\ call.sample.ts = ts
  BY DEF LedgerInv, TimesInv, Calls, LedgerSamples
<1> HIDE DEF call
<1>3. DOMAIN recording' = Callers /\ \A d \in Callers : recording'[d] = recording[d] \/ recording'[d] = call
  BY <1>1
<1>4. TimesInv'
  BY <1>2, <1>3 DEF LedgerInv, TimesInv, CreditedBefore
<1>5. OrderInv'
  BY <1>2, <1>3 DEF LedgerInv, OrderInv, CreditedBefore
<1> QED
  BY <1>4, <1>5, BooksUnchanged DEF LedgerInv

LEMMA AskKeeps ==
  ASSUME LedgerInv, PortalAsks \/ SecondPasses PROVE LedgerInv'
<1>1. instant' \in Nat /\ instant' >= instant /\ (asked' = asked \/ asked' = instant)
      /\ UNCHANGED <<last, recording, buckets, corrected, samples, watched, credited, twice, crossed>>
  BY DEF PortalAsks, SecondPasses, LedgerInv, TimesInv
<1>2. credited \subseteq Nat
  BY DEF LedgerInv, BooksInv
<1>3. instant \in Nat /\ CreditedBefore(instant)
  BY DEF LedgerInv, TimesInv
<1>4. TimesInv'
  <2>1. DOMAIN buckets \subseteq 0 .. instant' /\ samples \subseteq 0 .. instant' /\ \A x \in credited : x < instant'
    BY <1>1, <1>2, <1>3 DEF LedgerInv, TimesInv, CreditedBefore
  <2>2. asked' = -1 \/ asked' \in 0 .. instant'
    BY <1>1, <1>3 DEF LedgerInv, TimesInv
  <2>3. \A c \in Callers : recording[c] \in Calls => recording[c].sample.ts \in Nat
    BY DEF Calls, LedgerSamples
  <2>4. \A c \in Callers : recording[c] = NoCall \/
          /\ recording[c] \in Calls /\ recording[c].sample.ts <= instant'
          /\ recording[c].prev # NoSample => recording[c].prev.ts \in samples
    BY <1>1, <1>3, <2>3 DEF LedgerInv, TimesInv
  <2> QED
    BY <1>1, <2>1, <2>2, <2>4 DEF LedgerInv, TimesInv, CreditedBefore
<1>5. OrderInv'
  BY <1>1, <1>3 DEF LedgerInv, OrderInv, CreditedBefore
<1> QED
  BY <1>1, <1>4, <1>5, BooksUnchanged DEF LedgerInv

LEMMA LiveKeeps == ASSUME LedgerInv, LiveSample PROVE LedgerInv'
<1>1. PICK power \in {0, 2} : RecordReads("live", instant, power)
  BY DEF LiveSample
<1>2. instant \in 0 .. instant /\ CreditedBefore(instant) /\ "live" \in Callers
  BY DEF LedgerInv, TimesInv, Callers
<1> QED
  BY <1>1, <1>2, ReadKeeps DEF LiveSample

LEMMA AnswerKeeps == ASSUME LedgerInv, PortalAnswers PROVE LedgerInv'
<1>1. asked \in 0 .. instant /\ "portal" \in Callers
  BY DEF PortalAnswers, LedgerInv, TimesInv, Callers
<1>2. CASE RecordReads("portal", asked, 0)
  <2>1. last = NoSample => CreditedBefore(asked)
    BY DEF PortalAnswers, LedgerInv, OrderInv
  <2> QED
    BY <1>1, <1>2, <2>1, ReadKeeps DEF PortalAnswers
<1>3. CASE UNCHANGED recording
  <2>1. TimesInv'
    BY <1>3 DEF PortalAnswers, LedgerInv, TimesInv, CreditedBefore
  <2>2. OrderInv'
    BY <1>3 DEF PortalAnswers, LedgerInv, OrderInv, CreditedBefore
  <2> QED
    BY <2>1, <2>2, BooksUnchanged DEF PortalAnswers, LedgerInv
<1> QED
  BY <1>2, <1>3 DEF PortalAnswers

LEMMA RestartKeeps == ASSUME LedgerInv, LedgerRestarts PROVE LedgerInv'
<1>1. /\ last' = NoSample /\ asked' = -1 /\ recording' = [c \in Callers |-> NoCall]
      /\ watched' = watched \cup Covered(samples) /\ samples' = {}
      /\ UNCHANGED <<instant, buckets, corrected, credited, twice, crossed>>
  BY DEF LedgerRestarts, Callers
<1>2. TimesInv'
  BY <1>1 DEF LedgerInv, TimesInv, CreditedBefore
<1>3. OrderInv'
  BY <1>1 DEF LedgerInv, OrderInv, CreditedBefore
<1>4. (credited \subseteq watched \cup Covered(samples))'
  <2>1. credited \subseteq watched'
    BY <1>1 DEF LedgerInv
  <2> QED
    BY <1>1, <2>1
<1> QED
  BY <1>1, <1>2, <1>3, <1>4, BooksUnchanged DEF LedgerInv

LEMMA BucketBounds == ASSUME NEW t \in Nat PROVE BucketOf(t) \in 0 .. t
<1> DEFINE q == t \div BucketSpan
<1>1. BucketSpan \in Nat /\ BucketSpan > 0
  BY LedgerConstants
<1>2. q \in Int /\ q * BucketSpan \in Int /\ q * BucketSpan <= t /\ t < q * BucketSpan + BucketSpan
  BY <1>1, DivisionIs
<1> HIDE DEF q
<1>3. q >= 0
  <2> SUFFICES ASSUME q <= -1 PROVE FALSE
    BY <1>2
  <2>1. q * BucketSpan <= -1 * BucketSpan
    BY <1>1, <1>2, Grows
  <2> QED
    BY <1>1, <1>2, <2>1
<1>4. 0 * BucketSpan <= q * BucketSpan
  BY <1>1, <1>2, <1>3, Grows
<1> QED
  BY <1>1, <1>2, <1>4 DEF BucketOf, q

LEMMA CorrectKeeps ==
  ASSUME LedgerInv, NEW start \in StartTime .. EndTime, CorrectOutput(start, instant, 0)
  PROVE  LedgerInv'
<1>1. start \in Nat /\ instant \in Nat
  BY LedgerConstants DEF LedgerInv, TimesInv
<1>2. BooksInv'
  BY <1>1, BooksCorrect DEF LedgerInv
<1>3. DOMAIN buckets' \subseteq 0 .. instant
  <2>1. DOMAIN buckets' = DOMAIN buckets \cup {b \in BucketOf(start) .. instant - 1 : b % BucketSpan = 0}
    BY DEF CorrectOutput
  <2>2. BucketOf(start) \in Nat
    BY <1>1, BucketBounds
  <2> QED
    BY <1>1, <2>1, <2>2 DEF LedgerInv, TimesInv
<1>4. UNCHANGED <<instant, last, asked, recording, samples, watched, credited, twice, crossed>>
  BY DEF CorrectOutput
<1>5. TimesInv'
  BY <1>3, <1>4 DEF LedgerInv, TimesInv, CreditedBefore
<1>6. OrderInv'
  BY <1>4 DEF LedgerInv, OrderInv, CreditedBefore
<1> QED
  BY <1>2, <1>4, <1>5, <1>6 DEF LedgerInv

LEMMA CreditKeeps ==
  ASSUME LedgerInv, NEW c \in Callers, RecordCredits(c) PROVE LedgerInv'
<1> DEFINE prev == recording[c].prev
           r == recording[c].sample
           dt == r.ts - prev.ts
           b == BucketOf(r.ts)
           seconds == IF Credits(prev, r) THEN prev.ts .. r.ts - 1 ELSE {}
           most == Min({prev.diverted + r.diverted, 2})
<1>1. /\ recording[c] \in Calls /\ r \in LedgerSamples /\ prev \in LedgerSamples \cup {NoSample}
      /\ r.ts <= instant /\ (prev # NoSample => prev.ts \in samples)
  BY DEF RecordCredits, LedgerInv, TimesInv, Calls
<1>2. /\ last' = r /\ samples' = samples \cup {r.ts} /\ credited' = credited \cup seconds
      /\ twice' = (twice \/ seconds \cap credited # {})
      /\ crossed' = (crossed \/ prev # last \/ r.ts < last.ts)
      /\ recording' = [recording EXCEPT ![c] = NoCall]
      /\ UNCHANGED <<instant, asked, corrected, watched>>
      /\ buckets' = IF Credits(prev, r)
                    THEN WithSampleRow(b, [output |-> SampleRow(b).output + 2 * dt,
                                           diverted |-> SampleRow(b).diverted + most * dt])
                    ELSE buckets
  BY DEF RecordCredits
<1>3. r.ts \in Nat /\ instant \in Nat /\ r.ts <= instant /\ r # NoSample /\ (prev # NoSample => prev.ts \in Nat)
      /\ (last # NoSample => last.ts \in Nat)
  BY <1>1, NoSampleIs DEF LedgerInv, TimesInv
<1>4. ASSUME Credits(prev, r)
      PROVE  /\ prev # NoSample /\ prev \in LedgerSamples /\ dt \in 1 .. MaxPause /\ dt \in Nat
             /\ seconds = prev.ts .. r.ts - 1 /\ IsFiniteSet(seconds) /\ Cardinality(seconds) = dt
             /\ most \in 0 .. 2
  <2>1. prev # NoSample /\ dt \in 1 .. MaxPause
    BY <1>4 DEF Credits
  <2>2. prev \in LedgerSamples /\ prev.ts \in Nat
    BY <1>1, <1>3, <2>1
  <2>3. seconds = prev.ts .. r.ts - 1
    BY <1>4
  <2> DEFINE i == prev.ts
             j == r.ts - 1
  <2>4. i \in Int /\ j \in Int /\ i <= j /\ dt = j - i + 1
    BY <1>3, <2>1, <2>2, LedgerConstants
  <2> HIDE DEF i, j
  <2>5. IsFiniteSet(i .. j) /\ Cardinality(i .. j) = j - i + 1
    <3> HIDE DEF prev, r, dt, b, seconds, most
    <3>1. ASSUME NEW m \in Int, NEW n \in Int, m <= n
          PROVE  IsFiniteSet(m .. n) /\ Cardinality(m .. n) = n - m + 1
      BY <3>1, FS_Interval
    <3> QED
      BY <2>4, <3>1
  <2>6. most \in 0 .. 2
    <3>1. prev.diverted \in {0, 2} /\ r.diverted \in {0, 2}
      BY <1>1, <2>2, NoSampleIs
    <3> DEFINE e == prev.diverted + r.diverted
    <3>2. e \in Int /\ e >= 0 /\ 2 \in Int
      BY <3>1
    <3> HIDE DEF e
    <3>3. Min({e, 2}) \in {e, 2} /\ Min({e, 2}) <= 2
      BY <3>2, MinOfTwo
    <3> QED
      BY <3>2, <3>3 DEF e
  <2> QED
    BY <2>1, <2>2, <2>3, <2>4, <2>5, <2>6, LedgerConstants DEF i, j
<1>5. \A x \in seconds : x \in Nat /\ x < r.ts /\ Credits(prev, r) /\ prev.ts <= x
  BY <1>3, <1>4
<1>6. BooksInv'
  <2>1. CASE Credits(prev, r)
    <3>1. seconds \in SUBSET Nat
      BY <1>5
    <3> HIDE DEF seconds, most, dt, b
    <3> QED
      BY <1>2, <1>4, <2>1, <3>1, BooksGain DEF LedgerInv
  <2>2. CASE ~Credits(prev, r)
    <3>1. seconds = {}
      BY <2>2
    <3>2. UNCHANGED <<buckets, corrected, credited>> /\ (twice' <=> twice)
      <4> HIDE DEF seconds, prev, r, b, most, dt
      <4> QED
        BY <1>2, <2>2, <3>1
    <3> QED
      BY <3>2, BooksUnchanged DEF LedgerInv
  <2> QED
    BY <2>1, <2>2
<1>d. Credits(prev, r) => r.ts - prev.ts <= MaxPause /\ r.ts - prev.ts \in Int /\ prev # NoSample
  BY LedgerConstants DEF Credits
<1> HIDE DEF seconds, dt, most, b, prev, r
<1>7. credited' \subseteq watched' \cup Covered(samples')
  <2>0. samples \subseteq Nat /\ samples' \subseteq Nat /\ credited \subseteq Nat
    BY <1>2, <1>3 DEF LedgerInv, TimesInv, BooksInv
  <2>1. ASSUME NEW x \in credited PROVE x \in watched \/ x \in Covered(samples')
    <3>1. CASE x \in Covered(samples)
      <4>1. \E i, j \in samples : i <= x /\ x < j /\ j - i <= MaxPause
        BY <2>0, <3>1, CoveredIs
      <4>2. \E i, j \in samples' : i <= x /\ x < j /\ j - i <= MaxPause
        BY <1>2, <4>1
      <4> QED
        BY <2>0, <4>2, CoveredIs
    <3> QED
      BY <3>1 DEF LedgerInv
  <2>2. ASSUME NEW x \in seconds PROVE x \in Covered(samples')
    <3>1. x \in Nat /\ x < r.ts /\ Credits(prev, r) /\ prev.ts <= x
      BY <1>5
    <3>2. prev.ts \in samples' /\ r.ts \in samples' /\ r.ts - prev.ts <= MaxPause
      BY <1>1, <1>2, <1>d, <3>1
    <3> QED
      BY <2>0, <3>1, <3>2, CoveredIs
  <2> QED
    BY <1>2, <2>1, <2>2
<1>8. DOMAIN recording' = Callers
      /\ \A d \in Callers : recording'[d] = recording[d] \/ recording'[d] = NoCall
  BY <1>2 DEF LedgerInv, TimesInv
<1>9. TimesInv'
  <2>1. DOMAIN buckets' \subseteq 0 .. instant
    <3>1. b \in 0 .. r.ts
      BY <1>3, BucketBounds DEF b
    <3>2. b \in 0 .. instant
      BY <1>3, <3>1
    <3>3. DOMAIN buckets' \subseteq DOMAIN buckets \cup {b}
      BY <1>2 DEF WithSampleRow
    <3> QED
      BY <3>2, <3>3 DEF LedgerInv, TimesInv
  <2>2. samples' \subseteq 0 .. instant /\ \A x \in credited' : x < instant
    <3>1. \A x \in seconds : x < instant
      BY <1>3, <1>5
    <3>2. samples \subseteq 0 .. instant /\ \A x \in credited : x < instant
      BY DEF LedgerInv, TimesInv, CreditedBefore
    <3>3. samples' = samples \cup {r.ts} /\ credited' = credited \cup seconds
      BY <1>2
    <3>4. samples' \subseteq 0 .. instant
      <4>1. r.ts \in 0 .. instant
        BY <1>3
      <4> QED
        BY <3>2, <3>3, <4>1
    <3>5. ASSUME NEW x \in credited' PROVE x < instant
      BY <3>1, <3>2, <3>3
    <3> QED
      BY <3>4, <3>5
  <2> QED
    BY <1>1, <1>2, <1>8, <2>1, <2>2 DEF LedgerInv, TimesInv, CreditedBefore
<1>10. OrderInv'
  <2>1. ASSUME ~crossed' PROVE CreditedBefore(r.ts) /\ seconds \cap credited = {} /\ ~twice
    <3>1. ~crossed /\ prev = last /\ ~(r.ts < last.ts) /\ ~twice
      BY <1>2, <2>1 DEF LedgerInv, OrderInv
    <3>2. CASE last = NoSample
      <4>1. CreditedBefore(r.ts)
        <5>1. recording[c] # NoCall
          BY DEF RecordCredits
        <5> QED
          BY <3>2, <5>1 DEF LedgerInv, OrderInv, r
      <4>2. seconds = {}
        BY <1>5, <3>1, <3>2 DEF Credits
      <4> QED
        BY <3>1, <4>1, <4>2
    <3>3. CASE last # NoSample
      <4>1. CreditedBefore(last.ts) /\ last.ts \in Nat /\ credited \subseteq Nat
        BY <1>3, <3>1, <3>3 DEF LedgerInv, OrderInv, BooksInv
      <4>2. CreditedBefore(r.ts)
        BY <1>3, <3>1, <4>1 DEF CreditedBefore
      <4>3. \A x \in seconds : x \notin credited
        BY <1>5, <3>1, <4>1 DEF CreditedBefore
      <4> QED
        BY <3>1, <4>2, <4>3
    <3> QED
      BY <3>2, <3>3
  <2>2. ~crossed' => ~twice' /\ \A x \in credited' : x < r.ts
    BY <1>2, <1>5, <2>1 DEF CreditedBefore
  <2> QED
    BY <1>2, <1>3, <2>2 DEF OrderInv, CreditedBefore
<1> QED
  BY <1>6, <1>7, <1>9, <1>10 DEF LedgerInv

LEMMA LedgerSays == ASSUME LedgerInv PROVE LedgerIsWatched
<1>1. Lifetime = SumFunctionOnSet(Outputs(buckets), DOMAIN buckets)
  BY DEF Lifetime, OutputOf, SumFunction, Outputs
<1>2. WatchedOnce
  BY <1>1 DEF WatchedOnce, LedgerInv, OrderInv, BooksInv
<1>3. DivertedIsPart
  BY DEF LedgerInv, BooksInv
<1>4. TodayAgrees
  <2>1. instant \in Nat /\ DOMAIN buckets \subseteq 0 .. instant
    BY DEF LedgerInv, TimesInv
  <2>2. \A shift \in {0, HourSpan, HourSpan \div 2} : shift \in Nat
    BY LedgerConstants
  <2>3. ASSUME NEW shift \in {0, HourSpan, HourSpan \div 2}
        PROVE  LET today == (instant + shift) \div DaySpan
                   bars == DailyRollup(shift) IN
               (IF today \in DOMAIN bars THEN bars[today] ELSE 0) = Today(shift)
    BY <2>1, <2>2, TodayIsBar
  <2>4. ASSUME NEW shift \in {0, HourSpan, HourSpan \div 2}, shift % HourSpan = 0, NEW plan \in Plans
        PROVE  LET mine == {b \in DOMAIN buckets : b >= StartOfDay(instant, shift)} IN
               TodaySavings(plan, shift, TRUE)
                 = SumFunction([b \in mine |-> buckets[b].output * RateAt(plan, b, shift)])
    BY <2>1, <2>2, <2>4, SavingsOfHours
  <2> QED
    BY <2>3, <2>4 DEF TodayAgrees
<1> QED
  BY <1>2, <1>3, <1>4 DEF LedgerIsWatched

\* Only time between two samples that were recorded is credited, none of it
\* twice as long as no two callers cross, and today's total, bar and savings
\* agree (energy_db.py 460-560, cost.py).
THEOREM OnlyWatchedIsCredited == LedgerSpec => []LedgerIsWatched
<1>1. LedgerInit => LedgerInv
  <2> SUFFICES ASSUME LedgerInit PROVE LedgerInv
    OBVIOUS
  <2>1. TimesInv
    BY LedgerConstants DEF LedgerInit, TimesInv, Callers, CreditedBefore
  <2>2. OrderInv
    BY DEF LedgerInit, OrderInv, Callers, CreditedBefore
  <2>3. BooksInv
    <3>1. DOMAIN buckets = {} /\ credited = {}
      BY DEF LedgerInit
    <3>2. buckets \in [DOMAIN buckets -> LedgerRows] /\ DivertedIsPart
      BY <3>1 DEF LedgerInit, DivertedIsPart
    <3>3. SumFunctionOnSet(Outputs(buckets), DOMAIN buckets) = 2 * Cardinality(credited)
      BY <3>1, SumOfNone, FS_EmptySet
    <3> QED
      BY <3>1, <3>2, <3>3, FS_EmptySet DEF BooksInv
  <2> QED
    BY <2>1, <2>2, <2>3 DEF LedgerInit, LedgerInv
<1>2. LedgerInv /\ [LedgerNext]_ledgerVars => LedgerInv'
  <2> SUFFICES ASSUME LedgerInv, [LedgerNext]_ledgerVars PROVE LedgerInv'
    OBVIOUS
  <2>1. CASE LedgerNext
    BY <2>1, LiveKeeps, AskKeeps, AnswerKeeps, RestartKeeps, CreditKeeps, CorrectKeeps
    DEF LedgerNext, Callers
  <2>2. CASE UNCHANGED ledgerVars
    <3>1. UNCHANGED <<instant, last, asked, recording, buckets, corrected, samples, watched, credited,
                      twice, crossed>>
      BY <2>2 DEF ledgerVars
    <3>2. TimesInv' /\ OrderInv'
      BY <3>1 DEF LedgerInv, TimesInv, OrderInv, CreditedBefore
    <3> QED
      BY <3>1, <3>2, BooksUnchanged DEF LedgerInv
  <2> QED
    BY <2>1, <2>2
<1>3. LedgerInv => LedgerIsWatched
  BY LedgerSays
<1> QED
  BY <1>1, <1>2, <1>3, PTL DEF LedgerSpec
=============================================================================

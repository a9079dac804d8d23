---------------------------- MODULE DailySummary ----------------------------
(***************************************************************************)
(* Predicted and actual charge at sunset and sunrise, one row per local    *)
(* date (server.py 2295-2379, energy_db.py 990-1123, 1162-1212): each      *)
(* smart-charge tick enters what the forecast says into today's row, then  *)
(* fills the actual values that have become due in all rows.  Time counts  *)
(* quarters of a day: sunrise after the first, sunset after the third.     *)
(***************************************************************************)
EXTENDS Integers

CONSTANTS
  Shift,   \* by how much the date of UTC is ahead: quarters
  MaxNow  \* bound

ASSUME SummaryAssumption == Shift \in 0..3 /\ MaxNow \in Nat

VARIABLES
  now,      \* quarters since the first midnight
  offset,   \* does the location file have the UTC offset
  tickLoc,  \* the tick has read the file and waits for the weather
  recorded, \* sunsets and sunrises at which samples were taken
  rows,     \* daily_solar_summary
  misdated  \* history: a tick has dated a row without the offset

summaryVars == <<now, offset, tickLoc, recorded, rows, misdated>>

Unset == -1
EmptyRow == [sunset |-> Unset, sunrise |-> Unset,
             actualSunset |-> Unset, actualSunrise |-> Unset]
Dates == 0..((MaxNow + Shift) \div 4)

SummaryInit ==
  /\ now = 0
  /\ offset = TRUE /\ tickLoc = "none"
  /\ recorded = {}
  /\ rows = [d \in Dates |-> EmptyRow]
  /\ misdated = FALSE

\* What the forecast says of the sun.  A sunset is only found by day, and a
\* forecast has only hours ahead.
IsDaylight(t) == t % 4 \in {1, 2}
NextSunset(t) == IF IsDaylight(t) THEN 4 * (t \div 4) + 3 ELSE Unset
NextSunrise(t) == 4 * ((t + 3) \div 4) + 1

\* The local date, or that of UTC when the offset is missing.
LocalDate(t, known) == IF known THEN t \div 4 ELSE (t + Shift) \div 4

\* Values that are known replace what the row has.
Known(new, old) == IF new = Unset THEN old ELSE new

Upserted(rs, date, sunset, sunrise) ==
  [rs EXCEPT ![date].sunset = Known(sunset, @), ![date].sunrise = Known(sunrise, @)]

\* The charge is that of the samples around the time, if there are any.
SocAt(ts) == IF ts \in recorded THEN ts ELSE Unset

Due(ts) == ts # Unset /\ ts <= now

\* backfill_daily_actuals
Backfilled(rs) ==
  [d \in Dates |->
     [rs[d] EXCEPT !.actualSunset = IF @ = Unset /\ Due(rs[d].sunset) THEN SocAt(rs[d].sunset) ELSE @,
                   !.actualSunrise = IF @ = Unset /\ Due(rs[d].sunrise) THEN SocAt(rs[d].sunrise) ELSE @]]

\* Mutant: the actual values are filled before the forecast is entered.
BackfilledFirst(known) ==
  Upserted(Backfilled(rows), LocalDate(now, known), NextSunset(now), NextSunrise(now))

UpdateDailySummary(known) ==
  Backfilled(Upserted(rows, LocalDate(now, known), NextSunset(now), NextSunrise(now)))

\* A tick reads the location and waits for the weather, which stores the offset
\* unless it is in the cache.
TickStarts ==
  /\ tickLoc = "none"
  /\ tickLoc' = IF offset THEN "known" ELSE "unknown"
  /\ UNCHANGED <<now, offset, recorded, rows, misdated>>

TickEnds ==
  /\ tickLoc # "none"
  /\ offset' \in {offset, TRUE}
  /\ rows' = UpdateDailySummary(tickLoc = "known")
  /\ misdated' = (misdated \/ tickLoc = "unknown")
  /\ tickLoc' = "none"
  /\ UNCHANGED <<now, recorded>>

\* The weather or the forecast fails.
TickFails ==
  /\ tickLoc # "none"
  /\ tickLoc' = "none"
  /\ UNCHANGED <<now, offset, recorded, rows, misdated>>

\* A new location drops the offset of the old one.
SetLocation ==
  /\ offset' = FALSE
  /\ UNCHANGED <<now, tickLoc, recorded, rows, misdated>>

\* The device reports its offset.
UpdateTimezone ==
  /\ offset' = TRUE
  /\ UNCHANGED <<now, tickLoc, recorded, rows, misdated>>

\* Sunrise, noon, sunset, midnight; the device may be out of reach.
TimePasses ==
  /\ now < MaxNow
  /\ now' = now + 1
  /\ recorded' \in {recorded, recorded \cup {now + 1}}
  /\ UNCHANGED <<offset, tickLoc, rows, misdated>>

SummaryNext ==
  \/ TickStarts \/ TickEnds \/ TickFails
  \/ SetLocation \/ UpdateTimezone \/ TimePasses

SummarySpec == SummaryInit /\ [][SummaryNext]_summaryVars

-----------------------------------------------------------------------------
\* The actual value of a row is that of the sunset or the sunrise that its
\* prediction is about, although a row's sunrise is first this morning's and
\* from sunrise on tomorrow's - unless a tick dated a row without the offset,
\* which it had read before the weather brought it (server.py 2328-2331,
\* energy_db.py 997-999).
ActualOfPredicted ==
  ~misdated =>
    \A d \in Dates :
      /\ rows[d].actualSunset \in {Unset, rows[d].sunset}
      /\ rows[d].actualSunrise \in {Unset, rows[d].sunrise}
=============================================================================

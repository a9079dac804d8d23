---------------------------- MODULE EnergyLedger ----------------------------
(***************************************************************************)
(* The energy that a unit is credited with (energy_db.py 460-760,          *)
(* 1606-1627, server.py 1125-1158, 1305-1425, 1461-1507, 1872-1906,        *)
(* 5095-5123, cost.py).  Two callers record samples of the same unit from  *)
(* two threads: a live one stamps a sample when it has it, the portal pass *)
(* stamps before it asks.  The power out is always 1; what the diversion   *)
(* plug is thought to draw varies.  Energy is counted twice, so that the   *)
(* mean of two powers is their sum.                                        *)
(***************************************************************************)
EXTENDS Integers, FiniteSetsExt

CONSTANTS
  StartTime, EndTime, \* bounds of the clock
  BucketSpan,         \* BUCKET_S
  HourSpan,           \* a multiple of it
  DaySpan,            \* and of that
  MaxPause            \* MAX_GAP_S

ASSUME LedgerAssumption ==
  /\ {StartTime, EndTime, MaxPause} \subseteq Nat /\ {BucketSpan, HourSpan, DaySpan} \subseteq Nat \ {0}
  /\ HourSpan % BucketSpan = 0 /\ DaySpan % HourSpan = 0

VARIABLES
  instant,
  last,      \* _last: the latest recorded sample, [ts, diverted]
  asked,     \* the portal pass: the time stamp it will use
  recording, \* by caller: the call to record that has read _last
  buckets,   \* table samples: by bucket the output and what was diverted
  corrected, \* history: buckets that the user overwrote
  samples,   \* history: the stamps that were recorded since the start
  watched,   \* history: the seconds that earlier lives watched
  credited,  \* history: the seconds that were credited
  twice,     \* history: was one credited twice
  crossed    \* history: did a sample find a newer one, or lose to another

ledgerVars == <<instant, last, asked, recording, buckets, corrected, samples, watched, credited,
                twice, crossed>>

NoSample == [ts |-> -1, diverted |-> 0]
NoCall == [prev |-> NoSample, sample |-> NoSample]
BucketOf(t) == (t \div BucketSpan) * BucketSpan
NoSampleRow == [output |-> 0, diverted |-> 0]
SampleRow(b) == IF b \in DOMAIN buckets THEN buckets[b] ELSE NoSampleRow
WithSampleRow(b, row) == [c \in DOMAIN buckets \cup {b} |-> IF c = b THEN row ELSE buckets[c]]

LedgerInit ==
  /\ instant = StartTime /\ last = NoSample /\ asked = -1
  /\ recording = [c \in {"live", "portal"} |-> NoCall]
  /\ buckets = [b \in {} |-> NoSampleRow] /\ corrected = {}
  /\ samples = {} /\ watched = {} /\ credited = {}
  /\ twice = FALSE /\ crossed = FALSE

-----------------------------------------------------------------------------
\* Mutant: the pause between two samples may be of any length.
CreditedAcross(prev, s) == prev # NoSample /\ s.ts > prev.ts

Credits(prev, s) == prev # NoSample /\ s.ts - prev.ts \in 1..MaxPause

\* record: no lock is held from the read of _last to its write.
RecordReads(c, ts, diverted) ==
  /\ recording[c] = NoCall
  /\ recording' = [recording EXCEPT ![c] = [prev |-> last, sample |-> [ts |-> ts, diverted |-> diverted]]]

\* A second sample in the same second credits nothing.
LiveSample ==
  /\ instant \notin samples
  /\ \E diverted \in {0, 2} : RecordReads("live", instant, diverted)
  /\ UNCHANGED <<instant, last, asked, buckets, corrected, samples, watched, credited, twice, crossed>>

PortalAsks ==
  /\ asked = -1 /\ recording["portal"] = NoCall
  /\ asked' = instant
  /\ UNCHANGED <<instant, last, recording, buckets, corrected, samples, watched, credited, twice, crossed>>

\* A fetch that fails records nothing.
PortalAnswers ==
  /\ asked # -1
  /\ RecordReads("portal", asked, 0) \/ UNCHANGED recording
  /\ asked' = -1
  /\ UNCHANGED <<instant, last, buckets, corrected, samples, watched, credited, twice, crossed>>

\* The mean power of both samples over the time between them, in the bucket of
\* the later; no more is diverted than was put out.
RecordCredits(c) ==
  /\ recording[c] # NoCall
  /\ LET prev == recording[c].prev
         s == recording[c].sample
         dt == s.ts - prev.ts
         b == BucketOf(s.ts)
         seconds == IF Credits(prev, s) THEN prev.ts..s.ts - 1 ELSE {}
         diverted == Min({prev.diverted + s.diverted, 2}) IN
     /\ last' = s
     /\ buckets' = IF Credits(prev, s)
                   THEN WithSampleRow(b, [output |-> SampleRow(b).output + 2 * dt,
                                    diverted |-> SampleRow(b).diverted + diverted * dt])
                   ELSE buckets
     /\ samples' = samples \cup {s.ts}
     /\ credited' = credited \cup seconds
     /\ twice' = (twice \/ seconds \cap credited # {})
     /\ crossed' = (crossed \/ prev # last \/ s.ts < last.ts)
  /\ recording' = [recording EXCEPT ![c] = NoCall]
  /\ UNCHANGED <<instant, asked, corrected, watched>>

\* correct_output_w: each bucket that begins before the end, from that of the
\* start; what was diverted stays.
CorrectOutput(start, end, power) ==
  LET touched == { b \in BucketOf(start)..end - 1 : b % BucketSpan = 0 }
      fixed(b) == [SampleRow(b) EXCEPT !.output = 2 * power * BucketSpan] IN
  /\ corrected = {}    \* bound: one correction
  /\ start < end
  /\ buckets' = [b \in DOMAIN buckets \cup touched |->
                   IF b \in touched THEN fixed(b) ELSE buckets[b]]
  /\ corrected' = touched
  /\ UNCHANGED <<instant, last, asked, recording, samples, watched, credited, twice, crossed>>

\* Seconds between two samples with none between them, at most MaxPause apart.
Covered(stamps) ==
  LET pauses == { p \in stamps \X stamps :
                    p[2] - p[1] \in 1..MaxPause /\ ~\E t \in stamps : p[1] < t /\ t < p[2] } IN
  UNION { p[1]..p[2] - 1 : p \in pauses }

\* The database stays, what is in memory does not.
LedgerRestarts ==
  /\ last # NoSample
  /\ watched = {}      \* bound: no restart after one that had watched
  /\ last' = NoSample /\ asked' = -1
  /\ recording' = [c \in {"live", "portal"} |-> NoCall]
  /\ watched' = watched \cup Covered(samples) /\ samples' = {}
  /\ UNCHANGED <<instant, buckets, corrected, credited, twice, crossed>>

\* Both callers take far less than a second from the read to the write.
SecondPasses ==
  /\ instant < EndTime
  /\ \A c \in DOMAIN recording : recording[c] = NoCall
  /\ instant' = instant + 1
  /\ UNCHANGED <<last, asked, recording, buckets, corrected, samples, watched, credited, twice, crossed>>

LedgerNext ==
  \/ LiveSample \/ PortalAsks \/ PortalAnswers \/ LedgerRestarts \/ SecondPasses
  \/ \E c \in {"live", "portal"} : RecordCredits(c)
  \/ \E start \in StartTime..EndTime : \* bound: to nothing, up to this second
       CorrectOutput(start, instant, 0)

LedgerSpec == LedgerInit /\ [][LedgerNext]_ledgerVars

-----------------------------------------------------------------------------
(* What is shown *)

OutputOf(set) == SumFunction([b \in set |-> buckets[b].output])

\* totals
Lifetime == OutputOf(DOMAIN buckets)
StartOfDay(t, offset) == ((t + offset) \div DaySpan) * DaySpan - offset
Today(offset) == OutputOf({ b \in DOMAIN buckets : b >= StartOfDay(instant, offset) })

\* daily_rollup with a window of one day: by local date
DailyRollup(offset) ==
  LET inWindow == { b \in DOMAIN buckets : b >= instant - DaySpan }
      date(b) == (b + offset) \div DaySpan IN
  [d \in { date(b) : b \in inWindow } |-> OutputOf({ b \in inWindow : date(b) = d })]

Plans == { [start |-> 0, end |-> DaySpan \div HourSpan], \* flat
           [start |-> 1, end |-> 2],
           [start |-> 2, end |-> 1] }            \* past midnight

HourInSlot(hour, slot) ==
  IF slot.start <= slot.end THEN hour \in slot.start..slot.end - 1
  ELSE hour >= slot.start \/ hour < slot.end

\* rate_at: 1 in the slot, and nothing out of every slot
RateAt(plan, t, offset) ==
  IF HourInSlot(((t + offset) % DaySpan) \div HourSpan, plan) THEN 1 ELSE 0

\* compute_savings of today's hours; the hours are those of UTC, and without
\* coordinates the offset that the device reported is not used for the rates.
TodaySavings(plan, offset, placed) ==
  LET hour(b) == (b \div HourSpan) * HourSpan
      rate(b) == RateAt(plan, hour(b), IF placed THEN offset ELSE 0)
      mine == { b \in DOMAIN buckets : hour(b) >= StartOfDay(instant, offset) } IN
  SumFunction([b \in mine |-> buckets[b].output * rate(b)])

-----------------------------------------------------------------------------
\* Only time that was watched is credited - neither a pause of the polling nor
\* the time the server was off - and none of it twice, unless two callers
\* crossed: then a sample finds a newer one, goes back to it, and the time in
\* between is credited again (energy_db.py 480: "since last reading").
WatchedOnce ==
  /\ credited \subseteq watched \cup Covered(samples)
  /\ twice => crossed
  /\ ~twice /\ corrected = {} => Lifetime = 2 * Cardinality(credited)

\* What is diverted is part of what is put out.
DivertedIsPart ==
  \A b \in DOMAIN buckets \ corrected : buckets[b].diverted <= buckets[b].output

\* Where the local day begins with an hour of UTC, the total of today, its bar
\* in the chart and what it saved at one rate agree, and each hour is paid for
\* at its own rate; with the offset of a device that has no coordinates, the
\* rates need not be those of the local hours.
TodayAgrees ==
  \A offset \in {0, HourSpan, HourSpan \div 2} :
    LET today == (instant + offset) \div DaySpan
        bars == DailyRollup(offset)
        mine == { b \in DOMAIN buckets : b >= StartOfDay(instant, offset) } IN
    /\ (IF today \in DOMAIN bars THEN bars[today] ELSE 0) = Today(offset)
    /\ offset % HourSpan = 0 =>
         \A plan \in Plans :
           TodaySavings(plan, offset, TRUE)
             = SumFunction([b \in mine |-> buckets[b].output * RateAt(plan, b, offset)])

LedgerIsWatched == WatchedOnce /\ DivertedIsPart /\ TodayAgrees
=============================================================================

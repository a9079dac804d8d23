------------------------------- MODULE Weather -------------------------------
(***************************************************************************)
(* The irradiance forecast with its fallbacks (weather_client.py 52-302)   *)
(* and the location record it completes (location.py 106-203): callers     *)
(* that ask at the same time, a service that fails, a user who moves.      *)
(***************************************************************************)
EXTENDS Integers, FiniteSets

CONSTANTS
  Places, NoPlace,
  Callers,      \* tasks that ask: forecast recorder, controllers, API
  DeviceZone,   \* where the main unit's "uo" field says it is, or NoPlace
  CacheTTL,     \* CACHE_TTL_S
  Outlook,      \* how long a stored forecast has future hours
  MaxMoves      \* bound

ASSUME WeatherAssumption ==
  /\ NoPlace \notin Places /\ DeviceZone \in Places \cup {NoPlace}
  /\ CacheTTL \in Nat \ {0} /\ Outlook \in Nat /\ CacheTTL <= Outlook /\ MaxMoves \in Nat

VARIABLES
  place,      \* latitude and longitude of the record
  zone,       \* place that its utc_offset_seconds is of
  cachedSky,  \* age of the cache entry of each place, or Absent
  storedSky,  \* weather_forecast in the database: place and age
  asking,     \* place that each caller waits for the answer of
  answer,     \* history: the last answer, with what was asked
  moves

weatherVars == <<place, zone, cachedSky, storedSky, asking, answer, moves>>

Absent == -1
NothingStored == [of |-> NoPlace, age |-> Absent]
NoAnswer == [asked |-> NoPlace, of |-> NoPlace, age |-> 0, flag |-> "none"]
Ageing(age) == IF age = Absent \/ age = Outlook THEN age ELSE age + 1

WeatherInit ==
  /\ place = NoPlace /\ zone = NoPlace
  /\ cachedSky = [p \in Places |-> Absent] /\ storedSky = NothingStored
  /\ asking = [c \in Callers |-> NoPlace]
  /\ answer = NoAnswer
  /\ moves = 0

Fresh(p) == cachedSky[p] # Absent /\ cachedSky[p] < CacheTTL

\* A fresh entry is the answer at once.
Ask(c) ==
  /\ place # NoPlace
  /\ asking[c] = NoPlace
  /\ IF Fresh(place)
     THEN /\ answer' = [asked |-> place, of |-> place, age |-> cachedSky[place],
                        flag |-> "none"]
          /\ UNCHANGED asking
     ELSE asking' = [asking EXCEPT ![c] = place] /\ UNCHANGED answer
  /\ UNCHANGED <<place, zone, cachedSky, storedSky, moves>>

\* Mutant: an offset that is there already is not overwritten.
MergedOnce(p) == IF zone = NoPlace THEN p ELSE zone

\* update_timezone merges into whatever record there is.
Merged(p) == p

Answered(c) ==
  /\ asking[c] # NoPlace
  /\ zone' = Merged(asking[c])
  /\ cachedSky' = [cachedSky EXCEPT ![asking[c]] = 0]
  /\ storedSky' = [of |-> asking[c], age |-> 0]
  /\ answer' = [asked |-> asking[c], of |-> asking[c], age |-> 0, flag |-> "none"]
  /\ asking' = [asking EXCEPT ![c] = NoPlace]
  /\ UNCHANGED <<place, moves>>

\* The stale entry, the stored forecast of whichever place, or one put
\* together from observations.
Fallback(p) ==
  IF cachedSky[p] # Absent
  THEN [asked |-> p, of |-> p, age |-> cachedSky[p], flag |-> "stale"]
  ELSE IF storedSky # NothingStored /\ storedSky.age < Outlook
  THEN [asked |-> p, of |-> storedSky.of, age |-> storedSky.age, flag |-> "stale"]
  ELSE [asked |-> p, of |-> NoPlace, age |-> 0, flag |-> "synthetic"]

AskFails(c) ==
  /\ asking[c] # NoPlace
  /\ answer' = Fallback(asking[c])
  /\ asking' = [asking EXCEPT ![c] = NoPlace]
  /\ UNCHANGED <<place, zone, cachedSky, storedSky, moves>>

\* POST /api/location: a new record without an offset, and empty caches.
Move ==
  /\ moves < MaxMoves
  /\ moves' = moves + 1
  /\ place' \in Places \ {place}
  /\ zone' = NoPlace
  /\ cachedSky' = [p \in Places |-> Absent]
  /\ UNCHANGED <<storedSky, asking, answer>>

\* poll_loop takes the offset over from the main unit.
DeviceReports ==
  /\ DeviceZone # NoPlace /\ zone # DeviceZone
  /\ zone' = DeviceZone
  /\ UNCHANGED <<place, cachedSky, storedSky, asking, answer, moves>>

WeatherTime ==
  /\ cachedSky' = [p \in Places |-> Ageing(cachedSky[p])]
  /\ storedSky' = [storedSky EXCEPT !.age = Ageing(@)]
  /\ UNCHANGED <<place, zone, asking, answer, moves>>

WeatherRestart ==
  /\ cachedSky' = [p \in Places |-> Absent]
  /\ asking' = [c \in Callers |-> NoPlace]
  /\ UNCHANGED <<place, zone, storedSky, answer, moves>>

WeatherNext ==
  \/ \E c \in Callers : Ask(c) \/ Answered(c) \/ AskFails(c)
  \/ Move \/ DeviceReports \/ WeatherTime \/ WeatherRestart

\* The recorder asks every hour, requests do not fail forever, time passes.
WeatherFairness ==
  /\ \A c \in Callers : SF_weatherVars(Ask(c)) /\ SF_weatherVars(Answered(c))
  /\ WF_weatherVars(WeatherTime)

WeatherSpec == WeatherInit /\ [][WeatherNext]_weatherVars /\ WeatherFairness

-----------------------------------------------------------------------------
\* What is not flagged stale or synthetic is of the place that was asked for,
\* and younger than the cache's TTL, although answers for the place the user
\* left come in late (weather_client.py 71-76).
UnflaggedIsCurrent ==
  answer.flag = "none" => answer.of = answer.asked /\ answer.age < CacheTTL

\* However often the user moves and however late an answer for an old place
\* overwrites the new record's offset, it becomes that of the place again
\* (server.py 3204 dates the daily rows by it).
OffsetOfPlace == [](place # NoPlace => <>(zone = place))

\* Both: what the forecasts of a place rest on is that place's.
PlaceIsKept == []UnflaggedIsCurrent /\ OffsetOfPlace
=============================================================================

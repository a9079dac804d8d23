------------------------------ MODULE KasaPlugs ------------------------------
(***************************************************************************)
(* A saved smart plug as the registry knows it (kasa_client.py 103-233,    *)
(* kasa_devices.py 75-180, server.py 4233-4323 and 7839-7968): the         *)
(* reconciler probes it at a pace that slows down as it keeps failing, the *)
(* user has it probed, toggled, saved and deleted.  A probe is an await:   *)
(* what it has seen is recorded when it returns.  Other plugs only make a  *)
(* pass longer.                                                            *)
(***************************************************************************)
EXTENDS Integers

CONSTANTS
  Base,       \* KASA_RECONCILER_BASE_S
  MaxBackoff, \* KASA_RECONCILER_MAX_BACKOFF_S
  PassTime,   \* longest pass of the reconciler, and longest probe
  MaxFails    \* bound: failures are counted up to it

ASSUME KasaAssumption ==
  /\ {Base, MaxBackoff, PassTime, MaxFails} \subseteq Nat
  /\ Base > 0 /\ MaxFails > 0 /\ Base * 2^MaxFails >= MaxBackoff

VARIABLES
  plug,      \* the plug itself: "off", "on", or "gone" from the network
  entry,     \* its record in the registry, or NoEntry
  pass,      \* the reconciler: since it sleeps, or its pass over the plugs
  refresh,   \* a probe for /api/kasa/saved?refresh=true
  backFor    \* history: time since the plug has been reachable and on record

kasaVars == <<plug, entry, pass, refresh, backFor>>

\* The longest that a reachable plug is shown as something else: a late answer
\* says it is gone (one pass), a pass leaves it alone just before its back-off
\* is over (another), and the next pass asks it last (the third).
Recovery == MaxBackoff + Base + 3 * PassTime
Limit == Recovery + 1
NoEntry == [saved |-> FALSE]
NewEntry == [saved |-> TRUE, fails |-> 0, seen |-> FALSE, sinceFail |-> 0, isOn |-> FALSE]

\* A pass, or a probe: how long it has been where it is, and what it holds: the
\* record of the plug that the pass has listed, or the plug's answer.
Asleep == [pc |-> "sleep", age |-> 0, what |-> "none"]
Aged(age) == IF age = Limit THEN age ELSE age + 1

KasaInit ==
  /\ plug \in {"off", "on", "gone"}
  /\ entry = NoEntry
  /\ pass = Asleep /\ refresh = Asleep
  /\ backFor = 0

StatusOf == IF entry.fails > 0 THEN "offline" ELSE IF entry.seen THEN "online" ELSE "unknown"

\* Mutant: the doubling has no cap.
TooEarlyUncapped(since, fails) == since < Base * 2^fails

\* The reconciler leaves a plug alone for a while after its last failure.
TooEarly(since, fails) == since < Base * 2^fails /\ since < MaxBackoff

\* Three attempts, each with and without credentials, have reached the plug or
\* not: a plug that is there may be busy.
Seen == IF plug = "gone" THEN {"gone"} ELSE {plug, "gone"}
\* update_probe: an answer for a plug that was deleted changes nothing.
Probed(what) ==
  entry' =
    IF ~entry.saved THEN entry
    ELSE IF what = "gone"
         THEN [entry EXCEPT !.fails = IF @ < MaxFails THEN @ + 1 ELSE @, !.sinceFail = 0]
         ELSE [entry EXCEPT !.fails = 0, !.seen = TRUE, !.isOn = what = "on"]

\* A pass lists the records and notes the time.
PassStarts ==
  /\ pass.pc = "sleep" /\ pass.age >= Base
  /\ pass' = [pc |-> "walk", age |-> 0, what |-> IF entry.saved THEN "record" ELSE "none"]
  /\ UNCHANGED <<plug, entry, refresh, backFor>>

\* Is the last failure, which may have been recorded since, too recent at the
\* time the pass has noted?  A record deleted since keeps what it said.
Waits ==
  CASE pass.what = "record" ->
         {entry.fails > 0 /\ TooEarly(entry.sinceFail - pass.age, entry.fails)}
    [] pass.what = "deleted" -> BOOLEAN
    [] OTHER -> {TRUE}

\* The pass has come to the plug.
PassReaches ==
  /\ pass.pc = "walk"
  /\ \E waits \in Waits :
       pass' = [pass EXCEPT !.pc = IF waits THEN "rest" ELSE "ask", !.what = "none"]
  /\ UNCHANGED <<plug, entry, refresh, backFor>>

\* History: a reachable plug that fails a probe starts to count again.
Busy(what) == what = "gone" /\ plug # "gone"

PassAsks ==
  /\ pass.pc = "ask"
  /\ \E what \in Seen :
       /\ pass' = [pass EXCEPT !.pc = "told", !.what = what]
       /\ backFor' = IF Busy(what) THEN 0 ELSE backFor
  /\ UNCHANGED <<plug, entry, refresh>>

PassRecords ==
  /\ pass.pc = "told"
  /\ Probed(pass.what)
  /\ pass' = [pass EXCEPT !.pc = "rest", !.what = "none"]
  /\ UNCHANGED <<plug, refresh, backFor>>

\* The other plugs have been asked.
PassEnds ==
  /\ pass.pc = "rest"
  /\ pass' = Asleep
  /\ UNCHANGED <<plug, entry, refresh, backFor>>

Refresh ==
  /\ entry.saved /\ refresh.pc = "sleep"
  /\ \E what \in Seen :
       /\ refresh' = [pc |-> "told", age |-> 0, what |-> what]
       /\ backFor' = IF Busy(what) THEN 0 ELSE backFor
  /\ UNCHANGED <<plug, entry, pass>>

RefreshRecords ==
  /\ refresh.pc = "told"
  /\ Probed(refresh.what)
  /\ refresh' = Asleep
  /\ UNCHANGED <<plug, pass, backFor>>

\* The test button sets the plug and leaves the registry alone.
TestToggle ==
  /\ plug # "gone"
  /\ plug' \in {"off", "on"}
  /\ UNCHANGED <<entry, pass, refresh, backFor>>

\* Saving asks the plug first; a record that exists keeps its failures.
Save ==
  /\ plug # "gone"
  /\ entry' = IF entry.saved THEN entry ELSE NewEntry
  /\ backFor' = IF entry.saved THEN backFor ELSE 0
  /\ UNCHANGED <<plug, pass, refresh>>

Delete ==
  /\ entry.saved
  /\ entry' = NoEntry
  /\ pass' = IF pass.what = "record" THEN [pass EXCEPT !.what = "deleted"] ELSE pass
  /\ UNCHANGED <<plug, refresh, backFor>>

PlugLeaves ==
  /\ plug # "gone"
  /\ plug' = "gone" /\ backFor' = 0
  /\ UNCHANGED <<entry, pass, refresh>>

PlugReturns ==
  /\ plug = "gone"
  /\ plug' \in {"off", "on"} /\ backFor' = 0
  /\ UNCHANGED <<entry, pass, refresh>>

\* The reconciler sleeps no longer than it should, and its pass and a probe
\* end in time.
KasaTime ==
  /\ pass.age < IF pass.pc = "sleep" THEN Base ELSE PassTime
  /\ refresh.pc = "told" => refresh.age < PassTime
  /\ pass' = [pass EXCEPT !.age = @ + 1]
  /\ refresh' = IF refresh.pc = "told" THEN [refresh EXCEPT !.age = @ + 1] ELSE refresh
  /\ entry' = IF entry.saved THEN [entry EXCEPT !.sinceFail = Aged(@)] ELSE entry
  /\ backFor' = IF plug = "gone" THEN 0 ELSE Aged(backFor)
  /\ UNCHANGED plug

KasaNext ==
  \/ PassStarts \/ PassReaches \/ PassAsks \/ PassRecords \/ PassEnds
  \/ Refresh \/ RefreshRecords \/ TestToggle \/ Save \/ Delete
  \/ PlugLeaves \/ PlugReturns \/ KasaTime

KasaSpec == KasaInit /\ [][KasaNext]_kasaVars

-----------------------------------------------------------------------------
\* A plug that is reachable again is shown online after the longest back-off, a
\* sleep of the reconciler and three passes, however long it was away, and
\* whatever late answers of other probes say (server.py 4271-4278: "capped so a
\* recovered plug isn't stuck offline forever").
RecoveredPlugSeen == entry.saved /\ backFor > Recovery => StatusOf = "online"
=============================================================================

# Formal model of Solar Pow Monitor (jackery-monitor)

TLA+ modules that model how this repository switches power, keeps its cloud
sessions and keeps its data, TLC runs that check them on small instances, and
TLAPS proofs for every instance. Paths are relative to the repository; the
lines that each definition stands for are in `PROJECT.json` ("map").

## 1. The system

Two Python processes share the directory `/data`:

* **bridge.py** holds the session with the Jackery cloud (HTTP polls, MQTT
  pushes and commands) and serves JSON-RPC on TCP port 8766.
* **server.py** (FastAPI) runs a dozen asyncio loops and the HTTP routes. Routes
  written as `async def` run on the event loop, those written as `def` in worker
  threads. Kasa plugs on the LAN switch the grid and the diverted load.

| component | state | operations | what is hard | what makes it correct |
|---|---|---|---|---|
| Inverter recovery (`inverter_watchdog.py`, server tick, cycle task, AC switch) | WatchdogState per device, live cycle tasks | evaluate on each poll; cycle off/pause/on; user on/off; config, dismiss | tasks against routes in threads, RPC lock and time-outs, stale frames | the user's OFF wins; cuts are few and paced; a trip needs real evidence |
| Bridge session (`bridge.py`, `cloud_client.py`) | poller task, client, token, credentials, pause and cooldown | cloud_loop, watchdog, RPC methods, pushes | handlers interleave at every await; one session per account | one poller, with the shared client; the phone app may keep the session; stale sessions restart |
| Automation rules and dead-man rescue (`automation.py`, `rescue.py`, poll loop) | rule list, edge states, the file; last reading, latch | one pass per poll; upsert, delete, disable; decide, fire | routes in threads under a pass that awaits; frozen telemetry | one command per edge, none lost; a dying unit is rescued, once |
| Solar charge (`solar_charge.py`, server, bridge trip) | config, runtime cache, overload stamp | evaluate every 30 s; gates; trip; preview | two processes switch one plug nobody reads | no ON in the cooldown after an overload; a believed-off plug is off |
| Pack-balance window | opened stamp, last full | due, stalled | must end one way or another | the car is neither starved nor the pack forgotten |
| F7 AC reset (`f7_ac_reset.py`) | cooldown, pulse task | evaluate, pulse | a pulse in several steps on a shared port | pulses are rare and do not overlap |
| Device mirror and browser views (`bridge.py`, server poll loop, WebSockets) | telemetry per device, the selected one's mirror, cookies, sockets | poll, push, select, broadcast | a selection crosses an iteration or a broadcast | everybody sees the data of the device that is named |
| Battery packs | lists in the bridge, in memory, in the database | poll, panel, capacity | spurious empty answers | known packs are not forgotten |
| Kasa registry and reconciler | saved plugs with their failures | probe with back-off, upsert, test | late answers | a plug that returns is seen |
| Device parameters | user's value, fit, stored value, default | read, save, reset, refit | a read writes | the user's choice stays |
| Smart charge, forecaster, calendar (`smart_charge.py`, `forecaster.py`, `load_schedule.py`) | plans, fits, events | plan an hour, fit a history, simulate, edit | rounding, pairing of hours, time zones | the target is met by sunrise; the floor is kept; no flow is learned as another; the plan is kept |
| Energy database (`energy_db.py`) | samples, buckets, daily rows | record, roll up, predict, settle | callers in several threads, gaps, local days | only watched time counts, once; a prediction meets its own event |
| EcoFlow (`ecoflow_client.py`, `ecoflow_reconnect.py`) | session, credentials, wake flag | start, stop, retry, request data | a thread's session against the routes | the settings decide which sessions live |
| Siseli (`siseli_client.py`, `siseli_local/`) | portal copy, local decode, TCP stream, counters, throttle | poll, sniff, reassemble, integrate, publish | two sources, lost segments, restarts, two threads | fresh local data wins; packets are genuine; energy counts once; the last snapshot is sent |
| Weather and location | place, cached forecast | fetch, fall back, move | a fetch for the old place | a forecast belongs to its place |
| Advisor and assistant | suggestions; conversations, tool runs | review, apply, dismiss; turn, approve, deny, delete | reads before awaits | nothing unasked, nothing twice |
| Backup (`backup.py`) | snapshots on a share | run, retention, restore | no lock between runs; transfers fail half way | a good snapshot remains; a restore is whole or nothing |
| Alerts, loop back-off, authentication, BLE, share discovery, user interfaces | various | various | I/O, cryptography, rendering | not modelled, see section 6 |

How they interact: the server polls the bridge with one TCP connection per
request, serialised by a lock, and gives up after 20 s (`device_client.py`)
while the bridge carries the request out regardless. A poll hands telemetry to
the recovery tick, the F7 tick, the rules and the rescue, in this order, and
records samples in the energy database. The forecaster reads the database and
the weather; smart charge and solar charge read the forecaster. Settings, rules
and the overload stamp travel through files. The hazards that follow from this
are listed in PROJECT.json, each at its line with the properties that cover it.

## 2. Modules

| module | models |
|---|---|
| `InverterWatchdog`, `InverterRecovery`, `InverterRecoveryProofs` | `inverter_watchdog.py` as operators on its state record; the recovery loop around it: device, bridge RPC, poll loop, cycle tasks, API routes, restart; theorems |
| `BridgeSession`, `BridgeSessionProofs` | cloud_loop, the watchdog loop and the RPC handlers against the cloud account; theorems |
| `Rescue`, `Automation`, `AutomationProofs` | `rescue.py` as operators; the poll loop's pass over the rules and the rescue, with routes and restarts; theorems |
| `SolarPlan`, `SolarCharge`, `DiversionPlug`, `SolarChargeProofs` | the decision as operators; the evaluation, the runtime cache and the bridge's trip; what the overload protection promises, as an abstract specification that `SolarCharge` implements; the proof that it does |
| `BalanceWindow` | the pack-balance gate, by days |
| `F7Pulse` | the F7 workaround: tick, pulse task, user, restarts |
| `DeviceMirror` | which device the server shows, and whose data |
| `ViewFanout` | which device each browser is shown, sockets and broadcasts |
| `PackCache` | a unit's packs from the cloud to the database and the capacity |
| `KasaPlugs` | a saved plug, its probes and their back-off |
| `DeviceParams` | the ladder of a learned parameter |
| `SmartCharge` | a night of charging from the grid |
| `DeviceProofs` | theorems about the eight components from `BalanceWindow` to `SmartCharge` and about `HistoryFits`, one section each |
| `SocForecast` | the simulated charge with and without the diversion |
| `HistoryFits` | what the forecaster learns from a unit's history |
| `PlannedLoad` | the calendar of expected loads |
| `EnergyLedger`, `DailySummary` | samples, buckets, rollups and savings; the daily rows of predicted and actual charge |
| `SnapshotGrades`, `Backup`, `Restore` | what a snapshot directory may hold; runs and retention; restores |
| `EcoflowSession` | the EcoFlow session and the settings behind it |
| `SiseliFeed` | portal polls against the local decode |
| `StreamReassembly`, `EnergyClock`, `SiseliPublish` | the sniffed TCP stream; the energy integrator over restarts; the throttled publication |
| `RecordsProofs` | theorems about `EnergyClock`, `DailySummary`, `SocForecast`, `StreamReassembly` and `EnergyLedger` |
| `Weather` | forecast, fall-backs and place |
| `AdvisorActions`, `AssistantChat` | suggestions; conversations with tool runs and approvals |
| `ServiceProofs` | theorems about `Backup`, `Restore`, `AdvisorActions`, `AssistantChat`, `PlannedLoad`, `EcoflowSession`, `SiseliFeed` and `SiseliPublish` |
| `SumLemmas` | lemmas on induction, remainders and finite sums for the modules with theorems |
| `MCInverterRecovery`, `MCBridgeSession`, `MCAutomation`, `MCSolarCharge`, `MCDevices`, `MCServices` | instances for TLC |

Common conventions: an action is what runs between two awaits of an asyncio
task, or a whole route where it runs at once; a route in a worker thread has an
action for each store it reads or writes. Names are the source's where TLA+
allows it. "History" variables exist for the properties only and guard no
action. Every bound is a CONSTANT or a `Max...` guard and is named in its
module. A definition that the comment "Mutant:" introduces is a plausible bug
of the code; it is in no next-state relation and serves to show that a property
can fail.

`MCDevices` and `MCServices` hold twelve and eleven components that share no
state. One variable, `part`, says which of them runs in a behaviour; the others
rest in an initial state. A run of such a module is the union of the runs of its
parts.

### 2.1 InverterWatchdog, InverterRecovery

State: `wd` is the WatchdogState of one device; `task` the cycle tasks and
`cancelling` those whose cancellation has been requested; `lock`, `phase` the
client's RPC lock and how far its holder is; `wire` the commands published and
not applied; `req` the API requests; `poll`, `frame` the poll loop; `port`,
`mirror` the device and what the bridge last heard of it; `route`, `enabled`,
`floorSet` the configuration routes. One clock `now` is used by all.

Actions: `WatchdogTick` is one call of `_inverter_watchdog_tick` with its
evaluate() (`TrackCollapse`, `Observe`, `Decide`, `Commit`) and the creation of
a cycle; `CycleStart`/`CycleWake`/`CycleReply`/`CycleError`/`CancelDelivered`
are the stretches of `_cycle` between its awaits; `UserOff` is api_set_output
up to its await and `UserEnd` what follows; `LockPass`, `RpcWrite`,
`RpcPublish`, `OrphanPublish` the RPC, the last one a request whose client has
given up; `DeviceDisturbed` a lost command or a hand at the switch.

Abstractions: one device; output watts as the classes the code tells apart
(none, low, mid, high); the tick is atomic against the routes in worker
threads; connection and answer time-outs are one `RPC_TIMEOUT_S`;
consecutive_attempts, used for logging only, is left out. The clock and
the number of operator events are bounded (`MaxTime`, `MaxEvents`), so a run
ends in states without successor: those configurations say
`CHECK_DEADLOCK FALSE`.

### 2.2 BridgeSession

State: `loop` the poller tasks by identity (a poller and its JackeryCloudClient
share it), `handle` = state.cloud_task, `client` = state.cloud_client,
`cancelled` the tasks whose cancellation is pending, `token` per client (none,
valid, or stale after somebody else's login), `realtime` the clients with an MQTT
subscription, `saved`/`creds` the credentials on disk and in memory, `age` the
age of state.cloud_ts, `pauseLeft`, `contestedLeft`, `cooldown` the yielding
rules (`cooldown` is the length of the last contested cooldown, which stands for
the count that the code doubles it by: 0 when the count is reset), `watchdog` and `rpc` where the watchdog and each handler await.

A poller's turn ends at its next await: sleeping, or a request to the cloud
(login, listing, properties). The cloud may never answer; `Answers` are the devices an answer
covers. `PhoneLogin` makes every token of the bridge stale, as a login of the
bridge does to the phone's. Durations are counters of remaining or elapsed
units. Left out: what is reported to the UI, the event log, which device is selected.
The 5 s limits within the watchdog's restart are shorter than the clock unit.

### 2.3 Rescue, Automation

Rule dicts have an identity, because the code's behaviour depends on it: an
edit replaces a dict in the list, delete() binds a new list while the pass
keeps walking the old one, the reply to a plug command is written into the dict
that the pass holds. `walk` is the pass: which list, the position, the rule
whose command is awaited, the telemetry of the poll. `entry` is the bridge's
cached telemetry, `st` the RescueState, `file` the saved rules.

A failed plug command may or may not have switched the plug. Main-unit and
system charge are separate levels that stay close (`Near`). `cut` remembers
that the plug is off because a rule switched it off; `served` the rules whose
present edge has been acted on; `rescued` that the rescue has fired since the
last reading that ends an incident.

Left out: names, aliases and the audit table; the trigger types (there is one);
a second unit. A save is one replacement of the file, although two threads may
write the same temporary file (listed as a hazard).

### 2.4 SolarPlan, SolarCharge, DiversionPlug

`rt` is the server's RuntimeState, with the time left in place of its stamps,
`protect` and `newer` the file with the overload stamp, `ev` the evaluations:
the loop's, which sends commands, and a preview's, which goes through the same
code (`record=False`). The server never reads the plug. `trip` is the bridge's
OFF on its way. `doubt` remembers that a command failed, an overload met a
command, or the forced OFF after a restart did not succeed. `OverloadLatched`
maps the evaluations that send ON to `granted` of `DiversionPlug` and says that
every step of `SolarCharge` is one of its steps.

Left out: the learned load and the plug's power reading (any recent load may be
read); the bridge's five seconds of config cache; nobody else switches the
plug. There is one loop (`Recording` has at most one element); any number of
previews. Unit of time: one interval of the loop. `Debounce <= MinHold` and `Debounce <= Cooldown` hold
for every setting that update_config accepts: the bridge's pause between two OFFs
is a constant of five seconds, the smallest hold ten, the smallest cooldown sixty.

### 2.5 Devices

* `BalanceWindow`: the three ways to a verdict, per day; the database may fail at
  any look-up. `held` and `rested` count days.
* `F7Pulse`: the tick judges the bridge's last frame; its stamp is saved before the
  task starts. User, device and pulse switch the same port.
* `DeviceMirror`: the bridge's poll writes every device and mirrors the selected one;
  the server's iteration reads identity, status and chart in several steps, a
  selection runs between them.
* `ViewFanout`: a broadcast walks the dictionary of sockets with an await at each
  send; a socket that joins or leaves breaks it off, as Python's iteration does.
  With and without user accounts (`secured`).
* `PackCache`: bridge, memory, database; the poll loop and the panel ask at once.
* `KasaPlugs`: one plug; a pass over the others costs `PassTime`. Probes are awaits
  whose answers may be late. A plug that returns is online after `Recovery`: the longest
  back-off, a sleep and three passes (one that probed it just before, one that leaves
  it alone just before its back-off ends, one that reaches it last).
* `DeviceParams`: reads write back what they resolve; a refit waits and then
  stores.
* `SmartCharge`: one night. The load forecast is right, prices are per hour, the
  ticks are finer than hours; the charge follows the plug. `possible` says that
  the target was within reach and that no tick was missed since.
* `SocForecast`: weather and demand per hour are chosen in the initial state; each step
  simulates an hour with and without the diversion.
* `HistoryFits`: a unit with known drain, overhead, yield and loads lives hour by hour
  (six kinds of unit: with and without meter, weather, logged diversion);
  the server keeps buckets of the hours it saw; the fits run on them.
  `FlowsAreToldApart` compares what was learned with what the unit is. The trimming of
  the load's samples is modelled, although trimming both ends alike never moves the median.
* `PlannedLoad`: a calendar on a toy week (`DayLength` hours, one workday, one rest
  day), with every writer: page, assistant, copy of the learned profile, migration of
  the older format.
* `EnergyLedger`: the power out is 1; two callers stamp samples differently; buckets,
  corrections, rollups and savings as functions of them.

### 2.6 Services

* `Backup`, `Restore`: a snapshot is one of five grades; removal stops anywhere;
  the runs of `Threads` have no lock. A restore stages, hashes, swaps file by file.
* `EcoflowSession`: the loop's pass with its wake flag, cleared at the end; MQTT
  refusals and silences; routes that save, clear and edit.
* `SiseliFeed`: a pass works on a copy and replaces the entry at its end; clear, decode
  and further passes run meanwhile.
* `StreamReassembly`: a byte is its position in what was sent; sequence numbers wrap at
  `SeqSpace`. Segments are lost, repeated, cut and swapped; parked segments are bounded.
* `EnergyClock`: counter and clock in one cache file; boots, missing files, time that
  steps.
* `SiseliPublish`: capture and health thread; `publishing` is the lock.
* `DailySummary`: quarter days; ticks are missed; the offset arrives with the weather.
* `Weather`: concurrent callers, cache, a service that fails, a user who moves.
* `AdvisorActions`, `AssistantChat`: see their comments; previews count as write tools
  but change nothing.

## 3. Runs

| run | checks | shows |
|---|---|---|
| recovery_user | NoCycleDuringUserOff, UserOffExcludesRecoveryCommand, TripNeedsDistinctFrames | one user, two cycle tasks, two operator events: a user's OFF always wins; a trip needs distinct frames |
| recovery_episode | RecoveryInv, CyclesArePaced, BadgeNotSilentlyWiped | all output classes, a clock of ten units, flapping episodes: cuts are bounded and paced, the badge stays |
| recovery_cycle | CycleSwitchesBackOn, **violated** | a poll in the cycle's pause ends the episode and AC stays off |
| session_yield | OnePollerListens, LoginsYield | three requests of the kinds that start no login or poller from outside |
| session_live | SessionInv, StaleSessionRestarted | every request kind, under fairness of the event loop only |
| session_takeover | LoginsYield, **violated** | a packs request during a pause logs in |
| session_signout | NoLoginAfterSignOut, **violated** | erased credentials are used again |
| automation_rules | AutomationInv, OneFirePerEdge, DutiesServed | two rules, an event anywhere in a pass, failing commands, restarts: no edge is fired twice or lost, a low unit is rescued |
| solar_plug | SolarInv, OverloadLatched, OffIsSent, OverloadTripped | loop and preview against the bridge's trip: the abstract latch is implemented, beliefs are right but for named causes, OFF is sent in the end |
| solar_noload | NoLoadCutsPlug, **violated** | a preview uses up the no-load verification |
| devices | BalanceDutyCycle, PulsesSpaced, ShownDataIsOwn, EachSeesItsOwn, PacksRemembered, RecoveredPlugSeen, ChoiceStays, ReachedAtSunrise, DiversionSparesFloor, FlowsAreToldApart, PlanIsKept, LedgerIsWatched | twelve components, one property each |
| services | SnapshotSurvives, RestoreAllOrNothing, NoOrphanSession, FreshLocalKept, PacketsAreGenuine, CreditedOnce, NeverOlder, ActualOfPredicted, AppliedOnce, ChatIsAccountable, ChangesTakeEffect | eleven components: what must never happen in each, and, in the last property, what must happen in the end in four of them (EcoflowFollowsSettings, SignedOutForgets, PlaceIsKept, DeferredIsSent) |

Sizes: recovery_episode 829 163 distinct states, automation_rules 163 252,
services 173 361, devices 654 515, session_live 582 202,
session_yield 1 547 755; each run takes at most about two and a half
minutes on two cores.

Why the bounds are enough. Recovery: two cycle tasks are what may overlap; a
clock of 5 to 10 units covers debounce, abrupt-drop window, pause, time-out,
grace and pacing (each 1 to 4 units) and a second episode. Session: three
pollers are one more than any single handler can leave behind; cooldowns of
one and two units show the doubling; PhoneLogin is not bounded. Automation: a
dict may be in the list, in the pass or both, so three suffice for two rules
and one replacement; the event is a request, manual switching or a restart.
Solar: spans of one and two intervals, so that an evaluation can overlap a
change of everything else. Devices: two devices and two browsers are what can
be confused; ages run to one more than the longest span that the code compares
them with; a night has five hours of two ticks, so that cheap hours can be
worth waiting for and too few; a history of five hours on days of four lets a
pair straddle night and day, a charge and a discharge, a gap and a car; the
calendar has one weekday of each kind and three dates. Services: two runs of
backup with a retention of two and three stamps let one run overtake another;
three packets of two bytes and fourteen sequence numbers let the stream wrap,
leave a gap and be joined in the middle; five seconds and two boots
put a restart between any two payloads; two places and two callers
let a user move within a fetch; one suggestion, one turn of two rounds and one
tool run, because neither different suggestions nor different runs share
state. These runs end where clocks or bounds do, so their configurations
say `CHECK_DEADLOCK FALSE`; those of the session, the automation and the
solar charge do not.

Fairness. BridgeSession: asyncio runs every ready task, timers fire, time
passes; nothing is assumed of the cloud. Automation: the poll loop goes on
polling and a plug command returns or raises; commands may fail for ever, and
the unit may fall silent for ever. SolarCharge: the loop evaluates again,
commands return or raise, the device reports, time passes; a preview need not
be asked for. EcoflowSession: the loop and its retry timer run, and a connection
that is being made is made or refused. SiseliFeed and SiseliPublish: the passes
and both threads run. Weather: strong fairness for a caller's question and its
answer, since callers disable each other's steps while the place changes; the
callers are loops that ask at every tick.

### What the violated runs found

1. *recovery_cycle* (server.py:3411): the poll loop may see the port OFF, which
   is the cycle's own doing; evaluate() clears the latch and the cycle
   returns without AC on. A port that reports OFF is left alone, so
   the house stays dark.
2. *session_signout* (bridge.py:1150): `await state.cloud_task` after `cancel()`
   raises CancelledError, which `except Exception` does not catch, so the rest
   of clear_credentials is skipped and the credentials stay in memory. The same
   pattern is in set_credentials (bridge.py:1103). The watchdog handles it.
3. *session_takeover* (cloud_client.py:307): `_authed_get` logs in whenever there
   is no token, also for get_battery_packs during a pause or cooldown.
4. *solar_noload* (server.py:4054): evaluate_now runs the verification that only
   the loop may act on: the no-load cooldown starts, no OFF is sent, and the loop
   skips every check for fifteen minutes with the plug on.

### Observations

Behaviour that the models show and no property forbids, because no document
claims otherwise or because the property names it as an exception.

* Session: a connect within the watchdog's awaits leaves a second poller; a login by
  get_battery_packs drops the MQTT subscription until the next poller; the watchdog
  restarts a healthy poller when only the selected device is silent.
* Recovery: a floor of 0 does not end a latched episode; cycles can overlap when the bridge
  answers slowly; a request that timed out may still publish its command.
* Automation: the UI's on/off switch stores the edge state its page loaded; a rule
  deleted in the middle of a pass may still fire in it; after a restart of the bridge an
  armed dead-man waits for the unit to speak again. The rules look at the system's charge,
  the rescue at the main unit's, so a rule may end an incident whose latch is set.
* F7: the tick judges a frame of any age, so a pulse may switch AC off that the user
  has just switched on (f7_ac_reset.py:4-5 says it acts only with AC off); a restart or
  failure within the pulse leaves AC on.
* Mirror and views: `broadcast` and `broadcast_status` iterate `ws_clients` over awaits
  (server.py 750-788); a socket that joins or leaves raises RuntimeError, which ends the
  poll loop's pass before alerts, automation and rescue. A socket opened during its own
  selection keeps the old view. A lost answer to select_device leaves the old identity.
* Packs: the bridge keeps an empty list it fetched until a push (bridge.py 1253-1266).
* Smart charge: the deficit is too small where the baseline stops at zero
  (smart_charge.py 543-546); a weather error returns with the plug possibly on.
* Ledger: `siseli_poll_once` stamps before it fetches, other threads record newer
  samples, `record()` sets its memory back and the next sample credits the interval
  twice; savings without coordinates use the rates of UTC hours; hours outside every slot
  cost nothing; half-hour zones straddle buckets. `history()` gives rows without packs
  the main unit's charge as the system's, which the gate of fit_drain_model does not expect.
* Daily rows: the tick reads the place before it awaits the weather, and `location.set()`
  drops the offset, so one tick may date its row in UTC.
* Forecaster: pairs of buckets up to six hours apart count one bucket's output;
  fit_drain_model's gates differ from those of fit_inverter_overhead_pct, which its
  docstring says they mirror (noise, starting charge); the sun's row is that of the bucket's
  start, so dawn may pass for charging from the grid.
* Calendar: changing an event to "once" without a date drops it with ok=True; overnight
  weekly windows cover the early hours of the same weekday; windows that miss the full
  hour count nothing.
* Backup: a run that others overtake may prune its own snapshot; a restore leaves the
  database's WAL in place and api_backup_restore does not restart the app, as the docstring near
  backup.py:1895 expects.
* EcoFlow: the wake flag is cleared at the end of a pass, so wake-ups within it wait
  for the back-off; saving another account has no effect on a connected session;
  update_session can bring back cleared credentials.
* Siseli: a clear within a poll is undone until the next pass; parked copies of delivered
  segments stay parked; one live check resets the count of capture failures.
* Weather: the database's copy has no place; an old place's label can be filled in for
  the new one.
* Advisor and assistant: two approvals at once send a command twice; a denial during an
  approval is overwritten; a dismissal within an application leaves "dismissed" on what was
  applied; a restart within one lets it be applied again; deleting a conversation in a turn
  leaves rows and a run that can still be approved.

## 4. Proofs

Checked by tlapm for every value of the constants that satisfies the named
assumptions of the modules, which TLC evaluates in the runs.

* **InverterRecoveryProofs**: TypeCorrect, UserOffWins, UserOffUndisturbed, Pacing;
  CutsBounded (RecoveryInv), TripIsSeenOften, BadgeStays. The inductive invariant
  of the first four is `IInv == TypeOK /\ OffIntents /\ NoCycleDuringUserOff /\ Paced`.
  NoCycleDuringUserOff is not inductive by itself: that a running off request has
  its token among the pending intents (`OffIntents`) is what makes evaluate() and
  recovery_still_allowed() refuse. `Paced` ties the history of the last start to
  last_attempt_ts, which idle frames do not reset. The others need `InTurn` and
  `EpisodeInv`. The RPC lock serves in turn and the poll loop waits in the same
  queue, so an ordered cut is with the bridge before the frame that the next
  evaluate() judges is read (`InTurn`); without that an episode could end with a
  cut still to come. Hence cuts made and cuts to come never exceed the cycles counted
  (`Counted`), a streak of low samples has as many frames of different time
  (`Streak`), and only an armed episode has cycles or the badge (`Armed`).
* **BridgeSessionProofs**: SessionIsConsistent (SessionInv) for all requests;
  OnePollerRuns (OnePollerListens) and PausesAreKept (LoginsYield) under
  `OnlyWatchdogStarts`. SessionInv says that the running poller that the handle names
  has the shared client; but the client is set when a poller starts, the handle
  when one is created. `LastOneStarts` closes the gap: asyncio starts tasks in the order of their
  creation, so none is left to start once the handle's runs. `OnlyWatchdogStarts`
  says that none of set_credentials, connect and get_battery_packs is called; the
  other two theorems are false without it (see "session_takeover" and the
  observations), and the run session_yield is an instance that satisfies it. Under it
  one task is alive at most, and a poller that asks has a token (`SoloInv`).
* **AutomationProofs**: EdgeOnce (OneFirePerEdge) and RulesInOrder (AutomationInv). The
  invariant of the first is `EdgeInv == Shape /\ Alive /\ Remembered /\ OneFirePerEdge`.
  `Remembered` says that a rule counted as served has last_state True: a pass
  commands a rule only when its last_state is not True, and a route that
  replaces the dict replaces its identity. `Alive` says that the list and the pass
  refer to dicts that exist; `Shape` is the part of the type invariant that the steps
  need. The second theorem adds `IdInv` (list and file hold one rule per id, so that
  a restart loads no twins), `PassInv`, and `IncidentInv` (after a rescue the latch
  is set and the last reading is one that does not clear it; a pass decides on the
  reading that it has recorded).
* **SolarChargeProofs**: OverloadProtection (OverloadLatched), a refinement, and
  BeliefsAreRight (SolarInv). The mapping keeps `plug` and `protect` and reads
  `granted` as the evaluations whose ON command is on its way; `LatchInv` needs
  only the shape of the evaluations. The argument is in `PlanHeldBack` (a plan that
  says on was made with no cooldown left) and `DecideGrants` (a decision either grants
  outside the cooldown or leaves the grants alone); `MapsEval` and `MapsStep` map
  every action to a step of `DiversionPlug` or a stutter. SolarInv relates the
  server's belief to a plug that it never reads. `BeliefInv` follows what lies between: a command that was
  delivered without an overload in it (`Delivered`), the bridge's OFF on its way (`Agreed`), and its
  pause, within which an ON of the server would meet no second OFF (`Shielded`: the
  cooldown or the hold outlasts the pause, which is why the ranges of the settings matter).
* **DeviceProofs**, a section for each component:
  * DutyCycleBounded (BalanceDutyCycle). `WindowInv` reads the history off the age of the
    window: there is none, or it has held the car for at most its age, or it has
    stood down for at most its age beyond MaxWindow. The assumption
    `MaxAge >= 2 * MaxWindow` is about the bound of the model only: the age stops
    counting at MaxAge, which must lie beyond the stand-down.
  * DashboardShowsOwnData (ShownDataIsOwn). `MirrorInv`: as long as nothing has disturbed
    the last selection, whatever bridge and server keep, and what the iterations under way carry
    between their awaits, belongs to the selected device or to none.
  * ChoiceRemains (ChoiceStays), which is inductive as it stands, and PacksStayKnown
    (PacksRemembered): once settled, memory and database both hold packs (`BothHold`).
  * PulsesApart (PulsesSpaced), an action property. `PulseInv`: the stamp on file is that of the last
    pulse, because it is saved before the task starts.
  * RecoveryIsSeen (RecoveredPlugSeen). `KasaInv` accounts for the time since the plug is back:
    what an answer that is late may say (`LateAnswers`), a pass with an old list
    (`ListIsOlder`), the last failure (`FailedLately`), and how far the next
    probe is (`AskedSoon`). Three passes are
    needed, not two: one may have probed the plug just before it came back, one may leave it alone just
    before its back-off ends, and one may reach it last.
  * OwnViewShown (EachSeesItsOwn). `FanoutInv`: a browser without a selection under way has
    view, cookie and shown data alike; one with a selection has its choice, and the data once
    the broadcast is past its socket. Sockets have different numbers, in the order of the dictionary.
  * TargetIsReached (ReachedAtSunrise). `SmartInv`: the target stays within reach. The lemma
    `WaitingIsSafe` has the arithmetic: the hours that are planned cover the
    deficit (`NeededCovers`, rounding up); when the present one is not among them, at least as many
    whole hours remain (`HourBounds`).
  * FlowsStayApart (FlowsAreToldApart). `HistoryInv`: there is a level for the begin of every hour, each
    following from the one before by what the hour brought, and the buckets are those of the hours
    seen, in order, with the mean of two levels, cut to a whole percent, as their charge.
    From it, fit by fit: what is learned is one of the samples
    (`RankedIsSample`) or the middle of two (`MiddleIs`), and each sample is a ratio or a sum
    that hour by hour stays below what the unit can do (`SumsCompare`, `SumIsBounded`). A run of hours
    without sun or grid power is followed from its first bucket to its last (`Upto`,
    `RunGoesOn`): its charge falls by exactly the unit's drain, so what is left over
    after the load is the parasitic power but for the cut of the two percents at
    its ends (`RunArithmetic`). The battery does not run empty meanwhile, because a run begins
    above StartFloor and has at most MaxRunHours hours.
* **RecordsProofs**: EnergyCountsOnce (CreditedOnce), ActualsMeetPredictions
  (ActualOfPredicted), FloorIsSpared (DiversionSparesFloor) and PacketsAreSent
  (PacketsAreGenuine). `ClockInv`: counter and clock on file are of one payload, so
  a counter with a clock of this boot lags behind that clock. `RowsInv`: while
  every row is dated by the local day, a sunrise is entered anew before it can
  fall due within its own day, so what is filled in is final. `ForecastInv`: with the
  diversion the battery is at least as full as without it, or so full that the worst sum of
  the hours to come (`WorstStep`) leaves the floor; clamping at full and empty only
  brings the two closer. `StreamInv`: the kept bytes are consecutive
  (`Run`) and end at the position whose number is expected next, and what is parked was sent; the
  lemmas `SeqMoves`, `SeqDistance` and `SeqOrder` say that numbers are
  in the order of positions, which needs a connection shorter than half the
  sequence space (`StreamAssumption`). For what the recursive functions of these two
  modules compute (`Natural`, `Extract`, `Joined`), see `Induction` below.
  OnlyWatchedIsCredited (LedgerIsWatched). `LedgerInv`: as long as no two callers cross, what is
  credited lies before the latest sample, or before all that may come after a restart
  (`OrderInv`), so the next sample cannot credit it again; and what the buckets hold is
  what was credited once (`BooksInv`: a sample that adds to a bucket adds as much to the sum of
  all, `SumGains`). That today's total, bar and savings agree needs no invariant but that
  no bucket lies in the future: `DayBegins`, `HoursOfDay`, `SavingsOfHours`.
* **ServiceProofs**: GoodSnapshotStays (SnapshotSurvives) and RestoreIsAllOrNothing
  (RestoreAllOrNothing). `BackupInv`: as long as no run is overtaken by KeepCount
  others, retention does not reach what an active run has uploaded (`InTime`, `Spared`),
  and what a run has verified is safe (`Sound`). `RestoreInv` adds what
  holds within the swap, where the property itself says nothing: the staged files were
  found whole and every file already swapped is the snapshot's.
  SuggestionsApplyOnce (AppliedOnce) and ChatAccountability
  (ChatIsAccountable). `AdvisorInv` ties the number of applications to the stored status
  and to the application under way. `ChatInv` says how far the decision on a
  run has come, that a run without a row has done nothing, that a file has a row or
  a thread that will settle it, and that after a deletion nothing goes on.
  PlansAreKept (PlanIsKept). `CalendarInv`: windows have ids of their own and mean something (one of
  a date has its date, a weekly one has days), so rewriting maps them one to one
  to windows of the same hours and watts; a copy is exactly the profile's windows, of
  which one covers an hour; and what was asked for is covered by a window.
  The proof found what the model had left unsaid: a day has two hours at
  least (else the window of an hour is empty), and each day is either workday or rest day.
  SessionHasOwner (NoOrphanSession), LocalSampleKept (FreshLocalKept) and
  SinkNeverGoesBack (NeverOlder) are about two actors each. `SessionsInv`: whoever stops the
  EcoFlow client forgets it, and while the thread logs in there is none, so the one it sets
  replaces nothing. `FeedInv`: while a portal request is under way, a local sample that
  is usable has come during it (`landed`), since the pass looked before it asked.
  `PublishInv`: only one thread publishes at a time, and the snapshot it took is no older
  than what the sink has. The first proof
  found that a session's record must differ from "no client", which the model had
  assumed of its fields only.
* **SumLemmas**: `LeastNumber` follows from the library's WFMin, `Induction` and
  `SubsetInduction` from that; both take the property as the set of what has it. The sums
  are the community modules' SumFunctionOnSet, whose recursive function is shown to exist;
  they do not depend on the order (`SumWithout`) or on names (`SumRenamed`), grow number by
  number (`SumExtends`), and are compared and bounded term by term (`SumsCompare`, `SumIsBounded`).
  `DivisionIsUnique` is about quotients and remainders.

Only model-checked:

* Properties that are liveness or contain it (StaleSessionRestarted, DutiesServed,
  OffIsSent, OverloadTripped, ChangesTakeEffect): TLAPS does not prove liveness under fairness.

## 5. Next

A composition of `DeviceMirror` with `BridgeSession`'s poller would replace the
selection by the session's handlers.

## 6. Not modelled

* Authentication, cookies and cryptography: no protocol of several steps.
* Bluetooth, BMS frames, register decoding, MQTT framing, Home Assistant
  discovery, HTTP and rendering, share discovery: formats and I/O.
* SQL beyond the tables that section 2 names, migrations of the database.
* Alerts (banners that switch nothing) and LoopBackoff (a function of a counter).
* The fits of charge efficiency and of the charge ceiling, prompts and attachments of
  the assistant, the subprocesses behind backups.
* Floating-point rounding: all quantities are scaled integers.

---------------------------- MODULE DeviceMirror ----------------------------
(***************************************************************************)
(* Which device the dashboard shows, and whose data: the bridge polls all  *)
(* devices and mirrors the selected one (bridge.py 617-869, 971-1133); the *)
(* server's poll loop copies the mirror, the identity of the device and a  *)
(* live chart (server.py 308-604), which a selection resets.  Telemetry,   *)
(* identities and samples are represented by the device they belong to.    *)
(***************************************************************************)
EXTENDS Naturals, FiniteSets

CONSTANTS Devices, NoDevice

ASSUME MirrorAssumption == IsFiniteSet(Devices) /\ NoDevice \notin Devices

VARIABLES
  selected,  \* bridge: cloud_device, NoDevice until the devices are listed
  mirror,    \* bridge: whose telemetry cloud_telemetry is
  answered,  \* bridge: devices in telemetry_by_sn
  force,     \* bridge: cloud_force_repoll
  poller,    \* bridge: the iteration of cloud_loop, and active_sn in it
  cached,    \* server: the client's DeviceInfo
  device,    \* server: state.device
  status,    \* server: whose telemetry last_status is
  chart,     \* server: whose samples it has, is it hydrated, is one due
  tick,      \* server: the iteration of poll_loop, and its local copies
  forced,    \* server: a force_poll task waits
  disturbed  \* history: see Select

bridgeVars == <<selected, mirror, answered, force, poller>>
viewVars == <<cached, device, status, chart, tick, forced>>
mirrorVars == <<bridgeVars, viewVars, disturbed>>

Resting == [pc |-> "sleep"]
EmptyChart == [of |-> {}, hydrated |-> FALSE, due |-> TRUE]

MirrorInit ==
  /\ selected = NoDevice /\ mirror = NoDevice
  /\ answered = {} /\ force = FALSE /\ poller = Resting
  /\ cached = NoDevice /\ device = NoDevice /\ status = NoDevice
  /\ chart = EmptyChart /\ tick = Resting /\ forced = FALSE
  /\ disturbed = FALSE

-----------------------------------------------------------------------------
(* The bridge *)

\* The list of the account's devices; one is preferred by its model.
ListDevices ==
  /\ poller = Resting /\ selected = NoDevice
  /\ selected' \in Devices
  /\ poller' = [pc |-> "fetch", active |-> selected']
  /\ UNCHANGED <<mirror, answered, force, viewVars, disturbed>>

\* Asleep until the timeout, or until somebody asks for a poll.
Wake ==
  /\ poller = Resting /\ selected # NoDevice
  /\ poller' = [pc |-> "fetch", active |-> selected]
  /\ force' \in {force, FALSE}
  /\ UNCHANGED <<selected, mirror, answered, viewVars, disturbed>>

\* One of the devices answers with properties.
Answer ==
  /\ poller.pc = "fetch"
  /\ \E d \in Devices \ answered : answered' = answered \cup {d}
  /\ UNCHANGED <<selected, mirror, force, poller, viewVars, disturbed>>

\* The end of an iteration mirrors the device that was active at its start.
MirrorActive ==
  mirror' = IF poller.active \in answered THEN poller.active ELSE mirror

IterationEnds ==
  /\ poller.pc = "fetch"
  /\ MirrorActive
  /\ poller' = Resting
  /\ UNCHANGED <<selected, answered, force, viewVars, disturbed>>

\* A login, a list or the session fails.
IterationFails ==
  /\ poller.pc = "fetch"
  /\ poller' = Resting
  /\ UNCHANGED <<selected, mirror, answered, force, viewVars, disturbed>>

\* A realtime update of the selected device.
PropertyPush ==
  /\ selected # NoDevice
  /\ \E d \in Devices :
       /\ answered' = answered \cup {d}
       /\ mirror' = IF d = selected THEN d ELSE mirror
  /\ UNCHANGED <<selected, force, poller, viewVars, disturbed>>

\* The new process may prefer another device; the server is not told.
BridgeRestarts ==
  /\ selected' = NoDevice /\ mirror' = NoDevice
  /\ answered' = {} /\ force' = FALSE /\ poller' = Resting
  /\ disturbed' = TRUE
  /\ UNCHANGED viewVars

-----------------------------------------------------------------------------
(* The server *)

\* BridgeDeviceClient.poll: the cached identity is replaced when the address
\* differs, which is "cloud" for every device.
CachedAfterPoll == IF cached = NoDevice THEN selected ELSE cached

\* poll_loop asks the bridge; a new identity resets the chart.
LoopPoll ==
  /\ tick = Resting
  /\ cached' = CachedAfterPoll
  /\ IF CachedAfterPoll \notin {NoDevice, device}
     THEN device' = CachedAfterPoll /\ chart' = EmptyChart
     ELSE UNCHANGED <<device, chart>>
  /\ tick' = IF mirror = NoDevice THEN Resting ELSE [pc |-> "store", of |-> mirror]
  /\ UNCHANGED <<bridgeVars, status, forced, disturbed>>

\* The telemetry is kept, and its samples go to the watchdogs and the energy
\* database, which may wait for the bridge.
LoopStore ==
  /\ tick.pc = "store"
  /\ status' = tick.of
  /\ tick' = [pc |-> "samples", of |-> tick.of, dev |-> device]
  /\ UNCHANGED <<bridgeVars, cached, device, chart, forced, disturbed>>

\* The chart is filled from the database; then the packs are refreshed.
LoopHydrate ==
  /\ tick.pc = "samples"
  /\ chart' = IF tick.dev # NoDevice /\ ~chart.hydrated
              THEN [chart EXCEPT !.of = @ \cup {tick.dev}, !.hydrated = TRUE]
              ELSE chart
  /\ tick' = [pc |-> "packs", of |-> tick.of]
  /\ UNCHANGED <<bridgeVars, cached, device, status, forced, disturbed>>

LoopAppend ==
  /\ tick.pc = "packs"
  /\ chart' = IF chart.due
              THEN [chart EXCEPT !.of = @ \cup {tick.of}, !.due = FALSE] ELSE chart
  /\ tick' = Resting
  /\ UNCHANGED <<bridgeVars, cached, device, status, forced, disturbed>>

\* Anything raised ends the iteration.
LoopFails ==
  /\ tick # Resting
  /\ tick' = Resting
  /\ UNCHANGED <<bridgeVars, cached, device, status, chart, forced, disturbed>>

IntervalPasses ==
  /\ ~chart.due
  /\ chart' = [chart EXCEPT !.due = TRUE]
  /\ UNCHANGED <<bridgeVars, cached, device, status, tick, forced, disturbed>>

BridgeSelects(d) ==
  /\ selected \notin {NoDevice, d}
  /\ selected' = d
  /\ mirror' = NoDevice
  /\ force' = TRUE
  /\ UNCHANGED <<answered, poller>>

\* Mutant: the chart waits for the poll loop to notice.
ResetDevice == device' = NoDevice /\ status' = NoDevice /\ UNCHANGED chart

ResetView == device' = NoDevice /\ status' = NoDevice /\ chart' = EmptyChart

\* A selection through the API renews everything, and what an iteration still
\* carries for the device before is called a disturbance.
Select(d) ==
  /\ BridgeSelects(d)
  /\ cached' = NoDevice
  /\ ResetView
  /\ forced' = TRUE
  /\ disturbed' = (tick # Resting \/ poller # Resting)
  /\ UNCHANGED tick

\* The answer of the bridge is lost.
SelectUnanswered(d) ==
  /\ BridgeSelects(d)
  /\ disturbed' = TRUE
  /\ UNCHANGED viewVars

\* One of the polls that selections have asked for; several pending ones count
\* as one.
ForcePoll ==
  /\ forced
  /\ forced' = FALSE
  /\ cached' = CachedAfterPoll
  /\ device' = IF CachedAfterPoll # NoDevice THEN CachedAfterPoll ELSE device
  /\ status' = IF mirror # NoDevice THEN mirror ELSE status
  /\ UNCHANGED <<bridgeVars, chart, tick, disturbed>>

\* connect_device, by /api/reconnect or by the loop itself.
Reconnect ==
  /\ cached' = IF selected # NoDevice THEN selected ELSE cached
  /\ device' = selected
  /\ UNCHANGED <<bridgeVars, status, chart, tick, forced, disturbed>>

MirrorNext ==
  \/ ListDevices \/ Wake \/ Answer \/ IterationEnds \/ IterationFails
  \/ PropertyPush \/ BridgeRestarts
  \/ LoopPoll \/ LoopStore \/ LoopHydrate \/ LoopAppend \/ LoopFails
  \/ IntervalPasses \/ ForcePoll \/ Reconnect
  \/ \E d \in Devices : Select(d) \/ SelectUnanswered(d)

MirrorSpec == MirrorInit /\ [][MirrorNext]_mirrorVars

-----------------------------------------------------------------------------
\* The dashboard's telemetry and chart belong to the device it names, unless
\* the last selection met an iteration under way or got no answer, or the
\* bridge restarted since (server.py 308-313, 391-396, 8221-8229).
ShownDataIsOwn ==
  ~disturbed /\ device # NoDevice =>
    status \in {NoDevice, device} /\ chart.of \subseteq {device}
=============================================================================

-------------------------- MODULE InverterRecovery --------------------------
(***************************************************************************)
(* Hardware-trip recovery of one inverter, end to end:                     *)
(*   - the server's poll loop, which feeds bridge frames to the state      *)
(*     machine of InverterWatchdog and starts a cycle task on "cycle";     *)
(*   - the cycle task: AC off, pause, AC on, each step gated by            *)
(*     recovery_still_allowed();                                           *)
(*   - user requests (/api/set_output) and the configuration and dismiss   *)
(*     routes, which run in a worker thread;                               *)
(*   - the single RPC lock in front of the bridge (BridgeDeviceClient),    *)
(*     the bridge's set_output handler, the device and its telemetry.      *)
(* Everything that shares the RPC lock is a "party"; the head of the queue *)
(* `lock` holds it.                                                        *)
(***************************************************************************)
EXTENDS InverterWatchdog, Sequences, FiniteSets, Functions

CONSTANTS
    Cycles,        \* identities of cycle tasks (bound: tasks alive at once)
    Readings,      \* output classes the device may report while it is on
    POLL,          \* the poll loop, as a party of the RPC lock
    PAUSE_S,       \* asyncio.sleep between AC off and AC on
    RPC_TIMEOUT_S, \* connect + reply timeouts of one RPC
    Epoch,         \* first clock reading
    MaxTime,       \* bound: last clock reading
    MaxInFlight,   \* bound: commands between the bridge and the device
    MaxEvents      \* bound: requests, configuration changes and failures

ASSUME RecoveryAssumption ==
    /\ Tokens \cap Cycles = {} /\ POLL \notin Tokens \cup Cycles
    /\ Readings \subseteq Outputs
    /\ PAUSE_S \in Nat /\ RPC_TIMEOUT_S \in Nat \ {0}
    /\ Epoch \in Nat \ {0} /\ Epoch >= RETRY_INTERVAL_S
    /\ MaxTime \in Nat /\ MaxInFlight \in Nat
    /\ MaxEvents \in Nat

Parties == Tokens \cup Cycles \cup {POLL}

VARIABLES
    now,
    \* --- device and bridge ---
    port,       \* the AC port, as it really is
    mirror,     \* the bridge's cached frame: [ac, out, ts]
    wire,       \* published commands the device has not applied yet
    orphans,    \* commands of abandoned requests the bridge still handles
    \* --- server ---
    lock,       \* the RPC lock: holder first, then the waiters
    phase,      \* of the holder's RPC: "connect", "written", "published"
    since,      \* when the holder's RPC began
    poll,       \* poll loop: "idle", "rpc", "frame" (one in hand)
    frame,      \* the frame the poll loop has in hand
    pollAt,     \* earliest time of the next poll
    wd,         \* the registered WatchdogState
    gen,        \* which record that is (reset_state installs a new one)
    enabled,    \* recovery enabled for the device
    floorSet,   \* setting inverter_trip_recovery_min_w > 0
    task,       \* cycle tasks: [pc, gen, wake]
    cancelling, \* tasks whose cancellation a worker thread has scheduled
    req,        \* user requests: "idle", "on", "off"
    route,      \* worker-thread route: "idle", "cancel", "reset", "dismiss"
    events,     \* requests, configuration changes and failures so far
    \* --- history, read by no action ---
    cuts,       \* recovery OFF commands since output last came back
    episode,    \* tasks started since the operator last cleared the state
    lastFire,   \* when the last cycle was started
    lowFrames   \* time stamps of the low frames of the current streak

deviceVars  == <<port, mirror, wire, orphans>>
rpcVars     == <<lock, phase, since>>
pollVars    == <<poll, frame, pollAt>>
configVars  == <<enabled, floorSet, route>>
historyVars == <<cuts, episode, lastFire, lowFrames>>
vars == <<now, deviceVars, rpcVars, pollVars, wd, gen, configVars,
          task, cancelling, req, events, historyVars>>

Frames == [ac : BOOLEAN, out : Outputs, ts : Nat]
NoFrame == [ac |-> TRUE, out |-> "none", ts |-> 0]
NoTask == [pc |-> "none", gen |-> 0, wake |-> 0]
TaskStates == {"none", "start", "off", "sleep", "on"}

TypeOK ==
    /\ now \in Nat
    /\ port \in BOOLEAN /\ mirror \in Frames
    /\ wire \in Seq(BOOLEAN) /\ orphans \subseteq BOOLEAN
    /\ lock \in Seq(Parties) /\ phase \in {"connect", "written", "published"}
    /\ since \in Nat
    /\ poll \in {"idle", "rpc", "frame"} /\ frame \in Frames /\ pollAt \in Nat
    /\ wd \in WatchdogState /\ gen \in Nat
    /\ enabled \in BOOLEAN /\ floorSet \in BOOLEAN
    /\ task \in [Cycles -> [pc : TaskStates, gen : Nat, wake : Nat]]
    /\ cancelling \subseteq Cycles
    /\ req \in [Tokens -> {"idle", "on", "off"}]
    /\ route \in {"idle", "cancel", "reset", "dismiss"}
    /\ events \in Nat
    /\ cuts \in Nat /\ episode \subseteq Cycles /\ lastFire \in Nat /\ lowFrames \subseteq Nat

Init ==
    /\ now = Epoch
    /\ port = TRUE /\ wire = <<>> /\ orphans = {}
    /\ mirror = NoFrame
    /\ lock = <<>> /\ phase = "connect" /\ since = 0
    /\ poll = "idle" /\ frame = NoFrame /\ pollAt = Epoch
    /\ wd = NewState /\ gen = 1
    /\ enabled = TRUE /\ floorSet = TRUE /\ route = "idle"
    /\ task = [k \in Cycles |-> NoTask] /\ cancelling = {}
    /\ req = [u \in Tokens |-> "idle"]
    /\ events = 0
    /\ cuts = 0 /\ episode = {} /\ lastFire = 0 /\ lowFrames = {}

-----------------------------------------------------------------------------
(* The RPC lock                                                            *)

Live == {k \in Cycles : task[k].pc # "none"}

\* Requests, configuration changes and failures are counted, to bound them.
Event == events < MaxEvents /\ events' = events + 1

\* What the party's request asks of the port.
Command(p) == IF p \in Tokens THEN req[p] = "on" ELSE task[p].pc = "on"

\* The holder is served; a cancelled task is skipped when its turn comes.
Served(p) == p \in Cycles => task[p].pc \in {"off", "on"}

Holder(p) == lock # <<>> /\ Head(lock) = p /\ Served(p)

\* Join the queue; a free lock is taken at once.
Enqueue(p) ==
    /\ lock' = Append(lock, p)
    /\ since' = IF lock = <<>> THEN now ELSE since
    /\ UNCHANGED phase

\* The holder leaves and the next waiter has the lock.
Release ==
    /\ lock' = Tail(lock)
    /\ phase' = "connect"
    /\ since' = IF Tail(lock) = <<>> THEN 0 ELSE now

\* A set_output request that the bridge has read is handled there although
\* nobody awaits the answer any more.
Abandon(gone) ==
    orphans' = IF lock # <<>> /\ Head(lock) \in gone /\ Served(Head(lock))
                    /\ phase = "written"
               THEN orphans \cup {Command(Head(lock))} ELSE orphans

\* The parties `gone` are cancelled: the holder's connection is closed.
Cancel(gone) ==
    /\ Abandon(gone)
    /\ phase' = IF lock # <<>> /\ Head(lock) \in gone THEN "connect" ELSE phase

LockPass ==
    /\ lock # <<>> /\ ~Served(Head(lock))
    /\ Release
    /\ UNCHANGED <<now, deviceVars, pollVars, wd, gen, configVars, task,
                   cancelling, req, events, historyVars>>

\* The request line is written to the bridge; `poll` is answered from the
\* bridge's cache in the same step.
RpcWrite ==
    /\ lock # <<>> /\ Served(Head(lock)) /\ phase = "connect"
    /\ phase' = "written"
    /\ frame' = IF Head(lock) = POLL THEN mirror ELSE frame
    /\ cuts' = IF Head(lock) \in episode /\ ~Command(Head(lock))
               THEN cuts + 1 ELSE cuts
    /\ UNCHANGED <<now, deviceVars, lock, since, poll, pollAt, wd, gen, configVars,
                   task, cancelling, req, events, episode, lastFire, lowFrames>>

\* set_output in the bridge: the command is published to the MQTT broker.
RpcPublish ==
    /\ lock # <<>> /\ Served(Head(lock)) /\ Head(lock) # POLL
    /\ phase = "written"
    /\ Len(wire) < MaxInFlight
    /\ phase' = "published"
    /\ wire' = Append(wire, Command(Head(lock)))
    /\ UNCHANGED <<now, port, mirror, orphans, lock, since, pollVars, wd, gen,
                   configVars, task, cancelling, req, historyVars, events>>

OrphanPublish ==
    /\ Len(wire) < MaxInFlight
    /\ \E on \in orphans :
         /\ orphans' = orphans \ {on}
         /\ wire' \in {Append(wire, on), wire}
    /\ UNCHANGED <<now, port, mirror, rpcVars, pollVars, wd, gen, configVars,
                   task, cancelling, req, historyVars, events>>

-----------------------------------------------------------------------------
(* The device (external) and the bridge's property push                    *)

DeviceApply ==
    /\ wire # <<>>
    /\ wire' = Tail(wire)
    /\ port' = Head(wire)
    /\ UNCHANGED <<now, mirror, orphans, rpcVars, pollVars, wd, gen,
                   configVars, task, cancelling, req, events, historyVars>>

\* The command is lost (the device is offline), or somebody switches the port
\* at the device or in the phone app.
DeviceDisturbed ==
    /\ Event
    /\ \/ wire # <<>> /\ wire' = Tail(wire) /\ UNCHANGED port
       \/ port' = ~port /\ UNCHANGED wire
    /\ UNCHANGED <<now, mirror, orphans, rpcVars, pollVars, wd, gen,
                   configVars, task, cancelling, req, historyVars>>

\* Fresh telemetry: any output while the port is on (loads come and go, the
\* inverter trips), none at all while it is off.
Push ==
    /\ mirror.ts < now
    /\ \E out \in (IF port THEN Readings ELSE {"low"}) :
         mirror' = [ac |-> port, out |-> out, ts |-> now]
    /\ UNCHANGED <<now, port, wire, orphans, rpcVars, pollVars, wd, gen,
                   configVars, task, cancelling, req, historyVars, events>>

-----------------------------------------------------------------------------
(* The poll loop                                                           *)

\* The iteration ends in a sleep of at least one clock unit (poll_interval_s).
PollSleep == poll' = "idle" /\ frame' = NoFrame /\ pollAt' = now + 1

PollStart ==
    /\ poll = "idle" /\ now >= pollAt /\ poll' = "rpc"
    /\ Enqueue(POLL)
    /\ UNCHANGED <<now, deviceVars, frame, pollAt, wd, gen, configVars,
                   task, cancelling, req, events, historyVars>>

PollReply ==
    /\ Holder(POLL) /\ phase = "written"
    /\ poll' = "frame"
    /\ Release
    /\ UNCHANGED <<now, deviceVars, frame, pollAt, wd, gen, configVars,
                   task, cancelling, req, events, historyVars>>

\* poll() logs the error and returns None: nothing is evaluated.
PollError ==
    /\ Event
    /\ Holder(POLL)
    /\ PollSleep
    /\ Release
    /\ UNCHANGED <<now, deviceVars, wd, gen, configVars, task,
                   cancelling, req, historyVars>>

\* What the frame does to the history variables.
NoteFrame(s) ==
    LET fresh == frame.ts # s.last_sample_ts /\ floorSet /\ frame.out # "none"
        looked == fresh /\ ~GraceActive(s, now)
        back   == ~frame.ac \/ (looked /\ frame.out \in {"mid", "high"})
    IN  /\ cuts' = IF back THEN 0 ELSE cuts
        /\ lowFrames' = CASE back \/ GraceActive(s, now) -> {}
                          [] ~back /\ looked -> lowFrames \cup {frame.ts}
                          [] OTHER -> lowFrames

\* _inverter_watchdog_tick on the frame in hand.
WatchdogTick ==
    /\ poll = "frame" /\ PollSleep
    /\ IF enabled
       THEN LET seen   == Observe(wd, frame.ac, frame.out, frame.ts, floorSet, now)
                action == Decide(seen, now)
            IN  /\ wd' = Commit(seen, action, now)
                /\ NoteFrame(wd)
                /\ IF action = "cycle"
                   THEN /\ \E k \in Cycles \ (Live \cup Range(lock)) :
                             /\ task' = [task EXCEPT ![k] =
                                          [pc |-> "start", gen |-> gen, wake |-> 0]]
                             /\ episode' = episode \cup {k}
                        /\ lastFire' = now
                   ELSE UNCHANGED <<task, episode, lastFire>>
       ELSE UNCHANGED <<wd, task, historyVars>>
    /\ UNCHANGED <<now, deviceVars, rpcVars, gen, configVars, cancelling, req,
                   events>>

-----------------------------------------------------------------------------
(* The cycle task                                                          *)

RecoveryStillAllowed(k) ==
    /\ task[k].gen = gen
    /\ enabled
    /\ wd.hw_trip_active
    /\ ~GraceActive(wd, now)

\* Cancelling a task that is done has no effect.
EndTask(k) ==
    /\ task' = [task EXCEPT ![k] = NoTask]
    /\ cancelling' = cancelling \ {k}

\* First step of the task, and its wake-up after the pause: go on to the
\* command `pc`, or stop.
Proceed(k, pc) ==
    /\ IF RecoveryStillAllowed(k)
       THEN /\ task' = [task EXCEPT ![k].pc = pc]
            /\ Enqueue(k)
            /\ UNCHANGED cancelling
       ELSE EndTask(k) /\ UNCHANGED rpcVars
    /\ UNCHANGED <<now, deviceVars, pollVars, wd, gen, configVars, req, historyVars, events>>

CycleStart(k) == task[k].pc = "start" /\ Proceed(k, "off")

CycleWake(k) == task[k].pc = "sleep" /\ now >= task[k].wake /\ Proceed(k, "on")

\* The bridge acknowledged the command.
CycleReply(k) ==
    /\ Holder(k) /\ phase = "published"
    /\ IF task[k].pc = "off"
       THEN /\ task' = [task EXCEPT ![k].pc = "sleep", ![k].wake = now + PAUSE_S]
            /\ UNCHANGED cancelling
       ELSE EndTask(k)
    /\ Release
    /\ UNCHANGED <<now, deviceVars, pollVars, wd, gen, configVars,
                   req, historyVars, events>>

\* Connection refused, timeout or an error answer: logged, the task is over.
CycleError(k) ==
    /\ Event
    /\ Holder(k)
    /\ EndTask(k)
    /\ Release /\ Abandon({k})
    /\ UNCHANGED <<now, port, mirror, wire, pollVars, wd, gen, configVars,
                   req, historyVars>>

\* A cancellation scheduled by a worker thread is delivered on the loop.
CancelDelivered(k) ==
    /\ k \in cancelling
    /\ EndTask(k)
    /\ Cancel({k}) /\ UNCHANGED <<lock, since>>
    /\ UNCHANGED <<now, port, mirror, wire, pollVars, wd, gen, configVars,
                   req, historyVars, events>>

-----------------------------------------------------------------------------
(* POST /api/set_output                                                    *)

UserOn(u) ==
    /\ Event
    /\ req[u] = "idle" /\ req' = [req EXCEPT ![u] = "on"]
    /\ Enqueue(u)
    /\ UNCHANGED <<now, deviceVars, pollVars, wd, gen, configVars, task,
                   cancelling, historyVars>>

\* Mutant of UserOff: the running cycles are not retracted.
UserOffWithoutRetract(u) ==
    /\ Event
    /\ req[u] = "idle" /\ req' = [req EXCEPT ![u] = "off"]
    /\ wd' = [wd EXCEPT !.pending_user_off_intents = @ \cup {u}]
    /\ Enqueue(u)
    /\ UNCHANGED <<now, deviceVars, pollVars, gen, configVars, task, cancelling,
                   historyVars>>

\* The OFF intent is registered and every cycle retracted before the command
\* queues for the lock.
UserOff(u) ==
    /\ Event
    /\ req[u] = "idle" /\ req' = [req EXCEPT ![u] = "off"]
    /\ wd' = [wd EXCEPT !.pending_user_off_intents = @ \cup {u}]
    /\ task' = [k \in Cycles |-> NoTask] /\ cancelling' = {}
    /\ Cancel(Cycles)
    /\ lock' = Append(lock, u)
    /\ since' = IF lock = <<>> THEN now ELSE since
    /\ UNCHANGED <<now, port, mirror, wire, pollVars, gen, configVars,
                   historyVars>>

\* The answer: a confirmed OFF starts the grace period; success or not, the
\* request's own intent is discarded.
UserEnd(u, ok) ==
    /\ Holder(u)
    /\ IF ok THEN phase = "published" /\ UNCHANGED events ELSE Event
    /\ LET stamped == IF ok /\ req[u] = "off" THEN RecordUserOff(wd, now) ELSE wd
       IN  wd' = [stamped EXCEPT !.pending_user_off_intents = @ \ {u}]
    /\ req' = [req EXCEPT ![u] = "idle"]
    /\ Release /\ Abandon(IF ok THEN {} ELSE {u})
    /\ UNCHANGED <<now, port, mirror, wire, pollVars, gen, configVars, task,
                   cancelling, historyVars>>

-----------------------------------------------------------------------------
(* Configuration, settings and dismiss routes (worker thread)              *)

SetEnabled(on) ==
    /\ Event
    /\ route = "idle"
    /\ enabled' = on
    /\ route' = IF on THEN "idle" ELSE "cancel"
    /\ UNCHANGED <<now, deviceVars, rpcVars, pollVars, wd, gen, floorSet, task,
                   cancelling, req, historyVars>>

\* _cancel_watchdog_cycles off the loop: call_soon_threadsafe(task.cancel).
CancelSoon ==
    /\ cancelling' = cancelling \cup Live
    /\ UNCHANGED <<now, deviceVars, rpcVars, pollVars, wd, gen, enabled,
                   floorSet, task, req, historyVars>>

DisableCancel == route = "cancel" /\ route' = "reset" /\ UNCHANGED events /\ CancelSoon

DismissCancel == Event /\ route = "idle" /\ route' = "dismiss" /\ CancelSoon

DisableReset ==
    /\ route = "reset" /\ route' = "idle"
    /\ gen' = gen + 1
    /\ wd' = ResetState(wd)
    /\ cuts' = 0 /\ episode' = {} /\ lastFire' = 0 /\ lowFrames' = {}
    /\ UNCHANGED <<now, deviceVars, rpcVars, pollVars, enabled, floorSet, task,
                   cancelling, req, events>>

DismissReset ==
    /\ route = "dismiss" /\ route' = "idle"
    /\ wd' = DismissError(wd)
    /\ cuts' = 0 /\ episode' = {} /\ lastFire' = 0 /\ lowFrames' = {}
    /\ UNCHANGED <<now, deviceVars, rpcVars, pollVars, gen, enabled, floorSet,
                   task, cancelling, req, events>>

SetFloor ==
    /\ Event
    /\ floorSet' = ~floorSet
    /\ UNCHANGED <<now, deviceVars, rpcVars, pollVars, wd, gen, enabled, route,
                   task, cancelling, req, historyVars>>

\* The server process restarts: only the saved configuration survives.
Restart ==
    /\ Event
    /\ gen' = gen + 1
    /\ wd' = NewState
    /\ Abandon(Parties \ {POLL})
    /\ lock' = <<>> /\ phase' = "connect" /\ since' = 0
    /\ poll' = "idle" /\ pollAt' = now /\ route' = "idle"
    /\ task' = [k \in Cycles |-> NoTask] /\ cancelling' = {}
    /\ req' = [u \in Tokens |-> "idle"]
    /\ cuts' = 0 /\ episode' = {} /\ lastFire' = 0 /\ lowFrames' = {}
    /\ frame' = NoFrame
    /\ UNCHANGED <<now, port, mirror, wire, enabled, floorSet>>

\* Time passes; an RPC does not outlive its timeouts, and a task that is ready
\* to run, or to be cancelled, gets its turn of the event loop first.
ClockTick ==
    /\ now < MaxTime
    /\ cancelling = {} /\ (lock # <<>> => Served(Head(lock)))
    /\ \A k \in Cycles : /\ task[k].pc # "start"
                         /\ task[k].pc = "sleep" => now < task[k].wake
    /\ lock # <<>> => now - since < RPC_TIMEOUT_S
    /\ now' = now + 1
    /\ UNCHANGED <<deviceVars, rpcVars, pollVars, wd, gen, configVars, task,
                   cancelling, req, historyVars, events>>

-----------------------------------------------------------------------------
CycleStep(k) ==
    CycleStart(k) \/ CycleWake(k) \/ CycleReply(k) \/ CycleError(k)
      \/ CancelDelivered(k)

UserStep(u) == UserOn(u) \/ UserOff(u) \/ \E ok \in BOOLEAN : UserEnd(u, ok)

RouteStep ==
    \/ \E on \in BOOLEAN : SetEnabled(on)
    \/ DisableCancel \/ DisableReset \/ DismissCancel \/ DismissReset
    \/ SetFloor

Next ==
    \/ ClockTick \/ DeviceApply \/ DeviceDisturbed \/ Push
    \/ LockPass \/ RpcWrite \/ RpcPublish \/ OrphanPublish
    \/ PollStart \/ PollReply \/ PollError \/ WatchdogTick
    \/ \E k \in Cycles : CycleStep(k)
    \/ \E u \in Tokens : UserStep(u)
    \/ RouteStep \/ Restart

Spec == Init /\ [][Next]_vars

-----------------------------------------------------------------------------
(* Properties                                                              *)

\* From the click until the grace period after the confirmed OFF is over, no
\* recovery cycle exists in any stage: api_set_output retracts the running
\* ones, evaluate and recovery_still_allowed refuse new ones.
NoCycleDuringUserOff == GraceActive(wd, now) => Live = {}

\* No recovery command is written to the bridge while a user's AC-OFF request
\* is being served, whatever the routes, resets and timeouts in between.
UserOffExcludesRecoveryCommand ==
    [][RpcWrite /\ Head(lock) \in Cycles => \A u \in Tokens : req[u] # "off"]_vars

\* Between two moments at which output was seen above the floor, the port
\* was seen off, or the operator cleared the state, at most
\* MAX_CYCLES_PER_EPISODE recovery cuts are sent to the device.
CutsPerEpisode == cuts <= MAX_CYCLES_PER_EPISODE

\* Both together: the shape of the state and the bound on the cuts that the
\* watchdog's counters must keep through flapping episodes and restarts.
RecoveryInv == TypeOK /\ CutsPerEpisode

\* Two cycles start at least RETRY_INTERVAL_S apart, however often the
\* episode cleared and re-armed in between (last_attempt_ts survives idle).
CyclesArePaced ==
    [][\A k \in Cycles : task[k].pc = "none" /\ task'[k].pc = "start"
                           => now - lastFire >= RETRY_INTERVAL_S]_vars

\* A trip is declared only on COLLAPSE_MIN_SAMPLES distinct consecutive low
\* frames: re-served cached frames and frames from a user's OFF do not count.
TripNeedsDistinctFrames ==
    [][~wd.hw_trip_active /\ wd'.hw_trip_active
         => Cardinality(lowFrames') >= COLLAPSE_MIN_SAMPLES]_vars

\* The badge goes out only when the evaluated frame shows output above the
\* floor or the port off, or when the operator or a restart clears it.
BadgeNotSilentlyWiped ==
    [][wd.error_message /\ ~wd'.error_message =>
         \/ route = "dismiss" \/ gen' # gen
         \/ poll = "frame" /\ (~frame.ac \/ frame.out \in {"mid", "high"})]_vars

-----------------------------------------------------------------------------
(* What the documentation says of the recovery and the code does not do.   *)

\* "When it fires, the caller must cycle AC off -> on" (inverter_watchdog.py):
\* a cycle that has switched AC off gives up before AC on only when output was
\* seen back at the baseline, the operator turned AC off, disabled recovery or
\* dismissed the badge, or the server restarted.
CycleSwitchesBackOn ==
    [][\A k \in Cycles :
         task[k].pc = "sleep" /\ task'[k].pc = "none" =>
           \/ wd.last_high_output_ts >= wd.last_attempt_ts
           \/ k \in cancelling \/ ~enabled \/ route # "idle" \/ gen' # task[k].gen
           \/ \E u \in Tokens : req'[u] = "off"]_vars
=============================================================================

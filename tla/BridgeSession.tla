---------------------------- MODULE BridgeSession ----------------------------
(***************************************************************************)
(* The cloud session of bridge.py: the poller task cloud_loop, the session *)
(* it holds at the Jackery cloud, cloud_watchdog_loop, and the RPC         *)
(* handlers that start, stop, pause and nudge the poller.                  *)
(*                                                                         *)
(* A poller task and the JackeryCloudClient it creates share one identity: *)
(* `loop` is the task, `token` is its client's.  The cloud keeps one       *)
(* session per account, so a login makes every other token stale, and the  *)
(* requests already sent with one.  Durations are in units of the clock    *)
(* and kept as remaining or elapsed time, so the clock itself never grows. *)
(* cloud_state, cloud_error and the event log are outputs and left out.    *)
(***************************************************************************)
EXTENDS Integers, FiniteSets

CONSTANTS
    Loops,          \* identities of poller tasks (bound: tasks alive at once)
    Handlers,       \* RPC connections the bridge serves at the same time
    Methods,        \* the RPC methods that are called
    Answers,        \* what the properties of a device are asked with: see got
    None,           \* no task, no client
    CHECK_S,        \* WATCHDOG_CHECK_INTERVAL_S
    STALE_S,        \* WATCHDOG_STALE_S
    MIN_RESTART_S,  \* WATCHDOG_MIN_RESTART_INTERVAL_S
    POLL_S,         \* cloud_poll_interval_s
    BACKOFF_S,      \* sleep after a poll error
    PAUSE_S,        \* length of a pause_polling
    COOLDOWN_S,     \* session_contested_cooldown_s
    COOLDOWN_CAP_S, \* longest cooldown: an hour, or 60 times the shortest
    MaxRequests     \* bound: RPCs that change the session, and restarts

ASSUME SessionAssumption ==
    /\ None \notin Loops /\ IsFiniteSet(Loops)
    /\ Answers \subseteq {"none", "other", "active"}
    /\ Methods \subseteq {"set_credentials", "clear_credentials", "connect",
                          "disconnect", "select_device", "pause_polling",
                          "resume_polling", "get_battery_packs"}
    /\ {CHECK_S, STALE_S, MIN_RESTART_S, POLL_S, BACKOFF_S, PAUSE_S, COOLDOWN_S}
         \subseteq Nat \ {0}
    /\ COOLDOWN_CAP_S \in Nat /\ COOLDOWN_CAP_S >= COOLDOWN_S
    /\ MaxRequests \in Nat

VARIABLES
    saved,      \* the credentials file has credentials
    creds,      \* state.cloud_creds is set
    listed,     \* state.cloud_devices is filled
    loop,       \* poller tasks: [pc, clock, sent, got, subscribed]
    cancelled,  \* tasks with a cancellation under way
    handle,     \* state.cloud_task
    client,     \* state.cloud_client
    token,      \* token of each client: "none", "valid", "stale"
    realtime,   \* clients subscribed to the MQTT pushes
    age,        \* age of state.cloud_ts, up to STALE_S (no time stamp: STALE_S)
    force,      \* state.cloud_force_repoll is set
    pauseLeft,      \* what is left of state.pause_until
    contestedLeft,  \* what is left of state.contested_until
    cooldown,       \* what contested_consecutive answers in a row amount to
    watchdog,   \* [pc, on, check, since]
    rpc,        \* requests being handled: [op, pc, on, sent]
    requests    \* requests and restarts so far

taskVars  == <<loop, cancelled, handle, client, token, realtime>>
credVars  == <<saved, creds, listed>>
timerVars == <<pauseLeft, contestedLeft, cooldown>>
vars == <<credVars, taskVars, age, force, timerVars, watchdog, rpc, requests>>

\* The awaits of cloud_loop.  `clock` is what is left of a sleep, or how long
\* ago the iteration began to ask for properties; `sent` is the token of the
\* request under way; `got` is the best answer of the iteration so far.
Sleeping == {"hold", "backoff", "idle"}
InHttp   == {"login", "list", "relogin", "props"}
Tokens   == {"none", "valid", "stale"}

NoTask == [pc |-> "none", clock |-> 0, sent |-> "none", got |-> "none",
           subscribed |-> FALSE]
NewTask == [NoTask EXCEPT !.pc = "ready"]
NoRpc  == [op |-> "none", pc |-> "idle", on |-> None, sent |-> "none"]

Live == {l \in Loops : loop[l].pc # "none"}

\* Tasks whose body runs, that is, that have created their client.
Started == {l \in Live : loop[l].pc # "ready"}

Min2(a, b) == IF a < b THEN a ELSE b

Init ==
    /\ saved = TRUE /\ creds = TRUE /\ listed = FALSE
    /\ handle \in Loops
    /\ loop = [l \in Loops |-> IF l = handle THEN NewTask ELSE NoTask]
    /\ cancelled = {} /\ client = None
    /\ token = [l \in Loops |-> "none"] /\ realtime = {}
    /\ age = STALE_S /\ force = FALSE
    /\ pauseLeft = 0 /\ contestedLeft = 0 /\ cooldown = 0
    /\ watchdog = [pc |-> "sleep", on |-> None, check |-> CHECK_S,
                   since |-> MIN_RESTART_S]
    /\ rpc = [h \in Handlers |-> NoRpc]
    /\ requests = 0

-----------------------------------------------------------------------------
(* Tasks, clients and the session                                          *)

\* Identities nobody refers to any more, with c as the state's client.
Free(c) == {l \in Loops : /\ loop[l].pc = "none" /\ l # c
                          /\ watchdog.on # l /\ \A h \in Handlers : rpc[h].on # l}

HandleDone == handle = None \/ loop[handle].pc = "none"

\* state.cloud_task = create_task(cloud_loop())
CreateLoop(c) ==
    \E l \in Free(c) :
      /\ loop' = [loop EXCEPT ![l] = NewTask]
      /\ handle' = l
      /\ token' = [token EXCEPT ![l] = "none"]
      /\ realtime' = realtime \ {l}

CancelHandle ==
    cancelled' = IF HandleDone THEN cancelled ELSE cancelled \cup {handle}

\* A login, by the client l or by somebody else (None): the other tokens are
\* stale, and so are the requests on their way that were sent with one.
Stale(t) == IF t = "valid" THEN "stale" ELSE t
LoopsAfterLogin == [l \in Loops |-> [loop[l] EXCEPT !.sent = Stale(@)]]
RpcsAfterLogin  == [h \in Handlers |-> [rpc[h] EXCEPT !.sent = Stale(@)]]
TokensAfterLogin(l) == [k \in Loops |-> IF k = l THEN "valid" ELSE Stale(token[k])]

\* The phone app, or another bridge, signs in.
PhoneLogin ==
    /\ \E l \in Loops : token[l] = "valid"
    /\ token' = TokensAfterLogin(None)
    /\ loop' = LoopsAfterLogin /\ rpc' = RpcsAfterLogin
    /\ UNCHANGED <<credVars, cancelled, handle, client, realtime, age, force,
                   timerVars, watchdog, requests>>

-----------------------------------------------------------------------------
(* cloud_loop                                                              *)

Runs(l, pcs) == loop[l].pc \in pcs /\ l \notin cancelled

Yielding == pauseLeft > 0 \/ contestedLeft > 0

Await(r, pc, clock, sent) == [r EXCEPT !.pc = pc, !.clock = clock, !.sent = sent]

\* The first request of an iteration: the device list, unless it is known.
FirstRequest(r, t) ==
    [Await(r, IF listed THEN "props" ELSE "list", 0, t) EXCEPT !.got = "none"]

\* Mutant of TopOfLoop: the operator's pause is not honoured.
TopInPause(r, t) ==
    CASE contestedLeft > 0 -> Await(r, "hold", 0, "none")
      [] contestedLeft = 0 /\ t = "none" -> Await(r, "login", 0, "none")
      [] OTHER -> FirstRequest(r, t)

\* The top of the loop up to the next await, for a task with the token t.
TopOfLoop(r, t) ==
    CASE Yielding -> Await(r, "hold", 0, "none")
      [] ~Yielding /\ t = "none" -> Await(r, "login", 0, "none")
      [] OTHER -> FirstRequest(r, t)

\* Another _authed_get of the same iteration, which logs in if it has to.
NextRequest(r, t) ==
    IF t = "none" THEN Await(r, "relogin", r.clock, "none")
    ELSE Await(r, "props", r.clock, t)

\* login() drops the MQTT client, and its subscriptions, before it asks.
Step(l, r) ==
    /\ loop' = [loop EXCEPT ![l] = r]
    /\ realtime' = IF r.pc \in {"login", "relogin"} THEN realtime \ {l} ELSE realtime

\* Mutant of LoopStart: the credentials are not looked at.
LoopStartAnyway(l) ==
    /\ Runs(l, {"ready"})
    /\ Step(l, TopOfLoop(loop[l], "none")) /\ client' = l
    /\ UNCHANGED <<credVars, cancelled, handle, token, age, force, timerVars,
                   watchdog, rpc, requests>>

\* asyncio starts tasks in the order of their creation; the last one created
\* is the one the handle names.
LoopStart(l) ==
    /\ Runs(l, {"ready"})
    /\ l = handle => \A k \in Loops \ {l} : ~Runs(k, {"ready"})
    /\ IF creds THEN Step(l, TopOfLoop(loop[l], "none")) /\ client' = l
       ELSE Step(l, NoTask) /\ UNCHANGED client
    /\ UNCHANGED <<credVars, cancelled, handle, token, age, force, timerVars,
                   watchdog, rpc, requests>>

\* A sleep is over.  Pauses and cooldowns are looked at every 5 s; the wait for
\* the next poll ends early when cloud_force_repoll is set.
Awake(l) ==
    CASE loop[l].pc = "hold" -> ~Yielding
      [] loop[l].pc = "backoff" -> loop[l].clock = 0
      [] loop[l].pc = "idle" -> loop[l].clock = 0 \/ force
      [] OTHER -> FALSE

LoopWake(l) ==
    /\ Runs(l, Sleeping) /\ Awake(l)
    /\ Step(l, TopOfLoop(loop[l], token[l]))
    /\ force' = (force /\ loop[l].pc # "idle")
    /\ UNCHANGED <<credVars, cancelled, handle, client, token, age, timerVars,
                   watchdog, rpc, requests>>

\* login() succeeds, at the top of the loop or inside an _authed_get.  Only at
\* the top is the subscription to the pushes asked for again.
LoopLogin(l) ==
    /\ Runs(l, {"login", "relogin"})
    /\ token' = TokensAfterLogin(l)
    /\ loop' = [LoopsAfterLogin EXCEPT ![l] =
                  IF loop[l].pc = "relogin" THEN NextRequest(loop[l], "valid")
                  ELSE [FirstRequest(loop[l], "valid") EXCEPT !.subscribed = FALSE]]
    /\ rpc' = RpcsAfterLogin
    /\ UNCHANGED <<credVars, cancelled, handle, client, realtime, age, force,
                   timerVars, watchdog, requests>>

LoopListed(l) ==
    /\ Runs(l, {"list"}) /\ loop[l].sent = "valid"
    /\ listed' = TRUE
    /\ Step(l, NextRequest([loop[l] EXCEPT !.clock = 0], token[l]))
    /\ UNCHANGED <<saved, creds, cancelled, handle, client, token, age, force,
                   timerVars, watchdog, rpc, requests>>

\* One device has answered, "active" for the selected one; or its request
\* failed, or its login did, and the device is skipped.
Answered(l, answer) ==
    IF answer = "none" THEN loop[l].got
    ELSE IF loop[l].got = "active" THEN "active" ELSE answer

CanAnswer(l, answer) ==
    /\ Runs(l, {"props", "relogin"})
    /\ answer # "none" => loop[l].pc = "props" /\ loop[l].sent = "valid"

LoopNextDevice(l, answer) ==
    /\ CanAnswer(l, answer)
    /\ Step(l, NextRequest([loop[l] EXCEPT !.got = Answered(l, answer)], token[l]))
    /\ UNCHANGED <<credVars, cancelled, handle, client, token, age, force,
                   timerVars, watchdog, rpc, requests>>

\* The iteration ends: the selected device's answer is stamped with the time
\* at which the iteration began to ask.
LoopPolled(l, answer) ==
    /\ CanAnswer(l, answer)
    /\ age' = IF Answered(l, answer) = "active" THEN loop[l].clock ELSE age
    /\ cooldown' = IF Answered(l, answer) # "none" THEN 0 ELSE cooldown
    /\ \E subscribed \in {loop[l].subscribed, TRUE} :
         /\ loop' = [loop EXCEPT ![l] =
                       [Await(@, "idle", POLL_S, "none") EXCEPT
                          !.got = Answered(l, answer), !.subscribed = subscribed]]
         /\ realtime' = IF subscribed /\ ~loop[l].subscribed
                        THEN realtime \cup {l} ELSE realtime
    /\ UNCHANGED <<credVars, cancelled, handle, client, token, force, pauseLeft,
                   contestedLeft, watchdog, rpc, requests>>

\* The cooldown doubles with each contested answer in a row, up to the cap.
Doubled == Min2(IF cooldown = 0 THEN COOLDOWN_S ELSE 2 * cooldown, COOLDOWN_CAP_S)

\* `if state.cloud_client: state.cloud_client.token = None`, whose client need
\* not be the one this task made.
DropToken(t) == IF client = None THEN t ELSE [t EXCEPT ![client] = "none"]

\* The cloud rejects the token: let the other client have the session.  The
\* explicit "logged in elsewhere" has the fixed cooldown.
LoopContested(l) ==
    /\ Runs(l, {"list", "props"}) /\ loop[l].sent = "stale"
    /\ cooldown' = Doubled
    /\ contestedLeft' \in {COOLDOWN_S, Doubled}
    /\ token' = DropToken([token EXCEPT ![l] = "none"])
    /\ Step(l, Await(loop[l], "hold", 0, "none"))
    /\ UNCHANGED <<credVars, cancelled, handle, client, age, force, pauseLeft,
                   watchdog, rpc, requests>>

\* A login at the top of the loop or the device list fails for another reason.
LoopError(l) ==
    /\ Runs(l, {"login", "list"})
    /\ token' = DropToken(token)
    /\ Step(l, Await(loop[l], "backoff", BACKOFF_S, "none"))
    /\ UNCHANGED <<credVars, cancelled, handle, client, age, force, timerVars,
                   watchdog, rpc, requests>>

\* The CancelledError ends the task at its await.  A client that is not the
\* state's is forgotten with it.
LoopCancelled(l) ==
    /\ l \in cancelled
    /\ loop' = [loop EXCEPT ![l] = NoTask]
    /\ cancelled' = cancelled \ {l}
    /\ token' = IF client = l THEN token ELSE [token EXCEPT ![l] = "none"]
    /\ UNCHANGED <<credVars, handle, client, realtime, age, force,
                   timerVars, watchdog, rpc, requests>>

\* _on_property_push for the selected device.
Push(l) ==
    /\ l \in realtime
    /\ age' = 0
    /\ UNCHANGED <<credVars, taskVars, force, timerVars, watchdog, rpc, requests>>

-----------------------------------------------------------------------------
(* cloud_watchdog_loop                                                     *)

\* Mutant of Asleep: the throttle is restarted by every check.
AsleepThrottled == [watchdog EXCEPT !.pc = "sleep", !.on = None, !.check = CHECK_S,
                                    !.since = 0]

Asleep == [watchdog EXCEPT !.pc = "sleep", !.on = None, !.check = CHECK_S]

RestartDue ==
    /\ ~Yielding /\ creds
    /\ age >= STALE_S
    /\ watchdog.since >= MIN_RESTART_S

\* The task is gone: close the client, if there is one, and make a new task.
WatchdogClose ==
    IF client # None
    THEN /\ watchdog' = [watchdog EXCEPT !.pc = "close", !.on = None]
         /\ realtime' = realtime \ {client}
         /\ UNCHANGED <<loop, handle, token>>
    ELSE CreateLoop(None) /\ watchdog' = [Asleep EXCEPT !.since = 0]

\* Mutant of WatchdogCheck: the stuck task is replaced, not cancelled.
WatchdogReplaces ==
    /\ watchdog.pc = "sleep" /\ watchdog.check = 0
    /\ IF RestartDue THEN WatchdogClose
       ELSE watchdog' = Asleep /\ UNCHANGED <<loop, handle, token, realtime>>
    /\ UNCHANGED <<credVars, cancelled, client, age, force, timerVars, rpc, requests>>

WatchdogCheck ==
    /\ watchdog.pc = "sleep" /\ watchdog.check = 0
    /\ IF RestartDue
       THEN /\ CancelHandle
            /\ IF HandleDone THEN WatchdogClose
               ELSE /\ watchdog' = [watchdog EXCEPT !.pc = "join", !.on = handle]
                    /\ UNCHANGED <<loop, handle, token, realtime>>
       ELSE watchdog' = Asleep /\ UNCHANGED <<loop, cancelled, handle, token, realtime>>
    /\ UNCHANGED <<credVars, client, age, force, timerVars, rpc, requests>>

\* The CancelledError of the awaited task is caught.
WatchdogJoined ==
    /\ watchdog.pc = "join" /\ loop[watchdog.on].pc = "none"
    /\ WatchdogClose
    /\ UNCHANGED <<credVars, cancelled, client, age, force, timerVars, rpc, requests>>

WatchdogClosed ==
    /\ watchdog.pc = "close"
    /\ client' = None
    /\ CreateLoop(None)
    /\ watchdog' = [Asleep EXCEPT !.since = 0]
    /\ UNCHANGED <<credVars, cancelled, age, force, timerVars, rpc, requests>>

-----------------------------------------------------------------------------
(* The RPC handlers.  h is the connection a request came in on; requests    *)
(* are counted, to bound them.                                             *)

Request(method) ==
    method \in Methods /\ requests < MaxRequests /\ requests' = requests + 1

Awaits(h, op, pc, on, sent) ==
    rpc' = [rpc EXCEPT ![h] = [op |-> op, pc |-> pc, on |-> on, sent |-> sent]]

Ends(h) == rpc' = [rpc EXCEPT ![h] = NoRpc]

\* task.cancel(); await task
CancelAndJoin(h, op) == CancelHandle /\ Awaits(h, op, "join", handle, "none")

\* `await state.cloud_client.aclose()`: the MQTT client is dropped at once,
\* the connections are closed in the await.
BeginClose(h, op) ==
    /\ Awaits(h, op, "close", None, "none")
    /\ realtime' = realtime \ {client}
    /\ UNCHANGED <<loop, cancelled, handle, token>>

\* What follows the close: set_credentials makes a new task ...
RestartPoller(h) ==
    IF HandleDone THEN CreateLoop(None) /\ Ends(h) /\ UNCHANGED cancelled
    ELSE /\ CancelAndJoin(h, "set_credentials")
         /\ UNCHANGED <<loop, handle, token, realtime>>

\* ... clear_credentials forgets the credentials ...
StopPoller(h) ==
    /\ IF HandleDone
       THEN /\ creds' = FALSE /\ listed' = FALSE /\ age' = STALE_S
            /\ Ends(h) /\ UNCHANGED cancelled
       ELSE CancelAndJoin(h, "clear_credentials") /\ UNCHANGED <<creds, listed, age>>
    /\ UNCHANGED <<loop, handle, token, realtime>>

\* ... and disconnect cancels the task without waiting for it.
DropPoller(h) ==
    CancelHandle /\ Ends(h) /\ UNCHANGED <<loop, handle, token, realtime>>

SetCredentials(h) ==
    /\ Request("set_credentials") /\ rpc[h].pc = "idle"
    /\ Awaits(h, "set_credentials", "probe", None, "none")
    /\ UNCHANGED <<credVars, taskVars, age, force, timerVars, watchdog>>

\* The probe's login, with a client of its own.
ProbeLogin(h, ok) ==
    /\ rpc[h].pc = "probe"
    /\ IF ok
       THEN /\ token' = TokensAfterLogin(None) /\ loop' = LoopsAfterLogin
            /\ rpc' = [RpcsAfterLogin EXCEPT ![h].pc = "save"]
       ELSE Ends(h) /\ UNCHANGED <<token, loop>>
    /\ UNCHANGED <<credVars, cancelled, handle, client, realtime, age, force,
                   timerVars, watchdog, requests>>

SaveCredentials(h) ==
    /\ rpc[h].pc = "save"
    /\ saved' = TRUE /\ creds' = TRUE /\ listed' = FALSE /\ age' = STALE_S
    /\ IF client # None THEN BeginClose(h, "set_credentials") ELSE RestartPoller(h)
    /\ UNCHANGED <<client, force, timerVars, watchdog, requests>>

\* The saved credentials are erased before anything is stopped.
ClearCredentials(h) ==
    /\ Request("clear_credentials") /\ rpc[h].pc = "idle"
    /\ saved' = FALSE
    /\ IF client # None
       THEN BeginClose(h, "clear_credentials") /\ UNCHANGED <<creds, listed, age>>
       ELSE StopPoller(h)
    /\ UNCHANGED <<client, force, timerVars, watchdog>>

Disconnect(h) ==
    /\ Request("disconnect") /\ rpc[h].pc = "idle"
    /\ IF client # None THEN BeginClose(h, "disconnect") ELSE DropPoller(h)
    /\ UNCHANGED <<credVars, client, age, force, timerVars, watchdog>>

\* aclose() is over: the client is forgotten, whichever it is by now.
Closed(h) ==
    /\ rpc[h].pc = "close"
    /\ client' = None
    /\ CASE rpc[h].op = "set_credentials" -> RestartPoller(h) /\ UNCHANGED <<creds, listed, age>>
         [] rpc[h].op = "clear_credentials" -> StopPoller(h)
         [] OTHER -> DropPoller(h) /\ UNCHANGED <<creds, listed, age>>
    /\ UNCHANGED <<saved, force, timerVars, watchdog, requests>>

\* The awaited task has ended.  Its CancelledError is no Exception: it leaves
\* the handler and the connection, and nothing after the await is executed.
Joined(h) ==
    /\ rpc[h].pc = "join" /\ loop[rpc[h].on].pc = "none"
    /\ Ends(h)
    /\ UNCHANGED <<credVars, taskVars, age, force, timerVars, watchdog, requests>>

Connect ==
    /\ Request("connect")
    /\ IF creds /\ HandleDone THEN CreateLoop(client) /\ UNCHANGED force
       ELSE force' = TRUE /\ UNCHANGED <<loop, handle, token, realtime>>
    /\ UNCHANGED <<credVars, cancelled, client, age, timerVars, watchdog, rpc>>

\* Another device of the list is selected: its telemetry is not there yet.
SelectDevice ==
    /\ Request("select_device") /\ listed
    /\ age' = STALE_S /\ force' = TRUE
    /\ UNCHANGED <<credVars, taskVars, timerVars, watchdog, rpc>>

PausePolling ==
    /\ Request("pause_polling")
    /\ pauseLeft' = PAUSE_S
    /\ UNCHANGED <<credVars, taskVars, age, force, contestedLeft, cooldown,
                   watchdog, rpc>>

ResumePolling ==
    /\ Request("resume_polling")
    /\ pauseLeft' = 0 /\ contestedLeft' = 0 /\ force' = TRUE
    /\ UNCHANGED <<credVars, taskVars, age, cooldown, watchdog, rpc>>

\* A device's battery packs, or their upgrade flags, are not in the caches: an
\* _authed_get on the client of the moment, which logs in if it has no token.
GetBatteryPacks(h) ==
    /\ Request("get_battery_packs") /\ rpc[h].pc = "idle"
    /\ client # None
    /\ IF token[client] = "none"
       THEN /\ Awaits(h, "get_battery_packs", "login", client, "none")
            /\ realtime' = realtime \ {client}
       ELSE /\ Awaits(h, "get_battery_packs", "fetch", client, token[client])
            /\ UNCHANGED realtime
    /\ UNCHANGED <<credVars, loop, cancelled, handle, client, token, age, force,
                   timerVars, watchdog>>

PacksLogin(h, ok) ==
    /\ rpc[h].pc = "login"
    /\ IF ok
       THEN /\ token' = TokensAfterLogin(rpc[h].on) /\ loop' = LoopsAfterLogin
            /\ rpc' = [RpcsAfterLogin EXCEPT ![h].pc = "fetch", ![h].sent = "valid"]
       ELSE Ends(h) /\ UNCHANGED <<token, loop>>
    /\ UNCHANGED <<credVars, cancelled, handle, client, realtime, age, force,
                   timerVars, watchdog, requests>>

\* A rejected token is dropped; otherwise there is an answer or an error.
PacksReply(h) ==
    /\ rpc[h].pc = "fetch"
    /\ Ends(h)
    /\ token' \in {token} \cup (IF rpc[h].sent = "stale"
                                THEN {[token EXCEPT ![rpc[h].on] = "none"]} ELSE {})
    /\ UNCHANGED <<credVars, loop, cancelled, handle, client, realtime, age, force,
                   timerVars, watchdog, requests>>

-----------------------------------------------------------------------------
(* Time, restarts                                                          *)

\* The bridge process restarts, with the saved credentials.
Restart ==
    /\ requests < MaxRequests /\ requests' = requests + 1
    /\ creds' = saved /\ listed' = FALSE
    /\ handle' \in (IF saved THEN Loops ELSE {None})
    /\ loop' = [l \in Loops |-> IF l = handle' THEN NewTask ELSE NoTask]
    /\ cancelled' = {} /\ client' = None
    /\ token' = [l \in Loops |-> "none"] /\ realtime' = {}
    /\ age' = STALE_S /\ force' = FALSE
    /\ pauseLeft' = 0 /\ contestedLeft' = 0 /\ cooldown' = 0
    /\ watchdog' = [Asleep EXCEPT !.since = MIN_RESTART_S]
    /\ rpc' = [h \in Handlers |-> NoRpc]
    /\ UNCHANGED saved

\* Tasks that are ready get their turn before the clock unit is over.  The
\* watchdog waits at most 5 s for a task to end or a client to close.
Ready ==
    \/ cancelled # {} \/ watchdog.pc # "sleep" \/ watchdog.check = 0
    \/ \E l \in Loops : loop[l].pc = "ready" \/ Awake(l)
    \/ \E h \in Handlers : rpc[h].pc = "join" /\ loop[rpc[h].on].pc = "none"

Dec(n) == IF n = 0 THEN 0 ELSE n - 1

Tick ==
    /\ ~Ready
    /\ loop' = [l \in Loops |->
         CASE loop[l].pc \in Sleeping -> [loop[l] EXCEPT !.clock = Dec(@)]
           [] loop[l].pc \in {"props", "relogin"} ->
                [loop[l] EXCEPT !.clock = Min2(@ + 1, STALE_S)]
           [] OTHER -> loop[l]]
    /\ age' = Min2(age + 1, STALE_S)
    /\ pauseLeft' = Dec(pauseLeft) /\ contestedLeft' = Dec(contestedLeft)
    /\ watchdog' = [watchdog EXCEPT !.check = Dec(@),
                                    !.since = Min2(@ + 1, MIN_RESTART_S)]
    /\ UNCHANGED <<credVars, cancelled, handle, client, token, realtime, force,
                   cooldown, rpc, requests>>

-----------------------------------------------------------------------------
\* Steps the event loop takes by itself ...
LoopTurn(l) == LoopStart(l) \/ LoopWake(l) \/ LoopCancelled(l)
WatchdogStep == WatchdogCheck \/ WatchdogJoined \/ WatchdogClosed

\* ... and steps that wait for the cloud.
LoopAnswer(l) ==
    \/ LoopLogin(l) \/ LoopListed(l) \/ LoopContested(l) \/ LoopError(l)
    \/ \E answer \in Answers : LoopNextDevice(l, answer) \/ LoopPolled(l, answer)

HandlerStep(h) ==
    \/ SetCredentials(h) \/ \E ok \in BOOLEAN : ProbeLogin(h, ok)
    \/ SaveCredentials(h) \/ ClearCredentials(h) \/ Disconnect(h)
    \/ Closed(h) \/ Joined(h)
    \/ GetBatteryPacks(h) \/ PacksReply(h) \/ \E ok \in BOOLEAN : PacksLogin(h, ok)

Next ==
    \/ \E l \in Loops : LoopTurn(l) \/ LoopAnswer(l) \/ Push(l)
    \/ WatchdogStep
    \/ \E h \in Handlers : HandlerStep(h)
    \/ Connect \/ SelectDevice \/ PausePolling \/ ResumePolling
    \/ PhoneLogin \/ Restart \/ Tick

Spec == Init /\ [][Next]_vars

\* asyncio runs every ready task and time passes; the cloud need not answer.
Fairness ==
    /\ WF_vars(Tick) /\ WF_vars(WatchdogStep)
    /\ \A l \in Loops : WF_vars(LoopTurn(l))
    /\ \A h \in Handlers : WF_vars(Joined(h))

LiveSpec == Spec /\ Fairness

-----------------------------------------------------------------------------
(* Properties                                                              *)

SessionTypeOK ==
    /\ {saved, creds, listed, force} \subseteq BOOLEAN
    /\ loop \in [Loops -> [pc : {"none", "ready"} \cup Sleeping \cup InHttp,
                           clock : Nat, sent : Tokens, got : Answers \cup {"none"},
                           subscribed : BOOLEAN]]
    /\ cancelled \subseteq Live /\ {handle, client} \subseteq Loops \cup {None}
    /\ token \in [Loops -> Tokens] /\ realtime \subseteq Loops
    /\ age \in 0 .. STALE_S
    /\ {pauseLeft, contestedLeft, cooldown, requests} \subseteq Nat
    /\ watchdog \in [pc : {"sleep", "join", "close"}, on : Loops \cup {None},
                     check : 0 .. CHECK_S, since : 0 .. MIN_RESTART_S]
    /\ rpc \in [Handlers ->
                  [op : Methods \cup {"none"},
                   pc : {"idle", "probe", "save", "close", "join", "login", "fetch"},
                   on : Loops \cup {None}, sent : Tokens]]

Running == Started \ cancelled

\* While the poller that state.cloud_task names runs, state.cloud_client is its
\* client: set_output and get_battery_packs are never refused for want of a
\* client, and no error drops the token of another one in its place.
RunningLoopHasClient == handle \in Running => client = handle

\* Once the credentials are forgotten, the poller that state.cloud_task names
\* does not run, whatever the watchdog and other requests are in the midst of.
SignedOutMeansStopped == ~creds => handle \notin Running

\* What handlers, poller and watchdog keep of each other's state.
SessionInv == SessionTypeOK /\ RunningLoopHasClient /\ SignedOutMeansStopped

\* "background task handle for cloud_loop so we can cancel/restart it"
\* (bridge.py): every poller that runs is the one the handle names.
NoOrphanLoop == Running \subseteq {handle}

\* "Don't fight back - cool down and let them keep the session" (bridge.py):
\* during a pause or a cooldown no login is sent, except by an operator who
\* signs in.
LoginsYield ==
    [][Yielding =>
         /\ \A l \in Loops : loop'[l].pc \in {"login", "relogin"}
                               => loop[l].pc = loop'[l].pc
         /\ \A h \in Handlers : rpc'[h].pc = "login" => rpc[h].pc = "login"]_vars

\* A login drops the MQTT client and its subscription; the poller asks for it
\* again "so we don't lose pushes" (bridge.py): between two polls a poller that
\* counts itself as subscribed is, unless its client is being closed.
PushesKept ==
    \A l \in Running :
      loop[l].pc = "idle" /\ loop[l].subscribed =>
        \/ l \in realtime
        \/ l = client /\ \E h \in Handlers : rpc[h].pc = "close"

\* One poller at most, and it hears the device's pushes.
OnePollerListens == NoOrphanLoop /\ PushesKept

\* After the operator has erased the credentials no poller signs in with them,
\* until new ones are saved; a login sent before that may still be answered.
NoLoginAfterSignOut ==
    [][~saved => \A l \in Loops :
         loop'[l].pc \in {"login", "relogin"} =>
           \/ loop[l].pc = loop'[l].pc
           \/ \E h \in Handlers : rpc[h].op = "clear_credentials"]_vars

\* A session that has gone stale with credentials set is started afresh, even
\* when a request to the cloud hangs for ever, as long as nobody pauses it.
StaleSessionRestarted ==
    (creds /\ age = STALE_S) ~>
      (~creds \/ age < STALE_S \/ Yielding \/ \E l \in Loops : loop[l].pc = "ready")
=============================================================================

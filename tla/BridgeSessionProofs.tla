------------------------- MODULE BridgeSessionProofs -------------------------
(***************************************************************************)
(* Theorems about the cloud session of the bridge, for any number of       *)
(* poller tasks, RPC connections and requests.                             *)
(*                                                                         *)
(* SessionInv is not inductive: the state's client is that of the poller   *)
(* which started last, and the handle names the one that was created last. *)
(* The two agree because asyncio starts tasks in the order of their        *)
(* creation, so that none is left to start once the newest runs            *)
(* (LastOneStarts); and whoever takes the client away cancels the poller.  *)
(***************************************************************************)
EXTENDS BridgeSession, TLAPS

-----------------------------------------------------------------------------
(* The invariant, in two parts: what concerns tasks, and the rest          *)

TaskPcs == {"none", "ready"} \cup Sleeping \cup InHttp

Task == [pc : TaskPcs, clock : Nat, sent : Tokens, got : Answers \cup {"none"},
         subscribed : BOOLEAN]

\* Its clock will be the age of the telemetry.
InTime(r) == r.pc \in {"props", "relogin"} => r.clock <= STALE_S

LastOneStarts ==
  handle \in Running => \A k \in Loops \ {handle} : ~Runs(k, {"ready"})

TasksInv ==
  /\ loop \in [Loops -> Task]
  /\ \A l \in Loops : InTime(loop[l])
  /\ cancelled \subseteq Live /\ handle \in Loops \cup {None} /\ client \in Loops \cup {None}
  /\ LastOneStarts /\ RunningLoopHasClient /\ SignedOutMeansStopped

\* Credentials are probed and saved by one method only, packs asked for by one.
RequestPcs ==
  {"idle", "close", "join"}
    \cup (IF "set_credentials" \in Methods THEN {"probe", "save"} ELSE {})
    \cup (IF "get_battery_packs" \in Methods THEN {"login", "fetch"} ELSE {})

Request0 == [op : Methods \cup {"none"}, pc : RequestPcs, on : Loops \cup {None}, sent : Tokens]

Watch == [pc : {"sleep", "join", "close"}, on : Loops \cup {None},
          check : 0 .. CHECK_S, since : 0 .. MIN_RESTART_S]

FlagsOK == saved \in BOOLEAN /\ creds \in BOOLEAN /\ listed \in BOOLEAN /\ force \in BOOLEAN
CloudOK == token \in [Loops -> Tokens] /\ realtime \subseteq Loops /\ age \in 0 .. STALE_S
TimersOK ==
  /\ pauseLeft \in Nat /\ contestedLeft \in Nat /\ cooldown \in Nat /\ requests \in Nat
  /\ watchdog \in Watch

RestInv == FlagsOK /\ CloudOK /\ TimersOK /\ rpc \in [Handlers -> Request0]

IndSession == TasksInv /\ RestInv

LEMMA IndImplies ==
  ASSUME IndSession PROVE SessionInv
  BY DEF IndSession, TasksInv, RestInv, FlagsOK, CloudOK, TimersOK, SessionInv,
         SessionTypeOK, Task, TaskPcs, Watch, Request0, RequestPcs

-----------------------------------------------------------------------------
(* The records                                                             *)

LEMMA Constants ==
  /\ None \notin Loops
  /\ STALE_S \in Nat /\ STALE_S > 0 /\ CHECK_S \in Nat /\ MIN_RESTART_S \in Nat
  /\ POLL_S \in Nat /\ BACKOFF_S \in Nat /\ PAUSE_S \in Nat
  /\ COOLDOWN_S \in Nat /\ COOLDOWN_CAP_S \in Nat /\ MaxRequests \in Nat
  BY SessionAssumption DEF SessionAssumption

LEMMA NewTaskType ==
  /\ NoTask \in Task /\ NewTask \in Task
  /\ NoTask.pc = "none" /\ NewTask.pc = "ready"
  /\ NewTask.subscribed = FALSE
  BY DEF NoTask, NewTask, Task, TaskPcs, Tokens

LEMMA AwaitType ==
  ASSUME NEW r \in Task, NEW pc \in TaskPcs, NEW clock \in Nat, NEW sent \in Tokens
  PROVE  /\ Await(r, pc, clock, sent) \in Task
         /\ Await(r, pc, clock, sent).pc = pc
         /\ Await(r, pc, clock, sent).clock = clock
         /\ Await(r, pc, clock, sent).sent = sent
         /\ Await(r, pc, clock, sent).got = r.got
         /\ Await(r, pc, clock, sent).subscribed = r.subscribed
<1> DEFINE r1 == [r EXCEPT !.pc = pc]
           r2 == [r1 EXCEPT !.clock = clock]
           r3 == [r2 EXCEPT !.sent = sent]
<1>1. r1 \in Task /\ r1.pc = pc /\ r1.got = r.got /\ r1.subscribed = r.subscribed
  BY DEF Task
<1>2. Await(r, pc, clock, sent) = r3
  BY DEF Await
<1> HIDE DEF r1
<1>3. r2 \in Task /\ r2.pc = pc /\ r2.clock = clock /\ r2.got = r.got
      /\ r2.subscribed = r.subscribed
  BY <1>1 DEF Task
<1> HIDE DEF r2
<1>4. r3 \in Task /\ r3.pc = pc /\ r3.clock = clock /\ r3.sent = sent /\ r3.got = r.got
      /\ r3.subscribed = r.subscribed
  BY <1>3 DEF Task
<1> QED
  BY <1>2, <1>4

LEMMA GotType ==
  ASSUME NEW r \in Task, NEW got \in Answers \cup {"none"}
  PROVE  LET s == [r EXCEPT !.got = got] IN
         /\ s \in Task /\ s.pc = r.pc /\ s.clock = r.clock /\ s.sent = r.sent
         /\ s.got = got /\ s.subscribed = r.subscribed
  BY DEF Task

LEMMA SubscribedType ==
  ASSUME NEW r \in Task, NEW b \in BOOLEAN
  PROVE  LET s == [r EXCEPT !.subscribed = b] IN
         /\ s \in Task /\ s.pc = r.pc /\ s.clock = r.clock /\ s.sent = r.sent
         /\ s.got = r.got /\ s.subscribed = b
  BY DEF Task

LEMMA StaleType ==
  ASSUME NEW t \in Tokens
  PROVE  Stale(t) \in Tokens /\ (Stale(t) = "none" <=> t = "none") /\ Stale(t) # "valid"
  BY DEF Stale, Tokens

LEMMA FirstType ==
  ASSUME NEW r \in Task, NEW t \in Tokens
  PROVE  LET s == FirstRequest(r, t) IN
         /\ s \in Task /\ s.pc \in {"list", "props"} /\ s.clock = 0
         /\ s.subscribed = r.subscribed
<1> DEFINE pc == IF listed THEN "props" ELSE "list"
           s == Await(r, pc, 0, t)
<1>1. pc \in TaskPcs /\ 0 \in Nat /\ pc \in {"list", "props"}
  BY DEF TaskPcs, InHttp
<1>2. s \in Task /\ s.pc = pc /\ s.clock = 0 /\ s.subscribed = r.subscribed
  <2> HIDE DEF pc
  <2> QED BY <1>1, AwaitType
<1>3. FirstRequest(r, t) = [s EXCEPT !.got = "none"]
  BY DEF FirstRequest
<1> HIDE DEF s, pc
<1> QED
  BY <1>1, <1>2, <1>3, GotType

LEMMA TopType ==
  ASSUME NEW r \in Task, NEW t \in Tokens
  PROVE  LET s == TopOfLoop(r, t) IN
         /\ s \in Task /\ s.pc \in {"hold", "login", "list", "props"} /\ s.clock = 0
         /\ s.subscribed = r.subscribed
         /\ s.pc = "login" => t = "none" /\ ~Yielding
         /\ s.pc \in {"list", "props"} => t # "none"
<1>1. {"hold", "login"} \subseteq TaskPcs /\ 0 \in Nat /\ "none" \in Tokens
  BY DEF TaskPcs, Sleeping, InHttp, Tokens
<1>2. CASE Yielding
  <2>1. TopOfLoop(r, t) = Await(r, "hold", 0, "none")
    BY <1>2 DEF TopOfLoop
  <2> QED
    BY <1>1, <2>1, AwaitType, SMTT(30)
<1>3. CASE ~Yielding /\ t = "none"
  <2>1. TopOfLoop(r, t) = Await(r, "login", 0, "none")
    BY <1>3 DEF TopOfLoop
  <2> QED
    BY <1>1, <1>3, <2>1, AwaitType
<1>4. CASE ~Yielding /\ t # "none"
  <2>1. TopOfLoop(r, t) = FirstRequest(r, t)
    BY <1>4 DEF TopOfLoop
  <2> QED
    BY <1>4, <2>1, FirstType
<1> QED
  BY <1>2, <1>3, <1>4

LEMMA NextType ==
  ASSUME NEW r \in Task, NEW t \in Tokens
  PROVE  LET s == NextRequest(r, t) IN
         /\ s \in Task /\ s.pc \in {"relogin", "props"} /\ s.clock = r.clock
         /\ s.subscribed = r.subscribed
         /\ s.pc = "relogin" <=> t = "none"
<1>1. {"relogin", "props"} \subseteq TaskPcs /\ r.clock \in Nat /\ "none" \in Tokens
  BY DEF TaskPcs, InHttp, Tokens, Task
<1>2. CASE t = "none"
  <2>1. NextRequest(r, t) = Await(r, "relogin", r.clock, "none")
    BY <1>2 DEF NextRequest
  <2> QED
    BY <1>1, <1>2, <2>1, AwaitType
<1>3. CASE t # "none"
  <2>1. NextRequest(r, t) = Await(r, "props", r.clock, t)
    BY <1>3 DEF NextRequest
  <2> QED
    BY <1>1, <1>3, <2>1, AwaitType
<1> QED
  BY <1>2, <1>3

\* A login changes tokens, and nothing else.
LEMMA LoopsLoginType ==
  ASSUME loop \in [Loops -> Task]
  PROVE  /\ LoopsAfterLogin \in [Loops -> Task]
         /\ \A l \in Loops : /\ LoopsAfterLogin[l].pc = loop[l].pc
                             /\ LoopsAfterLogin[l].clock = loop[l].clock
                             /\ LoopsAfterLogin[l].subscribed = loop[l].subscribed
  BY StaleType DEF LoopsAfterLogin, Task

LEMMA RpcsLoginType ==
  ASSUME rpc \in [Handlers -> Request0]
  PROVE  /\ RpcsAfterLogin \in [Handlers -> Request0]
         /\ \A h \in Handlers : /\ RpcsAfterLogin[h].pc = rpc[h].pc
                                /\ RpcsAfterLogin[h].on = rpc[h].on
                                /\ RpcsAfterLogin[h].op = rpc[h].op
  BY StaleType DEF RpcsAfterLogin, Request0

LEMMA TokensLoginType ==
  ASSUME token \in [Loops -> Tokens], NEW k
  PROVE  /\ TokensAfterLogin(k) \in [Loops -> Tokens]
         /\ \A l \in Loops : TokensAfterLogin(k)[l] = "none" => token[l] = "none"
         /\ \A l \in Loops \ {k} : token[l] = "none" => TokensAfterLogin(k)[l] = "none"
  BY StaleType DEF TokensAfterLogin, Tokens

LEMMA AnsweredType ==
  ASSUME loop \in [Loops -> Task], NEW l \in Loops, NEW answer \in Answers
  PROVE  Answered(l, answer) \in Answers \cup {"none"}
<1>1. loop[l].got \in Answers \cup {"none"}
  BY DEF Task
<1>2. CASE loop[l].got = "active"
  BY <1>1, <1>2 DEF Answered
<1>3. CASE loop[l].got # "active"
  BY <1>1, <1>3 DEF Answered
<1> QED
  BY <1>2, <1>3

-----------------------------------------------------------------------------
(* What a step may do to the tasks                                         *)

\* Tasks go on as they are, or from one await to the next.
LEMMA TasksGoOn ==
  ASSUME TasksInv, loop' \in [Loops -> Task],
         \A l \in Loops : /\ InTime(loop'[l])
                          /\ loop'[l].pc \in {"none", "ready"} <=> loop[l].pc \in {"none", "ready"}
                          /\ loop'[l].pc \in {"none", "ready"} => loop'[l].pc = loop[l].pc,
         creds' \in {creds, TRUE}, UNCHANGED <<cancelled, handle, client>>
  PROVE  TasksInv'
<1>1. \A l \in Loops : /\ loop'[l].pc = "none" <=> loop[l].pc = "none"
                       /\ loop'[l].pc = "ready" <=> loop[l].pc = "ready"
  OBVIOUS
<1>2. Live' = Live
  BY <1>1 DEF Live
<1>3. Started' = Started
  BY <1>1, <1>2 DEF Started, Live
<1>4. Live' = Live /\ Started' = Started /\ Running' = Running
  BY <1>2, <1>3 DEF Running
<1>5. \A k \in Loops : loop'[k].pc = "ready" /\ k \notin cancelled' <=> Runs(k, {"ready"})
  BY <1>1 DEF Runs
<1>6. LastOneStarts'
  BY <1>4, <1>5 DEF LastOneStarts, TasksInv, Runs
<1>7. RunningLoopHasClient' /\ SignedOutMeansStopped'
  BY <1>4 DEF RunningLoopHasClient, SignedOutMeansStopped, TasksInv
<1> QED
  BY <1>4, <1>6, <1>7 DEF TasksInv

LEMMA TaskMoves ==
  ASSUME TasksInv, NEW l \in Loops, NEW r \in Task, InTime(r),
         r.pc \notin {"none", "ready"}, loop[l].pc \notin {"none", "ready"},
         loop' = [loop EXCEPT ![l] = r],
         UNCHANGED <<creds, cancelled, handle, client>>
  PROVE  TasksInv'
<1>1. loop' \in [Loops -> Task]
  BY DEF TasksInv
<1>2. \A k \in Loops : loop'[k] = IF k = l THEN r ELSE loop[k]
  BY DEF TasksInv
<1>3. \A k \in Loops : InTime(loop[k])
  BY DEF TasksInv
<1> QED
  BY <1>1, <1>2, <1>3, TasksGoOn

\* The tasks stay, and the handle's is cancelled if it is not done.
LEMMA HandleStops ==
  ASSUME TasksInv, CancelHandle, UNCHANGED <<loop, handle>>,
         client' \in Loops \cup {None}
  PROVE  TasksInv' /\ handle \notin Running'
<1>1. cancelled' \subseteq cancelled \cup {handle} /\ cancelled \subseteq cancelled'
  BY DEF CancelHandle
<1>2. CASE HandleDone
  <2>1. cancelled' = cancelled /\ handle \notin Live
    BY <1>2, Constants DEF CancelHandle, HandleDone, Live
  <2>2. handle' \notin Running' /\ handle \notin Running' /\ Live' = Live
    BY <2>1 DEF Running, Started, Live
  <2> QED
    BY <2>1, <2>2 DEF TasksInv, LastOneStarts, RunningLoopHasClient, SignedOutMeansStopped
<1>3. CASE ~HandleDone
  <2>1. handle \in Live /\ cancelled' = cancelled \cup {handle}
    BY <1>3 DEF CancelHandle, HandleDone, Live, TasksInv
  <2>2. handle' \notin Running' /\ handle \notin Running' /\ Live' = Live
    BY <2>1 DEF Running, Started, Live
  <2> QED
    BY <2>1, <2>2 DEF TasksInv, LastOneStarts, RunningLoopHasClient, SignedOutMeansStopped
<1> QED
  BY <1>2, <1>3

\* A new task is ready, and nothing runs under its handle.
LEMMA TaskCreated ==
  ASSUME TasksInv, RestInv, NEW c, CreateLoop(c), UNCHANGED cancelled,
         client' \in Loops \cup {None}
  PROVE  /\ TasksInv' /\ handle' \notin Running'
         /\ token' \in [Loops -> Tokens] /\ realtime' \subseteq Loops
<1>1. PICK l \in Free(c) : /\ loop' = [loop EXCEPT ![l] = NewTask] /\ handle' = l
                           /\ token' = [token EXCEPT ![l] = "none"]
                           /\ realtime' = realtime \ {l}
  BY DEF CreateLoop
<1>2. l \in Loops /\ loop[l].pc = "none" /\ l \notin cancelled
  BY <1>1 DEF Free, TasksInv, Live
<1>3. loop' \in [Loops -> Task] /\ loop'[l] = NewTask /\ \A k \in Loops \ {l} : loop'[k] = loop[k]
  BY <1>1, <1>2, NewTaskType DEF TasksInv
<1>4. \A k \in Loops : InTime(loop'[k])
  BY <1>3, NewTaskType DEF InTime, TasksInv
<1>5. cancelled' \subseteq Live'
  BY <1>2, <1>3 DEF TasksInv, Live
<1>6. handle' \notin Running'
  BY <1>1, <1>3, NewTaskType DEF Running, Started
<1>7. TasksInv'
  BY <1>1, <1>2, <1>3, <1>4, <1>5, <1>6
  DEF TasksInv, LastOneStarts, RunningLoopHasClient, SignedOutMeansStopped
<1>8. token' \in [Loops -> Tokens] /\ realtime' \subseteq Loops
  BY <1>1, <1>2 DEF RestInv, CloudOK, Tokens
<1> QED
  BY <1>6, <1>7, <1>8

-----------------------------------------------------------------------------
LEMMA SessionInit == ASSUME Init PROVE IndSession
<1>1. loop \in [Loops -> Task] /\ \A l \in Loops : loop[l].pc \in {"none", "ready"}
  BY NewTaskType DEF Init
<1>2. TasksInv
  BY <1>1 DEF Init, TasksInv, InTime, LastOneStarts, RunningLoopHasClient,
              SignedOutMeansStopped, Running, Started, Live
<1>3. FlagsOK
  BY DEF Init, FlagsOK
<1>4. CloudOK
  BY Constants DEF Init, CloudOK, Tokens
<1>5. TimersOK
  BY Constants DEF Init, TimersOK, Watch
<1>6. rpc \in [Handlers -> Request0]
  BY DEF Init, Request0, RequestPcs, NoRpc, Tokens
<1> QED
  BY <1>2, <1>3, <1>4, <1>5, <1>6 DEF IndSession, RestInv

-----------------------------------------------------------------------------
(* The poller                                                              *)

LEMMA StartType ==
  ASSUME IndSession, NEW l \in Loops, LoopStart(l) PROVE IndSession'
<1> DEFINE r == TopOfLoop(loop[l], "none")
<1>1. loop \in [Loops -> Task] /\ loop[l] \in Task /\ "none" \in Tokens
      /\ loop[l].pc = "ready" /\ l \notin cancelled
  BY DEF IndSession, TasksInv, LoopStart, Runs, Tokens
<1>2. CASE creds
  <2>1. r \in Task /\ r.pc \notin {"none", "ready"} /\ r.clock = 0
    BY <1>1, TopType
  <2>2. loop' = [loop EXCEPT ![l] = r] /\ client' = l /\ realtime' \subseteq realtime
    BY <1>2 DEF LoopStart, Step
  <2> HIDE DEF r
  <2>3. loop' \in [Loops -> Task] /\ loop'[l] = r /\ \A k \in Loops \ {l} : loop'[k] = loop[k]
    BY <1>1, <2>1, <2>2
  <2>4. \A k \in Loops : InTime(loop'[k])
    BY <2>1, <2>3, Constants DEF InTime, IndSession, TasksInv
  <2>5. Live' = Live
    BY <1>1, <2>1, <2>3 DEF Live
  <2>6. cancelled' = cancelled /\ handle' = handle /\ creds' = creds
    BY DEF LoopStart, credVars
  <2>7. Running' = Running \cup {l}
    BY <1>1, <2>1, <2>3, <2>5, <2>6 DEF Running, Started, Live
  <2>8. ASSUME l = handle PROVE TasksInv'
    <3>1. \A k \in Loops \ {l} : ~(loop[k].pc = "ready" /\ k \notin cancelled)
      BY <2>8 DEF LoopStart, Runs
    <3>2. LastOneStarts'
      BY <2>3, <2>6, <2>8, <3>1 DEF LastOneStarts, Runs
    <3> QED
      BY <1>2, <2>2, <2>3, <2>4, <2>5, <2>6, <2>8, <3>2
      DEF IndSession, TasksInv, RunningLoopHasClient, SignedOutMeansStopped
  <2>9. ASSUME l # handle PROVE TasksInv'
    <3>1. handle \notin Running
      BY <1>1, <2>9 DEF IndSession, TasksInv, LastOneStarts, Runs
    <3> QED
      BY <2>2, <2>3, <2>4, <2>5, <2>6, <2>7, <2>9, <3>1
      DEF IndSession, TasksInv, RunningLoopHasClient, SignedOutMeansStopped, LastOneStarts
  <2>10. TasksInv'
    BY <2>8, <2>9
  <2> QED
    BY <2>10, <2>2 DEF LoopStart, IndSession, RestInv, FlagsOK, CloudOK, TimersOK, credVars, timerVars
<1>3. CASE ~creds
  <2>1. loop' = [loop EXCEPT ![l] = NoTask] /\ client' = client /\ realtime' \subseteq realtime
        /\ cancelled' = cancelled /\ handle' = handle /\ creds' = creds
    BY <1>3 DEF LoopStart, Step, credVars
  <2>2. loop' \in [Loops -> Task] /\ loop'[l] = NoTask /\ \A k \in Loops \ {l} : loop'[k] = loop[k]
    BY <1>1, <2>1, NewTaskType
  <2>3. \A k \in Loops : InTime(loop'[k])
    BY <2>2, NewTaskType DEF InTime, IndSession, TasksInv
  <2>4. Live' = Live \ {l}
    BY <2>2, NewTaskType DEF Live
  <2>5. Running' = Running
    BY <1>1, <2>1, <2>2, <2>4, NewTaskType DEF Running, Started
  <2>6. LastOneStarts'
    BY <2>1, <2>2, <2>5, NewTaskType DEF LastOneStarts, Runs, IndSession, TasksInv
  <2>7. TasksInv'
    BY <1>1, <2>1, <2>2, <2>3, <2>4, <2>5, <2>6
    DEF IndSession, TasksInv, RunningLoopHasClient, SignedOutMeansStopped
  <2> QED
    BY <2>1, <2>7 DEF LoopStart, IndSession, RestInv, FlagsOK, CloudOK, TimersOK, credVars, timerVars
<1> QED
  BY <1>2, <1>3

\* A task that runs goes to its next await; nobody else's state changes.
LEMMA StepType ==
  ASSUME IndSession, NEW l \in Loops, NEW r \in Task, InTime(r),
         r.pc \notin {"none", "ready"}, loop[l].pc \notin {"none", "ready"},
         Step(l, r), UNCHANGED <<creds, cancelled, handle, client>>
  PROVE  TasksInv' /\ realtime' \subseteq Loops
<1>1. loop' = [loop EXCEPT ![l] = r] /\ realtime' \subseteq Loops
  BY DEF Step, IndSession, RestInv, CloudOK
<1> QED
  BY <1>1, TaskMoves DEF IndSession

LEMMA WakeType ==
  ASSUME IndSession, NEW l \in Loops, LoopWake(l) PROVE IndSession'
<1> DEFINE r == TopOfLoop(loop[l], token[l])
<1>1. loop[l] \in Task /\ token[l] \in Tokens /\ loop[l].pc \notin {"none", "ready"}
  BY DEF IndSession, TasksInv, RestInv, CloudOK, LoopWake, Runs, Sleeping
<1>2. r \in Task /\ r.pc \notin {"none", "ready"} /\ r.clock = 0
  BY <1>1, TopType
<1>3. Step(l, r) /\ UNCHANGED <<creds, cancelled, handle, client>>
  BY DEF LoopWake, credVars
<1> HIDE DEF r
<1>4. InTime(r)
  BY <1>2, Constants DEF InTime
<1>5. TasksInv' /\ realtime' \subseteq Loops
  BY <1>1, <1>2, <1>3, <1>4, StepType
<1>6. force' \in BOOLEAN
  BY DEF LoopWake, IndSession, RestInv, FlagsOK
<1> QED
  BY <1>5, <1>6 DEF LoopWake, IndSession, RestInv, FlagsOK, CloudOK, TimersOK, credVars, timerVars

LEMMA LoginType ==
  ASSUME IndSession, NEW l \in Loops, LoopLogin(l) PROVE IndSession'
<1> DEFINE r == IF loop[l].pc = "relogin" THEN NextRequest(loop[l], "valid")
                ELSE [FirstRequest(loop[l], "valid") EXCEPT !.subscribed = FALSE]
<1>1. loop \in [Loops -> Task] /\ loop[l] \in Task /\ "valid" \in Tokens
      /\ loop[l].pc \in {"login", "relogin"}
  BY DEF IndSession, TasksInv, LoopLogin, Runs, Tokens
<1>2. r \in Task /\ r.pc \notin {"none", "ready"} /\ InTime(r)
  <2>1. CASE loop[l].pc = "relogin"
    <3>1. r = NextRequest(loop[l], "valid") /\ loop[l].clock <= STALE_S
      BY <2>1 DEF IndSession, TasksInv, InTime
    <3>2. /\ NextRequest(loop[l], "valid") \in Task
          /\ NextRequest(loop[l], "valid").pc \in {"relogin", "props"}
          /\ NextRequest(loop[l], "valid").clock = loop[l].clock
      BY <1>1, NextType
    <3> HIDE DEF r
    <3> QED
      BY <3>1, <3>2 DEF InTime
  <2>2. CASE loop[l].pc # "relogin"
    <3> DEFINE s == FirstRequest(loop[l], "valid")
    <3>1. s \in Task /\ s.pc \in {"list", "props"} /\ s.clock = 0
      BY <1>1, FirstType
    <3>2. r = [s EXCEPT !.subscribed = FALSE]
      BY <2>2
    <3> HIDE DEF s, r
    <3>3. r \in Task /\ r.pc = s.pc /\ r.clock = s.clock
      BY <3>1, <3>2, SubscribedType
    <3> QED
      BY <3>1, <3>3, Constants DEF InTime
  <2> QED
    BY <2>1, <2>2
<1>3. loop' = [LoopsAfterLogin EXCEPT ![l] = r]
  BY DEF LoopLogin
<1> HIDE DEF r
<1>4. loop' \in [Loops -> Task] /\ loop'[l] = r
      /\ \A k \in Loops \ {l} : /\ loop'[k].pc = loop[k].pc /\ loop'[k].clock = loop[k].clock
  BY <1>1, <1>2, <1>3, LoopsLoginType
<1>5. \A k \in Loops : InTime(loop'[k])
  BY <1>2, <1>4 DEF InTime, IndSession, TasksInv
<1>6. TasksInv'
  BY <1>1, <1>2, <1>4, <1>5, TasksGoOn DEF LoopLogin, credVars, IndSession
<1>7. token' \in [Loops -> Tokens] /\ rpc' \in [Handlers -> Request0]
  BY TokensLoginType, RpcsLoginType DEF LoopLogin, IndSession, RestInv, CloudOK
<1> QED
  BY <1>6, <1>7 DEF LoopLogin, IndSession, RestInv, FlagsOK, CloudOK, TimersOK, credVars, timerVars

LEMMA ListedType ==
  ASSUME IndSession, NEW l \in Loops, LoopListed(l) PROVE IndSession'
<1> DEFINE r0 == [loop[l] EXCEPT !.clock = 0]
           r == NextRequest(r0, token[l])
<1>1. loop[l] \in Task /\ token[l] \in Tokens /\ loop[l].pc \notin {"none", "ready"}
  BY DEF IndSession, TasksInv, RestInv, CloudOK, LoopListed, Runs
<1>2. r0 \in Task /\ r0.clock = 0
  BY <1>1 DEF Task
<1>3. Step(l, r) /\ UNCHANGED <<creds, cancelled, handle, client>>
  BY DEF LoopListed
<1> HIDE DEF r0
<1>4. r \in Task /\ r.pc \notin {"none", "ready"} /\ r.clock = 0
  BY <1>1, <1>2, NextType
<1> HIDE DEF r
<1>5. InTime(r)
  BY <1>4, Constants DEF InTime
<1>6. TasksInv' /\ realtime' \subseteq Loops
  BY <1>1, <1>3, <1>4, <1>5, StepType
<1> QED
  BY <1>6 DEF LoopListed, IndSession, RestInv, FlagsOK, CloudOK, TimersOK, timerVars

LEMMA NextDeviceType ==
  ASSUME IndSession, NEW l \in Loops, NEW answer \in Answers, LoopNextDevice(l, answer)
  PROVE  IndSession'
<1> DEFINE got == Answered(l, answer)
           r0 == [loop[l] EXCEPT !.got = got]
           r == NextRequest(r0, token[l])
<1>1. loop[l] \in Task /\ token[l] \in Tokens /\ loop[l].pc \in {"props", "relogin"}
      /\ loop[l].clock <= STALE_S
  BY DEF IndSession, TasksInv, RestInv, CloudOK, LoopNextDevice, CanAnswer, Runs, InTime
<1>2. got \in Answers \cup {"none"}
  BY AnsweredType DEF IndSession, TasksInv
<1>3. Step(l, r) /\ UNCHANGED <<creds, cancelled, handle, client>>
  BY DEF LoopNextDevice, credVars
<1> HIDE DEF got
<1>4. r0 \in Task /\ r0.clock = loop[l].clock
  BY <1>1, <1>2, GotType
<1> HIDE DEF r0
<1>5. r \in Task /\ r.pc \notin {"none", "ready"} /\ r.clock = loop[l].clock
  BY <1>1, <1>4, NextType
<1> HIDE DEF r
<1>6. InTime(r)
  BY <1>1, <1>5 DEF InTime
<1>7. TasksInv' /\ realtime' \subseteq Loops
  BY <1>1, <1>3, <1>5, <1>6, StepType
<1> QED
  BY <1>7 DEF LoopNextDevice, IndSession, RestInv, FlagsOK, CloudOK, TimersOK, credVars, timerVars

LEMMA PolledType ==
  ASSUME IndSession, NEW l \in Loops, NEW answer \in Answers, LoopPolled(l, answer)
  PROVE  IndSession'
<1> DEFINE got == Answered(l, answer)
           r0 == Await(loop[l], "idle", POLL_S, "none")
           r1 == [r0 EXCEPT !.got = got]
<1>1. PICK b \in {loop[l].subscribed, TRUE} :
        /\ loop' = [loop EXCEPT ![l] = [Await(@, "idle", POLL_S, "none") EXCEPT
                                          !.got = got, !.subscribed = b]]
        /\ realtime' = IF b /\ ~loop[l].subscribed THEN realtime \cup {l} ELSE realtime
  BY DEF LoopPolled
<1> DEFINE r == [r1 EXCEPT !.subscribed = b]
<1>2. loop \in [Loops -> Task] /\ loop[l] \in Task /\ loop[l].pc \in {"props", "relogin"}
      /\ loop[l].clock \in Nat /\ loop[l].clock <= STALE_S /\ b \in BOOLEAN
  BY <1>1 DEF IndSession, TasksInv, LoopPolled, CanAnswer, Runs, InTime, Task
<1>3. loop' = [loop EXCEPT ![l] = r]
  BY <1>1, <1>2
<1>4. got \in Answers \cup {"none"}
  BY AnsweredType DEF IndSession, TasksInv
<1>5. r0 \in Task /\ r0.pc = "idle"
  <2>1. "idle" \in TaskPcs /\ "none" \in Tokens
    BY DEF TaskPcs, Sleeping, Tokens
  <2> QED
    BY <1>2, <2>1, AwaitType, Constants, SMTT(30)
<1> HIDE DEF got, r0
<1>6. r1 \in Task /\ r1.pc = "idle"
  BY <1>4, <1>5, GotType
<1> HIDE DEF r1
<1>7. r \in Task /\ r.pc = "idle"
  BY <1>2, <1>6, SubscribedType
<1> HIDE DEF r
<1>8. TasksInv'
  BY <1>2, <1>3, <1>7, TaskMoves DEF InTime, LoopPolled, credVars, IndSession
<1>9. age' \in 0 .. STALE_S /\ cooldown' \in Nat /\ realtime' \subseteq Loops
  BY <1>1, <1>2 DEF LoopPolled, IndSession, RestInv, CloudOK, TimersOK
<1> QED
  BY <1>8, <1>9 DEF LoopPolled, IndSession, RestInv, FlagsOK, CloudOK, TimersOK, credVars

LEMMA DropType ==
  ASSUME NEW t \in [Loops -> Tokens]
  PROVE  DropToken(t) \in [Loops -> Tokens]
  BY DEF DropToken, Tokens

LEMMA ContestedType ==
  ASSUME IndSession, NEW l \in Loops, LoopContested(l) PROVE IndSession'
<1> DEFINE r == Await(loop[l], "hold", 0, "none")
           t == [token EXCEPT ![l] = "none"]
<1>1. loop[l] \in Task /\ loop[l].pc \notin {"none", "ready"} /\ token \in [Loops -> Tokens]
  BY DEF IndSession, TasksInv, RestInv, CloudOK, LoopContested, Runs
<1>2. r \in Task /\ r.pc = "hold"
  <2>1. "hold" \in TaskPcs /\ 0 \in Nat /\ "none" \in Tokens
    BY DEF TaskPcs, Sleeping, Tokens
  <2> QED
    BY <1>1, <2>1, AwaitType, SMTT(30)
<1>3. Step(l, r) /\ UNCHANGED <<creds, cancelled, handle, client>> /\ token' = DropToken(t)
  BY DEF LoopContested, credVars
<1>4. t \in [Loops -> Tokens]
  BY <1>1 DEF Tokens
<1> HIDE DEF r, t
<1>5. TasksInv' /\ realtime' \subseteq Loops
  BY <1>1, <1>2, <1>3, StepType DEF InTime
<1>6. token' \in [Loops -> Tokens]
  BY <1>3, <1>4, DropType
<1>7. cooldown' \in Nat /\ contestedLeft' \in Nat
  BY Constants DEF LoopContested, Doubled, Min2, IndSession, RestInv, TimersOK
<1> QED
  BY <1>5, <1>6, <1>7
  DEF LoopContested, IndSession, RestInv, FlagsOK, CloudOK, TimersOK, credVars

LEMMA ErrorType ==
  ASSUME IndSession, NEW l \in Loops, LoopError(l) PROVE IndSession'
<1> DEFINE r == Await(loop[l], "backoff", BACKOFF_S, "none")
<1>1. loop[l] \in Task /\ loop[l].pc \notin {"none", "ready"} /\ token \in [Loops -> Tokens]
  BY DEF IndSession, TasksInv, RestInv, CloudOK, LoopError, Runs
<1>2. r \in Task /\ r.pc = "backoff"
  <2> DEFINE pc == "backoff"
             sent == "none"
  <2>1. pc \in TaskPcs /\ sent \in Tokens /\ BACKOFF_S \in Nat /\ pc = "backoff"
    BY Constants DEF TaskPcs, Sleeping, Tokens
  <2>2. r = Await(loop[l], pc, BACKOFF_S, sent)
    OBVIOUS
  <2> HIDE DEF r, pc, sent
  <2>3. loop[l] \in Task
    BY <1>1
  <2>4. Await(loop[l], pc, BACKOFF_S, sent) \in Task /\ Await(loop[l], pc, BACKOFF_S, sent).pc = pc
    BY <2>1, <2>3, AwaitType
  <2> QED
    BY <2>1, <2>2, <2>4
<1>3. Step(l, r) /\ UNCHANGED <<creds, cancelled, handle, client>>
  BY DEF LoopError, credVars
<1> HIDE DEF r
<1>4. TasksInv' /\ realtime' \subseteq Loops
  BY <1>1, <1>2, <1>3, StepType DEF InTime
<1>5. token' \in [Loops -> Tokens]
  BY <1>1, DropType DEF LoopError
<1> QED
  BY <1>4, <1>5
  DEF LoopError, IndSession, RestInv, FlagsOK, CloudOK, TimersOK, credVars, timerVars

LEMMA CancelledType ==
  ASSUME IndSession, NEW l \in Loops, LoopCancelled(l) PROVE IndSession'
<1>1. loop \in [Loops -> Task] /\ loop' = [loop EXCEPT ![l] = NoTask]
      /\ cancelled' = cancelled \ {l} /\ l \in cancelled
      /\ UNCHANGED <<handle, client, creds>>
  BY DEF LoopCancelled, IndSession, TasksInv, credVars
<1>2. loop' \in [Loops -> Task] /\ loop'[l] = NoTask /\ \A k \in Loops \ {l} : loop'[k] = loop[k]
  BY <1>1, NewTaskType
<1>3. \A k \in Loops : InTime(loop'[k])
  BY <1>2, NewTaskType DEF InTime, IndSession, TasksInv
<1>4. Live' = Live \ {l}
  BY <1>2, NewTaskType DEF Live
<1>5. Running' = Running
  BY <1>1, <1>2, <1>4, NewTaskType DEF Running, Started, Live
<1>6. LastOneStarts'
  BY <1>1, <1>2, <1>5, NewTaskType DEF LastOneStarts, Runs, IndSession, TasksInv
<1>7. TasksInv'
  BY <1>1, <1>2, <1>3, <1>4, <1>5, <1>6
  DEF IndSession, TasksInv, RunningLoopHasClient, SignedOutMeansStopped
<1>8. token' \in [Loops -> Tokens]
  BY DEF LoopCancelled, IndSession, RestInv, CloudOK, Tokens
<1> QED
  BY <1>7, <1>8
  DEF LoopCancelled, IndSession, RestInv, FlagsOK, CloudOK, TimersOK, credVars, timerVars

\* Steps that leave the tasks alone.
LEMMA TasksStay ==
  ASSUME TasksInv, UNCHANGED taskVars, creds' \in {creds, TRUE}
  PROVE  TasksInv' /\ (CloudOK /\ age' \in 0 .. STALE_S => CloudOK')
<1>1. \A l \in Loops : InTime(loop'[l])
  BY DEF TasksInv, taskVars
<1> QED
  BY <1>1, TasksGoOn DEF TasksInv, taskVars, CloudOK

LEMMA PushType ==
  ASSUME IndSession, NEW l \in Loops, Push(l) PROVE IndSession'
<1>1. TasksInv' /\ CloudOK'
  BY TasksStay, Constants DEF Push, credVars, IndSession, RestInv
<1> QED
  BY <1>1 DEF Push, IndSession, RestInv, FlagsOK, TimersOK, credVars, timerVars

-----------------------------------------------------------------------------
(* The watchdog                                                            *)

LEMMA AsleepType ==
  ASSUME IndSession PROVE Asleep \in Watch /\ [Asleep EXCEPT !.since = 0] \in Watch
<1> DEFINE w1 == [watchdog EXCEPT !.pc = "sleep"]
           w2 == [w1 EXCEPT !.on = None]
           w3 == [w2 EXCEPT !.check = CHECK_S]
<1>1. watchdog \in Watch /\ CHECK_S \in 0 .. CHECK_S /\ 0 \in 0 .. MIN_RESTART_S
  BY Constants DEF IndSession, RestInv, TimersOK
<1>2. Asleep = w3
  BY <1>1 DEF Asleep, Watch
<1>3. w1 \in Watch
  BY <1>1 DEF Watch
<1> HIDE DEF w1
<1>4. w2 \in Watch
  BY <1>3 DEF Watch
<1> HIDE DEF w2
<1>5. w3 \in Watch
  BY <1>1, <1>4 DEF Watch
<1> HIDE DEF w3
<1>6. [w3 EXCEPT !.since = 0] \in Watch
  BY <1>1, <1>5 DEF Watch
<1> QED
  BY <1>2, <1>5, <1>6

\* It closes the client, if there is one, and makes a new task.
LEMMA WatchdogCloseType ==
  ASSUME IndSession, WatchdogClose, cancelled' = cancelled, UNCHANGED <<creds, client>>
  PROVE  /\ TasksInv' /\ token' \in [Loops -> Tokens] /\ realtime' \subseteq Loops
         /\ watchdog' \in Watch
<1>1. watchdog \in Watch
  BY DEF IndSession, RestInv, TimersOK
<1>2. CASE client # None
  <2>1. loop' = loop /\ handle' = handle /\ token' = token /\ realtime' \subseteq realtime
        /\ watchdog' = [watchdog EXCEPT !.pc = "close", !.on = None]
    BY <1>2 DEF WatchdogClose
  <2>2. \A l \in Loops : InTime(loop'[l])
    BY <2>1 DEF IndSession, TasksInv
  <2>3. TasksInv'
    BY <2>1, <2>2, TasksGoOn DEF IndSession, TasksInv
  <2>4. watchdog' \in Watch
    BY <1>1, <2>1 DEF Watch
  <2> QED
    BY <2>1, <2>3, <2>4 DEF IndSession, RestInv, CloudOK
<1>3. CASE client = None
  <2>1. CreateLoop(None) /\ watchdog' = [Asleep EXCEPT !.since = 0]
    BY <1>3 DEF WatchdogClose
  <2>2. watchdog' \in Watch
    BY <2>1, AsleepType
  <2> QED
    BY <1>3, <2>1, <2>2, TaskCreated DEF IndSession
<1> QED
  BY <1>2, <1>3

LEMMA CheckType ==
  ASSUME IndSession, WatchdogCheck PROVE IndSession'
<1> USE DEF WatchdogCheck, credVars, timerVars
<1>1. /\ TasksInv' /\ token' \in [Loops -> Tokens] /\ realtime' \subseteq Loops
      /\ watchdog' \in Watch
  <2>1. CASE RestartDue /\ HandleDone
    <3>1. cancelled' = cancelled /\ WatchdogClose
      BY <2>1 DEF CancelHandle
    <3> QED
      BY <3>1, WatchdogCloseType
  <2>2. CASE RestartDue /\ ~HandleDone
    <3>1. CancelHandle /\ UNCHANGED <<loop, handle, token, realtime>>
          /\ watchdog' = [watchdog EXCEPT !.pc = "join", !.on = handle]
      BY <2>2
    <3>2. TasksInv'
      BY <3>1, HandleStops DEF IndSession, TasksInv
    <3>3. watchdog' \in Watch
      BY <3>1 DEF Watch, IndSession, RestInv, TimersOK, TasksInv
    <3> QED
      BY <3>1, <3>2, <3>3 DEF IndSession, RestInv, CloudOK
  <2>3. CASE ~RestartDue
    <3>1. watchdog' = Asleep /\ UNCHANGED taskVars
      BY <2>3 DEF taskVars
    <3>2. TasksInv'
      BY <3>1, TasksStay DEF IndSession
    <3> QED
      BY <3>1, <3>2, AsleepType DEF IndSession, RestInv, CloudOK, taskVars
  <2> QED
    BY <2>1, <2>2, <2>3
<1> QED
  BY <1>1 DEF IndSession, RestInv, FlagsOK, CloudOK, TimersOK

LEMMA WatchdogJoinedType ==
  ASSUME IndSession, WatchdogJoined PROVE IndSession'
<1>1. WatchdogClose /\ cancelled' = cancelled /\ UNCHANGED <<creds, client>>
  BY DEF WatchdogJoined, credVars
<1> QED
  BY <1>1, WatchdogCloseType
  DEF WatchdogJoined, credVars, timerVars, IndSession, RestInv, FlagsOK, CloudOK, TimersOK

LEMMA WatchdogClosedType ==
  ASSUME IndSession, WatchdogClosed PROVE IndSession'
<1>1. CreateLoop(None) /\ UNCHANGED cancelled /\ client' = None
  BY DEF WatchdogClosed
<1>2. TasksInv' /\ token' \in [Loops -> Tokens] /\ realtime' \subseteq Loops
  BY <1>1, TaskCreated DEF IndSession
<1>3. watchdog' \in Watch
  BY AsleepType DEF WatchdogClosed
<1> QED
  BY <1>2, <1>3
  DEF WatchdogClosed, credVars, timerVars, IndSession, RestInv, FlagsOK, CloudOK, TimersOK

-----------------------------------------------------------------------------
(* The handlers                                                            *)

LEMMA AwaitsType ==
  ASSUME rpc \in [Handlers -> Request0], NEW h \in Handlers,
         NEW op \in Methods \cup {"none"}, NEW pc \in RequestPcs,
         NEW on \in Loops \cup {None}, NEW sent \in Tokens, Awaits(h, op, pc, on, sent)
  PROVE  rpc' \in [Handlers -> Request0]
  BY DEF Awaits, Request0, RequestPcs

LEMMA EndsType ==
  ASSUME rpc \in [Handlers -> Request0], NEW h \in Handlers, Ends(h)
  PROVE  rpc' \in [Handlers -> Request0]
  BY DEF Ends, NoRpc, Request0, RequestPcs, Tokens

LEMMA RequestCounts ==
  ASSUME IndSession, NEW m, Request(m)
  PROVE  m \in Methods /\ requests' \in Nat
  BY DEF Request, IndSession, RestInv, TimersOK

LEMMA CancelAndJoinType ==
  ASSUME IndSession, NEW h \in Handlers, NEW op \in Methods, CancelAndJoin(h, op),
         UNCHANGED <<loop, handle>>, client' \in Loops \cup {None}
  PROVE  TasksInv' /\ handle \notin Running' /\ rpc' \in [Handlers -> Request0]
<1>1. TasksInv' /\ handle \notin Running'
  BY HandleStops DEF CancelAndJoin, IndSession
<1>2. Awaits(h, op, "join", handle, "none") /\ handle \in Loops \cup {None} /\ "none" \in Tokens
      /\ "join" \in RequestPcs /\ op \in Methods \cup {"none"} /\ rpc \in [Handlers -> Request0]
  BY DEF CancelAndJoin, IndSession, TasksInv, RestInv, Tokens, RequestPcs
<1> QED
  BY <1>1, <1>2, AwaitsType

LEMMA BeginCloseType ==
  ASSUME IndSession, NEW h \in Handlers, NEW op \in Methods, BeginClose(h, op),
         client' = client, creds' \in {creds, TRUE}
  PROVE  /\ TasksInv' /\ token' \in [Loops -> Tokens] /\ realtime' \subseteq Loops
         /\ rpc' \in [Handlers -> Request0]
<1>1. UNCHANGED <<loop, cancelled, handle, token>> /\ realtime' \subseteq realtime
      /\ Awaits(h, op, "close", None, "none")
  BY DEF BeginClose
<1>2. \A l \in Loops : InTime(loop'[l])
  BY <1>1 DEF IndSession, TasksInv
<1>3. TasksInv'
  BY <1>1, <1>2, TasksGoOn DEF IndSession, TasksInv
<1>4. "none" \in Tokens /\ "close" \in RequestPcs /\ op \in Methods \cup {"none"}
      /\ rpc \in [Handlers -> Request0] /\ None \in Loops \cup {None}
  BY DEF IndSession, RestInv, Tokens, RequestPcs
<1>5. rpc' \in [Handlers -> Request0]
  BY <1>1, <1>4, AwaitsType
<1> QED
  BY <1>1, <1>3, <1>5 DEF IndSession, RestInv, CloudOK

LEMMA RestartPollerType ==
  ASSUME IndSession, NEW h \in Handlers, "set_credentials" \in Methods, RestartPoller(h),
         client' \in Loops \cup {None}
  PROVE  /\ TasksInv' /\ token' \in [Loops -> Tokens] /\ realtime' \subseteq Loops
         /\ rpc' \in [Handlers -> Request0]
<1>1. CASE HandleDone
  <2>1. CreateLoop(None) /\ Ends(h) /\ UNCHANGED cancelled
    BY <1>1 DEF RestartPoller
  <2>2. rpc' \in [Handlers -> Request0]
    BY <2>1, EndsType DEF IndSession, RestInv
  <2> QED
    BY <2>1, <2>2, TaskCreated DEF IndSession
<1>2. CASE ~HandleDone
  <2>1. CancelAndJoin(h, "set_credentials") /\ UNCHANGED <<loop, handle, token, realtime>>
    BY <1>2 DEF RestartPoller
  <2> QED
    BY <2>1, CancelAndJoinType DEF IndSession, RestInv, CloudOK
<1> QED
  BY <1>1, <1>2

LEMMA StopPollerType ==
  ASSUME IndSession, NEW h \in Handlers, "clear_credentials" \in Methods, StopPoller(h),
         client' \in Loops \cup {None}
  PROVE  /\ TasksInv' /\ CloudOK' /\ rpc' \in [Handlers -> Request0]
         /\ creds' \in BOOLEAN /\ listed' \in BOOLEAN
<1>1. UNCHANGED <<loop, handle, token, realtime>>
  BY DEF StopPoller
<1>2. CASE HandleDone
  <2>1. CancelHandle /\ Ends(h) /\ creds' = FALSE /\ listed' = FALSE /\ age' = STALE_S
    BY <1>2 DEF StopPoller, CancelHandle
  <2>2. rpc' \in [Handlers -> Request0]
    BY <2>1, EndsType DEF IndSession, RestInv
  <2> QED
    <3>1. TasksInv'
      BY <1>1, <2>1, HandleStops DEF IndSession
    <3>2. CloudOK'
      BY <1>1, <2>1, Constants DEF IndSession, RestInv, CloudOK
    <3> QED
      BY <2>1, <2>2, <3>1, <3>2
<1>3. CASE ~HandleDone
  <2>1. CancelAndJoin(h, "clear_credentials") /\ UNCHANGED <<creds, listed, age>>
    BY <1>3 DEF StopPoller
  <2> QED
    BY <1>1, <2>1, CancelAndJoinType DEF IndSession, RestInv, CloudOK, FlagsOK
<1> QED
  BY <1>2, <1>3

LEMMA DropPollerType ==
  ASSUME IndSession, NEW h \in Handlers, DropPoller(h), client' \in Loops \cup {None}
  PROVE  /\ TasksInv' /\ token' \in [Loops -> Tokens] /\ realtime' \subseteq Loops
         /\ rpc' \in [Handlers -> Request0]
<1>1. CancelHandle /\ Ends(h) /\ UNCHANGED <<loop, handle, token, realtime>>
  BY DEF DropPoller
<1>2. rpc' \in [Handlers -> Request0]
  BY <1>1, EndsType DEF IndSession, RestInv
<1> QED
  BY <1>1, <1>2, HandleStops DEF IndSession, RestInv, CloudOK

LEMMA SetCredentialsType ==
  ASSUME IndSession, NEW h \in Handlers, SetCredentials(h) PROVE IndSession'
<1> USE DEF SetCredentials, credVars, timerVars
<1>1. TasksInv' /\ CloudOK'
  BY TasksStay DEF IndSession, RestInv, CloudOK
<1>2. "set_credentials" \in Methods /\ requests' \in Nat
  BY RequestCounts
<1>3. "none" \in Tokens /\ "probe" \in RequestPcs /\ None \in Loops \cup {None}
  BY <1>2 DEF Tokens, RequestPcs
<1>4. rpc' \in [Handlers -> Request0]
  BY <1>2, <1>3, AwaitsType DEF IndSession, RestInv
<1> QED
  BY <1>1, <1>2, <1>4 DEF IndSession, RestInv, FlagsOK, TimersOK

\* A login by somebody: pollers go on with stale tokens.
LEMMA SomeoneLogsIn ==
  ASSUME IndSession, loop' = LoopsAfterLogin, NEW k, token' = TokensAfterLogin(k),
         UNCHANGED <<creds, cancelled, handle, client, realtime, age>>
  PROVE  TasksInv' /\ CloudOK'
<1>1. /\ loop' \in [Loops -> Task]
      /\ \A l \in Loops : loop'[l].pc = loop[l].pc /\ loop'[l].clock = loop[l].clock
  BY LoopsLoginType DEF IndSession, TasksInv
<1>2. \A l \in Loops : InTime(loop'[l])
  BY <1>1 DEF InTime, IndSession, TasksInv
<1>3. TasksInv'
  BY <1>1, <1>2, TasksGoOn DEF IndSession
<1>4. CloudOK'
  BY TokensLoginType DEF IndSession, RestInv, CloudOK
<1> QED
  BY <1>3, <1>4

LEMMA ProbeLoginType ==
  ASSUME IndSession, NEW h \in Handlers, NEW ok \in BOOLEAN, ProbeLogin(h, ok)
  PROVE  IndSession'
<1> USE DEF ProbeLogin, credVars, timerVars
<1>1. CASE ok
  <2>1. TasksInv' /\ CloudOK'
    BY <1>1, SomeoneLogsIn
  <2>2. rpc' = [RpcsAfterLogin EXCEPT ![h].pc = "save"] /\ RpcsAfterLogin \in [Handlers -> Request0]
    BY <1>1, RpcsLoginType DEF IndSession, RestInv
  <2>3. rpc[h].pc = "probe" /\ rpc[h].pc \in RequestPcs
    BY DEF IndSession, RestInv, Request0
  <2>4. "save" \in RequestPcs
    BY <2>3 DEF RequestPcs
  <2>5. rpc' \in [Handlers -> Request0]
    BY <2>2, <2>4 DEF Request0
  <2> QED
    BY <2>1, <2>5 DEF IndSession, RestInv, FlagsOK, TimersOK
<1>2. CASE ~ok
  <2>1. TasksInv' /\ CloudOK'
    BY <1>2, TasksStay DEF IndSession, RestInv, CloudOK, taskVars
  <2>2. rpc' \in [Handlers -> Request0]
    BY <1>2, EndsType DEF IndSession, RestInv
  <2> QED
    BY <2>1, <2>2 DEF IndSession, RestInv, FlagsOK, TimersOK
<1> QED
  BY <1>1, <1>2

LEMMA SaveCredentialsType ==
  ASSUME IndSession, NEW h \in Handlers, SaveCredentials(h) PROVE IndSession'
<1> USE DEF SaveCredentials, credVars, timerVars
<1>1. "set_credentials" \in Methods
  <2>1. rpc[h].pc = "save" /\ rpc[h].pc \in RequestPcs
    BY DEF IndSession, RestInv, Request0
  <2> QED
    BY <2>1 DEF RequestPcs
<1>2. client' \in Loops \cup {None} /\ creds' = TRUE /\ client' = client
  BY DEF IndSession, TasksInv
<1>3. /\ TasksInv' /\ token' \in [Loops -> Tokens] /\ realtime' \subseteq Loops
      /\ rpc' \in [Handlers -> Request0]
  <2>1. CASE client # None
    BY <1>1, <1>2, <2>1, BeginCloseType
  <2>2. CASE client = None
    BY <1>1, <1>2, <2>2, RestartPollerType
  <2> QED
    BY <2>1, <2>2
<1> QED
  <2>1. FlagsOK' /\ TimersOK'
    BY DEF IndSession, RestInv, FlagsOK, TimersOK
  <2>2. CloudOK'
    BY <1>3, Constants DEF CloudOK
  <2> QED
    BY <1>3, <2>1, <2>2 DEF IndSession, RestInv

LEMMA ClearCredentialsType ==
  ASSUME IndSession, NEW h \in Handlers, ClearCredentials(h) PROVE IndSession'
<1> USE DEF ClearCredentials, credVars, timerVars
<1>1. "clear_credentials" \in Methods /\ requests' \in Nat
  BY RequestCounts
<1>2. client' \in Loops \cup {None} /\ client' = client
  BY DEF IndSession, TasksInv
<1>3. /\ TasksInv' /\ CloudOK' /\ rpc' \in [Handlers -> Request0]
      /\ creds' \in BOOLEAN /\ listed' \in BOOLEAN
  <2>1. CASE client # None
    <3>1. BeginClose(h, "clear_credentials") /\ UNCHANGED <<creds, listed, age>>
      BY <2>1
    <3> QED
      BY <1>1, <1>2, <3>1, BeginCloseType DEF IndSession, RestInv, FlagsOK, CloudOK
  <2>2. CASE client = None
    BY <1>1, <1>2, <2>2, StopPollerType
  <2> QED
    BY <2>1, <2>2
<1> QED
  BY <1>1, <1>3 DEF IndSession, RestInv, FlagsOK, TimersOK

LEMMA DisconnectType ==
  ASSUME IndSession, NEW h \in Handlers, Disconnect(h) PROVE IndSession'
<1> USE DEF Disconnect, credVars, timerVars
<1>1. "disconnect" \in Methods /\ requests' \in Nat
  BY RequestCounts
<1>2. client' \in Loops \cup {None} /\ client' = client /\ creds' = creds
  BY DEF IndSession, TasksInv
<1>3. /\ TasksInv' /\ token' \in [Loops -> Tokens] /\ realtime' \subseteq Loops
      /\ rpc' \in [Handlers -> Request0]
  <2>1. CASE client # None
    BY <1>1, <1>2, <2>1, BeginCloseType
  <2>2. CASE client = None
    BY <1>2, <2>2, DropPollerType
  <2> QED
    BY <2>1, <2>2
<1> QED
  BY <1>1, <1>3 DEF IndSession, RestInv, FlagsOK, CloudOK, TimersOK

LEMMA ClosedType ==
  ASSUME IndSession, NEW h \in Handlers, Closed(h) PROVE IndSession'
<1> USE DEF Closed, timerVars
<1>1. client' \in Loops \cup {None} /\ rpc[h].op \in Methods \cup {"none"}
  BY DEF IndSession, RestInv, Request0
<1>2. /\ TasksInv' /\ CloudOK' /\ rpc' \in [Handlers -> Request0]
      /\ creds' \in BOOLEAN /\ listed' \in BOOLEAN
  <2>1. CASE rpc[h].op = "set_credentials"
    <3>1. RestartPoller(h) /\ UNCHANGED <<creds, listed, age>> /\ "set_credentials" \in Methods
      BY <1>1, <2>1
    <3> QED
      BY <1>1, <3>1, RestartPollerType DEF IndSession, RestInv, FlagsOK, CloudOK
  <2>2. CASE rpc[h].op = "clear_credentials"
    <3>1. StopPoller(h) /\ "clear_credentials" \in Methods
      BY <1>1, <2>2
    <3> QED
      BY <1>1, <3>1, StopPollerType
  <2>3. CASE rpc[h].op \notin {"set_credentials", "clear_credentials"}
    <3>1. DropPoller(h) /\ UNCHANGED <<creds, listed, age>>
      BY <2>3
    <3> QED
      BY <1>1, <3>1, DropPollerType DEF IndSession, RestInv, FlagsOK, CloudOK
  <2> QED
    BY <2>1, <2>2, <2>3
<1> QED
  BY <1>2 DEF IndSession, RestInv, FlagsOK, TimersOK

LEMMA JoinedType ==
  ASSUME IndSession, NEW h \in Handlers, Joined(h) PROVE IndSession'
<1> USE DEF Joined, credVars, timerVars
<1>1. TasksInv' /\ CloudOK'
  BY TasksStay DEF IndSession, RestInv, CloudOK
<1>2. rpc' \in [Handlers -> Request0]
  BY EndsType DEF IndSession, RestInv
<1> QED
  BY <1>1, <1>2 DEF IndSession, RestInv, FlagsOK, TimersOK

LEMMA GetBatteryPacksType ==
  ASSUME IndSession, NEW h \in Handlers, GetBatteryPacks(h) PROVE IndSession'
<1> USE DEF GetBatteryPacks, credVars, timerVars
<1>1. "get_battery_packs" \in Methods /\ requests' \in Nat
  BY RequestCounts
<1>2. \A l \in Loops : InTime(loop'[l])
  BY DEF IndSession, TasksInv
<1>3. TasksInv'
  BY <1>2, TasksGoOn DEF IndSession, TasksInv
<1>4. CloudOK'
  BY DEF IndSession, RestInv, CloudOK
<1>5. {"login", "fetch"} \subseteq RequestPcs /\ "none" \in Tokens /\ client \in Loops
      /\ token[client] \in Tokens /\ client \in Loops \cup {None}
  BY <1>1 DEF RequestPcs, Tokens, IndSession, TasksInv, RestInv, CloudOK
<1>6. rpc' \in [Handlers -> Request0]
  BY <1>1, <1>5, AwaitsType DEF IndSession, RestInv
<1> QED
  BY <1>1, <1>3, <1>4, <1>6 DEF IndSession, RestInv, FlagsOK, TimersOK

LEMMA PacksLoginType ==
  ASSUME IndSession, NEW h \in Handlers, NEW ok \in BOOLEAN, PacksLogin(h, ok)
  PROVE  IndSession'
<1> USE DEF PacksLogin, credVars, timerVars
<1>1. CASE ok
  <2>1. TasksInv' /\ CloudOK'
    BY <1>1, SomeoneLogsIn
  <2> DEFINE f == [RpcsAfterLogin EXCEPT ![h].pc = "fetch"]
  <2>2. rpc' = [f EXCEPT ![h].sent = "valid"] /\ RpcsAfterLogin \in [Handlers -> Request0]
    BY <1>1, RpcsLoginType DEF IndSession, RestInv
  <2>3. "fetch" \in RequestPcs /\ "valid" \in Tokens
    <3>1. rpc[h].pc = "login" /\ rpc[h].pc \in RequestPcs
      BY DEF IndSession, RestInv, Request0
    <3> QED
      BY <3>1 DEF RequestPcs, Tokens
  <2>4. f \in [Handlers -> Request0]
    BY <2>2, <2>3 DEF Request0
  <2> HIDE DEF f
  <2>5. rpc' \in [Handlers -> Request0]
    BY <2>2, <2>3, <2>4 DEF Request0
  <2> QED
    BY <2>1, <2>5 DEF IndSession, RestInv, FlagsOK, TimersOK
<1>2. CASE ~ok
  <2>1. TasksInv' /\ CloudOK'
    BY <1>2, TasksStay DEF IndSession, RestInv, CloudOK, taskVars
  <2>2. rpc' \in [Handlers -> Request0]
    BY <1>2, EndsType DEF IndSession, RestInv
  <2> QED
    BY <2>1, <2>2 DEF IndSession, RestInv, FlagsOK, TimersOK
<1> QED
  BY <1>1, <1>2

LEMMA PacksReplyType ==
  ASSUME IndSession, NEW h \in Handlers, PacksReply(h) PROVE IndSession'
<1> USE DEF PacksReply, credVars, timerVars
<1>1. \A l \in Loops : InTime(loop'[l])
  BY DEF IndSession, TasksInv
<1>2. TasksInv'
  BY <1>1, TasksGoOn DEF IndSession, TasksInv
<1>3. rpc' \in [Handlers -> Request0]
  BY EndsType DEF IndSession, RestInv
<1>4. CloudOK'
  BY DEF IndSession, RestInv, CloudOK, Tokens
<1> QED
  BY <1>2, <1>3, <1>4 DEF IndSession, RestInv, FlagsOK, TimersOK

LEMMA ConnectType ==
  ASSUME IndSession, Connect PROVE IndSession'
<1> USE DEF Connect, credVars, timerVars
<1>1. requests' \in Nat
  BY RequestCounts
<1>2. TasksInv' /\ token' \in [Loops -> Tokens] /\ realtime' \subseteq Loops
      /\ force' \in BOOLEAN
  <2>1. CASE creds /\ HandleDone
    <3>1. CreateLoop(client) /\ force' = force /\ client' \in Loops \cup {None}
      BY <2>1 DEF IndSession, TasksInv
    <3> QED
      BY <3>1, TaskCreated DEF IndSession, RestInv, FlagsOK
  <2>2. CASE ~(creds /\ HandleDone)
    <3>1. TasksInv'
      BY <2>2, TasksStay DEF IndSession, taskVars
    <3> QED
      BY <2>2, <3>1 DEF IndSession, RestInv, CloudOK
  <2> QED
    BY <2>1, <2>2
<1> QED
  BY <1>1, <1>2 DEF IndSession, RestInv, FlagsOK, CloudOK, TimersOK

\* Requests that only change a time or a flag.
LEMMA NudgeType ==
  ASSUME IndSession, SelectDevice \/ PausePolling \/ ResumePolling PROVE IndSession'
<1>1. requests' \in Nat /\ UNCHANGED <<taskVars, credVars>>
  BY RequestCounts DEF SelectDevice, PausePolling, ResumePolling
<1>2. age' \in 0 .. STALE_S /\ force' \in BOOLEAN /\ pauseLeft' \in Nat
      /\ contestedLeft' \in Nat /\ UNCHANGED <<cooldown, watchdog, rpc>>
  <2>1. age \in 0 .. STALE_S /\ force \in BOOLEAN /\ pauseLeft \in Nat /\ contestedLeft \in Nat
    BY DEF IndSession, RestInv, FlagsOK, CloudOK, TimersOK
  <2>2. CASE SelectDevice
    BY <2>1, <2>2, Constants DEF SelectDevice, timerVars
  <2>3. CASE PausePolling
    BY <2>1, <2>3, Constants DEF PausePolling
  <2>4. CASE ResumePolling
    BY <2>1, <2>4, Constants DEF ResumePolling
  <2> QED
    BY <2>2, <2>3, <2>4
<1>3. TasksInv' /\ CloudOK'
  BY <1>1, <1>2, TasksStay DEF IndSession, RestInv, credVars
<1> QED
  BY <1>1, <1>2, <1>3 DEF IndSession, RestInv, FlagsOK, TimersOK, credVars

LEMMA PhoneLoginType ==
  ASSUME IndSession, PhoneLogin PROVE IndSession'
<1> USE DEF PhoneLogin, credVars, timerVars
<1>1. TasksInv' /\ CloudOK'
  BY SomeoneLogsIn
<1>2. rpc' \in [Handlers -> Request0]
  BY RpcsLoginType DEF IndSession, RestInv
<1> QED
  BY <1>1, <1>2 DEF IndSession, RestInv, FlagsOK, TimersOK

LEMMA RestartType ==
  ASSUME IndSession, Restart PROVE IndSession'
<1>1. \A l \in Loops : loop'[l] \in Task /\ loop'[l].pc \in {"none", "ready"}
  BY NewTaskType DEF Restart
<1>2. loop' \in [Loops -> Task] /\ handle' \in Loops \cup {None} /\ client' = None
      /\ cancelled' = {}
  BY <1>1 DEF Restart
<1>3. \A l \in Loops : InTime(loop'[l])
  BY <1>1 DEF InTime
<1>4. Running' = {}
  BY <1>1 DEF Running, Started, Live
<1>5. TasksInv'
  BY <1>2, <1>3, <1>4
  DEF TasksInv, LastOneStarts, RunningLoopHasClient, SignedOutMeansStopped
<1>6. CloudOK' /\ FlagsOK'
  <2>1. CloudOK'
    BY Constants DEF Restart, CloudOK, Tokens
  <2>2. FlagsOK'
    BY DEF Restart, FlagsOK, IndSession, RestInv
  <2> QED
    BY <2>1, <2>2
<1>7. rpc' \in [Handlers -> Request0]
  BY DEF Restart, Request0, RequestPcs, NoRpc, Tokens
<1>8. watchdog' \in Watch
  <2>1. watchdog' = [Asleep EXCEPT !.since = MIN_RESTART_S] /\ MIN_RESTART_S \in 0 .. MIN_RESTART_S
    BY Constants DEF Restart
  <2> QED
    BY <2>1, AsleepType DEF Watch
<1>9. TimersOK'
  BY <1>8 DEF Restart, TimersOK, IndSession, RestInv
<1> QED
  BY <1>5, <1>6, <1>7, <1>9 DEF IndSession, RestInv

LEMMA TickType ==
  ASSUME IndSession, Tick PROVE IndSession'
<1>1. \A l \in Loops :
        /\ loop'[l] \in Task /\ InTime(loop'[l]) /\ loop'[l].pc = loop[l].pc
  <2> TAKE l \in Loops
  <2>1. loop[l] \in Task /\ InTime(loop[l])
    BY DEF IndSession, TasksInv
  <2>2. CASE loop[l].pc \in Sleeping
    <3>1. loop'[l] = [loop[l] EXCEPT !.clock = Dec(@)]
      BY <2>2 DEF Tick, Sleeping
    <3>2. Dec(loop[l].clock) \in Nat
      BY <2>1 DEF Dec, Task
    <3> QED
      BY <2>1, <2>2, <3>1, <3>2 DEF Task, InTime, Sleeping
  <2>3. CASE loop[l].pc \in {"props", "relogin"}
    <3>1. loop'[l] = [loop[l] EXCEPT !.clock = Min2(@ + 1, STALE_S)]
      BY <2>3 DEF Tick, Sleeping
    <3>2. Min2(loop[l].clock + 1, STALE_S) \in Nat /\ Min2(loop[l].clock + 1, STALE_S) <= STALE_S
      BY <2>1, Constants DEF Min2, Task
    <3> QED
      BY <2>1, <3>1, <3>2 DEF Task, InTime
  <2>4. CASE loop[l].pc \notin Sleeping \cup {"props", "relogin"}
    <3>1. loop'[l] = loop[l]
      BY <2>4 DEF Tick
    <3> QED
      BY <2>1, <3>1
  <2> QED
    BY <2>2, <2>3, <2>4
<1>2. loop' \in [Loops -> Task]
  BY <1>1 DEF Tick
<1>3. TasksInv'
  BY <1>1, <1>2, TasksGoOn DEF Tick, credVars, IndSession
<1>4. CloudOK' /\ FlagsOK'
  BY Constants DEF Tick, Min2, credVars, IndSession, RestInv, CloudOK, FlagsOK
<1>5. watchdog' \in Watch
  <2> DEFINE c == Dec(watchdog.check)
             s == Min2(watchdog.since + 1, MIN_RESTART_S)
             w == [watchdog EXCEPT !.check = c]
  <2>1. watchdog \in Watch /\ c \in 0 .. CHECK_S /\ s \in 0 .. MIN_RESTART_S
    BY Constants DEF IndSession, RestInv, TimersOK, Watch, Dec, Min2
  <2>2. watchdog' = [w EXCEPT !.since = s]
    BY <2>1 DEF Tick, Watch
  <2> HIDE DEF c, s
  <2>3. w \in Watch
    BY <2>1 DEF Watch
  <2> HIDE DEF w
  <2> QED
    BY <2>1, <2>2, <2>3 DEF Watch
<1>6. TimersOK'
  BY <1>5 DEF Tick, Dec, TimersOK, IndSession, RestInv
<1> QED
  BY <1>3, <1>4, <1>6 DEF Tick, IndSession, RestInv

-----------------------------------------------------------------------------
LEMMA SessionNext ==
  ASSUME IndSession, [Next]_vars PROVE IndSession'
<1>1. ASSUME NEW l \in Loops, LoopTurn(l) \/ LoopAnswer(l) \/ Push(l) PROVE IndSession'
  BY <1>1, StartType, WakeType, CancelledType, LoginType, ListedType, ContestedType,
     ErrorType, NextDeviceType, PolledType, PushType, Zenon DEF LoopTurn, LoopAnswer
<1>2. ASSUME WatchdogStep PROVE IndSession'
  BY <1>2, CheckType, WatchdogJoinedType, WatchdogClosedType, Zenon DEF WatchdogStep
<1>3. ASSUME NEW h \in Handlers, HandlerStep(h) PROVE IndSession'
  BY <1>3, SetCredentialsType, ProbeLoginType, SaveCredentialsType, ClearCredentialsType,
     DisconnectType, ClosedType, JoinedType, GetBatteryPacksType, PacksReplyType,
     PacksLoginType, Zenon DEF HandlerStep
<1>4. ASSUME UNCHANGED vars PROVE IndSession'
  <2>1. TasksInv' /\ CloudOK'
    BY <1>4, TasksStay DEF vars, credVars, IndSession, RestInv, CloudOK
  <2> QED
    BY <1>4, <2>1 DEF vars, credVars, timerVars, IndSession, RestInv, FlagsOK, TimersOK
<1> QED
  BY <1>1, <1>2, <1>3, <1>4, ConnectType, NudgeType, PhoneLoginType, RestartType,
     TickType, Zenon DEF Next

\* The state is well-formed; a poller that runs under the handle has its own
\* client in the state, and there is none once the credentials are forgotten;
\* for any intervals and numbers of tasks, connections and requests
\* (bridge.py 900-970, 1100-1180).
THEOREM SessionIsConsistent == Spec => []SessionInv
<1>1. Init => IndSession
  BY SessionInit
<1>2. IndSession /\ [Next]_vars => IndSession'
  BY SessionNext
<1>3. IndSession => SessionInv
  BY IndImplies
<1> QED
  BY <1>1, <1>2, <1>3, PTL DEF Spec

-----------------------------------------------------------------------------
(* One poller.  As long as nobody but the watchdog starts pollers and       *)
(* nobody but the poller asks for packs, the one that the handle names is   *)
(* the only one there is, so that no other task's error takes its token     *)
(* away in the midst of an iteration.                                       *)

OnlyWatchdogStarts ==
  Methods \cap {"set_credentials", "connect", "get_battery_packs"} = {}

\* The poller hears the device's pushes, or its client is being closed.
Hears(l) == l \in realtime \/ (l = client /\ \E h \in Handlers : rpc[h].pc = "close")

\* A poller that asks has a token, so that it need not sign in again in the
\* midst of an iteration, and one that has subscribed and not lost its token
\* since is heard.
Steady(l) ==
  /\ loop[l].pc # "relogin"
  /\ loop[l].pc = "ready" => loop[l].subscribed = FALSE
  /\ loop[l].pc \in {"list", "props", "idle"} => token[l] # "none"
  /\ l \in Running /\ loop[l].subscribed /\ loop[l].pc # "login" /\ token[l] # "none" => Hears(l)

SoloInv ==
  /\ Live \subseteq {handle}
  /\ watchdog.pc = "join" => watchdog.on = handle
  /\ watchdog.pc = "close" => HandleDone
  /\ \A l \in Loops : Steady(l)

StepYields ==
  Yielding => \A l \in Loops : loop'[l].pc \in {"login", "relogin"} => loop[l].pc = loop'[l].pc

\* What a poller that runs is.
LEMMA TheOne ==
  ASSUME IndSession, SoloInv, NEW l \in Loops, loop[l].pc # "none"
  PROVE  /\ l = handle /\ Steady(l) /\ \A k \in Loops \ {l} : loop[k].pc = "none"
         /\ l \notin cancelled /\ loop[l].pc # "ready" => l \in Running /\ client = l
  BY DEF SoloInv, Live, Started, Running, IndSession, TasksInv, RunningLoopHasClient

\* Only the poller moves, and it stays the one.
LEMMA SoloMoves ==
  ASSUME IndSession, SoloInv, NEW l \in Loops, loop[l].pc # "none", l \notin cancelled,
         NEW r, loop'[l] = r, \A k \in Loops \ {l} : loop'[k].pc = loop[k].pc,
         r.pc \notin {"relogin", "ready"},
         r.pc \in {"list", "props", "idle"} => token'[l] # "none",
         r.pc \notin {"none", "login"} /\ r.subscribed /\ token'[l] # "none" => Hears(l)',
         r.pc = "login" => loop[l].pc = "login" \/ ~Yielding,
         UNCHANGED <<handle, cancelled, watchdog>>
  PROVE  SoloInv' /\ StepYields
<1>1. l = handle /\ \A k \in Loops \ {l} : loop[k].pc = "none" /\ loop'[k].pc = "none"
  BY TheOne
<1>2. Live' \subseteq {handle'}
  BY <1>1 DEF Live
<1>3. \A k \in Loops \ {l} : k \notin Running'
  BY <1>1 DEF Running, Started, Live
<1>4. \A k \in Loops : Steady(k)'
  <2>1. Steady(l)'
    BY DEF Steady, Running, Started, Live
  <2>2. \A k \in Loops \ {l} : Steady(k)'
    BY <1>1, <1>3 DEF Steady
  <2> QED
    BY <2>1, <2>2
<1>5. watchdog.pc # "close"
  BY <1>1, Constants DEF SoloInv, HandleDone
<1>6. SoloInv'
  BY <1>2, <1>4, <1>5 DEF SoloInv
<1>7. StepYields
  BY <1>1 DEF StepYields
<1> QED
  BY <1>6, <1>7

\* Nobody moves, and what the poller relies on stays.
LEMMA SoloStays ==
  ASSUME IndSession, SoloInv,
         \A k \in Loops : /\ loop'[k].pc = loop[k].pc
                          /\ loop'[k].subscribed = loop[k].subscribed
                          /\ token'[k] = "none" <=> token[k] = "none",
         cancelled \subseteq cancelled', handle' = handle, client' = client,
         handle \notin Running' \/
           \A l \in Loops : l \in Running /\ Hears(l) => Hears(l)',
         watchdog'.pc = "join" => watchdog'.on = handle,
         watchdog'.pc = "close" => HandleDone
  PROVE  SoloInv' /\ StepYields
<1>1. Live' = Live /\ Running' \subseteq Running
  BY DEF Live, Started, Running
<1>2. HandleDone' = HandleDone
  BY DEF HandleDone, IndSession, TasksInv
<1>3. Running' \subseteq {handle}
  BY <1>1 DEF Running, Started, SoloInv
<1>4. \A k \in Loops : Steady(k)'
  <2> TAKE k \in Loops
  <2>1. Steady(k)
    BY DEF SoloInv
  <2> QED
    BY <1>1, <1>3, <2>1 DEF Steady
<1>5. SoloInv'
  BY <1>1, <1>2, <1>4 DEF SoloInv
<1>6. StepYields
  BY DEF StepYields
<1> QED
  BY <1>5, <1>6

\* No poller, but a new one at most.
LEMMA SoloCreated ==
  ASSUME IndSession, IndSession', SoloInv, NEW c, CreateLoop(c), HandleDone,
         UNCHANGED cancelled, watchdog'.pc = "sleep"
  PROVE  SoloInv' /\ StepYields
<1>1. PICK l \in Free(c) : /\ loop' = [loop EXCEPT ![l] = NewTask] /\ handle' = l
                           /\ token' = [token EXCEPT ![l] = "none"]
  BY DEF CreateLoop
<1>2. l \in Loops /\ loop \in [Loops -> Task]
  BY <1>1 DEF Free, IndSession, TasksInv
<1>3. \A k \in Loops : loop[k].pc = "none"
  BY Constants DEF SoloInv, Live, HandleDone, IndSession, TasksInv
<1>4. loop'[l] = NewTask /\ \A k \in Loops \ {l} : loop'[k].pc = "none"
  BY <1>1, <1>2, <1>3
<1>5. Live' \subseteq {handle'} /\ Running' = {}
  BY <1>1, <1>4, NewTaskType DEF Live, Started, Running
<1>6. \A k \in Loops : Steady(k)'
  BY <1>4, <1>5, NewTaskType DEF Steady
<1>7. StepYields
  BY <1>4, NewTaskType DEF StepYields
<1> QED
  BY <1>5, <1>6, <1>7 DEF SoloInv

LEMMA SoloStart ==
  ASSUME IndSession, SoloInv, NEW l \in Loops, LoopStart(l) PROVE SoloInv' /\ StepYields
<1> DEFINE r == IF creds THEN TopOfLoop(loop[l], "none") ELSE NoTask
<1>1. loop \in [Loops -> Task] /\ loop[l] \in Task /\ "none" \in Tokens
      /\ loop[l].pc = "ready" /\ l \notin cancelled /\ loop[l].subscribed = FALSE
  BY DEF IndSession, TasksInv, LoopStart, Runs, Tokens, SoloInv, Steady
<1>2. loop' = [loop EXCEPT ![l] = r] /\ UNCHANGED <<handle, cancelled, watchdog>>
  BY DEF LoopStart, Step
<1>3. r.pc \in {"none", "hold", "login"} /\ r.subscribed = FALSE
      /\ (r.pc = "login" => ~Yielding)
  <2>1. CASE creds
    BY <1>1, <2>1, TopType
  <2>2. CASE ~creds
    BY <2>2 DEF NoTask
  <2> QED
    BY <2>1, <2>2
<1> HIDE DEF r
<1>4. loop'[l] = r /\ \A k \in Loops \ {l} : loop'[k].pc = loop[k].pc
  BY <1>1, <1>2
<1> QED
  BY <1>1, <1>2, <1>3, <1>4, SoloMoves

LEMMA SoloWake ==
  ASSUME IndSession, SoloInv, NEW l \in Loops, LoopWake(l) PROVE SoloInv' /\ StepYields
<1> DEFINE r == TopOfLoop(loop[l], token[l])
<1>1. loop \in [Loops -> Task] /\ loop[l] \in Task /\ token[l] \in Tokens
      /\ loop[l].pc \notin {"none", "ready", "login"} /\ l \notin cancelled
  BY DEF IndSession, TasksInv, RestInv, CloudOK, LoopWake, Runs, Sleeping
<1>2. loop' = [loop EXCEPT ![l] = r] /\ UNCHANGED <<handle, cancelled, watchdog, client, rpc, token>>
      /\ (r.pc \notin {"login", "relogin"} => realtime' = realtime)
  BY DEF LoopWake, Step
<1>3. /\ r.pc \in {"hold", "login", "list", "props"} /\ r.subscribed = loop[l].subscribed
      /\ r.pc = "login" => ~Yielding
      /\ r.pc \in {"list", "props"} => token[l] # "none"
  BY <1>1, TopType
<1> HIDE DEF r
<1>4. loop'[l] = r /\ \A k \in Loops \ {l} : loop'[k].pc = loop[k].pc
  BY <1>1, <1>2
<1>5. r.pc \notin {"none", "login"} /\ r.subscribed /\ token'[l] # "none" => Hears(l)'
  BY <1>1, <1>2, <1>3, TheOne DEF Steady, Hears
<1> QED
  BY <1>1, <1>2, <1>3, <1>4, <1>5, SoloMoves

LEMMA SoloLogin ==
  ASSUME IndSession, SoloInv, NEW l \in Loops, LoopLogin(l) PROVE SoloInv' /\ StepYields
<1> DEFINE s == FirstRequest(loop[l], "valid")
           r == [s EXCEPT !.subscribed = FALSE]
<1>1. loop \in [Loops -> Task] /\ loop[l] \in Task /\ "valid" \in Tokens
      /\ loop[l].pc = "login" /\ l \notin cancelled
  BY DEF IndSession, TasksInv, LoopLogin, Runs, Tokens, SoloInv, Steady
<1>2. loop' = [LoopsAfterLogin EXCEPT ![l] = r] /\ token' = TokensAfterLogin(l)
      /\ UNCHANGED <<handle, cancelled, watchdog>>
  BY <1>1 DEF LoopLogin
<1>3. s \in Task /\ s.pc \in {"list", "props"}
  BY <1>1, FirstType
<1> HIDE DEF s
<1>4. r.pc \in {"list", "props"} /\ r.subscribed = FALSE
  BY <1>3, SubscribedType
<1> HIDE DEF r
<1>5. loop'[l] = r /\ \A k \in Loops \ {l} : loop'[k].pc = loop[k].pc
  BY <1>1, <1>2, LoopsLoginType
<1>6. token'[l] # "none"
  BY <1>2 DEF TokensAfterLogin
<1> QED
  BY <1>1, <1>2, <1>4, <1>5, <1>6, SoloMoves

\* A request that is answered is followed by another, or by a pause.
LEMMA SoloListed ==
  ASSUME IndSession, SoloInv, NEW l \in Loops, LoopListed(l) PROVE SoloInv' /\ StepYields
<1> DEFINE r0 == [loop[l] EXCEPT !.clock = 0]
           r == NextRequest(r0, token[l])
<1>1. loop \in [Loops -> Task] /\ loop[l] \in Task /\ token[l] \in Tokens
      /\ loop[l].pc = "list" /\ l \notin cancelled
  BY DEF IndSession, TasksInv, RestInv, CloudOK, LoopListed, Runs
<1>2. loop' = [loop EXCEPT ![l] = r] /\ UNCHANGED <<handle, cancelled, watchdog, client, rpc, token>>
      /\ (r.pc \notin {"login", "relogin"} => realtime' = realtime)
  BY DEF LoopListed, Step
<1>3. r0 \in Task /\ r0.subscribed = loop[l].subscribed
  BY <1>1 DEF Task
<1>4. token[l] # "none"
  BY <1>1 DEF SoloInv, Steady
<1> HIDE DEF r0
<1>5. r.pc = "props" /\ r.subscribed = loop[l].subscribed
  BY <1>1, <1>3, <1>4, NextType
<1> HIDE DEF r
<1>6. loop'[l] = r /\ \A k \in Loops \ {l} : loop'[k].pc = loop[k].pc
  BY <1>1, <1>2
<1>7. r.subscribed => Hears(l)'
  BY <1>1, <1>2, <1>4, <1>5, TheOne DEF Steady, Hears
<1> QED
  BY <1>1, <1>2, <1>4, <1>5, <1>6, <1>7, SoloMoves

LEMMA SoloNextDevice ==
  ASSUME IndSession, SoloInv, NEW l \in Loops, NEW answer \in Answers, LoopNextDevice(l, answer)
  PROVE  SoloInv' /\ StepYields
<1> DEFINE got == Answered(l, answer)
           r0 == [loop[l] EXCEPT !.got = got]
           r == NextRequest(r0, token[l])
<1>1. loop \in [Loops -> Task] /\ loop[l] \in Task /\ token[l] \in Tokens
      /\ loop[l].pc = "props" /\ l \notin cancelled
  BY DEF IndSession, TasksInv, RestInv, CloudOK, LoopNextDevice, CanAnswer, Runs, SoloInv, Steady
<1>2. loop' = [loop EXCEPT ![l] = r] /\ UNCHANGED <<handle, cancelled, watchdog, client, rpc, token>>
      /\ (r.pc \notin {"login", "relogin"} => realtime' = realtime)
  BY DEF LoopNextDevice, Step
<1>3. got \in Answers \cup {"none"}
  BY <1>1, AnsweredType
<1> HIDE DEF got
<1>4. r0 \in Task /\ r0.subscribed = loop[l].subscribed
  BY <1>1, <1>3, GotType
<1>5. token[l] # "none"
  BY <1>1 DEF SoloInv, Steady
<1> HIDE DEF r0
<1>6. r.pc = "props" /\ r.subscribed = loop[l].subscribed
  BY <1>1, <1>4, <1>5, NextType
<1> HIDE DEF r
<1>7. loop'[l] = r /\ \A k \in Loops \ {l} : loop'[k].pc = loop[k].pc
  BY <1>1, <1>2
<1>8. r.subscribed => Hears(l)'
  BY <1>1, <1>2, <1>5, <1>6, TheOne DEF Steady, Hears
<1> QED
  BY <1>1, <1>2, <1>5, <1>6, <1>7, <1>8, SoloMoves

LEMMA SoloPolled ==
  ASSUME IndSession, SoloInv, NEW l \in Loops, NEW answer \in Answers, LoopPolled(l, answer)
  PROVE  SoloInv' /\ StepYields
<1> DEFINE got == Answered(l, answer)
           r0 == Await(loop[l], "idle", POLL_S, "none")
           r1 == [r0 EXCEPT !.got = got]
<1>1. PICK b \in {loop[l].subscribed, TRUE} :
        /\ loop' = [loop EXCEPT ![l] = [Await(@, "idle", POLL_S, "none") EXCEPT
                                          !.got = got, !.subscribed = b]]
        /\ realtime' = IF b /\ ~loop[l].subscribed THEN realtime \cup {l} ELSE realtime
  BY DEF LoopPolled
<1> DEFINE r == [r1 EXCEPT !.subscribed = b]
<1>2. loop \in [Loops -> Task] /\ loop[l] \in Task /\ loop[l].pc = "props" /\ l \notin cancelled
      /\ b \in BOOLEAN
  BY <1>1 DEF IndSession, TasksInv, LoopPolled, CanAnswer, Runs, Task, SoloInv, Steady
<1>3. loop' = [loop EXCEPT ![l] = r]
  BY <1>1, <1>2
<1>4. got \in Answers \cup {"none"}
  BY <1>2, AnsweredType
<1>5. r0 \in Task /\ r0.pc = "idle"
  <2>1. "idle" \in TaskPcs /\ "none" \in Tokens /\ POLL_S \in Nat
    BY Constants DEF TaskPcs, Sleeping, Tokens
  <2> QED
    BY <1>2, <2>1, AwaitType, SMTT(30)
<1> HIDE DEF got, r0
<1>6. r1 \in Task /\ r1.pc = "idle"
  BY <1>4, <1>5, GotType
<1> HIDE DEF r1
<1>7. r.pc = "idle" /\ r.subscribed = b
  BY <1>2, <1>6, SubscribedType
<1> HIDE DEF r
<1>8. token[l] # "none" /\ UNCHANGED <<handle, cancelled, watchdog, client, rpc, token>>
  BY <1>2 DEF SoloInv, Steady, LoopPolled
<1>9. loop'[l] = r /\ \A k \in Loops \ {l} : loop'[k].pc = loop[k].pc
  BY <1>2, <1>3
<1>10. r.subscribed => Hears(l)'
  <2>1. CASE loop[l].subscribed
    BY <1>1, <1>2, <1>8, <2>1, TheOne DEF Steady, Hears
  <2>2. CASE ~loop[l].subscribed
    BY <1>1, <1>7, <2>2 DEF Hears
  <2> QED
    BY <2>1, <2>2
<1> QED
  BY <1>2, <1>7, <1>8, <1>9, <1>10, SoloMoves

\* The poller drops its token when it is rejected or its login has failed.
LEMMA SoloFails ==
  ASSUME IndSession, SoloInv, NEW l \in Loops, LoopContested(l) \/ LoopError(l)
  PROVE  SoloInv' /\ StepYields
<1>1. loop \in [Loops -> Task] /\ loop[l] \in Task /\ token \in [Loops -> Tokens]
      /\ loop[l].pc \notin {"none", "ready"} /\ l \notin cancelled
  BY DEF IndSession, TasksInv, RestInv, CloudOK, LoopContested, LoopError, Runs
<1>2. client = l
  BY <1>1, TheOne
<1>3. PICK pc \in {"hold", "backoff"}, clock \in Nat : Step(l, Await(loop[l], pc, clock, "none"))
  BY Constants DEF LoopContested, LoopError
<1> DEFINE r == Await(loop[l], pc, clock, "none")
<1>4. loop' = [loop EXCEPT ![l] = r] /\ UNCHANGED <<handle, cancelled, watchdog>>
  BY <1>3 DEF Step, LoopContested, LoopError
<1>5. r.pc \in {"hold", "backoff"}
  <2>1. pc \in TaskPcs /\ "none" \in Tokens
    BY DEF TaskPcs, Sleeping, Tokens
  <2> QED
    BY <1>1, <2>1, AwaitType, SMTT(30)
<1> HIDE DEF r
<1>6. loop'[l] = r /\ \A k \in Loops \ {l} : loop'[k].pc = loop[k].pc
  BY <1>1, <1>4
<1>7. token'[l] = "none"
  BY <1>1, <1>2, Constants DEF LoopContested, LoopError, DropToken
<1> QED
  BY <1>1, <1>4, <1>5, <1>6, <1>7, SoloMoves

LEMMA SoloCancelled ==
  ASSUME IndSession, SoloInv, NEW l \in Loops, LoopCancelled(l) PROVE SoloInv' /\ StepYields
<1>1. loop \in [Loops -> Task] /\ loop' = [loop EXCEPT ![l] = NoTask] /\ l \in Live
  BY DEF LoopCancelled, IndSession, TasksInv
<1>2. \A k \in Loops \ {l} : loop[k].pc = "none"
  BY <1>1, TheOne DEF Live
<1>3. \A k \in Loops : loop'[k].pc = "none"
  BY <1>1, <1>2, NewTaskType
<1>4. Live' = {} /\ Running' = {}
  BY <1>3 DEF Live, Started, Running
<1>5. \A k \in Loops : Steady(k)'
  BY <1>3, <1>4 DEF Steady
<1>6. watchdog' = watchdog /\ handle' = handle /\ HandleDone'
  BY <1>3 DEF LoopCancelled, HandleDone, IndSession, TasksInv
<1> QED
  BY <1>3, <1>4, <1>5, <1>6 DEF SoloInv, StepYields

\* Steps that leave the tasks and the watchdog alone.
LEMMA SoloIdle ==
  ASSUME IndSession, SoloInv, UNCHANGED <<taskVars, watchdog>>,
         \A h \in Handlers : rpc[h].pc = "close" => rpc'[h].pc = "close"
  PROVE  SoloInv' /\ StepYields
<1>1. \A l \in Loops : l \in Running /\ Hears(l) => Hears(l)'
  BY DEF Hears, taskVars
<1> QED
  BY <1>1, SoloStays DEF taskVars, SoloInv

\* The handle's poller is being stopped: nobody has to hear anything.
LEMMA SoloStops ==
  ASSUME IndSession, SoloInv, UNCHANGED <<loop, handle, token, client>>,
         cancelled \subseteq cancelled', handle \notin Running',
         watchdog'.pc = "join" => watchdog'.on = handle,
         watchdog'.pc = "close" => HandleDone
  PROVE  SoloInv' /\ StepYields
  BY SoloStays

\* As SoloStops, and the client is forgotten.
LEMMA SoloForgets ==
  ASSUME IndSession, SoloInv, UNCHANGED <<loop, handle, token, watchdog>>,
         cancelled \subseteq cancelled', handle \notin Running'
  PROVE  SoloInv' /\ StepYields
<1>1. Live' = Live /\ HandleDone' = HandleDone
  BY DEF Live, HandleDone
<1>2. Running' = {}
  BY <1>1 DEF Running, Started, SoloInv
<1>3. \A l \in Loops : Steady(l)'
  BY <1>2 DEF Steady, SoloInv
<1> QED
  BY <1>1, <1>3 DEF SoloInv, StepYields

LEMMA SoloPush ==
  ASSUME IndSession, SoloInv, NEW l \in Loops, Push(l) PROVE SoloInv' /\ StepYields
  BY SoloIdle DEF Push

LEMMA SoloClose ==
  ASSUME IndSession, IndSession', SoloInv, WatchdogClose, HandleDone,
         cancelled' = cancelled, client' = client
  PROVE  SoloInv' /\ StepYields
<1>1. CASE client # None
  <2>1. UNCHANGED <<loop, handle, token>> /\ watchdog'.pc = "close"
    BY <1>1 DEF WatchdogClose, IndSession, RestInv, TimersOK, Watch
  <2>2. handle \notin Running'
    BY <2>1, Constants DEF HandleDone, Running, Started, Live
  <2> QED
    BY <2>1, <2>2, SoloStops
<1>2. CASE client = None
  <2>1. CreateLoop(None) /\ watchdog' = [Asleep EXCEPT !.since = 0]
    BY <1>2 DEF WatchdogClose
  <2>2. watchdog'.pc = "sleep"
    BY <2>1 DEF Asleep, IndSession, RestInv, TimersOK, Watch
  <2> QED
    BY <2>1, <2>2, SoloCreated
<1> QED
  BY <1>1, <1>2

LEMMA AsleepSleeps ==
  ASSUME IndSession PROVE Asleep.pc = "sleep" /\ [Asleep EXCEPT !.since = 0].pc = "sleep"
  BY DEF Asleep, IndSession, RestInv, TimersOK, Watch

LEMMA SoloWatchdog ==
  ASSUME IndSession, IndSession', SoloInv, WatchdogStep PROVE SoloInv' /\ StepYields
<1>1. ASSUME WatchdogCheck PROVE SoloInv' /\ StepYields
  <2> USE <1>1 DEF WatchdogCheck
  <2>1. CASE RestartDue /\ HandleDone
    BY <2>1, SoloClose DEF CancelHandle
  <2>2. CASE RestartDue /\ ~HandleDone
    <3>1. CancelHandle /\ UNCHANGED <<loop, handle, token, realtime, client>>
          /\ watchdog' = [watchdog EXCEPT !.pc = "join", !.on = handle]
      BY <2>2
    <3>2. watchdog'.pc = "join" /\ watchdog'.on = handle
      BY <3>1 DEF IndSession, RestInv, TimersOK, Watch
    <3>3. handle \notin Running' /\ cancelled \subseteq cancelled'
      BY <3>1, HandleStops DEF IndSession, TasksInv, CancelHandle
    <3> QED
      BY <3>1, <3>2, <3>3, SoloStops
  <2>3. CASE ~RestartDue
    <3>1. watchdog' = Asleep /\ UNCHANGED taskVars /\ UNCHANGED rpc
      BY <2>3 DEF taskVars
    <3>2. \A l \in Loops : l \in Running /\ Hears(l) => Hears(l)'
      BY <3>1 DEF Hears, taskVars
    <3>3. watchdog'.pc = "sleep"
      BY <3>1, AsleepSleeps
    <3> QED
      BY <3>1, <3>2, <3>3, SoloStays DEF taskVars
  <2> QED
    BY <2>1, <2>2, <2>3
<1>2. ASSUME WatchdogJoined PROVE SoloInv' /\ StepYields
  <2>1. HandleDone
    BY <1>2 DEF WatchdogJoined, SoloInv, HandleDone
  <2> QED
    BY <1>2, <2>1, SoloClose DEF WatchdogJoined
<1>3. ASSUME WatchdogClosed PROVE SoloInv' /\ StepYields
  <2>1. HandleDone /\ CreateLoop(None) /\ UNCHANGED cancelled
    BY <1>3 DEF WatchdogClosed, SoloInv
  <2>2. watchdog'.pc = "sleep"
    BY <1>3, AsleepSleeps DEF WatchdogClosed
  <2> QED
    BY <2>1, <2>2, SoloCreated
<1> QED
  BY <1>1, <1>2, <1>3 DEF WatchdogStep

-----------------------------------------------------------------------------
(* The handlers that are left                                              *)

LEMMA SoloBeginClose ==
  ASSUME IndSession, SoloInv, NEW h \in Handlers, NEW op, BeginClose(h, op),
         UNCHANGED <<client, watchdog>>, rpc[h].pc = "idle"
  PROVE  SoloInv' /\ StepYields
<1>1. UNCHANGED <<loop, cancelled, handle, token>> /\ realtime' = realtime \ {client}
      /\ rpc' = [rpc EXCEPT ![h] = [op |-> op, pc |-> "close", on |-> None, sent |-> "none"]]
  BY DEF BeginClose, Awaits
<1>2. rpc'[h].pc = "close" /\ \A g \in Handlers : rpc[g].pc = "close" => rpc'[g].pc = "close"
  BY <1>1 DEF IndSession, RestInv
<1>3. \A l \in Loops : l \in Running /\ Hears(l) => Hears(l)'
  BY <1>1, <1>2 DEF Hears
<1> QED
  BY <1>1, <1>3, SoloStays DEF SoloInv

LEMMA SoloStopPoller ==
  ASSUME IndSession, SoloInv, NEW h \in Handlers, StopPoller(h) \/ DropPoller(h),
         watchdog' = watchdog
  PROVE  SoloInv' /\ StepYields
<1>1. CancelHandle /\ UNCHANGED <<loop, handle, token>>
  BY DEF StopPoller, DropPoller, CancelAndJoin, CancelHandle
<1>2. cancelled \subseteq cancelled'
  BY <1>1 DEF CancelHandle
<1>3. handle \notin Running'
  BY <1>1, <1>2, Constants
  DEF CancelHandle, HandleDone, Running, Started, Live
<1> QED
  BY <1>1, <1>2, <1>3, SoloForgets

LEMMA SoloHandler ==
  ASSUME OnlyWatchdogStarts, IndSession, SoloInv, NEW h \in Handlers, HandlerStep(h)
  PROVE  SoloInv' /\ StepYields
<1>1. rpc[h].pc \in {"idle", "close", "join"} /\ rpc[h].op # "set_credentials"
      /\ {"set_credentials", "get_battery_packs"} \cap Methods = {}
  BY DEF OnlyWatchdogStarts, IndSession, RestInv, Request0, RequestPcs
<1>2. ~SetCredentials(h) /\ ~GetBatteryPacks(h) /\ ~SaveCredentials(h) /\ ~PacksReply(h)
      /\ \A ok \in BOOLEAN : ~ProbeLogin(h, ok) /\ ~PacksLogin(h, ok)
  BY <1>1 DEF SetCredentials, GetBatteryPacks, Request, SaveCredentials, PacksReply,
              ProbeLogin, PacksLogin
<1>3. ASSUME ClearCredentials(h) PROVE SoloInv' /\ StepYields
  <2>1. CASE client # None
    BY <1>3, <2>1, SoloBeginClose DEF ClearCredentials
  <2>2. CASE client = None
    BY <1>3, <2>2, SoloStopPoller DEF ClearCredentials
  <2> QED
    BY <2>1, <2>2
<1>4. ASSUME Disconnect(h) PROVE SoloInv' /\ StepYields
  <2>1. CASE client # None
    BY <1>4, <2>1, SoloBeginClose DEF Disconnect
  <2>2. CASE client = None
    BY <1>4, <2>2, SoloStopPoller DEF Disconnect
  <2> QED
    BY <2>1, <2>2
<1>5. ASSUME Closed(h) PROVE SoloInv' /\ StepYields
  <2>1. (StopPoller(h) \/ DropPoller(h)) /\ watchdog' = watchdog
    BY <1>1, <1>5 DEF Closed
  <2> QED
    BY <2>1, SoloStopPoller
<1>6. ASSUME Joined(h) PROVE SoloInv' /\ StepYields
  <2>1. \A g \in Handlers : rpc[g].pc = "close" => rpc'[g].pc = "close"
    BY <1>6 DEF Joined, Ends, IndSession, RestInv
  <2> QED
    BY <1>6, <2>1, SoloIdle DEF Joined
<1> QED
  BY <1>2, <1>3, <1>4, <1>5, <1>6 DEF HandlerStep

LEMMA SoloOther ==
  ASSUME OnlyWatchdogStarts, IndSession, SoloInv,
         Connect \/ SelectDevice \/ PausePolling \/ ResumePolling \/ UNCHANGED vars
  PROVE  SoloInv' /\ StepYields
<1>1. ~Connect
  BY DEF Connect, Request, OnlyWatchdogStarts
<1>2. UNCHANGED <<taskVars, watchdog, rpc>>
  BY <1>1 DEF SelectDevice, PausePolling, ResumePolling, vars
<1> QED
  BY <1>2, SoloIdle

LEMMA SoloPhone ==
  ASSUME IndSession, SoloInv, PhoneLogin PROVE SoloInv' /\ StepYields
<1>1. loop' = LoopsAfterLogin /\ rpc' = RpcsAfterLogin /\ token' = TokensAfterLogin(None)
      /\ UNCHANGED <<cancelled, handle, client, realtime, watchdog>>
  BY DEF PhoneLogin
<1>2. \A k \in Loops : /\ loop'[k].pc = loop[k].pc
                       /\ loop'[k].subscribed = loop[k].subscribed
                       /\ token'[k] = "none" <=> token[k] = "none"
  BY <1>1, LoopsLoginType, TokensLoginType, Constants
  DEF IndSession, TasksInv, RestInv, CloudOK
<1>3. \A l \in Loops : l \in Running /\ Hears(l) => Hears(l)'
  BY <1>1, RpcsLoginType DEF Hears, IndSession, RestInv
<1> QED
  BY <1>1, <1>2, <1>3, SoloStays DEF SoloInv

LEMMA SoloRestart ==
  ASSUME IndSession, Restart PROVE SoloInv' /\ StepYields
<1>1. \A l \in Loops : loop'[l] = IF l = handle' THEN NewTask ELSE NoTask
  BY DEF Restart
<1>2. Live' \subseteq {handle'} /\ Running' = {}
  BY <1>1, NewTaskType DEF Live, Started, Running
<1>3. \A l \in Loops : Steady(l)'
  BY <1>1, <1>2, NewTaskType DEF Steady
<1>4. watchdog'.pc = "sleep"
  BY DEF Restart, Asleep, IndSession, RestInv, TimersOK, Watch
<1> QED
  BY <1>1, <1>2, <1>3, <1>4, NewTaskType DEF SoloInv, StepYields

LEMMA SoloTick ==
  ASSUME IndSession, SoloInv, Tick PROVE SoloInv' /\ StepYields
<1>1. \A k \in Loops : loop'[k].pc = loop[k].pc /\ loop'[k].subscribed = loop[k].subscribed
  <2> TAKE k \in Loops
  <2>1. loop[k] \in Task
    BY DEF IndSession, TasksInv
  <2>2. PICK n : loop'[k] = [loop[k] EXCEPT !.clock = n]
    <3>1. CASE loop[k].pc \in Sleeping
      BY <3>1 DEF Tick, Sleeping
    <3>2. CASE loop[k].pc \in {"props", "relogin"}
      BY <3>2 DEF Tick, Sleeping
    <3>3. CASE loop[k].pc \notin Sleeping \cup {"props", "relogin"}
      <4>1. loop'[k] = loop[k]
        BY <3>3 DEF Tick
      <4> QED
        BY <2>1, <4>1 DEF Task
    <3> QED
      BY <3>1, <3>2, <3>3
  <2> QED
    BY <2>1, <2>2 DEF Task
<1>2. UNCHANGED <<token, cancelled, handle, client, realtime, rpc>>
      /\ watchdog'.pc = watchdog.pc /\ watchdog'.on = watchdog.on
  BY DEF Tick, IndSession, RestInv, TimersOK, Watch
<1>3. \A l \in Loops : l \in Running /\ Hears(l) => Hears(l)'
  BY <1>2 DEF Hears
<1> QED
  BY <1>1, <1>2, <1>3, SoloStays DEF SoloInv

LEMMA SoloInit == ASSUME Init PROVE SoloInv
<1>1. \A l \in Loops : loop[l] = IF l = handle THEN NewTask ELSE NoTask
  BY DEF Init
<1>2. Live \subseteq {handle} /\ Running = {}
  BY <1>1, NewTaskType DEF Live, Started, Running
<1>3. \A l \in Loops : Steady(l)
  BY <1>1, <1>2, NewTaskType DEF Steady
<1> QED
  BY <1>2, <1>3 DEF Init, SoloInv

LEMMA SoloNext ==
  ASSUME OnlyWatchdogStarts, IndSession, IndSession', SoloInv, [Next]_vars
  PROVE  SoloInv' /\ StepYields
<1>1. ASSUME NEW l \in Loops, LoopTurn(l) \/ LoopAnswer(l) \/ Push(l)
      PROVE  SoloInv' /\ StepYields
  BY <1>1, SoloStart, SoloWake, SoloCancelled, SoloLogin, SoloListed, SoloFails,
     SoloNextDevice, SoloPolled, SoloPush, Zenon DEF LoopTurn, LoopAnswer
<1> QED
  BY <1>1, SoloWatchdog, SoloHandler, SoloOther, SoloPhone, SoloRestart, SoloTick, Zenon
  DEF Next

LEMMA SoloImplies ==
  ASSUME IndSession, SoloInv PROVE OnePollerListens
<1>1. NoOrphanLoop
  BY DEF NoOrphanLoop, Running, Started, SoloInv
<1>2. PushesKept
  BY DEF PushesKept, SoloInv, Steady, Hears, Running, Started, Live
<1> QED
  BY <1>1, <1>2 DEF OnePollerListens

\* A request for packs is never in its login.
LEMMA NoPacksLogin ==
  ASSUME OnlyWatchdogStarts, IndSession'
  PROVE  \A h \in Handlers : rpc'[h].pc # "login"
<1>1. rpc' \in [Handlers -> Request0]
  BY DEF IndSession, RestInv
<1>2. \A r \in Request0 : r.pc # "login"
  BY DEF OnlyWatchdogStarts, Request0, RequestPcs
<1> QED
  BY <1>1, <1>2

\* As long as only the watchdog replaces a poller, one poller at most runs and
\* is heard, whatever requests stop it, for any number of tasks, connections
\* and requests (bridge.py 541, 760-768, 925-960).
THEOREM OnePollerRuns ==
  ASSUME OnlyWatchdogStarts PROVE Spec => []OnePollerListens
<1>1. Init => IndSession /\ SoloInv
  BY SessionInit, SoloInit
<1>2. IndSession /\ SoloInv /\ [Next]_vars => IndSession' /\ SoloInv'
  BY OnlyWatchdogStarts, SessionNext, SoloNext
<1>3. IndSession /\ SoloInv => OnePollerListens
  BY SoloImplies
<1> QED
  BY <1>1, <1>2, <1>3, PTL DEF Spec

\* Under the same condition no login is sent during a pause or a cooldown, for
\* any lengths of them (bridge.py 688-694, 801, 1166).
THEOREM PausesAreKept ==
  ASSUME OnlyWatchdogStarts PROVE Spec => LoginsYield
<1>1. Init => IndSession /\ SoloInv
  BY SessionInit, SoloInit
<1>2. IndSession /\ SoloInv /\ [Next]_vars => IndSession' /\ SoloInv'
  BY OnlyWatchdogStarts, SessionNext, SoloNext
<1>3. IndSession /\ SoloInv /\ [Next]_vars =>
        [Yielding =>
           /\ \A l \in Loops : loop'[l].pc \in {"login", "relogin"} => loop[l].pc = loop'[l].pc
           /\ \A h \in Handlers : rpc'[h].pc = "login" => rpc[h].pc = "login"]_vars
  BY OnlyWatchdogStarts, SessionNext, SoloNext, NoPacksLogin DEF StepYields
<1> QED
  BY <1>1, <1>2, <1>3, PTL DEF Spec, LoginsYield
=============================================================================

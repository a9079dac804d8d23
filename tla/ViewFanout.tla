----------------------------- MODULE ViewFanout -----------------------------
(***************************************************************************)
(* Which device each browser is shown (server.py 750-788, 2053-2115,       *)
(* 8237-8340): its cookie, its WebSocket with the view it was opened for,  *)
(* and the broadcasts that render the status per view and send it to one   *)
(* socket after the other, with the event loop free at each send.          *)
(***************************************************************************)
EXTENDS Naturals, FiniteSets

CONSTANTS
  Browsers,   \* each with a session of its own
  Views,      \* devices of the account
  NoView,     \* no cookie: what the bridge has selected
  MaxOpened   \* bound: sockets opened

Server == "server"   \* the task that broadcasts after every poll

ASSUME FanoutAssumption ==
  NoView \notin Views /\ Server \notin Browsers /\ MaxOpened \in Nat

VARIABLES
  secured,   \* a user exists: browsers have sessions
  cookie,    \* view_device_id of each browser
  sockets,   \* opened so far
  socket,    \* ws_clients: of each browser the number of its socket, or 0
  view,      \* view_id of the socket
  shown,     \* the view of the last message a browser got
  fanout,    \* of each task that broadcasts: where its iteration is
  parted     \* history: browsers whose view and cookie may differ, see below

fanoutVars == <<secured, cookie, sockets, socket, view, shown, fanout, parted>>

ViewChoices == Views \cup {NoView}
Tasks == Browsers \cup {Server}
Clients == {b \in Browsers : socket[b] # 0}

Quiet == [pc |-> "idle", at |-> 0, size |-> 0, choice |-> NoView]

FanoutInit ==
  /\ secured \in BOOLEAN
  /\ cookie = [b \in Browsers |-> NoView]
  /\ sockets = 0 /\ socket = [b \in Browsers |-> 0]
  /\ view = [b \in Browsers |-> NoView]
  /\ shown = [b \in Browsers |-> NoView]
  /\ fanout = [t \in Tasks |-> Quiet]
  /\ parted = {}

-----------------------------------------------------------------------------
(* Sockets *)

\* The snapshot is of the view the socket was opened for; a selection of this
\* browser that has not returned yet is not in its cookie.
Connect(b) ==
  /\ socket[b] = 0 /\ sockets < MaxOpened
  /\ sockets' = sockets + 1
  /\ socket' = [socket EXCEPT ![b] = sockets + 1]
  /\ view' = [view EXCEPT ![b] = cookie[b]]
  /\ shown' = [shown EXCEPT ![b] = cookie[b]]
  /\ parted' = IF fanout[b].pc = "idle" THEN parted \ {b} ELSE parted \cup {b}
  /\ UNCHANGED <<secured, cookie, fanout>>

Without(gone) ==
  /\ socket' = [b \in Browsers |-> IF b \in gone THEN 0 ELSE socket[b]]
  /\ view' = [b \in Browsers |-> IF b \in gone THEN NoView ELSE view[b]]
  /\ shown' = [b \in Browsers |-> IF b \in gone THEN NoView ELSE shown[b]]

Disconnect(b) ==
  /\ socket[b] # 0
  /\ Without({b})
  /\ UNCHANGED <<secured, cookie, sockets, fanout, parted>>

-----------------------------------------------------------------------------
(* Broadcasts *)

\* The first of a set of sockets, in the order they were opened.
First(bs) == CHOOSE b \in bs : \A c \in bs : socket[b] <= socket[c]

\* The first message is on its way when the iteration first waits.
Iterates(t, choice, views) ==
  /\ shown' = [shown EXCEPT ![First(Clients)] = views[First(Clients)]]
  /\ fanout' = [fanout EXCEPT ![t] =
       [pc |-> "sending", at |-> socket[First(Clients)], size |-> Cardinality(Clients),
        choice |-> choice]]

PollBroadcast ==
  /\ fanout[Server].pc = "idle"
  /\ Clients # {}
  /\ Iterates(Server, NoView, view)
  /\ UNCHANGED <<secured, cookie, sockets, socket, view, parted>>

\* Mutant: sockets are recognised by the view they had.
BumpedByView(b) == {c \in Clients : view[c] = cookie[b]}

\* The sockets of the session that asks; without sessions all that have the
\* view its cookie has.
Bumped(b) == IF secured THEN {b} \cap Clients ELSE {c \in Clients : view[c] = cookie[b]}

\* The socket's view changes, everybody is refreshed, and then the answer sets
\* the cookie.
SelectView(b, v) ==
  /\ fanout[b].pc = "idle"
  /\ view' = [c \in Browsers |-> IF c \in Bumped(b) THEN v ELSE view[c]]
  /\ IF Clients # {}
       THEN Iterates(b, v, view') /\ UNCHANGED cookie
       ELSE cookie' = [cookie EXCEPT ![b] = v] /\ UNCHANGED <<shown, fanout>>
  /\ UNCHANGED <<secured, sockets, socket, parted>>

\* Sockets that the iteration has not reached.
Unreached(t) == {b \in Clients : socket[b] > fanout[t].at}

\* A socket came or went during the send: the iteration raises, and a selection
\* ends without its cookie.
Interrupted(t) ==
  /\ fanout[t].pc = "sending"
  /\ Cardinality(Clients) # fanout[t].size
  /\ fanout' = [fanout EXCEPT ![t] = Quiet]
  /\ parted' = parted \cup ({t} \cap Browsers) \cup Clients
  /\ UNCHANGED <<secured, cookie, sockets, socket, view, shown>>

SendNext(t) ==
  /\ fanout[t].pc = "sending"
  /\ Cardinality(Clients) = fanout[t].size
  /\ Unreached(t) # {}
  /\ LET b == First(Unreached(t)) IN
       /\ shown' = [shown EXCEPT ![b] = view[b]]
       /\ fanout' = [fanout EXCEPT ![t].at = socket[b]]
  /\ UNCHANGED <<secured, cookie, sockets, socket, view, parted>>

\* Sockets to which a send has failed go when all are through.
BroadcastEnds(t) ==
  /\ fanout[t].pc = "sending"
  /\ Cardinality(Clients) = fanout[t].size
  /\ Unreached(t) = {}
  /\ \E dead \in SUBSET Clients : Without(dead)
  /\ cookie' = IF t = Server THEN cookie ELSE [cookie EXCEPT ![t] = fanout[t].choice]
  /\ fanout' = [fanout EXCEPT ![t] = Quiet]
  /\ UNCHANGED <<secured, sockets, parted>>

FanoutNext ==
  \/ \E b \in Browsers : \/ Connect(b) \/ Disconnect(b)
                         \/ \E v \in Views : SelectView(b, v)
  \/ PollBroadcast
  \/ \E t \in Tasks : Interrupted(t) \/ SendNext(t) \/ BroadcastEnds(t)

FanoutSpec == FanoutInit /\ [][FanoutNext]_fanoutVars

-----------------------------------------------------------------------------
\* With sessions, a browser's socket and its cookie name the same device, and
\* the last message it got was of that device, whatever the other browsers
\* select meanwhile - unless its socket was opened during its own selection,
\* or one that came or went broke the broadcast off (server.py 8243-8244:
\* "without stomping each other").
EachSeesItsOwn ==
  secured =>
    \A b \in Clients \ parted :
      fanout[b].pc = "idle" => view[b] = cookie[b] /\ shown[b] = cookie[b]
=============================================================================

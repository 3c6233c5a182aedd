------------------------------ MODULE WSClient ------------------------------
(***************************************************************************)
(* The WebSocket test client (lib/ws_client.py): one test coroutine that   *)
(* makes one call at a time, the background receive loop that routes every *)
(* frame to a response queue or to the event accumulator, and the          *)
(* connection between them and the SAS backend.                            *)
(*                                                                         *)
(* The backend is not part of the repository.  It is modelled from what    *)
(* the client needs of it: it answers a request at most once, with one of  *)
(* the reply types of that request, in any order, or never; it may push    *)
(* messages, send frames that are not JSON (it echoes requests unescaped)  *)
(* and close the connection at any moment.                                 *)
(***************************************************************************)
EXTENDS Naturals, Sequences

CONSTANTS
  Types,      \* the values of a message's "type" field
  PushTypes,  \* those the backend also sends without being asked
  Calls,      \* the client calls a test makes, see CallKind
  Junk,       \* the kinds of frames that are no message, a subset of JunkKinds
  MaxSent,    \* bound: frames the backend sends
  MaxReqs,    \* bound: requests the client sends
  MaxCalls,   \* bound: calls the test makes
  MaxConns    \* bound: connections the test opens

JunkKinds == {"ping", "not_json", "undecodable"}

QueueOps == {"request", "request_any", "wait_for", "burst"}
Ops      == QueueOps \cup {"wait_for_condition"}

(* A call: the types it waits for, the types the backend may answer its    *)
(* requests with, and how many requests it sends (burst_same_response      *)
(* sends several, wait_for none).                                          *)
CallKind ==
  [op : Ops, types : (SUBSET Types) \ {{}}, replies : SUBSET Types, n : Nat]

ASSUME ConstantsAssumption ==
  /\ PushTypes \subseteq Types
  /\ Calls \subseteq CallKind
  /\ Junk \subseteq JunkKinds
  /\ Types \cap JunkKinds = {}
  /\ MaxSent \in Nat /\ MaxReqs \in Nat /\ MaxCalls \in Nat /\ MaxConns \in Nat
  /\ \A c \in Calls :
       /\ c.op \in {"request", "request_any"} => c.n = 1
       /\ c.op = "burst" => c.n > 0
       /\ c.op = "wait_for" => c.n = 0
       /\ c.op # "request_any" => \E t \in Types : c.types = {t}

(* A frame: the backend's sending order, its type, and the request it      *)
(* answers (0 when it answers none).                                       *)
Frame   == [id : 1 .. MaxSent, type : Types \cup JunkKinds, re : 0 .. MaxReqs]
Message == {f \in Frame : f.type \in Types}

NoMessage == [id |-> 0, type |-> "none", re |-> 0]

VARIABLES
  ws,          \* self._ws is not None
  sock,        \* the connection is up
  loop,        \* the receive task: none, running, finished or crashed
  registered,  \* the keys of self._pending_responses
  pending,     \* the response queue of each type
  events,      \* the event accumulator
  net,         \* frames on their way to the client
  outstanding, \* requests the backend has not answered
  call,        \* the call the test coroutine is in
  held,        \* what the finished get-tasks of request_any have taken
  answer,      \* the last answer a call returned
  sent, reqs, calls, conns, \* counters behind the four bounds
  seen,        \* history: id of the last frame the loop handled
  regAt,       \* history: seen when the type was registered
  taken,       \* history: id of the last message taken from the type's queue
  stale        \* history: types an abandoned request may still be answered with

connVars   == <<ws, sock, loop>>
routeVars  == <<registered, pending, events>>
serverVars == <<net, outstanding, sent>>
callVars   == <<call, held, answer, reqs, calls>>
histVars   == <<seen, regAt, taken, stale>>
vars == <<connVars, routeVars, serverVars, callVars, conns, histVars>>

Idle == [op |-> "idle", types |-> {}, replies |-> {}, toSend |-> 0, left |-> 0,
         reqs |-> {}, clean |-> FALSE]

NoAnswer == [op |-> "idle", msg |-> NoMessage, reqs |-> {}, clean |-> FALSE,
             dropped |-> {}]

Empty == [t \in Types |-> <<>>]

Init ==
  /\ ws = FALSE /\ sock = FALSE /\ loop = "none"
  /\ registered = {} /\ pending = Empty /\ events = <<>>
  /\ net = <<>> /\ outstanding = {}
  /\ call = Idle /\ held = Empty /\ answer = NoAnswer
  /\ sent = 0 /\ reqs = 0 /\ calls = 0 /\ conns = 0
  /\ seen = 0 /\ regAt = [t \in Types |-> 0] /\ taken = [t \in Types |-> 0]
  /\ stale = {}

-----------------------------------------------------------------------------
(* Connection.                                                             *)

(* connect() keeps the queues and the events of an earlier connection. *)
Connect ==
  /\ ~ws /\ call = Idle /\ conns < MaxConns
  /\ ws' = TRUE /\ sock' = TRUE /\ loop' = "running"
  /\ conns' = conns + 1
  /\ UNCHANGED <<routeVars, serverVars, callVars, histVars>>

(* disconnect() cancels the receive task, waits for it and closes the      *)
(* socket. Waiting for a task that crashed raises its exception: nothing   *)
(* changes and the socket stays open.                                      *)
Disconnect ==
  /\ ws /\ call = Idle /\ loop # "crashed"
  /\ ws' = FALSE /\ sock' = FALSE /\ loop' = "none"
  /\ net' = <<>> /\ outstanding' = {}
  /\ UNCHANGED <<routeVars, sent, callVars, conns, histVars>>

-----------------------------------------------------------------------------
(* The receive loop.                                                       *)

(* asyncio.Queue is first in, first out.  The variants that follow, here   *)
(* and below, are faults a change of the code could introduce; nothing     *)
(* uses them but the runs that show which property notices each.           *)
EnqueueInFront(q, m) == <<m>> \o q
Enqueue(q, m) == Append(q, m)

DequeuePeeks(q) == q
Dequeue(q) == Tail(q)

(* What goes to the accumulator: messages of types without a queue. *)
PinnedJunk(m) == m.type \notin registered
PinnedToo(m)  == m.type \in Types
Pinned(m) == m.type \in Types \ registered

(* The loop ignores a frame that is not JSON; one that cannot be decoded   *)
(* raises what it does not expect.                                         *)
FatalNotJson(m) == m.type \in JunkKinds \ {"ping"}
Fatal(m) == m.type = "undecodable"

(* One frame of _recv_loop, with the step of the queue or accumulator.     *)
Dispatch ==
  /\ loop = "running" /\ net # <<>>
  /\ net' = Tail(net)
  /\ seen' = Head(net).id
  /\ LET m == Head(net) IN
       /\ loop' = IF Fatal(m) THEN "crashed" ELSE "running"
       /\ pending' = IF m.type \in registered
                       THEN [pending EXCEPT ![m.type] = Enqueue(@, m)]
                       ELSE pending
       /\ events' = IF Pinned(m) THEN Append(events, m) ELSE events
  /\ UNCHANGED <<ws, sock, registered, outstanding, sent, callVars, conns,
                 regAt, taken, stale>>

(* The connection is down and every frame received before has been handled. *)
LoopEnds ==
  /\ loop = "running" /\ net = <<>> /\ ~sock
  /\ loop' = "finished"
  /\ UNCHANGED <<ws, sock, routeVars, serverVars, callVars, conns, histVars>>

-----------------------------------------------------------------------------
(* The test coroutine.                                                     *)

(* How many answers a call takes. *)
ReadsOneShort(c) == IF c.op = "burst" THEN c.n - 1 ELSE 1
Reads(c) == IF c.op = "burst" THEN c.n ELSE 1

(* A call begins: queue operations register their types (_ensure_queue). *)
Start(c) ==
  /\ ws /\ call = Idle /\ calls < MaxCalls /\ reqs + c.n <= MaxReqs
  /\ call' = [op |-> c.op, types |-> c.types, replies |-> c.replies,
              toSend |-> c.n,
              left |-> Reads(c),
              reqs |-> {},
              clean |-> c.types \cap (stale \cup PushTypes) = {}]
  /\ calls' = calls + 1
  /\ LET new == IF c.op \in QueueOps THEN c.types \ registered ELSE {} IN
       /\ registered' = registered \cup new
       /\ regAt' = [t \in Types |-> IF t \in new THEN seen ELSE regAt[t]]
  /\ UNCHANGED <<connVars, pending, events, serverVars, held, answer, reqs,
                 conns, seen, taken, stale>>

(* The next request of the call goes out. *)
Send ==
  /\ call.toSend > 0 /\ sock
  /\ reqs' = reqs + 1
  /\ outstanding' = outstanding \cup {[req |-> reqs + 1, replies |-> call.replies]}
  /\ call' = [call EXCEPT !.toSend = @ - 1, !.reqs = @ \cup {reqs + 1}]
  /\ UNCHANGED <<connVars, routeVars, net, sent, held, answer, calls, conns,
                 histVars>>

(* The call ends without an answer: what it asked may still be answered. *)
Abandon ==
  /\ call' = Idle
  /\ stale' = IF call.reqs = {} THEN stale ELSE stale \cup call.replies
  /\ UNCHANGED <<connVars, routeVars, serverVars, held, answer, reqs, calls,
                 conns, seen, regAt, taken>>

(* send() on a connection that is down raises ConnectionClosed. *)
SendFails == call.toSend > 0 /\ ~sock /\ Abandon

Waiting(ops) == call.op \in ops /\ call.toSend = 0

(* The types the call's requests may still be answered with when it ends   *)
(* with m: none when m is known to be what they were answered with.        *)
LeavesOpen(m) ==
  IF call.reqs \subseteq {m.re} \/ (call.clean /\ call.op \in QueueOps)
    THEN {} ELSE call.replies

Answer(m, dropped) ==
  [op |-> call.op, msg |-> m, reqs |-> call.reqs, clean |-> call.clean,
   dropped |-> dropped]

(* queue.get() of request, wait_for and burst_same_response returns. *)
Get(t) ==
  /\ Waiting({"request", "wait_for", "burst"})
  /\ t \in call.types /\ pending[t] # <<>>
  /\ pending' = [pending EXCEPT ![t] = Dequeue(@)]
  /\ taken' = [taken EXCEPT ![t] = Head(pending[t]).id]
  /\ answer' = Answer(Head(pending[t]), {})
  /\ IF call.left = 1
       THEN call' = Idle /\ stale' = stale \cup LeavesOpen(Head(pending[t]))
       ELSE call' = [call EXCEPT !.left = @ - 1] /\ stale' = stale
  /\ UNCHANGED <<connVars, registered, events, serverVars, held, reqs, calls,
                 conns, seen, regAt>>

(* One of the get-tasks of request_any finishes. *)
TaskGet(t) ==
  /\ Waiting({"request_any"})
  /\ t \in call.types /\ held[t] = <<>> /\ pending[t] # <<>>
  /\ held' = [held EXCEPT ![t] = <<Head(pending[t])>>]
  /\ pending' = [pending EXCEPT ![t] = Dequeue(@)]
  /\ taken' = [taken EXCEPT ![t] = Head(pending[t]).id]
  /\ UNCHANGED <<connVars, registered, events, serverVars, call, answer, reqs,
                 calls, conns, seen, regAt, stale>>

(* asyncio.wait returns with at least one task done; request_any returns   *)
(* the result of one of them and forgets the others.                       *)
AnyReturn(t) ==
  /\ Waiting({"request_any"})
  /\ held[t] # <<>>
  /\ answer' = Answer(Head(held[t]),
                      {Head(held[u]).id : u \in {v \in Types \ {t} : held[v] # <<>>}})
  /\ held' = Empty
  /\ call' = Idle
  /\ stale' = stale \cup LeavesOpen(Head(held[t]))
  /\ UNCHANGED <<connVars, routeVars, serverVars, reqs, calls, conns,
                 seen, regAt, taken>>

TimeoutNotAny == Waiting(QueueOps \ {"request_any"}) /\ Abandon

(* wait_for or asyncio.wait times out. An answer that has been queued but  *)
(* not yet taken does not prevent it, and stays in its queue.              *)
Timeout ==
  /\ Waiting(QueueOps)
  /\ held = Empty
  /\ Abandon

(* A poll of wait_for_condition returns the first event that matches,      *)
(* which need not be what the call's own request is answered with.         *)
PollReturns(i) ==
  /\ Waiting({"wait_for_condition"})
  /\ i \in DOMAIN events
  /\ events[i].type \in call.types
  /\ \A j \in 1 .. i - 1 : events[j].type \notin call.types
  /\ answer' = Answer(events[i], {})
  /\ call' = Idle
  /\ stale' = stale \cup LeavesOpen(events[i])
  /\ UNCHANGED <<connVars, routeVars, serverVars, held, reqs, calls, conns,
                 seen, regAt, taken>>

(* A poll finds nothing, and the deadline has passed. *)
PollTimesOut ==
  /\ Waiting({"wait_for_condition"})
  /\ \A j \in DOMAIN events : events[j].type \notin call.types
  /\ Abandon

-----------------------------------------------------------------------------
(* The backend and the network.                                            *)

Emit(type, re) ==
  /\ sock /\ sent < MaxSent
  /\ sent' = sent + 1
  /\ net' = Append(net, [id |-> sent + 1, type |-> type, re |-> re])
  /\ UNCHANGED <<connVars, routeVars, callVars, conns, histVars>>

Reply(o, t) ==
  /\ t \in o.replies
  /\ Emit(t, o.req)
  /\ outstanding' = outstanding \ {o}

Push(t) == Emit(t, 0) /\ UNCHANGED outstanding

(* The backend stops or is killed: frames already received stay readable. *)
ServerCloses ==
  /\ sock
  /\ sock' = FALSE
  /\ outstanding' = {}
  /\ UNCHANGED <<ws, loop, routeVars, net, sent, callVars, conns, histVars>>

-----------------------------------------------------------------------------
(* The test has made its calls and torn the client down. *)
Finished ==
  /\ call = Idle
  /\ (~ws /\ conns = MaxConns) \/ loop = "crashed"
  /\ UNCHANGED vars

CallerStep ==
  \/ Send \/ SendFails \/ Timeout \/ PollTimesOut
  \/ \E t \in Types : Get(t) \/ TaskGet(t) \/ AnyReturn(t)
  \/ \E i \in DOMAIN events : PollReturns(i)

LoopStep == Dispatch \/ LoopEnds

ServerStep ==
  \/ \E o \in outstanding, t \in Types : Reply(o, t)
  \/ \E t \in PushTypes \cup Junk : Push(t)
  \/ ServerCloses

Next ==
  \/ Connect
  \/ Disconnect
  \/ \E c \in Calls : Start(c)
  \/ CallerStep
  \/ LoopStep
  \/ ServerStep
  \/ Finished

Spec == Init /\ [][Next]_vars

(* The event loop runs every task that is ready, and timers fire: the test *)
(* coroutine in a call and the receive loop do not stop.  Nothing is asked *)
(* of the backend, nor that the test makes a further call.                 *)
FairSpec == Spec /\ WF_vars(CallerStep) /\ WF_vars(LoopStep)

-----------------------------------------------------------------------------
(* Properties.                                                             *)

CallState ==
  [op : Ops \cup {"idle"}, types : SUBSET Types, replies : SUBSET Types,
   toSend : Nat, left : Nat, reqs : SUBSET (1 .. MaxReqs), clean : BOOLEAN]

AnswerState ==
  [op : Ops \cup {"idle"}, msg : Message \cup {NoMessage},
   reqs : SUBSET (1 .. MaxReqs), clean : BOOLEAN,
   dropped : SUBSET (1 .. MaxSent)]

(* Every variable of the client has its type: what the attributes of       *)
(* WSClient.__init__ and of a call in progress can hold.                   *)
TypeOK ==
  /\ ws \in BOOLEAN /\ sock \in BOOLEAN
  /\ loop \in {"none", "running", "finished", "crashed"}
  /\ registered \in SUBSET Types
  /\ pending \in [Types -> Seq(Message)]
  /\ events \in Seq(Message)
  /\ net \in Seq(Frame)
  /\ outstanding \in SUBSET [req : 1 .. MaxReqs, replies : SUBSET Types]
  /\ call \in CallState
  /\ held \in [Types -> Seq(Message)]
  /\ answer \in AnswerState
  /\ sent \in 0 .. MaxSent /\ reqs \in 0 .. MaxReqs
  /\ calls \in 0 .. MaxCalls /\ conns \in 0 .. MaxConns
  /\ seen \in 0 .. MaxSent
  /\ regAt \in [Types -> 0 .. MaxSent] /\ taken \in [Types -> 0 .. MaxSent]
  /\ stale \in SUBSET Types

Ascending(s) == \A i, j \in DOMAIN s : i < j => s[i].id < s[j].id

(* The queue of a type holds the messages of that type in the order the    *)
(* backend sent them, all received since the type was registered and none  *)
(* older than one already taken: a timeout, a cancelled get-task or a      *)
(* reconnect reorders and repeats nothing.                                 *)
QueueInOrder ==
  \A t \in Types :
    /\ Ascending(pending[t])
    /\ \A i \in DOMAIN pending[t] :
         /\ pending[t][i].type = t
         /\ pending[t][i].id > taken[t]
         /\ pending[t][i].id > regAt[t]

(* Registration is for good: once a type has a response queue, no message  *)
(* of that type reaches the event accumulator any more, so that            *)
(* wait_for_condition and events.wait_for_event see only messages received *)
(* before some earlier call registered the type.                           *)
RoutedOnce ==
  \A i \in DOMAIN events :
    events[i].type \in registered => events[i].id <= regAt[events[i].type]

(* Answers are matched to requests by type alone.  That is sound as long   *)
(* as nothing else of the type can arrive: a request whose types are never *)
(* pushed and could not be the late answer of an abandoned request gets    *)
(* the answer to itself, across calls, bursts, reconnects and timeouts.    *)
AnswersItsRequest ==
  answer.clean /\ answer.op \in {"request", "request_any", "burst"}
    => answer.msg.re \in answer.reqs

(* Under the same condition request_any throws no message away: the two    *)
(* get-tasks never both finish.                                            *)
NothingDropped == answer.clean => answer.dropped = {}

(* The client implements the mailbox contract. A message a finished        *)
(* get-task holds still counts as being at the head of its mailbox.        *)
Box == INSTANCE Mailbox WITH
  inbox  <- [t \in Types |-> held[t] \o pending[t]],
  board  <- events,
  open   <- IF call.op \in QueueOps THEN call.types ELSE {},
  answer <- answer.msg

ImplementsMailbox == Box!Spec

(* Every call ends, with an answer or an exception, whatever the backend   *)
(* and the connection do: no call waits without a deadline.                *)
CallsEnd == call # Idle ~> call = Idle

(* As long as the backend sends nothing that kills the loop, every frame   *)
(* on the wire is handled or dropped with its connection: echoes, pings    *)
(* and late answers never block the messages behind them.                  *)
FramesHandled == []<>(net = <<>>)

-----------------------------------------------------------------------------
(* What the comments of the code say and the code does not do.             *)

(* "connection closed or task cancelled: exit" (docstring of _recv_loop):  *)
(* the loop stops for no other reason.                                     *)
LoopStopsOnlyWhenClosed == ws /\ sock => loop = "running"

(* "request-response matching" (docstring of the module): the answer a     *)
(* request returns is the answer to that request.                          *)
RequestMatchesResponse ==
  answer.op \in {"request", "request_any"} => answer.msg.re \in answer.reqs

(* "visible to get_system_params at once" (barcode/test_barcode_autobind): *)
(* the parameters returned were read after they were asked for.            *)
ParamsAreFresh ==
  answer.op = "wait_for_condition" /\ answer.reqs # {}
    => answer.msg.re \in answer.reqs
=============================================================================

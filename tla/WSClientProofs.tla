--------------------------- MODULE WSClientProofs ---------------------------
(***************************************************************************)
(* Machine-checked proofs about the WebSocket client, for every set of     *)
(* types and calls and every value of the bounds.                          *)
(***************************************************************************)
EXTENDS WSClient, SequenceTheorems, FiniteSetTheorems, TLAPS

(* The abbreviations of the variable tuples, for UNCHANGED. *)
USE DEF connVars, routeVars, serverVars, callVars, histVars

-----------------------------------------------------------------------------
(* Type correctness.                                                       *)

(* TypeOK alone is not inductive: that reqs stays within its bound rests   *)
(* on the requests the current call has yet to send being counted in, and  *)
(* that the answers left to read stay a number on there being one.         *)
Reserved ==
  /\ reqs + call.toSend <= MaxReqs
  /\ call.op # "idle" => call.left > 0
TypeInv  == TypeOK /\ Reserved

LEMMA InitTypeInv == Init => TypeInv
<1> SUFFICES ASSUME Init PROVE TypeInv
  OBVIOUS
<1> USE ConstantsAssumption DEF Init
<1>1. Empty \in [Types -> Seq(Message)]
  BY DEF Empty
<1>2. call \in CallState
  BY DEF CallState, Idle
<1>3. answer \in AnswerState
  BY DEF AnswerState, NoAnswer
<1>4. events \in Seq(Message) /\ net \in Seq(Frame)
  BY EmptySeq
<1>5. Reserved
  BY DEF Reserved, Idle
<1>6. /\ sent \in 0 .. MaxSent /\ reqs \in 0 .. MaxReqs
      /\ calls \in 0 .. MaxCalls /\ conns \in 0 .. MaxConns
      /\ seen \in 0 .. MaxSent
      /\ regAt \in [Types -> 0 .. MaxSent] /\ taken \in [Types -> 0 .. MaxSent]
  OBVIOUS
<1>7. ws \in BOOLEAN /\ sock \in BOOLEAN
  OBVIOUS
<1> QED
  BY <1>1, <1>2, <1>3, <1>4, <1>5, <1>6, <1>7 DEF TypeOK, TypeInv

(* A message the caller is handed makes a well-typed answer. *)
LEMMA AnswerType ==
  ASSUME TypeOK, NEW m \in Message, NEW D \in SUBSET (1 .. MaxSent)
  PROVE  Answer(m, D) \in AnswerState
BY DEF TypeOK, Answer, AnswerState, CallState

(* Taking the head of a queue leaves well-typed queues and history. *)
LEMMA TakeType ==
  ASSUME TypeOK, NEW t \in Types, pending[t] # <<>>
  PROVE  /\ Head(pending[t]) \in Message
         /\ Head(pending[t]).id \in 1 .. MaxSent
         /\ [pending EXCEPT ![t] = Tail(@)] \in [Types -> Seq(Message)]
         /\ [taken EXCEPT ![t] = Head(pending[t]).id] \in [Types -> 0 .. MaxSent]
<1>1. pending[t] \in Seq(Message)
  BY DEF TypeOK
<1>2. Head(pending[t]) \in Message /\ Tail(pending[t]) \in Seq(Message)
  BY <1>1, HeadTailProperties
<1>3. Head(pending[t]).id \in 1 .. MaxSent
  BY <1>2 DEF Message, Frame
<1> QED
  BY <1>2, <1>3, ConstantsAssumption DEF TypeOK

LEMMA AbandonTypeInv == TypeInv /\ Abandon => TypeInv'
BY ConstantsAssumption
   DEF TypeInv, TypeOK, Reserved, Abandon, Idle, CallState

LEMMA EmitTypeInv ==
  ASSUME TypeInv, NEW type \in Types \cup JunkKinds, NEW re \in 0 .. MaxReqs,
         Emit(type, re), outstanding' \subseteq outstanding
  PROVE  TypeInv'
<1> DEFINE f == [id |-> sent + 1, type |-> type, re |-> re]
<1>1. f \in Frame /\ sent' \in 0 .. MaxSent
  BY ConstantsAssumption DEF TypeInv, TypeOK, Emit, Frame
<1>2. net' \in Seq(Frame)
  BY <1>1, AppendProperties DEF TypeInv, TypeOK, Emit
<1> QED
  BY <1>1, <1>2 DEF TypeInv, TypeOK, Reserved, Emit

LEMMA StepTypeInv == TypeInv /\ [Next]_vars => TypeInv'
<1> SUFFICES ASSUME TypeInv, [Next]_vars PROVE TypeInv'
  OBVIOUS
<1> USE ConstantsAssumption DEF TypeInv
<1>1. CASE Connect
  BY <1>1 DEF TypeOK, Reserved, Connect
<1>2. CASE Disconnect
  BY <1>2, EmptySeq DEF TypeOK, Reserved, Disconnect
<1>3. ASSUME NEW c \in Calls, Start(c) PROVE TypeInv'
  <2>1. c \in CallKind
    OBVIOUS
  <2>2. call' \in CallState
    BY <1>3, <2>1 DEF TypeOK, Start, Reads, CallKind, CallState
  <2>3. registered' \in SUBSET Types
    BY <1>3, <2>1 DEF TypeOK, Start, CallKind
  <2>4. regAt' \in [Types -> 0 .. MaxSent]
    BY <1>3 DEF TypeOK, Start
  <2>5. calls' \in 0 .. MaxCalls
    BY <1>3 DEF TypeOK, Start
  <2>6. Reserved'
    <3>1. call'.toSend = c.n /\ reqs' = reqs /\ reqs + c.n <= MaxReqs
      BY <1>3 DEF Start, Reads
    <3>2. call'.left > 0
      BY <1>3, <2>1 DEF Start, Reads, CallKind
    <3> QED
      BY <3>1, <3>2 DEF Reserved
  <2> QED
    BY <1>3, <2>2, <2>3, <2>4, <2>5, <2>6 DEF TypeOK, Start
<1>4. CASE Send
  <2>1. reqs + 1 \in 1 .. MaxReqs
    BY <1>4 DEF TypeOK, CallState, Reserved, Send
  <2>2. outstanding' \in SUBSET [req : 1 .. MaxReqs, replies : SUBSET Types]
    BY <1>4, <2>1 DEF TypeOK, Send, CallState
  <2>3. call.toSend - 1 \in Nat /\ call.reqs \cup {reqs + 1} \in SUBSET (1 .. MaxReqs)
    BY <1>4, <2>1 DEF TypeOK, Send, CallState
  <2>4. call' \in CallState
    BY <1>4, <2>3 DEF TypeOK, Send, CallState
  <2>5. call'.toSend = call.toSend - 1 /\ call'.op = call.op /\ call'.left = call.left
    BY <1>4 DEF TypeOK, Send, CallState
  <2>6. Reserved'
    BY <1>4, <2>3, <2>5 DEF TypeOK, Send, CallState, Reserved
  <2> QED
    BY <1>4, <2>1, <2>2, <2>4, <2>6 DEF TypeOK, Send
<1>5. CASE SendFails
  BY <1>5, AbandonTypeInv DEF SendFails
<1>6. CASE Timeout
  BY <1>6, AbandonTypeInv DEF Timeout
<1>7. CASE PollTimesOut
  BY <1>7, AbandonTypeInv DEF PollTimesOut
<1>8. ASSUME NEW t \in Types, Get(t) PROVE TypeInv'
  <2>1. answer' \in AnswerState
    BY <1>8, TakeType, AnswerType DEF Get
  <2>2. call.op # "idle" /\ call.left \in Nat /\ call.left > 0
    BY <1>8 DEF TypeOK, Get, CallState, Reserved, Waiting
  <2>3. CASE call.left = 1
    <3>1. call' = Idle
      BY <1>8, <2>3 DEF Get
    <3>2. call' \in CallState /\ stale' \in SUBSET Types
      BY <1>8, <2>3, <3>1 DEF TypeOK, Get, LeavesOpen, CallState, Idle
    <3>3. Reserved'
      BY <1>8, <3>1 DEF TypeOK, Get, Idle, Reserved
    <3> QED
      BY <1>8, <2>1, <3>2, <3>3, TakeType DEF TypeOK, Get, Dequeue
  <2>4. CASE call.left # 1
    <3>1. call' = [call EXCEPT !.left = @ - 1]
      BY <1>8, <2>4 DEF Get
    <3>2. call.left - 1 \in Nat /\ call.left - 1 > 0
      BY <2>2, <2>4
    <3>3. call' \in CallState
      BY <3>1, <3>2 DEF TypeOK, CallState
    <3>4. call'.toSend = call.toSend /\ call'.left = call.left - 1
      BY <3>1 DEF TypeOK, CallState
    <3>5. Reserved'
      BY <1>8, <3>2, <3>4 DEF Get, Reserved
    <3> QED
      BY <1>8, <2>1, <2>4, <3>3, <3>5, TakeType DEF TypeOK, Get, Dequeue
  <2> QED
    BY <2>3, <2>4
<1>9. ASSUME NEW t \in Types, TaskGet(t) PROVE TypeInv'
  <2>1. held' \in [Types -> Seq(Message)]
    BY <1>9, TakeType DEF TypeOK, TaskGet
  <2> QED
    BY <1>9, <2>1, TakeType DEF TypeOK, TaskGet, Dequeue, Reserved
<1>10. ASSUME NEW t \in Types, AnyReturn(t) PROVE TypeInv'
  <2>1. \A u \in Types : held[u] # <<>> => Head(held[u]) \in Message
    BY HeadTailProperties DEF TypeOK
  <2>2. \A m \in Message : m.id \in 1 .. MaxSent
    BY DEF Message, Frame
  <2>3. {Head(held[u]).id : u \in {v \in Types \ {t} : held[v] # <<>>}}
          \in SUBSET (1 .. MaxSent)
    BY <2>1, <2>2
  <2>4. answer' \in AnswerState
    BY <1>10, <2>1, <2>3, AnswerType DEF AnyReturn
  <2>5. call' \in CallState /\ Reserved'
    BY <1>10 DEF TypeOK, AnyReturn, CallState, Idle, Reserved, Waiting
  <2>6. held' \in [Types -> Seq(Message)]
    BY <1>10, EmptySeq DEF AnyReturn, Empty
  <2>7. stale' \in SUBSET Types
    BY <1>10 DEF TypeOK, AnyReturn, LeavesOpen, CallState
  <2> QED
    BY <1>10, <2>4, <2>5, <2>6, <2>7 DEF TypeOK, AnyReturn
<1>11. ASSUME NEW i \in DOMAIN events, PollReturns(i) PROVE TypeInv'
  <2>1. events[i] \in Message
    BY ElementOfSeq, LenProperties DEF TypeOK
  <2>2. answer' \in AnswerState
    BY <1>11, <2>1, AnswerType DEF PollReturns
  <2>3. call' \in CallState /\ Reserved'
    BY <1>11 DEF TypeOK, PollReturns, CallState, Idle, Reserved, Waiting
  <2>4. stale' \in SUBSET Types
    BY <1>11 DEF TypeOK, PollReturns, LeavesOpen, CallState
  <2> QED
    BY <1>11, <2>2, <2>3, <2>4 DEF TypeOK, PollReturns
<1>12. CASE Dispatch
  <2> DEFINE m == Head(net)
  <2>1. m \in Frame /\ net' \in Seq(Frame)
    BY <1>12, HeadTailProperties DEF TypeOK, Dispatch
  <2>2. m.type \in Types => m \in Message
    BY <2>1 DEF Message
  <2>3. pending' \in [Types -> Seq(Message)]
    BY <1>12, <2>2, AppendProperties DEF TypeOK, Dispatch, Enqueue
  <2>4. events' \in Seq(Message)
    BY <1>12, <2>2, AppendProperties DEF TypeOK, Dispatch, Pinned
  <2>5. seen' \in 0 .. MaxSent
    BY <1>12, <2>1 DEF Dispatch, Frame
  <2>6. loop' \in {"none", "running", "finished", "crashed"}
    BY <1>12 DEF Dispatch, Fatal
  <2> QED
    BY <1>12, <2>1, <2>3, <2>4, <2>5, <2>6 DEF TypeOK, Dispatch, Reserved
<1>13. CASE LoopEnds
  BY <1>13 DEF TypeOK, LoopEnds, Reserved
<1>14. ASSUME NEW o \in outstanding, NEW t \in Types, Reply(o, t) PROVE TypeInv'
  <2>1. o.req \in 0 .. MaxReqs
    BY DEF TypeOK
  <2>2. outstanding' \subseteq outstanding
    BY <1>14 DEF Reply
  <2> QED
    BY <1>14, <2>1, <2>2, EmitTypeInv DEF Reply
<1>15. ASSUME NEW t \in PushTypes \cup Junk, Push(t) PROVE TypeInv'
  BY <1>15, EmitTypeInv DEF Push
<1>16. CASE ServerCloses
  BY <1>16 DEF TypeOK, ServerCloses, Reserved
<1>17. CASE UNCHANGED vars
  BY <1>17 DEF TypeOK, vars, Reserved, CallState
<1> QED
  BY <1>1, <1>2, <1>3, <1>4, <1>5, <1>6, <1>7, <1>8, <1>9, <1>10, <1>11, <1>12,
     <1>13, <1>14, <1>15, <1>16, <1>17
  DEF Next, CallerStep, LoopStep, ServerStep, Finished

(* TypeOK holds in every state: no step of the client, the backend or the  *)
(* network puts a value of the wrong kind in a queue, the accumulator or a *)
(* call in progress, and no call sends more requests than it may.          *)
THEOREM TypeCorrect == Spec => []TypeOK
<1>1. Spec => []TypeInv
  BY InitTypeInv, StepTypeInv, PTL DEF Spec
<1>2. TypeInv => TypeOK
  BY DEF TypeInv
<1> QED
  BY <1>1, <1>2, PTL

-----------------------------------------------------------------------------
(* Order of delivery and routing.                                          *)

LEMMA SeqElements ==
  ASSUME NEW S, NEW s \in Seq(S)
  PROVE  DOMAIN s = 1 .. Len(s) /\ \A i \in DOMAIN s : s[i] \in S
BY ElementOfSeq, LenProperties

LEMMA FrameIds ==
  ASSUME NEW s \in Seq(Frame)
  PROVE  \A i \in DOMAIN s : s[i] \in Frame /\ s[i].id \in Nat
<1>1. \A i \in DOMAIN s : s[i] \in Frame
  BY SeqElements
<1>2. \A f \in Frame : f.id \in Nat
  BY ConstantsAssumption DEF Frame
<1> QED
  BY <1>1, <1>2

LEMMA AppendAscending ==
  ASSUME NEW s \in Seq(Frame), NEW f \in Frame, Ascending(s),
         \A i \in DOMAIN s : s[i].id < f.id
  PROVE  Ascending(Append(s, f))
BY AppendProperties DEF Ascending

LEMMA TailAscending ==
  ASSUME NEW s \in Seq(Frame), s # <<>>, Ascending(s)
  PROVE  /\ Ascending(Tail(s))
         /\ \A i \in DOMAIN Tail(s) : /\ Tail(s)[i] = s[i + 1]
                                      /\ i + 1 \in DOMAIN s
                                      /\ Head(s).id < Tail(s)[i].id
<1>1. DOMAIN s = 1 .. Len(s) /\ Len(s) \in Nat \ {0} /\ Head(s) = s[1]
  BY LenProperties, EmptySeq
<1>2. Tail(s) \in Seq(Frame) /\ Len(Tail(s)) = Len(s) - 1
      /\ \A i \in 1 .. Len(Tail(s)) : Tail(s)[i] = s[i + 1]
  BY HeadTailProperties
<1>3. DOMAIN Tail(s) = 1 .. Len(s) - 1
  BY <1>2, LenProperties
<1>4. \A i \in DOMAIN Tail(s) : Tail(s)[i] = s[i + 1] /\ i + 1 \in DOMAIN s
  BY <1>1, <1>2, <1>3
<1>5. \A i \in DOMAIN Tail(s) : 1 < i + 1
  BY <1>3
<1> QED
  BY <1>1, <1>3, <1>4, <1>5 DEF Ascending

LEMMA MessageIsFrame == Message \subseteq Frame /\ Seq(Message) \subseteq Seq(Frame)
BY SeqMonotonic DEF Message

(* seen splits the frames: what is on the wire is later, what is in a      *)
(* queue, on the event list or already taken is not.                       *)
WireInv ==
  /\ seen <= sent
  /\ Ascending(net)
  /\ \A i \in DOMAIN net : seen < net[i].id /\ net[i].id <= sent

QueueInv ==
  /\ QueueInOrder
  /\ \A t \in Types :
       /\ taken[t] <= seen /\ regAt[t] <= seen
       /\ \A i \in DOMAIN pending[t] : pending[t][i].id <= seen
       /\ t \notin registered => pending[t] = <<>>

EventInv ==
  /\ RoutedOnce
  /\ \A i \in DOMAIN events : events[i].id <= seen

OrderInv == WireInv /\ QueueInv /\ EventInv

LEMMA InitOrderInv == Init => OrderInv
BY EmptySeq DEF Init, OrderInv, WireInv, QueueInv, EventInv, QueueInOrder,
   RoutedOnce, Ascending, Empty

(* A frame the backend sends is later than all others. *)
LEMMA EmitOrderInv ==
  ASSUME TypeInv, OrderInv, NEW type \in Types \cup JunkKinds,
         NEW re \in 0 .. MaxReqs, Emit(type, re)
  PROVE  OrderInv'
<1> DEFINE f == [id |-> sent + 1, type |-> type, re |-> re]
<1>1. f \in Frame /\ net \in Seq(Frame) /\ sent \in Nat /\ seen \in Nat
  BY ConstantsAssumption DEF TypeInv, TypeOK, Emit, Frame
<1>2. \A i \in DOMAIN net : net[i] \in Frame /\ net[i].id \in Nat
  BY <1>1, FrameIds
<1>3. Ascending(net')
  BY <1>1, <1>2, AppendAscending DEF Emit, OrderInv, WireInv
<1>4. WireInv'
  BY <1>1, <1>2, <1>3, AppendProperties DEF Emit, OrderInv, WireInv
<1>5. QueueInv' /\ EventInv'
  BY DEF Emit, OrderInv, QueueInv, EventInv, QueueInOrder, RoutedOnce, Ascending
<1> QED
  BY <1>4, <1>5 DEF OrderInv

(* Taking the head of a queue leaves the rest in order and later. *)
LEMMA TakeQueueInv ==
  ASSUME TypeInv, OrderInv, NEW t \in Types, pending[t] # <<>>,
         pending' = [pending EXCEPT ![t] = Tail(@)],
         taken' = [taken EXCEPT ![t] = Head(pending[t]).id],
         UNCHANGED <<registered, seen, regAt>>
  PROVE  QueueInv'
<1> USE DEF OrderInv, QueueInv, QueueInOrder
<1>1. pending[t] \in Seq(Frame) /\ pending[t] \in Seq(Message)
  BY MessageIsFrame DEF TypeInv, TypeOK
<1>2. /\ Ascending(Tail(pending[t]))
      /\ \A i \in DOMAIN Tail(pending[t]) :
           /\ Tail(pending[t])[i] = pending[t][i + 1]
           /\ i + 1 \in DOMAIN pending[t]
           /\ Head(pending[t]).id < Tail(pending[t])[i].id
  BY <1>1, TailAscending
<1>3. Head(pending[t]) = pending[t][1] /\ 1 \in DOMAIN pending[t]
  BY <1>1, LenProperties, EmptySeq
<1>4. /\ pending'[t] = Tail(pending[t]) /\ taken'[t] = Head(pending[t]).id
      /\ \A u \in Types \ {t} : pending'[u] = pending[u] /\ taken'[u] = taken[u]
  BY DEF TypeInv, TypeOK
<1>5. \A i \in DOMAIN pending'[t] :
        /\ pending'[t][i].type = t
        /\ pending'[t][i].id > taken'[t]
        /\ pending'[t][i].id > regAt'[t]
        /\ pending'[t][i].id <= seen'
  <2>1. \A j \in DOMAIN pending[t] :
          pending[t][j].type = t /\ pending[t][j].id > regAt[t] /\ pending[t][j].id <= seen
    OBVIOUS
  <2>2. \A j \in DOMAIN pending[t] : pending[t][j].id \in Nat
    BY <1>1, FrameIds
  <2>3. Head(pending[t]).id \in Nat
    BY <1>3, <2>2
  <2>4. ASSUME NEW i \in DOMAIN Tail(pending[t])
        PROVE  LET e == Tail(pending[t])[i] IN
                 /\ e.type = t
                 /\ e.id > Head(pending[t]).id
                 /\ e.id > regAt[t]
                 /\ e.id <= seen
    <3>1. Tail(pending[t])[i] = pending[t][i + 1] /\ i + 1 \in DOMAIN pending[t]
      BY <1>2
    <3>2. Head(pending[t]).id < Tail(pending[t])[i].id
      BY <1>2
    <3>3. Tail(pending[t])[i].id \in Nat
      BY <3>1, <2>2
    <3> QED
      BY <3>1, <3>2, <3>3, <2>1, <2>3
  <2> QED
    BY <1>4, <2>4
<1>6. Ascending(pending'[t]) /\ taken'[t] <= seen' /\ regAt'[t] <= seen'
  BY <1>2, <1>3, <1>4
<1>7. t \in registered
  OBVIOUS
<1>8. ASSUME NEW u \in Types \ {t}
      PROVE  /\ Ascending(pending'[u])
             /\ \A i \in DOMAIN pending'[u] :
                  /\ pending'[u][i].type = u
                  /\ pending'[u][i].id > taken'[u]
                  /\ pending'[u][i].id > regAt'[u]
                  /\ pending'[u][i].id <= seen'
             /\ taken'[u] <= seen' /\ regAt'[u] <= seen'
             /\ u \notin registered' => pending'[u] = <<>>
  BY <1>4
<1> QED
  BY <1>5, <1>6, <1>7, <1>8 DEF Ascending

(* The frame the loop handles is later than what it has handled, and goes  *)
(* to the end of one queue or of the events.                               *)
LEMMA DispatchOrderInv ==
  ASSUME TypeInv, OrderInv, Dispatch
  PROVE  OrderInv'
<1> DEFINE m == Head(net)
<1>1. net \in Seq(Frame) /\ net # <<>> /\ m \in Frame /\ seen \in Nat
  BY HeadTailProperties DEF TypeInv, TypeOK, Dispatch
<1>2. m = net[1] /\ 1 \in DOMAIN net
  BY <1>1, LenProperties, EmptySeq
<1>3. seen' = m.id /\ seen < m.id /\ m.id <= sent /\ m.id \in Nat
  BY <1>1, <1>2 DEF Dispatch, OrderInv, WireInv, Frame
<1>4. WireInv'
  <2>1. Ascending(net') /\ \A i \in DOMAIN net' :
          net'[i] = net[i + 1] /\ i + 1 \in DOMAIN net /\ m.id < net'[i].id
    BY <1>1, TailAscending DEF Dispatch, OrderInv, WireInv
  <2> QED
    BY <1>3, <2>1 DEF Dispatch, OrderInv, WireInv
<1>5. QueueInv'
  <2>1. CASE m.type \in registered
    <3>1. m.type \in Types /\ m \in Message
      BY <1>1, <2>1 DEF TypeInv, TypeOK, Message
    <3> DEFINE q == pending[m.type]
    <3>2. q \in Seq(Frame) /\ pending'[m.type] = Append(q, m)
      BY <2>1, <3>1, MessageIsFrame DEF TypeInv, TypeOK, Dispatch, Enqueue
    <3>3. \A u \in Types \ {m.type} : pending'[u] = pending[u]
      BY <2>1 DEF TypeInv, TypeOK, Dispatch
    <3>4. \A i \in DOMAIN q : q[i].id <= seen /\ q[i].id \in Nat
      BY <3>1, <3>2, FrameIds DEF OrderInv, QueueInv
    <3>5. Ascending(pending'[m.type])
      BY <1>1, <1>3, <3>1, <3>2, <3>4, AppendAscending
      DEF OrderInv, QueueInv, QueueInOrder
    <3>6. \A i \in DOMAIN pending'[m.type] :
            \/ i \in DOMAIN q /\ pending'[m.type][i] = q[i]
            \/ pending'[m.type][i] = m
      BY <1>1, <3>2, AppendProperties, LenProperties
    <3>7. /\ taken[m.type] \in Nat /\ regAt[m.type] \in Nat
          /\ taken[m.type] <= seen /\ regAt[m.type] <= seen
      BY <3>1 DEF TypeInv, TypeOK, OrderInv, QueueInv
    <3>8. \A i \in DOMAIN pending'[m.type] :
            /\ pending'[m.type][i].type = m.type
            /\ pending'[m.type][i].id > taken[m.type]
            /\ pending'[m.type][i].id > regAt[m.type]
            /\ pending'[m.type][i].id <= seen'
      BY <1>1, <1>3, <3>1, <3>4, <3>6, <3>7 DEF OrderInv, QueueInv, QueueInOrder
    <3>9. ASSUME NEW u \in Types \ {m.type}
          PROVE  /\ Ascending(pending'[u])
                 /\ \A i \in DOMAIN pending'[u] :
                      /\ pending'[u][i].type = u
                      /\ pending'[u][i].id > taken[u]
                      /\ pending'[u][i].id > regAt[u]
                      /\ pending'[u][i].id <= seen'
                 /\ u \notin registered => pending'[u] = <<>>
      <4>1. pending[u] \in Seq(Frame)
        BY MessageIsFrame DEF TypeInv, TypeOK
      <4>2. \A i \in DOMAIN pending[u] : pending[u][i].id \in Nat
        BY <4>1, FrameIds
      <4> QED
        BY <1>1, <1>3, <3>3, <4>2 DEF OrderInv, QueueInv, QueueInOrder
    <3>10. \A u \in Types : taken[u] <= seen' /\ regAt[u] <= seen'
      BY <1>1, <1>3 DEF TypeInv, TypeOK, OrderInv, QueueInv
    <3> QED
      BY <2>1, <3>5, <3>8, <3>9, <3>10 DEF Dispatch, QueueInv, QueueInOrder, Ascending
  <2>2. CASE m.type \notin registered
    <3>1. ASSUME NEW u \in Types
          PROVE  /\ taken[u] <= seen' /\ regAt[u] <= seen'
                 /\ \A i \in DOMAIN pending[u] : pending[u][i].id <= seen'
      <4>1. pending[u] \in Seq(Frame)
        BY MessageIsFrame DEF TypeInv, TypeOK
      <4>2. \A i \in DOMAIN pending[u] : pending[u][i].id \in Nat
        BY <4>1, FrameIds
      <4> QED
        BY <1>1, <1>3, <4>2 DEF TypeInv, TypeOK, OrderInv, QueueInv
    <3>2. pending' = pending
      BY <2>2 DEF Dispatch
    <3> QED
      BY <3>1, <3>2 DEF Dispatch, OrderInv, QueueInv, QueueInOrder, Ascending
  <2> QED
    BY <2>1, <2>2
<1>6. EventInv'
  <2>1. events \in Seq(Frame) /\ \A i \in DOMAIN events : events[i].id \in Nat
    BY MessageIsFrame, FrameIds DEF TypeInv, TypeOK
  <2>2. \A i \in DOMAIN events' :
          \/ i \in DOMAIN events /\ events'[i] = events[i]
          \/ m.type \notin registered /\ events'[i] = m
    BY <1>1, <2>1, AppendProperties, LenProperties DEF Dispatch, Pinned
  <2> QED
    BY <1>1, <1>3, <2>1, <2>2 DEF Dispatch, OrderInv, EventInv, RoutedOnce
<1> QED
  BY <1>4, <1>5, <1>6 DEF OrderInv

(* A type registered now has an empty queue and only older events. *)
LEMMA StartOrderInv ==
  ASSUME TypeInv, OrderInv, NEW c \in Calls, Start(c)
  PROVE  OrderInv'
<1> DEFINE new == IF c.op \in QueueOps THEN c.types \ registered ELSE {}
<1>1. seen \in Nat /\ registered' = registered \cup new
  BY DEF TypeInv, TypeOK, Start
<1>2. \A t \in Types : regAt'[t] = IF t \in new THEN seen ELSE regAt[t]
  BY DEF Start
<1>3. \A t \in new : t \notin registered
  OBVIOUS
<1>4. WireInv'
  BY DEF Start, OrderInv, WireInv, Ascending
<1>5. QueueInv'
  BY <1>1, <1>2, <1>3, EmptySeq
  DEF Start, OrderInv, QueueInv, QueueInOrder, Ascending, TypeInv, TypeOK
<1>6. EventInv'
  <2>1. \A i \in DOMAIN events : events[i].type \in Types
    <3>1. events \in Seq(Message) /\ \A m \in Message : m.type \in Types
      BY DEF TypeInv, TypeOK, Message
    <3> QED
      BY <3>1, SeqElements
  <2> QED
    BY <1>1, <1>2, <2>1 DEF Start, OrderInv, EventInv, RoutedOnce
<1> QED
  BY <1>4, <1>5, <1>6 DEF OrderInv

LEMMA StepOrderInv == TypeInv /\ OrderInv /\ [Next]_vars => OrderInv'
<1> SUFFICES ASSUME TypeInv, OrderInv, [Next]_vars PROVE OrderInv'
  OBVIOUS
<1> DEFINE Quiet == UNCHANGED <<registered, pending, events, net, sent, seen, regAt, taken>>
<1>1. Quiet => OrderInv'
  BY DEF OrderInv, WireInv, QueueInv, EventInv, QueueInOrder, RoutedOnce, Ascending
<1>2. CASE Connect
  BY <1>1, <1>2 DEF Connect
<1>3. CASE Disconnect
  <2>1. WireInv'
    BY <1>3, EmptySeq DEF Disconnect, OrderInv, WireInv, Ascending
  <2> QED
    BY <1>3, <2>1 DEF Disconnect, OrderInv, QueueInv, EventInv, QueueInOrder,
                      RoutedOnce, Ascending
<1>4. ASSUME NEW c \in Calls, Start(c) PROVE OrderInv'
  BY <1>4, StartOrderInv
<1>5. CASE Send
  BY <1>1, <1>5 DEF Send
<1>6. CASE SendFails \/ Timeout \/ PollTimesOut
  BY <1>1, <1>6 DEF SendFails, Timeout, PollTimesOut, Abandon
<1>7. ASSUME NEW t \in Types, Get(t) PROVE OrderInv'
  <2>1. QueueInv'
    BY <1>7, TakeQueueInv DEF Get, Dequeue
  <2>2. WireInv' /\ EventInv'
    BY <1>7 DEF Get, OrderInv, WireInv, EventInv, RoutedOnce, Ascending
  <2> QED
    BY <2>1, <2>2 DEF OrderInv
<1>8. ASSUME NEW t \in Types, TaskGet(t) PROVE OrderInv'
  <2>1. QueueInv'
    BY <1>8, TakeQueueInv DEF TaskGet, Dequeue
  <2>2. WireInv' /\ EventInv'
    BY <1>8 DEF TaskGet, OrderInv, WireInv, EventInv, RoutedOnce, Ascending
  <2> QED
    BY <2>1, <2>2 DEF OrderInv
<1>9. ASSUME NEW t \in Types, AnyReturn(t) PROVE OrderInv'
  BY <1>1, <1>9 DEF AnyReturn
<1>10. ASSUME NEW i \in DOMAIN events, PollReturns(i) PROVE OrderInv'
  BY <1>1, <1>10 DEF PollReturns
<1>11. CASE Dispatch
  BY <1>11, DispatchOrderInv
<1>12. CASE LoopEnds
  BY <1>1, <1>12 DEF LoopEnds
<1>13. ASSUME NEW o \in outstanding, NEW t \in Types, Reply(o, t) PROVE OrderInv'
  <2>1. o.req \in 0 .. MaxReqs
    BY ConstantsAssumption DEF TypeInv, TypeOK
  <2> QED
    BY <1>13, <2>1, EmitOrderInv DEF Reply
<1>14. ASSUME NEW t \in PushTypes \cup Junk, Push(t) PROVE OrderInv'
  BY <1>14, ConstantsAssumption, EmitOrderInv DEF Push
<1>15. CASE ServerCloses
  BY <1>1, <1>15 DEF ServerCloses
<1>16. CASE UNCHANGED vars
  BY <1>1, <1>16 DEF vars
<1> QED
  BY <1>2, <1>3, <1>4, <1>5, <1>6, <1>7, <1>8, <1>9, <1>10, <1>11, <1>12, <1>13,
     <1>14, <1>15, <1>16
  DEF Next, CallerStep, LoopStep, ServerStep, Finished

(* Every response queue holds the messages of its type in sending order,   *)
(* each later than the registration of the type and than what was taken    *)
(* from it before, whatever times out, is cancelled or reconnects.         *)
THEOREM QueuesInOrder == Spec => []QueueInOrder
<1>1. Spec => [](TypeInv /\ OrderInv)
  BY InitTypeInv, StepTypeInv, InitOrderInv, StepOrderInv, PTL DEF Spec
<1>2. OrderInv => QueueInOrder
  BY DEF OrderInv, QueueInv
<1> QED
  BY <1>1, <1>2, PTL

(* Once a type is registered no message of it reaches the accumulator.     *)
THEOREM RoutingIsSticky == Spec => []RoutedOnce
<1>1. Spec => [](TypeInv /\ OrderInv)
  BY InitTypeInv, StepTypeInv, InitOrderInv, StepOrderInv, PTL DEF Spec
<1>2. OrderInv => RoutedOnce
  BY DEF OrderInv, EventInv
<1> QED
  BY <1>1, <1>2, PTL
-----------------------------------------------------------------------------
(* The client implements Mailbox.                                          *)

(* A call that waits on queues waits on at least one, and only request_any *)
(* has get-tasks, each with one message at most.                           *)
TaskInv ==
  /\ call.op = "idle" => call = Idle
  /\ call.op \in QueueOps => call.types # {}
  /\ \A t \in Types :
       held[t] # <<>> =>
         /\ call.op = "request_any" /\ call.toSend = 0 /\ t \in call.types
         /\ Len(held[t]) = 1

LEMMA InitTaskInv == Init => TaskInv
BY DEF Init, TaskInv, Idle, Empty, QueueOps

LEMMA StepTaskInv == TypeInv /\ TaskInv /\ [Next]_vars => TaskInv'
<1> SUFFICES ASSUME TypeInv, TaskInv, [Next]_vars PROVE TaskInv'
  OBVIOUS
<1> USE DEF TaskInv
<1>1. ASSUME UNCHANGED <<call, held>> PROVE TaskInv'
  BY <1>1
<1>2. ASSUME NEW c \in Calls, Start(c) PROVE TaskInv'
  <2>1. c.types # {} /\ c.op # "idle"
    <3>1. c \in CallKind
      BY ConstantsAssumption
    <3> QED
      BY <3>1 DEF CallKind, Ops, QueueOps
  <2>2. call = Idle /\ held' = held /\ \A t \in Types : held[t] = <<>>
    BY <1>2 DEF Start, Idle
  <2> QED
    BY <1>2, <2>1, <2>2 DEF Start
<1>3. CASE Send
  <2>1. held' = held /\ call.toSend > 0
    BY <1>3 DEF Send
  <2>2. call'.op = call.op /\ call'.types = call.types
    BY <1>3 DEF Send, TypeInv, TypeOK, CallState
  <2>3. call.op # "idle"
    BY <2>1 DEF Idle
  <2> QED
    BY <2>1, <2>2, <2>3
<1>4. CASE SendFails \/ Timeout \/ PollTimesOut
  <2>1. call' = Idle /\ held' = held
    BY <1>4 DEF SendFails, Timeout, PollTimesOut, Abandon
  <2>2. \A t \in Types : held[t] = <<>>
    BY <1>4 DEF SendFails, Timeout, PollTimesOut, Waiting, Empty, QueueOps
  <2> QED
    BY <2>1, <2>2 DEF Idle, QueueOps
<1>5. ASSUME NEW t \in Types, Get(t) PROVE TaskInv'
  <2>1. held' = held /\ \A u \in Types : held[u] = <<>>
    BY <1>5 DEF Get, Waiting
  <2>2. call' = Idle \/ (call'.op = call.op /\ call'.types = call.types)
    BY <1>5 DEF Get, TypeInv, TypeOK, CallState
  <2>3. call.op \in {"request", "wait_for", "burst"}
    BY <1>5 DEF Get, Waiting
  <2> QED
    BY <2>1, <2>2, <2>3 DEF Idle, QueueOps
<1>6. ASSUME NEW t \in Types, TaskGet(t) PROVE TaskInv'
  <2>1. /\ call' = call /\ call.op = "request_any" /\ call.toSend = 0 /\ t \in call.types
        /\ held' = [held EXCEPT ![t] = <<Head(pending[t])>>]
    BY <1>6 DEF TaskGet, Waiting
  <2> QED
    BY <2>1 DEF TypeInv, TypeOK
<1>7. ASSUME NEW t \in Types, AnyReturn(t) PROVE TaskInv'
  BY <1>7 DEF AnyReturn, Idle, Empty, QueueOps
<1>8. ASSUME NEW i \in DOMAIN events, PollReturns(i) PROVE TaskInv'
  BY <1>8 DEF PollReturns, Waiting, Idle, QueueOps
<1> QED
  BY <1>1, <1>2, <1>3, <1>4, <1>5, <1>6, <1>7, <1>8
  DEF Next, Connect, Disconnect, CallerStep, LoopStep, Dispatch, LoopEnds, ServerStep,
      Reply, Push, Emit, ServerCloses, Finished, vars

(* The mailboxes and the open ones, as the refinement maps them. *)
Inbox == [t \in Types |-> held[t] \o pending[t]]
Open  == IF call.op \in QueueOps THEN call.types ELSE {}

(* A step that touches no queue, event, answer or call is none of Mailbox. *)
LEMMA StutterStep ==
  ASSUME UNCHANGED <<registered, pending, held, events, answer.msg, Open>>
  PROVE  UNCHANGED Box!vars
BY DEF Box!vars, Open

(* Nothing, or a message held by a get-task, in front of its queue. *)
LEMMA NothingInFront == \A s \in Seq(Message) : <<>> \o s = s
BY ConcatEmptySeq

LEMMA HeldInFront ==
  ASSUME NEW s \in Seq(Message), NEW e \in Message
  PROVE  /\ <<e>> \o s # <<>> /\ Head(<<e>> \o s) = e /\ Tail(<<e>> \o s) = s
         /\ s # <<>> => <<Head(s)>> \o Tail(s) = s
<1>1. <<e>> \o s # <<>> /\ Head(<<e>> \o s) = e /\ Tail(<<e>> \o s) = s
  OBVIOUS
<1>2. s # <<>> => <<Head(s)>> \o Tail(s) = s
  OBVIOUS
<1> QED
  BY <1>1, <1>2

LEMMA AppendBehind ==
  ASSUME NEW h \in Seq(Message), NEW s \in Seq(Message), NEW e \in Message
  PROVE  Append(h \o s, e) = h \o Append(s, e)
OBVIOUS

(* A call begins to wait. *)
LEMMA StartRefines ==
  ASSUME TypeInv, TaskInv, NEW c \in Calls, Start(c)
  PROVE  [Box!Next]_Box!vars
<1>1. c.types \in SUBSET Types
  <2>1. c \in CallKind
    BY ConstantsAssumption
  <2> QED
    BY <2>1 DEF CallKind
<1>2. /\ Open = {} /\ call'.op = c.op /\ call'.types = c.types
      /\ UNCHANGED <<pending, held, events, answer>>
  BY DEF Start, Open, Idle, QueueOps
<1>3. CASE c.op \in QueueOps
  <2>1. registered' = registered \cup c.types
    BY <1>3 DEF Start
  <2>2. Box!Open(c.types)
    BY <1>2, <1>3, <2>1 DEF Box!Open, Open
  <2> QED
    BY <1>1, <2>2 DEF Box!Next
<1>4. CASE c.op \notin QueueOps
  <2>1. registered' = registered
    BY <1>4 DEF Start
  <2> QED
    BY <1>2, <1>4, <2>1, StutterStep DEF Open
<1> QED
  BY <1>3, <1>4

(* A call gives up. *)
LEMMA AbandonRefines ==
  ASSUME TaskInv, Abandon
  PROVE  [Box!Next]_Box!vars
<1>1. Open' = {} /\ UNCHANGED <<registered, pending, held, events, answer>>
  BY DEF Abandon, Open, Idle, QueueOps
<1>2. CASE call.op \in QueueOps
  <2>1. Box!GiveUp
    BY <1>1, <1>2 DEF Box!GiveUp, Open, TaskInv
  <2> QED
    BY <2>1 DEF Box!Next
<1>3. CASE call.op \notin QueueOps
  BY <1>1, <1>3, StutterStep DEF Open
<1> QED
  BY <1>2, <1>3

(* A queue operation is given the head of a queue. *)
LEMMA GetRefines ==
  ASSUME TypeInv, TaskInv, NEW t \in Types, Get(t)
  PROVE  [Box!Next]_Box!vars
<1>1. /\ call.op \in {"request", "wait_for", "burst"} /\ t \in call.types
      /\ pending[t] # <<>> /\ pending' = [pending EXCEPT ![t] = Tail(@)]
      /\ answer'.msg = Head(pending[t])
      /\ UNCHANGED <<registered, events, held>>
  BY DEF Get, Waiting, Dequeue, Answer
<1>2. \A u \in Types : held[u] = <<>> /\ pending[u] \in Seq(Message)
  BY <1>1 DEF TaskInv, TypeInv, TypeOK
<1>3. \A u \in Types : Inbox[u] = pending[u] /\ Inbox'[u] = pending'[u]
  <2>1. \A u \in Types : held'[u] = <<>> /\ pending'[u] \in Seq(Message)
    BY <1>1, <1>2, TakeType DEF TypeInv, TypeOK
  <2>2. \A u \in Types : <<>> \o pending[u] = pending[u] /\ <<>> \o pending'[u] = pending'[u]
    BY <1>2, <2>1, NothingInFront
  <2> QED
    BY <1>2, <2>1, <2>2 DEF Inbox
<1>4. Open = call.types /\ Open' \in {Open, {}}
  BY <1>1 DEF Get, Open, QueueOps, Idle, TypeInv, TypeOK, CallState
<1>5. Inbox' = [u \in Types |-> IF u \in {t} THEN Tail(Inbox[u]) ELSE Inbox[u]]
  BY <1>1, <1>3 DEF TypeInv, TypeOK, Inbox
<1>6. Box!Take(t, {t})
  BY <1>1, <1>3, <1>4, <1>5 DEF Box!Take, Open, Inbox
<1> QED
  BY <1>6 DEF Box!Next

(* A get-task that finishes moves a message, not the head of its mailbox. *)
LEMMA TaskGetRefines ==
  ASSUME TypeInv, TaskInv, NEW t \in Types, TaskGet(t)
  PROVE  [Box!Next]_Box!vars
<1>1. /\ held[t] = <<>> /\ pending[t] # <<>>
      /\ held' = [held EXCEPT ![t] = <<Head(pending[t])>>]
      /\ pending' = [pending EXCEPT ![t] = Tail(@)]
      /\ UNCHANGED <<registered, events, answer, call>>
  BY DEF TaskGet, Dequeue
<1>2. ASSUME NEW u \in Types
      PROVE  held'[u] \o pending'[u] = held[u] \o pending[u]
  <2>1. CASE u = t
    <3>1. pending[t] \in Seq(Message)
      BY DEF TypeInv, TypeOK
    <3>2. held'[t] = <<Head(pending[t])>> /\ pending'[t] = Tail(pending[t])
      BY <1>1 DEF TypeInv, TypeOK
    <3>3. held[t] \o pending[t] = pending[t] /\ held'[t] \o pending'[t] = pending[t]
      BY <1>1, <3>1, <3>2, NothingInFront, HeldInFront, TakeType DEF TypeInv
    <3> QED
      BY <2>1, <3>3
  <2>2. CASE u # t
    BY <1>1, <2>2 DEF TypeInv, TypeOK
  <2> QED
    BY <2>1, <2>2
<1>3. UNCHANGED Box!vars
  BY <1>1, <1>2 DEF Box!vars
<1> QED
  BY <1>3

(* request_any returns one of the messages its get-tasks hold, and loses   *)
(* the others.                                                             *)
LEMMA AnyReturnRefines ==
  ASSUME TypeInv, TaskInv, NEW t \in Types, AnyReturn(t)
  PROVE  [Box!Next]_Box!vars
<1>0. PICK D \in SUBSET Types : D = {u \in Types : held[u] # <<>>}
  OBVIOUS
<1>1. /\ call.op = "request_any" /\ held[t] # <<>> /\ held' = Empty /\ call' = Idle
      /\ answer'.msg = Head(held[t])
      /\ UNCHANGED <<registered, pending, events>>
  BY DEF AnyReturn, Waiting, Answer
<1>2. t \in D /\ D \subseteq call.types
  BY <1>0, <1>1 DEF TaskInv
<1>3. ASSUME NEW u \in D
      PROVE  /\ Inbox[u] # <<>> /\ Head(Inbox[u]) = Head(held[u])
             /\ Tail(Inbox[u]) = pending[u]
  <2>1. held[u] \in Seq(Message) /\ Len(held[u]) = 1 /\ pending[u] \in Seq(Message)
    BY <1>0, <1>3 DEF TaskInv, TypeInv, TypeOK
  <2>2. PICK e \in Message : held[u] = <<e>>
    <3>1. held[u] = <<held[u][1]>> /\ held[u][1] \in Message
      BY <2>1
    <3> QED
      BY <3>1
  <2>3. Inbox[u] = <<e>> \o pending[u]
    BY <2>2 DEF Inbox
  <2>4. Head(held[u]) = e
    BY <2>2
  <2> QED
    BY <2>1, <2>3, <2>4, HeldInFront
<1>4. \A u \in Types : u \notin D => Inbox[u] = pending[u]
  <2>1. \A u \in Types : pending[u] \in Seq(Message)
    BY DEF TypeInv, TypeOK
  <2> QED
    BY <1>0, <2>1, NothingInFront DEF Inbox
<1>5. \A u \in Types : Inbox'[u] = pending[u]
  <2>1. \A u \in Types : pending[u] \in Seq(Message)
    BY DEF TypeInv, TypeOK
  <2>2. \A u \in Types : <<>> \o pending[u] = pending[u]
    BY <2>1, NothingInFront
  <2> QED
    BY <1>1, <2>2 DEF Inbox, Empty
<1>6. Inbox' = [u \in Types |-> IF u \in D THEN Tail(Inbox[u]) ELSE Inbox[u]]
  BY <1>3, <1>4, <1>5 DEF Inbox
<1>7. Open = call.types /\ Open' = {}
  BY <1>1 DEF Open, QueueOps, Idle
<1>8. Box!Take(t, D)
  BY <1>1, <1>2, <1>3, <1>6, <1>7 DEF Box!Take, Open, Inbox
<1> QED
  BY <1>2, <1>8 DEF Box!Next

(* A poll looks at the board. *)
LEMMA PollRefines ==
  ASSUME TypeInv, TaskInv, NEW i \in DOMAIN events, PollReturns(i)
  PROVE  [Box!Next]_Box!vars
<1>1. /\ call.op = "wait_for_condition" /\ answer'.msg = events[i] /\ call' = Idle
      /\ events[i].type \in call.types
      /\ \A j \in 1 .. i - 1 : events[j].type \notin call.types
      /\ UNCHANGED <<registered, pending, held, events>>
  BY DEF PollReturns, Waiting, Answer
<1>2. events[i].type \in Types
  BY <1>1 DEF TypeInv, TypeOK, CallState
<1>3. Open = {} /\ Open' = {}
  BY <1>1 DEF Open, QueueOps, Idle
<1>4. Box!Look(events[i].type)
  <2>1. \A j \in 1 .. i - 1 : events[j].type # events[i].type
    BY <1>1
  <2> QED
    BY <1>1, <1>3, <2>1 DEF Box!Look, Open
<1> QED
  BY <1>2, <1>4 DEF Box!Next

(* A frame that is a message goes to its mailbox or to the board. *)
LEMMA DispatchRefines ==
  ASSUME TypeInv, TaskInv, Dispatch
  PROVE  [Box!Next]_Box!vars
<1>0. PICK m : m = Head(net)
  OBVIOUS
<1>1. m \in Frame
  BY <1>0 DEF Dispatch, TypeInv, TypeOK
<1>2. UNCHANGED <<registered, held, answer, call>>
  BY DEF Dispatch
<1>3. Open' = Open
  BY <1>2 DEF Open
<1>4. CASE m.type \in registered
  <2>1. m.type \in Types /\ m \in Message
    BY <1>1, <1>4 DEF TypeInv, TypeOK, Message
  <2>2. pending' = [pending EXCEPT ![m.type] = Append(@, m)] /\ events' = events
    BY <1>0, <1>4 DEF Dispatch, Enqueue, Pinned
  <2>3. ASSUME NEW u \in Types
        PROVE  held'[u] \o pending'[u]
                 = IF u = m.type THEN Append(held[u] \o pending[u], m)
                   ELSE held[u] \o pending[u]
    <3>1. held[u] \in Seq(Message) /\ pending[u] \in Seq(Message)
      BY DEF TypeInv, TypeOK
    <3>2. Append(held[u] \o pending[u], m) = held[u] \o Append(pending[u], m)
      BY <2>1, <3>1, AppendBehind
    <3> QED
      BY <1>2, <2>1, <2>2, <3>2 DEF TypeInv, TypeOK
  <2>4. Inbox' = [Inbox EXCEPT ![m.type] = Append(@, m)]
    BY <2>1, <2>3 DEF Inbox
  <2>5. Box!Deliver(m)
    BY <1>2, <1>3, <1>4, <2>2, <2>4 DEF Box!Deliver, Open, Inbox
  <2> QED
    BY <2>1, <2>5 DEF Box!Next
<1>5. CASE m.type \in Types \ registered
  <2>1. m \in Message
    BY <1>1, <1>5 DEF Message
  <2>2. pending' = pending /\ events' = Append(events, m)
    BY <1>0, <1>5 DEF Dispatch, Pinned
  <2>3. Inbox' = Inbox
    BY <1>2, <2>2 DEF Inbox
  <2>4. Box!Deliver(m)
    BY <1>2, <1>3, <1>5, <2>2, <2>3 DEF Box!Deliver, Open, Inbox
  <2> QED
    BY <2>1, <2>4 DEF Box!Next
<1>6. CASE m.type \notin Types
  <2>1. pending' = pending /\ events' = events
    BY <1>0, <1>6 DEF Dispatch, Pinned, TypeInv, TypeOK
  <2> QED
    BY <1>2, <1>3, <2>1, StutterStep
<1> QED
  BY <1>4, <1>5, <1>6

(* Every step of the client is one of its contract, or none. *)
LEMMA StepRefines ==
  ASSUME TypeInv, TaskInv, [Next]_vars
  PROVE  [Box!Next]_Box!vars
<1>1. ASSUME UNCHANGED <<registered, pending, held, events, answer, call>>
      PROVE  [Box!Next]_Box!vars
  BY <1>1, StutterStep DEF Open
<1>2. CASE Send
  <2>1. call'.op = call.op /\ call'.types = call.types
    BY <1>2 DEF Send, TypeInv, TypeOK, CallState
  <2> QED
    BY <1>2, <2>1, StutterStep DEF Send, Open
<1>3. CASE SendFails \/ Timeout \/ PollTimesOut
  BY <1>3, AbandonRefines DEF SendFails, Timeout, PollTimesOut
<1>4. CASE UNCHANGED vars \/ Connect \/ Disconnect \/ LoopEnds \/ ServerCloses \/ Finished
  BY <1>1, <1>4 DEF vars, Connect, Disconnect, LoopEnds, ServerCloses, Finished
<1>5. ASSUME NEW type, NEW re, Emit(type, re) PROVE [Box!Next]_Box!vars
  BY <1>1, <1>5 DEF Emit
<1> QED
  BY <1>2, <1>3, <1>4, <1>5, StartRefines, GetRefines, TaskGetRefines, AnyReturnRefines,
     PollRefines, DispatchRefines
  DEF Next, CallerStep, LoopStep, ServerStep, Reply, Push

(* The client implements Mailbox, for all types, calls and bounds: a       *)
(* message is put in one place, where it keeps its turn; a call takes the  *)
(* oldest one of a mailbox it has opened, or gives up and leaves the       *)
(* mailboxes as they are; nothing else ever changes them.                  *)
THEOREM ClientImplementsMailbox == Spec => ImplementsMailbox
<1>1. Init => Box!Init
  <2>1. <<>> \o <<>> = <<>>
    OBVIOUS
  <2> QED
    BY <2>1 DEF Init, Box!Init, Empty, Idle, NoAnswer, QueueOps
<1>2. Spec => [](TypeInv /\ TaskInv)
  BY InitTypeInv, StepTypeInv, InitTaskInv, StepTaskInv, PTL DEF Spec
<1>3. TypeInv /\ TaskInv /\ [Next]_vars => [Box!Next]_Box!vars
  BY StepRefines
<1> QED
  BY <1>1, <1>2, <1>3, PTL DEF Spec, ImplementsMailbox, Box!Spec

-----------------------------------------------------------------------------
(* Answers and requests.                                                   *)

Elements(s) == {s[i] : i \in DOMAIN s}

(* What is on its way to a call: on the wire, in a queue or with a         *)
(* get-task; and what the accumulator holds.                               *)
InFlight ==
  Elements(net) \cup UNION {Elements(pending[t]) \cup Elements(held[t]) : t \in Types}
Filed == Elements(events)

Shared == PushTypes \cup stale

(* A request is answered at most once. *)
OnceInv ==
  /\ \A m, n \in InFlight \cup Filed : m.re # 0 /\ m.re = n.re => m = n
  /\ \A o \in outstanding, m \in InFlight \cup Filed : m.re # o.req
  /\ \A o, p \in outstanding : o.req = p.req => o = p
  /\ \A m \in InFlight \cup Filed : m.re <= reqs
  /\ \A o \in outstanding : o.req <= reqs
  /\ \A r \in call.reqs : r <= reqs

(* What is on its way with a type that is not shared answers the call that *)
(* runs.                                                                   *)
OwnInv ==
  /\ \A m \in InFlight : m.re \in call.reqs => m.type \in call.replies
  /\ \A o \in outstanding : o.req \in call.reqs => o.replies \subseteq call.replies
  /\ \A m \in InFlight : m.type \in Types \ Shared => m.re \in call.reqs
  /\ \A o \in outstanding : o.req \in call.reqs \/ o.replies \subseteq Shared
  /\ call.clean => call.types \cap Shared = {}

(* The requests of the call that are still to be answered, or whose answer *)
(* is still to be read.                                                    *)
Due == {r \in call.reqs : \/ \E o \in outstanding : o.req = r
                         \/ \E m \in InFlight : m.re = r}

(* A call that shares no type reads an answer for each of its requests.    *)
CountInv ==
  /\ call.clean /\ call.op \in QueueOps => Cardinality(Due) + call.toSend <= call.left
  /\ call.op = "request_any" => call.left = 1

HeldInv ==
  \A t \in Types : \A i \in DOMAIN held[t] :
    held[t][i].type = t /\ held[t][i].id <= taken[t]

Verdict == AnswersItsRequest /\ NothingDropped

AskInv == OnceInv /\ OwnInv /\ CountInv

(* The elements of a queue that is empty, grows or shrinks. *)
LEMMA EmptyElements == Elements(<<>>) = {}
BY DEF Elements

LEMMA AppendElements ==
  ASSUME NEW S, NEW s \in Seq(S), NEW e \in S
  PROVE  Elements(Append(s, e)) = Elements(s) \cup {e}
<1>1. /\ DOMAIN s = 1 .. Len(s) /\ DOMAIN Append(s, e) = 1 .. Len(s) + 1 /\ Len(s) \in Nat
      /\ \A i \in DOMAIN s : Append(s, e)[i] = s[i]
      /\ Append(s, e)[Len(s) + 1] = e
  OBVIOUS
<1>2. DOMAIN Append(s, e) = DOMAIN s \cup {Len(s) + 1}
  BY <1>1
<1> QED
  BY <1>1, <1>2 DEF Elements

LEMMA TailElements ==
  ASSUME NEW S, NEW s \in Seq(S), s # <<>>
  PROVE  /\ Head(s) \in Elements(s) /\ Elements(Tail(s)) \subseteq Elements(s)
         /\ Elements(s) = Elements(Tail(s)) \cup {Head(s)}
<1>1. /\ 1 \in DOMAIN s /\ Head(s) = s[1]
      /\ \A i \in DOMAIN Tail(s) : i + 1 \in DOMAIN s /\ Tail(s)[i] = s[i + 1]
      /\ \A i \in DOMAIN s : i # 1 => i - 1 \in DOMAIN Tail(s) /\ Tail(s)[i - 1] = s[i]
  OBVIOUS
<1>2. Head(s) \in Elements(s)
  BY <1>1 DEF Elements
<1>3. Elements(Tail(s)) \subseteq Elements(s)
  BY <1>1 DEF Elements
<1>4. \A i \in DOMAIN s : s[i] \in Elements(Tail(s)) \cup {Head(s)}
  BY <1>1 DEF Elements
<1>5. Elements(s) \subseteq Elements(Tail(s)) \cup {Head(s)}
  BY <1>4 DEF Elements
<1> QED
  BY <1>2, <1>3, <1>5

(* What is in flight has the types of frames; what is filed, of messages.  *)
LEMMA FlightTypes ==
  ASSUME TypeOK
  PROVE  /\ InFlight \subseteq Frame /\ Filed \subseteq Frame
         /\ \A m \in InFlight \cup Filed : m.re \in Nat /\ m.id \in Nat
<1>1. \A t \in Types : Elements(pending[t]) \subseteq Frame /\ Elements(held[t]) \subseteq Frame
  <2>1. \A s \in Seq(Message) : Elements(s) \subseteq Frame
    BY SeqElements, MessageIsFrame DEF Elements
  <2> QED
    BY <2>1 DEF TypeOK
<1>2. Elements(net) \subseteq Frame /\ Filed \subseteq Frame
  BY SeqElements, MessageIsFrame DEF Elements, TypeOK, Filed
<1>3. InFlight \subseteq Frame
  BY <1>1, <1>2 DEF InFlight
<1>4. \A f \in Frame : f.re \in Nat /\ f.id \in Nat
  BY ConstantsAssumption DEF Frame
<1> QED
  BY <1>2, <1>3, <1>4

(* What is due of a call is a finite set. *)
LEMMA DueFinite ==
  ASSUME TypeOK
  PROVE  IsFiniteSet(Due) /\ Cardinality(Due) \in Nat
<1>1. Due \subseteq 1 .. MaxReqs
  BY DEF Due, TypeOK, CallState
<1>2. IsFiniteSet(1 .. MaxReqs)
  BY FS_Interval, ConstantsAssumption
<1>3. IsFiniteSet(Due)
  BY <1>1, <1>2, FS_Subset
<1> QED
  BY <1>3, FS_CardinalityType

(* Frames that are filed, taken out of the way or lost with a connection   *)
(* disturb nothing.                                                        *)
LEMMA LessInFlight ==
  ASSUME TypeOK, TypeOK', AskInv,
         InFlight' \subseteq InFlight, Filed' \subseteq InFlight \cup Filed,
         outstanding' \subseteq outstanding,
         UNCHANGED <<call, stale, reqs>>
  PROVE  AskInv'
<1>1. OnceInv'
  BY DEF AskInv, OnceInv
<1>2. OwnInv'
  BY DEF AskInv, OwnInv, Shared
<1>3. CountInv'
  <2>1. Due' \subseteq Due
    BY DEF Due
  <2>2. Cardinality(Due') <= Cardinality(Due) /\ Cardinality(Due') \in Nat
    BY <2>1, DueFinite, FS_Subset, FS_CardinalityType
  <2>3. call.toSend \in Nat /\ call.left \in Nat
    BY DEF TypeOK, CallState
  <2> QED
    BY <2>2, <2>3, DueFinite DEF AskInv, CountInv
<1> QED
  BY <1>1, <1>2, <1>3 DEF AskInv

(* Where frames are: each in one place. *)
LEMMA Places ==
  ASSUME TypeInv, OrderInv, TaskInv
  PROVE  /\ \A m \in Elements(net) : m \in Frame /\ seen < m.id
         /\ \A t \in Types : \A m \in Elements(pending[t]) :
              /\ m \in Message /\ m.type = t
              /\ taken[t] < m.id /\ regAt[t] < m.id /\ m.id <= seen
              /\ t \in registered
         /\ \A m \in Filed : /\ m \in Message /\ m.id <= seen
                             /\ m.type \in registered => m.id <= regAt[m.type]
         /\ seen \in Nat
         /\ \A t \in Types : /\ taken[t] \in Nat /\ taken[t] <= seen
                             /\ regAt[t] \in Nat /\ regAt[t] <= seen
<1>1. \A m \in Elements(net) : m \in Frame /\ seen < m.id
  BY SeqElements DEF Elements, TypeInv, TypeOK, OrderInv, WireInv
<1>2. ASSUME NEW t \in Types, NEW m \in Elements(pending[t])
      PROVE  /\ m \in Message /\ m.type = t
             /\ taken[t] < m.id /\ regAt[t] < m.id /\ m.id <= seen
             /\ t \in registered
  <2>1. pending[t] \in Seq(Message)
    BY DEF TypeInv, TypeOK
  <2>2. PICK i \in DOMAIN pending[t] : m = pending[t][i]
    BY DEF Elements
  <2>3. m \in Message /\ m.id \in Nat
    BY <2>1, <2>2, SeqElements, ConstantsAssumption DEF Message, Frame
  <2>4. m.type = t /\ m.id > taken[t] /\ m.id > regAt[t] /\ m.id <= seen
    BY <2>2 DEF OrderInv, QueueInv, QueueInOrder
  <2>5. t \in registered
    BY <2>2 DEF OrderInv, QueueInv
  <2>6. taken[t] \in Nat /\ regAt[t] \in Nat
    BY DEF TypeInv, TypeOK
  <2> QED
    BY <2>3, <2>4, <2>5, <2>6
<1>3. \A m \in Filed : /\ m \in Message /\ m.id <= seen
                       /\ m.type \in registered => m.id <= regAt[m.type]
  BY SeqElements DEF Filed, Elements, TypeInv, TypeOK, OrderInv, EventInv, RoutedOnce
<1>4. /\ seen \in Nat
      /\ \A t \in Types : /\ taken[t] \in Nat /\ taken[t] <= seen
                          /\ regAt[t] \in Nat /\ regAt[t] <= seen
  BY DEF TypeInv, TypeOK, OrderInv, QueueInv
<1> QED
  BY <1>1, <1>2, <1>3, <1>4

(* A message that a get-task holds was taken from the queue of its type.   *)
LEMMA HeldPlaces ==
  ASSUME TypeInv, HeldInv, NEW t \in Types
  PROVE  \A m \in Elements(held[t]) : m \in Message /\ m.type = t /\ m.id <= taken[t]
<1>1. held[t] \in Seq(Message)
  BY DEF TypeInv, TypeOK
<1> QED
  BY <1>1, SeqElements DEF HeldInv, Elements

LEMMA EmitFlight ==
  ASSUME TypeInv, NEW type \in Types \cup JunkKinds, NEW re \in 0 .. MaxReqs,
         Emit(type, re)
  PROVE  /\ InFlight' = InFlight \cup {[id |-> sent + 1, type |-> type, re |-> re]}
         /\ Filed' = Filed
<1> DEFINE f == [id |-> sent + 1, type |-> type, re |-> re]
<1>1. f \in Frame /\ net \in Seq(Frame) /\ net' = Append(net, f)
  BY ConstantsAssumption DEF TypeInv, TypeOK, Emit, Frame
<1>2. Elements(Append(net, f)) = Elements(net) \cup {f}
  BY <1>1, AppendElements
<1>3. Elements(net') = Elements(net) \cup {f}
  BY <1>1, <1>2
<1>4. pending' = pending /\ held' = held /\ events' = events
  BY DEF Emit
<1>5. Filed' = Filed
  BY <1>4 DEF Filed, Elements
<1>6. \A t \in Types : Elements(pending'[t]) = Elements(pending[t])
                       /\ Elements(held'[t]) = Elements(held[t])
  BY <1>4
<1> QED
  BY <1>3, <1>5, <1>6 DEF InFlight

(* What the loop handles was on the wire and is put in one place.          *)
LEMMA DispatchFlight ==
  ASSUME TypeInv, Dispatch
  PROVE  InFlight' \subseteq InFlight /\ Filed' \subseteq InFlight \cup Filed
<1> DEFINE m == Head(net)
<1>1. net \in Seq(Frame) /\ net # <<>> /\ net' = Tail(net) /\ held' = held
  BY DEF TypeInv, TypeOK, Dispatch
<1>2. m \in Elements(net) /\ Elements(Tail(net)) \subseteq Elements(net) /\ m \in Frame
  BY <1>1, TailElements, HeadTailProperties
<1>3. Elements(net') \subseteq Elements(net)
  BY <1>1, <1>2
<1>4. \A t \in Types : Elements(pending'[t]) \subseteq Elements(pending[t]) \cup {m}
  <2> SUFFICES ASSUME NEW t \in Types
               PROVE  Elements(pending'[t]) \subseteq Elements(pending[t]) \cup {m}
    OBVIOUS
  <2>1. pending[t] \in Seq(Frame)
    BY MessageIsFrame DEF TypeInv, TypeOK
  <2>2. Elements(Append(pending[t], m)) = Elements(pending[t]) \cup {m}
    BY <1>2, <2>1, AppendElements
  <2>3. pending'[t] = pending[t] \/ pending'[t] = Append(pending[t], m)
    BY DEF Dispatch, Enqueue, TypeInv, TypeOK
  <2> QED
    BY <2>2, <2>3
<1>5. Filed' \subseteq Filed \cup {m}
  <2>1. events \in Seq(Frame)
    BY MessageIsFrame DEF TypeInv, TypeOK
  <2>2. Elements(Append(events, m)) = Elements(events) \cup {m}
    BY <1>2, <2>1, AppendElements
  <2>3. events' = events \/ events' = Append(events, m)
    BY DEF Dispatch
  <2>4. Elements(events') \subseteq Elements(events) \cup {m}
    BY <2>2, <2>3
  <2> QED
    BY <2>4 DEF Filed, Elements
<1>6. m \in InFlight
  BY <1>2 DEF InFlight
<1>7. InFlight' \subseteq InFlight \cup {m}
  BY <1>1, <1>3, <1>4 DEF InFlight
<1> QED
  BY <1>5, <1>6, <1>7

(* The message at the head of a queue is in flight until it is taken.      *)
LEMMA TakeFlight ==
  ASSUME TypeInv, OrderInv, TaskInv, NEW t \in Types, pending[t] # <<>>,
         pending' = [pending EXCEPT ![t] = Tail(@)], net' = net
  PROVE  /\ Head(pending[t]) \in InFlight
         /\ Head(pending[t]) \in Message /\ Head(pending[t]).type = t
         /\ \A u \in Types : /\ Elements(pending'[u]) \subseteq Elements(pending[u])
                             /\ Head(pending[t]) \notin Elements(pending'[u])
         /\ Elements(net') = Elements(net) /\ Head(pending[t]) \notin Elements(net)
<1> DEFINE m == Head(pending[t])
<1>1. pending[t] \in Seq(Message) /\ pending[t] \in Seq(Frame)
  BY MessageIsFrame DEF TypeInv, TypeOK
<1>2. m \in Elements(pending[t]) /\ Elements(Tail(pending[t])) \subseteq Elements(pending[t])
  BY <1>1, TailElements
<1>3. m \in InFlight /\ m \in Message /\ m.type = t /\ m.id <= seen /\ m.id \in Nat
  BY <1>2, Places, ConstantsAssumption DEF InFlight, Message, Frame
<1>4. pending'[t] = Tail(pending[t]) /\ \A u \in Types \ {t} : pending'[u] = pending[u]
  BY DEF TypeInv, TypeOK
<1>5. m \notin Elements(Tail(pending[t]))
  <2>1. Ascending(pending[t])
    BY DEF OrderInv, QueueInv, QueueInOrder
  <2>2. \A i \in DOMAIN Tail(pending[t]) : m.id < Tail(pending[t])[i].id
    BY <1>1, <2>1, TailAscending
  <2> QED
    BY <1>3, <2>2 DEF Elements
<1>6. \A u \in Types \ {t} : m \notin Elements(pending[u])
  BY <1>3, Places
<1>7. m \notin Elements(net)
  BY <1>3, Places
<1>8. Elements(net') = Elements(net)
  OBVIOUS
<1>9. ASSUME NEW u \in Types
      PROVE  Elements(pending'[u]) \subseteq Elements(pending[u]) /\ m \notin Elements(pending'[u])
  <2>1. CASE u = t
    BY <1>2, <1>4, <1>5, <2>1
  <2>2. CASE u # t
    BY <1>4, <1>6, <2>2
  <2> QED
    BY <2>1, <2>2
<1> QED
  BY <1>3, <1>7, <1>8, <1>9

LEMMA GetFlight ==
  ASSUME TypeInv, OrderInv, TaskInv, NEW t \in Types, Get(t)
  PROVE  /\ Head(pending[t]) \in InFlight
         /\ Head(pending[t]) \in Message /\ Head(pending[t]).type = t
         /\ InFlight' \subseteq InFlight \ {Head(pending[t])}
         /\ Filed' = Filed
<1>1. \A u \in Types : held[u] = <<>> /\ held'[u] = held[u]
  BY DEF Get, Waiting, TaskInv
<1>2. \A u \in Types : Elements(held'[u]) = {}
  BY <1>1 DEF Elements
<1>3. events' = events /\ net' = net /\ pending' = [pending EXCEPT ![t] = Tail(@)]
      /\ pending[t] # <<>>
  BY DEF Get, Dequeue
<1>4. Filed' = Filed
  BY <1>3 DEF Filed, Elements
<1>5. /\ Head(pending[t]) \in InFlight
      /\ Head(pending[t]) \in Message /\ Head(pending[t]).type = t
      /\ \A u \in Types : /\ Elements(pending'[u]) \subseteq Elements(pending[u])
                          /\ Head(pending[t]) \notin Elements(pending'[u])
      /\ Elements(net') = Elements(net) /\ Head(pending[t]) \notin Elements(net)
  BY <1>3, TakeFlight
<1>6. InFlight' \subseteq InFlight \ {Head(pending[t])}
  BY <1>2, <1>5 DEF InFlight
<1> QED
  BY <1>4, <1>5, <1>6

LEMMA TaskGetFlight ==
  ASSUME TypeInv, OrderInv, TaskInv, NEW t \in Types, TaskGet(t)
  PROVE  InFlight' \subseteq InFlight /\ Filed' = Filed
<1> DEFINE m == Head(pending[t])
<1>1. events' = events /\ net' = net /\ pending' = [pending EXCEPT ![t] = Tail(@)]
      /\ pending[t] # <<>> /\ held' = [held EXCEPT ![t] = <<m>>]
  BY DEF TaskGet, Dequeue
<1>2. Filed' = Filed
  BY <1>1 DEF Filed, Elements
<1>3. \A u \in Types : Elements(held'[u]) \subseteq Elements(held[u]) \cup {m}
  <2>1. held'[t] = <<m>> /\ \A u \in Types \ {t} : held'[u] = held[u]
    BY <1>1 DEF TypeInv, TypeOK
  <2>2. Elements(<<m>>) = {m}
    BY DEF Elements
  <2> QED
    BY <2>1, <2>2
<1>4. /\ m \in InFlight
      /\ \A u \in Types : Elements(pending'[u]) \subseteq Elements(pending[u])
      /\ Elements(net') = Elements(net)
  BY <1>1, TakeFlight
<1>5. InFlight' \subseteq InFlight \cup {m}
  BY <1>3, <1>4 DEF InFlight
<1> QED
  BY <1>2, <1>4, <1>5

(* What request_any returns, and all it holds, is in flight until then.    *)
LEMMA AnyFlight ==
  ASSUME TypeInv, OrderInv, TaskInv, HeldInv, NEW t \in Types, AnyReturn(t)
  PROVE  /\ \A u \in Types : held[u] # <<>> =>
              /\ Head(held[u]) \in InFlight /\ Head(held[u]) \in Message
              /\ Head(held[u]).type = u /\ u \in call.types
         /\ InFlight' \subseteq InFlight \ {Head(held[t])}
         /\ Filed' = Filed
<1>1. ASSUME NEW u \in Types, held[u] # <<>>
      PROVE  /\ Head(held[u]) \in InFlight /\ Head(held[u]) \in Message
             /\ Head(held[u]).type = u /\ u \in call.types
             /\ Head(held[u]).id <= taken[u]
  <2>1. held[u] \in Seq(Message)
    BY DEF TypeInv, TypeOK
  <2>2. Head(held[u]) \in Elements(held[u])
    BY <1>1, <2>1, TailElements
  <2> QED
    BY <1>1, <2>2, HeldPlaces DEF InFlight, TaskInv
<1>2. held[t] # <<>> /\ net' = net /\ pending' = pending /\ events' = events
      /\ \A u \in Types : held'[u] = <<>>
  BY DEF AnyReturn, Empty
<1> DEFINE m == Head(held[t])
<1>3. m.id <= taken[t] /\ m.type = t /\ m.id \in Nat
  BY <1>1, <1>2, ConstantsAssumption DEF Message, Frame
<1>4. m \notin Elements(net)
  BY <1>3, Places
<1>5. \A u \in Types : m \notin Elements(pending[u])
  BY <1>3, Places
<1>6. \A u \in Types : Elements(held'[u]) = {}
  BY <1>2 DEF Elements
<1>7. Filed' = Filed /\ Elements(net') = Elements(net)
  BY <1>2 DEF Filed, Elements
<1>8. \A u \in Types : Elements(pending'[u]) = Elements(pending[u])
  BY <1>2
<1>9. InFlight' \subseteq InFlight \ {m}
  BY <1>4, <1>5, <1>6, <1>7, <1>8 DEF InFlight
<1> QED
  BY <1>1, <1>7, <1>9

(* The event a poll finds is filed, and nowhere else.                      *)
LEMMA PollFlight ==
  ASSUME TypeInv, OrderInv, TaskInv, NEW i \in DOMAIN events, PollReturns(i)
  PROVE  /\ events[i] \in Filed /\ events[i] \in Message
         /\ events[i] \notin InFlight
         /\ InFlight' = InFlight /\ Filed' = Filed
<1>1. events[i] \in Filed
  BY DEF Filed, Elements
<1>2. events[i] \in Message /\ events[i].id <= seen
      /\ (events[i].type \in registered => events[i].id <= regAt[events[i].type])
      /\ events[i].id \in Nat /\ events[i].type \in Types
  BY <1>1, Places, ConstantsAssumption DEF Message, Frame
<1>3. events[i] \notin Elements(net)
  BY <1>2, Places
<1>4. \A u \in Types : events[i] \notin Elements(pending[u])
  BY <1>2, Places
<1>5. \A u \in Types : held[u] = <<>>
  BY DEF PollReturns, Waiting, TaskInv
<1>6. \A u \in Types : Elements(held[u]) = {}
  BY <1>5, EmptyElements
<1>7. net' = net /\ pending' = pending /\ held' = held /\ events' = events
  BY DEF PollReturns
<1>8. InFlight' = InFlight /\ Filed' = Filed
  BY <1>7 DEF InFlight, Filed, Elements
<1> QED
  BY <1>1, <1>2, <1>3, <1>4, <1>6, <1>8 DEF InFlight

LEMMA StepHeldInv == TypeInv /\ OrderInv /\ TaskInv /\ HeldInv /\ [Next]_vars => HeldInv'
<1> SUFFICES ASSUME TypeInv, OrderInv, TaskInv, HeldInv, [Next]_vars PROVE HeldInv'
  OBVIOUS
<1>1. ASSUME UNCHANGED <<held, taken>> PROVE HeldInv'
  BY <1>1 DEF HeldInv
<1>2. ASSUME NEW t \in Types, Get(t) PROVE HeldInv'
  <2>1. \A u \in Types : held'[u] = <<>>
    BY <1>2 DEF Get, Waiting, TaskInv
  <2> QED
    BY <2>1 DEF HeldInv
<1>3. ASSUME NEW t \in Types, TaskGet(t) PROVE HeldInv'
  <2>1. /\ held'[t] = <<Head(pending[t])>> /\ \A u \in Types \ {t} : held'[u] = held[u]
        /\ taken'[t] = Head(pending[t]).id /\ \A u \in Types \ {t} : taken'[u] = taken[u]
    BY <1>3 DEF TaskGet, TypeInv, TypeOK
  <2>2. Head(pending[t]).id \in Nat
    BY <1>3, TakeType, ConstantsAssumption DEF TaskGet, TypeInv
  <2>3. pending[t] # <<>> /\ Head(pending[t]).type = t
    BY <1>3, TakeFlight DEF TaskGet, Dequeue
  <2>4. \A i \in DOMAIN held'[t] : held'[t][i].type = t /\ held'[t][i].id <= taken'[t]
    BY <2>1, <2>2, <2>3
  <2>5. \A u \in Types \ {t} : \A i \in DOMAIN held'[u] :
          held'[u][i].type = u /\ held'[u][i].id <= taken'[u]
    BY <2>1 DEF HeldInv
  <2> QED
    BY <2>4, <2>5 DEF HeldInv
<1>4. ASSUME NEW t \in Types, AnyReturn(t) PROVE HeldInv'
  BY <1>4 DEF AnyReturn, Empty, HeldInv
<1> QED
  BY <1>1, <1>2, <1>3, <1>4
  DEF Next, CallerStep, LoopStep, ServerStep, Finished, Connect, Disconnect, Start, Send,
      SendFails, Timeout, PollTimesOut, Abandon, PollReturns, Dispatch, LoopEnds, Reply,
      Push, Emit, ServerCloses, vars

(* A call that shares no type is handed an answer to one of its requests.  *)
LEMMA CleanAnswer ==
  ASSUME OwnInv, call.clean, NEW m \in InFlight,
         m.type \in Types, m.type \in call.types
  PROVE  m.re \in call.reqs
BY DEF OwnInv

(* When it has one answer left to read, one request at most is due. *)
LEMMA LastDue ==
  ASSUME TypeOK, CountInv, call.clean, call.op \in QueueOps, call.left = 1
  PROVE  \A r, q \in Due : r = q
<1>1. IsFiniteSet(Due) /\ Cardinality(Due) \in Nat /\ call.toSend \in Nat
  BY DueFinite DEF TypeOK, CallState
<1>2. Cardinality(Due) <= 1
  BY <1>1 DEF CountInv
<1>3. CASE Cardinality(Due) = 0
  BY <1>1, <1>3, FS_EmptySet
<1>4. CASE Cardinality(Due) = 1
  BY <1>1, <1>4, FS_Singleton
<1> QED
  BY <1>1, <1>2, <1>3, <1>4

(* A call that ends with a message leaves nothing behind that a later call *)
(* with unshared types could mistake for an answer of its own.             *)
LEMMA EndAskInv ==
  ASSUME TypeOK, TypeOK', AskInv, NEW m \in InFlight \cup Filed,
         InFlight' \subseteq InFlight \ {m}, Filed' = Filed,
         call' = Idle, stale' = stale \cup LeavesOpen(m),
         UNCHANGED <<outstanding, reqs>>,
         call.clean /\ call.op \in QueueOps =>
           m.type \in call.types /\ m.type \in Types /\ m \in InFlight /\ call.left = 1
  PROVE  AskInv'
<1> USE DEF AskInv
<1>1. OnceInv'
  <2>1. \A r \in call'.reqs : r <= reqs'
    BY DEF Idle
  <2> QED
    BY <2>1 DEF OnceInv
<1>2. CountInv'
  BY DEF CountInv, Idle, QueueOps
<1>3. call.reqs \subseteq 1 .. MaxReqs
  BY DEF TypeOK, CallState
<1>4. CASE LeavesOpen(m) = {} /\ call.reqs \subseteq {m.re}
  <2>1. \A n \in InFlight' : n.re \notin call.reqs
    BY <1>3, <1>4, ConstantsAssumption DEF OnceInv
  <2>2. \A o \in outstanding : o.req \notin call.reqs
    BY <1>4 DEF OnceInv
  <2>3. stale' = stale /\ Shared' = Shared
    BY <1>4 DEF Shared
  <2> QED
    BY <1>1, <1>2, <2>1, <2>2, <2>3 DEF OwnInv, Idle
<1>5. CASE LeavesOpen(m) = {} /\ call.clean /\ call.op \in QueueOps
  <2>1. m \in InFlight /\ m.re \in call.reqs
    BY <1>5, CleanAnswer
  <2>2. m.re \in Due /\ \A r \in Due : r = m.re
    <3>1. m.re \in Due
      BY <2>1 DEF Due
    <3> QED
      BY <1>5, <3>1, LastDue
  <2>3. \A n \in InFlight' : n.re \notin call.reqs
    <3> SUFFICES ASSUME NEW n \in InFlight', n.re \in call.reqs PROVE FALSE
      OBVIOUS
    <3>1. n \in InFlight /\ n # m /\ n.re \in Due
      BY DEF Due
    <3> QED
      BY <1>3, <2>2, <3>1, ConstantsAssumption DEF OnceInv
  <2>4. \A o \in outstanding : o.req \notin call.reqs
    <3> SUFFICES ASSUME NEW o \in outstanding, o.req \in call.reqs PROVE FALSE
      OBVIOUS
    <3>1. o.req \in Due
      BY DEF Due
    <3> QED
      BY <2>2, <3>1 DEF OnceInv
  <2>5. stale' = stale /\ Shared' = Shared
    BY <1>5 DEF Shared
  <2> QED
    BY <1>1, <1>2, <2>3, <2>4, <2>5 DEF OwnInv, Idle
<1>6. CASE LeavesOpen(m) = call.replies
  <2>1. Shared' = Shared \cup call.replies
    BY <1>6 DEF Shared
  <2>2. \A n \in InFlight' : n.type \notin Types \ Shared'
    BY <2>1 DEF OwnInv
  <2>3. \A o \in outstanding' : o.replies \subseteq Shared'
    BY <2>1 DEF OwnInv
  <2> QED
    BY <1>1, <1>2, <2>2, <2>3 DEF OwnInv, Idle
<1> QED
  BY <1>4, <1>5, <1>6 DEF LeavesOpen

(* A call that gives up makes the types of its requests shared.            *)
LEMMA AbandonAskInv ==
  ASSUME TypeOK, AskInv, Abandon
  PROVE  AskInv'
<1> USE DEF AskInv
<1>1. InFlight' = InFlight /\ Filed' = Filed
  BY DEF Abandon, InFlight, Filed, Elements
<1>2. call' = Idle /\ outstanding' = outstanding /\ reqs' = reqs
  BY DEF Abandon
<1>3. OnceInv'
  BY <1>1, <1>2 DEF OnceInv, Idle
<1>4. CountInv'
  BY <1>2 DEF CountInv, Idle, QueueOps
<1>5. \A n \in InFlight' : n.type \notin Types \ Shared'
  BY <1>1 DEF OwnInv, Shared, Abandon
<1>6. \A o \in outstanding' : o.replies \subseteq Shared'
  BY <1>2 DEF OwnInv, Shared, Abandon
<1> QED
  BY <1>2, <1>3, <1>4, <1>5, <1>6 DEF OwnInv, Idle

LEMMA StartAskInv ==
  ASSUME TypeOK, TypeOK', TaskInv, AskInv, NEW c \in Calls, Start(c)
  PROVE  AskInv'
<1> USE DEF AskInv
<1>1. InFlight' = InFlight /\ Filed' = Filed /\ Shared' = Shared
  BY DEF Start, InFlight, Filed, Elements, Shared
<1>2. call = Idle /\ outstanding' = outstanding /\ reqs' = reqs /\ call'.reqs = {}
  BY DEF Start
<1>3. OnceInv'
  BY <1>1, <1>2 DEF OnceInv
<1>4. OwnInv'
  <2>1. \A n \in InFlight : n.type \notin Types \ Shared
    BY <1>2 DEF OwnInv, Idle
  <2>2. \A o \in outstanding : o.replies \subseteq Shared
    BY <1>2 DEF OwnInv, Idle
  <2>3. call'.clean => call'.types \cap Shared' = {}
    BY <1>1 DEF Start, Shared
  <2> QED
    BY <1>1, <1>2, <2>1, <2>2, <2>3 DEF OwnInv
<1>5. CountInv'
  <2>1. Due' = {}
    BY <1>2 DEF Due
  <2>2. Cardinality(Due') = 0
    BY <2>1, FS_EmptySet
  <2>3. c \in CallKind /\ call'.op = c.op /\ call'.toSend = c.n /\ call'.left = Reads(c)
    BY ConstantsAssumption DEF Start
  <2>4. c.n \in Nat /\ (c.op \in QueueOps => c.n <= Reads(c))
    BY <2>3, ConstantsAssumption DEF CallKind, Reads, QueueOps
  <2>5. c.op = "request_any" => Reads(c) = 1
    BY DEF Reads
  <2> QED
    BY <2>2, <2>3, <2>4, <2>5 DEF CountInv
<1> QED
  BY <1>3, <1>4, <1>5

(* A new request carries a number no frame answers yet. *)
LEMMA SendAskInv ==
  ASSUME TypeInv, TypeOK', AskInv, Send
  PROVE  AskInv'
<1> USE DEF AskInv, TypeInv
<1>1. InFlight' = InFlight /\ Filed' = Filed /\ Shared' = Shared
  BY DEF Send, InFlight, Filed, Elements, Shared
<1> DEFINE r == reqs + 1
           new == [req |-> r, replies |-> call.replies]
<1>2. /\ outstanding' = outstanding \cup {new} /\ reqs' = r
      /\ call'.reqs = call.reqs \cup {r} /\ call'.toSend = call.toSend - 1
      /\ call'.op = call.op /\ call'.types = call.types /\ call'.left = call.left
      /\ call'.replies = call.replies /\ call'.clean = call.clean
      /\ call.toSend > 0 /\ call.toSend \in Nat /\ call.left \in Nat /\ reqs \in Nat
  BY ConstantsAssumption DEF Send, TypeOK, CallState
<1>3. \A m \in InFlight \cup Filed : m.re \in Nat /\ m.re <= reqs /\ m.re # r
  BY <1>2, FlightTypes DEF OnceInv
<1>4. \A o \in outstanding : o.req \in Nat /\ o.req <= reqs /\ o.req # r
  <2>1. \A o \in outstanding : o.req \in Nat
    BY ConstantsAssumption DEF TypeOK
  <2>2. \A o \in outstanding : o.req <= reqs
    BY DEF OnceInv
  <2> QED
    BY <1>2, <2>1, <2>2
<1>5. \A q \in call.reqs : q \in Nat /\ q <= reqs
  BY ConstantsAssumption DEF OnceInv, TypeOK, CallState
<1>6. OnceInv'
  <2>1. \A m, n \in InFlight' \cup Filed' : m.re # 0 /\ m.re = n.re => m = n
    BY <1>1 DEF OnceInv
  <2>2. \A o \in outstanding', m \in InFlight' \cup Filed' : m.re # o.req
    BY <1>1, <1>2, <1>3 DEF OnceInv
  <2>3. \A o, p \in outstanding' : o.req = p.req => o = p
    BY <1>2, <1>4 DEF OnceInv
  <2>4. \A m \in InFlight' \cup Filed' : m.re <= reqs'
    BY <1>1, <1>2, <1>3
  <2>5. \A o \in outstanding' : o.req <= reqs'
    BY <1>2, <1>4
  <2>6. \A q \in call'.reqs : q <= reqs'
    BY <1>2, <1>5
  <2> QED
    BY <2>1, <2>2, <2>3, <2>4, <2>5, <2>6 DEF OnceInv
<1>7. OwnInv'
  <2>1. \A m \in InFlight' : m.re \in call'.reqs => m.type \in call'.replies
    BY <1>1, <1>2, <1>3 DEF OwnInv
  <2>2. \A o \in outstanding' : o.req \in call'.reqs => o.replies \subseteq call'.replies
    BY <1>2, <1>4 DEF OwnInv
  <2>3. \A m \in InFlight' : m.type \in Types \ Shared' => m.re \in call'.reqs
    BY <1>1, <1>2 DEF OwnInv
  <2>4. \A o \in outstanding' : o.req \in call'.reqs \/ o.replies \subseteq Shared'
    BY <1>1, <1>2 DEF OwnInv
  <2>5. call'.clean => call'.types \cap Shared' = {}
    BY <1>1, <1>2 DEF OwnInv
  <2> QED
    BY <2>1, <2>2, <2>3, <2>4, <2>5 DEF OwnInv
<1>8. CountInv'
  <2>1. Due' \subseteq Due \cup {r}
    BY <1>1, <1>2, <1>3, <1>4 DEF Due
  <2>2. IsFiniteSet(Due) /\ Cardinality(Due) \in Nat
    BY DueFinite
  <2>3. IsFiniteSet(Due \cup {r}) /\ Cardinality(Due \cup {r}) <= Cardinality(Due) + 1
    BY <2>2, FS_AddElement
  <2>4. Cardinality(Due') <= Cardinality(Due \cup {r}) /\ Cardinality(Due') \in Nat
    BY <2>1, <2>3, FS_Subset, FS_CardinalityType
  <2>5. Cardinality(Due \cup {r}) \in Nat
    BY <2>3, FS_CardinalityType
  <2>6. Cardinality(Due') + call'.toSend <= Cardinality(Due) + call.toSend
    BY <1>2, <2>2, <2>3, <2>4, <2>5
  <2> QED
    BY <1>2, <2>2, <2>4, <2>6 DEF CountInv
<1> QED
  BY <1>6, <1>7, <1>8

(* What the backend sends answers an open request or none. *)
LEMMA ReplyAskInv ==
  ASSUME TypeInv, TypeOK', AskInv, NEW o \in outstanding, NEW t \in Types, Reply(o, t)
  PROVE  AskInv'
<1> USE DEF AskInv, TypeInv
<1> DEFINE f == [id |-> sent + 1, type |-> t, re |-> o.req]
<1>1. o.req \in 0 .. MaxReqs /\ o.req # 0 /\ Emit(t, o.req) /\ t \in o.replies
      /\ outstanding' = outstanding \ {o}
  BY ConstantsAssumption DEF TypeOK, Reply
<1>2. InFlight' = InFlight \cup {f} /\ Filed' = Filed
  BY <1>1, EmitFlight
<1>3. call' = call /\ reqs' = reqs /\ stale' = stale /\ Shared' = Shared
  BY <1>1 DEF Emit, Shared
<1>4. f.re = o.req /\ f.type = t
  OBVIOUS
<1>5. OnceInv'
  <2>1. \A m, n \in InFlight' \cup Filed' : m.re # 0 /\ m.re = n.re => m = n
    BY <1>2, <1>4 DEF OnceInv
  <2>2. \A p \in outstanding', m \in InFlight' \cup Filed' : m.re # p.req
    BY <1>1, <1>2, <1>4 DEF OnceInv
  <2>3. \A m \in InFlight' \cup Filed' : m.re <= reqs'
    BY <1>2, <1>3, <1>4 DEF OnceInv
  <2> QED
    BY <1>1, <1>3, <2>1, <2>2, <2>3 DEF OnceInv
<1>6. OwnInv'
  <2>1. \A m \in InFlight' : m.re \in call'.reqs => m.type \in call'.replies
    BY <1>1, <1>2, <1>3, <1>4 DEF OwnInv
  <2>2. \A m \in InFlight' : m.type \in Types \ Shared' => m.re \in call'.reqs
    BY <1>1, <1>2, <1>3, <1>4 DEF OwnInv
  <2> QED
    BY <1>1, <1>3, <2>1, <2>2 DEF OwnInv
<1>7. CountInv'
  <2>1. Due' \subseteq Due
    BY <1>1, <1>2, <1>3, <1>4 DEF Due
  <2>2. Cardinality(Due') <= Cardinality(Due) /\ Cardinality(Due') \in Nat
    BY <2>1, DueFinite, FS_Subset, FS_CardinalityType
  <2>3. call.toSend \in Nat /\ call.left \in Nat
    BY DEF TypeOK, CallState
  <2> QED
    BY <1>3, <2>2, <2>3, DueFinite DEF CountInv
<1> QED
  BY <1>5, <1>6, <1>7

LEMMA PushAskInv ==
  ASSUME TypeInv, TypeOK', AskInv, NEW t \in PushTypes \cup Junk, Push(t)
  PROVE  AskInv'
<1> USE DEF AskInv, TypeInv
<1> DEFINE f == [id |-> sent + 1, type |-> t, re |-> 0]
<1>1. Emit(t, 0) /\ outstanding' = outstanding /\ t \in Types \cup JunkKinds
      /\ t \notin Types \ Shared
  BY ConstantsAssumption DEF Push, Shared
<1>2. InFlight' = InFlight \cup {f} /\ Filed' = Filed
  BY <1>1, EmitFlight, ConstantsAssumption
<1>3. call' = call /\ reqs' = reqs /\ stale' = stale /\ Shared' = Shared
  BY <1>1 DEF Emit, Shared
<1>4. f.re = 0 /\ f.type = t /\ 0 <= reqs
      /\ 0 \notin call.reqs /\ \A o \in outstanding : o.req # 0
  <2>1. 0 <= reqs
    BY ConstantsAssumption DEF TypeOK
  <2>2. 0 \notin call.reqs
    BY ConstantsAssumption DEF TypeOK, CallState
  <2>3. \A o \in outstanding : o.req # 0
    BY ConstantsAssumption DEF TypeOK
  <2> QED
    BY <2>1, <2>2, <2>3
<1>5. OnceInv'
  <2>1. \A m, n \in InFlight' \cup Filed' : m.re # 0 /\ m.re = n.re => m = n
    BY <1>2, <1>4 DEF OnceInv
  <2> QED
    BY <1>1, <1>2, <1>3, <1>4, <2>1 DEF OnceInv
<1>6. OwnInv'
  BY <1>1, <1>2, <1>3, <1>4 DEF OwnInv
<1>7. CountInv'
  <2>1. Due' = Due
    BY <1>1, <1>2, <1>3, <1>4 DEF Due
  <2> QED
    BY <1>3, <2>1 DEF CountInv
<1> QED
  BY <1>5, <1>6, <1>7

(* A burst goes on: one request less is due, one answer less is to come.   *)
LEMMA NextAnswerAskInv ==
  ASSUME TypeInv, TypeOK', AskInv, NEW m \in InFlight,
         InFlight' \subseteq InFlight \ {m}, Filed' = Filed,
         m.type \in Types, m.type \in call.types,
         call' = [call EXCEPT !.left = @ - 1], call.left > 1,
         UNCHANGED <<outstanding, reqs, stale>>
  PROVE  AskInv'
<1> USE DEF AskInv, TypeInv
<1>1. /\ call'.op = call.op /\ call'.types = call.types /\ call'.replies = call.replies
      /\ call'.reqs = call.reqs /\ call'.toSend = call.toSend /\ call'.clean = call.clean
      /\ call'.left = call.left - 1 /\ call.left \in Nat /\ call.toSend \in Nat
  BY DEF TypeOK, CallState
<1>2. OnceInv'
  BY <1>1 DEF OnceInv
<1>3. OwnInv'
  BY <1>1 DEF OwnInv, Shared
<1>4. ASSUME call.clean, call.op \in QueueOps
      PROVE  Cardinality(Due') + call'.toSend <= call'.left
  <2>1. m.re \in call.reqs /\ m.re \in Due
    BY <1>4, CleanAnswer DEF Due
  <2>2. call.reqs \subseteq 1 .. MaxReqs
    BY DEF TypeOK, CallState
  <2>3. m.re \notin Due'
    <3>1. m.re # 0
      BY <2>1, <2>2, ConstantsAssumption
    <3>2. \A n \in InFlight' : n.re # m.re
      BY <3>1 DEF OnceInv
    <3>3. \A o \in outstanding' : o.req # m.re
      BY DEF OnceInv
    <3> QED
      BY <3>2, <3>3 DEF Due
  <2>4. Due' \subseteq Due \ {m.re}
    BY <1>1, <2>3 DEF Due
  <2>5. IsFiniteSet(Due) /\ Cardinality(Due) \in Nat
    BY DueFinite
  <2>6. IsFiniteSet(Due \ {m.re}) /\ Cardinality(Due \ {m.re}) = Cardinality(Due) - 1
    BY <2>1, <2>5, FS_RemoveElement
  <2>7. Cardinality(Due') <= Cardinality(Due \ {m.re}) /\ Cardinality(Due') \in Nat
    BY <2>4, <2>6, FS_Subset, FS_CardinalityType
  <2>8. Cardinality(Due) + call.toSend <= call.left
    BY <1>4 DEF CountInv
  <2> QED
    BY <1>1, <2>5, <2>6, <2>7, <2>8
<1>5. CountInv'
  <2>1. call.op # "request_any"
    BY <1>1 DEF CountInv
  <2> QED
    BY <1>1, <1>4, <2>1 DEF CountInv
<1> QED
  BY <1>2, <1>3, <1>5

LEMMA GetAskInv ==
  ASSUME TypeInv, TypeOK', OrderInv, TaskInv, AskInv, NEW t \in Types, Get(t)
  PROVE  AskInv'
<1> DEFINE m == Head(pending[t])
<1>1. m \in InFlight /\ m.type = t /\ InFlight' \subseteq InFlight \ {m} /\ Filed' = Filed
  BY GetFlight
<1>2. t \in call.types /\ UNCHANGED <<outstanding, reqs>>
  BY DEF Get
<1>3. CASE call.left = 1
  <2>1. call' = Idle /\ stale' = stale \cup LeavesOpen(m)
    BY <1>3 DEF Get
  <2> QED
    BY <1>1, <1>2, <1>3, <2>1, EndAskInv DEF TypeInv
<1>4. CASE call.left # 1
  <2>1. call' = [call EXCEPT !.left = @ - 1] /\ stale' = stale
    BY <1>4 DEF Get
  <2>2. call.left \in Nat /\ call.left > 0
    BY DEF TypeInv, TypeOK, CallState, Reserved, Get, Waiting
  <2> QED
    BY <1>1, <1>2, <1>4, <2>1, <2>2, NextAnswerAskInv
<1> QED
  BY <1>3, <1>4

LEMMA AnyAskInv ==
  ASSUME TypeInv, TypeOK', OrderInv, TaskInv, HeldInv, AskInv, NEW t \in Types, AnyReturn(t)
  PROVE  AskInv'
<1> DEFINE m == Head(held[t])
<1>1. /\ m \in InFlight /\ m.type = t /\ t \in call.types
      /\ InFlight' \subseteq InFlight \ {m} /\ Filed' = Filed
  BY AnyFlight DEF AnyReturn
<1>2. /\ call' = Idle /\ stale' = stale \cup LeavesOpen(m)
      /\ UNCHANGED <<outstanding, reqs>> /\ call.op = "request_any"
  BY DEF AnyReturn, Waiting
<1>3. call.left = 1
  BY <1>2 DEF AskInv, CountInv
<1> QED
  BY <1>1, <1>2, <1>3, EndAskInv DEF TypeInv

LEMMA PollAskInv ==
  ASSUME TypeInv, TypeOK', OrderInv, TaskInv, AskInv, NEW i \in DOMAIN events, PollReturns(i)
  PROVE  AskInv'
<1>1. /\ events[i] \in Filed /\ events[i] \notin InFlight
      /\ InFlight' = InFlight /\ Filed' = Filed
  BY PollFlight
<1>2. /\ call' = Idle /\ stale' = stale \cup LeavesOpen(events[i])
      /\ UNCHANGED <<outstanding, reqs>> /\ call.op \notin QueueOps
  BY DEF PollReturns, Waiting, QueueOps
<1> QED
  BY <1>1, <1>2, EndAskInv DEF TypeInv

LEMMA InitAskInv == Init => AskInv /\ HeldInv /\ Verdict
<1> SUFFICES ASSUME Init PROVE AskInv /\ HeldInv /\ Verdict
  OBVIOUS
<1>1. InFlight = {} /\ Filed = {}
  BY EmptyElements DEF Init, InFlight, Filed, Empty
<1>2. OnceInv
  BY <1>1 DEF Init, OnceInv, Idle
<1>3. OwnInv
  BY <1>1 DEF Init, OwnInv, Idle
<1>4. CountInv
  BY DEF Init, CountInv, Idle
<1>5. HeldInv
  BY EmptySeq DEF Init, HeldInv, Empty
<1>6. Verdict
  BY DEF Init, Verdict, AnswersItsRequest, NothingDropped, NoAnswer
<1> QED
  BY <1>2, <1>3, <1>4, <1>5, <1>6 DEF AskInv

ClientInv == TypeInv /\ OrderInv /\ TaskInv /\ HeldInv /\ AskInv

LEMMA StepAskInv == ClientInv /\ TypeInv' /\ [Next]_vars => AskInv'
<1> SUFFICES ASSUME ClientInv, TypeInv', [Next]_vars PROVE AskInv'
  OBVIOUS
<1> USE DEF ClientInv
<1>1. TypeOK /\ TypeOK'
  BY DEF TypeInv
<1>2. ASSUME UNCHANGED <<pending, held, events, call, stale, reqs>>,
             Elements(net') \subseteq Elements(net), outstanding' \subseteq outstanding
      PROVE  AskInv'
  <2>1. InFlight' \subseteq InFlight /\ Filed' \subseteq InFlight \cup Filed
    <3>1. Filed' = Filed
      BY <1>2 DEF Filed, Elements
    <3>2. \A t \in Types : Elements(pending'[t]) = Elements(pending[t])
                           /\ Elements(held'[t]) = Elements(held[t])
      BY <1>2
    <3> QED
      BY <1>2, <3>1, <3>2 DEF InFlight
  <2> QED
    BY <1>1, <1>2, <2>1, LessInFlight
<1>3. CASE Connect \/ LoopEnds \/ UNCHANGED vars
  <2>1. net' = net
    BY <1>3 DEF Connect, LoopEnds, vars
  <2>2. Elements(net') = Elements(net)
    BY <2>1
  <2> QED
    BY <1>2, <1>3, <2>2 DEF Connect, LoopEnds, vars
<1>4. CASE Disconnect
  <2>1. Elements(net') = {}
    BY <1>4, EmptyElements DEF Disconnect
  <2> QED
    BY <1>2, <1>4, <2>1 DEF Disconnect
<1>5. CASE ServerCloses
  <2>1. net' = net
    BY <1>5 DEF ServerCloses
  <2>2. Elements(net') = Elements(net)
    BY <2>1
  <2> QED
    BY <1>2, <1>5, <2>2 DEF ServerCloses
<1>6. CASE Dispatch
  <2>1. InFlight' \subseteq InFlight /\ Filed' \subseteq InFlight \cup Filed
    BY <1>6, DispatchFlight
  <2> QED
    BY <1>1, <1>6, <2>1, LessInFlight DEF Dispatch
<1>7. ASSUME NEW t \in Types, TaskGet(t) PROVE AskInv'
  <2>1. InFlight' \subseteq InFlight /\ Filed' = Filed
    BY <1>7, TaskGetFlight
  <2> QED
    BY <1>1, <1>7, <2>1, LessInFlight DEF TaskGet
<1>8. CASE SendFails \/ Timeout \/ PollTimesOut
  BY <1>1, <1>8, AbandonAskInv DEF SendFails, Timeout, PollTimesOut
<1> QED
  BY <1>1, <1>3, <1>4, <1>5, <1>6, <1>7, <1>8, StartAskInv, SendAskInv, GetAskInv, AnyAskInv,
     PollAskInv, ReplyAskInv, PushAskInv
  DEF Next, CallerStep, LoopStep, ServerStep, Finished

(* What a step of a call returns. *)
LEMMA StepVerdict == ClientInv /\ Verdict /\ [Next]_vars => Verdict'
<1> SUFFICES ASSUME ClientInv, Verdict, [Next]_vars PROVE Verdict'
  OBVIOUS
<1> USE DEF ClientInv
<1>1. ASSUME answer' = answer PROVE Verdict'
  BY <1>1 DEF Verdict, AnswersItsRequest, NothingDropped
<1>2. ASSUME NEW t \in Types, Get(t) PROVE Verdict'
  <2> DEFINE m == Head(pending[t])
  <2>1. answer' = Answer(m, {}) /\ t \in call.types /\ m.type = t /\ m \in InFlight
    BY <1>2, GetFlight DEF Get
  <2>2. call.clean => m.re \in call.reqs
    BY <2>1, CleanAnswer DEF AskInv
  <2> QED
    BY <2>1, <2>2 DEF Verdict, AnswersItsRequest, NothingDropped, Answer
<1>3. ASSUME NEW t \in Types, AnyReturn(t) PROVE Verdict'
  <2> DEFINE m == Head(held[t])
             D == {Head(held[u]).id : u \in {v \in Types \ {t} : held[v] # <<>>}}
  <2>1. /\ answer' = Answer(m, D) /\ held[t] # <<>> /\ call.op = "request_any"
        /\ call.op \in QueueOps /\ call.left = 1
    BY <1>3 DEF AnyReturn, Waiting, QueueOps, AskInv, CountInv
  <2>2. \A u \in Types : held[u] # <<>> =>
          Head(held[u]) \in InFlight /\ Head(held[u]).type = u /\ u \in call.types
    BY <1>3, AnyFlight
  <2>3. \A u \in Types : held[u] # <<>> /\ call.clean =>
          Head(held[u]).re \in call.reqs /\ Head(held[u]).re \in Due
    <3> SUFFICES ASSUME NEW u \in Types, held[u] # <<>>, call.clean
                 PROVE  Head(held[u]).re \in call.reqs /\ Head(held[u]).re \in Due
      OBVIOUS
    <3>1. Head(held[u]).re \in call.reqs
      BY <2>2, CleanAnswer DEF AskInv
    <3> QED
      BY <2>2, <3>1 DEF Due
  <2>4. ASSUME call.clean, NEW u \in Types \ {t}, held[u] # <<>> PROVE FALSE
    <3>1. Head(held[u]).re = m.re
      BY <2>1, <2>3, <2>4, LastDue DEF TypeInv, AskInv
    <3>2. m.re # 0
      <4>1. m.re \in call.reqs /\ call.reqs \subseteq 1 .. MaxReqs
        BY <2>1, <2>3, <2>4 DEF TypeInv, TypeOK, CallState
      <4> QED
        BY <4>1, ConstantsAssumption
    <3>3. Head(held[u]) = m
      BY <2>1, <2>2, <2>4, <3>1, <3>2 DEF AskInv, OnceInv
    <3> QED
      BY <2>1, <2>2, <2>4, <3>3
  <2>5. call.clean => D = {}
    BY <2>4
  <2>6. call.clean => m.re \in call.reqs
    BY <2>1, <2>3
  <2> QED
    BY <2>1, <2>5, <2>6 DEF Verdict, AnswersItsRequest, NothingDropped, Answer
<1>4. ASSUME NEW i \in DOMAIN events, PollReturns(i) PROVE Verdict'
  BY <1>4 DEF PollReturns, Waiting, Verdict, AnswersItsRequest, NothingDropped, Answer
<1> QED
  BY <1>1, <1>2, <1>3, <1>4
  DEF Next, CallerStep, LoopStep, ServerStep, Finished, Connect, Disconnect, Start, Send,
      SendFails, Timeout, PollTimesOut, Abandon, TaskGet, Dispatch, LoopEnds, Reply,
      Push, Emit, ServerCloses, vars

LEMMA ClientInvariant == Spec => [](ClientInv /\ Verdict)
<1>1. Init => ClientInv /\ Verdict
  BY InitTypeInv, InitOrderInv, InitTaskInv, InitAskInv DEF ClientInv
<1>2. ClientInv /\ Verdict /\ [Next]_vars => (ClientInv /\ Verdict)'
  <2> SUFFICES ASSUME ClientInv, Verdict, [Next]_vars PROVE ClientInv' /\ Verdict'
    OBVIOUS
  <2>1. TypeInv' /\ OrderInv' /\ TaskInv' /\ HeldInv'
    BY StepTypeInv, StepOrderInv, StepTaskInv, StepHeldInv DEF ClientInv
  <2>2. AskInv' /\ Verdict'
    BY <2>1, StepAskInv, StepVerdict
  <2> QED
    BY <2>1, <2>2 DEF ClientInv
<1> QED
  BY <1>1, <1>2, PTL DEF Spec

(* Matching answers to requests by type alone is sound for a call whose    *)
(* types are never pushed and are owed by no request that was given up:    *)
(* across calls, bursts, timeouts and reconnects it gets its own answer.   *)
THEOREM AnswersMatch == Spec => []AnswersItsRequest
<1>1. Verdict => AnswersItsRequest
  BY DEF Verdict
<1> QED
  BY <1>1, ClientInvariant, PTL

(* For such a call the get-tasks of request_any never both finish: no      *)
(* message is thrown away.                                                 *)
THEOREM NothingIsDropped == Spec => []NothingDropped
<1>1. Verdict => NothingDropped
  BY DEF Verdict
<1> QED
  BY <1>1, ClientInvariant, PTL
=============================================================================

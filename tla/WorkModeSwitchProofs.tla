------------------------ MODULE WorkModeSwitchProofs ------------------------
(***************************************************************************)
(* Proofs about WorkModeSwitch: a switch that passes did switch, for any   *)
(* plans, numbers of updates and pushes, with a refresh that may fail; and *)
(* about MCWorkMode, whose backend serves either the tests or the script   *)
(* of WorkModeVerify: what holds of each user holds of either.             *)
(***************************************************************************)
EXTENDS MCWorkMode, TLAPS

(* The places of a switch in its plan. *)
Progress ==
  /\ pc # "idle" => plan # <<>> /\ result = "none"
  /\ pc = "send" => next < Len(plan) /\ acks = 0
  /\ pc = "acks" => acks < Len(plan)
  /\ pc \in {"acks", "wait"} => next = Len(plan)
  /\ pc # "idle" /\ Strict => regd

TypeInv == TypeOK /\ Progress

-----------------------------------------------------------------------------
(* What holds during a switch that is judged: of one update, begun in the  *)
(* other mode with nothing in flight.                                      *)

Judged == clean /\ Strict

NoAck(s) == \A i \in DOMAIN s : s[i].kind # "ack"

(* A push behind place k that carries the new mode was made in it. *)
Fresh(k) == \A i \in DOMAIN wire : i > k /\ wire[i].mode = Expected => ctx = Expected

(* The update is in the database; once the state context has followed, the *)
(* timer is off and nothing moves any more.                                *)
Written == db = Expected /\ (ctx = Expected => ~timer)

Unsent == todo = <<>> /\ ~timer /\ ctx # Expected /\ ackq = <<>> /\ NoAck(wire)

Unread == todo = <<Update(Expected)>> /\ ~timer /\ ctx # Expected
            /\ ackq = <<>> /\ NoAck(wire)

(* The ack, wherever it is, and what follows it. *)
OnWire ==
  /\ todo = <<>> /\ ackq = <<>>
  /\ \E k \in DOMAIN wire :
       /\ wire[k].kind = "ack" /\ \A i \in DOMAIN wire : i # k => wire[i].kind # "ack"
       /\ wire[k].ok => Written /\ Fresh(k)

InQueue ==
  /\ todo = <<>> /\ NoAck(wire)
  /\ \E ok \in BOOLEAN : ackq = <<ok>> /\ (ok => Written /\ Fresh(0))

Waiting ==
  /\ todo = <<>> /\ Written /\ Fresh(0)
  /\ \A i \in DOMAIN events : i > cursor /\ events[i] = Expected => ctx = Expected

Passed == todo = <<>> /\ ~timer /\ db = Expected /\ ctx = Expected

SwitchInv ==
  Judged => /\ pc = "send" => Unsent
            /\ pc = "acks" => Unread \/ OnWire \/ InQueue
            /\ pc = "wait" => Waiting
            /\ pc = "idle" /\ result = "ok" => Passed

IInv == TypeInv /\ SwitchInv

-----------------------------------------------------------------------------
(* Queues and messages.                                                    *)

(* What is left of a queue when its head is taken. *)
LEMMA TailFacts ==
  ASSUME NEW S, NEW s \in Seq(S), s # <<>>
  PROVE  /\ 1 \in DOMAIN s /\ Head(s) = s[1] /\ Head(s) \in S
         /\ Tail(s) \in Seq(S)
         /\ \A i \in DOMAIN Tail(s) : i \in Nat /\ i + 1 \in DOMAIN s /\ Tail(s)[i] = s[i + 1]
         /\ \A i \in DOMAIN s : i # 1 => i - 1 \in DOMAIN Tail(s) /\ Tail(s)[i - 1] = s[i]
  OBVIOUS

(* What an element more does to a queue. *)
LEMMA AppendFacts ==
  ASSUME NEW S, NEW s \in Seq(S), NEW e \in S
  PROVE  /\ Append(s, e) \in Seq(S) /\ Len(Append(s, e)) = Len(s) + 1
         /\ Append(s, e)[Len(s) + 1] = e
         /\ DOMAIN s = 1 .. Len(s) /\ DOMAIN Append(s, e) = DOMAIN s \cup {Len(s) + 1}
         /\ \A i \in DOMAIN s : Append(s, e)[i] = s[i]
  OBVIOUS

(* Requests and answers are what they are made to be. *)
LEMMA MessageFacts ==
  /\ \A m \in Modes : /\ Update(m) \in Request /\ Update(m).kind = "update"
                      /\ Update(m).mode = m
  /\ \A r \in Request : r.kind = "update" => r.mode \in Modes
  /\ \A ok \in BOOLEAN : /\ Ack(ok) \in Reply /\ Ack(ok).kind = "ack"
                         /\ Ack(ok).ok = ok /\ Ack(ok).mode = "none"
  /\ \A m \in Modes : /\ Status(m) \in Reply /\ Status(m).kind = "status"
                      /\ Status(m).mode = m
                      /\ Params(m) \in Reply /\ Params(m).kind = "params"
                      /\ Params(m).mode = m
  /\ \A r \in Reply : r.kind = "ack" => r.ok \in BOOLEAN
  /\ \A r \in Reply : r.mode \in Modes \cup {"none"}
<1>1. \A r \in Reply : r.kind = "ack" => r.ok \in BOOLEAN
  BY DEF Reply, Ack, Status, Params
<1>2. \A r \in Reply : r.mode \in Modes \cup {"none"}
  BY DEF Reply, Ack, Status, Params
<1>. QED
  BY <1>1, <1>2 DEF Request, Reply, GetParams, Update, Ack, Status, Params, Modes

(* A plan has a last mode. *)
LEMMA PlanFacts ==
  ASSUME NEW p \in Plans
  PROVE  /\ p \in Seq(Modes) /\ p # <<>> /\ Len(p) \in Nat \ {0}
         /\ p[Len(p)] \in Modes /\ \A i \in 0 .. Len(p) - 1 : p[i + 1] \in Modes
<1>1. p \in Seq(Modes) /\ p # <<>>
  BY SwitchAssumption
<1>. QED
  BY <1>1

LEMMA ExpectedIsMode == TypeOK /\ plan # <<>> => Expected \in Modes
BY PlanFacts DEF TypeOK, Expected

-----------------------------------------------------------------------------
(* Types.                                                                  *)

LEMMA InitTypeInv == Init => TypeInv
<1>. SUFFICES ASSUME Init PROVE TypeInv
  OBVIOUS
<1>1. BackendTypeOK
  <2>1. todo \in Seq(Request) /\ wire \in Seq(Reply)
    BY DEF Init, BackendInit
  <2>3. timer \in BOOLEAN
    BY DEF Init, BackendInit
  <2>2. pushes \in 0 .. MaxPushes /\ db \in Modes /\ ctx \in Modes
    BY BackendAssumption DEF Init, BackendInit
  <2>. QED
    BY <2>1, <2>2, <2>3 DEF BackendTypeOK
<1>2. Len(plan) \in Nat /\ Len(events) \in Nat /\ 0 \in 0 .. Len(plan) /\ 0 \in 0 .. Len(events)
  BY DEF Init
<1>3. TypeOK
  <2>1. ackq \in Seq(BOOLEAN) /\ events \in Seq(Modes \cup {"none"})
    BY DEF Init
  <2>3. clean \in BOOLEAN /\ regd \in BOOLEAN
    BY DEF Init
  <2>2. updates \in 0 .. MaxUpdates
    BY SwitchAssumption DEF Init
  <2>. QED
    BY <1>1, <1>2, <2>1, <2>2, <2>3 DEF Init, TypeOK
<1>. QED
  BY <1>3 DEF Init, TypeInv, Progress

(* The steps of the backend keep the types. *)
LEMMA BackendTypes ==
  ASSUME TypeOK, BackendStep
  PROVE  BackendTypeOK'
<1>. USE BackendAssumption, MessageFacts DEF TypeOK, BackendTypeOK
<1>1. ASSUME NEW ok \in BOOLEAN, Apply(ok) PROVE BackendTypeOK'
  <2>1. Head(todo) \in Request /\ todo' \in Seq(Request)
    BY <1>1, TailFacts DEF Apply
  <2>2. db' \in Modes /\ timer' \in BOOLEAN
    BY <1>1, <2>1 DEF Apply
  <2>3. wire' \in Seq(Reply)
    BY <1>1, AppendFacts DEF Apply
  <2>. QED
    BY <1>1, <2>1, <2>2, <2>3 DEF Apply
<1>2. CASE ReadParams
  <2>1. todo' \in Seq(Request)
    BY <1>2, TailFacts DEF ReadParams
  <2>2. wire' \in Seq(Reply)
    BY <1>2, AppendFacts DEF ReadParams
  <2>. QED
    BY <1>2, <2>1, <2>2 DEF ReadParams
<1>3. ASSUME NEW fails \in BOOLEAN, Refresh(fails) PROVE BackendTypeOK'
  BY <1>3 DEF Refresh, Modes
<1>4. CASE PushStatus
  <2>1. wire' \in Seq(Reply)
    BY <1>4, AppendFacts DEF PushStatus
  <2>2. pushes' \in 0 .. MaxPushes
    BY <1>4 DEF PushStatus
  <2>. QED
    BY <1>4, <2>1, <2>2 DEF PushStatus
<1>. QED
  BY <1>1, <1>2, <1>3, <1>4 DEF BackendStep

(* The types, and the places of a switch in its plan, are inductive. *)
LEMMA StepTypeInv == TypeInv /\ [Next]_vars => TypeInv'
<1>. SUFFICES ASSUME TypeInv, [Next]_vars
              PROVE  TypeInv'
  OBVIOUS
<1>. USE SwitchAssumption DEF TypeInv, TypeOK, Progress, Strict
<1>0. Len(plan) \in Nat
  <2>1. CASE plan \in Plans
    BY <2>1, PlanFacts
  <2>2. CASE plan = <<>>
    BY <2>2
  <2>. QED
    BY <2>1, <2>2
<1>1. CASE UNCHANGED vars
  BY <1>1 DEF vars, backendVars, testVars, clientVars, BackendTypeOK
<1>2. ASSUME NEW p \in Plans, Begin(p) PROVE TypeInv'
  <2>1. BackendTypeOK'
    BY <1>2 DEF Begin, backendVars, BackendTypeOK
  <2>2. Len(p) \in Nat \ {0} /\ p # <<>>
    BY PlanFacts
  <2>3. clean' \in BOOLEAN
    BY <1>2 DEF Begin
  <2>4. updates' \in 0 .. MaxUpdates /\ regd' \in BOOLEAN
    BY <1>2, <2>2 DEF Begin
  <2>5. next' \in 0 .. Len(plan') /\ acks' \in 0 .. Len(plan') /\ sendAt' \in 0 .. Len(events')
    BY <1>2, <2>2 DEF Begin
  <2>6. /\ pc' = "send" /\ plan' = p /\ result' = "none"
        /\ UNCHANGED <<ackq, events, cursor>>
    BY <1>2 DEF Begin
  <2>7. TypeOK'
    BY <2>1, <2>3, <2>4, <2>5, <2>6
  <2>8. Progress'
    <3>1. next' = 0 /\ acks' = 0 /\ (Len(p) = 1 => regd')
      BY <1>2 DEF Begin
    <3>. QED
      BY <2>2, <2>6, <3>1
  <2>. QED
    BY <2>7, <2>8
<1>3. CASE Send
  <2>1. plan \in Plans /\ next \in 0 .. Len(plan) - 1 /\ Len(plan) \in Nat \ {0}
    BY <1>3, PlanFacts DEF Send
  <2>2. plan[next + 1] \in Modes
    BY <2>1, PlanFacts
  <2>3. todo' \in Seq(Request)
    BY <1>3, <2>2, MessageFacts, AppendFacts DEF Send, BackendTypeOK
  <2>4. BackendTypeOK'
    BY <1>3, <2>3 DEF Send, BackendTypeOK
  <2>. QED
    BY <1>3, <2>1, <2>4 DEF Send
<1>4. CASE TakeAck
  <2>1. /\ pc = "acks" /\ ackq # <<>> /\ ackq' = Tail(ackq) /\ acks' = acks + 1
        /\ UNCHANGED <<backendVars, plan, next, regd, events, sendAt, clean, updates>>
    BY <1>4 DEF TakeAck
  <2>2. acks \in Nat /\ acks < Len(plan)
    BY <2>1
  <2>3. BackendTypeOK'
    BY <2>1 DEF backendVars, BackendTypeOK
  <2>4. ackq' \in Seq(BOOLEAN)
    BY <2>1
  <2>5. acks' \in 0 .. Len(plan)
    BY <1>0, <2>1, <2>2
  <2>6. \/ pc' = "idle" /\ result' = "error" /\ cursor' = cursor
        \/ pc' = "wait" /\ cursor' = Len(events) /\ result' = result /\ acks' = Len(plan)
        \/ pc' = pc /\ cursor' = cursor /\ result' = result /\ acks' # Len(plan)
    BY <1>4 DEF TakeAck, Fail, BeginWait
  <2>7. TypeOK'
    BY <2>1, <2>3, <2>4, <2>5, <2>6
  <2>8. Progress'
    BY <1>0, <2>1, <2>2, <2>5, <2>6
  <2>. QED
    BY <2>7, <2>8
<1>5. CASE AckTimesOut
  <2>1. BackendTypeOK'
    BY <1>5 DEF AckTimesOut, backendVars, BackendTypeOK
  <2>. QED
    BY <1>5, <2>1 DEF AckTimesOut, Fail, BeginWait, clientVars
<1>6. CASE Accept \/ Skip \/ Deadline
  <2>1. BackendTypeOK'
    BY <1>6 DEF Accept, Skip, Deadline, backendVars, BackendTypeOK
  <2>2. cursor' \in 0 .. Len(events)
    BY <1>6 DEF Accept, Skip, Deadline, NewEvents
  <2>. QED
    BY <1>6, <2>1, <2>2 DEF Accept, Skip, Deadline, clientVars
<1>7. CASE Receive
  <2>1. wire' \in Seq(Reply) /\ Head(wire) \in Reply
    BY <1>7, TailFacts DEF Receive, BackendTypeOK
  <2>2. BackendTypeOK'
    BY <1>7, <2>1 DEF Receive, BackendTypeOK
  <2>3. /\ Head(wire).kind = "ack" => Head(wire).ok \in BOOLEAN
        /\ Head(wire).mode \in Modes \cup {"none"}
    BY <2>1, MessageFacts
  <2>4. ackq' \in Seq(BOOLEAN)
    <3>1. Head(wire).kind = "ack" => Append(ackq, Head(wire).ok) \in Seq(BOOLEAN)
      BY <2>3
    <3>. QED
      BY <1>7, <3>1 DEF Receive
  <2>5. events' \in Seq(Modes \cup {"none"}) /\ Len(events') >= Len(events)
    <3>1. events \in Seq(Modes \cup {"none"})
      OBVIOUS
    <3>2. /\ Append(events, Head(wire).mode) \in Seq(Modes \cup {"none"})
          /\ Len(Append(events, Head(wire).mode)) = Len(events) + 1
      BY <2>3, <3>1, AppendFacts
    <3>3. events' = events \/ events' = Append(events, Head(wire).mode)
      BY <1>7 DEF Receive
    <3>4. CASE events' = events
      BY <3>1, <3>4
    <3>5. CASE events' = Append(events, Head(wire).mode)
      BY <3>1, <3>2, <3>5
    <3>. QED
      BY <3>3, <3>4, <3>5
  <2>6. UNCHANGED <<testVars, regd>>
    BY <1>7 DEF Receive
  <2>7. sendAt' \in 0 .. Len(events') /\ cursor' \in 0 .. Len(events')
    BY <2>5, <2>6 DEF testVars
  <2>. QED
    BY <2>2, <2>4, <2>5, <2>6, <2>7 DEF testVars
<1>8. CASE BackendStep /\ UNCHANGED <<testVars, clientVars>>
  <2>1. BackendTypeOK'
    BY <1>8, BackendTypes
  <2>. QED
    BY <1>8, <2>1 DEF testVars, clientVars
<1>. QED
  BY <1>1, <1>2, <1>3, <1>4, <1>5, <1>6, <1>7, <1>8 DEF Next, TestStep, Finished

(* Every variable has its type, for all plans and bounds. *)
THEOREM TypeCorrect == Spec => []TypeOK
<1>1. TypeInv => TypeOK
  BY DEF TypeInv
<1>. QED
  BY InitTypeInv, StepTypeInv, <1>1, PTL DEF Spec

-----------------------------------------------------------------------------
(* The backend during a switch that is judged.                             *)

(* With no request to read, it pushes, or its timer expires. *)
LEMMA QuietBackend ==
  ASSUME todo = <<>>, BackendStep
  PROVE  /\ todo' = <<>> /\ db' = db
         /\ \/ wire' = Append(wire, Status(ctx)) /\ ctx' = ctx /\ timer' = timer
            \/ wire' = wire /\ ctx' \in {db, "screw"} /\ timer /\ ~timer'
BY DEF BackendStep, Apply, ReadParams, Refresh, PushStatus

(* A push is no ack, and carries what the state context holds. *)
LEMMA PushFacts ==
  ASSUME TypeOK, wire' = Append(wire, Status(ctx)), ctx' = ctx
  PROVE  /\ DOMAIN wire = 1 .. Len(wire) /\ DOMAIN wire' = DOMAIN wire \cup {Len(wire) + 1}
         /\ \A i \in DOMAIN wire : wire'[i] = wire[i]
         /\ wire'[Len(wire) + 1].kind = "status" /\ wire'[Len(wire) + 1].mode = ctx'
<1>1. Status(ctx) \in Reply /\ Status(ctx).kind = "status" /\ Status(ctx).mode = ctx
  BY MessageFacts DEF TypeOK, BackendTypeOK
<1>. QED
  BY <1>1, AppendFacts DEF TypeOK, BackendTypeOK

(* No step of a backend that has nothing to read breaks what the frames    *)
(* and the state context have to do with each other.                       *)
LEMMA QuietKeeps ==
  ASSUME TypeOK, todo = <<>>, BackendStep, Expected' = Expected
  PROVE  /\ NoAck(wire) => NoAck(wire)'
         /\ Written => Written'
         /\ \A k : Written /\ Fresh(k) => Fresh(k)'
<1>1. CASE wire' = Append(wire, Status(ctx)) /\ ctx' = ctx /\ timer' = timer
  <2>1. NoAck(wire) => NoAck(wire)'
    BY <1>1, PushFacts DEF NoAck
  <2>2. Written => Written'
    BY <1>1, QuietBackend DEF Written
  <2>3. \A k : Written /\ Fresh(k) => Fresh(k)'
    BY <1>1, PushFacts DEF Fresh
  <2>. QED
    BY <2>1, <2>2, <2>3
<1>2. CASE wire' = wire /\ ctx' \in {db, "screw"} /\ timer /\ ~timer'
  BY <1>2, QuietBackend DEF NoAck, Written, Fresh
<1>. QED
  BY <1>1, <1>2, QuietBackend

(* The backend does not disturb the phases of the switch, but for reading  *)
(* its update.                                                             *)
LEMMA BackendKeeps ==
  ASSUME TypeInv, BackendStep, UNCHANGED <<testVars, clientVars>>, plan # <<>>
  PROVE  /\ Unsent => Unsent'
         /\ Unread => Unread' \/ OnWire'
         /\ OnWire => OnWire'
         /\ InQueue => InQueue'
         /\ Waiting => Waiting'
         /\ Passed => Passed'
<1>1. Expected' = Expected /\ UNCHANGED <<ackq, events, cursor>>
  BY DEF Expected, testVars, clientVars
<1>2. TypeOK /\ Expected \in Modes
  BY ExpectedIsMode DEF TypeInv
<1>3. ASSUME Unsent PROVE Unsent'
  BY <1>1, <1>2, <1>3, QuietBackend, QuietKeeps DEF Unsent
<1>4. ASSUME Unread PROVE Unread' \/ OnWire'
  <2>1. CASE PushStatus
    <3>1. NoAck(wire)'
      BY <1>2, <1>4, <2>1, PushFacts DEF PushStatus, Unread, NoAck
    <3>. QED
      BY <1>1, <1>4, <2>1, <3>1 DEF PushStatus, Unread
  <2>2. ASSUME NEW ok \in BOOLEAN, Apply(ok) PROVE OnWire'
    <3>1. /\ todo' = <<>> /\ ctx' = ctx /\ wire' = Append(wire, Ack(ok))
          /\ ok => db' = Expected
      <4>1. Head(todo) = Update(Expected) /\ Tail(todo) = <<>>
        BY <1>4 DEF Unread
      <4>. QED
        BY <1>2, <2>2, <4>1, MessageFacts DEF Apply
    <3>2. Ack(ok) \in Reply /\ Ack(ok).kind = "ack" /\ Ack(ok).ok = ok
      BY MessageFacts
    <3>3. /\ DOMAIN wire' = DOMAIN wire \cup {Len(wire) + 1} /\ DOMAIN wire = 1 .. Len(wire)
          /\ wire'[Len(wire) + 1] = Ack(ok) /\ \A i \in DOMAIN wire : wire'[i] = wire[i]
          /\ Len(wire) \in Nat
      BY <1>2, <3>1, <3>2, AppendFacts DEF TypeOK, BackendTypeOK
    <3>4. \A i \in DOMAIN wire' : i # Len(wire) + 1 => wire'[i].kind # "ack"
      BY <1>4, <3>3 DEF Unread, NoAck
    <3>5. wire'[Len(wire) + 1].kind = "ack" /\ wire'[Len(wire) + 1].ok = ok
      BY <3>2, <3>3
    <3>6. \A i \in DOMAIN wire' : ~(i > Len(wire) + 1)
      BY <3>3
    <3>7. ctx' # Expected' /\ ackq' = <<>>
      BY <1>1, <1>4, <3>1 DEF Unread
    <3>8. PICK k : k = Len(wire) + 1
      OBVIOUS
    <3>9. Fresh(k)' /\ (ok => Written')
      BY <1>1, <3>1, <3>6, <3>7, <3>8 DEF Fresh, Written
    <3>. QED
      BY <3>1, <3>3, <3>4, <3>5, <3>7, <3>8, <3>9 DEF OnWire
  <2>3. ~ReadParams /\ \A fails \in BOOLEAN : ~Refresh(fails)
    <3>1. Head(todo).kind = "update"
      BY <1>2, <1>4, MessageFacts DEF Unread
    <3>. QED
      BY <1>4, <3>1 DEF ReadParams, Refresh, Unread
  <2>. QED
    BY <2>1, <2>2, <2>3 DEF BackendStep
<1>5. ASSUME OnWire PROVE OnWire'
  <2>1. PICK k \in DOMAIN wire :
          /\ wire[k].kind = "ack" /\ \A i \in DOMAIN wire : i # k => wire[i].kind # "ack"
          /\ wire[k].ok => Written /\ Fresh(k)
    BY <1>5 DEF OnWire
  <2>2. /\ k \in DOMAIN wire' /\ wire'[k] = wire[k]
        /\ \A i \in DOMAIN wire' : i # k => wire'[i].kind # "ack"
    <3>1. CASE wire' = Append(wire, Status(ctx)) /\ ctx' = ctx
      BY <1>2, <2>1, <3>1, PushFacts
    <3>2. CASE wire' = wire
      BY <2>1, <3>2
    <3>. QED
      BY <1>5, <3>1, <3>2, QuietBackend DEF OnWire
  <2>3. wire'[k].ok => Written' /\ Fresh(k)'
    BY <1>1, <1>2, <1>5, <2>1, <2>2, QuietKeeps DEF OnWire
  <2>4. todo' = <<>> /\ ackq' = <<>>
    BY <1>1, <1>5, QuietBackend DEF OnWire
  <2>. QED
    BY <2>1, <2>2, <2>3, <2>4 DEF OnWire
<1>6. ASSUME InQueue PROVE InQueue'
  BY <1>1, <1>2, <1>6, QuietBackend, QuietKeeps DEF InQueue
<1>7. ASSUME Waiting PROVE Waiting'
  <2>1. todo' = <<>> /\ Written' /\ Fresh(0)'
    BY <1>1, <1>2, <1>7, QuietBackend, QuietKeeps DEF Waiting
  <2>2. \A i \in DOMAIN events' : i > cursor' /\ events'[i] = Expected' => ctx' = Expected'
    BY <1>1, <1>7, QuietBackend DEF Waiting, Written
  <2>. QED
    BY <2>1, <2>2 DEF Waiting
<1>8. ASSUME Passed PROVE Passed'
  BY <1>1, <1>8, QuietBackend DEF Passed
<1>. QED
  BY <1>3, <1>4, <1>5, <1>6, <1>7, <1>8

(* A frame that is filed leaves the phases of the switch alone, but for    *)
(* the ack, which goes to its queue.                                       *)
LEMMA ReceiveKeeps ==
  ASSUME TypeInv, Receive, plan # <<>>
  PROVE  /\ Unsent => Unsent'
         /\ Unread => Unread'
         /\ OnWire /\ regd => OnWire' \/ InQueue'
         /\ InQueue => InQueue'
         /\ Waiting => Waiting'
         /\ Passed => Passed'
<1>1. /\ Expected' = Expected /\ wire # <<>> /\ wire' = Tail(wire)
      /\ UNCHANGED <<db, ctx, timer, todo, cursor>>
  BY DEF Receive, Expected, testVars
<1>2. /\ 1 \in DOMAIN wire /\ Head(wire) = wire[1] /\ Head(wire) \in Reply
      /\ \A i \in DOMAIN wire' : i \in Nat /\ i + 1 \in DOMAIN wire /\ wire'[i] = wire[i + 1]
      /\ \A i \in DOMAIN wire : i # 1 => i - 1 \in DOMAIN wire' /\ wire'[i - 1] = wire[i]
      /\ \A i \in DOMAIN wire : i \in Nat /\ i >= 1
  BY <1>1, TailFacts DEF TypeInv, TypeOK, BackendTypeOK
<1>3. \/ wire[1].kind = "ack" /\ regd /\ ackq' = Append(ackq, wire[1].ok) /\ events' = events
      \/ ~(wire[1].kind = "ack" /\ regd) /\ events' = Append(events, wire[1].mode) /\ ackq' = ackq
  BY <1>2 DEF Receive
<1>4. NoAck(wire) => NoAck(wire)' /\ ackq' = ackq
  BY <1>2, <1>3 DEF NoAck
<1>5. Written => Written'
  BY <1>1 DEF Written
<1>6. Fresh(0) => Fresh(0)'
  BY <1>1, <1>2 DEF Fresh
<1>7. Unsent => Unsent'
  BY <1>1, <1>4 DEF Unsent
<1>8. Unread => Unread'
  BY <1>1, <1>4 DEF Unread
<1>9. ASSUME OnWire, regd PROVE OnWire' \/ InQueue'
  <2>1. PICK k \in DOMAIN wire :
          /\ wire[k].kind = "ack" /\ \A i \in DOMAIN wire : i # k => wire[i].kind # "ack"
          /\ wire[k].ok => Written /\ Fresh(k)
    BY <1>9 DEF OnWire
  <2>2. CASE k = 1
    <3>1. NoAck(wire)' /\ todo' = <<>>
      BY <1>1, <1>2, <1>9, <2>1, <2>2 DEF NoAck, OnWire
    <3>2. ackq' = <<wire[1].ok>> /\ wire[1].ok \in BOOLEAN
      <4>1. wire[1].kind = "ack" /\ ackq = <<>>
        BY <1>9, <2>1, <2>2 DEF OnWire
      <4>2. wire[1].ok \in BOOLEAN
        BY <1>2, <4>1, MessageFacts
      <4>. QED
        BY <1>3, <1>9, <4>1, <4>2
    <3>3. Fresh(1) => Fresh(0)'
      BY <1>1, <1>2 DEF Fresh
    <3>4. wire[1].ok => Written' /\ Fresh(0)'
      BY <1>5, <2>1, <2>2, <3>3
    <3>5. PICK ok \in BOOLEAN : ok = wire[1].ok
      BY <3>2
    <3>. QED
      BY <3>1, <3>2, <3>4, <3>5 DEF InQueue
  <2>3. CASE k # 1
    <3>1. k - 1 \in DOMAIN wire' /\ wire'[k - 1] = wire[k]
      BY <1>2, <2>3
    <3>2. \A i \in DOMAIN wire' : i # k - 1 => wire'[i].kind # "ack"
      BY <1>2, <2>1
    <3>3. PICK j : j = k - 1
      OBVIOUS
    <3>4. Fresh(k) => Fresh(j)'
      BY <1>1, <1>2, <2>1, <3>3 DEF Fresh
    <3>5. todo' = <<>> /\ ackq' = <<>>
      BY <1>1, <1>2, <1>3, <1>9, <2>1, <2>3 DEF OnWire
    <3>. QED
      BY <1>5, <2>1, <3>1, <3>2, <3>3, <3>4, <3>5 DEF OnWire
  <2>. QED
    BY <2>2, <2>3
<1>10. InQueue => InQueue'
  BY <1>1, <1>4, <1>5, <1>6 DEF InQueue
<1>11. ASSUME Waiting PROVE Waiting'
  <2>1. todo' = <<>> /\ Written' /\ Fresh(0)'
    BY <1>1, <1>5, <1>6, <1>11 DEF Waiting
  <2>2. wire[1].mode = Expected => ctx = Expected
    BY <1>2, <1>11 DEF Waiting, Fresh
  <2>3. wire[1].mode \in Modes \cup {"none"}
    BY <1>2, MessageFacts
  <2>4. CASE events' = events
    BY <1>1, <1>11, <2>1, <2>4 DEF Waiting
  <2>5. CASE events' = Append(events, wire[1].mode)
    <3>1. /\ DOMAIN events' = DOMAIN events \cup {Len(events) + 1}
          /\ events'[Len(events) + 1] = wire[1].mode
          /\ \A i \in DOMAIN events : events'[i] = events[i]
      BY <2>3, <2>5, AppendFacts DEF TypeInv, TypeOK
    <3>. QED
      BY <1>1, <1>11, <2>1, <2>2, <3>1 DEF Waiting
  <2>. QED
    BY <1>3, <2>4, <2>5
<1>12. Passed => Passed'
  BY <1>1 DEF Passed
<1>. QED
  BY <1>7, <1>8, <1>9, <1>10, <1>11, <1>12

-----------------------------------------------------------------------------
(* The switch.                                                             *)

LEMMA InitSwitchInv == Init => SwitchInv
BY DEF Init, SwitchInv, Judged

LEMMA StepSwitchInv == TypeInv /\ SwitchInv /\ [Next]_vars => SwitchInv'
<1>. SUFFICES ASSUME TypeInv, SwitchInv, [Next]_vars, Judged'
              PROVE  /\ pc' = "send" => Unsent'
                     /\ pc' = "acks" => Unread' \/ OnWire' \/ InQueue'
                     /\ pc' = "wait" => Waiting'
                     /\ pc' = "idle" /\ result' = "ok" => Passed'
  BY DEF SwitchInv
<1>. DEFINE Goal == /\ pc' = "send" => Unsent'
                    /\ pc' = "acks" => Unread' \/ OnWire' \/ InQueue'
                    /\ pc' = "wait" => Waiting'
                    /\ pc' = "idle" /\ result' = "ok" => Passed'
<1>0. ASSUME plan' = plan, clean' = clean
      PROVE  /\ Judged /\ Expected' = Expected /\ Len(plan) = 1 /\ plan # <<>>
             /\ Expected \in Modes /\ Expected = plan[1]
  <2>1. Len(plan) = 1 /\ Judged /\ Expected' = Expected
    BY <1>0 DEF Judged, Strict, Expected
  <2>2. plan # <<>>
    BY <2>1
  <2>. QED
    BY <2>1, <2>2, ExpectedIsMode DEF TypeInv, Expected
<1>1. CASE UNCHANGED vars
  <2>1. Judged
    BY <1>0, <1>1 DEF vars, testVars
  <2>. QED
    BY <1>1, <2>1 DEF SwitchInv, vars, backendVars, testVars, clientVars, Unsent, Unread,
       OnWire, InQueue, Waiting, Passed, Written, Fresh, NoAck, Expected
<1>2. ASSUME NEW p \in Plans, Begin(p) PROVE Goal
  <2>1. /\ pc' = "send" /\ plan' = p /\ UNCHANGED <<backendVars, ackq>>
        /\ clean' => /\ Settled /\ ackq = <<>> /\ ctx # p[Len(p)]
                     /\ \A i \in DOMAIN wire : wire[i].kind # "ack"
    BY <1>2 DEF Begin
  <2>2. clean'
    BY DEF Judged
  <2>. QED
    BY <2>1, <2>2 DEF Unsent, Settled, NoAck, Expected, backendVars
<1>3. CASE Send
  <2>1. plan' = plan /\ clean' = clean /\ pc = "send"
    BY <1>3 DEF Send
  <2>2. Unsent /\ next = 0
    <3>1. Unsent
      BY <1>0, <2>1 DEF SwitchInv
    <3>2. next \in 0 .. Len(plan) /\ next < Len(plan)
      BY <2>1 DEF TypeInv, TypeOK, Progress
    <3>3. Len(plan) = 1
      BY <1>0, <2>1
    <3>4. next = 0
      BY <3>2, <3>3
    <3>. QED
      BY <3>1, <3>4
  <2>3. pc' = "acks" /\ todo' = <<Update(Expected)>>
    BY <1>0, <1>3, <2>1, <2>2 DEF Send, Unsent
  <2>4. Unread'
    BY <1>0, <1>3, <2>1, <2>2, <2>3 DEF Send, Unsent, Unread, NoAck
  <2>. QED
    BY <2>3, <2>4
<1>4. CASE TakeAck
  <2>1. /\ plan' = plan /\ clean' = clean /\ pc = "acks" /\ ackq # <<>>
        /\ UNCHANGED backendVars /\ events' = events /\ acks' = acks + 1
    BY <1>4 DEF TakeAck
  <2>2. InQueue /\ acks = 0
    <3>1. InQueue
      BY <1>0, <2>1 DEF SwitchInv, Unread, OnWire
    <3>2. acks \in 0 .. Len(plan) /\ acks < Len(plan)
      BY <2>1 DEF TypeInv, TypeOK, Progress
    <3>3. Len(plan) = 1
      BY <1>0, <2>1
    <3>4. acks = 0
      BY <3>2, <3>3
    <3>. QED
      BY <3>1, <3>4
  <2>3. PICK ok \in BOOLEAN : ackq = <<ok>> /\ (ok => Written /\ Fresh(0))
    BY <2>2 DEF InQueue
  <2>4. Head(ackq) = ok /\ Strict /\ acks' = Len(plan)
    BY <1>0, <2>1, <2>2, <2>3 DEF Strict
  <2>5. CASE ~ok
    <3>1. pc' = "idle" /\ result' = "error"
      BY <1>4, <2>4, <2>5 DEF TakeAck, Fail
    <3>. QED
      BY <3>1
  <2>6. CASE ok
    <3>1. pc' = "wait" /\ cursor' = Len(events)
      BY <1>4, <2>4, <2>6 DEF TakeAck, BeginWait
    <3>2. \A i \in DOMAIN events' : ~(i > cursor')
      BY <2>1, <3>1 DEF TypeInv, TypeOK
    <3>3. todo' = <<>> /\ Written' /\ Fresh(0)'
      BY <1>0, <2>1, <2>2, <2>3, <2>6 DEF InQueue, Written, Fresh, backendVars
    <3>. QED
      BY <3>1, <3>2, <3>3 DEF Waiting
  <2>. QED
    BY <2>5, <2>6
<1>5. CASE AckTimesOut
  BY <1>0, <1>5 DEF AckTimesOut, Fail, Strict
<1>6. CASE Accept
  <2>1. /\ plan' = plan /\ clean' = clean /\ pc = "wait" /\ pc' = "idle"
        /\ UNCHANGED backendVars
        /\ \E i \in DOMAIN events : i > cursor /\ events[i] = Expected
    BY <1>6 DEF Accept, NewEvents
  <2>2. Waiting
    BY <1>0, <2>1 DEF SwitchInv
  <2>. QED
    BY <1>0, <2>1, <2>2 DEF Waiting, Written, Passed, backendVars
<1>7. CASE Skip
  <2>1. /\ plan' = plan /\ clean' = clean /\ pc = "wait" /\ pc' = pc
        /\ UNCHANGED backendVars /\ events' = events /\ cursor' = Len(events)
    BY <1>7 DEF Skip, clientVars
  <2>2. Waiting
    BY <1>0, <2>1 DEF SwitchInv
  <2>3. \A i \in DOMAIN events' : ~(i > cursor')
    BY <2>1 DEF TypeInv, TypeOK
  <2>. QED
    BY <1>0, <2>1, <2>2, <2>3 DEF Waiting, Written, Fresh, backendVars
<1>8. CASE Deadline
  BY <1>8 DEF Deadline
<1>9. CASE Receive
  <2>1. UNCHANGED <<testVars, regd>>
    BY <1>9 DEF Receive
  <2>2. Judged /\ plan # <<>> /\ UNCHANGED <<pc, result>>
    BY <1>0, <2>1 DEF testVars
  <2>3. pc = "acks" => regd
    BY <2>2 DEF TypeInv, Progress, Judged
  <2>. QED
    BY <1>9, <2>2, <2>3, ReceiveKeeps DEF SwitchInv
<1>10. CASE BackendStep /\ UNCHANGED <<testVars, clientVars>>
  <2>1. Judged /\ plan # <<>> /\ UNCHANGED <<pc, result>>
    BY <1>0, <1>10 DEF testVars
  <2>. QED
    BY <1>10, <2>1, BackendKeeps DEF SwitchInv
<1>. QED
  BY <1>1, <1>2, <1>3, <1>4, <1>5, <1>6, <1>7, <1>8, <1>9, <1>10
  DEF Next, TestStep, Finished

(* A switch from the other mode that passes did switch: the database and   *)
(* the state context hold the new mode, and no later step of the backend   *)
(* takes it back before the next update.                                   *)
THEOREM PassesHaveSwitched == Spec => []PassMeansSwitched
<1>1. TypeInv /\ SwitchInv => PassMeansSwitched
  BY DEF TypeInv, Progress, SwitchInv, Judged, Passed, PassMeansSwitched
<1>. QED
  BY InitTypeInv, StepTypeInv, InitSwitchInv, StepSwitchInv, <1>1, PTL DEF Spec

-----------------------------------------------------------------------------
(* Either user of the backend.                                             *)

VP == INSTANCE WorkModeVerifyProofs WITH pc <- step

(* The suite runs and the script does not, or the other way round; then    *)
(* the suite has nothing to report.                                        *)
EitherInv ==
  \/ step = "none" /\ verdict = "none" /\ IInv
  \/ step # "none" /\ result = "none" /\ VP!IInv

(* The script as the run has it and as its proofs have it. *)
LEMMA SameInit == V!Init <=> VP!Init
  BY DEF V!Init, VP!Init, V!BackendInit, VP!BackendInit, V!Modes, VP!Modes

LEMMA SameNext == V!Next <=> VP!Next
  BY DEF V!Next, VP!Next, V!CheckMode, VP!CheckMode, V!Discard, VP!Discard,
         V!Saved, VP!Saved, V!Settle, VP!Settle, V!Stored, VP!Stored,
         V!Pushed, VP!Pushed, V!TimesOut, VP!TimesOut, V!BackendStep,
         VP!BackendStep, V!Finished, VP!Finished, V!Waits, VP!Waits,
         V!WaitsFor, VP!WaitsFor, V!Apply, VP!Apply, V!ReadParams,
         VP!ReadParams, V!Refresh, VP!Refresh, V!PushStatus, VP!PushStatus,
         V!Update, VP!Update, V!GetParams, VP!GetParams, V!Ack, VP!Ack,
         V!Status, VP!Status, V!Params, VP!Params, V!Modes, VP!Modes,
         V!backendVars, VP!backendVars, V!scriptVars, VP!scriptVars, V!vars,
         VP!vars

LEMMA InitEitherInv == MCInit => EitherInv
<1>. SUFFICES ASSUME MCInit PROVE EitherInv
  OBVIOUS
<1>1. Init
  BY DEF MCInit
<1>2. CASE NoScript
  BY <1>1, <1>2, InitTypeInv, InitSwitchInv DEF NoScript, EitherInv, IInv
<1>3. CASE V!Init
  <2>1. VP!IInv
    BY <1>3, SameInit, VP!InitIInv, BackendAssumption
  <2>2. step = "idle" /\ result = "none"
    BY <1>1, <1>3 DEF Init, V!Init
  <2>. QED  BY <2>1, <2>2 DEF EitherInv
<1>. QED  BY <1>2, <1>3 DEF MCInit

LEMMA StepEitherInv == EitherInv /\ [TestsRun \/ ScriptRun]_allVars => EitherInv'
<1>. SUFFICES ASSUME EitherInv, [TestsRun \/ ScriptRun]_allVars PROVE EitherInv'
  OBVIOUS
<1>1. ASSUME [Next]_vars, UNCHANGED script, step = "none" PROVE EitherInv'
  <2>1. IInv'
    BY <1>1, StepTypeInv, StepSwitchInv DEF EitherInv, IInv
  <2>. QED  BY <1>1, <2>1 DEF EitherInv, script
<1>2. ASSUME [VP!Next]_VP!vars, UNCHANGED result, step # "none" PROVE EitherInv'
  <2>1. VP!IInv'
    BY <1>2, VP!StepIInv, BackendAssumption DEF EitherInv
  <2>2. step' # "none"
    BY <2>1 DEF VP!IInv, VP!TypeOK
  <2>. QED  BY <1>2, <2>1, <2>2 DEF EitherInv
<1>3. CASE TestsRun
  BY <1>1, <1>3 DEF TestsRun
<1>4. CASE ScriptRun
  BY <1>2, <1>4, SameNext DEF ScriptRun, testVars
<1>5. CASE UNCHANGED allVars
  <2>1. UNCHANGED vars /\ UNCHANGED script /\ UNCHANGED result
    BY <1>5 DEF allVars, vars, testVars
  <2>2. UNCHANGED VP!vars
    BY <2>1 DEF vars, script, backendVars, VP!vars, VP!backendVars, VP!scriptVars
  <2>. QED  BY <1>1, <1>2, <2>1, <2>2
<1>. QED  BY <1>3, <1>4, <1>5

(* Whoever uses the backend, the variables of the user that runs have      *)
(* their types, for all plans and bounds.                                  *)
THEOREM EitherIsTyped == MCSpec => []OneTypeOK
<1>1. EitherInv => OneTypeOK
  BY DEF EitherInv, IInv, TypeInv, OneTypeOK, V!TypeOK, V!BackendTypeOK, V!Modes,
         V!Request, V!Reply, V!GetParams, V!Update, V!Ack, V!Status, V!Params,
         VP!IInv, VP!TypeOK, VP!BackendTypeOK, VP!Modes,
         VP!Request, VP!Reply, VP!GetParams, VP!Update, VP!Ack, VP!Status, VP!Params
<1>. QED
  BY InitEitherInv, StepEitherInv, <1>1, PTL DEF MCSpec

(* A switch that passes did switch, also of the backend the script shares. *)
THEOREM EitherSwitches == MCSpec => []PassMeansSwitched
<1>1. EitherInv => PassMeansSwitched
  BY DEF EitherInv, IInv, TypeInv, Progress, SwitchInv, Judged, Passed, PassMeansSwitched
<1>. QED
  BY InitEitherInv, StepEitherInv, <1>1, PTL DEF MCSpec

(* A round of the script that passes proves what its header asks for. *)
THEOREM ScriptPassIsSound == MCSpec => []PassMeansInSync
<1>1. EitherInv => PassMeansInSync
  BY DEF EitherInv, PassMeansInSync, V!PassMeansInSync, VP!IInv, VP!Verdict, VP!PassMeansInSync
<1>. QED
  BY InitEitherInv, StepEitherInv, <1>1, PTL DEF MCSpec

(* A round of the script fails only for a reason. *)
THEOREM ScriptFailIsSound == MCSpec => []FailMeansDefect
<1>1. EitherInv => FailMeansDefect
  BY DEF EitherInv, FailMeansDefect, V!FailMeansDefect, VP!IInv, VP!Verdict, VP!FailMeansDefect
<1>. QED
  BY InitEitherInv, StepEitherInv, <1>1, PTL DEF MCSpec
=============================================================================

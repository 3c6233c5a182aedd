------------------------ MODULE WorkModeVerifyProofs ------------------------
(***************************************************************************)
(* Proofs about WorkModeVerify: what the verdict of a round means, for any *)
(* number of rounds and pushes, with a refresh that may fail or not.       *)
(***************************************************************************)
EXTENDS WorkModeVerify, TLAPS

(* What is under way to the script: nothing but pushes, or one answer      *)
(* among them.                                                             *)
OnlyPushes == \A i \in DOMAIN wire : wire[i].kind = "status"

OnlyAnswer(a) ==
  a \in DOMAIN wire /\ \A i \in DOMAIN wire : i # a => wire[i].kind = "status"

(* From the ack on, a saved update is what the database holds. *)
SavedHolds == saved => db = mode

(* The backend answers the one request of the step the script waits in;    *)
(* the ack tells the truth about the database.                             *)
AckInv ==
  \/ todo = <<Update(mode)>> /\ ~timer /\ OnlyPushes
  \/ /\ todo = <<>>
     /\ \E a \in DOMAIN wire : /\ OnlyAnswer(a) /\ wire[a].kind = "ack"
                               /\ wire[a].ok => db = mode

(* The timer has expired, so that the pushes behind the parameters carry   *)
(* what the state context holds until the end of the round.                *)
ParamsInv ==
  /\ ~timer /\ SavedHolds
  /\ \/ todo = <<GetParams>> /\ OnlyPushes
     \/ /\ todo = <<>>
        /\ \E a \in DOMAIN wire :
             /\ OnlyAnswer(a) /\ wire[a] = Params(db)
             /\ \A i \in DOMAIN wire : i > a => wire[i].mode = ctx

PushInv ==
  /\ todo = <<>> /\ ~timer /\ OnlyPushes
  /\ SavedHolds /\ (stored <=> db = mode)
  /\ \A i \in DOMAIN wire : wire[i].mode = ctx

Round ==
  /\ pc = "idle"   => todo = <<>> /\ ~timer /\ OnlyPushes
  /\ pc = "ack"    => AckInv
  /\ pc = "settle" => todo = <<>> /\ OnlyPushes /\ SavedHolds
  /\ pc = "params" => ParamsInv
  /\ pc = "push"   => PushInv

Verdict ==
  /\ verdict # "none" => pc = "idle"
  /\ PassMeansInSync /\ FailMeansDefect

IInv == TypeOK /\ Round /\ Verdict

-----------------------------------------------------------------------------
(* Queues.                                                                 *)

(* What is left of a queue when its head is taken. *)
LEMMA TailFacts ==
  ASSUME NEW S, NEW s \in Seq(S), s # <<>>
  PROVE  /\ 1 \in DOMAIN s /\ Head(s) = s[1] /\ Head(s) \in S
         /\ Tail(s) \in Seq(S)
         /\ DOMAIN s = 1 .. Len(s) /\ DOMAIN Tail(s) = 1 .. Len(s) - 1
         /\ \A i \in DOMAIN Tail(s) : i + 1 \in DOMAIN s /\ Tail(s)[i] = s[i + 1]
  OBVIOUS

(* What an element more does to a queue. *)
LEMMA AppendFacts ==
  ASSUME NEW S, NEW s \in Seq(S), NEW e \in S
  PROVE  /\ Append(s, e) \in Seq(S) /\ Append(s, e) # <<>>
         /\ Append(s, e)[Len(s) + 1] = e
         /\ DOMAIN s = 1 .. Len(s) /\ DOMAIN Append(s, e) = 1 .. Len(s) + 1
         /\ \A i \in DOMAIN s : Append(s, e)[i] = s[i]
  OBVIOUS

(* Requests and answers are what they are made to be. *)
LEMMA MessageFacts ==
  /\ GetParams \in Request /\ GetParams.kind = "params"
  /\ \A m \in Modes : /\ Update(m) \in Request /\ Update(m).kind = "update"
                      /\ Update(m).mode = m
  /\ \A r \in Request : r.kind = "update" => r.mode \in Modes
  /\ \A ok \in BOOLEAN : /\ Ack(ok) \in Reply /\ Ack(ok).kind = "ack"
                         /\ Ack(ok).ok = ok
  /\ \A m \in Modes : /\ Status(m) \in Reply /\ Status(m).kind = "status"
                      /\ Status(m).mode = m
                      /\ Params(m) \in Reply /\ Params(m).kind = "params"
                      /\ Params(m).mode = m
  /\ \A r \in Reply : r.kind = "ack" => r.ok \in BOOLEAN
  BY DEF Request, Reply, GetParams, Update, Ack, Status, Params, Modes

-----------------------------------------------------------------------------
(* Types.                                                                  *)

(* The steps of the backend keep the types. *)
LEMMA BackendTypes ==
  ASSUME TypeOK, BackendStep
  PROVE  BackendTypeOK'
<1>. USE BackendAssumption, MessageFacts DEF TypeOK, BackendTypeOK
<1>1. CASE \E ok \in BOOLEAN : Apply(ok)
  <2>1. PICK ok \in BOOLEAN : Apply(ok)
    BY <1>1
  <2>2. Head(todo) \in Request /\ todo' \in Seq(Request)
    BY <2>1, TailFacts DEF Apply
  <2>3. db' \in Modes /\ timer' \in BOOLEAN
    BY <2>1, <2>2 DEF Apply
  <2>4. wire' \in Seq(Reply)
    BY <2>1, AppendFacts DEF Apply
  <2>. QED  BY <2>1, <2>2, <2>3, <2>4 DEF Apply
<1>2. CASE ReadParams
  <2>1. todo' \in Seq(Request)
    BY <1>2, TailFacts DEF ReadParams
  <2>2. wire' \in Seq(Reply)
    BY <1>2, AppendFacts DEF ReadParams
  <2>. QED  BY <1>2, <2>1, <2>2 DEF ReadParams
<1>3. CASE \E fails \in BOOLEAN : Refresh(fails)
  BY <1>3 DEF Refresh, Modes
<1>4. CASE PushStatus
  <2>1. wire' \in Seq(Reply)
    BY <1>4, AppendFacts DEF PushStatus
  <2>2. pushes' \in 0 .. MaxPushes
    BY <1>4 DEF PushStatus
  <2>. QED  BY <1>4, <2>1, <2>2 DEF PushStatus
<1>. QED  BY <1>1, <1>2, <1>3, <1>4 DEF BackendStep

(* The types are inductive. *)
LEMMA StepTypeOK == TypeOK /\ [Next]_vars => TypeOK'
<1>. SUFFICES ASSUME TypeOK, [Next]_vars
              PROVE  TypeOK'
  OBVIOUS
<1>. USE MessageFacts DEF TypeOK, BackendTypeOK
<1>1. CASE UNCHANGED vars
  BY <1>1 DEF vars, backendVars, scriptVars
<1>2. CASE \E m \in Modes : CheckMode(m)
  <2>1. PICK m \in Modes : CheckMode(m)
    BY <1>2
  <2>2. todo' \in Seq(Request)
    BY <2>1, AppendFacts DEF CheckMode
  <2>. QED  BY <2>1, <2>2 DEF CheckMode
<1>3. CASE Discard
  <2>1. wire' \in Seq(Reply)
    BY <1>3, TailFacts DEF Discard
  <2>. QED  BY <1>3, <2>1 DEF Discard, scriptVars
<1>4. CASE Saved
  <2>1. Head(wire) \in Reply /\ wire' \in Seq(Reply)
    BY <1>4, TailFacts DEF Saved
  <2>2. saved' \in BOOLEAN
    BY <1>4, <2>1 DEF Saved
  <2>. QED  BY <1>4, <2>1, <2>2 DEF Saved
<1>5. CASE Settle
  <2>1. todo' \in Seq(Request)
    BY <1>5, AppendFacts DEF Settle
  <2>. QED  BY <1>5, <2>1 DEF Settle
<1>6. CASE Stored \/ Pushed
  <2>1. wire # <<>> /\ wire' = Tail(wire)
    BY <1>6 DEF Stored, Pushed
  <2>2. wire' \in Seq(Reply)
    BY <2>1, TailFacts
  <2>. QED  BY <1>6, <2>2 DEF Stored, Pushed
<1>7. CASE TimesOut
  BY <1>7 DEF TimesOut, backendVars
<1>8. CASE BackendStep /\ UNCHANGED scriptVars
  <2>1. BackendTypeOK'
    BY <1>8, BackendTypes
  <2>. QED  BY <1>8, <2>1 DEF scriptVars
<1>. QED
  BY <1>1, <1>2, <1>3, <1>4, <1>5, <1>6, <1>7, <1>8 DEF Next, Finished

-----------------------------------------------------------------------------
(* The verdict.                                                            *)

(* The invariant holds before the first round. *)
LEMMA InitIInv == Init => IInv
<1>. SUFFICES ASSUME Init
              PROVE  IInv
  OBVIOUS
<1>. USE BackendAssumption DEF Init, BackendInit
<1>1. todo \in Seq(Request) /\ wire \in Seq(Reply) /\ DOMAIN wire = {}
  OBVIOUS
<1>2. TypeOK
  <2>1. timer \in BOOLEAN /\ saved \in BOOLEAN /\ stored \in BOOLEAN
    OBVIOUS
  <2>2. pushes \in 0 .. MaxPushes /\ rounds \in Nat
    OBVIOUS
  <2>3. db \in Modes /\ ctx \in Modes /\ mode \in Modes
    OBVIOUS
  <2>. QED  BY <1>1, <2>1, <2>2, <2>3 DEF TypeOK, BackendTypeOK
<1>3. Round
  BY <1>1 DEF Round, OnlyPushes
<1>4. Verdict
  BY DEF Verdict, PassMeansInSync, FailMeansDefect
<1>. QED  BY <1>2, <1>3, <1>4 DEF IInv

(* A new round. *)
LEMMA CheckModeRound ==
  ASSUME TypeOK, Round, NEW m \in Modes, CheckMode(m)
  PROVE  Round' /\ Verdict'
<1>1. todo' = <<Update(m)>>
  BY DEF TypeOK, Round, CheckMode
<1>2. AckInv'
  BY <1>1 DEF Round, CheckMode, AckInv, OnlyPushes
<1>. QED
  BY <1>2 DEF CheckMode, Round, Verdict, PassMeansInSync, FailMeansDefect

(* A frame the script does not wait for is a push. *)
LEMMA DiscardRound ==
  ASSUME TypeOK, Round, Discard
  PROVE  Round'
<1>. USE DEF Discard, scriptVars
<1>1. /\ wire' = Tail(wire) /\ Head(wire) = wire[1] /\ wire \in Seq(Reply)
      /\ DOMAIN wire' = 1 .. Len(wire) - 1 /\ DOMAIN wire = 1 .. Len(wire)
      /\ \A i \in DOMAIN wire' : i + 1 \in DOMAIN wire /\ wire'[i] = wire[i + 1]
  BY TailFacts DEF TypeOK, BackendTypeOK
<1>2. OnlyPushes => OnlyPushes'
  BY <1>1 DEF OnlyPushes
<1>3. ASSUME NEW a \in DOMAIN wire, OnlyAnswer(a), a # 1
      PROVE  /\ a - 1 \in DOMAIN wire' /\ OnlyAnswer(a - 1)' /\ wire'[a - 1] = wire[a]
             /\ \A i \in DOMAIN wire' : i > a - 1 => i + 1 > a /\ i + 1 \in DOMAIN wire
  BY <1>1, <1>3 DEF OnlyAnswer
<1>4. CASE pc = "ack"
  <2>1. ASSUME NEW a \in DOMAIN wire, wire[a].kind = "ack"
        PROVE  a # 1
    BY <1>1, <1>4, <2>1 DEF WaitsFor
  <2>. QED  BY <1>2, <1>3, <1>4, <2>1 DEF Round, AckInv
<1>5. CASE pc = "params"
  <2>1. ASSUME NEW a \in DOMAIN wire, wire[a] = Params(db)
        PROVE  a # 1
    BY <1>1, <1>5, <2>1, MessageFacts DEF WaitsFor, TypeOK, BackendTypeOK
  <2>. QED  BY <1>1, <1>2, <1>3, <1>5, <2>1 DEF Round, ParamsInv, SavedHolds
<1>6. CASE pc = "push"
  BY <1>1, <1>2, <1>6 DEF Round, PushInv, SavedHolds
<1>. QED  BY <1>4, <1>5, <1>6 DEF Waits

(* The ack was the only answer. *)
LEMMA SavedRound ==
  ASSUME TypeOK, Round, Saved
  PROVE  Round'
<1>. USE DEF Saved
<1>1. /\ wire' = Tail(wire) /\ Head(wire) = wire[1] /\ 1 \in DOMAIN wire
      /\ DOMAIN wire' = 1 .. Len(wire) - 1 /\ DOMAIN wire = 1 .. Len(wire)
      /\ \A i \in DOMAIN wire' : i + 1 \in DOMAIN wire /\ wire'[i] = wire[i + 1]
  BY TailFacts DEF TypeOK, BackendTypeOK
<1>2. AckInv /\ ~OnlyPushes
  BY <1>1 DEF Round, OnlyPushes
<1>3. PICK a \in DOMAIN wire : OnlyAnswer(a) /\ (wire[a].ok => db = mode) /\ todo = <<>>
  BY <1>2 DEF AckInv
<1>4. a = 1
  BY <1>1, <1>3 DEF OnlyAnswer
<1>5. OnlyPushes' /\ SavedHolds'
  BY <1>1, <1>3, <1>4 DEF OnlyAnswer, OnlyPushes, SavedHolds
<1>. QED  BY <1>3, <1>5 DEF Round

(* The request for the parameters is sent when the timer is off. *)
LEMMA SettleRound ==
  ASSUME TypeOK, Round, Settle
  PROVE  Round'
<1>1. todo' = <<GetParams>>
  BY DEF TypeOK, Round, Settle
<1>2. ParamsInv'
  BY <1>1 DEF Settle, Round, ParamsInv, OnlyPushes, SavedHolds
<1>. QED  BY <1>2 DEF Settle, Round

(* The pushes behind the parameters carry the state context. *)
LEMMA StoredRound ==
  ASSUME TypeOK, Round, Stored
  PROVE  Round'
<1>. USE DEF Stored
<1>1. /\ wire' = Tail(wire) /\ Head(wire) = wire[1] /\ 1 \in DOMAIN wire
      /\ DOMAIN wire' = 1 .. Len(wire) - 1 /\ DOMAIN wire = 1 .. Len(wire)
      /\ \A i \in DOMAIN wire' : i + 1 \in DOMAIN wire /\ wire'[i] = wire[i + 1]
  BY TailFacts DEF TypeOK, BackendTypeOK
<1>2. ParamsInv /\ ~OnlyPushes
  BY <1>1 DEF Round, OnlyPushes
<1>3. PICK a \in DOMAIN wire :
        /\ OnlyAnswer(a) /\ wire[a] = Params(db) /\ todo = <<>>
        /\ \A i \in DOMAIN wire : i > a => wire[i].mode = ctx
  BY <1>2 DEF ParamsInv
<1>4. a = 1
  BY <1>1, <1>3 DEF OnlyAnswer
<1>5. OnlyPushes' /\ \A i \in DOMAIN wire' : wire'[i].mode = ctx
  BY <1>1, <1>3, <1>4 DEF OnlyAnswer, OnlyPushes
<1>6. Head(wire).mode = db
  BY <1>1, <1>3, <1>4, MessageFacts DEF TypeOK, BackendTypeOK
<1>7. stored' <=> db = mode
  BY <1>6
<1>. QED  BY <1>2, <1>3, <1>5, <1>7 DEF Round, PushInv, ParamsInv, SavedHolds

(* The next push decides, on the state context as it is. *)
LEMMA PushedRound ==
  ASSUME TypeOK, Round, Pushed
  PROVE  Round' /\ Verdict'
<1>. USE DEF Pushed
<1>1. /\ wire' = Tail(wire) /\ Head(wire) = wire[1] /\ 1 \in DOMAIN wire
      /\ DOMAIN wire' = 1 .. Len(wire) - 1 /\ DOMAIN wire = 1 .. Len(wire)
      /\ \A i \in DOMAIN wire' : i + 1 \in DOMAIN wire /\ wire'[i] = wire[i + 1]
  BY TailFacts DEF TypeOK, BackendTypeOK
<1>2. PushInv
  BY DEF Round
<1>3. Round'
  BY <1>1, <1>2 DEF Round, PushInv, OnlyPushes
<1>4. Head(wire).mode = ctx
  BY <1>1, <1>2 DEF PushInv
<1>5. verdict' = "pass" => saved /\ db = mode /\ ctx = mode
  BY <1>2, <1>4 DEF PushInv
<1>6. verdict' = "fail" => ~saved \/ ctx # db
  BY <1>2, <1>4 DEF PushInv, SavedHolds
<1>. QED  BY <1>3, <1>5, <1>6 DEF Verdict, PassMeansInSync, FailMeansDefect

(* A frame the backend adds is the last of them. *)
LEMMA AppendedFrame ==
  ASSUME TypeOK, NEW f \in Reply, wire' = Append(wire, f)
  PROVE  /\ DOMAIN wire = 1 .. Len(wire) /\ DOMAIN wire' = 1 .. Len(wire) + 1
         /\ Len(wire) \in Nat
         /\ wire'[Len(wire) + 1] = f /\ \A i \in DOMAIN wire : wire'[i] = wire[i]
         /\ OnlyPushes => \A a \in DOMAIN wire' \ DOMAIN wire : OnlyAnswer(a)'
         /\ f.kind = "status" => /\ OnlyPushes => OnlyPushes'
                                 /\ \A a \in DOMAIN wire : OnlyAnswer(a) => OnlyAnswer(a)'
<1>1. /\ DOMAIN wire = 1 .. Len(wire) /\ DOMAIN wire' = 1 .. Len(wire) + 1
      /\ Len(wire) \in Nat
      /\ wire'[Len(wire) + 1] = f /\ \A i \in DOMAIN wire : wire'[i] = wire[i]
  BY AppendFacts DEF TypeOK, BackendTypeOK
<1>2. ASSUME OnlyPushes, NEW a \in DOMAIN wire' \ DOMAIN wire
      PROVE  OnlyAnswer(a)'
  BY <1>1, <1>2 DEF OnlyPushes, OnlyAnswer
<1>3. ASSUME f.kind = "status", OnlyPushes
      PROVE  OnlyPushes'
  BY <1>1, <1>3 DEF OnlyPushes
<1>4. ASSUME f.kind = "status", NEW a \in DOMAIN wire, OnlyAnswer(a)
      PROVE  OnlyAnswer(a)'
  BY <1>1, <1>4 DEF OnlyAnswer
<1>. QED  BY <1>1, <1>2, <1>3, <1>4

(* The update is applied only while the script waits for its ack. *)
LEMMA ApplyRound ==
  ASSUME TypeOK, Round, NEW ok \in BOOLEAN, Apply(ok), UNCHANGED scriptVars
  PROVE  pc \in {"ack", "crashed"} /\ Round'
<1>. USE DEF Apply, scriptVars
<1>1. pc = "ack" \/ pc = "crashed"
  BY MessageFacts DEF TypeOK, Round, ParamsInv, PushInv
<1>2. CASE pc = "ack"
  <2>1. todo = <<Update(mode)>> /\ OnlyPushes
    BY <1>2 DEF Round, AckInv
  <2>2. todo' = <<>> /\ (ok => db' = mode)
    BY <2>1, MessageFacts DEF TypeOK
  <2>3. PICK a \in DOMAIN wire' : OnlyAnswer(a)' /\ wire'[a] = Ack(ok)
    <3>1. Len(wire) + 1 \in DOMAIN wire' \ DOMAIN wire
      BY AppendedFrame, MessageFacts
    <3>. QED  BY <2>1, <3>1, AppendedFrame, MessageFacts
  <2>4. wire'[a].kind = "ack" /\ (wire'[a].ok => db' = mode')
    <3>1. Ack(ok).kind = "ack" /\ Ack(ok).ok = ok
      BY MessageFacts
    <3>. QED  BY <2>2, <2>3, <3>1
  <2>5. AckInv'
    BY <2>2, <2>3, <2>4 DEF AckInv
  <2>. QED  BY <1>2, <2>5 DEF Round
<1>3. CASE pc = "crashed"
  BY <1>3 DEF Round
<1>. QED  BY <1>1, <1>2, <1>3

(* The parameters are read only while the script waits for them. *)
LEMMA ReadParamsRound ==
  ASSUME TypeOK, Round, ReadParams, UNCHANGED scriptVars
  PROVE  Round'
<1>. USE DEF ReadParams, scriptVars
<1>1. pc = "params" \/ pc = "crashed"
  BY MessageFacts DEF TypeOK, Round, AckInv, PushInv
<1>2. CASE pc = "params"
  <2>1. todo = <<GetParams>> /\ OnlyPushes /\ ~timer /\ SavedHolds
    BY <1>2 DEF Round, ParamsInv
  <2>2. todo' = <<>>
    BY <2>1
  <2>3. PICK a \in DOMAIN wire' : /\ OnlyAnswer(a)' /\ wire'[a] = Params(db)
                                  /\ \A i \in DOMAIN wire' : ~(i > a)
    <3>1. Params(db) \in Reply
      BY MessageFacts DEF TypeOK, BackendTypeOK
    <3>2. /\ Len(wire) + 1 \in DOMAIN wire' \ DOMAIN wire
          /\ \A i \in DOMAIN wire' : ~(i > Len(wire) + 1)
      BY <3>1, AppendedFrame
    <3>. QED  BY <2>1, <3>1, <3>2, AppendedFrame
  <2>4. ParamsInv'
    BY <2>1, <2>2, <2>3 DEF ParamsInv, SavedHolds, Params
  <2>. QED  BY <1>2, <2>4 DEF Round
<1>3. CASE pc = "crashed"
  BY <1>3 DEF Round
<1>. QED  BY <1>1, <1>2, <1>3

(* The timer runs only until the script has settled. *)
LEMMA RefreshRound ==
  ASSUME TypeOK, Round, NEW fails \in BOOLEAN, Refresh(fails), UNCHANGED scriptVars
  PROVE  pc \in {"ack", "settle", "crashed"} /\ Round'
<1>. USE DEF Refresh, scriptVars
<1>1. pc \in {"ack", "settle", "crashed"}
  BY DEF TypeOK, Round, ParamsInv, PushInv
<1>2. pc = "ack" => AckInv'
  BY DEF Round, AckInv, OnlyAnswer
<1>. QED  BY <1>1, <1>2 DEF Round, OnlyPushes, SavedHolds

(* A push is put behind what is under way. *)
LEMMA PushStatusRound ==
  ASSUME TypeOK, Round, PushStatus, UNCHANGED scriptVars
  PROVE  Round'
<1>. USE DEF PushStatus, scriptVars
<1>. DEFINE f == Status(ctx)
<1>1. wire' = Append(wire, f) /\ f \in Reply /\ f.kind = "status" /\ f.mode = ctx
  BY MessageFacts DEF TypeOK, BackendTypeOK
<1>. HIDE DEF f
<1>2. /\ DOMAIN wire = 1 .. Len(wire) /\ DOMAIN wire' = 1 .. Len(wire) + 1
      /\ Len(wire) \in Nat
      /\ wire'[Len(wire) + 1] = f /\ \A i \in DOMAIN wire : wire'[i] = wire[i]
      /\ OnlyPushes => OnlyPushes'
      /\ \A a \in DOMAIN wire : OnlyAnswer(a) => OnlyAnswer(a)'
  BY <1>1, AppendedFrame
<1>3. DOMAIN wire \subseteq DOMAIN wire'
  BY <1>2
<1>4. AckInv => AckInv'
  BY <1>2, <1>3 DEF AckInv
<1>5. ASSUME NEW a \in DOMAIN wire, \A i \in DOMAIN wire : i > a => wire[i].mode = ctx
      PROVE  \A i \in DOMAIN wire' : i > a => wire'[i].mode = ctx'
  BY <1>1, <1>2, <1>5
<1>6. ParamsInv => ParamsInv'
  <2>1. ASSUME NEW a \in DOMAIN wire, OnlyAnswer(a), wire[a] = Params(db),
               \A i \in DOMAIN wire : i > a => wire[i].mode = ctx
        PROVE  \E b \in DOMAIN wire' :
                 /\ OnlyAnswer(b)' /\ wire'[b] = Params(db)'
                 /\ \A i \in DOMAIN wire' : i > b => wire'[i].mode = ctx'
    <3>1. a \in DOMAIN wire' /\ OnlyAnswer(a)' /\ wire'[a] = Params(db)'
      BY <1>2, <1>3, <2>1 DEF Params
    <3>. QED  BY <1>5, <2>1, <3>1
  <2>. QED  BY <1>2, <2>1 DEF ParamsInv, SavedHolds
<1>7. PushInv => PushInv'
  BY <1>1, <1>2 DEF PushInv, SavedHolds
<1>. QED  BY <1>2, <1>4, <1>6, <1>7 DEF Round, SavedHolds

(* The invariant is inductive. *)
LEMMA StepIInv == IInv /\ [Next]_vars => IInv'
<1>. SUFFICES ASSUME IInv, [Next]_vars
              PROVE  IInv'
  OBVIOUS
<1>. USE DEF IInv
<1>1. TypeOK'
  BY StepTypeOK
<1>2. CASE UNCHANGED vars
  <2>1. Round'
    BY <1>2 DEF vars, backendVars, scriptVars, Round, AckInv, ParamsInv, PushInv,
                SavedHolds, OnlyPushes, OnlyAnswer, Params
  <2>2. Verdict'
    BY <1>2 DEF vars, backendVars, scriptVars, Verdict, PassMeansInSync,
                FailMeansDefect
  <2>. QED  BY <1>1, <2>1, <2>2
<1>3. CASE \E m \in Modes : CheckMode(m)
  BY <1>1, <1>3, CheckModeRound
<1>4. CASE Discard \/ Saved \/ Settle \/ Stored
  <2>1. Round'
    BY <1>4, DiscardRound, SavedRound, SettleRound, StoredRound
  <2>2. verdict = "none" /\ verdict' = verdict
    BY <1>4 DEF Verdict, Discard, Waits, Saved, Settle, Stored, scriptVars
  <2>3. Verdict'
    BY <2>2 DEF Verdict, PassMeansInSync, FailMeansDefect
  <2>. QED  BY <1>1, <2>1, <2>3
<1>5. CASE Pushed
  BY <1>1, <1>5, PushedRound
<1>6. CASE TimesOut
  <2>1. verdict' = "none" /\ pc' = "crashed"
    BY <1>6 DEF Verdict, TimesOut, Waits
  <2>. QED  BY <1>1, <2>1 DEF Round, Verdict, PassMeansInSync, FailMeansDefect
<1>7. CASE BackendStep /\ UNCHANGED scriptVars
  <2>1. CASE \E ok \in BOOLEAN : Apply(ok)
    <3>1. Round' /\ pc \in {"ack", "crashed"}
      BY <1>7, <2>1, ApplyRound
    <3>. QED
      BY <1>1, <1>7, <3>1 DEF Verdict, PassMeansInSync, FailMeansDefect, scriptVars
  <2>2. CASE ReadParams
    <3>1. Round'
      BY <1>7, <2>2, ReadParamsRound
    <3>. QED
      BY <1>1, <1>7, <2>2, <3>1
      DEF ReadParams, Verdict, PassMeansInSync, FailMeansDefect, scriptVars
  <2>3. CASE \E fails \in BOOLEAN : Refresh(fails)
    <3>1. Round' /\ pc \in {"ack", "settle", "crashed"}
      BY <1>7, <2>3, RefreshRound
    <3>. QED
      BY <1>1, <1>7, <3>1 DEF Verdict, PassMeansInSync, FailMeansDefect, scriptVars
  <2>4. CASE PushStatus
    <3>1. Round'
      BY <1>7, <2>4, PushStatusRound
    <3>. QED
      BY <1>1, <1>7, <2>4, <3>1
      DEF PushStatus, Verdict, PassMeansInSync, FailMeansDefect, scriptVars
  <2>. QED  BY <1>7, <2>1, <2>2, <2>3, <2>4 DEF BackendStep
<1>. QED
  BY <1>2, <1>3, <1>4, <1>5, <1>6, <1>7 DEF Next, Finished

(* Every variable keeps its type, for any number of rounds and pushes. *)
THEOREM TypeCorrect == Spec => []TypeOK
<1>1. Init => TypeOK
  BY InitIInv DEF IInv
<1>2. TypeOK /\ [Next]_vars => TypeOK'
  BY StepTypeOK
<1>. QED  BY <1>1, <1>2, PTL DEF Spec

(* A round of the script that passes proves that database and state        *)
(* context hold its mode, and one that fails that the update was rejected  *)
(* or the two disagree: however many pushes are under way, whenever the    *)
(* timer expires and whether or not the refresh fails.                     *)
THEOREM VerdictIsSound == Spec => [](PassMeansInSync /\ FailMeansDefect)
<1>1. Init => IInv
  BY InitIInv
<1>2. IInv /\ [Next]_vars => IInv'
  BY StepIInv
<1>3. IInv => PassMeansInSync /\ FailMeansDefect
  BY DEF IInv, Verdict
<1>. QED  BY <1>1, <1>2, <1>3, PTL DEF Spec
=============================================================================

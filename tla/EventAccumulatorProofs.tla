----------------------- MODULE EventAccumulatorProofs -----------------------
(***************************************************************************)
(* Proofs about EventAccumulator: no wakeup is lost, for any number of     *)
(* waiters.                                                                *)
(***************************************************************************)
EXTENDS EventAccumulator, SequenceTheorems, TLAPS

(* The part of the types the proof needs. *)
Shape ==
  /\ events \in Seq(Event)
  /\ phase \in [Waiters -> Phases]
  /\ pushes \in Nat

(* A set flag leaves nobody suspended. *)
WakeInv ==
  /\ flag \in BOOLEAN
  /\ \A w \in Waiters : phase[w] = "parked" => ~flag

IInv == Shape /\ WakeInv /\ NoLostWakeup

(* The initial states satisfy the invariant: nobody waits. *)
LEMMA InitIInv == Init => IInv
<1>. SUFFICES ASSUME Init
              PROVE  IInv
  OBVIOUS
<1>. USE DEF Init
<1>1. Shape
  <2>1. events \in Seq(Event)
    OBVIOUS
  <2>2. phase \in [Waiters -> Phases] /\ pushes \in Nat
    BY DEF Phases
  <2>. QED  BY <2>1, <2>2 DEF Shape
<1>2. \A w \in Waiters : phase[w] = "idle"
  OBVIOUS
<1>3. WakeInv
  BY <1>2 DEF WakeInv
<1>4. NoLostWakeup
  BY <1>2 DEF NoLostWakeup
<1>. QED  BY <1>1, <1>3, <1>4 DEF IInv

(* push wakes everybody who is suspended. *)
LEMMA PushIInv ==
  ASSUME IInv, NEW t \in Types, Push(t), ConstantsAssumption
  PROVE  IInv'
<1>. USE DEF IInv, Push
<1>1. Shape'
  <2>1. pushes' \in Nat /\ pushes + 1 \in 1 .. MaxPushes
    BY DEF Shape, ConstantsAssumption
  <2>2. events' \in Seq(Event)
    BY <2>1 DEF Shape, NewEvent, Event, Added
  <2>3. phase' \in [Waiters -> Phases]
    BY DEF Shape, SetFlag, Wakes, Parked, Phases
  <2>. QED  BY <2>1, <2>2, <2>3 DEF Shape
<1>2. \A w \in Waiters : phase'[w] # "parked"
  BY DEF WakeInv, SetFlag, Wakes, Parked, Shape
<1>3. WakeInv'
  BY <1>2 DEF WakeInv, SetFlag
<1>4. NoLostWakeup'
  BY <1>2 DEF NoLostWakeup
<1>. QED  BY <1>1, <1>3, <1>4

(* clear empties the list for every waiter. *)
LEMMA ClearIInv ==
  ASSUME IInv, Clear
  PROVE  IInv'
<1>1. Shape'
  BY DEF IInv, Shape, Clear
<1>2. WakeInv'
  BY DEF IInv, WakeInv, Clear
<1>3. events' = <<>> /\ DOMAIN events' = {}
  BY DEF Clear
<1>4. NoLostWakeup'
  BY <1>3 DEF NoLostWakeup, Clear, Matches
<1>. QED  BY <1>1, <1>2, <1>4 DEF IInv

(* A step of one waiter: what it may suspend on, and that nobody else's    *)
(* list or place changes.                                                  *)
LEMMA WaiterIInv ==
  ASSUME IInv, NEW w \in Waiters,
         \/ \E t \in Types : WaitForEvent(w, t)
         \/ WaiterStep(w)
         \/ TimerFires(w)
  PROVE  IInv'
<1>. USE DEF IInv
<1>1. CASE \E t \in Types : WaitForEvent(w, t)
  <2>1. PICK t \in Types : WaitForEvent(w, t)
    BY <1>1
  <2>2. Shape' /\ WakeInv'
    BY <2>1 DEF WaitForEvent, Shape, WakeInv, Phases
  <2>3. NoLostWakeup'
    BY <2>1 DEF WaitForEvent, NoLostWakeup, Matches, Shape
  <2>. QED  BY <2>2, <2>3
<1>2. CASE Found(w) \/ Expired(w) \/ TimerFires(w)
  <2>1. /\ phase' = [phase EXCEPT ![w] = "idle"]
        /\ UNCHANGED <<events, flag, want, pushes>>
    BY <1>2 DEF Found, Expired, TimerFires
  <2>2. Shape' /\ WakeInv'
    BY <2>1 DEF Shape, WakeInv, Phases
  <2>3. NoLostWakeup'
    BY <2>1 DEF NoLostWakeup, Matches, Shape
  <2>. QED  BY <2>2, <2>3
<1>3. CASE Park(w)
  <2>1. /\ phase' = [phase EXCEPT ![w] = "parked"]
        /\ flag' = FALSE /\ Matches(w) = {}
        /\ UNCHANGED <<events, want, pushes>>
    BY <1>3 DEF Park
  <2>2. Shape' /\ WakeInv'
    BY <2>1 DEF Shape, WakeInv, Phases
  <2>3. NoLostWakeup'
    BY <2>1 DEF NoLostWakeup, Matches, Shape
  <2>. QED  BY <2>2, <2>3
<1>. QED  BY <1>1, <1>2, <1>3 DEF WaiterStep

(* The invariant is inductive. *)
LEMMA StepIInv == IInv /\ [Next]_vars => IInv'
<1>. SUFFICES ASSUME IInv, [Next]_vars
              PROVE  IInv'
  OBVIOUS
<1>1. CASE \E t \in Types : Push(t)
  BY <1>1, PushIInv, ConstantsAssumption
<1>2. CASE Clear
  BY <1>2, ClearIInv
<1>3. CASE \E w \in Waiters : \/ \E t \in Types : WaitForEvent(w, t)
                             \/ WaiterStep(w)
                             \/ TimerFires(w)
  BY <1>3, WaiterIInv
<1>4. CASE UNCHANGED vars
  BY <1>4 DEF vars, IInv, Shape, WakeInv, NoLostWakeup, Matches
<1>. QED  BY <1>1, <1>2, <1>3, <1>4 DEF Next, Finished

(* No waiter of wait_for_event sleeps through an event of its type: for    *)
(* any number of waiters, types and calls, a push that finds it suspended  *)
(* wakes it, and it never suspends on one that is in the list already.     *)
THEOREM WakeupsArrive == Spec => []NoLostWakeup
<1>1. Init => IInv
  BY InitIInv
<1>2. IInv /\ [Next]_vars => IInv'
  BY StepIInv
<1>3. IInv => NoLostWakeup
  BY DEF IInv
<1>. QED  BY <1>1, <1>2, <1>3, PTL DEF Spec

(* The types are inductive. *)
LEMMA StepTypeOK == TypeOK /\ [Next]_vars => TypeOK'
<1>. SUFFICES ASSUME TypeOK, [Next]_vars
              PROVE  TypeOK'
  OBVIOUS
<1>. USE ConstantsAssumption DEF TypeOK
<1>0. UNCHANGED <<events, pushes>> => InArrivalOrder'
  BY DEF InArrivalOrder
<1>1. CASE UNCHANGED vars
  BY <1>0, <1>1 DEF vars
<1>2. CASE \E t \in Types : Push(t)
  <2>1. PICK t \in Types : Push(t)
    BY <1>2
  <2>2. pushes' \in 0 .. MaxPushes /\ NewEvent(t) \in Event
    BY <2>1 DEF Push, NewEvent, Event
  <2>3. events' \in Seq(Event)
    BY <2>1, <2>2 DEF Push, Added
  <2>4. flag' \in BOOLEAN /\ phase' \in [Waiters -> Phases]
    BY <2>1 DEF Push, SetFlag, Wakes, Parked, Phases
  <2>5. InArrivalOrder'
    <3>1. /\ events \in Seq(Event) /\ pushes \in Nat /\ pushes' = pushes + 1
          /\ events' = Append(events, NewEvent(t)) /\ NewEvent(t).id = pushes + 1
      BY <2>1 DEF Push, Added, NewEvent
    <3>2. /\ Len(events) \in Nat /\ Len(events') = Len(events) + 1
          /\ DOMAIN events' = 1 .. Len(events) + 1 /\ DOMAIN events = 1 .. Len(events)
          /\ events'[Len(events) + 1] = NewEvent(t)
          /\ \A i \in DOMAIN events : events'[i] = events[i] /\ events[i].id \in Nat
      <4>1. Len(events) \in Nat /\ DOMAIN events = 1 .. Len(events)
        BY <3>1
      <4>2. NewEvent(t) \in Event
        BY <2>2
      <4>3. /\ Len(events') = Len(events) + 1 /\ events'[Len(events) + 1] = NewEvent(t)
            /\ \A i \in 1 .. Len(events) : events'[i] = events[i]
        BY <3>1, <4>2, AppendProperties
      <4>4. events' \in Seq(Event) /\ DOMAIN events' = 1 .. Len(events')
        BY <2>3
      <4>5. \A i \in DOMAIN events : events[i].id \in Nat
        <5>1. \A e \in Event : e.id \in Nat
          BY DEF Event
        <5>2. \A i \in DOMAIN events : events[i] \in Event
          BY <3>1
        <5>. QED  BY <5>1, <5>2
      <4>. QED  BY <4>1, <4>3, <4>4, <4>5
    <3>. SUFFICES ASSUME NEW i \in 1 .. Len(events) + 1
                  PROVE  events'[i].id + (Len(events) + 1) = (pushes + 1) + i
      BY <3>1, <3>2 DEF InArrivalOrder
    <3>3. CASE i = Len(events) + 1
      BY <3>1, <3>2, <3>3
    <3>4. CASE i \in 1 .. Len(events)
      <4>1. events'[i].id = events[i].id /\ events[i].id \in Nat
        BY <3>2, <3>4
      <4>2. events[i].id + Len(events) = pushes + i
        BY <3>2, <3>4 DEF InArrivalOrder
      <4>. QED  BY <3>1, <3>2, <4>1, <4>2
    <3>. QED  BY <3>2, <3>3, <3>4
  <2>. QED  BY <2>1, <2>2, <2>3, <2>4, <2>5 DEF Push
<1>3. CASE Clear
  <2>1. clears' \in 0 .. MaxClears
    BY <1>3 DEF Clear
  <2>2. events' \in Seq(Event)
    BY <1>3 DEF Clear
  <2>3. flag' \in BOOLEAN
    BY <1>3 DEF Clear
  <2>4. InArrivalOrder'
    BY <1>3 DEF Clear, InArrivalOrder
  <2>. QED  BY <1>3, <2>1, <2>2, <2>3, <2>4 DEF Clear
<1>4. CASE \E w \in Waiters, t \in Types : WaitForEvent(w, t)
  <2>1. PICK w \in Waiters, t \in Types : WaitForEvent(w, t)
    BY <1>4
  <2>2. waits[w] + 1 \in 0 .. MaxWaits
    BY <2>1 DEF WaitForEvent
  <2>. QED  BY <1>0, <2>1, <2>2 DEF WaitForEvent, Phases
<1>5. CASE \E w \in Waiters : Found(w)
  <2>1. PICK w \in Waiters : Found(w)
    BY <1>5
  <2>2. PICK i \in DOMAIN events : got' = [got EXCEPT ![w] = events[i].id]
    BY <2>1 DEF Found, Matches
  <2>3. events[i] \in Event
    BY <2>2
  <2>4. events[i].id \in 0 .. MaxPushes
    BY <2>3 DEF Event
  <2>. QED  BY <1>0, <2>1, <2>2, <2>4 DEF Found, Phases
<1>6. CASE \E w \in Waiters : Expired(w) \/ Park(w) \/ TimerFires(w)
  BY <1>0, <1>6 DEF Expired, Park, TimerFires, Phases
<1>. QED
  BY <1>1, <1>2, <1>3, <1>4, <1>5, <1>6 DEF Next, WaiterStep, Finished

(* Every variable keeps its type and the list the order of arrival, for    *)
(* any number of waiters, types and calls: what a waiter is given was      *)
(* pushed.                                                                 *)
THEOREM TypeCorrect == Spec => []TypeOK
<1>1. Init => TypeOK
  <2>. SUFFICES ASSUME Init
                PROVE  TypeOK
    OBVIOUS
  <2>. USE ConstantsAssumption DEF Init
  <2>1. events \in Seq(Event)
    OBVIOUS
  <2>2. phase \in [Waiters -> Phases]
    BY DEF Phases
  <2>3. got \in [Waiters -> 0 .. MaxPushes] /\ waits \in [Waiters -> 0 .. MaxWaits]
    OBVIOUS
  <2>4. pushes \in 0 .. MaxPushes /\ clears \in 0 .. MaxClears
    OBVIOUS
  <2>5. want \in [Waiters -> Types]
    OBVIOUS
  <2>6. flag \in BOOLEAN
    OBVIOUS
  <2>7. InArrivalOrder
    BY DEF InArrivalOrder
  <2>. QED  BY <2>1, <2>2, <2>3, <2>4, <2>5, <2>6, <2>7 DEF TypeOK
<1>2. TypeOK /\ [Next]_vars => TypeOK'
  BY StepTypeOK
<1>. QED  BY <1>1, <1>2, PTL DEF Spec
=============================================================================

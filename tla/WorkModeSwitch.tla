--------------------------- MODULE WorkModeSwitch ---------------------------
(***************************************************************************)
(* How the tests switch the work mode and wait for the backend to follow   *)
(* (work_mode/test_work_mode_switch.py and                                 *)
(* work_mode/test_single_screw_state_machine_plan.py): send the update,    *)
(* wait for its ack, then read the status pushes in the event accumulator  *)
(* from a cursor on, until one carries the expected mode.                  *)
(***************************************************************************)
EXTENDS WorkModeBackend

CONSTANTS
  Plans,      \* the sequences of modes a test sends before it waits
  MaxUpdates  \* bound: updates sent

ASSUME SwitchAssumption ==
  Plans \subseteq Seq(Modes) \ {<<>>} /\ MaxUpdates \in Nat

VARIABLES
  pc,       \* idle, send, acks, wait
  plan,     \* the modes of the switch
  next,     \* how many of them have been sent
  acks,     \* how many acks the test has taken
  regd,     \* the acks have a response queue
  ackq,     \* that queue
  events,   \* the accumulator: the mode of each push, "none" for an ack
  sendAt,   \* the accumulator's count at send_ts
  cursor,   \* the events before it are never looked at
  result,   \* how the last switch ended: none, ok, wrong, error
  clean,    \* history: the switch began in the other mode with nothing in flight
  updates   \* updates of all switches

testVars == <<pc, plan, next, acks, sendAt, cursor, result, clean, updates>>
clientVars == <<regd, ackq, events>>
vars == <<backendVars, testVars, clientVars>>

Init ==
  /\ BackendInit
  /\ pc = "idle" /\ plan = <<>> /\ next = 0 /\ acks = 0
  /\ regd = FALSE /\ ackq = <<>> /\ events = <<>>
  /\ sendAt = 0 /\ cursor = 0 /\ result = "none"
  /\ clean = FALSE /\ updates = 0

Expected == plan[Len(plan)]

(* The receive loop files a frame: acks in their queue once it exists,     *)
(* everything else in the accumulator.                                     *)
Receive ==
  /\ wire # <<>>
  /\ wire' = Tail(wire)
  /\ LET f == Head(wire) IN
       IF f.kind = "ack" /\ regd
         THEN ackq' = Append(ackq, f.ok) /\ events' = events
         ELSE events' = Append(events, f.mode) /\ ackq' = ackq
  /\ UNCHANGED <<db, ctx, timer, todo, pushes, testVars, regd>>

(* send_ts is taken.  A switch of one update is a request, which registers *)
(* the queue of its ack first.                                             *)
Begin(p) ==
  /\ pc = "idle" /\ updates + Len(p) <= MaxUpdates
  /\ pc' = "send" /\ plan' = p /\ next' = 0 /\ acks' = 0
  /\ sendAt' = Len(events)
  /\ result' = "none"
  /\ clean' = (/\ Settled /\ ackq = <<>> /\ ctx # p[Len(p)]
               /\ \A i \in DOMAIN wire : wire[i].kind # "ack")
  /\ updates' = updates + Len(p)
  /\ regd' = (regd \/ Len(p) = 1)
  /\ UNCHANGED <<backendVars, ackq, events, cursor>>

(* The debounce test registers the queue with its first wait_for, when its *)
(* updates are out: acks received before that are in the accumulator.      *)
Send ==
  /\ pc = "send"
  /\ todo' = Append(todo, Update(plan[next + 1]))
  /\ next' = next + 1
  /\ pc' = IF next' = Len(plan) THEN "acks" ELSE "send"
  /\ regd' = (regd \/ next' = Len(plan))
  /\ UNCHANGED <<db, ctx, timer, wire, pushes, plan, acks, ackq, events,
                 sendAt, cursor, result, clean, updates>>

(* Only a switch of one update asserts that it was acknowledged with success. *)
Strict == Len(plan) = 1

Fail ==
  /\ pc' = "idle" /\ result' = "error"
  /\ UNCHANGED cursor

(* Faults a change of the code could introduce; no action uses them. *)
BeginWaitAtSend == pc' = "wait" /\ cursor' = sendAt /\ UNCHANGED result
BeginWaitPastEnd == pc' = "wait" /\ cursor' = Len(events) + 1 /\ UNCHANGED result

(* The cursor is set to the end of the accumulator: here, after the ack. *)
BeginWait ==
  /\ pc' = "wait"
  /\ cursor' = Len(events)
  /\ UNCHANGED result

TakeAck ==
  /\ pc = "acks" /\ ackq # <<>>
  /\ ackq' = Tail(ackq)
  /\ acks' = acks + 1
  /\ IF Strict /\ ~Head(ackq)
       THEN Fail
       ELSE IF acks' = Len(plan) THEN BeginWait
                                 ELSE UNCHANGED <<pc, cursor, result>>
  /\ UNCHANGED <<backendVars, plan, next, regd, events, sendAt, clean,
                 updates>>

AckTimesOutOnlyStrict ==
  /\ pc = "acks" /\ Strict
  /\ Fail
  /\ UNCHANGED <<backendVars, plan, next, acks, clientVars, sendAt, clean,
                 updates>>

(* A missing ack fails a switch of one update; the debounce test goes on   *)
(* without it.                                                             *)
AckTimesOut ==
  /\ pc = "acks"
  /\ IF Strict THEN Fail ELSE BeginWait
  /\ UNCHANGED <<backendVars, plan, next, acks, clientVars, sendAt, clean,
                 updates>>

NewEvents == {i \in DOMAIN events : i > cursor /\ i > sendAt}

(* One scan of _wait_work_mode_after that meets the expected mode. *)
Accept ==
  /\ pc = "wait"
  /\ \E i \in NewEvents :
       /\ events[i] = Expected
       /\ \A j \in NewEvents : j < i => events[j] # Expected
       /\ cursor' = i
  /\ result' = "ok" /\ pc' = "idle"
  /\ UNCHANGED <<backendVars, plan, next, acks, clientVars, sendAt, clean,
                 updates>>

(* One that does not: the cursor moves on. *)
Skip ==
  /\ pc = "wait"
  /\ NewEvents # {} /\ \A i \in NewEvents : events[i] # Expected
  /\ cursor' = Len(events)
  /\ UNCHANGED <<backendVars, pc, plan, next, acks, clientVars, sendAt,
                 result, clean, updates>>

(* The deadline passes during the sleep between two scans: what has come   *)
(* since is not looked at, and the caller's assert on the mode fails.      *)
Deadline ==
  /\ pc = "wait"
  /\ pc' = "idle" /\ result' = "wrong"
  /\ UNCHANGED <<backendVars, plan, next, acks, clientVars, sendAt, cursor, clean,
                 updates>>

TestStep == Send \/ TakeAck \/ AckTimesOut \/ Accept \/ Skip \/ Deadline

Finished ==
  /\ pc = "idle" /\ \A p \in Plans : updates + Len(p) > MaxUpdates
  /\ UNCHANGED vars

Next ==
  \/ \E p \in Plans : Begin(p)
  \/ TestStep
  \/ Receive
  \/ BackendStep /\ UNCHANGED <<testVars, clientVars>>
  \/ Finished

Spec == Init /\ [][Next]_vars

(* The event loop runs the test coroutine, whose waits all have a deadline. *)
FairSpec == Spec /\ WF_vars(TestStep)

-----------------------------------------------------------------------------

(* Every variable has its type. *)
TypeOK ==
  /\ BackendTypeOK
  /\ pc \in {"idle", "send", "acks", "wait"}
  /\ plan \in Plans \cup {<<>>}
  /\ next \in 0 .. Len(plan) /\ acks \in 0 .. Len(plan)
  /\ regd \in BOOLEAN /\ ackq \in Seq(BOOLEAN)
  /\ events \in Seq(Modes \cup {"none"})
  /\ sendAt \in 0 .. Len(events) /\ cursor \in 0 .. Len(events)
  /\ result \in {"none", "ok", "wrong", "error"}
  /\ clean \in BOOLEAN /\ updates \in 0 .. MaxUpdates

(* A switch from the other mode that passes did switch: at the moment the  *)
(* helper returns, the database and the state context hold the new mode.   *)
(* A push made before the update, still under way when the update is sent, *)
(* is not mistaken for one made after it.                                  *)
PassMeansSwitched ==
  result = "ok" /\ clean /\ Strict => db = Expected /\ ctx = Expected

(* Every switch ends, with a verdict or an error, whatever the backend     *)
(* does: lost acks and missing pushes included.                            *)
SwitchEnds == pc # "idle" ~> pc = "idle"

-----------------------------------------------------------------------------
(* What the comments of the code say and the code does not do.             *)

(* "the final state is that of the last message" (docstring of             *)
(* test_debounce_rapid_switch): the mode it accepts is that of the state   *)
(* context after the last update.                                          *)
DebounceSeesLast == result = "ok" /\ ~Strict => Settled
=============================================================================

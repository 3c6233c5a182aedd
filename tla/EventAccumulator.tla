-------------------------- MODULE EventAccumulator --------------------------
(***************************************************************************)
(* The event accumulator (lib/event_accumulator.py): a list of messages    *)
(* and one asyncio.Event shared by every coroutine that waits for one.     *)
(*                                                                         *)
(* The lock is never held across a suspension, so each method runs         *)
(* atomically up to its wait.  asyncio.wait_for runs Event.wait() in the   *)
(* waiting task itself, as it does since Python 3.12.                      *)
(***************************************************************************)
EXTENDS Naturals, Sequences

CONSTANTS
  Waiters,   \* the coroutines that call wait_for_event
  Types,     \* the message types
  MaxPushes, \* bound: calls of push
  MaxClears, \* bound: calls of clear
  MaxWaits   \* bound: calls of wait_for_event by one waiter

ASSUME ConstantsAssumption ==
  MaxPushes \in Nat /\ MaxClears \in Nat /\ MaxWaits \in Nat

Event == [id : 1 .. MaxPushes, type : Types]

VARIABLES
  events,  \* self._events
  flag,    \* self._new_event is set
  phase,   \* where in wait_for_event each waiter is
  want,    \* the type it waits for
  got,     \* the id of the event it was last given
  pushes, clears, waits \* counters behind the bounds

vars == <<events, flag, phase, want, got, pushes, clears, waits>>

(* idle: not in wait_for_event; scan: about to look through the list;      *)
(* parked: suspended in Event.wait(); woken: resumed by set(), not running *)
(* yet.                                                                    *)
Phases == {"idle", "scan", "parked", "woken"}

Init ==
  /\ events = <<>> /\ flag = FALSE
  /\ phase = [w \in Waiters |-> "idle"]
  /\ want \in [Waiters -> Types]
  /\ got = [w \in Waiters |-> 0]
  /\ pushes = 0 /\ clears = 0 /\ waits = [w \in Waiters |-> 0]

(* Event.set() wakes all those suspended in Event.wait(), unless it is set *)
(* already.  WakesOnlyOne and, below, AddedInFront are faults a change of  *)
(* the code could introduce; no action uses them.                          *)
Parked == {w \in Waiters : phase[w] = "parked"}

WakesOnlyOne == IF flag \/ Parked = {} THEN {} ELSE {CHOOSE w \in Parked : TRUE}
Wakes == IF flag THEN {} ELSE Parked

SetFlag ==
  /\ flag' = TRUE
  /\ phase' = [w \in Waiters |-> IF w \in Wakes THEN "woken" ELSE phase[w]]

(* A message is known by its number in the order of the pushes. *)
NewEvent(t) == [id |-> pushes + 1, type |-> t]

AddedInFront(e) == <<e>> \o events
Added(e) == Append(events, e)

Push(t) ==
  /\ pushes < MaxPushes
  /\ pushes' = pushes + 1
  /\ events' = Added(NewEvent(t))
  /\ SetFlag
  /\ UNCHANGED <<want, got, clears, waits>>

Clear ==
  /\ clears < MaxClears
  /\ clears' = clears + 1
  /\ events' = <<>> /\ flag' = FALSE
  /\ UNCHANGED <<phase, want, got, pushes, waits>>

WaitForEvent(w, t) ==
  /\ phase[w] = "idle" /\ waits[w] < MaxWaits
  /\ waits' = [waits EXCEPT ![w] = @ + 1]
  /\ phase' = [phase EXCEPT ![w] = "scan"]
  /\ want' = [want EXCEPT ![w] = t]
  /\ UNCHANGED <<events, flag, got, pushes, clears>>

Matches(w) == {i \in DOMAIN events : events[i].type = want[w]}

(* The scan finds an event: the oldest one is returned and stays in the list. *)
Found(w) ==
  /\ phase[w] \in {"scan", "woken"}
  /\ \E i \in Matches(w) :
       /\ \A j \in Matches(w) : i <= j
       /\ got' = [got EXCEPT ![w] = events[i].id]
  /\ phase' = [phase EXCEPT ![w] = "idle"]
  /\ UNCHANGED <<events, flag, want, pushes, clears, waits>>

(* The scan finds nothing and the deadline has passed. *)
Expired(w) ==
  /\ phase[w] \in {"scan", "woken"} /\ Matches(w) = {}
  /\ phase' = [phase EXCEPT ![w] = "idle"]
  /\ UNCHANGED <<events, flag, want, got, pushes, clears, waits>>

(* The scan finds nothing: the flag is cleared and the wait begins. *)
Park(w) ==
  /\ phase[w] \in {"scan", "woken"} /\ Matches(w) = {}
  /\ flag' = FALSE
  /\ phase' = [phase EXCEPT ![w] = "parked"]
  /\ UNCHANGED <<events, want, got, pushes, clears, waits>>

(* The timer of wait_for fires, possibly after an event has been set but   *)
(* before the waiter has looked: that event is not reported.               *)
TimerFires(w) ==
  /\ phase[w] \in {"parked", "woken"}
  /\ phase' = [phase EXCEPT ![w] = "idle"]
  /\ UNCHANGED <<events, flag, want, got, pushes, clears, waits>>

WaiterStep(w) == Found(w) \/ Expired(w) \/ Park(w)

(* The bounds are used up and nobody waits. *)
Finished ==
  /\ \A w \in Waiters : phase[w] = "idle" /\ waits[w] = MaxWaits
  /\ UNCHANGED vars

Next ==
  \/ \E t \in Types : Push(t)
  \/ Clear
  \/ \E w \in Waiters, t \in Types : WaitForEvent(w, t)
  \/ \E w \in Waiters : WaiterStep(w)
  \/ \E w \in Waiters : TimerFires(w)
  \/ Finished

Spec == Init /\ [][Next]_vars

(* The event loop runs every waiter that is ready.  Nothing is asked of    *)
(* the timers: a wait must not need its timeout to notice an event.        *)
FairSpec == Spec /\ \A w \in Waiters : WF_vars(WaiterStep(w))

-----------------------------------------------------------------------------

(* The list is what was pushed since it was last cleared, in the order of  *)
(* arrival: the oldest match is first, and an index stays that of its      *)
(* message.                                                                *)
InArrivalOrder ==
  \A i \in DOMAIN events : events[i].id + Len(events) = pushes + i

(* Every variable has its type, and the list is in the order of arrival,   *)
(* which the callers that keep an index into it rely on.                   *)
TypeOK ==
  /\ events \in Seq(Event) /\ InArrivalOrder
  /\ flag \in BOOLEAN
  /\ phase \in [Waiters -> Phases]
  /\ want \in [Waiters -> Types]
  /\ got \in [Waiters -> 0 .. MaxPushes]
  /\ pushes \in 0 .. MaxPushes /\ clears \in 0 .. MaxClears
  /\ waits \in [Waiters -> 0 .. MaxWaits]

(* No lost wakeup: a waiter is suspended in Event.wait() only while the    *)
(* list holds no event of its type, although every waiter clears the flag  *)
(* that all of them wait on.                                               *)
NoLostWakeup ==
  \A w \in Waiters : phase[w] = "parked" => Matches(w) = {}

(* A waiter whose event is in the list stops waiting, or the list is       *)
(* cleared under it, without the help of its timeout.                      *)
EventNoticed ==
  \A w \in Waiters :
    phase[w] # "idle" /\ Matches(w) # {}
      ~> (phase[w] = "idle" \/ Matches(w) = {})
=============================================================================

--------------------------- MODULE WorkModeBackend ---------------------------
(***************************************************************************)
(* What the work-mode tests rely on in the SAS backend, which is not part  *)
(* of the repository: an update is written to the database and acked, a    *)
(* debounce timer is (re)armed, and when it expires the state context is   *)
(* refreshed from the database; status pushes carry the work mode of the   *)
(* state context.  The connection delivers frames in order.                *)
(***************************************************************************)
EXTENDS Naturals, Sequences

CONSTANTS
  RefreshFails, \* TRUE: the refresh may fail to read, and falls back to "screw"
  MaxPushes     \* bound: status pushes

ASSUME BackendAssumption == RefreshFails \in BOOLEAN /\ MaxPushes \in Nat

Modes == {"screw", "module"}

VARIABLES
  db,    \* the parameter WorkMode in the database
  ctx,   \* the work mode of the state context
  timer, \* the debounce timer is armed
  todo,  \* requests on their way to the backend
  wire,  \* frames on their way to the client
  pushes \* status pushes so far

backendVars == <<db, ctx, timer, todo, wire, pushes>>

Update(m) == [kind |-> "update", mode |-> m]
GetParams == [kind |-> "params", mode |-> "none"]

Ack(ok)   == [kind |-> "ack", mode |-> "none", ok |-> ok]
Status(m) == [kind |-> "status", mode |-> m, ok |-> TRUE]
Params(m) == [kind |-> "params", mode |-> m, ok |-> TRUE]

Request == {GetParams} \cup {Update(m) : m \in Modes}
Reply   == {Ack(ok) : ok \in BOOLEAN} \cup {Status(m) : m \in Modes}
             \cup {Params(m) : m \in Modes}

BackendTypeOK ==
  /\ db \in Modes /\ ctx \in Modes
  /\ timer \in BOOLEAN
  /\ todo \in Seq(Request)
  /\ wire \in Seq(Reply)
  /\ pushes \in 0 .. MaxPushes

BackendInit ==
  /\ db \in Modes /\ ctx = db /\ timer = FALSE
  /\ todo = <<>> /\ wire = <<>> /\ pushes = 0

(* A batch update, rejected for instance when nobody is logged in. *)
Apply(ok) ==
  /\ todo # <<>> /\ Head(todo).kind = "update"
  /\ db' = IF ok THEN Head(todo).mode ELSE db
  /\ timer' = (ok \/ timer)
  /\ todo' = Tail(todo)
  /\ wire' = Append(wire, Ack(ok))
  /\ UNCHANGED <<ctx, pushes>>

ReadParams ==
  /\ todo # <<>> /\ Head(todo).kind = "params"
  /\ todo' = Tail(todo)
  /\ wire' = Append(wire, Params(db))
  /\ UNCHANGED <<db, ctx, timer, pushes>>

(* The debounce timer expires. *)
Refresh(fails) ==
  /\ timer
  /\ timer' = FALSE
  /\ ctx' = IF fails THEN "screw" ELSE db
  /\ UNCHANGED <<db, todo, wire, pushes>>

PushStatus ==
  /\ pushes < MaxPushes
  /\ pushes' = pushes + 1
  /\ wire' = Append(wire, Status(ctx))
  /\ UNCHANGED <<db, ctx, timer, todo>>

BackendStep ==
  \/ \E ok \in BOOLEAN : Apply(ok)
  \/ ReadParams
  \/ \E fails \in BOOLEAN : (fails => RefreshFails) /\ Refresh(fails)
  \/ PushStatus

(* The backend has nothing left to do for the requests it has been sent. *)
Settled == ~timer /\ todo = <<>>
=============================================================================

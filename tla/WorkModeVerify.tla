--------------------------- MODULE WorkModeVerify ---------------------------
(***************************************************************************)
(* The script _verify_workmode_sync.py: on a connection of its own, read   *)
(* without a receive loop, it switches the mode, waits for the ack, lets   *)
(* the backend settle, reads the parameters back and judges the next       *)
(* status push.                                                            *)
(***************************************************************************)
EXTENDS WorkModeBackend

CONSTANT MaxRounds \* bound: calls of check_mode

VARIABLES
  pc,      \* idle, ack, settle, params, push; crashed when a wait timed out
  mode,    \* the mode of the round
  saved,   \* [1/3]: the ack said success
  stored,  \* [2/3]: the parameters read back hold the mode
  verdict, \* how the last round ended: none, pass, fail
  rounds

scriptVars == <<pc, mode, saved, stored, verdict, rounds>>
vars == <<backendVars, scriptVars>>

Init ==
  /\ BackendInit
  /\ pc = "idle" /\ mode \in Modes
  /\ saved = FALSE /\ stored = FALSE
  /\ verdict = "none" /\ rounds = 0

(* check_mode sends the update. *)
CheckMode(m) ==
  /\ pc = "idle" /\ rounds < MaxRounds
  /\ pc' = "ack" /\ mode' = m /\ verdict' = "none"
  /\ rounds' = rounds + 1
  /\ todo' = Append(todo, Update(m))
  /\ UNCHANGED <<db, ctx, timer, wire, pushes, saved, stored>>

(* _recv_until reads frames until one of the kind it waits for. *)
Waits == pc \in {"ack", "params", "push"}
WaitsFor == CASE pc = "ack" -> "ack" [] pc = "params" -> "params" [] OTHER -> "status"

Discard ==
  /\ Waits /\ wire # <<>> /\ Head(wire).kind # WaitsFor
  /\ wire' = Tail(wire)
  /\ UNCHANGED <<db, ctx, timer, todo, pushes, scriptVars>>

(* A rejected update does not end the round. *)
Saved ==
  /\ pc = "ack" /\ wire # <<>> /\ Head(wire).kind = "ack"
  /\ wire' = Tail(wire)
  /\ saved' = Head(wire).ok
  /\ pc' = "settle"
  /\ UNCHANGED <<db, ctx, timer, todo, pushes, mode, stored, verdict, rounds>>

(* Faults a change of the script could introduce; no action uses them: it  *)
(* does not wait, or does not read the parameters back.                    *)
SettleAtOnce ==
  /\ pc = "settle"
  /\ todo' = Append(todo, GetParams)
  /\ pc' = "params"
  /\ UNCHANGED <<db, ctx, timer, wire, pushes, mode, saved, stored, verdict, rounds>>

SettleThenPush ==
  /\ pc = "settle" /\ ~timer
  /\ stored' = TRUE
  /\ pc' = "push"
  /\ UNCHANGED <<backendVars, mode, saved, verdict, rounds>>

(* SETTLE_SECONDS are over: they are longer than the debounce of the       *)
(* backend, which started before the ack was sent.                         *)
Settle ==
  /\ pc = "settle" /\ ~timer
  /\ todo' = Append(todo, GetParams)
  /\ pc' = "params"
  /\ UNCHANGED <<db, ctx, timer, wire, pushes, mode, saved, stored, verdict, rounds>>

Stored ==
  /\ pc = "params" /\ wire # <<>> /\ Head(wire).kind = "params"
  /\ wire' = Tail(wire)
  /\ stored' = (Head(wire).mode = mode)
  /\ pc' = "push"
  /\ UNCHANGED <<db, ctx, timer, todo, pushes, mode, saved, verdict, rounds>>

Pushed ==
  /\ pc = "push" /\ wire # <<>> /\ Head(wire).kind = "status"
  /\ wire' = Tail(wire)
  /\ verdict' = IF saved /\ stored /\ Head(wire).mode = mode THEN "pass" ELSE "fail"
  /\ pc' = "idle"
  /\ UNCHANGED <<db, ctx, timer, todo, pushes, mode, saved, stored, rounds>>

(* RECV_TIMEOUT passes: the exception ends the script. *)
TimesOut ==
  /\ Waits
  /\ pc' = "crashed"
  /\ UNCHANGED <<backendVars, mode, saved, stored, verdict, rounds>>

Finished ==
  /\ pc = "crashed" \/ (pc = "idle" /\ rounds = MaxRounds)
  /\ UNCHANGED vars

Next ==
  \/ \E m \in Modes : CheckMode(m)
  \/ Discard \/ Saved \/ Settle \/ Stored \/ Pushed \/ TimesOut
  \/ BackendStep /\ UNCHANGED scriptVars
  \/ Finished

Spec == Init /\ [][Next]_vars

-----------------------------------------------------------------------------

(* Every variable has its type. *)
TypeOK ==
  /\ BackendTypeOK
  /\ pc \in {"idle", "ack", "settle", "params", "push", "crashed"}
  /\ mode \in Modes /\ saved \in BOOLEAN /\ stored \in BOOLEAN
  /\ verdict \in {"none", "pass", "fail"}
  /\ rounds \in Nat

(* A round that passes proves what its header asks for: database and state *)
(* context hold the mode of the round.  The pushes that queued up while    *)
(* the backend settled, made before the refresh, are not judged.           *)
PassMeansInSync == verdict = "pass" => db = mode /\ ctx = mode

(* A round fails only for a reason: the update was rejected, or the state  *)
(* context is not what the database says.                                  *)
FailMeansDefect == verdict = "fail" => ~saved \/ ctx # db
=============================================================================

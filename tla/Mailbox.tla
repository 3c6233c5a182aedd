------------------------------ MODULE Mailbox ------------------------------
(***************************************************************************)
(* What WSClient (lib/ws_client.py) promises the test coroutine that uses  *)
(* it, without sockets, tasks or timers.                                   *)
(*                                                                         *)
(* A client is a set of mailboxes, one for each message type it has been   *)
(* asked to wait for, and a board on which every other message is pinned.  *)
(* A message is put in exactly one of the two, where it keeps its place.   *)
(* A caller opens some mailboxes, and either takes the oldest message of   *)
(* one of them or gives up; giving up leaves every mailbox as it was.      *)
(* Looking at the board removes nothing.                                   *)
(***************************************************************************)
EXTENDS Naturals, Sequences

CONSTANTS Types,    \* the message types
          Message,  \* the messages, records with a field "type"
          NoMessage \* what the caller holds before its first answer

VARIABLES registered, \* the types that have a mailbox
          inbox,      \* [Types -> Seq(Message)]: the mailboxes
          board,      \* Seq(Message): everything else, oldest first
          open,       \* the mailboxes the caller is waiting on, {} when idle
          answer      \* the message the caller was last given

vars == <<registered, inbox, board, open, answer>>

Init ==
  /\ registered = {}
  /\ inbox = [t \in Types |-> <<>>]
  /\ board = <<>>
  /\ open = {}
  /\ answer = NoMessage

(* The caller starts to wait on the types ts, which have a mailbox from now on. *)
Open(ts) ==
  /\ open = {}
  /\ open' = ts
  /\ registered' = registered \cup ts
  /\ UNCHANGED <<inbox, board, answer>>

(* A message arrives: in the mailbox of its type if there is one, else on the board. *)
Deliver(m) ==
  /\ IF m.type \in registered
       THEN /\ inbox' = [inbox EXCEPT ![m.type] = Append(@, m)]
            /\ board' = board
       ELSE /\ board' = Append(board, m)
            /\ inbox' = inbox
  /\ UNCHANGED <<registered, open, answer>>

(* The caller is given the oldest message of mailbox t. When it waits on    *)
(* several mailboxes the oldest messages of others may be thrown away with  *)
(* it (D): the one weakness the contract admits.                            *)
Take(t, D) ==
  /\ t \in D
  /\ D \subseteq open
  /\ \A u \in D : inbox[u] # <<>>
  /\ answer' = Head(inbox[t])
  /\ inbox' = [u \in Types |-> IF u \in D THEN Tail(inbox[u]) ELSE inbox[u]]
  /\ open' \in {open, {}}
  /\ UNCHANGED <<registered, board>>

(* The caller gives up. *)
GiveUp ==
  /\ open # {}
  /\ open' = {}
  /\ UNCHANGED <<registered, inbox, board, answer>>

(* The caller is shown the oldest message of type t on the board. *)
Look(t) ==
  /\ \E i \in DOMAIN board :
       /\ board[i].type = t
       /\ \A j \in 1 .. i - 1 : board[j].type # t
       /\ answer' = board[i]
  /\ UNCHANGED <<registered, inbox, board, open>>

Next ==
  \/ \E ts \in SUBSET Types : Open(ts)
  \/ \E m \in Message : Deliver(m)
  \/ \E D \in SUBSET Types : \E t \in D : Take(t, D)
  \/ GiveUp
  \/ \E t \in Types : Look(t)

Spec == Init /\ [][Next]_vars
=============================================================================

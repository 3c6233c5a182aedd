----------------------------- MODULE PFOPClient -----------------------------
(***************************************************************************)
(* The PFOP client (lib/pfop_client.py) and the way the tests of pfop/ use *)
(* it: a connection for each test, on which it sends a message and reads   *)
(* one frame, again and again, until something raises.                     *)
(*                                                                         *)
(* TCP delivers a stream of bytes; recv returns any first part of what has *)
(* arrived.  A frame ends with a NUL.  The server answers each request     *)
(* with one frame or not at all, and may send frames nobody asked for.     *)
(***************************************************************************)
EXTENDS Naturals, Sequences, FiniteSetsExt

CONSTANTS
  Header,    \* bytes of a frame's header
  Lengths,   \* lengths of the server's frames, the NUL included
  MaxReqs,   \* bound: requests
  MaxPushes, \* bound: unsolicited frames
  MaxConns   \* bound: connections

ASSUME ConstantsAssumption ==
  /\ Header \in Nat /\ Lengths \subseteq Nat
  /\ \A l \in Lengths : l > Header
  /\ MaxReqs \in Nat /\ MaxPushes \in Nat /\ MaxConns \in Nat

VARIABLES
  sock,    \* the test's socket: closed, open, or eof when the server closed it
  reading, \* recv_frame is in its loop
  buf,     \* its buffer
  wire,    \* bytes on their way to the client
  owed,    \* the last request has not been answered
  result,  \* what recv_frame last did: none, frame, error
  frame,   \* the raw frame it returned
  pushed,  \* history: the server pushed a frame on this connection
  reqs, pushes, conns

vars == <<sock, reading, buf, wire, owed, result, frame, pushed, reqs, pushes, conns>>

(* A byte: the frame it belongs to, by the request it answers (0 for one   *)
(* that was pushed) and its place in it.                                   *)
Bytes(re, len) == [i \in 1 .. len |-> [re |-> re, at |-> i, nul |-> i = len]]

Nuls(s) == {i \in DOMAIN s : s[i].nul}

Whole(s) == s # <<>> /\ \E len \in Lengths : s = Bytes(s[1].re, len)

Init ==
  /\ sock = "closed" /\ reading = FALSE
  /\ buf = <<>> /\ wire = <<>> /\ owed = FALSE
  /\ result = "none" /\ frame = <<>> /\ pushed = FALSE
  /\ reqs = 0 /\ pushes = 0 /\ conns = 0

Connect ==
  /\ sock = "closed" /\ conns < MaxConns
  /\ sock' = "open" /\ conns' = conns + 1
  /\ result' = "none" /\ frame' = <<>> /\ pushed' = FALSE
  /\ UNCHANGED <<reading, buf, wire, owed, reqs, pushes>>

(* The test has ended, or what it called raised. *)
Close ==
  /\ sock # "closed" /\ ~reading
  /\ sock' = "closed" /\ wire' = <<>> /\ owed' = FALSE
  /\ UNCHANGED <<reading, buf, result, frame, pushed, reqs, pushes, conns>>

(* send_mid, and recv_frame begins. *)
SendMid ==
  /\ sock = "open" /\ ~reading /\ result # "error" /\ reqs < MaxReqs
  /\ reading' = TRUE /\ buf' = <<>>
  /\ reqs' = reqs + 1 /\ owed' = TRUE
  /\ UNCHANGED <<sock, wire, result, frame, pushed, pushes, conns>>

(* recv_frame returns the bytes up to and with the first NUL of its        *)
(* buffer, and forgets those behind.  What is not a whole frame may fail   *)
(* to parse, and does when it is shorter than a header.  The variants are  *)
(* faults a change of the code could introduce; no action uses them.       *)
CutAtLast(b)    == SubSeq(b, 1, Max(Nuls(b)))
CutBeforeNul(b) == SubSeq(b, 1, Min(Nuls(b)) - 1)
Cut(b) == SubSeq(b, 1, Min(Nuls(b)))

Parsed(raw) ==
  IF Len(raw) <= Header THEN {"error"}
  ELSE IF Whole(raw) THEN {"frame"} ELSE {"frame", "error"}

Return(raw) ==
  /\ result' \in Parsed(raw)
  /\ frame' = IF result' = "frame" THEN raw ELSE <<>>
  /\ reading' = FALSE /\ buf' = <<>>

(* recv returned a chunk: the loop ends when there is a NUL in it. *)
Recv(n) ==
  /\ reading /\ n <= Len(wire)
  /\ wire' = SubSeq(wire, n + 1, Len(wire))
  /\ LET chunk == SubSeq(wire, 1, n)
         b     == buf \o chunk
     IN IF Nuls(chunk) # {}
          THEN Return(Cut(b))
          ELSE buf' = b /\ UNCHANGED <<reading, result, frame>>
  /\ UNCHANGED <<sock, owed, pushed, reqs, pushes, conns>>

GiveUp ==
  /\ result' = "error" /\ frame' = <<>>
  /\ reading' = FALSE /\ buf' = <<>>
  /\ UNCHANGED <<sock, wire, owed, pushed, reqs, pushes, conns>>

FailAtEof == reading /\ sock = "eof" /\ wire = <<>> /\ GiveUp

(* The socket times out, or recv returns nothing because the server has    *)
(* closed the connection: TimeoutError either way.                         *)
Fail == reading /\ GiveUp

Answer(len) ==
  /\ sock = "open" /\ owed
  /\ owed' = FALSE
  /\ wire' = wire \o Bytes(reqs, len)
  /\ UNCHANGED <<sock, reading, buf, result, frame, pushed, reqs, pushes, conns>>

PushFrame(len) ==
  /\ sock = "open" /\ pushes < MaxPushes
  /\ pushes' = pushes + 1 /\ pushed' = TRUE
  /\ wire' = wire \o Bytes(0, len)
  /\ UNCHANGED <<sock, reading, buf, owed, result, frame, reqs, conns>>

ServerCloses ==
  /\ sock = "open"
  /\ sock' = "eof" /\ owed' = FALSE
  /\ UNCHANGED <<reading, buf, wire, result, frame, pushed, reqs, pushes, conns>>

Finished == sock = "closed" /\ conns = MaxConns /\ UNCHANGED vars

Next ==
  \/ Connect \/ Close \/ SendMid \/ Fail
  \/ \E n \in 1 .. Len(wire) : Recv(n)
  \/ \E len \in Lengths : Answer(len) \/ PushFrame(len)
  \/ ServerCloses
  \/ Finished

Spec == Init /\ [][Next]_vars

-----------------------------------------------------------------------------

(* However TCP cuts the stream, and as long as the server speaks only when *)
(* it is asked, a frame that recv_frame returns is the whole answer to the *)
(* request just sent: nothing of the exchanges before is left over.        *)
AnswerIsWhole ==
  result = "frame" /\ ~pushed /\ ~reading => Whole(frame) /\ frame[1].re = reqs

(* With unsolicited frames a returned frame may lack its beginning, which  *)
(* was dropped behind an earlier NUL, but it never runs into another one:  *)
(* its bytes are consecutive and end at their own NUL.                     *)
FramesNeverMix ==
  \A i \in DOMAIN frame :
    /\ frame[i].re = frame[1].re /\ frame[i].at = frame[1].at + i - 1
    /\ frame[i].nul <=> i = Len(frame)
=============================================================================

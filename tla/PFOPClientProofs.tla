-------------------------- MODULE PFOPClientProofs --------------------------
(***************************************************************************)
(* Proofs about PFOPClient and PFOPSession: what a frame that is returned  *)
(* consists of, for any lengths of frames, any cutting of the stream and   *)
(* any bounds, and that the fixture puts the configuration back.           *)
(***************************************************************************)
EXTENDS PFOPSession, SequenceTheorems, WellFoundedInduction, TLAPS

Byte == [re : Nat, at : Nat, nul : BOOLEAN]

TypeInv ==
  /\ sock \in {"closed", "open", "eof"} /\ reading \in BOOLEAN
  /\ buf \in Seq(Byte) /\ wire \in Seq(Byte) /\ frame \in Seq(Byte)
  /\ result \in {"none", "frame", "error"}
  /\ reqs \in Nat

-----------------------------------------------------------------------------
(* The stream: what recv_frame has in its buffer and what is still to come.*)

Stream == buf \o wire

(* Bytes with no NUL between them belong to one frame, and none of them is *)
(* missing.                                                                *)
Runs(s) ==
  \A i, j \in DOMAIN s :
    i <= j /\ (\A k \in i .. j - 1 : ~ s[k].nul)
      => s[j].re = s[i].re /\ s[j].at = s[i].at + (j - i)

(* The last frame is complete. *)
Ends(s) == s # <<>> => s[Len(s)].nul

StreamInv == Runs(Stream) /\ Ends(Stream)

(* One exchange on a connection on which nothing is pushed: the answer is  *)
(* asked for before it is sent, and nothing else is under way.             *)
Exchange ==
  /\ sock = "closed" => wire = <<>> /\ ~owed /\ ~reading
  /\ ~pushed /\ ~reading /\ result # "error" => wire = <<>> /\ ~owed
  /\ ~pushed /\ reading =>
       \/ wire = <<>> /\ buf = <<>>
       \/ ~owed /\ \E len \in Lengths : Stream = Bytes(reqs, len)
  /\ ~reading => buf = <<>>

IInv == TypeInv /\ StreamInv /\ FramesNeverMix /\ Exchange /\ AnswerIsWhole

-----------------------------------------------------------------------------
(* Numbers and sequences.                                                  *)

(* The least of a set of numbers. *)
LEMMA MinFacts ==
  ASSUME NEW S, S \subseteq Nat, S # {}
  PROVE  Min(S) \in S /\ \A y \in S : Min(S) <= y
<1>. DEFINE R == {ss \in Nat \X Nat : ss[1] < ss[2]}
<1>1. IsWellFoundedOn(R, Nat)
  BY NatLessThanWellFounded DEF OpToRel
<1>. HIDE DEF R
<1>2. \E x \in S : \A y \in S : ~ (<<y, x>> \in R)
  BY <1>1, WFMin, Zenon
<1>3. PICK x \in S : \A y \in S : ~ (<<y, x>> \in R)
  BY <1>2
<1>4. ASSUME NEW y \in S PROVE x <= y
  <2>1. x \in Nat /\ y \in Nat
    OBVIOUS
  <2>2. y < x => <<y, x>> \in R
    BY <2>1 DEF R
  <2>. QED
    BY <1>3, <2>1, <2>2
<1>. QED
  BY <1>4 DEF Min

(* The first n elements of a sequence, and those behind them. *)
LEMMA SplitFacts ==
  ASSUME NEW s \in Seq(Byte), NEW n \in 0 .. Len(s)
  PROVE  /\ SubSeq(s, 1, n) \in Seq(Byte) /\ Len(SubSeq(s, 1, n)) = n
         /\ \A i \in 1 .. n : SubSeq(s, 1, n)[i] = s[i]
         /\ SubSeq(s, n + 1, Len(s)) \in Seq(Byte)
         /\ SubSeq(s, 1, n) \o SubSeq(s, n + 1, Len(s)) = s
<1>1. Len(s) \in Nat /\ \A i \in 1 .. Len(s) : s[i] \in Byte
  OBVIOUS
<1>2. /\ SubSeq(s, 1, n) \in Seq(Byte) /\ Len(SubSeq(s, 1, n)) = n
      /\ \A i \in 1 .. n : SubSeq(s, 1, n)[i] = s[i]
  <2>1. \A i \in 1 .. n : s[i] \in Byte
    BY <1>1
  <2>. QED
    BY <2>1, SubSeqProperties
<1>3. SubSeq(s, n + 1, Len(s)) \in Seq(Byte)
  <2>1. \A i \in n + 1 .. Len(s) : s[i] \in Byte
    BY <1>1
  <2>. QED
    BY <1>1, <2>1, SubSeqProperties
<1>4. SubSeq(s, 1, n) \o SubSeq(s, n + 1, Len(s)) = s
  <2>1. 1 \in 1 .. Len(s) + 1 /\ n \in 1 - 1 .. Len(s) /\ Len(s) \in n .. Len(s)
    BY <1>1
  <2>2. SubSeq(s, 1, n) \o SubSeq(s, n + 1, Len(s)) = SubSeq(s, 1, Len(s))
    BY <2>1, ConcatAdjacentSubSeq
  <2>. QED
    BY <2>2, SubSeqFull
<1>. QED
  BY <1>2, <1>3, <1>4

(* The elements of two sequences one behind the other. *)
LEMMA ConcatFacts ==
  ASSUME NEW s \in Seq(Byte), NEW t \in Seq(Byte)
  PROVE  /\ s \o t \in Seq(Byte) /\ Len(s) \in Nat /\ Len(t) \in Nat
         /\ DOMAIN s = 1 .. Len(s) /\ DOMAIN t = 1 .. Len(t)
         /\ Len(s \o t) = Len(s) + Len(t) /\ DOMAIN (s \o t) = 1 .. Len(s) + Len(t)
         /\ \A i \in 1 .. Len(s) : (s \o t)[i] = s[i]
         /\ \A i \in 1 .. Len(t) : (s \o t)[Len(s) + i] = t[i]
<1>1. /\ s \o t \in Seq(Byte) /\ Len(s) \in Nat /\ Len(t) \in Nat
      /\ Len(s \o t) = Len(s) + Len(t)
      /\ \A i \in 1 .. Len(s) + Len(t) :
           (s \o t)[i] = IF i <= Len(s) THEN s[i] ELSE t[i - Len(s)]
  BY ConcatProperties
<1>2. \A i \in 1 .. Len(s) : (s \o t)[i] = s[i]
  BY <1>1
<1>3. ASSUME NEW i \in 1 .. Len(t) PROVE (s \o t)[Len(s) + i] = t[i]
  <2>1. /\ Len(s) + i \in 1 .. Len(s) + Len(t) /\ ~(Len(s) + i <= Len(s))
        /\ (Len(s) + i) - Len(s) = i
    BY <1>1
  <2>. QED
    BY <1>1, <2>1
<1>. QED
  BY <1>1, <1>2, <1>3

LEMMA Associative ==
  \A s, t, u \in Seq(Byte) : (s \o t) \o u = s \o (t \o u)
BY ConcatAssociative

-----------------------------------------------------------------------------
(* Streams.                                                                *)

(* A frame of the server. *)
LEMMA BytesFacts ==
  ASSUME NEW re \in Nat, NEW len \in Lengths
  PROVE  /\ Bytes(re, len) \in Seq(Byte) /\ Len(Bytes(re, len)) = len
         /\ len \in Nat \ {0}
         /\ \A i \in 1 .. len : /\ Bytes(re, len)[i].re = re /\ Bytes(re, len)[i].at = i
                                /\ Bytes(re, len)[i].nul <=> i = len
         /\ Runs(Bytes(re, len)) /\ Ends(Bytes(re, len))
<1>1. len \in Nat \ {0}
  BY ConstantsAssumption
<1>2. \A i \in 1 .. len : [re |-> re, at |-> i, nul |-> i = len] \in Byte
  BY <1>1 DEF Byte
<1>3. Bytes(re, len) \in Seq(Byte) /\ Len(Bytes(re, len)) = len
  BY <1>1, <1>2 DEF Bytes
<1>4. \A i \in 1 .. len : /\ Bytes(re, len)[i].re = re /\ Bytes(re, len)[i].at = i
                          /\ Bytes(re, len)[i].nul <=> i = len
  BY DEF Bytes
<1>5. DOMAIN Bytes(re, len) = 1 .. len
  BY DEF Bytes
<1>6. Runs(Bytes(re, len))
  BY <1>1, <1>4, <1>5 DEF Runs
<1>7. Ends(Bytes(re, len))
  BY <1>1, <1>3, <1>4 DEF Ends
<1>. QED
  BY <1>1, <1>3, <1>4, <1>6, <1>7

(* What follows in a stream is a stream. *)
LEMMA Suffix ==
  ASSUME NEW s \in Seq(Byte), NEW t \in Seq(Byte), Runs(s \o t), Ends(s \o t)
  PROVE  Runs(t) /\ Ends(t)
<1>1. ASSUME NEW i \in DOMAIN t, NEW j \in DOMAIN t, i <= j,
             \A k \in i .. j - 1 : ~ t[k].nul
      PROVE  t[j].re = t[i].re /\ t[j].at = t[i].at + (j - i)
  <2>0. /\ i \in 1 .. Len(t) /\ j \in 1 .. Len(t)
        /\ Len(s) \in Nat /\ Len(t) \in Nat /\ i \in Nat /\ j \in Nat
        /\ DOMAIN (s \o t) = 1 .. Len(s) + Len(t)
    BY <1>1, ConcatFacts
  <2>3. /\ Len(s) + i \in DOMAIN (s \o t) /\ Len(s) + j \in DOMAIN (s \o t)
        /\ Len(s) + i <= Len(s) + j /\ (Len(s) + j) - (Len(s) + i) = j - i
    BY <1>1, <2>0
  <2>1. (s \o t)[Len(s) + i] = t[i] /\ (s \o t)[Len(s) + j] = t[j]
    BY <2>0, ConcatFacts
  <2>2. ASSUME NEW k \in Len(s) + i .. (Len(s) + j) - 1 PROVE ~ (s \o t)[k].nul
    <3>1. k - Len(s) \in i .. j - 1 /\ k - Len(s) \in 1 .. Len(t) /\ Len(s) + (k - Len(s)) = k
      BY <2>0, <2>2
    <3>2. (s \o t)[k] = t[k - Len(s)]
      BY <3>1, ConcatFacts
    <3>. QED
      BY <1>1, <3>1, <3>2
  <2>. QED
    BY <2>1, <2>2, <2>3 DEF Runs
<1>2. Ends(t)
  <2>1. ASSUME t # <<>> PROVE t[Len(t)].nul
    <3>1. Len(t) \in 1 .. Len(t) /\ s \o t # <<>> /\ Len(s \o t) = Len(s) + Len(t)
      BY <2>1, ConcatFacts
    <3>. QED
      BY <3>1, ConcatFacts DEF Ends
  <2>. QED
    BY <2>1 DEF Ends
<1>. QED
  BY <1>1, <1>2 DEF Runs

(* A stream whose last frame is complete goes on with another stream. *)
LEMMA Join ==
  ASSUME NEW s \in Seq(Byte), NEW t \in Seq(Byte),
         Runs(s), Ends(s), Runs(t), Ends(t)
  PROVE  Runs(s \o t) /\ Ends(s \o t)
<1>1. ASSUME NEW i \in DOMAIN (s \o t), NEW j \in DOMAIN (s \o t), i <= j,
             \A k \in i .. j - 1 : ~ (s \o t)[k].nul
      PROVE  (s \o t)[j].re = (s \o t)[i].re /\ (s \o t)[j].at = (s \o t)[i].at + (j - i)
  <2>0. /\ i \in Nat /\ j \in Nat /\ Len(s) \in Nat /\ Len(t) \in Nat
        /\ i \in 1 .. Len(s) + Len(t) /\ j \in 1 .. Len(s) + Len(t)
        /\ DOMAIN t = 1 .. Len(t)
    BY ConcatFacts
  <2>1. CASE j <= Len(s)
    <3>1. i \in DOMAIN s /\ j \in DOMAIN s /\ (s \o t)[i] = s[i] /\ (s \o t)[j] = s[j]
      BY <1>1, <2>1, ConcatFacts
    <3>2. \A k \in i .. j - 1 : ~ s[k].nul
      BY <1>1, <2>1, <3>1, ConcatFacts
    <3>. QED
      BY <1>1, <3>1, <3>2 DEF Runs
  <2>2. CASE i > Len(s)
    <3>1. /\ i - Len(s) \in DOMAIN t /\ j - Len(s) \in DOMAIN t /\ i - Len(s) <= j - Len(s)
          /\ Len(s) + (i - Len(s)) = i /\ Len(s) + (j - Len(s)) = j
          /\ (j - Len(s)) - (i - Len(s)) = j - i
      BY <1>1, <2>0, <2>2
    <3>2. (s \o t)[i] = t[i - Len(s)] /\ (s \o t)[j] = t[j - Len(s)]
      BY <3>1, ConcatFacts
    <3>3. ASSUME NEW k \in i - Len(s) .. (j - Len(s)) - 1 PROVE ~ t[k].nul
      <4>1. Len(s) + k \in i .. j - 1 /\ k \in 1 .. Len(t)
        BY <2>0, <3>1, ConcatFacts
      <4>. QED
        BY <1>1, <4>1, ConcatFacts
    <3>. QED
      BY <3>1, <3>2, <3>3 DEF Runs
  <2>3. ~(i <= Len(s) /\ Len(s) < j)
    <3>1. SUFFICES ASSUME i <= Len(s), Len(s) < j PROVE FALSE
      OBVIOUS
    <3>2. Len(s) \in i .. j - 1 /\ Len(s) \in 1 .. Len(s) /\ s # <<>>
      BY <2>0, <3>1, ConcatFacts
    <3>. QED
      BY <1>1, <3>2, ConcatFacts DEF Ends
  <2>. QED
    BY <2>0, <2>1, <2>2, <2>3
<1>2. Ends(s \o t)
  <2>1. CASE t = <<>>
    BY <2>1, ConcatEmptySeq
  <2>2. CASE t # <<>>
    <3>1. Len(t) \in 1 .. Len(t) /\ Len(s \o t) = Len(s) + Len(t)
      BY <2>2, ConcatFacts
    <3>. QED
      BY <2>2, <3>1, ConcatFacts DEF Ends
  <2>. QED
    BY <2>1, <2>2
<1>. QED
  BY <1>1, <1>2 DEF Runs

-----------------------------------------------------------------------------
(* The steps.                                                              *)

LEMMA InitIInv == Init => IInv
<1>. SUFFICES ASSUME Init PROVE IInv
  OBVIOUS
<1>1. TypeInv
  <2>1. reading \in BOOLEAN /\ sock \in {"closed", "open", "eof"} /\ reqs \in Nat
    BY DEF Init
  <2>2. buf \in Seq(Byte) /\ wire \in Seq(Byte) /\ frame \in Seq(Byte)
    BY DEF Init
  <2>3. result \in {"none", "frame", "error"}
    BY DEF Init
  <2>. QED
    BY <2>1, <2>2, <2>3 DEF TypeInv
<1>2. StreamInv
  <2>1. Stream = <<>>
    BY <1>1, ConcatEmptySeq DEF Init, Stream, TypeInv
  <2>. QED
    BY <2>1 DEF StreamInv, Runs, Ends
<1>3. FramesNeverMix /\ Exchange /\ AnswerIsWhole
  BY DEF Init, FramesNeverMix, Exchange, AnswerIsWhole
<1>. QED
  BY <1>1, <1>2, <1>3 DEF IInv

(* What recv takes from the wire comes to the buffer, in front of the rest. *)
LEMMA RecvFacts ==
  ASSUME IInv, NEW n \in 1 .. Len(wire), NEW chunk, NEW rest,
         chunk = SubSeq(wire, 1, n), rest = SubSeq(wire, n + 1, Len(wire))
  PROVE  /\ chunk \in Seq(Byte) /\ rest \in Seq(Byte) /\ buf \o chunk \in Seq(Byte)
         /\ (buf \o chunk) \o rest = Stream
         /\ Nuls(chunk) # {} => Nuls(buf \o chunk) # {}
         /\ Nuls(buf \o chunk) \subseteq 1 .. Len(buf \o chunk)
<1>1. buf \in Seq(Byte) /\ wire \in Seq(Byte) /\ n \in 0 .. Len(wire)
  BY DEF IInv, TypeInv
<1>2. chunk \in Seq(Byte) /\ rest \in Seq(Byte) /\ chunk \o rest = wire
  BY <1>1, SplitFacts
<1>3. buf \o chunk \in Seq(Byte)
  BY <1>1, <1>2, ConcatFacts
<1>4. (buf \o chunk) \o rest = Stream
  <2>0. buf \in Seq(Byte) /\ chunk \in Seq(Byte) /\ rest \in Seq(Byte)
    BY <1>1, <1>2
  <2>1. (buf \o chunk) \o rest = buf \o (chunk \o rest)
    BY <2>0, Associative
  <2>. QED
    BY <1>2, <2>1 DEF Stream
<1>5. ASSUME NEW k \in Nuls(chunk) PROVE Len(buf) + k \in Nuls(buf \o chunk)
  <2>1. k \in 1 .. Len(chunk) /\ chunk[k].nul
    BY <1>2, <1>5, ConcatFacts DEF Nuls
  <2>2. /\ Len(buf) + k \in DOMAIN (buf \o chunk)
        /\ (buf \o chunk)[Len(buf) + k] = chunk[k]
    BY <1>1, <1>2, <2>1, ConcatFacts
  <2>. QED
    BY <2>1, <2>2 DEF Nuls
<1>6. Nuls(buf \o chunk) \subseteq 1 .. Len(buf \o chunk)
  BY <1>3 DEF Nuls
<1>. QED
  BY <1>2, <1>3, <1>4, <1>5, <1>6

(* The bytes up to the first NUL of the buffer. *)
First(b) == Min(Nuls(b))

LEMMA CutFacts ==
  ASSUME NEW b \in Seq(Byte), Nuls(b) # {}
  PROVE  /\ First(b) \in 1 .. Len(b) /\ Cut(b) = SubSeq(b, 1, First(b))
         /\ Cut(b) \in Seq(Byte) /\ Len(Cut(b)) = First(b)
         /\ \A i \in 1 .. First(b) : Cut(b)[i] = b[i]
         /\ \A i \in 1 .. First(b) : b[i].nul <=> i = First(b)
<1>1. Nuls(b) \subseteq 1 .. Len(b) /\ Nuls(b) \subseteq Nat /\ Len(b) \in Nat
  BY DEF Nuls
<1>2. First(b) \in Nuls(b) /\ \A y \in Nuls(b) : First(b) <= y
  BY <1>1, MinFacts DEF First
<1>3. First(b) \in 1 .. Len(b) /\ b[First(b)].nul /\ First(b) \in 0 .. Len(b)
  BY <1>1, <1>2 DEF Nuls
<1>4. ASSUME NEW i \in 1 .. First(b) PROVE b[i].nul <=> i = First(b)
  <2>1. i \in 1 .. Len(b) /\ DOMAIN b = 1 .. Len(b)
    BY <1>3
  <2>2. b[i].nul => i \in Nuls(b)
    BY <2>1 DEF Nuls
  <2>. QED
    BY <1>2, <1>3, <2>2
<1>5. Cut(b) = SubSeq(b, 1, First(b))
  BY DEF Cut, First
<1>6. Cut(b) \in Seq(Byte) /\ Len(Cut(b)) = First(b) /\ \A i \in 1 .. First(b) : Cut(b)[i] = b[i]
  BY <1>3, <1>5, SplitFacts
<1>. QED
  BY <1>3, <1>4, <1>5, <1>6

(* recv_frame returns. *)
LEMMA ReturnKeeps ==
  ASSUME IInv, NEW n \in 1 .. Len(wire), Recv(n), Nuls(SubSeq(wire, 1, n)) # {}
  PROVE  IInv'
<1>1. PICK chunk, rest : chunk = SubSeq(wire, 1, n) /\ rest = SubSeq(wire, n + 1, Len(wire))
  OBVIOUS
<1>2. PICK b, raw, m : b = buf \o chunk /\ raw = Cut(b) /\ m = First(b)
  OBVIOUS
<1>3. /\ chunk \in Seq(Byte) /\ rest \in Seq(Byte) /\ b \in Seq(Byte)
      /\ b \o rest = Stream /\ Nuls(b) # {}
  BY <1>1, <1>2, RecvFacts
<1>4. /\ m \in 1 .. Len(b) /\ raw = SubSeq(b, 1, m)
      /\ raw \in Seq(Byte) /\ Len(raw) = m
      /\ \A i \in 1 .. m : raw[i] = b[i]
      /\ \A i \in 1 .. m : b[i].nul <=> i = m
  BY <1>2, <1>3, CutFacts
<1>5. /\ reading /\ wire' = rest /\ buf' = <<>> /\ reading' = FALSE
      /\ result' \in Parsed(raw) /\ frame' = IF result' = "frame" THEN raw ELSE <<>>
      /\ UNCHANGED <<sock, owed, pushed, reqs>>
  BY <1>1, <1>2 DEF Recv, Return
<1>6. Parsed(raw) \subseteq {"frame", "error"}
  BY DEF Parsed
<1>7. TypeInv'
  <2>1. reading' \in BOOLEAN
    BY <1>5
  <2>2. buf' \in Seq(Byte) /\ wire' \in Seq(Byte) /\ frame' \in Seq(Byte)
    BY <1>3, <1>4, <1>5
  <2>. QED
    BY <1>5, <1>6, <2>1, <2>2 DEF IInv, TypeInv
<1>8. StreamInv'
  <2>1. Stream' = rest
    BY <1>3, <1>5, ConcatEmptySeq DEF Stream
  <2>2. Runs(rest) /\ Ends(rest)
    BY <1>3, Suffix DEF IInv, StreamInv
  <2>. QED
    BY <2>1, <2>2 DEF StreamInv
<1>9. \A i \in 1 .. Len(b) : i \in DOMAIN Stream /\ Stream[i] = b[i]
  BY <1>3, ConcatFacts
<1>10. FramesNeverMix'
  <2>1. CASE result' = "frame"
    <3>1. DOMAIN raw = 1 .. m /\ m \in 1 .. Len(b) /\ Len(b) \in Nat
      BY <1>3, <1>4, ConcatFacts
    <3>2. ASSUME NEW i \in 1 .. m
          PROVE  /\ raw[i].re = raw[1].re /\ raw[i].at = raw[1].at + i - 1
                 /\ raw[i].nul <=> i = m
      <4>1. /\ 1 \in DOMAIN Stream /\ i \in DOMAIN Stream /\ 1 <= i
            /\ Stream[1] = raw[1] /\ Stream[i] = raw[i]
        BY <1>4, <1>9, <3>1
      <4>2. \A k \in 1 .. i - 1 : ~ Stream[k].nul
        BY <1>4, <1>9, <3>1
      <4>3. raw[i].re = raw[1].re /\ raw[i].at = raw[1].at + (i - 1)
        BY <4>1, <4>2 DEF IInv, StreamInv, Runs
      <4>4. raw[1] \in Byte
        BY <1>4, <3>1
      <4>5. raw[1].at + (i - 1) = raw[1].at + i - 1
        BY <3>1, <4>4 DEF Byte
      <4>. QED
        BY <1>4, <4>3, <4>5
    <3>. QED
      BY <1>4, <1>5, <2>1, <3>1, <3>2 DEF FramesNeverMix
  <2>2. CASE result' # "frame"
    BY <1>5, <2>2 DEF FramesNeverMix
  <2>. QED
    BY <2>1, <2>2
<1>11. ASSUME ~pushed PROVE rest = <<>> /\ ~owed /\ Whole(raw) /\ raw[1].re = reqs
  <2>1. PICK len \in Lengths : Stream = Bytes(reqs, len) /\ ~owed
    <3>1. wire # <<>>
      BY DEF IInv, TypeInv
    <3>. QED
      BY <1>5, <1>11, <3>1 DEF IInv, Exchange
  <2>2. /\ Len(Stream) = len /\ len \in Nat \ {0}
        /\ \A i \in 1 .. len : Stream[i].re = reqs /\ (Stream[i].nul <=> i = len)
    BY <2>1, BytesFacts DEF IInv, TypeInv
  <2>3. Len(b) \in Nat /\ Len(rest) \in Nat /\ Len(b) + Len(rest) = len
    BY <1>3, <2>2, ConcatFacts
  <2>4. m \in 1 .. len /\ b[m].nul /\ Stream[m] = b[m]
    BY <1>4, <1>9, <2>3
  <2>5. m = len
    BY <2>2, <2>4
  <2>6. Len(rest) = 0 /\ Len(b) = m
    BY <1>4, <2>3, <2>5
  <2>7. rest = <<>> /\ b = Stream
    BY <1>3, <2>6, ConcatEmptySeq
  <2>8. raw = Stream
    BY <1>3, <1>4, <2>6, <2>7, SubSeqFull
  <2>9. raw # <<>> /\ raw[1].re = reqs
    BY <2>2, <2>8
  <2>. QED
    BY <2>1, <2>7, <2>8, <2>9 DEF Whole
<1>12. Exchange'
  BY <1>5, <1>11 DEF IInv, Exchange
<1>13. AnswerIsWhole'
  BY <1>5, <1>11 DEF AnswerIsWhole
<1>. QED
  BY <1>7, <1>8, <1>10, <1>12, <1>13 DEF IInv

(* recv_frame goes on. *)
LEMMA CollectKeeps ==
  ASSUME IInv, NEW n \in 1 .. Len(wire), Recv(n), Nuls(SubSeq(wire, 1, n)) = {}
  PROVE  IInv'
<1>1. PICK chunk, rest : chunk = SubSeq(wire, 1, n) /\ rest = SubSeq(wire, n + 1, Len(wire))
  OBVIOUS
<1>2. /\ chunk \in Seq(Byte) /\ rest \in Seq(Byte) /\ buf \o chunk \in Seq(Byte)
      /\ (buf \o chunk) \o rest = Stream
  BY <1>1, RecvFacts
<1>3. /\ reading /\ wire' = rest /\ buf' = buf \o chunk
      /\ UNCHANGED <<reading, result, frame, sock, owed, pushed, reqs>>
  BY <1>1 DEF Recv
<1>4. Stream' = Stream
  BY <1>2, <1>3 DEF Stream
<1>5. TypeInv'
  BY <1>2, <1>3 DEF IInv, TypeInv
<1>6. StreamInv' /\ FramesNeverMix'
  BY <1>3, <1>4 DEF IInv, StreamInv, FramesNeverMix
<1>7. Exchange'
  <2>1. wire # <<>>
    BY DEF IInv, TypeInv
  <2>. QED
    BY <1>3, <1>4, <2>1 DEF IInv, Exchange
<1>8. AnswerIsWhole'
  BY <1>3 DEF AnswerIsWhole
<1>. QED
  BY <1>5, <1>6, <1>7, <1>8 DEF IInv

(* The server sends a frame. *)
LEMMA FrameSent ==
  ASSUME IInv, NEW re \in Nat, NEW len \in Lengths,
         wire' = wire \o Bytes(re, len), buf' = buf
  PROVE  wire' \in Seq(Byte) /\ StreamInv' /\ Stream' = Stream \o Bytes(re, len)
<1>1. /\ buf \in Seq(Byte) /\ wire \in Seq(Byte) /\ Stream \in Seq(Byte)
      /\ Bytes(re, len) \in Seq(Byte) /\ Runs(Bytes(re, len)) /\ Ends(Bytes(re, len))
  BY BytesFacts, ConcatFacts DEF IInv, TypeInv, Stream
<1>2. Stream' = Stream \o Bytes(re, len)
  BY <1>1, ConcatAssociative DEF Stream
<1>3. Runs(Stream \o Bytes(re, len)) /\ Ends(Stream \o Bytes(re, len))
  BY <1>1, Join DEF IInv, StreamInv
<1>. QED
  BY <1>1, <1>2, <1>3, ConcatFacts DEF StreamInv

LEMMA StepIInv == IInv /\ [Next]_vars => IInv'
<1>. SUFFICES ASSUME IInv, [Next]_vars PROVE IInv'
  OBVIOUS
<1>. USE DEF IInv
<1>1. ASSUME UNCHANGED <<buf, wire, frame>> PROVE StreamInv' /\ FramesNeverMix'
  BY <1>1 DEF StreamInv, Stream, FramesNeverMix
<1>2. CASE UNCHANGED vars \/ Finished
  <2>1. UNCHANGED vars
    BY <1>2 DEF Finished
  <2>2. TypeInv' /\ Exchange' /\ AnswerIsWhole'
    BY <2>1 DEF vars, TypeInv, Exchange, AnswerIsWhole, Stream
  <2>3. UNCHANGED <<buf, wire, frame>>
    BY <2>1 DEF vars
  <2>. QED
    BY <1>1, <2>2, <2>3
<1>3. CASE Connect
  <2>1. TypeInv' /\ Exchange' /\ AnswerIsWhole'
    BY <1>3 DEF Connect, TypeInv, Exchange, AnswerIsWhole
  <2>2. StreamInv' /\ FramesNeverMix'
    BY <1>3 DEF Connect, StreamInv, Stream, FramesNeverMix
  <2>. QED
    BY <2>1, <2>2
<1>4. CASE Close
  <2>1. TypeInv' /\ Exchange' /\ AnswerIsWhole'
    BY <1>4 DEF Close, TypeInv, Exchange, AnswerIsWhole
  <2>2. Stream' = <<>> /\ frame' = frame
    BY <1>4, ConcatEmptySeq DEF Close, Stream, TypeInv, Exchange
  <2>. QED
    BY <2>1, <2>2 DEF StreamInv, Runs, Ends, FramesNeverMix
<1>5. CASE SendMid
  <2>1. buf = <<>> /\ UNCHANGED <<buf, wire, frame>>
    BY <1>5 DEF SendMid, Exchange
  <2>2. TypeInv' /\ Exchange' /\ AnswerIsWhole'
    BY <1>5, <2>1 DEF SendMid, TypeInv, Exchange, AnswerIsWhole
  <2>. QED
    BY <1>1, <2>1, <2>2
<1>6. CASE Fail
  <2>3. buf' \in Seq(Byte)
    BY <1>6 DEF Fail, GiveUp
  <2>7. reading' \in BOOLEAN
    BY <1>6 DEF Fail, GiveUp
  <2>4. TypeInv'
    BY <1>6, <2>3, <2>7 DEF Fail, GiveUp, TypeInv
  <2>5. Exchange'
    BY <1>6 DEF Fail, GiveUp, Exchange
  <2>1. TypeInv' /\ Exchange' /\ AnswerIsWhole' /\ FramesNeverMix'
    BY <1>6, <2>4, <2>5 DEF Fail, GiveUp, AnswerIsWhole, FramesNeverMix
  <2>2. Stream' = wire
    BY <1>6, ConcatEmptySeq DEF Fail, GiveUp, Stream, TypeInv
  <2>6. Runs(wire) /\ Ends(wire)
    BY Suffix DEF StreamInv, Stream, TypeInv
  <2>. QED
    BY <2>1, <2>2, <2>4, <2>5, <2>6 DEF StreamInv
<1>7. ASSUME NEW n \in 1 .. Len(wire), Recv(n) PROVE IInv'
  BY <1>7, ReturnKeeps, CollectKeeps
<1>8. ASSUME NEW len \in Lengths, Answer(len) PROVE IInv'
  <2>1. /\ sock = "open" /\ owed /\ ~owed' /\ wire' = wire \o Bytes(reqs, len)
        /\ UNCHANGED <<sock, reading, buf, result, frame, pushed, reqs>>
    BY <1>8 DEF Answer
  <2>2. wire' \in Seq(Byte) /\ StreamInv' /\ Stream' = Stream \o Bytes(reqs, len)
    BY <2>1, FrameSent DEF TypeInv
  <2>3. TypeInv' /\ FramesNeverMix' /\ AnswerIsWhole'
    BY <2>1, <2>2 DEF TypeInv, FramesNeverMix, AnswerIsWhole
  <2>4. ~pushed /\ reading => Stream' = Bytes(reqs, len)
    <3>1. Bytes(reqs, len) \in Seq(Byte)
      BY BytesFacts DEF TypeInv
    <3>2. ~pushed /\ reading => Stream = <<>>
      BY <2>1, ConcatEmptySeq DEF Exchange, Stream, TypeInv
    <3>. QED
      BY <2>2, <3>1, <3>2, ConcatEmptySeq
  <2>5. Exchange'
    BY <2>1, <2>4 DEF Exchange
  <2>. QED
    BY <2>2, <2>3, <2>5
<1>9. ASSUME NEW len \in Lengths, PushFrame(len) PROVE IInv'
  <2>1. /\ sock = "open" /\ pushed' /\ wire' = wire \o Bytes(0, len)
        /\ UNCHANGED <<sock, reading, buf, result, frame, owed, reqs>>
    BY <1>9 DEF PushFrame
  <2>2. wire' \in Seq(Byte) /\ StreamInv'
    BY <2>1, FrameSent
  <2>3. TypeInv' /\ FramesNeverMix' /\ AnswerIsWhole' /\ Exchange'
    BY <2>1, <2>2 DEF TypeInv, FramesNeverMix, AnswerIsWhole, Exchange
  <2>. QED
    BY <2>2, <2>3
<1>10. CASE ServerCloses
  <2>1. UNCHANGED <<buf, wire, frame>>
    BY <1>10 DEF ServerCloses
  <2>2. TypeInv' /\ AnswerIsWhole'
    BY <1>10 DEF ServerCloses, TypeInv, AnswerIsWhole
  <2>3. Exchange'
    BY <1>10 DEF ServerCloses, Exchange, Stream
  <2>. QED
    BY <1>1, <2>1, <2>2, <2>3
<1>. QED
  BY <1>2, <1>3, <1>4, <1>5, <1>6, <1>7, <1>8, <1>9, <1>10 DEF Next

(* However the stream is cut, and with frames nobody asked for between the *)
(* answers, a frame that recv_frame returns never runs into another one.   *)
THEOREM FramesKeepApart == Spec => []FramesNeverMix
<1>1. IInv => FramesNeverMix
  BY DEF IInv
<1>. QED
  BY InitIInv, StepIInv, <1>1, PTL DEF Spec

(* On a connection on which nothing is pushed, a frame that recv_frame     *)
(* returns is the whole answer to the request just made.                   *)
THEOREM AnswersAreWhole == Spec => []AnswerIsWhole
<1>1. IInv => AnswerIsWhole
  BY DEF IInv
<1>. QED
  BY InitIInv, StepIInv, <1>1, PTL DEF Spec

-----------------------------------------------------------------------------
(* The fixture around the tests.                                           *)

(* A run that is killed leaves no connection behind. *)
LEMMA KilledIInv == IInv /\ Killed => IInv'
<1>. SUFFICES ASSUME IInv, Killed PROVE IInv'
  OBVIOUS
<1>1. /\ sock' = "closed" /\ reading' = FALSE /\ buf' = <<>> /\ wire' = <<>>
      /\ owed' = FALSE /\ result' = "error" /\ frame' = <<>> /\ reqs' = reqs
  BY DEF Killed
<1>2. TypeInv'
  <2>1. reading' \in BOOLEAN
    BY <1>1
  <2>2. buf' \in Seq(Byte) /\ wire' \in Seq(Byte) /\ frame' \in Seq(Byte)
    BY <1>1
  <2>. QED
    BY <1>1, <2>1, <2>2 DEF IInv, TypeInv
<1>3. StreamInv'
  <2>1. Stream' = <<>>
    BY <1>1, <1>2, ConcatEmptySeq DEF Stream, TypeInv
  <2>. QED
    BY <2>1 DEF StreamInv, Runs, Ends
<1>4. FramesNeverMix' /\ Exchange' /\ AnswerIsWhole'
  BY <1>1 DEF FramesNeverMix, Exchange, AnswerIsWhole
<1>. QED
  BY <1>2, <1>3, <1>4 DEF IInv

LEMMA SessionKeepsIInv == IInv /\ [SessionNext]_<<vars, sessionVars>> => IInv'
<1>. SUFFICES ASSUME IInv, [SessionNext]_<<vars, sessionVars>> PROVE IInv'
  OBVIOUS
<1>1. CASE UNCHANGED vars \/ TestStep
  BY <1>1, StepIInv DEF TestStep
<1>2. CASE Killed
  BY <1>2, KilledIInv
<1>. QED
  BY <1>1, <1>2
  DEF SessionNext, Begin, FixtureStep, Login, Query, Enable, Check, Refused, Raises, TestsEnd,
      Restore, RestoreFails, Bye, LinkDrops, SessionEnds

(* The same two facts about the tests as they run inside the fixture, with *)
(* runs that are killed in the middle of an exchange.                      *)
THEOREM SessionFramesAreWhole == SessionSpec => [](AnswerIsWhole /\ FramesNeverMix)
<1>1. SessionInit => IInv
  BY InitIInv DEF SessionInit
<1>2. IInv => AnswerIsWhole /\ FramesNeverMix
  BY DEF IInv
<1>. QED
  BY <1>1, <1>2, SessionKeepsIInv, PTL DEF SessionSpec

(* What the fixture knows at each of its steps: while nothing was spoiled, *)
(* the protocol is as it was found until it is enabled, and from then on   *)
(* original holds nothing but what was found.                              *)
Steps == {"out", "login", "query", "enable", "check", "tests", "restore", "bye"}

SessionInv ==
  /\ step \in Steps
  /\ enabled \in BOOLEAN /\ first \in BOOLEAN /\ original \in SUBSET BOOLEAN
  /\ changed \in BOOLEAN /\ spoiled \in BOOLEAN
  /\ step \in {"login", "query", "enable"} => ~changed
  /\ step \in {"check", "restore"} => changed
  /\ step \in {"check", "tests"} => enabled
  /\ ~spoiled =>
       /\ ~changed \/ step \in {"out", "bye"} => enabled = first
       /\ step = "enable" \/ (changed /\ step # "out") => original \subseteq {first}

LEMMA InitSessionInv == SessionInit => SessionInv
BY SessionAssumption DEF SessionInit, SessionInv, Steps

LEMMA StepSessionInv == SessionInv /\ [SessionNext]_<<vars, sessionVars>> => SessionInv'
<1>. SUFFICES ASSUME SessionInv, [SessionNext]_<<vars, sessionVars>> PROVE SessionInv'
  OBVIOUS
<1>. USE DEF SessionInv, Steps
<1>1. CASE Begin
  BY <1>1 DEF Begin
<1>2. CASE Login \/ Check \/ Refused \/ Bye
  BY <1>2 DEF Login, Check, Refused, Bye, Leave
<1>3. CASE Query
  BY <1>3 DEF Query, NextWhen
<1>4. CASE Enable
  BY <1>4 DEF Enable
<1>5. CASE Raises
  BY <1>5 DEF Raises, Leave, MayBe, PutsBack, Unfinished
<1>6. CASE TestsEnd
  BY <1>6 DEF TestsEnd
<1>7. CASE Restore
  BY <1>7 DEF Restore, PutsBack
<1>8. CASE RestoreFails
  BY <1>8 DEF RestoreFails, MayBe, PutsBack
<1>9. CASE Killed
  BY <1>9 DEF Killed, Leave, MayBe, PutsBack, Unfinished
<1>10. CASE TestStep \/ LinkDrops \/ SessionEnds \/ UNCHANGED <<vars, sessionVars>>
  BY <1>10 DEF TestStep, LinkDrops, SessionEnds, sessionVars
<1>. QED
  BY <1>1, <1>2, <1>3, <1>4, <1>5, <1>6, <1>7, <1>8, <1>9, <1>10
  DEF SessionNext, FixtureStep

(* Between modules the protocol is enabled or not as it was found, unless  *)
(* a run was killed or a request failed after the fixture had begun to     *)
(* change it, or the configuration it sent back did not mention it.        *)
THEOREM ConfigurationIsPutBack == SessionSpec => []PutBack
<1>1. SessionInv => PutBack
  BY DEF SessionInv, PutBack
<1>. QED
  BY <1>1, InitSessionInv, StepSessionInv, PTL DEF SessionSpec

(* The tests never run while the protocol is disabled, whatever earlier    *)
(* modules have spoiled: the fixture yields only after a query that found  *)
(* it enabled, or a request that enabled it.                               *)
THEOREM SuiteIsEnabled == SessionSpec => []SuiteRunsEnabled
<1>1. SessionInv => SuiteRunsEnabled
  BY DEF SessionInv, SuiteRunsEnabled
<1>. QED
  BY <1>1, InitSessionInv, StepSessionInv, PTL DEF SessionSpec
=============================================================================

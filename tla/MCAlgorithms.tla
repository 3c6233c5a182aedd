---------------------------- MODULE MCAlgorithms ----------------------------
(***************************************************************************)
(* The algorithms of SpecFactory, Measurements and IdLists on bounded      *)
(* inputs: a behavior picks one input of one of them, and an invariant     *)
(* compares the result with what it should be.                             *)
(***************************************************************************)
EXTENDS SpecFactory, Measurements, IdLists

CONSTANTS
  MaxLen,     \* bound: elements of a sequence
  MaxRecords, \* bound: records of a run
  MaxTime,    \* bound: times and indices
  Ids         \* the ids a list is made of: two digits are enough for each

ASSUME BoundsAssumption ==
  MaxLen \in Nat /\ MaxRecords \in Nat /\ MaxTime \in Nat /\ Ids \subseteq 0 .. 99

VARIABLE input

NoInput == [kind |-> "none"]

Init == input = NoInput

UptoLen(m, S) == UNION {[1 .. n -> S] : n \in 0 .. m}
Upto(S) == UptoLen(MaxLen, S)
Rising(s) == \A i \in 1 .. Len(s) - 1 : s[i] <= s[i + 1]

(* A payload of a test, and the rules it should break.                     *)
PickPayload ==
  \E c \in {<<t.payload, {t.rule}>> : t \in NegativeTests}
            \cup {<<p, {}>> : p \in PositiveTests \cup {Default}}
            \cup {<<WithSteps(n), {}>> : n \in -1 .. MaxSteps + 1} :
    input' = [kind |-> "payload", payload |-> c[1], rules |-> c[2]]

(* The corners of what random draws. *)
TorqueDraws ==
  {w \in [low : {100, 104, 105, 996, 1000}, width : {200, 204, 205, 1998},
          offset : {0, 1, 99, 195, 200, 204, 210, 1990, 2000}] :
     w.offset <= Limits("torque", w).max - Limits("torque", w).min}
OtherDraws == {[low |-> 200, width |-> 500, offset |-> o] : o \in {0, 500}}

StepDraws == {[ok_if |-> f, ref |-> [q \in Quantities |-> r]] :
                f \in {<<0, 0, 0, 0>>, <<4, 8, 16, 8>>, <<2, 0, 4, 0>>}, r \in {50, 3000}}

PickRandom ==
  \E t \in TorqueDraws, o \in OtherDraws, n \in {1, MaxSteps},
     first \in StepDraws, others \in StepDraws, start \in {0, 30}, stop \in {0, 90} :
    input' = [kind |-> "random",
              payload |-> RandomSpec(
                [confirm |-> 1, percent |-> 100, start_angle |-> start, stop_angle |-> stop,
                 window |-> [q \in Quantities |-> IF q = "torque" THEN t ELSE o],
                 steps |-> [i \in 1 .. n |-> IF i = 1 THEN first ELSE others]])]

(* How many specifications a module is made of. *)
PickModule ==
  \E n \in 0 .. MaxPoints + 2 : input' = [kind |-> "module", n |-> n]

Names == {"save", "read"}
Results == {Record(n, ms, 1) : n \in Names, ms \in 0 .. MaxTime}
PickRecords ==
  \E r, b \in UptoLen(MaxRecords, Results) :
    input' = [kind |-> "records", records |-> r, baseline |-> b]

PickCurve ==
  \E s \in {s \in Upto(0 .. 2 * PacketGap) : Len(s) >= 2 /\ Rising(s)} :
    \E down \in SUBSET (2 .. Len(s)) : input' = [kind |-> "curve", t |-> s, down |-> down]

Indices == {<<>>} \cup {<<i>> : i \in 0 .. MaxTime}
             \cup {<<i, i + 1>> : i \in 0 .. MaxTime - 1}
Frames == [kind : {"indexed", "plain"}, idx : Indices] \cup {[kind |-> "other", idx |-> <<>>]}
PickFrames == \E s \in Upto(Frames) : input' = [kind |-> "frames", frames |-> s]

(* A list of ids as the server encodes it, cut off after some digits.      *)
PowersOfTen == <<1, 10, 100, 1000>>
Digit(n, width, k) == (n \div PowersOfTen[width - k + 1]) % 10
Encode(ids, width) ==
  [i \in 1 .. (Len(ids) + 1) * width |->
     LET field == (i - 1) \div width \* the count is field 0
     IN Digit(IF field = 0 THEN Len(ids) ELSE ids[field], width, ((i - 1) % width) + 1)]

PickList ==
  \E ids \in Upto(Ids), width \in {2, 3, 4} :
    \E cut \in 0 .. Len(Encode(ids, width)) :
      input' = [kind |-> "list", ids |-> ids, width |-> width,
                text |-> SubSeq(Encode(ids, width), 1, cut)]

Fresh == input.kind = "none"

Done == ~Fresh /\ UNCHANGED input

Next ==
  \/ Fresh /\ (PickPayload \/ PickRandom \/ PickModule \/ PickRecords
                 \/ PickCurve \/ PickFrames \/ PickList)
  \/ Done

Spec == Init /\ [][Next]_input

-----------------------------------------------------------------------------

(* The payload of a test that expects a rejection breaks the rule the test *)
(* is named for and no other, so that the rejection is not another rule's; *)
(* one that should be accepted breaks none.  with_steps is among these for *)
(* every count: the test that asks it for one step too many sends a legal  *)
(* payload.                                                                *)
TestsAreSharp ==
  input.kind = "payload" => Broken(input.payload) = input.rules

(* What random promises: min <= target <= max in each window, rounding     *)
(* included.  It is still refused at times, but only for the references,   *)
(* flags and conditions it draws without regard to the windows.            *)
RandomIsSafe ==
  input.kind = "random" =>
    /\ \A q \in Quantities : WindowOrdered(input.payload.detail.window[q])
    /\ Broken(input.payload) \subseteq {"window", "flag", "condition"}

(* A module has as many points as it says, at most MAX_POINT_COUNT, with   *)
(* ids of their own, whatever number is asked for.                         *)
ModulesFit ==
  input.kind = "module" =>
    \A m \in {Manual([i \in 1 .. input.n |-> i]), TorqueArm(input.n)} : ModuleFits(m)

(* A comparison tells of the measurements that took more than one and a    *)
(* half times as long as the last one of their name in the baseline, of    *)
(* each of them and of no other; and it fails if and only if the last one  *)
(* of a name took no time and the new one some.                            *)
DegradationsAreTold ==
  input.kind = "records" =>
    LET r == input.records
        b == input.baseline
        c == Compare(r, b)
        Last(i, j) == /\ b[j].name = r[i].name
                      /\ \A l \in j + 1 .. Len(b) : b[l].name # r[i].name
    IN /\ c.raised <=> \E i \in DOMAIN r, j \in DOMAIN b :
                          Last(i, j) /\ b[j].elapsed_ms = 0 /\ r[i].elapsed_ms > 0
       /\ ~c.raised => c.told = {i \in DOMAIN r : \E j \in DOMAIN b :
                                  Last(i, j) /\ 2 * r[i].elapsed_ms > 3 * b[j].elapsed_ms}

(* The packets of a curve are its pieces without a gap: they begin at the  *)
(* first point and at each point more than 3 ms after the one before, and  *)
(* nowhere else, except that exactly 3 ms may count as a gap or not.       *)
PacketsArePieces ==
  input.kind = "curve" =>
    LET t == input.t
        packets == Packets(t, input.down)
        gaps == Gaps(t, input.down)
        n == Len(packets)
        Apart(k) == t[k] - t[k - 1]
    IN /\ Len(gaps) = n - 1
       /\ \E even \in SUBSET {k \in 2 .. Len(t) : Apart(k) = PacketGap} :
            LET starts == {1, Len(t) + 1} \cup {k \in 2 .. Len(t) : Apart(k) > PacketGap} \cup even
            IN \E first \in [1 .. n + 1 -> starts] :
                 /\ {first[i] : i \in 1 .. n + 1} = starts
                 /\ \A i \in 1 .. n : /\ first[i] < first[i + 1]
                                     /\ packets[i] = first[i + 1] - first[i]
                 /\ \A i \in 1 .. n - 1 : gaps[i] = Apart(first[i + 1])

(* If no frame went back, no point was counted twice.                      *)
NoJumpMeansNoRepeat ==
  input.kind = "frames" =>
    LET fs == input.frames
        s  == Statistics(fs)
        points == {p \in (DOMAIN fs) \X (1 .. 2) : p[2] \in DOMAIN fs[p[1]].idx}
    IN (s.jumps = 0 /\ ~s.raised /\ \A i \in DOMAIN fs : fs[i].kind # "plain")
         => s.pts = Cardinality({fs[p[1]].idx[p[2]] : p \in points})

(* What is parsed of a list that was cut off is the beginning of the list, *)
(* and of a whole list all of it.                                          *)
ListsParse ==
  input.kind = "list" =>
    LET parsed == IF input.width = 3 THEN _parse_pset_ids(input.text)
                  ELSE _parse_job_ids(input.text, IF input.width = 2 THEN 1 ELSE 2)
    IN /\ Len(parsed) <= Len(input.ids)
       /\ \A i \in DOMAIN parsed : parsed[i] = input.ids[i]
       /\ Len(input.text) = (Len(input.ids) + 1) * input.width => parsed = input.ids
=============================================================================

------------------------ MODULE SpecRoundTripProofs ------------------------
(***************************************************************************)
(* Proofs about SpecRoundTrip: what a pass rests on and what a test leaves *)
(* behind, for any values, slots, number of tests and moves of slots.      *)
(***************************************************************************)
EXTENDS SpecRoundTrip, TLAPS

(* A test that still runs has not passed. *)
Running == at # 0 => verdict # "pass"

McuKind == kind \in {"mcu", "both"}

(* Where an MCU test dumps: the steps before it differ by the query. *)
DumpAt == IF kind = "mcu" THEN 4 ELSE 5

Undisturbed == at # 0 /\ verdict = "none"

(* An image that says nothing but what the MCU held at the dump. *)
OfDump(image) ==
  /\ DOMAIN dumped = Slots /\ DOMAIN image \subseteq Slots
  /\ \A s \in DOMAIN image : image[s] = dumped[s]

Held == seen \in Slots /\ DOMAIN dumped = Slots /\ dumped[seen] = want

(* The way of the image, as long as nothing has gone wrong. *)
ImageInv ==
  McuKind =>
    /\ Undisturbed /\ at > 3 => seen \in Slots
    /\ Undisturbed /\ at > DumpAt => OfDump(bin)
    /\ Undisturbed /\ at > DumpAt + 1 => OfDump(file)
    /\ Undisturbed /\ at > DumpAt + 2 => Held
    /\ at = 0 /\ verdict = "pass" => Held

(* After a kill that worked, what is served is what was stored. *)
ColdInv ==
  kind = "power" /\ clean =>
    /\ at \in 4 .. 6 \/ (at = 0 /\ verdict = "pass")
         => (up = "up" => mem[126].value = db[126].value)
    /\ at = 0 /\ verdict = "pass" => db[126].value = before

Active == mem[Id(kind)].active

(* A test whose first request was answered has a backend that stays up,    *)
(* and each place from which it may end without its clean-up is inactive.  *)
TidyInv ==
  kind # "power" /\ clean =>
    /\ at > 1 => up = "up"
    /\ at = 0 /\ verdict \notin {"none", "killed"} => up = "up" /\ ~Active
    /\ kind = "auto" /\ at = 2 => ~Active
    /\ kind = "clears" /\ at = 4 => ~Active

IInv == TypeOK /\ Running /\ ImageInv /\ ColdInv /\ TidyInv

-----------------------------------------------------------------------------
(* The kinds of tests, and where each step stands in them.                 *)

LEMMA Lengths ==
  \A k \in Kinds :
    /\ Last(k) \in 4 .. 8 /\ DOMAIN Steps(k) = 1 .. Last(k)
    /\ k \in {"db", "auto", "clears"} => Last(k) = 4
    /\ k = "mcu" => Last(k) = 7
    /\ k = "both" => Last(k) = 8
    /\ k = "power" => Last(k) = 6
    /\ Try(k) \in 2 .. Last(k) /\ Id(k) \in Ids
    /\ k = "auto" => Try(k) = 3
    /\ k \in {"clears", "power"} => Try(k) = Last(k)
    /\ k \in {"db", "mcu", "both"} => Try(k) = 2
    /\ k = "power" => Id(k) = 126
<1>1. /\ Len(Steps("db")) = 4 /\ Len(Steps("auto")) = 4 /\ Len(Steps("clears")) = 4
      /\ Len(Steps("mcu")) = 7 /\ Len(Steps("both")) = 8 /\ Len(Steps("power")) = 6
  BY DEF Steps
<1>2. /\ DOMAIN Steps("db") = 1 .. 4 /\ DOMAIN Steps("auto") = 1 .. 4
      /\ DOMAIN Steps("clears") = 1 .. 4 /\ DOMAIN Steps("mcu") = 1 .. 7
      /\ DOMAIN Steps("both") = 1 .. 8 /\ DOMAIN Steps("power") = 1 .. 6
  BY DEF Steps
<1>3. \A k \in Kinds : Id(k) \in Ids /\ (k = "power" => Id(k) = 126)
  BY DEF Kinds, Id, Ids
<1>4. \A k \in Kinds :
        /\ Last(k) \in 4 .. 8 /\ DOMAIN Steps(k) = 1 .. Last(k)
        /\ k \in {"db", "auto", "clears"} => Last(k) = 4
        /\ k = "mcu" => Last(k) = 7
        /\ k = "both" => Last(k) = 8
        /\ k = "power" => Last(k) = 6
  BY <1>1, <1>2 DEF Kinds, Last
<1>5. \A k \in Kinds :
        /\ k = "auto" => Try(k) = 3
        /\ k \in {"clears", "power"} => Try(k) = Last(k)
        /\ k \in {"db", "mcu", "both"} => Try(k) = 2
  BY DEF Kinds, Try
<1>6. \A k \in Kinds : Try(k) \in 2 .. Last(k)
  BY <1>4, <1>5 DEF Kinds
<1>. QED  BY <1>3, <1>4, <1>5, <1>6

LEMMA Places ==
  \A k \in Kinds : \A i \in 1 .. Last(k) :
    /\ Steps(k)[i] = "activate" => i = 1 /\ k \in {"db", "clears", "mcu", "both"}
    /\ Steps(k)[i] = "save" => (i = 2 /\ k # "power") \/ (i = 1 /\ k = "power")
    /\ Steps(k)[i] = "deactivate" =>
         \/ k = "auto" /\ i = 1
         \/ k = "clears" /\ i = 3
         \/ k \in {"db", "auto", "mcu", "both"} /\ i = Last(k)
    /\ Steps(k)[i] = "query" =>
         (k \in {"db", "auto"} /\ i = 3) \/ (k \in {"clears", "both"} /\ i = 4)
    /\ Steps(k)[i] = "slot" => k \in {"mcu", "both"} /\ i = 3
    /\ Steps(k)[i] = "dump" => (k = "mcu" /\ i = 4) \/ (k = "both" /\ i = 5)
    /\ Steps(k)[i] = "download" => (k = "mcu" /\ i = 5) \/ (k = "both" /\ i = 6)
    /\ Steps(k)[i] = "compare" => (k = "mcu" /\ i = 6) \/ (k = "both" /\ i = 7)
    /\ Steps(k)[i] \in {"read", "kill", "start", "ready", "reread"} => k = "power"
    /\ Steps(k)[i] = "read" => i = 2
    /\ Steps(k)[i] = "kill" => i = 3
    /\ Steps(k)[i] = "start" => i = 4
    /\ Steps(k)[i] = "ready" => i = 5
    /\ Steps(k)[i] = "reread" => i = 6
<1>1. \A i \in 1 .. 8 : i \in {1, 2, 3, 4, 5, 6, 7, 8}
  OBVIOUS
<1>2. ASSUME NEW k \in {"db", "auto", "clears"}, NEW i \in 1 .. Last(k)
      PROVE  i \in {1, 2, 3, 4}
  BY Lengths DEF Kinds
<1>. QED  BY <1>1, <1>2, Lengths DEF Kinds, Steps

-----------------------------------------------------------------------------
(* Types.                                                                  *)

Verdicts == {"none", "pass", "fail", "error", "skip", "killed"}

(* A test goes on within its steps. *)
LEMMA ControlTypes ==
  ASSUME TypeOK, at # 0, kind' = kind,
         Go \/ \E v \in {"fail", "error", "skip"} : Raise(v)
  PROVE  at' \in 0 .. Last(kind') /\ verdict' \in Verdicts
<1>1. Last(kind) \in 4 .. 8 /\ at \in 1 .. Last(kind)
  BY Lengths DEF TypeOK
<1>2. CASE Go
  BY <1>1, <1>2 DEF Go, TypeOK, Verdicts
<1>3. CASE \E v \in {"fail", "error", "skip"} : Raise(v)
  BY <1>1, <1>3 DEF Raise, Verdicts
<1>. QED  BY <1>2, <1>3

(* An update leaves a table of specifications. *)
LEMMA UpdatedTypes ==
  ASSUME TypeOK
  PROVE  /\ Updated \in [Ids -> Rows]
         /\ Updated[Id(kind)].active = (Steps(kind)[at] # "deactivate")
<1>1. Id(kind) \in Ids /\ mem[Id(kind)] \in Rows /\ mem \in [Ids -> Rows]
  BY Lengths DEF TypeOK
<1>. DEFINE row == [active |-> Steps(kind)[at] # "deactivate",
                    value |-> IF Steps(kind)[at] = "save" THEN want
                              ELSE mem[Id(kind)].value]
<1>2. row \in Rows
  <2>1. (Steps(kind)[at] # "deactivate") \in BOOLEAN
    OBVIOUS
  <2>2. mem[Id(kind)].value \in Values \cup {Zero}
    BY <1>1 DEF Rows
  <2>3. want \in Values \cup {Zero}
    BY DEF TypeOK
  <2>. QED  BY <2>1, <2>2, <2>3 DEF Rows
<1>3. Updated = [mem EXCEPT ![Id(kind)] = row]
  BY DEF Updated
<1>4. row.active = (Steps(kind)[at] # "deactivate")
  OBVIOUS
<1>. HIDE DEF row
<1>. QED  BY <1>1, <1>2, <1>3, <1>4

(* Images are functions on some of the slots. *)
LEMMA ImageTypes ==
  /\ <<>> \in Images
  /\ \A S \in SUBSET Slots : \A f \in [S -> Values \cup {Zero}] : f \in Images
<1>1. \A S \in SUBSET Slots : \A f \in [S -> Values \cup {Zero}] : f \in Images
  BY DEF Images
<1>2. <<>> \in [{} -> Values \cup {Zero}]
  OBVIOUS
<1>. QED  BY <1>1, <1>2

(* The initial states are well typed. *)
LEMMA InitTypeOK == Init => TypeOK
<1>. SUFFICES ASSUME Init
              PROVE  TypeOK
  OBVIOUS
<1>. USE RoundTripAssumption DEF Init
<1>1. mem \in [Ids -> Rows] /\ db \in [Ids -> Rows]
  BY DEF Rows
<1>2. mcu \in [Slots -> Values \cup {Zero}]
  OBVIOUS
<1>3. {bin, file, dumped} \subseteq Images
  BY ImageTypes
<1>4. kind \in Kinds /\ at \in 0 .. Last(kind)
  BY Lengths DEF Kinds
<1>5. moves \in 0 .. MaxMoves /\ tests \in 0 .. MaxTests
  OBVIOUS
<1>6. clean \in BOOLEAN
  OBVIOUS
<1>7. slot \in Slots \cup {NoSlot} /\ seen \in Slots \cup {NoSlot}
  OBVIOUS
<1>. QED  BY <1>1, <1>2, <1>3, <1>4, <1>5, <1>6, <1>7 DEF TypeOK

(* The steps of the backend, and a new test. *)
LEMMA OtherTypes ==
  ASSUME TypeOK, Backend \/ \E k \in Kinds, w \in Values : Begin(k, w)
  PROVE  TypeOK'
<1>. USE DEF TypeOK
<1>1. CASE \E k \in Kinds, w \in Values : Begin(k, w)
  <2>1. PICK k \in Kinds, w \in Values : Begin(k, w)
    BY <1>1
  <2>2. kind' \in Kinds /\ at' \in 0 .. Last(kind')
    BY <2>1, Lengths DEF Begin
  <2>3. tests' \in 0 .. MaxTests
    BY <2>1, RoundTripAssumption DEF Begin
  <2>4. {bin', file', dumped'} \subseteq Images
    BY <2>1, ImageTypes DEF Begin
  <2>5. clean' \in BOOLEAN
    BY <2>1 DEF Begin
  <2>. QED  BY <2>1, <2>2, <2>3, <2>4, <2>5 DEF Begin, backendVars
<1>2. CASE Backend
  <2>. USE <1>2 DEF Backend, dataVars, testVars
  <2>1. CASE Store
    BY <2>1 DEF Store
  <2>2. CASE Sync
    <3>1. mem[116].value \in Values \cup {Zero}
      BY DEF Ids, Rows
    <3>2. mcu' \in [Slots -> Values \cup {Zero}]
      BY <2>2, <3>1 DEF Sync
    <3>. QED  BY <2>2, <3>2 DEF Sync
  <2>3. CASE \E s \in Slots \cup {NoSlot} : Move(s)
    <3>1. moves' \in 0 .. MaxMoves /\ slot' \in Slots \cup {NoSlot}
      BY <2>3, RoundTripAssumption DEF Move
    <3>. QED  BY <2>3, <3>1 DEF Move
  <2>4. CASE Ready
    BY <2>4 DEF Ready
  <2>. QED  BY <2>1, <2>2, <2>3, <2>4
<1>. QED  BY <1>1, <1>2

(* The steps of a test. *)
LEMMA TestTypes ==
  ASSUME TypeOK, TestStep
  PROVE  TypeOK'
<1>. USE DEF TypeOK, dataVars, backendVars
<1>1. at # 0 /\ kind' = kind
  BY DEF TestStep, Answered, Updating, Lost, GetSlot, Read, Reread, Query, Dump,
         DumpFails, Download, Compare, Kill, Start, WaitUntilReady, Fails, Doing
<1>2. CASE \E ok \in BOOLEAN : Answered(ok)
  <2>1. PICK ok \in BOOLEAN : Answered(ok)
    BY <1>2
  <2>2. at' \in 0 .. Last(kind') /\ verdict' \in Verdicts
    BY <1>1, <2>1, ControlTypes DEF Answered
  <2>3. mem' \in [Ids -> Rows]
    BY <2>1, UpdatedTypes DEF Answered
  <2>4. clean' \in BOOLEAN
    BY <2>1 DEF Answered
  <2>. QED  BY <2>1, <2>2, <2>3, <2>4 DEF Answered, Verdicts
<1>3. CASE Lost
  <2>1. at' \in 0 .. Last(kind') /\ verdict' \in Verdicts
    BY <1>1, <1>3, ControlTypes DEF Lost
  <2>2. mem' \in [Ids -> Rows]
    BY <1>3, UpdatedTypes DEF Lost
  <2>3. clean' \in BOOLEAN
    BY <1>3 DEF Lost
  <2>. QED  BY <1>3, <2>1, <2>2, <2>3 DEF Lost, Verdicts
<1>4. CASE GetSlot
  <2>1. at' \in 0 .. Last(kind') /\ verdict' \in Verdicts
    BY <1>1, <1>4, ControlTypes DEF GetSlot
  <2>. QED  BY <1>4, <2>1 DEF GetSlot, Verdicts
<1>5. CASE Read
  <2>1. at' \in 0 .. Last(kind') /\ verdict' \in Verdicts
    BY <1>1, <1>5, ControlTypes DEF Read
  <2>2. before' \in Values \cup {Zero}
    BY <1>5, Lengths DEF Read, Rows
  <2>. QED  BY <1>5, <2>1, <2>2 DEF Read, Verdicts
<1>6. CASE Reread \/ Compare
  <2>1. at' \in 0 .. Last(kind') /\ verdict' \in Verdicts
    BY <1>1, <1>6, ControlTypes DEF Reread, Compare
  <2>. QED  BY <1>6, <2>1 DEF Reread, Compare, Verdicts
<1>7. CASE Query \/ WaitUntilReady \/ Fails
  <2>1. Go \/ \E v \in {"fail", "error", "skip"} : Raise(v)
    BY <1>7 DEF Query, WaitUntilReady, Fails
  <2>2. at' \in 0 .. Last(kind') /\ verdict' \in Verdicts
    BY <1>1, <2>1, ControlTypes
  <2>. QED  BY <1>7, <2>2 DEF Query, WaitUntilReady, Fails, Verdicts
<1>8. CASE Dump \/ DumpFails
  <2>1. at' \in 0 .. Last(kind') /\ verdict' \in Verdicts
    BY <1>1, <1>8, ControlTypes DEF Dump, DumpFails
  <2>2. bin' \in Images /\ dumped' \in Images
    BY <1>8, ImageTypes DEF Dump, DumpFails, WriteImage
  <2>. QED  BY <1>8, <2>1, <2>2 DEF Dump, DumpFails, WriteImage, Verdicts
<1>9. CASE Download
  <2>1. at' \in 0 .. Last(kind') /\ verdict' \in Verdicts
    BY <1>1, <1>9, ControlTypes DEF Download
  <2>. QED  BY <1>9, <2>1 DEF Download, Verdicts
<1>10. CASE Kill \/ Start
  <2>1. at' \in 0 .. Last(kind') /\ verdict' \in Verdicts
    BY <1>1, <1>10, ControlTypes DEF Kill, Start
  <2>2. up' \in {"up", "starting", "down"} /\ clean' \in BOOLEAN
    BY <1>10 DEF Kill, Start
  <2>. QED  BY <1>10, <2>1, <2>2 DEF Kill, Start, Verdicts
<1>. QED
  BY <1>2, <1>3, <1>4, <1>5, <1>6, <1>7, <1>8, <1>9, <1>10 DEF TestStep

(* The types are inductive. *)
LEMMA StepTypeOK == TypeOK /\ [Next]_vars => TypeOK'
<1>1. TypeOK /\ UNCHANGED vars => TypeOK'
  BY DEF TypeOK, vars, backendVars, dataVars, testVars
<1>2. TypeOK /\ Killed => TypeOK'
  BY Lengths DEF TypeOK, Killed, backendVars, dataVars
<1>. QED  BY <1>1, <1>2, OtherTypes, TestTypes DEF Next, Finished

-----------------------------------------------------------------------------
(* What a pass rests on, and what a test leaves.                           *)

(* Nothing holds of a test before the first begins. *)
LEMMA InitIInv == Init => IInv
  BY InitTypeOK DEF Init, IInv, Running, ImageInv, Undisturbed, ColdInv, TidyInv

(* A new test. *)
LEMMA BeginIInv ==
  ASSUME IInv, NEW k \in Kinds, NEW w \in Values, Begin(k, w)
  PROVE  Running' /\ ImageInv' /\ ColdInv' /\ TidyInv'
  BY DEF Begin, IInv, Running, ImageInv, Undisturbed, DumpAt, ColdInv, TidyInv

(* The backend changes what it serves only when it gets ready. *)
LEMMA BackendIInv ==
  ASSUME IInv, Backend
  PROVE  Running' /\ ImageInv' /\ ColdInv' /\ TidyInv'
<1>. USE DEF Backend, dataVars, testVars, IInv
<1>1. Running' /\ ImageInv'
  BY DEF Running, ImageInv, McuKind, Undisturbed, DumpAt, OfDump, Held
<1>2. \/ up' = up /\ mem' = mem /\ (db' = db \/ (up = "up" /\ db' = mem))
      \/ up = "starting" /\ up' = "up" /\ mem' = db /\ db' = db
  BY DEF Store, Sync, Move, Ready
<1>3. ColdInv'
  BY <1>2 DEF ColdInv
<1>4. TidyInv'
  BY <1>2 DEF TidyInv, Active
<1>. QED  BY <1>1, <1>3, <1>4

(* A test that ends with a verdict has not passed, unless it went on from  *)
(* its last step.                                                          *)
LEMMA ControlRunning ==
  ASSUME TypeOK, Running, at # 0, kind' = kind,
         Go \/ \E v \in {"fail", "error", "skip"} : Raise(v)
  PROVE  /\ Running'
         /\ Undisturbed' => Go /\ Undisturbed /\ at' = at + 1
         /\ at' = 0 /\ verdict' = "pass" => Go /\ Undisturbed /\ at = Last(kind)
<1>1. Last(kind) \in 4 .. 8 /\ at \in 1 .. Last(kind)
  BY Lengths DEF TypeOK
<1>. QED  BY <1>1 DEF Go, Raise, Running, Undisturbed

(* What a test changes of the backend, and how it goes on. *)
LEMMA TestControl ==
  ASSUME TypeOK, TestStep
  PROVE  /\ at # 0 /\ kind' = kind /\ want' = want /\ db' = db
         /\ at \in 1 .. Last(kind)
         /\ Go \/ \E v \in {"fail", "error", "skip"} : Raise(v)
         /\ Updating \/ mem' = mem
         /\ clean' => clean
         /\ kind # "power" => up' = up
<1>1. /\ at # 0 /\ kind' = kind /\ want' = want /\ db' = db
      /\ Go \/ \E v \in {"fail", "error", "skip"} : Raise(v)
      /\ Updating \/ mem' = mem
  BY DEF TestStep, Answered, Updating, Lost, GetSlot, Read, Reread, Query, Dump,
         DumpFails, Download, Compare, Kill, Start, WaitUntilReady, Fails, Doing,
         dataVars, backendVars
<1>5. clean' => clean
  <2>1. CASE (\E ok \in BOOLEAN : Answered(ok)) \/ Lost \/ Kill
    BY <2>1 DEF Answered, Lost, Kill
  <2>2. CASE ~((\E ok \in BOOLEAN : Answered(ok)) \/ Lost \/ Kill)
    BY <2>2 DEF TestStep, GetSlot, Read, Reread, Query, Dump, DumpFails, Download,
                Compare, Start, WaitUntilReady, Fails
  <2>. QED  BY <2>1, <2>2
<1>2. at \in 1 .. Last(kind)
  BY <1>1, Lengths DEF TypeOK
<1>3. up' = up \/ Kill \/ Start
  BY DEF TestStep, Answered, Lost, GetSlot, Read, Reread, Query, Dump, DumpFails,
         Download, Compare, WaitUntilReady, Fails, backendVars
<1>4. Kill \/ Start => kind = "power"
  BY <1>2, Places DEF Kill, Start, Doing, TypeOK
<1>. QED  BY <1>1, <1>2, <1>3, <1>4, <1>5

(* The power-loss test. *)
LEMMA TestCold ==
  ASSUME IInv, TestStep
  PROVE  ColdInv'
<1>. SUFFICES ASSUME kind = "power", clean'
              PROVE  ColdInv'
  BY TestControl DEF IInv, ColdInv
<1>0. clean
  BY TestControl DEF IInv
<1>1. /\ at \in 1 .. 6 /\ Last(kind) = 6 /\ Try(kind) = 6 /\ kind' = kind /\ db' = db
      /\ Go \/ \E v \in {"fail", "error", "skip"} : Raise(v)
  BY TestControl, Lengths DEF IInv, TypeOK
<1>2. at' = at + 1 \/ (at' = 0 /\ verdict' # "pass") \/ (at' = 0 /\ at = 6)
  BY <1>1 DEF Go, Raise, Trying
<1>3. ~Updating \/ at = 1
  BY <1>1, Places DEF Updating, Doing, IInv, TypeOK
<1>4. CASE at = 1
  BY <1>1, <1>2, <1>4 DEF ColdInv
<1>5. CASE at # 1
  <2>1. mem' = mem
    BY <1>3, <1>5, TestControl DEF IInv
  <2>2. CASE Kill \/ Start
    <3>1. (Kill => at = 3) /\ (Start => at = 4)
      <4>1. (Kill => Doing("kill")) /\ (Start => Doing("start"))
        BY DEF Kill, Start
      <4>. QED  BY <1>1, <4>1, Places DEF Doing, IInv, TypeOK
    <3>2. up' = "up" => Start /\ up = "up"
      BY <2>2 DEF Kill, Start
    <3>. QED  BY <1>0, <1>1, <1>2, <2>1, <2>2, <3>1, <3>2 DEF ColdInv, IInv
  <2>3. CASE Reread
    <3>1. at = 6 /\ up' = up /\ up = "up" /\ before' = before
      BY <1>1, <2>3, Places DEF Reread, Doing, IInv, TypeOK, backendVars, dataVars
    <3>2. mem[126].value = before \/ verdict' # "pass"
      BY <1>1, <2>3, Lengths DEF Reread, Raise, IInv, TypeOK
    <3>. QED  BY <1>0, <1>1, <1>2, <2>1, <3>1, <3>2 DEF ColdInv, IInv
  <2>4. CASE ~(Kill \/ Start \/ Reread)
    <3>1. up' = up
      BY <2>4 DEF TestStep, Answered, Lost, GetSlot, Read, Query, Dump, DumpFails,
                  Download, Compare, WaitUntilReady, Fails, backendVars
    <3>0. /\ Fails \/ Updating \/ \E t \in {"slot", "read", "query", "dump", "download",
                                          "compare", "ready"} : Doing(t)
          /\ Fails => \E v \in {"fail", "error", "skip"} : Raise(v)
      BY <2>4 DEF TestStep, Answered, Lost, GetSlot, Read, Query, Dump, DumpFails,
                  Download, Compare, WaitUntilReady, Fails
    <3>2. at \in {3, 6} => Fails
      BY <1>1, <1>3, <3>0, Places DEF Doing, IInv, TypeOK
    <3>3. at = 6 => verdict' # "pass"
      BY <3>2 DEF Fails, Raise
    <3>5. at = 3 => at' = 0
      BY <1>1, <3>0, <3>2 DEF Raise, Trying
    <3>6. before' = before \/ at = 2
      BY <1>1, <2>4, Places
      DEF TestStep, Answered, Lost, GetSlot, Read, Query, Dump, DumpFails, Download,
          Compare, WaitUntilReady, Fails, Doing, IInv, TypeOK, dataVars
    <3>. QED
      BY <1>0, <1>1, <1>2, <1>5, <2>1, <3>1, <3>3, <3>5, <3>6 DEF ColdInv, IInv
  <2>. QED  BY <2>2, <2>3, <2>4
<1>. QED  BY <1>4, <1>5

(* What a test leaves. *)
LEMMA TestTidy ==
  ASSUME IInv, TestStep
  PROVE  TidyInv'
<1>. SUFFICES ASSUME kind # "power", clean'
              PROVE  TidyInv'
  BY TestControl DEF IInv, TidyInv
<1>1. /\ at \in 1 .. Last(kind) /\ kind' = kind /\ up' = up /\ kind \in Kinds
      /\ Last(kind) \in 4 .. 8
      /\ Go \/ \E v \in {"fail", "error", "skip"} : Raise(v)
  BY TestControl, Lengths DEF IInv, TypeOK
<1>2. clean
  BY TestControl DEF IInv
<1>3. /\ Go => (at' = at + 1 /\ at < Last(kind)) \/ (at' = 0 /\ at = Last(kind))
      /\ ~Go => (at' = Last(kind) /\ Trying) \/ (at' = 0 /\ ~Trying)
  BY <1>1 DEF Go, Raise
<1>4. /\ Trying => at >= 2 /\ at < Last(kind) /\ kind # "clears"
      /\ kind \in {"db", "mcu", "both"} /\ at >= 2 /\ at < Last(kind) => Trying
      /\ kind = "auto" /\ at = 3 => Trying
      /\ kind \in {"db", "auto", "clears"} => Last(kind) = 4
  BY <1>1, Lengths DEF Trying
<1>5. CASE \E ok \in BOOLEAN : Answered(ok)
  <2>1. PICK ok \in BOOLEAN : Answered(ok)
    BY <1>5
  <2>2. up = "up" /\ up' = "up"
    BY <1>1, <2>1 DEF Answered
  <2>3. CASE Doing("activate")
    <3>1. at = 1 /\ kind \in {"db", "clears", "mcu", "both"}
      BY <1>1, <2>3, Places DEF Doing
    <3>2. at' = 2
      BY <1>1, <1>3, <2>1, <2>3, <3>1 DEF Answered, Asserted, Doing
    <3>. QED  BY <1>1, <2>2, <3>1, <3>2 DEF TidyInv
  <2>4. CASE Doing("save")
    <3>1. at = 2
      BY <1>1, <2>4, Places DEF Doing
    <3>2. CASE Go
      <4>1. at' = 3
        BY <1>1, <1>3, <3>1, <3>2
      <4>. QED  BY <1>1, <2>2, <4>1 DEF TidyInv
    <3>3. CASE ~Go
      <4>1. ~ok /\ kind # "clears" /\ mem' = mem
        BY <2>1, <3>3 DEF Answered, Asserted
      <4>2. at' = Last(kind) \/ (at' = 0 /\ kind = "auto")
        BY <1>1, <1>3, <1>4, <3>1, <3>3, <4>1 DEF Kinds
      <4>. QED
        BY <1>1, <1>2, <2>2, <3>1, <4>1, <4>2 DEF TidyInv, Active, IInv
    <3>. QED  BY <3>2, <3>3
  <2>5. CASE Doing("deactivate")
    <3>1. ok /\ mem' = Updated
      BY <2>1, <2>5 DEF Answered
    <3>2. ~Active'
      BY <1>1, <2>5, <3>1, UpdatedTypes DEF Active, Doing, IInv
    <3>. QED  BY <1>1, <2>2, <3>2 DEF TidyInv
  <2>. QED  BY <2>1, <2>3, <2>4, <2>5 DEF Answered, Updating
<1>6. CASE Lost
  <2>1. at' = Last(kind) /\ Trying
    BY <1>6 DEF Lost, Raise
  <2>2. up = "up"
    BY <1>1, <1>2, <1>4, <2>1 DEF TidyInv, IInv
  <2>. QED  BY <1>1, <1>4, <2>1, <2>2 DEF TidyInv
<1>7. CASE ~(Lost \/ \E ok \in BOOLEAN : Answered(ok))
  <2>1. \E s \in {"query", "slot", "dump", "download", "compare"} : Doing(s)
    <3>1. \E s \in {"query", "slot", "dump", "download", "compare", "read", "kill",
                    "start", "ready", "reread"} : Doing(s)
      BY <1>7 DEF TestStep, GetSlot, Read, Reread, Query, Dump, DumpFails, Download,
                  Compare, Kill, Start, WaitUntilReady, Fails
    <3>2. \A s \in {"read", "kill", "start", "ready", "reread"} : ~Doing(s)
      BY <1>1, Places DEF Doing
    <3>. QED  BY <3>1, <3>2
  <2>2. (at >= 3 /\ at < Last(kind)) \/ (kind = "clears" /\ at = 4)
    BY <1>1, <1>4, <2>1, Lengths, Places DEF Doing
  <2>3. kind = "clears" => at = 4
    BY <1>1, <2>1, Places DEF Doing
  <2>4. mem' = mem
    BY <1>7, TestControl
    DEF TestStep, GetSlot, Read, Reread, Query, Dump, DumpFails, Download, Compare,
        Kill, Start, WaitUntilReady, Fails, backendVars, IInv
  <2>5. up = "up"
    BY <1>1, <1>2, <2>2 DEF TidyInv, IInv
  <2>6. CASE kind = "clears"
    <3>1. at' = 0 /\ ~Active
      BY <1>2, <1>3, <1>4, <2>3, <2>6 DEF TidyInv, IInv
    <3>. QED  BY <1>1, <2>4, <2>5, <2>6, <3>1 DEF TidyInv, Active
  <2>7. CASE kind # "clears"
    <3>1. Trying
      BY <1>1, <1>4, <2>2, <2>7 DEF Kinds
    <3>2. at' >= 4
      BY <1>1, <1>3, <2>2, <2>7, <3>1
    <3>. QED  BY <1>1, <2>5, <2>7, <3>2 DEF TidyInv
  <2>. QED  BY <2>6, <2>7
<1>. QED  BY <1>5, <1>6, <1>7

(* The way of the image from the MCU to the comparison. *)
LEMMA TestImage ==
  ASSUME IInv, TestStep
  PROVE  Running' /\ ImageInv'
<1>1. /\ at \in 1 .. Last(kind) /\ kind' = kind /\ want' = want
      /\ Go \/ \E v \in {"fail", "error", "skip"} : Raise(v)
  BY TestControl DEF IInv
<1>2. /\ Running'
      /\ Undisturbed' => Go /\ Undisturbed /\ at' = at + 1
      /\ at' = 0 /\ verdict' = "pass" => Go /\ Undisturbed /\ at = Last(kind)
  BY <1>1, ControlRunning DEF IInv
<1>. SUFFICES ASSUME McuKind, Go, Undisturbed
              PROVE  ImageInv'
  BY <1>1, <1>2 DEF ImageInv, McuKind
<1>3. /\ kind \in Kinds /\ DumpAt' = DumpAt /\ DumpAt \in {4, 5}
      /\ Last(kind) = DumpAt + 3 /\ kind \in {"mcu", "both"}
  BY <1>1, Lengths DEF McuKind, DumpAt, IInv, TypeOK
<1>4. /\ Doing("slot") => at = 3
      /\ Doing("dump") => at = DumpAt
      /\ Doing("download") => at = DumpAt + 1
      /\ Doing("compare") => at = DumpAt + 2
      /\ Updating => at < 3 \/ at = Last(kind)
      /\ Doing("query") => at = 4 /\ DumpAt = 5
      /\ ~ \E s \in {"read", "kill", "start", "ready", "reread"} : Doing(s)
  BY <1>1, <1>3, Places DEF Doing, DumpAt, Updating
<1>5. at' = at + 1 \/ (at' = 0 /\ at = DumpAt + 3)
  BY <1>1, <1>3 DEF Go
<1>6. /\ at > 3 => seen \in Slots
      /\ at > DumpAt => OfDump(bin)
      /\ at > DumpAt + 1 => OfDump(file)
      /\ at > DumpAt + 2 => Held
  BY <1>3 DEF ImageInv, IInv
<1>7. CASE GetSlot
  <2>1. seen' \in Slots /\ at' = 4
    BY <1>1, <1>3, <1>4, <1>5, <1>7 DEF GetSlot, Go, Raise, IInv, TypeOK
  <2>. QED  BY <1>1, <1>3, <2>1 DEF ImageInv
<1>8. CASE Dump
  <2>1. at' = DumpAt + 1 /\ seen' = seen
    BY <1>3, <1>4, <1>5, <1>8 DEF Dump
  <2>2. OfDump(bin)'
    <3>1. PICK written \in SUBSET Slots : bin' = [s \in written |-> mcu[s]]
      BY <1>8 DEF Dump, WriteImage
    <3>2. dumped' = mcu /\ DOMAIN mcu = Slots
      BY <1>8 DEF Dump, WriteImage, IInv, TypeOK
    <3>. QED  BY <3>1, <3>2 DEF OfDump
  <2>. QED  BY <1>1, <1>3, <1>4, <1>6, <1>8, <2>1, <2>2 DEF ImageInv, Dump
<1>9. CASE Download
  <2>1. at' = DumpAt + 2 /\ seen' \in Slots /\ OfDump(bin)
    BY <1>3, <1>4, <1>5, <1>6, <1>9 DEF Download
  <2>2. OfDump(bin)' /\ OfDump(file)'
    BY <1>9, <2>1 DEF Download, OfDump
  <2>. QED  BY <1>1, <1>3, <1>6, <2>1, <2>2 DEF ImageInv
<1>10. CASE Compare
  <2>1. at = DumpAt + 2 /\ at' = DumpAt + 3 /\ OfDump(file) /\ OfDump(bin) /\ seen \in Slots
    BY <1>3, <1>4, <1>5, <1>6, <1>10 DEF Compare
  <2>2. Field(file, seen) = want
    BY <1>10, <1>3, <1>5, <2>1 DEF Compare, Raise, Undisturbed, Go
  <2>3. seen \in DOMAIN file /\ file[seen] = want
    BY <2>1, <2>2, RoundTripAssumption DEF Field, Padded, IInv, TypeOK
  <2>4. Held
    BY <2>1, <2>3 DEF Held, OfDump
  <2>. QED
    BY <1>1, <1>3, <1>10, <2>1, <2>4
    DEF ImageInv, Compare, dataVars, OfDump, Held
<1>11. CASE ~(GetSlot \/ Dump \/ Download \/ Compare)
  <2>1. UNCHANGED <<bin, dataVars>> \/ DumpFails
    BY <1>4, <1>11
    DEF TestStep, Answered, Lost, Read, Reread, Query, Kill, Start,
        WaitUntilReady, Fails
  <2>2. \/ Updating \/ Query
        \/ verdict' # "none" /\ verdict' # "pass"
    BY <1>4, <1>11
    DEF TestStep, Answered, Lost, Read, Reread, DumpFails, Kill, Start,
        WaitUntilReady, Fails, Raise
  <2>3. CASE verdict' # "none" /\ verdict' # "pass"
    BY <2>3 DEF ImageInv, Undisturbed
  <2>4. CASE Updating \/ Query
    <3>1. at < 3 \/ at = DumpAt + 3 \/ (at = 4 /\ DumpAt = 5)
      BY <1>3, <1>4, <2>4 DEF Query
    <3>2. UNCHANGED <<bin, dataVars>>
      BY <1>3, <1>4, <2>1, <3>1 DEF DumpFails
    <3>. QED
      BY <1>1, <1>3, <1>5, <1>6, <3>1, <3>2
      DEF ImageInv, dataVars, OfDump, Held, Undisturbed
  <2>. QED  BY <2>2, <2>3, <2>4
<1>. QED  BY <1>7, <1>8, <1>9, <1>10, <1>11

(* The invariant is inductive. *)
LEMMA StepIInv == IInv /\ [Next]_vars => IInv'
<1>. SUFFICES ASSUME IInv, [Next]_vars
              PROVE  IInv'
  OBVIOUS
<1>1. TypeOK'
  BY StepTypeOK DEF IInv
<1>2. CASE UNCHANGED vars
  BY <1>1, <1>2
  DEF vars, backendVars, dataVars, testVars, IInv, Running, ImageInv, McuKind,
      Undisturbed, DumpAt, OfDump, Held, ColdInv, TidyInv, Active
<1>3. CASE Next
  <2>1. CASE \E k \in Kinds, w \in Values : Begin(k, w)
    BY <1>1, <2>1, BeginIInv DEF IInv
  <2>2. CASE TestStep
    BY <1>1, <2>2, TestImage, TestCold, TestTidy DEF IInv
  <2>3. CASE Backend
    BY <1>1, <2>3, BackendIInv DEF IInv
  <2>4. CASE Killed
    BY <1>1, <2>4
    DEF Killed, backendVars, dataVars, IInv, Running, ImageInv, McuKind,
        Undisturbed, ColdInv, TidyInv
  <2>. QED  BY <1>2, <1>3, <2>1, <2>2, <2>3, <2>4 DEF Next, Finished
<1>. QED  BY <1>2, <1>3

(* Every variable keeps its type, and a test never leaves its steps, for   *)
(* any slots, values and number of tests.                                  *)
THEOREM TypeCorrect == Spec => []TypeOK
<1>1. Init => TypeOK
  BY InitTypeOK
<1>2. TypeOK /\ [Next]_vars => TypeOK'
  BY StepTypeOK
<1>. QED  BY <1>1, <1>2, PTL DEF Spec

(* A test that comes to its end, and whose deactivations were answered     *)
(* with success, leaves its specification inactive on every way out of it, *)
(* unless an answer was lost before the try block was entered: for any     *)
(* number of tests, also those that follow a killed run which left the     *)
(* specification active, or a power-loss test which left the backend down. *)
THEOREM TestsAreTidy == Spec => []Tidy
<1>1. Init => IInv
  BY InitIInv
<1>2. IInv /\ [Next]_vars => IInv'
  BY StepIInv
<1>3. IInv => Tidy
  BY DEF IInv, TidyInv, Active, Tidy
<1>. QED  BY <1>1, <1>2, <1>3, PTL DEF Spec

(* A pass of an MCU test rests on what the MCU held, in the slot the test  *)
(* was told, when this very test dumped it, for any number of slots and    *)
(* however short the image is cut.                                         *)
THEOREM PassesAreInMcu == Spec => []PassMeansInMcu
<1>1. Init => IInv
  BY InitIInv
<1>2. IInv /\ [Next]_vars => IInv'
  BY StepIInv
<1>3. IInv => PassMeansInMcu
  BY DEF IInv, ImageInv, McuKind, Held, PassMeansInMcu
<1>. QED  BY <1>1, <1>2, <1>3, PTL DEF Spec

(* A pass of the power-loss test means that the value read before the kill *)
(* is in the database, however late the backend stores, unless the kill    *)
(* failed without being noticed.                                           *)
THEOREM PassesAreStored == Spec => []PassMeansStored
<1>1. Init => IInv
  BY InitIInv
<1>2. IInv /\ [Next]_vars => IInv'
  BY StepIInv
<1>3. IInv => PassMeansStored
  BY DEF IInv, ColdInv, PassMeansStored
<1>. QED  BY <1>1, <1>2, <1>3, PTL DEF Spec
=============================================================================

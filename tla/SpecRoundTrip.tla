--------------------------- MODULE SpecRoundTrip ---------------------------
(***************************************************************************)
(* The tests that save a specification and look for it behind the          *)
(* backend's answers (spec128/test_screw_mcu_verify.py,                    *)
(* spec128/test_power_loss.py): in the database, by query_db; in the MCU,  *)
(* by an image that is dumped, downloaded and parsed by McuVerifier; and   *)
(* in what is served again after kill -9.                                  *)
(*                                                                         *)
(* A request and its answer are one step here (WSClient has them apart).   *)
(* Of a payload there remains one value: the field the test compares.      *)
(***************************************************************************)
EXTENDS Integers, Sequences

CONSTANTS
  Values,   \* what tests save and compare
  Slots,    \* slots of the MCU, 0 .. n - 1
  MaxTests, \* bound: tests
  MaxMoves  \* bound: changes of the slot table

Zero   == "zero" \* a field that was never written
NoSlot == -1

ASSUME RoundTripAssumption ==
  /\ Zero \notin Values /\ Slots \subseteq Nat
  /\ MaxTests \in Nat /\ MaxMoves \in Nat

Kinds == {"db", "auto", "clears", "mcu", "both", "power"}
Ids   == {115, 116, 126}

Id(k) == CASE k \in {"mcu", "both"} -> 116 [] k = "power" -> 126 [] OTHER -> 115

(* The steps of each kind of test. *)
Steps(k) ==
  CASE k = "db"     -> <<"activate", "save", "query", "deactivate">>
    [] k = "auto"   -> <<"deactivate", "save", "query", "deactivate">>
    [] k = "clears" -> <<"activate", "save", "deactivate", "query">>
    [] k = "mcu"    -> <<"activate", "save", "slot", "dump", "download", "compare",
                         "deactivate">>
    [] k = "both"   -> <<"activate", "save", "slot", "query", "dump", "download",
                         "compare", "deactivate">>
    [] k = "power"  -> <<"save", "read", "kill", "start", "ready", "reread">>

Last(k) == Len(Steps(k))

(* The first step inside the try block, whose finally is the last step.    *)
TryAfterSave(k) == CASE k \in {"db", "auto", "mcu", "both"} -> 3 [] OTHER -> Last(k)
Try(k) == CASE k \in {"db", "mcu", "both"} -> 2 [] k = "auto" -> 3 [] OTHER -> Last(k)

Rows   == [active : BOOLEAN, value : Values \cup {Zero}]
Images == UNION {[S -> Values \cup {Zero}] : S \in SUBSET Slots}

VARIABLES
  up,    \* the backend: up, starting, down
  mem,   \* the specifications it serves
  db,    \* those it has stored
  slot,  \* the slot of specification 116
  mcu,   \* what each slot of the MCU holds
  moves, \* changes of the slot table
  bin,   \* the image on the remote host, perhaps of an earlier test
  kind, want, \* the test and the value it saves
  at,    \* its step; 0: no test runs
  verdict, \* none, pass, fail, error, skip; killed: the run died in the test
  seen,  \* the slot it was told
  file,  \* the image it downloaded
  before, \* the value it was served before the kill
  clean, \* history: no deactivation failed, no update was lost before the try, and
         \* no kill failed without being noticed
  dumped, \* history: the MCU when this test dumped it
  tests

backendVars == <<up, mem, db, slot, mcu, moves>>
dataVars    == <<seen, file, before, dumped>>
testVars    == <<kind, want, at, verdict, clean, tests>>
vars == <<backendVars, bin, dataVars, testVars>>

Init ==
  /\ up = "up" /\ mem = [i \in Ids |-> [active |-> FALSE, value |-> Zero]] /\ db = mem
  /\ slot = NoSlot /\ mcu = [s \in Slots |-> Zero] /\ moves = 0
  /\ bin = <<>>
  /\ kind = "db" /\ want \in Values /\ at = 0 /\ verdict = "none"
  /\ seen = NoSlot /\ file = <<>> /\ before = Zero
  /\ clean = TRUE /\ dumped = <<>> /\ tests = 0

-----------------------------------------------------------------------------
(* The backend: it stores what it serves, and writes it to the MCU, some   *)
(* time later.                                                             *)

Store == up = "up" /\ db' = mem /\ UNCHANGED <<up, mem, slot, mcu, moves>>

Sync ==
  /\ up = "up" /\ slot # NoSlot /\ mem[116].active
  /\ mcu' = [mcu EXCEPT ![slot] = mem[116].value]
  /\ UNCHANGED <<up, mem, db, slot, moves>>

Move(s) ==
  /\ up = "up" /\ moves < MaxMoves
  /\ slot' = s /\ moves' = moves + 1
  /\ UNCHANGED <<up, mem, db, mcu>>

Ready == up = "starting" /\ up' = "up" /\ mem' = db /\ UNCHANGED <<db, slot, mcu, moves>>

Backend ==
  /\ Store \/ Sync \/ (\E s \in Slots \cup {NoSlot} : Move(s)) \/ Ready
  /\ UNCHANGED <<bin, dataVars, testVars>>

-----------------------------------------------------------------------------
(* How a test goes on.  (Faults a change of the code could introduce, here *)
(* and below, which no action uses: TryAfterSave, GoPastEnd,               *)
(* DumpUnchecked, KillForgotten, FailsBeforeReady.)                   *)

Begin(k, w) ==
  /\ at = 0 /\ tests < MaxTests
  /\ kind' = k /\ want' = w /\ at' = 1 /\ verdict' = "none"
  /\ seen' = NoSlot /\ file' = <<>> /\ before' = Zero
  /\ clean' = TRUE /\ dumped' = <<>> /\ tests' = tests + 1
  /\ UNCHANGED <<backendVars, bin>>

Doing(step) == at # 0 /\ Steps(kind)[at] = step

GoPastEnd == at' = at + 1 /\ UNCHANGED verdict
Go ==
  IF at = Last(kind)
    THEN at' = 0 /\ verdict' = IF verdict = "none" THEN "pass" ELSE verdict
    ELSE at' = at + 1 /\ UNCHANGED verdict

Trying == at \in Try(kind) .. Last(kind) - 1

(* An exception: out of the try block by way of its finally. *)
Raise(v) ==
  /\ at' = IF Trying THEN Last(kind) ELSE 0
  /\ verdict' = v

-----------------------------------------------------------------------------
(* Requests.                                                               *)

(* Updates: saving a specification activates it. *)
Updated ==
  LET r == mem[Id(kind)]
      s == Steps(kind)[at]
  IN [mem EXCEPT ![Id(kind)] =
        [active |-> s # "deactivate", value |-> IF s = "save" THEN want ELSE r.value]]

Updating == \E s \in {"activate", "deactivate", "save"} : Doing(s)

(* Only some tests assert that the save succeeded, none that an            *)
(* activation or a deactivation did.                                       *)
Asserted == Steps(kind)[at] = "save" /\ kind \notin {"clears", "power"}

Answered(ok) ==
  /\ Updating /\ up = "up"
  /\ mem' = IF ok THEN Updated ELSE mem
  /\ clean' = (clean /\ (ok \/ ~Doing("deactivate")))
  /\ IF ~ok /\ Asserted THEN Raise("fail") ELSE Go
  /\ UNCHANGED <<up, db, slot, mcu, moves, bin, dataVars, kind, want, tests>>

(* The request or its answer is lost: TimeoutError. *)
Lost ==
  /\ Updating
  /\ mem' = mem \/ (up = "up" /\ mem' = Updated)
  /\ clean' = (clean /\ Trying)
  /\ Raise("error")
  /\ UNCHANGED <<up, db, slot, mcu, moves, bin, dataVars, kind, want, tests>>

(* _get_slot_for_spec: no slot, or no answer in time, skips the test; a    *)
(* connection that is closed is an error.                                  *)
GetSlot ==
  /\ Doing("slot")
  /\ \/ /\ up = "up" /\ seen' = slot
        /\ IF slot = NoSlot THEN Raise("skip") ELSE Go
     \/ seen' = NoSlot /\ \E v \in {"skip", "error"} : Raise(v)
  /\ UNCHANGED <<backendVars, bin, file, before, dumped, kind, want, clean, tests>>

(* get_screw_param, before the kill and after it. *)
Read ==
  /\ Doing("read") /\ up = "up"
  /\ before' = mem[Id(kind)].value
  /\ IF before' = Zero THEN Raise("error") ELSE Go
  /\ UNCHANGED <<backendVars, bin, seen, file, dumped, kind, want, clean, tests>>

Reread ==
  /\ Doing("reread") /\ up = "up"
  /\ IF mem[Id(kind)].value = before THEN Go ELSE Raise("fail")
  /\ UNCHANGED <<backendVars, bin, dataVars, kind, want, clean, tests>>

-----------------------------------------------------------------------------
(* RemoteBackend.                                                          *)

(* What a test asserts of the row it reads. *)
RowAsserted(row) ==
  CASE kind = "db"     -> row.value = want
    [] kind = "auto"   -> row.active
    [] kind = "clears" -> ~row.active
    [] OTHER           -> row.active /\ row.value = want

(* query_db reads the stored row, which may be missing until it is saved.  *)
Query ==
  /\ Doing("query")
  /\ LET row == db[Id(kind)]
     IN \/ RowAsserted(row) /\ Go
        \/ ~RowAsserted(row) /\ Raise("fail")
        \/ row.value = Zero /\ Raise("fail")
  /\ UNCHANGED <<backendVars, bin, dataVars, kind, want, clean, tests>>

(* dump_mcu_to_bin: the script writes the image, or only the beginning.    *)
WriteImage ==
  /\ \E written \in SUBSET Slots :
       /\ \A s \in written, r \in Slots : r < s => r \in written
       /\ bin' = [s \in written |-> mcu[s]]
  /\ dumped' = mcu

DumpUnchecked ==
  /\ Doing("dump") /\ Go
  /\ WriteImage \/ UNCHANGED <<bin, dumped>>
  /\ UNCHANGED <<backendVars, seen, file, before, kind, want, clean, tests>>

Dump ==
  /\ Doing("dump") /\ Go
  /\ WriteImage
  /\ UNCHANGED <<backendVars, seen, file, before, kind, want, clean, tests>>

(* An exit code other than 0: the image is written, in part, or not. *)
DumpFails ==
  /\ Doing("dump") /\ Raise("error")
  /\ WriteImage \/ UNCHANGED <<bin, dumped>>
  /\ UNCHANGED <<backendVars, seen, file, before, kind, want, clean, tests>>

Download ==
  /\ Doing("download")
  /\ file' = bin
  /\ Go
  /\ UNCHANGED <<backendVars, bin, seen, before, dumped, kind, want, clean, tests>>

KillForgotten == Doing("kill") /\ Go /\ UNCHANGED <<backendVars, bin, dataVars, kind, want, clean, tests>>
(* kill -9.  The exit code of systemctl is not looked at: the process may  *)
(* survive, and the test goes on.                                          *)
Kill ==
  /\ Doing("kill") /\ Go
  /\ \/ up' = "down" /\ UNCHANGED clean
     \/ clean' = FALSE /\ UNCHANGED up
  /\ UNCHANGED <<mem, db, slot, mcu, moves, bin, dataVars, kind, want, tests>>

(* systemctl start, which may fail without being noticed too. *)
Start ==
  /\ Doing("start") /\ Go
  /\ up' = up \/ (up = "down" /\ up' = "starting")
  /\ UNCHANGED <<mem, db, slot, mcu, moves, bin, dataVars, kind, want, clean, tests>>

WaitUntilReady ==
  /\ Doing("ready") /\ up = "up" /\ Go
  /\ UNCHANGED <<backendVars, bin, dataVars, kind, want, clean, tests>>

(* An SSH error, the deadline of wait_until_ready, or a request without an *)
(* answer: exceptions, which take the way of the finally.                  *)
FailsBeforeReady ==
  /\ \E s \in {"query", "download", "kill", "start", "read", "reread"} : Doing(s)
  /\ Raise("error")
  /\ UNCHANGED <<backendVars, bin, dataVars, kind, want, clean, tests>>
Fails ==
  /\ \E s \in {"query", "download", "kill", "start", "ready", "read", "reread"} : Doing(s)
  /\ Raise("error")
  /\ UNCHANGED <<backendVars, bin, dataVars, kind, want, clean, tests>>

-----------------------------------------------------------------------------
(* McuVerifier.                                                            *)

(* The constructor fills up an image that is too short with zeros. *)
Padded(image) == [s \in Slots |-> IF s \in DOMAIN image THEN image[s] ELSE Zero]

(* get_screw, get_prog and the getters: the field of a slot. *)
Field(image, s) == Padded(image)[s]

Compare ==
  /\ Doing("compare")
  /\ IF Field(file, seen) = want THEN Go ELSE Raise("fail")
  /\ UNCHANGED <<backendVars, bin, dataVars, kind, want, clean, tests>>

-----------------------------------------------------------------------------

TestStep ==
  \/ \E ok \in BOOLEAN : Answered(ok)
  \/ Lost \/ GetSlot \/ Read \/ Reread
  \/ Query \/ Dump \/ DumpFails \/ Download \/ Compare
  \/ Kill \/ Start \/ WaitUntilReady \/ Fails

(* The run is killed: by the timeout of pytest.ini, which ends the process *)
(* of a test whose command hangs, or by hand.  No finally is entered.      *)
Killed ==
  /\ at # 0
  /\ at' = 0 /\ verdict' = "killed"
  /\ UNCHANGED <<backendVars, bin, dataVars, kind, want, clean, tests>>

Finished == at = 0 /\ tests = MaxTests /\ UNCHANGED vars

Next ==
  \/ \E k \in Kinds, w \in Values : Begin(k, w)
  \/ TestStep \/ Killed
  \/ Backend
  \/ Finished

Spec == Init /\ [][Next]_vars

(* pytest goes on with the test: requests and waits have timeouts, and a   *)
(* command returns or raises.  One that hangs ends with the run, by the    *)
(* timeout of pytest.ini (Killed), and the test with it.                   *)
FairSpec == Spec /\ WF_vars(TestStep)

-----------------------------------------------------------------------------

(* Every variable has its type. *)
TypeOK ==
  /\ up \in {"up", "starting", "down"}
  /\ mem \in [Ids -> Rows] /\ db \in [Ids -> Rows]
  /\ slot \in Slots \cup {NoSlot} /\ moves \in 0 .. MaxMoves
  /\ mcu \in [Slots -> Values \cup {Zero}] /\ {bin, file, dumped} \subseteq Images
  /\ kind \in Kinds /\ want \in Values /\ at \in 0 .. Last(kind)
  /\ verdict \in {"none", "pass", "fail", "error", "skip", "killed"}
  /\ seen \in Slots \cup {NoSlot} /\ before \in Values \cup {Zero}
  /\ clean \in BOOLEAN /\ tests \in 0 .. MaxTests

(* A test of test_screw_mcu_verify.py that comes to its end leaves its     *)
(* specification inactive, unless a deactivation failed or the answer that *)
(* should have led into the try block was lost: no refused save, lost      *)
(* answer, failed assertion, SSH error or skip takes a way around the      *)
(* clean-up, and what a killed run left active does not stay so either.    *)
Tidy ==
  at = 0 /\ verdict \notin {"none", "killed"} /\ clean /\ kind # "power" =>
    ~mem[Id(kind)].active

(* A pass of an MCU test was read off this test's dump, where the slot it  *)
(* was told held the value it saved: never off the zeros that fill up a    *)
(* short image, nor off an image an earlier test left on the remote host.  *)
PassMeansInMcu ==
  at = 0 /\ verdict = "pass" /\ kind \in {"mcu", "both"} =>
    seen \in DOMAIN dumped /\ dumped[seen] = want

(* When the power-loss test passes and its kill did not fail, the value    *)
(* that was served before the kill is in the database: whenever the        *)
(* backend stores, what was in its memory only does not pass.  (It may be  *)
(* older than the test: the save is not asserted, and the value it saves   *)
(* is the same in every run.)                                              *)
PassMeansStored ==
  at = 0 /\ verdict = "pass" /\ kind = "power" /\ clean => db[126].value = before

(* Every test ends, whatever the backend answers or does not, and whatever *)
(* command fails, noticed or not.                                          *)
TestsEnd == at # 0 ~> at = 0
=============================================================================

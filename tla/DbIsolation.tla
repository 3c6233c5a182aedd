---------------------------- MODULE DbIsolation ----------------------------
(***************************************************************************)
(* Tests that take a snapshot of the backend's database and put it back    *)
(* (lib/db_isolation.py over lib/ssh_utils.py, fixtures in conftest.py).   *)
(*                                                                         *)
(* One test runs at a time.  A plain test uses the fixture ws alone; an    *)
(* isolated test uses ws and db_isolation.  The backend acknowledges a     *)
(* write before its writer thread has stored it, and is started and        *)
(* stopped by systemctl, which waits for it to stop but not for it to      *)
(* accept connections.  The tests look at the exit code of none of the     *)
(* commands below: each may fail without being noticed.                    *)
(***************************************************************************)
EXTENDS Naturals

CONSTANTS
  CommandsFail, \* TRUE: systemctl, cp and rm may fail; nobody looks at the exit code
  SshFails,  \* TRUE: an SSH command may raise
  RunDies,   \* TRUE: the test run may be killed; the next one starts afresh
  MaxWrites, \* bound: writes of all tests
  MaxTests   \* bound: tests

ASSUME ConstantsAssumption ==
  /\ {CommandsFail, SshFails, RunDies} \subseteq BOOLEAN
  /\ MaxWrites \in Nat /\ MaxTests \in Nat

(* The contents of a database file: 0 when the first test starts, then the *)
(* number of the last write; no file; what the backend creates without it; *)
(* what a cp leaves that failed on its way.                                *)
Absent   == MaxWrites + 1
Fresh    == MaxWrites + 2
Torn     == MaxWrites + 3
Contents == 0 .. MaxWrites + 3

(* The commands of a test, named for the step that gives them. *)
Commands == {"snapshot", "restart", "kill", "clean", "remove", "launch",
             "stop", "restore", "start"}

VARIABLES
  db,       \* the file DB_PATH
  backup,   \* the file BACKUP_PATH
  unsaved,  \* an acknowledged write the backend has not stored, or Absent
  backend,  \* up, starting or down
  pc,       \* where the test is
  isolated, \* it uses db_isolation
  snap,     \* history: db at the snapshot
  restored, \* history: a restore returned normally, nothing happened since
  refused,  \* history: a test could not connect after such a restore
  aborted,  \* history: since the last test connected, an SSH command raised or
            \* the run died
  missed,   \* history: the commands that failed unnoticed since then
  writes, tests

vars == <<db, backup, unsaved, backend, pc, isolated, snap, restored, refused,
          aborted, missed, writes, tests>>
files   == <<db, backup, unsaved>>
history == <<snap, restored, refused, aborted>> \* but for missed
counters == <<writes, tests>>

Init ==
  /\ db = 0 /\ backup = Absent /\ unsaved = Absent
  /\ backend = "up"
  /\ pc = "idle" /\ isolated = FALSE
  /\ snap = 0 /\ restored = FALSE /\ refused = FALSE /\ aborted = FALSE
  /\ missed = {}
  /\ writes = 0 /\ tests = 0

-----------------------------------------------------------------------------
(* The backend and its host.                                               *)

(* The file after the backend has stored what it acknowledged.  If it was  *)
(* removed beneath a running backend, the write may go to the lost file.   *)
Stored ==
  IF unsaved = Absent THEN {db}
                      ELSE {unsaved} \cup ({db} \cap {Absent})

Store ==
  /\ backend = "up" /\ unsaved # Absent
  /\ db' \in Stored /\ unsaved' = Absent
  /\ UNCHANGED <<backup, backend, pc, isolated, history, missed, counters>>

(* A backend that has been started creates a missing database and then     *)
(* accepts connections.                                                    *)
Ready ==
  /\ backend = "starting"
  /\ backend' = "up"
  /\ db' = IF db = Absent THEN Fresh ELSE db
  /\ UNCHANGED <<backup, unsaved, pc, isolated, history, missed, counters>>

-----------------------------------------------------------------------------
(* RemoteBackend: what a command of the step named does, or does not do.   *)

Unnoticed(step) == missed' = missed \cup {step}

(* A backend that is stopped in order stores what it has acknowledged. *)
Stops ==
  /\ db' \in (IF backend = "up" THEN Stored ELSE {db})
  /\ unsaved' = Absent

StopBackend(step) ==
  \/ Stops /\ backend' = "down" /\ UNCHANGED missed
  \/ CommandsFail /\ Unnoticed(step) /\ UNCHANGED <<db, unsaved, backend>>

Launched == IF backend = "down" THEN "starting" ELSE backend

(* systemctl start fails, say, of a service that was started too often. *)
StartBackend(step) ==
  \/ backend' = Launched /\ UNCHANGED missed
  \/ CommandsFail /\ Unnoticed(step) /\ UNCHANGED backend

(* systemctl restart fails before the stop or after it. *)
RestartBackend(step) ==
  \/ Stops /\ backend' = "starting" /\ UNCHANGED missed
  \/ CommandsFail /\ Unnoticed(step) /\ UNCHANGED <<db, unsaved, backend>>
  \/ CommandsFail /\ Unnoticed(step) /\ Stops /\ backend' = "down"

(* kill -9 loses what was not stored. *)
KillBackend(step) ==
  \/ unsaved' = Absent /\ backend' = "down" /\ UNCHANGED missed
  \/ CommandsFail /\ Unnoticed(step) /\ UNCHANGED <<unsaved, backend>>

(* cp from to: it fails without a file to copy. *)
Copy(from, to, step) ==
  \/ from # Absent /\ to' = from /\ UNCHANGED missed
  \/ from = Absent /\ UNCHANGED to /\ Unnoticed(step)
  \/ CommandsFail /\ to' \in {to, Torn} /\ Unnoticed(step)

-----------------------------------------------------------------------------
(* A test: the fixtures set up, the body, the fixtures torn down.          *)

Goto(l) == pc' = l

(* The fixture ws connects: a refused connection is an error of the test. *)
Setup(iso) ==
  /\ pc = "idle" /\ tests < MaxTests
  /\ tests' = tests + 1
  /\ \/ /\ backend = "up"
        /\ Goto(IF iso THEN "snapshot" ELSE "body")
        /\ isolated' = iso /\ aborted' = FALSE /\ missed' = {}
        /\ UNCHANGED refused
     \/ /\ backend # "up"
        /\ refused' = (refused \/ restored)
        /\ UNCHANGED <<pc, isolated, aborted, missed>>
  /\ restored' = FALSE
  /\ UNCHANGED <<files, backend, snap, writes>>

(* cp of the file of a running backend. *)
Snapshot ==
  /\ pc = "snapshot"
  /\ Copy(db, backup, "snapshot")
  /\ snap' = db
  /\ Goto("body")
  /\ UNCHANGED <<db, unsaved, backend, isolated, restored, refused, aborted, counters>>

Write ==
  /\ pc = "body" /\ backend = "up" /\ unsaved = Absent /\ writes < MaxWrites
  /\ writes' = writes + 1
  /\ unsaved' = writes + 1
  /\ UNCHANGED <<db, backup, backend, pc, isolated, history, missed, tests>>

(* test_persistence: restart_backend, then wait_until_ready. *)
Restart ==
  /\ pc = "body" /\ isolated
  /\ RestartBackend("restart")
  /\ Goto("wait")
  /\ UNCHANGED <<backup, isolated, history, counters>>

(* Faults a change of the code could introduce, here and below: no action  *)
(* uses them.                                                              *)
KillAndWait ==
  /\ pc = "body" /\ ~isolated
  /\ KillBackend("kill")
  /\ Goto("wait")
  /\ UNCHANGED <<db, backup, isolated, history, counters>>

(* test_power_loss, which takes no snapshot; start_backend follows.        *)
Kill ==
  /\ pc = "body" /\ ~isolated
  /\ KillBackend("kill")
  /\ Goto("launch")
  /\ UNCHANGED <<db, backup, isolated, history, counters>>

Launch ==
  /\ pc = "launch"
  /\ StartBackend("launch")
  /\ Goto("wait")
  /\ UNCHANGED <<files, isolated, history, counters>>

(* use_clean_db stops the backend, removes the file and starts it again. *)
CleanStop ==
  /\ pc = "body" /\ isolated
  /\ StopBackend("clean")
  /\ Goto("remove")
  /\ UNCHANGED <<backup, isolated, history, counters>>

Remove ==
  /\ pc = "remove"
  /\ \/ db' = Absent /\ UNCHANGED missed
     \/ CommandsFail /\ Unnoticed("remove") /\ UNCHANGED db
  /\ Goto("launch")
  /\ UNCHANGED <<backup, unsaved, backend, isolated, history, counters>>

(* wait_until_ready returns; when it times out the test fails. *)
WaitUntilReady ==
  /\ pc = "wait" /\ backend = "up"
  /\ Goto("body")
  /\ UNCHANGED <<files, backend, isolated, history, missed, counters>>

TearDownAlways == Goto("stop")

TearDown == Goto(IF isolated THEN "stop" ELSE "idle")

(* The body ends, or an assertion or wait_until_ready raises. *)
EndBody ==
  /\ pc \in {"body", "wait"}
  /\ TearDown
  /\ UNCHANGED <<files, backend, isolated, history, missed, counters>>

StopForgotten ==
  /\ pc = "stop"
  /\ Goto("restore")
  /\ UNCHANGED <<files, backend, isolated, history, missed, counters>>

(* restore: stop_backend, restore_database, start_backend. *)
Stop ==
  /\ pc = "stop"
  /\ StopBackend("stop")
  /\ Goto("restore")
  /\ UNCHANGED <<backup, isolated, history, counters>>

Restore ==
  /\ pc = "restore"
  /\ Copy(backup, db, "restore")
  /\ Goto("start")
  /\ UNCHANGED <<backup, unsaved, backend, isolated, history, counters>>

StartForgotten ==
  /\ pc = "start"
  /\ restored' = TRUE
  /\ Goto("idle")
  /\ UNCHANGED <<files, backend, isolated, snap, refused, aborted, missed, counters>>

(* start_backend returns, and restore with it. *)
Start ==
  /\ pc = "start"
  /\ StartBackend("start")
  /\ restored' = TRUE
  /\ Goto("idle")
  /\ UNCHANGED <<files, isolated, snap, refused, aborted, counters>>

(* An SSH command raises: in the snapshot it is an error of the set-up,    *)
(* which is not torn down; in the body it fails the test; in restore the   *)
(* steps that were left are not made.                                      *)
SshError ==
  /\ SshFails
  /\ \/ pc \in {"launch", "remove"} /\ TearDown
     \/ pc \in {"snapshot", "stop", "restore", "start"} /\ Goto("idle")
  /\ aborted' = TRUE
  /\ UNCHANGED <<files, backend, isolated, snap, restored, refused, missed, counters>>

(* The run is killed, by pytest-timeout or by hand: nothing is torn down. *)
Die ==
  /\ RunDies /\ pc # "idle"
  /\ Goto("idle")
  /\ aborted' = TRUE
  /\ UNCHANGED <<files, backend, isolated, snap, restored, refused, missed, counters>>

BodyStep == Write \/ Restart \/ Kill \/ CleanStop

(* What the test runner goes on to by itself. *)
RunnerStep ==
  \/ Snapshot \/ Launch \/ Remove \/ EndBody
  \/ Stop \/ Restore \/ Start

Finished == pc = "idle" /\ tests = MaxTests /\ UNCHANGED vars

Next ==
  \/ \E iso \in BOOLEAN : Setup(iso)
  \/ BodyStep \/ WaitUntilReady \/ RunnerStep
  \/ Store \/ Ready
  \/ SshError \/ Die
  \/ Finished

Spec == Init /\ [][Next]_vars

(* The runner goes on, every test ends, and a started backend gets ready. *)
FairSpec == Spec /\ WF_vars(RunnerStep) /\ WF_vars(Ready)

-----------------------------------------------------------------------------

(* Every variable has its type; only a test that uses db_isolation is ever *)
(* in a step of it.                                                        *)
TypeOK ==
  /\ db \in Contents /\ backup \in Contents /\ snap \in Contents
  /\ unsaved \in 1 .. MaxWrites + 1
  /\ backend \in {"up", "starting", "down"}
  /\ pc \in {"idle", "body", "wait", "launch"}
            \cup (IF isolated THEN {"snapshot", "remove", "stop", "restore", "start"}
                              ELSE {})
  /\ {isolated, restored, refused, aborted} \subseteq BOOLEAN
  /\ missed \subseteq Commands
  /\ writes \in 0 .. MaxWrites /\ tests \in 0 .. MaxTests

(* When restore has returned, the database is what it was at the snapshot, *)
(* whatever the test wrote, however often it restarted the backend or      *)
(* asked for a clean database, whatever of this failed, and whatever an    *)
(* earlier test left unsaved: nothing acknowledged before is stored over   *)
(* it.  It takes the three commands the code does not look at to have      *)
(* worked in this test: the two copies and the stop before the second.     *)
Restored ==
  restored /\ missed \cap {"snapshot", "stop", "restore"} = {} =>
    db = snap /\ unsaved = Absent

(* Nothing is left that would start the backend: an SSH error or the end   *)
(* of the run cut the test short, or the last start of the test failed     *)
(* without being noticed.                                                  *)
LeftDown == aborted \/ (IF isolated THEN "start" ELSE "launch") \in missed

(* A test that takes the backend down brings it back itself: the backend   *)
(* is down only between a stop or a kill and the start that follows it in  *)
(* the same test, and no test begins, looks for the backend or ends while  *)
(* it is down, unless it was LeftDown.  A start that fails in the body of  *)
(* an isolated test leaves it down for no longer than until its restore.   *)
DownOnlyBetween ==
  backend = "down" =>
    \/ pc \in {"remove", "launch", "restore", "start"}
    \/ isolated /\ pc \in {"wait", "stop"} /\ missed \cap {"restart", "launch"} # {}
    \/ LeftDown

(* The backend does not stay down: whatever a test does to it and whatever *)
(* fails in its body, it is up again in the end, unless it was LeftDown.   *)
BackendReturns == []<>(backend = "up" \/ LeftDown)

-----------------------------------------------------------------------------
(* What the comments of the code say and the code does not do.             *)

(* "isolation of the test environment" (docstring of db_isolation.py): a   *)
(* test that follows a restore can connect to the backend.                 *)
NextTestConnects == ~refused
=============================================================================

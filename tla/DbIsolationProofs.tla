------------------------- MODULE DbIsolationProofs -------------------------
(***************************************************************************)
(* Proofs about DbIsolation: its types, that restore restores, and that a  *)
(* backend a test took down is on its way back, for any number of tests    *)
(* and writes, with tests cut short by SSH errors or by the death of the   *)
(* run, and with commands that fail without being noticed.                 *)
(***************************************************************************)
EXTENDS DbIsolation, TLAPS

(* The contents of the files, and what is not one the backend writes.      *)
LEMMA AbsentIsApart ==
  /\ Absent \in Contents /\ Fresh \in Contents /\ Torn \in Contents /\ 0 \in Contents
  /\ Absent # Fresh /\ Absent # 0 /\ Absent \in 1 .. MaxWrites + 1
  /\ \A u \in 1 .. MaxWrites + 1 : u \in Contents
  BY ConstantsAssumption DEF Absent, Fresh, Torn, Contents

(* What a command does is well typed. *)
LEMMA CommandsAreTyped ==
  ASSUME TypeOK, NEW step \in Commands
  PROVE  /\ StopBackend(step) => /\ db' \in Contents /\ unsaved' \in 1 .. MaxWrites + 1
                                 /\ backend' \in {"up", "starting", "down"}
                                 /\ missed' \subseteq Commands
         /\ RestartBackend(step) => /\ db' \in Contents /\ unsaved' \in 1 .. MaxWrites + 1
                                    /\ backend' \in {"up", "starting", "down"}
                                    /\ missed' \subseteq Commands
         /\ KillBackend(step) => /\ unsaved' \in 1 .. MaxWrites + 1
                                 /\ backend' \in {"up", "starting", "down"}
                                 /\ missed' \subseteq Commands
         /\ StartBackend(step) => /\ backend' \in {"up", "starting", "down"}
                                  /\ missed' \subseteq Commands
         /\ Copy(db, backup, step) => /\ backup' \in Contents
                                      /\ missed' \subseteq Commands
         /\ Copy(backup, db, step) => /\ db' \in Contents
                                      /\ missed' \subseteq Commands
<1>. USE AbsentIsApart DEF TypeOK
<1>1. missed \cup {step} \subseteq Commands
  OBVIOUS
<1>2. Stops => db' \in Contents /\ unsaved' \in 1 .. MaxWrites + 1
  BY DEF Stops, Stored
<1>3. StopBackend(step) => /\ db' \in Contents /\ unsaved' \in 1 .. MaxWrites + 1
                          /\ backend' \in {"up", "starting", "down"}
                          /\ missed' \subseteq Commands
  BY <1>1, <1>2 DEF StopBackend, Unnoticed
<1>4. RestartBackend(step) => /\ db' \in Contents /\ unsaved' \in 1 .. MaxWrites + 1
                             /\ backend' \in {"up", "starting", "down"}
                             /\ missed' \subseteq Commands
  BY <1>1, <1>2 DEF RestartBackend, Unnoticed
<1>5. KillBackend(step) => /\ unsaved' \in 1 .. MaxWrites + 1
                          /\ backend' \in {"up", "starting", "down"}
                          /\ missed' \subseteq Commands
  BY <1>1 DEF KillBackend, Unnoticed
<1>6. StartBackend(step) => /\ backend' \in {"up", "starting", "down"}
                           /\ missed' \subseteq Commands
  BY <1>1 DEF StartBackend, Unnoticed, Launched
<1>7. Copy(db, backup, step) => backup' \in Contents /\ missed' \subseteq Commands
  BY <1>1 DEF Copy, Unnoticed
<1>8. Copy(backup, db, step) => db' \in Contents /\ missed' \subseteq Commands
  BY <1>1 DEF Copy, Unnoticed
<1>. QED  BY <1>3, <1>4, <1>5, <1>6, <1>7, <1>8

(* The types hold when the first test starts, and every step keeps them.   *)
LEMMA InitTypeOK == Init => TypeOK
<1>1. 0 \in 0 .. MaxWrites /\ 0 \in 0 .. MaxTests
  BY ConstantsAssumption
<1>. QED
  BY <1>1, AbsentIsApart DEF Init, TypeOK

LEMMA StepTypeOK == TypeOK /\ [Next]_vars => TypeOK'
<1>. SUFFICES ASSUME TypeOK, [Next]_vars
              PROVE  TypeOK'
  OBVIOUS
<1>. USE AbsentIsApart DEF TypeOK
<1>0. /\ "snapshot" \in Commands /\ "restart" \in Commands /\ "kill" \in Commands
      /\ "clean" \in Commands /\ "remove" \in Commands /\ "launch" \in Commands
      /\ "stop" \in Commands /\ "restore" \in Commands /\ "start" \in Commands
  BY DEF Commands
<1>1. CASE UNCHANGED vars
  BY <1>1 DEF vars
<1>2. CASE \E iso \in BOOLEAN : Setup(iso)
  <2>1. PICK iso \in BOOLEAN : Setup(iso)
    BY <1>2
  <2>2. tests' \in 0 .. MaxTests
    BY <2>1, ConstantsAssumption DEF Setup
  <2>3. CASE backend = "up"
    <3>1. /\ isolated' = iso /\ aborted' = FALSE /\ missed' = {}
          /\ refused' = refused /\ restored' = FALSE
          /\ pc' = IF iso THEN "snapshot" ELSE "body"
          /\ UNCHANGED <<files, backend, snap, writes>>
      BY <2>1, <2>3 DEF Setup, Goto
    <3>2. pc' \in {"idle", "body", "wait", "launch"}
                  \cup (IF isolated' THEN {"snapshot", "remove", "stop", "restore", "start"}
                                     ELSE {})
      BY <3>1
    <3>. QED  BY <2>2, <3>1, <3>2 DEF files
  <2>4. CASE backend # "up"
    <3>1. UNCHANGED <<pc, isolated, aborted, missed>>
      BY <2>1, <2>4 DEF Setup
    <3>2. refused' \in BOOLEAN /\ restored' \in BOOLEAN
      BY <2>1, <2>4 DEF Setup
    <3>. QED  BY <2>1, <2>2, <3>1, <3>2 DEF Setup, files
  <2>. QED  BY <2>3, <2>4
<1>3. CASE Write
  <2>1. writes' \in 0 .. MaxWrites /\ unsaved' \in 1 .. MaxWrites + 1
    BY <1>3, ConstantsAssumption DEF Write
  <2>. QED  BY <1>3, <2>1 DEF Write, history
<1>4. CASE Snapshot
  <2>1. backup' \in Contents /\ missed' \subseteq Commands
    BY <1>0, <1>4, CommandsAreTyped DEF Snapshot
  <2>. QED  BY <1>4, <2>1 DEF Snapshot, Goto, counters
<1>5. CASE Restore
  BY <1>0, <1>5, CommandsAreTyped DEF Restore, Goto, history, counters
<1>6. CASE Restart
  BY <1>0, <1>6, CommandsAreTyped DEF Restart, Goto, history, counters
<1>7. CASE CleanStop
  BY <1>0, <1>7, CommandsAreTyped DEF CleanStop, Goto, history, counters
<1>8. CASE Stop
  BY <1>0, <1>8, CommandsAreTyped DEF Stop, Goto, history, counters
<1>9. CASE Kill
  BY <1>0, <1>9, CommandsAreTyped DEF Kill, Goto, history, counters
<1>10. CASE Remove
  BY <1>0, <1>10 DEF Remove, Unnoticed, Goto, history, counters
<1>11. CASE Launch
  BY <1>0, <1>11, CommandsAreTyped DEF Launch, Goto, files, history, counters
<1>12. CASE Start
  BY <1>0, <1>12, CommandsAreTyped DEF Start, Goto, files, counters
<1>13. CASE WaitUntilReady \/ EndBody
  BY <1>13 DEF WaitUntilReady, EndBody, TearDown, Goto, files, history, counters
<1>14. CASE SshError
  BY <1>14 DEF SshError, TearDown, Goto, files, counters
<1>15. CASE Die
  BY <1>15 DEF Die, Goto, files, counters
<1>16. CASE Store \/ Ready
  BY <1>16 DEF Store, Stored, Ready, history, counters
<1>. QED
  BY <1>1, <1>2, <1>3, <1>4, <1>5, <1>6, <1>7, <1>8, <1>9, <1>10, <1>11, <1>12,
     <1>13, <1>14, <1>15, <1>16
  DEF Next, BodyStep, RunnerStep, Finished

(* Every variable keeps its type, and only a test that uses db_isolation   *)
(* is ever in a step of it, whatever commands fail and runs die.           *)
THEOREM TypeCorrect == Spec => []TypeOK
<1>1. Init => TypeOK
  BY InitTypeOK
<1>2. TypeOK /\ [Next]_vars => TypeOK'
  BY StepTypeOK
<1>. QED  BY <1>1, <1>2, PTL DEF Spec

-----------------------------------------------------------------------------
(* Restore restores.                                                       *)

(* From the snapshot to the end of restore the backup is the snapshot, if  *)
(* the cp that made it worked.                                             *)
BackupKept ==
  pc \in {"body", "wait", "launch", "remove", "stop", "restore"}
      /\ isolated /\ "snapshot" \notin missed =>
    backup = snap /\ snap # Absent

(* While the file is replaced the backend is down, with nothing to store,  *)
(* if the stop worked; and nothing is stored over what was restored.       *)
Quiet ==
  /\ pc \in {"restore", "start"} /\ "stop" \notin missed =>
       backend = "down" /\ unsaved = Absent
  /\ pc = "start" /\ missed \cap {"snapshot", "stop", "restore"} = {} =>
       db = snap /\ snap # Absent
  /\ restored => pc = "idle"
  /\ restored /\ missed \cap {"snapshot", "stop", "restore"} = {} =>
       db = snap /\ snap # Absent /\ unsaved = Absent

IInv == TypeOK /\ BackupKept /\ Quiet

(* The steps of the runner that touch neither a file nor the backend.      *)
LEMMA RunnerIInv ==
  ASSUME IInv, \/ \E iso \in BOOLEAN : Setup(iso)
               \/ WaitUntilReady \/ EndBody \/ SshError \/ Die
  PROVE  BackupKept' /\ Quiet'
<1>. USE DEF IInv, TypeOK, BackupKept, Quiet
<1>1. CASE \E iso \in BOOLEAN : Setup(iso)
  BY <1>1 DEF Setup, Goto, files
<1>2. CASE WaitUntilReady
  BY <1>2 DEF WaitUntilReady, Goto, files, history, counters
<1>3. CASE EndBody
  BY <1>3 DEF EndBody, TearDown, Goto, files, history, counters
<1>4. CASE SshError
  BY <1>4 DEF SshError, TearDown, Goto, files, counters
<1>5. CASE Die
  BY <1>5 DEF Die, Goto, files, counters
<1>. QED  BY <1>1, <1>2, <1>3, <1>4, <1>5

(* The steps of a test body leave the copy alone, and forget no failure.   *)
LEMMA BodyIInv ==
  ASSUME IInv, BodyStep \/ Launch \/ Remove
  PROVE  BackupKept' /\ Quiet'
<1>1. /\ backup' = backup /\ snap' = snap /\ isolated' = isolated
      /\ restored' = restored /\ missed \subseteq missed'
      /\ pc \in {"body", "launch", "remove"}
      /\ pc' \in {"body", "wait", "launch", "remove"}
  <2>1. CASE Write
    BY <2>1 DEF Write, history
  <2>2. CASE Restart
    BY <2>2 DEF Restart, RestartBackend, Unnoticed, Goto, history
  <2>3. CASE Kill
    BY <2>3 DEF Kill, KillBackend, Unnoticed, Goto, history
  <2>4. CASE CleanStop
    BY <2>4 DEF CleanStop, StopBackend, Unnoticed, Goto, history
  <2>5. CASE Launch
    BY <2>5 DEF Launch, StartBackend, Unnoticed, Goto, files, history
  <2>6. CASE Remove
    BY <2>6 DEF Remove, Unnoticed, Goto, history
  <2>. QED  BY <2>1, <2>2, <2>3, <2>4, <2>5, <2>6 DEF BodyStep
<1>. QED  BY <1>1 DEF IInv, BackupKept, Quiet

(* The snapshot, and the three steps of restore. *)
LEMMA RestoreIInv ==
  ASSUME IInv, Snapshot \/ Stop \/ Restore \/ Start
  PROVE  BackupKept' /\ Quiet'
<1>. USE DEF IInv, TypeOK, BackupKept, Quiet
<1>1. CASE Snapshot
  BY <1>1 DEF Snapshot, Copy, Unnoticed, Goto, counters
<1>2. CASE Stop
  <2>1. CASE Stops /\ backend' = "down" /\ UNCHANGED missed
    BY <1>2, <2>1 DEF Stop, Stops, Goto, history, counters
  <2>2. CASE Unnoticed("stop")
    BY <1>2, <2>2 DEF Stop, Unnoticed, Goto, history, counters
  <2>. QED  BY <1>2, <2>1, <2>2 DEF Stop, StopBackend
<1>3. CASE Restore
  <2>1. isolated
    BY <1>3 DEF Restore
  <2>2. CASE Unnoticed("restore")
    BY <1>3, <2>2 DEF Restore, Unnoticed, Goto, history, counters
  <2>3. CASE db' = backup /\ UNCHANGED missed
    BY <1>3, <2>1, <2>3 DEF Restore, Goto, history, counters
  <2>. QED  BY <1>3, <2>2, <2>3 DEF Restore, Copy
<1>4. CASE Start
  BY <1>4 DEF Start, StartBackend, Unnoticed, Goto, files, counters
<1>. QED  BY <1>1, <1>2, <1>3, <1>4

(* The steps of the backend by itself. *)
LEMMA BackendIInv ==
  ASSUME IInv, Store \/ Ready
  PROVE  BackupKept' /\ Quiet'
  BY DEF Store, Ready, history, counters, IInv, TypeOK, BackupKept, Quiet

(* The invariant is inductive. *)
LEMMA StepIInv == IInv /\ [Next]_vars => IInv'
<1>. SUFFICES ASSUME IInv, [Next]_vars
              PROVE  IInv'
  OBVIOUS
<1>1. TypeOK'
  BY StepTypeOK DEF IInv
<1>2. CASE UNCHANGED vars
  BY <1>1, <1>2 DEF vars, IInv, BackupKept, Quiet
<1>3. CASE Next
  BY <1>1, <1>2, <1>3, RunnerIInv, BodyIInv, RestoreIInv, BackendIInv
  DEF Next, RunnerStep, Finished, IInv
<1>. QED  BY <1>2, <1>3

(* A restore that returns has put the database back to the snapshot, for   *)
(* any number of tests and writes, with tests that stop, restart or kill   *)
(* the backend, remove its database, fail in the middle of an SSH command  *)
(* or die, and whatever command failed unnoticed, but for the two copies   *)
(* of this test and the stop before the second.                            *)
THEOREM RestoreRestores == Spec => []Restored
<1>1. Init => IInv
  BY InitTypeOK DEF Init, IInv, BackupKept, Quiet
<1>2. IInv /\ [Next]_vars => IInv'
  BY StepIInv
<1>3. IInv => Restored
  BY DEF IInv, Quiet, Restored
<1>. QED  BY <1>1, <1>2, <1>3, PTL DEF Spec

-----------------------------------------------------------------------------
(* A backend that a test took down is on its way back: every way out of a  *)
(* step that needs it down leads to its start, whatever fails unnoticed,   *)
(* or the test was cut short, or the start itself failed.                  *)
THEOREM TestsBringItBack == Spec => []DownOnlyBetween
<1>. DEFINE Inv == TypeOK /\ DownOnlyBetween
<1>1. Init => Inv
  BY InitTypeOK DEF Init, DownOnlyBetween
<1>2. Inv /\ [Next]_vars => Inv'
  <2>. SUFFICES ASSUME Inv, [Next]_vars
                PROVE  DownOnlyBetween'
    BY StepTypeOK
  <2>. USE DEF TypeOK, DownOnlyBetween, LeftDown
  <2>1. CASE UNCHANGED vars
    BY <2>1 DEF vars
  <2>2. CASE \E iso \in BOOLEAN : Setup(iso)
    BY <2>2 DEF Setup, Goto
  <2>3. CASE Write
    BY <2>3 DEF Write, history
  <2>4. CASE Restart
    BY <2>4 DEF Restart, RestartBackend, Unnoticed, Goto, history
  <2>5. CASE Kill
    BY <2>5 DEF Kill, Goto
  <2>6. CASE CleanStop
    BY <2>6 DEF CleanStop, Goto
  <2>7. CASE Snapshot \/ WaitUntilReady \/ EndBody
    BY <2>7 DEF Snapshot, Copy, Unnoticed, WaitUntilReady, EndBody, TearDown, Goto, history
  <2>8. CASE Remove
    BY <2>8 DEF Remove, Goto
  <2>9. CASE Launch
    BY <2>9 DEF Launch, StartBackend, Launched, Unnoticed, Goto, history
  <2>10. CASE Stop \/ Restore
    BY <2>10 DEF Stop, Restore, Goto
  <2>11. CASE Start
    BY <2>11 DEF Start, StartBackend, Launched, Unnoticed, Goto
  <2>12. CASE Store \/ Ready
    BY <2>12 DEF Store, Ready, history
  <2>13. CASE SshError \/ Die \/ Finished
    BY <2>13 DEF SshError, Die, Finished, vars
  <2>. QED
    BY <2>1, <2>2, <2>3, <2>4, <2>5, <2>6, <2>7, <2>8, <2>9, <2>10, <2>11, <2>12, <2>13
    DEF Next, BodyStep, RunnerStep
<1>. QED  BY <1>1, <1>2, PTL DEF Spec
=============================================================================

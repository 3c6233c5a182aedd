---------------------------- MODULE PFOPSession ----------------------------
(***************************************************************************)
(* The fixture of the PFOP suite (pfop_env of pfop/conftest.py) around the *)
(* tests that use PFOPClient: once for each test module it logs in on a    *)
(* WebSocket connection, sees to it that the protocol is enabled, lets the *)
(* tests run, and puts the configuration back.                             *)
(*                                                                         *)
(* A request of the fixture is answered, with success or a refusal, or it  *)
(* raises, because its answer is late, lost or the connection is down; the *)
(* backend may have done what was asked all the same.  The tests are       *)
(* synchronous: while they run nobody looks after the fixture's            *)
(* connection, and its loss is noticed by the request that follows.        *)
(***************************************************************************)
EXTENDS PFOPClient

CONSTANTS
  Initially,  \* the protocol is enabled before the first module
  MaxModules  \* bound: test modules, over one or more runs of pytest

ASSUME SessionAssumption == Initially \subseteq BOOLEAN /\ MaxModules \in Nat

VARIABLES
  step,     \* where pfop_env is; out: no test module is running
  link,     \* its WebSocket connection is up
  enabled,  \* the backend's enableProtocol
  first,    \* history: enabled before the first module
  original, \* what the configuration it read first says of enableProtocol:
            \* one value, or none
  changed,  \* its variable of that name
  modules,  \* counter behind the bound
  spoiled   \* history: something happened that pfop_env does not make good

sessionVars == <<step, link, enabled, first, original, changed, modules, spoiled>>

SessionInit ==
  /\ Init
  /\ step = "out" /\ link = FALSE
  /\ enabled \in Initially /\ first = enabled
  /\ original = {} /\ changed = FALSE
  /\ modules = 0 /\ spoiled = FALSE

-----------------------------------------------------------------------------
(* The steps of pfop_env; each is a request and what follows its answer.   *)

Begin ==
  /\ step = "out" /\ modules < MaxModules
  /\ step' = "login" /\ link' = TRUE /\ changed' = FALSE
  /\ modules' = modules + 1
  /\ UNCHANGED <<vars, enabled, first, original, spoiled>>

Leave == step' = "out" /\ link' = FALSE

Login ==
  /\ step = "login" /\ link
  /\ step' = "query"
  /\ UNCHANGED <<vars, link, enabled, first, original, changed, modules, spoiled>>

(* The first query, whose answer may lack enableProtocol: as if it were    *)
(* off.  The variant, and those below, are faults a change of the code     *)
(* could introduce; no action uses them.                                   *)
NextWhenOff(on) == IF on THEN "enable" ELSE "tests"
NextWhen(on)    == IF on THEN "tests" ELSE "enable"

Query ==
  /\ step = "query" /\ link
  /\ original' \in {{enabled}, {}}
  /\ step' = NextWhen(TRUE \in original')
  /\ UNCHANGED <<vars, link, enabled, first, changed, modules, spoiled>>

(* pfop_config_set succeeds. *)
Enable ==
  /\ step = "enable" /\ link
  /\ enabled' = TRUE /\ changed' = TRUE
  /\ step' = "check"
  /\ UNCHANGED <<vars, link, first, original, modules, spoiled>>

(* The second query, of which only the port is used: also a refusal leads  *)
(* to the tests.                                                           *)
Check ==
  /\ step = "check" /\ link
  /\ step' = "tests"
  /\ UNCHANGED <<vars, link, enabled, first, original, changed, modules, spoiled>>

(* An answer without success: the fixture disconnects and skips. *)
Refused ==
  /\ step \in {"login", "query", "enable"} /\ link
  /\ Leave
  /\ UNCHANGED <<vars, enabled, first, original, changed, modules, spoiled>>

(* The configuration read first is sent back: one without enableProtocol   *)
(* changes nothing.                                                        *)
PutsBackEnabled == {TRUE}
PutsBack == IF original = {} THEN {enabled} ELSE original

(* What the backend makes of a request whose answer nobody sees. *)
MayBe ==
  {enabled} \cup (IF step = "enable" THEN {TRUE} ELSE {})
            \cup (IF step = "restore" THEN PutsBack ELSE {})

(* The protocol is enabled, or may be, and not yet put back. *)
Unfinished == step = "enable" \/ (changed /\ step # "bye")

(* A request of the set-up raises: the fixture ends in an error and is not *)
(* torn down.                                                              *)
Raises ==
  /\ step \in {"login", "query", "enable", "check"}
  /\ enabled' \in MayBe
  /\ spoiled' = (spoiled \/ Unfinished)
  /\ Leave
  /\ UNCHANGED <<vars, first, original, changed, modules>>

(* The tests of the module have run. *)
TestsEnd ==
  /\ step = "tests" /\ sock = "closed"
  /\ step' = IF changed THEN "restore" ELSE "bye"
  /\ UNCHANGED <<vars, link, enabled, first, original, changed, modules, spoiled>>

Restore ==
  /\ step = "restore" /\ link
  /\ enabled' \in PutsBack
  /\ spoiled' = (spoiled \/ original = {})
  /\ step' = "bye"
  /\ UNCHANGED <<vars, link, first, original, changed, modules>>

(* The answer is not looked at, and an exception is swallowed. *)
RestoreFails ==
  /\ step = "restore"
  /\ enabled' \in MayBe
  /\ spoiled' = TRUE
  /\ step' = "bye"
  /\ UNCHANGED <<vars, link, first, original, changed, modules>>

Bye ==
  /\ step = "bye" /\ Leave
  /\ UNCHANGED <<vars, enabled, first, original, changed, modules, spoiled>>

-----------------------------------------------------------------------------

(* A test of the module, as long as the protocol is enabled: otherwise     *)
(* pfop_client finds no listener and skips.                                *)
TestStep ==
  /\ step = "tests" /\ enabled
  /\ Next
  /\ UNCHANGED sessionVars

LinkDrops ==
  /\ link
  /\ link' = FALSE
  /\ UNCHANGED <<vars, step, enabled, first, original, changed, modules, spoiled>>

(* The run is killed, by hand or by pytest's timeout: the process exits.   *)
Killed ==
  /\ step # "out"
  /\ enabled' \in MayBe
  /\ spoiled' = (spoiled \/ Unfinished)
  /\ Leave
  /\ sock' = "closed" /\ reading' = FALSE /\ buf' = <<>>
  /\ wire' = <<>> /\ owed' = FALSE /\ result' = "error" /\ frame' = <<>>
  /\ UNCHANGED <<pushed, reqs, pushes, conns, first, original, changed, modules>>

SessionEnds == step = "out" /\ modules = MaxModules /\ UNCHANGED <<vars, sessionVars>>

FixtureStep ==
  \/ Login \/ Query \/ Enable \/ Check \/ Refused \/ Raises
  \/ TestsEnd \/ Restore \/ RestoreFails \/ Bye

SessionNext ==
  \/ Begin \/ FixtureStep \/ TestStep \/ LinkDrops \/ Killed \/ SessionEnds

SessionSpec == SessionInit /\ [][SessionNext]_<<vars, sessionVars>>

(* What the runner and the timeouts of the requests, the socket and the    *)
(* tests bring about; nothing is asked of the servers.                     *)
Reads == (Fail \/ \E n \in 1 .. Len(wire) : Recv(n)) /\ UNCHANGED sessionVars

FairSession ==
  /\ SessionSpec
  /\ WF_<<vars, sessionVars>>(FixtureStep)
  /\ WF_<<vars, sessionVars>>(step = "tests" /\ Reads)
  /\ WF_<<vars, sessionVars>>(step = "tests" /\ Close /\ UNCHANGED sessionVars)

-----------------------------------------------------------------------------

(* "restore when done" (docstring of pfop_env): between modules the        *)
(* protocol is enabled or not as it was found, over any number of modules, *)
(* refusals and lost connections, unless a run was killed or a request     *)
(* failed after the fixture had begun to change it, or the configuration   *)
(* it sent back did not mention enableProtocol.                            *)
PutBack == step = "out" /\ ~spoiled => enabled = first

(* "Ensure PFOP protocol is enabled for this suite": the tests never run   *)
(* against a backend that has it disabled, whatever was answered or lost.  *)
SuiteRunsEnabled == step = "tests" => enabled

(* Every module ends: neither a silent server nor one that closes the      *)
(* connection in the middle of a frame keeps a test or the fixture         *)
(* waiting.                                                                *)
ModulesEnd == step # "out" ~> step = "out"
=============================================================================

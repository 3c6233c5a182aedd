----------------------------- MODULE MCWorkMode -----------------------------
(***************************************************************************)
(* Instances of WorkModeSwitch and WorkModeVerify for TLC: one backend,    *)
(* and either the test suite or the script as its only user.               *)
(***************************************************************************)
EXTENDS WorkModeSwitch

CONSTANT MaxRounds \* of WorkModeVerify

VARIABLES step, mode, saved, stored, verdict, rounds \* of WorkModeVerify

V == INSTANCE WorkModeVerify WITH pc <- step

script  == <<step, mode, saved, stored, verdict, rounds>>
allVars == <<vars, script>>

SinglePlans   == {<<"screw">>, <<"module">>}
DebouncePlans == {<<"module", "screw", "module">>}
AllPlans      == SinglePlans \cup DebouncePlans

NoScript == step = "none" /\ mode = "none" /\ saved = FALSE /\ stored = FALSE
              /\ verdict = "none" /\ rounds = 0
MCInit == Init /\ (NoScript \/ V!Init)

TestsRun  == step = "none" /\ Next /\ UNCHANGED script
ScriptRun == step # "none" /\ V!Next /\ UNCHANGED <<testVars, clientVars>>

MCSpec ==
  /\ MCInit /\ [][TestsRun \/ ScriptRun]_allVars
  /\ WF_allVars(step = "none" /\ TestStep /\ UNCHANGED script)

(* TypeOK of the user that runs. *)
OneTypeOK == IF step = "none" THEN TypeOK ELSE V!TypeOK

(* A round of the script that passes proves what its header asks for.      *)
PassMeansInSync == V!PassMeansInSync

(* A round of the script fails only for a reason.                          *)
FailMeansDefect == V!FailMeansDefect
=============================================================================

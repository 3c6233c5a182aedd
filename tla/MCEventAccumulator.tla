------------------------ MODULE MCEventAccumulator ------------------------
(***************************************************************************)
(* Instances of EventAccumulator for TLC.                                  *)
(***************************************************************************)
EXTENDS EventAccumulator, TLC

CONSTANTS w1, w2

TwoWaiters == {w1, w2}
=============================================================================

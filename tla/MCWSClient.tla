---------------------------- MODULE MCWSClient ----------------------------
(***************************************************************************)
(* Instances of WSClient for TLC.                                          *)
(***************************************************************************)
EXTENDS WSClient

(* get_screw_param and save_module: the latter is answered with            *)
(* module_config_response or module_error, and a test that waits for the   *)
(* success type alone never hears of an error.                             *)
Request    == [op |-> "request", types |-> {"ok"}, replies |-> {"ok", "err"}, n |-> 1]
RequestAny == [op |-> "request_any", types |-> {"ok", "err"}, replies |-> {"ok", "err"}, n |-> 1]
Burst      == [op |-> "burst", types |-> {"ok"}, replies |-> {"ok"}, n |-> 2]

(* hardware_status_update is pushed.  Poll asks like get_system_params: it *)
(* sends a request, then scans the accumulator for an answer.              *)
WaitForStatus == [op |-> "wait_for", types |-> {"status"}, replies |-> {}, n |-> 0]
Poll == [op |-> "wait_for_condition", types |-> {"ok"}, replies |-> {"ok"}, n |-> 1]

(* data_response answers get_system_params and, with another data_type,    *)
(* other requests.                                                         *)
SystemParams == [op |-> "wait_for_condition", types |-> {"data"}, replies |-> {"data"}, n |-> 1]

AllCalls    == {Request, RequestAny, Burst, WaitForStatus, Poll}
OneRequest  == {Request}
ParamsCalls == {SystemParams}
=============================================================================

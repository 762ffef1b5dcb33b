----------------------------- MODULE Conditions -----------------------------
(***************************************************************************)
(* The status conditions of a FenceAgentsRemediation and the one function  *)
(* that changes them (pkg/utils/conditions.go).                            *)
(*                                                                         *)
(* A status keeps the three conditions the code sets and, in "why", the    *)
(* Reason of the condition that changed last.  Messages and timestamps are *)
(* left out: LastUpdateTime is set exactly when some condition changes, so *)
(* it is nil if and only if why = "none".                                  *)
(***************************************************************************)

\* metav1.ConditionStatus, and "none" for a condition that is not present.
ConditionStatus == {"none", "Unknown", "True", "False"}

NodeNotFound == "RemediationFinishedNodeNotFound"
InterruptedByNHC == "RemediationInterruptedByNHC"
Started == "RemediationStarted"
AgentSucceeded == "FenceAgentSucceeded"
AgentFailed == "FenceAgentFailed"
AgentTimedOut == "FenceAgentTimedOut"
FinishedSuccessfully == "RemediationFinishedSuccessfully"

AgentOutcome == {AgentSucceeded, AgentFailed, AgentTimedOut}

ConditionsChangeReason ==
    {NodeNotFound, InterruptedByNHC, Started, FinishedSuccessfully} \cup AgentOutcome

Status == [processing : ConditionStatus, fenceAgentActionSucceeded : ConditionStatus,
           succeeded : ConditionStatus, why : ConditionsChangeReason \cup {"none"}]

NoConditions == [processing |-> "none", fenceAgentActionSucceeded |-> "none",
                 succeeded |-> "none", why |-> "none"]

(***************************************************************************)
(* UpdateConditions: a reason requests a value for some of the conditions  *)
(* and leaves the others; nothing, not even the timestamp, changes when    *)
(* every requested value is there already.                                 *)
(***************************************************************************)
Requested(reason, st) ==
    CASE reason = Started ->
           [st EXCEPT !.processing = "True", !.fenceAgentActionSucceeded = "Unknown",
                      !.succeeded = "Unknown"]
      [] reason = AgentSucceeded ->
           [st EXCEPT !.fenceAgentActionSucceeded = "True"]
      [] reason = FinishedSuccessfully ->
           [st EXCEPT !.processing = "False", !.succeeded = "True"]
      [] OTHER ->   \* NodeNotFound, InterruptedByNHC, AgentFailed, AgentTimedOut
           [st EXCEPT !.processing = "False", !.fenceAgentActionSucceeded = "False",
                      !.succeeded = "False"]

UpdateConditions(reason, st) ==
    LET new == Requested(reason, st)
    IN  IF new = st THEN st ELSE [new EXCEPT !.why = reason]

=============================================================================

------------------------ MODULE RemediationProperties ------------------------
(***************************************************************************)
(* What the remediation of a node has to guarantee.                        *)
(***************************************************************************)
EXTENDS Remediation

(***************************************************************************)
(* Safety.                                                                 *)
(***************************************************************************)

\* FenceAgentActionSucceeded is reported only when a fence agent started for this
\* CR has exited with 0, whatever retries, conflicts, stale reads and restarts
\* came in between (executor's updateStatus; conditions.go:38).
ReportedOnlyIfFenced ==
    \A u \in FARs : far[u].st.fenceAgentActionSucceeded = "True" => agentOk[u]

\* Workloads are removed from a node (DeletePods or the out-of-service taint,
\* Reconcile lines 225-245) only after the node was fenced for that CR: removing
\* them from a node that still runs would start them twice.
EvictedOnlyIfFenced ==
    \A u \in FARs : evicted[u] => agentOk[u]

\* A CR that says Succeeded has been through all of it: its workloads were removed,
\* the fence agent condition still says True, and it is no longer processing
\* (Reconcile lines 252-254; conditions.go:44).
FinishedMeansEvicted ==
    \A u \in FARs : far[u].st.succeeded = "True" =>
        /\ evicted[u]
        /\ far[u].st.fenceAgentActionSucceeded = "True"
        /\ far[u].st.processing = "False"

Live(s) == gor[s].pc # "free"

\* A UID never has two goroutines, not even a new one beside one that Remove has
\* cancelled and that is still winding down: two fence agents would fight over one
\* machine (AsyncExecute, Exists and Remove).
AtMostOneAgent ==
    \A s, t \in Slots : (Live(s) /\ Live(t) /\ gor[s].uid = gor[t].uid) => s = t

\* A node is tainted for as long as a fence agent that has not been cancelled runs
\* against it (AppendTaint comes before AsyncExecute, and Remove before
\* RemoveTaint).  A node that was deleted loses the taint with everything else.
TaintedWhileFencing ==
    faults.node = 0 =>
        \A s \in Slots :
            (gor[s].pc = "exec" /\ ~gor[s].cancelled) =>
                RemediationTaint \in node[NodeOf[gor[s].uid]].taints

\* The out-of-service taint, which makes Kubernetes detach volumes and delete pods, is
\* on a node only while some CR of the node is there whose fence agent succeeded
\* (Reconcile lines 236-245, handleFARDeletion lines 270-284).
OutOfServiceOnlyIfFenced ==
    \A n \in Nodes : OOSTaint \in node[n].taints =>
        \E u \in FARs : NodeOf[u] = n /\ agentOk[u] /\ Present(far[u])

\* When no CR is left for a node, neither of the operator's taints is left on it
\* (handleFARDeletion removes the finalizer last).
NoTaintLeft ==
    \A n \in Nodes :
        (\A u \in FARs : NodeOf[u] = n => far[u].phase \in {"absent", "gone"})
            => node[n].taints = {}

(***************************************************************************)
(* What no step may do.                                                    *)
(***************************************************************************)

\* The reasons follow each other in the order UpdateConditions documents
\* (conditions.go:61-65): only NodeNotFound and InterruptedByNHC may come at any time.
OrderOfReasons(old, new) ==
    CASE new.why = Started -> old.why \in {"none", NodeNotFound}
      [] new.why \in AgentOutcome -> old.why = Started
      [] new.why = FinishedSuccessfully -> old.why = AgentSucceeded
      [] OTHER -> TRUE

ReasonsInOrder ==
    [][\A u \in FARs : far'[u].st # far[u].st => OrderOfReasons(far[u].st, far'[u].st)]_far

\* Once NHC's interruption is on record nothing overwrites it, in particular not
\* the outcome of the fence agent that was cancelled when it came (Reconcile lines
\* 148-154 against the executor's Status().Update).
InterruptionIsFinal ==
    [][\A u \in FARs : far[u].st.why = InterruptedByNHC => far'[u].st = far[u].st]_far

(***************************************************************************)
(* Liveness.                                                               *)
(***************************************************************************)
Decided(o) == ~Present(o) \/ o.st.succeeded \in {"True", "False"}

\* A remediation that has started ends: it succeeds, fails, is interrupted or its
\* CR goes (the executor's report brings the reconciler back).
StartedIsDecided ==
    \A u \in ParamsOk : far[u].st.why = Started ~> Decided(far[u])

\* A CR that is deleted after it got its conditions loses its finalizer.
DeletionCompletes ==
    \A u \in FARs : (far[u].del /\ far[u].st.why # "none") ~> far[u].phase = "gone"

\* A CR that got the finalizer gets its RemediationStarted conditions too, or goes away:
\* "Processing - true after remediation has started (finalizer path)"
\* (ARCHITECTURE.md:66), and a deletion is cleaned up "even if conditions are
\* corrupted/missing" (controller.go:137-138).
FinalizerMeansStarted ==
    \A u \in FARs : far[u].fin ~> (far[u].st.why # "none" \/ ~Present(far[u]))

(***************************************************************************)
(* What NHC sees of a CR: Remediation implements RemediationAbstract.      *)
(***************************************************************************)
OutcomeOf(o) ==
    CASE o.phase # "present" -> o.phase
      [] Present(o) /\ o.st.succeeded = "True" -> "succeeded"
      [] Present(o) /\ o.st.why = NodeNotFound -> "notfound"
      [] Present(o) /\ o.st.succeeded = "False" /\ o.st.why # NodeNotFound -> "failed"
      [] OTHER -> "open"

Abstract == INSTANCE RemediationAbstract
                WITH fenced <- agentOk, outcome <- [u \in FARs |-> OutcomeOf(far[u])]

\* Read through the outcome of its status, a CR goes through its stages in order, whatever
\* the reconciler, the executor, their caches and crashes do in between (Reconcile,
\* updateStatus of the executor).
ImplementsAbstract == Abstract!Spec

=============================================================================

----------------------------- MODULE Remediation -----------------------------
(***************************************************************************)
(* The FenceAgentsRemediation reconciler (internal/controller/             *)
(* fenceagentsremediation_controller.go with pkg/utils/taints.go) composed *)
(* with the executor and the cluster, and the crash of the manager.        *)
(*                                                                         *)
(* There is one worker (MaxConcurrentReconciles = 1).  Everything between  *)
(* two API writes is one step: it reads caches and touches the executor's  *)
(* map, which no other thread changes.  A read from the node cache and the *)
(* write based on it are one step too: a node changed in between is the    *)
(* same as a cache that was stale when read.                               *)
(***************************************************************************)
EXTENDS Executer

CONSTANT
    ParamsOk     \* CRs for which BuildFenceAgentParams finds no permanent error

ASSUME RemediationAssumption == ParamsOk \subseteq FARs

VARIABLES
    rec,         \* the worker
    evicted      \* history: workloads were removed from the node for this CR

vars == <<clusterVars, execVars, rec, evicted>>

(***************************************************************************)
(* pc of the worker: idle, or the API write it does next.                  *)
(*   addFinalizer  Client.Update adding the finalizer                      *)
(*   addTaint      AppendTaint of the remediation taint                    *)
(*   execute       starting the fence agent                                *)
(*   evict         DeletePods, or AppendTaint of the out-of-service taint  *)
(*   removeOOS, removeTaint, removeFinalizer    handleFARDeletion          *)
(*   status        the deferred updateStatus                               *)
(*   poll          its wait for the cache                                  *)
(* far is the CR in memory; res what Reconcile returns: done, or requeue   *)
(* (an error, Requeue or RequeueAfter, all of which reconcile again).      *)
(***************************************************************************)
WorkerPC == {"idle", "addFinalizer", "addTaint", "execute", "evict", "removeOOS",
             "removeTaint", "removeFinalizer", "status", "poll"}

Worker == [pc : WorkerPC, uid : FARs \cup {None}, far : FarObject,
           res : {"done", "requeue"}]

Idle == [pc |-> "idle", uid |-> None, far |-> NoFar, res |-> "done"]

TypeOK ==
    /\ ClusterTypeOK
    /\ ExecTypeOK
    /\ rec \in Worker
    /\ evicted \in [FARs -> BOOLEAN]

Init ==
    /\ ClusterInit
    /\ ExecInit
    /\ rec = Idle
    /\ evicted = [u \in FARs |-> FALSE]

-----------------------------------------------------------------------------
(***************************************************************************)
(* Helpers.                                                                *)
(***************************************************************************)
RecGoto(pc) == rec' = [rec EXCEPT !.pc = pc]

\* return res, err: what is left is the deferred updateStatus
RecReturn(res) == rec' = [rec EXCEPT !.pc = "status", !.res = res]

\* Mutation: the request's key is read after the worker has been reset.
FinishAfterReset(res) ==
    /\ rec' = Idle
    /\ queue' = IF res = "requeue" THEN queue \cup {Idle.uid} ELSE queue

\* The request is done; the rate limiter brings back one that has to be retried.
Finish(res) ==
    /\ rec' = Idle
    /\ queue' = IF res = "requeue" THEN queue \cup {rec.uid} ELSE queue

\* r.Get of the CR and of its node: both from the caches, at the start of Reconcile
Reconciles(u) ==
    /\ rec.pc = "idle" /\ u \in queue
    /\ queue' = queue \ {u}

Begin(u, pc, o, res) == rec' = [pc |-> pc, uid |-> u, far |-> o, res |-> res]

SetConditions(reason, o) == [o EXCEPT !.st = UpdateConditions(reason, @)]

CachedNode(u) == nodeCache[NodeOf[u]]

isTimedOutByNHC(o) == o.nhc

\* What lines 129-132 dereference.
ConditionsMissing(o) == o.st.succeeded # "True" /\ o.st.why = "none"

-----------------------------------------------------------------------------
(***************************************************************************)
(* Reconcile, up to its first API write.                                   *)
(***************************************************************************)
allButRecAndQueue == <<far, farCache, farPending, node, nodeCache, nodePending, faults,
                       agentOk, evicted>>

ReconcileNotFound(u) ==
    /\ Reconciles(u)
    /\ ~Present(farCache[u])
    /\ UNCHANGED <<allButRecAndQueue, routines, gor, rec>>

\* A nil dereference: the deferred function runs, then controller-runtime recovers
\* the panic and retries the request.
ReconcileDeletionPanic(u) ==
    /\ Reconciles(u)
    /\ Present(farCache[u]) /\ farCache[u].del
    /\ ConditionsMissing(farCache[u])
    /\ Begin(u, "status", farCache[u], "requeue")
    /\ UNCHANGED <<allButRecAndQueue, routines, gor>>

\* Mutation: the out-of-service taint is forgotten on deletion.
ReconcileDeletionKeepsOOS(u) ==
    /\ Reconciles(u)
    /\ Present(farCache[u]) /\ farCache[u].del
    /\ ~ConditionsMissing(farCache[u])
    /\ Remove(u)
    /\ Begin(u, IF CachedNode(u).exists THEN "removeTaint" ELSE "removeFinalizer",
             farCache[u], "done")
    /\ UNCHANGED allButRecAndQueue

ReconcileDeletion(u) ==
    /\ Reconciles(u)
    /\ Present(farCache[u]) /\ farCache[u].del
    /\ ~ConditionsMissing(farCache[u])
    /\ Remove(u)
    /\ Begin(u, IF ~CachedNode(u).exists THEN "removeFinalizer"
                ELSE IF Strategy[u] = OutOfServiceTaint THEN "removeOOS"
                ELSE "removeTaint",
             farCache[u], "done")
    /\ UNCHANGED allButRecAndQueue

\* Mutation: the routine is not cancelled.
ReconcileTimedOutNoRemove(u) ==
    /\ Reconciles(u)
    /\ Present(farCache[u]) /\ ~farCache[u].del
    /\ isTimedOutByNHC(farCache[u])
    /\ Begin(u, "status", SetConditions(InterruptedByNHC, farCache[u]), "done")
    /\ UNCHANGED <<allButRecAndQueue, routines, gor>>

ReconcileTimedOutByNHC(u) ==
    /\ Reconciles(u)
    /\ Present(farCache[u]) /\ ~farCache[u].del
    /\ isTimedOutByNHC(farCache[u])
    /\ Remove(u)
    /\ Begin(u, "status", SetConditions(InterruptedByNHC, farCache[u]), "done")
    /\ UNCHANGED allButRecAndQueue

Remediable(u) ==
    /\ Present(farCache[u]) /\ ~farCache[u].del
    /\ ~isTimedOutByNHC(farCache[u])

ReconcileNodeNotFound(u) ==
    /\ Reconciles(u)
    /\ Remediable(u) /\ ~CachedNode(u).exists
    /\ Begin(u, "status", SetConditions(NodeNotFound, farCache[u]), "done")
    /\ UNCHANGED <<allButRecAndQueue, routines, gor>>

ReconcileRemediation(u) ==
    /\ Reconciles(u)
    /\ Remediable(u) /\ CachedNode(u).exists
    /\ Begin(u, IF farCache[u].fin THEN "addTaint" ELSE "addFinalizer",
             farCache[u], "done")
    /\ UNCHANGED <<allButRecAndQueue, routines, gor>>

-----------------------------------------------------------------------------
(***************************************************************************)
(* Writes.  Each has three results: accepted; refused, with no effect      *)
(* (conflict, not found or another error); and accepted with the reply     *)
(* lost, which the caller sees as an error.                                *)
(***************************************************************************)
Refused(accepted) == (~accepted /\ UNCHANGED faults) \/ ApiError

farVars == <<far, farPending>>
nodeVars == <<node, nodeCache, nodePending>>
notCluster == <<routines, gor, agentOk, evicted>>

AddFinalizer ==
    LET withFinalizer == [rec.far EXCEPT !.fin = TRUE]
        failed == rec' = [rec EXCEPT !.pc = "status", !.far = withFinalizer, !.res = "requeue"]
    IN  /\ rec.pc = "addFinalizer"
        /\ \/ /\ FarFresh(rec.uid, rec.far)
              /\ StoreFar(rec.uid, withFinalizer)
              /\ \/ /\ UNCHANGED faults
                    /\ rec' = [rec EXCEPT !.pc = "status", !.res = "requeue",
                                 !.far = SetConditions(Started, far'[rec.uid])]
                 \/ ApiError /\ failed
           \/ /\ Refused(FarFresh(rec.uid, rec.far))
              /\ failed
              /\ UNCHANGED farVars
        /\ UNCHANGED <<farCache, nodeVars, queue, notCluster>>

(***************************************************************************)
(* AppendTaint and RemoveTaint read the node from the cache.  There is     *)
(* nothing to do if it is not there, or has (lacks) the taint already.     *)
(***************************************************************************)
TaintExists(o, t) == t \in o.taints

NodeFresh(n) == node[n].exists /\ nodeCache[n].rv = node[n].rv

NothingToAppend(n, t) == ~nodeCache[n].exists \/ TaintExists(nodeCache[n], t)
NothingToRemove(n, t) == ~nodeCache[n].exists \/ ~TaintExists(nodeCache[n], t)

\* The call returns without an error.
AppendTaint(n, t) ==
    /\ \/ NothingToAppend(n, t) /\ UNCHANGED nodeVars
       \/ /\ ~NothingToAppend(n, t) /\ NodeFresh(n)
          /\ StoreNode(n, [node[n] EXCEPT !.taints = @ \cup {t}])
    /\ UNCHANGED faults

AppendTaintFails(n, t) ==
    /\ ~NothingToAppend(n, t)
    /\ \/ Refused(NodeFresh(n)) /\ UNCHANGED nodeVars
       \/ /\ NodeFresh(n) /\ ApiError
          /\ StoreNode(n, [node[n] EXCEPT !.taints = @ \cup {t}])

\* Returns nil, or a not-found error that handleFARDeletion takes for success.
RemoveTaint(n, t) ==
    /\ \/ NothingToRemove(n, t) /\ UNCHANGED nodeVars
       \/ ~NothingToRemove(n, t) /\ ~node[n].exists /\ UNCHANGED nodeVars
       \/ /\ ~NothingToRemove(n, t) /\ NodeFresh(n)
          /\ StoreNode(n, [node[n] EXCEPT !.taints = @ \ {t}])
    /\ UNCHANGED faults

RemoveTaintFails(n, t) ==
    /\ ~NothingToRemove(n, t) /\ node[n].exists
    /\ \/ Refused(NodeFresh(n)) /\ UNCHANGED nodeVars
       \/ /\ NodeFresh(n) /\ ApiError
          /\ StoreNode(n, [node[n] EXCEPT !.taints = @ \ {t}])

-----------------------------------------------------------------------------
\* Mutation: a CR that is processing is fenced, also when it has been fenced already.
NeedsFencingAgain(st) == st.processing = "True"

\* Mutation: the outcome of the fence agent is not looked at.
NeedsEvictionUnfenced(st) == st.succeeded # "True"

\* Line 191 and line 219: what to do for a CR whose node has been tainted.
NeedsFencing(st) == st.processing = "True" /\ st.fenceAgentActionSucceeded # "True"
NeedsEviction(st) == st.fenceAgentActionSucceeded = "True" /\ st.succeeded # "True"

\* Mutation: fencing goes ahead when the node could not be tainted.
AddTaintBestEffort ==
    /\ rec.pc = "addTaint"
    /\ \/ AppendTaint(NodeOf[rec.uid], RemediationTaint)
       \/ AppendTaintFails(NodeOf[rec.uid], RemediationTaint)
    /\ RecGoto(CASE NeedsFencing(rec.far.st) -> "execute"
                 [] NeedsEviction(rec.far.st) -> "evict"
                 [] OTHER -> "status")
    /\ UNCHANGED <<farVars, farCache, queue, notCluster>>

AddTaint ==
    /\ rec.pc = "addTaint"
    /\ \/ /\ AppendTaint(NodeOf[rec.uid], RemediationTaint)
          /\ RecGoto(CASE NeedsFencing(rec.far.st) -> "execute"
                       [] NeedsEviction(rec.far.st) -> "evict"
                       [] OTHER -> "status")
       \/ /\ AppendTaintFails(NodeOf[rec.uid], RemediationTaint)
          /\ RecReturn("requeue")
    /\ UNCHANGED <<farVars, farCache, queue, notCluster>>

\* Lines 195-216.  A permanent parameter error is dropped, a failing read of a
\* Secret is retried.
Execute ==
    /\ rec.pc = "execute"
    /\ \/ /\ Exists(rec.uid) \/ rec.uid \notin ParamsOk
          /\ RecReturn("done")
          /\ UNCHANGED <<routines, gor, faults>>
       \/ /\ ~Exists(rec.uid)
          /\ ApiError
          /\ RecReturn("requeue")
          /\ UNCHANGED <<routines, gor>>
       \/ /\ ~Exists(rec.uid) /\ rec.uid \in ParamsOk
          /\ AsyncExecute(rec.uid)
          /\ RecReturn("done")
          /\ UNCHANGED faults
    /\ UNCHANGED <<farVars, farCache, nodeVars, queue, agentOk, evicted>>

\* Lines 252-258, after the workloads are gone.
FinishRemediation ==
    /\ evicted' = [evicted EXCEPT ![rec.uid] = TRUE]
    /\ Remove(rec.uid)
    /\ rec' = [rec EXCEPT !.pc = "status",
                          !.far = SetConditions(FinishedSuccessfully, rec.far)]

\* Mutation: an error of DeletePods is logged and not returned.
EvictErrorSwallowed ==
    /\ rec.pc = "evict" /\ Strategy[rec.uid] = ResourceDeletion
    /\ \/ FinishRemediation /\ UNCHANGED faults
       \/ /\ ApiError
          /\ Remove(rec.uid)
          /\ rec' = [rec EXCEPT !.pc = "status",
                                !.far = SetConditions(FinishedSuccessfully, rec.far)]
          /\ UNCHANGED evicted
    /\ UNCHANGED <<farVars, farCache, nodeVars, queue, agentOk>>

\* DeletePods (external) works through the namespaces and stops at the first error.
EvictByResourceDeletion ==
    /\ rec.pc = "evict" /\ Strategy[rec.uid] = ResourceDeletion
    /\ \/ FinishRemediation /\ UNCHANGED faults
       \/ /\ ApiError
          /\ RecReturn("requeue")
          /\ UNCHANGED <<routines, gor, evicted>>
    /\ UNCHANGED <<farVars, farCache, nodeVars, queue, agentOk>>

EvictByOutOfServiceTaint ==
    /\ rec.pc = "evict" /\ Strategy[rec.uid] = OutOfServiceTaint
    /\ \/ AppendTaint(NodeOf[rec.uid], OOSTaint) /\ FinishRemediation
       \/ /\ AppendTaintFails(NodeOf[rec.uid], OOSTaint)
          /\ RecReturn("requeue")
          /\ UNCHANGED <<routines, gor, evicted>>
    /\ UNCHANGED <<farVars, farCache, queue, agentOk>>

-----------------------------------------------------------------------------
(***************************************************************************)
(* handleFARDeletion.  A conflict is retried after a second, other errors  *)
(* by the rate limiter.                                                    *)
(***************************************************************************)
RemoveOOSTaint ==
    /\ rec.pc = "removeOOS"
    /\ \/ RemoveTaint(NodeOf[rec.uid], OOSTaint) /\ RecGoto("removeTaint")
       \/ RemoveTaintFails(NodeOf[rec.uid], OOSTaint) /\ RecReturn("requeue")
    /\ UNCHANGED <<farVars, farCache, queue, notCluster>>

\* Mutation: an error of RemoveTaint is logged and the finalizer removed.
RemoveTaintErrorSwallowed ==
    /\ rec.pc = "removeTaint"
    /\ \/ RemoveTaint(NodeOf[rec.uid], RemediationTaint)
       \/ RemoveTaintFails(NodeOf[rec.uid], RemediationTaint)
    /\ RecGoto("removeFinalizer")
    /\ UNCHANGED <<farVars, farCache, queue, notCluster>>

\* Mutation: an error of RemoveTaint is not retried.
RemoveTaintNoRequeue ==
    /\ rec.pc = "removeTaint"
    /\ \/ RemoveTaint(NodeOf[rec.uid], RemediationTaint) /\ RecGoto("removeFinalizer")
       \/ RemoveTaintFails(NodeOf[rec.uid], RemediationTaint) /\ RecReturn("done")
    /\ UNCHANGED <<farVars, farCache, queue, notCluster>>

RemoveRemediationTaint ==
    /\ rec.pc = "removeTaint"
    /\ \/ RemoveTaint(NodeOf[rec.uid], RemediationTaint) /\ RecGoto("removeFinalizer")
       \/ RemoveTaintFails(NodeOf[rec.uid], RemediationTaint) /\ RecReturn("requeue")
    /\ UNCHANGED <<farVars, farCache, queue, notCluster>>

\* The last finalizer of a deleted CR: the server drops it.  Whatever the result,
\* the CR in memory has no finalizer any more and updateStatus skips it.
RemoveFinalizer ==
    /\ rec.pc = "removeFinalizer"
    /\ \/ /\ FarFresh(rec.uid, rec.far)
          /\ StoreFar(rec.uid, [rec.far EXCEPT !.phase = "gone", !.fin = FALSE])
          /\ \/ UNCHANGED faults /\ Finish("done")
             \/ ApiError /\ Finish("requeue")
       \/ /\ Refused(FarFresh(rec.uid, rec.far))
          /\ Finish("requeue")
          /\ UNCHANGED farVars
    /\ UNCHANGED <<farCache, nodeVars, notCluster>>

-----------------------------------------------------------------------------
(***************************************************************************)
(* The deferred updateStatus.                                              *)
(***************************************************************************)
UpdateStatus ==
    /\ rec.pc = "status"
    /\ \/ /\ FarFresh(rec.uid, rec.far)
          /\ StoreFarStatus(rec.uid, rec.far.st)
          /\ \/ /\ UNCHANGED <<faults, queue>>
                /\ rec' = [rec EXCEPT !.pc = "poll", !.far = far'[rec.uid]]
             \/ ApiError /\ Finish("requeue")
       \/ /\ Refused(FarFresh(rec.uid, rec.far))
          /\ Finish("requeue")
          /\ UNCHANGED farVars
    /\ UNCHANGED <<farCache, nodeVars, notCluster>>

(***************************************************************************)
(* The wait for the cache compares timestamps of whole seconds, so it may  *)
(* be content with a version older than the one just written; it cannot be *)
(* with one that has no timestamp.                                         *)
(***************************************************************************)
PollSatisfiable(o) == ~Present(o) \/ o.st.why # "none"

PollDone ==
    /\ rec.pc = "poll"
    /\ PollSatisfiable(farCache[rec.uid])
    /\ Finish(rec.res)
    /\ UNCHANGED <<farVars, farCache, nodeVars, faults, notCluster>>

PollTimesOut ==
    /\ rec.pc = "poll"
    /\ \/ ~PollSatisfiable(farCache[rec.uid])
       \/ /\ Present(farCache[rec.uid]) /\ farCache[rec.uid].rv < rec.far.rv
          /\ farCache[rec.uid].st # rec.far.st
    /\ Finish("requeue")
    /\ UNCHANGED <<farVars, farCache, nodeVars, faults, notCluster>>

-----------------------------------------------------------------------------
(***************************************************************************)
(* The manager dies, or loses its lease and exits, and starts again: the   *)
(* goroutines, the routines map and the workqueue are lost, the caches     *)
(* list everything anew and enqueue what they find.                        *)
(***************************************************************************)
Restart ==
    /\ rec' = Idle
    /\ routines' = [u \in FARs |-> None]
    /\ gor' = [s \in Slots |-> FreeSlot]
    /\ farCache' = far
    /\ farPending' = [u \in FARs |-> {}]
    /\ nodeCache' = node
    /\ nodePending' = [n \in Nodes |-> {}]
    /\ queue' = {u \in FARs : Present(far[u])}
    /\ UNCHANGED <<far, node, agentOk, evicted>>

Crash ==
    /\ faults.crash < MaxCrashes
    /\ faults' = [faults EXCEPT !.crash = @ + 1]
    /\ Restart

ExecuterPanic(s) ==
    /\ GetPanics(s)
    /\ Restart
    /\ UNCHANGED faults

-----------------------------------------------------------------------------
Reconcile(u) ==
    \/ ReconcileNotFound(u) \/ ReconcileDeletionPanic(u) \/ ReconcileDeletion(u)
    \/ ReconcileTimedOutByNHC(u) \/ ReconcileNodeNotFound(u) \/ ReconcileRemediation(u)

WorkerStep ==
    \/ AddFinalizer \/ AddTaint \/ Execute
    \/ EvictByResourceDeletion \/ EvictByOutOfServiceTaint
    \/ RemoveOOSTaint \/ RemoveRemediationTaint \/ RemoveFinalizer
    \/ UpdateStatus \/ PollDone \/ PollTimesOut

Next ==
    \/ ClusterNext /\ UNCHANGED <<execVars, rec, evicted>>
    \/ \E s \in Slots : RoutineStep(s) /\ UNCHANGED <<rec, evicted>>
    \/ \E s \in Slots : ExecuterPanic(s)
    \/ \E u \in FARs : Reconcile(u)
    \/ WorkerStep
    \/ Crash

(***************************************************************************)
(* Fairness: watch events arrive, the workqueue is first-in first-out, API *)
(* calls and polls return, and a goroutine goes on (a fence agent ends,    *)
(* at the latest killed by its time-out).                                  *)
(***************************************************************************)
Fairness ==
    LET alone(A) == A /\ UNCHANGED <<execVars, rec, evicted>>
    IN  /\ \A u \in FARs : WF_vars(alone(DeliverFar(u)))
        /\ \A n \in Nodes : WF_vars(alone(DeliverNode(n)))
        /\ \A u \in FARs : SF_vars(Reconcile(u))
        /\ WF_vars(WorkerStep)
        /\ \A s \in Slots : WF_vars(RoutineStep(s) /\ UNCHANGED <<rec, evicted>>)

Spec == Init /\ [][Next]_vars /\ Fairness

=============================================================================

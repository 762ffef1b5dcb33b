-------------------------- MODULE RemediationProofs --------------------------
(***************************************************************************)
(* Proofs about the remediation, for every set of CRs, nodes and           *)
(* goroutines and every value of the bounds.                               *)
(***************************************************************************)
EXTENDS RemediationProperties, TLAPS

-----------------------------------------------------------------------------
(***************************************************************************)
(* Types of the helpers.                                                   *)
(***************************************************************************)

\* NoConditions and whatever UpdateConditions makes of a status are statuses.
LEMMA UpdateConditionsType ==
    /\ NoConditions \in Status
    /\ \A reason \in ConditionsChangeReason, st \in Status :
          UpdateConditions(reason, st) \in Status
<1>1. NoConditions \in Status
  BY DEF NoConditions, Status, ConditionStatus
<1>2. ASSUME NEW reason \in ConditionsChangeReason, NEW st \in Status
      PROVE  UpdateConditions(reason, st) \in Status
  <2>1. Requested(reason, st) \in Status
    BY DEF Requested, Status, ConditionStatus
  <2>2. [Requested(reason, st) EXCEPT !.why = reason] \in Status
    BY <2>1 DEF Status
  <2> QED  BY <2>2 DEF UpdateConditions
<1> QED  BY <1>1, <1>2

\* A CR in memory stays one when its conditions are updated.
LEMMA SetConditionsType ==
    /\ NoFar \in FarObject
    /\ \A reason \in ConditionsChangeReason, o \in FarObject :
          SetConditions(reason, o) \in FarObject
  BY UpdateConditionsType DEF SetConditions, NoFar, FarObject

\* Storing a new version keeps the CRs and the pending events well-typed.
LEMMA StoreFarType ==
    ASSUME ClusterTypeOK, NEW u \in FARs, NEW obj \in FarObject, StoreFar(u, obj)
    PROVE  /\ far' \in [FARs -> FarObject]
           /\ farPending' \in [FARs -> SUBSET FarObject]
<1> DEFINE new == [obj EXCEPT !.rv = far[u].rv + 1]
<1>1. new \in FarObject
  BY DEF ClusterTypeOK, FarObject
<1> QED  BY <1>1 DEF ClusterTypeOK, StoreFar

\* The same for an update of the status.
LEMMA StoreFarStatusType ==
    ASSUME ClusterTypeOK, NEW u \in FARs, NEW st \in Status, StoreFarStatus(u, st)
    PROVE  /\ far' \in [FARs -> FarObject]
           /\ farPending' \in [FARs -> SUBSET FarObject]
<1>1. [far[u] EXCEPT !.st = st] \in FarObject
  BY DEF ClusterTypeOK, FarObject
<1>2. CASE st = far[u].st
  BY <1>2 DEF StoreFarStatus, ClusterTypeOK
<1>3. CASE st # far[u].st
  BY <1>1, <1>3, StoreFarType DEF StoreFarStatus
<1> QED  BY <1>2, <1>3

\* Storing a node keeps the nodes, their cache and its pending events well-typed.
LEMMA StoreNodeType ==
    ASSUME ClusterTypeOK, NEW n \in Nodes, NEW obj \in NodeObject, StoreNode(n, obj)
    PROVE  /\ node' \in [Nodes -> NodeObject]
           /\ nodeCache' \in [Nodes -> NodeObject]
           /\ nodePending' \in [Nodes -> SUBSET NodeObject]
<1> DEFINE new == [obj EXCEPT !.rv = node[n].rv + 1]
<1>1. new \in NodeObject
  BY DEF ClusterTypeOK, NodeObject
<1> QED  BY <1>1 DEF ClusterTypeOK, StoreNode

\* A failing API call only counts.
LEMMA ApiErrorType == ASSUME ClusterTypeOK, ApiError PROVE faults' \in Faults
  BY DEF ClusterTypeOK, ApiError, Faults

\* The updates of a goroutine's record.
LEMMA GoroutineType ==
    ASSUME NEW g \in Goroutine, NEW pc \in GorPC, NEW n \in Int, NEW err \in CmdErr,
           NEW o \in FarObject
    PROVE  /\ [g EXCEPT !.pc = pc, !.steps = n, !.cmdErr = err] \in Goroutine
           /\ [g EXCEPT !.pc = pc, !.steps = n, !.obj = o] \in Goroutine
           /\ [g EXCEPT !.pc = pc, !.obj = o] \in Goroutine
           /\ [g EXCEPT !.pc = pc] \in Goroutine
  BY DEF Goroutine

\* The values they take.
LEMMA GoroutineValues ==
    /\ {"run", "exec", "update", "get", "put"} \subseteq GorPC
    /\ {"nil", "failed", "interrupted"} \subseteq CmdErr
    /\ StatusSteps \in Int
    /\ FreeSlot \in Goroutine
  BY SetConditionsType DEF GorPC, CmdErr, StatusSteps, FreeSlot, Goroutine

\* The executor's two methods that change its state.
LEMMA RemoveType ==
    ASSUME ExecTypeOK, NEW u \in FARs, Remove(u)
    PROVE  /\ routines' \in [FARs -> Slots \cup {None}]
           /\ gor' \in [Slots -> Goroutine]
<1>1. \A s \in Slots : [gor[s] EXCEPT !.cancelled = TRUE] \in Goroutine
  BY DEF ExecTypeOK, Goroutine
<1> QED  BY <1>1 DEF ExecTypeOK, Remove

\* AsyncExecute starts a goroutine of the right type.
LEMMA AsyncExecuteType ==
    ASSUME ExecTypeOK, NEW u \in FARs, AsyncExecute(u)
    PROVE  /\ routines' \in [FARs -> Slots \cup {None}]
           /\ gor' \in [Slots -> Goroutine]
<1>1. [FreeSlot EXCEPT !.pc = "run", !.uid = u, !.steps = RetryCount] \in Goroutine
  BY SetConditionsType, ExecuterAssumption DEF FreeSlot, Goroutine, GorPC, CmdErr
<1> QED  BY <1>1 DEF ExecTypeOK, AsyncExecute

-----------------------------------------------------------------------------
(***************************************************************************)
(* Type correctness.                                                       *)
(***************************************************************************)

\* The initial state is well-typed.
LEMMA InitType == Init => TypeOK
<1> SUFFICES ASSUME Init PROVE TypeOK
  OBVIOUS
<1> USE DEF Init
<1>1. ClusterTypeOK
  BY SetConditionsType DEF ClusterInit, ClusterTypeOK, NodeObject, Faults
<1>2. ExecTypeOK
  BY GoroutineValues DEF ExecInit, NewExecuter, ExecTypeOK
<1>3. rec \in Worker
  BY SetConditionsType DEF Idle, Worker, WorkerPC
<1> QED  BY <1>1, <1>2, <1>3 DEF TypeOK

\* What the environment does keeps the cluster well-typed.
LEMMA ClusterNextType == ASSUME ClusterTypeOK, ClusterNext PROVE ClusterTypeOK'
<1> USE DEF ClusterTypeOK
<1>1. ASSUME NEW u \in FARs, DeliverFar(u) PROVE ClusterTypeOK'
  BY <1>1 DEF DeliverFar
<1>2. ASSUME NEW u \in FARs, Resync(u) PROVE ClusterTypeOK'
  BY <1>2 DEF Resync
<1>3. ASSUME NEW u \in FARs, CreateFar(u) PROVE ClusterTypeOK'
  <2>1. [NoFar EXCEPT !.phase = "present"] \in FarObject
    BY SetConditionsType DEF FarObject
  <2> QED  BY <1>3, <2>1, StoreFarType DEF CreateFar, nodesAndCaches
<1>4. ASSUME NEW u \in FARs, DeleteFar(u) PROVE ClusterTypeOK'
  <2>1. /\ [far[u] EXCEPT !.del = TRUE] \in FarObject
        /\ [far[u] EXCEPT !.phase = "gone"] \in FarObject
    BY DEF FarObject
  <2>2. far' \in [FARs -> FarObject] /\ farPending' \in [FARs -> SUBSET FarObject]
    BY <1>4, <2>1, StoreFarType DEF DeleteFar
  <2> QED  BY <1>4, <2>2 DEF DeleteFar, nodesAndCaches
<1>5. ASSUME NEW u \in FARs, AnnotateTimedOut(u) PROVE ClusterTypeOK'
  <2>1. [far[u] EXCEPT !.nhc = TRUE] \in FarObject
    BY DEF FarObject
  <2>2. faults' \in Faults
    BY <1>5 DEF AnnotateTimedOut, Faults
  <2> QED  BY <1>5, <2>1, <2>2, StoreFarType DEF AnnotateTimedOut, nodesAndCaches
<1>6. ASSUME NEW u \in FARs, EditFar(u) PROVE ClusterTypeOK'
  <2>1. faults' \in Faults
    BY <1>6 DEF EditFar, Edit, Faults
  <2> QED  BY <1>6, <2>1, StoreFarType DEF EditFar, nodesAndCaches
<1>7. ASSUME NEW n \in Nodes, DeliverNode(n) PROVE ClusterTypeOK'
  BY <1>7 DEF DeliverNode
<1>8. ASSUME NEW n \in Nodes, EditNode(n) PROVE ClusterTypeOK'
  <2>1. faults' \in Faults
    BY <1>8 DEF EditNode, Edit, Faults
  <2> QED  BY <1>8, <2>1, StoreNodeType DEF EditNode
<1>9. ASSUME NEW n \in Nodes, DeleteNode(n) PROVE ClusterTypeOK'
  <2>1. [node[n] EXCEPT !.exists = FALSE, !.taints = {}] \in NodeObject
    BY DEF NodeObject
  <2>2. faults' \in Faults
    BY <1>9 DEF DeleteNode, Faults
  <2> QED  BY <1>9, <2>1, <2>2, StoreNodeType DEF DeleteNode
<1>10. ASSUME NEW n \in Nodes, CreateNode(n) PROVE ClusterTypeOK'
  <2>1. [node[n] EXCEPT !.exists = TRUE] \in NodeObject
    BY DEF NodeObject
  <2> QED  BY <1>10, <2>1, StoreNodeType DEF CreateNode
<1> QED  BY <1>1, <1>2, <1>3, <1>4, <1>5, <1>6, <1>7, <1>8, <1>9, <1>10 DEF ClusterNext

\* A step of a goroutine keeps the cluster and the executor well-typed.
LEMMA RoutineStepType ==
    ASSUME TypeOK, NEW s \in Slots, RoutineStep(s),
           gor[s].pc # "free" => gor[s].uid \in FARs
    PROVE  ClusterTypeOK' /\ ExecTypeOK'
<1> USE DEF TypeOK
<1>r. Return(s) => gor' \in [Slots -> Goroutine]
  BY GoroutineValues DEF Return, Becomes, ExecTypeOK
<1>b. ASSUME NEW err \in CmdErr, BeginUpdate(s, err) PROVE gor' \in [Slots -> Goroutine]
  <2>1. [gor[s] EXCEPT !.pc = "update", !.steps = StatusSteps, !.cmdErr = err] \in Goroutine
    BY GoroutineType, GoroutineValues, SetConditionsType DEF ExecTypeOK
  <2> QED  BY <1>b, <2>1 DEF BeginUpdate, Becomes, ExecTypeOK
<1>g. ASSUME NEW pc \in GorPC, Goto(s, pc) PROVE gor' \in [Slots -> Goroutine]
  BY <1>g DEF Goto, Becomes, ExecTypeOK, Goroutine
<1>c. gor[s] \in Goroutine /\ gor[s].cmdErr \in CmdErr
  BY DEF ExecTypeOK, Goroutine
<1>1. CASE NextAttempt(s)
  <2>1. "exec" \in GorPC
    BY DEF GorPC
  <2>2. gor' \in [Slots -> Goroutine]
    BY <1>1, <1>r, <1>b, <1>g, <1>c, <2>1 DEF NextAttempt
  <2> QED  BY <1>1, <2>2 DEF NextAttempt, clusterVars, ClusterTypeOK, ExecTypeOK
<1>2. CASE CommandSucceeds(s)
  <2>1. gor' \in [Slots -> Goroutine]
    BY <1>2, <1>b DEF CommandSucceeds, CmdErr
  <2> QED  BY <1>2, <2>1 DEF CommandSucceeds, clusterVars, ClusterTypeOK, ExecTypeOK
<1>3. CASE CommandFails(s)
  <2>0. [gor[s] EXCEPT !.pc = "run", !.steps = gor[s].steps - 1, !.cmdErr = "failed"] \in Goroutine
    <3>1. gor[s].steps - 1 \in Int
      BY <1>c DEF Goroutine
    <3> QED  BY <3>1, <1>c, GoroutineType, GoroutineValues, SetConditionsType
  <2>1. gor' \in [Slots -> Goroutine]
    BY <1>3, <2>0 DEF CommandFails, Becomes, ExecTypeOK
  <2> QED  BY <1>3, <2>1 DEF CommandFails, clusterVars, ClusterTypeOK, ExecTypeOK
<1>4. CASE CommandInterrupted(s)
  <2>1. gor' \in [Slots -> Goroutine]
    BY <1>4, <1>r, <1>b DEF CommandInterrupted, CmdErr
  <2> QED  BY <1>4, <2>1 DEF CommandInterrupted, clusterVars, ClusterTypeOK, ExecTypeOK
<1>5. CASE NextUpdate(s)
  <2>1. gor' \in [Slots -> Goroutine]
    BY <1>5, <1>r, <1>g DEF NextUpdate, GorPC
  <2> QED  BY <1>5, <2>1 DEF NextUpdate, clusterVars, ClusterTypeOK, ExecTypeOK
<1>6. CASE GetByUID(s)
  <2> DEFINE put == WithOutcome(farCache[gor[s].uid], gor[s].cmdErr)
  <2>1. OutcomeReason(gor[s].cmdErr) \in ConditionsChangeReason
    BY DEF OutcomeReason, ConditionsChangeReason, AgentOutcome
  <2>2. ASSUME gor[s].uid \in FARs PROVE put \in FarObject
    BY <2>1, <2>2, SetConditionsType DEF WithOutcome, SetConditions, ClusterTypeOK
  <2>3. ASSUME gor[s].uid \in FARs PROVE [gor[s] EXCEPT !.pc = "put", !.obj = put] \in Goroutine
    BY <2>2, <2>3, <1>c, GoroutineType, GoroutineValues
  <2>4. gor' \in [Slots -> Goroutine]
    BY <1>6, <1>r, <2>3 DEF GetByUID, Becomes, Listed, ExecTypeOK
  <2> QED  BY <1>6, <2>4 DEF GetByUID, clusterVars, ClusterTypeOK, ExecTypeOK
<1>7. CASE PutAccepted(s)
  <2>1. gor[s].uid \in FARs /\ gor[s].obj.st \in Status
    BY <1>7, <1>c DEF PutAccepted, Goroutine, FarObject
  <2>2. far' \in [FARs -> FarObject] /\ farPending' \in [FARs -> SUBSET FarObject]
    BY <1>7, <2>1, StoreFarStatusType DEF PutAccepted
  <2> QED  BY <1>7, <1>r, <2>2 DEF PutAccepted, ClusterTypeOK, ExecTypeOK
<1>8. CASE PutConflict(s)
  <2>0. [gor[s] EXCEPT !.pc = "update", !.steps = gor[s].steps - 1, !.obj = NoFar] \in Goroutine
    <3>1. gor[s].steps - 1 \in Int
      BY <1>c DEF Goroutine
    <3> QED  BY <3>1, <1>c, GoroutineType, GoroutineValues, SetConditionsType
  <2>1. gor' \in [Slots -> Goroutine]
    BY <1>8, <2>0 DEF PutConflict, Becomes, ExecTypeOK
  <2> QED  BY <1>8, <2>1 DEF PutConflict, clusterVars, ClusterTypeOK, ExecTypeOK
<1>9. CASE PutFails(s)
  <2>1. faults' \in Faults
    BY <1>9, ApiErrorType DEF PutFails, ClusterTypeOK
  <2> QED  BY <1>9, <1>r, <2>1 DEF PutFails, ClusterTypeOK, ExecTypeOK
<1> QED  BY <1>1, <1>2, <1>3, <1>4, <1>5, <1>6, <1>7, <1>8, <1>9 DEF RoutineStep

\* Goroutines that run and a worker that is not idle have a CR.
Owned ==
    /\ \A s \in Slots : gor[s].pc # "free" => gor[s].uid \in FARs
    /\ rec.pc # "idle" => rec.uid \in FARs

TypeInv == TypeOK /\ Owned

\* The start of Reconcile and its steps keep the types.
LEMMA ReconcileType ==
    ASSUME TypeInv, NEW u \in FARs, Reconcile(u)
    PROVE  TypeOK'
<1> USE DEF TypeInv, TypeOK
<1>o. farCache[u] \in FarObject
  BY DEF ClusterTypeOK
<1>q. Reconciles(u) => queue' \in SUBSET FARs
  BY DEF Reconciles, ClusterTypeOK
<1>b. ASSUME NEW pc \in WorkerPC, NEW o \in FarObject, NEW res \in {"done", "requeue"},
             Begin(u, pc, o, res)
      PROVE  rec' \in Worker
  BY <1>b DEF Begin, Worker
<1>c. /\ NodeNotFound \in ConditionsChangeReason
      /\ InterruptedByNHC \in ConditionsChangeReason
  BY DEF ConditionsChangeReason
<1>1. CASE ReconcileNotFound(u)
  BY <1>1, <1>q DEF ReconcileNotFound, allButRecAndQueue, ClusterTypeOK, ExecTypeOK
<1>2. CASE ReconcileDeletionPanic(u)
  <2>1. rec' \in Worker
    BY <1>2, <1>o, <1>b DEF ReconcileDeletionPanic, WorkerPC
  <2> QED  BY <1>2, <1>q, <2>1
           DEF ReconcileDeletionPanic, allButRecAndQueue, ClusterTypeOK, ExecTypeOK
<1>3. CASE ReconcileDeletion(u)
  <2>1. rec' \in Worker
    BY <1>3, <1>o, <1>b DEF ReconcileDeletion, WorkerPC
  <2>2. routines' \in [FARs -> Slots \cup {None}] /\ gor' \in [Slots -> Goroutine]
    BY <1>3, RemoveType DEF ReconcileDeletion
  <2> QED  BY <1>3, <1>q, <2>1, <2>2
           DEF ReconcileDeletion, allButRecAndQueue, ClusterTypeOK, ExecTypeOK
<1>4. CASE ReconcileTimedOutByNHC(u)
  <2>1. SetConditions(InterruptedByNHC, farCache[u]) \in FarObject
    BY <1>o, <1>c, SetConditionsType
  <2>2. rec' \in Worker
    BY <1>4, <2>1, <1>b DEF ReconcileTimedOutByNHC, WorkerPC
  <2>3. routines' \in [FARs -> Slots \cup {None}] /\ gor' \in [Slots -> Goroutine]
    BY <1>4, RemoveType DEF ReconcileTimedOutByNHC
  <2> QED  BY <1>4, <1>q, <2>2, <2>3
           DEF ReconcileTimedOutByNHC, allButRecAndQueue, ClusterTypeOK, ExecTypeOK
<1>5. CASE ReconcileNodeNotFound(u)
  <2>1. SetConditions(NodeNotFound, farCache[u]) \in FarObject
    BY <1>o, <1>c, SetConditionsType
  <2>2. rec' \in Worker
    BY <1>5, <2>1, <1>b DEF ReconcileNodeNotFound, WorkerPC
  <2> QED  BY <1>5, <1>q, <2>2
           DEF ReconcileNodeNotFound, allButRecAndQueue, ClusterTypeOK, ExecTypeOK
<1>6. CASE ReconcileRemediation(u)
  <2>1. rec' \in Worker
    BY <1>6, <1>o, <1>b DEF ReconcileRemediation, WorkerPC
  <2> QED  BY <1>6, <1>q, <2>1
           DEF ReconcileRemediation, allButRecAndQueue, ClusterTypeOK, ExecTypeOK
<1> QED  BY <1>1, <1>2, <1>3, <1>4, <1>5, <1>6 DEF Reconcile

\* The four node updates keep the nodes well-typed.
LEMMA TaintCallType ==
    ASSUME ClusterTypeOK, NEW n \in Nodes, NEW t \in Taint,
           \/ AppendTaint(n, t) \/ AppendTaintFails(n, t)
           \/ RemoveTaint(n, t) \/ RemoveTaintFails(n, t)
    PROVE  /\ node' \in [Nodes -> NodeObject]
           /\ nodeCache' \in [Nodes -> NodeObject]
           /\ nodePending' \in [Nodes -> SUBSET NodeObject]
           /\ faults' \in Faults
<1>1. /\ [node[n] EXCEPT !.taints = @ \cup {t}] \in NodeObject
      /\ [node[n] EXCEPT !.taints = @ \ {t}] \in NodeObject
  BY DEF ClusterTypeOK, NodeObject
<1>2. UNCHANGED nodeVars => /\ node' \in [Nodes -> NodeObject]
                            /\ nodeCache' \in [Nodes -> NodeObject]
                            /\ nodePending' \in [Nodes -> SUBSET NodeObject]
  BY DEF nodeVars, ClusterTypeOK
<1>3. UNCHANGED faults \/ ApiError => faults' \in Faults
  BY ApiErrorType DEF ClusterTypeOK
<1>4. CASE AppendTaint(n, t)
  BY <1>1, <1>2, <1>3, <1>4, StoreNodeType DEF AppendTaint
<1>5. CASE AppendTaintFails(n, t)
  BY <1>1, <1>2, <1>3, <1>5, StoreNodeType DEF AppendTaintFails, Refused
<1>6. CASE RemoveTaint(n, t)
  BY <1>1, <1>2, <1>3, <1>6, StoreNodeType DEF RemoveTaint
<1>7. CASE RemoveTaintFails(n, t)
  BY <1>1, <1>2, <1>3, <1>7, StoreNodeType DEF RemoveTaintFails, Refused
<1> QED  BY <1>4, <1>5, <1>6, <1>7

\* A step of the worker keeps the types.
LEMMA WorkerStepType == ASSUME TypeInv, WorkerStep PROVE TypeOK'
<1> USE DEF TypeInv, TypeOK
<1> DEFINE u == rec.uid
           n == NodeOf[rec.uid]
<1>r. rec.far \in FarObject /\ rec.far.st \in Status /\ rec.res \in {"done", "requeue"}
  BY DEF Worker, FarObject
<1>u. rec.pc # "idle" => u \in FARs /\ n \in Nodes
  BY ClusterAssumption DEF Owned
<1>w. /\ \A pc \in WorkerPC : [rec EXCEPT !.pc = pc] \in Worker
      /\ \A res \in {"done", "requeue"} : [rec EXCEPT !.pc = "status", !.res = res] \in Worker
      /\ \A o \in FarObject : /\ [rec EXCEPT !.pc = "status", !.far = o] \in Worker
                              /\ [rec EXCEPT !.pc = "poll", !.far = o] \in Worker
                              /\ [rec EXCEPT !.pc = "status", !.far = o, !.res = "requeue"]
                                    \in Worker
                              /\ [rec EXCEPT !.pc = "status", !.res = "requeue", !.far = o]
                                    \in Worker
  BY DEF Worker, WorkerPC
<1>f. ASSUME NEW res, Finish(res), u \in FARs PROVE rec' \in Worker /\ queue' \in SUBSET FARs
  BY <1>f, SetConditionsType DEF Finish, Idle, Worker, WorkerPC, ClusterTypeOK
<1>e. UNCHANGED faults \/ ApiError => faults' \in Faults
  BY ApiErrorType DEF ClusterTypeOK
<1>t. Taint = {RemediationTaint, OOSTaint}
  BY DEF Taint
<1>1. CASE AddFinalizer
  <2> DEFINE new == [rec.far EXCEPT !.fin = TRUE]
  <2>0. u \in FARs /\ new \in FarObject
    BY <1>1, <1>u, <1>r DEF AddFinalizer, FarObject
  <2>1. CASE StoreFar(u, new)
    <3>1. far' \in [FARs -> FarObject] /\ farPending' \in [FARs -> SUBSET FarObject]
      BY <2>0, <2>1, StoreFarType
    <3>2. SetConditions(Started, far'[u]) \in FarObject
      BY <2>0, <3>1, SetConditionsType DEF ConditionsChangeReason
    <3>3. rec' \in Worker /\ faults' \in Faults
      BY <1>1, <1>w, <1>e, <2>0, <3>2 DEF AddFinalizer, Refused
    <3> QED  BY <1>1, <3>1, <3>3
             DEF AddFinalizer, nodeVars, notCluster, ClusterTypeOK, ExecTypeOK
  <2>2. CASE UNCHANGED farVars /\ rec' = [rec EXCEPT !.pc = "status", !.far = new,
                                                   !.res = "requeue"]
    <3>1. rec' \in Worker
      BY <1>w, <2>0, <2>2
    <3>2. faults' \in Faults
      BY <1>1, <1>e DEF AddFinalizer, Refused
    <3> QED  BY <1>1, <2>2, <3>1, <3>2
             DEF AddFinalizer, farVars, nodeVars, notCluster, ClusterTypeOK, ExecTypeOK
  <2> QED  BY <1>1, <2>1, <2>2 DEF AddFinalizer
<1>2. CASE AddTaint
  <2>1. rec' \in Worker
    BY <1>2, <1>w DEF AddTaint, RecGoto, RecReturn, WorkerPC
  <2>2. /\ node' \in [Nodes -> NodeObject] /\ nodeCache' \in [Nodes -> NodeObject]
        /\ nodePending' \in [Nodes -> SUBSET NodeObject] /\ faults' \in Faults
    BY <1>2, <1>u, <1>t, TaintCallType DEF AddTaint
  <2> QED  BY <1>2, <2>1, <2>2 DEF AddTaint, farVars, notCluster, ClusterTypeOK, ExecTypeOK
<1>3. CASE Execute
  <2>1. rec' \in Worker /\ faults' \in Faults
    BY <1>3, <1>w, <1>e DEF Execute, RecReturn
  <2>2. routines' \in [FARs -> Slots \cup {None}] /\ gor' \in [Slots -> Goroutine]
    BY <1>3, <1>u, AsyncExecuteType DEF Execute, ExecTypeOK
  <2> QED  BY <1>3, <2>1, <2>2 DEF Execute, farVars, nodeVars, ClusterTypeOK, ExecTypeOK
<1>f2. ASSUME FinishRemediation, u \in FARs
       PROVE  /\ rec' \in Worker /\ evicted' \in [FARs -> BOOLEAN]
              /\ routines' \in [FARs -> Slots \cup {None}] /\ gor' \in [Slots -> Goroutine]
  <2>1. SetConditions(FinishedSuccessfully, rec.far) \in FarObject
    BY <1>r, SetConditionsType DEF ConditionsChangeReason
  <2>2. rec' \in Worker
    BY <1>f2, <1>w, <2>1 DEF FinishRemediation
  <2> QED  BY <1>f2, <2>2, RemoveType DEF FinishRemediation
<1>4. CASE EvictByResourceDeletion
  <2>1. /\ rec' \in Worker /\ evicted' \in [FARs -> BOOLEAN]
        /\ routines' \in [FARs -> Slots \cup {None}] /\ gor' \in [Slots -> Goroutine]
    BY <1>4, <1>w, <1>u, <1>f2 DEF EvictByResourceDeletion, RecReturn, ExecTypeOK
  <2>2. faults' \in Faults
    BY <1>4, <1>e DEF EvictByResourceDeletion
  <2> QED  BY <1>4, <2>1, <2>2
           DEF EvictByResourceDeletion, farVars, nodeVars, ClusterTypeOK, ExecTypeOK
<1>5. CASE EvictByOutOfServiceTaint
  <2>1. /\ rec' \in Worker /\ evicted' \in [FARs -> BOOLEAN]
        /\ routines' \in [FARs -> Slots \cup {None}] /\ gor' \in [Slots -> Goroutine]
    BY <1>5, <1>w, <1>u, <1>f2 DEF EvictByOutOfServiceTaint, RecReturn, ExecTypeOK
  <2>2. /\ node' \in [Nodes -> NodeObject] /\ nodeCache' \in [Nodes -> NodeObject]
        /\ nodePending' \in [Nodes -> SUBSET NodeObject] /\ faults' \in Faults
    BY <1>5, <1>u, <1>t, TaintCallType DEF EvictByOutOfServiceTaint
  <2> QED  BY <1>5, <2>1, <2>2
           DEF EvictByOutOfServiceTaint, farVars, ClusterTypeOK, ExecTypeOK
<1>6. CASE RemoveOOSTaint
  <2>1. rec' \in Worker
    BY <1>6, <1>w DEF RemoveOOSTaint, RecGoto, RecReturn, WorkerPC
  <2>2. /\ node' \in [Nodes -> NodeObject] /\ nodeCache' \in [Nodes -> NodeObject]
        /\ nodePending' \in [Nodes -> SUBSET NodeObject] /\ faults' \in Faults
    BY <1>6, <1>u, <1>t, TaintCallType DEF RemoveOOSTaint
  <2> QED  BY <1>6, <2>1, <2>2 DEF RemoveOOSTaint, farVars, notCluster, ClusterTypeOK, ExecTypeOK
<1>7. CASE RemoveRemediationTaint
  <2>1. rec' \in Worker
    BY <1>7, <1>w DEF RemoveRemediationTaint, RecGoto, RecReturn, WorkerPC
  <2>2. /\ node' \in [Nodes -> NodeObject] /\ nodeCache' \in [Nodes -> NodeObject]
        /\ nodePending' \in [Nodes -> SUBSET NodeObject] /\ faults' \in Faults
    BY <1>7, <1>u, <1>t, TaintCallType DEF RemoveRemediationTaint
  <2> QED  BY <1>7, <2>1, <2>2
           DEF RemoveRemediationTaint, farVars, notCluster, ClusterTypeOK, ExecTypeOK
<1>8. CASE RemoveFinalizer
  <2>0. u \in FARs /\ [rec.far EXCEPT !.phase = "gone", !.fin = FALSE] \in FarObject
    BY <1>8, <1>u, <1>r DEF RemoveFinalizer, FarObject
  <2>1. rec' \in Worker /\ queue' \in SUBSET FARs /\ faults' \in Faults
    BY <1>8, <1>f, <1>e, <2>0 DEF RemoveFinalizer, Refused
  <2>2. far' \in [FARs -> FarObject] /\ farPending' \in [FARs -> SUBSET FarObject]
    BY <1>8, <2>0, StoreFarType DEF RemoveFinalizer, farVars, ClusterTypeOK
  <2> QED  BY <1>8, <2>1, <2>2
           DEF RemoveFinalizer, nodeVars, notCluster, ClusterTypeOK, ExecTypeOK
<1>9. CASE UpdateStatus
  <2>0. u \in FARs
    BY <1>9, <1>u DEF UpdateStatus
  <2>1. far' \in [FARs -> FarObject] /\ farPending' \in [FARs -> SUBSET FarObject]
    BY <1>9, <1>r, <2>0, StoreFarStatusType DEF UpdateStatus, farVars, ClusterTypeOK
  <2>2. far'[u] \in FarObject
    BY <2>0, <2>1
  <2>3. rec' \in Worker /\ queue' \in SUBSET FARs
    BY <1>9, <1>f, <1>w, <2>0, <2>2 DEF UpdateStatus, ClusterTypeOK
  <2>4. faults' \in Faults
    BY <1>9, <1>e DEF UpdateStatus, Refused
  <2> QED  BY <1>9, <2>1, <2>3, <2>4
           DEF UpdateStatus, nodeVars, notCluster, ClusterTypeOK, ExecTypeOK
<1>10. CASE PollDone
  BY <1>10, <1>f, <1>u
     DEF PollDone, farVars, nodeVars, notCluster, ClusterTypeOK, ExecTypeOK
<1>11. CASE PollTimesOut
  BY <1>11, <1>f, <1>u
     DEF PollTimesOut, farVars, nodeVars, notCluster, ClusterTypeOK, ExecTypeOK
<1> QED  BY <1>1, <1>2, <1>3, <1>4, <1>5, <1>6, <1>7, <1>8, <1>9, <1>10, <1>11
         DEF WorkerStep

\* A restart keeps the types.
LEMMA RestartType ==
    ASSUME TypeOK, Restart, faults' \in Faults
    PROVE  TypeOK'
<1>1. rec' \in Worker
  BY SetConditionsType DEF Restart, Idle, Worker, WorkerPC
<1>2. ExecTypeOK'
  BY GoroutineValues DEF Restart, TypeOK, ExecTypeOK
<1>3. ClusterTypeOK'
  BY DEF Restart, TypeOK, ClusterTypeOK
<1> QED  BY <1>1, <1>2, <1>3 DEF Restart, TypeOK

\* Every step keeps a CR with whatever runs.
LEMMA OwnedStep == ASSUME TypeInv, [Next]_vars PROVE Owned'
<1> USE DEF TypeInv
<1> DEFINE GorOwned == \A s \in Slots : gor[s].pc # "free" => gor[s].uid \in FARs
           RecOwned == rec.pc # "idle" => rec.uid \in FARs
<1>g. gor \in [Slots -> Goroutine] /\ rec \in Worker
  BY DEF TypeOK, ExecTypeOK
<1>m. ASSUME NEW u \in FARs, Remove(u) PROVE GorOwned'
  <2>1. \A s \in Slots : /\ gor'[s].pc = gor[s].pc
                         /\ gor'[s].uid = gor[s].uid
    BY <1>m, <1>g DEF Remove, Goroutine
  <2> QED  BY <2>1 DEF Owned
<1>a. ASSUME NEW u \in FARs, AsyncExecute(u) PROVE GorOwned'
  <2>1. [FreeSlot EXCEPT !.pc = "run", !.uid = u, !.steps = RetryCount].uid = u
    BY DEF FreeSlot
  <2> QED  BY <1>a, <1>g, <2>1 DEF AsyncExecute, Owned
<1>i. ASSUME rec' = Idle PROVE RecOwned'
  BY <1>i DEF Idle
<1>n. ASSUME NEW u \in FARs, NEW pc, NEW o, NEW res, Begin(u, pc, o, res) PROVE RecOwned'
  BY <1>n DEF Begin
<1>k. ASSUME rec'.uid = rec.uid, rec.pc # "idle" PROVE RecOwned'
  BY <1>k DEF Owned
<1>1. CASE ClusterNext /\ UNCHANGED <<execVars, rec, evicted>>
  BY <1>1 DEF execVars, Owned
<1>2. ASSUME NEW s \in Slots, RoutineStep(s), UNCHANGED <<rec, evicted>>
      PROVE  Owned'
  <2> SUFFICES GorOwned'
    BY <1>2 DEF Owned
  <2>1. gor[s].pc # "free" /\ gor[s].uid \in FARs
    BY <1>2 DEF RoutineStep, NextAttempt, CommandSucceeds, CommandFails, CommandInterrupted,
           NextUpdate, GetByUID, PutAccepted, PutConflict, PutFails, Owned
  <2>o. \A t \in Slots : gor[t].pc # "free" => gor[t].uid \in FARs
    BY DEF Owned
  <2>r. Return(s) => GorOwned'
    BY <1>g, <2>o DEF Return, Becomes, FreeSlot
  <2>g. ASSUME NEW pc, Goto(s, pc) PROVE GorOwned'
    BY <1>g, <2>o, <2>1, <2>g DEF Goto, Becomes, Goroutine
  <2>u. ASSUME NEW err, BeginUpdate(s, err) PROVE GorOwned'
    BY <1>g, <2>o, <2>1, <2>u DEF BeginUpdate, Becomes, Goroutine
  <2>2. CASE NextAttempt(s) \/ CommandSucceeds(s) \/ CommandInterrupted(s) \/ NextUpdate(s)
    BY <2>r, <2>g, <2>u, <2>2
       DEF NextAttempt, CommandSucceeds, CommandInterrupted, NextUpdate
  <2>3. CASE CommandFails(s)
    BY <1>g, <2>o, <2>1, <2>3 DEF CommandFails, Becomes, Goroutine
  <2>4. CASE GetByUID(s)
    BY <1>g, <2>o, <2>r, <2>1, <2>4 DEF GetByUID, Becomes, Goroutine
  <2>5. CASE PutConflict(s)
    BY <1>g, <2>o, <2>1, <2>5 DEF PutConflict, Becomes, Goroutine
  <2>6. CASE PutAccepted(s) \/ PutFails(s)
    BY <2>r, <2>6 DEF PutAccepted, PutFails
  <2> QED  BY <1>2, <2>2, <2>3, <2>4, <2>5, <2>6 DEF RoutineStep
<1>3. ASSUME Restart PROVE Owned'
  BY <1>3, <1>i DEF Restart, FreeSlot, Owned
<1>4. ASSUME NEW u \in FARs, Reconcile(u) PROVE Owned'
  <2>1. GorOwned'
    BY <1>4, <1>m DEF Reconcile, ReconcileNotFound, ReconcileDeletionPanic, ReconcileDeletion,
          ReconcileTimedOutByNHC, ReconcileNodeNotFound, ReconcileRemediation, Owned
  <2>2. RecOwned'
    BY <1>4, <1>n DEF Reconcile, ReconcileNotFound, ReconcileDeletionPanic, ReconcileDeletion,
          ReconcileTimedOutByNHC, ReconcileNodeNotFound, ReconcileRemediation, Owned
  <2> QED  BY <2>1, <2>2 DEF Owned
<1>5. ASSUME WorkerStep PROVE Owned'
  <2>1. rec.pc # "idle"
    BY <1>5 DEF WorkerStep, AddFinalizer, AddTaint, Execute, EvictByResourceDeletion,
          EvictByOutOfServiceTaint, RemoveOOSTaint, RemoveRemediationTaint, RemoveFinalizer,
          UpdateStatus, PollDone, PollTimesOut
  <2>2. rec.uid \in FARs
    BY <2>1 DEF Owned
  <2>3. GorOwned'
    BY <1>5, <1>m, <1>a, <2>2
       DEF WorkerStep, AddFinalizer, AddTaint, Execute, EvictByResourceDeletion,
          EvictByOutOfServiceTaint, RemoveOOSTaint, RemoveRemediationTaint, RemoveFinalizer,
          UpdateStatus, PollDone, PollTimesOut, FinishRemediation, notCluster, Owned
  <2>4. rec' = Idle \/ rec'.uid = rec.uid
    <3> USE <1>g DEF Worker
    <3>1. CASE AddFinalizer
      BY <3>1 DEF AddFinalizer
    <3>2. CASE AddTaint \/ Execute \/ RemoveOOSTaint \/ RemoveRemediationTaint
      BY <3>2 DEF AddTaint, Execute, RemoveOOSTaint, RemoveRemediationTaint, RecGoto, RecReturn
    <3>3. CASE EvictByResourceDeletion \/ EvictByOutOfServiceTaint
      BY <3>3 DEF EvictByResourceDeletion, EvictByOutOfServiceTaint, FinishRemediation, RecReturn
    <3>4. CASE RemoveFinalizer \/ PollDone \/ PollTimesOut
      BY <3>4 DEF RemoveFinalizer, PollDone, PollTimesOut, Finish
    <3>5. CASE UpdateStatus
      BY <3>5 DEF UpdateStatus, Finish
    <3> QED  BY <1>5, <3>1, <3>2, <3>3, <3>4, <3>5 DEF WorkerStep
  <2> QED  BY <2>1, <2>3, <2>4, <1>i, <1>k DEF Owned
<1>6. CASE UNCHANGED vars
  BY <1>6 DEF vars, execVars, Owned
<1> QED  BY <1>1, <1>2, <1>3, <1>4, <1>5, <1>6 DEF Next, Crash, ExecuterPanic

\* Every step keeps the types.
LEMMA TypeStep == ASSUME TypeInv, [Next]_vars PROVE TypeOK'
<1> USE DEF TypeInv
<1>1. CASE ClusterNext /\ UNCHANGED <<execVars, rec, evicted>>
  BY <1>1, ClusterNextType DEF TypeOK, ExecTypeOK, execVars
<1>2. ASSUME NEW s \in Slots, RoutineStep(s), UNCHANGED <<rec, evicted>>
      PROVE  TypeOK'
  BY <1>2, RoutineStepType DEF TypeOK, Owned
<1>3. ASSUME NEW s \in Slots, ExecuterPanic(s) PROVE TypeOK'
  BY <1>3, RestartType DEF ExecuterPanic, TypeOK, ClusterTypeOK
<1>4. ASSUME NEW u \in FARs, Reconcile(u) PROVE TypeOK'
  BY <1>4, ReconcileType
<1>5. CASE WorkerStep
  BY <1>5, WorkerStepType
<1>6. CASE Crash
  <2>1. faults' \in Faults
    BY <1>6 DEF Crash, TypeOK, ClusterTypeOK, Faults
  <2> QED  BY <1>6, <2>1, RestartType DEF Crash
<1>7. CASE UNCHANGED vars
  BY <1>7 DEF vars, clusterVars, execVars, TypeOK, ClusterTypeOK, ExecTypeOK
<1> QED  BY <1>1, <1>2, <1>3, <1>4, <1>5, <1>6, <1>7 DEF Next

\* Type correctness: in every reachable state the CRs, the caches, the executor and the
\* reconciler have values of their types, and whatever runs has a CR.
THEOREM TypeCorrect == Spec => [](TypeOK /\ Owned)
<1>1. Init => TypeInv
  BY InitType DEF TypeInv, Owned, Init, ExecInit, NewExecuter, FreeSlot, Idle
<1>2. TypeInv /\ [Next]_vars => TypeInv'
  BY TypeStep, OwnedStep DEF TypeInv
<1> QED  BY <1>1, <1>2, PTL DEF Spec, TypeInv

-----------------------------------------------------------------------------
(***************************************************************************)
(* Nothing is reported and nothing evicted before the node is fenced.      *)
(*                                                                         *)
(* The property of the CR at the server is inductive only together with    *)
(* the same property of every copy from which it is written later: the     *)
(* cached version, the versions on their way to the cache, the CR in the   *)
(* worker's memory and the CR a goroutine is about to put; and with what   *)
(* the goroutine's program counter says about its last command.            *)
(***************************************************************************)

\* A copy of the CR u says nothing that has not happened.
Truthful(o, u) ==
    /\ o.st.fenceAgentActionSucceeded = "True" => agentOk[u]
    /\ o.st.succeeded = "True" =>
          evicted[u] /\ o.st.fenceAgentActionSucceeded = "True" /\ o.st.processing = "False"

CopiesTruthful ==
    \A u \in FARs : /\ Truthful(far[u], u)
                    /\ Truthful(farCache[u], u)
                    /\ \A v \in farPending[u] : Truthful(v, u)

WorkerTruthful ==
    /\ rec.pc # "idle" => Truthful(rec.far, rec.uid)
    /\ rec.pc = "evict" => rec.far.st.fenceAgentActionSucceeded = "True"

\* A goroutine without an error to report has seen its fence agent succeed, or
\* will run it at least once.
GoroutineTruthful(g) ==
    /\ g.pc = "run" => g.steps > 0 \/ g.cmdErr # "nil"
    /\ g.pc \in {"update", "get", "put"} => g.cmdErr # "nil" \/ agentOk[g.uid]
    /\ g.pc = "put" => Truthful(g.obj, g.uid)

FencedInv ==
    /\ CopiesTruthful
    /\ WorkerTruthful
    /\ \A s \in Slots : GoroutineTruthful(gor[s])
    /\ EvictedOnlyIfFenced

\* What UpdateConditions does to the two conditions the invariant is about.
LEMMA UpdateConditionsEffect ==
    ASSUME NEW st \in Status
    PROVE  /\ \A reason \in {NodeNotFound, InterruptedByNHC, AgentFailed, AgentTimedOut, Started} :
                /\ UpdateConditions(reason, st).fenceAgentActionSucceeded # "True"
                /\ UpdateConditions(reason, st).succeeded # "True"
           /\ LET new == UpdateConditions(AgentSucceeded, st)
              IN  /\ new.fenceAgentActionSucceeded = "True"
                  /\ new.succeeded = st.succeeded
                  /\ new.processing = st.processing
           /\ LET new == UpdateConditions(FinishedSuccessfully, st)
              IN  /\ new.succeeded = "True" /\ new.processing = "False"
                  /\ new.fenceAgentActionSucceeded = st.fenceAgentActionSucceeded
<1> USE DEF UpdateConditions, Requested, Status, NodeNotFound, InterruptedByNHC, AgentFailed,
            AgentTimedOut, Started, AgentSucceeded, FinishedSuccessfully
<1>1. \A reason \in {NodeNotFound, InterruptedByNHC, AgentFailed, AgentTimedOut, Started} :
         /\ UpdateConditions(reason, st).fenceAgentActionSucceeded # "True"
         /\ UpdateConditions(reason, st).succeeded # "True"
  OBVIOUS
<1>2. LET new == UpdateConditions(AgentSucceeded, st)
      IN  /\ new.fenceAgentActionSucceeded = "True"
          /\ new.succeeded = st.succeeded
          /\ new.processing = st.processing
  OBVIOUS
<1>3. LET new == UpdateConditions(FinishedSuccessfully, st)
      IN  /\ new.succeeded = "True" /\ new.processing = "False"
          /\ new.fenceAgentActionSucceeded = st.fenceAgentActionSucceeded
  OBVIOUS
<1> QED  BY <1>1, <1>2, <1>3

\* Storing a truthful version keeps every copy truthful.
LEMMA StoreFarTruthful ==
    ASSUME TypeOK, CopiesTruthful, NEW u \in FARs, NEW obj \in FarObject, StoreFar(u, obj),
           Truthful(obj, u), UNCHANGED <<farCache, agentOk, evicted>>
    PROVE  CopiesTruthful'
<1> DEFINE new == [obj EXCEPT !.rv = far[u].rv + 1]
<1>1. new.st = obj.st
  BY DEF FarObject
<1>2. \A v \in FARs : /\ far'[v] = IF v = u THEN new ELSE far[v]
                      /\ farPending'[v] = IF v = u THEN farPending[u] \cup {new}
                                                   ELSE farPending[v]
  BY DEF StoreFar, TypeOK, ClusterTypeOK
<1>3. ASSUME NEW v \in FARs
      PROVE  /\ Truthful(far[v], v)'
             /\ Truthful(farCache[v], v)'
             /\ \A w \in farPending'[v] : Truthful(w, v)'
  <2>1. Truthful(far[v], v)'
    <3>1. far'[v].st = IF v = u THEN obj.st ELSE far[v].st
      BY <1>1, <1>2
    <3>2. CASE v = u
      BY <3>1, <3>2 DEF Truthful
    <3>3. CASE v # u
      BY <3>1, <3>3 DEF CopiesTruthful, Truthful
    <3> QED  BY <3>2, <3>3
  <2>2. Truthful(farCache[v], v)'
    BY DEF CopiesTruthful, Truthful
  <2>3. ASSUME NEW w \in farPending'[v] PROVE Truthful(w, v)'
    <3>1. CASE w \in farPending[v]
      BY <3>1 DEF CopiesTruthful, Truthful
    <3>2. CASE v = u /\ w = new
      BY <3>2, <1>1 DEF Truthful
    <3> QED  BY <2>3, <3>1, <3>2, <1>2
  <2> QED  BY <2>1, <2>2, <2>3
<1> QED  BY <1>3 DEF CopiesTruthful

\* So does the status of a truthful object.
LEMMA StoreFarStatusTruthful ==
    ASSUME TypeOK, CopiesTruthful, NEW u \in FARs, NEW obj \in FarObject,
           StoreFarStatus(u, obj.st), Truthful(obj, u), UNCHANGED <<farCache, agentOk, evicted>>
    PROVE  CopiesTruthful'
<1> DEFINE new == [far[u] EXCEPT !.st = obj.st]
<1>1. new \in FarObject /\ new.st = obj.st
  BY DEF TypeOK, ClusterTypeOK, FarObject
<1>2. Truthful(new, u)
  BY <1>1 DEF Truthful
<1>3. CASE obj.st = far[u].st
  BY <1>3 DEF StoreFarStatus, CopiesTruthful, Truthful
<1>4. CASE obj.st # far[u].st
  BY <1>1, <1>2, <1>4, StoreFarTruthful DEF StoreFarStatus
<1> QED  BY <1>3, <1>4

\* What the environment stores has the status of a version that was there before.
LEMMA ClusterNextFenced ==
    ASSUME TypeInv, FencedInv, ClusterNext, UNCHANGED <<execVars, rec, evicted>>
    PROVE  FencedInv'
<1> USE DEF TypeInv
<1> SUFFICES CopiesTruthful'
  BY DEF FencedInv, WorkerTruthful, GoroutineTruthful, Truthful, EvictedOnlyIfFenced, execVars
<1>h. UNCHANGED <<agentOk, evicted>> /\ CopiesTruthful
  BY DEF execVars, FencedInv
<1>t. far \in [FARs -> FarObject]
  BY DEF TypeOK, ClusterTypeOK
<1>1. ASSUME NEW u \in FARs, DeliverFar(u) PROVE CopiesTruthful'
  BY <1>1, <1>h DEF DeliverFar, CopiesTruthful, Truthful, TypeOK, ClusterTypeOK
<1>2. ASSUME NEW u \in FARs, Resync(u) PROVE CopiesTruthful'
  BY <1>2, <1>h DEF Resync, CopiesTruthful, Truthful
<1>3. ASSUME NEW u \in FARs, CreateFar(u) PROVE CopiesTruthful'
  <2>1. /\ [NoFar EXCEPT !.phase = "present"] \in FarObject
        /\ Truthful([NoFar EXCEPT !.phase = "present"], u)
    BY SetConditionsType DEF FarObject, Truthful, NoFar, NoConditions
  <2> QED  BY <1>3, <1>h, <2>1, StoreFarTruthful DEF CreateFar, nodesAndCaches
<1>4. ASSUME NEW u \in FARs, DeleteFar(u) PROVE CopiesTruthful'
  <2>1. /\ [far[u] EXCEPT !.del = TRUE] \in FarObject
        /\ [far[u] EXCEPT !.del = TRUE].st = far[u].st
        /\ [far[u] EXCEPT !.phase = "gone"] \in FarObject
        /\ [far[u] EXCEPT !.phase = "gone"].st = far[u].st
    BY <1>t DEF FarObject
  <2>2. /\ Truthful([far[u] EXCEPT !.del = TRUE], u)
        /\ Truthful([far[u] EXCEPT !.phase = "gone"], u)
    BY <1>h, <2>1 DEF Truthful, CopiesTruthful
  <2> QED  BY <1>4, <1>h, <2>1, <2>2, StoreFarTruthful DEF DeleteFar, nodesAndCaches
<1>5. ASSUME NEW u \in FARs, AnnotateTimedOut(u) PROVE CopiesTruthful'
  <2>1. /\ [far[u] EXCEPT !.nhc = TRUE] \in FarObject
        /\ [far[u] EXCEPT !.nhc = TRUE].st = far[u].st
    BY <1>t DEF FarObject
  <2>2. Truthful([far[u] EXCEPT !.nhc = TRUE], u)
    BY <1>h, <2>1 DEF Truthful, CopiesTruthful
  <2> QED  BY <1>5, <1>h, <2>1, <2>2, StoreFarTruthful DEF AnnotateTimedOut, nodesAndCaches
<1>6. ASSUME NEW u \in FARs, EditFar(u) PROVE CopiesTruthful'
  <2>1. far[u] \in FarObject /\ Truthful(far[u], u)
    BY <1>t, <1>h DEF CopiesTruthful
  <2> QED  BY <1>6, <1>h, <2>1, StoreFarTruthful DEF EditFar, nodesAndCaches
<1>7. ASSUME NEW n \in Nodes, DeliverNode(n) \/ EditNode(n) \/ DeleteNode(n) \/ CreateNode(n)
      PROVE  CopiesTruthful'
  BY <1>7, <1>h DEF DeliverNode, EditNode, DeleteNode, CreateNode, CopiesTruthful, Truthful
<1> QED  BY <1>1, <1>2, <1>3, <1>4, <1>5, <1>6, <1>7 DEF ClusterNext

\* The histories only grow, and what was truthful before stays so.
Grow == \A u \in FARs : (agentOk[u] => agentOk'[u]) /\ (evicted[u] => evicted'[u])

\* Copies of a CR that nobody touches stay truthful.
LEMMA CopiesKept ==
    ASSUME CopiesTruthful, Grow, UNCHANGED <<far, farCache, farPending>>
    PROVE  CopiesTruthful'
  BY DEF CopiesTruthful, Truthful, Grow

\* So does the copy of a worker that does nothing,
LEMMA WorkerKept ==
    ASSUME TypeInv, WorkerTruthful, Grow, UNCHANGED rec
    PROVE  WorkerTruthful'
  BY DEF WorkerTruthful, Truthful, Grow, TypeInv, Owned

\* and a goroutine that does nothing.
LEMMA GoroutineKept ==
    ASSUME TypeInv, Grow, NEW s \in Slots, GoroutineTruthful(gor[s]), gor'[s] = gor[s]
    PROVE  GoroutineTruthful(gor[s])'
<1>1. gor[s].pc # "free" => gor[s].uid \in FARs
  BY DEF TypeInv, Owned
<1> QED  BY <1>1 DEF GoroutineTruthful, Truthful, Grow

\* The CR a goroutine sends reports success only after its agent's.
LEMMA WithOutcomeTruthful ==
    ASSUME NEW o \in FarObject, NEW u \in FARs, NEW err \in CmdErr, Truthful(o, u),
           err # "nil" \/ agentOk[u]
    PROVE  Truthful(WithOutcome(o, err), u)
<1>1. o.st \in Status /\ WithOutcome(o, err).st = UpdateConditions(OutcomeReason(err), o.st)
  BY DEF FarObject, WithOutcome
<1>2. CASE err = "nil"
  <2>1. OutcomeReason(err) = AgentSucceeded
    BY <1>2 DEF OutcomeReason
  <2> QED  BY <1>1, <1>2, <2>1, UpdateConditionsEffect DEF Truthful
<1>3. CASE err # "nil"
  <2>1. OutcomeReason(err) \in {AgentFailed, AgentTimedOut}
    BY <1>3 DEF OutcomeReason
  <2> QED  BY <1>1, <2>1, UpdateConditionsEffect DEF Truthful
<1> QED  BY <1>2, <1>3

\* A goroutine reports what its agent did.
LEMMA RoutineStepFenced ==
    ASSUME TypeInv, FencedInv, NEW s \in Slots, RoutineStep(s),
           UNCHANGED <<rec, evicted>>
    PROVE  FencedInv'
<1> USE DEF TypeInv
<1> DEFINE g == gor[s]
<1>g. gor \in [Slots -> Goroutine] /\ agentOk \in [FARs -> BOOLEAN]
  BY DEF TypeOK, ExecTypeOK
<1>f. far \in [FARs -> FarObject] /\ farCache \in [FARs -> FarObject]
  BY DEF TypeOK, ClusterTypeOK
<1>u. g.pc # "free" /\ g.uid \in FARs
  BY DEF RoutineStep, NextAttempt, CommandSucceeds, CommandFails, CommandInterrupted,
         NextUpdate, GetByUID, PutAccepted, PutConflict, PutFails, Owned
<1>t. GoroutineTruthful(g) /\ CopiesTruthful /\ WorkerTruthful
  BY DEF FencedInv
<1>o. \A t \in Slots \ {s} : gor'[t] = gor[t]
  BY <1>g DEF RoutineStep, NextAttempt, CommandSucceeds, CommandFails, CommandInterrupted,
         NextUpdate, GetByUID, PutAccepted, PutConflict, PutFails, BeginUpdate, Goto, Return,
         Becomes
<1>h. Grow
  BY <1>g DEF Grow, RoutineStep, NextAttempt, CommandSucceeds, CommandFails, CommandInterrupted,
         NextUpdate, GetByUID, PutAccepted, PutConflict, PutFails
<1>1. CopiesTruthful'
  <2>1. CASE PutAccepted(s)
    <3>1. g.obj \in FarObject /\ Truthful(g.obj, g.uid)
      BY <1>g, <1>t, <2>1 DEF PutAccepted, GoroutineTruthful, Goroutine
    <3> QED  BY <1>t, <1>u, <2>1, <3>1, StoreFarStatusTruthful DEF PutAccepted
  <2>2. CASE ~PutAccepted(s)
    <3>1. UNCHANGED <<far, farCache, farPending>>
      BY <2>2 DEF RoutineStep, NextAttempt, CommandSucceeds, CommandFails, CommandInterrupted,
         NextUpdate, GetByUID, PutConflict, PutFails, clusterVars
    <3> QED  BY <1>t, <1>h, <3>1, CopiesKept
  <2> QED  BY <2>1, <2>2
<1>2. WorkerTruthful'
  BY <1>t, <1>h, WorkerKept
<1>3. EvictedOnlyIfFenced'
  BY <1>h DEF FencedInv, EvictedOnlyIfFenced, Grow
<1>4. GoroutineTruthful(gor[s])'
  <2>r. Return(s) => GoroutineTruthful(gor[s])'
    BY <1>g DEF Return, Becomes, FreeSlot, GoroutineTruthful
  <2>u. ASSUME NEW err, BeginUpdate(s, err), err # "nil" \/ agentOk'[g.uid]
        PROVE  GoroutineTruthful(gor[s])'
    BY <1>g, <2>u DEF BeginUpdate, Becomes, Goroutine, GoroutineTruthful
  <2>1. CASE NextAttempt(s)
    <3>1. CASE g.steps <= 0 /\ BeginUpdate(s, g.cmdErr)
      <4>1. g.cmdErr # "nil"
        BY <1>t, <1>g, <2>1, <3>1 DEF NextAttempt, GoroutineTruthful, Goroutine
      <4> QED  BY <3>1, <4>1, <2>u
    <3>2. CASE Goto(s, "exec")
      BY <1>g, <3>2 DEF Goto, Becomes, Goroutine, GoroutineTruthful
    <3> QED  BY <2>1, <2>r, <3>1, <3>2 DEF NextAttempt
  <2>2. CASE CommandSucceeds(s)
    <3>1. agentOk'[g.uid]
      BY <1>g, <1>u, <2>2 DEF CommandSucceeds
    <3> QED  BY <2>2, <2>u, <3>1 DEF CommandSucceeds
  <2>3. CASE CommandFails(s)
    BY <1>g, <2>3 DEF CommandFails, Becomes, Goroutine, GoroutineTruthful
  <2>4. CASE CommandInterrupted(s)
    BY <2>4, <2>r, <2>u DEF CommandInterrupted
  <2>5. CASE NextUpdate(s)
    <3>1. CASE Goto(s, "get")
      <4>1. g.cmdErr # "nil" \/ agentOk'[g.uid]
        BY <1>t, <1>h, <1>u, <2>5 DEF NextUpdate, GoroutineTruthful, Grow
      <4> QED  BY <1>g, <3>1, <4>1 DEF Goto, Becomes, Goroutine, GoroutineTruthful
    <3> QED  BY <2>5, <2>r, <3>1 DEF NextUpdate
  <2>6. CASE GetByUID(s)
    <3> DEFINE new == WithOutcome(farCache[g.uid], g.cmdErr)
    <3>1. CASE Becomes(s, [g EXCEPT !.pc = "put", !.obj = new])
      <4>1. /\ g.cmdErr # "nil" \/ agentOk[g.uid]
            /\ g.cmdErr \in CmdErr /\ Truthful(farCache[g.uid], g.uid)
        BY <1>t, <1>u, <1>g, <2>6
           DEF GetByUID, GoroutineTruthful, CopiesTruthful, Goroutine
      <4>2. Truthful(new, g.uid)
        BY <1>f, <1>u, <4>1, WithOutcomeTruthful
      <4>3. /\ gor'[s].pc = "put" /\ gor'[s].uid = g.uid
            /\ gor'[s].obj = new /\ gor'[s].cmdErr = g.cmdErr
        BY <1>g, <3>1 DEF Becomes, Goroutine
      <4>4. UNCHANGED <<agentOk, evicted>>
        BY <2>6 DEF GetByUID
      <4> HIDE DEF new
      <4> QED  BY <4>1, <4>2, <4>3, <4>4 DEF GoroutineTruthful, Truthful
    <3> QED  BY <2>6, <2>r, <3>1 DEF GetByUID
  <2>7. CASE PutAccepted(s) \/ PutFails(s)
    BY <2>7, <2>r DEF PutAccepted, PutFails
  <2>8. CASE PutConflict(s)
    <3>1. PICK n, o : gor'[s] = [g EXCEPT !.pc = "update", !.steps = n, !.obj = o]
      BY <1>g, <2>8 DEF PutConflict, Becomes
    <3>2. g.cmdErr # "nil" \/ agentOk[g.uid]
      BY <1>t, <2>8 DEF PutConflict, GoroutineTruthful
    <3> QED  BY <1>g, <1>h, <1>u, <3>1, <3>2 DEF Goroutine, GoroutineTruthful, Grow
  <2> QED  BY <2>1, <2>2, <2>3, <2>4, <2>5, <2>6, <2>7, <2>8 DEF RoutineStep
<1>5. \A t \in Slots \ {s} : GoroutineTruthful(gor[t])'
  BY <1>o, <1>h, GoroutineKept DEF FencedInv
<1> QED  BY <1>1, <1>2, <1>3, <1>4, <1>5 DEF FencedInv

\* The executor's methods: Remove cancels and says nothing else; a goroutine that
\* AsyncExecute starts runs its agent at least once if RetryCount is positive.
LEMMA RemoveFenced ==
    ASSUME TypeInv, Grow, \A s \in Slots : GoroutineTruthful(gor[s]), NEW u \in FARs, Remove(u)
    PROVE  \A s \in Slots : GoroutineTruthful(gor[s])'
<1> SUFFICES ASSUME NEW s \in Slots PROVE GoroutineTruthful(gor[s])'
  OBVIOUS
<1>g. gor[s] \in Goroutine /\ (gor[s].pc # "free" => gor[s].uid \in FARs)
  BY DEF TypeInv, TypeOK, ExecTypeOK, Owned
<1>1. CASE gor'[s] = gor[s]
  BY <1>1, GoroutineKept
<1>2. CASE gor'[s] = [gor[s] EXCEPT !.cancelled = TRUE]
  <2>1. /\ gor'[s].pc = gor[s].pc /\ gor'[s].uid = gor[s].uid /\ gor'[s].obj = gor[s].obj
        /\ gor'[s].steps = gor[s].steps /\ gor'[s].cmdErr = gor[s].cmdErr
    BY <1>2, <1>g DEF Goroutine
  <2> QED  BY <1>g, <2>1 DEF GoroutineTruthful, Truthful, Grow
<1> QED  BY <1>1, <1>2 DEF Remove

\* A goroutine that AsyncExecute starts claims nothing yet: it still has to run its agent.
LEMMA AsyncExecuteFenced ==
    ASSUME RetryCount > 0, TypeInv, Grow, \A s \in Slots : GoroutineTruthful(gor[s]),
           NEW u \in FARs, AsyncExecute(u)
    PROVE  \A s \in Slots : GoroutineTruthful(gor[s])'
<1> SUFFICES ASSUME NEW s \in Slots PROVE GoroutineTruthful(gor[s])'
  OBVIOUS
<1>1. CASE gor'[s] = gor[s]
  BY <1>1, GoroutineKept
<1>2. CASE gor'[s] = [FreeSlot EXCEPT !.pc = "run", !.uid = u, !.steps = RetryCount]
  BY <1>2 DEF FreeSlot, GoroutineTruthful
<1> QED  BY <1>1, <1>2 DEF AsyncExecute, TypeInv, TypeOK, ExecTypeOK

\* The outcomes that are not a success make any copy truthful.
LEMMA FailureTruthful ==
    ASSUME NEW o \in FarObject,
           NEW reason \in {NodeNotFound, InterruptedByNHC, AgentFailed, AgentTimedOut, Started}
    PROVE  /\ SetConditions(reason, o).st.fenceAgentActionSucceeded # "True"
           /\ SetConditions(reason, o).st.succeeded # "True"
<1>1. o.st \in Status /\ SetConditions(reason, o).st = UpdateConditions(reason, o.st)
  BY DEF FarObject, SetConditions
<1> QED  BY <1>1, UpdateConditionsEffect

\* The reconciler begins with a cached version.
LEMMA ReconcileFenced ==
    ASSUME TypeInv, FencedInv, NEW u \in FARs, Reconcile(u)
    PROVE  FencedInv'
<1> USE DEF TypeInv
<1> DEFINE o == farCache[u]
<1>o. o \in FarObject /\ Truthful(o, u)
  BY DEF TypeOK, ClusterTypeOK, FencedInv, CopiesTruthful
<1>h. Grow /\ UNCHANGED <<far, farCache, farPending, agentOk, evicted>>
  BY DEF Grow, Reconcile, ReconcileNotFound, ReconcileDeletionPanic, ReconcileDeletion,
         ReconcileTimedOutByNHC, ReconcileNodeNotFound, ReconcileRemediation, allButRecAndQueue
<1>1. CopiesTruthful' /\ EvictedOnlyIfFenced'
  BY <1>h, CopiesKept DEF FencedInv, EvictedOnlyIfFenced
<1>2. \A s \in Slots : GoroutineTruthful(gor[s])'
  <2>1. Remove(u) \/ UNCHANGED gor
    BY DEF Reconcile, ReconcileNotFound, ReconcileDeletionPanic, ReconcileDeletion,
         ReconcileTimedOutByNHC, ReconcileNodeNotFound, ReconcileRemediation
  <2> QED  BY <1>h, <2>1, RemoveFenced, GoroutineKept DEF FencedInv
<1>3. WorkerTruthful'
  <2>1. CASE ReconcileNotFound(u)
    BY <1>h, <2>1, WorkerKept DEF ReconcileNotFound, FencedInv
  <2>2. CASE ReconcileTimedOutByNHC(u) \/ ReconcileNodeNotFound(u)
    <3>1. PICK reason \in {NodeNotFound, InterruptedByNHC} :
             rec' = [pc |-> "status", uid |-> u, far |-> SetConditions(reason, o), res |-> "done"]
      BY <2>2 DEF ReconcileTimedOutByNHC, ReconcileNodeNotFound, Begin
    <3>2. /\ rec'.pc = "status"
          /\ rec'.far.st.fenceAgentActionSucceeded # "True"
          /\ rec'.far.st.succeeded # "True"
      BY <1>o, <3>1, FailureTruthful
    <3> QED  BY <3>2 DEF WorkerTruthful, Truthful
  <2>3. CASE ReconcileDeletionPanic(u) \/ ReconcileDeletion(u) \/ ReconcileRemediation(u)
    <3>1. rec'.uid = u /\ rec'.far = o /\ rec'.pc # "evict"
      BY <2>3 DEF ReconcileDeletionPanic, ReconcileDeletion, ReconcileRemediation, Begin
    <3> QED  BY <1>o, <1>h, <3>1 DEF WorkerTruthful, Truthful
  <2> QED  BY <2>1, <2>2, <2>3 DEF Reconcile
<1> QED  BY <1>1, <1>2, <1>3 DEF FencedInv

\* The worker writes what it read, and removes workloads only from a fenced node.
LEMMA WorkerStepFenced ==
    ASSUME RetryCount > 0, TypeInv, FencedInv, WorkerStep
    PROVE  FencedInv'
<1> USE DEF TypeInv
<1> DEFINE u == rec.uid
           Goroutines == \A s \in Slots : GoroutineTruthful(gor[s])
<1>r. rec \in Worker /\ rec.far \in FarObject /\ rec.far.st \in Status
  BY DEF TypeOK, Worker, FarObject
<1>e. evicted \in [FARs -> BOOLEAN]
  BY DEF TypeOK
<1>u. u \in FARs /\ rec.pc # "idle"
  BY DEF WorkerStep, AddFinalizer, AddTaint, Execute, EvictByResourceDeletion,
         EvictByOutOfServiceTaint, RemoveOOSTaint, RemoveRemediationTaint, RemoveFinalizer,
         UpdateStatus, PollDone, PollTimesOut, Owned
<1>t. Truthful(rec.far, u) /\ CopiesTruthful /\ Goroutines /\ EvictedOnlyIfFenced
  BY <1>u DEF FencedInv, WorkerTruthful
\* Three kinds of step.  A write of the CR:
<1>w. ASSUME UNCHANGED <<farCache, notCluster>>, WorkerTruthful',
             \/ UNCHANGED farVars
             \/ \E o \in FarObject : o.st = rec.far.st /\ StoreFar(u, o)
             \/ StoreFarStatus(u, rec.far.st)
      PROVE  FencedInv'
  <2>1. Grow /\ UNCHANGED <<agentOk, evicted, gor>>
    BY <1>w DEF Grow, notCluster
  <2>2. CopiesTruthful'
    <3>1. CASE UNCHANGED farVars
      BY <1>w, <1>t, <2>1, <3>1, CopiesKept DEF farVars
    <3>2. ASSUME NEW o \in FarObject, o.st = rec.far.st, StoreFar(u, o) PROVE CopiesTruthful'
      <4>1. Truthful(o, u)
        BY <1>t, <3>2 DEF Truthful
      <4> QED  BY <1>w, <1>t, <1>u, <2>1, <3>2, <4>1, StoreFarTruthful
    <3>3. CASE StoreFarStatus(u, rec.far.st)
      BY <1>w, <1>t, <1>u, <1>r, <2>1, <3>3, StoreFarStatusTruthful
    <3> QED  BY <1>w, <3>1, <3>2, <3>3
  <2>3. Goroutines' /\ EvictedOnlyIfFenced'
    BY <1>t, <2>1, GoroutineKept DEF EvictedOnlyIfFenced
  <2> QED  BY <1>w, <2>2, <2>3 DEF FencedInv
\* the end of the request:
<1>i. ASSUME rec' = Idle PROVE WorkerTruthful'
  BY <1>i DEF WorkerTruthful, Idle
\* and a step that leaves the CR as it is, in memory too.
<1>k. ASSUME Grow, rec'.uid = u, rec'.far = rec.far,
             rec'.pc = "evict" => rec.far.st.fenceAgentActionSucceeded = "True"
      PROVE  WorkerTruthful'
  BY <1>k, <1>t, <1>u DEF WorkerTruthful, Truthful, Grow
<1>1. CASE AddFinalizer
  <2> DEFINE new == [rec.far EXCEPT !.fin = TRUE]
  <2>1. new \in FarObject /\ new.st = rec.far.st
    BY <1>r DEF FarObject
  <2>2. WorkerTruthful'
    <3>1. CASE StoreFar(u, new) /\ rec' = [rec EXCEPT !.pc = "status", !.res = "requeue",
                                               !.far = SetConditions(Started, far'[u])]
      <4>1. far'[u] \in FarObject
        BY <1>u, <2>1, <3>1, StoreFarType DEF TypeOK
      <4>2. rec'.far = SetConditions(Started, far'[u]) /\ rec'.pc = "status"
        BY <1>r, <3>1 DEF Worker
      <4> QED  BY <4>1, <4>2, FailureTruthful DEF WorkerTruthful, Truthful
    <3>2. CASE rec' = [rec EXCEPT !.pc = "status", !.far = new, !.res = "requeue"]
      <4>1. rec'.far = new /\ rec'.pc = "status" /\ rec'.uid = u
        BY <1>r, <3>2 DEF Worker
      <4>2. UNCHANGED <<agentOk, evicted>>
        BY <1>1 DEF AddFinalizer, notCluster
      <4> QED  BY <1>t, <2>1, <4>1, <4>2 DEF WorkerTruthful, Truthful
    <3> QED  BY <1>1, <3>1, <3>2 DEF AddFinalizer
  <2> QED  BY <1>1, <1>w, <2>1, <2>2 DEF AddFinalizer
<1>2. CASE AddTaint \/ RemoveOOSTaint \/ RemoveRemediationTaint
  <2>1. Grow /\ UNCHANGED <<farCache, notCluster, farVars>>
    BY <1>2 DEF AddTaint, RemoveOOSTaint, RemoveRemediationTaint, notCluster, Grow
  <2>2. /\ rec'.uid = u /\ rec'.far = rec.far
        /\ rec'.pc = "evict" => rec.far.st.fenceAgentActionSucceeded = "True"
    BY <1>2, <1>r DEF AddTaint, RemoveOOSTaint, RemoveRemediationTaint, RecGoto, RecReturn,
                      NeedsEviction, Worker
  <2> QED  BY <1>w, <1>k, <2>1, <2>2
<1>3. CASE Execute
  <2>1. Grow /\ UNCHANGED <<farCache, farVars, agentOk, evicted>>
    BY <1>3 DEF Execute, Grow
  <2>2. rec'.uid = u /\ rec'.far = rec.far /\ rec'.pc = "status"
    BY <1>3, <1>r DEF Execute, RecReturn, Worker
  <2>3. Goroutines'
    <3>1. AsyncExecute(u) \/ UNCHANGED gor
      BY <1>3 DEF Execute
    <3> QED  BY <1>t, <1>u, <2>1, <3>1, AsyncExecuteFenced, GoroutineKept
  <2>4. CopiesTruthful' /\ EvictedOnlyIfFenced'
    BY <1>t, <2>1, CopiesKept DEF farVars, EvictedOnlyIfFenced
  <2> QED  BY <1>k, <2>1, <2>2, <2>3, <2>4 DEF FencedInv
<1>4. CASE EvictByResourceDeletion \/ EvictByOutOfServiceTaint
  <2>f. UNCHANGED <<farVars, farCache, agentOk>> /\ agentOk[u]
    BY <1>4, <1>u, <1>t
       DEF EvictByResourceDeletion, EvictByOutOfServiceTaint, FencedInv, WorkerTruthful, Truthful
  <2>1. CASE FinishRemediation
    <3>1. Grow /\ evicted'[u] /\ EvictedOnlyIfFenced'
      BY <1>e, <1>u, <1>t, <2>f, <2>1 DEF FinishRemediation, Grow, EvictedOnlyIfFenced
    <3>2. CopiesTruthful' /\ Goroutines'
      BY <1>t, <1>u, <2>f, <2>1, <3>1, CopiesKept, RemoveFenced DEF farVars, FinishRemediation
    <3>3. rec'.far.st = UpdateConditions(FinishedSuccessfully, rec.far.st) /\ rec'.uid = u
          /\ rec'.pc = "status"
      BY <1>r, <2>1 DEF FinishRemediation, SetConditions, Worker, FarObject
    <3>4. rec.far.st.fenceAgentActionSucceeded = "True"
      BY <1>4 DEF EvictByResourceDeletion, EvictByOutOfServiceTaint, FencedInv, WorkerTruthful
    <3>5. WorkerTruthful'
      BY <1>r, <2>f, <3>1, <3>3, <3>4, UpdateConditionsEffect DEF WorkerTruthful, Truthful
    <3> QED  BY <3>1, <3>2, <3>5 DEF FencedInv
  <2>2. CASE RecReturn("requeue") /\ UNCHANGED <<routines, gor, evicted>>
    <3>1. Grow /\ UNCHANGED notCluster
      BY <1>4, <2>2
         DEF EvictByResourceDeletion, EvictByOutOfServiceTaint, Grow, notCluster
    <3>2. rec'.uid = u /\ rec'.far = rec.far /\ rec'.pc = "status"
      BY <1>r, <2>2 DEF RecReturn, Worker
    <3> QED  BY <1>w, <1>k, <2>f, <3>1, <3>2
  <2> QED  BY <1>4, <2>1, <2>2 DEF EvictByResourceDeletion, EvictByOutOfServiceTaint
<1>5. CASE RemoveFinalizer
  <2> DEFINE new == [rec.far EXCEPT !.phase = "gone", !.fin = FALSE]
  <2>1. new \in FarObject /\ new.st = rec.far.st
    BY <1>r DEF FarObject
  <2>2. rec' = Idle
    BY <1>5 DEF RemoveFinalizer, Finish
  <2> QED  BY <1>5, <1>w, <1>i, <2>1, <2>2 DEF RemoveFinalizer
<1>6. CASE UpdateStatus
  <2>1. CASE StoreFarStatus(u, rec.far.st) /\ rec' = [rec EXCEPT !.pc = "poll", !.far = far'[u]]
    <3>1. UNCHANGED <<farCache, agentOk, evicted>>
      BY <1>6 DEF UpdateStatus, notCluster
    <3>2. CopiesTruthful'
      BY <1>r, <1>t, <1>u, <2>1, <3>1, StoreFarStatusTruthful
    <3>3. rec'.uid = u /\ rec'.far = far'[u] /\ rec'.pc = "poll"
      BY <1>r, <2>1 DEF Worker
    <3>4. WorkerTruthful'
      BY <1>u, <3>2, <3>3 DEF WorkerTruthful, CopiesTruthful, Truthful
    <3> QED  BY <1>6, <1>w, <2>1, <3>4 DEF UpdateStatus
  <2>2. CASE rec' = Idle
    BY <1>6, <1>w, <1>i, <2>2 DEF UpdateStatus
  <2> QED  BY <1>6, <2>1, <2>2 DEF UpdateStatus, Finish
<1>7. CASE PollDone \/ PollTimesOut
  BY <1>7, <1>w, <1>i DEF PollDone, PollTimesOut, Finish
<1> QED  BY <1>1, <1>2, <1>3, <1>4, <1>5, <1>6, <1>7 DEF WorkerStep

\* A restart forgets what is in memory.
LEMMA RestartFenced == ASSUME TypeInv, FencedInv, Restart PROVE FencedInv'
<1>1. CopiesTruthful'
  BY DEF Restart, FencedInv, CopiesTruthful, Truthful
<1>2. WorkerTruthful'
  BY DEF Restart, WorkerTruthful, Idle
<1>3. \A s \in Slots : GoroutineTruthful(gor[s])'
  BY DEF Restart, FreeSlot, GoroutineTruthful
<1> QED  BY <1>1, <1>2, <1>3 DEF Restart, FencedInv, EvictedOnlyIfFenced

\* The invariant holds initially, and every step keeps it.
LEMMA FencedInvInit == Init => TypeInv /\ FencedInv
<1> SUFFICES ASSUME Init PROVE TypeInv /\ FencedInv
  OBVIOUS
<1>1. TypeInv
  BY InitType DEF TypeInv, Owned, Init, ExecInit, NewExecuter, FreeSlot, Idle
<1>2. CopiesTruthful
  BY DEF Init, ClusterInit, CopiesTruthful, Truthful, NoFar, NoConditions
<1>3. WorkerTruthful /\ \A s \in Slots : GoroutineTruthful(gor[s])
  BY DEF Init, ExecInit, NewExecuter, Idle, FreeSlot, WorkerTruthful, GoroutineTruthful
<1> QED  BY <1>1, <1>2, <1>3 DEF FencedInv, EvictedOnlyIfFenced, Init

\* Every step keeps FencedInv.
LEMMA FencedInvStep ==
    ASSUME RetryCount > 0, TypeInv, FencedInv, [Next]_vars
    PROVE  TypeInv' /\ FencedInv'
<1>1. TypeInv'
  BY TypeStep, OwnedStep DEF TypeInv
<1>2. CASE UNCHANGED vars
  BY <1>1, <1>2 DEF vars, clusterVars, execVars, FencedInv, CopiesTruthful, WorkerTruthful,
              GoroutineTruthful, Truthful, EvictedOnlyIfFenced
<1>3. CASE Next
  BY <1>1, <1>3, ClusterNextFenced, RoutineStepFenced, ReconcileFenced, WorkerStepFenced,
     RestartFenced DEF Next, Crash, ExecuterPanic
<1> QED  BY <1>2, <1>3

\* If RetryCount is positive, a CR reports a successful fence agent only after one did
\* succeed for it, whatever is stale, refused, repeated or lost on the way.
THEOREM SuccessReported == ASSUME RetryCount > 0 PROVE Spec => []ReportedOnlyIfFenced
<1>1. FencedInv => ReportedOnlyIfFenced
  BY DEF FencedInv, CopiesTruthful, Truthful, ReportedOnlyIfFenced
<1>2. TypeInv /\ FencedInv /\ [Next]_vars => (TypeInv /\ FencedInv)'
  BY FencedInvStep
<1> QED  BY <1>1, <1>2, FencedInvInit, PTL DEF Spec

\* Workloads are removed from a node only after a fence agent of that CR succeeded.
THEOREM FencedFirst == ASSUME RetryCount > 0 PROVE Spec => []EvictedOnlyIfFenced
<1>1. FencedInv => EvictedOnlyIfFenced
  BY DEF FencedInv
<1>2. TypeInv /\ FencedInv /\ [Next]_vars => (TypeInv /\ FencedInv)'
  BY FencedInvStep
<1> QED  BY <1>1, <1>2, FencedInvInit, PTL DEF Spec

\* Succeeded means that the node was fenced, that its workloads were removed after that,
\* and that the CR is no longer processing.
THEOREM SucceededAfterEviction == ASSUME RetryCount > 0 PROVE Spec => []FinishedMeansEvicted
<1>1. FencedInv => FinishedMeansEvicted
  BY DEF FencedInv, CopiesTruthful, Truthful, FinishedMeansEvicted
<1>2. TypeInv /\ FencedInv /\ [Next]_vars => (TypeInv /\ FencedInv)'
  BY FencedInvStep
<1> QED  BY <1>1, <1>2, FencedInvInit, PTL DEF Spec

=============================================================================

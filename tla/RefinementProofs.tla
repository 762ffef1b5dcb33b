-------------------------- MODULE RefinementProofs --------------------------
(***************************************************************************)
(* In a cluster whose nodes are not deleted, the operator implements       *)
(* RemediationAbstract.  The refinement mapping reads the outcome off a    *)
(* CR's status; the invariants of the other modules say what it must have  *)
(* been before every write.                                                *)
(***************************************************************************)
EXTENDS StageProofs

RefinementInv == StageInvs /\ FinalizerInv /\ FencedInv

-----------------------------------------------------------------------------
(***************************************************************************)
(* The mapping.                                                            *)
(***************************************************************************)

\* The outcome of a CR by the reason of its last change.
OutcomeFits(o) ==
    /\ o.st.why \in {"none", Started, AgentSucceeded} => OutcomeOf(o) = "open"
    /\ o.st.why = FinishedSuccessfully => OutcomeOf(o) = "succeeded"
    /\ o.st.why = NodeNotFound => OutcomeOf(o) = "notfound"
    /\ o.st.why \in {InterruptedByNHC, AgentFailed, AgentTimedOut} => OutcomeOf(o) = "failed"

\* It is so for every CR whose conditions go with its reason.
LEMMA OutcomeByReason ==
    ASSUME NEW o \in FarObject, Present(o), Shape(o.st)
    PROVE  OutcomeFits(o)
<1> USE DEF OutcomeFits, OutcomeOf, Present, Shape, FailureReason, NoConditions, Started, AgentSucceeded,
            AgentFailed, AgentTimedOut, FinishedSuccessfully, NodeNotFound, InterruptedByNHC
<1>1. CASE o.st.why \in {"none", Started, AgentSucceeded}
  BY <1>1
<1>2. CASE o.st.why = FinishedSuccessfully
  BY <1>2
<1>3. CASE o.st.why \in {NodeNotFound, InterruptedByNHC, AgentFailed, AgentTimedOut}
  BY <1>3
<1> QED  BY <1>1, <1>2, <1>3 DEF FarObject, Status, ConditionsChangeReason, AgentOutcome

\* A CR that is not there has its phase for an outcome.
LEMMA OutcomeOfPhase ==
    ASSUME NEW o \in FarObject
    PROVE  /\ o.phase # "present" => OutcomeOf(o) = o.phase
           /\ OutcomeOf(o) = "absent" <=> o.phase = "absent"
<1>1. CASE o.phase # "present"
  BY <1>1 DEF OutcomeOf, Present
<1>2. CASE o.phase = "present"
  <2>1. OutcomeOf(o) \in {"succeeded", "notfound", "failed", "open"}
    BY <1>2 DEF OutcomeOf, Present
  <2> QED  BY <1>2, <2>1
<1> QED  BY <1>1, <1>2

-----------------------------------------------------------------------------
(***************************************************************************)
(* Steps.                                                                  *)
(***************************************************************************)
OneCRChanges == far' = far \/ \E u \in FARs, obj \in FarObject : far' = [far EXCEPT ![u] = obj]

\* A step does one of three things that the abstract specification sees, and to one CR.
LEMMA OneAtATime ==
    ASSUME TypeInv, AgentInv, [Next]_vars
    PROVE  \/ UNCHANGED <<agentOk, evicted>> /\ OneCRChanges
           \/ (\E s \in Slots : CommandSucceeds(s)) /\ UNCHANGED <<far, evicted>>
           \/ /\ rec.pc = "evict" /\ rec.uid \in FARs
              /\ evicted' = [evicted EXCEPT ![rec.uid] = TRUE] /\ UNCHANGED <<far, agentOk>>
<1>t. /\ far \in [FARs -> FarObject] /\ rec.far \in FarObject /\ rec \in Worker
      /\ gor \in [Slots -> Goroutine]
  BY DEF TypeInv, TypeOK, ClusterTypeOK, ExecTypeOK, Worker
<1>t2. TypeInv'
  BY TypeStep, OwnedStep DEF TypeInv
<1>t3. far' \in [FARs -> FarObject]
  BY <1>t2 DEF TypeInv, TypeOK, ClusterTypeOK
<1>s. ASSUME NEW u \in FARs, NEW obj, StoreFar(u, obj) \/ StoreFarStatus(u, obj)
      PROVE  OneCRChanges
  <2>1. far' = far \/ \E o : far' = [far EXCEPT ![u] = o]
    BY <1>s DEF StoreFarStatus, StoreFar
  <2>2. ASSUME NEW o, far' = [far EXCEPT ![u] = o] PROVE o \in FarObject
    BY <1>t, <1>t3, <2>2
  <2> QED  BY <2>1, <2>2 DEF OneCRChanges
<1>1. ASSUME ClusterNext PROVE OneCRChanges
  <2>1. far' = far \/ \E u \in FARs : \E obj : StoreFar(u, obj)
    BY <1>1 DEF ClusterNext, DeliverFar, Resync, DeliverNode, EditNode, DeleteNode, CreateNode,
       CreateFar, DeleteFar, AnnotateTimedOut, EditFar
  <2> QED  BY <2>1, <1>s DEF OneCRChanges
<1>2. ASSUME NEW s \in Slots, RoutineStep(s)
      PROVE  (UNCHANGED agentOk /\ OneCRChanges) \/ (CommandSucceeds(s) /\ UNCHANGED far)
  <2>1. CASE CommandSucceeds(s)
    BY <2>1 DEF CommandSucceeds, clusterVars
  <2>2. CASE PutAccepted(s)
    <3>1. gor[s].uid \in FARs
      BY <2>2 DEF PutAccepted, TypeInv, Owned
    <3> QED  BY <1>s, <2>2, <3>1 DEF PutAccepted
  <2>3. CASE ~CommandSucceeds(s) /\ ~PutAccepted(s)
    BY <1>2, <2>3 DEF RoutineStep, NextAttempt, CommandFails, CommandInterrupted, NextUpdate,
       GetByUID, PutConflict, PutFails, clusterVars, OneCRChanges
  <2> QED  BY <2>1, <2>2, <2>3
<1>3. ASSUME NEW u \in FARs, Reconcile(u) PROVE UNCHANGED <<far, agentOk, evicted>>
  BY <1>3 DEF Reconcile, ReconcileNotFound, ReconcileDeletionPanic, ReconcileDeletion,
         ReconcileTimedOutByNHC, ReconcileNodeNotFound, ReconcileRemediation, allButRecAndQueue
<1>4. CASE WorkerStep
  <2>u. rec.uid \in FARs
    BY <1>4 DEF WorkerStep, AddFinalizer, AddTaint, Execute, EvictByResourceDeletion,
         EvictByOutOfServiceTaint, RemoveOOSTaint, RemoveRemediationTaint, RemoveFinalizer,
         UpdateStatus, PollDone, PollTimesOut, TypeInv, Owned
  <2>1. CASE AddFinalizer \/ RemoveFinalizer \/ UpdateStatus
    <3>1. UNCHANGED <<agentOk, evicted>>
      BY <2>1 DEF AddFinalizer, RemoveFinalizer, UpdateStatus, notCluster
    <3>2. far' = far \/ \E obj : StoreFar(rec.uid, obj) \/ StoreFarStatus(rec.uid, obj)
      BY <2>1 DEF AddFinalizer, RemoveFinalizer, UpdateStatus, farVars
    <3> QED  BY <1>s, <2>u, <3>1, <3>2 DEF OneCRChanges
  <2>2. CASE AddTaint \/ Execute \/ RemoveOOSTaint \/ RemoveRemediationTaint \/ PollDone
             \/ PollTimesOut
    BY <2>2 DEF AddTaint, Execute, RemoveOOSTaint, RemoveRemediationTaint, PollDone,
       PollTimesOut, notCluster, farVars, OneCRChanges
  <2>3. CASE EvictByResourceDeletion \/ EvictByOutOfServiceTaint
    BY <2>3, <2>u DEF EvictByResourceDeletion, EvictByOutOfServiceTaint, FinishRemediation,
       farVars, OneCRChanges
  <2> QED  BY <1>4, <2>1, <2>2, <2>3 DEF WorkerStep
<1>5. CASE Restart
  BY <1>5 DEF Restart, OneCRChanges
<1> QED  BY <1>1, <1>2, <1>3, <1>4, <1>5
         DEF Next, Crash, ExecuterPanic, vars, clusterVars, execVars, OneCRChanges

\* What a step may do to the outcome of a CR when it neither fences nor evicts.
OutcomeStep(u) ==
    LET old == OutcomeOf(far[u])
        new == OutcomeOf(far'[u])
    IN  \/ new = old
        \/ old = "absent" /\ new = "open"
        \/ old # "absent" /\ new = "gone"
        \/ old = "open" /\ evicted[u] /\ new = "succeeded"
        \/ old \in {"open", "notfound", "succeeded"} /\ new = "failed"
        \/ old = "open" /\ ~agentOk[u] /\ new = "notfound"
        \/ old = "notfound" /\ ~agentOk[u] /\ new = "open"

\* The outcome of a CR changes the way the abstract specification allows.
LEMMA OutcomeChanges ==
    ASSUME RefinementInv, [Next]_vars, NEW u \in FARs
    PROVE  OutcomeStep(u)
<1>i. /\ TypeInv /\ AgentInv /\ InterruptInv /\ StageInv /\ FencedInv
      /\ CRInv(u) /\ Shape(far[u].st)
  BY DEF RefinementInv, StageInvs, AgentInv, StageInv, Stage
<1>t. far[u] \in FarObject /\ far'[u] \in FarObject /\ far[u].st \in Status
  <2>1. TypeInv'
    BY <1>i, TypeStep, OwnedStep DEF TypeInv
  <2> QED  BY <1>i, <2>1, CopiesType DEF TypeInv, TypeOK, ClusterTypeOK, FarObject
<1>h. Shape(far'[u].st)
  BY <1>i, ShapeStep
<1>1. CASE far'[u] = far[u]
  BY <1>1 DEF OutcomeStep
<1>2. CASE far[u] = NoFar /\ Present(far[u])' /\ far'[u].st = far[u].st
  <2>1. OutcomeOf(far[u]) = "absent" /\ far'[u].st.why = "none"
    BY <1>t, <1>2, OutcomeOfPhase DEF NoFar, NoConditions
  <2>2. OutcomeOf(far'[u]) = "open"
    BY <1>t, <1>h, <1>2, <2>1, OutcomeByReason DEF Present, OutcomeFits
  <2> QED  BY <2>1, <2>2 DEF OutcomeStep
<1>3. CASE Present(far[u]) /\ far'[u].phase = "gone"
  BY <1>t, <1>3, OutcomeOfPhase DEF OutcomeStep, Present
<1>4. CASE Present(far[u]) /\ Present(far[u])'
  <2>o. OutcomeFits(far[u]) /\ OutcomeFits(far'[u])
    BY <1>t, <1>i, <1>h, <1>4, OutcomeByReason DEF Present
  <2>b. Before(u) => ~agentOk[u]
    BY <1>i DEF CRInv, Untouched
  <2>1. CASE far'[u].st = far[u].st
    <3>1. far[u].st.why \in {"none", Started, AgentSucceeded, FinishedSuccessfully, NodeNotFound,
                            InterruptedByNHC, AgentFailed, AgentTimedOut}
      BY <1>t DEF Status, ConditionsChangeReason, AgentOutcome
    <3> QED  BY <2>o, <2>1, <3>1 DEF OutcomeStep, OutcomeFits
  <2>2. CASE far'[u].st # far[u].st
    <3>1. StatusStep(u)
      BY <1>i, <2>2, OrderOfWrites
    <3>2. CASE Writes(u, Started) /\ Before(u) /\ far[u].st.why \in {"none", NodeNotFound}
      BY <2>o, <2>b, <3>2 DEF Writes, OutcomeStep, OutcomeFits
    <3>3. CASE Writes(u, NodeNotFound) /\ Before(u) /\ far[u].st.why = "none"
      BY <2>o, <2>b, <3>3 DEF Writes, OutcomeStep, OutcomeFits
    <3>4. CASE Writes(u, InterruptedByNHC) /\ far[u].st.why \notin FailureReason
      <4>1. far[u].st.why \in {"none", Started, AgentSucceeded, FinishedSuccessfully}
        BY <1>t, <3>4 DEF Status, ConditionsChangeReason, AgentOutcome, FailureReason
      <4>2. OutcomeOf(far'[u]) = "failed"
        BY <2>o, <3>4 DEF Writes, OutcomeFits
      <4>3. OutcomeOf(far[u]) \in {"open", "succeeded"}
        BY <2>o, <4>1 DEF OutcomeFits
      <4> QED  BY <4>2, <4>3 DEF OutcomeStep
    <3>5. CASE /\ Writes(u, FinishedSuccessfully) /\ WorkerWrites(u)
               /\ far[u].st.why = AgentSucceeded
      <4>1. rec.pc # "idle" /\ rec.uid = u /\ rec.far.st = far'[u].st
        BY <3>5 DEF WorkerWrites, Works
      <4>2. far'[u].st.succeeded = "True"
        BY <1>h, <3>5 DEF Writes, Shape
      <4>3. evicted[u]
        BY <1>i, <4>1, <4>2 DEF FencedInv, WorkerTruthful, Truthful
      <4> QED  BY <2>o, <3>5, <4>3 DEF Writes, OutcomeStep, OutcomeFits
    <3>6. CASE /\ \E reason \in AgentOutcome : Writes(u, reason)
               /\ far[u].st.why = Started
      <4>1. OutcomeOf(far[u]) = "open"
        BY <2>o, <3>6 DEF OutcomeFits
      <4>2. OutcomeOf(far'[u]) \in {"open", "failed"}
        BY <2>o, <3>6 DEF Writes, AgentOutcome, OutcomeFits
      <4> QED  BY <4>1, <4>2 DEF OutcomeStep
    <3> QED  BY <3>1, <3>2, <3>3, <3>4, <3>5, <3>6 DEF StatusStep
  <2> QED  BY <2>1, <2>2
<1> QED  BY <1>i, <1>1, <1>2, <1>3, <1>4, FarChange

\* Workloads are removed, for the first time, for a CR that is open and has been fenced.
LEMMA FirstEviction ==
    ASSUME RefinementInv, rec.pc = "evict", NEW u \in FARs, rec.uid = u, ~evicted[u]
    PROVE  OutcomeOf(far[u]) = "open" /\ agentOk[u]
<1>i. /\ TypeInv /\ AgentInv /\ FencedInv /\ FinalizerInv
      /\ Stage(u) /\ Shape(far[u].st) /\ Interrupted(u) /\ CRInv(u)
  BY DEF RefinementInv, StageInvs, StageInv, InterruptInv, Stage, AgentInv
<1>w. Works(u) /\ NeedsEviction(rec.far.st)
  BY <1>i DEF Works, CRInv, WorkerHas
<1>t. far[u] \in FarObject /\ Present(far[u])
  BY <1>i, <1>w, CopiesType DEF FinalizerInv
<1>1. KnownFenced(u)
  BY <1>w DEF KnownFenced, NeedsEviction
<1>2. far[u].st.why \in {AgentSucceeded, FinishedSuccessfully}
  BY <1>i, <1>w, <1>1 DEF Stage, Interrupted
<1>3. far[u].st.why # FinishedSuccessfully
  BY <1>i DEF Shape, FencedInv, CopiesTruthful, Truthful
<1>4. agentOk[u]
  BY <1>i, <1>2, <1>3 DEF Shape, FencedInv, CopiesTruthful, Truthful
<1> QED  BY <1>i, <1>t, <1>2, <1>3, <1>4, OutcomeByReason DEF OutcomeFits

-----------------------------------------------------------------------------
(***************************************************************************)
(* The refinement.                                                         *)
(***************************************************************************)

\* The initial states are initial states of the abstract specification.
LEMMA AbstractInit == Init => Abstract!Init
<1> SUFFICES ASSUME Init PROVE Abstract!Init
  OBVIOUS
<1>1. \A u \in FARs : OutcomeOf(far[u]) = "absent"
  BY DEF Init, ClusterInit, NoFar, OutcomeOf, Present
<1> QED  BY <1>1 DEF Init, ExecInit, Abstract!Init

\* Every step is a step of the abstract specification, or none.
LEMMA AbstractNext ==
    ASSUME RefinementInv, [Next]_vars
    PROVE  [Abstract!Next]_(Abstract!vars)
<1>i. TypeInv /\ AgentInv
  BY DEF RefinementInv, StageInvs
<1>t. far \in [FARs -> FarObject] /\ evicted \in [FARs -> BOOLEAN]
  BY <1>i DEF TypeInv, TypeOK, ClusterTypeOK
<1>1. CASE UNCHANGED <<agentOk, evicted>> /\ far' = far
  BY <1>1 DEF Abstract!vars
<1>2. ASSUME UNCHANGED <<agentOk, evicted>>, NEW u \in FARs, NEW obj \in FarObject,
             far' = [far EXCEPT ![u] = obj]
      PROVE  [Abstract!Next]_(Abstract!vars)
  <2>1. /\ OutcomeStep(u)
        /\ [v \in FARs |-> OutcomeOf(far'[v])]
             = [[v \in FARs |-> OutcomeOf(far[v])] EXCEPT ![u] = OutcomeOf(far'[u])]
    BY <1>2, <1>t, OutcomeChanges
  <2>2. CASE OutcomeOf(far'[u]) = OutcomeOf(far[u])
    BY <1>2, <2>1, <2>2 DEF Abstract!vars
  <2>3. CASE OutcomeOf(far'[u]) # OutcomeOf(far[u])
    BY <1>2, <2>1, <2>3 DEF OutcomeStep, Abstract!Next, Abstract!Request, Abstract!Delete,
       Abstract!Succeed, Abstract!Fail, Abstract!NotFound, Abstract!Start, Abstract!Becomes
  <2> QED  BY <2>2, <2>3
<1>3. ASSUME NEW s \in Slots, CommandSucceeds(s), UNCHANGED <<far, evicted>>
      PROVE  Abstract!Next
  <2>1. gor[s].uid \in FARs /\ Runs(s, gor[s].uid)
    BY <1>3, <1>i DEF CommandSucceeds, TypeInv, Owned, Runs, Live
  <2>2. far[gor[s].uid].phase # "absent"
    BY <1>i, <2>1 DEF AgentInv, CRInv, Before, Untouched
  <2>3. OutcomeOf(far[gor[s].uid]) # "absent"
    BY <1>t, <2>1, <2>2, OutcomeOfPhase
  <2>4. agentOk' = [agentOk EXCEPT ![gor[s].uid] = TRUE]
    BY <1>3 DEF CommandSucceeds
  <2> QED  BY <1>3, <2>1, <2>3, <2>4 DEF Abstract!Next, Abstract!Fence
<1>4. ASSUME rec.pc = "evict", rec.uid \in FARs, evicted' = [evicted EXCEPT ![rec.uid] = TRUE],
             UNCHANGED <<far, agentOk>>
      PROVE  [Abstract!Next]_(Abstract!vars)
  <2>1. CASE evicted[rec.uid]
    <3>1. evicted' = evicted
      BY <1>t, <1>4, <2>1
    <3> QED  BY <1>1, <1>4, <3>1
  <2>2. CASE ~evicted[rec.uid]
    <3>1. OutcomeOf(far[rec.uid]) = "open" /\ agentOk[rec.uid]
      BY <1>4, <2>2, FirstEviction
    <3> QED  BY <1>4, <3>1 DEF Abstract!Next, Abstract!Evict
  <2> QED  BY <2>1, <2>2
<1> QED  BY <1>i, <1>1, <1>2, <1>3, <1>4, OneAtATime DEF OneCRChanges

\* The invariant behind the refinement.
LEMMA RefinementInvAlways ==
    ASSUME MaxNodeDeletes = 0, RetryCount > 0
    PROVE  /\ Init => RefinementInv
           /\ RefinementInv /\ [Next]_vars => RefinementInv'
<1>1. Init => FinalizerInv
  BY DEF Init, ClusterInit, FinalizerInv, NoFar, Idle, Works
<1> QED  BY <1>1, StagesAlways, FencedInvInit, FencedInvStep, FinalizerInvStep
         DEF RefinementInv, StageInvs

\* What NHC sees of a CR: if no node is deleted and RetryCount is positive, the reconciler, the
\* executor, the caches between them and any number of crashes together do nothing that
\* RemediationAbstract does not allow.
THEOREM OperatorImplementsAbstract ==
    ASSUME MaxNodeDeletes = 0, RetryCount > 0
    PROVE  Spec => ImplementsAbstract
<1>1. Init => RefinementInv /\ Abstract!Init
  BY RefinementInvAlways, AbstractInit
<1>2. RefinementInv /\ [Next]_vars => RefinementInv' /\ [Abstract!Next]_(Abstract!vars)
  BY RefinementInvAlways, AbstractNext
<1> QED  BY <1>1, <1>2, PTL DEF Spec, ImplementsAbstract, Abstract!Spec

=============================================================================

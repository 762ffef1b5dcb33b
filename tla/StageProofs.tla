----------------------------- MODULE StageProofs -----------------------------
(***************************************************************************)
(* The stages of a remediation in a cluster whose nodes are not deleted:   *)
(* the reasons of the conditions follow each other in the documented       *)
(* order, and the operator implements RemediationAbstract.                 *)
(***************************************************************************)
EXTENDS TaintProofs

-----------------------------------------------------------------------------
(***************************************************************************)
(* Statuses.                                                               *)
(***************************************************************************)

\* UpdateConditions keeps the conditions in line with their reason, provided the two
\* reasons that leave some conditions alone come after the reasons they follow.
LEMMA ShapeKept ==
    ASSUME NEW st \in Status, Shape(st), NEW reason \in ConditionsChangeReason,
           reason = AgentSucceeded => st.why = Started,
           reason = FinishedSuccessfully => st.why = AgentSucceeded
    PROVE  Shape(UpdateConditions(reason, st))
<1> USE DEF Started, AgentSucceeded, AgentFailed, AgentTimedOut, FinishedSuccessfully,
            NodeNotFound, InterruptedByNHC
<1>1. CASE Requested(reason, st) = st
  BY <1>1 DEF UpdateConditions
<1>2. CASE Requested(reason, st) # st
  <2>1. PICK new : new = Requested(reason, st)
    OBVIOUS
  <2>2. UpdateConditions(reason, st) = [new EXCEPT !.why = reason]
    BY <1>2, <2>1 DEF UpdateConditions
  <2>3. CASE reason = Started
    <3>1. new = [st EXCEPT !.processing = "True", !.fenceAgentActionSucceeded = "Unknown",
                           !.succeeded = "Unknown"]
      BY <2>1, <2>3 DEF Requested
    <3> QED  BY <2>2, <2>3, <3>1 DEF Shape, Status, FailureReason
  <2>4. CASE reason = AgentSucceeded
    <3>1. new = [st EXCEPT !.fenceAgentActionSucceeded = "True"]
      BY <2>1, <2>4 DEF Requested
    <3> QED  BY <2>2, <2>4, <3>1 DEF Shape, Status, FailureReason
  <2>5. CASE reason = FinishedSuccessfully
    <3>1. new = [st EXCEPT !.processing = "False", !.succeeded = "True"]
      BY <2>1, <2>5 DEF Requested
    <3> QED  BY <2>2, <2>5, <3>1 DEF Shape, Status, FailureReason
  <2>6. CASE reason \in FailureReason
    <3>1. new = [st EXCEPT !.processing = "False", !.fenceAgentActionSucceeded = "False",
                           !.succeeded = "False"]
      BY <2>1, <2>6 DEF Requested, FailureReason
    <3> QED  BY <2>2, <2>6, <3>1 DEF Shape, Status, FailureReason
  <2> QED  BY <2>3, <2>4, <2>5, <2>6 DEF ConditionsChangeReason, AgentOutcome, FailureReason
<1> QED  BY <1>1, <1>2

\* A failure is not reported over another one.
LEMMA FailureStays ==
    ASSUME NEW st \in Status, Shape(st), st.why \in FailureReason, NEW reason \in FailureReason
    PROVE  UpdateConditions(reason, st) = st
<1>1. Requested(reason, st) = st
  BY DEF Requested, Shape, Status, FailureReason, Started, AgentSucceeded, FinishedSuccessfully,
         NodeNotFound, InterruptedByNHC, AgentFailed, AgentTimedOut
<1> QED  BY <1>1 DEF UpdateConditions

\* The reason of a status by its conditions.
LEMMA ShapeReason ==
    ASSUME NEW st \in Status, Shape(st)
    PROVE  /\ st.fenceAgentActionSucceeded = "True" =>
                st.why \in {AgentSucceeded, FinishedSuccessfully}
           /\ NeedsEviction(st) => st.why = AgentSucceeded
           /\ NeedsFencing(st) => st.why = Started
           /\ st.processing # "True" /\ st.fenceAgentActionSucceeded # "True" =>
                st.why \in {"none"} \cup FailureReason
  BY DEF Shape, Status, FailureReason, NeedsEviction, NeedsFencing, NoConditions,
         ConditionsChangeReason, AgentOutcome, Started, AgentSucceeded, AgentFailed,
         AgentTimedOut, FinishedSuccessfully, NodeNotFound, InterruptedByNHC

-----------------------------------------------------------------------------
(***************************************************************************)
(* What the worker is about to write.                                      *)
(***************************************************************************)

\* How the worker comes to hold a status that differs from the server's in an up-to-date CR.
LEMMA WhatToWrite ==
    ASSUME TypeInv, AgentInv, [Next]_vars, NEW u \in FARs,
           Works(u)', rec'.pc = "status", rec'.far.rv = far'[u].rv, rec'.far.st # far'[u].st
    PROVE  \/ Works(u) /\ rec' = rec /\ far'[u] = far[u]
           \/ /\ Works(u) /\ rec.pc = "addFinalizer" /\ Present(far[u]) /\ ~far[u].fin
              /\ rec'.far.st.why = Started
           \/ /\ ReconcileNodeNotFound(u) /\ far'[u] = far[u]
              /\ rec'.far.st.processing = "False" /\ rec'.far.st.why = NodeNotFound
           \/ /\ rec'.far.st.processing = "False"
              /\ rec'.far.st.why \in {InterruptedByNHC, FinishedSuccessfully}
<1>t. /\ rec \in Worker /\ far \in [FARs -> FarObject] /\ farCache \in [FARs -> FarObject]
      /\ rec.far \in FarObject /\ rec.far.st \in Status /\ farCache[u].st \in Status
      /\ far[u].st \in Status /\ far[u].rv \in Nat /\ rec.far.rv \in Nat
  BY DEF TypeInv, TypeOK, ClusterTypeOK, Worker, FarObject
<1>i. CRInv(u)
  BY DEF AgentInv
<1>c. farCache[u].rv = far[u].rv => farCache[u] = far[u]
  BY <1>i DEF CRInv, Versions, Copies
<1>1. CASE UNCHANGED rec
  <2>1. Works(u) /\ rec.far.rv <= far[u].rv
    BY <1>1, <1>i DEF Works, CRInv, WorkerHas
  <2> QED  BY <1>1, <1>t, <2>1, FarMonotone
<1>2. ASSUME NEW v \in FARs, Reconcile(v)
      PROVE  \/ /\ ReconcileNodeNotFound(u) /\ far'[u] = far[u]
                /\ rec'.far.st.processing = "False" /\ rec'.far.st.why = NodeNotFound
             \/ /\ rec'.far.st.processing = "False" /\ rec'.far.st.why = InterruptedByNHC
  <2>1. /\ far' = far
        /\ \/ ReconcileDeletionPanic(u) /\ rec'.far = farCache[u]
           \/ /\ ReconcileTimedOutByNHC(u)
              /\ rec'.far = SetConditions(InterruptedByNHC, farCache[u])
           \/ ReconcileNodeNotFound(u) /\ rec'.far = SetConditions(NodeNotFound, farCache[u])
    BY <1>2 DEF Reconcile, ReconcileNotFound, ReconcileDeletionPanic, ReconcileDeletion,
         ReconcileTimedOutByNHC, ReconcileNodeNotFound, ReconcileRemediation, Reconciles,
         allButRecAndQueue, Begin, Works
  <2>2. ASSUME NEW reason \in {NodeNotFound, InterruptedByNHC},
               rec'.far = SetConditions(reason, farCache[u])
        PROVE  rec'.far.st.processing = "False" /\ rec'.far.st.why = reason
    <3>1. /\ rec'.far.st = UpdateConditions(reason, farCache[u].st)
          /\ rec'.far.rv = farCache[u].rv
      BY <1>t, <2>2 DEF SetConditions, FarObject
    <3>2. rec'.far.st # farCache[u].st
      BY <1>c, <2>1, <3>1
    <3> QED  BY <1>t, <3>1, <3>2, FailureEffect
  <2> QED  BY <1>c, <2>1, <2>2
<1>3. CASE WorkerStep
  <2>u. rec.uid = u /\ Works(u)
    <3>1. ~(rec' = Idle)
      BY DEF Idle
    <3>2. rec'.uid = rec.uid
      BY <1>3, <1>t, <3>1 DEF WorkerStep, AddFinalizer, AddTaint, Execute,
         EvictByResourceDeletion, EvictByOutOfServiceTaint, RemoveOOSTaint,
         RemoveRemediationTaint, RemoveFinalizer, UpdateStatus, PollDone, PollTimesOut, RecGoto,
         RecReturn, Finish, FinishRemediation, Worker
    <3>3. rec.pc # "idle"
      BY <1>3 DEF WorkerStep, AddFinalizer, AddTaint, Execute,
         EvictByResourceDeletion, EvictByOutOfServiceTaint, RemoveOOSTaint,
         RemoveRemediationTaint, RemoveFinalizer, UpdateStatus, PollDone, PollTimesOut
    <3> QED  BY <3>2, <3>3 DEF Works
  <2>w. rec.pc \notin {"status", "poll"} => (rec.far.rv = far[u].rv => rec.far = far[u])
    BY <1>i, <2>u DEF CRInv, WorkerHas
  <2>1. CASE AddFinalizer
    <3>1. CASE UNCHANGED farVars
      <4>1. rec'.far = [rec.far EXCEPT !.fin = TRUE] /\ far' = far
        <5>1. ~StoreFar(u, [rec.far EXCEPT !.fin = TRUE])
          <6> SUFFICES ASSUME StoreFar(u, [rec.far EXCEPT !.fin = TRUE]) PROVE FALSE
            OBVIOUS
          <6>1. PICK obj \in FarObject : obj = [rec.far EXCEPT !.fin = TRUE]
            BY <1>t DEF FarObject
          <6>2. far'[u] = [obj EXCEPT !.rv = far[u].rv + 1]
            BY <1>t, <6>1 DEF StoreFar
          <6>3. [obj EXCEPT !.rv = far[u].rv + 1].rv = far[u].rv + 1
            BY DEF FarObject
          <6>4. far'[u].rv = far[u].rv + 1 /\ far' = far
            BY <3>1, <6>2, <6>3 DEF farVars
          <6> QED  BY <1>t, <6>4
        <5> QED  BY <1>t, <2>1, <2>u, <3>1, <5>1 DEF AddFinalizer, farVars, Worker
      <4> QED  BY <1>t, <2>1, <2>w, <4>1 DEF FarObject, AddFinalizer
    <3>2. CASE ~UNCHANGED farVars
      <4>1. /\ FarFresh(u, rec.far) /\ StoreFar(u, [rec.far EXCEPT !.fin = TRUE])
            /\ rec.pc = "addFinalizer"
            /\ \/ rec'.far = SetConditions(Started, far'[u])
               \/ rec'.far = [rec.far EXCEPT !.fin = TRUE]
        BY <1>t, <2>1, <2>u, <3>2 DEF AddFinalizer, Worker
      <4>2. rec.far = far[u] /\ ~far[u].fin /\ Present(far[u])
        BY <1>i, <2>u, <4>1 DEF CRInv, WorkerHas, FarFresh
      <4>3. /\ far'[u] = [[rec.far EXCEPT !.fin = TRUE] EXCEPT !.rv = far[u].rv + 1]
            /\ far'[u].rv = far[u].rv + 1 /\ far'[u].st = rec.far.st
        BY <1>t, <4>1 DEF StoreFar, FarObject
      <4>4. rec'.far # [rec.far EXCEPT !.fin = TRUE]
        BY <1>t, <4>2, <4>3 DEF FarObject
      <4>5. rec'.far.st = UpdateConditions(Started, far'[u].st)
        BY <1>t, <4>1, <4>3, <4>4 DEF SetConditions, FarObject
      <4> QED  BY <1>t, <2>u, <4>1, <4>2, <4>3, <4>5, StartedEffect
    <3> QED  BY <3>1, <3>2
  <2>2. CASE FinishRemediation /\ rec.pc = "evict" /\ UNCHANGED farVars
    <3>1. rec'.far = SetConditions(FinishedSuccessfully, rec.far)
      BY <1>t, <2>2 DEF FinishRemediation, Worker
    <3>2. /\ rec'.far.st = UpdateConditions(FinishedSuccessfully, rec.far.st)
          /\ rec'.far.rv = rec.far.rv
      BY <1>t, <3>1 DEF SetConditions, FarObject
    <3>3. rec'.far.st # rec.far.st
      BY <2>2, <2>w, <3>2 DEF farVars
    <3> QED  BY <1>t, <3>2, <3>3, ReasonOf, UpdateConditionsEffect
  <2>3. CASE RecReturn("requeue") \/ RecReturn("done") \/ RecGoto("status")
    <3>1. rec'.far = rec.far
      BY <1>t, <2>3 DEF RecReturn, RecGoto, Worker
    <3>2. CASE UNCHANGED far /\ rec.pc \notin {"status", "poll"}
      BY <2>w, <3>1, <3>2
    <3>3. CASE ~(UNCHANGED far /\ rec.pc \notin {"status", "poll"})
      <4>1. AddFinalizer \/ RemoveFinalizer \/ UpdateStatus \/ PollDone \/ PollTimesOut
        BY <1>3, <3>3 DEF WorkerStep, AddTaint, Execute, EvictByResourceDeletion, farVars,
           EvictByOutOfServiceTaint, RemoveOOSTaint, RemoveRemediationTaint
      <4>2. AddFinalizer \/ rec' = Idle \/ rec'.pc = "poll"
        BY <1>t, <4>1 DEF RemoveFinalizer, UpdateStatus, PollDone, PollTimesOut, Finish, Worker
      <4> QED  BY <2>1, <4>2 DEF Idle
    <3> QED  BY <3>2, <3>3
  <2>4. CASE ~AddFinalizer
    <3>1. \/ FinishRemediation /\ rec.pc = "evict" /\ UNCHANGED farVars
          \/ RecReturn("requeue") \/ RecReturn("done") \/ RecGoto("status")
          \/ rec' = Idle \/ rec'.pc = "poll"
          \/ AddTaint \/ RemoveOOSTaint \/ RemoveRemediationTaint
      BY <1>3, <1>t, <2>4 DEF WorkerStep, Execute, EvictByResourceDeletion,
         EvictByOutOfServiceTaint, RemoveFinalizer, UpdateStatus, PollDone, PollTimesOut, Finish,
         Worker
    <3>2. ASSUME AddTaint \/ RemoveOOSTaint \/ RemoveRemediationTaint
          PROVE  RecReturn("requeue") \/ RecGoto("status")
      BY <1>t, <3>2 DEF AddTaint, RemoveOOSTaint, RemoveRemediationTaint, RecGoto, Worker
    <3> QED  BY <2>2, <2>3, <3>1, <3>2 DEF Idle
  <2> QED  BY <2>1, <2>4
<1>4. CASE Restart
  BY <1>4 DEF Restart, Idle
<1> QED  BY <1>1, <1>2, <1>3, <1>4 DEF Next, Crash, ExecuterPanic, vars

\* A remediation that has begun does not get back to its beginning.
LEMMA BegunStays ==
    ASSUME TypeInv, AgentInv, [Next]_vars, NEW u \in FARs, Before(u)'
    PROVE  Before(u)
<1>t. far[u] \in FarObject
  BY CopiesType
<1>1. CASE far'[u].phase = "absent"
  BY <1>1, FarMonotone DEF Before
<1>2. CASE Present(far[u])' /\ ~far'[u].fin
  <2>1. far[u].phase = "present" \/ far[u].phase = "absent" \/ far[u].phase = "gone"
    BY <1>t DEF FarObject
  <2> QED  BY <1>2, <2>1, FarMonotone DEF Before, Present
<1>3. CASE Starting(u)'
  BY <1>3, WhatToWrite DEF Starting, Before, Works
<1> QED  BY <1>1, <1>2, <1>3 DEF Before

-----------------------------------------------------------------------------
(***************************************************************************)
(* The order of the reasons.                                               *)
(***************************************************************************)

\* The reason is the one a step gives to a CR that had another one.
Writes(u, reason) ==
    far'[u].st = UpdateConditions(reason, far[u].st) /\ far'[u].st.why = reason

\* Who may write which reason, and over which other one.
StatusStep(u) ==
    \/ /\ Writes(u, Started) /\ WorkerWrites(u) /\ Before(u)
       /\ far[u].st.why \in {"none", NodeNotFound}
    \/ Writes(u, NodeNotFound) /\ WorkerWrites(u) /\ Before(u) /\ far[u].st.why = "none"
    \/ /\ Writes(u, InterruptedByNHC) /\ WorkerWrites(u)
       /\ far[u].st.why \notin FailureReason
    \/ /\ Writes(u, FinishedSuccessfully) /\ WorkerWrites(u) /\ NoneStartable(u)
       /\ far[u].st.why = AgentSucceeded
    \/ /\ \E reason \in AgentOutcome : Writes(u, reason)
       /\ RoutineWrites(u) /\ far[u].st.why = Started

\* Whoever changes a CR's status does so as StatusStep says.
LEMMA OrderOfWrites ==
    ASSUME TypeInv, AgentInv, InterruptInv, StageInv, [Next]_vars, NEW u \in FARs,
           far'[u].st # far[u].st
    PROVE  StatusStep(u)
<1>t. far[u] \in FarObject /\ far[u].st \in Status
  BY CopiesType DEF FarObject
<1>i. Stage(u) /\ Shape(far[u].st) /\ CRInv(u) /\ Interrupted(u)
  BY DEF StageInv, Stage, AgentInv, InterruptInv
<1>b. Before(u) => far[u].st.why \in {"none", NodeNotFound, InterruptedByNHC}
  <2> SUFFICES ASSUME Before(u) PROVE far[u].st.why \in {"none", NodeNotFound, InterruptedByNHC}
    OBVIOUS
  <2>1. far[u].st.processing # "True" /\ far[u].st.fenceAgentActionSucceeded # "True"
    BY <1>i DEF CRInv, Untouched, Copies
  <2> QED  BY <1>t, <1>i, <2>1, ShapeReason DEF Stage, FailureReason
<1>r. ASSUME NEW reason, far'[u].st = UpdateConditions(reason, far[u].st) PROVE Writes(u, reason)
  BY <1>r, <1>t, ReasonOf DEF Writes
<1>1. ASSUME WorkerWrites(u) PROVE StatusStep(u)
  <2>w. /\ Works(u) /\ rec.pc = "status" /\ FarFresh(u, rec.far)
        /\ StatusToWrite(u, rec.far, far[u]) /\ far'[u].st = rec.far.st
    BY <1>1 DEF WorkerWrites
  <2>1. CASE rec.far.st = UpdateConditions(Started, far[u].st) /\ Starting(u) /\ ~far[u].nhc
    <3>1. Before(u) /\ far[u].st.why # InterruptedByNHC
      BY <1>i, <2>1 DEF Before, Interrupted
    <3> QED  BY <1>1, <1>b, <1>r, <2>w, <2>1, <3>1 DEF StatusStep
  <2>2. CASE rec.far.st = UpdateConditions(NodeNotFound, far[u].st)
    <3>1. Writes(u, NodeNotFound)
      BY <1>r, <2>w, <2>2
    <3>2. ~far[u].fin
      BY <1>i, <2>w, <3>1 DEF Stage, ReportsNoNode, Writes, FarFresh
    <3>3. Before(u)
      BY <2>w, <3>2 DEF Before, FarFresh
    <3>4. far[u].st.why \notin FailureReason
      BY <1>t, <1>i, <2>w, <2>2, FailureStays DEF FailureReason
    <3> QED  BY <1>1, <1>b, <3>1, <3>3, <3>4 DEF StatusStep, FailureReason
  <2>3. CASE rec.far.st = UpdateConditions(InterruptedByNHC, far[u].st)
    <3>1. far[u].st.why \notin FailureReason
      BY <1>t, <1>i, <2>w, <2>3, FailureStays DEF FailureReason
    <3> QED  BY <1>1, <1>r, <2>w, <2>3, <3>1 DEF StatusStep
  <2>4. CASE /\ rec.far.st = UpdateConditions(FinishedSuccessfully, far[u].st)
             /\ NeedsEviction(far[u].st) /\ NoneStartable(u)
    BY <1>1, <1>r, <1>t, <1>i, <2>w, <2>4, ShapeReason DEF StatusStep
  <2> QED  BY <2>w, <2>1, <2>2, <2>3, <2>4 DEF StatusToWrite
<1>2. ASSUME RoutineWrites(u) PROVE StatusStep(u)
  <2>1. PICK s \in Slots :
          /\ Runs(s, u)
          /\ far'[u].st = UpdateConditions(OutcomeReason(gor[s].cmdErr), far[u].st)
    BY <1>2 DEF RoutineWrites
  <2>2. OutcomeReason(gor[s].cmdErr) \in AgentOutcome
    BY DEF OutcomeReason, AgentOutcome
  <2>3. far[u].st.why = Started
    BY <1>i, <2>1, InterruptionStays DEF Stage
  <2> QED  BY <1>2, <1>r, <2>1, <2>2, <2>3 DEF StatusStep
<1> QED  BY <1>1, <1>2, WhoWrites

\* A new status keeps the shape of its reason.
LEMMA ShapeStep ==
    ASSUME TypeInv, AgentInv, InterruptInv, StageInv, [Next]_vars, NEW u \in FARs
    PROVE  Shape(far'[u].st)
<1>t. far[u] \in FarObject /\ far[u].st \in Status /\ Shape(far[u].st)
  BY CopiesType DEF FarObject, StageInv, Stage
<1>1. CASE far'[u].st = far[u].st
  BY <1>1, <1>t
<1>2. CASE far'[u].st # far[u].st
  <2>1. PICK reason \in ConditionsChangeReason :
          /\ Writes(u, reason)
          /\ reason = AgentSucceeded => far[u].st.why = Started
          /\ reason = FinishedSuccessfully => far[u].st.why = AgentSucceeded
    <3>1. StatusStep(u)
      BY <1>2, OrderOfWrites
    <3> QED  BY <3>1 DEF StatusStep, ConditionsChangeReason, AgentOutcome, Started, AgentSucceeded,
         AgentFailed, AgentTimedOut, FinishedSuccessfully, NodeNotFound, InterruptedByNHC
  <2> QED  BY <1>t, <2>1, ShapeKept DEF Writes
<1> QED  BY <1>1, <1>2

\* Statuses that were not written over: a reason that is neither of those a failure to find
\* the node, a start and an outcome may replace stays, or ends the remediation.
LEMMA LateReasons ==
    ASSUME TypeInv, AgentInv, InterruptInv, StageInv, [Next]_vars, NEW u \in FARs,
           far[u].st.why \in {AgentSucceeded, FinishedSuccessfully, InterruptedByNHC}
    PROVE  far'[u].st.why \in {AgentSucceeded, FinishedSuccessfully, InterruptedByNHC}
<1>1. CASE far'[u].st # far[u].st
  BY <1>1, OrderOfWrites DEF StatusStep, Writes, Started, AgentSucceeded, FinishedSuccessfully,
     NodeNotFound, InterruptedByNHC
<1> QED  BY <1>1

\* The parts of Stage, one by one.  The node is there once a CR has its finalizer.
LEMMA NodeThere ==
    ASSUME TypeInv, AgentInv, StageInv, [Next]_vars, faults'.node = 0, NEW u \in FARs
    PROVE  /\ NodeVersions(NodeOf[u])'
           /\ far'[u].fin \/ (Works(u)' /\ rec'.pc = "addFinalizer") =>
                nodeCache'[NodeOf[u]].exists
<1>i. /\ NodeVersions(NodeOf[u]) /\ NodeOf[u] \in Nodes
      /\ far[u].fin \/ (Works(u) /\ rec.pc = "addFinalizer") => nodeCache[NodeOf[u]].exists
  BY ClusterAssumption DEF StageInv, Stage
<1>1. NodeVersions(NodeOf[u])' /\ (nodeCache[NodeOf[u]].exists => nodeCache'[NodeOf[u]].exists)
  BY <1>i, NodeVersionsKept
<1>2. far'[u].fin => far[u].fin \/ (Works(u) /\ rec.pc = "addFinalizer")
  BY FarChange
<1>3. ASSUME Works(u)', rec'.pc = "addFinalizer" PROVE nodeCache[NodeOf[u]].exists
  <2>1. CASE ReconcileRemediation(u)
    BY <2>1 DEF ReconcileRemediation, CachedNode
  <2>2. CASE UNCHANGED rec
    BY <1>3, <1>i, <2>2 DEF Works
  <2>3. ASSUME ~UNCHANGED rec PROVE ReconcileRemediation(u)
    <3>1. ~WorkerStep /\ ~Restart
      <4>1. rec \in Worker
        BY DEF TypeInv, TypeOK
      <4>2. ASSUME WorkerStep
            PROVE  rec' = Idle \/ rec'.pc \in {"status", "poll", "execute", "evict", "removeTaint",
                                               "removeFinalizer"}
        BY <4>1, <4>2 DEF WorkerStep, AddFinalizer, AddTaint, Execute,
         EvictByResourceDeletion, EvictByOutOfServiceTaint, RemoveOOSTaint,
         RemoveRemediationTaint, RemoveFinalizer, UpdateStatus, PollDone, PollTimesOut, RecGoto,
         RecReturn, Finish, FinishRemediation, Worker
      <4> QED  BY <1>3, <4>2 DEF Idle, Restart
    <3>2. PICK v \in FARs : Reconcile(v)
      BY <2>3, <3>1 DEF Next, Crash, ExecuterPanic, vars
    <3> QED  BY <1>3, <3>2 DEF Reconcile, ReconcileNotFound, ReconcileDeletionPanic,
         ReconcileDeletion, ReconcileTimedOutByNHC, ReconcileNodeNotFound,
         ReconcileRemediation, Reconciles, Begin, Works
  <2> QED  BY <2>1, <2>2, <2>3
<1> QED  BY <1>i, <1>1, <1>2, <1>3

\* NodeNotFound is about to be reported only for a CR without the finalizer.
LEMMA NoNodeStep ==
    ASSUME TypeInv, AgentInv, StageInv, [Next]_vars, NEW u \in FARs, ReportsNoNode(u)'
    PROVE  ~far'[u].fin
<1>1. CASE Works(u) /\ rec' = rec /\ far'[u] = far[u]
  BY <1>1 DEF ReportsNoNode, StageInv, Stage
<1>2. CASE ReconcileNodeNotFound(u) /\ far'[u] = far[u]
  BY <1>2 DEF ReconcileNodeNotFound, CachedNode, StageInv, Stage
<1> QED  BY <1>1, <1>2, WhatToWrite
         DEF ReportsNoNode, Started, NodeNotFound, InterruptedByNHC, FinishedSuccessfully

\* An agent's failure is not reported before the remediation has begun.
LEMMA FailureAfterStart ==
    ASSUME TypeInv, AgentInv, InterruptInv, StageInv, [Next]_vars, NEW u \in FARs, Before(u)'
    PROVE  far'[u].st.why \notin {AgentFailed, AgentTimedOut}
<1>1. Before(u) /\ Untouched(u) /\ far[u].st.why \notin {AgentFailed, AgentTimedOut}
  BY BegunStays DEF AgentInv, CRInv, StageInv, Stage
<1>2. ~RoutineWrites(u)
  BY <1>1 DEF Untouched, RoutineWrites
<1> QED  BY <1>1, <1>2, OrderOfWrites
         DEF StatusStep, Writes, Started, AgentSucceeded, AgentFailed, AgentTimedOut,
             FinishedSuccessfully, NodeNotFound, InterruptedByNHC

\* While a goroutine runs the CR says that the remediation has started, or was interrupted.
LEMMA RunningStep ==
    ASSUME TypeInv, AgentInv, InterruptInv, StageInv, [Next]_vars, NEW u \in FARs,
           NEW s \in Slots, Runs(s, u)'
    PROVE  far'[u].st.why \in {Started, InterruptedByNHC}
<1>i. Stage(u) /\ CRInv(u)
  BY DEF StageInv, AgentInv
<1>1. CASE Works(u) /\ Execute
  <2>1. UNCHANGED far
    BY <1>1 DEF Execute, farVars
  <2>2. CASE UNCHANGED gor
    BY <1>i, <2>1, <2>2 DEF Runs, Live, Stage
  <2>3. CASE ~UNCHANGED gor
    <3>1. routines[u] = None
      BY <1>1, <2>3 DEF Execute, Exists, Works
    <3>2. MayStart(u)
      BY <1>1, <1>i DEF MayStart, CRInv, WorkerHas, Execute
    <3> QED  BY <1>i, <2>1, <3>1, <3>2 DEF Stage
  <2> QED  BY <2>2, <2>3
<1>2. CASE ~(Works(u) /\ Execute)
  <2>1. Runs(s, u) /\ far[u].st.why \in {Started, InterruptedByNHC}
    BY <1>2, <1>i, WhoStarts DEF Stage
  <2>2. ASSUME far'[u].st # far[u].st PROVE far'[u].st.why \in {Started, InterruptedByNHC}
    <3>1. ~Before(u)
      BY <1>i, <2>1 DEF CRInv, Untouched
    <3>2. ~RoutineWrites(u)
      <4> SUFFICES ASSUME NEW t \in Slots, Runs(t, u), PutAccepted(t) PROVE FALSE
        BY DEF RoutineWrites
      <4>1. t = s
        BY <1>i, <2>1 DEF CRInv, RoutineHas
      <4> QED  BY <4>1 DEF PutAccepted, Return, Becomes, Runs, Live, FreeSlot, TypeInv, TypeOK,
                           ExecTypeOK
    <3> QED  BY <2>1, <2>2, <3>1, <3>2, OrderOfWrites
             DEF StatusStep, Writes, Started, AgentSucceeded, InterruptedByNHC
  <2> QED  BY <2>1, <2>2
<1> QED  BY <1>1, <1>2

\* Who takes a goroutine out of the map: a deletion, an interruption, a success, a restart.
LEMMA WhoRemoves ==
    ASSUME TypeInv, AgentInv, [Next]_vars, NEW u \in FARs,
           routines[u] # None, routines'[u] = None
    PROVE  \/ ReconcileDeletion(u) \/ ReconcileTimedOutByNHC(u) \/ Restart
           \/ Works(u) /\ rec.pc = "evict" /\ FinishRemediation /\ UNCHANGED <<farVars, farCache>>
<1>1. CASE UNCHANGED routines
  BY <1>1
<1>2. ASSUME NEW s \in Slots, RoutineStep(s) PROVE FALSE
  BY <1>2, RoutineStepEffect
<1>3. ASSUME NEW v \in FARs, Remove(v) PROVE u = v
  BY <1>3, RemoveEffect DEF AgentInv, CRInv
<1>4. ASSUME NEW v \in FARs, Reconcile(v) PROVE ReconcileDeletion(u) \/ ReconcileTimedOutByNHC(u)
  BY <1>1, <1>3, <1>4 DEF Reconcile, ReconcileNotFound, ReconcileDeletionPanic, ReconcileDeletion,
         ReconcileTimedOutByNHC, ReconcileNodeNotFound, ReconcileRemediation
<1>5. CASE WorkerStep
  <2>1. rec.uid = u
    BY <1>5, WorkerStepOthers DEF SameRoutine
  <2>2. CASE Execute
    BY <2>1, <2>2, ExecuterAssumption DEF Execute, AsyncExecute, Exists, TypeInv, TypeOK, ExecTypeOK
  <2>3. CASE ~Execute
    BY <1>5, <2>1, <2>3 DEF WorkerStep, AddFinalizer, AddTaint, EvictByResourceDeletion, Works,
         EvictByOutOfServiceTaint, RemoveOOSTaint, RemoveRemediationTaint, RemoveFinalizer,
         UpdateStatus, PollDone, PollTimesOut, notCluster
  <2> QED  BY <2>2, <2>3
<1> QED  BY <1>1, <1>2, <1>4, <1>5 DEF Next, Crash, ExecuterPanic, vars, execVars

\* Whoever takes the goroutine out of the map leaves nobody who would start another one.
LEMMA RemovedForGood ==
    ASSUME TypeInv, AgentInv, [Next]_vars, NEW u \in FARs,
           routines[u] # None, routines'[u] = None, MayStart(u)'
    PROVE  Startable(far'[u])
<1>i. CRInv(u)
  BY DEF AgentInv
<1>c. ASSUME UNCHANGED <<far, farCache, farPending>> PROVE Copies(u)' = Copies(u)
  BY <1>c DEF Copies
<1>f. \A v \in Copies(u) : Follows(farCache[u], v)
  BY <1>i DEF CRInv, Versions, Copies
<1>1. CASE ReconcileDeletion(u) \/ ReconcileTimedOutByNHC(u)
  <2>1. /\ Copies(u)' = Copies(u) /\ rec'.pc \notin {"addTaint", "execute"}
        /\ farCache[u].del \/ farCache[u].nhc
    BY <1>1, <1>c DEF ReconcileDeletion, ReconcileTimedOutByNHC, allButRecAndQueue, Begin,
                      isTimedOutByNHC
  <2> QED  BY <1>f, <2>1 DEF MayStart, Startable, Follows
<1>2. CASE Works(u) /\ rec.pc = "evict" /\ FinishRemediation /\ UNCHANGED <<farVars, farCache>>
  <2>1. Copies(u)' = Copies(u)
    BY <1>2, <1>c DEF farVars
  <2>2. rec'.pc = "status"
    BY <1>2 DEF FinishRemediation, TypeInv, TypeOK, Worker
  <2>3. /\ rec.far.st.fenceAgentActionSucceeded = "True"
        /\ \A v \in Copies(u) : Follows(rec.far, v)
    BY <1>i, <1>2 DEF CRInv, WorkerHas, NeedsEviction
  <2> QED  BY <2>1, <2>2, <2>3 DEF MayStart, Follows
<1>3. CASE Restart
  BY <1>3 DEF Restart, MayStart, Copies, Idle
<1> QED  BY <1>1, <1>2, <1>3, WhoRemoves

\* What may still be started from somebody's copy is a remediation that has started.
LEMMA MayStartStep ==
    ASSUME TypeInv, AgentInv, InterruptInv, StageInv, [Next]_vars, NEW u \in FARs,
           routines'[u] = None, MayStart(u)'
    PROVE  far'[u].st.why \in {Started, InterruptedByNHC}
<1>i. Stage(u) /\ CRInv(u) /\ far'[u] \in FarObject
  BY AgentInvStep DEF StageInv, AgentInv, TypeInv, TypeOK, ClusterTypeOK
<1>1. CASE Startable(far'[u])
  BY <1>1, <1>i, ShapeStep, ShapeReason DEF Startable, FarObject
<1>2. CASE ~Startable(far'[u])
  <2>1. routines[u] = None
    BY <1>2, RemovedForGood
  <2>2. MayStart(u)
    <3>1. CASE \E v \in Copies(u)' : Startable(v)
      BY <1>2, <3>1, CopiesOf DEF MayStart
    <3>2. CASE Works(u)' /\ rec'.pc \in {"addTaint", "execute"} /\ NeedsFencing(rec'.far.st)
      BY <3>2, WorkerRemediates DEF MayStart, Remediating, Startable, Copies
    <3> QED  BY <3>1, <3>2 DEF MayStart
  <2>3. far[u].st.why \in {Started, InterruptedByNHC}
    BY <1>i, <2>1, <2>2 DEF Stage
  <2>4. ~RoutineWrites(u)
    <3> SUFFICES ASSUME NEW s \in Slots, Runs(s, u) PROVE FALSE
      BY DEF RoutineWrites
    <3>1. Over(u)
      BY <1>i, <2>1, ExecuterAssumption DEF CRInv, RoutineHas
    <3> QED  BY <2>2, <3>1 DEF Over, MayStart, NoneStartable
  <2> QED  BY <2>3, <2>4, OrderOfWrites
           DEF StatusStep, Writes, Started, AgentSucceeded, InterruptedByNHC
<1> QED  BY <1>1, <1>2

\* Whoever knows of the fence agent's success knows it from a status that came after it.
LEMMA KnownFencedStep ==
    ASSUME TypeInv, AgentInv, InterruptInv, StageInv, [Next]_vars, NEW u \in FARs,
           KnownFenced(u)'
    PROVE  far'[u].st.why \in {AgentSucceeded, FinishedSuccessfully, InterruptedByNHC}
<1>i. Stage(u) /\ far'[u] \in FarObject
  BY AgentInvStep DEF StageInv, TypeInv, TypeOK, ClusterTypeOK
<1>1. CASE far'[u].st.fenceAgentActionSucceeded = "True"
  BY <1>1, <1>i, ShapeStep, ShapeReason DEF FarObject
<1>2. CASE far'[u].st.fenceAgentActionSucceeded # "True"
  <2>1. KnownFenced(u)
    <3>1. CASE \E v \in Copies(u)' : v.st.fenceAgentActionSucceeded = "True"
      BY <1>2, <3>1, CopiesOf DEF KnownFenced
    <3>2. CASE /\ Works(u)' /\ rec'.pc \in {"addTaint", "execute", "evict"}
               /\ rec'.far.st.fenceAgentActionSucceeded = "True"
      BY <3>2, WorkerRemediates DEF KnownFenced, Remediating, Copies
    <3> QED  BY <3>1, <3>2 DEF KnownFenced
  <2> QED  BY <1>i, <2>1, LateReasons DEF Stage
<1> QED  BY <1>1, <1>2

\* The stages of every CR are kept by every step that deletes no node.
LEMMA StageInvStep ==
    ASSUME TypeInv, AgentInv, InterruptInv, StageInv, [Next]_vars, faults'.node = 0
    PROVE  StageInv'
<1> SUFFICES ASSUME NEW u \in FARs PROVE (NodeVersions(NodeOf[u]) /\ Stage(u))'
  BY DEF StageInv
<1> QED  BY ShapeStep, NodeThere, NoNodeStep, FailureAfterStart, RunningStep, MayStartStep,
            KnownFencedStep DEF Stage

\* The interruption is final, as an invariant step (see InterruptionProofs).
LEMMA InterruptInvStep ==
    ASSUME TypeInv, AgentInv, InterruptInv, [Next]_vars
    PROVE  InterruptInv'
<1>1. ASSUME NEW u \in FARs PROVE Interrupted(u)'
  <2>1. CASE far'[u].st.why # InterruptedByNHC
    BY <2>1 DEF Interrupted
  <2> QED  BY <2>1, InterruptedStep, InterruptionRecorded
<1> QED  BY <1>1 DEF InterruptInv

\* The initial states.
LEMMA StageInvInit == Init => InterruptInv /\ StageInv /\ faults.node = 0
<1> SUFFICES ASSUME Init PROVE InterruptInv /\ StageInv /\ faults.node = 0
  OBVIOUS
<1>1. InterruptInv /\ faults.node = 0
  BY DEF Init, ClusterInit, InterruptInv, Interrupted, NoFar, NoConditions, InterruptedByNHC
<1>2. ASSUME NEW u \in FARs PROVE NodeVersions(NodeOf[u]) /\ Stage(u)
  <2>1. /\ NodeOf[u] \in Nodes /\ NodeCopies(NodeOf[u]) = {node[NodeOf[u]]}
        /\ nodePending[NodeOf[u]] = {} /\ nodeCache[NodeOf[u]] = node[NodeOf[u]]
        /\ node[NodeOf[u]].rv = 0
    BY ClusterAssumption DEF Init, ClusterInit, NodeCopies
  <2>2. NodeVersions(NodeOf[u])
    BY <2>1 DEF NodeVersions
  <2>3. /\ far[u] = NoFar /\ Copies(u) = {NoFar} /\ ~Works(u) /\ \A s \in Slots : ~Runs(s, u)
    BY DEF Init, ClusterInit, ExecInit, NewExecuter, FreeSlot, Idle, Works, Runs, Live, Copies
  <2>4. /\ Shape(NoConditions) /\ ~NoFar.fin /\ NoFar.st = NoConditions
        /\ ~Startable(NoFar) /\ NoConditions.fenceAgentActionSucceeded # "True"
        /\ NoConditions.why \notin {AgentFailed, AgentTimedOut}
    BY DEF NoFar, NoConditions, Shape, Startable, Present, FailureReason, Started, AgentSucceeded,
       AgentFailed, AgentTimedOut, FinishedSuccessfully, NodeNotFound, InterruptedByNHC
  <2>5. ~MayStart(u) /\ ~KnownFenced(u) /\ ~ReportsNoNode(u)
    BY <2>3, <2>4 DEF MayStart, KnownFenced, ReportsNoNode
  <2> QED  BY <2>2, <2>3, <2>4, <2>5 DEF Stage
<1> QED  BY <1>1, <1>2 DEF StageInv

\* No node is deleted if none may be.
LEMMA NoNodeIsDeleted ==
    ASSUME MaxNodeDeletes = 0, TypeInv, faults.node = 0, [Next]_vars
    PROVE  faults'.node = 0
<1>t. faults \in Faults
  BY DEF TypeInv, TypeOK, ClusterTypeOK
<1>1. ASSUME NEW n \in Nodes, DeleteNode(n) PROVE FALSE
  BY <1>t, <1>1 DEF DeleteNode
<1>2. ASSUME ApiError \/ Edit PROVE faults'.node = 0
  BY <1>t, <1>2 DEF ApiError, Edit, Faults
<1>3. ASSUME NEW u \in FARs, AnnotateTimedOut(u) PROVE faults'.node = 0
  BY <1>t, <1>3 DEF AnnotateTimedOut, Faults
<1>4. CASE Crash
  BY <1>t, <1>4 DEF Crash, Faults
<1>5. CASE UNCHANGED faults
  BY <1>5
<1>6. CASE ClusterNext
  BY <1>1, <1>2, <1>3, <1>5, <1>6
     DEF ClusterNext, DeliverFar, Resync, CreateFar, DeleteFar, EditFar, DeliverNode, EditNode,
         CreateNode, nodesAndCaches
<1>7. ASSUME NEW s \in Slots, RoutineStep(s) PROVE faults'.node = 0
  BY <1>2, <1>5, <1>7 DEF RoutineStep, NextAttempt, CommandSucceeds, CommandFails, PutAccepted,
         CommandInterrupted, NextUpdate, GetByUID, PutConflict, PutFails, clusterVars
<1>8. ASSUME NEW u \in FARs, Reconcile(u) PROVE faults'.node = 0
  BY <1>5, <1>8 DEF Reconcile, ReconcileNotFound, ReconcileDeletionPanic, ReconcileDeletion,
         ReconcileTimedOutByNHC, ReconcileNodeNotFound, ReconcileRemediation, allButRecAndQueue
<1>9. CASE WorkerStep
  <2>1. CASE AddFinalizer \/ RemoveFinalizer \/ UpdateStatus \/ PollDone \/ PollTimesOut
    BY <1>2, <1>5, <2>1 DEF AddFinalizer, RemoveFinalizer, UpdateStatus, PollDone, PollTimesOut,
       Refused
  <2>2. CASE AddTaint \/ EvictByOutOfServiceTaint \/ RemoveOOSTaint \/ RemoveRemediationTaint
    BY <1>2, <1>5, <2>2 DEF AddTaint, EvictByOutOfServiceTaint, RemoveOOSTaint, Refused,
       RemoveRemediationTaint, AppendTaint, AppendTaintFails, RemoveTaint, RemoveTaintFails
  <2>3. CASE Execute \/ EvictByResourceDeletion
    BY <1>2, <1>5, <2>3 DEF Execute, EvictByResourceDeletion
  <2> QED  BY <1>9, <2>1, <2>2, <2>3 DEF WorkerStep
<1> QED  BY <1>4, <1>5, <1>6, <1>7, <1>8, <1>9 DEF Next, ExecuterPanic, vars, clusterVars

StageInvs == TypeInv /\ AgentInv /\ InterruptInv /\ StageInv /\ faults.node = 0

\* All of it together, for the two theorems of this module.
LEMMA StagesAlways ==
    ASSUME MaxNodeDeletes = 0
    PROVE  /\ Init => StageInvs
           /\ StageInvs /\ [Next]_vars => StageInvs'
  BY AgentInvInit, StageInvInit, AgentInvStep, InterruptInvStep, NoNodeIsDeleted, StageInvStep
     DEF StageInvs

\* In a cluster whose nodes are not deleted, the reasons of a CR's conditions follow each other
\* in the order that conditions.go documents: it starts once, the agent's outcome comes only
\* after the start and the success only after the agent's success, whatever is stale, lost,
\* retried or restarted.
THEOREM ReasonsFollow == ASSUME MaxNodeDeletes = 0 PROVE Spec => ReasonsInOrder
<1>1. ASSUME StageInvs, [Next]_vars, NEW u \in FARs, far'[u].st # far[u].st
      PROVE  OrderOfReasons(far[u].st, far'[u].st)
  <2>1. StatusStep(u)
    BY <1>1, OrderOfWrites DEF StageInvs
  <2> QED  BY <2>1 DEF StatusStep, Writes, OrderOfReasons, AgentOutcome, Started, AgentSucceeded,
       AgentFailed, AgentTimedOut, FinishedSuccessfully, NodeNotFound, InterruptedByNHC
<1>2. StageInvs /\ [Next]_vars =>
        [\A u \in FARs : far'[u].st # far[u].st => OrderOfReasons(far[u].st, far'[u].st)]_far
  BY <1>1
<1> QED  BY <1>2, StagesAlways, PTL DEF Spec, ReasonsInOrder

=============================================================================

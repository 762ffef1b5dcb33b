------------------------- MODULE InterruptionProofs -------------------------
(***************************************************************************)
(* Who writes the status of a CR, and why an interruption by NHC is final. *)
(***************************************************************************)
EXTENDS VersionProofs

-----------------------------------------------------------------------------
(***************************************************************************)
(* The two writers of a CR's status: the deferred updateStatus of the      *)
(* worker and the report of a goroutine.                                   *)
(***************************************************************************)
WorkerWrites(u) ==
    /\ Works(u) /\ rec.pc = "status" /\ UpdateStatus
    /\ FarFresh(u, rec.far) /\ StatusToWrite(u, rec.far, far[u])
    /\ far'[u].st = rec.far.st

RoutineWrites(u) ==
    \E s \in Slots :
        /\ Runs(s, u) /\ gor[s].pc = "put" /\ PutAccepted(s) /\ FarFresh(u, gor[s].obj)
        /\ far'[u].st = UpdateConditions(OutcomeReason(gor[s].cmdErr), far[u].st)

\* Storing a version gives the CR that version's status, and no other CR a new one.
LEMMA StoreFarStatusOf ==
    ASSUME TypeInv, NEW u \in FARs, NEW v \in FARs, NEW obj \in FarObject, StoreFar(u, obj)
    PROVE  far'[v].st = IF v = u THEN obj.st ELSE far[v].st
  BY DEF StoreFar, TypeInv, TypeOK, ClusterTypeOK, FarObject

\* A status that changes was written by the worker or by the CR's own goroutine, and
\* neither of them has an old version in hand when it does.
LEMMA WhoWrites ==
    ASSUME TypeInv, AgentInv, [Next]_vars, NEW u \in FARs
    PROVE  far'[u].st = far[u].st \/ WorkerWrites(u) \/ RoutineWrites(u)
<1>t. \A v \in FARs : far[v] \in FarObject /\ CRInv(v)
  BY CopiesType DEF AgentInv
<1>1. CASE ClusterNext
  <2>1. ASSUME NEW v \in FARs, CreateFar(v) PROVE far'[u].st = far[u].st
    <3>1. far[v] = NoFar
      BY <1>t, <2>1 DEF CreateFar, CRInv, Versions, Copies
    <3>2. [NoFar EXCEPT !.phase = "present"] \in FarObject
          /\ [NoFar EXCEPT !.phase = "present"].st = far[v].st
      BY <3>1, SetConditionsType DEF FarObject, NoFar
    <3> QED  BY <2>1, <3>2, StoreFarStatusOf DEF CreateFar
  <2>2. ASSUME NEW v \in FARs, DeleteFar(v) \/ AnnotateTimedOut(v) \/ EditFar(v)
        PROVE  far'[u].st = far[u].st
    <3>1. PICK obj \in FarObject : StoreFar(v, obj) /\ obj.st = far[v].st
      <4>1. /\ [far[v] EXCEPT !.del = TRUE] \in FarObject
            /\ [far[v] EXCEPT !.phase = "gone"] \in FarObject
            /\ [far[v] EXCEPT !.nhc = TRUE] \in FarObject
            /\ [far[v] EXCEPT !.del = TRUE].st = far[v].st
            /\ [far[v] EXCEPT !.phase = "gone"].st = far[v].st
            /\ [far[v] EXCEPT !.nhc = TRUE].st = far[v].st
        BY <1>t DEF FarObject
      <4> QED  BY <1>t, <2>2, <4>1 DEF DeleteFar, AnnotateTimedOut, EditFar
    <3> QED  BY <3>1, StoreFarStatusOf
  <2>3. CASE UNCHANGED far
    BY <2>3
  <2> QED  BY <1>1, <2>1, <2>2, <2>3
           DEF ClusterNext, DeliverFar, Resync, DeliverNode, EditNode, DeleteNode, CreateNode
<1>2. ASSUME NEW s \in Slots, RoutineStep(s)
      PROVE  far'[u].st = far[u].st \/ RoutineWrites(u)
  <2>1. CASE ~PutAccepted(s)
    BY <1>2, <2>1, RoutineStepEffect
  <2>2. CASE PutAccepted(s)
    <3> DEFINE v == gor[s].uid
               obj == [far[v] EXCEPT !.st = gor[s].obj.st]
    <3>1. /\ v \in FARs /\ Runs(s, v) /\ gor[s].pc = "put" /\ FarFresh(v, gor[s].obj)
          /\ StoreFarStatus(v, gor[s].obj.st) /\ gor[s].obj.st \in Status
      BY <1>2, <2>2, RoutineStepEffect
         DEF PutAccepted, TypeInv, TypeOK, ExecTypeOK, Goroutine, FarObject
    <3>2. gor[s].obj = WithOutcome(far[v], gor[s].cmdErr)
      BY <1>t, <3>1 DEF CRInv, RoutineHas, FarFresh
    <3>3. gor[s].obj.st = UpdateConditions(OutcomeReason(gor[s].cmdErr), far[v].st)
      BY <1>t, <3>1, <3>2 DEF WithOutcome, FarObject
    <3>4. obj \in FarObject /\ obj.st = gor[s].obj.st
      BY <1>t, <3>1 DEF FarObject
    <3>5. far'[u].st = far[u].st \/ (u = v /\ far'[u].st = gor[s].obj.st)
      BY <3>1, <3>4, StoreFarStatusOf DEF StoreFarStatus
    <3> QED  BY <2>2, <3>1, <3>3, <3>5 DEF RoutineWrites
  <2> QED  BY <2>1, <2>2
<1>3. CASE WorkerStep
  <2> DEFINE v == rec.uid
  <2>w. rec.far \in FarObject /\ rec.far.st \in Status
    BY DEF TypeInv, TypeOK, Worker, FarObject
  <2>1. CASE AddFinalizer \/ RemoveFinalizer
    <3>0. v \in FARs /\ Works(v)
      BY <2>1 DEF AddFinalizer, RemoveFinalizer, TypeInv, Owned, Works
    <3>1. CASE UNCHANGED farVars
      BY <3>1 DEF farVars
    <3>2. CASE ~UNCHANGED farVars
      <4>1. /\ FarFresh(v, rec.far)
            /\ \/ StoreFar(v, [rec.far EXCEPT !.fin = TRUE])
               \/ StoreFar(v, [rec.far EXCEPT !.phase = "gone", !.fin = FALSE])
            /\ rec.pc \in {"addFinalizer", "removeFinalizer"}
        BY <2>1, <3>2 DEF AddFinalizer, RemoveFinalizer
      <4>2. rec.far = far[v]
        BY <1>t, <3>0, <4>1 DEF CRInv, WorkerHas, FarFresh
      <4>3. /\ [rec.far EXCEPT !.fin = TRUE] \in FarObject
            /\ [rec.far EXCEPT !.fin = TRUE].st = far[v].st
            /\ [rec.far EXCEPT !.phase = "gone", !.fin = FALSE] \in FarObject
            /\ [rec.far EXCEPT !.phase = "gone", !.fin = FALSE].st = far[v].st
        BY <2>w, <4>2 DEF FarObject
      <4> QED  BY <3>0, <4>1, <4>3, StoreFarStatusOf
    <3> QED  BY <3>1, <3>2
  <2>2. CASE UpdateStatus
    <3>0. v \in FARs /\ Works(v) /\ rec.pc = "status"
      BY <2>2 DEF UpdateStatus, TypeInv, Owned, Works
    <3>1. CASE UNCHANGED farVars
      BY <3>1 DEF farVars
    <3>2. CASE ~UNCHANGED farVars
      <4> DEFINE obj == [far[v] EXCEPT !.st = rec.far.st]
      <4>1. FarFresh(v, rec.far) /\ StoreFar(v, obj)
        BY <2>2, <3>2 DEF UpdateStatus, StoreFarStatus, farVars
      <4>2. StatusToWrite(v, rec.far, far[v])
        BY <1>t, <3>0, <4>1 DEF CRInv, WorkerHas, FarFresh
      <4>3. obj \in FarObject /\ obj.st = rec.far.st
        BY <1>t, <2>w, <3>0 DEF FarObject
      <4>4. far'[u].st = IF u = v THEN rec.far.st ELSE far[u].st
        BY <3>0, <4>1, <4>3, StoreFarStatusOf
      <4> QED  BY <2>2, <3>0, <4>1, <4>2, <4>4 DEF WorkerWrites
    <3> QED  BY <3>1, <3>2
  <2>3. CASE UNCHANGED farVars
    BY <2>3 DEF farVars
  <2> QED  BY <1>3, <2>1, <2>2, <2>3
           DEF WorkerStep, AddTaint, Execute, EvictByResourceDeletion,
               EvictByOutOfServiceTaint, RemoveOOSTaint, RemoveRemediationTaint, PollDone,
               PollTimesOut
<1>4. CASE UNCHANGED far
  BY <1>4
<1>5. ASSUME NEW v \in FARs, Reconcile(v) PROVE UNCHANGED far
  BY <1>5 DEF Reconcile, ReconcileNotFound, ReconcileDeletionPanic, ReconcileDeletion,
         ReconcileTimedOutByNHC, ReconcileNodeNotFound, ReconcileRemediation, allButRecAndQueue
<1> QED  BY <1>1, <1>2, <1>3, <1>4, <1>5
         DEF Next, Crash, ExecuterPanic, Restart, vars, clusterVars

\* A step leaves a CR as it is, or stores a version that does not go back on the finalizer,
\* the deletion mark, or the annotation.
LEMMA FarMonotone ==
    ASSUME TypeInv, AgentInv, [Next]_vars, NEW u \in FARs
    PROVE  \/ far'[u] = far[u]
           \/ /\ far'[u].rv = far[u].rv + 1 /\ far[u].phase # "gone" /\ far'[u].phase # "absent"
              /\ far[u].fin => far'[u].fin \/ far'[u].phase = "gone"
              /\ far[u].del => far'[u].del
              /\ far[u].nhc => far'[u].nhc
<1>t. \A v \in FARs : far[v] \in FarObject /\ CRInv(v)
  BY CopiesType DEF AgentInv
<1>s. ASSUME NEW v \in FARs, NEW obj \in FarObject, StoreFar(v, obj), v = u => Advances(v, obj)
      PROVE  \/ far'[u] = far[u]
             \/ /\ far'[u].rv = far[u].rv + 1 /\ far[u].phase # "gone" /\ far'[u].phase # "absent"
                /\ far[u].fin => far'[u].fin \/ far'[u].phase = "gone"
                /\ far[u].del => far'[u].del
                /\ far[u].nhc => far'[u].nhc
  <2>1. CASE v = u
    <3>1. far'[u] = [obj EXCEPT !.rv = far[u].rv + 1]
      BY <1>s, <2>1 DEF StoreFar, TypeInv, TypeOK, ClusterTypeOK
    <3> QED  BY <1>s, <2>1, <3>1 DEF FarObject, Advances
  <2>2. CASE v # u
    BY <1>s, <2>2 DEF StoreFar, TypeInv, TypeOK, ClusterTypeOK
  <2> QED  BY <2>1, <2>2
<1>1. ASSUME NEW v \in FARs,
             CreateFar(v) \/ DeleteFar(v) \/ AnnotateTimedOut(v) \/ EditFar(v)
      PROVE  \E obj \in FarObject : StoreFar(v, obj) /\ Advances(v, obj)
  <2>1. CASE CreateFar(v)
    <3>1. far[v] = NoFar
      BY <1>t, <2>1 DEF CreateFar, CRInv, Versions, Copies
    <3>2. /\ [NoFar EXCEPT !.phase = "present"] \in FarObject
          /\ Advances(v, [NoFar EXCEPT !.phase = "present"])
      BY <3>1, SetConditionsType DEF FarObject, NoFar, Advances
    <3> QED  BY <2>1, <3>2 DEF CreateFar
  <2>2. CASE DeleteFar(v)
    <3>1. /\ [far[v] EXCEPT !.del = TRUE] \in FarObject
          /\ Advances(v, [far[v] EXCEPT !.del = TRUE])
          /\ [far[v] EXCEPT !.phase = "gone"] \in FarObject
          /\ Advances(v, [far[v] EXCEPT !.phase = "gone"])
      BY <1>t, <2>2 DEF DeleteFar, FarObject, Advances, Present
    <3> QED  BY <2>2, <3>1 DEF DeleteFar
  <2>3. CASE AnnotateTimedOut(v)
    <3>1. [far[v] EXCEPT !.nhc = TRUE] \in FarObject /\ Advances(v, [far[v] EXCEPT !.nhc = TRUE])
      BY <1>t, <2>3 DEF AnnotateTimedOut, FarObject, Advances, Present
    <3> QED  BY <2>3, <3>1 DEF AnnotateTimedOut
  <2>4. CASE EditFar(v)
    BY <1>t, <2>4 DEF EditFar, Advances, Present
  <2> QED  BY <1>1, <2>1, <2>2, <2>3, <2>4
<1>2. ASSUME NEW v \in FARs, NEW st \in Status, StoreFarStatus(v, st), Present(far[v]),
             ~UNCHANGED far
      PROVE  \E obj \in FarObject : StoreFar(v, obj) /\ Advances(v, obj)
  <2>1. /\ [far[v] EXCEPT !.st = st] \in FarObject
        /\ Advances(v, [far[v] EXCEPT !.st = st])
    BY <1>t, <1>2 DEF FarObject, Advances, Present
  <2> QED  BY <1>2, <2>1 DEF StoreFarStatus
<1>3. ASSUME NEW s \in Slots, RoutineStep(s), ~UNCHANGED far
      PROVE  \E v \in FARs, obj \in FarObject : StoreFar(v, obj) /\ Advances(v, obj)
  <2>1. PutAccepted(s) /\ gor[s].uid \in FARs /\ gor[s].obj.st \in Status
    BY <1>3, RoutineStepEffect DEF TypeInv, TypeOK, ExecTypeOK, Goroutine, FarObject
  <2> QED  BY <1>2, <1>3, <2>1 DEF PutAccepted, FarFresh
<1>4. ASSUME WorkerStep, ~UNCHANGED far
      PROVE  \E v \in FARs, obj \in FarObject : StoreFar(v, obj) /\ Advances(v, obj)
  <2> DEFINE v == rec.uid
  <2>w. rec.far \in FarObject /\ rec.far.st \in Status
    BY DEF TypeInv, TypeOK, Worker, FarObject
  <2>0. /\ v \in FARs /\ Works(v) /\ FarFresh(v, rec.far)
        /\ \/ rec.pc = "addFinalizer" /\ StoreFar(v, [rec.far EXCEPT !.fin = TRUE])
           \/ /\ rec.pc = "removeFinalizer"
              /\ StoreFar(v, [rec.far EXCEPT !.phase = "gone", !.fin = FALSE])
           \/ rec.pc = "status" /\ StoreFarStatus(v, rec.far.st)
    BY <1>4 DEF WorkerStep, AddFinalizer, AddTaint, Execute, EvictByResourceDeletion,
         EvictByOutOfServiceTaint, RemoveOOSTaint, RemoveRemediationTaint, RemoveFinalizer,
         UpdateStatus, PollDone, PollTimesOut, farVars, TypeInv, Owned, Works
  <2>1. CASE rec.pc = "status"
    BY <1>2, <1>4, <2>w, <2>0, <2>1 DEF FarFresh
  <2>2. CASE rec.pc # "status"
    <3>1. rec.far = far[v] /\ Present(far[v])
      BY <1>t, <2>0, <2>2 DEF CRInv, WorkerHas, FarFresh
    <3>2. /\ [rec.far EXCEPT !.fin = TRUE] \in FarObject
          /\ Advances(v, [rec.far EXCEPT !.fin = TRUE])
          /\ [rec.far EXCEPT !.phase = "gone", !.fin = FALSE] \in FarObject
          /\ Advances(v, [rec.far EXCEPT !.phase = "gone", !.fin = FALSE])
      BY <2>w, <3>1 DEF FarObject, Advances, Present
    <3> QED  BY <2>0, <2>2, <3>2
  <2> QED  BY <2>1, <2>2
<1>5. ASSUME NEW v \in FARs, Reconcile(v) PROVE UNCHANGED far
  BY <1>5 DEF Reconcile, ReconcileNotFound, ReconcileDeletionPanic, ReconcileDeletion,
         ReconcileTimedOutByNHC, ReconcileNodeNotFound, ReconcileRemediation, allButRecAndQueue
<1>6. CASE ClusterNext
  BY <1>1, <1>6, <1>s
     DEF ClusterNext, DeliverFar, Resync, DeliverNode, EditNode, DeleteNode, CreateNode
<1> QED  BY <1>s, <1>3, <1>4, <1>5, <1>6
         DEF Next, Crash, ExecuterPanic, Restart, vars, clusterVars

-----------------------------------------------------------------------------
(***************************************************************************)
(* An interruption by NHC is final.                                        *)
(***************************************************************************)

\* The reason of a status that is written is the writer's.
LEMMA ReasonOf ==
    ASSUME NEW st \in Status, NEW reason
    PROVE  UpdateConditions(reason, st) = st \/ UpdateConditions(reason, st).why = reason
<1>1. [Requested(reason, st) EXCEPT !.why = reason].why = reason
  BY DEF Requested, Status
<1> QED  BY <1>1 DEF UpdateConditions

\* A status with the interruption on record stays as it is.
LEMMA InterruptionStays ==
    ASSUME TypeInv, AgentInv, InterruptInv, [Next]_vars, NEW u \in FARs,
           far[u].st.why = InterruptedByNHC
    PROVE  far'[u].st = far[u].st
<1>i. /\ far[u].nhc /\ far[u].st.fenceAgentActionSucceeded = "False"
      /\ far[u].st.processing = "False" /\ far[u].st.succeeded = "False"
      /\ \A s \in Slots : (Runs(s, u) /\ gor[s].pc = "put") => gor[s].obj.rv < far[u].rv
  BY DEF InterruptInv, Interrupted
<1>t. far[u] \in FarObject /\ far[u].st \in Status /\ far[u].rv \in Nat
  BY CopiesType DEF FarObject
<1>1. CASE WorkerWrites(u)
  <2>1. UpdateConditions(InterruptedByNHC, far[u].st) = far[u].st
    <3>1. Requested(InterruptedByNHC, far[u].st) = far[u].st
      BY <1>i, <1>t DEF Requested, Status, InterruptedByNHC, Started, AgentSucceeded,
                        FinishedSuccessfully
    <3> QED  BY <3>1 DEF UpdateConditions
  <2> QED  BY <1>1, <1>i, <2>1 DEF WorkerWrites, StatusToWrite, NeedsEviction
<1>2. CASE RoutineWrites(u)
  BY <1>2, <1>i, <1>t DEF RoutineWrites, FarFresh
<1> QED  BY <1>1, <1>2, WhoWrites

\* What keeps the invariant of an interruption that stays on record.
LEMMA InterruptedKept ==
    ASSUME TypeInv, NEW u \in FARs, Interrupted(u), far[u].st.why = InterruptedByNHC,
           far'[u].st = far[u].st, far'[u].nhc, farCache'[u].nhc,
           far'[u].rv = far[u].rv \/ far'[u].rv = far[u].rv + 1,
           routines'[u] = None,
           \A s \in Slots : Runs(s, u)' =>
               /\ Runs(s, u) /\ gor'[s].cancelled
               /\ gor'[s].pc = "put" => gor[s].pc = "put" /\ gor'[s].obj = gor[s].obj,
           Works(u)' => rec'.pc \notin {"addFinalizer", "addTaint", "execute", "evict"}
    PROVE  Interrupted(u)'
<1>1. Stopped(u)'
  BY DEF Stopped
<1>2. far[u].rv \in Nat /\ \A s \in Slots : gor[s].obj.rv \in Nat
  BY CopiesType DEF TypeInv, TypeOK, ExecTypeOK, Goroutine, FarObject
<1>3. \A s \in Slots : (Runs(s, u)' /\ gor'[s].pc = "put") => gor'[s].obj.rv < far'[u].rv
  BY <1>2 DEF Interrupted
<1> QED  BY <1>1, <1>3 DEF Interrupted

\* The cache does not go back on what it has seen.
LEMMA CacheFollows ==
    ASSUME TypeInv, AgentInv, [Next]_vars, NEW u \in FARs
    PROVE  Follows(farCache[u], farCache'[u])
<1>c. \A w \in Copies(u) : Follows(farCache[u], w)
  BY DEF AgentInv, CRInv, Versions, Copies
<1> SUFFICES farCache'[u] \in Copies(u)
  BY <1>c
<1>1. ASSUME NEW v \in FARs, DeliverFar(v) PROVE farCache'[u] \in Copies(u)
  BY <1>1 DEF DeliverFar, TypeInv, TypeOK, ClusterTypeOK, Copies
<1>2. CASE Restart
  BY <1>2 DEF Restart, Copies
<1>3. CASE UNCHANGED farCache
  BY <1>3 DEF Copies
<1>4. ASSUME NEW s \in Slots, RoutineStep(s) PROVE UNCHANGED farCache
  BY <1>4, RoutineStepEffect
<1>5. ASSUME NEW v \in FARs, Reconcile(v) PROVE UNCHANGED farCache
  BY <1>5 DEF Reconcile, ReconcileNotFound, ReconcileDeletionPanic, ReconcileDeletion,
         ReconcileTimedOutByNHC, ReconcileNodeNotFound, ReconcileRemediation, allButRecAndQueue
<1>6. ASSUME WorkerStep PROVE UNCHANGED farCache
  BY <1>6 DEF WorkerStep, AddFinalizer, AddTaint, Execute, EvictByResourceDeletion,
         EvictByOutOfServiceTaint, RemoveOOSTaint, RemoveRemediationTaint, RemoveFinalizer,
         UpdateStatus, PollDone, PollTimesOut
<1> QED  BY <1>1, <1>2, <1>3, <1>4, <1>5, <1>6
         DEF Next, Crash, ExecuterPanic, vars, clusterVars, ClusterNext, Resync, CreateFar,
             DeleteFar, AnnotateTimedOut, EditFar, DeliverNode, EditNode, DeleteNode,
             CreateNode, nodesAndCaches

\* An interruption on record keeps its CR at rest.
LEMMA InterruptedStep ==
    ASSUME TypeInv, AgentInv, InterruptInv, [Next]_vars, NEW u \in FARs,
           far[u].st.why = InterruptedByNHC
    PROVE  Interrupted(u)'
<1>i. /\ Interrupted(u) /\ far[u].nhc /\ farCache[u].nhc /\ routines[u] = None
      /\ \A s \in Slots : Runs(s, u) => gor[s].cancelled
      /\ Works(u) => rec.pc \notin {"addFinalizer", "addTaint", "execute", "evict"}
  BY DEF InterruptInv, Interrupted, Stopped
<1>f. /\ far'[u].st = far[u].st /\ far'[u].nhc /\ farCache'[u].nhc
      /\ far'[u].rv = far[u].rv \/ far'[u].rv = far[u].rv + 1
  BY <1>i, InterruptionStays, FarMonotone, CacheFollows DEF Follows
<1> DEFINE Quiet == \A s \in Slots : Runs(s, u)' =>
                       /\ Runs(s, u) /\ gor'[s].cancelled
                       /\ gor'[s].pc = "put" => gor[s].pc = "put" /\ gor'[s].obj = gor[s].obj
           Resting == Works(u)' => rec'.pc \notin {"addFinalizer", "addTaint", "execute", "evict"}
<1> SUFFICES routines'[u] = None /\ Quiet /\ Resting
  BY <1>i, <1>f, InterruptedKept
<1>k. ASSUME SameRoutine(u), SameWorker(u) PROVE routines'[u] = None /\ Quiet /\ Resting
  BY <1>i, <1>k DEF SameRoutine, SameWorker, Runs, Live, Works
<1>1. CASE UNCHANGED <<routines, gor, rec>>
  BY <1>k, <1>1 DEF SameRoutine, SameWorker
<1>2. ASSUME NEW s \in Slots, RoutineStep(s), UNCHANGED rec
      PROVE  routines'[u] = None /\ Quiet /\ Resting
  <2>1. routines'[u] = None /\ Resting
    BY <1>i, <1>2, RoutineStepEffect DEF Works
  <2>2. ASSUME NEW t \in Slots, Runs(t, u)'
        PROVE  /\ Runs(t, u) /\ gor'[t].cancelled
               /\ gor'[t].pc = "put" => gor[t].pc = "put" /\ gor'[t].obj = gor[t].obj
    <3>1. CASE t # s
      BY <1>2, <1>i, <2>2, <3>1, RoutineStepEffect DEF Runs, Live
    <3>2. CASE t = s
      <4>1. gor[s].uid = u /\ Runs(s, u) /\ gor'[s].cancelled = gor[s].cancelled
        BY <1>2, <2>2, <3>2, RoutineStepEffect DEF Runs, Live, FreeSlot
      <4> QED  BY <1>2, <1>i, <3>2, <4>1, RoutineStepEffect
    <3> QED  BY <3>1, <3>2
  <2> QED  BY <2>1, <2>2
<1>3. ASSUME NEW v \in FARs, Reconcile(v) PROVE routines'[u] = None /\ Quiet /\ Resting
  <2>1. routines'[u] = None /\ Quiet
    <3>1. Remove(v) \/ UNCHANGED <<routines, gor>>
      BY <1>3 DEF Reconcile, ReconcileNotFound, ReconcileDeletionPanic, ReconcileDeletion,
         ReconcileTimedOutByNHC, ReconcileNodeNotFound, ReconcileRemediation
    <3>2. CASE UNCHANGED <<routines, gor>>
      BY <1>i, <3>2 DEF Runs, Live
    <3>3. CASE Remove(v)
      BY <1>i, <3>3, RemoveEffect DEF AgentInv, CRInv, Runs, Live
    <3> QED  BY <3>1, <3>2, <3>3
  <2>2. Resting
    BY <1>3, <1>i
       DEF Reconcile, ReconcileNotFound, ReconcileDeletionPanic, ReconcileDeletion, Reconciles,
           ReconcileTimedOutByNHC, ReconcileNodeNotFound, ReconcileRemediation, Begin,
           Remediable, isTimedOutByNHC, Works
  <2> QED  BY <2>1, <2>2
<1>4. ASSUME WorkerStep PROVE routines'[u] = None /\ Quiet /\ Resting
  <2>1. CASE rec.uid # u
    BY <1>4, <1>k, <2>1, WorkerStepOthers
  <2>2. CASE rec.uid = u
    <3>1. rec.pc \notin {"addFinalizer", "addTaint", "execute", "evict"}
      BY <1>4, <1>i, <2>2 DEF Works
    <3>2. UNCHANGED <<routines, gor>>
      BY <1>4, <3>1 DEF WorkerStep, AddFinalizer, AddTaint, Execute, EvictByResourceDeletion,
         EvictByOutOfServiceTaint, RemoveOOSTaint, RemoveRemediationTaint, RemoveFinalizer,
         UpdateStatus, PollDone, PollTimesOut, notCluster
    <3>3. rec' = Idle \/ rec'.pc \in {"removeTaint", "removeFinalizer", "status", "poll"}
      BY <1>4, <3>1 DEF WorkerStep, AddFinalizer, AddTaint, Execute, EvictByResourceDeletion,
         EvictByOutOfServiceTaint, RemoveOOSTaint, RemoveRemediationTaint, RemoveFinalizer,
         UpdateStatus, PollDone, PollTimesOut, RecGoto, RecReturn, Finish, TypeInv, TypeOK,
         Worker
    <3> QED  BY <1>i, <3>2, <3>3 DEF Runs, Live, Works, Idle
  <2> QED  BY <2>1, <2>2
<1>5. CASE Restart
  BY <1>5 DEF Restart, Idle, Works, Runs, Live, FreeSlot
<1> QED  BY <1>1, <1>2, <1>3, <1>4, <1>5
         DEF Next, Crash, ExecuterPanic, vars, execVars

\* The interruption goes on record only when the CR's goroutine has been told to stop.
LEMMA InterruptionRecorded ==
    ASSUME TypeInv, AgentInv, [Next]_vars, NEW u \in FARs,
           far[u].st.why # InterruptedByNHC, far'[u].st.why = InterruptedByNHC
    PROVE  Interrupted(u)'
<1>t. far[u] \in FarObject /\ far[u].st \in Status /\ far[u].rv \in Nat
  BY CopiesType DEF FarObject
<1>r. ~RoutineWrites(u)
  BY <1>t, ReasonOf DEF RoutineWrites, OutcomeReason, AgentSucceeded, AgentFailed,
                        AgentTimedOut, InterruptedByNHC
<1>w. WorkerWrites(u)
  BY <1>r, WhoWrites
<1>1. /\ rec.far.st = UpdateConditions(InterruptedByNHC, far[u].st)
      /\ far[u].nhc /\ farCache[u].nhc /\ Stopped(u)
  <2>1. ASSUME NEW reason \in {Started, NodeNotFound, FinishedSuccessfully}
        PROVE  rec.far.st # UpdateConditions(reason, far[u].st)
    BY <1>t, <1>w, ReasonOf DEF WorkerWrites, Started, NodeNotFound, FinishedSuccessfully,
                                InterruptedByNHC
  <2> QED  BY <1>w, <2>1 DEF WorkerWrites, StatusToWrite
<1>2. /\ far'[u].st.processing = "False" /\ far'[u].st.fenceAgentActionSucceeded = "False"
      /\ far'[u].st.succeeded = "False"
  BY <1>t, <1>w, <1>1, FailureEffect DEF WorkerWrites
<1>3. /\ UNCHANGED <<routines, gor, farCache>>
      /\ rec' = Idle \/ rec'.pc = "poll"
  BY <1>w DEF WorkerWrites, UpdateStatus, Finish, notCluster, TypeInv, TypeOK, Worker
<1>4. far'[u].rv = far[u].rv + 1 /\ far'[u].nhc
  BY <1>1, FarMonotone
<1>5. \A s \in Slots : (Runs(s, u)' /\ gor'[s].pc = "put") => gor'[s].obj.rv < far'[u].rv
  <2>1. \A s \in Slots : gor[s].obj.rv \in Nat
    BY DEF TypeInv, TypeOK, ExecTypeOK, Goroutine, FarObject
  <2> QED  BY <1>t, <1>3, <1>4, <2>1 DEF AgentInv, CRInv, RoutineHas, Runs, Live
<1> QED  BY <1>1, <1>2, <1>3, <1>4, <1>5 DEF Interrupted, Stopped, Runs, Live, Works, Idle

\* Once NHC's interruption is on record, no step of the reconciler, of a goroutine or of
\* anybody else changes the status again: the routine that was cancelled cannot win the race,
\* because it sends nothing after the cancellation and what it sent before is refused.
THEOREM InterruptionStaysFinal == Spec => InterruptionIsFinal
<1>1. Init => TypeInv /\ AgentInv /\ InterruptInv
  <2>1. Init => InterruptInv
    BY DEF Init, ClusterInit, InterruptInv, Interrupted, NoFar, NoConditions, InterruptedByNHC
  <2> QED  BY <2>1, AgentInvInit
<1>2. TypeInv /\ AgentInv /\ InterruptInv /\ [Next]_vars => (TypeInv /\ AgentInv /\ InterruptInv)'
  <2> SUFFICES ASSUME TypeInv, AgentInv, InterruptInv, [Next]_vars PROVE InterruptInv'
    BY AgentInvStep
  <2>1. ASSUME NEW u \in FARs PROVE Interrupted(u)'
    <3>1. CASE far'[u].st.why # InterruptedByNHC
      BY <3>1 DEF Interrupted
    <3> QED  BY <3>1, InterruptedStep, InterruptionRecorded
  <2> QED  BY <2>1 DEF InterruptInv
<1>3. TypeInv /\ AgentInv /\ InterruptInv /\ [Next]_vars =>
         [\A u \in FARs : far[u].st.why = InterruptedByNHC => far'[u].st = far[u].st]_far
  BY InterruptionStays
<1> QED  BY <1>1, <1>2, <1>3, PTL DEF Spec, InterruptionIsFinal

=============================================================================

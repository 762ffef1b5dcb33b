----------------------------- MODULE TaintProofs -----------------------------
(***************************************************************************)
(* Why the operator leaves none of its taints behind, sets the             *)
(* out-of-service taint only on a fenced node, and keeps the remediation   *)
(* taint there while a fence agent runs.                                   *)
(***************************************************************************)
EXTENDS InterruptionProofs

-----------------------------------------------------------------------------
(***************************************************************************)
(* The finalizer.                                                          *)
(***************************************************************************)

\* What a step makes of a CR at the server: it comes, it goes, it gets its finalizer from the
\* worker, or it is updated.
LEMMA FarChange ==
    ASSUME TypeInv, AgentInv, [Next]_vars, NEW u \in FARs, far'[u] # far[u]
    PROVE  \/ /\ far[u] = NoFar
              /\ Present(far[u])' /\ ~far'[u].fin /\ far'[u].st = far[u].st
           \/ /\ Present(far[u])
              /\ far'[u].phase = "gone" /\ ~far'[u].fin /\ far'[u].st = far[u].st
              /\ far[u].fin => Works(u) /\ rec.pc = "removeFinalizer"
           \/ /\ Present(far[u])
              /\ Works(u) /\ rec.pc = "addFinalizer" /\ ~far[u].fin
              /\ Present(far[u])' /\ far'[u].fin /\ far'[u].st = far[u].st
           \/ /\ Present(far[u])
              /\ Present(far[u])' /\ far'[u].fin = far[u].fin
<1> DEFINE Comes(v, o) == far[v] = NoFar /\ Present(o) /\ ~o.fin /\ o.st = far[v].st
           Goes(v, o) == /\ Present(far[v])
                         /\ o.phase = "gone" /\ ~o.fin /\ o.st = far[v].st
                         /\ far[v].fin => Works(v) /\ rec.pc = "removeFinalizer"
           Taken(v, o) == /\ Present(far[v])
                          /\ Works(v) /\ rec.pc = "addFinalizer" /\ ~far[v].fin
                          /\ Present(o) /\ o.fin /\ o.st = far[v].st
           Updated(v, o) == Present(far[v]) /\ Present(o) /\ o.fin = far[v].fin
           Change(v, o) == Comes(v, o) \/ Goes(v, o) \/ Taken(v, o) \/ Updated(v, o)
<1>t. far \in [FARs -> FarObject] /\ rec.far \in FarObject
  BY DEF TypeInv, TypeOK, ClusterTypeOK, Worker
<1>s. ASSUME NEW v \in FARs, NEW obj \in FarObject, StoreFar(v, obj), Change(v, obj)
      PROVE  Change(u, far'[u])
  <2>1. u = v /\ far'[u] = [obj EXCEPT !.rv = far[u].rv + 1]
    BY <1>s, <1>t DEF StoreFar
  <2>2. /\ far'[u].phase = obj.phase /\ far'[u].fin = obj.fin /\ far'[u].st = obj.st
    BY <2>1 DEF FarObject
  <2> QED  BY <1>s, <2>1, <2>2 DEF Present
<1>1. ASSUME NEW v \in FARs, CreateFar(v)
      PROVE  \E obj \in FarObject : StoreFar(v, obj) /\ Change(v, obj)
  <2>1. far[v] = NoFar
    BY <1>1 DEF CreateFar, AgentInv, CRInv, Versions, Copies
  <2>2. /\ [NoFar EXCEPT !.phase = "present"] \in FarObject
        /\ Comes(v, [NoFar EXCEPT !.phase = "present"])
    BY <2>1, SetConditionsType DEF FarObject, NoFar, Present
  <2> QED  BY <1>1, <2>2 DEF CreateFar
<1>2. ASSUME NEW v \in FARs, AnnotateTimedOut(v) \/ EditFar(v) \/ DeleteFar(v)
      PROVE  \E obj \in FarObject : StoreFar(v, obj) /\ Change(v, obj)
  <2>1. Present(far[v])
    BY <1>2 DEF AnnotateTimedOut, EditFar, DeleteFar
  <2>2. /\ [far[v] EXCEPT !.nhc = TRUE] \in FarObject /\ [far[v] EXCEPT !.del = TRUE] \in FarObject
        /\ Updated(v, [far[v] EXCEPT !.nhc = TRUE]) /\ Updated(v, [far[v] EXCEPT !.del = TRUE])
        /\ Updated(v, far[v])
    BY <1>t, <2>1 DEF FarObject, Present
  <2>3. /\ [far[v] EXCEPT !.phase = "gone"] \in FarObject
        /\ ~far[v].fin => Goes(v, [far[v] EXCEPT !.phase = "gone"])
    BY <1>t, <2>1 DEF FarObject, Present
  <2>4. CASE AnnotateTimedOut(v)
    BY <2>2, <2>4 DEF AnnotateTimedOut
  <2>5. CASE EditFar(v)
    BY <1>t, <2>2, <2>5 DEF EditFar
  <2>6. CASE DeleteFar(v)
    BY <2>2, <2>3, <2>6 DEF DeleteFar
  <2> QED  BY <1>2, <2>4, <2>5, <2>6
<1>3. ASSUME NEW v \in FARs, NEW st \in Status, StoreFarStatus(v, st), Present(far[v])
      PROVE  \E obj \in FarObject : StoreFar(v, obj) /\ Change(v, obj)
  <2>1. /\ [far[v] EXCEPT !.st = st] \in FarObject
        /\ Updated(v, [far[v] EXCEPT !.st = st])
    BY <1>t, <1>3 DEF FarObject, Present
  <2> QED  BY <1>3, <2>1 DEF StoreFarStatus
<1>4. ASSUME NEW s \in Slots, RoutineStep(s)
      PROVE  \E v \in FARs, obj \in FarObject : StoreFar(v, obj) /\ Change(v, obj)
  <2>1. PutAccepted(s) /\ gor[s].uid \in FARs /\ gor[s].obj.st \in Status
    BY <1>4, RoutineStepEffect DEF TypeInv, TypeOK, ExecTypeOK, Goroutine, FarObject
  <2> QED  BY <1>3, <2>1 DEF PutAccepted, FarFresh
<1>5. ASSUME WorkerStep
      PROVE  \E v \in FARs, obj \in FarObject : StoreFar(v, obj) /\ Change(v, obj)
  <2>0. PICK v \in FARs :
        /\ v = rec.uid /\ Works(v) /\ FarFresh(v, rec.far) /\ rec.far.st \in Status
        /\ \/ rec.pc = "addFinalizer" /\ StoreFar(v, [rec.far EXCEPT !.fin = TRUE])
           \/ /\ rec.pc = "removeFinalizer"
              /\ StoreFar(v, [rec.far EXCEPT !.phase = "gone", !.fin = FALSE])
           \/ rec.pc = "status" /\ StoreFarStatus(v, rec.far.st)
    BY <1>5, <1>t DEF WorkerStep, AddFinalizer, AddTaint, Execute, EvictByResourceDeletion,
         EvictByOutOfServiceTaint, RemoveOOSTaint, RemoveRemediationTaint, RemoveFinalizer,
         UpdateStatus, PollDone, PollTimesOut, farVars, TypeInv, Owned, Works, FarObject
  <2>1. CASE rec.pc = "status"
    BY <1>3, <2>0, <2>1 DEF FarFresh
  <2>2. CASE rec.pc # "status"
    <3>1. rec.far = far[v] /\ Present(far[v]) /\ (rec.pc = "addFinalizer" => ~far[v].fin)
      BY <2>0, <2>2 DEF AgentInv, CRInv, WorkerHas, FarFresh
    <3>2. /\ [rec.far EXCEPT !.fin = TRUE] \in FarObject
          /\ rec.pc = "addFinalizer" => Taken(v, [rec.far EXCEPT !.fin = TRUE])
      BY <1>t, <2>0, <3>1 DEF FarObject, Present
    <3>3. /\ [rec.far EXCEPT !.phase = "gone", !.fin = FALSE] \in FarObject
          /\ rec.pc = "removeFinalizer" =>
               Goes(v, [rec.far EXCEPT !.phase = "gone", !.fin = FALSE])
      BY <1>t, <2>0, <3>1 DEF FarObject, Present
    <3> QED  BY <2>0, <2>2, <3>2, <3>3
  <2> QED  BY <2>1, <2>2
<1>6. ASSUME NEW v \in FARs, Reconcile(v) PROVE FALSE
  BY <1>6 DEF Reconcile, ReconcileNotFound, ReconcileDeletionPanic, ReconcileDeletion,
         ReconcileTimedOutByNHC, ReconcileNodeNotFound, ReconcileRemediation, allButRecAndQueue
<1>7. CASE ClusterNext
  BY <1>1, <1>2, <1>7, <1>s
     DEF ClusterNext, DeliverFar, Resync, DeliverNode, EditNode, DeleteNode, CreateNode
<1>8. Change(u, far'[u])
  BY <1>s, <1>4, <1>5, <1>6, <1>7 DEF Next, Crash, ExecuterPanic, Restart, vars, clusterVars
<1> QED  BY <1>8 DEF Present

\* A CR that goes has no finalizer, or the worker has just taken it off.
LEMMA WhoDeletes ==
    ASSUME TypeInv, AgentInv, [Next]_vars, NEW u \in FARs,
           far[u].phase # "gone", far'[u].phase = "gone"
    PROVE  /\ ~far'[u].fin
           /\ far[u].fin => Works(u) /\ rec.pc = "removeFinalizer"
  BY FarChange DEF Present

\* The only new copy a step can make of a CR is the one at the server.
LEMMA CopiesOf ==
    ASSUME TypeInv, [Next]_vars, NEW u \in FARs
    PROVE  Copies(u)' \subseteq Copies(u) \cup {far'[u]}
<1>t. /\ far \in [FARs -> FarObject] /\ farCache \in [FARs -> FarObject]
      /\ farPending \in [FARs -> SUBSET FarObject]
  BY DEF TypeInv, TypeOK, ClusterTypeOK
<1> DEFINE Stores == /\ farCache' = farCache
                     /\ UNCHANGED farPending \/ \E v \in FARs : \E obj : StoreFar(v, obj)
<1>s. ASSUME Stores PROVE Copies(u)' \subseteq Copies(u) \cup {far'[u]}
  <2>1. farPending'[u] \subseteq farPending[u] \cup {far'[u]}
    BY <1>t, <1>s DEF StoreFar
  <2> QED  BY <1>s, <2>1 DEF Copies
<1>1. ASSUME NEW v \in FARs, DeliverFar(v) PROVE Copies(u)' \subseteq Copies(u) \cup {far'[u]}
  <2>1. PICK w \in farPending[v] : /\ farCache' = [farCache EXCEPT ![v] = w]
                                   /\ farPending' = [farPending EXCEPT ![v] = {x \in @ : x.rv > w.rv}]
    BY <1>1 DEF DeliverFar
  <2> QED  BY <1>t, <2>1 DEF Copies
<1>2. ASSUME ClusterNext, \A v \in FARs : ~DeliverFar(v) PROVE Stores
  BY <1>2 DEF ClusterNext, Resync, DeliverNode, EditNode, DeleteNode, CreateNode, CreateFar,
              DeleteFar, AnnotateTimedOut, EditFar, nodesAndCaches
<1>3. ASSUME NEW s \in Slots, RoutineStep(s) PROVE Stores
  <2>1. farCache' = farCache
    BY <1>3, RoutineStepEffect
  <2>2. CASE PutAccepted(s)
    BY <1>3, <2>1, <2>2, RoutineStepEffect DEF PutAccepted, StoreFarStatus
  <2>3. CASE ~PutAccepted(s)
    BY <1>3, <2>1, <2>3 DEF RoutineStep, NextAttempt, CommandSucceeds, CommandFails,
         CommandInterrupted, NextUpdate, GetByUID, PutConflict, PutFails, clusterVars
  <2> QED  BY <2>2, <2>3
<1>4. ASSUME WorkerStep PROVE Stores
  <2>0. rec.uid \in FARs
    BY <1>4 DEF WorkerStep, AddFinalizer, AddTaint, Execute, EvictByResourceDeletion,
         EvictByOutOfServiceTaint, RemoveOOSTaint, RemoveRemediationTaint, RemoveFinalizer,
         UpdateStatus, PollDone, PollTimesOut, TypeInv, Owned
  <2> QED  BY <1>4, <2>0 DEF WorkerStep, AddFinalizer, AddTaint, Execute,
         EvictByResourceDeletion, EvictByOutOfServiceTaint, RemoveOOSTaint,
         RemoveRemediationTaint, RemoveFinalizer, UpdateStatus, PollDone, PollTimesOut, farVars,
         StoreFarStatus
<1>5. ASSUME NEW v \in FARs, Reconcile(v) PROVE Stores
  BY <1>5 DEF Reconcile, ReconcileNotFound, ReconcileDeletionPanic, ReconcileDeletion,
         ReconcileTimedOutByNHC, ReconcileNodeNotFound, ReconcileRemediation, allButRecAndQueue
<1>6. CASE Restart
  BY <1>6 DEF Restart, Copies
<1> QED  BY <1>1, <1>2, <1>3, <1>4, <1>5, <1>6, <1>s
         DEF Next, Crash, ExecuterPanic, vars, clusterVars

Remediating == {"addTaint", "execute", "evict"}

\* The worker taints, fences and evicts only for a CR it found with its finalizer and not
\* deleted when it started on it.
LEMMA WorkerRemediates ==
    ASSUME TypeInv, [Next]_vars, NEW u \in FARs, Works(u)', rec'.pc \in Remediating
    PROVE  \/ /\ Works(u) /\ rec.pc \in Remediating /\ rec'.far = rec.far
              /\ rec'.pc \in {"addTaint", "execute"} => rec.pc \in {"addTaint", "execute"}
           \/ /\ ReconcileRemediation(u) /\ rec'.pc = "addTaint" /\ rec'.far = farCache[u]
              /\ Present(farCache[u]) /\ farCache[u].fin
              /\ ~farCache[u].del /\ ~farCache[u].nhc
<1> USE DEF Remediating
<1>1. CASE UNCHANGED rec
  BY <1>1 DEF Works
<1>2. ASSUME NEW v \in FARs, Reconcile(v)
      PROVE  /\ ReconcileRemediation(u) /\ rec'.pc = "addTaint" /\ rec'.far = farCache[u]
             /\ Present(farCache[u]) /\ farCache[u].fin
             /\ ~farCache[u].del /\ ~farCache[u].nhc
  BY <1>2 DEF Reconcile, ReconcileNotFound, ReconcileDeletionPanic, ReconcileDeletion, Reconciles,
         ReconcileTimedOutByNHC, ReconcileNodeNotFound, ReconcileRemediation, Begin, Works,
         Remediable, isTimedOutByNHC
<1>3. CASE WorkerStep
  <2>1. CASE AddTaint
    BY <2>1 DEF AddTaint, RecGoto, RecReturn, Works, TypeInv, TypeOK, Worker
  <2>2. CASE AddFinalizer \/ Execute
    <3>1. rec'.pc = "status"
      BY <2>2 DEF AddFinalizer, Execute, RecReturn, TypeInv, TypeOK, Worker
    <3> QED  BY <3>1
  <2>3. CASE EvictByResourceDeletion \/ EvictByOutOfServiceTaint
    <3>1. rec'.pc = "status"
      BY <2>3 DEF EvictByResourceDeletion, EvictByOutOfServiceTaint, RecReturn,
         FinishRemediation, TypeInv, TypeOK, Worker
    <3> QED  BY <3>1
  <2>4. CASE RemoveOOSTaint \/ RemoveRemediationTaint
    BY <2>4 DEF RemoveOOSTaint, RemoveRemediationTaint, RecGoto, RecReturn, Works, TypeInv,
       TypeOK, Worker
  <2>5. CASE RemoveFinalizer \/ UpdateStatus \/ PollDone \/ PollTimesOut
    <3>1. rec' = Idle \/ rec'.pc = "poll"
      BY <2>5 DEF RemoveFinalizer, UpdateStatus, PollDone, PollTimesOut, Finish, TypeInv,
         TypeOK, Worker
    <3> QED  BY <3>1 DEF Idle
  <2> QED  BY <1>3, <2>1, <2>2, <2>3, <2>4, <2>5 DEF WorkerStep
<1>4. CASE Restart
  BY <1>4 DEF Restart, Idle
<1> QED  BY <1>1, <1>2, <1>3, <1>4 DEF Next, Crash, ExecuterPanic, vars

\* What FinalizerInv says of the steps: a CR with copies that have the finalizer and no deletion
\* mark stays, and so does one the worker is remediating.
LEMMA FinalizerInvStep ==
    ASSUME TypeInv, AgentInv, FinalizerInv, [Next]_vars
    PROVE  FinalizerInv'
<1> SUFFICES ASSUME NEW u \in FARs
             PROVE  /\ far'[u].phase = "gone" => \A v \in Copies(u)' : v.fin => v.del
                    /\ Works(u)' /\ rec'.pc \in Remediating => Present(far[u])' /\ far'[u].fin
  BY DEF FinalizerInv, Remediating
<1>i. CRInv(u) /\ far[u] \in Copies(u) /\ far[u] \in FarObject
  BY CopiesType DEF AgentInv, Copies
<1>v. \A v \in Copies(u) : Follows(v, far[u])
  BY <1>i, CopiesType DEF CRInv, Versions, FarObject
<1>1. far'[u].phase = "gone" => \A v \in Copies(u)' : v.fin => v.del
  <2> SUFFICES ASSUME far'[u].phase = "gone", NEW v \in Copies(u)', v.fin PROVE v.del
    OBVIOUS
  <2>1. CASE far[u].phase = "gone"
    BY <1>i, <2>1, FarMonotone, CopiesOf DEF FinalizerInv
  <2>2. CASE far[u].phase # "gone"
    <3>1. v \in Copies(u)
      BY <2>2, WhoDeletes, CopiesOf
    <3>2. far[u].fin
      BY <1>v, <2>2, <3>1 DEF Follows
    <3>3. Works(u) /\ rec.pc = "removeFinalizer"
      BY <2>2, <3>2, WhoDeletes
    <3> QED  BY <1>i, <3>1, <3>3 DEF CRInv, WorkerHas, Follows
  <2> QED  BY <2>1, <2>2
<1>2. ASSUME Works(u)', rec'.pc \in Remediating PROVE Present(far[u])' /\ far'[u].fin
  <2>1. Present(far[u]) /\ far[u].fin /\ ~(Works(u) /\ rec.pc = "removeFinalizer")
    <3>1. CASE Works(u) /\ rec.pc \in Remediating
      BY <3>1 DEF FinalizerInv, Remediating
    <3>2. CASE ReconcileRemediation(u)
      <4>1. /\ Present(farCache[u]) /\ farCache[u].fin /\ ~farCache[u].del
            /\ farCache[u] \in Copies(u) /\ rec.pc = "idle"
        BY <1>2, <3>2, WorkerRemediates DEF Copies, ReconcileRemediation, Reconciles, Remediating
      <4> QED  BY <1>i, <1>v, <4>1 DEF Follows, FinalizerInv, Present, FarObject
    <3> QED  BY <1>2, <3>1, <3>2, WorkerRemediates
  <2>2. far'[u].phase # "gone"
    BY <2>1, WhoDeletes DEF Present
  <2>3. far'[u].phase \in {"absent", "present", "gone"}
    BY CopiesType, AgentInvStep DEF TypeInv, TypeOK, ClusterTypeOK, FarObject
  <2> QED  BY <2>1, <2>2, <2>3, FarMonotone DEF Present
<1> QED  BY <1>1, <1>2

-----------------------------------------------------------------------------
(***************************************************************************)
(* Who changes a node.                                                     *)
(***************************************************************************)
WorkerTaints(n, obj) ==
    \E t \in Taint :
        /\ WorkerStep /\ rec.uid \in FARs /\ n = NodeOf[rec.uid]
        /\ obj = [node[n] EXCEPT !.taints = @ \cup {t}]
        /\ node[n].exists
        /\ \/ rec.pc = "addTaint" /\ t = RemediationTaint
           \/ rec.pc = "evict" /\ t = OOSTaint /\ Strategy[rec.uid] = OutOfServiceTaint

WorkerUntaints(n, obj) ==
    \E t \in Taint :
        /\ WorkerStep /\ rec.uid \in FARs /\ n = NodeOf[rec.uid]
        /\ obj = [node[n] EXCEPT !.taints = @ \ {t}]
        /\ node[n].exists
        /\ \/ rec.pc = "removeTaint" /\ t = RemediationTaint
           \/ rec.pc = "removeOOS" /\ t = OOSTaint

NodeChange(n, obj) ==
    \/ EditNode(n) /\ obj = node[n]
    \/ CreateNode(n) /\ obj = [node[n] EXCEPT !.exists = TRUE]
    \/ DeleteNode(n) /\ obj = [node[n] EXCEPT !.exists = FALSE, !.taints = {}]
    \/ WorkerTaints(n, obj)
    \/ WorkerUntaints(n, obj)

\* A step that stores a node is one of the others' or the worker's, on the CR's own node.
LEMMA WhoChangesNodes ==
    ASSUME TypeInv, [Next]_vars
    PROVE  \/ UNCHANGED nodeVars
           \/ Restart
           \/ \E n \in Nodes : DeliverNode(n)
           \/ \E n \in Nodes, obj \in NodeObject : StoreNode(n, obj) /\ NodeChange(n, obj)
<1>t. /\ node \in [Nodes -> NodeObject]
      /\ \A n \in Nodes :
           /\ [node[n] EXCEPT !.exists = TRUE] \in NodeObject
           /\ [node[n] EXCEPT !.exists = FALSE, !.taints = {}] \in NodeObject
           /\ \A t \in Taint : /\ [node[n] EXCEPT !.taints = @ \cup {t}] \in NodeObject
                               /\ [node[n] EXCEPT !.taints = @ \ {t}] \in NodeObject
  BY DEF TypeInv, TypeOK, ClusterTypeOK, NodeObject
<1> DEFINE Stores == \E n \in Nodes, obj \in NodeObject : StoreNode(n, obj) /\ NodeChange(n, obj)
<1>1. ASSUME NEW n \in Nodes, EditNode(n) \/ CreateNode(n) \/ DeleteNode(n) PROVE Stores
  <2>1. CASE EditNode(n)
    BY <1>t, <2>1 DEF EditNode, NodeChange
  <2>2. CASE CreateNode(n)
    BY <1>t, <2>2 DEF CreateNode, NodeChange
  <2>3. CASE DeleteNode(n)
    BY <1>t, <2>3 DEF DeleteNode, NodeChange
  <2> QED  BY <1>1, <2>1, <2>2, <2>3
<1>2. ASSUME WorkerStep PROVE UNCHANGED nodeVars \/ Stores
  <2>0. /\ rec.uid \in FARs /\ NodeOf[rec.uid] \in Nodes
        /\ RemediationTaint \in Taint /\ OOSTaint \in Taint
    BY <1>2, ClusterAssumption
       DEF WorkerStep, AddFinalizer, AddTaint, Execute, EvictByResourceDeletion, Taint,
         EvictByOutOfServiceTaint, RemoveOOSTaint, RemoveRemediationTaint, RemoveFinalizer,
         UpdateStatus, PollDone, PollTimesOut, TypeInv, Owned
  <2>1. PICK n \in Nodes : n = NodeOf[rec.uid]
    BY <2>0
  <2>2. ASSUME NEW t \in Taint, AppendTaint(n, t) \/ AppendTaintFails(n, t),
               \/ rec.pc = "addTaint" /\ t = RemediationTaint
               \/ rec.pc = "evict" /\ t = OOSTaint /\ Strategy[rec.uid] = OutOfServiceTaint
        PROVE  UNCHANGED nodeVars \/ Stores
    <3>1. \/ UNCHANGED nodeVars
          \/ StoreNode(n, [node[n] EXCEPT !.taints = @ \cup {t}]) /\ node[n].exists
      BY <2>2 DEF AppendTaint, AppendTaintFails, NodeFresh
    <3>2. PICK obj \in NodeObject : obj = [node[n] EXCEPT !.taints = @ \cup {t}]
      BY <1>t
    <3> QED  BY <1>2, <2>0, <2>1, <2>2, <3>1, <3>2 DEF NodeChange, WorkerTaints
  <2>3. ASSUME NEW t \in Taint, RemoveTaint(n, t) \/ RemoveTaintFails(n, t),
               \/ rec.pc = "removeTaint" /\ t = RemediationTaint
               \/ rec.pc = "removeOOS" /\ t = OOSTaint
        PROVE  UNCHANGED nodeVars \/ Stores
    <3>1. \/ UNCHANGED nodeVars
          \/ StoreNode(n, [node[n] EXCEPT !.taints = @ \ {t}]) /\ node[n].exists
      BY <2>3 DEF RemoveTaint, RemoveTaintFails, NodeFresh
    <3>2. PICK obj \in NodeObject : obj = [node[n] EXCEPT !.taints = @ \ {t}]
      BY <1>t
    <3> QED  BY <1>2, <2>0, <2>1, <2>3, <3>1, <3>2 DEF NodeChange, WorkerUntaints
  <2>4. CASE AddTaint \/ EvictByOutOfServiceTaint
    BY <2>0, <2>1, <2>2, <2>4 DEF AddTaint, EvictByOutOfServiceTaint
  <2>5. CASE RemoveOOSTaint \/ RemoveRemediationTaint
    BY <2>0, <2>1, <2>3, <2>5 DEF RemoveOOSTaint, RemoveRemediationTaint
  <2> QED  BY <1>2, <2>4, <2>5 DEF WorkerStep, AddFinalizer, Execute, EvictByResourceDeletion,
         RemoveFinalizer, UpdateStatus, PollDone, PollTimesOut, nodeVars
<1>3. ASSUME NEW s \in Slots, RoutineStep(s) PROVE UNCHANGED nodeVars
  BY <1>3 DEF RoutineStep, NextAttempt, CommandSucceeds, CommandFails, PutAccepted,
         CommandInterrupted, NextUpdate, GetByUID, PutConflict, PutFails, clusterVars, nodeVars
<1>4. ASSUME NEW v \in FARs, Reconcile(v) PROVE UNCHANGED nodeVars
  BY <1>4 DEF Reconcile, ReconcileNotFound, ReconcileDeletionPanic, ReconcileDeletion, nodeVars,
         ReconcileTimedOutByNHC, ReconcileNodeNotFound, ReconcileRemediation, allButRecAndQueue
<1>5. CASE ClusterNext
  BY <1>1, <1>5 DEF ClusterNext, DeliverFar, Resync, CreateFar, DeleteFar, AnnotateTimedOut,
         EditFar, nodesAndCaches, nodeVars
<1> QED  BY <1>2, <1>3, <1>4, <1>5 DEF Next, Crash, ExecuterPanic, vars, clusterVars, nodeVars

-----------------------------------------------------------------------------
(***************************************************************************)
(* The taints on a node, when the node cache is up to date.                *)
(***************************************************************************)

\* What storing a node does, when the cache follows at once.
LEMMA StoreNodeFresh ==
    ASSUME TypeInv, NodeCacheLags = FALSE, NodesFresh,
           NEW n \in Nodes, NEW obj \in NodeObject, StoreNode(n, obj)
    PROVE  /\ NodesFresh'
           /\ node'[n].taints = obj.taints /\ node'[n].exists = obj.exists
           /\ \A m \in Nodes \ {n} : node'[m] = node[m]
<1>t. node \in [Nodes -> NodeObject] /\ nodeCache \in [Nodes -> NodeObject]
  BY DEF TypeInv, TypeOK, ClusterTypeOK
<1>1. PICK new : /\ new = [obj EXCEPT !.rv = node[n].rv + 1]
                 /\ node' = [node EXCEPT ![n] = new]
                 /\ nodeCache' = [nodeCache EXCEPT ![n] = new] /\ nodePending' = nodePending
  BY DEF StoreNode
<1>2. new.taints = obj.taints /\ new.exists = obj.exists
  BY <1>1 DEF NodeObject
<1> QED  BY <1>t, <1>1, <1>2 DEF NodesFresh

\* The cache stays up to date, and a node that does not exist has no taints.
LEMMA NodesStayFresh ==
    ASSUME TypeInv, NodeCacheLags = FALSE, TaintInv, [Next]_vars
    PROVE  /\ NodesFresh'
           /\ \A n \in Nodes : ~node'[n].exists => node'[n].taints = {}
<1>i. NodesFresh /\ \A n \in Nodes : ~node[n].exists => node[n].taints = {}
  BY DEF TaintInv
<1>t. node \in [Nodes -> NodeObject]
  BY DEF TypeInv, TypeOK, ClusterTypeOK
<1>1. CASE UNCHANGED nodeVars
  BY <1>i, <1>1 DEF nodeVars, NodesFresh
<1>2. CASE Restart
  BY <1>i, <1>2 DEF Restart, NodesFresh
<1>3. ASSUME NEW n \in Nodes, DeliverNode(n) PROVE FALSE
  BY <1>i, <1>3 DEF NodesFresh, DeliverNode
<1>4. ASSUME NEW n \in Nodes, NEW obj \in NodeObject, StoreNode(n, obj), NodeChange(n, obj)
      PROVE  NodesFresh' /\ \A m \in Nodes : ~node'[m].exists => node'[m].taints = {}
  <2>1. ~obj.exists => obj.taints = {}
    <3>1. CASE EditNode(n) \/ CreateNode(n) \/ DeleteNode(n)
      BY <1>t, <1>i, <1>4, <3>1
         DEF NodeChange, EditNode, CreateNode, DeleteNode, NodeObject, WorkerTaints, WorkerUntaints
    <3>2. CASE WorkerTaints(n, obj) \/ WorkerUntaints(n, obj)
      BY <1>t, <3>2 DEF NodeObject, WorkerTaints, WorkerUntaints
    <3> QED  BY <1>4, <3>1, <3>2 DEF NodeChange
  <2> QED  BY <1>4, <1>i, <2>1, StoreNodeFresh
<1> QED  BY <1>1, <1>2, <1>3, <1>4, WhoChangesNodes

\* After RemoveTaint has returned without an error the taint is not on the node.
LEMMA RemoveTaintRemoves ==
    ASSUME TypeInv, NodeCacheLags = FALSE, TaintInv, NEW n \in Nodes, NEW t \in Taint,
           RemoveTaint(n, t)
    PROVE  t \notin node'[n].taints
<1>i. nodeCache[n] = node[n] /\ (~node[n].exists => node[n].taints = {}) /\ NodesFresh
  BY DEF TaintInv, NodesFresh
<1>t. node[n] \in NodeObject
  BY DEF TypeInv, TypeOK, ClusterTypeOK
<1>1. CASE (NothingToRemove(n, t) \/ ~node[n].exists) /\ UNCHANGED nodeVars
  BY <1>i, <1>1 DEF NothingToRemove, TaintExists, nodeVars
<1>2. CASE StoreNode(n, [node[n] EXCEPT !.taints = @ \ {t}])
  <2>1. PICK obj \in NodeObject : obj = [node[n] EXCEPT !.taints = @ \ {t}]
    BY <1>t DEF NodeObject
  <2>2. t \notin obj.taints
    BY <1>t, <2>1 DEF NodeObject
  <2> QED  BY <1>2, <1>i, <2>1, <2>2, StoreNodeFresh
<1> QED  BY <1>1, <1>2 DEF RemoveTaint

\* The worker gets past the removal of a taint only when the taint is gone.
LEMMA PastRemovalMeansGone ==
    ASSUME TypeInv, NodeCacheLags = FALSE, TaintInv, [Next]_vars, NEW u \in FARs,
           NEW t \in Taint, t \in node'[NodeOf[u]].taints, Holds(u, t)
    PROVE  ~(Works(u)' /\ rec'.pc \in PastRemoval(t))
<1> SUFFICES ASSUME Works(u)', rec'.pc \in PastRemoval(t) PROVE FALSE
  OBVIOUS
<1>n. NodeOf[u] \in Nodes /\ RemediationTaint \in Taint /\ OOSTaint \in Taint
  BY ClusterAssumption DEF Taint
<1>p. PastRemoval(t) \subseteq {"removeTaint", "removeFinalizer"}
  BY DEF PastRemoval
<1>h. ~(Works(u) /\ rec.pc \in PastRemoval(t))
  BY DEF Holds
<1>1. CASE UNCHANGED rec
  BY <1>1, <1>h DEF Works
<1>2. ASSUME NEW v \in FARs, Reconcile(v) PROVE FALSE
  <2>1. ReconcileDeletion(u)
    BY <1>2, <1>p DEF Reconcile, ReconcileNotFound, ReconcileDeletionPanic, ReconcileDeletion,
         Reconciles, ReconcileTimedOutByNHC, ReconcileNodeNotFound, ReconcileRemediation, Begin,
         Works
  <2>2. UNCHANGED node
    BY <2>1 DEF ReconcileDeletion, allButRecAndQueue
  <2>3. CachedNode(u).exists
    BY <1>n, <2>2 DEF CachedNode, TaintInv, NodesFresh
  <2>4. rec'.pc = IF Strategy[u] = OutOfServiceTaint THEN "removeOOS" ELSE "removeTaint"
    BY <2>1, <2>3 DEF ReconcileDeletion, Begin
  <2> QED  BY <1>p, <2>4 DEF PastRemoval, Holds
<1>3. CASE WorkerStep
  <2>w. rec \in Worker
    BY DEF TypeInv, TypeOK
  <2>1. CASE RemoveOOSTaint
    <3>1. RemoveTaint(NodeOf[rec.uid], OOSTaint) /\ RecGoto("removeTaint")
      BY <1>p, <2>1, <2>w DEF RemoveOOSTaint, RecReturn, Worker
    <3>2. rec'.pc = "removeTaint" /\ rec.uid = u
      BY <2>w, <3>1 DEF RecGoto, Works, Worker
    <3> QED  BY <1>n, <3>1, <3>2, RemoveTaintRemoves DEF PastRemoval
  <2>2. CASE RemoveRemediationTaint
    <3>1. RemoveTaint(NodeOf[rec.uid], RemediationTaint) /\ RecGoto("removeFinalizer")
      BY <1>p, <2>2, <2>w DEF RemoveRemediationTaint, RecReturn, Worker
    <3>2. rec.uid = u /\ rec.pc = "removeTaint"
      BY <2>2, <2>w, <3>1 DEF RecGoto, RemoveRemediationTaint, Works, Worker
    <3>3. t = RemediationTaint
      BY <1>h, <3>2 DEF Works, PastRemoval, Taint
    <3> QED  BY <1>n, <3>1, <3>2, <3>3, RemoveTaintRemoves
  <2>3. CASE AddTaint
    BY <1>p, <2>3, <2>w DEF AddTaint, RecGoto, RecReturn, Worker
  <2>4. CASE AddFinalizer \/ Execute \/ EvictByResourceDeletion \/ EvictByOutOfServiceTaint
    BY <1>p, <2>4, <2>w DEF AddFinalizer, Execute, EvictByResourceDeletion, RecReturn,
       EvictByOutOfServiceTaint, FinishRemediation, Worker
  <2>5. CASE RemoveFinalizer \/ UpdateStatus \/ PollDone \/ PollTimesOut
    <3>1. rec' = Idle \/ rec'.pc = "poll"
      BY <2>5, <2>w DEF RemoveFinalizer, UpdateStatus, PollDone, PollTimesOut, Finish, Worker
    <3> QED  BY <1>p, <3>1 DEF Idle
  <2> QED  BY <1>3, <2>1, <2>2, <2>3, <2>4, <2>5 DEF WorkerStep
<1>4. CASE Restart
  BY <1>4 DEF Restart, Idle, Works
<1> QED  BY <1>1, <1>2, <1>3, <1>4 DEF Next, Crash, ExecuterPanic, vars

\* A fence agent that has succeeded has succeeded.
LEMMA AgentOkGrows ==
    ASSUME TypeInv, [Next]_vars, NEW u \in FARs, agentOk[u]
    PROVE  agentOk'[u]
<1>1. ASSUME NEW s \in Slots, RoutineStep(s) PROVE agentOk'[u]
  BY <1>1 DEF RoutineStep, NextAttempt, CommandSucceeds, CommandFails, PutAccepted,
         CommandInterrupted, NextUpdate, GetByUID, PutConflict, PutFails, TypeInv, TypeOK,
         ExecTypeOK
<1>2. ASSUME WorkerStep \/ Restart \/ \E v \in FARs : Reconcile(v) PROVE UNCHANGED agentOk
  BY <1>2 DEF WorkerStep, AddFinalizer, AddTaint, Execute, EvictByResourceDeletion,
         EvictByOutOfServiceTaint, RemoveOOSTaint, RemoveRemediationTaint, RemoveFinalizer,
         UpdateStatus, PollDone, PollTimesOut, notCluster, Restart, Reconcile, ReconcileNotFound,
         ReconcileDeletionPanic, ReconcileDeletion, ReconcileTimedOutByNHC,
         ReconcileNodeNotFound, ReconcileRemediation, allButRecAndQueue
<1> QED  BY <1>1, <1>2 DEF Next, Crash, ExecuterPanic, vars, execVars

\* A CR goes on answering for a taint for as long as the taint is on the node.
LEMMA HoldsKept ==
    ASSUME TypeInv, AgentInv, NodeCacheLags = FALSE, TaintInv, [Next]_vars,
           NEW u \in FARs, NEW t \in Taint, t \in node'[NodeOf[u]].taints, Holds(u, t)
    PROVE  Holds(u, t)'
<1>1. far'[u].phase \in {"absent", "present", "gone"}
  BY AgentInvStep, CopiesType DEF TypeInv, TypeOK, ClusterTypeOK, FarObject
<1>2. ~(Works(u) /\ rec.pc = "removeFinalizer")
  BY DEF Holds, PastRemoval
<1>3. Present(far[u])' /\ far'[u].fin
  BY <1>1, <1>2, WhoDeletes, FarMonotone DEF Holds, Present
<1>4. t = OOSTaint => Strategy[u] = OutOfServiceTaint /\ (RetryCount > 0 => agentOk'[u])
  BY AgentOkGrows DEF Holds
<1>5. ~(Works(u)' /\ rec'.pc \in PastRemoval(t))
  BY PastRemovalMeansGone
<1> QED  BY <1>3, <1>4, <1>5 DEF Holds

\* A taint that is new on a node was set by the worker, for a CR that will answer for it.
LEMMA NewTaintHeld ==
    ASSUME TypeInv, AgentInv, FinalizerInv, RetryCount > 0 => FencedInv,
           NodeCacheLags = FALSE, TaintInv, [Next]_vars,
           NEW n \in Nodes, NEW t \in node'[n].taints, t \notin node[n].taints
    PROVE  \E u \in FARs : NodeOf[u] = n /\ Holds(u, t)'
<1>t. node \in [Nodes -> NodeObject] /\ rec \in Worker
  BY DEF TypeInv, TypeOK, ClusterTypeOK
<1>f. NodesFresh
  BY DEF TaintInv
<1>1. PICK m \in Nodes, obj \in NodeObject : StoreNode(m, obj) /\ NodeChange(m, obj)
  BY <1>f, WhoChangesNodes DEF nodeVars, Restart, DeliverNode, NodesFresh
<1>2. m = n /\ t \in obj.taints
  BY <1>1, <1>f, StoreNodeFresh
<1>3. WorkerTaints(n, obj)
  <2>1. ~WorkerUntaints(n, obj)
    BY <1>t, <1>2 DEF WorkerUntaints, NodeObject
  <2>2. /\ obj # node[n] /\ obj # [node[n] EXCEPT !.exists = TRUE]
        /\ obj # [node[n] EXCEPT !.exists = FALSE, !.taints = {}]
    BY <1>t, <1>2 DEF NodeObject
  <2> QED  BY <1>1, <1>2, <2>1, <2>2 DEF NodeChange
<1>4. PICK u \in FARs :
        /\ u = rec.uid /\ n = NodeOf[u] /\ WorkerStep
        /\ \/ rec.pc = "addTaint" /\ t = RemediationTaint
           \/ rec.pc = "evict" /\ t = OOSTaint /\ Strategy[u] = OutOfServiceTaint
  BY <1>t, <1>2, <1>3 DEF WorkerTaints, NodeObject
<1>5. Works(u) /\ Present(far[u]) /\ far[u].fin
  BY <1>4 DEF FinalizerInv, Works
<1>6. UNCHANGED <<far, agentOk>>
  BY <1>4 DEF WorkerStep, AddFinalizer, AddTaint, Execute, EvictByResourceDeletion,
         EvictByOutOfServiceTaint, RemoveOOSTaint, RemoveRemediationTaint, RemoveFinalizer,
         UpdateStatus, PollDone, PollTimesOut, farVars, notCluster
<1>7. t = OOSTaint => Strategy[u] = OutOfServiceTaint /\ (RetryCount > 0 => agentOk[u])
  BY <1>4 DEF FencedInv, WorkerTruthful, Truthful, RemediationTaint, OOSTaint
<1>8. rec'.pc \notin PastRemoval(t)
  <2>1. rec'.pc \in {"execute", "evict", "status"}
    BY <1>t, <1>4 DEF WorkerStep, AddFinalizer, AddTaint, Execute, EvictByResourceDeletion,
         EvictByOutOfServiceTaint, RemoveOOSTaint, RemoveRemediationTaint, RemoveFinalizer,
         UpdateStatus, PollDone, PollTimesOut, RecGoto, RecReturn, FinishRemediation, Worker
  <2> QED  BY <2>1 DEF PastRemoval
<1>9. Holds(u, t)'
  BY <1>5, <1>6, <1>7, <1>8 DEF Holds, Present
<1> QED  BY <1>4, <1>9

\* Every taint of the operator is answered for.
LEMMA TaintInvStep ==
    ASSUME TypeInv, AgentInv, FinalizerInv, RetryCount > 0 => FencedInv,
           NodeCacheLags = FALSE, TaintInv, [Next]_vars
    PROVE  TaintInv'
<1>1. ASSUME NEW n \in Nodes, NEW t \in node'[n].taints
      PROVE  \E u \in FARs : NodeOf[u] = n /\ Holds(u, t)'
  <2>1. CASE t \in node[n].taints
    <3>1. PICK u \in FARs : NodeOf[u] = n /\ Holds(u, t)
      BY <2>1 DEF TaintInv
    <3>2. t \in Taint
      BY <2>1 DEF TypeInv, TypeOK, ClusterTypeOK, NodeObject
    <3> QED  BY <3>1, <3>2, HoldsKept
  <2>2. CASE t \notin node[n].taints
    BY <2>2, NewTaintHeld
  <2> QED  BY <2>1, <2>2
<1> QED  BY <1>1, NodesStayFresh DEF TaintInv

\* What the two theorems about taints rest on, with the cache of the nodes up to date.
LEMMA TaintInvAlways ==
    ASSUME NodeCacheLags = FALSE
    PROVE  Spec => [](TaintInv /\ FinalizerInv /\ AgentInv /\ TypeInv)
<1> DEFINE Inv == /\ TypeInv /\ AgentInv /\ FinalizerInv /\ (RetryCount > 0 => FencedInv)
                  /\ TaintInv
<1>1. Init => Inv
  <2> SUFFICES ASSUME Init PROVE FinalizerInv /\ TaintInv
    BY AgentInvInit, FencedInvInit
  <2>1. FinalizerInv
    BY DEF Init, ClusterInit, FinalizerInv, NoFar, Idle, Works
  <2>2. TaintInv
    BY DEF Init, ClusterInit, TaintInv, NodesFresh
  <2> QED  BY <2>1, <2>2
<1>2. Inv /\ [Next]_vars => Inv'
  BY AgentInvStep, FinalizerInvStep, FencedInvStep, TaintInvStep
<1> QED  BY <1>1, <1>2, PTL DEF Spec

\* When the node cache is up to date, a node for which no CR is left carries neither of the
\* operator's taints, however many CRs it had and whatever failed, was retried or crashed on
\* the way: the finalizer of a CR that set a taint goes only after the taint.
THEOREM NothingLeftBehind == ASSUME NodeCacheLags = FALSE PROVE Spec => []NoTaintLeft
<1>1. TaintInv => NoTaintLeft
  BY DEF TaintInv, NoTaintLeft, Holds, Present
<1> QED  BY <1>1, TaintInvAlways, PTL

\* When the node cache is up to date and the agent is tried at least once, the out-of-service
\* taint is on a node only while there is a CR of that node whose fence agent has succeeded.
THEOREM OutOfServiceAfterFencing ==
    ASSUME NodeCacheLags = FALSE, RetryCount > 0
    PROVE  Spec => []OutOfServiceOnlyIfFenced
<1>1. TaintInv => OutOfServiceOnlyIfFenced
  BY DEF TaintInv, OutOfServiceOnlyIfFenced, Holds
<1> QED  BY <1>1, TaintInvAlways, PTL

-----------------------------------------------------------------------------
(***************************************************************************)
(* The remediation taint while the fence agent runs.                       *)
(***************************************************************************)

\* What storing a node does, whether the cache lags or not.
LEMMA StoreNodeEffect ==
    ASSUME TypeInv, NEW n \in Nodes, NEW obj \in NodeObject, StoreNode(n, obj)
    PROVE  /\ node'[n] = [obj EXCEPT !.rv = node[n].rv + 1]
           /\ node'[n].taints = obj.taints /\ node'[n].exists = obj.exists
           /\ node'[n].rv = node[n].rv + 1
           /\ \/ /\ NodeCacheLags /\ nodeCache' = nodeCache
                 /\ nodePending'[n] = nodePending[n] \cup {node'[n]}
              \/ /\ ~NodeCacheLags /\ nodeCache'[n] = node'[n]
                 /\ nodePending' = nodePending
           /\ \A m \in Nodes \ {n} : /\ node'[m] = node[m] /\ nodeCache'[m] = nodeCache[m]
                                     /\ nodePending'[m] = nodePending[m]
<1>t. /\ node \in [Nodes -> NodeObject] /\ nodeCache \in [Nodes -> NodeObject]
      /\ nodePending \in [Nodes -> SUBSET NodeObject]
  BY DEF TypeInv, TypeOK, ClusterTypeOK
<1>1. PICK new : new = [obj EXCEPT !.rv = node[n].rv + 1]
  OBVIOUS
<1>2. new.taints = obj.taints /\ new.exists = obj.exists /\ new.rv = node[n].rv + 1
  BY <1>1 DEF NodeObject
<1>3. node' = [node EXCEPT ![n] = new]
  BY <1>1 DEF StoreNode
<1>4. CASE NodeCacheLags
  <2>1. /\ nodePending' = [nodePending EXCEPT ![n] = @ \cup {new}]
        /\ nodeCache' = nodeCache
    BY <1>1, <1>4 DEF StoreNode
  <2> QED  BY <1>t, <1>1, <1>2, <1>3, <1>4, <2>1
<1>5. CASE ~NodeCacheLags
  <2>1. nodeCache' = [nodeCache EXCEPT ![n] = new] /\ nodePending' = nodePending
    BY <1>1, <1>5 DEF StoreNode
  <2> QED  BY <1>t, <1>1, <1>2, <1>3, <1>5, <2>1
<1> QED  BY <1>4, <1>5

\* No step takes back that a node has been deleted, so none has been if none is counted.
LEMMA NoNodeDeleted ==
    ASSUME TypeInv, [Next]_vars, faults'.node = 0
    PROVE  faults.node = 0 /\ \A n \in Nodes : ~DeleteNode(n)
<1>t. faults \in Faults
  BY DEF TypeInv, TypeOK, ClusterTypeOK
<1>1. ASSUME NEW n \in Nodes, DeleteNode(n) PROVE FALSE
  BY <1>t, <1>1 DEF DeleteNode, Faults
<1> SUFFICES faults.node = 0
  BY <1>1
<1>2. ASSUME ApiError \/ Edit PROVE faults.node = 0
  BY <1>t, <1>2 DEF ApiError, Edit, Faults
<1>3. ASSUME NEW u \in FARs, AnnotateTimedOut(u) PROVE faults.node = 0
  BY <1>t, <1>3 DEF AnnotateTimedOut, Faults
<1>4. CASE Crash
  BY <1>t, <1>4 DEF Crash, Faults
<1>5. CASE UNCHANGED faults
  BY <1>5
<1>6. CASE ClusterNext
  BY <1>1, <1>2, <1>3, <1>5, <1>6
     DEF ClusterNext, DeliverFar, Resync, CreateFar, DeleteFar, EditFar, DeliverNode, EditNode,
         CreateNode, nodesAndCaches
<1>7. ASSUME NEW s \in Slots, RoutineStep(s) PROVE faults.node = 0
  BY <1>2, <1>5, <1>7 DEF RoutineStep, NextAttempt, CommandSucceeds, CommandFails, PutAccepted,
         CommandInterrupted, NextUpdate, GetByUID, PutConflict, PutFails, clusterVars
<1>8. ASSUME NEW u \in FARs, Reconcile(u) PROVE faults.node = 0
  BY <1>5, <1>8 DEF Reconcile, ReconcileNotFound, ReconcileDeletionPanic, ReconcileDeletion,
         ReconcileTimedOutByNHC, ReconcileNodeNotFound, ReconcileRemediation, allButRecAndQueue
<1>9. CASE WorkerStep
  <2>1. CASE AddFinalizer \/ RemoveFinalizer \/ UpdateStatus \/ PollDone \/ PollTimesOut
    BY <1>2, <1>5, <2>1 DEF AddFinalizer, RemoveFinalizer, UpdateStatus, PollDone, PollTimesOut,
       Refused
  <2>2. CASE AddTaint \/ EvictByOutOfServiceTaint \/ RemoveOOSTaint \/ RemoveRemediationTaint
    BY <1>2, <1>5, <2>2 DEF AddTaint, EvictByOutOfServiceTaint, RemoveOOSTaint, Refused,
       RemoveRemediationTaint, AppendTaint, AppendTaintFails, RemoveTaint, RemoveTaintFails
  <2>3. CASE Execute \/ EvictByResourceDeletion
    BY <1>2, <1>5, <2>3 DEF Execute, EvictByResourceDeletion
  <2> QED  BY <1>9, <2>1, <2>2, <2>3 DEF WorkerStep
<1> QED  BY <1>1, <1>4, <1>5, <1>6, <1>7, <1>8, <1>9
         DEF Next, ExecuterPanic, vars, clusterVars

\* The versions of a node stay in order, and a node that exists goes on existing.
LEMMA NodeVersionsKept ==
    ASSUME TypeInv, [Next]_vars, faults'.node = 0, NEW n \in Nodes, NodeVersions(n)
    PROVE  /\ NodeVersions(n)'
           /\ NodeCopies(n)' \subseteq NodeCopies(n) \cup {node'[n]}
           /\ nodeCache[n].exists => nodeCache'[n].exists
<1>t. /\ node \in [Nodes -> NodeObject] /\ nodeCache \in [Nodes -> NodeObject]
      /\ nodePending \in [Nodes -> SUBSET NodeObject]
      /\ \A v \in NodeCopies(n) : v.rv \in Nat
  BY DEF TypeInv, TypeOK, ClusterTypeOK, NodeCopies, NodeObject
<1>c. nodeCache[n] \in NodeCopies(n) /\ node[n] \in NodeCopies(n)
  BY DEF NodeCopies
<1>k. ASSUME UNCHANGED <<node[n], nodeCache[n], nodePending[n]>>
      PROVE  /\ NodeVersions(n)' /\ NodeCopies(n)' \subseteq NodeCopies(n) \cup {node'[n]}
             /\ nodeCache[n].exists => nodeCache'[n].exists
  <2>1. NodeCopies(n)' = NodeCopies(n)
    BY <1>k DEF NodeCopies
  <2> QED  BY <1>k, <2>1 DEF NodeVersions
<1>1. CASE UNCHANGED nodeVars
  BY <1>1, <1>k DEF nodeVars
<1>2. CASE Restart
  <2>1. NodeCopies(n)' = {node[n]} /\ nodeCache'[n] = node[n] /\ node'[n] = node[n]
        /\ nodePending'[n] = {}
    BY <1>2 DEF Restart, NodeCopies
  <2> QED  BY <1>t, <1>c, <2>1 DEF NodeVersions
<1>3. ASSUME NEW m \in Nodes, DeliverNode(m)
      PROVE  /\ NodeVersions(n)' /\ NodeCopies(n)' \subseteq NodeCopies(n) \cup {node'[n]}
             /\ nodeCache[n].exists => nodeCache'[n].exists
  <2>1. CASE m # n
    BY <1>t, <1>3, <1>k, <2>1 DEF DeliverNode
  <2>2. CASE m = n
    <3>1. PICK v \in nodePending[n] :
            /\ nodeCache'[n] = v /\ nodePending'[n] = {w \in nodePending[n] : w.rv > v.rv}
            /\ node' = node
      BY <1>t, <1>3, <2>2 DEF DeliverNode
    <3>2. NodeCopies(n)' \subseteq NodeCopies(n) /\ v \in NodeCopies(n)
      BY <3>1 DEF NodeCopies
    <3>3. \A w \in NodeCopies(n)' : v.rv <= w.rv
      BY <1>t, <1>c, <3>1, <3>2 DEF NodeCopies, NodeVersions
    <3> QED  BY <1>c, <3>1, <3>2, <3>3 DEF NodeVersions
  <2> QED  BY <2>1, <2>2
<1>4. ASSUME NEW m \in Nodes, NEW obj \in NodeObject, StoreNode(m, obj), NodeChange(m, obj)
      PROVE  /\ NodeVersions(n)' /\ NodeCopies(n)' \subseteq NodeCopies(n) \cup {node'[n]}
             /\ nodeCache[n].exists => nodeCache'[n].exists
  <2>1. CASE m # n
    <3>1. UNCHANGED <<node[n], nodeCache[n], nodePending[n]>>
      BY <1>4, <2>1, StoreNodeEffect
    <3> QED  BY <1>k, <3>1
  <2>2. CASE m = n
    <3>1. obj.exists
      <4>1. CASE EditNode(n) \/ CreateNode(n)
        BY <1>t, <1>4, <2>2, <4>1, NoNodeDeleted
           DEF NodeChange, EditNode, CreateNode, WorkerTaints, WorkerUntaints, NodeObject
      <4>2. CASE WorkerTaints(n, obj) \/ WorkerUntaints(n, obj)
        BY <1>t, <4>2 DEF WorkerTaints, WorkerUntaints, NodeObject
      <4> QED  BY <1>4, <2>2, <4>1, <4>2, NoNodeDeleted DEF NodeChange
    <3>2. node'[n].exists /\ node'[n].rv = node[n].rv + 1
      BY <1>4, <2>2, <3>1, StoreNodeEffect
    <3>3. CASE NodeCacheLags
      <4>1. nodeCache'[n] = nodeCache[n] /\ nodePending'[n] = nodePending[n] \cup {node'[n]}
        BY <1>4, <2>2, <3>3, StoreNodeEffect
      <4>2. NodeCopies(n)' \subseteq NodeCopies(n) \cup {node'[n]}
        BY <4>1 DEF NodeCopies
      <4>3. \A v \in NodeCopies(n) : v.rv < node'[n].rv
        BY <1>t, <1>c, <3>2 DEF NodeVersions
      <4> QED  BY <1>t, <1>c, <3>2, <3>3, <4>1, <4>2, <4>3 DEF NodeVersions
    <3>4. CASE ~NodeCacheLags
      <4>1. nodeCache'[n] = node'[n] /\ nodePending'[n] = {}
        BY <1>4, <2>2, <3>4, StoreNodeEffect DEF NodeVersions
      <4>2. NodeCopies(n)' = {node'[n]}
        BY <4>1 DEF NodeCopies
      <4> QED  BY <1>t, <1>c, <3>2, <4>1, <4>2 DEF NodeVersions
    <3> QED  BY <3>3, <3>4
  <2> QED  BY <2>1, <2>2
<1> QED  BY <1>1, <1>2, <1>3, <1>4, WhoChangesNodes

\* The remediation taint leaves a node that is not deleted only when the worker takes it off.
LEMMA WhoUntaints ==
    ASSUME TypeInv, [Next]_vars, faults'.node = 0, NEW n \in Nodes,
           RemediationTaint \in node[n].taints, RemediationTaint \notin node'[n].taints
    PROVE  WorkerStep /\ rec.pc = "removeTaint" /\ NodeOf[rec.uid] = n
<1>t. node \in [Nodes -> NodeObject]
  BY DEF TypeInv, TypeOK, ClusterTypeOK
<1>1. PICK m \in Nodes, obj \in NodeObject : StoreNode(m, obj) /\ NodeChange(m, obj)
  BY WhoChangesNodes DEF nodeVars, Restart, DeliverNode
<1>2. m = n /\ RemediationTaint \notin obj.taints
  <2>1. m # n => node'[n] = node[n]
    BY <1>1, StoreNodeEffect
  <2>2. node'[m].taints = obj.taints
    BY <1>1, StoreNodeEffect
  <2> QED  BY <2>1, <2>2
<1>3. WorkerUntaints(n, obj)
  <2>1. ~WorkerTaints(n, obj)
    BY <1>t, <1>2 DEF WorkerTaints, NodeObject
  <2>2. obj # node[n] /\ obj # [node[n] EXCEPT !.exists = TRUE]
    BY <1>t, <1>2 DEF NodeObject
  <2> QED  BY <1>1, <1>2, <2>1, <2>2, NoNodeDeleted DEF NodeChange
<1> QED  BY <1>t, <1>2, <1>3 DEF WorkerUntaints, NodeObject, RemediationTaint, OOSTaint

\* Where the worker comes from when it is about to do something for a CR.
LEMMA WorkerEnters ==
    ASSUME TypeInv, [Next]_vars, NEW u \in FARs, Works(u)'
    PROVE  /\ rec'.pc \in {"addFinalizer"} \cup Remediating =>
                \/ Works(u) /\ rec.pc \in {"addFinalizer"} \cup Remediating
                \/ ReconcileRemediation(u)
           /\ rec'.pc = "addTaint" => \/ Works(u) /\ rec.pc = "addTaint"
                                      \/ ReconcileRemediation(u)
           /\ rec'.pc = "execute" => \/ Works(u) /\ UNCHANGED rec
                                     \/ Works(u) /\ AddTaint /\ AppendTaint(NodeOf[u], RemediationTaint)
           /\ rec'.pc \in {"removeOOS", "removeTaint", "removeFinalizer"} =>
                \/ Works(u) /\ rec.pc \in {"removeOOS", "removeTaint", "removeFinalizer"}
                \/ ReconcileDeletion(u)
<1> USE DEF Remediating
<1>w. rec \in Worker
  BY DEF TypeInv, TypeOK
<1>1. CASE UNCHANGED rec
  BY <1>1 DEF Works
<1>2. ASSUME NEW v \in FARs, Reconcile(v)
      PROVE  ReconcileRemediation(u) \/ ReconcileDeletion(u) \/ rec'.pc \in {"status", "idle"}
  BY <1>2 DEF Reconcile, ReconcileNotFound, ReconcileDeletionPanic, ReconcileDeletion, Reconciles,
         ReconcileTimedOutByNHC, ReconcileNodeNotFound, ReconcileRemediation, Begin, Works
<1>3. ReconcileRemediation(u) => rec'.pc \in {"addFinalizer", "addTaint"}
  BY DEF ReconcileRemediation, Begin
<1>4. ReconcileDeletion(u) => rec'.pc \in {"removeOOS", "removeTaint", "removeFinalizer"}
  BY DEF ReconcileDeletion, Begin
<1>5. CASE WorkerStep
  <2>1. CASE AddTaint
    BY <1>w, <2>1 DEF AddTaint, RecGoto, RecReturn, Works, Worker
  <2>2. CASE RemoveOOSTaint \/ RemoveRemediationTaint
    BY <1>w, <2>2 DEF RemoveOOSTaint, RemoveRemediationTaint, RecGoto, RecReturn, Works, Worker
  <2>3. CASE AddFinalizer \/ Execute \/ EvictByResourceDeletion \/ EvictByOutOfServiceTaint
    <3>1. rec'.pc = "status"
      BY <1>w, <2>3 DEF AddFinalizer, Execute, EvictByResourceDeletion, RecReturn,
         EvictByOutOfServiceTaint, FinishRemediation, Worker
    <3> QED  BY <3>1
  <2>4. CASE RemoveFinalizer \/ UpdateStatus \/ PollDone \/ PollTimesOut
    <3>1. rec' = Idle \/ rec'.pc = "poll"
      BY <1>w, <2>4 DEF RemoveFinalizer, UpdateStatus, PollDone, PollTimesOut, Finish, Worker
    <3> QED  BY <3>1 DEF Idle
  <2> QED  BY <1>5, <2>1, <2>2, <2>3, <2>4 DEF WorkerStep
<1>6. CASE Restart
  BY <1>6 DEF Restart, Idle, Works
<1> QED  BY <1>1, <1>2, <1>3, <1>4, <1>5, <1>6 DEF Next, Crash, ExecuterPanic, vars

\* Nothing but the worker's execute step starts a goroutine or puts it into the map, and a
\* context that was cancelled stays so.
LEMMA WhoStarts ==
    ASSUME TypeInv, AgentInv, [Next]_vars, NEW u \in FARs, ~(Works(u) /\ Execute)
    PROVE  /\ routines[u] = None => routines'[u] = None
           /\ \A s \in Slots :
                Runs(s, u)' => Runs(s, u) /\ (gor[s].cancelled => gor'[s].cancelled)
<1> DEFINE Goal == /\ routines[u] = None => routines'[u] = None
                   /\ \A s \in Slots :
                        Runs(s, u)' => Runs(s, u) /\ (gor[s].cancelled => gor'[s].cancelled)
<1>1. CASE UNCHANGED <<routines, gor>>
  BY <1>1 DEF Runs, Live
<1>2. ASSUME NEW s \in Slots, RoutineStep(s) PROVE Goal
  <2>1. routines' = routines
    BY <1>2, RoutineStepEffect
  <2>2. ASSUME NEW t \in Slots, Runs(t, u)'
        PROVE  Runs(t, u) /\ (gor[t].cancelled => gor'[t].cancelled)
    <3>1. CASE t # s
      BY <1>2, <2>2, <3>1, RoutineStepEffect DEF Runs, Live
    <3>2. CASE t = s
      BY <1>2, <2>2, <3>2, RoutineStepEffect DEF Runs, Live, FreeSlot
    <3> QED  BY <3>1, <3>2
  <2> QED  BY <2>1, <2>2
<1>3. ASSUME NEW v \in FARs, Remove(v) PROVE Goal
  <2>1. RoutineHas(v)
    BY DEF AgentInv, CRInv
  <2>2. routines[u] = None => routines'[u] = None
    BY <1>3, <2>1, RemoveEffect
  <2>3. ASSUME NEW s \in Slots, Runs(s, u)'
        PROVE  Runs(s, u) /\ (gor[s].cancelled => gor'[s].cancelled)
    <3>1. gor'[s].pc = gor[s].pc /\ gor'[s].uid = gor[s].uid
      BY <1>3, <2>1, RemoveEffect
    <3>2. gor'[s] = gor[s] \/ gor'[s].cancelled
      BY <1>3, <2>1, <2>3, <3>1, RemoveEffect DEF Runs, Live
    <3> QED  BY <2>3, <3>1, <3>2 DEF Runs, Live
  <2> QED  BY <2>2, <2>3
<1>4. ASSUME NEW v \in FARs, Reconcile(v) PROVE Goal
  <2>1. Remove(v) \/ UNCHANGED <<routines, gor>>
    BY <1>4 DEF Reconcile, ReconcileNotFound, ReconcileDeletionPanic, ReconcileDeletion,
         ReconcileTimedOutByNHC, ReconcileNodeNotFound, ReconcileRemediation
  <2> QED  BY <1>1, <1>3, <2>1
<1>5. CASE WorkerStep
  <2>1. CASE rec.uid # u
    BY <1>5, <2>1, WorkerStepOthers DEF SameRoutine, Runs, Live
  <2>2. CASE rec.uid = u
    <3>1. ~Execute
      BY <2>2 DEF Execute, Works
    <3>2. Remove(u) \/ UNCHANGED <<routines, gor>>
      BY <1>5, <2>2, <3>1 DEF WorkerStep, AddFinalizer, AddTaint, EvictByResourceDeletion,
         EvictByOutOfServiceTaint, RemoveOOSTaint, RemoveRemediationTaint, RemoveFinalizer,
         UpdateStatus, PollDone, PollTimesOut, FinishRemediation, notCluster
    <3> QED  BY <1>1, <1>3, <3>2
  <2> QED  BY <2>1, <2>2
<1>6. CASE Restart
  BY <1>6 DEF Restart, Runs, Live, FreeSlot
<1> QED  BY <1>1, <1>2, <1>4, <1>5, <1>6 DEF Next, Crash, ExecuterPanic, vars, execVars

OneCRPerNode == \A u, v \in FARs : NodeOf[u] = NodeOf[v] => u = v

\* The remediation taint is on the node from before the goroutine starts until after it was
\* told to stop.
LEMMA FencingInvStep ==
    ASSUME OneCRPerNode, TypeInv, AgentInv, FencingInv, [Next]_vars, faults'.node = 0
    PROVE  FencingInv'
<1> SUFFICES ASSUME NEW u \in FARs
             PROVE  /\ NodeVersions(NodeOf[u])'
                    /\ TaintSeen(u)'
                    /\ Works(u)' /\ rec'.pc = "addTaint" => nodeCache'[NodeOf[u]].exists
                    /\ Works(u)' /\ rec'.pc = "execute" =>
                           RemediationTaint \in node'[NodeOf[u]].taints
                    /\ Works(u)' /\ rec'.pc \in {"removeOOS", "removeTaint", "removeFinalizer"} =>
                           Stopped(u)'
                    /\ \A s \in Slots : Runs(s, u)' /\ ~gor'[s].cancelled =>
                           RemediationTaint \in node'[NodeOf[u]].taints
  BY DEF FencingInv
<1> DEFINE n == NodeOf[u]
           Removing == {"removeOOS", "removeTaint", "removeFinalizer"}
<1>i. /\ NodeVersions(n) /\ TaintSeen(u)
      /\ Works(u) /\ rec.pc = "addTaint" => nodeCache[n].exists
      /\ Works(u) /\ rec.pc = "execute" => RemediationTaint \in node[n].taints
      /\ Works(u) /\ rec.pc \in Removing => Stopped(u)
      /\ \A s \in Slots : Runs(s, u) /\ ~gor[s].cancelled => RemediationTaint \in node[n].taints
      /\ CRInv(u) /\ n \in Nodes
  BY ClusterAssumption DEF FencingInv, AgentInv
<1>u. RemediationTaint \in node[n].taints /\ RemediationTaint \notin node'[n].taints =>
         Works(u) /\ rec.pc = "removeTaint" /\ WorkerStep
  <2> SUFFICES ASSUME RemediationTaint \in node[n].taints, RemediationTaint \notin node'[n].taints
               PROVE  Works(u) /\ rec.pc = "removeTaint" /\ WorkerStep
    OBVIOUS
  <2>1. WorkerStep /\ rec.pc = "removeTaint" /\ NodeOf[rec.uid] = n
    BY <1>i, WhoUntaints
  <2>2. rec.uid = u
    BY <2>1 DEF OneCRPerNode, TypeInv, Owned
  <2> QED  BY <2>1, <2>2 DEF Works
<1>1. NodeVersions(n)' /\ (nodeCache[n].exists => nodeCache'[n].exists)
  BY <1>i, NodeVersionsKept
<1>2. TaintSeen(u)'
  <2> SUFFICES ASSUME NEW v \in NodeCopies(n)', RemediationTaint \in v.taints,
                      RemediationTaint \notin node'[n].taints
               PROVE  /\ farCache'[u].del
                      /\ Works(u)' => rec'.pc \notin {"addFinalizer"} \cup Remediating
    BY DEF TaintSeen, Remediating
  <2>1. v \in NodeCopies(n)
    BY <1>i, NodeVersionsKept
  <2>2. /\ farCache[u].del
        /\ Works(u) => rec.pc \notin {"addFinalizer"} \cup Remediating
    <3>1. CASE RemediationTaint \in node[n].taints
      <4>1. Works(u) /\ rec.pc = "removeTaint"
        BY <1>u, <3>1
      <4>2. rec.far.del /\ Follows(rec.far, farCache[u])
        BY <1>i, <4>1 DEF CRInv, WorkerHas, Copies
      <4> QED  BY <4>1, <4>2 DEF Follows, Remediating
    <3>2. CASE RemediationTaint \notin node[n].taints
      BY <1>i, <2>1, <3>2 DEF TaintSeen, Remediating
    <3> QED  BY <3>1, <3>2
  <2>3. ~ReconcileRemediation(u)
    BY <2>2 DEF ReconcileRemediation, Remediable
  <2> QED  BY <2>2, <2>3, CacheFollows, WorkerEnters DEF Follows
<1>3. ASSUME Works(u)', rec'.pc = "addTaint" PROVE nodeCache'[n].exists
  <2>1. CASE ReconcileRemediation(u)
    BY <2>1, <1>1 DEF ReconcileRemediation, CachedNode
  <2> QED  BY <1>3, <1>i, <1>1, <2>1, WorkerEnters
<1>4. ASSUME Works(u)', rec'.pc = "execute" PROVE RemediationTaint \in node'[n].taints
  <2>1. CASE Works(u) /\ UNCHANGED rec
    BY <1>4, <1>i, <1>u, <2>1
  <2>2. CASE Works(u) /\ AddTaint /\ AppendTaint(n, RemediationTaint)
    <3>1. Works(u) /\ rec.pc = "addTaint"
      BY <2>2 DEF AddTaint
    <3>2. CASE NothingToAppend(n, RemediationTaint)
      <4>1. RemediationTaint \in nodeCache[n].taints /\ nodeCache[n] \in NodeCopies(n)
        BY <1>i, <3>1, <3>2 DEF NothingToAppend, TaintExists, NodeCopies
      <4>2. RemediationTaint \in node[n].taints
        BY <1>i, <3>1, <4>1 DEF TaintSeen
      <4> QED  BY <1>u, <3>1, <4>2
    <3>3. CASE StoreNode(n, [node[n] EXCEPT !.taints = @ \cup {RemediationTaint}])
      <4>0. node[n] \in NodeObject
        BY <1>i DEF TypeInv, TypeOK, ClusterTypeOK
      <4>1. PICK obj \in NodeObject : obj = [node[n] EXCEPT !.taints = @ \cup {RemediationTaint}]
        BY <4>0 DEF NodeObject, Taint
      <4>2. node'[n].taints = obj.taints
        BY <1>i, <3>3, <4>1, StoreNodeEffect
      <4> QED  BY <4>0, <4>1, <4>2 DEF NodeObject
    <3> QED  BY <2>2, <3>2, <3>3 DEF AppendTaint
  <2> QED  BY <1>4, <2>1, <2>2, WorkerEnters
<1>5. ASSUME Works(u)', rec'.pc \in Removing PROVE Stopped(u)'
  <2>1. CASE Works(u) /\ rec.pc \in Removing
    <3>1. ~Execute
      BY <2>1 DEF Execute
    <3> QED  BY <1>i, <2>1, <3>1, WhoStarts DEF Stopped
  <2>2. CASE ReconcileDeletion(u)
    BY <1>i, <2>2, RemoveEffect DEF ReconcileDeletion, CRInv
  <2> QED  BY <1>5, <2>1, <2>2, WorkerEnters
<1>6. ASSUME NEW s \in Slots, Runs(s, u)', ~gor'[s].cancelled
      PROVE  RemediationTaint \in node'[n].taints
  <2>1. CASE Works(u) /\ Execute
    <3>1. rec.pc = "execute"
      BY <2>1 DEF Execute
    <3> QED  BY <1>i, <1>u, <2>1, <3>1
  <2>2. CASE ~(Works(u) /\ Execute)
    <3>1. Runs(s, u) /\ ~gor[s].cancelled
      BY <1>6, <2>2, WhoStarts
    <3>2. ~(Works(u) /\ rec.pc = "removeTaint")
      BY <1>i, <3>1 DEF Stopped
    <3> QED  BY <1>i, <1>u, <3>1, <3>2
  <2> QED  BY <2>1, <2>2
<1> QED  BY <1>1, <1>2, <1>3, <1>4, <1>5, <1>6

\* With one CR for a node, and whether the node cache lags or not, a node that is not deleted
\* carries the remediation taint for as long as a fence agent that has not been cancelled runs
\* against it: the taint goes on before the goroutine starts, and comes off after Remove.
THEOREM TaintedThroughout == ASSUME OneCRPerNode PROVE Spec => []TaintedWhileFencing
<1> DEFINE Inv == TypeInv /\ AgentInv /\ (faults.node = 0 => FencingInv)
<1>1. Init => Inv
  <2> SUFFICES ASSUME Init PROVE FencingInv
    BY AgentInvInit
  <2>1. ASSUME NEW u \in FARs
        PROVE  /\ NodeVersions(NodeOf[u]) /\ TaintSeen(u) /\ ~Works(u)
               /\ \A s \in Slots : ~Runs(s, u)
    <3>1. /\ NodeOf[u] \in Nodes /\ NodeCopies(NodeOf[u]) = {node[NodeOf[u]]}
          /\ nodePending[NodeOf[u]] = {} /\ nodeCache[NodeOf[u]] = node[NodeOf[u]]
          /\ node[NodeOf[u]].rv = 0
      BY ClusterAssumption DEF Init, ClusterInit, NodeCopies
    <3>2. NodeVersions(NodeOf[u]) /\ TaintSeen(u)
      BY <3>1 DEF NodeVersions, TaintSeen
    <3> QED  BY <3>2 DEF Init, ExecInit, NewExecuter, FreeSlot, Idle, Works, Runs, Live
  <2> QED  BY <2>1 DEF FencingInv
<1>2. Inv /\ [Next]_vars => Inv'
  BY AgentInvStep, FencingInvStep, NoNodeDeleted
<1>3. Inv => TaintedWhileFencing
  BY DEF TypeInv, Owned, FencingInv, TaintedWhileFencing, Runs, Live
<1> QED  BY <1>1, <1>2, <1>3, PTL DEF Spec

=============================================================================

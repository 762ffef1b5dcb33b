---------------------------- MODULE VersionProofs ----------------------------
(***************************************************************************)
(* Proofs that rest on the order of a CR's versions: a CR has one fence    *)
(* agent at most, and an interruption by NHC is final.                     *)
(***************************************************************************)
EXTENDS RemediationInvariants, RemediationProofs

-----------------------------------------------------------------------------
(***************************************************************************)
(* Versions.                                                               *)
(***************************************************************************)

\* All copies of a CR are CR objects.
LEMMA CopiesType ==
    ASSUME TypeInv, NEW u \in FARs
    PROVE  Copies(u) \subseteq FarObject /\ far[u] \in FarObject /\ farCache[u] \in FarObject
  BY DEF TypeInv, TypeOK, ClusterTypeOK, Copies

\* What a later version than the server's may differ in.
Advances(u, obj) ==
    /\ obj.phase # "absent" /\ far[u].phase # "gone"
    /\ far[u].fin => obj.fin \/ obj.phase = "gone"
    /\ far[u].del => obj.del
    /\ far[u].nhc => obj.nhc

\* A version that advances on the server's follows whatever the server's follows.
LEMMA AdvancesFollows ==
    ASSUME NEW u \in FARs, NEW obj, NEW o, Follows(o, far[u]), Advances(u, obj),
           o.st.fenceAgentActionSucceeded = "True" => ~Startable(obj)
    PROVE  Follows(o, obj)
  BY DEF Follows, Advances

\* Storing a version that follows every copy keeps the copies in order.
LEMMA StoreFarVersions ==
    ASSUME TypeInv, NEW u \in FARs, Versions(u), NEW obj \in FarObject, StoreFar(u, obj),
           farCache'[u] = farCache[u], Advances(u, obj),
           \A v \in Copies(u) : v.st.fenceAgentActionSucceeded = "True" => ~Startable(obj)
    PROVE  /\ Versions(u)'
           /\ far'[u] = [obj EXCEPT !.rv = far[u].rv + 1]
           /\ Copies(u)' \subseteq Copies(u) \cup {far'[u]}
           /\ far'[u].rv = far[u].rv + 1 /\ far'[u].st = obj.st /\ far'[u].phase = obj.phase
           /\ far'[u].fin = obj.fin /\ far'[u].del = obj.del /\ far'[u].nhc = obj.nhc
<1> DEFINE new == [obj EXCEPT !.rv = far[u].rv + 1]
<1>1. far'[u] = new /\ farPending'[u] = farPending[u] \cup {new}
  BY DEF StoreFar, TypeInv, TypeOK, ClusterTypeOK
<1>2. /\ new.rv = far[u].rv + 1 /\ new.st = obj.st /\ new.phase = obj.phase
      /\ new.fin = obj.fin /\ new.del = obj.del /\ new.nhc = obj.nhc
  BY DEF FarObject
<1>3. Copies(u)' \subseteq Copies(u) \cup {new}
  BY <1>1 DEF Copies
<1>4. \A v \in Copies(u) : /\ v.rv \in Nat /\ v.rv < new.rv
                           /\ Follows(v, new)
  <2> SUFFICES ASSUME NEW v \in Copies(u) PROVE v.rv \in Nat /\ v.rv < new.rv /\ Follows(v, new)
    OBVIOUS
  <2>1. v.rv \in Nat /\ far[u].rv \in Nat /\ v.rv <= far[u].rv
    BY CopiesType DEF Versions, FarObject
  <2>2. Follows(v, far[u])
    BY <2>1 DEF Versions, Copies
  <2>3. Follows(v, obj)
    BY <2>2, AdvancesFollows
  <2>4. Follows(v, new)
    BY <2>3, <1>2 DEF Follows, Startable, Present
  <2> HIDE DEF new
  <2> QED  BY <1>2, <2>1, <2>4
<1>5. Follows(new, new)
  BY <1>2 DEF Follows, Startable, NeedsFencing
<1>6. new.rv \in Nat
  BY <1>2, CopiesType DEF FarObject
<1>7. new.phase # "absent"
  BY <1>2 DEF Advances
<1> HIDE DEF new
<1>8. farCache'[u] \in Copies(u)
  BY DEF Copies
<1>9. \A v \in Copies(u)' : /\ farCache'[u].rv <= v.rv /\ v.rv <= far'[u].rv
                            /\ v.rv = far'[u].rv => v = far'[u]
                            /\ v.phase = "absent" => v = NoFar
  <2> SUFFICES ASSUME NEW v \in Copies(u)'
               PROVE  /\ farCache'[u].rv <= v.rv /\ v.rv <= far'[u].rv
                      /\ v.rv = far'[u].rv => v = far'[u]
                      /\ v.phase = "absent" => v = NoFar
    OBVIOUS
  <2>1. CASE v = new
    BY <1>1, <1>4, <1>6, <1>7, <1>8, <2>1
  <2>2. CASE v \in Copies(u)
    BY <1>1, <1>4, <1>6, <2>2 DEF Versions
  <2> QED  BY <1>3, <2>1, <2>2
<1>10. \A v, w \in Copies(u)' : v.rv <= w.rv => Follows(v, w)
  BY <1>3, <1>4, <1>5, <1>6 DEF Versions
<1>11. Versions(u)'
  BY <1>9, <1>10 DEF Versions, Follows, Startable, Present
<1> QED  BY <1>1, <1>2, <1>3, <1>11 DEF new

-----------------------------------------------------------------------------
(***************************************************************************)
(* What a step leaves alone.                                               *)
(***************************************************************************)
SameCopies(u) ==
    far'[u] = far[u] /\ farCache'[u] = farCache[u] /\ farPending'[u] = farPending[u]

SameRoutine(u) ==
    /\ routines'[u] = routines[u]
    /\ \A s \in Slots : (Runs(s, u) \/ Runs(s, u)') => gor'[s] = gor[s]

SameHistory(u) == agentOk'[u] = agentOk[u] /\ evicted'[u] = evicted[u]

SameWorker(u) == rec' = rec \/ (~Works(u) /\ ~Works(u)')

\* A step that has nothing to do with a CR keeps its part of the invariant.
LEMMA CRKept ==
    ASSUME NEW u \in FARs, CRInv(u),
           SameCopies(u), SameRoutine(u), SameHistory(u), SameWorker(u)
    PROVE  CRInv(u)'
<1> USE DEF SameCopies
<1>c. Copies(u)' = Copies(u)
  BY DEF Copies
<1>r. \A s \in Slots : Runs(s, u)' <=> Runs(s, u)
  BY DEF SameRoutine, Runs, Live
<1>s. Starting(u)' <=> Starting(u)
  BY DEF SameWorker, Works, Starting
<1>n. NoneStartable(u)' <=> NoneStartable(u)
  BY <1>c DEF NoneStartable, Startable, Present, NeedsFencing
<1>1. Versions(u)'
  BY <1>c DEF CRInv, Versions, Follows, Startable, Present, NeedsFencing
<1>2. (Before(u) => Untouched(u))'
  BY <1>c, <1>r, <1>s DEF CRInv, Before, Untouched, SameRoutine, SameHistory, Present
<1>3. Stopped(u)' <=> Stopped(u)
  BY <1>r DEF Stopped, SameRoutine
<1>4. WorkerHas(u)'
  <2>1. CASE ~Works(u)'
    BY <2>1 DEF WorkerHas
  <2>2. CASE rec' = rec
    BY <1>c, <1>s, <1>n, <1>3, <2>2 DEF CRInv, WorkerHas, Works, StatusToWrite, Follows, Startable, Present
  <2> QED  BY <2>1, <2>2 DEF SameWorker
<1>5. RoutineHas(u)'
  <2>1. Over(u) => Over(u)'
    BY <1>n DEF Over, SameWorker, Works
  <2> QED  BY <1>r, <2>1 DEF CRInv, RoutineHas, SameRoutine
<1> QED  BY <1>1, <1>2, <1>4, <1>5 DEF CRInv

\* So does a step that only delivers a later version to the cache.
LEMMA DeliverKeeps ==
    ASSUME TypeInv, NEW u \in FARs, CRInv(u), DeliverFar(u), UNCHANGED <<execVars, rec, evicted>>
    PROVE  CRInv(u)'
<1>1. PICK v \in farPending[u] : /\ farCache'[u] = v
                                 /\ farPending'[u] = {w \in farPending[u] : w.rv > v.rv}
                                 /\ far' = far
  BY DEF DeliverFar, TypeInv, TypeOK, ClusterTypeOK
<1>t. \A w \in Copies(u) : w.rv \in Nat
  BY CopiesType DEF FarObject
<1>u. UNCHANGED <<routines, gor, agentOk, rec, evicted>>
  BY DEF execVars
<1>2. v \in Copies(u) /\ Copies(u)' \subseteq Copies(u)
  BY <1>1 DEF Copies
<1>3. \A w \in Copies(u)' : v.rv <= w.rv
  <2>1. v.rv <= far[u].rv
    BY <1>2 DEF CRInv, Versions
  <2> QED  BY <1>1, <1>2, <1>t, <2>1 DEF Copies
<1>4. Versions(u)'
  BY <1>1, <1>2, <1>3 DEF CRInv, Versions, Follows, Startable, Present, NeedsFencing
<1>5. (Before(u) => Untouched(u))'
  BY <1>1, <1>2, <1>u DEF CRInv, Before, Starting, Untouched, Present, Runs, Live
<1>6. NoneStartable(u) => NoneStartable(u)'
  BY <1>2 DEF NoneStartable, Startable, Present, NeedsFencing
<1>7. farCache[u].nhc => farCache'[u].nhc
  <2>1. Follows(farCache[u], v)
    BY <1>2 DEF CRInv, Versions, Copies
  <2> QED  BY <1>1, <2>1 DEF Follows
<1>8. WorkerHas(u)'
  <2>1. /\ Starting(u)' <=> Starting(u)
        /\ Stopped(u)' <=> Stopped(u)
        /\ Works(u)' <=> Works(u)
    BY <1>1, <1>u DEF Starting, Stopped, Works, Runs, Live
  <2> QED  BY <1>1, <1>2, <1>6, <1>7, <1>u, <2>1
           DEF CRInv, WorkerHas, StatusToWrite, Follows, Startable, Present
<1>9. RoutineHas(u)'
  BY <1>1, <1>6, <1>u DEF CRInv, RoutineHas, Over, Works, Runs, Live
<1> QED  BY <1>4, <1>5, <1>8, <1>9 DEF CRInv

\* Storing a version keeps the order of the copies, whatever was done before the start,
\* and the goroutines; the worker is left to the steps that store one.
LEMMA StoreKeeps ==
    ASSUME TypeInv, NEW u \in FARs, CRInv(u), NEW obj \in FarObject, StoreFar(u, obj),
           farCache'[u] = farCache[u], SameHistory(u), Advances(u, obj),
           routines'[u] = routines[u],
           \A s \in Slots : Runs(s, u)' => gor'[s] = gor[s],
           Works(u)' => rec' = rec \/ rec'.pc \in {"status", "poll"},
           Startable(obj) => Startable(far[u]) \/ Untouched(u),
           Before(u)' => /\ Before(u)
                         /\ obj.st.processing # "True" /\ obj.st.succeeded # "True"
                         /\ obj.st.fenceAgentActionSucceeded # "True"
    PROVE  Versions(u)' /\ (Before(u) => Untouched(u))' /\ RoutineHas(u)'
<1>1. \A v \in Copies(u) : v.st.fenceAgentActionSucceeded = "True" => ~Startable(obj)
  <2> SUFFICES ASSUME NEW v \in Copies(u), v.st.fenceAgentActionSucceeded = "True"
               PROVE  ~Startable(obj)
    OBVIOUS
  <2>1. ~Untouched(u)
    BY DEF Untouched
  <2>2. Follows(v, far[u])
    BY DEF CRInv, Versions, Copies
  <2> QED  BY <2>1, <2>2 DEF Follows
<1>2. /\ Versions(u)'
      /\ Copies(u)' \subseteq Copies(u) \cup {far'[u]}
      /\ far'[u].rv = far[u].rv + 1 /\ far'[u].st = obj.st /\ far'[u].phase = obj.phase
      /\ far'[u].fin = obj.fin /\ far'[u].del = obj.del /\ far'[u].nhc = obj.nhc
  BY <1>1, StoreFarVersions DEF CRInv
<1>3. \A s \in Slots : Runs(s, u)' => Runs(s, u)
  BY DEF Runs, Live
<1>4. (Before(u) => Untouched(u))'
  BY <1>2, <1>3 DEF CRInv, Untouched, SameHistory
<1>5. NoneStartable(u) /\ ~Untouched(u) => NoneStartable(u)'
  <2>1. Startable(far'[u]) <=> Startable(obj)
    BY <1>2 DEF Startable, Present
  <2>2. far[u] \in Copies(u)
    BY DEF Copies
  <2> QED  BY <1>2, <2>1, <2>2 DEF NoneStartable, Startable, Present, NeedsFencing
<1>6. ASSUME NEW s \in Slots, Runs(s, u)'
      PROVE  /\ routines'[u] = s \/ (routines'[u] = None /\ gor'[s].cancelled /\ Over(u)')
             /\ gor'[s].pc = "put" =>
                  /\ Present(gor'[s].obj) /\ gor'[s].obj.rv <= far'[u].rv
                  /\ gor'[s].obj.rv # far'[u].rv
  <2>0. Runs(s, u) /\ gor'[s] = gor[s]
    BY <1>3, <1>6
  <2>1. ~Untouched(u)
    BY <2>0 DEF Untouched
  <2>2. Over(u) => Over(u)'
    BY <1>5, <2>1 DEF Over, Works
  <2>3. gor[s].pc = "put" => Present(gor[s].obj) /\ gor[s].obj.rv <= far[u].rv
    BY <2>0 DEF CRInv, RoutineHas
  <2>4. gor[s].obj.rv \in Nat /\ far[u].rv \in Nat
    BY CopiesType DEF TypeInv, TypeOK, ExecTypeOK, Goroutine, FarObject
  <2> QED  BY <1>2, <2>0, <2>2, <2>3, <2>4 DEF CRInv, RoutineHas
<1>7. RoutineHas(u)'
  BY <1>2, <1>3, <1>6 DEF CRInv, RoutineHas, Present
<1> QED  BY <1>2, <1>4, <1>7

\* A worker that is busy with the CR while somebody else stores a version has an old one.
LEMMA StoreKeepsWorker ==
    ASSUME TypeInv, NEW u \in FARs, CRInv(u), NEW obj \in FarObject, StoreFar(u, obj),
           farCache'[u] = farCache[u], Advances(u, obj), rec' = rec,
           Startable(obj) => Startable(far[u])
    PROVE  WorkerHas(u)' /\ ~Starting(u)'
<1> USE DEF TypeInv
<1>0. far[u].rv \in Nat /\ rec.far.rv \in Nat /\ far[u] \in Copies(u) /\ rec.far \in FarObject
  BY CopiesType DEF TypeOK, Worker, FarObject, Copies
<1>1. /\ far'[u].rv = far[u].rv + 1 /\ far'[u].st = obj.st /\ far'[u].phase = obj.phase
      /\ far'[u].fin = obj.fin /\ far'[u].del = obj.del /\ far'[u].nhc = obj.nhc
      /\ Copies(u)' \subseteq Copies(u) \cup {far'[u]}
  <2>1. \A v \in Copies(u) : v.st.fenceAgentActionSucceeded = "True" => ~Startable(obj)
    BY DEF CRInv, Versions, Copies, Follows
  <2> QED  BY <2>1, StoreFarVersions DEF CRInv
<1>2. CASE ~Works(u)
  BY <1>2 DEF Works, WorkerHas, Starting
<1>3. CASE Works(u)
  <2>1. rec.far.rv <= far[u].rv
    BY <1>3 DEF CRInv, WorkerHas
  <2>2. rec.far.rv <= far'[u].rv /\ rec.far.rv # far'[u].rv
    BY <1>0, <1>1, <2>1
  <2>3. ASSUME rec.pc \notin {"status", "poll"} PROVE \A w \in Copies(u)' : Follows(rec.far, w)
    <3>1. \A w \in Copies(u) : Follows(rec.far, w)
      BY <1>3, <2>3 DEF CRInv, WorkerHas
    <3>2. rec.far.st.fenceAgentActionSucceeded = "True" => ~Startable(obj)
      BY <1>0, <3>1 DEF Follows
    <3>3. Follows(rec.far, obj)
      BY <1>0, <3>1, <3>2, AdvancesFollows
    <3>4. Follows(rec.far, far'[u])
      BY <1>1, <3>3 DEF Follows, Startable, Present
    <3> QED  BY <1>1, <3>1, <3>4
  <2>4. WorkerHas(u)'
    BY <1>0, <1>3, <2>2, <2>3
       DEF CRInv, WorkerHas, Works, Follows, Startable, Present, NeedsFencing, NeedsEviction
  <2>5. ~Starting(u)'
    BY <1>0, <2>2 DEF Starting
  <2> QED  BY <2>4, <2>5
<1> QED  BY <1>2, <1>3

-----------------------------------------------------------------------------
(***************************************************************************)
(* The steps, one kind after the other.                                    *)
(***************************************************************************)

\* A version that only the environment changes keeps the status it had.
LEMMA ForeignStoreKeeps ==
    ASSUME TypeInv, AgentInv, NEW u \in FARs, NEW obj \in FarObject, StoreFar(u, obj),
           UNCHANGED <<farCache, execVars, rec, evicted>>, Advances(u, obj),
           obj.st = far[u].st, Startable(obj) => Startable(far[u])
    PROVE  AgentInv'
<1>u. UNCHANGED <<routines, gor, agentOk>> /\ CRInv(u)
  BY DEF execVars, AgentInv
<1>1. CRInv(u)'
  <2>1. WorkerHas(u)' /\ ~Starting(u)'
    BY <1>u, StoreKeepsWorker
  <2>2. far'[u].phase = obj.phase /\ far'[u].fin = obj.fin
    BY DEF StoreFar, TypeInv, TypeOK, ClusterTypeOK, FarObject
  <2>3. far[u].phase \in {"absent", "present", "gone"}
    BY CopiesType DEF FarObject
  <2>4. Before(u)' => Before(u)
    BY <2>1, <2>2, <2>3 DEF Before, Advances, Present
  <2>5. Before(u) => /\ far[u].st.processing # "True" /\ far[u].st.succeeded # "True"
                     /\ far[u].st.fenceAgentActionSucceeded # "True"
    BY <1>u DEF CRInv, Untouched, Copies
  <2>6. SameHistory(u) /\ (\A s \in Slots : Runs(s, u)' => gor'[s] = gor[s])
    BY <1>u DEF SameHistory
  <2> QED  BY <1>u, <2>1, <2>4, <2>5, <2>6, StoreKeeps DEF CRInv
<1>2. ASSUME NEW v \in FARs, v # u PROVE CRInv(v)'
  <2>1. SameCopies(v)
    BY <1>2 DEF StoreFar, SameCopies, TypeInv, TypeOK, ClusterTypeOK
  <2>2. SameRoutine(v) /\ SameHistory(v) /\ SameWorker(v) /\ CRInv(v)
    BY <1>u DEF SameRoutine, SameHistory, SameWorker, AgentInv
  <2> QED  BY <2>1, <2>2, CRKept
<1> QED  BY <1>1, <1>2 DEF AgentInv

\* What informers and other actors do.
LEMMA ClusterNextAgent ==
    ASSUME TypeInv, AgentInv, ClusterNext, UNCHANGED <<execVars, rec, evicted>>
    PROVE  AgentInv'
<1>u. UNCHANGED <<routines, gor, agentOk>>
  BY DEF execVars
<1>t. \A u \in FARs : CRInv(u) /\ far[u] \in FarObject
  BY CopiesType DEF AgentInv
<1>k. ASSUME NEW u \in FARs, SameCopies(u) PROVE CRInv(u)'
  BY <1>k, <1>u, <1>t, CRKept DEF SameRoutine, SameHistory, SameWorker
<1>1. ASSUME NEW u \in FARs, DeliverFar(u) PROVE AgentInv'
  <2>1. \A v \in FARs \ {u} : SameCopies(v)
    BY <1>1 DEF DeliverFar, SameCopies, TypeInv, TypeOK, ClusterTypeOK
  <2> QED  BY <1>1, <1>k, <1>t, <2>1, DeliverKeeps DEF AgentInv
<1>2. CASE UNCHANGED <<far, farCache, farPending>>
  BY <1>2, <1>k DEF AgentInv, SameCopies
<1>3. ASSUME NEW u \in FARs, CreateFar(u) PROVE AgentInv'
  <2> DEFINE obj == [NoFar EXCEPT !.phase = "present"]
  <2>1. far[u] = NoFar
    BY <1>3, <1>t DEF CreateFar, CRInv, Versions, Copies
  <2>2. obj \in FarObject /\ obj.st = far[u].st /\ Advances(u, obj) /\ ~Startable(obj)
    BY <2>1, SetConditionsType
       DEF FarObject, Advances, Startable, NeedsFencing, NoFar, NoConditions
  <2> QED  BY <1>3, <2>2, ForeignStoreKeeps DEF CreateFar, nodesAndCaches
<1>4. ASSUME NEW u \in FARs, DeleteFar(u) PROVE AgentInv'
  <2> DEFINE obj == IF far[u].fin THEN [far[u] EXCEPT !.del = TRUE]
                                  ELSE [far[u] EXCEPT !.phase = "gone"]
  <2>1. obj \in FarObject /\ obj.st = far[u].st /\ Advances(u, obj) /\ ~Startable(obj)
    BY <1>4, <1>t DEF DeleteFar, FarObject, Advances, Startable, Present
  <2> QED  BY <1>4, <2>1, ForeignStoreKeeps DEF DeleteFar, nodesAndCaches
<1>5. ASSUME NEW u \in FARs, AnnotateTimedOut(u) PROVE AgentInv'
  <2> DEFINE obj == [far[u] EXCEPT !.nhc = TRUE]
  <2>1. obj \in FarObject /\ obj.st = far[u].st /\ Advances(u, obj) /\ ~Startable(obj)
    BY <1>5, <1>t DEF AnnotateTimedOut, FarObject, Advances, Startable, Present
  <2> QED  BY <1>5, <2>1, ForeignStoreKeeps DEF AnnotateTimedOut, nodesAndCaches
<1>6. ASSUME NEW u \in FARs, EditFar(u) PROVE AgentInv'
  <2>1. Advances(u, far[u])
    BY <1>6 DEF EditFar, Advances, Present
  <2> QED  BY <1>6, <1>t, <2>1, ForeignStoreKeeps DEF EditFar, nodesAndCaches
<1> QED  BY <1>1, <1>2, <1>3, <1>4, <1>5, <1>6
         DEF ClusterNext, Resync, DeliverNode, EditNode, DeleteNode, CreateNode

\* The report of a goroutine leaves nothing to fence.
LEMMA OutcomeNotStartable ==
    ASSUME NEW st \in Status, NEW err
    PROVE  ~NeedsFencing(UpdateConditions(OutcomeReason(err), st))
  BY DEF NeedsFencing, UpdateConditions, OutcomeReason, Requested, Status, AgentSucceeded,
         AgentFailed, AgentTimedOut, FinishedSuccessfully, Started

\* What a step of a goroutine changes.
LEMMA RoutineStepEffect ==
    ASSUME TypeInv, NEW s \in Slots, RoutineStep(s)
    PROVE  /\ gor[s].uid \in FARs /\ Runs(s, gor[s].uid)
           /\ UNCHANGED <<routines, farCache>>
           /\ \A t \in Slots \ {s} : gor'[t] = gor[t]
           /\ \/ gor'[s] = FreeSlot
              \/ gor'[s].uid = gor[s].uid /\ gor'[s].cancelled = gor[s].cancelled
           /\ gor'[s].pc = "put" =>
                /\ Present(farCache[gor[s].uid]) /\ ~gor[s].cancelled
                /\ gor'[s].obj = WithOutcome(farCache[gor[s].uid], gor'[s].cmdErr)
           /\ \A v \in FARs \ {gor[s].uid} : agentOk'[v] = agentOk[v]
           /\ ~PutAccepted(s) => UNCHANGED <<far, farPending>>
<1> USE DEF TypeInv
<1>g. gor \in [Slots -> Goroutine] /\ gor[s] \in Goroutine /\ agentOk \in [FARs -> BOOLEAN]
  BY DEF TypeOK, ExecTypeOK
<1>1. gor[s].pc # "free" /\ gor[s].uid \in FARs
  BY DEF RoutineStep, NextAttempt, CommandSucceeds, CommandFails, CommandInterrupted,
         NextUpdate, GetByUID, PutAccepted, PutConflict, PutFails, Owned
<1>2. \A t \in Slots \ {s} : gor'[t] = gor[t]
  BY <1>g DEF RoutineStep, NextAttempt, CommandSucceeds, CommandFails, CommandInterrupted,
         NextUpdate, GetByUID, PutAccepted, PutConflict, PutFails, BeginUpdate, Goto, Return,
         Becomes
<1>3. UNCHANGED <<routines, farCache>> /\ (~PutAccepted(s) => UNCHANGED <<far, farPending>>)
  BY DEF RoutineStep, NextAttempt, CommandSucceeds, CommandFails, CommandInterrupted,
         NextUpdate, GetByUID, PutAccepted, PutConflict, PutFails, clusterVars
<1>4. \A v \in FARs \ {gor[s].uid} : agentOk'[v] = agentOk[v]
  BY <1>g DEF RoutineStep, NextAttempt, CommandSucceeds, CommandFails, CommandInterrupted,
         NextUpdate, GetByUID, PutAccepted, PutConflict, PutFails
<1> DEFINE Same == gor'[s].uid = gor[s].uid /\ gor'[s].cancelled = gor[s].cancelled
           Put == gor'[s].pc = "put" =>
                    /\ Present(farCache[gor[s].uid]) /\ ~gor[s].cancelled
                    /\ gor'[s].obj = WithOutcome(farCache[gor[s].uid], gor'[s].cmdErr)
<1>r. Return(s) => gor'[s] = FreeSlot /\ Put
  BY <1>g DEF Return, Becomes, FreeSlot
<1>b. \A err : BeginUpdate(s, err) => Same /\ Put
  BY <1>g DEF BeginUpdate, Becomes, Goroutine
<1>o. \A pc : Goto(s, pc) /\ pc # "put" => Same /\ Put
  BY <1>g DEF Goto, Becomes, Goroutine
<1>5. (gor'[s] = FreeSlot \/ Same) /\ Put
  <2>1. CASE NextAttempt(s) \/ CommandSucceeds(s) \/ CommandInterrupted(s) \/ NextUpdate(s)
             \/ PutAccepted(s) \/ PutFails(s)
    BY <1>r, <1>b, <1>o, <2>1
       DEF NextAttempt, CommandSucceeds, CommandInterrupted, NextUpdate, PutAccepted, PutFails
  <2>2. CASE CommandFails(s)
    <3>1. PICK n : gor'[s] = [gor[s] EXCEPT !.pc = "run", !.steps = n, !.cmdErr = "failed"]
      BY <1>g, <2>2 DEF CommandFails, Becomes
    <3> QED  BY <1>g, <3>1 DEF Goroutine
  <2>3. CASE PutConflict(s)
    <3>1. PICK n : gor'[s] = [gor[s] EXCEPT !.pc = "update", !.steps = n, !.obj = NoFar]
      BY <1>g, <2>3 DEF PutConflict, Becomes
    <3> QED  BY <1>g, <3>1 DEF Goroutine
  <2>4. CASE GetByUID(s)
    <3>1. ASSUME gor[s].uid \in Listed, ~gor[s].cancelled,
                 Becomes(s, [gor[s] EXCEPT !.pc = "put",
                               !.obj = WithOutcome(farCache[gor[s].uid], gor[s].cmdErr)])
          PROVE  Same /\ Put
      BY <1>g, <3>1 DEF Becomes, Goroutine, Listed
    <3> QED  BY <1>r, <2>4, <3>1 DEF GetByUID
  <2> QED  BY <2>1, <2>2, <2>3, <2>4 DEF RoutineStep
<1> QED  BY <1>1, <1>2, <1>3, <1>4, <1>5 DEF Runs, Live

\* Whatever a goroutine does keeps the invariant.
LEMMA RoutineStepAgent ==
    ASSUME TypeInv, AgentInv, NEW s \in Slots, RoutineStep(s), UNCHANGED <<rec, evicted>>
    PROVE  AgentInv'
<1>p. PICK u \in FARs : u = gor[s].uid
  BY RoutineStepEffect
<1>u. CRInv(u) /\ Runs(s, u)
  BY <1>p, RoutineStepEffect DEF AgentInv
<1>r. \A t \in Slots, v \in FARs :
         Runs(t, v)' => /\ Runs(t, v) /\ gor'[t].cancelled = gor[t].cancelled
                        /\ gor'[t] = gor[t] \/ (t = s /\ v = u)
  BY <1>p, RoutineStepEffect DEF Runs, Live, FreeSlot
<1>b. ~Before(u)
  BY <1>u DEF CRInv, Untouched
<1>f. /\ far[u] \in FarObject /\ far[u] \in Copies(u) /\ farCache[u] \in FarObject
      /\ farCache[u] \in Copies(u)
  BY <1>u, CopiesType DEF Copies
<1>1. ASSUME UNCHANGED <<far, farPending>> PROVE CRInv(u)'
  <2>0. farCache' = farCache /\ routines' = routines /\ Copies(u)' = Copies(u)
    BY <1>1, RoutineStepEffect DEF Copies
  <2>1. Versions(u)'
    BY <1>1, <1>u, <2>0 DEF CRInv, Versions, Follows, Startable, Present, NeedsFencing
  <2>2. ~Before(u)'
    BY <1>1, <1>b DEF Before, Starting, Present
  <2>3. NoneStartable(u)' <=> NoneStartable(u)
    BY <2>0 DEF NoneStartable, Startable, Present, NeedsFencing
  <2>4. Stopped(u) => Stopped(u)'
    BY <1>r, <1>u, <2>0 DEF Stopped
  <2>5. Starting(u)' <=> Starting(u)
    BY <1>1 DEF Starting
  <2>6. WorkerHas(u)'
    BY <1>1, <1>u, <2>0, <2>3, <2>4, <2>5
       DEF CRInv, WorkerHas, Works, StatusToWrite, Follows, Startable, Present
  <2>7. Over(u) => Over(u)'
    BY <2>3 DEF Over, Works
  <2>8. ASSUME Runs(s, u)', gor'[s].pc = "put"
        PROVE  /\ Present(gor'[s].obj) /\ gor'[s].obj.rv <= far'[u].rv
               /\ gor'[s].obj.rv = far'[u].rv => gor'[s].obj = WithOutcome(far'[u], gor'[s].cmdErr)
    <3>1. Present(farCache[u]) /\ gor'[s].obj = WithOutcome(farCache[u], gor'[s].cmdErr)
      BY <1>p, <2>8, RoutineStepEffect
    <3>2. Present(gor'[s].obj) /\ gor'[s].obj.rv = farCache[u].rv
      BY <1>f, <3>1 DEF WithOutcome, Present, FarObject
    <3>3. farCache[u].rv <= far[u].rv /\ (farCache[u].rv = far[u].rv => farCache[u] = far[u])
      BY <1>u, <1>f DEF CRInv, Versions
    <3> QED  BY <1>1, <3>1, <3>2, <3>3
  <2>9. RoutineHas(u)'
    <3>1. ASSUME NEW t \in Slots, Runs(t, u)'
          PROVE  /\ routines'[u] = t \/ (routines'[u] = None /\ gor'[t].cancelled /\ Over(u)')
                 /\ gor'[t].pc = "put" =>
                      /\ Present(gor'[t].obj) /\ gor'[t].obj.rv <= far'[u].rv
                      /\ gor'[t].obj.rv = far'[u].rv =>
                            gor'[t].obj = WithOutcome(far'[u], gor'[t].cmdErr)
      BY <1>1, <1>r, <1>u, <2>0, <2>7, <2>8, <3>1 DEF CRInv, RoutineHas
    <3>2. \A t1, t2 \in Slots : Runs(t1, u)' /\ Runs(t2, u)' => t1 = t2
      BY <1>r, <1>u DEF CRInv, RoutineHas
    <3> QED  BY <3>1, <3>2 DEF RoutineHas, Present
  <2> QED  BY <2>1, <2>2, <2>6, <2>9 DEF CRInv
<1>2. ASSUME PutAccepted(s), ~UNCHANGED <<far, farPending>> PROVE CRInv(u)'
  <2> DEFINE obj == [far[u] EXCEPT !.st = gor[s].obj.st]
  <2>1. StoreFar(u, obj) /\ gor[s].obj.rv = far[u].rv /\ Present(far[u]) /\ gor[s].pc = "put"
    BY <1>p, <1>2 DEF PutAccepted, StoreFarStatus, FarFresh
  <2>2. gor[s].obj = WithOutcome(far[u], gor[s].cmdErr)
    BY <1>u, <2>1 DEF CRInv, RoutineHas
  <2>3. far[u].st \in Status /\ gor[s].obj.st = UpdateConditions(OutcomeReason(gor[s].cmdErr), far[u].st)
    BY <1>f, <2>2 DEF WithOutcome, FarObject
  <2>4. /\ obj \in FarObject /\ obj.st = gor[s].obj.st /\ obj.phase = "present"
        /\ obj.fin = far[u].fin /\ obj.del = far[u].del /\ obj.nhc = far[u].nhc
    <3>1. gor[s].obj.st \in Status
      BY DEF TypeInv, TypeOK, ExecTypeOK, Goroutine, FarObject
    <3> QED  BY <1>f, <2>1, <3>1 DEF FarObject, Present
  <2>5. Advances(u, obj) /\ ~Startable(obj)
    BY <2>1, <2>3, <2>4, OutcomeNotStartable DEF Advances, Startable, Present
  <2>6. farCache' = farCache /\ routines' = routines /\ agentOk' = agentOk
    BY <1>2 DEF PutAccepted
  <2> HIDE DEF obj
  <2>7. WorkerHas(u)' /\ ~Starting(u)'
    BY <1>u, <2>1, <2>4, <2>5, <2>6, StoreKeepsWorker
  <2>8. far'[u].phase = obj.phase /\ far'[u].fin = obj.fin
    BY <1>u, <2>1, <2>4 DEF StoreFar, TypeInv, TypeOK, ClusterTypeOK, FarObject
  <2>9. ~Before(u)'
    BY <1>b, <2>1, <2>4, <2>7, <2>8 DEF Before, Present
  <2>10. \A t \in Slots : Runs(t, u)' => gor'[t] = gor[t]
    <3>1. gor'[s] = FreeSlot
      BY <1>2 DEF PutAccepted, Return, Becomes, TypeInv, TypeOK, ExecTypeOK
    <3> QED  BY <3>1, RoutineStepEffect DEF Runs, Live, FreeSlot
  <2>11. Versions(u)' /\ (Before(u) => Untouched(u))' /\ RoutineHas(u)'
    BY <1>u, <2>1, <2>4, <2>5, <2>6, <2>9, <2>10, StoreKeeps DEF SameHistory
  <2> QED  BY <2>7, <2>11 DEF CRInv
<1>3. ASSUME NEW v \in FARs, v # u PROVE CRInv(v)'
  <2>1. SameCopies(v)
    <3>1. CASE PutAccepted(s)
      BY <1>p, <1>3, <3>1 DEF PutAccepted, StoreFarStatus, StoreFar, SameCopies, TypeInv,
                              TypeOK, ClusterTypeOK
    <3>2. CASE ~PutAccepted(s)
      BY <3>2, RoutineStepEffect DEF SameCopies
    <3> QED  BY <3>1, <3>2
  <2>2. SameRoutine(v)
    BY <1>p, <1>3, <1>r, RoutineStepEffect DEF SameRoutine, Runs
  <2>3. SameHistory(v) /\ SameWorker(v) /\ CRInv(v)
    BY <1>p, <1>3, RoutineStepEffect DEF SameHistory, SameWorker, AgentInv
  <2> QED  BY <2>1, <2>2, <2>3, CRKept
<1> QED  BY <1>p, <1>1, <1>2, <1>3, RoutineStepEffect DEF AgentInv

\* Remove forgets the CR's goroutine and cancels it, and touches nobody else's.
LEMMA RemoveEffect ==
    ASSUME TypeInv, NEW u \in FARs, RoutineHas(u), Remove(u)
    PROVE  /\ routines'[u] = None /\ \A v \in FARs \ {u} : routines'[v] = routines[v]
           /\ \A s \in Slots : /\ gor'[s].pc = gor[s].pc /\ gor'[s].uid = gor[s].uid
                               /\ gor'[s].obj = gor[s].obj /\ gor'[s].cmdErr = gor[s].cmdErr
                               /\ gor'[s] = gor[s] \/ gor[s].uid = u
                               /\ Runs(s, u) => gor'[s].cancelled
           /\ Stopped(u)'
<1>g. /\ gor \in [Slots -> Goroutine] /\ routines \in [FARs -> Slots \cup {None}]
      /\ None \notin Slots
  BY ExecuterAssumption DEF TypeInv, TypeOK, ExecTypeOK
<1>1. routines'[u] = None /\ \A v \in FARs \ {u} : routines'[v] = routines[v]
  BY <1>g DEF Remove, Exists
<1>2. ASSUME NEW s \in Slots
      PROVE  /\ gor'[s].pc = gor[s].pc /\ gor'[s].uid = gor[s].uid
             /\ gor'[s].obj = gor[s].obj /\ gor'[s].cmdErr = gor[s].cmdErr
             /\ gor'[s] = gor[s] \/ gor[s].uid = u
             /\ Runs(s, u) => gor'[s].cancelled
  <2>0. gor[s] \in Goroutine
    BY <1>g
  <2>1. CASE Exists(u)
    <3>1. gor'[s] = IF s = routines[u] /\ gor[s].uid = u
                       THEN [gor[s] EXCEPT !.cancelled = TRUE] ELSE gor[s]
      BY <2>1 DEF Remove
    <3>2. Runs(s, u) => s = routines[u] /\ gor[s].uid = u
      BY <2>1 DEF RoutineHas, Runs, Exists
    <3> QED  BY <2>0, <3>1, <3>2 DEF Goroutine
  <2>2. CASE ~Exists(u)
    BY <1>g, <2>2 DEF Remove, Exists, RoutineHas
  <2> QED  BY <2>1, <2>2
<1> QED  BY <1>1, <1>2 DEF Stopped, Runs, Live

\* After a restart there are no goroutines, and one version of each CR.
LEMMA RestartAgent == ASSUME TypeInv, AgentInv, Restart PROVE AgentInv'
<1> SUFFICES ASSUME NEW u \in FARs PROVE CRInv(u)'
  BY DEF AgentInv
<1>0. CRInv(u) /\ Copies(u)' = {far[u]} /\ far[u] \in Copies(u) /\ far[u].rv \in Nat
  BY CopiesType DEF AgentInv, Restart, Copies, FarObject
<1>1. ~Works(u)' /\ ~Starting(u)' /\ (\A s \in Slots : ~Runs(s, u)') /\ routines'[u] = None
  BY DEF Restart, Idle, Works, Starting, Runs, Live, FreeSlot
<1>2. Versions(u)'
  BY <1>0 DEF Restart, CRInv, Versions, Follows, Startable, Present, NeedsFencing
<1>3. (Before(u) => Untouched(u))'
  BY <1>0, <1>1 DEF Restart, CRInv, Before, Untouched, Present
<1> QED  BY <1>1, <1>2, <1>3 DEF CRInv, WorkerHas, RoutineHas

\* What the reasons a reconcile begins with leave of the conditions.
LEMMA FailureEffect ==
    ASSUME NEW st \in Status, NEW reason \in {NodeNotFound, InterruptedByNHC}
    PROVE  LET new == UpdateConditions(reason, st)
           IN  /\ new.processing = "False" /\ new.fenceAgentActionSucceeded = "False"
               /\ new.succeeded = "False"
               /\ new = st \/ new.why = reason
  BY DEF UpdateConditions, Requested, Status, NodeNotFound, InterruptedByNHC, Started,
         AgentSucceeded, FinishedSuccessfully

\* A reconcile begins with the cached version.
LEMMA ReconcileAgent ==
    ASSUME TypeInv, AgentInv, NEW u \in FARs, Reconcile(u)
    PROVE  AgentInv'
<1> DEFINE o == farCache[u]
<1>i. rec.pc = "idle" /\ UNCHANGED <<far, farCache, farPending, agentOk, evicted>>
  BY DEF Reconcile, ReconcileNotFound, ReconcileDeletionPanic, ReconcileDeletion, Reconciles,
         ReconcileTimedOutByNHC, ReconcileNodeNotFound, ReconcileRemediation, allButRecAndQueue
<1>r. Remove(u) \/ UNCHANGED <<routines, gor>>
  BY DEF Reconcile, ReconcileNotFound, ReconcileDeletionPanic, ReconcileDeletion,
         ReconcileTimedOutByNHC, ReconcileNodeNotFound, ReconcileRemediation
<1>u. CRInv(u) /\ o \in FarObject /\ o.st \in Status /\ o \in Copies(u) /\ far[u] \in Copies(u)
  BY CopiesType DEF AgentInv, Copies, FarObject
<1>c. Copies(u)' = Copies(u)
  BY <1>i DEF Copies
<1>w. rec' = rec \/ rec'.uid = u
  BY DEF Reconcile, ReconcileNotFound, ReconcileDeletionPanic, ReconcileDeletion, Begin,
         ReconcileTimedOutByNHC, ReconcileNodeNotFound, ReconcileRemediation
<1>g. \A s \in Slots : /\ gor'[s].pc = gor[s].pc /\ gor'[s].uid = gor[s].uid
                       /\ gor'[s].obj = gor[s].obj /\ gor'[s].cmdErr = gor[s].cmdErr
                       /\ gor[s].cancelled => gor'[s].cancelled
                       /\ gor'[s] = gor[s] \/ gor[s].uid = u
  <2>1. CASE UNCHANGED gor
    BY <2>1
  <2>2. ASSUME Remove(u), NEW s \in Slots, gor[s].cancelled PROVE gor'[s].cancelled
    BY <2>2 DEF Remove, TypeInv, TypeOK, ExecTypeOK, Goroutine
  <2> QED  BY <1>r, <1>u, <2>1, <2>2, RemoveEffect DEF CRInv
<1>v. \A s \in Slots : Runs(s, u)' <=> Runs(s, u)
  BY <1>g DEF Runs, Live
<1>o. ASSUME NEW v \in FARs, v # u PROVE CRInv(v)'
  <2>1. SameRoutine(v)
    BY <1>g, <1>o, <1>r, <1>u, RemoveEffect DEF SameRoutine, Runs, CRInv
  <2>2. SameCopies(v) /\ SameHistory(v) /\ SameWorker(v) /\ CRInv(v)
    BY <1>i, <1>o, <1>w DEF SameCopies, SameHistory, SameWorker, Works, AgentInv
  <2> QED  BY <2>1, <2>2, CRKept
\* The worker's new version, and no new start.
<1>1. Versions(u)'
  BY <1>c, <1>i, <1>u DEF CRInv, Versions, Follows, Startable, Present, NeedsFencing
<1>f. \A w \in Copies(u) : Follows(o, w)
  BY <1>u DEF CRInv, Versions
<1>l. o.rv <= far[u].rv /\ (o.rv = far[u].rv => o = far[u])
  BY <1>u DEF CRInv, Versions
<1>n. /\ NoneStartable(u)' <=> NoneStartable(u)
      /\ o.del => NoneStartable(u)
      /\ o.nhc => NoneStartable(u)
      /\ Present(o) /\ ~o.del /\ ~o.nhc /\ NoneStartable(u) => ~NeedsFencing(o.st)
  BY <1>c, <1>f, <1>u DEF NoneStartable, Startable, Present, NeedsFencing, Follows
<1>2. /\ WorkerHas(u)' /\ ~Starting(u)'
      /\ Over(u) \/ (Remove(u) /\ NoneStartable(u)) => Over(u)'
  <2>1. CASE ReconcileNotFound(u)
    BY <1>i, <1>n, <2>1 DEF ReconcileNotFound, WorkerHas, Works, Starting, Over
  <2>2. CASE ReconcileTimedOutByNHC(u) \/ ReconcileNodeNotFound(u)
    <3>1. PICK reason \in {NodeNotFound, InterruptedByNHC} :
             /\ rec' = [pc |-> "status", uid |-> u, far |-> SetConditions(reason, o), res |-> "done"]
             /\ Present(o) /\ ~o.del
             /\ reason = InterruptedByNHC => o.nhc /\ Remove(u)
             /\ reason = NodeNotFound => ~o.nhc
      BY <2>2 DEF ReconcileTimedOutByNHC, ReconcileNodeNotFound, Begin, Remediable,
                  isTimedOutByNHC, NodeNotFound, InterruptedByNHC
    <3>0. PICK new : new = SetConditions(reason, o)
      OBVIOUS
    <3>2. /\ new.st = UpdateConditions(reason, o.st) /\ new.phase = o.phase /\ new.rv = o.rv
          /\ new.fin = o.fin /\ new.del = o.del /\ new.nhc = o.nhc
      BY <1>u, <3>0 DEF SetConditions, FarObject
    <3>3. new.st.processing = "False"
      BY <1>u, <3>2, FailureEffect
    <3>4. rec'.pc = "status" /\ rec'.uid = u /\ rec'.far = new
      BY <3>0, <3>1
    <3>5. ~Starting(u)'
      BY <3>3, <3>4 DEF Starting
    <3>6. reason = InterruptedByNHC => Stopped(u)'
      BY <1>u, <3>1, RemoveEffect DEF CRInv
    <3>7. far[u].rv = new.rv => StatusToWrite(u, new, far[u])'
      BY <1>i, <1>l, <3>1, <3>2, <3>6 DEF StatusToWrite
    <3>8. WorkerHas(u)'
      BY <1>i, <1>l, <3>1, <3>2, <3>4, <3>7 DEF WorkerHas, Present
    <3> QED  BY <1>n, <3>4, <3>5, <3>8 DEF Over
  <2>3. CASE ReconcileDeletionPanic(u) \/ ReconcileDeletion(u) \/ ReconcileRemediation(u)
    <3>1. /\ rec'.uid = u /\ rec'.far = o /\ Present(o)
          /\ \/ rec'.pc = "status"
             \/ rec'.pc \in {"removeOOS", "removeTaint", "removeFinalizer"} /\ o.del
             \/ /\ rec'.pc = IF o.fin THEN "addTaint" ELSE "addFinalizer"
                /\ ~o.del /\ ~o.nhc /\ UNCHANGED routines
      BY <2>3 DEF ReconcileDeletionPanic, ReconcileDeletion, ReconcileRemediation, Begin,
                  Remediable, isTimedOutByNHC
    <3>2. far[u].rv = o.rv => StatusToWrite(u, o, far[u])'
      BY <1>l, <1>i DEF StatusToWrite
    <3>3. ~Starting(u)'
      BY <1>i, <1>l, <3>1 DEF Starting
    <3>4. \A w \in Copies(u)' : Follows(o, w)
      BY <1>c, <1>f
    <3>5. WorkerHas(u)'
      BY <1>i, <1>l, <3>1, <3>2, <3>4 DEF WorkerHas, Present, Follows, Startable
    <3>6. NoneStartable(u) => Over(u)'
      BY <1>n, <3>1 DEF Over, Works
    <3> QED  BY <3>3, <3>5, <3>6 DEF Over
  <2> QED  BY <2>1, <2>2, <2>3 DEF Reconcile
<1>3. (Before(u) => Untouched(u))'
  <2>1. Before(u)' => Before(u)
    BY <1>2, <1>i DEF Before, Present
  <2>2. routines[u] = None => routines'[u] = None
    BY <1>r, <1>u, RemoveEffect DEF CRInv
  <2> QED  BY <1>c, <1>i, <1>u, <1>v, <2>1, <2>2 DEF CRInv, Untouched
<1>4. RoutineHas(u)'
  <2>1. Remove(u) => UNCHANGED <<routines, gor>> \/ NoneStartable(u)
    <3>1. CASE ReconcileDeletion(u) \/ ReconcileTimedOutByNHC(u)
      BY <1>n, <3>1 DEF ReconcileDeletion, ReconcileTimedOutByNHC, isTimedOutByNHC
    <3> QED  BY <3>1 DEF Reconcile, ReconcileNotFound, ReconcileDeletionPanic,
                ReconcileNodeNotFound, ReconcileRemediation
  <2>2. ASSUME NEW s \in Slots, Runs(s, u)'
        PROVE  routines'[u] = s \/ (routines'[u] = None /\ gor'[s].cancelled /\ Over(u)')
    <3>1. CASE UNCHANGED <<routines, gor>>
      BY <1>2, <1>u, <1>v, <2>2, <3>1 DEF CRInv, RoutineHas
    <3>2. CASE Remove(u) /\ NoneStartable(u)
      BY <1>2, <1>u, <1>v, <2>2, <3>2, RemoveEffect DEF CRInv
    <3> QED  BY <1>r, <2>1, <3>1, <3>2
  <2> QED  BY <1>g, <1>i, <1>u, <1>v, <2>2 DEF CRInv, RoutineHas, Present
<1> QED  BY <1>o, <1>1, <1>2, <1>3, <1>4 DEF AgentInv, CRInv

\* A step of the worker that neither writes the CR nor touches its goroutine.
LEMMA WorkerMoves ==
    ASSUME TypeInv, NEW u \in FARs, CRInv(u), SameCopies(u), SameHistory(u),
           UNCHANGED <<routines, gor>>, WorkerHas(u)', ~Starting(u)', Over(u) => Over(u)'
    PROVE  CRInv(u)'
<1>c. Copies(u)' = Copies(u) /\ far'[u] = far[u] /\ farCache'[u] = farCache[u]
  BY DEF SameCopies, Copies
<1>1. Versions(u)'
  BY <1>c DEF CRInv, Versions, Follows, Startable, Present, NeedsFencing
<1>2. (Before(u) => Untouched(u))'
  BY <1>c DEF CRInv, Before, Untouched, SameHistory, Present, Runs, Live
<1>3. RoutineHas(u)'
  BY <1>c DEF CRInv, RoutineHas, Runs, Live
<1> QED  BY <1>1, <1>2, <1>3 DEF CRInv

\* While it is on its way to the fence agent or past it, the CR has started.
LEMMA HasStarted ==
    ASSUME NEW u \in FARs, CRInv(u), Works(u), rec.pc \in {"addTaint", "execute", "evict"}
    PROVE  far[u].phase # "absent" /\ (Present(far[u]) => far[u].fin)
<1>1. Follows(rec.far, far[u]) /\ rec.far.fin /\ Present(rec.far)
  BY DEF CRInv, WorkerHas, Copies
<1> QED  BY <1>1 DEF Follows, Present

\* Returning to the deferred updateStatus with the CR as it was read.
LEMMA ReturnKeeps ==
    ASSUME TypeInv, NEW u \in FARs, CRInv(u), Works(u), rec.pc \notin {"status", "poll"},
           SameCopies(u), SameHistory(u), UNCHANGED <<routines, gor>>,
           rec'.pc = "status", rec'.uid = u, rec'.far.rv = rec.far.rv, rec'.far.st = rec.far.st,
           rec'.far.phase = rec.far.phase, rec'.far.del = rec.far.del, rec'.far.nhc = rec.far.nhc
    PROVE  CRInv(u)'
<1>c. Copies(u)' = Copies(u) /\ far'[u] = far[u] /\ farCache'[u] = farCache[u]
  BY DEF SameCopies, Copies
<1>1. /\ Present(rec.far) /\ rec.far.rv <= far[u].rv
      /\ rec.far.rv = far[u].rv => rec.far = far[u]
  BY DEF CRInv, WorkerHas
<1>2. ~Starting(u)'
  BY <1>1, <1>c DEF Starting
<1>3. rec'.far.rv = far'[u].rv => StatusToWrite(u, rec.far, far[u])'
  BY <1>1, <1>c DEF StatusToWrite
<1>4. WorkerHas(u)'
  BY <1>1, <1>3, <1>c DEF WorkerHas, StatusToWrite, Present
<1>5. Over(u) => Over(u)'
  BY <1>c DEF Over, NoneStartable, Startable, Present, NeedsFencing
<1> QED  BY <1>2, <1>4, <1>5, WorkerMoves

\* Ending the request.
LEMMA IdleKeeps ==
    ASSUME TypeInv, NEW u \in FARs, CRInv(u), SameCopies(u), SameHistory(u),
           UNCHANGED <<routines, gor>>, rec' = Idle
    PROVE  CRInv(u)'
<1>1. ~Works(u)' /\ ~Starting(u)'
  BY DEF Works, Starting, Idle
<1>2. Over(u) => Over(u)'
  BY <1>1 DEF Over, NoneStartable, Startable, Present, NeedsFencing, SameCopies, Copies
<1> QED  BY <1>1, <1>2, WorkerMoves DEF WorkerHas

\* Starting the fence agent: no other goroutine of the CR is left.
LEMMA AsyncExecuteKeeps ==
    ASSUME TypeInv, NEW u \in FARs, CRInv(u), Works(u), rec.pc = "execute",
           ~Exists(u), AsyncExecute(u), SameCopies(u), SameHistory(u),
           rec'.pc = "status", rec'.uid = u, rec'.far = rec.far
    PROVE  CRInv(u)'
<1>g. gor \in [Slots -> Goroutine] /\ routines \in [FARs -> Slots \cup {None}]
  BY DEF TypeInv, TypeOK, ExecTypeOK
<1>c. Copies(u)' = Copies(u) /\ far'[u] = far[u] /\ farCache'[u] = farCache[u]
  BY DEF SameCopies, Copies
<1>1. \A t \in Slots : ~Runs(t, u)
  BY ExecuterAssumption DEF CRInv, RoutineHas, Exists, Over
<1>2. PICK s \in Slots : /\ routines'[u] = s
                         /\ gor'[s].pc = "run"
                         /\ \A t \in Slots \ {s} : gor'[t] = gor[t]
  BY <1>g DEF AsyncExecute, FreeSlot
<1>3. \A t \in Slots : Runs(t, u)' => t = s
  BY <1>1, <1>2 DEF Runs, Live
<1>4. /\ Present(rec.far) /\ rec.far.rv <= far[u].rv
      /\ rec.far.rv = far[u].rv => rec.far = far[u]
  BY DEF CRInv, WorkerHas
<1>5. ~Starting(u)'
  BY <1>c, <1>4 DEF Starting
<1>6. ~Before(u)'
  BY <1>c, <1>5, HasStarted DEF Before, Present
<1>7. Versions(u)'
  BY <1>c DEF CRInv, Versions, Follows, Startable, Present, NeedsFencing
<1>8. WorkerHas(u)'
  BY <1>c, <1>4 DEF WorkerHas, StatusToWrite, Present
<1>9. RoutineHas(u)'
  BY <1>2, <1>3 DEF RoutineHas
<1> QED  BY <1>6, <1>7, <1>8, <1>9 DEF CRInv

\* The end of a remediation, after the workloads were removed.
LEMMA FinishKeeps ==
    ASSUME TypeInv, NEW u \in FARs, CRInv(u), Works(u), rec.pc = "evict",
           SameCopies(u), FinishRemediation
    PROVE  CRInv(u)'
<1>u. u = rec.uid
  BY DEF Works
<1>c. Copies(u)' = Copies(u) /\ far'[u] = far[u] /\ farCache'[u] = farCache[u]
  BY DEF SameCopies, Copies
<1>1. /\ Present(rec.far) /\ rec.far.rv <= far[u].rv /\ NeedsEviction(rec.far.st)
      /\ rec.far.rv = far[u].rv => rec.far = far[u]
      /\ \A w \in Copies(u) : Follows(rec.far, w)
  BY DEF CRInv, WorkerHas
<1>2. NoneStartable(u)
  BY <1>1 DEF NeedsEviction, NoneStartable, Follows
<1>3. PICK new : new = SetConditions(FinishedSuccessfully, rec.far)
  OBVIOUS
<1>4. /\ new.st = UpdateConditions(FinishedSuccessfully, rec.far.st) /\ new.phase = rec.far.phase
      /\ new.rv = rec.far.rv /\ new.del = rec.far.del /\ new.nhc = rec.far.nhc
      /\ new.st.processing = "False"
  <2>1. rec.far \in FarObject /\ rec.far.st \in Status
    BY DEF TypeInv, TypeOK, Worker, FarObject
  <2>2. new.st = UpdateConditions(FinishedSuccessfully, rec.far.st)
    BY <1>3, <2>1 DEF SetConditions, FarObject
  <2> QED  BY <1>3, <2>1, <2>2, UpdateConditionsEffect DEF SetConditions, FarObject
<1>5. rec'.pc = "status" /\ rec'.uid = u /\ rec'.far = new
  BY <1>3, <1>u DEF FinishRemediation, TypeInv, TypeOK, Worker
<1>6. ~Starting(u)'
  BY <1>4, <1>5 DEF Starting
<1>7. ~Before(u)'
  BY <1>c, <1>6, HasStarted DEF Before, Present
<1>8. NoneStartable(u)' /\ Over(u)'
  BY <1>2, <1>5, <1>c DEF Over, NoneStartable, Startable, Present, NeedsFencing
<1>9. Versions(u)'
  BY <1>c DEF CRInv, Versions, Follows, Startable, Present, NeedsFencing
<1>10. WorkerHas(u)'
  BY <1>1, <1>4, <1>5, <1>8, <1>c DEF WorkerHas, StatusToWrite, Present
<1>11. RoutineHas(u)'
  <2>1. Remove(u) /\ RoutineHas(u)
    BY <1>u DEF FinishRemediation, CRInv
  <2>2. \A s \in Slots : Runs(s, u)' <=> Runs(s, u)
    BY <2>1, RemoveEffect DEF Runs, Live
  <2> QED  BY <1>8, <1>c, <2>1, <2>2, RemoveEffect DEF RoutineHas, Present
<1> QED  BY <1>7, <1>9, <1>10, <1>11 DEF CRInv

\* The conditions of a remediation that starts.
LEMMA StartedEffect ==
    ASSUME NEW st \in Status
    PROVE  LET new == UpdateConditions(Started, st)
           IN  /\ new.processing = "True" /\ new.fenceAgentActionSucceeded = "Unknown"
               /\ new.succeeded = "Unknown"
               /\ new = st \/ new.why = Started
<1>1. Requested(Started, st) = [st EXCEPT !.processing = "True",
                                  !.fenceAgentActionSucceeded = "Unknown",
                                  !.succeeded = "Unknown"]
  BY DEF Requested, Started, AgentSucceeded, FinishedSuccessfully
<1> QED  BY <1>1 DEF UpdateConditions, Status

\* The finalizer is added to a CR for which nothing has been done.
LEMMA AddFinalizerKeeps ==
    ASSUME TypeInv, NEW u \in FARs, CRInv(u), Works(u), rec.pc = "addFinalizer",
           FarFresh(u, rec.far), StoreFar(u, [rec.far EXCEPT !.fin = TRUE]),
           farCache'[u] = farCache[u], SameHistory(u), UNCHANGED <<routines, gor>>,
           rec'.pc = "status", rec'.uid = u,
           \/ rec'.far = SetConditions(Started, far'[u])
           \/ rec'.far = [rec.far EXCEPT !.fin = TRUE]
    PROVE  CRInv(u)'
<1>1. PICK obj : obj = [rec.far EXCEPT !.fin = TRUE]
  OBVIOUS
<1>2. /\ rec.far = far[u] /\ ~rec.far.fin /\ Present(rec.far) /\ ~rec.far.nhc /\ ~rec.far.del
      /\ rec.far \in FarObject /\ rec.far.rv \in Nat
  BY DEF CRInv, WorkerHas, FarFresh, TypeInv, TypeOK, Worker, FarObject
<1>3. /\ obj \in FarObject /\ obj.fin /\ obj.phase = rec.far.phase /\ obj.del = rec.far.del
      /\ obj.nhc = rec.far.nhc /\ obj.st = rec.far.st /\ obj.rv = rec.far.rv
  BY <1>1, <1>2 DEF FarObject
<1>4. Before(u) /\ Untouched(u)
  BY <1>2 DEF Before, CRInv
<1>5. /\ obj.st.processing # "True" /\ obj.st.succeeded # "True"
      /\ obj.st.fenceAgentActionSucceeded # "True"
  BY <1>2, <1>3, <1>4 DEF Untouched, Copies
<1>6. Advances(u, obj)
  BY <1>2, <1>3 DEF Advances, Present
<1>7. Versions(u)' /\ (Before(u) => Untouched(u))' /\ RoutineHas(u)'
  BY <1>1, <1>3, <1>4, <1>5, <1>6, StoreKeeps
<1>8. /\ far'[u] \in FarObject /\ far'[u].rv = rec.far.rv + 1 /\ far'[u].st = obj.st
      /\ far'[u].phase = "present" /\ far'[u].fin /\ far'[u].del = obj.del
      /\ far'[u].nhc = obj.nhc
  <2>1. far'[u] = [obj EXCEPT !.rv = rec.far.rv + 1]
    BY <1>1, <1>2 DEF StoreFar, TypeInv, TypeOK, ClusterTypeOK
  <2> QED  BY <1>2, <1>3, <2>1 DEF FarObject, Present
<1>9. CASE rec'.far = SetConditions(Started, far'[u])
  <2>1. /\ rec'.far.st = UpdateConditions(Started, far'[u].st) /\ rec'.far.rv = far'[u].rv
        /\ rec'.far.phase = "present" /\ rec'.far.del = far'[u].del
        /\ rec'.far.nhc = far'[u].nhc
    BY <1>8, <1>9 DEF SetConditions, FarObject
  <2>2. rec'.far.st.processing = "True"
    BY <1>8, <2>1, StartedEffect DEF FarObject
  <2>3. Starting(u)'
    BY <1>5, <1>8, <2>1, <2>2 DEF Starting
  <2>4. StatusToWrite(u, rec.far, far[u])'
    BY <1>2, <1>3, <1>8, <2>1, <2>3 DEF StatusToWrite
  <2>5. rec'.far.rv <= far'[u].rv
    BY <1>2, <1>8, <2>1
  <2> QED  BY <1>7, <2>1, <2>4, <2>5 DEF CRInv, WorkerHas, Present
<1>10. CASE rec'.far = obj
  <2>1. rec'.far.rv <= far'[u].rv /\ rec'.far.rv # far'[u].rv
    BY <1>2, <1>3, <1>8, <1>10
  <2> QED  BY <1>2, <1>3, <1>7, <1>10, <2>1 DEF CRInv, WorkerHas, Present
<1> QED  BY <1>1, <1>9, <1>10

\* Once its finalizer is removed the CR is gone.
LEMMA RemoveFinalizerKeeps ==
    ASSUME TypeInv, NEW u \in FARs, CRInv(u), Works(u), rec.pc = "removeFinalizer",
           FarFresh(u, rec.far),
           StoreFar(u, [rec.far EXCEPT !.phase = "gone", !.fin = FALSE]),
           farCache'[u] = farCache[u], SameHistory(u), UNCHANGED <<routines, gor>>, rec' = Idle
    PROVE  CRInv(u)'
<1>1. PICK obj : obj = [rec.far EXCEPT !.phase = "gone", !.fin = FALSE]
  OBVIOUS
<1>2. rec.far = far[u] /\ Present(rec.far) /\ rec.far \in FarObject
  BY DEF CRInv, WorkerHas, FarFresh, TypeInv, TypeOK, Worker
<1>3. /\ obj \in FarObject /\ obj.phase = "gone" /\ obj.del = far[u].del /\ obj.nhc = far[u].nhc
  BY <1>1, <1>2 DEF FarObject
<1>4. ~Works(u)' /\ ~Starting(u)'
  BY DEF Works, Starting, Idle
<1>5. far'[u].phase = "gone"
  BY <1>1, <1>3 DEF StoreFar, TypeInv, TypeOK, ClusterTypeOK, FarObject
<1>6. ~Before(u)'
  BY <1>4, <1>5 DEF Before, Present
<1>7. Advances(u, obj) /\ ~Startable(obj)
  BY <1>2, <1>3 DEF Advances, Present, Startable
<1>8. Versions(u)' /\ (Before(u) => Untouched(u))' /\ RoutineHas(u)'
  BY <1>1, <1>3, <1>4, <1>6, <1>7, StoreKeeps
<1> QED  BY <1>4, <1>8 DEF CRInv, WorkerHas

\* What updateStatus writes keeps the order, and starts nothing twice.
LEMMA UpdateStatusKeeps ==
    ASSUME TypeInv, NEW u \in FARs, CRInv(u), Works(u), rec.pc = "status",
           FarFresh(u, rec.far), StoreFarStatus(u, rec.far.st),
           farCache'[u] = farCache[u], SameHistory(u), UNCHANGED <<routines, gor>>,
           rec' = Idle \/ (rec'.pc = "poll" /\ rec'.uid = u /\ rec'.far = far'[u])
    PROVE  CRInv(u)'
<1>f. /\ far[u] \in FarObject /\ far[u].st \in Status /\ Present(far[u]) /\ far[u] \in Copies(u)
      /\ far[u].phase = "present" /\ far[u].rv \in Nat
  BY CopiesType DEF FarObject, FarFresh, Copies, Present
<1>s. StatusToWrite(u, rec.far, far[u])
  BY DEF CRInv, WorkerHas, FarFresh
<1>n. ~Starting(u)'
  BY DEF Starting, Idle
<1>1. CASE rec.far.st = far[u].st
  <2>1. SameCopies(u)
    BY <1>1 DEF StoreFarStatus, SameCopies
  <2>2. WorkerHas(u)'
    BY <1>f, <2>1 DEF WorkerHas, Works, Idle, SameCopies, Present
  <2>3. Over(u) => Over(u)'
    BY <2>1 DEF Over, Works, Idle, NoneStartable, Startable, Present, NeedsFencing, SameCopies,
                Copies
  <2> QED  BY <1>n, <2>1, <2>2, <2>3, WorkerMoves
<1>2. CASE rec.far.st # far[u].st
  <2>1. PICK obj : obj = [far[u] EXCEPT !.st = rec.far.st]
    OBVIOUS
  <2>2. StoreFar(u, obj)
    BY <1>2, <2>1 DEF StoreFarStatus
  <2>3. /\ obj \in FarObject /\ obj.st = rec.far.st /\ obj.phase = "present"
        /\ obj.fin = far[u].fin /\ obj.del = far[u].del /\ obj.nhc = far[u].nhc
    <3>1. rec.far.st \in Status
      BY DEF TypeInv, TypeOK, Worker, FarObject
    <3> QED  BY <1>f, <2>1, <3>1 DEF FarObject
  <2>4. /\ far'[u].phase = "present" /\ far'[u].fin = far[u].fin /\ far'[u].rv = far[u].rv + 1
    BY <1>f, <2>2, <2>3 DEF StoreFar, TypeInv, TypeOK, ClusterTypeOK, FarObject
  <2>5. Before(u)' => Before(u) /\ ~far[u].fin
    BY <1>n, <1>f, <2>4 DEF Before, Present
  <2>6. Before(u) => Untouched(u)
    BY DEF CRInv
  <2>7. Advances(u, obj)
    BY <1>f, <2>3 DEF Advances
  <2> DEFINE Harmless == /\ obj.st.processing # "True" /\ obj.st.succeeded # "True"
                         /\ obj.st.fenceAgentActionSucceeded # "True"
  <2>8. (Startable(obj) => Untouched(u)) /\ (Before(u)' => Harmless)
    <3>1. CASE /\ rec.far.st = UpdateConditions(Started, far[u].st)
               /\ Starting(u) /\ far[u].fin
      BY <2>5, <2>6, <3>1 DEF Before
    <3>2. CASE \/ rec.far.st = UpdateConditions(NodeNotFound, far[u].st)
               \/ rec.far.st = UpdateConditions(InterruptedByNHC, far[u].st)
      BY <1>f, <2>3, <3>2, FailureEffect DEF Startable, NeedsFencing
    <3>3. CASE /\ rec.far.st = UpdateConditions(FinishedSuccessfully, far[u].st)
               /\ NeedsEviction(far[u].st)
      <4>1. ~Untouched(u)
        BY <1>f, <3>3 DEF Untouched, NeedsEviction
      <4>2. rec.far.st.processing = "False"
        BY <1>f, <3>3, UpdateConditionsEffect
      <4> QED  BY <2>3, <2>5, <2>6, <4>1, <4>2 DEF Startable, NeedsFencing
    <3> QED  BY <1>s, <1>2, <3>1, <3>2, <3>3 DEF StatusToWrite
  <2>9. Versions(u)' /\ (Before(u) => Untouched(u))' /\ RoutineHas(u)'
    <3>1. Works(u)' => rec'.pc \in {"status", "poll"}
      BY DEF Works, Idle
    <3> QED  BY <2>2, <2>3, <2>5, <2>7, <2>8, <3>1, StoreKeeps
  <2>10. WorkerHas(u)'
    BY <1>f, <2>4 DEF WorkerHas, Works, Idle, Present
  <2> QED  BY <2>9, <2>10 DEF CRInv
<1> QED  BY <1>1, <1>2

\* A step of the worker concerns the CR it is busy with.
LEMMA WorkerStepOthers ==
    ASSUME TypeInv, AgentInv, WorkerStep, NEW v \in FARs, v # rec.uid
    PROVE  SameCopies(v) /\ SameRoutine(v) /\ SameHistory(v) /\ SameWorker(v)
<1>w. rec \in Worker /\ ~Works(v)
  BY DEF TypeInv, TypeOK, Works
<1>u. rec.uid \in FARs /\ RoutineHas(rec.uid)
  BY DEF WorkerStep, AddFinalizer, AddTaint, Execute, EvictByResourceDeletion,
         EvictByOutOfServiceTaint, RemoveOOSTaint, RemoveRemediationTaint, RemoveFinalizer,
         UpdateStatus, PollDone, PollTimesOut, TypeInv, Owned, AgentInv, CRInv
<1>f. far \in [FARs -> FarObject] /\ farPending \in [FARs -> SUBSET FarObject]
  BY DEF TypeInv, TypeOK, ClusterTypeOK
<1>1. rec' = Idle \/ rec'.uid = rec.uid
  <2> USE <1>w DEF Worker
  <2>1. CASE AddFinalizer
    BY <2>1 DEF AddFinalizer
  <2>2. CASE AddTaint \/ Execute \/ RemoveOOSTaint \/ RemoveRemediationTaint
    BY <2>2 DEF AddTaint, Execute, RemoveOOSTaint, RemoveRemediationTaint, RecGoto, RecReturn
  <2>3. CASE EvictByResourceDeletion \/ EvictByOutOfServiceTaint
    BY <2>3 DEF EvictByResourceDeletion, EvictByOutOfServiceTaint, FinishRemediation, RecReturn
  <2>4. CASE RemoveFinalizer \/ PollDone \/ PollTimesOut
    BY <2>4 DEF RemoveFinalizer, PollDone, PollTimesOut, Finish
  <2>5. CASE UpdateStatus
    BY <2>5 DEF UpdateStatus, Finish
  <2> QED  BY <2>1, <2>2, <2>3, <2>4, <2>5 DEF WorkerStep
<1>2. SameWorker(v)
  BY <1>1, <1>w DEF SameWorker, Works, Idle
<1>3. SameCopies(v)
  <2>1. farCache' = farCache
    BY DEF WorkerStep, AddFinalizer, AddTaint, Execute, EvictByResourceDeletion,
           EvictByOutOfServiceTaint, RemoveOOSTaint, RemoveRemediationTaint, RemoveFinalizer,
           UpdateStatus, PollDone, PollTimesOut
  <2>2. UNCHANGED farVars \/ \E o : StoreFar(rec.uid, o)
    BY DEF WorkerStep, AddFinalizer, AddTaint, Execute, EvictByResourceDeletion,
           EvictByOutOfServiceTaint, RemoveOOSTaint, RemoveRemediationTaint, RemoveFinalizer,
           UpdateStatus, PollDone, PollTimesOut, StoreFarStatus, farVars
  <2> QED  BY <1>f, <2>1, <2>2 DEF SameCopies, StoreFar, farVars
<1>4. SameHistory(v)
  <2>1. agentOk' = agentOk /\ (evicted' = evicted \/ evicted' = [evicted EXCEPT ![rec.uid] = TRUE])
    BY DEF WorkerStep, AddFinalizer, AddTaint, Execute, EvictByResourceDeletion,
           EvictByOutOfServiceTaint, RemoveOOSTaint, RemoveRemediationTaint, RemoveFinalizer,
           UpdateStatus, PollDone, PollTimesOut, FinishRemediation, notCluster
  <2> QED  BY <2>1 DEF SameHistory, TypeInv, TypeOK
<1>5. SameRoutine(v)
  <2>1. UNCHANGED <<routines, gor>> \/ Remove(rec.uid) \/ AsyncExecute(rec.uid)
    BY DEF WorkerStep, AddFinalizer, AddTaint, Execute, EvictByResourceDeletion,
           EvictByOutOfServiceTaint, RemoveOOSTaint, RemoveRemediationTaint, RemoveFinalizer,
           UpdateStatus, PollDone, PollTimesOut, FinishRemediation, notCluster
  <2>2. CASE UNCHANGED <<routines, gor>>
    BY <2>2 DEF SameRoutine
  <2>3. CASE Remove(rec.uid)
    BY <1>u, <2>3, RemoveEffect DEF SameRoutine, Runs
  <2>4. CASE AsyncExecute(rec.uid)
    <3>1. [FreeSlot EXCEPT !.pc = "run", !.uid = rec.uid, !.steps = RetryCount].uid = rec.uid
      BY DEF FreeSlot
    <3> QED  BY <1>u, <2>4, <3>1
             DEF AsyncExecute, SameRoutine, Runs, Live, TypeInv, TypeOK, ExecTypeOK
  <2> QED  BY <2>1, <2>2, <2>3, <2>4
<1> QED  BY <1>2, <1>3, <1>4, <1>5

\* Every step of the worker keeps the invariant.
LEMMA WorkerStepAgent == ASSUME TypeInv, AgentInv, WorkerStep PROVE AgentInv'
<1>w. rec \in Worker
  BY DEF TypeInv, TypeOK
<1>p. PICK u \in FARs : u = rec.uid /\ Works(u) /\ CRInv(u)
  <2>1. rec.pc # "idle"
    BY DEF WorkerStep, AddFinalizer, AddTaint, Execute, EvictByResourceDeletion,
           EvictByOutOfServiceTaint, RemoveOOSTaint, RemoveRemediationTaint, RemoveFinalizer,
           UpdateStatus, PollDone, PollTimesOut
  <2> QED  BY <2>1 DEF Works, AgentInv, TypeInv, Owned
<1> SUFFICES CRInv(u)'
  BY <1>p, WorkerStepOthers, CRKept DEF AgentInv
<1>s. UNCHANGED <<farVars, farCache>> => SameCopies(u)
  BY DEF farVars, SameCopies
<1>n. UNCHANGED notCluster => UNCHANGED <<routines, gor>> /\ SameHistory(u)
  BY DEF notCluster, SameHistory
<1>r. ASSUME rec.pc \notin {"status", "poll"}, NEW res, RecReturn(res),
             UNCHANGED <<farVars, farCache, notCluster>>
      PROVE  CRInv(u)'
  <2>1. rec'.pc = "status" /\ rec'.uid = u /\ rec'.far = rec.far
    BY <1>r, <1>w, <1>p DEF RecReturn, Worker
  <2> QED  BY <1>p, <1>r, <1>s, <1>n, <2>1, ReturnKeeps
<1>1. CASE AddFinalizer
  <2> DEFINE new == [rec.far EXCEPT !.fin = TRUE]
             failed == rec' = [rec EXCEPT !.pc = "status", !.far = new, !.res = "requeue"]
  <2>0. /\ farCache'[u] = farCache[u] /\ UNCHANGED <<routines, gor>> /\ SameHistory(u)
        /\ rec.pc = "addFinalizer"
    BY <1>1, <1>n DEF AddFinalizer
  <2>1. failed => rec'.pc = "status" /\ rec'.uid = u /\ rec'.far = new
    BY <1>w, <1>p DEF Worker
  <2>2. ASSUME FarFresh(u, rec.far), StoreFar(u, new),
               \/ rec' = [rec EXCEPT !.pc = "status", !.res = "requeue",
                                     !.far = SetConditions(Started, far'[u])]
               \/ failed
        PROVE  CRInv(u)'
    <3>1. /\ rec'.pc = "status" /\ rec'.uid = u
          /\ rec'.far = new \/ rec'.far = SetConditions(Started, far'[u])
      BY <1>w, <1>p, <2>1, <2>2 DEF Worker
    <3> QED  BY <1>p, <2>0, <2>2, <3>1, AddFinalizerKeeps
  <2>3. ASSUME UNCHANGED farVars, failed PROVE CRInv(u)'
    <3>1. /\ new.rv = rec.far.rv /\ new.st = rec.far.st /\ new.phase = rec.far.phase
          /\ new.del = rec.far.del /\ new.nhc = rec.far.nhc
      BY <1>w DEF Worker, FarObject
    <3>2. SameCopies(u)
      BY <1>1, <1>s, <2>3 DEF AddFinalizer
    <3> QED  BY <1>p, <2>0, <2>1, <2>3, <3>1, <3>2, ReturnKeeps
  <2> QED  BY <1>1, <1>p, <2>2, <2>3 DEF AddFinalizer
<1>2. CASE AddTaint \/ RemoveOOSTaint \/ RemoveRemediationTaint
  <2>0. UNCHANGED <<farVars, farCache, notCluster>>
    BY <1>2 DEF AddTaint, RemoveOOSTaint, RemoveRemediationTaint
  <2>1. CASE RecReturn("requeue")
    BY <1>2, <1>r, <2>0, <2>1 DEF AddTaint, RemoveOOSTaint, RemoveRemediationTaint
  <2>2. ASSUME NEW pc, RecGoto(pc), pc # "idle",
               pc \in {"execute", "evict"} => rec.pc = "addTaint",
               pc = "execute" => NeedsFencing(rec.far.st),
               pc = "evict" => NeedsEviction(rec.far.st),
               pc \in {"removeTaint", "removeFinalizer"} => rec.pc \in {"removeOOS", "removeTaint"},
               pc \in {"execute", "evict", "removeTaint", "removeFinalizer"}
        PROVE  CRInv(u)'
    <3>1. rec'.pc = pc /\ rec'.uid = u /\ rec'.far = rec.far
      BY <1>p, <1>w, <2>2 DEF RecGoto, Worker
    <3>2. SameCopies(u) /\ UNCHANGED <<routines, gor>> /\ SameHistory(u) /\ ~Starting(u)'
      BY <1>s, <1>n, <2>0, <2>2, <3>1 DEF Starting
    <3>3. Copies(u)' = Copies(u) /\ far'[u] = far[u]
      BY <3>2 DEF SameCopies, Copies
    <3>4. WorkerHas(u)'
      BY <1>p, <2>2, <3>1, <3>3
         DEF CRInv, WorkerHas, Follows, Startable, Present, NeedsFencing, NeedsEviction
    <3>5. Over(u) => Over(u)'
      BY <1>p, <2>2, <3>1, <3>3 DEF Over, NoneStartable, Startable, Present, NeedsFencing
    <3> QED  BY <1>p, <3>2, <3>4, <3>5, WorkerMoves
  <2>3. CASE AddTaint
    <3>1. ASSUME RecGoto("status") PROVE CRInv(u)'
      <4>1. rec'.pc = "status" /\ rec'.uid = u /\ rec'.far = rec.far
        BY <1>p, <1>w, <3>1 DEF RecGoto, Worker
      <4> QED  BY <1>p, <1>s, <1>n, <2>0, <2>3, <4>1, ReturnKeeps DEF AddTaint
    <3> QED  BY <2>1, <2>2, <2>3, <3>1 DEF AddTaint
  <2>4. CASE RemoveOOSTaint \/ RemoveRemediationTaint
    BY <2>1, <2>2, <2>4 DEF RemoveOOSTaint, RemoveRemediationTaint
  <2> QED  BY <1>2, <2>3, <2>4
<1>3. CASE Execute
  <2>0. /\ UNCHANGED <<farVars, farCache>> /\ SameHistory(u) /\ rec.pc = "execute"
    BY <1>3 DEF Execute, SameHistory
  <2>1. PICK res : RecReturn(res)
    BY <1>3 DEF Execute
  <2>2. CASE UNCHANGED <<routines, gor>>
    <3>1. UNCHANGED notCluster
      BY <1>3, <2>2 DEF Execute, notCluster
    <3> QED  BY <1>r, <2>0, <2>1, <3>1
  <2>3. CASE ~Exists(u) /\ AsyncExecute(u)
    <3>1. rec'.pc = "status" /\ rec'.uid = u /\ rec'.far = rec.far
      BY <1>p, <1>w, <2>1 DEF RecReturn, Worker
    <3> QED  BY <1>p, <1>s, <2>0, <2>3, <3>1, AsyncExecuteKeeps
  <2> QED  BY <1>3, <1>p, <2>2, <2>3 DEF Execute
<1>4. CASE EvictByResourceDeletion \/ EvictByOutOfServiceTaint
  <2>0. rec.pc = "evict" /\ UNCHANGED <<farVars, farCache, agentOk>>
    BY <1>4 DEF EvictByResourceDeletion, EvictByOutOfServiceTaint
  <2>1. CASE FinishRemediation
    BY <1>p, <1>s, <2>0, <2>1, FinishKeeps
  <2>2. CASE RecReturn("requeue") /\ UNCHANGED <<routines, gor, evicted>>
    BY <1>r, <2>0, <2>2 DEF notCluster
  <2> QED  BY <1>4, <2>1, <2>2 DEF EvictByResourceDeletion, EvictByOutOfServiceTaint
<1>5. CASE RemoveFinalizer
  <2>0. /\ rec.pc = "removeFinalizer" /\ rec' = Idle /\ UNCHANGED farCache
        /\ UNCHANGED <<routines, gor>> /\ SameHistory(u)
    BY <1>5, <1>n DEF RemoveFinalizer, Finish
  <2>1. CASE UNCHANGED farVars
    BY <1>p, <1>s, <2>0, <2>1, IdleKeeps
  <2>2. CASE FarFresh(u, rec.far) /\ StoreFar(u, [rec.far EXCEPT !.phase = "gone", !.fin = FALSE])
    BY <1>p, <2>0, <2>2, RemoveFinalizerKeeps
  <2> QED  BY <1>5, <1>p, <2>1, <2>2 DEF RemoveFinalizer
<1>6. CASE UpdateStatus
  <2>0. /\ rec.pc = "status" /\ UNCHANGED farCache
        /\ UNCHANGED <<routines, gor>> /\ SameHistory(u)
    BY <1>6, <1>n DEF UpdateStatus
  <2>1. CASE UNCHANGED farVars /\ rec' = Idle
    BY <1>p, <1>s, <2>0, <2>1, IdleKeeps
  <2>2. ASSUME FarFresh(u, rec.far), StoreFarStatus(u, rec.far.st),
               rec' = Idle \/ rec' = [rec EXCEPT !.pc = "poll", !.far = far'[u]]
        PROVE  CRInv(u)'
    <3>1. rec' = Idle \/ (rec'.pc = "poll" /\ rec'.uid = u /\ rec'.far = far'[u])
      BY <1>p, <1>w, <2>2 DEF Worker
    <3> QED  BY <1>p, <2>0, <2>2, <3>1, UpdateStatusKeeps
  <2> QED  BY <1>6, <1>p, <2>1, <2>2 DEF UpdateStatus, Finish
<1>7. CASE PollDone \/ PollTimesOut
  BY <1>7, <1>p, <1>s, <1>n, IdleKeeps DEF PollDone, PollTimesOut, Finish
<1> QED  BY <1>1, <1>2, <1>3, <1>4, <1>5, <1>6, <1>7 DEF WorkerStep

-----------------------------------------------------------------------------
(***************************************************************************)
(* A CR has one fence agent at most.                                       *)
(***************************************************************************)

\* The invariant holds initially, and every step keeps it.
LEMMA AgentInvInit == Init => TypeInv /\ AgentInv
<1> SUFFICES ASSUME Init PROVE TypeInv /\ AgentInv
  OBVIOUS
<1>1. TypeInv
  BY InitType DEF TypeInv, Owned, Init, ExecInit, NewExecuter, FreeSlot, Idle
<1>2. ASSUME NEW u \in FARs PROVE CRInv(u)
  <2>1. Copies(u) = {NoFar} /\ far[u] = NoFar /\ farCache[u] = NoFar
    BY DEF Init, ClusterInit, Copies
  <2>2. (\A s \in Slots : ~Runs(s, u)) /\ routines[u] = None /\ ~agentOk[u] /\ ~evicted[u]
    BY DEF Init, ExecInit, NewExecuter, Runs, Live, FreeSlot
  <2>3. ~Works(u)
    BY DEF Init, Idle, Works
  <2>4. Versions(u) /\ Untouched(u)
    BY <2>1, <2>2 DEF Versions, Follows, Startable, Present, Untouched, NoFar, NoConditions
  <2> QED  BY <2>2, <2>3, <2>4 DEF CRInv, WorkerHas, RoutineHas
<1> QED  BY <1>1, <1>2 DEF AgentInv

\* Every step keeps AgentInv.
LEMMA AgentInvStep == ASSUME TypeInv, AgentInv, [Next]_vars PROVE TypeInv' /\ AgentInv'
<1>1. TypeInv'
  BY TypeStep, OwnedStep DEF TypeInv
<1>2. CASE UNCHANGED vars
  <2>1. \A u \in FARs : SameCopies(u) /\ SameRoutine(u) /\ SameHistory(u) /\ SameWorker(u)
    BY <1>2 DEF vars, clusterVars, execVars, SameCopies, SameRoutine, SameHistory, SameWorker
  <2> QED  BY <1>1, <2>1, CRKept DEF AgentInv
<1>3. CASE Next
  BY <1>1, <1>3, ClusterNextAgent, RoutineStepAgent, ReconcileAgent, WorkerStepAgent,
     RestartAgent DEF Next, Crash, ExecuterPanic
<1> QED  BY <1>2, <1>3

\* A CR never has two goroutines, so its machine never has two fence agents: not after a
\* Remove that cancelled one and did not wait for it, not when the cache is behind, not when
\* writes are refused or lost, and not across crashes.
THEOREM OneAgent == Spec => []AtMostOneAgent
<1>1. TypeInv /\ AgentInv => AtMostOneAgent
  BY DEF TypeInv, Owned, AgentInv, CRInv, RoutineHas, Runs, AtMostOneAgent, Live
<1>2. Init => TypeInv /\ AgentInv
  BY AgentInvInit
<1>3. TypeInv /\ AgentInv /\ [Next]_vars => TypeInv' /\ AgentInv'
  BY AgentInvStep
<1> QED  BY <1>1, <1>2, <1>3, PTL DEF Spec

=============================================================================

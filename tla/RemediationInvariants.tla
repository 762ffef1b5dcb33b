----------------------- MODULE RemediationInvariants -----------------------
(***************************************************************************)
(* The inductive invariants behind the theorems of VersionProofs and of    *)
(* the modules that build on it.  All of them speak about one CR and every *)
(* copy of it: the version at the server, the cached one, the ones on      *)
(* their way, the one the worker has in its memory and the one a goroutine *)
(* is about to put.                                                        *)
(***************************************************************************)
EXTENDS RemediationProperties

Copies(u) == farPending[u] \cup {farCache[u], far[u]}

\* The worker is busy with this CR.
Works(u) == rec.pc # "idle" /\ rec.uid = u

Runs(s, u) == Live(s) /\ gor[s].uid = u

\* A reconcile that reads this version may start the fence agent.
Startable(o) == Present(o) /\ ~o.del /\ ~o.nhc /\ NeedsFencing(o.st)

NoneStartable(u) == \A v \in Copies(u) : ~Startable(v)

(***************************************************************************)
(* Versions.                                                               *)
(***************************************************************************)
\* p is o or a later version: what o has come to, p has not gone back on.
Follows(o, p) ==
    /\ o.phase # "absent" => p.phase # "absent"
    /\ o.phase = "gone" => p.phase = "gone"
    /\ o.fin => p.fin \/ p.phase = "gone"
    /\ o.del => p.del
    /\ o.nhc => p.nhc
    /\ o.st.fenceAgentActionSucceeded = "True" => ~Startable(p)

Versions(u) ==
    /\ \A v \in Copies(u) : /\ farCache[u].rv <= v.rv /\ v.rv <= far[u].rv
                            /\ v.rv = far[u].rv => v = far[u]
                            /\ v.phase = "absent" => v = NoFar
    /\ \A v, w \in Copies(u) : v.rv <= w.rv => Follows(v, w)

(***************************************************************************)
(* Before the remediation starts.                                          *)
(***************************************************************************)
\* The worker is about to write RemediationStarted, and will succeed.
Starting(u) ==
    /\ rec.pc = "status" /\ rec.uid = u
    /\ rec.far.rv = far[u].rv
    /\ rec.far.st.processing = "True" /\ rec.far.st # far[u].st

Before(u) == far[u].phase = "absent" \/ (Present(far[u]) /\ ~far[u].fin) \/ Starting(u)

\* Nothing has been done about the CR yet.
Untouched(u) ==
    /\ routines[u] = None
    /\ \A s \in Slots : ~Runs(s, u)
    /\ ~agentOk[u] /\ ~evicted[u]
    /\ \A v \in Copies(u) : /\ v.st.processing # "True"
                            /\ v.st.fenceAgentActionSucceeded # "True"
                            /\ v.st.succeeded # "True"

(***************************************************************************)
(* The worker.                                                             *)
(***************************************************************************)
\* The CR's goroutine, if there is one, has been told to stop.
Stopped(u) == routines[u] = None /\ \A s \in Slots : Runs(s, u) => gor[s].cancelled

\* What the deferred updateStatus may be about to write over p.
StatusToWrite(u, o, p) ==
    /\ o.del = p.del /\ o.nhc = p.nhc
    /\ \/ o.st = p.st
       \/ o.st = UpdateConditions(Started, p.st) /\ Starting(u) /\ ~p.nhc /\ p.fin
       \/ o.st = UpdateConditions(NodeNotFound, p.st) /\ ~p.nhc
       \/ o.st = UpdateConditions(InterruptedByNHC, p.st) /\ p.nhc /\ farCache[u].nhc
          /\ Stopped(u)
       \/ o.st = UpdateConditions(FinishedSuccessfully, p.st) /\ NeedsEviction(p.st)
          /\ NoneStartable(u)

WorkerHas(u) ==
    Works(u) =>
        /\ Present(rec.far) /\ rec.far.rv <= far[u].rv
        /\ rec.pc \notin {"status", "poll"} =>
             /\ rec.far.rv = far[u].rv => rec.far = far[u]
             /\ \A w \in Copies(u) : Follows(rec.far, w)
        /\ rec.pc \in {"addFinalizer", "addTaint", "execute", "evict"} =>
             ~rec.far.nhc /\ ~rec.far.del
        /\ rec.pc = "addFinalizer" => ~rec.far.fin
        /\ rec.pc \in {"addTaint", "execute", "evict"} => rec.far.fin
        /\ rec.pc = "execute" => NeedsFencing(rec.far.st)
        /\ rec.pc = "evict" => NeedsEviction(rec.far.st)
        /\ rec.pc \in {"removeOOS", "removeTaint", "removeFinalizer"} => rec.far.del
        /\ rec.pc = "status" /\ rec.far.rv = far[u].rv => StatusToWrite(u, rec.far, far[u])

(***************************************************************************)
(* The goroutines.                                                         *)
(***************************************************************************)
\* The fence agent will not be started again.
Over(u) ==
    /\ NoneStartable(u)
    /\ Works(u) => /\ rec.pc # "execute"
                   /\ rec.pc = "addTaint" => ~NeedsFencing(rec.far.st)

RoutineHas(u) ==
    /\ \A s \in Slots : Runs(s, u) =>
         /\ routines[u] = s \/ (routines[u] = None /\ gor[s].cancelled /\ Over(u))
         /\ gor[s].pc = "put" =>
              /\ Present(gor[s].obj) /\ gor[s].obj.rv <= far[u].rv
              /\ gor[s].obj.rv = far[u].rv => gor[s].obj = WithOutcome(far[u], gor[s].cmdErr)
    /\ \A s, t \in Slots : Runs(s, u) /\ Runs(t, u) => s = t

CRInv(u) == Versions(u) /\ (Before(u) => Untouched(u)) /\ WorkerHas(u) /\ RoutineHas(u)

AgentInv == \A u \in FARs : CRInv(u)

(***************************************************************************)
(* After an interruption by NHC.                                           *)
(***************************************************************************)
Interrupted(u) ==
    far[u].st.why = InterruptedByNHC =>
        /\ far[u].nhc /\ farCache[u].nhc
        /\ far[u].st.processing = "False" /\ far[u].st.fenceAgentActionSucceeded = "False"
        /\ far[u].st.succeeded = "False"
        /\ Stopped(u)
        /\ \A s \in Slots : (Runs(s, u) /\ gor[s].pc = "put") => gor[s].obj.rv < far[u].rv
        /\ Works(u) => rec.pc \notin {"addFinalizer", "addTaint", "execute", "evict"}

InterruptInv == \A u \in FARs : Interrupted(u)

(***************************************************************************)
(* The finalizer.                                                          *)
(***************************************************************************)
\* A CR goes only when its deletion is in the cache, or before it ever had the finalizer;
\* and not while the worker remediates it.
FinalizerInv ==
    \A u \in FARs :
        /\ far[u].phase = "gone" => \A v \in Copies(u) : v.fin => v.del
        /\ Works(u) /\ rec.pc \in {"addTaint", "execute", "evict"} =>
               Present(far[u]) /\ far[u].fin

(***************************************************************************)
(* The taints on a node, when the node cache is up to date.                *)
(***************************************************************************)
NodesFresh == \A n \in Nodes : nodeCache[n] = node[n] /\ nodePending[n] = {}

\* Where handleFARDeletion is past the removal of the taint.
PastRemoval(t) ==
    IF t = OOSTaint THEN {"removeTaint", "removeFinalizer"} ELSE {"removeFinalizer"}

\* The CR answers for the taint: its finalizer stays until the taint has been removed.
Holds(u, t) ==
    /\ Present(far[u]) /\ far[u].fin
    /\ t = OOSTaint => Strategy[u] = OutOfServiceTaint /\ (RetryCount > 0 => agentOk[u])
    /\ ~(Works(u) /\ rec.pc \in PastRemoval(t))

TaintInv ==
    /\ NodesFresh
    /\ \A n \in Nodes :
          /\ ~node[n].exists => node[n].taints = {}
          /\ \A t \in node[n].taints : \E u \in FARs : NodeOf[u] = n /\ Holds(u, t)

(***************************************************************************)
(* The remediation taint while the fence agent runs, also when the node    *)
(* cache is behind, in a cluster whose nodes are not deleted.              *)
(***************************************************************************)
NodeCopies(n) == nodePending[n] \cup {nodeCache[n], node[n]}

NodeVersions(n) ==
    /\ ~NodeCacheLags => nodePending[n] = {}
    /\ \A v \in NodeCopies(n) : nodeCache[n].rv <= v.rv /\ v.rv <= node[n].rv
    /\ \A v, w \in NodeCopies(n) : v.rv <= w.rv /\ v.exists => w.exists

\* A taint seen in the cache is on the node, or the CR has been deleted.
TaintSeen(u) ==
    \A v \in NodeCopies(NodeOf[u]) :
        RemediationTaint \in v.taints =>
            \/ RemediationTaint \in node[NodeOf[u]].taints
            \/ /\ farCache[u].del
               /\ Works(u) => rec.pc \notin {"addFinalizer", "addTaint", "execute", "evict"}

FencingInv ==
    \A u \in FARs :
        /\ NodeVersions(NodeOf[u])
        /\ TaintSeen(u)
        /\ Works(u) /\ rec.pc = "addTaint" => nodeCache[NodeOf[u]].exists
        /\ Works(u) /\ rec.pc = "execute" => RemediationTaint \in node[NodeOf[u]].taints
        /\ Works(u) /\ rec.pc \in {"removeOOS", "removeTaint", "removeFinalizer"} => Stopped(u)
        /\ \A s \in Slots : Runs(s, u) /\ ~gor[s].cancelled =>
               RemediationTaint \in node[NodeOf[u]].taints

(***************************************************************************)
(* The stages of a remediation, in a cluster whose nodes are not deleted.  *)
(***************************************************************************)
FailureReason == {NodeNotFound, InterruptedByNHC, AgentFailed, AgentTimedOut}

\* The conditions that go with the reason of the last change.
Shape(st) ==
    /\ st.why = "none" => st = NoConditions
    /\ st.why = Started => /\ st.processing = "True" /\ st.succeeded = "Unknown"
                           /\ st.fenceAgentActionSucceeded = "Unknown"
    /\ st.why = AgentSucceeded => /\ st.processing = "True" /\ st.succeeded = "Unknown"
                                  /\ st.fenceAgentActionSucceeded = "True"
    /\ st.why = FinishedSuccessfully => /\ st.processing = "False" /\ st.succeeded = "True"
                                        /\ st.fenceAgentActionSucceeded = "True"
    /\ st.why \in FailureReason => /\ st.processing = "False" /\ st.succeeded = "False"
                                   /\ st.fenceAgentActionSucceeded = "False"

\* The fence agent may be started from what somebody still has of the CR.
MayStart(u) ==
    \/ \E v \in Copies(u) : Startable(v)
    \/ Works(u) /\ rec.pc \in {"addTaint", "execute"} /\ NeedsFencing(rec.far.st)

\* Somebody knows of the fence agent's success.
KnownFenced(u) ==
    \/ \E v \in Copies(u) : v.st.fenceAgentActionSucceeded = "True"
    \/ /\ Works(u) /\ rec.pc \in {"addTaint", "execute", "evict"}
       /\ rec.far.st.fenceAgentActionSucceeded = "True"

\* The worker is about to report that it did not find the node.
ReportsNoNode(u) ==
    /\ Works(u) /\ rec.pc = "status" /\ rec.far.rv = far[u].rv
    /\ rec.far.st # far[u].st /\ rec.far.st.why = NodeNotFound

Stage(u) ==
    /\ Shape(far[u].st)
    /\ far[u].fin \/ (Works(u) /\ rec.pc = "addFinalizer") => nodeCache[NodeOf[u]].exists
    /\ ReportsNoNode(u) => ~far[u].fin
    /\ Before(u) => far[u].st.why \notin {AgentFailed, AgentTimedOut}
    /\ \A s \in Slots : Runs(s, u) => far[u].st.why \in {Started, InterruptedByNHC}
    /\ routines[u] = None /\ MayStart(u) => far[u].st.why \in {Started, InterruptedByNHC}
    /\ KnownFenced(u) =>
           far[u].st.why \in {AgentSucceeded, FinishedSuccessfully, InterruptedByNHC}

StageInv == \A u \in FARs : NodeVersions(NodeOf[u]) /\ Stage(u)

=============================================================================

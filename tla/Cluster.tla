------------------------------- MODULE Cluster -------------------------------
(***************************************************************************)
(* The Kubernetes side of the operator: the FenceAgentsRemediation (FAR)   *)
(* objects and the nodes at the API server, the informer caches through    *)
(* which the operator reads both, the reconciler's workqueue, and what     *)
(* other actors (NHC, administrators, machine controllers) do to them.     *)
(*                                                                         *)
(* All of this is external to the operator and is modelled from how its    *)
(* code uses the client.  A write carries the resourceVersion it was       *)
(* read at and is refused (conflict) when the object changed since.  The   *)
(* caches follow the server in order but at their own pace: each keeps the *)
(* set of later versions whose watch events it has not received.           *)
(***************************************************************************)
EXTENDS Integers, FiniteSets, Conditions

CONSTANTS
    FARs,             \* UIDs of the CRs; each CR has a name of its own
    Nodes,            \* names of the cluster nodes
    NodeOf,           \* v1alpha1.GetNodeName: the node a CR is about
    Strategy,         \* far.Spec.RemediationStrategy
    NodeCacheLags,    \* FALSE: the node informer is never behind the server
    MaxCrashes,       \* bound: crashes or fail-overs of the manager
    MaxApiErrors,     \* bound: API calls that fail for no reason of ours
    MaxEdits,         \* bound: foreign updates of a CR or of a node
    MaxNodeDeletes,   \* bound: deletions of a node
    MaxTimeouts       \* bound: CRs that NHC gives up on

ResourceDeletion == "ResourceDeletion"
OutOfServiceTaint == "OutOfServiceTaint"

ASSUME ClusterAssumption ==
    /\ NodeOf \in [FARs -> Nodes]
    /\ Strategy \in [FARs -> {ResourceDeletion, OutOfServiceTaint}]
    /\ NodeCacheLags \in BOOLEAN
    /\ MaxCrashes \in Nat /\ MaxApiErrors \in Nat
    /\ MaxEdits \in Nat /\ MaxNodeDeletes \in Nat /\ MaxTimeouts \in Nat

VARIABLES
    far,         \* the CRs at the API server
    farCache,    \* the CRs as the informer has them
    farPending,  \* versions of each CR newer than the cached one
    node, nodeCache, nodePending,   \* the same for the nodes
    queue,       \* UIDs in the reconciler's workqueue
    faults       \* how much of each bound has been used

clusterVars == <<far, farCache, farPending, node, nodeCache, nodePending, queue, faults>>

-----------------------------------------------------------------------------
\* Objects.  fin: our finalizer; del: DeletionTimestamp; nhc: the NhcTimedOut annotation.
FarObject == [phase : {"absent", "present", "gone"}, rv : Nat, fin : BOOLEAN,
              del : BOOLEAN, nhc : BOOLEAN, st : Status]

NoFar == [phase |-> "absent", rv |-> 0, fin |-> FALSE, del |-> FALSE,
          nhc |-> FALSE, st |-> NoConditions]

\* The two taints the operator sets; taints of others only matter as edits of a node.
RemediationTaint == "remediation.medik8s.io/fence-agents-remediation"
OOSTaint == "node.kubernetes.io/out-of-service"
Taint == {RemediationTaint, OOSTaint}

NodeObject == [exists : BOOLEAN, rv : Nat, taints : SUBSET Taint]

Faults == [crash : Nat, api : Nat, edit : Nat, node : Nat, nhc : Nat]

ClusterTypeOK ==
    /\ far \in [FARs -> FarObject]
    /\ farCache \in [FARs -> FarObject]
    /\ farPending \in [FARs -> SUBSET FarObject]
    /\ node \in [Nodes -> NodeObject]
    /\ nodeCache \in [Nodes -> NodeObject]
    /\ nodePending \in [Nodes -> SUBSET NodeObject]
    /\ queue \in SUBSET FARs
    /\ faults \in Faults

ClusterInit ==
    /\ far = [u \in FARs |-> NoFar]
    /\ farCache = far
    /\ farPending = [u \in FARs |-> {}]
    /\ node \in [Nodes -> [exists : BOOLEAN, rv : {0}, taints : {{}}]]
    /\ nodeCache = node
    /\ nodePending = [n \in Nodes |-> {}]
    /\ queue = {}
    /\ faults = [crash |-> 0, api |-> 0, edit |-> 0, node |-> 0, nhc |-> 0]

-----------------------------------------------------------------------------
(***************************************************************************)
(* The client's calls.                                                     *)
(***************************************************************************)
Present(o) == o.phase = "present"

\* A write of obj is accepted: the object exists and has not changed since obj was read.
FarFresh(u, obj) == Present(far[u]) /\ obj.rv = far[u].rv

\* The server stores a new version of a CR and its watch event is on its way.
StoreFar(u, obj) ==
    LET new == [obj EXCEPT !.rv = far[u].rv + 1]
    IN  /\ far' = [far EXCEPT ![u] = new]
        /\ farPending' = [farPending EXCEPT ![u] = @ \cup {new}]

\* Status().Update of an accepted object: only the status is taken from it, and
\* an update that changes nothing makes no new version.
StoreFarStatus(u, st) ==
    IF st = far[u].st THEN UNCHANGED <<far, farPending>>
                      ELSE StoreFar(u, [far[u] EXCEPT !.st = st])

StoreNode(n, obj) ==
    LET new == [obj EXCEPT !.rv = node[n].rv + 1]
    IN  /\ node' = [node EXCEPT ![n] = new]
        /\ IF NodeCacheLags
              THEN /\ nodePending' = [nodePending EXCEPT ![n] = @ \cup {new}]
                   /\ UNCHANGED nodeCache
              ELSE /\ nodeCache' = [nodeCache EXCEPT ![n] = new]
                   /\ UNCHANGED nodePending

\* A call fails with an error other than conflict or not-found.
ApiError ==
    /\ faults.api < MaxApiErrors
    /\ faults' = [faults EXCEPT !.api = @ + 1]

-----------------------------------------------------------------------------
(***************************************************************************)
(* Informers: a cache moves to a later version; for a CR this enqueues a   *)
(* reconcile request.  Several events may be received before the next read *)
(* of the cache.  Nodes are not watched by the controller.                 *)
(***************************************************************************)
DeliverFar(u) ==
    \E v \in farPending[u] :
        /\ farCache' = [farCache EXCEPT ![u] = v]
        /\ farPending' = [farPending EXCEPT ![u] = {w \in @ : w.rv > v.rv}]
        /\ queue' = queue \cup {u}
        /\ UNCHANGED <<far, node, nodeCache, nodePending, faults>>

DeliverNode(n) ==
    \E v \in nodePending[n] :
        /\ nodeCache' = [nodeCache EXCEPT ![n] = v]
        /\ nodePending' = [nodePending EXCEPT ![n] = {w \in @ : w.rv > v.rv}]
        /\ UNCHANGED <<far, farCache, farPending, node, queue, faults>>

\* The informer's periodic resync reconciles a CR nobody changed.
Resync(u) ==
    /\ Present(farCache[u])
    /\ queue' = queue \cup {u}
    /\ UNCHANGED <<far, farCache, farPending, node, nodeCache, nodePending, faults>>

(***************************************************************************)
(* Other actors.                                                           *)
(***************************************************************************)
nodesAndCaches == <<farCache, node, nodeCache, nodePending, queue>>

CreateFar(u) ==
    /\ far[u].phase = "absent"
    /\ StoreFar(u, [NoFar EXCEPT !.phase = "present"])
    /\ UNCHANGED <<nodesAndCaches, faults>>

\* A CR with a finalizer is only marked; without one it goes at once.
DeleteFar(u) ==
    /\ Present(far[u]) /\ ~far[u].del
    /\ StoreFar(u, IF far[u].fin THEN [far[u] EXCEPT !.del = TRUE]
                                 ELSE [far[u] EXCEPT !.phase = "gone"])
    /\ UNCHANGED <<nodesAndCaches, faults>>

\* NHC gives up on the remediation.
AnnotateTimedOut(u) ==
    /\ Present(far[u]) /\ ~far[u].del /\ ~far[u].nhc
    /\ faults.nhc < MaxTimeouts
    /\ faults' = [faults EXCEPT !.nhc = @ + 1]
    /\ StoreFar(u, [far[u] EXCEPT !.nhc = TRUE])
    /\ UNCHANGED nodesAndCaches

Edit ==
    /\ faults.edit < MaxEdits
    /\ faults' = [faults EXCEPT !.edit = @ + 1]

\* Labels, annotations, owner references of a CR.
EditFar(u) ==
    /\ Present(far[u])
    /\ Edit
    /\ StoreFar(u, far[u])
    /\ UNCHANGED nodesAndCaches

\* The kubelet's status, other controllers' taints.
EditNode(n) ==
    /\ node[n].exists
    /\ Edit
    /\ StoreNode(n, node[n])
    /\ UNCHANGED <<far, farCache, farPending, queue>>

DeleteNode(n) ==
    /\ node[n].exists
    /\ faults.node < MaxNodeDeletes
    /\ faults' = [faults EXCEPT !.node = @ + 1]
    /\ StoreNode(n, [node[n] EXCEPT !.exists = FALSE, !.taints = {}])
    /\ UNCHANGED <<far, farCache, farPending, queue>>

\* A machine joins the cluster (again) under this name.
CreateNode(n) ==
    /\ ~node[n].exists
    /\ StoreNode(n, [node[n] EXCEPT !.exists = TRUE])
    /\ UNCHANGED <<far, farCache, farPending, queue, faults>>

ClusterNext ==
    \/ \E u \in FARs : \/ DeliverFar(u) \/ Resync(u)
                       \/ CreateFar(u) \/ DeleteFar(u)
                       \/ AnnotateTimedOut(u) \/ EditFar(u)
    \/ \E n \in Nodes : \/ DeliverNode(n) \/ EditNode(n)
                        \/ DeleteNode(n) \/ CreateNode(n)

=============================================================================

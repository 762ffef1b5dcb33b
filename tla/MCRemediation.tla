---------------------------- MODULE MCRemediation ----------------------------
(***************************************************************************)
(* Small instances of the remediation for TLC.                             *)
(***************************************************************************)
EXTENDS RemediationProperties, TLC

CONSTANTS f1, f2, n1, g1, g2

\* All CRs are about one node.
OneNode == [u \in FARs |-> n1]

ByResourceDeletion == [u \in FARs |-> ResourceDeletion]
ByOutOfServiceTaint == [u \in FARs |-> OutOfServiceTaint]

MinusOne == -1

\* Action constraint: watch events of CRs arrive before anything else happens.
PromptWatch ==
    (\E u \in FARs : farPending[u] # {}) => farCache' # farCache

\* Action constraint: no resync.  A CR is only reconciled after it changed or failed.
NoResync == ~\E u \in FARs : Resync(u) /\ UNCHANGED <<execVars, rec, evicted>>

\* Goroutines, and CRs with the same parameters, are interchangeable.
GoroutineSymmetry == Permutations(Slots)
CRSymmetry == Permutations(Slots) \cup Permutations(FARs)

=============================================================================

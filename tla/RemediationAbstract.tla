------------------------- MODULE RemediationAbstract -------------------------
(***************************************************************************)
(* What a CR promises to NHC, in a cluster whose nodes do not go away: the *)
(* node is fenced, then its workloads are removed, then the remediation    *)
(* has succeeded.  A failure is final, a success may still turn into a     *)
(* failure (by an interruption of NHC, which is not told apart here), and  *)
(* nothing is evicted for a CR that has been decided.                      *)
(***************************************************************************)
CONSTANT FARs

VARIABLES
    fenced,    \* a fence agent of this CR has exited with 0
    evicted,   \* workloads were removed for it
    outcome    \* what its status says

vars == <<fenced, evicted, outcome>>

Init ==
    /\ fenced = [u \in FARs |-> FALSE]
    /\ evicted = [u \in FARs |-> FALSE]
    /\ outcome = [u \in FARs |-> "absent"]

Becomes(u, new) ==
    /\ outcome' = [outcome EXCEPT ![u] = new]
    /\ UNCHANGED <<fenced, evicted>>

Request(u) == outcome[u] = "absent" /\ Becomes(u, "open")

\* A command that was cancelled may still have done its work.
Fence(u) ==
    /\ outcome[u] # "absent"
    /\ fenced' = [fenced EXCEPT ![u] = TRUE]
    /\ UNCHANGED <<evicted, outcome>>

Evict(u) ==
    /\ outcome[u] = "open" /\ fenced[u]
    /\ evicted' = [evicted EXCEPT ![u] = TRUE]
    /\ UNCHANGED <<fenced, outcome>>

Succeed(u) == outcome[u] = "open" /\ evicted[u] /\ Becomes(u, "succeeded")

\* The agent failed, or NHC interrupted the remediation.
Fail(u) == outcome[u] \in {"open", "notfound", "succeeded"} /\ Becomes(u, "failed")

\* The node is not there yet, and then is.
NotFound(u) == outcome[u] = "open" /\ ~fenced[u] /\ Becomes(u, "notfound")
Start(u) == outcome[u] = "notfound" /\ ~fenced[u] /\ Becomes(u, "open")

Delete(u) == outcome[u] # "absent" /\ Becomes(u, "gone")

Next ==
    \E u \in FARs :
        \/ Request(u) \/ Fence(u) \/ Evict(u) \/ Succeed(u) \/ Fail(u)
        \/ NotFound(u) \/ Start(u) \/ Delete(u)

Spec == Init /\ [][Next]_vars

=============================================================================

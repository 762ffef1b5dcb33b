SPECIFICATION Spec
CONSTANTS
    f1 = f1  f2 = f2  n1 = n1  g1 = g1  g2 = g2  None = None
    FARs = {f1}
    Nodes = {n1}
    NodeOf <- OneNode
    Strategy <- ByResourceDeletion
    Slots = {g1, g2}
    ParamsOk = {f1}
    RetryCount = 2
    NodeCacheLags = TRUE
    MaxCrashes = 1
    MaxApiErrors = 1
    MaxEdits = 1
    MaxNodeDeletes = 0
    MaxTimeouts = 1
SYMMETRY GoroutineSymmetry
CHECK_DEADLOCK FALSE
INVARIANTS TypeOK ReportedOnlyIfFenced EvictedOnlyIfFenced FinishedMeansEvicted AtMostOneAgent TaintedWhileFencing
PROPERTIES InterruptionIsFinal ReasonsInOrder

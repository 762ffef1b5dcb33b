SPECIFICATION Spec
CONSTANTS
    f1 = f1  f2 = f2  n1 = n1  g1 = g1  g2 = g2  None = None
    FARs = {f1}
    Nodes = {n1}
    NodeOf <- OneNode
    Strategy <- ByOutOfServiceTaint
    Slots = {g1, g2}
    ParamsOk = {f1}
    RetryCount = 1
    NodeCacheLags = FALSE
    MaxCrashes = 1
    MaxApiErrors = 1
    MaxEdits = 0
    MaxNodeDeletes = 1
    MaxTimeouts = 1
SYMMETRY GoroutineSymmetry
CHECK_DEADLOCK FALSE
INVARIANTS NoTaintLeft OutOfServiceOnlyIfFenced AtMostOneAgent
PROPERTY InterruptionIsFinal

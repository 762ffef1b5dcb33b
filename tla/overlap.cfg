SPECIFICATION Spec
CONSTANTS
    f1 = f1  f2 = f2  n1 = n1  g1 = g1  g2 = g2  None = None
    FARs = {f1, f2}
    Nodes = {n1}
    NodeOf <- OneNode
    Strategy <- ByOutOfServiceTaint
    Slots = {g1, g2}
    ParamsOk = {f1, f2}
    RetryCount = 1
    NodeCacheLags = FALSE
    MaxCrashes = 0
    MaxApiErrors = 0
    MaxEdits = 0
    MaxNodeDeletes = 0
    MaxTimeouts = 0
SYMMETRY CRSymmetry
ACTION_CONSTRAINTS PromptWatch NoResync
CHECK_DEADLOCK FALSE
INVARIANTS NoTaintLeft ReportedOnlyIfFenced

SPECIFICATION Spec
CONSTANTS
    f1 = f1  f2 = f2  n1 = n1  g1 = g1  g2 = g2  None = None
    FARs = {f1}
    Nodes = {n1}
    NodeOf <- OneNode
    Strategy <- ByResourceDeletion
    Slots = {g1, g2}
    ParamsOk = {f1}
    RetryCount = 1
    NodeCacheLags = TRUE
    MaxCrashes = 0
    MaxApiErrors = 0
    MaxEdits = 1
    MaxNodeDeletes = 0
    MaxTimeouts = 0

CHECK_DEADLOCK FALSE
PROPERTY StartedIsDecided

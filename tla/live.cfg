SPECIFICATION Spec
CONSTANTS
    f1 = f1  f2 = f2  n1 = n1  g1 = g1  g2 = g2  None = None
    FARs = {f1}
    Nodes = {n1}
    NodeOf <- OneNode
    Strategy <- ByOutOfServiceTaint
    Slots = {g1}
    ParamsOk = {f1}
    RetryCount = 2
    NodeCacheLags = TRUE
    MaxCrashes = 1
    MaxApiErrors = 0
    MaxEdits = 0
    MaxNodeDeletes = 0
    MaxTimeouts = 1
CHECK_DEADLOCK FALSE
PROPERTIES StartedIsDecided DeletionCompletes ImplementsAbstract

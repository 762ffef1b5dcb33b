SPECIFICATION Spec
CONSTANTS
    NodeNames = {1, 2, 3}
    Specs <- SomeSpecs
    CacheLags = TRUE
    MaxEdits = 1
    MaxCrashes = 0
    MaxApiErrors = 0
CHECK_DEADLOCK FALSE
INVARIANT VerdictSound

SPECIFICATION Spec
CONSTANTS
    NodeNames = {1, 2, 3}
    Specs <- SomeSpecs
    CacheLags = FALSE
    MaxEdits = 1
    MaxCrashes = 1
    MaxApiErrors = 1
CHECK_DEADLOCK FALSE
INVARIANTS TypeOK VerdictSound EntriesOfRound VerdictMatchesReport
PROPERTY EventuallySettled

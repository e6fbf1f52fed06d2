SPECIFICATION Spec
CONSTANTS
    MaxMsgs = 2
    Operators = {o1}
    MaxRuns = 3
    MaxFaults = 2
    MaxLosses = 1
    CleanupInMove = FALSE
INVARIANTS AuthorityHolds ThreadIsWhole
PROPERTIES EventuallyReopened
CHECK_DEADLOCK FALSE

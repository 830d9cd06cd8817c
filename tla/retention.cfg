CONSTANTS
    Jobs = {1, 2}
    Processes = {p, q}
    Reapers = {r, s}
    Stuck = {1}
    Nobody = Nobody
    Limit = 2
    MaxRuns = 2
    MaxFailures = 1
    MaxCrashes = 1
SPECIFICATION FairSpec
INVARIANTS
    TypeOK
    NotUnderProcess
    ForgottenLeavesNothing
PROPERTIES
    OnlyExpiredIsDeleted
    EveryExpiredIsForgotten
CHECK_DEADLOCK FALSE

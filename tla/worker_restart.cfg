CONSTANTS
    Jobs = {1}
    AutoJobs = {1}
    Pids = {p1, p2}
    None = None
    Sandbox = TRUE
    MaxOrders = 1
    MaxCrashes = 1
    MaxRestarts = 1
SPECIFICATION Spec
SYMMETRY MCSymmetry
INVARIANT TypeOK
INVARIANT EditsOnlyUnprepared
INVARIANT CodexStartsClean
INVARIANT PublishedTreeIsFrozen
INVARIANT RefusedStaysPrivate
INVARIANT AtMostTwoRuns
INVARIANT IInv
PROPERTY BlockedNeedsForce
PROPERTY ImplementsLifecycle

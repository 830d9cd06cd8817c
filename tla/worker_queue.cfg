CONSTANTS
    Jobs = {1, 2}
    AutoJobs = {}
    Pids = {p1, p2}
    None = None
    Sandbox = TRUE
    MaxOrders = 1
    MaxCrashes = 1
    MaxRestarts = 1
SPECIFICATION CarefulSpec
SYMMETRY MCSymmetry
INVARIANT OneHeavyProcess
PROPERTY StoppedBeforeReleased
INVARIANT CancelStopsWork

CONSTANTS
    Jobs = {1, 2}
    AutoJobs = {}
    Pids = {p1, p2}
    None = None
    Sandbox = TRUE
    MaxOrders = 1
    MaxCrashes = 0
    MaxRestarts = 0
SPECIFICATION Spec
SYMMETRY MCSymmetry
INVARIANT OneHeavyProcess

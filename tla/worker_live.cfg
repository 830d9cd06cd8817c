CONSTANTS
    Jobs = {1}
    AutoJobs = {}
    Pids = {p1, p2}
    None = None
    Sandbox = TRUE
    MaxOrders = 1
    MaxCrashes = 1
    MaxRestarts = 1
SPECIFICATION FairSpec
PROPERTY EveryJobComesToRest

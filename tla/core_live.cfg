CONSTANTS
    CodexJobs = {1}
    PublishJobs = {2}
    AutoJobs = {1}
    None = None
    MaxDirects = 1
    MaxFailures = 1
    MaxCrashes = 1
    MaxRetries = 1
    MaxReclaims = 1
SPECIFICATION MCFairSpec
PROPERTY EveryJobIsTold
CHECK_DEADLOCK FALSE

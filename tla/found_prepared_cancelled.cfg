CONSTANTS
    CodexJobs = {1}
    PublishJobs = {2}
    AutoJobs = {}
    None = None
    MaxDirects = 1
    MaxFailures = 0
    MaxCrashes = 0
    MaxRetries = 0
    MaxReclaims = 0
SPECIFICATION Spec
PROPERTY PreparedIsKept
CHECK_DEADLOCK FALSE

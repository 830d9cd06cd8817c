CONSTANTS
    CodexJobs = {1}
    PublishJobs = {2}
    AutoJobs = {1}
    None = None
    MaxDirects = 2
    MaxFailures = 1
    MaxCrashes = 1
    MaxRetries = 1
    MaxReclaims = 1
SPECIFICATION Spec
INVARIANTS
    TypeOK
    OutcomesAreReal
    AcknowledgedIsTold
    WritesAreAllowed
    OneRunning
    CancelledPublicationStops
CHECK_DEADLOCK FALSE

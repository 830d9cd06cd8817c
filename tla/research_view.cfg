CONSTANTS
    Builders = {s, h}
    Service = s
    Nobody = Nobody
    Repos = {1, 2}
    Brain = 1
    MaxCommits = 2
    MaxBuilds = 2
    MaxKills = 2
    MaxFailures = 1
SPECIFICATION FairSpec
INVARIANTS
    TypeOK
    PublishedIsWhole
    ViewSurvives
PROPERTIES
    NeverBack
    StartsOnNewest
    ServiceComesUp
CHECK_DEADLOCK FALSE

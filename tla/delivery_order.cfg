CONSTANTS
    Conversations = {{c1,q1,j1}}
    Chats = {c1}
    Forgets = {}
    JobMessages = {j1}
    Tasks = {t1,t2}
    Starter = Starter
    None = None
    Redelivery = FALSE
    StorageFails = TRUE
    MaxParts = 2
    MaxNotices = 3
    MaxCrashes = 1
    MaxFailures = 2
    MaxLosses = 1
    MCDisturbances = 3
SPECIFICATION Spec
SYMMETRY MCSymmetry
CONSTRAINTS MCFewDisturbances MCJobsAlone
INVARIANTS RepeatsAreLostAcks OneFinalOutput
PROPERTIES NothingObsoleteIsSent ImplementsReliableDelivery

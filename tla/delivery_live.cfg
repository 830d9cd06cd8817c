CONSTANTS
    Conversations = {{c1},{q1},{j1}}
    Chats = {c1}
    Forgets = {}
    JobMessages = {j1}
    Tasks = {t1,t2}
    Starter = Starter
    None = None
    Redelivery = FALSE
    StorageFails = FALSE
    MaxParts = 1
    MaxNotices = 1
    MaxCrashes = 1
    MaxFailures = 1
    MaxLosses = 0
    MCDisturbances = 4
SPECIFICATION MCFairSpec
PROPERTY EveryRequestIsAnswered

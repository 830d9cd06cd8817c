CONSTANTS
    Conversations = {{c1,c2,f1}}
    Chats = {c1,c2}
    Forgets = {f1}
    JobMessages = {}
    Tasks = {t1,t2,t3}
    Starter = Starter
    None = None
    Redelivery = TRUE
    StorageFails = FALSE
    MaxParts = 2
    MaxNotices = 0
    MaxCrashes = 1
    MaxFailures = 0
    MaxLosses = 1
    MCDisturbances = 4
SPECIFICATION Spec
SYMMETRY MCSymmetry
INVARIANTS TypeOK MemoryIsWhatWasDelivered ChatUsesLiveMemory
PROPERTY ForgetErasesOnlyOlder

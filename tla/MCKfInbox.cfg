SPECIFICATION FairSpec
CONSTANTS
    w = w  c1 = c1
    NMsgs = 2
    Text <- TextMsgs
    Callbacks <- OneCallback
    Worker = w
    PageSize = 1
    ClaimLimit = 2
    MaxAttempts = 2
    Window = 1
    Retention = 2
    MaxDays = 4
    MaxFaults = 1
CONSTRAINT Bounds
INVARIANTS HolderKeepsRow NothingLost
PROPERTIES DoneStaysDone Settles

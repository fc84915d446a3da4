SPECIFICATION Spec
CONSTANTS
    w1 = w1
    w2 = w2
    bkA = bkA
    bkB = bkB
    bkN = bkN
    bkN2 = bkN2
    bkN3 = bkN3
    bkOld = bkOld
    bkOld2 = bkOld2
    ka = ka
    kb = kb
    kc = kc
    kn = kn
    kd = kd
    ke = ke
    ann = ann
    bob = bob
    chair1 = chair1
    chair2 = chair2
    Workers <- MCWorkers
    Bookings <- MCBookings
    IdemKeys <- MCIdemKeys
    LockKeys <- MCLockKeys
    Requests <- MCRequests
    Details <- MCDetails
    Rank <- MCRank
    Calls <- LostLockCalls
    Seeded <- MCSeeded
    NoBooking = NoBooking
    NoCall = NoCall
    Free = Free
    Orphan = Orphan
    GapLocks = TRUE
    AmbiguousCommit = FALSE
    ReaderRejects = FALSE
    MaxAttempts = 3
    MaxLosses = 1
    MaxCrashes = 0
    MaxPasses = 0
SYMMETRY Interchangeable
PROPERTIES OnlyHolderReleases OnlyOvertakersClash

CONSTANTS
    NumClkcForSync = 4
    NumVldPerInv = 4
    NumInvForLoss = 8
    NumClkcForHsr = 5
    LenHsr = 3
SPECIFICATION FairSpec
PROPERTIES
    SyncEarned
    SparseErrorsTolerated
    LinkRecovers
    PulseEarned
    WatchdogRetries

SPECIFICATION FairSpec
CONSTANTS
    TreeBreadth = 3
    NumThreads = 6
    ToSub <- MCToSub
    FromSub <- MCFromSub
    BlockSize <- MCBlockSize
    Plans <- MCPlans
INVARIANTS
    SyncAssertionsHold
    SyncDataLive
    EverybodyGetsTheReduction
    NothingPending
PROPERTIES
    KeepsMeeting
    SynchronizationEnds

SPECIFICATION SyncedSpec
CONSTANTS
    TreeBreadth = 2
    NumThreads = 4
    PassMax = 1
    MaxRuns = 2
    ToSub <- MCToSub
    FromSub <- MCFromSub
    Plans <- MCPlans
INVARIANTS
    NoAssertionFails
    EverybodySynchronized
PROPERTIES
    SyncedCallsReturn

SPECIFICATION FairSpec
CONSTANTS
    TreeBreadth = 2
    NumThreads = 4
    PassMax = 2
    MaxRuns = 3
    ToSub <- MCToSub
    FromSub <- MCFromSub
    BlockSize <- MCBlockSize
INVARIANTS
    TypeOK
    IInv
    AssertionsHold
    NoDanglingTask
    ResultComplete
    QuiescentBetweenCalls
    NothingLeftBehind
    SpareThreadsSleep
PROPERTIES
    KeepsPromise
    CallsReturn

SPECIFICATION FunctionsSpec
CONSTANTS
    TreeBreadth = 8
    Sizes <- MCSizes
    Width = 10
    Interference = 3
    Limit <- MCLimit
    PointerSize = 2
    WordSize = 1
    Thread = {t1, t2, t3}
    Caller = {t1, t2, t3}
    Null = Null
    Cores = 2
    Machines <- MCMachines
    Unset = Unset
    Unknown = Unknown
SYMMETRY Symmetry
INVARIANTS
    NotifiedExactlyOnceIffBlocksNest
    TraversalsAgree
    MergesInThreadOrder
    ParamsWork
    CoresAreCounted
    AllocatorsKeepPromises
    AlignmentsCombine
    AdaptorIsSound
    ArithmeticIsExact
    CountIsKnown
    SpansStayValid
    SizesFit

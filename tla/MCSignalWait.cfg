SPECIFICATION Spec
CONSTANTS
    a = a
    b = b
    Rounds = 3
    SpinLimit = 2
INVARIANTS
    FlagsAreReset
    StoresAreOrdered
PROPERTY
    KeepsHandover
\* With nothing more handed over, b waits forever.
CHECK_DEADLOCK FALSE

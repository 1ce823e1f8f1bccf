SPECIFICATION Spec
CONSTANTS
    Elements = {e1, e2}
    Rows = {r1, r2}
    Arrays = {a1, a2}
    Throwing = {r1, r2, a1, a2}
    Block = {k1, k2, k3, k4}
    Null = Null
    SizeOf = 3
    Alignment = 4
    MaxRows = 2
    MaxCols = 2
    Garbage = {0, 1, 5}
SYMMETRY Symmetry
INVARIANTS
    DestroysOnlyTheLiving
    BuffersAreWhole
    MemoryIsReturned

SPECIFICATION Spec
CONSTANTS
    Elements = {e1}
    Rows = {}
    Arrays = {}
    Throwing = {e1}
    Block = {k1}
    Null = Null
    SizeOf = 3
    Alignment = 4
    MaxRows = 2
    MaxCols = 1
    Garbage = {0, 1, 5}
INVARIANTS
    DestroysOnlyTheLiving

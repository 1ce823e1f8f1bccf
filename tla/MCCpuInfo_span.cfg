SPECIFICATION Spec
CONSTANTS
    Thread = {t1, t2}
    Null = Null
    Cores = 2
INVARIANTS
    SpanPointsToIds

SPECIFICATION Spec
CONSTANTS
    Thread = {t1}
    PageSize = 4
    LargePageSize = 8
    Word = 2
    MaxTraps = 2
    NumPages = 4
    SmallSizes = {0, 1, 6}
    LargeSizes = {3, 7}
SYMMETRY Symmetry
\* A program that gsl_FailFast has ended takes no step.
CHECK_DEADLOCK FALSE
INVARIANTS
    LargePagesAreReturned

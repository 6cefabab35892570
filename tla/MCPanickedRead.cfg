SPECIFICATION Spec
CONSTANTS
    Size = 2
    PipeCap = 1
    Panics = TRUE
CHECK_DEADLOCK FALSE
INVARIANT
    NeverTruncated

SPECIFICATION Spec
CONSTANTS
    Size = 3
    PipeCap = 2
    Panics = TRUE
CHECK_DEADLOCK FALSE
INVARIANTS
    StreamsTypeOK
    HeaderSealsWhole
    CleanEndIsWhole
PROPERTIES
    PutEnds
    TasksEnd
    ReadEnds

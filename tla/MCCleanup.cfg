SPECIFICATION Spec
CONSTANTS
    k1 = k1
    k2 = k2
    k3 = k3
    Keys = {k1, k2, k3}
    BatchSizes = {0, 2}
    PageSize = 2
    MaxChanges = 2
INVARIANTS
    CleanupTypeOK
    CountHonest
    PassExact
PROPERTY
    PassEnds

SPECIFICATION HSpec
CONSTANTS
    w1 = w1
    w2 = w2
    k1 = k1
    k2 = k2
    bad = bad
    Writers = {w1, w2}
    Keys = {k1}
    BadKeys = {bad}
    NoKey = NoKey
    Batches <- OneKeyBatches
    MaxWrites = 3
    MaxEpoch = 1
    TornWrites = TRUE
    Rekeys = TRUE
SYMMETRY WriterSymmetry
VIEW WithoutReplies
INVARIANTS
    TypeOK
    KeptPaired
    GoneStaysGone
    ObsoleteNeverBack

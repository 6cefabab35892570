SPECIFICATION HSpec
CONSTANTS
    w1 = w1
    w2 = w2
    k1 = k1
    k2 = k2
    bad = bad
    Writers = {w1}
    Keys = {k1}
    BadKeys = {bad}
    NoKey = NoKey
    Batches <- OneKeyBatches
    MaxWrites = 2
    MaxEpoch = 0
    TornWrites = FALSE
    Rekeys = TRUE
INVARIANT
    UnpairedDataInvisible

SPECIFICATION HSpec
CONSTANTS
    w1 = w1
    w2 = w2
    k1 = k1
    k2 = k2
    bad = bad
    Writers = {w1}
    Keys = {k1, k2}
    BadKeys = {bad}
    NoKey = NoKey
    Batches <- TwoKeyBatches
    MaxWrites = 4
    MaxEpoch = 0
    TornWrites = TRUE
    Rekeys = FALSE
VIEW WithoutReplies
INVARIANTS
    HistoryTypeOK
    KeptReadable
    GoneStaysGone

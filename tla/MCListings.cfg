SPECIFICATION RSpec
CONSTANTS
    w1 = w1
    w2 = w2
    r1 = r1
    k1 = k1
    k2 = k2
    bad = bad
    Writers = {w1}
    Readers = {r1}
    Keys = {k1, k2}
    BadKeys = {bad}
    NoKey = NoKey
    Batches <- TwoKeyBatches
    MaxWrites = 2
    MaxEpoch = 0
    TornWrites = TRUE
    Rekeys = FALSE
    ReadOps <- AllReads
VIEW WithoutReplies
PROPERTIES
    ReadsFindSteady
    ReadsMissAbsent
    ReadsNeverStale

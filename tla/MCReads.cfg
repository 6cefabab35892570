SPECIFICATION RSpec
CONSTANTS
    w1 = w1
    w2 = w2
    r1 = r1
    k1 = k1
    k2 = k2
    bad = bad
    Writers = {w1, w2}
    Readers = {r1}
    Keys = {k1}
    BadKeys = {bad}
    NoKey = NoKey
    Batches <- OneKeyBatches
    MaxWrites = 2
    MaxEpoch = 1
    TornWrites = FALSE
    Rekeys = TRUE
    ReadOps <- Gets
SYMMETRY WriterSymmetry
VIEW WithoutReplies
INVARIANT
    ReadsTypeOK
    KeptReadable
PROPERTIES
    ReadsFindSteady
    ReadsMissAbsent
    ReadsNeverStale

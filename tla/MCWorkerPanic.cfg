SPECIFICATION MHSafe
CONSTANTS
    o1 = o1
    p1 = p1
    m1 = m1
    m2 = m2
    c1 = c1
    h1 = h1
    Nothing = Nothing
    OnStarts = {}
    Periodics = {}
    Manuals = {m1}
    Customs = {}
    Handles = {h1}
    HandleOf <- OneHandle
    QueueCap = 1
    MaxTriggers = 2
    Panics = TRUE
CHECK_DEADLOCK FALSE
INVARIANT
    NoTriggerLost

SPECIFICATION MHSpec
CONSTANTS
    o1 = o1
    p1 = p1
    m1 = m1
    m2 = m2
    c1 = c1
    h1 = h1
    Nothing = Nothing
    OnStarts = {o1}
    Periodics = {p1}
    Manuals = {m1}
    Customs = {c1}
    Handles = {h1}
    HandleOf <- OneHandle
    QueueCap = 2
    MaxTriggers = 2
    Panics = TRUE
CHECK_DEADLOCK FALSE
INVARIANTS
    MaintenanceTypeOK
    TriggersKept
    PassesEarned
PROPERTIES
    TriggersServed
    OnStartRuns
    PeriodicRecurs
    DropEndsAll

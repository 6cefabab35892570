CONSTANTS
    tenant = tenant
    other = other
    Clients = {tenant, other}
    Tenants = {tenant}
    Kinds = {"fs", "s3"}
    Prefix <- P
    KeyOrder <- KeysInUse
    FsKeys <- KeySet
    Batches <- BatchesInUse
    Filters <- FiltersInUse
    Chunks = 2
    RootLost = TRUE
    StatsFail = TRUE
    Sizes = {1, 2, 3}
    MinPart = 2
    AskedPart = 1
    MaxParts = 2
    ChunkSize = 1
    PageSize = 1
SPECIFICATION Spec
INVARIANT TreeTypeOK
INVARIANT ObjectsWhole
INVARIANT UploadsComplete
PROPERTY BackendContract
PROPERTY PrefixContract
VIEW StateView

CONSTANTS
    Workers = {w1, w2}
    s1 = s1
    t1 = t1
    long = long
    empty = empty
    b1 = b1
    Schemas = {s1}
    Tenants = {t1}
    Docs = {long, empty}
    ChunkCount <- MCChunkCount
    Backends = {"qdrant"}
    Provisioned = {}
    MaxRecords = 3
    Bindings = {b1}
    Target <- MCTarget
    TenantOf <- MCTenantOf
    Polled = {b1}
    Pushing = {}
SPECIFICATION Spec
INVARIANTS TypeOK ChunkHasRow WholeDocument SyncAccounting CompletedCoversList
PROPERTIES ShutdownIsFinal
SYMMETRY WorkerSymmetry

CONSTANTS
    Workers = {w1, w2}
    s1 = s1
    t1 = t1
    long = long
    empty = empty
    b1 = b1
    Schemas = {s1}
    Tenants = {t1}
    Docs = {long}
    ChunkCount <- MCChunkCount
    Backends = {"memory"}
    Provisioned = {}
    MaxRecords = 1
    Bindings = {b1}
    Target <- MCTarget
    TenantOf <- MCTenantOf
    Polled = {b1}
    Pushing = {b1}
SPECIFICATION FairSpec

PROPERTIES RequestEnds PollStops

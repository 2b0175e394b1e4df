CONSTANTS
    Searches = {s}
    r1 = r1
    r2 = r2
    r3 = r3
    p1 = p1
    p3 = p3
    acme = acme
    Records = {r1, r2, r3}
    Pieces = {p1, p3}
    RecordOf <- MCRecordOf
    TenantOf <- MCTenantOf
    Tenants = {acme, none}
    NoTenant = none
    CandidateK = 2
    TopKs = {0, 1, 2}
    Alpha = 6
SPECIFICATION Spec
INVARIANTS TypeOK AnswerIsReadable ReceiptTellsAnswer BestAnswered

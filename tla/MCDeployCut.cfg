CONSTANTS
    Files <- FewFiles
    MaxApplies = 1
    SqlReserved = {"order"}
SPECIFICATION Spec
INVARIANTS AppliedServesAll
CHECK_DEADLOCK FALSE

CONSTANTS
    MaxStack = 3
    MaxSegs = 2
    MaxCells = 13
    MaxRules = 2
    Escaped <- MCEscaped
    Spelled <- MCSpelled
    Runnable <- MCRunnable
    Blocks <- MCBlocks
    Callers <- MCCallers
    Records <- MCRecords
    BatchMax = 2
    MaxNesting = 4
SPECIFICATION PolicySpec
CHECK_DEADLOCK FALSE
INVARIANTS VerdictIsMeaning DenyMissingHolds

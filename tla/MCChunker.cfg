CONSTANTS
    Bodies <- MCBodies
    Budgets = {0, 1, 2, 4}
    Overlaps = {0, 1, 3}
SPECIFICATION ChunkSpec
INVARIANTS ChunkTypeOK ParagraphsAreWhole BudgetKept
CHECK_DEADLOCK FALSE

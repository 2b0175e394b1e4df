CONSTANTS
    Items = {1, 2, 3}
    Unwanted = {2}
    ServerMax = 2
    Sizes = {0, 2, 3}
    Caps = {2, 5}
    MaxChanges = 2
    SendBudget = 2
SPECIFICATION FairSpec
CHECK_DEADLOCK FALSE
INVARIANTS TypeOK ListsEverything ListsOnce ShimIsBounded
PROPERTIES ListEnds

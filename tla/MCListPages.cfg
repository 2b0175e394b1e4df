CONSTANTS
    Ids = {1, 2, 3, 4}
    Limits = {0, 1, 3}
    Cap = 2
SPECIFICATION FairSpec
INVARIANTS TypeOK WalkIsComplete NoneTwice
PROPERTIES WalkEnds

CONSTANTS
    Tasks = {a, b}
    Skew = 1
    NegTtl = 1
    Lifetimes = {1, 2}
    RefreshTries = 2
    MaxTime = 3
    MaxIssued = 3
    MaxAttempts = 2
    NoOwner = none
SPECIFICATION FairSpec
INVARIANTS TypeOK RefreshOnlyWhenNeeded FreshAfterRefusal
PROPERTIES ImplementsBoundedSend SendTerminates

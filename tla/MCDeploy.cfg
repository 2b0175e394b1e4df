CONSTANTS
    Files <- AllFiles
    MaxApplies = 2
    SqlReserved = {"order"}
SPECIFICATION Spec
INVARIANTS DdlOutcome ServedRuns ArtifactsAgree
CHECK_DEADLOCK FALSE

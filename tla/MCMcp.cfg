CONSTANTS
    Clients = {alice, bob}
    Ttl = 2
    Bodies <- SomeBodies
    MaxSessions = 3
    MaxTime = 3
SPECIFICATION Spec
INVARIANTS TypeOK KeepsSession
CHECK_DEADLOCK FALSE

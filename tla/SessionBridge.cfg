SPECIFICATION Spec
CONSTANTS
    s1 = s1
    n1 = n1
    n2 = n2
    g1 = g1
    k1 = k1
    a1 = a1
    NoSession = NoSession
    Sessions = {s1}
    Nodes = {n1, n2}
    Grants = {g1}
    Rpcs = {k1}
    Admins = {a1}
    Home <- HomeN1
    GrantOf <- SameGrant
    At <- AtN1
    MaxMiss = 2
    MaxCrashes = 1
    MaxDbFails = 1
INVARIANTS
    LiveSessionKillable
    HandlesHaveBridges
    LiveSessionListed
    NoOrphanRows
    SealedAfterLastWrite
    KillIsReported
    
PROPERTY
    ImplementsLedger
CHECK_DEADLOCK FALSE

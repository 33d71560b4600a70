SPECIFICATION Spec
CONSTANTS
    s1 = s1
    n1 = n1
    n2 = n2
    g1 = g1
    k1 = k1
    a1 = a1
    NoSession = NoSession
    Sessions = {s1}
    Nodes = {n1}
    Grants = {g1}
    Rpcs = {}
    Admins = {a1}
    Home <- HomeN1
    GrantOf <- SameGrant
    At <- AtN1
    MaxMiss = 3
    MaxCrashes = 0
    MaxDbFails = 0
INVARIANT RevokedSessionsKilled
CHECK_DEADLOCK FALSE

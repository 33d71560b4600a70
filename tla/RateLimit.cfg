SPECIFICATION FairSpec
CONSTANTS
    i1 = i1
    i2 = i2
    c1 = c1
    c2 = c2
    l1 = l1
    l2 = l2
    l3 = l3
    l4 = l4
    NoIp = NoIp
    NoLimiter = NoLimiter
    Conns = {c1, c2}
    Ips = {i1, i2}
    Limiters = {l1, l2, l3, l4}
    Burst = 3
    TTL = 5
    MaxStall = 2
INVARIANTS
    HeldIsCurrent
PROPERTIES
    ImplementsQuota
    StaleForgotten

SPECIFICATION Spec
CONSTANTS
    u1 = u1
    w1 = w1
    w2 = w2
    w3 = w3
    Unknown = Unknown
    Users = {u1}
    Workers = {w1, w2}
    Threshold = 2
    LockFor = 1
    MaxFailed = 6
    MaxDbFails = 0
INVARIANT FailuresLock

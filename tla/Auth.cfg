SPECIFICATION FairSpec
CONSTANTS
    u1 = u1
    w1 = w1
    w2 = w2
    w3 = w3
    Unknown = Unknown
    Users = {u1}
    Workers = {w1, w2, w3}
    Threshold = 2
    LockFor = 2
    MaxFailed = 5
    MaxDbFails = 1
INVARIANTS
    ThresholdSetsLock
    GuessesBounded
    LockIsAlerted
PROPERTIES
    LockNotProlonged
    LocksExpire

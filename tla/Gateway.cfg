SPECIFICATION FairSpec
CONSTANTS
    Sizes <- MCSizes
    MaxServers = 1
    MaxInbox = 6
INVARIANTS
    
    MenuWaitsQuietly
CHECK_DEADLOCK FALSE
PROPERTIES
    GuardHolds
    ClientAnswered
    GoneEnds

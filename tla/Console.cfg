SPECIFICATION FairSpec
CONSTANTS
    Users <- MCUsers
    Hosts = {h1}
    NoUser = NoUser
    NoHost = NoHost
    MaxList = 2
    MaxKeys = 2
INVARIANTS
    CursorInRange
    
    OneReader
    RowsHaveKeys
PROPERTIES
    
    CtrlCStops
    
CHECK_DEADLOCK FALSE

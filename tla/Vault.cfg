SPECIFICATION FairSpec
CONSTANTS
    h1 = h1
    k1 = k1
    c1 = c1
    a1 = a1
    t1 = t1
    t2 = t2
    NoToken = NoToken
    NoFp = NoFp
    NoHost = NoHost
    Handlers = {c1}
    Consoles = {a1}
    Tokens = {t1, t2}
    HostKeys = {h1}
    ClientKey = k1
    Secrets <- MCSecrets
    Period = 2
    TTL = 4
    MaxVersions = 2
INVARIANTS
    TokensAgree
    
    HostVerified
    ExpiryMeansFailure
PROPERTIES
    HealsItself
    FetchAnswered
CHECK_DEADLOCK FALSE

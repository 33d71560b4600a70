SPECIFICATION Spec
CONSTANTS
    u1 = u1
    u2 = u2
    u3 = u3
    a1 = a1
    a2 = a2
    dev = dev
    prod = prod
    backend = backend
    ghost = ghost
    NoUser = NoUser
    Unassigned = Unassigned
    Environments = {dev, prod}
    Roles = {backend, ghost, Unassigned}
    EnvOf <- MCEnvOf
    AllowedEnvs <- MCAllowedEnvs
    SeedRole <- MCSeedRole
    SeedPolicies = {backend}
    Users = {u1}
    SeedUsers = {}
    Servers = {1, 2}
    SeedServers = {1}
    Admins = {a1, a2}
    MaxDbFails = 1
INVARIANTS
    SavedExact
    NeverWidens
    

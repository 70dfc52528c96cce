SPECIFICATION LSpec
CONSTANTS
    o1 = o1
    ada = ada
    ben = ben
    cy = cy
    val = val
    Users = {ada, ben, cy, val}
    Orgs = {o1}
    OtherRoles = {}
    MaxOpen = 2
    GrantIds = {g1, g2}
    TTL = 1
    OrgCap = 2
    CallerCap = 2
    GlobalCap = 2
    Vendors = {val}
    Changeable = {}
    Stoppable = {o1}
    Recovery = FALSE
    Sessions = {s1, s2, s3}
    NoRequest = NoRequest
    Requests <- AllRequests
    InitialTables <- MCTables
INVARIANT LockOrderEverywhere
SYMMETRY SessionSymmetry
CHECK_DEADLOCK FALSE

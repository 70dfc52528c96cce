SPECIFICATION Spec
CONSTANTS
    Users = {ada, ben, val}
    Orgs = {o1}
    OtherRoles = {}
    GrantIds = {g1}
    MaxOpen = 2
    TTL = 1
    OrgCap = 1
    CallerCap = 1
    GlobalCap = 1
    Vendors = {val}
    Changeable = {}
    Stoppable = {o1}
    Recovery = TRUE
INVARIANTS
    OneRowPerSlot
    SupportByConsent
    AuthorityDescends
CHECK_DEADLOCK FALSE

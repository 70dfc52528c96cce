SPECIFICATION Spec
CONSTANTS
    Users = {ada, ben, val}
    Orgs = {o1}
    OtherRoles = {}
    GrantIds = {}
    MaxOpen = 1
    TTL = 1
    OrgCap = 1
    CallerCap = 1
    GlobalCap = 1
    Vendors = {val}
    Changeable = {ada}
    Stoppable = {o1}
    Recovery = FALSE
PROPERTIES
    JoinedByConsent
    LastAdminKept
CHECK_DEADLOCK FALSE

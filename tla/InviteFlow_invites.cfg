SPECIFICATION Spec
CONSTANTS
    Requests = {r1, r2, r3}
    Orgs = {o1, o2, o3}
    Senders = {s1, s2}
    People = {p1, p2}
    OrgCap = 1
    CallerCap = 2
    GlobalCap = 1
    None = None
    o1 = o1
    s1 = s1
    AtFirst = {"none", "unusable"}
    Leaving <- FirstMembership
    Disabling = {s2}
INVARIANTS
    CapsBind
    OvershootIsSlight
    MailsAfterCommit
PROPERTY
    CreatedWithStanding
SYMMETRY Alike
CHECK_DEADLOCK FALSE

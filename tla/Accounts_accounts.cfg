SPECIFICATION Spec
CONSTANTS
    r1 = r1
    r2 = r2
    c1 = c1
    c2 = c2
    ada = ada
    ben = ben
    k1 = k1
    k2 = k2
    acme = acme
    None = none
    Requests = {r1, r2}
    Commands = {c1, c2}
    Subs = {ada, ben}
    Emails = {ada, ben}
    Names = {acme}
    Keys = {k1, k2}
    Tokens <- SomeTokens
    Calls <- SomeCalls
    Beginnings <- SomeBeginnings
    Casts <- SomeCasts
    MaxWrites = 1
CONSTRAINT Focus
INVARIANTS
    OnlyActiveCallers
    OneOrgPerName
PROPERTIES
    ConnectionsEarned
    BlamedOnlyInCooldown
    MadeByOperators
    AllEnd
CHECK_DEADLOCK FALSE

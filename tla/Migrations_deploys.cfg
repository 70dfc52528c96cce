SPECIFICATION Spec
CONSTANTS
    x = x
    y = y
    None = None
    Versions <- FourVersions
    Number <- FourNumbers
    Checksums = {x, y}
    Builds <- AllBuilds
    Runners = {r1, r2}
    Apis = {api}
INVARIANTS
    RecordsAreTrue
    InOrder
    WaitsItsTurn
    ServesOnItsSchema
PROPERTY
    ChangesAtOnce
PROPERTY EveryRunEnds
CHECK_DEADLOCK FALSE

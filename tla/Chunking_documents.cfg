SPECIFICATION Spec
CONSTANTS
    Target = 3
    MaxSafe = 5
    White = 0
    Chars <- SmallChars
    Stops <- FullStops
    Documents <- SmallDocuments
    MaxLines = 4
    Bodies <- SomeBodies
    Titles <- SomeTitles
INVARIANTS
    Storable
    SplitsOnlyGiants
PROPERTY Delivers
CHECK_DEADLOCK FALSE

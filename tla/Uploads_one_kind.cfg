SPECIFICATION Spec
CONSTANTS
    a = a
    b = b
    None = None
    Uploads = {u1, u2}
    Kinds = {"txt", "pdf"}
    Texts = {a, b, c}
    Parse <- Unreadable
INVARIANTS
    WholeDocument
    PaidOnce
    NobodyForgotten
PROPERTY EveryTaskEnds
CHECK_DEADLOCK FALSE

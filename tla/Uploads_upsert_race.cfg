SPECIFICATION Spec
CONSTANTS
    a = a
    b = b
    None = None
    Uploads = {u1, u2}
    Kinds = {"txt"}
    Texts = {a, b, c}
    Parse <- OneKind
PROPERTY UpsertSparesCompleted
CHECK_DEADLOCK FALSE

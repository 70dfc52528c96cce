SPECIFICATION Spec
CONSTANTS
    c1 = c1
    c2 = c2
    c3 = c3
    c4 = c4
    w1 = w1
    w2 = w2
    Chunks = {c1, c2, c3, c4}
    Near <- Alike
    Size <- Sizes
    Text <- Texts
    Junk = Junk
    Answers <- SomeAnswers
    PoolSize = 3
    MaxTokens = 3
    MinOverlap = 2
    MaxAttempts = 2
    MaxGrounding = 2
    MaxCited = 2
    Touchable = {c4}
INVARIANTS
    ContextFits
    NothingLostUnseen
    TriesCounted
    SilenceIsExplained
    GroundedAnswers
    EveryCitationShown
    CorrectionsAreComplete
PROPERTY EveryQuestionEnds
CHECK_DEADLOCK FALSE

CONSTANTS
    Coalesce = TRUE
    RoomsClose = TRUE
    Idle = TRUE
    Fails = TRUE
    MaxAhead = 2
    MaxDown = 2
SPECIFICATION FairSpec
CHECK_DEADLOCK FALSE
INVARIANTS
    ClientTypeOK
    InStep
    RequestsFitPage
    PromptIsAnswered
    GarbageIsNeverRead
PROPERTIES
    CancelSparesTyping
    EndsWhenAsked
    LossEndsSession

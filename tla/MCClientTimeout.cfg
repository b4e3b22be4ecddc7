SPECIFICATION FairSpec
CONSTANTS
    Coalesce = FALSE
    RoomsClose = FALSE
    Idle = TRUE
    Fails = FALSE
    MaxAhead = 1
    MaxDown = 1
PROPERTY TimeoutRestarts
CHECK_DEADLOCK FALSE

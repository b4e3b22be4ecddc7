CONSTANTS
    c1 = c1
    c2 = c2
    c3 = c3
    Conns = {c1, c2}
    Users = {c1, c2}
    Username <- OwnUsers
    NULL = NULL
    WordLen = 1
    Coalesce = FALSE
    Quitters = {}
    Rejoiners = {}
    MaxDown = 0
    MaxUp = 1
SPECIFICATION FairGameSpec
PROPERTIES
    TurnNeverStuck
    

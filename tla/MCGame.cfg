CONSTANTS
    c1 = c1
    c2 = c2
    c3 = c3
    Conns = {c1, c2, c3}
    Users = {"u1", "u2"}
    Username <- TwoUsers
    NULL = NULL
    WordLen = 1
    Coalesce = TRUE
    Quitters = {c1}
    Rejoiners = {c1}
    MaxDown = 0
    MaxUp = 1
VIEW GameView
SPECIFICATION GameSpec
INVARIANTS
    GameTypeOK
    

CONSTANTS
    c1 = c1
    c2 = c2
    c3 = c3
    c4 = c4
    Conns = {c1, c2, c3, c4}
    Users = {"u1", "u2", "u3"}
    Username <- ThreeUsers
    NULL = NULL
    WordLen = 3
SPECIFICATION FairSpec
INVARIANTS
    TypeOK
    RingMatchesFds
    WordHasGuesser
    OneReader
PROPERTIES
    HandoverAnnounced
    ImplementsMatch
    ClosingFreesPlayers

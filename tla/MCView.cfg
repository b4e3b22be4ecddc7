CONSTANTS
    c1 = c1
    c2 = c2
    c3 = c3
    Conns = {c1, c2, c3}
    Viewer = c1
    NULL = NULL
    File <- ThreeWords
    WaitCells = 1
    MaxUnread = 1
SPECIFICATION ViewSpec
SYMMETRY Symmetry
VIEW ScreenView
INVARIANTS
    ViewTypeOK
    HiddenShowsWord
    ScreenShowsMatch
    ScreenShowsPlayers
    OfferIsCurrent
PROPERTIES
    TurnSkipsSuzerain
CHECK_DEADLOCK FALSE

CONSTANTS
    s1 = s1
    s2 = s2
    s3 = s3
    r1 = r1
    r2 = r2
    r3 = r3
    NULL = NULL
    Services = {s1, s2, s3}
    Rooms = {r1, r2, r3}
    Ids = {1}
    MaxPlayers = 2
    Backlog = 1
SPECIFICATION Spec
SYMMETRY Symmetry
INVARIANTS
    LobbyTypeOK
    ListedWhileAlive
    PlayersAreServed
    PathsLeadToTheirRoom

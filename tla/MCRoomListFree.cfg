CONSTANTS
    r1 = r1
    r2 = r2
    r3 = r3
    r4 = r4
    s1 = s1
    NULL = NULL
    Rooms = {r1, r2, r3}
    Services = {s1}
SPECIFICATION Spec
INVARIANTS
    NoUseAfterFree

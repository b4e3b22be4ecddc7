CONSTANTS
    s1 = s1
    s2 = s2
    s3 = s3
    n1 = n1
    q1 = q1
    e1 = e1
    e2 = e2
    p1 = p1
    p2 = p2
    p3 = p3
    NULL = NULL
    Services = {s1, s2}
    Users <- TwoNames
    Quoted <- QuotedBoth
    Passwords = {p1, p2, p3}
    MaxErrors = 1
SPECIFICATION FairSpec
CHECK_DEADLOCK FALSE
INVARIANTS
    AccountsTypeOK
    ResultsNotMixed
    HomeIsAuthenticated
    RegisteredOwnName
PROPERTIES
    AnsweredUnlessAbandoned

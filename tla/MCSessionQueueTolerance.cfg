SPECIFICATION Spec
CONSTANTS
    a1 = a1
    a2 = a2
    gm = gm
    Accounts <- MCAccounts
    Privileged <- MCPrivileged
    Limits <- MCFixedLimit
    NoSession = NoSession
    InitialLimit = 2
    Tolerance = 1
    MaxSessions = 2
    MaxTime = 3
INVARIANTS ToleranceEnds

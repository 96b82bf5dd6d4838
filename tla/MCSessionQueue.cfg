SPECIFICATION Spec
CONSTANTS
    a1 = a1
    a2 = a2
    gm = gm
    Accounts <- MCAccounts
    Privileged <- MCPrivileged
    Limits <- MCTwoLimits
    NoSession = NoSession
    InitialLimit = 1
    Tolerance = 1
    MaxSessions = 4
    MaxTime = 1
INVARIANTS TypeOK NoDanglingSession QueueExact LimitExact ClosedSessionDeleted

SYMMETRY Symmetry

SPECIFICATION Spec
CONSTANTS
    LoopBreaker = 5
    MaxStatements = 3
    MaxFaults = 4
    MaxTasks = 4
INVARIANTS TypeOK ResultExact OrderRespected NoTransactionLeftOpen
PROPERTIES TaskEnds

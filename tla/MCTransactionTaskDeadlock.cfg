SPECIFICATION Spec
CONSTANTS
    LoopBreaker = 5
    MaxStatements = 3
    MaxFaults = 3
    MaxTasks = 3
INVARIANTS DeadlockRetried

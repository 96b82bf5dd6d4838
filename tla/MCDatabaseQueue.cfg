SPECIFICATION Spec
CONSTANTS
    NumWorkers = 3
    c1 = c1
    c2 = c2
    Clients <- MCClients
    MaxTasks = 5
INVARIANTS TypeOK ConnectionSafe
PROPERTIES WaitLeavesFew NoneStranded CloseEnds ImplementsOperationQueue

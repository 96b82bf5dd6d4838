SPECIFICATION Spec
CONSTANTS
    NumWorkers = 2
    c1 = c1
    c2 = c2
    Clients <- MCClients
    MaxTasks = 3
PROPERTIES WaitLeavesNone

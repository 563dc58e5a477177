SPECIFICATION QueueSpec

CONSTANTS
    anna = anna
    ben = ben
    replica1 = replica1
    replica2 = replica2
    Nil = Nil
    Users = {anna, ben}
    Arrivals <- MCArrivals
    Replicas = {replica1}
    Concurrency = 2
    MaxRetries = 2
    BreakAfter = 3
    MaxTasks = 3
    MaxWrites = 1
    MaxFaults = 1

INVARIANTS
    QueueTypeOK
    BoundedOvertaking

PROPERTIES
    NeverBackwards
    TasksAreKept

CHECK_DEADLOCK FALSE

SPECIFICATION Spec

CONSTANTS
    anna = anna
    ben = ben
    replica1 = replica1
    replica2 = replica2
    Replicas = {replica1, replica2}
    Users = {anna, ben}
    Seeded = {anna}
    ForNovu = {1}
    Overriding = {9}
    Refusing = {ben}
    MaxSwitches = 1
    Events = {1, 2, 3, 4, 5, 6, 7, 8, 9}
    Backlogs <- MCBacklogs
    Malformed = {}
    MaxAttempts = 2
    HandlerPoints <- MCHandlerPoints
    User <- MCUser
    Kind <- MCKind
    Named <- MCNamed
    ByRole <- MCByRole
    MaxTasks = 3
    MaxCopies = 2
    MaxFaults = 1

INVARIANTS
    TypeOK
    AckedUpdateIsEnqueued
    NoChangeLost
    AckedIsQueued
    OneMessagePerUser

PROPERTIES
    DocumentNeverBackwards
    EveryUpdateResolved
    BacklogIsWorkedOff

CHECK_DEADLOCK FALSE

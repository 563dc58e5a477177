SPECIFICATION Spec

CONSTANTS
    first = first
    second = second
    cron1 = cron1
    cron2 = cron2
    caller = caller
    replica1 = replica1
    replica2 = replica2
    novuApi = novuApi
    novu = novu
    Notifs = {first}
    Replicas = {replica1, replica2}
    CronWorkers = {cron1}
    Callers = {caller}
    Host <- TwoReplicas
    MaxRetries = 2
    Backoffs = 1
    BatchSize = 1
    Priority <- MCPriority
    CreatedAt <- MCCreatedAt
    Circuits <- MCCircuits
    Threshold <- SmallestThreshold
    ResetTime <- SmallestResetTime
    ApiCircuit = novuApi
    ClientCircuit = novu
    MaxFaults = 0

INVARIANTS
    TypeOK
    PendingIsOwned
    SentWasAccepted
    RetryCountBound

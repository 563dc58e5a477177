SPECIFICATION Spec

CONSTANTS
    first = first
    second = second
    cron1 = cron1
    cron2 = cron2
    caller = caller
    replica1 = replica1
    replica2 = replica2
    novuApi = novuApi
    novu = novu
    Notifs = {first, second}
    Replicas = {replica1}
    CronWorkers = {cron1}
    Callers = {}
    Host <- OneReplica
    MaxRetries = 2
    Backoffs = 1
    BatchSize = 1
    Priority <- MCPriority
    CreatedAt <- MCCreatedAt
    Circuits <- MCCircuits
    Threshold <- SmallestThreshold
    ResetTime <- SmallestResetTime
    ApiCircuit = novuApi
    ClientCircuit = novu
    MaxFaults = 1

INVARIANTS
    ExhaustedIsDeadLettered
    DuplicateNeedsFault

PROPERTIES
    SentIsFinal
    EveryFailureResolved

SPECIFICATION AdminSpec

CONSTANTS
    first = first
    second = second
    admin = admin
    cron1 = cron1
    replica1 = replica1
    novuApi = novuApi
    novu = novu
    Notifs = {first}
    Replicas = {replica1}
    CronWorkers = {cron1}
    Callers = {}
    Admins = {admin}
    MaxReleases = 1
    Host <- OneReplica
    MaxRetries = 2
    Backoffs = 1
    BatchSize = 1
    Priority <- MCPriority
    CreatedAt <- MCCreatedAt
    Circuits <- MCCircuits
    Threshold <- MCThreshold
    ResetTime <- MCResetTime
    ApiCircuit = novuApi
    ClientCircuit = novu
    MaxFaults = 0

PROPERTY
    RetriedIsResent

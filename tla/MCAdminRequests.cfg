SPECIFICATION Spec

CONSTANTS
    anna = anna
    ben = ben
    replica1 = replica1
    replica2 = replica2
    x = x
    y = y
    first = first
    again = again
    mixed = mixed
    large = large
    now = now
    later = later
    everyone = everyone
    cron1 = cron1
    cron2 = cron2
    None = None
    Replicas = {replica1, replica2}
    Batches = {first, again, mixed, large}
    Sessions <- MCSessions
    Content <- MCContent
    BatchKeys = {x, y}
    ChunkSize = 2
    MaxBatchSize = 3
    Announcements = {now, later, everyone}
    Scheduled = {later, everyone}
    Users = {anna, ben}
    Target <- MCTarget
    ByRole <- MCByRole
    Named <- MCNamed
    Crons = {cron1, cron2}
    Host <- MCHost
    MaxFaults = 1

INVARIANTS
    TypeOK
    PublishedOnce
    RefusedIsCovered
    AnswerIsHonest
    BroadcastIsComplete

PROPERTIES
    CancelIsFinal
    RequestsEnd

CHECK_DEADLOCK FALSE

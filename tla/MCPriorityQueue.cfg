SPECIFICATION PrioritySpec

CONSTANTS
    good = good
    bad = bad
    replica1 = replica1
    replica2 = replica2
    worker = worker
    Nothing = Nothing
    Replicas = {replica1, replica2}
    Workers = {worker}
    Channels = {1, 2}
    Keys = {good, bad}
    Poison = {bad}
    MaxRetries = 1
    MaxFaults = 1

INVARIANTS
    PriorityTypeOK
    NothingVanishes
    PoisonIsParkedInTime
    TwiceOnlyIfAgain

PROPERTIES
    EveryMessageSettles

CHECK_DEADLOCK FALSE

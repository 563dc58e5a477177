SPECIFICATION Spec

CONSTANTS
    delivery1 = delivery1
    delivery2 = delivery2
    subscriber = subscriber
    novuApi = novuApi
    novu = novu
    Calls <- MCCalls
    Circuits <- MCCircuits
    Threshold <- MCThreshold
    ResetTime <- MCResetTime
    Route <- MCRoute
    MaxOperatorOps = 1

INVARIANTS
    TypeOK
    TripsAtThreshold

PROPERTY
    RecoversWhenNovuIsUp

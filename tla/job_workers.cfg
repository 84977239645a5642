\* Two jobs, two workers, no clients; methods do not stall.
SPECIFICATION Spec
CONSTANTS
    j1 = j1
    j2 = j2
    w1 = w1
    w2 = w2
    c1 = c1
    c2 = c2
    idA = idA
    idB = idB
    None = None
    Jobs = {j1, j2}
    Workers = {w1, w2}
    Clients = {}
    WorkerIds = {idA, idB}
    Identity <- DistinctIds
    Budget <- OneOrTwoAttempts
    LeaseDuration = 1
    BackoffCap = 2
    MaxStall = 0
    TimelyWorkers = FALSE
    MaxBeats = 1
    MaxRequests = 0
    MaxTime = 4
PROPERTIES
    LifecycleSpec
    OutcomeByHolder


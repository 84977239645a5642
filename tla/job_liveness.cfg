\* Two jobs, one worker that renews its lease in time and may crash.
SPECIFICATION FairSpec
CONSTANTS
    j1 = j1
    j2 = j2
    w1 = w1
    w2 = w2
    c1 = c1
    c2 = c2
    idA = idA
    idB = idB
    None = None
    Jobs = {j1, j2}
    Workers = {w1}
    Clients = {}
    WorkerIds = {idA, idB}
    Identity <- DistinctIds
    Budget <- OneOrTwoAttempts
    LeaseDuration = 2
    BackoffCap = 1
    MaxStall = 0
    TimelyWorkers = TRUE
    MaxBeats = 0
    MaxRequests = 0
    MaxTime = 30
INVARIANTS
    WorkersSurvive
PROPERTIES
    EveryJobSettles


\* A handler outlives its lease: the only worker thread ends and nobody reclaims the job.
SPECIFICATION FairSpec
CONSTANTS
    j1 = j1
    j2 = j2
    w1 = w1
    w2 = w2
    c1 = c1
    c2 = c2
    idA = idA
    idB = idB
    None = None
    Jobs = {j1}
    Workers = {w1}
    Clients = {}
    WorkerIds = {idA, idB}
    Identity <- DistinctIds
    Budget <- TwoAttempts
    LeaseDuration = 1
    BackoffCap = 1
    MaxStall = 0
    TimelyWorkers = FALSE
    MaxBeats = 1
    MaxRequests = 0
    MaxTime = 6
PROPERTIES
    ExpiredLeasesRecover


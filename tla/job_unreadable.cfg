\* A cancellation races with the end of an attempt: the row can no longer be read.
SPECIFICATION Spec
CONSTANTS
    j1 = j1
    j2 = j2
    w1 = w1
    w2 = w2
    c1 = c1
    c2 = c2
    idA = idA
    idB = idB
    None = None
    Jobs = {j1}
    Workers = {w1}
    Clients = {c1}
    WorkerIds = {idA, idB}
    Identity <- DistinctIds
    Budget <- TwoAttempts
    LeaseDuration = 2
    BackoffCap = 1
    MaxStall = 0
    TimelyWorkers = TRUE
    MaxBeats = 1
    MaxRequests = 1
    MaxTime = 4
INVARIANTS
    RowsReadable


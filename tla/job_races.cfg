\* One job, two workers, two clients: every race of the queue, stalls included.
SPECIFICATION Spec
CONSTANTS
    j1 = j1
    j2 = j2
    w1 = w1
    w2 = w2
    c1 = c1
    c2 = c2
    idA = idA
    idB = idB
    None = None
    Jobs = {j1}
    Workers = {w1, w2}
    Clients = {c1, c2}
    WorkerIds = {idA, idB}
    Identity <- DistinctIds
    Budget <- TwoAttempts
    LeaseDuration = 1
    BackoffCap = 1
    MaxStall = 2
    TimelyWorkers = FALSE
    MaxBeats = 1
    MaxRequests = 1
    MaxTime = 3
INVARIANTS
    TypeOK
    RunningIsLeased
    QueuedIsFresh
    TerminalIsCompleted
    AttemptsWithinBudget
PROPERTIES
    LeaseSpec


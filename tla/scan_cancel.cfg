\* A cancellation is noticed by the pipeline while it processes its items.
SPECIFICATION ScanSpec
CONSTANTS
    i1 = i1
    i2 = i2
    i3 = i3
    NoItem = NoItem
    job = job
    w1 = w1
    id = id
    c1 = c1
    None = None
    Items = {i1, i2}
    MaxItems = 2
    Configurations <- TwoConfigurations
    Job = job
    Worker = w1
    Clients = {c1}
    WorkerIds = {id}
    Identity <- OneWorker
    Budget <- OneAttempt
    LeaseDuration = 1
    BackoffCap = 1
    MaxStall = 0
    TimelyWorkers = TRUE
    MaxRequests = 1
    MaxTime = 2
PROPERTIES
    CancellationKeepsCoverage

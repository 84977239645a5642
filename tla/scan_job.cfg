\* One job that scans up to two of three items: cancellation, lease expiry and crashes at any event.
SPECIFICATION ScanSpec
CONSTANTS
    i1 = i1
    i2 = i2
    i3 = i3
    NoItem = NoItem
    job = job
    w1 = w1
    id = id
    c1 = c1
    None = None
    Items = {i1, i2, i3}
    MaxItems = 2
    Configurations <- TwoConfigurations
    Job = job
    Worker = w1
    Clients = {c1}
    WorkerIds = {id}
    Identity <- OneWorker
    Budget <- TwoAttempts
    LeaseDuration = 1
    BackoffCap = 1
    MaxStall = 0
    TimelyWorkers = FALSE
    MaxRequests = 2
    MaxTime = 1
SYMMETRY ItemSymmetry
INVARIANTS
    TypeOK
    Accounting
    ResultsAligned
    CompletedMeansAll
    AssessedChecksRan
    SucceededJobsReport
PROPERTIES
    ScanLeases

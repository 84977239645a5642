\* One run of a small library: cancellation, expiry, redirects, errors and time at every await.
SPECIFICATION FairSpec
CONSTANTS
    Languages <- TwoLanguages
    Library <- SmallLibrary
    Capabilities <- AllCapabilities
    Plans <- SomePlans
    MaxRequests = 3
    MaxFailures = 1
    MaxRedirects = 1
    Pauses = TRUE
CHECK_DEADLOCK FALSE
INVARIANTS
    TypeOK
    PlanBudgets
    BooksAgree
    ControlsFirst
    SafeModeIsSafe
    StatusIsHonest
PROPERTIES
    CancelledIsSilent
    RunEnds

SPECIFICATION Spec
CONSTANTS
    Burst = 2
    Gap = 2
    JobKinds <- MCJobKinds
    DefaultCap = 3
    MaxCap = 5
    PageSize = 2
    FetchBatch = 2
    MaxRetries = 1
    BackoffCap = 2
    MaxRows = 6
    ListPages = 2
    MaxNow = 6
CHECK_DEADLOCK FALSE
INVARIANTS EngineTypeOK PacedCalls RequestsBounded TruncatedIffMore RemovalTried 

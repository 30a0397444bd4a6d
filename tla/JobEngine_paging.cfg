SPECIFICATION Spec
CONSTANTS
    Burst = 2
    Gap = 2
    JobKinds <- QueryKinds
    DefaultCap = 3
    MaxCap = 4
    PageSize = 2
    FetchBatch = 2
    MaxRetries = 1
    BackoffCap = 2
    MaxRows = 5
    ListPages = 2
    MaxNow = 6
CHECK_DEADLOCK FALSE
INVARIANT TruncationNeverSilent

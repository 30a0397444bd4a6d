\* One snapshot key, three requests: every collision between a live row and a
\* queued follower.
SPECIFICATION Spec
CONSTANTS
    j1 = j1  j2 = j2  j3 = j3
    t1 = t1  t2 = t2  t3 = t3
    snap = snap  harvest = harvest  probe = probe
    None = None
    Job = {j1, j2, j3}
    Key = {snap}
    BatchKey = {snap}
    SnapshotKey = {snap}
    Trigger = {t1, t2, t3}
    Limits <- MCLimits
    LeaseTtl = 1
    RetryBase = 1
    RetryCap = 1
    RetryAfter = {0, 2}
    Retention = 1
VIEW QueueView
SYMMETRY RequestSymmetry
INVARIANTS
    TypeOK
    OneQueuedPerKey
    OneLivePerKey
    DeliveredByLastHolder
    TriggersAccounted
    BoundedExecution
    DeferralHonoured
    CoalescedIntoResolves
    StoreMatchesHistory
PROPERTIES
    CancelSticks
    ImplementsRequestService

\* One runner, two requests for one snapshot key.
SPECIFICATION FleetSpec
CONSTANTS
    j1 = j1  j2 = j2
    t1 = t1  t2 = t2
    r1 = r1  r2 = r2
    snap = snap  probe = probe
    None = None
    Job = {j1, j2}
    Key = {snap}
    BatchKey = {snap}
    SnapshotKey = {snap}
    Trigger = {t1, t2}
    Runner = {r1}
    Limits <- MCLimits
    LeaseTtl = 1
    RetryBase = 1
    RetryCap = 1
    RetryAfter = {1}
    Retention = 1
VIEW FleetView
INVARIANT
    FleetTypeOK
PROPERTIES
    EveryRequestSettles
    RunnerFreed

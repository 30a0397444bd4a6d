\* A snapshot key beside an interactive key, with jobs that may be tried once or
\* twice, and the health feed.
SPECIFICATION Spec
CONSTANTS
    j1 = j1  j2 = j2  j3 = j3
    t1 = t1  t2 = t2  t3 = t3
    snap = snap  harvest = harvest  probe = probe
    None = None
    Job = {j1, j2}
    Key = {snap, probe}
    BatchKey = {snap}
    SnapshotKey = {snap}
    Trigger = {t1, t2}
    Limits <- MCMixedLimits
    LeaseTtl = 1
    RetryBase = 1
    RetryCap = 1
    RetryAfter = {1}
    Retention = 2
VIEW HealthView
SYMMETRY RequestSymmetry
INVARIANT
    AlarmedIffDead

\* Two systems, with restarts of the core, a wheel to carry, and a gateway attestation.
SPECIFICATION Spec
CHECK_DEADLOCK FALSE
CONSTANTS
    j1 = j1  j2 = j2  j3 = j3
    t1 = t1  t2 = t2  t3 = t3
    s1 = s1  s2 = s2
    c1 = c1  c2 = c2
    None = None
    System = {s1, s2}
    Job = {j1, j2}
    Trigger = {t1, t2}
    Manual = {t1, t2}
    Content = {c1, c2}
    Retention = 1
    PrRetries = 1
    MaxHead = 2
    MaxRestart = 1
    MaxAttest = 1
SYMMETRY SyncSymmetry
INVARIANTS
    RestatementKeepsDrift
    MarksKept

\* One system: marks that meet a run in progress, jobs absorbed and coalesced under a
\* waiting run, a restart of the core, and runs that end although jobs need not.
SPECIFICATION FairSpec
CHECK_DEADLOCK FALSE
CONSTANTS
    j1 = j1  j2 = j2  j3 = j3
    t1 = t1  t2 = t2  t3 = t3
    s1 = s1  s2 = s2
    c1 = c1  c2 = c2
    None = None
    System = {s1}
    Job = {j1, j2}
    Trigger = {t1, t2}
    Manual = {}
    Content = {c1}
    Retention = 1
    PrRetries = 1
    MaxHead = 1
    MaxRestart = 1
    MaxAttest = 0
INVARIANTS
    SyncTypeOK
    LastMarkServed
    OneCurrentPr
PROPERTY
    TriggersConclude

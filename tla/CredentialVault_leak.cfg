SPECIFICATION Spec
CONSTANTS
    pre = pre  j1 = j1  j2 = j2
    dsn = dsn  key = key  plain = plain  odd = odd
    Preflight = pre
    Job = {j1, j2}
    NeedsGate = {j1}
    RefsOf <- MCRefsOf
    EnvRef = {plain}
    BadRef = {odd}
    RenewMargin = 1
    MinHold = 1
    Leases = {1, 3}
    MaxNow = 3
    MaxVersion = 2
    MaxEvents = 2
CHECK_DEADLOCK FALSE
INVARIANT NothingOutlives

\* A table, two views and a metric, four docs: two changes of the sources at any point
\* of a capture, with a publish, merges and one repair.
SPECIFICATION KbSpec
CHECK_DEADLOCK FALSE
CONSTANTS
    Absent = Absent
    None = None
    System <- MCSystem
    Class <- MCClass
    Shape <- MCShape
    First <- MCFirst
    Doc <- MCDoc
    Paper <- MCPaper
    Report <- MCReport
    Backing <- MCBacking
    MaxDdl = 2
    MaxCommit = 1
CONSTRAINT OneCapture
INVARIANTS
    NoContaminationEscapes
    VerifiedIsCurrent
    PrPassesCI

\* Two deliveries of one artifact, one after the other.
SPECIFICATION Spec
CONSTANTS
    d1 = d1  d2 = d2  a1 = a1
    x = x  y = y
    None = None
    Deliver = {d1, d2}
    Attest = {}
    Content = {x, y}
    SchemaOf <- MCSchemaOf
    Tables = 2
    Batches = 1
    MaxRetries = 1
    MaxFaults = 1
SYMMETRY Symmetry
CHECK_DEADLOCK FALSE
INVARIANT
    CompleteOrPrevious

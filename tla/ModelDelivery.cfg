\* Two deliveries and an attestation of one artifact.
SPECIFICATION Spec
CONSTANTS
    d1 = d1  d2 = d2  a1 = a1
    x = x  y = y
    None = None
    Deliver = {d1, d2}
    Attest = {a1}
    Content = {x, y}
    SchemaOf <- MCSchemaOf
    Tables = 2
    Batches = 1
    MaxRetries = 1
    MaxFaults = 2
SYMMETRY Symmetry
CHECK_DEADLOCK FALSE
INVARIANTS
    DeliveryTypeOK
    RevisionsUnique
    RedeliveryConverges
    LossConfined
    NoPartialFirstModel
    AttestedWasDelivered

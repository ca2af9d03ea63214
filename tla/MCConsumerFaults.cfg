CONSTANTS
    e1 = e1  e2 = e2
    w1 = w1  w2 = w2
    Events = {e1, e2}
    Workers = {w1, w2}
    MaxRetries = 2
    Deliveries = 1
    MaxVersion = 1
    Garbled = {}
    Malformed = {e2}
    Unsubscribed = {}
    FaultSets <- Anything
SPECIFICATION Spec
SYMMETRY Symmetry
INVARIANTS
    TypeOK
    LeaseProtects
    NothingLost

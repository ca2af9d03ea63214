CONSTANTS
    e1 = e1  e2 = e2
    w1 = w1  w2 = w2
    Events = {e1}
    Workers = {w1, w2}
    MaxRetries = 3
    Deliveries = 2
    MaxVersion = 1
    Garbled = {}
    Malformed = {}
    Unsubscribed = {}
    FaultSets <- NobodyFenced
SPECIFICATION FairSpec
INVARIANTS
    AppliedOnce
PROPERTIES
    EventsSettle

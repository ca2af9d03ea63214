CONSTANTS
    p1 = p1  p2 = p2  k1 = k1
    w = w  h1 = h1  h2 = h2  r1 = r1
    Payments = {p1, p2}
    Key <- MCKey
    Target <- MCTarget
    Asked <- MCAsked
    Paid <- MCPaid
    Hooks = {h1, h2}
    Reapers = {r1}
    MaxRetryAttempts = 3
    MaxRetry = 3
    Echoes = TRUE
SPECIFICATION FairSpec
CHECK_DEADLOCK FALSE
INVARIANTS
    TypeOK
    CreditMatchesPayment
    OnePaymentPerKey
PROPERTIES
    PendingResolves

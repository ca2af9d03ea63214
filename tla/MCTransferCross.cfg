CONSTANTS
    r1 = r1  r2 = r2  r3 = r3
    k1 = k1  k2 = k2
    alice = alice  bob = bob  carol = carol  savings = savings  rev = rev
    Requests = {r1, r2, r3}
    Keys = {k1, k2}
    Wallets = {alice, bob, carol, savings, rev}
    Revenue = rev
    Kind <- MCKind
    Key <- MCKey
    From <- MCFrom
    To <- MCTo
    Amount <- MCAmount
    Fee <- MCFee
    InitialBalance <- MCBalance
    Freezable = {bob}
    BalanceCap = 2
SPECIFICATION FairSpec
INVARIANTS
    CommitsAreWhole
PROPERTIES
    LocksReleased
    CapHoldsAtCommit
    ImplementsAtomicTransfer

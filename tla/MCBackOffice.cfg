\* Every service beside the others, with the faults each is exposed to.
SPECIFICATION FairSpec
CONSTANTS
    MailAttempts = 2
    QueueAttempts = 2
    MaxMishaps = 2
    Users <- MCUsers
    Revenue = "revenue"
    Treasury = "treasury"
    Adjustments = "adjustments"
    External = "external"
    VaultIds <- MCVaultIds
    Keys <- MCKeys
    Transfers <- MCTransfers
    Jobs <- MCJobs
    Requests <- MCRequests
    Request <- MCRequest
    InitialBalance <- MCBalance
    InitialDrift <- MCDrift
    InitialVault <- MCVault
    InitialAccrual <- MCAccrual
    Workloads <- MCWorkloads
INVARIANTS
    TypeOK
    BooksHold
    DepositOnce
    VaultsHold
    StrandedForCause
    ReversedOnce
    SettledTwiceOnlyBlindly
    RunsHold
    AnnouncedOnce
    ReadModelFollows
    MisfiledForCause
PROPERTIES
    NegativeAnnounced
    ReversalSettled
    MailSettles
CHECK_DEADLOCK FALSE

\* A reversal with its fee, and the waiver of that fee.
SPECIFICATION Spec
CONSTANTS
    MailAttempts = 2
    QueueAttempts = 2
    MaxMishaps = 2
    Users <- MCUsers
    Revenue = "revenue"
    Treasury = "treasury"
    Adjustments = "adjustments"
    External = "external"
    VaultIds <- MCVaultIds
    Keys <- MCKeys
    Transfers <- MCTransfers
    Jobs <- MCJobs
    Requests <- MCRequests
    Request <- MCRequest
    InitialBalance <- MCBalance
    InitialDrift <- MCDrift
    InitialVault <- MCVault
    InitialAccrual <- MCAccrual
    Workloads <- FeeWorkloads
INVARIANT
    FeeRefundedOnce
CHECK_DEADLOCK FALSE

\* Sessions, credentials and tabs, each workload with the faults it is exposed to.
SPECIFICATION FairSpec
CONSTANTS
    Devices <- MCDevices
    Tabs <- MCTabs
    Jobs <- MCJobs
    Requests <- MCRequests
    Request <- MCRequest
    Workloads <- MCWorkloads
    MaxAttempts = 2
    MaxPerHour = 2
    MaxOutages = 2
    NoToken = "none"
INVARIANTS
    TypeOK
    ReuseForCause
    RevocationsHold
    PasswordCacheFresh
    CodesHold
    SecretsSingleUse
    PinLockHolds
PROPERTIES
    LockEndsForCause
    CallsSettle
CHECK_DEADLOCK FALSE

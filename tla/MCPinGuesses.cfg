\* Wrong PINs that are tried side by side.
SPECIFICATION Spec
CONSTANTS
    Devices <- MCDevices
    Tabs <- MCTabs
    Jobs <- MCJobs
    Requests <- MCRequests
    Request <- MCRequest
    Workloads <- CredentialWorkloads
    MaxAttempts = 2
    MaxPerHour = 2
    MaxOutages = 0
    NoToken = "none"
INVARIANTS
    MaxPinAttempts
CHECK_DEADLOCK FALSE

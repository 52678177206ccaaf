SPECIFICATION FairSpec
CONSTANTS
    w1 = w1
    w2 = w2
    s1 = s1
    s2 = s2
    s3 = s3
    None = None
    Workers = {w1, w2}
    Slots = {s1, s2}
    MaxAttempts = 3
    Expiring = {}
    SelfCast = {}
    Stalls = FALSE
    GasReverts = FALSE
    MaxNonce = 2
    MaxCrashes = 1
    MaxFaults = 1
    JobIds <- MCJobIds
    WorkerOf <- MCWorkerOf
    JobKey <- MCJobKey
    Keys <- MCJobIds
    Deploys <- MCDeploys
INVARIANTS
    NoncesDense
    OneLiveTransaction
PROPERTIES
    EveryPreparedMined
    EveryJobSettled
CHECK_DEADLOCK FALSE

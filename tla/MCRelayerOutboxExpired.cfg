SPECIFICATION FairSpec
CONSTANTS
    w1 = w1
    w2 = w2
    s1 = s1
    s2 = s2
    s3 = s3
    None = None
    Workers = {w1, w2}
    Slots = {s1}
    MaxAttempts = 2
    Expiring = {1}
    SelfCast = {}
    Stalls = FALSE
    GasReverts = FALSE
    MaxNonce = 2
    MaxCrashes = 1
    MaxFaults = 0
    JobIds <- MCJobIds
    WorkerOf <- MCWorkerOf
    JobKey <- MCJobKey
    Keys <- MCJobIds
    Deploys <- MCDeploys
PROPERTIES
    EveryPreparedMined
CHECK_DEADLOCK FALSE

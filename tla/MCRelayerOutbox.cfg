SPECIFICATION Spec
CONSTANTS
    w1 = w1
    w2 = w2
    s1 = s1
    s2 = s2
    s3 = s3
    None = None
    Workers = {w1, w2}
    Slots = {s1, s2}
    MaxAttempts = 1
    Expiring = {1}
    SelfCast = {2}
    Stalls = TRUE
    GasReverts = TRUE
    MaxNonce = 2
    MaxCrashes = 0
    MaxFaults = 0
    JobIds <- MCJobIds
    WorkerOf <- MCWorkerOf
    JobKey <- MCJobKey
    Keys <- MCJobIds
    Deploys <- MCDeploys
INVARIANTS
    OneLiveTransaction
    ProjectionTruthful
    CompletedIsSettled
PROPERTIES
    ConfirmedIsFinal
CHECK_DEADLOCK FALSE

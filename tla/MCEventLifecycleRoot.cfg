SPECIFICATION Spec
CONSTANTS
    w1 = w1
    w2 = w2
    s1 = s1
    s2 = s2
    r1 = r1
    r2 = r2
    snapshot = snapshot
    deploy = deploy
    Keys = {snapshot, deploy}
    Workers = {w1, w2}
    Slots = {s1, s2}
    RetrySnapshots = {r1}
    RetryDeployments = {r2}
    LastBlock = 2
    MaxTx = 2
    MaxAttempts = 2
    MaxCrashes = 1
    MaxFaults = 1
    None = None
    JobIds <- MCJobIds
    WorkerOf <- MCWorkerOf
INVARIANTS
    DeployedRootServed
CHECK_DEADLOCK FALSE

SPECIFICATION Spec
CONSTANTS
    w1 = w1
    w2 = w2
    s1 = s1
    s2 = s2
    s3 = s3
    vote = vote
    other = other
    c1 = c1
    c2 = c2
    c3 = c3
    None = None
    Keys = {vote, other}
    Workers = {w1, w2}
    Slots = {s1, s2, s3}
    Callers = {c1, c2, c3}
    DirectKeys = {other}
    ReorgKeys = {other}
    StallKeys = {other}
    MaxCrashes = 1
    MaxAttempts = 2
    JobIds <- MCJobIds
    WorkerOf <- MCWorkerOf
    KeyOf <- MCKeyOf
INVARIANTS
    ActiveKeyUnique
    OneRunnerPerJob
    RunnerOwnsRow
    RetryKeepsRow
    NoEnqueueConflict
SYMMETRY MCSymmetry
CHECK_DEADLOCK FALSE

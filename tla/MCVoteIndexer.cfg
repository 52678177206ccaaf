SPECIFICATION FairSpec
CONSTANTS
    a = a
    w1 = w1
    s1 = s1
    None = None
    Keys = {a}
    Signers = {a}
    SelfCast = {a}
    Workers = {w1}
    Slots = {s1}
    Confirmations = 1
    Overlap = 1
    ChunkSize = 2
    ReorgDepth = 2
    Drops = FALSE
    MaxBlock = 4
    MaxReorgs = 1
    MaxAttempts = 1
    MaxFaults = 1
    JobIds <- MCJobIds
    WorkerOf <- MCWorkerOf
INVARIANTS
    NothingSkipped
    RequeueFits
PROPERTY
    CountedVotesConfirmed
CHECK_DEADLOCK FALSE

SPECIFICATION FairSpec
CONSTANTS
    e1 = e1
    e2 = e2
    None = None
    Wallets = {1, 2, 3}
    Zero = 0
    Genesis <- MCGenesis
    Moves <- MCMoves
    Events = {e1, e2}
    RecordAt <- MCRecordAt
    DeployedAt = 1
    ScanStart = 0
    VoteUnit = 1
    Confirmations = 1
    Overlap = 1
    ChunkSize = 4
    MaxCandidates = 2
    RpcRange = 2
    MaxLag = 1
    MaxAttempts = 2
    MaxHeight = 4
    MaxReorgs = 1
    MaxFaults = 1
    TreeSizes = {1, 2, 3, 4, 5, 6, 7, 9}
INVARIANTS
    SnapshotComplete
    CandidatesComplete
    ServedProofsVerify
PROPERTIES
    StandardTokenKept
    BuildSettles
CHECK_DEADLOCK FALSE

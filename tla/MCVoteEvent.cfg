SPECIFICATION Spec
CONSTANTS
    ann = ann
    bob = bob
    cid = cid
    dan = dan
    eve = eve
    None = None
    Voters <- MCVoters
    Balance <- MCBalance
    Signed <- MCSigned
    Configs <- MCConfigs
    Requests <- MCRequests
    VoteUnit = 2
    SnapshotBlock = 0
    VotingStart = 2
    VotingEnd = 4
    MaxTime = 6
    MaxLag = 1
INVARIANTS
    OneFinalVote
    CountedBallotsAuthentic
    PackingAgrees
    OnlyLateBallotsMissing
PROPERTIES
    ImplementsBallotBox
CHECK_DEADLOCK FALSE

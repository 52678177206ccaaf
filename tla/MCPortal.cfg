SPECIFICATION Spec
SYMMETRY MCSymmetry
CONSTANTS
    ann = ann
    bob = bob
    t1 = t1
    t2 = t2
    yes = yes
    no = no
    None = None
    Wallets = {ann, bob}
    Eligible = {ann, bob}
    Creator = bob
    Ballots = {yes, no}
    Tasks = {t1, t2}
    Messages = {1, 2, 3, 4, 5}
    Published = {1, 3, 4, 5}
    OffOrigin = {3}
    Expiring = {1}
    DeliveryMode = "ELIGIBLE"
    MaxStored = 2
    MaxChallenges = 3
    MaxRepeats = 1
    MaxStarts = 2
    MaxIncidents = 2
    AudienceOf <- MCAudienceOf
    Scenarios <- MCScenarios
INVARIANTS
    ChallengeOpensOneSession
    BallotBySigner
    DeliveredWasIngested
PROPERTIES
    FirstBallotStands
    MessagesLeaveForCause
CHECK_DEADLOCK FALSE

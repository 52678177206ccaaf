SPECIFICATION FairLoopSpec
CONSTANTS
    w1 = w1
    s1 = s1
    s2 = s2
    vote = vote
    verify = verify
    c1 = c1
    None = None
    Keys = {vote, verify}
    Workers = {w1}
    Slots = {s1, s2}
    Callers = {c1}
    DirectKeys = {vote}
    ReorgKeys = {vote}
    StallKeys = {vote}
    MaxCrashes = 1
    MaxIncidents = 1
    MaxAttempts = 2
    JobIds <- MCJobIds
    WorkerOf <- MCWorkerOf
    KeyOf <- MCKeyOf
INVARIANTS
    ShutdownCutsOffOne
    RunsKeepRows
PROPERTIES
    EveryJobSettles
CHECK_DEADLOCK FALSE

--------------------------- MODULE MCRelayerOutbox ---------------------------
(* Instances of RelayerOutbox for TLC: job 1 deploys an event, the others  *)
(* relay a vote; worker w1 has the slots s1 and s3, w2 the slot s2.        *)
EXTENDS RelayerOutbox

CONSTANTS w1, w2, s1, s2, s3

MCJobIds == 1..2
MCDeploys == {1}
MCVotes == {2}
MCJobKey == [j \in JobIds |-> j]
MCWorkerOf == [s \in Slots |-> IF s = s2 THEN w2 ELSE w1]
=============================================================================

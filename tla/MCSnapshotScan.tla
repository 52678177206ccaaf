--------------------------- MODULE MCSnapshotScan ---------------------------
(* Instances of SnapshotScan for TLC: wallets 1 and 3 hold a unit each, and *)
(* wallet 1 gives its own to 3, to 2, which is a candidate too many, or to  *)
(* 2 without a log.  e1 records the block of the deployment and e2 a later  *)
(* one: both scan, one after the other or one while the other waits.        *)
EXTENDS SnapshotScan

CONSTANTS e1, e2

MCGenesis == [w \in Wallets |-> IF w = 2 THEN 0 ELSE 1]
MCMoves == {[from |-> 1, to |-> 3, logged |-> TRUE],
            [from |-> 1, to |-> 2, logged |-> TRUE],
            [from |-> 1, to |-> 2, logged |-> FALSE]}
MCRecordAt == [e \in Events |-> IF e = e1 THEN 1 ELSE 3]
=============================================================================

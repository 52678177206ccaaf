----------------------------- MODULE MCJobQueue -----------------------------
(* An instance of JobQueue for TLC: worker w1 has the slots s1 and s2, w2  *)
(* the slot s3; c1 and c2 retry one ballot.  The key other, which c3       *)
(* retries, has every exception at once: the worker inserts its rows, its  *)
(* runs stall, and reorganisations queue them again.                       *)
EXTENDS JobQueue, TLC

CONSTANTS w1, w2, s1, s2, s3, vote, other, c1, c2, c3

MCJobIds == 1..2
MCWorkerOf == [s \in Slots |-> IF s = s3 THEN w2 ELSE w1]
MCKeyOf == [c \in Callers |-> IF c = c3 THEN other ELSE vote]
MCSymmetry == Permutations({c1, c2}) \cup Permutations({s1, s2})
=============================================================================

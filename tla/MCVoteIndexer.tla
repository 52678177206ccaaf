---------------------------- MODULE MCVoteIndexer ----------------------------
(* Instances of VoteIndexer for TLC: one worker with one slot; the voter a *)
(* signs a ballot, and another sender may bring a's ballot as well.        *)
EXTENDS VoteIndexer

CONSTANTS a, w1, s1

MCJobIds == 1..2
MCWorkerOf == [s \in Slots |-> w1]
=============================================================================

---------------------------- MODULE MCWorkerLoop ----------------------------
(* An instance of WorkerLoop for TLC: one worker with the slots s1 and s2; *)
(* c1 retries the verification, the worker inserts the votes itself.        *)
EXTENDS WorkerLoop

CONSTANTS w1, s1, s2, vote, verify, c1

MCJobIds == 1..2
MCWorkerOf == [s \in Slots |-> w1]
MCKeyOf == [c \in Callers |-> verify]
=============================================================================

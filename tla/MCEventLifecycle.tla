-------------------------- MODULE MCEventLifecycle --------------------------
(* Instances of EventLifecycle for TLC: two workers with a slot each; the  *)
(* creator sends one retry of each kind.                                   *)
EXTENDS EventLifecycle

CONSTANTS w1, w2, s1, s2, r1, r2

MCJobIds == 1..4
MCWorkerOf == [s \in Slots |-> IF s = s1 THEN w1 ELSE w2]

(* The state a rebuild leads to is checked and not continued: "rebuilt"    *)
(* stays TRUE, and with it every property of the run that speaks of it.    *)
NoRebuildYet == ~rebuilt
=============================================================================

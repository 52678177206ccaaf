------------------------------ MODULE BallotBox ------------------------------
(***************************************************************************)
(* What a VoteEvent promises: a ballot box that is opened once for a list  *)
(* of proposals, takes at most one signed and valid ballot of each voter   *)
(* with voting power, only while voting is open, never gives a ballot back *)
(* or changes it, and whose result is at all times the count of the        *)
(* ballots in it.                                                          *)
(***************************************************************************)
EXTENDS Integers, Sequences, FiniteSets

CONSTANTS
    Voters,
    Power,    \* voting power at the record date, by voter
    Signed,   \* the pairs <<voter, ballot>> voters ever sign
    None

VARIABLES
    phase,    \* "unopened", "waiting", "open" or "closed"
    options,  \* the number of options of each proposal
    box,      \* the ballot of each voter, None before it is cast
    result    \* by proposal and option

boxVars == <<phase, options, box, result>>

(* A ballot names one option, counted from zero, for every proposal.       *)
ValidBallot(b) ==
    /\ Len(b) = Len(options)
    /\ \A p \in DOMAIN b : b[p] \in 0..options[p] - 1

(* A voter puts as many papers in the box as the voter has votes.          *)
Papers(voters) == UNION {{v} \X (1..Power[v]) : v \in voters}

Count(opts, bx) ==
    [p \in DOMAIN opts |->
        [o \in 1..opts[p] |->
            Cardinality(Papers({v \in Voters : bx[v] # None /\ bx[v][p] = o - 1}))]]

Init ==
    /\ phase = "unopened"
    /\ options = <<>> /\ result = <<>>
    /\ box = [v \in Voters |-> None]

Open ==
    /\ phase = "unopened"
    /\ phase' \in {"waiting", "open"}
    /\ \A p \in DOMAIN options' : options'[p] \in 2..4
    /\ result' = Count(options', box)
    /\ UNCHANGED box

Advance ==
    /\ \/ phase = "waiting" /\ phase' \in {"open", "closed"}
       \/ phase = "open" /\ phase' = "closed"
    /\ UNCHANGED <<options, box, result>>

Cast(v, b) ==
    /\ phase = "open"
    /\ <<v, b>> \in Signed /\ ValidBallot(b) /\ Power[v] > 0
    /\ box[v] = None
    /\ box' = [box EXCEPT ![v] = b]
    /\ result' = Count(options, box')
    /\ UNCHANGED <<phase, options>>

Next == \/ Open \/ Advance
        \/ \E sb \in Signed : Cast(sb[1], sb[2])

Spec == Init /\ [][Next]_boxVars
=============================================================================

----------------------------- MODULE MerkleTree -----------------------------
(***************************************************************************)
(* The eligibility tree of a snapshot (packages/shared/src/merkle.js) as   *)
(* the indexer builds it, the API serves its proofs and VoteEvent checks   *)
(* them.  A hash is the term it was made of, so two hashes are equal when  *)
(* what was hashed is: keccak256 is taken to have no collisions.           *)
(***************************************************************************)
EXTENDS Integers, Sequences

(* The leaf is hashed twice and an inner node once, over 64 bytes, so the  *)
(* two are never the same term.                                            *)
SnapshotLeaf(wallet, balance) == <<"leaf", wallet, balance>>

(* The two hashes are sorted before they are hashed.                       *)
HashPair(left, right) == <<"node", {left, right}>>

(* A node with no neighbour is paired with itself.                         *)
Sibling(level, i) ==
    LET j == IF i % 2 = 1 THEN i + 1 ELSE i - 1
    IN  IF j \in DOMAIN level THEN level[j] ELSE level[i]

(* Mutant: a node with no neighbour moves up as it is.                     *)
LevelAboveUnpaired(level) ==
    [i \in 1..((Len(level) + 1) \div 2) |->
        IF 2 * i <= Len(level) THEN HashPair(level[2 * i - 1], level[2 * i])
                               ELSE level[2 * i - 1]]

LevelAbove(level) ==
    [i \in 1..((Len(level) + 1) \div 2) |->
        HashPair(level[2 * i - 1], Sibling(level, 2 * i - 1))]

(* levels: the leaves, then each level above, up to the one with the root. *)
Grown(levels) ==
    LET top == levels[Len(levels)]
    IN  IF Len(top) = 1 THEN levels ELSE Append(levels, LevelAbove(top))

Levels(leaves) ==
    LET upto[k \in 0..Len(leaves)] ==
            IF k = 0 THEN <<leaves>> ELSE Grown(upto[k - 1])
    IN  upto[Len(leaves)]

Root(leaves) == Levels(leaves)[Len(Levels(leaves))][1]

(* index: where the path from leaf i meets each of n levels.               *)
Path(i, n) ==
    LET index[k \in 1..n] == IF k = 1 THEN i ELSE (index[k - 1] + 1) \div 2
    IN  index

(* The proof of leaf i: its sibling on every level below the root.         *)
Proof(leaves, i) ==
    LET levels == Levels(leaves)
    IN  [k \in 1..(Len(levels) - 1) |-> Sibling(levels[k], Path(i, Len(levels))[k])]

(* verifySnapshotProof, and MerkleProof.verify of the contract.            *)
Computed(leaf, proof) ==
    LET computed[k \in 0..Len(proof)] ==
            IF k = 0 THEN leaf ELSE HashPair(computed[k - 1], proof[k])
    IN  computed

VerifySnapshotProof(leaf, proof, root) == Computed(leaf, proof)[Len(proof)] = root
=============================================================================

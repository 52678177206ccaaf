----------------------------- MODULE MCVoteEvent -----------------------------
(* Instances of VoteEvent for TLC: ann, bob and cid hold three, one and    *)
(* two votes, dan less than one and eve nothing.  Ballots and              *)
(* configurations of the right shape are offered beside malformed ones.    *)
EXTENDS VoteEvent

CONSTANTS ann, bob, cid, dan, eve

MCVoters == {ann, bob, cid, dan, eve}
MCBalance == [v \in MCVoters |-> CASE v = ann -> 7 [] v = bob -> 2 [] v = cid -> 5
                                   [] v = dan -> 1 [] v = eve -> 0]

(* Two proposals of two and three options is what the event asks for; the  *)
(* ballots with option 2 or 3 of the first or of no proposal are invalid.  *)
MCSigned ==
    (MCVoters \X {<<0, 1>>})
    \cup {<<ann, <<1, 0>>>>, <<ann, <<2, 0>>>>, <<ann, <<0, 3>>>>, <<ann, <<0>>>>,
          <<bob, <<1, 2>>>>, <<bob, <<0, 1, 0>>>>, <<cid, <<1, 1>>>>, <<cid, <<0>>>>}

(* Every value with some option bits up to the greatest with two proposals *)
(* whose first byte says at most three, one with a bit above its last      *)
(* proposal, and every request of up to four proposals.                    *)
MCConfigs == {c \in 256..PackProposalConfig(<<4, 4>>) + 1 : ProposalCount(c) <= 3}
             \cup {PackProposalConfig(<<2, 3>>) + 65536}
MCRequests == UNION {[1..n -> 1..5] : n \in 0..4}
=============================================================================

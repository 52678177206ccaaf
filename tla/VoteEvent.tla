------------------------------ MODULE VoteEvent ------------------------------
(***************************************************************************)
(* The VoteEvent contract (packages/contracts/contracts/VoteEvent.sol):    *)
(* its constructor, castVote and the tallies, with the chain's clock, and  *)
(* the results endpoint of the API that reads them                         *)
(* (apps/api/src/votes.js, getResults).                                    *)
(*                                                                         *)
(* Anybody may send castVote with any arguments; a transaction happens     *)
(* entirely or reverts.  A Merkle proof is accepted exactly for the entry  *)
(* of the snapshot, a signature exactly for what the voter signed          *)
(* (OpenZeppelin's MerkleProof and ECDSA).  The zero-address and zero-hash *)
(* checks of the constructor and the wrap-around of the tallies are left   *)
(* out: snapshot balances add up to at most the token's supply.            *)
(***************************************************************************)
EXTENDS ProposalConfig, FiniteSets

CONSTANTS
    Voters,
    Balance,      \* raw balances at the record date; 0: not in the snapshot
    Signed,       \* the pairs <<voter, choices>> voters ever sign
    Configs,      \* the packed configurations somebody may deploy with
    Requests,     \* the option counts of the events that creators ask for
    VoteUnit,     \* raw units of one vote
    SnapshotBlock,
    VotingStart, VotingEnd,
    MaxTime,      \* bound on the clock of a behaviour
    MaxLag,       \* how far the newest block's timestamp may lag behind
    None

ASSUME VoteEventAssumption ==
    /\ IsFiniteSet(Voters)
    /\ Balance \in [Voters -> Nat]
    /\ Signed \subseteq Voters \X Seq(0..255)
    /\ Configs \subseteq Nat /\ Requests \subseteq Seq(Nat)
    /\ VoteUnit \in Nat \ {0}
    /\ SnapshotBlock \in Nat /\ VotingStart \in Nat /\ VotingEnd \in Nat
    /\ MaxTime \in Nat /\ MaxLag \in Nat
    /\ None \notin Seq(0..255)

VARIABLES
    clock,           \* the wall clock of the API
    blockTime,       \* block.timestamp and block.number of the newest block
    proposalConfig,  \* 0 before the contract is deployed
    hasVoted,        \* the voters the contract has marked
    tallies,         \* _tallies, by tally key
    log,             \* the VoteCast events, in the order of the chain
    asked,           \* when a request for the results last found voting over
    answer           \* the tallies it has read, by proposal; None: not yet

contractVars == <<proposalConfig, hasVoted, tallies, log>>
answerVars == <<asked, answer>>
vars == <<clock, blockTime, proposalConfig, hasVoted, tallies, log, asked, answer>>

Deployed == proposalConfig # 0
Proposals == 0..ProposalCount(proposalConfig) - 1

(* Mutant: the proposal is not shifted above the option.                   *)
TallyKeyUnshifted(proposalIndex, optionIndex) == proposalIndex + optionIndex

TallyKey(proposalIndex, optionIndex) == proposalIndex * 256 + optionIndex

(* The keys castVote can write: it refuses an option the proposal lacks.   *)
TallyKeys == {TallyKey(p, o) : p \in 0..MaxProposals - 1, o \in 0..MaxOptions - 1}

VoteCast == [voter : Voters, votingPower : Nat, choices : Seq(0..255),
             at : Nat]  \* the timestamp of its block

TypeOK ==
    /\ clock \in 0..MaxTime
    /\ blockTime \in 0..clock
    /\ proposalConfig \in Configs \cup {0}
    /\ hasVoted \subseteq Voters
    /\ tallies \in [TallyKeys -> Nat]
    /\ log \in Seq(VoteCast)
    /\ asked \in 0..clock
    /\ DOMAIN answer \in {{}, Proposals}

Init ==
    /\ clock = 0 /\ blockTime = 0
    /\ proposalConfig = 0
    /\ hasVoted = {}
    /\ tallies = [k \in TallyKeys |-> 0]
    /\ log = <<>>
    /\ asked = 0 /\ answer = [p \in {} |-> None]

-----------------------------------------------------------------------------
(* The clock and the chain.                                                *)

Tick ==
    /\ clock < MaxTime /\ clock - blockTime < MaxLag
    /\ clock' = clock + 1
    /\ UNCHANGED <<blockTime, contractVars, answerVars>>

NewBlock ==
    /\ blockTime' \in blockTime + 1 .. clock
    /\ UNCHANGED <<clock, contractVars, answerVars>>

-----------------------------------------------------------------------------
(* The contract.                                                           *)

(* The requirements of the constructor.                                    *)
Accepted(config) ==
    /\ SnapshotBlock < blockTime
    /\ VotingStart < VotingEnd /\ VotingEnd > blockTime
    /\ config # 0 /\ ValidProposalConfig(config)

Constructor(config) ==
    /\ ~Deployed
    /\ Accepted(config)
    /\ proposalConfig' = config
    /\ UNCHANGED <<clock, blockTime, hasVoted, tallies, log, answerVars>>

VotingPower(balance) == balance \div VoteUnit

(* Mutant: the snapshot proof is not verified.                             *)
ProofIgnored(voter, balance) == TRUE

(* Whether the proof leads from the claimed leaf to snapshotRoot.          *)
ProofValid(voter, balance) == balance = Balance[voter] /\ balance > 0

(* A pass of the loop of castVote adds the power at one key.               *)
Added(choices, power) ==
    [k \in TallyKeys |->
        tallies[k] + power * Cardinality({p \in Proposals : TallyKey(p, choices[p + 1]) = k})]

(* Mutant: a voter is not marked.                                          *)
MarkNobody(voter) == UNCHANGED hasVoted

MarkVoted(voter) == hasVoted' = hasVoted \cup {voter}

(* Mutant: a ballot counts after the end of the window.                    *)
CastVoteLate(voter, balance, choices) ==
    /\ Deployed
    /\ VotingStart <= blockTime
    /\ voter \notin hasVoted
    /\ Len(choices) = ProposalCount(proposalConfig)
    /\ ProofValid(voter, balance)
    /\ <<voter, choices>> \in Signed
    /\ VotingPower(balance) # 0
    /\ \A p \in Proposals : choices[p + 1] < OptionCount(proposalConfig, p)
    /\ MarkVoted(voter)
    /\ tallies' = Added(choices, VotingPower(balance))
    /\ log' = Append(log, [voter |-> voter, votingPower |-> VotingPower(balance),
                           choices |-> choices, at |-> blockTime])
    /\ UNCHANGED <<clock, blockTime, proposalConfig, answerVars>>

CastVote(voter, balance, choices) ==
    /\ Deployed
    /\ VotingStart <= blockTime /\ blockTime <= VotingEnd
    /\ voter \notin hasVoted
    /\ Len(choices) = ProposalCount(proposalConfig)
    /\ ProofValid(voter, balance)
    /\ <<voter, choices>> \in Signed
    /\ VotingPower(balance) # 0
    /\ \A p \in Proposals : choices[p + 1] < OptionCount(proposalConfig, p)
    /\ MarkVoted(voter)
    /\ tallies' = Added(choices, VotingPower(balance))
    /\ log' = Append(log, [voter |-> voter, votingPower |-> VotingPower(balance),
                           choices |-> choices, at |-> blockTime])
    /\ UNCHANGED <<clock, blockTime, proposalConfig, answerVars>>

ProposalTallies(proposalIndex) ==
    [o \in 1..OptionCount(proposalConfig, proposalIndex) |->
        tallies[TallyKey(proposalIndex, o - 1)]]

Results == [p \in 1..ProposalCount(proposalConfig) |-> ProposalTallies(p - 1)]

-----------------------------------------------------------------------------
(* The results endpoint.                                                   *)

(* Mutant: the end of voting is not looked at.                             *)
GetResultsEarly ==
    /\ Deployed
    /\ asked' = clock /\ answer' = [p \in Proposals |-> None]
    /\ UNCHANGED <<clock, blockTime, contractVars>>

(* getResults finds, by the clock of the API, that voting has ended.       *)
GetResults ==
    /\ Deployed
    /\ clock > VotingEnd
    /\ asked' = clock /\ answer' = [p \in Proposals |-> None]
    /\ UNCHANGED <<clock, blockTime, contractVars>>

(* One call per proposal, each of them answered from the newest block.     *)
ReadTallies(p) ==
    /\ p \in DOMAIN answer /\ answer[p] = None
    /\ answer' = [answer EXCEPT ![p] = ProposalTallies(p)]
    /\ UNCHANGED <<asked, clock, blockTime, contractVars>>

-----------------------------------------------------------------------------
(* The balances a sender may claim: some entry's, or one of no entry.      *)
Claims == {Balance[v] : v \in Voters} \cup {VoteUnit}

Next ==
    \/ Tick \/ NewBlock \/ GetResults
    \/ \E p \in Proposals : ReadTallies(p)
    \/ \E config \in Configs : Constructor(config)
    \/ \E sb \in Signed, voter \in Voters, balance \in Claims : CastVote(voter, balance, sb[2])

Spec == Init /\ [][Next]_vars

-----------------------------------------------------------------------------
(* Properties.                                                             *)

(* README.md:18, "One final vote per eligible wallet": no two VoteCast     *)
(* events of one voter, however many ballots the voter signs and whoever   *)
(* sends them.                                                             *)
OneFinalVote ==
    \A i, j \in DOMAIN log : log[i].voter = log[j].voter => i = j

(* Every counted ballot was signed by its voter, is valid for the packed   *)
(* configuration, and weighs what the snapshot says.                       *)
CountedBallotsAuthentic ==
    \A i \in DOMAIN log :
        /\ <<log[i].voter, log[i].choices>> \in Signed
        /\ log[i].votingPower = Balance[log[i].voter] \div VoteUnit
        /\ log[i].votingPower > 0
        /\ Len(log[i].choices) = ProposalCount(proposalConfig)
        /\ \A p \in Proposals : log[i].choices[p + 1] < OptionCount(proposalConfig, p)

(* The contract and the API agree on the packing: a deployed configuration *)
(* is the one packed from the counts the contract reads in it, and the     *)
(* constructor accepts every configuration the API packs, once the         *)
(* snapshot block is past and until voting has ended.                      *)
PackingAgrees ==
    /\ Deployed =>
           LET counts == [i \in 1..ProposalCount(proposalConfig) |->
                              OptionCount(proposalConfig, i - 1)]
           IN  Packable(counts) /\ PackProposalConfig(counts) = proposalConfig
    /\ SnapshotBlock < blockTime /\ VotingStart < VotingEnd /\ blockTime < VotingEnd =>
           \A counts \in Requests :
               Packable(counts) => Accepted(PackProposalConfig(counts))

(* The votes for each option of proposal p in the first n ballots; a voter *)
(* with k votes is counted k times.                                        *)
VotesIn(n, p) ==
    [o \in 1..OptionCount(proposalConfig, p) |->
        Cardinality(UNION {{log[i].voter} \X (1..log[i].votingPower) :
                               i \in {j \in 1..n : log[j].choices[p + 1] = o - 1}})]

(* The API goes by its own clock, the contract by block timestamps, and    *)
(* every proposal is read in a call of its own.  What getResults answers   *)
(* for a proposal is the count of the ballots up to some point, perhaps    *)
(* not the same for all proposals; the ballots missing in it are those of  *)
(* the last moments before VotingEnd, by no more than the lag of the chain *)
(* before the request.  So what is answered once the clock is past the end *)
(* by more than that lag is final.                                         *)
OnlyLateBallotsMissing ==
    \A p \in DOMAIN answer : answer[p] # None =>
        \E n \in 0..Len(log) :
            /\ answer[p] = VotesIn(n, p)
            /\ \A i \in n + 1..Len(log) :
                   /\ log[i].at <= VotingEnd /\ VotingEnd < log[i].at + MaxLag
                   /\ asked <= log[i].at + MaxLag

(* The contract implements the ballot box: the incremental tallies, as     *)
(* getProposalTallies reads them, are the count of the ballots.            *)
Phase ==
    IF ~Deployed THEN "unopened"
    ELSE IF blockTime < VotingStart THEN "waiting"
    ELSE IF blockTime <= VotingEnd THEN "open" ELSE "closed"

LogOf(v) == {i \in DOMAIN log : log[i].voter = v}

BallotOf(v) ==
    IF LogOf(v) = {} THEN None
    ELSE log[CHOOSE i \in LogOf(v) : \A j \in LogOf(v) : i <= j].choices

Box == INSTANCE BallotBox WITH
        Power   <- [v \in Voters |-> Balance[v] \div VoteUnit],
        phase   <- Phase,
        options <- [p \in 1..ProposalCount(proposalConfig) |->
                        OptionCount(proposalConfig, p - 1)],
        box     <- [v \in Voters |-> BallotOf(v)],
        result  <- Results

ImplementsBallotBox == Box!Spec
=============================================================================

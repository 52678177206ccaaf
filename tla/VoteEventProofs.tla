--------------------------- MODULE VoteEventProofs ---------------------------
(***************************************************************************)
(* Proofs about VoteEvent, for any voters, balances, ballots and packed    *)
(* configurations: one final vote per voter, every counted ballot is       *)
(* authentic, an answer misses late ballots only, the contract and the API *)
(* agree on the packing, and the contract implements BallotBox, its        *)
(* incremental tallies being at all times the count of the ballots.        *)
(***************************************************************************)
EXTENDS VoteEvent, FiniteSetTheorems, WellFoundedInduction, TLAPS

USE DEF vars, contractVars, answerVars

(* The inductive invariant: whoever has a ballot in the log is marked, and *)
(* the log is empty until the configuration is fixed.                      *)
LoggedAreMarked == \A i \in DOMAIN log : log[i].voter \in hasVoted

EventInv ==
    /\ TypeOK /\ OneFinalVote /\ CountedBallotsAuthentic
    /\ LoggedAreMarked
    /\ ~Deployed => log = <<>>

LEMMA PowerType ==
  ASSUME NEW voter \in Voters, NEW balance, ProofValid(voter, balance)
  PROVE  /\ balance = Balance[voter] /\ VotingPower(balance) \in Nat
         /\ VotingPower(balance) = Balance[voter] \div VoteUnit
<1>1. balance = Balance[voter] /\ Balance[voter] \in Nat /\ VoteUnit \in Nat \ {0}
  BY VoteEventAssumption DEF ProofValid
<1>2. \A n \in Nat, d \in Nat \ {0} : n \div d \in Nat
  OBVIOUS
<1> QED
  BY <1>1, <1>2 DEF VotingPower

LEMMA AddedType ==
  ASSUME TypeOK, NEW choices, NEW power \in Nat
  PROVE  Added(choices, power) \in [TallyKeys -> Nat]
<1>1. proposalConfig \in Nat
  BY VoteEventAssumption DEF TypeOK
<1>2. ProposalCount(proposalConfig) \in Nat
  BY <1>1 DEF ProposalCount
<1>3. IsFiniteSet(Proposals)
  BY <1>2, FS_Interval DEF Proposals
<1>4. \A k \in TallyKeys :
        Cardinality({p \in Proposals : TallyKey(p, choices[p + 1]) = k}) \in Nat
  BY <1>3, FS_Subset, FS_CardinalityType
<1>5. \A k \in TallyKeys : tallies[k] \in Nat
  BY DEF TypeOK
<1>6. \A a, b, c \in Nat : a + b * c \in Nat
  OBVIOUS
<1> QED
  BY <1>4, <1>5, <1>6 DEF Added

LEMMA NotDeployed == ~Deployed => ProposalCount(proposalConfig) = 0 /\ Proposals = {}
<1> SUFFICES ASSUME ~Deployed PROVE ProposalCount(proposalConfig) = 0 /\ Proposals = {}
  OBVIOUS
<1>1. ProposalCount(proposalConfig) = 0
  BY DEF Deployed, ProposalCount
<1> QED
  BY <1>1 DEF Proposals

LEMMA InitInv == Init => EventInv
<1> SUFFICES ASSUME Init PROVE EventInv
  OBVIOUS
<1>1. TypeOK
  BY VoteEventAssumption DEF Init, TypeOK
<1> QED
  BY <1>1 DEF Init, EventInv, OneFinalVote, CountedBallotsAuthentic, LoggedAreMarked

(* What castVote appends.                                                  *)
LEMMA CastKeeps ==
  ASSUME EventInv, NEW sb \in Signed, NEW voter \in Voters, NEW balance \in Claims,
         CastVote(voter, balance, sb[2])
  PROVE  EventInv'
<1> DEFINE choices == sb[2]
           e == [voter |-> voter, votingPower |-> VotingPower(balance), choices |-> choices,
                 at |-> blockTime]
           n == Len(log) + 1
<1>1. choices \in Seq(0..255)
  BY VoteEventAssumption
<1>2. VotingPower(balance) \in Nat /\ VotingPower(balance) = Balance[voter] \div VoteUnit
  BY PowerType DEF CastVote
<1>3. e \in VoteCast
  BY <1>1, <1>2, VoteEventAssumption DEF VoteCast, EventInv, TypeOK
<1>4. log \in Seq(VoteCast) /\ log' = Append(log, e)
  BY DEF CastVote, EventInv, TypeOK
<1>5. /\ log' \in Seq(VoteCast) /\ Len(log') = n /\ log'[n] = e
      /\ DOMAIN log' = DOMAIN log \cup {n} /\ n \notin DOMAIN log
      /\ \A i \in DOMAIN log : log'[i] = log[i]
  BY <1>3, <1>4
<1>6. TypeOK'
  <2>1. tallies' \in [TallyKeys -> Nat]
    BY <1>2, AddedType DEF CastVote, EventInv
  <2>2. hasVoted' \subseteq Voters
    BY DEF CastVote, MarkVoted, EventInv, TypeOK
  <2> QED
    BY <1>5, <2>1, <2>2 DEF CastVote, EventInv, TypeOK, Proposals
<1>7. voter \notin hasVoted /\ hasVoted' = hasVoted \cup {voter}
  BY DEF CastVote, MarkVoted
<1>8. LoggedAreMarked'
  BY <1>5, <1>7 DEF LoggedAreMarked, EventInv
<1>9. OneFinalVote'
  <2> SUFFICES ASSUME NEW i \in DOMAIN log', NEW j \in DOMAIN log',
                      log'[i].voter = log'[j].voter
               PROVE  i = j
    BY DEF OneFinalVote
  <2>1. \A m \in DOMAIN log : log'[m].voter # voter
    BY <1>5, <1>7 DEF EventInv, LoggedAreMarked
  <2>2. CASE i \in DOMAIN log /\ j \in DOMAIN log
    BY <1>5, <2>2 DEF EventInv, OneFinalVote
  <2>3. CASE i = n \/ j = n
    BY <1>5, <2>1, <2>3
  <2> QED
    BY <1>5, <2>2, <2>3
<1>10. CountedBallotsAuthentic'
  <2>1. proposalConfig' = proposalConfig /\ Proposals' = Proposals
    BY DEF CastVote, Proposals
  <2>2. \A i \in DOMAIN log :
          /\ <<log[i].voter, log[i].choices>> \in Signed
          /\ log[i].votingPower = Balance[log[i].voter] \div VoteUnit
          /\ log[i].votingPower > 0
          /\ Len(log[i].choices) = ProposalCount(proposalConfig)
          /\ \A p \in Proposals : log[i].choices[p + 1] < OptionCount(proposalConfig, p)
    BY DEF EventInv, CountedBallotsAuthentic
  <2>3. /\ <<voter, choices>> \in Signed /\ VotingPower(balance) > 0
        /\ Len(choices) = ProposalCount(proposalConfig)
        /\ \A p \in Proposals : choices[p + 1] < OptionCount(proposalConfig, p)
    BY <1>2 DEF CastVote
  <2> QED
    BY <1>2, <1>5, <2>1, <2>2, <2>3 DEF CountedBallotsAuthentic
<1>11. Deployed'
  BY DEF CastVote, Deployed
<1> QED
  BY <1>6, <1>8, <1>9, <1>10, <1>11 DEF EventInv

LEMMA StepInv == EventInv /\ [Next]_vars => EventInv'
<1> SUFFICES ASSUME EventInv, [Next]_vars PROVE EventInv'
  OBVIOUS
<1>1. ASSUME UNCHANGED contractVars, TypeOK' PROVE EventInv'
  BY <1>1 DEF EventInv, OneFinalVote, CountedBallotsAuthentic, LoggedAreMarked, Deployed, Proposals
<1>2. CASE Tick \/ NewBlock \/ GetResults \/ (\E p \in Proposals : ReadTallies(p)) \/ UNCHANGED vars
  <2>1. UNCHANGED contractVars /\ clock' \in 0..MaxTime /\ blockTime' \in 0..clock'
    BY <1>2, VoteEventAssumption DEF Tick, NewBlock, GetResults, ReadTallies, EventInv, TypeOK
  <2>2. asked' \in 0..clock' /\ DOMAIN answer' \in {{}, Proposals'}
    BY <1>2, VoteEventAssumption
       DEF Tick, NewBlock, GetResults, ReadTallies, EventInv, TypeOK, Proposals
  <2>4. TypeOK'
    BY <2>1, <2>2 DEF EventInv, TypeOK
  <2> QED
    BY <1>1, <2>1, <2>4
<1>3. ASSUME NEW config \in Configs, Constructor(config) PROVE EventInv'
  <2>1. log = <<>> /\ DOMAIN answer = {}
        /\ UNCHANGED <<clock, blockTime, hasVoted, tallies, log, asked, answer>>
    BY <1>3, NotDeployed DEF Constructor, EventInv, TypeOK
  <2>2. TypeOK'
    BY <1>3, <2>1 DEF Constructor, EventInv, TypeOK
  <2> QED
    BY <2>1, <2>2 DEF EventInv, OneFinalVote, CountedBallotsAuthentic, LoggedAreMarked
<1> QED
  BY <1>2, <1>3, CastKeeps DEF Next

LEMMA AlwaysInv == Spec => []EventInv
  BY InitInv, StepInv, PTL DEF Spec

(* The contract's state has its type.                                      *)
THEOREM EventTypeCorrect == Spec => []TypeOK
<1>1. EventInv => TypeOK
  BY DEF EventInv
<1> QED
  BY <1>1, AlwaysInv, PTL

(* castVote counts at most one ballot of a voter, whoever sends how many.  *)
THEOREM OneVote == Spec => []OneFinalVote
<1>1. EventInv => OneFinalVote
  BY DEF EventInv
<1> QED
  BY <1>1, AlwaysInv, PTL

(* castVote counts only ballots that are signed, valid and weighed by the  *)
(* snapshot.                                                               *)
THEOREM AuthenticBallots == Spec => []CountedBallotsAuthentic
<1>1. EventInv => CountedBallotsAuthentic
  BY DEF EventInv
<1> QED
  BY <1>1, AlwaysInv, PTL

-----------------------------------------------------------------------------
(* The newest block is never older than the lag.                           *)

LagInv == EventInv /\ clock - blockTime <= MaxLag

LEMMA LagStep == LagInv /\ [Next]_vars => LagInv'
<1> SUFFICES ASSUME LagInv, [Next]_vars PROVE (clock - blockTime <= MaxLag)'
  BY StepInv DEF LagInv
<1>1. clock \in Int /\ blockTime \in Int /\ MaxLag \in Int
  BY VoteEventAssumption DEF LagInv, EventInv, TypeOK
<1>2. CASE Tick
  BY <1>1, <1>2 DEF Tick, LagInv
<1>3. CASE NewBlock
  <2>1. blockTime' \in Int /\ blockTime < blockTime' /\ clock' = clock
    BY <1>1, <1>3 DEF NewBlock
  <2>2. \A c, b, d, m \in Int : c - b <= m /\ b < d => c - d <= m
    OBVIOUS
  <2> QED
    BY <1>1, <2>1, <2>2 DEF LagInv
<1>4. CASE UNCHANGED <<clock, blockTime>>
  BY <1>4 DEF LagInv
<1> QED
  BY <1>2, <1>3, <1>4 DEF Next, GetResults, ReadTallies, Constructor, CastVote

LEMMA AlwaysLag == Spec => []LagInv
<1>1. Init => LagInv
  BY InitInv, VoteEventAssumption DEF Init, LagInv
<1> QED
  BY <1>1, LagStep, PTL DEF Spec

-----------------------------------------------------------------------------
(* The contract implements the ballot box.                                 *)

(* The tallies are the papers in the box: a voter puts as many of them in  *)
(* it as the voter has votes, so no sum has to be taken.                   *)
Chose(p, o) ==
    {v \in Voters : \E i \in DOMAIN log : log[i].voter = v /\ log[i].choices[p + 1] = o}

PapersOf(voters) == UNION {{v} \X (1..Balance[v] \div VoteUnit) : v \in voters}

Options == 0..MaxOptions - 1

TalliesCount ==
    \A p \in Proposals, o \in Options :
        /\ IsFiniteSet(PapersOf(Chose(p, o)))
        /\ tallies[TallyKey(p, o)] = Cardinality(PapersOf(Chose(p, o)))

CountInv ==
    /\ EventInv /\ TalliesCount
    /\ Deployed => ValidProposalConfig(proposalConfig)
    /\ ~Deployed => \A k \in TallyKeys : tallies[k] = 0

LEMMA NoPapers == PapersOf({}) = {} /\ IsFiniteSet({}) /\ Cardinality({}) = 0
  BY FS_EmptySet DEF PapersOf

(* One voter more is that voter's papers more.                             *)
LEMMA PapersAdded ==
  ASSUME NEW voters, NEW v \in Voters, v \notin voters, IsFiniteSet(PapersOf(voters))
  PROVE  /\ IsFiniteSet(PapersOf(voters \cup {v}))
         /\ Cardinality(PapersOf(voters \cup {v})) =
                Cardinality(PapersOf(voters)) + (Balance[v] \div VoteUnit)
<1> DEFINE n == Balance[v] \div VoteUnit
           own == {v} \X (1..n)
<1>1. n \in Nat
  <2>1. Balance[v] \in Nat /\ VoteUnit \in Nat \ {0}
    BY VoteEventAssumption
  <2> QED
    BY <2>1
<1>2. PapersOf(voters \cup {v}) = PapersOf(voters) \cup own
  BY DEF PapersOf
<1>3. PapersOf(voters) \cap own = {}
  BY DEF PapersOf
<1>4. IsFiniteSet(1..n) /\ Cardinality(1..n) = n
  BY <1>1, FS_Interval
<1>5. IsFiniteSet({v}) /\ Cardinality({v}) = 1
  BY FS_Singleton
<1>6. IsFiniteSet(own) /\ Cardinality(own) = n
  <2>1. IsFiniteSet(own) /\ Cardinality(own) = Cardinality({v}) * Cardinality(1..n)
    BY <1>4, <1>5, FS_Product
  <2> QED
    BY <1>1, <1>4, <1>5, <2>1
<1>7. Cardinality(PapersOf(voters) \cap own) = 0
  BY <1>3, FS_EmptySet
<1>8. Cardinality(PapersOf(voters)) \in Nat
  BY FS_CardinalityType
<1>9. /\ IsFiniteSet(PapersOf(voters) \cup own)
      /\ Cardinality(PapersOf(voters) \cup own) =
            Cardinality(PapersOf(voters)) + Cardinality(own)
              - Cardinality(PapersOf(voters) \cap own)
  BY <1>6, FS_Union
<1> HIDE DEF own, n
<1>10. Cardinality(PapersOf(voters \cup {v})) = Cardinality(PapersOf(voters)) + n
  <2>1. Cardinality(PapersOf(voters) \cup own) = Cardinality(PapersOf(voters)) + n - 0
    BY <1>6, <1>7, <1>9, Zenon
  <2>2. Cardinality(PapersOf(voters)) + n - 0 = Cardinality(PapersOf(voters)) + n
    BY <1>1, <1>8
  <2> QED
    BY <1>2, <2>1, <2>2, Zenon
<1> QED
  BY <1>2, <1>9, <1>10, Zenon DEF n

LEMMA DeployedConfig ==
  ASSUME CountInv, Deployed
  PROVE  /\ ProposalCount(proposalConfig) \in 1..MaxProposals
         /\ Proposals \subseteq 0..MaxProposals - 1
         /\ \A p \in Proposals : OptionCount(proposalConfig, p) \in MinOptions..MaxOptions
         /\ \A p \in Proposals, o \in Options : TallyKey(p, o) \in TallyKeys
<1>1. /\ ProposalCount(proposalConfig) \in 1..MaxProposals
      /\ \A p \in Proposals : OptionCount(proposalConfig, p) \in MinOptions..MaxOptions
  BY DEF CountInv, ValidProposalConfig, OptionCount, Proposals
<1>2. Proposals \subseteq 0..MaxProposals - 1
  BY <1>1 DEF Proposals, MaxProposals
<1> QED
  BY <1>1, <1>2 DEF TallyKeys, Options

(* Two options never share a tally.                                        *)
LEMMA KeyProposal ==
  ASSUME NEW i, NEW j, NEW a, NEW c, i \in Nat, j \in Nat, a \in 0..255, c \in 0..255,
         TallyKey(i, a) = TallyKey(j, c)
  PROVE  i = j
  BY DEF TallyKey

LEMMA KeyOption ==
  ASSUME NEW i, NEW j, NEW a, NEW c, i \in Nat, j \in Nat, a \in 0..255, c \in 0..255,
         TallyKey(i, a) = TallyKey(j, c)
  PROVE  a = c
  BY DEF TallyKey

(* What castVote adds to the tally of one option.                          *)
LEMMA AddedOne ==
  ASSUME CountInv, Deployed, NEW choices \in Seq(0..255),
         Len(choices) = ProposalCount(proposalConfig), NEW power \in Nat,
         NEW p \in Proposals, NEW o \in Options
  PROVE  Added(choices, power)[TallyKey(p, o)] =
            tallies[TallyKey(p, o)] + (IF choices[p + 1] = o THEN power ELSE 0)
<1> DEFINE k == TallyKey(p, o)
           hits == {q \in Proposals : TallyKey(q, choices[q + 1]) = k}
<1>1. k \in TallyKeys /\ tallies[k] \in Nat
  BY DeployedConfig DEF CountInv, EventInv, TypeOK
<1>2. Added(choices, power)[k] = tallies[k] + power * Cardinality(hits)
  BY <1>1 DEF Added
<1>3. \A q \in Proposals : q \in Nat /\ choices[q + 1] \in 0..255
  BY DeployedConfig DEF Proposals
<1>4. o \in 0..255
  BY DEF Options, MaxOptions
<1>5. ASSUME NEW q \in hits PROVE q = p /\ choices[q + 1] = o
  <2>1. q \in Nat /\ p \in Nat /\ choices[q + 1] \in 0..255 /\ TallyKey(q, choices[q + 1]) = TallyKey(p, o)
    BY <1>3
  <2> QED
    BY <1>4, <2>1, KeyProposal, KeyOption
<1>6. CASE choices[p + 1] = o
  <2>1. hits = {p}
    BY <1>5, <1>6
  <2>2. Cardinality(hits) = 1
    BY <2>1, FS_Singleton
  <2> QED
    BY <1>1, <1>2, <1>6, <2>2
<1>7. CASE choices[p + 1] # o
  <2>1. hits = {}
    BY <1>5, <1>7
  <2>2. Cardinality(hits) = 0
    BY <2>1, FS_EmptySet
  <2> QED
    BY <1>1, <1>2, <1>7, <2>2
<1> QED
  BY <1>6, <1>7

(* What castVote writes, for the proofs below.                             *)
LEMMA CastEffect ==
  ASSUME CountInv, NEW sb \in Signed, NEW voter \in Voters, NEW balance \in Claims,
         CastVote(voter, balance, sb[2])
  PROVE  /\ Deployed /\ proposalConfig' = proposalConfig /\ Proposals' = Proposals
         /\ sb[2] \in Seq(0..255) /\ Len(sb[2]) = ProposalCount(proposalConfig)
         /\ <<voter, sb[2]>> \in Signed
         /\ \A p \in Proposals : sb[2][p + 1] < OptionCount(proposalConfig, p)
         /\ Balance[voter] \div VoteUnit \in Nat \ {0}
         /\ tallies' = Added(sb[2], Balance[voter] \div VoteUnit)
         /\ \A i \in DOMAIN log : log[i].voter # voter /\ log'[i] = log[i]
         /\ DOMAIN log' = DOMAIN log \cup {Len(log) + 1} /\ Len(log) + 1 \notin DOMAIN log
         /\ log'[Len(log) + 1].voter = voter /\ log'[Len(log) + 1].choices = sb[2]
         /\ log'[Len(log) + 1].at = blockTime /\ Len(log') = Len(log) + 1
<1> DEFINE e == [voter |-> voter, votingPower |-> VotingPower(balance), choices |-> sb[2],
                 at |-> blockTime]
<1>1. sb[2] \in Seq(0..255)
  BY VoteEventAssumption
<1>2. VotingPower(balance) \in Nat /\ VotingPower(balance) = Balance[voter] \div VoteUnit
  BY PowerType DEF CastVote
<1>3. e \in VoteCast /\ log \in Seq(VoteCast) /\ log' = Append(log, e)
  BY <1>1, <1>2, VoteEventAssumption DEF VoteCast, CastVote, CountInv, EventInv, TypeOK
<1>4. /\ \A i \in DOMAIN log : log'[i] = log[i]
      /\ DOMAIN log' = DOMAIN log \cup {Len(log) + 1} /\ Len(log) + 1 \notin DOMAIN log
      /\ log'[Len(log) + 1] = e /\ Len(log') = Len(log) + 1
  BY <1>3
<1>5. \A i \in DOMAIN log : log[i].voter # voter
  BY DEF CastVote, CountInv, EventInv, LoggedAreMarked
<1> QED
  BY <1>1, <1>2, <1>4, <1>5 DEF CastVote, Proposals

LEMMA CastCounts ==
  ASSUME CountInv, NEW sb \in Signed, NEW voter \in Voters, NEW balance \in Claims,
         CastVote(voter, balance, sb[2])
  PROVE  TalliesCount'
<1> DEFINE b == sb[2]
           power == Balance[voter] \div VoteUnit
<1> SUFFICES ASSUME NEW p \in Proposals, NEW o \in Options
             PROVE  /\ IsFiniteSet(PapersOf(Chose(p, o)'))
                    /\ tallies'[TallyKey(p, o)] = Cardinality(PapersOf(Chose(p, o)'))
  BY CastEffect DEF TalliesCount, PapersOf
<1>1. /\ IsFiniteSet(PapersOf(Chose(p, o)))
      /\ tallies[TallyKey(p, o)] = Cardinality(PapersOf(Chose(p, o)))
  BY DEF CountInv, TalliesCount
<1>2. tallies'[TallyKey(p, o)] =
        tallies[TallyKey(p, o)] + (IF b[p + 1] = o THEN power ELSE 0)
  <2>1. /\ Deployed /\ b \in Seq(0..255) /\ Len(b) = ProposalCount(proposalConfig)
        /\ power \in Nat /\ tallies' = Added(b, power)
    BY CastEffect
  <2> QED
    BY <2>1, AddedOne
<1>3. voter \notin Chose(p, o)
  BY CastEffect DEF Chose
<1>4. Chose(p, o)' = IF b[p + 1] = o THEN Chose(p, o) \cup {voter} ELSE Chose(p, o)
  <2> DEFINE n == Len(log) + 1
  <2>1. /\ \A i \in DOMAIN log : log'[i] = log[i]
        /\ DOMAIN log' = DOMAIN log \cup {n} /\ n \notin DOMAIN log
        /\ log'[n].voter = voter /\ log'[n].choices = b
    BY CastEffect
  <2> HIDE DEF n, b
  <2>2. ASSUME NEW v \in Voters
        PROVE  v \in Chose(p, o)' <=> v \in Chose(p, o) \/ (v = voter /\ b[p + 1] = o)
    BY <2>1 DEF Chose
  <2> QED
    BY <2>2 DEF Chose
<1>5. CASE b[p + 1] = o
  BY <1>1, <1>2, <1>3, <1>4, <1>5, PapersAdded
<1>6. CASE b[p + 1] # o
  <2>1. tallies[TallyKey(p, o)] \in Nat
    BY CastEffect, DeployedConfig DEF CountInv, EventInv, TypeOK
  <2> QED
    BY <1>1, <1>2, <1>4, <1>6, <2>1
<1> QED
  BY <1>5, <1>6

LEMMA CountStep == CountInv /\ [Next]_vars => CountInv'
<1> SUFFICES ASSUME CountInv, [Next]_vars PROVE CountInv'
  OBVIOUS
<1>1. EventInv'
  BY StepInv DEF CountInv
<1>2. CASE UNCHANGED contractVars
  BY <1>1, <1>2
     DEF CountInv, TalliesCount, Chose, PapersOf, Proposals, Deployed
<1>3. ASSUME NEW config \in Configs, Constructor(config) PROVE CountInv'
  <2>1. /\ log' = <<>> /\ \A k \in TallyKeys : tallies'[k] = 0
        /\ ValidProposalConfig(proposalConfig') /\ Deployed'
    BY <1>3 DEF Constructor, Accepted, CountInv, EventInv, Deployed
  <2>2. Proposals' \subseteq 0..MaxProposals - 1
    <3>1. ProposalCount(proposalConfig') \in 1..32
      BY <2>1 DEF ValidProposalConfig, MaxProposals
    <3> QED
      BY <3>1 DEF Proposals, MaxProposals
  <2>3. \A p \in Proposals', o \in Options : TallyKey(p, o) \in TallyKeys /\ Chose(p, o)' = {}
    BY <2>1, <2>2 DEF TallyKeys, Options, Chose
  <2>4. TalliesCount'
    <3> SUFFICES ASSUME NEW p \in Proposals', NEW o \in Options
                 PROVE  /\ IsFiniteSet(PapersOf(Chose(p, o)'))
                        /\ tallies'[TallyKey(p, o)] = Cardinality(PapersOf(Chose(p, o)'))
      BY DEF TalliesCount, PapersOf
    <3> QED
      BY <2>1, <2>3, NoPapers
  <2> QED
    BY <1>1, <2>1, <2>4 DEF CountInv
<1>4. ASSUME NEW sb \in Signed, NEW voter \in Voters, NEW balance \in Claims,
             CastVote(voter, balance, sb[2])
      PROVE  CountInv'
  <2>1. TalliesCount'
    BY <1>4, CastCounts
  <2>2. Deployed /\ proposalConfig' = proposalConfig
    BY <1>4 DEF CastVote
  <2> QED
    BY <1>1, <2>1, <2>2 DEF CountInv, Deployed
<1> QED
  BY <1>2, <1>3, <1>4 DEF Next, Tick, NewBlock, GetResults, ReadTallies

LEMMA InitCount == Init => CountInv
<1> SUFFICES ASSUME Init PROVE CountInv
  OBVIOUS
<1>1. EventInv /\ ~Deployed
  BY InitInv DEF Init, Deployed
<1> QED
  BY <1>1, NotDeployed DEF Init, CountInv, TalliesCount

LEMMA AlwaysCount == Spec => []CountInv
  BY InitCount, CountStep, PTL DEF Spec
-----------------------------------------------------------------------------
(* What an answer can miss.                                                *)

AnswerInv ==
    /\ CountInv /\ clock - blockTime <= MaxLag
    /\ DOMAIN answer # {} => Deployed /\ asked > VotingEnd
    /\ OnlyLateBallotsMissing

(* The papers of the ballots in the log for an option are its tally.       *)
LEMMA TallyIsCount ==
  ASSUME CountInv, NEW p \in Proposals
  PROVE  ProposalTallies(p) = VotesIn(Len(log), p)
<1>1. Deployed
  BY NotDeployed
<1>2. OptionCount(proposalConfig, p) \in MinOptions..MaxOptions
  BY <1>1, DeployedConfig
<1>3. ASSUME NEW o \in 1..OptionCount(proposalConfig, p)
      PROVE  tallies[TallyKey(p, o - 1)] =
                Cardinality(UNION {{log[i].voter} \X (1..log[i].votingPower) :
                               i \in {j \in 1..Len(log) : log[j].choices[p + 1] = o - 1}})
  <2>1. o - 1 \in Options
    BY <1>2 DEF Options, MinOptions, MaxOptions
  <2>2. tallies[TallyKey(p, o - 1)] = Cardinality(PapersOf(Chose(p, o - 1)))
    BY <2>1 DEF CountInv, TalliesCount
  <2>3. DOMAIN log = 1..Len(log) /\ \A i \in DOMAIN log :
            log[i].voter \in Voters /\ log[i].votingPower = Balance[log[i].voter] \div VoteUnit
    <3>1. log \in Seq(VoteCast)
      BY DEF CountInv, EventInv, TypeOK
    <3>2. DOMAIN log = 1..Len(log) /\ \A i \in DOMAIN log : log[i] \in VoteCast
      BY <3>1
    <3>3. \A i \in DOMAIN log : log[i].voter \in Voters
      BY <3>2 DEF VoteCast
    <3> QED
      BY <3>2, <3>3 DEF CountInv, EventInv, CountedBallotsAuthentic
  <2>4. PapersOf(Chose(p, o - 1)) =
            UNION {{log[i].voter} \X (1..log[i].votingPower) :
                       i \in {j \in 1..Len(log) : log[j].choices[p + 1] = o - 1}}
    BY <2>3 DEF PapersOf, Chose
  <2> QED
    BY <2>2, <2>4
<1> QED
  BY <1>3 DEF ProposalTallies, VotesIn

LEMMA AnswerStep == AnswerInv /\ [Next]_vars => AnswerInv'
<1> SUFFICES ASSUME AnswerInv, [Next]_vars PROVE AnswerInv'
  OBVIOUS
<1>1. CountInv' /\ (clock - blockTime <= MaxLag)'
  BY CountStep, LagStep DEF AnswerInv, LagInv, CountInv
<1>2. /\ log \in Seq(VoteCast) /\ Len(log) \in Nat
      /\ clock \in Int /\ blockTime \in Int /\ asked \in Int /\ asked <= clock
  BY VoteEventAssumption DEF AnswerInv, CountInv, EventInv, TypeOK
<1>3. CASE UNCHANGED <<contractVars, answerVars>>
  <2>1. \A n, q : VotesIn(n, q)' = VotesIn(n, q)
    BY <1>3 DEF VotesIn
  <2>2. OnlyLateBallotsMissing'
    BY <1>3, <2>1 DEF AnswerInv, OnlyLateBallotsMissing
  <2> QED
    BY <1>1, <1>3, <2>2 DEF AnswerInv, Deployed
<1>4. CASE GetResults
  <2>1. /\ \A p \in DOMAIN answer' : answer'[p] = None
        /\ Deployed' /\ asked' > VotingEnd
    BY <1>4 DEF GetResults, Deployed
  <2> QED
    BY <1>1, <2>1 DEF AnswerInv, OnlyLateBallotsMissing
<1>5. ASSUME NEW p \in Proposals, ReadTallies(p) PROVE AnswerInv'
  <2>1. /\ DOMAIN answer' = DOMAIN answer /\ p \in DOMAIN answer
        /\ answer'[p] = ProposalTallies(p)
        /\ \A q \in DOMAIN answer : q # p => answer'[q] = answer[q]
        /\ UNCHANGED <<asked, contractVars>>
    BY <1>5 DEF ReadTallies
  <2>2. answer'[p] = VotesIn(Len(log), p)
    BY <2>1, TallyIsCount DEF AnswerInv
  <2>3. \A n, q : VotesIn(n, q)' = VotesIn(n, q)
    BY <2>1 DEF VotesIn
  <2>4. OnlyLateBallotsMissing'
    <3> SUFFICES ASSUME NEW q \in DOMAIN answer, answer'[q] # None
                 PROVE  \E n \in 0..Len(log) :
                           /\ answer'[q] = VotesIn(n, q)
                           /\ \A i \in n + 1..Len(log) :
                                 /\ log[i].at <= VotingEnd /\ VotingEnd < log[i].at + MaxLag
                                 /\ asked <= log[i].at + MaxLag
      BY <2>1, <2>3 DEF OnlyLateBallotsMissing
    <3>1. CASE q = p
      <4>1. Len(log) \in 0..Len(log) /\ Len(log) + 1..Len(log) = {}
        BY <1>2
      <4> QED
        BY <2>2, <3>1, <4>1
    <3>2. CASE q # p
      BY <2>1, <3>2 DEF AnswerInv, OnlyLateBallotsMissing
    <3> QED
      BY <3>1, <3>2
  <2>5. DOMAIN answer' # {} => Deployed' /\ asked' > VotingEnd
    BY <2>1 DEF AnswerInv, Deployed
  <2> QED
    BY <1>1, <2>4, <2>5 DEF AnswerInv
<1>6. ASSUME NEW config \in Configs, Constructor(config) PROVE AnswerInv'
  <2>1. DOMAIN answer = {} /\ answer' = answer
    BY <1>6 DEF Constructor, AnswerInv
  <2> QED
    BY <1>1, <2>1 DEF AnswerInv, OnlyLateBallotsMissing
<1>7. ASSUME NEW sb \in Signed, NEW voter \in Voters, NEW balance \in Claims,
             CastVote(voter, balance, sb[2])
      PROVE  AnswerInv'
  <2>1. /\ Len(log') = Len(log) + 1 /\ log'[Len(log) + 1].at = blockTime
        /\ \A i \in 1..Len(log) : log'[i] = log[i]
        /\ proposalConfig' = proposalConfig
    <3>1. DOMAIN log = 1..Len(log)
      BY <1>2
    <3> QED
      BY <1>7, <3>1, CastEffect DEF AnswerInv
  <2>2. blockTime <= VotingEnd /\ UNCHANGED <<clock, blockTime, asked, answer>>
    BY <1>7 DEF CastVote
  <2>3. \A n \in 0..Len(log) : \A q : VotesIn(n, q)' = VotesIn(n, q)
    <3> SUFFICES ASSUME NEW n \in 0..Len(log), NEW q PROVE VotesIn(n, q)' = VotesIn(n, q)
      OBVIOUS
    <3>1. \A i \in 1..n : i \in 1..Len(log)
      BY <1>2
    <3>2. \A i \in 1..n : log'[i] = log[i]
      BY <2>1, <3>1
    <3>3. ASSUME NEW o
          PROVE  {{log'[i].voter} \X (1..log'[i].votingPower) :
                      i \in {j \in 1..n : log'[j].choices[q + 1] = o - 1}} =
                 {{log[i].voter} \X (1..log[i].votingPower) :
                      i \in {j \in 1..n : log[j].choices[q + 1] = o - 1}}
      BY <3>2
    <3> QED
      BY <2>1, <3>3 DEF VotesIn
  <2>4. OnlyLateBallotsMissing'
    <3> SUFFICES ASSUME NEW q \in DOMAIN answer, answer[q] # None
                 PROVE  \E n \in 0..Len(log') :
                           /\ answer[q] = VotesIn(n, q)'
                           /\ \A i \in n + 1..Len(log') :
                                 /\ log'[i].at <= VotingEnd /\ VotingEnd < log'[i].at + MaxLag
                                 /\ asked <= log'[i].at + MaxLag
      BY <2>2 DEF OnlyLateBallotsMissing
    <3>1. PICK n \in 0..Len(log) :
            /\ answer[q] = VotesIn(n, q)
            /\ \A i \in n + 1..Len(log) :
                   /\ log[i].at <= VotingEnd /\ VotingEnd < log[i].at + MaxLag
                   /\ asked <= log[i].at + MaxLag
      BY DEF AnswerInv, OnlyLateBallotsMissing
    <3>2. VotingEnd < asked /\ asked <= blockTime + MaxLag
      <4>1. \A c, b, m, a \in Int : a <= c /\ c - b <= m => a <= b + m
        OBVIOUS
      <4>2. MaxLag \in Int /\ asked > VotingEnd
        BY VoteEventAssumption DEF AnswerInv
      <4> QED
        BY <1>2, <4>1, <4>2, VoteEventAssumption DEF AnswerInv
    <3>3. VotingEnd < blockTime + MaxLag
      BY <1>2, <3>2, VoteEventAssumption
    <3>4. ASSUME NEW i \in n + 1..Len(log')
          PROVE  /\ log'[i].at <= VotingEnd /\ VotingEnd < log'[i].at + MaxLag
                 /\ asked <= log'[i].at + MaxLag
      <4>1. CASE i = Len(log) + 1
        BY <2>1, <2>2, <3>2, <3>3, <4>1
      <4>2. CASE i # Len(log) + 1
        <5>1. i \in n + 1..Len(log) /\ i \in 1..Len(log)
          BY <1>2, <2>1, <4>2
        <5> QED
          BY <2>1, <3>1, <5>1
      <4> QED
        BY <4>1, <4>2
    <3>5. n \in 0..Len(log')
      BY <1>2, <2>1
    <3> QED
      BY <2>3, <3>1, <3>4, <3>5
  <2> QED
    BY <1>1, <2>1, <2>2, <2>4 DEF AnswerInv, Deployed
<1> QED
  BY <1>3, <1>4, <1>5, <1>6, <1>7 DEF Next, Tick, NewBlock

(* The API goes by its own clock, the contract by block timestamps, and    *)
(* every proposal is read by a call of its own: what getResults answers    *)
(* lacks at most the ballots of the last moments of voting, and nothing    *)
(* once the clock is past the end by more than the lag of the chain.       *)
THEOREM AnswersComplete == Spec => []OnlyLateBallotsMissing
<1>1. Init => AnswerInv
  BY InitCount, VoteEventAssumption DEF Init, AnswerInv, OnlyLateBallotsMissing
<1>2. AnswerInv => OnlyLateBallotsMissing
  BY DEF AnswerInv
<1> QED
  BY <1>1, <1>2, AnswerStep, PTL DEF Spec

-----------------------------------------------------------------------------
(* The refinement mapping, step by step.                                   *)

BoxOptions == [p \in 1..ProposalCount(proposalConfig) |-> OptionCount(proposalConfig, p - 1)]
BoxBallots == [v \in Voters |-> BallotOf(v)]

(* The ballot in the box is the one ballot of the voter in the log.        *)
LEMMA BallotIs ==
  ASSUME EventInv, NEW v \in Voters, NEW i \in DOMAIN log, log[i].voter = v
  PROVE  BallotOf(v) = log[i].choices /\ BallotOf(v) # None
<1>1. LogOf(v) = {i}
  BY DEF LogOf, EventInv, OneFinalVote
<1>2. i \in Int
  BY DEF EventInv, TypeOK
<1>3. (CHOOSE n \in LogOf(v) : \A j \in LogOf(v) : n <= j) = i
  BY <1>1, <1>2
<1>4. log[i].choices \in Seq(0..255)
  <2>1. log[i] \in VoteCast
    BY DEF EventInv, TypeOK
  <2> QED
    BY <2>1 DEF VoteCast
<1> QED
  BY <1>1, <1>3, <1>4, VoteEventAssumption DEF BallotOf

LEMMA BallotNone ==
  ASSUME NEW v, \A i \in DOMAIN log : log[i].voter # v
  PROVE  BallotOf(v) = None
  BY DEF BallotOf, LogOf

LEMMA BallotIsNext ==
  ASSUME NEW v \in Voters
  PROVE  EventInv' => (\A i \in DOMAIN log :
             log[i].voter = v => BallotOf(v) = log[i].choices)'
<1>1. EventInv => \A i \in DOMAIN log : log[i].voter = v => BallotOf(v) = log[i].choices
  BY BallotIs
<1> QED
  BY <1>1, PTL

LEMMA BallotNoneNext ==
  ASSUME NEW v
  PROVE  ((\A i \in DOMAIN log : log[i].voter # v) => BallotOf(v) = None)'
<1>1. (\A i \in DOMAIN log : log[i].voter # v) => BallotOf(v) = None
  BY BallotNone
<1> QED
  BY <1>1, PTL

(* The module instance has a copy of Cardinality.                          *)
LEMMA SameCardinality == ASSUME NEW S PROVE Box!Cardinality(S) = Cardinality(S)
  BY DEF Box!Cardinality, Cardinality

(* The tallies are the count of the ballots in the box.                    *)
ResultIsCount == Results = Box!Count(BoxOptions, BoxBallots)

LEMMA Counted == CountInv => ResultIsCount
<1> SUFFICES ASSUME CountInv PROVE ResultIsCount
  OBVIOUS
<1> DEFINE n == ProposalCount(proposalConfig)
           opts(p) == OptionCount(proposalConfig, p - 1)
           voters(p, o) == {v \in Voters : BoxBallots[v] # None /\ BoxBallots[v][p] = o - 1}
<1>1. ASSUME NEW p \in 1..n PROVE p - 1 \in Proposals /\ (p - 1) + 1 = p /\ Deployed
  <2>1. Deployed
    BY NotDeployed
  <2>2. n \in Nat
    BY <2>1, DeployedConfig
  <2> QED
    BY <2>1, <2>2 DEF Proposals
<1>2. ASSUME NEW p \in 1..n, NEW o \in 1..opts(p)
      PROVE  tallies[TallyKey(p - 1, o - 1)] = Cardinality(PapersOf(voters(p, o)))
  <2>1. p - 1 \in Proposals /\ (p - 1) + 1 = p /\ Deployed
    BY <1>1
  <2>2. o - 1 \in Options
    <3>1. opts(p) \in 2..4
      BY <2>1, DeployedConfig DEF MinOptions, MaxOptions
    <3> QED
      BY <3>1 DEF Options, MaxOptions
  <2>3. voters(p, o) = Chose(p - 1, o - 1)
    <3>1. ASSUME NEW v \in Voters
          PROVE  BallotOf(v) # None /\ BallotOf(v)[p] = o - 1
                 <=> \E i \in DOMAIN log : log[i].voter = v /\ log[i].choices[p] = o - 1
      BY BallotIs, BallotNone DEF CountInv
    <3> QED
      BY <2>1, <3>1 DEF Chose, BoxBallots
  <2> QED
    BY <2>1, <2>2, <2>3 DEF CountInv, TalliesCount
<1>3. Results = [p \in 1..n |-> [o \in 1..opts(p) |-> Cardinality(PapersOf(voters(p, o)))]]
  BY <1>2 DEF Results, ProposalTallies
<1>4. ASSUME NEW S \in SUBSET Voters PROVE Box!Papers(S) = PapersOf(S)
  <2> DEFINE power == [v \in Voters |-> Balance[v] \div VoteUnit]
  <2>1. Box!Papers(S) = UNION {{v} \X (1..power[v]) : v \in S}
    BY DEF Box!Papers
  <2>2. \A v \in S : {v} \X (1..power[v]) = {v} \X (1..Balance[v] \div VoteUnit)
    OBVIOUS
  <2> HIDE DEF power
  <2> QED
    BY <2>1, <2>2 DEF PapersOf
<1>5. \A p \in 1..n : \A o \in 1..opts(p) : Box!Papers(voters(p, o)) = PapersOf(voters(p, o))
  BY <1>4
<1>6. Box!Count(BoxOptions, BoxBallots) =
        [p \in 1..n |-> [o \in 1..opts(p) |-> Cardinality(PapersOf(voters(p, o)))]]
  <2>1. Box!Count(BoxOptions, BoxBallots) =
          [p \in DOMAIN BoxOptions |->
              [o \in 1..BoxOptions[p] |-> Box!Cardinality(Box!Papers(voters(p, o)))]]
    BY DEF Box!Count
  <2>2. DOMAIN BoxOptions = 1..n /\ \A p \in 1..n : BoxOptions[p] = opts(p)
    BY DEF BoxOptions
  <2> HIDE DEF n, opts, voters
  <2> QED
    BY <1>5, <2>1, <2>2, SameCardinality
<1> QED
  BY <1>3, <1>6 DEF ResultIsCount

LEMMA CountedNext == CountInv' => ResultIsCount'
  BY Counted, PTL
(* As sequences, for the lengths.                                          *)
LEMMA OptionsSeq ==
  ASSUME CountInv
  PROVE  /\ DOMAIN BoxOptions = 1..ProposalCount(proposalConfig)
         /\ ~Deployed => BoxOptions = <<>> /\ Results = <<>>
         /\ Deployed => /\ Len(BoxOptions) = ProposalCount(proposalConfig)
                        /\ \A p \in DOMAIN BoxOptions : BoxOptions[p] \in 2..4
<1> DEFINE n == ProposalCount(proposalConfig)
<1>1. n \in Nat
  BY NotDeployed, DeployedConfig
<1>2. DOMAIN BoxOptions = 1..n
  BY DEF BoxOptions
<1>3. CASE ~Deployed
  <2>1. 1..n = {}
    BY <1>3, NotDeployed
  <2>2. BoxOptions = <<>>
    BY <2>1 DEF BoxOptions
  <2>3. Results = <<>>
    BY <2>1 DEF Results
  <2> QED
    BY <1>2, <1>3, <2>2, <2>3
<1>4. CASE Deployed
  <2>1. ASSUME NEW p \in 1..n PROVE BoxOptions[p] \in 2..4
    <3>1. p - 1 \in Proposals
      BY <1>1 DEF Proposals
    <3> QED
      BY <1>4, <3>1, DeployedConfig DEF BoxOptions, MinOptions, MaxOptions
  <2>2. BoxOptions \in [1..n -> 2..4]
    BY <2>1 DEF BoxOptions
  <2>3. Len(BoxOptions) = n
    BY <1>1, <2>2
  <2> QED
    BY <1>2, <1>4, <2>1, <2>3
<1> QED
  BY <1>3, <1>4

LEMMA OptionsSeqNext ==
  CountInv' => (Deployed => \A p \in DOMAIN BoxOptions : BoxOptions[p] \in 2..4)'
<1>1. CountInv => (Deployed => \A p \in DOMAIN BoxOptions : BoxOptions[p] \in 2..4)
  BY OptionsSeq
<1> QED
  BY <1>1, PTL

LEMMA InitBox == Init => Box!Init
<1> SUFFICES ASSUME Init PROVE Box!Init
  OBVIOUS
<1>1. CountInv /\ ~Deployed
  BY InitCount DEF Init, Deployed
<1>2. BoxOptions = <<>> /\ Results = <<>>
  BY <1>1, OptionsSeq
<1>3. \A v \in Voters : BallotOf(v) = None
  BY BallotNone DEF Init
<1> QED
  BY <1>1, <1>2, <1>3 DEF Box!Init, Phase, BoxOptions

(* The constructor opens the box.                                          *)
LEMMA OpenBox ==
  ASSUME CountInv, CountInv', NEW config \in Configs, Constructor(config)
  PROVE  Box!Open
<1>1. ~Deployed /\ Deployed' /\ log' = log
  BY DEF Constructor, Accepted, Deployed
<1>2. Phase = "unopened" /\ Phase' \in {"waiting", "open"}
  <2>1. blockTime' = blockTime /\ blockTime < VotingEnd /\ blockTime \in Int
    BY VoteEventAssumption DEF Constructor, Accepted, CountInv, EventInv, TypeOK
  <2> QED
    BY <1>1, <2>1, VoteEventAssumption DEF Phase
<1>3. BoxBallots' = BoxBallots
  BY <1>1 DEF BoxBallots, BallotOf, LogOf
<1>4. \A p \in DOMAIN BoxOptions' : BoxOptions'[p] \in 2..4
  BY <1>1, OptionsSeqNext
<1>5. Results' = Box!Count(BoxOptions', BoxBallots)
  BY <1>3, CountedNext DEF ResultIsCount
<1> QED
  BY <1>2, <1>3, <1>4, <1>5 DEF Box!Open, BoxOptions, BoxBallots

(* castVote puts the voter's ballot in it.                                 *)
LEMMA CastInBox ==
  ASSUME CountInv, CountInv', NEW sb \in Signed, NEW voter \in Voters,
         NEW balance \in Claims, CastVote(voter, balance, sb[2])
  PROVE  \E signed \in Signed : Box!Cast(signed[1], signed[2])
<1> DEFINE b == sb[2]
<1>1. /\ Deployed /\ proposalConfig' = proposalConfig
      /\ b \in Seq(0..255) /\ Len(b) = ProposalCount(proposalConfig)
      /\ <<voter, b>> \in Signed
      /\ \A p \in Proposals : b[p + 1] < OptionCount(proposalConfig, p)
      /\ Balance[voter] \div VoteUnit \in Nat \ {0}
  BY CastEffect
<1> HIDE DEF b
<1>2. Phase = "open" /\ Phase' = Phase
  <2>1. /\ VotingStart <= blockTime /\ blockTime <= VotingEnd /\ blockTime' = blockTime
        /\ blockTime \in Int
    BY DEF CastVote, CountInv, EventInv, TypeOK
  <2> QED
    BY <1>1, <2>1, VoteEventAssumption DEF Phase, Deployed
<1>3. BoxOptions' = BoxOptions
  BY <1>1 DEF BoxOptions
<1>4. Len(b) = Len(BoxOptions) /\ \A p \in DOMAIN b : b[p] \in 0..BoxOptions[p] - 1
  <2>1. Len(BoxOptions) = ProposalCount(proposalConfig)
    BY <1>1, OptionsSeq
  <2>2. ASSUME NEW p \in DOMAIN b PROVE b[p] \in 0..BoxOptions[p] - 1
    <3>1. p \in 1..Len(b) /\ b[p] \in 0..255
      <4>1. b \in Seq(0..255)
        BY <1>1
      <4> QED
        BY <4>1
    <3>2. p \in 1..ProposalCount(proposalConfig) /\ ProposalCount(proposalConfig) \in Nat
      BY <1>1, <3>1, DeployedConfig
    <3>3. p - 1 \in Proposals /\ (p - 1) + 1 = p
      BY <3>2 DEF Proposals
    <3>4. BoxOptions[p] \in 2..4 /\ BoxOptions[p] = OptionCount(proposalConfig, p - 1)
      BY <1>1, <3>2, OptionsSeq DEF BoxOptions
    <3>5. b[(p - 1) + 1] < OptionCount(proposalConfig, p - 1)
      BY <1>1, <3>3
    <3>6. b[p] < BoxOptions[p]
      BY <3>3, <3>4, <3>5, Zenon
    <3>7. \A x \in 0..255 : \A y \in 2..4 : x < y => x \in 0..y - 1
      OBVIOUS
    <3> QED
      BY <3>1, <3>4, <3>6, <3>7, Zenon
  <2> QED
    BY <1>1, <2>1, <2>2
<1>5. BoxBallots[voter] = None /\ BoxBallots' = [BoxBallots EXCEPT ![voter] = b]
  <2> DEFINE n == Len(log) + 1
  <2>1. /\ \A i \in DOMAIN log : log[i].voter # voter /\ log'[i] = log[i]
        /\ DOMAIN log' = DOMAIN log \cup {n} /\ n \notin DOMAIN log
        /\ log'[n].voter = voter /\ log'[n].choices = b
    BY CastEffect DEF b
  <2> HIDE DEF n
  <2>2. BallotOf(voter) = None
    BY <2>1, BallotNone
  <2>3. BallotOf(voter)' = b
    BY <2>1, BallotIsNext DEF CountInv
  <2>4. ASSUME NEW v \in Voters, v # voter PROVE BallotOf(v)' = BallotOf(v)
    BY <2>1, <2>4, BallotIs, BallotIsNext, BallotNone, BallotNoneNext DEF CountInv
  <2> QED
    BY <2>2, <2>3, <2>4 DEF BoxBallots
<1>6. Results' = Box!Count(BoxOptions, BoxBallots')
  BY <1>3, CountedNext DEF ResultIsCount
<1>7. Box!ValidBallot(b)
  BY <1>4 DEF Box!ValidBallot, BoxOptions
<1>8. [v \in Voters |-> Balance[v] \div VoteUnit][voter] > 0
  BY <1>1
<1>9. Box!Cast(voter, b)
  BY <1>1, <1>2, <1>3, <1>5, <1>6, <1>7, <1>8 DEF Box!Cast, BoxOptions, BoxBallots
<1> QED
  BY <1>1, <1>9

LEMMA BoxStep ==
  CountInv /\ CountInv' /\ [Next]_vars => [Box!Next]_(Box!boxVars)
<1> SUFFICES ASSUME CountInv, CountInv', [Next]_vars
             PROVE  Box!Next \/ UNCHANGED Box!boxVars
  OBVIOUS
<1>1. CASE UNCHANGED contractVars
  <2>1. BoxOptions' = BoxOptions /\ BoxBallots' = BoxBallots /\ Results' = Results
    BY <1>1 DEF BoxOptions, BoxBallots, BallotOf, LogOf, Results, ProposalTallies
  <2>2. \/ Phase' = Phase
        \/ Phase = "waiting" /\ Phase' \in {"open", "closed"}
        \/ Phase = "open" /\ Phase' = "closed"
    <3>1. blockTime \in Int /\ blockTime' \in Int /\ Deployed' = Deployed
      BY <1>1, VoteEventAssumption DEF CountInv, EventInv, TypeOK, Deployed
    <3>2. blockTime' = blockTime \/ NewBlock
      BY DEF Next, Tick, GetResults, ReadTallies, Constructor, CastVote
    <3>3. blockTime <= blockTime'
      BY <3>1, <3>2 DEF NewBlock
    <3> QED
      BY <3>1, <3>3, VoteEventAssumption DEF Phase
  <2> QED
    BY <2>1, <2>2 DEF Box!Next, Box!Advance, Box!boxVars, BoxOptions, BoxBallots
<1>2. ASSUME NEW config \in Configs, Constructor(config) PROVE Box!Next
  BY <1>2, OpenBox DEF Box!Next
<1>3. ASSUME NEW sb \in Signed, NEW voter \in Voters, NEW balance \in Claims,
             CastVote(voter, balance, sb[2])
      PROVE  Box!Next
  BY <1>3, CastInBox DEF Box!Next
<1> QED
  BY <1>1, <1>2, <1>3 DEF Next, Tick, NewBlock, GetResults, ReadTallies

(* VoteEvent implements the ballot box: the log is the box, and the        *)
(* tallies castVote keeps are the count of the ballots at all times.       *)
THEOREM BallotBoxImplemented == Spec => ImplementsBallotBox
  BY InitBox, BoxStep, AlwaysCount, PTL DEF Spec, ImplementsBallotBox, Box!Spec

-----------------------------------------------------------------------------
(* The packing.                                                            *)

(* Induction over the naturals, by the least member of a set of them.      *)
LEMMA LeastNatural ==
  ASSUME NEW T, T \subseteq Nat, T # {}
  PROVE  \E n \in T : \A m \in T : n <= m
<1>1. PICK x \in T : \A y \in T : ~ (<<y, x>> \in OpToRel(<, Nat))
  BY NatLessThanWellFounded, WFMin, Zenon
<1>2. \A y \in T : ~ (y < x)
  BY <1>1, Zenon DEF OpToRel
<1> QED
  BY <1>2

LEMMA SetInduction ==
  ASSUME NEW T, 0 \in T, \A n \in Nat : n \in T => n + 1 \in T
  PROVE  \A n \in Nat : n \in T
<1> SUFFICES ASSUME Nat \ T # {} PROVE FALSE
  OBVIOUS
<1>1. PICK n \in Nat \ T : \A m \in Nat \ T : n <= m
  BY LeastNatural
<1>2. n # 0 /\ n - 1 \in Nat
  OBVIOUS
<1>3. n - 1 \in T
  BY <1>1, <1>2
<1> QED
  BY <1>1, <1>2, <1>3

(* The two recursive functions exist.                                      *)
LEMMA PlaceExists ==
  \A n \in Nat : \E g : g = [k \in 0..n |-> IF k = 0 THEN 256 ELSE 16 * g[k - 1]]
<1> DEFINE T == {n \in Nat : \E g : g = [k \in 0..n |-> IF k = 0 THEN 256 ELSE 16 * g[k - 1]]}
<1>1. 0 \in T
  <2>1. [k \in 0..0 |-> 256] = [k \in 0..0 |-> IF k = 0 THEN 256 ELSE 16 * [l \in 0..0 |-> 256][k - 1]]
    OBVIOUS
  <2> QED
    BY <2>1
<1>2. ASSUME NEW n \in Nat, n \in T PROVE n + 1 \in T
  <2>1. PICK g : g = [k \in 0..n |-> IF k = 0 THEN 256 ELSE 16 * g[k - 1]]
    BY <1>2
  <2> DEFINE h == [k \in 0..(n + 1) |-> IF k = n + 1 THEN 16 * g[n] ELSE g[k]]
  <2>2. ASSUME NEW k \in 0..(n + 1) PROVE h[k] = IF k = 0 THEN 256 ELSE 16 * h[k - 1]
    <3>1. CASE k = 0
      BY <3>1, <2>1
    <3>2. CASE k = n + 1
      <4>1. k - 1 = n /\ n \in 0..(n + 1) /\ n # n + 1 /\ k # 0
        BY <3>2
      <4>2. h[k] = 16 * g[n] /\ h[n] = g[n]
        BY <3>2, <4>1
      <4> QED
        BY <4>1, <4>2
    <3>3. CASE k # 0 /\ k # n + 1
      <4>1. k \in 0..n /\ k - 1 \in 0..(n + 1) /\ k - 1 # n + 1
        BY <3>3
      <4>2. g[k] = 16 * g[k - 1]
        BY <2>1, <3>3, <4>1
      <4>3. h[k] = g[k] /\ h[k - 1] = g[k - 1]
        BY <3>3, <4>1
      <4> QED
        BY <3>3, <4>2, <4>3
    <3> QED
      BY <3>1, <3>2, <3>3
  <2>3. h = [k \in 0..(n + 1) |-> IF k = 0 THEN 256 ELSE 16 * h[k - 1]]
    BY <2>2
  <2> HIDE DEF h
  <2>4. \E f : f = [k \in 0..(n + 1) |-> IF k = 0 THEN 256 ELSE 16 * f[k - 1]]
    BY <2>3
  <2>5. n + 1 \in Nat
    OBVIOUS
  <2> QED
    BY <2>4, <2>5, Zenon
<1> HIDE DEF T
<1>3. \A n \in Nat : n \in T
  BY <1>1, <1>2, SetInduction
<1> QED
  BY <1>3 DEF T

LEMMA PlaceSteps ==
  Place[0] = 256 /\ \A k \in 1..MaxProposals : Place[k] = 16 * Place[k - 1]
<1>1. MaxProposals \in Nat
  BY DEF MaxProposals
<1>2. Place = [k \in 0..MaxProposals |-> IF k = 0 THEN 256 ELSE 16 * Place[k - 1]]
  BY <1>1, PlaceExists DEF Place
<1> DEFINE c == Place
<1>3. c = [k \in 0..MaxProposals |-> IF k = 0 THEN 256 ELSE 16 * c[k - 1]]
  BY <1>2
<1> HIDE DEF c
<1>4. c[0] = 256
  BY <1>1, <1>3
<1>5. \A k \in 1..MaxProposals : c[k] = 16 * c[k - 1]
  BY <1>1, <1>3
<1> QED
  BY <1>4, <1>5 DEF c

LEMMA PackedExists ==
  ASSUME NEW counts
  PROVE  \A n \in Nat : \E g : g = [k \in 0..n |-> IF k = 0 THEN Len(counts)
                                     ELSE g[k - 1] + counts[k] * Place[k - 1]]
<1> DEFINE T == {n \in Nat : \E g : g = [k \in 0..n |-> IF k = 0 THEN Len(counts)
                                     ELSE g[k - 1] + counts[k] * Place[k - 1]]}
<1>1. 0 \in T
  <2> DEFINE z == [k \in 0..0 |-> Len(counts)]
  <2>1. z = [k \in 0..0 |-> IF k = 0 THEN Len(counts) ELSE z[k - 1] + counts[k] * Place[k - 1]]
    OBVIOUS
  <2> HIDE DEF z
  <2> QED
    BY <2>1
<1>2. ASSUME NEW n \in Nat, n \in T PROVE n + 1 \in T
  <2>1. PICK g : g = [k \in 0..n |-> IF k = 0 THEN Len(counts)
                                     ELSE g[k - 1] + counts[k] * Place[k - 1]]
    BY <1>2
  <2> DEFINE h == [k \in 0..(n + 1) |->
                      IF k = n + 1 THEN g[n] + counts[n + 1] * Place[n] ELSE g[k]]
  <2>2. ASSUME NEW k \in 0..(n + 1)
        PROVE  h[k] = IF k = 0 THEN Len(counts) ELSE h[k - 1] + counts[k] * Place[k - 1]
    <3>1. CASE k = 0
      BY <3>1, <2>1
    <3>2. CASE k = n + 1
      <4>1. k - 1 = n /\ n \in 0..(n + 1) /\ n # n + 1 /\ k # 0
        BY <3>2
      <4>2. h[k] = g[n] + counts[n + 1] * Place[n] /\ h[n] = g[n]
        BY <3>2, <4>1
      <4> QED
        BY <3>2, <4>1, <4>2
    <3>3. CASE k # 0 /\ k # n + 1
      <4>1. k \in 0..n /\ k - 1 \in 0..(n + 1) /\ k - 1 # n + 1
        BY <3>3
      <4>2. g[k] = g[k - 1] + counts[k] * Place[k - 1]
        BY <2>1, <3>3, <4>1
      <4>3. h[k] = g[k] /\ h[k - 1] = g[k - 1]
        BY <3>3, <4>1
      <4> QED
        BY <3>3, <4>2, <4>3
    <3> QED
      BY <3>1, <3>2, <3>3
  <2>3. h = [k \in 0..(n + 1) |-> IF k = 0 THEN Len(counts)
                                  ELSE h[k - 1] + counts[k] * Place[k - 1]]
    BY <2>2
  <2> HIDE DEF h
  <2> QED
    BY <2>3
<1> HIDE DEF T
<1>3. \A n \in Nat : n \in T
  BY <1>1, <1>2, SetInduction
<1> QED
  BY <1>3 DEF T

(* The running value of packProposalConfig.                                *)
LEMMA PackedSteps ==
  ASSUME NEW counts, Len(counts) \in Nat
  PROVE  \E g : /\ g[0] = Len(counts)
                /\ \A k \in 1..Len(counts) : g[k] = g[k - 1] + counts[k] * Place[k - 1]
                /\ PackProposalConfig(counts) = g[Len(counts)]
<1>1. PICK g : /\ g = [k \in 0..Len(counts) |-> IF k = 0 THEN Len(counts)
                                  ELSE g[k - 1] + counts[k] * Place[k - 1]]
               /\ PackProposalConfig(counts) = g[Len(counts)]
  BY PackedExists DEF PackProposalConfig
<1>2. g[0] = Len(counts)
  BY <1>1
<1>3. \A k \in 1..Len(counts) : g[k] = g[k - 1] + counts[k] * Place[k - 1]
  BY <1>1
<1> QED
  BY <1>1, <1>2, <1>3

(* Every place is a whole number of bytes and of the places below it.      *)
LEMMA PlaceType ==
  \A n \in 0..MaxProposals : Place[n] \in Nat \ {0} /\ \E m \in Nat : Place[n] = 256 * m
<1> DEFINE T == {n \in Nat : n <= MaxProposals =>
                    Place[n] \in Nat \ {0} /\ \E m \in Nat : Place[n] = 256 * m}
<1>1. 0 \in T
  BY PlaceSteps
<1>2. ASSUME NEW n \in Nat, n \in T PROVE n + 1 \in T
  <2> SUFFICES ASSUME n + 1 <= MaxProposals
               PROVE  Place[n + 1] \in Nat \ {0} /\ \E m \in Nat : Place[n + 1] = 256 * m
    OBVIOUS
  <2>1. Place[n + 1] = 16 * Place[n] /\ n <= MaxProposals
    BY PlaceSteps DEF MaxProposals
  <2>2. PICK m \in Nat : Place[n] = 256 * m /\ Place[n] \in Nat \ {0}
    BY <1>2, <2>1
  <2>3. 16 * m \in Nat /\ Place[n + 1] = 256 * (16 * m) /\ Place[n + 1] # 0 /\ Place[n + 1] \in Nat
    BY <2>1, <2>2
  <2> QED
    BY <2>3
<1> HIDE DEF T
<1>3. \A n \in Nat : n \in T
  BY <1>1, <1>2, SetInduction
<1> QED
  BY <1>3 DEF T, MaxProposals

LEMMA PlaceMultiple ==
  ASSUME NEW i \in 0..MaxProposals
  PROVE  \A n \in 0..MaxProposals : i < n => \E m \in Nat : Place[n] = 16 * m * Place[i]
<1> DEFINE T == {n \in Nat : n <= MaxProposals /\ i < n =>
                    \E m \in Nat : Place[n] = 16 * m * Place[i]}
<1>1. 0 \in T
  BY DEF MaxProposals
<1>2. ASSUME NEW n \in Nat, n \in T PROVE n + 1 \in T
  <2> SUFFICES ASSUME n + 1 <= MaxProposals, i < n + 1
               PROVE  \E m \in Nat : Place[n + 1] = 16 * m * Place[i]
    OBVIOUS
  <2>1. Place[n + 1] = 16 * Place[n] /\ n <= MaxProposals
    BY PlaceSteps DEF MaxProposals
  <2>2. Place[i] \in Nat
    BY PlaceType
  <2>3. CASE i = n
    <3>1. Place[n + 1] = 16 * 1 * Place[i]
      BY <2>1, <2>2, <2>3
    <3> QED
      BY <3>1
  <2>4. CASE i < n
    <3>1. PICK m \in Nat : Place[n] = 16 * m * Place[i]
      BY <1>2, <2>1, <2>4
    <3>2. \A x \in Nat : 16 * (16 * m * x) = 16 * (16 * m) * x
      OBVIOUS
    <3>3. Place[n + 1] = 16 * (16 * m) * Place[i] /\ 16 * m \in Nat
      BY <2>1, <2>2, <3>1, <3>2
    <3> QED
      BY <3>3
  <2> QED
    BY <2>3, <2>4 DEF MaxProposals
<1> HIDE DEF T
<1>3. \A n \in Nat : n \in T
  BY <1>1, <1>2, SetInduction
<1> QED
  BY <1>3 DEF T, MaxProposals

(* Reading a place of a value that a higher place was added to.            *)
LEMMA AddHigher ==
  ASSUME NEW x \in Nat, NEW b \in Nat \ {0}, NEW m \in Nat
  PROVE  ((x + 16 * m * b) \div b) % 16 = (x \div b) % 16
<1>1. PICK q \in Nat, r \in Nat : x = q * b + r /\ r < b /\ x \div b = q
  OBVIOUS
<1>2. x + 16 * m * b = (q + 16 * m) * b + r
  BY <1>1
<1>3. (x + 16 * m * b) \div b = q + 16 * m
  BY <1>1, <1>2
<1>4. \A p \in Nat, l \in Nat : (p + 16 * l) % 16 = p % 16
  OBVIOUS
<1> QED
  BY <1>1, <1>3, <1>4

LEMMA AddHere ==
  ASSUME NEW x \in Nat, NEW b \in Nat \ {0}, x < b, NEW a \in 0..15
  PROVE  ((x + a * b) \div b) % 16 = a /\ x + a * b < 16 * b /\ x + a * b \in Nat
<1>1. (x + a * b) \div b = a
  OBVIOUS
<1>2. a % 16 = a
  OBVIOUS
<1>3. x + a * b < 16 * b /\ x + a * b \in Nat
  OBVIOUS
<1> QED
  BY <1>1, <1>2, <1>3

(* A value up to a place is what it is up to the place below and the four  *)
(* bits between.                                                           *)
LEMMA UpTo ==
  ASSUME NEW c \in Nat, NEW b \in Nat \ {0}
  PROVE  c % (16 * b) = (c % b) + ((c \div b) % 16) * b
<1>1. PICK q \in Nat, r \in Nat : c = q * b + r /\ r < b /\ c \div b = q /\ c % b = r
  OBVIOUS
<1>2. PICK s \in Nat, t \in 0..15 : q = 16 * s + t /\ q % 16 = t
  OBVIOUS
<1>3. c = s * (16 * b) + (t * b + r)
  BY <1>1, <1>2
<1>4. t * b + r < 16 * b /\ t * b + r \in Nat
  BY <1>1
<1>5. \A d \in Nat \ {0}, u \in Nat, v \in Nat : v < d => (u * d + v) % d = v
  OBVIOUS
<1> DEFINE d == 16 * b
           v == t * b + r
<1>6. c = s * d + v /\ v < d /\ v \in Nat /\ d \in Nat \ {0}
  BY <1>3, <1>4
<1> HIDE DEF d, v
<1>7. c % d = v
  BY <1>5, <1>6
<1> QED
  BY <1>1, <1>2, <1>7 DEF d, v

(* What the API packs: the count in the low byte, every option count in    *)
(* its place, and nothing above.                                           *)
LEMMA PackedReads ==
  ASSUME NEW counts \in Seq(Nat), Packable(counts)
  PROVE  LET n      == Len(counts)
             config == PackProposalConfig(counts)
         IN  /\ config \in Nat \ {0} /\ ProposalCount(config) = n
             /\ \A i \in 0..n - 1 : OptionBits(config, i) = counts[i + 1]
             /\ config \div Place[n] = 0
<1> DEFINE n == Len(counts)
<1>1. MaxProposals = 32 /\ MinOptions = 2 /\ MaxOptions = 4
  BY DEF MinOptions, MaxOptions, MaxProposals
<1>2. n \in 1..32 /\ DOMAIN counts = 1..n
  BY <1>1 DEF Packable
<1>3. \A k \in 1..n : counts[k] \in 2..4
  BY <1>1, <1>2 DEF Packable
<1>4. Len(counts) = n
  OBVIOUS
<1> HIDE DEF n
<1>5. PICK g : /\ g[0] = n
               /\ \A k \in 1..n : g[k] = g[k - 1] + counts[k] * Place[k - 1]
               /\ PackProposalConfig(counts) = g[n]
  BY <1>2, <1>4, PackedSteps
<1> DEFINE T == {k \in Nat : k <= n =>
                    /\ g[k] \in Nat \ {0} /\ g[k] < Place[k] /\ g[k] % 256 = n
                    /\ \A i \in 0..k - 1 : (g[k] \div Place[i]) % 16 = counts[i + 1]}
<1>6. 0 \in T
  <2>1. \A l \in 1..32 : l % 256 = l /\ l < 256 /\ l # 0
    OBVIOUS
  <2> QED
    <3>1. n % 256 = n /\ n < 256 /\ n # 0 /\ n \in Nat
      BY <1>2, <2>1
    <3>2. g[0] = n /\ Place[0] = 256
      BY <1>5, PlaceSteps
    <3>3. g[0] \in Nat \ {0} /\ g[0] < Place[0] /\ g[0] % 256 = n /\ 0..(0 - 1) = {}
      BY <3>1, <3>2
    <3> QED
      BY <3>3
<1>7. ASSUME NEW k \in Nat, k \in T PROVE k + 1 \in T
  <2> SUFFICES ASSUME k + 1 <= n
               PROVE  /\ g[k + 1] \in Nat \ {0} /\ g[k + 1] < Place[k + 1]
                      /\ g[k + 1] % 256 = n
                      /\ \A i \in 0..k : (g[k + 1] \div Place[i]) % 16 = counts[i + 1]
    OBVIOUS
  <2> DEFINE x == g[k]
             a == counts[k + 1]
             b == Place[k]
  <2>1. /\ x \in Nat \ {0} /\ x < b /\ x % 256 = n
        /\ \A i \in 0..k - 1 : (x \div Place[i]) % 16 = counts[i + 1]
    BY <1>2, <1>7
  <2>2. a \in 0..15 /\ a # 0 /\ k \in 0..MaxProposals /\ k + 1 \in 1..MaxProposals
    <3>1. k + 1 \in 1..n
      BY <1>2
    <3>2. counts[k + 1] \in 2..4
      BY <1>3, <3>1
    <3>3. \A c \in 2..4 : c \in 0..15 /\ c # 0
      OBVIOUS
    <3>4. k \in 0..32 /\ k + 1 \in 1..32
      BY <1>2, <3>1
    <3> QED
      BY <1>1, <3>2, <3>3, <3>4
  <2>3. b \in Nat \ {0} /\ Place[k + 1] = 16 * b
    BY <2>2, PlaceType, PlaceSteps
  <2>4. PICK m \in Nat : b = 256 * m
    BY <2>2, PlaceType
  <2>5. g[k + 1] = x + a * b
    BY <1>5, <1>2, <2>2
  <2> HIDE DEF x, a, b
  <2>6. /\ ((x + a * b) \div b) % 16 = a /\ x + a * b < 16 * b
        /\ x + a * b \in Nat
    BY <2>1, <2>2, <2>3, AddHere
  <2>7. x + a * b # 0
    BY <2>1, <2>2, <2>3
  <2>8. (x + a * b) % 256 = n
    <3>1. \A u \in Nat, v \in Nat : (u + 256 * v) % 256 = u % 256
      OBVIOUS
    <3>2. a * b = 256 * (a * m) /\ a * m \in Nat
      BY <2>2, <2>4
    <3> QED
      BY <2>1, <3>1, <3>2
  <2>9. ASSUME NEW i \in 0..k PROVE ((x + a * b) \div Place[i]) % 16 = counts[i + 1]
    <3>1. CASE i = k
      BY <2>6, <3>1 DEF a, b
    <3>2. CASE i < k
      <4>0. i \in 0..MaxProposals
        BY <1>1, <2>2
      <4>1. Place[i] \in Nat \ {0}
        BY <4>0, PlaceType
      <4>2. PICK p \in Nat : b = 16 * p * Place[i]
        BY <4>0, <2>2, <3>2, PlaceMultiple DEF b
      <4>3. \A u \in Nat : a * (16 * p * u) = 16 * (a * p) * u
        BY <2>2
      <4>4. a * b = 16 * (a * p) * Place[i]
        BY <4>1, <4>2, <4>3
      <4>5. a * p \in Nat
        BY <2>2
      <4> DEFINE m2 == a * p
                 d == Place[i]
      <4>6. m2 \in Nat /\ d \in Nat \ {0} /\ a * b = 16 * m2 * d /\ x \in Nat
        BY <4>1, <4>4, <4>5, <2>1
      <4> HIDE DEF m2, d
      <4>7. ((x + 16 * m2 * d) \div d) % 16 = (x \div d) % 16
        BY <4>6, AddHigher
      <4> QED
        BY <4>6, <4>7, <2>1, <3>2 DEF d
    <3> QED
      BY <3>1, <3>2
  <2> QED
    BY <2>3, <2>5, <2>6, <2>7, <2>8, <2>9
<1> HIDE DEF T
<1>8. \A k \in Nat : k \in T
  BY <1>6, <1>7, SetInduction
<1>9. /\ g[n] \in Nat \ {0} /\ g[n] < Place[n] /\ g[n] % 256 = n
      /\ \A i \in 0..n - 1 : (g[n] \div Place[i]) % 16 = counts[i + 1]
  BY <1>2, <1>8 DEF T
<1>10. g[n] \div Place[n] = 0
  <2>0. n \in 0..MaxProposals
    BY <1>1, <1>2
  <2>1. Place[n] \in Nat \ {0}
    BY <2>0, PlaceType
  <2>2. \A u \in Nat, v \in Nat \ {0} : u < v => u \div v = 0
    OBVIOUS
  <2> QED
    BY <1>9, <2>1, <2>2
<1> QED
  BY <1>5, <1>9, <1>10 DEF ProposalCount, OptionBits, n

(* What the contract accepts is packed from the counts read in it.         *)
LEMMA ReadsPacked ==
  ASSUME NEW config \in Nat, ValidProposalConfig(config)
  PROVE  LET counts == [i \in 1..ProposalCount(config) |-> OptionCount(config, i - 1)]
         IN  Packable(counts) /\ PackProposalConfig(counts) = config
<1> DEFINE n == ProposalCount(config)
           counts == [i \in 1..n |-> OptionCount(config, i - 1)]
<1>1. n \in 1..MaxProposals /\ MaxProposals = 32 /\ n \in Nat /\ n = config % 256
  BY DEF ValidProposalConfig, ProposalCount, MaxProposals
<1>2. \A i \in 0..n - 1 : OptionBits(config, i) \in MinOptions..MaxOptions
  BY DEF ValidProposalConfig
<1>3. config \div Place[n] = 0
  BY DEF ValidProposalConfig
<1> HIDE DEF n
<1>4. Len(counts) = n /\ DOMAIN counts = 1..n
  BY <1>1
<1>5. \A k \in 1..n : counts[k] = OptionBits(config, k - 1)
  BY DEF OptionCount
<1> HIDE DEF counts
<1>6. Packable(counts)
  <2>1. \A k \in 1..n : counts[k] \in MinOptions..MaxOptions
    BY <1>1, <1>2, <1>5
  <2> QED
    BY <1>1, <1>4, <2>1 DEF Packable
<1>7. PICK g : /\ g[0] = n
               /\ \A k \in 1..n : g[k] = g[k - 1] + counts[k] * Place[k - 1]
               /\ PackProposalConfig(counts) = g[n]
  BY <1>1, <1>4, PackedSteps
<1> DEFINE T == {k \in Nat : k <= n => g[k] = config % Place[k]}
<1>8. 0 \in T
  BY <1>1, <1>7, PlaceSteps
<1>9. ASSUME NEW k \in Nat, k \in T PROVE k + 1 \in T
  <2> SUFFICES ASSUME k + 1 <= n PROVE g[k + 1] = config % Place[k + 1]
    OBVIOUS
  <2>1. k \in 0..MaxProposals /\ k + 1 \in 1..MaxProposals /\ k + 1 \in 1..n
    BY <1>1
  <2>2. Place[k] \in Nat \ {0} /\ Place[k + 1] = 16 * Place[k]
    BY <2>1, PlaceType, PlaceSteps
  <2>3. g[k + 1] = g[k] + counts[k + 1] * Place[k] /\ g[k] = config % Place[k]
    <3>1. (k + 1) - 1 = k /\ k <= n
      BY <1>1
    <3>2. g[k + 1] = g[(k + 1) - 1] + counts[k + 1] * Place[(k + 1) - 1]
      BY <1>7, <2>1
    <3> QED
      BY <1>9, <3>1, <3>2
  <2>4. counts[k + 1] = (config \div Place[k]) % 16
    BY <1>5, <2>1 DEF OptionBits
  <2>5. config % (16 * Place[k]) = (config % Place[k]) + ((config \div Place[k]) % 16) * Place[k]
    BY <2>2, UpTo
  <2> QED
    BY <2>2, <2>3, <2>4, <2>5
<1> HIDE DEF T
<1>10. \A k \in Nat : k \in T
  BY <1>8, <1>9, SetInduction
<1>11. g[n] = config % Place[n]
  BY <1>1, <1>10 DEF T
<1>12. config % Place[n] = config
  <2>1. Place[n] \in Nat \ {0}
    BY <1>1, PlaceType
  <2>2. \A u \in Nat, v \in Nat \ {0} : u \div v = 0 => u % v = u
    OBVIOUS
  <2> QED
    BY <1>3, <2>1, <2>2
<1> QED
  BY <1>6, <1>7, <1>11, <1>12 DEF n, counts

(* The contract and the API agree on the packing, up to all 32 proposals:  *)
(* the recursive packing, as proposal-config.js computes it, and the       *)
(* shifts and masks of the contract undo each other.                       *)
THEOREM PackingIsAgreed == Spec => []PackingAgrees
<1>1. ASSUME CountInv PROVE PackingAgrees
  <2>1. ASSUME Deployed
        PROVE  ValidProposalConfig(proposalConfig) /\ proposalConfig \in Nat
    BY <1>1, <2>1, VoteEventAssumption DEF CountInv, EventInv, TypeOK
  <2>2. ASSUME Deployed
        PROVE  LET counts == [i \in 1..ProposalCount(proposalConfig) |->
                                  OptionCount(proposalConfig, i - 1)]
               IN  Packable(counts) /\ PackProposalConfig(counts) = proposalConfig
    BY <2>1, <2>2, ReadsPacked
  <2>3. ASSUME SnapshotBlock < blockTime, VotingStart < VotingEnd, blockTime < VotingEnd,
               NEW counts \in Requests, Packable(counts)
        PROVE  Accepted(PackProposalConfig(counts))
    <3> DEFINE config == PackProposalConfig(counts)
               n      == Len(counts)
    <3>1. counts \in Seq(Nat) /\ blockTime \in Int
      BY <1>1, VoteEventAssumption DEF CountInv, EventInv, TypeOK
    <3>2. /\ config \in Nat \ {0} /\ ProposalCount(config) = n
          /\ \A i \in 0..n - 1 : OptionBits(config, i) = counts[i + 1]
          /\ config \div Place[n] = 0
      BY <2>3, <3>1, PackedReads
    <3>3. /\ n \in 1..MaxProposals
          /\ \A i \in 0..n - 1 : counts[i + 1] \in MinOptions..MaxOptions
      BY <2>3, <3>1 DEF Packable
    <3> HIDE DEF config, n
    <3>4. ValidProposalConfig(config)
      BY <3>2, <3>3 DEF ValidProposalConfig
    <3>5. VotingEnd > blockTime
      BY <2>3, <3>1, VoteEventAssumption
    <3> QED
      BY <2>3, <3>2, <3>4, <3>5 DEF Accepted, config
  <2> QED
    BY <2>2, <2>3 DEF PackingAgrees
<1> QED
  BY <1>1, AlwaysCount, PTL
=============================================================================

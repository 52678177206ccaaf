---------------------------- MODULE SnapshotScan ----------------------------
(***************************************************************************)
(* Snapshots of one token for several events: buildSnapshot of the worker  *)
(* (apps/indexer/src/snapshot.js), the rows the events of a token share    *)
(* (tokens, token_index_cursors, token_holder_candidates), and the API's   *)
(* inspection of the token when an event is created (apps/api/src/         *)
(* tokens.js).  The chain below is the environment: it grows and           *)
(* reorganises while the runs read it, and the archive node lags behind.   *)
(*                                                                         *)
(* A run is one attempt of a BUILD_SNAPSHOT job; JobQueue says who runs    *)
(* it.  Times are block heights: a record date is the height of the newest *)
(* block it allows.                                                        *)
(***************************************************************************)
EXTENDS Integers, Sequences, FiniteSets, MerkleTree

CONSTANTS
    Wallets,        \* holders, as numbers: the tree is ordered by wallet
    Zero,           \* the zero address, sender of a mint
    Genesis,        \* what each wallet is minted when the token is deployed
    Moves,          \* later changes of one unit: [from, to, logged]
    Events,         \* events on the token
    RecordAt,       \* the height of the record date of an event
    DeployedAt,     \* the block that deployed the token
    ScanStart,      \* TOKEN_SCAN_START_BLOCK
    VoteUnit,       \* balance per vote
    Confirmations,  \* blocks above the safe head: CONFIRMATION_BLOCKS
    Overlap,        \* blocks scanned again after a reorg: REORG_OVERLAP_BLOCKS
    ChunkSize,      \* TRANSFER_LOG_CHUNK_SIZE
    MaxCandidates,  \* MAX_SNAPSHOT_CANDIDATES
    RpcRange,       \* the longest range of blocks the RPC gives logs for
    MaxLag,         \* how far the archive node may be behind
    MaxAttempts,    \* jobs.max_attempts
    MaxHeight, MaxReorgs, MaxFaults,  \* bounds on the environment
    TreeSizes,      \* numbers of leaves for which the trees are checked
    None

ASSUME SnapshotScanAssumption ==
    /\ Wallets \subseteq Nat /\ IsFiniteSet(Wallets) /\ Zero \notin Wallets
    /\ Genesis \in [Wallets -> Nat]
    /\ Moves \subseteq [from : Wallets \cup {Zero}, to : Wallets, logged : BOOLEAN]
    /\ RecordAt \in [Events -> Nat]
    /\ DeployedAt \in Nat /\ ScanStart \in Nat /\ VoteUnit \in Nat \ {0}
    /\ Confirmations \in Nat /\ Overlap \in Nat
    /\ ChunkSize \in Nat \ {0} /\ RpcRange \in Nat \ {0}
    /\ MaxCandidates \in Nat /\ MaxLag \in Nat
    /\ MaxAttempts \in Nat \ {0}
    /\ MaxHeight \in Nat /\ DeployedAt <= MaxHeight
    /\ MaxReorgs \in Nat /\ MaxFaults \in Nat
    /\ TreeSizes \subseteq Nat \ {0}
    /\ None \notin Moves /\ None \notin Events
    /\ None \notin Nat /\ None \notin Nat \X Nat

(* The operator's word that no token of the deployment is older than the   *)
(* block the scans start from: 0 in render.yaml and .env.example.          *)
ASSUME ScanStartAssumption == ScanStart <= DeployedAt

VARIABLES
    chain,       \* the canonical block at each height: its branch and its move
    height,      \* the head
    branch,      \* reorganisations so far: the branch new blocks belong to
    faults,      \* failed RPC calls and crashes so far
    token,       \* the tokens row
    cursor,      \* token_index_cursors: the last scanned block and its hash
    candidates,  \* token_holder_candidates
    scanLock,    \* the run that holds the advisory lock of the token
    run,         \* where the build of each event is, and its local variables
    snapshot     \* snapshot_entries and the snapshot columns of an event

envVars == <<chain, height, branch>>
tokenVars == <<token, cursor, candidates>>
vars == <<envVars, faults, tokenVars, scanLock, run, snapshot>>

-----------------------------------------------------------------------------
(* The chain.                                                              *)

Heights == 0..MaxHeight
Block == [branch : 0..MaxReorgs, move : Moves \cup {None}]
NoBlock == [branch |-> 0, move |-> None]

(* A block's hash names its height and its branch.                         *)
Hash(n) == <<n, chain[n].branch>>
Hashes == Heights \X (0..MaxReorgs)

MovesUpTo(n) == {i \in DeployedAt + 1..n : chain[i].move # None}

Received(w, n) == {i \in MovesUpTo(n) : chain[i].move.to = w}
Sent(w, n) == {i \in MovesUpTo(n) : chain[i].move.from = w}

(* balanceOf and totalSupply at a block.                                   *)
BalanceAt(w, n) ==
    Genesis[w] + Cardinality(Received(w, n)) - Cardinality(Sent(w, n))

(* The units that wallets have, to count instead of taking a sum.          *)
Units(wallets, amount) == UNION {{w} \X (1..amount[w]) : w \in wallets}

TotalSupplyAt(n) == Cardinality(Units(Wallets, Genesis)) + Cardinality(Sent(Zero, n))

(* The wallets of the Transfer logs of a block.                            *)
LoggedIn(n) ==
    IF n < DeployedAt THEN {}
    ELSE IF n = DeployedAt THEN {w \in Wallets : Genesis[w] > 0}
    ELSE IF chain[n].move # None /\ chain[n].move.logged
         THEN {chain[n].move.from, chain[n].move.to} \ {Zero}
         ELSE {}

Affordable(m, n) == m # None /\ m.from # Zero => BalanceAt(m.from, n) > 0

Mine(m) ==
    /\ height < MaxHeight
    /\ Affordable(m, height)
    /\ height' = height + 1
    /\ chain' = [chain EXCEPT ![height + 1] = [branch |-> branch, move |-> m]]
    /\ UNCHANGED <<branch, faults, tokenVars, scanLock, run, snapshot>>

-----------------------------------------------------------------------------
(* A run.                                                                  *)

Busy == {"find", "lock", "cursor", "logs", "store", "candidates", "balances"}
Pc == Busy \cup {"none", "queued", "done", "failed"}

Run == [pc       : Pc,
        attempts : 0..MaxAttempts,
        deployed : Heights \cup {None},    \* token_deployment_block, as loaded
        target   : Heights,                \* recordBlock
        hash     : {None} \cup Hashes,
        next     : 0..MaxHeight + 1,
        size     : 1..ChunkSize,           \* chunkSize
        wallets  : SUBSET Wallets]         \* candidates: of a chunk, then all

Idle(label, attempts) ==
    [pc |-> label, attempts |-> attempts, deployed |-> None, target |-> 0,
     hash |-> None, next |-> 0, size |-> ChunkSize, wallets |-> {}]

(* record_date_block and its hash, and raw_balance of each wallet with a   *)
(* row in snapshot_entries: 0 is no row.                                   *)
Snapshot == [block : Heights, hash : Hashes, balances : [Wallets -> Int]]

TypeOK ==
    /\ chain \in [Heights -> Block]
    /\ height \in Heights
    /\ branch \in 0..MaxReorgs
    /\ faults \in 0..MaxFaults
    /\ token \in [status : {"ABSENT", "VALIDATED", "UNSUPPORTED"},
                  deployed : Heights \cup {None}]
    /\ cursor \in {None} \cup [block : Heights,
                               hash : {None} \cup Hashes]
    /\ candidates \subseteq Wallets
    /\ scanLock \in Events \cup {None}
    /\ run \in [Events -> Run]
    /\ snapshot \in [Events -> {None} \cup Snapshot]

Init ==
    /\ chain = [n \in Heights |-> NoBlock]
    /\ height = DeployedAt
    /\ branch = 0
    /\ faults = 0
    /\ token = [status |-> "ABSENT", deployed |-> None]
    /\ cursor = None
    /\ candidates = {}
    /\ scanLock = None
    /\ run = [e \in Events |-> Idle("none", 0)]
    /\ snapshot = [e \in Events |-> None]

Running(e) == run[e].pc \in Busy

At(e, label) == run[e].pc = label
Goto(e, label) == run' = [run EXCEPT ![e].pc = label]

(* The finally of withAdvisoryLock; a dead connection releases it too.     *)
Unlock(e) == scanLock' = IF scanLock = e THEN None ELSE scanLock

End(e, label) ==
    /\ run' = [run EXCEPT ![e] = Idle(label, run[e].attempts)]
    /\ Unlock(e)

(* failJob: an error is retried until the attempts are used up, a          *)
(* permanent one is not.                                                   *)
Throw(e) == End(e, IF run[e].attempts = MaxAttempts THEN "failed" ELSE "queued")
ThrowPermanent(e) == End(e, "failed")

(* inspectStandardToken and the transaction of createEvent: a token found  *)
(* UNSUPPORTED takes no new event, and nothing makes it VALIDATED again.   *)
CreateEvent(e) ==
    /\ At(e, "none")
    /\ token.status # "UNSUPPORTED"
    /\ token' = [token EXCEPT !.status = "VALIDATED"]
    /\ Goto(e, "queued")
    /\ UNCHANGED <<envVars, faults, cursor, candidates, scanLock, snapshot>>

(* retrySnapshot of the creator: a failed row is queued with no attempts,  *)
(* a completed one is followed by a new row.                               *)
RetrySnapshot(e) ==
    /\ At(e, "failed") \/ At(e, "done")
    /\ run' = [run EXCEPT ![e] = Idle("queued", 0)]
    /\ UNCHANGED <<envVars, faults, tokenVars, scanLock, snapshot>>

(* Mutant: the record block is taken at the head.                          *)
UnsafeRecordBlock(e) == IF RecordAt[e] < height THEN RecordAt[e] ELSE height

(* resolveRecordBlock: the newest block of the record date that has its    *)
(* confirmations.                                                          *)
ResolveRecordBlock(e) ==
    LET safe == IF height < Confirmations THEN 0 ELSE height - Confirmations
    IN  IF RecordAt[e] < safe THEN RecordAt[e] ELSE safe

(* The claim and the head of buildSnapshot.                                *)
Start(e) ==
    LET attempts == IF run[e].attempts < MaxAttempts THEN run[e].attempts + 1
                                                     ELSE MaxAttempts
        target   == ResolveRecordBlock(e)
    IN
    /\ At(e, "queued")
    /\ run' = [run EXCEPT ![e] =
           IF RecordAt[e] > height THEN Idle("failed", attempts)
           ELSE [Idle("find", attempts) EXCEPT !.deployed = token.deployed,
                                               !.target = target,
                                               !.hash = Hash(target)]]
    /\ UNCHANGED <<envVars, faults, tokenVars, scanLock, snapshot>>

(* The oldest block of the search that has the contract's code: the first  *)
(* of the search itself, when it has, or the one the bisection ends at.    *)
DeploymentFound == IF ScanStart >= DeployedAt THEN ScanStart ELSE DeployedAt

(* findDeploymentBlock: what is stored is taken as it is.                  *)
FindDeploymentBlock(e) ==
    /\ At(e, "find")
    /\ \/ /\ run[e].deployed = None /\ run[e].target < DeployedAt
          /\ ThrowPermanent(e)
          /\ UNCHANGED token
       \/ /\ run[e].deployed = None /\ run[e].target >= DeployedAt
          /\ token' = [token EXCEPT !.deployed = DeploymentFound]
          /\ run' = [run EXCEPT ![e].pc = "lock", ![e].deployed = DeploymentFound]
          /\ UNCHANGED scanLock
       \/ /\ run[e].deployed # None
          /\ Goto(e, "lock")
          /\ UNCHANGED <<token, scanLock>>
    /\ UNCHANGED <<envVars, faults, cursor, candidates, snapshot>>

AcquireScanLock(e) ==
    /\ At(e, "lock")
    /\ scanLock = None
    /\ scanLock' = e
    /\ Goto(e, "cursor")
    /\ UNCHANGED <<envVars, faults, tokenVars, snapshot>>

(* Mutant: the hash of the cursor is not compared.                         *)
CursorTrusted(e, known) == cursor.block + 1

(* The block after the cursor, when the archive node still has the block   *)
(* the cursor names (a cursor without a hash is trusted); else the overlap *)
(* is scanned again.                                                       *)
ResumeAt(e, known) ==
    IF cursor.hash = None \/ (cursor.block <= known /\ Hash(cursor.block) = cursor.hash)
    THEN cursor.block + 1
    ELSE IF cursor.block - Overlap > run[e].deployed THEN cursor.block - Overlap
                                                     ELSE run[e].deployed

(* The highest block the archive node may know when it is asked.           *)
Archived == {n \in Heights : n <= height /\ n + MaxLag >= height}

ReadCursor(e) ==
    /\ At(e, "cursor")
    /\ \E known \in Archived :
         LET next == IF cursor = None THEN run[e].deployed ELSE ResumeAt(e, known) IN
         IF next > run[e].target
         THEN Goto(e, "candidates") /\ Unlock(e)
         ELSE /\ run' = [run EXCEPT ![e].pc = "logs", ![e].next = next]
              /\ UNCHANGED scanLock
    /\ UNCHANGED <<envVars, faults, tokenVars, snapshot>>

ChunkEnd(r) == IF r.next + r.size - 1 < r.target THEN r.next + r.size - 1 ELSE r.target
ChunkLength(r) == ChunkEnd(r) - r.next + 1

(* getLogs of one chunk; blocks the archive node does not know yet have no *)
(* logs.                                                                   *)
GetLogs(e) ==
    /\ At(e, "logs")
    /\ ChunkLength(run[e]) <= RpcRange
    /\ \E known \in Archived :
         run' = [run EXCEPT ![e].pc = "store",
                    ![e].wallets = UNION {LoggedIn(n) :
                        n \in {i \in run[e].next..ChunkEnd(run[e]) : i <= known}}]
    /\ UNCHANGED <<envVars, faults, tokenVars, scanLock, snapshot>>

(* Mutant: a refused chunk is asked for again as it was.                   *)
SameChunk(size) == size

Halve(size) == IF size = 1 THEN 1 ELSE size \div 2

(* getLogs refused: a smaller chunk, or the error of a single block.  A    *)
(* range that is too long is always refused, any range now and then.       *)
RejectLogs(e) ==
    /\ At(e, "logs")
    /\ \/ ChunkLength(run[e]) > RpcRange /\ UNCHANGED faults
       \/ /\ ChunkLength(run[e]) <= RpcRange
          /\ faults < MaxFaults /\ faults' = faults + 1
    /\ IF run[e].size > 1
       THEN run' = [run EXCEPT ![e].size = Halve(run[e].size)] /\ UNCHANGED scanLock
       ELSE Throw(e)
    /\ UNCHANGED <<envVars, tokenVars, snapshot>>

(* The hash of the chunk's last block, the transaction that stores the     *)
(* candidates with the cursor, and the next chunk: one that found few logs *)
(* is followed by a longer one.                                            *)
StoreChunk(e) ==
    LET end == ChunkEnd(run[e]) IN
    /\ At(e, "store")
    /\ candidates' = candidates \cup run[e].wallets
    /\ \E known \in Archived :
         cursor' = [block |-> end, hash |-> IF end <= known THEN Hash(end) ELSE None]
    /\ IF end < run[e].target
       THEN /\ run' = [run EXCEPT ![e].pc = "logs", ![e].next = end + 1,
                   ![e].size = IF 2 * @ < ChunkSize THEN 2 * @ ELSE ChunkSize]
            /\ UNCHANGED scanLock
       ELSE Goto(e, "candidates") /\ Unlock(e)
    /\ UNCHANGED <<envVars, faults, token, snapshot>>

(* The candidates are read after the lock is released.                     *)
LoadCandidates(e) ==
    /\ At(e, "candidates")
    /\ \/ /\ candidates = {} \/ Cardinality(candidates) > MaxCandidates
          /\ ThrowPermanent(e)
       \/ /\ candidates # {} /\ Cardinality(candidates) <= MaxCandidates
          /\ run' = [run EXCEPT ![e].pc = "balances", ![e].wallets = candidates]
          /\ UNCHANGED scanLock
    /\ UNCHANGED <<envVars, faults, tokenVars, snapshot>>

(* Mutant: the reconstructed supply is not compared.                       *)
AnySupply(wallets, n) == TRUE

Balances(n) == [w \in Wallets |-> BalanceAt(w, n)]

SupplyReconstructed(wallets, n) ==
    Cardinality(Units(wallets, Balances(n))) = TotalSupplyAt(n)

Eligible(wallets, n) == {w \in wallets : BalanceAt(w, n) \div VoteUnit > 0}

Entries(eligible, n) ==
    [w \in Wallets |-> IF w \in eligible THEN BalanceAt(w, n) ELSE 0]

(* The historical balances and supply, and the outcome: the token is found *)
(* unsupported, nobody has a vote, or the snapshot is stored.  A contract  *)
(* that does not exist yet at the block answers nothing.                   *)
ReadBalances(e) ==
    LET n == run[e].target
        eligible == Eligible(run[e].wallets, n)
    IN
    /\ At(e, "balances")
    /\ \/ /\ n < DeployedAt
          /\ Throw(e)
          /\ UNCHANGED <<token, snapshot>>
       \/ /\ n >= DeployedAt /\ ~SupplyReconstructed(run[e].wallets, n)
          /\ token' = [token EXCEPT !.status = "UNSUPPORTED"]
          /\ ThrowPermanent(e)
          /\ UNCHANGED snapshot
       \/ /\ n >= DeployedAt /\ SupplyReconstructed(run[e].wallets, n)
          /\ eligible = {}
          /\ ThrowPermanent(e)
          /\ UNCHANGED <<token, snapshot>>
       \/ /\ n >= DeployedAt /\ SupplyReconstructed(run[e].wallets, n)
          /\ eligible # {}
          /\ snapshot' = [snapshot EXCEPT ![e] =
                 [block |-> n, hash |-> run[e].hash,
                  balances |-> Entries(eligible, n)]]
          /\ End(e, "done")
          /\ UNCHANGED token
    /\ UNCHANGED <<envVars, faults, cursor, candidates>>

(* Any other RPC call of the run fails.                                    *)
RpcFails(e) ==
    /\ At(e, "find") \/ At(e, "cursor") \/ At(e, "store") \/ At(e, "balances")
    /\ faults < MaxFaults
    /\ faults' = faults + 1
    /\ Throw(e)
    /\ UNCHANGED <<envVars, tokenVars, snapshot>>

(* The worker dies; recoverExpiredJobs queues the job again.               *)
Crash(e) ==
    /\ Running(e)
    /\ faults < MaxFaults
    /\ faults' = faults + 1
    /\ End(e, "queued")
    /\ UNCHANGED <<envVars, tokenVars, snapshot>>

BuildStep(e) ==
    \/ Start(e) \/ FindDeploymentBlock(e) \/ AcquireScanLock(e) \/ ReadCursor(e)
    \/ GetLogs(e) \/ RejectLogs(e) \/ StoreChunk(e) \/ LoadCandidates(e)
    \/ ReadBalances(e)

-----------------------------------------------------------------------------
(* Reorganisations up to the confirmation depth happen at any time.  What  *)
(* the hash of the cursor and the overlap are there for is a deeper one:   *)
(* it is allowed while no run is under way.                                *)
MaxDepth == IF \E e \in Events : Running(e) THEN Confirmations
                                             ELSE Confirmations + Overlap + 1

(* The last depth blocks are replaced; block n of the new branch carries m.*)
Reorg(depth, n, m) ==
    /\ branch < MaxReorgs
    /\ depth <= MaxDepth
    /\ height - depth >= DeployedAt
    /\ n \in height - depth + 1..height
    /\ Affordable(m, height - depth)
    /\ branch' = branch + 1
    /\ chain' = [i \in Heights |->
           IF i \in height - depth + 1..height
           THEN [branch |-> branch + 1, move |-> IF i = n THEN m ELSE None]
           ELSE chain[i]]
    /\ UNCHANGED <<height, faults, tokenVars, scanLock, run, snapshot>>

Next ==
    \/ \E m \in Moves \cup {None} : Mine(m)
    \/ \E depth, n \in Heights, m \in Moves \cup {None} : Reorg(depth, n, m)
    \/ \E e \in Events : \/ CreateEvent(e) \/ RetrySnapshot(e) \/ BuildStep(e)
                         \/ RpcFails(e) \/ Crash(e)

Spec == Init /\ [][Next]_vars

(* Fairness.  A queued job is claimed (EveryJobSettles of WorkerLoop) and  *)
(* its run goes on: every await has a timeout, except that for the token's *)
(* lock, which PostgreSQL grants in the order it was asked for: a run is   *)
(* not passed over for ever while others take the lock and leave it.       *)
(* Nothing is assumed of the chain, of faults or of the creator's retries. *)
FairSpec ==
    Spec /\ \A e \in Events : WF_vars(BuildStep(e)) /\ SF_vars(AcquireScanLock(e))

-----------------------------------------------------------------------------
(* Properties.                                                             *)

(* A stored snapshot whose record block is still the canonical one holds   *)
(* exactly the wallets with a vote at that block, with their balances: no  *)
(* holder is missing whatever chunks, crashes, reorganisations and other   *)
(* events of the token came between, and whatever a token does silently.   *)
SnapshotComplete ==
    \A e \in Events :
        LET s == snapshot[e] IN
        s # None /\ Hash(s.block) = s.hash =>
            s.balances = Entries(Eligible(Wallets, s.block), s.block)

(* Whether block n and those below it changed balances without a log.      *)
SilentUpTo(n) == \E i \in MovesUpTo(n) : ~chain[i].move.logged

(* A token is found UNSUPPORTED, which nothing undoes, only for balances   *)
(* its logs do not explain: never because a scan missed a block.           *)
StandardTokenKept ==
    [][\A e \in Events :
          token.status # "UNSUPPORTED" /\ token'.status = "UNSUPPORTED"
          /\ run'[e] # run[e] => SilentUpTo(run[e].target)]_vars

(* The wallets of the logs of blocks lo..hi are among the wallets.         *)
FoundIn(wallets, lo, hi) == \A n \in lo..hi : LoggedIn(n) \subseteq wallets

(* The cursor vouches for the logs of every block up to its own while that *)
(* block is canonical, and always for those below the overlap.             *)
CandidatesComplete ==
    cursor # None =>
        /\ FoundIn(candidates, DeployedAt, cursor.block - Overlap - 1)
        /\ Hash(cursor.block) = cursor.hash => FoundIn(candidates, DeployedAt, cursor.block)

(* The leaves of a snapshot, in the order of the wallets.                  *)
Leaves(balances) ==
    LET holders == {w \in Wallets : balances[w] > 0}
        Nth(i) == CHOOSE w \in holders : Cardinality({v \in holders : v < w}) = i - 1
    IN  [i \in 1..Cardinality(holders) |-> SnapshotLeaf(Nth(i), balances[Nth(i)])]

(* A proof of the tree opens the root for its own leaf and for no other.   *)
ProofsExact(leaves, forged) ==
    \A i \in DOMAIN leaves, leaf \in forged \cup {leaves[k] : k \in DOMAIN leaves} :
        VerifySnapshotProof(leaf, Proof(leaves, i), Root(leaves)) <=> leaf = leaves[i]

ProofsOfSizes ==
    \A n \in TreeSizes :
        ProofsExact([i \in 1..n |-> SnapshotLeaf(i, 1)], {SnapshotLeaf(n, 2)})

(* What the API serves from snapshot_entries is accepted by the contract   *)
(* for the wallet and the balance of the row and for nothing else: for the *)
(* snapshots stored here and for trees of every size of TreeSizes.         *)
ServedProofsVerify ==
    /\ ProofsOfSizes
    /\ \A e \in Events :
         snapshot[e] # None =>
            ProofsExact(Leaves(snapshot[e].balances),
                        {SnapshotLeaf(w, b) : w \in Wallets, b \in 0..VoteUnit})

Settled(e) == At(e, "none") \/ At(e, "done") \/ At(e, "failed")

(* Every event whose snapshot is asked for gets it or its failure, again   *)
(* whenever its creator retries: no chunk is refused for ever, and no run  *)
(* waits for ever for the token's lock while other events scan.            *)
BuildSettles == \A e \in Events : []<>Settled(e)
-----------------------------------------------------------------------------
(* The inductive invariant of SnapshotScanProofs, for an archive node that *)
(* is behind by no more than the confirmations.  That one run scans at a   *)
(* time is no part of it: the lock saves work, completeness needs none.    *)

(* No reorganisation of a run's time replaces block n.                     *)
Final(n) == n = 0 \/ n + Confirmations <= height

(* What a run has looked at is so for good.                                *)
RunSound(r) ==
    r.pc \in Busy =>
        /\ Final(r.target) /\ r.hash # None
        /\ r.deployed \in {None, DeployedAt}
        /\ r.pc # "find" => r.deployed = DeployedAt
        /\ r.pc \in {"logs", "store"} =>
               r.next <= r.target /\ FoundIn(candidates, DeployedAt, r.next - 1)
        /\ r.pc = "store" => FoundIn(r.wallets, r.next, ChunkEnd(r))
        /\ r.pc = "candidates" => FoundIn(candidates, DeployedAt, r.target)
        /\ r.pc = "balances" => FoundIn(r.wallets, DeployedAt, r.target)

CursorFinal ==
    cursor # None =>
        /\ Final(cursor.block)
        /\ cursor.hash # None
        /\ cursor.hash[1] = cursor.block /\ cursor.hash[2] <= branch

BranchesKnown == \A n \in Heights : chain[n].branch <= branch

ScanInv == /\ TypeOK /\ token.deployed \in {None, DeployedAt} /\ DeployedAt <= height
           /\ \A e \in Events : RunSound(run[e])
           /\ CursorFinal /\ BranchesKnown
           /\ CandidatesComplete
=============================================================================

---------------------------- MODULE VoteIndexer ----------------------------
(***************************************************************************)
(* The projection of an event's VoteCast logs into the table `votes'       *)
(* (apps/indexer/src/event-indexer.js), while requests insert and retry    *)
(* ballots (votes.js), jobs relay them (vote.js) and the chain reorganises *)
(* its newest blocks.                                                      *)
(*                                                                         *)
(* A block is its number and its hash, and the hash is named by the branch *)
(* the block was mined on.  A relayer transaction is named by its job: how *)
(* a job comes to one transaction, and the awaits of the broadcast, are in *)
(* RelayerOutbox.  A VoteCast log of another sender comes from a           *)
(* transaction of its own.  Voting stays open, and the deployment block 1  *)
(* is never orphaned.                                                      *)
(***************************************************************************)
EXTENDS JobTable

CONSTANTS
    Signers,       \* the voters that may submit a signed ballot; the keys
    SelfCast,      \* the voters whose ballot another sender may bring
    Confirmations, \* CONFIRMATION_BLOCKS
    Overlap,       \* REORG_OVERLAP_BLOCKS
    ChunkSize,     \* VOTE_LOG_CHUNK_SIZE
    ReorgDepth,    \* the most blocks a reorganisation replaces
    Drops,         \* TRUE: the network may forget an orphaned transaction
    MaxBlock,      \* bound on the chain
    MaxReorgs,     \* bound on reorganisations
    MaxFaults      \* bound on worker crashes and thrown errors

ASSUME IndexerAssumption ==
    /\ Signers = Keys
    /\ Confirmations \in Nat /\ Overlap \in Nat /\ ReorgDepth \in Nat
    /\ ChunkSize \in Nat \ {0} /\ MaxBlock \in Nat \ {0}
    /\ MaxReorgs \in Nat /\ MaxFaults \in Nat
    /\ Drops \in BOOLEAN
    /\ 0 \notin JobIds

VARIABLES
    tip,      \* the newest block
    hash,     \* the branch of each block of the chain, 0 above the tip
    castAt,   \* the block with a voter's VoteCast log, 0 for none
    castBy,   \* the transaction of that log: a job, or 0 for another sender
    minedAt,  \* the block with a job's transaction, 0 for none
    pool,     \* the jobs whose transaction the network holds unmined
    votes,    \* the table votes
    outbox,   \* the status of each job's row in relayer_transactions
    cursor,   \* the row of event_index_state
    pass,     \* the indexing pass of each worker
    pc,       \* the await of each run
    receipt,  \* the block of the receipt a run has recorded
    branch,   \* the branch being mined
    faults    \* crashes and thrown errors so far

chainVars == <<tip, hash, castAt, castBy, minedAt, pool, branch>>
runVars   == <<pc, receipt>>
vars == <<jobs, slot, tip, hash, castAt, castBy, minedAt, pool, branch,
          votes, outbox, cursor, pass, pc, receipt, faults>>

Voters   == Signers \cup SelfCast
Blocks   == 1..MaxBlock
Heights  == 0..MaxBlock
Branches == 1..MaxReorgs + 1
Hashes   == Branches \cup {0}

(* tx: the job whose transaction transaction_hash names, 0 for another     *)
(* sender's, None for NULL.  A row the indexer created has no signature    *)
(* but 'INDEXED_ON_CHAIN'.                                                 *)
VoteRow == [status : {"ABSENT", "QUEUED", "SUBMITTED", "CONFIRMED", "FAILED"},
            tx     : JobIds \cup {0, None},
            block  : Heights,
            hash   : Hashes,
            signed : BOOLEAN]
NoVote  == [status |-> "ABSENT", tx |-> None, block |-> 0, hash |-> 0, signed |-> FALSE]

TxStatus == {"ABSENT", "PREPARED", "BROADCAST", "CONFIRMED", "REVERTED"}

Cursor == [block : Heights, hash : Hashes]    \* block 0: there is no row

(* rows: the votes a pass has selected, NoVote for the others; logs: the   *)
(* VoteCast logs of the chunk in the form of the rows they become.         *)
Pass == [at   : {"idle", "cursor", "compare", "affected", "blocks", "undo",
                 "logs", "end", "commit", "submitted", "fail"},
         safe : Heights, next : Nat, seen : Cursor,
         rows : [Voters -> VoteRow], logs : [Voters -> VoteRow], endHash : Hashes]

NoVotes == [v \in Voters |-> NoVote]
NoPass  == [at |-> "idle", safe |-> 0, next |-> 0, seen |-> [block |-> 0, hash |-> 0],
            rows |-> NoVotes, logs |-> NoVotes, endHash |-> 0]

TypeOK ==
    /\ TableTypeOK
    /\ tip \in Blocks /\ hash \in [Blocks -> Hashes] /\ branch \in Branches
    /\ castAt \in [Voters -> Heights] /\ castBy \in [Voters -> JobIds \cup {0}]
    /\ minedAt \in [JobIds -> Heights] /\ pool \subseteq JobIds
    /\ votes \in [Voters -> VoteRow] /\ outbox \in [JobIds -> TxStatus]
    /\ cursor \in Cursor
    /\ pass \in [Workers -> Pass]
    /\ pc \in [Slots -> {"idle", "load", "simulate", "prepare", "broadcast",
                         "wait", "finalize", "complete"}]
    /\ receipt \in [Slots -> Heights]
    /\ faults \in 0..MaxFaults

(* The event is deployed and nobody has voted.                             *)
Init ==
    /\ TableInit
    /\ tip = 1 /\ hash = [b \in Blocks |-> IF b = 1 THEN 1 ELSE 0] /\ branch = 1
    /\ castAt = [v \in Voters |-> 0] /\ castBy = [v \in Voters |-> 0]
    /\ minedAt = [j \in JobIds |-> 0] /\ pool = {}
    /\ votes = NoVotes /\ outbox = [j \in JobIds |-> "ABSENT"]
    /\ cursor = NoPass.seen
    /\ pass = [w \in Workers |-> NoPass]
    /\ pc = [s \in Slots |-> "idle"] /\ receipt = [s \in Slots |-> 0]
    /\ faults = 0

-----------------------------------------------------------------------------
(* The chain.                                                              *)

Greater(a, b) == IF a > b THEN a ELSE b
Lesser(a, b)  == IF a < b THEN a ELSE b

(* The next block takes transactions from the pool and ballots of other    *)
(* senders; castVote reverts for a voter that is counted already.          *)
MineBlock ==
    /\ tip < MaxBlock
    /\ tip' = tip + 1
    /\ hash' = [hash EXCEPT ![tip + 1] = branch]
    /\ \E T \in SUBSET pool, O \in SUBSET SelfCast :
        LET sent == {jobs[j].key : j \in T} IN
        /\ \A i, j \in T : jobs[i].key = jobs[j].key => i = j
        /\ \A v \in O : castAt[v] = 0 /\ v \notin sent
        /\ castAt' = [v \in Voters |-> IF castAt[v] = 0 /\ v \in sent \cup O
                                       THEN tip + 1 ELSE castAt[v]]
        /\ castBy' = [v \in Voters |-> IF castAt[v] = 0 /\ v \in sent
                                       THEN CHOOSE j \in T : jobs[j].key = v ELSE castBy[v]]
        /\ minedAt' = [j \in JobIds |-> IF j \in T THEN tip + 1 ELSE minedAt[j]]
        /\ pool' = pool \ T
    /\ UNCHANGED <<tableVars, branch, votes, outbox, cursor, pass, runVars, faults>>

(* The newest blocks are replaced by as many of a new branch.  A ballot in *)
(* them is counted again in one of the new blocks or goes back to its      *)
(* sender: a relayer transaction to the pool, or it is forgotten.          *)
Reorg ==
    /\ branch <= MaxReorgs
    /\ branch' = branch + 1
    /\ \E d \in 1..Lesser(ReorgDepth, tip - 1) :
        LET from     == tip - d + 1
            orphaned == {v \in Voters : castAt[v] >= from}
            undone   == {j \in JobIds : minedAt[j] >= from}
        IN
        /\ hash' = [b \in Blocks |-> IF b \in from..tip THEN branch + 1 ELSE hash[b]]
        /\ \E at \in [orphaned -> from..tip \cup {0}] :
            /\ castAt' = [v \in Voters |-> IF v \in orphaned THEN at[v] ELSE castAt[v]]
            /\ castBy' = [v \in Voters |-> IF v \in orphaned /\ at[v] = 0
                                           THEN 0 ELSE castBy[v]]
            /\ minedAt' = [j \in JobIds |->
                    IF j \notin undone THEN minedAt[j]
                    ELSE IF jobs[j].key \in orphaned /\ castBy[jobs[j].key] = j
                    THEN at[jobs[j].key] ELSE 0]
        /\ \E kept \in SUBSET undone :
            /\ ~Drops => kept = undone
            /\ pool' = pool \cup {j \in kept : minedAt'[j] = 0}
    /\ UNCHANGED <<tableVars, tip, votes, outbox, cursor, pass, runVars, faults>>

Counted(v) == castAt[v] # 0

(* The receipt of a job's transaction has status 1.                        *)
Succeeded(j) == minedAt[j] # 0 /\ Counted(jobs[j].key) /\ castBy[jobs[j].key] = j

-----------------------------------------------------------------------------
(* indexVoteEvents and reconcileSubmittedVotes: the pass of a worker.      *)

(* A step of the pass of w that writes nothing but its locals.             *)
Local(w, from, p) ==
    /\ pass[w].at = from
    /\ pass' = [pass EXCEPT ![w] = p]
    /\ UNCHANGED <<tableVars, chainVars, votes, outbox, cursor, runVars, faults>>

(* The head of the chunk loop.                                             *)
Chunk(p) == [p EXCEPT !.at = IF p.next <= p.safe THEN "logs" ELSE "submitted",
                      !.seen = NoPass.seen, !.rows = NoVotes, !.logs = NoVotes,
                      !.endHash = 0]
End(p) == Lesser(p.safe, p.next + ChunkSize - 1)

ReadTip(w) ==
    Local(w, "idle", [NoPass EXCEPT !.at = "cursor",
                                    !.safe = Greater(0, tip - Confirmations)])

ReadCursor(w) ==
    Local(w, "cursor",
          IF cursor.block = 0 THEN Chunk([pass[w] EXCEPT !.next = 1])
          ELSE [pass[w] EXCEPT !.at = "compare", !.seen = cursor])

(* Mutant: the block after the overlap is left out.                        *)
ResumeLate(b) == Greater(1, b + 2 - Overlap)

(* The first block a pass scans again after the cursor's block b.          *)
Resume(b) == Greater(1, b + 1 - Overlap)

(* The cursor's block is looked up; only another hash than the recorded    *)
(* one starts the recovery.                                                *)
CompareCursor(w) ==
    LET p == [pass[w] EXCEPT !.next = Resume(pass[w].seen.block)] IN
    Local(w, "compare",
          IF p.seen.hash # 0 /\ hash[p.seen.block] # p.seen.hash
          THEN [p EXCEPT !.at = "affected"] ELSE Chunk(p))

(* recoverEventReorg: the confirmed rows from there on, and which of them  *)
(* lie in a block the chain no longer has.  The awaits for the blocks are  *)
(* one step.                                                               *)
SelectAffected(w) ==
    Local(w, "affected",
          [pass[w] EXCEPT
             !.at = "blocks",
             !.rows = [v \in Voters |->
                IF votes[v].status = "CONFIRMED" /\ votes[v].block >= pass[w].next
                THEN votes[v] ELSE NoVote]])

CompareBlocks(w) ==
    LET orphaned == {v \in Voters : pass[w].rows[v] # NoVote
                                    /\ hash[pass[w].rows[v].block] # pass[w].rows[v].hash}
    IN Local(w, "blocks",
             IF orphaned = {} THEN Chunk(pass[w])
             ELSE [pass[w] EXCEPT !.at = "undo",
                                  !.rows = [v \in Voters |-> IF v \in orphaned
                                            THEN pass[w].rows[v] ELSE NoVote]])

(* What the recovery makes of the row of an orphaned vote.                 *)
Undone(row, copy) ==
    IF ~copy.signed THEN NoVote
    ELSE IF row.status = "ABSENT" THEN row
    ELSE IF copy.tx = 0
    THEN [row EXCEPT !.status = "QUEUED", !.tx = None, !.block = 0, !.hash = 0]
    ELSE [row EXCEPT !.status = "SUBMITTED", !.block = 0, !.hash = 0]

(* The jobs whose transactions are to be sent again.                       *)
Requeued(resent) ==
    [j \in JobIds |->
        IF j \in resent
        THEN [jobs[j] EXCEPT !.status = "PENDING", !.attempts = 0,
                             !.lockedBy = None, !.fresh = FALSE]
        ELSE jobs[j]]

(* The jobs whose transactions brought the signed votes of a copy.         *)
Resent(copy) == {copy[v].tx : v \in {u \in Voters : copy[u].signed}} \ {0}

(* One transaction for all the orphaned votes, decided by the copies: an   *)
(* indexed row is deleted; a relayed one gets its transaction and job back *)
(* (the unique index on active jobs does not refuse that: RequeueFits); a  *)
(* signed one another sender had brought gets a new job.  A row deleted    *)
(* and indexed again meanwhile is taken for the same.                      *)
UndoOrphaned(w) ==
    LET copy     == pass[w].rows
        orphaned == {v \in Voters : copy[v] # NoVote}
        missing  == {v \in orphaned : /\ copy[v].signed /\ copy[v].tx = 0
                                      /\ ActiveRows(v) = {}}
    IN /\ pass[w].at = "undo"
       /\ \E new \in [missing -> {j \in JobIds : jobs[j].status = "ABSENT"}] :
           /\ \A u, v \in missing : new[u] = new[v] => u = v
           /\ jobs' = [j \in JobIds |->
                 IF \E v \in missing : new[v] = j
                 THEN NewRow(CHOOSE v \in missing : new[v] = j)
                 ELSE Requeued(Resent(copy))[j]]
       /\ votes' = [v \in Voters |-> IF v \in orphaned
                                     THEN Undone(votes[v], copy[v]) ELSE votes[v]]
       /\ outbox' = [j \in JobIds |-> IF j \in Resent(copy) THEN "PREPARED" ELSE outbox[j]]
       /\ pass' = [pass EXCEPT ![w] = Chunk(@)]
       /\ UNCHANGED <<slot, chainVars, cursor, runVars, faults>>

(* The logs of a chunk, and after them the hash of its last block.         *)
GetLogs(w) ==
    Local(w, "logs",
          [pass[w] EXCEPT
             !.at = "end",
             !.logs = [v \in Voters |->
                IF castAt[v] \in pass[w].next..End(pass[w])
                THEN [status |-> "CONFIRMED", tx |-> castBy[v], block |-> castAt[v],
                      hash |-> hash[castAt[v]], signed |-> FALSE]
                ELSE NoVote]])

GetEndBlock(w) ==
    Local(w, "end", [pass[w] EXCEPT !.at = "commit", !.endHash = hash[End(pass[w])]])

(* Mutant: ON CONFLICT DO NOTHING.                                         *)
UpsertNew(row, log) ==
    IF log = NoVote \/ row.status # "ABSENT" THEN row ELSE log

(* INSERT ... ON CONFLICT DO UPDATE: the signature of a row stays.         *)
Upsert(row, log) ==
    IF log = NoVote THEN row ELSE [log EXCEPT !.signed = row.signed]

(* The chunk's rows and the cursor commit together.                        *)
CommitChunk(w) ==
    LET p == pass[w] IN
    /\ p.at = "commit"
    /\ votes' = [v \in Voters |-> Upsert(votes[v], p.logs[v])]
    /\ cursor' = [block |-> End(p), hash |-> p.endHash]
    /\ pass' = [pass EXCEPT ![w] = Chunk([p EXCEPT !.next = End(p) + 1])]
    /\ UNCHANGED <<tableVars, chainVars, outbox, runVars, faults>>

(* reconcileSubmittedVotes: submitted rows whose transaction has a receipt *)
(* that says it reverted; then the UPDATEs.                                *)
ReadReceipts(w) ==
    LET reverted == {v \in Voters : /\ votes[v].status = "SUBMITTED"
                                    /\ votes[v].tx \in JobIds
                                    /\ minedAt[votes[v].tx] # 0
                                    /\ ~Succeeded(votes[v].tx)}
    IN Local(w, "submitted",
             IF reverted = {} THEN NoPass
             ELSE [NoPass EXCEPT !.at = "fail",
                                 !.rows = [v \in Voters |-> IF v \in reverted
                                           THEN votes[v] ELSE NoVote]])

(* UPDATE votes ... WHERE status <> 'CONFIRMED'.                           *)
FailedVote(row) ==
    IF row.status \in {"ABSENT", "CONFIRMED"} THEN row ELSE [row EXCEPT !.status = "FAILED"]

FailReverted(w) ==
    /\ pass[w].at = "fail"
    /\ votes' = [v \in Voters |-> IF pass[w].rows[v] = NoVote THEN votes[v]
                                  ELSE FailedVote(votes[v])]
    /\ pass' = [pass EXCEPT ![w] = NoPass]
    /\ UNCHANGED <<tableVars, chainVars, outbox, cursor, runVars, faults>>

(* Any await of the pass may throw; maintenance logs the error and the     *)
(* next pass starts anew.                                                  *)
PassThrows(w) ==
    /\ faults < MaxFaults
    /\ pass[w].at # "idle"
    /\ pass' = [pass EXCEPT ![w] = NoPass]
    /\ faults' = faults + 1
    /\ UNCHANGED <<tableVars, chainVars, votes, outbox, cursor, runVars>>

Index(w) ==
    \/ ReadTip(w) \/ ReadCursor(w) \/ CompareCursor(w)
    \/ SelectAffected(w) \/ CompareBlocks(w) \/ UndoOrphaned(w)
    \/ GetLogs(w) \/ GetEndBlock(w) \/ CommitChunk(w)
    \/ ReadReceipts(w) \/ FailReverted(w)

-----------------------------------------------------------------------------
(* relayVote: the run of a job.                                            *)

JobOf(s) == slot[s].job
VoterOf(s) == jobs[JobOf(s)].key
At(s, label) == slot[s] # Idle /\ pc[s] = label
Goto(s, label) == pc' = [pc EXCEPT ![s] = label]

(* The locals of a run that ended are gone.                                *)
Cleanup ==
    /\ pc' = [s \in Slots |-> IF slot'[s] = Idle THEN "idle" ELSE pc[s]]
    /\ receipt' = [s \in Slots |-> IF slot'[s] = Idle THEN 0 ELSE receipt[s]]

Start(s) ==
    /\ Claim(s)
    /\ Goto(s, "load")
    /\ UNCHANGED <<chainVars, votes, outbox, cursor, pass, receipt, faults>>

(* A run ends by an error: failJob.                                        *)
Fail(s, permanent) ==
    /\ IF permanent \/ slot[s].attempts >= MaxAttempts
       THEN /\ FailFinal(s)
            /\ votes' = [votes EXCEPT ![VoterOf(s)] = FailedVote(@)]
            /\ UNCHANGED pass
       ELSE /\ FailRetry(s)
            /\ UNCHANGED votes
            /\ pass' = IF KeyTaken(JobOf(s)) THEN [pass EXCEPT ![WorkerOf[s]] = NoPass]
                       ELSE pass
    /\ Cleanup
    /\ UNCHANGED <<chainVars, outbox, cursor>>

(* A step of a run that leaves jobs, chain and indexing alone.             *)
Step(s, from, to) ==
    /\ At(s, from)
    /\ Goto(s, to)
    /\ UNCHANGED <<jobs, slot, tip, hash, castAt, castBy, minedAt, branch,
                   cursor, pass, faults>>

(* A vote that is confirmed already has nothing to relay.                  *)
LoadVote(s) ==
    /\ Step(s, "load", IF votes[VoterOf(s)].status = "CONFIRMED"
                       THEN "complete" ELSE "simulate")
    /\ UNCHANGED <<votes, outbox, pool, receipt>>

Simulate(s) ==
    \/ /\ Step(s, "simulate", "prepare")
       /\ ~Counted(VoterOf(s))
       /\ UNCHANGED <<votes, outbox, pool, receipt>>
    \/ At(s, "simulate") /\ Counted(VoterOf(s)) /\ Fail(s, FALSE) /\ UNCHANGED faults

(* prepareRelayerTransaction.  Between its gas estimate, which reverts for *)
(* a counted voter, and its INSERT no block is assumed to be mined.  A row *)
(* that says REVERTED is not active: when a reorganisation has taken back  *)
(* the ballot that made it revert, the job gets a second transaction.  It  *)
(* goes by the name of the first, which waits in the pool again if at all. *)
Prepare(s) ==
    \/ /\ Step(s, "prepare", "broadcast")
       /\ outbox[JobOf(s)] \in {"PREPARED", "BROADCAST", "CONFIRMED"}
       /\ UNCHANGED <<votes, outbox, pool, receipt>>
    \/ /\ Step(s, "prepare", "broadcast")
       /\ outbox[JobOf(s)] \in {"ABSENT", "REVERTED"} /\ ~Counted(VoterOf(s))
       /\ outbox' = [outbox EXCEPT ![JobOf(s)] = "PREPARED"]
       /\ votes' = [votes EXCEPT ![VoterOf(s)].status = "SUBMITTED",
                                 ![VoterOf(s)].tx = JobOf(s)]
       /\ UNCHANGED <<pool, receipt>>
    \/ /\ At(s, "prepare")
       /\ outbox[JobOf(s)] \in {"ABSENT", "REVERTED"} /\ Counted(VoterOf(s))
       /\ Fail(s, FALSE) /\ UNCHANGED faults

(* broadcastPreparedTransaction: a mined transaction is not sent again.    *)
Broadcast(s) ==
    \/ /\ Step(s, "broadcast", "wait")
       /\ minedAt[JobOf(s)] # 0
       /\ UNCHANGED <<votes, outbox, pool, receipt>>
    \/ /\ Step(s, "broadcast", "wait")
       /\ minedAt[JobOf(s)] = 0
       /\ pool' = pool \cup {JobOf(s)}
       /\ outbox' = IF outbox[JobOf(s)] = "CONFIRMED" THEN outbox
                    ELSE [outbox EXCEPT ![JobOf(s)] = "BROADCAST"]
       /\ UNCHANGED <<votes, receipt>>

(* The receipt, at one confirmation, is recorded.                          *)
RecordReceipt(s) ==
    \/ /\ Step(s, "wait", "finalize")
       /\ Succeeded(JobOf(s))
       /\ outbox' = [outbox EXCEPT ![JobOf(s)] = "CONFIRMED"]
       /\ receipt' = [receipt EXCEPT ![s] = minedAt[JobOf(s)]]
       /\ UNCHANGED <<votes, pool>>
    \/ /\ At(s, "wait") /\ minedAt[JobOf(s)] # 0 /\ ~Succeeded(JobOf(s))
       /\ Goto(s, "finalize")
       /\ outbox' = [outbox EXCEPT ![JobOf(s)] = "REVERTED"]
       /\ UNCHANGED <<tableVars, chainVars, votes, cursor, pass, receipt, faults>>

(* waitForTransaction gives up.                                            *)
WaitTimesOut(s) ==
    /\ At(s, "wait") /\ minedAt[JobOf(s)] = 0
    /\ Fail(s, FALSE) /\ UNCHANGED faults

(* finalizeVote: the hash is that of the block which has the receipt's     *)
(* number now; an orphaned block is not noticed.                           *)
FinalizeVote(s) ==
    \/ /\ receipt[s] # 0
       /\ Step(s, "finalize", "complete")
       /\ votes' = [votes EXCEPT ![VoterOf(s)] =
                     [@ EXCEPT !.status = "CONFIRMED", !.tx = JobOf(s),
                               !.block = receipt[s], !.hash = hash[receipt[s]]]]
       /\ UNCHANGED <<outbox, pool, receipt>>
    \/ At(s, "finalize") /\ receipt[s] = 0 /\ Fail(s, TRUE) /\ UNCHANGED faults

CompleteRun(s) ==
    /\ At(s, "complete")
    /\ Complete(s) /\ Cleanup
    /\ UNCHANGED <<chainVars, votes, outbox, cursor, pass, faults>>

(* Any other await throws.                                                 *)
Throw(s) ==
    /\ faults < MaxFaults
    /\ slot[s] # Idle
    /\ Fail(s, FALSE)
    /\ faults' = faults + 1

Run(s) ==
    \/ LoadVote(s) \/ Simulate(s) \/ Prepare(s) \/ Broadcast(s)
    \/ RecordReceipt(s) \/ WaitTimesOut(s) \/ FinalizeVote(s) \/ CompleteRun(s)

-----------------------------------------------------------------------------
(* Requests, processes and the job table.                                  *)

(* enqueueJob under the caller's row lock.                                 *)
Enqueue(k) ==
    \/ ActiveRows(k) # {} /\ UNCHANGED jobs
    \/ /\ ActiveRows(k) = {}
       /\ \E j \in FailedRows(k) : (\A i \in FailedRows(k) : i <= j) /\ Requeue(j)
    \/ ActiveRows(k) = {} /\ FailedRows(k) = {} /\ Insert(k)

(* submitBallot: refused when there is a row; that the voter has not voted *)
(* on the chain was looked up earlier.                                     *)
SubmitBallot(v) ==
    /\ votes[v].status = "ABSENT"
    /\ votes' = [votes EXCEPT ![v] = [NoVote EXCEPT !.status = "QUEUED", !.signed = TRUE]]
    /\ Enqueue(v)
    /\ UNCHANGED <<slot, chainVars, outbox, cursor, pass, runVars, faults>>

(* Mutant: a confirmed vote is not refused.                                *)
RetryAny(v) ==
    /\ votes[v].status # "ABSENT"
    /\ votes' = [votes EXCEPT ![v].status = IF votes[v].tx = None THEN "QUEUED" ELSE "SUBMITTED"]
    /\ Enqueue(v)
    /\ UNCHANGED <<slot, chainVars, outbox, cursor, pass, runVars, faults>>

(* retryBallot: refused for a confirmed vote.                              *)
RetryBallot(v) ==
    /\ votes[v].status \in {"QUEUED", "SUBMITTED", "FAILED"}
    /\ votes' = [votes EXCEPT ![v].status = IF votes[v].tx = None THEN "QUEUED" ELSE "SUBMITTED"]
    /\ Enqueue(v)
    /\ UNCHANGED <<slot, chainVars, outbox, cursor, pass, runVars, faults>>

Crash(w) ==
    /\ faults < MaxFaults
    /\ Die(w) /\ Cleanup
    /\ pass' = [pass EXCEPT ![w] = NoPass]
    /\ faults' = faults + 1
    /\ UNCHANGED <<chainVars, votes, outbox, cursor>>

Expire(j) ==
    /\ LockExpires(j)
    /\ UNCHANGED <<chainVars, votes, outbox, cursor, pass, runVars, faults>>

Recover ==
    /\ RecoverExpired
    /\ UNCHANGED <<chainVars, votes, outbox, cursor, pass, runVars, faults>>

-----------------------------------------------------------------------------
Next ==
    \/ MineBlock \/ Reorg \/ Recover
    \/ \E w \in Workers : Index(w) \/ PassThrows(w) \/ Crash(w)
    \/ \E s \in Slots : Start(s) \/ Run(s) \/ Throw(s)
    \/ \E v \in Signers : SubmitBallot(v) \/ RetryBallot(v)
    \/ \E j \in JobIds : Expire(j)

Spec == Init /\ [][Next]_vars

(***************************************************************************)
(* Fairness.  Workers repeat the pass, each await of which ends.  That is  *)
(* all the properties need: nothing is assumed of jobs, requests, crashes, *)
(* errors, the chain and its reorganisations.                              *)
(***************************************************************************)
Fairness == \A w \in Workers : WF_vars(Index(w))

FairSpec == Spec /\ Fairness

-----------------------------------------------------------------------------
(* Properties, for one worker and one reorganisation, deeper or not than   *)
(* Confirmations but no deeper than Confirmations + Overlap.               *)

(* A vote deep enough that no later pass scans its block again is recorded *)
(* as confirmed: whatever crashes, errors, retries, failing jobs and       *)
(* reorganisations do, the cursor never leaves a vote behind.              *)
NothingSkipped ==
    \A v \in Voters :
        Counted(v) /\ castAt[v] <= cursor.block - Overlap => votes[v].status = "CONFIRMED"

(* A vote with enough confirmations is recorded in the end, and for good.  *)
CountedVotesConfirmed ==
    \A v \in Voters :
        <>[](Counted(v) /\ castAt[v] <= tip - Confirmations => votes[v].status = "CONFIRMED")

(* When the recovery queues jobs again, no other job of the same ballot is *)
(* active: the unique index never makes it fail, pass after pass.          *)
RequeueFits ==
    \A w \in Workers :
        pass[w].at = "undo" => \A j \in Resent(pass[w].rows) : ~KeyTaken(j)

(* A confirmed ballot the chain no longer counts is with the network, or a *)
(* job will send its transaction again.                                    *)
OrphanedBallotResent ==
    \A v \in Signers :
        []<>(votes[v].status = "CONFIRMED" => \/ Counted(v)
                                              \/ \E j \in pool : jobs[j].key = v
                                              \/ ActiveRows(v) # {})
=============================================================================

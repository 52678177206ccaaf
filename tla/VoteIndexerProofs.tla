-------------------------- MODULE VoteIndexerProofs --------------------------
(***************************************************************************)
(* Proofs about VoteIndexer: its types, for reorganisations of any depth;  *)
(* that the cursor leaves no vote behind while none is deeper than         *)
(* Confirmations, for any number of workers, nor after one reorganisation  *)
(* no deeper than Confirmations + Overlap, for one worker; and that the    *)
(* recovery meets no unique index, for one worker and one reorganisation   *)
(* of any depth.  All hold for any number of voters, jobs, slots and       *)
(* blocks, and any overlap and chunk size.                                 *)
(***************************************************************************)
EXTENDS VoteIndexer, JobTableProofs

USE DEF vars, tableVars, chainVars, runVars

-----------------------------------------------------------------------------
(* The invariant.  Types alone are not inductive: that a chunk's last      *)
(* block has a hash needs that a chunk lies in 1..safe, and that only keys *)
(* get jobs needs that only signers have signed rows.                      *)

NextInside(p) ==
    /\ p.at \in {"affected", "blocks", "undo"} => p.next >= 1
    /\ p.at \in {"logs", "end", "commit"} => p.next \in 1..p.safe

ChunkInside == \A w \in Workers : NextInside(pass[w])

SignedBySigners ==
    \A v \in Voters : /\ votes[v].signed => v \in Signers
                      /\ \A w \in Workers : pass[w].rows[v].signed => v \in Signers

ProjectionInv == TypeOK /\ ChunkInside /\ SignedBySigners

ChainType ==
    /\ tip \in Blocks /\ hash \in [Blocks -> Hashes] /\ branch \in Branches
    /\ castAt \in [Voters -> Heights] /\ castBy \in [Voters -> JobIds \cup {0}]
    /\ minedAt \in [JobIds -> Heights] /\ pool \subseteq JobIds

RunsType ==
    /\ pc \in [Slots -> {"idle", "load", "simulate", "prepare", "broadcast",
                         "wait", "finalize", "complete"}]
    /\ receipt \in [Slots -> Heights]

PassOK(p) == /\ p \in Pass
             /\ NextInside(p)
             /\ \A v \in Voters : p.rows[v].signed => v \in Signers

PassesOK == pass \in [Workers -> Pass] /\ \A w \in Workers : PassOK(pass[w])

VoteOK(v, row) == row \in VoteRow /\ (row.signed => v \in Signers)

VotesOK == votes \in [Voters -> VoteRow] /\ \A v \in Voters : VoteOK(v, votes[v])

(* The invariant in the parts the steps keep one by one.                   *)
LEMMA Parts ==
  ProjectionInv <=> /\ TableTypeOK /\ ChainType /\ RunsType /\ PassesOK /\ VotesOK
                    /\ outbox \in [JobIds -> TxStatus] /\ cursor \in Cursor
                    /\ faults \in 0..MaxFaults
  BY DEF ProjectionInv, TypeOK, ChainType, RunsType, PassesOK, PassOK, VotesOK, VoteOK,
         ChunkInside, SignedBySigners

Rest == outbox \in [JobIds -> TxStatus] /\ cursor \in Cursor /\ faults \in 0..MaxFaults

LEMMA PartsAfter ==
  ASSUME TableTypeOK', ChainType', RunsType', PassesOK', VotesOK', Rest'
  PROVE  ProjectionInv'
  BY DEF ProjectionInv, TypeOK, ChainType, RunsType, PassesOK, PassOK, VotesOK, VoteOK,
         ChunkInside, SignedBySigners, Rest

LEMMA Numbers ==
  /\ 1 \in Blocks /\ Blocks \subseteq Heights /\ Heights \subseteq Nat /\ 0 \in Heights
  /\ 1 \in Branches /\ Branches \subseteq Hashes /\ 0 \in Hashes
  /\ Confirmations \in Nat /\ Overlap \in Nat /\ ChunkSize \in Nat \ {0} /\ MaxBlock \in Nat
  BY IndexerAssumption DEF Blocks, Heights, Branches, Hashes

LEMMA NoVoteOK == NoVote \in VoteRow /\ ~NoVote.signed
  BY Numbers DEF NoVote, VoteRow

LEMMA NoVotesOK ==
  NoVotes \in [Voters -> VoteRow] /\ \A v \in Voters : ~NoVotes[v].signed
  BY NoVoteOK DEF NoVotes

LEMMA NoPassOK == PassOK(NoPass)
<1>1. NoPass \in Pass
  BY Numbers, NoVotesOK DEF NoPass, Pass, Cursor
<1> QED
  BY <1>1, NoVotesOK DEF PassOK, NextInside, NoPass

LEMMA InitInv == Init => ProjectionInv
<1> SUFFICES ASSUME Init PROVE ProjectionInv
  OBVIOUS
<1>1. TableTypeOK
  <2>1. NoRow \in JobRow
    BY ZeroAttempts DEF NoRow, JobRow, JobStatus
  <2> QED
    BY <2>1 DEF Init, TableInit, TableTypeOK, RunCopy
<1>2. ChainType
  BY Numbers DEF Init, ChainType
<1>3. RunsType
  BY Numbers DEF Init, RunsType
<1>4. PassesOK
  BY NoPassOK DEF Init, PassesOK, PassOK
<1>5. VotesOK
  BY NoVotesOK DEF Init, VotesOK, VoteOK
<1>6. outbox \in [JobIds -> TxStatus]
  BY DEF Init, TxStatus
<1>7. cursor \in Cursor
  BY Numbers DEF Init, Cursor, NoPass
<1>8. faults \in 0..MaxFaults
  BY IndexerAssumption DEF Init
<1> QED
  BY <1>1, <1>2, <1>3, <1>4, <1>5, <1>6, <1>7, <1>8, Parts

-----------------------------------------------------------------------------
(* The chain.                                                              *)

LEMMA MineBlockType == ASSUME ChainType, MineBlock PROVE ChainType'
<1>1. tip + 1 \in Blocks /\ tip + 1 \in Heights /\ branch \in Hashes
  BY Numbers DEF ChainType, MineBlock, Blocks, Heights
<1>2. tip' \in Blocks /\ hash' \in [Blocks -> Hashes] /\ branch' \in Branches
  BY <1>1 DEF ChainType, MineBlock
<1>3. PICK T \in SUBSET pool, O \in SUBSET SelfCast :
        LET sent == {jobs[j].key : j \in T} IN
        /\ castAt' = [v \in Voters |-> IF castAt[v] = 0 /\ v \in sent \cup O
                                       THEN tip + 1 ELSE castAt[v]]
        /\ castBy' = [v \in Voters |-> IF castAt[v] = 0 /\ v \in sent
                                       THEN CHOOSE j \in T : jobs[j].key = v ELSE castBy[v]]
        /\ minedAt' = [j \in JobIds |-> IF j \in T THEN tip + 1 ELSE minedAt[j]]
        /\ pool' = pool \ T
  BY DEF MineBlock
<1>4. castAt' \in [Voters -> Heights] /\ minedAt' \in [JobIds -> Heights] /\ pool' \subseteq JobIds
  BY <1>1, <1>3 DEF ChainType
<1>5. castBy' \in [Voters -> JobIds \cup {0}]
  <2>1. \A v \in {jobs[j].key : j \in T} : (CHOOSE j \in T : jobs[j].key = v) \in JobIds
    BY DEF ChainType
  <2> QED
    BY <1>3, <2>1 DEF ChainType
<1> QED
  BY <1>2, <1>4, <1>5 DEF ChainType

LEMMA ReorgType == ASSUME ChainType, Reorg PROVE ChainType'
<1>1. branch + 1 \in Branches /\ branch + 1 \in Hashes
  BY IndexerAssumption DEF ChainType, Reorg, Branches, Hashes
<1>2. PICK d \in 1..Lesser(ReorgDepth, tip - 1) :
        LET from     == tip - d + 1
            orphaned == {v \in Voters : castAt[v] >= from}
            undone   == {j \in JobIds : minedAt[j] >= from}
        IN
        /\ hash' = [b \in Blocks |-> IF b \in from..tip THEN branch + 1 ELSE hash[b]]
        /\ \E at \in [orphaned -> from..tip \cup {0}] :
            /\ castAt' = [v \in Voters |-> IF v \in orphaned THEN at[v] ELSE castAt[v]]
            /\ castBy' = [v \in Voters |-> IF v \in orphaned /\ at[v] = 0
                                           THEN 0 ELSE castBy[v]]
            /\ minedAt' = [j \in JobIds |->
                    IF j \notin undone THEN minedAt[j]
                    ELSE IF jobs[j].key \in orphaned /\ castBy[jobs[j].key] = j
                    THEN at[jobs[j].key] ELSE 0]
        /\ \E kept \in SUBSET undone :
            pool' = pool \cup {j \in kept : minedAt'[j] = 0}
  BY DEF Reorg
<1> DEFINE from     == tip - d + 1
           orphaned == {v \in Voters : castAt[v] >= from}
           undone   == {j \in JobIds : minedAt[j] >= from}
<1>3. tip \in Nat /\ ReorgDepth \in Nat /\ from \in 1..tip /\ from..tip \cup {0} \subseteq Heights
  BY IndexerAssumption DEF ChainType, Blocks, Heights, Lesser
<1>4. PICK at \in [orphaned -> from..tip \cup {0}] :
            /\ castAt' = [v \in Voters |-> IF v \in orphaned THEN at[v] ELSE castAt[v]]
            /\ castBy' = [v \in Voters |-> IF v \in orphaned /\ at[v] = 0
                                           THEN 0 ELSE castBy[v]]
            /\ minedAt' = [j \in JobIds |->
                    IF j \notin undone THEN minedAt[j]
                    ELSE IF jobs[j].key \in orphaned /\ castBy[jobs[j].key] = j
                    THEN at[jobs[j].key] ELSE 0]
  BY <1>2
<1> HIDE DEF from, orphaned, undone
<1>5. \A v \in orphaned : at[v] \in Heights
  BY <1>3, <1>4
<1>6. castAt' \in [Voters -> Heights] /\ minedAt' \in [JobIds -> Heights]
  BY <1>4, <1>5, Numbers DEF ChainType
<1>7. castBy' \in [Voters -> JobIds \cup {0}]
  BY <1>4 DEF ChainType
<1>8. pool' \subseteq JobIds /\ hash' \in [Blocks -> Hashes]
  BY <1>1, <1>2 DEF ChainType, undone
<1>9. tip' \in Blocks /\ branch' \in Branches
  BY <1>1 DEF ChainType, Reorg
<1> QED
  BY <1>6, <1>7, <1>8, <1>9 DEF ChainType

-----------------------------------------------------------------------------
(* The indexing pass.                                                      *)

LEMMA LocalOK ==
  ASSUME PassesOK, NEW w \in Workers, NEW p, PassOK(p), pass' = [pass EXCEPT ![w] = p]
  PROVE  PassesOK'
<1>1. p \in Pass
  BY DEF PassOK
<1>2. pass' \in [Workers -> Pass] /\ \A u \in Workers : pass'[u] = IF u = w THEN p ELSE pass[u]
  BY <1>1 DEF PassesOK
<1>3. \A u \in Workers : PassOK(pass'[u])
  BY <1>2 DEF PassesOK
<1> QED
  BY <1>2, <1>3 DEF PassesOK, PassOK

LEMMA ChunkOK ==
  ASSUME NEW p \in Pass, p.next >= 1, p.safe \in Heights
  PROVE  PassOK(Chunk(p))
<1>1. Chunk(p) \in Pass
  BY Numbers, NoVotesOK DEF Pass, Chunk, NoPass, Cursor
<1>2. \A v \in Voters : ~Chunk(p).rows[v].signed
  BY NoVotesOK DEF Chunk, Pass
<1>3. NextInside(Chunk(p))
  BY Numbers DEF Chunk, Pass, Heights, NextInside
<1> QED
  BY <1>1, <1>2, <1>3 DEF PassOK

(* The last block of a chunk is one of the blocks.                         *)
LEMMA EndInside ==
  ASSUME NEW p \in Pass, p.next \in 1..p.safe
  PROVE  End(p) \in Blocks /\ End(p) \in Heights /\ End(p) >= p.next
  BY IndexerAssumption DEF Pass, End, Lesser, Blocks, Heights

LEMMA ResumeOK ==
  ASSUME NEW b \in Heights PROVE Resume(b) \in Nat /\ Resume(b) >= 1
  BY Numbers DEF Resume, Greater, Heights

(* The rows and logs a pass copies.                                        *)
LEMMA CopiesOK ==
  ASSUME ChainType, VotesOK, NEW S \in SUBSET Voters
  PROVE  LET rows == [v \in Voters |-> IF v \in S THEN votes[v] ELSE NoVote]
         IN  rows \in [Voters -> VoteRow] /\ \A v \in Voters : rows[v].signed => v \in Signers
  BY NoVoteOK DEF VotesOK, VoteOK

LEMMA NarrowerOK ==
  ASSUME NEW p, PassOK(p), NEW S \in SUBSET Voters
  PROVE  LET rows == [v \in Voters |-> IF v \in S THEN p.rows[v] ELSE NoVote]
         IN  rows \in [Voters -> VoteRow] /\ \A v \in Voters : rows[v].signed => v \in Signers
  BY NoVoteOK DEF PassOK, Pass

(* A step of the pass of w that writes only locals.                        *)
LEMMA LocalStep ==
  ASSUME ProjectionInv, NEW w \in Workers, NEW from, NEW p, PassOK(p), Local(w, from, p)
  PROVE  ProjectionInv'
<1>1. PassesOK'
  BY LocalOK, Parts DEF Local
<1> QED
  BY <1>1, Parts, PartsAfter DEF Local, Rest, TableTypeOK, ChainType, RunsType, VotesOK, VoteOK

LEMMA PassTyped ==
  ASSUME ProjectionInv, NEW w \in Workers
  PROVE  pass[w] \in Pass /\ PassOK(pass[w])
  BY Parts DEF PassesOK

LEMMA ReadTipKeeps ==
  ASSUME ProjectionInv, NEW w \in Workers, ReadTip(w) PROVE ProjectionInv'
<1> DEFINE p == [NoPass EXCEPT !.at = "cursor", !.safe = Greater(0, tip - Confirmations)]
<1>1. Greater(0, tip - Confirmations) \in Heights
  BY Parts, Numbers DEF ChainType, Blocks, Heights, Greater
<1>2. PassOK(p)
  BY <1>1, NoPassOK DEF PassOK, NextInside, Pass, NoPass
<1> QED
  BY <1>2, LocalStep DEF ReadTip

LEMMA ReadCursorKeeps ==
  ASSUME ProjectionInv, NEW w \in Workers, ReadCursor(w) PROVE ProjectionInv'
<1> DEFINE p == pass[w]
<1>1. p \in Pass /\ PassOK(p) /\ p.safe \in Heights
  BY PassTyped DEF Pass
<1>2. PassOK(Chunk([p EXCEPT !.next = 1]))
  BY <1>1, ChunkOK DEF Pass
<1>3. PassOK([p EXCEPT !.at = "compare", !.seen = cursor])
  BY <1>1, Parts DEF Pass, PassOK, NextInside
<1> QED
  BY <1>2, <1>3, LocalStep DEF ReadCursor

LEMMA CompareCursorKeeps ==
  ASSUME ProjectionInv, NEW w \in Workers, CompareCursor(w) PROVE ProjectionInv'
<1> DEFINE p == [pass[w] EXCEPT !.next = Resume(pass[w].seen.block)]
<1>1. pass[w] \in Pass /\ PassOK(pass[w]) /\ pass[w].seen.block \in Heights
  BY PassTyped DEF Pass, Cursor
<1>2. p \in Pass /\ p.next >= 1 /\ p.safe \in Heights
  BY <1>1, ResumeOK DEF Pass
<1>3. PassOK(Chunk(p))
  BY <1>2, ChunkOK
<1>4. PassOK([p EXCEPT !.at = "affected"])
  BY <1>1, <1>2 DEF Pass, PassOK, NextInside
<1> QED
  BY <1>3, <1>4, LocalStep DEF CompareCursor

LEMMA SelectAffectedKeeps ==
  ASSUME ProjectionInv, NEW w \in Workers, SelectAffected(w) PROVE ProjectionInv'
<1> DEFINE S == {v \in Voters : votes[v].status = "CONFIRMED" /\ votes[v].block >= pass[w].next}
           rows == [v \in Voters |-> IF v \in S THEN votes[v] ELSE NoVote]
           p == [pass[w] EXCEPT !.at = "blocks", !.rows = rows]
<1>1. rows \in [Voters -> VoteRow] /\ \A v \in Voters : rows[v].signed => v \in Signers
  BY Parts, CopiesOK
<1>2. pass[w] \in Pass /\ PassOK(pass[w]) /\ pass[w].at = "affected"
  BY PassTyped DEF SelectAffected, Local
<1>3. rows = [v \in Voters |-> IF votes[v].status = "CONFIRMED" /\ votes[v].block >= pass[w].next
                               THEN votes[v] ELSE NoVote]
  OBVIOUS
<1> HIDE DEF rows
<1>4. PassOK(p)
  BY <1>1, <1>2 DEF Pass, PassOK, NextInside
<1> QED
  BY <1>3, <1>4, LocalStep DEF SelectAffected

LEMMA CompareBlocksKeeps ==
  ASSUME ProjectionInv, NEW w \in Workers, CompareBlocks(w) PROVE ProjectionInv'
<1> DEFINE orphaned == {v \in Voters : pass[w].rows[v] # NoVote
                          /\ hash[pass[w].rows[v].block] # pass[w].rows[v].hash}
           rows == [v \in Voters |-> IF v \in orphaned THEN pass[w].rows[v] ELSE NoVote]
           p == [pass[w] EXCEPT !.at = "undo", !.rows = rows]
<1>1. pass[w] \in Pass /\ PassOK(pass[w]) /\ pass[w].at = "blocks"
  BY PassTyped DEF CompareBlocks, Local
<1>2. rows \in [Voters -> VoteRow] /\ \A v \in Voters : rows[v].signed => v \in Signers
  BY <1>1, NarrowerOK
<1>3. Local(w, "blocks", IF orphaned = {} THEN Chunk(pass[w]) ELSE p)
  BY DEF CompareBlocks
<1> HIDE DEF rows, orphaned
<1>4. PassOK(p)
  BY <1>1, <1>2 DEF Pass, PassOK, NextInside
<1>5. PassOK(Chunk(pass[w]))
  BY <1>1, ChunkOK DEF Pass, PassOK, NextInside
<1> QED
  BY <1>3, <1>4, <1>5, LocalStep

LEMMA GetLogsKeeps ==
  ASSUME ProjectionInv, NEW w \in Workers, GetLogs(w) PROVE ProjectionInv'
<1> DEFINE logs == [v \in Voters |->
              IF castAt[v] \in pass[w].next..End(pass[w])
              THEN [status |-> "CONFIRMED", tx |-> castBy[v], block |-> castAt[v],
                    hash |-> hash[castAt[v]], signed |-> FALSE]
              ELSE NoVote]
           p == [pass[w] EXCEPT !.at = "end", !.logs = logs]
<1>1. pass[w] \in Pass /\ PassOK(pass[w]) /\ pass[w].next \in 1..pass[w].safe
  BY PassTyped DEF GetLogs, Local, PassOK, NextInside
<1>2. End(pass[w]) \in Blocks
  BY <1>1, EndInside
<1>3. \A v \in Voters : castAt[v] \in pass[w].next..End(pass[w]) => hash[castAt[v]] \in Hashes
  <2>1. pass[w].next \in Nat /\ pass[w].next >= 1
    BY <1>1 DEF Pass
  <2>2. pass[w].next..End(pass[w]) \subseteq Blocks
    BY <1>2, <2>1, IndexerAssumption DEF Blocks
  <2> QED
    BY <2>2, Parts DEF ChainType
<1>4. \A v \in Voters : castAt[v] \in Heights /\ castBy[v] \in JobIds \cup {0}
  BY Parts DEF ChainType
<1>5. logs \in [Voters -> VoteRow]
  BY <1>3, <1>4, NoVoteOK DEF VoteRow
<1>6. Local(w, "logs", p)
  BY DEF GetLogs
<1> HIDE DEF logs
<1>7. PassOK(p)
  BY <1>1, <1>5 DEF Pass, PassOK, NextInside
<1> QED
  BY <1>6, <1>7, LocalStep

LEMMA GetEndBlockKeeps ==
  ASSUME ProjectionInv, NEW w \in Workers, GetEndBlock(w) PROVE ProjectionInv'
<1> DEFINE p == [pass[w] EXCEPT !.at = "commit", !.endHash = hash[End(pass[w])]]
<1>1. pass[w] \in Pass /\ PassOK(pass[w]) /\ pass[w].next \in 1..pass[w].safe
  BY PassTyped DEF GetEndBlock, Local, PassOK, NextInside
<1>2. hash[End(pass[w])] \in Hashes
  BY <1>1, EndInside, Parts DEF ChainType
<1>3. PassOK(p)
  BY <1>1, <1>2 DEF Pass, PassOK, NextInside
<1> QED
  BY <1>3, LocalStep DEF GetEndBlock

LEMMA ReadReceiptsKeeps ==
  ASSUME ProjectionInv, NEW w \in Workers, ReadReceipts(w) PROVE ProjectionInv'
<1> DEFINE reverted == {v \in Voters : /\ votes[v].status = "SUBMITTED"
                                       /\ votes[v].tx \in JobIds
                                       /\ minedAt[votes[v].tx] # 0
                                       /\ ~Succeeded(votes[v].tx)}
           rows == [v \in Voters |-> IF v \in reverted THEN votes[v] ELSE NoVote]
           p == [NoPass EXCEPT !.at = "fail", !.rows = rows]
<1>1. rows \in [Voters -> VoteRow] /\ \A v \in Voters : rows[v].signed => v \in Signers
  BY Parts, CopiesOK
<1>2. Local(w, "submitted", IF reverted = {} THEN NoPass ELSE p)
  BY DEF ReadReceipts
<1> HIDE DEF rows, reverted
<1>3. PassOK(p)
  BY <1>1, NoPassOK DEF Pass, PassOK, NextInside, NoPass
<1> QED
  BY <1>2, <1>3, NoPassOK, LocalStep

(* A step that rewrites votes row by row.                                  *)
LEMMA VotesAfter ==
  ASSUME NEW f, votes' = [v \in Voters |-> f[v]], \A v \in Voters : VoteOK(v, f[v])
  PROVE  VotesOK'
  BY DEF VotesOK, VoteOK

LEMMA UndoneOK ==
  ASSUME NEW v \in Voters, NEW row, VoteOK(v, row), NEW copy \in VoteRow
  PROVE  VoteOK(v, Undone(row, copy))
  BY Numbers, NoVoteOK DEF VoteOK, Undone, VoteRow

LEMMA UpsertOK ==
  ASSUME NEW v \in Voters, NEW row, VoteOK(v, row), NEW log \in VoteRow
  PROVE  VoteOK(v, Upsert(row, log))
  BY DEF VoteOK, Upsert, VoteRow

LEMMA FailedVoteOK ==
  ASSUME NEW v \in Voters, NEW row, VoteOK(v, row)
  PROVE  VoteOK(v, FailedVote(row))
  BY DEF VoteOK, FailedVote, VoteRow

LEMMA RequeuedType ==
  ASSUME TableTypeOK, NEW R
  PROVE  \A j \in JobIds : Requeued(R)[j] \in JobRow
  BY ZeroAttempts DEF TableTypeOK, Requeued, JobRow, JobStatus

LEMMA NewRowType == ASSUME NEW k \in Keys PROVE NewRow(k) \in JobRow
  BY ZeroAttempts DEF NewRow, NoRow, JobRow, JobStatus

LEMMA UndoOrphanedKeeps ==
  ASSUME ProjectionInv, NEW w \in Workers, UndoOrphaned(w) PROVE ProjectionInv'
<1> DEFINE copy     == pass[w].rows
           orphaned == {v \in Voters : copy[v] # NoVote}
           missing  == {v \in orphaned : /\ copy[v].signed /\ copy[v].tx = 0
                                         /\ ActiveRows(v) = {}}
           after    == [v \in Voters |-> IF v \in orphaned
                                         THEN Undone(votes[v], copy[v]) ELSE votes[v]]
<1>1. PassOK(pass[w]) /\ pass[w] \in Pass /\ pass[w].at = "undo"
  BY PassTyped DEF UndoOrphaned
<1>2. \A v \in missing : v \in Keys
  BY <1>1, IndexerAssumption DEF PassOK
<1>3. jobs' \in [JobIds -> JobRow]
  <2>1. PICK new \in [missing -> {j \in JobIds : jobs[j].status = "ABSENT"}] :
          jobs' = [j \in JobIds |->
                     IF \E v \in missing : new[v] = j
                     THEN NewRow(CHOOSE v \in missing : new[v] = j)
                     ELSE Requeued(Resent(copy))[j]]
    BY DEF UndoOrphaned
  <2> HIDE DEF missing
  <2>2. \A j \in JobIds : (\E v \in missing : new[v] = j)
                            => NewRow(CHOOSE v \in missing : new[v] = j) \in JobRow
    <3> SUFFICES ASSUME NEW j \in JobIds, \E v \in missing : new[v] = j
                 PROVE  NewRow(CHOOSE v \in missing : new[v] = j) \in JobRow
      OBVIOUS
    <3>1. (CHOOSE v \in missing : new[v] = j) \in missing
      OBVIOUS
    <3> QED
      BY <3>1, <1>2, NewRowType
  <2>3. \A j \in JobIds : Requeued(Resent(copy))[j] \in JobRow
    BY Parts, RequeuedType
  <2> QED
    BY <2>1, <2>2, <2>3
<1>4. TableTypeOK'
  BY <1>3, Parts DEF UndoOrphaned, TableTypeOK
<1>5. VotesOK'
  <2>1. \A v \in Voters : VoteOK(v, votes[v]) /\ copy[v] \in VoteRow
    BY <1>1, Parts DEF VotesOK, Pass
  <2>2. \A v \in Voters : VoteOK(v, after[v])
    BY <2>1, UndoneOK
  <2>3. votes' = [v \in Voters |-> after[v]]
    BY DEF UndoOrphaned
  <2> QED
    BY <2>2, <2>3, VotesAfter
<1>6. PassesOK'
  <2>1. PassOK(Chunk(pass[w]))
    BY <1>1, ChunkOK DEF PassOK, NextInside, Pass
  <2>2. pass' = [pass EXCEPT ![w] = Chunk(pass[w])]
    BY DEF UndoOrphaned
  <2> QED
    BY <2>1, <2>2, LocalOK, Parts
<1>7. outbox' \in [JobIds -> TxStatus]
  BY Parts DEF UndoOrphaned, TxStatus
<1>8. cursor' \in Cursor /\ faults' \in 0..MaxFaults /\ UNCHANGED <<chainVars, runVars>>
  BY Parts DEF UndoOrphaned
<1>9. ChainType' /\ RunsType'
  BY <1>8, Parts DEF ChainType, RunsType
<1> QED
  BY <1>4, <1>5, <1>6, <1>7, <1>8, <1>9, PartsAfter DEF Rest

(* Steps that leave the table, the chain and the runs alone.               *)
LEMMA ProjectionStep ==
  ASSUME ProjectionInv, UNCHANGED <<tableVars, chainVars, outbox, runVars>>, PassesOK', VotesOK',
         cursor' \in Cursor, faults' \in 0..MaxFaults
  PROVE  ProjectionInv'
  BY Parts, PartsAfter DEF Rest, TableTypeOK, ChainType, RunsType

LEMMA CommitChunkKeeps ==
  ASSUME ProjectionInv, NEW w \in Workers, CommitChunk(w) PROVE ProjectionInv'
<1> DEFINE p == pass[w]
           after == [v \in Voters |-> Upsert(votes[v], p.logs[v])]
           next == [p EXCEPT !.next = End(p) + 1]
<1>1. p \in Pass /\ PassOK(p) /\ p.next \in 1..p.safe
  BY PassTyped DEF CommitChunk, PassOK, NextInside
<1>2. End(p) \in Blocks /\ End(p) \in Heights /\ End(p) \in Nat
  BY <1>1, EndInside, Numbers
<1>3. cursor' \in Cursor
  BY <1>1, <1>2 DEF CommitChunk, Cursor, Pass
<1>4. VotesOK'
  <2>1. \A v \in Voters : VoteOK(v, votes[v]) /\ p.logs[v] \in VoteRow
    BY <1>1, Parts DEF VotesOK, Pass
  <2>2. \A v \in Voters : VoteOK(v, after[v])
    BY <2>1, UpsertOK
  <2>3. votes' = [v \in Voters |-> after[v]]
    BY DEF CommitChunk
  <2> QED
    BY <2>2, <2>3, VotesAfter
<1>5. next \in Pass /\ next.next >= 1 /\ next.safe \in Heights
  BY <1>1, <1>2 DEF Pass
<1>6. PassesOK'
  BY <1>5, ChunkOK, LocalOK, Parts DEF CommitChunk
<1> QED
  BY <1>3, <1>4, <1>6, Parts, ProjectionStep DEF CommitChunk

LEMMA FailRevertedKeeps ==
  ASSUME ProjectionInv, NEW w \in Workers, FailReverted(w) PROVE ProjectionInv'
<1> DEFINE after == [v \in Voters |-> IF pass[w].rows[v] = NoVote THEN votes[v]
                                      ELSE FailedVote(votes[v])]
<1>1. \A v \in Voters : VoteOK(v, after[v])
  BY FailedVoteOK, Parts DEF VotesOK
<1>2. VotesOK'
  BY <1>1, VotesAfter DEF FailReverted
<1>3. PassesOK'
  BY NoPassOK, LocalOK, Parts DEF FailReverted
<1> QED
  BY <1>2, <1>3, Parts, ProjectionStep DEF FailReverted

LEMMA PassThrowsKeeps ==
  ASSUME ProjectionInv, NEW w \in Workers, PassThrows(w) PROVE ProjectionInv'
<1>1. PassesOK'
  BY NoPassOK, LocalOK, Parts DEF PassThrows
<1>2. VotesOK' /\ cursor' \in Cursor
  BY Parts DEF PassThrows, VotesOK, VoteOK
<1>3. faults' \in 0..MaxFaults
  BY Parts, IndexerAssumption DEF PassThrows
<1> QED
  BY <1>1, <1>2, <1>3, ProjectionStep DEF PassThrows

LEMMA IndexKeeps ==
  ASSUME ProjectionInv, NEW w \in Workers, Index(w) PROVE ProjectionInv'
  BY ReadTipKeeps, ReadCursorKeeps, CompareCursorKeeps, SelectAffectedKeeps,
     CompareBlocksKeeps, UndoOrphanedKeeps, GetLogsKeeps, GetEndBlockKeeps,
     CommitChunkKeeps, ReadReceiptsKeeps, FailRevertedKeeps DEF Index

-----------------------------------------------------------------------------
(* The runs, the requests and the job table.                               *)

LEMMA CleanupType ==
  ASSUME ProjectionInv, Cleanup PROVE RunsType'
  BY Parts, Numbers DEF Cleanup, RunsType

LEMMA GotoType ==
  ASSUME ProjectionInv, NEW s \in Slots,
         NEW to \in {"idle", "load", "simulate", "prepare", "broadcast", "wait", "finalize", "complete"},
         Goto(s, to)
  PROVE  pc' \in [Slots -> {"idle", "load", "simulate", "prepare", "broadcast",
                            "wait", "finalize", "complete"}]
  BY Parts DEF Goto, RunsType

(* One row of votes is replaced, whatever row of whomever.                 *)
LEMMA OneVoteChanged ==
  ASSUME ProjectionInv, NEW k, NEW row, k \in Voters => VoteOK(k, row),
         votes' = [votes EXCEPT ![k] = row]
  PROVE  VotesOK'
<1>1. \A v \in Voters : votes'[v] = IF v = k THEN row ELSE votes[v]
  BY Parts DEF VotesOK
<1>2. \A v \in Voters : VoteOK(v, votes'[v])
  BY <1>1, Parts DEF VotesOK
<1>3. votes' = [v \in Voters |-> votes'[v]]
  BY Parts DEF VotesOK
<1> QED
  BY <1>2, <1>3 DEF VotesOK, VoteOK

LEMMA SamePasses ==
  ASSUME ProjectionInv, UNCHANGED pass PROVE PassesOK'
  BY Parts DEF PassesOK, PassOK

LEMMA SameVotes ==
  ASSUME ProjectionInv, UNCHANGED votes PROVE VotesOK'
  BY Parts DEF VotesOK, VoteOK

LEMMA SameChain ==
  ASSUME ProjectionInv, tip' = tip, hash' = hash, castAt' = castAt, castBy' = castBy,
         minedAt' = minedAt, branch' = branch, pool' \subseteq JobIds
  PROVE  ChainType'
  BY Parts DEF ChainType

LEMMA FailKeeps ==
  ASSUME ProjectionInv, NEW s \in Slots, NEW permanent, Fail(s, permanent),
         faults' \in 0..MaxFaults
  PROVE  ProjectionInv'
<1>1. TableTypeOK'
  BY EndRunType, Parts DEF Fail
<1>2. RunsType'
  BY CleanupType DEF Fail
<1>3. VotesOK'
  <2>1. CASE UNCHANGED votes
    BY <2>1, SameVotes
  <2>2. CASE votes' = [votes EXCEPT ![VoterOf(s)] = FailedVote(votes[VoterOf(s)])]
    <3>1. VoterOf(s) \in Voters => VoteOK(VoterOf(s), FailedVote(votes[VoterOf(s)]))
      BY FailedVoteOK, Parts DEF VotesOK
    <3> QED
      BY <2>2, <3>1, OneVoteChanged
  <2> QED
    BY <2>1, <2>2 DEF Fail
<1>4. PassesOK'
  <2>1. CASE UNCHANGED pass
    BY <2>1, SamePasses
  <2>2. CASE pass' = [pass EXCEPT ![WorkerOf[s]] = NoPass]
    BY <2>2, NoPassOK, LocalOK, Parts, JobTableAssumption
  <2> QED
    BY <2>1, <2>2 DEF Fail
<1>5. ChainType' /\ outbox' \in [JobIds -> TxStatus] /\ cursor' \in Cursor
  BY Parts DEF Fail, ChainType
<1> QED
  BY <1>1, <1>2, <1>3, <1>4, <1>5, PartsAfter DEF Rest

LEMMA StartKeeps ==
  ASSUME ProjectionInv, NEW s \in Slots, Start(s) PROVE ProjectionInv'
<1>1. TableTypeOK'
  BY RunType, Parts DEF Start
<1>2. RunsType'
  BY GotoType, Parts DEF Start, RunsType
<1>3. PassesOK' /\ VotesOK' /\ ChainType' /\ Rest'
  BY SamePasses, SameVotes, SameChain, Parts DEF Start, Rest, ChainType
<1> QED
  BY <1>1, <1>2, <1>3, PartsAfter

(* A step of a run that goes on.                                           *)
LEMMA StepKeeps ==
  ASSUME ProjectionInv, NEW s \in Slots, NEW from,
         NEW to \in {"simulate", "prepare", "broadcast", "wait", "finalize", "complete"},
         Step(s, from, to), VotesOK', outbox' \in [JobIds -> TxStatus], pool' \subseteq JobIds,
         receipt' \in [Slots -> Heights]
  PROVE  ProjectionInv'
<1>1. TableTypeOK' /\ cursor' \in Cursor /\ faults' \in 0..MaxFaults
  BY Parts DEF Step, TableTypeOK
<1>2. RunsType'
  BY GotoType DEF Step, RunsType
<1>3. ChainType' /\ PassesOK'
  BY SameChain, SamePasses DEF Step
<1> QED
  BY <1>1, <1>2, <1>3, PartsAfter DEF Rest

LEMMA RunJob ==
  ASSUME ProjectionInv, NEW s \in Slots, NEW label, At(s, label)
  PROVE  JobOf(s) \in JobIds
  BY SlotJob, Parts DEF At, JobOf

LEMMA RunTypes ==
  ASSUME ProjectionInv
  PROVE  /\ outbox \in [JobIds -> TxStatus] /\ pool \subseteq JobIds
         /\ receipt \in [Slots -> Heights] /\ faults \in 0..MaxFaults
         /\ minedAt \in [JobIds -> Heights] /\ hash \in [Blocks -> Hashes]
  BY Parts DEF ChainType, RunsType

LEMMA LoadVoteKeeps ==
  ASSUME ProjectionInv, NEW s \in Slots, LoadVote(s) PROVE ProjectionInv'
  BY StepKeeps, SameVotes, RunTypes DEF LoadVote

LEMMA SimulateKeeps ==
  ASSUME ProjectionInv, NEW s \in Slots, Simulate(s) PROVE ProjectionInv'
  BY StepKeeps, SameVotes, RunTypes, FailKeeps DEF Simulate

LEMMA PrepareKeeps ==
  ASSUME ProjectionInv, NEW s \in Slots, Prepare(s) PROVE ProjectionInv'
<1>1. CASE Step(s, "prepare", "broadcast") /\ UNCHANGED <<votes, outbox, pool, receipt>>
  BY <1>1, StepKeeps, SameVotes, RunTypes
<1>2. CASE /\ Step(s, "prepare", "broadcast")
           /\ outbox' = [outbox EXCEPT ![JobOf(s)] = "PREPARED"]
           /\ votes' = [votes EXCEPT ![VoterOf(s)].status = "SUBMITTED",
                                     ![VoterOf(s)].tx = JobOf(s)]
           /\ UNCHANGED <<pool, receipt>>
  <2> DEFINE k == VoterOf(s)
             row == [votes[k] EXCEPT !.status = "SUBMITTED", !.tx = JobOf(s)]
  <2>1. k \in Voters => VoteOK(k, row)
    BY <1>2, RunJob, Parts DEF Step, VotesOK, VoteOK, VoteRow
  <2>2. votes' = [votes EXCEPT ![k] = row]
    BY <1>2, Parts DEF VotesOK
  <2>3. VotesOK'
    BY <2>1, <2>2, OneVoteChanged
  <2>4. outbox' \in [JobIds -> TxStatus]
    BY <1>2, RunTypes DEF TxStatus
  <2> QED
    BY <1>2, <2>3, <2>4, StepKeeps, RunTypes
<1>3. CASE Fail(s, FALSE) /\ UNCHANGED faults
  BY <1>3, FailKeeps, RunTypes
<1> QED
  BY <1>1, <1>2, <1>3 DEF Prepare

LEMMA BroadcastKeeps ==
  ASSUME ProjectionInv, NEW s \in Slots, Broadcast(s) PROVE ProjectionInv'
<1>1. pool' \subseteq JobIds /\ outbox' \in [JobIds -> TxStatus]
  BY RunJob, RunTypes DEF Broadcast, Step, TxStatus
<1> QED
  BY <1>1, StepKeeps, SameVotes, RunTypes DEF Broadcast

LEMMA RecordReceiptKeeps ==
  ASSUME ProjectionInv, NEW s \in Slots, RecordReceipt(s) PROVE ProjectionInv'
<1>1. CASE /\ Step(s, "wait", "finalize")
           /\ outbox' = [outbox EXCEPT ![JobOf(s)] = "CONFIRMED"]
           /\ receipt' = [receipt EXCEPT ![s] = minedAt[JobOf(s)]]
           /\ UNCHANGED <<votes, pool>>
  <2>1. outbox' \in [JobIds -> TxStatus] /\ receipt' \in [Slots -> Heights]
    BY <1>1, RunJob, RunTypes DEF Step, TxStatus
  <2> QED
    BY <1>1, <2>1, StepKeeps, SameVotes, RunTypes
<1>2. CASE /\ Goto(s, "finalize")
           /\ outbox' = [outbox EXCEPT ![JobOf(s)] = "REVERTED"]
           /\ UNCHANGED <<tableVars, chainVars, votes, cursor, pass, receipt, faults>>
  <2>1. outbox' \in [JobIds -> TxStatus]
    BY <1>2, RunTypes DEF TxStatus
  <2>2. RunsType'
    BY <1>2, GotoType, RunTypes DEF RunsType
  <2>3. ChainType' /\ PassesOK' /\ VotesOK' /\ TableTypeOK'
    BY <1>2, SamePasses, SameVotes, Parts DEF ChainType, TableTypeOK
  <2> QED
    BY <1>2, <2>1, <2>2, <2>3, Parts, PartsAfter DEF Rest
<1> QED
  BY <1>1, <1>2 DEF RecordReceipt

LEMMA FinalizeVoteKeeps ==
  ASSUME ProjectionInv, NEW s \in Slots, FinalizeVote(s) PROVE ProjectionInv'
<1>1. CASE /\ receipt[s] # 0
           /\ Step(s, "finalize", "complete")
           /\ votes' = [votes EXCEPT ![VoterOf(s)] =
                         [@ EXCEPT !.status = "CONFIRMED", !.tx = JobOf(s),
                                   !.block = receipt[s], !.hash = hash[receipt[s]]]]
           /\ UNCHANGED <<outbox, pool, receipt>>
  <2> DEFINE k == VoterOf(s)
             row == [votes[k] EXCEPT !.status = "CONFIRMED", !.tx = JobOf(s),
                                     !.block = receipt[s], !.hash = hash[receipt[s]]]
  <2>1. receipt[s] \in Heights /\ hash[receipt[s]] \in Hashes
    BY <1>1, RunTypes, IndexerAssumption DEF Heights, Blocks
  <2>2. k \in Voters => VoteOK(k, row)
    BY <1>1, <2>1, RunJob, Parts DEF Step, VotesOK, VoteOK, VoteRow
  <2>3. VotesOK'
    BY <1>1, <2>2, OneVoteChanged
  <2> QED
    BY <1>1, <2>3, StepKeeps, RunTypes
<1>2. CASE Fail(s, TRUE) /\ UNCHANGED faults
  BY <1>2, FailKeeps, RunTypes
<1> QED
  BY <1>1, <1>2 DEF FinalizeVote

LEMMA CompleteRunKeeps ==
  ASSUME ProjectionInv, NEW s \in Slots, CompleteRun(s) PROVE ProjectionInv'
<1>1. TableTypeOK'
  BY EndRunType, Parts DEF CompleteRun
<1>2. RunsType'
  BY CleanupType DEF CompleteRun
<1>3. PassesOK' /\ VotesOK' /\ ChainType' /\ Rest'
  BY SamePasses, SameVotes, Parts DEF CompleteRun, Rest, ChainType
<1> QED
  BY <1>1, <1>2, <1>3, PartsAfter

LEMMA RunKeeps ==
  ASSUME ProjectionInv, NEW s \in Slots, Run(s) \/ Throw(s) PROVE ProjectionInv'
<1>1. CASE WaitTimesOut(s)
  BY <1>1, FailKeeps, RunTypes DEF WaitTimesOut
<1>2. CASE Throw(s)
  <2>1. faults' \in 0..MaxFaults
    BY <1>2, RunTypes, IndexerAssumption DEF Throw
  <2> QED
    BY <1>2, <2>1, FailKeeps DEF Throw
<1> QED
  BY <1>1, <1>2, LoadVoteKeeps, SimulateKeeps, PrepareKeeps, BroadcastKeeps,
     RecordReceiptKeeps, FinalizeVoteKeeps, CompleteRunKeeps DEF Run

LEMMA EnqueueType ==
  ASSUME ProjectionInv, NEW k \in Keys, Enqueue(k)
  PROVE  jobs' \in [JobIds -> JobRow]
  BY RequeueType, InsertType, Parts DEF Enqueue, FailedRows, TableTypeOK

LEMMA RequestKeeps ==
  ASSUME ProjectionInv, NEW v \in Signers, SubmitBallot(v) \/ RetryBallot(v)
  PROVE  ProjectionInv'
<1>1. v \in Keys /\ v \in Voters
  BY IndexerAssumption DEF Voters
<1>2. TableTypeOK'
  BY <1>1, EnqueueType, Parts DEF SubmitBallot, RetryBallot, TableTypeOK
<1>3. VotesOK'
  <2>1. CASE SubmitBallot(v)
    <3>1. VoteOK(v, [NoVote EXCEPT !.status = "QUEUED", !.signed = TRUE])
      BY NoVoteOK DEF VoteOK, VoteRow, NoVote
    <3> QED
      BY <2>1, <3>1, OneVoteChanged DEF SubmitBallot
  <2>2. CASE RetryBallot(v)
    <3> DEFINE row == [votes[v] EXCEPT !.status = IF votes[v].tx = None THEN "QUEUED" ELSE "SUBMITTED"]
    <3>1. VoteOK(v, row)
      BY <1>1, Parts DEF VotesOK, VoteOK, VoteRow
    <3>2. votes' = [votes EXCEPT ![v] = row]
      BY <2>2 DEF RetryBallot
    <3> QED
      BY <3>1, <3>2, OneVoteChanged
  <2> QED
    BY <2>1, <2>2
<1>4. PassesOK' /\ ChainType' /\ RunsType' /\ Rest'
  BY SamePasses, Parts DEF SubmitBallot, RetryBallot, ChainType, RunsType, Rest
<1> QED
  BY <1>2, <1>3, <1>4, PartsAfter

LEMMA CrashKeeps ==
  ASSUME ProjectionInv, NEW w \in Workers, Crash(w) PROVE ProjectionInv'
<1>1. TableTypeOK'
  BY DieType, Parts DEF Crash, TableTypeOK
<1>2. RunsType' /\ PassesOK' /\ VotesOK'
  BY CleanupType, NoPassOK, LocalOK, SameVotes, Parts DEF Crash
<1>3. ChainType' /\ Rest'
  BY Parts, IndexerAssumption DEF Crash, ChainType, Rest
<1> QED
  BY <1>1, <1>2, <1>3, PartsAfter

LEMMA TableKeeps ==
  ASSUME ProjectionInv, Recover \/ \E j \in JobIds : Expire(j) PROVE ProjectionInv'
<1>1. TableTypeOK'
  BY RecoverType, LockType, Parts DEF Recover, Expire
<1>2. PassesOK' /\ VotesOK' /\ ChainType' /\ RunsType' /\ Rest'
  BY SamePasses, SameVotes, Parts DEF Recover, Expire, ChainType, RunsType, Rest
<1> QED
  BY <1>1, <1>2, PartsAfter

LEMMA ChainKeeps ==
  ASSUME ProjectionInv, MineBlock \/ Reorg PROVE ProjectionInv'
<1>1. ChainType'
  BY MineBlockType, ReorgType, Parts
<1>2. PassesOK' /\ VotesOK' /\ TableTypeOK' /\ RunsType' /\ Rest'
  BY SamePasses, SameVotes, Parts DEF MineBlock, Reorg, TableTypeOK, RunsType, Rest
<1> QED
  BY <1>1, <1>2, PartsAfter

LEMMA StutterKeeps == ASSUME ProjectionInv, UNCHANGED vars PROVE ProjectionInv'
  BY SamePasses, SameVotes, Parts, PartsAfter
     DEF TableTypeOK, ChainType, RunsType, Rest

LEMMA NextKeeps == ProjectionInv /\ [Next]_vars => ProjectionInv'
  BY ChainKeeps, TableKeeps, IndexKeeps, PassThrowsKeeps, CrashKeeps, StartKeeps,
     RunKeeps, RequestKeeps, StutterKeeps DEF Next

(* Type correctness of the projection, together with what makes it         *)
(* inductive: a pass only asks for blocks that are there, and only signers *)
(* have signed rows and jobs.                                              *)
THEOREM ProjectionInvariant == Spec => []ProjectionInv
  BY InitInv, NextKeeps, PTL DEF Spec

THEOREM IndexerTypeCorrect == Spec => []TypeOK
<1>1. ProjectionInv => TypeOK
  BY DEF ProjectionInv
<1> QED
  BY <1>1, ProjectionInvariant, PTL

-----------------------------------------------------------------------------
(* While no reorganisation is deeper than Confirmations, blocks that deep  *)
(* are final, and every vote in them that a pass has read stays confirmed. *)
(* This holds for any number of workers, although the property is about    *)
(* all of them sharing one cursor.                                         *)

Final == Greater(0, tip - Confirmations)

(* The votes up to block b are recorded.                                   *)
Done(b) == \A v \in Voters : castAt[v] \in 1..b => votes[v].status = "CONFIRMED"

Recorded(c) == /\ c.block <= Final /\ Done(c.block)
               /\ c.block # 0 => c.hash = hash[c.block]

(* What a pass has read is final, and it never comes to the recovery.      *)
PassFinal(p) ==
    /\ p.at \notin {"affected", "blocks", "undo"}
    /\ p.safe <= Final
    /\ p.at = "compare" => p.seen.block # 0 /\ Recorded(p.seen)
    /\ p.at \in {"logs", "end", "commit"} => Done(p.next - 1)
    /\ p.at \in {"end", "commit"} => \A v \in Voters :
            IF castAt[v] \in p.next..End(p) THEN p.logs[v].status = "CONFIRMED"
            ELSE p.logs[v] = NoVote \/ p.logs[v].status = "CONFIRMED"
    /\ p.at = "commit" => p.endHash = hash[End(p)]

FinalInv == Recorded(cursor) /\ \A w \in Workers : PassFinal(pass[w])

(* What every step leaves: final blocks and the votes recorded for them.   *)
FinalKept ==
    /\ Final <= Final'
    /\ \A b \in 1..Final : hash'[b] = hash[b]
    /\ \A v \in Voters : castAt'[v] \in 1..Final => castAt'[v] = castAt[v]
    /\ \A v \in Voters : Counted(v) /\ votes[v].status = "CONFIRMED"
                            => votes'[v].status = "CONFIRMED"

LEMMA FinalNumber == ASSUME ProjectionInv PROVE Final \in Nat /\ Final \in Heights
  BY Parts, Numbers DEF ChainType, Blocks, Heights, Final, Greater

LEMMA FinalNumberAfter == ASSUME ProjectionInv' PROVE Final' \in Nat
<1>1. tip' \in Blocks
  BY DEF ProjectionInv, TypeOK
<1>2. tip' \in Nat /\ tip' - Confirmations \in Int
  BY <1>1, IndexerAssumption DEF Blocks
<1>3. Final' = IF 0 > tip' - Confirmations THEN 0 ELSE tip' - Confirmations
  BY DEF Final, Greater
<1> QED
  BY <1>2, <1>3

LEMMA DoneStays ==
  ASSUME ProjectionInv, FinalKept, NEW b \in Int, b <= Final, Done(b)
  PROVE  Done(b)'
<1> SUFFICES ASSUME NEW v \in Voters, castAt'[v] \in 1..b
             PROVE  votes'[v].status = "CONFIRMED"
  BY DEF Done
<1>1. castAt'[v] \in 1..Final
  BY FinalNumber
<1>2. castAt'[v] = castAt[v]
  BY <1>1 DEF FinalKept
<1>3. castAt[v] # 0
  BY <1>2
<1> QED
  BY <1>2, <1>3 DEF Done, FinalKept, Counted

LEMMA RecordedStays ==
  ASSUME ProjectionInv, ProjectionInv', FinalKept, NEW c \in Cursor, Recorded(c)
  PROVE  Recorded(c)'
<1>1. c.block \in Nat
  BY Numbers DEF Cursor
<1>2. c.block <= Final'
  BY <1>1, FinalNumber, FinalNumberAfter DEF Recorded, FinalKept
<1>3. c.block # 0 => hash'[c.block] = hash[c.block]
  BY <1>1, FinalNumber DEF FinalKept, Recorded
<1>4. Done(c.block)'
  BY <1>1, DoneStays DEF Recorded
<1> QED
  BY <1>2, <1>3, <1>4 DEF Recorded

LEMMA PassFinalStays ==
  ASSUME ProjectionInv, ProjectionInv', FinalKept, NEW p, PassOK(p), PassFinal(p)
  PROVE  PassFinal(p)'
<1>1. p \in Pass /\ p.next \in Nat /\ p.safe \in Nat /\ p.seen \in Cursor
  BY Numbers DEF PassOK, Pass
<1>2. Final' \in Nat /\ Final \in Nat /\ Final <= Final'
  BY FinalNumber, FinalNumberAfter DEF FinalKept
<1>3. p.safe <= Final'
  BY <1>1, <1>2 DEF PassFinal
<1>4. p.at = "compare" => p.seen.block # 0 /\ Recorded(p.seen)'
  BY <1>1, RecordedStays DEF PassFinal
<1>5. ASSUME p.at \in {"logs", "end", "commit"}
      PROVE  p.next \in 1..p.safe /\ End(p) \in Nat /\ End(p) <= p.safe /\ End(p) \in 1..Final
  <2>1. p.next \in 1..p.safe
    BY <1>5 DEF PassOK, NextInside
  <2>2. End(p) \in Nat /\ End(p) >= p.next
    BY <1>1, <2>1, EndInside, Numbers
  <2>3. End(p) <= p.safe
    BY <1>1, <2>2, Numbers DEF End, Lesser
  <2> QED
    BY <1>1, <1>2, <2>1, <2>2, <2>3 DEF PassFinal
<1>6. p.at \in {"logs", "end", "commit"} => Done(p.next - 1)'
  <2> SUFFICES ASSUME p.at \in {"logs", "end", "commit"} PROVE Done(p.next - 1)'
    OBVIOUS
  <2>1. p.next - 1 \in Int /\ p.next - 1 <= Final
    BY <1>1, <1>2, <1>5 DEF PassFinal
  <2> QED
    BY <2>1, DoneStays DEF PassFinal
<1>7. ASSUME p.at \in {"end", "commit"}, NEW v \in Voters
      PROVE  IF castAt'[v] \in p.next..End(p) THEN p.logs[v].status = "CONFIRMED"
             ELSE p.logs[v] = NoVote \/ p.logs[v].status = "CONFIRMED"
  <2>1. p.next..End(p) \subseteq 1..Final
    BY <1>1, <1>2, <1>5, <1>7
  <2>2. castAt'[v] \in p.next..End(p) => castAt'[v] = castAt[v]
    BY <2>1 DEF FinalKept
  <2> QED
    BY <1>7, <2>2 DEF PassFinal
<1>8. p.at = "commit" => p.endHash = hash'[End(p)]
  BY <1>5 DEF FinalKept, PassFinal
<1>9. End(p)' = End(p) /\ NoVote' = NoVote
  OBVIOUS
<1> QED
  BY <1>3, <1>4, <1>6, <1>7, <1>8 DEF PassFinal

LEMMA PassFinalAs ==
  ASSUME NEW w \in Workers, NEW p, pass'[w] = p, PassFinal(p)'
  PROVE  PassFinal(pass[w])'
  BY DEF PassFinal, Recorded, Done, End

LEMMA RecordedAs ==
  ASSUME NEW c, cursor' = c, Recorded(c)'
  PROVE  Recorded(cursor)'
  BY DEF Recorded, Done

(* A step that leaves the cursor and most passes alone.                    *)
LEMMA FinalStep ==
  ASSUME ProjectionInv, ProjectionInv', FinalInv, FinalKept, UNCHANGED cursor,
         \A w \in Workers : pass'[w] = pass[w] \/ PassFinal(pass[w])'
  PROVE  FinalInv'
<1>1. Recorded(cursor)'
  <2>1. PICK c : c = cursor
    OBVIOUS
  <2>2. Recorded(c)'
    BY <2>1, RecordedStays, Parts DEF FinalInv
  <2> QED
    BY <2>1, <2>2, RecordedAs
<1>2. ASSUME NEW w \in Workers, pass'[w] = pass[w] PROVE PassFinal(pass[w])'
  <2>1. PICK p : p = pass[w]
    OBVIOUS
  <2>2. PassFinal(p)'
    BY <2>1, PassTyped, PassFinalStays DEF FinalInv
  <2> QED
    BY <1>2, <2>1, <2>2, PassFinalAs
<1> QED
  BY <1>1, <1>2 DEF FinalInv

(* The steps of a pass: final blocks keep everything, and so must the      *)
(* pass that moves.                                                        *)
LEMMA QuietKept ==
  ASSUME ProjectionInv, UNCHANGED <<tip, hash, castAt>>,
         \A v \in Voters : Counted(v) /\ votes[v].status = "CONFIRMED"
                             => votes'[v].status = "CONFIRMED"
  PROVE  FinalKept
  BY FinalNumber DEF FinalKept, Final

(* What is said of a value stays true while nothing it speaks of changes.  *)
LEMMA PassFinalUnmoved ==
  ASSUME NEW p, PassFinal(p), UNCHANGED <<tip, hash, castAt, votes>>
  PROVE  PassFinal(p)'
  BY DEF PassFinal, Recorded, Done, Final, End

LEMMA LocalFinal ==
  ASSUME ProjectionInv, ProjectionInv', FinalInv, NEW w \in Workers, NEW from, NEW p,
         Local(w, from, p), PassFinal(p)
  PROVE  FinalInv'
<1>1. FinalKept
  BY QuietKept DEF Local
<1>2. pass' = [pass EXCEPT ![w] = p]
  BY DEF Local
<1>3. PassFinal(p)'
  BY PassFinalUnmoved DEF Local
<1>4. pass \in [Workers -> Pass]
  BY Parts DEF PassesOK
<1>5. PassFinal(pass[w])'
  BY <1>2, <1>3, <1>4, PassFinalAs
<1> QED
  BY <1>1, <1>2, <1>4, <1>5, FinalStep DEF Local

LEMMA NoPassFinal == ASSUME ProjectionInv PROVE PassFinal(NoPass)
  BY FinalNumber DEF PassFinal, NoPass

(* The head of the chunk loop, when everything before it is recorded.      *)
LEMMA ChunkFinal ==
  ASSUME NEW p \in Pass, p.safe <= Final, Done(p.next - 1)
  PROVE  PassFinal(Chunk(p))
<1>1. /\ Chunk(p).at = IF p.next <= p.safe THEN "logs" ELSE "submitted"
      /\ Chunk(p).safe = p.safe /\ Chunk(p).next = p.next
  BY DEF Chunk, Pass
<1> QED
  BY <1>1 DEF PassFinal

LEMMA FinalTyped ==
  ASSUME ProjectionInv, FinalInv, NEW w \in Workers
  PROVE  /\ pass[w] \in Pass /\ pass[w].next \in Nat /\ pass[w].safe \in Nat
         /\ pass[w].safe <= Final /\ PassFinal(pass[w]) /\ NextInside(pass[w])
  BY PassTyped, Numbers DEF FinalInv, Pass, PassFinal, PassOK

LEMMA ReadTipFinal ==
  ASSUME ProjectionInv, ProjectionInv', FinalInv, NEW w \in Workers, ReadTip(w)
  PROVE  FinalInv'
<1> DEFINE p == [NoPass EXCEPT !.at = "cursor", !.safe = Final]
<1>1. PassFinal(p)
  BY FinalNumber DEF PassFinal, NoPass
<1>2. Local(w, "idle", p)
  BY DEF ReadTip, Final
<1> QED
  BY <1>1, <1>2, LocalFinal

LEMMA ReadCursorFinal ==
  ASSUME ProjectionInv, ProjectionInv', FinalInv, NEW w \in Workers, ReadCursor(w)
  PROVE  FinalInv'
<1> DEFINE first == [pass[w] EXCEPT !.next = 1]
           p == [pass[w] EXCEPT !.at = "compare", !.seen = cursor]
<1>1. CASE cursor.block = 0
  <2>1. first \in Pass /\ first.next = 1 /\ first.safe <= Final
    BY FinalTyped DEF Pass
  <2>2. Done(first.next - 1)
    BY <2>1 DEF Done
  <2>3. PassFinal(Chunk(first))
    BY <2>1, <2>2, ChunkFinal
  <2> QED
    BY <1>1, <2>3, LocalFinal DEF ReadCursor
<1>2. CASE cursor.block # 0
  <2>1. p.at = "compare" /\ p.seen = cursor /\ p.safe <= Final
    BY FinalTyped DEF Pass
  <2>2. PassFinal(p)
    BY <1>2, <2>1 DEF PassFinal, FinalInv
  <2> QED
    BY <1>2, <2>2, LocalFinal DEF ReadCursor
<1> QED
  BY <1>1, <1>2

LEMMA ResumeBefore ==
  ASSUME NEW b \in Nat, Done(b) PROVE Done(Resume(b) - 1)
<1>1. Resume(b) - 1 \in Int /\ (Resume(b) - 1 <= b)
  BY Numbers DEF Resume, Greater
<1> QED
  BY <1>1 DEF Done

LEMMA CompareCursorFinal ==
  ASSUME ProjectionInv, ProjectionInv', FinalInv, NEW w \in Workers, CompareCursor(w)
  PROVE  FinalInv'
<1> DEFINE p == [pass[w] EXCEPT !.next = Resume(pass[w].seen.block)]
<1>1. /\ pass[w].at = "compare" /\ pass[w].seen \in Cursor /\ pass[w].seen.block \in Nat
      /\ pass[w].seen.block # 0 /\ Recorded(pass[w].seen)
  BY FinalTyped, Numbers DEF CompareCursor, Local, PassFinal, Pass, Cursor
<1>2. p \in Pass /\ p.seen = pass[w].seen /\ p.safe <= Final /\ p.next = Resume(pass[w].seen.block)
  BY <1>1, FinalTyped, ResumeOK, Numbers DEF Pass, Cursor
<1>3. hash[p.seen.block] = p.seen.hash
  BY <1>1, <1>2 DEF Recorded
<1>4. Done(p.next - 1)
  BY <1>1, <1>2, ResumeBefore DEF Recorded
<1>5. PassFinal(Chunk(p))
  BY <1>2, <1>4, ChunkFinal
<1>6. Local(w, "compare", Chunk(p))
  BY <1>3 DEF CompareCursor
<1> QED
  BY <1>5, <1>6, LocalFinal

LEMMA GetLogsFinal ==
  ASSUME ProjectionInv, ProjectionInv', FinalInv, NEW w \in Workers, GetLogs(w)
  PROVE  FinalInv'
<1> DEFINE logs == [v \in Voters |->
              IF castAt[v] \in pass[w].next..End(pass[w])
              THEN [status |-> "CONFIRMED", tx |-> castBy[v], block |-> castAt[v],
                    hash |-> hash[castAt[v]], signed |-> FALSE]
              ELSE NoVote]
           p == [pass[w] EXCEPT !.at = "end", !.logs = logs]
<1>1. \A v \in Voters : IF castAt[v] \in pass[w].next..End(pass[w])
                        THEN logs[v].status = "CONFIRMED" ELSE logs[v] = NoVote
  OBVIOUS
<1>2. Local(w, "logs", p) /\ pass[w].at = "logs"
  BY DEF GetLogs, Local
<1> HIDE DEF logs
<1>3. /\ p.at = "end" /\ p.next = pass[w].next /\ p.safe = pass[w].safe /\ p.logs = logs
      /\ End(p) = End(pass[w])
  BY FinalTyped DEF Pass, End
<1>4. Done(pass[w].next - 1) /\ pass[w].safe <= Final
  BY <1>2, FinalTyped DEF PassFinal
<1> HIDE DEF p
<1>5. PassFinal(p)
  BY <1>1, <1>3, <1>4 DEF PassFinal
<1> QED
  BY <1>2, <1>5, LocalFinal

LEMMA GetEndBlockFinal ==
  ASSUME ProjectionInv, ProjectionInv', FinalInv, NEW w \in Workers, GetEndBlock(w)
  PROVE  FinalInv'
<1> DEFINE p == [pass[w] EXCEPT !.at = "commit", !.endHash = hash[End(pass[w])]]
<1>1. Local(w, "end", p) /\ pass[w].at = "end"
  BY DEF GetEndBlock, Local
<1>2. /\ p.at = "commit" /\ p.next = pass[w].next /\ p.safe = pass[w].safe /\ p.logs = pass[w].logs
      /\ End(p) = End(pass[w]) /\ p.endHash = hash[End(p)]
  BY FinalTyped DEF Pass, End
<1> HIDE DEF p
<1>3. PassFinal(p)
  BY <1>1, <1>2, FinalTyped DEF PassFinal
<1> QED
  BY <1>1, <1>3, LocalFinal

LEMMA ReadReceiptsFinal ==
  ASSUME ProjectionInv, ProjectionInv', FinalInv, NEW w \in Workers, ReadReceipts(w)
  PROVE  FinalInv'
<1>1. PICK r : \/ Local(w, "submitted", NoPass)
               \/ Local(w, "submitted", [NoPass EXCEPT !.at = "fail", !.rows = r])
  BY DEF ReadReceipts
<1>2. PassFinal([NoPass EXCEPT !.at = "fail", !.rows = r])
  BY FinalNumber DEF PassFinal, NoPass
<1> QED
  BY <1>1, <1>2, NoPassFinal, LocalFinal

(* The chunk's rows and the cursor: everything up to the new cursor is     *)
(* recorded, the old rows by Done, the new ones by the logs.               *)
LEMMA CommitChunkFinal ==
  ASSUME ProjectionInv, ProjectionInv', FinalInv, NEW w \in Workers, CommitChunk(w)
  PROVE  FinalInv'
<1>0. PICK p : p = pass[w]
  OBVIOUS
<1> DEFINE e == End(p)
           next == Chunk([p EXCEPT !.next = e + 1])
<1>1. /\ p \in Pass /\ p.at = "commit" /\ p.next \in 1..p.safe /\ p.safe \in Nat /\ p.next \in Nat
      /\ p.safe <= Final /\ PassFinal(p)
  BY <1>0, FinalTyped DEF CommitChunk, NextInside
<1>2. e \in Nat /\ e # 0 /\ e <= Final /\ e >= p.next
  <2>1. e \in Nat /\ e >= p.next /\ e # 0
    BY <1>1, EndInside, IndexerAssumption DEF Blocks
  <2>2. e <= p.safe
    BY <1>1, IndexerAssumption DEF End, Lesser
  <2> QED
    BY <1>1, <2>1, <2>2, FinalNumber
<1>3. /\ votes' = [v \in Voters |-> Upsert(votes[v], p.logs[v])]
      /\ cursor' = [block |-> e, hash |-> p.endHash]
      /\ pass' = [pass EXCEPT ![w] = next]
      /\ UNCHANGED <<tip, hash, castAt>>
  BY <1>0 DEF CommitChunk
<1> HIDE DEF e, next
<1>4. \A v \in Voters : p.logs[v] = NoVote \/ p.logs[v].status = "CONFIRMED"
  BY <1>1 DEF PassFinal
<1>5. \A v \in Voters : /\ votes[v].status = "CONFIRMED" => votes'[v].status = "CONFIRMED"
                        /\ p.logs[v].status = "CONFIRMED" => votes'[v].status = "CONFIRMED"
  <2> SUFFICES ASSUME NEW v \in Voters
               PROVE /\ votes[v].status = "CONFIRMED" => votes'[v].status = "CONFIRMED"
                     /\ p.logs[v].status = "CONFIRMED" => votes'[v].status = "CONFIRMED"
    OBVIOUS
  <2>1. votes'[v] = Upsert(votes[v], p.logs[v]) /\ p.logs[v] \in VoteRow
    BY <1>1, <1>3 DEF Pass
  <2>2. NoVote.status # "CONFIRMED"
    BY DEF NoVote
  <2>3. CASE p.logs[v] = NoVote
    BY <2>1, <2>2, <2>3 DEF Upsert
  <2>4. CASE p.logs[v] # NoVote
    <3>1. [p.logs[v] EXCEPT !.signed = votes[v].signed].status = p.logs[v].status
      BY <2>1 DEF VoteRow
    <3> QED
      BY <2>1, <2>4, <3>1, <1>4 DEF Upsert
  <2> QED
    BY <2>3, <2>4
<1>6. FinalKept
  BY <1>3, <1>5, QuietKept
<1>7. Done(e)'
  <2> SUFFICES ASSUME NEW v \in Voters, castAt[v] \in 1..e PROVE votes'[v].status = "CONFIRMED"
    BY <1>3 DEF Done
  <2>1. CASE castAt[v] \in 1..(p.next - 1)
    BY <1>1, <1>5, <2>1 DEF PassFinal, Done
  <2>2. CASE castAt[v] \in p.next..e
    BY <1>1, <1>5, <2>2 DEF PassFinal, e
  <2> QED
    BY <1>1, <1>2, <2>1, <2>2
<1>8. Final' = Final
  BY <1>3 DEF Final
<1>9. Recorded(cursor)'
  <2>1. p.endHash = hash[e]
    BY <1>1 DEF PassFinal, e
  <2>2. cursor'.block = e /\ cursor'.hash = hash'[e]
    BY <1>3, <2>1
  <2>3. \A v \in Voters : castAt'[v] \in 1..cursor'.block => votes'[v].status = "CONFIRMED"
    BY <1>7, <2>2 DEF Done
  <2> QED
    BY <1>2, <1>8, <2>2, <2>3 DEF Recorded, Done
<1>10. PassFinal(pass[w])'
  <2>1. PICK q : q = next
    OBVIOUS
  <2>2. /\ q.at = IF e + 1 <= p.safe THEN "logs" ELSE "submitted"
        /\ q.safe = p.safe /\ q.next = e + 1
    BY <2>1, <1>1, <1>2 DEF Chunk, Pass, next
  <2>3. Done(q.next - 1)'
    BY <1>2, <1>7, <2>2 DEF Done
  <2>4. PassFinal(q)'
    BY <1>1, <1>8, <2>2, <2>3 DEF PassFinal
  <2>5. pass'[w] = q
    BY <1>3, <2>1, Parts DEF PassesOK
  <2> QED
    BY <2>4, <2>5, PassFinalAs
<1>11. ASSUME NEW u \in Workers, u # w PROVE PassFinal(pass[u])'
  <2>1. PICK q : q = pass[u]
    OBVIOUS
  <2>2. PassFinal(q)'
    BY <1>6, <2>1, FinalTyped, PassTyped, PassFinalStays
  <2>3. pass'[u] = q
    BY <1>3, <1>11, <2>1, Parts DEF PassesOK
  <2> QED
    BY <2>2, <2>3, PassFinalAs
<1> QED
  BY <1>9, <1>10, <1>11 DEF FinalInv

(* Every other step leaves the cursor alone and at most ends passes.       *)
LEMMA OtherFinal ==
  ASSUME ProjectionInv, ProjectionInv', FinalInv, FinalKept, UNCHANGED cursor,
         \A w \in Workers : pass'[w] = pass[w] \/ pass'[w] = NoPass
  PROVE  FinalInv'
<1>1. PassFinal(NoPass)'
  BY FinalNumberAfter DEF PassFinal, NoPass
<1>2. ASSUME NEW w \in Workers, pass'[w] = NoPass PROVE PassFinal(pass[w])'
  BY <1>1, <1>2, PassFinalAs
<1> QED
  BY <1>2, FinalStep

LEMMA PassEnds ==
  ASSUME ProjectionInv, NEW u \in Workers, pass' = [pass EXCEPT ![u] = NoPass]
  PROVE  \A w \in Workers : pass'[w] = pass[w] \/ pass'[w] = NoPass
  BY Parts DEF PassesOK

LEMMA FailedKept ==
  ASSUME NEW row, row.status = "CONFIRMED" PROVE FailedVote(row).status = "CONFIRMED"
  BY DEF FailedVote

LEMMA FailRevertedFinal ==
  ASSUME ProjectionInv, ProjectionInv', FinalInv, NEW w \in Workers, FailReverted(w)
  PROVE  FinalInv'
<1>1. \A v \in Voters : votes[v].status = "CONFIRMED" => votes'[v].status = "CONFIRMED"
  BY FailedKept DEF FailReverted
<1>2. FinalKept
  BY <1>1, QuietKept DEF FailReverted
<1> QED
  BY <1>2, PassEnds, OtherFinal DEF FailReverted

(* The recovery is never entered.                                          *)
LEMMA IndexFinal ==
  ASSUME ProjectionInv, ProjectionInv', FinalInv, NEW w \in Workers, Index(w)
  PROVE  FinalInv'
<1>1. pass[w].at \notin {"affected", "blocks", "undo"}
  BY FinalTyped DEF PassFinal
<1>2. ~SelectAffected(w) /\ ~CompareBlocks(w) /\ ~UndoOrphaned(w)
  BY <1>1 DEF SelectAffected, CompareBlocks, UndoOrphaned, Local
<1> QED
  BY <1>2, ReadTipFinal, ReadCursorFinal, CompareCursorFinal, GetLogsFinal, GetEndBlockFinal,
     CommitChunkFinal, ReadReceiptsFinal, FailRevertedFinal DEF Index

(* The runs: only finalizeVote writes a row the chain counts, and it       *)
(* confirms it; a transaction is prepared only for a voter not counted.    *)
LEMMA OneVoteKept ==
  ASSUME ProjectionInv, UNCHANGED <<tip, hash, castAt>>, NEW k, NEW row,
         votes' = [votes EXCEPT ![k] = row],
         k \in Voters /\ Counted(k) /\ votes[k].status = "CONFIRMED" => row.status = "CONFIRMED"
  PROVE  FinalKept
<1>1. \A v \in Voters : votes'[v] = IF v = k THEN row ELSE votes[v]
  BY Parts DEF VotesOK
<1> QED
  BY <1>1, QuietKept

LEMMA FailRunFinal ==
  ASSUME ProjectionInv, ProjectionInv', FinalInv, NEW s \in Slots, NEW permanent, Fail(s, permanent)
  PROVE  FinalInv'
<1>1. FinalKept
  <2>1. CASE UNCHANGED votes
    BY <2>1, QuietKept DEF Fail
  <2>2. CASE votes' = [votes EXCEPT ![VoterOf(s)] = FailedVote(votes[VoterOf(s)])]
    BY <2>2, FailedKept, OneVoteKept DEF Fail
  <2> QED
    BY <2>1, <2>2 DEF Fail
<1>2. \A w \in Workers : pass'[w] = pass[w] \/ pass'[w] = NoPass
  BY PassEnds, JobTableAssumption DEF Fail
<1> QED
  BY <1>1, <1>2, OtherFinal DEF Fail

LEMMA RunFinal ==
  ASSUME ProjectionInv, ProjectionInv', FinalInv, NEW s \in Slots,
         Start(s) \/ Run(s) \/ Throw(s)
  PROVE  FinalInv'
<1>1. CASE \E permanent : Fail(s, permanent)
  BY <1>1, FailRunFinal
<1>2. CASE UNCHANGED <<tip, hash, castAt, votes, cursor, pass>>
  BY <1>2, QuietKept, OtherFinal
<1>3. CASE /\ Step(s, "prepare", "broadcast") /\ ~Counted(VoterOf(s))
           /\ votes' = [votes EXCEPT ![VoterOf(s)].status = "SUBMITTED",
                                     ![VoterOf(s)].tx = JobOf(s)]
  <2>1. votes' = [votes EXCEPT ![VoterOf(s)] =
                    [votes[VoterOf(s)] EXCEPT !.status = "SUBMITTED", !.tx = JobOf(s)]]
    BY <1>3, Parts DEF VotesOK
  <2>2. FinalKept
    BY <1>3, <2>1, OneVoteKept DEF Step
  <2> QED
    BY <1>3, <2>2, OtherFinal DEF Step
<1>4. CASE /\ Step(s, "finalize", "complete")
           /\ votes' = [votes EXCEPT ![VoterOf(s)] =
                         [@ EXCEPT !.status = "CONFIRMED", !.tx = JobOf(s),
                                   !.block = receipt[s], !.hash = hash[receipt[s]]]]
  <2> DEFINE k == VoterOf(s)
             row == [votes[k] EXCEPT !.status = "CONFIRMED", !.tx = JobOf(s),
                                     !.block = receipt[s], !.hash = hash[receipt[s]]]
  <2>1. k \in Voters => row.status = "CONFIRMED"
    BY Parts DEF VotesOK, VoteRow
  <2>2. votes' = [votes EXCEPT ![k] = row]
    BY <1>4
  <2>3. FinalKept
    BY <1>4, <2>1, <2>2, OneVoteKept DEF Step
  <2> QED
    BY <1>4, <2>3, OtherFinal DEF Step
<1> QED
  BY <1>1, <1>2, <1>3, <1>4
     DEF Start, Run, Throw, LoadVote, Simulate, Prepare, Broadcast, RecordReceipt, WaitTimesOut,
         FinalizeVote, CompleteRun, Step

LEMMA RequestFinal ==
  ASSUME ProjectionInv, ProjectionInv', FinalInv, NEW v \in Signers, SubmitBallot(v) \/ RetryBallot(v)
  PROVE  FinalInv'
<1>1. votes[v].status # "CONFIRMED" /\ UNCHANGED <<tip, hash, castAt, cursor, pass>>
  BY DEF SubmitBallot, RetryBallot
<1>2. \A u \in Voters : u # v => votes'[u] = votes[u]
  BY Parts DEF SubmitBallot, RetryBallot, VotesOK
<1>3. FinalKept
  BY <1>1, <1>2, QuietKept
<1> QED
  BY <1>1, <1>3, OtherFinal

LEMMA EnvironmentFinal ==
  ASSUME ProjectionInv, ProjectionInv', FinalInv,
         \/ \E w \in Workers : PassThrows(w) \/ Crash(w)
         \/ Recover \/ UNCHANGED vars
         \/ \E j \in JobIds : Expire(j)
  PROVE  FinalInv'
<1>1. UNCHANGED <<tip, hash, castAt, votes, cursor>>
  BY DEF PassThrows, Crash, Recover, Expire
<1>2. \A w \in Workers : pass'[w] = pass[w] \/ pass'[w] = NoPass
  BY PassEnds DEF PassThrows, Crash, Recover, Expire
<1> QED
  BY <1>1, <1>2, QuietKept, OtherFinal

LEMMA ChainFinal ==
  ASSUME ReorgDepth <= Confirmations, ProjectionInv, ProjectionInv', FinalInv, MineBlock \/ Reorg
  PROVE  FinalInv'
<1>1. /\ tip \in Nat /\ tip >= 1 /\ Confirmations \in Nat /\ ReorgDepth \in Nat
      /\ tip \in Blocks
  <2>1. tip \in Blocks
    BY Parts DEF ChainType
  <2> QED
    BY <2>1, IndexerAssumption DEF Blocks
<1>2. CASE MineBlock
  <2>1. tip' = tip + 1 /\ hash' = [hash EXCEPT ![tip + 1] = branch]
    BY <1>2 DEF MineBlock
  <2>2. \A v \in Voters : castAt'[v] = tip + 1 \/ castAt'[v] = castAt[v]
    BY <1>2 DEF MineBlock
  <2>3. Final <= Final' /\ Final <= tip
    BY <1>1, <2>1 DEF Final, Greater
  <2>4. \A b \in 1..Final : hash'[b] = hash[b]
    BY <1>1, <2>1, <2>3, FinalNumber, Parts DEF ChainType
  <2>5. FinalKept
    BY <1>1, <1>2, <2>2, <2>3, <2>4, FinalNumber DEF FinalKept, MineBlock
  <2> QED
    BY <1>2, <2>5, OtherFinal DEF MineBlock
<1>3. CASE Reorg
  <2>1. PICK d \in 1..Lesser(ReorgDepth, tip - 1) :
        LET from     == tip - d + 1
            orphaned == {v \in Voters : castAt[v] >= from}
            undone   == {j \in JobIds : minedAt[j] >= from}
        IN
        /\ hash' = [b \in Blocks |-> IF b \in from..tip THEN branch + 1 ELSE hash[b]]
        /\ \E at \in [orphaned -> from..tip \cup {0}] :
            /\ castAt' = [v \in Voters |-> IF v \in orphaned THEN at[v] ELSE castAt[v]]
            /\ castBy' = [v \in Voters |-> IF v \in orphaned /\ at[v] = 0
                                           THEN 0 ELSE castBy[v]]
            /\ minedAt' = [j \in JobIds |->
                    IF j \notin undone THEN minedAt[j]
                    ELSE IF jobs[j].key \in orphaned /\ castBy[jobs[j].key] = j
                    THEN at[jobs[j].key] ELSE 0]
        /\ \E kept \in SUBSET undone :
            pool' = pool \cup {j \in kept : minedAt'[j] = 0}
    BY <1>3 DEF Reorg
  <2> DEFINE from == tip - d + 1
  <2>2. from \in Nat /\ from > Final
    BY <1>1 DEF Lesser, Final, Greater
  <2>3. \A v \in Voters : castAt'[v] = castAt[v] \/ castAt'[v] \in from..tip \cup {0}
    BY <2>1
  <2> HIDE DEF from
  <2>4. \A v \in Voters : castAt'[v] \in 1..Final => castAt'[v] = castAt[v]
    BY <1>1, <2>2, <2>3, FinalNumber
  <2>5. \A b \in 1..Final : b \in Blocks /\ b \notin from..tip
    <3>1. Final \in Nat /\ Final <= MaxBlock /\ MaxBlock \in Nat
      BY FinalNumber, IndexerAssumption DEF Heights
    <3> QED
      BY <1>1, <2>2, <3>1 DEF Blocks
  <2>6. \A b \in 1..Final : hash'[b] = hash[b]
    BY <2>1, <2>5 DEF from
  <2>7. UNCHANGED <<tip, votes, cursor, pass>>
    BY <1>3 DEF Reorg
  <2>8. FinalKept
    BY <2>4, <2>6, <2>7, FinalNumber DEF FinalKept, Final
  <2> QED
    BY <2>7, <2>8, OtherFinal
<1> QED
  BY <1>2, <1>3

LEMMA InitFinal == Init => FinalInv
<1> SUFFICES ASSUME Init PROVE FinalInv
  OBVIOUS
<1>1. ProjectionInv
  BY InitInv
<1>2. Recorded(cursor)
  BY <1>1, FinalNumber DEF Init, NoPass, Recorded, Done
<1> QED
  BY <1>1, <1>2, NoPassFinal DEF Init, FinalInv

LEMMA FinalNext ==
  ASSUME ReorgDepth <= Confirmations
  PROVE  ProjectionInv /\ ProjectionInv' /\ FinalInv /\ [Next]_vars => FinalInv'
  BY ChainFinal, EnvironmentFinal, IndexFinal, RunFinal, RequestFinal DEF Next

LEMMA FinalSkipsNothing == ProjectionInv /\ FinalInv => NothingSkipped
<1> SUFFICES ASSUME ProjectionInv, FinalInv, NEW v \in Voters,
                    Counted(v), castAt[v] <= cursor.block - Overlap
             PROVE  votes[v].status = "CONFIRMED"
  BY DEF NothingSkipped
<1>1. castAt[v] \in Nat /\ castAt[v] # 0 /\ cursor.block \in Nat /\ Overlap \in Nat
  BY Parts, Numbers DEF ChainType, Cursor, Counted
<1>2. castAt[v] \in 1..cursor.block
  BY <1>1
<1> QED
  BY <1>2 DEF FinalInv, Recorded, Done

(* The cursor leaves no vote behind: with reorganisations no deeper than   *)
(* the confirmations, for any number of workers, jobs, retries, crashes    *)
(* and errors.                                                             *)
THEOREM ShallowNothingSkipped ==
  ASSUME ReorgDepth <= Confirmations
  PROVE  Spec => []NothingSkipped
<1>1. Spec => []FinalInv
  BY InitFinal, FinalNext, ProjectionInvariant, PTL DEF Spec
<1> QED
  BY <1>1, ProjectionInvariant, FinalSkipsNothing, PTL

-----------------------------------------------------------------------------
(* The recovery of one worker meets no unique index.  The first part of    *)
(* the invariant, which no number of reorganisations breaks: rows, logs    *)
(* and copies name a job of their own voter and a block of the chain, only *)
(* signed votes have jobs, and a copy is of the vote that is still there.  *)

OneWorker == \A x, y \in Workers : x = y

KeyedTx(v, tx) == tx \in JobIds => jobs[tx].key = v

Brought(v, row) ==
    /\ KeyedTx(v, row.tx)
    /\ row.status = "CONFIRMED" => row.block \in 1..tip /\ row.tx \in JobIds \cup {0}

VoteGood(v) == /\ votes[v].signed => votes[v].status # "ABSENT"
               /\ votes[v].status \in {"QUEUED", "SUBMITTED", "FAILED"} => votes[v].signed
               /\ Brought(v, votes[v])

CopyGood(v, p) ==
    /\ p.at \in {"blocks", "undo"} /\ p.rows[v] # NoVote =>
           /\ Brought(v, p.rows[v]) /\ p.rows[v].status = "CONFIRMED"
           /\ votes[v].status # "ABSENT" /\ votes[v].signed = p.rows[v].signed
    /\ p.at \in {"end", "commit"} /\ p.logs[v] # NoVote =>
           Brought(v, p.logs[v]) /\ p.logs[v].status = "CONFIRMED"

CopiesGood(w) == \A v \in Signers : CopyGood(v, pass[w])

JobsKeyed == \A j \in JobIds : jobs[j].status = "ABSENT" <=> jobs[j].key = None

SlotsKeyed == \A s \in Slots : slot[s] # Idle => jobs[slot[s].job].key # None

JobsSigned == \A j \in JobIds : jobs[j].key # None => votes[jobs[j].key].signed

BelowTip == /\ \A v \in Voters : castAt[v] <= tip
            /\ \A j \in JobIds : minedAt[j] <= tip
            /\ \A s \in Slots : receipt[s] <= tip

Ledger ==
    /\ JobsKeyed /\ SlotsKeyed /\ JobsSigned /\ BelowTip
    /\ \A v \in Signers : VoteGood(v) /\ KeyedTx(v, castBy[v])
    /\ \A v \in Signers, w \in Workers : CopyGood(v, pass[w])

(* What the steps leave.                                                   *)
KeysKept == \A j \in JobIds : jobs[j].key # None => jobs'[j].key = jobs[j].key

SameKeys == \A j \in JobIds : /\ jobs'[j].key = jobs[j].key
                              /\ jobs'[j].status = "ABSENT" <=> jobs[j].status = "ABSENT"

SlotsStay == \A s \in Slots : \/ slot'[s] = Idle \/ slot'[s] = slot[s]
                              \/ slot'[s].job \in JobIds /\ jobs[slot'[s].job].key # None

VoteStays(v) == votes[v].status # "ABSENT" =>
                    votes'[v].status # "ABSENT" /\ votes'[v].signed = votes[v].signed

VoteKept(v) == VoteGood(v)' /\ VoteStays(v)

LEMMA SignerKeys == ASSUME NEW v \in Signers PROVE v \in Keys /\ v # None /\ v \in Voters
  BY IndexerAssumption, JobTableAssumption DEF Voters

LEMMA JobTyped ==
  ASSUME ProjectionInv, NEW j \in JobIds
  PROVE  jobs[j] \in JobRow /\ jobs[j].key \in Keys \cup {None}
<1>1. jobs[j] \in JobRow
  BY Parts DEF TableTypeOK
<1> QED
  BY <1>1 DEF JobRow

LEMMA HeldJob ==
  ASSUME ProjectionInv, Ledger, NEW s \in Slots, slot[s] # Idle
  PROVE  /\ slot[s].job \in JobIds /\ jobs[slot[s].job].key \in Signers
         /\ jobs[slot[s].job].status # "ABSENT"
<1>1. slot[s].job \in JobIds
  BY SlotJob, Parts
<1> QED
  BY <1>1, JobTyped, IndexerAssumption DEF Ledger, SlotsKeyed, JobsKeyed

LEMMA BroughtStays ==
  ASSUME ProjectionInv, ProjectionInv', KeysKept, tip <= tip', NEW v \in Signers, NEW row,
         Brought(v, row)
  PROVE  Brought(v, row)'
<1>1. KeyedTx(v, row.tx)'
  BY SignerKeys DEF Brought, KeyedTx, KeysKept
<1>2. row.block \in 1..tip => row.block \in 1..tip'
  BY DEF ProjectionInv, TypeOK, Blocks
<1> QED
  BY <1>1, <1>2 DEF Brought

LEMMA CopyStays ==
  ASSUME ProjectionInv, ProjectionInv', KeysKept, tip <= tip', NEW v \in Signers, VoteStays(v),
         NEW p, CopyGood(v, p)
  PROVE  CopyGood(v, p)'
<1>1. p.at \in {"blocks", "undo"} /\ p.rows[v] # NoVote =>
           /\ Brought(v, p.rows[v])' /\ p.rows[v].status = "CONFIRMED"
           /\ votes'[v].status # "ABSENT" /\ votes'[v].signed = p.rows[v].signed
  BY BroughtStays DEF CopyGood, VoteStays
<1>2. p.at \in {"end", "commit"} /\ p.logs[v] # NoVote =>
           Brought(v, p.logs[v])' /\ p.logs[v].status = "CONFIRMED"
  BY BroughtStays DEF CopyGood
<1> QED
  BY <1>1, <1>2 DEF CopyGood

LEMMA CopyAs ==
  ASSUME NEW v, NEW w \in Workers, NEW p, pass'[w] = p, CopyGood(v, p)'
  PROVE  CopyGood(v, pass[w])'
  BY DEF CopyGood, Brought, KeyedTx

LEMMA CopyUnmoved ==
  ASSUME ProjectionInv, ProjectionInv', Ledger, KeysKept, tip <= tip', NEW v \in Signers,
         VoteStays(v), NEW w \in Workers, pass'[w] = pass[w]
  PROVE  CopyGood(v, pass[w])'
<1>1. PICK p : p = pass[w]
  OBVIOUS
<1>2. CopyGood(v, p)'
  BY <1>1, CopyStays DEF Ledger
<1> QED
  BY <1>1, <1>2, CopyAs

(* A vote that is left alone, and the transaction of a log.                *)
LEMMA VoteUnmoved ==
  ASSUME ProjectionInv, ProjectionInv', Ledger, KeysKept, tip <= tip', NEW v \in Signers,
         votes'[v] = votes[v]
  PROVE  VoteKept(v)
<1>1. PICK row : row = votes[v]
  OBVIOUS
<1>2. Brought(v, row)'
  BY <1>1, BroughtStays DEF Ledger, VoteGood
<1>3. Brought(v, votes[v])'
  BY <1>1, <1>2 DEF Brought, KeyedTx
<1> QED
  BY <1>3 DEF Ledger, VoteKept, VoteGood, VoteStays

LEMMA CastUnmoved ==
  ASSUME Ledger, KeysKept, NEW v \in Signers, castBy'[v] = castBy[v]
  PROVE  KeyedTx(v, castBy[v])'
  BY SignerKeys DEF Ledger, KeyedTx, KeysKept

(* A step that writes keys and statuses of no job.                         *)
LEMMA SteadyLedger ==
  ASSUME ProjectionInv, ProjectionInv', Ledger, SameKeys, SlotsStay, tip <= tip', BelowTip',
         \A v \in Signers : VoteKept(v) /\ KeyedTx(v, castBy[v])',
         \A w \in Workers : \/ pass'[w] = pass[w]
                            \/ CopiesGood(w)'
  PROVE  Ledger'
<1>1. KeysKept
  BY DEF SameKeys, KeysKept
<1>2. JobsKeyed'
  BY DEF SameKeys, JobsKeyed, Ledger
<1>3. SlotsKeyed'
  <2> SUFFICES ASSUME NEW s \in Slots, slot'[s] # Idle PROVE jobs'[slot'[s].job].key # None
    BY DEF SlotsKeyed
  <2>1. slot'[s].job \in JobIds /\ jobs[slot'[s].job].key # None
    BY HeldJob, JobTableAssumption DEF SlotsStay, Ledger, SlotsKeyed
  <2> QED
    BY <2>1 DEF SameKeys
<1>4. JobsSigned'
  <2> SUFFICES ASSUME NEW j \in JobIds, jobs'[j].key # None PROVE votes'[jobs'[j].key].signed
    BY DEF JobsSigned
  <2>1. jobs'[j].key = jobs[j].key /\ jobs[j].key \in Signers
    BY JobTyped, IndexerAssumption DEF SameKeys
  <2> QED
    BY <2>1 DEF Ledger, JobsSigned, VoteKept, VoteGood, VoteStays
<1>5. ASSUME NEW v \in Signers, NEW w \in Workers PROVE CopyGood(v, pass[w])'
  <2>1. CASE pass'[w] = pass[w]
    BY <1>1, <2>1, CopyUnmoved DEF VoteKept
  <2> QED
    BY <2>1 DEF CopiesGood
<1>6. \A v \in Signers : VoteGood(v)' /\ KeyedTx(v, castBy[v])'
  BY DEF VoteKept
<1> QED
  BY <1>2, <1>3, <1>4, <1>5, <1>6 DEF Ledger

(* The statements on the table write no key.                               *)
LEMMA SettleKeys ==
  ASSUME ProjectionInv, Ledger, NEW s \in Slots, slot[s] # Idle, NEW st, st # "ABSENT",
         Settle(slot[s].job, st)
  PROVE  SameKeys
<1>1. slot[s].job \in JobIds /\ jobs[slot[s].job].status # "ABSENT"
  BY HeldJob
<1>2. jobs[slot[s].job] \in JobRow
  BY <1>1, JobTyped
<1> QED
  BY <1>1, <1>2, Parts DEF Settle, SameKeys, TableTypeOK, JobRow

LEMMA EndKeys ==
  ASSUME ProjectionInv, Ledger, NEW s \in Slots, EndsRun(s)
  PROVE  SameKeys /\ SlotsStay
<1>1. slot[s] # Idle
  BY DEF EndsRun, Complete, FailRetry, FailFinal
<1>2. SlotsStay
  BY EndedSlots, Parts DEF SlotsStay
<1>3. CASE \E st : st # "ABSENT" /\ Settle(slot[s].job, st)
  BY <1>1, <1>2, <1>3, SettleKeys
<1>4. CASE UNCHANGED jobs
  BY <1>2, <1>4 DEF SameKeys
<1> QED
  BY <1>3, <1>4 DEF EndsRun, Complete, FailRetry, FailFinal, Die

LEMMA ClaimKeys ==
  ASSUME ProjectionInv, Ledger, NEW s \in Slots, Claim(s)
  PROVE  SameKeys /\ SlotsStay
<1>1. PICK j \in JobIds :
        /\ jobs[j].status = "PENDING"
        /\ jobs' = [jobs EXCEPT ![j] =
             [jobs[j] EXCEPT !.status = "RUNNING", !.attempts = Bump(jobs[j].attempts),
                             !.lockedBy = WorkerOf[s], !.fresh = TRUE]]
        /\ slot' = [slot EXCEPT ![s] = [job |-> j, attempts |-> Bump(jobs[j].attempts)]]
  BY DEF Claim
<1>2. jobs[j] \in JobRow
  BY JobTyped
<1>3. SameKeys
  BY <1>1, <1>2, Parts DEF SameKeys, TableTypeOK, JobRow
<1>4. jobs[j].key # None
  BY <1>1 DEF Ledger, JobsKeyed
<1> QED
  BY <1>1, <1>3, <1>4, Parts DEF SlotsStay, TableTypeOK

LEMMA RecoverKeys ==
  ASSUME ProjectionInv, RecoverExpired \/ \E j \in JobIds : LockExpires(j)
  PROVE  SameKeys
<1>1. \A j \in JobIds : jobs[j] \in JobRow
  BY JobTyped
<1>2. CASE RecoverExpired
  BY <1>1, <1>2 DEF RecoverExpired, Expired, SameKeys, JobRow
<1>3. ASSUME NEW j \in JobIds, LockExpires(j) PROVE SameKeys
  BY <1>1, <1>3, Parts DEF LockExpires, SameKeys, JobRow, TableTypeOK
<1> QED
  BY <1>2, <1>3

LEMMA RequeueKeys ==
  ASSUME ProjectionInv, NEW j \in JobIds, jobs[j].status # "ABSENT", Requeue(j)
  PROVE  SameKeys
<1>1. jobs[j] \in JobRow
  BY JobTyped
<1> QED
  BY <1>1, Parts DEF Requeue, SameKeys, TableTypeOK, JobRow

LEMMA SameTable == ASSUME UNCHANGED tableVars PROVE SameKeys /\ SlotsStay
  BY DEF SameKeys, SlotsStay

LEMMA SameTip ==
  ASSUME ProjectionInv, Ledger, UNCHANGED <<tip, castAt, minedAt>>,
         \A s \in Slots : receipt'[s] = receipt[s] \/ receipt'[s] <= tip
  PROVE  tip <= tip' /\ BelowTip'
<1>1. tip \in Nat
  BY Parts DEF ChainType, Blocks
<1> QED
  BY <1>1 DEF Ledger, BelowTip

(* A step that leaves the chain alone too.                                 *)
LEMMA TableLedger ==
  ASSUME ProjectionInv, ProjectionInv', Ledger, SameKeys, SlotsStay,
         UNCHANGED <<tip, castAt, castBy, minedAt>>,
         \A s \in Slots : receipt'[s] = receipt[s] \/ receipt'[s] <= tip,
         \A v \in Signers : votes'[v] = votes[v] \/ VoteKept(v),
         \A w \in Workers : \/ pass'[w] = pass[w]
                            \/ CopiesGood(w)'
  PROVE  Ledger'
<1>1. KeysKept
  BY DEF SameKeys, KeysKept
<1>2. tip <= tip' /\ BelowTip'
  BY SameTip
<1>3. \A v \in Signers : VoteKept(v) /\ KeyedTx(v, castBy[v])'
  BY <1>1, <1>2, VoteUnmoved, CastUnmoved
<1> QED
  BY <1>2, <1>3, SteadyLedger

LEMMA EmptyCopies ==
  ASSUME NEW w \in Workers, pass'[w].at \notin {"blocks", "undo", "end", "commit"}
  PROVE  CopiesGood(w)'
  BY DEF CopiesGood, CopyGood

LEMMA LocalLedger ==
  ASSUME ProjectionInv, ProjectionInv', Ledger, NEW w \in Workers, NEW from, NEW p,
         Local(w, from, p), \A v \in Signers : CopyGood(v, p)
  PROVE  Ledger'
<1>1. pass' = [pass EXCEPT ![w] = p] /\ UNCHANGED <<tableVars, chainVars, votes, receipt>>
  BY DEF Local
<1>2. pass'[w] = p /\ \A x \in Workers : x # w => pass'[x] = pass[x]
  BY <1>1, Parts DEF PassesOK
<1>3. KeysKept /\ tip <= tip' /\ \A v \in Signers : VoteStays(v)
  BY <1>1, Parts DEF KeysKept, VoteStays, ChainType, Blocks
<1>4. \A v \in Signers : CopyGood(v, p)'
  BY <1>3, CopyStays
<1>5. CopiesGood(w)'
  BY <1>2, <1>4, CopyAs DEF CopiesGood
<1>6. SameKeys /\ SlotsStay
  BY <1>1, SameTable
<1>7. \A x \in Workers : \/ pass'[x] = pass[x]
                         \/ CopiesGood(x)'
  BY <1>2, <1>5
<1>8. \A s \in Slots : receipt'[s] = receipt[s] \/ receipt'[s] <= tip
  BY <1>1
<1>9. \A v \in Signers : votes'[v] = votes[v]
  BY <1>1
<1>10. UNCHANGED <<tip, castAt, castBy, minedAt>>
  BY <1>1
<1> QED
  BY <1>6, <1>7, <1>8, <1>9, <1>10, TableLedger

LEMMA NothingHeld ==
  ASSUME NEW p, p.at \notin {"blocks", "undo", "end", "commit"}
  PROVE  \A v \in Signers : CopyGood(v, p)
  BY DEF CopyGood

LEMMA ChunkAt ==
  ASSUME NEW p \in Pass
  PROVE  Chunk(p).at \in {"logs", "submitted"}
  BY DEF Chunk, Pass

LEMMA PassLocal ==
  ASSUME ProjectionInv, NEW w \in Workers,
         ReadTip(w) \/ ReadCursor(w) \/ CompareCursor(w) \/ ReadReceipts(w)
  PROVE  \E from, p : Local(w, from, p) /\ p.at \notin {"blocks", "undo", "end", "commit"}
<1>0. pass[w] \in Pass
  BY PassTyped
<1>1. CASE ReadTip(w)
  <2>1. \A n : [NoPass EXCEPT !.at = "cursor", !.safe = n].at = "cursor"
    BY DEF NoPass
  <2> QED
    BY <1>1, <2>1 DEF ReadTip
<1>2. CASE ReadCursor(w)
  <2>1. [pass[w] EXCEPT !.next = 1] \in Pass
    BY <1>0 DEF Pass
  <2>2. Chunk([pass[w] EXCEPT !.next = 1]).at \in {"logs", "submitted"}
    BY <2>1, ChunkAt
  <2>3. [pass[w] EXCEPT !.at = "compare", !.seen = cursor].at = "compare"
    BY <1>0 DEF Pass
  <2> QED
    BY <1>2, <2>2, <2>3 DEF ReadCursor
<1>3. CASE CompareCursor(w)
  <2> DEFINE p == [pass[w] EXCEPT !.next = Resume(pass[w].seen.block)]
  <2>1. Resume(pass[w].seen.block) \in Nat
    BY <1>0, ResumeOK DEF Pass, Cursor
  <2>2. p \in Pass /\ [p EXCEPT !.at = "affected"].at = "affected"
    BY <1>0, <2>1 DEF Pass
  <2>3. Chunk(p).at \in {"logs", "submitted"}
    BY <2>2, ChunkAt
  <2> QED
    BY <1>3, <2>2, <2>3 DEF CompareCursor
<1>4. CASE ReadReceipts(w)
  <2>1. \A rows : [NoPass EXCEPT !.at = "fail", !.rows = rows].at = "fail"
    BY DEF NoPass
  <2>2. NoPass.at = "idle"
    BY DEF NoPass
  <2> QED
    BY <1>4, <2>1, <2>2 DEF ReadReceipts
<1> QED
  BY <1>1, <1>2, <1>3, <1>4

LEMMA PassLedger ==
  ASSUME ProjectionInv, ProjectionInv', Ledger, NEW w \in Workers,
         ReadTip(w) \/ ReadCursor(w) \/ CompareCursor(w) \/ ReadReceipts(w)
  PROVE  Ledger'
  BY PassLocal, NothingHeld, LocalLedger

LEMMA SelectAffectedLedger ==
  ASSUME ProjectionInv, ProjectionInv', Ledger, NEW w \in Workers, SelectAffected(w)
  PROVE  Ledger'
<1> DEFINE rows == [v \in Voters |->
                IF votes[v].status = "CONFIRMED" /\ votes[v].block >= pass[w].next
                THEN votes[v] ELSE NoVote]
           p == [pass[w] EXCEPT !.at = "blocks", !.rows = rows]
<1>1. pass[w] \in Pass
  BY PassTyped
<1>2. p.at = "blocks" /\ p.rows = rows
  BY <1>1 DEF Pass
<1>3. Local(w, "affected", p)
  BY DEF SelectAffected
<1>4. ASSUME NEW v \in Signers PROVE CopyGood(v, p)
  <2>1. rows[v] # NoVote => rows[v] = votes[v] /\ votes[v].status = "CONFIRMED"
    BY SignerKeys
  <2>2. VoteGood(v)
    BY DEF Ledger
  <2> HIDE DEF p, rows
  <2> QED
    BY <1>2, <2>1, <2>2 DEF CopyGood, VoteGood
<1> HIDE DEF p
<1> QED
  BY <1>3, <1>4, LocalLedger

LEMMA CompareBlocksLedger ==
  ASSUME ProjectionInv, ProjectionInv', Ledger, NEW w \in Workers, CompareBlocks(w)
  PROVE  Ledger'
<1> DEFINE orphaned == {v \in Voters : pass[w].rows[v] # NoVote
                          /\ hash[pass[w].rows[v].block] # pass[w].rows[v].hash}
           rows == [v \in Voters |-> IF v \in orphaned THEN pass[w].rows[v] ELSE NoVote]
           p == [pass[w] EXCEPT !.at = "undo", !.rows = rows]
<1>1. pass[w] \in Pass /\ pass[w].at = "blocks"
  BY PassTyped DEF CompareBlocks, Local
<1>2. p.at = "undo" /\ p.rows = rows
  BY <1>1 DEF Pass
<1>3. Local(w, "blocks", IF orphaned = {} THEN Chunk(pass[w]) ELSE p)
  BY DEF CompareBlocks
<1>4. ASSUME NEW v \in Signers PROVE CopyGood(v, p)
  <2>1. rows[v] # NoVote => rows[v] = pass[w].rows[v]
    BY SignerKeys
  <2>2. CopyGood(v, pass[w])
    BY DEF Ledger
  <2> HIDE DEF p, rows
  <2> QED
    BY <1>1, <1>2, <2>1, <2>2 DEF CopyGood
<1>5. \A v \in Signers : CopyGood(v, Chunk(pass[w]))
  BY <1>1, ChunkAt, NothingHeld
<1> HIDE DEF p, orphaned
<1> QED
  BY <1>3, <1>4, <1>5, LocalLedger

LEMMA GetLogsLedger ==
  ASSUME ProjectionInv, ProjectionInv', Ledger, NEW w \in Workers, GetLogs(w)
  PROVE  Ledger'
<1> DEFINE log(v) == [status |-> "CONFIRMED", tx |-> castBy[v], block |-> castAt[v],
                      hash |-> hash[castAt[v]], signed |-> FALSE]
           logs == [v \in Voters |->
                IF castAt[v] \in pass[w].next..End(pass[w]) THEN log(v) ELSE NoVote]
           p == [pass[w] EXCEPT !.at = "end", !.logs = logs]
<1>1. pass[w] \in Pass /\ pass[w].next \in 1..pass[w].safe
  BY PassTyped DEF GetLogs, Local, PassOK, NextInside
<1>2. p.at = "end" /\ p.logs = logs
  BY <1>1 DEF Pass
<1>3. Local(w, "logs", p)
  BY DEF GetLogs
<1>4. ASSUME NEW v \in Signers PROVE CopyGood(v, p)
  <2>1. v \in Voters /\ KeyedTx(v, castBy[v]) /\ castAt[v] <= tip
        /\ castBy[v] \in JobIds \cup {0} /\ castAt[v] \in Nat /\ tip \in Nat
    BY SignerKeys, Parts, Numbers DEF Ledger, BelowTip, ChainType, Blocks
  <2>2. castAt[v] \in pass[w].next..End(pass[w]) => castAt[v] \in 1..tip
    BY <1>1, <2>1, Numbers DEF Pass
  <2>3. log(v).tx = castBy[v] /\ log(v).block = castAt[v] /\ log(v).status = "CONFIRMED"
    OBVIOUS
  <2>4. castAt[v] \in 1..tip => Brought(v, log(v))
    BY <2>1, <2>3 DEF Brought
  <2>5. logs[v] # NoVote => logs[v] = log(v) /\ castAt[v] \in pass[w].next..End(pass[w])
    BY <2>1
  <2> HIDE DEF p, logs, log
  <2> QED
    BY <1>2, <2>2, <2>3, <2>4, <2>5 DEF CopyGood
<1> HIDE DEF p
<1> QED
  BY <1>3, <1>4, LocalLedger

LEMMA GetEndBlockLedger ==
  ASSUME ProjectionInv, ProjectionInv', Ledger, NEW w \in Workers, GetEndBlock(w)
  PROVE  Ledger'
<1> DEFINE p == [pass[w] EXCEPT !.at = "commit", !.endHash = hash[End(pass[w])]]
<1>1. pass[w] \in Pass /\ pass[w].at = "end"
  BY PassTyped DEF GetEndBlock, Local
<1>2. p.at = "commit" /\ p.logs = pass[w].logs
  BY <1>1 DEF Pass
<1>3. Local(w, "end", p)
  BY DEF GetEndBlock
<1> HIDE DEF p
<1>4. \A v \in Signers : CopyGood(v, p)
  BY <1>1, <1>2 DEF CopyGood, Ledger
<1> QED
  BY <1>3, <1>4, LocalLedger

(* Steps of a pass that write votes.                                       *)
LEMMA VotesLedger ==
  ASSUME ProjectionInv, ProjectionInv', Ledger, UNCHANGED <<tableVars, chainVars, receipt>>,
         \A v \in Signers : votes'[v] = votes[v] \/ VoteKept(v),
         NEW w \in Workers, NEW p, p.at \notin {"blocks", "undo", "end", "commit"},
         pass' = [pass EXCEPT ![w] = p]
  PROVE  Ledger'
<1>1. pass'[w] = p /\ \A x \in Workers : x # w => pass'[x] = pass[x]
  BY Parts DEF PassesOK
<1>2. CopiesGood(w)'
  BY <1>1, EmptyCopies
<1>3. SameKeys /\ SlotsStay
  BY SameTable
<1>4. \A x \in Workers : pass'[x] = pass[x] \/ CopiesGood(x)'
  BY <1>1, <1>2
<1>5. \A s \in Slots : receipt'[s] = receipt[s] \/ receipt'[s] <= tip
  OBVIOUS
<1>6. UNCHANGED <<tip, castAt, castBy, minedAt>>
  OBVIOUS
<1> QED
  BY <1>3, <1>4, <1>5, <1>6, TableLedger

LEMMA CommitChunkLedger ==
  ASSUME ProjectionInv, ProjectionInv', Ledger, NEW w \in Workers, CommitChunk(w)
  PROVE  Ledger'
<1> DEFINE p == pass[w]
           q == [p EXCEPT !.next = End(p) + 1]
<1>1. p \in Pass /\ p.at = "commit" /\ p.next \in 1..p.safe
  BY PassTyped DEF CommitChunk, PassOK, NextInside
<1>2. q \in Pass
  <2>1. End(p) \in Nat
    BY <1>1, EndInside, Numbers
  <2> QED
    BY <1>1, <2>1 DEF Pass
<1>3. Chunk(q).at \in {"logs", "submitted"}
  BY <1>2, ChunkAt
<1>4. ASSUME NEW v \in Signers PROVE votes'[v] = votes[v] \/ VoteKept(v)
  <2>1. votes'[v] = Upsert(votes[v], p.logs[v])
    BY SignerKeys DEF CommitChunk
  <2>2. CASE p.logs[v] = NoVote
    BY <2>1, <2>2 DEF Upsert
  <2>3. CASE p.logs[v] # NoVote
    <3>1. p.logs[v] \in VoteRow
      BY <1>1, SignerKeys DEF Pass
    <3>2. /\ votes'[v].status = p.logs[v].status /\ votes'[v].signed = votes[v].signed
          /\ votes'[v].tx = p.logs[v].tx /\ votes'[v].block = p.logs[v].block
      BY <2>1, <2>3, <3>1 DEF Upsert, VoteRow
    <3>3. p.logs[v].status = "CONFIRMED" /\ Brought(v, p.logs[v])
      BY <1>1, <2>3 DEF Ledger, CopyGood
    <3>4. UNCHANGED <<jobs, tip>>
      BY DEF CommitChunk
    <3> QED
      BY <3>2, <3>3, <3>4 DEF VoteKept, VoteGood, VoteStays, Brought, KeyedTx
  <2> QED
    BY <2>2, <2>3
<1>5. pass' = [pass EXCEPT ![w] = Chunk(q)] /\ UNCHANGED <<tableVars, chainVars, receipt>>
  BY DEF CommitChunk
<1> HIDE DEF q
<1> QED
  BY <1>3, <1>4, <1>5, VotesLedger

LEMMA FailedVoteKept ==
  ASSUME ProjectionInv, Ledger, NEW v \in Signers, votes'[v] = FailedVote(votes[v]),
         UNCHANGED tip, SameKeys
  PROVE  VoteKept(v)
<1>1. votes[v] \in VoteRow /\ VoteGood(v)
  BY SignerKeys, Parts DEF VotesOK, Ledger
<1>2. /\ votes'[v].signed = votes[v].signed /\ votes'[v].tx = votes[v].tx
      /\ votes'[v].block = votes[v].block
      /\ votes'[v].status = "ABSENT" <=> votes[v].status = "ABSENT"
      /\ votes'[v].status = "CONFIRMED" => votes[v].status = "CONFIRMED"
      /\ votes'[v].status \in {"QUEUED", "SUBMITTED", "FAILED"} =>
            votes[v].status \in {"QUEUED", "SUBMITTED", "FAILED"}
  BY <1>1 DEF FailedVote, VoteRow
<1>3. KeyedTx(v, votes[v].tx)'
  BY <1>1, <1>2 DEF SameKeys, VoteGood, Brought, KeyedTx
<1> QED
  BY <1>1, <1>2, <1>3 DEF VoteKept, VoteGood, VoteStays, Brought

LEMMA FailRevertedLedger ==
  ASSUME ProjectionInv, ProjectionInv', Ledger, NEW w \in Workers, FailReverted(w)
  PROVE  Ledger'
<1>1. SameKeys /\ UNCHANGED tip
  BY SameTable DEF FailReverted
<1>2. ASSUME NEW v \in Signers PROVE votes'[v] = votes[v] \/ VoteKept(v)
  <2>1. votes'[v] = votes[v] \/ votes'[v] = FailedVote(votes[v])
    BY SignerKeys DEF FailReverted
  <2> QED
    BY <1>1, <2>1, FailedVoteKept
<1>3. NoPass.at = "idle"
  BY DEF NoPass
<1> QED
  BY <1>2, <1>3, VotesLedger DEF FailReverted

LEMMA PassThrowsLedger ==
  ASSUME ProjectionInv, ProjectionInv', Ledger, NEW w \in Workers, PassThrows(w)
  PROVE  Ledger'
<1>1. NoPass.at = "idle"
  BY DEF NoPass
<1>2. \A v \in Signers : votes'[v] = votes[v]
  BY DEF PassThrows
<1> QED
  BY <1>1, <1>2, VotesLedger DEF PassThrows

(* What the recovery does to the jobs: it touches those of the votes it    *)
(* undoes and no others.                                                   *)
Taken(w, v) == v \in Signers /\ pass[w].rows[v] # NoVote /\ pass[w].rows[v].signed

LEMMA UndoJobs ==
  ASSUME ProjectionInv, Ledger, NEW w \in Workers, UndoOrphaned(w), NEW j \in JobIds
  PROVE  \/ jobs'[j] = jobs[j]
         \/ /\ Taken(w, jobs[j].key) /\ jobs'[j].key = jobs[j].key
            /\ jobs'[j].status = "PENDING"
         \/ /\ jobs[j].status = "ABSENT" /\ Taken(w, jobs'[j].key)
            /\ jobs'[j].status = "PENDING"
<1> DEFINE copy     == pass[w].rows
           orphaned == {v \in Voters : copy[v] # NoVote}
           missing  == {v \in orphaned : /\ copy[v].signed /\ copy[v].tx = 0
                                         /\ ActiveRows(v) = {}}
<1>1. PassOK(pass[w]) /\ pass[w].at = "undo" /\ pass[w] \in Pass
  BY PassTyped DEF UndoOrphaned
<1>2. PICK new \in [missing -> {i \in JobIds : jobs[i].status = "ABSENT"}] :
        jobs' = [i \in JobIds |->
                   IF \E v \in missing : new[v] = i
                   THEN NewRow(CHOOSE v \in missing : new[v] = i)
                   ELSE Requeued(Resent(copy))[i]]
  BY DEF UndoOrphaned
<1>3. \A v \in missing : Taken(w, v) /\ jobs[new[v]].status = "ABSENT"
  BY <1>1 DEF Taken, PassOK
<1> HIDE DEF missing
<1>4. CASE \E v \in missing : new[v] = j
  <2>1. PICK v : v = CHOOSE u \in missing : new[u] = j
    OBVIOUS
  <2>2. v \in missing /\ new[v] = j
    BY <1>4, <2>1
  <2>3. jobs'[j] = NewRow(v)
    BY <1>2, <1>4, <2>1
  <2>4. jobs'[j].key = v /\ jobs'[j].status = "PENDING"
    BY <2>3 DEF NewRow, NoRow
  <2> QED
    BY <1>3, <2>2, <2>4
<1>5. CASE ~\E v \in missing : new[v] = j
  <2>1. jobs'[j] = Requeued(Resent(copy))[j]
    BY <1>2, <1>5
  <2>2. CASE j \notin Resent(copy)
    BY <2>1, <2>2 DEF Requeued
  <2>3. CASE j \in Resent(copy)
    <3>1. PICK v \in Voters : copy[v].signed /\ copy[v].tx = j
      BY <2>3 DEF Resent
    <3>2. v \in Signers /\ copy[v] # NoVote
      BY <1>1, <3>1, NoVoteOK DEF PassOK
    <3>3. jobs[j].key = v
      BY <1>1, <3>1, <3>2 DEF Ledger, CopyGood, Brought, KeyedTx
    <3>4. jobs'[j].key = jobs[j].key /\ jobs'[j].status = "PENDING"
      <4>1. jobs[j] \in JobRow
        BY JobTyped
      <4> QED
        BY <2>1, <2>3, <4>1 DEF Requeued, JobRow
    <3> QED
      BY <3>1, <3>2, <3>3, <3>4 DEF Taken
  <2> QED
    BY <2>2, <2>3
<1> QED
  BY <1>4, <1>5

LEMMA UndoVotes ==
  ASSUME ProjectionInv, Ledger, NEW w \in Workers, UndoOrphaned(w), KeysKept,
         NEW v \in Signers, pass[w].rows[v] # NoVote
  PROVE  /\ VoteGood(v)' /\ votes'[v].signed = votes[v].signed
         /\ votes[v].signed = pass[w].rows[v].signed /\ votes'[v].status # "CONFIRMED"
<1> DEFINE copy == pass[w].rows[v]
<1>1. /\ votes'[v] = Undone(votes[v], copy) /\ UNCHANGED tip /\ pass[w].at = "undo"
  BY SignerKeys DEF UndoOrphaned
<1>2. /\ votes[v].signed = copy.signed /\ votes[v].status # "ABSENT"
      /\ KeyedTx(v, votes[v].tx) /\ votes[v] \in VoteRow
  BY <1>1, SignerKeys, Parts DEF Ledger, CopyGood, VoteGood, Brought, VotesOK
<1>3. CASE ~copy.signed
  <2>1. votes'[v] = NoVote
    BY <1>1, <1>3 DEF Undone
  <2>2. votes'[v].tx = None /\ votes'[v].signed = FALSE /\ votes'[v].status = "ABSENT"
    BY <2>1 DEF NoVote
  <2>3. votes[v].signed = FALSE
    BY <1>2, <1>3 DEF VoteRow
  <2>4. VoteGood(v)'
    BY <2>2, JobTableAssumption DEF VoteGood, Brought, KeyedTx
  <2> QED
    BY <1>2, <2>2, <2>3, <2>4
<1>4. CASE copy.signed
  <2>1. /\ votes'[v].signed = votes[v].signed /\ votes'[v].status \in {"QUEUED", "SUBMITTED"}
        /\ votes'[v].tx = None \/ votes'[v].tx = votes[v].tx
    BY <1>1, <1>2, <1>4 DEF Undone, VoteRow
  <2>2. KeyedTx(v, votes[v].tx)'
    BY <1>2, <2>1, SignerKeys, JobTableAssumption DEF KeyedTx, KeysKept
  <2> QED
    BY <1>2, <1>4, <2>1, <2>2 DEF VoteGood, Brought
<1> QED
  BY <1>3, <1>4

LEMMA UndoOrphanedLedger ==
  ASSUME ProjectionInv, ProjectionInv', Ledger, OneWorker, NEW w \in Workers, UndoOrphaned(w)
  PROVE  Ledger'
<1>1. pass[w] \in Pass
  BY PassTyped
<1>2. KeysKept
  BY UndoJobs DEF KeysKept, Ledger, JobsKeyed
<1>3. JobsKeyed'
  <2> SUFFICES ASSUME NEW j \in JobIds
               PROVE  jobs'[j].status = "ABSENT" <=> jobs'[j].key = None
    BY DEF JobsKeyed
  <2> QED
    BY UndoJobs, SignerKeys DEF Ledger, JobsKeyed, Taken
<1>4. \A v \in Signers : VoteGood(v)' /\ (votes[v].signed => votes'[v].signed)
  <2> SUFFICES ASSUME NEW v \in Signers
               PROVE  VoteGood(v)' /\ (votes[v].signed => votes'[v].signed)
    OBVIOUS
  <2>1. CASE pass[w].rows[v] # NoVote
    BY <1>2, <2>1, UndoVotes
  <2>2. CASE pass[w].rows[v] = NoVote
    <3>1. votes'[v] = votes[v] /\ tip' = tip /\ tip <= tip'
      BY <2>2, SignerKeys, Parts DEF UndoOrphaned, ChainType, Blocks
    <3>2. VoteKept(v)
      BY <1>2, <3>1, VoteUnmoved
    <3> QED
      BY <3>1, <3>2 DEF VoteKept
  <2> QED
    BY <2>1, <2>2
<1>5. SlotsKeyed'
  <2> SUFFICES ASSUME NEW s \in Slots, slot[s] # Idle PROVE jobs'[slot[s].job].key # None
    BY DEF SlotsKeyed, UndoOrphaned
  <2> QED
    BY <1>2, HeldJob, SignerKeys DEF KeysKept
<1>6. JobsSigned'
  <2> SUFFICES ASSUME NEW j \in JobIds, jobs'[j].key # None PROVE votes'[jobs'[j].key].signed
    BY DEF JobsSigned
  <2>1. CASE jobs[j].key # None
    <3>1. jobs[j].key \in Signers /\ jobs'[j].key = jobs[j].key
      BY <1>2, <2>1, JobTyped, IndexerAssumption DEF KeysKept
    <3> QED
      BY <1>4, <2>1, <3>1 DEF Ledger, JobsSigned
  <2>2. CASE jobs[j].key = None
    <3>1. Taken(w, jobs'[j].key)
      BY <2>2, UndoJobs
    <3> QED
      BY <1>2, <3>1, UndoVotes DEF Taken
  <2> QED
    BY <2>1, <2>2
<1>7. BelowTip'
  BY DEF Ledger, BelowTip, UndoOrphaned
<1>8. \A v \in Signers : KeyedTx(v, castBy[v])'
  BY <1>2, CastUnmoved DEF UndoOrphaned
<1>9. \A v \in Signers, x \in Workers : CopyGood(v, pass[x])'
  <2>1. \A x \in Workers : x = w
    BY DEF OneWorker
  <2>2. pass'[w] = Chunk(pass[w])
    BY Parts DEF UndoOrphaned, PassesOK
  <2>3. pass'[w].at \in {"logs", "submitted"}
    BY <1>1, <2>2, ChunkAt
  <2> QED
    BY <2>1, <2>3, EmptyCopies DEF CopiesGood
<1> QED
  BY <1>3, <1>4, <1>5, <1>6, <1>7, <1>8, <1>9 DEF Ledger

(* The runs.                                                               *)
LEMMA QuietVotes ==
  ASSUME ProjectionInv, ProjectionInv', Ledger, SameKeys, SlotsStay,
         UNCHANGED <<tip, castAt, castBy, minedAt, votes>>,
         \A s \in Slots : receipt'[s] = receipt[s] \/ receipt'[s] <= tip,
         \A w \in Workers : pass'[w] = pass[w] \/ pass'[w] = NoPass
  PROVE  Ledger'
<1>1. \A v \in Signers : votes'[v] = votes[v] \/ VoteKept(v)
  OBVIOUS
<1>2. \A w \in Workers : pass'[w] = pass[w] \/ CopiesGood(w)'
  BY EmptyCopies DEF NoPass
<1>3. UNCHANGED <<tip, castAt, castBy, minedAt>>
  OBVIOUS
<1> QED
  BY <1>1, <1>2, <1>3, TableLedger

LEMMA CleanReceipts ==
  ASSUME ProjectionInv, Cleanup
  PROVE  \A s \in Slots : receipt'[s] = receipt[s] \/ receipt'[s] <= tip
<1>1. tip \in Nat
  BY Parts DEF ChainType, Blocks
<1> QED
  BY <1>1 DEF Cleanup

LEMMA OneVoteKeeps ==
  ASSUME ProjectionInv, ProjectionInv', Ledger, NEW s \in Slots, slot[s] # Idle,
         SameKeys, SlotsStay, UNCHANGED <<tip, castAt, castBy, minedAt>>,
         \A t \in Slots : receipt'[t] = receipt[t] \/ receipt'[t] <= tip,
         \A v \in Signers : v # VoterOf(s) => votes'[v] = votes[v],
         VoterOf(s) \in Signers => VoteKept(VoterOf(s)),
         \A w \in Workers : pass'[w] = pass[w] \/ pass'[w] = NoPass
  PROVE  Ledger'
<1>1. \A v \in Signers : votes'[v] = votes[v] \/ VoteKept(v)
  OBVIOUS
<1>2. \A w \in Workers : pass'[w] = pass[w] \/ CopiesGood(w)'
  BY EmptyCopies DEF NoPass
<1> QED
  BY <1>1, <1>2, TableLedger

LEMMA FailLedger ==
  ASSUME ProjectionInv, ProjectionInv', Ledger, NEW s \in Slots, NEW permanent,
         Fail(s, permanent)
  PROVE  Ledger'
<1>1. slot[s] # Idle /\ EndsRun(s)
  BY DEF Fail, FailFinal, FailRetry, EndsRun
<1>2. SameKeys /\ SlotsStay
  BY <1>1, EndKeys
<1>3. UNCHANGED <<tip, castAt, castBy, minedAt>>
  BY DEF Fail
<1>4. \A t \in Slots : receipt'[t] = receipt[t] \/ receipt'[t] <= tip
  BY CleanReceipts DEF Fail
<1>5. \A w \in Workers : pass'[w] = pass[w] \/ pass'[w] = NoPass
  <2>1. CASE UNCHANGED pass
    BY <2>1
  <2>2. CASE pass' = [pass EXCEPT ![WorkerOf[s]] = NoPass]
    BY <2>2, Parts DEF PassesOK
  <2> QED
    BY <2>1, <2>2 DEF Fail
<1>6. CASE UNCHANGED votes
  BY <1>2, <1>3, <1>4, <1>5, <1>6, QuietVotes
<1>7. CASE votes' = [votes EXCEPT ![VoterOf(s)] = FailedVote(votes[VoterOf(s)])]
  <2>1. \A v \in Signers : votes'[v] = IF v = VoterOf(s) THEN FailedVote(votes[v]) ELSE votes[v]
    BY <1>7, SignerKeys, Parts DEF VotesOK
  <2>2. VoterOf(s) \in Signers => VoteKept(VoterOf(s))
    BY <1>2, <1>3, <2>1, FailedVoteKept
  <2> QED
    BY <1>1, <1>2, <1>3, <1>4, <1>5, <2>1, <2>2, OneVoteKeeps
<1> QED
  BY <1>6, <1>7 DEF Fail

LEMMA StepLedger ==
  ASSUME ProjectionInv, ProjectionInv', Ledger, NEW s \in Slots, NEW from, NEW to,
         Step(s, from, to),
         \A t \in Slots : receipt'[t] = receipt[t] \/ receipt'[t] <= tip,
         UNCHANGED votes \/ \E row : /\ votes' = [votes EXCEPT ![VoterOf(s)] = row]
                                     /\ VoterOf(s) \in Signers =>
                                          /\ row.signed = votes[VoterOf(s)].signed
                                          /\ row.status # "ABSENT"
                                          /\ Brought(VoterOf(s), row)
  PROVE  Ledger'
<1>1. slot[s] # Idle /\ UNCHANGED <<jobs, slot, tip, castAt, castBy, minedAt, pass>>
  BY DEF Step, At
<1>2. SameKeys /\ SlotsStay
  BY <1>1, SameTable
<1>3. CASE UNCHANGED votes
  BY <1>1, <1>2, <1>3, QuietVotes
<1>4. ASSUME NEW row, votes' = [votes EXCEPT ![VoterOf(s)] = row],
             VoterOf(s) \in Signers => /\ row.signed = votes[VoterOf(s)].signed
                                       /\ row.status # "ABSENT"
                                       /\ Brought(VoterOf(s), row)
      PROVE  Ledger'
  <2>1. \A v \in Signers : votes'[v] = IF v = VoterOf(s) THEN row ELSE votes[v]
    BY <1>4, SignerKeys, Parts DEF VotesOK
  <2>2. VoterOf(s) \in Signers => VoteKept(VoterOf(s))
    <3> SUFFICES ASSUME NEW v \in Signers, v = VoterOf(s) PROVE VoteKept(v)
      OBVIOUS
    <3>1. votes'[v] = row /\ Brought(v, row) /\ row.status # "ABSENT"
          /\ row.signed = votes[v].signed
      BY <1>4, <2>1
    <3>2. Brought(v, votes[v])'
      BY <1>1, <3>1 DEF Brought, KeyedTx
    <3>3. votes[v].signed
      BY <1>1, HeldJob, SignerKeys DEF Ledger, JobsSigned, VoterOf, JobOf
    <3> QED
      BY <3>1, <3>2, <3>3 DEF VoteKept, VoteGood, VoteStays
  <2>3. \A v \in Signers : v # VoterOf(s) => votes'[v] = votes[v]
    BY <2>1
  <2>4. UNCHANGED <<tip, castAt, castBy, minedAt>> /\ \A w \in Workers : pass'[w] = pass[w]
    BY <1>1
  <2> QED
    BY <1>1, <1>2, <2>2, <2>3, <2>4, OneVoteKeeps
<1> QED
  BY <1>3, <1>4

LEMMA StartLedger ==
  ASSUME ProjectionInv, ProjectionInv', Ledger, NEW s \in Slots, Start(s)
  PROVE  Ledger'
<1>1. SameKeys /\ SlotsStay
  BY ClaimKeys DEF Start
<1>2. UNCHANGED <<tip, castAt, castBy, minedAt, votes, receipt, pass>>
  BY DEF Start
<1> QED
  BY <1>1, <1>2, QuietVotes

LEMMA PrepareLedger ==
  ASSUME ProjectionInv, ProjectionInv', Ledger, NEW s \in Slots, Prepare(s)
  PROVE  Ledger'
<1>1. CASE Step(s, "prepare", "broadcast") /\ UNCHANGED <<votes, outbox, pool, receipt>>
  BY <1>1, StepLedger
<1>2. CASE /\ Step(s, "prepare", "broadcast") /\ UNCHANGED <<pool, receipt>>
           /\ votes' = [votes EXCEPT ![VoterOf(s)].status = "SUBMITTED",
                                     ![VoterOf(s)].tx = JobOf(s)]
  <2> DEFINE k == VoterOf(s)
             row == [votes[k] EXCEPT !.status = "SUBMITTED", !.tx = JobOf(s)]
  <2>1. votes' = [votes EXCEPT ![k] = row]
    BY <1>2
  <2>2. k \in Signers => votes[k] \in VoteRow
    BY SignerKeys, Parts DEF VotesOK
  <2>3. k \in Signers => /\ row.signed = votes[k].signed
                         /\ row.status = "SUBMITTED" /\ row.tx = JobOf(s)
    BY <2>2 DEF VoteRow
  <2>4. k \in Signers => Brought(k, row)
    BY <2>3 DEF Brought, KeyedTx, VoterOf
  <2> QED
    BY <1>2, <2>1, <2>3, <2>4, StepLedger
<1>3. CASE Fail(s, FALSE)
  BY <1>3, FailLedger
<1> QED
  BY <1>1, <1>2, <1>3 DEF Prepare

LEMMA RecordReceiptLedger ==
  ASSUME ProjectionInv, ProjectionInv', Ledger, NEW s \in Slots, RecordReceipt(s)
  PROVE  Ledger'
<1>1. CASE /\ Step(s, "wait", "finalize") /\ UNCHANGED votes
           /\ receipt' = [receipt EXCEPT ![s] = minedAt[JobOf(s)]]
  <2>1. JobOf(s) \in JobIds
    BY <1>1, RunJob DEF Step
  <2>2. \A t \in Slots : receipt'[t] = receipt[t] \/ receipt'[t] <= tip
    BY <1>1, <2>1, RunTypes DEF Ledger, BelowTip
  <2> QED
    BY <1>1, <2>2, StepLedger
<1>2. CASE UNCHANGED <<tableVars, chainVars, votes, cursor, pass, receipt, faults>>
  <2>1. SameKeys /\ SlotsStay
    BY <1>2, SameTable
  <2> QED
    BY <1>2, <2>1, QuietVotes
<1> QED
  BY <1>1, <1>2 DEF RecordReceipt

LEMMA FinalizeVoteLedger ==
  ASSUME ProjectionInv, ProjectionInv', Ledger, NEW s \in Slots, FinalizeVote(s)
  PROVE  Ledger'
<1>1. CASE /\ receipt[s] # 0
           /\ Step(s, "finalize", "complete")
           /\ votes' = [votes EXCEPT ![VoterOf(s)] =
                         [@ EXCEPT !.status = "CONFIRMED", !.tx = JobOf(s),
                                   !.block = receipt[s], !.hash = hash[receipt[s]]]]
           /\ UNCHANGED <<outbox, pool, receipt>>
  <2> DEFINE k == VoterOf(s)
             row == [votes[k] EXCEPT !.status = "CONFIRMED", !.tx = JobOf(s),
                                     !.block = receipt[s], !.hash = hash[receipt[s]]]
  <2>1. votes' = [votes EXCEPT ![k] = row]
    BY <1>1
  <2>2. k \in Signers => votes[k] \in VoteRow
    BY SignerKeys, Parts DEF VotesOK
  <2>3. k \in Signers => /\ row.signed = votes[k].signed /\ row.status = "CONFIRMED"
                         /\ row.tx = JobOf(s) /\ row.block = receipt[s]
    BY <2>2 DEF VoteRow
  <2>4. JobOf(s) \in JobIds
    BY <1>1, RunJob DEF Step
  <2>5. receipt[s] \in 1..tip
    BY <1>1, Parts, Numbers DEF Ledger, BelowTip, RunsType, ChainType, Blocks
  <2>6. k \in Signers => Brought(k, row)
    BY <2>3, <2>4, <2>5 DEF Brought, KeyedTx, VoterOf
  <2> QED
    BY <1>1, <2>1, <2>3, <2>6, StepLedger
<1>2. CASE Fail(s, TRUE)
  BY <1>2, FailLedger
<1> QED
  BY <1>1, <1>2 DEF FinalizeVote

LEMMA RunLedger ==
  ASSUME ProjectionInv, ProjectionInv', Ledger, NEW s \in Slots, Run(s) \/ Throw(s)
  PROVE  Ledger'
<1>1. CASE LoadVote(s)
  BY <1>1, StepLedger DEF LoadVote
<1>2. CASE Simulate(s)
  BY <1>2, StepLedger, FailLedger DEF Simulate
<1>3. CASE Broadcast(s)
  BY <1>3, StepLedger DEF Broadcast
<1>4. CASE WaitTimesOut(s) \/ Throw(s)
  BY <1>4, FailLedger DEF WaitTimesOut, Throw
<1>5. CASE CompleteRun(s)
  <2>1. SameKeys /\ SlotsStay
    BY <1>5, EndKeys DEF CompleteRun, EndsRun
  <2>2. \A t \in Slots : receipt'[t] = receipt[t] \/ receipt'[t] <= tip
    BY <1>5, CleanReceipts DEF CompleteRun
  <2>3. UNCHANGED <<tip, castAt, castBy, minedAt, votes>> /\ UNCHANGED pass
    BY <1>5 DEF CompleteRun
  <2> QED
    BY <2>1, <2>2, <2>3, QuietVotes
<1> QED
  BY <1>1, <1>2, <1>3, <1>4, <1>5, PrepareLedger, RecordReceiptLedger, FinalizeVoteLedger
     DEF Run

LEMMA InsertKeys ==
  ASSUME ProjectionInv, Ledger, NEW k \in Keys, Insert(k)
  PROVE  /\ KeysKept /\ JobsKeyed'
         /\ \A j \in JobIds : jobs'[j].key # None => jobs[j].key = jobs'[j].key \/ jobs'[j].key = k
<1>1. PICK j \in JobIds : jobs[j].status = "ABSENT" /\ jobs' = [jobs EXCEPT ![j] = NewRow(k)]
  BY DEF Insert, NextId
<1>2. jobs'[j].status = "PENDING" /\ jobs'[j].key = k
  BY <1>1, Parts DEF TableTypeOK, NewRow, NoRow
<1>3. \A i \in JobIds : i # j => jobs'[i] = jobs[i]
  BY <1>1, Parts DEF TableTypeOK
<1>4. jobs[j].key = None /\ k # None
  BY <1>1, JobTableAssumption DEF Ledger, JobsKeyed
<1> QED
  BY <1>2, <1>3, <1>4 DEF KeysKept, JobsKeyed, Ledger

LEMMA EnqueueKeys ==
  ASSUME ProjectionInv, Ledger, NEW k \in Keys, Enqueue(k)
  PROVE  SameKeys \/ Insert(k)
<1>1. CASE UNCHANGED jobs
  BY <1>1 DEF SameKeys
<1>2. ASSUME NEW j \in FailedRows(k), Requeue(j) PROVE SameKeys
  <2>1. j \in JobIds /\ jobs[j].status # "ABSENT"
    BY DEF FailedRows
  <2> QED
    BY <1>2, <2>1, RequeueKeys
<1> QED
  BY <1>1, <1>2 DEF Enqueue

LEMMA RequestVotes ==
  ASSUME ProjectionInv, Ledger, NEW v \in Signers, SubmitBallot(v) \/ RetryBallot(v), KeysKept
  PROVE  /\ VoteKept(v) /\ votes'[v].signed /\ votes'[v].status # "CONFIRMED"
         /\ votes[v].status # "CONFIRMED"
         /\ \A u \in Signers : u # v => votes'[u] = votes[u]
<1>1. v \in Voters /\ v # None /\ votes[v] \in VoteRow /\ votes \in [Voters -> VoteRow]
  BY SignerKeys, Parts DEF VotesOK
<1>2. \A u \in Signers : u # v => votes'[u] = votes[u]
  BY <1>1, SignerKeys DEF SubmitBallot, RetryBallot
<1>3. CASE SubmitBallot(v)
  <2>1. /\ votes'[v].status = "QUEUED" /\ votes'[v].signed = TRUE /\ votes'[v].tx = None
        /\ votes[v].status = "ABSENT"
    BY <1>1, <1>3 DEF SubmitBallot, NoVote
  <2>2. VoteGood(v)'
    BY <2>1, JobTableAssumption DEF VoteGood, Brought, KeyedTx
  <2> QED
    BY <1>2, <2>1, <2>2 DEF VoteKept, VoteStays
<1>4. CASE RetryBallot(v)
  <2>1. /\ votes'[v].status \in {"QUEUED", "SUBMITTED"} /\ votes'[v].signed = votes[v].signed
        /\ votes'[v].tx = votes[v].tx
    BY <1>1, <1>4 DEF RetryBallot, VoteRow
  <2>2. votes[v].status \in {"QUEUED", "SUBMITTED", "FAILED"} /\ votes[v].signed
        /\ KeyedTx(v, votes[v].tx)
    BY <1>4 DEF RetryBallot, Ledger, VoteGood, Brought
  <2>3. KeyedTx(v, votes[v].tx)'
    BY <1>1, <2>1, <2>2 DEF KeyedTx, KeysKept
  <2>4. VoteGood(v)'
    BY <2>1, <2>2, <2>3 DEF VoteGood, Brought
  <2> QED
    BY <1>2, <2>1, <2>2, <2>4 DEF VoteKept, VoteStays
<1> QED
  BY <1>3, <1>4

LEMMA RequestLedger ==
  ASSUME ProjectionInv, ProjectionInv', Ledger, NEW v \in Signers,
         SubmitBallot(v) \/ RetryBallot(v)
  PROVE  Ledger'
<1>1. v \in Keys /\ Enqueue(v) /\ UNCHANGED <<slot, tip, castAt, castBy, minedAt, pass, receipt>>
  BY SignerKeys DEF SubmitBallot, RetryBallot
<1>2. CASE SameKeys
  <2>1. KeysKept /\ SlotsStay
    BY <1>1, <1>2 DEF SameKeys, KeysKept, SlotsStay
  <2>2. \A u \in Signers : votes'[u] = votes[u] \/ VoteKept(u)
    BY <2>1, RequestVotes
  <2>3. UNCHANGED <<tip, castAt, castBy, minedAt>> /\ UNCHANGED receipt /\ UNCHANGED pass
    BY <1>1
  <2> QED
    BY <1>2, <2>1, <2>2, <2>3, TableLedger
<1>3. CASE Insert(v)
  <2>1. /\ KeysKept /\ JobsKeyed'
        /\ \A j \in JobIds : jobs'[j].key # None => jobs[j].key = jobs'[j].key \/ jobs'[j].key = v
    BY <1>1, <1>3, InsertKeys
  <2>2. tip <= tip' /\ BelowTip'
    BY <1>1, SameTip
  <2>3. \A u \in Signers : VoteKept(u)
    BY <2>1, <2>2, RequestVotes, VoteUnmoved
  <2>4. SlotsKeyed'
    <3> SUFFICES ASSUME NEW s \in Slots, slot[s] # Idle PROVE jobs'[slot[s].job].key # None
      BY <1>1 DEF SlotsKeyed
    <3> QED
      BY <2>1, HeldJob, SignerKeys DEF KeysKept
  <2>5. JobsSigned'
    <3> SUFFICES ASSUME NEW j \in JobIds, jobs'[j].key # None PROVE votes'[jobs'[j].key].signed
      BY DEF JobsSigned
    <3>1. CASE jobs'[j].key = v
      BY <2>1, <3>1, RequestVotes
    <3>2. CASE jobs[j].key = jobs'[j].key
      <4>1. jobs[j].key \in Signers
        BY <3>2, JobTyped, IndexerAssumption
      <4> QED
        BY <2>3, <3>2, <4>1 DEF Ledger, JobsSigned, VoteKept, VoteGood, VoteStays
    <3> QED
      BY <2>1, <3>1, <3>2
  <2>6. \A u \in Signers : VoteGood(u)' /\ KeyedTx(u, castBy[u])'
    BY <1>1, <2>1, <2>3, CastUnmoved DEF VoteKept
  <2>7. \A u \in Signers, w \in Workers : CopyGood(u, pass[w])'
    BY <1>1, <2>1, <2>2, <2>3, CopyUnmoved DEF VoteKept
  <2> QED
    BY <2>1, <2>2, <2>4, <2>5, <2>6, <2>7 DEF Ledger
<1> QED
  BY <1>1, <1>2, <1>3, EnqueueKeys

LEMMA EnvironmentLedger ==
  ASSUME ProjectionInv, ProjectionInv', Ledger,
         Recover \/ (\E j \in JobIds : Expire(j)) \/ \E w \in Workers : Crash(w)
  PROVE  Ledger'
<1>1. CASE Recover \/ \E j \in JobIds : Expire(j)
  <2>1. SameKeys
    BY <1>1, RecoverKeys DEF Recover, Expire
  <2>2. UNCHANGED slot /\ UNCHANGED <<tip, castAt, castBy, minedAt, votes>>
        /\ UNCHANGED receipt /\ UNCHANGED pass
    BY <1>1 DEF Recover, RecoverExpired, Expire, LockExpires
  <2>3. SlotsStay
    BY <2>2 DEF SlotsStay
  <2> QED
    BY <2>1, <2>2, <2>3, QuietVotes
<1>2. ASSUME NEW w \in Workers, Crash(w) PROVE Ledger'
  <2>1. SameKeys /\ SlotsStay
    BY <1>2, EndedSlots, Parts DEF Crash, Die, SameKeys, SlotsStay, TableTypeOK
  <2>2. \A s \in Slots : receipt'[s] = receipt[s] \/ receipt'[s] <= tip
    BY <1>2, CleanReceipts DEF Crash
  <2>3. \A x \in Workers : pass'[x] = pass[x] \/ pass'[x] = NoPass
    BY <1>2, Parts DEF Crash, PassesOK
  <2>4. UNCHANGED <<tip, castAt, castBy, minedAt, votes>>
    BY <1>2 DEF Crash
  <2> QED
    BY <2>1, <2>2, <2>3, <2>4, QuietVotes
<1> QED
  BY <1>1, <1>2

(* The chain: blocks stay below its tip, and a log names a job of its      *)
(* voter.                                                                  *)
LEMMA MineBlockLedger ==
  ASSUME ProjectionInv, ProjectionInv', Ledger, MineBlock
  PROVE  Ledger'
<1>1. tip \in Nat /\ tip' = tip + 1 /\ tip <= tip'
  BY Parts DEF MineBlock, ChainType, Blocks
<1>2. UNCHANGED tableVars /\ UNCHANGED votes /\ UNCHANGED pass /\ UNCHANGED receipt
  BY DEF MineBlock
<1>3. PICK T \in SUBSET pool, O \in SUBSET SelfCast :
        /\ castAt' = [v \in Voters |-> IF castAt[v] = 0 /\ v \in {jobs[j].key : j \in T} \cup O
                                       THEN tip + 1 ELSE castAt[v]]
        /\ castBy' = [v \in Voters |-> IF castAt[v] = 0 /\ v \in {jobs[j].key : j \in T}
                                       THEN CHOOSE j \in T : jobs[j].key = v ELSE castBy[v]]
        /\ minedAt' = [j \in JobIds |-> IF j \in T THEN tip + 1 ELSE minedAt[j]]
  BY DEF MineBlock
<1>4. SameKeys /\ SlotsStay /\ KeysKept
  BY <1>2, SameTable DEF SameKeys, KeysKept
<1>5. BelowTip'
  <2>1. \A v \in Voters : castAt[v] <= tip /\ castAt[v] \in Nat
    BY Parts, Numbers DEF Ledger, BelowTip, ChainType
  <2>2. \A j \in JobIds : minedAt[j] <= tip /\ minedAt[j] \in Nat
    BY Parts, Numbers DEF Ledger, BelowTip, ChainType
  <2>3. \A s \in Slots : receipt[s] <= tip /\ receipt[s] \in Nat
    BY Parts, Numbers DEF Ledger, BelowTip, RunsType
  <2>4. \A v \in Voters : castAt'[v] <= tip'
    BY <1>1, <1>3, <2>1
  <2>5. \A j \in JobIds : minedAt'[j] <= tip'
    BY <1>1, <1>3, <2>2
  <2>6. \A s \in Slots : receipt'[s] <= tip'
    BY <1>1, <1>2, <2>3
  <2> QED
    BY <2>4, <2>5, <2>6 DEF BelowTip
<1>6. ASSUME NEW v \in Signers PROVE VoteKept(v) /\ KeyedTx(v, castBy[v])'
  <2>1. VoteKept(v)
    BY <1>1, <1>2, <1>4, VoteUnmoved
  <2>2. CASE castBy'[v] = castBy[v]
    BY <1>4, <2>2, CastUnmoved, <2>1
  <2>3. CASE v \in {jobs[j].key : j \in T} /\ castBy'[v] = CHOOSE j \in T : jobs[j].key = v
    <3>1. jobs[castBy'[v]].key = v
      BY <2>3
    <3> QED
      BY <1>2, <2>1, <3>1 DEF KeyedTx
  <2> QED
    BY <1>3, <2>2, <2>3, SignerKeys
<1> QED
  BY <1>1, <1>2, <1>4, <1>5, <1>6, SteadyLedger

LEMMA ReorgLedger ==
  ASSUME ProjectionInv, ProjectionInv', Ledger, Reorg
  PROVE  Ledger'
<1>1. tip \in Nat /\ tip' = tip /\ tip <= tip'
  BY Parts DEF Reorg, ChainType, Blocks
<1>2. UNCHANGED tableVars /\ UNCHANGED votes /\ UNCHANGED pass /\ UNCHANGED receipt
  BY DEF Reorg
<1>3. SameKeys /\ SlotsStay /\ KeysKept
  BY <1>2, SameTable DEF SameKeys, KeysKept
<1>4. PICK d \in 1..Lesser(ReorgDepth, tip - 1) :
        LET from     == tip - d + 1
            orphaned == {v \in Voters : castAt[v] >= from}
            undone   == {j \in JobIds : minedAt[j] >= from}
        IN \E at \in [orphaned -> from..tip \cup {0}] :
            /\ castAt' = [v \in Voters |-> IF v \in orphaned THEN at[v] ELSE castAt[v]]
            /\ castBy' = [v \in Voters |-> IF v \in orphaned /\ at[v] = 0
                                           THEN 0 ELSE castBy[v]]
            /\ minedAt' = [j \in JobIds |->
                    IF j \notin undone THEN minedAt[j]
                    ELSE IF jobs[j].key \in orphaned /\ castBy[jobs[j].key] = j
                    THEN at[jobs[j].key] ELSE 0]
  BY DEF Reorg
<1> DEFINE from     == tip - d + 1
           orphaned == {v \in Voters : castAt[v] >= from}
           undone   == {j \in JobIds : minedAt[j] >= from}
<1>5. PICK at \in [orphaned -> from..tip \cup {0}] :
            /\ castAt' = [v \in Voters |-> IF v \in orphaned THEN at[v] ELSE castAt[v]]
            /\ castBy' = [v \in Voters |-> IF v \in orphaned /\ at[v] = 0
                                           THEN 0 ELSE castBy[v]]
            /\ minedAt' = [j \in JobIds |->
                    IF j \notin undone THEN minedAt[j]
                    ELSE IF jobs[j].key \in orphaned /\ castBy[jobs[j].key] = j
                    THEN at[jobs[j].key] ELSE 0]
  BY <1>4
<1>6. \A v \in orphaned : at[v] <= tip
  BY <1>1, <1>5
<1> HIDE DEF orphaned, undone, from
<1>7. BelowTip'
  <2>1. \A v \in Voters : castAt'[v] <= tip'
    BY <1>1, <1>5, <1>6 DEF Ledger, BelowTip
  <2>2. \A j \in JobIds : minedAt'[j] <= tip'
    BY <1>1, <1>5, <1>6 DEF Ledger, BelowTip
  <2>3. \A s \in Slots : receipt'[s] <= tip'
    BY <1>1, <1>2 DEF Ledger, BelowTip
  <2> QED
    BY <2>1, <2>2, <2>3 DEF BelowTip
<1>8. ASSUME NEW v \in Signers PROVE VoteKept(v) /\ KeyedTx(v, castBy[v])'
  <2>1. VoteKept(v)
    BY <1>1, <1>2, <1>3, VoteUnmoved
  <2>2. castBy'[v] = castBy[v] \/ castBy'[v] = 0
    BY <1>5, SignerKeys
  <2>3. CASE castBy'[v] = castBy[v]
    BY <1>3, <2>1, <2>3, CastUnmoved
  <2>4. CASE castBy'[v] = 0
    BY <2>1, <2>4, IndexerAssumption DEF KeyedTx
  <2> QED
    BY <2>2, <2>3, <2>4
<1> QED
  BY <1>1, <1>2, <1>3, <1>7, <1>8, SteadyLedger

LEMMA InitLedger == Init => Ledger
<1> SUFFICES ASSUME Init PROVE Ledger
  OBVIOUS
<1>1. \A j \in JobIds : jobs[j].status = "ABSENT" /\ jobs[j].key = None
  BY DEF Init, TableInit, NoRow
<1>2. \A s \in Slots : slot[s] = Idle /\ receipt[s] = 0
  BY DEF Init, TableInit
<1>3. tip = 1 /\ (\A v \in Voters : castAt[v] = 0) /\ \A j \in JobIds : minedAt[j] = 0
  BY DEF Init
<1>4. BelowTip
  BY <1>2, <1>3 DEF BelowTip
<1>5. ASSUME NEW v \in Signers PROVE VoteGood(v) /\ KeyedTx(v, castBy[v])
  <2>1. votes[v] = NoVote /\ castBy[v] = 0
    BY SignerKeys DEF Init, NoVotes
  <2>2. votes[v].status = "ABSENT" /\ votes[v].signed = FALSE /\ votes[v].tx = None
    BY <2>1 DEF NoVote
  <2> QED
    BY <2>1, <2>2, JobTableAssumption, IndexerAssumption DEF VoteGood, Brought, KeyedTx
<1>6. \A v \in Signers, w \in Workers : CopyGood(v, pass[w])
  BY DEF CopyGood, Init, NoPass
<1> QED
  BY <1>1, <1>2, <1>4, <1>5, <1>6 DEF Ledger, JobsKeyed, SlotsKeyed, JobsSigned

LEMMA StutterLedger ==
  ASSUME ProjectionInv, ProjectionInv', Ledger, UNCHANGED vars PROVE Ledger'
<1>1. SameKeys /\ SlotsStay
  BY SameTable
<1>2. UNCHANGED <<tip, castAt, castBy, minedAt, votes>> /\ UNCHANGED receipt /\ UNCHANGED pass
  OBVIOUS
<1> QED
  BY <1>1, <1>2, QuietVotes

LEMMA LedgerNext ==
  ASSUME ProjectionInv, ProjectionInv', Ledger, OneWorker, [Next]_vars
  PROVE  Ledger'
<1>1. ASSUME NEW w \in Workers, Index(w) PROVE Ledger'
  BY <1>1, PassLedger, SelectAffectedLedger, CompareBlocksLedger, UndoOrphanedLedger,
     GetLogsLedger, GetEndBlockLedger, CommitChunkLedger, FailRevertedLedger DEF Index
<1> QED
  BY <1>1, MineBlockLedger, ReorgLedger, EnvironmentLedger, PassThrowsLedger, StartLedger,
     RunLedger, RequestLedger, StutterLedger DEF Next

-----------------------------------------------------------------------------
(* The second part.  A ballot that nothing has undone has one job, which   *)
(* is done only when the vote is confirmed: Young.  Before the             *)
(* reorganisation everything that is recorded or copied of a vote is on    *)
(* the chain, and once the recovery has undone the vote it is so again:    *)
(* Fresh.  Only a vote that is not Fresh comes to the recovery, and that   *)
(* one is Young.                                                           *)

OnChain(row) == row.hash = hash[row.block]

FreshCopy(v, p) ==
    /\ p.at = "blocks" /\ p.rows[v] # NoVote => OnChain(p.rows[v])
    /\ p.at = "undo" => p.rows[v] = NoVote
    /\ p.at \in {"end", "commit"} /\ p.logs[v] # NoVote => OnChain(p.logs[v])

Fresh(v) == /\ votes[v].status = "CONFIRMED" => OnChain(votes[v])
            /\ \A w \in Workers : FreshCopy(v, pass[w])

Young(v) ==
    /\ \A i, j \in JobIds : jobs[i].key = v /\ jobs[j].key = v => i = j
    /\ \A j \in JobIds : jobs[j].key = v /\ jobs[j].status = "COMPLETED"
                            => votes[v].status = "CONFIRMED"
    /\ \A s \in Slots : slot[s] # Idle /\ VoterOf(s) = v =>
            /\ RowHeld(s) /\ RunApart(s)
            /\ pc[s] = "complete" => votes[v].status = "CONFIRMED"

RequeueInv ==
    /\ branch = 1 => \A v \in Signers : Fresh(v)
    /\ \A v \in Signers : Young(v) \/ (branch > 1 /\ Fresh(v))

(* What the steps leave.                                                   *)
HashKept == \A b \in 1..tip : hash'[b] = hash[b]

VoteFresh(v) == \/ votes'[v] = votes[v] \/ votes'[v].status # "CONFIRMED"
                \/ votes'[v].hash = hash'[votes'[v].block]

FreshSeen(v, w) == FreshCopy(v, pass[w])

LEMMA FreshCopyStays ==
  ASSUME HashKept, NEW v \in Signers, NEW p, CopyGood(v, p), FreshCopy(v, p)
  PROVE  FreshCopy(v, p)'
<1>1. ASSUME NEW row, Brought(v, row), row.status = "CONFIRMED", OnChain(row)
      PROVE  OnChain(row)'
  BY <1>1 DEF Brought, HashKept, OnChain
<1>2. p.at = "blocks" /\ p.rows[v] # NoVote => OnChain(p.rows[v])'
  BY <1>1 DEF CopyGood, FreshCopy
<1>3. p.at \in {"end", "commit"} /\ p.logs[v] # NoVote => OnChain(p.logs[v])'
  BY <1>1 DEF CopyGood, FreshCopy
<1> QED
  BY <1>2, <1>3 DEF FreshCopy

LEMMA FreshCopyAs ==
  ASSUME NEW v, NEW w \in Workers, NEW p, pass'[w] = p, FreshCopy(v, p)'
  PROVE  FreshSeen(v, w)'
  BY DEF FreshSeen, FreshCopy, OnChain

LEMMA FreshStep ==
  ASSUME Ledger, HashKept, NEW v \in Signers, Fresh(v), VoteFresh(v),
         \A w \in Workers : pass'[w] = pass[w] \/ FreshSeen(v, w)'
  PROVE  Fresh(v)'
<1>1. votes'[v].status = "CONFIRMED" => votes'[v].hash = hash'[votes'[v].block]
  BY DEF VoteFresh, Ledger, VoteGood, Brought, HashKept, Fresh, OnChain
<1>2. ASSUME NEW w \in Workers PROVE FreshSeen(v, w)'
  <2>1. CASE pass'[w] = pass[w]
    <3>1. PICK p : p = pass[w]
      OBVIOUS
    <3>2. FreshCopy(v, p)'
      BY <3>1, FreshCopyStays DEF Ledger, Fresh
    <3> QED
      BY <2>1, <3>1, <3>2, FreshCopyAs
  <2> QED
    BY <2>1
<1> QED
  BY <1>1, <1>2 DEF Fresh, FreshSeen, OnChain

LEMMA SameHash == ASSUME UNCHANGED hash PROVE HashKept
  BY DEF HashKept

LEMMA NothingStale ==
  ASSUME NEW v, NEW w, pass'[w].at \notin {"blocks", "undo", "end", "commit"}
  PROVE  FreshSeen(v, w)'
  BY DEF FreshSeen, FreshCopy

LEMMA FreshLocal ==
  ASSUME ProjectionInv, Ledger, NEW v \in Signers, Fresh(v), NEW w \in Workers, NEW from,
         NEW p, Local(w, from, p), FreshCopy(v, p)
  PROVE  Fresh(v)'
<1>1. pass'[w] = p /\ \A x \in Workers : x # w => pass'[x] = pass[x]
  BY Parts DEF Local, PassesOK
<1>2. UNCHANGED hash /\ votes' = votes
  BY DEF Local
<1>3. FreshCopy(v, p)'
  BY <1>2 DEF FreshCopy, OnChain
<1>4. FreshSeen(v, w)'
  BY <1>1, <1>3, FreshCopyAs
<1>5. VoteFresh(v)
  BY <1>2 DEF VoteFresh
<1> QED
  BY <1>1, <1>2, <1>4, <1>5, SameHash, FreshStep

LEMMA FreshPasses ==
  ASSUME ProjectionInv, Ledger, NEW v \in Signers, Fresh(v), NEW w \in Workers,
         \/ ReadTip(w) \/ ReadCursor(w) \/ CompareCursor(w) \/ SelectAffected(w)
         \/ CompareBlocks(w) \/ GetLogs(w) \/ GetEndBlock(w) \/ ReadReceipts(w)
  PROVE  Fresh(v)'
<1>1. pass[w] \in Pass /\ v \in Voters
  BY PassTyped, SignerKeys
<1>2. FreshCopy(v, pass[w])
  BY DEF Fresh
<1>3. CASE ReadTip(w) \/ ReadCursor(w) \/ CompareCursor(w) \/ ReadReceipts(w)
  <2>1. PICK from, p : Local(w, from, p) /\ p.at \notin {"blocks", "undo", "end", "commit"}
    BY <1>3, PassLocal
  <2>2. FreshCopy(v, p)
    BY <2>1 DEF FreshCopy
  <2> QED
    BY <2>1, <2>2, FreshLocal
<1>4. CASE SelectAffected(w)
  <2> DEFINE rows == [u \in Voters |->
                IF votes[u].status = "CONFIRMED" /\ votes[u].block >= pass[w].next
                THEN votes[u] ELSE NoVote]
             p == [pass[w] EXCEPT !.at = "blocks", !.rows = rows]
  <2>1. p.at = "blocks" /\ p.rows = rows
    BY <1>1 DEF Pass
  <2>2. rows[v] # NoVote => OnChain(rows[v])
    BY <1>1 DEF Fresh
  <2>3. Local(w, "affected", p)
    BY <1>4 DEF SelectAffected
  <2> HIDE DEF p, rows
  <2>4. FreshCopy(v, p)
    BY <2>1, <2>2 DEF FreshCopy
  <2> QED
    BY <2>3, <2>4, FreshLocal
<1>5. CASE CompareBlocks(w)
  <2> DEFINE orphaned == {u \in Voters : pass[w].rows[u] # NoVote
                            /\ hash[pass[w].rows[u].block] # pass[w].rows[u].hash}
             rows == [u \in Voters |-> IF u \in orphaned THEN pass[w].rows[u] ELSE NoVote]
             p == [pass[w] EXCEPT !.at = "undo", !.rows = rows]
  <2>1. p.at = "undo" /\ p.rows = rows /\ pass[w].at = "blocks"
    BY <1>1, <1>5 DEF Pass, CompareBlocks, Local
  <2>2. v \notin orphaned
    BY <1>2, <2>1 DEF FreshCopy, OnChain
  <2>3. Local(w, "blocks", IF orphaned = {} THEN Chunk(pass[w]) ELSE p)
    BY <1>5 DEF CompareBlocks
  <2>4. rows[v] = NoVote
    BY <1>1, <2>2
  <2> HIDE DEF p, rows, orphaned
  <2>5. FreshCopy(v, p)
    BY <2>1, <2>4 DEF FreshCopy
  <2>6. FreshCopy(v, Chunk(pass[w]))
    BY <1>1, ChunkAt DEF FreshCopy
  <2> QED
    BY <2>3, <2>5, <2>6, FreshLocal
<1>6. CASE GetLogs(w)
  <2> DEFINE log(u) == [status |-> "CONFIRMED", tx |-> castBy[u], block |-> castAt[u],
                        hash |-> hash[castAt[u]], signed |-> FALSE]
             logs == [u \in Voters |->
                  IF castAt[u] \in pass[w].next..End(pass[w]) THEN log(u) ELSE NoVote]
             p == [pass[w] EXCEPT !.at = "end", !.logs = logs]
  <2>1. p.at = "end" /\ p.logs = logs
    BY <1>1 DEF Pass
  <2>2. logs[v] # NoVote => OnChain(logs[v])
    BY <1>1 DEF OnChain
  <2>3. Local(w, "logs", p)
    BY <1>6 DEF GetLogs
  <2> HIDE DEF p, logs
  <2>4. FreshCopy(v, p)
    BY <2>1, <2>2 DEF FreshCopy
  <2> QED
    BY <2>3, <2>4, FreshLocal
<1>7. CASE GetEndBlock(w)
  <2> DEFINE p == [pass[w] EXCEPT !.at = "commit", !.endHash = hash[End(pass[w])]]
  <2>1. p.at = "commit" /\ p.logs = pass[w].logs /\ pass[w].at = "end"
    BY <1>1, <1>7 DEF Pass, GetEndBlock, Local
  <2>2. Local(w, "end", p)
    BY <1>7 DEF GetEndBlock
  <2> HIDE DEF p
  <2>3. FreshCopy(v, p)
    BY <1>2, <2>1 DEF FreshCopy
  <2> QED
    BY <2>2, <2>3, FreshLocal
<1> QED
  BY <1>3, <1>4, <1>5, <1>6, <1>7

LEMMA FreshWrites ==
  ASSUME ProjectionInv, Ledger, NEW v \in Signers, Fresh(v), NEW w \in Workers,
         UndoOrphaned(w) \/ CommitChunk(w) \/ FailReverted(w) \/ PassThrows(w)
  PROVE  Fresh(v)'
<1>1. pass[w] \in Pass /\ v \in Voters /\ votes[v] \in VoteRow /\ NoPass.at = "idle"
  BY PassTyped, SignerKeys, Parts DEF VotesOK, NoPass
<1>2. UNCHANGED hash
  BY DEF UndoOrphaned, CommitChunk, FailReverted, PassThrows
<1>3. FreshCopy(v, pass[w])
  BY DEF Fresh
<1>4. VoteFresh(v)
  <2>1. CASE UndoOrphaned(w)
    BY <1>1, <1>3, <2>1 DEF UndoOrphaned, FreshCopy, VoteFresh
  <2>2. CASE CommitChunk(w)
    <3>1. votes'[v] = Upsert(votes[v], pass[w].logs[v]) /\ pass[w].at = "commit"
      BY <1>1, <2>2 DEF CommitChunk
    <3>2. CASE pass[w].logs[v] = NoVote
      BY <3>1, <3>2 DEF Upsert, VoteFresh
    <3>3. CASE pass[w].logs[v] # NoVote
      <4>1. pass[w].logs[v] \in VoteRow /\ OnChain(pass[w].logs[v])
        BY <1>1, <1>3, <3>1, <3>3 DEF Pass, FreshCopy
      <4>2. /\ votes'[v].hash = pass[w].logs[v].hash
            /\ votes'[v].block = pass[w].logs[v].block
        BY <3>1, <3>3, <4>1 DEF Upsert, VoteRow
      <4> QED
        BY <1>2, <4>1, <4>2 DEF OnChain, VoteFresh
    <3> QED
      BY <3>2, <3>3
  <2>3. CASE FailReverted(w)
    <3>1. votes'[v] = votes[v] \/ votes'[v] = FailedVote(votes[v])
      BY <1>1, <2>3 DEF FailReverted
    <3> QED
      BY <1>1, <3>1 DEF FailedVote, VoteFresh, VoteRow
  <2>4. CASE PassThrows(w)
    BY <2>4 DEF PassThrows, VoteFresh
  <2> QED
    BY <2>1, <2>2, <2>3, <2>4
<1>5. \A x \in Workers : x # w => pass'[x] = pass[x]
  BY Parts DEF UndoOrphaned, CommitChunk, FailReverted, PassThrows, PassesOK
<1>6. pass'[w].at \notin {"blocks", "undo", "end", "commit"}
  <2>1. CASE UndoOrphaned(w)
    <3>1. pass'[w] = Chunk(pass[w])
      BY <2>1, Parts DEF UndoOrphaned, PassesOK
    <3> QED
      BY <1>1, <3>1, ChunkAt
  <2>2. CASE CommitChunk(w)
    <3> DEFINE q == [pass[w] EXCEPT !.next = End(pass[w]) + 1]
    <3>1. pass'[w] = Chunk(q)
      BY <2>2, Parts DEF CommitChunk, PassesOK
    <3>2. q \in Pass
      <4>1. End(pass[w]) \in Nat
        BY <1>1, <2>2, PassTyped, EndInside, Numbers DEF CommitChunk, PassOK, NextInside
      <4> QED
        BY <1>1, <4>1 DEF Pass
    <3> HIDE DEF q
    <3> QED
      BY <3>1, <3>2, ChunkAt
  <2>3. CASE FailReverted(w) \/ PassThrows(w)
    <3>1. pass'[w] = NoPass
      BY <2>3, Parts DEF FailReverted, PassThrows, PassesOK
    <3> QED
      BY <1>1, <3>1
  <2> QED
    BY <2>1, <2>2, <2>3
<1>7. FreshSeen(v, w)'
  BY <1>6, NothingStale
<1> QED
  BY <1>2, <1>4, <1>5, <1>7, SameHash, FreshStep

LEMMA FreshQuiet ==
  ASSUME ProjectionInv, Ledger, NEW v \in Signers, Fresh(v), UNCHANGED hash, VoteFresh(v),
         \A w \in Workers : pass'[w] = pass[w] \/ pass'[w] = NoPass
  PROVE  Fresh(v)'
<1>1. \A w \in Workers : pass'[w] = pass[w] \/ FreshSeen(v, w)'
  BY NothingStale DEF NoPass
<1> QED
  BY <1>1, SameHash, FreshStep

LEMMA FreshFail ==
  ASSUME ProjectionInv, Ledger, NEW v \in Signers, Fresh(v), NEW s \in Slots, NEW permanent,
         Fail(s, permanent)
  PROVE  Fresh(v)'
<1>1. votes[v] \in VoteRow /\ v \in Voters /\ votes \in [Voters -> VoteRow]
  BY SignerKeys, Parts DEF VotesOK
<1>2. votes'[v] = votes[v] \/ votes'[v] = FailedVote(votes[v])
  BY <1>1 DEF Fail
<1>3. VoteFresh(v)
  BY <1>1, <1>2 DEF FailedVote, VoteFresh, VoteRow
<1>4. \A w \in Workers : pass'[w] = pass[w] \/ pass'[w] = NoPass
  BY Parts DEF Fail, PassesOK
<1>5. UNCHANGED hash
  BY DEF Fail
<1> QED
  BY <1>3, <1>4, <1>5, FreshQuiet

LEMMA FreshRuns ==
  ASSUME ProjectionInv, Ledger, NEW v \in Signers, Fresh(v), NEW s \in Slots,
         Start(s) \/ Run(s) \/ Throw(s)
  PROVE  Fresh(v)'
<1>1. votes[v] \in VoteRow /\ v \in Voters /\ votes \in [Voters -> VoteRow]
  BY SignerKeys, Parts DEF VotesOK
<1>2. CASE UNCHANGED <<hash, votes, pass>>
  BY <1>2, FreshQuiet DEF VoteFresh
<1>3. CASE \E permanent : Fail(s, permanent)
  BY <1>3, FreshFail
<1>4. CASE /\ UNCHANGED <<hash, pass>>
           /\ votes' = [votes EXCEPT ![VoterOf(s)].status = "SUBMITTED",
                                     ![VoterOf(s)].tx = JobOf(s)]
  <2>1. votes'[v] = votes[v] \/ votes'[v].status = "SUBMITTED"
    BY <1>1, <1>4 DEF VoteRow
  <2>2. VoteFresh(v)
    BY <2>1 DEF VoteFresh
  <2> QED
    BY <1>4, <2>2, FreshQuiet
<1>5. CASE /\ UNCHANGED <<hash, pass>>
           /\ votes' = [votes EXCEPT ![VoterOf(s)] =
                         [@ EXCEPT !.status = "CONFIRMED", !.tx = JobOf(s),
                                   !.block = receipt[s], !.hash = hash[receipt[s]]]]
  <2>1. \/ votes'[v] = votes[v]
        \/ votes'[v].block = receipt[s] /\ votes'[v].hash = hash[receipt[s]]
    BY <1>1, <1>5 DEF VoteRow
  <2>2. VoteFresh(v)
    BY <1>5, <2>1 DEF VoteFresh
  <2> QED
    BY <1>5, <2>2, FreshQuiet
<1>6. CASE Prepare(s)
  BY <1>2, <1>3, <1>4, <1>6 DEF Prepare, Step
<1>7. CASE FinalizeVote(s)
  BY <1>3, <1>5, <1>7 DEF FinalizeVote, Step
<1>8. CASE RecordReceipt(s)
  BY <1>2, <1>8 DEF RecordReceipt, Step
<1>9. CASE LoadVote(s) \/ Simulate(s) \/ Broadcast(s) \/ WaitTimesOut(s)
  BY <1>2, <1>3, <1>9 DEF LoadVote, Simulate, Broadcast, WaitTimesOut, Step
<1> QED
  BY <1>2, <1>3, <1>6, <1>7, <1>8, <1>9 DEF Start, Run, CompleteRun, Throw

LEMMA EnqueueKept ==
  ASSUME ProjectionInv, Ledger, NEW v \in Signers, SubmitBallot(v) \/ RetryBallot(v)
  PROVE  KeysKept
<1>1. v \in Keys /\ Enqueue(v)
  BY SignerKeys DEF SubmitBallot, RetryBallot
<1> QED
  BY <1>1, EnqueueKeys, InsertKeys DEF SameKeys, KeysKept

LEMMA FreshNext ==
  ASSUME ProjectionInv, Ledger, NEW v \in Signers, Fresh(v), branch' = branch, [Next]_vars
  PROVE  Fresh(v)'
<1>1. branch \in Nat /\ tip \in Nat
  BY Parts DEF ChainType, Branches, Blocks
<1>2. CASE MineBlock
  <2>1. HashKept
    BY <1>1, <1>2, Parts DEF MineBlock, HashKept, ChainType, Blocks
  <2>2. VoteFresh(v) /\ \A w \in Workers : pass'[w] = pass[w]
    BY <1>2 DEF MineBlock, VoteFresh
  <2> QED
    BY <2>1, <2>2, FreshStep
<1>3. CASE Reorg
  BY <1>1, <1>3 DEF Reorg
<1>4. CASE Recover \/ (\E j \in JobIds : Expire(j)) \/ UNCHANGED vars
  <2>1. UNCHANGED <<hash, votes, pass>>
    BY <1>4 DEF Recover, Expire
  <2> QED
    BY <2>1, FreshQuiet DEF VoteFresh
<1>5. ASSUME NEW w \in Workers, Crash(w) PROVE Fresh(v)'
  <2>1. UNCHANGED <<hash, votes>> /\ \A x \in Workers : pass'[x] = pass[x] \/ pass'[x] = NoPass
    BY <1>5, Parts DEF Crash, PassesOK
  <2> QED
    BY <2>1, FreshQuiet DEF VoteFresh
<1>6. ASSUME NEW u \in Signers, SubmitBallot(u) \/ RetryBallot(u) PROVE Fresh(v)'
  <2>1. UNCHANGED <<hash, pass>>
    BY <1>6 DEF SubmitBallot, RetryBallot
  <2>2. VoteFresh(v)
    BY <1>6, EnqueueKept, RequestVotes DEF VoteFresh
  <2> QED
    BY <2>1, <2>2, FreshQuiet
<1>7. ASSUME NEW w \in Workers, Index(w) \/ PassThrows(w) PROVE Fresh(v)'
  BY <1>7, FreshPasses, FreshWrites DEF Index
<1> QED
  BY <1>2, <1>3, <1>4, <1>5, <1>6, <1>7, FreshRuns DEF Next

(* A young vote whose jobs, runs and confirmation are left alone.          *)
ConfirmedKept(v) == votes[v].status = "CONFIRMED" => votes'[v].status = "CONFIRMED"

LEMMA SlotJobAfter ==
  ASSUME ProjectionInv', NEW s \in Slots, slot'[s] # Idle
  PROVE  slot'[s].job \in JobIds
  BY DEF ProjectionInv, TypeOK, TableTypeOK, RunCopy

LEMMA YoungUnmoved ==
  ASSUME ProjectionInv', NEW v \in Signers, Young(v), ConfirmedKept(v),
         \A j \in JobIds : jobs'[j].key = v => jobs'[j] = jobs[j],
         \A s \in Slots : slot'[s] # Idle /\ jobs'[slot'[s].job].key = v
                            => slot'[s] = slot[s] /\ pc'[s] = pc[s]
  PROVE  Young(v)'
<1>1. \A i, j \in JobIds : jobs'[i].key = v /\ jobs'[j].key = v => i = j
  BY DEF Young
<1>2. \A j \in JobIds : jobs'[j].key = v /\ jobs'[j].status = "COMPLETED"
                           => votes'[v].status = "CONFIRMED"
  BY DEF Young, ConfirmedKept
<1>3. ASSUME NEW s \in Slots, slot'[s] # Idle, jobs'[slot'[s].job].key = v
      PROVE  RowHeld(s)' /\ RunApart(s)' /\ (pc'[s] = "complete" => votes'[v].status = "CONFIRMED")
  <2>1. slot'[s] = slot[s] /\ pc'[s] = pc[s] /\ slot'[s].job \in JobIds
    BY <1>3, SlotJobAfter
  <2>2. jobs'[slot[s].job] = jobs[slot[s].job]
    BY <1>3, <2>1
  <2>3. slot[s] # Idle /\ VoterOf(s) = v
    BY <1>3, <2>1, <2>2 DEF VoterOf, JobOf
  <2>4. RowHeld(s) /\ RunApart(s) /\ (pc[s] = "complete" => votes[v].status = "CONFIRMED")
    BY <2>3 DEF Young
  <2>5. RowHeld(s)'
    BY <2>1, <2>2, <2>4 DEF RowHeld
  <2>6. RunApart(s)'
    <3> SUFFICES ASSUME NEW t \in Slots, slot'[t].job = slot'[s].job PROVE s = t
      BY DEF RunApart
    <3>1. slot'[t] # Idle
      BY <2>1, JobTableAssumption DEF Idle
    <3>2. slot'[t] = slot[t]
      BY <1>3, <3>1
    <3> QED
      BY <2>1, <2>3, <2>4, <3>2 DEF RunApart
  <2> QED
    BY <2>1, <2>4, <2>5, <2>6 DEF ConfirmedKept
<1> QED
  BY <1>1, <1>2, <1>3 DEF Young, VoterOf, JobOf

LEMMA YoungQuiet ==
  ASSUME ProjectionInv', NEW v \in Signers, Young(v), ConfirmedKept(v),
         UNCHANGED <<jobs, slot, pc>>
  PROVE  Young(v)'
  BY YoungUnmoved

(* A vote none of whose jobs runs.                                         *)
LEMMA YoungIdle ==
  ASSUME ProjectionInv', NEW v \in Signers,
         \A i, j \in JobIds : jobs'[i].key = v /\ jobs'[j].key = v => i = j,
         \A j \in JobIds : jobs'[j].key = v =>
            /\ \A s \in Slots : slot'[s].job # j
            /\ jobs'[j].status = "COMPLETED" => votes'[v].status = "CONFIRMED"
  PROVE  Young(v)'
<1>1. \A s \in Slots : slot'[s] # Idle => jobs'[slot'[s].job].key # v
  BY SlotJobAfter
<1> QED
  BY <1>1 DEF Young, VoterOf, JobOf

(* The run of a young vote's job is the only one, and its job the only     *)
(* job.                                                                    *)
LEMMA YoungRun ==
  ASSUME ProjectionInv, NEW v \in Signers, Young(v), NEW s \in Slots, slot[s] # Idle,
         VoterOf(s) = v
  PROVE  /\ slot[s].job \in JobIds /\ jobs[slot[s].job].key = v
         /\ jobs[slot[s].job].status = "RUNNING"
         /\ \A j \in JobIds : jobs[j].key = v => j = slot[s].job
         /\ \A t \in Slots : slot[t].job = slot[s].job => t = s
         /\ RowHeld(s) /\ (pc[s] = "complete" => votes[v].status = "CONFIRMED")
<1>1. slot[s].job \in JobIds
  BY SlotJob, Parts
<1> QED
  BY <1>1 DEF Young, VoterOf, JobOf, RowHeld, RunApart

LEMMA YoungStart ==
  ASSUME ProjectionInv, ProjectionInv', Ledger, NEW v \in Signers, Young(v), NEW s \in Slots,
         Start(s)
  PROVE  Young(v)'
<1>1. PICK j \in JobIds :
        /\ jobs[j].status = "PENDING"
        /\ jobs' = [jobs EXCEPT ![j] =
             [jobs[j] EXCEPT !.status = "RUNNING", !.attempts = Bump(jobs[j].attempts),
                             !.lockedBy = WorkerOf[s], !.fresh = TRUE]]
        /\ slot' = [slot EXCEPT ![s] = [job |-> j, attempts |-> Bump(jobs[j].attempts)]]
  BY DEF Start, Claim
<1>2. jobs[j] \in JobRow
  BY JobTyped
<1>3. /\ \A i \in JobIds : i # j => jobs'[i] = jobs[i]
      /\ jobs'[j].status = "RUNNING" /\ jobs'[j].key = jobs[j].key
      /\ jobs'[j].lockedBy = WorkerOf[s] /\ jobs'[j].fresh
  BY <1>1, <1>2, Parts DEF TableTypeOK, JobRow
<1>4. slot'[s].job = j /\ \A t \in Slots : t # s => slot'[t] = slot[t]
  BY <1>1, Parts DEF TableTypeOK
<1>5. pc'[s] = "load" /\ \A t \in Slots : t # s => pc'[t] = pc[t]
  BY Parts DEF Start, Goto, RunsType
<1>6. UNCHANGED votes
  BY DEF Start
<1>7. CASE jobs[j].key # v
  <2>1. \A i \in JobIds : jobs'[i].key = v => jobs'[i] = jobs[i]
    BY <1>3, <1>7
  <2>2. \A t \in Slots : jobs'[slot'[t].job].key = v => t # s
    BY <1>3, <1>4, <1>7
  <2> QED
    BY <1>4, <1>5, <1>6, <2>1, <2>2, YoungUnmoved DEF ConfirmedKept
<1>8. CASE jobs[j].key = v
  <2>1. \A i \in JobIds : jobs'[i].key = v => i = j
    BY <1>3, <1>8 DEF Young
  <2>2. \A t \in Slots : slot[t].job # j
    <3> SUFFICES ASSUME NEW t \in Slots, slot[t].job = j PROVE FALSE
      OBVIOUS
    <3>1. slot[t] # Idle /\ VoterOf(t) = v
      BY <1>8, JobTableAssumption DEF Idle, VoterOf, JobOf
    <3> QED
      BY <1>1, <3>1, YoungRun
  <2>3. \A t \in Slots : slot'[t].job = j => t = s
    BY <1>4, <2>2
  <2>4. \A t \in Slots : slot'[t] # Idle /\ jobs'[slot'[t].job].key = v => t = s
    BY <2>1, <2>3, SlotJobAfter
  <2>5. RowHeld(s)' /\ RunApart(s)'
    BY <1>3, <1>4, <2>3 DEF RowHeld, RunApart
  <2> QED
    BY <1>3, <1>5, <2>1, <2>4, <2>5 DEF Young, VoterOf, JobOf
<1> QED
  BY <1>7, <1>8

(* A run goes on.                                                          *)
LEMMA YoungStep ==
  ASSUME ProjectionInv, ProjectionInv', NEW v \in Signers, Young(v), NEW s \in Slots, NEW to,
         slot[s] # Idle, UNCHANGED <<jobs, slot>>, Goto(s, to),
         VoterOf(s) # v => votes'[v] = votes[v],
         VoterOf(s) = v /\ to = "complete" => votes'[v].status = "CONFIRMED"
  PROVE  Young(v)'
<1>1. pc'[s] = to /\ \A t \in Slots : t # s => pc'[t] = pc[t]
  BY Parts DEF Goto, RunsType
<1>2. CASE VoterOf(s) # v
  <2>1. \A t \in Slots : jobs'[slot'[t].job].key = v => t # s
    BY <1>2 DEF VoterOf, JobOf
  <2> QED
    BY <1>1, <1>2, <2>1, YoungUnmoved DEF ConfirmedKept
<1>3. CASE VoterOf(s) = v
  <2>1. /\ slot[s].job \in JobIds /\ jobs[slot[s].job].status = "RUNNING"
        /\ \A j \in JobIds : jobs[j].key = v => j = slot[s].job
        /\ \A t \in Slots : slot[t].job = slot[s].job => t = s
        /\ RowHeld(s)
    BY <1>3, YoungRun
  <2>2. \A t \in Slots : slot[t] # Idle /\ VoterOf(t) = v => t = s
    BY <2>1, SlotJob, Parts DEF VoterOf, JobOf
  <2>3. RowHeld(s)' /\ RunApart(s)'
    BY <2>1 DEF RowHeld, RunApart
  <2> QED
    BY <1>1, <1>3, <2>1, <2>2, <2>3 DEF Young, VoterOf, JobOf
<1> QED
  BY <1>2, <1>3

(* A run ends.                                                             *)
LEMMA YoungEnd ==
  ASSUME ProjectionInv, ProjectionInv', Ledger, NEW v \in Signers, Young(v), NEW s \in Slots,
         Cleanup, ConfirmedKept(v),
         \/ FailRetry(s) \/ FailFinal(s)
         \/ Complete(s) /\ (VoterOf(s) = v => votes'[v].status = "CONFIRMED")
  PROVE  Young(v)'
<1>1. slot[s] # Idle /\ slot[s].job \in JobIds
  BY HeldJob DEF Complete, FailRetry, FailFinal
<1>2. \A t \in Slots : slot'[t] = slot[t] \/ slot'[t] = Idle
  BY EndedSlots, Parts DEF EndsRun
<1>3. \A t \in Slots : slot'[t] # Idle => slot'[t] = slot[t] /\ pc'[t] = pc[t]
  BY <1>2 DEF Cleanup
<1>4. CASE UNCHANGED jobs
  BY <1>3, <1>4, YoungUnmoved
<1>5. ASSUME NEW st \in {"COMPLETED", "PENDING", "FAILED"}, Settle(slot[s].job, st), Release(s),
             st = "COMPLETED" /\ VoterOf(s) = v => votes'[v].status = "CONFIRMED"
      PROVE  Young(v)'
  <2>1. jobs[slot[s].job] \in JobRow
    BY <1>1, JobTyped
  <2>2. /\ \A i \in JobIds : i # slot[s].job => jobs'[i] = jobs[i]
        /\ jobs'[slot[s].job].status = st /\ jobs'[slot[s].job].key = jobs[slot[s].job].key
    BY <1>1, <1>5, <2>1, Parts DEF Settle, TableTypeOK, JobRow
  <2>3. slot'[s] = Idle /\ \A t \in Slots : t # s => slot'[t] = slot[t]
    BY <1>5, Parts DEF Release, TableTypeOK
  <2>4. CASE VoterOf(s) # v
    <3>1. \A i \in JobIds : jobs'[i].key = v => jobs'[i] = jobs[i]
      BY <2>2, <2>4 DEF VoterOf, JobOf
    <3> QED
      BY <1>3, <3>1, YoungUnmoved
  <2>5. CASE VoterOf(s) = v
    <3>1. /\ \A j \in JobIds : jobs[j].key = v => j = slot[s].job
          /\ \A t \in Slots : slot[t].job = slot[s].job => t = s
      BY <1>1, <2>5, YoungRun
    <3>2. \A j \in JobIds : jobs'[j].key = v => j = slot[s].job
      BY <2>2, <3>1
    <3>3. \A t \in Slots : slot'[t].job # slot[s].job
      BY <1>1, <2>3, <3>1, JobTableAssumption DEF Idle
    <3> QED
      BY <1>5, <2>2, <2>5, <3>2, <3>3, YoungIdle
  <2> QED
    BY <2>4, <2>5
<1> QED
  BY <1>4, <1>5 DEF Complete, FailRetry, FailFinal, Die

LEMMA YoungFail ==
  ASSUME ProjectionInv, ProjectionInv', Ledger, NEW v \in Signers, Young(v), NEW s \in Slots,
         NEW permanent, Fail(s, permanent)
  PROVE  Young(v)'
<1>1. votes[v] \in VoteRow /\ v \in Voters /\ votes \in [Voters -> VoteRow]
  BY SignerKeys, Parts DEF VotesOK
<1>2. votes'[v] = votes[v] \/ votes'[v] = FailedVote(votes[v])
  BY <1>1 DEF Fail
<1>3. ConfirmedKept(v)
  BY <1>1, <1>2 DEF FailedVote, ConfirmedKept
<1>4. Cleanup /\ (FailFinal(s) \/ FailRetry(s))
  BY DEF Fail
<1> QED
  BY <1>3, <1>4, YoungEnd

LEMMA YoungRuns ==
  ASSUME ProjectionInv, ProjectionInv', Ledger, NEW v \in Signers, Young(v), NEW s \in Slots,
         Start(s) \/ Run(s) \/ Throw(s)
  PROVE  Young(v)'
<1>1. votes[v] \in VoteRow /\ v \in Voters /\ votes \in [Voters -> VoteRow]
  BY SignerKeys, Parts DEF VotesOK
<1>2. CASE \E permanent : Fail(s, permanent)
  BY <1>2, YoungFail
<1>3. ASSUME NEW to, slot[s] # Idle, UNCHANGED <<jobs, slot>>, Goto(s, to), UNCHANGED votes,
             to # "complete" \/ (VoterOf(s) = v => votes[v].status = "CONFIRMED")
      PROVE  Young(v)'
  BY <1>3, YoungStep
<1>4. CASE Start(s)
  BY <1>4, YoungStart
<1>5. CASE LoadVote(s)
  BY <1>3, <1>5 DEF LoadVote, Step, At
<1>6. CASE Simulate(s)
  BY <1>2, <1>3, <1>6 DEF Simulate, Step, At
<1>7. CASE Prepare(s)
  <2>1. CASE /\ Step(s, "prepare", "broadcast")
             /\ votes' = [votes EXCEPT ![VoterOf(s)].status = "SUBMITTED",
                                       ![VoterOf(s)].tx = JobOf(s)]
    <3>1. VoterOf(s) # v => votes'[v] = votes[v]
      BY <1>1, <2>1
    <3> QED
      BY <2>1, <3>1, YoungStep DEF Step, At
  <2> QED
    BY <1>2, <1>3, <1>7, <2>1 DEF Prepare, Step, At
<1>8. CASE Broadcast(s)
  BY <1>3, <1>8 DEF Broadcast, Step, At
<1>9. CASE RecordReceipt(s)
  BY <1>3, <1>9 DEF RecordReceipt, Step, At
<1>10. CASE WaitTimesOut(s) \/ Throw(s)
  BY <1>2, <1>10 DEF WaitTimesOut, Throw
<1>11. CASE FinalizeVote(s)
  <2>1. CASE /\ Step(s, "finalize", "complete")
             /\ votes' = [votes EXCEPT ![VoterOf(s)] =
                           [@ EXCEPT !.status = "CONFIRMED", !.tx = JobOf(s),
                                     !.block = receipt[s], !.hash = hash[receipt[s]]]]
    <3>1. VoterOf(s) # v => votes'[v] = votes[v]
      BY <1>1, <2>1
    <3>2. VoterOf(s) = v => votes'[v].status = "CONFIRMED"
      BY <1>1, <2>1 DEF VoteRow
    <3> QED
      BY <2>1, <3>1, <3>2, YoungStep DEF Step, At
  <2> QED
    BY <1>2, <1>11, <2>1 DEF FinalizeVote
<1>12. CASE CompleteRun(s)
  <2>1. Complete(s) /\ Cleanup /\ UNCHANGED votes /\ pc[s] = "complete" /\ slot[s] # Idle
    BY <1>12 DEF CompleteRun, At
  <2>2. VoterOf(s) = v => votes'[v].status = "CONFIRMED"
    BY <2>1, YoungRun
  <2> QED
    BY <2>1, <2>2, YoungEnd DEF ConfirmedKept
<1> QED
  BY <1>4, <1>5, <1>6, <1>7, <1>8, <1>9, <1>10, <1>11, <1>12 DEF Run

LEMMA YoungEnvironment ==
  ASSUME ProjectionInv, ProjectionInv', NEW v \in Signers, Young(v),
         Recover \/ (\E j \in JobIds : Expire(j)) \/ \E w \in Workers : Crash(w)
  PROVE  Young(v)'
<1>1. ASSUME NEW w \in Workers, Crash(w) PROVE Young(v)'
  <2>1. UNCHANGED jobs /\ UNCHANGED votes /\ Cleanup
    BY <1>1 DEF Crash, Die
  <2>2. \A t \in Slots : slot'[t] = slot[t] \/ slot'[t] = Idle
    BY <1>1, EndedSlots, Parts DEF Crash
  <2>3. \A t \in Slots : slot'[t] # Idle => slot'[t] = slot[t] /\ pc'[t] = pc[t]
    BY <2>1, <2>2 DEF Cleanup
  <2> QED
    BY <2>1, <2>3, YoungUnmoved DEF ConfirmedKept
<1>2. ASSUME NEW j \in JobIds, Expire(j) PROVE Young(v)'
  <2>1. /\ jobs[j].status = "RUNNING" /\ ~LiveRunner(j) /\ UNCHANGED <<slot, pc, votes>>
        /\ jobs' = [jobs EXCEPT ![j] = [jobs[j] EXCEPT !.fresh = FALSE]]
    BY <1>2 DEF Expire, LockExpires
  <2>2. /\ \A i \in JobIds : i # j => jobs'[i] = jobs[i]
        /\ jobs'[j].key = jobs[j].key /\ jobs'[j].status = "RUNNING"
    BY <2>1, JobTyped, Parts DEF TableTypeOK, JobRow
  <2>3. CASE jobs[j].key # v
    BY <2>1, <2>2, <2>3, YoungUnmoved DEF ConfirmedKept
  <2>4. CASE jobs[j].key = v
    <3>1. \A s \in Slots : slot[s].job # j
      <4> SUFFICES ASSUME NEW s \in Slots, slot[s].job = j PROVE FALSE
        OBVIOUS
      <4>1. slot[s] # Idle /\ VoterOf(s) = v
        BY <2>4, JobTableAssumption DEF Idle, VoterOf, JobOf
      <4>2. RowHeld(s)
        BY <4>1, YoungRun
      <4> QED
        BY <2>1, <4>1, <4>2 DEF RowHeld, LiveRunner, Runs
    <3>2. \A i \in JobIds : jobs'[i].key = v => i = j
      BY <2>2, <2>4 DEF Young
    <3> QED
      BY <2>1, <2>2, <3>1, <3>2, YoungIdle
  <2> QED
    BY <2>3, <2>4
<1>3. CASE Recover
  <2>1. UNCHANGED slot /\ UNCHANGED pc /\ UNCHANGED votes
    BY <1>3 DEF Recover, RecoverExpired
  <2>2. \A j \in JobIds : /\ jobs'[j].key = jobs[j].key
                          /\ ~Expired(j) => jobs'[j] = jobs[j]
                          /\ Expired(j) => jobs'[j].status = "PENDING"
    <3>1. \A j \in JobIds : jobs[j] \in JobRow
      BY JobTyped
    <3> QED
      BY <1>3, <3>1 DEF Recover, RecoverExpired, JobRow
  <2>3. CASE \E j \in JobIds : jobs[j].key = v /\ Expired(j)
    <3>1. PICK j \in JobIds : jobs[j].key = v /\ Expired(j)
      BY <2>3
    <3>2. \A i \in JobIds : jobs'[i].key = v => i = j
      BY <2>2, <3>1 DEF Young
    <3>3. \A s \in Slots : slot[s].job # j
      <4> SUFFICES ASSUME NEW s \in Slots, slot[s].job = j PROVE FALSE
        OBVIOUS
      <4>1. slot[s] # Idle /\ VoterOf(s) = v
        BY <3>1, JobTableAssumption DEF Idle, VoterOf, JobOf
      <4>2. RowHeld(s)
        BY <4>1, YoungRun
      <4> QED
        BY <3>1, <4>1, <4>2 DEF RowHeld, Expired
    <3> QED
      BY <2>1, <2>2, <3>1, <3>2, <3>3, YoungIdle
  <2>4. CASE ~\E j \in JobIds : jobs[j].key = v /\ Expired(j)
    BY <2>1, <2>2, <2>4, YoungUnmoved DEF ConfirmedKept
  <2> QED
    BY <2>3, <2>4
<1> QED
  BY <1>1, <1>2, <1>3

LEMMA YoungRequest ==
  ASSUME ProjectionInv, ProjectionInv', Ledger, NEW v \in Signers, Young(v), NEW u \in Signers,
         SubmitBallot(u) \/ RetryBallot(u)
  PROVE  Young(v)'
<1>1. u \in Keys /\ Enqueue(u) /\ UNCHANGED slot /\ UNCHANGED pc
  BY SignerKeys DEF SubmitBallot, RetryBallot
<1>2. votes[u].status # "CONFIRMED" /\ \A x \in Signers : x # u => votes'[x] = votes[x]
  BY EnqueueKept, RequestVotes
<1>3. ConfirmedKept(v)
  BY <1>2 DEF ConfirmedKept
<1>4. CASE UNCHANGED jobs
  BY <1>1, <1>3, <1>4, YoungQuiet
<1>5. ASSUME NEW j \in JobIds, jobs[j].key = u, jobs[j].status = "FAILED", Requeue(j)
      PROVE  Young(v)'
  <2>1. /\ \A i \in JobIds : i # j => jobs'[i] = jobs[i]
        /\ jobs'[j].key = u /\ jobs'[j].status = "PENDING"
    BY <1>5, JobTyped, Parts DEF Requeue, TableTypeOK, JobRow
  <2>2. CASE u # v
    BY <1>1, <1>3, <2>1, <2>2, YoungUnmoved
  <2>3. CASE u = v
    <3>1. \A i \in JobIds : jobs'[i].key = v => i = j
      BY <1>5, <2>1, <2>3 DEF Young
    <3>2. \A s \in Slots : slot[s].job # j
      <4> SUFFICES ASSUME NEW s \in Slots, slot[s].job = j PROVE FALSE
        OBVIOUS
      <4>1. slot[s] # Idle /\ VoterOf(s) = v
        BY <1>5, <2>3, JobTableAssumption DEF Idle, VoterOf, JobOf
      <4> QED
        BY <1>5, <4>1, YoungRun
    <3> QED
      BY <1>1, <2>1, <3>1, <3>2, YoungIdle
  <2> QED
    BY <2>2, <2>3
<1>6. CASE Insert(u) /\ ActiveRows(u) = {} /\ FailedRows(u) = {}
  <2>1. PICK j \in JobIds : jobs[j].status = "ABSENT" /\ jobs' = [jobs EXCEPT ![j] = NewRow(u)]
    BY <1>6 DEF Insert, NextId
  <2>2. jobs'[j].status = "PENDING" /\ jobs'[j].key = u
        /\ \A i \in JobIds : i # j => jobs'[i] = jobs[i]
    BY <2>1, Parts DEF TableTypeOK, NewRow, NoRow
  <2>3. CASE u # v
    BY <1>1, <1>3, <2>2, <2>3, YoungUnmoved
  <2>4. CASE u = v
    <3>1. ASSUME NEW i \in JobIds PROVE jobs[i].key # v
      <4> SUFFICES ASSUME jobs[i].key = v PROVE FALSE
        OBVIOUS
      <4>1. jobs[i].status \notin {"PENDING", "RUNNING", "FAILED"}
        BY <1>6, <2>4 DEF ActiveRows, Active, FailedRows
      <4>2. jobs[i].status # "COMPLETED"
        BY <1>2, <2>4 DEF Young
      <4>3. jobs[i].status # "ABSENT"
        BY SignerKeys DEF Ledger, JobsKeyed
      <4>4. jobs[i] \in JobRow
        BY JobTyped
      <4> QED
        BY <4>1, <4>2, <4>3, <4>4 DEF JobRow, JobStatus
    <3>2. \A i \in JobIds : jobs'[i].key = v => i = j
      BY <2>2, <3>1
    <3>3. \A s \in Slots : slot[s].job # j
      <4> SUFFICES ASSUME NEW s \in Slots, slot[s].job = j PROVE FALSE
        OBVIOUS
      <4>1. slot[s] # Idle
        BY JobTableAssumption DEF Idle
      <4> QED
        BY <2>1, <4>1, HeldJob
    <3> QED
      BY <1>1, <2>2, <3>2, <3>3, YoungIdle
  <2> QED
    BY <2>3, <2>4
<1> QED
  BY <1>1, <1>4, <1>5, <1>6 DEF Enqueue, FailedRows

(* The recovery: it leaves the votes it does not undo alone, and makes     *)
(* those it undoes Fresh.                                                  *)
LEMMA UndoMakesFresh ==
  ASSUME ProjectionInv, ProjectionInv', Ledger, RequeueInv, OneWorker, NEW w \in Workers,
         UndoOrphaned(w), NEW v \in Signers, pass[w].rows[v] # NoVote
  PROVE  branch > 1 /\ Fresh(v)'
<1>1. branch > 1
  <2>1. ~Fresh(v)
    BY DEF Fresh, FreshCopy, UndoOrphaned
  <2>2. branch \in Nat /\ branch >= 1
    BY Parts DEF ChainType, Branches
  <2> QED
    BY <2>1, <2>2 DEF RequeueInv
<1>2. KeysKept
  BY UndoJobs DEF KeysKept, Ledger, JobsKeyed
<1>3. votes'[v].status # "CONFIRMED"
  BY <1>2, UndoVotes
<1>4. pass'[w].at \in {"logs", "submitted"}
  BY PassTyped, ChunkAt, Parts DEF UndoOrphaned, PassesOK
<1>5. \A x \in Workers : FreshSeen(v, x)'
  BY <1>4, NothingStale DEF OneWorker
<1> QED
  BY <1>1, <1>3, <1>5 DEF Fresh, FreshSeen

LEMMA YoungUndo ==
  ASSUME ProjectionInv, ProjectionInv', Ledger, NEW w \in Workers,
         UndoOrphaned(w), NEW v \in Signers, Young(v), pass[w].rows[v] = NoVote
  PROVE  Young(v)'
<1>1. \A j \in JobIds : jobs'[j].key = v => jobs'[j] = jobs[j]
  BY UndoJobs DEF Taken
<1>2. UNCHANGED slot /\ UNCHANGED pc /\ votes'[v] = votes[v]
  BY SignerKeys DEF UndoOrphaned
<1> QED
  BY <1>1, <1>2, YoungUnmoved DEF ConfirmedKept

Onward(v) == Young(v)' \/ (branch > 1 /\ Fresh(v)')

LEMMA YoungNext ==
  ASSUME ProjectionInv, ProjectionInv', Ledger, RequeueInv, OneWorker, NEW v \in Signers,
         Young(v), [Next]_vars
  PROVE  Onward(v)
<1>1. votes[v] \in VoteRow /\ v \in Voters /\ votes \in [Voters -> VoteRow]
  BY SignerKeys, Parts DEF VotesOK
<1>2. CASE MineBlock \/ Reorg \/ UNCHANGED vars
  <2>1. UNCHANGED <<jobs, slot, pc>> /\ votes' = votes
    BY <1>2 DEF MineBlock, Reorg
  <2>2. Young(v)'
    BY <2>1, YoungQuiet DEF ConfirmedKept
  <2> QED
    BY <2>2 DEF Onward
<1>3. ASSUME NEW w \in Workers, Index(w) \/ PassThrows(w)
      PROVE  Onward(v)
  <2>1. CASE UndoOrphaned(w)
    <3>1. CASE pass[w].rows[v] = NoVote
      BY <2>1, <3>1, YoungUndo DEF Onward
    <3>2. CASE pass[w].rows[v] # NoVote
      BY <2>1, <3>2, UndoMakesFresh DEF Onward
    <3> QED
      BY <3>1, <3>2
  <2>2. CASE \E from, p : Local(w, from, p)
    <3>1. UNCHANGED <<jobs, slot, pc>> /\ votes' = votes
      BY <2>2 DEF Local
    <3>2. Young(v)'
      BY <3>1, YoungQuiet DEF ConfirmedKept
    <3> QED
      BY <3>2 DEF Onward
  <2>3. CASE CommitChunk(w)
    <3>1. votes'[v] = Upsert(votes[v], pass[w].logs[v]) /\ pass[w].at = "commit"
      BY <1>1, <2>3 DEF CommitChunk
    <3>2. pass[w].logs[v] = NoVote \/ pass[w].logs[v].status = "CONFIRMED"
      BY <3>1 DEF Ledger, CopyGood
    <3>3. pass[w].logs[v] \in VoteRow
      BY <1>1, PassTyped DEF Pass
    <3>4. ConfirmedKept(v)
      BY <3>1, <3>2, <3>3 DEF ConfirmedKept, Upsert, VoteRow
    <3>5. Young(v)'
      BY <2>3, <3>4, YoungQuiet DEF CommitChunk
    <3> QED
      BY <3>5 DEF Onward
  <2>4. CASE FailReverted(w)
    <3>1. votes'[v] = votes[v] \/ votes'[v] = FailedVote(votes[v])
      BY <1>1, <2>4 DEF FailReverted
    <3>2. ConfirmedKept(v)
      BY <1>1, <3>1 DEF ConfirmedKept, FailedVote
    <3>3. Young(v)'
      BY <2>4, <3>2, YoungQuiet DEF FailReverted
    <3> QED
      BY <3>3 DEF Onward
  <2>5. CASE PassThrows(w)
    <3>1. UNCHANGED <<jobs, slot, pc>> /\ votes' = votes
      BY <2>5 DEF PassThrows
    <3>2. Young(v)'
      BY <3>1, YoungQuiet DEF ConfirmedKept
    <3> QED
      BY <3>2 DEF Onward
  <2> QED
    BY <1>3, <2>1, <2>2, <2>3, <2>4, <2>5
       DEF Index, ReadTip, ReadCursor, CompareCursor, SelectAffected, CompareBlocks, GetLogs,
           GetEndBlock, ReadReceipts
<1>4. ASSUME Recover \/ (\E j \in JobIds : Expire(j)) \/ \E w \in Workers : Crash(w)
      PROVE  Onward(v)
  BY <1>4, YoungEnvironment DEF Onward
<1>5. ASSUME NEW s \in Slots, Start(s) \/ Run(s) \/ Throw(s) PROVE Onward(v)
  BY <1>5, YoungRuns DEF Onward
<1>6. ASSUME NEW u \in Signers, SubmitBallot(u) \/ RetryBallot(u) PROVE Onward(v)
  BY <1>6, YoungRequest DEF Onward
<1> QED
  BY <1>2, <1>3, <1>4, <1>5, <1>6 DEF Next

LEMMA RequeueNext ==
  ASSUME MaxReorgs <= 1, ProjectionInv, ProjectionInv', Ledger, RequeueInv, OneWorker,
         [Next]_vars
  PROVE  RequeueInv'
<1>1. branch \in Nat /\ branch >= 1 /\ MaxReorgs \in Nat
  BY Parts, IndexerAssumption DEF ChainType, Branches
<1>2. CASE Reorg
  <2>1. branch = 1 /\ branch' = 2
    BY <1>1, <1>2 DEF Reorg
  <2>2. \A v \in Signers : Young(v)
    BY <2>1 DEF RequeueInv
  <2>3. \A v \in Signers : Young(v)'
    BY <1>2, <2>2, YoungQuiet DEF Reorg, ConfirmedKept
  <2>4. branch' # 1
    BY <2>1
  <2> QED
    BY <2>3, <2>4 DEF RequeueInv
<1>3. CASE branch' = branch
  <2>1. \A v \in Signers : Fresh(v) => Fresh(v)'
    BY <1>3, FreshNext
  <2>2. \A v \in Signers : Young(v) => Onward(v)
    BY YoungNext
  <2> QED
    BY <1>3, <2>1, <2>2 DEF RequeueInv, Onward
<1>4. Reorg \/ branch' = branch
  <2>1. ASSUME NEW w \in Workers, Index(w) \/ PassThrows(w) \/ Crash(w) PROVE branch' = branch
    BY <2>1 DEF Index, ReadTip, ReadCursor, CompareCursor, SelectAffected, CompareBlocks,
       GetLogs, GetEndBlock, ReadReceipts, Local, UndoOrphaned, CommitChunk, FailReverted,
       PassThrows, Crash
  <2>2. ASSUME NEW s \in Slots, Start(s) \/ Run(s) \/ Throw(s) PROVE branch' = branch
    BY <2>2 DEF Start, Run, Throw, LoadVote, Simulate, Prepare, Broadcast, RecordReceipt,
       WaitTimesOut, FinalizeVote, CompleteRun, Step, Fail
  <2> QED
    BY <2>1, <2>2 DEF Next, MineBlock, Recover, SubmitBallot, RetryBallot, Expire
<1> QED
  BY <1>2, <1>3, <1>4

LEMMA InitRequeue == Init => RequeueInv
<1> SUFFICES ASSUME Init, NEW v \in Signers PROVE Fresh(v) /\ Young(v)
  BY DEF RequeueInv
<1>1. votes[v].status = "ABSENT"
  BY SignerKeys DEF Init, NoVotes, NoVote
<1>2. \A w \in Workers : pass[w].at = "idle"
  BY DEF Init, NoPass
<1>3. Fresh(v)
  BY <1>1, <1>2 DEF Fresh, FreshCopy
<1>4. \A j \in JobIds : jobs[j].key # v
  BY SignerKeys DEF Init, TableInit, NoRow
<1>5. \A s \in Slots : slot[s] = Idle
  BY DEF Init, TableInit
<1> QED
  BY <1>3, <1>4, <1>5 DEF Young

LEMMA YoungRequeueFits == ASSUME ProjectionInv, Ledger, RequeueInv PROVE RequeueFits
<1> SUFFICES ASSUME NEW w \in Workers, pass[w].at = "undo", NEW j \in Resent(pass[w].rows)
             PROVE  ~KeyTaken(j)
  BY DEF RequeueFits
<1>1. PICK v \in Voters : pass[w].rows[v].signed /\ pass[w].rows[v].tx = j
  BY DEF Resent
<1>2. v \in Signers /\ pass[w].rows[v] # NoVote
  BY <1>1, PassTyped, NoVoteOK DEF PassOK
<1>3. j \in JobIds /\ jobs[j].key = v
  BY <1>1, <1>2 DEF Ledger, CopyGood, Brought, KeyedTx, Resent
<1>4. Young(v)
  BY <1>2 DEF RequeueInv, Fresh, FreshCopy
<1> QED
  BY <1>3, <1>4 DEF Young, KeyTaken, ActiveRows

(* One worker, one reorganisation of any depth: when the recovery queues   *)
(* the jobs of the orphaned ballots again, no other job of the same ballot *)
(* is active, so the unique index does not refuse it and the pass does not *)
(* fail again and again.                                                   *)
THEOREM RequeueNeverRefused ==
  ASSUME \A x, y \in Workers : x = y, MaxReorgs <= 1
  PROVE  Spec => []RequeueFits
<1>1. OneWorker
  BY DEF OneWorker
<1>2. Init => ProjectionInv /\ Ledger /\ RequeueInv
  BY InitInv, InitLedger, InitRequeue
<1>3. ProjectionInv /\ Ledger /\ RequeueInv /\ [Next]_vars
        => (ProjectionInv /\ Ledger /\ RequeueInv)'
  <2> SUFFICES ASSUME ProjectionInv, Ledger, RequeueInv, [Next]_vars
               PROVE  ProjectionInv' /\ Ledger' /\ RequeueInv'
    OBVIOUS
  <2>1. ProjectionInv'
    BY NextKeeps
  <2>2. Ledger'
    BY <1>1, <2>1, LedgerNext
  <2> QED
    BY <1>1, <2>1, <2>2, RequeueNext
<1>4. ProjectionInv /\ Ledger /\ RequeueInv => RequeueFits
  BY YoungRequeueFits
<1> QED
  BY <1>2, <1>3, <1>4, PTL DEF Spec

-----------------------------------------------------------------------------
(* The cursor leaves no vote behind after a deeper reorganisation.  The    *)
(* blocks deeper than Confirmations + Overlap are Solid; the votes in the  *)
(* solid blocks up to the cursor stay recorded, because the recovery       *)
(* undoes only a vote that has Moved to a block of the new branch, and     *)
(* those are all above the last block it does not scan again.              *)

Solid == Greater(0, tip - Confirmations - Overlap)

Untouched(b) == \A x \in 1..b : hash[x] = 1

Moved(v) == branch = 2 /\ (castAt[v] = 0 \/ hash[castAt[v]] = 2)

(* What a confirmed row, or a copy of one, says of the chain.              *)
Backed(v, row) ==
    row.status = "CONFIRMED" =>
        /\ row.block \in 1..tip
        /\ OnChain(row) \/ Moved(v)
        /\ branch = 1 => castAt[v] = row.block

(* A block and the hash recorded for it.                                   *)
Dated(b, h) ==
    /\ b + Confirmations <= tip
    /\ h = hash[b] \/ (branch = 2 /\ Untouched(b - Overlap))

(* The last block whose votes a pass settles for good.                     *)
Reach(p) == p.safe - Overlap

PassSound(p) ==
    /\ p.safe <= Final
    /\ p.at \in {"compare", "affected", "blocks", "undo"} =>
            cursor.block # 0 /\ p.seen = cursor
    /\ p.at \in {"affected", "blocks", "undo"} =>
            /\ p.next = Resume(cursor.block)
            /\ branch = 2 /\ Untouched(cursor.block - Overlap)
    /\ p.at = "blocks" => \A v \in Voters :
            /\ p.rows[v] = NoVote \/ p.rows[v].status = "CONFIRMED"
            /\ Backed(v, p.rows[v])
    /\ p.at = "undo" => \A v \in Voters : p.rows[v] # NoVote => Moved(v)
    /\ p.at \in {"logs", "end", "commit"} => Done(Lesser(p.next - 1, Reach(p)))
    /\ p.at \in {"end", "commit"} => \A v \in Voters :
            /\ p.logs[v] = NoVote \/ p.logs[v].status = "CONFIRMED"
            /\ Backed(v, p.logs[v])
            /\ castAt[v] \in p.next..Lesser(End(p), Reach(p)) => p.logs[v].status = "CONFIRMED"
    /\ p.at = "commit" => Dated(End(p), p.endHash)

Reported(s) == receipt[s] # 0 => slot[s] # Idle /\ receipt[s] = castAt[VoterOf(s)]

(* Before the reorganisation a vote has one block, and everybody knows it. *)
Early ==
    /\ Untouched(tip)
    /\ \A j \in pool : minedAt[j] = 0
    /\ \A v \in Voters : castAt[v] # 0 /\ castBy[v] # 0 => minedAt[castBy[v]] = castAt[v]
    /\ \A v \in Voters : castAt[v] = 0 => castBy[v] = 0
    /\ \A s \in Slots : Reported(s)

DeepInv ==
    /\ cursor.block # 0 => Dated(cursor.block, cursor.hash)
    /\ Done(cursor.block - Overlap)
    /\ \A v \in Voters : Backed(v, votes[v])
    /\ \A w \in Workers : PassSound(pass[w])
    /\ branch = 1 => Early

(* What every step leaves of the chain.                                    *)
CastKept(v) ==
    \/ castAt'[v] = castAt[v]
    \/ castAt[v] = 0 /\ branch' = branch /\ hash'[castAt'[v]] = branch
    \/ branch = 1 /\ Moved(v)'

ChainKept ==
    /\ tip <= tip' /\ (branch = 2 => branch' = 2) /\ (branch' = 1 => branch = 1)
    /\ \A b \in 1..Solid : hash'[b] = hash[b]
    /\ \A b \in 1..tip : hash'[b] = hash[b] \/ (branch = 1 /\ branch' = 2 /\ hash'[b] = 2)
    /\ \A v \in Voters : castAt'[v] \in 1..Solid => castAt'[v] = castAt[v]
    /\ \A v \in Voters : CastKept(v)

RecordsKept == \A v \in Voters : Counted(v) /\ votes[v].status = "CONFIRMED"
                                    => votes'[v].status = "CONFIRMED"

LEMMA SolidNumber ==
  ASSUME ProjectionInv
  PROVE  /\ tip \in Nat /\ tip >= 1 /\ Solid \in Nat /\ Solid <= tip
         /\ tip - Confirmations - Overlap <= Solid
         /\ Final \in Nat /\ Final - Overlap <= Solid /\ Final <= tip
  BY Parts, Numbers DEF ChainType, Blocks, Solid, Final, Greater

LEMMA TipAfter == ASSUME ProjectionInv' PROVE tip' \in Nat
  BY IndexerAssumption DEF ProjectionInv, TypeOK, Blocks

LEMMA CastTyped ==
  ASSUME ProjectionInv, Ledger, NEW v \in Voters
  PROVE  castAt[v] \in Nat /\ castAt[v] <= tip
  BY Parts, Numbers DEF Ledger, BelowTip, ChainType

LEMMA ChainSame ==
  ASSUME ProjectionInv, UNCHANGED <<tip, hash, castAt, branch>> PROVE ChainKept
  BY SolidNumber DEF ChainKept, CastKept

LEMMA MovedStays ==
  ASSUME ProjectionInv, Ledger, ChainKept, NEW v \in Voters, Moved(v) PROVE Moved(v)'
<1>1. branch = 2 /\ branch' = 2 /\ CastKept(v)
  BY DEF Moved, ChainKept
<1>2. CASE castAt'[v] = castAt[v]
  <2>1. CASE castAt[v] = 0
    BY <1>1, <1>2, <2>1 DEF Moved
  <2>2. CASE castAt[v] # 0
    <3>1. castAt[v] \in 1..tip
      BY <2>2, CastTyped, SolidNumber
    <3>2. hash'[castAt[v]] = hash[castAt[v]]
      BY <1>1, <3>1 DEF ChainKept
    <3> QED
      BY <1>1, <1>2, <2>2, <3>2 DEF Moved
  <2> QED
    BY <2>1, <2>2
<1>3. CASE castAt[v] = 0 /\ hash'[castAt'[v]] = branch
  BY <1>1, <1>3 DEF Moved
<1> QED
  BY <1>1, <1>2, <1>3 DEF CastKept

LEMMA BackedStays ==
  ASSUME ProjectionInv, ProjectionInv', Ledger, ChainKept, NEW v \in Voters, NEW row,
         Backed(v, row)
  PROVE  Backed(v, row)'
<1> SUFFICES ASSUME row.status = "CONFIRMED"
             PROVE  /\ row.block \in 1..tip' /\ (OnChain(row)' \/ Moved(v)')
                    /\ branch' = 1 => castAt'[v] = row.block
  BY DEF Backed
<1>1. /\ row.block \in 1..tip /\ (OnChain(row) \/ Moved(v))
      /\ branch = 1 => castAt[v] = row.block
  BY DEF Backed
<1>2. tip \in Nat /\ tip' \in Nat /\ tip <= tip'
  BY SolidNumber, TipAfter DEF ChainKept
<1>3. row.block \in 1..tip' /\ row.block # 0
  BY <1>1, <1>2
<1>4. CASE Moved(v)
  <2>1. Moved(v)'
    BY <1>4, MovedStays
  <2> QED
    BY <1>3, <2>1 DEF Moved
<1>5. CASE OnChain(row) /\ ~Moved(v)
  <2>1. CASE hash'[row.block] = hash[row.block]
    <3>1. OnChain(row)'
      BY <1>5, <2>1 DEF OnChain
    <3>2. branch' = 1 => castAt'[v] = row.block
      <4> SUFFICES ASSUME branch' = 1 PROVE castAt'[v] = row.block
        OBVIOUS
      <4>1. branch = 1 /\ CastKept(v)
        BY DEF ChainKept
      <4> QED
        BY <1>1, <1>3, <4>1 DEF CastKept, Moved
    <3> QED
      BY <1>3, <3>1, <3>2
  <2>2. CASE branch = 1 /\ branch' = 2 /\ hash'[row.block] = 2
    <3>1. castAt[v] = row.block /\ CastKept(v)
      BY <1>1, <2>2 DEF ChainKept
    <3>2. Moved(v)'
      BY <1>3, <2>2, <3>1 DEF CastKept, Moved
    <3> QED
      BY <1>3, <2>2, <3>2
  <2> QED
    BY <1>1, <2>1, <2>2 DEF ChainKept
<1> QED
  BY <1>1, <1>4, <1>5

LEMMA UntouchedStays ==
  ASSUME ProjectionInv, ChainKept, NEW b \in Int, b <= Solid, Untouched(b)
  PROVE  Untouched(b)'
<1>1. ASSUME NEW x \in 1..b PROVE hash'[x] = 1
  <2>1. x \in 1..Solid
    BY SolidNumber
  <2> QED
    BY <2>1 DEF ChainKept, Untouched
<1> QED
  BY <1>1 DEF Untouched

LEMMA DatedStays ==
  ASSUME ProjectionInv, ProjectionInv', ChainKept, branch = 1 => Untouched(tip),
         NEW b \in Nat, b # 0, NEW h, Dated(b, h)
  PROVE  Dated(b, h)'
<1>1. /\ tip \in Nat /\ tip' \in Nat /\ tip <= tip' /\ b + Confirmations <= tip
      /\ Confirmations \in Nat /\ Overlap \in Nat
  BY SolidNumber, TipAfter, Numbers DEF ChainKept, Dated
<1>2. b + Confirmations <= tip'
  BY <1>1
<1>3. b - Overlap \in Int /\ b - Overlap <= Solid /\ b \in 1..tip
  BY <1>1, SolidNumber
<1>4. CASE h = hash[b] /\ hash'[b] = hash[b]
  BY <1>2, <1>4 DEF Dated
<1>5. CASE branch = 1 /\ branch' = 2
  <2>1. Untouched(b - Overlap)
    BY <1>1, <1>3, <1>5 DEF Untouched
  <2>2. Untouched(b - Overlap)'
    BY <1>3, <2>1, UntouchedStays
  <2> QED
    BY <1>2, <1>5, <2>2 DEF Dated, Untouched
<1>6. CASE branch = 2 /\ Untouched(b - Overlap)
  <2>1. Untouched(b - Overlap)' /\ branch' = 2
    BY <1>3, <1>6, UntouchedStays DEF ChainKept
  <2> QED
    BY <1>2, <2>1 DEF Dated, Untouched
<1> QED
  BY <1>3, <1>4, <1>5, <1>6 DEF Dated, ChainKept

LEMMA SolidDoneStays ==
  ASSUME ProjectionInv, ChainKept, RecordsKept, NEW b \in Int, b <= Solid, Done(b)
  PROVE  Done(b)'
<1> SUFFICES ASSUME NEW v \in Voters, castAt'[v] \in 1..b
             PROVE  votes'[v].status = "CONFIRMED"
  BY DEF Done
<1>1. castAt'[v] \in 1..Solid
  BY SolidNumber
<1>2. castAt'[v] = castAt[v] /\ castAt[v] # 0
  BY <1>1 DEF ChainKept
<1> QED
  BY <1>2 DEF Done, RecordsKept, Counted

LEMMA LaterFinal ==
  ASSUME NEW m \in Nat, NEW n \in Nat, m <= n, NEW k \in Nat
  PROVE  Greater(0, m - k) <= Greater(0, n - k)
  BY DEF Greater

(* What a pass has read and passed by stays sound.                         *)
LEMMA PassBounds ==
  ASSUME ProjectionInv, NEW p, PassOK(p), p.safe <= Final
  PROVE  /\ p \in Pass /\ p.next \in Nat /\ p.safe \in Nat /\ p.next - 1 \in Int
         /\ Reach(p) \in Int /\ Reach(p) <= Solid /\ p.safe <= tip
         /\ Lesser(p.next - 1, Reach(p)) \in Int /\ Lesser(p.next - 1, Reach(p)) <= Solid
<1>1. p \in Pass /\ p.next \in Nat /\ p.safe \in Nat /\ Overlap \in Nat
  BY Numbers DEF PassOK, Pass
<1>2. Reach(p) \in Int /\ Reach(p) <= Solid /\ p.safe <= tip
  BY <1>1, SolidNumber DEF Reach
<1> QED
  BY <1>1, <1>2, SolidNumber DEF Lesser

LEMMA ChunkBounds ==
  ASSUME ProjectionInv, NEW p, PassOK(p), p.safe <= Final, p.at \in {"logs", "end", "commit"}
  PROVE  /\ p.next \in 1..p.safe /\ End(p) \in Nat /\ End(p) >= p.next /\ End(p) <= p.safe
         /\ Lesser(End(p), Reach(p)) \in Int /\ Lesser(End(p), Reach(p)) <= Solid
         /\ End(p) + Confirmations <= tip
<1>1. p \in Pass /\ p.next \in 1..p.safe /\ p.safe \in Nat /\ p.next \in Nat
  BY PassBounds DEF PassOK, NextInside
<1>2. End(p) \in Nat /\ End(p) >= p.next
  BY <1>1, EndInside, Numbers
<1>3. End(p) <= p.safe
  BY <1>1, Numbers DEF End, Lesser
<1>4. Reach(p) \in Int /\ Reach(p) <= Solid
  BY PassBounds
<1>5. Final = tip - Confirmations
  BY <1>1, SolidNumber, Numbers DEF Final, Greater
<1>6. End(p) + Confirmations <= tip
  BY <1>1, <1>2, <1>3, <1>5, SolidNumber, Numbers
<1> QED
  BY <1>1, <1>2, <1>3, <1>4, <1>6, SolidNumber DEF Lesser

LEMMA LogsStay ==
  ASSUME ProjectionInv, ProjectionInv', Ledger, ChainKept, NEW p, PassOK(p), PassSound(p),
         p.at \in {"end", "commit"}, NEW v \in Voters
  PROVE  /\ p.logs[v] = NoVote \/ p.logs[v].status = "CONFIRMED"
         /\ Backed(v, p.logs[v])'
         /\ castAt'[v] \in p.next..Lesser(End(p), Reach(p)) => p.logs[v].status = "CONFIRMED"
<1>1. /\ p.logs[v] = NoVote \/ p.logs[v].status = "CONFIRMED"
      /\ Backed(v, p.logs[v])
      /\ castAt[v] \in p.next..Lesser(End(p), Reach(p)) => p.logs[v].status = "CONFIRMED"
      /\ p.safe <= Final
  BY DEF PassSound
<1>2. Backed(v, p.logs[v])'
  <2>1. PICK row : row = p.logs[v]
    OBVIOUS
  <2>2. Backed(v, row)'
    BY <1>1, <2>1, BackedStays
  <2> QED
    BY <2>1, <2>2
<1>3. p.next..Lesser(End(p), Reach(p)) \subseteq 1..Solid
  BY <1>1, ChunkBounds, PassBounds, SolidNumber
<1>4. castAt'[v] \in p.next..Lesser(End(p), Reach(p)) => castAt'[v] = castAt[v]
  BY <1>3 DEF ChainKept
<1> QED
  BY <1>1, <1>2, <1>4

LEMMA CursorTyped ==
  ASSUME ProjectionInv PROVE cursor.block \in Nat /\ cursor.block \in Heights
  BY Parts, Numbers DEF Cursor

LEMMA CursorBefore ==
  ASSUME ProjectionInv, DeepInv
  PROVE  cursor.block - Overlap \in Int /\ cursor.block - Overlap <= Solid
<1>1. cursor.block \in Nat /\ Overlap \in Nat
  BY CursorTyped, Numbers
<1>2. CASE cursor.block = 0
  BY <1>1, <1>2, SolidNumber
<1>3. CASE cursor.block # 0
  <2>1. cursor.block + Confirmations <= tip
    BY <1>3 DEF DeepInv, Dated
  <2> QED
    BY <1>1, <2>1, SolidNumber, Numbers
<1> QED
  BY <1>2, <1>3

LEMMA PassSoundStays ==
  ASSUME ProjectionInv, ProjectionInv', Ledger, DeepInv, ChainKept, RecordsKept,
         UNCHANGED cursor, NEW p, PassOK(p), PassSound(p)
  PROVE  PassSound(p)'
<1>1. p.safe <= Final /\ p.safe \in Nat
  BY PassBounds DEF PassSound
<1>2. p.safe <= Final'
  <2>1. tip \in Nat /\ tip' \in Nat /\ tip <= tip' /\ Confirmations \in Nat
    BY SolidNumber, TipAfter, Numbers DEF ChainKept
  <2>2. Final <= Final' /\ Final \in Nat /\ Final' \in Nat
    BY <2>1, LaterFinal, FinalNumber, FinalNumberAfter DEF Final
  <2> QED
    BY <1>1, <2>2
<1>3. p.at \in {"compare", "affected", "blocks", "undo"} => cursor'.block # 0 /\ p.seen = cursor'
  BY DEF PassSound
<1>4. ASSUME p.at \in {"affected", "blocks", "undo"}
      PROVE  /\ p.next = Resume(cursor'.block)
             /\ branch' = 2 /\ Untouched(cursor.block - Overlap)'
  <2>1. branch = 2 /\ Untouched(cursor.block - Overlap) /\ p.next = Resume(cursor.block)
    BY <1>4 DEF PassSound
  <2>2. PICK b \in Int : b = cursor.block - Overlap /\ b <= Solid
    BY CursorBefore
  <2>3. Untouched(b)'
    BY <2>1, <2>2, UntouchedStays
  <2>4. Untouched(cursor.block - Overlap)'
    BY <2>2, <2>3 DEF Untouched
  <2> QED
    BY <2>1, <2>4 DEF ChainKept
<1>5. ASSUME p.at = "blocks", NEW v \in Voters 
      PROVE  (p.rows[v] = NoVote \/ p.rows[v].status = "CONFIRMED") /\ Backed(v, p.rows[v])'
  <2>1. PICK row : row = p.rows[v]
    OBVIOUS
  <2>2. Backed(v, row)'
    BY <1>5, <2>1, BackedStays DEF PassSound
  <2> QED
    BY <1>5, <2>1, <2>2 DEF PassSound
<1>6. ASSUME p.at = "undo", NEW v \in Voters, p.rows[v] # NoVote PROVE Moved(v)'
  BY <1>6, MovedStays DEF PassSound
<1>7. ASSUME p.at \in {"logs", "end", "commit"} PROVE Done(Lesser(p.next - 1, Reach(p)))'
  <2>1. PICK b \in Int : b = Lesser(p.next - 1, Reach(p)) /\ b <= Solid
    BY <1>1, PassBounds
  <2>2. Done(b)'
    BY <1>7, <2>1, SolidDoneStays DEF PassSound
  <2> QED
    BY <2>1, <2>2 DEF Lesser, Reach
<1>8. ASSUME p.at \in {"end", "commit"}, NEW v \in Voters
      PROVE  /\ p.logs[v] = NoVote \/ p.logs[v].status = "CONFIRMED"
             /\ Backed(v, p.logs[v])'
             /\ castAt'[v] \in p.next..Lesser(End(p), Reach(p)) => p.logs[v].status = "CONFIRMED"
  BY <1>8, LogsStay
<1>9. ASSUME p.at = "commit" PROVE Dated(End(p), p.endHash)'
  <2>1. PICK b \in Nat : b = End(p) /\ b # 0
    BY <1>1, <1>9, ChunkBounds
  <2>2. Dated(b, p.endHash)
    BY <1>9, <2>1 DEF PassSound
  <2>3. Dated(b, p.endHash)'
    BY <2>1, <2>2, DatedStays DEF DeepInv, Early
  <2> QED
    BY <2>1, <2>3
<1> QED
  BY <1>2, <1>3, <1>4, <1>5, <1>6, <1>7, <1>8, <1>9 DEF PassSound, Lesser, Reach, End

LEMMA PassSoundAs ==
  ASSUME NEW w \in Workers, NEW p, pass'[w] = p, PassSound(p)'
  PROVE  PassSound(pass[w])'
  BY DEF PassSound, Done, End, Reach, Backed, Dated, OnChain

(* Every step that leaves the cursor and the recorded votes alone.         *)
LEMMA DeepStep ==
  ASSUME ProjectionInv, ProjectionInv', Ledger, DeepInv, ChainKept, RecordsKept,
         UNCHANGED cursor, branch' = 1 => Early',
         \A v \in Voters : votes'[v] = votes[v] \/ Backed(v, votes[v])',
         \A w \in Workers : pass'[w] = pass[w] \/ PassSound(pass[w])'
  PROVE  DeepInv'
<1>1. cursor'.block # 0 => Dated(cursor.block, cursor.hash)'
  <2> SUFFICES ASSUME cursor.block # 0 PROVE Dated(cursor.block, cursor.hash)'
    OBVIOUS
  <2>1. PICK b \in Nat : b = cursor.block
    BY CursorTyped
  <2>2. PICK h : h = cursor.hash
    OBVIOUS
  <2>3. Dated(b, h)'
    BY <2>1, <2>2, DatedStays DEF DeepInv, Early
  <2> QED
    BY <2>1, <2>2, <2>3 DEF Dated
<1>2. Done(cursor.block - Overlap)'
  <2>1. PICK b \in Int : b = cursor.block - Overlap /\ b <= Solid
    BY CursorBefore
  <2>2. Done(b)'
    BY <2>1, SolidDoneStays DEF DeepInv
  <2> QED
    BY <2>1, <2>2 DEF Done
<1>3. ASSUME NEW v \in Voters, votes'[v] = votes[v] PROVE Backed(v, votes[v])'
  <2>1. PICK row : row = votes[v]
    OBVIOUS
  <2>2. Backed(v, row)'
    BY <2>1, BackedStays DEF DeepInv
  <2> QED
    BY <1>3, <2>1, <2>2 DEF Backed, OnChain
<1>4. ASSUME NEW w \in Workers, pass'[w] = pass[w] PROVE PassSound(pass[w])'
  <2>1. PICK p : p = pass[w]
    OBVIOUS
  <2>2. PassSound(p)'
    BY <2>1, PassTyped, PassSoundStays DEF DeepInv
  <2> QED
    BY <1>4, <2>1, <2>2, PassSoundAs
<1> QED
  BY <1>1, <1>2, <1>3, <1>4 DEF DeepInv

(* The steps of a pass.                                                    *)
LEMMA EarlySame ==
  ASSUME Early, UNCHANGED <<jobs, slot, tip, hash, castAt, castBy, minedAt, pool, receipt>>
  PROVE  Early'
  BY DEF Early, Untouched, Reported, VoterOf, JobOf

LEMMA PassSoundUnmoved ==
  ASSUME NEW p, PassSound(p), UNCHANGED <<tip, hash, castAt, branch, votes, cursor>>
  PROVE  PassSound(p)'
  BY DEF PassSound, Final, Done, End, Reach, Backed, Dated, OnChain, Moved, Untouched

LEMMA LocalDeep ==
  ASSUME ProjectionInv, ProjectionInv', Ledger, DeepInv, NEW w \in Workers, NEW from, NEW p,
         Local(w, from, p), PassSound(p)
  PROVE  DeepInv'
<1>1. /\ UNCHANGED <<jobs, slot, tip, hash, castAt, castBy, minedAt, pool, receipt>>
      /\ UNCHANGED <<tip, hash, castAt, branch, votes, cursor>>
      /\ pass' = [pass EXCEPT ![w] = p]
  BY DEF Local
<1>2. ChainKept /\ RecordsKept
  BY <1>1, ChainSame DEF RecordsKept
<1>3. branch' = 1 => Early'
  BY <1>1, EarlySame DEF DeepInv
<1>4. PassSound(p)'
  BY <1>1, PassSoundUnmoved
<1>5. pass'[w] = p /\ \A x \in Workers : x # w => pass'[x] = pass[x]
  BY <1>1, Parts DEF PassesOK
<1>6. PassSound(pass[w])'
  BY <1>4, <1>5, PassSoundAs
<1>7. UNCHANGED cursor /\ \A v \in Voters : votes'[v] = votes[v]
  BY <1>1
<1> QED
  BY <1>2, <1>3, <1>5, <1>6, <1>7, DeepStep

LEMMA NoPassSound == ASSUME ProjectionInv PROVE PassSound(NoPass)
  BY SolidNumber DEF PassSound, NoPass

LEMMA ChunkSound ==
  ASSUME NEW p \in Pass, p.safe <= Final, Done(Lesser(p.next - 1, Reach(p)))
  PROVE  PassSound(Chunk(p))
<1>1. /\ Chunk(p).at = IF p.next <= p.safe THEN "logs" ELSE "submitted"
      /\ Chunk(p).safe = p.safe /\ Chunk(p).next = p.next
  BY DEF Chunk, Pass
<1> QED
  BY <1>1 DEF PassSound, Reach

(* Everything up to the last block a pass does not scan again is recorded. *)
LEMMA ResumeBounds ==
  ASSUME ProjectionInv, NEW p \in Pass, p.next = Resume(cursor.block)
  PROVE  1..Lesser(p.next - 1, Reach(p)) \subseteq 1..(cursor.block - Overlap)
<1>1. cursor.block \in Nat /\ Overlap \in Nat /\ p.safe \in Nat /\ p.next \in Nat
  BY CursorTyped, Numbers DEF Pass
<1>2. p.next - 1 = Greater(0, cursor.block - Overlap)
  BY <1>1 DEF Resume, Greater
<1> QED
  BY <1>1, <1>2 DEF Lesser, Greater, Reach

LEMMA ResumeSound ==
  ASSUME ProjectionInv, DeepInv, NEW p \in Pass, p.next = Resume(cursor.block)
  PROVE  Done(Lesser(p.next - 1, Reach(p)))
  BY ResumeBounds DEF DeepInv, Done

LEMMA SoundTyped ==
  ASSUME ProjectionInv, DeepInv, NEW w \in Workers
  PROVE  /\ pass[w] \in Pass /\ PassOK(pass[w]) /\ PassSound(pass[w])
         /\ pass[w].safe \in Nat /\ pass[w].next \in Nat /\ pass[w].safe <= Final
  BY PassTyped, Numbers DEF DeepInv, Pass, PassSound

LEMMA ReadTipDeep ==
  ASSUME ProjectionInv, ProjectionInv', Ledger, DeepInv, NEW w \in Workers, ReadTip(w)
  PROVE  DeepInv'
<1> DEFINE p == [NoPass EXCEPT !.at = "cursor", !.safe = Final]
<1>1. PassSound(p)
  BY SolidNumber DEF PassSound, NoPass
<1>2. Local(w, "idle", p)
  BY DEF ReadTip, Final
<1> QED
  BY <1>1, <1>2, LocalDeep

LEMMA ReadCursorDeep ==
  ASSUME ProjectionInv, ProjectionInv', Ledger, DeepInv, NEW w \in Workers, ReadCursor(w)
  PROVE  DeepInv'
<1> DEFINE first == [pass[w] EXCEPT !.next = 1]
           p == [pass[w] EXCEPT !.at = "compare", !.seen = cursor]
<1>1. CASE cursor.block = 0
  <2>1. first \in Pass /\ first.next = 1 /\ first.safe <= Final /\ first.safe \in Nat
    BY SoundTyped DEF Pass
  <2>2. Reach(first) \in Int
    BY <2>1, Numbers DEF Reach
  <2> HIDE DEF first
  <2>3. Done(Lesser(first.next - 1, Reach(first)))
    BY <2>1, <2>2 DEF Done, Lesser
  <2>4. PassSound(Chunk(first))
    BY <2>1, <2>3, ChunkSound
  <2> QED
    BY <1>1, <2>4, LocalDeep DEF ReadCursor, first
<1>2. CASE cursor.block # 0
  <2>1. p.at = "compare" /\ p.seen = cursor /\ p.safe <= Final
    BY SoundTyped DEF Pass
  <2>2. PassSound(p)
    BY <1>2, <2>1 DEF PassSound
  <2> QED
    BY <1>2, <2>2, LocalDeep DEF ReadCursor
<1> QED
  BY <1>1, <1>2

LEMMA CompareCursorDeep ==
  ASSUME ProjectionInv, ProjectionInv', Ledger, DeepInv, NEW w \in Workers, CompareCursor(w)
  PROVE  DeepInv'
<1> DEFINE p == [pass[w] EXCEPT !.next = Resume(pass[w].seen.block)]
           q == [p EXCEPT !.at = "affected"]
<1>1. pass[w].at = "compare" /\ pass[w].seen = cursor /\ cursor.block # 0 /\ pass[w] \in Pass
  BY SoundTyped DEF CompareCursor, Local, PassSound
<1>2. p \in Pass /\ p.seen = cursor /\ p.safe <= Final /\ p.next = Resume(cursor.block)
  BY <1>1, SoundTyped, ResumeOK, CursorTyped DEF Pass
<1>3. /\ q.at = "affected" /\ q.seen = cursor /\ q.safe <= Final
      /\ q.next = Resume(cursor.block)
  BY <1>2 DEF Pass
<1>4. Local(w, "compare", IF p.seen.hash # 0 /\ hash[p.seen.block] # p.seen.hash
                          THEN q ELSE Chunk(p))
  BY DEF CompareCursor
<1> HIDE DEF p, q
<1>5. PassSound(Chunk(p))
  BY <1>2, ResumeSound, ChunkSound
<1>6. CASE hash[p.seen.block] # p.seen.hash
  <2>1. branch = 2 /\ Untouched(cursor.block - Overlap)
    BY <1>1, <1>2, <1>6 DEF DeepInv, Dated
  <2>2. PassSound(q)
    BY <1>1, <1>3, <2>1 DEF PassSound
  <2> QED
    BY <1>4, <1>5, <2>2, LocalDeep
<1> QED
  BY <1>4, <1>5, <1>6, LocalDeep

LEMMA NoVoteBacked == ASSUME NEW v PROVE Backed(v, NoVote)
  BY DEF Backed, NoVote

LEMMA SelectAffectedDeep ==
  ASSUME ProjectionInv, ProjectionInv', Ledger, DeepInv, NEW w \in Workers, SelectAffected(w)
  PROVE  DeepInv'
<1> DEFINE rows == [v \in Voters |->
                IF votes[v].status = "CONFIRMED" /\ votes[v].block >= pass[w].next
                THEN votes[v] ELSE NoVote]
           p == [pass[w] EXCEPT !.at = "blocks", !.rows = rows]
<1>1. \A v \in Voters : (rows[v] = NoVote \/ rows[v].status = "CONFIRMED") /\ Backed(v, rows[v])
  BY NoVoteBacked DEF DeepInv
<1>2. Local(w, "affected", p) /\ pass[w].at = "affected"
  BY DEF SelectAffected, Local
<1> HIDE DEF rows
<1>3. /\ p.at = "blocks" /\ p.rows = rows /\ p.next = pass[w].next /\ p.seen = pass[w].seen
      /\ p.safe = pass[w].safe
  BY SoundTyped DEF Pass
<1> HIDE DEF p
<1>4. PassSound(p)
  BY <1>1, <1>2, <1>3, SoundTyped DEF PassSound
<1> QED
  BY <1>2, <1>4, LocalDeep

LEMMA CompareBlocksDeep ==
  ASSUME ProjectionInv, ProjectionInv', Ledger, DeepInv, NEW w \in Workers, CompareBlocks(w)
  PROVE  DeepInv'
<1> DEFINE orphaned == {v \in Voters : pass[w].rows[v] # NoVote
                            /\ hash[pass[w].rows[v].block] # pass[w].rows[v].hash}
           rows == [v \in Voters |-> IF v \in orphaned THEN pass[w].rows[v] ELSE NoVote]
           p == [pass[w] EXCEPT !.at = "undo", !.rows = rows]
<1>1. /\ Local(w, "blocks", IF orphaned = {} THEN Chunk(pass[w]) ELSE p)
      /\ pass[w].at = "blocks" /\ pass[w].next = Resume(cursor.block)
  BY SoundTyped DEF CompareBlocks, Local, PassSound
<1>2. ASSUME NEW v \in Voters, rows[v] # NoVote PROVE Moved(v)
  <2>1. v \in orphaned
    BY <1>2
  <2>2. pass[w].rows[v] # NoVote /\ ~OnChain(pass[w].rows[v]) /\ Backed(v, pass[w].rows[v])
    BY <1>1, <2>1, SoundTyped DEF PassSound, OnChain
  <2>3. pass[w].rows[v].status = "CONFIRMED"
    BY <1>1, <2>2, SoundTyped DEF PassSound
  <2> QED
    BY <2>2, <2>3 DEF Backed
<1> HIDE DEF rows, orphaned
<1>3. /\ p.at = "undo" /\ p.rows = rows /\ p.next = pass[w].next /\ p.seen = pass[w].seen
      /\ p.safe = pass[w].safe
  BY SoundTyped DEF Pass
<1> HIDE DEF p
<1>4. PassSound(p)
  BY <1>1, <1>2, <1>3, SoundTyped DEF PassSound
<1>5. PassSound(Chunk(pass[w]))
  BY <1>1, SoundTyped, ResumeSound, ChunkSound
<1> QED
  BY <1>1, <1>4, <1>5, LocalDeep

LEMMA GetLogsDeep ==
  ASSUME ProjectionInv, ProjectionInv', Ledger, DeepInv, NEW w \in Workers, GetLogs(w)
  PROVE  DeepInv'
<1> DEFINE log(v) == [status |-> "CONFIRMED", tx |-> castBy[v], block |-> castAt[v],
                      hash |-> hash[castAt[v]], signed |-> FALSE]
           logs == [v \in Voters |->
                IF castAt[v] \in pass[w].next..End(pass[w]) THEN log(v) ELSE NoVote]
           p == [pass[w] EXCEPT !.at = "end", !.logs = logs]
<1>1. Local(w, "logs", p) /\ pass[w].at = "logs"
  BY DEF GetLogs, Local
<1>2. /\ pass[w].next \in 1..pass[w].safe /\ pass[w].safe <= tip /\ End(pass[w]) \in Nat
      /\ End(pass[w]) <= pass[w].safe /\ pass[w].safe \in Nat /\ Reach(pass[w]) \in Int
  BY <1>1, SoundTyped, ChunkBounds, PassBounds
<1>3. ASSUME NEW v \in Voters
      PROVE  /\ logs[v] = NoVote \/ logs[v].status = "CONFIRMED"
             /\ Backed(v, logs[v])
             /\ castAt[v] \in pass[w].next..Lesser(End(pass[w]), Reach(pass[w]))
                  => logs[v].status = "CONFIRMED"
  <2>1. CASE castAt[v] \in pass[w].next..End(pass[w])
    <3>1. castAt[v] \in 1..tip
      BY <1>2, <2>1, SolidNumber
    <3>2. /\ logs[v].status = "CONFIRMED" /\ logs[v].block = castAt[v]
          /\ logs[v].hash = hash[castAt[v]]
      BY <2>1
    <3> HIDE DEF logs
    <3> QED
      BY <3>1, <3>2 DEF Backed, OnChain
  <2>2. CASE castAt[v] \notin pass[w].next..End(pass[w])
    <3>1. logs[v] = NoVote
      BY <2>2
    <3>2. castAt[v] \notin pass[w].next..Lesser(End(pass[w]), Reach(pass[w]))
      BY <1>2, <2>2 DEF Lesser
    <3> HIDE DEF logs
    <3> QED
      BY <3>1, <3>2, NoVoteBacked
  <2> QED
    BY <2>1, <2>2
<1> HIDE DEF logs
<1>4. /\ p.at = "end" /\ p.next = pass[w].next /\ p.safe = pass[w].safe /\ p.logs = logs
      /\ End(p) = End(pass[w]) /\ Reach(p) = Reach(pass[w])
  BY SoundTyped DEF Pass, End, Reach
<1>5. Done(Lesser(pass[w].next - 1, Reach(pass[w]))) /\ pass[w].safe <= Final
  BY <1>1, SoundTyped DEF PassSound
<1> HIDE DEF p
<1>6. PassSound(p)
  BY <1>3, <1>4, <1>5 DEF PassSound
<1> QED
  BY <1>1, <1>6, LocalDeep

LEMMA GetEndBlockDeep ==
  ASSUME ProjectionInv, ProjectionInv', Ledger, DeepInv, NEW w \in Workers, GetEndBlock(w)
  PROVE  DeepInv'
<1> DEFINE p == [pass[w] EXCEPT !.at = "commit", !.endHash = hash[End(pass[w])]]
<1>1. Local(w, "end", p) /\ pass[w].at = "end"
  BY DEF GetEndBlock, Local
<1>2. /\ p.at = "commit" /\ p.next = pass[w].next /\ p.safe = pass[w].safe
      /\ p.logs = pass[w].logs /\ p.endHash = hash[End(p)]
      /\ End(p) = End(pass[w]) /\ Reach(p) = Reach(pass[w])
  BY SoundTyped DEF Pass, End, Reach
<1>3. Dated(End(p), p.endHash)
  BY <1>1, <1>2, SoundTyped, ChunkBounds DEF Dated
<1> HIDE DEF p
<1>4. PassSound(p)
  BY <1>1, <1>2, <1>3, SoundTyped DEF PassSound
<1> QED
  BY <1>1, <1>4, LocalDeep

LEMMA ReadReceiptsDeep ==
  ASSUME ProjectionInv, ProjectionInv', Ledger, DeepInv, NEW w \in Workers, ReadReceipts(w)
  PROVE  DeepInv'
<1>1. PICK r : \/ Local(w, "submitted", NoPass)
               \/ Local(w, "submitted", [NoPass EXCEPT !.at = "fail", !.rows = r])
  BY DEF ReadReceipts
<1>2. PassSound([NoPass EXCEPT !.at = "fail", !.rows = r])
  BY SolidNumber DEF PassSound, NoPass
<1> QED
  BY <1>1, <1>2, NoPassSound, LocalDeep

(* The chunk's rows and the cursor.                                        *)
LEMMA UpsertBacked ==
  ASSUME NEW v, NEW row, NEW log \in VoteRow, Backed(v, row), Backed(v, log)
  PROVE  Backed(v, Upsert(row, log))
<1> DEFINE new == [log EXCEPT !.signed = row.signed]
<1>1. new.status = log.status /\ new.block = log.block /\ new.hash = log.hash
  BY DEF VoteRow
<1>2. Upsert(row, log) = IF log = NoVote THEN row ELSE new
  BY DEF Upsert
<1> HIDE DEF new
<1>3. Backed(v, new)
  BY <1>1 DEF Backed, OnChain
<1> QED
  BY <1>2, <1>3

LEMMA UpsertConfirmed ==
  ASSUME NEW row, NEW log \in VoteRow, log = NoVote \/ log.status = "CONFIRMED",
         row.status = "CONFIRMED" \/ log.status = "CONFIRMED"
  PROVE  Upsert(row, log).status = "CONFIRMED"
<1>1. CASE log = NoVote
  BY <1>1 DEF Upsert, NoVote
<1>2. CASE log # NoVote
  <2>1. [log EXCEPT !.signed = row.signed].status = log.status
    BY DEF VoteRow
  <2> QED
    BY <1>2, <2>1 DEF Upsert
<1> QED
  BY <1>1, <1>2

LEMMA CommitChunkDeep ==
  ASSUME ProjectionInv, ProjectionInv', Ledger, OneWorker, DeepInv, NEW w \in Workers,
         CommitChunk(w)
  PROVE  DeepInv'
<1>0. PICK p : p = pass[w]
  OBVIOUS
<1> DEFINE e == End(p)
           next == Chunk([p EXCEPT !.next = e + 1])
<1>1. p \in Pass /\ PassOK(p) /\ PassSound(p) /\ p.at = "commit" /\ p.safe <= Final
  BY <1>0, SoundTyped DEF CommitChunk
<1>2. /\ p.next \in 1..p.safe /\ e \in Nat /\ e >= p.next /\ e <= p.safe /\ e # 0
      /\ p.safe \in Nat /\ p.next \in Nat /\ Reach(p) \in Int /\ Overlap \in Nat
      /\ e - Overlap <= Reach(p)
  <2>1. p.next \in 1..p.safe /\ e \in Nat /\ e >= p.next /\ e <= p.safe
        /\ p.safe \in Nat /\ p.next \in Nat /\ Reach(p) \in Int /\ Overlap \in Nat
    BY <1>1, ChunkBounds, PassBounds, Numbers
  <2>2. e # 0 /\ e - Overlap <= Reach(p)
    BY <2>1 DEF Reach
  <2> QED
    BY <2>1, <2>2
<1>3. /\ votes' = [v \in Voters |-> Upsert(votes[v], p.logs[v])]
      /\ cursor' = [block |-> e, hash |-> p.endHash]
      /\ pass' = [pass EXCEPT ![w] = next]
      /\ UNCHANGED <<tip, hash, castAt, branch>>
      /\ UNCHANGED <<jobs, slot, tip, hash, castAt, castBy, minedAt, pool, receipt>>
  BY <1>0 DEF CommitChunk
<1>4. ASSUME NEW v \in Voters
      PROVE  /\ Backed(v, votes'[v])
             /\ votes[v].status = "CONFIRMED" => votes'[v].status = "CONFIRMED"
             /\ p.logs[v].status = "CONFIRMED" => votes'[v].status = "CONFIRMED"
  <2>1. /\ p.logs[v] \in VoteRow /\ Backed(v, p.logs[v]) /\ Backed(v, votes[v])
        /\ p.logs[v] = NoVote \/ p.logs[v].status = "CONFIRMED"
    BY <1>1 DEF Pass, PassSound, DeepInv
  <2>2. votes'[v] = Upsert(votes[v], p.logs[v])
    BY <1>3
  <2> QED
    BY <2>1, <2>2, UpsertBacked, UpsertConfirmed
<1> HIDE DEF next
<1>5. ASSUME NEW v \in Voters, castAt[v] \in 1..Lesser(e, Reach(p))
      PROVE  votes'[v].status = "CONFIRMED"
  <2>1. CASE castAt[v] \in 1..Lesser(p.next - 1, Reach(p))
    BY <1>1, <1>4, <2>1 DEF PassSound, Done
  <2>2. CASE castAt[v] \in p.next..Lesser(e, Reach(p))
    BY <1>1, <1>4, <2>2 DEF PassSound
  <2>3. castAt[v] \in Nat /\ (castAt[v] >= p.next \/ castAt[v] <= p.next - 1)
    BY <1>2, CastTyped
  <2> HIDE DEF e
  <2> QED
    BY <1>2, <1>5, <2>1, <2>2, <2>3 DEF Lesser
<1>6. Done(cursor.block - Overlap)'
  <2>1. cursor'.block = e
    BY <1>3
  <2> HIDE DEF e
  <2>2. ASSUME NEW v \in Voters, castAt[v] \in 1..(e - Overlap)
        PROVE  votes'[v].status = "CONFIRMED"
    <3>1. castAt[v] \in 1..Lesser(e, Reach(p))
      BY <1>2, <2>2 DEF Lesser
    <3> QED
      BY <1>5, <3>1
  <2> QED
    BY <1>3, <2>1, <2>2 DEF Done
<1>7. Dated(cursor.block, cursor.hash)'
  <2>1. Dated(e, p.endHash)
    BY <1>1 DEF PassSound
  <2>2. cursor'.block = e /\ cursor'.hash = p.endHash
    BY <1>3
  <2> HIDE DEF e
  <2> QED
    BY <1>3, <2>1, <2>2 DEF Dated, Untouched
<1>8. \A v \in Voters : Backed(v, votes[v])'
  BY <1>3, <1>4 DEF Backed, OnChain, Moved
<1>9. PassSound(pass[w])'
  <2>1. PICK q : q = next
    OBVIOUS
  <2>2. /\ q.at = IF e + 1 <= p.safe THEN "logs" ELSE "submitted"
        /\ q.safe = p.safe /\ q.next = e + 1
    BY <2>1, <1>1, <1>2 DEF Chunk, Pass, next
  <2>3. q.next - 1 = e /\ Reach(q) = Reach(p)
    BY <1>2, <2>2 DEF Reach
  <2> HIDE DEF e
  <2>4. Done(Lesser(q.next - 1, Reach(q)))'
    BY <1>3, <1>5, <2>3 DEF Done, Lesser, Reach
  <2>5. q.safe <= Final'
    BY <1>1, <1>3, <2>2 DEF Final
  <2>6. PassSound(q)'
    BY <2>2, <2>4, <2>5 DEF PassSound
  <2>7. pass'[w] = q
    BY <1>3, <2>1, Parts DEF PassesOK
  <2> QED
    BY <2>6, <2>7, PassSoundAs
<1>10. branch' = 1 => Early'
  BY <1>3, EarlySame DEF DeepInv
<1> QED
  BY <1>6, <1>7, <1>8, <1>9, <1>10 DEF DeepInv, OneWorker

(* The recovery undoes no vote in a block that is not scanned again.       *)
LEMMA UndoneOpen ==
  ASSUME NEW row, NEW copy PROVE Undone(row, copy).status # "CONFIRMED" \/ row \notin VoteRow
  BY DEF Undone, NoVote, VoteRow

LEMMA UndoOrphanedDeep ==
  ASSUME ProjectionInv, ProjectionInv', Ledger, OneWorker, DeepInv, NEW w \in Workers,
         UndoOrphaned(w)
  PROVE  DeepInv'
<1>1. PICK p : p = pass[w]
  OBVIOUS
<1>2. /\ p.at = "undo" /\ p \in Pass /\ p.safe <= Final /\ p.next = Resume(cursor.block)
      /\ branch = 2 /\ Untouched(cursor.block - Overlap)
      /\ \A v \in Voters : p.rows[v] # NoVote => Moved(v)
  BY <1>1, SoundTyped DEF UndoOrphaned, PassSound
<1>3. /\ UNCHANGED <<tip, hash, castAt, branch, cursor>>
      /\ pass' = [pass EXCEPT ![w] = Chunk(p)]
      /\ votes' = [v \in Voters |-> IF p.rows[v] # NoVote
                                    THEN Undone(votes[v], p.rows[v]) ELSE votes[v]]
  BY <1>1 DEF UndoOrphaned
<1>4. \A v \in Voters : votes[v] \in VoteRow
  BY Parts DEF VotesOK
<1>5. ASSUME NEW v \in Voters PROVE Backed(v, votes[v])'
  <2>1. CASE p.rows[v] # NoVote
    <3>1. votes'[v].status # "CONFIRMED"
      BY <1>3, <1>4, <2>1, UndoneOpen
    <3> QED
      BY <3>1 DEF Backed
  <2>2. CASE p.rows[v] = NoVote
    <3>1. votes'[v] = votes[v] /\ Backed(v, votes[v])
      BY <1>3, <2>2 DEF DeepInv
    <3> QED
      BY <1>3, <3>1 DEF Backed, OnChain, Moved
  <2> QED
    BY <2>1, <2>2
<1>6. ASSUME NEW v \in Voters, castAt[v] \in 1..(cursor.block - Overlap)
      PROVE  votes'[v].status = "CONFIRMED"
  <2>1. castAt[v] # 0 /\ hash[castAt[v]] = 1
    BY <1>2, <1>6, CastTyped, CursorTyped, Numbers DEF Untouched
  <2>2. p.rows[v] = NoVote
    BY <1>2, <2>1 DEF Moved
  <2>3. votes[v].status = "CONFIRMED"
    BY <1>6 DEF DeepInv, Done
  <2> QED
    BY <1>3, <2>2, <2>3
<1>7. Done(cursor.block - Overlap)'
  BY <1>3, <1>6 DEF Done
<1>8. cursor'.block # 0 => Dated(cursor.block, cursor.hash)'
  BY <1>3 DEF DeepInv, Dated, Untouched
<1>9. PassSound(pass[w])'
  <2>1. PICK q : q = Chunk(p)
    OBVIOUS
  <2>2. /\ q.at = IF p.next <= p.safe THEN "logs" ELSE "submitted"
        /\ q.safe = p.safe /\ q.next = p.next
    BY <2>1, <1>2 DEF Chunk, Pass
  <2>3. 1..Lesser(q.next - 1, Reach(q)) \subseteq 1..(cursor.block - Overlap)
    BY <1>2, <2>2, ResumeBounds DEF Reach
  <2>4. Done(Lesser(q.next - 1, Reach(q)))'
    BY <1>3, <1>6, <2>3 DEF Done, Lesser, Reach
  <2>5. q.safe <= Final'
    BY <1>2, <1>3, <2>2 DEF Final
  <2>6. PassSound(q)'
    BY <2>2, <2>4, <2>5 DEF PassSound
  <2>7. pass'[w] = q
    BY <1>3, <2>1, Parts DEF PassesOK
  <2> QED
    BY <2>6, <2>7, PassSoundAs
<1>10. branch' # 1
  BY <1>2, <1>3
<1> QED
  BY <1>5, <1>7, <1>8, <1>9, <1>10 DEF DeepInv, OneWorker

(* The other steps leave the cursor alone and at most end passes.          *)
VoteSound(v) ==
    \/ votes'[v] = votes[v]
    \/ votes'[v].status = "CONFIRMED" /\ Backed(v, votes[v])'
    \/ votes'[v].status # "CONFIRMED" /\ ~(Counted(v) /\ votes[v].status = "CONFIRMED")

LEMMA OtherDeep ==
  ASSUME ProjectionInv, ProjectionInv', Ledger, DeepInv, ChainKept, UNCHANGED cursor,
         branch' = 1 => Early', \A v \in Voters : VoteSound(v),
         \A w \in Workers : pass'[w] = pass[w] \/ pass'[w] = NoPass
  PROVE  DeepInv'
<1>1. RecordsKept
  BY DEF RecordsKept, VoteSound
<1>2. \A v \in Voters : votes'[v] = votes[v] \/ Backed(v, votes[v])'
  BY DEF VoteSound, Backed
<1>3. PassSound(NoPass)'
  BY FinalNumberAfter DEF PassSound, NoPass
<1>4. \A w \in Workers : pass'[w] = NoPass => PassSound(pass[w])'
  BY <1>3, PassSoundAs
<1> QED
  BY <1>1, <1>2, <1>4, DeepStep

LEMMA QuietDeep ==
  ASSUME ProjectionInv, ProjectionInv', Ledger, DeepInv,
         UNCHANGED <<tip, hash, castAt, branch, cursor>>, branch' = 1 => Early',
         \A v \in Voters : VoteSound(v),
         \A w \in Workers : pass'[w] = pass[w] \/ pass'[w] = NoPass
  PROVE  DeepInv'
  BY ChainSame, OtherDeep

LEMMA FailedSound ==
  ASSUME ProjectionInv, NEW v \in Voters, votes'[v] = FailedVote(votes[v])
  PROVE  VoteSound(v)
<1>1. votes[v] \in VoteRow
  BY Parts DEF VotesOK
<1>2. CASE votes[v].status \in {"ABSENT", "CONFIRMED"}
  BY <1>2 DEF FailedVote, VoteSound
<1>3. CASE votes[v].status \notin {"ABSENT", "CONFIRMED"}
  <2>1. votes'[v].status = "FAILED"
    BY <1>1, <1>3 DEF FailedVote, VoteRow
  <2> QED
    BY <1>3, <2>1 DEF VoteSound
<1> QED
  BY <1>2, <1>3

LEMMA FailRevertedDeep ==
  ASSUME ProjectionInv, ProjectionInv', Ledger, DeepInv, NEW w \in Workers,
         FailReverted(w) \/ PassThrows(w)
  PROVE  DeepInv'
<1>1. /\ UNCHANGED <<jobs, slot, tip, hash, castAt, castBy, minedAt, pool, receipt>>
      /\ UNCHANGED <<tip, hash, castAt, branch, cursor>>
      /\ pass' = [pass EXCEPT ![w] = NoPass]
  BY DEF FailReverted, PassThrows
<1>2. \A v \in Voters : votes'[v] = votes[v] \/ votes'[v] = FailedVote(votes[v])
  BY DEF FailReverted, PassThrows
<1>3. \A v \in Voters : VoteSound(v)
  BY <1>2, FailedSound DEF VoteSound
<1>4. branch' = 1 => Early'
  BY <1>1, EarlySame DEF DeepInv
<1> QED
  BY <1>1, <1>3, <1>4, PassEnds, QuietDeep

LEMMA IndexDeep ==
  ASSUME ProjectionInv, ProjectionInv', Ledger, OneWorker, DeepInv, NEW w \in Workers,
         Index(w) \/ PassThrows(w)
  PROVE  DeepInv'
  BY ReadTipDeep, ReadCursorDeep, CompareCursorDeep, SelectAffectedDeep, CompareBlocksDeep,
     UndoOrphanedDeep, GetLogsDeep, GetEndBlockDeep, CommitChunkDeep, ReadReceiptsDeep,
     FailRevertedDeep DEF Index

(* The runs.  What a run has recorded is the block of its voter's ballot.  *)
ReportStays(s) == \/ receipt'[s] = 0
                  \/ receipt'[s] = receipt[s] /\ slot'[s] = slot[s]

LEMMA EarlyStays ==
  ASSUME ProjectionInv, Ledger, Early, KeysKept, UNCHANGED <<tip, hash, castAt, castBy, minedAt>>,
         \A j \in pool' : minedAt[j] = 0,
         \A s \in Slots : ReportStays(s) \/ Reported(s)'
  PROVE  Early'
<1>1. ASSUME NEW s \in Slots, ReportStays(s) PROVE Reported(s)'
  <2>1. CASE receipt'[s] = 0
    BY <2>1 DEF Reported
  <2>2. CASE receipt'[s] = receipt[s] /\ slot'[s] = slot[s] /\ receipt[s] # 0
    <3>1. slot[s] # Idle /\ receipt[s] = castAt[VoterOf(s)]
      BY <2>2 DEF Early, Reported
    <3>2. slot[s].job \in JobIds /\ jobs[slot[s].job].key \in Signers
      BY <3>1, HeldJob
    <3>3. jobs'[slot[s].job].key = jobs[slot[s].job].key
      BY <3>2, SignerKeys DEF KeysKept
    <3>4. VoterOf(s)' = VoterOf(s)
      BY <2>2, <3>3 DEF VoterOf, JobOf
    <3> QED
      BY <2>2, <3>1, <3>4 DEF Reported
  <2> QED
    BY <1>1, <2>1, <2>2 DEF ReportStays
<1> QED
  BY <1>1 DEF Early, Untouched

LEMMA EarlyEnds ==
  ASSUME ProjectionInv, Ledger, Early, NEW s \in Slots, EndsRun(s), Cleanup, UNCHANGED chainVars
  PROVE  Early'
<1>1. KeysKept
  BY EndKeys DEF SameKeys, KeysKept
<1>2. \A t \in Slots : slot'[t] = slot[t] \/ slot'[t] = Idle
  BY EndedSlots, Parts
<1>3. \A t \in Slots : ReportStays(t)
  BY <1>2 DEF Cleanup, ReportStays
<1> QED
  BY <1>1, <1>3, EarlyStays DEF Early

LEMMA FailDeep ==
  ASSUME ProjectionInv, ProjectionInv', Ledger, DeepInv, NEW s \in Slots, NEW permanent,
         Fail(s, permanent)
  PROVE  DeepInv'
<1>1. EndsRun(s) /\ Cleanup /\ UNCHANGED chainVars /\ UNCHANGED cursor
  BY DEF Fail, FailFinal, FailRetry, EndsRun
<1>2. branch' = 1 => Early'
  BY <1>1, EarlyEnds DEF DeepInv
<1>3. \A w \in Workers : pass'[w] = pass[w] \/ pass'[w] = NoPass
  BY Parts DEF Fail, PassesOK
<1>4. \A v \in Voters : votes'[v] = votes[v] \/ votes'[v] = FailedVote(votes[v])
  BY Parts DEF Fail, VotesOK
<1>5. \A v \in Voters : VoteSound(v)
  BY <1>4, FailedSound DEF VoteSound
<1> QED
  BY <1>1, <1>2, <1>3, <1>5, QuietDeep

LEMMA StepDeep ==
  ASSUME ProjectionInv, ProjectionInv', Ledger, DeepInv, NEW s \in Slots, NEW from, NEW to,
         Step(s, from, to), \A j \in pool' \ pool : minedAt[j] = 0,
         branch = 1 => \A t \in Slots : ReportStays(t) \/ Reported(t)',
         \A v \in Voters : VoteSound(v)
  PROVE  DeepInv'
<1>1. /\ UNCHANGED <<tip, hash, castAt, branch, cursor>>
      /\ UNCHANGED <<tip, hash, castAt, castBy, minedAt>> /\ UNCHANGED jobs /\ UNCHANGED pass
  BY DEF Step
<1>2. KeysKept
  BY <1>1 DEF KeysKept
<1>3. branch' = 1 => Early'
  <2> SUFFICES ASSUME branch = 1 PROVE Early'
    BY <1>1
  <2>1. Early
    BY DEF DeepInv
  <2>2. \A j \in pool' : minedAt[j] = 0
    BY <2>1 DEF Early
  <2> QED
    BY <1>1, <1>2, <2>1, <2>2, EarlyStays
<1> QED
  BY <1>1, <1>3, QuietDeep

LEMMA PrepareDeep ==
  ASSUME ProjectionInv, ProjectionInv', Ledger, DeepInv, NEW s \in Slots, Prepare(s)
  PROVE  DeepInv'
<1>1. CASE Step(s, "prepare", "broadcast") /\ UNCHANGED <<votes, outbox, pool, receipt>>
  <2>1. \A v \in Voters : VoteSound(v)
    BY <1>1 DEF VoteSound
  <2>2. \A t \in Slots : ReportStays(t)
    BY <1>1 DEF ReportStays, Step
  <2> QED
    BY <1>1, <2>1, <2>2, StepDeep
<1>2. CASE /\ Step(s, "prepare", "broadcast") /\ UNCHANGED <<pool, receipt>>
           /\ ~Counted(VoterOf(s))
           /\ votes' = [votes EXCEPT ![VoterOf(s)].status = "SUBMITTED",
                                     ![VoterOf(s)].tx = JobOf(s)]
  <2>1. ASSUME NEW v \in Voters PROVE VoteSound(v)
    <3>1. votes \in [Voters -> VoteRow] /\ votes[v] \in VoteRow
      BY Parts DEF VotesOK
    <3>2. CASE v = VoterOf(s)
      <4>1. votes'[v].status = "SUBMITTED"
        BY <1>2, <3>1, <3>2 DEF VoteRow
      <4> QED
        BY <1>2, <3>2, <4>1 DEF VoteSound
    <3>3. CASE v # VoterOf(s)
      BY <1>2, <3>1, <3>3 DEF VoteSound
    <3> QED
      BY <3>2, <3>3
  <2>2. \A t \in Slots : ReportStays(t)
    BY <1>2 DEF ReportStays, Step
  <2> QED
    BY <1>2, <2>1, <2>2, StepDeep
<1>3. CASE Fail(s, FALSE)
  BY <1>3, FailDeep
<1> QED
  BY <1>1, <1>2, <1>3 DEF Prepare

LEMMA RecordReceiptDeep ==
  ASSUME ProjectionInv, ProjectionInv', Ledger, DeepInv, NEW s \in Slots, RecordReceipt(s)
  PROVE  DeepInv'
<1>1. CASE /\ Step(s, "wait", "finalize") /\ Succeeded(JobOf(s)) /\ UNCHANGED <<votes, pool>>
           /\ receipt' = [receipt EXCEPT ![s] = minedAt[JobOf(s)]]
  <2>1. \A v \in Voters : VoteSound(v)
    BY <1>1 DEF VoteSound
  <2>2. \A t \in Slots : t # s => ReportStays(t)
    BY <1>1, RunTypes DEF ReportStays, Step
  <2>3. ASSUME branch = 1 PROVE Reported(s)'
    <3>1. slot[s] # Idle /\ JobOf(s) \in JobIds /\ VoterOf(s) \in Voters
      BY <1>1, HeldJob, SignerKeys DEF Step, At, JobOf, VoterOf
    <3>2. castAt[VoterOf(s)] # 0 /\ castBy[VoterOf(s)] = JobOf(s) /\ JobOf(s) # 0
      BY <1>1, <3>1, IndexerAssumption DEF Succeeded, Counted, VoterOf
    <3>3. minedAt[JobOf(s)] = castAt[VoterOf(s)]
      BY <2>3, <3>1, <3>2 DEF DeepInv, Early
    <3>4. receipt'[s] = castAt[VoterOf(s)]
      BY <1>1, <3>3, RunTypes
    <3>5. slot' = slot /\ castAt' = castAt /\ VoterOf(s)' = VoterOf(s)
      BY <1>1 DEF Step, VoterOf, JobOf
    <3> QED
      BY <3>1, <3>4, <3>5 DEF Reported
  <2> QED
    BY <1>1, <2>1, <2>2, <2>3, StepDeep
<1>2. CASE UNCHANGED <<tableVars, chainVars, votes, cursor, pass, receipt, faults>>
  <2>1. branch' = 1 => Early'
    BY <1>2, EarlySame DEF DeepInv
  <2>2. \A v \in Voters : VoteSound(v)
    BY <1>2 DEF VoteSound
  <2> QED
    BY <1>2, <2>1, <2>2, QuietDeep
<1> QED
  BY <1>1, <1>2 DEF RecordReceipt

LEMMA FinalizeVoteDeep ==
  ASSUME ProjectionInv, ProjectionInv', Ledger, DeepInv, NEW s \in Slots, FinalizeVote(s)
  PROVE  DeepInv'
<1>1. CASE /\ receipt[s] # 0
           /\ Step(s, "finalize", "complete")
           /\ votes' = [votes EXCEPT ![VoterOf(s)] =
                         [@ EXCEPT !.status = "CONFIRMED", !.tx = JobOf(s),
                                   !.block = receipt[s], !.hash = hash[receipt[s]]]]
           /\ UNCHANGED <<outbox, pool, receipt>>
  <2>1. receipt[s] \in 1..tip
    BY <1>1, Parts, Numbers DEF Ledger, BelowTip, RunsType, ChainType, Blocks
  <2>2. ASSUME NEW v \in Voters PROVE VoteSound(v)
    <3>1. votes \in [Voters -> VoteRow] /\ votes[v] \in VoteRow
      BY Parts DEF VotesOK
    <3>2. CASE v = VoterOf(s)
      <4>1. /\ votes'[v].status = "CONFIRMED" /\ votes'[v].block = receipt[s]
            /\ votes'[v].hash = hash[receipt[s]]
        BY <1>1, <3>1, <3>2 DEF VoteRow
      <4>2. UNCHANGED <<tip, hash, castAt, branch>>
        BY <1>1 DEF Step
      <4>3. branch = 1 => castAt[v] = receipt[s]
        BY <1>1, <3>2 DEF DeepInv, Early, Reported
      <4>4. Backed(v, votes[v])'
        BY <2>1, <4>1, <4>2, <4>3 DEF Backed, OnChain
      <4> QED
        BY <4>1, <4>4 DEF VoteSound
    <3>3. CASE v # VoterOf(s)
      BY <1>1, <3>1, <3>3 DEF VoteSound
    <3> QED
      BY <3>2, <3>3
  <2>3. \A t \in Slots : ReportStays(t)
    BY <1>1 DEF ReportStays, Step
  <2> QED
    BY <1>1, <2>2, <2>3, StepDeep
<1>2. CASE Fail(s, TRUE)
  BY <1>2, FailDeep
<1> QED
  BY <1>1, <1>2 DEF FinalizeVote

LEMMA RunDeep ==
  ASSUME ProjectionInv, ProjectionInv', Ledger, DeepInv, NEW s \in Slots,
         Start(s) \/ Run(s) \/ Throw(s)
  PROVE  DeepInv'
<1>1. CASE Start(s)
  <2>1. KeysKept
    BY <1>1, ClaimKeys DEF Start, SameKeys, KeysKept
  <2>2. /\ UNCHANGED <<tip, hash, castAt, branch, cursor>> /\ UNCHANGED <<votes, pass>>
        /\ UNCHANGED <<tip, hash, castAt, castBy, minedAt>> /\ UNCHANGED <<pool, receipt>>
        /\ slot[s] = Idle /\ \A t \in Slots : t # s => slot'[t] = slot[t]
    BY <1>1, Parts DEF Start, Claim, TableTypeOK
  <2>3. branch = 1 => Early'
    <3> SUFFICES ASSUME Early PROVE Early'
      BY DEF DeepInv
    <3>1. \A t \in Slots : ReportStays(t)
      BY <2>2 DEF ReportStays, Early, Reported
    <3>2. \A j \in pool' : minedAt[j] = 0
      BY <2>2 DEF Early
    <3> QED
      BY <2>1, <2>2, <3>1, <3>2, EarlyStays
  <2>4. \A v \in Voters : VoteSound(v)
    BY <2>2 DEF VoteSound
  <2> QED
    BY <2>2, <2>3, <2>4, QuietDeep
<1>2. CASE \E permanent : Fail(s, permanent)
  BY <1>2, FailDeep
<1>3. CASE \E from, to : /\ Step(s, from, to) /\ UNCHANGED <<votes, receipt>>
                         /\ \A j \in pool' \ pool : minedAt[j] = 0
  <2>1. \A v \in Voters : VoteSound(v)
    BY <1>3 DEF VoteSound
  <2>2. \A t \in Slots : ReportStays(t)
    BY <1>3 DEF ReportStays, Step
  <2> QED
    BY <1>3, <2>1, <2>2, StepDeep
<1>4. CASE CompleteRun(s)
  <2>1. EndsRun(s) /\ Cleanup /\ UNCHANGED chainVars /\ UNCHANGED <<votes, cursor, pass>>
    BY <1>4 DEF CompleteRun, EndsRun
  <2>2. branch' = 1 => Early'
    BY <2>1, EarlyEnds DEF DeepInv
  <2>3. \A v \in Voters : VoteSound(v)
    BY <2>1 DEF VoteSound
  <2> QED
    BY <2>1, <2>2, <2>3, QuietDeep
<1>5. CASE LoadVote(s)
  BY <1>3, <1>5 DEF LoadVote
<1>6. CASE Simulate(s)
  BY <1>2, <1>3, <1>6 DEF Simulate
<1>7. CASE Broadcast(s)
  BY <1>3, <1>7 DEF Broadcast
<1>8. CASE WaitTimesOut(s) \/ Throw(s)
  BY <1>2, <1>8 DEF WaitTimesOut, Throw
<1> QED
  BY <1>1, <1>4, <1>5, <1>6, <1>7, <1>8, PrepareDeep, RecordReceiptDeep, FinalizeVoteDeep
     DEF Run

LEMMA RequestDeep ==
  ASSUME ProjectionInv, ProjectionInv', Ledger, DeepInv, NEW v \in Signers,
         SubmitBallot(v) \/ RetryBallot(v)
  PROVE  DeepInv'
<1>1. KeysKept
  BY EnqueueKept
<1>2. /\ UNCHANGED <<tip, hash, castAt, branch, cursor>> /\ UNCHANGED <<slot, receipt, pool, pass>>
      /\ UNCHANGED <<tip, hash, castAt, castBy, minedAt>>
  BY DEF SubmitBallot, RetryBallot
<1>3. votes[v].status # "CONFIRMED" /\ votes'[v].status # "CONFIRMED"
  BY <1>1, RequestVotes
<1>4. \A u \in Voters : u # v => votes'[u] = votes[u]
  BY Parts DEF SubmitBallot, RetryBallot, VotesOK
<1>5. \A u \in Voters : VoteSound(u)
  BY <1>3, <1>4 DEF VoteSound
<1>6. branch' = 1 => Early'
  <2>1. \A s \in Slots : ReportStays(s)
    BY <1>2 DEF ReportStays
  <2>2. Early => \A j \in pool' : minedAt[j] = 0
    BY <1>2 DEF Early
  <2> QED
    BY <1>1, <1>2, <2>1, <2>2, EarlyStays DEF DeepInv
<1> QED
  BY <1>2, <1>5, <1>6, QuietDeep

LEMMA EnvironmentDeep ==
  ASSUME ProjectionInv, ProjectionInv', Ledger, DeepInv,
         \/ Recover \/ UNCHANGED vars
         \/ \E j \in JobIds : Expire(j)
         \/ \E w \in Workers : Crash(w)
  PROVE  DeepInv'
<1>1. CASE Recover \/ UNCHANGED vars \/ \E j \in JobIds : Expire(j)
  <2>1. SameKeys
    BY <1>1, RecoverKeys, SameTable DEF Recover, Expire
  <2>2. /\ UNCHANGED <<tip, hash, castAt, branch, cursor>>
        /\ UNCHANGED <<slot, receipt, pool, pass, votes>>
        /\ UNCHANGED <<tip, hash, castAt, castBy, minedAt>>
    BY <1>1 DEF Recover, RecoverExpired, Expire, LockExpires
  <2>3. \A s \in Slots : ReportStays(s)
    BY <2>2 DEF ReportStays
  <2>4. branch' = 1 => Early'
    <3>1. Early => \A j \in pool' : minedAt[j] = 0
      BY <2>2 DEF Early
    <3> QED
      BY <2>1, <2>2, <2>3, <3>1, EarlyStays DEF DeepInv, SameKeys, KeysKept
  <2>5. \A v \in Voters : VoteSound(v)
    BY <2>2 DEF VoteSound
  <2> QED
    BY <2>2, <2>4, <2>5, QuietDeep
<1>2. ASSUME NEW w \in Workers, Crash(w) PROVE DeepInv'
  <2>1. /\ UNCHANGED <<tip, hash, castAt, branch, cursor>> /\ UNCHANGED <<jobs, pool, votes>>
        /\ UNCHANGED <<tip, hash, castAt, castBy, minedAt>> /\ Cleanup
    BY <1>2 DEF Crash, Die
  <2>2. \A s \in Slots : slot'[s] = slot[s] \/ slot'[s] = Idle
    BY <1>2 DEF Crash, Die
  <2>3. \A s \in Slots : ReportStays(s)
    BY <2>1, <2>2 DEF Cleanup, ReportStays
  <2>4. branch' = 1 => Early'
    <3>1. KeysKept
      BY <2>1 DEF KeysKept
    <3>2. Early => \A j \in pool' : minedAt[j] = 0
      BY <2>1 DEF Early
    <3> QED
      BY <2>1, <2>3, <3>1, <3>2, EarlyStays DEF DeepInv
  <2>5. \A v \in Voters : VoteSound(v)
    BY <2>1 DEF VoteSound
  <2>6. \A x \in Workers : pass'[x] = pass[x] \/ pass'[x] = NoPass
    BY <1>2, PassEnds DEF Crash
  <2> QED
    BY <2>1, <2>4, <2>5, <2>6, QuietDeep
<1> QED
  BY <1>1, <1>2

(* The chain.                                                              *)
LEMMA MineBlockDeep ==
  ASSUME ProjectionInv, ProjectionInv', Ledger, DeepInv, MineBlock
  PROVE  DeepInv'
<1>1. /\ tip \in Nat /\ tip >= 1 /\ tip' = tip + 1 /\ tip + 1 \in Blocks
      /\ hash' = [hash EXCEPT ![tip + 1] = branch] /\ hash \in [Blocks -> Hashes]
      /\ UNCHANGED <<jobs, slot, branch, votes, cursor, pass, receipt>>
  BY SolidNumber, Parts, Numbers DEF MineBlock, ChainType, Blocks
<1>2. PICK T \in SUBSET pool, O \in SUBSET SelfCast :
        /\ castAt' = [v \in Voters |-> IF castAt[v] = 0 /\ v \in {jobs[j].key : j \in T} \cup O
                                       THEN tip + 1 ELSE castAt[v]]
        /\ castBy' = [v \in Voters |-> IF castAt[v] = 0 /\ v \in {jobs[j].key : j \in T}
                                       THEN CHOOSE j \in T : jobs[j].key = v ELSE castBy[v]]
        /\ minedAt' = [j \in JobIds |-> IF j \in T THEN tip + 1 ELSE minedAt[j]]
        /\ pool' = pool \ T
        /\ \A v \in O : v \notin {jobs[j].key : j \in T}
  BY DEF MineBlock
<1>3. hash'[tip + 1] = branch /\ \A b \in 1..tip : hash'[b] = hash[b]
  BY <1>1 DEF Blocks
<1>4. \A v \in Voters : castAt'[v] = castAt[v] \/ (castAt[v] = 0 /\ castAt'[v] = tip + 1)
  BY <1>2
<1>5. ChainKept
  <2>1. tip <= tip' /\ \A b \in 1..Solid : hash'[b] = hash[b]
    BY <1>1, <1>3, SolidNumber
  <2>2. \A v \in Voters : castAt'[v] \in 1..Solid => castAt'[v] = castAt[v]
    BY <1>1, <1>4, SolidNumber
  <2>3. \A v \in Voters : CastKept(v)
    BY <1>1, <1>3, <1>4 DEF CastKept
  <2> QED
    BY <1>1, <1>3, <2>1, <2>2, <2>3 DEF ChainKept
<1>6. branch' = 1 => Early'
  <2> SUFFICES ASSUME branch = 1, Early PROVE Early'
    BY <1>1 DEF DeepInv
  <2>1. Untouched(tip)'
    BY <1>1, <1>3 DEF Early, Untouched
  <2>2. pool \subseteq JobIds /\ \A j \in T : minedAt[j] = 0
    BY Parts DEF Early, ChainType
  <2>3. \A j \in pool' : minedAt'[j] = 0
    BY <1>2, <2>2 DEF Early
  <2>4. ASSUME NEW v \in Voters, castAt'[v] # 0, castBy'[v] # 0
        PROVE  minedAt'[castBy'[v]] = castAt'[v]
    <3>1. CASE castAt[v] # 0
      <4>1. castAt'[v] = castAt[v] /\ castBy'[v] = castBy[v]
        BY <1>2, <3>1
      <4>2. castBy[v] \in JobIds /\ minedAt[castBy[v]] = castAt[v]
        BY <2>4, <3>1, <4>1, Parts DEF Early, ChainType
      <4>3. castBy[v] \notin T
        BY <2>2, <3>1, <4>2
      <4> QED
        BY <1>2, <4>1, <4>2, <4>3
    <3>2. CASE castAt[v] = 0
      <4>1. castAt'[v] = tip + 1 /\ v \in {jobs[j].key : j \in T} \cup O
        BY <1>2, <2>4, <3>2
      <4>2. CASE v \in {jobs[j].key : j \in T}
        <5>1. castBy'[v] = CHOOSE j \in T : jobs[j].key = v
          BY <1>2, <3>2, <4>2
        <5>2. castBy'[v] \in T
          BY <4>2, <5>1
        <5> QED
          BY <1>2, <2>2, <4>1, <5>2
      <4>3. CASE v \notin {jobs[j].key : j \in T}
        <5>1. castBy'[v] = castBy[v]
          BY <1>2, <4>3
        <5> QED
          BY <2>4, <3>2, <5>1 DEF Early
      <4> QED
        BY <4>2, <4>3
    <3> QED
      BY <3>1, <3>2
  <2>5. ASSUME NEW v \in Voters, castAt'[v] = 0 PROVE castBy'[v] = 0
    <3>1. castAt[v] = 0 /\ v \notin {jobs[j].key : j \in T}
      BY <1>1, <1>2, <2>5
    <3>2. castBy'[v] = castBy[v]
      BY <1>2, <3>1
    <3> QED
      BY <3>1, <3>2 DEF Early
  <2>6. ASSUME NEW s \in Slots PROVE Reported(s)'
    <3> SUFFICES ASSUME receipt[s] # 0
                 PROVE  slot[s] # Idle /\ receipt[s] = castAt'[VoterOf(s)]
      BY <1>1 DEF Reported, VoterOf, JobOf
    <3>1. slot[s] # Idle /\ receipt[s] = castAt[VoterOf(s)]
      BY DEF Early, Reported
    <3>2. VoterOf(s) \in Voters
      BY <3>1, HeldJob, SignerKeys DEF VoterOf, JobOf
    <3> QED
      BY <1>4, <3>1, <3>2
  <2> QED
    BY <2>1, <2>3, <2>4, <2>5, <2>6 DEF Early
<1>7. \A v \in Voters : VoteSound(v)
  BY <1>1 DEF VoteSound
<1> QED
  BY <1>1, <1>5, <1>6, <1>7, OtherDeep

LEMMA ReorgDeep ==
  ASSUME ReorgDepth <= Confirmations + Overlap, MaxReorgs <= 1,
         ProjectionInv, ProjectionInv', Ledger, DeepInv, Reorg
  PROVE  DeepInv'
<1>1. /\ tip \in Nat /\ tip >= 1 /\ Solid \in Nat /\ Solid <= tip /\ ReorgDepth \in Nat
      /\ tip - Confirmations - Overlap <= Solid /\ tip \in Blocks /\ hash \in [Blocks -> Hashes]
      /\ Confirmations \in Nat /\ Overlap \in Nat /\ Blocks = 1..MaxBlock /\ MaxBlock \in Nat
  BY SolidNumber, Parts, Numbers, IndexerAssumption DEF ChainType, Blocks
<1>2. branch = 1 /\ branch' = 2 /\ tip' = tip /\ UNCHANGED <<votes, cursor, pass>>
  <2>1. branch \in Branches /\ branch <= MaxReorgs /\ MaxReorgs \in Nat
    BY Parts, IndexerAssumption DEF Reorg, ChainType
  <2> QED
    BY <2>1 DEF Reorg, Branches
<1>3. PICK d \in 1..Lesser(ReorgDepth, tip - 1) :
        LET from     == tip - d + 1
            orphaned == {v \in Voters : castAt[v] >= from}
            undone   == {j \in JobIds : minedAt[j] >= from}
        IN
        /\ hash' = [b \in Blocks |-> IF b \in from..tip THEN branch + 1 ELSE hash[b]]
        /\ \E at \in [orphaned -> from..tip \cup {0}] :
            /\ castAt' = [v \in Voters |-> IF v \in orphaned THEN at[v] ELSE castAt[v]]
            /\ castBy' = [v \in Voters |-> IF v \in orphaned /\ at[v] = 0
                                           THEN 0 ELSE castBy[v]]
            /\ minedAt' = [j \in JobIds |->
                    IF j \notin undone THEN minedAt[j]
                    ELSE IF jobs[j].key \in orphaned /\ castBy[jobs[j].key] = j
                    THEN at[jobs[j].key] ELSE 0]
  BY DEF Reorg
<1>4. /\ hash' = [b \in Blocks |-> IF b \in (tip - d + 1)..tip THEN branch + 1 ELSE hash[b]]
      /\ \E at \in [{v \in Voters : castAt[v] >= tip - d + 1} -> (tip - d + 1)..tip \cup {0}] :
            castAt' = [v \in Voters |-> IF v \in {u \in Voters : castAt[u] >= tip - d + 1}
                                         THEN at[v] ELSE castAt[v]]
  BY <1>3
<1>5. /\ d \in Nat /\ d <= Confirmations + Overlap /\ d >= 1 /\ d <= tip - 1
      /\ tip - d + 1 \in Nat /\ tip - d + 1 > Solid /\ tip - d + 1 >= 2
  <2>1. Lesser(ReorgDepth, tip - 1) <= ReorgDepth /\ Lesser(ReorgDepth, tip - 1) <= tip - 1
    BY <1>1 DEF Lesser
  <2>2. d \in Nat /\ d >= 1 /\ d <= ReorgDepth /\ d <= tip - 1
    BY <1>1, <2>1 DEF Lesser
  <2> QED
    BY <1>1, <2>2 DEF Solid, Greater
<1>6. ASSUME NEW b \in 1..tip
      PROVE  IF b >= tip - d + 1 THEN hash'[b] = 2 ELSE hash'[b] = hash[b]
  <2>1. b \in Blocks /\ (b \in (tip - d + 1)..tip <=> b >= tip - d + 1)
    BY <1>1, <1>5
  <2> QED
    BY <1>2, <1>4, <2>1
<1>7. ASSUME NEW v \in Voters
      PROVE  \/ castAt'[v] = castAt[v]
             \/ castAt[v] >= tip - d + 1 /\ castAt'[v] = 0
             \/ /\ castAt[v] >= tip - d + 1
                /\ castAt'[v] \in (tip - d + 1)..tip
  <2>1. PICK at \in [{u \in Voters : castAt[u] >= tip - d + 1} -> (tip - d + 1)..tip \cup {0}] :
             castAt' = [u \in Voters |-> IF u \in {x \in Voters : castAt[x] >= tip - d + 1}
                                         THEN at[u] ELSE castAt[u]]
    BY <1>4
  <2>2. CASE castAt[v] >= tip - d + 1
    <3>1. v \in {u \in Voters : castAt[u] >= tip - d + 1}
      BY <2>2
    <3>2. at[v] \in (tip - d + 1)..tip \cup {0} /\ castAt'[v] = at[v]
      BY <2>1, <3>1
    <3> QED
      BY <2>2, <3>2
  <2>3. CASE ~(castAt[v] >= tip - d + 1)
    BY <2>1, <2>3
  <2> QED
    BY <2>2, <2>3
<1>8. ASSUME NEW v \in Voters PROVE CastKept(v)
  <2>1. CASE castAt'[v] = 0
    BY <1>2, <2>1 DEF CastKept, Moved
  <2>2. CASE castAt'[v] \in (tip - d + 1)..tip
    <3>1. castAt'[v] \in 1..tip /\ castAt'[v] >= tip - d + 1
      BY <1>1, <1>5, <2>2
    <3>2. hash'[castAt'[v]] = 2
      BY <1>6, <3>1
    <3> QED
      BY <1>2, <3>2 DEF CastKept, Moved
  <2> QED
    BY <1>7, <2>1, <2>2 DEF CastKept
<1>9. ASSUME NEW v \in Voters, castAt'[v] \in 1..Solid PROVE castAt'[v] = castAt[v]
  <2>1. PICK c : c = castAt'[v]
    OBVIOUS
  <2>2. c \in Nat /\ 1 <= c /\ c <= Solid
    BY <1>1, <1>9, <2>1
  <2>3. c # 0 /\ c \notin (tip - d + 1)..tip
    BY <1>1, <1>5, <2>2
  <2> QED
    BY <1>7, <2>1, <2>3
<1>10. \A b \in 1..Solid : hash'[b] = hash[b]
  BY <1>1, <1>5, <1>6
<1>11. \A b \in 1..tip : hash'[b] = hash[b] \/ hash'[b] = 2
  BY <1>6
<1>12. ChainKept
  BY <1>1, <1>2, <1>8, <1>9, <1>10, <1>11 DEF ChainKept
<1>13. \A v \in Voters : VoteSound(v)
  BY <1>2 DEF VoteSound
<1> QED
  BY <1>2, <1>12, <1>13, OtherDeep

LEMMA DeepNext ==
  ASSUME ReorgDepth <= Confirmations + Overlap, MaxReorgs <= 1, OneWorker,
         ProjectionInv, ProjectionInv', Ledger, DeepInv, [Next]_vars
  PROVE  DeepInv'
  BY MineBlockDeep, ReorgDeep, EnvironmentDeep, IndexDeep, RunDeep, RequestDeep DEF Next

LEMMA InitDeep == ASSUME Init, ProjectionInv PROVE DeepInv
<1>1. cursor.block = 0 /\ branch = 1 /\ tip = 1 /\ hash[1] = 1
  BY Numbers DEF Init, NoPass
<1>2. /\ \A v \in Voters : castAt[v] = 0 /\ castBy[v] = 0 /\ votes[v] = NoVote
      /\ \A s \in Slots : receipt[s] = 0
      /\ pool = {} /\ \A w \in Workers : pass[w] = NoPass
  BY DEF Init, NoVotes
<1>3. Early
  BY <1>1, <1>2 DEF Early, Untouched, Reported
<1>4. \A v \in Voters : Backed(v, votes[v])
  BY <1>2 DEF Backed, NoVote
<1>5. \A w \in Workers : PassSound(pass[w])
  BY <1>2, SolidNumber DEF PassSound, NoPass
<1>6. Done(cursor.block - Overlap)
  BY <1>1, <1>2, Numbers DEF Done
<1> QED
  BY <1>1, <1>3, <1>4, <1>5, <1>6 DEF DeepInv

LEMMA DeepSkipsNothing == ASSUME ProjectionInv, DeepInv PROVE NothingSkipped
<1> SUFFICES ASSUME NEW v \in Voters, Counted(v), castAt[v] <= cursor.block - Overlap
             PROVE  votes[v].status = "CONFIRMED"
  BY DEF NothingSkipped
<1>1. castAt[v] \in Nat /\ castAt[v] # 0 /\ cursor.block \in Nat /\ Overlap \in Nat
  BY Parts, Numbers DEF ChainType, Cursor, Counted
<1>2. castAt[v] \in 1..(cursor.block - Overlap)
  BY <1>1
<1> QED
  BY <1>2 DEF DeepInv, Done

(* One worker, one reorganisation no deeper than Confirmations + Overlap:  *)
(* the cursor never leaves a vote behind, however the recovery of the pass *)
(* and the runs of the jobs overtake each other and the chain.             *)
THEOREM DeepNothingSkipped ==
  ASSUME \A x, y \in Workers : x = y, MaxReorgs <= 1,
         ReorgDepth <= Confirmations + Overlap
  PROVE  Spec => []NothingSkipped
<1>1. OneWorker
  BY DEF OneWorker
<1>2. Init => ProjectionInv /\ Ledger /\ DeepInv
  BY InitInv, InitLedger, InitDeep
<1>3. ProjectionInv /\ Ledger /\ DeepInv /\ [Next]_vars => (ProjectionInv /\ Ledger /\ DeepInv)'
  <2> SUFFICES ASSUME ProjectionInv, Ledger, DeepInv, [Next]_vars
               PROVE  ProjectionInv' /\ Ledger' /\ DeepInv'
    OBVIOUS
  <2>1. ProjectionInv'
    BY NextKeeps
  <2>2. Ledger'
    BY <1>1, <2>1, LedgerNext
  <2> QED
    BY <1>1, <2>1, <2>2, DeepNext
<1>4. ProjectionInv /\ Ledger /\ DeepInv => NothingSkipped
  BY DeepSkipsNothing
<1> QED
  BY <1>2, <1>3, <1>4, PTL DEF Spec
=============================================================================

--------------------------- MODULE JobTableProofs ---------------------------
(***************************************************************************)
(* The statements of JobTable keep the table and the slots typed, and, as  *)
(* long as no worker stalls, every run keeps its row: one lemma per        *)
(* statement, for the proofs of the modules that compose them.             *)
(***************************************************************************)
EXTENDS JobTable, TLAPS

LEMMA ZeroAttempts == 0 \in 0..MaxAttempts
  BY JobTableAssumption

LEMMA BumpType == ASSUME NEW n \in 0..MaxAttempts PROVE Bump(n) \in 0..MaxAttempts
  BY JobTableAssumption DEF Bump

(* The statements that change jobs keep its type.                          *)
LEMMA JobsType ==
  ASSUME TableTypeOK, NEW j \in JobIds, NEW r \in JobRow, jobs' = [jobs EXCEPT ![j] = r]
  PROVE  jobs' \in [JobIds -> JobRow]
  BY DEF TableTypeOK

LEMMA RequeueType ==
  ASSUME TableTypeOK, NEW j \in JobIds, Requeue(j)
  PROVE  jobs' \in [JobIds -> JobRow]
<1> DEFINE r == [jobs[j] EXCEPT !.status = "PENDING", !.attempts = 0,
                                !.lockedBy = None, !.fresh = FALSE]
<1>1. r \in JobRow
  BY ZeroAttempts DEF TableTypeOK, JobRow, JobStatus
<1>2. jobs' = [jobs EXCEPT ![j] = r]
  BY DEF Requeue
<1> QED
  BY <1>1, <1>2, JobsType

LEMMA InsertType ==
  ASSUME TableTypeOK, NEW k \in Keys, Insert(k)
  PROVE  jobs' \in [JobIds -> JobRow]
<1>1. NewRow(k) \in JobRow
  BY ZeroAttempts DEF NewRow, NoRow, JobRow, JobStatus
<1> QED
  BY <1>1, JobsType DEF Insert

LEMMA SettleType ==
  ASSUME TableTypeOK, NEW j \in JobIds, NEW st \in JobStatus, Settle(j, st)
  PROVE  jobs' \in [JobIds -> JobRow]
<1> DEFINE r == [jobs[j] EXCEPT !.status = st, !.lockedBy = None, !.fresh = FALSE]
<1>1. r \in JobRow
  BY DEF TableTypeOK, JobRow
<1> QED
  BY <1>1, JobsType DEF Settle

LEMMA SlotJob ==
  ASSUME TableTypeOK, NEW s \in Slots, slot[s] # Idle
  PROVE  slot[s].job \in JobIds /\ slot[s].attempts \in 0..MaxAttempts
  BY DEF TableTypeOK, RunCopy

LEMMA ReleaseType ==
  ASSUME TableTypeOK, NEW s \in Slots, Release(s)
  PROVE  slot' \in [Slots -> RunCopy]
  BY DEF TableTypeOK, Release, RunCopy

LEMMA DieType ==
  ASSUME TableTypeOK, NEW w \in Workers, Die(w)
  PROVE  jobs' \in [JobIds -> JobRow] /\ slot' \in [Slots -> RunCopy]
  BY DEF TableTypeOK, Die, RunCopy

(* One lemma per statement of the worker.                                  *)
LEMMA RunType ==
  ASSUME TableTypeOK, NEW s \in Slots, Claim(s) \/ RenewLock(s) \/ UpdateProgress(s)
  PROVE  TableTypeOK'
<1>1. CASE Claim(s)
  <2>1. PICK j \in JobIds :
          LET n == Bump(jobs[j].attempts) IN
            /\ jobs' = [jobs EXCEPT ![j] =
                         [jobs[j] EXCEPT !.status = "RUNNING", !.attempts = n,
                                   !.lockedBy = WorkerOf[s], !.fresh = TRUE]]
            /\ slot' = [slot EXCEPT ![s] = [job |-> j, attempts |-> n]]
    BY <1>1 DEF Claim
  <2> DEFINE n == Bump(jobs[j].attempts)
             r == [jobs[j] EXCEPT !.status = "RUNNING", !.attempts = n,
                                  !.lockedBy = WorkerOf[s], !.fresh = TRUE]
  <2>2. n \in 0..MaxAttempts
    BY BumpType DEF TableTypeOK, JobRow
  <2>3. r \in JobRow
    BY <2>2, JobTableAssumption DEF TableTypeOK, JobRow, JobStatus
  <2>4. jobs' \in [JobIds -> JobRow]
    BY <2>1, <2>3, JobsType
  <2>5. slot' \in [Slots -> RunCopy]
    BY <2>1, <2>2 DEF TableTypeOK, RunCopy
  <2> QED
    BY <2>4, <2>5 DEF TableTypeOK
<1>2. CASE RenewLock(s) \/ UpdateProgress(s)
  <2> DEFINE j == slot[s].job
             r == [jobs[j] EXCEPT !.fresh = TRUE]
  <2>1. j \in JobIds
    BY <1>2, SlotJob DEF RenewLock, UpdateProgress
  <2>2. r \in JobRow
    BY <2>1 DEF TableTypeOK, JobRow
  <2>3. jobs' = [jobs EXCEPT ![j] = r] /\ UNCHANGED slot
    BY <1>2 DEF RenewLock, UpdateProgress
  <2> QED
    BY <2>1, <2>2, <2>3, JobsType DEF TableTypeOK
<1> QED
  BY <1>1, <1>2

LEMMA EndRunType ==
  ASSUME TableTypeOK, NEW s \in Slots, Complete(s) \/ FailRetry(s) \/ FailFinal(s)
  PROVE  TableTypeOK'
<1>1. slot[s] # Idle
  BY DEF Complete, FailRetry, FailFinal
<1>2. slot[s].job \in JobIds
  BY <1>1, SlotJob
<1>3. CASE \E st \in JobStatus : Settle(slot[s].job, st) /\ Release(s)
  BY <1>2, <1>3, SettleType, ReleaseType DEF TableTypeOK
<1>4. CASE Die(WorkerOf[s])
  BY <1>4, DieType, JobTableAssumption DEF TableTypeOK
<1> QED
  BY <1>3, <1>4 DEF Complete, FailRetry, FailFinal, JobStatus

LEMMA LockType ==
  ASSUME TableTypeOK, NEW j \in JobIds, LockExpires(j) \/ RunnerStalls(j)
  PROVE  TableTypeOK'
<1> DEFINE r == [jobs[j] EXCEPT !.fresh = FALSE]
<1>1. r \in JobRow
  BY DEF TableTypeOK, JobRow
<1>2. jobs' = [jobs EXCEPT ![j] = r] /\ UNCHANGED slot
  BY DEF LockExpires, RunnerStalls
<1> QED
  BY <1>1, <1>2, JobsType DEF TableTypeOK

LEMMA RecoverType ==
  ASSUME TableTypeOK, RecoverExpired
  PROVE  TableTypeOK'
<1>1. \A j \in JobIds :
        [jobs[j] EXCEPT !.status = "PENDING", !.lockedBy = None] \in JobRow
  BY DEF TableTypeOK, JobRow, JobStatus
<1> QED
  BY <1>1 DEF TableTypeOK, RecoverExpired

LEMMA NotIdle ==
  ASSUME NEW s \in Slots, slot[s].job # None
  PROVE  slot[s] # Idle
  BY DEF Idle

-----------------------------------------------------------------------------
(* What the statements do to the slots and to the completed rows.          *)

EndsRun(s) == Complete(s) \/ FailRetry(s) \/ FailFinal(s)

LEMMA EndedSlots ==
  ASSUME TableTypeOK, NEW s \in Slots, EndsRun(s) \/ (\E w \in Workers : Die(w))
  PROVE  \A t \in Slots : slot'[t] = slot[t] \/ slot'[t] = Idle
<1>1. CASE Release(s)
  BY <1>1 DEF Release, TableTypeOK
<1>2. CASE \E w \in Workers : Die(w)
  BY <1>2 DEF Die, TableTypeOK
<1> QED
  BY <1>1, <1>2, JobTableAssumption DEF EndsRun, Complete, FailRetry, FailFinal

(* Only completeJob completes a row, and only the row of its run.          *)
NoneCompleted ==
    \A j \in JobIds : jobs'[j].status = "COMPLETED" => jobs[j].status = "COMPLETED"

LEMMA CompleteOne ==
  ASSUME TableTypeOK, NEW s \in Slots, Complete(s)
  PROVE  \A j \in JobIds : jobs'[j].status = "COMPLETED" =>
                             jobs[j].status = "COMPLETED" \/ j = slot[s].job
  BY DEF Complete, Settle, TableTypeOK

LEMMA SettleNotCompleted ==
  ASSUME TableTypeOK, NEW j \in JobIds, NEW st, st # "COMPLETED", Settle(j, st)
  PROVE  NoneCompleted
  BY DEF Settle, TableTypeOK, JobRow, NoneCompleted

LEMMA FailNotCompleted ==
  ASSUME TableTypeOK, NEW s \in Slots, FailRetry(s) \/ FailFinal(s)
  PROVE  NoneCompleted
<1>1. slot[s].job \in JobIds
  BY SlotJob DEF FailRetry, FailFinal
<1>2. CASE \E st : st # "COMPLETED" /\ Settle(slot[s].job, st)
  BY <1>1, <1>2, SettleNotCompleted
<1>3. CASE UNCHANGED jobs
  BY <1>3 DEF NoneCompleted
<1> QED
  BY <1>2, <1>3 DEF FailRetry, FailFinal, Die

LEMMA ClaimNotCompleted ==
  ASSUME TableTypeOK, NEW s \in Slots, Claim(s)
  PROVE  NoneCompleted
<1>1. PICK j \in JobIds : jobs' = [jobs EXCEPT ![j] =
        [jobs[j] EXCEPT !.status = "RUNNING", !.attempts = Bump(jobs[j].attempts),
                        !.lockedBy = WorkerOf[s], !.fresh = TRUE]]
  BY DEF Claim
<1> QED
  BY <1>1 DEF TableTypeOK, JobRow, NoneCompleted

LEMMA RequeueNotCompleted ==
  ASSUME TableTypeOK, NEW j \in JobIds, Requeue(j)
  PROVE  NoneCompleted
  BY DEF Requeue, TableTypeOK, JobRow, NoneCompleted

LEMMA LockNotCompleted ==
  ASSUME TableTypeOK, NEW j \in JobIds, LockExpires(j) \/ RunnerStalls(j)
  PROVE  NoneCompleted
<1>1. jobs' = [jobs EXCEPT ![j] = [jobs[j] EXCEPT !.fresh = FALSE]]
  BY DEF LockExpires, RunnerStalls
<1> QED
  BY <1>1 DEF TableTypeOK, JobRow, NoneCompleted

LEMMA RecoverNotCompleted ==
  ASSUME TableTypeOK, RecoverExpired
  PROVE  NoneCompleted
<1>1. ASSUME NEW j \in JobIds, jobs'[j].status = "COMPLETED"
      PROVE  jobs[j].status = "COMPLETED"
  <2>1. jobs[j] \in JobRow
    BY DEF TableTypeOK
  <2> QED
    BY <1>1, <2>1 DEF RecoverExpired, JobRow
<1> QED
  BY <1>1 DEF NoneCompleted

-----------------------------------------------------------------------------
(* A table whose workers never stall: a run keeps the lock it took.        *)

RowHeld(s) ==
    slot[s] # Idle =>
        /\ jobs[slot[s].job].status = "RUNNING"
        /\ jobs[slot[s].job].lockedBy = WorkerOf[s]
        /\ jobs[slot[s].job].fresh

RunApart(s) == \A t \in Slots : slot[s] # Idle /\ slot[t].job = slot[s].job => s = t

KeysUnique ==
    \A i, j \in JobIds : Active(i) /\ Active(j) /\ jobs[i].key = jobs[j].key => i = j

AbsentKeyless == \A j \in JobIds : jobs[j].status = "ABSENT" => jobs[j].key = None

TableHeld ==
    /\ TableTypeOK
    /\ \A s \in Slots : RowHeld(s) /\ RunApart(s)
    /\ KeysUnique /\ AbsentKeyless

LEMMA IdleJob == \A s \in Slots : TableTypeOK => (slot[s] = Idle <=> slot[s].job = None)
  BY JobTableAssumption DEF TableTypeOK, RunCopy, Idle

(* A statement that writes row j and makes no row active beside one of its *)
(* key.                                                                    *)
LEMMA OneRowKeys ==
  ASSUME KeysUnique, AbsentKeyless, NEW j \in JobIds,
         \A i \in JobIds : i # j => jobs'[i] = jobs[i],
         jobs'[j].status # "ABSENT",
         Active(j)' => ActiveRows(jobs'[j].key) \ {j} = {}
  PROVE  KeysUnique' /\ AbsentKeyless'
<1>1. KeysUnique'
  BY DEF KeysUnique, ActiveRows, Active
<1>2. AbsentKeyless'
  BY DEF AbsentKeyless
<1> QED
  BY <1>1, <1>2

(* The runs of the other rows see nothing of it.                           *)
LEMMA OneRowHeld ==
  ASSUME TableHeld, NEW j \in JobIds, UNCHANGED slot,
         \A i \in JobIds : i # j => jobs'[i] = jobs[i],
         jobs[j].status # "RUNNING" \/ ~jobs[j].fresh
  PROVE  \A s \in Slots : RowHeld(s)' /\ RunApart(s)'
<1>1. \A s \in Slots : slot[s] # Idle => slot[s].job # j /\ slot[s].job \in JobIds
  BY SlotJob DEF TableHeld, RowHeld
<1>2. \A s \in Slots : slot'[s] = slot[s]
  OBVIOUS
<1>3. ASSUME NEW s \in Slots PROVE RowHeld(s)' /\ RunApart(s)'
  BY <1>1, <1>2 DEF TableHeld, RowHeld, RunApart, Idle
<1> QED
  BY <1>3

LEMMA InsertTable ==
  ASSUME TableHeld, NEW k \in Keys, ActiveRows(k) = {}, Insert(k), UNCHANGED slot
  PROVE  TableHeld'
<1>1. PICK j \in JobIds : jobs[j].status = "ABSENT" /\ jobs' = [jobs EXCEPT ![j] = NewRow(k)]
  BY DEF Insert, NextId
<1>2. /\ \A i \in JobIds : i # j => jobs'[i] = jobs[i]
      /\ jobs'[j].status = "PENDING" /\ jobs'[j].key = k
  BY <1>1 DEF TableHeld, TableTypeOK, NewRow, NoRow
<1>3. KeysUnique' /\ AbsentKeyless'
  BY <1>2, OneRowKeys DEF TableHeld
<1>4. \A s \in Slots : RowHeld(s)' /\ RunApart(s)'
  BY <1>1, <1>2, OneRowHeld
<1>5. TableTypeOK'
  BY InsertType DEF TableHeld, TableTypeOK
<1> QED
  BY <1>3, <1>4, <1>5 DEF TableHeld

LEMMA RequeueTable ==
  ASSUME TableHeld, NEW j \in JobIds, jobs[j].status = "FAILED", ActiveRows(jobs[j].key) = {},
         Requeue(j), UNCHANGED slot
  PROVE  TableHeld'
<1>1. jobs[j] \in JobRow
  BY DEF TableHeld, TableTypeOK
<1>2. /\ \A i \in JobIds : i # j => jobs'[i] = jobs[i]
      /\ jobs'[j].status = "PENDING" /\ jobs'[j].key = jobs[j].key
  BY <1>1 DEF TableHeld, TableTypeOK, Requeue, JobRow
<1>3. KeysUnique' /\ AbsentKeyless'
  BY <1>2, OneRowKeys DEF TableHeld
<1>4. \A s \in Slots : RowHeld(s)' /\ RunApart(s)'
  BY <1>2, OneRowHeld
<1>5. TableTypeOK'
  BY RequeueType DEF TableHeld, TableTypeOK
<1> QED
  BY <1>3, <1>4, <1>5 DEF TableHeld

LEMMA ClaimTable ==
  ASSUME TableHeld, NEW s \in Slots, Claim(s)
  PROVE  TableHeld'
<1>1. PICK j \in JobIds :
        /\ jobs[j].status = "PENDING"
        /\ jobs' = [jobs EXCEPT ![j] =
             [jobs[j] EXCEPT !.status = "RUNNING", !.attempts = Bump(jobs[j].attempts),
                             !.lockedBy = WorkerOf[s], !.fresh = TRUE]]
        /\ slot' = [slot EXCEPT ![s] = [job |-> j, attempts |-> Bump(jobs[j].attempts)]]
  BY DEF Claim
<1>2. jobs[j] \in JobRow
  BY DEF TableHeld, TableTypeOK
<1>3. /\ \A i \in JobIds : i # j => jobs'[i] = jobs[i]
      /\ jobs'[j].status = "RUNNING" /\ jobs'[j].key = jobs[j].key
      /\ jobs'[j].lockedBy = WorkerOf[s] /\ jobs'[j].fresh
  BY <1>1, <1>2 DEF TableHeld, TableTypeOK, JobRow
<1>4. slot'[s].job = j /\ \A t \in Slots : t # s => slot'[t] = slot[t]
  BY <1>1 DEF TableHeld, TableTypeOK
<1>5. KeysUnique' /\ AbsentKeyless'
  BY <1>1, <1>3, OneRowKeys DEF TableHeld, KeysUnique, ActiveRows, Active
<1>6. \A t \in Slots : slot[t] # Idle => slot[t].job # j /\ slot[t].job \in JobIds
  BY <1>1, SlotJob DEF TableHeld, RowHeld
<1>7. TableTypeOK'
  BY RunType DEF TableHeld
<1>8. ASSUME NEW t \in Slots PROVE RowHeld(t)'
  <2>1. CASE t = s
    BY <1>3, <1>4, <2>1 DEF RowHeld
  <2>2. CASE t # s
    BY <1>3, <1>4, <1>6, <2>2 DEF TableHeld, RowHeld, Idle
  <2> QED
    BY <2>1, <2>2
<1>9. ASSUME NEW t \in Slots PROVE RunApart(t)'
  <2> SUFFICES ASSUME NEW u \in Slots, slot'[t] # Idle, slot'[u].job = slot'[t].job
               PROVE  t = u
    BY DEF RunApart, Idle
  <2>1. slot'[u] # Idle
    <3>1. slot'[t].job \in JobIds
      BY <1>7 DEF TableTypeOK, RunCopy
    <3> QED
      BY <3>1, JobTableAssumption DEF Idle
  <2>2. CASE t # s /\ u # s
    BY <1>4, <2>2 DEF TableHeld, RunApart, Idle
  <2> QED
    BY <1>4, <1>6, <2>1, <2>2 DEF Idle
<1> QED
  BY <1>5, <1>7, <1>8, <1>9 DEF TableHeld

(* No other row of a held row's key is active, so failJob meets no index.  *)
LEMMA KeyFree ==
  ASSUME TableHeld, NEW s \in Slots, slot[s] # Idle
  PROVE  ~KeyTaken(slot[s].job)
<1>1. slot[s].job \in JobIds /\ Active(slot[s].job)
  BY SlotJob DEF TableHeld, RowHeld, Active
<1> QED
  BY <1>1 DEF TableHeld, KeysUnique, KeyTaken, ActiveRows

(* How a run ends: its row is settled, its slot is free, and nothing else. *)
RunEnded(s, st) == Settle(slot[s].job, st) /\ Release(s)

LEMMA EndsHow ==
  ASSUME TableHeld, NEW s \in Slots, EndsRun(s)
  PROVE  /\ slot[s] # Idle
         /\ Complete(s) => RunEnded(s, "COMPLETED")
         /\ FailRetry(s) => RunEnded(s, "PENDING")
         /\ FailFinal(s) => RunEnded(s, "FAILED")
  BY KeyFree DEF EndsRun, Complete, FailRetry, FailFinal, RunEnded

LEMMA EndedRows ==
  ASSUME TableHeld, NEW s \in Slots, slot[s] # Idle, NEW st, RunEnded(s, st)
  PROVE  /\ \A i \in JobIds : i # slot[s].job => jobs'[i] = jobs[i]
         /\ jobs'[slot[s].job].status = st
         /\ jobs'[slot[s].job].key = jobs[slot[s].job].key
         /\ slot'[s] = Idle
         /\ \A t \in Slots : t # s => slot'[t] = slot[t] /\ slot[t].job # slot[s].job
<1>1. slot[s].job \in JobIds /\ jobs[slot[s].job] \in JobRow
  BY SlotJob DEF TableHeld, TableTypeOK
<1> QED
  BY <1>1 DEF RunEnded, Settle, Release, TableHeld, TableTypeOK, JobRow, RunApart

LEMMA EndTable ==
  ASSUME TableHeld, NEW s \in Slots, EndsRun(s)
  PROVE  TableHeld'
<1>1. slot[s] # Idle /\ slot[s].job \in JobIds
  BY EndsHow, SlotJob DEF TableHeld
<1>2. PICK st \in {"COMPLETED", "PENDING", "FAILED"} : RunEnded(s, st)
  BY EndsHow DEF EndsRun
<1> DEFINE j == slot[s].job
<1>3. /\ \A i \in JobIds : i # j => jobs'[i] = jobs[i]
      /\ jobs'[j].status = st /\ jobs'[j].key = jobs[j].key
      /\ slot'[s] = Idle
      /\ \A t \in Slots : t # s => slot'[t] = slot[t] /\ slot[t].job # j
  BY <1>1, <1>2, EndedRows
<1>4. ActiveRows(jobs[j].key) \ {j} = {}
  BY <1>1, KeyFree DEF KeyTaken
<1>5. KeysUnique' /\ AbsentKeyless'
  BY <1>1, <1>3, <1>4, OneRowKeys DEF TableHeld
<1>6. TableTypeOK'
  BY EndRunType DEF EndsRun, TableHeld
<1>7. ASSUME NEW t \in Slots PROVE RowHeld(t)'
  <2>1. t # s /\ slot[t] # Idle => slot[t].job \in JobIds
    BY SlotJob DEF TableHeld
  <2> QED
    BY <1>3, <2>1 DEF TableHeld, RowHeld, Idle
<1>8. ASSUME NEW t \in Slots PROVE RunApart(t)'
  <2> SUFFICES ASSUME NEW u \in Slots, slot'[t] # Idle, slot'[u].job = slot'[t].job
               PROVE  t = u
    BY DEF RunApart, Idle
  <2>1. slot'[u] # Idle
    <3>1. slot'[t].job \in JobIds
      BY <1>6 DEF TableTypeOK, RunCopy
    <3> QED
      BY <3>1, JobTableAssumption DEF Idle
  <2> QED
    BY <1>3, <2>1 DEF TableHeld, RunApart, Idle
<1> QED
  BY <1>5, <1>6, <1>7, <1>8 DEF TableHeld

LEMMA DieTable ==
  ASSUME TableHeld, NEW w \in Workers, Die(w)
  PROVE  TableHeld'
<1>1. UNCHANGED jobs /\ \A t \in Slots : slot'[t] = slot[t] \/ slot'[t] = Idle
  BY DEF Die
<1>2. TableTypeOK'
  BY DieType DEF TableHeld, TableTypeOK
<1>3. ASSUME NEW t \in Slots PROVE RowHeld(t)'
  BY <1>1 DEF TableHeld, RowHeld, Idle
<1>4. ASSUME NEW t \in Slots PROVE RunApart(t)'
  <2> SUFFICES ASSUME NEW u \in Slots, slot'[t] # Idle, slot'[u].job = slot'[t].job
               PROVE  t = u
    BY DEF RunApart, Idle
  <2>1. slot'[t].job \in JobIds
    BY <1>2 DEF TableTypeOK, RunCopy
  <2> QED
    BY <1>1, <2>1, JobTableAssumption DEF TableHeld, RunApart, Idle
<1>5. KeysUnique' /\ AbsentKeyless'
  BY <1>1 DEF TableHeld, KeysUnique, AbsentKeyless, Active
<1> QED
  BY <1>2, <1>3, <1>4, <1>5 DEF TableHeld

(* An expired lock is nobody's: recovery takes no row from a run.          *)
LEMMA LockTable ==
  ASSUME TableHeld, (\E j \in JobIds : LockExpires(j)) \/ RecoverExpired
  PROVE  TableHeld'
<1>1. UNCHANGED slot
  BY DEF LockExpires, RecoverExpired
<1>2. ASSUME NEW i \in JobIds
      PROVE  /\ jobs'[i].key = jobs[i].key
             /\ Active(i)' <=> Active(i)
             /\ jobs'[i].status = "ABSENT" <=> jobs[i].status = "ABSENT"
  <2>1. jobs[i] \in JobRow
    BY DEF TableHeld, TableTypeOK
  <2>2. CASE RecoverExpired
    BY <2>1, <2>2 DEF RecoverExpired, Expired, Active, JobRow
  <2>3. ASSUME NEW j \in JobIds, LockExpires(j)
        PROVE  /\ jobs'[i].key = jobs[i].key
               /\ Active(i)' <=> Active(i)
               /\ jobs'[i].status = "ABSENT" <=> jobs[i].status = "ABSENT"
    BY <2>1, <2>3 DEF LockExpires, Active, TableHeld, TableTypeOK, JobRow
  <2> QED
    BY <2>2, <2>3
<1>3. ASSUME NEW s \in Slots, slot[s] # Idle PROVE jobs'[slot[s].job] = jobs[slot[s].job]
  <2>1. slot[s].job \in JobIds /\ LiveRunner(slot[s].job) /\ ~Expired(slot[s].job)
    BY <1>3, SlotJob DEF TableHeld, RowHeld, LiveRunner, Runs, Expired
  <2>2. CASE RecoverExpired
    BY <2>1, <2>2 DEF RecoverExpired
  <2>3. ASSUME NEW j \in JobIds, LockExpires(j) PROVE jobs'[slot[s].job] = jobs[slot[s].job]
    BY <2>1, <2>3 DEF LockExpires, TableHeld, TableTypeOK
  <2> QED
    BY <2>2, <2>3
<1>4. TableTypeOK'
  BY LockType, RecoverType DEF TableHeld
<1>5. KeysUnique' /\ AbsentKeyless'
  BY <1>2 DEF TableHeld, KeysUnique, AbsentKeyless
<1>6. ASSUME NEW s \in Slots PROVE RowHeld(s)' /\ RunApart(s)'
  BY <1>1, <1>3 DEF TableHeld, RowHeld, RunApart, Idle
<1> QED
  BY <1>4, <1>5, <1>6 DEF TableHeld
=============================================================================

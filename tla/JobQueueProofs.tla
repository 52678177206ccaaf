--------------------------- MODULE JobQueueProofs ---------------------------
(***************************************************************************)
(* Proofs about JobQueue: type correctness, and the safety of job          *)
(* execution and of enqueueJob for any number of workers, slots, requests, *)
(* keys and rows.  Then proofs about WorkerLoop, where answers are lost:   *)
(* the keys of active rows stay apart, a row stays its runner's, and a     *)
(* shutdown cuts off one run at most.                                      *)
(***************************************************************************)
EXTENDS WorkerLoop, JobTableProofs

USE DEF vars, tableVars, callerVars

-----------------------------------------------------------------------------
(* Type correctness.                                                       *)

LEMMA InitType == Init => TypeOK
  BY JobTableAssumption, JobQueueAssumption
     DEF Init, TableInit, TypeOK, TableTypeOK, JobRow, NoRow, JobStatus,
         RunCopy, Idle, CallerPc

LEMMA CommitType ==
  ASSUME TypeOK, NEW c \in Callers, NEW a \in CallerPc, Commit(c, a)
  PROVE  /\ pc' \in [Callers -> CallerPc]
         /\ keyLock' \in [Keys -> Callers \cup {None}]
         /\ slot' = slot /\ crashes' = crashes
  BY JobQueueAssumption DEF TypeOK, Commit, Goto, Unlock

LEMMA RequestType ==
  ASSUME TypeOK, NEW c \in Callers, Request(c) \/ Abort(c)
  PROVE  TypeOK'
<1>1. KeyOf[c] \in Keys
  BY JobQueueAssumption
<1>2. CASE LockKey(c)
  BY <1>1, <1>2 DEF TypeOK, TableTypeOK, LockKey, Goto, CallerPc
<1>3. jobs' \in [JobIds -> JobRow]
  BY <1>1, RequeueType, InsertType
     DEF TypeOK, TableTypeOK, Request, Abort, LockKey, FindActive, ResetFailed,
         InsertRow, SelectRaced, FailedRows
<1>4. CASE \E a \in CallerPc : Commit(c, a)
  BY <1>3, <1>4, CommitType DEF TypeOK, TableTypeOK
<1>5. CASE (\E a \in CallerPc : Goto(c, a)) /\ UNCHANGED <<slot, keyLock, crashes>>
  BY <1>3, <1>5 DEF TypeOK, TableTypeOK, Goto
<1> QED
  BY <1>2, <1>4, <1>5
     DEF Request, Abort, FindActive, ResetFailed, InsertRow, SelectRaced, CallerPc

LEMMA TypeStep == ASSUME TypeOK, [Next]_vars PROVE TypeOK'
<1>1. ASSUME NEW c \in Callers, Request(c) \/ Abort(c) PROVE TypeOK'
  BY <1>1, RequestType
<1>2. ASSUME NEW k \in DirectKeys, DirectInsert(k) PROVE TypeOK'
  BY <1>2, InsertType, JobQueueAssumption DEF DirectInsert, TypeOK, TableTypeOK
<1>3. ASSUME NEW j \in JobIds, ReorgRequeue(j) PROVE TypeOK'
  BY <1>3, RequeueType DEF ReorgRequeue, TypeOK, TableTypeOK
<1>4. ASSUME NEW j \in JobIds, Expire(j) \/ Stall(j) PROVE TypeOK'
  BY <1>4, LockType DEF Expire, Stall, TypeOK
<1>5. ASSUME NEW s \in Slots, Run(s) PROVE TypeOK'
  BY <1>5, RunType DEF Run, TypeOK
<1>6. ASSUME NEW s \in Slots, EndRun(s) PROVE TypeOK'
  BY <1>6, EndRunType DEF EndRun, TypeOK
<1>7. ASSUME NEW w \in Workers, Crash(w) PROVE TypeOK'
  BY <1>7, DieType, JobQueueAssumption DEF Crash, TypeOK, TableTypeOK
<1>8. CASE Recover
  BY <1>8, RecoverType DEF Recover, TypeOK
<1>9. CASE UNCHANGED vars
  BY <1>9 DEF TypeOK, TableTypeOK
<1> QED
  BY <1>1, <1>2, <1>3, <1>4, <1>5, <1>6, <1>7, <1>8, <1>9 DEF Next

(* THEOREM: every reachable state is typed.                                *)
THEOREM TypeCorrect == Spec => []TypeOK
<1>1. TypeOK /\ [Next]_vars => TypeOK'
  BY TypeStep
<1> QED
  BY InitType, <1>1, PTL DEF Spec

-----------------------------------------------------------------------------
(* What a worker's step does to the rows: nothing becomes unfinished, and  *)
(* outside LooseKeys nothing becomes active and a completed row stays.     *)

RowKept(j) ==
    /\ jobs'[j].key = jobs[j].key
    /\ jobs'[j].status = "ABSENT" <=> jobs[j].status = "ABSENT"
    /\ jobs[j].key \notin LooseKeys =>
        /\ Active(j)' => Active(j)
        /\ jobs'[j].status = "FAILED" => Active(j) \/ jobs[j].status = "FAILED"
        /\ jobs[j].status = "COMPLETED" => jobs'[j] = jobs[j]

WorkerStep ==
    /\ \A j \in JobIds : RowKept(j)
    /\ UNCHANGED callerVars

LEMMA InitInv == Init => QueueInv
<1> SUFFICES ASSUME Init PROVE QueueInv
  OBVIOUS
<1>1. TypeOK
  BY InitType
<1>2. RowsKeyed
  BY DEF Init, TableInit, NoRow, RowsKeyed
<1>3. RunsLocked /\ RunsApart
  BY DEF Init, TableInit, RunsLocked, RunsApart, Holds
<1>4. LockHeld /\ ReadsStillTrue
  BY DEF Init, LockHeld, ReadsStillTrue, InTransaction
<1>5. OneUnfinished
  BY DEF Init, TableInit, NoRow, OneUnfinished, Unfinished
<1> QED
  BY <1>1, <1>2, <1>3, <1>4, <1>5 DEF QueueInv

(* Requests keep waiting on facts that no worker's step undoes.            *)
LEMMA WorkerStepInv ==
  ASSUME QueueInv, WorkerStep
  PROVE  RowsKeyed' /\ LockHeld' /\ ReadsStillTrue' /\ OneUnfinished'
<1>1. RowsKeyed'
  BY DEF QueueInv, RowsKeyed, WorkerStep, RowKept
<1>2. LockHeld'
  BY DEF QueueInv, LockHeld, WorkerStep, InTransaction
<1>3. ReadsStillTrue'
  <2> SUFFICES ASSUME NEW c \in Callers, KeyOf[c] \notin LooseKeys
               PROVE  /\ pc'[c] \in {"reset", "insert"} => ActiveRows(KeyOf[c])' = {}
                      /\ pc'[c] = "insert" => FailedRows(KeyOf[c])' = {}
                      /\ pc'[c] \notin {"raced", "conflict", "error"}
    BY DEF ReadsStillTrue
  <2>1. pc' = pc
    BY DEF WorkerStep
  <2>2. ActiveRows(KeyOf[c])' \subseteq ActiveRows(KeyOf[c])
    BY DEF WorkerStep, RowKept, ActiveRows, Active
  <2>3. FailedRows(KeyOf[c])' \subseteq FailedRows(KeyOf[c]) \cup ActiveRows(KeyOf[c])
    BY DEF WorkerStep, RowKept, ActiveRows, FailedRows, Active
  <2> QED
    BY <2>1, <2>2, <2>3 DEF QueueInv, ReadsStillTrue
<1>4. OneUnfinished'
  <2>1. ASSUME NEW j \in JobIds, Unfinished(j)', Ordinary(jobs'[j].key)
        PROVE  Unfinished(j) /\ jobs'[j].key = jobs[j].key
    BY <2>1 DEF WorkerStep, RowKept, Unfinished, Ordinary, Active
  <2> QED
    BY <2>1 DEF QueueInv, OneUnfinished
<1> QED
  BY <1>1, <1>2, <1>3, <1>4

LEMMA ClaimInv ==
  ASSUME QueueInv, NEW s \in Slots, Claim(s), UNCHANGED callerVars
  PROVE  WorkerStep /\ RunsLocked' /\ RunsApart'
<1>1. PICK j \in JobIds :
        /\ jobs[j].status = "PENDING"
        /\ jobs' = [jobs EXCEPT ![j] =
                     [jobs[j] EXCEPT !.status = "RUNNING",
                                     !.attempts = Bump(jobs[j].attempts),
                                     !.lockedBy = WorkerOf[s], !.fresh = TRUE]]
        /\ slot' = [slot EXCEPT ![s] = [job |-> j, attempts |-> Bump(jobs[j].attempts)]]
  BY DEF Claim
<1>2. WorkerStep
  BY <1>1 DEF WorkerStep, RowKept, Active, QueueInv, TypeOK, TableTypeOK, JobRow
<1>3. jobs[j].key \notin LooseKeys => \A t \in Slots : ~Holds(t, j)
  BY <1>1 DEF QueueInv, RunsLocked
<1>4. \A t \in Slots, i \in JobIds :
        Holds(t, i)' => (t = s /\ i = j) \/ (t # s /\ Holds(t, i))
  BY <1>1 DEF Holds, QueueInv, TypeOK, TableTypeOK
<1>5. /\ jobs'[j].key = jobs[j].key /\ jobs'[j].status = "RUNNING"
      /\ jobs'[j].lockedBy = WorkerOf[s] /\ jobs'[j].fresh
      /\ \A i \in JobIds : i # j => jobs'[i] = jobs[i]
  BY <1>1 DEF QueueInv, TypeOK, TableTypeOK, JobRow
<1>6. RunsLocked'
  BY <1>3, <1>4, <1>5 DEF QueueInv, RunsLocked
<1>7. RunsApart'
  BY <1>3, <1>4, <1>5 DEF QueueInv, RunsApart
<1> QED
  BY <1>2, <1>6, <1>7

(* A step that changes no status, key or owner of a row that is run, and   *)
(* only refreshes its lock.                                                *)
LEMMA RefreshInv ==
  ASSUME QueueInv, NEW s \in Slots, RenewLock(s) \/ UpdateProgress(s),
         UNCHANGED callerVars
  PROVE  WorkerStep /\ RunsLocked' /\ RunsApart'
<1> DEFINE j == slot[s].job
<1>1. j \in JobIds
  BY SlotJob DEF RenewLock, UpdateProgress, QueueInv, TypeOK
<1>2. /\ jobs' = [jobs EXCEPT ![j] = [jobs[j] EXCEPT !.fresh = TRUE]]
      /\ slot' = slot /\ jobs[j].status = "RUNNING"
  BY DEF RenewLock, UpdateProgress
<1>3. /\ jobs'[j].key = jobs[j].key /\ jobs'[j].status = jobs[j].status
      /\ jobs'[j].lockedBy = jobs[j].lockedBy /\ jobs'[j].fresh
      /\ \A i \in JobIds : i # j => jobs'[i] = jobs[i]
  BY <1>1, <1>2 DEF QueueInv, TypeOK, TableTypeOK, JobRow
<1>4. WorkerStep
  BY <1>2, <1>3 DEF WorkerStep, RowKept, Active
<1>5. RunsLocked' /\ RunsApart'
  BY <1>2, <1>3 DEF QueueInv, RunsLocked, RunsApart, Holds
<1> QED
  BY <1>4, <1>5

(* The slots of a dead process hold nothing.                               *)
LEMMA DieInv ==
  ASSUME QueueInv, NEW w \in Workers, Die(w), UNCHANGED callerVars
  PROVE  WorkerStep /\ RunsLocked' /\ RunsApart'
<1>1. \A t \in Slots, i \in JobIds : Holds(t, i)' => Holds(t, i)
  BY DEF Die, Holds, QueueInv, TypeOK, TableTypeOK
<1>2. jobs' = jobs
  BY DEF Die
<1>3. WorkerStep
  BY <1>2 DEF WorkerStep, RowKept, Active
<1>4. RunsLocked' /\ RunsApart'
  BY <1>1, <1>2 DEF QueueInv, RunsLocked, RunsApart
<1> QED
  BY <1>3, <1>4

(* A run ends: its row is RUNNING under its own lock, unless it is one a   *)
(* reorg requeued.                                                         *)
LEMMA SettleInv ==
  ASSUME QueueInv, NEW s \in Slots, slot[s] # Idle, NEW st \in JobStatus \ {"ABSENT"},
         Settle(slot[s].job, st), Release(s), UNCHANGED callerVars
  PROVE  WorkerStep /\ RunsLocked' /\ RunsApart'
<1> PICK j \in JobIds : j = slot[s].job
  BY SlotJob DEF QueueInv, TypeOK
<1>1. Holds(s, j)
  BY DEF Holds
<1>2. /\ jobs'[j].key = jobs[j].key /\ jobs'[j].status = st
      /\ \A i \in JobIds : i # j => jobs'[i] = jobs[i]
  BY <1>1 DEF Settle, QueueInv, TypeOK, TableTypeOK, JobRow
<1>3. jobs[j].key \notin LooseKeys => jobs[j].status = "RUNNING"
  BY <1>1 DEF QueueInv, RunsLocked
<1>4. jobs[j].status # "ABSENT"
  <2>1. None \notin LooseKeys
    BY JobTableAssumption, JobQueueAssumption DEF LooseKeys
  <2>2. jobs[j].key \in LooseKeys => jobs[j].key # None
    BY <2>1
  <2> QED
    BY <1>1, <1>3, <2>2 DEF QueueInv, RowsKeyed
<1>5. WorkerStep
  <2>1. RowKept(j)
    BY <1>2, <1>3, <1>4 DEF RowKept, Active
  <2>2. ASSUME NEW i \in JobIds, i # j PROVE RowKept(i)
    BY <1>2, <2>2 DEF RowKept, Active
  <2> QED
    BY <2>1, <2>2 DEF WorkerStep
<1>6. \A t \in Slots, i \in JobIds : Holds(t, i)' => t # s /\ Holds(t, i)
  BY JobTableAssumption DEF Release, Holds, QueueInv, TypeOK, TableTypeOK
<1>7. jobs[j].key \notin LooseKeys => \A t \in Slots : ~Holds(t, j)'
  BY <1>1, <1>6 DEF QueueInv, RunsApart
<1>8. RunsLocked'
  BY <1>2, <1>6, <1>7 DEF QueueInv, RunsLocked
<1>9. RunsApart'
  BY <1>2, <1>6, <1>7 DEF QueueInv, RunsApart
<1> QED
  BY <1>5, <1>8, <1>9

LEMMA EndRunInv ==
  ASSUME QueueInv, NEW s \in Slots, EndRun(s)
  PROVE  WorkerStep /\ RunsLocked' /\ RunsApart'
<1>1. slot[s] # Idle /\ UNCHANGED callerVars
  BY DEF EndRun, Complete, FailRetry, FailFinal
<1>2. CASE \E st \in JobStatus \ {"ABSENT"} : Settle(slot[s].job, st) /\ Release(s)
  BY <1>1, <1>2, SettleInv
<1>3. CASE Die(WorkerOf[s])
  BY <1>1, <1>3, DieInv, JobTableAssumption
<1> QED
  BY <1>2, <1>3 DEF EndRun, Complete, FailRetry, FailFinal, JobStatus

(* Only the lock of a row nobody runs expires.                             *)
LEMMA ExpireInv ==
  ASSUME QueueInv, NEW j \in JobIds, Expire(j)
  PROVE  WorkerStep /\ RunsLocked' /\ RunsApart'
<1>1. /\ jobs' = [jobs EXCEPT ![j] = [jobs[j] EXCEPT !.fresh = FALSE]]
      /\ slot' = slot /\ jobs[j].status = "RUNNING" /\ ~LiveRunner(j)
      /\ UNCHANGED callerVars
  BY DEF Expire, LockExpires
<1>2. jobs[j].key \notin LooseKeys => \A t \in Slots : ~Holds(t, j)
  BY <1>1 DEF QueueInv, RunsLocked, LiveRunner, Runs, Holds
<1>3. /\ jobs'[j].key = jobs[j].key /\ jobs'[j].status = jobs[j].status
      /\ \A i \in JobIds : i # j => jobs'[i] = jobs[i]
  BY <1>1 DEF QueueInv, TypeOK, TableTypeOK, JobRow
<1>4. WorkerStep
  BY <1>1, <1>3 DEF WorkerStep, RowKept, Active
<1>5. RunsLocked' /\ RunsApart'
  BY <1>1, <1>2, <1>3 DEF QueueInv, RunsLocked, RunsApart, Holds
<1> QED
  BY <1>4, <1>5

(* A runner loses the lock of a row that is loose.                         *)
LEMMA StallInv ==
  ASSUME QueueInv, NEW j \in JobIds, Stall(j)
  PROVE  WorkerStep /\ RunsLocked' /\ RunsApart'
<1>1. /\ jobs' = [jobs EXCEPT ![j] = [jobs[j] EXCEPT !.fresh = FALSE]]
      /\ slot' = slot /\ jobs[j].key \in LooseKeys
      /\ UNCHANGED callerVars
  BY DEF Stall, RunnerStalls, LooseKeys
<1>2. /\ jobs'[j].key = jobs[j].key /\ jobs'[j].status = jobs[j].status
      /\ \A i \in JobIds : i # j => jobs'[i] = jobs[i]
  BY <1>1 DEF QueueInv, TypeOK, TableTypeOK, JobRow
<1>3. WorkerStep
  BY <1>1, <1>2 DEF WorkerStep, RowKept, Active
<1>4. RunsLocked' /\ RunsApart'
  BY <1>1, <1>2 DEF QueueInv, RunsLocked, RunsApart, Holds
<1> QED
  BY <1>3, <1>4

(* Recovery takes only expired rows, and no runner's lock has expired.     *)
LEMMA RecoverInv ==
  ASSUME QueueInv, Recover
  PROVE  WorkerStep /\ RunsLocked' /\ RunsApart'
<1>1. /\ slot' = slot
      /\ UNCHANGED callerVars
      /\ \A j \in JobIds : ~Expired(j) => jobs'[j] = jobs[j]
      /\ \A j \in JobIds : Expired(j) =>
            jobs'[j] = [jobs[j] EXCEPT !.status = "PENDING", !.lockedBy = None]
  BY DEF Recover, RecoverExpired
<1>2. ASSUME NEW j \in JobIds, Expired(j)
      PROVE  /\ jobs[j].status = "RUNNING" /\ jobs'[j].status = "PENDING"
             /\ jobs'[j].key = jobs[j].key
  <2>1. jobs[j] \in JobRow
    BY DEF QueueInv, TypeOK, TableTypeOK
  <2> QED
    BY <1>1, <1>2, <2>1 DEF JobRow, Expired
<1>3. \A s \in Slots, j \in JobIds :
        Holds(s, j) /\ jobs[j].key \notin LooseKeys => ~Expired(j)
  BY DEF QueueInv, RunsLocked, Expired
<1>4. WorkerStep
  BY <1>1, <1>2 DEF WorkerStep, RowKept, Active
<1>5. \A j \in JobIds : jobs'[j].key = jobs[j].key
  BY <1>1, <1>2
<1>6. RunsLocked'
  <2> SUFFICES ASSUME NEW s \in Slots, NEW j \in JobIds,
                      Holds(s, j)', jobs'[j].key \notin LooseKeys
               PROVE  jobs'[j] = jobs[j] /\ Holds(s, j) /\ jobs[j].key \notin LooseKeys
    BY DEF QueueInv, RunsLocked
  <2>1. Holds(s, j) /\ jobs[j].key \notin LooseKeys
    BY <1>1, <1>5 DEF Holds
  <2> QED
    BY <1>1, <1>3, <2>1
<1>7. RunsApart'
  BY <1>1, <1>5 DEF QueueInv, RunsApart, Holds
<1> QED
  BY <1>4, <1>6, <1>7

(* A new row takes an identity nobody runs, and adds its key's only        *)
(* unfinished row when the key had none.                                   *)
LEMMA InsertRuns ==
  ASSUME QueueInv, NEW k \in Keys, Insert(k), UNCHANGED slot
  PROVE  /\ RowsKeyed' /\ RunsLocked' /\ RunsApart'
         /\ \E j \in JobIds :
              /\ jobs[j].status = "ABSENT"
              /\ jobs'[j].key = k /\ jobs'[j].status = "PENDING"
              /\ \A i \in JobIds : i # j => jobs'[i] = jobs[i]
<1>1. PICK j \in JobIds : NextId(j) /\ jobs' = [jobs EXCEPT ![j] = NewRow(k)]
  BY DEF Insert
<1>2. jobs[j].status = "ABSENT" /\ jobs[j].key = None
  BY <1>1 DEF NextId, QueueInv, RowsKeyed
<1>3. /\ jobs'[j].key = k /\ jobs'[j].status = "PENDING"
      /\ \A i \in JobIds : i # j => jobs'[i] = jobs[i]
  BY <1>1 DEF NewRow, NoRow, QueueInv, TypeOK, TableTypeOK
<1>4. k # None /\ None \notin LooseKeys
  BY JobTableAssumption, JobQueueAssumption DEF LooseKeys
<1>5. \A t \in Slots : ~Holds(t, j)
  BY <1>2, <1>4 DEF QueueInv, RunsLocked
<1>6. RowsKeyed'
  BY <1>3, <1>4 DEF QueueInv, RowsKeyed
<1>7. RunsLocked' /\ RunsApart'
  BY <1>3, <1>5 DEF QueueInv, RunsLocked, RunsApart, Holds
<1> QED
  BY <1>2, <1>3, <1>6, <1>7

(* A row that no run can hold, or that a reorg may touch, is queued again. *)
LEMMA RequeueRuns ==
  ASSUME QueueInv, NEW j \in JobIds, Requeue(j), UNCHANGED slot,
         jobs[j].status # "ABSENT",
         jobs[j].key \in LooseKeys \/ jobs[j].status # "RUNNING"
  PROVE  /\ RowsKeyed' /\ RunsLocked' /\ RunsApart'
         /\ jobs'[j].key = jobs[j].key /\ jobs'[j].status = "PENDING"
         /\ \A i \in JobIds : i # j => jobs'[i] = jobs[i]
<1>1. /\ jobs'[j].key = jobs[j].key /\ jobs'[j].status = "PENDING"
      /\ \A i \in JobIds : i # j => jobs'[i] = jobs[i]
  BY DEF Requeue, QueueInv, TypeOK, TableTypeOK, JobRow
<1>2. jobs[j].key \notin LooseKeys => \A t \in Slots : ~Holds(t, j)
  BY DEF QueueInv, RunsLocked
<1>3. RowsKeyed'
  BY <1>1 DEF QueueInv, RowsKeyed
<1>4. RunsLocked' /\ RunsApart'
  BY <1>1, <1>2 DEF QueueInv, RunsLocked, RunsApart, Holds
<1> QED
  BY <1>1, <1>3, <1>4

(* Steps that touch the rows of one key, k: every other key is as it was.  *)
OtherKeysKept(k) ==
    \A i \in JobIds :
        \/ jobs'[i] = jobs[i]
        \/ jobs'[i].key = k /\ (jobs[i].key = k \/ jobs[i].status = "ABSENT")

(* No request is inside its transaction on a key whose lock is free, and   *)
(* no two are on the same key.                                             *)
LEMMA OneInTransaction ==
  ASSUME QueueInv, NEW c \in Callers, NEW d \in Callers,
         InTransaction(c), InTransaction(d), KeyOf[c] = KeyOf[d]
  PROVE  c = d
  BY DEF QueueInv, LockHeld

LEMMA OtherReads ==
  ASSUME QueueInv, NEW k \in Keys, OtherKeysKept(k),
         NEW d \in Callers, KeyOf[d] # k
  PROVE  /\ ActiveRows(KeyOf[d])' = ActiveRows(KeyOf[d])
         /\ FailedRows(KeyOf[d])' = FailedRows(KeyOf[d])
<1>1. KeyOf[d] \in Keys /\ None \notin Keys
  BY JobTableAssumption, JobQueueAssumption
<1>2. \A i \in JobIds : jobs'[i] = jobs[i] \/ (jobs'[i].key # KeyOf[d] /\ jobs[i].key # KeyOf[d])
  BY <1>1 DEF OtherKeysKept, QueueInv, RowsKeyed
<1> QED
  BY <1>2 DEF ActiveRows, FailedRows, Active

(* A direct insert or a reorg requeue takes the key's lock, so no request  *)
(* on that key is between its reads and its write.                         *)
LEMMA UnlockedReads ==
  ASSUME QueueInv, NEW k \in Keys, OtherKeysKept(k), keyLock[k] = None,
         UNCHANGED callerVars
  PROVE  LockHeld' /\ ReadsStillTrue'
<1>1. \A d \in Callers : InTransaction(d) => KeyOf[d] # k
  BY JobQueueAssumption DEF QueueInv, LockHeld
<1>2. LockHeld'
  BY DEF QueueInv, LockHeld, InTransaction
<1>3. ASSUME NEW d \in Callers, KeyOf[d] \notin LooseKeys
      PROVE  /\ pc[d] \in {"reset", "insert"} => ActiveRows(KeyOf[d])' = {}
             /\ pc[d] = "insert" => FailedRows(KeyOf[d])' = {}
             /\ pc[d] \notin {"raced", "conflict", "error"}
  <2>1. CASE KeyOf[d] = k
    BY <1>1, <1>3, <2>1 DEF QueueInv, ReadsStillTrue, InTransaction
  <2>2. CASE KeyOf[d] # k
    BY <1>3, <2>2, OtherReads DEF QueueInv, ReadsStillTrue
  <2> QED
    BY <2>1, <2>2
<1> QED
  BY <1>2, <1>3 DEF ReadsStillTrue

LEMMA DirectInsertInv ==
  ASSUME QueueInv, NEW k \in DirectKeys, DirectInsert(k)
  PROVE  RowsKeyed' /\ RunsLocked' /\ RunsApart' /\ LockHeld' /\ ReadsStillTrue' /\ OneUnfinished'
<1>1. k \in Keys
  BY JobQueueAssumption
<1>2. /\ RowsKeyed' /\ RunsLocked' /\ RunsApart'
      /\ \E j \in JobIds :
              /\ jobs[j].status = "ABSENT"
              /\ jobs'[j].key = k /\ jobs'[j].status = "PENDING"
              /\ \A i \in JobIds : i # j => jobs'[i] = jobs[i]
  BY <1>1, InsertRuns DEF DirectInsert
<1>3. OtherKeysKept(k)
  BY <1>2 DEF OtherKeysKept
<1>4. LockHeld' /\ ReadsStillTrue'
  BY <1>1, <1>3, UnlockedReads DEF DirectInsert
<1>5. OneUnfinished'
  BY <1>2 DEF QueueInv, OneUnfinished, Unfinished, Ordinary
<1> QED
  BY <1>2, <1>4, <1>5

LEMMA ReorgRequeueInv ==
  ASSUME QueueInv, NEW j \in JobIds, ReorgRequeue(j)
  PROVE  RowsKeyed' /\ RunsLocked' /\ RunsApart' /\ LockHeld' /\ ReadsStillTrue' /\ OneUnfinished'
<1>1. jobs[j].key \in LooseKeys /\ jobs[j].key \in Keys /\ jobs[j].status # "ABSENT"
  BY JobTableAssumption, JobQueueAssumption
     DEF ReorgRequeue, LooseKeys, QueueInv, RowsKeyed
<1>2. /\ RowsKeyed' /\ RunsLocked' /\ RunsApart'
      /\ jobs'[j].key = jobs[j].key
      /\ \A i \in JobIds : i # j => jobs'[i] = jobs[i]
  BY <1>1, RequeueRuns DEF ReorgRequeue
<1>3. OtherKeysKept(jobs[j].key)
  BY <1>2 DEF OtherKeysKept
<1>4. LockHeld' /\ ReadsStillTrue'
  BY <1>1, <1>3, UnlockedReads DEF ReorgRequeue
<1>5. OneUnfinished'
  BY <1>1, <1>2 DEF QueueInv, OneUnfinished, Unfinished, Ordinary
<1> QED
  BY <1>2, <1>4, <1>5

-----------------------------------------------------------------------------
(* Requests.                                                               *)

LEMMA CommitInv ==
  ASSUME QueueInv, NEW c \in Callers, InTransaction(c),
         NEW a \in Answered, Commit(c, a), OtherKeysKept(KeyOf[c]),
         KeyOf[c] \notin LooseKeys => a \notin {"conflict", "error"}
  PROVE  LockHeld' /\ ReadsStillTrue'
<1>1. KeyOf[c] \in Keys
  BY JobQueueAssumption
<1>2. pc'[c] = a /\ \A d \in Callers : d # c => pc'[d] = pc[d]
  BY DEF Commit, Goto, QueueInv, TypeOK
<1>3. \A k \in Keys : k # KeyOf[c] => keyLock'[k] = keyLock[k]
  BY DEF Commit, Unlock, QueueInv, TypeOK
<1>4. \A d \in Callers : d # c /\ InTransaction(d) => KeyOf[d] # KeyOf[c]
  BY OneInTransaction
<1>5. LockHeld'
  <2> SUFFICES ASSUME NEW d \in Callers, InTransaction(d)'
               PROVE  keyLock'[KeyOf[d]] = d
    BY DEF LockHeld
  <2>1. d # c
    BY <1>2 DEF InTransaction, Answered
  <2>2. InTransaction(d)
    BY <1>2, <2>1 DEF InTransaction
  <2> QED
    BY <1>3, <1>4, <2>1, <2>2, JobQueueAssumption DEF QueueInv, LockHeld
<1>6. ASSUME NEW d \in Callers, KeyOf[d] \notin LooseKeys
      PROVE  /\ pc'[d] \in {"reset", "insert"} => ActiveRows(KeyOf[d])' = {}
             /\ pc'[d] = "insert" => FailedRows(KeyOf[d])' = {}
             /\ pc'[d] \notin {"raced", "conflict", "error"}
  <2>1. CASE d = c
    BY <1>2, <1>6, <2>1 DEF Answered
  <2>2. CASE d # c /\ InTransaction(d)
    BY <1>1, <1>2, <1>4, <1>6, <2>2, OtherReads DEF QueueInv, ReadsStillTrue
  <2>3. CASE d # c /\ ~InTransaction(d)
    BY <1>2, <1>6, <2>3 DEF QueueInv, ReadsStillTrue, InTransaction
  <2> QED
    BY <2>1, <2>2, <2>3
<1> QED
  BY <1>5, <1>6 DEF ReadsStillTrue

LEMMA GotoInv ==
  ASSUME QueueInv, NEW c \in Callers, InTransaction(c),
         NEW a \in {"reset", "insert", "raced"}, Goto(c, a),
         UNCHANGED <<jobs, keyLock>>,
         KeyOf[c] \notin LooseKeys =>
            /\ a # "raced"
            /\ ActiveRows(KeyOf[c]) = {}
            /\ a = "insert" => FailedRows(KeyOf[c]) = {}
  PROVE  LockHeld' /\ ReadsStillTrue'
<1>1. pc'[c] = a /\ \A d \in Callers : d # c => pc'[d] = pc[d]
  BY DEF Goto, QueueInv, TypeOK
<1>2. \A k : ActiveRows(k)' = ActiveRows(k) /\ FailedRows(k)' = FailedRows(k)
  BY DEF ActiveRows, FailedRows, Active
<1>3. LockHeld'
  BY <1>1 DEF QueueInv, LockHeld, InTransaction
<1>4. ReadsStillTrue'
  <2> SUFFICES ASSUME NEW d \in Callers, KeyOf[d] \notin LooseKeys
               PROVE  /\ pc'[d] \in {"reset", "insert"} => ActiveRows(KeyOf[d])' = {}
                      /\ pc'[d] = "insert" => FailedRows(KeyOf[d])' = {}
                      /\ pc'[d] \notin {"raced", "conflict", "error"}
    BY DEF ReadsStillTrue
  <2>1. CASE d = c
    BY <1>1, <1>2, <2>1
  <2>2. CASE d # c
    BY <1>1, <1>2, <2>2 DEF QueueInv, ReadsStillTrue
  <2> QED
    BY <2>1, <2>2
<1> QED
  BY <1>3, <1>4

LEMMA SameRows ==
  ASSUME QueueInv, UNCHANGED <<jobs, slot>>
  PROVE  RowsKeyed' /\ RunsLocked' /\ RunsApart' /\ OneUnfinished'
  BY DEF QueueInv, RowsKeyed, RunsLocked, RunsApart, Holds, OneUnfinished, Unfinished

LEMMA LockKeyInv ==
  ASSUME QueueInv, NEW c \in Callers, LockKey(c)
  PROVE  LockHeld' /\ ReadsStillTrue'
<1>1. /\ pc'[c] = "find" /\ \A d \in Callers : d # c => pc'[d] = pc[d]
      /\ keyLock'[KeyOf[c]] = c
      /\ \A k \in Keys : k # KeyOf[c] => keyLock'[k] = keyLock[k]
      /\ jobs' = jobs /\ pc[c] = "begin" /\ keyLock[KeyOf[c]] = None
  BY JobQueueAssumption DEF LockKey, Goto, QueueInv, TypeOK
<1>2. LockHeld'
  <2> SUFFICES ASSUME NEW d \in Callers, InTransaction(d)'
               PROVE  keyLock'[KeyOf[d]] = d
    BY DEF LockHeld
  <2>1. CASE d = c
    BY <1>1, <2>1
  <2>2. CASE d # c
    <3>1. InTransaction(d)
      BY <1>1, <2>2 DEF InTransaction
    <3>2. KeyOf[d] # KeyOf[c]
      BY <1>1, <3>1, JobQueueAssumption DEF QueueInv, LockHeld
    <3> QED
      BY <1>1, <3>1, <3>2, JobQueueAssumption DEF QueueInv, LockHeld
  <2> QED
    BY <2>1, <2>2
<1>3. \A k : ActiveRows(k)' = ActiveRows(k) /\ FailedRows(k)' = FailedRows(k)
  BY <1>1 DEF ActiveRows, FailedRows, Active
<1>4. ReadsStillTrue'
  BY <1>1, <1>3 DEF QueueInv, ReadsStillTrue
<1> QED
  BY <1>2, <1>4

LEMMA ResetFailedInv ==
  ASSUME QueueInv, NEW c \in Callers, ResetFailed(c)
  PROVE  RowsKeyed' /\ RunsLocked' /\ RunsApart' /\ LockHeld' /\ ReadsStillTrue' /\ OneUnfinished'
<1> DEFINE k == KeyOf[c]
<1>1. InTransaction(c) /\ k \in Keys /\ (k \notin LooseKeys => ActiveRows(k) = {})
  BY JobQueueAssumption DEF ResetFailed, InTransaction, QueueInv, ReadsStillTrue
<1>2. ASSUME NEW j \in FailedRows(k), Requeue(j), Commit(c, "queued")
      PROVE  RowsKeyed' /\ RunsLocked' /\ RunsApart' /\ LockHeld' /\ ReadsStillTrue' /\ OneUnfinished'
  <2>1. j \in JobIds /\ jobs[j].key = k /\ jobs[j].status = "FAILED"
    BY <1>2 DEF FailedRows
  <2>2. /\ RowsKeyed' /\ RunsLocked' /\ RunsApart'
        /\ jobs'[j].key = k
        /\ \A i \in JobIds : i # j => jobs'[i] = jobs[i]
    BY <1>2, <2>1, RequeueRuns DEF Commit
  <2>3. OtherKeysKept(k)
    BY <2>1, <2>2 DEF OtherKeysKept
  <2>4. LockHeld' /\ ReadsStillTrue'
    BY <1>1, <1>2, <2>3, CommitInv DEF Answered
  <2>5. OneUnfinished'
    BY <2>1, <2>2 DEF QueueInv, OneUnfinished, Unfinished, Ordinary
  <2> QED
    BY <2>2, <2>4, <2>5
<1>3. ASSUME NEW j \in FailedRows(k), KeyTaken(j), UNCHANGED jobs, Commit(c, "error")
      PROVE  RowsKeyed' /\ RunsLocked' /\ RunsApart' /\ LockHeld' /\ ReadsStillTrue' /\ OneUnfinished'
  <2>1. k \in LooseKeys
    BY <1>1, <1>3 DEF KeyTaken, FailedRows
  <2>2. OtherKeysKept(k)
    BY <1>3 DEF OtherKeysKept
  <2>3. LockHeld' /\ ReadsStillTrue'
    BY <1>1, <1>3, <2>1, <2>2, CommitInv DEF Answered
  <2> QED
    BY <1>3, <2>3, SameRows DEF Commit
<1>4. ASSUME FailedRows(k) = {}, UNCHANGED jobs, Goto(c, "insert"),
             UNCHANGED <<slot, keyLock, crashes>>
      PROVE  RowsKeyed' /\ RunsLocked' /\ RunsApart' /\ LockHeld' /\ ReadsStillTrue' /\ OneUnfinished'
  BY <1>1, <1>4, GotoInv, SameRows
<1> QED
  BY <1>2, <1>3, <1>4 DEF ResetFailed

LEMMA InsertRowInv ==
  ASSUME QueueInv, NEW c \in Callers, InsertRow(c)
  PROVE  RowsKeyed' /\ RunsLocked' /\ RunsApart' /\ LockHeld' /\ ReadsStillTrue' /\ OneUnfinished'
<1> DEFINE k == KeyOf[c]
<1>1. /\ InTransaction(c) /\ k \in Keys
      /\ k \notin LooseKeys => ActiveRows(k) = {} /\ FailedRows(k) = {}
  BY JobQueueAssumption DEF InsertRow, InTransaction, QueueInv, ReadsStillTrue
<1>2. CASE Insert(k) /\ Commit(c, "queued")
  <2>1. /\ RowsKeyed' /\ RunsLocked' /\ RunsApart'
        /\ \E j \in JobIds :
              /\ jobs[j].status = "ABSENT"
              /\ jobs'[j].key = k /\ jobs'[j].status = "PENDING"
              /\ \A i \in JobIds : i # j => jobs'[i] = jobs[i]
    BY <1>1, <1>2, InsertRuns DEF Commit
  <2>2. OtherKeysKept(k)
    BY <2>1 DEF OtherKeysKept
  <2>3. LockHeld' /\ ReadsStillTrue'
    BY <1>1, <1>2, <2>2, CommitInv DEF Answered
  <2>4. Ordinary(k) => \A i \in JobIds : jobs[i].key = k => ~Unfinished(i)
    BY <1>1 DEF Ordinary, Unfinished, ActiveRows, FailedRows, Active
  <2>5. OneUnfinished'
    BY <2>1, <2>4 DEF QueueInv, OneUnfinished, Unfinished
  <2> QED
    BY <2>1, <2>3, <2>5
<1>3. CASE ActiveRows(k) # {} /\ UNCHANGED jobs /\ Goto(c, "raced")
           /\ UNCHANGED <<slot, keyLock, crashes>>
  BY <1>1, <1>3, GotoInv, SameRows
<1> QED
  BY <1>2, <1>3 DEF InsertRow

LEMMA RequestInv ==
  ASSUME QueueInv, NEW c \in Callers, Request(c) \/ Abort(c)
  PROVE  RowsKeyed' /\ RunsLocked' /\ RunsApart' /\ LockHeld' /\ ReadsStillTrue' /\ OneUnfinished'
<1>1. CASE LockKey(c)
  BY <1>1, LockKeyInv, SameRows DEF LockKey
<1>2. CASE FindActive(c)
  <2>1. InTransaction(c) /\ OtherKeysKept(KeyOf[c]) /\ UNCHANGED <<jobs, slot>>
    BY <1>2 DEF FindActive, InTransaction, OtherKeysKept, Commit
  <2>2. LockHeld' /\ ReadsStillTrue'
    BY <1>2, <2>1, CommitInv, GotoInv DEF FindActive, Answered
  <2> QED
    BY <2>1, <2>2, SameRows
<1>3. CASE ResetFailed(c)
  BY <1>3, ResetFailedInv
<1>4. CASE InsertRow(c)
  BY <1>4, InsertRowInv
<1>5. CASE SelectRaced(c)
  <2>1. /\ InTransaction(c) /\ OtherKeysKept(KeyOf[c]) /\ UNCHANGED <<jobs, slot>>
        /\ KeyOf[c] \in LooseKeys
        /\ Commit(c, "queued") \/ Commit(c, "conflict")
    BY <1>5 DEF SelectRaced, InTransaction, OtherKeysKept, Commit, QueueInv, ReadsStillTrue
  <2>2. LockHeld' /\ ReadsStillTrue'
    BY <2>1, CommitInv DEF Answered
  <2> QED
    BY <2>1, <2>2, SameRows
<1>6. CASE Abort(c)
  <2>1. InTransaction(c) /\ OtherKeysKept(KeyOf[c]) /\ UNCHANGED <<jobs, slot>>
    BY <1>6 DEF Abort, InTransaction, OtherKeysKept, Commit
  <2>2. LockHeld' /\ ReadsStillTrue'
    BY <1>6, <2>1, CommitInv DEF Abort, Answered
  <2> QED
    BY <2>1, <2>2, SameRows
<1> QED
  BY <1>1, <1>2, <1>3, <1>4, <1>5, <1>6 DEF Request

-----------------------------------------------------------------------------
(* The theorems.                                                           *)

LEMMA NextInv ==
  ASSUME QueueInv, [Next]_vars
  PROVE  QueueInv'
<1>1. TypeOK'
  BY TypeStep DEF QueueInv
<1>2. CASE \E c \in Callers : Request(c) \/ Abort(c)
  BY <1>1, <1>2, RequestInv DEF QueueInv
<1>3. CASE \E k \in DirectKeys : DirectInsert(k)
  BY <1>1, <1>3, DirectInsertInv DEF QueueInv
<1>4. CASE \E j \in JobIds : ReorgRequeue(j)
  BY <1>1, <1>4, ReorgRequeueInv DEF QueueInv
<1>5. CASE WorkerStep /\ RunsLocked' /\ RunsApart'
  BY <1>1, <1>5, WorkerStepInv DEF QueueInv
<1>6. CASE \E j \in JobIds : Expire(j) \/ Stall(j)
  BY <1>5, <1>6, ExpireInv, StallInv
<1>7. CASE \E s \in Slots : Run(s) \/ EndRun(s)
  BY <1>5, <1>7, ClaimInv, RefreshInv, EndRunInv DEF Run
<1>8. CASE \E w \in Workers : Crash(w)
  BY <1>5, <1>8, DieInv DEF Crash
<1>9. CASE Recover
  BY <1>5, <1>9, RecoverInv
<1>10. CASE UNCHANGED vars
  <2>1. WorkerStep /\ RunsLocked' /\ RunsApart'
    BY <1>10 DEF WorkerStep, RowKept, Active, QueueInv, RunsLocked, RunsApart, Holds
  <2> QED
    BY <1>5, <2>1
<1> QED
  BY <1>2, <1>3, <1>4, <1>6, <1>7, <1>8, <1>9, <1>10 DEF Next

LEMMA InvCorrect == Spec => []QueueInv
<1>1. QueueInv /\ [Next]_vars => QueueInv'
  BY NextInv
<1> QED
  BY InitInv, <1>1, PTL DEF Spec

LEMMA InvImplies ==
  ASSUME QueueInv
  PROVE  OneRunnerPerJob /\ RunnerOwnsRow /\ RetryKeepsRow /\ NoEnqueueConflict
<1>1. \A s \in Slots : slot[s].job # None => slot[s] # Idle /\ slot[s].job \in JobIds
  BY NotIdle, SlotJob DEF QueueInv, TypeOK
<1>2. OneRunnerPerJob
  BY <1>1 DEF QueueInv, RunsApart, Holds, OneRunnerPerJob
<1>3. RunnerOwnsRow
  BY <1>1 DEF QueueInv, RunsLocked, Holds, RunnerOwnsRow
<1>4. RetryKeepsRow
  BY DEF QueueInv, OneUnfinished, Unfinished, RetryKeepsRow, TypeOK, TableTypeOK,
         JobRow, JobStatus
<1>5. NoEnqueueConflict
  BY DEF QueueInv, ReadsStillTrue, NoEnqueueConflict
<1> QED
  BY <1>2, <1>3, <1>4, <1>5

(* THEOREM: a job is never run by two slots at once, for any number of     *)
(* workers, slots, crashes and retries.                                    *)
THEOREM OneRunner == Spec => []OneRunnerPerJob
<1>1. QueueInv => OneRunnerPerJob
  BY InvImplies
<1> QED
  BY <1>1, InvCorrect, PTL

(* THEOREM: a run writes its outcome only to a row it still owns, though   *)
(* completeJob and failJob check no owner.                                 *)
THEOREM OwnedRow == Spec => []RunnerOwnsRow
<1>1. QueueInv => RunnerOwnsRow
  BY InvImplies
<1> QED
  BY <1>1, InvCorrect, PTL

(* THEOREM: a retry reuses the one unfinished row of its key, so a failed  *)
(* job's signed transaction is never left behind by a second row.          *)
THEOREM RetryReuses == Spec => []RetryKeepsRow
<1>1. QueueInv => RetryKeepsRow
  BY InvImplies
<1> QED
  BY <1>1, InvCorrect, PTL

(* THEOREM: the row lock its callers take keeps enqueueJob from every      *)
(* conflict: the raced select and the 409 after it are unreachable.        *)
THEOREM EnqueueSerialised == Spec => []NoEnqueueConflict
<1>1. QueueInv => NoEnqueueConflict
  BY InvImplies
<1> QED
  BY <1>1, InvCorrect, PTL

(* A step never touches a completed row outside LooseKeys.                 *)
LEMMA CompletedKept ==
  ASSUME QueueInv, [Next]_vars, NEW j \in JobIds,
         jobs[j].status = "COMPLETED", jobs[j].key \notin LooseKeys
  PROVE  jobs'[j] = jobs[j]
<1>1. CASE \A i \in JobIds : RowKept(i)
  BY <1>1 DEF RowKept
<1>2. ASSUME NEW k \in Keys, Insert(k) PROVE jobs'[j] = jobs[j]
  BY <1>2 DEF Insert, NextId, QueueInv, TypeOK, TableTypeOK
<1>3. ASSUME NEW i \in JobIds, Requeue(i), i # j PROVE jobs'[j] = jobs[j]
  BY <1>3 DEF Requeue, QueueInv, TypeOK, TableTypeOK
<1>4. CASE \E c \in Callers : Request(c) \/ Abort(c)
  BY <1>2, <1>3, <1>4, JobQueueAssumption
     DEF Request, Abort, LockKey, FindActive, ResetFailed, InsertRow, SelectRaced,
         FailedRows
<1>5. CASE \E k \in DirectKeys : DirectInsert(k)
  BY <1>2, <1>5, JobQueueAssumption DEF DirectInsert
<1>6. CASE \E i \in JobIds : ReorgRequeue(i)
  BY <1>3, <1>6 DEF ReorgRequeue, LooseKeys
<1>7. CASE \E i \in JobIds : Expire(i) \/ Stall(i)
  BY <1>1, <1>7, ExpireInv, StallInv DEF WorkerStep
<1>8. CASE \E s \in Slots : Run(s) \/ EndRun(s)
  BY <1>1, <1>8, ClaimInv, RefreshInv, EndRunInv DEF Run, WorkerStep
<1>9. CASE \E w \in Workers : Crash(w)
  BY <1>9 DEF Crash, Die
<1>10. CASE Recover
  BY <1>1, <1>10, RecoverInv DEF WorkerStep
<1> QED
  BY <1>4, <1>5, <1>6, <1>7, <1>8, <1>9, <1>10 DEF Next

(* THEOREM: a completed job is never reopened or rewritten.                *)
THEOREM CompletedStays == Spec => CompletedIsFinal
<1> DEFINE Kept == \A j \in JobIds :
              jobs[j].status = "COMPLETED" /\ jobs[j].key \notin LooseKeys
              => jobs'[j] = jobs[j]
<1>1. QueueInv /\ [Next]_vars => [Kept]_vars
  BY CompletedKept
<1> QED
  BY <1>1, InvCorrect, PTL DEF Spec, CompletedIsFinal

-----------------------------------------------------------------------------
(* ActiveKeyUnique needs nothing of the runners: every statement that      *)
(* makes a row active reads the key's active rows or meets the index.      *)

LEMMA ActivateOne ==
  ASSUME ActiveKeyUnique, NEW j \in JobIds, NEW k,
         \A i \in JobIds : i # j => jobs'[i] = jobs[i],
         jobs'[j].key = k, ActiveRows(k) \ {j} = {}
  PROVE  ActiveKeyUnique'
  BY DEF ActiveKeyUnique, ActiveRows, Active

LEMMA NoneActivated ==
  ASSUME ActiveKeyUnique,
         \A j \in JobIds : jobs'[j].key = jobs[j].key /\ (Active(j)' => Active(j))
  PROVE  ActiveKeyUnique'
  BY DEF ActiveKeyUnique, Active

LEMMA InsertUnique ==
  ASSUME TypeOK, ActiveKeyUnique, NEW k \in Keys, ActiveRows(k) = {}, Insert(k)
  PROVE  ActiveKeyUnique'
<1>1. PICK j \in JobIds : jobs' = [jobs EXCEPT ![j] = NewRow(k)]
  BY DEF Insert
<1>2. jobs'[j].key = k /\ \A i \in JobIds : i # j => jobs'[i] = jobs[i]
  BY <1>1 DEF NewRow, NoRow, TypeOK, TableTypeOK
<1> QED
  BY <1>2, ActivateOne

LEMMA RequeueUnique ==
  ASSUME TypeOK, ActiveKeyUnique, NEW j \in JobIds, ~KeyTaken(j), Requeue(j)
  PROVE  ActiveKeyUnique'
<1>1. jobs'[j].key = jobs[j].key /\ \A i \in JobIds : i # j => jobs'[i] = jobs[i]
  BY DEF Requeue, TypeOK, TableTypeOK, JobRow
<1> QED
  BY <1>1, ActivateOne DEF KeyTaken

LEMMA SettleUnique ==
  ASSUME TypeOK, ActiveKeyUnique, NEW j \in JobIds, NEW st \in JobStatus,
         Settle(j, st), ~KeyTaken(j) \/ st \in {"COMPLETED", "FAILED"}
  PROVE  ActiveKeyUnique'
<1>1. /\ jobs'[j].key = jobs[j].key /\ jobs'[j].status = st
      /\ \A i \in JobIds : i # j => jobs'[i] = jobs[i]
  BY DEF Settle, TypeOK, TableTypeOK, JobRow
<1>2. CASE ~KeyTaken(j)
  BY <1>1, <1>2, ActivateOne DEF KeyTaken
<1>3. CASE st \in {"COMPLETED", "FAILED"}
  BY <1>1, <1>3, NoneActivated DEF Active
<1> QED
  BY <1>2, <1>3

LEMMA EndRunUnique ==
  ASSUME TypeOK, ActiveKeyUnique, NEW s \in Slots, EndRun(s)
  PROVE  ActiveKeyUnique'
<1>1. slot[s].job \in JobIds
  BY SlotJob DEF EndRun, Complete, FailRetry, FailFinal, TypeOK
<1>2. CASE Complete(s) \/ FailFinal(s)
  BY <1>1, <1>2, SettleUnique DEF Complete, FailFinal, JobStatus
<1>3. CASE ~KeyTaken(slot[s].job) /\ Settle(slot[s].job, "PENDING")
  BY <1>1, <1>3, SettleUnique DEF JobStatus
<1>4. CASE Die(WorkerOf[s])
  BY <1>4, NoneActivated DEF Die, Active
<1> QED
  BY <1>2, <1>3, <1>4 DEF EndRun, FailRetry

LEMMA RunUnique ==
  ASSUME TypeOK, ActiveKeyUnique, NEW s \in Slots, Run(s)
  PROVE  ActiveKeyUnique'
<1>1. CASE Claim(s)
  <2>1. PICK j \in JobIds :
          /\ jobs[j].status = "PENDING"
          /\ jobs' = [jobs EXCEPT ![j] =
                     [jobs[j] EXCEPT !.status = "RUNNING",
                                     !.attempts = Bump(jobs[j].attempts),
                                     !.lockedBy = WorkerOf[s], !.fresh = TRUE]]
    BY <1>1 DEF Claim
  <2> QED
    BY <2>1, NoneActivated DEF Active, TypeOK, TableTypeOK, JobRow
<1>2. CASE RenewLock(s) \/ UpdateProgress(s)
  <2>1. PICK j \in JobIds : jobs' = [jobs EXCEPT ![j] = [jobs[j] EXCEPT !.fresh = TRUE]]
    BY <1>2, SlotJob DEF RenewLock, UpdateProgress, TypeOK
  <2> QED
    BY <2>1, NoneActivated DEF Active, TypeOK, TableTypeOK, JobRow
<1> QED
  BY <1>1, <1>2 DEF Run

LEMMA UniqueStep ==
  ASSUME TypeOK, ActiveKeyUnique, [Next]_vars
  PROVE  ActiveKeyUnique'
<1>1. CASE UNCHANGED jobs
  BY <1>1, NoneActivated DEF Active
<1>2. ASSUME NEW c \in Callers, Request(c) \/ Abort(c) PROVE ActiveKeyUnique'
  BY <1>1, <1>2, InsertUnique, RequeueUnique, JobQueueAssumption
     DEF Request, Abort, LockKey, FindActive, ResetFailed, InsertRow, SelectRaced,
         FailedRows
<1>3. ASSUME NEW k \in DirectKeys, DirectInsert(k) PROVE ActiveKeyUnique'
  BY <1>3, InsertUnique, JobQueueAssumption DEF DirectInsert
<1>4. ASSUME NEW j \in JobIds, ReorgRequeue(j) PROVE ActiveKeyUnique'
  BY <1>4, RequeueUnique DEF ReorgRequeue
<1>5. ASSUME NEW j \in JobIds, Expire(j) \/ Stall(j) PROVE ActiveKeyUnique'
  BY <1>5, NoneActivated
     DEF Expire, Stall, LockExpires, RunnerStalls, Active, TypeOK, TableTypeOK, JobRow
<1>6. ASSUME NEW s \in Slots, Run(s) \/ EndRun(s) PROVE ActiveKeyUnique'
  BY <1>6, RunUnique, EndRunUnique
<1>7. CASE \E w \in Workers : Crash(w)
  BY <1>1, <1>7 DEF Crash, Die
<1>8. CASE Recover
  BY <1>8, NoneActivated
     DEF Recover, RecoverExpired, Expired, Active, TypeOK, TableTypeOK, JobRow
<1>9. CASE UNCHANGED vars
  BY <1>1, <1>9
<1> QED
  BY <1>2, <1>3, <1>4, <1>5, <1>6, <1>7, <1>8, <1>9 DEF Next

LEMMA InitUnique == Init => ActiveKeyUnique
  BY DEF Init, TableInit, NoRow, ActiveKeyUnique, Active

(* THEOREM: no two active rows share a key, stalls and reorgs included.    *)
THEOREM OneActivePerKey == Spec => []ActiveKeyUnique
<1>1. TypeOK /\ ActiveKeyUnique /\ [Next]_vars => ActiveKeyUnique'
  BY UniqueStep
<1> QED
  BY TypeCorrect, InitUnique, <1>1, PTL DEF Spec

-----------------------------------------------------------------------------
(* The loop of WorkerLoop.                                                 *)

USE DEF loopVars, allVars, At, Step, QueueUnchanged, OthersUnchanged

-----------------------------------------------------------------------------
(* Every step of the loop is a step of the queue.                          *)

RestUnchanged == UNCHANGED <<callerVars, crashes>>

QueueStep ==
    \/ Next
    \/ \E w \in Workers : Die(w) /\ RestUnchanged
    \/ \E s \in Slots : (LoseClaim(s) \/ LoseCompletion(s)) /\ RestUnchanged

LEMMA SlotWorker == \A s \in Slots : WorkerOf[s] \in Workers
  BY JobTableAssumption

LEMMA LoopIsQueue ==
  ASSUME [LoopNext]_allVars
  PROVE  [QueueStep]_vars
<1>1. CASE UNCHANGED allVars
  BY <1>1
<1>2. ASSUME NEW c \in Callers, Request(c) \/ Abort(c) PROVE Next
  BY <1>2 DEF Next
<1>3. ASSUME NEW j \in JobIds, Expire(j) \/ Stall(j) \/ RequeueOrphaned(j) PROVE Next
  BY <1>3 DEF Next, RequeueOrphaned
<1>4. ASSUME NEW k \in DirectKeys, InsertNext(k) PROVE Next
  BY <1>4 DEF Next, InsertNext
<1>5. ASSUME NEW s \in Slots, RunGoesOn(s) \/ RunEnds(s) PROVE Next
  BY <1>5 DEF Next, RunGoesOn, RunEnds, Run, EndRun
<1>6. ASSUME NEW s \in Slots, RunEndsProcess(s) PROVE QueueStep
  BY <1>6, SlotWorker DEF QueueStep, RunEndsProcess, Next, EndRun, RestUnchanged
<1>7. ASSUME NEW s \in Slots, ClaimLost(s) \/ CompletionLost(s) PROVE QueueStep
  BY <1>7 DEF QueueStep, ClaimLost, CompletionLost, RestUnchanged
<1>8. ASSUME NEW w \in Workers, LoopStep(w) PROVE [QueueStep]_vars
  <2>1. CASE Boot(w) \/ RecoveryDue(w)
    BY <2>1 DEF Boot, RecoveryDue, RecoverRows, QueueStep, Next
  <2>2. CASE ClaimJob(w)
    BY <2>2 DEF ClaimJob, SlotsOf, QueueStep, Next, Run
  <2>3. CASE Restart(w) \/ StartRun(w) \/ RecoveryNotDue(w) \/ Wait(w)
    BY <2>3 DEF Restart, StartRun, RecoveryNotDue, Wait
  <2> QED
    BY <1>8, <2>1, <2>2, <2>3 DEF LoopStep
<1>9. ASSUME NEW w \in Workers, Signal(w) \/ Ending(w) \/ CrashProcess(w)
      PROVE  [QueueStep]_vars
  BY <1>9 DEF Signal, Ending, ClosePool, Exit, CrashProcess, QueueStep, Next, RestUnchanged
<1> QED
  BY <1>1, <1>2, <1>3, <1>4, <1>5, <1>6, <1>7, <1>8, <1>9
     DEF LoopNext, RunEnding, QueueStep

-----------------------------------------------------------------------------
(* Types, and the keys of active rows.                                     *)

LEMMA LostRow ==
  ASSUME TypeOK, NEW s \in Slots, LoseClaim(s) \/ LoseCompletion(s)
  PROVE  \E j \in JobIds, st \in {"RUNNING", "COMPLETED"}, r \in JobRow :
            /\ jobs' = [jobs EXCEPT ![j] = r] /\ slot' = slot
            /\ r.key = jobs[j].key /\ r.status = st
            /\ st = "RUNNING" => jobs[j].status = "PENDING"
<1>1. CASE LoseClaim(s)
  <2>1. PICK j \in JobIds :
          /\ jobs[j].status = "PENDING"
          /\ jobs' = [jobs EXCEPT ![j] =
               [jobs[j] EXCEPT !.status = "RUNNING", !.attempts = Bump(jobs[j].attempts),
                               !.lockedBy = WorkerOf[s], !.fresh = TRUE]]
    BY <1>1 DEF LoseClaim
  <2> DEFINE r == [jobs[j] EXCEPT !.status = "RUNNING", !.attempts = Bump(jobs[j].attempts),
                                  !.lockedBy = WorkerOf[s], !.fresh = TRUE]
  <2>2. jobs[j] \in JobRow /\ Bump(jobs[j].attempts) \in 0..MaxAttempts
    BY BumpType DEF TypeOK, TableTypeOK, JobRow
  <2>3. r \in JobRow /\ r.key = jobs[j].key /\ r.status = "RUNNING"
    BY <2>2, SlotWorker DEF JobRow, JobStatus
  <2> QED
    BY <1>1, <2>1, <2>3 DEF LoseClaim
<1>2. CASE LoseCompletion(s)
  <2> DEFINE j == slot[s].job
             r == [jobs[j] EXCEPT !.status = "COMPLETED", !.lockedBy = None, !.fresh = FALSE]
  <2>1. j \in JobIds
    BY <1>2, SlotJob DEF LoseCompletion, TypeOK
  <2>2. r \in JobRow /\ r.key = jobs[j].key /\ r.status = "COMPLETED"
    <3> HIDE DEF j
    <3>1. jobs[j] \in JobRow /\ "COMPLETED" \in JobStatus
      BY <2>1 DEF TypeOK, TableTypeOK, JobStatus
    <3> QED
      BY <3>1 DEF JobRow
  <2>3. jobs' = [jobs EXCEPT ![j] = r] /\ slot' = slot
    BY <1>2 DEF LoseCompletion, Settle
  <2> QED
    BY <2>1, <2>2, <2>3
<1> QED
  BY <1>1, <1>2

LEMMA QueueStepSafe ==
  ASSUME TypeOK, ActiveKeyUnique, [QueueStep]_vars
  PROVE  TypeOK' /\ ActiveKeyUnique'
<1>1. CASE [Next]_vars
  BY <1>1, TypeStep, UniqueStep
<1>2. ASSUME NEW w \in Workers, Die(w), RestUnchanged PROVE TypeOK' /\ ActiveKeyUnique'
  <2>1. TypeOK'
    BY <1>2, DieType DEF RestUnchanged, TypeOK, TableTypeOK
  <2>2. ActiveKeyUnique'
    BY <1>2, NoneActivated DEF Die, Active
  <2> QED
    BY <2>1, <2>2
<1>3. ASSUME NEW s \in Slots, LoseClaim(s) \/ LoseCompletion(s), RestUnchanged
      PROVE  TypeOK' /\ ActiveKeyUnique'
  <2>1. PICK j \in JobIds, st \in {"RUNNING", "COMPLETED"}, r \in JobRow :
            /\ jobs' = [jobs EXCEPT ![j] = r] /\ slot' = slot
            /\ r.key = jobs[j].key /\ r.status = st
            /\ st = "RUNNING" => jobs[j].status = "PENDING"
    BY <1>3, LostRow
  <2>2. TypeOK'
    <3>1. jobs' \in [JobIds -> JobRow]
      BY <2>1, JobsType DEF TypeOK
    <3> QED
      BY <1>3, <2>1, <3>1 DEF TypeOK, TableTypeOK, RestUnchanged
  <2>3. \A i \in JobIds : jobs'[i].key = jobs[i].key /\ (Active(i)' => Active(i))
    BY <2>1 DEF TypeOK, TableTypeOK, Active
  <2> QED
    BY <2>2, <2>3, NoneActivated
<1> QED
  BY <1>1, <1>2, <1>3 DEF QueueStep

LEMMA WorkerType ==
  ASSUME LoopTypeOK, [LoopNext]_allVars
  PROVE  /\ worker' \in [Workers -> Worker]
         /\ unanswered' \subseteq Slots /\ incidents' \in 0..MaxIncidents
<1> worker \in [Workers -> Worker] /\ unanswered \subseteq Slots
    /\ incidents \in 0..MaxIncidents /\ MaxIncidents \in Nat
  BY WorkerLoopAssumption DEF LoopTypeOK
<1> Down \in Worker
  BY DEF Down, Worker, Position
<1>1. ASSUME NEW w \in Workers, LoopStep(w)
      PROVE  worker' \in [Workers -> Worker] /\ OthersUnchanged
  <2>1. Fill(w) \in Position /\ Turn(w) \in Position
    BY DEF Fill, Turn, Position
  <2>2. ASSUME NEW a \in Position, NEW c \in Slots \cup {None},
               worker' = [worker EXCEPT ![w].at = a, ![w].claimed = c]
        PROVE  worker' \in [Workers -> Worker]
    BY <2>2 DEF Worker
  <2>3. ASSUME NEW a \in Position, worker' = [worker EXCEPT ![w].at = a]
        PROVE  worker' \in [Workers -> Worker]
    BY <2>3 DEF Worker
  <2>4. CASE ClaimJob(w)
    BY <2>2, <2>3, <2>4 DEF ClaimJob, SlotsOf, Position
  <2>5. CASE StartRun(w)
    BY <2>1, <2>2, <2>5 DEF StartRun
  <2> QED
    BY <1>1, <2>1, <2>3, <2>4, <2>5
       DEF LoopStep, Restart, Boot, RecoveryDue, RecoveryNotDue, Wait, Position
<1>2. ASSUME NEW w \in Workers, Signal(w) \/ Ending(w) \/ CrashProcess(w)
      PROVE  /\ worker' \in [Workers -> Worker]
             /\ unanswered' \subseteq Slots /\ incidents' \in 0..MaxIncidents
  <2>1. CASE Signal(w)
    <3>1. PICK S \in SUBSET Slots :
            worker' = [worker EXCEPT ![w].stopping = TRUE, ![w].drain = S]
      BY <2>1 DEF Signal, InFlight, Held, SlotsOf
    <3>2. worker' \in [Workers -> Worker]
      BY <3>1 DEF Worker
    <3> QED
      BY <2>1, <3>2 DEF Signal
  <2>2. CASE ClosePool(w)
    BY <2>2 DEF ClosePool, Worker
  <2>3. CASE Exit(w) \/ CrashProcess(w)
    BY <2>3 DEF Exit, CrashProcess, Gone
  <2> QED
    BY <1>2, <2>1, <2>2, <2>3 DEF Ending
<1>3. ASSUME NEW s \in Slots,
             RunGoesOn(s) \/ RunEnding(s) \/ ClaimLost(s) \/ CompletionLost(s)
      PROVE  /\ worker' \in [Workers -> Worker]
             /\ unanswered' \subseteq Slots /\ incidents' \in 0..MaxIncidents
  <2>1. WorkerOf[s] \in Workers
    BY SlotWorker
  <2>2. CASE RunEnds(s)
    BY <2>1, <2>2 DEF RunEnds, Worker
  <2>3. CASE RunEndsProcess(s)
    BY <2>1, <2>3 DEF RunEndsProcess, Gone
  <2>4. CASE ClaimLost(s)
    BY <2>1, <2>4 DEF ClaimLost, Worker, Position
  <2>5. CASE CompletionLost(s) \/ RunGoesOn(s)
    BY <2>5 DEF CompletionLost, RunGoesOn
  <2> QED
    BY <1>3, <2>2, <2>3, <2>4, <2>5 DEF RunEnding
<1>4. CASE UNCHANGED loopVars
  BY <1>4
<1> QED
  BY <1>1, <1>2, <1>3, <1>4 DEF LoopNext, RequeueOrphaned, InsertNext

-----------------------------------------------------------------------------
(* Runs and their rows when answers are lost.                              *)

OwnRow(s, j) ==
    IF s \in unanswered
    THEN jobs[j].status = "COMPLETED"
    ELSE jobs[j].status = "RUNNING" /\ jobs[j].lockedBy = WorkerOf[s] /\ jobs[j].fresh

Refreshed(j) ==
    /\ jobs'[j].status = jobs[j].status /\ jobs'[j].lockedBy = jobs[j].lockedBy
    /\ jobs'[j].fresh

KeyKept(j) ==
    /\ jobs'[j].key = jobs[j].key
    /\ jobs'[j].status = "ABSENT" <=> jobs[j].status = "ABSENT"

RunsSafe == TypeOK /\ RowsKeyed /\ RunsInv

LEMMA RunOwns ==
  ASSUME RunsInv, NEW s \in Slots, NEW j \in JobIds, Holds(s, j),
         jobs[j].key \notin LooseKeys
  PROVE  OwnRow(s, j) /\ \A t \in Slots : Holds(t, j) => s = t
  BY DEF RunsInv, OwnRow

LEMMA HeldPresent ==
  ASSUME RunsSafe, NEW s \in Slots, slot[s] # Idle
  PROVE  slot[s].job \in JobIds /\ jobs[slot[s].job].status # "ABSENT"
<1>1. PICK j \in JobIds : j = slot[s].job
  BY SlotJob DEF RunsSafe, TypeOK
<1>2. None \notin LooseKeys
  BY JobTableAssumption, JobQueueAssumption DEF LooseKeys
<1>3. CASE jobs[j].key \in LooseKeys
  BY <1>1, <1>2, <1>3 DEF RunsSafe, RowsKeyed
<1>4. CASE jobs[j].key \notin LooseKeys
  BY <1>1, <1>4, RunOwns DEF RunsSafe, Holds, OwnRow
<1> QED
  BY <1>1, <1>3, <1>4

(* A step that gives no run a row and takes no ordinary row from a run.    *)
LEMMA RunsKept ==
  ASSUME RunsInv, unanswered' \subseteq {s \in Slots : slot'[s] # Idle},
         \A s \in Slots, j \in JobIds :
            Holds(s, j)' /\ jobs'[j].key \notin LooseKeys =>
                /\ Holds(s, j) /\ jobs[j].key \notin LooseKeys
                /\ s \in unanswered' <=> s \in unanswered
                /\ jobs'[j] = jobs[j] \/ Refreshed(j)
  PROVE  RunsInv'
  BY DEF RunsInv, Refreshed

(* The runs go on, and one row is written that is loose or nobody's.       *)
LEMMA RowWritten ==
  ASSUME RunsInv, UNCHANGED <<slot, unanswered>>, NEW j \in JobIds,
         \A i \in JobIds : i # j => jobs'[i] = jobs[i],
         jobs'[j].key \in LooseKeys \/ \A t \in Slots : ~Holds(t, j)
  PROVE  RunsInv'
<1>1. \A s \in Slots, i \in JobIds : Holds(s, i)' <=> Holds(s, i)
  BY DEF Holds
<1>2. unanswered' \subseteq {s \in Slots : slot'[s] # Idle}
  BY DEF RunsInv
<1> QED
  BY <1>1, <1>2, RunsKept

LEMMA InsertKeepsRuns ==
  ASSUME RunsSafe, NEW k \in Keys, Insert(k), UNCHANGED <<slot, unanswered>>
  PROVE  RowsKeyed' /\ RunsInv'
<1>1. PICK j \in JobIds : jobs[j].status = "ABSENT" /\ jobs' = [jobs EXCEPT ![j] = NewRow(k)]
  BY DEF Insert, NextId
<1>2. /\ jobs'[j].key = k /\ jobs'[j].status = "PENDING"
      /\ \A i \in JobIds : i # j => jobs'[i] = jobs[i]
  BY <1>1 DEF NewRow, NoRow, RunsSafe, TypeOK, TableTypeOK
<1>3. \A t \in Slots : ~Holds(t, j)
  BY <1>1, HeldPresent DEF Holds
<1>4. RowsKeyed'
  BY <1>2, JobTableAssumption DEF RunsSafe, RowsKeyed
<1> QED
  BY <1>2, <1>3, <1>4, RowWritten DEF RunsSafe

LEMMA RequeueKeepsRuns ==
  ASSUME RunsSafe, NEW j \in JobIds, Requeue(j), UNCHANGED <<slot, unanswered>>,
         jobs[j].key \in LooseKeys \/ jobs[j].status = "FAILED"
  PROVE  RowsKeyed' /\ RunsInv'
<1>1. /\ jobs'[j].key = jobs[j].key /\ jobs'[j].status = "PENDING"
      /\ \A i \in JobIds : i # j => jobs'[i] = jobs[i]
  BY DEF Requeue, RunsSafe, TypeOK, TableTypeOK, JobRow
<1>2. jobs[j].status # "ABSENT"
  BY JobTableAssumption, JobQueueAssumption DEF LooseKeys, RunsSafe, RowsKeyed
<1>3. jobs[j].key \notin LooseKeys => \A t \in Slots : ~Holds(t, j)
  BY RunOwns DEF RunsSafe, OwnRow
<1>4. RowsKeyed'
  BY <1>1, <1>2 DEF RunsSafe, RowsKeyed
<1> QED
  BY <1>1, <1>3, <1>4, RowWritten DEF RunsSafe

LEMMA ClaimKeepsRuns ==
  ASSUME RunsSafe, NEW s \in Slots, Claim(s), UNCHANGED unanswered
  PROVE  RowsKeyed' /\ RunsInv'
<1>1. PICK j \in JobIds :
        /\ jobs[j].status = "PENDING" /\ slot[s] = Idle
        /\ jobs' = [jobs EXCEPT ![j] =
             [jobs[j] EXCEPT !.status = "RUNNING", !.attempts = Bump(jobs[j].attempts),
                             !.lockedBy = WorkerOf[s], !.fresh = TRUE]]
        /\ slot' = [slot EXCEPT ![s] = [job |-> j, attempts |-> Bump(jobs[j].attempts)]]
  BY DEF Claim
<1>2. /\ \A i \in JobIds : i # j => jobs'[i] = jobs[i]
      /\ jobs'[j].status = "RUNNING" /\ jobs'[j].key = jobs[j].key
      /\ jobs'[j].lockedBy = WorkerOf[s] /\ jobs'[j].fresh
  BY <1>1 DEF RunsSafe, TypeOK, TableTypeOK, JobRow
<1>3. jobs[j].key \notin LooseKeys => \A t \in Slots : ~Holds(t, j)
  BY <1>1, RunOwns DEF RunsSafe, OwnRow
<1>4. /\ slot'[s].job = j /\ slot'[s] # Idle
      /\ \A t \in Slots : t # s => slot'[t] = slot[t]
  BY <1>1, JobTableAssumption DEF RunsSafe, TypeOK, TableTypeOK, Idle
<1>5. s \notin unanswered /\ unanswered' \subseteq {t \in Slots : slot'[t] # Idle}
  BY <1>1, <1>4 DEF RunsSafe, RunsInv
<1>6. \A t \in Slots, i \in JobIds :
        Holds(t, i)' => (t = s /\ i = j) \/ (t # s /\ Holds(t, i))
  BY <1>4 DEF Holds
<1>7. ASSUME NEW t \in Slots, NEW i \in JobIds, Holds(t, i)', jobs'[i].key \notin LooseKeys
      PROVE  OwnRow(t, i)' /\ \A u \in Slots : Holds(u, i)' => t = u
  <2>1. CASE i = j
    BY <1>2, <1>3, <1>5, <1>6, <1>7, <2>1 DEF OwnRow
  <2>2. CASE i # j
    <3>1. Holds(t, i) /\ jobs'[i] = jobs[i] /\ \A u \in Slots : Holds(u, i)' => Holds(u, i)
      BY <1>2, <1>6, <1>7, <2>2
    <3> QED
      BY <1>7, <3>1, RunOwns DEF RunsSafe, OwnRow
  <2> QED
    BY <2>1, <2>2
<1>8. RunsInv'
  BY <1>5, <1>7 DEF RunsInv, OwnRow
<1>9. RowsKeyed'
  BY <1>1, <1>2 DEF RunsSafe, RowsKeyed
<1> QED
  BY <1>8, <1>9

(* The lock of an ordinary row is refreshed, not taken, under its run.     *)
LEMMA LockKeepsRuns ==
  ASSUME RunsSafe, UNCHANGED <<slot, unanswered>>,
         \/ \E s \in Slots : RenewLock(s) \/ UpdateProgress(s)
         \/ \E j \in JobIds : LockExpires(j) \/ (RunnerStalls(j) /\ jobs[j].key \in StallKeys)
         \/ RecoverExpired
  PROVE  RowsKeyed' /\ RunsInv'
<1>1. unanswered' \subseteq {s \in Slots : slot'[s] # Idle}
  BY DEF RunsSafe, RunsInv
<1>2. \A s \in Slots, j \in JobIds : Holds(s, j)' <=> Holds(s, j)
  BY DEF Holds
<1>3. CASE \E s \in Slots : RenewLock(s) \/ UpdateProgress(s)
  <2>1. PICK j \in JobIds : jobs' = [jobs EXCEPT ![j] = [jobs[j] EXCEPT !.fresh = TRUE]]
    BY <1>3, SlotJob DEF RenewLock, UpdateProgress, RunsSafe, TypeOK
  <2>2. /\ \A i \in JobIds : i # j => jobs'[i] = jobs[i]
        /\ Refreshed(j) /\ KeyKept(j)
    BY <2>1 DEF RunsSafe, TypeOK, TableTypeOK, JobRow, Refreshed, KeyKept
  <2>3. RowsKeyed'
    BY <2>2 DEF RunsSafe, RowsKeyed, KeyKept
  <2> QED
    BY <1>1, <1>2, <2>2, <2>3, RunsKept DEF KeyKept, RunsSafe
<1>4. ASSUME NEW j \in JobIds,
             LockExpires(j) \/ (RunnerStalls(j) /\ jobs[j].key \in StallKeys)
      PROVE  RowsKeyed' /\ RunsInv'
  <2>1. jobs' = [jobs EXCEPT ![j] = [jobs[j] EXCEPT !.fresh = FALSE]]
    BY <1>4 DEF LockExpires, RunnerStalls
  <2>2. (\A i \in JobIds : i # j => jobs'[i] = jobs[i]) /\ KeyKept(j)
    BY <2>1 DEF RunsSafe, TypeOK, TableTypeOK, JobRow, KeyKept
  <2>3. jobs[j].key \in LooseKeys \/ \A t \in Slots : ~Holds(t, j)
    BY <1>4, RunOwns
       DEF LockExpires, LooseKeys, LiveRunner, Runs, Holds, OwnRow, RunsSafe
  <2>4. RowsKeyed'
    BY <2>2 DEF RunsSafe, RowsKeyed, KeyKept
  <2> QED
    BY <2>2, <2>3, <2>4, RowWritten DEF KeyKept, RunsSafe
<1>5. CASE RecoverExpired
  <2>1. \A j \in JobIds : jobs[j] \in JobRow
    BY DEF RunsSafe, TypeOK, TableTypeOK
  <2>2. \A j \in JobIds : KeyKept(j) /\ (~Expired(j) => jobs'[j] = jobs[j])
    BY <1>5, <2>1 DEF RecoverExpired, Expired, KeyKept, JobRow
  <2>3. \A s \in Slots, j \in JobIds :
          Holds(s, j) /\ jobs[j].key \notin LooseKeys => ~Expired(j)
    BY RunOwns DEF RunsSafe, OwnRow, Expired
  <2>4. RowsKeyed'
    BY <2>2 DEF RunsSafe, RowsKeyed, KeyKept
  <2> QED
    BY <1>1, <1>2, <2>2, <2>3, <2>4, RunsKept DEF KeyKept, RunsSafe
<1> QED
  BY <1>3, <1>4, <1>5

(* A run ends, with or without its completion being known.                 *)
LEMMA EndKeepsRuns ==
  ASSUME RunsSafe, NEW s \in Slots, slot[s] # Idle, NEW st \in JobStatus \ {"ABSENT"},
         Settle(slot[s].job, st), Release(s), unanswered' = unanswered \ {s}
  PROVE  RowsKeyed' /\ RunsInv'
<1>1. PICK j \in JobIds : j = slot[s].job /\ jobs[j].status # "ABSENT"
  BY HeldPresent
<1>2. /\ \A i \in JobIds : i # j => jobs'[i] = jobs[i]
      /\ jobs'[j].key = jobs[j].key /\ jobs'[j].status = st
  BY <1>1 DEF Settle, RunsSafe, TypeOK, TableTypeOK, JobRow
<1>3. /\ slot'[s] = Idle /\ \A t \in Slots : t # s => slot'[t] = slot[t]
      /\ Idle.job \notin JobIds
  BY JobTableAssumption DEF Release, Idle, RunsSafe, TypeOK, TableTypeOK
<1>4. RowsKeyed'
  BY <1>1, <1>2 DEF RunsSafe, RowsKeyed
<1>5. unanswered' \subseteq {t \in Slots : slot'[t] # Idle}
  BY <1>3 DEF RunsSafe, RunsInv
<1>6. ASSUME NEW t \in Slots, NEW i \in JobIds, Holds(t, i)', jobs'[i].key \notin LooseKeys
      PROVE  /\ Holds(t, i) /\ jobs[i].key \notin LooseKeys
             /\ t \in unanswered' <=> t \in unanswered
             /\ jobs'[i] = jobs[i]
  <2>1. Holds(t, i) /\ t # s
    BY <1>3, <1>6 DEF Holds
  <2>2. jobs[i].key \notin LooseKeys
    BY <1>2, <1>6
  <2>3. i # j
    BY <1>1, <2>1, <2>2, RunOwns DEF RunsSafe, Holds
  <2> QED
    BY <1>2, <2>1, <2>2, <2>3
<1> QED
  BY <1>4, <1>5, <1>6, RunsKept DEF RunsSafe

(* A process ends with its runs.                                           *)
LEMMA GoneKeepsRuns ==
  ASSUME RunsSafe, NEW w \in Workers, Die(w), Gone(w)
  PROVE  RowsKeyed' /\ RunsInv'
<1>1. /\ jobs' = jobs /\ unanswered' = unanswered \ SlotsOf(w)
      /\ \A s \in Slots : slot'[s] = IF WorkerOf[s] = w THEN Idle ELSE slot[s]
  BY DEF Die, Gone
<1>2. Idle.job \notin JobIds
  BY JobTableAssumption DEF Idle
<1>3. unanswered' \subseteq {s \in Slots : slot'[s] # Idle}
  BY <1>1 DEF RunsSafe, RunsInv, SlotsOf
<1>4. \A s \in Slots, j \in JobIds :
        Holds(s, j)' => Holds(s, j) /\ (s \in unanswered' <=> s \in unanswered)
  BY <1>1, <1>2 DEF Holds, SlotsOf
<1>5. RunsInv'
  BY <1>1, <1>3, <1>4, RunsKept DEF RunsSafe
<1> QED
  BY <1>1, <1>5 DEF RunsSafe, RowsKeyed

LEMMA LostClaimKeepsRuns ==
  ASSUME RunsSafe, NEW s \in Slots, LoseClaim(s), UNCHANGED unanswered
  PROVE  RowsKeyed' /\ RunsInv'
<1>1. PICK j \in JobIds :
        /\ jobs[j].status = "PENDING"
        /\ jobs' = [jobs EXCEPT ![j] =
             [jobs[j] EXCEPT !.status = "RUNNING", !.attempts = Bump(jobs[j].attempts),
                             !.lockedBy = WorkerOf[s], !.fresh = TRUE]]
  BY DEF LoseClaim
<1>2. (\A i \in JobIds : i # j => jobs'[i] = jobs[i]) /\ KeyKept(j)
  BY <1>1 DEF RunsSafe, TypeOK, TableTypeOK, JobRow, KeyKept
<1>3. jobs[j].key \in LooseKeys \/ \A t \in Slots : ~Holds(t, j)
  BY <1>1, RunOwns DEF RunsSafe, OwnRow
<1>4. RowsKeyed'
  BY <1>2 DEF RunsSafe, RowsKeyed, KeyKept
<1> QED
  BY <1>2, <1>3, <1>4, RowWritten DEF KeyKept, RunsSafe, LoseClaim

LEMMA LostCompletionKeepsRuns ==
  ASSUME RunsSafe, NEW s \in Slots, LoseCompletion(s),
         unanswered' = unanswered \cup {s}
  PROVE  RowsKeyed' /\ RunsInv'
<1>1. PICK j \in JobIds : j = slot[s].job /\ jobs[j].status # "ABSENT"
  BY HeldPresent DEF LoseCompletion
<1>2. /\ \A i \in JobIds : i # j => jobs'[i] = jobs[i]
      /\ jobs'[j].key = jobs[j].key /\ jobs'[j].status = "COMPLETED" /\ slot' = slot
  BY <1>1 DEF LoseCompletion, Settle, RunsSafe, TypeOK, TableTypeOK, JobRow
<1>3. RowsKeyed'
  BY <1>1, <1>2 DEF RunsSafe, RowsKeyed
<1>4. unanswered' \subseteq {t \in Slots : slot'[t] # Idle}
  BY <1>2 DEF LoseCompletion, RunsSafe, RunsInv
<1>5. ASSUME NEW t \in Slots, NEW i \in JobIds, Holds(t, i)', jobs'[i].key \notin LooseKeys
      PROVE  OwnRow(t, i)' /\ \A u \in Slots : Holds(u, i)' => t = u
  <2>1. Holds(s, j) /\ Holds(t, i) /\ jobs[i].key \notin LooseKeys
        /\ \A u \in Slots : Holds(u, i)' <=> Holds(u, i)
    BY <1>1, <1>2, <1>5 DEF Holds, LoseCompletion
  <2>2. OwnRow(t, i) /\ \A u \in Slots : Holds(u, i) => t = u
    BY <2>1, RunOwns DEF RunsSafe
  <2>3. CASE i = j
    BY <1>2, <2>1, <2>2, <2>3 DEF OwnRow
  <2>4. CASE i # j
    <3>1. t # s
      BY <1>1, <2>1, <2>4 DEF Holds
    <3> QED
      BY <1>2, <2>1, <2>2, <2>4, <3>1 DEF OwnRow
  <2> QED
    BY <2>3, <2>4
<1>6. RunsInv'
  BY <1>4, <1>5 DEF RunsInv, OwnRow
<1> QED
  BY <1>3, <1>6

LEMMA RunsStep ==
  ASSUME RunsSafe, [LoopNext]_allVars
  PROVE  RowsKeyed' /\ RunsInv'
<1>1. ASSUME UNCHANGED <<jobs, slot, unanswered>> PROVE RowsKeyed' /\ RunsInv'
  BY <1>1 DEF RunsSafe, RowsKeyed, RunsInv, Holds
<1>2. ASSUME NEW c \in Callers, Request(c) \/ Abort(c), UNCHANGED loopVars
      PROVE  RowsKeyed' /\ RunsInv'
  <2>1. slot' = slot /\ KeyOf[c] \in Keys
    BY <1>2, JobQueueAssumption
       DEF Request, Abort, LockKey, FindActive, ResetFailed, InsertRow, SelectRaced, Commit
  <2>2. \/ jobs' = jobs
        \/ Insert(KeyOf[c])
        \/ \E j \in JobIds : Requeue(j) /\ jobs[j].status = "FAILED"
    BY <1>2 DEF Request, Abort, LockKey, FindActive, ResetFailed, InsertRow,
                SelectRaced, FailedRows
  <2> QED
    BY <1>1, <1>2, <2>1, <2>2, InsertKeepsRuns, RequeueKeepsRuns
<1>3. ASSUME NEW j \in JobIds, Expire(j) \/ Stall(j), UNCHANGED loopVars
      PROVE  RowsKeyed' /\ RunsInv'
  BY <1>3, LockKeepsRuns DEF Expire, Stall, LockExpires, RunnerStalls
<1>4. ASSUME NEW j \in JobIds, RequeueOrphaned(j) PROVE RowsKeyed' /\ RunsInv'
  BY <1>4, RequeueKeepsRuns DEF RequeueOrphaned, ReorgRequeue, LooseKeys
<1>5. ASSUME NEW k \in DirectKeys, InsertNext(k) PROVE RowsKeyed' /\ RunsInv'
  BY <1>5, InsertKeepsRuns, JobQueueAssumption DEF InsertNext, DirectInsert
<1>6. ASSUME NEW s \in Slots, RunGoesOn(s) \/ ClaimLost(s) \/ CompletionLost(s)
      PROVE  RowsKeyed' /\ RunsInv'
  BY <1>6, LockKeepsRuns, LostClaimKeepsRuns, LostCompletionKeepsRuns
     DEF RunGoesOn, RenewLock, UpdateProgress, ClaimLost, CompletionLost
<1>7. ASSUME NEW s \in Slots, RunEnding(s) PROVE RowsKeyed' /\ RunsInv'
  <2>1. CASE RunEnds(s)
    <3>1. /\ slot[s] # Idle /\ unanswered' = unanswered \ {s} /\ Release(s)
          /\ \E st \in JobStatus \ {"ABSENT"} : Settle(slot[s].job, st)
      BY <2>1 DEF RunEnds, Started, Complete, FailRetry, FailFinal, JobStatus
    <3> QED
      BY <3>1, EndKeepsRuns
  <2>2. CASE RunEndsProcess(s)
    BY <2>2, GoneKeepsRuns, SlotWorker DEF RunEndsProcess, FailRetry
  <2> QED
    BY <1>7, <2>1, <2>2 DEF RunEnding
<1>8. ASSUME NEW w \in Workers, LoopStep(w) PROVE RowsKeyed' /\ RunsInv'
  <2>1. CASE Boot(w) \/ RecoveryDue(w)
    BY <1>1, <2>1, LockKeepsRuns DEF Boot, RecoveryDue, RecoverRows, Recover, RecoverExpired
  <2>2. CASE ClaimJob(w)
    BY <1>1, <2>2, ClaimKeepsRuns DEF ClaimJob, SlotsOf
  <2>3. CASE Restart(w) \/ StartRun(w) \/ RecoveryNotDue(w) \/ Wait(w)
    BY <1>1, <2>3 DEF Restart, StartRun, RecoveryNotDue, Wait
  <2> QED
    BY <1>8, <2>1, <2>2, <2>3 DEF LoopStep
<1>9. ASSUME NEW w \in Workers, Signal(w) \/ Ending(w) \/ CrashProcess(w)
      PROVE  RowsKeyed' /\ RunsInv'
  BY <1>1, <1>9, GoneKeepsRuns DEF Signal, Ending, ClosePool, Exit, CrashProcess, Crash
<1> QED
  BY <1>1, <1>2, <1>3, <1>4, <1>5, <1>6, <1>7, <1>8, <1>9 DEF LoopNext

-----------------------------------------------------------------------------
(* Shutdown.                                                               *)

LEMMA HeldKept ==
  ASSUME NEW v \in Workers, \A s \in SlotsOf(v) : slot'[s] = slot[s]
  PROVE  Held(v)' = Held(v)
  BY DEF Held, SlotsOf

(* A process that a step leaves alone.                                     *)
LEMMA OtherProcess ==
  ASSUME NEW v \in Workers, ShutdownInv(v), worker'[v] = worker[v],
         \A s \in SlotsOf(v) : slot'[s] = slot[s]
  PROVE  ShutdownInv(v)'
  BY HeldKept DEF ShutdownInv

LEMMA EndedProcess ==
  ASSUME NEW w \in Workers, worker \in [Workers -> Worker], Gone(w)
  PROVE  ShutdownInv(w)' /\ \A v \in Workers \ {w} : worker'[v] = worker[v]
<1>1. worker'[w] = Down /\ \A v \in Workers \ {w} : worker'[v] = worker[v]
  BY DEF Gone
<1> QED
  BY <1>1 DEF ShutdownInv, Down

(* A step of the loop that leaves the slots alone: a process that stops    *)
(* does not go on to a claim.                                              *)
LEMMA QuietProcess ==
  ASSUME NEW w \in Workers, worker \in [Workers -> Worker], ShutdownInv(w),
         slot' = slot, NEW a \in Position \ {"claimed"},
         worker' = [worker EXCEPT ![w].at = a, ![w].claimed = None],
         worker[w].stopping => a # "claiming"
  PROVE  ShutdownInv(w)'
<1>1. /\ worker'[w].at = a /\ worker'[w].claimed = None
      /\ worker'[w].drain = worker[w].drain /\ worker'[w].pool = worker[w].pool
      /\ worker'[w].stopping = worker[w].stopping
  BY DEF Worker
<1>2. Held(w)' = Held(w)
  BY HeldKept
<1> QED
  BY <1>1, <1>2 DEF ShutdownInv

LEMMA StepQuiet ==
  ASSUME NEW w \in Workers, worker \in [Workers -> Worker], ShutdownInv(w),
         ~At(w, "claimed"), NEW a, worker' = [worker EXCEPT ![w].at = a]
  PROVE  worker' = [worker EXCEPT ![w].at = a, ![w].claimed = None]
<1>1. worker[w].claimed = None
  BY DEF ShutdownInv
<1>2. [worker[w] EXCEPT !.at = a] = [worker[w] EXCEPT !.at = a, !.claimed = None]
  BY <1>1 DEF Worker
<1> QED
  BY <1>2 DEF Worker

LEMMA ClaimHeld ==
  ASSUME TypeOK, NEW w \in Workers, NEW s \in SlotsOf(w), Claim(s)
  PROVE  /\ Held(w)' = Held(w) \cup {s} /\ s \notin Held(w)
         /\ \A t \in Slots \ {s} : slot'[t] = slot[t]
<1>1. PICK j \in JobIds, n \in 0..MaxAttempts :
        slot[s] = Idle /\ slot' = [slot EXCEPT ![s] = [job |-> j, attempts |-> n]]
  <2>1. PICK j \in JobIds : slot' =
          [slot EXCEPT ![s] = [job |-> j, attempts |-> Bump(jobs[j].attempts)]]
    BY DEF Claim
  <2>2. Bump(jobs[j].attempts) \in 0..MaxAttempts
    BY BumpType DEF TypeOK, TableTypeOK, JobRow
  <2> QED
    BY <2>1, <2>2 DEF Claim
<1>2. [job |-> j, attempts |-> n] # Idle
  BY JobTableAssumption DEF Idle
<1> QED
  BY <1>1, <1>2 DEF Held, SlotsOf, TypeOK, TableTypeOK

LEMMA LoopShutdown ==
  ASSUME LoopInv, NEW w \in Workers, LoopStep(w)
  PROVE  \A v \in Workers : ShutdownInv(v)'
<1> worker \in [Workers -> Worker] /\ ShutdownInv(w) /\ slot \in [Slots -> RunCopy]
  BY DEF LoopInv, LoopTypeOK, TypeOK, TableTypeOK
<1>1. \A v \in Workers \ {w} : worker'[v] = worker[v]
  BY DEF LoopStep, Restart, Boot, ClaimJob, StartRun, RecoveryDue, RecoveryNotDue, Wait
<1>2. ASSUME slot' = slot, ShutdownInv(w)' PROVE \A v \in Workers : ShutdownInv(v)'
  BY <1>1, <1>2, OtherProcess DEF LoopInv
<1>3. Fill(w) \in {"claiming", "maintenance"} /\ Turn(w) \in {"claiming", "maintenance", "over"}
      /\ (worker[w].stopping => Fill(w) # "claiming" /\ Turn(w) # "claiming")
  BY DEF Fill, Turn
<1>4. ASSUME NEW s \in SlotsOf(w), Claim(s),
             worker' = [worker EXCEPT ![w].at = "claimed", ![w].claimed = s],
             At(w, "claiming")
      PROVE  \A v \in Workers : ShutdownInv(v)'
  <2>1. /\ Held(w)' = Held(w) \cup {s} /\ s \notin Held(w)
        /\ \A t \in Slots \ {s} : slot'[t] = slot[t]
    BY <1>4, ClaimHeld DEF LoopInv, LoopTypeOK
  <2>2. /\ worker'[w].at = "claimed" /\ worker'[w].drain = worker[w].drain
        /\ worker'[w].pool = worker[w].pool /\ worker'[w].stopping = worker[w].stopping
    BY <1>4 DEF Worker
  <2>3. ShutdownInv(w)'
    BY <1>4, <2>1, <2>2 DEF ShutdownInv
  <2>4. \A v \in Workers \ {w} : \A t \in SlotsOf(v) : slot'[t] = slot[t]
    BY <2>1 DEF SlotsOf
  <2> QED
    BY <1>1, <2>3, <2>4, OtherProcess DEF LoopInv
<1>5. CASE StartRun(w)
  <2>1. ShutdownInv(w)' /\ slot' = slot
    BY <1>3, <1>5, QuietProcess DEF StartRun, Position
  <2> QED
    BY <1>2, <2>1
<1>6. ASSUME slot' = slot, ~At(w, "claimed"), NEW a \in Position \ {"claimed"},
             worker' = [worker EXCEPT ![w].at = a],
             worker[w].stopping => a # "claiming"
      PROVE  \A v \in Workers : ShutdownInv(v)'
  <2>1. ShutdownInv(w)'
    BY <1>6, StepQuiet, QuietProcess
  <2> QED
    BY <1>2, <1>6, <2>1
<1>12. {"boot", "wait", "over", "claiming", "maintenance"} \subseteq Position \ {"claimed"}
  BY DEF Position
<1>7. CASE ClaimJob(w)
  <2>1. CASE UNCHANGED vars /\ worker' = [worker EXCEPT ![w].at = "maintenance"]
    <3>1. slot' = slot /\ ~At(w, "claimed")
      BY <1>7, <2>1 DEF ClaimJob
    <3> QED
      BY <1>6, <1>12, <2>1, <3>1
  <2> QED
    BY <1>4, <1>7, <2>1 DEF ClaimJob
<1>8. CASE Restart(w)
  BY <1>6, <1>8, <1>12 DEF Restart
<1>9. CASE Boot(w)
  <2>1. slot' = slot /\ At(w, "boot") /\ worker' = [worker EXCEPT ![w].at = Turn(w)]
    BY <1>9 DEF Boot, RecoverRows, Recover, RecoverExpired
  <2> QED
    BY <1>3, <1>6, <1>12, <2>1
<1>10. CASE RecoveryDue(w) \/ RecoveryNotDue(w)
  <2>1. /\ slot' = slot /\ At(w, "maintenance")
        /\ worker' = [worker EXCEPT ![w].at = "wait"]
    BY <1>10 DEF RecoveryDue, RecoveryNotDue, RecoverRows, Recover, RecoverExpired
  <2> QED
    BY <1>6, <1>12, <2>1
<1>11. CASE Wait(w)
  BY <1>3, <1>6, <1>11, <1>12 DEF Wait
<1> QED
  BY <1>5, <1>7, <1>8, <1>9, <1>10, <1>11 DEF LoopStep

LEMMA EndingShutdown ==
  ASSUME LoopInv, NEW w \in Workers, Signal(w) \/ Ending(w) \/ CrashProcess(w)
  PROVE  \A v \in Workers : ShutdownInv(v)'
<1> worker \in [Workers -> Worker] /\ ShutdownInv(w) /\ slot \in [Slots -> RunCopy]
  BY DEF LoopInv, LoopTypeOK, TypeOK, TableTypeOK
<1>1. CASE Signal(w)
  <2>1. /\ worker'[w].at = worker[w].at /\ worker'[w].claimed = worker[w].claimed
        /\ worker'[w].pool = worker[w].pool /\ worker'[w].stopping
        /\ worker'[w].drain = InFlight(w) /\ ~worker[w].stopping
    BY <1>1 DEF Signal, Worker
  <2>2. Held(w)' = Held(w)
    BY <1>1, HeldKept DEF Signal
  <2>3. None \notin Held(w)
    BY WorkerLoopAssumption DEF Held, SlotsOf
  <2>4. ShutdownInv(w)'
    BY <2>1, <2>2, <2>3 DEF ShutdownInv, InFlight
  <2> QED
    BY <1>1, <2>4, OtherProcess DEF Signal, LoopInv
<1>2. CASE ClosePool(w)
  <2>1. /\ worker'[w].at = worker[w].at /\ worker'[w].claimed = worker[w].claimed
        /\ worker'[w].pool = "closed" /\ worker[w].stopping
        /\ worker'[w].stopping = worker[w].stopping
        /\ worker'[w].drain = worker[w].drain /\ worker[w].drain = {}
    BY <1>2 DEF ClosePool, Worker
  <2>2. Held(w)' = Held(w)
    BY <1>2, HeldKept DEF ClosePool
  <2>3. ShutdownInv(w)'
    BY <2>1, <2>2 DEF ShutdownInv
  <2> QED
    BY <1>2, <2>3, OtherProcess DEF ClosePool, LoopInv
<1>3. CASE Exit(w) \/ CrashProcess(w)
  <2>1. Gone(w) /\ Die(w)
    BY <1>3 DEF Exit, CrashProcess, Crash
  <2>2. \A v \in Workers \ {w} : \A t \in SlotsOf(v) : slot'[t] = slot[t]
    BY <2>1 DEF Die, SlotsOf
  <2> QED
    BY <2>1, <2>2, EndedProcess, OtherProcess DEF LoopInv
<1> QED
  BY <1>1, <1>2, <1>3 DEF Ending

LEMMA RunShutdown ==
  ASSUME LoopInv, NEW s \in Slots,
         RunGoesOn(s) \/ RunEnding(s) \/ ClaimLost(s) \/ CompletionLost(s)
  PROVE  \A v \in Workers : ShutdownInv(v)'
<1> DEFINE w == WorkerOf[s]
<1> w \in Workers /\ worker \in [Workers -> Worker] /\ ShutdownInv(w)
    /\ slot \in [Slots -> RunCopy] /\ s \in SlotsOf(w)
  BY SlotWorker DEF LoopInv, LoopTypeOK, TypeOK, TableTypeOK, SlotsOf
<1>1. CASE RunGoesOn(s) \/ CompletionLost(s)
  BY <1>1, OtherProcess
     DEF RunGoesOn, RenewLock, UpdateProgress, CompletionLost, LoseCompletion, LoopInv
<1>2. CASE ClaimLost(s)
  <2>1. slot' = slot /\ At(w, "claiming") /\ worker' = [worker EXCEPT ![w].at = "maintenance"]
    BY <1>2 DEF ClaimLost, LoseClaim
  <2> HIDE DEF w
  <2>2. ShutdownInv(w)'
    <3>1. "maintenance" \in Position \ {"claimed"} /\ "maintenance" # "claiming"
      BY DEF Position
    <3>2. worker' = [worker EXCEPT ![w].at = "maintenance", ![w].claimed = None]
      BY <2>1, StepQuiet
    <3> QED
      BY <2>1, <3>1, <3>2, QuietProcess
  <2> QED
    BY <2>1, <2>2, OtherProcess DEF LoopInv
<1>3. CASE RunEnds(s)
  <2>1. Release(s)
    BY <1>3 DEF RunEnds, Complete, FailRetry, FailFinal
  <2>2. worker' = [worker EXCEPT ![w].drain = worker[w].drain \ {s}]
    BY <1>3 DEF RunEnds
  <2> HIDE DEF w
  <2>3. Held(w)' = Held(w) \ {s}
    BY <2>1 DEF Release, Held, SlotsOf
  <2>4. /\ worker'[w].at = worker[w].at /\ worker'[w].claimed = worker[w].claimed
        /\ worker'[w].pool = worker[w].pool
        /\ worker'[w].stopping = worker[w].stopping
        /\ worker'[w].drain = worker[w].drain \ {s}
    BY <2>2 DEF Worker
  <2>5. ShutdownInv(w)'
    BY <2>3, <2>4 DEF ShutdownInv
  <2>6. \A v \in Workers \ {w} : \A t \in SlotsOf(v) : slot'[t] = slot[t]
    BY <2>1 DEF Release, SlotsOf
  <2> QED
    BY <2>2, <2>5, <2>6, OtherProcess DEF LoopInv
<1>4. CASE RunEndsProcess(s)
  <2>1. Gone(w)
    BY <1>4 DEF RunEndsProcess
  <2>2. Die(w)
    BY <1>4 DEF RunEndsProcess, FailRetry
  <2>3. \A v \in Workers \ {w} : \A t \in SlotsOf(v) : slot'[t] = slot[t]
    BY <2>2 DEF Die, SlotsOf
  <2> HIDE DEF w
  <2> QED
    BY <2>1, <2>3, EndedProcess, OtherProcess DEF LoopInv
<1> QED
  BY <1>1, <1>2, <1>3, <1>4 DEF RunEnding

LEMMA LoopInvStep ==
  ASSUME LoopInv, [LoopNext]_allVars
  PROVE  LoopInv'
<1>1. LoopTypeOK' /\ ActiveKeyUnique' /\ RowsKeyed' /\ RunsInv'
  BY LoopIsQueue, QueueStepSafe, WorkerType, RunsStep DEF LoopInv, LoopTypeOK, RunsSafe
<1>2. ASSUME slot' = slot, worker' = worker PROVE \A v \in Workers : ShutdownInv(v)'
  BY <1>2, OtherProcess DEF LoopInv
<1>3. ASSUME NEW c \in Callers, (Request(c) \/ Abort(c)) /\ UNCHANGED loopVars
      PROVE  \A v \in Workers : ShutdownInv(v)'
  BY <1>2, <1>3, CommitType
     DEF Request, Abort, LockKey, FindActive, ResetFailed, InsertRow, SelectRaced, Commit
<1>4. ASSUME NEW j \in JobIds,
             ((Expire(j) \/ Stall(j)) /\ UNCHANGED loopVars) \/ RequeueOrphaned(j)
      PROVE  \A v \in Workers : ShutdownInv(v)'
  BY <1>2, <1>4 DEF Expire, Stall, LockExpires, RunnerStalls, RequeueOrphaned, ReorgRequeue
<1>5. ASSUME NEW k \in DirectKeys, InsertNext(k) PROVE \A v \in Workers : ShutdownInv(v)'
  BY <1>2, <1>5 DEF InsertNext, DirectInsert
<1>6. \A v \in Workers : ShutdownInv(v)'
  BY <1>2, <1>3, <1>4, <1>5, RunShutdown, LoopShutdown, EndingShutdown DEF LoopNext
<1> QED
  BY <1>1, <1>6 DEF LoopInv

LEMMA InitLoop == LoopInit => LoopInv
<1> SUFFICES ASSUME LoopInit PROVE LoopInv
  OBVIOUS
<1>1. TypeOK /\ ActiveKeyUnique /\ RowsKeyed
  BY InitType, InitUnique, InitInv DEF LoopInit, QueueInv
<1>4. RunsInv
  BY DEF LoopInit, Init, TableInit, RunsInv, Holds
<1>2. worker \in [Workers -> Worker] /\ \A w \in Workers : worker[w] = Down
  BY DEF LoopInit, Down, Worker, Position
<1>3. \A w \in Workers : ShutdownInv(w)
  BY <1>2 DEF ShutdownInv, Down
<1> QED
  BY <1>1, <1>2, <1>3, <1>4, WorkerLoopAssumption DEF LoopInv, LoopTypeOK, LoopInit

LEMMA LoopAlways == LoopSpec => []LoopInv
<1>1. LoopInv /\ [LoopNext]_allVars => LoopInv'
  BY LoopInvStep
<1> QED
  BY <1>1, InitLoop, PTL DEF LoopSpec

(* Every variable keeps its type.                                          *)
THEOREM LoopTypeCorrect == LoopSpec => []LoopTypeOK
<1>1. LoopInv => LoopTypeOK
  BY DEF LoopInv
<1> QED
  BY <1>1, LoopAlways, PTL

(* No two active rows share a key, whatever answers are lost and however   *)
(* processes end.                                                          *)
THEOREM LoopKeysUnique == LoopSpec => []ActiveKeyUnique
<1>1. LoopInv => ActiveKeyUnique
  BY DEF LoopInv
<1> QED
  BY <1>1, LoopAlways, PTL

(* However answers are lost and processes end, a job whose runner does not *)
(* stall has one runner, which has its row.                                *)
THEOREM RowsKept == LoopSpec => []RunsKeepRows
<1>1. LoopInv => RunsKeepRows
  <2> SUFFICES ASSUME LoopInv, NEW s \in Slots, slot[s].job # None,
                      jobs[slot[s].job].key \notin LooseKeys
               PROVE  /\ \A t \in Slots \ {s} : slot[t].job # slot[s].job
                      /\ OwnRow(s, slot[s].job)
    BY DEF RunsKeepRows, OwnRow
  <2>1. slot[s] # Idle /\ slot[s].job \in JobIds
    BY NotIdle, SlotJob DEF LoopInv, LoopTypeOK, TypeOK
  <2>2. \A t \in Slots : slot[t].job = slot[s].job => Holds(t, slot[s].job)
    BY <2>1, NotIdle, JobTableAssumption DEF Holds, Idle
  <2> QED
    BY <2>1, <2>2, RunOwns DEF LoopInv
<1> QED
  BY <1>1, LoopAlways, PTL

(* Shutdown closes the pool under one run at most, and under none it       *)
(* awaited.                                                                *)
THEOREM ShutdownSafe == LoopSpec => []ShutdownCutsOffOne
<1>1. LoopInv => ShutdownCutsOffOne
  BY DEF LoopInv, ShutdownInv, ShutdownCutsOffOne
<1> QED
  BY <1>1, LoopAlways, PTL
=============================================================================

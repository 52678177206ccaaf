------------------------------ MODULE JobTable ------------------------------
(***************************************************************************)
(* The PostgreSQL table `jobs' and the statements a worker process issues  *)
(* against it (apps/indexer/src/queue.js), together with the execution     *)
(* slots of the worker processes (the inFlight set of worker.js).          *)
(*                                                                         *)
(* Every definition here is one SQL statement or transaction, hence one    *)
(* atomic step.  JobQueue composes them with the API requests that enqueue *)
(* jobs; RelayerOutbox composes them with the execution of the jobs that   *)
(* send a transaction.                                                     *)
(*                                                                         *)
(* Abstractions: available_at is left out, so a PENDING row may be claimed *)
(* at any time (back-off only delays a claim); attempts saturates at       *)
(* MaxAttempts, the only value the code compares it with; progress,        *)
(* messages and results of a job are not modelled.                         *)
(***************************************************************************)
EXTENDS Integers

CONSTANTS
    JobIds,       \* row identities, numbered in the order of created_at
    Keys,         \* values of dedupe_key
    Workers,      \* worker processes (config.workerId)
    Slots,        \* execution slots of all the workers (config.jobConcurrency each)
    WorkerOf,     \* the worker a slot belongs to
    MaxAttempts,  \* jobs.max_attempts
    None          \* SQL NULL

ASSUME JobTableAssumption ==
    /\ JobIds \subseteq Nat
    /\ WorkerOf \in [Slots -> Workers]
    /\ MaxAttempts \in Nat \ {0}
    /\ None \notin JobIds \cup Keys \cup Workers

VARIABLES
    jobs,  \* the table: for each identity its row, NoRow while not inserted
    slot   \* for each slot the row its runner holds a copy of, or Idle

tableVars == <<jobs, slot>>

JobStatus == {"ABSENT", "PENDING", "RUNNING", "COMPLETED", "FAILED"}

JobRow == [key      : Keys \cup {None},
           status   : JobStatus,
           attempts : 0..MaxAttempts,
           lockedBy : Workers \cup {None},
           fresh    : BOOLEAN]  \* locked_at is younger than jobLockMinutes

NoRow == [key |-> None, status |-> "ABSENT", attempts |-> 0,
          lockedBy |-> None, fresh |-> FALSE]

NewRow(k) == [NoRow EXCEPT !.key = k, !.status = "PENDING"]

(* What a runner keeps of the row claimJob returned: failJob decides from  *)
(* this copy, not from the row as it is when the run ends.                 *)
Idle    == [job |-> None, attempts |-> 0]
RunCopy == [job : JobIds, attempts : 0..MaxAttempts] \cup {Idle}

TableTypeOK ==
    /\ jobs \in [JobIds -> JobRow]
    /\ slot \in [Slots -> RunCopy]

TableInit ==
    /\ jobs = [j \in JobIds |-> NoRow]
    /\ slot = [s \in Slots |-> Idle]

-----------------------------------------------------------------------------
(* Reading the table.                                                      *)

Active(j) == jobs[j].status \in {"PENDING", "RUNNING"}

ActiveRows(k) == {j \in JobIds : jobs[j].key = k /\ Active(j)}

FailedRows(k) == {j \in JobIds : jobs[j].key = k /\ jobs[j].status = "FAILED"}

(* The partial unique index on dedupe_key rejects activating j.            *)
KeyTaken(j) == ActiveRows(jobs[j].key) \ {j} # {}

(* The runner in slot s holds the row j under the lock it took.            *)
Runs(s, j) == slot[s].job = j
LiveRunner(j) == \E s \in Slots : Runs(s, j) /\ WorkerOf[s] = jobs[j].lockedBy

(* j is the identity the next INSERT gets.                                 *)
NextId(j) ==
    /\ jobs[j].status = "ABSENT"
    /\ \A i \in JobIds : jobs[i].status = "ABSENT" => j <= i

Bump(n) == IF n < MaxAttempts THEN n + 1 ELSE n

-----------------------------------------------------------------------------
(* Statements that make a row active.                                      *)

Insert(k) ==
    \E j \in JobIds : NextId(j) /\ jobs' = [jobs EXCEPT ![j] = NewRow(k)]

(* status = PENDING, attempts = 0, unlocked: the reset of a row that is    *)
(* queued again.                                                           *)
Requeue(j) ==
    jobs' = [jobs EXCEPT ![j] = [@ EXCEPT !.status = "PENDING", !.attempts = 0,
                                          !.lockedBy = None, !.fresh = FALSE]]

-----------------------------------------------------------------------------
(* The worker's statements.                                                *)

(* Mutant: the candidate's status filter is gone.                          *)
ClaimActive(s) ==
    /\ slot[s] = Idle
    /\ \E j \in JobIds :
        /\ Active(j)
        /\ LET n == Bump(jobs[j].attempts) IN
            /\ jobs' = [jobs EXCEPT ![j] =
                         [@ EXCEPT !.status = "RUNNING", !.attempts = n,
                                   !.lockedBy = WorkerOf[s], !.fresh = TRUE]]
            /\ slot' = [slot EXCEPT ![s] = [job |-> j, attempts |-> n]]

(* claimJob: one statement locks a PENDING row (SKIP LOCKED), marks it     *)
(* RUNNING and returns it to a free slot.                                  *)
Claim(s) ==
    /\ slot[s] = Idle
    /\ \E j \in JobIds :
        /\ jobs[j].status = "PENDING"
        /\ LET n == Bump(jobs[j].attempts) IN
            /\ jobs' = [jobs EXCEPT ![j] =
                         [@ EXCEPT !.status = "RUNNING", !.attempts = n,
                                   !.lockedBy = WorkerOf[s], !.fresh = TRUE]]
            /\ slot' = [slot EXCEPT ![s] = [job |-> j, attempts |-> n]]

(* renewJobLock, from the timer of the run: only for the lock's owner.     *)
RenewLock(s) ==
    /\ slot[s] # Idle
    /\ jobs[slot[s].job].status = "RUNNING"
    /\ jobs[slot[s].job].lockedBy = WorkerOf[s]
    /\ ~jobs[slot[s].job].fresh
    /\ jobs' = [jobs EXCEPT ![slot[s].job] = [@ EXCEPT !.fresh = TRUE]]
    /\ UNCHANGED slot

(* updateJob, from inside the run: any runner of a RUNNING row refreshes   *)
(* locked_at, the owner or not.                                            *)
UpdateProgress(s) ==
    /\ slot[s] # Idle
    /\ jobs[slot[s].job].status = "RUNNING"
    /\ ~jobs[slot[s].job].fresh
    /\ jobs' = [jobs EXCEPT ![slot[s].job] = [@ EXCEPT !.fresh = TRUE]]
    /\ UNCHANGED slot

(* The row a run leaves behind; WHERE id = $1 and nothing else.            *)
Settle(j, st) ==
    jobs' = [jobs EXCEPT ![j] = [@ EXCEPT !.status = st, !.lockedBy = None,
                                          !.fresh = FALSE]]

Release(s) == slot' = [slot EXCEPT ![s] = Idle]

(* completeJob.                                                            *)
Complete(s) ==
    /\ slot[s] # Idle
    /\ Settle(slot[s].job, "COMPLETED")
    /\ Release(s)

(* The process ends: its runs are gone, the rows stay RUNNING.             *)
Die(w) ==
    /\ slot' = [s \in Slots |-> IF WorkerOf[s] = w THEN Idle ELSE slot[s]]
    /\ UNCHANGED jobs

(* Mutant: the table has no unique index on active keys.                   *)
FailRetryUnindexed(s) ==
    /\ slot[s] # Idle
    /\ slot[s].attempts < MaxAttempts
    /\ Settle(slot[s].job, "PENDING")
    /\ Release(s)

(* failJob after an error that is not permanent, attempts left by the      *)
(* copy: back to PENDING.  When another row of the key is active the       *)
(* unique index rejects the statement, the run's promise rejects and the   *)
(* process ends.                                                           *)
FailRetry(s) ==
    /\ slot[s] # Idle
    /\ slot[s].attempts < MaxAttempts
    /\ \/ /\ ~KeyTaken(slot[s].job)
          /\ Settle(slot[s].job, "PENDING")
          /\ Release(s)
       \/ /\ KeyTaken(slot[s].job)
          /\ Die(WorkerOf[s])

(* failJob after a permanent error, or with no attempts left by the copy.  *)
FailFinal(s) ==
    /\ slot[s] # Idle
    /\ Settle(slot[s].job, "FAILED")
    /\ Release(s)

(* locked_at grows old.  The timer of a live run renews it ten times over, *)
(* so the lock of a live runner expires only when its process stalls.      *)
LockExpires(j) ==
    /\ jobs[j].status = "RUNNING"
    /\ jobs[j].fresh
    /\ ~LiveRunner(j)
    /\ jobs' = [jobs EXCEPT ![j] = [@ EXCEPT !.fresh = FALSE]]
    /\ UNCHANGED slot

RunnerStalls(j) ==
    /\ jobs[j].status = "RUNNING"
    /\ jobs[j].fresh
    /\ LiveRunner(j)
    /\ jobs' = [jobs EXCEPT ![j] = [@ EXCEPT !.fresh = FALSE]]
    /\ UNCHANGED slot

Expired(j) == jobs[j].status = "RUNNING" /\ ~jobs[j].fresh

(* Mutant: the age of the lock is not looked at.                           *)
RecoverRunning ==
    /\ jobs' = [j \in JobIds |->
                 IF jobs[j].status = "RUNNING"
                 THEN [jobs[j] EXCEPT !.status = "PENDING", !.lockedBy = None,
                                      !.fresh = FALSE]
                 ELSE jobs[j]]
    /\ UNCHANGED slot

(* Mutant: a row that used up its attempts is not recovered.               *)
RecoverWithAttemptsLeft ==
    /\ \E j \in JobIds : Expired(j) /\ jobs[j].attempts < MaxAttempts
    /\ jobs' = [j \in JobIds |->
                 IF Expired(j) /\ jobs[j].attempts < MaxAttempts
                 THEN [jobs[j] EXCEPT !.status = "PENDING", !.lockedBy = None]
                 ELSE jobs[j]]
    /\ UNCHANGED slot

(* recoverExpiredJobs: one UPDATE over all the expired rows.               *)
RecoverExpired ==
    /\ \E j \in JobIds : Expired(j)
    /\ jobs' = [j \in JobIds |->
                 IF Expired(j)
                 THEN [jobs[j] EXCEPT !.status = "PENDING", !.lockedBy = None]
                 ELSE jobs[j]]
    /\ UNCHANGED slot
=============================================================================

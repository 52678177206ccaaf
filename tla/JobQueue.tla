------------------------------ MODULE JobQueue ------------------------------
(***************************************************************************)
(* The durable job queue: API requests that enqueue jobs                   *)
(* (apps/api/src/jobs.js, called from events.js and votes.js) against the  *)
(* worker processes that run them (apps/indexer/src/queue.js, worker.js).  *)
(*                                                                         *)
(* A request is a transaction of several statements at READ COMMITTED, so  *)
(* every statement of enqueueJob is a step of its own and sees what the    *)
(* workers committed since the one before.  What serialises two requests   *)
(* for one key is not enqueueJob but the row its callers lock first: the   *)
(* events row retryDeployment and retrySnapshot update, the advisory lock  *)
(* and the votes row of submitBallot and retryBallot.  keyLock is that     *)
(* lock.  The last statement of enqueueJob is the last of its transaction, *)
(* so it commits and unlocks in the same step.                             *)
(***************************************************************************)
EXTENDS JobTable

CONSTANTS
    Callers,     \* API requests, each handled once
    KeyOf,       \* the dedupe_key a request enqueues
    DirectKeys,  \* keys the worker itself inserts (buildSnapshot, finalizeDeployment)
    ReorgKeys,   \* keys whose rows recoverEventReorg may queue again
    StallKeys,   \* keys whose runs may stall until their lock is taken for dead
    MaxCrashes   \* bound on the crashes of a behaviour

ASSUME JobQueueAssumption ==
    /\ KeyOf \in [Callers -> Keys]
    /\ DirectKeys \subseteq Keys
    /\ ReorgKeys \subseteq Keys
    /\ StallKeys \subseteq Keys
    /\ MaxCrashes \in Nat
    /\ None \notin Callers

VARIABLES
    pc,       \* the statement of enqueueJob a request is at
    keyLock,  \* the request whose transaction holds the key's row lock
    crashes   \* worker crashes so far

callerVars == <<pc, keyLock>>
vars == <<jobs, slot, pc, keyLock, crashes>>

CallerPc == {"begin", "find", "reset", "insert", "raced",
             "queued", "conflict", "error", "aborted"}
Answered == {"queued", "conflict", "error", "aborted"}

TypeOK ==
    /\ TableTypeOK
    /\ pc \in [Callers -> CallerPc]
    /\ keyLock \in [Keys -> Callers \cup {None}]
    /\ crashes \in 0..MaxCrashes

Init ==
    /\ TableInit
    /\ pc = [c \in Callers |-> "begin"]
    /\ keyLock = [k \in Keys |-> None]
    /\ crashes = 0

-----------------------------------------------------------------------------
(* API requests.                                                           *)

Goto(c, label) == pc' = [pc EXCEPT ![c] = label]

Unlock(c) == keyLock' = [keyLock EXCEPT ![KeyOf[c]] = None]

Commit(c, answer) ==
    /\ Goto(c, answer)
    /\ Unlock(c)
    /\ UNCHANGED <<slot, crashes>>

(* Mutant: the caller locks no row of the key.                             *)
LockNothing(c) ==
    /\ pc[c] = "begin"
    /\ keyLock' = [keyLock EXCEPT ![KeyOf[c]] = c]
    /\ Goto(c, "find")
    /\ UNCHANGED <<jobs, slot, crashes>>

(* The statement of the caller that locks the key's row.                   *)
LockKey(c) ==
    /\ pc[c] = "begin"
    /\ keyLock[KeyOf[c]] = None
    /\ keyLock' = [keyLock EXCEPT ![KeyOf[c]] = c]
    /\ Goto(c, "find")
    /\ UNCHANGED <<jobs, slot, crashes>>

(* An active row of the key is the answer.                                 *)
FindActive(c) ==
    /\ pc[c] = "find"
    /\ UNCHANGED jobs
    /\ \/ /\ ActiveRows(KeyOf[c]) # {}
          /\ Commit(c, "queued")
       \/ /\ ActiveRows(KeyOf[c]) = {}
          /\ Goto(c, "reset")
          /\ UNCHANGED <<slot, keyLock, crashes>>

(* Mutant: a failed row is not reused.                                     *)
ResetNothing(c) ==
    /\ pc[c] = "reset"
    /\ Goto(c, "insert")
    /\ UNCHANGED <<jobs, slot, keyLock, crashes>>

(* The newest failed row, locked, is queued again; the unique index fails  *)
(* the request when another row of the key became active meanwhile.        *)
ResetFailed(c) ==
    /\ pc[c] = "reset"
    /\ \/ \E j \in FailedRows(KeyOf[c]) :
            /\ \A i \in FailedRows(KeyOf[c]) : i <= j
            /\ \/ /\ ~KeyTaken(j)
                  /\ Requeue(j)
                  /\ Commit(c, "queued")
               \/ /\ KeyTaken(j)
                  /\ UNCHANGED jobs
                  /\ Commit(c, "error")
       \/ /\ FailedRows(KeyOf[c]) = {}
          /\ UNCHANGED jobs
          /\ Goto(c, "insert")
          /\ UNCHANGED <<slot, keyLock, crashes>>

(* INSERT ... ON CONFLICT DO NOTHING.                                      *)
InsertRow(c) ==
    /\ pc[c] = "insert"
    /\ \/ /\ ActiveRows(KeyOf[c]) = {}
          /\ Insert(KeyOf[c])
          /\ Commit(c, "queued")
       \/ /\ ActiveRows(KeyOf[c]) # {}
          /\ UNCHANGED jobs
          /\ Goto(c, "raced")
          /\ UNCHANGED <<slot, keyLock, crashes>>

(* The insert lost a race: the winner's row, or 409 when it is over.       *)
SelectRaced(c) ==
    /\ pc[c] = "raced"
    /\ UNCHANGED jobs
    /\ Commit(c, IF ActiveRows(KeyOf[c]) # {} THEN "queued" ELSE "conflict")

(* The API process ends or loses its connection: the transaction rolls     *)
(* back, having written nothing yet.                                       *)
Abort(c) ==
    /\ pc[c] \in {"find", "reset", "insert", "raced"}
    /\ UNCHANGED jobs
    /\ Commit(c, "aborted")

Request(c) == \/ LockKey(c) \/ FindActive(c) \/ ResetFailed(c)
              \/ InsertRow(c) \/ SelectRaced(c)

-----------------------------------------------------------------------------
(* Workers.                                                                *)

(* The worker inserts a row itself, without looking for a failed one, in a *)
(* transaction that locks the events row first.                            *)
DirectInsert(k) ==
    /\ keyLock[k] = None
    /\ ActiveRows(k) = {}
    /\ Insert(k)
    /\ UNCHANGED <<slot, callerVars, crashes>>

(* recoverEventReorg, under the lock of the votes row: the job of an       *)
(* orphaned receipt is queued again, whatever its status.                  *)
ReorgRequeue(j) ==
    /\ jobs[j].key \in ReorgKeys
    /\ keyLock[jobs[j].key] = None
    /\ ~KeyTaken(j)
    /\ Requeue(j)
    /\ UNCHANGED <<slot, callerVars, crashes>>

Crash(w) ==
    /\ crashes < MaxCrashes
    /\ Die(w)
    /\ crashes' = crashes + 1
    /\ UNCHANGED callerVars

(* The statements of the worker that leave requests and crashes alone.     *)
Run(s) ==
    /\ Claim(s) \/ RenewLock(s) \/ UpdateProgress(s)
    /\ UNCHANGED <<callerVars, crashes>>

EndRun(s) ==
    /\ Complete(s) \/ FailRetry(s) \/ FailFinal(s)
    /\ UNCHANGED <<callerVars, crashes>>

Expire(j) ==
    /\ LockExpires(j)
    /\ UNCHANGED <<callerVars, crashes>>

Stall(j) ==
    /\ jobs[j].key \in StallKeys
    /\ RunnerStalls(j)
    /\ UNCHANGED <<callerVars, crashes>>

Recover ==
    /\ RecoverExpired
    /\ UNCHANGED <<callerVars, crashes>>

-----------------------------------------------------------------------------
Next ==
    \/ \E c \in Callers : Request(c) \/ Abort(c)
    \/ \E k \in DirectKeys : DirectInsert(k)
    \/ \E j \in JobIds : ReorgRequeue(j) \/ Expire(j) \/ Stall(j)
    \/ \E s \in Slots : Run(s) \/ EndRun(s)
    \/ \E w \in Workers : Crash(w)
    \/ Recover

Spec == Init /\ [][Next]_vars

-----------------------------------------------------------------------------
(* Properties.                                                             *)

(* Keys whose rows a runner may lose while it runs.                        *)
LooseKeys == StallKeys \cup ReorgKeys

(* A key no row of which is created or revived behind enqueueJob's back.   *)
Ordinary(k) == k \notin DirectKeys \cup LooseKeys

(* One runner per job.  A row whose runner does not stall for              *)
(* jobLockMinutes and that no reorg touches is never run by two slots at   *)
(* once, whatever happens to the others: recoverExpiredJobs gives away     *)
(* only the rows of dead processes.                                        *)
OneRunnerPerJob ==
    \A s, t \in Slots :
        /\ slot[s].job # None
        /\ slot[s].job = slot[t].job
        /\ jobs[slot[s].job].key \notin LooseKeys
        => s = t

(* A runner of a live worker still owns the row it runs, so the UPDATE     *)
(* ... WHERE id = $1 of completeJob and failJob, which check no owner,     *)
(* write only to a row that is theirs.                                     *)
RunnerOwnsRow ==
    \A s \in Slots :
        LET j == slot[s].job IN
        j # None /\ jobs[j].key \notin LooseKeys =>
            jobs[j].status = "RUNNING" /\ jobs[j].lockedBy = WorkerOf[s]

(* At most one active row per key: no two live jobs do the same work,      *)
(* though a runner that lost its row still writes to it.                   *)
ActiveKeyUnique ==
    \A i, j \in JobIds :
        Active(i) /\ Active(j) /\ jobs[i].key = jobs[j].key => i = j

(* The row a retry reuses is the only one that is not over: enqueueJob     *)
(* never starts a second row beside an active or a failed one, so a signed *)
(* transaction attached to a failed job is not left behind.                *)
RetryKeepsRow ==
    \A i, j \in JobIds :
        /\ jobs[i].key = jobs[j].key
        /\ Ordinary(jobs[i].key)
        /\ jobs[i].status \notin {"ABSENT", "COMPLETED"}
        /\ jobs[j].status \notin {"ABSENT", "COMPLETED"}
        => i = j

(* The row lock of its callers makes the last lines of enqueueJob          *)
(* unreachable: no insert loses a race, no reset meets the unique index,   *)
(* no caller is answered 409 JOB_QUEUE_CONFLICT.                           *)
NoEnqueueConflict ==
    \A c \in Callers :
        KeyOf[c] \notin LooseKeys => pc[c] \notin {"raced", "conflict", "error"}

(* A completed job stays completed: late writes of other runners, retries  *)
(* and lock recovery do not reopen it.                                     *)
CompletedIsFinal ==
    [][\A j \in JobIds :
          jobs[j].status = "COMPLETED" /\ jobs[j].key \notin LooseKeys
          => jobs'[j] = jobs[j]]_vars

(* Every accepted job is settled, whatever crashes and stalls happen,      *)
(* unless reorganisations queue jobs again for ever.                       *)
EveryJobSettles ==
    (\A j \in JobIds : Active(j) ~> jobs[j].status \in {"COMPLETED", "FAILED"})
    \/ []<><<\E j \in JobIds : ReorgRequeue(j)>>_vars

-----------------------------------------------------------------------------
(* The inductive invariant of JobQueueProofs.  The rows of LooseKeys are   *)
(* left out of every part that a stall or a requeue behind its back breaks. *)

Holds(s, j) == slot[s] # Idle /\ slot[s].job = j

RowsKeyed == \A j \in JobIds : jobs[j].status = "ABSENT" <=> jobs[j].key = None

RunsLocked ==
    \A s \in Slots, j \in JobIds :
        Holds(s, j) /\ jobs[j].key \notin LooseKeys =>
            /\ jobs[j].status = "RUNNING"
            /\ jobs[j].lockedBy = WorkerOf[s]
            /\ jobs[j].fresh

RunsApart ==
    \A s, t \in Slots, j \in JobIds :
        Holds(s, j) /\ Holds(t, j) /\ jobs[j].key \notin LooseKeys => s = t

InTransaction(c) == pc[c] \in {"find", "reset", "insert", "raced"}

LockHeld == \A c \in Callers : InTransaction(c) => keyLock[KeyOf[c]] = c

(* What a request has read is still so when it writes.                     *)
ReadsStillTrue ==
    \A c \in Callers : KeyOf[c] \notin LooseKeys =>
        /\ pc[c] \in {"reset", "insert"} => ActiveRows(KeyOf[c]) = {}
        /\ pc[c] = "insert" => FailedRows(KeyOf[c]) = {}
        /\ pc[c] \notin {"raced", "conflict", "error"}

Unfinished(j) == jobs[j].status \in {"PENDING", "RUNNING", "FAILED"}

OneUnfinished ==
    \A i, j \in JobIds :
        /\ Unfinished(i) /\ Unfinished(j)
        /\ jobs[i].key = jobs[j].key
        /\ Ordinary(jobs[i].key)
        => i = j

QueueInv == /\ TypeOK /\ RowsKeyed /\ RunsLocked /\ RunsApart
            /\ LockHeld /\ ReadsStillTrue /\ OneUnfinished
=============================================================================

----------------------------- MODULE WorkerLoop -----------------------------
(***************************************************************************)
(* The main loop of a worker process and its end (apps/indexer/src/        *)
(* worker.js) around the queue of JobQueue: when a worker claims, when it  *)
(* recovers expired rows, what a signal lets finish, and what happens to a *)
(* run whose database answer never comes.                                  *)
(*                                                                         *)
(* A process is one thread: the loop's position says which await it is at, *)
(* and everything between two awaits is one step.  The clock is left out:  *)
(* any turn may be one in which maintenance, recovery or the heartbeat is  *)
(* due.                                                                    *)
(***************************************************************************)
EXTENDS JobQueue, FiniteSets

CONSTANT MaxIncidents  \* bound on signals, crashes and lost answers, together

ASSUME WorkerLoopAssumption == MaxIncidents \in Nat /\ None \notin Slots

VARIABLES
    worker,      \* for each process its loop and its module variables
    unanswered,  \* runs whose completeJob was committed and threw
    incidents    \* signals, crashes and commits whose answer was lost

loopVars == <<worker, unanswered, incidents>>
allVars == <<vars, loopVars>>

Position == {"down", "boot", "claiming", "claimed", "maintenance", "wait", "over"}

Worker == [at       : Position,
           claimed  : Slots \cup {None},   \* claimed, not yet in inFlight
           stopping : BOOLEAN,
           drain    : SUBSET Slots,        \* the runs shutdown still awaits
           pool     : {"open", "closed"}]  \* db.end was called

Down == [at |-> "down", claimed |-> None, stopping |-> FALSE, drain |-> {},
         pool |-> "open"]

LoopTypeOK ==
    /\ TypeOK
    /\ worker \in [Workers -> Worker]
    /\ unanswered \subseteq Slots
    /\ incidents \in 0..MaxIncidents

LoopInit ==
    /\ Init
    /\ worker = [w \in Workers |-> Down]
    /\ unanswered = {}
    /\ incidents = 0

SlotsOf(w) == {s \in Slots : WorkerOf[s] = w}
Held(w) == {s \in SlotsOf(w) : slot[s] # Idle}
InFlight(w) == Held(w) \ {worker[w].claimed}
Full(w) == Held(w) = SlotsOf(w)

At(w, label) == worker[w].at = label
Step(w, from, to) == At(w, from) /\ worker' = [worker EXCEPT ![w].at = to]

QueueUnchanged == UNCHANGED vars
OthersUnchanged == UNCHANGED <<unanswered, incidents>>

(* The process is gone with its runs.                                      *)
Gone(w) ==
    /\ worker' = [worker EXCEPT ![w] = Down]
    /\ unanswered' = unanswered \ SlotsOf(w)

-----------------------------------------------------------------------------
(* run().                                                                  *)

(* The platform starts the process again.                                  *)
Restart(w) ==
    /\ Step(w, "down", "boot")
    /\ QueueUnchanged /\ OthersUnchanged

(* recoverExpiredJobs, which may find nothing.                             *)
RecoverRows ==
    \/ Recover
    \/ ~(\E j \in JobIds : Expired(j)) /\ QueueUnchanged

(* The condition of fillAvailableSlots: whether another job is claimed.    *)
Fill(w) == IF ~worker[w].stopping /\ ~Full(w) THEN "claiming" ELSE "maintenance"

(* The condition of the loop, and of fillAvailableSlots right after it.    *)
Turn(w) == IF worker[w].stopping THEN "over" ELSE Fill(w)

Boot(w) ==
    /\ Step(w, "boot", Turn(w))
    /\ worker[w].pool = "open"
    /\ RecoverRows
    /\ OthersUnchanged

(* await claimJob(): a row, no row, or, once the pool is closed, an error  *)
(* that run catches.  A statement under way when the pool closes is still  *)
(* carried out.                                                            *)
ClaimJob(w) ==
    /\ At(w, "claiming")
    /\ \/ \E s \in SlotsOf(w) :
            /\ Claim(s)
            /\ worker' = [worker EXCEPT ![w].at = "claimed", ![w].claimed = s]
            /\ UNCHANGED <<callerVars, crashes>>
       \/ /\ worker[w].pool = "closed" \/ ~\E j \in JobIds : jobs[j].status = "PENDING"
          /\ worker' = [worker EXCEPT ![w].at = "maintenance"]
          /\ QueueUnchanged
    /\ OthersUnchanged

(* The claim is committed, its answer lost: no runner has the row.         *)
LoseClaim(s) ==
    /\ slot[s] = Idle
    /\ \E j \in JobIds :
        /\ jobs[j].status = "PENDING"
        /\ jobs' = [jobs EXCEPT ![j] =
              [@ EXCEPT !.status = "RUNNING", !.attempts = Bump(jobs[j].attempts),
                        !.lockedBy = WorkerOf[s], !.fresh = TRUE]]
    /\ UNCHANGED slot

ClaimLost(s) ==
    LET w == WorkerOf[s] IN
    /\ At(w, "claiming")
    /\ incidents < MaxIncidents /\ incidents' = incidents + 1
    /\ LoseClaim(s)
    /\ worker' = [worker EXCEPT ![w].at = "maintenance"]
    /\ UNCHANGED <<callerVars, crashes, unanswered>>

(* runClaimedJob is called and its promise added to inFlight, and the      *)
(* condition is looked at again.                                           *)
StartRun(w) ==
    /\ At(w, "claimed")
    /\ worker' = [worker EXCEPT ![w].at = Fill(w), ![w].claimed = None]
    /\ QueueUnchanged /\ OthersUnchanged

(* recoverEventReorg queues a job again or inserts one, from inside        *)
(* maintenance.                                                            *)
Maintaining(w) == At(w, "maintenance") /\ worker[w].pool = "open"

RequeueOrphaned(j) ==
    /\ \E w \in Workers : Maintaining(w)
    /\ ReorgRequeue(j)
    /\ UNCHANGED loopVars

(* The task of the slot is in inFlight.                                    *)
Started(s) ==
    /\ slot[s] # Idle
    /\ worker[WorkerOf[s]].claimed # s

(* A job inserted by maintenance, or by a run for the work after it.       *)
InsertNext(k) ==
    /\ (\E w \in Workers : Maintaining(w)) \/ (\E s \in Slots : Started(s))
    /\ DirectInsert(k)
    /\ UNCHANGED loopVars

(* Maintenance ends, its errors caught, and recoverExpiredJobs follows in  *)
(* a turn in which its minute is over.                                     *)
RecoveryDue(w) ==
    /\ Step(w, "maintenance", "wait")
    /\ worker[w].pool = "open"
    /\ RecoverRows
    /\ OthersUnchanged

RecoveryNotDue(w) ==
    /\ Step(w, "maintenance", "wait")
    /\ QueueUnchanged /\ OthersUnchanged

(* With all slots busy the loop waits for a run to end, else it sleeps for *)
(* a while; then its next turn.                                            *)
Wait(w) ==
    /\ Step(w, "wait", Turn(w))
    /\ ~Full(w)
    /\ QueueUnchanged /\ OthersUnchanged

-----------------------------------------------------------------------------
(* runClaimedJob.                                                          *)

RunGoesOn(s) ==
    /\ Started(s)
    /\ worker[WorkerOf[s]].pool = "open"
    /\ RenewLock(s) \/ UpdateProgress(s)
    /\ UNCHANGED <<callerVars, crashes, loopVars>>

(* completeJob, or failJob after an error: the error of completeJob too.   *)
RunEnds(s) ==
    /\ Started(s)
    /\ worker[WorkerOf[s]].pool = "open"
    /\ \/ s \notin unanswered /\ Complete(s)
       \/ FailRetry(s) /\ ~KeyTaken(slot[s].job)
       \/ FailFinal(s)
    /\ worker' = [worker EXCEPT ![WorkerOf[s]].drain = @ \ {s}]
    /\ unanswered' = unanswered \ {s}
    /\ UNCHANGED <<callerVars, crashes, incidents>>

(* completeJob is committed and its answer lost: the run goes on to        *)
(* failJob.                                                                *)
LoseCompletion(s) ==
    /\ slot[s] # Idle
    /\ Settle(slot[s].job, "COMPLETED")
    /\ UNCHANGED slot

CompletionLost(s) ==
    /\ Started(s)
    /\ s \notin unanswered
    /\ incidents < MaxIncidents /\ incidents' = incidents + 1
    /\ LoseCompletion(s)
    /\ unanswered' = unanswered \cup {s}
    /\ UNCHANGED <<callerVars, crashes, worker>>

(* failJob throws: the rejection ends the process, with all its runs.      *)
RunEndsProcess(s) ==
    LET w == WorkerOf[s] IN
    /\ Started(s)
    /\ \/ FailRetry(s) /\ KeyTaken(slot[s].job)
       \/ worker[w].pool = "closed" /\ Die(w)
    /\ Gone(w)
    /\ UNCHANGED <<callerVars, crashes, incidents>>

-----------------------------------------------------------------------------
(* The end of a process.                                                   *)

(* Mutant: nothing is awaited.                                             *)
SignalAwaitingNothing(w) ==
    /\ ~At(w, "down") /\ ~worker[w].stopping
    /\ incidents < MaxIncidents /\ incidents' = incidents + 1
    /\ worker' = [worker EXCEPT ![w].stopping = TRUE]
    /\ QueueUnchanged /\ UNCHANGED unanswered

(* SIGTERM or SIGINT: shutdown takes a copy of inFlight.                   *)
Signal(w) ==
    /\ ~At(w, "down") /\ ~worker[w].stopping
    /\ incidents < MaxIncidents /\ incidents' = incidents + 1
    /\ worker' = [worker EXCEPT ![w].stopping = TRUE, ![w].drain = InFlight(w)]
    /\ QueueUnchanged /\ UNCHANGED unanswered

(* Promise.allSettled has settled: db.end().                               *)
ClosePool(w) ==
    /\ worker[w].stopping /\ worker[w].drain = {} /\ worker[w].pool = "open"
    /\ worker' = [worker EXCEPT ![w].pool = "closed"]
    /\ QueueUnchanged /\ OthersUnchanged

(* Nothing is left to do, or the loop's own statement met the closed pool. *)
Exit(w) ==
    /\ worker[w].pool = "closed"
    /\ \/ At(w, "over") /\ Held(w) = {}
       \/ At(w, "maintenance") \/ At(w, "boot")
    /\ Die(w)
    /\ Gone(w)
    /\ UNCHANGED <<callerVars, crashes, incidents>>

(* A crash, or a database error where run() does not catch it.             *)
CrashProcess(w) ==
    /\ ~At(w, "down")
    /\ incidents < MaxIncidents /\ incidents' = incidents + 1
    /\ Crash(w)
    /\ Gone(w)

-----------------------------------------------------------------------------
LoopStep(w) ==
    \/ Restart(w) \/ Boot(w) \/ ClaimJob(w) \/ StartRun(w)
    \/ RecoveryDue(w) \/ RecoveryNotDue(w) \/ Wait(w)

Ending(w) == ClosePool(w) \/ Exit(w)

RunEnding(s) == RunEnds(s) \/ RunEndsProcess(s)

LoopNext ==
    \/ \E c \in Callers : (Request(c) \/ Abort(c)) /\ UNCHANGED loopVars
    \/ \E j \in JobIds : \/ (Expire(j) \/ Stall(j)) /\ UNCHANGED loopVars
                         \/ RequeueOrphaned(j)
    \/ \E k \in DirectKeys : InsertNext(k)
    \/ \E s \in Slots : \/ RunGoesOn(s) \/ RunEnding(s)
                        \/ ClaimLost(s) \/ CompletionLost(s)
    \/ \E w \in Workers : \/ LoopStep(w) \/ Signal(w) \/ Ending(w) \/ CrashProcess(w)

LoopSpec == LoopInit /\ [][LoopNext]_allVars

(***************************************************************************)
(* Fairness.  The event loop gets to every await, because each has a       *)
(* timeout; runs end; time passes, so that of all the turns of a loop one  *)
(* comes when recovery is due; the platform starts an ended process again. *)
(* Claims are not assumed: they come from the loop.                        *)
(***************************************************************************)
FairLoopSpec ==
    /\ LoopSpec
    /\ \A c \in Callers : WF_allVars(Request(c) /\ UNCHANGED loopVars)
    /\ \A j \in JobIds : WF_allVars(Expire(j) /\ UNCHANGED loopVars)
    /\ \A s \in Slots : WF_allVars(RunEnding(s))
    /\ \A w \in Workers : /\ WF_allVars(LoopStep(w))
                          /\ SF_allVars(RecoveryDue(w))
                          /\ WF_allVars(Ending(w))

-----------------------------------------------------------------------------
(* Properties.                                                             *)

(* What the guarantees of JobQueue come to when answers are lost.  A job   *)
(* whose runner does not stall and that no reorg touches has one runner at *)
(* most, and its row is RUNNING under that runner's lock, or COMPLETED     *)
(* when the answer of completeJob was lost: the failJob that follows, and  *)
(* reopens the job, writes over no other run.  A row claimed without an    *)
(* answer has no runner, and only its expiry brings it back.               *)
RunsKeepRows ==
    \A s \in Slots :
        LET j == slot[s].job IN
        j # None /\ jobs[j].key \notin LooseKeys =>
            /\ \A t \in Slots \ {s} : slot[t].job # j
            /\ IF s \in unanswered
               THEN jobs[j].status = "COMPLETED"
               ELSE jobs[j].status = "RUNNING" /\ jobs[j].lockedBy = WorkerOf[s]

(* Shutdown closes the pool under no run it awaited, and under one run at  *)
(* most: the one whose claim was under way when the signal came.           *)
ShutdownCutsOffOne ==
    \A w \in Workers : worker[w].pool = "closed" =>
        /\ worker[w].drain = {}
        /\ \A s, t \in Held(w) : s = t

-----------------------------------------------------------------------------
(* The invariant of JobQueueProofs.  Of the runs held by a process that    *)
(* stops, all but one are awaited, and all are while a claim is under way. *)
ShutdownInv(w) ==
    /\ worker[w].claimed # None => At(w, "claimed")
    /\ worker[w].drain \subseteq Held(w)
    /\ worker[w].pool = "closed" => worker[w].stopping /\ worker[w].drain = {}
    /\ worker[w].stopping =>
           /\ \A s, t \in Held(w) \ worker[w].drain : s = t
           /\ At(w, "claiming") => Held(w) \subseteq worker[w].drain

(* A run that waits for nothing but its failJob is still a run; the lock   *)
(* of a run that is not is young.                                          *)
RunsInv ==
    /\ unanswered \subseteq {s \in Slots : slot[s] # Idle}
    /\ \A s \in Slots, j \in JobIds :
           Holds(s, j) /\ jobs[j].key \notin LooseKeys =>
               /\ \A t \in Slots : Holds(t, j) => s = t
               /\ IF s \in unanswered
                  THEN jobs[j].status = "COMPLETED"
                  ELSE /\ jobs[j].status = "RUNNING"
                       /\ jobs[j].lockedBy = WorkerOf[s]
                       /\ jobs[j].fresh

LoopInv == /\ LoopTypeOK /\ ActiveKeyUnique /\ RowsKeyed /\ RunsInv
           /\ \A w \in Workers : ShutdownInv(w)
=============================================================================

---------------------------- MODULE RelayerOutbox ----------------------------
(***************************************************************************)
(* The transaction outbox of the relayer account                           *)
(* (apps/indexer/src/relayer-transaction.js) as deployEvent (deploy.js)    *)
(* and relayVote (vote.js) drive it: reserve a nonce under an advisory     *)
(* lock, persist the signed transaction, broadcast it, wait for its        *)
(* receipt, record it, write the projection, complete the job.             *)
(*                                                                         *)
(* Every await is a step: a run can crash, throw, lose its job lock or be  *)
(* overtaken by a second runner of the same job between any two of them.   *)
(* The network is the environment: it may lose a transaction, answer an    *)
(* error for one it accepted, or mine it while nobody waits.               *)
(*                                                                         *)
(* A transaction is named by its nonce: relayer_transactions is UNIQUE on  *)
(* (chain, relayer, nonce), and a signed transaction whose row is refused  *)
(* is never broadcast.  There are no reorganisations here.                 *)
(***************************************************************************)
EXTENDS JobTable

CONSTANTS
    JobKey,     \* the dedupe_key of each job; the jobs are there from the start
    Deploys,    \* the DEPLOY_EVENT jobs; the others are RELAY_VOTE jobs
    Expiring,   \* the jobs whose voting window may end
    SelfCast,   \* the votes whose ballot may reach the contract by another sender
    Stalls,     \* TRUE: a live worker may lose its job lock by stalling
    GasReverts, \* TRUE: a valid transaction may still revert on the chain
    MaxNonce,   \* bound on the nonces of a behaviour
    MaxCrashes, \* bound on worker crashes
    MaxFaults   \* bound on thrown errors, timeouts and dropped transactions

ASSUME OutboxAssumption ==
    /\ JobKey \in [JobIds -> Keys]
    /\ Deploys \subseteq JobIds /\ Expiring \subseteq JobIds
    /\ SelfCast \subseteq JobIds \ Deploys
    /\ Stalls \in BOOLEAN /\ GasReverts \in BOOLEAN
    /\ MaxNonce \in Nat /\ MaxCrashes \in Nat /\ MaxFaults \in Nat
    /\ None \notin Slots

VARIABLES
    pc,       \* the await each slot's run is at
    nonce,    \* the transaction a run works on: the nonce of its row
    lock,     \* the slot whose connection holds the relayer advisory lock
    outbox,   \* relayer_transactions, by nonce
    pool,     \* the nonces of the transactions the network holds unmined
    chain,    \* the outcome of each mined nonce of the relayer account
    cast,     \* the votes whose ballot the contract has counted
    ended,    \* the jobs whose voting window has ended
    settled,  \* jobs whose projection row says so: deployment_block set, vote CONFIRMED
    crashes,
    faults

runVars   == <<pc, nonce, lock>>
netVars   == <<pool, chain, cast, ended>>
budgets   == <<crashes, faults>>
vars == <<jobs, slot, pc, nonce, lock, outbox, pool, chain, cast, ended,
          settled, crashes, faults>>

Nonces == 0..MaxNonce

Pc == {"idle", "preflight", "check", "lock", "recheck", "nonce", "insert",
       "receipt", "send", "error", "mark", "wait", "record", "finalize", "complete"}

TxStatus == {"ABSENT", "PREPARED", "BROADCAST", "CONFIRMED", "REVERTED"}
TxRow    == [job : JobIds \cup {None}, status : TxStatus]
NoTx     == [job |-> None, status |-> "ABSENT"]
Outcome  == {"none", "success", "reverted"}

TypeOK ==
    /\ TableTypeOK
    /\ pc \in [Slots -> Pc]
    /\ nonce \in [Slots -> Nonces]
    /\ lock \in Slots \cup {None}
    /\ outbox \in [Nonces -> TxRow]
    /\ pool \subseteq Nonces
    /\ chain \in [Nonces -> Outcome]
    /\ cast \subseteq JobIds \ Deploys
    /\ ended \subseteq JobIds
    /\ settled \subseteq JobIds
    /\ crashes \in 0..MaxCrashes
    /\ faults \in 0..MaxFaults

Init ==
    /\ jobs = [j \in JobIds |-> NewRow(JobKey[j])]
    /\ slot = [s \in Slots |-> Idle]
    /\ pc = [s \in Slots |-> "idle"]
    /\ nonce = [s \in Slots |-> 0]
    /\ lock = None
    /\ outbox = [n \in Nonces |-> NoTx]
    /\ pool = {}
    /\ chain = [n \in Nonces |-> "none"]
    /\ cast = {} /\ ended = {} /\ settled = {}
    /\ crashes = 0 /\ faults = 0

-----------------------------------------------------------------------------
(* Reading the outbox and the chain.                                       *)

Reserved == {n \in Nonces : outbox[n].status # "ABSENT"}
Mined    == {n \in Nonces : chain[n] # "none"}

(* Mutant: a PREPARED row is not looked for.                               *)
ActiveTxsSent(j) ==
    {n \in Nonces : outbox[n].job = j /\ outbox[n].status \in {"BROADCAST", "CONFIRMED"}}

(* The rows activeTransaction selects from; the newest of them is the one  *)
(* with the greatest nonce, since nonces are reserved in order.            *)
ActiveTxs(j) ==
    {n \in Nonces : outbox[n].job = j
                    /\ outbox[n].status \in {"PREPARED", "BROADCAST", "CONFIRMED"}}
Newest(n, S) == n \in S /\ \A m \in S : m <= n

(* The transaction of job j would succeed if it were mined now.            *)
Executable(j) == j \notin ended /\ j \notin cast

(* A transaction count the provider may report: at most the pending one.   *)
Reported(net) == \A m \in Nonces : m < net => m \in pool \cup Mined

(* Mutant: coalesce(max(nonce), 0) + 1.                                    *)
AboveReservedFromOne(own) ==
    /\ \A m \in Reserved : m < own
    /\ own = 1 \/ own - 1 \in Reserved

(* max(nonce) + 1 over the table.                                          *)
AboveReserved(own) ==
    /\ \A m \in Reserved : m < own
    /\ own = 0 \/ own - 1 \in Reserved

-----------------------------------------------------------------------------
(* The steps of a run.                                                     *)

At(s, label) == slot[s] # Idle /\ pc[s] = label
JobOf(s) == slot[s].job

Goto(s, label) == pc' = [pc EXCEPT ![s] = label]

(* A step of the run in slot s that leaves the job table alone.            *)
Step(s, from, to) ==
    /\ At(s, from)
    /\ Goto(s, to)
    /\ UNCHANGED <<jobs, slot, ended, cast, chain, settled, budgets>>

(* Runs that are over are at no await, and their database session is gone. *)
Cleanup ==
    /\ pc' = [t \in Slots |-> IF slot'[t] = Idle THEN "idle" ELSE pc[t]]
    /\ nonce' = [t \in Slots |-> IF slot'[t] = Idle THEN 0 ELSE nonce[t]]
    /\ lock' = IF lock # None /\ slot'[lock] = Idle THEN None ELSE lock
    /\ UNCHANGED <<outbox, netVars, settled>>

Start(s) ==
    /\ Claim(s)
    /\ Goto(s, "preflight")
    /\ UNCHANGED <<nonce, lock, outbox, netVars, settled, budgets>>

(* What deployEvent and relayVote look at before the outbox: the           *)
(* projection says the work is done, or the window is over (deploy.js:139) *)
(* or the simulated castVote reverts (vote.js:106).                        *)
PreflightDone(s) ==
    /\ At(s, "preflight") /\ JobOf(s) \in settled
    /\ Complete(s) /\ Cleanup
    /\ UNCHANGED budgets

PreflightPasses(s) ==
    /\ JobOf(s) \notin settled /\ Executable(JobOf(s))
    /\ Step(s, "preflight", "check")
    /\ UNCHANGED <<nonce, lock, outbox, pool>>

(* failJob: an error with attempts left queues the job again.              *)
Transient(s) ==
    /\ \/ FailRetry(s)
       \/ slot[s].attempts >= MaxAttempts /\ FailFinal(s)
    /\ Cleanup

Permanent(s) == FailFinal(s) /\ Cleanup

(* Mutant: a run with nothing left to send completes its job.              *)
PreflightSkips(s) ==
    /\ At(s, "preflight")
    /\ JobOf(s) \notin settled /\ ~Executable(JobOf(s))
    /\ Complete(s) /\ Cleanup
    /\ UNCHANGED budgets

PreflightRefuses(s) ==
    /\ At(s, "preflight")
    /\ JobOf(s) \notin settled /\ ~Executable(JobOf(s))
    /\ IF JobOf(s) \in Deploys THEN Permanent(s) ELSE Transient(s)
    /\ UNCHANGED budgets

(* prepareRelayerTransaction: an active row of the job is taken as it is.  *)
TakeExisting(s, from) ==
    \E n \in Nonces :
        /\ Newest(n, ActiveTxs(JobOf(s)))
        /\ nonce' = [nonce EXCEPT ![s] = n]
        /\ Step(s, from, "receipt")
        /\ lock' = IF lock = s THEN None ELSE lock
        /\ UNCHANGED <<outbox, pool>>

CheckExisting(s) ==
    \/ TakeExisting(s, "check")
    \/ /\ ActiveTxs(JobOf(s)) = {}
       /\ Step(s, "check", "lock")
       /\ UNCHANGED <<nonce, lock, outbox, pool>>

AcquireLock(s) ==
    /\ lock = None
    /\ Step(s, "lock", "recheck")
    /\ lock' = s
    /\ UNCHANGED <<nonce, outbox, pool>>

(* Mutant: the outbox is not read again under the lock.                    *)
RecheckNothing(s) ==
    /\ Step(s, "recheck", "nonce")
    /\ UNCHANGED <<nonce, lock, outbox, pool>>

RecheckExisting(s) ==
    \/ TakeExisting(s, "recheck")
    \/ /\ ActiveTxs(JobOf(s)) = {}
       /\ Step(s, "recheck", "nonce")
       /\ UNCHANGED <<nonce, lock, outbox, pool>>

(* nextRelayerNonce, then populateTransaction, whose gas estimate needs a  *)
(* call that does not revert.                                              *)
ReserveNonce(s) ==
    /\ Executable(JobOf(s))
    /\ Step(s, "nonce", "insert")
    /\ \E net, own \in Nonces :
        /\ Reported(net) /\ AboveReserved(own)
        /\ nonce' = [nonce EXCEPT ![s] = IF net > own THEN net ELSE own]
    /\ UNCHANGED <<lock, outbox, pool>>

(* The estimate reverts: the window is over, or the ballot has reached the *)
(* contract, since the run looked (relayer-transaction.js:71).             *)
EstimateReverts(s) ==
    /\ At(s, "nonce")
    /\ ~Executable(JobOf(s))
    /\ Transient(s)
    /\ UNCHANGED budgets

(* The row and onPrepared commit together; the lock is released.  The      *)
(* index UNIQUE(chain_id, relayer_address, nonce) never refuses the row:   *)
(* see ReservedNonceFree.                                                  *)
InsertPrepared(s) ==
    /\ Step(s, "insert", "receipt")
    /\ outbox' = [outbox EXCEPT ![nonce[s]] = [job |-> JobOf(s), status |-> "PREPARED"]]
    /\ lock' = None
    /\ UNCHANGED <<nonce, pool>>

(* broadcastPreparedTransaction.                                           *)
LookForReceipt(s) ==
    /\ Step(s, "receipt", IF nonce[s] \in Mined THEN "record" ELSE "send")
    /\ UNCHANGED <<nonce, lock, outbox, pool>>

Send(s) ==
    /\ nonce[s] \notin pool \cup Mined
    /\ Step(s, "send", "mark")
    /\ pool' = pool \cup {nonce[s]}
    /\ UNCHANGED <<nonce, lock, outbox>>

(* The node refuses what it already has ("already known", "nonce too low") *)
SendRefused(s) ==
    /\ nonce[s] \in pool \cup Mined
    /\ Step(s, "send", "error")
    /\ UNCHANGED <<nonce, lock, outbox, pool>>

(* The try block throws: the call, whether or not the network got the      *)
(* transaction, or the UPDATE after it.                                    *)
SendThrows(s) ==
    /\ faults < MaxFaults
    /\ \/ At(s, "send") /\ pool' \in {pool, pool \cup ({nonce[s]} \ Mined)}
       \/ At(s, "mark") /\ UNCHANGED pool
    /\ Goto(s, "error")
    /\ faults' = faults + 1
    /\ UNCHANGED <<jobs, slot, nonce, lock, outbox, chain, cast, ended, settled, crashes>>

(* Mutant: an error of the broadcast is permanent.                         *)
AfterErrorGivesUp(s) ==
    /\ At(s, "error")
    /\ Permanent(s)
    /\ UNCHANGED budgets

(* After an error: a receipt settles it, unless its lookup fails too; a    *)
(* transaction the network knows is marked BROADCAST; anything else is     *)
(* thrown.                                                                 *)
AfterError(s) ==
    \/ /\ nonce[s] \in Mined
       /\ Step(s, "error", "record")
       /\ UNCHANGED <<nonce, lock, outbox, pool>>
    \/ /\ nonce[s] \in pool \cup Mined
       /\ Step(s, "error", "mark")
       /\ UNCHANGED <<nonce, lock, outbox, pool>>
    \/ /\ At(s, "error") /\ nonce[s] \notin pool \cup Mined
       /\ Transient(s)
       /\ UNCHANGED budgets

(* Mutant: WHERE status <> 'CONFIRMED' is gone.                            *)
MarkBroadcastAlways(s) ==
    /\ Step(s, "mark", "wait")
    /\ outbox' = [outbox EXCEPT ![nonce[s]].status = "BROADCAST"]
    /\ UNCHANGED <<nonce, lock, pool>>

MarkBroadcast(s) ==
    /\ Step(s, "mark", "wait")
    /\ outbox' = IF outbox[nonce[s]].status = "CONFIRMED" THEN outbox
                 ELSE [outbox EXCEPT ![nonce[s]].status = "BROADCAST"]
    /\ UNCHANGED <<nonce, lock, pool>>

AwaitReceipt(s) ==
    /\ nonce[s] \in Mined
    /\ Step(s, "wait", "record")
    /\ UNCHANGED <<nonce, lock, outbox, pool>>

(* waitForTransaction gives up; the job is retried.                        *)
WaitTimesOut(s) ==
    /\ At(s, "wait")
    /\ nonce[s] \notin pool \cup Mined
    /\ Transient(s)
    /\ UNCHANGED budgets

(* Mutant: receipt.status is not looked at.                                *)
RecordMined(s) ==
    /\ Step(s, "record", "finalize")
    /\ outbox' = [outbox EXCEPT ![nonce[s]].status = "CONFIRMED"]
    /\ UNCHANGED <<nonce, lock, pool>>

RecordReceipt(s) ==
    /\ Step(s, "record", "finalize")
    /\ outbox' = [outbox EXCEPT ![nonce[s]].status =
                    IF chain[nonce[s]] = "success" THEN "CONFIRMED" ELSE "REVERTED"]
    /\ UNCHANGED <<nonce, lock, pool>>

(* finalizeDeployment, finalizeVote: the projection, or a permanent error  *)
(* for a reverted transaction.                                             *)
Finalize(s) ==
    /\ chain[nonce[s]] = "success"
    /\ At(s, "finalize")
    /\ Goto(s, "complete")
    /\ settled' = settled \cup {JobOf(s)}
    /\ UNCHANGED <<jobs, slot, nonce, lock, outbox, netVars, budgets>>

FinalizeReverted(s) ==
    /\ At(s, "finalize")
    /\ chain[nonce[s]] # "success"
    /\ Permanent(s)
    /\ UNCHANGED budgets

CompleteRun(s) ==
    /\ At(s, "complete")
    /\ Complete(s) /\ Cleanup
    /\ UNCHANGED budgets

(* Any await may throw: a database or provider error, a wait that times    *)
(* out on a slow network.  failJob takes it for a transient error.         *)
Throw(s) ==
    /\ faults < MaxFaults
    /\ slot[s] # Idle /\ pc[s] # "send"
    /\ Transient(s)
    /\ faults' = faults + 1
    /\ UNCHANGED crashes

Run(s) ==
    \/ PreflightDone(s) \/ PreflightPasses(s) \/ PreflightRefuses(s)
    \/ CheckExisting(s) \/ AcquireLock(s) \/ RecheckExisting(s)
    \/ ReserveNonce(s) \/ EstimateReverts(s) \/ InsertPrepared(s)
    \/ LookForReceipt(s) \/ Send(s) \/ SendRefused(s) \/ AfterError(s)
    \/ MarkBroadcast(s) \/ AwaitReceipt(s) \/ WaitTimesOut(s) \/ RecordReceipt(s)
    \/ Finalize(s) \/ FinalizeReverted(s) \/ CompleteRun(s)

-----------------------------------------------------------------------------
(* Processes, requests and the job table.                                  *)

Crash(w) ==
    /\ crashes < MaxCrashes
    /\ Die(w) /\ Cleanup
    /\ crashes' = crashes + 1
    /\ UNCHANGED faults

(* retryDeployment and retryBallot: refused once the work is done or the   *)
(* window is over; enqueueJob then resets the failed row.                  *)
RetryJob(j) ==
    /\ jobs[j].status = "FAILED"
    /\ j \notin settled /\ j \notin ended
    /\ Requeue(j)
    /\ UNCHANGED <<slot, runVars, outbox, netVars, settled, budgets>>

Expire(j) ==
    /\ LockExpires(j)
    /\ UNCHANGED <<runVars, outbox, netVars, settled, budgets>>

Stall(j) ==
    /\ Stalls
    /\ RunnerStalls(j)
    /\ UNCHANGED <<runVars, outbox, netVars, settled, budgets>>

Recover ==
    /\ RecoverExpired
    /\ UNCHANGED <<runVars, outbox, netVars, settled, budgets>>

-----------------------------------------------------------------------------
(* The network and the contract.                                           *)

(* Transactions of one account are mined in the order of their nonces.     *)
Mine(n) ==
    /\ n \in pool
    /\ \A m \in Nonces : m < n => m \in Mined
    /\ pool' = pool \ {n}
    /\ LET j == outbox[n].job IN
        \/ /\ Executable(j)
           /\ chain' = [chain EXCEPT ![n] = "success"]
           /\ cast' = IF j \in Deploys THEN cast ELSE cast \cup {j}
        \/ /\ GasReverts \/ ~Executable(j)
           /\ chain' = [chain EXCEPT ![n] = "reverted"]
           /\ UNCHANGED cast
    /\ UNCHANGED <<tableVars, runVars, outbox, ended, settled, budgets>>

(* The network forgets an unmined transaction.                             *)
Drop(n) ==
    /\ faults < MaxFaults
    /\ n \in pool
    /\ pool' = pool \ {n}
    /\ faults' = faults + 1
    /\ UNCHANGED <<tableVars, runVars, outbox, chain, cast, ended, settled, crashes>>

(* Anyone may bring a signed ballot to the contract.                       *)
CastByOther(j) ==
    /\ j \in SelfCast
    /\ Executable(j)
    /\ cast' = cast \cup {j}
    /\ UNCHANGED <<tableVars, runVars, outbox, pool, chain, ended, settled, budgets>>

(* The indexer finds the VoteCast log and confirms the vote.               *)
IndexVote(j) ==
    /\ j \in cast \ settled
    /\ settled' = settled \cup {j}
    /\ UNCHANGED <<tableVars, runVars, outbox, netVars, budgets>>

WindowEnds(j) ==
    /\ j \in Expiring \ ended
    /\ ended' = ended \cup {j}
    /\ UNCHANGED <<tableVars, runVars, outbox, pool, chain, cast, settled, budgets>>

-----------------------------------------------------------------------------
Next ==
    \/ \E s \in Slots : Start(s) \/ Run(s) \/ SendThrows(s) \/ Throw(s)
    \/ \E w \in Workers : Crash(w)
    \/ \E j \in JobIds : \/ RetryJob(j) \/ Expire(j) \/ Stall(j)
                         \/ CastByOther(j) \/ IndexVote(j) \/ WindowEnds(j)
    \/ \E n \in Nonces : Mine(n) \/ Drop(n)
    \/ Recover

Spec == Init /\ [][Next]_vars

(***************************************************************************)
(* Fairness.  A run goes on until an await throws, workers keep claiming   *)
(* and recovering, time passes, the indexer keeps polling, and the network *)
(* mines what it holds in nonce order.  Nothing is assumed of crashes,     *)
(* faults, stalls, users or the end of a voting window.                    *)
(***************************************************************************)
Fairness ==
    /\ \A s \in Slots : WF_vars(Start(s)) /\ WF_vars(Run(s))
    /\ \A j \in JobIds : WF_vars(Expire(j)) /\ WF_vars(IndexVote(j))
    /\ \A n \in Nonces : WF_vars(Mine(n))
    /\ WF_vars(Recover)

FairSpec == Spec /\ Fairness

-----------------------------------------------------------------------------
(* Properties.                                                             *)

(* A job has at most one transaction that succeeded or still may: no two   *)
(* deployments of one event, whatever crashes, retries, lost answers and   *)
(* second runners of the same job do.                                      *)
OneLiveTransaction ==
    \A m, n \in Reserved :
        /\ outbox[m].job = outbox[n].job
        /\ chain[m] # "reverted" /\ chain[n] # "reverted"
        => m = n

(* Nonces are reserved without a gap: below a reserved nonce every nonce   *)
(* has its signed transaction in the table, or nothing above it could ever *)
(* be mined.  The count the provider reports may lag.                      *)
NoncesDense ==
    \A n \in Reserved : \A m \in Nonces : m < n => m \in Reserved

(* What the outbox says of a receipt is what the chain did, and the        *)
(* projection (an event's deployment_block, a CONFIRMED vote) is written   *)
(* only for an effect the chain has.                                       *)
ProjectionTruthful ==
    /\ \A n \in Nonces :
        /\ outbox[n].status = "CONFIRMED" => chain[n] = "success"
        /\ outbox[n].status = "REVERTED"  => chain[n] = "reverted"
    /\ \A j \in settled :
        IF j \in Deploys
        THEN \E n \in Nonces : outbox[n].job = j /\ chain[n] = "success"
        ELSE j \in cast

(* The nonce a run has reserved is still free when it inserts its row,     *)
(* whatever the provider reported and whoever else prepares: the unique    *)
(* index of relayer_transactions never refuses a row.                      *)
ReservedNonceFree == \A s \in Slots : At(s, "insert") => nonce[s] \notin Reserved

(* A COMPLETED job has had its effect, also when a stale runner closed it. *)
CompletedIsSettled ==
    \A j \in JobIds : jobs[j].status = "COMPLETED" => j \in settled

(* A confirmed row stays confirmed: a second runner that still has the     *)
(* BROADCAST update before it does not undo the receipt.                   *)
ConfirmedIsFinal ==
    [][\A n \in Nonces : outbox[n].status = "CONFIRMED" => outbox'[n] = outbox[n]]_vars

(* Every persisted transaction is mined in the end, as the recovery of the *)
(* outbox promises; until then every later nonce of the relayer waits.     *)
EveryPreparedMined ==
    \A n \in Nonces : outbox[n].status # "ABSENT" ~> chain[n] # "none"

(* Every job has its effect in the end.                                    *)
EveryJobSettled == \A j \in JobIds : <>(j \in settled)

-----------------------------------------------------------------------------
(* The inductive invariant of RelayerOutboxProofs.                         *)

(* What a run in slot s may rely on at the await it is at.                 *)
RunOK(s) ==
    slot[s] # Idle =>
        /\ pc[s] \in {"recheck", "nonce", "insert"} => lock = s
        /\ pc[s] \in {"nonce", "insert"} =>
             \A n \in Nonces : outbox[n].job = JobOf(s) => chain[n] = "reverted"
        /\ pc[s] = "insert" => \A m \in Nonces : m < nonce[s] => m \in Reserved
        /\ pc[s] = "insert" => outbox[nonce[s]].job = None
        /\ pc[s] \in {"receipt", "send", "error", "mark", "wait", "record", "finalize"} =>
             outbox[nonce[s]].job = JobOf(s)
        /\ pc[s] \in {"record", "finalize"} => nonce[s] \in Mined
        /\ pc[s] = "complete" => JobOf(s) \in settled

RowsHaveJob == \A n \in Nonces : outbox[n].status = "ABSENT" <=> outbox[n].job = None

SentIsReserved == pool \cup Mined \subseteq Reserved /\ pool \cap Mined = {}

BallotsCounted ==
    \A n \in Nonces :
        chain[n] = "success" /\ outbox[n].job \notin Deploys => outbox[n].job \in cast

DataOK == /\ RowsHaveJob /\ SentIsReserved /\ BallotsCounted
          /\ OneLiveTransaction /\ NoncesDense /\ ProjectionTruthful

OutboxInv == /\ TypeOK /\ DataOK /\ CompletedIsSettled
             /\ \A s \in Slots : RunOK(s)
=============================================================================

--------------------------- MODULE EventLifecycle ---------------------------
(***************************************************************************)
(* The life of one event: its row in the table `events' under the jobs     *)
(* BUILD_SNAPSHOT (apps/indexer/src/snapshot.js) and DEPLOY_EVENT          *)
(* (deploy.js), the projection of a failed job (queue.js), the status pass *)
(* of the indexer (event-indexer.js) and the creator's retry requests      *)
(* (apps/api/src/events.js).                                               *)
(*                                                                         *)
(* buildSnapshot and deployEvent read the row once, when they start, and   *)
(* go on for minutes; the row may be another one when they write.          *)
(*                                                                         *)
(* A snapshot is named by the block it was taken at: while the record date *)
(* is younger than the confirmations waited for, a later run resolves a    *)
(* later block.  A contract is named by the transaction that deploys it.   *)
(* RelayerOutbox shows that a job has at most one live transaction, which  *)
(* is what Prepare keeps of it.  JobQueue shows that the events row lock   *)
(* serialises enqueueJob, which is one step here.  Verification of the     *)
(* source code is left out: it writes columns of its own only.             *)
(***************************************************************************)
EXTENDS JobTable

CONSTANTS
    snapshot, deploy,  \* the dedupe keys of the event
    RetrySnapshots,    \* retrySnapshot requests of the creator
    RetryDeployments,  \* retryDeployment requests of the creator
    LastBlock,         \* the block of the record date; blocks are 1..LastBlock
    MaxTx,             \* bound on the deployment transactions
    MaxCrashes,        \* bound on worker crashes
    MaxFaults          \* bound on thrown errors

ASSUME EventAssumption ==
    /\ Keys = {snapshot, deploy} /\ snapshot # deploy
    /\ RetrySnapshots \cap RetryDeployments = {}
    /\ LastBlock \in Nat \ {0} /\ MaxTx \in Nat \ {0}
    /\ MaxCrashes \in Nat /\ MaxFaults \in Nat
    /\ 1 \in JobIds /\ \A j \in JobIds : j >= 1

VARIABLES
    event,    \* the row of the event
    pc,       \* the await each slot's run is at
    copy,     \* the snapshot a run works with: resolved, or read from the row
    tx,       \* the transaction a deployment run waits for
    txs,      \* the deployment transactions, by number
    safe,     \* the newest block resolveRecordBlock may return
    ended,    \* voting_end_at is past
    request,  \* where each retry request is
    rebuilt,  \* history: a stored snapshot may have been built again
    crashes,
    faults

runVars == <<pc, copy, tx>>
envVars == <<safe, ended>>
budgets == <<rebuilt, crashes, faults>>
vars == <<jobs, slot, event, pc, copy, tx, txs, safe, ended, request, rebuilt, crashes,
          faults>>

Blocks   == 1..LastBlock
Txs      == 1..MaxTx
Requests == RetrySnapshots \cup RetryDeployments

(* SCHEDULED and OPEN are one status: nothing here depends on voting_start *)
EventStatus == {"SNAPSHOT_PENDING", "SNAPSHOT_RUNNING", "SNAPSHOT_READY",
                "DEPLOYMENT_QUEUED", "DEPLOYING", "OPEN", "CLOSED", "FAILED"}

EventRow == [status   : EventStatus,
             root     : Blocks \cup {0},    \* snapshot_root, with its entries
             contract : Txs \cup {0},       \* contract_address
             deployed : BOOLEAN]            \* deployment_block IS NOT NULL

(* "closed": the revert is recorded in the outbox.                         *)
TxRow == [job : JobIds \cup {0}, root : Blocks \cup {0},
          outcome : {"none", "pending", "success", "reverted", "closed"}]

Pc == {"idle", "load", "mark", "resolve", "store", "prepare", "await", "finalize", "complete"}

TypeOK ==
    /\ TableTypeOK
    /\ event \in EventRow
    /\ pc \in [Slots -> Pc]
    /\ copy \in [Slots -> Blocks \cup {0}]
    /\ tx \in [Slots -> Txs \cup {0}]
    /\ txs \in [Txs -> TxRow]
    /\ safe \in Blocks
    /\ ended \in BOOLEAN
    /\ request \in [Requests -> {"begin", "checked", "refused", "done"}]
    /\ rebuilt \in BOOLEAN
    /\ crashes \in 0..MaxCrashes
    /\ faults \in 0..MaxFaults

(* createEvent has inserted the row and its first job.                     *)
Init ==
    /\ jobs = [j \in JobIds |-> IF j = 1 THEN NewRow(snapshot) ELSE NoRow]
    /\ slot = [s \in Slots |-> Idle]
    /\ event = [status |-> "SNAPSHOT_PENDING", root |-> 0, contract |-> 0, deployed |-> FALSE]
    /\ pc = [s \in Slots |-> "idle"]
    /\ copy = [s \in Slots |-> 0]
    /\ tx = [s \in Slots |-> 0]
    /\ txs = [n \in Txs |-> [job |-> 0, root |-> 0, outcome |-> "none"]]
    /\ safe = 1 /\ ended = FALSE
    /\ request = [c \in Requests |-> "begin"]
    /\ rebuilt = FALSE
    /\ crashes = 0 /\ faults = 0

-----------------------------------------------------------------------------
(* Runs and how they end.                                                  *)

JobOf(s) == slot[s].job
KeyOfRun(s) == jobs[JobOf(s)].key
At(s, key, label) == slot[s] # Idle /\ KeyOfRun(s) = key /\ pc[s] = label

Goto(s, label) == pc' = [pc EXCEPT ![s] = label]

(* The locals of a run that ended are gone.                                *)
Cleanup ==
    /\ pc' = [s \in Slots |-> IF slot'[s] = Idle THEN "idle" ELSE pc[s]]
    /\ copy' = [s \in Slots |-> IF slot'[s] = Idle THEN 0 ELSE copy[s]]
    /\ tx' = [s \in Slots |-> IF slot'[s] = Idle THEN 0 ELSE tx[s]]
    /\ UNCHANGED <<txs, envVars, request>>

Lifecycle == IF ended THEN "CLOSED" ELSE "OPEN"

Start(s) ==
    /\ Claim(s)
    /\ Goto(s, "load")
    /\ UNCHANGED <<event, copy, tx, txs, envVars, request, budgets>>

Finish(s) == Complete(s) /\ Cleanup /\ UNCHANGED event

(* Mutant: every job that fails for good fails its event.                  *)
FailedAlways(key) == [event EXCEPT !.status = "FAILED"]

(* Mutant: the job fails and the event keeps its status.                   *)
FailedUnseen(key) == event

(* What the final branch of failJob makes of the event.                    *)
FailedEvent(key) ==
    IF key = snapshot THEN [event EXCEPT !.status = "FAILED"]
    ELSE [event EXCEPT !.status = IF event.deployed THEN @ ELSE "SNAPSHOT_READY"]

Permanent(s) ==
    /\ FailFinal(s)
    /\ event' = FailedEvent(KeyOfRun(s))
    /\ Cleanup

Transient(s) ==
    \/ FailRetry(s) /\ Cleanup /\ UNCHANGED event
    \/ slot[s].attempts >= MaxAttempts /\ Permanent(s)

(* A run that has stored the snapshot and not yet ended: if it ends now by *)
(* anything but its completion, the job builds the snapshot again.         *)
Stored(s) == At(s, snapshot, "complete")

(* An await throws; the token may also prove unfit for good while the      *)
(* snapshot is built.                                                      *)
Throw(s) ==
    /\ faults < MaxFaults
    /\ slot[s] # Idle
    /\ \/ Transient(s)
       \/ At(s, snapshot, "store") /\ Permanent(s)
    /\ faults' = faults + 1
    /\ rebuilt' = (rebuilt \/ Stored(s))
    /\ UNCHANGED crashes

-----------------------------------------------------------------------------
(* buildSnapshot                                                           *)

BuildLoad(s) ==
    /\ At(s, snapshot, "load")
    /\ UNCHANGED budgets
    /\ \/ event.contract # 0 /\ Finish(s)
       \/ event.contract = 0 /\ ended /\ Permanent(s)
       \/ /\ event.contract = 0 /\ ~ended
          /\ Goto(s, "mark")
          /\ UNCHANGED <<tableVars, event, copy, tx, txs, envVars, request>>

BuildMark(s) ==
    /\ At(s, snapshot, "mark")
    /\ event' = [event EXCEPT !.status = "SNAPSHOT_RUNNING"]
    /\ Goto(s, "resolve")
    /\ UNCHANGED <<tableVars, copy, tx, txs, envVars, request, budgets>>

BuildResolve(s) ==
    /\ At(s, snapshot, "resolve")
    /\ copy' = [copy EXCEPT ![s] = safe]
    /\ Goto(s, "store")
    /\ UNCHANGED <<tableVars, event, tx, txs, envVars, request, budgets>>

(* One transaction: the entries, the root and the job that deploys it.     *)
StoreSnapshot(s) ==
    /\ At(s, snapshot, "store")
    /\ event' = [event EXCEPT !.root = copy[s], !.status = "DEPLOYMENT_QUEUED"]
    /\ IF ActiveRows(deploy) = {} THEN Insert(deploy) ELSE UNCHANGED jobs
    /\ Goto(s, "complete")
    /\ UNCHANGED <<slot, copy, tx, txs, envVars, request, budgets>>

-----------------------------------------------------------------------------
(* deployEvent                                                             *)

(* Mutant: an event that is deployed is deployed again.                    *)
DeployLoadAgain(s) ==
    /\ At(s, deploy, "load")
    /\ UNCHANGED budgets
    /\ \/ (event.root = 0 \/ ended) /\ Permanent(s)
       \/ /\ event.root # 0 /\ ~ended
          /\ copy' = [copy EXCEPT ![s] = event.root]
          /\ Goto(s, "prepare")
          /\ UNCHANGED <<tableVars, event, tx, txs, envVars, request>>

DeployLoad(s) ==
    /\ At(s, deploy, "load")
    /\ UNCHANGED budgets
    /\ \/ event.deployed /\ Finish(s)
       \/ ~event.deployed /\ (event.root = 0 \/ ended) /\ Permanent(s)
       \/ /\ ~event.deployed /\ event.root # 0 /\ ~ended
          /\ copy' = [copy EXCEPT ![s] = event.root]
          /\ Goto(s, "prepare")
          /\ UNCHANGED <<tableVars, event, tx, txs, envVars, request>>

(* Mutant: the outbox is not looked at.                                    *)
NoLiveTxs(j) == {}

(* The row prepareRelayerTransaction finds for a job.                      *)
LiveTxs(j) == {n \in Txs : txs[n].job = j /\ txs[n].outcome # "closed"}

PrepareExisting(s) ==
    /\ At(s, deploy, "prepare")
    /\ \E n \in LiveTxs(JobOf(s)) : tx' = [tx EXCEPT ![s] = n]
    /\ Goto(s, "await")
    /\ UNCHANGED <<tableVars, event, copy, txs, envVars, request, budgets>>

(* The signed transaction and the predicted address commit together.       *)
PrepareNew(s) ==
    /\ At(s, deploy, "prepare")
    /\ LiveTxs(JobOf(s)) = {} /\ ~ended
    /\ \E n \in Txs :
        /\ txs[n].outcome = "none"
        /\ \A m \in Txs : txs[m].outcome = "none" => n <= m
        /\ txs' = [txs EXCEPT ![n] = [job |-> JobOf(s), root |-> copy[s],
                                      outcome |-> "pending"]]
        /\ tx' = [tx EXCEPT ![s] = n]
        /\ event' = [event EXCEPT !.status = "DEPLOYING", !.contract = n]
    /\ Goto(s, "await")
    /\ UNCHANGED <<tableVars, copy, envVars, request, budgets>>

(* The gas estimate of a deployment whose window is over reverts.          *)
PrepareRefused(s) ==
    /\ At(s, deploy, "prepare")
    /\ LiveTxs(JobOf(s)) = {} /\ ended
    /\ Transient(s)
    /\ UNCHANGED budgets

(* broadcastPreparedTransaction, to the recorded receipt.                  *)
Await(s) ==
    /\ At(s, deploy, "await")
    /\ txs[tx[s]].outcome \in {"success", "reverted", "closed"}
    /\ txs' = [txs EXCEPT ![tx[s]].outcome = IF @ = "success" THEN @ ELSE "closed"]
    /\ Goto(s, "finalize")
    /\ UNCHANGED <<tableVars, event, copy, tx, envVars, request, budgets>>

(* finalizeDeployment.  validateContract compares the contract with the    *)
(* copy of the row that deployEvent read.                                  *)
Finalize(s) ==
    /\ At(s, deploy, "finalize")
    /\ UNCHANGED budgets
    /\ LET t == txs[tx[s]] IN
        \/ /\ t.outcome = "closed" \/ t.root # copy[s]
           /\ Permanent(s)
        \/ /\ t.outcome = "success" /\ t.root = copy[s]
           /\ event' = [event EXCEPT !.contract = tx[s], !.deployed = TRUE,
                                     !.status = Lifecycle]
           /\ Goto(s, "complete")
           /\ UNCHANGED <<tableVars, copy, tx, txs, envVars, request>>

RunCompletes(s) ==
    /\ slot[s] # Idle /\ pc[s] = "complete"
    /\ Finish(s)
    /\ UNCHANGED budgets

Run(s) ==
    \/ BuildLoad(s) \/ BuildMark(s) \/ BuildResolve(s) \/ StoreSnapshot(s)
    \/ DeployLoad(s) \/ PrepareExisting(s) \/ PrepareNew(s) \/ PrepareRefused(s)
    \/ Await(s) \/ Finalize(s) \/ RunCompletes(s)

-----------------------------------------------------------------------------
(* The indexer, the creator and everything else.                           *)

(* The last statement of indexVoteEvents.                                  *)
StatusPass ==
    /\ event.contract # 0 /\ event.status # "FAILED"
    /\ event.status # Lifecycle
    /\ event' = [event EXCEPT !.status = Lifecycle]
    /\ UNCHANGED <<tableVars, runVars, txs, envVars, request, budgets>>

Answer(c, answer) == request' = [request EXCEPT ![c] = answer]

(* The checks read the row before the transaction.                         *)
CheckRetrySnapshot(c) ==
    /\ c \in RetrySnapshots /\ request[c] = "begin"
    /\ Answer(c, IF event.contract = 0 THEN "checked" ELSE "refused")
    /\ UNCHANGED <<tableVars, event, runVars, txs, envVars, budgets>>

(* Mutant: the snapshot is not asked for.                                  *)
ReadyUnchecked == ~event.deployed /\ ~ended

(* assertReadyForDeployment                                                *)
ReadyForDeployment == ~event.deployed /\ event.root # 0 /\ ~ended

CheckRetryDeployment(c) ==
    /\ c \in RetryDeployments /\ request[c] = "begin"
    /\ Answer(c, IF ReadyForDeployment THEN "checked" ELSE "refused")
    /\ UNCHANGED <<tableVars, event, runVars, txs, envVars, budgets>>

(* Mutant: an active job of the key is not looked for.                     *)
EnqueueAnother(k) == Insert(k)

Enqueue(k) ==
    \/ ActiveRows(k) # {} /\ UNCHANGED jobs
    \/ /\ ActiveRows(k) = {}
       /\ \E j \in FailedRows(k) : (\A i \in FailedRows(k) : i <= j) /\ Requeue(j)
    \/ ActiveRows(k) = {} /\ FailedRows(k) = {} /\ Insert(k)

(* The status is not looked at: an event whose snapshot is stored has it   *)
(* built again, and one that has it built goes back to SNAPSHOT_PENDING.   *)
RetrySnapshot(c) ==
    /\ c \in RetrySnapshots /\ request[c] = "checked"
    /\ event' = [event EXCEPT !.status = "SNAPSHOT_PENDING"]
    /\ Enqueue(snapshot)
    /\ Answer(c, "done")
    /\ rebuilt' = (rebuilt \/ event.root # 0)
    /\ UNCHANGED <<slot, runVars, txs, envVars, crashes, faults>>

RetryDeployment(c) ==
    /\ c \in RetryDeployments /\ request[c] = "checked"
    /\ event' = [event EXCEPT !.status = "DEPLOYMENT_QUEUED"]
    /\ Enqueue(deploy)
    /\ Answer(c, "done")
    /\ UNCHANGED <<slot, runVars, txs, envVars, budgets>>

Crash(w) ==
    /\ crashes < MaxCrashes
    /\ Die(w) /\ Cleanup
    /\ crashes' = crashes + 1
    /\ rebuilt' = (rebuilt \/ \E s \in Slots : WorkerOf[s] = w /\ Stored(s))
    /\ UNCHANGED <<event, faults>>

Expire(j) ==
    /\ LockExpires(j)
    /\ UNCHANGED <<event, runVars, txs, envVars, request, budgets>>

Recover ==
    /\ RecoverExpired
    /\ UNCHANGED <<event, runVars, txs, envVars, request, budgets>>

Mine(n) ==
    /\ txs[n].outcome = "pending"
    /\ txs' = [txs EXCEPT ![n].outcome = IF ended THEN "reverted" ELSE "success"]
    /\ UNCHANGED <<tableVars, event, runVars, envVars, request, budgets>>

BlockConfirmed ==
    /\ safe < LastBlock
    /\ safe' = safe + 1
    /\ UNCHANGED <<tableVars, event, runVars, txs, ended, request, budgets>>

WindowEnds ==
    /\ ~ended
    /\ ended' = TRUE
    /\ UNCHANGED <<tableVars, event, runVars, txs, safe, request, budgets>>

Next ==
    \/ \E s \in Slots : Start(s) \/ Run(s) \/ Throw(s)
    \/ \E c \in Requests : \/ CheckRetrySnapshot(c) \/ CheckRetryDeployment(c)
                           \/ RetrySnapshot(c) \/ RetryDeployment(c)
    \/ \E w \in Workers : Crash(w)
    \/ \E j \in JobIds : Expire(j)
    \/ \E n \in Txs : Mine(n)
    \/ StatusPass \/ Recover \/ BlockConfirmed \/ WindowEnds

Spec == Init /\ [][Next]_vars

(***************************************************************************)
(* Fairness.  Runs go on, workers claim and recover, the indexer passes,   *)
(* requests are finished and the network mines.  Nothing is assumed of     *)
(* crashes, errors, the creator and the end of the window.                 *)
(***************************************************************************)
Fairness ==
    /\ \A s \in Slots : WF_vars(Start(s)) /\ WF_vars(Run(s))
    /\ \A c \in Requests : WF_vars(RetrySnapshot(c) \/ RetryDeployment(c))
    /\ \A j \in JobIds : WF_vars(Expire(j))
    /\ \A n \in Txs : WF_vars(Mine(n))
    /\ WF_vars(Recover) /\ WF_vars(StatusPass)

FairSpec == Spec /\ Fairness

-----------------------------------------------------------------------------
(* Properties.                                                             *)
(* Nothing keeps a stored snapshot from being built again: retrySnapshot   *)
(* does not look at the status, and a run that ends before its completion  *)
(* runs again.  What such a build breaks is the subject of                 *)
(* DeployedRootServed; the other properties speak of the runs without one. *)

(* The root the contract was deployed with is the root stored beside the   *)
(* proofs that are served: or every ballot of the event is refused.        *)
DeployedRootServed ==
    event.deployed =>
        /\ txs[event.contract].outcome = "success"
        /\ txs[event.contract].root = event.root

(* The same of an event whose stored snapshot was not built again.         *)
RootServedUnlessRebuilt == rebuilt \/ DeployedRootServed

(* README.md:5, exactly one VoteEvent contract: at most one transaction    *)
(* deploys the event or still may.                                         *)
OneContractPerEvent ==
    \/ rebuilt
    \/ \A m, n \in Txs :
            /\ txs[m].outcome \in {"pending", "success"}
            /\ txs[n].outcome \in {"pending", "success"}
            => m = n

(* The indexer passes over events with the status FAILED, so a deployed    *)
(* event never has it.                                                     *)
DeployedIsIndexed == rebuilt \/ (event.deployed => event.status # "FAILED")

(* A deployment job never meets an event without a snapshot, whatever      *)
(* retries are sent and however often the snapshot is built: deployEvent's *)
(* permanent error is unreachable.                                         *)
SnapshotBeforeDeployment ==
    \A j \in JobIds : jobs[j].key = deploy => event.root # 0

(* The contract of a deployed event is never replaced.                     *)
DeploymentIsFinal ==
    [][event.deployed =>
         \/ rebuilt
         \/ event'.deployed /\ event'.contract = event.contract]_vars

InProgress == {"SNAPSHOT_PENDING", "SNAPSHOT_RUNNING", "DEPLOYMENT_QUEUED", "DEPLOYING"}

(* An event does not stay in progress: it opens, fails or waits for the    *)
(* creator.                                                                *)
ProgressEnds ==
    event.status \in InProgress ~> (rebuilt \/ event.status \notin InProgress)
=============================================================================

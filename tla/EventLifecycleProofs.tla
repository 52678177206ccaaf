------------------------ MODULE EventLifecycleProofs ------------------------
(***************************************************************************)
(* Proofs about EventLifecycle, for any number of jobs, workers, requests, *)
(* crashes and errors: types, and that a deployment job always finds a     *)
(* snapshot, whether stored snapshots are built again or not; and, where   *)
(* they are not, that an event gets one contract, with the root that is    *)
(* served, for good.                                                       *)
(***************************************************************************)
EXTENDS EventLifecycle, JobTableProofs

USE DEF vars, tableVars, runVars, envVars, budgets

-----------------------------------------------------------------------------
(* Type correctness.                                                       *)

LEMMA KeysKnown == snapshot \in Keys /\ deploy \in Keys /\ snapshot # deploy
  BY EventAssumption

LEMMA FirstBlock == /\ Blocks \subseteq Nat /\ 1 \in Blocks /\ 0 \notin Blocks
                    /\ Txs \subseteq Nat /\ 0 \notin Txs
  BY EventAssumption DEF Blocks, Txs

LEMMA InitType == Init => TypeOK
<1> SUFFICES ASSUME Init PROVE TypeOK
  OBVIOUS
<1>1. NewRow(snapshot) \in JobRow /\ NoRow \in JobRow
  BY ZeroAttempts, KeysKnown DEF NewRow, NoRow, JobRow, JobStatus
<1>2. TableTypeOK
  BY <1>1 DEF Init, TableTypeOK, RunCopy
<1>3. event \in EventRow
  BY DEF Init, EventRow, EventStatus
<1>4. txs \in [Txs -> TxRow]
  BY DEF Init, TxRow
<1>5. crashes \in 0..MaxCrashes /\ faults \in 0..MaxFaults
  BY EventAssumption DEF Init
<1>9. ended \in BOOLEAN /\ rebuilt \in BOOLEAN
  BY DEF Init
<1>6. safe \in Blocks /\ pc \in [Slots -> Pc]
  BY FirstBlock DEF Init, Pc
<1>7. copy \in [Slots -> Blocks \cup {0}] /\ tx \in [Slots -> Txs \cup {0}]
  BY DEF Init
<1>8. request \in [Requests -> {"begin", "checked", "refused", "done"}]
  BY DEF Init
<1> QED
  BY <1>2, <1>3, <1>4, <1>5, <1>6, <1>7, <1>8, <1>9 DEF TypeOK

LEMMA RunTyped ==
  ASSUME TypeOK, NEW s \in Slots, slot[s] # Idle
  PROVE  JobOf(s) \in JobIds /\ copy[s] \in Blocks \cup {0}
  BY SlotJob DEF TypeOK, JobOf

(* A new status leaves the row typed.                                      *)
LEMMA StatusType ==
  ASSUME event \in EventRow, NEW st \in EventStatus
  PROVE  [event EXCEPT !.status = st] \in EventRow
  BY DEF EventRow

LEMMA LifecycleType == Lifecycle \in EventStatus
  BY DEF Lifecycle, EventStatus

LEMMA FailedType ==
  ASSUME event \in EventRow, NEW k
  PROVE  FailedEvent(k) \in EventRow
  BY DEF FailedEvent, EventRow, EventStatus

LEMMA CleanupType ==
  ASSUME TypeOK, Cleanup, TableTypeOK', event' \in EventRow,
         rebuilt' \in BOOLEAN, crashes' \in 0..MaxCrashes, faults' \in 0..MaxFaults
  PROVE  TypeOK'
<1>1. pc' \in [Slots -> Pc] /\ copy' \in [Slots -> Blocks \cup {0}] /\ tx' \in [Slots -> Txs \cup {0}]
  BY DEF TypeOK, Cleanup, Pc
<1> QED
  BY <1>1 DEF TypeOK, Cleanup

LEMMA EndsType ==
  ASSUME TypeOK, NEW s \in Slots, Finish(s) \/ Transient(s) \/ Permanent(s),
         rebuilt' \in BOOLEAN, crashes' \in 0..MaxCrashes, faults' \in 0..MaxFaults
  PROVE  TypeOK'
<1>1. TableTypeOK'
  BY EndRunType DEF Finish, Transient, Permanent, TypeOK
<1>2. event' \in EventRow
  BY FailedType DEF Finish, Transient, Permanent, TypeOK
<1>3. Cleanup
  BY DEF Finish, Transient, Permanent
<1> QED
  BY <1>1, <1>2, <1>3, CleanupType

(* A step of a run that goes on.                                           *)
LEMMA AwaitType ==
  ASSUME TypeOK, NEW s \in Slots, NEW label \in Pc, Goto(s, label), UNCHANGED slot,
         jobs' \in [JobIds -> JobRow], event' \in EventRow,
         copy' \in [Slots -> Blocks \cup {0}], tx' \in [Slots -> Txs \cup {0}],
         txs' \in [Txs -> TxRow], UNCHANGED <<envVars, request, budgets>>
  PROVE  TypeOK'
  BY DEF TypeOK, TableTypeOK, Goto

LEMMA RunStepType ==
  ASSUME TypeOK, NEW s \in Slots, Run(s)
  PROVE  TypeOK'
<1> USE DEF Pc
<1>1. crashes \in 0..MaxCrashes /\ faults \in 0..MaxFaults /\ UNCHANGED budgets
  BY DEF TypeOK, Run, BuildLoad, BuildMark, BuildResolve, StoreSnapshot, DeployLoad,
         PrepareExisting, PrepareNew, PrepareRefused, Await, Finalize, RunCompletes
<1>2. CASE Finish(s) \/ Transient(s) \/ Permanent(s)
  <2>1. rebuilt' \in BOOLEAN
    BY <1>1 DEF budgets, TypeOK
  <2>2. crashes' \in 0..MaxCrashes /\ faults' \in 0..MaxFaults
    BY <1>1 DEF budgets
  <2> QED
    BY <1>2, <2>1, <2>2, EndsType
<1>3. CASE BuildLoad(s) \/ DeployLoad(s)
  <2>1. CASE \/ Goto(s, "mark") /\ UNCHANGED <<tableVars, event, copy, tx, txs, envVars, request>>
             \/ /\ copy' = [copy EXCEPT ![s] = event.root] /\ Goto(s, "prepare")
                /\ UNCHANGED <<tableVars, event, tx, txs, envVars, request>>
    <3>1. copy' \in [Slots -> Blocks \cup {0}]
      BY <2>1 DEF TypeOK, EventRow
    <3> QED
      BY <1>1, <2>1, <3>1, AwaitType DEF TypeOK, TableTypeOK
  <2> QED
    BY <1>2, <1>3, <2>1 DEF BuildLoad, DeployLoad
<1>4. CASE BuildMark(s)
  BY <1>4, AwaitType, StatusType DEF BuildMark, TypeOK, TableTypeOK, EventStatus
<1>5. CASE BuildResolve(s)
  <2>1. copy' \in [Slots -> Blocks \cup {0}]
    BY <1>5 DEF BuildResolve, TypeOK
  <2> QED
    BY <1>5, <2>1, AwaitType DEF BuildResolve, TypeOK, TableTypeOK
<1>6. CASE StoreSnapshot(s)
  <2>1. jobs' \in [JobIds -> JobRow]
    BY <1>6, KeysKnown, InsertType DEF StoreSnapshot, TypeOK, TableTypeOK
  <2>2. event' \in EventRow
    BY <1>6, RunTyped DEF StoreSnapshot, At, TypeOK, EventRow, EventStatus
  <2> QED
    BY <1>6, <2>1, <2>2, AwaitType DEF StoreSnapshot, TypeOK
<1>7. CASE PrepareExisting(s)
  <2>1. tx' \in [Slots -> Txs \cup {0}]
    BY <1>7 DEF PrepareExisting, LiveTxs, TypeOK
  <2> QED
    BY <1>7, <2>1, AwaitType DEF PrepareExisting, TypeOK, TableTypeOK
<1>8. CASE PrepareNew(s)
  <2>1. PICK n \in Txs :
          /\ txs' = [txs EXCEPT ![n] = [job |-> JobOf(s), root |-> copy[s],
                                        outcome |-> "pending"]]
          /\ tx' = [tx EXCEPT ![s] = n]
          /\ event' = [event EXCEPT !.status = "DEPLOYING", !.contract = n]
    BY <1>8 DEF PrepareNew
  <2>2. txs' \in [Txs -> TxRow] /\ tx' \in [Slots -> Txs \cup {0}]
    BY <1>8, <2>1, RunTyped DEF PrepareNew, At, TypeOK, TxRow
  <2>3. event' \in EventRow
    BY <2>1 DEF TypeOK, EventRow, EventStatus
  <2> QED
    BY <1>8, <2>2, <2>3, AwaitType DEF PrepareNew, TypeOK, TableTypeOK
<1>9. CASE PrepareRefused(s) \/ RunCompletes(s)
  BY <1>2, <1>9 DEF PrepareRefused, RunCompletes
<1>10. CASE Await(s)
  <2>1. txs' \in [Txs -> TxRow]
    BY <1>10 DEF Await, TypeOK, TxRow
  <2> QED
    BY <1>10, <2>1, AwaitType DEF Await, TypeOK, TableTypeOK
<1>11. CASE Finalize(s)
  <2>1. CASE /\ event' = [event EXCEPT !.contract = tx[s], !.deployed = TRUE, !.status = Lifecycle]
             /\ Goto(s, "complete") /\ UNCHANGED <<tableVars, copy, tx, txs, envVars, request>>
    <3>1. event' \in EventRow
      BY <2>1, LifecycleType DEF TypeOK, EventRow
    <3> QED
      BY <1>1, <2>1, <3>1, AwaitType DEF TypeOK, TableTypeOK
  <2> QED
    BY <1>2, <1>11, <2>1 DEF Finalize
<1> QED
  BY <1>3, <1>4, <1>5, <1>6, <1>7, <1>8, <1>9, <1>10, <1>11 DEF Run

LEMMA EnqueueType ==
  ASSUME TypeOK, NEW k \in Keys, Enqueue(k)
  PROVE  jobs' \in [JobIds -> JobRow]
<1>1. TableTypeOK
  BY DEF TypeOK
<1>2. CASE \E j \in JobIds : Requeue(j)
  BY <1>1, <1>2, RequeueType
<1>3. CASE Insert(k)
  BY <1>1, <1>3, InsertType
<1>4. CASE UNCHANGED jobs
  BY <1>1, <1>4 DEF TableTypeOK
<1> QED
  BY <1>2, <1>3, <1>4 DEF Enqueue, FailedRows

LEMMA RequestType ==
  ASSUME TypeOK, NEW c \in Requests,
         \/ CheckRetrySnapshot(c) \/ CheckRetryDeployment(c)
         \/ RetrySnapshot(c) \/ RetryDeployment(c)
  PROVE  TypeOK'
<1>1. request' \in [Requests -> {"begin", "checked", "refused", "done"}]
  BY DEF CheckRetrySnapshot, CheckRetryDeployment, RetrySnapshot, RetryDeployment, Answer, TypeOK
<1>2. event' \in EventRow
  BY StatusType DEF CheckRetrySnapshot, CheckRetryDeployment, RetrySnapshot, RetryDeployment,
                    TypeOK, EventStatus
<1>3. jobs' \in [JobIds -> JobRow]
  BY EnqueueType, KeysKnown
     DEF CheckRetrySnapshot, CheckRetryDeployment, RetrySnapshot, RetryDeployment, TypeOK, TableTypeOK
<1> QED
  BY <1>1, <1>2, <1>3
     DEF CheckRetrySnapshot, CheckRetryDeployment, RetrySnapshot, RetryDeployment, TypeOK, TableTypeOK

LEMMA OtherType ==
  ASSUME TypeOK, StatusPass \/ BlockConfirmed \/ WindowEnds \/ (\E n \in Txs : Mine(n))
  PROVE  TypeOK'
<1>1. CASE StatusPass
  BY <1>1, StatusType, LifecycleType DEF StatusPass, TypeOK, TableTypeOK
<1>2. CASE BlockConfirmed
  <2>1. safe' \in Blocks
    BY <1>2, EventAssumption DEF BlockConfirmed, TypeOK, Blocks
  <2> QED
    BY <1>2, <2>1 DEF BlockConfirmed, TypeOK, TableTypeOK
<1>3. CASE WindowEnds
  BY <1>3 DEF WindowEnds, TypeOK, TableTypeOK
<1>4. ASSUME NEW n \in Txs, Mine(n) PROVE TypeOK'
  <2>1. txs' \in [Txs -> TxRow]
    BY <1>4 DEF Mine, TypeOK, TxRow
  <2> QED
    BY <1>4, <2>1 DEF Mine, TypeOK, TableTypeOK
<1> QED
  BY <1>1, <1>2, <1>3, <1>4

LEMMA BudgetCounts ==
  ASSUME TypeOK
  PROVE  /\ faults < MaxFaults => faults + 1 \in 0..MaxFaults
         /\ crashes < MaxCrashes => crashes + 1 \in 0..MaxCrashes
  BY EventAssumption DEF TypeOK

LEMMA NextType == TypeOK /\ [Next]_vars => TypeOK'
<1> SUFFICES ASSUME TypeOK, [Next]_vars PROVE TypeOK'
  OBVIOUS
<1>1. CASE UNCHANGED vars
  BY <1>1 DEF TypeOK, TableTypeOK
<1>2. ASSUME NEW s \in Slots, Start(s) PROVE TypeOK'
  <2>1. TableTypeOK'
    BY <1>2, RunType DEF Start, TypeOK
  <2> QED
    BY <1>2, <2>1 DEF Start, Goto, TypeOK, Pc
<1>3. ASSUME NEW s \in Slots, Throw(s) PROVE TypeOK'
  <2>1. rebuilt' \in BOOLEAN /\ crashes' \in 0..MaxCrashes /\ faults' \in 0..MaxFaults
    BY <1>3, BudgetCounts DEF Throw, TypeOK
  <2> QED
    BY <1>3, <2>1, EndsType DEF Throw
<1>4. ASSUME NEW w \in Workers, Crash(w) PROVE TypeOK'
  <2>1. TableTypeOK'
    BY <1>4, DieType DEF Crash, TypeOK, TableTypeOK
  <2>2. /\ rebuilt' \in BOOLEAN /\ event' \in EventRow
        /\ crashes' \in 0..MaxCrashes /\ faults' \in 0..MaxFaults
    BY <1>4, BudgetCounts DEF Crash, TypeOK
  <2> QED
    BY <1>4, <2>1, <2>2, CleanupType DEF Crash
<1>5. ASSUME NEW j \in JobIds, Expire(j) PROVE TypeOK'
  <2>1. TableTypeOK'
    BY <1>5, LockType DEF Expire, TypeOK
  <2> QED
    BY <1>5, <2>1 DEF Expire, TypeOK
<1>6. CASE Recover
  <2>1. TableTypeOK'
    BY <1>6, RecoverType DEF Recover, TypeOK
  <2> QED
    BY <1>6, <2>1 DEF Recover, TypeOK
<1> QED
  BY <1>1, <1>2, <1>3, <1>4, <1>5, <1>6, RunStepType, RequestType, OtherType DEF Next

(* Types, for any instance.                                                *)
THEOREM LifecycleTypeCorrect == Spec => []TypeOK
  BY InitType, NextType, PTL DEF Spec

-----------------------------------------------------------------------------
(* A deployment job always finds a snapshot.                               *)

(* What it rests on: a snapshot is never taken back (SnapshotStays), the   *)
(* block a build stores is a real one, and a retry that passed its check   *)
(* saw a snapshot.                                                         *)
SnapshotKnown ==
    /\ \A s \in Slots : pc[s] = "store" => copy[s] # 0
    /\ \A c \in RetryDeployments : request[c] = "checked" => event.root # 0

SnapshotInv == TypeOK /\ SnapshotKnown /\ SnapshotBeforeDeployment

KeysStay == \A j \in JobIds : jobs'[j].key = jobs[j].key

SnapshotStays == event.root # 0 => event'.root # 0

LEMMA RowKey ==
  ASSUME TableTypeOK, NEW j \in JobIds
  PROVE  jobs[j] \in JobRow
  BY DEF TableTypeOK

(* No statement but an INSERT writes a key.                                *)
LEMMA SettleKeys ==
  ASSUME TableTypeOK, NEW i \in JobIds, NEW st, Settle(i, st)
  PROVE  KeysStay
  BY RowKey DEF Settle, KeysStay, TableTypeOK, JobRow

LEMMA EndKeys ==
  ASSUME TableTypeOK, NEW s \in Slots, EndsRun(s)
  PROVE  KeysStay
<1>1. slot[s].job \in JobIds
  BY SlotJob DEF EndsRun, Complete, FailRetry, FailFinal
<1>2. CASE \E st : Settle(slot[s].job, st)
  BY <1>1, <1>2, SettleKeys
<1>3. CASE UNCHANGED jobs
  BY <1>3 DEF KeysStay
<1> QED
  BY <1>2, <1>3 DEF EndsRun, Complete, FailRetry, FailFinal, Die

LEMMA ClaimKeys ==
  ASSUME TableTypeOK, NEW s \in Slots, Claim(s)
  PROVE  KeysStay
<1>1. PICK j \in JobIds : jobs' = [jobs EXCEPT ![j] =
        [jobs[j] EXCEPT !.status = "RUNNING", !.attempts = Bump(jobs[j].attempts),
                        !.lockedBy = WorkerOf[s], !.fresh = TRUE]]
  BY DEF Claim
<1> QED
  BY <1>1, RowKey DEF TableTypeOK, JobRow, KeysStay

LEMMA LockKeys ==
  ASSUME TableTypeOK, (\E j \in JobIds : LockExpires(j)) \/ RecoverExpired
  PROVE  KeysStay
<1>1. CASE \E j \in JobIds : LockExpires(j)
  BY <1>1, RowKey DEF LockExpires, TableTypeOK, JobRow, KeysStay
<1>2. CASE RecoverExpired
  <2> SUFFICES ASSUME NEW j \in JobIds PROVE jobs'[j].key = jobs[j].key
    BY DEF KeysStay
  <2> QED
    BY <1>2, RowKey DEF RecoverExpired, JobRow
<1> QED
  BY <1>1, <1>2

LEMMA RequeueKeys ==
  ASSUME TableTypeOK, NEW i \in JobIds, Requeue(i)
  PROVE  KeysStay
  BY RowKey DEF Requeue, KeysStay, TableTypeOK, JobRow

LEMMA InsertKeys ==
  ASSUME TableTypeOK, NEW k, Insert(k)
  PROVE  \A j \in JobIds : jobs'[j].key = jobs[j].key \/ jobs'[j].key = k
  BY RowKey DEF Insert, NewRow, NoRow, TableTypeOK, JobRow

LEMMA EnqueueKeys ==
  ASSUME TableTypeOK, NEW k, Enqueue(k)
  PROVE  \A j \in JobIds : jobs'[j].key = jobs[j].key \/ jobs'[j].key = k
<1>1. CASE \E j \in JobIds : Requeue(j)
  BY <1>1, RequeueKeys DEF KeysStay
<1> QED
  BY <1>1, InsertKeys DEF Enqueue, FailedRows

(* A step that writes no new key and no block to store.                    *)
LEMMA SnapshotKept ==
  ASSUME SnapshotInv, KeysStay, SnapshotStays, UNCHANGED request,
         \A s \in Slots : pc'[s] = "store" => copy'[s] # 0
  PROVE  SnapshotKnown' /\ SnapshotBeforeDeployment'
  BY DEF SnapshotInv, SnapshotKnown, SnapshotBeforeDeployment, KeysStay, SnapshotStays

LEMMA FailedKeepsRoot ==
  ASSUME TypeOK, NEW k, event' = FailedEvent(k)
  PROVE  SnapshotStays
  BY DEF FailedEvent, SnapshotStays, TypeOK, EventRow

(* A run that ends.                                                        *)
LEMMA EndsSnapshot ==
  ASSUME SnapshotInv, NEW s \in Slots, Finish(s) \/ Transient(s) \/ Permanent(s)
  PROVE  SnapshotKnown' /\ SnapshotBeforeDeployment'
<1>1. EndsRun(s) /\ Cleanup
  BY DEF Finish, Transient, Permanent, EndsRun
<1>2. KeysStay
  BY <1>1, EndKeys DEF SnapshotInv, TypeOK
<1>3. SnapshotStays
  BY FailedKeepsRoot DEF Finish, Transient, Permanent, SnapshotStays, SnapshotInv
<1>4. \A t \in Slots : pc'[t] = "store" => copy'[t] # 0
  BY <1>1 DEF Cleanup, SnapshotInv, SnapshotKnown
<1>5. UNCHANGED request
  BY <1>1 DEF Cleanup
<1> QED
  BY <1>2, <1>3, <1>4, <1>5, SnapshotKept

(* A step of a run that goes on: its pc and its copy are all of it.        *)
LEMMA GoesOn ==
  ASSUME SnapshotInv, NEW s \in Slots, NEW label, Goto(s, label),
         \A t \in Slots \ {s} : copy'[t] = copy[t],
         label = "store" => copy'[s] # 0
  PROVE  \A t \in Slots : pc'[t] = "store" => copy'[t] # 0
  BY DEF Goto, SnapshotInv, SnapshotKnown, TypeOK

LEMMA RunSnapshot ==
  ASSUME SnapshotInv, NEW s \in Slots, Run(s)
  PROVE  SnapshotKnown' /\ SnapshotBeforeDeployment'
<1>1. CASE Finish(s) \/ Transient(s) \/ Permanent(s)
  BY <1>1, EndsSnapshot
<1>2. CASE StoreSnapshot(s)
  <2>1. copy[s] # 0 /\ event'.root = copy[s]
    BY <1>2 DEF StoreSnapshot, At, SnapshotInv, SnapshotKnown, TypeOK, EventRow
  <2>2. SnapshotKnown'
    BY <1>2, <2>1 DEF StoreSnapshot, Goto, SnapshotInv, SnapshotKnown, TypeOK
  <2> QED
    BY <2>1, <2>2 DEF SnapshotBeforeDeployment
<1>3. CASE ~StoreSnapshot(s) /\ ~(Finish(s) \/ Transient(s) \/ Permanent(s))
  <2>1. UNCHANGED <<tableVars, request>> /\ SnapshotStays
    BY <1>3 DEF Run, BuildLoad, BuildMark, BuildResolve, DeployLoad, PrepareExisting, PrepareNew,
                PrepareRefused, Await, Finalize, RunCompletes, SnapshotStays, SnapshotInv, TypeOK,
                EventRow
  <2>2. \A t \in Slots : pc'[t] = "store" => copy'[t] # 0
    <3>1. CASE BuildResolve(s)
      <4>1. copy'[s] # 0 /\ \A t \in Slots \ {s} : copy'[t] = copy[t]
        BY <3>1, FirstBlock DEF BuildResolve, SnapshotInv, TypeOK
      <4> QED
        BY <3>1, <4>1, GoesOn DEF BuildResolve
    <3>2. CASE ~BuildResolve(s)
      <4>1. \A t \in Slots \ {s} : copy'[t] = copy[t]
        BY <1>3, <3>2 DEF Run, BuildLoad, BuildMark, DeployLoad, PrepareExisting, PrepareNew,
                PrepareRefused, Await, Finalize, RunCompletes, SnapshotInv, TypeOK
      <4>2. \E label \in {"mark", "resolve", "prepare", "await", "finalize", "complete"} :
              Goto(s, label)
        BY <1>3, <3>2 DEF Run, BuildLoad, BuildMark, DeployLoad, PrepareExisting, PrepareNew,
                PrepareRefused, Await, Finalize, RunCompletes
      <4> QED
        BY <4>1, <4>2, GoesOn
    <3> QED
      BY <3>1, <3>2
  <2>3. KeysStay
    BY <2>1 DEF KeysStay
  <2> QED
    BY <2>1, <2>2, <2>3, SnapshotKept
<1> QED
  BY <1>1, <1>2, <1>3

LEMMA RequestSnapshot ==
  ASSUME SnapshotInv, NEW c \in Requests,
         \/ CheckRetrySnapshot(c) \/ CheckRetryDeployment(c)
         \/ RetrySnapshot(c) \/ RetryDeployment(c)
  PROVE  SnapshotKnown' /\ SnapshotBeforeDeployment'
<1>1. CASE CheckRetrySnapshot(c) \/ CheckRetryDeployment(c)
  <2>1. UNCHANGED <<jobs, event, pc, copy>>
    BY <1>1 DEF CheckRetrySnapshot, CheckRetryDeployment
  <2>2. \A r \in RetryDeployments :
          request'[r] = "checked" => request[r] = "checked" \/ event.root # 0
    BY <1>1, EventAssumption DEF CheckRetrySnapshot, CheckRetryDeployment, Answer,
       ReadyForDeployment, SnapshotInv, TypeOK, Requests
  <2> QED
    BY <2>1, <2>2 DEF SnapshotInv, SnapshotKnown, SnapshotBeforeDeployment
<1>2. CASE RetrySnapshot(c) \/ RetryDeployment(c)
  <2>1. UNCHANGED <<pc, copy>> /\ event'.root = event.root
    BY <1>2 DEF RetrySnapshot, RetryDeployment, SnapshotInv, TypeOK, EventRow
  <2>2. \A r \in RetryDeployments : request'[r] = "checked" => request[r] = "checked"
    BY <1>2 DEF RetrySnapshot, RetryDeployment, Answer, SnapshotInv, TypeOK, Requests
  <2>3. SnapshotKnown'
    BY <2>1, <2>2 DEF SnapshotInv, SnapshotKnown
  <2>4. CASE RetrySnapshot(c)
    <3>1. \A j \in JobIds : jobs'[j].key = jobs[j].key \/ jobs'[j].key = snapshot
      BY <2>4, EnqueueKeys DEF RetrySnapshot, SnapshotInv, TypeOK
    <3> QED
      BY <2>1, <2>3, <3>1, KeysKnown DEF SnapshotInv, SnapshotBeforeDeployment
  <2>5. CASE RetryDeployment(c)
    <3>1. event.root # 0
      BY <2>5 DEF RetryDeployment, SnapshotInv, SnapshotKnown
    <3> QED
      BY <2>1, <2>3, <3>1 DEF SnapshotBeforeDeployment
  <2> QED
    BY <1>2, <2>4, <2>5
<1> QED
  BY <1>1, <1>2

LEMMA NextSnapshot == SnapshotInv /\ [Next]_vars => SnapshotInv'
<1> SUFFICES ASSUME SnapshotInv, [Next]_vars
             PROVE  SnapshotKnown' /\ SnapshotBeforeDeployment'
  BY NextType DEF SnapshotInv
<1>1. CASE UNCHANGED vars
  BY <1>1 DEF SnapshotInv, SnapshotKnown, SnapshotBeforeDeployment
<1>2. ASSUME NEW s \in Slots, Start(s) PROVE SnapshotKnown' /\ SnapshotBeforeDeployment'
  <2>1. KeysStay
    BY <1>2, ClaimKeys DEF Start, SnapshotInv, TypeOK
  <2>2. \A t \in Slots : pc'[t] = "store" => copy'[t] # 0
    BY <1>2, GoesOn DEF Start
  <2> QED
    BY <1>2, <2>1, <2>2, SnapshotKept DEF Start, SnapshotStays
<1>3. ASSUME NEW s \in Slots, Throw(s) PROVE SnapshotKnown' /\ SnapshotBeforeDeployment'
  BY <1>3, EndsSnapshot DEF Throw
<1>4. ASSUME NEW w \in Workers, Crash(w) PROVE SnapshotKnown' /\ SnapshotBeforeDeployment'
  <2>1. KeysStay
    BY <1>4 DEF Crash, Die, KeysStay
  <2>2. \A t \in Slots : pc'[t] = "store" => copy'[t] # 0
    BY <1>4 DEF Crash, Cleanup, SnapshotInv, SnapshotKnown
  <2> QED
    BY <1>4, <2>1, <2>2, SnapshotKept DEF Crash, Cleanup, SnapshotStays
<1>5. CASE Recover \/ \E j \in JobIds : Expire(j)
  <2>1. KeysStay
    BY <1>5, LockKeys DEF Recover, Expire, SnapshotInv, TypeOK
  <2> QED
    BY <1>5, <2>1, SnapshotKept DEF Recover, Expire, SnapshotStays, SnapshotInv, SnapshotKnown
<1>6. CASE StatusPass \/ BlockConfirmed \/ WindowEnds \/ \E n \in Txs : Mine(n)
  <2>1. UNCHANGED <<jobs, pc, copy, request>>
    BY <1>6 DEF StatusPass, BlockConfirmed, WindowEnds, Mine
  <2>2. event'.root = event.root
    BY <1>6 DEF StatusPass, BlockConfirmed, WindowEnds, Mine, SnapshotInv, TypeOK, EventRow
  <2> QED
    BY <2>1, <2>2 DEF SnapshotInv, SnapshotKnown, SnapshotBeforeDeployment
<1> QED
  BY <1>1, <1>2, <1>3, <1>4, <1>5, <1>6, RunSnapshot, RequestSnapshot DEF Next

LEMMA InitSnapshot == Init => SnapshotInv
<1> SUFFICES ASSUME Init PROVE SnapshotKnown /\ SnapshotBeforeDeployment
  BY InitType DEF SnapshotInv
<1>1. \A j \in JobIds : jobs[j].key \in {snapshot, None}
  BY DEF Init, NewRow, NoRow
<1>2. deploy \notin {snapshot, None}
  BY KeysKnown, JobTableAssumption
<1>3. \A c \in RetryDeployments : request[c] = "begin"
  BY DEF Init, Requests
<1> QED
  BY <1>1, <1>2, <1>3 DEF Init, SnapshotKnown, SnapshotBeforeDeployment

(* A DEPLOY_EVENT job never meets an event without a snapshot, whichever   *)
(* retries are sent and however often snapshots are built again.           *)
THEOREM SnapshotFirst == Spec => []SnapshotBeforeDeployment
<1>1. SnapshotInv => SnapshotBeforeDeployment
  BY DEF SnapshotInv
<1> QED
  BY <1>1, InitSnapshot, NextSnapshot, PTL DEF Spec

-----------------------------------------------------------------------------
(* One contract, with the root that is served, where a stored snapshot is  *)
(* not built again.                                                        *)

Deploying(s) == pc[s] \in {"prepare", "await", "finalize"}

Labelled(s) ==
    /\ slot[s] = Idle <=> pc[s] = "idle"
    /\ pc[s] \in {"mark", "resolve", "store"} => KeyOfRun(s) = snapshot
    /\ Deploying(s) => KeyOfRun(s) = deploy

(* A run of the snapshot's row is at its end exactly when a root is stored. *)
BuildRun(s) == slot[s].job = 1 => (pc[s] = "complete" <=> event.root # 0)

(* The one snapshot row: it stores a root once, and is finished after.     *)
BuiltOnce ==
    /\ \A j \in JobIds : jobs[j].key = snapshot <=> j = 1
    /\ jobs[1].status # "ABSENT"
    /\ event.root # 0 => jobs[1].status = "COMPLETED" \/ \E s \in Slots : slot[s].job = 1
    /\ jobs[1].status = "COMPLETED" => event.root # 0
    /\ event.status = "FAILED" => event.root = 0 /\ jobs[1].status = "FAILED"
    /\ event.contract # 0 => event.root # 0

(* A run that deploys does so with the root in the row.                    *)
DeployRun(s) ==
    /\ Deploying(s) => ~event.deployed /\ event.root # 0 /\ copy[s] = event.root
    /\ At(s, deploy, "complete") => event.deployed
    /\ pc[s] \in {"await", "finalize"} => tx[s] \in Txs /\ txs[tx[s]].outcome # "none"
    /\ pc[s] = "finalize" => txs[tx[s]].outcome \in {"success", "closed"}

(* Until the event is deployed it has one deployment job.                  *)
DeployRows ==
    /\ ~event.deployed => \A i, j \in JobIds :
                             jobs[i].key = deploy /\ jobs[j].key = deploy => i = j
    /\ \A j \in JobIds : jobs[j].key = deploy /\ jobs[j].status = "COMPLETED" => event.deployed

TxKnown(n) ==
    IF txs[n].outcome = "none" THEN txs[n].job = 0
    ELSE /\ event.root # 0 /\ txs[n].root = event.root
         /\ txs[n].job \in JobIds /\ jobs[txs[n].job].key = deploy

Live(n) == txs[n].outcome \notin {"none", "closed"}

OneLive == \A m, n \in Txs : Live(m) /\ Live(n) => m = n

DeployedKnown ==
    event.deployed => event.contract \in Txs /\ txs[event.contract].outcome = "success"

DeployedOnce ==
    /\ DeployRows /\ OneLive /\ DeployedKnown
    /\ \A n \in Txs : TxKnown(n)

RunOK(s) == Labelled(s) /\ BuildRun(s) /\ DeployRun(s)

LifeInv ==
    /\ SnapshotInv /\ TableHeld
    /\ \A s \in Slots : RunOK(s)
    /\ BuiltOnce /\ DeployedOnce

LEMMA FirstRow == 1 \in JobIds /\ None # 1 /\ 0 \notin JobIds /\ deploy # None /\ snapshot # None
  BY EventAssumption, JobTableAssumption

LEMMA RowOne ==
  ASSUME LifeInv, NEW s \in Slots, slot[s] # Idle
  PROVE  slot[s].job \in JobIds /\ (slot[s].job = 1 <=> KeyOfRun(s) = snapshot)
  BY SlotJob DEF LifeInv, TableHeld, BuiltOnce, KeyOfRun, JobOf

(* The table.                                                              *)

LEMMA EnqueueTable ==
  ASSUME TableHeld, NEW k \in Keys, Enqueue(k), UNCHANGED slot
  PROVE  TableHeld'
<1>1. CASE UNCHANGED jobs
  BY <1>1 DEF TableHeld, TableTypeOK, RowHeld, RunApart, KeysUnique, AbsentKeyless, Active, Idle,
              RunCopy
<1>2. CASE ActiveRows(k) = {} /\ \E j \in FailedRows(k) : Requeue(j)
  BY <1>2, RequeueTable DEF FailedRows
<1>3. CASE ActiveRows(k) = {} /\ Insert(k)
  BY <1>3, InsertTable
<1> QED
  BY <1>1, <1>2, <1>3 DEF Enqueue

LEMMA SameTable ==
  ASSUME TableHeld, UNCHANGED <<jobs, slot>>
  PROVE  TableHeld'
  BY DEF TableHeld, TableTypeOK, RowHeld, RunApart, KeysUnique, AbsentKeyless, Active, Idle, RunCopy

LEMMA NextTable ==
  ASSUME TableHeld, [Next]_vars
  PROVE  TableHeld'
<1>1. CASE UNCHANGED <<jobs, slot>>
  BY <1>1, SameTable
<1>2. ASSUME NEW s \in Slots, EndsRun(s) PROVE TableHeld'
  BY <1>2, EndTable
<1>3. ASSUME NEW s \in Slots, Start(s) \/ Throw(s) PROVE TableHeld'
  BY <1>2, <1>3, ClaimTable DEF Start, Throw, Transient, Permanent, EndsRun
<1>4. ASSUME NEW s \in Slots, Run(s) PROVE TableHeld'
  <2>1. CASE StoreSnapshot(s)
    <3>1. CASE ActiveRows(deploy) = {} /\ Insert(deploy)
      BY <2>1, <3>1, InsertTable, KeysKnown DEF StoreSnapshot
    <3> QED
      BY <1>1, <2>1, <3>1 DEF StoreSnapshot
  <2>2. CASE ~StoreSnapshot(s)
    BY <1>1, <1>2, <1>4, <2>2
       DEF Run, BuildLoad, BuildMark, BuildResolve, DeployLoad, PrepareExisting, PrepareNew,
           PrepareRefused, Await, Finalize, RunCompletes, Finish, Transient, Permanent, EndsRun
  <2> QED
    BY <2>1, <2>2
<1>5. ASSUME NEW c \in Requests,
             \/ CheckRetrySnapshot(c) \/ CheckRetryDeployment(c)
             \/ RetrySnapshot(c) \/ RetryDeployment(c)
      PROVE  TableHeld'
  BY <1>1, <1>5, EnqueueTable, KeysKnown
     DEF CheckRetrySnapshot, CheckRetryDeployment, RetrySnapshot, RetryDeployment
<1>6. ASSUME NEW w \in Workers, Crash(w) PROVE TableHeld'
  BY <1>6, DieTable DEF Crash
<1>7. CASE Recover \/ \E j \in JobIds : Expire(j)
  BY <1>7, LockTable DEF Recover, Expire
<1>8. CASE StatusPass \/ BlockConfirmed \/ WindowEnds \/ \E n \in Txs : Mine(n)
  BY <1>1, <1>8 DEF StatusPass, BlockConfirmed, WindowEnds, Mine
<1> QED
  BY <1>1, <1>3, <1>4, <1>5, <1>6, <1>7, <1>8 DEF Next

-----------------------------------------------------------------------------
(* What a step leaves alone.                                               *)

SlotKept(t) == /\ slot'[t] = slot[t] /\ pc'[t] = pc[t]
               /\ copy'[t] = copy[t] /\ tx'[t] = tx[t]

SlotFreed(t) == slot'[t] = Idle /\ pc'[t] = "idle"

RowsKept == \A j \in JobIds : jobs[j].status # "ABSENT" => jobs'[j].key = jobs[j].key

RootKept == event'.root = event.root /\ event'.deployed = event.deployed

TxsForward ==
    \A n \in Txs :
        /\ txs[n].outcome # "none" => txs'[n].outcome # "none"
        /\ txs[n].outcome \in {"success", "closed"} => txs'[n].outcome = txs[n].outcome

LEMMA QuietSlot ==
  ASSUME LifeInv, NEW t \in Slots, SlotKept(t) \/ SlotFreed(t), RowsKept, RootKept, TxsForward
  PROVE  RunOK(t)'
<1>1. CASE SlotFreed(t)
  BY <1>1, FirstRow
     DEF SlotFreed, RunOK, Labelled, BuildRun, DeployRun, Deploying, At, Idle
<1>2. CASE SlotKept(t) /\ slot[t] = Idle
  BY <1>2, FirstRow
     DEF SlotKept, LifeInv, RunOK, Labelled, BuildRun, DeployRun, Deploying, At, Idle
<1>3. CASE SlotKept(t) /\ slot[t] # Idle
  <2>1. slot[t].job \in JobIds /\ jobs[slot[t].job].status = "RUNNING"
    BY <1>3, SlotJob DEF LifeInv, TableHeld, RowHeld
  <2>2. KeyOfRun(t)' = KeyOfRun(t) /\ slot'[t] = slot[t] /\ pc'[t] = pc[t]
    BY <1>3, <2>1 DEF KeyOfRun, JobOf, SlotKept, RowsKept
  <2>3. Labelled(t)' /\ BuildRun(t)'
    BY <1>3, <2>2 DEF LifeInv, RunOK, Labelled, BuildRun, Deploying, RootKept, Idle
  <2>4. DeployRun(t)
    BY DEF LifeInv, RunOK
  <2>5. DeployRun(t)'
    BY <1>3, <2>2, <2>4 DEF DeployRun, Deploying, RootKept, SlotKept, At, TxsForward, Idle
  <2> QED
    BY <2>3, <2>5 DEF RunOK
<1> QED
  BY <1>1, <1>2, <1>3

LEMMA QuietDeployed ==
  ASSUME LifeInv, KeysStay, NoneCompleted, RootKept,
         event'.contract = event.contract, UNCHANGED txs
  PROVE  DeployedOnce'
<1>1. DeployRows'
  BY DEF LifeInv, DeployedOnce, DeployRows, KeysStay, NoneCompleted, RootKept
<1>2. OneLive' /\ DeployedKnown'
  BY DEF LifeInv, DeployedOnce, OneLive, Live, DeployedKnown, RootKept
<1>3. \A n \in Txs : TxKnown(n)'
  BY DEF LifeInv, DeployedOnce, TxKnown, KeysStay, RootKept
<1> QED
  BY <1>1, <1>2, <1>3 DEF DeployedOnce

LEMMA KeysAreRows == KeysStay => RowsKept
  BY DEF KeysStay, RowsKept

(* A step of a run that goes on and touches no row.                        *)
GoesToLabel(s, label) ==
    /\ slot[s] # Idle /\ UNCHANGED tableVars
    /\ pc' = [pc EXCEPT ![s] = label]
    /\ \A t \in Slots : t # s => copy'[t] = copy[t] /\ tx'[t] = tx[t]

LEMMA GoesToKeeps ==
  ASSUME LifeInv, NEW s \in Slots, NEW label, GoesToLabel(s, label)
  PROVE  /\ \A t \in Slots : t # s => SlotKept(t)
         /\ pc'[s] = label /\ slot'[s] = slot[s] /\ KeyOfRun(s)' = KeyOfRun(s)
         /\ KeysStay /\ RowsKept /\ NoneCompleted
  BY DEF GoesToLabel, LifeInv, SnapshotInv, TypeOK, SlotKept, KeyOfRun, JobOf, KeysStay,
         NoneCompleted, RowsKept

(* The rows of the event and of the queue after a step that only moves a   *)
(* run or writes the status.                                               *)
LEMMA QuietBuilt ==
  ASSUME LifeInv, UNCHANGED tableVars, RootKept, event'.contract = event.contract,
         event'.status # "FAILED" \/ event'.status = event.status
  PROVE  BuiltOnce'
  BY DEF LifeInv, BuiltOnce, RootKept

-----------------------------------------------------------------------------
(* Runs that end, claims, crashes and locks.                               *)

LEMMA EndKeeps ==
  ASSUME LifeInv, NEW s \in Slots, slot[s] # Idle, Cleanup,
         NEW st \in {"COMPLETED", "PENDING", "FAILED"}, RunEnded(s, st),
         event' = IF st = "FAILED" THEN FailedEvent(KeyOfRun(s)) ELSE event,
         st = "COMPLETED" => \/ pc[s] = "complete"
                             \/ KeyOfRun(s) = deploy /\ event.deployed,
         st # "COMPLETED" => ~Stored(s)
  PROVE  (\A t \in Slots : RunOK(t)') /\ BuiltOnce' /\ DeployedOnce'
<1> DEFINE j == slot[s].job
<1>1. /\ \A i \in JobIds : i # j => jobs'[i] = jobs[i]
      /\ jobs'[j].status = st /\ jobs'[j].key = jobs[j].key
      /\ slot'[s] = Idle
      /\ \A t \in Slots : t # s => slot'[t] = slot[t] /\ slot[t].job # j
  BY EndedRows DEF LifeInv
<1>2. j \in JobIds /\ jobs[j].status = "RUNNING" /\ (j = 1 <=> KeyOfRun(s) = snapshot)
  BY RowOne DEF LifeInv, TableHeld, RowHeld
<1>3. RootKept /\ event'.contract = event.contract
  BY DEF FailedEvent, RootKept, LifeInv, SnapshotInv, TypeOK, EventRow
<1>4. KeysStay /\ RowsKept
  BY <1>1 DEF KeysStay, RowsKept
<1>5. UNCHANGED txs /\ TxsForward
  BY DEF Cleanup, TxsForward
<1>6. \A t \in Slots : RunOK(t)'
  <2>1. \A t \in Slots : SlotKept(t) \/ SlotFreed(t)
    BY <1>1 DEF Cleanup, SlotKept, SlotFreed, LifeInv, RunOK, Labelled
  <2> QED
    BY <2>1, <1>3, <1>4, <1>5, QuietSlot
<1>7. RunOK(s)
  BY DEF LifeInv
<1>8. BuiltOnce'
  <2>1. BuiltOnce
    BY DEF LifeInv
  <2>2. CASE j # 1
    <3>1. jobs'[1] = jobs[1]
      BY <1>1, <2>2, FirstRow
    <3>2. event'.status = "FAILED" => event.status = "FAILED"
      BY <1>2, <2>2 DEF FailedEvent, LifeInv, SnapshotInv, TypeOK, EventRow
    <3>3. event.root # 0 => jobs[1].status = "COMPLETED" \/ \E t \in Slots : slot'[t].job = 1
      <4>1. \A t \in Slots : slot[t].job = 1 => t # s
        BY <2>2
      <4> QED
        BY <1>1, <2>1, <4>1 DEF BuiltOnce
    <3> QED
      BY <1>3, <1>4, <2>1, <3>1, <3>2, <3>3 DEF BuiltOnce, KeysStay, RootKept
  <2>3. CASE j = 1
    <3>1. pc[s] = "complete" <=> event.root # 0
      BY <1>7, <2>3 DEF RunOK, BuildRun
    <3>2. st = "COMPLETED" <=> event.root # 0
      BY <1>2, <2>3, <3>1, KeysKnown DEF Stored, At
    <3>3. event'.status = "FAILED" => st = "FAILED"
      BY <1>2, <2>1, <2>3 DEF BuiltOnce
    <3> QED
      BY <1>1, <1>3, <1>4, <2>1, <2>3, <3>2, <3>3, FirstRow
         DEF BuiltOnce, KeysStay, RootKept
  <2> QED
    BY <2>2, <2>3
<1>9. DeployedOnce'
  <2>1. DeployRows'
    <3>1. jobs[j].key = deploy /\ st = "COMPLETED" => event.deployed
      BY <1>7 DEF RunOK, DeployRun, At, KeyOfRun, JobOf
    <3> QED
      BY <1>1, <1>2, <1>3, <1>4, <3>1
         DEF LifeInv, DeployedOnce, DeployRows, KeysStay, RootKept
  <2>2. OneLive' /\ DeployedKnown'
    BY <1>3, <1>5 DEF LifeInv, DeployedOnce, OneLive, Live, DeployedKnown, RootKept
  <2>3. \A n \in Txs : TxKnown(n)'
    BY <1>3, <1>4, <1>5 DEF LifeInv, DeployedOnce, TxKnown, KeysStay, RootKept
  <2> QED
    BY <2>1, <2>2, <2>3 DEF DeployedOnce
<1> QED
  BY <1>6, <1>8, <1>9

Rest == (\A t \in Slots : RunOK(t)) /\ BuiltOnce /\ DeployedOnce

LEMMA FinishKeeps ==
  ASSUME LifeInv, NEW s \in Slots, Finish(s),
         pc[s] = "complete" \/ (KeyOfRun(s) = deploy /\ event.deployed)
  PROVE  Rest'
<1>1. slot[s] # Idle /\ RunEnded(s, "COMPLETED")
  BY EndsHow DEF Finish, EndsRun, LifeInv
<1> QED
  BY <1>1, EndKeeps DEF Finish, Rest

LEMMA FailKeeps ==
  ASSUME LifeInv, NEW s \in Slots, Transient(s) \/ Permanent(s), ~Stored(s)
  PROVE  Rest'
<1>1. CASE Permanent(s)
  <2>1. slot[s] # Idle /\ RunEnded(s, "FAILED")
    BY <1>1, EndsHow DEF Permanent, EndsRun, LifeInv
  <2> QED
    BY <1>1, <2>1, EndKeeps DEF Permanent, Rest
<1>2. CASE FailRetry(s) /\ Cleanup /\ UNCHANGED event
  <2>1. slot[s] # Idle /\ RunEnded(s, "PENDING")
    BY <1>2, EndsHow DEF EndsRun, LifeInv
  <2> QED
    BY <1>2, <2>1, EndKeeps DEF Rest
<1> QED
  BY <1>1, <1>2 DEF Transient

(* A row is claimed: of the snapshot's only while no root is stored.       *)
LEMMA StartKeeps ==
  ASSUME LifeInv, NEW s \in Slots, Start(s)
  PROVE  Rest'
<1>1. PICK j \in JobIds :
        /\ jobs[j].status = "PENDING"
        /\ jobs' = [jobs EXCEPT ![j] =
             [jobs[j] EXCEPT !.status = "RUNNING", !.attempts = Bump(jobs[j].attempts),
                             !.lockedBy = WorkerOf[s], !.fresh = TRUE]]
        /\ slot' = [slot EXCEPT ![s] = [job |-> j, attempts |-> Bump(jobs[j].attempts)]]
  BY DEF Start, Claim
<1>2. jobs[j] \in JobRow
  BY DEF LifeInv, TableHeld, TableTypeOK
<1>3. /\ jobs'[j].status = "RUNNING" /\ jobs'[j].key = jobs[j].key
      /\ \A i \in JobIds : i # j => jobs'[i] = jobs[i]
  BY <1>1, <1>2 DEF LifeInv, TableHeld, TableTypeOK, JobRow
<1>4. KeysStay /\ RowsKept /\ NoneCompleted
  BY <1>3 DEF KeysStay, RowsKept, NoneCompleted
<1>5. RootKept /\ UNCHANGED <<event, txs>> /\ TxsForward
  BY DEF Start, RootKept, TxsForward
<1>6. slot'[s].job = j /\ slot'[s] # Idle /\ pc'[s] = "load"
  BY <1>1, JobTableAssumption
     DEF Start, Goto, LifeInv, TableHeld, TableTypeOK, SnapshotInv, TypeOK, Idle
<1>7. \A t \in Slots : t # s => SlotKept(t)
  BY <1>1 DEF Start, Goto, LifeInv, TableHeld, TableTypeOK, SnapshotInv, TypeOK, SlotKept
<1>8. RunOK(s)'
  <2>1. j = 1 => event.root = 0
    <3>1. \A t \in Slots : slot[t].job # j
      BY <1>1, JobTableAssumption DEF LifeInv, TableHeld, RowHeld, Idle
    <3> QED
      BY <1>1, <3>1 DEF LifeInv, BuiltOnce
  <2> QED
    BY <1>5, <1>6, <2>1 DEF RunOK, Labelled, BuildRun, DeployRun, Deploying, At
<1>9. BuiltOnce'
  <2>1. BuiltOnce /\ slot[s] = Idle
    BY DEF LifeInv, Start, Claim
  <2>2. \A t \in Slots : slot[t].job = 1 => slot'[t].job = 1
    BY <1>7, <2>1, FirstRow DEF SlotKept, Idle
  <2>3. jobs[1].status \in {"COMPLETED", "FAILED"} => jobs'[1] = jobs[1]
    BY <1>1, <1>3, FirstRow
  <2>4. jobs'[1].status # "ABSENT" /\ (jobs'[1].status = "COMPLETED" => jobs[1].status = "COMPLETED")
    BY <1>3, <1>4, <2>1, FirstRow DEF BuiltOnce, NoneCompleted
  <2> QED
    BY <1>4, <1>5, <2>1, <2>2, <2>3, <2>4 DEF BuiltOnce, KeysStay
<1>10. DeployedOnce'
  BY <1>4, <1>5, QuietDeployed
<1> QED
  BY <1>4, <1>5, <1>7, <1>8, <1>9, <1>10, QuietSlot DEF Rest

(* The process that dies runs no build that has stored its root.           *)
LEMMA CrashKeeps ==
  ASSUME LifeInv, ~rebuilt', NEW w \in Workers, Crash(w)
  PROVE  Rest'
<1>1. UNCHANGED <<jobs, event, txs>>
  BY DEF Crash, Die, Cleanup
<1>2. \A t \in Slots : slot'[t] = IF WorkerOf[t] = w THEN Idle ELSE slot[t]
  BY DEF Crash, Die
<1>3. KeysStay /\ RowsKept /\ NoneCompleted /\ RootKept /\ TxsForward
  BY <1>1 DEF KeysStay, RowsKept, NoneCompleted, RootKept, TxsForward
<1>4. \A t \in Slots : SlotKept(t) \/ SlotFreed(t)
  BY <1>2 DEF Crash, Cleanup, SlotKept, SlotFreed, LifeInv, RunOK, Labelled
<1>5. \A t \in Slots : slot[t].job = 1 /\ event.root # 0 => slot'[t] = slot[t]
  <2> SUFFICES ASSUME NEW t \in Slots, slot[t].job = 1, event.root # 0, WorkerOf[t] = w
               PROVE  FALSE
    BY <1>2
  <2>1. slot[t] # Idle /\ pc[t] = "complete" /\ KeyOfRun(t) = snapshot
    BY FirstRow DEF LifeInv, RunOK, BuildRun, Idle, KeyOfRun, JobOf, BuiltOnce
  <2> QED
    BY <2>1 DEF Crash, Stored, At
<1>6. BuiltOnce'
  BY <1>1, <1>5 DEF LifeInv, BuiltOnce
<1> QED
  BY <1>1, <1>3, <1>4, <1>6, QuietSlot, QuietDeployed DEF Rest

LEMMA LockKeeps ==
  ASSUME LifeInv, Recover \/ \E j \in JobIds : Expire(j)
  PROVE  Rest'
<1>1. UNCHANGED <<slot, event, pc, copy, tx, txs>>
  BY DEF Recover, Expire, RecoverExpired, LockExpires
<1>2. KeysStay
  BY LockKeys DEF Recover, Expire, LifeInv, TableHeld
<1>3. NoneCompleted
  BY LockNotCompleted, RecoverNotCompleted DEF Recover, Expire, LifeInv, TableHeld
<1>4. RowsKept /\ RootKept /\ TxsForward
  BY <1>1, <1>2 DEF KeysStay, RowsKept, RootKept, TxsForward
<1>5. \A t \in Slots : SlotKept(t)
  BY <1>1 DEF SlotKept
<1>6. /\ jobs[1].status # "ABSENT" => jobs'[1].status # "ABSENT"
      /\ jobs[1].status \in {"COMPLETED", "FAILED"} => jobs'[1].status = jobs[1].status
  <2>1. jobs[1] \in JobRow
    BY FirstRow DEF LifeInv, TableHeld, TableTypeOK
  <2>2. CASE RecoverExpired
    BY <2>1, <2>2, FirstRow DEF RecoverExpired, Expired, JobRow
  <2>3. ASSUME NEW j \in JobIds, LockExpires(j)
        PROVE  jobs'[1].status = jobs[1].status
    BY <2>1, <2>3, FirstRow DEF LockExpires, LifeInv, TableHeld, TableTypeOK, JobRow
  <2> QED
    BY <2>2, <2>3 DEF Recover, Expire
<1>7. BuiltOnce'
  BY <1>1, <1>2, <1>3, <1>6, FirstRow DEF LifeInv, BuiltOnce, KeysStay, NoneCompleted
<1> QED
  BY <1>1, <1>2, <1>3, <1>4, <1>5, <1>7, QuietSlot, QuietDeployed DEF Rest

-----------------------------------------------------------------------------
(* Runs that go on.                                                        *)

(* Steps that write the status at most.                                    *)
LEMMA PlainStepKeeps ==
  ASSUME LifeInv, NEW s \in Slots, NEW label, GoesToLabel(s, label), RootKept,
         event'.contract = event.contract,
         event'.status # "FAILED" \/ event'.status = event.status,
         txs' = txs, RunOK(s)'
  PROVE  Rest'
<1>1. TxsForward
  BY DEF TxsForward
<1>2. \A t \in Slots : RunOK(t)'
  BY <1>1, GoesToKeeps, QuietSlot
<1>3. BuiltOnce'
  BY QuietBuilt DEF GoesToLabel
<1>4. DeployedOnce'
  BY GoesToKeeps, QuietDeployed
<1> QED
  BY <1>2, <1>3, <1>4 DEF Rest

LEMMA BuildStepKeeps ==
  ASSUME LifeInv, NEW s \in Slots, BuildLoad(s) \/ BuildMark(s) \/ BuildResolve(s),
         event.contract = 0, ~Permanent(s)
  PROVE  Rest'
<1>1. PICK label \in {"mark", "resolve", "store"} : GoesToLabel(s, label)
  BY DEF BuildLoad, BuildMark, BuildResolve, At, Goto, GoesToLabel, LifeInv, SnapshotInv, TypeOK
<1>2. KeyOfRun(s) = snapshot /\ slot[s] # Idle /\ pc[s] # "complete"
  BY DEF BuildLoad, BuildMark, BuildResolve, At
<1>3. RootKept /\ event'.contract = event.contract /\ txs' = txs
      /\ (event'.status # "FAILED" \/ event'.status = event.status)
  BY DEF BuildLoad, BuildMark, BuildResolve, RootKept, LifeInv, SnapshotInv, TypeOK, EventRow
<1>4. pc'[s] = label /\ slot'[s] = slot[s] /\ KeyOfRun(s)' = KeyOfRun(s)
  BY <1>1, GoesToKeeps
<1>5. slot[s].job = 1 => event.root = 0
  BY <1>2 DEF LifeInv, RunOK, BuildRun
<1>6. RunOK(s)'
  BY <1>2, <1>3, <1>4, <1>5 DEF RunOK, Labelled, BuildRun, DeployRun, Deploying, At, RootKept, Idle
<1> QED
  BY <1>1, <1>3, <1>6, PlainStepKeeps

LEMMA DeployLoadKeeps ==
  ASSUME LifeInv, NEW s \in Slots, DeployLoad(s), ~event.deployed, ~Permanent(s)
  PROVE  Rest'
<1>1. /\ ~event.deployed /\ event.root # 0 /\ copy' = [copy EXCEPT ![s] = event.root]
      /\ Goto(s, "prepare") /\ UNCHANGED <<tableVars, event, tx, txs>>
      /\ slot[s] # Idle /\ KeyOfRun(s) = deploy
  BY DEF DeployLoad, At
<1>2. GoesToLabel(s, "prepare")
  BY <1>1 DEF Goto, GoesToLabel, LifeInv, SnapshotInv, TypeOK
<1>3. pc'[s] = "prepare" /\ slot'[s] = slot[s] /\ KeyOfRun(s)' = KeyOfRun(s)
  BY <1>2, GoesToKeeps
<1>4. copy'[s] = event.root
  BY <1>1 DEF LifeInv, SnapshotInv, TypeOK
<1>5. slot[s].job # 1
  BY <1>1, RowOne, KeysKnown
<1>6. RunOK(s)'
  BY <1>1, <1>3, <1>4, <1>5 DEF RunOK, Labelled, BuildRun, DeployRun, Deploying, At, Idle
<1> QED
  BY <1>1, <1>2, <1>6, PlainStepKeeps DEF RootKept

LEMMA PrepareExistingKeeps ==
  ASSUME LifeInv, NEW s \in Slots, PrepareExisting(s)
  PROVE  Rest'
<1>1. PICK n \in LiveTxs(JobOf(s)) : tx' = [tx EXCEPT ![s] = n]
  BY DEF PrepareExisting
<1>2. GoesToLabel(s, "await") /\ slot[s] # Idle /\ KeyOfRun(s) = deploy /\ pc[s] = "prepare"
  BY DEF PrepareExisting, At, Goto, GoesToLabel, LifeInv, SnapshotInv, TypeOK
<1>3. pc'[s] = "await" /\ slot'[s] = slot[s] /\ KeyOfRun(s)' = KeyOfRun(s)
  BY <1>2, GoesToKeeps
<1>4. slot[s].job # 1 /\ slot[s].job \in JobIds
  BY <1>2, RowOne, KeysKnown
<1>5. n \in Txs /\ txs[n].outcome # "none" /\ tx'[s] = n
  BY <1>1, <1>4, FirstRow DEF LiveTxs, JobOf, LifeInv, DeployedOnce, TxKnown, SnapshotInv, TypeOK
<1>6. DeployRun(s)
  BY DEF LifeInv, RunOK
<1>7. RunOK(s)'
  BY <1>2, <1>3, <1>4, <1>5, <1>6
     DEF PrepareExisting, RunOK, Labelled, BuildRun, DeployRun, Deploying, At, Idle
<1> QED
  BY <1>2, <1>7, PlainStepKeeps DEF PrepareExisting, RootKept

(* While a run deploys, every transaction is of the one deployment job.    *)
LEMMA OwnTxs ==
  ASSUME LifeInv, NEW s \in Slots, slot[s] # Idle, Deploying(s)
  PROVE  \A n \in Txs : txs[n].outcome = "none" \/ txs[n].job = JobOf(s)
<1>1. KeyOfRun(s) = deploy /\ ~event.deployed /\ JobOf(s) \in JobIds
  BY RowOne DEF LifeInv, RunOK, Labelled, DeployRun, JobOf
<1> QED
  BY <1>1 DEF LifeInv, DeployedOnce, DeployRows, TxKnown, KeyOfRun

LEMMA PrepareNewKeeps ==
  ASSUME LifeInv, NEW s \in Slots, PrepareNew(s)
  PROVE  Rest'
<1>1. PICK n \in Txs :
        /\ txs[n].outcome = "none"
        /\ txs' = [txs EXCEPT ![n] = [job |-> JobOf(s), root |-> copy[s], outcome |-> "pending"]]
        /\ tx' = [tx EXCEPT ![s] = n]
        /\ event' = [event EXCEPT !.status = "DEPLOYING", !.contract = n]
  BY DEF PrepareNew
<1>2. GoesToLabel(s, "await") /\ slot[s] # Idle /\ KeyOfRun(s) = deploy /\ pc[s] = "prepare"
      /\ copy' = copy
  BY <1>1 DEF PrepareNew, At, Goto, GoesToLabel, LifeInv, SnapshotInv, TypeOK
<1>3. /\ \A t \in Slots : t # s => SlotKept(t)
      /\ pc'[s] = "await" /\ slot'[s] = slot[s] /\ KeyOfRun(s)' = KeyOfRun(s)
      /\ KeysStay /\ RowsKept /\ NoneCompleted
  BY <1>2, GoesToKeeps
<1>4. slot[s].job # 1 /\ JobOf(s) \in JobIds
  BY <1>2, RowOne, KeysKnown DEF JobOf
<1>5. ~event.deployed /\ event.root # 0 /\ copy[s] = event.root
  BY <1>2 DEF LifeInv, RunOK, DeployRun, Deploying
<1>6. RootKept /\ event'.status = "DEPLOYING" /\ event'.contract = n
  BY <1>1 DEF RootKept, LifeInv, SnapshotInv, TypeOK, EventRow
<1>7. /\ txs'[n] = [job |-> JobOf(s), root |-> copy[s], outcome |-> "pending"]
      /\ \A m \in Txs : m # n => txs'[m] = txs[m]
      /\ tx'[s] = n
  BY <1>1 DEF LifeInv, SnapshotInv, TypeOK
<1>8. TxsForward
  BY <1>1, <1>7 DEF TxsForward
<1>9. RunOK(s)'
  BY <1>2, <1>3, <1>4, <1>5, <1>6, <1>7
     DEF RunOK, Labelled, BuildRun, DeployRun, Deploying, At, Idle, RootKept
<1>10. BuiltOnce'
  BY <1>2, <1>5, <1>6 DEF LifeInv, BuiltOnce, RootKept, GoesToLabel
<1>11. DeployedOnce'
  <2>1. DeployRows'
    BY <1>3, <1>6 DEF LifeInv, DeployedOnce, DeployRows, KeysStay, NoneCompleted, RootKept
  <2>2. \A m \in Txs : ~Live(m)
    BY <1>2, OwnTxs DEF PrepareNew, LiveTxs, Live, Deploying
  <2>3. OneLive'
    BY <1>7, <2>2 DEF OneLive, Live
  <2>4. DeployedKnown'
    BY <1>5, <1>6 DEF DeployedKnown, RootKept
  <2>5. ASSUME NEW m \in Txs PROVE TxKnown(m)'
    <3>1. CASE m = n
      BY <1>2, <1>3, <1>4, <1>5, <1>6, <1>7, <3>1 DEF TxKnown, RootKept, KeysStay, KeyOfRun
    <3>2. CASE m # n
      BY <1>3, <1>6, <1>7, <3>2 DEF LifeInv, DeployedOnce, TxKnown, RootKept, KeysStay
    <3> QED
      BY <3>1, <3>2
  <2> QED
    BY <2>1, <2>3, <2>4, <2>5 DEF DeployedOnce
<1> QED
  BY <1>3, <1>6, <1>8, <1>9, <1>10, <1>11, QuietSlot DEF Rest

LEMMA AwaitKeeps ==
  ASSUME LifeInv, NEW s \in Slots, Await(s)
  PROVE  Rest'
<1> DEFINE n == tx[s]
<1>1. GoesToLabel(s, "finalize") /\ slot[s] # Idle /\ KeyOfRun(s) = deploy /\ pc[s] = "await"
  BY DEF Await, At, Goto, GoesToLabel, LifeInv, SnapshotInv, TypeOK
<1>2. /\ \A t \in Slots : t # s => SlotKept(t)
      /\ pc'[s] = "finalize" /\ slot'[s] = slot[s] /\ KeyOfRun(s)' = KeyOfRun(s)
      /\ KeysStay /\ RowsKept /\ NoneCompleted
  BY <1>1, GoesToKeeps
<1>3. DeployRun(s) /\ n \in Txs
  BY <1>1 DEF LifeInv, RunOK, DeployRun
<1>4. /\ txs'[n] = [txs[n] EXCEPT !.outcome = IF @ = "success" THEN @ ELSE "closed"]
      /\ \A m \in Txs : m # n => txs'[m] = txs[m]
      /\ UNCHANGED <<event, copy, tx>>
  BY <1>3 DEF Await, LifeInv, SnapshotInv, TypeOK
<1>5. /\ txs'[n].job = txs[n].job /\ txs'[n].root = txs[n].root
      /\ txs'[n].outcome = IF txs[n].outcome = "success" THEN "success" ELSE "closed"
      /\ txs[n].outcome \in {"success", "reverted", "closed"}
  BY <1>3, <1>4 DEF Await, LifeInv, SnapshotInv, TypeOK, TxRow
<1>6. TxsForward /\ RootKept
  BY <1>4, <1>5 DEF TxsForward, RootKept
<1>7. slot[s].job # 1
  BY <1>1, RowOne, KeysKnown
<1>8. RunOK(s)'
  BY <1>1, <1>2, <1>3, <1>4, <1>5, <1>7
     DEF RunOK, Labelled, BuildRun, DeployRun, Deploying, At, Idle
<1>9. BuiltOnce'
  BY <1>1, <1>4, <1>6, QuietBuilt DEF GoesToLabel
<1>10. DeployedOnce'
  <2>1. DeployRows'
    BY <1>2, <1>4 DEF LifeInv, DeployedOnce, DeployRows, KeysStay, NoneCompleted
  <2>2. OneLive'
    BY <1>3, <1>4, <1>5 DEF LifeInv, DeployedOnce, OneLive, Live
  <2>3. DeployedKnown'
    BY <1>4, <1>5 DEF LifeInv, DeployedOnce, DeployedKnown
  <2>4. ASSUME NEW m \in Txs PROVE TxKnown(m)'
    <3>1. TxKnown(m)
      BY DEF LifeInv, DeployedOnce
    <3>2. CASE m = n
      BY <1>2, <1>4, <1>5, <3>1, <3>2 DEF TxKnown, KeysStay
    <3>3. CASE m # n
      BY <1>2, <1>4, <3>1, <3>3 DEF TxKnown, KeysStay
    <3> QED
      BY <3>2, <3>3
  <2> QED
    BY <2>1, <2>2, <2>3, <2>4 DEF DeployedOnce
<1> QED
  BY <1>2, <1>6, <1>8, <1>9, <1>10, QuietSlot DEF Rest

(* The event is deployed by the one run that still could.                  *)
LEMMA FinalizeKeeps ==
  ASSUME LifeInv, NEW s \in Slots, Finalize(s), ~Permanent(s)
  PROVE  Rest'
<1> DEFINE n == tx[s]
<1>1. /\ txs[n].outcome = "success" /\ pc[s] = "finalize" /\ slot[s] # Idle /\ KeyOfRun(s) = deploy
      /\ event' = [event EXCEPT !.contract = n, !.deployed = TRUE, !.status = Lifecycle]
      /\ UNCHANGED <<tableVars, copy, tx, txs>> /\ Goto(s, "complete")
  BY DEF Finalize, At
<1>2. GoesToLabel(s, "complete")
  BY <1>1 DEF Goto, GoesToLabel
<1>3. /\ \A t \in Slots : t # s => SlotKept(t)
      /\ pc'[s] = "complete" /\ slot'[s] = slot[s] /\ KeyOfRun(s)' = KeyOfRun(s)
  BY <1>2, GoesToKeeps
<1>4. n \in Txs /\ event.root # 0 /\ ~event.deployed
  BY <1>1 DEF LifeInv, RunOK, DeployRun, Deploying
<1>5. /\ event'.root = event.root /\ event'.contract = n /\ event'.deployed
      /\ event'.status # "FAILED"
  BY <1>1 DEF LifeInv, SnapshotInv, TypeOK, EventRow, Lifecycle
<1>6. slot[s].job # 1 /\ slot[s].job \in JobIds
  BY <1>1, RowOne, KeysKnown
<1>7. RunOK(s)'
  BY <1>1, <1>3, <1>5, <1>6
     DEF LifeInv, RunOK, Labelled, BuildRun, DeployRun, Deploying, At, Idle
<1>8. ASSUME NEW t \in Slots, t # s PROVE RunOK(t)'
  <2>1. SlotKept(t) /\ RunOK(t)
    BY <1>3, <1>8 DEF LifeInv
  <2>2. KeyOfRun(t)' = KeyOfRun(t)
    BY <1>1, <2>1 DEF SlotKept, KeyOfRun, JobOf
  <2>3. ~Deploying(t)
    <3> SUFFICES ASSUME Deploying(t) PROVE FALSE
      OBVIOUS
    <3>1. KeyOfRun(t) = deploy /\ slot[t] # Idle
      BY <2>1 DEF RunOK, Labelled, Deploying
    <3>2. slot[t].job \in JobIds /\ slot[t].job = slot[s].job
      BY <1>1, <1>4, <1>6, <3>1, RowOne DEF LifeInv, DeployedOnce, DeployRows, KeyOfRun, JobOf
    <3> QED
      BY <1>1, <1>8, <3>2 DEF LifeInv, TableHeld, RunApart
  <2> QED
    BY <1>5, <2>1, <2>2, <2>3
       DEF SlotKept, RunOK, Labelled, BuildRun, DeployRun, Deploying, At, Idle
<1>9. BuiltOnce'
  BY <1>1, <1>4, <1>5 DEF LifeInv, BuiltOnce
<1>10. DeployedOnce'
  BY <1>1, <1>4, <1>5
     DEF LifeInv, DeployedOnce, DeployRows, OneLive, Live, DeployedKnown, TxKnown
<1> QED
  BY <1>7, <1>8, <1>9, <1>10 DEF Rest

(* The root is stored once: no row, run or transaction is of a deployment  *)
(* yet.                                                                    *)
LEMMA StoreKeeps ==
  ASSUME LifeInv, NEW s \in Slots, StoreSnapshot(s)
  PROVE  Rest'
<1>1. /\ slot[s] # Idle /\ KeyOfRun(s) = snapshot /\ pc[s] = "store"
      /\ UNCHANGED <<slot, copy, tx, txs>> /\ Goto(s, "complete")
      /\ event' = [event EXCEPT !.root = copy[s], !.status = "DEPLOYMENT_QUEUED"]
  BY DEF StoreSnapshot, At
<1>2. slot[s].job = 1 /\ event.root = 0 /\ ~event.deployed /\ event.contract = 0
  <2>1. slot[s].job = 1
    BY <1>1, RowOne
  <2>2. event.root = 0
    BY <1>1, <2>1 DEF LifeInv, RunOK, BuildRun
  <2>3. event.contract = 0
    BY <2>2 DEF LifeInv, BuiltOnce
  <2> QED
    BY <2>1, <2>2, <2>3, FirstBlock DEF LifeInv, DeployedOnce, DeployedKnown
<1>3. /\ event'.root # 0 /\ event'.deployed = event.deployed /\ event'.contract = event.contract
      /\ event'.status = "DEPLOYMENT_QUEUED"
  BY <1>1 DEF LifeInv, SnapshotInv, SnapshotKnown, TypeOK, EventRow
<1>4. \A j \in JobIds : jobs[j].key # deploy
  BY <1>2 DEF LifeInv, SnapshotInv, SnapshotBeforeDeployment
<1>5. PICK j \in JobIds : jobs[j].status = "ABSENT" /\ jobs' = [jobs EXCEPT ![j] = NewRow(deploy)]
  BY <1>4 DEF StoreSnapshot, ActiveRows, Insert, NextId
<1>6. /\ j # 1
      /\ jobs'[j].key = deploy /\ jobs'[j].status = "PENDING"
      /\ \A i \in JobIds : i # j => jobs'[i] = jobs[i]
  BY <1>5 DEF LifeInv, BuiltOnce, TableHeld, TableTypeOK, NewRow, NoRow
<1>7. pc'[s] = "complete" /\ \A t \in Slots : t # s => pc'[t] = pc[t]
  BY <1>1 DEF Goto, LifeInv, SnapshotInv, TypeOK
<1>8. ASSUME NEW t \in Slots PROVE RunOK(t)'
  <2>1. RunOK(t) /\ (slot[t] # Idle => slot[t].job \in JobIds /\ slot[t].job # j)
    BY <1>5, RowOne DEF LifeInv, TableHeld, RowHeld
  <2>2. slot[t] # Idle => KeyOfRun(t)' = KeyOfRun(t) /\ KeyOfRun(t) # deploy
    BY <1>1, <1>4, <1>6, <2>1 DEF KeyOfRun, JobOf
  <2>3. ~Deploying(t) /\ (Deploying(t)' => t = s)
    BY <1>2, <1>7, <2>1 DEF RunOK, DeployRun, Deploying
  <2>4. t # s => slot[t].job # 1
    BY <1>1, <1>2 DEF LifeInv, TableHeld, RunApart
  <2> QED
    BY <1>1, <1>2, <1>3, <1>7, <2>1, <2>2, <2>3, <2>4
       DEF RunOK, Labelled, BuildRun, DeployRun, Deploying, At, Idle
<1>9. BuiltOnce'
  <2>1. \A i \in JobIds : jobs'[i].key = snapshot <=> i = 1
    BY <1>6, KeysKnown DEF LifeInv, BuiltOnce
  <2>2. jobs'[1] = jobs[1] /\ slot'[s].job = 1
    BY <1>1, <1>2, <1>6, FirstRow
  <2>3. jobs[1].status = "RUNNING"
    BY <1>1, <1>2 DEF LifeInv, TableHeld, RowHeld
  <2> QED
    BY <1>3, <2>1, <2>2, <2>3 DEF BuiltOnce
<1>10. DeployedOnce'
  <2>1. \A n \in Txs : txs[n].outcome = "none" /\ txs[n].job = 0
    BY <1>2 DEF LifeInv, DeployedOnce, TxKnown
  <2>2. DeployRows'
    BY <1>4, <1>6 DEF DeployRows
  <2> QED
    BY <1>1, <1>2, <1>3, <2>1, <2>2 DEF DeployedOnce, OneLive, Live, DeployedKnown, TxKnown
<1> QED
  BY <1>8, <1>9, <1>10 DEF Rest

LEMMA RunKeeps ==
  ASSUME LifeInv, NEW s \in Slots, Run(s)
  PROVE  Rest'
<1>1. CASE BuildLoad(s) \/ BuildMark(s) \/ BuildResolve(s)
  <2>1. KeyOfRun(s) = snapshot /\ slot[s] # Idle /\ pc[s] # "complete"
    BY <1>1 DEF BuildLoad, BuildMark, BuildResolve, At
  <2>2. event.contract = 0 /\ ~Stored(s)
    BY <2>1, RowOne DEF LifeInv, RunOK, BuildRun, BuiltOnce, Stored, At
  <2>3. CASE Permanent(s)
    BY <2>2, <2>3, FailKeeps
  <2> QED
    BY <1>1, <2>2, <2>3, BuildStepKeeps
<1>2. CASE StoreSnapshot(s)
  BY <1>2, StoreKeeps
<1>3. CASE DeployLoad(s) \/ Finalize(s) \/ PrepareRefused(s)
  <2>1. ~Stored(s) /\ KeyOfRun(s) = deploy
    BY <1>3, KeysKnown DEF DeployLoad, Finalize, PrepareRefused, Stored, At
  <2>2. CASE Transient(s) \/ Permanent(s)
    BY <2>1, <2>2, FailKeeps
  <2>3. CASE DeployLoad(s) /\ ~Permanent(s)
    BY <2>1, <2>3, FinishKeeps, DeployLoadKeeps DEF DeployLoad
  <2>4. CASE Finalize(s) /\ ~Permanent(s)
    BY <2>4, FinalizeKeeps
  <2> QED
    BY <1>3, <2>2, <2>3, <2>4 DEF PrepareRefused
<1>4. CASE PrepareExisting(s) \/ PrepareNew(s) \/ Await(s)
  BY <1>4, PrepareExistingKeeps, PrepareNewKeeps, AwaitKeeps
<1>5. CASE RunCompletes(s)
  BY <1>5, FinishKeeps DEF RunCompletes
<1> QED
  BY <1>1, <1>2, <1>3, <1>4, <1>5 DEF Run

(* A step that changes no job, run or transaction, and of the event at    *)
(* most the status.                                                        *)
LEMMA QuietStep ==
  ASSUME LifeInv, UNCHANGED <<jobs, slot, pc, copy, tx, txs>>, RootKept,
         event'.contract = event.contract,
         event'.status # "FAILED" \/ event'.status = event.status
  PROVE  Rest'
<1>1. (\A t \in Slots : SlotKept(t)) /\ KeysStay /\ NoneCompleted /\ TxsForward
  BY DEF SlotKept, KeysStay, NoneCompleted, TxsForward
<1>2. \A t \in Slots : RunOK(t)'
  BY <1>1, KeysAreRows, QuietSlot
<1> QED
  BY <1>1, <1>2, QuietDeployed, QuietBuilt DEF Rest

-----------------------------------------------------------------------------
(* The requests of the creator.                                            *)

(* A retry of the snapshot that reaches an event without a root finds the  *)
(* one snapshot row active, and leaves it alone, or failed, and requeues   *)
(* it.                                                                     *)
LEMMA RetrySnapshotKeeps ==
  ASSUME LifeInv, ~rebuilt', NEW c \in Requests, RetrySnapshot(c)
  PROVE  Rest'
<1>1. /\ event.root = 0 /\ Enqueue(snapshot)
      /\ UNCHANGED <<slot, pc, copy, tx, txs>>
      /\ event' = [event EXCEPT !.status = "SNAPSHOT_PENDING"]
  BY DEF RetrySnapshot
<1>2. RootKept /\ event'.contract = event.contract /\ event'.status = "SNAPSHOT_PENDING"
  BY <1>1 DEF RootKept, LifeInv, SnapshotInv, TypeOK, EventRow
<1>3. CASE UNCHANGED jobs
  BY <1>1, <1>2, <1>3, QuietStep
<1>4. CASE ~UNCHANGED jobs
  <2>1. /\ jobs[1].key = snapshot /\ jobs[1].status \notin {"ABSENT", "COMPLETED"}
        /\ \A j \in JobIds : jobs[j].key = snapshot <=> j = 1
    BY <1>1, FirstRow DEF LifeInv, BuiltOnce
  <2>2. jobs[1].status \in JobStatus
    BY FirstRow DEF LifeInv, TableHeld, TableTypeOK, JobRow
  <2>3. ActiveRows(snapshot) = {}
    BY <1>1, <1>4 DEF Enqueue
  <2>4. 1 \in FailedRows(snapshot)
    BY <2>1, <2>2, <2>3, FirstRow DEF ActiveRows, FailedRows, Active, JobStatus
  <2>5. Requeue(1)
    BY <1>1, <1>4, <2>1, <2>4 DEF Enqueue, FailedRows
  <2>6. KeysStay /\ NoneCompleted
    BY <2>4, <2>5, RequeueKeys, RequeueNotCompleted, FirstRow DEF LifeInv, TableHeld, FailedRows
  <2>7. jobs'[1].status = "PENDING"
    BY <2>5, <2>6, FirstRow DEF Requeue, LifeInv, TableHeld, TableTypeOK, JobRow
  <2>8. \A t \in Slots : SlotKept(t)
    BY <1>1 DEF SlotKept
  <2>9. TxsForward
    BY <1>1 DEF TxsForward
  <2>10. BuiltOnce'
    BY <1>1, <1>2, <2>6, <2>7 DEF LifeInv, BuiltOnce, KeysStay, RootKept
  <2> QED
    BY <1>1, <1>2, <2>6, <2>8, <2>9, <2>10, KeysAreRows, QuietSlot, QuietDeployed DEF Rest
<1> QED
  BY <1>3, <1>4

(* A retry of the deployment inserts a row only beside completed ones, and *)
(* those are of a deployed event.                                          *)
LEMMA RetryDeploymentKeeps ==
  ASSUME LifeInv, NEW c \in Requests, RetryDeployment(c)
  PROVE  Rest'
<1>1. /\ Enqueue(deploy) /\ UNCHANGED <<slot, pc, copy, tx, txs>>
      /\ event' = [event EXCEPT !.status = "DEPLOYMENT_QUEUED"]
  BY DEF RetryDeployment
<1>2. RootKept /\ event'.contract = event.contract /\ event'.status = "DEPLOYMENT_QUEUED"
  BY <1>1 DEF RootKept, LifeInv, SnapshotInv, TypeOK, EventRow
<1>3. (\A t \in Slots : SlotKept(t)) /\ TxsForward
  BY <1>1 DEF SlotKept, TxsForward
<1>4. ASSUME KeysStay, NoneCompleted, jobs'[1] = jobs[1] PROVE Rest'
  <2>1. BuiltOnce'
    BY <1>1, <1>2, <1>4 DEF LifeInv, BuiltOnce, KeysStay, RootKept
  <2> QED
    BY <1>1, <1>2, <1>3, <1>4, <2>1, KeysAreRows, QuietSlot, QuietDeployed DEF Rest
<1>5. CASE UNCHANGED jobs
  BY <1>4, <1>5 DEF KeysStay, NoneCompleted
<1>6. ASSUME NEW j \in JobIds, jobs[j].key = deploy, Requeue(j) PROVE Rest'
  <2>1. KeysStay /\ NoneCompleted
    BY <1>6, RequeueKeys, RequeueNotCompleted DEF LifeInv, TableHeld
  <2>2. j # 1
    BY <1>6, KeysKnown DEF LifeInv, BuiltOnce
  <2>3. jobs'[1] = jobs[1]
    BY <1>6, <2>2, FirstRow DEF Requeue, LifeInv, TableHeld, TableTypeOK
  <2> QED
    BY <1>4, <2>1, <2>3
<1>7. ASSUME ActiveRows(deploy) = {}, FailedRows(deploy) = {}, Insert(deploy) PROVE Rest'
  <2>1. PICK j \in JobIds : jobs[j].status = "ABSENT" /\ jobs' = [jobs EXCEPT ![j] = NewRow(deploy)]
    BY <1>7 DEF Insert, NextId
  <2>2. /\ j # 1
        /\ jobs'[j].key = deploy /\ jobs'[j].status = "PENDING"
        /\ \A i \in JobIds : i # j => jobs'[i] = jobs[i]
    BY <2>1 DEF LifeInv, BuiltOnce, TableHeld, TableTypeOK, NewRow, NoRow
  <2>3. RowsKept
    BY <2>1, <2>2 DEF RowsKept
  <2>4. BuiltOnce'
    <3>1. \A i \in JobIds : jobs'[i].key = snapshot <=> i = 1
      BY <2>2, KeysKnown DEF LifeInv, BuiltOnce
    <3>2. jobs'[1] = jobs[1]
      BY <2>2, FirstRow
    <3> QED
      BY <1>1, <1>2, <3>1, <3>2 DEF LifeInv, BuiltOnce, RootKept
  <2>5. ~event.deployed => \A i \in JobIds : jobs[i].key # deploy
    <3> SUFFICES ASSUME NEW i \in JobIds, jobs[i].key = deploy PROVE event.deployed
      OBVIOUS
    <3>1. jobs[i].status = "COMPLETED"
      BY <1>7, FirstRow DEF LifeInv, TableHeld, TableTypeOK, AbsentKeyless, ActiveRows, FailedRows,
                            Active, JobRow, JobStatus
    <3> QED
      BY <3>1 DEF LifeInv, DeployedOnce, DeployRows
  <2>6. DeployRows'
    BY <1>2, <2>2, <2>5 DEF LifeInv, DeployedOnce, DeployRows, RootKept
  <2>7. OneLive' /\ DeployedKnown' /\ \A n \in Txs : TxKnown(n)'
    <3>1. \A i \in JobIds : jobs[i].key = deploy => jobs'[i].key = deploy
      BY <2>2
    <3> QED
      BY <1>1, <1>2, <3>1
         DEF LifeInv, DeployedOnce, OneLive, Live, DeployedKnown, TxKnown, RootKept
  <2> QED
    BY <1>2, <1>3, <2>3, <2>4, <2>6, <2>7, QuietSlot DEF Rest, DeployedOnce
<1> QED
  BY <1>1, <1>5, <1>6, <1>7 DEF Enqueue, FailedRows

(* A transaction is mined: none at "finalize" is still waiting.            *)
LEMMA MineKeeps ==
  ASSUME LifeInv, NEW n \in Txs, Mine(n)
  PROVE  Rest'
<1>1. /\ txs[n].outcome = "pending"
      /\ txs'[n].outcome \in {"reverted", "success"}
      /\ txs'[n].job = txs[n].job /\ txs'[n].root = txs[n].root
      /\ \A m \in Txs : m # n => txs'[m] = txs[m]
      /\ UNCHANGED <<jobs, slot, event, pc, copy, tx>>
  BY DEF Mine, LifeInv, SnapshotInv, TypeOK, TxRow
<1>2. (\A t \in Slots : SlotKept(t)) /\ RowsKept /\ RootKept /\ TxsForward
  BY <1>1 DEF SlotKept, RowsKept, RootKept, TxsForward
<1>3. BuiltOnce'
  BY <1>1 DEF LifeInv, BuiltOnce
<1>4. DeployedOnce'
  <2>1. DeployRows' /\ OneLive' /\ DeployedKnown'
    BY <1>1 DEF LifeInv, DeployedOnce, DeployRows, OneLive, Live, DeployedKnown
  <2>2. ASSUME NEW m \in Txs PROVE TxKnown(m)'
    <3>1. TxKnown(m)
      BY DEF LifeInv, DeployedOnce
    <3> QED
      BY <1>1, <3>1 DEF TxKnown
  <2> QED
    BY <2>1, <2>2 DEF DeployedOnce
<1> QED
  BY <1>2, <1>3, <1>4, QuietSlot DEF Rest

LEMMA NextRest ==
  ASSUME LifeInv, ~rebuilt', [Next]_vars
  PROVE  Rest'
<1>1. CASE UNCHANGED vars
  BY <1>1, QuietStep DEF RootKept
<1>2. ASSUME NEW s \in Slots, Throw(s) PROVE Rest'
  <2>1. ~Stored(s) /\ (Transient(s) \/ Permanent(s))
    BY <1>2 DEF Throw
  <2> QED
    BY <2>1, FailKeeps
<1>3. ASSUME NEW c \in Requests, CheckRetrySnapshot(c) \/ CheckRetryDeployment(c) PROVE Rest'
  BY <1>3, QuietStep DEF CheckRetrySnapshot, CheckRetryDeployment, RootKept
<1>4. CASE StatusPass \/ BlockConfirmed \/ WindowEnds
  <2>1. /\ UNCHANGED <<jobs, slot, pc, copy, tx, txs>> /\ RootKept
        /\ event'.contract = event.contract
        /\ event'.status # "FAILED" \/ event'.status = event.status
    BY <1>4 DEF StatusPass, BlockConfirmed, WindowEnds, Lifecycle, RootKept,
                LifeInv, SnapshotInv, TypeOK, EventRow
  <2> QED
    BY <2>1, QuietStep
<1> QED
  BY <1>1, <1>2, <1>3, <1>4, StartKeeps, RunKeeps, CrashKeeps, LockKeeps, RetrySnapshotKeeps,
     RetryDeploymentKeeps, MineKeeps DEF Next

LEMMA NextLife ==
  ASSUME LifeInv, ~rebuilt', [Next]_vars
  PROVE  LifeInv'
<1>1. SnapshotInv'
  BY NextSnapshot DEF LifeInv
<1>2. TableHeld'
  BY NextTable DEF LifeInv
<1> QED
  BY <1>1, <1>2, NextRest DEF LifeInv, Rest

LEMMA InitLife == Init => LifeInv
<1> SUFFICES ASSUME Init PROVE LifeInv
  OBVIOUS
<1>1. SnapshotInv
  BY InitSnapshot
<1>2. /\ jobs[1] = NewRow(snapshot)
      /\ \A j \in JobIds : j # 1 => jobs[j] = NoRow
      /\ \A s \in Slots : slot[s] = Idle /\ pc[s] = "idle"
  BY FirstRow DEF Init
<1>3. TableHeld
  <2>1. /\ jobs[1].status = "PENDING"
        /\ \A j \in JobIds : j # 1 => jobs[j].status = "ABSENT" /\ jobs[j].key = None
    BY <1>2 DEF NewRow, NoRow
  <2>3. KeysUnique /\ AbsentKeyless
    BY <2>1 DEF KeysUnique, AbsentKeyless, Active
  <2>2. \A s \in Slots : RowHeld(s) /\ RunApart(s)
    BY <1>2 DEF RowHeld, RunApart
  <2> QED
    BY <1>1, <2>2, <2>3 DEF TableHeld, SnapshotInv, TypeOK
<1>4. \A s \in Slots : RunOK(s)
  BY <1>2, FirstRow DEF RunOK, Labelled, BuildRun, DeployRun, Deploying, At, Idle
<1>5. BuiltOnce
  BY <1>2, FirstRow DEF Init, BuiltOnce, NewRow, NoRow
<1>6. DeployedOnce
  BY <1>2, FirstRow, KeysKnown
     DEF Init, DeployedOnce, DeployRows, OneLive, Live, DeployedKnown, TxKnown, NewRow, NoRow
<1> QED
  BY <1>1, <1>3, <1>4, <1>5, <1>6 DEF LifeInv

(* A history flag: once TRUE it stays so.                                  *)
LEMMA RebuiltStays == rebuilt /\ [Next]_vars => rebuilt'
<1> SUFFICES ASSUME rebuilt, [Next]_vars PROVE rebuilt'
  OBVIOUS
<1>1. ASSUME NEW s \in Slots, Run(s) PROVE rebuilt'
  BY <1>1 DEF Run, BuildLoad, BuildMark, BuildResolve, StoreSnapshot, DeployLoad,
     PrepareExisting, PrepareNew, PrepareRefused, Await, Finalize, RunCompletes, budgets
<1>2. ASSUME NEW s \in Slots, Start(s) \/ Throw(s) PROVE rebuilt'
  BY <1>2 DEF Start, Throw, budgets
<1>3. ASSUME NEW c \in Requests,
             \/ CheckRetrySnapshot(c) \/ CheckRetryDeployment(c)
             \/ RetrySnapshot(c) \/ RetryDeployment(c)
      PROVE  rebuilt'
  BY <1>3 DEF CheckRetrySnapshot, CheckRetryDeployment, RetrySnapshot, RetryDeployment, budgets
<1>4. CASE \/ UNCHANGED vars \/ StatusPass \/ Recover \/ BlockConfirmed \/ WindowEnds
           \/ (\E w \in Workers : Crash(w)) \/ (\E j \in JobIds : Expire(j))
           \/ (\E n \in Txs : Mine(n))
  BY <1>4 DEF vars, StatusPass, Recover, BlockConfirmed, WindowEnds, Crash, Expire, Mine, budgets
<1> QED
  BY <1>1, <1>2, <1>3, <1>4 DEF Next

(* The invariant holds until a stored snapshot is built again, if it ever  *)
(* is.                                                                     *)
LEMMA LifeAlways == Spec => [](rebuilt \/ LifeInv)
<1>1. Init => rebuilt \/ LifeInv
  BY InitLife
<1>2. (rebuilt \/ LifeInv) /\ [Next]_vars => (rebuilt \/ LifeInv)'
  BY NextLife, RebuiltStays
<1> QED
  BY <1>1, <1>2, PTL DEF Spec

(* The contract of a deployed event has the root that is served, where the *)
(* stored snapshot was not built again.                                    *)
THEOREM RootServed == Spec => []RootServedUnlessRebuilt
<1>1. rebuilt \/ LifeInv => RootServedUnlessRebuilt
  BY DEF LifeInv, DeployedOnce, DeployedKnown, TxKnown, RootServedUnlessRebuilt,
         DeployedRootServed
<1> QED
  BY <1>1, LifeAlways, PTL

(* At most one transaction deploys the event or still may: neither crashes *)
(* nor retries of either kind lead to a second contract.                   *)
THEOREM OneContract == Spec => []OneContractPerEvent
<1>1. rebuilt \/ LifeInv => OneContractPerEvent
  BY DEF LifeInv, DeployedOnce, OneLive, Live, OneContractPerEvent
<1> QED
  BY <1>1, LifeAlways, PTL

(* A deployed event is never marked FAILED, so the indexer reads it.       *)
THEOREM DeployedIndexed == Spec => []DeployedIsIndexed
<1>1. rebuilt \/ LifeInv => DeployedIsIndexed
  <2> SUFFICES ASSUME LifeInv, event.deployed, event.status = "FAILED" PROVE FALSE
    BY DEF DeployedIsIndexed
  <2>1. event.contract # 0 /\ event.root = 0
    BY FirstBlock DEF LifeInv, DeployedOnce, DeployedKnown, BuiltOnce
  <2> QED
    BY <2>1 DEF LifeInv, BuiltOnce
<1> QED
  BY <1>1, LifeAlways, PTL

(* Only a run that deploys writes contract_address, and none is left once  *)
(* the event is deployed.                                                  *)
LEMMA DeployedStays ==
  ASSUME LifeInv, [Next]_vars, event.deployed
  PROVE  event'.deployed /\ event'.contract = event.contract
<1> DEFINE Stays == event'.deployed /\ event'.contract = event.contract
<1>1. event \in EventRow /\ \A s \in Slots : ~Deploying(s)
  BY DEF LifeInv, SnapshotInv, TypeOK, RunOK, DeployRun
<1>2. ASSUME NEW s \in Slots, Finish(s) \/ Transient(s) \/ Permanent(s) PROVE Stays
  BY <1>1, <1>2 DEF Finish, Transient, Permanent, FailedEvent, EventRow
<1>3. ASSUME NEW s \in Slots, Run(s) PROVE Stays
  BY <1>1, <1>2, <1>3 DEF Run, BuildLoad, BuildMark, BuildResolve, StoreSnapshot, DeployLoad,
     PrepareExisting, PrepareNew, PrepareRefused, Await, Finalize, RunCompletes, At, Deploying,
     EventRow
<1>4. ASSUME NEW s \in Slots, Start(s) \/ Throw(s) PROVE Stays
  BY <1>2, <1>4 DEF Start, Throw
<1>5. ASSUME NEW c \in Requests,
             \/ CheckRetrySnapshot(c) \/ CheckRetryDeployment(c)
             \/ RetrySnapshot(c) \/ RetryDeployment(c)
      PROVE  Stays
  BY <1>1, <1>5 DEF CheckRetrySnapshot, CheckRetryDeployment, RetrySnapshot, RetryDeployment,
     EventRow
<1>6. CASE \/ UNCHANGED vars \/ StatusPass \/ Recover \/ BlockConfirmed \/ WindowEnds
           \/ (\E w \in Workers : Crash(w)) \/ (\E j \in JobIds : Expire(j))
           \/ (\E n \in Txs : Mine(n))
  BY <1>1, <1>6 DEF StatusPass, Recover, BlockConfirmed, WindowEnds, Crash, Expire, Mine, EventRow
<1> QED
  BY <1>3, <1>4, <1>5, <1>6 DEF Next

(* A deployed event keeps its contract, whatever is retried.               *)
THEOREM DeploymentFinal == Spec => DeploymentIsFinal
<1>1. (rebuilt \/ LifeInv) /\ [Next]_vars =>
        [event.deployed => \/ rebuilt
                           \/ event'.deployed /\ event'.contract = event.contract]_vars
  BY DeployedStays
<1> QED
  BY <1>1, LifeAlways, PTL DEF Spec, DeploymentIsFinal
=============================================================================

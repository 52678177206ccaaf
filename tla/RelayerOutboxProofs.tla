------------------------- MODULE RelayerOutboxProofs -------------------------
(***************************************************************************)
(* Proofs about RelayerOutbox: for any number of jobs, workers, slots,     *)
(* crashes, faults and stalls, a job has at most one transaction that      *)
(* succeeded or still may, nonces are reserved without a gap, and what the *)
(* outbox, the projection and the job table say happened did happen.       *)
(***************************************************************************)
EXTENDS RelayerOutbox, JobTableProofs

USE DEF vars, tableVars, runVars, netVars, budgets

-----------------------------------------------------------------------------
(* Type correctness.                                                       *)

LEMMA NoncesNat == Nonces \subseteq Nat /\ 0 \in Nonces
  BY OutboxAssumption DEF Nonces

LEMMA InitType == Init => TypeOK
<1> SUFFICES ASSUME Init PROVE TypeOK
  OBVIOUS
<1>1. \A j \in JobIds : NewRow(JobKey[j]) \in JobRow
  BY ZeroAttempts, OutboxAssumption DEF NewRow, NoRow, JobRow, JobStatus
<1>2. TableTypeOK
  BY <1>1 DEF Init, TableTypeOK, RunCopy
<1> QED
  BY <1>2, NoncesNat, OutboxAssumption
     DEF Init, TypeOK, Pc, TxRow, NoTx, TxStatus, Outcome

LEMMA CleanupType ==
  ASSUME TypeOK, Cleanup, TableTypeOK', UNCHANGED crashes, faults' \in 0..MaxFaults
  PROVE  TypeOK'
<1>1. pc' \in [Slots -> Pc] /\ nonce' \in [Slots -> Nonces]
  BY NoncesNat DEF TypeOK, Cleanup, Pc
<1> QED
  BY <1>1 DEF TypeOK, Cleanup

LEMMA StepType ==
  ASSUME TypeOK, NEW s \in Slots, NEW from, NEW to \in Pc, Step(s, from, to),
         nonce' \in [Slots -> Nonces], lock' \in Slots \cup {None},
         outbox' \in [Nonces -> TxRow], pool' \subseteq Nonces
  PROVE  TypeOK'
  BY DEF TypeOK, TableTypeOK, Step, Goto

LEMMA SlotNonce ==
  ASSUME TypeOK, NEW s \in Slots
  PROVE  nonce[s] \in Nonces /\ (slot[s] # Idle => JobOf(s) \in JobIds)
  BY SlotJob DEF TypeOK, JobOf

LEMMA TransientType ==
  ASSUME TypeOK, NEW s \in Slots, Transient(s) \/ Permanent(s),
         UNCHANGED crashes, faults' \in 0..MaxFaults
  PROVE  TypeOK'
<1>1. TableTypeOK'
  BY EndRunType DEF Transient, Permanent, TypeOK
<1> QED
  BY <1>1, CleanupType DEF Transient, Permanent

(* The steps of a run that leave the job table alone.                      *)
LEMMA AwaitType ==
  ASSUME TypeOK, NEW s \in Slots,
         \/ PreflightPasses(s) \/ CheckExisting(s) \/ AcquireLock(s) \/ RecheckExisting(s)
         \/ ReserveNonce(s) \/ InsertPrepared(s) \/ LookForReceipt(s) \/ Send(s)
         \/ SendRefused(s) \/ MarkBroadcast(s) \/ AwaitReceipt(s) \/ RecordReceipt(s)
  PROVE  TypeOK'
<1>1. nonce[s] \in Nonces
  BY SlotNonce
<1>2. CASE \E from, to \in Pc : Step(s, from, to) /\ UNCHANGED <<nonce, lock, outbox, pool>>
  BY <1>2, StepType DEF TypeOK
<1>3. ASSUME NEW from, TakeExisting(s, from) PROVE TypeOK'
  BY <1>3, StepType DEF TakeExisting, TypeOK, Pc
<1>4. CASE AcquireLock(s)
  BY <1>4, StepType DEF AcquireLock, TypeOK, Pc
<1>5. CASE ReserveNonce(s)
  <2>1. nonce' \in [Slots -> Nonces]
    BY <1>5 DEF ReserveNonce, TypeOK
  <2> QED
    BY <1>5, <2>1, StepType DEF ReserveNonce, TypeOK, Pc
<1>6. CASE InsertPrepared(s)
  <2>1. slot[s] # Idle
    BY <1>6 DEF InsertPrepared, Step, At
  <2>2. outbox' \in [Nonces -> TxRow]
    BY <1>1, <1>6, <2>1, SlotNonce DEF InsertPrepared, TypeOK, TxRow, TxStatus
  <2> QED
    BY <1>6, <2>2, StepType DEF InsertPrepared, TypeOK, Pc
<1>7. CASE Send(s)
  BY <1>1, <1>7, StepType DEF Send, TypeOK, Pc
<1>8. CASE MarkBroadcast(s)
  <2>1. outbox' \in [Nonces -> TxRow]
    BY <1>1, <1>8 DEF MarkBroadcast, TypeOK, TxRow, TxStatus
  <2> QED
    BY <1>8, <2>1, StepType DEF MarkBroadcast, TypeOK, Pc
<1>9. CASE RecordReceipt(s)
  <2>1. outbox' \in [Nonces -> TxRow]
    BY <1>1, <1>9 DEF RecordReceipt, TypeOK, TxRow, TxStatus
  <2> QED
    BY <1>9, <2>1, StepType DEF RecordReceipt, TypeOK, Pc
<1>10. CASE LookForReceipt(s)
  BY <1>2, <1>10 DEF LookForReceipt, Pc
<1> QED
  BY <1>2, <1>3, <1>4, <1>5, <1>6, <1>7, <1>8, <1>9, <1>10
     DEF PreflightPasses, CheckExisting, RecheckExisting, SendRefused, AwaitReceipt, Pc

LEMMA RunStepType ==
  ASSUME TypeOK, NEW s \in Slots, Run(s)
  PROVE  TypeOK'
<1>1. faults \in 0..MaxFaults
  BY DEF TypeOK
<1>2. CASE PreflightDone(s) \/ CompleteRun(s)
  BY <1>1, <1>2, EndRunType, CleanupType DEF PreflightDone, CompleteRun, TypeOK
<1>3. CASE PreflightRefuses(s) \/ FinalizeReverted(s) \/ WaitTimesOut(s) \/ EstimateReverts(s)
  <2>1. Transient(s) \/ Permanent(s)
    BY <1>3 DEF PreflightRefuses, FinalizeReverted, WaitTimesOut, EstimateReverts
  <2>2. UNCHANGED budgets
    BY <1>3 DEF PreflightRefuses, FinalizeReverted, WaitTimesOut, EstimateReverts
  <2>3. UNCHANGED crashes /\ faults' \in 0..MaxFaults
    BY <1>1, <2>2
  <2> QED
    BY <2>1, <2>3, TransientType
<1>4. CASE AfterError(s)
  <2>1. CASE Transient(s) /\ UNCHANGED budgets
    BY <1>1, <2>1, TransientType
  <2>2. CASE \E to \in Pc : Step(s, "error", to) /\ UNCHANGED <<nonce, lock, outbox, pool>>
    BY <2>2, StepType DEF TypeOK
  <2> QED
    BY <1>4, <2>1, <2>2 DEF AfterError, Pc
<1>5. CASE Finalize(s)
  <2>1. JobOf(s) \in JobIds
    BY <1>5, SlotNonce DEF Finalize, At
  <2>2. settled' \subseteq JobIds
    BY <1>5, <2>1 DEF Finalize, TypeOK
  <2>3. pc' \in [Slots -> Pc]
    BY <1>5 DEF Finalize, Goto, TypeOK, Pc
  <2>4. UNCHANGED <<jobs, slot, nonce, lock, outbox, pool, chain, cast, ended, crashes, faults>>
    BY <1>5 DEF Finalize
  <2> QED
    BY <2>2, <2>3, <2>4 DEF TypeOK, TableTypeOK
<1> QED
  BY <1>2, <1>3, <1>4, <1>5, AwaitType DEF Run

LEMMA FaultCount ==
  ASSUME TypeOK
  PROVE  /\ faults < MaxFaults /\ faults' = faults + 1 => faults' \in 0..MaxFaults
         /\ crashes < MaxCrashes /\ crashes' = crashes + 1 => crashes' \in 0..MaxCrashes
         /\ faults \in 0..MaxFaults /\ crashes \in 0..MaxCrashes
<1>1. faults \in 0..MaxFaults /\ crashes \in 0..MaxCrashes
  BY DEF TypeOK
<1> QED
  BY <1>1, OutboxAssumption

(* A transaction the network holds belongs to a job.                       *)
LEMMA PoolJob ==
  ASSUME TypeOK, RowsHaveJob, SentIsReserved, NEW n \in pool
  PROVE  n \in Nonces /\ outbox[n].job \in JobIds
<1>1. n \in Nonces /\ outbox[n].job \in JobIds \cup {None}
  BY DEF TypeOK, TxRow
<1>2. outbox[n].status # "ABSENT"
  BY DEF SentIsReserved, Reserved
<1> QED
  BY <1>1, <1>2 DEF RowsHaveJob

LEMMA NetType ==
  ASSUME TypeOK, RowsHaveJob, SentIsReserved, NEW n \in Nonces, Mine(n) \/ Drop(n)
  PROVE  TypeOK'
<1>1. CASE Drop(n)
  <2>1. faults' \in 0..MaxFaults
    BY <1>1, FaultCount DEF Drop
  <2>2. pool' \subseteq Nonces
    BY <1>1 DEF Drop, TypeOK
  <2>3. UNCHANGED <<jobs, slot, pc, nonce, lock, outbox, chain, cast, ended, settled, crashes>>
    BY <1>1 DEF Drop
  <2> QED
    BY <2>1, <2>2, <2>3 DEF TypeOK, TableTypeOK
<1>2. CASE Mine(n)
  <2>1. chain' \in [Nonces -> Outcome]
    BY <1>2 DEF Mine, TypeOK, Outcome
  <2>2. n \in pool /\ pool' = pool \ {n}
    BY <1>2 DEF Mine
  <2>3. cast' \subseteq JobIds \ Deploys
    BY <1>2, <2>2, PoolJob DEF Mine, TypeOK
  <2>4. UNCHANGED <<jobs, slot, pc, nonce, lock, outbox, ended, settled, crashes, faults>>
    BY <1>2 DEF Mine
  <2> QED
    BY <2>1, <2>2, <2>3, <2>4 DEF TypeOK, TableTypeOK
<1> QED
  BY <1>1, <1>2

LEMMA OtherType ==
  ASSUME TypeOK, NEW j \in JobIds,
         RetryJob(j) \/ Expire(j) \/ Stall(j) \/ CastByOther(j) \/ IndexVote(j) \/ WindowEnds(j)
  PROVE  TypeOK'
<1>1. CASE RetryJob(j) \/ Expire(j) \/ Stall(j)
  <2>1. TableTypeOK'
    BY <1>1, RequeueType, LockType DEF RetryJob, Expire, Stall, TypeOK, TableTypeOK
  <2>2. UNCHANGED <<pc, nonce, lock, outbox, pool, chain, cast, ended, settled, crashes, faults>>
    BY <1>1 DEF RetryJob, Expire, Stall
  <2> QED
    BY <2>1, <2>2 DEF TypeOK
<1>2. CASE CastByOther(j) \/ IndexVote(j) \/ WindowEnds(j)
  <2>1. UNCHANGED <<jobs, slot, pc, nonce, lock, outbox, pool, chain, crashes, faults>>
    BY <1>2 DEF CastByOther, IndexVote, WindowEnds
  <2>2. /\ cast' \subseteq JobIds \ Deploys
        /\ ended' \subseteq JobIds /\ settled' \subseteq JobIds
    BY <1>2, OutboxAssumption DEF CastByOther, IndexVote, WindowEnds, TypeOK
  <2> QED
    BY <2>1, <2>2 DEF TypeOK, TableTypeOK
<1> QED
  BY <1>1, <1>2

LEMMA TypeStep ==
  ASSUME TypeOK, RowsHaveJob, SentIsReserved, Next
  PROVE  TypeOK'
<1>1. ASSUME NEW s \in Slots, Start(s) PROVE TypeOK'
  <2>1. TableTypeOK'
    BY <1>1, RunType DEF Start, TypeOK
  <2> QED
    BY <1>1, <2>1 DEF Start, Goto, TypeOK, Pc
<1>2. ASSUME NEW s \in Slots, SendThrows(s) PROVE TypeOK'
  <2>1. faults' \in 0..MaxFaults
    BY <1>2, FaultCount DEF SendThrows
  <2>2. pool' \subseteq Nonces /\ pc' \in [Slots -> Pc]
    BY <1>2, SlotNonce DEF SendThrows, Goto, TypeOK, Pc
  <2>3. UNCHANGED <<jobs, slot, nonce, lock, outbox, chain, cast, ended, settled, crashes>>
    BY <1>2 DEF SendThrows
  <2> QED
    BY <2>1, <2>2, <2>3 DEF TypeOK, TableTypeOK
<1>3. ASSUME NEW s \in Slots, Throw(s) PROVE TypeOK'
  <2>1. faults' \in 0..MaxFaults
    BY <1>3, FaultCount DEF Throw
  <2> QED
    BY <1>3, <2>1, TransientType DEF Throw
<1>4. ASSUME NEW w \in Workers, Crash(w) PROVE TypeOK'
  <2>1. TableTypeOK'
    BY <1>4, DieType DEF Crash, TypeOK, TableTypeOK
  <2>2. crashes' \in 0..MaxCrashes /\ faults' \in 0..MaxFaults
    BY <1>4, FaultCount DEF Crash
  <2>3. pc' \in [Slots -> Pc] /\ nonce' \in [Slots -> Nonces]
    BY <1>4, NoncesNat DEF Crash, Cleanup, TypeOK, Pc
  <2>4. lock' \in Slots \cup {None} /\ UNCHANGED <<outbox, pool, chain, cast, ended, settled>>
    BY <1>4 DEF Crash, Cleanup, TypeOK
  <2> QED
    BY <2>1, <2>2, <2>3, <2>4 DEF TypeOK
<1>5. ASSUME Recover PROVE TypeOK'
  <2>1. TableTypeOK'
    BY <1>5, RecoverType DEF Recover, TypeOK
  <2> QED
    BY <1>5, <2>1 DEF Recover, TypeOK
<1> QED
  BY <1>1, <1>2, <1>3, <1>4, <1>5, RunStepType, NetType, OtherType DEF Next

-----------------------------------------------------------------------------
(* What a step must keep for the runs it does not move, and for the data.  *)

KeepsRows == \A n \in Nonces : outbox[n].job # None => outbox'[n].job = outbox[n].job
KeepsChain == \A n \in Nonces : chain[n] # "none" => chain'[n] = chain[n]
KeepsRun(t) == /\ slot'[t] = slot[t] /\ pc'[t] = pc[t] /\ nonce'[t] = nonce[t]
               /\ lock = t => lock' = t

LEMMA JobNotNone ==
  ASSUME TypeOK, NEW s \in Slots, slot[s] # Idle
  PROVE  JobOf(s) \in JobIds /\ JobOf(s) # None
  BY SlotNonce, JobTableAssumption

(* A run that a step leaves alone, while the lock keeps other rows out.    *)
LEMMA RunKeep ==
  ASSUME TypeOK, NEW t \in Slots, RunOK(t), KeepsRun(t), KeepsRows, KeepsChain,
         settled \subseteq settled', Reserved \subseteq Reserved',
         lock = t => \A n \in Nonces : outbox'[n].job = outbox[n].job
  PROVE  RunOK(t)'
<1> SUFFICES ASSUME slot[t] # Idle PROVE RunOK(t)'
  BY DEF RunOK, KeepsRun
<1>1. JobOf(t)' = JobOf(t) /\ JobOf(t) # None /\ nonce[t] \in Nonces
  BY JobNotNone, SlotNonce DEF JobOf, KeepsRun
<1>2. pc[t] \in {"recheck", "nonce", "insert"} => lock = t /\ lock' = t
  BY DEF RunOK, KeepsRun
<1>3. pc[t] \in {"nonce", "insert"} =>
        \A n \in Nonces : outbox'[n].job = JobOf(t) => chain'[n] = "reverted"
  BY <1>2 DEF RunOK, KeepsChain
<1>4. pc[t] = "insert" => \A m \in Nonces : m < nonce[t] => m \in Reserved'
  BY DEF RunOK
<1>5. pc[t] \in {"receipt", "send", "error", "mark", "wait", "record", "finalize"} =>
        outbox'[nonce[t]].job = JobOf(t)
  BY <1>1 DEF RunOK, KeepsRows
<1>6. pc[t] \in {"record", "finalize"} => nonce[t] \in Mined'
  BY <1>1 DEF RunOK, KeepsChain, Mined
<1>7. pc[t] = "complete" => JobOf(t) \in settled'
  BY DEF RunOK
<1>8. pc[t] = "insert" => outbox'[nonce[t]].job = None
  BY <1>1, <1>2 DEF RunOK
<1> QED
  BY <1>1, <1>2, <1>3, <1>4, <1>5, <1>6, <1>7, <1>8 DEF RunOK, KeepsRun

(* The runs a Cleanup leaves behind.                                       *)
LEMMA CleanupRuns ==
  ASSUME TypeOK, \A t \in Slots : RunOK(t), Cleanup,
         \A t \in Slots : slot'[t] = slot[t] \/ slot'[t] = Idle
  PROVE  \A t \in Slots : RunOK(t)'
<1> TAKE t \in Slots
<1>1. CASE slot'[t] = Idle
  BY <1>1 DEF RunOK
<1>2. CASE slot'[t] # Idle
  <2>1. KeepsRun(t)
    BY <1>2 DEF KeepsRun, Cleanup, TypeOK
  <2>2. KeepsRows /\ KeepsChain /\ Reserved' = Reserved
    BY DEF KeepsRows, KeepsChain, Cleanup, Reserved
  <2> QED
    BY <2>1, <2>2, RunKeep DEF Cleanup
<1> QED
  BY <1>1, <1>2

LEMMA DataSame ==
  ASSUME DataOK, UNCHANGED <<outbox, chain, cast, settled>>,
         pool' \subseteq pool \cup (Reserved \ Mined)
  PROVE  DataOK'
<1>1. Reserved' = Reserved /\ Mined' = Mined
  BY DEF Reserved, Mined
<1>2. SentIsReserved' /\ RowsHaveJob' /\ BallotsCounted'
  BY <1>1 DEF DataOK, SentIsReserved, RowsHaveJob, BallotsCounted
<1>3. OneLiveTransaction' /\ NoncesDense'
  BY <1>1 DEF DataOK, OneLiveTransaction, NoncesDense
<1>4. ProjectionTruthful'
  BY DEF DataOK, ProjectionTruthful
<1> QED
  BY <1>2, <1>3, <1>4 DEF DataOK

(* A step that moves only the run in slot s and writes no row.             *)
LEMMA StepRuns ==
  ASSUME TypeOK, \A t \in Slots : RunOK(t), NEW s \in Slots,
         NEW from, NEW to, Step(s, from, to), UNCHANGED outbox,
         \A t \in Slots \ {s} : nonce'[t] = nonce[t] /\ (lock = t => lock' = t),
         RunOK(s)'
  PROVE  \A t \in Slots : RunOK(t)'
<1> TAKE t \in Slots
<1>1. CASE t # s
  <2>1. KeepsRun(t)
    BY <1>1 DEF KeepsRun, Step, Goto, TypeOK
  <2>2. KeepsRows /\ KeepsChain /\ Reserved' = Reserved /\ settled' = settled
    BY DEF KeepsRows, KeepsChain, Step, Reserved
  <2> QED
    BY <2>1, <2>2, RunKeep
<1> QED
  BY <1>1

(* What the steps keep together.                                           *)
RunsOK == \A t \in Slots : RunOK(t)
Good == TypeOK /\ DataOK /\ CompletedIsSettled /\ RunsOK

-----------------------------------------------------------------------------
(* The steps that end runs.                                                *)

LEMMA EndKeeps ==
  ASSUME Good, Cleanup, NEW s \in Slots,
         Complete(s) \/ FailRetry(s) \/ FailFinal(s) \/ \E w \in Workers : Die(w)
  PROVE  RunsOK' /\ DataOK'
<1>1. \A t \in Slots : slot'[t] = slot[t] \/ slot'[t] = Idle
  BY EndedSlots DEF Good, TypeOK, EndsRun
<1>2. RunsOK'
  BY <1>1, CleanupRuns DEF Good, RunsOK
<1>3. DataOK'
  BY DataSame DEF Good, Cleanup
<1> QED
  BY <1>2, <1>3

LEMMA NoneCompletedKeeps ==
  ASSUME CompletedIsSettled, NoneCompleted, settled \subseteq settled'
  PROVE  CompletedIsSettled'
  BY DEF CompletedIsSettled, NoneCompleted

LEMMA FailKeeps ==
  ASSUME Good, NEW s \in Slots, Transient(s) \/ Permanent(s)
  PROVE  RunsOK' /\ DataOK' /\ CompletedIsSettled'
<1>1. (FailRetry(s) \/ FailFinal(s)) /\ Cleanup
  BY DEF Transient, Permanent
<1>2. NoneCompleted
  BY <1>1, FailNotCompleted DEF Good, TypeOK
<1> QED
  BY <1>1, <1>2, EndKeeps, NoneCompletedKeeps DEF Good, Cleanup

LEMMA CompleteKeeps ==
  ASSUME Good, NEW s \in Slots, PreflightDone(s) \/ CompleteRun(s)
  PROVE  RunsOK' /\ DataOK' /\ CompletedIsSettled'
<1>1. Complete(s) /\ Cleanup
  BY DEF PreflightDone, CompleteRun
<1>2. JobOf(s) \in settled
  BY DEF PreflightDone, CompleteRun, Good, RunsOK, RunOK, At
<1>3. CompletedIsSettled'
  BY <1>1, <1>2, CompleteOne DEF Good, TypeOK, CompletedIsSettled, Cleanup, JobOf
<1> QED
  BY <1>1, <1>3, EndKeeps

LEMMA CrashKeeps ==
  ASSUME Good, NEW w \in Workers, Crash(w)
  PROVE  RunsOK' /\ DataOK' /\ CompletedIsSettled'
<1>1. Die(w) /\ Cleanup
  BY DEF Crash
<1>2. \A t \in Slots : slot'[t] = slot[t] \/ slot'[t] = Idle
  BY <1>1 DEF Die, Good, TypeOK, TableTypeOK
<1>3. RunsOK' /\ DataOK'
  BY <1>1, <1>2, CleanupRuns, DataSame DEF Good, RunsOK, Cleanup
<1> QED
  BY <1>1, <1>3 DEF Die, Cleanup, CompletedIsSettled, Good

-----------------------------------------------------------------------------
(* The awaits of a run before the transaction is persisted.                *)

(* What a step leaves of the runs and the data when it changes neither.    *)
LEMMA StepData ==
  ASSUME Good, NEW s \in Slots, NEW from, NEW to, Step(s, from, to), UNCHANGED <<outbox, pool>>
  PROVE  DataOK' /\ CompletedIsSettled'
<1>1. DataOK'
  BY DataSame DEF Good, Step
<1> QED
  BY <1>1 DEF Good, Step, CompletedIsSettled

LEMMA TakeKeeps ==
  ASSUME Good, NEW s \in Slots, NEW from, TakeExisting(s, from)
  PROVE  RunsOK' /\ DataOK' /\ CompletedIsSettled'
<1>1. PICK n \in Nonces :
        /\ Newest(n, ActiveTxs(JobOf(s)))
        /\ nonce' = [nonce EXCEPT ![s] = n]
        /\ Step(s, from, "receipt")
        /\ lock' = IF lock = s THEN None ELSE lock
        /\ UNCHANGED <<outbox, pool>>
  BY DEF TakeExisting
<1>2. outbox[n].job = JobOf(s)
  BY <1>1 DEF Newest, ActiveTxs
<1>3. pc'[s] = "receipt" /\ nonce'[s] = n /\ slot' = slot
  BY <1>1 DEF Step, Goto, Good, TypeOK
<1>4. RunOK(s)'
  BY <1>1, <1>2, <1>3 DEF RunOK, JobOf
<1>5. RunsOK'
  BY <1>1, <1>4, StepRuns DEF Good, RunsOK, TypeOK
<1> QED
  BY <1>1, <1>5, StepData

LEMMA SearchKeeps ==
  ASSUME Good, NEW s \in Slots,
         PreflightPasses(s) \/ CheckExisting(s) \/ AcquireLock(s) \/ RecheckExisting(s)
  PROVE  RunsOK' /\ DataOK' /\ CompletedIsSettled'
<1>1. ASSUME NEW from, TakeExisting(s, from)
      PROVE  RunsOK' /\ DataOK' /\ CompletedIsSettled'
  BY <1>1, TakeKeeps
<1>2. ASSUME NEW from, NEW to \in {"check", "lock"}, Step(s, from, to),
             UNCHANGED <<nonce, lock, outbox, pool>>
      PROVE  RunsOK' /\ DataOK' /\ CompletedIsSettled'
  <2>1. pc'[s] = to
    BY <1>2 DEF Step, Goto, Good, TypeOK
  <2>2. RunOK(s)'
    BY <2>1 DEF RunOK
  <2> QED
    BY <1>2, <2>2, StepRuns, StepData DEF Good, RunsOK
<1>3. CASE AcquireLock(s)
  <2>1. pc'[s] = "recheck" /\ lock' = s /\ lock = None
    BY <1>3 DEF AcquireLock, Step, Goto, Good, TypeOK
  <2>2. RunOK(s)'
    BY <2>1 DEF RunOK
  <2> QED
    BY <1>3, <2>1, <2>2, StepRuns, StepData, OutboxAssumption DEF Good, RunsOK, AcquireLock
<1>4. ASSUME ActiveTxs(JobOf(s)) = {}, Step(s, "recheck", "nonce"),
             UNCHANGED <<nonce, lock, outbox, pool>>
      PROVE  RunsOK' /\ DataOK' /\ CompletedIsSettled'
  <2>1. pc'[s] = "nonce" /\ slot' = slot /\ slot[s] # Idle /\ pc[s] = "recheck"
    BY <1>4 DEF Step, Goto, At, Good, TypeOK
  <2>2. JobOf(s) # None
    BY <2>1, JobNotNone DEF Good
  <2>3. \A n \in Nonces : outbox[n].job = JobOf(s) => chain[n] = "reverted"
    <3> TAKE n \in Nonces
    <3>1. outbox[n].status \in TxStatus
      BY DEF Good, TypeOK, TxRow
    <3> QED
      BY <1>4, <2>2, <3>1
         DEF ActiveTxs, TxStatus, Good, DataOK, RowsHaveJob, ProjectionTruthful
  <2>4. lock = s
    BY <2>1 DEF Good, RunsOK, RunOK
  <2>5. chain' = chain
    BY <1>4 DEF Step
  <2>6. RunOK(s)'
    BY <1>4, <2>1, <2>3, <2>4, <2>5 DEF RunOK, JobOf
  <2> QED
    BY <1>4, <2>6, StepRuns, StepData DEF Good, RunsOK
<1> QED
  BY <1>1, <1>2, <1>3, <1>4 DEF PreflightPasses, CheckExisting, RecheckExisting

LEMMA ReserveKeeps ==
  ASSUME Good, NEW s \in Slots, ReserveNonce(s)
  PROVE  RunsOK' /\ DataOK' /\ CompletedIsSettled'
<1>1. PICK net, own \in Nonces :
        /\ Reported(net) /\ AboveReserved(own)
        /\ nonce' = [nonce EXCEPT ![s] = IF net > own THEN net ELSE own]
  BY DEF ReserveNonce
<1>2. Step(s, "nonce", "insert") /\ UNCHANGED <<lock, outbox, pool>>
  BY DEF ReserveNonce
<1>3. \A m \in Nonces : m < net => m \in Reserved
  BY <1>1 DEF Reported, Good, DataOK, SentIsReserved
<1>4. \A m \in Nonces : m < own => m \in Reserved
  <2> SUFFICES ASSUME NEW m \in Nonces, m < own PROVE m \in Reserved
    OBVIOUS
  <2>1. own # 0 /\ own - 1 \in Reserved /\ (m = own - 1 \/ m < own - 1)
    BY <1>1, NoncesNat DEF AboveReserved
  <2> QED
    BY <2>1 DEF Good, DataOK, NoncesDense
<1>5. \A m \in Nonces : m < nonce'[s] => m \in Reserved
  BY <1>1, <1>3, <1>4 DEF Good, TypeOK
<1>6. pc'[s] = "insert" /\ slot' = slot /\ slot[s] # Idle /\ pc[s] = "nonce" /\ chain' = chain
  BY <1>2 DEF Step, Goto, At, Good, TypeOK
<1>7. lock = s /\ \A n \in Nonces : outbox[n].job = JobOf(s) => chain[n] = "reverted"
  BY <1>6 DEF Good, RunsOK, RunOK
<1>8. Reserved' = Reserved
  BY <1>2 DEF Reserved
<1>9. outbox'[nonce'[s]].job = None
  <2>1. nonce'[s] \in Nonces /\ own <= nonce'[s]
    BY <1>1, NoncesNat DEF Good, TypeOK
  <2>2. \A m \in Reserved : m \in Nonces /\ m < own
    BY <1>1 DEF AboveReserved, Reserved
  <2>3. nonce'[s] \notin Reserved
    <3>1. own \in Nat /\ nonce'[s] \in Nat
      BY <1>1, <2>1, NoncesNat
    <3> QED
      BY <2>1, <2>2, <3>1
  <2> QED
    BY <1>2, <2>1, <2>3 DEF Reserved, Good, DataOK, RowsHaveJob
<1>10. RunOK(s)'
  BY <1>2, <1>5, <1>6, <1>7, <1>8, <1>9 DEF RunOK, JobOf
<1>11. \A t \in Slots \ {s} : nonce'[t] = nonce[t]
  BY <1>1 DEF Good, TypeOK
<1> QED
  BY <1>2, <1>10, <1>11, StepRuns, StepData DEF Good, RunsOK

(* The nonce a run holds before its insert has no row.                     *)
LEMMA FreeNonce ==
  ASSUME Good, NEW s \in Slots, At(s, "insert")
  PROVE  /\ nonce[s] \in Nonces /\ outbox[nonce[s]].job = None
         /\ outbox[nonce[s]].status = "ABSENT"
<1>1. nonce[s] \in Nonces /\ outbox[nonce[s]].job = None
  BY SlotNonce DEF At, Good, RunsOK, RunOK
<1> QED
  BY <1>1 DEF Good, DataOK, RowsHaveJob

LEMMA InsertKeeps ==
  ASSUME Good, NEW s \in Slots, InsertPrepared(s)
  PROVE  RunsOK' /\ DataOK' /\ CompletedIsSettled'
<1> DEFINE n == nonce[s]
           J == JobOf(s)
<1>1. /\ Step(s, "insert", "receipt")
      /\ outbox' = [outbox EXCEPT ![n] = [job |-> J, status |-> "PREPARED"]]
      /\ lock' = None /\ UNCHANGED <<nonce, pool>>
  BY DEF InsertPrepared
<1>2. n \in Nonces /\ slot[s] # Idle /\ pc[s] = "insert" /\ J # None /\ J \in JobIds
  BY <1>1, SlotNonce, JobNotNone DEF Step, At, Good
<1>3. outbox[n].job = None /\ outbox[n].status = "ABSENT"
  BY <1>1, FreeNonce DEF Step
<1>4. /\ lock = s
      /\ \A m \in Nonces : outbox[m].job = J => chain[m] = "reverted"
      /\ \A m \in Nonces : m < n => m \in Reserved
  BY <1>2 DEF Good, RunsOK, RunOK
<1>5. /\ outbox'[n] = [job |-> J, status |-> "PREPARED"]
      /\ \A m \in Nonces \ {n} : outbox'[m] = outbox[m]
  BY <1>1, <1>2 DEF Good, TypeOK
<1>6. Reserved' = Reserved \cup {n} /\ Mined' = Mined
  BY <1>1, <1>2, <1>5 DEF Reserved, Mined, Step
<1>7. n \notin Mined /\ chain[n] = "none" /\ chain' = chain /\ cast' = cast /\ settled' = settled
  BY <1>1, <1>2, <1>3 DEF Good, DataOK, SentIsReserved, Reserved, Mined, Step
<1>8. RunsOK'
  <2> SUFFICES ASSUME NEW t \in Slots PROVE RunOK(t)'
    BY DEF RunsOK
  <2>1. CASE t = s
    <3>1. pc'[s] = "receipt" /\ slot' = slot /\ nonce'[s] = n
      BY <1>1 DEF Step, Goto, Good, TypeOK
    <3> QED
      BY <1>5, <2>1, <3>1 DEF RunOK, JobOf
  <2>2. CASE t # s
    <3>1. KeepsRun(t)
      BY <1>1, <1>4, <2>2 DEF KeepsRun, Step, Goto, Good, TypeOK
    <3>2. KeepsRows /\ KeepsChain
      BY <1>3, <1>5, <1>7 DEF KeepsRows, KeepsChain
    <3> QED
      BY <1>4, <1>6, <1>7, <2>2, <3>1, <3>2, RunKeep DEF Good, RunsOK
  <2> QED
    BY <2>1, <2>2
<1>9. DataOK'
  <2>1. RowsHaveJob'
    BY <1>2, <1>5 DEF RowsHaveJob, Good, DataOK
  <2>2. SentIsReserved'
    BY <1>1, <1>6 DEF SentIsReserved, Good, DataOK
  <2>3. BallotsCounted'
    BY <1>5, <1>7 DEF BallotsCounted, Good, DataOK
  <2>4. OneLiveTransaction'
    <3> SUFFICES ASSUME NEW a \in Reserved', NEW b \in Reserved',
                        outbox'[a].job = outbox'[b].job,
                        chain[a] # "reverted", chain[b] # "reverted"
                 PROVE  a = b
      BY <1>7 DEF OneLiveTransaction
    <3>1. a \in Nonces /\ b \in Nonces
      BY DEF Reserved
    <3>2. CASE a = n \/ b = n
      BY <1>4, <1>5, <3>1, <3>2
    <3>3. CASE a # n /\ b # n
      BY <1>5, <1>6, <3>1, <3>3 DEF Good, DataOK, OneLiveTransaction
    <3> QED
      BY <3>2, <3>3
  <2>5. NoncesDense'
    BY <1>4, <1>6 DEF NoncesDense, Good, DataOK
  <2>6. ProjectionTruthful'
    <3>1. \A m \in Nonces : /\ outbox'[m].status = "CONFIRMED" => chain'[m] = "success"
                            /\ outbox'[m].status = "REVERTED" => chain'[m] = "reverted"
      BY <1>5, <1>7 DEF ProjectionTruthful, Good, DataOK
    <3>2. \A j \in settled :
            IF j \in Deploys THEN \E m \in Nonces : outbox'[m].job = j /\ chain[m] = "success"
                             ELSE j \in cast
      BY <1>5, <1>7 DEF ProjectionTruthful, Good, DataOK
    <3> QED
      BY <1>7, <3>1, <3>2 DEF ProjectionTruthful
  <2> QED
    BY <2>1, <2>2, <2>3, <2>4, <2>5, <2>6 DEF DataOK
<1> QED
  BY <1>1, <1>8, <1>9 DEF CompletedIsSettled, Good, Step

-----------------------------------------------------------------------------
(* The awaits of a run after the transaction is persisted.                 *)

(* The run's transaction has a row, and it is the row of the run's job.    *)
LEMMA OwnRow ==
  ASSUME Good, NEW s \in Slots, slot[s] # Idle,
         pc[s] \in {"receipt", "send", "error", "mark", "wait", "record", "finalize"}
  PROVE  /\ nonce[s] \in Reserved /\ nonce[s] \in Nonces
         /\ outbox[nonce[s]].job = JobOf(s) /\ JobOf(s) \in JobIds
<1>1. nonce[s] \in Nonces /\ JobOf(s) \in JobIds /\ JobOf(s) # None
  BY SlotNonce, JobNotNone DEF Good
<1>2. outbox[nonce[s]].job = JobOf(s)
  BY DEF Good, RunsOK, RunOK
<1> QED
  BY <1>1, <1>2 DEF Reserved, Good, DataOK, RowsHaveJob

(* A step of such a run that writes nothing but the pool.                  *)
LEMMA SendStepKeeps ==
  ASSUME Good, NEW s \in Slots, NEW from, NEW to, Step(s, from, to),
         from \in {"receipt", "send", "error", "wait"},
         to \in {"send", "error", "mark", "record"},
         to = "record" => nonce[s] \in Mined,
         UNCHANGED <<nonce, lock, outbox>>,
         pool' \subseteq pool \cup ({nonce[s]} \ Mined)
  PROVE  RunsOK' /\ DataOK' /\ CompletedIsSettled'
<1>1. slot[s] # Idle /\ pc[s] = from /\ pc'[s] = to /\ slot' = slot /\ chain' = chain
  BY DEF Step, At, Goto, Good, TypeOK
<1>2. nonce[s] \in Reserved /\ outbox[nonce[s]].job = JobOf(s)
  BY <1>1, OwnRow
<1>3. RunOK(s)'
  BY <1>1, <1>2 DEF RunOK, JobOf, Mined
<1>4. RunsOK'
  BY <1>3, StepRuns DEF Good, RunsOK
<1>5. DataOK'
  BY <1>2, DataSame DEF Good, Step
<1> QED
  BY <1>4, <1>5 DEF CompletedIsSettled, Good, Step

LEMMA MarkKeeps ==
  ASSUME Good, NEW s \in Slots, MarkBroadcast(s) \/ RecordReceipt(s)
  PROVE  RunsOK' /\ DataOK' /\ CompletedIsSettled'
<1> DEFINE n == nonce[s]
<1>1. PICK from, to \in {"mark", "wait", "record", "finalize"} :
        /\ Step(s, from, to)
        /\ \/ from = "mark" /\ to = "wait"
           \/ from = "record" /\ to = "finalize"
  BY DEF MarkBroadcast, RecordReceipt
<1>2. slot[s] # Idle /\ pc[s] = from /\ pc'[s] = to /\ slot' = slot
  BY <1>1 DEF Step, At, Goto, Good, TypeOK
<1>3. n \in Reserved /\ n \in Nonces /\ outbox[n].job = JobOf(s) /\ JobOf(s) # None
  BY <1>2, OwnRow, JobTableAssumption
<1>4. UNCHANGED <<nonce, lock, pool, chain, cast, settled, jobs>>
  BY DEF MarkBroadcast, RecordReceipt, Step
<1>5. \A m \in Nonces : /\ outbox'[m].job = outbox[m].job
                        /\ outbox'[m].status = "ABSENT" <=> outbox[m].status = "ABSENT"
  <2>1. PICK st \in {"BROADCAST", "CONFIRMED", "REVERTED"} :
          outbox' = outbox \/ outbox' = [outbox EXCEPT ![n].status = st]
    BY DEF MarkBroadcast, RecordReceipt
  <2>2. outbox[n].status # "ABSENT"
    BY <1>3 DEF Reserved
  <2> QED
    BY <1>3, <2>1, <2>2 DEF Good, TypeOK, TxRow
<1>6. Reserved' = Reserved /\ Mined' = Mined
  BY <1>4, <1>5 DEF Reserved, Mined
<1>7. RunsOK'
  <2> SUFFICES ASSUME NEW t \in Slots PROVE RunOK(t)'
    BY DEF RunsOK
  <2>1. CASE t = s
    <3>1. to = "finalize" => n \in Mined
      BY <1>1, <1>2 DEF Good, RunsOK, RunOK
    <3> QED
      BY <1>1, <1>2, <1>3, <1>4, <1>5, <1>6, <2>1, <3>1 DEF RunOK, JobOf
  <2>2. CASE t # s
    <3>1. KeepsRun(t)
      BY <1>1, <1>4, <2>2 DEF KeepsRun, Step, Goto, Good, TypeOK
    <3>2. KeepsRows /\ KeepsChain
      BY <1>4, <1>5 DEF KeepsRows, KeepsChain
    <3> QED
      BY <1>4, <1>5, <1>6, <3>1, <3>2, RunKeep DEF Good, RunsOK
  <2> QED
    BY <2>1, <2>2
<1>8. DataOK'
  <2>1. RowsHaveJob' /\ SentIsReserved' /\ BallotsCounted'
    BY <1>4, <1>5, <1>6 DEF RowsHaveJob, SentIsReserved, BallotsCounted, Good, DataOK
  <2>2. OneLiveTransaction'
    <3>1. \A m \in Reserved : m \in Nonces
      BY DEF Reserved
    <3> QED
      BY <1>4, <1>5, <1>6, <3>1 DEF OneLiveTransaction, Good, DataOK
  <2>3. NoncesDense'
    BY <1>6 DEF NoncesDense, Good, DataOK
  <2>4. ProjectionTruthful'
    <3>1. chain[n] \in Outcome
      BY <1>3 DEF Good, TypeOK
    <3>2. CASE MarkBroadcast(s)
      BY <1>3, <1>4, <1>5, <3>2 DEF MarkBroadcast, ProjectionTruthful, Good, DataOK, TypeOK, TxRow
    <3>3. CASE RecordReceipt(s)
      <4>1. chain[n] # "none"
        BY <1>2, <3>3 DEF RecordReceipt, Step, At, Good, RunsOK, RunOK, Mined
      <4>2. chain[n] # "success" => chain[n] = "reverted"
        BY <3>1, <4>1 DEF Outcome
      <4> QED
        BY <1>3, <1>4, <1>5, <3>3, <4>2
           DEF RecordReceipt, ProjectionTruthful, Good, DataOK, TypeOK, TxRow
    <3> QED
      BY <3>2, <3>3
  <2> QED
    BY <2>1, <2>2, <2>3, <2>4 DEF DataOK
<1> QED
  BY <1>4, <1>7, <1>8 DEF CompletedIsSettled, Good

LEMMA FinalizeKeeps ==
  ASSUME Good, NEW s \in Slots, Finalize(s)
  PROVE  RunsOK' /\ DataOK' /\ CompletedIsSettled'
<1> DEFINE n == nonce[s]
           J == JobOf(s)
<1>1. slot[s] # Idle /\ pc[s] = "finalize" /\ pc'[s] = "complete" /\ chain[n] = "success"
  BY DEF Finalize, At, Goto, Good, TypeOK
<1>2. n \in Nonces /\ outbox[n].job = J
  BY <1>1, OwnRow
<1>3. settled' = settled \cup {J}
  BY DEF Finalize
<1>4. UNCHANGED <<jobs, slot, nonce, lock, outbox, pool, chain, cast, ended>>
  BY DEF Finalize
<1>5. Reserved' = Reserved /\ Mined' = Mined
  BY <1>4 DEF Reserved, Mined
<1>6. RunsOK'
  <2> SUFFICES ASSUME NEW t \in Slots PROVE RunOK(t)'
    BY DEF RunsOK
  <2>1. CASE t = s
    BY <1>1, <1>3, <1>4, <2>1 DEF RunOK, JobOf
  <2>2. CASE t # s
    <3>1. KeepsRun(t)
      BY <1>4, <2>2 DEF Finalize, KeepsRun, Goto, Good, TypeOK
    <3>2. KeepsRows /\ KeepsChain
      BY <1>4 DEF KeepsRows, KeepsChain
    <3> QED
      BY <1>3, <1>4, <1>5, <3>1, <3>2, RunKeep DEF Good, RunsOK
  <2> QED
    BY <2>1, <2>2
<1>7. DataOK'
  <2>1. RowsHaveJob' /\ SentIsReserved' /\ BallotsCounted'
    BY <1>4, <1>5 DEF RowsHaveJob, SentIsReserved, BallotsCounted, Good, DataOK
  <2>2. OneLiveTransaction' /\ NoncesDense'
    BY <1>4, <1>5 DEF OneLiveTransaction, NoncesDense, Good, DataOK
  <2>3. ProjectionTruthful'
    <3>1. J \notin Deploys => J \in cast
      BY <1>1, <1>2 DEF BallotsCounted, Good, DataOK
    <3> QED
      BY <1>1, <1>2, <1>3, <1>4, <3>1 DEF ProjectionTruthful, Good, DataOK
  <2> QED
    BY <2>1, <2>2, <2>3 DEF DataOK
<1> QED
  BY <1>3, <1>4, <1>6, <1>7 DEF CompletedIsSettled, Good

LEMMA RunKeeps ==
  ASSUME Good, NEW s \in Slots, Run(s)
  PROVE  RunsOK' /\ DataOK' /\ CompletedIsSettled'
<1>1. CASE PreflightDone(s) \/ CompleteRun(s)
  BY <1>1, CompleteKeeps
<1>2. CASE PreflightRefuses(s) \/ WaitTimesOut(s) \/ FinalizeReverted(s) \/ EstimateReverts(s)
  <2>1. Transient(s) \/ Permanent(s)
    BY <1>2 DEF PreflightRefuses, WaitTimesOut, FinalizeReverted, EstimateReverts
  <2> QED
    BY <2>1, FailKeeps
<1>3. CASE AfterError(s)
  <2>1. CASE Transient(s)
    BY <2>1, FailKeeps
  <2>2. CASE \E to \in {"record", "mark"} :
               /\ Step(s, "error", to) /\ UNCHANGED <<nonce, lock, outbox, pool>>
               /\ to = "record" => nonce[s] \in Mined
    BY <2>2, SendStepKeeps
  <2> QED
    BY <1>3, <2>1, <2>2 DEF AfterError
<1>4. CASE LookForReceipt(s)
  BY <1>4, SendStepKeeps DEF LookForReceipt
<1>5. CASE Send(s)
  BY <1>5, SendStepKeeps DEF Send
<1>6. CASE SendRefused(s)
  BY <1>6, SendStepKeeps DEF SendRefused
<1>7. CASE AwaitReceipt(s)
  BY <1>7, SendStepKeeps DEF AwaitReceipt
<1> QED
  BY <1>1, <1>2, <1>3, <1>4, <1>5, <1>6, <1>7, SearchKeeps, ReserveKeeps, InsertKeeps,
     MarkKeeps, FinalizeKeeps DEF Run

(* The call that throws may have reached the network.                      *)
LEMMA ThrowsKeeps ==
  ASSUME Good, NEW s \in Slots, SendThrows(s)
  PROVE  RunsOK' /\ DataOK' /\ CompletedIsSettled'
<1>1. slot[s] # Idle /\ pc[s] \in {"send", "mark"} /\ pc'[s] = "error"
  BY DEF SendThrows, At, Goto, Good, TypeOK
<1>2. nonce[s] \in Reserved /\ outbox[nonce[s]].job = JobOf(s)
  BY <1>1, OwnRow
<1>3. UNCHANGED <<jobs, slot, nonce, lock, outbox, chain, cast, settled>>
  BY DEF SendThrows
<1>4. DataOK'
  BY <1>2, <1>3, DataSame DEF SendThrows, Good
<1>5. RunsOK'
  <2> SUFFICES ASSUME NEW t \in Slots PROVE RunOK(t)'
    BY DEF RunsOK
  <2>1. CASE t = s
    BY <1>1, <1>2, <1>3, <2>1 DEF RunOK, JobOf
  <2>2. CASE t # s
    <3>1. KeepsRun(t)
      BY <1>3, <2>2 DEF SendThrows, KeepsRun, Goto, Good, TypeOK
    <3>2. KeepsRows /\ KeepsChain /\ Reserved' = Reserved
      BY <1>3 DEF KeepsRows, KeepsChain, Reserved
    <3> QED
      BY <1>3, <3>1, <3>2, RunKeep DEF Good, RunsOK
  <2> QED
    BY <2>1, <2>2
<1> QED
  BY <1>3, <1>4, <1>5 DEF CompletedIsSettled, Good

-----------------------------------------------------------------------------
(* The steps of everybody else.                                            *)

(* A step that moves no run.                                               *)
LEMMA OtherRuns ==
  ASSUME Good, UNCHANGED <<slot, pc, nonce, lock, outbox>>, KeepsChain, settled \subseteq settled'
  PROVE  RunsOK'
<1> SUFFICES ASSUME NEW t \in Slots PROVE RunOK(t)'
  BY DEF RunsOK
<1>1. KeepsRun(t) /\ KeepsRows /\ Reserved' = Reserved
  BY DEF KeepsRun, KeepsRows, Reserved
<1> QED
  BY <1>1, RunKeep DEF Good, RunsOK

LEMMA StartKeeps ==
  ASSUME Good, NEW s \in Slots, Start(s)
  PROVE  RunsOK' /\ DataOK' /\ CompletedIsSettled'
<1>1. Claim(s) /\ UNCHANGED <<nonce, lock, outbox, pool, chain, cast, settled>>
  BY DEF Start
<1>2. DataOK'
  BY <1>1, DataSame DEF Good
<1>3. CompletedIsSettled'
  BY <1>1, ClaimNotCompleted, NoneCompletedKeeps DEF Good, TypeOK
<1>4. RunsOK'
  <2> SUFFICES ASSUME NEW t \in Slots PROVE RunOK(t)'
    BY DEF RunsOK
  <2>1. CASE t = s
    <3>1. pc'[s] = "preflight"
      BY DEF Start, Goto, Good, TypeOK
    <3> QED
      BY <2>1, <3>1 DEF RunOK
  <2>2. CASE t # s
    <3>1. slot'[t] = slot[t]
      BY <1>1, <2>2 DEF Claim, Good, TypeOK, TableTypeOK
    <3>2. KeepsRun(t)
      BY <1>1, <2>2, <3>1 DEF Start, KeepsRun, Goto, Good, TypeOK
    <3>3. KeepsRows /\ KeepsChain /\ Reserved' = Reserved
      BY <1>1 DEF KeepsRows, KeepsChain, Reserved
    <3> QED
      BY <1>1, <3>2, <3>3, RunKeep DEF Good, RunsOK
  <2> QED
    BY <2>1, <2>2
<1> QED
  BY <1>2, <1>3, <1>4

LEMMA TableStepKeeps ==
  ASSUME Good, NoneCompleted, UNCHANGED <<slot, pc, nonce, lock, outbox, pool, chain, cast, settled>>
  PROVE  RunsOK' /\ DataOK' /\ CompletedIsSettled'
<1>1. RunsOK'
  BY OtherRuns DEF KeepsChain
<1>2. DataOK'
  BY DataSame DEF Good
<1> QED
  BY <1>1, <1>2, NoneCompletedKeeps DEF Good

LEMMA OtherKeeps ==
  ASSUME Good, NEW j \in JobIds,
         RetryJob(j) \/ Expire(j) \/ Stall(j) \/ CastByOther(j) \/ IndexVote(j) \/ WindowEnds(j)
  PROVE  RunsOK' /\ DataOK' /\ CompletedIsSettled'
<1>1. CASE RetryJob(j) \/ Expire(j) \/ Stall(j)
  <2>1. NoneCompleted
    BY <1>1, RequeueNotCompleted, LockNotCompleted DEF RetryJob, Expire, Stall, Good, TypeOK
  <2>2. UNCHANGED <<slot, pc, nonce, lock, outbox, pool, chain, cast, settled>>
    BY <1>1 DEF RetryJob, Expire, Stall, LockExpires, RunnerStalls
  <2> QED
    BY <2>1, <2>2, TableStepKeeps
<1>2. CASE WindowEnds(j)
  <2>1. NoneCompleted /\ UNCHANGED <<slot, pc, nonce, lock, outbox, pool, chain, cast, settled>>
    BY <1>2 DEF WindowEnds, NoneCompleted
  <2> QED
    BY <2>1, TableStepKeeps
<1>3. CASE CastByOther(j) \/ IndexVote(j)
  <2>1. /\ UNCHANGED <<jobs, slot, pc, nonce, lock, outbox, pool, chain>>
        /\ cast \subseteq cast' /\ settled \subseteq settled'
        /\ \A i \in settled' \ settled : i \in cast
    BY <1>3 DEF CastByOther, IndexVote
  <2>2. RunsOK'
    BY <2>1, OtherRuns DEF KeepsChain
  <2>3. Reserved' = Reserved /\ Mined' = Mined
    BY <2>1 DEF Reserved, Mined
  <2>4. RowsHaveJob' /\ SentIsReserved' /\ BallotsCounted'
    BY <2>1, <2>3 DEF RowsHaveJob, SentIsReserved, BallotsCounted, Good, DataOK
  <2>5. OneLiveTransaction' /\ NoncesDense'
    BY <2>1, <2>3 DEF OneLiveTransaction, NoncesDense, Good, DataOK
  <2>6. CASE CastByOther(j)
    <3>1. ProjectionTruthful'
      BY <2>1, <2>6 DEF CastByOther, ProjectionTruthful, Good, DataOK
    <3> QED
      BY <2>1, <2>2, <2>4, <2>5, <3>1 DEF DataOK, CompletedIsSettled, Good
  <2>7. CASE IndexVote(j)
    <3>1. settled' = settled \cup {j} /\ j \in cast /\ cast' = cast /\ j \notin Deploys
      BY <2>7 DEF IndexVote, Good, TypeOK
    <3>2. ProjectionTruthful'
      BY <2>1, <3>1 DEF ProjectionTruthful, Good, DataOK
    <3> QED
      BY <2>1, <2>2, <2>4, <2>5, <3>2 DEF DataOK, CompletedIsSettled, Good
  <2> QED
    BY <1>3, <2>6, <2>7
<1> QED
  BY <1>1, <1>2, <1>3

LEMMA MineKeeps ==
  ASSUME Good, NEW n \in Nonces, Mine(n)
  PROVE  RunsOK' /\ DataOK' /\ CompletedIsSettled'
<1> DEFINE J == outbox[n].job
<1>1. /\ n \in pool /\ pool' = pool \ {n}
      /\ UNCHANGED <<jobs, slot, pc, nonce, lock, outbox, settled>>
  BY DEF Mine
<1>2. PICK o \in {"success", "reverted"} :
        /\ chain' = [chain EXCEPT ![n] = o]
        /\ o = "success" /\ J \notin Deploys => J \in cast'
  BY DEF Mine
<1>3. cast \subseteq cast'
  BY DEF Mine
<1>4. chain[n] = "none"
  BY <1>1 DEF Good, DataOK, SentIsReserved, Mined
<1>5. \A m \in Nonces : chain'[m] = IF m = n THEN o ELSE chain[m]
  BY <1>2 DEF Good, TypeOK
<1>6. Reserved' = Reserved /\ Mined' = Mined \cup {n}
  BY <1>1, <1>5 DEF Reserved, Mined
<1>7. RunsOK'
  <2>1. KeepsChain
    BY <1>4, <1>5 DEF KeepsChain
  <2> QED
    BY <1>1, <2>1, OtherRuns
<1>8. RowsHaveJob' /\ SentIsReserved' /\ NoncesDense'
  BY <1>1, <1>6 DEF RowsHaveJob, SentIsReserved, NoncesDense, Good, DataOK
<1>9. BallotsCounted'
  BY <1>1, <1>2, <1>3, <1>5 DEF BallotsCounted, Good, DataOK
<1>10. OneLiveTransaction'
  <2>1. \A m \in Nonces : chain'[m] # "reverted" => chain[m] # "reverted"
    BY <1>4, <1>5
  <2>2. Reserved \subseteq Nonces
    BY DEF Reserved
  <2> QED
    BY <1>1, <1>6, <2>1, <2>2 DEF OneLiveTransaction, Good, DataOK
<1>11. ProjectionTruthful'
  <2>1. \A m \in Nonces : chain[m] # "none" => chain'[m] = chain[m]
    BY <1>4, <1>5
  <2> QED
    BY <1>1, <1>3, <2>1 DEF ProjectionTruthful, Good, DataOK
<1> QED
  BY <1>1, <1>7, <1>8, <1>9, <1>10, <1>11 DEF DataOK, CompletedIsSettled, Good

LEMMA DropRecoverKeeps ==
  ASSUME Good, Recover \/ \E n \in Nonces : Drop(n)
  PROVE  RunsOK' /\ DataOK' /\ CompletedIsSettled'
<1>1. CASE Recover
  <2>1. NoneCompleted
    BY <1>1, RecoverNotCompleted DEF Recover, Good, TypeOK
  <2>2. UNCHANGED <<slot, pc, nonce, lock, outbox, pool, chain, cast, settled>>
    BY <1>1 DEF Recover, RecoverExpired
  <2> QED
    BY <2>1, <2>2, TableStepKeeps
<1>2. CASE \E n \in Nonces : Drop(n)
  <2>1. /\ UNCHANGED <<jobs, slot, pc, nonce, lock, outbox, chain, cast, settled>>
        /\ pool' \subseteq pool
    BY <1>2 DEF Drop
  <2>2. DataOK' /\ RunsOK'
    BY <2>1, DataSame, OtherRuns DEF Good, KeepsChain
  <2> QED
    BY <2>1, <2>2 DEF CompletedIsSettled, Good
<1> QED
  BY <1>1, <1>2

-----------------------------------------------------------------------------
(* The inductive invariant.                                                *)

LEMMA InitGood == Init => Good
<1> SUFFICES ASSUME Init PROVE Good
  OBVIOUS
<1>1. TypeOK
  BY InitType
<1>2. Reserved = {} /\ Mined = {} /\ \A n \in Nonces : outbox[n] = NoTx /\ chain[n] = "none"
  BY DEF Init, NoTx, Reserved, Mined
<1>3. DataOK
  BY <1>2 DEF Init, DataOK, RowsHaveJob, SentIsReserved, BallotsCounted, OneLiveTransaction,
              NoncesDense, ProjectionTruthful, NoTx
<1>4. CompletedIsSettled /\ RunsOK
  BY DEF Init, CompletedIsSettled, NewRow, NoRow, RunsOK, RunOK
<1> QED
  BY <1>1, <1>3, <1>4 DEF Good

LEMMA GoodStep == Good /\ [Next]_vars => Good'
<1> SUFFICES ASSUME Good, [Next]_vars PROVE Good'
  OBVIOUS
<1>1. CASE Next
  <2>1. TypeOK'
    BY <1>1, TypeStep DEF Good, DataOK
  <2>2. RunsOK' /\ DataOK' /\ CompletedIsSettled'
    <3>1. ASSUME NEW s \in Slots, Throw(s) PROVE RunsOK' /\ DataOK' /\ CompletedIsSettled'
      BY <3>1, FailKeeps DEF Throw
    <3> QED
      BY <1>1, <3>1, StartKeeps, RunKeeps, ThrowsKeeps, CrashKeeps, OtherKeeps, MineKeeps,
         DropRecoverKeeps DEF Next
  <2> QED
    BY <2>1, <2>2 DEF Good
<1>2. CASE UNCHANGED vars
  <2>1. TypeOK'
    BY <1>2 DEF Good, TypeOK, TableTypeOK
  <2>2. NoneCompleted
    BY <1>2 DEF NoneCompleted
  <2>3. RunsOK' /\ DataOK' /\ CompletedIsSettled'
    BY <1>2, <2>2, TableStepKeeps
  <2> QED
    BY <2>1, <2>3 DEF Good
<1> QED
  BY <1>1, <1>2

LEMMA GoodAlways == Spec => []Good
  BY InitGood, GoodStep, PTL DEF Spec

(* The invariant TLC checks (OutboxInv) is the invariant proved here.      *)
THEOREM OutboxInvariant == Spec => []OutboxInv
<1>1. Good => OutboxInv
  BY DEF Good, OutboxInv, RunsOK
<1> QED
  BY <1>1, GoodAlways, PTL

(* Type correctness of the outbox, the runs, the network and the job table.*)
THEOREM OutboxTypeCorrect == Spec => []TypeOK
<1>1. Good => TypeOK
  BY DEF Good
<1> QED
  BY <1>1, GoodAlways, PTL

(* prepareRelayerTransaction never persists a second transaction for a job *)
(* whose first one succeeded or still may, whatever else runs or fails.    *)
THEOREM OneTransactionPerJob == Spec => []OneLiveTransaction
<1>1. Good => OneLiveTransaction
  BY DEF Good, DataOK
<1> QED
  BY <1>1, GoodAlways, PTL

(* nextRelayerNonce reserves the nonces of the relayer without a gap.      *)
THEOREM DenseNonces == Spec => []NoncesDense
<1>1. Good => NoncesDense
  BY DEF Good, DataOK
<1> QED
  BY <1>1, GoodAlways, PTL

(* The nonce nextRelayerNonce returned is free when the row is inserted:   *)
(* the unique index of relayer_transactions never refuses it.              *)
THEOREM FreeNonces == Spec => []ReservedNonceFree
<1>1. Good => ReservedNonceFree
  <2> SUFFICES ASSUME Good, NEW s \in Slots, At(s, "insert")
               PROVE  nonce[s] \notin Reserved
    BY DEF ReservedNonceFree
  <2> QED
    BY FreeNonce DEF Reserved
<1> QED
  BY <1>1, GoodAlways, PTL

(* recordReceipt, finalizeDeployment and finalizeVote write only what the  *)
(* chain did.                                                              *)
THEOREM TruthfulProjection == Spec => []ProjectionTruthful
<1>1. Good => ProjectionTruthful
  BY DEF Good, DataOK
<1> QED
  BY <1>1, GoodAlways, PTL

(* completeJob closes only a job whose effect the projection has.          *)
THEOREM CompletedJobsSettled == Spec => []CompletedIsSettled
<1>1. Good => CompletedIsSettled
  BY DEF Good
<1> QED
  BY <1>1, GoodAlways, PTL

(* The status guard of the BROADCAST update keeps a confirmed row as it is.*)
THEOREM ConfirmedStays == Spec => ConfirmedIsFinal
<1> DEFINE Keeps == \A n \in Nonces : outbox[n].status = "CONFIRMED" => outbox'[n] = outbox[n]
<1>1. Good /\ [Next]_vars => [Keeps]_vars
  <2> SUFFICES ASSUME Good, Next, NEW n \in Nonces, outbox[n].status = "CONFIRMED"
               PROVE  outbox'[n] = outbox[n]
    OBVIOUS
  <2>1. ASSUME NEW s \in Slots, InsertPrepared(s) PROVE outbox'[n] = outbox[n]
    BY <2>1, FreeNonce DEF InsertPrepared, Step, Good, TypeOK
  <2>2. ASSUME NEW s \in Slots, MarkBroadcast(s) PROVE outbox'[n] = outbox[n]
    BY <2>2 DEF MarkBroadcast, Good, TypeOK
  <2>3. ASSUME NEW s \in Slots, RecordReceipt(s) PROVE outbox'[n] = outbox[n]
    <3>1. chain[n] = "success"
      BY DEF Good, DataOK, ProjectionTruthful
    <3>2. outbox[n] \in TxRow
      BY DEF Good, TypeOK
    <3> QED
      BY <2>3, <3>1, <3>2 DEF RecordReceipt, Good, TypeOK, TxRow
  <2>4. ASSUME NEW s \in Slots, Run(s) PROVE outbox'[n] = outbox[n]
    <3>1. CASE UNCHANGED outbox
      BY <3>1
    <3>2. CASE ~UNCHANGED outbox
      <4>1. InsertPrepared(s) \/ MarkBroadcast(s) \/ RecordReceipt(s)
        BY <2>4, <3>2
           DEF Run, PreflightDone, PreflightPasses, PreflightRefuses, CheckExisting, AcquireLock,
               RecheckExisting, TakeExisting, ReserveNonce, EstimateReverts, LookForReceipt, Send,
               SendRefused, AfterError, AwaitReceipt, WaitTimesOut, Finalize, FinalizeReverted,
               CompleteRun, Transient, Permanent, Cleanup
      <4> QED
        BY <4>1, <2>1, <2>2, <2>3
    <3> QED
      BY <3>1, <3>2
  <2>5. CASE UNCHANGED outbox
    BY <2>5
  <2>6. CASE ~UNCHANGED outbox
    <3>1. \E s \in Slots : Run(s)
      BY <2>6 DEF Next, Start, SendThrows, Throw, Transient, Crash, Cleanup, RetryJob, Expire,
                  Stall, CastByOther, IndexVote, WindowEnds, Mine, Drop, Recover
    <3> QED
      BY <3>1, <2>4
  <2> QED
    BY <2>5, <2>6
<1> QED
  BY <1>1, GoodAlways, PTL DEF Spec, ConfirmedIsFinal
=============================================================================

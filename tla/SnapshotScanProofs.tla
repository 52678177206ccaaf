------------------------- MODULE SnapshotScanProofs -------------------------
(***************************************************************************)
(* Proofs about SnapshotScan, for any chain, number of events, chunk size, *)
(* overlap and number of crashes: types; that the holder candidates of a   *)
(* token are complete up to its cursor, and a token is found unsupported   *)
(* only for what its logs do not explain, when the archive node is behind  *)
(* by no more than the confirmations; and that a stored snapshot is that   *)
(* of its record block, whatever the archive node does.  The advisory lock *)
(* is not used: two scans of one token would do each other no harm.        *)
(***************************************************************************)
EXTENDS SnapshotScan, FiniteSetTheorems, WellFoundedInduction, TLAPS

USE DEF vars, envVars, tokenVars, At, Goto

-----------------------------------------------------------------------------
(* Type correctness.                                                       *)

LEMMA Numbers ==
    /\ Heights \subseteq Nat /\ 0 \in Heights
    /\ DeployedAt \in Heights /\ DeployedAt \in Nat
    /\ MaxHeight \in Nat /\ MaxReorgs \in Nat /\ MaxFaults \in Nat /\ MaxAttempts \in Nat \ {0}
    /\ ChunkSize \in Nat \ {0} /\ Confirmations \in Nat /\ Overlap \in Nat
    /\ None \notin Nat
  BY SnapshotScanAssumption DEF Heights

(* The operator's ScanStartAssumption makes the search find the deployment.*)
LEMMA SearchExact == DeploymentFound = DeployedAt
  BY SnapshotScanAssumption, ScanStartAssumption DEF DeploymentFound

(* What the types of a run's next values rest on.                          *)
RunBounded(r) ==
    r.pc \in Busy =>
        /\ Final(r.target) /\ r.hash # None
        /\ r.deployed \in {None, DeployedAt}
        /\ r.pc # "find" => r.deployed = DeployedAt
        /\ r.pc \in {"logs", "store"} => r.next <= r.target

LEMMA SoundBounded == \A r : RunSound(r) => RunBounded(r)
  BY DEF RunSound, RunBounded

LEMMA IdleType ==
  ASSUME NEW label \in Pc, NEW n \in 0..MaxAttempts
  PROVE  Idle(label, n) \in Run
  BY Numbers DEF Idle, Run

LEMMA HashType ==
  ASSUME chain \in [Heights -> Block], NEW n \in Heights
  PROVE  Hash(n) \in Hashes
  BY DEF Hash, Hashes, Block

LEMMA EndType ==
  ASSUME TypeOK, NEW e \in Events, NEW label \in Pc, End(e, label)
  PROVE  run' \in [Events -> Run] /\ scanLock' \in Events \cup {None}
<1>1. run[e].attempts \in 0..MaxAttempts
  BY DEF TypeOK, Run
<1> QED
  BY <1>1, IdleType DEF End, Unlock, TypeOK

LEMMA ThrowType ==
  ASSUME TypeOK, NEW e \in Events, Throw(e) \/ ThrowPermanent(e)
  PROVE  run' \in [Events -> Run] /\ scanLock' \in Events \cup {None}
  BY EndType DEF Throw, ThrowPermanent, Pc

LEMMA BalanceType ==
  ASSUME TypeOK, NEW w \in Wallets, NEW n \in Heights
  PROVE  BalanceAt(w, n) \in Int
<1>1. IsFiniteSet(DeployedAt + 1..n)
  BY FS_Interval, Numbers
<1>2. IsFiniteSet(Received(w, n)) /\ IsFiniteSet(Sent(w, n))
  BY <1>1, FS_Subset DEF Received, Sent, MovesUpTo
<1>3. Cardinality(Received(w, n)) \in Nat /\ Cardinality(Sent(w, n)) \in Nat
  BY <1>2, FS_CardinalityType
<1> QED
  BY <1>3, SnapshotScanAssumption DEF BalanceAt

LEMMA EntriesType ==
  ASSUME TypeOK, NEW eligible, NEW n \in Heights
  PROVE  Entries(eligible, n) \in [Wallets -> Int]
  BY BalanceType DEF Entries

LEMMA TargetType ==
  ASSUME TypeOK, NEW e \in Events
  PROVE  /\ ResolveRecordBlock(e) \in Heights
         /\ Final(ResolveRecordBlock(e))
<1>1. RecordAt[e] \in Nat /\ height \in Heights
  BY SnapshotScanAssumption DEF TypeOK
<1> QED
  BY <1>1, Numbers DEF ResolveRecordBlock, Final, Heights

(* The logs of a block name wallets of the token.                          *)
LEMMA LoggedType ==
  ASSUME chain \in [Heights -> Block], NEW n \in Heights
  PROVE  LoggedIn(n) \subseteq Wallets
<1>1. chain[n].move \in Moves \cup {None}
  BY DEF Block
<1> QED
  BY <1>1, SnapshotScanAssumption DEF LoggedIn

LEMMA ChunkEndType ==
  ASSUME NEW r \in Run, r.next <= r.target
  PROVE  /\ ChunkEnd(r) \in Heights
         /\ r.next <= ChunkEnd(r) /\ ChunkEnd(r) <= r.target
  BY Numbers DEF ChunkEnd, Run, Heights

(* What the steps of a run change of it.                                   *)
LEMMA RunFields ==
  ASSUME TypeOK, NEW e \in Events
  PROVE  /\ \A p \in Pc : [run EXCEPT ![e].pc = p] \in [Events -> Run]
         /\ \A p \in Pc, d \in Heights \cup {None} :
                [run EXCEPT ![e].pc = p, ![e].deployed = d] \in [Events -> Run]
         /\ \A p \in Pc, n \in 0..MaxHeight + 1 :
                [run EXCEPT ![e].pc = p, ![e].next = n] \in [Events -> Run]
         /\ \A p \in Pc, S \in SUBSET Wallets :
                [run EXCEPT ![e].pc = p, ![e].wallets = S] \in [Events -> Run]
         /\ \A z \in 1..ChunkSize : [run EXCEPT ![e].size = z] \in [Events -> Run]
         /\ \A p \in Pc, n \in 0..MaxHeight + 1, z \in 1..ChunkSize :
                [run EXCEPT ![e].pc = p, ![e].next = n, ![e].size = z] \in [Events -> Run]
<1> run \in [Events -> Run] /\ run[e] \in Run
  BY DEF TypeOK
<1>1. \A p \in Pc : [run EXCEPT ![e].pc = p] \in [Events -> Run]
  BY DEF Run
<1>2. \A p \in Pc, d \in Heights \cup {None} :
         [run EXCEPT ![e].pc = p, ![e].deployed = d] \in [Events -> Run]
  BY DEF Run
<1>3. \A p \in Pc, n \in 0..MaxHeight + 1 :
         [run EXCEPT ![e].pc = p, ![e].next = n] \in [Events -> Run]
  BY DEF Run
<1>4. \A p \in Pc, S \in SUBSET Wallets :
         [run EXCEPT ![e].pc = p, ![e].wallets = S] \in [Events -> Run]
  BY DEF Run
<1>5. \A z \in 1..ChunkSize : [run EXCEPT ![e].size = z] \in [Events -> Run]
  BY DEF Run
<1>6. \A p \in Pc, n \in 0..MaxHeight + 1, z \in 1..ChunkSize :
         [run EXCEPT ![e].pc = p, ![e].next = n, ![e].size = z] \in [Events -> Run]
  BY DEF Run
<1> QED
  BY <1>1, <1>2, <1>3, <1>4, <1>5, <1>6

LEMMA InitType == Init => TypeOK
<1> SUFFICES ASSUME Init PROVE TypeOK
  OBVIOUS
<1>1. NoBlock \in Block
  BY Numbers DEF NoBlock, Block
<1>2. Idle("none", 0) \in Run
  BY IdleType, Numbers DEF Pc
<1> QED
  BY <1>1, <1>2, Numbers DEF Init, TypeOK

LEMMA CreateType ==
  ASSUME TypeOK, NEW e \in Events, CreateEvent(e) \/ RetrySnapshot(e) \/ Start(e)
  PROVE  TypeOK'
<1>1. CASE CreateEvent(e)
  BY <1>1, RunFields DEF CreateEvent, TypeOK, Pc
<1>2. CASE RetrySnapshot(e)
  BY <1>2, IdleType, Numbers DEF RetrySnapshot, TypeOK, Pc
<1>3. CASE Start(e)
  <2> DEFINE attempts == IF run[e].attempts < MaxAttempts THEN run[e].attempts + 1
                                                          ELSE MaxAttempts
             target   == ResolveRecordBlock(e)
             begun    == [Idle("find", attempts) EXCEPT !.deployed = token.deployed,
                                                        !.target = target,
                                                        !.hash = Hash(target)]
  <2>1. attempts \in 0..MaxAttempts
    BY Numbers DEF TypeOK, Run
  <2>2. Idle("failed", attempts) \in Run /\ Idle("find", attempts) \in Run
    BY <2>1, IdleType DEF Pc, Busy
  <2>3. target \in Heights /\ Hash(target) \in Hashes /\ token.deployed \in Heights \cup {None}
    BY TargetType, HashType DEF TypeOK
  <2>4. begun \in Run
    BY <2>2, <2>3 DEF Run
  <2> QED
    BY <1>3, <2>2, <2>4 DEF Start, TypeOK
<1> QED
  BY <1>1, <1>2, <1>3

LEMMA FindType ==
  ASSUME TypeOK, NEW e \in Events, FindDeploymentBlock(e) \/ AcquireScanLock(e)
  PROVE  TypeOK'
<1> "lock" \in Pc /\ "cursor" \in Pc
  BY DEF Pc, Busy
<1>1. run' \in [Events -> Run] /\ scanLock' \in Events \cup {None}
  <2>1. CASE AcquireScanLock(e)
    BY <2>1, RunFields DEF AcquireScanLock
  <2>2. CASE ThrowPermanent(e)
    BY <2>2, ThrowType
  <2>3. CASE Goto(e, "lock") /\ UNCHANGED scanLock
    BY <2>3, RunFields DEF TypeOK
  <2>4. CASE run' = [run EXCEPT ![e].pc = "lock", ![e].deployed = DeploymentFound] /\ UNCHANGED scanLock
    BY <2>4, RunFields, Numbers, SearchExact DEF TypeOK
  <2> QED
    BY <2>1, <2>2, <2>3, <2>4 DEF FindDeploymentBlock
<1>2. token' \in [status : {"ABSENT", "VALIDATED", "UNSUPPORTED"}, deployed : Heights \cup {None}]
  BY Numbers, SearchExact DEF FindDeploymentBlock, AcquireScanLock, TypeOK
<1> QED
  BY <1>1, <1>2 DEF FindDeploymentBlock, AcquireScanLock, TypeOK

LEMMA ResumeType ==
  ASSUME TypeOK, NEW e \in Events, run[e].deployed \in Heights, NEW known \in Archived,
         cursor # None, ResumeAt(e, known) <= run[e].target
  PROVE  ResumeAt(e, known) \in 0..MaxHeight + 1
<1>1. cursor.block \in Nat /\ run[e].target \in Heights
  BY Numbers DEF TypeOK, Run
<1> QED
  BY <1>1, Numbers DEF ResumeAt, Heights

LEMMA UnlockType ==
  ASSUME TypeOK, NEW e \in Events, NEW p \in Pc, Goto(e, p), Unlock(e)
  PROVE  run' \in [Events -> Run] /\ scanLock' \in Events \cup {None}
<1>1. run' \in [Events -> Run]
  BY RunFields
<1>2. scanLock' \in Events \cup {None}
  BY DEF Unlock, TypeOK
<1> QED
  BY <1>1, <1>2

LEMMA ReadCursorType ==
  ASSUME TypeOK, NEW e \in Events, RunBounded(run[e]), ReadCursor(e)
  PROVE  TypeOK'
<1> "candidates" \in Pc /\ "logs" \in Pc
  BY DEF Pc, Busy
<1>1. run[e].deployed = DeployedAt /\ run[e].target \in Heights
  BY DEF ReadCursor, RunBounded, Busy, TypeOK, Run
<1>2. PICK known \in Archived :
        LET next == IF cursor = None THEN run[e].deployed ELSE ResumeAt(e, known) IN
        IF next > run[e].target
        THEN Goto(e, "candidates") /\ Unlock(e)
        ELSE /\ run' = [run EXCEPT ![e].pc = "logs", ![e].next = next]
             /\ UNCHANGED scanLock
  BY DEF ReadCursor
<1> DEFINE next == IF cursor = None THEN run[e].deployed ELSE ResumeAt(e, known)
<1>3. next <= run[e].target => next \in 0..MaxHeight + 1
  BY <1>1, ResumeType, Numbers DEF Heights
<1>4. next \in Int
  BY <1>1, Numbers DEF ResumeAt, TypeOK, Heights
<1>6. run[e].target \in Int
  BY <1>1, Numbers DEF Heights
<1>5. run' \in [Events -> Run] /\ scanLock' \in Events \cup {None}
  <2>1. CASE next > run[e].target
    <3>1. Goto(e, "candidates") /\ Unlock(e)
      BY <1>2, <2>1
    <3> QED
      BY <3>1, UnlockType
  <2>2. CASE next <= run[e].target
    <3>1. run' = [run EXCEPT ![e].pc = "logs", ![e].next = next] /\ UNCHANGED scanLock
      <4>1. ~(next > run[e].target)
        <5> HIDE DEF next
        <5> QED
          BY <1>4, <1>6, <2>2
      <4> QED
        BY <1>2, <4>1
    <3> HIDE DEF next
    <3> QED
      BY <1>3, <2>2, <3>1, RunFields DEF TypeOK
  <2> HIDE DEF next
  <2> QED
    BY <1>4, <1>6, <2>1, <2>2
<1> QED
  BY <1>5 DEF ReadCursor, TypeOK

LEMMA HalveType ==
  ASSUME NEW z \in 1..ChunkSize, z > 1
  PROVE  Halve(z) \in 1..ChunkSize
<1>1. z \in Int /\ z <= ChunkSize /\ ChunkSize \in Int
  BY Numbers
<1>2. z \div 2 \in Int /\ z \div 2 >= 1 /\ z \div 2 <= z
  BY <1>1
<1> QED
  BY <1>1, <1>2 DEF Halve

LEMMA LogsType ==
  ASSUME TypeOK, NEW e \in Events, RunBounded(run[e]), GetLogs(e) \/ RejectLogs(e)
  PROVE  TypeOK'
<1> "store" \in Pc
  BY DEF Pc, Busy
<1>1. run[e] \in Run /\ run[e].next <= run[e].target
  BY DEF GetLogs, RejectLogs, RunBounded, Busy, TypeOK
<1>2. \A n \in run[e].next..ChunkEnd(run[e]) : n \in Heights
  BY <1>1, ChunkEndType, Numbers DEF Run, Heights
<1>3. CASE GetLogs(e)
  <2>1. PICK known \in Archived :
          run' = [run EXCEPT ![e].pc = "store",
                     ![e].wallets = UNION {LoggedIn(n) :
                         n \in {i \in run[e].next..ChunkEnd(run[e]) : i <= known}}]
    BY <1>3 DEF GetLogs
  <2>2. UNION {LoggedIn(n) : n \in {i \in run[e].next..ChunkEnd(run[e]) : i <= known}} \subseteq Wallets
    BY <1>2, LoggedType DEF TypeOK
  <2> QED
    BY <1>3, <2>1, <2>2, RunFields DEF GetLogs, TypeOK
<1>4. CASE RejectLogs(e)
  <2>1. faults' \in 0..MaxFaults
    BY <1>4, Numbers DEF RejectLogs, TypeOK
  <2>2. CASE run[e].size > 1
    <3>0. run[e].size \in 1..ChunkSize
      BY <1>1 DEF Run
    <3>1. Halve(run[e].size) \in 1..ChunkSize
      BY <3>0, <2>2, HalveType
    <3>3. run' = [run EXCEPT ![e].size = Halve(run[e].size)] /\ UNCHANGED scanLock
      BY <1>4, <2>2 DEF RejectLogs
    <3>2. run' \in [Events -> Run]
      BY <3>1, <3>3, RunFields
    <3> QED
      BY <1>4, <2>1, <3>2, <3>3 DEF RejectLogs, TypeOK
  <2>3. CASE ~(run[e].size > 1)
    BY <1>4, <2>1, <2>3, ThrowType DEF RejectLogs, TypeOK
  <2> QED
    BY <2>2, <2>3
<1> QED
  BY <1>3, <1>4

LEMMA StoreType ==
  ASSUME TypeOK, NEW e \in Events, RunBounded(run[e]), StoreChunk(e)
  PROVE  TypeOK'
<1> "candidates" \in Pc /\ "logs" \in Pc
  BY DEF Pc, Busy
<1> DEFINE end == ChunkEnd(run[e])
           size == IF 2 * run[e].size < ChunkSize THEN 2 * run[e].size ELSE ChunkSize
<1>1. run[e] \in Run /\ run[e].next <= run[e].target
  BY DEF StoreChunk, RunBounded, Busy, TypeOK
<1>2. end \in Heights /\ end + 1 \in 0..MaxHeight + 1
  BY <1>1, ChunkEndType, Numbers DEF Heights
<1>3. candidates' \subseteq Wallets
  BY <1>1 DEF StoreChunk, TypeOK, Run
<1>4. cursor' \in [block : Heights, hash : {None} \cup Hashes]
  BY <1>2, HashType DEF StoreChunk, TypeOK
<1>5. run' \in [Events -> Run] /\ scanLock' \in Events \cup {None}
  <2>1. CASE end < run[e].target
    <3>1. size \in 1..ChunkSize
      BY <1>1, Numbers DEF Run
    <3>2. run' = [run EXCEPT ![e].pc = "logs", ![e].next = end + 1, ![e].size = size]
      BY <2>1 DEF StoreChunk, TypeOK
    <3> HIDE DEF end, size
    <3> QED
      BY <1>2, <3>1, <3>2, <2>1, RunFields DEF StoreChunk, TypeOK, end
  <2>2. CASE ~(end < run[e].target)
    BY <2>2, UnlockType DEF StoreChunk
  <2> QED
    BY <2>1, <2>2
<1> QED
  BY <1>3, <1>4, <1>5 DEF StoreChunk, TypeOK

LEMMA OutcomeType ==
  ASSUME TypeOK, NEW e \in Events, RunBounded(run[e]), LoadCandidates(e) \/ ReadBalances(e)
  PROVE  TypeOK'
<1> "balances" \in Pc /\ "done" \in Pc
  BY DEF Pc, Busy
<1>1. CASE LoadCandidates(e)
  <2>1. run' \in [Events -> Run] /\ scanLock' \in Events \cup {None}
    <3>1. CASE ThrowPermanent(e)
      BY <3>1, ThrowType
    <3>2. CASE /\ run' = [run EXCEPT ![e].pc = "balances", ![e].wallets = candidates]
               /\ UNCHANGED scanLock
      BY <3>2, RunFields DEF TypeOK
    <3> QED
      BY <1>1, <3>1, <3>2 DEF LoadCandidates
  <2> QED
    BY <1>1, <2>1 DEF LoadCandidates, TypeOK
<1>2. CASE ReadBalances(e)
  <2>1. run' \in [Events -> Run] /\ scanLock' \in Events \cup {None}
    BY <1>2, ThrowType, EndType DEF ReadBalances
  <2>2. token' \in [status : {"ABSENT", "VALIDATED", "UNSUPPORTED"}, deployed : Heights \cup {None}]
    BY <1>2 DEF ReadBalances, TypeOK
  <2>3. snapshot' \in [Events -> {None} \cup Snapshot]
    <3> DEFINE n == run[e].target
               stored == [block |-> n, hash |-> run[e].hash,
                          balances |-> Entries(Eligible(run[e].wallets, n), n)]
    <3>1. CASE UNCHANGED snapshot
      BY <3>1 DEF TypeOK
    <3>2. CASE snapshot' = [snapshot EXCEPT ![e] = stored]
      <4>1. n \in Heights /\ run[e].hash \in Hashes
        BY <1>2 DEF ReadBalances, RunBounded, Busy, TypeOK, Run
      <4>2. stored \in Snapshot
        BY <4>1, EntriesType DEF Snapshot
      <4> QED
        BY <3>2, <4>2 DEF TypeOK
    <3> QED
      BY <1>2, <3>1, <3>2 DEF ReadBalances
  <2> QED
    BY <1>2, <2>1, <2>2, <2>3 DEF ReadBalances, TypeOK
<1> QED
  BY <1>1, <1>2

-----------------------------------------------------------------------------
(* Completeness.  A step keeps the logs of final blocks, and of every      *)
(* block but the ones a deep reorganisation replaces between two runs.     *)

LogsKept(n) == LoggedIn(n)' = LoggedIn(n)

LEMMA SameChainLogs ==
  ASSUME UNCHANGED chain, NEW n
  PROVE  LogsKept(n)
  BY DEF LogsKept, LoggedIn

LEMMA FinalBelow ==
  ASSUME height \in Nat, NEW i \in Nat, NEW n \in Nat, i <= n, Final(n)
  PROVE  Final(i)
  BY Numbers DEF Final

LEMMA RunNumbers ==
  ASSUME NEW r \in Run
  PROVE  r.target \in Nat /\ r.next \in Nat /\ r.size \in Nat
<1>1. r.target \in Heights /\ r.next \in 0..MaxHeight + 1 /\ r.size \in 1..ChunkSize
  BY DEF Run
<1> QED
  BY <1>1, Numbers DEF Heights

(* What a run that does not move has looked at stays so.                   *)
LEMMA OtherSound ==
  ASSUME TypeOK, NEW f \in Events, RunSound(run[f]), run'[f] = run[f],
         candidates \subseteq candidates',
         run[f].pc \in Busy =>
             /\ Final(run[f].target)'
             /\ \A n \in DeployedAt..run[f].target : LogsKept(n)
  PROVE  RunSound(run[f])'
<1> DEFINE r == run[f]
<1>1. CASE r.pc \notin Busy
  BY <1>1 DEF RunSound
<1>2. CASE r.pc \in Busy
  <2>1. r \in Run /\ r.target \in Nat /\ r.next \in Nat /\ r.size \in Nat
    BY RunNumbers DEF TypeOK
  <2>2. Final(r.target)' /\ r.hash # None /\ r.deployed \in {None, DeployedAt}
        /\ (r.pc # "find" => r.deployed = DeployedAt)
    BY <1>2 DEF RunSound
  <2>3. r.pc \in {"logs", "store"} =>
          r.next <= r.target /\ FoundIn(candidates, DeployedAt, r.next - 1)'
    BY <1>2, <2>1, Numbers DEF RunSound, FoundIn, LogsKept
  <2>4. r.pc = "store" => FoundIn(r.wallets, r.next, ChunkEnd(r))'
    <3> SUFFICES ASSUME r.pc = "store", NEW n \in r.next..ChunkEnd(r)
                 PROVE  LoggedIn(n)' \subseteq r.wallets
      BY DEF FoundIn, ChunkEnd
    <3>1. LoggedIn(n) \subseteq r.wallets
      BY <1>2 DEF RunSound, FoundIn
    <3>2. ChunkEnd(r) \in Int /\ ChunkEnd(r) <= r.target
      BY <2>1 DEF ChunkEnd
    <3>3. CASE n < DeployedAt
      BY <3>3 DEF LoggedIn
    <3>4. CASE ~(n < DeployedAt)
      BY <1>2, <2>1, <3>1, <3>2, <3>4, Numbers DEF LogsKept
    <3> QED
      BY <3>3, <3>4
  <2>5. r.pc = "candidates" => FoundIn(candidates, DeployedAt, r.target)'
    BY <1>2, <2>1, Numbers DEF RunSound, FoundIn, LogsKept
  <2>6. r.pc = "balances" => FoundIn(r.wallets, DeployedAt, r.target)'
    BY <1>2, <2>1, Numbers DEF RunSound, FoundIn, LogsKept
  <2> QED
    BY <2>2, <2>3, <2>4, <2>5, <2>6 DEF RunSound
<1> QED
  BY <1>1, <1>2

(* A step of run e that leaves the chain, the cursor and the candidates    *)
(* alone.                                                                  *)
LEMMA QuietStep ==
  ASSUME ScanInv, TypeOK', NEW e \in Events,
         UNCHANGED <<chain, height, branch, cursor, candidates>>,
         \A f \in Events \ {e} : run'[f] = run[f],
         token'.deployed \in {None, DeployedAt},
         RunSound(run[e])'
  PROVE  ScanInv'
<1>1. \A n : LogsKept(n)
  BY SameChainLogs
<1>2. \A f \in Events : RunSound(run[f])'
  <2> SUFFICES ASSUME NEW f \in Events \ {e} PROVE RunSound(run[f])'
    OBVIOUS
  <2>1. run[f].pc \in Busy => Final(run[f].target)'
    BY DEF ScanInv, RunSound, Final
  <2> QED
    BY <1>1, <2>1, OtherSound DEF ScanInv
<1>3. CursorFinal' /\ BranchesKnown'
  BY DEF ScanInv, CursorFinal, Final, BranchesKnown
<1>4. CandidatesComplete'
  BY <1>1 DEF ScanInv, CandidatesComplete, FoundIn, LogsKept, Hash
<1> QED
  BY <1>2, <1>3, <1>4 DEF ScanInv

(* A run that ends has nothing left to be sound about.                     *)
LEMMA EndSound ==
  ASSUME TypeOK, NEW e \in Events, NEW label \in Pc \ Busy, End(e, label)
  PROVE  RunSound(run[e])' /\ \A f \in Events \ {e} : run'[f] = run[f]
  BY DEF End, Idle, RunSound, TypeOK

LEMMA ThrowSound ==
  ASSUME TypeOK, NEW e \in Events, Throw(e) \/ ThrowPermanent(e)
  PROVE  RunSound(run[e])' /\ \A f \in Events \ {e} : run'[f] = run[f]
  BY EndSound DEF Throw, ThrowPermanent, Pc, Busy

LEMMA CreateSound ==
  ASSUME ScanInv, NEW e \in Events, CreateEvent(e) \/ RetrySnapshot(e)
  PROVE  ScanInv'
<1>1. TypeOK'
  BY CreateType DEF ScanInv
<1>2. RunSound(run[e])' /\ \A f \in Events \ {e} : run'[f] = run[f]
  <2>1. run'[e].pc = "queued" /\ \A f \in Events \ {e} : run'[f] = run[f]
    BY DEF CreateEvent, RetrySnapshot, Idle, ScanInv, TypeOK, Run
  <2> QED
    BY <2>1 DEF RunSound, Busy
<1>3. UNCHANGED <<chain, height, branch, cursor, candidates>>
  BY DEF CreateEvent, RetrySnapshot
<1>4. token'.deployed \in {None, DeployedAt}
  BY DEF CreateEvent, RetrySnapshot, ScanInv, TypeOK
<1> QED
  BY <1>1, <1>2, <1>3, <1>4, QuietStep

LEMMA StartSound ==
  ASSUME ScanInv, NEW e \in Events, Start(e)
  PROVE  ScanInv'
<1>1. TypeOK'
  BY CreateType DEF ScanInv
<1>2. \A f \in Events \ {e} : run'[f] = run[f]
  BY DEF Start, ScanInv, TypeOK
<1>3. RunSound(run[e])'
  <2>1. CASE RecordAt[e] > height
    BY <2>1 DEF Start, Idle, RunSound, Busy, ScanInv, TypeOK
  <2>2. CASE ~(RecordAt[e] > height)
    <3> DEFINE target == ResolveRecordBlock(e)
    <3>1. /\ run'[e].pc = "find" /\ run'[e].target = target
          /\ run'[e].hash = Hash(target) /\ run'[e].deployed = token.deployed
      BY <2>2 DEF Start, Idle, ScanInv, TypeOK
    <3>2. Final(target) /\ Hash(target) # None
      <4>1. Hash(target) # None
        <5>1. Hash(target) \in Hashes
          BY TargetType, HashType DEF ScanInv, TypeOK
        <5>2. Hashes \subseteq Nat \X Nat
          BY Numbers DEF Hashes, Heights
        <5> QED
          BY <5>1, <5>2, SnapshotScanAssumption
      <4> QED
        BY <4>1, TargetType DEF ScanInv
    <3>3. height' = height
      BY DEF Start
    <3> HIDE DEF target
    <3> QED
      BY <3>1, <3>2, <3>3 DEF RunSound, Final, ScanInv
  <2> QED
    BY <2>1, <2>2
<1> QED
  BY <1>1, <1>2, <1>3, QuietStep DEF Start, ScanInv

LEMMA FindSound ==
  ASSUME ScanInv, NEW e \in Events, FindDeploymentBlock(e) \/ AcquireScanLock(e)
  PROVE  ScanInv'
<1> run \in [Events -> Run] /\ RunSound(run[e]) /\ run[e] \in Run
  BY DEF ScanInv, TypeOK
<1>1. TypeOK'
  BY FindType DEF ScanInv
<1>2. RunSound(run[e])' /\ \A f \in Events \ {e} : run'[f] = run[f]
  <2>1. CASE ThrowPermanent(e)
    BY <2>1, ThrowSound DEF ScanInv
  <2>2. CASE AcquireScanLock(e)
    BY <2>2 DEF AcquireScanLock, RunSound, Busy, Final, Run
  <2>3. CASE FindDeploymentBlock(e) /\ ~ThrowPermanent(e)
    <3>1. /\ run'[e].pc = "lock" /\ run'[e].deployed = DeployedAt
          /\ run'[e].target = run[e].target /\ run'[e].hash = run[e].hash
          /\ height' = height
      BY <2>3, SearchExact DEF FindDeploymentBlock, RunSound, Busy, Run
    <3>2. run[e].pc \in Busy
      BY <2>3 DEF FindDeploymentBlock, Busy
    <3>3. \A f \in Events \ {e} : run'[f] = run[f]
      BY <2>3 DEF FindDeploymentBlock
    <3> QED
      BY <3>1, <3>2, <3>3 DEF RunSound, Final
  <2> QED
    BY <2>1, <2>2, <2>3
<1>3. UNCHANGED <<chain, height, branch, cursor, candidates>>
  BY DEF FindDeploymentBlock, AcquireScanLock
<1>4. token'.deployed \in {None, DeployedAt}
  BY SearchExact DEF FindDeploymentBlock, AcquireScanLock, ScanInv, TypeOK
<1> QED
  BY <1>1, <1>2, <1>3, <1>4, QuietStep

(* Where a scan resumes, everything below has been scanned.                *)
LEMMA ResumeComplete ==
  ASSUME ScanInv, NEW e \in Events, run[e].deployed = DeployedAt, cursor # None,
         NEW known \in Archived, NEW n \in Nat, n < ResumeAt(e, known)
  PROVE  LoggedIn(n) \subseteq candidates
<1>1. cursor.block \in Nat
  BY Numbers DEF ScanInv, TypeOK, Heights
<1>2. CASE n < DeployedAt
  BY <1>2 DEF LoggedIn
<1>3. CASE DeployedAt <= n /\ n <= cursor.block - Overlap - 1
  BY <1>1, <1>3, Numbers DEF ScanInv, CandidatesComplete, FoundIn
<1>4. CASE Hash(cursor.block) = cursor.hash /\ DeployedAt <= n /\ n <= cursor.block
  BY <1>1, <1>4, Numbers DEF ScanInv, CandidatesComplete, FoundIn
<1>5. cursor.hash # None
  BY DEF ScanInv, CursorFinal
<1>6. CASE ResumeAt(e, known) = cursor.block + 1 /\ Hash(cursor.block) = cursor.hash
  BY <1>1, <1>2, <1>4, <1>6, Numbers
<1>7. CASE ResumeAt(e, known) = cursor.block - Overlap
  BY <1>1, <1>2, <1>3, <1>7, Numbers
<1>8. CASE ResumeAt(e, known) = DeployedAt
  BY <1>2, <1>8
<1> QED
  BY <1>5, <1>6, <1>7, <1>8 DEF ResumeAt

LEMMA ReadCursorSound ==
  ASSUME ScanInv, NEW e \in Events, ReadCursor(e)
  PROVE  ScanInv'
<1> run \in [Events -> Run] /\ RunSound(run[e]) /\ run[e] \in Run
  BY DEF ScanInv, TypeOK
<1>1. TypeOK'
  BY ReadCursorType, SoundBounded DEF ScanInv
<1>2. run[e].deployed = DeployedAt /\ Final(run[e].target) /\ run[e].hash # None
  BY DEF ReadCursor, RunSound, Busy
<1>3. PICK known \in Archived :
        LET next == IF cursor = None THEN run[e].deployed ELSE ResumeAt(e, known) IN
        IF next > run[e].target
        THEN Goto(e, "candidates") /\ Unlock(e)
        ELSE /\ run' = [run EXCEPT ![e].pc = "logs", ![e].next = next]
             /\ UNCHANGED scanLock
  BY DEF ReadCursor
<1> DEFINE next == IF cursor = None THEN run[e].deployed ELSE ResumeAt(e, known)
<1>4. next \in Int /\ run[e].target \in Nat
  BY <1>2, Numbers, RunNumbers DEF ResumeAt, ScanInv, TypeOK, Heights
<1>5. \A n \in Nat : n < next => LoggedIn(n) \subseteq candidates
  <2>1. CASE cursor = None
    BY <1>2, <2>1 DEF LoggedIn
  <2>2. CASE cursor # None
    BY <1>2, <2>2, ResumeComplete
  <2> QED
    BY <2>1, <2>2
<1>6. UNCHANGED <<chain, height, branch, cursor, candidates>> /\ token' = token
  BY DEF ReadCursor
<1>7. \A n : LogsKept(n)
  BY <1>6, SameChainLogs
<1>8. RunSound(run[e])' /\ \A f \in Events \ {e} : run'[f] = run[f]
  <2>1. CASE next > run[e].target
    <3>1. Goto(e, "candidates")
      BY <1>3, <2>1
    <3>2. /\ run'[e].pc = "candidates" /\ run'[e].target = run[e].target
          /\ run'[e].hash = run[e].hash /\ run'[e].deployed = run[e].deployed
          /\ \A f \in Events \ {e} : run'[f] = run[f]
      BY <3>1 DEF Run
    <3>3. FoundIn(candidates, DeployedAt, run[e].target)
      <4> HIDE DEF next
      <4> QED
        BY <1>4, <1>5, <2>1, Numbers DEF FoundIn
    <3>4. FoundIn(candidates, DeployedAt, run[e].target)'
      BY <1>6, <1>7, <3>2, <3>3 DEF FoundIn, LogsKept
    <3> QED
      BY <1>2, <1>6, <3>2, <3>4 DEF RunSound, Final
  <2>2. CASE ~(next > run[e].target)
    <3>1. run' = [run EXCEPT ![e].pc = "logs", ![e].next = next]
      BY <1>3, <2>2
    <3> HIDE DEF next
    <3>2. /\ run'[e].pc = "logs" /\ run'[e].target = run[e].target /\ run'[e].next = next
          /\ run'[e].hash = run[e].hash /\ run'[e].deployed = run[e].deployed
          /\ \A f \in Events \ {e} : run'[f] = run[f]
      BY <3>1 DEF Run
    <3>3. next <= run[e].target /\ FoundIn(candidates, DeployedAt, next - 1)
      BY <1>4, <1>5, <2>2, Numbers DEF FoundIn
    <3>4. FoundIn(candidates, DeployedAt, run[e].next - 1)'
      BY <1>6, <1>7, <3>2, <3>3 DEF FoundIn, LogsKept
    <3> QED
      BY <1>2, <1>6, <3>2, <3>3, <3>4 DEF RunSound, Final
  <2> QED
    BY <2>1, <2>2
<1> QED
  BY <1>1, <1>6, <1>8, QuietStep DEF ScanInv

(* A scanned block is known to the archive node.                           *)
LEMMA FinalArchived ==
  ASSUME TypeOK, MaxLag <= Confirmations, NEW known \in Archived, NEW n \in Nat, Final(n)
  PROVE  n <= known
<1>1. known \in Nat /\ known + MaxLag >= height /\ height \in Nat /\ MaxLag \in Nat
  BY SnapshotScanAssumption, Numbers DEF Archived, TypeOK, Heights
<1> QED
  BY <1>1, Numbers DEF Final

LEMMA GetLogsSound ==
  ASSUME ScanInv, MaxLag <= Confirmations, NEW e \in Events, GetLogs(e)
  PROVE  ScanInv'
<1> DEFINE r == run[e]
           end == ChunkEnd(r)
<1> run \in [Events -> Run] /\ RunSound(r) /\ r \in Run
  BY DEF ScanInv, TypeOK
<1>1. TypeOK'
  BY LogsType, SoundBounded DEF ScanInv
<1>2. /\ r.deployed = DeployedAt /\ Final(r.target) /\ r.hash # None
      /\ r.next <= r.target /\ FoundIn(candidates, DeployedAt, r.next - 1)
  BY DEF GetLogs, RunSound, Busy
<1>3. PICK known \in Archived :
        run' = [run EXCEPT ![e].pc = "store",
                  ![e].wallets = UNION {LoggedIn(n) : n \in {i \in r.next..end : i <= known}}]
  BY DEF GetLogs
<1>4. /\ run'[e].pc = "store" /\ run'[e].next = r.next /\ run'[e].size = r.size
      /\ run'[e].target = r.target /\ run'[e].hash = r.hash /\ run'[e].deployed = r.deployed
      /\ run'[e].wallets = UNION {LoggedIn(n) : n \in {i \in r.next..end : i <= known}}
      /\ \A f \in Events \ {e} : run'[f] = run[f]
  BY <1>3 DEF Run
<1>5. UNCHANGED <<chain, height, branch, cursor, candidates>> /\ token' = token
  BY DEF GetLogs
<1>6. \A n : LogsKept(n)
  BY <1>5, SameChainLogs
<1>7. \A n \in r.next..end : LoggedIn(n) \subseteq run'[e].wallets
  <2> SUFFICES ASSUME NEW n \in r.next..end PROVE LoggedIn(n) \subseteq run'[e].wallets
    OBVIOUS
  <2>1. end <= r.target /\ end \in Nat /\ r.next \in Nat /\ r.target \in Nat
    BY <1>2, ChunkEndType, RunNumbers, Numbers DEF Heights
  <2>2. n \in Nat /\ n <= r.target
    BY <2>1
  <2>3. Final(n)
    BY <1>2, <2>1, <2>2, FinalBelow, Numbers DEF ScanInv, TypeOK, Heights
  <2>4. n <= known
    BY <2>2, <2>3, FinalArchived DEF ScanInv
  <2> QED
    BY <1>4, <2>4
<1>8. ChunkEnd(run[e])' = end
  BY <1>4 DEF ChunkEnd
<1>9. FoundIn(run[e].wallets, run[e].next, ChunkEnd(run[e]))'
  BY <1>4, <1>6, <1>7, <1>8 DEF FoundIn, LogsKept
<1>10. FoundIn(candidates, DeployedAt, run[e].next - 1)'
  BY <1>2, <1>4, <1>5, <1>6 DEF FoundIn, LogsKept
<1>11. RunSound(run[e])'
  BY <1>2, <1>4, <1>5, <1>9, <1>10 DEF RunSound, Final
<1> QED
  BY <1>1, <1>4, <1>5, <1>11, QuietStep DEF ScanInv

LEMMA RejectSound ==
  ASSUME ScanInv, NEW e \in Events, RejectLogs(e)
  PROVE  ScanInv'
<1> run \in [Events -> Run] /\ RunSound(run[e]) /\ run[e] \in Run
  BY DEF ScanInv, TypeOK
<1>1. TypeOK'
  BY LogsType, SoundBounded DEF ScanInv
<1>2. UNCHANGED <<chain, height, branch, cursor, candidates>> /\ token' = token
  BY DEF RejectLogs
<1>3. RunSound(run[e])' /\ \A f \in Events \ {e} : run'[f] = run[f]
  <2>1. CASE Throw(e)
    BY <2>1, ThrowSound DEF ScanInv
  <2>2. CASE run' = [run EXCEPT ![e].size = Halve(run[e].size)]
    <3>1. /\ run'[e].pc = "logs" /\ run'[e].next = run[e].next /\ run[e].pc = "logs"
          /\ run'[e].target = run[e].target /\ run'[e].hash = run[e].hash
          /\ run'[e].deployed = run[e].deployed
          /\ \A f \in Events \ {e} : run'[f] = run[f]
      BY <2>2 DEF RejectLogs, Run
    <3>2. FoundIn(candidates, DeployedAt, run[e].next - 1)'
      BY <1>2, <3>1, SameChainLogs DEF FoundIn, LogsKept, RunSound, Busy
    <3> QED
      BY <1>2, <3>1, <3>2 DEF RunSound, Final, Busy
  <2> QED
    BY <2>1, <2>2 DEF RejectLogs
<1> QED
  BY <1>1, <1>2, <1>3, QuietStep DEF ScanInv

LEMMA OutcomeSound ==
  ASSUME ScanInv, NEW e \in Events,
         LoadCandidates(e) \/ ReadBalances(e) \/ RpcFails(e) \/ Crash(e)
  PROVE  ScanInv'
<1> run \in [Events -> Run] /\ RunSound(run[e]) /\ run[e] \in Run
  BY DEF ScanInv, TypeOK
<1>1. TypeOK'
  <2>1. CASE LoadCandidates(e) \/ ReadBalances(e)
    BY <2>1, OutcomeType, SoundBounded DEF ScanInv
  <2>2. CASE RpcFails(e) \/ Crash(e)
    <3>1. run' \in [Events -> Run] /\ scanLock' \in Events \cup {None}
      BY <2>2, ThrowType, EndType DEF RpcFails, Crash, Pc, ScanInv
    <3>2. faults' \in 0..MaxFaults
      BY <2>2, Numbers DEF RpcFails, Crash, ScanInv, TypeOK
    <3> QED
      BY <2>2, <3>1, <3>2 DEF RpcFails, Crash, ScanInv, TypeOK
  <2> QED
    BY <2>1, <2>2
<1>2. UNCHANGED <<chain, height, branch, cursor, candidates>>
  BY DEF LoadCandidates, ReadBalances, RpcFails, Crash
<1>3. token'.deployed \in {None, DeployedAt}
  BY DEF LoadCandidates, ReadBalances, RpcFails, Crash, ScanInv, TypeOK
<1>4. RunSound(run[e])' /\ \A f \in Events \ {e} : run'[f] = run[f]
  <2>1. CASE Throw(e) \/ ThrowPermanent(e)
    BY <2>1, ThrowSound DEF ScanInv
  <2>2. CASE End(e, "done") \/ End(e, "queued")
    BY <2>2, EndSound DEF ScanInv, Pc, Busy
  <2>3. CASE run' = [run EXCEPT ![e].pc = "balances", ![e].wallets = candidates]
             /\ run[e].pc = "candidates"
    <3>1. /\ run'[e].pc = "balances" /\ run'[e].wallets = candidates
          /\ run'[e].target = run[e].target /\ run'[e].hash = run[e].hash
          /\ run'[e].deployed = run[e].deployed
          /\ \A f \in Events \ {e} : run'[f] = run[f]
      BY <2>3 DEF Run
    <3>2. FoundIn(run[e].wallets, DeployedAt, run[e].target)'
      BY <1>2, <2>3, <3>1, SameChainLogs DEF FoundIn, LogsKept, RunSound, Busy
    <3> QED
      BY <1>2, <2>3, <3>1, <3>2 DEF RunSound, Final, Busy
  <2> QED
    BY <2>1, <2>2, <2>3 DEF LoadCandidates, ReadBalances, RpcFails, Crash
<1> QED
  BY <1>1, <1>2, <1>3, <1>4, QuietStep

LEMMA StoreSound ==
  ASSUME ScanInv, MaxLag <= Confirmations, NEW e \in Events, StoreChunk(e)
  PROVE  ScanInv'
<1> DEFINE r == run[e]
           end == ChunkEnd(r)
<1> run \in [Events -> Run] /\ RunSound(r) /\ r \in Run
  BY DEF ScanInv, TypeOK
<1>1. TypeOK'
  BY StoreType, SoundBounded DEF ScanInv
<1>2. /\ r.pc = "store" /\ r.deployed = DeployedAt /\ Final(r.target) /\ r.hash # None
      /\ r.next <= r.target /\ FoundIn(candidates, DeployedAt, r.next - 1)
      /\ FoundIn(r.wallets, r.next, end)
  BY DEF StoreChunk, RunSound, Busy
<1>3. end \in Heights /\ end \in Nat /\ end <= r.target /\ r.next <= end
      /\ r.next \in Nat /\ r.target \in Nat /\ height \in Nat
  BY <1>2, ChunkEndType, RunNumbers, Numbers DEF Heights, ScanInv, TypeOK
<1>4. UNCHANGED <<chain, height, branch, token>> /\ candidates' = candidates \cup r.wallets
  BY DEF StoreChunk
<1>5. \A n : LogsKept(n)
  BY <1>4, SameChainLogs
<1>6. Final(end)
  BY <1>2, <1>3, FinalBelow
<1>7. \A n \in DeployedAt..end : LoggedIn(n)' \subseteq candidates'
  <2> SUFFICES ASSUME NEW n \in DeployedAt..end PROVE LoggedIn(n) \subseteq candidates'
    BY <1>5 DEF LogsKept
  <2>1. CASE n <= r.next - 1
    BY <1>2, <1>3, <1>4, <2>1, Numbers DEF FoundIn
  <2>2. CASE ~(n <= r.next - 1)
    <3>1. n \in r.next..end
      BY <1>3, <2>2, Numbers
    <3> QED
      BY <1>2, <1>4, <3>1 DEF FoundIn
  <2> QED
    BY <2>1, <2>2
<1>8. cursor' = [block |-> end, hash |-> Hash(end)]
  <2>1. PICK known \in Archived :
          cursor' = [block |-> end, hash |-> IF end <= known THEN Hash(end) ELSE None]
    BY DEF StoreChunk
  <2> QED
    BY <1>3, <1>6, <2>1, FinalArchived DEF ScanInv
<1>9. Hash(end) # None /\ Hash(end)[1] = end /\ Hash(end)[2] <= branch
  <2>1. Hash(end) \in Hashes /\ Hashes \subseteq Nat \X Nat
    BY <1>3, HashType, Numbers DEF ScanInv, TypeOK, Hashes, Heights
  <2>2. Hash(end) # None
    BY <2>1, SnapshotScanAssumption
  <2>3. Hash(end)[1] = end /\ Hash(end)[2] = chain[end].branch
    BY DEF Hash
  <2> QED
    BY <1>3, <2>2, <2>3 DEF ScanInv, BranchesKnown
<1>10. CursorFinal'
  <2> HIDE DEF end
  <2> QED
    BY <1>4, <1>6, <1>8, <1>9 DEF CursorFinal, Final
<1>11. CandidatesComplete'
  <2>1. cursor'.block = end
    BY <1>8
  <2> HIDE DEF end
  <2>2. FoundIn(candidates, DeployedAt, cursor.block - Overlap - 1)'
    BY <1>3, <1>7, <2>1, Numbers DEF FoundIn
  <2>3. FoundIn(candidates, DeployedAt, cursor.block)'
    BY <1>7, <2>1 DEF FoundIn
  <2> QED
    BY <2>2, <2>3 DEF CandidatesComplete
<1>12. \A f \in Events \ {e} : run'[f] = run[f]
  BY DEF StoreChunk
<1>13. \A f \in Events \ {e} : RunSound(run[f])'
  <2> SUFFICES ASSUME NEW f \in Events \ {e} PROVE RunSound(run[f])'
    OBVIOUS
  <2>1. run[f].pc \in Busy => Final(run[f].target)'
    BY <1>4, <1>12 DEF ScanInv, RunSound, Final
  <2>2. candidates \subseteq candidates'
    BY <1>4
  <2> QED
    BY <1>5, <1>12, <2>1, <2>2, OtherSound DEF ScanInv
<1>14. RunSound(run[e])'
  <2>1. /\ run'[e].target = r.target /\ run'[e].hash = r.hash /\ run'[e].deployed = r.deployed
        /\ \/ end < r.target /\ run'[e].pc = "logs" /\ run'[e].next = end + 1
           \/ ~(end < r.target) /\ run'[e].pc = "candidates"
    <3>1. CASE end < r.target
      <4>1. PICK size : run' = [run EXCEPT ![e].pc = "logs", ![e].next = end + 1, ![e].size = size]
        BY <3>1 DEF StoreChunk
      <4> HIDE DEF end
      <4> QED
        BY <3>1, <4>1 DEF Run, ScanInv, TypeOK
    <3>2. CASE ~(end < r.target)
      <4>1. Goto(e, "candidates")
        BY <3>2 DEF StoreChunk
      <4> HIDE DEF end
      <4> QED
        BY <3>2, <4>1 DEF Run
    <3> QED
      BY <3>1, <3>2
  <2>2. Final(r.target)'
    <3>1. run'[e].target = run[e].target /\ Final(run[e].target)
      BY <1>2, <2>1
    <3> HIDE DEF r
    <3> QED
      BY <1>4, <3>1 DEF r, Final
  <2>3. CASE end < r.target /\ run'[e].pc = "logs" /\ run'[e].next = end + 1
    <3>1. run'[e].next <= r.target /\ FoundIn(candidates, DeployedAt, run[e].next - 1)'
      <4>1. run'[e].next - 1 = end
        BY <1>3, <2>3
      <4> QED
        BY <1>3, <1>7, <2>1, <2>3, <4>1 DEF FoundIn
    <3> QED
      BY <1>2, <2>1, <2>2, <2>3, <3>1 DEF RunSound, Final
  <2>4. CASE ~(end < r.target) /\ run'[e].pc = "candidates"
    <3>1. end = r.target
      BY <1>3, <2>4
    <3>2. FoundIn(candidates, DeployedAt, run[e].target)'
      BY <1>7, <2>1, <3>1 DEF FoundIn
    <3> QED
      BY <1>2, <2>1, <2>2, <2>4, <3>2 DEF RunSound, Final
  <2> QED
    BY <2>1, <2>3, <2>4
<1>15. BranchesKnown' /\ token'.deployed \in {None, DeployedAt} /\ DeployedAt <= height'
  BY <1>4 DEF ScanInv, BranchesKnown
<1> QED
  BY <1>1, <1>10, <1>11, <1>13, <1>14, <1>15 DEF ScanInv

LEMMA MineSound ==
  ASSUME ScanInv, NEW m \in Moves \cup {None}, Mine(m)
  PROVE  ScanInv'
<1> chain \in [Heights -> Block] /\ height \in Nat /\ height' = height + 1
  BY Numbers DEF ScanInv, TypeOK, Heights, Mine
<1>1. height + 1 \in Heights
  BY Numbers DEF Mine, Heights
<1>2. chain' \in [Heights -> Block]
  BY <1>1 DEF Mine, Block, ScanInv, TypeOK
<1>3. TypeOK'
  BY <1>1, <1>2 DEF Mine, ScanInv, TypeOK
<1>4. \A n \in Nat : n <= height => chain'[n] = chain[n]
  BY Numbers DEF Mine, Heights
<1>5. \A n \in Nat : n <= height => LogsKept(n) /\ Hash(n)' = Hash(n)
  BY <1>4 DEF LogsKept, LoggedIn, Hash
<1>6. \A n \in Nat : Final(n) => n <= height /\ Final(n)'
  BY Numbers DEF Final
<1>7. \A e \in Events : RunSound(run[e])'
  <2> SUFFICES ASSUME NEW e \in Events PROVE RunSound(run[e])'
    OBVIOUS
  <2>1. run[e] \in Run /\ run'[e] = run[e] /\ RunSound(run[e]) /\ candidates' = candidates
    BY DEF ScanInv, TypeOK, Mine
  <2>2. run[e].target \in Nat
    BY <2>1, RunNumbers
  <2>3. run[e].pc \in Busy =>
          /\ Final(run[e].target)'
          /\ \A n \in DeployedAt..run[e].target : LogsKept(n)
    <3> SUFFICES ASSUME run[e].pc \in Busy
                 PROVE  /\ Final(run[e].target)'
                        /\ \A n \in DeployedAt..run[e].target : LogsKept(n)
      OBVIOUS
    <3>1. Final(run[e].target)
      BY <2>1 DEF RunSound
    <3>2. run[e].target <= height /\ Final(run[e].target)'
      BY <1>6, <2>1, <2>2, <3>1 DEF Final
    <3> QED
      BY <1>5, <2>2, <3>2, Numbers
  <2> QED
    BY <2>1, <2>3, OtherSound DEF ScanInv
<1>10. BranchesKnown' /\ token' = token /\ DeployedAt <= height'
  BY <1>1, Numbers DEF BranchesKnown, Mine, ScanInv, TypeOK
<1>8. CASE cursor = None
  BY <1>3, <1>7, <1>8, <1>10 DEF ScanInv, CursorFinal, CandidatesComplete, Mine
<1>9. CASE cursor # None
  <2>1. cursor.block \in Nat /\ Final(cursor.block) /\ cursor' = cursor
    BY <1>9, Numbers DEF ScanInv, CursorFinal, TypeOK, Heights, Mine
  <2>2. cursor.block <= height /\ Final(cursor.block)'
    BY <1>6, <2>1 DEF Final
  <2>3. CursorFinal'
    BY <1>9, <2>1, <2>2 DEF CursorFinal, ScanInv, Mine
  <2>4. \A n \in DeployedAt..cursor.block : LogsKept(n)
    BY <1>5, <2>1, <2>2, Numbers
  <2>5. CandidatesComplete'
    BY <1>5, <1>9, <2>1, <2>2, <2>4, Numbers DEF CandidatesComplete, FoundIn, LogsKept, ScanInv, Mine
  <2> QED
    BY <1>3, <1>7, <1>10, <2>3, <2>5 DEF ScanInv
<1> QED
  BY <1>8, <1>9

(* A reorganisation leaves what a run has looked at, and changes the hash  *)
(* of every block it replaces.                                             *)
LEMMA ReorgSound ==
  ASSUME ScanInv, NEW depth \in Heights, NEW i \in Heights, NEW m \in Moves \cup {None},
         Reorg(depth, i, m)
  PROVE  ScanInv'
<1> DEFINE cut == height - depth
<1>1. /\ chain \in [Heights -> Block] /\ height \in Nat /\ height <= MaxHeight
      /\ depth \in Nat /\ branch \in Nat /\ branch + 1 \in 0..MaxReorgs
  BY Numbers DEF ScanInv, TypeOK, Heights, Reorg
<1>2. cut \in Nat /\ DeployedAt <= cut /\ cut <= height
  BY <1>1, Numbers DEF Reorg, Heights
<1>3. /\ UNCHANGED <<height, token, cursor, candidates, run>>
      /\ branch' = branch + 1
  BY DEF Reorg
<1>4. \A n \in Heights :
         IF n \in cut + 1..height
         THEN chain'[n].branch = branch + 1 /\ chain'[n] \in Block
         ELSE chain'[n] = chain[n]
  BY <1>1 DEF Reorg, Block
<1>5. chain' \in [Heights -> Block]
  BY <1>1, <1>4 DEF Reorg
<1>6. TypeOK'
  BY <1>1, <1>5 DEF Reorg, ScanInv, TypeOK
<1>7. \A n \in Nat : n <= cut => LogsKept(n) /\ Hash(n)' = Hash(n)
  <2> SUFFICES ASSUME NEW n \in Nat, n <= cut PROVE LogsKept(n) /\ Hash(n)' = Hash(n)
    OBVIOUS
  <2>1. chain'[n] = chain[n]
    BY <1>1, <1>2, <1>4, Numbers DEF Heights
  <2> QED
    BY <2>1 DEF LogsKept, LoggedIn, Hash
<1> HIDE DEF cut
<1>8. BranchesKnown'
  BY <1>1, <1>3, <1>4 DEF BranchesKnown, ScanInv, Block, Heights
<1>9. ASSUME NEW e \in Events PROVE RunSound(run[e])'
  <2>1. run[e] \in Run /\ RunSound(run[e]) /\ run[e].target \in Nat
    BY RunNumbers DEF ScanInv, TypeOK
  <2>2. ASSUME run[e].pc \in Busy
        PROVE  Final(run[e].target)' /\ \A n \in DeployedAt..run[e].target : LogsKept(n)
    <3>1. depth <= Confirmations
      BY <2>2 DEF Reorg, MaxDepth, Running
    <3>2. Final(run[e].target)
      BY <2>1, <2>2 DEF RunSound
    <3>3. run[e].target <= cut
      BY <1>1, <1>2, <2>1, <3>1, <3>2, Numbers DEF Final, cut
    <3>4. \A n \in DeployedAt..run[e].target : n \in Nat /\ n <= cut
      BY <1>2, <2>1, <3>3, Numbers
    <3> QED
      BY <1>3, <1>7, <3>2, <3>4 DEF Final
  <2> QED
    BY <1>3, <2>1, <2>2, OtherSound DEF ScanInv
<1>10. CASE cursor = None
  BY <1>3, <1>6, <1>8, <1>9, <1>10 DEF ScanInv, CursorFinal, CandidatesComplete
<1>11. CASE cursor # None
  <2> DEFINE b == cursor.block
  <2>1. b \in Nat /\ b \in Heights /\ cursor.hash[2] <= branch /\ cursor.hash[2] \in Nat
        /\ b <= height /\ Final(b)
    <3>1. Final(b) /\ b \in Heights /\ cursor.hash # None /\ cursor.hash[2] <= branch
      BY <1>11 DEF ScanInv, CursorFinal, TypeOK
    <3>2. cursor.hash \in Heights \X (0..MaxReorgs)
      BY <1>11, <3>1 DEF ScanInv, TypeOK, Hashes
    <3>3. b \in Nat /\ b <= height
      BY <1>1, <3>1, Numbers DEF Final, Heights
    <3> QED
      BY <3>1, <3>2, <3>3, Numbers
  <2>2. CursorFinal'
    BY <1>1, <1>3, <1>11, <2>1 DEF ScanInv, CursorFinal, Final
  <2>3. ASSUME NEW n \in DeployedAt..b - Overlap - 1
        PROVE  LoggedIn(n)' \subseteq candidates'
    <3>1. depth <= Confirmations + Overlap + 1
      BY Numbers DEF Reorg, MaxDepth
    <3>2. n \in Nat /\ n <= cut
      BY <1>1, <1>2, <2>1, <3>1, Numbers DEF Final, cut
    <3>3. LoggedIn(n) \subseteq candidates
      BY <1>11, <2>3 DEF ScanInv, CandidatesComplete, FoundIn
    <3> QED
      BY <1>3, <1>7, <3>2, <3>3 DEF LogsKept
  <2>4. ASSUME Hash(cursor.block)' = cursor.hash, NEW n \in DeployedAt..b
        PROVE  LoggedIn(n)' \subseteq candidates'
    <3>1. b <= cut
      <4>1. Hash(cursor.block)' = <<b, chain'[b].branch>>
        BY <1>3 DEF Hash
      <4>2. chain'[b].branch <= branch
        BY <2>1, <2>4, <4>1
      <4> HIDE DEF b
      <4> QED
        BY <1>1, <1>2, <1>4, <2>1, <4>2
    <3>2. Hash(cursor.block) = cursor.hash
      BY <1>3, <1>7, <2>1, <2>4, <3>1
    <3>3. LoggedIn(n) \subseteq candidates
      BY <1>11, <2>4, <3>2 DEF ScanInv, CandidatesComplete, FoundIn
    <3>4. n \in Nat /\ n <= cut
      BY <1>2, <2>1, <3>1, Numbers
    <3> QED
      BY <1>3, <1>7, <3>3, <3>4 DEF LogsKept
  <2>5. CandidatesComplete'
    BY <1>3, <2>3, <2>4 DEF CandidatesComplete, FoundIn
  <2> QED
    BY <1>2, <1>3, <1>6, <1>8, <1>9, <2>2, <2>5, Numbers DEF ScanInv
<1> QED
  BY <1>10, <1>11

LEMMA InitScan == Init => ScanInv
<1> SUFFICES ASSUME Init PROVE ScanInv
  OBVIOUS
<1>1. TypeOK
  BY InitType
<1>2. token.deployed = None /\ height = DeployedAt /\ cursor = None
  BY DEF Init
<1>3. \A e \in Events : RunSound(run[e])
  BY DEF Init, Idle, RunSound, Busy
<1>4. BranchesKnown
  BY DEF Init, BranchesKnown, NoBlock
<1> QED
  BY <1>1, <1>2, <1>3, <1>4, Numbers DEF ScanInv, CursorFinal, CandidatesComplete

LEMMA StutterScan ==
  ASSUME ScanInv, UNCHANGED vars
  PROVE  ScanInv'
<1>1. TypeOK'
  BY DEF ScanInv, TypeOK
<1>2. \A n : LogsKept(n)
  BY SameChainLogs
<1>3. \A e \in Events : RunSound(run[e])'
  BY <1>2, OtherSound DEF ScanInv, RunSound, Final
<1>4. CursorFinal' /\ BranchesKnown'
  BY DEF ScanInv, CursorFinal, Final, BranchesKnown
<1>5. CandidatesComplete'
  BY <1>2 DEF ScanInv, CandidatesComplete, FoundIn, LogsKept, Hash
<1> QED
  BY <1>1, <1>3, <1>4, <1>5 DEF ScanInv

LEMMA NextScan ==
  ASSUME MaxLag <= Confirmations, ScanInv, [Next]_vars
  PROVE  ScanInv'
<1>1. CASE UNCHANGED vars
  BY <1>1, StutterScan
<1>2. CASE \E m \in Moves \cup {None} : Mine(m)
  BY <1>2, MineSound
<1>3. CASE \E depth, n \in Heights, m \in Moves \cup {None} : Reorg(depth, n, m)
  BY <1>3, ReorgSound
<1>4. ASSUME NEW e \in Events, CreateEvent(e) \/ RetrySnapshot(e) PROVE ScanInv'
  BY <1>4, CreateSound
<1>5. ASSUME NEW e \in Events, BuildStep(e) PROVE ScanInv'
  BY <1>5, StartSound, FindSound, ReadCursorSound, GetLogsSound, RejectSound, StoreSound,
     OutcomeSound DEF BuildStep
<1>6. ASSUME NEW e \in Events, RpcFails(e) \/ Crash(e) PROVE ScanInv'
  BY <1>6, OutcomeSound
<1> QED
  BY <1>1, <1>2, <1>3, <1>4, <1>5, <1>6 DEF Next

LEMMA ScanAlways == MaxLag <= Confirmations => (Spec => []ScanInv)
<1> SUFFICES ASSUME MaxLag <= Confirmations PROVE Spec => []ScanInv
  OBVIOUS
<1>1. ScanInv /\ [Next]_vars => ScanInv'
  BY NextScan
<1> QED
  BY <1>1, InitScan, PTL DEF Spec

(* The cursor of a token vouches for its candidates: whatever is mined or  *)
(* reorganised, and wherever a scan stops, no holder of a block the cursor *)
(* covers is missing.                                                      *)
THEOREM CandidatesStayComplete ==
    MaxLag <= Confirmations => (Spec => []CandidatesComplete)
<1> SUFFICES ASSUME MaxLag <= Confirmations PROVE Spec => []CandidatesComplete
  OBVIOUS
<1>1. ScanInv => CandidatesComplete
  BY DEF ScanInv
<1>2. Spec => []ScanInv
  BY ScanAlways
<1> QED
  BY <1>1, <1>2, PTL

-----------------------------------------------------------------------------
(* Sums, as numbers of units.                                              *)
LEMMA UnitsFinite ==
  ASSUME NEW f \in [Wallets -> Nat], NEW S \in SUBSET Wallets
  PROVE  IsFiniteSet(Units(S, f)) /\ Cardinality(Units(S, f)) \in Nat
<1> DEFINE own == [w \in S |-> {w} \X (1..f[w])]
           T == {own[w] : w \in S}
<1>1. IsFiniteSet(S)
  BY FS_Subset, SnapshotScanAssumption
<1>2. own \in Surjection(S, T)
  BY DEF Surjection
<1>3. IsFiniteSet(T)
  <2> HIDE DEF own, T
  <2> QED
    BY <1>1, <1>2, FS_Surjection
<1>4. ASSUME NEW w \in S PROVE IsFiniteSet(own[w])
  <2>1. f[w] \in Nat
    OBVIOUS
  <2>2. IsFiniteSet(1..f[w])
    BY <2>1, FS_Interval
  <2>3. IsFiniteSet({w} \X (1..f[w]))
    BY <2>2, FS_Singleton, FS_Product
  <2> QED
    BY <2>3
<1>5. IsFiniteSet(UNION T)
  <2>1. \A x \in T : IsFiniteSet(x)
    BY <1>4
  <2> HIDE DEF T
  <2> QED
    BY <1>3, <2>1, FS_UNION
<1>6. Units(S, f) = UNION T
  BY DEF Units
<1> QED
  BY <1>5, <1>6, FS_CardinalityType

LEMMA UnitAdded ==
  ASSUME NEW f \in [Wallets -> Nat], NEW t \in Wallets
  PROVE  Cardinality(Units(Wallets, [f EXCEPT ![t] = @ + 1])) =
            Cardinality(Units(Wallets, f)) + 1
<1> DEFINE g == [f EXCEPT ![t] = @ + 1]
           u == <<t, f[t] + 1>>
<1>1. f[t] \in Nat /\ g[t] = f[t] + 1 /\ \A w \in Wallets \ {t} : g[w] = f[w]
  OBVIOUS
<1>2. 1..f[t] + 1 = (1..f[t]) \cup {f[t] + 1} /\ f[t] + 1 \notin 1..f[t]
  BY <1>1
<1> HIDE DEF g
<1>3. Units(Wallets, g) = Units(Wallets, f) \cup {u}
  <2>1. Units(Wallets, g) = Units(Wallets \ {t}, g) \cup ({t} \X (1..g[t]))
    BY DEF Units
  <2>2. Units(Wallets, f) = Units(Wallets \ {t}, f) \cup ({t} \X (1..f[t]))
    BY DEF Units
  <2>3. Units(Wallets \ {t}, g) = Units(Wallets \ {t}, f)
    BY <1>1 DEF Units
  <2>4. {t} \X (1..g[t]) = ({t} \X (1..f[t])) \cup {u}
    BY <1>1, <1>2
  <2> QED
    BY <2>1, <2>2, <2>3, <2>4
<1>4. u \notin Units(Wallets, f)
  BY <1>2 DEF Units
<1>5. Cardinality(Units(Wallets, f) \cup {u}) = Cardinality(Units(Wallets, f)) + 1
  BY <1>4, UnitsFinite, FS_AddElement
<1> QED
  BY <1>3, <1>5 DEF g

LEMMA OthersHaveNone ==
  ASSUME NEW f \in [Wallets -> Nat], NEW S \in SUBSET Wallets,
         Cardinality(Units(S, f)) = Cardinality(Units(Wallets, f)), NEW w \in Wallets \ S
  PROVE  f[w] = 0
<1>1. Units(S, f) \subseteq Units(Wallets, f)
  BY DEF Units
<1>2. Units(S, f) = Units(Wallets, f)
  BY <1>1, UnitsFinite, FS_Subset
<1>3. <<w, 1>> \notin Units(S, f)
  BY DEF Units
<1>4. ~(1 \in 1..f[w])
  BY <1>2, <1>3 DEF Units
<1>5. f[w] \in Nat
  OBVIOUS
<1> QED
  BY <1>4, <1>5

LEMMA NoneLeftOut ==
  ASSUME NEW f \in [Wallets -> Nat], NEW S \in SUBSET Wallets,
         \A w \in Wallets \ S : f[w] = 0
  PROVE  Units(S, f) = Units(Wallets, f)
<1>1. ASSUME NEW w \in Wallets, w \notin S PROVE {w} \X (1..f[w]) = {}
  <2>1. 1..f[w] = {}
    BY <1>1
  <2> QED
    BY <2>1
<1> QED
  BY <1>1 DEF Units

LEMMA UnitsMoved ==
  ASSUME NEW f \in [Wallets -> Nat], NEW g \in [Wallets -> Nat],
         NEW s \in Wallets, f[s] > 0, NEW t \in Wallets,
         \A w \in Wallets : g[w] = f[w] + (IF w = t THEN 1 ELSE 0) - (IF w = s THEN 1 ELSE 0)
  PROVE  Cardinality(Units(Wallets, g)) = Cardinality(Units(Wallets, f))
<1> DEFINE h == [f EXCEPT ![s] = @ - 1]
<1>1. h \in [Wallets -> Nat] /\ \A w \in Wallets : h[w] = f[w] - (IF w = s THEN 1 ELSE 0)
  OBVIOUS
<1>2. f = [h EXCEPT ![s] = @ + 1]
  <2>1. \A w \in Wallets : f[w] = [h EXCEPT ![s] = @ + 1][w]
    BY <1>1
  <2> QED
    BY <2>1, <1>1
<1>3. g = [h EXCEPT ![t] = @ + 1]
  <2>1. \A w \in Wallets : g[w] = [h EXCEPT ![t] = @ + 1][w]
    BY <1>1
  <2> QED
    BY <2>1, <1>1
<1> HIDE DEF h
<1>4. Cardinality(Units(Wallets, [h EXCEPT ![s] = @ + 1])) = Cardinality(Units(Wallets, h)) + 1
  BY <1>1, UnitAdded
<1>5. Cardinality(Units(Wallets, [h EXCEPT ![t] = @ + 1])) = Cardinality(Units(Wallets, h)) + 1
  BY <1>1, UnitAdded
<1> QED
  BY <1>2, <1>3, <1>4, <1>5

-----------------------------------------------------------------------------
(* The chain: the tokens held add up to the supply.                        *)

HoldsAt(n) ==
    /\ Balances(n) \in [Wallets -> Nat]
    /\ Cardinality(Units(Wallets, Balances(n))) = TotalSupplyAt(n)

LEMMA TransfersFinite ==
  ASSUME NEW n \in Nat, NEW w
  PROVE  /\ IsFiniteSet(Received(w, n)) /\ Cardinality(Received(w, n)) \in Nat
         /\ IsFiniteSet(Sent(w, n)) /\ Cardinality(Sent(w, n)) \in Nat
<1>1. IsFiniteSet(DeployedAt + 1..n)
  BY FS_Interval, Numbers
<1>2. Received(w, n) \subseteq DeployedAt + 1..n /\ Sent(w, n) \subseteq DeployedAt + 1..n
  BY DEF Received, Sent, MovesUpTo
<1> QED
  BY <1>1, <1>2, FS_Subset, FS_CardinalityType

(* Block k has the history of block j.                                     *)
LEMMA SameHistory ==
  ASSUME NEW j \in Nat, NEW k \in Nat, HoldsAt(j), MovesUpTo(k)' = MovesUpTo(j),
         \A i \in MovesUpTo(j) : chain'[i] = chain[i]
  PROVE  HoldsAt(k)' /\ Balances(k)' = Balances(j)
<1>1. \A w : Received(w, k)' = Received(w, j) /\ Sent(w, k)' = Sent(w, j)
  BY DEF Received, Sent
<1>2. Balances(k)' = Balances(j) /\ TotalSupplyAt(k)' = TotalSupplyAt(j)
  BY <1>1 DEF Balances, BalanceAt, TotalSupplyAt
<1> QED
  BY <1>2 DEF HoldsAt

(* Block k has the history of block j and the move of block i.             *)
LEMMA OneMove ==
  ASSUME NEW j \in Nat, NEW k \in Nat, NEW i, i \notin MovesUpTo(j), HoldsAt(j),
         MovesUpTo(k)' = MovesUpTo(j) \cup {i},
         \A n \in MovesUpTo(j) : chain'[n] = chain[n],
         chain'[i].move \in Moves, Affordable(chain'[i].move, j)
  PROVE  HoldsAt(k)'
<1> DEFINE m == chain'[i].move
           f == Balances(j)
           g == Balances(k)'
<1>1. m.from \in Wallets \cup {Zero} /\ m.to \in Wallets /\ Zero \notin Wallets /\ m # None
  BY SnapshotScanAssumption
<1>2. ASSUME NEW w
      PROVE  /\ Received(w, k)' = Received(w, j) \cup (IF w = m.to THEN {i} ELSE {})
             /\ Sent(w, k)' = Sent(w, j) \cup (IF w = m.from THEN {i} ELSE {})
             /\ i \notin Received(w, j) /\ i \notin Sent(w, j)
  BY DEF Received, Sent
<1>3. ASSUME NEW w
      PROVE  /\ Cardinality(Received(w, k)') =
                    Cardinality(Received(w, j)) + (IF w = m.to THEN 1 ELSE 0)
             /\ Cardinality(Sent(w, k)') =
                    Cardinality(Sent(w, j)) + (IF w = m.from THEN 1 ELSE 0)
  <2>1. /\ IsFiniteSet(Received(w, j)) /\ IsFiniteSet(Sent(w, j))
        /\ Cardinality(Received(w, j)) \in Nat /\ Cardinality(Sent(w, j)) \in Nat
    BY TransfersFinite
  <2>2. /\ Cardinality(Received(w, j) \cup {i}) = Cardinality(Received(w, j)) + 1
        /\ Cardinality(Sent(w, j) \cup {i}) = Cardinality(Sent(w, j)) + 1
    BY <1>2, <2>1, FS_AddElement
  <2>3. Cardinality(Received(w, k)') =
            Cardinality(Received(w, j)) + (IF w = m.to THEN 1 ELSE 0)
    <3>1. CASE w = m.to
      BY <1>2, <2>2, <3>1
    <3>2. CASE w # m.to
      <4>1. Received(w, k)' = Received(w, j)
        BY <1>2, <3>2
      <4> QED
        BY <2>1, <3>2, <4>1
    <3> QED
      BY <3>1, <3>2
  <2>4. Cardinality(Sent(w, k)') =
            Cardinality(Sent(w, j)) + (IF w = m.from THEN 1 ELSE 0)
    <3>1. CASE w = m.from
      BY <1>2, <2>2, <3>1
    <3>2. CASE w # m.from
      <4>1. Sent(w, k)' = Sent(w, j)
        BY <1>2, <3>2
      <4> QED
        BY <2>1, <3>2, <4>1
    <3> QED
      BY <3>1, <3>2
  <2> QED
    BY <2>3, <2>4
<1>4. ASSUME NEW w \in Wallets
      PROVE  g[w] = f[w] + (IF w = m.to THEN 1 ELSE 0) - (IF w = m.from THEN 1 ELSE 0)
  <2>1. /\ Cardinality(Received(w, j)) \in Nat /\ Cardinality(Sent(w, j)) \in Nat
        /\ Genesis[w] \in Nat
    BY TransfersFinite, SnapshotScanAssumption
  <2>2. f[w] = Genesis[w] + Cardinality(Received(w, j)) - Cardinality(Sent(w, j))
    BY DEF Balances, BalanceAt
  <2>3. g[w] = Genesis[w] + Cardinality(Received(w, k)') - Cardinality(Sent(w, k)')
    BY DEF Balances, BalanceAt
  <2> HIDE DEF f, g, m
  <2> QED
    BY <1>3, <2>1, <2>2, <2>3
<1>5. f \in [Wallets -> Nat] /\ DOMAIN g = Wallets
      /\ Cardinality(Units(Wallets, f)) = TotalSupplyAt(j)
  BY DEF HoldsAt, Balances
<1>6. m.from \in Wallets => f[m.from] > 0
  BY <1>1 DEF Affordable, Balances
<1>7. g \in [Wallets -> Nat]
  <2>1. ASSUME NEW w \in Wallets PROVE g[w] \in Nat
    <3>1. f[w] \in Nat /\ (w = m.from => f[w] > 0)
      BY <1>5, <1>6
    <3> HIDE DEF f, g, m
    <3> QED
      BY <1>4, <3>1
  <2>2. g = [w \in Wallets |-> g[w]]
    BY DEF Balances
  <2> HIDE DEF g
  <2> QED
    BY <2>1, <2>2
<1>8. TotalSupplyAt(k)' = TotalSupplyAt(j) + (IF m.from = Zero THEN 1 ELSE 0)
  <2>1. Cardinality(Sent(Zero, j)) \in Nat /\ Cardinality(Units(Wallets, Genesis)) \in Nat
    BY TransfersFinite, UnitsFinite, SnapshotScanAssumption
  <2>2. Cardinality(Sent(Zero, k)') =
            Cardinality(Sent(Zero, j)) + (IF m.from = Zero THEN 1 ELSE 0)
    BY <1>3
  <2> HIDE DEF m
  <2> QED
    BY <2>1, <2>2 DEF TotalSupplyAt
<1>9. Cardinality(Units(Wallets, g)) = TotalSupplyAt(k)'
  <2> HIDE DEF f, g, m
  <2>1. TotalSupplyAt(j) \in Nat
    BY <1>5, UnitsFinite
  <2>2. CASE m.from = Zero
    <3>1. \A w \in Wallets : g[w] = f[w] + (IF w = m.to THEN 1 ELSE 0)
      BY <1>1, <1>4, <1>5, <2>2
    <3>2. g = [f EXCEPT ![m.to] = @ + 1]
      <4>1. \A w \in Wallets : g[w] = [f EXCEPT ![m.to] = @ + 1][w]
        BY <1>1, <1>5, <3>1
      <4> QED
        BY <1>5, <1>7, <4>1
    <3>3. Cardinality(Units(Wallets, [f EXCEPT ![m.to] = @ + 1])) =
            Cardinality(Units(Wallets, f)) + 1
      BY <1>1, <1>5, UnitAdded
    <3> QED
      BY <1>5, <1>8, <2>2, <3>2, <3>3
  <2>3. CASE m.from # Zero
    <3>1. Cardinality(Units(Wallets, g)) = Cardinality(Units(Wallets, f))
      BY <1>1, <1>4, <1>5, <1>6, <1>7, <2>3, UnitsMoved
    <3> QED
      BY <1>5, <1>8, <2>1, <2>3, <3>1
  <2> QED
    BY <2>2, <2>3
<1> QED
  BY <1>7, <1>9 DEF HoldsAt

-----------------------------------------------------------------------------
(* Stored snapshots.  None of it needs the logs to be complete, or assumes *)
(* anything of the archive node.                                           *)

ChainSound == \A n \in DeployedAt..height : HoldsAt(n)

RunFits(r) == RunBounded(r) /\ (r.pc \in Busy => r.hash = Hash(r.target))

(* A stored snapshot is that of its record block, while that block is      *)
(* canonical; a block that is not canonical any more never is again.       *)
StoredRight(e) ==
    LET s == snapshot[e] IN
    s # None =>
        /\ s.block \in DeployedAt..height
        /\ s.hash[1] = s.block /\ s.hash[2] <= branch
        /\ Hash(s.block) = s.hash =>
               s.balances = Entries(Eligible(Wallets, s.block), s.block)

BuildInv ==
    /\ TypeOK /\ token.deployed \in {None, DeployedAt} /\ DeployedAt <= height
    /\ BranchesKnown /\ ChainSound
    /\ \A e \in Events : RunFits(run[e]) /\ StoredRight(e)

LEMMA QuietBuild ==
  ASSUME BuildInv, TypeOK', NEW e \in Events,
         UNCHANGED <<chain, height, branch>>,
         \A f \in Events \ {e} : run'[f] = run[f],
         token'.deployed \in {None, DeployedAt},
         RunFits(run[e])',
         \A f \in Events : StoredRight(f)'
  PROVE  BuildInv'
<1>1. \A f \in Events : RunFits(run[f])'
  <2> SUFFICES ASSUME NEW f \in Events \ {e} PROVE RunFits(run[f])'
    OBVIOUS
  <2>1. RunFits(run[f]) /\ run'[f] = run[f]
    BY DEF BuildInv
  <2> QED
    BY <2>1 DEF RunFits, RunBounded, Final, Hash
<1>2. ChainSound' /\ BranchesKnown'
  BY DEF BuildInv, ChainSound, HoldsAt, Balances, BalanceAt, TotalSupplyAt, Received, Sent,
     MovesUpTo, BranchesKnown
<1> QED
  BY <1>1, <1>2 DEF BuildInv

LEMMA StoredKept ==
  ASSUME NEW e \in Events, StoredRight(e), snapshot'[e] = snapshot[e],
         UNCHANGED <<chain, height, branch>>
  PROVE  StoredRight(e)'
  BY DEF StoredRight, Hash, Entries, Eligible, BalanceAt, Received, Sent, MovesUpTo

(* A run that goes on.                                                     *)
LEMMA GoesOn ==
  ASSUME BuildInv, NEW e \in Events, run[e].pc \in Busy, UNCHANGED <<chain, height>>,
         run'[e].target = run[e].target, run'[e].hash = run[e].hash,
         run'[e].deployed = run[e].deployed, run'[e].pc # "find", run[e].pc # "find",
         run'[e].pc \in {"logs", "store"} => run'[e].next <= run'[e].target
  PROVE  RunFits(run[e])'
<1>1. RunFits(run[e])
  BY DEF BuildInv
<1> QED
  BY <1>1 DEF RunFits, RunBounded, Final, Hash

(* A run that ends.                                                        *)
LEMMA EndFits ==
  ASSUME TypeOK, NEW e \in Events,
         \/ Throw(e) \/ ThrowPermanent(e)
         \/ \E label \in Pc \ Busy : End(e, label)
  PROVE  RunFits(run[e])' /\ \A f \in Events \ {e} : run'[f] = run[f]
<1>1. \E label \in Pc \ Busy : End(e, label)
  BY DEF Throw, ThrowPermanent, Pc, Busy
<1> QED
  BY <1>1 DEF End, Idle, RunFits, RunBounded, TypeOK

(* What every step of a run but the last leaves as it is.                  *)
LEMMA BeginFits ==
  ASSUME BuildInv, NEW e \in Events, CreateEvent(e) \/ RetrySnapshot(e) \/ Start(e)
  PROVE  RunFits(run[e])' /\ \A f \in Events \ {e} : run'[f] = run[f]
<1> run \in [Events -> Run] /\ run[e] \in Run
  BY DEF BuildInv, TypeOK
<1>1. CASE CreateEvent(e) \/ RetrySnapshot(e)
  <2>1. run'[e].pc = "queued" /\ \A f \in Events \ {e} : run'[f] = run[f]
    BY <1>1 DEF CreateEvent, RetrySnapshot, Idle, Run
  <2> QED
    BY <2>1 DEF RunFits, RunBounded, Busy
<1>2. CASE Start(e)
  <2>1. CASE RecordAt[e] > height
    BY <1>2, <2>1 DEF Start, Idle, RunFits, RunBounded, Busy
  <2>2. CASE ~(RecordAt[e] > height)
    <3> DEFINE target == ResolveRecordBlock(e)
    <3>1. /\ run'[e].pc = "find" /\ run'[e].target = target
          /\ run'[e].hash = Hash(target) /\ run'[e].deployed = token.deployed
      BY <1>2, <2>2 DEF Start, Idle
    <3>2. Final(target) /\ Hash(target) # None
      <4>1. Hash(target) # None
        <5>1. Hash(target) \in Hashes
          BY TargetType, HashType DEF BuildInv, TypeOK
        <5>2. Hashes \subseteq Nat \X Nat
          BY Numbers DEF Hashes, Heights
        <5> QED
          BY <5>1, <5>2, SnapshotScanAssumption
      <4> QED
        BY <4>1, TargetType DEF BuildInv
    <3>3. UNCHANGED <<chain, height>>
      BY <1>2 DEF Start
    <3> HIDE DEF target
    <3>4. RunFits(run[e])'
      BY <3>1, <3>2, <3>3 DEF RunFits, RunBounded, Final, Hash, BuildInv
    <3>5. \A f \in Events \ {e} : run'[f] = run[f]
      BY <1>2 DEF Start
    <3> QED
      BY <3>4, <3>5
  <2> QED
    BY <2>1, <2>2
<1> QED
  BY <1>1, <1>2

LEMMA ScanFits ==
  ASSUME BuildInv, NEW e \in Events,
         FindDeploymentBlock(e) \/ AcquireScanLock(e) \/ ReadCursor(e) \/ GetLogs(e)
  PROVE  RunFits(run[e])' /\ \A f \in Events \ {e} : run'[f] = run[f]
<1> run \in [Events -> Run] /\ run[e] \in Run /\ RunFits(run[e]) /\ RunBounded(run[e])
  BY DEF BuildInv, TypeOK, RunFits
<1>1. CASE FindDeploymentBlock(e)
  <2>1. CASE ThrowPermanent(e)
    BY <2>1, EndFits DEF BuildInv
  <2>2. CASE ~ThrowPermanent(e)
    <3>1. /\ run'[e].pc = "lock" /\ run'[e].deployed = DeployedAt /\ run[e].pc \in Busy
          /\ run'[e].target = run[e].target /\ run'[e].hash = run[e].hash
          /\ UNCHANGED <<chain, height>>
          /\ \A f \in Events \ {e} : run'[f] = run[f]
      BY <1>1, <2>2, SearchExact DEF FindDeploymentBlock, RunBounded, Busy, Run
    <3> QED
      BY <3>1 DEF RunFits, RunBounded, Final, Hash
  <2> QED
    BY <2>1, <2>2
<1>2. CASE AcquireScanLock(e)
  <2>1. /\ run[e].pc = "lock" /\ run'[e].pc = "cursor"
        /\ run'[e].target = run[e].target /\ run'[e].hash = run[e].hash
        /\ run'[e].deployed = run[e].deployed
        /\ UNCHANGED <<chain, height>> /\ \A f \in Events \ {e} : run'[f] = run[f]
    BY <1>2 DEF AcquireScanLock, Run
  <2> QED
    BY <2>1, GoesOn DEF Busy
<1>3. CASE ReadCursor(e)
  <2>1. PICK known \in Archived :
          LET next == IF cursor = None THEN run[e].deployed ELSE ResumeAt(e, known) IN
          IF next > run[e].target
          THEN Goto(e, "candidates") /\ Unlock(e)
          ELSE /\ run' = [run EXCEPT ![e].pc = "logs", ![e].next = next]
               /\ UNCHANGED scanLock
    BY <1>3 DEF ReadCursor
  <2> DEFINE next == IF cursor = None THEN run[e].deployed ELSE ResumeAt(e, known)
  <2>2. run[e].pc = "cursor" /\ UNCHANGED <<chain, height>>
    BY <1>3 DEF ReadCursor
  <2>3. next \in Int /\ run[e].target \in Int
    <3>1. run[e].deployed = DeployedAt
      BY <2>2 DEF RunBounded, Busy
    <3> QED
      BY <3>1, Numbers, RunNumbers DEF ResumeAt, BuildInv, TypeOK, Heights
  <2>4. CASE next > run[e].target
    <3>1. Goto(e, "candidates")
      BY <2>1, <2>4
    <3>2. /\ run'[e].pc = "candidates" /\ run'[e].target = run[e].target
          /\ run'[e].hash = run[e].hash /\ run'[e].deployed = run[e].deployed
          /\ \A f \in Events \ {e} : run'[f] = run[f]
      BY <3>1 DEF Run
    <3> QED
      BY <2>2, <3>2, GoesOn DEF Busy
  <2>5. CASE ~(next > run[e].target)
    <3>1. run' = [run EXCEPT ![e].pc = "logs", ![e].next = next]
      BY <2>1, <2>5
    <3> HIDE DEF next
    <3>2. /\ run'[e].pc = "logs" /\ run'[e].target = run[e].target /\ run'[e].next = next
          /\ run'[e].hash = run[e].hash /\ run'[e].deployed = run[e].deployed
          /\ \A f \in Events \ {e} : run'[f] = run[f]
      BY <3>1 DEF Run
    <3>3. run'[e].next <= run'[e].target
      BY <2>3, <2>5, <3>2
    <3> QED
      BY <2>2, <3>2, <3>3, GoesOn DEF Busy
  <2> QED
    BY <2>4, <2>5
<1>4. CASE GetLogs(e)
  <2>1. /\ run[e].pc = "logs" /\ run'[e].pc = "store" /\ run'[e].next = run[e].next
        /\ run'[e].target = run[e].target /\ run'[e].hash = run[e].hash
        /\ run'[e].deployed = run[e].deployed
        /\ UNCHANGED <<chain, height>> /\ \A f \in Events \ {e} : run'[f] = run[f]
    <3>1. PICK S : run' = [run EXCEPT ![e].pc = "store", ![e].wallets = S]
      BY <1>4 DEF GetLogs
    <3> QED
      BY <1>4, <3>1 DEF GetLogs, Run
  <2>2. run[e].next <= run[e].target
    BY <2>1 DEF RunBounded, Busy
  <2> QED
    BY <2>1, <2>2, GoesOn DEF Busy
<1> QED
  BY <1>1, <1>2, <1>3, <1>4

LEMMA ChunkFits ==
  ASSUME BuildInv, NEW e \in Events, RejectLogs(e) \/ StoreChunk(e) \/ LoadCandidates(e)
  PROVE  RunFits(run[e])' /\ \A f \in Events \ {e} : run'[f] = run[f]
<1> run \in [Events -> Run] /\ run[e] \in Run /\ RunFits(run[e]) /\ RunBounded(run[e])
  BY DEF BuildInv, TypeOK, RunFits
<1>0. CASE Throw(e) \/ ThrowPermanent(e)
  BY <1>0, EndFits DEF BuildInv
<1>1. CASE RejectLogs(e) /\ ~Throw(e)
  <2>1. /\ run[e].pc = "logs" /\ run'[e].pc = "logs" /\ run'[e].next = run[e].next
        /\ run'[e].target = run[e].target /\ run'[e].hash = run[e].hash
        /\ run'[e].deployed = run[e].deployed
        /\ UNCHANGED <<chain, height>> /\ \A f \in Events \ {e} : run'[f] = run[f]
    BY <1>1 DEF RejectLogs, Run
  <2>2. run[e].next <= run[e].target
    BY <2>1 DEF RunBounded, Busy
  <2> QED
    BY <2>1, <2>2, GoesOn DEF Busy
<1>2. CASE StoreChunk(e)
  <2> DEFINE end == ChunkEnd(run[e])
  <2>1. run[e].pc = "store" /\ UNCHANGED <<chain, height>>
    BY <1>2 DEF StoreChunk
  <2>2. end \in Int /\ run[e].target \in Int
    <3>1. run[e].next <= run[e].target
      BY <2>1 DEF RunBounded, Busy
    <3> QED
      BY <3>1, ChunkEndType, RunNumbers, Numbers DEF Heights
  <2>3. CASE end < run[e].target
    <3>1. PICK size : run' = [run EXCEPT ![e].pc = "logs", ![e].next = end + 1, ![e].size = size]
      BY <1>2, <2>3 DEF StoreChunk
    <3> HIDE DEF end
    <3>2. /\ run'[e].pc = "logs" /\ run'[e].target = run[e].target /\ run'[e].next = end + 1
          /\ run'[e].hash = run[e].hash /\ run'[e].deployed = run[e].deployed
          /\ \A f \in Events \ {e} : run'[f] = run[f]
      BY <3>1 DEF Run
    <3>3. run'[e].next <= run'[e].target
      BY <2>2, <2>3, <3>2
    <3> QED
      BY <2>1, <3>2, <3>3, GoesOn DEF Busy
  <2>4. CASE ~(end < run[e].target)
    <3>1. Goto(e, "candidates")
      BY <1>2, <2>4 DEF StoreChunk
    <3>2. /\ run'[e].pc = "candidates" /\ run'[e].target = run[e].target
          /\ run'[e].hash = run[e].hash /\ run'[e].deployed = run[e].deployed
          /\ \A f \in Events \ {e} : run'[f] = run[f]
      BY <3>1 DEF Run
    <3> QED
      BY <2>1, <3>2, GoesOn DEF Busy
  <2> QED
    BY <2>3, <2>4
<1>3. CASE LoadCandidates(e) /\ ~ThrowPermanent(e)
  <2>1. /\ run[e].pc = "candidates" /\ run'[e].pc = "balances"
        /\ run'[e].target = run[e].target /\ run'[e].hash = run[e].hash
        /\ run'[e].deployed = run[e].deployed
        /\ UNCHANGED <<chain, height>> /\ \A f \in Events \ {e} : run'[f] = run[f]
    BY <1>3 DEF LoadCandidates, Run
  <2> QED
    BY <2>1, GoesOn DEF Busy
<1> QED
  BY <1>0, <1>1, <1>2, <1>3

(* The snapshot a run stores: the supply adds up only when no wallet with  *)
(* a balance is missing.                                                   *)
LEMMA AllHeld ==
  ASSUME NEW n, HoldsAt(n), NEW S \in SUBSET Wallets, SupplyReconstructed(S, n)
  PROVE  Eligible(S, n) = Eligible(Wallets, n)
<1>1. \A w \in Wallets \ S : Balances(n)[w] = 0
  BY OthersHaveNone DEF HoldsAt, SupplyReconstructed
<1>2. \A w \in Wallets \ S : BalanceAt(w, n) = 0
  BY <1>1 DEF Balances
<1>3. ~(0 \div VoteUnit > 0)
  <2>1. \A d \in Nat \ {0} : ~(0 \div d > 0)
    OBVIOUS
  <2> QED
    BY <2>1, SnapshotScanAssumption
<1> QED
  BY <1>2, <1>3 DEF Eligible

LEMMA StoreRight ==
  ASSUME BuildInv, NEW e \in Events, ReadBalances(e)
  PROVE  StoredRight(e)'
<1> DEFINE n == run[e].target
<1>1. UNCHANGED <<chain, height, branch>> /\ run[e].pc = "balances"
  BY DEF ReadBalances
<1>2. CASE snapshot'[e] = snapshot[e]
  BY <1>1, <1>2, StoredKept DEF BuildInv
<1>3. CASE /\ n >= DeployedAt /\ SupplyReconstructed(run[e].wallets, n)
           /\ snapshot' = [snapshot EXCEPT ![e] =
                  [block |-> n, hash |-> run[e].hash,
                   balances |-> Entries(Eligible(run[e].wallets, n), n)]]
  <2>1. /\ run[e].wallets \subseteq Wallets /\ n \in Heights /\ n \in Nat
        /\ Final(n) /\ run[e].hash = Hash(n) /\ height \in Nat
    BY <1>1, RunNumbers, Numbers DEF BuildInv, RunFits, RunBounded, Busy, TypeOK, Run, Heights
  <2>2. n \in DeployedAt..height
    BY <1>3, <2>1, Numbers DEF Final
  <2>3. Eligible(run[e].wallets, n) = Eligible(Wallets, n)
    BY <1>3, <2>1, <2>2, AllHeld DEF BuildInv, ChainSound
  <2>4. snapshot'[e] = [block |-> n, hash |-> Hash(n),
                        balances |-> Entries(Eligible(Wallets, n), n)]
    BY <1>3, <2>1, <2>3 DEF BuildInv, TypeOK
  <2>5. Hash(n)[1] = n /\ Hash(n)[2] <= branch
    BY <2>1 DEF Hash, BuildInv, BranchesKnown
  <2> HIDE DEF n
  <2> QED
    BY <1>1, <2>2, <2>4, <2>5 DEF StoredRight, Entries, Eligible, BalanceAt, Received, Sent, MovesUpTo
<1> QED
  BY <1>2, <1>3 DEF ReadBalances, BuildInv, TypeOK

LEMMA RunBuild ==
  ASSUME BuildInv, NEW e \in Events,
         \/ CreateEvent(e) \/ RetrySnapshot(e) \/ BuildStep(e)
         \/ RpcFails(e) \/ Crash(e)
  PROVE  BuildInv'
<1> RunBounded(run[e]) /\ TypeOK
  BY DEF BuildInv, RunFits
<1>1. TypeOK'
  <2>1. CASE RpcFails(e) \/ Crash(e)
    <3>1. run' \in [Events -> Run] /\ scanLock' \in Events \cup {None}
      BY <2>1, ThrowType, EndType DEF RpcFails, Crash, Pc
    <3>2. faults' \in 0..MaxFaults
      BY <2>1, Numbers DEF RpcFails, Crash, TypeOK
    <3> QED
      BY <2>1, <3>1, <3>2 DEF RpcFails, Crash, TypeOK
  <2> QED
    BY <2>1, CreateType, FindType, ReadCursorType, LogsType, StoreType, OutcomeType
       DEF BuildStep
<1>2. UNCHANGED <<chain, height, branch>>
  BY DEF CreateEvent, RetrySnapshot, BuildStep, Start, FindDeploymentBlock, AcquireScanLock,
     ReadCursor, GetLogs, RejectLogs, StoreChunk, LoadCandidates, ReadBalances, RpcFails, Crash
<1>3. RunFits(run[e])' /\ \A f \in Events \ {e} : run'[f] = run[f]
  <2>1. CASE ReadBalances(e) \/ RpcFails(e) \/ Crash(e)
    BY <2>1, EndFits DEF ReadBalances, RpcFails, Crash, Pc, Busy
  <2> QED
    BY <2>1, BeginFits, ScanFits, ChunkFits DEF BuildStep
<1>4. token'.deployed \in {None, DeployedAt}
  <2> token.deployed \in {None, DeployedAt} /\ token \in [status : {"ABSENT", "VALIDATED", "UNSUPPORTED"},
                                                          deployed : Heights \cup {None}]
    BY DEF BuildInv, TypeOK
  <2>1. CASE FindDeploymentBlock(e)
    BY <2>1, SearchExact DEF FindDeploymentBlock
  <2>2. CASE CreateEvent(e) \/ RetrySnapshot(e) \/ RpcFails(e) \/ Crash(e)
    BY <2>2 DEF CreateEvent, RetrySnapshot, RpcFails, Crash
  <2>3. CASE Start(e) \/ AcquireScanLock(e) \/ ReadCursor(e) \/ GetLogs(e)
    BY <2>3 DEF Start, AcquireScanLock, ReadCursor, GetLogs
  <2>4. CASE RejectLogs(e) \/ StoreChunk(e) \/ LoadCandidates(e) \/ ReadBalances(e)
    BY <2>4 DEF RejectLogs, StoreChunk, LoadCandidates, ReadBalances
  <2> QED
    BY <2>1, <2>2, <2>3, <2>4 DEF BuildStep
<1>5. \A f \in Events : StoredRight(f)'
  <2> SUFFICES ASSUME NEW f \in Events PROVE StoredRight(f)'
    OBVIOUS
  <2>1. CASE f = e /\ ReadBalances(e)
    BY <2>1, StoreRight
  <2>2. CASE ~(f = e /\ ReadBalances(e))
    <3>1. snapshot'[f] = snapshot[f]
      BY <2>2 DEF TypeOK, CreateEvent, RetrySnapshot, BuildStep, Start, FindDeploymentBlock,
         AcquireScanLock, ReadCursor, GetLogs, RejectLogs, StoreChunk, LoadCandidates,
         ReadBalances, RpcFails, Crash
    <3> QED
      BY <1>2, <3>1, StoredKept DEF BuildInv
  <2> QED
    BY <2>1, <2>2
<1> QED
  BY <1>1, <1>2, <1>3, <1>4, <1>5, QuietBuild

(* What the chain does not replace keeps its balances.                     *)
LEMMA PrefixKept ==
  ASSUME NEW n \in Nat, \A i \in DeployedAt + 1..n : chain'[i] = chain[i]
  PROVE  /\ MovesUpTo(n)' = MovesUpTo(n)
         /\ \A i \in MovesUpTo(n) : chain'[i] = chain[i]
         /\ \A w : BalanceAt(w, n)' = BalanceAt(w, n)
         /\ Entries(Eligible(Wallets, n), n)' = Entries(Eligible(Wallets, n), n)
<1>1. MovesUpTo(n)' = MovesUpTo(n) /\ \A i \in MovesUpTo(n) : chain'[i] = chain[i]
  BY DEF MovesUpTo
<1>2. \A w : Received(w, n)' = Received(w, n) /\ Sent(w, n)' = Sent(w, n)
  BY <1>1 DEF Received, Sent
<1>3. \A w : BalanceAt(w, n)' = BalanceAt(w, n)
  BY <1>2 DEF BalanceAt
<1> QED
  BY <1>1, <1>3 DEF Entries, Eligible

(* Blocks above cut replaced, block i of the new ones carrying m.          *)
LEMMA ChainExtended ==
  ASSUME BuildInv, NEW cut \in Nat, DeployedAt <= cut, cut <= height,
         height' \in Nat, NEW i \in cut + 1..height', NEW m \in Moves \cup {None},
         Affordable(m, cut),
         \A n \in DeployedAt + 1..cut : chain'[n] = chain[n],
         \A n \in cut + 1..height' : chain'[n].move = IF n = i THEN m ELSE None
  PROVE  ChainSound'
<1> SUFFICES ASSUME NEW k \in DeployedAt..height' PROVE HoldsAt(k)'
  BY DEF ChainSound
<1>1. height \in Nat /\ DeployedAt \in Nat /\ k \in Nat
  BY Numbers DEF BuildInv, TypeOK, Heights
<1>2. CASE k <= cut
  <2>1. HoldsAt(k)
    BY <1>1, <1>2 DEF BuildInv, ChainSound
  <2> QED
    BY <1>1, <1>2, <2>1, PrefixKept, SameHistory
<1>3. CASE cut < k
  <2>1. HoldsAt(cut)
    BY <1>1 DEF BuildInv, ChainSound
  <2>2. MovesUpTo(cut)' = MovesUpTo(cut) /\ \A n \in MovesUpTo(cut) : chain'[n] = chain[n]
    BY <1>1, PrefixKept
  <2>3. DeployedAt + 1..k = (DeployedAt + 1..cut) \cup (cut + 1..k)
    BY <1>1, <1>3
  <2>4. \A n \in cut + 1..k : n \in cut + 1..height'
    BY <1>1
  <2>5. MovesUpTo(k)' = MovesUpTo(cut) \cup {n \in cut + 1..k : n = i /\ m # None}
    BY <2>2, <2>3, <2>4 DEF MovesUpTo
  <2>6. CASE i > k \/ m = None
    <3>1. MovesUpTo(k)' = MovesUpTo(cut)
      BY <1>1, <2>5, <2>6
    <3> QED
      BY <1>1, <2>1, <2>2, <3>1, SameHistory
  <2>7. CASE i <= k /\ m # None
    <3>1. MovesUpTo(k)' = MovesUpTo(cut) \cup {i} /\ i \notin MovesUpTo(cut)
      BY <1>1, <2>5, <2>7 DEF MovesUpTo
    <3>2. chain'[i].move = m /\ m \in Moves
      BY <2>7
    <3> QED
      BY <1>1, <2>1, <2>2, <3>1, <3>2, OneMove
  <2> QED
    BY <1>1, <2>6, <2>7
<1> QED
  BY <1>1, <1>2, <1>3

LEMMA StoredStays ==
  ASSUME NEW e \in Events, TypeOK, StoredRight(e), snapshot' = snapshot, NEW cut \in Nat,
         cut <= height, height \in Nat, height' \in Nat, height <= height',
         branch \in Nat, branch' \in Nat, branch <= branch',
         \A n \in DeployedAt..cut : chain'[n] = chain[n],
         \A n \in cut + 1..height : chain'[n].branch > branch
  PROVE  StoredRight(e)'
<1> DEFINE s == snapshot[e]
<1> SUFFICES ASSUME s # None
             PROVE  /\ s.block \in DeployedAt..height'
                    /\ s.hash[1] = s.block /\ s.hash[2] <= branch'
                    /\ Hash(s.block)' = s.hash =>
                          s.balances = Entries(Eligible(Wallets, s.block), s.block)'
  BY DEF StoredRight
<1>1. /\ s.block \in DeployedAt..height /\ s.hash[1] = s.block /\ s.hash[2] <= branch
      /\ Hash(s.block) = s.hash => s.balances = Entries(Eligible(Wallets, s.block), s.block)
  BY DEF StoredRight
<1>2. s.hash \in Hashes
  BY DEF TypeOK, Snapshot
<1>3. s.hash[2] \in Nat
  BY <1>2, Numbers DEF Hashes
<1> HIDE DEF s
<1>4. s.block \in DeployedAt..height' /\ s.hash[2] <= branch'
  BY <1>1, <1>3, Numbers
<1>5. ASSUME Hash(s.block)' = s.hash
      PROVE  s.balances = Entries(Eligible(Wallets, s.block), s.block)'
  <2> DEFINE n == s.block
  <2>1. n \in Nat /\ DeployedAt <= n /\ n <= height
    BY <1>1, Numbers
  <2>2. chain'[n].branch = s.hash[2]
    <3>1. Hash(n)' = <<n, chain'[n].branch>>
      BY DEF Hash, s
    <3> QED
      BY <1>5, <3>1
  <2>3. n <= cut
    <3>1. ~(chain'[n].branch > branch)
      BY <1>1, <1>3, <2>2
    <3> QED
      BY <2>1, <3>1
  <2>4. chain'[n] = chain[n] /\ \A j \in DeployedAt + 1..n : chain'[j] = chain[j]
    BY <2>1, <2>3, Numbers
  <2>5. Hash(n) = s.hash
    BY <2>4, <1>5 DEF Hash, s
  <2> QED
    BY <1>1, <2>1, <2>4, <2>5, PrefixKept DEF s
<1> QED
  BY <1>1, <1>4, <1>5

LEMMA MineBuild ==
  ASSUME BuildInv, NEW m \in Moves \cup {None}, Mine(m)
  PROVE  BuildInv'
<1>1. /\ chain \in [Heights -> Block] /\ height \in Nat /\ height' = height + 1
      /\ height + 1 \in Heights /\ branch \in Nat /\ DeployedAt \in Nat
  BY Numbers DEF BuildInv, TypeOK, Heights, Mine
<1>2. TypeOK'
  <2>1. chain' \in [Heights -> Block]
    BY <1>1 DEF Mine, Block, BuildInv, TypeOK
  <2> QED
    BY <1>1, <2>1 DEF Mine, BuildInv, TypeOK
<1>3. /\ \A n \in Nat : n <= height => chain'[n] = chain[n]
      /\ chain'[height + 1] = [branch |-> branch, move |-> m]
  BY <1>1, Numbers DEF Mine, Heights
<1>4. UNCHANGED <<branch, token, run, snapshot>>
  BY DEF Mine
<1>5. ChainSound'
  <2>1. \A n \in DeployedAt + 1..height : chain'[n] = chain[n]
    BY <1>1, <1>3
  <2>2. \A n \in height + 1..height' : chain'[n].move = IF n = height + 1 THEN m ELSE None
    BY <1>1, <1>3
  <2>3. height + 1 \in height + 1..height' /\ DeployedAt <= height /\ height <= height
    BY <1>1 DEF BuildInv
  <2>4. Affordable(m, height)
    BY DEF Mine
  <2> QED
    BY <1>1, <2>1, <2>2, <2>3, <2>4, ChainExtended
<1>6. BranchesKnown'
  BY <1>1, Numbers DEF BranchesKnown, Mine, BuildInv, TypeOK
<1>7. ASSUME NEW e \in Events PROVE RunFits(run[e])'
  <2>1. RunFits(run[e]) /\ run'[e] = run[e] /\ run[e].target \in Nat
    BY <1>4, RunNumbers DEF BuildInv, TypeOK
  <2>2. run[e].pc \in Busy =>
           Final(run[e].target) /\ Final(run[e].target)' /\ run[e].target <= height
    BY <1>1, <2>1, Numbers DEF RunFits, RunBounded, Final
  <2>3. run[e].pc \in Busy => Hash(run[e].target)' = Hash(run[e].target)
    BY <1>3, <2>1, <2>2 DEF Hash
  <2> QED
    BY <2>1, <2>2, <2>3 DEF RunFits, RunBounded
<1>8. ASSUME NEW e \in Events PROVE StoredRight(e)'
  <2>1. \A n \in DeployedAt..height : chain'[n] = chain[n]
    BY <1>1, <1>3
  <2>2. \A n \in height + 1..height : FALSE
    BY <1>1
  <2>3. branch' \in Nat /\ branch <= branch' /\ height' \in Nat /\ height <= height' /\ height <= height
    BY <1>1, <1>4
  <2>4. StoredRight(e) /\ TypeOK /\ snapshot' = snapshot
    BY <1>4 DEF BuildInv
  <2> QED
    BY <1>1, <2>1, <2>2, <2>3, <2>4, StoredStays
<1> QED
  BY <1>1, <1>2, <1>4, <1>5, <1>6, <1>7, <1>8 DEF BuildInv

LEMMA ReorgBuild ==
  ASSUME BuildInv, NEW depth \in Heights, NEW i \in Heights, NEW m \in Moves \cup {None},
         Reorg(depth, i, m)
  PROVE  BuildInv'
<1> DEFINE cut == height - depth
<1>1. /\ chain \in [Heights -> Block] /\ height \in Nat /\ height <= MaxHeight
      /\ depth \in Nat /\ branch \in Nat /\ branch + 1 \in 0..MaxReorgs
  BY Numbers DEF BuildInv, TypeOK, Heights, Reorg
<1>2. cut \in Nat /\ DeployedAt <= cut /\ cut <= height
  BY <1>1, Numbers DEF Reorg, Heights
<1>3. UNCHANGED <<height, token, run, snapshot>> /\ branch' = branch + 1
  BY DEF Reorg
<1>4. \A n \in Heights :
         IF n \in cut + 1..height
         THEN /\ chain'[n].branch = branch + 1 /\ chain'[n] \in Block
              /\ chain'[n].move = IF n = i THEN m ELSE None
         ELSE chain'[n] = chain[n]
  BY <1>1 DEF Reorg, Block
<1>5. chain' \in [Heights -> Block]
  BY <1>1, <1>4 DEF Reorg
<1>6. TypeOK'
  BY <1>1, <1>5 DEF Reorg, BuildInv, TypeOK
<1>7. i \in cut + 1..height /\ Affordable(m, cut)
  BY DEF Reorg
<1> HIDE DEF cut
<1>8. \A n \in Nat : n <= cut => chain'[n] = chain[n]
  BY <1>1, <1>2, <1>4, Numbers DEF Heights
<1>9. \A n \in cut + 1..height :
         chain'[n].branch = branch + 1 /\ chain'[n].move = IF n = i THEN m ELSE None
  <2>1. \A n \in cut + 1..height : n \in Heights
    BY <1>1, <1>2, Numbers DEF Heights
  <2> QED
    BY <1>4, <2>1
<1>10. ChainSound'
  <2>1. \A n \in DeployedAt + 1..cut : chain'[n] = chain[n]
    BY <1>2, <1>8, Numbers
  <2> QED
    BY <1>1, <1>2, <1>3, <1>7, <1>9, <2>1, ChainExtended
<1>11. BranchesKnown'
  BY <1>1, <1>3, <1>4 DEF BranchesKnown, BuildInv, Block, Heights
<1>12. ASSUME NEW e \in Events PROVE RunFits(run[e])'
  <2>1. RunFits(run[e]) /\ run'[e] = run[e] /\ run[e].target \in Nat
    BY <1>3, RunNumbers DEF BuildInv, TypeOK
  <2>2. ASSUME run[e].pc \in Busy
        PROVE  Final(run[e].target) /\ Final(run[e].target)' /\ run[e].target <= cut
    <3>1. depth <= Confirmations
      BY <2>2 DEF Reorg, MaxDepth, Running
    <3>2. Final(run[e].target)
      BY <2>1, <2>2 DEF RunFits, RunBounded
    <3>3. run[e].target <= cut
      BY <1>1, <1>2, <2>1, <3>1, <3>2, Numbers DEF Final, cut
    <3> QED
      BY <1>3, <3>2, <3>3 DEF Final
  <2>3. run[e].pc \in Busy => Hash(run[e].target)' = Hash(run[e].target)
    BY <1>8, <2>1, <2>2 DEF Hash
  <2> QED
    BY <2>1, <2>2, <2>3 DEF RunFits, RunBounded
<1>13. ASSUME NEW e \in Events PROVE StoredRight(e)'
  <2>1. \A n \in DeployedAt..cut : chain'[n] = chain[n]
    BY <1>2, <1>8, Numbers
  <2>2. \A n \in cut + 1..height : chain'[n].branch > branch
    BY <1>1, <1>9
  <2>3. branch' \in Nat /\ branch <= branch' /\ height' \in Nat /\ height <= height'
    BY <1>1, <1>3
  <2>4. StoredRight(e) /\ TypeOK /\ snapshot' = snapshot
    BY <1>3 DEF BuildInv
  <2> QED
    BY <1>1, <1>2, <2>1, <2>2, <2>3, <2>4, StoredStays
<1> QED
  BY <1>2, <1>3, <1>6, <1>10, <1>11, <1>12, <1>13, Numbers DEF BuildInv

LEMMA InitBuild == Init => BuildInv
<1> SUFFICES ASSUME Init PROVE BuildInv
  OBVIOUS
<1>1. TypeOK /\ token.deployed = None /\ height = DeployedAt /\ DeployedAt \in Nat
  BY InitType, Numbers DEF Init
<1>2. BranchesKnown
  BY DEF Init, BranchesKnown, NoBlock
<1>3. \A e \in Events : RunFits(run[e]) /\ StoredRight(e)
  BY DEF Init, Idle, RunFits, RunBounded, Busy, StoredRight
<1>4. HoldsAt(DeployedAt)
  <2>1. \A w : Received(w, DeployedAt) = {} /\ Sent(w, DeployedAt) = {}
    BY <1>1 DEF Received, Sent, MovesUpTo
  <2>2. Cardinality({}) = 0
    BY FS_EmptySet
  <2>3. \A w \in Wallets : BalanceAt(w, DeployedAt) = Genesis[w]
    <3> SUFFICES ASSUME NEW w \in Wallets PROVE BalanceAt(w, DeployedAt) = Genesis[w]
      OBVIOUS
    <3>1. Genesis[w] \in Nat
      BY SnapshotScanAssumption
    <3>2. /\ Cardinality(Received(w, DeployedAt)) = 0
          /\ Cardinality(Sent(w, DeployedAt)) = 0
      BY <2>1, <2>2
    <3> QED
      BY <3>1, <3>2 DEF BalanceAt
  <2>4. Balances(DeployedAt) = Genesis
    BY <2>3, SnapshotScanAssumption DEF Balances
  <2>5. TotalSupplyAt(DeployedAt) = Cardinality(Units(Wallets, Genesis))
    BY <2>1, <2>2, UnitsFinite, SnapshotScanAssumption DEF TotalSupplyAt
  <2> QED
    BY <2>4, <2>5, SnapshotScanAssumption DEF HoldsAt
<1>5. ChainSound
  BY <1>1, <1>4 DEF ChainSound
<1> QED
  BY <1>1, <1>2, <1>3, <1>5 DEF BuildInv

LEMMA NextBuild == BuildInv /\ [Next]_vars => BuildInv'
<1> SUFFICES ASSUME BuildInv, [Next]_vars PROVE BuildInv'
  OBVIOUS
<1>1. CASE UNCHANGED vars
  <2>1. TypeOK'
    BY <1>1 DEF BuildInv, TypeOK
  <2>2. \A e \in Events : RunFits(run[e])' /\ StoredRight(e)'
    BY <1>1, StoredKept DEF BuildInv, RunFits, RunBounded, Final, Hash
  <2>3. ChainSound' /\ BranchesKnown'
    BY <1>1 DEF BuildInv, ChainSound, HoldsAt, Balances, BalanceAt, TotalSupplyAt, Received,
       Sent, MovesUpTo, BranchesKnown
  <2> QED
    BY <1>1, <2>1, <2>2, <2>3 DEF BuildInv
<1> QED
  BY <1>1, MineBuild, ReorgBuild, RunBuild DEF Next

LEMMA BuildAlways == Spec => []BuildInv
  BY InitBuild, NextBuild, PTL DEF Spec

(* Every variable keeps its type.                                          *)
THEOREM TypeCorrect == Spec => []TypeOK
<1>1. BuildInv => TypeOK
  BY DEF BuildInv
<1> QED
  BY <1>1, BuildAlways, PTL

(* The record block of a run under way has its confirmations and stays the *)
(* block it was: what the run reads of it is what the creator was promised.*)
THEOREM RecordBlocksStay ==
    Spec => [](\A e \in Events :
                  Running(e) => Final(run[e].target) /\ Hash(run[e].target) = run[e].hash)
<1>1. BuildInv => \A e \in Events :
         Running(e) => Final(run[e].target) /\ Hash(run[e].target) = run[e].hash
  BY DEF BuildInv, RunFits, RunBounded, Running
<1> QED
  BY <1>1, BuildAlways, PTL

(* A stored snapshot holds exactly the wallets with a vote at its record   *)
(* block, for as long as that block is canonical: buildSnapshot compares   *)
(* the supply, and the balances it read add up to it only when no holder   *)
(* is missing.  Nothing is assumed of the archive node.                    *)
THEOREM SnapshotsComplete == Spec => []SnapshotComplete
<1>1. BuildInv => SnapshotComplete
  BY DEF BuildInv, StoredRight, SnapshotComplete
<1> QED
  BY <1>1, BuildAlways, PTL

(* Without a silent change of a balance, the wallets of the logs have      *)
(* everything there is.                                                    *)
LEMMA LogsExplain ==
  ASSUME TypeOK, NEW n \in Heights, DeployedAt <= n, HoldsAt(n), ~SilentUpTo(n),
         NEW S \in SUBSET Wallets, FoundIn(S, DeployedAt, n)
  PROVE  SupplyReconstructed(S, n)
<1>1. n \in Nat /\ DeployedAt \in Nat
  BY Numbers
<1>2. ASSUME NEW w \in Wallets \ S PROVE Balances(n)[w] = 0
  <2>1. Genesis[w] = 0
    <3>1. LoggedIn(DeployedAt) \subseteq S
      BY <1>1 DEF FoundIn
    <3>2. ~(Genesis[w] > 0) /\ Genesis[w] \in Nat
      BY <1>1, <3>1, SnapshotScanAssumption DEF LoggedIn
    <3> QED
      BY <3>2
  <2>2. Received(w, n) = {}
    <3> SUFFICES ASSUME NEW i \in Received(w, n) PROVE FALSE
      OBVIOUS
    <3>1. i \in DeployedAt + 1..n /\ chain[i].move # None /\ chain[i].move.to = w
          /\ chain[i].move.logged
      BY DEF Received, MovesUpTo, SilentUpTo
    <3>2. i \in DeployedAt..n /\ ~(i < DeployedAt) /\ i # DeployedAt
      BY <1>1, <3>1
    <3>3. w \in LoggedIn(i)
      BY <3>1, <3>2, SnapshotScanAssumption DEF LoggedIn
    <3> QED
      BY <3>2, <3>3 DEF FoundIn
  <2>3. Cardinality(Received(w, n)) = 0 /\ Cardinality(Sent(w, n)) \in Nat
    BY <1>1, <2>2, FS_EmptySet, TransfersFinite
  <2>4. Balances(n)[w] = Genesis[w] + Cardinality(Received(w, n)) - Cardinality(Sent(w, n))
    BY DEF Balances, BalanceAt
  <2>5. Balances(n)[w] \in Nat
    BY DEF HoldsAt
  <2> QED
    BY <2>1, <2>3, <2>4, <2>5
<1>3. Units(S, Balances(n)) = Units(Wallets, Balances(n))
  BY <1>2, NoneLeftOut DEF HoldsAt
<1> QED
  BY <1>3 DEF HoldsAt, SupplyReconstructed

(* buildSnapshot declares a token UNSUPPORTED only for balances that its   *)
(* logs do not explain: never because a scan missed a block.               *)
THEOREM TokensKept == MaxLag <= Confirmations => (Spec => StandardTokenKept)
<1> SUFFICES ASSUME MaxLag <= Confirmations PROVE Spec => StandardTokenKept
  OBVIOUS
<1> DEFINE Kept ==
      \A e \in Events :
          token.status # "UNSUPPORTED" /\ token'.status = "UNSUPPORTED"
          /\ run'[e] # run[e] => SilentUpTo(run[e].target)
<1>1. ASSUME ScanInv, BuildInv, [Next]_vars PROVE Kept
  <2> SUFFICES ASSUME NEW e \in Events, token.status # "UNSUPPORTED",
                      token'.status = "UNSUPPORTED", run'[e] # run[e]
               PROVE  SilentUpTo(run[e].target)
    OBVIOUS
  <2>1. PICK f \in Events : ReadBalances(f)
    BY <1>1 DEF Next, Mine, Reorg, CreateEvent, RetrySnapshot, BuildStep, Start,
       FindDeploymentBlock, AcquireScanLock, ReadCursor, GetLogs, RejectLogs, StoreChunk,
       LoadCandidates, RpcFails, Crash, BuildInv, TypeOK
  <2>2. f = e
    <3>1. run \in [Events -> Run] /\ \E label : End(f, label)
      BY <1>1, <2>1 DEF ReadBalances, Throw, ThrowPermanent, BuildInv, TypeOK
    <3> QED
      BY <3>1 DEF End
  <2> DEFINE n == run[e].target
  <2>3. n >= DeployedAt /\ ~SupplyReconstructed(run[e].wallets, n) /\ run[e].pc = "balances"
    BY <2>1, <2>2 DEF ReadBalances
  <2>4. /\ run[e].wallets \subseteq Wallets /\ n \in Heights /\ n \in Nat /\ Final(n)
        /\ height \in Nat /\ FoundIn(run[e].wallets, DeployedAt, n)
    BY <1>1, <2>3, RunNumbers, Numbers
       DEF ScanInv, RunSound, Busy, TypeOK, Run, Heights
  <2> HIDE DEF n
  <2>5. n \in DeployedAt..height /\ DeployedAt <= n
    BY <2>3, <2>4, Numbers DEF Final
  <2>6. HoldsAt(n) /\ TypeOK
    BY <1>1, <2>5 DEF BuildInv, ChainSound
  <2> QED
    BY <2>3, <2>4, <2>5, <2>6, LogsExplain DEF n
<1>2. ScanInv /\ BuildInv /\ [Next]_vars => [Kept]_vars
  BY <1>1
<1>3. Spec => []ScanInv
  BY ScanAlways
<1> QED
  BY <1>2, <1>3, BuildAlways, PTL DEF Spec, StandardTokenKept

-----------------------------------------------------------------------------
(* Induction.  The theorems of the library take the predicate as an        *)
(* operator; here it is the set of the numbers it holds for.               *)

(* A set of naturals is not without a least one, and so induction needs no *)
(* operator.                                                               *)
LEMMA LeastNatural ==
  ASSUME NEW T, T \subseteq Nat, T # {}
  PROVE  \E n \in T : \A m \in T : n <= m
<1>1. PICK x \in T : \A y \in T : ~ (<<y, x>> \in OpToRel(<, Nat))
  BY NatLessThanWellFounded, WFMin, Zenon
<1>2. \A y \in T : ~ (y < x)
  BY <1>1, Zenon DEF OpToRel
<1> QED
  BY <1>2

LEMMA SetInduction ==
  ASSUME NEW T, 0 \in T, \A n \in Nat : n \in T => n + 1 \in T
  PROVE  \A n \in Nat : n \in T
<1> SUFFICES ASSUME Nat \ T # {} PROVE FALSE
  OBVIOUS
<1>1. PICK n \in Nat \ T : \A m \in Nat \ T : n <= m
  BY LeastNatural
<1>2. n # 0 /\ n - 1 \in Nat
  OBVIOUS
<1>3. n - 1 \in T
  BY <1>1, <1>2
<1> QED
  BY <1>1, <1>2, <1>3

-----------------------------------------------------------------------------
(* The recursive functions exist.                                          *)

LEMMA ComputedExists ==
  ASSUME NEW leaf, NEW proof
  PROVE  \A n \in Nat : \E g : g = [k \in 0..n |-> IF k = 0 THEN leaf ELSE HashPair(g[k - 1], proof[k])]
<1> DEFINE T == {n \in Nat : \E g : g = [k \in 0..n |-> IF k = 0 THEN leaf ELSE HashPair(g[k - 1], proof[k])]}
<1>1. 0 \in T
  <2>1. [k \in 0..0 |-> leaf] = [k \in 0..0 |-> IF k = 0 THEN leaf ELSE HashPair([l \in 0..0 |-> leaf][k - 1], proof[k])]
    OBVIOUS
  <2> QED
    BY <2>1
<1>2. ASSUME NEW n \in Nat, n \in T PROVE n + 1 \in T
  <2>1. PICK g : g = [k \in 0..n |-> IF k = 0 THEN leaf ELSE HashPair(g[k - 1], proof[k])]
    BY <1>2
  <2> DEFINE h == [k \in 0..(n + 1) |-> IF k = n + 1 THEN HashPair(g[n], proof[n + 1]) ELSE g[k]]
  <2>2. ASSUME NEW k \in 0..(n + 1) PROVE h[k] = IF k = 0 THEN leaf ELSE HashPair(h[k - 1], proof[k])
    <3>1. CASE k = 0
      BY <3>1, <2>1
    <3>2. CASE k = n + 1
      <4>1. h[k] = HashPair(g[n], proof[n + 1])
        BY <3>2
      <4>2. k - 1 = n /\ n \in 0..(n + 1) /\ n # n + 1 /\ k # 0
        BY <3>2
      <4>3. h[n] = g[n]
        BY <4>2
      <4> QED
        BY <3>2, <4>1, <4>2, <4>3
    <3>3. CASE k # 0 /\ k # n + 1
      <4>1. k \in 0..n /\ k - 1 \in 0..(n + 1) /\ k - 1 # n + 1
        BY <3>3
      <4>2. g[k] = HashPair(g[k - 1], proof[k])
        BY <2>1, <3>3, <4>1
      <4>3. h[k] = g[k] /\ h[k - 1] = g[k - 1]
        BY <3>3, <4>1
      <4> QED
        BY <3>3, <4>2, <4>3
    <3> QED
      BY <3>1, <3>2, <3>3
  <2>3. h = [k \in 0..(n + 1) |-> IF k = 0 THEN leaf ELSE HashPair(h[k - 1], proof[k])]
    BY <2>2
  <2> HIDE DEF h
  <2>4. \E f : f = [k \in 0..(n + 1) |-> IF k = 0 THEN leaf ELSE HashPair(f[k - 1], proof[k])]
    BY <2>3
  <2> QED
    BY <2>4
<1> HIDE DEF T
<1>3. \A n \in Nat : n \in T
  BY <1>1, <1>2, SetInduction
<1> QED
  BY <1>3 DEF T

LEMMA ComputedSteps ==
  ASSUME NEW leaf, NEW proof, Len(proof) \in Nat
  PROVE  /\ Computed(leaf, proof)[0] = leaf
         /\ \A k \in 1..Len(proof) :
               Computed(leaf, proof)[k] = HashPair(Computed(leaf, proof)[k - 1], proof[k])
<1>1. Computed(leaf, proof) =
        [k \in 0..Len(proof) |-> IF k = 0 THEN leaf ELSE HashPair(Computed(leaf, proof)[k - 1], proof[k])]
  BY ComputedExists DEF Computed
<1> DEFINE c == Computed(leaf, proof)
<1>2. c = [k \in 0..Len(proof) |-> IF k = 0 THEN leaf ELSE HashPair(c[k - 1], proof[k])]
  BY <1>1
<1> HIDE DEF c
<1>3. c[0] = leaf
  BY <1>2
<1>4. \A k \in 1..Len(proof) : c[k] = HashPair(c[k - 1], proof[k])
  BY <1>2
<1> QED
  BY <1>3, <1>4 DEF c

LEMMA PathExists ==
  ASSUME NEW i
  PROVE  \A n \in Nat : \E g : g = [k \in 1..n |-> IF k = 1 THEN i ELSE (g[k - 1] + 1) \div 2]
<1> DEFINE T == {n \in Nat : \E g : g = [k \in 1..n |-> IF k = 1 THEN i ELSE (g[k - 1] + 1) \div 2]}
<1>1. 0 \in T
  <2>1. [k \in 1..0 |-> i] = [k \in 1..0 |-> IF k = 1 THEN i ELSE ([l \in 1..0 |-> i][k - 1] + 1) \div 2]
    OBVIOUS
  <2> QED
    BY <2>1
<1>2. ASSUME NEW n \in Nat, n \in T PROVE n + 1 \in T
  <2>1. PICK g : g = [k \in 1..n |-> IF k = 1 THEN i ELSE (g[k - 1] + 1) \div 2]
    BY <1>2
  <2> DEFINE h == [k \in 1..(n + 1) |-> IF k = 1 THEN i ELSE IF k = n + 1 THEN (g[n] + 1) \div 2 ELSE g[k]]
  <2>2. ASSUME NEW k \in 1..(n + 1) PROVE h[k] = IF k = 1 THEN i ELSE (h[k - 1] + 1) \div 2
    <3>1. CASE k = 1
      BY <3>1
    <3>2. CASE k # 1
      <4>1. k - 1 \in 1..n /\ k - 1 \in 1..(n + 1) /\ k - 1 # n + 1
        BY <3>2
      <4>2. h[k - 1] = g[k - 1]
        BY <2>1, <4>1
      <4>3. h[k] = (g[k - 1] + 1) \div 2
        <5>1. CASE k = n + 1
          <6>1. k - 1 = n
            BY <5>1
          <6> QED
            BY <5>1, <6>1, <3>2, Zenon
        <5>2. CASE k # n + 1
          <6>1. k \in 1..n
            BY <5>2
          <6>2. h[k] = g[k]
            BY <5>2, <3>2
          <6> QED
            BY <6>1, <6>2, <3>2, <2>1, Zenon
        <5> QED
          BY <5>1, <5>2
      <4> QED
        BY <3>2, <4>2, <4>3
    <3> QED
      BY <3>1, <3>2
  <2>3. h = [k \in 1..(n + 1) |-> IF k = 1 THEN i ELSE (h[k - 1] + 1) \div 2]
    BY <2>2
  <2> HIDE DEF h
  <2>4. \E f : f = [k \in 1..(n + 1) |-> IF k = 1 THEN i ELSE (f[k - 1] + 1) \div 2]
    BY <2>3
  <2> QED
    BY <2>4
<1> HIDE DEF T
<1>3. \A n \in Nat : n \in T
  BY <1>1, <1>2, SetInduction
<1> QED
  BY <1>3 DEF T

LEMMA PathSteps ==
  ASSUME NEW i, NEW n \in Nat
  PROVE  /\ n >= 1 => Path(i, n)[1] = i
         /\ \A k \in 2..n : Path(i, n)[k] = (Path(i, n)[k - 1] + 1) \div 2
<1>1. Path(i, n) = [k \in 1..n |-> IF k = 1 THEN i ELSE (Path(i, n)[k - 1] + 1) \div 2]
  BY PathExists DEF Path
<1> DEFINE c == Path(i, n)
<1>2. c = [k \in 1..n |-> IF k = 1 THEN i ELSE (c[k - 1] + 1) \div 2]
  BY <1>1
<1> HIDE DEF c
<1>3. n >= 1 => c[1] = i
  BY <1>2
<1>4. \A k \in 2..n : c[k] = (c[k - 1] + 1) \div 2
  BY <1>2
<1> QED
  BY <1>3, <1>4 DEF c

LEMMA LevelsExist ==
  ASSUME NEW leaves
  PROVE  \A n \in Nat : \E g : g = [k \in 0..n |-> IF k = 0 THEN <<leaves>> ELSE Grown(g[k - 1])]
<1> DEFINE T == {n \in Nat : \E g : g = [k \in 0..n |-> IF k = 0 THEN <<leaves>> ELSE Grown(g[k - 1])]}
<1>1. 0 \in T
  <2>1. [k \in 0..0 |-> <<leaves>>] = [k \in 0..0 |-> IF k = 0 THEN <<leaves>> ELSE Grown([l \in 0..0 |-> <<leaves>>][k - 1])]
    OBVIOUS
  <2> QED
    BY <2>1
<1>2. ASSUME NEW n \in Nat, n \in T PROVE n + 1 \in T
  <2>1. PICK g : g = [k \in 0..n |-> IF k = 0 THEN <<leaves>> ELSE Grown(g[k - 1])]
    BY <1>2
  <2> DEFINE h == [k \in 0..(n + 1) |-> IF k = n + 1 THEN Grown(g[n]) ELSE g[k]]
  <2>2. ASSUME NEW k \in 0..(n + 1) PROVE h[k] = IF k = 0 THEN <<leaves>> ELSE Grown(h[k - 1])
    <3>1. CASE k = 0
      BY <3>1, <2>1
    <3>2. CASE k = n + 1
      <4>1. h[k] = Grown(g[n])
        BY <3>2
      <4>2. k - 1 = n /\ n \in 0..(n + 1) /\ n # n + 1 /\ k # 0
        BY <3>2
      <4>3. h[n] = g[n]
        BY <4>2
      <4> QED
        BY <3>2, <4>1, <4>2, <4>3
    <3>3. CASE k # 0 /\ k # n + 1
      <4>1. k \in 0..n /\ k - 1 \in 0..(n + 1) /\ k - 1 # n + 1
        BY <3>3
      <4>2. g[k] = Grown(g[k - 1])
        BY <2>1, <3>3, <4>1
      <4>3. h[k] = g[k] /\ h[k - 1] = g[k - 1]
        BY <3>3, <4>1
      <4> QED
        BY <3>3, <4>2, <4>3
    <3> QED
      BY <3>1, <3>2, <3>3
  <2>3. h = [k \in 0..(n + 1) |-> IF k = 0 THEN <<leaves>> ELSE Grown(h[k - 1])]
    BY <2>2
  <2> HIDE DEF h
  <2>4. \E f : f = [k \in 0..(n + 1) |-> IF k = 0 THEN <<leaves>> ELSE Grown(f[k - 1])]
    BY <2>3
  <2> QED
    BY <2>4
<1> HIDE DEF T
<1>3. \A n \in Nat : n \in T
  BY <1>1, <1>2, SetInduction
<1> QED
  BY <1>3 DEF T

-----------------------------------------------------------------------------
(* The levels of a tree.                                                   *)

(* A nonempty list, of whatever elements.                                  *)
Row(s) ==
    /\ Len(s) \in Nat \ {0}
    /\ s = [i \in 1..Len(s) |-> s[i]]

LEMMA RowLen ==
  ASSUME NEW n \in Nat, NEW s, DOMAIN s = 1..n, s = [i \in 1..n |-> s[i]]
  PROVE  Len(s) = n
<1>1. s \in Seq({s[i] : i \in 1..n})
  OBVIOUS
<1> QED
  BY <1>1

LEMMA AppendRow ==
  ASSUME NEW s, Row(s), NEW e
  PROVE  /\ Len(Append(s, e)) = Len(s) + 1
         /\ Row(Append(s, e))
         /\ Append(s, e)[Len(s) + 1] = e
         /\ \A i \in 1..Len(s) : Append(s, e)[i] = s[i]
<1> DEFINE S == {s[i] : i \in 1..Len(s)} \cup {e}
<1>1. s \in Seq(S)
  BY DEF Row
<1>2. e \in S
  OBVIOUS
<1> HIDE DEF S
<1>3. /\ Append(s, e) \in Seq(S) /\ Len(Append(s, e)) = Len(s) + 1
      /\ Append(s, e)[Len(s) + 1] = e
      /\ \A i \in 1..Len(s) : Append(s, e)[i] = s[i]
  BY <1>1, <1>2
<1>4. Len(s) + 1 \in Nat \ {0}
  BY DEF Row
<1>5. Append(s, e) = [i \in 1..Len(Append(s, e)) |-> Append(s, e)[i]]
  <2>1. \A t \in Seq(S) : t = [i \in 1..Len(t) |-> t[i]]
    OBVIOUS
  <2> QED
    BY <1>3, <2>1
<1> QED
  BY <1>3, <1>4, <1>5 DEF Row

LEMMA AboveIsRow ==
  ASSUME NEW level, Row(level)
  PROVE  Row(LevelAbove(level)) /\ Len(LevelAbove(level)) = (Len(level) + 1) \div 2
<1> DEFINE n == (Len(level) + 1) \div 2
<1>1. n \in Nat \ {0}
  BY DEF Row
<1>2. LevelAbove(level) = [i \in 1..n |-> HashPair(level[2 * i - 1], Sibling(level, 2 * i - 1))]
  BY DEF LevelAbove
<1> HIDE DEF n
<1>3. DOMAIN LevelAbove(level) = 1..n /\ LevelAbove(level) = [i \in 1..n |-> LevelAbove(level)[i]]
  BY <1>2
<1>4. Len(LevelAbove(level)) = n
  BY <1>1, <1>3, RowLen
<1> QED
  BY <1>1, <1>3, <1>4 DEF Row, n

(* Each level is made of the one below it.                                 *)
Tower(levels, leaves) ==
    /\ Row(levels) /\ levels[1] = leaves
    /\ \A k \in 1..Len(levels) : Row(levels[k])
    /\ \A k \in 2..Len(levels) : levels[k] = LevelAbove(levels[k - 1])

Top(levels) == levels[Len(levels)]

LEMMA TopIsRow ==
  ASSUME NEW levels, NEW leaves, Tower(levels, leaves)
  PROVE  Row(Top(levels)) /\ Len(Top(levels)) \in Nat \ {0}
<1>1. Len(levels) \in 1..Len(levels)
  BY DEF Tower, Row
<1>2. Row(Top(levels))
  BY <1>1 DEF Tower, Top
<1> QED
  BY <1>2 DEF Row

LEMMA GrownTower ==
  ASSUME NEW levels, NEW leaves, Tower(levels, leaves), Len(Top(levels)) # 1
  PROVE  /\ Tower(Grown(levels), leaves)
         /\ Len(Top(Grown(levels))) = (Len(Top(levels)) + 1) \div 2
<1> DEFINE e == LevelAbove(Top(levels))
           more == Append(levels, e)
           n == Len(levels)
<1>1. Row(levels) /\ n \in Nat \ {0}
  BY DEF Tower, Row
<1>2. Grown(levels) = more
  BY DEF Grown, Top
<1>3. Row(Top(levels))
  BY <1>1 DEF Tower, Top
<1>4. Row(e) /\ Len(e) = (Len(Top(levels)) + 1) \div 2
  BY <1>3, AboveIsRow
<1>0. levels[1] = leaves /\ \A k \in 1..n : Row(levels[k])
  BY DEF Tower
<1>9. \A k \in 2..n : levels[k] = LevelAbove(levels[k - 1])
  BY DEF Tower
<1>5. levels[n] = Top(levels)
  BY DEF Top
<1> HIDE DEF e
<1>6. /\ Row(more) /\ Len(more) = n + 1 /\ more[n + 1] = e
      /\ \A i \in 1..n : more[i] = levels[i]
  BY <1>1, AppendRow
<1> HIDE DEF more, n
<1>7. ASSUME NEW k \in 1..(n + 1) PROVE Row(more[k])
  <2>1. CASE k = n + 1
    BY <2>1, <1>4, <1>6
  <2>2. CASE k # n + 1
    <3>1. k \in 1..n
      BY <1>1, <2>2
    <3> QED
      BY <3>1, <1>6, <1>0
  <2> QED
    BY <2>1, <2>2
<1>8. ASSUME NEW k \in 2..(n + 1) PROVE more[k] = LevelAbove(more[k - 1])
  <2>1. k - 1 \in 1..n
    BY <1>1
  <2>2. more[k - 1] = levels[k - 1]
    BY <2>1, <1>6
  <2>3. CASE k = n + 1
    <3>1. more[k] = e /\ levels[k - 1] = Top(levels)
      BY <2>3, <1>1, <1>5, <1>6
    <3> QED
      BY <3>1, <2>2 DEF e
  <2>4. CASE k # n + 1
    <3>1. k \in 2..n /\ k \in 1..n
      BY <1>1, <2>4
    <3> QED
      BY <3>1, <2>2, <1>6, <1>9
  <2> QED
    BY <2>3, <2>4
<1>10. more[1] = leaves
  BY <1>0, <1>1, <1>6
<1>11. Tower(more, leaves)
  BY <1>6, <1>7, <1>8, <1>10 DEF Tower
<1>12. Top(more) = e
  BY <1>6 DEF Top
<1> QED
  BY <1>2, <1>4, <1>11, <1>12

LEMMA LevelsReachRoot ==
  ASSUME NEW leaves, Row(leaves)
  PROVE  Tower(Levels(leaves), leaves) /\ Len(Top(Levels(leaves))) = 1
<1> DEFINE n == Len(leaves)
<1>1. PICK g : g = [k \in 0..n |-> IF k = 0 THEN <<leaves>> ELSE Grown(g[k - 1])]
  BY LevelsExist DEF Row
<1>2. n \in Nat \ {0}
  BY DEF Row
<1> DEFINE up == CHOOSE f : f = [k \in 0..n |-> IF k = 0 THEN <<leaves>> ELSE Grown(f[k - 1])]
<1>3. up = [k \in 0..n |-> IF k = 0 THEN <<leaves>> ELSE Grown(up[k - 1])]
  BY <1>1
<1>4. Levels(leaves) = up[n]
  BY DEF Levels
<1> HIDE DEF up, n
<1> DEFINE Low(k) == Len(Top(up[k])) = 1 \/ Len(Top(up[k])) + k <= n
           T == {k \in Nat : k <= n => Tower(up[k], leaves) /\ Low(k)}
<1>5. 0 \in T
  <2>1. up[0] = <<leaves>>
    BY <1>2, <1>3
  <2>2. Row(<<leaves>>) /\ Len(<<leaves>>) = 1 /\ <<leaves>>[1] = leaves
    BY DEF Row
  <2>3. Tower(<<leaves>>, leaves) /\ Top(<<leaves>>) = leaves
    BY <2>2 DEF Tower, Top
  <2>4. Len(leaves) + 0 <= n
    BY <1>2 DEF n
  <2> QED
    BY <2>1, <2>3, <2>4
<1>6. ASSUME NEW k \in Nat, k \in T PROVE k + 1 \in T
  <2> SUFFICES ASSUME k + 1 <= n PROVE Tower(up[k + 1], leaves) /\ Low(k + 1)
    OBVIOUS
  <2>1. Tower(up[k], leaves) /\ Low(k)
    BY <1>2, <1>6
  <2>2. up[k + 1] = Grown(up[k])
    <3>1. k + 1 \in 0..n /\ k + 1 # 0 /\ (k + 1) - 1 = k
      BY <1>2
    <3> QED
      BY <3>1, <1>3
  <2>3. CASE Len(Top(up[k])) = 1
    <3>1. Grown(up[k]) = up[k]
      BY <2>3 DEF Grown, Top
    <3> QED
      BY <3>1, <2>1, <2>2, <2>3
  <2>4. CASE Len(Top(up[k])) # 1
    <3>1. Tower(Grown(up[k]), leaves) /\ Len(Top(Grown(up[k]))) = (Len(Top(up[k])) + 1) \div 2
      BY <2>1, <2>4, GrownTower
    <3>2. Len(Top(up[k])) \in Nat \ {0, 1}
      BY <2>1, <2>4, TopIsRow
    <3>3. \A l \in Nat \ {0, 1} : l + k <= n => (l + 1) \div 2 + (k + 1) <= n
      BY <1>2
    <3>4. Len(Top(up[k])) + k <= n
      BY <2>1, <2>4
    <3>5. Low(k + 1)
      BY <2>2, <3>1, <3>2, <3>3, <3>4
    <3> QED
      BY <2>2, <3>1, <3>5
  <2> QED
    BY <2>3, <2>4
<1>7. n \in T
  <2> HIDE DEF T
  <2>1. \A k \in Nat : k \in T
    BY <1>5, <1>6, SetInduction
  <2> QED
    BY <2>1, <1>2
<1>8. Tower(up[n], leaves) /\ Low(n)
  BY <1>2, <1>7
<1>9. Len(Top(up[n])) \in Nat \ {0}
  BY <1>8, TopIsRow
<1>10. Len(Top(up[n])) = 1
  BY <1>2, <1>8, <1>9
<1> QED
  BY <1>4, <1>8, <1>10

-----------------------------------------------------------------------------
(* The path of a leaf.                                                     *)

(* A node and its sibling make the node above them, whichever is left.     *)
LEMMA NodeAbove ==
  ASSUME NEW level, Row(level), NEW p \in 1..Len(level)
  PROVE  /\ (p + 1) \div 2 \in 1..Len(LevelAbove(level))
         /\ LevelAbove(level)[(p + 1) \div 2] = HashPair(level[p], Sibling(level, p))
<1> DEFINE n == Len(level)
           q == (p + 1) \div 2
<1>1. n \in Nat \ {0} /\ p \in 1..n /\ DOMAIN level = 1..n
  BY DEF Row
<1>2. q \in 1..((n + 1) \div 2)
  BY <1>1
<1>3. LevelAbove(level)[q] = HashPair(level[2 * q - 1], Sibling(level, 2 * q - 1))
  BY <1>2 DEF LevelAbove
<1>4. Len(LevelAbove(level)) = (n + 1) \div 2
  BY AboveIsRow
<1>5. CASE p % 2 = 1
  <2>1. 2 * q - 1 = p
    BY <1>1, <1>5
  <2> QED
    BY <2>1, <1>2, <1>3, <1>4
<1>6. CASE p % 2 # 1
  <2>1. 2 * q = p /\ (2 * q - 1) % 2 = 1 /\ (2 * q - 1) + 1 = p /\ 2 * q - 1 = p - 1 /\ p - 1 \in 1..n
    BY <1>1, <1>6
  <2>2. Sibling(level, 2 * q - 1) = level[p]
    BY <2>1, <1>1 DEF Sibling
  <2>3. Sibling(level, p) = level[p - 1]
    BY <2>1, <1>1, <1>6 DEF Sibling
  <2>4. HashPair(level[p - 1], level[p]) = HashPair(level[p], level[p - 1])
    BY DEF HashPair
  <2> QED
    BY <2>1, <2>2, <2>3, <2>4, <1>2, <1>3, <1>4
<1> QED
  BY <1>5, <1>6

(* The proof of a leaf opens the root for it.                              *)
LEMMA OwnProofOpens ==
  ASSUME NEW leaves, Row(leaves), NEW i \in DOMAIN leaves
  PROVE  VerifySnapshotProof(leaves[i], Proof(leaves, i), Root(leaves))
<1> DEFINE levels == Levels(leaves)
           m == Len(levels)
           at == Path(i, m)
           proof == Proof(leaves, i)
           c == Computed(leaves[i], proof)
<1>1. Tower(levels, leaves) /\ Len(Top(levels)) = 1
  BY LevelsReachRoot
<1>2. m \in Nat \ {0} /\ i \in 1..Len(leaves)
  BY <1>1 DEF Tower, Row
<1>3. proof = [k \in 1..(m - 1) |-> Sibling(levels[k], at[k])]
  BY DEF Proof
<1>4. Len(proof) = m - 1
  <2>1. m - 1 \in Nat
    BY <1>2
  <2>2. DOMAIN proof = 1..(m - 1) /\ proof = [k \in 1..(m - 1) |-> proof[k]]
    BY <1>3
  <2> HIDE DEF proof, m
  <2> QED
    BY <2>1, <2>2, RowLen
<1>5. at[1] = i /\ \A k \in 2..m : at[k] = (at[k - 1] + 1) \div 2
  BY <1>2, PathSteps
<1>6. c[0] = leaves[i] /\ \A k \in 1..(m - 1) : c[k] = HashPair(c[k - 1], proof[k])
  BY <1>2, <1>4, ComputedSteps
<1>7. levels[1] = leaves /\ \A k \in 1..m : Row(levels[k])
  BY <1>1 DEF Tower
<1>8. \A k \in 2..m : levels[k] = LevelAbove(levels[k - 1])
  BY <1>1 DEF Tower
<1>9. levels[m] = Top(levels)
  BY DEF Top
<1>10. Root(leaves) = levels[m][1]
  BY DEF Root
<1> HIDE DEF levels, m, at, proof, c
<1> DEFINE T == {k \in Nat : k < m => /\ at[k + 1] \in 1..Len(levels[k + 1])
                                       /\ c[k] = levels[k + 1][at[k + 1]]}
<1>11. 0 \in T
  BY <1>2, <1>5, <1>6, <1>7
<1>12. ASSUME NEW k \in Nat, k \in T PROVE k + 1 \in T
  <2> SUFFICES ASSUME k + 1 < m
               PROVE  /\ at[k + 2] \in 1..Len(levels[k + 2])
                      /\ c[k + 1] = levels[k + 2][at[k + 2]]
    OBVIOUS
  <2> DEFINE p == at[k + 1]
             level == levels[k + 1]
  <2>1. p \in 1..Len(level) /\ c[k] = level[p]
    BY <1>2, <1>12
  <2>2. k + 1 \in 1..m /\ k + 2 \in 2..m /\ (k + 2) - 1 = k + 1 /\ k + 1 \in 1..(m - 1) /\ (k + 1) - 1 = k
    BY <1>2
  <2>3. Row(level) /\ levels[k + 2] = LevelAbove(level) /\ at[k + 2] = (p + 1) \div 2
    BY <2>2, <1>5, <1>7, <1>8
  <2>4. c[k + 1] = HashPair(level[p], Sibling(level, p))
    BY <2>1, <2>2, <1>3, <1>6
  <2> HIDE DEF p, level
  <2> QED
    BY <2>1, <2>3, <2>4, NodeAbove
<1> HIDE DEF T
<1>13. \A k \in Nat : k \in T
  BY <1>11, <1>12, SetInduction
<1>14. m - 1 \in Nat /\ m - 1 < m /\ (m - 1) + 1 = m
  BY <1>2
<1>15. at[m] \in 1..Len(levels[m]) /\ c[m - 1] = levels[m][at[m]]
  BY <1>13, <1>14 DEF T
<1>16. at[m] = 1
  BY <1>1, <1>9, <1>15
<1> QED
  BY <1>4, <1>10, <1>15, <1>16 DEF VerifySnapshotProof, c, proof

(* The same proof leads two leaves to one root only if they are the same.  *)
LEMMA ProofOpensOneLeaf ==
  ASSUME NEW proof, Len(proof) \in Nat, NEW leaf, NEW other, NEW root,
         VerifySnapshotProof(leaf, proof, root), VerifySnapshotProof(other, proof, root)
  PROVE  leaf = other
<1> DEFINE n == Len(proof)
           c == Computed(leaf, proof)
           d == Computed(other, proof)
<1>1. c[0] = leaf /\ \A k \in 1..n : c[k] = HashPair(c[k - 1], proof[k])
  BY ComputedSteps
<1>2. d[0] = other /\ \A k \in 1..n : d[k] = HashPair(d[k - 1], proof[k])
  BY ComputedSteps
<1>3. c[n] = d[n]
  BY DEF VerifySnapshotProof
<1>4. \A x, y, s : HashPair(x, s) = HashPair(y, s) => x = y
  BY DEF HashPair
<1> HIDE DEF c, d, n
<1> DEFINE T == {k \in Nat : k <= n => c[n - k] = d[n - k]}
<1>5. n \in Nat
  BY DEF n
<1>6. 0 \in T
  BY <1>3, <1>5
<1>7. ASSUME NEW k \in Nat, k \in T PROVE k + 1 \in T
  <2> SUFFICES ASSUME k + 1 <= n PROVE c[n - (k + 1)] = d[n - (k + 1)]
    OBVIOUS
  <2>1. c[n - k] = d[n - k]
    BY <1>5, <1>7
  <2>2. n - k \in 1..n /\ (n - k) - 1 = n - (k + 1)
    BY <1>5
  <2>3. HashPair(c[n - (k + 1)], proof[n - k]) = HashPair(d[n - (k + 1)], proof[n - k])
    BY <2>1, <2>2, <1>1, <1>2
  <2> QED
    BY <2>3, <1>4
<1> HIDE DEF T
<1>8. \A k \in Nat : k \in T
  BY <1>6, <1>7, SetInduction
<1>9. c[n - n] = d[n - n]
  BY <1>5, <1>8 DEF T
<1> QED
  BY <1>1, <1>2, <1>5, <1>9

LEMMA ProofLen ==
  ASSUME NEW leaves, Row(leaves), NEW i
  PROVE  Len(Proof(leaves, i)) \in Nat
<1> DEFINE m == Len(Levels(leaves))
           proof == Proof(leaves, i)
<1>1. m - 1 \in Nat
  BY LevelsReachRoot DEF Tower, Row
<1>2. DOMAIN proof = 1..(m - 1) /\ proof = [k \in 1..(m - 1) |-> proof[k]]
  BY DEF Proof
<1> HIDE DEF m, proof
<1>3. Len(proof) = m - 1
  BY <1>1, <1>2, RowLen
<1> QED
  BY <1>1, <1>3 DEF proof

LEMMA ProofsAreExact ==
  ASSUME NEW leaves, Row(leaves), NEW forged
  PROVE  ProofsExact(leaves, forged)
<1> SUFFICES ASSUME NEW i \in DOMAIN leaves, NEW leaf
             PROVE  VerifySnapshotProof(leaf, Proof(leaves, i), Root(leaves)) <=> leaf = leaves[i]
  BY DEF ProofsExact
<1>1. VerifySnapshotProof(leaves[i], Proof(leaves, i), Root(leaves))
  BY OwnProofOpens
<1> QED
  BY <1>1, ProofLen, ProofOpensOneLeaf

-----------------------------------------------------------------------------
(* What the API serves.                                                    *)

LEMMA ExactOrEmpty ==
  ASSUME NEW n \in Nat, NEW leaves, DOMAIN leaves = 1..n, leaves = [i \in 1..n |-> leaves[i]],
         NEW forged
  PROVE  ProofsExact(leaves, forged)
<1>1. CASE n = 0
  BY <1>1 DEF ProofsExact
<1>2. CASE n # 0
  <2>1. Len(leaves) = n
    BY RowLen
  <2>2. Row(leaves)
    BY <1>2, <2>1 DEF Row
  <2> QED
    BY <2>2, ProofsAreExact
<1> QED
  BY <1>1, <1>2

LEMMA LeavesListed ==
  ASSUME NEW balances, NEW forged
  PROVE  ProofsExact(Leaves(balances), forged)
<1> DEFINE n == Cardinality({w \in Wallets : balances[w] > 0})
           leaves == Leaves(balances)
<1>1. n \in Nat
  BY FS_Subset, FS_CardinalityType, SnapshotScanAssumption
<1>2. DOMAIN leaves = 1..n /\ leaves = [i \in 1..n |-> leaves[i]]
  BY DEF Leaves
<1> HIDE DEF n, leaves
<1>3. ProofsExact(leaves, forged)
  BY <1>1, <1>2, ExactOrEmpty
<1> QED
  BY <1>3 DEF leaves

(* The proofs stored with a snapshot open its root for the wallet and the  *)
(* balance of the row and for nothing else (merkle.js:30,60), however many *)
(* holders the snapshot has.                                               *)
THEOREM ProofsVerify == Spec => []ServedProofsVerify
<1>1. ProofsOfSizes
  <2>1. ASSUME NEW n \in TreeSizes
        PROVE  ProofsExact([i \in 1..n |-> SnapshotLeaf(i, 1)], {SnapshotLeaf(n, 2)})
    <3> DEFINE leaves == [i \in 1..n |-> SnapshotLeaf(i, 1)]
    <3>1. n \in Nat
      BY SnapshotScanAssumption
    <3>2. DOMAIN leaves = 1..n /\ leaves = [i \in 1..n |-> leaves[i]]
      OBVIOUS
    <3> HIDE DEF leaves
    <3>3. ProofsExact(leaves, {SnapshotLeaf(n, 2)})
      BY <3>1, <3>2, ExactOrEmpty
    <3> QED
      BY <3>3 DEF leaves
  <2> QED
    BY <2>1 DEF ProofsOfSizes
<1>2. ServedProofsVerify
  BY <1>1, LeavesListed DEF ServedProofsVerify
<1> QED
  BY <1>2, PTL

-----------------------------------------------------------------------------
(* Who can vote.                                                           *)

Holders(balances) == {w \in Wallets : balances[w] > 0}
Rank(holders, w) == Cardinality({v \in holders : v < w})

(* The holders are numbered without a gap.                                 *)
LEMMA RankBelow ==
  ASSUME NEW holders, holders \subseteq Wallets, NEW v \in holders, NEW w \in holders, v < w
  PROVE  Rank(holders, v) < Rank(holders, w)
<1> DEFINE A == {u \in holders : u < v}
           B == {u \in holders : u < w}
<1>1. holders \subseteq Nat /\ IsFiniteSet(holders)
  BY SnapshotScanAssumption, FS_Subset
<1>2. A \subseteq B /\ A # B
  <2>0. v \in Nat /\ w \in Nat /\ \A u \in holders : u \in Nat
    BY <1>1
  <2>1. A \subseteq B
    <3> SUFFICES ASSUME NEW u \in holders, u < v PROVE u < w
      OBVIOUS
    <3>1. \A x, y, z \in Nat : x < y /\ y < z => x < z
      OBVIOUS
    <3> QED
      BY <2>0, <3>1, Zenon
  <2>2. v \in B /\ v \notin A
    BY <1>1
  <2> QED
    BY <2>1, <2>2
<1>3. IsFiniteSet(B)
  BY <1>1, FS_Subset
<1>4. Cardinality(A) <= Cardinality(B) /\ Cardinality(A) # Cardinality(B)
  BY <1>2, <1>3, FS_Subset
<1>5. Cardinality(A) \in Nat /\ Cardinality(B) \in Nat
  BY <1>1, FS_Subset, FS_CardinalityType
<1> QED
  BY <1>4, <1>5 DEF Rank

LEMMA RankRange ==
  ASSUME NEW holders, holders \subseteq Wallets, NEW w \in holders
  PROVE  Rank(holders, w) \in Nat /\ Rank(holders, w) \in 0..(Cardinality(holders) - 1)
<1> DEFINE A == {u \in holders : u < w}
<1>1. holders \subseteq Nat /\ IsFiniteSet(holders)
  BY SnapshotScanAssumption, FS_Subset
<1>2. A \subseteq holders /\ A # holders
  BY <1>1
<1>3. Cardinality(A) <= Cardinality(holders) /\ Cardinality(A) # Cardinality(holders)
  BY <1>1, <1>2, FS_Subset
<1>4. Cardinality(A) \in Nat /\ Cardinality(holders) \in Nat
  BY <1>1, FS_Subset, FS_CardinalityType
<1> QED
  BY <1>3, <1>4 DEF Rank

LEMMA RankUnique ==
  ASSUME NEW holders, holders \subseteq Wallets, NEW v \in holders, NEW w \in holders,
         Rank(holders, v) = Rank(holders, w)
  PROVE  v = w
<1>1. v \in Nat /\ w \in Nat
  BY SnapshotScanAssumption
<1>2. Rank(holders, v) \in Nat /\ Rank(holders, w) \in Nat
  BY RankRange
<1>3. ~(v < w) /\ ~(w < v)
  BY <1>2, RankBelow
<1> QED
  BY <1>1, <1>3

LEMMA EveryRank ==
  ASSUME NEW holders, holders \subseteq Wallets, NEW i \in 1..Cardinality(holders)
  PROVE  \E w \in holders : Rank(holders, w) = i - 1
<1> DEFINE n == Cardinality(holders)
           place == [w \in holders |-> Rank(holders, w) + 1]
<1>1. IsFiniteSet(holders) /\ n \in Nat
  BY SnapshotScanAssumption, FS_Subset, FS_CardinalityType
<1>2. \A w \in holders : Rank(holders, w) \in 0..(n - 1)
  BY RankRange
<1>3. place \in [holders -> 1..n]
  BY <1>1, <1>2
<1>4. ASSUME NEW v \in holders, NEW w \in holders, place[v] = place[w] PROVE v = w
  BY <1>2, <1>4, RankUnique
<1>5. place \in Injection(holders, 1..n)
  BY <1>3, <1>4 DEF Injection, IsInjective
<1>6. IsFiniteSet(1..n) /\ Cardinality(1..n) = n
  BY <1>1, FS_Interval
<1>7. place \in Surjection(holders, 1..n)
  BY <1>5, <1>6, FS_Injection
<1>8. PICK w \in holders : place[w] = i
  BY <1>7 DEF Surjection
<1> QED
  BY <1>2, <1>8

(* The leaves are those of the holders.                                    *)
LEMMA LeavesOfHolders ==
  ASSUME NEW balances
  PROVE  {Leaves(balances)[i] : i \in DOMAIN Leaves(balances)}
           = {SnapshotLeaf(w, balances[w]) : w \in Holders(balances)}
<1> DEFINE holders == Holders(balances)
           n == Cardinality(holders)
           Nth(i) == CHOOSE w \in holders : Rank(holders, w) = i - 1
           leaves == Leaves(balances)
<1>1. leaves = [i \in 1..n |-> SnapshotLeaf(Nth(i), balances[Nth(i)])]
  BY DEF Leaves, Holders, Rank
<1>2. holders \subseteq Wallets
  BY DEF Holders
<1>3. ASSUME NEW i \in 1..n PROVE Nth(i) \in holders /\ Rank(holders, Nth(i)) = i - 1
  BY <1>2, EveryRank
<1>4. ASSUME NEW w \in holders PROVE \E i \in 1..n : Nth(i) = w
  <2>1. Rank(holders, w) \in 0..(n - 1) /\ n \in Nat
    BY <1>2, RankRange, SnapshotScanAssumption, FS_Subset, FS_CardinalityType
  <2> DEFINE i == Rank(holders, w) + 1
  <2>2. i \in 1..n /\ Rank(holders, w) = i - 1
    BY <2>1
  <2>3. Nth(i) \in holders /\ Rank(holders, Nth(i)) = Rank(holders, w)
    BY <2>2, <1>3
  <2>4. Nth(i) = w
    BY <2>3, <1>2, RankUnique
  <2> QED
    BY <2>2, <2>4
<1> HIDE DEF holders, Nth, leaves
<1> QED
  BY <1>1, <1>3, <1>4 DEF holders, leaves

(* A wallet can prove the balance it had at the record block, and no other *)
(* amount, if that is worth a vote: what VoteEvent.castVote opens with the *)
(* proofs the API serves.                                                  *)
RegisterOpensRoot ==
    \A e \in Events :
        LET s == snapshot[e]
            leaves == Leaves(s.balances)
        IN  s # None /\ Hash(s.block) = s.hash =>
              \A w \in Wallets, b \in Nat :
                 (\E i \in DOMAIN leaves :
                     VerifySnapshotProof(SnapshotLeaf(w, b), Proof(leaves, i), Root(leaves)))
                 <=> w \in Eligible(Wallets, s.block) /\ b = BalanceAt(w, s.block)

LEMMA LeafOpens ==
  ASSUME NEW balances, NEW leaf
  PROVE  (\E i \in DOMAIN Leaves(balances) :
             VerifySnapshotProof(leaf, Proof(Leaves(balances), i), Root(Leaves(balances))))
         <=> \E w \in Holders(balances) : leaf = SnapshotLeaf(w, balances[w])
<1> DEFINE leaves == Leaves(balances)
<1>1. ProofsExact(leaves, {leaf})
  BY LeavesListed
<1>2. {leaves[i] : i \in DOMAIN leaves} = {SnapshotLeaf(w, balances[w]) : w \in Holders(balances)}
  BY LeavesOfHolders
<1> HIDE DEF leaves
<1>3. \A i \in DOMAIN leaves :
         VerifySnapshotProof(leaf, Proof(leaves, i), Root(leaves)) <=> leaf = leaves[i]
  BY <1>1 DEF ProofsExact
<1>4. (\E i \in DOMAIN leaves : VerifySnapshotProof(leaf, Proof(leaves, i), Root(leaves)))
        <=> leaf \in {leaves[i] : i \in DOMAIN leaves}
  BY <1>3
<1> QED
  BY <1>2, <1>4 DEF leaves

(* Scan, supply check and tree together: while the record block of a       *)
(* stored snapshot is canonical, its proofs open the root for the eligible *)
(* wallets with their balances there, and for nothing else.                *)
THEOREM RegisterServed == Spec => []RegisterOpensRoot
<1>1. TypeOK /\ SnapshotComplete => RegisterOpensRoot
  <2> SUFFICES ASSUME TypeOK, SnapshotComplete, NEW e \in Events,
                      snapshot[e] # None, Hash(snapshot[e].block) = snapshot[e].hash,
                      NEW w \in Wallets, NEW b \in Nat
               PROVE  (\E i \in DOMAIN Leaves(snapshot[e].balances) :
                         VerifySnapshotProof(SnapshotLeaf(w, b),
                             Proof(Leaves(snapshot[e].balances), i),
                             Root(Leaves(snapshot[e].balances))))
                      <=> w \in Eligible(Wallets, snapshot[e].block)
                          /\ b = BalanceAt(w, snapshot[e].block)
    BY DEF RegisterOpensRoot
  <2> DEFINE n == snapshot[e].block
             balances == snapshot[e].balances
  <2>1. balances = Entries(Eligible(Wallets, n), n)
    BY DEF SnapshotComplete
  <2>2. \A v \in Wallets : BalanceAt(v, n) \in Int
    <3>1. snapshot[e] \in Snapshot /\ n \in Heights
      BY DEF TypeOK, Snapshot
    <3> QED
      BY <3>1, BalanceType
  <2>3. \A x \in Int : x \div VoteUnit > 0 => x > 0
    BY SnapshotScanAssumption
  <2>4. \A v \in Eligible(Wallets, n) : BalanceAt(v, n) > 0
    BY <2>2, <2>3 DEF Eligible
  <2>5. \A v \in Wallets : balances[v] =
            IF v \in Eligible(Wallets, n) THEN BalanceAt(v, n) ELSE 0
    BY <2>1 DEF Entries
  <2>6. Holders(balances) = Eligible(Wallets, n)
    BY <2>4, <2>5 DEF Holders, Eligible
  <2>7. (\E v \in Holders(balances) : SnapshotLeaf(w, b) = SnapshotLeaf(v, balances[v]))
          <=> w \in Holders(balances) /\ b = balances[w]
    BY DEF SnapshotLeaf
  <2>8. w \in Eligible(Wallets, n) => balances[w] = BalanceAt(w, n)
    BY <2>5
  <2> HIDE DEF n, balances
  <2>9. (\E i \in DOMAIN Leaves(balances) :
           VerifySnapshotProof(SnapshotLeaf(w, b), Proof(Leaves(balances), i), Root(Leaves(balances))))
        <=> w \in Eligible(Wallets, n) /\ b = BalanceAt(w, n)
    BY <2>6, <2>7, <2>8, LeafOpens
  <2> QED
    BY <2>9 DEF n, balances
<1> QED
  BY <1>1, TypeCorrect, SnapshotsComplete, PTL
=============================================================================

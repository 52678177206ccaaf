# Formal models of PV Galaxy V2 (proxy voting)

TLA+ models, TLC configurations and TLAPS proofs for the services that build a
record-date snapshot, deploy one `VoteEvent` contract per event and relay signed
ballots to it. Paths below are relative to the repository root.

## The system

A creator describes an event (token, record date, proposals, voting window). The
API writes an `events` row and queues work; a worker process builds the snapshot,
deploys the contract and relays ballots; an indexer pass inside the worker reads
`VoteCast` logs back. Everything the parts share is in PostgreSQL and on the chain.

| Part | State it keeps | Operations | Talks to |
|---|---|---|---|
| job queue (`apps/api/src/jobs.js`, `apps/indexer/src/queue.js`, table `jobs`) | rows with key, status, attempts, lock | `enqueueJob`; `claimJob`, `updateJob`, `renewJobLock`, `completeJob`, `failJob`, `recoverExpiredJobs` | every API endpoint that starts work, every worker |
| worker loop (`apps/indexer/src/worker.js`) | `inFlight`, `stopping` | fill slots, run a job, maintenance, recovery, heartbeat, shutdown | queue, all job handlers, indexer pass |
| event lifecycle (`apps/api/src/events.js`, `deploy.js`, `snapshot.js`, `verify.js`) | `events.status`, `snapshot_root`, `contract_address`, `deployment_block` | `createEvent`, `retrySnapshot`, `retryDeployment`, `buildSnapshot`, `deployEvent`, `failJob`'s projection, status pass of the indexer | queue, outbox, chain |
| relayer outbox (`apps/indexer/src/relayer-transaction.js`, table `relayer_transactions`) | signed transactions by nonce with status | `prepareRelayerTransaction`, `broadcastPreparedTransaction`, `recordReceipt` | `deployEvent`, `relayVote`, the network |
| `VoteEvent` contract (`packages/contracts/contracts/VoteEvent.sol`) | immutable configuration, `hasVoted`, `_tallies` | constructor, `castVote`, views | anybody |
| votes (`apps/api/src/votes.js`, `apps/indexer/src/vote.js`, `event-indexer.js`) | `votes` rows, `event_index_state` cursor | `submitBallot`, `retryBallot`, `relayVote`, `indexVoteEvents`, `recoverEventReorg`, `reconcileSubmittedVotes`, `getResults` | queue, outbox, chain |
| snapshot builder (`apps/indexer/src/snapshot.js`) | candidates and cursor per token, `snapshot_entries` | resolve the record block, scan transfers, read balances, build the tree | chain, archive node, advisory lock per token |
| authentication (`apps/api/src/auth.js`) | `auth_nonces`, `sessions` | create, verify, revoke | web application |
| communications (`apps/api/src/communications.js`) | messages, subscriptions, deliveries | prepare, publish, subscribe, inbox, acknowledge | web application |
| Snap (`apps/snap`) | wallet context and messages | `setWalletContext`, `ingestCommunications`, `markAsRead`, `clearInbox` | the page, through MetaMask |
| web application (`apps/web/src`) | selected account, stored session, the awaits of its handlers | connect, authenticate, vote, publish, subscribe, synchronise the Snap | API, MetaMask, Snap |
| shared algorithms (`packages/shared/src`) | none | Merkle tree, canonical JSON, proposal packing, vote unit, typed data | all |
| HTTP plumbing, migrations, scripts | none of their own that others rely on | | |

What is hard about it: a statement of the API and a statement of a worker may fall
between any two statements of a request; worker processes die or stall in the middle
of a job and another one continues it; the network loses transactions, answers
errors for transactions it accepted and mines while nobody waits; a chain
reorganisation takes receipts and transfers back, and an archive node answers late;
a user switches accounts in MetaMask between any two awaits of the page; and two
clocks (wall time and block time) decide when voting is over.

What makes each part correct, in short: *queue* — one runner per job, one live job
per key, a runner writes only to its own row, accepted work is settled; *outbox* —
one live transaction per job, dense nonces, confirmations are final, persisted
transactions are mined; *contract* — a ballot box; *lifecycle* — the deployed root is
the root of the snapshot served, a status never claims what is not there; *votes* —
the projection converges to the logs of the canonical chain; *snapshot* — no
candidate is missed; *worker loop* — a run keeps its row,
and shutdown waits for what runs; *authentication* — a challenge opens one session;
*page* — what is recorded for a wallet was signed by it, and a message is acknowledged
only after the Snap has it.

## Modules

| Module | Models | Used by |
|---|---|---|
| `JobTable` | the `jobs` table and the worker's statements | `JobQueue`, `RelayerOutbox`, `EventLifecycle`, `VoteIndexer` |
| `JobQueue` | API requests against workers | `MCJobQueue`, `WorkerLoop` |
| `WorkerLoop` | the main loop of a worker process and its shutdown, over the queue | `MCWorkerLoop`, `JobQueueProofs` |
| `RelayerOutbox` | relayer transactions as the deploy and vote jobs drive them, with the network | `MCRelayerOutbox`, `RelayerOutboxProofs` |
| `EventLifecycle` | the `events` row under the snapshot and deploy jobs, the creator's retries and the status pass | `MCEventLifecycle`, `EventLifecycleProofs` |
| `VoteIndexer` | the `votes` rows and the indexer's cursor under requests, relaying jobs, the indexing pass and a chain that reorganises | `MCVoteIndexer`, `VoteIndexerProofs` |
| `SnapshotScan` | the builds of a token's events: record block, scan, balances, snapshot | `MCSnapshotScan`, `SnapshotScanProofs` |
| `MerkleTree` | the eligibility tree and its proofs | `SnapshotScan` |
| `AuthSessions` | challenges, sessions and concurrent verifications | `Portal` |
| `SnapInbox` | the state of the Snap and its RPC methods | `Portal` |
| `Portal` | the page with its wallet session, the ballot and communication routes, and the two modules above | `MCPortal`, `PortalProofs` |
| `ProposalConfig` | the packed proposal configuration, both sides | `VoteEvent` |
| `BallotBox` | what a VoteEvent promises (abstract specification) | `VoteEvent` |
| `VoteEvent` | the contract, its clock and the results endpoint | `MCVoteEvent`, `VoteEventProofs` |
| `JobTableProofs`, `JobQueueProofs`, `RelayerOutboxProofs`, `EventLifecycleProofs`, `VoteIndexerProofs`, `VoteEventProofs`, `SnapshotScanProofs`, `PortalProofs` | theorems | |
| `MCJobQueue`, `MCRelayerOutbox`, `MCEventLifecycle`, `MCVoteIndexer`, `MCVoteEvent`, `MCWorkerLoop`, `MCSnapshotScan`, `MCPortal` | instances for TLC | the `.cfg` files |

## How the code maps to state and actions

`JobTable` is the table and nothing else: each definition is one SQL statement or
one transaction. `jobs[j]` is a row, `slot[s]` the copy of the row a runner keeps
from `claimJob`: `failJob` decides from that copy whether attempts are left, which
is why the copy is modelled. `locked_at` is reduced to `fresh`, whether it is
younger than `jobLockMinutes`. `available_at` is left out: a PENDING row may be
claimed at any moment, which covers every delay. `attempts` saturates at
`MaxAttempts`, the only value it is compared with. Identities are numbered in
creation order, so "newest" is the greatest one.

`JobQueue` gives `enqueueJob` one action per statement, because its transaction
runs at READ COMMITTED and each statement sees what was committed since the one
before. `keyLock` is the row lock (or advisory lock) its callers take first: the
`events` row in `retryDeployment` and `retrySnapshot`, the ballot's advisory lock and
`votes` row in `submitBallot` and `retryBallot`, the `events` row `buildSnapshot` and
`finalizeDeployment` update before they insert a job themselves (`DirectInsert`).
Runs of the jobs in `StallKeys` may stall until their lock is taken for dead; with
`ReorgKeys` they are `LooseKeys`, of which only `ActiveKeyUnique` and `EveryJobSettles`
speak. `ReorgRequeue` is the statement of `recoverEventReorg` that resets a job whatever
its status. `FailRetry` has two outcomes: when the unique index rejects the UPDATE, the
promise of the run rejects with no handler and the process ends (`Die`).

`RelayerOutbox` adds a program counter per slot, one label per await of
`prepareRelayerTransaction` and `broadcastPreparedTransaction` and one for the checks
`deployEvent` and `relayVote` make before them. A transaction is named by its nonce:
the table is UNIQUE on chain, relayer and nonce, and a row that is refused is never
broadcast. `pool` and `chain` are the network; `Reported` lets the provider's pending
count lag, `SendThrows` lets the call fail before or after the network took the
transaction, `Drop` lets the network forget it. `EstimateReverts` is
the gas estimate of `populateTransaction` (`relayer-transaction.js:71`). `settled` is the projection
(`deployment_block`, a CONFIRMED vote), written by `Finalize` or by the indexer
(`IndexVote`). Renewal of the job lock is folded into the rule that a live runner
loses its lock only by stalling (`Stall`); reorganisations are not in this module.

`EventLifecycle` follows one event. `event` is its row, `pc` the await of each run,
`copy` the snapshot a run works with: the one `buildSnapshot` has resolved, or the
one `deployEvent` read with the row and later hands to `validateContract`. A snapshot
is named by its block, because `resolveRecordBlock` takes the newest confirmed block
at or before the record date: while confirmations are missing a later run finds a
later block (`BlockConfirmed`). A contract is named by its transaction; what
`RelayerOutbox` shows of a job's transactions is used in `LiveTxs` and not modelled
again, and `enqueueJob` is one step, as `JobQueue` justifies. The two retry requests
are two steps each, since their checks read the row before the transaction. `rebuilt` is
history: it becomes TRUE when a run that has stored the snapshot ends by anything but its
completion, or when `retrySnapshot` reaches an event that has a root (`docs/API.md:88`
meant it for failed ones), so when a stored snapshot may be built again. No step is excluded by
it; the properties say where they need it FALSE.

`VoteIndexer` follows the votes of one event. The chain is `hash` (which branch each
height belongs to) with the event's logs in `castAt` and `castBy`; `Reorg` replaces the
newest blocks, and a ballot in them is counted again, returns to the pool, or (with
`Drops`) is forgotten. `pass[w]` holds the locals of the indexing pass of a worker, one
label per await of `indexOneEvent`, `recoverEventReorg` and `reconcileSubmittedVotes`:
the rows a recovery selected and the logs a chunk read are copies, and the writes go by
the copies, as in the code. `cursor` is the row of `event_index_state`. `pc` and
`receipt` are the run of `relayVote` that a slot holds; its transaction is named by the
job, since `RelayerOutbox` shows a job has at most one that can succeed. Three things
are assumed: between the gas estimate of a transaction and its INSERT no block is mined,
the awaits for the blocks of selected rows are one step, and voting stays open.

`WorkerLoop` is `worker.js` around `JobQueue`: `worker[w].at` is the await the main loop
of a process is at (boot, claiming, a claimed row not yet in `inFlight`, maintenance, the
wait at the end of a turn), and everything between two awaits is one step. `inFlight` is
the set of held slots without the claimed one; `Signal` copies it into `drain`, as
`Promise.allSettled([...inFlight])` does, and a claim in flight then escapes it.
`ClosePool` is `db.end()`: no statement is sent afterwards, but one under way is carried
out. `ClaimLost` and `CompletionLost` are commits whose answer is lost. The second one
reopens a completed job: `completeJob` throws, `failJob` writes `WHERE id = $1`;
`CompletedIsFinal`, `RetryKeepsRow` and `NoEnqueueConflict` therefore belong to `JobQueue`, where no answer is lost, and do not carry over to a worker that loses one:
a failed row may stand beside a newer one of its key. What does carry over is
`RunsKeepRows`, and it is proved of the loop itself. A claim in
flight at SIGTERM is not awaited and leaves its row RUNNING until its lock is old. When
the unique index refuses `failJob`, the process ends with all its runs
(`RunEndsProcess`). The clock is left out: any turn may be the one in which maintenance
or recovery is due.

`SnapshotScan` follows the builds of several events of one token. The chain is the
environment: a block has a branch and at most one change of balances, with a Transfer
log or without; `Reorg` replaces the newest blocks, `Archived` lets every call see a
different, older head. `cursor`, `candidates` and `token` are the rows the events share;
`run[e]` holds the local variables of `buildSnapshot` and `scanCandidates` with one
label per await. `Start` is the head of `buildSnapshot` with `resolveRecordBlock`; a
record date between the safe head and the head takes the safe block, as the code does.
`ScanStart` is `TOKEN_SCAN_START_BLOCK`: `findDeploymentBlock` looks no lower, and stores
the block itself when the token has code there. That it lies at or below the deployment
of the token is assumed (`ScanStartAssumption`; `render.yaml:78` and `.env.example:50` set
it to 0): otherwise holders from before it are no candidates, the supply does not add up,
and the token is called UNSUPPORTED.
A hash is the height and the branch of its block. `MerkleTree` builds the tree as
`merkle.js` does, a hash being the term that was hashed; `ServedProofsVerify` compares
each proof with every other leaf.

`AuthSessions` has the rows of `auth_nonces` (`issued`, `unused`, `outdated`) and of
`sessions` (`opened`, `expired`), and the calls of `verifyNonce` under way: its SELECT
fixes the rows it saw, `FOR UPDATE` passes over those used meanwhile, and the rest of
the transaction is one step under the row's lock. `SnapInbox` has the state of the Snap
and what each RPC method makes of the state it read. `Portal` composes both with the
page and the ballot and communication routes. `task[t]` is a handler at one of its
awaits: the account of its render (`account`), what it prepared (`voter`), who signed
(`signer`), the token of its request (`token`), the fetched messages (`batch`), the
state the Snap read for it (`view`). A request carries the session stored when the step
before it ended, because `api()` reads it in the same turn; the answer of a request and
what the page does with it are one step. Rows are numbered in the order of insertion;
`created_at` is the start of the transaction, and the other order of two overlapping
`createNonce` calls is the same interleaving with the calls exchanged.

`VoteEvent` is the contract with the block clock, `BallotBox` what it promises, and
`ProposalConfig` the packing, once as the API computes it and once as the contract
reads it. Proposals and options are counted from zero as in the sources; a choice
vector is a TLA+ sequence, so choice `p` is `choices[p + 1]`. Merkle proofs and
signatures are modelled by what they accept, on the assumption that OpenZeppelin's
libraries and keccak256 do their work. `clock` is the API's wall clock, `blockTime`
the newest block, lagging by at most `MaxLag`. `asked` and `answer` are the last
`getResults`: when it looked at the clock, and what it has read of each proposal since,
one call at a time.

## Runs

| Run | Specification and properties | What it shows |
|---|---|---|
| `job_queue` (`MCJobQueue.cfg`) | `OneRunnerPerJob`, `RunnerOwnsRow`, `RetryKeepsRow`, `NoEnqueueConflict`, `ActiveKeyUnique` | Three requests for two keys, two processes with three slots, a crash. The runs of one key stall, its rows are inserted by the worker and requeued by reorganisations; the other key has none of this: there one runner per job, no row written by a runner that lost it, one unfinished row, no enqueue conflict. The key of a job is active once in any case. |
| `worker_loop` (`MCWorkerLoop.cfg`) | `ShutdownCutsOffOne`, `RunsKeepRows`, `EveryJobSettles` | Signals, crashes, lost database answers, stalls and reorganisations at any await of the loop: a run that does not stall is the only one of its job and owns its row, even when the answer of completeJob is lost and failJob reopens the job; shutdown cuts off at most the run whose claim was under way; every accepted job is completed or failed in the end. |
| `outbox` (`MCRelayerOutbox.cfg`) | `OneLiveTransaction`, `ProjectionTruthful`, `CompletedIsSettled`, `ConfirmedIsFinal` | A deployment and a vote share the relayer account while processes stall, so that two runners of one job meet; a call may revert, the window of the deployment may end and the ballot may be cast by somebody else: one live transaction per job, projection and outbox say what the chain did, a completed job had its effect, a recorded confirmation is never undone. |
| `outbox_live` (`MCRelayerOutboxLive.cfg`) | `OneLiveTransaction`, `NoncesDense`, `EveryPreparedMined`, `EveryJobSettled` | While voting windows stay open, one crash and one fault at any await leave one live transaction per job and no gap in the nonces, and do not keep a persisted transaction from being mined or a job from having its effect. |
| `outbox_expired` (`MCRelayerOutboxExpired.cfg`) - violation | `EveryPreparedMined` | Once the voting window ends before a persisted transaction was broadcast, no retry ever broadcasts it and every later nonce of the relayer waits. |
| `vote_event` (`MCVoteEvent.cfg`) | `OneFinalVote`, `CountedBallotsAuthentic`, `PackingAgrees`, `ImplementsBallotBox`, `OnlyLateBallotsMissing` | Ballots of five wallets sent by anybody, valid and malformed, replayed and with claimed balances, under every configuration value up to two full proposals: the contract implements the ballot box, accepts exactly what the API packs, and a results answer, asked for at any moment, misses only ballots of the last moments before the end. |
| `event_lifecycle` (`MCEventLifecycle.cfg`) | `RootServedUnlessRebuilt`, `OneContractPerEvent`, `DeployedIsIndexed`, `SnapshotBeforeDeployment`, `DeploymentIsFinal`, `ProgressEnds` | Until a stored snapshot is built again, if it ever is: retries at any moment, a crash and two errors leave at most one contract, deployed with the root that is served, indexed and never replaced; a deployment always has a snapshot, and no event stays in progress. |
| `event_root` (`MCEventLifecycleRoot.cfg`) - violation | `DeployedRootServed` | The same specification, without the condition: a snapshot built a second time while the event is deployed replaces the root the contract was deployed with. |
| `vote_indexer` (`MCVoteIndexer.cfg`) | `NothingSkipped`, `RequeueFits`, `CountedVotesConfirmed` | A signed ballot, the same vote sent by somebody else, a reorganisation of one block or of more than the confirmations, a crash or an error anywhere: the cursor leaves no vote behind, the recovery is never refused, and every vote with enough confirmations is recorded for good. |
| `vote_indexer_orphan` (`MCVoteIndexerOrphan.cfg`) - violation | `OrphanedBallotResent` | A receipt recorded at one confirmation is orphaned above the cursor: the ballot stays CONFIRMED while nothing sends its transaction again. |
| `snapshot_scan` (`MCSnapshotScan.cfg`) | `SnapshotComplete`, `CandidatesComplete`, `ServedProofsVerify`, `StandardTokenKept`, `BuildSettles` | Two builds of one token, with an early and a late record date, that wait for each other's scan; transfers may go unlogged; refused log ranges, a lagging archive node, a crash or a failed call, a reorganisation deeper than the confirmations between two snapshots: a stored snapshot holds every holder, a token is called unsupported for its balances only, the served proofs fit, and every build ends. |
| `portal` (`MCPortal.cfg`) | `ChallengeOpensOneSession`, `BallotBySigner`, `DeliveredWasIngested`, `FirstBallotStands`, `MessagesLeaveForCause` | Two handlers of the page at once, the user switching accounts between any two awaits, sessions, challenges and messages expiring and a verification delivered twice: a challenge opens one session, a ballot counts for the wallet that signed it and stands, no message is acknowledged unseen, and every message that leaves the Snap was cleared, of another context, pushed off the end of a full inbox, or unknown to the call that wrote. |

Every configuration says `CHECK_DEADLOCK FALSE`: requests are handled once, crashes
and faults are bounded and the clocks end, so a behaviour that has nothing left to do
stops. The bounds, all of them guards on counters or sizes of constants:

* `MaxCrashes`, `MaxFaults`, `MaxIncidents` of 1: one crash, signal, lost answer, refused
  call or dropped transaction already meets every await (`event_lifecycle` has two errors). With `Stalls` and
  `StallKeys` the number of lost locks is not bounded at all. `outbox` has stalls, reverts
  and the end of a window but no crash, `outbox_live` a crash and a fault but no stall:
  together they are too large for one run. `OneLiveTransaction` is in both, and the theorems
  hold for all of it at once.
* `MaxAttempts` 1 to 3: one attempt makes the first error final, two let a retry
  succeed or fail, three leave room for a crash and a fault before the last attempt.
* two to four job identities: two are an active row and a failed one of the same key, or
  rows of two keys at once; the theorems about the queue are for any number.
* `WorkerLoop`: one process with two slots, so that one run can be awaited while another
  one is being claimed; two processes meet in `job_queue`, and the theorems about the
  loop are for any number of both.
* `JobQueue`: the key `other` has every exception at once (direct inserts, stalls,
  reorganisations), more than any key of the code, which only adds behaviours; `vote` is
  the ordinary one. Requests for one ballot are symmetric, and so are the slots of a worker.
* `EventLifecycle`: two workers with a slot each, two blocks, two transactions, four
  job identities, one request of each kind: a second build beside a deployment, a
  second deployment job beside the first. No behaviour of the bounded instance needs a
  fifth job: each job is inserted by a request or by a build. The constraint `NoRebuildYet`
  of `event_lifecycle` does not continue a behaviour after a rebuild: `rebuilt` stays TRUE,
  and with it all properties of the run but `SnapshotBeforeDeployment`, which is proved
  without the condition; `event_root` has no constraint.
* `MaxNonce = 2`: two jobs have at most two live transactions, a third nonce shows
  whether one would be reserved; a run that would need a fourth nonce waits, which
  only shortens behaviours.
* `VoteIndexer`: one voter who signs and whose vote somebody else may send, four blocks
  with one confirmation, an overlap of one and chunks of two, so that a pass has several
  chunks, a cursor behind the tip and a rescan; one reorganisation of one
  block or of two, which is deeper than the confirmations; two jobs, one worker, one crash or error.
  `MaxAttempts = 1` makes every error of a run final, the harder case for the rows.
* `SnapshotScan`: two events of one token with record blocks 1 and 3, so that both scan,
  one after the other or one while the other waits for the lock; three wallets of which two
  may be candidates at most, two of them holders from the start and one that may give its
  balance to the other, to the third, or to the third without a log; heights up to 4 with one confirmation, an overlap of
  one, chunks of four where the provider gives two, so that chunks are refused, halved
  and grow again; one reorganisation, up to the confirmations at any time and one block
  deeper than the overlap between two builds; trees of one to nine leaves cover every
  shape of the last two levels.
* `Portal`: two wallets, two handlers at a time in eight pairings, two calls, two
  incidents (account switches, expiries, a verification delivered twice), three
  challenges, five messages of which one expires and one is another origin's, room for two
  in the Snap and up to four addressed to it, so that an ingest keeps, adds and pushes out
  messages at once. Choices of a ballot are symmetric.
* `VoteEvent`: the wall clock runs to 6 with voting from 2 to 4, so it passes both
  borders by more than the lag of 1. Configurations go up to two full proposals
  and requests up to four; the packing of a further proposal repeats the same four-bit
  step.

## Fairness

`WorkerLoop`, `RelayerOutbox` and `EventLifecycle` assume weak fairness of a request's
next statement (PostgreSQL and Node.js run it to its end), of the next step of a run
(every await has a timeout), of a lock growing old when nobody renews it, and, in the
latter two, of claiming, of `recoverExpiredJobs`, of mining what was broadcast (in nonce
order) and of the indexer pass. `WorkerLoop` does not assume claims or recovery: they
come from the loop, whose steps are weakly fair, as are closing the pool and leaving the
process; the platform restarts an ended process (`Restart`, `render.yaml:40`). Strong
fairness is stated there for one action, `RecoveryDue`: time passes, so of all the turns of a
loop one comes in which the minute is over. Nothing is assumed of crashes, stalls,
faults, aborted requests, user retries or the end of voting windows. Two limits should be
read with the outbox: while voting is open a vote or a deployment gets through one crash
and one fault because the attempts suffice (`MaxAttempts = 3`, the code's default is
higher), and `GasReverts` and `SelfCast` are off there. A transaction that reverts on the
chain is a permanent failure by design; and a vote transaction that was never sent while
its voter voted otherwise is the same gap as in `outbox_expired`: the retry finds the vote
and completes without sending it.

`SnapshotScan` assumes weak fairness of a build's next step - a queued job is claimed,
which `worker_loop` shows, and every call has a timeout - and strong fairness of getting
the token's scan lock: `pg_advisory_lock` (`queue.js:136`) waits in PostgreSQL's lock queue,
which is served in order, so a build that waits is not passed over for ever by builds that
come later. Without it `BuildSettles` fails: with weak fairness alone the creator's retries
of the other event may always get the lock first.

`VoteIndexer` assumes less: only that a worker takes the next step of its indexing pass,
which `worker.js` repeats every five seconds. Jobs, requests and the chain need not move;
`CountedVotesConfirmed` speaks of votes the chain already counts.

## Proofs

Each proof module extends the module it is about; all proofs hold for every value of
the constants that satisfies the named assumptions of the modules (finite `Voters`,
`WorkerOf` total, `JobIds` a set of naturals, and so on), with unbounded stalls.

* `JobTableProofs` has the facts about the table that other proofs cite: typing of
  every statement, what a statement leaves of a row, and that the statements of workers
  that do not stall keep `TableHeld`: a claimed row is held by one run, under its
  process's name (`RowHeld`, `RunApart`), and a key has one unfinished row.
* `JobQueueProofs` proves `QueueInv` inductive. `OneRunnerPerJob` alone is not: it
  needs that a run holds a RUNNING, fresh row under its own process's name
  (`RunsLocked`), since only then does `recoverExpiredJobs` pass it over, and
  `RetryKeepsRow` needs that what a request has read is still true when it writes
  (`ReadsStillTrue`), which follows from the row lock (`LockHeld`) and from workers
  never creating an unfinished row of an ordinary key. From it: `TypeCorrect`,
  `OneRunner`, `OwnedRow`, `RetryReuses`, `EnqueueSerialised`, `CompletedStays`.
  `OneActivePerKey` is proved by its own invariant, because it must hold with stalls
  and reorganisations, where most of `QueueInv` says nothing. For the worker loop
  it proves `LoopTypeCorrect`, `LoopKeysUnique`, `RowsKept` and `ShutdownSafe` from
  `LoopInv`. `RowsKept` needs `RunsInv`: the row of a run that still works is young, so
  recovery passes it over, and a run that waits for nothing but its `failJob` after a lost
  answer finds its row COMPLETED, which no statement but its own changes. `ShutdownInv` says why one run at most is cut off:
  of the runs a stopping process holds all but one are in `drain`, and all of them are
  while a claim is under way, so that the claim can add only one.
* `RelayerOutboxProofs` proves `OutboxInv`: `RunOK(s)` states what the run in slot `s`
  may rely on at each await - between taking the advisory lock and persisting the row,
  no row of the job is live, and everything below the reserved nonce is reserved;
  afterwards the row belongs to the job; a recorded receipt is a mined transaction -
  and `DataOK` relates table, chain and projection. A step of another run keeps
  `RunOK(s)` because it cannot hold the advisory lock and can only settle, never
  revive, a transaction. From it: `OneTransactionPerJob`, `DenseNonces`,
  `FreeNonces`, `TruthfulProjection`, `CompletedJobsSettled`, `ConfirmedStays`.
* `EventLifecycleProofs` proves `SnapshotFirst` from `SnapshotInv`. What is missing in
  the property alone is what the awaits remember: a build about to store has resolved a
  block, and a `retryDeployment` past its check saw a root. Both stay true because no
  statement takes a root back and only an INSERT writes a job's key. `RootServed`,
  `OneContract`, `DeployedIndexed` and `DeploymentFinal` are about states and steps with
  `rebuilt = FALSE`; without that three of the four are false (see `event_root` below).
  They rest on `rebuilt \/ LifeInv`, a step either keeping `LifeInv` or making `rebuilt`
  TRUE for good. `LifeInv` says: the snapshot job is row 1 and is done once a root
  is stored (`BuiltOnce`); until the event is deployed there is one deployment row at
  most, it completes only by deploying, every transaction belongs to it and carries the
  stored root, and one transaction at most is not closed (`DeployedOnce`); and
  `RunOK(s)` is what the run in `s` remembers at its await. One runner per job, from
  `TableHeld`, is what keeps two runs from persisting two transactions.
* `VoteIndexerProofs` proves `IndexerTypeCorrect` for reorganisations of any depth (types
  need `ChunkInside`: a pass only asks for blocks that are there), and
  `ShallowNothingSkipped` under `ReorgDepth <= Confirmations` for any number of workers.
  Its invariant `FinalInv` says of the cursor, and of what every pass has copied, that
  the votes up to there are recorded (`Done`) and the hashes are those of the chain;
  `FinalKept` lists what each step leaves of final blocks. A by-product is the reason of
  the finding `vote_indexer_orphan`: under that assumption no pass ever enters
  `recoverEventReorg`. For one worker and one reorganisation of any depth it proves
  `RequeueNeverRefused`. `RequeueFits` speaks of one moment; the reason lies far before it,
  and two invariants say it. `Ledger`: a row, a copied row, a log and a cast on the chain
  name a job of their own voter, and a voter with a job has signed. `RequeueInv`: a voter
  is `Young` - one job row at most, completed only with a CONFIRMED ballot, its run under
  the lock - or `Fresh`: what the ballot, and every copy a pass holds, say of a block is
  still on the chain. Before the reorganisation everybody is both; it ends `Fresh` for
  those it strikes, who are `Young` still. A second job comes only from `submitBallot` or
  `retryBallot`, which a CONFIRMED ballot refuses: a voter gets it only once the recovery
  has undone the orphaned ballot and nothing old is left, and what is written from then on
  is `Fresh`, which the recovery passes over. With `MaxReorgs = 2` that is no longer so,
  and TLC finds `RequeueFits` violated. Nothing else is assumed: slots may crash, fail and
  retry at any point.
  Under the same assumptions and `ReorgDepth <= Confirmations + Overlap`,
  `DeepNothingSkipped` proves `NothingSkipped` where the recovery does work. Blocks deeper
  than both are `Solid`. `DeepInv` says that the votes up to `cursor.block - Overlap` are
  recorded; that the hash recorded for the cursor is the chain's, or the reorganisation
  is over and left the blocks up to `cursor.block - Overlap` alone (`Dated`), so that the
  scan resumes below every vote it moved; that a CONFIRMED row, and every copy of one, is
  on the chain or of a vote the reorganisation `Moved`, so that the recovery undoes only
  rows of votes the resumed scan reads again; and of a pass, that what it has gone by is
  recorded as far as the blocks are solid (`PassSound`). Before the reorganisation a vote
  has one block and every receipt names it (`Early`).
* `SnapshotScanProofs` has two invariants. `ScanInv`, under `MaxLag <= Confirmations`,
  says that what a scan has passed is among the candidates for good
  (`CandidatesStayComplete`). That one run scans at a time is not needed: the advisory
  lock of the token only saves work. Without the assumption about the lag the hash of a
  cursor may be unknown and is then trusted. `BuildInv` assumes nothing: the record block
  of a build stays what it was (`RecordBlocksStay`), and a stored snapshot is right
  (`SnapshotsComplete`), because candidates that miss a holder do not add up to the
  supply. That needs the conservation of supply: at every block the balances of all
  wallets, counted as units, are the initial ones and those minted, by induction over the
  blocks, a transfer moving one unit. Both together give `TokensKept`: complete
  candidates always add up unless a balance changed without a log.
  `ProofsVerify` is about `merkle.js` for trees of any size: the levels of a tree halve
  until one hash is left (`Grown`), the node above entry `i` is entry `(i + 1) \div 2` of
  the next level (`Path`), and the running hash of a verification meets that node at
  every level, the last odd one paired with itself; a hash being the term that was hashed,
  equal hashes have equal parts, so another leaf never gets there. `RegisterServed` puts
  the two together: the proofs of a stored snapshot open its root for the eligible
  wallets with their balances at the record block and for nothing else.
* `PortalProofs` proves `PortalInv` inductive. `BallotBySigner` alone is not: between the
  check and the transaction the call relies on the row of its token still naming the
  wallet that signed (`JobOK` at `record`), and no path through `authenticate` leads
  there. `ChallengeOpensOneSession` needs that a row still unused has opened nothing. From
  it: `PortalTypeCorrect`, `ChallengeOpensOnce`, `BallotsSigned`, `BallotStands`,
  `AcknowledgedWasIngested`, for any number of wallets, calls and incidents. `InboxInv`
  adds the types of what the Snap stores and of what calls have read and fetched, which
  `MessagesLeave` needs: what `ingestCommunications` writes begins with every unknown
  message and goes on with the old ones, cut off only at `MaxStored`.
* `VoteEventProofs` proves `OneVote` and `AuthenticBallots` from the invariant that
  every voter in the log is marked and every logged ballot passed the checks.
  `AnswersComplete` rests on an answer being the tallies at some length of the log, which
  are the votes in that many ballots, and on two clocks: a ballot logged after the request
  has a block time behind the request by no more than the lag and not past the end, while
  the request came after the end. For
  `BallotBoxImplemented` the invariant is `CountInv`: a tally is the number of papers of
  the voters whose ballot in the log chose the option, a voter putting in as many papers
  as there are votes; one ballot more adds its voter's papers to one option of each
  proposal, as the loop of `castVote` does, because tally keys do not collide.
  `PackingIsAgreed` is arithmetic: a place is a multiple of sixteen times every place
  below, so adding an option count changes no other (`AddHigher`, `AddHere`), and a
  configuration up to a place is what it is up to the place below and four bits
  (`UpTo`).

Where a proof needs induction over data (packing, levels, proofs, units of a supply), it
is by `SetInduction`: a set of naturals with 0 and every successor is all of them, since
otherwise it would leave out a least one, by `WFMin` and `NatLessThanWellFounded` of the
library. That a recursive function satisfies its definition is proved the same way (the
`...Exists` lemmas).

## Disagreements found

Three runs are expected to end with a violation; each shows the code doing something
else than a document says.

* `event_root`: a snapshot may be built again although it is stored, after a crash
  between its commit and `completeJob` or because the creator asked. Its last
  transaction (`snapshot.js:333`) writes `events` without looking at the row again, so
  the root may change under a deployment that goes on with the copy read before, and
  the served proofs do not fit the contract; `events.js:312` says a deployed event
  cannot rebuild its snapshot. The same behaviours also break
  `OneContractPerEvent` without its condition - if the deployment job had failed, `snapshot.js:357` inserts a
  new one which does not know the transaction of the old one - and
  `DeployedIsIndexed` - a second build that fails for good marks a deployed event
  FAILED (`queue.js:93`), and the indexer leaves it. Two retries at once are a third way
  to build again: `retrySnapshot` reads the row before its transaction
  (`events.js:310-324`), so of two requests for a FAILED event the second may queue the
  build when the first one's is stored already. As long as nothing of the kind
  has happened (`rebuilt = FALSE`), all three hold: run `event_lifecycle` and the theorems of
  `EventLifecycleProofs`. An event may also stay in progress: `retrySnapshot` that meets
  a build which has stored its snapshot and is not completed yet sets SNAPSHOT_PENDING and
  queues nothing, since the job is RUNNING still; hence the condition in `ProgressEnds`.
* `outbox_expired`: `deploy.js:139` and `vote.js:106` refuse to go on once the window
  is over, before they look into the outbox. A transaction persisted but not
  broadcast by then stays unbroadcast for good, and every later nonce of the relayer
  account waits behind it. `docs/OPERATIONS.md:99` says a retry "rebroadcasts/
  reconciles the same transaction".
* `vote_indexer_orphan`: `relayVote` records a receipt at one confirmation, while
  `recoverEventReorg` runs only when the block at the cursor has another hash, and the
  cursor is `CONFIRMATION_BLOCKS` behind. A shallow reorganisation above the cursor
  therefore orphans a recorded vote unnoticed: the row stays CONFIRMED with a block that
  is gone, `retryBallot` refuses it, and when the network forgot the transaction nobody
  sends it again, though `event-indexer.js:51` means to "reuse the exact signed raw
  transaction and nonce after an orphaned receipt". When the network keeps the
  transaction, as in run `vote_indexer`, it is mined again and the indexer corrects the
  row.

What else the models show, and no run is about:

* `votes.js:279` calls results available by the wall clock while `castVote` goes by
  `block.timestamp`: as long as the newest block lags behind the end, the next one may
  still count a ballot, and the proposals of one answer may be read before it and after it,
  though `docs/API.md:127` speaks of final results after the event closes.
  `OnlyLateBallotsMissing` bounds what such an answer misses;
* a scan is exact only if the archive node is behind by no more than
  `CONFIRMATION_BLOCKS`: further behind, a chunk has no logs for blocks it claims to have
  read and its cursor no hash (`snapshot.js:162`), and such a cursor is trusted later. A
  candidate is then missing, the supply does not add up, and the token becomes
  UNSUPPORTED, which nothing in `tokens.js` undoes. A reorganisation during a scan that is
  deeper than the confirmations does the same. The stored deployment block of a token is
  not compared with a smaller record block (`snapshot.js:36`);
* when the user switches from A to B while `syncSnapInbox` runs, the inbox of B may be
  fetched, stored in the Snap under A's context, and acknowledged for B: the session of a
  request is the one stored last, the context is the account of the render
  (`snap.js:54,68,73`);
* two RPC calls to the Snap that interleave write the state they read; the later write
  loses what the earlier one stored, though it was acknowledged (`index.tsx:59`). `MessagesLeaveForCause`
  bounds it: only messages the later call had not read are lost;
* one message whose action URL is another approved origin's, or that expires between the
  fetch and the ingest, makes the Snap refuse its whole batch (`index.tsx:264`), at every
  synchronisation while it is in the inbox;
* a wallet with two live challenges is checked against the newer one only
  (`auth.js:51`): a signature over the older one is refused;
* a verification answered late stores its session although the user has switched on
  (`wallet.jsx:83`); the ballot of such a call is refused, as `BallotBySigner` shows;
* `VotePage` sets its state after an await without looking whether it is still the active
  one, against the comment at `App.jsx:652`;
* the status pass (`event-indexer.js:203`) takes a predicted `contract_address` for a
  contract, so an event is OPEN before it is deployed, and stays so when the
  deployment reverts;
* with two worker processes the recovery of a stale pass undoes rows another pass has
  confirmed again, and `NothingSkipped` fails after a deep reorganisation;
  `render.yaml:40` deploys one worker, and two meet only while one replaces the other;
* `finalizeVote` writes the hash of the block that has the receipt's height by then
  (`vote.js:34`), so after a second reorganisation deeper than `CONFIRMATION_BLOCKS` the
  row of an orphaned vote may pass for canonical; the runs have one reorganisation;
* a run that has read CONFIRMED completes its job although the recovery has queued the
  job again meanwhile; the ballot is then QUEUED or SUBMITTED with no job until its
  voter retries;
* `getLogs` and the block of the chunk's end are two calls (`event-indexer.js:127,133`);
  a deep reorganisation between them stores old logs beside the new hash. Votes of the new
  branch are read again by the overlap, but the row of a vote that the new branch does not
  count stays CONFIRMED;
* with two reorganisations `RequeueFits` fails: the UPDATE of the recovery meets a second
  active job of the same ballot and is refused by the unique index, and so is every later
  pass while that job is active (`event-indexer.js:69`). No document claims otherwise.

## What is only model-checked, and what is not modelled

Liveness is checked by TLC only: TLAPS has no rules for fairness and ENABLED here. These
are `EveryJobSettles`, `EveryPreparedMined`, `EveryJobSettled`, `ProgressEnds`,
`CountedVotesConfirmed` and `BuildSettles`. `CompletedIsFinal` of the
queue is proved only. Every safety
property the passing runs check is stated by a theorem, some under assumptions on the
constants that the theorem names: depth of reorganisations, lag of a node, one worker.

Not modelled: the text of errors, back-off times, progress and results of jobs,
hashing and signatures themselves, wrap-around of 256-bit tallies (balances sum up to the
token's supply), a database connection that is lost while its process lives on, with the
advisory lock it held. Of the page: rendering, routing and polling, the forms that create
an event, chain switching, `logoutPortal` and `revokeSession` (no component calls them),
message categories (the page sends all of them), the LIMIT of the inbox. `markAsRead` and
`clearInbox` are not called by the page, but the Snap offers them to its origin, so they
are in the model. What is left as a component of its own - routing of HTTP requests,
validation, serialisers, migrations, scripts - keeps no state between calls.

## Plan

The modules, runs and proofs planned for the core, the snapshots, the worker loop, the
authentication, the Snap and the page are done. What would add most next:

1. An abstract life of an event that `EventLifecycle` implements.
2. A database connection lost under an advisory lock, in `RelayerOutbox` and
   `SnapshotScan`; two VoteCast logs in one transaction and two workers in `VoteIndexer`.


# Cedar: a TLA+ model of the commit kernel

Cedar is a bitemporal graph database kernel. A *fact* is an identity (partition,
family, property, entity) at a valid time; every commit takes one commit
sequence, and a snapshot fixes the sequence up to which it reads. This directory
models the kernel's concurrent and crash-sensitive parts, model-checks them on
small instances and proves the central invariants for every instance.

## The system

| Part | Code | Here |
| --- | --- | --- |
| Append commit pipeline | `src/kernel/database.cc`, `database_impl.h`, `epoch_completion.cc` | `CommitPipeline` |
| Commit validation | `ValidateSnapshotWriteDependencies`, `ValidateStrictReadDependencies` in `src/storage/rocks/rocks_adapter.cc`, `group_commit_planner.cc`, `pending_version_overlay.cc`, `temporal_validation.cc` | `FactLog` |
| Validation caches | `recent_fact_write_index.cc`, `version_validation_cache.cc`, `fact_identity_history.cc` | `RecentFactWriteIndex`, `ValidationCaches` |
| Transactions, commit handles | `src/kernel/transaction.cc` | clients of `CommitPipeline` and `CloseProtocol` |
| Async submission executor | `src/kernel/async_submission_executor.cc` | `CommitPipeline`; its shutdown in `CloseProtocol` |
| Prepared commits, recovery | `PersistPreparedCommit` and friends, `FactStore::Open` | `FactStoreRecovery` |
| Retention, vacuum, pruning | `rocks_adapter.cc`, `vacuum.cc` | against readers in `SnapshotEpochs`, against crashes in `FactStoreRecovery` |
| Identifier leases | `AllocateTransactionId`, `LeaseIds` | `FactStoreRecovery` |
| Snapshot epochs, as-of cache | `rocks_adapter.cc` | `SnapshotEpochs` |
| Close and destruction | `database.cc`, `query_runtime.cc` | `CloseProtocol` |
| Query delta | `src/query/projection/query_delta.cc` | `QueryDelta` |
| Query execution, projections, Cypher, Bolt server, codecs, vendored engine | `src/query`, `src/cypher`, `src/server`, `src/engine` | see *Not modelled* |

A client begins a transaction at the visible sequence, stages facts and commits
synchronously, asynchronously (returning when the write-ahead log holds the
transaction) or pipelined (returning at admission). Asynchronous requests pass
through the executor's bounded mailbox. All requests end up in one bounded
queue. The append worker takes a prefix of it with pairwise compatible
footprints, an *epoch*, and writes it with one WAL sync under the store's
publisher mutex. While it writes epoch N, the preflight worker predicts epoch
N+1: it fixes the sequences of queued requests on the assumption that epoch N
commits completely. The append worker promotes the prediction if it still
matches the queue and the store.

Validation asks whether a fact changed after a snapshot. Before it scans the
store it asks three caches: an index of recent writes, a filter of the
identities ever written, and a cache of boundary chains.

After publication the append worker hands each commit to the *query delta*, an
in-memory tail behind a persistent projection. Queries take leases on a prefix of
it and otherwise read the canonical records.

All readers of one visible sequence share a *snapshot epoch*, a counted reference
to one RocksDB snapshot. They pin it without a lock. Publication retires it,
vacuum and close look for the epochs still pinned.

An external coordinator may *prepare* a commit and later decide it with a
certificate. The decision is durable before it takes effect; opening the store
finishes or keeps what a crash interrupted.

`Close` stops admission, drains the commit calls and the pipeline, and asks the
store whether a snapshot pins it. If so it rolls back and the database stays
usable; otherwise it stops the threads and closes the store.

## Modules

- `FactLog`: the committed history as a function from commits to sequences, the
  two validations a commit passes, and footprints. Pure operators.
- `CommitLog`: the abstract specification. Every transaction sits at its own
  sequence, valid against everything below it; groups become visible as a whole.
- `CommitPipeline`: the pipeline. One action is one critical section of
  `append_commit_mutex` or `publisher_mutex`, or one step outside them that
  another thread can see. Variables have the names of the fields and locals they
  stand for. The append worker's control is `pc`, the preflight worker's is
  `preflight_pc`.
- `CommitPipelineRefinement`: `CommitPipeline` implements `CommitLog` (the
  refinement mapping is the identity on `snapshot`, `commit_seq`, `visible_seq`).
- `CommitPipelineInvariants`: the parts of its inductive invariant.
- `CommitPipelineLemmas`, `CommitPipelineProofs`: what each step keeps of each
  part, and the theorems.
- `RecentFactWriteIndex`: the index of recent writes as a value and operators on
  it, one per method, with a specification of its own under arbitrary calls.
- `ValidationCaches`: the index, the identity history and the chain cache inside
  validation, writing and publication. One action is one critical section, or
  one cache call made outside of any.
- `ValidationCachesLemmas`, `ValidationCachesProofs`: the proof of the index, what
  a step does to the caches around it, and the theorems on them.
- `FactStoreRecovery`: what the store writes to its log. One action is one write
  batch, with its success and its failure, or one step of `Open`. `images` is
  what a crash may leave: the contents from the last synchronized write on.
- `FactStoreRecoveryLemmas`, `FactStoreRecoveryProofs`: what each batch does to an
  image, and the theorems.
- `CloseProtocol`: Close and `~Impl` against clients, executor and append worker.
  One action is one atomic access or one critical section. `pc` is the thread in
  Close or `~Impl`, `phase[t]` a client, `executor` and `worker` the two threads.
- `CloseProtocolProofs`: its proofs.
- `QueryDelta`: the derived tail of commits: the publisher's side, the indexing
  thread, repair, retirement, reset, leases, destruction. One action is one
  critical section of `queue_mutex_` or `mutex_`.
- `QueryDeltaProofs`: its proofs.
- `SnapshotEpochs`: epochs from creation to the freeing of their memory. One
  action is one access to a word that threads race for, or one critical section
  of `epoch_mutex`, `as_of_cache_mutex` or `lifecycle_mutex_`. `th[t].pc` is where
  thread t is; the sharded attempt counters follow from it.
- `SnapshotRetention`: the abstract specification of the epochs. A snapshot lies
  between what is cleaned up and what is visible; a cleanup waits for the
  snapshots below it.
- `MCCommitPipeline`, `MCQueryDelta`, `MCSnapshotEpochs`, `MCFactStoreRecovery`,
  `MCCloseProtocol`, `MCValidationCaches`: the instances for TLC.
  `MCSnapshotEpochs` also holds the refinement mapping to `SnapshotRetention`: a
  reader that holds an epoch is pinned at its sequence.

How the state of the pipeline corresponds to the code:

| Variable | Code |
| --- | --- |
| `snapshot[t]` | `StoreSnapshot::commit_seq` of the transaction, -1 before it began |
| `commit_seq[c]`, `visible_seq`, `abort_terminal` | transaction records in the store, the visible watermark, async abort terminals |
| `phase[t]` | where the request is: open, in the mailbox, queued, selected, bound to an epoch, done |
| `result`, `durable`, `ack` | the terminal result, `EpochCompletion`'s durable flag, what the asynchronous call returned |
| `next_epoch_slot` | `DecidedEpochSlot`, `eligible` being `SlotState::kEligible` |
| `preflight_generation` | the relation of `preflight_request_generation` and `preflight_completed_generation` to what the preflight worker captured |

The other modules comment each variable where it is declared.

### Abstractions

`CommitPipeline`:

- Requests have unit size, so bytes are counted in requests. The adaptive limits
  (group size, settle age, target bytes) are any values within their caps.
- A transaction's facts and reads are constants; which snapshot it gets is not.
- The preflight plan is chosen when it is installed. In the code it is computed
  earlier from the captured queue; a plan that would be installed is one whose
  requests are still queued, so nothing it depends on has changed.
- The publisher mutex is held from the decision to the publication: no prepared
  commit is finalized while `pc` is "sync" or "publish".
- Transaction identifiers are fresh, as `Transaction::Commit` always passes
  them, so the duplicate-identifier paths do not occur. The remaining error
  returns of `DecideAndEncodeGroupLocked` (exhausted sequences, a batch larger
  than its own estimate) are left out, as are edge identities.
- A failed write may happen before or after the WAL callback. The store then
  refuses every later commit; what the next open finds is `FactStoreRecovery`.
- The write of a prepared commit does not fail here; `FactStoreRecovery` has it
  fail, with the record in the log or not.
- `recovery_required` is tested when a plan is installed. The code tests it
  before it takes the lock (`rocks_adapter.cc:5674`); a plan made in between is
  refused at its commit.

`QueryDelta`:

- A descriptor is its sequence and one unit of memory. The soft bounds, which
  only report, are left out.
- One maintenance call is in progress at a time: a second one waits for the end
  of the first on the same condition variable.
- Clearing the recorded gap is a load and a store in the code. Only the publisher
  can come between them, and it only lowers the value; a value at or below the
  coverage may be cleared in either order, so one step stands for both.
- Past a hard bound a partial repair leaves `enqueued_through` behind, so the
  recorded gap may lie within the coverage. No lease is given then.
- `ObservePublished`, `ConsumeThrough` and `RetireThrough` are called by tests
  only; they are modelled as operations of the component.
- `RepairThrough` clears the whole queue and sets `enqueued_through_` back to its
  target (`query_delta.cc:443`). Commits that were queued beyond the target are
  then neither indexed nor queued, and no gap is recorded until the next
  descriptor arrives. The history variable `admitted`, which no action reads,
  remembers them: `AdmittedAccounted` says that, short of a hard bound or a reset,
  this is the only way for an admitted commit to go missing, and that nothing is
  queued past one that did. In production only `Open` repairs, when the queue is
  empty.
- The maintenance calls and their targets are a constant, `Call`.
- A projection base ahead of the recovered sequence is allowed, as in
  `database.cc:1965`; the proofs cover it, the run starts with both at zero.

`SnapshotEpochs`:

- Publication, vacuum, close and destruction are the steps of one writer thread:
  `publisher_mutex` and the database's closing flag keep them apart.
- The sum of a sharded counter is read at one instant. The gates
  (`accepting_snapshots`, `accepting_fast`, `fast_impl_`) shut in one step, and the
  loads before the first pin attempt are one step.
- Epochs are addresses that are used again once freed. A thread that comes to
  claim an epoch whose memory is gone finds the claim failing: of the outcomes of
  that undefined read, this is the one after which the program goes on.
- The destructor runs when no other call is in progress, except releases of
  handles, as its comment requires.
- Left out: reopening, the property catalog of an epoch, users without an epoch
  (checkpoint, sampling), the freeing of retained shells, and
  `recovery_required`, after which the writer simply does nothing more.

`FactStoreRecovery`:

- The write-ahead log is a sequence of contents. A synchronized write makes
  itself and everything before it durable; a buffered write is durable or not.
- A failed write may be in the log or not, and the store asks to be reopened. A
  failure inside `Open` fails the open, as a crash there does.
- The ids of the coordinator are not among the leased ones. `fact_store.h:241`
  calls the lookup of a persisted outcome redundant for ids the store allocates,
  and the local commit path does without it; nothing keeps a coordinator from
  using such an id, and then the two collide.
- With `kFinalizeOnOpen` an open finalizes every prepared record it finds without
  looking at the decisions (`database.cc:1930`), so an abort that was certified
  and whose cleanup a crash cut short is committed. The repository's tests of
  certified aborts use `kAwaitExternalDecision`. `DecisionsBinding` and
  `AnswersSurvive` make their claim about aborts for that policy.
- A repeated `CommitDirect` of an id that has an outcome fails instead of
  returning that outcome. With fresh ids it does not occur.
- A version is a fact and a sequence. Values, adjacency records and projections
  follow from the facts.

`CloseProtocol`:

- An epoch commits, aborts or stays undecided as a whole; the store's own
  handshake is one step. The two are `CommitPipeline`'s and `SnapshotEpochs`'
  subject. Deadlines of commits are `CommitPipeline`'s.
- A client is one transaction, one refresh of the query indexes or one cursor.
  A cursor that Close has begun to cancel starts no further read.
- `PrepareClose` shuts the store's gates and, when a snapshot pins the store,
  opens them again, all under `lifecycle_mutex_`; that path is one step without
  effect. The gates themselves are in `SnapshotEpochs`.
- `AnswersHold` leaves out a pipelined commit still queued when `~Impl` runs after
  a pinned close. The sweep of `StopAppendCommitPipeline` may answer its handle
  before the worker, which still drains its queue, binds it to an epoch, whose
  result then takes precedence. `transaction.h` promises that repeated calls of
  `Wait` give the same answer.

`RecentFactWriteIndex`, `ValidationCaches`:

- A Bloom filter is the set of its members. A false positive turns "unchanged"
  into "unknown", and callers may always ignore a proof.
- The index has no lock. `recent_fact_write_index.h:42` says that the publisher
  serializes its use, but a predicted group is validated without
  `publisher_mutex` (`rocks_adapter.cc:5778`). A proof asked for during a
  publication answers anything in the model; `DecisionsHold` shows that the check
  of the base before the write makes up for it.
- The chain cache is one set of `Ways` slots; identities in different sets do not
  meet. Its statistics are left out, and so is a cache without slots, which
  answers nothing.
- A write has one sequence. A group has consecutive ones, published together,
  and the only reader without the lock is the thread that writes groups.

## Runs

| Run | Config | Result |
| --- | --- | --- |
| `pipeline_modes` | `MCMixed.cfg` | passes; about 286,000 states |
| `temporal_conflicts` | `MCTemporal.cfg` | passes; about 15,000 states |
| `pipeline_progress` | `MCLiveness.cfg` | passes; about 74,000 states |
| `prepared_prediction` | `MCPreparedPrediction.cfg` | violates `PredictionSound` |
| `query_delta` | `MCDelta.cfg` | passes; about 246,000 states |
| `epochs_retention` | `MCEpochs.cfg` | passes; about 667,000 states up to symmetry |
| `epochs_close` | `MCEpochsClose.cfg` | passes; about 159,000 states |
| `epochs_reclaim` | `MCEpochsReclaim.cfg` | violates `ReclaimedOnce` |
| `store_recovery` | `MCRecovery.cfg` | passes; about 549,000 states |
| `close_protocol` | `MCClose.cfg` | passes; about 375,000 states |
| `self_join` | `MCSelfJoin.cfg` | violates `NoSelfJoin` |
| `validation_caches` | `MCCaches.cfg` | passes; about 1,422,000 states |

- `pipeline_modes`: one synchronous, one asynchronous and one pipelined
  transaction. Three are enough for a group of two, a running epoch with a
  prediction behind it, and a cancelled request in front of a queued one.
- `temporal_conflicts`: three transactions on neighbouring valid times, so that
  predecessors, successors, bounded and open intervals all occur.
- `pipeline_progress`: weak fairness on each worker, the executor, and calls
  that may return. The code justifies it: each is a thread whose wait predicate
  is notified by every change that makes it true, or has a timeout. Nothing is
  assumed about clients beginning or submitting. A prepared commit is
  finalized at any point where the publisher mutex is free.
- `query_delta`: two queries share an event index, the queue holds two
  descriptors, the lag bound admits one live commit and the memory bound two
  chunks, live or retired. Within three commits the queue fills, a commit is
  refused, either bound is hit, a repair stops half-way, and a repair to 1 discards
  commit 2 before 3 arrives and is refused. The targets of the maintenance calls
  are in `MCQueryDelta`. Indexing on its own
  thread and on the caller's are both initial states. Weak fairness on the
  indexing thread, on the append worker's hand-over and on a maintenance call
  that has begun; and retirements come to an end, because between its two steps a
  retirement owns both mutexes and a thread that retires for ever may keep them.
  No production code calls `RetireThrough`.
- `epochs_retention`: two readers at given sequences, two publications, vacuums
  and a cache of one slot, so that failed pins, cache hits, lost insertions,
  evictions and refused vacuums all occur.
- `epochs_close`: readers of the current and of a historical sequence against
  close and destruction. Weak fairness on every thread inside a call; no reader
  has to begin a call or to give up a snapshot.
- `store_recovery`: one transaction of the coordinator and up to three local ones
  over three sequences, two facts that they overwrite, leases of one id, two
  crashes and one failed write, under both policies. Three sequences are what a
  vacuum needs to have something to delete, something to keep and a reader's
  version in between; the second crash falls into the recovery of the first.
  Weak fairness on `Open`, which waits for nobody.
- `close_protocol`: five pairs out of synchronous, asynchronous and pipelined
  commits, refreshes and cursors, two commit calls, one Close and the
  destructor, which closes once more. Weak fairness on every thread inside a
  call. A client need not begin a call, finish its transaction or release its
  cursor.
- `self_join`: the same with a refresh and a cursor.
- `validation_caches`: the append worker and a thread that finalizes prepared
  commits, two identities that share a bucket of one slot, two filters over
  windows of two sequences, a cache of one chain of two boundaries, three
  sequences and one reopening. Every slot is evicted, every window rolled and
  reused, and the second batch outgrows a chain.

In `SnapshotEpochs` two readers are enough for every race of a pin, a release and
the reclaimer, because the writer, which drops the store's reference, is the
third thread. With three addresses an open may find none free; it then returns
like one that RocksDB refuses.

Deadlock is not checked where the system may stop: after the destructor of the
delta, of the store and of the database (`query_delta`, `epochs_close`,
`close_protocol`, `self_join`), and in `validation_caches`, whose actors have no
more sequences to commit.

`MaxCalls` bounds the commit calls in `close_protocol` for a reason: Close waits
until no call is registered, and a client that retries for ever registers and
withdraws for ever. The count may be above zero whenever Close looks. Nothing in
the code bounds that wait.

The properties are defined, each with the behaviour it is about, at the end of
the component's module. Operators named `X_Fault` are variants of `X` with a
mistake; each is caught by the property listed with it in `PROJECT.json`.

### Findings

- *Prediction without validation.* The comment on `DependenciesMatchEpochBase`
  says that no overlapping write can exist for a snapshot at the epoch base. A
  prepared commit finalized between the opening of the epoch and the promotion
  of the next one is such a write. If the epoch also aborts one of its requests,
  the watermark equals the predicted base and the prediction is written
  unvalidated (`prepared_prediction`).
- *Reclaiming twice.* The comment in `ReleaseEpochRef` says that only the thread
  that sees the last reference go reclaims an epoch. A pin attempt that loaded the
  epoch before its retirement can take the count from zero to one and back, and
  free the epoch while the first thread still waits for `epoch_mutex`
  (`epochs_reclaim`). The first thread's compare-exchange then reads freed memory.
- *Joining itself.* A comment in `RefreshQueryStatistics` says that shutdown joins
  the executor before `~Impl` releases its members. A refresh of the query indexes
  holds a snapshot and a reference of `Impl`. Destroying the database meanwhile
  closes it in vain, for the snapshot pins it, and the executor's thread drops
  the last reference: `~Impl` runs on that thread and joins it (`self_join`).

Three smaller disagreements have no run of their own. The comment at
`database.cc:737` relies on a shared pointer to keep a batch that
`database.cc:1059` moves from; the plan made from it is always discarded. The
comments at `database.cc:1306` and `2004` expect a gap of the query delta to be
repaired later, but only `Open` repairs, so queries above it read canonically
until the database is opened again. And the two remarks under *Abstractions*, on
`kFinalizeOnOpen` and on the sweep of handles.

## Proofs

The proofs hold for every value of the constants that satisfies the named
assumptions of the component's module. Every step lemma has one case per action; a
lemma module holds the steps and the proofs module combines them.

| Component | Theorems | Inductive invariant |
| --- | --- | --- |
| `CommitPipeline` | `TypeCorrect`, `ReservationCorrect`, `DrainCorrect`, `AckCorrect`, `ContiguousCorrect`, `ResultsCorrect` | `TypeOK /\ Counting /\ Placement /\ Durability /\ Order /\ Numbering` |
| | `SerialCorrect`, `PredictionCorrect`, `FirstCommitterCorrect`, `StrictReadsCorrect`, `RefinementCorrect` | the same and `Predicting /\ Serial`, under `PreparedApart` |
| `FactStoreRecovery` | `IdsCorrect` | `Typed /\ Leased` |
| | `ImagesCorrect`, `DecisionsCorrect`, `SurvivalCorrect`, `ReadsCorrect` | `Typed /\ Leased /\ Recoverable`, under `IdsApart` |
| `RecentFactWriteIndex` | `IndexProofsSound` | `Known` |
| `ValidationCaches` | `ChainsCorrect`, `ValidationCorrect`, `IndexStaysSound` | `Inductive` |
| `CloseProtocol` | `NoAdmitCorrect`, `UsableCorrect`, `TeardownCorrect`, `StoppedCorrect`, `AnswersCorrect` | `Admission /\ Stages /\ Leaving /\ Sequenced /\ Placement /\ Submission /\ Writing /\ Emptied /\ Waiting` |
| `QueryDelta` | `DeltaTypeCorrect`, `CoverageCorrect`, `LeaseCorrect`, `RetiredCorrect`, `MemoryCorrect`, `AdmittedCorrect` | `DeltaInv`, with `MemoryInv`, `QueueRun`, `QueueReaches` and `AdmittedInv` |

### The append pipeline

For every finite or infinite set of transactions, every mode, every write and
read set and every limit (`FactAssumption`, `PipelineAssumption`).

`TypeOK` is not inductive: `ReleaseEpoch` subtracts the group from the reserved
bytes, which stays a natural number only because the bytes count the queue and
the group (`Counting`). The drain barrier needs to know where an admitted request
is, in the queue or in the worker's group, and until which step (`Placement`).
The acknowledgement needs the link from a decision through the write to the
result (`Durability`).

That sequences have no gap needs more. `Order` says that no request is at two
places and which phase it has at each. `Numbering` follows a group: its decided
positions take exactly the sequences behind the watermark, the log is filled up
to the watermark, or up to the end of the group while that is being published,
and no other commit gets in between because the publisher mutex is held. Counting
positions from the left is a bijection onto `1..n` (`RankFacts`).

Group commit is serial commit because of what a validation looks at: only the
commits that write an identity of the transaction's footprint (`WritersDecide`).
The members of a group are pairwise independent, so each is valid right below its
own sequence if all are valid at the watermark. A predicted group was decided
before the epoch ahead of it was written. `Predicting` says that it consists of
blind puts that are apart from that epoch; `SlotApart` that nothing committed
since its base touches it; `PromotedValid` and `DecidedValid` carry this to the
write. Here a prepared commit could come between: it is not validated, and
`DependenciesMatchEpochBase` does not look for it. `PreparedApart` excludes that
it writes an identity a blind put writes. The run `prepared_prediction` shows that
`PredictionCorrect` is false without it. `RefinementCorrect` concludes that every step is
a step of `CommitLog` or none.

### The store across crashes

For every set of facts, transactions and ids and any number of crashes and failed
writes. `IdsCorrect` needs only that each id given out lies below the bound of a
lease that is in every image a crash may leave (`Leased`).

The others rest on `Recoverable`. Every image is `Good`: `Open` accepts it, its
decisions agree with its outcomes, each version belongs to a commit, and a version
is gone only if a newer one up to the retained boundary is there. To keep this, the
memory of the process has to agree with the store (`Current`), the call in
progress has to be at a step the store allows (`Phase`), and an image behind the
store has to be able to catch up with it: it has the same decisions and still has
prepared what the store has finalized since (`Trailing`).

`IdsApart` says that a coordinator chooses no id that the store leases. The
outcome of both is kept under the id. Nothing in the code enforces it; see
*Abstractions*.

### The caches of the validation

`IndexProofsSound` is about the index alone, under publications in any order.
`ProofsSound` says nothing of writes that the index cannot prove anything about.
`Known` does: an occupied slot is the only one of its identity and bounds every
write of it (`ExactBounds`), and a write above the coverage is recorded in an
active window (`WindowsCover`). Each of `ActivateFilter`, `RollFilter`, `AddTo` and
the two resets has a lemma that says what it keeps.

The theorems on `ValidationCaches` hold for every number of actors, batches, slots
and commits. `Locks` says who holds `publisher_mutex`; `Past`, that what a
validation captured lies in the past; `Logged`, that every visible row is in the
filters and that rows beyond are those of the one publication in progress, or of a
write after which the store has to be reopened. `Current` says that a resident
chain has the boundary of every visible row and of what its publisher has passed
to the cache, `Views` that a scan sees all of that while its generation is the
current one. `Settled` says that a dependency which was settled has no conflict,
unless the validation is `Stale`: its base is no longer the visible sequence, or
somebody is publishing. A stale validation starts over before it writes, which is
why validating without the mutex does no harm.

### Close and destruction

For every finite set of clients, every choice of what they are and every number
of calls and closes (`CloseAssumption`).

`NoAdmitAfterClose` is not inductive: a commit between its two looks at the flags
would be admitted. `Admission` adds that after the drain no commit is past its
look at `closing`, and that the counter counts the commits inside, so that zero
means nobody. The set of clients is finite because of this count. `Stages` says
what Close and `~Impl` have taken away by each of their stages; it needs
`Admission` to know that no close is in progress when the next one, or the
destructor, starts. That a stopped pipeline has answered every handle needs
`Leaving`, that `~Impl` finds nobody in a call and that tickets and requests stop
coming when the flags say so; `Placement`, that the request behind a handle is
queued, in the worker's group, bound to an epoch or already answered; and
`Sequenced`, that what is queued are clients.

That a handle keeps its answer needs that a commit is submitted once and its call
waits while the executor has its ticket (`Submission`), that a request is written
once and its epoch's result says what the log holds (`Writing`), that Close sweeps
only a drained pipeline (`Emptied`), and that a handle is answered by its epoch
(`Waiting`). The handles that `AnswersHold` leaves out are left out of the theorem
too.

### The query delta

For every number of readers and every bound (`DeltaAssumption`). `DeltaInv` adds
to the types, the coverage and the leases that `enqueued_through` is never behind
the coverage or a queued descriptor (`QueueAhead`: so the gap the publisher records after it lies beyond the
coverage), that no call changes the tail while the worker holds a descriptor
(`WorkerOut`), that `active_leases` counts the held leases (`LeasesCounted`) and
that an index in the cache was built on the current base (`CacheCurrent`). The
memory bound needs that what is retired is finite (`MemoryInv`). The account of
admitted commits needs the shape of the queue: it holds consecutive sequences
(`QueueRun`) that reach from the coverage, or from the descriptor in the worker's
hands, to `enqueued_through` (`QueueReaches`). For what a repair has discarded it
needs that descriptors arrive in order and once, so that every one still to come is
later than what was admitted, and that nothing is queued while an admitted commit
lies beyond `enqueued_through` (`AdmittedInv`).

### Only model-checked

- Liveness: `EveryRequestCompletes`, `EveryAsyncCallReturns`, `WorkerServes`,
  `TransitionEnds`, `OpenCompletes`, `CloseReturns`, `CloseDecides`. Fairness and
  `ENABLED` are outside what the prover does.
- `SnapshotEpochs`: `HeldAlive`, `SnapshotExact`, `NothingLeaks` and the refinement
  of `SnapshotRetention`. An inductive invariant has to account for every reference
  of an epoch by the store, the cache, the retired list and the step each thread is
  at, through the races of pinning, retiring and reclaiming, in which the count
  reaches zero and leaves it again and addresses are used again. It has not been
  worked out.
- The violated properties of *Findings*, which are counterexamples.

## Not modelled

- *Query execution, relational operators, journeys, frontiers, temporal
  algorithms.* Sequential computations over one snapshot. What they compute is
  data of unbounded shape, which the repository compares with reference
  implementations in its tests. Only the life of a cursor is modelled.
- *Projection store, manifest, property index, statistics.* Files derived from
  the facts, each published under one mutex and rebuilt when it does not check.
- *Resource pool, scratch files.* A counter under one mutex, and file I/O.
- *Adaptive epoch controller, pressure, maintenance.* They choose limits and
  moments; the models allow every choice.
- *`CommitGrouped` of the store.* `FactStore::Commit` and `FinalizePreparedCommit`
  go through it by default. The kernel finalizes with `Database::Impl::mutex` held
  and sends its commits through the pipeline, so its groups have one request and
  are the direct commit that is modelled. Larger groups occur only for users of
  `FactStore` itself.
- *Cypher, Bolt server, codecs.* Text, sockets and byte layouts.
- *Vendored RocksDB* (`src/engine`). More than nine tenths of the lines of the
  repository. The models take a write as one step to the log and one to the
  memtable, and a snapshot as a sequence, which is how the kernel uses them. For
  that reason the share of the repository's lines that the models stand for is
  small, whereas most of the kernel and of the fact store's control is there.
- *Torn reads and memory orders.* Atomics are sequentially consistent, which
  `BeginCommit` and the pin counters ask for explicitly.

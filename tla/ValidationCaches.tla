-------------------------- MODULE ValidationCaches --------------------------
(***************************************************************************)
(* What commit validation reads instead of the facts: the recent-write     *)
(* index, the identity history (fact_identity_history.cc) and the version  *)
(* validation cache (version_validation_cache.cc), with the publication    *)
(* that keeps them current and the two ways into validation                *)
(* (rocks_adapter.cc): a direct commit validates, writes and publishes     *)
(* under publisher_mutex; the append worker first validates a predicted    *)
(* epoch without it, then writes under it if the base is still current,    *)
(* and otherwise starts over as a direct commit.                           *)
(*                                                                         *)
(* RecentFactWriteIndex has no lock.  A proof asked for while a publisher  *)
(* is changing the index is a data race, and answers anything.             *)
(***************************************************************************)
EXTENDS RecentFactWriteIndex, Sequences, FiniteSets, FiniteSetsExt

CONSTANTS
  Actor,       \* the append worker and the threads that finalize prepared commits
  Worker,      \* the append worker
  Requests,    \* possible batches: sets of <<identity, valid time>>
  Ways,        \* slots of a cache set (kSetWays); every identity is in one set
  MaxChain,    \* kMaxBoundariesPerChain
  MaxCommits,  \* bound: sequences used, a restart counting as one
  MaxReopens   \* bound: restarts

ASSUME CachesAssumption ==
  /\ Worker \in Actor
  /\ Requests \subseteq SUBSET (Fact \X Int)
  /\ {Ways, MaxChain} \subseteq Nat \ {0}
  /\ {MaxCommits, MaxReopens} \subseteq Nat

VARIABLES
  db,                 \* facts column family: [fact, from, seq] rows
  visible_seq,
  recovery_required,
  publisher_mutex,    \* the actors holding it: none or one
  identity_history,   \* identities added to the Bloom filter
  history_disabled,   \* word_count_ = 0: every identity might be contained
  slots,              \* resident [fact, chain] entries, least recently touched first
  publish_generation,
  reopens,
  pc,
  call                \* actor -> the locals of its commit

store == <<db, visible_seq, recovery_required, publisher_mutex, reopens>>
caches == <<index, written, identity_history, history_disabled, slots, publish_generation>>
vars == <<store, caches, pc, call>>

\* The locals of a commit: its batch and the snapshot of its dependencies, the
\* successor boundary each mutation captured (a set), the mutations still to
\* check or publish, the dependencies neither filter could settle, the
\* generation captured for Prime, the view of the shared iterator (none or
\* one set of rows), the identity being scanned, and the predicted base of
\* an epoch that runs without the mutex.
NoCall == [batch |-> {}, snapshot |-> 0, successor |-> <<>>, todo |-> {}, pending |-> {},
           observed |-> 0, iterator |-> {}, scanning |-> {}, base |-> {}]

Rows(view, f) == {r \in view : r.fact = f}

\* ScanCurrentFactIntervals: the latest sequence of every boundary.
Boundaries(view, f) ==
  {<<r.from, r.seq>> : r \in {r \in Rows(view, f) :
                                \A s \in Rows(view, f) : s.from = r.from => s.seq <= r.seq}}

Later(times, t) == {u \in times : u > t}

\* The conflict rule over the intervals of one identity.
Conflicts(chain, at, next, snap) ==
  \E b \in chain :
    LET ends == Later({c[1] : c \in chain}, b[1])
    IN /\ b[2] > snap
       /\ IF b[1] < at THEN ends # {} /\ Min(ends) > at
                       ELSE next = {} \/ b[1] < Min(next)

MightContain(f) == history_disabled \/ f \in identity_history

Slot(f) == {i \in DOMAIN slots : slots[i].fact = f}
Resident(f) == Slot(f) # {}
Position(f) == CHOOSE i \in Slot(f) : TRUE
Chain(f) == slots[Position(f)].chain

\* The set of slots in the order of their last_touch: a slot that is touched goes
\* to the end.
Drop(q, i) == SubSeq(q, 1, i - 1) \o SubSeq(q, i + 1, Len(q))
Without(f) == IF Resident(f) THEN Drop(slots, Position(f)) ELSE slots
Touched(f, chain) == Append(Without(f), [fact |-> f, chain |-> chain])

\* InsertBoundary; the chain is dropped when it would outgrow its array.
InsertBoundary(chain, b) ==
  {c \in chain : c[1] # b[1]} \cup
  {<<b[1], Max({b[2]} \cup {c[2] : c \in {c \in chain : c[1] = b[1]}})>>}
Fits(chain) == Cardinality(chain) <= MaxChain

\* A new database.
Init ==
  /\ db = {}
  /\ visible_seq = 0
  /\ recovery_required = FALSE
  /\ publisher_mutex = {}
  /\ index = NewIndex(0)
  /\ written = {}
  /\ history_disabled = FALSE
  /\ identity_history = {}
  /\ slots = <<>>
  /\ publish_generation = 0
  /\ reopens = 0
  /\ pc = [a \in Actor |-> "idle"]
  /\ call = [a \in Actor |-> NoCall]

-----------------------------------------------------------------------------
(***************************************************************************)
(* Validation.                                                             *)
(***************************************************************************)
Goto(a, label) == pc' = [pc EXCEPT ![a] = label]
Done(a) == Goto(a, "idle") /\ call' = [call EXCEPT ![a] = NoCall]

\* A transaction with a snapshot taken earlier arrives with the boundaries
\* it saw.  The worker holds a predicted epoch, a finalizer commits directly.
Submit(a, request, snap) ==
  /\ pc[a] = "idle"
  /\ visible_seq + reopens < MaxCommits
  /\ Goto(a, IF a = Worker THEN "predicted" ELSE "lock")
  /\ call' = [call EXCEPT ![a] =
       [NoCall EXCEPT !.batch = request, !.snapshot = snap, !.successor =
          [w \in request |->
             Later({r.from : r \in {r \in Rows(db, w[1]) : r.seq <= snap}}, w[2])]]]
  /\ UNCHANGED <<store, caches>>

\* The validation of a's dependencies starts, over a predicted base or none.
Validate(a, over) ==
  /\ Goto(a, "filter")
  /\ call' = [call EXCEPT ![a].todo = call[a].batch, ![a].base = over]

\* The worker compares the predicted base with visible_seq and enters
\* ValidatePredictedGroup without publisher_mutex; a stale prediction falls
\* back to the general path.
StartPredicted(current) ==
  /\ pc[Worker] = "predicted"
  /\ IF current /\ ~recovery_required
     THEN Validate(Worker, {visible_seq})
     ELSE Goto(Worker, "lock") /\ UNCHANGED call
  /\ UNCHANGED <<store, caches>>

\* A direct commit takes publisher_mutex before it validates.
StartDirect(a) ==
  /\ pc[a] = "lock"
  /\ publisher_mutex = {}
  /\ IF recovery_required
     THEN Done(a) /\ UNCHANGED publisher_mutex
     ELSE Validate(a, {}) /\ publisher_mutex' = {a}
  /\ UNCHANGED <<db, visible_seq, recovery_required, reopens, caches>>

Predicting(a) == call[a].base # {}

\* What a validation leaves of the locals.
Forget(c) == [c EXCEPT !.todo = {}, !.pending = {}, !.observed = 0, !.iterator = {},
                       !.scanning = {}]

\* A conflict: the worker falls back to the general path, a direct commit
\* fails.
Fail(a) ==
  /\ IF Predicting(a)
     THEN /\ Goto(a, "lock")
          /\ call' = [call EXCEPT ![a] = [Forget(@) EXCEPT !.base = {}]]
     ELSE Done(a)
  /\ publisher_mutex' = publisher_mutex \ {a}

\* While a publisher is between its write and the end of its index
\* publication, an unlocked reader of the index races with it.
Racing(a) == \E p \in Actor \ {a} : pc[p] = "index"

\* One dependency: settled by the recent-write index or by the identity
\* history, or left to the chains.  A Bloom false positive leaves it too.
CheckFilters(a, w) ==
  /\ pc[a] = "filter"
  /\ w \in call[a].todo
  /\ \/ /\ \/ CanProveUnchanged(index, w[1], call[a].snapshot)
           \/ Racing(a)
           \/ ~MightContain(w[1])
        /\ call' = [call EXCEPT ![a].todo = @ \ {w}]
     \/ call' = [call EXCEPT ![a].todo = @ \ {w}, ![a].pending = @ \cup {w}]
  /\ UNCHANGED <<store, caches, pc>>

\* The generation is captured before the shared iterator exists.
CaptureGeneration(a) ==
  /\ pc[a] = "filter"
  /\ call[a].todo = {}
  /\ Goto(a, "lookup")
  /\ call' = [call EXCEPT ![a].observed = publish_generation]
  /\ UNCHANGED <<store, caches>>

Dependencies(a, f) == {w \in call[a].pending : w[1] = f}

\* The verdict on the dependencies of one identity.
Judge(a, f, chain) ==
  IF \E w \in Dependencies(a, f) :
       Conflicts(chain, w[2], call[a].successor[w], call[a].snapshot)
  THEN Fail(a)
  ELSE /\ Goto(a, "lookup")
       /\ call' = [call EXCEPT ![a].pending = @ \ Dependencies(a, f), ![a].scanning = {}]
       /\ UNCHANGED publisher_mutex

\* CachedFactIntervals, under the cache's own mutex.
LookupHit(a, f) ==
  /\ pc[a] = "lookup"
  /\ Dependencies(a, f) # {}
  /\ Resident(f)
  /\ Judge(a, f, Chain(f))
  /\ slots' = Touched(f, Chain(f))
  /\ UNCHANGED <<db, visible_seq, recovery_required, reopens, index, written,
                 identity_history, history_disabled, publish_generation>>

\* A miss: NewIterator fixes the view of the scan, unless the validation
\* already has one.
LookupMiss(a, f) ==
  /\ pc[a] = "lookup"
  /\ Dependencies(a, f) # {}
  /\ ~Resident(f)
  /\ Goto(a, "scan")
  /\ call' = [call EXCEPT ![a].scanning = {f},
                          ![a].iterator = IF @ = {} THEN {db} ELSE @]
  /\ UNCHANGED <<store, caches>>

\* The cache with a chain in it, which evicts the oldest entry of a full set.
Cached(f, chain) ==
  LET kept == Without(f)
  IN Append(IF Len(kept) = Ways THEN Tail(kept) ELSE kept, [fact |-> f, chain |-> chain])

Prime_AnyGeneration(f, chain, generation) ==
  slots' = IF Fits(chain) THEN Cached(f, chain) ELSE Without(f)

\* Prime: an oversized chain drops the entry, and a scan that a publication
\* overtook is not cached.
Prime(f, chain, generation) ==
  slots' = IF ~Fits(chain) THEN Without(f)
           ELSE IF publish_generation # generation THEN slots
           ELSE Cached(f, chain)

\* The scan of one identity, primed into the cache and judged.
Scan(a) ==
  /\ pc[a] = "scan"
  /\ \E f \in call[a].scanning, view \in call[a].iterator :
       /\ Prime(f, Boundaries(view, f), call[a].observed)
       /\ Judge(a, f, Boundaries(view, f))
  /\ UNCHANGED <<db, visible_seq, recovery_required, reopens, index, written,
                 identity_history, history_disabled, publish_generation>>

\* Every dependency holds.
Validated(a) ==
  /\ pc[a] = "lookup"
  /\ call[a].pending = {}
  /\ Goto(a, IF Predicting(a) THEN "decided" ELSE "write")
  /\ call' = [call EXCEPT ![a] = Forget(@)]
  /\ UNCHANGED <<store, caches>>

-----------------------------------------------------------------------------
(***************************************************************************)
(* Writing and publication, under publisher_mutex.                         *)
(***************************************************************************)
WriteDecidedGroup_AnyBase ==
  /\ pc[Worker] = "decided"
  /\ publisher_mutex = {}
  /\ IF recovery_required THEN Done(Worker) /\ UNCHANGED publisher_mutex
     ELSE /\ Goto(Worker, "write")
          /\ publisher_mutex' = {Worker}
          /\ call' = [call EXCEPT ![Worker].base = {}]
  /\ UNCHANGED <<db, visible_seq, recovery_required, reopens, caches>>

\* WriteDecidedGroup takes publisher_mutex and checks the base again.  On a
\* conflict the worker commits the group directly.
WriteDecidedGroup ==
  /\ pc[Worker] = "decided"
  /\ publisher_mutex = {}
  /\ IF recovery_required THEN Done(Worker) /\ UNCHANGED publisher_mutex
     ELSE /\ IF visible_seq \in call[Worker].base
             THEN Goto(Worker, "write") /\ publisher_mutex' = {Worker}
             ELSE Goto(Worker, "lock") /\ UNCHANGED publisher_mutex
          /\ call' = [call EXCEPT ![Worker].base = {}]
  /\ UNCHANGED <<db, visible_seq, recovery_required, reopens, caches>>

NewRows(a) ==
  {[fact |-> w[1], from |-> w[2], seq |-> visible_seq + 1] : w \in call[a].batch}

\* The durable write.
WriteBatch(a) ==
  /\ pc[a] = "write"
  /\ db' = db \cup NewRows(a)
  /\ Goto(a, "index")
  /\ call' = [call EXCEPT ![a].todo = call[a].batch]
  /\ UNCHANGED <<visible_seq, recovery_required, publisher_mutex, reopens, caches>>

\* A failed write.  An indeterminate one, or any failure of an epoch, asks for
\* a reopen and publishes nothing, whether or not the rows are durable.
WriteFails(a, durable, poisoned) ==
  /\ pc[a] = "write"
  /\ (durable \/ a = Worker) => poisoned
  /\ db' = IF durable THEN db \cup NewRows(a) ELSE db
  /\ recovery_required' = poisoned
  /\ publisher_mutex' = {}
  /\ Done(a)
  /\ UNCHANGED <<visible_seq, reopens, caches>>

\* PublishRecentFactWriteIndex, one mutation: the index, then the history.
PublishRecent(a, w) ==
  /\ pc[a] = "index"
  /\ w \in call[a].todo
  /\ PublishWrite(w[1], visible_seq + 1)
  /\ identity_history' = IF history_disabled THEN {} ELSE identity_history \cup {w[1]}
  /\ IF call[a].todo = {w}
     THEN Goto(a, "generation") /\ call' = [call EXCEPT ![a].todo = call[a].batch]
     ELSE UNCHANGED pc /\ call' = [call EXCEPT ![a].todo = @ \ {w}]
  /\ UNCHANGED <<store, history_disabled, slots, publish_generation>>

\* VersionValidationCache::Publish, first half: the generation moves before
\* the cache's mutex is taken.
PublishGeneration(a) ==
  /\ pc[a] = "generation"
  /\ publish_generation' = publish_generation + 1
  /\ Goto(a, "chain")
  /\ UNCHANGED <<store, call, index, written, identity_history, history_disabled, slots>>

\* Second half: a resident chain takes the boundary or is dropped.
PublishChain(a, w) ==
  /\ pc[a] = "chain"
  /\ w \in call[a].todo
  /\ slots' = IF ~Resident(w[1]) THEN slots
              ELSE LET chain == InsertBoundary(Chain(w[1]), <<w[2], visible_seq + 1>>)
                   IN IF Fits(chain) THEN Touched(w[1], chain) ELSE Without(w[1])
  /\ call' = [call EXCEPT ![a].todo = @ \ {w}]
  /\ Goto(a, IF call[a].todo = {w} THEN "visible" ELSE "generation")
  /\ UNCHANGED <<store, index, written, identity_history, history_disabled,
                 publish_generation>>

PublishVisible(a) ==
  /\ pc[a] = "visible"
  /\ visible_seq' = visible_seq + 1
  /\ publisher_mutex' = {}
  /\ Done(a)
  /\ UNCHANGED <<db, recovery_required, reopens, caches>>

\* The history is rebuilt from the facts, or disabled when the estimated
\* number of keys is more than it can usefully represent.
RebuildHistory(skip) ==
  /\ history_disabled' = skip
  /\ identity_history' = IF skip THEN {} ELSE {r.fact : r \in db}

\* The process stops anywhere and Open builds the caches anew at the durable
\* watermark.
Reopen(skip) ==
  /\ reopens < MaxReopens
  /\ reopens' = reopens + 1
  /\ visible_seq' = Max({0} \cup {r.seq : r \in db})
  /\ recovery_required' = FALSE
  /\ publisher_mutex' = {}
  /\ index' = NewIndex(visible_seq')
  /\ written' = {<<r.fact, r.seq>> : r \in db}
  /\ RebuildHistory(skip)
  /\ slots' = <<>>
  /\ publish_generation' = 0
  /\ pc' = [a \in Actor |-> "idle"]
  /\ call' = [a \in Actor |-> NoCall]
  /\ UNCHANGED db

Next ==
  \/ \E a \in Actor :
       \/ \E request \in Requests, snap \in 0..visible_seq : Submit(a, request, snap)
       \/ StartDirect(a)
       \/ \E w \in call[a].todo : CheckFilters(a, w)
       \/ CaptureGeneration(a)
       \/ \E f \in Fact : LookupHit(a, f) \/ LookupMiss(a, f)
       \/ Scan(a)
       \/ Validated(a)
       \/ WriteBatch(a)
       \/ \E durable, poisoned \in BOOLEAN : WriteFails(a, durable, poisoned)
       \/ \E w \in call[a].todo : PublishRecent(a, w) \/ PublishChain(a, w)
       \/ PublishGeneration(a)
       \/ PublishVisible(a)
  \/ \E current \in BOOLEAN : StartPredicted(current)
  \/ WriteDecidedGroup
  \/ \E skip \in BOOLEAN : Reopen(skip)

Spec == Init /\ [][Next]_vars

-----------------------------------------------------------------------------
\* What validation passes is free of conflicts: when a batch is about to be
\* written under publisher_mutex, no row written after its snapshot overlaps
\* one of its mutations, whichever of the index, the history, a cached chain
\* or a scan settled each dependency, with or without the mutex, and however
\* a racing publication was read.
DecisionsHold ==
  \A a \in Actor :
    pc[a] = "write" =>
      \A w \in call[a].batch :
        ~Conflicts(Boundaries(db, w[1]), w[2], call[a].successor[w], call[a].snapshot)

\* A resident chain is never stale: it has every boundary of its identity
\* that is visible, at its latest visible sequence or a later one, and only
\* boundaries that are in the facts column family.  A scan that a publication
\* overtook must not have been cached.
ChainsCurrent ==
  \A i \in DOMAIN slots :
    LET f == slots[i].fact
        chain == slots[i].chain
    IN /\ \A r \in Rows(db, f) : r.seq <= visible_seq =>
            \E b \in chain : b[1] = r.from /\ b[2] >= r.seq
       /\ \A b \in chain : \E r \in Rows(db, f) : r.from = b[1] /\ r.seq = b[2]
=============================================================================

-------------------------- MODULE QueryDeltaProofs --------------------------
(***************************************************************************)
(* For any readers, commits, maintenance calls and bounds: the query delta *)
(* is contiguous and within its bounds, every admitted commit is accounted *)
(* for, every lease is exact, the leases are counted right and what is     *)
(* retired is dropped with the last of them.                               *)
(***************************************************************************)
EXTENDS QueryDelta, FiniteSetTheorems, TLAPS

-----------------------------------------------------------------------------
(* The inductive invariant *)

\* Short of a hard bound, nothing is indexed or held by the worker that the
\* publisher has not handed over: the gap EnqueuePublished records, one past
\* enqueued_through_, is then beyond the coverage.
QueueAhead ==
  ~Direct =>
    /\ ~index.hard => index.through <= enqueued_through
    /\ popped <= enqueued_through
    /\ \A i \in 1..Len(published_queue) : published_queue[i] <= enqueued_through

\* A transition in its second step has waited out the worker, which holds a
\* descriptor only while it indexes.
WorkerOut ==
  /\ popped # 0 => worker = "index"
  /\ transition = "retiring" => ~worker_indexing

\* A cached event index was built over the present base.
CacheCurrent ==
  \A r \in Reader : lease[r].cached =>
    /\ lease[r].state = "held"
    /\ lease[r].base = index.base

\* active_leases is the number of leases held.
Held == {r \in Reader : lease[r].state = "held"}
LeasesCounted == active_leases = Cardinality(Held)

\* The invariant, by the state that an action may touch.
IndexInv == IndexTypeOK /\ CoverageContiguous
QueueInv == QueueTypeOK /\ QueueAhead
CallInv == WorkerTypeOK /\ CallTypeOK /\ WorkerOut
LeaseInv == LeaseTypeOK /\ LeaseExact /\ LeasesCounted
DeltaInv ==
  /\ PublisherTypeOK /\ IndexInv /\ QueueInv /\ CallInv /\ LeaseInv /\ CacheCurrent

-----------------------------------------------------------------------------
(* Sequences *)

\* Taking the head off a bounded queue keeps it bounded.
LEMMA TailFacts ==
  ASSUME NEW q \in Seq(Nat), q # <<>>, NEW n \in Nat,
         \A i \in 1..Len(q) : q[i] <= n
  PROVE  /\ Tail(q) \in Seq(Nat) /\ Head(q) \in Nat /\ Head(q) <= n
         /\ \A i \in 1..Len(Tail(q)) : Tail(q)[i] <= n
  OBVIOUS

\* The publisher's descriptors stay sequences of numbers.
LEMMA DeltaSeqFacts ==
  ASSUME NEW q \in Seq(Nat), NEW c \in Nat
  PROVE  /\ Append(q, c) \in Seq(Nat)
         /\ q # <<>> => Tail(q) \in Seq(Nat) /\ Head(q) \in Nat
  OBVIOUS

\* Appending a larger element moves the bound of a queue.
LEMMA PushFacts ==
  ASSUME NEW q \in Seq(Nat), NEW n \in Nat, NEW c \in Nat, n <= c,
         \A i \in 1..Len(q) : q[i] <= n
  PROVE  \A i \in 1..Len(Append(q, c)) : Append(q, c)[i] <= c
  OBVIOUS

-----------------------------------------------------------------------------
(* What an action leaves alone *)

\* A publisher that indexes its own commits goes on doing so.
LEMMA DirectFacts ==
  /\ UNCHANGED publisher => (Direct => Direct')
  /\ UNCHANGED publisherVars => (Direct => Direct')
  /\ EndTransition => (Direct => Direct')
  /\ AwaitTransition => (Direct => Direct')
  BY DEF Direct, publisherVars, EndTransition, AwaitTransition

\* The parts of the invariant whose variables a step does not change.
LEMMA DeltaFrame ==
  ASSUME DeltaInv
  PROVE  /\ UNCHANGED publisherVars => PublisherTypeOK'
         /\ UNCHANGED indexVars => IndexInv'
         /\ UNCHANGED <<queueVars, index, popped>>
              => ((Direct => Direct') => QueueInv')
         /\ UNCHANGED <<workerVars, callVars>> => CallInv'
         /\ UNCHANGED leaseVars => LeaseInv'
         /\ UNCHANGED lease /\ index'.base = index.base => CacheCurrent'
  <1>1. UNCHANGED publisherVars => PublisherTypeOK'
    BY Zenon DEF DeltaInv, PublisherTypeOK, publisherVars
  <1>2. UNCHANGED indexVars => IndexInv'
    BY Zenon DEF DeltaInv, IndexInv, IndexTypeOK, CoverageContiguous, indexVars
  <1>3. UNCHANGED <<queueVars, index, popped>>
          => ((Direct => Direct') => QueueInv')
    BY Zenon DEF DeltaInv, QueueInv, QueueTypeOK, QueueAhead, queueVars
  <1>4. UNCHANGED <<workerVars, callVars>> => CallInv'
    BY Zenon DEF DeltaInv, CallInv, WorkerTypeOK, CallTypeOK, WorkerOut,
                 workerVars, callVars, worker_indexing
  <1>5. UNCHANGED leaseVars => LeaseInv'
    BY Zenon DEF DeltaInv, LeaseInv, LeaseTypeOK, LeaseExact, LeasesCounted, Held,
                 leaseVars
  <1>6. UNCHANGED lease /\ index'.base = index.base => CacheCurrent'
    BY Zenon DEF DeltaInv, CacheCurrent
  <1> QED  BY <1>1, <1>2, <1>3, <1>4, <1>5, <1>6

\* Emptying lease_index_cache_ leaves the leases as they are.
LEMMA CacheCleared ==
  ASSUME DeltaInv, lease' = ClearIndexCache, active_leases' = active_leases,
         retired' \in SUBSET Nat
  PROVE  LeaseInv' /\ CacheCurrent'
  <1> DEFINE T == [state : {"none", "held", "dropping"}, base : Nat, through : Nat,
                   commits : SUBSET Nat, events : SUBSET Nat, cached : BOOLEAN]
  <1>1. lease \in [Reader -> T]
    BY DEF DeltaInv, LeaseInv, LeaseTypeOK
  <1>2. ASSUME NEW r \in Reader
        PROVE  /\ lease'[r] \in T /\ ~lease'[r].cached
               /\ lease'[r].state = lease[r].state /\ lease'[r].base = lease[r].base
               /\ lease'[r].through = lease[r].through
               /\ lease'[r].commits = lease[r].commits
               /\ lease'[r].events = lease[r].events
    <2>1. lease'[r] = [lease[r] EXCEPT !.cached = FALSE]
      BY DEF ClearIndexCache
    <2>2. lease[r] \in T
      BY <1>1
    <2> QED  BY <2>1, <2>2, Zenon
  <1>3. lease' = [r \in Reader |-> lease'[r]]
    BY DEF ClearIndexCache
  <1> HIDE DEF T
  <1>4. lease' \in [Reader -> T]
    BY <1>2, <1>3, Zenon
  <1>5. LeaseTypeOK'
    BY <1>4 DEF DeltaInv, LeaseInv, LeaseTypeOK, T
  <1>6. Held' = Held
    BY <1>2, Zenon DEF Held
  <1>7. LeasesCounted'
    BY <1>6 DEF DeltaInv, LeaseInv, LeasesCounted
  <1>8. LeaseExact'
    BY <1>2, Zenon DEF DeltaInv, LeaseInv, LeaseExact
  <1>9. CacheCurrent'
    BY <1>2, Zenon DEF CacheCurrent
  <1> QED  BY <1>5, <1>7, <1>8, <1>9 DEF LeaseInv

\* IndexLocked extends the coverage by the next commit or leaves it alone.
LEMMA IndexLockedFacts ==
  ASSUME IndexInv, NEW c \in Nat, c = index.through + 1, IndexLocked(c),
         visible_seq' \in Nat
  PROVE  /\ IndexInv' /\ index'.base = index.base
         /\ index'.through = index.through \/ index'.through = c
         /\ index.hard => index'.hard
  <1>0. /\ index \in [base : Nat, through : Nat, commits : SUBSET Nat, hard : BOOLEAN]
        /\ first_missing \in Nat /\ CoverageContiguous
    BY DEF IndexInv, IndexTypeOK
  <1>1. CASE Admits(1)
    <2>1. /\ index' = [index EXCEPT !.through = c, !.commits = index.commits \cup {c}]
          /\ first_missing' = ClearMissing(first_missing, c)
      BY <1>1 DEF IndexLocked
    <2>2. first_missing' \in Nat /\ (first_missing' # 0 => first_missing' > c)
      BY <1>0, <2>1 DEF ClearMissing
    <2>3. index.commits \cup {c} = (index.base + 1)..c
      BY <1>0 DEF CoverageContiguous
    <2>4. index.commits \cup {c} \in SUBSET Nat
      BY <1>0
    <2>5. /\ index' \in [base : Nat, through : Nat, commits : SUBSET Nat,
                         hard : BOOLEAN]
          /\ index'.base = index.base /\ index'.through = c
          /\ index'.commits = index.commits \cup {c} /\ index'.hard = index.hard
      BY <1>0, <2>1, <2>4, Zenon
    <2>6. index.base <= c
      BY <1>0 DEF CoverageContiguous
    <2>7. CoverageContiguous'
      BY <2>2, <2>3, <2>5, <2>6, Zenon DEF CoverageContiguous
    <2>8. IndexTypeOK'
      BY <2>2, <2>5, Zenon DEF IndexTypeOK
    <2> QED  BY <2>5, <2>7, <2>8, Zenon DEF IndexInv
  <1>2. CASE ~Admits(1)
    <2>1. /\ index' = [index EXCEPT !.hard = TRUE]
          /\ first_missing' = SetMissingLocked(first_missing, c)
      BY <1>2 DEF IndexLocked
    <2>2. first_missing' \in Nat
      BY <1>0, <2>1 DEF SetMissingLocked
    <2>3. /\ index' \in [base : Nat, through : Nat, commits : SUBSET Nat,
                         hard : BOOLEAN]
          /\ index'.base = index.base /\ index'.through = index.through
          /\ index'.commits = index.commits /\ index'.hard
      BY <1>0, <2>1, Zenon
    <2>4. CoverageContiguous' /\ IndexTypeOK'
      BY <1>0, <2>2, <2>3, Zenon DEF CoverageContiguous, IndexTypeOK
    <2> QED  BY <2>3, <2>4, Zenon DEF IndexInv
  <1> QED  BY <1>1, <1>2

\* A gap recorded beyond the coverage.
LEMMA GapFacts ==
  ASSUME IndexInv, NEW c \in Nat, ~index.hard => c > index.through,
         UNCHANGED index, first_missing' = SetMissingLocked(first_missing, c),
         visible_seq' \in Nat
  PROVE  IndexInv'
  BY DEF IndexInv, IndexTypeOK, CoverageContiguous, SetMissingLocked

\* visible_seq_value_ stays a number.
LEMMA VisibleFacts ==
  ASSUME IndexTypeOK, NEW c \in Nat, AdvanceVisible(c)
  PROVE  visible_seq' \in Nat
  BY DEF IndexTypeOK, AdvanceVisible

-----------------------------------------------------------------------------
(* One lemma per actor: its steps preserve the invariant *)

\* The delta Database::Open hands out satisfies the invariant.
LEMMA DeltaInit == Init => DeltaInv
  <1> SUFFICES ASSUME Init PROVE DeltaInv
    OBVIOUS
  <1>1. PICK t \in {BaseSeq, RecoveredSeq} :
          /\ BaseSeq <= t
          /\ index = [base |-> BaseSeq, through |-> t,
                      commits |-> (BaseSeq + 1)..t, hard |-> FALSE]
          /\ visible_seq = t /\ enqueued_through = t
    BY DEF Init
  <1>2. t \in Nat /\ BaseSeq \in Nat /\ BaseSeq <= t
    BY <1>1, DeltaAssumption
  <1>3. PublisherTypeOK
    BY DeltaAssumption DEF Init, PublisherTypeOK
  <1>4. IndexInv
    BY <1>1, <1>2 DEF Init, IndexInv, IndexTypeOK, CoverageContiguous
  <1>5. QueueInv
    BY <1>1, <1>2 DEF Init, QueueInv, QueueTypeOK, QueueAhead
  <1>6. CallInv
    BY DEF Init, CallInv, WorkerTypeOK, CallTypeOK, WorkerOut
  <1>7. Held = {}
    BY DEF Init, Held, NoLease
  <1>8. LeaseTypeOK /\ LeaseExact /\ CacheCurrent
    BY DEF Init, LeaseTypeOK, LeaseExact, CacheCurrent, NoLease
  <1>9. LeasesCounted
    BY <1>7, FS_EmptySet DEF Init, LeasesCounted
  <1> QED  BY <1>3, <1>4, <1>5, <1>6, <1>8, <1>9 DEF DeltaInv, LeaseInv

\* Publication only adds to what the append worker holds.
LEMMA PublishInv == DeltaInv /\ Publish => DeltaInv'
  <1> SUFFICES ASSUME DeltaInv, Publish PROVE DeltaInv'
    OBVIOUS
  <1>1. UNCHANGED <<publisher, indexVars, queueVars, workerVars, callVars, leaseVars>>
    BY Zenon DEF Publish
  <1>2. store_seq \in Nat /\ published_delta \in Seq(Nat) /\ publisher \in {"run", "blocked", "direct"}
    BY DEF DeltaInv, PublisherTypeOK
  <1>3. /\ store_seq' = store_seq + 1
        /\ published_delta' \in {published_delta, Append(published_delta, store_seq + 1)}
    BY Zenon DEF Publish
  <1>4. published_delta' \in Seq(Nat)
    BY <1>2, <1>3, DeltaSeqFacts
  <1>5. PublisherTypeOK'
    BY <1>1, <1>2, <1>3, <1>4 DEF PublisherTypeOK
  <1> QED  BY <1>1, <1>5, DirectFacts, DeltaFrame, Zenon
             DEF DeltaInv, indexVars, queueVars, workerVars, leaseVars

\* The handover of a descriptor: the gap it may record lies beyond the
\* coverage, because the queue is ahead of the index.
LEMMA EnqueueInv == DeltaInv /\ EnqueuePublished => DeltaInv'
  <1> SUFFICES ASSUME DeltaInv, EnqueuePublished PROVE DeltaInv'
    OBVIOUS
  <1> DEFINE c == Head(published_delta)
  <1>0. ~Direct
    BY DEF EnqueuePublished, Direct
  <1>1. /\ publisher = "run" /\ published_delta # <<>> /\ published_delta' = Tail(published_delta)
        /\ UNCHANGED <<store_seq, publisher, index, popped, stopping, callVars, leaseVars>>
    BY Zenon DEF EnqueuePublished
  <1>2. /\ UNCHANGED first_missing \/ first_missing' = SetMissingLocked(first_missing, enqueued_through + 1)
        /\ UNCHANGED visible_seq \/ AdvanceVisible(c)
        /\ \/ UNCHANGED <<queueVars, worker>>
           \/ /\ c = enqueued_through + 1
              /\ published_queue' = Append(published_queue, c)
              /\ enqueued_through' = c /\ UNCHANGED queue_size
              /\ admitted' = admitted \cup {c}
              /\ WakeWorker
    BY DEF EnqueuePublished, Refuse, queueVars
  <1>3. published_delta \in Seq(Nat) /\ c \in Nat /\ published_delta' \in Seq(Nat)
    <2>1. published_delta \in Seq(Nat)
      BY DEF DeltaInv, PublisherTypeOK
    <2> QED  BY <2>1, <1>1, DeltaSeqFacts
  <1> HIDE DEF c
  <1>4. PublisherTypeOK'
    BY <1>1, <1>3, Zenon DEF DeltaInv, PublisherTypeOK
  <1>5. /\ IndexInv /\ IndexTypeOK /\ index.through \in Nat /\ enqueued_through \in Nat
        /\ published_queue \in Seq(Nat) /\ queue_size \in Nat /\ admitted \in SUBSET Nat
        /\ popped \in Nat /\ index.hard \in BOOLEAN
        /\ QueueAhead
    BY DEF DeltaInv, IndexInv, IndexTypeOK, QueueInv, QueueTypeOK, CallInv, WorkerTypeOK
  <1>6. visible_seq' \in Nat
    BY <1>2, <1>3, <1>5, VisibleFacts DEF IndexTypeOK
  <1>7. IndexInv'
    <2>1. CASE UNCHANGED first_missing
      BY <2>1, <1>1, <1>5, <1>6, Zenon DEF IndexInv, IndexTypeOK, CoverageContiguous
    <2>2. CASE first_missing' = SetMissingLocked(first_missing, enqueued_through + 1)
      <3>1. ~index.hard => enqueued_through + 1 > index.through
        BY <1>0, <1>5 DEF QueueAhead
      <3> QED  BY <2>2, <3>1, <1>1, <1>5, <1>6, GapFacts
    <2> QED  BY <2>1, <2>2, <1>2
  <1>8. QueueInv'
    <2>1. CASE UNCHANGED <<queueVars, worker>>
      BY <2>1, <1>1, DirectFacts, DeltaFrame, Zenon DEF queueVars
    <2>2. CASE /\ c = enqueued_through + 1
               /\ published_queue' = Append(published_queue, c)
               /\ enqueued_through' = c /\ UNCHANGED queue_size
               /\ admitted' = admitted \cup {c}
      <3>1. /\ ~index.hard => index.through <= enqueued_through
            /\ popped <= enqueued_through
            /\ \A i \in 1..Len(published_queue) : published_queue[i] <= enqueued_through
        BY <1>0, <1>5, Zenon DEF QueueAhead
      <3>2. \A i \in 1..Len(published_queue') : published_queue'[i] <= c
        BY <2>2, <3>1, <1>5, <1>3, PushFacts
      <3>3. (~index.hard => index.through <= c) /\ popped <= c
        BY <2>2, <3>1, <1>5
      <3>4. published_queue' \in Seq(Nat)
        BY <2>2, <1>3, <1>5, DeltaSeqFacts
      <3>5. admitted' \in SUBSET Nat
        BY <2>2, <1>3, <1>5
      <3> QED  BY <2>2, <3>2, <3>3, <3>4, <3>5, <1>1, <1>3, <1>5, Zenon
                 DEF QueueInv, QueueTypeOK, QueueAhead
    <2> QED  BY <2>1, <2>2, <1>2
  <1>9. worker' = worker \/ (worker = "asleep" /\ worker' = "check")
    BY <1>2 DEF WakeWorker
  <1>10. CallInv'
    BY <1>9, <1>1 DEF DeltaInv, CallInv, WorkerTypeOK, CallTypeOK, WorkerOut, callVars,
                      worker_indexing
  <1> QED  BY <1>1, <1>4, <1>7, <1>8, <1>10, DeltaFrame, Zenon DEF DeltaInv, leaseVars

\* ObservePublished indexes the next commit, or records the next as the gap.
LEMMA ObserveInv == DeltaInv /\ ObservePublished => DeltaInv'
  <1> SUFFICES ASSUME DeltaInv, ObservePublished PROVE DeltaInv'
    OBVIOUS
  <1> DEFINE c == Head(published_delta)
  <1>1. /\ Direct /\ published_delta # <<>> /\ published_delta' = Tail(published_delta)
        /\ UNCHANGED <<store_seq, publisher, published_queue, enqueued_through,
                       admitted, workerVars, callVars, leaseVars>>
    BY Zenon DEF ObservePublished
  <1>2. \/ UNCHANGED <<indexVars, queue_size>>
        \/ /\ AdvanceVisible(c)
           /\ first_missing' = SetMissingLocked(first_missing, index.through + 1)
           /\ UNCHANGED <<index, queue_size>>
        \/ /\ AdvanceVisible(c) /\ c = index.through + 1 /\ IndexLocked(c)
           /\ queue_size' \in {queue_size, queue_size + 1}
    BY DEF ObservePublished
  <1>3. published_delta \in Seq(Nat) /\ c \in Nat /\ published_delta' \in Seq(Nat)
    <2>1. published_delta \in Seq(Nat)
      BY DEF DeltaInv, PublisherTypeOK
    <2> QED  BY <2>1, <1>1, DeltaSeqFacts
  <1> HIDE DEF c
  <1>4. PublisherTypeOK'
    BY <1>1, <1>3, Zenon DEF DeltaInv, PublisherTypeOK
  <1>5. IndexInv /\ IndexTypeOK /\ index.through \in Nat /\ queue_size \in Nat
    BY DEF DeltaInv, IndexInv, IndexTypeOK, QueueInv, QueueTypeOK
  <1>6. IndexInv' /\ index'.base = index.base /\ queue_size' \in Nat
    <2>1. CASE UNCHANGED <<indexVars, queue_size>>
      BY <2>1, <1>5, DeltaFrame, Zenon DEF indexVars
    <2>2. CASE /\ AdvanceVisible(c)
               /\ first_missing' = SetMissingLocked(first_missing, index.through + 1)
               /\ UNCHANGED <<index, queue_size>>
      <3>1. index.through + 1 \in Nat /\ index.through + 1 > index.through
        BY <1>5
      <3>2. visible_seq' \in Nat
        BY <2>2, <1>3, <1>5, VisibleFacts
      <3> QED  BY <2>2, <3>1, <3>2, <1>5, GapFacts
    <2>3. CASE /\ AdvanceVisible(c) /\ c = index.through + 1 /\ IndexLocked(c)
               /\ queue_size' \in {queue_size, queue_size + 1}
      <3>1. visible_seq' \in Nat
        BY <2>3, <1>3, <1>5, VisibleFacts
      <3>2. queue_size' \in Nat
        BY <2>3, <1>5
      <3> QED  BY <2>3, <3>1, <3>2, <1>3, <1>5, IndexLockedFacts
    <2> QED  BY <2>1, <2>2, <2>3, <1>2
  <1>7. QueueInv'
    BY <1>1, <1>6, DirectFacts, Zenon DEF DeltaInv, QueueInv, QueueTypeOK, QueueAhead
  <1> QED  BY <1>1, <1>4, <1>6, <1>7, DeltaFrame, Zenon DEF DeltaInv, leaseVars

\* Blocking on a transition and returning permits touch neither the index nor
\* the leases.
LEMMA PublisherInv == DeltaInv /\ (AwaitTransition \/ ConsumeThrough) => DeltaInv'
  <1>1. ASSUME DeltaInv, AwaitTransition PROVE DeltaInv'
    <2>1. /\ publisher' = "blocked"
          /\ UNCHANGED <<store_seq, published_delta, indexVars, queueVars, workerVars,
                         callVars, leaseVars>>
      BY <1>1, Zenon DEF AwaitTransition
    <2>2. PublisherTypeOK'
      BY <1>1, <2>1 DEF DeltaInv, PublisherTypeOK
    <2> QED  BY <1>1, <2>1, <2>2, DirectFacts, DeltaFrame, Zenon
               DEF DeltaInv, indexVars, queueVars, workerVars, leaseVars
  <1>2. ASSUME DeltaInv, ConsumeThrough PROVE DeltaInv'
    <2>1. /\ queue_size' = 0
          /\ UNCHANGED <<publisherVars, indexVars, published_queue, enqueued_through,
                         admitted, workerVars, callVars, leaseVars>>
      BY <1>2, Zenon DEF ConsumeThrough
    <2>2. QueueInv'
      BY <1>2, <2>1, DirectFacts DEF DeltaInv, QueueInv, QueueTypeOK, QueueAhead, indexVars, workerVars
    <2> QED  BY <1>2, <2>1, <2>2, DeltaFrame, Zenon
               DEF DeltaInv, indexVars, leaseVars
  <1> QED  BY <1>1, <1>2

\* The indexing thread: it indexes only the commit after the coverage, which
\* the publisher has handed over.
LEMMA WorkerInv == DeltaInv /\ Worker => DeltaInv'
  <1>1. ASSUME DeltaInv, WorkerCheck PROVE DeltaInv'
    <2>1. /\ worker = "check" /\ ~Locked
          /\ UNCHANGED <<publisherVars, indexVars, enqueued_through, queue_size, admitted,
                         stopping, callVars, leaseVars>>
      BY <1>1, Zenon DEF WorkerCheck
    <2>2. /\ QueueTypeOK /\ QueueAhead /\ WorkerTypeOK /\ CallTypeOK /\ WorkerOut
      BY <1>1 DEF DeltaInv, QueueInv, CallInv
    <2>3. CASE /\ published_queue # <<>> /\ popped' = Head(published_queue)
               /\ published_queue' = Tail(published_queue) /\ worker' = "index"
      <3>1. published_queue' \in Seq(Nat) /\ popped' \in Nat
        BY <2>2, <2>3, DeltaSeqFacts DEF QueueTypeOK
      <3>2. ~Direct => /\ popped' <= enqueued_through
                       /\ \A i \in 1..Len(published_queue') :
                            published_queue'[i] <= enqueued_through
        BY <2>2, <2>3, TailFacts DEF QueueTypeOK, QueueAhead
      <3>3. QueueInv'
        BY <2>1, <2>2, <3>1, <3>2, DirectFacts, Zenon
           DEF QueueInv, QueueTypeOK, QueueAhead, indexVars
      <3>4. CallInv'
        BY <2>1, <2>2, <2>3, <3>1
           DEF CallInv, WorkerTypeOK, CallTypeOK, WorkerOut, callVars, Locked
      <3> QED  BY <1>1, <2>1, <3>3, <3>4, DeltaFrame, Zenon
                 DEF DeltaInv, indexVars, leaseVars
    <2>4. CASE /\ worker' = IF stopping THEN "done" ELSE "asleep"
               /\ UNCHANGED <<popped, published_queue>>
      <3>1. CallInv'
        BY <2>1, <2>2, <2>4 DEF CallInv, WorkerTypeOK, CallTypeOK, WorkerOut, callVars,
                               worker_indexing
      <3> QED  BY <1>1, <2>1, <2>4, <3>1, DirectFacts, DeltaFrame, Zenon
                 DEF DeltaInv, indexVars, queueVars, leaseVars
    <2> QED  BY <1>1, <2>3, <2>4, Zenon DEF WorkerCheck
  <1>2. ASSUME DeltaInv, WorkerIndex PROVE DeltaInv'
    <2>1. /\ worker = "index" /\ worker' = "finish" /\ popped' = 0
          /\ UNCHANGED <<publisherVars, queueVars, stopping, callVars, leaseVars>>
      BY <1>2, Zenon DEF WorkerIndex
    <2>2. \/ /\ popped = index.through + 1 /\ IndexLocked(popped)
             /\ AdvanceVisible(popped) \/ AdvanceVisible(0)
          \/ /\ first_missing' = SetMissingLocked(first_missing, index.through + 1)
             /\ UNCHANGED <<index, visible_seq>>
      BY <1>2 DEF WorkerIndex
    <2>3. /\ IndexInv /\ IndexTypeOK /\ index.through \in Nat /\ visible_seq \in Nat
          /\ popped \in Nat /\ enqueued_through \in Nat /\ index.hard \in BOOLEAN
          /\ QueueTypeOK /\ QueueAhead /\ WorkerTypeOK /\ CallTypeOK /\ WorkerOut
      BY <1>2 DEF DeltaInv, IndexInv, IndexTypeOK, QueueInv, QueueTypeOK, CallInv,
                  WorkerTypeOK
    <2>4. /\ IndexInv' /\ index'.base = index.base
          /\ index'.through = index.through \/ index'.through = popped
          /\ index.hard => index'.hard
      <3>1. CASE /\ popped = index.through + 1 /\ IndexLocked(popped)
                 /\ AdvanceVisible(popped) \/ AdvanceVisible(0)
        <4>1. visible_seq' \in Nat
          BY <3>1, <2>3, VisibleFacts
        <4> QED  BY <3>1, <4>1, <2>3, IndexLockedFacts
      <3>2. CASE /\ first_missing' = SetMissingLocked(first_missing, index.through + 1)
                 /\ UNCHANGED <<index, visible_seq>>
        <4>1. index.through + 1 \in Nat /\ index.through + 1 > index.through
          BY <2>3
        <4> QED  BY <3>2, <4>1, <2>3, GapFacts
      <3> QED  BY <3>1, <3>2, <2>2
    <2>5. ~Direct => (~index'.hard => index'.through <= enqueued_through)
      BY <2>3, <2>4, Zenon DEF QueueAhead
    <2>6. 0 <= enqueued_through
      BY <2>3
    <2>7. QueueInv'
      BY <2>1, <2>3, <2>5, <2>6, DirectFacts, Zenon DEF QueueInv, QueueTypeOK, QueueAhead, queueVars
    <2>8. CallInv'
      BY <2>1, <2>3 DEF CallInv, WorkerTypeOK, CallTypeOK, WorkerOut, callVars,
                        worker_indexing
    <2> QED  BY <1>2, <2>1, <2>4, <2>7, <2>8, DeltaFrame, Zenon DEF DeltaInv, leaseVars
  <1>3. ASSUME DeltaInv, WorkerFinish PROVE DeltaInv'
    <2>1. /\ worker = "finish" /\ worker' = "check"
          /\ transition' = IF transition = "waiting" THEN "woken" ELSE transition
          /\ UNCHANGED <<publisherVars, indexVars, queueVars, popped, stopping, call,
                         leaseVars>>
      BY <1>3, Zenon DEF WorkerFinish
    <2>2. CallInv'
      BY <1>3, <2>1 DEF DeltaInv, CallInv, WorkerTypeOK, CallTypeOK, WorkerOut,
                        worker_indexing
    <2> QED  BY <1>3, <2>1, <2>2, DirectFacts, DeltaFrame, Zenon
               DEF DeltaInv, indexVars, queueVars, leaseVars
  <1> QED  BY <1>1, <1>2, <1>3 DEF Worker

\* The transition a maintenance call goes through leaves the data alone.
LEMMA TransitionInv ==
  DeltaInv /\ (AwaitWorker \/ \E c \in Call : BeginTransition(c)) => DeltaInv'
  <1>1. ASSUME DeltaInv, AwaitWorker PROVE DeltaInv'
    <2>1. /\ transition = "woken" /\ transition' = "waiting"
          /\ UNCHANGED <<publisherVars, indexVars, queueVars, workerVars, call, leaseVars>>
      BY <1>1, Zenon DEF AwaitWorker
    <2>2. CallInv'
      BY <1>1, <2>1 DEF DeltaInv, CallInv, WorkerTypeOK, CallTypeOK, WorkerOut,
                        workerVars, worker_indexing
    <2> QED  BY <1>1, <2>1, <2>2, DirectFacts, DeltaFrame, Zenon
               DEF DeltaInv, indexVars, queueVars, workerVars, leaseVars
  <1>2. ASSUME DeltaInv, NEW c \in Call, BeginTransition(c) PROVE DeltaInv'
    <2>1. /\ transition' = "waiting" /\ call' = c
          /\ UNCHANGED <<publisherVars, indexVars, queueVars, workerVars, leaseVars>>
      BY <1>2, Zenon DEF BeginTransition
    <2>2. CallInv'
      BY <1>2, <2>1 DEF DeltaInv, CallInv, WorkerTypeOK, CallTypeOK, WorkerOut,
                        workerVars, worker_indexing
    <2> QED  BY <1>2, <2>1, <2>2, DirectFacts, DeltaFrame, Zenon
               DEF DeltaInv, indexVars, queueVars, workerVars, leaseVars
  <1> QED  BY <1>1, <1>2

\* A call that ends its transition outside the worker's critical section keeps
\* the thread states well-formed and wakes the publisher.
LEMMA EndFacts ==
  ASSUME DeltaInv, EndTransition, UNCHANGED workerVars,
         UNCHANGED <<store_seq, published_delta>>
  PROVE  PublisherTypeOK' /\ CallInv'
  <1>1. PublisherTypeOK'
    BY DEF DeltaInv, PublisherTypeOK, EndTransition
  <1>2. CallInv'
    BY DEF DeltaInv, CallInv, WorkerTypeOK, CallTypeOK, WorkerOut, EndTransition,
           workerVars
  <1> QED  BY <1>1, <1>2

\* Targets of calls are sequences; outside its critical section the worker
\* holds nothing.
LEMMA EnterFacts ==
  ASSUME DeltaInv, NEW c \in Call, Enter(c)
  PROVE  c.at \in Nat /\ popped = 0 /\ ~worker_indexing
  <1>1. c.at \in Nat
    BY DeltaAssumption
  <1>2. ~worker_indexing
    BY DEF Enter
  <1>3. popped = 0
    BY <1>2 DEF DeltaInv, CallInv, WorkerOut, worker_indexing
  <1> QED  BY <1>1, <1>2, <1>3

\* A repair appends the missing range; a full one restarts the queue at the
\* target, a partial one ends past a hard bound.
LEMMA RepairInv ==
  ASSUME DeltaInv, NEW c \in Call, RepairThrough(c) \/ ReturnEarly(c)
  PROVE  DeltaInv'
  <1>1. CASE ReturnEarly(c)
    <2>1. /\ EndTransition
          /\ UNCHANGED <<store_seq, published_delta, indexVars, queueVars, workerVars,
                         leaseVars>>
      BY <1>1, Zenon DEF ReturnEarly
    <2> QED  BY <2>1, EndFacts, DirectFacts, DeltaFrame, Zenon
               DEF DeltaInv, indexVars, queueVars, workerVars, leaseVars
  <1>2. CASE RepairThrough(c)
    <2>1. /\ Enter(c) /\ EndTransition /\ c.at > index.through
          /\ UNCHANGED <<store_seq, published_delta, workerVars, leaseVars>>
      BY <1>2, Zenon DEF RepairThrough
    <2>2. PICK k \in index.through..c.at :
            /\ index' = [index EXCEPT !.through = k,
                           !.commits = index.commits \cup ((index.through + 1)..k),
                           !.hard = index.hard \/ k < c.at]
            /\ IF k = c.at
               THEN /\ first_missing' = ClearMissing(first_missing, k)
                    /\ published_queue' = <<>> /\ enqueued_through' = k
                    /\ queue_size' = 0 /\ UNCHANGED admitted
               ELSE /\ first_missing' =
                         SetMissingLocked(ClearMissing(first_missing, k), k + 1)
                    /\ UNCHANGED queueVars
            /\ AdvanceVisible(k)
      BY <1>2, Zenon DEF RepairThrough
    <2>3. /\ index \in [base : Nat, through : Nat, commits : SUBSET Nat, hard : BOOLEAN]
          /\ first_missing \in Nat /\ IndexTypeOK /\ CoverageContiguous
          /\ QueueTypeOK /\ QueueAhead
      BY DEF DeltaInv, IndexInv, IndexTypeOK, QueueInv
    <2>4. c.at \in Nat /\ popped = 0
      BY <2>1, EnterFacts
    <2>5. k \in Nat /\ index.through <= k /\ k <= c.at /\ k + 1 \in Nat /\ 0 <= k
      BY <2>3, <2>4
    <2>6. visible_seq' \in Nat
      BY <2>2, <2>3, <2>5, VisibleFacts
    <2>7. index.commits \cup ((index.through + 1)..k) = (index.base + 1)..k
      BY <2>3, <2>5 DEF CoverageContiguous
    <2>8. index.commits \cup ((index.through + 1)..k) \in SUBSET Nat
      BY <2>3, <2>5
    <2>9. (index.hard \/ k < c.at) \in BOOLEAN
      OBVIOUS
    <2>10. /\ index' \in [base : Nat, through : Nat, commits : SUBSET Nat,
                          hard : BOOLEAN]
           /\ index'.base = index.base /\ index'.through = k
           /\ index'.commits = (index.base + 1)..k
           /\ index'.hard <=> (index.hard \/ k < c.at)
      BY <2>2, <2>3, <2>5, <2>7, <2>8, <2>9, Zenon
    <2>11. /\ first_missing' \in Nat
           /\ k = c.at /\ first_missing' # 0 => first_missing' > k
      BY <2>2, <2>3, <2>5 DEF ClearMissing, SetMissingLocked
    <2>12. index.base <= k
      BY <2>3, <2>5 DEF CoverageContiguous
    <2>13. k = c.at \/ k < c.at
      BY <2>4, <2>5
    <2>14. CoverageContiguous'
      BY <2>10, <2>11, <2>12, <2>13, Zenon DEF CoverageContiguous
    <2>15. IndexInv'
      BY <2>14, <2>10, <2>11, <2>6, Zenon DEF IndexInv, IndexTypeOK
    <2>16. QueueInv'
      <3>1. CASE k = c.at
        <4>1. /\ published_queue' = <<>> /\ enqueued_through' = k /\ queue_size' = 0
              /\ UNCHANGED admitted
          BY <2>2, <3>1, Zenon
        <4>2. popped' = 0
          BY <2>1, <2>4, Zenon DEF workerVars
        <4> QED  BY <4>1, <4>2, <2>3, <2>5, <2>10 DEF QueueInv, QueueTypeOK, QueueAhead
      <3>2. CASE k < c.at
        <4>1. UNCHANGED queueVars /\ index'.hard /\ UNCHANGED popped
          BY <2>1, <2>2, <2>4, <2>5, <2>10, <3>2 DEF workerVars
        <4> QED  BY <4>1, <2>1, <2>3, DirectFacts, Zenon DEF QueueInv, QueueTypeOK, QueueAhead, queueVars
      <3> QED  BY <3>1, <3>2, <2>13
    <2> QED  BY <2>1, <2>10, <2>15, <2>16, EndFacts, DeltaFrame, Zenon
               DEF DeltaInv, leaseVars
  <1> QED  BY <1>1, <1>2

\* Retirement moves the base within the coverage and empties the index cache.
LEMMA RetireInv ==
  ASSUME DeltaInv, NEW c \in Call, RetireThrough(c)
  PROVE  DeltaInv'
  <1>1. /\ Enter(c) /\ index.base <= c.at /\ c.at <= index.through
        /\ index' = [index EXCEPT !.base = c.at,
                                  !.commits = {k \in index.commits : k > c.at}]
        /\ retired' = retired \cup {k \in index.commits : k <= c.at}
        /\ lease' = ClearIndexCache
        /\ transition' = "retiring" /\ call' = c
        /\ UNCHANGED <<publisherVars, first_missing, visible_seq, queueVars, workerVars,
                       active_leases>>
    BY Zenon DEF RetireThrough
  <1>2. /\ index \in [base : Nat, through : Nat, commits : SUBSET Nat, hard : BOOLEAN]
        /\ first_missing \in Nat /\ visible_seq \in Nat /\ CoverageContiguous
        /\ QueueTypeOK /\ QueueAhead /\ retired \in SUBSET Nat
    BY DEF DeltaInv, IndexInv, IndexTypeOK, QueueInv, LeaseInv, LeaseTypeOK
  <1>3. c.at \in Nat /\ popped = 0 /\ ~worker_indexing
    BY <1>1, EnterFacts
  <1>4. {k \in index.commits : k > c.at} = (c.at + 1)..index.through
    BY <1>1, <1>2, <1>3 DEF CoverageContiguous
  <1>5. {k \in index.commits : k > c.at} \in SUBSET Nat /\ retired' \in SUBSET Nat
    BY <1>1, <1>2
  <1>6. /\ index' \in [base : Nat, through : Nat, commits : SUBSET Nat, hard : BOOLEAN]
        /\ index'.base = c.at /\ index'.through = index.through
        /\ index'.commits = (c.at + 1)..index.through
        /\ index'.hard = index.hard
    BY <1>1, <1>2, <1>3, <1>4, <1>5, Zenon
  <1>7. IndexInv'
    BY <1>1, <1>2, <1>6, Zenon DEF IndexInv, IndexTypeOK, CoverageContiguous
  <1>8. QueueInv'
    BY <1>1, <1>2, <1>6, DirectFacts, Zenon DEF QueueInv, QueueTypeOK, QueueAhead, queueVars, workerVars
  <1>9. CallInv'
    BY <1>1, <1>3 DEF DeltaInv, CallInv, WorkerTypeOK, CallTypeOK, WorkerOut, workerVars,
                      worker_indexing
  <1>10. LeaseInv' /\ CacheCurrent'
    BY <1>1, <1>5, CacheCleared, Zenon
  <1> QED  BY <1>1, <1>7, <1>8, <1>9, <1>10, DeltaFrame, Zenon DEF DeltaInv

\* The second step of a retirement realigns an empty queue with the index.
LEMMA FinishRetireInv == DeltaInv /\ FinishRetire => DeltaInv'
  <1> SUFFICES ASSUME DeltaInv, FinishRetire PROVE DeltaInv'
    OBVIOUS
  <1>1. /\ transition = "retiring" /\ EndTransition /\ queue_size' = 0
        /\ retired' = IF active_leases = 0 THEN {} ELSE retired
        /\ enqueued_through' =
             IF published_queue = <<>> THEN index.through ELSE enqueued_through
        /\ first_missing' = ClearMissing(first_missing, call.at)
        /\ UNCHANGED <<store_seq, published_delta, index, visible_seq, published_queue,
                       admitted, workerVars, lease, active_leases>>
    BY Zenon DEF FinishRetire
  <1>2. /\ index \in [base : Nat, through : Nat, commits : SUBSET Nat, hard : BOOLEAN]
        /\ first_missing \in Nat /\ visible_seq \in Nat /\ CoverageContiguous
        /\ QueueTypeOK /\ QueueAhead /\ LeaseInv /\ CacheCurrent
    BY DEF DeltaInv, IndexInv, IndexTypeOK, QueueInv
  <1>3. popped = 0
    BY <1>1 DEF DeltaInv, CallInv, WorkerOut, worker_indexing
  <1>4. first_missing' \in {0, first_missing}
    BY <1>1 DEF ClearMissing
  <1>5. IndexInv'
    <2>1. first_missing' \in Nat
      BY <1>2, <1>4
    <2>2. CoverageContiguous'
      BY <1>1, <1>2, <1>4, Zenon DEF CoverageContiguous
    <2> QED  BY <1>1, <1>2, <2>1, <2>2, Zenon DEF IndexInv, IndexTypeOK
  <1>6. QueueInv'
    <2>1. CASE published_queue = <<>>
      <3>1. published_queue' = <<>> /\ enqueued_through' = index.through
        BY <1>1, <2>1, Zenon
      <3>2. /\ popped' = 0 /\ index' = index /\ index.through \in Nat /\ queue_size' = 0
            /\ admitted' \in SUBSET Nat
        BY <1>1, <1>2, <1>3 DEF workerVars, QueueTypeOK
      <3> QED  BY <3>1, <3>2 DEF QueueInv, QueueTypeOK, QueueAhead
    <2>2. CASE published_queue # <<>>
      <3>1. UNCHANGED <<enqueued_through, published_queue, index, popped>> /\ queue_size' = 0
        BY <1>1, <2>2, Zenon DEF workerVars
      <3>2. 0 \in Nat
        OBVIOUS
      <3> QED  BY <1>1, <1>2, <3>1, <3>2, DirectFacts, Zenon DEF QueueInv, QueueTypeOK, QueueAhead
    <2> QED  BY <2>1, <2>2
  <1>7. LeaseInv'
    <2>1. retired' \in SUBSET Nat
      BY <1>1, <1>2 DEF LeaseInv, LeaseTypeOK
    <2> QED  BY <1>1, <1>2, <2>1, Zenon
               DEF LeaseInv, LeaseTypeOK, LeaseExact, LeasesCounted, Held
  <1>8. CacheCurrent'
    BY <1>1, DeltaFrame
  <1> QED  BY <1>1, <1>5, <1>6, <1>7, <1>8, EndFacts, Zenon DEF DeltaInv

\* A reset starts the coverage anew.
LEMMA ResetInv ==
  ASSUME DeltaInv, NEW c \in Call, ResetBase(c)
  PROVE  DeltaInv'
  <1>1. /\ Enter(c) /\ EndTransition
        /\ index' = [base |-> c.at, through |-> c.at, commits |-> {}, hard |-> FALSE]
        /\ visible_seq' = c.at /\ first_missing' = 0
        /\ published_queue' = <<>> /\ enqueued_through' = c.at /\ queue_size' = 0
        /\ admitted' = {}
        /\ lease' = ClearIndexCache /\ retired' = {}
        /\ UNCHANGED <<store_seq, published_delta, workerVars, active_leases>>
    BY Zenon DEF ResetBase
  <1>2. c.at \in Nat /\ popped' = 0
    BY <1>1, EnterFacts DEF workerVars
  <1>3. IndexInv'
    BY <1>1, <1>2 DEF IndexInv, IndexTypeOK, CoverageContiguous
  <1>4. QueueInv'
    BY <1>1, <1>2 DEF QueueInv, QueueTypeOK, QueueAhead
  <1>5. retired' \in SUBSET Nat
    BY <1>1
  <1>6. LeaseInv' /\ CacheCurrent'
    BY <1>1, <1>5, CacheCleared, Zenon
  <1> QED  BY <1>1, <1>3, <1>4, <1>6, EndFacts, Zenon DEF DeltaInv

\* A new lease copies the contiguous coverage, and the event index it may share
\* was built over the same range; a release leaves the other leases alone.
LEMMA LeaseStepInv ==
  ASSUME DeltaInv, NEW r \in Reader,
         \/ \E s \in Seqs : AcquireLeaseThrough(r, s)
         \/ ReleaseLease(r) \/ DropRetired(r)
  PROVE  DeltaInv'
  <1> DEFINE T == [state : {"none", "held", "dropping"}, base : Nat, through : Nat,
                   commits : SUBSET Nat, events : SUBSET Nat, cached : BOOLEAN]
  <1>1. /\ lease \in [Reader -> T] /\ active_leases \in Nat /\ retired \in SUBSET Nat
        /\ LeaseExact /\ LeasesCounted /\ CacheCurrent
        /\ index \in [base : Nat, through : Nat, commits : SUBSET Nat, hard : BOOLEAN]
        /\ CoverageContiguous
    BY DEF DeltaInv, LeaseInv, LeaseTypeOK, IndexInv, IndexTypeOK
  <1>2. IsFiniteSet(Held)
    BY DeltaAssumption, FS_Subset DEF Held
  <1>3. NoLease \in T /\ [NoLease EXCEPT !.state = "dropping"] \in T
        /\ [NoLease EXCEPT !.state = "none"] \in T
    BY Zenon DEF NoLease
  <1> HIDE DEF T
  \* Replacing one lease by a well-formed one keeps the rest.
  <1>4. ASSUME NEW l \in T, lease' = [lease EXCEPT ![r] = l],
               active_leases' \in Nat, retired' \in SUBSET Nat, UNCHANGED index,
               l.state = "held" => /\ l.commits = (l.base + 1)..l.through
                                   /\ l.events = l.commits,
               l.cached => l.state = "held" /\ l.base = index.base
        PROVE  LeaseTypeOK' /\ LeaseExact' /\ CacheCurrent'
    <2>1. \A q \in Reader : lease'[q] = IF q = r THEN l ELSE lease[q]
      BY <1>1, <1>4, Zenon
    <2>2. lease' \in [Reader -> T]
      BY <1>1, <1>4, Zenon
    <2>3. LeaseTypeOK'
      BY <2>2, <1>4, Zenon DEF LeaseTypeOK, T
    <2>4. LeaseExact'
      BY <2>1, <1>1, <1>4, Zenon DEF LeaseExact
    <2>5. CacheCurrent'
      BY <2>1, <1>1, <1>4, Zenon DEF CacheCurrent
    <2> QED  BY <2>3, <2>4, <2>5
  <1>5. ASSUME NEW s \in Seqs, AcquireLeaseThrough(r, s) PROVE DeltaInv'
    <2> DEFINE visible == {k \in index.commits : index.base < k /\ k <= s}
               shared == {q \in Reader : lease[q].cached /\ lease[q].through = s}
    <2>1. /\ lease[r].state = "none" /\ Covers(s) /\ active_leases' = active_leases + 1
          /\ UNCHANGED <<publisherVars, indexVars, queueVars, workerVars, callVars, retired>>
      BY <1>5, Zenon DEF AcquireLeaseThrough
    <2>2. PICK events \in {visible} \cup {lease[q].events : q \in shared} :
            lease' = [lease EXCEPT ![r] =
                        [state |-> "held", base |-> index.base, through |-> s,
                         commits |-> visible, events |-> events, cached |-> TRUE]]
      BY <1>5, Zenon DEF AcquireLeaseThrough
    <2>3. s \in Nat /\ index.base <= s /\ s <= index.through
      BY <2>1, DeltaAssumption DEF Covers, Seqs
    <2>4. visible = (index.base + 1)..s /\ visible \in SUBSET Nat
      BY <2>3, <1>1 DEF CoverageContiguous
    <2>5. ASSUME NEW q \in shared PROVE lease[q].events = (index.base + 1)..s
      <3>1. /\ q \in Reader /\ lease[q].through = s
            /\ lease[q].state = "held" /\ lease[q].base = index.base
        BY <1>1, Zenon DEF CacheCurrent
      <3> QED  BY <3>1, <1>1, Zenon DEF LeaseExact
    <2> HIDE DEF visible
    <2>6. events = visible
      BY <2>2, <2>4, <2>5, Zenon
    <2> DEFINE l == [state |-> "held", base |-> index.base, through |-> s,
                     commits |-> visible, events |-> events, cached |-> TRUE]
    <2>7. index.base \in Nat
      BY <1>1
    <2>8. l \in T
      BY <2>3, <2>4, <2>6, <2>7 DEF T
    <2>9. /\ l.state = "held" /\ l.base = index.base /\ l.commits = (l.base + 1)..l.through
          /\ l.events = l.commits /\ lease' = [lease EXCEPT ![r] = l]
      BY <2>2, <2>4, <2>6
    <2> HIDE DEF l
    <2>10. active_leases' \in Nat
      BY <2>1, <1>1
    <2>11. LeaseTypeOK' /\ LeaseExact' /\ CacheCurrent'
      BY <2>1, <2>8, <2>9, <2>10, <1>1, <1>4, Zenon DEF indexVars
    <2>12. Held' = Held \cup {r} /\ r \notin Held
      BY <2>1, <2>9, <1>1, Zenon DEF Held
    <2>13. LeasesCounted'
      BY <2>1, <2>12, <1>1, <1>2, FS_AddElement DEF LeasesCounted
    <2> QED  BY <2>1, <2>11, <2>13, DirectFacts, DeltaFrame, Zenon
               DEF DeltaInv, LeaseInv, indexVars, queueVars, workerVars
  <1>6. ASSUME ReleaseLease(r) PROVE DeltaInv'
    <2> DEFINE l == [NoLease EXCEPT !.state =
                       IF active_leases = 1 THEN "dropping" ELSE "none"]
    <2>1. /\ lease[r].state = "held" /\ active_leases' = active_leases - 1
          /\ lease' = [lease EXCEPT ![r] = l]
          /\ UNCHANGED <<publisherVars, indexVars, queueVars, workerVars, callVars, retired>>
      BY <1>6, Zenon DEF ReleaseLease
    <2>2. l \in T /\ l.state # "held" /\ ~l.cached
      BY <1>3 DEF NoLease
    <2> HIDE DEF l
    <2>3. Held' = Held \ {r} /\ r \in Held
      BY <2>1, <2>2, <1>1, Zenon DEF Held
    <2>4. Cardinality(Held') = Cardinality(Held) - 1 /\ Cardinality(Held') \in Nat
      BY <2>3, <1>2, FS_RemoveElement, FS_CardinalityType
    <2>5. LeasesCounted' /\ active_leases' \in Nat
      BY <2>1, <2>4, <1>1 DEF LeasesCounted
    <2>6. LeaseTypeOK' /\ LeaseExact' /\ CacheCurrent'
      BY <2>1, <2>2, <2>5, <1>1, <1>4, Zenon DEF indexVars
    <2> QED  BY <2>1, <2>5, <2>6, DirectFacts, DeltaFrame, Zenon
               DEF DeltaInv, LeaseInv, indexVars, queueVars, workerVars
  <1>7. ASSUME DropRetired(r) PROVE DeltaInv'
    <2>1. /\ lease[r].state = "dropping" /\ retired' = {}
          /\ lease' = [lease EXCEPT ![r] = NoLease]
          /\ UNCHANGED <<publisherVars, indexVars, queueVars, workerVars, callVars,
                         active_leases>>
      BY <1>7, Zenon DEF DropRetired
    <2>2. NoLease.state # "held" /\ ~NoLease.cached /\ retired' \in SUBSET Nat
      BY <2>1 DEF NoLease
    <2>3. LeaseTypeOK' /\ LeaseExact' /\ CacheCurrent'
      BY <2>1, <2>2, <1>1, <1>3, <1>4, Zenon DEF indexVars
    <2>4. "dropping" # "held"
      OBVIOUS
    <2>5. Held' = Held
      BY <2>1, <2>2, <2>4, <1>1, Zenon DEF Held
    <2>6. LeasesCounted'
      BY <2>1, <2>5, <1>1, Zenon DEF LeasesCounted
    <2> QED  BY <2>1, <2>3, <2>6, DirectFacts, DeltaFrame, Zenon
               DEF DeltaInv, LeaseInv, indexVars, queueVars, workerVars
  <1> QED  BY <1>5, <1>6, <1>7

\* The destructor wakes a sleeping worker.
LEMMA StopInv == DeltaInv /\ Stop => DeltaInv'
  <1> SUFFICES ASSUME DeltaInv, Stop PROVE DeltaInv'
    OBVIOUS
  <1>1. /\ transition = "none" /\ stopping' = TRUE
        /\ worker' = IF worker = "asleep" THEN "check" ELSE worker
        /\ UNCHANGED <<publisherVars, indexVars, queueVars, popped, callVars, leaseVars>>
    BY Zenon DEF Stop
  <1>2. CallInv'
    BY <1>1 DEF DeltaInv, CallInv, WorkerTypeOK, CallTypeOK, WorkerOut, callVars
  <1> QED  BY <1>1, <1>2, DirectFacts, DeltaFrame, Zenon DEF DeltaInv, indexVars, queueVars, leaseVars

-----------------------------------------------------------------------------
(* The theorems *)

\* Every step of the delta, its publisher, its worker, maintenance and the
\* readers preserves the invariant.
LEMMA DeltaStep == DeltaInv /\ [Next]_vars => DeltaInv'
  <1> SUFFICES ASSUME DeltaInv, [Next]_vars PROVE DeltaInv'
    OBVIOUS
  <1>1. CASE Maintenance
    <2>1. ASSUME NEW c \in Call,
                 \/ BeginTransition(c) \/ RepairThrough(c) \/ ReturnEarly(c)
                 \/ RetireThrough(c) \/ ResetBase(c)
          PROVE  DeltaInv'
      BY <2>1, TransitionInv, RepairInv, RetireInv, ResetInv, Zenon
    <2> QED  BY <1>1, <2>1, TransitionInv, FinishRetireInv, Zenon DEF Maintenance
  <1>2. CASE \E r \in Reader :
               \/ \E s \in Seqs : s <= store_seq /\ AcquireLeaseThrough(r, s)
               \/ ReleaseLease(r) \/ DropRetired(r)
    BY <1>2, LeaseStepInv, Zenon
  <1>3. CASE UNCHANGED vars
    BY <1>3, DirectFacts, DeltaFrame, Zenon
       DEF DeltaInv, vars, indexVars, queueVars, workerVars, leaseVars
  <1> QED  BY <1>1, <1>2, <1>3, PublishInv, EnqueueInv, ObserveInv, PublisherInv,
              WorkerInv, StopInv, Zenon DEF Next

\* The invariant holds throughout.
LEMMA DeltaInductive == Spec => []DeltaInv
  BY DeltaInit, DeltaStep, PTL DEF Spec

\* Every variable keeps its type, and with it the count of active leases never
\* falls below zero, however acquisitions and releases interleave.
THEOREM DeltaTypeCorrect == Spec => []TypeOK
  <1>1. DeltaInv => TypeOK
    BY DEF DeltaInv, IndexInv, QueueInv, CallInv, LeaseInv, TypeOK
  <1> QED  BY <1>1, DeltaInductive, PTL

\* The indexed tail never has a hole: EnqueuePublished, the worker, repairs,
\* retirements and resets leave exactly the commits after the base.
THEOREM CoverageCorrect == Spec => []CoverageContiguous
  <1>1. DeltaInv => CoverageContiguous
    BY DEF DeltaInv, IndexInv
  <1> QED  BY <1>1, DeltaInductive, PTL

\* A lease, and the event index it may share through lease_index_cache_, holds
\* exactly the commits between its base and its snapshot.
THEOREM LeaseCorrect == Spec => []LeaseExact
  <1>1. DeltaInv => LeaseExact
    BY DEF DeltaInv, LeaseInv
  <1> QED  BY <1>1, DeltaInductive, PTL

\* Retired chunks are kept only for a lease: a count of leases that is not zero
\* has a lease behind it, the last release drops what is retired, and a
\* retirement that finds no lease drops it itself.
LEMMA RetiredStep == DeltaInv /\ DeltaInv' /\ NoRetiredLeak /\ [Next]_vars => NoRetiredLeak'
  <1> SUFFICES ASSUME DeltaInv, DeltaInv', NoRetiredLeak, [Next]_vars
               PROVE  NoRetiredLeak'
    OBVIOUS
  <1>1. /\ UNCHANGED leaseVars
        /\ transition = "retiring" => transition' = "retiring"
        => NoRetiredLeak'
    BY Zenon DEF NoRetiredLeak, leaseVars
  <1>2. retired' = {} \/ transition' = "retiring" => NoRetiredLeak'
    BY Zenon DEF NoRetiredLeak
  <1>3. active_leases' # 0 => NoRetiredLeak'
    <2>1. active_leases' = Cardinality(Held')
      BY DEF DeltaInv, LeaseInv, LeasesCounted
    <2>2. active_leases' # 0 => Held' # {}
      BY <2>1, FS_EmptySet
    <2>3. "held" # "none"
      OBVIOUS
    <2> QED  BY <2>2, <2>3, Zenon DEF Held, NoRetiredLeak
  <1>4. CASE Publish \/ EnqueuePublished \/ AwaitTransition \/ ObservePublished
               \/ ConsumeThrough \/ WorkerCheck \/ WorkerIndex \/ Stop
    <2>1. UNCHANGED <<leaseVars, callVars>>
      BY <1>4, Zenon DEF Publish, EnqueuePublished, AwaitTransition, ObservePublished,
                         ConsumeThrough, WorkerCheck, WorkerIndex, Stop
    <2> QED  BY <2>1, <1>1, Zenon DEF callVars
  <1>5. CASE WorkerFinish \/ AwaitWorker
    <2>1. UNCHANGED leaseVars /\ (transition = "retiring" => transition' = "retiring")
      BY <1>5 DEF WorkerFinish, AwaitWorker
    <2> QED  BY <2>1, <1>1
  <1>6. ASSUME NEW c \in Call, BeginTransition(c) \/ RepairThrough(c) \/ ReturnEarly(c)
        PROVE  NoRetiredLeak'
    <2>1. UNCHANGED leaseVars /\ transition \in {"none", "woken"}
      BY <1>6, Zenon DEF BeginTransition, RepairThrough, ReturnEarly, Enter
    <2>2. transition # "retiring"
      BY <2>1
    <2> QED  BY <2>1, <2>2, <1>1
  <1>7. ASSUME NEW c \in Call, RetireThrough(c) \/ ResetBase(c) PROVE NoRetiredLeak'
    BY <1>7, <1>2, Zenon DEF RetireThrough, ResetBase
  <1>8. CASE FinishRetire
    <2>1. retired' = {} \/ (active_leases # 0 /\ active_leases' = active_leases)
      BY <1>8, Zenon DEF FinishRetire
    <2> QED  BY <2>1, <1>2, <1>3
  <1>9. ASSUME NEW r \in Reader, NEW s \in Seqs, AcquireLeaseThrough(r, s)
        PROVE  NoRetiredLeak'
    <2>1. active_leases' = active_leases + 1 /\ active_leases \in Nat
      BY <1>9, Zenon DEF AcquireLeaseThrough, DeltaInv, LeaseInv, LeaseTypeOK
    <2> QED  BY <2>1, <1>3
  <1>10. ASSUME NEW r \in Reader, ReleaseLease(r) PROVE NoRetiredLeak'
    <2>1. /\ active_leases' = active_leases - 1 /\ active_leases \in Nat
          /\ lease' = [lease EXCEPT ![r] = [NoLease EXCEPT !.state =
                          IF active_leases = 1 THEN "dropping" ELSE "none"]]
          /\ DOMAIN lease = Reader
      BY <1>10, Zenon DEF ReleaseLease, DeltaInv, LeaseInv, LeaseTypeOK
    <2>2. CASE active_leases = 1
      <3>1. lease'[r] = [NoLease EXCEPT !.state = "dropping"]
        BY <2>1, <2>2
      <3>2. lease'[r].state # "none"
        BY <3>1 DEF NoLease
      <3> QED  BY <3>2, Zenon DEF NoRetiredLeak
    <2>3. CASE active_leases # 1
      BY <2>1, <2>3, <1>3
    <2> QED  BY <2>2, <2>3
  <1>11. ASSUME NEW r \in Reader, DropRetired(r) PROVE NoRetiredLeak'
    BY <1>11, <1>2, Zenon DEF DropRetired
  <1>12. CASE UNCHANGED vars
    BY <1>12, <1>1, Zenon DEF vars, callVars
  <1> QED  BY <1>4, <1>5, <1>6, <1>7, <1>8, <1>9, <1>10, <1>11, <1>12, Zenon
             DEF Next, Worker, Maintenance

\* Retired chunks do not outlive the leases of RetireThrough's time, however
\* acquisitions, releases and retirements interleave.
THEOREM RetiredCorrect == Spec => []NoRetiredLeak
  <1>1. Init => NoRetiredLeak
    BY DEF Init, NoRetiredLeak
  <1> QED  BY <1>1, DeltaInductive, RetiredStep, PTL DEF Spec

-----------------------------------------------------------------------------
(* The hard bounds *)

MemoryInv == IsFiniteSet(retired) /\ MemoryBounded

\* The commits after a up to b.
LEMMA CommitsCounted ==
  ASSUME NEW a \in Nat, NEW b \in Nat, a <= b
  PROVE  IsFiniteSet((a + 1)..b) /\ Cardinality((a + 1)..b) = b - a
  <1>1. a + 1 \in Int /\ b \in Int
    OBVIOUS
  <1>2. /\ IsFiniteSet((a + 1)..b)
        /\ Cardinality((a + 1)..b) = IF a + 1 > b THEN 0 ELSE b - (a + 1) + 1
    BY <1>1, FS_Interval, Zenon
  <1> QED  BY <1>2

\* The coverage is a finite set of commits.
LEMMA CommitsFinite ==
  ASSUME IndexInv
  PROVE  IsFiniteSet(index.commits) /\ Cardinality(index.commits) \in Nat
  <1>1. index.base + 1 \in Int /\ index.through \in Int
    BY DEF IndexInv, IndexTypeOK
  <1>2. index.commits = (index.base + 1)..index.through
    BY DEF IndexInv, CoverageContiguous
  <1> QED  BY <1>1, <1>2, FS_Interval, FS_CardinalityType, Zenon

\* Commits that Admits has counted fit.
LEMMA GrownFits ==
  ASSUME IndexInv, MemoryInv, NEW X, IsFiniteSet(X), Admits(Cardinality(X)),
         index'.commits = index.commits \cup X, retired' = retired
  PROVE  MemoryInv'
  <1>1. /\ IsFiniteSet(index.commits) /\ Cardinality(index.commits) \in Nat
        /\ Cardinality(X) \in Nat /\ Cardinality(retired) \in Nat
    BY CommitsFinite, FS_CardinalityType DEF MemoryInv
  <1>2. Cardinality(index.commits \cup X)
          = Cardinality(index.commits) + Cardinality(X) - Cardinality(index.commits \cap X)
    BY <1>1, FS_Union
  <1>3. Cardinality(index.commits \cap X) \in Nat
    BY <1>1, FS_Subset, FS_CardinalityType
  <1>4. Cardinality(index'.commits) <= Cardinality(index.commits) + Cardinality(X)
        /\ Cardinality(index'.commits) \in Int
    BY <1>1, <1>2, <1>3
  <1> QED  BY <1>1, <1>4, DeltaAssumption DEF Admits, MemoryInv, MemoryBounded

\* Every step keeps live and retired commits together within the bounds:
\* IndexLocked and RepairThrough count before they add, and RetireThrough only
\* moves commits from the one set to the other.
LEMMA MemoryStep == DeltaInv /\ MemoryInv /\ [Next]_vars => MemoryInv'
  <1> SUFFICES ASSUME DeltaInv, MemoryInv, [Next]_vars PROVE MemoryInv'
    OBVIOUS
  <1>1. /\ IndexInv /\ IsFiniteSet(index.commits) /\ Cardinality(index.commits) \in Nat
        /\ IsFiniteSet(retired) /\ Cardinality(retired) \in Nat
    BY CommitsFinite, FS_CardinalityType DEF DeltaInv, MemoryInv
  <1>2. index'.commits = index.commits /\ retired' \in {retired, {}} => MemoryInv'
    BY <1>1, FS_EmptySet, DeltaAssumption DEF MemoryInv, MemoryBounded
  <1>3. ASSUME NEW c, IndexLocked(c), retired' = retired PROVE MemoryInv'
    <2>1. index \in [base : Nat, through : Nat, commits : SUBSET Nat, hard : BOOLEAN]
      BY <1>1 DEF IndexInv, IndexTypeOK
    <2>2. CASE Admits(1)
      <3>1. index'.commits = index.commits \cup {c}
        BY <2>1, <2>2, <1>3, Zenon DEF IndexLocked
      <3>2. IsFiniteSet({c}) /\ Cardinality({c}) = 1
        BY FS_Singleton
      <3> QED  BY <3>1, <3>2, <2>2, <1>1, <1>3, GrownFits
    <2>3. CASE ~Admits(1)
      <3>1. index'.commits = index.commits
        BY <2>1, <2>3, <1>3, Zenon DEF IndexLocked
      <3> QED  BY <3>1, <1>2, <1>3
    <2> QED  BY <2>2, <2>3
  <1>4. CASE Publish \/ EnqueuePublished \/ AwaitTransition \/ ConsumeThrough
               \/ WorkerCheck \/ WorkerFinish \/ AwaitWorker \/ Stop
    <2>1. index' = index /\ retired' = retired
      BY <1>4, Zenon DEF Publish, EnqueuePublished, AwaitTransition, ConsumeThrough,
                         WorkerCheck, WorkerFinish, AwaitWorker, Stop, indexVars, leaseVars
    <2> QED  BY <2>1, <1>2
  <1>5. CASE ObservePublished \/ WorkerIndex
    <2>1. /\ retired' = retired
          /\ index' = index \/ \E c \in {Head(published_delta), popped} : IndexLocked(c)
      BY <1>5, Zenon DEF ObservePublished, WorkerIndex, indexVars, leaseVars
    <2> QED  BY <2>1, <1>2, <1>3
  <1>6. ASSUME NEW c \in Call, BeginTransition(c) \/ ReturnEarly(c) PROVE MemoryInv'
    <2>1. index' = index /\ retired' = retired
      BY <1>6, Zenon DEF BeginTransition, ReturnEarly, indexVars, leaseVars
    <2> QED  BY <2>1, <1>2
  <1>7. ASSUME NEW c \in Call, RepairThrough(c) PROVE MemoryInv'
    <2>1. PICK k \in index.through..c.at :
            /\ k > index.through => Admits(k - index.through)
            /\ index' = [index EXCEPT !.through = k,
                                      !.commits = @ \cup ((index.through + 1)..k),
                                      !.hard = @ \/ k < c.at]
      BY <1>7, Zenon DEF RepairThrough
    <2>2. retired' = retired
      BY <1>7, Zenon DEF RepairThrough, leaseVars
    <2>3. index \in [base : Nat, through : Nat, commits : SUBSET Nat, hard : BOOLEAN]
      BY <1>1 DEF IndexInv, IndexTypeOK
    <2>4. index'.commits = index.commits \cup ((index.through + 1)..k)
      BY <2>1, <2>3, Zenon
    <2>5. index.through \in Nat /\ k \in Nat /\ index.through <= k
      BY <2>3, DeltaAssumption
    <2>6. /\ IsFiniteSet((index.through + 1)..k)
          /\ Cardinality((index.through + 1)..k) = k - index.through
      BY <2>5, CommitsCounted
    <2>7. CASE k > index.through
      BY <2>1, <2>2, <2>4, <2>6, <2>7, <1>1, GrownFits
    <2>8. CASE k = index.through
      <3>1. (index.through + 1)..k = {}
        BY <2>5, <2>8
      <3> QED  BY <3>1, <2>2, <2>4, <1>2
    <2> QED  BY <2>5, <2>7, <2>8
  <1>8. ASSUME NEW c \in Call, RetireThrough(c) PROVE MemoryInv'
    <2> DEFINE X == {k \in index.commits : k <= c.at}
               Y == {k \in index.commits : k > c.at}
    <2>1. /\ index' = [index EXCEPT !.base = c.at, !.commits = Y]
          /\ retired' = retired \cup X
      BY <1>8 DEF RetireThrough
    <2>2. index \in [base : Nat, through : Nat, commits : SUBSET Nat, hard : BOOLEAN]
      BY <1>1 DEF IndexInv, IndexTypeOK
    <2>3. c.at \in Nat /\ index.commits \in SUBSET Nat
      BY <2>2, DeltaAssumption
    <2>4. X \cup Y = index.commits /\ X \cap Y = {}
      BY <2>3
    <2>5. X \subseteq index.commits /\ Y \subseteq index.commits
      OBVIOUS
    <2> HIDE DEF X, Y
    <2>6. index'.commits = Y
      BY <2>1, <2>2, Zenon
    <2>7. /\ IsFiniteSet(X) /\ IsFiniteSet(Y)
          /\ Cardinality(X) \in Nat /\ Cardinality(Y) \in Nat
      BY <2>5, <1>1, FS_Subset, FS_CardinalityType
    <2>8. Cardinality(index.commits) = Cardinality(X) + Cardinality(Y)
      <3>1. Cardinality(X \cup Y)
              = Cardinality(X) + Cardinality(Y) - Cardinality(X \cap Y)
        BY <2>7, FS_Union
      <3> QED  BY <3>1, <2>4, <2>7, FS_EmptySet
    <2>9. IsFiniteSet(retired \cup X)
          /\ Cardinality(retired \cup X)
               = Cardinality(retired) + Cardinality(X) - Cardinality(retired \cap X)
      BY <2>7, <1>1, FS_Union
    <2>10. Cardinality(retired \cap X) \in Nat
      BY <1>1, FS_Subset, FS_CardinalityType
    <2> QED  BY <2>1, <2>6, <2>7, <2>8, <2>9, <2>10, <1>1, DeltaAssumption
               DEF MemoryInv, MemoryBounded
  <1>9. ASSUME NEW c \in Call, ResetBase(c) PROVE MemoryInv'
    <2>1. index'.commits = {} /\ retired' = {}
      BY <1>9 DEF ResetBase
    <2> QED  BY <2>1, FS_EmptySet, DeltaAssumption DEF MemoryInv, MemoryBounded
  <1>10. CASE FinishRetire
    <2>1. index' = index /\ retired' \in {retired, {}}
      BY <1>10 DEF FinishRetire
    <2> QED  BY <2>1, <1>2
  <1>11. ASSUME NEW r \in Reader,
                \/ \E s \in Seqs : s <= store_seq /\ AcquireLeaseThrough(r, s)
                \/ ReleaseLease(r) \/ DropRetired(r)
         PROVE  MemoryInv'
    <2>1. index' = index /\ retired' \in {retired, {}}
      BY <1>11, Zenon DEF AcquireLeaseThrough, ReleaseLease, DropRetired, indexVars
    <2> QED  BY <2>1, <1>2
  <1>12. CASE UNCHANGED vars
    BY <1>12, <1>2 DEF vars, indexVars, leaseVars
  <1> QED  BY <1>4, <1>5, <1>6, <1>7, <1>8, <1>9, <1>10, <1>11, <1>12, Zenon
             DEF Next, Worker, Maintenance

\* Live and retired chunks together stay within the hard bounds of IndexLocked,
\* RepairThrough and Database::Open.
THEOREM MemoryCorrect == Spec => []MemoryBounded
  <1>1. Init => MemoryInv
    <2> SUFFICES ASSUME Init PROVE MemoryInv
      OBVIOUS
    <2>1. PICK t \in {BaseSeq, RecoveredSeq} :
            /\ BaseSeq <= t /\ t - BaseSeq <= HardMemory /\ t - BaseSeq <= MaxLag
            /\ index = [base |-> BaseSeq, through |-> t,
                        commits |-> (BaseSeq + 1)..t, hard |-> FALSE]
      BY DEF Init
    <2>2. t \in Nat /\ BaseSeq \in Nat /\ BaseSeq <= t
      BY <2>1, DeltaAssumption
    <2>3. index.commits = (BaseSeq + 1)..t /\ retired = {}
      BY <2>1 DEF Init
    <2>4. Cardinality(index.commits) = t - BaseSeq
      BY <2>2, <2>3, CommitsCounted
    <2> QED  BY <2>1, <2>2, <2>3, <2>4, FS_EmptySet DEF MemoryInv, MemoryBounded
  <1>2. MemoryInv => MemoryBounded
    BY DEF MemoryInv
  <1> QED  BY <1>1, <1>2, DeltaInductive, MemoryStep, PTL DEF Spec

-----------------------------------------------------------------------------
(* The queue *)

\* The queue is a run of consecutive commits that ends with the last one
\* admitted, and the worker holds the one before it.
QueueRun ==
  /\ Len(published_queue) <= enqueued_through
  /\ \A i \in 1..Len(published_queue) :
       published_queue[i] = (enqueued_through - Len(published_queue)) + i
  /\ popped # 0 => popped = enqueued_through - Len(published_queue)

\* Short of a hard bound, that run starts right after the coverage, or earlier.
QueueReaches ==
  ~index.hard /\ ~Direct =>
    /\ popped = 0 => enqueued_through - Len(published_queue) <= index.through
    /\ enqueued_through - Len(published_queue) <= index.through + 1

\* What the steps of the worker and the publisher do to a run.
LEMMA RunFacts ==
  ASSUME NEW q \in Seq(Nat), NEW n \in Nat, Len(q) <= n,
         \A i \in 1..Len(q) : q[i] = (n - Len(q)) + i
  PROVE  /\ Len(Append(q, n + 1)) = Len(q) + 1
         /\ \A i \in 1..Len(Append(q, n + 1)) :
              Append(q, n + 1)[i] = (n + 1 - (Len(q) + 1)) + i
         /\ q # <<>> =>
              /\ Head(q) = (n - Len(q)) + 1 /\ Len(Tail(q)) = Len(q) - 1
              /\ \A i \in 1..Len(Tail(q)) : Tail(q)[i] = (n - Len(Tail(q))) + i
  <1>1. Len(q) \in Nat /\ Len(Append(q, n + 1)) = Len(q) + 1
    OBVIOUS
  <1>2. ASSUME NEW i \in 1..(Len(q) + 1)
        PROVE  Append(q, n + 1)[i] = (n + 1 - (Len(q) + 1)) + i
    <2>1. CASE i <= Len(q)
      <3>1. Append(q, n + 1)[i] = q[i] /\ i \in 1..Len(q)
        BY <1>1, <1>2, <2>1
      <3>2. q[i] = (n - Len(q)) + i
        BY <3>1
      <3> QED  BY <1>1, <3>1, <3>2
    <2>2. CASE i = Len(q) + 1
      BY <1>1, <2>2
    <2> QED  BY <1>1, <1>2, <2>1, <2>2
  <1>3. ASSUME q # <<>>
        PROVE  /\ Head(q) = (n - Len(q)) + 1 /\ Len(Tail(q)) = Len(q) - 1
               /\ \A i \in 1..Len(Tail(q)) : Tail(q)[i] = (n - Len(Tail(q))) + i
    <2>1. Len(q) >= 1 /\ Head(q) = q[1] /\ Len(Tail(q)) = Len(q) - 1
      BY <1>1, <1>3
    <2>2. ASSUME NEW i \in 1..(Len(q) - 1) PROVE Tail(q)[i] = (n - (Len(q) - 1)) + i
      <3>1. i \in 1..Len(Tail(q)) /\ i + 1 \in 1..Len(q)
        BY <1>1, <2>1, <2>2
      <3>2. Tail(q)[i] = q[i + 1]
        BY <3>1, <1>3
      <3>3. q[i + 1] = (n - Len(q)) + (i + 1)
        BY <3>1
      <3> QED  BY <3>2, <3>3, <1>1
    <2>3. 1 \in 1..Len(q)
      BY <1>1, <2>1
    <2>4. Head(q) = (n - Len(q)) + 1
      BY <2>1, <2>3
    <2> QED  BY <2>1, <2>2, <2>4, Zenon
  <1> QED  BY <1>1, <1>2, <1>3

\* Every step keeps the run and where it starts.
LEMMA AccountStep ==
  DeltaInv /\ QueueRun /\ QueueReaches /\ [Next]_vars => QueueRun' /\ QueueReaches'
  <1> SUFFICES ASSUME DeltaInv, QueueRun, QueueReaches, [Next]_vars
               PROVE  QueueRun' /\ QueueReaches'
    OBVIOUS
  <1>1. /\ published_queue \in Seq(Nat) /\ enqueued_through \in Nat /\ popped \in Nat
        /\ index.through \in Nat
        /\ popped # 0 => worker = "index"
    BY DEF DeltaInv, QueueInv, QueueTypeOK, CallInv, WorkerTypeOK, WorkerOut, IndexInv,
           IndexTypeOK
  <1>2. ASSUME UNCHANGED <<published_queue, enqueued_through, popped>>
        PROVE  /\ QueueRun'
               /\ (Direct => Direct') /\ (index' = index \/ index'.hard \/ Direct)
                    => QueueReaches'
    BY <1>2, Zenon DEF QueueRun, QueueReaches
  <1>3. ASSUME published_queue' = <<>>, popped' = 0, enqueued_through' \in Nat,
               index'.through \in Nat, enqueued_through' <= index'.through
        PROVE  QueueRun' /\ QueueReaches'
    <2>1. Len(published_queue') = 0
      BY <1>3
    <2> QED  BY <1>3, <2>1 DEF QueueRun, QueueReaches
  <1>4. CASE Publish \/ AwaitTransition \/ ConsumeThrough \/ WorkerFinish \/ AwaitWorker
               \/ Stop \/ UNCHANGED vars
    <2>1. UNCHANGED <<published_queue, enqueued_through, popped, index>> /\ (Direct => Direct')
      BY <1>4, DirectFacts, Zenon DEF Publish, AwaitTransition, ConsumeThrough,
         WorkerFinish, AwaitWorker, Stop, vars, indexVars, queueVars, workerVars
    <2> QED  BY <2>1, <1>2
  <1>5. CASE EnqueuePublished
    <2>1. UNCHANGED <<index, popped, publisher>>
      BY <1>5, Zenon DEF EnqueuePublished
    <2>2. \/ UNCHANGED <<published_queue, enqueued_through>>
          \/ /\ published_queue' = Append(published_queue, enqueued_through + 1)
             /\ enqueued_through' = enqueued_through + 1
      BY <1>5 DEF EnqueuePublished, Refuse, queueVars
    <2>3. CASE UNCHANGED <<published_queue, enqueued_through>>
      BY <2>1, <2>3, <1>2, DirectFacts
    <2>4. CASE /\ published_queue' = Append(published_queue, enqueued_through + 1)
               /\ enqueued_through' = enqueued_through + 1
      <3>1. /\ Len(published_queue') = Len(published_queue) + 1
            /\ \A i \in 1..Len(published_queue') :
                 published_queue'[i] = (enqueued_through' - Len(published_queue')) + i
        BY <2>4, <1>1, RunFacts DEF QueueRun
      <3>2. enqueued_through' - Len(published_queue') = enqueued_through - Len(published_queue)
        BY <2>4, <3>1, <1>1
      <3>3. QueueRun'
        BY <2>1, <2>4, <3>1, <3>2, <1>1 DEF QueueRun
      <3>4. QueueReaches'
        BY <2>1, <3>2, DirectFacts, Zenon DEF QueueReaches
      <3> QED  BY <3>3, <3>4
    <2> QED  BY <2>2, <2>3, <2>4
  <1>6. CASE ObservePublished
    <2>1. Direct /\ UNCHANGED <<published_queue, enqueued_through, popped, publisher>>
      BY <1>6, Zenon DEF ObservePublished, workerVars
    <2> QED  BY <2>1, <1>2, DirectFacts
  <1>7. CASE WorkerCheck
    <2>1. /\ worker = "check" /\ UNCHANGED <<enqueued_through, index, publisher>>
          /\ \/ UNCHANGED <<popped, published_queue>>
             \/ /\ published_queue # <<>> /\ popped' = Head(published_queue)
                /\ published_queue' = Tail(published_queue)
      BY <1>7, Zenon DEF WorkerCheck, publisherVars, indexVars
    <2>2. CASE UNCHANGED <<popped, published_queue>>
      BY <2>1, <2>2, <1>2, DirectFacts
    <2>3. CASE /\ published_queue # <<>> /\ popped' = Head(published_queue)
               /\ published_queue' = Tail(published_queue)
      <3>1. /\ popped' = (enqueued_through - Len(published_queue)) + 1
            /\ Len(published_queue') = Len(published_queue) - 1
            /\ \A i \in 1..Len(published_queue') :
                 published_queue'[i] = (enqueued_through - Len(published_queue')) + i
        BY <2>3, <1>1, RunFacts DEF QueueRun
      <3>2. Len(published_queue) \in Nat /\ Len(published_queue) <= enqueued_through
        BY <1>1 DEF QueueRun
      <3>3. popped = 0
        BY <2>1, <1>1
      <3>4. QueueRun'
        BY <2>1, <3>1, <3>2, <1>1 DEF QueueRun
      <3>5. /\ popped' # 0
            /\ enqueued_through - Len(published_queue) <= index.through
                 => enqueued_through - Len(published_queue') <= index.through + 1
        BY <3>1, <3>2, <1>1
      <3>6. QueueReaches'
        BY <2>1, <3>3, <3>5, DirectFacts, Zenon DEF QueueReaches
      <3> QED  BY <3>4, <3>6
    <2> QED  BY <2>1, <2>2, <2>3
  <1>8. CASE WorkerIndex
    <2>1. popped' = 0 /\ UNCHANGED <<published_queue, enqueued_through, publisher>>
      BY <1>8, Zenon DEF WorkerIndex, publisherVars, queueVars
    <2>2. QueueRun'
      BY <2>1, Zenon DEF QueueRun
    <2>3. index \in [base : Nat, through : Nat, commits : SUBSET Nat, hard : BOOLEAN]
      BY DEF DeltaInv, IndexInv, IndexTypeOK
    <2>4. \/ popped = index.through + 1 /\ index'.hard
          \/ popped = index.through + 1 /\ index'.through = popped /\ index'.hard = index.hard
          \/ popped # index.through + 1 /\ index' = index
      BY <1>8, <2>3, Zenon DEF WorkerIndex, IndexLocked
    <2>5. Len(published_queue) \in Nat
      BY <1>1
    <2>6. ASSUME ~index'.hard, ~Direct'
          PROVE  enqueued_through - Len(published_queue) <= index'.through
      <3>1. ~index.hard /\ ~Direct
        BY <2>1, <2>4, <2>6, DirectFacts, Zenon
      <3>2. /\ popped = 0 => enqueued_through - Len(published_queue) <= index.through
            /\ enqueued_through - Len(published_queue) <= index.through + 1
            /\ popped # 0 => popped = enqueued_through - Len(published_queue)
        BY <3>1, Zenon DEF QueueReaches, QueueRun
      <3>3. \/ popped = index.through + 1 /\ index'.through = popped
            \/ popped # index.through + 1 /\ index'.through = index.through
        BY <2>4, <2>6
      <3> QED  BY <3>2, <3>3, <2>5, <1>1
    <2>7. index'.through \in Nat
      BY <2>4, <1>1, DeltaStep DEF DeltaInv, IndexInv, IndexTypeOK
    <2>8. QueueReaches'
      BY <2>1, <2>5, <2>6, <2>7, <1>1 DEF QueueReaches
    <2> QED  BY <2>2, <2>8
  <1>9. ASSUME NEW c \in Call PROVE Enter(c) => popped = 0
    BY <1>1 DEF Enter, worker_indexing
  <1>10. ASSUME NEW c \in Call, BeginTransition(c) \/ ReturnEarly(c) \/ RetireThrough(c)
         PROVE  QueueRun' /\ QueueReaches'
    <2>1. UNCHANGED <<published_queue, enqueued_through, popped>> /\ (Direct => Direct')
      BY <1>10, DirectFacts, Zenon
         DEF BeginTransition, ReturnEarly, RetireThrough, queueVars, workerVars
    <2>2. index' = index \/ index' = [index EXCEPT !.base = c.at,
                                                  !.commits = {k \in @ : k > c.at}]
      BY <1>10, Zenon DEF BeginTransition, ReturnEarly, RetireThrough, indexVars
    <2>3. index \in [base : Nat, through : Nat, commits : SUBSET Nat, hard : BOOLEAN]
      BY DEF DeltaInv, IndexInv, IndexTypeOK
    <2>4. index'.through = index.through /\ index'.hard = index.hard
      BY <2>2, <2>3, Zenon
    <2> QED  BY <2>1, <2>4, Zenon DEF QueueRun, QueueReaches
  <1>11. ASSUME NEW c \in Call, RepairThrough(c) PROVE QueueRun' /\ QueueReaches'
    <2>1. PICK k \in index.through..c.at :
            /\ index' = [index EXCEPT !.through = k,
                                      !.commits = @ \cup ((index.through + 1)..k),
                                      !.hard = @ \/ k < c.at]
            /\ IF k = c.at
               THEN published_queue' = <<>> /\ enqueued_through' = k
               ELSE UNCHANGED <<published_queue, enqueued_through>>
      BY <1>11, Zenon DEF RepairThrough, queueVars
    <2>2. popped' = popped /\ popped = 0 /\ (Direct => Direct')
      BY <1>9, <1>11, DirectFacts, Zenon DEF RepairThrough, workerVars
    <2>3. index \in [base : Nat, through : Nat, commits : SUBSET Nat, hard : BOOLEAN]
      BY DEF DeltaInv, IndexInv, IndexTypeOK
    <2>4. index'.through = k /\ (k < c.at => index'.hard)
      BY <2>1, <2>3, Zenon
    <2>5. k \in Nat /\ c.at \in Nat /\ k <= c.at
      BY <2>3, DeltaAssumption
    <2>6. CASE k = c.at
      BY <2>1, <2>2, <2>4, <2>5, <2>6, <1>3
    <2>7. CASE k < c.at
      BY <2>1, <2>2, <2>4, <2>5, <2>7, <1>2
    <2> QED  BY <2>5, <2>6, <2>7
  <1>12. ASSUME NEW c \in Call, ResetBase(c) PROVE QueueRun' /\ QueueReaches'
    <2>1. /\ popped' = popped /\ popped = 0 /\ published_queue' = <<>>
          /\ enqueued_through' = c.at
      BY <1>9, <1>12, Zenon DEF ResetBase, workerVars
    <2>2. index'.through = c.at
      BY <1>12 DEF ResetBase
    <2>3. c.at \in Nat
      BY DeltaAssumption
    <2> QED  BY <2>1, <2>2, <2>3, <1>3
  <1>13. CASE FinishRetire
    <2>1. /\ UNCHANGED <<index, published_queue, popped>> /\ (Direct => Direct')
          /\ enqueued_through' =
               IF published_queue = <<>> THEN index.through ELSE enqueued_through
          /\ transition = "retiring"
      BY <1>13, DirectFacts, Zenon DEF FinishRetire, workerVars
    <2>2. popped = 0
      BY <2>1, <1>1 DEF DeltaInv, CallInv, WorkerOut, worker_indexing
    <2>3. CASE published_queue = <<>>
      BY <2>1, <2>2, <2>3, <1>1, <1>3
    <2>4. CASE published_queue # <<>>
      BY <2>1, <2>4, <1>2
    <2> QED  BY <2>3, <2>4
  <1>14. ASSUME NEW r \in Reader,
                \/ \E s \in Seqs : s <= store_seq /\ AcquireLeaseThrough(r, s)
                \/ ReleaseLease(r) \/ DropRetired(r)
         PROVE  QueueRun' /\ QueueReaches'
    <2>1. UNCHANGED <<published_queue, enqueued_through, popped, index, publisherVars>>
      BY <1>14, Zenon DEF AcquireLeaseThrough, ReleaseLease, DropRetired, indexVars,
                          queueVars, workerVars
    <2> QED  BY <2>1, <1>2, DirectFacts
  <1> QED  BY <1>4, <1>5, <1>6, <1>7, <1>8, <1>10, <1>11, <1>12, <1>13, <1>14, Zenon
             DEF Next, Worker, Maintenance

-----------------------------------------------------------------------------
(* What was admitted *)

\* Descriptors are in increasing order and bounded by the visible sequence.
Ordered(q, n) ==
  /\ \A i \in 1..Len(q) : q[i] <= n
  /\ \A i, j \in 1..Len(q) : i < j => q[i] < q[j]

\* The append worker hands every commit over once, in order: what it still
\* holds is later than everything admitted so far.
HandedOnce ==
  /\ Ordered(published_delta, store_seq)
  /\ \A c \in admitted : c <= store_seq
  /\ \A c \in admitted : \A i \in 1..Len(published_delta) : published_delta[i] > c

\* Beyond an admitted commit that a repair has discarded nothing is queued.
NothingBeyond ==
  \A c \in admitted : c > enqueued_through => published_queue = <<>> /\ popped = 0

AdmittedInv == HandedOnce /\ NothingBeyond

\* Publishing the next commit and handing over the first keep the order.
LEMMA OrderedFacts ==
  ASSUME NEW q \in Seq(Nat), NEW n \in Nat, Ordered(q, n)
  PROVE  /\ Ordered(q, n + 1) /\ Ordered(Append(q, n + 1), n + 1)
         /\ \A c \in Nat : c <= n /\ (\A i \in 1..Len(q) : q[i] > c)
              => \A i \in 1..Len(Append(q, n + 1)) : Append(q, n + 1)[i] > c
         /\ q # <<>> =>
              /\ Head(q) <= n /\ Ordered(Tail(q), n)
              /\ \A i \in 1..Len(Tail(q)) : Tail(q)[i] > Head(q)
              /\ \A c \in Nat : (\A i \in 1..Len(q) : q[i] > c)
                   => c < Head(q) /\ \A i \in 1..Len(Tail(q)) : Tail(q)[i] > c
  <1>1. Len(q) \in Nat /\ \A i \in 1..Len(q) : q[i] \in Nat
    OBVIOUS
  <1>2. /\ Len(Append(q, n + 1)) = Len(q) + 1
        /\ \A i \in 1..Len(q) : Append(q, n + 1)[i] = q[i]
        /\ Append(q, n + 1)[Len(q) + 1] = n + 1
    OBVIOUS
  <1>3. Ordered(q, n + 1)
    BY <1>1 DEF Ordered
  <1>4. Ordered(Append(q, n + 1), n + 1)
    BY <1>1, <1>2 DEF Ordered
  <1>5. ASSUME NEW c \in Nat, c <= n, \A i \in 1..Len(q) : q[i] > c
        PROVE  \A i \in 1..Len(Append(q, n + 1)) : Append(q, n + 1)[i] > c
    BY <1>1, <1>2, <1>5
  <1>6. ASSUME q # <<>>
        PROVE  /\ Head(q) <= n /\ Ordered(Tail(q), n)
               /\ \A i \in 1..Len(Tail(q)) : Tail(q)[i] > Head(q)
               /\ \A c \in Nat : (\A i \in 1..Len(q) : q[i] > c)
                    => c < Head(q) /\ \A i \in 1..Len(Tail(q)) : Tail(q)[i] > c
    <2>1. /\ Len(q) >= 1 /\ Head(q) = q[1] /\ Len(Tail(q)) = Len(q) - 1
          /\ \A i \in 1..(Len(q) - 1) : Tail(q)[i] = q[i + 1]
      BY <1>1, <1>6
    <2>2. Head(q) <= n /\ Ordered(Tail(q), n)
      BY <1>1, <2>1 DEF Ordered
    <2>3. \A i \in 1..Len(Tail(q)) : Tail(q)[i] > Head(q)
      BY <1>1, <2>1 DEF Ordered
    <2>4. \A c \in Nat : (\A i \in 1..Len(q) : q[i] > c)
            => c < Head(q) /\ \A i \in 1..Len(Tail(q)) : Tail(q)[i] > c
      BY <1>1, <2>1
    <2> QED  BY <2>2, <2>3, <2>4
  <1> QED  BY <1>3, <1>4, <1>5, <1>6

\* Every step keeps the order of the handover and leaves nothing beyond what a
\* repair has discarded.
LEMMA AdmittedStep == DeltaInv /\ AdmittedInv /\ [Next]_vars => AdmittedInv'
  <1> SUFFICES ASSUME DeltaInv, AdmittedInv, [Next]_vars PROVE AdmittedInv'
    OBVIOUS
  <1>1. /\ published_delta \in Seq(Nat) /\ store_seq \in Nat /\ admitted \in SUBSET Nat
        /\ enqueued_through \in Nat /\ popped \in Nat /\ index.through \in Nat
        /\ HandedOnce /\ NothingBeyond
    BY DEF DeltaInv, PublisherTypeOK, QueueInv, QueueTypeOK, CallInv, WorkerTypeOK,
           IndexInv, IndexTypeOK, AdmittedInv
  <1>2. ASSUME UNCHANGED <<store_seq, published_delta, admitted>> PROVE HandedOnce'
    BY <1>1, <1>2, Zenon DEF HandedOnce, Ordered
  <1>3. ASSUME UNCHANGED <<admitted, enqueued_through, published_queue, popped>>
        PROVE  NothingBeyond'
    BY <1>1, <1>3, Zenon DEF NothingBeyond
  <1>4. ASSUME published_queue' = <<>>, popped' = 0 PROVE NothingBeyond'
    BY <1>4, Zenon DEF NothingBeyond
  <1>5. CASE AwaitTransition \/ ConsumeThrough \/ WorkerFinish \/ AwaitWorker \/ Stop
               \/ UNCHANGED vars
    <2>1. UNCHANGED <<store_seq, published_delta, admitted, enqueued_through,
                      published_queue, popped>>
      BY <1>5, Zenon DEF AwaitTransition, ConsumeThrough, WorkerFinish, AwaitWorker,
         Stop, vars, publisherVars, queueVars, workerVars
    <2> QED  BY <2>1, <1>2, <1>3, Zenon DEF AdmittedInv
  <1>6. CASE Publish
    <2>1. /\ store_seq' = store_seq + 1
          /\ \/ published_delta' = Append(published_delta, store_seq + 1)
             \/ UNCHANGED published_delta
          /\ UNCHANGED <<admitted, enqueued_through, published_queue, popped>>
      BY <1>6, Zenon DEF Publish, queueVars, workerVars
    <2>2. Ordered(published_delta, store_seq)
      BY <1>1 DEF HandedOnce
    <2>3. Ordered(published_delta', store_seq')
      BY <2>1, <2>2, <1>1, OrderedFacts
    <2>4. ASSUME NEW c \in admitted
          PROVE  /\ c <= store_seq'
                 /\ \A i \in 1..Len(published_delta') : published_delta'[i] > c
      <3>1. /\ c \in Nat /\ c <= store_seq
            /\ \A i \in 1..Len(published_delta) : published_delta[i] > c
        BY <1>1 DEF HandedOnce
      <3>2. c <= store_seq'
        BY <2>1, <3>1, <1>1
      <3> QED  BY <2>1, <2>2, <3>1, <3>2, <1>1, OrderedFacts
    <2>5. HandedOnce'
      BY <2>1, <2>3, <2>4, Zenon DEF HandedOnce
    <2> QED  BY <2>1, <2>5, <1>3 DEF AdmittedInv
  <1>7. CASE EnqueuePublished \/ ObservePublished
    <2>1. /\ published_delta # <<>> /\ published_delta' = Tail(published_delta)
          /\ UNCHANGED <<store_seq, popped>>
          /\ \/ UNCHANGED <<admitted, enqueued_through, published_queue>>
             \/ /\ Head(published_delta) = enqueued_through + 1
                /\ admitted' = admitted \cup {Head(published_delta)}
                /\ enqueued_through' = Head(published_delta)
      BY <1>7 DEF EnqueuePublished, ObservePublished, Refuse, queueVars, workerVars
    <2>2. PICK h \in Nat : h = Head(published_delta)
      BY <2>1, <1>1, DeltaSeqFacts
    <2>3. Ordered(published_delta, store_seq)
      BY <1>1 DEF HandedOnce
    <2>4. /\ h <= store_seq /\ Ordered(published_delta', store_seq')
          /\ \A i \in 1..Len(published_delta') : published_delta'[i] > h
      BY <2>1, <2>2, <2>3, <1>1, OrderedFacts
    <2>5. ASSUME NEW c \in admitted
          PROVE  /\ c \in Nat /\ c <= store_seq /\ c < h
                 /\ \A i \in 1..Len(published_delta') : published_delta'[i] > c
      <3>1. /\ c \in Nat /\ c <= store_seq
            /\ \A i \in 1..Len(published_delta) : published_delta[i] > c
        BY <1>1 DEF HandedOnce
      <3> QED  BY <2>1, <2>2, <2>3, <3>1, <1>1, OrderedFacts
    <2>6. \A c \in admitted' : c \in admitted \/ c = h
      <3>1. UNCHANGED admitted \/ admitted' = admitted \cup {h}
        BY <2>1, <2>2, Zenon
      <3> QED  BY <3>1
    <2>7. HandedOnce'
      BY <2>1, <2>4, <2>5, <2>6, Zenon DEF HandedOnce
    <2>8. NothingBeyond'
      <3>1. CASE UNCHANGED <<admitted, enqueued_through, published_queue>>
        BY <2>1, <3>1, <1>3
      <3>2. CASE /\ h = enqueued_through + 1
                 /\ enqueued_through' = h
        <4>1. \A c \in admitted' : ~(c > enqueued_through')
          BY <2>5, <2>6, <3>2
        <4> QED  BY <4>1 DEF NothingBeyond
      <3> QED  BY <2>1, <2>2, <3>1, <3>2
    <2> QED  BY <2>7, <2>8 DEF AdmittedInv
  <1>8. CASE WorkerCheck \/ WorkerIndex
    <2>1. /\ UNCHANGED <<store_seq, published_delta, admitted, enqueued_through>>
          /\ published_queue = <<>> => published_queue' = <<>>
          /\ published_queue = <<>> /\ popped = 0 => popped' = 0
      BY <1>8, Zenon DEF WorkerCheck, WorkerIndex, publisherVars, queueVars
    <2>2. NothingBeyond'
      BY <2>1, <1>1, Zenon DEF NothingBeyond
    <2> QED  BY <2>1, <2>2, <1>2, Zenon DEF AdmittedInv
  <1>9. ASSUME NEW c \in Call, BeginTransition(c) \/ ReturnEarly(c) \/ RetireThrough(c)
        PROVE  AdmittedInv'
    <2>1. UNCHANGED <<store_seq, published_delta, admitted, enqueued_through,
                      published_queue, popped>>
      BY <1>9, Zenon DEF BeginTransition, ReturnEarly, RetireThrough, publisherVars,
         queueVars, workerVars
    <2> QED  BY <2>1, <1>2, <1>3, Zenon DEF AdmittedInv
  <1>10. ASSUME NEW c \in Call, RepairThrough(c) PROVE AdmittedInv'
    <2>1. /\ Enter(c) /\ UNCHANGED <<store_seq, published_delta, admitted, popped>>
          /\ published_queue' = <<>> \/ UNCHANGED <<enqueued_through, published_queue>>
      BY <1>10, Zenon DEF RepairThrough, queueVars, workerVars
    <2>2. popped = 0
      BY <2>1, EnterFacts
    <2> QED  BY <2>1, <2>2, <1>2, <1>3, <1>4, Zenon DEF AdmittedInv
  <1>11. ASSUME NEW c \in Call, ResetBase(c) PROVE AdmittedInv'
    <2>1. admitted' = {} /\ UNCHANGED <<store_seq, published_delta>>
      BY <1>11, Zenon DEF ResetBase
    <2>2. Ordered(published_delta', store_seq')
      BY <2>1, <1>1, Zenon DEF HandedOnce
    <2> QED  BY <2>1, <2>2, Zenon DEF AdmittedInv, HandedOnce, NothingBeyond
  <1>12. CASE FinishRetire
    <2>1. /\ UNCHANGED <<store_seq, published_delta, admitted, published_queue, popped>>
          /\ published_queue # <<>> => UNCHANGED enqueued_through
          /\ transition = "retiring"
      BY <1>12, Zenon DEF FinishRetire, workerVars
    <2>2. popped = 0
      BY <2>1 DEF DeltaInv, CallInv, WorkerOut, worker_indexing
    <2> QED  BY <2>1, <2>2, <1>2, <1>3, <1>4, Zenon DEF AdmittedInv
  <1>13. ASSUME NEW r \in Reader,
                \/ \E s \in Seqs : s <= store_seq /\ AcquireLeaseThrough(r, s)
                \/ ReleaseLease(r) \/ DropRetired(r)
         PROVE  AdmittedInv'
    <2>1. UNCHANGED <<store_seq, published_delta, admitted, enqueued_through,
                      published_queue, popped>>
      BY <1>13, Zenon DEF AcquireLeaseThrough, ReleaseLease, DropRetired, publisherVars,
         queueVars, workerVars
    <2> QED  BY <2>1, <1>2, <1>3, Zenon DEF AdmittedInv
  <1> QED  BY <1>5, <1>6, <1>7, <1>8, <1>9, <1>10, <1>11, <1>12, <1>13, Zenon
             DEF Next, Worker, Maintenance

\* Short of a hard bound, a commit EnqueuePublished has admitted is indexed,
\* queued or in the worker's hands, or RepairThrough has discarded it; in that
\* case nothing after it is queued, and nothing still to come can be the next
\* commit the tail admits.
THEOREM AdmittedCorrect == Spec => []AdmittedAccounted
  <1>1. Init => QueueRun /\ QueueReaches /\ AdmittedInv
    <2> SUFFICES ASSUME Init PROVE QueueRun /\ QueueReaches /\ AdmittedInv
      OBVIOUS
    <2>1. PICK t \in {BaseSeq, RecoveredSeq} :
            /\ index = [base |-> BaseSeq, through |-> t,
                        commits |-> (BaseSeq + 1)..t, hard |-> FALSE]
            /\ enqueued_through = t
      BY DEF Init
    <2>2. t \in Nat /\ index.through = t /\ Len(published_queue) = 0 /\ popped = 0
      BY <2>1, DeltaAssumption DEF Init
    <2>3. QueueRun /\ QueueReaches
      BY <2>1, <2>2 DEF QueueRun, QueueReaches
    <2>4. AdmittedInv
      BY DEF Init, AdmittedInv, HandedOnce, NothingBeyond, Ordered
    <2> QED  BY <2>3, <2>4
  <1>2. DeltaInv /\ QueueRun /\ QueueReaches /\ AdmittedInv => AdmittedAccounted
    <2> SUFFICES ASSUME DeltaInv, QueueRun, QueueReaches, AdmittedInv,
                        ~index.hard, ~Direct, NEW c \in admitted,
                        ~(c <= index.through)
                 PROVE  \/ c = popped
                        \/ \E i \in 1..Len(published_queue) : published_queue[i] = c
                        \/ /\ c > enqueued_through
                           /\ published_queue = <<>> /\ popped = 0
                           /\ \A i \in 1..Len(published_delta) : published_delta[i] > c
      BY Zenon DEF AdmittedAccounted
    <2>1. /\ published_queue \in Seq(Nat) /\ enqueued_through \in Nat /\ popped \in Nat
          /\ index.through \in Nat /\ Len(published_queue) \in Nat /\ c \in Nat
      BY DEF DeltaInv, QueueInv, QueueTypeOK, CallInv, WorkerTypeOK, IndexInv, IndexTypeOK
    <2>2. CASE c > enqueued_through
      BY <2>2, Zenon DEF AdmittedInv, HandedOnce, NothingBeyond
    <2>3. CASE c <= enqueued_through
      <3> DEFINE i == c - (enqueued_through - Len(published_queue))
      <3>1. /\ popped = 0 => enqueued_through - Len(published_queue) <= index.through
            /\ enqueued_through - Len(published_queue) <= index.through + 1
            /\ popped # 0 => popped = enqueued_through - Len(published_queue)
        BY Zenon DEF QueueReaches, QueueRun
      <3>2. c = popped \/ i \in 1..Len(published_queue)
        BY <2>1, <2>3, <3>1
      <3>3. ASSUME i \in 1..Len(published_queue) PROVE published_queue[i] = c
        <4>1. published_queue[i] = (enqueued_through - Len(published_queue)) + i
          BY <3>3 DEF QueueRun
        <4> QED  BY <4>1, <2>1
      <3> QED  BY <3>2, <3>3
    <2> QED  BY <2>1, <2>2, <2>3
  <1> QED  BY <1>1, <1>2, DeltaInductive, AccountStep, AdmittedStep, PTL DEF Spec
=============================================================================

----------------------------- MODULE QueryDelta -----------------------------
(***************************************************************************)
(* The query delta: the derived, in-memory tail of commits behind a        *)
(* projection base.                                                        *)
(*                                                                         *)
(* The append worker hands every published commit over a bounded queue to  *)
(* an indexing thread (EnqueuePublished, WorkerMain).  Maintenance calls   *)
(* repair, retire or reset the tail; they wait out a popped descriptor     *)
(* and hold off the publisher meanwhile.  Queries take leases on a         *)
(* contiguous prefix of the tail.                                          *)
(*                                                                         *)
(* A descriptor is its commit sequence and weighs one unit of memory.      *)
(***************************************************************************)
EXTENDS Integers, Sequences, FiniteSets

CONSTANTS
  Reader,        \* query threads
  MaxSeq,        \* bound on the commits the store publishes
  BaseSeq,       \* base of the projection found by Database::Open
  RecoveredSeq,  \* visible sequence recovered by Database::Open
  Call,          \* the maintenance calls that may be issued, with their targets
  QueueCapacity, \* queue_capacity
  HardMemory,    \* hard_memory_bytes
  MaxLag         \* max_lag_commits

ASSUME DeltaAssumption ==
  /\ IsFiniteSet(Reader)
  /\ MaxSeq \in Nat /\ BaseSeq \in Nat /\ RecoveredSeq \in Nat
  /\ RecoveredSeq <= MaxSeq
  /\ Call \subseteq [op : {"repair", "retire", "reset"}, at : 0..MaxSeq]
  /\ QueueCapacity \in Nat \ {0} /\ HardMemory \in Nat /\ MaxLag \in Nat

VARIABLES
  store_seq,         \* the store's visible sequence
  published_delta,   \* descriptors the append worker has yet to hand over
  publisher,         \* "run", "blocked" on published_cv_, or "direct"
  index,             \* [base, through, commits, hard]: what mutex_ guards
  first_missing,     \* first_missing_value_, 0: no gap
  visible_seq,       \* visible_seq_value_
  published_queue, enqueued_through, queue_size,
  admitted,          \* history: what was queued since the last reset
  worker,            \* "check", "asleep", "index", "finish", "done"
  popped,            \* the descriptor the worker holds
  stopping,
  transition,        \* "none", "waiting", "woken", "retiring"
  call,              \* the maintenance call that set lifecycle_transition_
  lease,             \* lease[r]: the lease of query thread r
  active_leases, retired

publisherVars == <<store_seq, published_delta, publisher>>
indexVars == <<index, first_missing, visible_seq>>
queueVars == <<published_queue, enqueued_through, queue_size, admitted>>
workerVars == <<worker, popped, stopping>>
callVars == <<transition, call>>
leaseVars == <<lease, active_leases, retired>>
vars == <<publisherVars, indexVars, queueVars, workerVars, callVars, leaseVars>>

Seqs == 0..MaxSeq
NoCall == [op |-> "none", at |-> 0]
NoLease == [state |-> "none", base |-> 0, through |-> 0,
            commits |-> {}, events |-> {}, cached |-> FALSE]
\* The publisher indexes its own commits, with ObservePublished, for good.
Direct == publisher = "direct"
worker_indexing == worker \in {"index", "finish"}

\* RetireThrough, between its two steps, holds queue_mutex_ and mutex_.
Locked == transition = "retiring"

\* SetMissingLocked: only an earlier gap replaces a recorded one.
SetMissingLocked(missing, c) == IF missing = 0 \/ c < missing THEN c ELSE missing

AdvanceVisible(c) == visible_seq' = IF visible_seq < c THEN c ELSE visible_seq

\* Coverage that reaches the recorded gap clears it.
ClearMissing(missing, through) == IF missing <= through THEN 0 ELSE missing

\* The hard bounds admit n more commits.
Admits(n) ==
  /\ Cardinality(index.commits) + n + Cardinality(retired) <= HardMemory
  /\ Cardinality(index.commits) + n <= MaxLag

IndexLocked_Eager(c) ==
  IF Admits(0)
  THEN /\ index' = [index EXCEPT !.through = c, !.commits = @ \cup {c}]
       /\ first_missing' = ClearMissing(first_missing, c)
  ELSE /\ index' = [index EXCEPT !.hard = TRUE]
       /\ first_missing' = SetMissingLocked(first_missing, c)

\* IndexLocked, without the advance of visible_seq_value_ its callers add: the
\* commit is indexed, or a hard bound is hit and the commit becomes the gap.
IndexLocked(c) ==
  IF Admits(1)
  THEN /\ index' = [index EXCEPT !.through = c, !.commits = @ \cup {c}]
       /\ first_missing' = ClearMissing(first_missing, c)
  ELSE /\ index' = [index EXCEPT !.hard = TRUE]
       /\ first_missing' = SetMissingLocked(first_missing, c)

\* Database::Open: the tail is rebuilt from the sequence records, or, when
\* that fails, reset to the projection base.  A base ahead of the recovered
\* sequence is taken as it is.
Init ==
  /\ store_seq = RecoveredSeq
  /\ published_delta = <<>> /\ publisher \in {"run", "direct"}
  /\ \E through \in {BaseSeq, RecoveredSeq} :
       /\ BaseSeq <= through
       /\ through - BaseSeq <= HardMemory /\ through - BaseSeq <= MaxLag
       /\ index = [base |-> BaseSeq, through |-> through,
                   commits |-> (BaseSeq + 1)..through, hard |-> FALSE]
       /\ visible_seq = through /\ enqueued_through = through
  /\ first_missing = 0
  /\ published_queue = <<>> /\ queue_size = 0 /\ admitted = {}
  /\ worker = "check" /\ popped = 0 /\ stopping = FALSE
  /\ transition = "none" /\ call = NoCall
  /\ lease = [r \in Reader |-> NoLease] /\ active_leases = 0 /\ retired = {}

-----------------------------------------------------------------------------
(* The publisher *)

\* A commit becomes visible.  The append worker prepares its descriptor; the
\* finalization of a prepared commit does not.
Publish ==
  /\ ~stopping /\ store_seq < MaxSeq
  /\ store_seq' = store_seq + 1
  /\ \/ published_delta' = Append(published_delta, store_seq + 1)
     \/ UNCHANGED published_delta
  /\ UNCHANGED <<publisher, indexVars, queueVars, workerVars, callVars, leaseVars>>

WakeWorker_Never == UNCHANGED worker

\* A sleeping worker is only woken for the first descriptor of an idle queue.
WakeWorker ==
  worker' = IF worker = "asleep" /\ published_queue = <<>> THEN "check" ELSE worker

Refuse_Counts(c) ==
  /\ first_missing' = SetMissingLocked(first_missing, enqueued_through + 1)
  /\ AdvanceVisible(c)
  /\ enqueued_through' = c
  /\ UNCHANGED <<published_queue, queue_size, admitted, worker>>

\* A descriptor out of order, or one too many, becomes a gap after the last one
\* that was admitted.
Refuse(c) ==
  /\ first_missing' = SetMissingLocked(first_missing, enqueued_through + 1)
  /\ AdvanceVisible(c)
  /\ UNCHANGED <<queueVars, worker>>

\* EnqueuePublished without a transition in progress.
EnqueuePublished ==
  /\ published_delta # <<>> /\ publisher = "run" /\ transition = "none"
  /\ published_delta' = Tail(published_delta)
  /\ LET c == Head(published_delta)
         expected == enqueued_through + 1
     IN \/ /\ c <= index.base
           /\ UNCHANGED <<first_missing, visible_seq, queueVars, worker>>
        \/ /\ c > index.base
           /\ c # expected \/ Len(published_queue) >= QueueCapacity
           /\ Refuse(c)
        \/ /\ c > index.base /\ c = expected
           /\ Len(published_queue) < QueueCapacity
           /\ published_queue' = Append(published_queue, c)
           /\ enqueued_through' = c /\ admitted' = admitted \cup {c}
           /\ AdvanceVisible(c)
           /\ WakeWorker
           /\ UNCHANGED <<first_missing, queue_size>>
  /\ UNCHANGED <<store_seq, publisher, index, popped, stopping, callVars, leaseVars>>

\* EnqueuePublished waits on published_cv_ for the end of a transition.
AwaitTransition ==
  /\ published_delta # <<>> /\ publisher = "run"
  /\ transition \in {"waiting", "woken"}
  /\ publisher' = "blocked"
  /\ UNCHANGED <<store_seq, published_delta, indexVars, queueVars, workerVars,
                 callVars, leaseVars>>

\* ObservePublished indexes on the caller's thread.
ObservePublished ==
  /\ Direct /\ published_delta # <<>> /\ ~Locked
  /\ published_delta' = Tail(published_delta)
  /\ LET c == Head(published_delta)
         expected == index.through + 1
     IN \/ /\ c <= index.base
           /\ UNCHANGED <<indexVars, queue_size>>
        \/ /\ c > index.base /\ c # expected
           /\ first_missing' = SetMissingLocked(first_missing, expected)
           /\ AdvanceVisible(c)
           /\ UNCHANGED <<index, queue_size>>
        \/ /\ c > index.base /\ c = expected /\ queue_size >= QueueCapacity
           /\ first_missing' = SetMissingLocked(first_missing, c)
           /\ AdvanceVisible(c)
           /\ UNCHANGED <<index, queue_size>>
        \/ /\ c > index.base /\ c = expected /\ queue_size < QueueCapacity
           /\ IndexLocked(c)
           /\ AdvanceVisible(c)
           /\ queue_size' = IF Admits(1) THEN queue_size + 1 ELSE queue_size
  /\ UNCHANGED <<store_seq, publisher, published_queue, enqueued_through, admitted,
                 workerVars, callVars, leaseVars>>

\* ConsumeThrough returns the descriptor permits.
ConsumeThrough ==
  /\ ~stopping /\ ~Locked /\ queue_size # 0
  /\ queue_size' = 0
  /\ UNCHANGED <<publisherVars, indexVars, published_queue, enqueued_through, admitted,
                 workerVars, callVars, leaseVars>>

-----------------------------------------------------------------------------
(* The indexing thread *)

\* The wait predicate under queue_mutex_: pop, exit or sleep.
WorkerCheck ==
  /\ worker = "check" /\ ~Locked
  /\ \/ /\ published_queue # <<>>
        /\ popped' = Head(published_queue)
        /\ published_queue' = Tail(published_queue)
        /\ worker' = "index"
     \/ /\ published_queue = <<>>
        /\ worker' = IF stopping THEN "done" ELSE "asleep"
        /\ UNCHANGED <<popped, published_queue>>
  /\ UNCHANGED <<publisherVars, indexVars, enqueued_through, queue_size, admitted,
                 stopping, callVars, leaseVars>>

WorkerIndex_Unchecked ==
  /\ worker = "index"
  /\ IndexLocked(popped)
  /\ AdvanceVisible(IF Admits(1) THEN popped ELSE 0)
  /\ worker' = "finish" /\ popped' = 0
  /\ UNCHANGED <<publisherVars, queueVars, stopping, callVars, leaseVars>>

\* Under mutex_: only the next commit is indexed.
WorkerIndex ==
  /\ worker = "index"
  /\ \/ /\ popped = index.through + 1
        /\ IndexLocked(popped)
        /\ AdvanceVisible(IF Admits(1) THEN popped ELSE 0)
     \/ /\ popped # index.through + 1
        /\ first_missing' = SetMissingLocked(first_missing, index.through + 1)
        /\ UNCHANGED <<index, visible_seq>>
  /\ worker' = "finish" /\ popped' = 0
  /\ UNCHANGED <<publisherVars, queueVars, stopping, callVars, leaseVars>>

WorkerFinish_Silent ==
  /\ worker = "finish"
  /\ worker' = "check"
  /\ UNCHANGED <<publisherVars, indexVars, queueVars, popped, stopping, callVars,
                 leaseVars>>

\* worker_indexing_ is cleared and a waiting transition is notified.
WorkerFinish ==
  /\ worker = "finish"
  /\ worker' = "check"
  /\ transition' = IF transition = "waiting" THEN "woken" ELSE transition
  /\ UNCHANGED <<publisherVars, indexVars, queueVars, popped, stopping, call,
                 leaseVars>>

-----------------------------------------------------------------------------
(* Maintenance *)

\* The calls a maintenance thread can issue: every target is a sequence some
\* snapshot of the store covers.
CanCall(c) == ~stopping /\ c \in Call /\ c.at <= store_seq

\* lifecycle_transition_ is set while the worker holds a descriptor.
BeginTransition(c) ==
  /\ transition = "none" /\ CanCall(c) /\ worker_indexing
  /\ transition' = "waiting" /\ call' = c
  /\ UNCHANGED <<publisherVars, indexVars, queueVars, workerVars, leaseVars>>

\* Woken, but the worker has popped the next descriptor already.
AwaitWorker ==
  /\ transition = "woken" /\ worker_indexing
  /\ transition' = "waiting"
  /\ UNCHANGED <<publisherVars, indexVars, queueVars, workerVars, call, leaseVars>>

\* Call c owns queue_mutex_ and mutex_ with no descriptor in the worker's hands.
Enter(c) ==
  /\ ~worker_indexing
  /\ \/ transition = "none" /\ CanCall(c)
     \/ transition = "woken" /\ c = call

\* LifecycleTransitionGuard ends the transition and wakes the publisher.
EndTransition ==
  /\ transition' = "none" /\ call' = NoCall
  /\ publisher' = IF Direct THEN publisher ELSE "run"

\* lease_index_cache_ is emptied: no later lease shares an index built before.
ClearIndexCache == [r \in Reader |-> [lease[r] EXCEPT !.cached = FALSE]]

\* The tail is rebuilt from sequence records up to the target, or up to the
\* first commit the hard bounds refuse.
RepairThrough(c) ==
  /\ c.op = "repair" /\ Enter(c) /\ c.at > index.through
  /\ \E k \in index.through..c.at :
       /\ k > index.through => Admits(k - index.through)
       /\ k < c.at => ~Admits(k + 1 - index.through)
       /\ index' = [index EXCEPT !.through = k,
                                 !.commits = @ \cup ((index.through + 1)..k),
                                 !.hard = @ \/ k < c.at]
       /\ IF k = c.at
          THEN /\ first_missing' = ClearMissing(first_missing, k)
               /\ published_queue' = <<>> /\ enqueued_through' = k
               /\ queue_size' = 0 /\ UNCHANGED admitted
          ELSE /\ first_missing' =
                    SetMissingLocked(ClearMissing(first_missing, k), k + 1)
               /\ UNCHANGED queueVars
       /\ AdvanceVisible(k)
  /\ EndTransition
  /\ UNCHANGED <<store_seq, published_delta, workerVars, leaseVars>>

\* A call that returns early: the target is covered already, exceeds the
\* budget or cannot be read, or the retirement is outside the coverage.
ReturnEarly(c) ==
  /\ c.op # "reset" /\ Enter(c)
  /\ c.op = "retire" => c.at < index.base \/ c.at > index.through
  /\ EndTransition
  /\ UNCHANGED <<store_seq, published_delta, indexVars, queueVars, workerVars,
                 leaseVars>>

RetireThrough_KeepsCache(c) ==
  /\ c.op = "retire" /\ Enter(c)
  /\ index.base <= c.at /\ c.at <= index.through
  /\ index' = [index EXCEPT !.base = c.at,
                            !.commits = {k \in @ : k > c.at}]
  /\ retired' = retired \cup {k \in index.commits : k <= c.at}
  /\ transition' = "retiring" /\ call' = c
  /\ UNCHANGED <<publisherVars, first_missing, visible_seq, queueVars, workerVars,
                 lease, active_leases>>

\* The chunks at or below the new base move to the retired list.
RetireThrough(c) ==
  /\ c.op = "retire" /\ Enter(c)
  /\ index.base <= c.at /\ c.at <= index.through
  /\ index' = [index EXCEPT !.base = c.at,
                            !.commits = {k \in @ : k > c.at}]
  /\ retired' = retired \cup {k \in index.commits : k <= c.at}
  /\ lease' = ClearIndexCache
  /\ transition' = "retiring" /\ call' = c
  /\ UNCHANGED <<publisherVars, first_missing, visible_seq, queueVars, workerVars,
                 active_leases>>

FinishRetire_KeepsRetired ==
  /\ transition = "retiring"
  /\ queue_size' = 0
  /\ enqueued_through' =
       IF published_queue = <<>> THEN index.through ELSE enqueued_through
  /\ first_missing' = ClearMissing(first_missing, call.at)
  /\ EndTransition
  /\ UNCHANGED <<store_seq, published_delta, index, visible_seq, published_queue,
                 admitted, workerVars, lease, active_leases, retired>>

\* Without an active lease the retired list is dropped at once.
FinishRetire ==
  /\ transition = "retiring"
  /\ retired' = IF active_leases = 0 THEN {} ELSE retired
  /\ queue_size' = 0
  /\ enqueued_through' =
       IF published_queue = <<>> THEN index.through ELSE enqueued_through
  /\ first_missing' = ClearMissing(first_missing, call.at)
  /\ EndTransition
  /\ UNCHANGED <<store_seq, published_delta, index, visible_seq, published_queue,
                 admitted, workerVars, lease, active_leases>>

\* The tail starts anew at the given base.
ResetBase(c) ==
  /\ c.op = "reset" /\ Enter(c)
  /\ index' = [base |-> c.at, through |-> c.at, commits |-> {}, hard |-> FALSE]
  /\ visible_seq' = c.at
  /\ first_missing' = 0
  /\ published_queue' = <<>> /\ enqueued_through' = c.at /\ queue_size' = 0
  /\ admitted' = {}
  /\ lease' = ClearIndexCache
  /\ retired' = {}
  /\ EndTransition
  /\ UNCHANGED <<store_seq, published_delta, workerVars, active_leases>>

-----------------------------------------------------------------------------
(* Leases *)

\* The tail covers (base, s] without a recorded gap.
Covers(s) ==
  /\ index.base <= s /\ s <= index.through
  /\ first_missing = 0 \/ first_missing > s
  /\ ~index.hard

\* AcquireLeaseThrough; AcquireThrough returns a copy of the same commits.  The
\* sorted event index is shared with a live lease of the same snapshot, unless
\* lease_index_cache_ has evicted it.
AcquireLeaseThrough(r, s) ==
  /\ ~stopping /\ lease[r].state = "none" /\ ~Locked /\ Covers(s)
  /\ LET visible == {k \in index.commits : index.base < k /\ k <= s}
         shared == {q \in Reader : lease[q].cached /\ lease[q].through = s}
     IN \E events \in {visible} \cup {lease[q].events : q \in shared} :
          lease' = [lease EXCEPT ![r] =
                      [state |-> "held", base |-> index.base, through |-> s,
                       commits |-> visible, events |-> events, cached |-> TRUE]]
  /\ active_leases' = active_leases + 1
  /\ UNCHANGED <<publisherVars, indexVars, queueVars, workerVars, callVars, retired>>

\* The last lease goes on to drop the retired list.
ReleaseLease(r) ==
  /\ lease[r].state = "held"
  /\ active_leases' = active_leases - 1
  /\ lease' = [lease EXCEPT ![r] = [NoLease EXCEPT !.state =
                 IF active_leases = 1 THEN "dropping" ELSE "none"]]
  /\ UNCHANGED <<publisherVars, indexVars, queueVars, workerVars, callVars, retired>>

DropRetired(r) ==
  /\ lease[r].state = "dropping"
  /\ retired' = {}
  /\ lease' = [lease EXCEPT ![r] = NoLease]
  /\ UNCHANGED <<publisherVars, indexVars, queueVars, workerVars, callVars,
                 active_leases>>

\* The destructor, after the append pipeline has stopped.
Stop ==
  /\ ~stopping /\ published_delta = <<>> /\ transition = "none"
  /\ stopping' = TRUE
  /\ worker' = IF worker = "asleep" THEN "check" ELSE worker
  /\ UNCHANGED <<publisherVars, indexVars, queueVars, popped, callVars, leaseVars>>

-----------------------------------------------------------------------------

Worker == WorkerCheck \/ WorkerIndex \/ WorkerFinish

Maintenance ==
  \/ \E c \in Call :
       \/ BeginTransition(c) \/ RepairThrough(c) \/ ReturnEarly(c)
       \/ RetireThrough(c) \/ ResetBase(c)
  \/ AwaitWorker
  \/ FinishRetire

Next ==
  \/ Publish \/ EnqueuePublished \/ AwaitTransition
  \/ ObservePublished \/ ConsumeThrough
  \/ Worker
  \/ Maintenance
  \/ \E r \in Reader :
       \/ \E s \in Seqs : s <= store_seq /\ AcquireLeaseThrough(r, s)
       \/ ReleaseLease(r) \/ DropRetired(r)
  \/ Stop

Spec == Init /\ [][Next]_vars

\* The indexing thread and the append worker are never stopped by others; a
\* maintenance call that has begun goes on when it is woken.  Retirements, which
\* keep the mutexes from the worker, come to an end.
FairSpec ==
  /\ Spec
  /\ WF_vars(Worker)
  /\ WF_vars(EnqueuePublished \/ AwaitTransition)
  /\ WF_vars(transition # "none" /\ Maintenance)
  /\ <>[][transition' = "retiring" => transition = "retiring"]_vars

-----------------------------------------------------------------------------
(* Properties *)

PublisherTypeOK ==
  /\ store_seq \in Nat /\ published_delta \in Seq(Nat)
  /\ publisher \in {"run", "blocked", "direct"}

IndexTypeOK ==
  /\ index \in [base : Nat, through : Nat, commits : SUBSET Nat, hard : BOOLEAN]
  /\ first_missing \in Nat /\ visible_seq \in Nat

QueueTypeOK ==
  /\ published_queue \in Seq(Nat)
  /\ enqueued_through \in Nat /\ queue_size \in Nat /\ admitted \in SUBSET Nat

WorkerTypeOK ==
  /\ worker \in {"check", "asleep", "index", "finish", "done"}
  /\ popped \in Nat /\ stopping \in BOOLEAN

CallTypeOK ==
  /\ transition \in {"none", "waiting", "woken", "retiring"}
  /\ call \in Call \cup {NoCall}
  /\ transition # "none" => call \in Call

LeaseTypeOK ==
  /\ lease \in [Reader -> [state : {"none", "held", "dropping"}, base : Nat,
                           through : Nat, commits : SUBSET Nat,
                           events : SUBSET Nat, cached : BOOLEAN]]
  /\ active_leases \in Nat /\ retired \in SUBSET Nat

\* Every variable of the delta keeps its type; in particular the count of
\* active leases never falls below zero.
TypeOK ==
  /\ PublisherTypeOK /\ IndexTypeOK /\ QueueTypeOK
  /\ WorkerTypeOK /\ CallTypeOK /\ LeaseTypeOK

\* The indexed commits are exactly those after the base up to indexed_through_,
\* and a recorded gap lies beyond them (past a hard bound, when no lease is
\* given any more, it need not): whatever order commits, repairs, retirements
\* and resets come in, the tail never has a hole.
CoverageContiguous ==
  /\ index.base <= index.through
  /\ index.commits = (index.base + 1)..index.through
  /\ first_missing # 0 /\ ~index.hard => first_missing > index.through

\* A lease holds, and its event index refers to, exactly the commits after its
\* base up to its snapshot: a cached index never outlives a change of base.
LeaseExact ==
  \A r \in Reader : lease[r].state = "held" =>
    /\ lease[r].commits = (lease[r].base + 1)..lease[r].through
    /\ lease[r].events = lease[r].commits

\* What becomes of a commit EnqueuePublished admitted, short of a hard bound,
\* past which no lease is given until a reset.  It is indexed, queued or in the
\* worker's hands, unless a repair to a target before it has discarded it with
\* the rest of the queue and set enqueued_through_ back.  Then nothing after it
\* is queued either until the coverage has reached it: every descriptor still to
\* come is a later one, which is refused and recorded as the gap.
AdmittedAccounted ==
  ~index.hard /\ ~Direct =>
    \A c \in admitted :
      \/ c <= index.through
      \/ c = popped
      \/ \E i \in 1..Len(published_queue) : published_queue[i] = c
      \/ /\ c > enqueued_through
         /\ published_queue = <<>> /\ popped = 0
         /\ \A i \in 1..Len(published_delta) : published_delta[i] > c

\* IndexLocked keeps live and retired chunks together within the hard bounds.
MemoryBounded ==
  /\ Cardinality(index.commits) + Cardinality(retired) <= HardMemory
  /\ Cardinality(index.commits) <= MaxLag

\* Retired chunks do not outlive the leases: RetireThrough or the last lease's
\* release drops them.
NoRetiredLeak ==
  retired # {} => \/ transition = "retiring"
                  \/ \E r \in Reader : lease[r].state # "none"

\* The worker serves its queue and its destructor: a queued descriptor is
\* popped, for an enqueue that finds the worker asleep wakes it, and the join
\* of Stop returns.
WorkerServes ==
  /\ published_queue # <<>> ~> published_queue = <<>>
  /\ stopping ~> worker = "done"

\* A maintenance call that waits for the worker gets its turn, although the
\* worker may pop again before the call wakes.
TransitionEnds == transition # "none" ~> transition = "none"
=============================================================================

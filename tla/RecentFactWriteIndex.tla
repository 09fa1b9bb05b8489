------------------------ MODULE RecentFactWriteIndex ------------------------
(***************************************************************************)
(* The bounded index that lets commit validation skip a canonical scan     *)
(* (src/storage/facts/recent_fact_write_index.cc): set-associative exact   *)
(* slots with the latest sequence of an identity, and FilterCount rolling  *)
(* Bloom windows over the sequences.  The index is a value: the operators  *)
(* map an index to the index after the call.                               *)
(*                                                                         *)
(* A Bloom filter is the set of the identities added to it.  A false       *)
(* positive only turns "unchanged" into "unknown"; callers of this module  *)
(* may always ignore a proof, which is what a false positive amounts to.   *)
(***************************************************************************)
EXTENDS Integers

CONSTANTS
  Fact,          \* fact identities
  Bucket,        \* exact buckets
  BucketOf,      \* the hash of an identity
  SlotCount,     \* slots of a bucket (4; 0: the budget holds no bucket)
  FilterCount,   \* kFilterCount (4; 0: the budget holds no filter)
  Window,        \* window_sequences_
  MaxIdentities, \* max_identities_per_filter_
  Top            \* the largest sequence, 2^64 - 1

ASSUME IndexAssumption ==
  /\ Fact # {}
  /\ BucketOf \in [Fact -> Bucket]
  /\ {SlotCount, FilterCount, Top} \subseteq Nat
  /\ {Window, MaxIdentities} \subseteq Nat \ {0}

VARIABLES
  index,    \* the index
  written   \* history: the <<identity, sequence>> pairs of every write

Slots == 1..SlotCount
Filters == 1..FilterCount
Larger(m, n) == IF m < n THEN n ELSE m
First(S) == CHOOSE i \in S : \A j \in S : i <= j

EmptySlot == [occupied |-> FALSE, identity |-> CHOOSE f \in Fact : TRUE, latest |-> 0]
EmptyBucket == [slots |-> [i \in Slots |-> EmptySlot], next_replace |-> 0]
InactiveFilter == [active |-> FALSE, first |-> 0, last |-> 0, through |-> 0,
                   identities |-> 0, members |-> {}]

\* A fresh index, which knows nothing of the writes up to start.
NewIndex(start) ==
  [filters |-> [i \in Filters |-> InactiveFilter],
   buckets |-> [b \in Bucket |-> EmptyBucket],
   anchor |-> IF start = Top THEN start ELSE start + 1,
   exact_coverage |-> start, coverage |-> start, latest |-> start]

\* The slots of an identity, at most one of which is occupied by it.
Holding(slots, f) == {i \in Slots : slots[i].occupied /\ slots[i].identity = f}

PublishExact(bucket, f, seq) ==
  LET held == Holding(bucket.slots, f)
      empty == {i \in Slots : ~bucket.slots[i].occupied}
      entry == [occupied |-> TRUE, identity |-> f, latest |-> seq]
  IN IF SlotCount = 0 THEN bucket
     ELSE IF held # {} THEN
       [bucket EXCEPT !.slots[First(held)].latest = Larger(@, seq)]
     ELSE IF empty # {} THEN [bucket EXCEPT !.slots[First(empty)] = entry]
     ELSE [slots |-> [bucket.slots EXCEPT ![bucket.next_replace + 1] = entry],
           next_replace |-> (bucket.next_replace + 1) % SlotCount]

WindowStart(ix, seq) ==
  IF seq <= ix.anchor THEN ix.anchor
  ELSE ix.anchor + ((seq - ix.anchor) \div Window) * Window

\* The filters whose window holds a sequence; FindFilter returns the first.
FindFilter(ix, seq) ==
  {i \in Filters : /\ ix.filters[i].active
                   /\ seq >= ix.filters[i].first
                   /\ seq <= ix.filters[i].last}

Clear(first) ==
  [active |-> TRUE, first |-> first,
   last |-> IF Top - first < Window - 1 THEN Top ELSE first + Window - 1,
   through |-> IF first = 0 THEN 0 ELSE first - 1,
   identities |-> 0, members |-> {}]

\* The filter ActivateFilter returns: a free one, or the one with the lowest
\* window.
Activated(ix) ==
  LET free == {i \in Filters : ~ix.filters[i].active}
  IN IF free # {} THEN First(free)
     ELSE First({i \in Filters :
                   \A j \in Filters : ix.filters[i].first <= ix.filters[j].first})

\* What reusing a filter that may hold writes up to its last one costs.
ActivateFilter_ForgetsRolled(ix, first) ==
  LET i == Activated(ix)
      old == ix.filters[i]
  IN [ix EXCEPT !.coverage = IF old.active THEN Larger(@, old.last) ELSE @,
                !.filters[i] = Clear(first)]

ActivateFilter(ix, first) ==
  LET i == Activated(ix)
      old == ix.filters[i]
  IN [ix EXCEPT !.coverage = IF old.active
                             THEN Larger(@, Larger(old.last, old.through)) ELSE @,
                !.filters[i] = Clear(first)]

\* Closes a full filter for new identities, or drops the proofs about older
\* snapshots when its window is this one sequence.
RollFilter(ix, i, seq) ==
  ActivateFilter(
    IF seq > ix.filters[i].first
    THEN [ix EXCEPT !.filters[i].last = seq - 1]
    ELSE [ix EXCEPT !.coverage = Larger(@, seq)],
    seq)

\* An identity added to filter i, which is rolled when it is full.
AddTo(ix, i, f, seq) ==
  LET filter == [ix.filters[i] EXCEPT !.members = @ \cup {f},
                                      !.identities = @ + 1,
                                      !.through = Larger(@, seq)]
      added == [ix EXCEPT !.filters[i] = filter, !.latest = Larger(@, seq)]
  IN IF filter.identities >= MaxIdentities
     THEN RollFilter(added, i, seq)
     ELSE added

\* The exact half of Publish: an out-of-order publication drops every slot.
ExactPublished(ix, f, seq) ==
  IF seq < ix.latest
  THEN [ix EXCEPT !.buckets = [b \in Bucket |-> EmptyBucket],
                  !.exact_coverage = ix.latest]
  ELSE [ix EXCEPT !.buckets[BucketOf[f]] = PublishExact(@, f, seq)]

\* An out-of-order publication below the coverage drops every window.
WindowsReset(ix, seq) ==
  IF seq < ix.coverage
  THEN [ix EXCEPT !.filters = [i \in Filters |-> [ix.filters[i] EXCEPT !.active = FALSE,
                                                                       !.members = {}]],
                  !.coverage = ix.latest]
  ELSE ix

Publish(ix, f, seq) ==
  LET exact == ExactPublished(ix, f, seq)
      reset == WindowsReset(exact, seq)
      found == FindFilter(reset, seq)
  IN IF FilterCount = 0 THEN [exact EXCEPT !.latest = Larger(@, seq)]
     ELSE IF found # {} THEN AddTo(reset, First(found), f, seq)
     ELSE AddTo(ActivateFilter(reset, WindowStart(reset, seq)), Activated(reset), f, seq)

CanProveUnchanged(ix, f, snapshot) ==
  LET slots == ix.buckets[BucketOf[f]].slots
      held == Holding(slots, f)
  IN IF snapshot >= ix.exact_coverage /\ held # {}
     THEN slots[First(held)].latest <= snapshot
     ELSE /\ FilterCount # 0
          /\ snapshot >= ix.coverage
          /\ \A i \in Filters : \/ ~ix.filters[i].active
                                \/ ix.filters[i].through <= snapshot
                                \/ f \notin ix.filters[i].members

-----------------------------------------------------------------------------
(***************************************************************************)
(* The index under arbitrary calls.  Publication is expected in sequence   *)
(* order but the class promises safety without it.                         *)
(***************************************************************************)
IndexInit ==
  \E start \in 0..Top :
    /\ index = NewIndex(start)
    /\ written \in SUBSET (Fact \X (1..start))

PublishWrite(f, seq) ==
  /\ index' = Publish(index, f, seq)
  /\ written' = written \cup {<<f, seq>>}

\* A reopened store builds the index anew at its visible watermark.
RebuildIndex(start) ==
  /\ start >= index.latest
  /\ index' = NewIndex(start)
  /\ UNCHANGED written

IndexNext ==
  \/ \E f \in Fact, seq \in 1..Top : PublishWrite(f, seq)
  \/ \E start \in 0..Top : RebuildIndex(start)

IndexSpec == IndexInit /\ [][IndexNext]_<<index, written>>

\* "Unchanged" is never wrong: when CanProveUnchanged answers TRUE for a
\* snapshot, no write of the identity has a later sequence, whatever slots
\* were evicted and whatever windows were rolled, reused or dropped since.
ProofsSound ==
  \A f \in Fact, snapshot \in 0..Top :
    CanProveUnchanged(index, f, snapshot) =>
      \A w \in written : w[1] = f => w[2] <= snapshot
=============================================================================

----------------------- MODULE ValidationCachesLemmas -----------------------
(***************************************************************************)
(* CanProveUnchanged is never wrong, for every number of slots, filters,   *)
(* identities and publications in any order; and what a step of a commit   *)
(* does to the caches, the rows and the locks around it.                   *)
(*                                                                         *)
(* The index keeps Known: an occupied slot is the only one of its identity *)
(* and bounds every write of it, and a write above the coverage is in an   *)
(* active window.  ProofsSound alone is not inductive, because it is       *)
(* silent about writes that nothing can be proved of yet.                  *)
(*                                                                         *)
(* The steps of the store are sorted into moves of one actor (Moves).      *)
(* Locks, Typed, Past and Logged are the parts of the invariant that do    *)
(* not look at chains: publisher_mutex has one holder, what a validation   *)
(* captured lies in the past, and every visible row is in the filters.     *)
(***************************************************************************)
EXTENDS ValidationCaches, TLAPS

LOCAL INSTANCE WellFoundedInduction

-----------------------------------------------------------------------------
(* The recent-write index. *)

FilterType == [active : BOOLEAN, first : Nat, last : Nat, through : Nat,
               identities : Nat, members : SUBSET Fact]
SlotType == [occupied : BOOLEAN, identity : Fact, latest : Nat]
BucketType == [slots : [Slots -> SlotType], next_replace : Nat]
IndexType == [filters : [Filters -> FilterType], buckets : [Bucket -> BucketType],
              anchor : Nat, exact_coverage : Nat, coverage : Nat, latest : Nat]
Writes == Fact \X Nat

\* The round robin stays inside the bucket.
Replaceable(ix) ==
  SlotCount # 0 => \A b \in Bucket : ix.buckets[b].next_replace < SlotCount

\* The slot of an identity is unique and bounds its writes.
ExactBounds(ix, W) ==
  \A f \in Fact :
    LET cells == ix.buckets[BucketOf[f]].slots
    IN /\ \A i, j \in Holding(cells, f) : i = j
       /\ \A i \in Holding(cells, f), w \in W : w[1] = f => w[2] <= cells[i].latest

\* A write above the coverage is in an active window.
Recorded(ix, w) ==
  \E i \in Filters : /\ ix.filters[i].active
                     /\ w[1] \in ix.filters[i].members
                     /\ w[2] <= ix.filters[i].through
WindowsCover(ix, W) ==
  FilterCount # 0 => \A w \in W : w[2] > ix.coverage => Recorded(ix, w)

Known(ix, W) ==
  /\ ix \in IndexType
  /\ W \subseteq Writes
  /\ Replaceable(ix)
  /\ \A w \in W : w[2] <= ix.latest
  /\ ExactBounds(ix, W)
  /\ WindowsCover(ix, W)

-----------------------------------------------------------------------------
\* The first of some numbers is one of them, and the least.
LEMMA FirstIn ==
  ASSUME NEW S, S \subseteq Nat, S # {}
  PROVE  First(S) \in S /\ \A j \in S : First(S) <= j
<1>1. PICK i \in S : \A j \in S : ~(<<j, i>> \in OpToRel(<, Nat))
  BY NatLessThanWellFounded, WFMin
<1>2. \A j \in S : ~(j < i)
  BY <1>1, Zenon DEF OpToRel
<1>3. \A j \in S : i <= j
  BY <1>2
<1>4. QED
  BY <1>3 DEF First

\* Some filter has the lowest window, so ActivateFilter always returns one.
LEMMA ActivatedIn ==
  ASSUME NEW ix \in IndexType, FilterCount # 0
  PROVE  Activated(ix) \in Filters
<1> DEFINE free == {i \in Filters : ~ix.filters[i].active}
           firsts == {ix.filters[i].first : i \in Filters}
           lowest == {i \in Filters :
                        \A j \in Filters : ix.filters[i].first <= ix.filters[j].first}
<1>1. CASE free # {}
  <2>1. free \subseteq Nat
    BY IndexAssumption DEF Filters
  <2>2. First(free) \in free
    BY <1>1, <2>1, FirstIn
  <2>3. QED
    BY <1>1, <2>2 DEF Activated
<1>2. CASE free = {}
  <2>1. 1 \in Filters
    BY IndexAssumption DEF Filters
  <2>2. firsts \subseteq Nat /\ firsts # {}
    BY <2>1 DEF IndexType, FilterType
  <2>3. First(firsts) \in firsts /\ \A n \in firsts : First(firsts) <= n
    BY <2>2, FirstIn
  <2>4. PICK i \in Filters : ix.filters[i].first = First(firsts)
    BY <2>3
  <2>5. i \in lowest
    BY <2>3, <2>4
  <2>6. lowest \subseteq Nat
    BY IndexAssumption DEF Filters
  <2>7. First(lowest) \in lowest
    BY <2>5, <2>6, FirstIn
  <2>8. QED
    BY <1>2, <2>7 DEF Activated
<1>3. QED
  BY <1>1, <1>2

LEMMA ClearType ==
  ASSUME NEW first \in Nat
  PROVE  Clear(first) \in FilterType
BY IndexAssumption DEF Clear, FilterType

\* Reusing a filter keeps the windows honest: what it held is below the new
\* coverage.  Nothing else of the index changes.
LEMMA ActivateKeeps ==
  ASSUME NEW ix \in IndexType, NEW W, W \subseteq Writes, NEW first \in Nat,
         FilterCount # 0, WindowsCover(ix, W)
  PROVE  LET next == ActivateFilter(ix, first)
         IN /\ next \in IndexType
            /\ WindowsCover(next, W)
            /\ next.filters[Activated(ix)] = Clear(first)
            /\ next.buckets = ix.buckets
            /\ next.latest = ix.latest
<1> DEFINE i == Activated(ix)
           old == ix.filters[i]
           next == ActivateFilter(ix, first)
<1>1. i \in Filters
  BY ActivatedIn
<1>2. old \in FilterType
  BY <1>1 DEF IndexType
<1>3. /\ next.coverage = IF old.active THEN Larger(ix.coverage, Larger(old.last, old.through))
                                       ELSE ix.coverage
      /\ next.filters = [ix.filters EXCEPT ![i] = Clear(first)]
      /\ next.buckets = ix.buckets
      /\ next.latest = ix.latest
      /\ next \in IndexType
  BY <1>1, <1>2, ClearType DEF ActivateFilter, IndexType, FilterType, Larger
<1>4. next.coverage \in Nat /\ ix.coverage \in Nat /\ next.coverage >= ix.coverage
  BY <1>2, <1>3 DEF IndexType, FilterType, Larger
<1>5. ASSUME NEW w \in W, w[2] > next.coverage
      PROVE  Recorded(next, w)
  <2>1. w[2] \in Nat
    BY DEF Writes
  <2>2. PICK j \in Filters : /\ ix.filters[j].active
                             /\ w[1] \in ix.filters[j].members
                             /\ w[2] <= ix.filters[j].through
    BY <1>4, <1>5, <2>1 DEF WindowsCover, Recorded
  <2>3. j # i
    BY <1>2, <1>3, <1>4, <1>5, <2>1, <2>2 DEF FilterType, IndexType, Larger
  <2>4. next.filters[j] = ix.filters[j]
    BY <1>3, <2>3 DEF IndexType
  <2>5. QED
    BY <2>2, <2>4 DEF Recorded
<1>6. next.filters[i] = Clear(first)
  BY <1>1, <1>3 DEF IndexType
<1>7. QED
  BY <1>3, <1>5, <1>6 DEF WindowsCover

\* Rolling a full filter loses no write: closing its window does not change
\* what it has recorded, and the other case only raises the coverage.
LEMMA RollKeeps ==
  ASSUME NEW ix \in IndexType, NEW W, W \subseteq Writes, NEW i \in Filters,
         NEW seq \in Nat, FilterCount # 0, WindowsCover(ix, W)
  PROVE  LET next == RollFilter(ix, i, seq)
         IN /\ next \in IndexType
            /\ WindowsCover(next, W)
            /\ next.buckets = ix.buckets
            /\ next.latest = ix.latest
<1> DEFINE closed == IF seq > ix.filters[i].first
                     THEN [ix EXCEPT !.filters[i].last = seq - 1]
                     ELSE [ix EXCEPT !.coverage = Larger(@, seq)]
<1>1. ix.filters[i] \in FilterType
  BY DEF IndexType
<1>2. CASE seq > ix.filters[i].first
  <2> DEFINE shut == [ix.filters[i] EXCEPT !.last = seq - 1]
  <2>a. /\ shut \in FilterType
        /\ shut.active = ix.filters[i].active
        /\ shut.members = ix.filters[i].members
        /\ shut.through = ix.filters[i].through
    BY <1>1, <1>2 DEF FilterType
  <2>b. closed = [ix EXCEPT !.filters = [ix.filters EXCEPT ![i] = shut]]
    BY <1>2
  <2> HIDE DEF shut, closed
  <2>c. /\ closed \in IndexType
        /\ closed.filters = [ix.filters EXCEPT ![i] = shut]
        /\ closed.coverage = ix.coverage
        /\ closed.buckets = ix.buckets
        /\ closed.latest = ix.latest
    BY <2>a, <2>b DEF IndexType
  <2>d. ix.filters \in [Filters -> FilterType]
    BY DEF IndexType
  <2>1. \A j \in Filters : /\ closed.filters[j].active = ix.filters[j].active
                           /\ closed.filters[j].members = ix.filters[j].members
                           /\ closed.filters[j].through = ix.filters[j].through
    BY <2>a, <2>c, <2>d
  <2>2. WindowsCover(closed, W)
    BY <2>1, <2>c DEF WindowsCover, Recorded
  <2>3. RollFilter(ix, i, seq) = ActivateFilter(closed, seq)
    BY DEF RollFilter, closed
  <2>4. QED
    BY <2>c, <2>2, <2>3, ActivateKeeps
<1>3. CASE ~(seq > ix.filters[i].first)
  <2>1. /\ closed \in IndexType
        /\ closed.coverage >= ix.coverage
        /\ closed.buckets = ix.buckets
        /\ closed.latest = ix.latest
        /\ closed.filters = ix.filters
    BY <1>1, <1>3 DEF IndexType, Larger
  <2>2. closed.coverage \in Nat /\ ix.coverage \in Nat
    BY <2>1 DEF IndexType
  <2>3. WindowsCover(closed, W)
    <3>1. SUFFICES ASSUME NEW w \in W, w[2] > closed.coverage
                   PROVE  Recorded(closed, w)
      BY DEF WindowsCover
    <3>2. w[2] > ix.coverage
      BY <2>1, <2>2, <3>1 DEF Writes
    <3>3. QED
      BY <2>1, <3>2 DEF WindowsCover, Recorded
  <2>4. RollFilter(ix, i, seq) = ActivateFilter(closed, seq)
    BY DEF RollFilter
  <2> HIDE DEF closed
  <2>5. QED
    BY <2>1, <2>3, <2>4, ActivateKeeps
<1>4. QED
  BY <1>2, <1>3

\* A write added to an active filter is recorded, also when that fills it.
LEMMA AddKeeps ==
  ASSUME NEW ix \in IndexType, NEW W, W \subseteq Writes, NEW i \in Filters,
         NEW f \in Fact, NEW seq \in Nat, FilterCount # 0,
         ix.filters[i].active, WindowsCover(ix, W)
  PROVE  /\ AddTo(ix, i, f, seq) \in IndexType
         /\ WindowsCover(AddTo(ix, i, f, seq), W \cup {<<f, seq>>})
         /\ AddTo(ix, i, f, seq).buckets = ix.buckets
         /\ AddTo(ix, i, f, seq).latest = Larger(ix.latest, seq)
<1> DEFINE filter == [ix.filters[i] EXCEPT !.members = @ \cup {f},
                                           !.identities = @ + 1,
                                           !.through = Larger(@, seq)]
           added == [ix EXCEPT !.filters[i] = filter, !.latest = Larger(@, seq)]
           now == W \cup {<<f, seq>>}
<1>1. ix.filters[i] \in FilterType
  BY DEF IndexType
<1>2. /\ filter \in FilterType
      /\ filter.active = ix.filters[i].active
      /\ filter.members = ix.filters[i].members \cup {f}
      /\ filter.through = Larger(ix.filters[i].through, seq)
  <2> DEFINE r == ix.filters[i]
             m == r.members \cup {f}
             n == r.identities + 1
             t == Larger(r.through, seq)
  <2>1. r \in FilterType /\ m \in SUBSET Fact /\ n \in Nat /\ t \in Nat
    BY <1>1 DEF FilterType, Larger
  <2>2. filter = [r EXCEPT !.members = m, !.identities = n, !.through = t]
    OBVIOUS
  <2> HIDE DEF filter, r, m, n, t
  <2>3. filter \in FilterType /\ filter.active = r.active
    BY <2>1, <2>2 DEF FilterType
  <2>4. filter.members = m /\ filter.through = t
    BY <2>1, <2>2 DEF FilterType
  <2>5. QED
    BY <2>3, <2>4 DEF r, m, t
<1>3. AddTo(ix, i, f, seq) = IF filter.identities >= MaxIdentities
                             THEN RollFilter(added, i, seq) ELSE added
  BY DEF AddTo
<1> HIDE DEF filter
<1>4. /\ added \in IndexType
      /\ added.coverage = ix.coverage
      /\ added.buckets = ix.buckets
      /\ added.latest = Larger(ix.latest, seq)
      /\ added.filters[i] = filter
      /\ \A j \in Filters \ {i} : added.filters[j] = ix.filters[j]
  <2>1. Larger(ix.latest, seq) \in Nat
    BY DEF IndexType, Larger
  <2>2. [ix.filters EXCEPT ![i] = filter] \in [Filters -> FilterType]
    BY <1>2 DEF IndexType
  <2>3. added = [ix EXCEPT !.filters = [ix.filters EXCEPT ![i] = filter],
                           !.latest = Larger(ix.latest, seq)]
    OBVIOUS
  <2>4. added \in IndexType /\ added.filters = [ix.filters EXCEPT ![i] = filter]
    BY <2>1, <2>2, <2>3 DEF IndexType
  <2>5. QED
    BY <2>3, <2>4 DEF IndexType
<1> HIDE DEF added
<1>5. now \subseteq Writes
  BY DEF Writes
<1>6. ASSUME NEW w \in now, w[2] > added.coverage
      PROVE  Recorded(added, w)
  <2>1. CASE w = <<f, seq>>
    <3>1. w[1] = f /\ w[2] = seq /\ added.filters[i].active
      BY <1>2, <1>4, <2>1
    <3>2. f \in added.filters[i].members /\ seq <= added.filters[i].through
      BY <1>1, <1>2, <1>4 DEF FilterType, Larger
    <3>3. QED
      BY <3>1, <3>2 DEF Recorded
  <2>2. CASE w \in W
    <3>1. w[2] \in Nat
      BY <2>2 DEF Writes
    <3>2. PICK j \in Filters : /\ ix.filters[j].active
                               /\ w[1] \in ix.filters[j].members
                               /\ w[2] <= ix.filters[j].through
      BY <1>4, <1>6, <2>2 DEF WindowsCover, Recorded
    <3>3. /\ added.filters[j].active
          /\ w[1] \in added.filters[j].members
          /\ w[2] <= added.filters[j].through
      <4>1. CASE j = i
        <5>1. added.filters[j].active
          BY <1>2, <1>4, <3>2, <4>1
        <5>2. w[1] \in added.filters[j].members
          BY <1>2, <1>4, <3>2, <4>1
        <5>3. w[2] <= added.filters[j].through
          BY <1>1, <1>2, <1>4, <3>1, <3>2, <4>1 DEF FilterType, Larger
        <5>4. QED
          BY <5>1, <5>2, <5>3
      <4>2. CASE j # i
        BY <1>4, <3>2, <4>2
      <4>3. QED
        BY <4>1, <4>2
    <3>4. QED
      BY <3>3 DEF Recorded
  <2>3. QED
    BY <2>1, <2>2
<1>7. WindowsCover(added, now)
  BY <1>6 DEF WindowsCover
<1>8. CASE filter.identities >= MaxIdentities
  BY <1>3, <1>4, <1>5, <1>7, <1>8, RollKeeps
<1>9. CASE ~(filter.identities >= MaxIdentities)
  BY <1>3, <1>4, <1>7, <1>9
<1>10. QED
  BY <1>8, <1>9

\* Dropping every window raises the coverage over every write there was.
LEMMA ResetKeeps ==
  ASSUME NEW ix \in IndexType, NEW W, W \subseteq Writes, NEW seq \in Nat,
         \A w \in W : w[2] <= ix.latest, WindowsCover(ix, W)
  PROVE  LET next == WindowsReset(ix, seq)
         IN /\ next \in IndexType
            /\ WindowsCover(next, W)
            /\ next.buckets = ix.buckets
            /\ next.latest = ix.latest
<1> DEFINE cleared == [i \in Filters |-> [ix.filters[i] EXCEPT !.active = FALSE,
                                                             !.members = {}]]
           next == WindowsReset(ix, seq)
<1>1. CASE seq < ix.coverage
  <2>1. cleared \in [Filters -> FilterType]
    <3>1. ASSUME NEW r \in FilterType
          PROVE  [r EXCEPT !.active = FALSE, !.members = {}] \in FilterType
      BY DEF FilterType
    <3>2. QED
      BY <3>1 DEF IndexType
  <2>2. next = [ix EXCEPT !.filters = cleared, !.coverage = ix.latest]
    BY <1>1 DEF WindowsReset
  <2> HIDE DEF cleared, next
  <2>3. /\ next \in IndexType
        /\ next.coverage = ix.latest
        /\ next.buckets = ix.buckets
        /\ next.latest = ix.latest
    BY <2>1, <2>2 DEF IndexType
  <2>4. \A w \in W : ~(w[2] > next.coverage)
    BY <2>3 DEF IndexType, Writes
  <2>5. QED
    BY <2>3, <2>4 DEF WindowsCover, next
<1>2. CASE ~(seq < ix.coverage)
  BY <1>2 DEF WindowsReset
<1>3. QED
  BY <1>1, <1>2

LEMMA EmptyBucketType ==
  EmptyBucket \in BucketType /\ \A f : Holding(EmptyBucket.slots, f) = {}
<1>1. EmptySlot \in SlotType /\ EmptySlot.occupied = FALSE
  BY IndexAssumption DEF EmptySlot, SlotType
<1>2. QED
  BY <1>1 DEF EmptyBucket, BucketType, Holding

\* What publishing an identity into its bucket does: its slot, the only one,
\* has the new sequence or a later one, and no other identity gains a slot.
SlotPublished(bucket, next, f, seq) ==
  /\ next \in BucketType
  /\ SlotCount # 0 => next.next_replace < SlotCount
  /\ \A i, j \in Holding(next.slots, f) : i = j
  /\ \A i \in Holding(next.slots, f) : next.slots[i].latest >= seq
  /\ \A g \in Fact \ {f} : \A i \in Holding(next.slots, g) :
       i \in Holding(bucket.slots, g) /\ next.slots[i] = bucket.slots[i]

LEMMA BucketKeeps ==
  ASSUME NEW bucket \in BucketType, NEW f \in Fact, NEW seq \in Nat,
         SlotCount # 0 => bucket.next_replace < SlotCount,
         \A i, j \in Holding(bucket.slots, f) : i = j,
         NEW next, next = PublishExact(bucket, f, seq)
  PROVE  SlotPublished(bucket, next, f, seq)
<1> DEFINE held == Holding(bucket.slots, f)
           empty == {i \in Slots : ~bucket.slots[i].occupied}
           entry == [occupied |-> TRUE, identity |-> f, latest |-> seq]
<1>1. held \subseteq Nat /\ empty \subseteq Nat
  BY IndexAssumption DEF Slots, Holding
<1>2. entry \in SlotType /\ entry.occupied = TRUE /\ entry.identity = f /\ entry.latest = seq
  BY DEF SlotType
<1>3. bucket.slots \in [Slots -> SlotType] /\ bucket.next_replace \in Nat
  BY DEF BucketType
<1> HIDE DEF entry
<1>4. CASE SlotCount = 0
  <2>1. next = bucket /\ Slots = {}
    BY <1>4 DEF PublishExact, Slots
  <2>2. QED
    BY <1>4, <2>1 DEF SlotPublished, Holding
<1>5. ASSUME NEW k \in Slots, held = {}, NEW n \in Nat, n < SlotCount,
             next = [slots |-> [bucket.slots EXCEPT ![k] = entry], next_replace |-> n]
      PROVE  SlotPublished(bucket, next, f, seq)
  <2>1. /\ next \in BucketType
        /\ next.next_replace = n
        /\ next.slots = [bucket.slots EXCEPT ![k] = entry]
    BY <1>2, <1>3, <1>5 DEF BucketType
  <2>2. next.slots[k] = entry /\ \A i \in Slots \ {k} : next.slots[i] = bucket.slots[i]
    BY <1>3, <2>1
  <2>3. \A i \in Holding(next.slots, f) : i = k
    BY <1>5, <2>2 DEF Holding
  <2>4. \A g \in Fact \ {f} : \A i \in Holding(next.slots, g) : i \in Slots \ {k}
    BY <1>2, <2>2 DEF Holding
  <2>5. \A g \in Fact \ {f} : \A i \in Holding(next.slots, g) :
          i \in Holding(bucket.slots, g) /\ next.slots[i] = bucket.slots[i]
    BY <2>2, <2>4 DEF Holding
  <2>6. QED
    BY <1>2, <1>5, <2>1, <2>2, <2>3, <2>5 DEF SlotPublished
<1>6. CASE SlotCount # 0 /\ held # {}
  <2> DEFINE k == First(held)
             slot == [bucket.slots[k] EXCEPT !.latest = Larger(@, seq)]
  <2>1. k \in held
    BY <1>1, <1>6, FirstIn
  <2>2. k \in Slots /\ bucket.slots[k] \in SlotType /\ bucket.slots[k].identity = f
    BY <1>3, <2>1 DEF Holding
  <2>3. /\ slot \in SlotType
        /\ slot.occupied = bucket.slots[k].occupied
        /\ slot.identity = f
        /\ slot.latest >= seq
    BY <2>2 DEF SlotType, Larger
  <2>4. next = [bucket EXCEPT !.slots = [bucket.slots EXCEPT ![k] = slot]]
    BY <1>6 DEF PublishExact
  <2> HIDE DEF slot
  <2>5. /\ next \in BucketType
        /\ next.slots = [bucket.slots EXCEPT ![k] = slot]
        /\ next.next_replace = bucket.next_replace
    BY <1>3, <2>2, <2>3, <2>4 DEF BucketType
  <2>6. next.slots[k] = slot /\ \A i \in Slots \ {k} : next.slots[i] = bucket.slots[i]
    BY <1>3, <2>2, <2>5
  <2>7. \A i \in Holding(next.slots, f) : i = k
    BY <2>1, <2>6 DEF Holding
  <2>8. \A g \in Fact \ {f} : \A i \in Holding(next.slots, g) : i \in Slots \ {k}
    BY <2>3, <2>6 DEF Holding
  <2>9. \A g \in Fact \ {f} : \A i \in Holding(next.slots, g) :
          i \in Holding(bucket.slots, g) /\ next.slots[i] = bucket.slots[i]
    BY <2>6, <2>8 DEF Holding
  <2>10. QED
    BY <2>3, <2>5, <2>6, <2>7, <2>9 DEF SlotPublished
<1>7. CASE SlotCount # 0 /\ held = {} /\ empty # {}
  <2>1. First(empty) \in Slots
    BY <1>1, <1>7, FirstIn
  <2>2. next = [bucket EXCEPT !.slots = [bucket.slots EXCEPT ![First(empty)] = entry]]
    BY <1>7 DEF PublishExact, entry
  <2>3. next = [slots |-> [bucket.slots EXCEPT ![First(empty)] = entry],
                next_replace |-> bucket.next_replace]
    BY <1>3, <2>2 DEF BucketType
  <2>4. QED
    BY <1>3, <1>5, <1>7, <2>1, <2>3
<1>8. CASE SlotCount # 0 /\ held = {} /\ empty = {}
  <2>1. bucket.next_replace + 1 \in Slots
    BY <1>3, <1>8, IndexAssumption DEF Slots
  <2>2. /\ (bucket.next_replace + 1) % SlotCount \in Nat
        /\ (bucket.next_replace + 1) % SlotCount < SlotCount
    BY <1>3, <1>8, IndexAssumption
  <2>3. next = [slots |-> [bucket.slots EXCEPT ![bucket.next_replace + 1] = entry],
                next_replace |-> (bucket.next_replace + 1) % SlotCount]
    BY <1>8 DEF PublishExact, entry
  <2>4. QED
    BY <1>5, <1>8, <2>1, <2>2, <2>3
<1>9. QED
  BY <1>4, <1>6, <1>7, <1>8

\* The exact half of Publish accounts for the new write and leaves the other
\* half of the index alone.
LEMMA ExactKeeps ==
  ASSUME NEW ix \in IndexType, NEW W, W \subseteq Writes, NEW f \in Fact,
         NEW seq \in Nat, Replaceable(ix), \A w \in W : w[2] <= ix.latest,
         ExactBounds(ix, W)
  PROVE  LET next == ExactPublished(ix, f, seq)
         IN /\ next \in IndexType
            /\ next.filters = ix.filters
            /\ next.coverage = ix.coverage
            /\ next.latest = ix.latest
            /\ Replaceable(next)
            /\ ExactBounds(next, W \cup {<<f, seq>>})
<1> DEFINE next == ExactPublished(ix, f, seq)
           now == W \cup {<<f, seq>>}
<1>1. CASE seq < ix.latest
  <2> DEFINE blank == [b \in Bucket |-> EmptyBucket]
  <2>1. next = [ix EXCEPT !.buckets = blank, !.exact_coverage = ix.latest]
    BY <1>1 DEF ExactPublished
  <2>2. blank \in [Bucket -> BucketType]
    BY EmptyBucketType
  <2>3. /\ next \in IndexType
        /\ next.filters = ix.filters
        /\ next.coverage = ix.coverage
        /\ next.latest = ix.latest
        /\ next.buckets = blank
    <3> HIDE DEF blank, next
    <3> QED
      BY <2>1, <2>2 DEF IndexType
  <2> HIDE DEF next
  <2>4. Replaceable(next)
    BY <2>3, IndexAssumption DEF Replaceable, EmptyBucket
  <2>5. \A g \in Fact : Holding(next.buckets[BucketOf[g]].slots, g) = {}
    BY <2>3, EmptyBucketType, IndexAssumption
  <2>6. ExactBounds(next, now)
    BY <2>5 DEF ExactBounds
  <2>7. QED
    BY <2>3, <2>4, <2>6 DEF next
<1>2. CASE ~(seq < ix.latest)
  <2> DEFINE b == BucketOf[f]
             bucket == PublishExact(ix.buckets[b], f, seq)
  <2>1. b \in Bucket /\ ix.buckets[b] \in BucketType
    BY IndexAssumption DEF IndexType
  <2>2. /\ bucket \in BucketType
        /\ SlotCount # 0 => bucket.next_replace < SlotCount
        /\ \A i, j \in Holding(bucket.slots, f) : i = j
        /\ \A i \in Holding(bucket.slots, f) : bucket.slots[i].latest >= seq
        /\ \A g \in Fact \ {f} : \A i \in Holding(bucket.slots, g) :
             /\ i \in Holding(ix.buckets[b].slots, g)
             /\ bucket.slots[i] = ix.buckets[b].slots[i]
    <3> DEFINE before == ix.buckets[b]
    <3>1. SlotCount # 0 => before.next_replace < SlotCount
      BY <2>1 DEF Replaceable
    <3>2. \A i, j \in Holding(before.slots, f) : i = j
      BY DEF ExactBounds
    <3>3. before \in BucketType /\ bucket = PublishExact(before, f, seq)
      BY <2>1
    <3> HIDE DEF before, bucket
    <3>4. SlotPublished(before, bucket, f, seq)
      BY <3>1, <3>2, <3>3, BucketKeeps
    <3>5. QED
      BY <3>4 DEF before, SlotPublished
  <2>3. next = [ix EXCEPT !.buckets = [ix.buckets EXCEPT ![b] = bucket]]
    BY <1>2 DEF ExactPublished
  <2> HIDE DEF bucket, next
  <2>4. /\ next \in IndexType
        /\ next.filters = ix.filters
        /\ next.coverage = ix.coverage
        /\ next.latest = ix.latest
        /\ next.buckets = [ix.buckets EXCEPT ![b] = bucket]
    BY <2>1, <2>2, <2>3 DEF IndexType
  <2>5. next.buckets[b] = bucket /\ \A c \in Bucket \ {b} : next.buckets[c] = ix.buckets[c]
    BY <2>1, <2>4 DEF IndexType
  <2>6. Replaceable(next)
    BY <2>2, <2>5 DEF Replaceable
  <2>7. ASSUME NEW g \in Fact, g # f
        PROVE  LET cells == next.buckets[BucketOf[g]].slots
               IN /\ \A i, j \in Holding(cells, g) : i = j
                  /\ \A i \in Holding(cells, g), w \in now :
                       w[1] = g => w[2] <= cells[i].latest
    <3>1. \A w \in now : w[1] = g => w \in W
      BY <2>7
    <3>2. BucketOf[g] \in Bucket
      BY IndexAssumption
    <3>3. CASE BucketOf[g] = b
      BY <2>2, <2>5, <2>7, <3>1, <3>3 DEF ExactBounds
    <3>4. CASE BucketOf[g] # b
      BY <2>5, <3>1, <3>2, <3>4 DEF ExactBounds
    <3>5. QED
      BY <3>3, <3>4
  <2>8. \A i \in Holding(bucket.slots, f), w \in now :
          w[1] = f => w[2] <= bucket.slots[i].latest
    <3>1. SUFFICES ASSUME NEW i \in Holding(bucket.slots, f), NEW w \in now, w[1] = f
                   PROVE  w[2] <= bucket.slots[i].latest
      OBVIOUS
    <3>2. bucket.slots[i].latest \in Nat /\ bucket.slots[i].latest >= seq
      BY <2>2 DEF BucketType, SlotType, Holding
    <3>3. w[2] \in Nat /\ w[2] <= seq
      BY <1>2 DEF Writes, IndexType
    <3>4. QED
      BY <3>2, <3>3
  <2>9. ExactBounds(next, now)
    BY <2>2, <2>5, <2>7, <2>8 DEF ExactBounds
  <2>10. QED
    BY <2>4, <2>6, <2>9 DEF next
<1>3. QED
  BY <1>1, <1>2

-----------------------------------------------------------------------------
\* A fresh index knows of writes only that they are below its start.
LEMMA NewKnown ==
  ASSUME NEW start \in Nat, NEW W, W \subseteq Writes, \A w \in W : w[2] <= start
  PROVE  Known(NewIndex(start), W)
<1> DEFINE ix == NewIndex(start)
<1>1. InactiveFilter \in FilterType
  BY DEF InactiveFilter, FilterType
<1>2. /\ ix \in IndexType
      /\ ix.coverage = start
      /\ ix.latest = start
      /\ ix.buckets = [b \in Bucket |-> EmptyBucket]
  BY <1>1, EmptyBucketType, IndexAssumption DEF NewIndex, IndexType
<1> HIDE DEF ix
<1>3. Replaceable(ix)
  BY <1>2, IndexAssumption DEF Replaceable, EmptyBucket
<1>4. \A g \in Fact : Holding(ix.buckets[BucketOf[g]].slots, g) = {}
  BY <1>2, EmptyBucketType, IndexAssumption
<1>5. ExactBounds(ix, W)
  BY <1>4 DEF ExactBounds
<1>6. \A w \in W : ~(w[2] > ix.coverage)
  BY <1>2 DEF Writes
<1>7. WindowsCover(ix, W)
  BY <1>6 DEF WindowsCover
<1>8. QED
  BY <1>2, <1>3, <1>5, <1>7 DEF Known, ix

\* Publish keeps the invariant and accounts for its write.
LEMMA PublishKnown ==
  ASSUME NEW ix, NEW W, Known(ix, W), NEW f \in Fact, NEW seq \in Nat
  PROVE  Known(Publish(ix, f, seq), W \cup {<<f, seq>>})
<1> DEFINE now == W \cup {<<f, seq>>}
           exact == ExactPublished(ix, f, seq)
           reset == WindowsReset(exact, seq)
           found == FindFilter(reset, seq)
           next == Publish(ix, f, seq)
<1>1. /\ ix \in IndexType /\ W \subseteq Writes /\ Replaceable(ix)
      /\ \A w \in W : w[2] <= ix.latest
      /\ ExactBounds(ix, W) /\ WindowsCover(ix, W)
  BY DEF Known
<1>2. /\ exact \in IndexType
      /\ exact.filters = ix.filters
      /\ exact.coverage = ix.coverage
      /\ exact.latest = ix.latest
      /\ Replaceable(exact)
      /\ ExactBounds(exact, now)
  BY <1>1, ExactKeeps
<1> HIDE DEF exact
<1>3. WindowsCover(exact, W) /\ \A w \in W : w[2] <= exact.latest
  BY <1>1, <1>2 DEF WindowsCover, Recorded
<1>4. now \subseteq Writes
  BY <1>1 DEF Writes
<1>5. /\ reset \in IndexType
      /\ WindowsCover(reset, W)
      /\ reset.buckets = exact.buckets
      /\ reset.latest = exact.latest
  BY <1>1, <1>2, <1>3, ResetKeeps
<1>6. next = IF FilterCount = 0 THEN [exact EXCEPT !.latest = Larger(@, seq)]
             ELSE IF found # {} THEN AddTo(reset, First(found), f, seq)
             ELSE AddTo(ActivateFilter(reset, WindowStart(reset, seq)),
                        Activated(reset), f, seq)
  BY DEF Publish, exact
<1> HIDE DEF reset, next
<1>7. /\ next \in IndexType
      /\ WindowsCover(next, now)
      /\ next.buckets = exact.buckets
      /\ next.latest = Larger(ix.latest, seq)
  <2>1. CASE FilterCount = 0
    <3>1. Larger(exact.latest, seq) \in Nat
      BY <1>2 DEF IndexType, Larger
    <3>2. next = [exact EXCEPT !.latest = Larger(exact.latest, seq)]
      BY <1>6, <2>1
    <3>3. QED
      BY <1>2, <2>1, <3>1, <3>2 DEF IndexType, WindowsCover
  <2>2. CASE FilterCount # 0 /\ found # {}
    <3>1. found \subseteq Nat
      BY IndexAssumption DEF FindFilter, Filters
    <3>2. First(found) \in Filters /\ reset.filters[First(found)].active
      <4>1. First(found) \in found
        BY <2>2, <3>1, FirstIn
      <4>2. QED
        BY <4>1 DEF FindFilter
    <3>3. next = AddTo(reset, First(found), f, seq)
      BY <1>6, <2>2
    <3> HIDE DEF found, now
    <3>4. /\ AddTo(reset, First(found), f, seq) \in IndexType
          /\ WindowsCover(AddTo(reset, First(found), f, seq), W \cup {<<f, seq>>})
          /\ AddTo(reset, First(found), f, seq).buckets = reset.buckets
          /\ AddTo(reset, First(found), f, seq).latest = Larger(reset.latest, seq)
      BY <1>1, <1>5, <2>2, <3>2, AddKeeps, SMTT(30)
    <3>5. QED
      BY <1>2, <1>5, <3>3, <3>4, Zenon DEF now
  <2>3. CASE FilterCount # 0 /\ found = {}
    <3> DEFINE start == WindowStart(reset, seq)
               active == ActivateFilter(reset, start)
    <3>1. start \in Nat
      <4>1. reset.anchor \in Nat
        BY <1>5 DEF IndexType
      <4>2. CASE seq <= reset.anchor
        BY <4>1, <4>2 DEF WindowStart
      <4>3. CASE ~(seq <= reset.anchor)
        <5>1. seq - reset.anchor \in Nat
          BY <4>1, <4>3
        <5>2. (seq - reset.anchor) \div Window \in Nat
          BY <5>1, IndexAssumption
        <5>3. ((seq - reset.anchor) \div Window) * Window \in Nat
          BY <5>2, IndexAssumption
        <5>4. QED
          BY <4>1, <4>3, <5>3 DEF WindowStart
      <4>4. QED
        BY <4>2, <4>3
    <3>2. Activated(reset) \in Filters
      BY <1>5, <2>3, ActivatedIn
    <3> HIDE DEF start
    <3>3. /\ active \in IndexType
          /\ WindowsCover(active, W)
          /\ active.filters[Activated(reset)] = Clear(start)
          /\ active.buckets = reset.buckets
          /\ active.latest = reset.latest
      BY <1>1, <1>5, <2>3, <3>1, ActivateKeeps
    <3>4. next = AddTo(active, Activated(reset), f, seq)
      BY <1>6, <2>3 DEF start
    <3> DEFINE p == Activated(reset)
    <3> HIDE DEF active
    <3>5. active.filters[p].active
      BY <3>3 DEF Clear
    <3>6. p \in Filters /\ next = AddTo(active, p, f, seq)
      BY <3>2, <3>4
    <3> HIDE DEF p
    <3>7. /\ next \in IndexType
          /\ WindowsCover(next, now)
          /\ next.buckets = active.buckets
          /\ next.latest = Larger(active.latest, seq)
      BY <1>1, <2>3, <3>3, <3>5, <3>6, AddKeeps, SMTT(30)
    <3>8. QED
      BY <1>2, <1>5, <3>3, <3>7
  <2>4. QED
    BY <2>1, <2>2, <2>3
<1>8. Replaceable(next) /\ ExactBounds(next, now)
  BY <1>2, <1>7 DEF Replaceable, ExactBounds
<1>9. ASSUME NEW w \in now
      PROVE  w[2] <= next.latest
  <2>1. ix.latest \in Nat /\ next.latest >= ix.latest /\ next.latest >= seq
    <3>1. ix.latest \in Nat /\ next.latest = Larger(ix.latest, seq)
      BY <1>1, <1>7 DEF IndexType
    <3>2. QED
      BY <3>1 DEF Larger
  <2>2. next.latest \in Nat
    BY <1>7 DEF IndexType
  <2>3. CASE w = <<f, seq>>
    BY <2>1, <2>3
  <2>4. CASE w \in W
    <3>1. w[2] \in Nat /\ w[2] <= ix.latest
      BY <1>1, <2>4 DEF Writes
    <3>2. QED
      BY <2>1, <2>2, <3>1
  <2>5. QED
    BY <2>3, <2>4
<1>10. QED
  BY <1>4, <1>7, <1>8, <1>9 DEF Known, next

\* What the index knows makes its proofs sound.
LEMMA AnswerSound ==
  ASSUME Known(index, written), NEW f \in Fact, NEW snapshot \in Nat,
         CanProveUnchanged(index, f, snapshot), NEW w \in written, w[1] = f
  PROVE  w[2] <= snapshot
<1> DEFINE cells == index.buckets[BucketOf[f]].slots
           held == Holding(cells, f)
<1>2. snapshot \in Nat /\ w[2] \in Nat
  BY IndexAssumption DEF Known, Writes
<1>3. CASE snapshot >= index.exact_coverage /\ held # {}
  <2>1. First(held) \in held
    <3>1. held \subseteq Nat
      BY IndexAssumption DEF Holding, Slots
    <3>2. QED
      BY <1>3, <3>1, FirstIn
  <2>2. cells[First(held)].latest <= snapshot
    BY <1>3 DEF CanProveUnchanged
  <2>3. w[2] <= cells[First(held)].latest
    BY <2>1 DEF Known, ExactBounds
  <2>4. cells[First(held)].latest \in Nat
    <3>1. cells \in [Slots -> SlotType]
      BY IndexAssumption DEF Known, IndexType, BucketType
    <3>2. QED
      BY <2>1, <3>1 DEF Holding, SlotType
  <2> HIDE DEF cells, held
  <2>5. QED
    BY <1>2, <2>2, <2>3, <2>4
<1>4. CASE ~(snapshot >= index.exact_coverage /\ held # {})
  <2>1. /\ FilterCount # 0
        /\ snapshot >= index.coverage
        /\ \A i \in Filters : \/ ~index.filters[i].active
                              \/ index.filters[i].through <= snapshot
                              \/ f \notin index.filters[i].members
    BY <1>4 DEF CanProveUnchanged
  <2>2. index.coverage \in Nat
    BY DEF Known, IndexType
  <2>3. SUFFICES ASSUME w[2] > snapshot
                 PROVE  FALSE
    BY <1>2
  <2>4. Recorded(index, w)
    BY <1>2, <2>1, <2>2, <2>3 DEF Known, WindowsCover
  <2>5. PICK i \in Filters : /\ index.filters[i].active
                             /\ w[1] \in index.filters[i].members
                             /\ w[2] <= index.filters[i].through
    BY <2>4 DEF Recorded
  <2>6. index.filters[i].through \in Nat
    BY DEF Known, IndexType, FilterType
  <2>7. index.filters[i].through <= snapshot
    BY <2>1, <2>5
  <2>8. QED
    BY <1>2, <2>3, <2>5, <2>6, <2>7
<1>5. QED
  BY <1>3, <1>4

LEMMA KnownSound ==
  ASSUME Known(index, written)
  PROVE  ProofsSound
<1>1. SUFFICES ASSUME NEW f \in Fact, NEW snapshot \in 0..Top,
                      CanProveUnchanged(index, f, snapshot),
                      NEW w \in written, w[1] = f
               PROVE  w[2] <= snapshot
  BY DEF ProofsSound
<1>2. snapshot \in Nat
  BY IndexAssumption
<1> QED
  BY <1>1, <1>2, AnswerSound

\* Whatever is published, in whatever order, "unchanged" is never wrong: the
\* answer lets ValidateSnapshotWriteDependencies skip the canonical scan.
THEOREM IndexProofsSound == IndexSpec => []ProofsSound
<1>1. IndexInit => Known(index, written)
  <2>1. SUFFICES ASSUME NEW start \in 0..Top, index = NewIndex(start),
                        written \in SUBSET (Fact \X (1..start))
                 PROVE  Known(index, written)
    BY DEF IndexInit
  <2>2. start \in Nat /\ written \subseteq Writes /\ \A w \in written : w[2] <= start
    BY <2>1, IndexAssumption DEF Writes
  <2>3. QED
    BY <2>1, <2>2, NewKnown
<1>2. Known(index, written) /\ [IndexNext]_<<index, written>> => Known(index, written)'
  <2> SUFFICES ASSUME Known(index, written), [IndexNext]_<<index, written>>
               PROVE  Known(index', written')
    BY DEF Known, Replaceable, ExactBounds, WindowsCover, Recorded, Holding
  <2>1. ASSUME NEW f \in Fact, NEW seq \in 1..Top, PublishWrite(f, seq)
        PROVE  Known(index', written')
    BY <2>1, PublishKnown DEF PublishWrite
  <2>2. ASSUME NEW start \in 0..Top, RebuildIndex(start)
        PROVE  Known(index', written')
    <3>1. written \subseteq Writes /\ \A w \in written : w[2] <= start
      BY <2>2 DEF Known, RebuildIndex, Writes, IndexType
    <3>2. QED
      BY <2>2, <3>1, NewKnown DEF RebuildIndex
  <2>3. CASE UNCHANGED <<index, written>>
    BY <2>3
  <2>4. QED
    BY <2>1, <2>2, <2>3 DEF IndexNext
<1>3. QED
  BY <1>1, <1>2, KnownSound, PTL DEF IndexSpec

-----------------------------------------------------------------------------
(* Types. *)

Row == [fact : Fact, from : Int, seq : Nat]
Entry == [fact : Fact, chain : SUBSET (Int \X Nat)]
Mutations == Fact \X Int
Successors == UNION {[S -> SUBSET Int] : S \in SUBSET Mutations}
Label == {"idle", "predicted", "lock", "filter", "lookup", "scan", "decided", "write",
          "index", "generation", "chain", "visible"}
Call ==
  [batch : SUBSET Mutations, snapshot : Nat, successor : Successors,
   todo : SUBSET Mutations, pending : SUBSET Mutations, observed : Nat,
   iterator : SUBSET SUBSET Row, scanning : SUBSET Fact, base : SUBSET Nat]

Shape == pc \in [Actor -> Label] /\ call \in [Actor -> Call]

Typed ==
  /\ Shape /\ db \subseteq Row
  /\ visible_seq \in Nat /\ publish_generation \in Nat /\ recovery_required \in BOOLEAN

-----------------------------------------------------------------------------
(* The steps of Next, by what they change. *)

Others(a) == \A b \in Actor : b # a => pc'[b] = pc[b] /\ call'[b] = call[b]

Kept(a) ==
  /\ call'[a].batch = call[a].batch /\ call'[a].snapshot = call[a].snapshot
  /\ call'[a].successor = call[a].successor

Log == <<db, visible_seq, recovery_required>>
Filtered == <<index, written, identity_history, history_disabled>>
Quiet == UNCHANGED <<Log, Filtered, publish_generation>>

(* A call begins, ends, or goes back to the lock. *)
Rests(a) ==
  /\ Quiet /\ Others(a)
  /\ pc[a] \in {"idle", "predicted", "lock", "lookup", "scan", "decided"}
  /\ pc'[a] \in {"idle", "predicted", "lock"}
  /\ \/ call'[a].iterator = {} /\ call'[a].observed = 0
     \/ /\ pc[a] \in {"predicted", "decided"}
        /\ call'[a].iterator = call[a].iterator /\ call'[a].observed = call[a].observed
  /\ call'[a].base = {} \/ (pc[a] = "predicted" /\ call'[a].base = call[a].base)
  /\ publisher_mutex' \in {publisher_mutex, publisher_mutex \ {a}}

Starts(a) ==
  /\ Quiet /\ Others(a) /\ Kept(a) /\ slots' = slots
  /\ pc[a] \in {"predicted", "lock"} /\ pc'[a] = "filter" /\ ~recovery_required
  /\ call'[a].todo = call[a].batch /\ call'[a].iterator = call[a].iterator
  /\ call'[a].observed = call[a].observed
  /\ \/ /\ call'[a].base = {}
        /\ publisher_mutex = {} /\ publisher_mutex' = {a}
     \/ /\ a = Worker /\ call'[a].base = {visible_seq}
        /\ publisher_mutex' = publisher_mutex

Filters1(a) ==
  /\ Quiet /\ Others(a) /\ Kept(a) /\ slots' = slots /\ publisher_mutex' = publisher_mutex
  /\ pc[a] = "filter" /\ pc'[a] = "filter"
  /\ call'[a].iterator = call[a].iterator /\ call'[a].base = call[a].base
  /\ call'[a].observed = call[a].observed
  /\ \E w \in call[a].todo :
       /\ call'[a].todo = call[a].todo \ {w}
       /\ \/ call'[a].pending = call[a].pending \cup {w}
          \/ /\ call'[a].pending = call[a].pending
             /\ \/ CanProveUnchanged(index, w[1], call[a].snapshot)
                \/ Racing(a)
                \/ ~MightContain(w[1])

Captures(a) ==
  /\ Quiet /\ Others(a) /\ Kept(a) /\ slots' = slots /\ publisher_mutex' = publisher_mutex
  /\ pc[a] = "filter" /\ pc'[a] = "lookup" /\ call[a].todo = {}
  /\ call'[a].todo = call[a].todo /\ call'[a].pending = call[a].pending
  /\ call'[a].iterator = call[a].iterator /\ call'[a].base = call[a].base
  /\ call'[a].observed = publish_generation

Looks(a) ==
  /\ Quiet /\ Others(a) /\ Kept(a) /\ slots' = slots /\ publisher_mutex' = publisher_mutex
  /\ pc[a] = "lookup" /\ pc'[a] = "scan"
  /\ call'[a].todo = call[a].todo /\ call'[a].pending = call[a].pending
  /\ call'[a].base = call[a].base /\ call'[a].observed = call[a].observed
  /\ call'[a].iterator = IF call[a].iterator = {} THEN {db} ELSE call[a].iterator

(* The dependencies of one identity are judged by a chain that is cached   *)
(* or by a scan.                                                           *)
Settles(a) ==
  /\ Quiet /\ Others(a) /\ Kept(a) /\ publisher_mutex' = publisher_mutex
  /\ pc[a] \in {"lookup", "scan"} /\ pc'[a] = "lookup"
  /\ call'[a].todo = call[a].todo /\ call'[a].iterator = call[a].iterator
  /\ call'[a].base = call[a].base /\ call'[a].observed = call[a].observed
  /\ \E f \in Fact : \E chain :
       /\ call'[a].pending = call[a].pending \ Dependencies(a, f)
       /\ \A w \in Dependencies(a, f) :
            ~Conflicts(chain, w[2], call[a].successor[w], call[a].snapshot)
       /\ \/ Resident(f) /\ chain = Chain(f)
          \/ \E view \in call[a].iterator : chain = Boundaries(view, f)

(* The slots that a lookup or a scan leaves. *)
Refreshes(a) ==
  \E f \in Fact :
    \/ slots' = Without(f)
    \/ Resident(f) /\ slots' = Touched(f, Chain(f))
    \/ \E view \in call[a].iterator :
         call[a].observed = publish_generation /\ slots' = Cached(f, Boundaries(view, f))

Passes(a) ==
  /\ Quiet /\ Others(a) /\ Kept(a) /\ slots' = slots /\ publisher_mutex' = publisher_mutex
  /\ pc[a] = "lookup" /\ call[a].pending = {}
  /\ \/ Predicting(a) /\ pc'[a] = "decided"
     \/ ~Predicting(a) /\ pc'[a] = "write"
  /\ call'[a].todo = {} /\ call'[a].pending = {} /\ call'[a].iterator = {}
  /\ call'[a].observed = 0 /\ call'[a].base = call[a].base

Acquires(a) ==
  /\ Quiet /\ Others(a) /\ Kept(a) /\ slots' = slots
  /\ publisher_mutex = {} /\ publisher_mutex' = {a}
  /\ pc[a] = "decided" /\ pc'[a] = "write" /\ ~recovery_required
  /\ visible_seq \in call[a].base
  /\ call'[a].todo = call[a].todo /\ call'[a].pending = call[a].pending
  /\ call'[a].iterator = call[a].iterator /\ call'[a].observed = call[a].observed
  /\ call'[a].base = {}

Saves(a) ==
  /\ Others(a) /\ Kept(a) /\ publisher_mutex' = publisher_mutex
  /\ pc[a] = "write" /\ pc'[a] = "index"
  /\ db' = db \cup NewRows(a) /\ call'[a].todo = call[a].batch
  /\ call'[a].iterator = call[a].iterator /\ call'[a].base = call[a].base
  /\ call'[a].observed = call[a].observed
  /\ UNCHANGED <<visible_seq, recovery_required, caches>>

Loses(a) ==
  /\ Others(a) /\ publisher_mutex' = {}
  /\ pc[a] = "write" /\ pc'[a] = "idle"
  /\ db' = db \/ (db' = db \cup NewRows(a) /\ recovery_required')
  /\ recovery_required' \in BOOLEAN
  /\ call'[a].iterator = {} /\ call'[a].base = {} /\ call'[a].observed = 0
  /\ UNCHANGED <<visible_seq, caches>>

Indexes(a) ==
  /\ Others(a) /\ Kept(a) /\ UNCHANGED <<Log, publisher_mutex, history_disabled, slots,
                                         publish_generation>>
  /\ pc[a] = "index"
  /\ call'[a].iterator = call[a].iterator /\ call'[a].base = call[a].base
  /\ call'[a].observed = call[a].observed
  /\ \E w \in call[a].todo :
       /\ PublishWrite(w[1], visible_seq + 1)
       /\ identity_history' = IF history_disabled THEN {} ELSE identity_history \cup {w[1]}
       /\ \/ /\ call[a].todo = {w} /\ pc'[a] = "generation"
             /\ call'[a].todo = call[a].batch
          \/ pc'[a] = "index" /\ call'[a].todo = call[a].todo \ {w}

Announces(a) ==
  /\ Others(a) /\ call'[a] = call[a] /\ UNCHANGED <<Log, publisher_mutex, Filtered, slots>>
  /\ pc[a] = "generation" /\ pc'[a] = "chain"
  /\ publish_generation' = publish_generation + 1

Inserts(a) ==
  /\ Quiet /\ Others(a) /\ Kept(a) /\ publisher_mutex' = publisher_mutex
  /\ pc[a] = "chain"
  /\ call'[a].iterator = call[a].iterator /\ call'[a].base = call[a].base
  /\ call'[a].observed = call[a].observed
  /\ \E w \in call[a].todo :
       /\ call'[a].todo = call[a].todo \ {w}
       /\ pc'[a] = IF call[a].todo = {w} THEN "visible" ELSE "generation"
       /\ \/ ~Resident(w[1]) /\ slots' = slots
          \/ slots' = Without(w[1])
          \/ /\ Resident(w[1])
             /\ slots' = Touched(w[1], InsertBoundary(Chain(w[1]), <<w[2], visible_seq + 1>>))

Shows(a) ==
  /\ Others(a) /\ pc[a] = "visible" /\ pc'[a] = "idle"
  /\ call'[a].iterator = {} /\ call'[a].base = {} /\ call'[a].observed = 0
  /\ visible_seq' = visible_seq + 1 /\ publisher_mutex' = {}
  /\ UNCHANGED <<db, recovery_required, caches>>

Moves(a) ==
  \/ (Rests(a) \/ Settles(a)) /\ (slots' = slots \/ Refreshes(a))
  \/ Starts(a) \/ Filters1(a) \/ Captures(a) \/ Looks(a) \/ Passes(a) \/ Acquires(a)
  \/ Saves(a) \/ Loses(a) \/ Indexes(a) \/ Announces(a) \/ Inserts(a) \/ Shows(a)

LEMMA NoCallType ==
  /\ NoCall \in Call
  /\ NoCall.iterator = {} /\ NoCall.base = {} /\ NoCall.observed = 0
<1>1. <<>> \in Successors
  <2>1. <<>> \in [{} -> SUBSET Int]
    OBVIOUS
  <2>2. {} \in SUBSET Mutations
    OBVIOUS
  <2> QED
    BY <2>1, <2>2, Zenon DEF Successors
<1> QED
  BY <1>1 DEF NoCall, Call

(* A call that is over. *)
LEMMA DoneFacts ==
  ASSUME Shape, NEW a \in Actor, Done(a)
  PROVE  /\ Shape' /\ Others(a) /\ pc'[a] = "idle"
         /\ call'[a].iterator = {} /\ call'[a].base = {} /\ call'[a].observed = 0
<1>1. /\ pc \in [Actor -> Label] /\ call \in [Actor -> Call] /\ NoCall \in Call
      /\ "idle" \in Label
  BY NoCallType DEF Shape, Label
<1>2. pc' = [pc EXCEPT ![a] = "idle"] /\ call' = [call EXCEPT ![a] = NoCall]
  BY Zenon DEF Done, Goto
<1>3. Shape'
  BY <1>1, <1>2 DEF Shape
<1>4. Others(a) /\ pc'[a] = "idle" /\ call'[a] = NoCall
  BY <1>1, <1>2, Zenon DEF Others
<1> QED
  BY <1>3, <1>4, NoCallType

(* The program counter and the call of one actor change. *)
LEMMA ChangedFacts ==
  ASSUME Shape, NEW a \in Actor, NEW c \in Call, NEW label \in Label,
         pc' = [pc EXCEPT ![a] = label], call' = [call EXCEPT ![a] = c]
  PROVE  Shape' /\ Others(a) /\ pc'[a] = label /\ call'[a] = c
<1>1. pc \in [Actor -> Label] /\ call \in [Actor -> Call]
  BY Zenon DEF Shape
<1>2. pc' \in [Actor -> Label] /\ call' \in [Actor -> Call]
  BY <1>1
<1>3. Others(a) /\ pc'[a] = label /\ call'[a] = c
  BY <1>1, Zenon DEF Others
<1> QED
  BY <1>2, <1>3, Zenon DEF Shape

LEMMA CallFields ==
  ASSUME NEW c \in Call
  PROVE  /\ c.batch \in SUBSET Mutations /\ c.snapshot \in Nat /\ c.successor \in Successors
         /\ c.todo \in SUBSET Mutations /\ c.pending \in SUBSET Mutations
         /\ c.observed \in Nat /\ c.iterator \in SUBSET SUBSET Row
         /\ c.scanning \in SUBSET Fact /\ c.base \in SUBSET Nat
BY DEF Call


LEMMA ShapeFacts ==
  ASSUME Shape, NEW a \in Actor
  PROVE  call[a] \in Call /\ pc[a] \in Label
BY Zenon DEF Shape

LEMMA LaterType ==
  ASSUME NEW times, NEW t, times \subseteq Int
  PROVE  Later(times, t) \in SUBSET Int
BY Zenon DEF Later

LEMMA SubmitMoves ==
  ASSUME Typed, NEW a \in Actor, NEW request \in Requests, NEW snap \in 0..visible_seq,
         Submit(a, request, snap)
  PROVE  Shape' /\ Moves(a)
<1> DEFINE next == [w \in request |->
                      Later({r.from : r \in {r \in Rows(db, w[1]) : r.seq <= snap}}, w[2])]
           c == [NoCall EXCEPT !.batch = request, !.snapshot = snap, !.successor = next]
           label == IF a = Worker THEN "predicted" ELSE "lock"
<1>1. next \in Successors
  <2>1. request \in SUBSET Mutations
    BY CachesAssumption, Zenon DEF Mutations
  <2>2. \A r \in db : r.from \in Int
    BY DEF Typed, Row
  <2>3. ASSUME NEW w \in request
        PROVE  Later({r.from : r \in {r \in Rows(db, w[1]) : r.seq <= snap}}, w[2])
                 \in SUBSET Int
    <3>1. {r.from : r \in {r \in Rows(db, w[1]) : r.seq <= snap}} \subseteq Int
      BY <2>2, Zenon DEF Rows
    <3> QED
      BY <3>1, LaterType, Zenon
  <2>4. next \in [request -> SUBSET Int]
    BY <2>3, Zenon
  <2> QED
    BY <2>1, <2>4, Zenon DEF Successors
<1> HIDE DEF next
<1>2. /\ c \in Call /\ c.iterator = {} /\ c.base = {} /\ c.observed = 0
  <2>1. request \in SUBSET Mutations /\ snap \in Nat
    BY CachesAssumption DEF Mutations, Typed
  <2> QED
    BY <1>1, <2>1, NoCallType DEF NoCall, Call
<1>3. call' = [call EXCEPT ![a] = c] /\ pc' = [pc EXCEPT ![a] = label]
  BY Zenon DEF Submit, Goto, next
<1>4. label \in Label /\ label \in {"idle", "predicted", "lock"}
  BY DEF Label
<1> HIDE DEF c, label
<1>5. Shape' /\ Others(a) /\ pc'[a] = label /\ call'[a] = c
  BY <1>2, <1>3, <1>4, ChangedFacts, Zenon DEF Typed
<1>6. /\ Quiet /\ slots' = slots /\ publisher_mutex' = publisher_mutex
      /\ pc[a] \in {"idle", "predicted", "lock", "lookup", "scan", "decided"}
  BY Zenon DEF Submit, Quiet, Log, Filtered, store, caches
<1> QED
  BY <1>2, <1>4, <1>5, <1>6, Zenon DEF Moves, Rests

(* ValidatePredictedGroup and a direct commit start alike. *)
LEMMA ValidateFacts ==
  ASSUME Shape, NEW a \in Actor, NEW over, over \subseteq Nat, Validate(a, over)
  PROVE  /\ Shape' /\ Others(a) /\ Kept(a) /\ pc'[a] = "filter"
         /\ call'[a].todo = call[a].batch /\ call'[a].iterator = call[a].iterator
         /\ call'[a].observed = call[a].observed /\ call'[a].base = over
<1> DEFINE c == [call[a] EXCEPT !.todo = call[a].batch, !.base = over]
<1>1. call[a] \in Call
  BY ShapeFacts
<1>2. /\ c \in Call
      /\ c.batch = call[a].batch /\ c.snapshot = call[a].snapshot
      /\ c.successor = call[a].successor /\ c.todo = call[a].batch
      /\ c.iterator = call[a].iterator /\ c.observed = call[a].observed /\ c.base = over
  BY <1>1 DEF Call
<1>3. call' = [call EXCEPT ![a] = c] /\ pc' = [pc EXCEPT ![a] = "filter"]
  BY Zenon DEF Validate, Goto, Shape
<1>4. "filter" \in Label
  BY DEF Label
<1> HIDE DEF c
<1>5. Shape' /\ Others(a) /\ pc'[a] = "filter" /\ call'[a] = c
  BY <1>2, <1>3, <1>4, ChangedFacts, Zenon
<1> QED
  BY <1>2, <1>5, Zenon DEF Kept

LEMMA StartPredictedMoves ==
  ASSUME Typed, NEW current \in BOOLEAN, StartPredicted(current)
  PROVE  Shape' /\ Moves(Worker)
<1>1. /\ Quiet /\ slots' = slots /\ publisher_mutex' = publisher_mutex
      /\ pc[Worker] = "predicted" /\ Shape /\ visible_seq \in Nat /\ Worker \in Actor
  BY CachesAssumption, Zenon DEF StartPredicted, Quiet, Log, Filtered, store, caches, Typed
<1>2. CASE current /\ ~recovery_required
  <2>1. Validate(Worker, {visible_seq}) /\ {visible_seq} \subseteq Nat
    BY <1>1, <1>2, Zenon DEF StartPredicted
  <2>2. /\ Shape' /\ Others(Worker) /\ Kept(Worker) /\ pc'[Worker] = "filter"
        /\ call'[Worker].todo = call[Worker].batch
        /\ call'[Worker].iterator = call[Worker].iterator
        /\ call'[Worker].observed = call[Worker].observed
        /\ call'[Worker].base = {visible_seq}
    BY <1>1, <2>1, ValidateFacts, Zenon
  <2> QED
    BY <1>1, <1>2, <2>2, Zenon DEF Moves, Starts
<1>3. CASE ~(current /\ ~recovery_required)
  <2>1. Goto(Worker, "lock") /\ call' = call
    BY <1>3, Zenon DEF StartPredicted
  <2>2. call[Worker] \in Call /\ "lock" \in Label
    BY <1>1, ShapeFacts DEF Label
  <2>3. call' = [call EXCEPT ![Worker] = call[Worker]]
    BY <1>1, <2>1, Zenon DEF Shape
  <2>4. Shape' /\ Others(Worker) /\ pc'[Worker] = "lock" /\ call'[Worker] = call[Worker]
    BY <1>1, <2>1, <2>2, <2>3, ChangedFacts, Zenon DEF Goto
  <2> QED
    BY <1>1, <2>4, Zenon DEF Moves, Rests
<1> QED
  BY <1>2, <1>3, Zenon

LEMMA StartDirectMoves ==
  ASSUME Typed, NEW a \in Actor, StartDirect(a)
  PROVE  Shape' /\ Moves(a)
<1>1. /\ Quiet /\ slots' = slots /\ pc[a] = "lock" /\ publisher_mutex = {} /\ Shape
  BY Zenon DEF StartDirect, Quiet, Log, Filtered, caches, Typed
<1>2. CASE recovery_required
  <2>1. Done(a) /\ publisher_mutex' = publisher_mutex
    BY <1>2, Zenon DEF StartDirect
  <2>2. /\ Shape' /\ Others(a) /\ pc'[a] = "idle"
        /\ call'[a].iterator = {} /\ call'[a].base = {} /\ call'[a].observed = 0
    BY <1>1, <2>1, DoneFacts, Zenon
  <2> QED
    BY <1>1, <2>1, <2>2, Zenon DEF Moves, Rests
<1>3. CASE ~recovery_required
  <2>1. Validate(a, {}) /\ publisher_mutex' = {a} /\ {} \subseteq Nat
    BY <1>3, Zenon DEF StartDirect
  <2>2. /\ Shape' /\ Others(a) /\ Kept(a) /\ pc'[a] = "filter"
        /\ call'[a].todo = call[a].batch /\ call'[a].iterator = call[a].iterator
        /\ call'[a].observed = call[a].observed /\ call'[a].base = {}
    BY <1>1, <2>1, ValidateFacts, Zenon
  <2> QED
    BY <1>1, <1>3, <2>1, <2>2, Zenon DEF Moves, Starts
<1> QED
  BY <1>2, <1>3, Zenon


LEMMA CheckFiltersMoves ==
  ASSUME Typed, NEW a \in Actor, NEW w \in call[a].todo, CheckFilters(a, w)
  PROVE  Shape' /\ Moves(a)
<1>1. /\ Quiet /\ slots' = slots /\ publisher_mutex' = publisher_mutex
      /\ pc[a] = "filter" /\ pc' = pc /\ Shape
  BY Zenon DEF CheckFilters, Quiet, Log, Filtered, store, caches, Typed
<1>2. call[a] \in Call /\ pc[a] \in Label
  BY <1>1, ShapeFacts, Zenon
<1>3. "filter" \in Label /\ pc' = [pc EXCEPT ![a] = "filter"] /\ Shape
  BY <1>1 DEF Shape, Label
<1>4. ASSUME NEW more \in {{}, {w}},
             call' = [call EXCEPT ![a] = [call[a] EXCEPT !.todo = call[a].todo \ {w},
                                            !.pending = call[a].pending \cup more]],
             \/ more = {w}
             \/ CanProveUnchanged(index, w[1], call[a].snapshot)
             \/ Racing(a)
             \/ ~MightContain(w[1])
      PROVE  Shape' /\ Moves(a)
  <2> DEFINE c == [call[a] EXCEPT !.todo = call[a].todo \ {w},
                                  !.pending = call[a].pending \cup more]
  <2>1. /\ c \in Call
        /\ c.batch = call[a].batch /\ c.snapshot = call[a].snapshot
        /\ c.successor = call[a].successor /\ c.todo = call[a].todo \ {w}
        /\ c.pending = call[a].pending \cup more
        /\ c.iterator = call[a].iterator /\ c.observed = call[a].observed
        /\ c.base = call[a].base
    BY <1>2, <1>4 DEF Call
  <2>a. call' = [call EXCEPT ![a] = c]
    BY <1>4, Zenon
  <2> HIDE DEF c
  <2>2. Shape' /\ Others(a) /\ pc'[a] = "filter" /\ call'[a] = c
    BY <1>3, <2>1, <2>a, ChangedFacts, Zenon
  <2>3. Kept(a)
    BY <2>1, <2>2, Zenon DEF Kept
  <2>4. \/ c.pending = call[a].pending \cup {w}
        \/ /\ c.pending = call[a].pending
           /\ \/ CanProveUnchanged(index, w[1], call[a].snapshot)
              \/ Racing(a)
              \/ ~MightContain(w[1])
    <3>1. CASE more = {w}
      BY <2>1, <3>1, Zenon
    <3>2. CASE more = {} /\ more # {w}
      <4>1. call[a].pending \cup {} = call[a].pending
        OBVIOUS
      <4> QED
        BY <1>4, <2>1, <3>2, <4>1, Zenon
    <3> QED
      BY <3>1, <3>2, Zenon
  <2> QED
    BY <1>1, <2>1, <2>2, <2>3, <2>4, Zenon DEF Moves, Filters1
<1>5. CASE call' = [call EXCEPT ![a].todo = @ \ {w}, ![a].pending = @ \cup {w}]
  <2>1. call' = [call EXCEPT ![a] = [call[a] EXCEPT !.todo = call[a].todo \ {w},
                                        !.pending = call[a].pending \cup {w}]]
    BY <1>1, <1>5 DEF Shape, Call
  <2> QED
    BY <1>4, <2>1, Zenon
<1>6. CASE /\ \/ CanProveUnchanged(index, w[1], call[a].snapshot)
              \/ Racing(a)
              \/ ~MightContain(w[1])
           /\ call' = [call EXCEPT ![a].todo = @ \ {w}]
  <2>1. call' = [call EXCEPT ![a] = [call[a] EXCEPT !.todo = call[a].todo \ {w},
                                        !.pending = call[a].pending \cup {}]]
    <3>1. [call[a] EXCEPT !.todo = call[a].todo \ {w}, !.pending = call[a].pending \cup {}]
            = [call[a] EXCEPT !.todo = call[a].todo \ {w}]
      BY <1>2 DEF Call
    <3>2. call' = [call EXCEPT ![a] = [call[a] EXCEPT !.todo = call[a].todo \ {w}]]
      BY <1>6, Zenon
    <3> QED
      BY <3>1, <3>2, Zenon
  <2> QED
    BY <1>4, <1>6, <2>1, Zenon
<1> QED
  BY <1>5, <1>6, Zenon DEF CheckFilters

LEMMA CaptureGenerationMoves ==
  ASSUME Typed, NEW a \in Actor, CaptureGeneration(a)
  PROVE  Shape' /\ Moves(a)
<1> DEFINE c == [call[a] EXCEPT !.observed = publish_generation]
<1>1. /\ Quiet /\ slots' = slots /\ publisher_mutex' = publisher_mutex
      /\ pc[a] = "filter" /\ call[a].todo = {} /\ Shape /\ publish_generation \in Nat
      /\ call' = [call EXCEPT ![a] = c] /\ pc' = [pc EXCEPT ![a] = "lookup"]
  BY Zenon DEF CaptureGeneration, Goto, Quiet, Log, Filtered, store, caches, Typed
<1>2. call[a] \in Call /\ "lookup" \in Label
  BY <1>1, ShapeFacts DEF Label
<1>3. /\ c \in Call
      /\ c.batch = call[a].batch /\ c.snapshot = call[a].snapshot
      /\ c.successor = call[a].successor /\ c.todo = call[a].todo
      /\ c.pending = call[a].pending /\ c.iterator = call[a].iterator
      /\ c.observed = publish_generation /\ c.base = call[a].base
  BY <1>1, <1>2 DEF Call
<1> HIDE DEF c
<1>4. Shape' /\ Others(a) /\ pc'[a] = "lookup" /\ call'[a] = c
  BY <1>1, <1>2, <1>3, ChangedFacts, Zenon
<1>5. Kept(a)
  BY <1>3, <1>4, Zenon DEF Kept
<1> QED
  BY <1>1, <1>3, <1>4, <1>5, Zenon DEF Moves, Captures

LEMMA LookupMissMoves ==
  ASSUME Typed, NEW a \in Actor, NEW f \in Fact, LookupMiss(a, f)
  PROVE  Shape' /\ Moves(a)
<1> DEFINE view == IF call[a].iterator = {} THEN {db} ELSE call[a].iterator
           c == [call[a] EXCEPT !.scanning = {f}, !.iterator = view]
<1>1. /\ Quiet /\ slots' = slots /\ publisher_mutex' = publisher_mutex
      /\ pc[a] = "lookup" /\ Shape /\ pc' = [pc EXCEPT ![a] = "scan"]
  BY Zenon DEF LookupMiss, Goto, Quiet, Log, Filtered, store, caches, Typed
<1>2. call[a] \in Call /\ "scan" \in Label
  BY <1>1, ShapeFacts DEF Label
<1>3. view \in SUBSET SUBSET Row
  <2>1. call[a].iterator \in SUBSET SUBSET Row /\ db \in SUBSET Row
    BY <1>2, CallFields, Zenon DEF Typed
  <2> QED
    BY <2>1, Zenon
<1>4. call' = [call EXCEPT ![a] = c]
  BY <1>1, <1>2 DEF LookupMiss, Shape, Call
<1> HIDE DEF view
<1>5. /\ c \in Call
      /\ c.batch = call[a].batch /\ c.snapshot = call[a].snapshot
      /\ c.successor = call[a].successor /\ c.todo = call[a].todo
      /\ c.pending = call[a].pending /\ c.iterator = view
      /\ c.observed = call[a].observed /\ c.base = call[a].base
  BY <1>2, <1>3 DEF Call
<1> HIDE DEF c
<1>6. Shape' /\ Others(a) /\ pc'[a] = "scan" /\ call'[a] = c
  BY <1>1, <1>2, <1>4, <1>5, ChangedFacts, Zenon
<1>7. Kept(a)
  BY <1>5, <1>6, Zenon DEF Kept
<1> QED
  BY <1>1, <1>5, <1>6, <1>7, Zenon DEF Moves, Looks, view

LEMMA ValidatedMoves ==
  ASSUME Typed, NEW a \in Actor, Validated(a)
  PROVE  Shape' /\ Moves(a)
<1> DEFINE c == Forget(call[a])
           label == IF Predicting(a) THEN "decided" ELSE "write"
<1>1. /\ Quiet /\ slots' = slots /\ publisher_mutex' = publisher_mutex
      /\ pc[a] = "lookup" /\ call[a].pending = {} /\ Shape
      /\ call' = [call EXCEPT ![a] = c] /\ pc' = [pc EXCEPT ![a] = label]
  BY Zenon DEF Validated, Goto, Quiet, Log, Filtered, store, caches, Typed
<1>2. call[a] \in Call /\ label \in Label
  BY <1>1, ShapeFacts DEF Label
<1>3. /\ c \in Call
      /\ c.batch = call[a].batch /\ c.snapshot = call[a].snapshot
      /\ c.successor = call[a].successor /\ c.todo = {}
      /\ c.pending = {} /\ c.iterator = {}
      /\ c.observed = 0 /\ c.base = call[a].base
  BY <1>2 DEF Call, Forget
<1> HIDE DEF c, label
<1>4. Shape' /\ Others(a) /\ pc'[a] = label /\ call'[a] = c
  BY <1>1, <1>2, <1>3, ChangedFacts, Zenon
<1>5. Kept(a)
  BY <1>3, <1>4, Zenon DEF Kept
<1> QED
  BY <1>1, <1>3, <1>4, <1>5, Zenon DEF Moves, Passes, label

LEMMA WriteDecidedGroupMoves ==
  ASSUME Typed, WriteDecidedGroup
  PROVE  Shape' /\ Moves(Worker)
<1> DEFINE a == Worker
           c == [call[a] EXCEPT !.base = {}]
<1>1. /\ Quiet /\ slots' = slots /\ publisher_mutex = {}
      /\ pc[a] = "decided" /\ Shape /\ a \in Actor
  BY CachesAssumption, Zenon DEF WriteDecidedGroup, Quiet, Log, Filtered, caches, Typed
<1>2. call[a] \in Call /\ "lock" \in Label /\ "write" \in Label
  BY <1>1, ShapeFacts DEF Label
<1>3. /\ c \in Call
      /\ c.batch = call[a].batch /\ c.snapshot = call[a].snapshot
      /\ c.successor = call[a].successor /\ c.todo = call[a].todo
      /\ c.pending = call[a].pending /\ c.iterator = call[a].iterator
      /\ c.observed = call[a].observed /\ c.base = {}
  BY <1>2 DEF Call
<1>4. CASE recovery_required
  <2>1. Done(a) /\ publisher_mutex' = publisher_mutex
    BY <1>4, Zenon DEF WriteDecidedGroup
  <2>2. /\ Shape' /\ Others(a) /\ pc'[a] = "idle"
        /\ call'[a].iterator = {} /\ call'[a].base = {} /\ call'[a].observed = 0
    BY <1>1, <2>1, DoneFacts, Zenon
  <2> QED
    BY <1>1, <2>1, <2>2, Zenon DEF Moves, Rests
<1>5. CASE ~recovery_required /\ visible_seq \in call[a].base
  <2>1. /\ pc' = [pc EXCEPT ![a] = "write"] /\ publisher_mutex' = {a}
        /\ call' = [call EXCEPT ![a] = c]
    BY <1>5, Zenon DEF WriteDecidedGroup, Goto
  <2> HIDE DEF c
  <2>2. Shape' /\ Others(a) /\ pc'[a] = "write" /\ call'[a] = c
    BY <1>1, <1>2, <1>3, <2>1, ChangedFacts, Zenon
  <2>3. Kept(a)
    BY <1>3, <2>2, Zenon DEF Kept
  <2> QED
    BY <1>1, <1>3, <1>5, <2>1, <2>2, <2>3, Zenon DEF Moves, Acquires
<1>6. CASE ~recovery_required /\ visible_seq \notin call[a].base
  <2>1. /\ pc' = [pc EXCEPT ![a] = "lock"] /\ publisher_mutex' = publisher_mutex
        /\ call' = [call EXCEPT ![a] = c]
    BY <1>6, Zenon DEF WriteDecidedGroup, Goto
  <2> HIDE DEF c
  <2>2. Shape' /\ Others(a) /\ pc'[a] = "lock" /\ call'[a] = c
    BY <1>1, <1>2, <1>3, <2>1, ChangedFacts, Zenon
  <2> QED
    BY <1>1, <1>3, <2>1, <2>2, Zenon DEF Moves, Rests
<1> QED
  BY <1>4, <1>5, <1>6, Zenon


(* The verdict of a cached chain or of a scan. *)
LEMMA JudgeMoves ==
  ASSUME Typed, NEW a \in Actor, NEW f \in Fact, NEW chain, Judge(a, f, chain), Quiet,
         pc[a] \in {"lookup", "scan"},
         \/ Resident(f) /\ chain = Chain(f)
         \/ \E view \in call[a].iterator : chain = Boundaries(view, f)
  PROVE  Shape' /\ (Rests(a) \/ Settles(a))
<1>1. Shape /\ pc[a] \in {"idle", "predicted", "lock", "lookup", "scan", "decided"}
  BY Zenon DEF Typed
<1>2. call[a] \in Call /\ "lock" \in Label /\ "lookup" \in Label
  BY <1>1, ShapeFacts DEF Label
<1>3. CASE \E w \in Dependencies(a, f) :
             Conflicts(chain, w[2], call[a].successor[w], call[a].snapshot)
  <2>1. Fail(a)
    BY <1>3, Zenon DEF Judge
  <2>2. publisher_mutex' = publisher_mutex \ {a}
    BY <2>1, Zenon DEF Fail
  <2>3. CASE Predicting(a)
    <3> DEFINE c == [Forget(call[a]) EXCEPT !.base = {}]
    <3>1. call' = [call EXCEPT ![a] = c] /\ pc' = [pc EXCEPT ![a] = "lock"]
      BY <2>1, <2>3, Zenon DEF Fail, Goto
    <3>2. c \in Call /\ c.iterator = {} /\ c.observed = 0 /\ c.base = {}
      BY <1>2 DEF Call, Forget
    <3> HIDE DEF c
    <3>3. Shape' /\ Others(a) /\ pc'[a] = "lock" /\ call'[a] = c
      BY <1>1, <1>2, <3>1, <3>2, ChangedFacts, Zenon
    <3> QED
      BY <1>1, <2>2, <3>2, <3>3, Zenon DEF Rests
  <2>4. CASE ~Predicting(a)
    <3>1. Done(a)
      BY <2>1, <2>4, Zenon DEF Fail
    <3>2. /\ Shape' /\ Others(a) /\ pc'[a] = "idle"
          /\ call'[a].iterator = {} /\ call'[a].base = {} /\ call'[a].observed = 0
      BY <1>1, <3>1, DoneFacts, Zenon
    <3> QED
      BY <1>1, <2>2, <3>2, Zenon DEF Rests
  <2> QED
    BY <2>3, <2>4, Zenon
<1>4. CASE \A w \in Dependencies(a, f) :
             ~Conflicts(chain, w[2], call[a].successor[w], call[a].snapshot)
  <2> DEFINE c == [call[a] EXCEPT !.pending = call[a].pending \ Dependencies(a, f),
                                  !.scanning = {}]
  <2>1. /\ pc' = [pc EXCEPT ![a] = "lookup"] /\ publisher_mutex' = publisher_mutex
        /\ call' = [call EXCEPT ![a].pending = @ \ Dependencies(a, f), ![a].scanning = {}]
    BY <1>4, Zenon DEF Judge, Goto
  <2>2. call' = [call EXCEPT ![a] = c]
    BY <1>1, <2>1 DEF Shape, Call
  <2>3. /\ c \in Call
        /\ c.batch = call[a].batch /\ c.snapshot = call[a].snapshot
        /\ c.successor = call[a].successor /\ c.todo = call[a].todo
        /\ c.pending = call[a].pending \ Dependencies(a, f)
        /\ c.iterator = call[a].iterator
        /\ c.observed = call[a].observed /\ c.base = call[a].base
    BY <1>2 DEF Call
  <2> HIDE DEF c
  <2>4. Shape' /\ Others(a) /\ pc'[a] = "lookup" /\ call'[a] = c
    BY <1>1, <1>2, <2>1, <2>2, <2>3, ChangedFacts, Zenon
  <2>5. Kept(a)
    BY <2>3, <2>4, Zenon DEF Kept
  <2>6. Settles(a)
    BY <1>4, <2>1, <2>3, <2>4, <2>5, Zenon DEF Settles
  <2> QED
    BY <2>4, <2>6, Zenon
<1> QED
  BY <1>3, <1>4, Zenon

LEMMA LookupHitMoves ==
  ASSUME Typed, NEW a \in Actor, NEW f \in Fact, LookupHit(a, f)
  PROVE  Shape' /\ Moves(a)
<1>1. /\ Quiet /\ pc[a] \in {"lookup", "scan"} /\ Resident(f) /\ Judge(a, f, Chain(f))
      /\ slots' = Touched(f, Chain(f))
  BY Zenon DEF LookupHit, Quiet, Log, Filtered
<1>2. Shape' /\ (Rests(a) \/ Settles(a))
  BY <1>1, JudgeMoves, Zenon
<1> QED
  BY <1>1, <1>2, Zenon DEF Moves, Refreshes

LEMMA ScanMoves ==
  ASSUME Typed, NEW a \in Actor, Scan(a)
  PROVE  Shape' /\ Moves(a)
<1>1. Quiet /\ pc[a] \in {"lookup", "scan"} /\ Shape
  BY Zenon DEF Scan, Quiet, Log, Filtered, Typed
<1>2. PICK f \in call[a].scanning, view \in call[a].iterator :
        /\ Prime(f, Boundaries(view, f), call[a].observed)
        /\ Judge(a, f, Boundaries(view, f))
  BY Zenon DEF Scan
<1>3. f \in Fact
  <2>1. call[a].scanning \in SUBSET Fact
    BY <1>1, ShapeFacts, CallFields, Zenon
  <2> QED
    BY <2>1, Zenon
<1>4. Shape' /\ (Rests(a) \/ Settles(a))
  BY <1>1, <1>2, <1>3, JudgeMoves, Zenon
<1>5. slots' = slots \/ Refreshes(a)
  <2>1. CASE ~Fits(Boundaries(view, f))
    BY <1>2, <1>3, <2>1, Zenon DEF Prime, Refreshes
  <2>2. CASE publish_generation # call[a].observed /\ Fits(Boundaries(view, f))
    BY <1>2, <2>2, Zenon DEF Prime
  <2>3. CASE publish_generation = call[a].observed /\ Fits(Boundaries(view, f))
    <3>1. slots' = Cached(f, Boundaries(view, f))
      BY <1>2, <2>3, Zenon DEF Prime
    <3> QED
      BY <1>3, <2>3, <3>1, Zenon DEF Refreshes
  <2> QED
    BY <2>1, <2>2, <2>3, Zenon
<1> QED
  BY <1>4, <1>5, Zenon DEF Moves

(* A step that sets what is to do and the program counter. *)
LEMMA TodoFacts ==
  ASSUME Shape, NEW a \in Actor, NEW todo, todo \subseteq Mutations, NEW label \in Label,
         pc' = [pc EXCEPT ![a] = label],
         call' = [call EXCEPT ![a] = [call[a] EXCEPT !.todo = todo]]
  PROVE  /\ Shape' /\ Others(a) /\ Kept(a) /\ pc'[a] = label
         /\ call'[a].todo = todo /\ call'[a].iterator = call[a].iterator
         /\ call'[a].observed = call[a].observed /\ call'[a].base = call[a].base
<1> DEFINE c == [call[a] EXCEPT !.todo = todo]
<1>1. call[a] \in Call
  BY ShapeFacts, Zenon
<1>2. /\ c \in Call
      /\ c.batch = call[a].batch /\ c.snapshot = call[a].snapshot
      /\ c.successor = call[a].successor /\ c.todo = todo
      /\ c.iterator = call[a].iterator /\ c.observed = call[a].observed
      /\ c.base = call[a].base
  BY <1>1 DEF Call
<1>3. call' = [call EXCEPT ![a] = c]
  BY Zenon
<1> HIDE DEF c
<1>4. Shape' /\ Others(a) /\ pc'[a] = label /\ call'[a] = c
  BY <1>2, <1>3, ChangedFacts, Zenon
<1> QED
  BY <1>2, <1>4, Zenon DEF Kept

LEMMA WriteBatchMoves ==
  ASSUME Typed, NEW a \in Actor, WriteBatch(a)
  PROVE  Shape' /\ Moves(a)
<1>1. /\ Shape /\ pc[a] = "write" /\ publisher_mutex' = publisher_mutex
      /\ db' = db \cup NewRows(a) /\ UNCHANGED <<visible_seq, recovery_required, caches>>
      /\ pc' = [pc EXCEPT ![a] = "index"]
      /\ call' = [call EXCEPT ![a] = [call[a] EXCEPT !.todo = call[a].batch]]
  BY Zenon DEF WriteBatch, Goto, Typed
<1>2. "index" \in Label
  BY DEF Label
<1>3. call[a].batch \subseteq Mutations
  BY <1>1, ShapeFacts, CallFields, Zenon
<1>4. /\ Shape' /\ Others(a) /\ Kept(a) /\ pc'[a] = "index"
      /\ call'[a].todo = call[a].batch /\ call'[a].iterator = call[a].iterator
      /\ call'[a].observed = call[a].observed /\ call'[a].base = call[a].base
  BY <1>1, <1>2, <1>3, TodoFacts, Zenon
<1> QED
  BY <1>1, <1>4, Zenon DEF Moves, Saves

LEMMA WriteFailsMoves ==
  ASSUME Typed, NEW a \in Actor, NEW durable \in BOOLEAN, NEW poisoned \in BOOLEAN,
         WriteFails(a, durable, poisoned)
  PROVE  Shape' /\ Moves(a)
<1>1. /\ Shape /\ pc[a] = "write" /\ publisher_mutex' = {} /\ Done(a)
      /\ UNCHANGED <<visible_seq, caches>> /\ recovery_required' = poisoned
      /\ durable => poisoned
      /\ db' = IF durable THEN db \cup NewRows(a) ELSE db
  BY Zenon DEF WriteFails, Typed
<1>2. /\ Shape' /\ Others(a) /\ pc'[a] = "idle"
      /\ call'[a].iterator = {} /\ call'[a].base = {} /\ call'[a].observed = 0
  BY <1>1, DoneFacts, Zenon
<1>3. recovery_required' \in BOOLEAN
  BY <1>1, Zenon
<1>4. db' = db \/ (db' = db \cup NewRows(a) /\ recovery_required')
  <2>1. CASE durable
    BY <1>1, <2>1, Zenon
  <2>2. CASE ~durable
    BY <1>1, <2>2, Zenon
  <2> QED
    BY <2>1, <2>2, Zenon
<1> QED
  BY <1>1, <1>2, <1>3, <1>4, Zenon DEF Moves, Loses

LEMMA PublishRecentMoves ==
  ASSUME Typed, NEW a \in Actor, NEW w \in call[a].todo, PublishRecent(a, w)
  PROVE  Shape' /\ Moves(a)
<1>1. /\ Shape /\ pc[a] = "index" /\ PublishWrite(w[1], visible_seq + 1)
      /\ identity_history' = IF history_disabled THEN {} ELSE identity_history \cup {w[1]}
      /\ UNCHANGED <<Log, publisher_mutex, history_disabled, slots, publish_generation>>
  BY Zenon DEF PublishRecent, Log, store, Typed
<1>2. "index" \in Label /\ "generation" \in Label
  BY DEF Label
<1>3. call[a].batch \subseteq Mutations /\ call[a].todo \ {w} \subseteq Mutations
  BY <1>1, ShapeFacts, CallFields, Zenon
<1>4. CASE call[a].todo = {w}
  <2>1. /\ pc' = [pc EXCEPT ![a] = "generation"]
        /\ call' = [call EXCEPT ![a] = [call[a] EXCEPT !.todo = call[a].batch]]
    BY <1>4, Zenon DEF PublishRecent, Goto
  <2>2. /\ Shape' /\ Others(a) /\ Kept(a) /\ pc'[a] = "generation"
        /\ call'[a].todo = call[a].batch /\ call'[a].iterator = call[a].iterator
        /\ call'[a].observed = call[a].observed /\ call'[a].base = call[a].base
    BY <1>1, <1>2, <1>3, <2>1, TodoFacts, Zenon
  <2> QED
    BY <1>1, <1>4, <2>2, Zenon DEF Moves, Indexes
<1>5. CASE call[a].todo # {w}
  <2>1. /\ pc' = [pc EXCEPT ![a] = "index"]
        /\ call' = [call EXCEPT ![a] = [call[a] EXCEPT !.todo = call[a].todo \ {w}]]
    <3>1. pc' = pc /\ call' = [call EXCEPT ![a].todo = @ \ {w}]
      BY <1>5, Zenon DEF PublishRecent
    <3>2. [pc EXCEPT ![a] = "index"] = pc
      BY <1>1, Zenon DEF Shape
    <3> QED
      BY <3>1, <3>2, Zenon
  <2>2. /\ Shape' /\ Others(a) /\ Kept(a) /\ pc'[a] = "index"
        /\ call'[a].todo = call[a].todo \ {w} /\ call'[a].iterator = call[a].iterator
        /\ call'[a].observed = call[a].observed /\ call'[a].base = call[a].base
    BY <1>1, <1>2, <1>3, <2>1, TodoFacts, Zenon
  <2> QED
    BY <1>1, <2>2, Zenon DEF Moves, Indexes
<1> QED
  BY <1>4, <1>5, Zenon

LEMMA PublishGenerationMoves ==
  ASSUME Typed, NEW a \in Actor, PublishGeneration(a)
  PROVE  Shape' /\ Moves(a)
<1>1. /\ Shape /\ pc[a] = "generation" /\ publish_generation' = publish_generation + 1
      /\ pc' = [pc EXCEPT ![a] = "chain"] /\ call' = call
      /\ UNCHANGED <<Log, publisher_mutex, Filtered, slots>>
  BY Zenon DEF PublishGeneration, Goto, Log, Filtered, store, Typed
<1>2. call[a] \in Call /\ "chain" \in Label
  BY <1>1, ShapeFacts DEF Label
<1>3. call' = [call EXCEPT ![a] = call[a]]
  BY <1>1, Zenon DEF Shape
<1>4. Shape' /\ Others(a) /\ pc'[a] = "chain" /\ call'[a] = call[a]
  BY <1>1, <1>2, <1>3, ChangedFacts, Zenon
<1> QED
  BY <1>1, <1>4, Zenon DEF Moves, Announces

LEMMA PublishChainMoves ==
  ASSUME Typed, NEW a \in Actor, NEW w \in call[a].todo, PublishChain(a, w)
  PROVE  Shape' /\ Moves(a)
<1> DEFINE label == IF call[a].todo = {w} THEN "visible" ELSE "generation"
           chain == InsertBoundary(Chain(w[1]), <<w[2], visible_seq + 1>>)
<1>1. /\ Shape /\ pc[a] = "chain" /\ Quiet /\ publisher_mutex' = publisher_mutex
      /\ pc' = [pc EXCEPT ![a] = label]
      /\ call' = [call EXCEPT ![a] = [call[a] EXCEPT !.todo = call[a].todo \ {w}]]
      /\ slots' = IF ~Resident(w[1]) THEN slots
                  ELSE IF Fits(chain) THEN Touched(w[1], chain) ELSE Without(w[1])
  BY Zenon DEF PublishChain, Goto, Quiet, Log, Filtered, store, Typed
<1>2. label \in Label
  BY DEF Label
<1>3. call[a].todo \ {w} \subseteq Mutations
  BY <1>1, ShapeFacts, CallFields, Zenon
<1>4. \/ ~Resident(w[1]) /\ slots' = slots
      \/ slots' = Without(w[1])
      \/ Resident(w[1]) /\ slots' = Touched(w[1], chain)
  <2>1. CASE ~Resident(w[1])
    BY <1>1, <2>1, Zenon
  <2>2. CASE Resident(w[1]) /\ Fits(chain)
    BY <1>1, <2>2, Zenon
  <2>3. CASE Resident(w[1]) /\ ~Fits(chain)
    BY <1>1, <2>3, Zenon
  <2> QED
    BY <2>1, <2>2, <2>3, Zenon
<1> HIDE DEF label
<1>5. /\ Shape' /\ Others(a) /\ Kept(a) /\ pc'[a] = label
      /\ call'[a].todo = call[a].todo \ {w} /\ call'[a].iterator = call[a].iterator
      /\ call'[a].observed = call[a].observed /\ call'[a].base = call[a].base
  BY <1>1, <1>2, <1>3, TodoFacts, Zenon
<1> QED
  BY <1>1, <1>4, <1>5, Zenon DEF Moves, Inserts, label

LEMMA PublishVisibleMoves ==
  ASSUME Typed, NEW a \in Actor, PublishVisible(a)
  PROVE  Shape' /\ Moves(a)
<1>1. /\ Shape /\ pc[a] = "visible" /\ visible_seq' = visible_seq + 1
      /\ publisher_mutex' = {} /\ Done(a) /\ UNCHANGED <<db, recovery_required, caches>>
  BY Zenon DEF PublishVisible, Typed
<1>2. /\ Shape' /\ Others(a) /\ pc'[a] = "idle"
      /\ call'[a].iterator = {} /\ call'[a].base = {} /\ call'[a].observed = 0
  BY <1>1, DoneFacts, Zenon
<1> QED
  BY <1>1, <1>2, Zenon DEF Moves, Shows

(* Every step is the move of one actor, a reopening, or none. *)
LEMMA NextMoves ==
  ASSUME Typed, [Next]_vars
  PROVE  \/ \E a \in Actor : Shape' /\ Moves(a)
         \/ \E skip \in BOOLEAN : Reopen(skip)
         \/ UNCHANGED vars
<1>1. ASSUME NEW a \in Actor,
             \/ \E request \in Requests, snap \in 0..visible_seq : Submit(a, request, snap)
             \/ StartDirect(a)
             \/ \E w \in call[a].todo : CheckFilters(a, w)
             \/ CaptureGeneration(a)
             \/ \E f \in Fact : LookupHit(a, f) \/ LookupMiss(a, f)
             \/ Scan(a)
             \/ Validated(a)
      PROVE  Shape' /\ Moves(a)
  BY <1>1, SubmitMoves, StartDirectMoves, CheckFiltersMoves, CaptureGenerationMoves,
     LookupHitMoves, LookupMissMoves, ScanMoves, ValidatedMoves, Zenon
<1>2. ASSUME NEW a \in Actor,
             \/ WriteBatch(a)
             \/ \E durable, poisoned \in BOOLEAN : WriteFails(a, durable, poisoned)
             \/ \E w \in call[a].todo : PublishRecent(a, w) \/ PublishChain(a, w)
             \/ PublishGeneration(a)
             \/ PublishVisible(a)
      PROVE  Shape' /\ Moves(a)
  BY <1>2, WriteBatchMoves, WriteFailsMoves, PublishRecentMoves, PublishChainMoves,
     PublishGenerationMoves, PublishVisibleMoves, Zenon
<1>3. ASSUME \/ \E current \in BOOLEAN : StartPredicted(current)
             \/ WriteDecidedGroup
      PROVE  \E a \in Actor : Shape' /\ Moves(a)
  BY <1>3, CachesAssumption, StartPredictedMoves, WriteDecidedGroupMoves, Zenon
<1> QED
  BY <1>1, <1>2, <1>3, Zenon DEF Next


-----------------------------------------------------------------------------
(* Who is where: publisher_mutex has one holder, and only the worker       *)
(* validates without it.                                                   *)

Validating(a) == pc[a] \in {"filter", "lookup", "scan"}
Publishing(a) == pc[a] \in {"index", "generation", "chain", "visible"}
Owns(a) == pc[a] = "write" \/ Publishing(a) \/ (Validating(a) /\ ~Predicting(a))

Locks ==
  /\ recovery_required => publisher_mutex = {}
  /\ \A a \in Actor :
       /\ Owns(a) => publisher_mutex = {a}
       /\ Predicting(a) => a = Worker /\ (Validating(a) \/ pc[a] = "decided")
       /\ pc[a] = "decided" => Predicting(a)

LEMMA OneOwner ==
  ASSUME Locks, NEW a \in Actor, NEW b \in Actor, Owns(a), Owns(b)
  PROVE  a = b
BY Zenon DEF Locks

LEMMA OwnerSafe ==
  ASSUME Locks, NEW a \in Actor, Owns(a)
  PROVE  ~recovery_required
BY Zenon DEF Locks

(* What a move does to the mutex leaves another owner alone. *)
LEMMA MutexMoves ==
  ASSUME Locks, NEW a \in Actor, Moves(a)
  PROVE  /\ Others(a)
         /\ recovery_required' => publisher_mutex' = {}
         /\ \A b \in Actor : b # a /\ publisher_mutex = {b} => publisher_mutex' = {b}
<1>1. Others(a)
  BY Zenon DEF Moves, Rests, Settles, Starts, Filters1, Captures, Looks, Passes, Acquires,
     Saves, Loses, Indexes, Announces, Inserts, Shows
<1>2. CASE publisher_mutex' = publisher_mutex /\ recovery_required' = recovery_required
  BY <1>1, <1>2, Zenon DEF Locks
<1>3. CASE Rests(a)
  BY <1>1, <1>3, Zenon DEF Locks, Rests, Quiet, Log
<1>4. CASE Starts(a)
  BY <1>1, <1>4, Zenon DEF Locks, Starts, Quiet, Log
<1>5. CASE Acquires(a)
  BY <1>1, <1>5, Zenon DEF Locks, Acquires, Quiet, Log
<1>6. CASE Loses(a) \/ Shows(a)
  <2>1. publisher_mutex = {a} /\ publisher_mutex' = {}
    BY <1>6, Zenon DEF Locks, Owns, Publishing, Loses, Shows
  <2> QED
    BY <1>1, <2>1, Zenon
<1> QED
  BY <1>2, <1>3, <1>4, <1>5, <1>6, Zenon DEF Moves, Settles, Filters1, Captures, Looks,
     Passes, Saves, Indexes, Announces, Inserts, Quiet, Log

LEMMA LocksStep ==
  ASSUME Locks, NEW a \in Actor, Moves(a)
  PROVE  Locks'
<1> USE DEF Owns, Validating, Publishing, Predicting
<1>1. /\ Others(a)
      /\ recovery_required' => publisher_mutex' = {}
      /\ \A b \in Actor : b # a /\ publisher_mutex = {b} => publisher_mutex' = {b}
  BY MutexMoves, Zenon
<1>2. ASSUME NEW b \in Actor, b # a
      PROVE  /\ Owns(b)' => publisher_mutex' = {b}
             /\ Predicting(b)' => b = Worker /\ (Validating(b)' \/ pc'[b] = "decided")
             /\ pc'[b] = "decided" => Predicting(b)'
  <2>1. pc'[b] = pc[b] /\ call'[b] = call[b]
    BY <1>1, <1>2, Zenon DEF Others
  <2> QED
    BY <1>1, <1>2, <2>1, Zenon DEF Locks
<1>3. /\ Owns(a)' => publisher_mutex' = {a}
      /\ Predicting(a)' => a = Worker /\ (Validating(a)' \/ pc'[a] = "decided")
      /\ pc'[a] = "decided" => Predicting(a)'
  <2>1. CASE Rests(a)
    <3>1. call'[a].base = {}
      <4>1. CASE call'[a].base = {}
        BY <4>1
      <4>2. CASE pc[a] = "predicted" /\ call'[a].base = call[a].base
        BY <4>2 DEF Locks
      <4> QED
        BY <2>1, <4>1, <4>2, Zenon DEF Rests
    <3> QED
      BY <2>1, <3>1 DEF Rests
  <2>2. CASE Starts(a)
    BY <2>2 DEF Starts
  <2>3. CASE Filters1(a) \/ Captures(a) \/ Looks(a) \/ Settles(a)
    <3>1. Validating(a) /\ Validating(a)' /\ publisher_mutex' = publisher_mutex
      BY <2>3 DEF Filters1, Captures, Looks, Settles
    <3>2. call'[a].base = call[a].base /\ pc'[a] # "decided"
      BY <2>3 DEF Filters1, Captures, Looks, Settles
    <3> QED
      BY <3>1, <3>2 DEF Locks
  <2>4. CASE Passes(a)
    BY <2>4 DEF Locks, Passes
  <2>5. CASE Acquires(a)
    BY <2>5 DEF Acquires
  <2>6. CASE Loses(a) \/ Shows(a)
    BY <2>6 DEF Loses, Shows
  <2>7. CASE Saves(a) \/ Indexes(a) \/ Announces(a) \/ Inserts(a)
    <3>1. /\ publisher_mutex' = publisher_mutex /\ call'[a].base = call[a].base
          /\ pc[a] = "write" \/ Publishing(a)
          /\ Publishing(a)'
      BY <2>7, Zenon DEF Saves, Indexes, Announces, Inserts
    <3> QED
      BY <3>1 DEF Locks
  <2> QED
    BY <2>1, <2>2, <2>3, <2>4, <2>5, <2>6, <2>7, Zenon DEF Moves
<1> QED
  BY <1>1, <1>2, <1>3, Zenon DEF Locks


-----------------------------------------------------------------------------
(* The rows of the facts column family, and what the filters know of them. *)

LEMMA NewRowsFacts ==
  ASSUME Typed, NEW a \in Actor
  PROVE  /\ NewRows(a) \subseteq Row
         /\ \A r \in NewRows(a) : \E w \in call[a].batch :
              r.fact = w[1] /\ r.from = w[2] /\ r.seq = visible_seq + 1
         /\ \A w \in call[a].batch : \E r \in NewRows(a) :
              r.fact = w[1] /\ r.from = w[2] /\ r.seq = visible_seq + 1
<1>1. call[a].batch \subseteq Fact \X Int /\ visible_seq + 1 \in Nat
  BY ShapeFacts, CallFields DEF Typed, Mutations
<1> DEFINE row(w) == [fact |-> w[1], from |-> w[2], seq |-> visible_seq + 1]
<1>2. ASSUME NEW w \in call[a].batch
      PROVE  /\ row(w) \in Row /\ row(w).fact = w[1] /\ row(w).from = w[2]
             /\ row(w).seq = visible_seq + 1
  <2>1. w[1] \in Fact /\ w[2] \in Int
    BY <1>1
  <2> QED
    BY <1>1, <2>1 DEF Row
<1>3. NewRows(a) = {row(w) : w \in call[a].batch}
  BY Zenon DEF NewRows
<1> HIDE DEF row
<1>4. ASSUME NEW r \in NewRows(a)
      PROVE  /\ r \in Row
             /\ \E w \in call[a].batch :
                  r.fact = w[1] /\ r.from = w[2] /\ r.seq = visible_seq + 1
  <2>1. PICK w \in call[a].batch : r = row(w)
    BY <1>3, Zenon
  <2>2. /\ row(w) \in Row /\ row(w).fact = w[1] /\ row(w).from = w[2]
        /\ row(w).seq = visible_seq + 1
    BY <1>2, Zenon
  <2> QED
    BY <2>1, <2>2, Zenon
<1>5. ASSUME NEW w \in call[a].batch
      PROVE  \E r \in NewRows(a) :
               r.fact = w[1] /\ r.from = w[2] /\ r.seq = visible_seq + 1
  BY <1>2, <1>3, Zenon
<1> QED
  BY <1>4, <1>5, Zenon

LEMMA SameRows ==
  ASSUME NEW a, call'[a].batch = call[a].batch, visible_seq' = visible_seq
  PROVE  NewRows(a)' = NewRows(a)
BY Zenon DEF NewRows

LEMMA TypedStep ==
  ASSUME Typed, NEW a \in Actor, Moves(a), Shape'
  PROVE  Typed'
<1>1. NewRows(a) \subseteq Row
  BY NewRowsFacts, Zenon
<1>2. db' = db \/ db' = db \cup NewRows(a)
  BY Zenon DEF Moves, Rests, Settles, Starts, Filters1, Captures, Looks, Passes, Acquires,
     Saves, Loses, Indexes, Announces, Inserts, Shows, Quiet, Log
<1>3. db' \subseteq Row
  BY <1>1, <1>2, Zenon DEF Typed
<1>4. visible_seq' = visible_seq \/ visible_seq' = visible_seq + 1
  BY Zenon DEF Moves, Rests, Settles, Starts, Filters1, Captures, Looks, Passes, Acquires,
     Saves, Loses, Indexes, Announces, Inserts, Shows, Quiet, Log
<1>5. publish_generation' = publish_generation
      \/ publish_generation' = publish_generation + 1
  BY Zenon DEF Moves, Rests, Settles, Starts, Filters1, Captures, Looks, Passes, Acquires,
     Saves, Loses, Indexes, Announces, Inserts, Shows, Quiet, caches
<1>6. recovery_required' = recovery_required \/ recovery_required' \in BOOLEAN
  BY Zenon DEF Moves, Rests, Settles, Starts, Filters1, Captures, Looks, Passes, Acquires,
     Saves, Loses, Indexes, Announces, Inserts, Shows, Quiet, Log
<1>7. visible_seq' \in Nat /\ publish_generation' \in Nat
  BY <1>4, <1>5 DEF Typed
<1>8. recovery_required' \in BOOLEAN
  BY <1>6, Zenon DEF Typed
<1> QED
  BY <1>3, <1>7, <1>8, Zenon DEF Typed

Past ==
  \A a \in Actor : /\ \A n \in call[a].base : n <= visible_seq
                   /\ call[a].observed <= publish_generation

LEMMA PastStep ==
  ASSUME Typed, Typed', Past, NEW a \in Actor, Moves(a), Others(a)
  PROVE  Past'
<1>1. visible_seq' = visible_seq \/ visible_seq' = visible_seq + 1
  BY Zenon DEF Moves, Rests, Settles, Starts, Filters1, Captures, Looks, Passes, Acquires,
     Saves, Loses, Indexes, Announces, Inserts, Shows, Quiet, Log
<1>2. publish_generation' = publish_generation
      \/ publish_generation' = publish_generation + 1
  BY Zenon DEF Moves, Rests, Settles, Starts, Filters1, Captures, Looks, Passes, Acquires,
     Saves, Loses, Indexes, Announces, Inserts, Shows, Quiet, caches
<1>3. visible_seq \in Nat /\ publish_generation \in Nat
  BY Zenon DEF Typed
<1>4. ASSUME NEW b \in Actor
      PROVE  call[b].base \subseteq Nat /\ call[b].observed \in Nat
  BY ShapeFacts, CallFields, Zenon DEF Typed
<1>5. ASSUME NEW b \in Actor,
             call'[b].base = call[b].base \/ call'[b].base = {}
               \/ call'[b].base = {visible_seq},
             \/ call'[b].observed = call[b].observed \/ call'[b].observed = 0
             \/ call'[b].observed = publish_generation
      PROVE  /\ \A n \in call'[b].base : n <= visible_seq'
             /\ call'[b].observed <= publish_generation'
  <2>1. \A n \in call[b].base : n \in Nat /\ n <= visible_seq
    BY <1>4, Zenon DEF Past
  <2>2. ASSUME NEW n \in call'[b].base
        PROVE  n \in Nat /\ n <= visible_seq
    <3>1. n \in call[b].base \/ n = visible_seq
      BY <1>5, <2>2, Zenon
    <3> QED
      BY <1>3, <2>1, <3>1
  <2>3. call[b].observed <= publish_generation /\ call[b].observed \in Nat
    BY <1>4, Zenon DEF Past
  <2>4. \A n \in call'[b].base : n <= visible_seq'
    BY <1>1, <1>3, <2>2
  <2>5. call'[b].observed <= publish_generation'
    BY <1>2, <1>3, <1>5, <2>3
  <2> QED
    BY <2>4, <2>5, Zenon
<1>6. /\ call'[a].base = call[a].base \/ call'[a].base = {}
           \/ call'[a].base = {visible_seq}
      /\ \/ call'[a].observed = call[a].observed \/ call'[a].observed = 0
         \/ call'[a].observed = publish_generation
  <2>1. CASE Rests(a) \/ Settles(a)
    BY <2>1, Zenon DEF Rests, Settles
  <2>2. CASE Starts(a) \/ Filters1(a) \/ Captures(a) \/ Looks(a) \/ Passes(a) \/ Acquires(a)
    BY <2>2, Zenon DEF Starts, Filters1, Captures, Looks, Passes, Acquires
  <2>3. CASE Saves(a) \/ Loses(a) \/ Indexes(a) \/ Announces(a) \/ Inserts(a) \/ Shows(a)
    BY <2>3, Zenon DEF Saves, Loses, Indexes, Announces, Inserts, Shows
  <2> QED
    BY <2>1, <2>2, <2>3, Zenon DEF Moves
<1> QED
  BY <1>5, <1>6, Zenon DEF Past, Others


(* The index and the history have the write of f at s. *)
Noted(f, s) == <<f, s>> \in written /\ MightContain(f)

(* Every row that is visible is noted; the rows beyond are those of the    *)
(* one publication under way, or of a write that asked for a reopen.       *)
RowLogged(r) ==
  /\ r.seq <= visible_seq + 1
  /\ r.seq <= visible_seq => Noted(r.fact, r.seq)
  /\ r.seq = visible_seq + 1 =>
       recovery_required \/ \E p \in Actor : Publishing(p) /\ r \in NewRows(p)

PublisherLogged(p) ==
  /\ NewRows(p) \subseteq db
  /\ call[p].todo \subseteq call[p].batch
  /\ pc[p] = "visible" => call[p].todo = {}
  /\ \A w \in call[p].batch :
       Noted(w[1], visible_seq + 1) \/ (pc[p] = "index" /\ w \in call[p].todo)

Logged ==
  /\ \A r \in db : RowLogged(r)
  /\ \A p \in Actor : Publishing(p) => PublisherLogged(p)

(* A move that leaves the log and notes what was noted. *)
LEMMA LoggedKept ==
  ASSUME Logged, NEW a \in Actor, Others(a), UNCHANGED Log,
         \A f, s : Noted(f, s) => Noted(f, s)',
         Publishing(a) => Publishing(a)' /\ call'[a].batch = call[a].batch,
         Publishing(a)' => PublisherLogged(a)'
  PROVE  Logged'
<1>1. db' = db /\ visible_seq' = visible_seq /\ recovery_required' = recovery_required
  BY Zenon DEF Log
<1>2. ASSUME NEW p \in Actor, p # a
      PROVE  pc'[p] = pc[p] /\ call'[p] = call[p] /\ NewRows(p)' = NewRows(p)
  BY <1>1, <1>2, SameRows, Zenon DEF Others
<1>3. ASSUME NEW p \in Actor, Publishing(p)
      PROVE  Publishing(p)' /\ NewRows(p)' = NewRows(p)
  <2>1. CASE p = a
    BY <1>1, <1>3, <2>1, SameRows, Zenon
  <2>2. CASE p # a
    BY <1>2, <1>3, <2>2, Zenon DEF Publishing
  <2> QED
    BY <2>1, <2>2, Zenon
<1>4. ASSUME NEW r \in db
      PROVE  RowLogged(r)'
  <2>1. RowLogged(r)
    BY Zenon DEF Logged
  <2> QED
    BY <1>1, <1>3, <2>1, Zenon DEF RowLogged
<1>5. ASSUME NEW p \in Actor, Publishing(p)'
      PROVE  PublisherLogged(p)'
  <2>1. CASE p = a
    BY <1>5, <2>1, Zenon
  <2>2. CASE p # a
    <3>1. PublisherLogged(p) /\ pc'[p] = pc[p] /\ call'[p] = call[p]
          /\ NewRows(p)' = NewRows(p)
      BY <1>2, <1>5, <2>2, Zenon DEF Logged, Publishing
    <3> QED
      BY <1>1, <3>1, Zenon DEF PublisherLogged
  <2> QED
    BY <2>1, <2>2, Zenon
<1> QED
  BY <1>1, <1>4, <1>5, Zenon DEF Logged

(* Moves that are no publication. *)
Aside(a) ==
  \/ (Rests(a) \/ Settles(a)) /\ (slots' = slots \/ Refreshes(a))
  \/ Starts(a) \/ Filters1(a) \/ Captures(a) \/ Looks(a) \/ Passes(a) \/ Acquires(a)

LEMMA AsideFacts ==
  ASSUME NEW a \in Actor, Aside(a)
  PROVE  Quiet /\ Others(a) /\ ~Publishing(a) /\ ~Publishing(a)' /\ pc[a] # "write"
<1>1. Quiet /\ Others(a)
  BY Zenon DEF Aside, Rests, Settles, Starts, Filters1, Captures, Looks, Passes, Acquires
<1>2. CASE Rests(a)
  BY <1>2 DEF Rests, Publishing
<1>3. CASE Settles(a) \/ Starts(a) \/ Filters1(a) \/ Captures(a) \/ Looks(a)
  BY <1>3 DEF Settles, Starts, Filters1, Captures, Looks, Publishing
<1>4. CASE Passes(a) \/ Acquires(a)
  BY <1>4 DEF Passes, Acquires, Publishing
<1> QED
  BY <1>1, <1>2, <1>3, <1>4, Zenon DEF Aside

LEMMA MovesSplit ==
  ASSUME NEW a \in Actor, Moves(a)
  PROVE  \/ Aside(a) \/ Saves(a) \/ Loses(a) \/ Indexes(a) \/ Announces(a) \/ Inserts(a)
         \/ Shows(a)
BY Zenon DEF Moves, Aside

LEMMA NotedSame ==
  ASSUME NEW f, NEW s, UNCHANGED Filtered
  PROVE  Noted(f, s)' = Noted(f, s)
BY Zenon DEF Noted, Filtered, MightContain

LEMMA AsideLogged ==
  ASSUME Logged, NEW a \in Actor, Aside(a)
  PROVE  Logged'
<1>1. UNCHANGED Log /\ UNCHANGED Filtered /\ Others(a) /\ ~Publishing(a) /\ ~Publishing(a)'
  BY AsideFacts, Zenon DEF Quiet
<1>2. \A f, s : Noted(f, s) => Noted(f, s)'
  BY <1>1, NotedSame, Zenon
<1> QED
  BY <1>1, <1>2, LoggedKept, Zenon

LEMMA AnnouncesLogged ==
  ASSUME Logged, NEW a \in Actor, Announces(a)
  PROVE  Logged'
<1>1. /\ UNCHANGED Log /\ UNCHANGED Filtered /\ Others(a) /\ call'[a] = call[a]
      /\ db' = db /\ visible_seq' = visible_seq
      /\ pc[a] = "generation" /\ pc'[a] = "chain"
  BY Zenon DEF Announces, Log
<1>2. \A f, s : Noted(f, s) => Noted(f, s)'
  BY <1>1, NotedSame, Zenon
<1>3. Publishing(a) /\ Publishing(a)' /\ pc[a] # "index" /\ pc'[a] # "visible"
  BY <1>1 DEF Publishing
<1>4. PublisherLogged(a) /\ NewRows(a)' = NewRows(a)
  BY <1>1, <1>3, SameRows, Zenon DEF Logged
<1>5. PublisherLogged(a)'
  BY <1>1, <1>2, <1>3, <1>4, Zenon DEF PublisherLogged
<1> QED
  BY <1>1, <1>2, <1>3, <1>5, LoggedKept, Zenon

LEMMA InsertsLogged ==
  ASSUME Logged, NEW a \in Actor, Inserts(a)
  PROVE  Logged'
<1>1. /\ UNCHANGED Log /\ UNCHANGED Filtered /\ Others(a)
      /\ call'[a].batch = call[a].batch
      /\ db' = db /\ visible_seq' = visible_seq /\ pc[a] = "chain"
  BY Zenon DEF Inserts, Quiet, Log, Kept
<1>2. PICK w \in call[a].todo :
        /\ call'[a].todo = call[a].todo \ {w}
        /\ pc'[a] = IF call[a].todo = {w} THEN "visible" ELSE "generation"
  BY Zenon DEF Inserts
<1>3. \A f, s : Noted(f, s) => Noted(f, s)'
  BY <1>1, NotedSame, Zenon
<1>4. Publishing(a) /\ pc[a] # "index"
  BY <1>1 DEF Publishing
<1>5. Publishing(a)' /\ (pc'[a] = "visible" => call[a].todo = {w})
  <2>1. CASE call[a].todo = {w}
    BY <1>2, <2>1, Zenon DEF Publishing
  <2>2. CASE call[a].todo # {w}
    BY <1>2, <2>2 DEF Publishing
  <2> QED
    BY <2>1, <2>2, Zenon
<1>6. PublisherLogged(a) /\ NewRows(a)' = NewRows(a)
  BY <1>1, <1>4, SameRows, Zenon DEF Logged
<1>7. pc'[a] = "visible" => call'[a].todo = {}
  BY <1>2, <1>5, Zenon
<1>8. PublisherLogged(a)'
  BY <1>1, <1>2, <1>3, <1>4, <1>6, <1>7, Zenon DEF PublisherLogged
<1> QED
  BY <1>1, <1>3, <1>4, <1>5, <1>8, LoggedKept, Zenon

LEMMA IndexesLogged ==
  ASSUME Logged, NEW a \in Actor, Indexes(a)
  PROVE  Logged'
<1>1. /\ UNCHANGED Log /\ Others(a) /\ call'[a].batch = call[a].batch
      /\ db' = db /\ visible_seq' = visible_seq /\ pc[a] = "index"
      /\ history_disabled' = history_disabled
  BY Zenon DEF Indexes, Log, Kept
<1>2. PICK w \in call[a].todo :
       /\ PublishWrite(w[1], visible_seq + 1)
       /\ identity_history' = IF history_disabled THEN {} ELSE identity_history \cup {w[1]}
       /\ \/ /\ call[a].todo = {w} /\ pc'[a] = "generation"
             /\ call'[a].todo = call[a].batch
          \/ pc'[a] = "index" /\ call'[a].todo = call[a].todo \ {w}
  BY Zenon DEF Indexes
<1>3. written' = written \cup {<<w[1], visible_seq + 1>>}
  BY <1>2, Zenon DEF PublishWrite
<1>4. (\A f, s : Noted(f, s) => Noted(f, s)') /\ Noted(w[1], visible_seq + 1)'
  <2>1. CASE history_disabled
    BY <1>1, <1>3, <2>1, Zenon DEF Noted, MightContain
  <2>2. CASE ~history_disabled
    <3>1. identity_history' = identity_history \cup {w[1]}
      BY <1>2, <2>2, Zenon
    <3> QED
      BY <1>1, <1>3, <2>2, <3>1, Zenon DEF Noted, MightContain
  <2> QED
    BY <2>1, <2>2, Zenon
<1>5. Publishing(a) /\ Publishing(a)' /\ pc'[a] # "visible"
  BY <1>1, <1>2 DEF Publishing
<1>6. PublisherLogged(a) /\ NewRows(a)' = NewRows(a)
  BY <1>1, <1>5, SameRows, Zenon DEF Logged
<1>7. ASSUME NEW v \in call[a].batch
      PROVE  Noted(v[1], visible_seq + 1)' \/ (pc'[a] = "index" /\ v \in call'[a].todo)
  <2>1. CASE Noted(v[1], visible_seq + 1)
    BY <1>1, <1>4, <2>1, Zenon
  <2>2. CASE v = w
    BY <1>4, <2>2, Zenon
  <2>3. CASE v # w /\ v \in call[a].todo
    BY <1>2, <2>3, Zenon
  <2> QED
    BY <1>6, <2>1, <2>2, <2>3, Zenon DEF PublisherLogged
<1>8. call'[a].todo \subseteq call'[a].batch /\ NewRows(a)' \subseteq db'
  BY <1>1, <1>2, <1>6, Zenon DEF PublisherLogged
<1>9. \A v \in call'[a].batch :
        Noted(v[1], visible_seq + 1)' \/ (pc'[a] = "index" /\ v \in call'[a].todo)
  BY <1>1, <1>7, Zenon
<1>10. PublisherLogged(a)'
  BY <1>1, <1>5, <1>8, <1>9, Zenon DEF PublisherLogged
<1> QED
  BY <1>1, <1>4, <1>5, <1>10, LoggedKept, Zenon


LEMMA SavesLogged ==
  ASSUME Typed, Locks, Logged, NEW a \in Actor, Saves(a)
  PROVE  Logged'
<1>1. /\ Others(a) /\ call'[a].batch = call[a].batch /\ call'[a].todo = call[a].batch
      /\ db' = db \cup NewRows(a) /\ visible_seq' = visible_seq
      /\ recovery_required' = recovery_required /\ UNCHANGED Filtered
      /\ pc[a] = "write" /\ pc'[a] = "index"
  BY Zenon DEF Saves, Kept, caches, Filtered
<1>2. \A f, s : Noted(f, s) => Noted(f, s)'
  BY <1>1, NotedSame, Zenon
<1>3. ~Publishing(a) /\ Publishing(a)' /\ pc'[a] # "visible"
  BY <1>1 DEF Publishing
<1>4. NewRows(a)' = NewRows(a)
  BY <1>1, SameRows, Zenon
<1>5. ASSUME NEW p \in Actor, p # a
      PROVE  pc'[p] = pc[p] /\ call'[p] = call[p] /\ NewRows(p)' = NewRows(p)
  BY <1>1, <1>5, SameRows, Zenon DEF Others
<1>6. ASSUME NEW r \in NewRows(a)
      PROVE  RowLogged(r)'
  <2>1. r.seq = visible_seq + 1 /\ visible_seq \in Nat
    BY NewRowsFacts, Zenon DEF Typed
  <2>2. r.seq <= visible_seq' + 1 /\ ~(r.seq <= visible_seq')
    BY <1>1, <2>1
  <2> QED
    BY <1>3, <1>4, <2>2, Zenon DEF RowLogged
<1>7. ASSUME NEW r \in db
      PROVE  RowLogged(r)'
  <2>1. RowLogged(r)
    BY Zenon DEF Logged
  <2>2. \A p \in Actor : Publishing(p) => p # a
    BY <1>3, Zenon
  <2>3. ASSUME NEW p \in Actor, Publishing(p)
        PROVE  Publishing(p)' /\ NewRows(p)' = NewRows(p)
    BY <1>5, <2>2, <2>3, Zenon DEF Publishing
  <2> QED
    BY <1>1, <1>2, <2>1, <2>3, Zenon DEF RowLogged
<1>8. PublisherLogged(a)'
  BY <1>1, <1>3, <1>4, Zenon DEF PublisherLogged
<1>9. ASSUME NEW p \in Actor, p # a, Publishing(p)'
      PROVE  PublisherLogged(p)'
  <2>1. /\ pc'[p] = pc[p] /\ call'[p] = call[p] /\ NewRows(p)' = NewRows(p)
        /\ PublisherLogged(p)
    BY <1>5, <1>9, Zenon DEF Publishing, Logged
  <2> QED
    BY <1>1, <1>2, <2>1, Zenon DEF PublisherLogged
<1> QED
  BY <1>1, <1>6, <1>7, <1>8, <1>9, Zenon DEF Logged

LEMMA LosesLogged ==
  ASSUME Typed, Locks, Logged, NEW a \in Actor, Loses(a)
  PROVE  Logged'
<1>1. /\ Others(a) /\ visible_seq' = visible_seq /\ UNCHANGED Filtered
      /\ db' = db \/ (db' = db \cup NewRows(a) /\ recovery_required')
      /\ pc[a] = "write" /\ pc'[a] = "idle"
  BY Zenon DEF Loses, caches, Filtered
<1>2. \A f, s : Noted(f, s) => Noted(f, s)'
  BY <1>1, NotedSame, Zenon
<1>3. Owns(a) /\ ~Publishing(a) /\ ~Publishing(a)'
  BY <1>1 DEF Publishing, Owns
<1>4. ~recovery_required
  BY <1>3, OwnerSafe, Zenon
<1>5. ASSUME NEW p \in Actor
      PROVE  ~Publishing(p) /\ ~Publishing(p)'
  <2>1. CASE p = a
    BY <1>3, <2>1, Zenon
  <2>2. CASE p # a
    <3>1. ~Publishing(p)
      BY <1>3, <2>2, OneOwner, Zenon DEF Owns
    <3> QED
      BY <1>1, <2>2, <3>1, Zenon DEF Publishing, Others
  <2> QED
    BY <2>1, <2>2, Zenon
<1>6. ASSUME NEW r \in db
      PROVE  RowLogged(r)'
  <2>1. RowLogged(r)
    BY Zenon DEF Logged
  <2>2. r.seq # visible_seq + 1
    BY <1>4, <1>5, <2>1, Zenon DEF RowLogged
  <2> QED
    BY <1>1, <1>2, <2>1, <2>2, Zenon DEF RowLogged
<1>7. ASSUME NEW r \in NewRows(a), recovery_required'
      PROVE  RowLogged(r)'
  <2>1. r.seq = visible_seq + 1 /\ visible_seq \in Nat
    BY NewRowsFacts, Zenon DEF Typed
  <2>2. r.seq <= visible_seq' + 1 /\ ~(r.seq <= visible_seq')
    BY <1>1, <2>1
  <2> QED
    BY <1>7, <2>2, Zenon DEF RowLogged
<1>8. \A r \in db' : RowLogged(r)'
  <2>1. CASE db' = db
    BY <1>6, <2>1, Zenon
  <2>2. CASE db' = db \cup NewRows(a) /\ recovery_required'
    BY <1>6, <1>7, <2>2, Zenon
  <2> QED
    BY <1>1, <2>1, <2>2, Zenon
<1> QED
  BY <1>5, <1>8, Zenon DEF Logged

(* The rows of the one publication, when it becomes visible. *)
LEMMA LastRows ==
  ASSUME Typed, Locks, Logged, NEW a \in Actor, pc[a] = "visible",
         NEW r \in db, r.seq = visible_seq + 1
  PROVE  r \in NewRows(a)
<1>1. Owns(a)
  BY Zenon DEF Owns, Publishing
<1>2. ~recovery_required
  BY <1>1, OwnerSafe, Zenon
<1>3. PICK p \in Actor : Publishing(p) /\ r \in NewRows(p)
  BY <1>2, Zenon DEF Logged, RowLogged
<1>4. p = a
  BY <1>1, <1>3, OneOwner, Zenon DEF Owns
<1> QED
  BY <1>3, <1>4, Zenon

LEMMA ShowsLogged ==
  ASSUME Typed, Locks, Logged, NEW a \in Actor, Shows(a)
  PROVE  Logged'
<1>1. /\ Others(a) /\ visible_seq' = visible_seq + 1 /\ UNCHANGED Filtered /\ db' = db
      /\ pc[a] = "visible" /\ pc'[a] = "idle" /\ visible_seq \in Nat
  BY Zenon DEF Shows, caches, Filtered, Typed
<1>2. \A f, s : Noted(f, s) => Noted(f, s)'
  BY <1>1, NotedSame, Zenon
<1>3. Owns(a) /\ Publishing(a) /\ ~Publishing(a)' /\ pc[a] # "index"
  BY <1>1 DEF Publishing, Owns
<1>4. ASSUME NEW p \in Actor
      PROVE  ~Publishing(p)'
  <2>1. CASE p = a
    BY <1>3, <2>1, Zenon
  <2>2. CASE p # a
    <3>1. ~Publishing(p)
      BY <1>3, <2>2, OneOwner, Zenon DEF Owns
    <3> QED
      BY <1>1, <2>2, <3>1, Zenon DEF Publishing, Others
  <2> QED
    BY <2>1, <2>2, Zenon
<1>5. ASSUME NEW r \in db
      PROVE  RowLogged(r)'
  <2>1. RowLogged(r) /\ r.seq \in Nat
    BY DEF Logged, Typed, Row
  <2>2. r.seq <= visible_seq' /\ r.seq <= visible_seq' + 1 /\ r.seq # visible_seq' + 1
    BY <1>1, <2>1 DEF RowLogged
  <2>3. Noted(r.fact, r.seq)
    <3>1. CASE r.seq <= visible_seq
      BY <2>1, <3>1, Zenon DEF RowLogged
    <3>2. CASE r.seq = visible_seq + 1
      <4>1. r \in NewRows(a)
        BY <1>1, <3>2, LastRows, Zenon
      <4>2. PICK w \in call[a].batch :
              r.fact = w[1] /\ r.from = w[2] /\ r.seq = visible_seq + 1
        BY <4>1, NewRowsFacts, Zenon
      <4>3. Noted(w[1], visible_seq + 1)
        BY <1>3, Zenon DEF Logged, PublisherLogged
      <4> QED
        BY <4>2, <4>3, Zenon
    <3> QED
      BY <1>1, <2>1, <3>1, <3>2 DEF RowLogged
  <2> QED
    BY <1>2, <2>2, <2>3, Zenon DEF RowLogged
<1> QED
  BY <1>1, <1>4, <1>5, Zenon DEF Logged

LEMMA LoggedStep ==
  ASSUME Typed, Locks, Logged, NEW a \in Actor, Moves(a)
  PROVE  Logged'
BY MovesSplit, AsideLogged, SavesLogged, LosesLogged, IndexesLogged, AnnouncesLogged,
   InsertsLogged, ShowsLogged, Zenon


-----------------------------------------------------------------------------
(* The resident chains. *)

Entries == {slots[i] : i \in 1..Len(slots)}

Distinct(q) == \A i, j \in 1..Len(q) : q[i].fact = q[j].fact => i = j

Resided == slots \in Seq(Entry) /\ Distinct(slots)

LEMMA SlotsLength ==
  ASSUME Resided
  PROVE  Len(slots) \in Nat /\ DOMAIN slots = 1..Len(slots)
BY DEF Resided

(* The elements of two sequences put together. *)
LEMMA Joined ==
  ASSUME NEW S, NEW f \in Seq(S), NEW g \in Seq(S)
  PROVE  /\ f \o g \in Seq(S) /\ Len(f \o g) = Len(f) + Len(g)
         /\ \A i \in 1..(Len(f) + Len(g)) :
              (f \o g)[i] = IF i <= Len(f) THEN f[i] ELSE g[i - Len(f)]
<1>1. f \o g \in Seq(S) /\ Len(f \o g) = Len(f) + Len(g)
  OBVIOUS
<1>2. \A i \in 1..(Len(f) + Len(g)) :
        (f \o g)[i] = IF i <= Len(f) THEN f[i] ELSE g[i - Len(f)]
  OBVIOUS
<1> QED
  BY <1>1, <1>2, Zenon

(* A sequence without the element at one place. *)
LEMMA DropFacts ==
  ASSUME NEW S, NEW q \in Seq(S), NEW n \in 1..Len(q)
  PROVE  /\ Drop(q, n) \in Seq(S)
         /\ Len(Drop(q, n)) = Len(q) - 1
         /\ \A i \in 1..(Len(q) - 1) : Drop(q, n)[i] = IF i < n THEN q[i] ELSE q[i + 1]
<1> DEFINE f == SubSeq(q, 1, n - 1)
           g == SubSeq(q, n + 1, Len(q))
<1>1. Len(q) \in Nat /\ n \in Nat /\ n >= 1 /\ n <= Len(q) /\ \A i \in 1..Len(q) : q[i] \in S
  OBVIOUS
<1>2. /\ f \in Seq(S) /\ Len(f) = n - 1
      /\ \A i \in 1..(n - 1) : f[i] = q[i]
  <2>1. \A i \in 1..(n - 1) : q[i] \in S
    BY <1>1
  <2> QED
    BY <1>1, <2>1
<1>3. /\ g \in Seq(S) /\ Len(g) = Len(q) - n
      /\ \A i \in 1..(Len(q) - n) : g[i] = q[n + i]
  <2>1. \A i \in (n + 1)..Len(q) : q[i] \in S
    BY <1>1
  <2> QED
    BY <1>1, <2>1
<1>4. Drop(q, n) = f \o g
  BY Zenon DEF Drop
<1> HIDE DEF f, g
<1>5. /\ f \o g \in Seq(S) /\ Len(f \o g) = Len(f) + Len(g)
      /\ \A i \in 1..(Len(f) + Len(g)) :
           (f \o g)[i] = IF i <= Len(f) THEN f[i] ELSE g[i - Len(f)]
  BY <1>2, <1>3, Joined, Zenon
<1>6. Len(f) + Len(g) = Len(q) - 1
  BY <1>1, <1>2, <1>3
<1>7. ASSUME NEW i \in 1..(Len(q) - 1)
      PROVE  (f \o g)[i] = IF i < n THEN q[i] ELSE q[i + 1]
  <2>1. CASE i < n
    <3>1. i \in 1..(n - 1) /\ i <= Len(f)
      BY <1>1, <1>2, <2>1
    <3> QED
      BY <1>2, <1>5, <1>6, <2>1, <3>1
  <2>2. CASE ~(i < n)
    <3>1. i - Len(f) \in 1..(Len(q) - n) /\ ~(i <= Len(f)) /\ n + (i - Len(f)) = i + 1
      BY <1>1, <1>2, <2>2
    <3>2. (f \o g)[i] = g[i - Len(f)]
      BY <1>5, <1>6, <3>1
    <3> QED
      BY <1>3, <2>2, <3>1, <3>2
  <2> QED
    BY <2>1, <2>2, Zenon
<1> QED
  BY <1>4, <1>5, <1>6, <1>7, Zenon

LEMMA PlaceFacts ==
  ASSUME Resided, NEW f, Resident(f)
  PROVE  /\ Position(f) \in 1..Len(slots) /\ slots[Position(f)].fact = f
         /\ slots[Position(f)] \in Entries
<1>1. DOMAIN slots = 1..Len(slots)
  BY SlotsLength, Zenon
<1>2. Position(f) \in Slot(f)
  BY Zenon DEF Position, Resident
<1> QED
  BY <1>1, <1>2, Zenon DEF Slot, Entries

LEMMA NotResident ==
  ASSUME Resided, NEW f, ~Resident(f), NEW e \in Entries
  PROVE  e.fact # f
<1>1. DOMAIN slots = 1..Len(slots)
  BY SlotsLength, Zenon
<1> QED
  BY <1>1, Zenon DEF Slot, Entries, Resident

(* The slots without one identity. *)
LEMMA WithoutFacts ==
  ASSUME Resided, NEW f
  PROVE  /\ Without(f) \in Seq(Entry) /\ Distinct(Without(f))
         /\ \A i \in 1..Len(Without(f)) :
              Without(f)[i] \in Entries /\ Without(f)[i].fact # f
<1>1. CASE ~Resident(f)
  <2>1. Without(f) = slots
    BY <1>1, Zenon DEF Without
  <2>2. \A i \in 1..Len(slots) : slots[i] \in Entries
    BY Zenon DEF Entries
  <2> QED
    BY <1>1, <2>1, <2>2, NotResident, Zenon DEF Resided
<1>2. CASE Resident(f)
  <2> DEFINE n == Position(f)
             q == Without(f)
  <2>1. n \in 1..Len(slots) /\ slots[n].fact = f /\ slots \in Seq(Entry)
    BY <1>2, PlaceFacts, Zenon DEF Resided
  <2>2. q = Drop(slots, n)
    BY <1>2, Zenon DEF Without
  <2> HIDE DEF n, q
  <2>3. /\ q \in Seq(Entry) /\ Len(q) = Len(slots) - 1
        /\ \A i \in 1..(Len(slots) - 1) : q[i] = IF i < n THEN slots[i] ELSE slots[i + 1]
    BY <2>1, <2>2, DropFacts, Zenon
  <2>4. Len(slots) \in Nat /\ n \in Nat
    BY <2>1
  <2>5. ASSUME NEW i \in 1..Len(q)
        PROVE  \E k \in 1..Len(slots) : /\ k # n /\ q[i] = slots[k]
                                        /\ k = IF i < n THEN i ELSE i + 1
    <3>1. CASE i < n
      <4>1. i \in 1..Len(slots) /\ i # n /\ i \in 1..(Len(slots) - 1)
        BY <2>3, <2>4, <3>1
      <4> QED
        BY <2>3, <3>1, <4>1, Zenon
    <3>2. CASE ~(i < n)
      <4>1. i + 1 \in 1..Len(slots) /\ i + 1 # n /\ i \in 1..(Len(slots) - 1)
        BY <2>1, <2>3, <2>4, <3>2
      <4> QED
        BY <2>3, <3>2, <4>1, Zenon
    <3> QED
      BY <3>1, <3>2, Zenon
  <2>6. ASSUME NEW i \in 1..Len(q)
        PROVE  q[i] \in Entries /\ q[i].fact # f
    <3>1. PICK k \in 1..Len(slots) : /\ k # n /\ q[i] = slots[k]
                                     /\ k = IF i < n THEN i ELSE i + 1
      BY <2>5, Zenon
    <3>2. slots[k].fact # f
      BY <2>1, <3>1, Zenon DEF Resided, Distinct
    <3> QED
      BY <3>1, <3>2, Zenon DEF Entries
  <2>7. ASSUME NEW i \in 1..Len(q), NEW j \in 1..Len(q), q[i].fact = q[j].fact
        PROVE  i = j
    <3>1. PICK k \in 1..Len(slots) : /\ k # n /\ q[i] = slots[k]
                                     /\ k = IF i < n THEN i ELSE i + 1
      BY <2>5, Zenon
    <3>2. PICK m \in 1..Len(slots) : /\ m # n /\ q[j] = slots[m]
                                     /\ m = IF j < n THEN j ELSE j + 1
      BY <2>5, Zenon
    <3>3. k = m
      BY <2>7, <3>1, <3>2, Zenon DEF Resided, Distinct
    <3>4. i \in Nat /\ j \in Nat
      BY <2>3, <2>4
    <3> QED
      BY <2>4, <3>1, <3>2, <3>3, <3>4
  <2> QED
    BY <2>3, <2>6, <2>7, Zenon DEF Distinct, q
<1> QED
  BY <1>1, <1>2, Zenon

(* An entry put behind slots that do not have its identity. *)
LEMMA BehindFacts ==
  ASSUME NEW q \in Seq(Entry), Distinct(q), NEW e \in Entry,
         \A i \in 1..Len(q) : q[i].fact # e.fact
  PROVE  /\ Append(q, e) \in Seq(Entry) /\ Distinct(Append(q, e))
         /\ \A i \in 1..Len(Append(q, e)) :
              Append(q, e)[i] = e \/ \E k \in 1..Len(q) : Append(q, e)[i] = q[k]
<1> DEFINE s == Append(q, e)
<1>1. /\ s \in Seq(Entry) /\ Len(s) = Len(q) + 1 /\ Len(q) \in Nat
      /\ \A i \in 1..Len(q) : s[i] = q[i]
      /\ s[Len(q) + 1] = e
  OBVIOUS
<1> HIDE DEF s
<1>2. \A i \in 1..Len(s) : i \in 1..Len(q) \/ i = Len(q) + 1
  BY <1>1
<1>3. Distinct(s)
  BY <1>1, <1>2, Zenon DEF Distinct
<1>4. \A i \in 1..Len(s) : s[i] = e \/ \E k \in 1..Len(q) : s[i] = q[k]
  BY <1>1, <1>2, Zenon
<1> QED
  BY <1>1, <1>3, <1>4, Zenon DEF s

LEMMA TailFacts ==
  ASSUME NEW q \in Seq(Entry), Distinct(q), Len(q) # 0
  PROVE  /\ Tail(q) \in Seq(Entry) /\ Distinct(Tail(q))
         /\ \A i \in 1..Len(Tail(q)) : \E k \in 1..Len(q) : Tail(q)[i] = q[k]
<1> DEFINE s == Tail(q)
<1>1. /\ s \in Seq(Entry) /\ Len(s) = Len(q) - 1 /\ Len(q) \in Nat
      /\ \A i \in 1..Len(s) : s[i] = q[i + 1]
  OBVIOUS
<1> HIDE DEF s
<1>2. \A i \in 1..Len(s) : i + 1 \in 1..Len(q)
  BY <1>1
<1>3. \A i, j \in 1..Len(s) : i + 1 = j + 1 => i = j
  BY <1>1
<1>4. ASSUME NEW i \in 1..Len(s), NEW j \in 1..Len(s), s[i].fact = s[j].fact
      PROVE  i = j
  <2>1. q[i + 1].fact = q[j + 1].fact /\ i + 1 \in 1..Len(q) /\ j + 1 \in 1..Len(q)
    BY <1>1, <1>2, <1>4, Zenon
  <2>2. i + 1 = j + 1
    BY <2>1, Zenon DEF Distinct
  <2> QED
    BY <1>3, <2>2, Zenon
<1>5. Distinct(s)
  BY <1>4, Zenon DEF Distinct
<1> QED
  BY <1>1, <1>2, <1>5, Zenon DEF s


LEMMA WithoutAfter ==
  ASSUME Resided, NEW f, slots' = Without(f)
  PROVE  Resided' /\ \A e \in Entries' : e \in Entries /\ e.fact # f
<1>1. /\ slots' \in Seq(Entry) /\ Distinct(slots')
      /\ \A i \in 1..Len(slots') : slots'[i] \in Entries /\ slots'[i].fact # f
  BY WithoutFacts, Zenon
<1>2. ASSUME NEW e \in Entries'
      PROVE  e \in Entries /\ e.fact # f
  <2>1. PICK i \in 1..Len(slots') : e = slots'[i]
    BY Zenon DEF Entries
  <2> QED
    BY <1>1, <2>1, Zenon
<1>3. Resided'
  BY <1>1, Zenon DEF Resided, Distinct
<1> QED
  BY <1>2, <1>3, Zenon

(* The slots with an entry behind those kept. *)
LEMMA BehindAfter ==
  ASSUME Resided, NEW f, NEW kept, kept \in Seq(Entry), Distinct(kept), NEW e \in Entry,
         e.fact = f, slots' = Append(kept, e),
         \A i \in 1..Len(kept) : kept[i] \in Entries /\ kept[i].fact # f
  PROVE  Resided' /\ \A x \in Entries' : x = e \/ (x \in Entries /\ x.fact # f)
<1>1. /\ slots' \in Seq(Entry) /\ Distinct(slots')
      /\ \A i \in 1..Len(slots') : slots'[i] = e \/ \E k \in 1..Len(kept) : slots'[i] = kept[k]
  BY BehindFacts, Zenon
<1>2. Entries' = {slots'[i] : i \in 1..Len(slots')}
  BY Zenon DEF Entries
<1>3. ASSUME NEW x \in Entries'
      PROVE  x = e \/ (x \in Entries /\ x.fact # f)
  <2>1. PICK i \in 1..Len(slots') : x = slots'[i]
    BY <1>2, Zenon
  <2> QED
    BY <1>1, <2>1, Zenon
<1> QED
  BY <1>1, <1>3, Zenon DEF Resided, Distinct

LEMMA EntryType ==
  ASSUME NEW f \in Fact, NEW chain, chain \subseteq Int \X Nat
  PROVE  LET e == [fact |-> f, chain |-> chain]
         IN e \in Entry /\ e.fact = f /\ e.chain = chain
BY DEF Entry

LEMMA TouchedAfter ==
  ASSUME Resided, NEW f \in Fact, NEW chain, chain \subseteq Int \X Nat,
         slots' = Touched(f, chain)
  PROVE  /\ Resided'
         /\ \A e \in Entries' : \/ e = [fact |-> f, chain |-> chain]
                                \/ e \in Entries /\ e.fact # f
<1> DEFINE new == [fact |-> f, chain |-> chain]
<1>1. new \in Entry /\ new.fact = f
  BY EntryType, Zenon
<1>2. slots' = Append(Without(f), new)
  BY Zenon DEF Touched
<1> DEFINE kept == Without(f)
<1>3. /\ kept \in Seq(Entry) /\ Distinct(kept)
      /\ \A i \in 1..Len(kept) : kept[i] \in Entries /\ kept[i].fact # f
      /\ slots' = Append(kept, new)
  BY <1>2, WithoutFacts, Zenon
<1> HIDE DEF new, kept
<1>4. Resided' /\ \A e \in Entries' : e = new \/ (e \in Entries /\ e.fact # f)
  BY <1>1, <1>3, BehindAfter, Zenon
<1> QED
  BY <1>4, Zenon DEF new

LEMMA CachedAfter ==
  ASSUME Resided, NEW f \in Fact, NEW chain, chain \subseteq Int \X Nat,
         slots' = Cached(f, chain)
  PROVE  /\ Resided'
         /\ \A e \in Entries' : \/ e = [fact |-> f, chain |-> chain]
                                \/ e \in Entries /\ e.fact # f
<1> DEFINE new == [fact |-> f, chain |-> chain]
           all == Without(f)
           kept == IF Len(all) = Ways THEN Tail(all) ELSE all
<1>1. new \in Entry /\ new.fact = f
  BY EntryType, Zenon
<1>2. slots' = Append(kept, new)
  BY Zenon DEF Cached
<1>3. /\ all \in Seq(Entry) /\ Distinct(all)
      /\ \A i \in 1..Len(all) : all[i] \in Entries /\ all[i].fact # f
  BY WithoutFacts, Zenon
<1> HIDE DEF new, all
<1>4. /\ kept \in Seq(Entry) /\ Distinct(kept)
      /\ \A i \in 1..Len(kept) : kept[i] \in Entries /\ kept[i].fact # f
  <2>1. CASE Len(all) = Ways
    <3>1. Len(all) # 0
      BY <2>1, CachesAssumption
    <3>2. /\ Tail(all) \in Seq(Entry) /\ Distinct(Tail(all))
          /\ \A i \in 1..Len(Tail(all)) : \E k \in 1..Len(all) : Tail(all)[i] = all[k]
      BY <1>3, <3>1, TailFacts, Zenon
    <3>3. kept = Tail(all)
      BY <2>1, Zenon
    <3> HIDE DEF kept
    <3> QED
      BY <1>3, <3>2, <3>3, Zenon
  <2>2. CASE Len(all) # Ways
    BY <1>3, <2>2, Zenon
  <2> QED
    BY <2>1, <2>2, Zenon
<1> HIDE DEF kept
<1>5. Resided' /\ \A e \in Entries' : e = new \/ (e \in Entries /\ e.fact # f)
  BY <1>1, <1>2, <1>4, BehindAfter, Zenon
<1> QED
  BY <1>5, Zenon DEF new

LEMMA EntryFields ==
  ASSUME Resided, NEW e \in Entries
  PROVE  e.fact \in Fact /\ e.chain \subseteq Int \X Nat
<1>1. e \in Entry
  <2>1. \A i \in 1..Len(slots) : slots[i] \in Entry
    BY DEF Resided
  <2> QED
    BY <2>1, Zenon DEF Entries
<1> QED
  BY <1>1 DEF Entry

(* A resident chain is that of an entry. *)
LEMMA ChainFacts ==
  ASSUME Resided, NEW f, Resident(f)
  PROVE  \E e \in Entries : e.fact = f /\ e.chain = Chain(f)
<1>1. Position(f) \in 1..Len(slots) /\ slots[Position(f)].fact = f
  BY PlaceFacts, Zenon
<1>2. slots[Position(f)] \in Entries /\ Chain(f) = slots[Position(f)].chain
  BY <1>1, Zenon DEF Entries, Chain
<1> QED
  BY <1>1, <1>2, Zenon
=============================================================================

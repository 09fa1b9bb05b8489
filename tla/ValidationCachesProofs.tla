----------------------- MODULE ValidationCachesProofs -----------------------
(***************************************************************************)
(* The three caches never let a stale dependency pass, for every number of *)
(* actors, batches, slots and commits.                                     *)
(*                                                                         *)
(* The inductive invariant adds to the parts of ValidationCachesLemmas:    *)
(* Current, that a resident chain has the boundary of every visible row    *)
(* and of every mutation its publisher has passed on to the cache; Views,  *)
(* that a scan sees all of that as long as its generation is the current   *)
(* one; and Settled, that a mutation which a validation has settled has no *)
(* conflict, unless the validation is Stale: its base is no longer the     *)
(* visible sequence, or somebody is publishing.  A stale validation starts *)
(* over before it writes.                                                  *)
(***************************************************************************)
EXTENDS ValidationCachesLemmas

-----------------------------------------------------------------------------
(* Chains and scans. *)

(* The greatest of some numbers that have a bound. *)
LEMMA Greatest ==
  ASSUME NEW S, S \subseteq Nat, S # {}, NEW top \in Nat, \A n \in S : n <= top
  PROVE  \E m \in S : \A n \in S : n <= m
<1> DEFINE T == {top - n : n \in S}
           low == First(T)
<1>1. T \subseteq Nat /\ T # {}
  <2>1. \A n \in S : top - n \in Nat
    OBVIOUS
  <2> QED
    BY <2>1, Zenon
<1>2. low \in T /\ \A j \in T : low <= j
  BY <1>1, FirstIn, Zenon
<1>3. PICK m \in S : low = top - m
  BY <1>2, Zenon
<1>4. ASSUME NEW n \in S
      PROVE  n <= m
  <2>1. low <= top - n
    BY <1>2, Zenon
  <2> QED
    BY <1>3, <2>1
<1> QED
  BY <1>4, Zenon

LEMMA BoundariesType ==
  ASSUME NEW view, view \subseteq Row, NEW f
  PROVE  /\ Boundaries(view, f) \subseteq Int \X Nat
         /\ \A b \in Boundaries(view, f) : \E r \in Rows(view, f) :
              r.from = b[1] /\ r.seq = b[2]
<1>1. ASSUME NEW b \in Boundaries(view, f)
      PROVE  \E r \in Rows(view, f) : b = <<r.from, r.seq>> /\ r \in Row
  BY Zenon DEF Boundaries, Rows
<1>2. \A r \in Row : <<r.from, r.seq>> \in Int \X Nat
  BY DEF Row
<1>3. \A x, y : <<x, y>>[1] = x /\ <<x, y>>[2] = y
  OBVIOUS
<1>4. ASSUME NEW b \in Boundaries(view, f)
      PROVE  /\ b \in Int \X Nat
             /\ \E r \in Rows(view, f) : r.from = b[1] /\ r.seq = b[2]
  <2>1. PICK r \in Rows(view, f) : b = <<r.from, r.seq>> /\ r \in Row
    BY <1>1, Zenon
  <2> QED
    BY <1>2, <1>3, <2>1, Zenon
<1> QED
  BY <1>4, Zenon

(* A scan has a boundary for every row, at its sequence or a later one. *)
LEMMA LatestBoundary ==
  ASSUME NEW view, view \subseteq Row, NEW top \in Nat, \A r \in view : r.seq <= top,
         NEW f, NEW r \in Rows(view, f)
  PROVE  \E b \in Boundaries(view, f) : b[1] = r.from /\ b[2] >= r.seq
<1> DEFINE same == {s \in Rows(view, f) : s.from = r.from}
           S == {s.seq : s \in same}
<1>1. \A s \in Rows(view, f) : s \in view /\ s.seq \in Nat /\ s.seq <= top
  BY DEF Rows, Row
<1>2. S \subseteq Nat /\ r.seq \in S /\ \A n \in S : n <= top
  BY <1>1, Zenon
<1> HIDE DEF S
<1>3. PICK m \in S : \A n \in S : n <= m
  BY <1>2, Greatest, Zenon
<1>4. PICK s \in same : m = s.seq
  BY <1>3, Zenon DEF S
<1>5. s \in Rows(view, f) /\ s.from = r.from
  BY <1>4, Zenon
<1>6. \A t \in Rows(view, f) : t.from = s.from => t.seq <= s.seq
  BY <1>3, <1>4, <1>5, Zenon DEF S
<1>7. <<s.from, s.seq>> \in Boundaries(view, f)
  BY <1>5, <1>6, Zenon DEF Boundaries
<1>8. r.seq <= s.seq /\ r.seq \in Nat /\ s.seq \in Nat
  BY <1>1, <1>2, <1>3, <1>4, <1>5, Zenon
<1>9. /\ <<s.from, s.seq>>[1] = r.from
      /\ <<s.from, s.seq>>[2] >= r.seq
  BY <1>5, <1>8
<1> QED
  BY <1>7, <1>9, Zenon

(* Of two chains with the same times the one with the later sequences has  *)
(* the more conflicts.                                                     *)
LEMMA ConflictsLater ==
  ASSUME NEW chain, chain \subseteq Int \X Nat, NEW other, other \subseteq Int \X Nat,
         \A c \in chain : \E b \in other : b[1] = c[1],
         \A b \in other : \E c \in chain : c[1] = b[1] /\ c[2] >= b[2],
         NEW at, NEW next, NEW snap \in Nat, ~Conflicts(chain, at, next, snap)
  PROVE  ~Conflicts(other, at, next, snap)
<1>1. {c[1] : c \in chain} = {b[1] : b \in other}
  <2>1. \A x \in {c[1] : c \in chain} : x \in {b[1] : b \in other}
    BY Zenon
  <2>2. \A x \in {b[1] : b \in other} : x \in {c[1] : c \in chain}
    BY Zenon
  <2> QED
    BY <2>1, <2>2, Zenon
<1>2. ASSUME NEW b \in other, NEW c \in chain, c[1] = b[1], c[2] >= b[2], b[2] > snap
      PROVE  c[2] > snap
  <2>1. b[2] \in Nat /\ c[2] \in Nat
    OBVIOUS
  <2> QED
    BY <1>2, <2>1
<1>3. SUFFICES ASSUME Conflicts(other, at, next, snap)
               PROVE  FALSE
  OBVIOUS
<1>4. PICK b \in other :
        LET ends == Later({c[1] : c \in other}, b[1])
        IN /\ b[2] > snap
           /\ IF b[1] < at THEN ends # {} /\ Min(ends) > at
                           ELSE next = {} \/ b[1] < Min(next)
  BY <1>3, Zenon DEF Conflicts
<1>5. PICK c \in chain : c[1] = b[1] /\ c[2] >= b[2]
  BY Zenon
<1>6. c[2] > snap
  BY <1>2, <1>4, <1>5, Zenon
<1>7. LET ends == Later({d[1] : d \in chain}, c[1])
      IN IF c[1] < at THEN ends # {} /\ Min(ends) > at
                      ELSE next = {} \/ c[1] < Min(next)
  BY <1>1, <1>4, <1>5, Zenon
<1> QED
  BY <1>6, <1>7, Zenon DEF Conflicts


-----------------------------------------------------------------------------
(* A resident chain has the boundary of every visible row and of every     *)
(* mutation that its publisher has passed on to the cache, and no other.   *)

Reaches(chain, t, s) == \E b \in chain : b[1] = t /\ b[2] >= s

Passed(p) ==
  IF Publishing(p) /\ pc[p] # "index" THEN call[p].batch \ call[p].todo ELSE {}

Covered(f, chain) ==
  /\ \A r \in Rows(db, f) : r.seq <= visible_seq => Reaches(chain, r.from, r.seq)
  /\ \A b \in chain : \E r \in Rows(db, f) : r.from = b[1] /\ r.seq = b[2]
  /\ \A p \in Actor : \A w \in Passed(p) :
       w[1] = f => Reaches(chain, w[2], visible_seq + 1)

Current == \A e \in Entries : Covered(e.fact, e.chain)

LEMMA CoveredKept ==
  ASSUME NEW f, NEW chain, Covered(f, chain), NEW a \in Actor, Others(a), Typed,
         visible_seq' = visible_seq, db \subseteq db',
         \A r \in db' : r \in db \/ r.seq = visible_seq + 1,
         \A w \in Passed(a)' : w[1] = f => Reaches(chain, w[2], visible_seq + 1)
  PROVE  Covered(f, chain)'
<1>1. ASSUME NEW r \in Rows(db', f), r.seq <= visible_seq
      PROVE  Reaches(chain, r.from, r.seq)
  <2>1. r.seq # visible_seq + 1
    BY <1>1 DEF Typed
  <2>2. r \in Rows(db, f)
    BY <1>1, <2>1, Zenon DEF Rows
  <2> QED
    BY <1>1, <2>2, Zenon DEF Covered
<1>2. ASSUME NEW b \in chain
      PROVE  \E r \in Rows(db', f) : r.from = b[1] /\ r.seq = b[2]
  BY Zenon DEF Covered, Rows
<1>3. ASSUME NEW p \in Actor, NEW w \in Passed(p)', w[1] = f
      PROVE  Reaches(chain, w[2], visible_seq + 1)
  <2>1. CASE p = a
    BY <1>3, <2>1, Zenon
  <2>2. CASE p # a
    <3>1. Passed(p)' = Passed(p)
      BY <2>2, Zenon DEF Passed, Publishing, Others
    <3> QED
      BY <1>3, <3>1, Zenon DEF Covered
  <2> QED
    BY <2>1, <2>2, Zenon
<1>4. /\ \A r \in Rows(db', f) : r.seq <= visible_seq' => Reaches(chain, r.from, r.seq)
      /\ \A p \in Actor : \A w \in Passed(p)' :
           w[1] = f => Reaches(chain, w[2], visible_seq' + 1)
  BY <1>1, <1>3, Zenon
<1> QED
  BY <1>2, <1>4, Zenon DEF Covered, Rows, Reaches

(* The scan that a validation may put into the cache. *)
Announced(p) ==
  \/ pc[p] \in {"chain", "visible"}
  \/ pc[p] = "generation" /\ call[p].todo # call[p].batch

(* What an unlocked validation has seen may be out of date: its prediction *)
(* is no longer current, or will not be when it has publisher_mutex.       *)
Stale(a) ==
  /\ Predicting(a)
  /\ visible_seq \notin call[a].base \/ recovery_required \/ \E p \in Actor : Publishing(p)

View(a, view) ==
  /\ view \subseteq db
  /\ Stale(a) \/ view = db
  /\ call[a].observed = publish_generation =>
       /\ \A r \in db : r.seq <= visible_seq => r \in view
       /\ \A p \in Actor : Announced(p) => NewRows(p) \subseteq view

Views ==
  \A a \in Actor : /\ pc[a] \notin {"lookup", "scan"} => call[a].iterator = {}
                   /\ \A view \in call[a].iterator : View(a, view)

LEMMA PassedAnnounced ==
  ASSUME NEW p \in Actor, NEW w \in Passed(p)
  PROVE  Announced(p) /\ w \in call[p].batch
<1>1. Publishing(p) /\ pc[p] # "index" /\ w \in call[p].batch /\ w \notin call[p].todo
  BY Zenon DEF Passed
<1> QED
  BY <1>1, Zenon DEF Publishing, Announced

LEMMA SeqBound ==
  ASSUME Typed, Logged, NEW view, view \subseteq db
  PROVE  view \subseteq Row /\ visible_seq + 1 \in Nat /\ \A r \in view : r.seq <= visible_seq + 1
<1>1. visible_seq + 1 \in Nat
  BY DEF Typed
<1> QED
  BY <1>1, Zenon DEF Typed, Logged, RowLogged

LEMMA ScanReaches ==
  ASSUME Typed, Logged, NEW view, view \subseteq db, NEW f, NEW r \in view, r.fact = f
  PROVE  Reaches(Boundaries(view, f), r.from, r.seq)
<1>1. view \subseteq Row /\ visible_seq + 1 \in Nat /\ \A s \in view : s.seq <= visible_seq + 1
  BY SeqBound, Zenon
<1>2. r \in Rows(view, f)
  BY Zenon DEF Rows
<1> QED
  BY <1>1, <1>2, LatestBoundary, Zenon DEF Reaches

LEMMA ScanCovers ==
  ASSUME Typed, Logged, NEW a \in Actor, NEW view, View(a, view),
         call[a].observed = publish_generation, NEW f
  PROVE  Covered(f, Boundaries(view, f))
<1> DEFINE chain == Boundaries(view, f)
<1>1. view \subseteq db
  BY Zenon DEF View
<1>2. ASSUME NEW r \in Rows(db, f), r.seq <= visible_seq
      PROVE  Reaches(chain, r.from, r.seq)
  <2>1. r \in view /\ r.fact = f
    BY <1>2, Zenon DEF View, Rows
  <2> QED
    BY <1>1, <2>1, ScanReaches, Zenon
<1>3. ASSUME NEW b \in chain
      PROVE  \E r \in Rows(db, f) : r.from = b[1] /\ r.seq = b[2]
  <2>1. view \subseteq Row
    BY <1>1, SeqBound, Zenon
  <2>2. PICK r \in Rows(view, f) : r.from = b[1] /\ r.seq = b[2]
    BY <2>1, BoundariesType, Zenon
  <2> QED
    BY <1>1, <2>2, Zenon DEF Rows
<1>4. ASSUME NEW p \in Actor, NEW w \in Passed(p), w[1] = f
      PROVE  Reaches(chain, w[2], visible_seq + 1)
  <2>1. NewRows(p) \subseteq view /\ w \in call[p].batch
    BY PassedAnnounced, Zenon DEF View
  <2>2. PICK r \in NewRows(p) : r.fact = w[1] /\ r.from = w[2] /\ r.seq = visible_seq + 1
    BY <2>1, NewRowsFacts, Zenon
  <2>3. Reaches(chain, r.from, r.seq)
    BY <1>1, <1>4, <2>1, <2>2, ScanReaches, Zenon
  <2> QED
    BY <2>2, <2>3, Zenon
<1> QED
  BY <1>2, <1>3, <1>4, Zenon DEF Covered

(* Entries and what covers them after a move that inserts nothing. *)
LEMMA CurrentKept ==
  ASSUME Typed, NEW a \in Actor, Others(a), visible_seq' = visible_seq, db \subseteq db',
         \A r \in db' : r \in db \/ r.seq = visible_seq + 1,
         Passed(a)' \subseteq Passed(a), \A e \in Entries' : Covered(e.fact, e.chain)
  PROVE  Current'
<1>1. ASSUME NEW e \in Entries'
      PROVE  Covered(e.fact, e.chain)'
  <2> DEFINE f == e.fact
             chain == e.chain
  <2>1. Covered(f, chain)
    BY Zenon
  <2> HIDE DEF f, chain
  <2>2. \A w \in Passed(a)' : w[1] = f => Reaches(chain, w[2], visible_seq + 1)
    BY <2>1, Zenon DEF Covered
  <2>3. Covered(f, chain)'
    BY <2>1, <2>2, CoveredKept, Zenon
  <2> QED
    BY <2>3, Zenon DEF f, chain
<1> QED
  BY <1>1, Zenon DEF Current

LEMMA RefreshedCovered ==
  ASSUME Typed, Logged, Resided, Current, Views, NEW a \in Actor, Refreshes(a)
  PROVE  Resided' /\ \A e \in Entries' : Covered(e.fact, e.chain)
<1>1. PICK f \in Fact :
        \/ slots' = Without(f)
        \/ Resident(f) /\ slots' = Touched(f, Chain(f))
        \/ \E view \in call[a].iterator :
             call[a].observed = publish_generation /\ slots' = Cached(f, Boundaries(view, f))
  BY Zenon DEF Refreshes
<1>2. CASE slots' = Without(f)
  BY <1>2, WithoutAfter, Zenon DEF Current
<1>3. ASSUME NEW chain, chain \subseteq Int \X Nat, Covered(f, chain), Resided',
             \A e \in Entries' : \/ e = [fact |-> f, chain |-> chain]
                                 \/ e \in Entries /\ e.fact # f
      PROVE  \A e \in Entries' : Covered(e.fact, e.chain)
  <2> DEFINE new == [fact |-> f, chain |-> chain]
  <2>1. new.fact = f /\ new.chain = chain
    BY EntryType, <1>3, Zenon
  <2> HIDE DEF new
  <2>2. \A e \in Entries' : e = new \/ (e \in Entries /\ e.fact # f)
    BY <1>3, Zenon DEF new
  <2>3. Covered(new.fact, new.chain)
    BY <1>3, <2>1, Zenon
  <2> QED
    BY <2>2, <2>3, Zenon DEF Current
<1>4. CASE Resident(f) /\ slots' = Touched(f, Chain(f))
  <2>1. PICK e \in Entries : e.fact = f /\ e.chain = Chain(f)
    BY <1>4, ChainFacts, Zenon
  <2>2. Covered(f, Chain(f)) /\ Chain(f) \subseteq Int \X Nat
    BY <2>1, EntryFields, Zenon DEF Current
  <2>3. /\ Resided'
        /\ \A x \in Entries' : \/ x = [fact |-> f, chain |-> Chain(f)]
                               \/ x \in Entries /\ x.fact # f
    BY <1>4, <2>2, TouchedAfter, Zenon
  <2> QED
    BY <1>3, <2>2, <2>3, Zenon
<1>5. ASSUME NEW view \in call[a].iterator, call[a].observed = publish_generation,
             slots' = Cached(f, Boundaries(view, f))
      PROVE  Resided' /\ \A e \in Entries' : Covered(e.fact, e.chain)
  <2>1. View(a, view)
    BY <1>5, Zenon DEF Views
  <2>2. Covered(f, Boundaries(view, f))
    BY <1>5, <2>1, ScanCovers, Zenon
  <2>3. view \subseteq Row
    BY <2>1, SeqBound, Zenon DEF View
  <2>4. Boundaries(view, f) \subseteq Int \X Nat
    BY <2>3, BoundariesType, Zenon
  <2>5. /\ Resided'
        /\ \A x \in Entries' : \/ x = [fact |-> f, chain |-> Boundaries(view, f)]
                               \/ x \in Entries /\ x.fact # f
    BY <1>5, <2>4, CachedAfter, Zenon
  <2> QED
    BY <1>3, <2>2, <2>4, <2>5, Zenon
<1> QED
  BY <1>1, <1>2, <1>4, <1>5, Zenon

LEMMA SameEntries ==
  ASSUME Resided, slots' = slots
  PROVE  Resided' /\ Entries' = Entries
BY Zenon DEF Resided, Entries, Distinct

LEMMA AsideCurrent ==
  ASSUME Typed, Logged, Resided, Current, Views, NEW a \in Actor, Aside(a)
  PROVE  Resided' /\ Current'
<1>1. /\ Others(a) /\ visible_seq' = visible_seq /\ db' = db /\ ~Publishing(a)'
  BY AsideFacts, Zenon DEF Quiet, Log
<1>2. Resided' /\ \A e \in Entries' : Covered(e.fact, e.chain)
  <2>1. CASE slots' = slots
    BY <2>1, SameEntries, Zenon DEF Current
  <2>2. CASE Refreshes(a)
    BY <2>2, RefreshedCovered, Zenon
  <2> QED
    BY <2>1, <2>2, Zenon DEF Aside, Starts, Filters1, Captures, Looks, Passes, Acquires
<1>3. Passed(a)' = {}
  BY <1>1, Zenon DEF Passed
<1>4. /\ db \subseteq db' /\ Passed(a)' \subseteq Passed(a)
      /\ \A r \in db' : r \in db \/ r.seq = visible_seq + 1
  BY <1>1, <1>3, Zenon
<1> QED
  BY <1>1, <1>2, <1>4, CurrentKept, Zenon

(* Moves of a publication that leave the slots. *)
LEMMA BesideCurrent ==
  ASSUME Typed, Resided, Current, NEW a \in Actor,
         Saves(a) \/ Loses(a) \/ Indexes(a) \/ Announces(a)
  PROVE  Resided' /\ Current'
<1>1. Others(a) /\ visible_seq' = visible_seq /\ slots' = slots
  BY Zenon DEF Saves, Loses, Indexes, Announces, Log, caches
<1>2. db' = db \/ db' = db \cup NewRows(a)
  BY Zenon DEF Saves, Loses, Indexes, Announces, Log
<1>3. \A r \in NewRows(a) : r.seq = visible_seq + 1
  BY NewRowsFacts, Zenon
<1>4. db \subseteq db' /\ \A r \in db' : r \in db \/ r.seq = visible_seq + 1
  BY <1>2, <1>3, Zenon
<1>5. Passed(a)' \subseteq Passed(a)
  <2>1. CASE Saves(a) \/ Loses(a)
    <3>1. pc'[a] = "index" \/ pc'[a] = "idle"
      BY <2>1, Zenon DEF Saves, Loses
    <3>2. Passed(a)' = {}
      BY <3>1 DEF Passed, Publishing
    <3> QED
      BY <3>2, Zenon
  <2>2. CASE Indexes(a)
    <3>1. pc'[a] = "index" \/ call'[a].todo = call'[a].batch
      BY <2>2, Zenon DEF Indexes, Kept
    <3>2. Passed(a)' = {}
      BY <3>1, Zenon DEF Passed
    <3> QED
      BY <3>2, Zenon
  <2>3. CASE Announces(a)
    <3>1. pc[a] = "generation" /\ pc'[a] = "chain" /\ call'[a] = call[a]
      BY <2>3, Zenon DEF Announces
    <3>2. Passed(a)' = Passed(a)
      BY <3>1 DEF Passed, Publishing
    <3> QED
      BY <3>2, Zenon
  <2> QED
    BY <2>1, <2>2, <2>3, Zenon
<1>6. Resided' /\ Entries' = Entries
  BY <1>1, SameEntries, Zenon
<1>7. \A e \in Entries' : Covered(e.fact, e.chain)
  BY <1>6, Zenon DEF Current
<1>8. Current'
  BY <1>1, <1>4, <1>5, <1>7, CurrentKept, Zenon
<1> QED
  BY <1>6, <1>8, Zenon


LEMMA InsertFacts ==
  ASSUME NEW chain, chain \subseteq Int \X Nat, NEW t \in Int, NEW s \in Nat,
         \A c \in chain : c[2] <= s
  PROVE  InsertBoundary(chain, <<t, s>>) = {c \in chain : c[1] # t} \cup {<<t, s>>}
<1> DEFINE S == {s} \cup {c[2] : c \in {c \in chain : c[1] = t}}
<1>1. s \in S /\ \A y \in S : y \in Nat /\ y <= s
  OBVIOUS
<1>2. <<t, s>>[1] = t /\ <<t, s>>[2] = s
  OBVIOUS
<1>3. InsertBoundary(chain, <<t, s>>) = {c \in chain : c[1] # t} \cup {<<t, Max(S)>>}
  BY <1>2, Zenon DEF InsertBoundary
<1> HIDE DEF S
<1>4. Max(S) \in S /\ \A y \in S : Max(S) >= y
  <2>1. \A y \in S : s >= y
    BY <1>1
  <2> QED
    BY <1>1, <2>1, Zenon DEF Max
<1>5. Max(S) = s
  <2> DEFINE m == Max(S)
  <2>1. m \in Nat /\ m <= s /\ m >= s
    BY <1>1, <1>4, Zenon
  <2> HIDE DEF m
  <2>2. m = s
    BY <2>1
  <2> QED
    BY <2>2, Zenon DEF m
<1> QED
  BY <1>3, <1>5, Zenon

(* A chain with one more boundary, at the last sequence of all. *)
LEMMA InsertReaches ==
  ASSUME NEW chain, NEW t, NEW s \in Nat, NEW ins,
         <<t, s>> \in ins, \A c \in chain : c[1] # t => c \in ins
  PROVE  /\ \A n \in Nat : n <= s => Reaches(ins, t, n)
         /\ \A u : \A n \in Nat : n <= s /\ Reaches(chain, u, n) => Reaches(ins, u, n)
<1>1. <<t, s>>[1] = t /\ <<t, s>>[2] = s /\ <<t, s>> \in ins
  OBVIOUS
<1>2. ASSUME NEW n \in Nat, n <= s
      PROVE  Reaches(ins, t, n)
  <2>1. s >= n
    BY <1>2
  <2> QED
    BY <1>1, <2>1, Zenon DEF Reaches
<1>3. ASSUME NEW u, NEW n \in Nat, n <= s, Reaches(chain, u, n)
      PROVE  Reaches(ins, u, n)
  <2>1. CASE u = t
    BY <1>2, <1>3, <2>1, Zenon
  <2>2. CASE u # t
    <3>1. PICK b \in chain : b[1] = u /\ b[2] >= n
      BY <1>3, Zenon DEF Reaches
    <3>2. b \in ins
      BY <2>2, <3>1, Zenon
    <3> QED
      BY <3>1, <3>2, Zenon DEF Reaches
  <2> QED
    BY <2>1, <2>2, Zenon
<1> QED
  BY <1>2, <1>3, Zenon

LEMMA InsertsCurrent ==
  ASSUME Typed, Locks, Logged, Resided, Current, NEW a \in Actor, Inserts(a)
  PROVE  Resided' /\ Current'
<1>1. /\ Others(a) /\ visible_seq' = visible_seq /\ db' = db
      /\ call'[a].batch = call[a].batch /\ pc[a] = "chain"
  BY Zenon DEF Inserts, Quiet, Log, Kept
<1>2. PICK w \in call[a].todo :
       /\ call'[a].todo = call[a].todo \ {w}
       /\ pc'[a] = IF call[a].todo = {w} THEN "visible" ELSE "generation"
       /\ \/ ~Resident(w[1]) /\ slots' = slots
          \/ slots' = Without(w[1])
          \/ /\ Resident(w[1])
             /\ slots' = Touched(w[1], InsertBoundary(Chain(w[1]), <<w[2], visible_seq + 1>>))
  BY Zenon DEF Inserts
<1> DEFINE f == w[1]
           t == w[2]
           s == visible_seq + 1
<1>3. Publishing(a) /\ pc[a] # "index" /\ Owns(a)
  BY <1>1 DEF Publishing, Owns
<1>4. f \in Fact /\ t \in Int /\ s \in Nat /\ visible_seq \in Nat
  <2>1. call[a].todo \subseteq Fact \X Int
    BY ShapeFacts, CallFields, Zenon DEF Typed, Mutations
  <2> QED
    BY <2>1 DEF Typed
<1>5. PublisherLogged(a)
  BY <1>3, Zenon DEF Logged
<1>6. \A v \in Passed(a)' : v \in Passed(a) \/ v = w
  BY <1>1, <1>2, <1>3, Zenon DEF Passed
<1> HIDE DEF f, t, s
<1>7. \A v : v = w => v[1] = f /\ v[2] = t
  BY Zenon DEF f, t
<1>8. /\ \/ ~Resident(f) /\ slots' = slots
         \/ slots' = Without(f)
         \/ Resident(f) /\ slots' = Touched(f, InsertBoundary(Chain(f), <<t, s>>))
  BY <1>2, Zenon DEF f, t, s
<1>9. db \subseteq db' /\ \A r \in db' : r \in db \/ r.seq = visible_seq + 1
  BY <1>1, Zenon
<1>10. ASSUME NEW e \in Entries, e.fact # f
       PROVE  Covered(e.fact, e.chain)'
  <2> DEFINE g == e.fact
             chain == e.chain
  <2>1. Covered(g, chain) /\ g # f
    BY <1>10, Zenon DEF Current
  <2> HIDE DEF g, chain
  <2>2. \A v \in Passed(a)' : v[1] = g => Reaches(chain, v[2], visible_seq + 1)
    BY <1>6, <1>7, <2>1, Zenon DEF Covered
  <2>3. Covered(g, chain)'
    BY <1>1, <1>9, <2>1, <2>2, CoveredKept, Zenon
  <2> QED
    BY <2>3, Zenon DEF g, chain
<1>11. CASE ~Resident(f) /\ slots' = slots
  <2>1. Resided' /\ Entries' = Entries
    BY <1>11, SameEntries, Zenon
  <2>2. \A e \in Entries : e.fact # f
    BY <1>11, NotResident, Zenon
  <2> QED
    BY <1>10, <2>1, <2>2, Zenon DEF Current
<1>12. CASE slots' = Without(f)
  <2>1. Resided' /\ \A e \in Entries' : e \in Entries /\ e.fact # f
    BY <1>12, WithoutAfter, Zenon
  <2> QED
    BY <1>10, <2>1, Zenon DEF Current
<1>13. CASE Resident(f) /\ slots' = Touched(f, InsertBoundary(Chain(f), <<t, s>>))
  <2>a. PICK chain : chain = Chain(f)
    BY Zenon
  <2>b. PICK ins : ins = InsertBoundary(chain, <<t, s>>)
    BY Zenon
  <2>1. PICK old \in Entries : old.fact = f /\ old.chain = chain
    BY <1>13, <2>a, ChainFacts, Zenon
  <2>2. Covered(f, chain) /\ chain \subseteq Int \X Nat
    BY <2>1, EntryFields, Zenon DEF Current
  <2>3. ASSUME NEW c \in chain
        PROVE  c[2] <= s
    <3>1. PICK r \in Rows(db, f) : r.from = c[1] /\ r.seq = c[2]
      BY <2>2, Zenon DEF Covered
    <3>2. r.seq <= visible_seq + 1
      BY <3>1, Zenon DEF Rows, Logged, RowLogged
    <3> QED
      BY <3>1, <3>2, Zenon DEF s
  <2>4. ins = {c \in chain : c[1] # t} \cup {<<t, s>>}
    <3>1. InsertBoundary(chain, <<t, s>>) = {c \in chain : c[1] # t} \cup {<<t, s>>}
      BY <1>4, <2>2, <2>3, InsertFacts, Zenon
    <3> QED
      BY <2>b, <3>1, Zenon
  <2>5. slots' = Touched(f, ins)
    BY <1>13, <2>a, <2>b, Zenon
  <2>6. ins \subseteq Int \X Nat
    <3>1. <<t, s>> \in Int \X Nat
      BY <1>4
    <3> QED
      BY <2>2, <2>4, <3>1, Zenon
  <2>7. /\ \A n \in Nat : n <= s => Reaches(ins, t, n)
        /\ \A u : \A n \in Nat : n <= s /\ Reaches(chain, u, n) => Reaches(ins, u, n)
    <3>1. <<t, s>> \in ins /\ \A c \in chain : c[1] # t => c \in ins
      BY <2>4, Zenon
    <3>2. s \in Nat
      BY <1>4, Zenon
    <3> QED
      BY <3>1, <3>2, InsertReaches, Zenon
  <2>8. ASSUME NEW r \in Rows(db, f), r.seq <= visible_seq
        PROVE  Reaches(ins, r.from, r.seq)
    <3>1. r.seq \in Nat
      BY DEF Rows, Typed, Row
    <3>2. r.seq <= s
      BY <1>4, <2>8, <3>1 DEF s
    <3>3. Reaches(chain, r.from, r.seq)
      BY <2>2, <2>8, Zenon DEF Covered
    <3> QED
      BY <2>7, <3>1, <3>2, <3>3, Zenon
  <2>9. ASSUME NEW b \in ins
        PROVE  \E r \in Rows(db, f) : r.from = b[1] /\ r.seq = b[2]
    <3>1. CASE b \in chain
      BY <2>2, <3>1, Zenon DEF Covered
    <3>2. CASE b = <<t, s>>
      <4>1. w \in call[a].batch /\ NewRows(a) \subseteq db
        BY <1>5, Zenon DEF PublisherLogged
      <4>2. PICK r \in NewRows(a) : r.fact = w[1] /\ r.from = w[2] /\ r.seq = visible_seq + 1
        BY <4>1, NewRowsFacts, Zenon
      <4>3. r \in Rows(db, f) /\ r.from = t /\ r.seq = s
        BY <4>1, <4>2, Zenon DEF Rows, f, t, s
      <4>4. b[1] = t /\ b[2] = s
        BY <3>2
      <4> QED
        BY <4>3, <4>4, Zenon
    <3> QED
      BY <2>4, <3>1, <3>2, Zenon
  <2>10. ASSUME NEW p \in Actor, NEW v \in Passed(p), v[1] = f
         PROVE  Reaches(ins, v[2], visible_seq + 1)
    <3>1. Reaches(chain, v[2], s)
      BY <2>2, <2>10, Zenon DEF Covered, s
    <3>2. s <= s
      BY <1>4
    <3> QED
      BY <1>4, <2>7, <3>1, <3>2, Zenon DEF s
  <2>11. Covered(f, ins)
    BY <2>8, <2>9, <2>10, Zenon DEF Covered
  <2>12. Reaches(ins, t, visible_seq + 1)
    <3>1. s <= s
      BY <1>4
    <3> QED
      BY <1>4, <2>7, <3>1, Zenon DEF s
  <2>13. \A v \in Passed(a)' : v[1] = f => Reaches(ins, v[2], visible_seq + 1)
    BY <1>6, <1>7, <2>10, <2>12, Zenon
  <2>14. Covered(f, ins)'
    BY <1>1, <1>9, <2>11, <2>13, CoveredKept, Zenon
  <2>15. /\ Resided'
         /\ \A e \in Entries' : \/ e = [fact |-> f, chain |-> ins]
                                \/ e \in Entries /\ e.fact # f
    BY <1>4, <2>5, <2>6, TouchedAfter, Zenon
  <2> DEFINE new == [fact |-> f, chain |-> ins]
  <2>16. new.fact = f /\ new.chain = ins
    BY <1>4, <2>6, EntryType, Zenon
  <2> HIDE DEF new
  <2>17. \A e \in Entries' : e = new \/ (e \in Entries /\ e.fact # f)
    BY <2>15, Zenon DEF new
  <2>18. ASSUME NEW e \in Entries'
         PROVE  Covered(e.fact, e.chain)'
    <3>1. CASE e = new
      BY <2>14, <2>16, <3>1, Zenon
    <3>2. CASE e \in Entries /\ e.fact # f
      BY <1>10, <3>2, Zenon
    <3> QED
      BY <2>17, <3>1, <3>2, Zenon
  <2> QED
    BY <2>15, <2>18, Zenon DEF Current
<1> QED
  BY <1>8, <1>11, <1>12, <1>13, Zenon

LEMMA ShowsCurrent ==
  ASSUME Typed, Locks, Logged, Resided, Current, NEW a \in Actor, Shows(a)
  PROVE  Resided' /\ Current'
<1>1. /\ Others(a) /\ visible_seq' = visible_seq + 1 /\ db' = db /\ slots' = slots
      /\ pc[a] = "visible" /\ pc'[a] = "idle" /\ visible_seq \in Nat
  BY Zenon DEF Shows, caches, Typed
<1>2. Publishing(a) /\ pc[a] # "index" /\ Owns(a) /\ ~Publishing(a)'
  BY <1>1 DEF Publishing, Owns
<1>3. Resided' /\ Entries' = Entries
  BY <1>1, SameEntries, Zenon
<1>4. ASSUME NEW p \in Actor
      PROVE  Passed(p)' = {}
  <2>1. CASE p = a
    BY <1>2, <2>1, Zenon DEF Passed
  <2>2. CASE p # a
    <3>1. ~Publishing(p)
      BY <1>2, <2>2, OneOwner, Zenon DEF Owns
    <3>2. ~Publishing(p)'
      BY <1>1, <2>2, <3>1, Zenon DEF Publishing, Others
    <3> QED
      BY <3>2, Zenon DEF Passed
  <2> QED
    BY <2>1, <2>2, Zenon
<1>5. ASSUME NEW f, NEW chain, Covered(f, chain)
      PROVE  Covered(f, chain)'
  <2>1. ASSUME NEW r \in Rows(db, f), r.seq <= visible_seq'
        PROVE  Reaches(chain, r.from, r.seq)
    <3>1. CASE r.seq <= visible_seq
      BY <1>5, <3>1, Zenon DEF Covered
    <3>2. CASE r.seq = visible_seq + 1
      <4>1. r \in NewRows(a) /\ r.fact = f
        BY <1>1, <3>2, LastRows, Zenon DEF Rows
      <4>2. PICK w \in call[a].batch :
              r.fact = w[1] /\ r.from = w[2] /\ r.seq = visible_seq + 1
        BY <4>1, NewRowsFacts, Zenon
      <4>3. call[a].todo = {}
        BY <1>1, <1>2, Zenon DEF Logged, PublisherLogged
      <4>4. w \in Passed(a)
        BY <1>2, <4>3, Zenon DEF Passed
      <4>5. Reaches(chain, w[2], visible_seq + 1)
        BY <1>5, <4>1, <4>2, <4>4, Zenon DEF Covered
      <4> QED
        BY <4>2, <4>5, Zenon
    <3>3. r.seq \in Nat
      BY DEF Rows, Typed, Row
    <3>4. r.seq <= visible_seq \/ r.seq = visible_seq + 1
      BY <1>1, <2>1, <3>3
    <3> QED
      BY <3>1, <3>2, <3>4, Zenon
  <2>2. \A b \in chain : \E r \in Rows(db, f) : r.from = b[1] /\ r.seq = b[2]
    BY <1>5, Zenon DEF Covered
  <2> QED
    BY <1>1, <1>4, <2>1, <2>2, Zenon DEF Covered, Rows, Reaches
<1> QED
  BY <1>3, <1>5, Zenon DEF Current

LEMMA CurrentStep ==
  ASSUME Typed, Locks, Logged, Resided, Current, Views, NEW a \in Actor, Moves(a)
  PROVE  Resided' /\ Current'
BY MovesSplit, AsideCurrent, BesideCurrent, InsertsCurrent, ShowsCurrent, Zenon


-----------------------------------------------------------------------------
(* The views of the scans. *)

LEMMA StaleKept ==
  ASSUME Typed, Locks, Past, NEW a \in Actor, Moves(a), Others(a), NEW b \in Actor,
         Stale(b), call'[b].base = call[b].base
  PROVE  Stale(b)'
<1>1. Predicting(b)'
  BY Zenon DEF Stale, Predicting
<1>2. visible_seq \in Nat /\ \A n \in call[b].base : n \in Nat /\ n <= visible_seq
  BY ShapeFacts, CallFields, Zenon DEF Typed, Past
<1>3. CASE visible_seq' = visible_seq + 1
  <2>1. visible_seq' \notin call'[b].base
    BY <1>2, <1>3
  <2> QED
    BY <1>1, <2>1, Zenon DEF Stale
<1>4. CASE Aside(a)
  <2>1. /\ visible_seq' = visible_seq /\ recovery_required' = recovery_required
        /\ ~Publishing(a)
    BY <1>4, AsideFacts, Zenon DEF Quiet, Log
  <2>2. ASSUME NEW p \in Actor, Publishing(p)
        PROVE  Publishing(p)'
    BY <2>1, <2>2, Zenon DEF Others, Publishing
  <2> QED
    BY <1>1, <2>1, <2>2, Zenon DEF Stale
<1>5. CASE Saves(a) \/ Loses(a) \/ Indexes(a) \/ Announces(a) \/ Inserts(a)
  <2>1. Owns(a)
    BY <1>5 DEF Saves, Loses, Indexes, Announces, Inserts, Owns, Publishing
  <2>2. ~recovery_required
    BY <2>1, OwnerSafe, Zenon
  <2>3. visible_seq' = visible_seq
    BY <1>5, Zenon DEF Saves, Loses, Indexes, Announces, Inserts, Quiet, Log
  <2>4. ASSUME NEW p \in Actor, Publishing(p)
        PROVE  Publishing(p)'
    <3>1. p = a
      BY <2>1, <2>4, OneOwner, Zenon DEF Owns
    <3>2. CASE Saves(a) \/ Loses(a)
      BY <2>4, <3>1, <3>2 DEF Saves, Loses, Publishing
    <3>3. CASE Indexes(a) \/ Announces(a) \/ Inserts(a)
      <4>1. pc'[a] \in {"index", "generation", "chain", "visible"}
        BY <3>3, Zenon DEF Indexes, Announces, Inserts
      <4> QED
        BY <3>1, <4>1, Zenon DEF Publishing
    <3> QED
      BY <1>5, <3>2, <3>3, Zenon
  <2> QED
    BY <1>1, <2>2, <2>3, <2>4, Zenon DEF Stale
<1>6. CASE Shows(a)
  BY <1>3, <1>6, Zenon DEF Shows
<1> QED
  BY <1>4, <1>5, <1>6, MovesSplit, Zenon

(* A validation that the one writer does not wait for. *)
LEMMA Overtaken ==
  ASSUME Locks, NEW a \in Actor, Owns(a), NEW b \in Actor, b # a, Validating(b)
  PROVE  Predicting(b)
BY OneOwner, Zenon DEF Owns

LEMMA AnnouncedPublishing ==
  ASSUME NEW p, Announced(p)
  PROVE  Publishing(p)
BY Zenon DEF Announced, Publishing

Seen(view) ==
  /\ \A r \in db : r.seq <= visible_seq => r \in view
  /\ \A p \in Actor : Announced(p) => NewRows(p) \subseteq view

(* What a scan has seen, after a move that announces no new publication. *)
LEMMA SeenKept ==
  ASSUME Typed, NEW view, Seen(view), NEW a \in Actor, Others(a),
         visible_seq' = visible_seq,
         \A r \in db' : r \in db \/ r.seq = visible_seq + 1,
         Announced(a)' => Announced(a) /\ call'[a].batch = call[a].batch
  PROVE  Seen(view)'
<1>1. ASSUME NEW r \in db', r.seq <= visible_seq
      PROVE  r \in view
  <2>1. r.seq # visible_seq + 1
    BY <1>1 DEF Typed
  <2> QED
    BY <1>1, <2>1, Zenon DEF Seen
<1>2. ASSUME NEW p \in Actor, Announced(p)'
      PROVE  NewRows(p)' \subseteq view
  <2>1. Announced(p) /\ call'[p].batch = call[p].batch
    <3>1. CASE p = a
      BY <1>2, <3>1, Zenon
    <3>2. CASE p # a
      BY <1>2, <3>2, Zenon DEF Others, Announced
    <3> QED
      BY <3>1, <3>2, Zenon
  <2>2. NewRows(p)' = NewRows(p)
    BY <2>1, SameRows, Zenon
  <2> QED
    BY <2>1, <2>2, Zenon DEF Seen
<1> QED
  BY <1>1, <1>2, Zenon DEF Seen

LEMMA ViewKept ==
  ASSUME Typed, Locks, Past, Logged, NEW a \in Actor, Moves(a), Others(a),
         NEW b \in Actor, Validating(b), NEW view, View(b, view),
         call'[b].base = call[b].base, call'[b].observed = call[b].observed
  PROVE  View(b, view)'
<1>1. /\ view \subseteq db
      /\ Stale(b) \/ view = db
      /\ call[b].observed = publish_generation => Seen(view)
  BY Zenon DEF View, Seen
<1>2. Stale(b) => Stale(b)'
  BY StaleKept, Zenon
<1>3. SUFFICES /\ view \subseteq db'
               /\ Stale(b)' \/ view = db'
               /\ call[b].observed = publish_generation' => Seen(view)'
  BY Zenon DEF View, Seen
<1>4. \A r \in NewRows(a) : r.seq = visible_seq + 1
  BY NewRowsFacts, Zenon
<1>5. CASE Aside(a)
  <2>1. /\ db' = db /\ visible_seq' = visible_seq /\ publish_generation' = publish_generation
        /\ ~Publishing(a)'
    BY <1>5, AsideFacts, Zenon DEF Quiet, Log
  <2>2. ~Announced(a)'
    BY <2>1, Zenon DEF Announced, Publishing
  <2>3. \A r \in db' : r \in db \/ r.seq = visible_seq + 1
    BY <2>1, Zenon
  <2>4. Seen(view) => Seen(view)'
    BY <2>1, <2>2, <2>3, SeenKept, Zenon
  <2> QED
    BY <1>1, <1>2, <2>1, <2>4, Zenon
<1>6. CASE Saves(a) \/ Loses(a)
  <2>1. /\ publish_generation' = publish_generation /\ visible_seq' = visible_seq
        /\ pc[a] = "write" /\ pc'[a] \in {"index", "idle"}
        /\ \/ db' = db \cup NewRows(a) /\ (pc'[a] = "index" \/ recovery_required')
           \/ db' = db
    BY <1>6, Zenon DEF Saves, Loses, caches
  <2>2. Owns(a) /\ b # a /\ ~Announced(a)'
    BY <2>1 DEF Owns, Validating, Announced
  <2>3. \A r \in db' : r \in db \/ r.seq = visible_seq + 1
    BY <1>4, <2>1, Zenon
  <2>4. Seen(view) => Seen(view)'
    BY <2>1, <2>2, <2>3, SeenKept, Zenon
  <2>5. Predicting(b)'
    BY <2>2, Overtaken, Zenon DEF Predicting
  <2>6. CASE db' = db
    BY <1>1, <1>2, <2>1, <2>4, <2>6, Zenon
  <2>7. CASE db' = db \cup NewRows(a) /\ (pc'[a] = "index" \/ recovery_required')
    <3>1. Publishing(a)' \/ recovery_required'
      BY <2>7, Zenon DEF Publishing
    <3>2. Stale(b)'
      BY <2>5, <3>1, Zenon DEF Stale
    <3>3. view \subseteq db'
      BY <1>1, <2>7, Zenon
    <3> QED
      BY <1>1, <2>1, <2>4, <3>2, <3>3, Zenon
  <2> QED
    BY <2>1, <2>6, <2>7, Zenon
<1>7. CASE Indexes(a) \/ Inserts(a)
  <2>1. /\ db' = db /\ visible_seq' = visible_seq /\ publish_generation' = publish_generation
        /\ call'[a].batch = call[a].batch
    BY <1>7, Zenon DEF Indexes, Inserts, Quiet, Log, Kept
  <2>2. Announced(a)' => Announced(a)
    <3>1. CASE Indexes(a)
      <4>1. pc'[a] = "index" \/ (pc'[a] = "generation" /\ call'[a].todo = call'[a].batch)
        BY <3>1, Zenon DEF Indexes, Kept
      <4>2. ~Announced(a)'
        BY <4>1 DEF Announced
      <4> QED
        BY <4>2, Zenon
    <3>2. CASE Inserts(a)
      BY <3>2, Zenon DEF Inserts, Announced
    <3> QED
      BY <1>7, <3>1, <3>2, Zenon
  <2>3. \A r \in db' : r \in db \/ r.seq = visible_seq + 1
    BY <2>1, Zenon
  <2>4. Seen(view) => Seen(view)'
    BY <2>1, <2>2, <2>3, SeenKept, Zenon
  <2> QED
    BY <1>1, <1>2, <2>1, <2>4, Zenon
<1>8. CASE Announces(a)
  <2>1. db' = db /\ publish_generation' = publish_generation + 1
    BY <1>8, Zenon DEF Announces, Log
  <2>2. call[b].observed <= publish_generation /\ publish_generation \in Nat
        /\ call[b].observed \in Nat
    BY ShapeFacts, CallFields, Zenon DEF Past, Typed
  <2>3. call[b].observed # publish_generation'
    BY <2>1, <2>2
  <2> QED
    BY <1>1, <1>2, <2>1, <2>3, Zenon
<1>9. CASE Shows(a)
  <2>1. /\ db' = db /\ visible_seq' = visible_seq + 1
        /\ publish_generation' = publish_generation
        /\ pc[a] = "visible" /\ pc'[a] = "idle" /\ visible_seq \in Nat
    BY <1>9, Zenon DEF Shows, caches, Typed
  <2>2. Owns(a) /\ Announced(a) /\ ~Publishing(a)'
    BY <2>1 DEF Owns, Publishing, Announced
  <2>3. ASSUME NEW p \in Actor
        PROVE  ~Announced(p)'
    <3>1. CASE p = a
      BY <2>2, <3>1, Zenon DEF Announced, Publishing
    <3>2. CASE p # a
      <4>1. ~Publishing(p)
        BY <2>2, <3>2, OneOwner, Zenon DEF Owns
      <4>2. ~Publishing(p)'
        BY <3>2, <4>1, Zenon DEF Others, Publishing
      <4> QED
        BY <4>2, Zenon DEF Announced, Publishing
    <3> QED
      BY <3>1, <3>2, Zenon
  <2>4. ASSUME Seen(view), NEW r \in db, r.seq <= visible_seq'
        PROVE  r \in view
    <3>1. r.seq \in Nat
      BY DEF Typed, Row
    <3>2. r.seq <= visible_seq \/ r.seq = visible_seq + 1
      BY <2>1, <2>4, <3>1
    <3>3. CASE r.seq <= visible_seq
      BY <2>4, <3>3, Zenon DEF Seen
    <3>4. CASE r.seq = visible_seq + 1
      <4>1. r \in NewRows(a)
        BY <2>1, <3>4, LastRows, Zenon
      <4> QED
        BY <2>2, <2>4, <4>1, Zenon DEF Seen
    <3> QED
      BY <3>2, <3>3, <3>4, Zenon
  <2>5. Seen(view) => Seen(view)'
    BY <2>1, <2>3, <2>4, Zenon DEF Seen
  <2> QED
    BY <1>1, <1>2, <2>1, <2>5, Zenon
<1> QED
  BY <1>5, <1>6, <1>7, <1>8, <1>9, MovesSplit, Zenon

LEMMA FreshView ==
  ASSUME Logged, NEW a \in Actor
  PROVE  View(a, db)
<1>1. \A p \in Actor : Announced(p) => NewRows(p) \subseteq db
  BY AnnouncedPublishing, Zenon DEF Logged, PublisherLogged
<1> QED
  BY <1>1, Zenon DEF View

LEMMA ViewsStep ==
  ASSUME Typed, Locks, Past, Logged, Views, NEW a \in Actor, Moves(a), Others(a)
  PROVE  Views'
<1>1. ASSUME NEW b \in Actor, NEW view \in call'[b].iterator,
             call'[b].base = call[b].base, call'[b].observed = call[b].observed,
             Validating(b), view \in call[b].iterator \/ view = db
      PROVE  View(b, view)'
  <2>1. View(b, view)
    BY <1>1, FreshView, Zenon DEF Views
  <2> QED
    BY <1>1, <2>1, ViewKept, Zenon
<1>2. ASSUME NEW b \in Actor, b # a
      PROVE  /\ pc'[b] \notin {"lookup", "scan"} => call'[b].iterator = {}
             /\ \A view \in call'[b].iterator : View(b, view)'
  <2>1. pc'[b] = pc[b] /\ call'[b] = call[b]
    BY <1>2, Zenon DEF Others
  <2>2. pc[b] \notin {"lookup", "scan"} => call[b].iterator = {}
    BY Zenon DEF Views
  <2>3. ASSUME NEW view \in call'[b].iterator
        PROVE  View(b, view)'
    <3>1. Validating(b)
      BY <2>1, <2>2, <2>3 DEF Validating
    <3> QED
      BY <1>1, <2>1, <2>3, <3>1, Zenon
  <2> QED
    BY <2>1, <2>2, <2>3, Zenon
<1>3. /\ pc'[a] \notin {"lookup", "scan"} => call'[a].iterator = {}
      /\ \A view \in call'[a].iterator : View(a, view)'
  <2>1. pc[a] \notin {"lookup", "scan"} => call[a].iterator = {}
    BY Zenon DEF Views
  <2>2. CASE Looks(a) \/ Settles(a)
    <3>1. /\ call'[a].base = call[a].base /\ call'[a].observed = call[a].observed
          /\ pc[a] \in {"lookup", "scan"} /\ pc'[a] \in {"lookup", "scan"}
          /\ \A view \in call'[a].iterator : view \in call[a].iterator \/ view = db
      BY <2>2, Zenon DEF Looks, Settles
    <3>2. Validating(a)
      BY <3>1, Zenon DEF Validating
    <3> QED
      BY <1>1, <3>1, <3>2, Zenon
  <2>3. CASE ~(Looks(a) \/ Settles(a))
    <3>1. call'[a].iterator = {} \/ (call'[a].iterator = call[a].iterator
                                       /\ pc[a] \notin {"lookup", "scan"})
      <4>1. CASE Rests(a)
        BY <4>1 DEF Rests
      <4>2. CASE Starts(a) \/ Filters1(a) \/ Captures(a) \/ Passes(a) \/ Acquires(a)
        BY <4>2 DEF Starts, Filters1, Captures, Passes, Acquires
      <4>3. CASE Saves(a) \/ Loses(a) \/ Shows(a)
        BY <4>3 DEF Saves, Loses, Shows
      <4>4. CASE Indexes(a) \/ Announces(a) \/ Inserts(a)
        BY <4>4 DEF Indexes, Announces, Inserts
      <4> QED
        BY <2>3, <4>1, <4>2, <4>3, <4>4, Zenon DEF Moves
    <3>2. call'[a].iterator = {}
      BY <2>1, <3>1, Zenon
    <3> QED
      BY <3>2, Zenon
  <2> QED
    BY <2>2, <2>3, Zenon
<1> QED
  BY <1>2, <1>3, Zenon DEF Views


-----------------------------------------------------------------------------
(* What a validation has settled. *)

Free(a, w) ==
  ~Conflicts(Boundaries(db, w[1]), w[2], call[a].successor[w], call[a].snapshot)

Checking(a) == Validating(a) \/ pc[a] \in {"decided", "write"}

Settled(a) ==
  /\ pc[a] \in {"lookup", "scan"} => call[a].todo = {}
  /\ pc[a] \in {"decided", "write"} => call[a].todo = {} /\ call[a].pending = {}
  /\ Checking(a) => \A w \in call[a].batch :
       w \in call[a].todo \/ w \in call[a].pending \/ Stale(a) \/ Free(a, w)

(* What a validation that is not out of date finds in the facts column     *)
(* family: only visible rows, which the filters know.                      *)
LEMMA Calm ==
  ASSUME Typed, Locks, Logged, NEW a \in Actor, Validating(a), ~Stale(a), NEW r \in db
  PROVE  r.seq \in Nat /\ r.seq <= visible_seq /\ Noted(r.fact, r.seq)
<1>1. ~recovery_required /\ \A p \in Actor : ~Publishing(p)
  <2>1. CASE Predicting(a)
    BY <2>1, Zenon DEF Stale
  <2>2. CASE ~Predicting(a)
    <3>1. Owns(a) /\ ~Publishing(a)
      BY <2>2 DEF Owns, Validating, Publishing
    <3>2. ~recovery_required
      BY <3>1, OwnerSafe, Zenon
    <3>3. \A p \in Actor : ~Publishing(p)
      BY <3>1, OneOwner, Zenon DEF Owns
    <3> QED
      BY <3>2, <3>3, Zenon
  <2> QED
    BY <2>1, <2>2, Zenon
<1>2. RowLogged(r)
  BY Zenon DEF Logged
<1>3. r.seq \in Nat /\ visible_seq \in Nat
  BY DEF Typed, Row
<1>4. r.seq <= visible_seq + 1 /\ r.seq # visible_seq + 1
  BY <1>1, <1>2, Zenon DEF RowLogged
<1>5. r.seq <= visible_seq
  BY <1>3, <1>4
<1> QED
  BY <1>2, <1>3, <1>5, Zenon DEF RowLogged

(* An identity without a row after the snapshot has no conflict. *)
LEMMA EarlierFree ==
  ASSUME Typed, NEW f, NEW snap \in Nat, \A r \in Rows(db, f) : r.seq <= snap,
         NEW at, NEW next
  PROVE  ~Conflicts(Boundaries(db, f), at, next, snap)
<1>1. ASSUME NEW b \in Boundaries(db, f)
      PROVE  ~(b[2] > snap)
  <2>1. db \subseteq Row
    BY Zenon DEF Typed
  <2>2. PICK r \in Rows(db, f) : r.from = b[1] /\ r.seq = b[2]
    BY <2>1, BoundariesType, Zenon
  <2>3. r.seq \in Nat /\ r.seq <= snap
    BY <2>1 DEF Rows, Row
  <2> QED
    BY <2>2, <2>3
<1> QED
  BY <1>1, Zenon DEF Conflicts

LEMMA FilterFree ==
  ASSUME Typed, Locks, Logged, Known(index, written), NEW a \in Actor, pc[a] = "filter",
         ~Stale(a), NEW w \in Mutations,
         \/ CanProveUnchanged(index, w[1], call[a].snapshot)
         \/ Racing(a)
         \/ ~MightContain(w[1])
  PROVE  Free(a, w)
<1>1. Validating(a)
  BY Zenon DEF Validating
<1>2. ~Racing(a)
  <2> SUFFICES ASSUME NEW p \in Actor, p # a, pc[p] = "index" PROVE FALSE
    BY Zenon DEF Racing
  <2>1. Publishing(p) /\ Owns(p)
    BY Zenon DEF Publishing, Owns
  <2>2. ~Predicting(a)
    BY <2>1, Zenon DEF Stale
  <2> QED
    BY <1>1, <2>1, <2>2, OneOwner, Zenon DEF Owns
<1>3. w[1] \in Fact /\ call[a].snapshot \in Nat
  <2>1. call[a].snapshot \in Nat
    BY ShapeFacts, CallFields, Zenon DEF Typed
  <2> QED
    BY <2>1 DEF Mutations
<1>4. ASSUME NEW r \in Rows(db, w[1])
      PROVE  r.seq <= call[a].snapshot
  <2>1. r \in db /\ r.fact = w[1]
    BY Zenon DEF Rows
  <2>2. Noted(w[1], r.seq)
    BY <1>1, <2>1, Calm, Zenon
  <2>3. CanProveUnchanged(index, w[1], call[a].snapshot) /\ <<w[1], r.seq>> \in written
    BY <1>2, <2>2, Zenon DEF Noted
  <2>4. <<w[1], r.seq>>[1] = w[1] /\ <<w[1], r.seq>>[2] = r.seq
    OBVIOUS
  <2>5. <<w[1], r.seq>>[2] <= call[a].snapshot
    BY <1>3, <2>3, <2>4, AnswerSound, Zenon
  <2> QED
    BY <2>4, <2>5, Zenon
<1> QED
  BY <1>3, <1>4, EarlierFree, Zenon DEF Free

(* A resident chain is as strict as the facts column family. *)
LEMMA ResidentFree ==
  ASSUME Typed, Locks, Logged, Resided, Current, NEW a \in Actor, Validating(a), ~Stale(a),
         NEW f, Resident(f), NEW at, NEW next, NEW snap \in Nat,
         ~Conflicts(Chain(f), at, next, snap)
  PROVE  ~Conflicts(Boundaries(db, f), at, next, snap)
<1>1. PICK e \in Entries : e.fact = f /\ e.chain = Chain(f)
  BY ChainFacts, Zenon
<1>2. Covered(f, Chain(f)) /\ Chain(f) \subseteq Int \X Nat
  BY <1>1, EntryFields, Zenon DEF Current
<1>3. db \subseteq Row /\ visible_seq + 1 \in Nat /\ \A r \in db : r.seq <= visible_seq + 1
  BY SeqBound, Zenon
<1> DEFINE chain == Chain(f)
           other == Boundaries(db, f)
<1>4. other \subseteq Int \X Nat
  BY <1>3, BoundariesType, Zenon
<1>5. ASSUME NEW c \in chain
      PROVE  \E b \in other : b[1] = c[1]
  <2>1. PICK r \in Rows(db, f) : r.from = c[1] /\ r.seq = c[2]
    BY <1>2, Zenon DEF Covered
  <2>2. \E b \in other : b[1] = r.from /\ b[2] >= r.seq
    BY <1>3, LatestBoundary, Zenon
  <2> QED
    BY <2>1, <2>2, Zenon
<1>6. ASSUME NEW b \in other
      PROVE  \E c \in chain : c[1] = b[1] /\ c[2] >= b[2]
  <2>1. PICK r \in Rows(db, f) : r.from = b[1] /\ r.seq = b[2]
    BY <1>3, BoundariesType, Zenon
  <2>2. r \in db
    BY Zenon DEF Rows
  <2>3. r.seq <= visible_seq
    BY <2>2, Calm, Zenon
  <2>4. Reaches(chain, r.from, r.seq)
    BY <1>2, <2>3, Zenon DEF Covered
  <2> QED
    BY <2>1, <2>4, Zenon DEF Reaches
<1> HIDE DEF chain, other
<1>7. chain \subseteq Int \X Nat /\ ~Conflicts(chain, at, next, snap)
  BY <1>2, Zenon DEF chain
<1>8. ~Conflicts(other, at, next, snap)
  BY <1>4, <1>5, <1>6, <1>7, ConflictsLater, Zenon
<1> QED
  BY <1>8, Zenon DEF other

LEMMA SettlesFree ==
  ASSUME Typed, Locks, Logged, Resided, Current, Views, NEW a \in Actor, Settles(a),
         ~Stale(a), NEW w \in call[a].pending, w \notin call'[a].pending
  PROVE  Free(a, w)
<1>1. PICK f \in Fact : \E chain :
       /\ call'[a].pending = call[a].pending \ Dependencies(a, f)
       /\ \A v \in Dependencies(a, f) :
            ~Conflicts(chain, v[2], call[a].successor[v], call[a].snapshot)
       /\ \/ Resident(f) /\ chain = Chain(f)
          \/ \E view \in call[a].iterator : chain = Boundaries(view, f)
  BY Zenon DEF Settles
<1>2. PICK chain :
       /\ call'[a].pending = call[a].pending \ Dependencies(a, f)
       /\ \A v \in Dependencies(a, f) :
            ~Conflicts(chain, v[2], call[a].successor[v], call[a].snapshot)
       /\ \/ Resident(f) /\ chain = Chain(f)
          \/ \E view \in call[a].iterator : chain = Boundaries(view, f)
  BY <1>1, Zenon
<1>3. w \in Dependencies(a, f)
  BY <1>2, Zenon
<1>4. w[1] = f /\ ~Conflicts(chain, w[2], call[a].successor[w], call[a].snapshot)
  BY <1>2, <1>3, Zenon DEF Dependencies
<1>5. Validating(a) /\ call[a].snapshot \in Nat
  <2>1. call[a].snapshot \in Nat
    BY ShapeFacts, CallFields, Zenon DEF Typed
  <2> QED
    BY <2>1, Zenon DEF Settles, Validating
<1>6. CASE Resident(f) /\ chain = Chain(f)
  <2>1. ~Conflicts(Chain(f), w[2], call[a].successor[w], call[a].snapshot)
    BY <1>4, <1>6, Zenon
  <2>2. ~Conflicts(Boundaries(db, f), w[2], call[a].successor[w], call[a].snapshot)
    BY <1>5, <1>6, <2>1, ResidentFree, Zenon
  <2> QED
    BY <1>4, <2>2, Zenon DEF Free
<1>7. ASSUME NEW view \in call[a].iterator, chain = Boundaries(view, f)
      PROVE  Free(a, w)
  <2>1. view = db
    BY <1>7, Zenon DEF Views, View
  <2> QED
    BY <1>4, <1>7, <2>1, Zenon DEF Free
<1> QED
  BY <1>2, <1>6, <1>7, Zenon

LEMMA FreeSame ==
  ASSUME NEW b, NEW w, db' = db, call'[b].successor = call[b].successor,
         call'[b].snapshot = call[b].snapshot
  PROVE  Free(b, w)' = Free(b, w)
BY Zenon DEF Free, Conflicts, Boundaries, Rows


(* A move of another actor: it writes only when b is to start over. *)
LEMMA SettledBeside ==
  ASSUME Typed, Locks, Past, NEW a \in Actor, Moves(a), Others(a),
         NEW b \in Actor, b # a, Settled(b)
  PROVE  Settled(b)'
<1>1. pc'[b] = pc[b] /\ call'[b] = call[b]
  BY Zenon DEF Others
<1>2. Stale(b) => Stale(b)'
  BY <1>1, StaleKept, Zenon
<1>3. ASSUME NEW w \in call[b].batch, Checking(b), Free(b, w)
      PROVE  Stale(b)' \/ Free(b, w)'
  <2>1. CASE db' = db
    <3>1. Free(b, w)' = Free(b, w)
      BY <1>1, <2>1, FreeSame, Zenon
    <3> QED
      BY <1>3, <3>1, Zenon
  <2>2. CASE Owns(a) /\ (Publishing(a)' \/ recovery_required')
    <3>1. Predicting(b)
      <4>1. CASE Validating(b)
        BY <2>2, <4>1, Overtaken, Zenon
      <4>2. CASE pc[b] = "decided"
        BY <4>2, Zenon DEF Locks
      <4>3. CASE pc[b] = "write"
        BY <2>2, <4>3, OneOwner, Zenon DEF Owns
      <4> QED
        BY <1>3, <4>1, <4>2, <4>3, Zenon DEF Checking
    <3>2. Predicting(b)'
      BY <1>1, <3>1, Zenon DEF Predicting
    <3> QED
      BY <2>2, <3>2, Zenon DEF Stale
  <2>3. CASE Saves(a) \/ Loses(a)
    <3>1. /\ pc[a] = "write"
          /\ db' = db \/ pc'[a] = "index" \/ recovery_required'
      BY <2>3, Zenon DEF Saves, Loses
    <3>2. Owns(a) /\ (pc'[a] = "index" => Publishing(a)')
      BY <3>1 DEF Owns, Publishing
    <3> QED
      BY <2>1, <2>2, <3>1, <3>2, Zenon
  <2>4. CASE Aside(a) \/ Indexes(a) \/ Announces(a) \/ Inserts(a) \/ Shows(a)
    <3>1. db' = db
      BY <2>4, AsideFacts, Zenon DEF Indexes, Announces, Inserts, Shows, Quiet, Log
    <3> QED
      BY <2>1, <3>1, Zenon
  <2> QED
    BY <2>3, <2>4, MovesSplit, Zenon
<1>4. ASSUME Checking(b)', NEW w \in call'[b].batch
      PROVE  w \in call'[b].todo \/ w \in call'[b].pending \/ Stale(b)' \/ Free(b, w)'
  <2>1. Checking(b) /\ w \in call[b].batch
    BY <1>1, <1>4, Zenon DEF Checking, Validating
  <2>2. w \in call[b].todo \/ w \in call[b].pending \/ Stale(b) \/ Free(b, w)
    BY <2>1, Zenon DEF Settled
  <2> QED
    BY <1>1, <1>2, <1>3, <2>1, <2>2, Zenon
<1>5. /\ pc'[b] \in {"lookup", "scan"} => call'[b].todo = {}
      /\ pc'[b] \in {"decided", "write"} => call'[b].todo = {} /\ call'[b].pending = {}
  BY <1>1, Zenon DEF Settled
<1> QED
  BY <1>4, <1>5, Zenon DEF Settled

(* The moves of a validation that settles, one mutation after the other. *)
LEMMA SettledOnward ==
  ASSUME Typed, Locks, Past, NEW a \in Actor, Moves(a), Others(a), Settled(a), Quiet, Kept(a),
         Checking(a), call'[a].base = call[a].base,
         \A w \in call[a].batch :
           w \in call[a].todo \/ w \in call[a].pending =>
             w \in call'[a].todo \/ w \in call'[a].pending \/ Stale(a) \/ Free(a, w),
         pc'[a] \in {"lookup", "scan"} => call'[a].todo = {},
         pc'[a] \in {"decided", "write"} => call'[a].todo = {} /\ call'[a].pending = {}
  PROVE  Settled(a)'
<1>1. db' = db /\ call'[a].batch = call[a].batch /\ call'[a].snapshot = call[a].snapshot
      /\ call'[a].successor = call[a].successor
  BY Zenon DEF Quiet, Log, Kept
<1>2. Stale(a) => Stale(a)'
  BY StaleKept, Zenon
<1>3. \A w : Free(a, w)' = Free(a, w)
  BY <1>1, FreeSame, Zenon
<1>4. ASSUME NEW w \in call'[a].batch
      PROVE  w \in call'[a].todo \/ w \in call'[a].pending \/ Stale(a)' \/ Free(a, w)'
  <2>1. w \in call[a].batch
    BY <1>1, Zenon
  <2>2. w \in call[a].todo \/ w \in call[a].pending \/ Stale(a) \/ Free(a, w)
    BY <2>1, Zenon DEF Settled
  <2>3. w \in call'[a].todo \/ w \in call'[a].pending \/ Stale(a) \/ Free(a, w)
    BY <2>1, <2>2, Zenon
  <2>4. Free(a, w)' = Free(a, w)
    BY <1>3, Zenon
  <2> QED
    BY <1>2, <2>3, <2>4, Zenon
<1> QED
  BY <1>4, Zenon DEF Settled

LEMMA SettledSelf ==
  ASSUME Typed, Locks, Past, Logged, Resided, Current, Views, Known(index, written),
         NEW a \in Actor, Moves(a), Others(a), Settled(a)
  PROVE  Settled(a)'
<1> USE DEF Checking, Validating
<1>1. CASE ~Checking(a)'
  <2>1. /\ ~(pc'[a] \in {"lookup", "scan"}) /\ ~(pc'[a] \in {"decided", "write"})
    BY <1>1
  <2> QED
    BY <1>1, <2>1, Zenon DEF Settled
<1>2. CASE Starts(a)
  <2>1. pc'[a] = "filter" /\ call'[a].todo = call'[a].batch
    BY <1>2, Zenon DEF Starts, Kept
  <2>2. ~(pc'[a] \in {"lookup", "scan"}) /\ ~(pc'[a] \in {"decided", "write"})
    BY <2>1
  <2> QED
    BY <2>1, <2>2, Zenon DEF Settled
<1>3. CASE Filters1(a)
  <2>1. /\ pc[a] = "filter" /\ pc'[a] = "filter" /\ Quiet /\ Kept(a)
        /\ call'[a].base = call[a].base
    BY <1>3, Zenon DEF Filters1
  <2>2. PICK v \in call[a].todo :
       /\ call'[a].todo = call[a].todo \ {v}
       /\ \/ call'[a].pending = call[a].pending \cup {v}
          \/ /\ call'[a].pending = call[a].pending
             /\ \/ CanProveUnchanged(index, v[1], call[a].snapshot)
                \/ Racing(a)
                \/ ~MightContain(v[1])
    BY <1>3, Zenon DEF Filters1
  <2>3. v \in Mutations
    BY ShapeFacts, CallFields, Zenon DEF Typed
  <2>4. v \in call'[a].pending \/ Stale(a) \/ Free(a, v)
    BY <2>1, <2>2, <2>3, FilterFree, Zenon
  <2>5. ASSUME NEW w \in call[a].batch, w \in call[a].todo \/ w \in call[a].pending
        PROVE  w \in call'[a].todo \/ w \in call'[a].pending \/ Stale(a) \/ Free(a, w)
    BY <2>2, <2>4, <2>5, Zenon
  <2>6. /\ ~(pc'[a] \in {"lookup", "scan"}) /\ ~(pc'[a] \in {"decided", "write"})
        /\ Checking(a)
    BY <2>1
  <2> QED
    BY <2>1, <2>5, <2>6, SettledOnward, Zenon
<1>4. CASE Captures(a) \/ Looks(a)
  <2>1. /\ pc'[a] \in {"lookup", "scan"} /\ Quiet /\ Kept(a) /\ call[a].todo = {}
        /\ call'[a].base = call[a].base /\ call'[a].todo = call[a].todo
        /\ call'[a].pending = call[a].pending
    BY <1>4, Zenon DEF Captures, Looks, Settled
  <2>2. Checking(a) /\ ~(pc'[a] \in {"decided", "write"})
    BY <1>4, <2>1 DEF Captures, Looks
  <2>3. call'[a].todo = {}
    BY <2>1, Zenon
  <2>4. \A w \in call[a].batch :
           w \in call[a].todo \/ w \in call[a].pending =>
             w \in call'[a].todo \/ w \in call'[a].pending \/ Stale(a) \/ Free(a, w)
    BY <2>1, Zenon
  <2> QED
    BY <2>1, <2>2, <2>3, <2>4, SettledOnward, Zenon
<1>5. CASE Settles(a)
  <2>1. /\ pc[a] \in {"lookup", "scan"} /\ pc'[a] = "lookup" /\ Quiet /\ Kept(a)
        /\ call'[a].base = call[a].base /\ call'[a].todo = call[a].todo
    BY <1>5, Zenon DEF Settles
  <2>2. call'[a].todo = {}
    BY <2>1, Zenon DEF Settled
  <2>3. Checking(a) /\ ~(pc'[a] \in {"decided", "write"})
    BY <2>1
  <2>4. ASSUME NEW w \in call[a].batch, w \in call[a].todo \/ w \in call[a].pending
        PROVE  w \in call'[a].todo \/ w \in call'[a].pending \/ Stale(a) \/ Free(a, w)
    BY <1>5, <2>1, <2>4, SettlesFree, Zenon
  <2> QED
    BY <2>1, <2>2, <2>3, <2>4, SettledOnward, Zenon
<1>6. CASE Passes(a)
  <2>1. /\ pc[a] = "lookup" /\ Quiet /\ Kept(a) /\ call[a].pending = {}
        /\ call'[a].base = call[a].base /\ call'[a].todo = {} /\ call'[a].pending = {}
    BY <1>6, Zenon DEF Passes
  <2>2. call[a].todo = {}
    BY <2>1, Zenon DEF Settled
  <2>3. \A w \in call[a].batch :
           w \in call[a].todo \/ w \in call[a].pending =>
             w \in call'[a].todo \/ w \in call'[a].pending \/ Stale(a) \/ Free(a, w)
    BY <2>1, <2>2, Zenon
  <2>4. Checking(a)
    BY <2>1
  <2> QED
    BY <2>1, <2>3, <2>4, SettledOnward, Zenon
<1>7. CASE Acquires(a)
  <2>1. /\ pc[a] = "decided" /\ pc'[a] = "write" /\ Quiet /\ Kept(a) /\ publisher_mutex = {}
        /\ ~recovery_required /\ visible_seq \in call[a].base
        /\ call'[a].todo = call[a].todo /\ call'[a].pending = call[a].pending
    BY <1>7, Zenon DEF Acquires
  <2>2. call[a].todo = {} /\ call[a].pending = {}
    BY <2>1, Zenon DEF Settled
  <2>3. \A p \in Actor : ~Publishing(p)
    BY <2>1, Zenon DEF Locks, Owns
  <2>4. ~Stale(a)
    BY <2>1, <2>3, Zenon DEF Stale
  <2>5. Checking(a)
    BY <2>1
  <2>6. \A w \in call[a].batch : Free(a, w)
    BY <2>2, <2>4, <2>5, Zenon DEF Settled
  <2>7. /\ db' = db /\ call'[a].batch = call[a].batch
        /\ call'[a].snapshot = call[a].snapshot /\ call'[a].successor = call[a].successor
    BY <2>1, Zenon DEF Quiet, Log, Kept
  <2>8. \A w : Free(a, w)' = Free(a, w)
    BY <2>7, FreeSame, Zenon
  <2>9. \A w \in call'[a].batch : Free(a, w)'
    BY <2>6, <2>7, <2>8, Zenon
  <2>10. call'[a].todo = {} /\ call'[a].pending = {}
    BY <2>1, <2>2, Zenon
  <2> QED
    BY <2>9, <2>10, Zenon DEF Settled
<1>8. CASE Rests(a)
  <2>1. ~Checking(a)'
    BY <1>8 DEF Rests
  <2> QED
    BY <1>1, <2>1, Zenon
<1>9. CASE Saves(a) \/ Loses(a) \/ Announces(a) \/ Shows(a)
  <2>1. ~Checking(a)'
    BY <1>9 DEF Saves, Loses, Announces, Shows
  <2> QED
    BY <1>1, <2>1, Zenon
<1>10. CASE Indexes(a) \/ Inserts(a)
  <2>1. pc'[a] \in {"index", "generation", "visible"}
    BY <1>10, Zenon DEF Indexes, Inserts
  <2>2. ~Checking(a)'
    BY <2>1
  <2> QED
    BY <1>1, <2>2, Zenon
<1> QED
  BY <1>2, <1>3, <1>4, <1>5, <1>6, <1>7, <1>8, <1>9, <1>10, Zenon DEF Moves

-----------------------------------------------------------------------------
(* The inductive invariant. *)

Inductive ==
  /\ Typed /\ Locks /\ Past /\ Logged /\ Resided /\ Current /\ Views
  /\ Known(index, written)
  /\ \A a \in Actor : Settled(a)

LEMMA KnownStep ==
  ASSUME Typed, Known(index, written), NEW a \in Actor, Moves(a)
  PROVE  Known(index', written')
<1>1. CASE index' = index /\ written' = written
  BY <1>1, Zenon
<1>2. CASE Indexes(a)
  <2>1. PICK w \in call[a].todo : PublishWrite(w[1], visible_seq + 1)
    BY <1>2, Zenon DEF Indexes
  <2>2. w \in Mutations
    BY ShapeFacts, CallFields, Zenon DEF Typed
  <2>3. w[1] \in Fact /\ visible_seq + 1 \in Nat
    BY <2>2 DEF Typed, Mutations
  <2>4. /\ index' = Publish(index, w[1], visible_seq + 1)
        /\ written' = written \cup {<<w[1], visible_seq + 1>>}
    BY <2>1, Zenon DEF PublishWrite
  <2>5. Known(Publish(index, w[1], visible_seq + 1), written \cup {<<w[1], visible_seq + 1>>})
    BY <2>3, PublishKnown, Zenon
  <2> QED
    BY <2>4, <2>5, Zenon
<1>3. CASE Aside(a) \/ Saves(a) \/ Loses(a) \/ Announces(a) \/ Inserts(a) \/ Shows(a)
  <2>1. index' = index /\ written' = written
    BY <1>3, AsideFacts, Zenon DEF Saves, Loses, Announces, Inserts, Shows, Quiet, Filtered,
       caches
  <2> QED
    BY <1>1, <2>1, Zenon
<1> QED
  BY <1>2, <1>3, MovesSplit, Zenon

(* The caches that Open builds know what the facts column family has. *)
LEMMA Reopened ==
  ASSUME Typed, Logged, NEW skip \in BOOLEAN, Reopen(skip)
  PROVE  /\ visible_seq' \in Nat /\ \A r \in db : r.seq \in Nat /\ r.seq <= visible_seq'
         /\ \A r \in db : Noted(r.fact, r.seq)'
         /\ Known(index', written')
<1> DEFINE S == {0} \cup {r.seq : r \in db}
           top == visible_seq + 1
<1>1. \A r \in db : r.seq \in Nat /\ r.seq <= top
  BY DEF Typed, Row, Logged, RowLogged
<1>2. top \in Nat /\ 0 <= top
  BY DEF Typed
<1>3. S \subseteq Nat /\ S # {} /\ \A n \in S : n <= top
  <2>1. ASSUME NEW n \in S
        PROVE  n \in Nat /\ n <= top
    <3>1. CASE n = 0
      BY <1>2, <3>1
    <3>2. CASE \E r \in db : n = r.seq
      BY <1>1, <3>2, Zenon
    <3> QED
      BY <3>1, <3>2, Zenon
  <2>2. 0 \in S
    BY Zenon
  <2> QED
    BY <2>1, <2>2, Zenon
<1> HIDE DEF top
<1>4. visible_seq' = Max(S)
  BY Zenon DEF Reopen
<1>5. \A r \in db : r.seq \in S
  BY Zenon
<1> HIDE DEF S
<1>6. PICK m \in S : \A n \in S : n <= m
  BY <1>2, <1>3, Greatest, Zenon
<1>7. \A n \in S : m >= n
  BY <1>3, <1>6
<1>8. Max(S) \in S /\ \A n \in S : Max(S) >= n
  BY <1>7, Zenon DEF Max
<1>9. visible_seq' \in Nat /\ \A n \in S : n \in Nat /\ visible_seq' >= n
  BY <1>3, <1>4, <1>8, Zenon
<1>10. \A r \in db : r.seq \in Nat /\ r.seq <= visible_seq'
  BY <1>5, <1>9
<1>11. ASSUME NEW r \in db
       PROVE  Noted(r.fact, r.seq)'
  <2>1. <<r.fact, r.seq>> \in written'
    BY Zenon DEF Reopen
  <2>2. history_disabled' \/ r.fact \in identity_history'
    BY Zenon DEF Reopen, RebuildHistory
  <2> QED
    BY <2>1, <2>2, Zenon DEF Noted, MightContain
<1>12. Known(index', written')
  <2>1. index' = NewIndex(visible_seq') /\ written' = {<<r.fact, r.seq>> : r \in db}
    BY Zenon DEF Reopen
  <2>2. ASSUME NEW r \in db
        PROVE  /\ <<r.fact, r.seq>> \in Fact \X Nat
               /\ <<r.fact, r.seq>>[2] <= visible_seq'
    BY <1>10 DEF Typed, Row
  <2>3. written' \subseteq Writes /\ \A w \in written' : w[2] <= visible_seq'
    BY <2>1, <2>2, Zenon DEF Writes
  <2>4. Known(NewIndex(visible_seq'), written')
    BY <1>9, <2>3, NewKnown, Zenon
  <2> QED
    BY <2>1, <2>4, Zenon
<1> QED
  BY <1>9, <1>10, <1>11, <1>12, Zenon


(* What Open leaves: no commit under way, nothing cached. *)
Opened ==
  /\ pc = [a \in Actor |-> "idle"] /\ call = [a \in Actor |-> NoCall]
  /\ publisher_mutex = {} /\ recovery_required = FALSE
  /\ slots = <<>> /\ publish_generation = 0
  /\ db \subseteq Row /\ visible_seq \in Nat
  /\ \A r \in db : r.seq <= visible_seq /\ Noted(r.fact, r.seq)
  /\ Known(index, written)

LEMMA OpenedInductive == Opened => Inductive
<1> SUFFICES ASSUME Opened PROVE Inductive
  BY Zenon
<1>1. \A a \in Actor : pc[a] = "idle" /\ call[a] = NoCall
  BY Zenon DEF Opened
<1>2. /\ NoCall \in Call
      /\ NoCall.iterator = {} /\ NoCall.base = {} /\ NoCall.observed = 0
  BY NoCallType, Zenon
<1>3. \A a \in Actor : ~Predicting(a)
  BY <1>1, <1>2, Zenon DEF Predicting
<1>4. \A a \in Actor : /\ ~Validating(a) /\ ~Publishing(a) /\ ~Owns(a) /\ ~Checking(a)
                       /\ pc[a] \notin {"lookup", "scan"} /\ pc[a] \notin {"decided", "write"}
  BY <1>1 DEF Validating, Publishing, Owns, Checking
<1>5. Typed
  <2>1. pc \in [Actor -> Label] /\ call \in [Actor -> Call]
    BY <1>2 DEF Opened, Label
  <2>2. 0 \in Nat
    OBVIOUS
  <2> QED
    BY <2>1, <2>2, Zenon DEF Opened, Typed, Shape
<1>6. Locks
  BY <1>3, <1>4, Zenon DEF Opened, Locks
<1>7. Past
  <2>1. 0 <= 0
    OBVIOUS
  <2> QED
    BY <1>1, <1>2, <2>1, Zenon DEF Opened, Past
<1>8. Logged
  <2>1. ASSUME NEW r \in db
        PROVE  RowLogged(r)
    <3>1. r.seq \in Nat /\ r.seq <= visible_seq /\ visible_seq \in Nat
      BY DEF Opened, Row
    <3>2. r.seq <= visible_seq + 1 /\ r.seq # visible_seq + 1
      BY <3>1
    <3> QED
      BY <3>2, Zenon DEF Opened, RowLogged
  <2> QED
    BY <1>4, <2>1, Zenon DEF Logged
<1>9. Entries = {} /\ Resided
  <2>1. slots = <<>> /\ <<>> \in Seq(Entry) /\ 1..Len(<<>>) = {}
    BY DEF Opened
  <2> QED
    BY <2>1, Zenon DEF Entries, Resided, Distinct
<1>10. Current
  BY <1>9, Zenon DEF Current
<1>11. Views
  BY <1>1, <1>2, Zenon DEF Views
<1>12. \A a \in Actor : Settled(a)
  BY <1>4, Zenon DEF Settled
<1> QED
  BY <1>5, <1>6, <1>7, <1>8, <1>9, <1>10, <1>11, <1>12, Zenon DEF Opened, Inductive

LEMMA InitOpened ==
  ASSUME Init
  PROVE  Opened
<1>1. index = NewIndex(0) /\ written = {} /\ db = {} /\ visible_seq = 0 /\ 0 \in Nat
  BY DEF Init
<1>2. Known(NewIndex(0), {})
  <2>1. PICK W, zero : W = {} /\ zero = 0
    BY Zenon
  <2>2. zero \in Nat /\ W \subseteq Writes /\ \A w \in W : w[2] <= zero
    BY <2>1
  <2>3. Known(NewIndex(zero), W)
    BY <2>2, NewKnown, Zenon
  <2> QED
    BY <2>1, <2>3, Zenon
<1> QED
  BY <1>1, <1>2, Zenon DEF Init, Opened

LEMMA ReopenOpened ==
  ASSUME Typed, Logged, NEW skip \in BOOLEAN, Reopen(skip)
  PROVE  Opened'
<1>1. /\ visible_seq' \in Nat /\ \A r \in db : r.seq \in Nat /\ r.seq <= visible_seq'
      /\ \A r \in db : Noted(r.fact, r.seq)'
      /\ Known(index', written')
  BY Reopened, Zenon
<1>2. Known(index, written)' = Known(index', written')
  BY DEF Known, Replaceable, ExactBounds, WindowsCover, Recorded, Holding
<1>3. db' = db /\ db \subseteq Row
  BY Zenon DEF Reopen, Typed
<1>4. \A r \in db' : r.seq <= visible_seq' /\ Noted(r.fact, r.seq)'
  BY <1>1, <1>3, Zenon
<1>5. /\ pc' = [a \in Actor |-> "idle"] /\ call' = [a \in Actor |-> NoCall]
      /\ publisher_mutex' = {} /\ recovery_required' = FALSE
      /\ slots' = <<>> /\ publish_generation' = 0
  BY Zenon DEF Reopen
<1> QED
  BY <1>1, <1>2, <1>3, <1>4, <1>5, Zenon DEF Opened

LEMMA InductiveMoves ==
  ASSUME Inductive, NEW a \in Actor, Shape', Moves(a)
  PROVE  Inductive'
<1>1. /\ Typed /\ Locks /\ Past /\ Logged /\ Resided /\ Current /\ Views
      /\ Known(index, written)
      /\ \A b \in Actor : Settled(b)
  BY Zenon DEF Inductive
<1>2. Others(a)
  BY <1>1, MutexMoves, Zenon
<1>3. Typed' /\ Locks' /\ Logged'
  BY <1>1, TypedStep, LocksStep, LoggedStep, Zenon
<1>4. Past'
  BY <1>1, <1>2, <1>3, PastStep, Zenon
<1>5. Resided' /\ Current'
  BY <1>1, CurrentStep, Zenon
<1>6. Views'
  BY <1>1, <1>2, ViewsStep, Zenon
<1>7. Known(index, written)'
  <2>1. Known(index', written')
    BY <1>1, KnownStep, Zenon
  <2>2. Known(index, written)' = Known(index', written')
    BY DEF Known, Replaceable, ExactBounds, WindowsCover, Recorded, Holding
  <2> QED
    BY <2>1, <2>2, Zenon
<1>8. ASSUME NEW b \in Actor
      PROVE  Settled(b)'
  <2>1. CASE b = a
    BY <1>1, <1>2, <2>1, SettledSelf, Zenon
  <2>2. CASE b # a
    BY <1>1, <1>2, <2>2, SettledBeside, Zenon
  <2> QED
    BY <2>1, <2>2, Zenon
<1> QED
  BY <1>3, <1>4, <1>5, <1>6, <1>7, <1>8, Zenon DEF Inductive

(* Nothing that the invariant speaks of changes when nothing does. *)
LEMMA InductiveSame ==
  ASSUME Inductive, UNCHANGED vars
  PROVE  Inductive'
<1>1. /\ UNCHANGED <<db, visible_seq, recovery_required, publisher_mutex, index, written>>
      /\ UNCHANGED <<identity_history, history_disabled, slots, publish_generation, pc, call>>
  BY Zenon DEF vars, store, caches
<1>2. /\ Typed /\ Locks /\ Past /\ Logged /\ Resided /\ Current /\ Views
      /\ Known(index, written)
      /\ \A a \in Actor : Settled(a)
  BY Zenon DEF Inductive
<1>3. ASSUME NEW p
      PROVE  /\ Publishing(p)' <=> Publishing(p)
             /\ Predicting(p)' <=> Predicting(p)
             /\ Validating(p)' <=> Validating(p)
             /\ Announced(p)' <=> Announced(p)
             /\ Owns(p)' <=> Owns(p)
             /\ Passed(p)' = Passed(p)
             /\ NewRows(p)' = NewRows(p)
  BY <1>1, Zenon DEF Publishing, Predicting, Validating, NewRows, Passed, Announced, Owns
<1>4. ASSUME NEW f, NEW s
      PROVE  Noted(f, s)' <=> Noted(f, s)
  BY <1>1, Zenon DEF Noted, MightContain
<1>5. Typed' /\ Locks' /\ Past'
  BY <1>1, <1>2, <1>3, Zenon DEF Typed, Shape, Locks, Past
<1>6. Logged'
  <2>1. \A r \in db : RowLogged(r)'
    BY <1>1, <1>2, <1>3, <1>4, Zenon DEF Logged, RowLogged
  <2>2. \A p \in Actor : Publishing(p) => PublisherLogged(p)'
    BY <1>1, <1>2, <1>3, <1>4, Zenon DEF Logged, PublisherLogged
  <2> QED
    BY <1>1, <1>3, <2>1, <2>2, Zenon DEF Logged
<1>7. Resided' /\ Current'
  <2>1. Resided' /\ Entries' = Entries
    BY <1>1, <1>2, SameEntries, Zenon
  <2>2. ASSUME NEW f, NEW chain, Covered(f, chain)
        PROVE  Covered(f, chain)'
    <3>1. Rows(db, f)' = Rows(db, f)
      BY <1>1, Zenon DEF Rows
    <3> QED
      BY <1>1, <1>3, <2>2, <3>1, Zenon DEF Covered
  <2> QED
    BY <1>2, <2>1, <2>2, Zenon DEF Current
<1>8. ASSUME NEW a
      PROVE  Stale(a)' <=> Stale(a)
  BY <1>1, <1>3, Zenon DEF Stale
<1>9. Views'
  <2>1. \A a, view : View(a, view) => View(a, view)'
    BY <1>1, <1>3, <1>8, Zenon DEF View
  <2> QED
    BY <1>1, <1>2, <2>1, Zenon DEF Views
<1>10. Known(index, written)'
  BY <1>1, <1>2 DEF Known, Replaceable, ExactBounds, WindowsCover, Recorded, Holding
<1>11. ASSUME NEW a \in Actor
       PROVE  Settled(a)'
  <2>1. \A w : Free(a, w) => Free(a, w)'
    BY <1>1, Zenon DEF Free, Conflicts, Boundaries, Rows
  <2> QED
    BY <1>1, <1>2, <1>3, <1>8, <2>1, Zenon DEF Settled, Checking
<1> QED
  BY <1>5, <1>6, <1>7, <1>9, <1>10, <1>11, Zenon DEF Inductive

LEMMA InductiveStep == Inductive /\ [Next]_vars => Inductive'
<1> SUFFICES ASSUME Inductive, [Next]_vars PROVE Inductive'
  BY Zenon
<1>1. Typed /\ Logged
  BY Zenon DEF Inductive
<1>2. ASSUME NEW skip \in BOOLEAN, Reopen(skip)
      PROVE  Inductive'
  <2>1. Opened'
    BY <1>1, <1>2, ReopenOpened, Zenon
  <2>2. Opened' => Inductive'
    BY OpenedInductive, PTL
  <2> QED
    BY <2>1, <2>2, Zenon
<1> QED
  BY <1>1, <1>2, NextMoves, InductiveMoves, InductiveSame, Zenon

LEMMA ValidationInvariant == Spec => []Inductive
<1>1. Init => Inductive
  BY InitOpened, OpenedInductive, Zenon
<1> QED
  BY <1>1, InductiveStep, PTL DEF Spec

-----------------------------------------------------------------------------
(* What holds of every run. *)

(* No resident chain of the VersionValidationCache is stale, however the   *)
(* scans of unlocked validations, Prime and the two halves of Publish      *)
(* interleave: that is what the publish generation is for.                 *)
THEOREM ChainsCorrect == Spec => []ChainsCurrent
<1>1. Inductive => ChainsCurrent
  <2> SUFFICES ASSUME Inductive, NEW i \in DOMAIN slots
               PROVE  /\ \A r \in Rows(db, slots[i].fact) : r.seq <= visible_seq =>
                           \E b \in slots[i].chain : b[1] = r.from /\ b[2] >= r.seq
                      /\ \A b \in slots[i].chain : \E r \in Rows(db, slots[i].fact) :
                           r.from = b[1] /\ r.seq = b[2]
    BY Zenon DEF ChainsCurrent
  <2>1. DOMAIN slots = 1..Len(slots)
    BY SlotsLength, Zenon DEF Inductive
  <2>2. slots[i] \in Entries
    BY <2>1, Zenon DEF Entries
  <2>3. Covered(slots[i].fact, slots[i].chain)
    BY <2>2, Zenon DEF Inductive, Current
  <2> QED
    BY <2>3, Zenon DEF Covered, Reaches
<1> QED
  BY <1>1, ValidationInvariant, PTL

(* A batch that ValidateSnapshotWriteDependencies let pass has no conflict *)
(* when it is written, whether the index, the history, a cached chain or a *)
(* scan settled each of its dependencies, and whether or not the worker    *)
(* validated it before it had publisher_mutex.                             *)
THEOREM ValidationCorrect == Spec => []DecisionsHold
<1>1. Inductive => DecisionsHold
  <2> SUFFICES ASSUME Inductive, NEW a \in Actor, pc[a] = "write", NEW w \in call[a].batch
               PROVE  ~Conflicts(Boundaries(db, w[1]), w[2], call[a].successor[w],
                                 call[a].snapshot)
    BY Zenon DEF DecisionsHold
  <2>1. Locks /\ Settled(a)
    BY Zenon DEF Inductive
  <2>2. Checking(a) /\ ~Validating(a) /\ pc[a] # "decided" /\ pc[a] \in {"decided", "write"}
    BY DEF Checking, Validating
  <2>3. ~Stale(a)
    BY <2>1, <2>2, Zenon DEF Locks, Stale
  <2>4. Free(a, w)
    BY <2>1, <2>2, <2>3, Zenon DEF Settled
  <2> QED
    BY <2>4, Zenon DEF Free
<1> QED
  BY <1>1, ValidationInvariant, PTL

(* CanProveUnchanged stays right when the store that owns the index writes *)
(* to it and rebuilds it: each batch is published at the sequence after    *)
(* visible_seq, and Open starts a new index at the durable watermark.      *)
THEOREM IndexStaysSound == Spec => []ProofsSound
<1>1. Inductive => ProofsSound
  BY KnownSound, Zenon DEF Inductive
<1> QED
  BY <1>1, ValidationInvariant, PTL

=============================================================================

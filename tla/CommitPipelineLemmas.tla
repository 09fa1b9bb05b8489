------------------------ MODULE CommitPipelineLemmas ------------------------
(***************************************************************************)
(* What each step of the append commit pipeline keeps.  First, whatever    *)
(* the prepared commits write: types and counters, the place of a request, *)
(* the durability of the answers, and the sequences of the log.  Then, why *)
(* group commit is serial commit: what a validation depends on, and that   *)
(* each step keeps the predictions and the log serial.                     *)
(***************************************************************************)
EXTENDS CommitPipelineInvariants, TLAPS

-----------------------------------------------------------------------------
(* What the append queue needs of sequences *)

LEMMA LenFacts ==
  ASSUME NEW S, NEW q \in Seq(S)
  PROVE  Len(q) \in Nat /\ DOMAIN q = 1..Len(q)
OBVIOUS

LEMMA EmptyFacts == \A S : <<>> \in Seq(S) /\ Len(<<>>) = 0 /\ Range(<<>>) = {}
BY DEF Range

LEMMA AppendFacts ==
  ASSUME NEW S, NEW q \in Seq(S), NEW x \in S
  PROVE  /\ Append(q, x) \in Seq(S)
         /\ Len(Append(q, x)) = Len(q) + 1
         /\ Range(Append(q, x)) = Range(q) \cup {x}
<1>1. /\ Append(q, x) \in Seq(S)
      /\ Len(Append(q, x)) = Len(q) + 1
      /\ \A i \in 1..Len(q) : Append(q, x)[i] = q[i]
      /\ Append(q, x)[Len(q) + 1] = x
  OBVIOUS
<1>2. /\ DOMAIN q = 1..Len(q)
      /\ DOMAIN Append(q, x) = 1..(Len(q) + 1)
      /\ Len(q) \in Nat
  BY <1>1
<1> QED
  BY <1>1, <1>2 DEF Range

\* The elements of a prefix of a sequence.
LEMMA PrefixElements ==
  ASSUME NEW S, NEW q \in Seq(S), NEW n \in Nat, n <= Len(q)
  PROVE  /\ SubSeq(q, 1, n) \in Seq(S)
         /\ Len(SubSeq(q, 1, n)) = n
         /\ DOMAIN SubSeq(q, 1, n) = 1..n
         /\ \A i \in 1..n : SubSeq(q, 1, n)[i] = q[i]
<1>1. Len(q) \in Nat /\ \A i \in 1..Len(q) : q[i] \in S
  OBVIOUS
<1>2. \A i \in 1..n : q[i] \in S
  BY <1>1
<1>3. /\ SubSeq(q, 1, n) \in Seq(S)
      /\ Len(SubSeq(q, 1, n)) = n
      /\ \A i \in 1..n : SubSeq(q, 1, n)[i] = q[i]
  BY <1>2
<1> QED
  BY <1>3

\* The elements behind a prefix of a sequence.
LEMMA RestElements ==
  ASSUME NEW S, NEW q \in Seq(S), NEW n \in Nat, n <= Len(q)
  PROVE  /\ SubSeq(q, n + 1, Len(q)) \in Seq(S)
         /\ Len(SubSeq(q, n + 1, Len(q))) = Len(q) - n
         /\ DOMAIN SubSeq(q, n + 1, Len(q)) = 1..(Len(q) - n)
         /\ \A i \in 1..(Len(q) - n) : SubSeq(q, n + 1, Len(q))[i] = q[n + i]
<1>1. Len(q) \in Nat /\ \A i \in 1..Len(q) : q[i] \in S
  OBVIOUS
<1>2. \A i \in (n + 1)..Len(q) : q[i] \in S
  BY <1>1
<1>3. /\ SubSeq(q, n + 1, Len(q)) \in Seq(S)
      /\ Len(SubSeq(q, n + 1, Len(q))) = Len(q) - n
      /\ \A i \in 1..(Len(q) - n) : SubSeq(q, n + 1, Len(q))[i] = q[n + i]
  BY <1>1, <1>2
<1> QED
  BY <1>3

\* A prefix and the rest of a sequence.
LEMMA SplitFacts ==
  ASSUME NEW S, NEW q \in Seq(S), NEW n \in Nat, n <= Len(q)
  PROVE  /\ SubSeq(q, 1, n) \in Seq(S)
         /\ Len(SubSeq(q, 1, n)) = n
         /\ SubSeq(q, n + 1, Len(q)) \in Seq(S)
         /\ Len(SubSeq(q, n + 1, Len(q))) = Len(q) - n
         /\ \A i \in 1..n : q[i] \in Range(SubSeq(q, 1, n))
         /\ \A i \in (n + 1)..Len(q) : q[i] \in Range(SubSeq(q, n + 1, Len(q)))
<1> DEFINE f == SubSeq(q, 1, n)
           g == SubSeq(q, n + 1, Len(q))
<1>1. Len(q) \in Nat
  OBVIOUS
<1>2. /\ f \in Seq(S) /\ Len(f) = n /\ DOMAIN f = 1..n
      /\ \A i \in 1..n : f[i] = q[i]
  BY PrefixElements, Zenon
<1>3. /\ g \in Seq(S) /\ Len(g) = Len(q) - n /\ DOMAIN g = 1..(Len(q) - n)
      /\ \A i \in 1..(Len(q) - n) : g[i] = q[n + i]
  BY RestElements, Zenon
<1> HIDE DEF f, g
<1>4. \A i \in 1..n : q[i] \in Range(f)
  BY <1>2, Zenon DEF Range
<1>5. ASSUME NEW i \in (n + 1)..Len(q)
      PROVE  q[i] \in Range(g)
  <2>1. i - n \in 1..(Len(q) - n) /\ n + (i - n) = i
    BY <1>1
  <2>2. g[i - n] = q[i]
    BY <1>3, <2>1
  <2> QED
    BY <1>3, <2>1, <2>2, Zenon DEF Range
<1> QED
  BY <1>2, <1>3, <1>4, <1>5, Zenon DEF f, g

\* The elements of two sequences put together.
LEMMA ConcatFacts ==
  ASSUME NEW S, NEW f \in Seq(S), NEW g \in Seq(S)
  PROVE  /\ f \o g \in Seq(S)
         /\ Len(f \o g) = Len(f) + Len(g)
         /\ \A j \in 1..(Len(f) + Len(g)) :
              (f \o g)[j] = IF j <= Len(f) THEN f[j] ELSE g[j - Len(f)]
         /\ Range(f) \subseteq Range(f \o g)
         /\ Range(g) \subseteq Range(f \o g)
<1>1. /\ f \o g \in Seq(S) /\ Len(f \o g) = Len(f) + Len(g)
      /\ DOMAIN (f \o g) = 1..(Len(f) + Len(g)) /\ Len(f) \in Nat /\ Len(g) \in Nat
  OBVIOUS
<1>2. \A j \in 1..(Len(f) + Len(g)) :
        (f \o g)[j] = IF j <= Len(f) THEN f[j] ELSE g[j - Len(f)]
  OBVIOUS
<1>3. \A j \in 1..Len(f) : f[j] \in Range(f \o g)
  <2>1. \A j \in 1..Len(f) : j \in 1..(Len(f) + Len(g)) /\ j <= Len(f)
    BY <1>1
  <2> QED
    BY <1>1, <1>2, <2>1 DEF Range
<1>4. ASSUME NEW j \in 1..Len(g)
      PROVE  g[j] \in Range(f \o g)
  <2>1. /\ Len(f) + j \in 1..(Len(f) + Len(g)) /\ ~(Len(f) + j <= Len(f))
        /\ Len(f) + j - Len(f) = j
    BY <1>1
  <2>2. (f \o g)[Len(f) + j] = g[j]
    BY <1>2, <2>1
  <2> QED
    BY <1>1, <2>1, <2>2 DEF Range
<1>5. DOMAIN f = 1..Len(f) /\ DOMAIN g = 1..Len(g)
  OBVIOUS
<1> QED
  BY <1>1, <1>2, <1>3, <1>4, <1>5 DEF Range

\* Taking one element out keeps all the others.
LEMMA RemoveFacts ==
  ASSUME NEW S, NEW q \in Seq(S), NEW i \in 1..Len(q)
  PROVE  LET rest == SubSeq(q, 1, i - 1) \o SubSeq(q, i + 1, Len(q))
         IN  /\ rest \in Seq(S)
             /\ Len(rest) = Len(q) - 1
             /\ \A x \in Range(q) : x # q[i] => x \in Range(rest)
<1> DEFINE f == SubSeq(q, 1, i - 1)
           g == SubSeq(q, i + 1, Len(q))
<1>1. Len(q) \in Nat /\ i \in Nat /\ i - 1 \in Nat /\ i <= Len(q)
  OBVIOUS
<1>2. /\ f \in Seq(S) /\ Len(f) = i - 1
      /\ \A j \in 1..(i - 1) : q[j] \in Range(f)
  BY <1>1, SplitFacts
<1>3. /\ g \in Seq(S) /\ Len(g) = Len(q) - i
      /\ \A j \in (i + 1)..Len(q) : q[j] \in Range(g)
  BY <1>1, SplitFacts
<1> HIDE DEF f, g
<1>4. f \o g \in Seq(S) /\ Len(f \o g) = Len(f) + Len(g)
  BY <1>2, <1>3, ConcatFacts, Zenon
<1>5. Range(f) \subseteq Range(f \o g) /\ Range(g) \subseteq Range(f \o g)
  BY <1>2, <1>3, ConcatFacts, Zenon
<1>6. \A x \in Range(q) : x # q[i] => x \in Range(f \o g)
  <2>1. ASSUME NEW j \in 1..Len(q), q[j] # q[i]
        PROVE  q[j] \in Range(f \o g)
    <3>1. j \in 1..(i - 1) \/ j \in (i + 1)..Len(q)
      BY <1>1, <2>1
    <3> QED
      BY <1>2, <1>3, <1>5, <3>1
  <2>2. DOMAIN q = 1..Len(q)
    OBVIOUS
  <2> QED
    BY <2>1, <2>2 DEF Range
<1>7. Len(f \o g) = Len(q) - 1
  BY <1>1, <1>2, <1>3, <1>4
<1> QED
  BY <1>4, <1>6, <1>7, Zenon DEF f, g

LEMMA RangeFacts ==
  ASSUME NEW S, NEW q \in Seq(S)
  PROVE  /\ Len(q) \in Nat
         /\ Range(q) \subseteq S
         /\ \A i \in 1..Len(q) : q[i] \in Range(q) /\ q[i] \in S
         /\ \A x \in Range(q) : \E i \in 1..Len(q) : q[i] = x
         /\ Len(q) = 0 => Range(q) = {}
<1>1. Len(q) \in Nat /\ DOMAIN q = 1..Len(q) /\ \A i \in 1..Len(q) : q[i] \in S
  OBVIOUS
<1> QED
  BY <1>1 DEF Range

\* The position of an element.
LEMMA PositionFacts ==
  ASSUME NEW S, NEW q \in Seq(S), NEW x \in Range(q)
  PROVE  (CHOOSE i \in 1..Len(q) : q[i] = x) \in Nat
<1>1. \E i \in 1..Len(q) : q[i] = x
  BY RangeFacts
<1>2. (CHOOSE i \in 1..Len(q) : q[i] = x) \in 1..Len(q)
  BY <1>1, Zenon
<1> QED
  BY <1>2, RangeFacts

\* Counting the members of a set of positions from the left numbers them from
\* one without a gap.
Ranked ==
  \A n \in Nat :
    /\ Cardinality(1..n) = n
    /\ \A T \in SUBSET (1..n) :
         /\ Cardinality(T) \in Nat
         /\ \A i \in T : Cardinality({j \in T : j <= i}) \in 1..Cardinality(T)
         /\ \A i, k \in T :
              Cardinality({j \in T : j <= i}) = Cardinality({j \in T : j <= k}) => i = k
         /\ \A m \in 1..Cardinality(T) :
              \E i \in T : Cardinality({j \in T : j <= i}) = m

LEMMA PositionsCounted ==
  ASSUME Ranked, NEW n \in Nat, NEW T \in SUBSET (1..n)
  PROVE  Cardinality(T) \in Nat
BY Zenon DEF Ranked

\* Appending an element that is not there keeps the elements distinct.
LEMMA AppendDistinct ==
  ASSUME NEW S, NEW q \in Seq(S), NEW x \in S, IsInjective(q), x \notin Range(q)
  PROVE  IsInjective(Append(q, x))
<1>1. /\ Append(q, x) \in Seq(S)
      /\ Len(Append(q, x)) = Len(q) + 1
      /\ \A i \in 1..Len(q) : Append(q, x)[i] = q[i]
      /\ Append(q, x)[Len(q) + 1] = x
  OBVIOUS
<1>2. /\ DOMAIN q = 1..Len(q)
      /\ DOMAIN Append(q, x) = 1..(Len(q) + 1)
      /\ Len(q) \in Nat
  BY <1>1
<1>3. \A i \in 1..Len(q) : q[i] # x
  BY <1>2 DEF Range
<1> QED
  BY <1>1, <1>2, <1>3 DEF IsInjective

\* A prefix of a sequence of distinct elements shares none with the rest.
LEMMA SplitDistinct ==
  ASSUME NEW S, NEW q \in Seq(S), NEW n \in Nat, n <= Len(q), IsInjective(q)
  PROVE  /\ IsInjective(SubSeq(q, 1, n))
         /\ IsInjective(SubSeq(q, n + 1, Len(q)))
         /\ Range(SubSeq(q, 1, n)) \subseteq Range(q)
         /\ Range(SubSeq(q, n + 1, Len(q))) \subseteq Range(q)
         /\ \A x \in Range(SubSeq(q, 1, n)) : \E i \in 1..n : q[i] = x
         /\ \A i \in 1..n : q[i] \notin Range(SubSeq(q, n + 1, Len(q)))
<1> DEFINE f == SubSeq(q, 1, n)
           g == SubSeq(q, n + 1, Len(q))
<1>1. Len(q) \in Nat /\ DOMAIN q = 1..Len(q)
  OBVIOUS
<1>2. DOMAIN f = 1..n /\ \A i \in 1..n : f[i] = q[i]
  BY PrefixElements, Zenon
<1>3. DOMAIN g = 1..(Len(q) - n) /\ \A i \in 1..(Len(q) - n) : g[i] = q[n + i]
  BY RestElements, Zenon
<1> HIDE DEF f, g
<1>5. IsInjective(f)
  BY <1>1, <1>2 DEF IsInjective
<1>6. IsInjective(g)
  <2> SUFFICES ASSUME NEW i \in 1..(Len(q) - n), NEW j \in 1..(Len(q) - n), g[i] = g[j]
               PROVE  i = j
    BY <1>3 DEF IsInjective
  <2>1. n + i \in 1..Len(q) /\ n + j \in 1..Len(q)
    BY <1>1
  <2>2. n + i = n + j
    BY <1>1, <1>3, <2>1, Zenon DEF IsInjective
  <2> QED
    BY <2>2
<1>7. /\ \A x \in Range(f) : \E i \in 1..n : q[i] = x
      /\ Range(f) \subseteq Range(q)
  BY <1>1, <1>2 DEF Range
<1>8. ASSUME NEW x \in Range(g)
      PROVE  \E i \in (n + 1)..Len(q) : q[i] = x
  <2>1. PICK j \in 1..(Len(q) - n) : g[j] = x
    BY <1>3 DEF Range
  <2>2. n + j \in (n + 1)..Len(q)
    BY <1>1
  <2> QED
    BY <1>3, <2>1, <2>2
<1>9. Range(g) \subseteq Range(q)
  <2>1. \A i \in (n + 1)..Len(q) : i \in 1..Len(q)
    BY <1>1
  <2> QED
    BY <1>1, <1>8, <2>1, Zenon DEF Range
<1>10. \A i \in 1..n : q[i] \notin Range(g)
  BY <1>1, <1>8 DEF IsInjective
<1> QED
  BY <1>5, <1>6, <1>7, <1>9, <1>10, Zenon DEF f, g

\* Taking one element out of a sequence of distinct elements removes it.
LEMMA RemoveDistinct ==
  ASSUME NEW S, NEW q \in Seq(S), NEW i \in 1..Len(q), IsInjective(q)
  PROVE  LET rest == SubSeq(q, 1, i - 1) \o SubSeq(q, i + 1, Len(q))
         IN  /\ IsInjective(rest)
             /\ Range(rest) \subseteq Range(q)
             /\ q[i] \notin Range(rest)
<1> DEFINE f == SubSeq(q, 1, i - 1)
           g == SubSeq(q, i + 1, Len(q))
           r == f \o g
<1>1. /\ Len(q) \in Nat /\ i \in Nat /\ i - 1 \in Nat /\ i <= Len(q)
      /\ DOMAIN q = 1..Len(q)
  OBVIOUS
<1>2. f \in Seq(S) /\ Len(f) = i - 1 /\ \A j \in 1..(i - 1) : f[j] = q[j]
  <2>1. i - 1 \in Nat /\ i - 1 <= Len(q)
    BY <1>1
  <2> QED
    BY <2>1, PrefixElements, Zenon
<1>3. /\ g \in Seq(S) /\ Len(g) = Len(q) - i
      /\ \A j \in 1..(Len(q) - i) : g[j] = q[i + j]
  BY <1>1, RestElements, Zenon
<1> HIDE DEF f, g
<1>4. /\ r \in Seq(S) /\ Len(r) = Len(q) - 1
      /\ \A j \in 1..(Len(q) - 1) :
           r[j] = IF j <= i - 1 THEN f[j] ELSE g[j - (i - 1)]
  <2>1. /\ r \in Seq(S) /\ Len(r) = Len(f) + Len(g)
        /\ \A j \in 1..(Len(f) + Len(g)) :
             r[j] = IF j <= Len(f) THEN f[j] ELSE g[j - Len(f)]
    BY <1>2, <1>3, ConcatFacts, Zenon
  <2> HIDE DEF r
  <2>2. Len(f) + Len(g) = Len(q) - 1
    BY <1>1, <1>2, <1>3
  <2> QED
    BY <1>2, <2>1, <2>2
<1> HIDE DEF r
<1>5. \A j \in 1..(Len(q) - 1) : r[j] = IF j < i THEN q[j] ELSE q[j + 1]
  <2> SUFFICES ASSUME NEW j \in 1..(Len(q) - 1)
               PROVE  r[j] = IF j < i THEN q[j] ELSE q[j + 1]
    OBVIOUS
  <2>1. CASE j < i
    <3>1. j \in 1..(i - 1) /\ j <= i - 1
      BY <1>1, <2>1
    <3>2. r[j] = f[j] /\ f[j] = q[j]
      BY <1>2, <1>4, <3>1, Zenon
    <3> QED
      BY <2>1, <3>2
  <2>2. CASE ~(j < i)
    <3>1. j - (i - 1) \in 1..(Len(q) - i) /\ i + (j - (i - 1)) = j + 1
      BY <1>1, <2>2
    <3>2. ~(j <= i - 1)
      BY <1>1, <2>2
    <3> QED
      BY <1>3, <1>4, <2>2, <3>1, <3>2
  <2> QED
    BY <2>1, <2>2
<1>6. DOMAIN r = 1..(Len(q) - 1)
  BY <1>4
<1>7. IsInjective(r)
  <2> SUFFICES ASSUME NEW j \in 1..(Len(q) - 1), NEW k \in 1..(Len(q) - 1), r[j] = r[k]
               PROVE  j = k
    BY <1>6, Zenon DEF IsInjective
  <2> DEFINE at(m) == IF m < i THEN m ELSE m + 1
  <2>1. \A m \in 1..(Len(q) - 1) : r[m] = q[at(m)] /\ at(m) \in 1..Len(q)
    BY <1>1, <1>5
  <2>2. at(j) = at(k)
    BY <1>1, <2>1, Zenon DEF IsInjective
  <2> QED
    BY <1>1, <2>2
<1>8. ASSUME NEW j \in 1..(Len(q) - 1)
      PROVE  r[j] \in Range(q) /\ r[j] # q[i]
  BY <1>1, <1>5 DEF IsInjective, Range
<1>9. Range(r) \subseteq Range(q) /\ q[i] \notin Range(r)
  BY <1>6, <1>8 DEF Range
<1> QED
  BY <1>7, <1>9, Zenon DEF f, g, r

-----------------------------------------------------------------------------
(* Types and counters *)

LEMMA TypeInit == Init => TypeOK /\ Counting
<1> SUFFICES ASSUME Init PROVE TypeOK /\ Counting
  BY Zenon
<1>1. <<>> \in Seq(Txn) /\ Len(<<>>) = 0 /\ MaxReserved \in Nat
  BY PipelineAssumption, EmptyFacts, Zenon
<1>2. EmptySlot \in Slot
  BY <1>1, Zenon DEF EmptySlot, Slot
<1>3. NoCapture \in [generation : Nat, base : Nat, count : Nat] /\ 0 \in Nat
  BY Zenon DEF NoCapture
<1>4. StoreTypeOK
  BY <1>3, Zenon DEF Init, StoreTypeOK
<1>5. HandleTypeOK
  BY Zenon DEF Init, HandleTypeOK, Phase, Result
<1>6. QueueTypeOK
  BY <1>1, Zenon DEF Init, QueueTypeOK
<1>7. EpochTypeOK
  BY <1>2, Zenon DEF Init, EpochTypeOK
<1>8. WorkerTypeOK
  BY <1>1, <1>3, Zenon DEF Init, WorkerTypeOK, WorkerPc
<1>9. PreflightTypeOK
  BY <1>1, <1>3, Zenon DEF Init, PreflightTypeOK
<1>10. Counting
  BY <1>1 DEF Init, Counting, InEpoch
<1> QED
  BY <1>4, <1>5, <1>6, <1>7, <1>8, <1>9, <1>10, Zenon DEF TypeOK

\* A withdrawn request leaves the others in the queue.
LEMMA WithoutFacts ==
  ASSUME NEW q \in Seq(Txn), NEW i \in 1..Len(q)
  PROVE  /\ Without(q, i) \in Seq(Txn)
         /\ Len(Without(q, i)) = Len(q) - 1
         /\ \A t \in Range(q) : t # q[i] => t \in Range(Without(q, i))
BY RemoveFacts, Zenon DEF Without

\* Selecting the first n requests of the queue moves them into the group.
LEMMA SelectFacts ==
  ASSUME QueueTypeOK, HandleTypeOK,
         NEW n \in Nat, n <= Len(append_commit_requests), Select(n)
  PROVE  /\ requests' \in Seq(Txn) /\ Len(requests') = n
         /\ append_commit_requests' \in Seq(Txn)
         /\ Len(append_commit_requests') = Len(append_commit_requests) - n
         /\ phase' \in [Txn -> Phase]
         /\ active_append_commit_requests' = active_append_commit_requests + n
         /\ \A i \in 1..n : append_commit_requests[i] \in Range(requests')
         /\ \A i \in (n + 1)..Len(append_commit_requests) :
              append_commit_requests[i] \in Range(append_commit_requests')
<1>1. append_commit_requests \in Seq(Txn)
  BY Zenon DEF QueueTypeOK
<1>2. phase' \in [Txn -> Phase]
  BY Zenon DEF HandleTypeOK, Select, Phase
<1>3. /\ requests' = SubSeq(append_commit_requests, 1, n)
      /\ append_commit_requests' =
           SubSeq(append_commit_requests, n + 1, Len(append_commit_requests))
      /\ active_append_commit_requests' = active_append_commit_requests + n
  BY Zenon DEF Select
<1>4. /\ requests' \in Seq(Txn) /\ Len(requests') = n
      /\ \A i \in 1..n : append_commit_requests[i] \in Range(requests')
  BY <1>1, <1>3, SplitFacts
<1>5. /\ append_commit_requests' \in Seq(Txn)
      /\ Len(append_commit_requests') = Len(append_commit_requests) - n
      /\ \A i \in (n + 1)..Len(append_commit_requests) :
           append_commit_requests[i] \in Range(append_commit_requests')
  BY <1>1, <1>3, SplitFacts
<1> QED
  BY <1>2, <1>3, <1>4, <1>5, Zenon

\* A part of the state that a step leaves alone keeps its type.
LEMMA Frame ==
  /\ StoreTypeOK /\ UNCHANGED storeVars => StoreTypeOK'
  /\ HandleTypeOK /\ UNCHANGED handleVars => HandleTypeOK'
  /\ QueueTypeOK /\ UNCHANGED queueVars => QueueTypeOK'
  /\ EpochTypeOK /\ UNCHANGED epochVars => EpochTypeOK'
  /\ WorkerTypeOK /\ UNCHANGED workerVars => WorkerTypeOK'
  /\ PreflightTypeOK /\ UNCHANGED preflightVars => PreflightTypeOK'
<1>1. StoreTypeOK /\ UNCHANGED storeVars => StoreTypeOK'
  BY Zenon DEF StoreTypeOK, storeVars
<1>2. HandleTypeOK /\ UNCHANGED handleVars => HandleTypeOK'
  BY Zenon DEF HandleTypeOK, handleVars
<1>3. QueueTypeOK /\ UNCHANGED queueVars => QueueTypeOK'
  BY Zenon DEF QueueTypeOK, queueVars
<1>4. EpochTypeOK /\ UNCHANGED epochVars => EpochTypeOK'
  BY Zenon DEF EpochTypeOK, epochVars
<1>5. WorkerTypeOK /\ UNCHANGED workerVars => WorkerTypeOK'
  BY Zenon DEF WorkerTypeOK, workerVars
<1>6. PreflightTypeOK /\ UNCHANGED preflightVars => PreflightTypeOK'
  BY Zenon DEF PreflightTypeOK, preflightVars
<1> QED
  BY <1>1, <1>2, <1>3, <1>4, <1>5, <1>6, Zenon

LEMMA TypeStep ==
  ASSUME Ranked
  PROVE  TypeOK /\ Counting /\ [Next]_vars => TypeOK' /\ Counting'
<1> SUFFICES ASSUME StoreTypeOK, HandleTypeOK, QueueTypeOK, EpochTypeOK,
                    WorkerTypeOK, PreflightTypeOK, Counting, [Next]_vars
             PROVE  TypeOK' /\ Counting'
  BY Zenon DEF TypeOK
<1>1. /\ Len(append_commit_requests) \in Nat
      /\ Len(requests) \in Nat
      /\ reserved_append_commit_bytes \in Nat
      /\ MaxReserved \in Nat
      /\ <<>> \in Seq(Txn) /\ Len(<<>>) = 0
      /\ EmptySlot \in Slot
  BY PipelineAssumption, EmptyFacts, LenFacts, Zenon
  DEF EmptySlot, Slot, QueueTypeOK, WorkerTypeOK
<1>2. ASSUME NEW t \in Txn, BeginTransaction(t)
      PROVE  TypeOK' /\ Counting'
  <2>1. StoreTypeOK'
    BY <1>2, Zenon
    DEF BeginTransaction, StoreTypeOK
  <2>2. HandleTypeOK'
    BY <1>2, Zenon
    DEF BeginTransaction, HandleTypeOK, Phase, Result
  <2>3. Counting'
    BY <1>1, <1>2, SMTT(30)
    DEF BeginTransaction, Counting, InEpoch, HasHandles, queueVars, epochVars,
         workerVars
  <2> QED
    BY <1>2, <2>1, <2>2, <2>3, Frame, Zenon DEF BeginTransaction, TypeOK
<1>3. ASSUME NEW t \in Txn, SubmitSyncCommit(t)
      PROVE  TypeOK' /\ Counting'
  <2>1. /\ append_commit_requests' \in Seq(Txn)
        /\ Len(append_commit_requests') = Len(append_commit_requests) + 1
    BY <1>3, AppendFacts, Zenon DEF SubmitSyncCommit, Enqueue, QueueTypeOK
  <2>2. HandleTypeOK'
    BY <1>3, Zenon
    DEF SubmitSyncCommit, Enqueue, HandleTypeOK, Phase, Result
  <2>3. QueueTypeOK'
    BY <1>3, <2>1
    DEF SubmitSyncCommit, Enqueue, QueueTypeOK
  <2>4. EpochTypeOK'
    BY <1>3, Zenon
    DEF SubmitSyncCommit, Enqueue, RequestPreflightIfActive, EpochTypeOK
  <2>5. Counting'
    BY <1>1, <1>3, <2>1, SMTT(30)
    DEF SubmitSyncCommit, Enqueue, HasCapacity, Counting, InEpoch, HasHandles,
         workerVars
  <2> QED
    BY <1>3, <2>2, <2>3, <2>4, <2>5, Frame, Zenon DEF SubmitSyncCommit, TypeOK
<1>4. ASSUME NEW t \in Txn, SubmitAsyncCommit(t)
      PROVE  TypeOK' /\ Counting'
  <2>1. HandleTypeOK'
    BY <1>4, Zenon
    DEF SubmitAsyncCommit, HandleTypeOK, Phase, Result
  <2>2. QueueTypeOK'
    BY <1>4, Zenon
    DEF SubmitAsyncCommit, QueueTypeOK
  <2>3. Counting'
    BY <1>1, <1>4, SMTT(30)
    DEF SubmitAsyncCommit, Counting, InEpoch, HasHandles, epochVars,
         workerVars
  <2> QED
    BY <1>4, <2>1, <2>2, <2>3, Frame, Zenon DEF SubmitAsyncCommit, TypeOK
<1>5. ASSUME NEW t \in Txn, Reject(t)
      PROVE  TypeOK' /\ Counting'
  <2>1. HandleTypeOK'
    BY <1>5, Zenon
    DEF Reject, HandleTypeOK, Phase, Result
  <2>2. Counting'
    BY <1>1, <1>5, SMTT(30)
    DEF Reject, Counting, InEpoch, HasHandles, queueVars, epochVars,
         workerVars
  <2> QED
    BY <1>5, <2>1, <2>2, Frame, Zenon DEF Reject, TypeOK
<1>6. ASSUME NEW t \in Txn, SubmitAsyncCommitToAppendPipeline(t)
      PROVE  TypeOK' /\ Counting'
  <2>1. /\ append_commit_requests' \in Seq(Txn)
        /\ Len(append_commit_requests') = Len(append_commit_requests) + 1
    BY <1>6, AppendFacts, Zenon DEF SubmitAsyncCommitToAppendPipeline, Enqueue, QueueTypeOK
  <2>2. HandleTypeOK'
    BY <1>6, Zenon
    DEF SubmitAsyncCommitToAppendPipeline, Enqueue, HandleTypeOK, Phase,
         Result
  <2>3. QueueTypeOK'
    <3>1. reserved_append_commit_bytes' \in Nat
      BY <1>6, SMTT(30) DEF SubmitAsyncCommitToAppendPipeline, Enqueue, QueueTypeOK
    <3>2. append_commit_pipelined_admission' \in BOOLEAN /\ tickets' \subseteq Txn
      BY <1>6, Zenon DEF SubmitAsyncCommitToAppendPipeline, QueueTypeOK
    <3> QED
      BY <2>1, <3>1, <3>2, Zenon DEF QueueTypeOK
  <2>4. EpochTypeOK'
    BY <1>6, Zenon
    DEF SubmitAsyncCommitToAppendPipeline, Enqueue, RequestPreflightIfActive,
         EpochTypeOK
  <2>5. Counting'
    BY <1>1, <1>6, <2>1, SMTT(30)
    DEF SubmitAsyncCommitToAppendPipeline, Enqueue, HasCapacity, Counting,
         InEpoch, HasHandles, workerVars
  <2> QED
    BY <1>6, <2>2, <2>3, <2>4, <2>5, Frame, Zenon DEF SubmitAsyncCommitToAppendPipeline, TypeOK
<1>7. ASSUME NEW t \in Txn, HandoffFails(t)
      PROVE  TypeOK' /\ Counting'
  <2>1. HandleTypeOK'
    BY <1>7, Zenon
    DEF HandoffFails, HandleTypeOK, Phase, Result
  <2>2. QueueTypeOK'
    BY <1>7, Zenon
    DEF HandoffFails, QueueTypeOK
  <2>3. Counting'
    BY <1>1, <1>7, SMTT(30)
    DEF HandoffFails, Counting, InEpoch, HasHandles, epochVars, workerVars
  <2> QED
    BY <1>7, <2>1, <2>2, <2>3, Frame, Zenon DEF HandoffFails, TypeOK
<1>8. ASSUME NEW t \in Txn, CancelQueuedAsyncCommit(t)
      PROVE  TypeOK' /\ Counting'
  <2>1. HandleTypeOK'
    BY <1>8, Zenon
    DEF CancelQueuedAsyncCommit, HandleTypeOK, Phase, Result
  <2>2. Counting'
    <3>1. UNCHANGED <<append_commit_requests, reserved_append_commit_bytes, requests, pc,
                      active_append_commit_requests, active_append_publications,
                      predecided_epoch>>
      BY <1>8, Zenon DEF CancelQueuedAsyncCommit, queueVars, epochVars, workerVars
    <3>2. HasHandles' <=> HasHandles
      BY <3>1, Zenon DEF HasHandles
    <3> QED
      BY <3>1, <3>2, Zenon DEF Counting
  <2> QED
    BY <1>8, <2>1, <2>2, Frame, Zenon DEF CancelQueuedAsyncCommit, TypeOK
<1>9. ASSUME NEW t \in Txn, RemoveCancelledRequest(t)
      PROVE  TypeOK' /\ Counting'
  <2>1. \/ UNCHANGED <<append_commit_requests, reserved_append_commit_bytes>>
        \/ /\ append_commit_requests' \in Seq(Txn)
           /\ Len(append_commit_requests') = Len(append_commit_requests) - 1
           /\ reserved_append_commit_bytes' = reserved_append_commit_bytes - 1
           /\ Len(append_commit_requests) > 0
    <3>1. append_commit_requests \in Seq(Txn)
      BY Zenon DEF QueueTypeOK
    <3>2. ASSUME NEW i \in 1..Len(append_commit_requests),
                 append_commit_requests' = Without(append_commit_requests, i)
          PROVE  /\ append_commit_requests' \in Seq(Txn)
                 /\ Len(append_commit_requests') = Len(append_commit_requests) - 1
                 /\ Len(append_commit_requests) > 0
      <4>1. Len(append_commit_requests) > 0
        BY <1>1, <3>2
      <4> QED
        BY <3>1, <3>2, <4>1, WithoutFacts, Zenon
    <3> QED
      BY <1>9, <3>2, Zenon DEF RemoveCancelledRequest
  <2>2. HandleTypeOK'
    BY <1>9, Zenon
    DEF RemoveCancelledRequest, HandleTypeOK, Phase, Result
  <2>3. QueueTypeOK'
    BY <1>1, <1>9, <2>1, SMTT(30)
    DEF RemoveCancelledRequest, Counting, QueueTypeOK
  <2>4. EpochTypeOK'
    BY <1>1, <1>9, Zenon
    DEF RemoveCancelledRequest, RequestPreflight, EpochTypeOK
  <2>5. /\ UNCHANGED <<pc, requests, predecided_epoch>>
        /\ UNCHANGED <<active_append_commit_requests, active_append_publications>>
    BY <1>9, Zenon DEF RemoveCancelledRequest, workerVars
  <2>6. Counting'
    BY <1>1, <2>1, <2>5
    DEF Counting, InEpoch, HasHandles
  <2> QED
    BY <1>9, <2>2, <2>3, <2>4, <2>6, Frame, Zenon DEF RemoveCancelledRequest, TypeOK
<1>10. ASSUME NEW t \in Txn, ReturnAsyncCommit(t)
      PROVE  TypeOK' /\ Counting'
  <2>1. HandleTypeOK'
    BY <1>10, Zenon
    DEF ReturnAsyncCommit, HandleTypeOK, Phase, Result
  <2>2. Counting'
    BY <1>1, <1>10, SMTT(30)
    DEF ReturnAsyncCommit, Counting, InEpoch, HasHandles, queueVars,
         epochVars, workerVars
  <2> QED
    BY <1>10, <2>1, <2>2, Frame, Zenon DEF ReturnAsyncCommit, TypeOK
<1>11. CASE PromoteSlot
  <2> DEFINE k == Len(next_epoch_slot.requests)
  <2>1. /\ k \in Nat /\ k <= Len(append_commit_requests)
        /\ next_epoch_slot.successor \in Nat
        /\ next_epoch_slot.requires_validation \in BOOLEAN
    BY <1>11, LenFacts, Zenon DEF PromoteSlot, SlotIsQueued, IsQueuePrefix, Slot, EpochTypeOK
  <2>2. Select(k)
    BY <1>11, Zenon DEF PromoteSlot
  <2> HIDE DEF k
  <2>3. /\ requests' \in Seq(Txn) /\ Len(requests') = k
        /\ append_commit_requests' \in Seq(Txn)
        /\ Len(append_commit_requests') = Len(append_commit_requests) - k
        /\ phase' \in [Txn -> Phase]
        /\ active_append_commit_requests' = active_append_commit_requests + k
    BY <2>1, <2>2, SelectFacts, Zenon
  <2>4. HandleTypeOK'
    BY <1>11, <2>3, Zenon
    DEF PromoteSlot, HandleTypeOK, Phase, Result
  <2>5. QueueTypeOK'
    BY <1>11, <2>3, Zenon
    DEF PromoteSlot, QueueTypeOK
  <2>6. EpochTypeOK'
    BY <1>1, <1>11, <2>1, <2>2, <2>3
    DEF PromoteSlot, EpochTypeOK
  <2>7. WorkerTypeOK'
    BY <1>11, <2>1, <2>3, Zenon
    DEF PromoteSlot, WorkerTypeOK, WorkerPc
  <2>8. /\ pc = "wait" /\ pc' = "open"
        /\ UNCHANGED <<reserved_append_commit_bytes, active_append_publications>>
    BY <1>11, Zenon DEF PromoteSlot
  <2>9. Counting'
    BY <1>1, <2>1, <2>3, <2>8
    DEF Counting, InEpoch
  <2> QED
    BY <1>11, <2>4, <2>5, <2>6, <2>7, <2>9, Frame, Zenon DEF PromoteSlot, TypeOK
<1>12. CASE StartCollection
  <2>1. EpochTypeOK'
    BY <1>1, <1>12, Zenon
    DEF StartCollection, EpochTypeOK
  <2>2. WorkerTypeOK'
    BY <1>12, Zenon
    DEF StartCollection, WorkerTypeOK, WorkerPc
  <2>3. Counting'
    BY <1>1, <1>12, SMTT(30)
    DEF StartCollection, Counting, InEpoch, HasHandles, queueVars
  <2> QED
    BY <1>12, <2>1, <2>2, <2>3, Frame, Zenon DEF StartCollection, TypeOK
<1>13. CASE CollectGroup
  <2>1. PICK k \in 0..MaxBatch : k <= Len(append_commit_requests) /\ Select(k)
    BY <1>13, Zenon DEF CollectGroup
  <2>2. k \in Nat
    BY PipelineAssumption
  <2>3. /\ requests' \in Seq(Txn) /\ Len(requests') = k
        /\ append_commit_requests' \in Seq(Txn)
        /\ Len(append_commit_requests') = Len(append_commit_requests) - k
        /\ phase' \in [Txn -> Phase]
        /\ active_append_commit_requests' = active_append_commit_requests + k
    BY <2>1, <2>2, SelectFacts, Zenon
  <2>4. HandleTypeOK'
    BY <1>13, <2>3, Zenon
    DEF CollectGroup, HandleTypeOK, Phase, Result
  <2>5. QueueTypeOK'
    BY <1>13, <2>3, Zenon
    DEF CollectGroup, QueueTypeOK
  <2>6. EpochTypeOK'
    BY <1>1, <1>13, <2>1, <2>2, <2>3
    DEF CollectGroup, EpochTypeOK
  <2>7. WorkerTypeOK'
    BY <1>13, <2>1, <2>3, Zenon
    DEF CollectGroup, WorkerTypeOK, WorkerPc
  <2>8. Counting'
    BY <1>1, <1>13, <2>1, <2>2, <2>3, SMTT(30)
    DEF CollectGroup, Counting, InEpoch, HasHandles
  <2> QED
    BY <1>13, <2>4, <2>5, <2>6, <2>7, <2>8, Frame, Zenon DEF CollectGroup, TypeOK
<1>14. CASE OpenEpoch
  <2>1. EpochTypeOK'
    BY <1>1, <1>14
    DEF OpenEpoch, RequestPreflight, StoreTypeOK, EpochTypeOK
  <2>2. WorkerTypeOK'
    BY <1>14, Zenon
    DEF OpenEpoch, WorkerTypeOK, WorkerPc
  <2>3. Counting'
    BY <1>1, <1>14, SMTT(30)
    DEF OpenEpoch, Counting, InEpoch, HasHandles, queueVars
  <2> QED
    BY <1>14, <2>1, <2>2, <2>3, Frame, Zenon DEF OpenEpoch, TypeOK
<1>15. CASE BindEpoch
  <2>1. HandleTypeOK'
    BY <1>15, Zenon
    DEF BindEpoch, HandleTypeOK, Phase, Result
  <2>2. WorkerTypeOK'
    BY <1>15, Zenon
    DEF BindEpoch, WorkerTypeOK, WorkerPc
  <2>3. Counting'
    BY <1>1, <1>15, SMTT(30)
    DEF BindEpoch, Counting, InEpoch, HasHandles, queueVars, epochVars
  <2> QED
    BY <1>15, <2>1, <2>2, <2>3, Frame, Zenon DEF BindEpoch, TypeOK
<1>16. CASE ValidatePredictedGroup
  <2>1. WorkerTypeOK'
    BY <1>16, Zenon
    DEF ValidatePredictedGroup, WorkerTypeOK, WorkerPc
  <2>2. Counting'
    BY <1>1, <1>16, SMTT(30)
    DEF ValidatePredictedGroup, Counting, InEpoch, HasHandles, queueVars,
         epochVars
  <2> QED
    BY <1>16, <2>1, <2>2, Frame, Zenon DEF ValidatePredictedGroup, TypeOK
<1>17. CASE WriteDecidedGroup
  <2>1. decision' \in [Txn -> Nat]
    <3> DEFINE pos(t) == CHOOSE i \in 1..Len(requests) : requests[i] = t
    <3>1. predecided_epoch \in Nat
      BY <1>17, Zenon DEF WriteDecidedGroup, Counting, WorkerTypeOK
    <3>2. ASSUME NEW t \in Range(requests)
          PROVE  pos(t) \in Nat
      <4>1. requests \in Seq(Txn)
        BY Zenon DEF WorkerTypeOK
      <4> QED
        BY <4>1, PositionFacts, Zenon
    <3>3. \/ decision' = decision
          \/ decision' = [t \in Txn |->
               IF t \in Range(requests) THEN predecided_epoch + pos(t) ELSE 0]
      BY <1>17, Zenon DEF WriteDecidedGroup
    <3> HIDE DEF pos
    <3>4. ASSUME NEW t \in Range(requests)
          PROVE  predecided_epoch + pos(t) \in Nat
      BY <3>1, <3>2
    <3>5. decision \in [Txn -> Nat]
      BY Zenon DEF WorkerTypeOK
    <3> QED
      BY <3>3, <3>4, <3>5
  <2>2. WorkerTypeOK'
    BY <1>17, <2>1, Zenon
    DEF WriteDecidedGroup, WorkerTypeOK, WorkerPc
  <2>3. Counting'
    BY <1>1, <1>17, SMTT(30)
    DEF WriteDecidedGroup, Counting, InEpoch, HasHandles, queueVars, epochVars
  <2> QED
    BY <1>17, <2>2, <2>3, Frame, Zenon DEF WriteDecidedGroup, TypeOK
<1>18. CASE CommitGroup
  <2>1. decision' \in [Txn -> Nat]
    <3> DEFINE Count(i) == Cardinality({j \in Accepted : j <= i})
    <3>1. ASSUME NEW i
          PROVE  Count(i) \in Nat
      BY <1>1, PositionsCounted, Zenon DEF Accepted
    <3>2. DecideGroup = [t \in Txn |->
            IF \E i \in Accepted : requests[i] = t
            THEN visible_seq + Count(CHOOSE k \in Accepted : requests[k] = t)
            ELSE 0]
      BY Zenon DEF DecideGroup
    <3> HIDE DEF Count
    <3>3. ASSUME NEW i
          PROVE  visible_seq + Count(i) \in Nat
      BY <3>1 DEF StoreTypeOK
    <3>4. DecideGroup \in [Txn -> Nat]
      BY <3>2, <3>3, Zenon
    <3> QED
      BY <1>18, <3>4, Zenon DEF CommitGroup, WorkerTypeOK
  <2>2. WorkerTypeOK'
    BY <1>18, <2>1, Zenon
    DEF CommitGroup, WorkerTypeOK, WorkerPc
  <2>3. Counting'
    BY <1>1, <1>18, SMTT(30)
    DEF CommitGroup, Counting, InEpoch, HasHandles, queueVars, epochVars
  <2> QED
    BY <1>18, <2>2, <2>3, Frame, Zenon DEF CommitGroup, TypeOK
<1>19. CASE WalDurable
  <2>1. Range(requests) \subseteq Txn
    BY RangeFacts, Zenon DEF WorkerTypeOK
  <2>2. StoreTypeOK'
    BY <1>19, <2>1, Zenon
    DEF WalDurable, WorkerTypeOK, StoreTypeOK
  <2>3. HandleTypeOK'
    BY <1>19, <2>1, Zenon
    DEF WalDurable, NotifyWalDurable, HandleTypeOK, Phase, Result
  <2>4. QueueTypeOK'
    BY <1>19, <2>1, Zenon
    DEF WalDurable, NotifyWalDurable, QueueTypeOK
  <2>5. WorkerTypeOK'
    BY <1>19, Zenon
    DEF WalDurable, WorkerTypeOK, WorkerPc
  <2>6. Counting'
    BY <1>1, <1>19, SMTT(30)
    DEF WalDurable, NotifyWalDurable, Counting, InEpoch, HasHandles, epochVars
  <2> QED
    BY <1>19, <2>2, <2>3, <2>4, <2>5, <2>6, Frame, Zenon DEF WalDurable, TypeOK
<1>20. CASE WriteFails
  <2>1. StoreTypeOK'
    BY <1>20, Zenon
    DEF WriteFails, StoreTypeOK
  <2>2. WorkerTypeOK'
    BY <1>20, Zenon
    DEF WriteFails, WorkerTypeOK, WorkerPc
  <2>3. Counting'
    BY <1>1, <1>20, SMTT(30)
    DEF WriteFails, Counting, InEpoch, HasHandles, queueVars, epochVars
  <2> QED
    BY <1>20, <2>1, <2>2, <2>3, Frame, Zenon DEF WriteFails, TypeOK
<1>21. CASE PublishVisible
  <2>1. Cardinality({i \in 1..Len(requests) : decision[requests[i]] # 0}) \in Nat
    BY <1>1, PositionsCounted, Zenon
  <2>2. StoreTypeOK'
    BY <1>21, <2>1
    DEF PublishVisible, StoreTypeOK
  <2>3. WorkerTypeOK'
    BY <1>21, Zenon
    DEF PublishVisible, WorkerTypeOK, WorkerPc
  <2>4. Counting'
    BY <1>1, <1>21, SMTT(30)
    DEF PublishVisible, Counting, InEpoch, HasHandles, queueVars, epochVars
  <2> QED
    BY <1>21, <2>2, <2>3, <2>4, Frame, Zenon DEF PublishVisible, TypeOK
<1>22. CASE AccountEpoch
  <2>1. /\ pc = "account"
        /\ active_append_commit_requests' =
             active_append_commit_requests - Len(requests)
        /\ active_append_publications' =
             active_append_publications + (IF HasHandles THEN 1 ELSE 0)
    BY <1>22, Zenon DEF AccountEpoch
  <2>2. active_append_commit_requests' \in Nat /\ active_append_publications' \in Nat
    BY <1>1, <2>1 DEF Counting, InEpoch
  <2>3. HandleTypeOK'
    BY <1>22, Zenon
    DEF AccountEpoch, Deliver, Outcome, HandleTypeOK, Phase, Result
  <2>4. EpochTypeOK'
    BY <1>1, <1>22, <2>2, Zenon
    DEF AccountEpoch, RequestPreflight, EpochTypeOK
  <2>5. WorkerTypeOK'
    BY <1>22, Zenon
    DEF AccountEpoch, WorkerTypeOK, WorkerPc
  <2>6. Counting'
    BY <1>1, <1>22, SMTT(30)
    DEF AccountEpoch, Counting, InEpoch, HasHandles, queueVars
  <2> QED
    BY <1>22, <2>3, <2>4, <2>5, <2>6, Frame, Zenon DEF AccountEpoch, TypeOK
<1>23. CASE CompleteEpoch
  <2>1. HandleTypeOK'
    BY <1>23, Zenon
    DEF CompleteEpoch, Deliver, Outcome, HandleTypeOK, Phase, Result
  <2>2. WorkerTypeOK'
    BY <1>23, Zenon
    DEF CompleteEpoch, WorkerTypeOK, WorkerPc
  <2>3. Counting'
    BY <1>1, <1>23, SMTT(30)
    DEF CompleteEpoch, Counting, InEpoch, HasHandles, queueVars, epochVars
  <2> QED
    BY <1>23, <2>1, <2>2, <2>3, Frame, Zenon DEF CompleteEpoch, TypeOK
<1>24. CASE ReleaseEpoch
  <2>1. QueueTypeOK'
    BY <1>1, <1>24, SMTT(30)
    DEF ReleaseEpoch, Counting, QueueTypeOK
  <2>2. EpochTypeOK'
    BY <1>1, <1>24
    DEF ReleaseEpoch, Counting, EpochTypeOK
  <2>3. WorkerTypeOK'
    BY <1>1, <1>24, Zenon
    DEF ReleaseEpoch, WorkerTypeOK, WorkerPc
  <2>4. Counting'
    BY <1>1, <1>24, SMTT(30)
    DEF ReleaseEpoch, Counting, InEpoch, HasHandles
  <2> QED
    BY <1>24, <2>1, <2>2, <2>3, <2>4, Frame, Zenon DEF ReleaseEpoch, TypeOK
<1>25. ASSUME NEW p \in Prepared, FinalizePreparedCommit(p)
      PROVE  TypeOK' /\ Counting'
  <2>1. visible_seq + 1 \in Nat
    BY DEF StoreTypeOK
  <2>2. StoreTypeOK'
    BY <1>25, <2>1, Zenon
    DEF FinalizePreparedCommit, StoreTypeOK
  <2>3. Counting'
    BY <1>1, <1>25, Zenon
    DEF FinalizePreparedCommit, Counting, InEpoch, HasHandles, queueVars,
         epochVars, workerVars
  <2> QED
    BY <1>25, <2>2, <2>3, Frame, Zenon DEF FinalizePreparedCommit, TypeOK
<1>26. CASE PreflightCapture
  <2>1. EpochTypeOK'
    BY <1>26, Zenon
    DEF PreflightCapture, EpochTypeOK
  <2>2. PreflightTypeOK'
    BY <1>26, Zenon
    DEF PreflightCapture, QueueTypeOK, EpochTypeOK, PreflightTypeOK
  <2>3. Counting'
    BY <1>1, <1>26, SMTT(30)
    DEF PreflightCapture, Counting, InEpoch, HasHandles, queueVars, workerVars
  <2> QED
    BY <1>26, <2>1, <2>2, <2>3, Frame, Zenon DEF PreflightCapture, TypeOK
<1>27. CASE PreflightFinish
  <2>1. next_epoch_slot' \in Slot
    <3>1. ASSUME NEW n \in 0..MaxBatch, n <= Len(candidates)
          PROVE  SubSeq(candidates, 1, n) \in Seq(Txn)
      <4>1. candidates \in Seq(Txn) /\ n \in Nat
        BY PipelineAssumption DEF PreflightTypeOK
      <4> QED
        BY <3>1, <4>1, SplitFacts, Zenon
    <3>2. ASSUME NEW plan \in Seq(Txn)
          PROVE  DecidedSlot(plan) \in Slot
      <4>1. /\ captured.generation \in Nat
            /\ captured.base \in Nat
            /\ captured.base + captured.count \in Nat
        BY DEF PreflightTypeOK
      <4> QED
        BY <4>1, Zenon DEF DecidedSlot, Slot
    <3>3. PICK n \in 0..MaxBatch :
            /\ n <= Len(candidates)
            /\ \/ next_epoch_slot' = next_epoch_slot
               \/ next_epoch_slot' = DecidedSlot(SubSeq(candidates, 1, n))
      BY <1>27, Zenon DEF PreflightFinish
    <3>4. DecidedSlot(SubSeq(candidates, 1, n)) \in Slot
      BY <3>1, <3>2, <3>3, Zenon
    <3> QED
      BY <3>3, <3>4, Zenon DEF EpochTypeOK
  <2>2. EpochTypeOK'
    BY <1>27, <2>1, Zenon
    DEF PreflightFinish, EpochTypeOK
  <2>3. PreflightTypeOK'
    BY <1>1, <1>27, Zenon
    DEF PreflightFinish, NoCapture, PreflightTypeOK
  <2>4. Counting'
    BY <1>1, <1>27, SMTT(30)
    DEF PreflightFinish, Counting, InEpoch, HasHandles, queueVars, workerVars
  <2> QED
    BY <1>27, <2>2, <2>3, <2>4, Frame, Zenon DEF PreflightFinish, TypeOK
<1>28. CASE UNCHANGED vars
  <2>1. Counting'
    BY <1>28, Zenon DEF vars, queueVars, epochVars, workerVars, Counting, HasHandles
  <2> QED
    BY <1>28, <2>1, Frame, Zenon DEF vars, TypeOK
<1> QED
  BY <1>2, <1>3, <1>4, <1>5, <1>6, <1>7, <1>8, <1>9, <1>10, <1>11, <1>12,
       <1>13, <1>14, <1>15, <1>16, <1>17, <1>18, <1>19, <1>20, <1>21, <1>22,
       <1>23, <1>24, <1>25, <1>26, <1>27, <1>28, SMTT(30)
  DEF Next, AppendWorker, Executor, Idle

-----------------------------------------------------------------------------
(* Where requests are, and what is durable *)

\* Selection takes the queued requests it moves along.
LEMMA SelectPlacement ==
  ASSUME QueueTypeOK, HandleTypeOK, Placement, pc \in {"wait", "collect"}, pc' = "open",
         NEW k \in Nat, k <= Len(append_commit_requests), Select(k)
  PROVE  Placement'
<1>1. /\ \A i \in 1..k : append_commit_requests[i] \in Range(requests')
      /\ \A i \in (k + 1)..Len(append_commit_requests) :
           append_commit_requests[i] \in Range(append_commit_requests')
  BY SelectFacts, Zenon
<1>2. phase \in [Txn -> Phase] /\ append_commit_requests \in Seq(Txn)
  BY Zenon DEF HandleTypeOK, QueueTypeOK
<1>3. /\ \A u \in Txn : \/ /\ \E i \in 1..k : append_commit_requests[i] = u
                          /\ phase'[u] = "selected"
                       \/ phase'[u] = phase[u]
      /\ \A i \in 1..k : append_commit_requests[i] \in Txn =>
           phase'[append_commit_requests[i]] = "selected"
  BY <1>2, Zenon DEF Select
<1>4. Len(append_commit_requests) \in Nat
  BY <1>2, LenFacts, Zenon
<1>5. ASSUME NEW u \in Txn
      PROVE  /\ phase'[u] = "queued" => u \in Range(append_commit_requests')
             /\ phase'[u] \in {"selected", "bound"} => u \in Range(requests')
  <2>1. CASE \E i \in 1..k : append_commit_requests[i] = u
    BY <1>1, <1>3, <2>1, Zenon
  <2>2. CASE ~\E i \in 1..k : append_commit_requests[i] = u
    <3>1. phase'[u] = phase[u]
      BY <1>3, <2>2, Zenon
    <3>2. phase[u] \notin {"selected", "bound"}
      BY Zenon DEF Placement, InEpoch
    <3>3. phase[u] = "queued" => u \in Range(append_commit_requests')
      <4> SUFFICES ASSUME phase[u] = "queued"
                   PROVE  u \in Range(append_commit_requests')
        BY Zenon
      <4>1. u \in Range(append_commit_requests)
        BY Zenon DEF Placement
      <4>2. PICK i \in 1..Len(append_commit_requests) : append_commit_requests[i] = u
        BY <1>2, <4>1, RangeFacts, Zenon
      <4>3. i \notin 1..k
        BY <2>2, <4>2, Zenon
      <4>4. i \in (k + 1)..Len(append_commit_requests)
        BY <1>4, <4>3
      <4> QED
        BY <1>1, <4>2, <4>4, Zenon
    <3> QED
      BY <3>1, <3>2, <3>3, Zenon
  <2> QED
    BY <2>1, <2>2, Zenon
<1> QED
  BY <1>5, Zenon DEF Placement, InEpoch

\* An admitted request stays where the pipeline will find it.
LEMMA PlacementStep ==
  TypeOK /\ Counting /\ Placement /\ [Next]_vars => Placement'
<1> SUFFICES ASSUME TypeOK, Counting, Placement, [Next]_vars
             PROVE  Placement'
  BY Zenon
<1>0. /\ phase \in [Txn -> Phase]
      /\ append_commit_requests \in Seq(Txn) /\ requests \in Seq(Txn)
  BY Zenon DEF TypeOK, HandleTypeOK, QueueTypeOK, WorkerTypeOK
<1> USE DEF Placement, InEpoch, storeVars, handleVars, queueVars,
            epochVars, workerVars, preflightVars
<1>1. ASSUME NEW t \in Txn, BeginTransaction(t)
      PROVE  Placement'
  BY <1>0, <1>1, Zenon DEF BeginTransaction
<1>2. ASSUME NEW t \in Txn, SubmitSyncCommit(t)
      PROVE  Placement'
  <2>0. append_commit_requests' = Append(append_commit_requests, t)
    BY <1>2, Zenon DEF SubmitSyncCommit, Enqueue
  <2>1. Range(append_commit_requests') = Range(append_commit_requests) \cup {t}
    BY <1>0, <2>0, AppendFacts
  <2> QED
    BY <1>0, <1>2, <2>1, Zenon DEF SubmitSyncCommit, Enqueue
<1>3. ASSUME NEW t \in Txn, SubmitAsyncCommit(t)
      PROVE  Placement'
  BY <1>0, <1>3, Zenon DEF SubmitAsyncCommit
<1>4. ASSUME NEW t \in Txn, Reject(t)
      PROVE  Placement'
  BY <1>0, <1>4, Zenon DEF Reject
<1>5. ASSUME NEW t \in Txn, SubmitAsyncCommitToAppendPipeline(t)
      PROVE  Placement'
  <2>0. append_commit_requests' = Append(append_commit_requests, t)
    BY <1>5, Zenon DEF SubmitAsyncCommitToAppendPipeline, Enqueue
  <2>1. Range(append_commit_requests') = Range(append_commit_requests) \cup {t}
    BY <1>0, <2>0, AppendFacts
  <2> QED
    BY <1>0, <1>5, <2>1, Zenon DEF SubmitAsyncCommitToAppendPipeline, Enqueue
<1>6. ASSUME NEW t \in Txn, HandoffFails(t)
      PROVE  Placement'
  BY <1>0, <1>6, Zenon DEF HandoffFails
<1>7. ASSUME NEW t \in Txn, CancelQueuedAsyncCommit(t)
      PROVE  Placement'
  BY <1>0, <1>7, Zenon DEF CancelQueuedAsyncCommit
<1>8. ASSUME NEW t \in Txn, RemoveCancelledRequest(t)
      PROVE  Placement'
  <2>1. CASE UNCHANGED <<append_commit_requests, phase>>
    BY <1>8, <2>1, Zenon DEF RemoveCancelledRequest
  <2>2. CASE ~UNCHANGED <<append_commit_requests, phase>>
    <3>1. PICK i \in 1..Len(append_commit_requests) :
            /\ append_commit_requests[i] = t
            /\ append_commit_requests' = Without(append_commit_requests, i)
            /\ phase' = [phase EXCEPT ![t] = "done"]
      BY <1>8, <2>2, Zenon DEF RemoveCancelledRequest
    <3>2. \A x \in Range(append_commit_requests) :
            x # t => x \in Range(append_commit_requests')
      BY <1>0, <3>1, WithoutFacts, Zenon
    <3> QED
      BY <1>0, <1>8, <3>1, <3>2, Zenon DEF RemoveCancelledRequest
  <2> QED
    BY <2>1, <2>2, Zenon
<1>9. ASSUME NEW t \in Txn, ReturnAsyncCommit(t)
      PROVE  Placement'
  BY <1>0, <1>9, Zenon DEF ReturnAsyncCommit
<1>10. CASE PromoteSlot
  <2> DEFINE k == Len(next_epoch_slot.requests)
  <2>1. pc = "wait" /\ pc' = "open" /\ Select(k)
    BY <1>10, Zenon DEF PromoteSlot
  <2>2. k \in Nat /\ k <= Len(append_commit_requests)
    BY <1>10, LenFacts, Zenon
    DEF PromoteSlot, SlotIsQueued, IsQueuePrefix, Slot, TypeOK, EpochTypeOK
  <2> HIDE DEF k
  <2> QED
    BY <2>1, <2>2, SelectPlacement, Zenon DEF TypeOK
<1>11. CASE StartCollection
  BY <1>0, <1>11, Zenon DEF StartCollection
<1>12. CASE CollectGroup
  <2>1. pc = "collect" /\ pc' = "open"
    BY <1>12, Zenon DEF CollectGroup
  <2>2. PICK k \in 0..MaxBatch : k <= Len(append_commit_requests) /\ Select(k)
    BY <1>12, Zenon DEF CollectGroup
  <2>3. k \in Nat
    BY PipelineAssumption
  <2> QED
    BY <2>1, <2>2, <2>3, SelectPlacement, Zenon DEF TypeOK
<1>13. CASE OpenEpoch
  BY <1>0, <1>13, Zenon DEF OpenEpoch
<1>14. CASE BindEpoch
  BY <1>0, <1>14, Zenon DEF BindEpoch
<1>15. CASE ValidatePredictedGroup
  BY <1>0, <1>15, Zenon DEF ValidatePredictedGroup
<1>16. CASE WriteDecidedGroup
  BY <1>0, <1>16, Zenon DEF WriteDecidedGroup
<1>17. CASE CommitGroup
  BY <1>0, <1>17, Zenon DEF CommitGroup
<1>18. CASE WalDurable
  BY <1>0, <1>18, Zenon DEF WalDurable
<1>19. CASE WriteFails
  BY <1>0, <1>19, Zenon DEF WriteFails
<1>20. CASE PublishVisible
  BY <1>0, <1>20, Zenon DEF PublishVisible
<1>21. CASE AccountEpoch
  BY <1>0, <1>21, Zenon DEF AccountEpoch, Deliver
<1>22. CASE CompleteEpoch
  BY <1>0, <1>22, Zenon DEF CompleteEpoch, Deliver
<1>23. CASE ReleaseEpoch
  BY <1>0, <1>23, Zenon DEF ReleaseEpoch
<1>24. ASSUME NEW p \in Prepared, FinalizePreparedCommit(p)
      PROVE  Placement'
  BY <1>0, <1>24, Zenon DEF FinalizePreparedCommit
<1>25. CASE PreflightCapture
  BY <1>0, <1>25, Zenon DEF PreflightCapture
<1>26. CASE PreflightFinish
  BY <1>0, <1>26, Zenon DEF PreflightFinish
<1>27. CASE UNCHANGED vars
  BY <1>0, <1>27, Zenon DEF vars
<1> QED
  BY <1>1, <1>2, <1>3, <1>4, <1>5, <1>6, <1>7, <1>8, <1>9, <1>10, <1>11,
       <1>12, <1>13, <1>14, <1>15, <1>16, <1>17, <1>18, <1>19, <1>20, <1>21,
       <1>22, <1>23, <1>24, <1>25, <1>26, <1>27, Zenon
  DEF Next, AppendWorker, Executor, Idle

\* What the callers are told stays backed by the log.
LEMMA DurabilityStep ==
  TypeOK /\ Durability /\ [Next]_vars => Durability'
<1> SUFFICES ASSUME TypeOK, Durability, [Next]_vars
             PROVE  Durability'
  BY Zenon
<1>0. /\ durable \subseteq Txn /\ requests \in Seq(Txn)
      /\ result \in [Txn -> Result] /\ ack \in [Txn -> {"none", "ok", "error"}]
      /\ decision \in [Txn -> Nat] /\ commit_seq \in [Commit -> Nat]
  BY Zenon DEF TypeOK, StoreTypeOK, HandleTypeOK, WorkerTypeOK
<1> USE DEF Durability, AckedIsDurable, storeVars, handleVars, queueVars,
            epochVars, workerVars, preflightVars
<1>1. ASSUME NEW t \in Txn, BeginTransaction(t)
      PROVE  Durability'
  BY <1>0, <1>1, Zenon DEF BeginTransaction
<1>2. ASSUME NEW t \in Txn, SubmitSyncCommit(t)
      PROVE  Durability'
  BY <1>0, <1>2, Zenon DEF SubmitSyncCommit
<1>3. ASSUME NEW t \in Txn, SubmitAsyncCommit(t)
      PROVE  Durability'
  BY <1>0, <1>3, Zenon DEF SubmitAsyncCommit
<1>4. ASSUME NEW t \in Txn, Reject(t)
      PROVE  Durability'
  BY <1>0, <1>4, Zenon DEF Reject
<1>5. ASSUME NEW t \in Txn, SubmitAsyncCommitToAppendPipeline(t)
      PROVE  Durability'
  BY <1>0, <1>5, Zenon DEF SubmitAsyncCommitToAppendPipeline
<1>6. ASSUME NEW t \in Txn, HandoffFails(t)
      PROVE  Durability'
  BY <1>0, <1>6, Zenon DEF HandoffFails
<1>7. ASSUME NEW t \in Txn, CancelQueuedAsyncCommit(t)
      PROVE  Durability'
  BY <1>0, <1>7, Zenon DEF CancelQueuedAsyncCommit
<1>8. ASSUME NEW t \in Txn, RemoveCancelledRequest(t)
      PROVE  Durability'
  BY <1>0, <1>8, Zenon DEF RemoveCancelledRequest
<1>9. ASSUME NEW t \in Txn, ReturnAsyncCommit(t)
      PROVE  Durability'
  BY <1>0, <1>9, Zenon DEF ReturnAsyncCommit
<1>10. CASE PromoteSlot
  BY <1>0, <1>10, Zenon DEF PromoteSlot
<1>11. CASE StartCollection
  BY <1>0, <1>11, Zenon DEF StartCollection
<1>12. CASE CollectGroup
  BY <1>0, <1>12, Zenon DEF CollectGroup
<1>13. CASE OpenEpoch
  BY <1>0, <1>13, Zenon DEF OpenEpoch
<1>14. CASE BindEpoch
  BY <1>0, <1>14, Zenon DEF BindEpoch
<1>15. CASE ValidatePredictedGroup
  BY <1>0, <1>15, Zenon DEF ValidatePredictedGroup
<1>16. CASE WriteDecidedGroup
  BY <1>0, <1>16, Zenon DEF WriteDecidedGroup
<1>17. CASE CommitGroup
  <2>1. ASSUME Accepted = {}, decision' = DecideGroup, NEW t \in Txn
        PROVE  decision'[t] = 0
    BY <2>1, Zenon DEF DecideGroup
  <2>2. Range(requests) \subseteq Txn
    BY <1>0, RangeFacts, Zenon
  <2> QED
    BY <1>0, <1>17, <2>1, <2>2, Zenon DEF CommitGroup
<1>18. CASE WalDurable
  <2>1. Range(requests) \subseteq Txn
    BY <1>0, RangeFacts, Zenon
  <2>2. \A t \in Txn : commit_seq[t] # 0 => commit_seq'[t] # 0
    BY <1>0, <1>18, Zenon DEF WalDurable, Commit
  <2>3. \A t \in Range(requests) : decision[t] # 0 => commit_seq'[t] # 0
    BY <1>0, <1>18, <2>1, Zenon DEF WalDurable, Commit
  <2>4. \A t \in durable' : commit_seq'[t] # 0 \/ t \in abort_terminal'
    BY <1>0, <1>18, <2>1, <2>2, <2>3, Zenon DEF WalDurable, NotifyWalDurable
  <2>5. UNCHANGED <<result, ack, requests, decision>>
    BY <1>18, Zenon DEF WalDurable
  <2>6. abort_terminal \subseteq abort_terminal'
    BY <1>18, Zenon DEF WalDurable
  <2> QED
    BY <1>0, <2>1, <2>2, <2>3, <2>4, <2>5, <2>6, Zenon
<1>19. CASE WriteFails
  BY <1>0, <1>19, Zenon DEF WriteFails
<1>20. CASE PublishVisible
  BY <1>0, <1>20, Zenon DEF PublishVisible
<1>21. CASE AccountEpoch
  BY <1>0, <1>21, RangeFacts, Zenon DEF AccountEpoch, Deliver, Outcome
<1>22. CASE CompleteEpoch
  BY <1>0, <1>22, RangeFacts, Zenon DEF CompleteEpoch, Deliver, Outcome
<1>23. CASE ReleaseEpoch
  BY <1>0, <1>23, Zenon DEF ReleaseEpoch
<1>24. ASSUME NEW p \in Prepared, FinalizePreparedCommit(p)
      PROVE  Durability'
  <2>1. \A t \in Txn : commit_seq[t] # 0 => commit_seq'[t] # 0
    BY <1>0, <1>24, Zenon DEF FinalizePreparedCommit, Commit
  <2>2. Range(requests) \subseteq Txn
    BY <1>0, RangeFacts, Zenon
  <2> QED
    BY <1>0, <1>24, <2>1, <2>2, Zenon DEF FinalizePreparedCommit
<1>25. CASE PreflightCapture
  BY <1>0, <1>25, Zenon DEF PreflightCapture
<1>26. CASE PreflightFinish
  BY <1>0, <1>26, Zenon DEF PreflightFinish
<1>27. CASE UNCHANGED vars
  BY <1>0, <1>27, Zenon DEF vars
<1> QED
  BY <1>1, <1>2, <1>3, <1>4, <1>5, <1>6, <1>7, <1>8, <1>9, <1>10, <1>11,
       <1>12, <1>13, <1>14, <1>15, <1>16, <1>17, <1>18, <1>19, <1>20, <1>21,
       <1>22, <1>23, <1>24, <1>25, <1>26, <1>27, Zenon
  DEF Next, AppendWorker, Executor, Idle

-----------------------------------------------------------------------------
(* Where a request is, and in which phase *)

\* The requests a selection moves are queued, and leave the queue.
LEMMA SelectOrder ==
  ASSUME TypeOK, Counting, Queued, Phased, pc \in {"wait", "collect"}, pc' = "open",
         UNCHANGED <<snapshot, commit_seq, result>>,
         NEW k \in Nat, k <= Len(append_commit_requests), Select(k)
  PROVE  Queued' /\ Grouped' /\ Phased'
<1>1. append_commit_requests \in Seq(Txn) /\ IsInjective(append_commit_requests)
  BY Zenon DEF TypeOK, QueueTypeOK, Queued
<1>2. /\ requests' = SubSeq(append_commit_requests, 1, k)
      /\ append_commit_requests' =
           SubSeq(append_commit_requests, k + 1, Len(append_commit_requests))
      /\ phase' = [t \in Txn |-> IF \E i \in 1..k : append_commit_requests[i] = t
                                 THEN "selected" ELSE phase[t]]
  BY Zenon DEF Select
<1>3. /\ IsInjective(requests') /\ IsInjective(append_commit_requests')
      /\ Range(append_commit_requests') \subseteq Range(append_commit_requests)
      /\ \A x \in Range(requests') : \E i \in 1..k : append_commit_requests[i] = x
      /\ \A i \in 1..k : append_commit_requests[i] \notin Range(append_commit_requests')
  BY <1>1, <1>2, SplitDistinct, Zenon
<1>4. /\ Len(append_commit_requests) \in Nat
      /\ Range(append_commit_requests) \subseteq Txn
      /\ \A i \in 1..Len(append_commit_requests) :
           append_commit_requests[i] \in Range(append_commit_requests)
  BY <1>1, RangeFacts, Zenon
<1>5. \A i \in 1..k : append_commit_requests[i] \in Range(append_commit_requests)
  BY <1>4
<1>6. Queued'
  BY <1>2, <1>3, <1>4 DEF Queued
<1>7. Grouped'
  BY <1>2, <1>3, <1>4, <1>5, Zenon DEF Grouped, InEpoch
<1>8. Phased'
  BY <1>2, <1>5, Zenon DEF Phased, Queued
<1> QED
  BY <1>6, <1>7, <1>8, Zenon

\* A step that moves no request and no result.
LEMMA OrderKept ==
  ASSUME Queued, Grouped, Phased,
         UNCHANGED <<append_commit_requests, requests, phase, snapshot, result, commit_seq>>,
         \/ pc' = pc
         \/ pc = "wait" /\ pc' = "collect"
         \/ pc = "open" /\ pc' = "bind"
         \/ /\ pc \in {"validate", "write", "commit", "sync"}
            /\ pc' \in {"write", "commit", "sync", "account"}
         \/ pc = "publish" /\ pc' = "account"
  PROVE  Queued' /\ Grouped' /\ Phased'
BY Zenon DEF Queued, Grouped, Phased, InEpoch

\* A step of one client that does not touch the queue.
LEMMA OrderMoved ==
  ASSUME HandleTypeOK, Queued, Grouped, Phased, NEW t \in Txn,
         phase[t] \in {"idle", "open", "mailbox"},
         NEW n \in Phase \ {"idle", "queued", "selected", "bound"},
         phase' = [phase EXCEPT ![t] = n],
         UNCHANGED <<append_commit_requests, requests, commit_seq, pc>>,
         \A u \in Txn : /\ snapshot'[u] = NoSnapshot <=> snapshot[u] = NoSnapshot /\ u # t
                        /\ u # t => result'[u] = result[u]
                        /\ result'[t] # "none" => n = "done"
  PROVE  Queued' /\ Grouped' /\ Phased'
<1>1. \A u \in Txn : phase'[u] = IF u = t THEN n ELSE phase[u]
  BY Zenon DEF HandleTypeOK
<1>2. Queued' /\ Grouped'
  BY <1>1 DEF Queued, Grouped
<1> QED
  BY <1>1, <1>2 DEF Phased

\* No step puts a request at two places, or leaves one in the wrong phase.
LEMMA OrderStep ==
  TypeOK /\ Counting /\ Placement /\ Order /\ [Next]_vars => Order'
<1> SUFFICES ASSUME TypeOK, Counting, Placement, Queued, Grouped, Phased, [Next]_vars
             PROVE  Queued' /\ Grouped' /\ Phased'
  BY Zenon DEF Order
<1>0. /\ phase \in [Txn -> Phase] /\ snapshot \in [Txn -> Nat \cup {NoSnapshot}]
      /\ result \in [Txn -> Result] /\ visible_seq \in Nat
      /\ append_commit_requests \in Seq(Txn) /\ requests \in Seq(Txn)
      /\ Range(append_commit_requests) \subseteq Txn /\ Range(requests) \subseteq Txn
      /\ commit_seq \in [Commit -> Nat] /\ HandleTypeOK
  BY RangeFacts, Zenon DEF TypeOK, StoreTypeOK, HandleTypeOK, QueueTypeOK, WorkerTypeOK
<1>1. ASSUME NEW t \in Txn, BeginTransaction(t)
      PROVE  Queued' /\ Grouped' /\ Phased'
  <2>1. /\ phase[t] = "idle" /\ phase' = [phase EXCEPT ![t] = "open"]
        /\ snapshot' = [snapshot EXCEPT ![t] = visible_seq]
        /\ UNCHANGED result
        /\ UNCHANGED <<append_commit_requests, requests, commit_seq, pc>>
    BY <1>1, Zenon DEF BeginTransaction, storeVars, handleVars, queueVars, workerVars
  <2>2. "open" \in Phase \ {"idle", "queued", "selected", "bound"}
    BY Zenon DEF Phase
  <2>3. \A u \in Txn : /\ snapshot'[u] = NoSnapshot <=> snapshot[u] = NoSnapshot /\ u # t
                       /\ u # t => result'[u] = result[u]
                       /\ result'[t] # "none" => "open" = "done"
    BY <1>0, <2>1 DEF Phased, NoSnapshot
  <2> QED
    BY <1>0, <2>1, <2>2, <2>3, OrderMoved, Zenon
<1>2. ASSUME NEW t \in Txn, SubmitSyncCommit(t)
      PROVE  Queued' /\ Grouped' /\ Phased'
  <2>0. /\ append_commit_requests' = Append(append_commit_requests, t)
        /\ phase' = [phase EXCEPT ![t] = "queued"] /\ phase[t] \in {"open", "mailbox"}
        /\ UNCHANGED <<pc, requests, snapshot, result, commit_seq>>
    BY <1>2, Zenon DEF SubmitSyncCommit, Enqueue, storeVars, workerVars
  <2>1. t \notin Range(append_commit_requests)
    BY <2>0, Zenon DEF Queued
  <2>2. /\ Range(append_commit_requests') = Range(append_commit_requests) \cup {t}
        /\ IsInjective(append_commit_requests')
    BY <1>0, <2>0, <2>1, AppendFacts, AppendDistinct DEF Queued
  <2>3. Queued'
    BY <1>0, <2>0, <2>2, Zenon DEF Queued
  <2>4. Grouped'
    BY <1>0, <2>0, Zenon DEF Grouped
  <2>5. Phased'
    BY <1>0, <2>0, Zenon DEF Phased
  <2> QED
    BY <2>3, <2>4, <2>5, Zenon
<1>3. ASSUME NEW t \in Txn, SubmitAsyncCommit(t)
      PROVE  Queued' /\ Grouped' /\ Phased'
  <2>1. /\ phase[t] = "open" /\ phase' = [phase EXCEPT ![t] = "mailbox"]
        /\ UNCHANGED snapshot
        /\ UNCHANGED result
        /\ UNCHANGED <<append_commit_requests, requests, commit_seq, pc>>
    BY <1>3, Zenon DEF SubmitAsyncCommit, storeVars, handleVars, queueVars, workerVars
  <2>2. "mailbox" \in Phase \ {"idle", "queued", "selected", "bound"}
    BY Zenon DEF Phase
  <2>3. \A u \in Txn : /\ snapshot'[u] = NoSnapshot <=> snapshot[u] = NoSnapshot /\ u # t
                       /\ u # t => result'[u] = result[u]
                       /\ result'[t] # "none" => "mailbox" = "done"
    BY <1>0, <2>1, Zenon DEF Phased, NoSnapshot
  <2> QED
    BY <1>0, <2>1, <2>2, <2>3, OrderMoved, Zenon
<1>4. ASSUME NEW t \in Txn, Reject(t)
      PROVE  Queued' /\ Grouped' /\ Phased'
  <2>1. /\ phase[t] = "open" /\ phase' = [phase EXCEPT ![t] = "done"]
        /\ UNCHANGED snapshot
        /\ result' = [result EXCEPT ![t] = "rejected"]
        /\ UNCHANGED <<append_commit_requests, requests, commit_seq, pc>>
    BY <1>4, Zenon DEF Reject, storeVars, handleVars, queueVars, workerVars
  <2>2. "done" \in Phase \ {"idle", "queued", "selected", "bound"}
    BY Zenon DEF Phase
  <2>3. \A u \in Txn : /\ snapshot'[u] = NoSnapshot <=> snapshot[u] = NoSnapshot /\ u # t
                       /\ u # t => result'[u] = result[u]
                       /\ result'[t] # "none" => "done" = "done"
    BY <1>0, <2>1, Zenon DEF Phased, NoSnapshot
  <2> QED
    BY <1>0, <2>1, <2>2, <2>3, OrderMoved, Zenon
<1>5. ASSUME NEW t \in Txn, SubmitAsyncCommitToAppendPipeline(t)
      PROVE  Queued' /\ Grouped' /\ Phased'
  <2>0. /\ append_commit_requests' = Append(append_commit_requests, t)
        /\ phase' = [phase EXCEPT ![t] = "queued"] /\ phase[t] \in {"open", "mailbox"}
        /\ UNCHANGED <<pc, requests, snapshot, result, commit_seq>>
    BY <1>5, Zenon DEF SubmitAsyncCommitToAppendPipeline, Enqueue, storeVars, workerVars
  <2>1. t \notin Range(append_commit_requests)
    BY <2>0, Zenon DEF Queued
  <2>2. /\ Range(append_commit_requests') = Range(append_commit_requests) \cup {t}
        /\ IsInjective(append_commit_requests')
    BY <1>0, <2>0, <2>1, AppendFacts, AppendDistinct DEF Queued
  <2>3. Queued'
    BY <1>0, <2>0, <2>2, Zenon DEF Queued
  <2>4. Grouped'
    BY <1>0, <2>0, Zenon DEF Grouped
  <2>5. Phased'
    BY <1>0, <2>0, Zenon DEF Phased
  <2> QED
    BY <2>3, <2>4, <2>5, Zenon
<1>6. ASSUME NEW t \in Txn, HandoffFails(t)
      PROVE  Queued' /\ Grouped' /\ Phased'
  <2>1. /\ phase[t] = "mailbox" /\ phase' = [phase EXCEPT ![t] = "done"]
        /\ UNCHANGED snapshot
        /\ result' = [result EXCEPT ![t] = "rejected"]
        /\ UNCHANGED <<append_commit_requests, requests, commit_seq, pc>>
    BY <1>6, Zenon DEF HandoffFails, storeVars, handleVars, queueVars, workerVars
  <2>2. "done" \in Phase \ {"idle", "queued", "selected", "bound"}
    BY Zenon DEF Phase
  <2>3. \A u \in Txn : /\ snapshot'[u] = NoSnapshot <=> snapshot[u] = NoSnapshot /\ u # t
                       /\ u # t => result'[u] = result[u]
                       /\ result'[t] # "none" => "done" = "done"
    BY <1>0, <2>1, Zenon DEF Phased, NoSnapshot
  <2> QED
    BY <1>0, <2>1, <2>2, <2>3, OrderMoved, Zenon
<1>7. ASSUME NEW t \in Txn, CancelQueuedAsyncCommit(t)
      PROVE  Queued' /\ Grouped' /\ Phased'
  <2>1. UNCHANGED <<append_commit_requests, requests, phase, snapshot, result, commit_seq>>
    BY <1>7, Zenon DEF CancelQueuedAsyncCommit, storeVars, handleVars, queueVars, workerVars
  <2>2. pc' = pc
    BY <1>7, Zenon DEF CancelQueuedAsyncCommit, workerVars
  <2> QED
    BY <2>1, <2>2, OrderKept, Zenon
<1>8. ASSUME NEW t \in Txn, RemoveCancelledRequest(t)
      PROVE  Queued' /\ Grouped' /\ Phased'
  <2>0. UNCHANGED <<pc, requests, snapshot, commit_seq>>
    BY <1>8, Zenon DEF RemoveCancelledRequest, storeVars, workerVars
  <2>1. CASE UNCHANGED <<append_commit_requests, phase, result>>
    BY <2>0, <2>1, OrderKept, Zenon
  <2>2. CASE ~UNCHANGED <<append_commit_requests, phase, result>>
    <3>1. PICK i \in 1..Len(append_commit_requests) :
            /\ append_commit_requests[i] = t
            /\ append_commit_requests' = Without(append_commit_requests, i)
            /\ phase' = [phase EXCEPT ![t] = "done"]
            /\ result' = [result EXCEPT ![t] = "rejected"]
      BY <1>8, <2>2, Zenon DEF RemoveCancelledRequest
    <3>2. /\ IsInjective(append_commit_requests')
          /\ Range(append_commit_requests') \subseteq Range(append_commit_requests)
          /\ t \notin Range(append_commit_requests')
      BY <1>0, <3>1, RemoveDistinct, Zenon DEF Queued, Without
    <3>3. phase[t] = "queued"
      BY <1>0, <3>1, RangeFacts, Zenon DEF Queued
    <3>4. Queued'
      BY <1>0, <3>1, <3>2, Zenon DEF Queued
    <3>5. Grouped'
      BY <1>0, <2>0, <3>1, <3>3, Zenon DEF Grouped, InEpoch
    <3>6. Phased'
      BY <1>0, <2>0, <3>1, <3>3 DEF Phased
    <3> QED
      BY <3>4, <3>5, <3>6, Zenon
  <2> QED
    BY <2>1, <2>2, Zenon
<1>9. ASSUME NEW t \in Txn, ReturnAsyncCommit(t)
      PROVE  Queued' /\ Grouped' /\ Phased'
  <2>1. UNCHANGED <<append_commit_requests, requests, phase, snapshot, result, commit_seq>>
    BY <1>9, Zenon DEF ReturnAsyncCommit, storeVars, handleVars, queueVars, workerVars
  <2>2. pc' = pc
    BY <1>9, Zenon DEF ReturnAsyncCommit, workerVars
  <2> QED
    BY <2>1, <2>2, OrderKept, Zenon
<1>10. CASE PromoteSlot
  <2> DEFINE k == Len(next_epoch_slot.requests)
  <2>1. /\ pc = "wait" /\ pc' = "open" /\ Select(k)
        /\ UNCHANGED <<snapshot, commit_seq, result>>
    BY <1>10, Zenon DEF PromoteSlot, storeVars
  <2>2. k \in Nat /\ k <= Len(append_commit_requests)
    BY <1>10, LenFacts, Zenon
    DEF PromoteSlot, SlotIsQueued, IsQueuePrefix, Slot, TypeOK, EpochTypeOK
  <2> HIDE DEF k
  <2> QED
    BY <2>1, <2>2, SelectOrder, Zenon
<1>11. CASE StartCollection
  <2>1. UNCHANGED <<append_commit_requests, requests, phase, snapshot, result, commit_seq>>
    BY <1>11, Zenon DEF StartCollection, storeVars, handleVars, queueVars
  <2>2. pc = "wait" /\ pc' = "collect"
    BY <1>11, Zenon DEF StartCollection
  <2> QED
    BY <2>1, <2>2, OrderKept, Zenon
<1>12. CASE CollectGroup
  <2>1. pc = "collect" /\ pc' = "open" /\ UNCHANGED <<snapshot, commit_seq, result>>
    BY <1>12, Zenon DEF CollectGroup, storeVars
  <2>2. PICK k \in 0..MaxBatch : k <= Len(append_commit_requests) /\ Select(k)
    BY <1>12, Zenon DEF CollectGroup
  <2>3. k \in Nat
    BY PipelineAssumption
  <2> QED
    BY <2>1, <2>2, <2>3, SelectOrder, Zenon
<1>13. CASE OpenEpoch
  <2>1. UNCHANGED <<append_commit_requests, requests, phase, snapshot, result, commit_seq>>
    BY <1>13, Zenon DEF OpenEpoch, storeVars, handleVars, queueVars
  <2>2. pc = "open" /\ pc' = "bind"
    BY <1>13, Zenon DEF OpenEpoch
  <2> QED
    BY <2>1, <2>2, OrderKept, Zenon
<1>14. CASE BindEpoch
  <2>1. /\ pc = "bind" /\ pc' \in {"commit", "validate", "write"}
        /\ phase' = [t \in Txn |-> IF t \in Range(requests) THEN "bound" ELSE phase[t]]
        /\ UNCHANGED <<append_commit_requests, requests, snapshot, result, commit_seq>>
    BY <1>14, Zenon DEF BindEpoch, storeVars, queueVars
  <2>2. \A t \in Range(requests) : phase[t] = "selected"
    BY <2>1, Zenon DEF Grouped
  <2>3. \A t \in Txn : phase'[t] = IF t \in Range(requests) THEN "bound" ELSE phase[t]
    BY <2>1, Zenon
  <2>4. Queued'
    BY <1>0, <2>1, <2>2, <2>3, Zenon DEF Queued
  <2>5. Grouped'
    BY <1>0, <2>1, <2>3, Zenon DEF Grouped, InEpoch
  <2>6. Phased'
    BY <1>0, <2>1, <2>2, <2>3, Zenon DEF Phased
  <2> QED
    BY <2>4, <2>5, <2>6, Zenon
<1>15. CASE ValidatePredictedGroup
  <2>1. UNCHANGED <<append_commit_requests, requests, phase, snapshot, result, commit_seq>>
    BY <1>15, Zenon DEF ValidatePredictedGroup, storeVars, handleVars, queueVars
  <2>2. pc = "validate" /\ pc' \in {"write", "commit"}
    BY <1>15, Zenon DEF ValidatePredictedGroup
  <2> QED
    BY <2>1, <2>2, OrderKept, Zenon
<1>16. CASE WriteDecidedGroup
  <2>1. UNCHANGED <<append_commit_requests, requests, phase, snapshot, result, commit_seq>>
    BY <1>16, Zenon DEF WriteDecidedGroup, storeVars, handleVars, queueVars
  <2>2. pc = "write" /\ pc' \in {"commit", "sync", "account"}
    BY <1>16, Zenon DEF WriteDecidedGroup
  <2> QED
    BY <2>1, <2>2, OrderKept, Zenon
<1>17. CASE CommitGroup
  <2>1. UNCHANGED <<append_commit_requests, requests, phase, snapshot, result, commit_seq>>
    BY <1>17, Zenon DEF CommitGroup, storeVars, handleVars, queueVars
  <2>2. pc = "commit" /\ pc' \in {"sync", "account"}
    BY <1>17, Zenon DEF CommitGroup
  <2> QED
    BY <2>1, <2>2, OrderKept, Zenon
<1>18. CASE WalDurable
  <2>1. /\ pc = "sync" /\ pc' = "publish"
        /\ UNCHANGED <<append_commit_requests, requests, snapshot, result, phase>>
    BY <1>18, Zenon DEF WalDurable
  <2>2. \A t \in Range(requests) : phase[t] = "bound"
    BY <2>1, Zenon DEF Grouped, InEpoch
  <2>3. \A t \in Txn : commit_seq'[t] # commit_seq[t] => t \in Range(requests)
    BY <1>18, Zenon DEF WalDurable, Commit
  <2>4. Queued' /\ Grouped'
    BY <2>1, <2>2, Zenon DEF Queued, Grouped
  <2>5. Phased'
    BY <2>1, <2>2, <2>3, Zenon DEF Phased
  <2> QED
    BY <2>4, <2>5, Zenon
<1>19. CASE WriteFails
  <2>1. UNCHANGED <<append_commit_requests, requests, phase, snapshot, result, commit_seq>>
    BY <1>19, Zenon DEF WriteFails, storeVars, handleVars, queueVars
  <2>2. pc \in {"sync", "publish"} /\ pc' = "account"
    BY <1>19, Zenon DEF WriteFails
  <2> QED
    BY <2>1, <2>2, OrderKept, Zenon
<1>20. CASE PublishVisible
  <2>1. UNCHANGED <<append_commit_requests, requests, phase, snapshot, result, commit_seq>>
    BY <1>20, Zenon DEF PublishVisible, storeVars, handleVars, queueVars
  <2>2. pc = "publish" /\ pc' = "account"
    BY <1>20, Zenon DEF PublishVisible
  <2> QED
    BY <2>1, <2>2, OrderKept, Zenon
<1>21. CASE AccountEpoch
  <2>1. /\ pc = "account" /\ pc' = "complete" /\ Deliver(FALSE)
        /\ UNCHANGED <<append_commit_requests, requests, snapshot, commit_seq>>
    BY <1>21, Zenon DEF AccountEpoch, storeVars, queueVars
  <2>2. \A t \in Txn :
          IF t \in Range(requests) /\ (Async(t) <=> FALSE)
          THEN phase'[t] = "done"
          ELSE phase'[t] = phase[t] /\ result'[t] = result[t]
    BY <2>1, Zenon DEF Deliver
  <2>3. \A t \in Range(requests) : phase[t] = "bound"
    BY <2>1, Zenon DEF Grouped, InEpoch
  <2>4. \A t \in Txn : phase[t] = "bound" => t \in Range(requests)
    BY Zenon DEF Placement
  <2>5. Queued'
    BY <1>0, <2>1, <2>2, <2>3, Zenon DEF Queued
  <2>6. Grouped'
    BY <1>0, <2>1, <2>2, <2>3, Zenon DEF Grouped, InEpoch
  <2>7. Phased'
    BY <1>0, <2>1, <2>2, <2>3, <2>4 DEF Phased
  <2> QED
    BY <2>5, <2>6, <2>7, Zenon
<1>22. CASE CompleteEpoch
  <2>1. /\ pc = "complete" /\ pc' = "release" /\ Deliver(TRUE)
        /\ UNCHANGED <<append_commit_requests, requests, snapshot, commit_seq>>
    BY <1>22, Zenon DEF CompleteEpoch, storeVars, queueVars
  <2>2. \A t \in Txn :
          IF t \in Range(requests) /\ (Async(t) <=> TRUE)
          THEN phase'[t] = "done"
          ELSE phase'[t] = phase[t] /\ result'[t] = result[t]
    BY <2>1, Zenon DEF Deliver
  <2>3. \A t \in Range(requests) : Async(t) => phase[t] = "bound"
    BY <2>1, Zenon DEF Grouped, InEpoch
  <2>4. \A t \in Txn : phase[t] = "bound" => t \in Range(requests) /\ Async(t)
    BY <2>1, Zenon DEF Placement, InEpoch
  <2>5. Queued'
    BY <1>0, <2>1, <2>2, <2>3, Zenon DEF Queued
  <2>6. Grouped'
    BY <1>0, <2>1, <2>2, <2>3, Zenon DEF Grouped, InEpoch
  <2>7. Phased'
    BY <1>0, <2>1, <2>2, <2>3, <2>4, Zenon DEF Phased
  <2> QED
    BY <2>5, <2>6, <2>7, Zenon
<1>23. CASE ReleaseEpoch
  <2>1. /\ pc = "release" /\ pc' = "wait" /\ requests' = <<>>
        /\ UNCHANGED <<append_commit_requests, snapshot, result, phase, commit_seq>>
    BY <1>23, Zenon DEF ReleaseEpoch, storeVars, handleVars
  <2>2. Queued'
    BY <2>1, Zenon DEF Queued
  <2>3. Grouped'
    <3>1. DOMAIN requests' = {}
      BY <2>1
    <3> QED
      BY <3>1, Zenon DEF Grouped, IsInjective, Range
  <2>4. Phased'
    BY <2>1, Zenon DEF Phased
  <2> QED
    BY <2>2, <2>3, <2>4, Zenon
<1>24. ASSUME NEW p \in Prepared, FinalizePreparedCommit(p)
      PROVE  Queued' /\ Grouped' /\ Phased'
  <2>1. UNCHANGED <<append_commit_requests, requests, phase, snapshot, result, pc>>
    BY <1>24, Zenon DEF FinalizePreparedCommit, handleVars, queueVars, workerVars
  <2>2. \A t \in Txn : commit_seq'[t] = commit_seq[t]
    BY <1>0, <1>24, FactAssumption, Zenon DEF FinalizePreparedCommit, Commit
  <2> QED
    BY <2>1, <2>2, Zenon DEF Queued, Grouped, Phased
<1>25. CASE PreflightCapture
  <2>1. UNCHANGED <<append_commit_requests, requests, phase, snapshot, result, commit_seq>>
    BY <1>25, Zenon DEF PreflightCapture, storeVars, handleVars, queueVars, workerVars
  <2>2. pc' = pc
    BY <1>25, Zenon DEF PreflightCapture, workerVars
  <2> QED
    BY <2>1, <2>2, OrderKept, Zenon
<1>26. CASE PreflightFinish
  <2>1. UNCHANGED <<append_commit_requests, requests, phase, snapshot, result, commit_seq>>
    BY <1>26, Zenon DEF PreflightFinish, storeVars, handleVars, queueVars, workerVars
  <2>2. pc' = pc
    BY <1>26, Zenon DEF PreflightFinish, workerVars
  <2> QED
    BY <2>1, <2>2, OrderKept, Zenon
<1>27. CASE UNCHANGED vars
  <2>1. UNCHANGED <<append_commit_requests, requests, phase, snapshot, result, commit_seq>>
    BY <1>27, Zenon DEF vars, storeVars, handleVars, queueVars, workerVars
  <2>2. pc' = pc
    BY <1>27, Zenon DEF vars, workerVars
  <2> QED
    BY <2>1, <2>2, OrderKept, Zenon
<1> QED
  BY <1>1, <1>2, <1>3, <1>4, <1>5, <1>6, <1>7, <1>8, <1>9, <1>10, <1>11,
       <1>12, <1>13, <1>14, <1>15, <1>16, <1>17, <1>18, <1>19, <1>20, <1>21,
       <1>22, <1>23, <1>24, <1>25, <1>26, <1>27, Zenon
  DEF Next, AppendWorker, Executor, Idle

-----------------------------------------------------------------------------
(* The sequences *)

\* A step of a client or of the preflight worker: it writes nothing, reads at
\* the watermark and rejects only what is not in the log.
Quiet ==
  /\ UNCHANGED <<commit_seq, visible_seq, recovery_required, workerVars>>
  /\ \A t \in Txn :
       /\ snapshot'[t] = snapshot[t] \/ snapshot'[t] = visible_seq
       /\ result'[t] = result[t] \/ (result'[t] = "rejected" /\ commit_seq[t] = 0)

\* Every step is quiet, one of the append worker or a prepared commit.
LEMMA Steps ==
  TypeOK /\ Order /\ [Next]_vars =>
    Quiet \/ AppendWorker \/ \E p \in Prepared : FinalizePreparedCommit(p)
<1> SUFFICES ASSUME TypeOK, Order, [Next]_vars
             PROVE  Quiet \/ AppendWorker \/ \E p \in Prepared : FinalizePreparedCommit(p)
  BY Zenon
<1>0. /\ snapshot \in [Txn -> Nat \cup {NoSnapshot}] /\ result \in [Txn -> Result]
      /\ append_commit_requests \in Seq(Txn)
  BY Zenon DEF TypeOK, StoreTypeOK, HandleTypeOK, QueueTypeOK
<1>1. ASSUME UNCHANGED <<storeVars, result, workerVars>>
      PROVE  Quiet
  BY <1>1, Zenon DEF Quiet, storeVars
<1>2. ASSUME NEW t \in Txn, phase[t] \in {"open", "mailbox", "queued"},
             UNCHANGED <<storeVars, workerVars>>,
             result' = [result EXCEPT ![t] = "rejected"]
      PROVE  Quiet
  <2>1. commit_seq[t] = 0
    BY <1>2, Zenon DEF Order, Phased
  <2>2. UNCHANGED <<snapshot, commit_seq, visible_seq, recovery_required, workerVars>>
    BY <1>2, Zenon DEF storeVars
  <2>3. \A u \in Txn : result'[u] = result[u] \/ (result'[u] = "rejected" /\ u = t)
    BY <1>0, <1>2, Zenon
  <2> QED
    BY <2>1, <2>2, <2>3, Zenon DEF Quiet
<1>3. ASSUME NEW t \in Txn, BeginTransaction(t)
      PROVE  Quiet
  <2>1. /\ UNCHANGED <<commit_seq, visible_seq, recovery_required, result, workerVars>>
        /\ snapshot' = [snapshot EXCEPT ![t] = visible_seq]
    BY <1>3, Zenon DEF BeginTransaction
  <2>2. \A u \in Txn : snapshot'[u] = snapshot[u] \/ snapshot'[u] = visible_seq
    BY <1>0, <2>1, Zenon
  <2> QED
    BY <2>1, <2>2, Zenon DEF Quiet
<1>4. ASSUME NEW t \in Txn,
             \/ SubmitSyncCommit(t) \/ SubmitAsyncCommit(t)
             \/ SubmitAsyncCommitToAppendPipeline(t)
             \/ CancelQueuedAsyncCommit(t) \/ ReturnAsyncCommit(t)
      PROVE  Quiet
  BY <1>1, <1>4, Zenon
  DEF SubmitSyncCommit, SubmitAsyncCommit, SubmitAsyncCommitToAppendPipeline,
      CancelQueuedAsyncCommit, ReturnAsyncCommit
<1>5. ASSUME NEW t \in Txn, Reject(t) \/ HandoffFails(t)
      PROVE  Quiet
  <2>1. /\ phase[t] \in {"open", "mailbox", "queued"}
        /\ UNCHANGED <<storeVars, workerVars>>
        /\ result' = [result EXCEPT ![t] = "rejected"]
    BY <1>5, Zenon DEF Reject, HandoffFails
  <2> QED
    BY <1>2, <2>1, Zenon
<1>6. ASSUME NEW t \in Txn, RemoveCancelledRequest(t)
      PROVE  Quiet
  <2>1. UNCHANGED <<storeVars, workerVars>>
    BY <1>6, Zenon DEF RemoveCancelledRequest
  <2>2. CASE UNCHANGED result
    BY <1>1, <2>1, <2>2, Zenon
  <2>3. CASE ~UNCHANGED result
    <3>1. PICK i \in 1..Len(append_commit_requests) : append_commit_requests[i] = t
      BY <1>6, <2>3, Zenon DEF RemoveCancelledRequest
    <3>2. phase[t] = "queued"
      BY <1>0, <3>1, RangeFacts, Zenon DEF Order, Queued
    <3>3. result' = [result EXCEPT ![t] = "rejected"]
      BY <1>6, <2>3, Zenon DEF RemoveCancelledRequest
    <3> QED
      BY <1>2, <2>1, <3>2, <3>3, Zenon
  <2> QED
    BY <2>2, <2>3, Zenon
<1>7. CASE PreflightCapture
  BY <1>1, <1>7, Zenon DEF PreflightCapture, handleVars
<1>8. CASE PreflightFinish
  BY <1>1, <1>8, Zenon DEF PreflightFinish, handleVars
<1>9. CASE UNCHANGED vars
  BY <1>1, <1>9, Zenon DEF vars, handleVars
<1> QED
  BY <1>3, <1>4, <1>5, <1>6, <1>7, <1>8, <1>9, Zenon DEF Next, Executor, Idle

\* The general path: DecideGroup numbers the accepted requests behind the
\* watermark, in request order.
LEMMA DecideNumbers ==
  ASSUME Ranked, TypeOK, IsInjective(requests), decision' = DecideGroup,
         UNCHANGED <<requests, visible_seq>>
  PROVE  Numbered' /\ Granted' = Accepted
<1> DEFINE A == Accepted
           rank(i) == Cardinality({j \in A : j <= i})
<1>1. /\ requests \in Seq(Txn) /\ Len(requests) \in Nat /\ visible_seq \in Nat
      /\ DOMAIN requests = 1..Len(requests)
      /\ \A i \in 1..Len(requests) : requests[i] \in Txn
  BY LenFacts, RangeFacts, Zenon DEF TypeOK, StoreTypeOK, WorkerTypeOK
<1>2. A \in SUBSET (1..Len(requests))
  BY Zenon DEF Accepted
<1>3. ASSUME NEW i \in 1..Len(requests)
      PROVE  /\ i \in A => decision'[requests[i]] = visible_seq + rank(i)
             /\ i \notin A => decision'[requests[i]] = 0
  <2>1. \A k \in A : requests[k] = requests[i] => k = i
    BY <1>1, <1>2, Zenon DEF IsInjective
  <2>2. decision'[requests[i]] = IF \E k \in A : requests[k] = requests[i]
                                 THEN visible_seq + rank(CHOOSE k \in A : requests[k] = requests[i])
                                 ELSE 0
    BY <1>1, Zenon DEF DecideGroup
  <2> HIDE DEF rank, A
  <2>3. ASSUME i \in A
        PROVE  (CHOOSE k \in A : requests[k] = requests[i]) = i
    BY <2>1, <2>3, Zenon
  <2> QED
    BY <2>1, <2>2, <2>3, Zenon
<1>4. /\ Cardinality(A) \in Nat
      /\ \A i \in A : rank(i) \in 1..Cardinality(A)
      /\ \A i, k \in A : rank(i) = rank(k) => i = k
      /\ \A m \in 1..Cardinality(A) : \E i \in A : rank(i) = m
  BY <1>1, <1>2, Zenon DEF Ranked
<1> HIDE DEF A, rank
<1>5. \A i \in A : i \in 1..Len(requests) /\ rank(i) \in Nat /\ rank(i) # 0
  BY <1>2, <1>4
<1>6. \A i \in 1..Len(requests) : decision'[requests[i]] # 0 <=> i \in A
  BY <1>1, <1>3, <1>5
<1>7. Granted' = A
  BY <1>2, <1>6, Zenon DEF Granted
<1>8. \A i \in A : decision'[requests[i]] \in (visible_seq + 1)..(visible_seq + Cardinality(A))
  BY <1>1, <1>3, <1>4, <1>5
<1>9. \A i, k \in A : decision'[requests[i]] = decision'[requests[k]] => i = k
  <2> SUFFICES ASSUME NEW i \in A, NEW k \in A, decision'[requests[i]] = decision'[requests[k]]
               PROVE  i = k
    BY Zenon
  <2>1. visible_seq + rank(i) = visible_seq + rank(k)
    BY <1>3, <1>5, Zenon
  <2>2. rank(i) = rank(k)
    BY <1>1, <1>5, <2>1
  <2> QED
    BY <1>4, <2>2, Zenon
<1>10. ASSUME NEW m \in (visible_seq + 1)..(visible_seq + Cardinality(A))
      PROVE  \E i \in A : decision'[requests[i]] = m
  <2>1. m - visible_seq \in 1..Cardinality(A)
    BY <1>1, <1>4
  <2>2. PICK i \in A : rank(i) = m - visible_seq
    BY <1>4, <2>1, Zenon
  <2>3. decision'[requests[i]] = m
    BY <1>1, <1>3, <1>5, <2>2
  <2> QED
    BY <2>3, Zenon
<1>11. Numbered'
  BY <1>7, <1>8, <1>9, <1>10 DEF Numbered
<1> QED
  BY <1>7, <1>11, Zenon DEF A

\* What WriteDecidedGroup writes.
PredictedDecision ==
  [t \in Txn |->
     IF t \in Range(requests)
     THEN predecided_epoch + (CHOOSE i \in 1..Len(requests) : requests[i] = t)
     ELSE 0]

\* The predicted path: the whole group is numbered from the base it was
\* decided for, which is the watermark.
LEMMA PredictionNumbers ==
  ASSUME Ranked, TypeOK, IsInjective(requests), predecided_epoch = visible_seq,
         decision' = PredictedDecision,
         UNCHANGED <<requests, visible_seq>>
  PROVE  Numbered' /\ Granted' = 1..Len(requests)
<1>1. /\ requests \in Seq(Txn) /\ Len(requests) \in Nat /\ visible_seq \in Nat
      /\ DOMAIN requests = 1..Len(requests)
      /\ \A i \in 1..Len(requests) : requests[i] \in Range(requests) /\ requests[i] \in Txn
  BY LenFacts, RangeFacts, Zenon DEF TypeOK, StoreTypeOK, WorkerTypeOK
<1>2. ASSUME NEW i \in 1..Len(requests)
      PROVE  decision'[requests[i]] = visible_seq + i
  <2>1. \A k \in 1..Len(requests) : requests[k] = requests[i] => k = i
    BY <1>1, Zenon DEF IsInjective
  <2>2. (CHOOSE k \in 1..Len(requests) : requests[k] = requests[i]) = i
    BY <2>1, Zenon
  <2>3. decision'[requests[i]] =
          predecided_epoch + (CHOOSE k \in 1..Len(requests) : requests[k] = requests[i])
    BY <1>1, Zenon DEF PredictedDecision
  <2> QED
    BY <2>2, <2>3, Zenon
<1>3. Granted' = 1..Len(requests)
  BY <1>1, <1>2 DEF Granted
<1>4. Cardinality(1..Len(requests)) = Len(requests)
  BY <1>1, Zenon DEF Ranked
<1>5. \A i \in 1..Len(requests) :
        decision'[requests[i]] \in (visible_seq + 1)..(visible_seq + Len(requests))
  BY <1>1, <1>2
<1>6. \A i, k \in 1..Len(requests) : decision'[requests[i]] = decision'[requests[k]] => i = k
  BY <1>1, <1>2
<1>7. ASSUME NEW m \in (visible_seq + 1)..(visible_seq + Len(requests))
      PROVE  \E i \in 1..Len(requests) : decision'[requests[i]] = m
  <2>1. m - visible_seq \in 1..Len(requests) /\ visible_seq + (m - visible_seq) = m
    BY <1>1
  <2> QED
    BY <1>2, <2>1, Zenon
<1> QED
  BY <1>3, <1>4, <1>5, <1>6, <1>7, Zenon DEF Numbered

\* Writing the group fills the log up to the group's last sequence.
LEMMA WalFills ==
  ASSUME Ranked, TypeOK, Order, Numbered, Filled(visible_seq), WalDurable
  PROVE  /\ Filled(visible_seq + Cardinality(Granted))'
         /\ \A t \in Range(requests) : commit_seq'[t] = decision[t]
         /\ \A c \in Commit : \/ commit_seq'[c] = commit_seq[c]
                              \/ /\ c \in Range(requests) /\ commit_seq[c] = 0
                                 /\ commit_seq'[c] = decision[c] /\ decision[c] # 0
                                 /\ decision[c] > visible_seq
         /\ UNCHANGED <<Granted, Numbered>>
<1> DEFINE n == visible_seq
           m == visible_seq + Cardinality(Granted)
<1>1. /\ requests \in Seq(Txn) /\ commit_seq \in [Commit -> Nat] /\ n \in Nat
      /\ decision \in [Txn -> Nat] /\ Range(requests) \subseteq Txn
      /\ Len(requests) \in Nat
      /\ \A i \in 1..Len(requests) : requests[i] \in Range(requests) /\ requests[i] \in Txn
      /\ \A t \in Range(requests) : \E i \in 1..Len(requests) : requests[i] = t
  BY RangeFacts, Zenon DEF TypeOK, StoreTypeOK, WorkerTypeOK
<1>2. /\ pc = "sync" /\ UNCHANGED <<requests, decision, visible_seq>>
      /\ commit_seq' = [c \in Commit |->
           IF c \in Range(requests) /\ decision[c] # 0 THEN decision[c]
           ELSE commit_seq[c]]
  BY Zenon DEF WalDurable
<1>3. \A t \in Range(requests) : commit_seq[t] = 0
  <2>1. \A t \in Range(requests) : phase[t] = "bound"
    BY <1>2, Zenon DEF Order, Grouped, InEpoch
  <2> QED
    BY <1>1, <1>2, <2>1, Zenon DEF Order, Phased
<1>4. Cardinality(Granted) \in Nat
  BY <1>1, PositionsCounted, Zenon DEF Granted
<1>5. UNCHANGED <<Granted, Numbered>>
  <2>1. UNCHANGED Granted
    BY <1>2, Zenon DEF Granted
  <2> QED
    BY <1>2, <2>1, Zenon DEF Numbered
<1>6. Txn \subseteq Commit
  BY Zenon DEF Commit
<1>7. \A c \in Commit : commit_seq'[c] =
         IF c \in Range(requests) /\ decision[c] # 0 THEN decision[c] ELSE commit_seq[c]
  BY <1>2, Zenon
<1>8. ASSUME NEW c \in Range(requests), decision[c] # 0
      PROVE  \E i \in Granted : requests[i] = c
  BY <1>1, <1>8, Zenon DEF Granted
<1>9. /\ \A i \in Granted : decision[requests[i]] \in (n + 1)..m
      /\ \A i, j \in Granted : decision[requests[i]] = decision[requests[j]] => i = j
      /\ \A s \in (n + 1)..m : \E i \in Granted : decision[requests[i]] = s
  BY Zenon DEF Numbered
<1>10. m \in Nat /\ n <= m
  BY <1>1, <1>4
<1> HIDE DEF m, n
<1>11. ASSUME NEW c \in Commit
       PROVE  \/ c \in Range(requests) /\ commit_seq'[c] = decision[c] /\ decision[c] \in (n + 1)..m
              \/ commit_seq'[c] = commit_seq[c] /\ commit_seq[c] <= n
  <2>1. CASE c \in Range(requests) /\ decision[c] # 0
    BY <1>7, <1>8, <1>9, <2>1, Zenon
  <2>2. CASE ~(c \in Range(requests) /\ decision[c] # 0)
    BY <1>7, <2>2, Zenon DEF Filled, n
  <2> QED
    BY <2>1, <2>2, Zenon
<1>12. \A c \in Commit : commit_seq'[c] <= m
  BY <1>1, <1>10, <1>11
<1>13. ASSUME NEW s \in 1..m
       PROVE  \E c \in Commit : commit_seq'[c] = s
  <2>1. CASE s <= n
    <3>1. s \in 1..n
      BY <1>1, <1>10, <2>1
    <3>2. PICK c \in Commit : commit_seq[c] = s
      BY <3>1, Zenon DEF Filled, n
    <3>3. c \notin Range(requests)
      BY <1>3, <3>1, <3>2
    <3> QED
      BY <1>7, <3>2, <3>3, Zenon
  <2>2. CASE ~(s <= n)
    <3>1. s \in (n + 1)..m
      BY <1>1, <1>10, <2>2
    <3>2. PICK i \in Granted : decision[requests[i]] = s
      BY <1>9, <3>1, Zenon
    <3>3. requests[i] \in Range(requests) /\ requests[i] \in Commit /\ decision[requests[i]] # 0
      BY <1>1, <1>6, <3>2, Zenon DEF Granted
    <3> QED
      BY <1>7, <3>2, <3>3, Zenon
  <2> QED
    BY <2>1, <2>2, Zenon
<1>14. ASSUME NEW c \in Commit, NEW d \in Commit, commit_seq'[c] = commit_seq'[d], c # d
       PROVE  commit_seq'[c] = 0
  <2>1. CASE commit_seq'[c] \in (n + 1)..m
    <3>1. /\ c \in Range(requests) /\ commit_seq'[c] = decision[c] /\ decision[c] # 0
          /\ d \in Range(requests) /\ commit_seq'[d] = decision[d] /\ decision[d] # 0
      BY <1>1, <1>10, <1>11, <1>14, <2>1, SMTT(30)
    <3>2. PICK i \in Granted : requests[i] = c
      BY <1>8, <3>1, Zenon
    <3>3. PICK j \in Granted : requests[j] = d
      BY <1>8, <3>1, Zenon
    <3> QED
      BY <1>9, <1>14, <3>1, <3>2, <3>3, Zenon
  <2>2. CASE commit_seq'[c] \notin (n + 1)..m
    <3>1. commit_seq'[c] = commit_seq[c] /\ commit_seq'[d] = commit_seq[d]
      BY <1>11, <1>14, <2>2, Zenon
    <3> QED
      BY <1>14, <3>1, Zenon DEF Filled
  <2> QED
    BY <2>1, <2>2, Zenon
<1>15. (visible_seq + Cardinality(Granted))' = m
  BY <1>2, <1>5, Zenon DEF m
<1>16. Filled(visible_seq + Cardinality(Granted))'
  BY <1>12, <1>13, <1>14, <1>15, Zenon DEF Filled
<1>17. ASSUME NEW t \in Range(requests)
       PROVE  commit_seq'[t] = decision[t]
  BY <1>1, <1>3, <1>6, <1>7, <1>17, Zenon
<1>18. ASSUME NEW c \in Commit
       PROVE  \/ commit_seq'[c] = commit_seq[c]
              \/ /\ c \in Range(requests) /\ commit_seq[c] = 0
                 /\ commit_seq'[c] = decision[c] /\ decision[c] # 0
                 /\ decision[c] > visible_seq
  BY <1>1, <1>3, <1>10, <1>11, <1>18 DEF n
<1> QED
  BY <1>5, <1>16, <1>17, <1>18, Zenon

\* A step that only moves the worker between sections in which nothing is
\* decided or written.
LEMMA NumberingIdle ==
  ASSUME Numbering, UNCHANGED <<storeVars, result>>,
         pc \notin {"sync", "publish"}, pc' \notin {"sync", "publish"},
         ~write_ok' \/ pc' \notin {"account", "complete"}
  PROVE  Numbering'
<1>1. UNCHANGED <<snapshot, commit_seq, visible_seq, recovery_required, result>>
  BY Zenon DEF storeVars
<1>2. (~recovery_required =>
        Filled(visible_seq + IF pc = "publish" THEN Cardinality(Granted) ELSE 0))'
  <2>1. ~recovery_required => Filled(visible_seq + 0)
    BY Zenon DEF Numbering
  <2> QED
    BY <1>1, <2>1, Zenon DEF Filled
<1>3. (\E n \in Nat : visible_seq <= n /\ Filled(n))'
  BY <1>1, Zenon DEF Numbering, Filled
<1>4. ResultsMatchLog'
  BY <1>1, Zenon DEF Numbering, ResultsMatchLog
<1>5. (\A t \in Txn : snapshot[t] <= visible_seq)'
  BY <1>1, Zenon DEF Numbering
<1> QED
  BY <1>2, <1>3, <1>4, <1>5, Zenon DEF Numbering, PublisherHeld

\* The sequences a group is given, the log, the watermark and the results agree
\* after every step.
LEMMA NumberingStep ==
  ASSUME Ranked
  PROVE  TypeOK /\ Counting /\ Placement /\ Order /\ Numbering /\ [Next]_vars => Numbering'
<1> SUFFICES ASSUME TypeOK, Counting, Placement, Order, Numbering, [Next]_vars
             PROVE  Numbering'
  BY Zenon
<1>0. /\ snapshot \in [Txn -> Nat \cup {NoSnapshot}] /\ result \in [Txn -> Result]
      /\ commit_seq \in [Commit -> Nat] /\ visible_seq \in Nat
      /\ decision \in [Txn -> Nat] /\ requests \in Seq(Txn) /\ Range(requests) \subseteq Txn
      /\ Cardinality(Granted) \in Nat /\ IsInjective(requests)
  <2>1. requests \in Seq(Txn)
    BY Zenon DEF TypeOK, WorkerTypeOK
  <2>2. Cardinality(Granted) \in Nat
    BY <2>1, LenFacts, PositionsCounted, Zenon DEF Granted
  <2> QED
    BY <2>1, <2>2, RangeFacts, Zenon
    DEF TypeOK, StoreTypeOK, HandleTypeOK, WorkerTypeOK, Order, Grouped
<1>a. \A t \in Txn : snapshot[t] \in Int /\ snapshot[t] <= visible_seq
  BY <1>0 DEF Numbering, NoSnapshot
<1>1. CASE Quiet
  <2>1. UNCHANGED <<commit_seq, visible_seq, recovery_required, pc, requests, decision, write_ok>>
    BY <1>1, Zenon DEF Quiet, workerVars
  <2>2. ResultsMatchLog'
    BY <1>1, <2>1, Zenon DEF Quiet, Numbering, ResultsMatchLog
  <2>3. \A t \in Txn : snapshot'[t] <= visible_seq
    <3>1. \A t \in Txn : snapshot'[t] = snapshot[t] \/ snapshot'[t] = visible_seq
      BY <1>1, Zenon DEF Quiet
    <3>2. visible_seq \in Nat
      BY <1>0, Zenon
    <3> QED
      BY <1>a, <3>1, <3>2
  <2>4. UNCHANGED Granted /\ (Numbered => Numbered')
    <3>1. UNCHANGED Granted
      BY <2>1, Zenon DEF Granted
    <3>2. decision' = decision /\ visible_seq' = visible_seq /\ requests' = requests
      BY <2>1, Zenon
    <3> QED
      BY <3>1, <3>2, Zenon DEF Numbered
  <2>5. ASSUME NEW n PROVE Filled(n)' <=> Filled(n)
    BY <2>1, Zenon DEF Filled
  <2> QED
    BY <2>1, <2>2, <2>3, <2>4, <2>5, Zenon DEF Numbering, PublisherHeld
<1>2. CASE PromoteSlot \/ StartCollection \/ CollectGroup \/ OpenEpoch \/ BindEpoch
           \/ ValidatePredictedGroup \/ ReleaseEpoch
  <2>1. UNCHANGED <<storeVars, result>>
    BY <1>2, Zenon
    DEF PromoteSlot, StartCollection, CollectGroup, OpenEpoch, BindEpoch,
        ValidatePredictedGroup, ReleaseEpoch, handleVars
  <2>2. pc \in {"wait", "collect", "open", "bind", "validate", "release"}
    BY <1>2, Zenon
    DEF PromoteSlot, StartCollection, CollectGroup, OpenEpoch, BindEpoch,
        ValidatePredictedGroup, ReleaseEpoch
  <2>3. pc' \in {"collect", "open", "bind", "validate", "write", "commit", "wait"}
    BY <1>2, Zenon
    DEF PromoteSlot, StartCollection, CollectGroup, OpenEpoch, BindEpoch,
        ValidatePredictedGroup, ReleaseEpoch
  <2> QED
    BY <2>1, <2>2, <2>3, NumberingIdle, Zenon
<1>3. ASSUME pc \in {"write", "commit"}, pc' = "sync", ~recovery_required, Numbered',
             UNCHANGED <<storeVars, result>>
      PROVE  Numbering'
  <2>1. UNCHANGED <<snapshot, commit_seq, visible_seq, recovery_required, result>>
    BY <1>3, Zenon DEF storeVars
  <2>2. ResultsMatchLog'
    BY <2>1, Zenon DEF Numbering, ResultsMatchLog
  <2>3. Filled(visible_seq + 0)'
    BY <1>3, <2>1, Zenon DEF Numbering, Filled
  <2>4. (\E n \in Nat : visible_seq <= n /\ Filled(n))'
    BY <2>1, Zenon DEF Numbering, Filled
  <2>5. (\A t \in Txn : snapshot[t] <= visible_seq)'
    BY <2>1, Zenon DEF Numbering
  <2> QED
    BY <1>3, <2>1, <2>2, <2>3, <2>4, <2>5, Zenon DEF Numbering, PublisherHeld
<1>4. CASE WriteDecidedGroup
  <2>1. /\ pc = "write" /\ UNCHANGED <<storeVars, result, requests>>
        /\ UNCHANGED <<visible_seq, recovery_required>>
    BY <1>4, Zenon DEF WriteDecidedGroup, storeVars, handleVars
  <2>2. CASE recovery_required \/ BaseIsStale
    <3>1. pc' = "commit" \/ (pc' = "account" /\ ~write_ok')
      BY <1>4, <2>2, Zenon DEF WriteDecidedGroup
    <3> QED
      BY <2>1, <3>1, NumberingIdle, Zenon
  <2>3. CASE ~recovery_required /\ ~BaseIsStale
    <3>1. pc' = "sync" /\ decision' = PredictedDecision
      BY <1>4, <2>3, Zenon DEF WriteDecidedGroup, PredictedDecision
    <3>2. predecided_epoch = visible_seq
      BY <2>3, Zenon DEF BaseIsStale
    <3>3. Numbered'
      BY <1>0, <2>1, <3>1, <3>2, PredictionNumbers, Zenon
    <3> QED
      BY <1>3, <2>1, <2>3, <3>1, <3>3, Zenon
  <2> QED
    BY <2>2, <2>3, Zenon
<1>5. CASE CommitGroup
  <2>1. /\ pc = "commit" /\ UNCHANGED <<storeVars, result, requests>>
        /\ UNCHANGED <<visible_seq, recovery_required, commit_seq, snapshot>>
    BY <1>5, Zenon DEF CommitGroup, storeVars, handleVars
  <2>2. CASE recovery_required \/ requests = <<>>
    <3>1. pc' = "account" /\ ~write_ok'
      BY <1>5, <2>2, Zenon DEF CommitGroup
    <3> QED
      BY <2>1, <3>1, NumberingIdle, Zenon
  <2>3. CASE ~(recovery_required \/ requests = <<>>)
    <3>1. /\ decision' = DecideGroup /\ pc' \in {"account", "sync"}
          /\ pc' = "account" => Accepted = {}
      BY <1>5, <2>3, Zenon DEF CommitGroup
    <3>2. Numbered' /\ Granted' = Accepted
      BY <1>0, <2>1, <3>1, DecideNumbers, Zenon
    <3>3. CASE pc' = "sync"
      BY <1>3, <2>1, <2>3, <3>2, <3>3, Zenon
    <3>4. CASE pc' = "account"
      <4>1. \A t \in Range(requests) : commit_seq[t] = 0
        <5>1. \A t \in Range(requests) : phase[t] = "bound"
          BY <2>1, Zenon DEF Order, Grouped, InEpoch
        <5> QED
          BY <1>0, <2>1, <5>1, Zenon DEF Order, Phased
      <4>2. \A t \in Range(requests) : decision'[t] = 0
        BY <1>0, <3>1, <3>4, Zenon DEF DecideGroup
      <4>3. ResultsMatchLog'
        BY <2>1, Zenon DEF Numbering, ResultsMatchLog
      <4>4. (~recovery_required => Filled(visible_seq + 0))'
        BY <2>1, Zenon DEF Numbering, Filled
      <4>5. (\E n \in Nat : visible_seq <= n /\ Filled(n))'
        BY <2>1, Zenon DEF Numbering, Filled
      <4>6. (\A t \in Txn : snapshot[t] <= visible_seq)'
        BY <2>1, Zenon DEF Numbering
      <4>7. \A t \in Range(requests') :
              commit_seq'[t] = decision'[t] /\ decision'[t] <= visible_seq'
        BY <1>0, <2>1, <4>1, <4>2
      <4> QED
        BY <3>4, <4>3, <4>4, <4>5, <4>6, <4>7, Zenon DEF Numbering, PublisherHeld
    <3> QED
      BY <3>1, <3>3, <3>4, Zenon
  <2> QED
    BY <2>2, <2>3, Zenon
<1>6. CASE WalDurable
  <2>1. /\ pc = "sync" /\ pc' = "publish"
        /\ UNCHANGED <<snapshot, visible_seq, recovery_required, result, requests, decision, write_ok>>
    BY <1>6, Zenon DEF WalDurable
  <2>2. ~recovery_required /\ Numbered /\ Filled(visible_seq)
    BY <1>0, <2>1 DEF Numbering, PublisherHeld
  <2>3. /\ Filled(visible_seq + Cardinality(Granted))'
        /\ \A t \in Range(requests) : commit_seq'[t] = decision[t]
        /\ \A c \in Commit : commit_seq'[c] = commit_seq[c] \/ c \in Range(requests)
        /\ UNCHANGED <<Granted, Numbered>>
    BY <1>6, <2>2, WalFills, Zenon
  <2>4. \A t \in Txn : result[t] # "none" => commit_seq'[t] = commit_seq[t]
    <3>1. \A t \in Range(requests) : phase[t] = "bound"
      BY <2>1, Zenon DEF Order, Grouped, InEpoch
    <3>2. \A t \in Txn : result[t] # "none" => phase[t] = "done"
      BY Zenon DEF Order, Phased
    <3>3. Txn \subseteq Commit
      BY Zenon DEF Commit
    <3> QED
      BY <2>3, <3>1, <3>2, <3>3, Zenon
  <2>5. ResultsMatchLog'
    BY <2>1, <2>4, Zenon DEF Numbering, ResultsMatchLog
  <2>6. (\E n \in Nat : visible_seq <= n /\ Filled(n))'
    <3>1. /\ (visible_seq + Cardinality(Granted))' \in Nat
          /\ visible_seq' <= (visible_seq + Cardinality(Granted))'
      BY <1>0, <2>1, <2>3
    <3> QED
      BY <2>3, <3>1, Zenon
  <2>7. (\A t \in Txn : snapshot[t] <= visible_seq)'
    BY <2>1, Zenon DEF Numbering
  <2> QED
    BY <2>1, <2>2, <2>3, <2>5, <2>6, <2>7, Zenon DEF Numbering, PublisherHeld
<1>7. CASE WriteFails
  <2>1. /\ recovery_required' /\ ~write_ok' /\ pc' = "account"
        /\ UNCHANGED <<snapshot, commit_seq, visible_seq, result>>
    BY <1>7, Zenon DEF WriteFails, handleVars
  <2>2. ResultsMatchLog'
    BY <2>1, Zenon DEF Numbering, ResultsMatchLog
  <2>3. (\E n \in Nat : visible_seq <= n /\ Filled(n))'
    BY <2>1, Zenon DEF Numbering, Filled
  <2>4. (\A t \in Txn : snapshot[t] <= visible_seq)'
    BY <2>1, Zenon DEF Numbering
  <2> QED
    BY <2>1, <2>2, <2>3, <2>4, Zenon DEF Numbering, PublisherHeld
<1>8. CASE PublishVisible
  <2>1. /\ pc = "publish" /\ pc' = "account"
        /\ visible_seq' = visible_seq + Cardinality(Granted)
        /\ UNCHANGED <<snapshot, commit_seq, recovery_required, result, requests, decision, write_ok>>
    BY <1>8, Zenon DEF PublishVisible, handleVars, Granted
  <2>2. ~recovery_required /\ Numbered /\ Filled(visible_seq + Cardinality(Granted))
    BY <2>1, Zenon DEF Numbering, PublisherHeld
  <2>3. visible_seq' \in Nat /\ visible_seq <= visible_seq'
    BY <1>0, <2>1
  <2>4. Filled(visible_seq)'
    BY <2>1, <2>2, Zenon DEF Filled
  <2>5. \A t \in Range(requests) : decision[t] <= visible_seq'
    <3> SUFFICES ASSUME NEW t \in Range(requests) PROVE decision[t] <= visible_seq'
      BY Zenon
    <3>1. PICK i \in 1..Len(requests) : requests[i] = t
      BY <1>0, RangeFacts, Zenon
    <3>2. CASE decision[t] = 0
      BY <2>3, <3>2
    <3>3. CASE decision[t] # 0
      <4>1. decision[t] \in (visible_seq + 1)..(visible_seq + Cardinality(Granted))
        BY <2>2, <3>1, <3>3, Zenon DEF Numbered, Granted
      <4> QED
        BY <1>0, <2>1, <4>1
    <3> QED
      BY <3>2, <3>3, Zenon
  <2>6. ResultsMatchLog'
    BY <1>0, <2>1, <2>3 DEF Numbering, ResultsMatchLog
  <2>7. (\A t \in Txn : snapshot[t] <= visible_seq)'
    BY <1>0, <2>1, <2>3 DEF Numbering, NoSnapshot
  <2>8. (\E n \in Nat : visible_seq <= n /\ Filled(n))'
    BY <2>3, <2>4
  <2>9. \A t \in Range(requests') : write_ok' =>
          commit_seq'[t] = decision'[t] /\ decision'[t] <= visible_seq'
    BY <2>1, <2>5, Zenon DEF Numbering
  <2>10. Filled(visible_seq + 0)'
    BY <2>3, <2>4
  <2> QED
    BY <2>1, <2>6, <2>7, <2>8, <2>9, <2>10, Zenon DEF Numbering, PublisherHeld
<1>9. CASE AccountEpoch \/ CompleteEpoch
  <2>1. /\ pc \in {"account", "complete"} /\ pc' \in {"complete", "release"}
        /\ UNCHANGED <<snapshot, commit_seq, visible_seq, recovery_required, requests, decision, write_ok>>
    BY <1>9, Zenon DEF AccountEpoch, CompleteEpoch, storeVars
  <2>2. \A t \in Txn : result'[t] = result[t] \/ (t \in Range(requests) /\ result'[t] = Outcome(t))
    BY <1>9, Zenon DEF AccountEpoch, CompleteEpoch, Deliver
  <2>3. ResultsMatchLog'
    <3>1. ASSUME NEW t \in Range(requests)
          PROVE  /\ Outcome(t) = "committed" => commit_seq[t] \in 1..visible_seq
                 /\ Outcome(t) \in {"aborted", "rejected"} => commit_seq[t] = 0
      BY <1>0, <2>1 DEF Numbering, Outcome
    <3> QED
      BY <2>1, <2>2, <3>1, Zenon DEF Numbering, ResultsMatchLog
  <2>4. (~recovery_required => Filled(visible_seq + 0))'
    BY <2>1, Zenon DEF Numbering, Filled
  <2>5. (\E n \in Nat : visible_seq <= n /\ Filled(n))'
    BY <2>1, Zenon DEF Numbering, Filled
  <2>6. (\A t \in Txn : snapshot[t] <= visible_seq)'
    BY <2>1, Zenon DEF Numbering
  <2>7. write_ok => \A t \in Range(requests) : commit_seq[t] = decision[t] /\ decision[t] <= visible_seq
    BY <2>1, Zenon DEF Numbering
  <2> QED
    BY <2>1, <2>3, <2>4, <2>5, <2>6, <2>7, Zenon DEF Numbering, PublisherHeld
<1>10. ASSUME NEW p \in Prepared, FinalizePreparedCommit(p)
       PROVE  Numbering'
  <2>1. /\ ~PublisherHeld /\ ~recovery_required /\ commit_seq[p] = 0
        /\ commit_seq' = [commit_seq EXCEPT ![p] = visible_seq + 1]
        /\ visible_seq' = visible_seq + 1
        /\ UNCHANGED <<snapshot, recovery_required, result, pc, requests, decision, write_ok>>
    BY <1>10, Zenon DEF FinalizePreparedCommit, handleVars, workerVars
  <2>2. pc \notin {"sync", "publish"} /\ Filled(visible_seq)
    BY <1>0, <2>1 DEF Numbering, PublisherHeld
  <2>3. \A c \in Commit : commit_seq'[c] = IF c = p THEN visible_seq + 1 ELSE commit_seq[c]
    BY <1>0, <2>1, Zenon
  <2>4. p \in Commit /\ p \notin Txn /\ Txn \subseteq Commit
    BY FactAssumption, Zenon DEF Commit
  <2>5. Filled(visible_seq)'
    <3>1. \A c \in Commit : commit_seq'[c] <= visible_seq + 1
      BY <1>0, <2>2, <2>3, SMTT(30) DEF Filled
    <3>2. ASSUME NEW s \in 1..(visible_seq + 1)
          PROVE  \E c \in Commit : commit_seq'[c] = s
      <4>1. CASE s = visible_seq + 1
        BY <2>3, <2>4, <4>1, Zenon
      <4>2. CASE s # visible_seq + 1
        <5>1. s \in 1..visible_seq
          BY <1>0, <4>2
        <5>2. PICK c \in Commit : commit_seq[c] = s
          BY <2>2, <5>1, Zenon DEF Filled
        <5> QED
          BY <2>1, <2>3, <5>1, <5>2
      <4> QED
        BY <4>1, <4>2, Zenon
    <3>3. \A c, d \in Commit : commit_seq'[c] = commit_seq'[d] /\ c # d => commit_seq'[c] = 0
      BY <1>0, <2>2, <2>3, SMTT(30) DEF Filled
    <3> QED
      BY <2>1, <3>1, <3>2, <3>3, Zenon DEF Filled
  <2>6. visible_seq' \in Nat /\ visible_seq <= visible_seq'
    BY <1>0, <2>1
  <2>7. ResultsMatchLog'
    <3>1. \A t \in Txn : commit_seq'[t] = commit_seq[t]
      BY <2>3, <2>4, Zenon
    <3>2. \A t \in Txn : commit_seq[t] \in 1..visible_seq => commit_seq[t] \in 1..visible_seq'
      BY <1>0, <2>1
    <3> QED
      BY <2>1, <3>1, <3>2, Zenon DEF Numbering, ResultsMatchLog
  <2>8. (\A t \in Txn : snapshot[t] <= visible_seq)'
    <3>1. \A t \in Txn : snapshot[t] <= visible_seq + 1
      BY <1>0, <1>a
    <3> QED
      BY <2>1, <3>1, Zenon
  <2>9. (\E n \in Nat : visible_seq <= n /\ Filled(n))' /\ Filled(visible_seq + 0)'
    BY <2>5, <2>6
  <2>10. \A t \in Range(requests') : pc' \in {"account", "complete"} /\ write_ok' =>
          commit_seq'[t] = decision'[t] /\ decision'[t] <= visible_seq'
    BY <1>0, <2>1, <2>2, <2>3, <2>4, <2>6 DEF Numbering
  <2> QED
    BY <2>1, <2>2, <2>7, <2>8, <2>9, <2>10, Zenon DEF Numbering, PublisherHeld
<1> QED
  BY <1>1, <1>2, <1>4, <1>5, <1>6, <1>7, <1>8, <1>9, <1>10, Steps, Zenon DEF AppendWorker

-----------------------------------------------------------------------------
(* What a validation looks at *)

\* The commits in lo..hi that write identity r.
Writers(log, r, lo, hi) == {c \in Within(log, lo, hi) : r \in WriteIdentities(c)}

Footprint(t) == WriteIdentities(t) \cup ReadIdentities(t)

\* The boundaries of an identity, and what was written of it since a snapshot,
\* depend only on the commits that write the identity.
LEMMA WritersDecide ==
  ASSUME NEW log, NEW r, NEW lo, NEW s
  PROVE  /\ Boundaries(log, r, s) =
              {v \in ValidTime : \E c \in Writers(log, r, 1, s) : <<r, v>> \in Writes[c]}
         /\ \A b : WrittenSince(log, <<r, b>>, lo, s) <=>
                     \E c \in Writers(log, r, lo + 1, s) : <<r, b>> \in Writes[c]
<1>1. \A c, v : <<r, v>> \in Writes[c] => r \in WriteIdentities(c)
  <2> SUFFICES ASSUME NEW c, NEW v, <<r, v>> \in Writes[c] PROVE r \in WriteIdentities(c)
    BY Zenon
  <2>1. <<r, v>>[1] = r
    BY Zenon
  <2> QED
    BY <2>1, Zenon DEF WriteIdentities
<1>2. \A v : (\E c \in Within(log, 1, s) : <<r, v>> \in Writes[c]) <=>
             (\E c \in Writers(log, r, 1, s) : <<r, v>> \in Writes[c])
  BY <1>1, Zenon DEF Writers
<1>3. \A v : (\E c \in Within(log, lo + 1, s) : <<r, v>> \in Writes[c]) <=>
             (\E c \in Writers(log, r, lo + 1, s) : <<r, v>> \in Writes[c])
  BY <1>1, Zenon DEF Writers
<1>4. Boundaries(log, r, s) =
        {v \in ValidTime : \E c \in Writers(log, r, 1, s) : <<r, v>> \in Writes[c]}
  BY <1>2, Zenon DEF Boundaries
<1>5. \A b : WrittenSince(log, <<r, b>>, lo, s) <=>
               \E c \in Writers(log, r, lo + 1, s) : <<r, b>> \in Writes[c]
  BY <1>3, Zenon DEF WrittenSince
<1> QED
  BY <1>4, <1>5, Zenon

\* The facts of a transaction's writes and reads lie in its footprint.
LEMMA FootprintFacts ==
  ASSUME NEW t
  PROVE  /\ \A f \in Writes[t] : f[1] \in Footprint(t)
         /\ \A f \in Reads[t] : f[1] \in Footprint(t)
BY Zenon DEF Footprint, WriteIdentities, ReadIdentities

\* The boundaries the commits of W give identity r.
BoundariesOf(r, W) == {v \in ValidTime : \E c \in W : <<r, v>> \in Writes[c]}

LEMMA BoundariesOfWriters ==
  ASSUME NEW log, NEW r, NEW s
  PROVE  Boundaries(log, r, s) = BoundariesOf(r, Writers(log, r, 1, s))
BY WritersDecide, Zenon DEF BoundariesOf

\* Equal writers give equal new writes.
LEMMA SameWritten ==
  ASSUME NEW logA, NEW logB, NEW r, NEW lo, NEW sA, NEW sB,
         Writers(logA, r, lo + 1, sA) = Writers(logB, r, lo + 1, sB)
  PROVE  \A b : WrittenSince(logA, <<r, b>>, lo, sA) <=> WrittenSince(logB, <<r, b>>, lo, sB)
<1> TAKE b
<1> DEFINE In(W) == \E c \in W : <<r, b>> \in Writes[c]
<1>1. /\ WrittenSince(logA, <<r, b>>, lo, sA) <=> In(Writers(logA, r, lo + 1, sA))
      /\ WrittenSince(logB, <<r, b>>, lo, sB) <=> In(Writers(logB, r, lo + 1, sB))
  BY WritersDecide, Zenon
<1> QED
  BY <1>1, Zenon

\* Two histories with the same boundaries and the same new writes on the
\* footprint of t validate t alike.
LEMMA SameValidity ==
  ASSUME NEW logA, NEW logB, NEW t, NEW snap, NEW sA, NEW sB,
         \A r \in Footprint(t) :
           /\ Boundaries(logA, r, snap) = Boundaries(logB, r, snap)
           /\ Boundaries(logA, r, sA) = Boundaries(logB, r, sB)
           /\ \A b : WrittenSince(logA, <<r, b>>, snap, sA) <=>
                     WrittenSince(logB, <<r, b>>, snap, sB)
  PROVE  DependenciesValid(logA, t, snap, sA) <=> DependenciesValid(logB, t, snap, sB)
<1>1. ASSUME NEW r \in Footprint(t), NEW v
      PROVE  /\ Successor(logA, r, v, snap) = Successor(logB, r, v, snap)
             /\ Successor(logA, r, v, sA) = Successor(logB, r, v, sB)
             /\ Predecessor(logA, r, v, snap) = Predecessor(logB, r, v, snap)
             /\ Predecessor(logA, r, v, sA) = Predecessor(logB, r, v, sB)
  <2>1. /\ Boundaries(logA, r, snap) = Boundaries(logB, r, snap)
        /\ Boundaries(logA, r, sA) = Boundaries(logB, r, sB)
    BY Zenon
  <2>2. /\ Successor(logA, r, v, snap) = Successor(logB, r, v, snap)
        /\ Predecessor(logA, r, v, snap) = Predecessor(logB, r, v, snap)
    BY <2>1, Zenon DEF Successor, Predecessor
  <2>3. /\ Successor(logA, r, v, sA) = Successor(logB, r, v, sB)
        /\ Predecessor(logA, r, v, sA) = Predecessor(logB, r, v, sB)
    BY <2>1, Zenon DEF Successor, Predecessor
  <2> QED
    BY <2>2, <2>3, Zenon
<1>2. \A r \in Footprint(t) : \A v :
        /\ ReadIdentity(logA, r, v, snap) = ReadIdentity(logB, r, v, snap)
        /\ ReadIdentity(logA, r, v, sA) = ReadIdentity(logB, r, v, sB)
  BY <1>1, Zenon DEF ReadIdentity
<1>3. SnapshotWriteConflict(logA, t, snap, sA) <=> SnapshotWriteConflict(logB, t, snap, sB)
  BY <1>1, FootprintFacts, Zenon DEF SnapshotWriteConflict
<1>4. StrictReadConflict(logA, t, snap, sA) <=> StrictReadConflict(logB, t, snap, sB)
  BY <1>1, <1>2, FootprintFacts, Zenon DEF StrictReadConflict
<1> QED
  BY <1>3, <1>4, Zenon DEF DependenciesValid

\* The same, from the commits that write the footprint.
LEMMA SameWriters ==
  ASSUME NEW logA, NEW logB, NEW t, NEW snap, NEW sA, NEW sB,
         \A r \in Footprint(t) :
           /\ Writers(logA, r, 1, snap) = Writers(logB, r, 1, snap)
           /\ Writers(logA, r, 1, sA) = Writers(logB, r, 1, sB)
           /\ Writers(logA, r, snap + 1, sA) = Writers(logB, r, snap + 1, sB)
  PROVE  DependenciesValid(logA, t, snap, sA) <=> DependenciesValid(logB, t, snap, sB)
<1>1. ASSUME NEW r \in Footprint(t)
      PROVE  /\ Boundaries(logA, r, snap) = Boundaries(logB, r, snap)
             /\ Boundaries(logA, r, sA) = Boundaries(logB, r, sB)
             /\ \A b : WrittenSince(logA, <<r, b>>, snap, sA) <=>
                       WrittenSince(logB, <<r, b>>, snap, sB)
  <2>1. /\ Writers(logA, r, 1, snap) = Writers(logB, r, 1, snap)
        /\ Writers(logA, r, 1, sA) = Writers(logB, r, 1, sB)
        /\ Writers(logA, r, snap + 1, sA) = Writers(logB, r, snap + 1, sB)
    BY Zenon
  <2>2. Boundaries(logA, r, snap) = Boundaries(logB, r, snap)
    BY <2>1, BoundariesOfWriters, Zenon
  <2>3. Boundaries(logA, r, sA) = Boundaries(logB, r, sB)
    BY <2>1, BoundariesOfWriters, Zenon
  <2>4. \A b : WrittenSince(logA, <<r, b>>, snap, sA) <=>
               WrittenSince(logB, <<r, b>>, snap, sB)
    BY <2>1, SameWritten, Zenon
  <2> QED
    BY <2>2, <2>3, <2>4, Zenon
<1> QED
  BY <1>1, SameValidity, Zenon

\* A transaction is valid while nobody writes into its footprint after its
\* snapshot.
LEMMA UntouchedIsValid ==
  ASSUME NEW log \in [Commit -> Nat], NEW t, NEW snap \in Nat, NEW s \in Nat, snap <= s,
         \A c \in Commit : log[c] > snap => Footprint(t) \cap WriteIdentities(c) = {}
  PROVE  DependenciesValid(log, t, snap, s)
<1>1. ASSUME NEW r \in Footprint(t)
      PROVE  /\ Boundaries(log, r, s) = Boundaries(log, r, snap)
             /\ \A b : ~WrittenSince(log, <<r, b>>, snap, s)
  <2>1. \A c \in Commit : r \in WriteIdentities(c) => ~(log[c] > snap)
    BY Zenon
  <2>2. Writers(log, r, snap + 1, s) = {}
    BY <2>1 DEF Writers, Within
  <2>3. Writers(log, r, 1, s) = Writers(log, r, 1, snap)
    <3>1. \A c \in Commit : r \in WriteIdentities(c) => (log[c] <= s <=> log[c] <= snap)
      BY <2>1
    <3> QED
      BY <3>1, Zenon DEF Writers, Within
  <2>4. Boundaries(log, r, s) = Boundaries(log, r, snap)
    BY <2>3, BoundariesOfWriters, Zenon
  <2>5. \A b : ~WrittenSince(log, <<r, b>>, snap, s)
    BY <2>2, WritersDecide, Zenon
  <2> QED
    BY <2>4, <2>5, Zenon
<1>2. ~SnapshotWriteConflict(log, t, snap, s)
  BY <1>1, FootprintFacts, Zenon DEF SnapshotWriteConflict
<1>3. \A r \in Footprint(t) : \A v : ReadIdentity(log, r, v, snap) = ReadIdentity(log, r, v, s)
  BY <1>1, Zenon DEF ReadIdentity, Predecessor, Successor
<1>4. ~StrictReadConflict(log, t, snap, s)
  BY <1>1, <1>3, FootprintFacts, Zenon DEF StrictReadConflict
<1> QED
  BY <1>2, <1>4, Zenon DEF DependenciesValid

\* A valid transaction writes nothing that was written after its snapshot.
LEMMA ValidWrites ==
  ASSUME NEW log \in [Commit -> Nat], NEW t \in Txn, NEW snap \in Int, NEW s \in Nat,
         NEW c \in Commit, log[c] # 0, snap < log[c], log[c] <= s,
         DependenciesValid(log, t, snap, s)
  PROVE  Writes[t] \cap Writes[c] = {}
<1> SUFFICES ASSUME NEW f \in Writes[t], f \in Writes[c]
             PROVE  FALSE
  BY Zenon
<1> DEFINE r == f[1]
           v == f[2]
<1>1. f = <<r, v>> /\ v \in ValidTime /\ v \in Nat
  <2>1. f \in Identity \X ValidTime
    BY FactAssumption, Zenon DEF Fact
  <2>2. PICK i \in Identity, w \in ValidTime : f = <<i, w>>
    BY <2>1
  <2>3. f[1] = i /\ f[2] = w
    BY <2>2, Zenon
  <2>4. w \in Nat
    BY FactAssumption, Zenon
  <2> QED
    BY <2>2, <2>3, <2>4, Zenon
<1>2. c \in Within(log, 1, s) /\ c \in Within(log, snap + 1, s)
  BY DEF Within
<1> HIDE DEF r, v
<1>3. v \in Boundaries(log, r, s)
  BY <1>1, <1>2, Zenon DEF Boundaries
<1>4. WrittenSince(log, <<r, v>>, snap, s)
  BY <1>1, <1>2, Zenon DEF WrittenSince
<1>5. ~(v < v) /\ \A to \in Successor(log, r, v, snap) : v < to
  BY <1>1, FactAssumption DEF Successor, Boundaries
<1>6. SnapshotWriteConflict(log, t, snap, s)
  BY <1>3, <1>4, <1>5, Zenon DEF SnapshotWriteConflict, r, v
<1> QED
  BY <1>6, Zenon DEF DependenciesValid

\* The boundary an exact read at v takes its version from.
Effective(log, r, v, s) ==
  IF v \in Boundaries(log, r, s) THEN {v} ELSE Predecessor(log, r, v, s)

\* The last writers of <<r, b>> up to s.
LastWriters(log, r, b, s) ==
  {d \in Within(log, 1, s) : <<r, b>> \in Writes[d] /\ ~WrittenSince(log, <<r, b>>, log[d], s)}

LEMMA EffectiveFacts ==
  ASSUME NEW log, NEW r, NEW v \in ValidTime, NEW s
  PROVE  EffectiveVersion(log, r, v, s) =
           UNION {{<<b, c>> : c \in LastWriters(log, r, b, s)} : b \in Effective(log, r, v, s)}
<1>1. Boundaries(log, r, s) \subseteq Nat /\ v \in Nat
  BY FactAssumption, Zenon DEF Boundaries
<1> DEFINE Last == {e \in Boundaries(log, r, s) :
                      e <= v /\ \A g \in Boundaries(log, r, s) : g <= v => g <= e}
<1>2. Last = Effective(log, r, v, s)
  <2>1. CASE v \in Boundaries(log, r, s)
    BY <1>1, <2>1 DEF Effective
  <2>2. CASE v \notin Boundaries(log, r, s)
    <3>1. \A e \in Boundaries(log, r, s) : e <= v <=> e < v
      BY <1>1, <2>2
    <3> QED
      BY <2>2, <3>1, Zenon DEF Effective, Predecessor
  <2> QED
    BY <2>1, <2>2, Zenon
<1> QED
  BY <1>2, Zenon DEF EffectiveVersion, LastWriters

\* An exact read of a valid transaction returns at s what it returned in the
\* snapshot.
LEMMA ValidReads ==
  ASSUME NEW log \in [Commit -> Nat], NEW t \in Txn, NEW snap \in Int, NEW s \in Nat, snap <= s,
         DependenciesValid(log, t, snap, s), NEW f \in Reads[t]
  PROVE  EffectiveVersion(log, f[1], f[2], snap) = EffectiveVersion(log, f[1], f[2], s)
<1> DEFINE r == f[1]
           v == f[2]
<1>1. v \in ValidTime
  BY FactAssumption DEF Fact
<1>2. /\ ReadIdentity(log, r, v, snap) = ReadIdentity(log, r, v, s)
      /\ \A b \in Effective(log, r, v, snap) : ~WrittenSince(log, <<r, b>>, snap, s)
  BY Zenon DEF DependenciesValid, StrictReadConflict, Effective
<1> HIDE DEF r, v
<1>3. /\ (v \in Boundaries(log, r, snap)) <=> (v \in Boundaries(log, r, s))
      /\ Predecessor(log, r, v, snap) = Predecessor(log, r, v, s)
  BY <1>2, Zenon DEF ReadIdentity
<1>4. Effective(log, r, v, snap) = Effective(log, r, v, s)
  BY <1>3, Zenon DEF Effective
<1>5. ASSUME NEW b \in Effective(log, r, v, snap)
      PROVE  LastWriters(log, r, b, snap) = LastWriters(log, r, b, s)
  <2>1. \A c \in Commit : <<r, b>> \in Writes[c] /\ log[c] # 0 =>
          ~(snap < log[c] /\ log[c] <= s)
    <3> SUFFICES ASSUME NEW c \in Commit, <<r, b>> \in Writes[c], log[c] # 0,
                        snap < log[c], log[c] <= s
                 PROVE  FALSE
      BY Zenon
    <3>1. ~WrittenSince(log, <<r, b>>, snap, s)
      BY <1>2, <1>5, Zenon
    <3>2. c \notin Within(log, snap + 1, s)
      BY <3>1, Zenon DEF WrittenSince
    <3> QED
      BY <3>2 DEF Within
  <2>2. \A c \in Commit, lo \in Nat : <<r, b>> \in Writes[c] =>
          (c \in Within(log, lo, snap) <=> c \in Within(log, lo, s))
    BY <2>1 DEF Within
  <2>3. \A d \in Commit : WrittenSince(log, <<r, b>>, log[d], snap) <=>
                          WrittenSince(log, <<r, b>>, log[d], s)
    <3> TAKE d \in Commit
    <3>1. log[d] + 1 \in Nat
      OBVIOUS
    <3>2. Within(log, log[d] + 1, snap) \subseteq Commit /\ Within(log, log[d] + 1, s) \subseteq Commit
      BY Zenon DEF Within
    <3> QED
      BY <2>2, <3>1, <3>2, Zenon DEF WrittenSince
  <2>4. Within(log, 1, snap) \subseteq Commit /\ Within(log, 1, s) \subseteq Commit /\ 1 \in Nat
    BY Zenon DEF Within
  <2> QED
    BY <2>2, <2>3, <2>4, Zenon DEF LastWriters
<1> DEFINE Old(b) == {<<b, c>> : c \in LastWriters(log, r, b, snap)}
           New(b) == {<<b, c>> : c \in LastWriters(log, r, b, s)}
<1>6. \A b \in Effective(log, r, v, snap) : Old(b) = New(b)
  BY <1>5, Zenon
<1>7. /\ EffectiveVersion(log, r, v, snap) = UNION {Old(b) : b \in Effective(log, r, v, snap)}
      /\ EffectiveVersion(log, r, v, s) = UNION {New(b) : b \in Effective(log, r, v, snap)}
  <2>1. v \in ValidTime
    BY <1>1, Zenon DEF v
  <2>2. EffectiveVersion(log, r, v, snap) = UNION {Old(b) : b \in Effective(log, r, v, snap)}
    BY <2>1, EffectiveFacts, Zenon
  <2>3. EffectiveVersion(log, r, v, s) = UNION {New(b) : b \in Effective(log, r, v, s)}
    BY <2>1, EffectiveFacts, Zenon
  <2> QED
    BY <1>4, <2>2, <2>3, Zenon
<1> HIDE DEF Old, New
<1>8. {Old(b) : b \in Effective(log, r, v, snap)} = {New(b) : b \in Effective(log, r, v, snap)}
  BY <1>6, Zenon
<1> QED
  BY <1>7, <1>8, Zenon DEF r, v

-----------------------------------------------------------------------------
(* The predictions *)

\* A step that opens no epoch and decides no slot; it may drop the slot.
LEMMA PredictingKept ==
  ASSUME Predicting,
         UNCHANGED <<active_pending_version_overlay, active_epoch_generation,
                     active_epoch_base_visible_seq, requests, predecided_epoch>>,
         UNCHANGED <<preflight_pc, captured>> \/ preflight_pc' = "wait",
         \/ next_epoch_slot' = next_epoch_slot /\ (pc' = pc \/ pc' \notin {"collect", "open"})
         \/ next_epoch_slot' = EmptySlot,
         pc' \in ActiveEpoch <=> pc \in ActiveEpoch
  PROVE  Predicting'
<1>1. EmptySlot.eligible = FALSE
  BY Zenon DEF EmptySlot
<1>2. Independent(requests)'
  BY Zenon DEF Predicting, Independent
<1>3. (predecided_epoch # NoEpoch => \A t \in Range(requests) : Blind(t))'
  BY Zenon DEF Predicting, Blind
<1>4. CASE next_epoch_slot' = EmptySlot
  BY <1>1, <1>2, <1>3, <1>4, Zenon DEF Predicting
<1>5. CASE next_epoch_slot' = next_epoch_slot /\ (pc' = pc \/ pc' \notin {"collect", "open"})
  <2>1. next_epoch_slot.eligible => Independent(next_epoch_slot.requests)'
    BY <1>5, Zenon DEF Predicting, Independent
  <2>2. next_epoch_slot.eligible =>
          \A t \in Range(next_epoch_slot.requests) :
            Blind(t) /\ (pc' \in ActiveEpoch => \A u \in Range(requests) : Apart(t, u))
    BY Zenon DEF Predicting
  <2>3. (next_epoch_slot.eligible =>
          /\ pc \notin {"collect", "open"}
          /\ Independent(next_epoch_slot.requests)
          /\ \A t \in Range(next_epoch_slot.requests) :
               /\ Blind(t)
               /\ pc \in ActiveEpoch => \A u \in Range(requests) : Apart(t, u))'
    BY <1>5, <2>1, <2>2, Zenon DEF Predicting, Blind, Apart
  <2> QED
    BY <1>2, <1>3, <2>3, Zenon DEF Predicting
<1> QED
  BY <1>4, <1>5, Zenon

\* Footprints that do not conflict are apart, in both directions.
LEMMA ApartFacts ==
  \A t, u : ~FootprintsConflict(t, u) => Apart(t, u) /\ Apart(u, t)
BY Zenon DEF FootprintsConflict, Apart

\* Every step keeps the slot independent of the epoch that is written, and the
\* epoch independent in itself.
LEMMA PredictingStep ==
  TypeOK /\ Counting /\ Predicting /\ [Next]_vars => Predicting'
<1> SUFFICES ASSUME TypeOK, Counting, Predicting, [Next]_vars
             PROVE  Predicting'
  BY Zenon
<1>0. /\ append_commit_requests \in Seq(Txn) /\ requests \in Seq(Txn)
      /\ next_epoch_slot \in Slot /\ pc \in WorkerPc
      /\ active_epoch_generation \in Nat /\ active_epoch_base_visible_seq \in Nat
      /\ EmptySlot.eligible = FALSE
  BY Zenon DEF TypeOK, QueueTypeOK, WorkerTypeOK, EpochTypeOK, EmptySlot
<1>1. ASSUME NEW t \in Txn, BeginTransaction(t)
      PROVE  Predicting'
  <2>1. UNCHANGED <<active_pending_version_overlay, active_epoch_generation,
                    active_epoch_base_visible_seq, requests, predecided_epoch, pc,
                    preflight_pc, captured, next_epoch_slot>>
    BY <1>1, Zenon DEF BeginTransaction, Enqueue, workerVars, preflightVars, epochVars
  <2> QED
    BY <2>1, PredictingKept, Zenon
<1>2. ASSUME NEW t \in Txn, SubmitSyncCommit(t)
      PROVE  Predicting'
  <2>1. UNCHANGED <<active_pending_version_overlay, active_epoch_generation,
                    active_epoch_base_visible_seq, requests, predecided_epoch, pc,
                    preflight_pc, captured, next_epoch_slot>>
    BY <1>2, Zenon DEF SubmitSyncCommit, Enqueue, workerVars, preflightVars, epochVars
  <2> QED
    BY <2>1, PredictingKept, Zenon
<1>3. ASSUME NEW t \in Txn, SubmitAsyncCommit(t)
      PROVE  Predicting'
  <2>1. UNCHANGED <<active_pending_version_overlay, active_epoch_generation,
                    active_epoch_base_visible_seq, requests, predecided_epoch, pc,
                    preflight_pc, captured, next_epoch_slot>>
    BY <1>3, Zenon DEF SubmitAsyncCommit, Enqueue, workerVars, preflightVars, epochVars
  <2> QED
    BY <2>1, PredictingKept, Zenon
<1>4. ASSUME NEW t \in Txn, Reject(t)
      PROVE  Predicting'
  <2>1. UNCHANGED <<active_pending_version_overlay, active_epoch_generation,
                    active_epoch_base_visible_seq, requests, predecided_epoch, pc,
                    preflight_pc, captured, next_epoch_slot>>
    BY <1>4, Zenon DEF Reject, Enqueue, workerVars, preflightVars, epochVars
  <2> QED
    BY <2>1, PredictingKept, Zenon
<1>5. ASSUME NEW t \in Txn, SubmitAsyncCommitToAppendPipeline(t)
      PROVE  Predicting'
  <2>1. UNCHANGED <<active_pending_version_overlay, active_epoch_generation,
                    active_epoch_base_visible_seq, requests, predecided_epoch, pc,
                    preflight_pc, captured, next_epoch_slot>>
    BY <1>5, Zenon DEF SubmitAsyncCommitToAppendPipeline, Enqueue, workerVars, preflightVars, epochVars
  <2> QED
    BY <2>1, PredictingKept, Zenon
<1>6. ASSUME NEW t \in Txn, HandoffFails(t)
      PROVE  Predicting'
  <2>1. UNCHANGED <<active_pending_version_overlay, active_epoch_generation,
                    active_epoch_base_visible_seq, requests, predecided_epoch, pc,
                    preflight_pc, captured, next_epoch_slot>>
    BY <1>6, Zenon DEF HandoffFails, Enqueue, workerVars, preflightVars, epochVars
  <2> QED
    BY <2>1, PredictingKept, Zenon
<1>7. ASSUME NEW t \in Txn, CancelQueuedAsyncCommit(t)
      PROVE  Predicting'
  <2>1. UNCHANGED <<active_pending_version_overlay, active_epoch_generation,
                    active_epoch_base_visible_seq, requests, predecided_epoch, pc,
                    preflight_pc, captured, next_epoch_slot>>
    BY <1>7, Zenon DEF CancelQueuedAsyncCommit, Enqueue, workerVars, preflightVars, epochVars
  <2> QED
    BY <2>1, PredictingKept, Zenon
<1>8. ASSUME NEW t \in Txn, RemoveCancelledRequest(t)
      PROVE  Predicting'
  <2>1. /\ UNCHANGED <<active_pending_version_overlay, active_epoch_generation,
                       active_epoch_base_visible_seq, requests, predecided_epoch, pc,
                       preflight_pc, captured>>
        /\ next_epoch_slot' = next_epoch_slot \/ next_epoch_slot' = EmptySlot
    BY <1>8, Zenon DEF RemoveCancelledRequest, workerVars, preflightVars
  <2> QED
    BY <2>1, PredictingKept, Zenon
<1>9. ASSUME NEW t \in Txn, ReturnAsyncCommit(t)
      PROVE  Predicting'
  <2>1. UNCHANGED <<active_pending_version_overlay, active_epoch_generation,
                    active_epoch_base_visible_seq, requests, predecided_epoch, pc,
                    preflight_pc, captured, next_epoch_slot>>
    BY <1>9, Zenon DEF ReturnAsyncCommit, Enqueue, workerVars, preflightVars, epochVars
  <2> QED
    BY <2>1, PredictingKept, Zenon
<1>10. CASE PromoteSlot
  <2>1. /\ UNCHANGED <<active_pending_version_overlay, active_epoch_generation,
                       active_epoch_base_visible_seq, preflight_pc, captured>>
        /\ next_epoch_slot.eligible /\ IsQueuePrefix(next_epoch_slot.requests)
        /\ next_epoch_slot' = EmptySlot /\ pc = "wait" /\ pc' = "open"
        /\ requests' = SubSeq(append_commit_requests, 1, Len(next_epoch_slot.requests))
    BY <1>10, Zenon DEF PromoteSlot, SlotIsQueued, Select, preflightVars
  <2>2. pc' \notin ActiveEpoch /\ pc \notin ActiveEpoch
    BY <2>1, Zenon DEF ActiveEpoch, InEpoch
  <2>3. requests' = next_epoch_slot.requests
    BY <2>1, Zenon DEF IsQueuePrefix
  <2>4. Independent(requests') /\ \A t \in Range(requests') : Blind(t)
    BY <2>1, <2>3, Zenon DEF Predicting
  <2> QED
    BY <1>0, <2>1, <2>2, <2>4, Zenon DEF Predicting, Independent, Blind
<1>11. CASE StartCollection
  <2>1. /\ UNCHANGED <<active_pending_version_overlay, active_epoch_generation,
                       active_epoch_base_visible_seq, requests, predecided_epoch,
                       preflight_pc, captured>>
        /\ next_epoch_slot' = EmptySlot /\ pc = "wait" /\ pc' = "collect"
    BY <1>11, Zenon DEF StartCollection, preflightVars
  <2>2. pc' \in ActiveEpoch <=> pc \in ActiveEpoch
    BY <2>1, Zenon DEF ActiveEpoch, InEpoch
  <2> QED
    BY <2>1, <2>2, PredictingKept, Zenon
<1>12. CASE CollectGroup
  <2>1. /\ UNCHANGED <<active_pending_version_overlay, active_epoch_generation,
                       active_epoch_base_visible_seq, preflight_pc, captured, next_epoch_slot>>
        /\ predecided_epoch' = NoEpoch /\ pc = "collect" /\ pc' = "open"
        /\ Independent(requests')
    BY <1>12, Zenon DEF CollectGroup, Select, preflightVars
  <2>2. pc' \notin ActiveEpoch /\ pc \notin ActiveEpoch
    BY <2>1, Zenon DEF ActiveEpoch, InEpoch
  <2>3. ~next_epoch_slot.eligible
    BY <2>1, Zenon DEF Predicting
  <2> QED
    BY <2>1, <2>2, <2>3, Zenon DEF Predicting, Independent
<1>13. CASE OpenEpoch
  <2>1. /\ active_pending_version_overlay' = TRUE
        /\ active_epoch_generation' = active_epoch_generation + 1
        /\ pc = "open" /\ pc' = "bind"
        /\ UNCHANGED <<requests, predecided_epoch, preflight_pc, captured, next_epoch_slot>>
    BY <1>13, Zenon DEF OpenEpoch, preflightVars
  <2>2. pc' \in ActiveEpoch /\ ~next_epoch_slot.eligible
    BY <2>1, Zenon DEF ActiveEpoch, InEpoch, Predicting
  <2>3. (preflight_pc = "planning" =>
           /\ captured.generation <= active_epoch_generation
           /\ captured.generation = active_epoch_generation =>
                captured.base = active_epoch_base_visible_seq)'
    <3>1. preflight_pc = "planning" => captured.generation \in Nat
      BY Zenon DEF TypeOK, PreflightTypeOK
    <3> QED
      BY <1>0, <2>1, <3>1 DEF Predicting
  <2> QED
    BY <2>1, <2>2, <2>3, Zenon DEF Predicting, Independent, Blind
<1>14. CASE BindEpoch
  <2>1. /\ UNCHANGED <<active_pending_version_overlay, active_epoch_generation,
                       active_epoch_base_visible_seq, requests, predecided_epoch,
                       preflight_pc, captured, next_epoch_slot>>
        /\ pc \in {"bind"} /\ pc' \in {"commit", "validate", "write"}
    BY <1>14, Zenon DEF BindEpoch, preflightVars, epochVars
  <2>2. (pc' \in ActiveEpoch <=> pc \in ActiveEpoch) /\ pc' \notin {"collect", "open"}
    BY <2>1, Zenon DEF ActiveEpoch, InEpoch
  <2> QED
    BY <2>1, <2>2, PredictingKept, Zenon
<1>15. CASE ValidatePredictedGroup
  <2>1. /\ UNCHANGED <<active_pending_version_overlay, active_epoch_generation,
                       active_epoch_base_visible_seq, requests, predecided_epoch,
                       preflight_pc, captured, next_epoch_slot>>
        /\ pc \in {"validate"} /\ pc' \in {"commit", "write"}
    BY <1>15, Zenon DEF ValidatePredictedGroup, preflightVars, epochVars
  <2>2. (pc' \in ActiveEpoch <=> pc \in ActiveEpoch) /\ pc' \notin {"collect", "open"}
    BY <2>1, Zenon DEF ActiveEpoch, InEpoch
  <2> QED
    BY <2>1, <2>2, PredictingKept, Zenon
<1>16. CASE WriteDecidedGroup
  <2>1. /\ UNCHANGED <<active_pending_version_overlay, active_epoch_generation,
                       active_epoch_base_visible_seq, requests, predecided_epoch,
                       preflight_pc, captured, next_epoch_slot>>
        /\ pc \in {"write"} /\ pc' \in {"account", "commit", "sync"}
    BY <1>16, Zenon DEF WriteDecidedGroup, preflightVars, epochVars
  <2>2. (pc' \in ActiveEpoch <=> pc \in ActiveEpoch) /\ pc' \notin {"collect", "open"}
    BY <2>1, Zenon DEF ActiveEpoch, InEpoch
  <2> QED
    BY <2>1, <2>2, PredictingKept, Zenon
<1>17. CASE CommitGroup
  <2>1. /\ UNCHANGED <<active_pending_version_overlay, active_epoch_generation,
                       active_epoch_base_visible_seq, requests, predecided_epoch,
                       preflight_pc, captured, next_epoch_slot>>
        /\ pc \in {"commit"} /\ pc' \in {"account", "sync"}
    BY <1>17, Zenon DEF CommitGroup, preflightVars, epochVars
  <2>2. (pc' \in ActiveEpoch <=> pc \in ActiveEpoch) /\ pc' \notin {"collect", "open"}
    BY <2>1, Zenon DEF ActiveEpoch, InEpoch
  <2> QED
    BY <2>1, <2>2, PredictingKept, Zenon
<1>18. CASE WalDurable
  <2>1. /\ UNCHANGED <<active_pending_version_overlay, active_epoch_generation,
                       active_epoch_base_visible_seq, requests, predecided_epoch,
                       preflight_pc, captured, next_epoch_slot>>
        /\ pc \in {"sync"} /\ pc' \in {"publish"}
    BY <1>18, Zenon DEF WalDurable, preflightVars, epochVars
  <2>2. (pc' \in ActiveEpoch <=> pc \in ActiveEpoch) /\ pc' \notin {"collect", "open"}
    BY <2>1, Zenon DEF ActiveEpoch, InEpoch
  <2> QED
    BY <2>1, <2>2, PredictingKept, Zenon
<1>19. CASE WriteFails
  <2>1. /\ UNCHANGED <<active_pending_version_overlay, active_epoch_generation,
                       active_epoch_base_visible_seq, requests, predecided_epoch,
                       preflight_pc, captured, next_epoch_slot>>
        /\ pc \in {"sync", "publish"} /\ pc' \in {"account"}
    BY <1>19, Zenon DEF WriteFails, preflightVars, epochVars
  <2>2. (pc' \in ActiveEpoch <=> pc \in ActiveEpoch) /\ pc' \notin {"collect", "open"}
    BY <2>1, Zenon DEF ActiveEpoch, InEpoch
  <2> QED
    BY <2>1, <2>2, PredictingKept, Zenon
<1>20. CASE PublishVisible
  <2>1. /\ UNCHANGED <<active_pending_version_overlay, active_epoch_generation,
                       active_epoch_base_visible_seq, requests, predecided_epoch,
                       preflight_pc, captured, next_epoch_slot>>
        /\ pc \in {"publish"} /\ pc' \in {"account"}
    BY <1>20, Zenon DEF PublishVisible, preflightVars, epochVars
  <2>2. (pc' \in ActiveEpoch <=> pc \in ActiveEpoch) /\ pc' \notin {"collect", "open"}
    BY <2>1, Zenon DEF ActiveEpoch, InEpoch
  <2> QED
    BY <2>1, <2>2, PredictingKept, Zenon
<1>21. CASE AccountEpoch
  <2>1. /\ active_pending_version_overlay' = FALSE
        /\ pc = "account" /\ pc' = "complete"
        /\ UNCHANGED <<active_epoch_generation, active_epoch_base_visible_seq, requests,
                       predecided_epoch, preflight_pc, captured>>
        /\ next_epoch_slot' = next_epoch_slot \/ next_epoch_slot' = EmptySlot
    BY <1>21, Zenon DEF AccountEpoch, preflightVars
  <2>2. pc' \notin ActiveEpoch /\ pc' \notin {"collect", "open"}
    BY <2>1, Zenon DEF ActiveEpoch, InEpoch
  <2>3. (next_epoch_slot.eligible =>
           /\ Independent(next_epoch_slot.requests)
           /\ \A t \in Range(next_epoch_slot.requests) : Blind(t))'
    BY <1>0, <2>1, Zenon DEF Predicting, Independent, Blind
  <2> QED
    BY <2>1, <2>2, <2>3, Zenon DEF Predicting, Independent, Blind
<1>22. CASE CompleteEpoch
  <2>1. /\ UNCHANGED <<active_pending_version_overlay, active_epoch_generation,
                       active_epoch_base_visible_seq, requests, predecided_epoch,
                       preflight_pc, captured, next_epoch_slot>>
        /\ pc \in {"complete"} /\ pc' \in {"release"}
    BY <1>22, Zenon DEF CompleteEpoch, preflightVars, epochVars
  <2>2. (pc' \in ActiveEpoch <=> pc \in ActiveEpoch) /\ pc' \notin {"collect", "open"}
    BY <2>1, Zenon DEF ActiveEpoch, InEpoch
  <2> QED
    BY <2>1, <2>2, PredictingKept, Zenon
<1>23. CASE ReleaseEpoch
  <2>1. /\ UNCHANGED <<active_pending_version_overlay, active_epoch_generation,
                       active_epoch_base_visible_seq, preflight_pc, captured, next_epoch_slot>>
        /\ predecided_epoch' = NoEpoch /\ pc = "release" /\ pc' = "wait"
        /\ requests' = <<>>
    BY <1>23, Zenon DEF ReleaseEpoch, preflightVars
  <2>2. pc' \notin ActiveEpoch /\ pc \notin ActiveEpoch
    BY <2>1, Zenon DEF ActiveEpoch, InEpoch
  <2>3. Independent(requests')
    BY <2>1 DEF Independent
  <2> QED
    BY <2>1, <2>2, <2>3, Zenon DEF Predicting, Independent, Blind
<1>24. ASSUME NEW p \in Prepared, FinalizePreparedCommit(p)
      PROVE  Predicting'
  <2>1. UNCHANGED <<active_pending_version_overlay, active_epoch_generation,
                    active_epoch_base_visible_seq, requests, predecided_epoch, pc,
                    preflight_pc, captured, next_epoch_slot>>
    BY <1>24, Zenon DEF FinalizePreparedCommit, Enqueue, workerVars, preflightVars, epochVars
  <2> QED
    BY <2>1, PredictingKept, Zenon
<1>25. CASE PreflightCapture
  <2>1. /\ UNCHANGED <<active_pending_version_overlay, active_epoch_generation,
                       active_epoch_base_visible_seq, requests, predecided_epoch, pc,
                       next_epoch_slot>>
        /\ captured' = [generation |-> active_epoch_generation,
                        base |-> active_epoch_base_visible_seq,
                        count |-> active_epoch_committed_count_hint]
    BY <1>25, Zenon DEF PreflightCapture, workerVars
  <2>2. /\ captured'.generation = active_epoch_generation
        /\ captured'.base = active_epoch_base_visible_seq
    BY <2>1, Zenon
  <2>3. (preflight_pc = "planning" =>
          /\ captured.generation <= active_epoch_generation
          /\ captured.generation = active_epoch_generation =>
               captured.base = active_epoch_base_visible_seq)'
    BY <1>0, <2>1, <2>2
  <2>4. (Independent(requests) => Independent(requests)') /\
        (Independent(next_epoch_slot.requests) => Independent(next_epoch_slot.requests)')
    BY <2>1, Zenon DEF Independent
  <2> QED
    BY <2>1, <2>3, <2>4, Zenon DEF Predicting
<1>26. CASE PreflightFinish
  <2>1. /\ UNCHANGED <<active_pending_version_overlay, active_epoch_generation,
                       active_epoch_base_visible_seq, requests, predecided_epoch, pc>>
        /\ preflight_pc' = "wait"
    BY <1>26, Zenon DEF PreflightFinish, workerVars
  <2>2. CASE next_epoch_slot' = next_epoch_slot
    BY <2>1, <2>2, PredictingKept, Zenon
  <2>3. CASE next_epoch_slot' # next_epoch_slot
    <3>1. PICK n \in 0..MaxBatch :
            /\ EpochIsCaptured /\ Plannable(SubSeq(candidates, 1, n))
            /\ next_epoch_slot' = DecidedSlot(SubSeq(candidates, 1, n))
      BY <1>26, <2>3, Zenon DEF PreflightFinish
    <3> DEFINE plan == SubSeq(candidates, 1, n)
    <3>2. next_epoch_slot'.requests = plan
      BY <3>1, Zenon DEF DecidedSlot
    <3>3. pc \in ActiveEpoch
      BY <3>1, Zenon DEF EpochIsCaptured, Predicting
    <3>4. pc' \notin {"collect", "open"} /\ pc' \in ActiveEpoch
      BY <2>1, <3>3, Zenon DEF ActiveEpoch, InEpoch
    <3> HIDE DEF plan
    <3>5. ASSUME NEW t \in Range(plan)
          PROVE  Blind(t) /\ \A u \in Range(requests) : Apart(t, u)
      BY <3>1, ApartFacts, Zenon
      DEF plan, Plannable, CanPredictIndependentAppend, CanUseAppendFastPath, Blind
    <3>6. Independent(plan)
      BY <3>1, Zenon DEF plan, Plannable
    <3> QED
      BY <2>1, <3>2, <3>3, <3>4, <3>5, <3>6, Zenon DEF Predicting, Independent, Blind, Apart
  <2> QED
    BY <2>2, <2>3, Zenon
<1>27. CASE UNCHANGED vars
  <2>1. UNCHANGED <<active_pending_version_overlay, active_epoch_generation,
                    active_epoch_base_visible_seq, requests, predecided_epoch, pc,
                    preflight_pc, captured, next_epoch_slot>>
    BY <1>27, Zenon DEF vars, workerVars, preflightVars, epochVars
  <2> QED
    BY <2>1, PredictingKept, Zenon
<1> QED
  BY <1>1, <1>2, <1>3, <1>4, <1>5, <1>6, <1>7, <1>8, <1>9, <1>10, <1>11,
       <1>12, <1>13, <1>14, <1>15, <1>16, <1>17, <1>18, <1>19, <1>20, <1>21,
       <1>22, <1>23, <1>24, <1>25, <1>26, <1>27, Zenon
  DEF Next, AppendWorker, Executor, Idle

-----------------------------------------------------------------------------
(* The log is serial *)

\* The transactions of a group.
LEMMA GroupFacts ==
  ASSUME NEW q \in Seq(Txn)
  PROVE  /\ Range(q) \subseteq Txn
         /\ \A i \in 1..Len(q) : q[i] \in Range(q) /\ q[i] \in Txn
         /\ \A x \in Range(q) : \E i \in 1..Len(q) : q[i] = x
BY DEF Range

\* A log that grows behind s, up to s2 only by commits that are apart from t,
\* does not change the validity of t.
LEMMA GrowthKeepsValidity ==
  ASSUME NEW log \in [Commit -> Nat], NEW new \in [Commit -> Nat], NEW t,
         NEW snap \in Int, NEW s \in Nat, NEW s2 \in Nat, snap <= s, s <= s2,
         \A c \in Commit :
           \/ new[c] = log[c] /\ (log[c] <= s \/ log[c] > s2)
           \/ /\ log[c] = 0 /\ new[c] > s
              /\ new[c] > s2 \/ Footprint(t) \cap WriteIdentities(c) = {}
  PROVE  DependenciesValid(log, t, snap, s) <=> DependenciesValid(new, t, snap, s2)
<1>1. ASSUME NEW r \in Footprint(t)
      PROVE  /\ Writers(log, r, 1, snap) = Writers(new, r, 1, snap)
             /\ Writers(log, r, 1, s) = Writers(new, r, 1, s2)
             /\ Writers(log, r, snap + 1, s) = Writers(new, r, snap + 1, s2)
  <2>1. ASSUME NEW c \in Commit, r \in WriteIdentities(c)
        PROVE  \/ new[c] = log[c] /\ (log[c] <= s \/ log[c] > s2)
               \/ log[c] = 0 /\ new[c] > s /\ new[c] > s2
    BY <2>1, Zenon
  <2>2. ASSUME NEW c \in Commit, r \in WriteIdentities(c)
        PROVE  /\ c \in Within(log, 1, snap) <=> c \in Within(new, 1, snap)
               /\ c \in Within(log, 1, s) <=> c \in Within(new, 1, s2)
               /\ c \in Within(log, snap + 1, s) <=> c \in Within(new, snap + 1, s2)
    BY <2>1, <2>2 DEF Within
  <2>3. \A lo, hi : Within(log, lo, hi) \subseteq Commit /\ Within(new, lo, hi) \subseteq Commit
    BY Zenon DEF Within
  <2> QED
    BY <2>2, <2>3, Zenon DEF Writers
<1> QED
  BY <1>1, SameWriters, Zenon

\* Where a commit that is in the log stands, it stays valid when the log grows
\* behind n.
LEMMA SerialKept ==
  ASSUME TypeOK, TypeOK', NEW n \in Nat, UNCHANGED snapshot,
         \A t \in Txn : commit_seq[t] # 0 => snapshot[t] < commit_seq[t],
         \A c \in Commit : commit_seq[c] <= n,
         \A c \in Commit : \/ commit_seq'[c] = commit_seq[c]
                           \/ commit_seq[c] = 0 /\ commit_seq'[c] > n,
         NEW t \in Txn, commit_seq[t] # 0,
         DependenciesValid(commit_seq, t, snapshot[t], commit_seq[t] - 1)
  PROVE  /\ commit_seq'[t] = commit_seq[t]
         /\ DependenciesValid(commit_seq', t, snapshot'[t], commit_seq'[t] - 1)
<1>1. /\ commit_seq \in [Commit -> Nat] /\ commit_seq' \in [Commit -> Nat]
      /\ snapshot[t] \in Int /\ t \in Commit
  BY DEF TypeOK, StoreTypeOK, Commit, NoSnapshot
<1>2. commit_seq'[t] = commit_seq[t]
  BY <1>1, Zenon
<1> DEFINE s == commit_seq[t] - 1
<1>3. s \in Nat /\ snapshot[t] <= s /\ s <= n
  BY <1>1
<1> HIDE DEF s
<1>4. \A c \in Commit :
        \/ commit_seq'[c] = commit_seq[c] /\ (commit_seq[c] <= s \/ commit_seq[c] > s)
        \/ /\ commit_seq[c] = 0 /\ commit_seq'[c] > s
           /\ commit_seq'[c] > s \/ Footprint(t) \cap WriteIdentities(c) = {}
  BY <1>1, <1>3, SMTT(30)
<1>5. s <= s
  BY <1>3
<1>6. DependenciesValid(commit_seq, t, snapshot[t], s)
  BY Zenon DEF s
<1>7. DependenciesValid(commit_seq', t, snapshot[t], s)
  BY <1>1, <1>3, <1>4, <1>5, <1>6, GrowthKeepsValidity, Zenon
<1> QED
  BY <1>2, <1>7, Zenon DEF s

\* A step that commits nothing: what it has to leave alone for each part of Serial.
LEMMA SerialFrame ==
  ASSUME Serial, UNCHANGED <<snapshot, commit_seq>>,
         next_epoch_slot' = next_epoch_slot \/ next_epoch_slot' = EmptySlot,
         \/ pc' \notin ActiveEpoch \/ recovery_required'
         \/ /\ pc \in ActiveEpoch
            /\ UNCHANGED <<recovery_required, active_epoch_base_visible_seq, requests>>,
         \/ pc' \notin {"open", "bind", "write"} \/ predecided_epoch' = NoEpoch
         \/ /\ UNCHANGED <<predecided_epoch, promoted_requires_validation, requests, visible_seq>>
            /\ \/ pc' = pc
               \/ pc = "open" /\ pc' = "bind"
               \/ pc = "bind" /\ pc' = "write" /\ ~promoted_requires_validation,
         pc' # "sync" \/ (pc = "sync" /\ UNCHANGED <<requests, decision, visible_seq>>)
  PROVE  Serial'
<1>1. EpochAlone'
  BY Zenon DEF Serial, EpochAlone
<1>2. SlotApart'
  <2>1. EmptySlot.eligible = FALSE
    BY Zenon DEF EmptySlot
  <2> QED
    BY <2>1, Zenon DEF Serial, SlotApart, Apart
<1>3. PromotedValid'
  <2>1. ASSUME UNCHANGED visible_seq, NEW t, ValidNow(t)
        PROVE  ValidNow(t)'
    BY <2>1, Zenon DEF ValidNow
  <2> QED
    BY <2>1, Zenon DEF Serial, PromotedValid
<1>4. DecidedValid'
  BY Zenon DEF Serial, DecidedValid, ValidNow, Granted
<1>5. ReadsBelow' /\ SeriallyValid'
  BY Zenon DEF Serial, ReadsBelow, SeriallyValid
<1> QED
  BY <1>1, <1>2, <1>3, <1>4, <1>5, Zenon DEF Serial

\* A write to the log that is apart from the slot keeps it apart.
LEMMA SlotStaysApart ==
  ASSUME SlotApart, UNCHANGED <<snapshot, next_epoch_slot>>,
         next_epoch_slot.eligible =>
           \A t \in Range(next_epoch_slot.requests), c \in Commit :
             commit_seq'[c] = commit_seq[c] \/ Apart(t, c)
  PROVE  SlotApart'
<1> SUFFICES ASSUME next_epoch_slot.eligible, ~next_epoch_slot.requires_validation,
                    NEW t \in Range(next_epoch_slot.requests)
             PROVE  /\ snapshot[t] = next_epoch_slot.predecessor
                    /\ \A c \in Commit : commit_seq'[c] > snapshot[t] => Apart(t, c)
  BY Zenon DEF SlotApart, Apart
<1>1. /\ snapshot[t] = next_epoch_slot.predecessor
      /\ \A c \in Commit : commit_seq[c] > snapshot[t] => Apart(t, c)
  BY Zenon DEF SlotApart
<1> QED
  BY <1>1, Zenon

\* What a group writes is valid where it stands: the group is independent, so
\* its members do not see each other.
LEMMA WalSerial ==
  ASSUME TypeOK, TypeOK', Order, Numbering, Predicting, Serial, WalDurable,
         GroupWritten
  PROVE  Serial'
<1>1. /\ pc = "sync" /\ pc' = "publish"
      /\ UNCHANGED <<snapshot, visible_seq, recovery_required, active_epoch_base_visible_seq,
                     requests, decision, next_epoch_slot>>
  BY Zenon DEF WalDurable, epochVars
<1>2. ~recovery_required /\ Numbered /\ Filled(visible_seq)
  <2>1. visible_seq + 0 = visible_seq
    BY DEF TypeOK, StoreTypeOK
  <2> QED
    BY <1>1, <2>1, Zenon DEF Numbering, PublisherHeld
<1>3. /\ \A t \in Range(requests) : commit_seq'[t] = decision[t]
      /\ \A c \in Commit : \/ commit_seq'[c] = commit_seq[c]
                           \/ /\ c \in Range(requests) /\ commit_seq[c] = 0
                              /\ commit_seq'[c] = decision[c] /\ decision[c] # 0
                              /\ decision[c] > visible_seq
  BY Zenon DEF GroupWritten
<1>4. /\ requests \in Seq(Txn) /\ Range(requests) \subseteq Txn /\ Txn \subseteq Commit
      /\ \A t \in Range(requests) : \E i \in 1..Len(requests) : requests[i] = t
      /\ commit_seq \in [Commit -> Nat] /\ commit_seq' \in [Commit -> Nat]
      /\ visible_seq \in Nat /\ decision \in [Txn -> Nat]
      /\ \A t \in Txn : snapshot[t] \in Int /\ snapshot[t] <= visible_seq
  BY GroupFacts DEF TypeOK, StoreTypeOK, WorkerTypeOK, Commit, Numbering, NoSnapshot
<1>5. \A c \in Commit : commit_seq[c] <= visible_seq
  BY <1>2, Zenon DEF Filled
<1>6. EpochAlone'
  BY <1>1, <1>2, <1>3, <1>4, Zenon DEF Serial, EpochAlone, ActiveEpoch, InEpoch
<1>7. SlotApart'
  <2>1. next_epoch_slot.eligible =>
          \A t \in Range(next_epoch_slot.requests), c \in Range(requests) : Apart(t, c)
    BY <1>1, Zenon DEF Predicting, ActiveEpoch, InEpoch
  <2> QED
    BY <1>1, <1>3, <2>1, SlotStaysApart, Zenon DEF Serial
<1>8. PromotedValid' /\ DecidedValid'
  BY <1>1, Zenon DEF PromotedValid, DecidedValid
<1>9. ReadsBelow'
  <2> SUFFICES ASSUME NEW t \in Txn, commit_seq'[t] # 0 PROVE snapshot[t] < commit_seq'[t]
    BY <1>1, Zenon DEF ReadsBelow
  <2>1. CASE commit_seq'[t] = commit_seq[t]
    BY <2>1, Zenon DEF Serial, ReadsBelow
  <2>2. CASE commit_seq'[t] # commit_seq[t]
    <3>1. commit_seq'[t] > visible_seq
      BY <1>3, <1>4, <2>2, Zenon
    <3> QED
      BY <1>4, <3>1
  <2> QED
    BY <2>1, <2>2, Zenon
<1>10. SeriallyValid'
  <2> SUFFICES ASSUME NEW t \in Txn, commit_seq'[t] # 0
               PROVE  DependenciesValid(commit_seq', t, snapshot'[t], commit_seq'[t] - 1)
    BY Zenon DEF SeriallyValid
  <2>1. CASE commit_seq[t] # 0
    <3>1. DependenciesValid(commit_seq, t, snapshot[t], commit_seq[t] - 1)
      BY <2>1, Zenon DEF Serial, SeriallyValid
    <3>2. \A u \in Txn : commit_seq[u] # 0 => snapshot[u] < commit_seq[u]
      BY Zenon DEF Serial, ReadsBelow
    <3>3. \A c \in Commit : \/ commit_seq'[c] = commit_seq[c]
                            \/ commit_seq[c] = 0 /\ commit_seq'[c] > visible_seq
      BY <1>3, Zenon
    <3> QED
      BY <1>1, <1>4, <1>5, <2>1, <3>1, <3>2, <3>3, SerialKept, Zenon
  <2>2. CASE commit_seq[t] = 0
    <3>1. t \in Range(requests) /\ commit_seq'[t] = decision[t] /\ decision[t] > visible_seq
      BY <1>3, <1>4, <2>2, Zenon
    <3>2. PICK i \in 1..Len(requests) : requests[i] = t
      BY <1>4, <3>1, Zenon
    <3>3. ValidNow(t)
      BY <1>1, <2>2, <3>1, <3>2, Zenon DEF Serial, DecidedValid, Granted
    <3> DEFINE s2 == commit_seq'[t] - 1
    <3>4. s2 \in Nat /\ visible_seq <= s2
      <4>1. decision[t] \in Nat /\ visible_seq \in Nat
        BY <1>4, Zenon
      <4> QED
        BY <3>1, <4>1
    <3>5. ASSUME NEW c \in Commit, commit_seq'[c] # commit_seq[c], c # t
          PROVE  Footprint(t) \cap WriteIdentities(c) = {}
      <4>1. c \in Range(requests)
        BY <1>3, <3>5, Zenon
      <4>2. PICK j \in 1..Len(requests) : requests[j] = c
        BY <1>4, <4>1, Zenon
      <4>3. ~FootprintsConflict(requests[i], requests[j])
        BY <3>2, <3>5, <4>2, Zenon DEF Predicting, Independent
      <4> QED
        BY <3>2, <4>2, <4>3, ApartFacts, Zenon DEF Apart, Footprint
    <3>6. \A c \in Commit :
            \/ commit_seq'[c] = commit_seq[c] /\ (commit_seq[c] <= visible_seq \/ commit_seq[c] > s2)
            \/ /\ commit_seq[c] = 0 /\ commit_seq'[c] > visible_seq
               /\ commit_seq'[c] > s2 \/ Footprint(t) \cap WriteIdentities(c) = {}
      <4> SUFFICES ASSUME NEW c \in Commit, commit_seq'[c] # commit_seq[c]
                   PROVE  /\ commit_seq[c] = 0 /\ commit_seq'[c] > visible_seq
                          /\ commit_seq'[c] > s2 \/ Footprint(t) \cap WriteIdentities(c) = {}
        BY <1>5, Zenon
      <4>1. commit_seq[c] = 0 /\ commit_seq'[c] > visible_seq
        BY <1>3, Zenon
      <4>2. c = t => commit_seq'[c] > s2
        BY <1>4
      <4> QED
        BY <3>5, <4>1, <4>2, Zenon
    <3> HIDE DEF s2
    <3>7. DependenciesValid(commit_seq', t, snapshot[t], s2)
      <4>1. snapshot[t] \in Int /\ snapshot[t] <= visible_seq
        BY <1>4, Zenon
      <4>2. DependenciesValid(commit_seq, t, snapshot[t], visible_seq)
        BY <3>3, Zenon DEF ValidNow
      <4> QED
        BY <1>4, <3>4, <3>6, <4>1, <4>2, GrowthKeepsValidity, Zenon
    <3> QED
      BY <1>1, <3>7, Zenon DEF s2
  <2> QED
    BY <2>1, <2>2, Zenon
<1> QED
  BY <1>6, <1>7, <1>8, <1>9, <1>10, Zenon DEF Serial

\* A prepared commit passes no validation.  It leaves the log serial and the
\* predictions valid because it is apart from every blind put.
LEMMA FinalizeSerial ==
  ASSUME PreparedApart, TypeOK, TypeOK', Order, Numbering, Predicting, Serial,
         NEW p \in Prepared, FinalizePreparedCommit(p)
  PROVE  Serial'
<1>1. /\ ~PublisherHeld /\ ~recovery_required /\ commit_seq[p] = 0
      /\ commit_seq' = [commit_seq EXCEPT ![p] = visible_seq + 1]
      /\ visible_seq' = visible_seq + 1
      /\ UNCHANGED <<snapshot, recovery_required, active_epoch_base_visible_seq,
                     requests, next_epoch_slot, pc, predecided_epoch,
                     promoted_requires_validation>>
  BY Zenon DEF FinalizePreparedCommit, epochVars, workerVars
<1>2. pc \notin {"sync", "publish"} /\ Filled(visible_seq)
  <2>1. visible_seq + 0 = visible_seq
    BY DEF TypeOK, StoreTypeOK
  <2> QED
    BY <1>1, <2>1, Zenon DEF Numbering, PublisherHeld
<1>3. /\ p \in Commit /\ p \notin Txn /\ Txn \subseteq Commit
      /\ Range(requests) \subseteq Txn
      /\ commit_seq \in [Commit -> Nat] /\ commit_seq' \in [Commit -> Nat] /\ visible_seq \in Nat
      /\ \A t \in Txn : snapshot[t] \in Int /\ snapshot[t] <= visible_seq
  <2>1. p \in Commit /\ p \notin Txn /\ Txn \subseteq Commit
    BY FactAssumption, Zenon DEF Commit
  <2>2. requests \in Seq(Txn)
    BY Zenon DEF TypeOK, WorkerTypeOK
  <2>3. Range(requests) \subseteq Txn
    BY <2>2, GroupFacts, Zenon
  <2>4. /\ commit_seq \in [Commit -> Nat] /\ commit_seq' \in [Commit -> Nat] /\ visible_seq \in Nat
        /\ \A t \in Txn : snapshot[t] \in Int /\ snapshot[t] <= visible_seq
    BY DEF TypeOK, StoreTypeOK, Numbering, NoSnapshot
  <2> QED
    BY <2>1, <2>3, <2>4, Zenon
<1>4. \A c \in Commit : commit_seq'[c] = IF c = p THEN visible_seq + 1 ELSE commit_seq[c]
  BY <1>1, <1>3, Zenon
<1>5. \A c \in Commit : commit_seq[c] <= visible_seq
  BY <1>2, Zenon DEF Filled
<1>6. \A t \in Txn : commit_seq'[t] = commit_seq[t]
  BY <1>3, <1>4, Zenon
<1>7. \A t : Blind(t) => Apart(t, p)
  <2> SUFFICES ASSUME NEW t, Blind(t) PROVE Apart(t, p)
    BY Zenon
  <2>1. ReadIdentities(t) = {}
    BY Zenon DEF Blind, ReadIdentities
  <2>2. WriteIdentities(p) \cap WriteIdentities(t) = {}
    BY Zenon DEF PreparedApart, Blind
  <2> QED
    BY <2>1, <2>2, Zenon DEF Apart
<1>8. EpochAlone'
  BY <1>1, <1>6, Zenon DEF Serial, EpochAlone
<1>9. SlotApart'
  <2>1. next_epoch_slot.eligible => \A t \in Range(next_epoch_slot.requests) : Apart(t, p)
    BY <1>7, Zenon DEF Predicting
  <2> QED
    BY <1>1, <1>4, <2>1, SlotStaysApart, Zenon DEF Serial
<1>10. PromotedValid'
  <2> SUFFICES ASSUME predecided_epoch # NoEpoch,
                      pc = "write" \/ (pc \in {"open", "bind"} /\ ~promoted_requires_validation),
                      NEW t \in Range(requests)
               PROVE  ValidNow(t)'
    BY <1>1, Zenon DEF PromotedValid
  <2>1. DependenciesValid(commit_seq, t, snapshot[t], visible_seq)
    BY Zenon DEF Serial, PromotedValid, ValidNow
  <2>2. Footprint(t) \cap WriteIdentities(p) = {}
    <3>1. Blind(t)
      BY Zenon DEF Predicting
    <3> QED
      BY <1>7, <3>1, Zenon DEF Apart, Footprint
  <2> DEFINE s2 == visible_seq + 1
  <2>3. s2 \in Nat /\ visible_seq <= s2
    BY <1>3
  <2>4. \A c \in Commit :
          \/ commit_seq'[c] = commit_seq[c] /\ (commit_seq[c] <= visible_seq \/ commit_seq[c] > s2)
          \/ /\ commit_seq[c] = 0 /\ commit_seq'[c] > visible_seq
             /\ commit_seq'[c] > s2 \/ Footprint(t) \cap WriteIdentities(c) = {}
    <3> SUFFICES ASSUME NEW c \in Commit, c = p
                 PROVE  /\ commit_seq[c] = 0 /\ commit_seq'[c] > visible_seq
                        /\ commit_seq'[c] > s2 \/ Footprint(t) \cap WriteIdentities(c) = {}
      BY <1>4, <1>5, Zenon
    <3> QED
      BY <1>1, <1>3, <1>4, <2>2
  <2> HIDE DEF s2
  <2>5. DependenciesValid(commit_seq', t, snapshot[t], s2)
    <3>1. snapshot[t] \in Int /\ snapshot[t] <= visible_seq
      BY <1>3, Zenon
    <3> QED
      BY <1>3, <2>1, <2>3, <2>4, <3>1, GrowthKeepsValidity, Zenon
  <2> QED
    BY <1>1, <2>5, Zenon DEF ValidNow, s2
<1>11. DecidedValid'
  BY <1>1, <1>2, Zenon DEF DecidedValid
<1>12. ReadsBelow'
  BY <1>1, <1>6, Zenon DEF Serial, ReadsBelow
<1>13. SeriallyValid'
  <2> SUFFICES ASSUME NEW t \in Txn, commit_seq'[t] # 0
               PROVE  DependenciesValid(commit_seq', t, snapshot'[t], commit_seq'[t] - 1)
    BY Zenon DEF SeriallyValid
  <2>0. commit_seq[t] # 0
    BY <1>6, Zenon
  <2>1. DependenciesValid(commit_seq, t, snapshot[t], commit_seq[t] - 1)
    BY <2>0, Zenon DEF Serial, SeriallyValid
  <2>2. \A u \in Txn : commit_seq[u] # 0 => snapshot[u] < commit_seq[u]
    BY Zenon DEF Serial, ReadsBelow
  <2>3. \A c \in Commit : \/ commit_seq'[c] = commit_seq[c]
                          \/ commit_seq[c] = 0 /\ commit_seq'[c] > visible_seq
    BY <1>1, <1>3, <1>4
  <2> QED
    BY <1>1, <1>3, <1>5, <2>0, <2>1, <2>2, <2>3, SerialKept, Zenon
<1> QED
  BY <1>8, <1>9, <1>10, <1>11, <1>12, <1>13, Zenon DEF Serial

\* A slot that needs no validation is decided on the base of the epoch that
\* is written, and everything committed since is that epoch's or prepared.
LEMMA SlotDecided ==
  ASSUME PreparedApart, TypeOK, Predicting, Serial, ~recovery_required,
         preflight_pc = "planning", EpochIsCaptured,
         NEW plan \in Seq(Txn), Plannable(plan), next_epoch_slot' = DecidedSlot(plan),
         UNCHANGED <<snapshot, commit_seq>>
  PROVE  SlotApart'
<1>1. /\ next_epoch_slot'.requests = plan /\ next_epoch_slot'.predecessor = captured.base
      /\ next_epoch_slot'.requires_validation =
           \E t \in Range(plan) : ~DependenciesMatchEpochBase(t, captured.base)
  BY Zenon DEF DecidedSlot
<1>2. captured.base = active_epoch_base_visible_seq /\ pc \in ActiveEpoch
  BY Zenon DEF EpochIsCaptured, Predicting
<1> SUFFICES ASSUME ~next_epoch_slot'.requires_validation, NEW t \in Range(plan)
             PROVE  /\ snapshot[t] = captured.base
                    /\ \A c \in Commit : commit_seq[c] > snapshot[t] => Apart(t, c)
  BY <1>1, Zenon DEF SlotApart, Apart
<1>3. /\ CanUseAppendFastPath(t) /\ \A u \in Range(requests) : ~FootprintsConflict(t, u)
      /\ DependenciesMatchEpochBase(t, captured.base)
  BY <1>1, Zenon DEF Plannable, CanPredictIndependentAppend
<1>4. snapshot[t] = captured.base
  BY <1>3, Zenon DEF CanUseAppendFastPath, DependenciesMatchEpochBase
<1>5. ASSUME NEW c \in Txn, commit_seq[c] > snapshot[t]
      PROVE  Apart(t, c)
  <2>1. c \in Range(requests)
    BY <1>2, <1>4, <1>5, Zenon DEF Serial, EpochAlone
  <2> QED
    BY <1>3, <2>1, ApartFacts, Zenon
<1>6. ASSUME NEW c \in Prepared
      PROVE  Apart(t, c)
  <2>1. t \in BlindPut /\ ReadIdentities(t) = {}
    BY <1>3, Zenon DEF CanUseAppendFastPath, ReadIdentities
  <2>2. WriteIdentities(c) \cap WriteIdentities(t) = {}
    BY <2>1, Zenon DEF PreparedApart
  <2> QED
    BY <2>1, <2>2, Zenon DEF Apart
<1> QED
  BY <1>4, <1>5, <1>6, Zenon DEF Commit

\* Whatever the threads do, what they write is what a serial commit would have
\* written.  The sequences of the step come from WalFills and DecideNumbers.
LEMMA SerialStep ==
  ASSUME PreparedApart
  PROVE  /\ TypeOK /\ TypeOK' /\ Counting /\ Placement /\ Order /\ Numbering /\ Predicting /\ Serial
         /\ [Next]_vars
         /\ WalDurable => GroupWritten
         /\ CommitGroup /\ decision' = DecideGroup => Granted' = Accepted
         => Serial'
<1> SUFFICES ASSUME TypeOK, TypeOK', Counting, Placement, Order, Numbering, Predicting, Serial,
                    [Next]_vars, WalDurable => GroupWritten,
                    CommitGroup /\ decision' = DecideGroup => Granted' = Accepted
             PROVE  Serial'
  BY Zenon
<1>0. /\ snapshot \in [Txn -> Nat \cup {NoSnapshot}] /\ visible_seq \in Nat
      /\ commit_seq \in [Commit -> Nat] /\ Txn \subseteq Commit
      /\ requests \in Seq(Txn) /\ Range(requests) \subseteq Txn
      /\ next_epoch_slot.requests \in Seq(Txn) /\ Range(next_epoch_slot.requests) \subseteq Txn
      /\ next_epoch_slot.predecessor \in Nat /\ candidates \in Seq(Txn)
      /\ EmptySlot.eligible = FALSE
  <2>1. /\ snapshot \in [Txn -> Nat \cup {NoSnapshot}] /\ visible_seq \in Nat
        /\ commit_seq \in [Commit -> Nat] /\ Txn \subseteq Commit
        /\ requests \in Seq(Txn) /\ candidates \in Seq(Txn) /\ EmptySlot.eligible = FALSE
    BY Zenon DEF TypeOK, StoreTypeOK, WorkerTypeOK, PreflightTypeOK, EmptySlot, Commit
  <2>2. next_epoch_slot.requests \in Seq(Txn) /\ next_epoch_slot.predecessor \in Nat
    BY Zenon DEF TypeOK, EpochTypeOK, Slot
  <2> QED
    BY <2>1, <2>2, GroupFacts, Zenon
<1>1. ASSUME NEW t \in Txn, BeginTransaction(t)
      PROVE  Serial'
  <2>1. /\ UNCHANGED <<commit_seq, visible_seq, recovery_required, active_epoch_base_visible_seq,
                       requests, predecided_epoch, promoted_requires_validation, decision,
                       next_epoch_slot, pc>>
        /\ phase[t] = "idle" /\ snapshot' = [snapshot EXCEPT ![t] = visible_seq]
    BY <1>1, Zenon DEF BeginTransaction, workerVars, epochVars
  <2>2. \A u \in Txn : u # t => snapshot'[u] = snapshot[u]
    BY <1>0, <2>1, Zenon
  <2>3. commit_seq[t] = 0 /\ snapshot[t] = NoSnapshot
    BY <2>1, Zenon DEF Order, Phased
  <2>4. EpochAlone'
    BY <2>1, Zenon DEF Serial, EpochAlone
  <2>5. SlotApart'
    <3>1. next_epoch_slot.eligible /\ ~next_epoch_slot.requires_validation =>
            \A u \in Range(next_epoch_slot.requests) : u # t
      BY <1>0, <2>3 DEF Serial, SlotApart, NoSnapshot
    <3>2. next_epoch_slot.eligible /\ ~next_epoch_slot.requires_validation =>
            \A u \in Range(next_epoch_slot.requests) : snapshot'[u] = snapshot[u]
      BY <1>0, <2>2, <3>1, Zenon
    <3> QED
      BY <2>1, <3>2, Zenon DEF Serial, SlotApart, Apart
  <2>6. pc \in {"open", "bind", "write", "sync"} =>
          \A u \in Range(requests) : snapshot'[u] = snapshot[u]
    <3>1. pc \in {"open", "bind", "write", "sync"} => \A u \in Range(requests) : phase[u] # "idle"
      BY Zenon DEF Order, Grouped, InEpoch
    <3> QED
      BY <1>0, <2>1, <2>2, <3>1, Zenon
  <2>7. PromotedValid'
    BY <2>1, <2>6, Zenon DEF Serial, PromotedValid, ValidNow
  <2>8. DecidedValid'
    <3>1. \A i \in Granted : requests[i] \in Range(requests)
      BY <1>0, GroupFacts, Zenon DEF Granted
    <3>2. Granted' = Granted
      BY <2>1, Zenon DEF Granted
    <3> QED
      BY <2>1, <2>6, <3>1, <3>2 DEF Serial, DecidedValid, ValidNow
  <2>9. ReadsBelow'
    BY <2>1, <2>2, <2>3, Zenon DEF Serial, ReadsBelow
  <2>10. SeriallyValid'
    BY <2>1, <2>2, <2>3, Zenon DEF Serial, SeriallyValid
  <2> QED
    BY <2>4, <2>5, <2>7, <2>8, <2>9, <2>10, Zenon DEF Serial
<1>2. ASSUME NEW t \in Txn, SubmitSyncCommit(t)
      PROVE  Serial'
  <2>1. /\ UNCHANGED <<snapshot, commit_seq, visible_seq, recovery_required,
                       active_epoch_base_visible_seq, requests, predecided_epoch,
                       promoted_requires_validation, decision>>
        /\ UNCHANGED <<next_epoch_slot, pc>>
    BY <1>2, Zenon DEF SubmitSyncCommit, Enqueue, storeVars, workerVars, epochVars
  <2> QED
    BY <2>1, SerialFrame, Zenon
<1>3. ASSUME NEW t \in Txn, SubmitAsyncCommit(t)
      PROVE  Serial'
  <2>1. /\ UNCHANGED <<snapshot, commit_seq, visible_seq, recovery_required,
                       active_epoch_base_visible_seq, requests, predecided_epoch,
                       promoted_requires_validation, decision>>
        /\ UNCHANGED <<next_epoch_slot, pc>>
    BY <1>3, Zenon DEF SubmitAsyncCommit, Enqueue, storeVars, workerVars, epochVars
  <2> QED
    BY <2>1, SerialFrame, Zenon
<1>4. ASSUME NEW t \in Txn, Reject(t)
      PROVE  Serial'
  <2>1. /\ UNCHANGED <<snapshot, commit_seq, visible_seq, recovery_required,
                       active_epoch_base_visible_seq, requests, predecided_epoch,
                       promoted_requires_validation, decision>>
        /\ UNCHANGED <<next_epoch_slot, pc>>
    BY <1>4, Zenon DEF Reject, Enqueue, storeVars, workerVars, epochVars
  <2> QED
    BY <2>1, SerialFrame, Zenon
<1>5. ASSUME NEW t \in Txn, SubmitAsyncCommitToAppendPipeline(t)
      PROVE  Serial'
  <2>1. /\ UNCHANGED <<snapshot, commit_seq, visible_seq, recovery_required,
                       active_epoch_base_visible_seq, requests, predecided_epoch,
                       promoted_requires_validation, decision>>
        /\ UNCHANGED <<next_epoch_slot, pc>>
    BY <1>5, Zenon DEF SubmitAsyncCommitToAppendPipeline, Enqueue, storeVars, workerVars, epochVars
  <2> QED
    BY <2>1, SerialFrame, Zenon
<1>6. ASSUME NEW t \in Txn, HandoffFails(t)
      PROVE  Serial'
  <2>1. /\ UNCHANGED <<snapshot, commit_seq, visible_seq, recovery_required,
                       active_epoch_base_visible_seq, requests, predecided_epoch,
                       promoted_requires_validation, decision>>
        /\ UNCHANGED <<next_epoch_slot, pc>>
    BY <1>6, Zenon DEF HandoffFails, Enqueue, storeVars, workerVars, epochVars
  <2> QED
    BY <2>1, SerialFrame, Zenon
<1>7. ASSUME NEW t \in Txn, CancelQueuedAsyncCommit(t)
      PROVE  Serial'
  <2>1. /\ UNCHANGED <<snapshot, commit_seq, visible_seq, recovery_required,
                       active_epoch_base_visible_seq, requests, predecided_epoch,
                       promoted_requires_validation, decision>>
        /\ UNCHANGED <<next_epoch_slot, pc>>
    BY <1>7, Zenon DEF CancelQueuedAsyncCommit, Enqueue, storeVars, workerVars, epochVars
  <2> QED
    BY <2>1, SerialFrame, Zenon
<1>8. ASSUME NEW t \in Txn, RemoveCancelledRequest(t)
      PROVE  Serial'
  <2>1. /\ UNCHANGED <<snapshot, commit_seq, visible_seq, recovery_required,
                       active_epoch_base_visible_seq, requests, predecided_epoch,
                       promoted_requires_validation, decision>>
        /\ UNCHANGED pc
        /\ next_epoch_slot' = next_epoch_slot \/ next_epoch_slot' = EmptySlot
    BY <1>8, Zenon DEF RemoveCancelledRequest, storeVars, workerVars
  <2> QED
    BY <2>1, SerialFrame, Zenon
<1>9. ASSUME NEW t \in Txn, ReturnAsyncCommit(t)
      PROVE  Serial'
  <2>1. /\ UNCHANGED <<snapshot, commit_seq, visible_seq, recovery_required,
                       active_epoch_base_visible_seq, requests, predecided_epoch,
                       promoted_requires_validation, decision>>
        /\ UNCHANGED <<next_epoch_slot, pc>>
    BY <1>9, Zenon DEF ReturnAsyncCommit, Enqueue, storeVars, workerVars, epochVars
  <2> QED
    BY <2>1, SerialFrame, Zenon
<1>10. CASE PromoteSlot
  <2>1. /\ UNCHANGED <<snapshot, commit_seq, visible_seq>>
        /\ next_epoch_slot.eligible /\ IsQueuePrefix(next_epoch_slot.requests)
        /\ next_epoch_slot' = EmptySlot /\ pc' = "open"
        /\ requests' = SubSeq(append_commit_requests, 1, Len(next_epoch_slot.requests))
        /\ promoted_requires_validation' = next_epoch_slot.requires_validation
    BY <1>10, Zenon DEF PromoteSlot, SlotIsQueued, Select, storeVars
  <2>2. requests' = next_epoch_slot.requests
    BY <2>1, Zenon DEF IsQueuePrefix
  <2>3. PromotedValid'
    <3> SUFFICES ASSUME ~next_epoch_slot.requires_validation,
                        NEW t \in Range(next_epoch_slot.requests)
                 PROVE  ValidNow(t)'
      BY <2>1, <2>2, Zenon DEF PromotedValid
    <3>1. /\ snapshot[t] = next_epoch_slot.predecessor
          /\ \A c \in Commit : commit_seq[c] > snapshot[t] => Footprint(t) \cap WriteIdentities(c) = {}
      BY <2>1, Zenon DEF Serial, SlotApart, Apart, Footprint
    <3>2. snapshot[t] \in Nat /\ snapshot[t] <= visible_seq
      BY <1>0, <3>1, Zenon DEF Numbering
    <3>3. DependenciesValid(commit_seq, t, snapshot[t], visible_seq)
      BY <1>0, <3>1, <3>2, UntouchedIsValid, Zenon
    <3> QED
      BY <2>1, <3>3, Zenon DEF ValidNow
  <2>4. EpochAlone' /\ SlotApart' /\ DecidedValid'
    BY <1>0, <2>1, Zenon DEF EpochAlone, SlotApart, DecidedValid, ActiveEpoch, InEpoch
  <2>5. ReadsBelow' /\ SeriallyValid'
    BY <2>1, Zenon DEF Serial, ReadsBelow, SeriallyValid
  <2> QED
    BY <2>3, <2>4, <2>5, Zenon DEF Serial
<1>11. CASE StartCollection
  <2>1. /\ UNCHANGED <<snapshot, commit_seq, visible_seq, recovery_required,
                       active_epoch_base_visible_seq, requests, predecided_epoch,
                       promoted_requires_validation, decision>>
        /\ next_epoch_slot' = EmptySlot
        /\ pc \in {"wait"} /\ pc' \in {"collect"}
    BY <1>11, Zenon DEF StartCollection, storeVars, epochVars
  <2>2. pc' \in ActiveEpoch => pc \in ActiveEpoch
    BY <2>1, Zenon DEF ActiveEpoch, InEpoch
  <2>3. pc' # "sync"
    BY <2>1, Zenon
  <2> QED
    BY <2>1, <2>2, <2>3, SerialFrame, Zenon
<1>12. CASE CollectGroup
  <2>1. /\ UNCHANGED <<snapshot, commit_seq, next_epoch_slot>>
        /\ predecided_epoch' = NoEpoch /\ pc' = "open"
    BY <1>12, Zenon DEF CollectGroup, storeVars
  <2>2. pc' \notin ActiveEpoch /\ pc' # "sync"
    BY <2>1, Zenon DEF ActiveEpoch, InEpoch
  <2> QED
    BY <2>1, <2>2, SerialFrame, Zenon
<1>13. CASE OpenEpoch
  <2>1. /\ UNCHANGED <<snapshot, commit_seq, visible_seq, recovery_required, next_epoch_slot,
                       requests, predecided_epoch, promoted_requires_validation>>
        /\ active_epoch_base_visible_seq' = visible_seq /\ pc = "open" /\ pc' = "bind"
    BY <1>13, Zenon DEF OpenEpoch, storeVars
  <2>2. EpochAlone'
    <3>1. ~recovery_required => Filled(visible_seq)
      <4>1. visible_seq + 0 = visible_seq
        BY <1>0
      <4> QED
        BY <2>1, <4>1, Zenon DEF Numbering
    <3>2. ~recovery_required => \A c \in Txn : ~(commit_seq[c] > visible_seq)
      BY <1>0, <3>1 DEF Filled
    <3> QED
      BY <2>1, <3>2, Zenon DEF EpochAlone
  <2>3. SlotApart'
    BY <2>1, Zenon DEF Serial, SlotApart, Apart
  <2>4. PromotedValid' /\ DecidedValid'
    BY <2>1, Zenon DEF Serial, PromotedValid, DecidedValid, ValidNow
  <2>5. ReadsBelow' /\ SeriallyValid'
    BY <2>1, Zenon DEF Serial, ReadsBelow, SeriallyValid
  <2> QED
    BY <2>2, <2>3, <2>4, <2>5, Zenon DEF Serial
<1>14. CASE BindEpoch
  <2>1. /\ UNCHANGED <<snapshot, commit_seq, visible_seq, recovery_required,
                       active_epoch_base_visible_seq, requests, predecided_epoch,
                       promoted_requires_validation, decision>>
        /\ UNCHANGED next_epoch_slot
        /\ pc \in {"bind"} /\ pc' \in {"commit", "validate", "write"}
        /\ pc' = "write" => ~promoted_requires_validation
    BY <1>14, Zenon DEF BindEpoch, storeVars, epochVars
  <2>2. pc' \in ActiveEpoch => pc \in ActiveEpoch
    BY <2>1, Zenon DEF ActiveEpoch, InEpoch
  <2>3. pc' # "sync"
    BY <2>1, Zenon
  <2> QED
    BY <2>1, <2>2, <2>3, SerialFrame, Zenon
<1>15. CASE ValidatePredictedGroup
  <2>1. /\ UNCHANGED <<snapshot, commit_seq, visible_seq, recovery_required,
                       active_epoch_base_visible_seq, requests, predecided_epoch,
                       promoted_requires_validation, decision>>
        /\ UNCHANGED next_epoch_slot
        /\ pc = "validate" /\ pc' \in {"write", "commit"}
        /\ pc' = "write" => \A t \in Range(requests) :
                              ~SnapshotWriteConflict(commit_seq, t, snapshot[t], visible_seq)
    BY <1>15, Zenon DEF ValidatePredictedGroup, storeVars, epochVars
  <2>2. EpochAlone' /\ DecidedValid'
    BY <2>1, Zenon DEF Serial, EpochAlone, DecidedValid, ActiveEpoch, InEpoch
  <2>3. SlotApart'
    BY <2>1, Zenon DEF Serial, SlotApart, Apart
  <2>4. PromotedValid'
    <3> SUFFICES ASSUME predecided_epoch # NoEpoch, pc' = "write", NEW t \in Range(requests)
                 PROVE  ValidNow(t)'
      BY <2>1, Zenon DEF PromotedValid
    <3>1. Reads[t] = {}
      BY Zenon DEF Predicting, Blind
    <3>2. ~StrictReadConflict(commit_seq, t, snapshot[t], visible_seq)
      BY <3>1, Zenon DEF StrictReadConflict
    <3>3. ~SnapshotWriteConflict(commit_seq, t, snapshot[t], visible_seq)
      BY <2>1, Zenon
    <3> QED
      BY <2>1, <3>2, <3>3, Zenon DEF ValidNow, DependenciesValid
  <2>5. ReadsBelow' /\ SeriallyValid'
    BY <2>1, Zenon DEF Serial, ReadsBelow, SeriallyValid
  <2> QED
    BY <2>2, <2>3, <2>4, <2>5, Zenon DEF Serial
<1>16. CASE WriteDecidedGroup
  <2>1. /\ UNCHANGED <<snapshot, commit_seq, visible_seq, recovery_required,
                       active_epoch_base_visible_seq, requests, predecided_epoch,
                       promoted_requires_validation, next_epoch_slot>>
        /\ pc = "write" /\ pc' \in {"account", "commit", "sync"}
    BY <1>16, Zenon DEF WriteDecidedGroup, storeVars, epochVars
  <2>2. EpochAlone'
    BY <2>1, Zenon DEF Serial, EpochAlone, ActiveEpoch, InEpoch
  <2>3. SlotApart'
    BY <2>1, Zenon DEF Serial, SlotApart, Apart
  <2>4. PromotedValid'
    BY <2>1, Zenon DEF PromotedValid
  <2>5. ReadsBelow' /\ SeriallyValid'
    BY <2>1, Zenon DEF Serial, ReadsBelow, SeriallyValid
  <2>6. DecidedValid'
    <3> SUFFICES ASSUME pc' = "sync", NEW i \in 1..Len(requests)
                 PROVE  ValidNow(requests[i])'
      BY <2>1, Zenon DEF DecidedValid, Granted
    <3>1. predecided_epoch # NoEpoch
      BY <1>0, <1>16 DEF WriteDecidedGroup, BaseIsStale, NoEpoch
    <3>2. requests[i] \in Range(requests)
      BY <1>0, GroupFacts, Zenon
    <3>3. ValidNow(requests[i])
      BY <2>1, <3>1, <3>2, Zenon DEF Serial, PromotedValid
    <3> QED
      BY <2>1, <3>3, Zenon DEF ValidNow
  <2> QED
    BY <2>2, <2>3, <2>4, <2>5, <2>6, Zenon DEF Serial
<1>17. CASE CommitGroup
  <2>1. /\ UNCHANGED <<snapshot, commit_seq, visible_seq, recovery_required,
                       active_epoch_base_visible_seq, requests, predecided_epoch,
                       promoted_requires_validation, next_epoch_slot>>
        /\ pc = "commit" /\ pc' \in {"account", "commit", "sync"}
    BY <1>17, Zenon DEF CommitGroup, storeVars, epochVars
  <2>2. EpochAlone'
    BY <2>1, Zenon DEF Serial, EpochAlone, ActiveEpoch, InEpoch
  <2>3. SlotApart'
    BY <2>1, Zenon DEF Serial, SlotApart, Apart
  <2>4. PromotedValid'
    BY <2>1, Zenon DEF PromotedValid
  <2>5. ReadsBelow' /\ SeriallyValid'
    BY <2>1, Zenon DEF Serial, ReadsBelow, SeriallyValid
  <2>6. DecidedValid'
    <3> SUFFICES ASSUME pc' = "sync", NEW i \in Granted'
                 PROVE  ValidNow(requests[i])'
      BY <2>1, Zenon DEF DecidedValid
    <3>1. decision' = DecideGroup
      BY <1>17, Zenon DEF CommitGroup
    <3>2. Granted' = Accepted
      BY <1>17, <3>1, Zenon
    <3>3. DependenciesValid(commit_seq, requests[i], snapshot[requests[i]], visible_seq)
      BY <3>2, Zenon DEF Accepted
    <3> QED
      BY <2>1, <3>3, Zenon DEF ValidNow
  <2> QED
    BY <2>2, <2>3, <2>4, <2>5, <2>6, Zenon DEF Serial
<1>18. CASE WalDurable
  BY <1>18, WalSerial, Zenon
<1>19. CASE WriteFails
  <2>1. /\ UNCHANGED <<snapshot, commit_seq, next_epoch_slot>>
        /\ recovery_required' /\ pc' = "account"
    BY <1>19, Zenon DEF WriteFails, epochVars
  <2>2. pc' \notin {"open", "bind", "write"} /\ pc' # "sync"
    BY <2>1, Zenon
  <2> QED
    BY <2>1, <2>2, SerialFrame, Zenon
<1>20. CASE PublishVisible
  <2>1. /\ UNCHANGED <<snapshot, commit_seq, next_epoch_slot, recovery_required,
                       active_epoch_base_visible_seq, requests>>
        /\ pc = "publish" /\ pc' = "account"
    BY <1>20, Zenon DEF PublishVisible, epochVars
  <2>2. pc' \notin {"open", "bind", "write"} /\ pc' # "sync" /\ pc \in ActiveEpoch
    BY <2>1, Zenon DEF ActiveEpoch, InEpoch
  <2> QED
    BY <2>1, <2>2, SerialFrame, Zenon
<1>21. CASE AccountEpoch
  <2>1. /\ UNCHANGED <<snapshot, commit_seq, visible_seq, recovery_required,
                       active_epoch_base_visible_seq, requests, predecided_epoch,
                       promoted_requires_validation, decision>>
        /\ next_epoch_slot' = next_epoch_slot \/ next_epoch_slot' = EmptySlot
        /\ pc \in {"account"} /\ pc' \in {"complete"}
    BY <1>21, Zenon DEF AccountEpoch, storeVars, epochVars
  <2>2. pc' \in ActiveEpoch => pc \in ActiveEpoch
    BY <2>1, Zenon DEF ActiveEpoch, InEpoch
  <2>3. pc' # "sync"
    BY <2>1, Zenon
  <2> QED
    BY <2>1, <2>2, <2>3, SerialFrame, Zenon
<1>22. CASE CompleteEpoch
  <2>1. /\ UNCHANGED <<snapshot, commit_seq, visible_seq, recovery_required,
                       active_epoch_base_visible_seq, requests, predecided_epoch,
                       promoted_requires_validation, decision>>
        /\ UNCHANGED next_epoch_slot
        /\ pc \in {"complete"} /\ pc' \in {"release"}
    BY <1>22, Zenon DEF CompleteEpoch, storeVars, epochVars
  <2>2. pc' \in ActiveEpoch => pc \in ActiveEpoch
    BY <2>1, Zenon DEF ActiveEpoch, InEpoch
  <2>3. pc' # "sync"
    BY <2>1, Zenon
  <2> QED
    BY <2>1, <2>2, <2>3, SerialFrame, Zenon
<1>23. CASE ReleaseEpoch
  <2>1. /\ UNCHANGED <<snapshot, commit_seq>>
        /\ UNCHANGED next_epoch_slot
        /\ pc \in {"release"} /\ pc' \in {"wait"}
    BY <1>23, Zenon DEF ReleaseEpoch, storeVars, epochVars
  <2>2. pc' \notin ActiveEpoch
    BY <2>1, Zenon DEF ActiveEpoch, InEpoch
  <2>3. pc' # "sync"
    BY <2>1, Zenon
  <2> QED
    BY <2>1, <2>2, <2>3, SerialFrame, Zenon
<1>24. ASSUME NEW p \in Prepared, FinalizePreparedCommit(p)
      PROVE  Serial'
  BY <1>24, FinalizeSerial, Zenon
<1>25. CASE PreflightCapture
  <2>1. /\ UNCHANGED <<snapshot, commit_seq, visible_seq, recovery_required,
                       active_epoch_base_visible_seq, requests, predecided_epoch,
                       promoted_requires_validation, decision>>
        /\ UNCHANGED <<next_epoch_slot, pc>>
    BY <1>25, Zenon DEF PreflightCapture, storeVars, workerVars, epochVars
  <2> QED
    BY <2>1, SerialFrame, Zenon
<1>26. CASE PreflightFinish
  <2>1. /\ UNCHANGED <<snapshot, commit_seq, visible_seq, recovery_required,
                       active_epoch_base_visible_seq, requests, predecided_epoch,
                       promoted_requires_validation, decision>>
        /\ UNCHANGED pc /\ preflight_pc = "planning"
    BY <1>26, Zenon DEF PreflightFinish, storeVars, workerVars
  <2>2. CASE next_epoch_slot' = next_epoch_slot
    BY <2>1, <2>2, SerialFrame, Zenon
  <2>3. CASE next_epoch_slot' # next_epoch_slot
    <3>1. PICK n \in 0..MaxBatch :
            /\ n <= Len(candidates) /\ ~recovery_required
            /\ EpochIsCaptured /\ Plannable(SubSeq(candidates, 1, n))
            /\ next_epoch_slot' = DecidedSlot(SubSeq(candidates, 1, n))
      BY <1>26, <2>3, Zenon DEF PreflightFinish
    <3>2. SubSeq(candidates, 1, n) \in Seq(Txn)
      BY <1>0, <3>1, PipelineAssumption
    <3>3. SlotApart'
      BY <2>1, <3>1, <3>2, SlotDecided, Zenon
    <3>4. EpochAlone'
      BY <2>1, Zenon DEF Serial, EpochAlone
    <3>5. PromotedValid' /\ DecidedValid'
      BY <2>1, Zenon DEF Serial, PromotedValid, DecidedValid, ValidNow, Granted
    <3>6. ReadsBelow' /\ SeriallyValid'
      BY <2>1, Zenon DEF Serial, ReadsBelow, SeriallyValid
    <3> QED
      BY <3>3, <3>4, <3>5, <3>6, Zenon DEF Serial
  <2> QED
    BY <2>2, <2>3, Zenon
<1>27. CASE UNCHANGED vars
  <2>1. /\ UNCHANGED <<snapshot, commit_seq, visible_seq, recovery_required,
                       active_epoch_base_visible_seq, requests, predecided_epoch,
                       promoted_requires_validation, decision>>
        /\ UNCHANGED <<next_epoch_slot, pc>>
    BY <1>27, Zenon DEF vars, storeVars, workerVars, epochVars
  <2> QED
    BY <2>1, SerialFrame, Zenon
<1> QED
  BY <1>1, <1>2, <1>3, <1>4, <1>5, <1>6, <1>7, <1>8, <1>9, <1>10, <1>11,
       <1>12, <1>13, <1>14, <1>15, <1>16, <1>17, <1>18, <1>19, <1>20, <1>21,
       <1>22, <1>23, <1>24, <1>25, <1>26, <1>27, Zenon
  DEF Next, AppendWorker, Executor, Idle

-----------------------------------------------------------------------------
(* What the log shows *)

\* The steps that change what the log shows.
LEMMA LogSteps ==
  [Next]_vars =>
    \/ UNCHANGED <<snapshot, commit_seq, visible_seq>>
    \/ \E t \in Txn : BeginTransaction(t)
    \/ WalDurable
    \/ PublishVisible
    \/ \E p \in Prepared : FinalizePreparedCommit(p)
<1> DEFINE Goal == \/ UNCHANGED <<snapshot, commit_seq, visible_seq>>
                   \/ \E t \in Txn : BeginTransaction(t)
                   \/ WalDurable
                   \/ PublishVisible
                   \/ \E p \in Prepared : FinalizePreparedCommit(p)
<1> SUFFICES ASSUME [Next]_vars PROVE Goal
  BY Zenon
<1>1. ASSUME NEW t \in Txn, BeginTransaction(t)
      PROVE  Goal
  BY <1>1, Zenon
<1>2. ASSUME NEW t \in Txn, SubmitSyncCommit(t)
      PROVE  Goal
  BY <1>2, Zenon DEF SubmitSyncCommit, storeVars
<1>3. ASSUME NEW t \in Txn, SubmitAsyncCommit(t)
      PROVE  Goal
  BY <1>3, Zenon DEF SubmitAsyncCommit, storeVars
<1>4. ASSUME NEW t \in Txn, Reject(t)
      PROVE  Goal
  BY <1>4, Zenon DEF Reject, storeVars
<1>5. ASSUME NEW t \in Txn, SubmitAsyncCommitToAppendPipeline(t)
      PROVE  Goal
  BY <1>5, Zenon DEF SubmitAsyncCommitToAppendPipeline, storeVars
<1>6. ASSUME NEW t \in Txn, HandoffFails(t)
      PROVE  Goal
  BY <1>6, Zenon DEF HandoffFails, storeVars
<1>7. ASSUME NEW t \in Txn, CancelQueuedAsyncCommit(t)
      PROVE  Goal
  BY <1>7, Zenon DEF CancelQueuedAsyncCommit, storeVars
<1>8. ASSUME NEW t \in Txn, RemoveCancelledRequest(t)
      PROVE  Goal
  BY <1>8, Zenon DEF RemoveCancelledRequest, storeVars
<1>9. ASSUME NEW t \in Txn, ReturnAsyncCommit(t)
      PROVE  Goal
  BY <1>9, Zenon DEF ReturnAsyncCommit, storeVars
<1>10. CASE PromoteSlot
  BY <1>10, Zenon DEF PromoteSlot, storeVars
<1>11. CASE StartCollection
  BY <1>11, Zenon DEF StartCollection, storeVars
<1>12. CASE CollectGroup
  BY <1>12, Zenon DEF CollectGroup, storeVars
<1>13. CASE OpenEpoch
  BY <1>13, Zenon DEF OpenEpoch, storeVars
<1>14. CASE BindEpoch
  BY <1>14, Zenon DEF BindEpoch, storeVars
<1>15. CASE ValidatePredictedGroup
  BY <1>15, Zenon DEF ValidatePredictedGroup, storeVars
<1>16. CASE WriteDecidedGroup
  BY <1>16, Zenon DEF WriteDecidedGroup, storeVars
<1>17. CASE CommitGroup
  BY <1>17, Zenon DEF CommitGroup, storeVars
<1>18. CASE WalDurable
  BY <1>18, Zenon
<1>19. CASE WriteFails
  BY <1>19, Zenon DEF WriteFails, storeVars
<1>20. CASE PublishVisible
  BY <1>20, Zenon
<1>21. CASE AccountEpoch
  BY <1>21, Zenon DEF AccountEpoch, storeVars
<1>22. CASE CompleteEpoch
  BY <1>22, Zenon DEF CompleteEpoch, storeVars
<1>23. CASE ReleaseEpoch
  BY <1>23, Zenon DEF ReleaseEpoch, storeVars
<1>24. ASSUME NEW p \in Prepared, FinalizePreparedCommit(p)
      PROVE  Goal
  BY <1>24, Zenon
<1>25. CASE PreflightCapture
  BY <1>25, Zenon DEF PreflightCapture, storeVars
<1>26. CASE PreflightFinish
  BY <1>26, Zenon DEF PreflightFinish, storeVars
<1>27. CASE UNCHANGED vars
  BY <1>27, Zenon DEF vars, storeVars
<1> QED
  BY <1>1, <1>2, <1>3, <1>4, <1>5, <1>6, <1>7, <1>8, <1>9, <1>10, <1>11,
       <1>12, <1>13, <1>14, <1>15, <1>16, <1>17, <1>18, <1>19, <1>20, <1>21,
       <1>22, <1>23, <1>24, <1>25, <1>26, <1>27, Zenon
  DEF Next, AppendWorker, Executor, Idle
=============================================================================

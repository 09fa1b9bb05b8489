---------------------- MODULE FactStoreRecoveryLemmas -----------------------
(***************************************************************************)
(* What a step of the store does, whatever the constants: the fields each  *)
(* batch writes, the way the running call moves, the types of the images   *)
(* and of the memory beside them, the leases, and what a batch may do to   *)
(* an image that Open accepts.                                             *)
(*                                                                         *)
(* The leases are Leased: every id handed out is below the bound of a      *)
(* lease that is in the store and in every image a crash may leave. It is  *)
(* what IdsFresh needs, and it holds without a condition on the ids.       *)
(***************************************************************************)
EXTENDS FactStoreRecovery, WellFoundedInduction, TLAPS

-----------------------------------------------------------------------------
(* Greatest elements. *)

(* A set of naturals that is not empty has a least element. *)
LEMMA LeastNatural ==
  ASSUME NEW T, T \subseteq Nat, T # {}
  PROVE  \E k \in T : \A j \in T : k <= j
<1> DEFINE R == OpToRel(<, Nat)
<1>1. IsWellFoundedOn(R, Nat)
  BY NatLessThanWellFounded, Zenon
<1>2. \A a, b \in Nat : a < b => <<a, b>> \in R
  BY DEF OpToRel
<1> HIDE DEF R
<1>3. PICK k \in T : \A j \in T : ~ (<<j, k>> \in R)
  BY <1>1, WFMin, Zenon
<1>4. ASSUME NEW j \in T PROVE k <= j
  <2>1. ~ (j < k)
    BY <1>2, <1>3, Zenon
  <2> QED
    BY <2>1
<1> QED
  BY <1>3, <1>4, Zenon

(* A set of naturals below a bound has a greatest element, and Max is it.  *)
LEMMA GreatestNatural ==
  ASSUME NEW n \in Nat, NEW S, S \subseteq 0..n, S # {}
  PROVE  Max(S) \in S /\ \A y \in S : y <= Max(S)
<1> DEFINE T == {k \in 0..n : n - k \in S}
<1>1. T # {}
  <2>1. PICK x \in S : TRUE
    OBVIOUS
  <2>2. n - x \in 0..n /\ n - (n - x) = x
    BY <2>1
  <2> QED
    BY <2>2
<1>2. PICK k \in T : \A j \in T : k <= j
  <2> HIDE DEF T
  <2>1. T \subseteq Nat
    BY DEF T
  <2> QED
    BY <1>1, <2>1, LeastNatural, Zenon
<1>3. ASSUME NEW y \in S PROVE n - k >= y
  <2>1. n - y \in T
    OBVIOUS
  <2> QED
    BY <2>1, <1>2
<1>4. n - k \in S /\ \A y \in S : n - k >= y
  BY <1>3, Zenon
<1>5. Max(S) \in S /\ \A y \in S : Max(S) >= y
  BY <1>4, Zenon DEF Max
<1> QED
  BY <1>5

(* The values of a function on 1..n stay below a bound. *)
LEMMA BoundedValues ==
  ASSUME NEW n \in Nat, NEW f \in [1..n -> Nat]
  PROVE  \E b \in Nat : \A s \in 1..n : f[s] <= b
<1> DEFINE Below(m, b) == \A s \in 1..m : f[s] <= b
           T == {m \in 0..n : ~ \E b \in Nat : Below(m, b)}
<1>1. SUFFICES ASSUME n \in T PROVE FALSE
  OBVIOUS
<1>2. PICK k \in T : \A j \in T : k <= j
  <2> HIDE DEF T
  <2>1. T \subseteq Nat
    BY DEF T
  <2> QED
    BY <1>1, <2>1, LeastNatural, Zenon
<1>3. k \in 1..n
  <2>1. Below(0, 0)
    OBVIOUS
  <2>2. k # 0
    BY <2>1, <1>2
  <2> QED
    BY <2>2
<1>4. k - 1 \notin T
  <2> HIDE DEF T
  <2>1. k - 1 \in T => k <= k - 1
    BY <1>2, Zenon
  <2> QED
    BY <2>1, <1>3
<1>5. PICK b \in Nat : Below(k - 1, b)
  BY <1>3, <1>4
<1>6. Below(k, b + f[k])
  BY <1>3, <1>5
<1>7. b + f[k] \in Nat
  BY <1>3
<1> QED
  BY <1>2, <1>6, <1>7

(* Two sets of sequences have the same newest one if one is contained in   *)
(* the other and reaches every element of it.                              *)
LEMMA SameNewest ==
  ASSUME NEW A, NEW B, A \subseteq Nat, B \subseteq A,
         \A a \in A : \E b \in B \cup {0} : a <= b
  PROVE  Newest(A) = Newest(B)
<1> DEFINE P(S, x) == x \in S /\ \A y \in S : x >= y
<1>1. ASSUME NEW x, P({0} \cup A, x) PROVE P({0} \cup B, x)
  <2>1. PICK b \in B \cup {0} : x <= b
    BY <1>1
  <2>2. b = x
    BY <1>1, <2>1
  <2> QED
    BY <1>1, <2>2
<1>2. ASSUME NEW x, P({0} \cup B, x) PROVE P({0} \cup A, x)
  <2>1. ASSUME NEW y \in {0} \cup A PROVE x >= y
    <3>1. PICK b \in B \cup {0} : y <= b
      BY <2>1
    <3>2. x >= b
      BY <1>2
    <3> QED
      BY <3>1, <3>2, <1>2
  <2> QED
    BY <1>2, <2>1
<1>3. \A x : P({0} \cup A, x) <=> P({0} \cup B, x)
  <2> HIDE DEF P
  <2> QED
    BY <1>1, <1>2, Zenon
<1>4. (CHOOSE x : P({0} \cup A, x)) = (CHOOSE x : P({0} \cup B, x))
  <2> HIDE DEF P
  <2> QED
    BY <1>3, Zenon
<1>5. Newest(A) = (CHOOSE x : P({0} \cup A, x))
  BY Zenon DEF Newest, Max
<1>6. Newest(B) = (CHOOSE x : P({0} \cup B, x))
  BY Zenon DEF Newest, Max
<1> QED
  BY <1>4, <1>5, <1>6, Zenon

-----------------------------------------------------------------------------
(* What the write batches change. *)

(* CommitBatch: the versions, the two records of the commit, the watermark. *)
LEMMA CommitFields ==
  ASSUME NEW image \in Image, NEW t \in TxnId, visible_seq \in Seq0, visible_seq < MaxSeq
  PROVE  LET new == CommitBatch(t, image)
             seq == visible_seq + 1
         IN  /\ new \in Image /\ seq \in CommitSeq
             /\ new.visible = seq /\ new.oldest = image.oldest
             /\ new.retention = image.retention
             /\ new.sequence = [image.sequence EXCEPT ![seq] = t]
             /\ new.outcome = [image.outcome EXCEPT ![t] = seq]
             /\ new.facts = image.facts \cup {<<f, seq>> : f \in Writes[t]}
             /\ new.prepared = image.prepared /\ new.decision = image.decision
             /\ new.terminal = image.terminal /\ new.vacuum = image.vacuum
             /\ new.allocator = image.allocator
<1> DEFINE seq == visible_seq + 1
           i1 == [image EXCEPT !.facts = @ \cup {<<f, seq>> : f \in Writes[t]}]
           i2 == [i1 EXCEPT !.sequence = [@ EXCEPT ![seq] = t]]
           i3 == [i2 EXCEPT !.outcome = [@ EXCEPT ![t] = seq]]
           i4 == [i3 EXCEPT !.visible = seq]
<1>1. seq \in CommitSeq /\ seq \in Seq0 /\ {<<f, seq>> : f \in Writes[t]} \subseteq Fact \X CommitSeq
  BY RecoveryAssumption DEF Seq0, CommitSeq
<1>2. i1 \in Image
  BY <1>1 DEF Image
<1>3. CommitBatch(t, image) = i4
  BY Zenon DEF CommitBatch
<1>4. /\ CommitBatch(t, image).visible = seq
      /\ CommitBatch(t, image).sequence = [image.sequence EXCEPT ![seq] = t]
      /\ CommitBatch(t, image).outcome = [image.outcome EXCEPT ![t] = seq]
      /\ CommitBatch(t, image).facts = image.facts \cup {<<f, seq>> : f \in Writes[t]}
  BY Zenon DEF CommitBatch, Image
<1>5. /\ CommitBatch(t, image).oldest = image.oldest
      /\ CommitBatch(t, image).retention = image.retention
      /\ CommitBatch(t, image).prepared = image.prepared
      /\ CommitBatch(t, image).decision = image.decision
      /\ CommitBatch(t, image).terminal = image.terminal
      /\ CommitBatch(t, image).vacuum = image.vacuum
      /\ CommitBatch(t, image).allocator = image.allocator
  BY Zenon DEF CommitBatch, Image
<1> HIDE DEF i1
<1>6. i2 \in Image
  BY <1>1, <1>2 DEF Image
<1> HIDE DEF i2
<1>7. i3 \in Image
  BY <1>1, <1>6 DEF Image
<1> HIDE DEF i3
<1>8. i4 \in Image
  BY <1>1, <1>7 DEF Image
<1> QED
  BY <1>1, <1>3, <1>4, <1>5, <1>8, Zenon

(* FinalizeBatch is CommitBatch with the prepare record removed. *)
LEMMA FinalizeFields ==
  ASSUME NEW image \in Image, NEW t \in TxnId, visible_seq \in Seq0, visible_seq < MaxSeq
  PROVE  LET new == FinalizeBatch(t, image)
             seq == visible_seq + 1
         IN  /\ new \in Image /\ seq \in CommitSeq
             /\ new.visible = seq /\ new.oldest = image.oldest
             /\ new.retention = image.retention
             /\ new.sequence = [image.sequence EXCEPT ![seq] = t]
             /\ new.outcome = [image.outcome EXCEPT ![t] = seq]
             /\ new.facts = image.facts \cup {<<f, seq>> : f \in Writes[t]}
             /\ new.prepared = image.prepared \ {t} /\ new.decision = image.decision
             /\ new.terminal = image.terminal /\ new.vacuum = image.vacuum
             /\ new.allocator = image.allocator
<1> DEFINE mid == CommitBatch(t, image)
<1>1. FinalizeBatch(t, image) = [mid EXCEPT !.prepared = @ \ {t}]
  BY Zenon DEF FinalizeBatch
<1>2. /\ mid \in Image /\ visible_seq + 1 \in CommitSeq
      /\ mid.visible = visible_seq + 1 /\ mid.oldest = image.oldest
      /\ mid.retention = image.retention
      /\ mid.sequence = [image.sequence EXCEPT ![visible_seq + 1] = t]
      /\ mid.outcome = [image.outcome EXCEPT ![t] = visible_seq + 1]
      /\ mid.facts = image.facts \cup {<<f, visible_seq + 1>> : f \in Writes[t]}
      /\ mid.prepared = image.prepared /\ mid.decision = image.decision
      /\ mid.terminal = image.terminal /\ mid.vacuum = image.vacuum
      /\ mid.allocator = image.allocator
  BY CommitFields, Zenon
<1> HIDE DEF mid
<1>3. LET new == FinalizeBatch(t, image)
      IN  /\ new \in Image /\ new.prepared = mid.prepared \ {t}
          /\ new.visible = mid.visible /\ new.oldest = mid.oldest
          /\ new.retention = mid.retention /\ new.sequence = mid.sequence
          /\ new.outcome = mid.outcome /\ new.facts = mid.facts
          /\ new.decision = mid.decision /\ new.terminal = mid.terminal
          /\ new.vacuum = mid.vacuum /\ new.allocator = mid.allocator
  BY <1>1, <1>2 DEF Image
<1> QED
  BY <1>2, <1>3, Zenon

(* The records of a prepared transaction: what PersistPreparedCommit,      *)
(* PersistPreparedDecision and the abort write.                            *)
LEMMA PrepareFields ==
  ASSUME NEW image \in Image, NEW t \in External
  PROVE  LET new == [image EXCEPT !.prepared = @ \cup {t}]
         IN  /\ new \in Image /\ new.prepared = image.prepared \cup {t}
             /\ new.visible = image.visible /\ new.oldest = image.oldest
             /\ new.retention = image.retention /\ new.sequence = image.sequence
             /\ new.outcome = image.outcome /\ new.facts = image.facts
             /\ new.decision = image.decision /\ new.terminal = image.terminal
             /\ new.vacuum = image.vacuum /\ new.allocator = image.allocator
  BY DEF Image

LEMMA DecisionFields ==
  ASSUME NEW image \in Image, NEW t \in External, NEW d \in Decision
  PROVE  LET new == DecisionBatch(t, d, image)
         IN  /\ new \in Image /\ new.decision = [image.decision EXCEPT ![t] = d]
             /\ new.visible = image.visible /\ new.oldest = image.oldest
             /\ new.retention = image.retention /\ new.sequence = image.sequence
             /\ new.outcome = image.outcome /\ new.facts = image.facts
             /\ new.prepared = image.prepared /\ new.terminal = image.terminal
             /\ new.vacuum = image.vacuum /\ new.allocator = image.allocator
  BY DEF DecisionBatch, Image

LEMMA AbortFields ==
  ASSUME NEW image \in Image, NEW t \in External
  PROVE  LET new == AbortBatch(t, image)
         IN  /\ new \in Image /\ new.terminal = image.terminal \cup {t}
             /\ new.prepared = image.prepared \ {t}
             /\ new.visible = image.visible /\ new.oldest = image.oldest
             /\ new.retention = image.retention /\ new.sequence = image.sequence
             /\ new.outcome = image.outcome /\ new.facts = image.facts
             /\ new.decision = image.decision
             /\ new.vacuum = image.vacuum /\ new.allocator = image.allocator
<1> DEFINE mid == [image EXCEPT !.terminal = @ \cup {t}]
<1>1. AbortBatch(t, image) = [mid EXCEPT !.prepared = @ \ {t}]
  BY Zenon DEF AbortBatch
<1>2. /\ mid \in Image /\ mid.terminal = image.terminal \cup {t}
      /\ mid.visible = image.visible /\ mid.oldest = image.oldest
      /\ mid.retention = image.retention /\ mid.sequence = image.sequence
      /\ mid.outcome = image.outcome /\ mid.facts = image.facts
      /\ mid.decision = image.decision /\ mid.prepared = image.prepared
      /\ mid.vacuum = image.vacuum /\ mid.allocator = image.allocator
  BY DEF Image
<1> HIDE DEF mid
<1> QED
  BY <1>1, <1>2 DEF Image

(* A lease, the boundary of a vacuum, a cleanup batch, the retention       *)
(* watermark, a prune batch.                                               *)
LEMMA LeaseFields ==
  ASSUME NEW image \in Image, NEW k \in Kind, allocator \in [Kind -> Nat]
  PROVE  LET new == LeaseBatch(k, image)
         IN  /\ new \in Image
             /\ new.allocator = [image.allocator EXCEPT ![k] = allocator[k] + LeaseSize]
             /\ new.visible = image.visible /\ new.oldest = image.oldest
             /\ new.retention = image.retention /\ new.sequence = image.sequence
             /\ new.outcome = image.outcome /\ new.facts = image.facts
             /\ new.prepared = image.prepared /\ new.decision = image.decision
             /\ new.terminal = image.terminal /\ new.vacuum = image.vacuum
  BY RecoveryAssumption DEF LeaseBatch, Image

LEMMA BoundaryFields ==
  ASSUME NEW image \in Image, NEW target \in CommitSeq
  PROVE  LET new == BoundaryBatch(target, image)
         IN  /\ new \in Image /\ new.oldest = target
             /\ new.vacuum.target = target
             /\ new.visible = image.visible /\ new.retention = image.retention
             /\ new.sequence = image.sequence
             /\ new.outcome = image.outcome /\ new.facts = image.facts
             /\ new.prepared = image.prepared /\ new.decision = image.decision
             /\ new.terminal = image.terminal /\ new.allocator = image.allocator
<1> DEFINE vac == [target |-> target, cursor |-> 0]
           mid == [image EXCEPT !.vacuum = vac]
<1>1. BoundaryBatch(target, image) = [mid EXCEPT !.oldest = target]
  BY Zenon DEF BoundaryBatch
<1>2. target \in Seq0 /\ vac \in [target : Seq0, cursor : Nat] /\ vac.target = target
  BY DEF Seq0, CommitSeq
<1> HIDE DEF vac
<1>3. /\ mid \in Image /\ mid.vacuum = vac
      /\ mid.visible = image.visible /\ mid.terminal = image.terminal
      /\ mid.retention = image.retention /\ mid.sequence = image.sequence
      /\ mid.outcome = image.outcome /\ mid.facts = image.facts
      /\ mid.decision = image.decision /\ mid.prepared = image.prepared
      /\ mid.allocator = image.allocator
  BY <1>2 DEF Image
<1> HIDE DEF mid
<1> QED
  BY <1>1, <1>2, <1>3 DEF Image

LEMMA CleanupFields ==
  ASSUME NEW image \in Image, NEW last \in Fact
  PROVE  LET new == CleanupBatch(last, image)
         IN  /\ new \in Image
             /\ new.facts = image.facts \
                  {v \in Obsolete(image) : image.vacuum.cursor < v[1] /\ v[1] <= last}
             /\ new.vacuum.target = 0 \/ new.vacuum.target = image.vacuum.target
             /\ new.visible = image.visible /\ new.oldest = image.oldest
             /\ new.retention = image.retention /\ new.sequence = image.sequence
             /\ new.outcome = image.outcome /\ new.prepared = image.prepared
             /\ new.decision = image.decision /\ new.terminal = image.terminal
             /\ new.allocator = image.allocator
<1> DEFINE gone == {v \in Obsolete(image) : image.vacuum.cursor < v[1] /\ v[1] <= last}
           vac == IF last = Max(Fact) THEN [target |-> 0, cursor |-> 0]
                  ELSE [image.vacuum EXCEPT !.cursor = last]
           mid == [image EXCEPT !.facts = @ \ gone]
<1>1. vac \in [target : Seq0, cursor : Nat] /\ (vac.target = 0 \/ vac.target = image.vacuum.target)
  BY RecoveryAssumption DEF Image, Seq0
<1>2. mid.vacuum = image.vacuum
  BY DEF Image
<1>3. CleanupBatch(last, image) = [mid EXCEPT !.vacuum = vac]
  BY <1>2, Zenon DEF CleanupBatch
<1> HIDE DEF vac, gone
<1>4. /\ mid \in Image /\ mid.facts = image.facts \ gone
      /\ mid.visible = image.visible /\ mid.terminal = image.terminal
      /\ mid.oldest = image.oldest
      /\ mid.retention = image.retention /\ mid.sequence = image.sequence
      /\ mid.outcome = image.outcome
      /\ mid.decision = image.decision /\ mid.prepared = image.prepared
      /\ mid.allocator = image.allocator
  BY DEF Image
<1> HIDE DEF mid
<1>5. LET new == CleanupBatch(last, image)
      IN  /\ new \in Image /\ new.vacuum = vac /\ new.facts = mid.facts
          /\ new.visible = mid.visible /\ new.oldest = mid.oldest
          /\ new.retention = mid.retention /\ new.sequence = mid.sequence
          /\ new.outcome = mid.outcome /\ new.prepared = mid.prepared
          /\ new.decision = mid.decision /\ new.terminal = mid.terminal
          /\ new.allocator = mid.allocator
  BY <1>1, <1>3, <1>4 DEF Image
<1> QED
  BY <1>1, <1>4, <1>5, Zenon DEF gone

LEMMA RetentionFields ==
  ASSUME NEW image \in Image, NEW target \in Seq0
  PROVE  LET new == [image EXCEPT !.retention = target]
         IN  /\ new \in Image /\ new.retention = target
             /\ new.visible = image.visible /\ new.oldest = image.oldest
             /\ new.sequence = image.sequence
             /\ new.outcome = image.outcome /\ new.facts = image.facts
             /\ new.prepared = image.prepared /\ new.decision = image.decision
             /\ new.terminal = image.terminal /\ new.vacuum = image.vacuum
             /\ new.allocator = image.allocator
  BY DEF Image

LEMMA PruneFields ==
  ASSUME NEW image \in Image, NEW last \in CommitSeq
  PROVE  LET new == PruneBatch(last, image)
         IN  /\ new \in Image
             /\ new.sequence = [s \in CommitSeq |-> IF s <= last THEN 0 ELSE image.sequence[s]]
             /\ new.visible = image.visible /\ new.oldest = image.oldest
             /\ new.retention = image.retention
             /\ new.outcome = image.outcome /\ new.facts = image.facts
             /\ new.prepared = image.prepared /\ new.decision = image.decision
             /\ new.terminal = image.terminal /\ new.vacuum = image.vacuum
             /\ new.allocator = image.allocator
  BY DEF PruneBatch, Image

-----------------------------------------------------------------------------
(* What a crash may leave, and how a step changes it. *)

Contents == {images[i] : i \in 1..Len(images)}

Calls ==
  [op : {"none", "open", "finalize", "abort", "vacuum"},
   step : {"none", "validate", "cleanup", "watermark", "prune", "recover"},
   txn : External \cup {0}, cert : Certificate \cup {"none"},
   sync : BOOLEAN, target : Seq0]

Answers == [txn : TxnId, outcome : Outcome, seq : Seq0, durable : BOOLEAN]

Stored == images \in Seq(Image) /\ images # <<>>

Memory ==
  /\ visible_seq \in Seq0 /\ oldest_readable_seq \in Seq0
  /\ sequence_retention_watermark \in Seq0
  /\ allocator \in [Kind -> Nat] /\ next_id \in [Kind -> Nat] /\ limit \in [Kind -> Nat]
  /\ recovery_required \in BOOLEAN
  /\ live \subseteq Nat
  /\ call \in Calls
  /\ answers \subseteq Answers
  /\ handed \subseteq Kind \X Nat

Validating == call = Opening("validate")

(* The batches a step may write to the store, each with what its writer    *)
(* has checked.                                                            *)
Prepares(new) ==
  \E t \in External :
    /\ store.decision[t] = Undecided /\ store.outcome[t] = 0
    /\ new = [store EXCEPT !.prepared = @ \cup {t}]

Decides(new) ==
  \E t \in External : \E outcome \in Outcome : \E cert \in Certificate :
    /\ store.decision[t] = Undecided /\ t \in store.prepared
    /\ new = DecisionBatch(t, <<outcome, cert>>, store)

Finalizes(new) ==
  \E t \in store.prepared :
    /\ store.outcome[t] = 0 /\ visible_seq < MaxSeq
    /\ \/ FinalizeOnOpen /\ call.op = "open" /\ call.step = "recover"
       \/ call.op = "finalize" /\ t = call.txn /\ ~recovery_required
    /\ new = FinalizeBatch(t, store)

Aborts(new) == call.op = "abort" /\ new = AbortBatch(call.txn, store)

Leases(new) == \E k \in Kind : new = LeaseBatch(k, store)

Commits(new) ==
  \E t \in Local :
    /\ t \in live /\ Running /\ ~recovery_required /\ visible_seq < MaxSeq
    /\ new = CommitBatch(t, store)

Bounds(new) ==
  \E target \in CommitSeq :
    /\ Running /\ ~recovery_required /\ target \in oldest_readable_seq..visible_seq
    /\ new = BoundaryBatch(target, store)

Cleans(new) == call.step = "cleanup" /\ \E last \in Fact : new = CleanupBatch(last, store)

Retains(new) ==
  call.step = "watermark" /\ new = [store EXCEPT !.retention = call.target]

Prunes(new) ==
  /\ call.step = "prune"
  /\ \E last \in Prunable(call.target, store) : new = PruneBatch(last, store)

Written(new) ==
  \/ Prepares(new) \/ Decides(new) \/ Finalizes(new) \/ Aborts(new)
  \/ Leases(new) \/ Commits(new)
  \/ Bounds(new) \/ Cleans(new) \/ Retains(new) \/ Prunes(new)

(* The store is the last image, and every image has its type. *)
LEMMA StoreFacts ==
  ASSUME Stored
  PROVE  store \in Contents /\ Contents \subseteq Image /\ store \in Image
  BY DEF Stored, store, Contents

(* A call names an external transaction where it names one. *)
Called == call.op \in {"finalize", "abort"} => call.txn \in External

(* Every batch leaves a store of the right type. *)
LEMMA WrittenType ==
  ASSUME Stored, Memory, Called, NEW new, Written(new)
  PROVE  new \in Image
<1>1. store \in Image
  BY StoreFacts, Zenon
<1>2. CASE Prepares(new)
  BY <1>1, <1>2, PrepareFields, Zenon DEF Prepares
<1>3. CASE Decides(new)
  <2>1. PICK t \in External, outcome \in Outcome, cert \in Certificate :
               new = DecisionBatch(t, <<outcome, cert>>, store)
    BY <1>3, Zenon DEF Decides
  <2>2. <<outcome, cert>> \in Decision
    BY DEF Decision
  <2> QED
    BY <1>1, <2>1, <2>2, DecisionFields, Zenon
<1>4. CASE Finalizes(new)
  <2>1. PICK t \in store.prepared : visible_seq < MaxSeq /\ new = FinalizeBatch(t, store)
    BY <1>4, Zenon DEF Finalizes
  <2>2. t \in TxnId
    BY <1>1 DEF Image, TxnId
  <2>3. visible_seq \in Seq0
    BY Zenon DEF Memory
  <2> QED
    BY <1>1, <2>1, <2>2, <2>3, FinalizeFields, Zenon
<1>5. CASE Aborts(new)
  <2>1. call.txn \in External
    BY <1>5 DEF Aborts, Called
  <2> QED
    BY <1>1, <1>5, <2>1, AbortFields, Zenon DEF Aborts
<1>6. CASE Leases(new)
  BY <1>1, <1>6, LeaseFields, Zenon DEF Leases, Memory
<1>7. CASE Commits(new)
  <2>1. Local \subseteq TxnId
    BY DEF TxnId
  <2> QED
    BY <1>1, <1>7, <2>1, CommitFields, Zenon DEF Commits, Memory
<1>8. CASE Bounds(new)
  BY <1>1, <1>8, BoundaryFields, Zenon DEF Bounds
<1>9. CASE Cleans(new)
  BY <1>1, <1>9, CleanupFields, Zenon DEF Cleans
<1>10. CASE Retains(new)
  <2>1. call.target \in Seq0
    BY DEF Memory, Calls
  <2> QED
    BY <1>1, <1>10, <2>1, RetentionFields, Zenon DEF Retains
<1>11. CASE Prunes(new)
  <2>1. Prunable(call.target, store) \subseteq CommitSeq
    BY DEF Prunable
  <2> QED
    BY <1>1, <1>11, <2>1, PruneFields, Zenon DEF Prunes
<1> QED
  BY <1>2, <1>3, <1>4, <1>5, <1>6, <1>7, <1>8, <1>9, <1>10, <1>11, Zenon DEF Written

(* A synchronized write leaves one image, a buffered one adds one. *)
LEMMA WriteFacts ==
  ASSUME Stored, NEW new \in Image, NEW sync \in BOOLEAN, Write(new, sync)
  PROVE  /\ Stored' /\ store' = new
         /\ sync => Contents' = {new}
         /\ ~sync => Contents' = Contents \cup {new}
<1>1. CASE sync
  <2>1. images' = <<new>>
    BY <1>1 DEF Write
  <2> QED
    BY <1>1, <2>1 DEF Stored, store, Contents
<1>2. CASE ~sync
  <2>1. images' = Append(images, new)
    BY <1>2 DEF Write
  <2>2. Stored' /\ store' = new
    BY <2>1 DEF Stored, store
  <2>3. Contents' = Contents \cup {new}
    <3>1. /\ Len(images) \in Nat /\ Len(images') = Len(images) + 1
          /\ images'[Len(images) + 1] = new
          /\ \A i \in 1..Len(images) : images'[i] = images[i]
      BY <2>1 DEF Stored
    <3> QED
      BY <3>1 DEF Contents
  <2> QED
    BY <1>2, <2>2, <2>3
<1> QED
  BY <1>1, <1>2

(* A write that fails leaves the images alone or adds one. *)
LEMMA IndeterminateFacts ==
  ASSUME Stored, NEW new \in Image, NEW next, WriteIndeterminate(new, next)
  PROVE  /\ Stored'
         /\ \/ store' = store /\ Contents' = Contents
            \/ store' = new /\ Contents' = Contents \cup {new}
<1>1. CASE images' = images
  BY <1>1 DEF Stored, store, Contents
<1>2. CASE images' = Append(images, new)
  <2>1. Write(new, FALSE)
    BY <1>2, Zenon DEF Write
  <2> QED
    BY <2>1, WriteFacts, Zenon
<1> QED
  BY <1>1, <1>2, Zenon DEF WriteIndeterminate

(* A crash leaves one of the images. *)
LEMMA CrashFacts ==
  ASSUME Stored, NEW i \in 1..Len(images), images' = <<images[i]>>
  PROVE  Stored' /\ store' \in Contents /\ Contents' = {store'}
  BY DEF Stored, store, Contents

LEMMA KeepFacts ==
  ASSUME Stored, images' = images
  PROVE  Stored' /\ store' = store /\ Contents' = Contents
  BY DEF Stored, store, Contents

-----------------------------------------------------------------------------
(* The steps of Next, by what they do to the store and to the call. *)

Shaped(c, op, step, target) ==
  c \in Calls /\ c.op = op /\ c.step = step /\ c.target = target

DecidedCall(c, op, t, sync) == Shaped(c, op, "none", 0) /\ c.txn = t /\ c.sync = sync

(* A step that only moves the call on. *)
MoveCall ==
  /\ \/ call' = Idle /\ ~Validating
     \/ Shaped(call', "open", "recover", 0) /\ call.op = "open" /\ ~Validating
     \/ /\ call' = [call EXCEPT !.step = "prune"] /\ call.step = "watermark"
        /\ call.target <= sequence_retention_watermark
     \/ \E t \in External : \E cert \in Certificate : \E sync \in BOOLEAN :
          /\ store.decision[t] = <<"commit", cert>>
          /\ Ready /\ DecidedCall(call', "finalize", t, sync)
     \/ \E t \in External : \E cert \in Certificate :
          /\ store.decision[t] = <<"abort", cert>>
          /\ Ready /\ DecidedCall(call', "abort", t, TRUE)
     \/ Ready /\ ~recovery_required
        /\ Shaped(call', "vacuum", "watermark", oldest_readable_seq)
  /\ UNCHANGED <<images, watermarks, leases, recovery_required, live, history, env>>

SaveRecovered ==
  /\ call.op = "open" /\ call.step = "recover" /\ call' = call
  /\ \E new : Finalizes(new) /\ Write(new, FALSE)
  /\ visible_seq' = visible_seq + 1
  /\ UNCHANGED <<oldest_readable_seq, sequence_retention_watermark, leases,
                 recovery_required, live, history, env>>

SavePrepared ==
  /\ Ready /\ \E new : Prepares(new) /\ Write(new, TRUE)
  /\ UNCHANGED <<watermarks, leases, recovery_required, live, call, history, env>>

SaveDecision ==
  /\ Ready
  /\ \E t \in External : \E cert \in Certificate : \E sync \in BOOLEAN :
     \E d \in {<<"finalize", "commit">>, <<"abort", "abort">>} :
       /\ store.decision[t] = Undecided /\ t \in store.prepared
       /\ Write(DecisionBatch(t, <<d[2], cert>>, store), TRUE)
       /\ DecidedCall(call', d[1], t, sync)
  /\ UNCHANGED <<watermarks, leases, recovery_required, live, history, env>>

SaveFinalized ==
  /\ call.op = "finalize" /\ call' = Idle
  /\ \E new : Finalizes(new) /\ Write(new, call.sync)
  /\ visible_seq' = visible_seq + 1
  /\ Answer(call.txn, "commit", visible_seq + 1, call.sync)
  /\ UNCHANGED <<oldest_readable_seq, sequence_retention_watermark, leases,
                 recovery_required, live, handed, env>>

SaveAborted ==
  /\ call.op = "abort" /\ call' = Idle
  /\ Write(AbortBatch(call.txn, store), TRUE)
  /\ Answer(call.txn, "abort", 0, TRUE)
  /\ UNCHANGED <<watermarks, leases, recovery_required, live, handed, env>>

SaveLease(k) ==
  /\ Running /\ ~recovery_required /\ next_id[k] = limit[k]
  /\ Write(LeaseBatch(k, store), TRUE)
  /\ allocator' = [allocator EXCEPT ![k] = @ + LeaseSize]
  /\ next_id' = [next_id EXCEPT ![k] = allocator[k]]
  /\ limit' = [limit EXCEPT ![k] = allocator[k] + LeaseSize]
  /\ UNCHANGED <<watermarks, recovery_required, live, call, history, env>>

SaveCommit(t) ==
  /\ PublisherFree /\ ~recovery_required /\ t \in live /\ visible_seq < MaxSeq
  /\ Write(CommitBatch(t, store), TRUE)
  /\ visible_seq' = visible_seq + 1
  /\ live' = live \ {t}
  /\ Answer(t, "commit", visible_seq + 1, TRUE)
  /\ UNCHANGED <<oldest_readable_seq, sequence_retention_watermark, leases,
                 recovery_required, call, handed, env>>

SaveBoundary(target) ==
  /\ Ready /\ ~recovery_required /\ target \in oldest_readable_seq..visible_seq
  /\ Write(BoundaryBatch(target, store), TRUE)
  /\ oldest_readable_seq' = target
  /\ Shaped(call', "vacuum", "cleanup", target)
  /\ UNCHANGED <<visible_seq, sequence_retention_watermark, leases, recovery_required,
                 live, history, env>>

SaveVacuumed ==
  /\ \E new : \E sync \in BOOLEAN :
       /\ \/ /\ Cleans(new)
             /\ \/ call' = call \/ call' = [call EXCEPT !.step = "watermark"]
                \/ call.op # "open" /\ call' = Idle
                \/ call.op = "open" /\ Shaped(call', "open", "recover", 0)
          \/ Retains(new) /\ call' = [call EXCEPT !.step = "prune"]
          \/ Prunes(new) /\ call' = call
       /\ Write(new, sync) /\ (sync \/ Prunes(new))
       /\ sequence_retention_watermark' = new.retention
  /\ UNCHANGED <<visible_seq, oldest_readable_seq, leases, recovery_required, live,
                 history, env>>

Fails ==
  \E new : \E next \in {Idle, call} :
    /\ Running /\ (call.op = "vacuum" => next = Idle)
    /\ Written(new) /\ WriteIndeterminate(new, next)

Steps ==
  \/ OpenStore \/ Crash \/ MoveCall \/ SaveRecovered \/ SavePrepared \/ SaveDecision
  \/ SaveFinalized \/ FinalizeReplay \/ SaveAborted
  \/ \E k \in Kind : AllocateId(k) \/ SaveLease(k)
  \/ \E t \in Local : SaveCommit(t)
  \/ \E target \in CommitSeq : SaveBoundary(target)
  \/ SaveVacuumed \/ Fails

(* The calls a step leaves behind. *)
LEMMA IdleShape == Shaped(Idle, "none", "none", 0)
  BY RecoveryAssumption DEF Shaped, Idle, Calls, Seq0

LEMMA StepShape ==
  ASSUME NEW c \in Calls,
         NEW s \in {"none", "validate", "cleanup", "watermark", "prune", "recover"}
  PROVE  /\ Shaped([c EXCEPT !.step = s], c.op, s, c.target)
         /\ [c EXCEPT !.step = s].txn = c.txn /\ [c EXCEPT !.step = s].sync = c.sync
  BY DEF Shaped, Calls

LEMMA OpenShape ==
  ASSUME NEW s \in {"validate", "cleanup", "watermark", "recover"}, NEW n \in Seq0
  PROVE  /\ Shaped(Opening(s), "open", s, 0)
         /\ Shaped([Opening(s) EXCEPT !.target = n], "open", s, n)
<1> DEFINE i1 == [Idle EXCEPT !.op = "open"]
<1>1. Shaped(i1, "open", "none", 0)
  BY IdleShape DEF Shaped, Calls
<1>2. Opening(s) = [i1 EXCEPT !.step = s]
  BY Zenon DEF Opening
<1> HIDE DEF i1
<1>3. Shaped(Opening(s), "open", s, 0)
  BY <1>1, <1>2 DEF Shaped, Calls
<1>4. Shaped([Opening(s) EXCEPT !.target = n], "open", s, n)
  BY <1>3 DEF Shaped, Calls
<1> QED
  BY <1>3, <1>4

LEMMA OpeningFacts ==
  /\ Shaped(Opening("recover"), "open", "recover", 0)
  /\ Shaped(Opening("validate"), "open", "validate", 0)
  /\ Opening("validate").op = "open" /\ Opening("validate").step = "validate"
<1>1. 0 \in Seq0
  BY RecoveryAssumption DEF Seq0
<1>2. /\ Shaped(Opening("recover"), "open", "recover", 0)
      /\ Shaped(Opening("validate"), "open", "validate", 0)
  BY <1>1, OpenShape, Zenon
<1> QED
  BY <1>2, Zenon DEF Shaped

LEMMA VacuumShape ==
  ASSUME NEW s \in {"cleanup", "watermark"}, NEW n \in Seq0
  PROVE  Shaped([Idle EXCEPT !.op = "vacuum", !.step = s, !.target = n], "vacuum", s, n)
<1> DEFINE i1 == [Idle EXCEPT !.op = "vacuum"]
           i2 == [i1 EXCEPT !.step = s]
           i3 == [i2 EXCEPT !.target = n]
<1>1. Shaped(i1, "vacuum", "none", 0)
  BY IdleShape DEF Shaped, Calls
<1>2. [Idle EXCEPT !.op = "vacuum", !.step = s, !.target = n] = i3
  BY Zenon
<1> HIDE DEF i1
<1>3. Shaped(i2, "vacuum", s, 0)
  BY <1>1 DEF Shaped, Calls
<1> HIDE DEF i2
<1>4. Shaped(i3, "vacuum", s, n)
  BY <1>3 DEF Shaped, Calls
<1> QED
  BY <1>2, <1>4, Zenon

LEMMA DecidedShape ==
  ASSUME NEW op \in {"finalize", "abort"}, NEW t \in External, NEW cert \in Certificate,
         NEW sync \in BOOLEAN
  PROVE  DecidedCall([Idle EXCEPT !.op = op, !.txn = t, !.cert = cert, !.sync = sync],
                     op, t, sync)
<1> DEFINE i1 == [Idle EXCEPT !.op = op]
           i2 == [i1 EXCEPT !.txn = t]
           i3 == [i2 EXCEPT !.cert = cert]
           i4 == [i3 EXCEPT !.sync = sync]
<1>1. Shaped(i1, op, "none", 0)
  BY IdleShape DEF Shaped, Calls
<1>2. [Idle EXCEPT !.op = op, !.txn = t, !.cert = cert, !.sync = sync] = i4
  BY Zenon
<1> HIDE DEF i1
<1>3. Shaped(i2, op, "none", 0) /\ i2.txn = t
  BY <1>1 DEF Shaped, Calls
<1> HIDE DEF i2
<1>4. Shaped(i3, op, "none", 0) /\ i3.txn = t
  BY <1>3 DEF Shaped, Calls
<1> HIDE DEF i3
<1>5. Shaped(i4, op, "none", 0) /\ i4.txn = t /\ i4.sync = sync
  BY <1>4 DEF Shaped, Calls
<1> QED
  BY <1>2, <1>5, Zenon DEF DecidedCall

(* PersistPreparedCommit, the two decisions, and what follows them. *)
LEMMA PrepareSteps ==
  ASSUME NEW t \in External, PersistPreparedCommit(t)
  PROVE  Steps
<1> DEFINE new == [store EXCEPT !.prepared = @ \cup {t}]
<1>1. Prepares(new) /\ Ready
  BY Zenon DEF Prepares, PersistPreparedCommit
<1>2. CASE Write(new, TRUE) /\ UNCHANGED <<watermarks, leases, recovery_required, live,
                                           call, history, env, failures>>
  <2>1. SavePrepared
    BY <1>1, <1>2, Zenon DEF SavePrepared
  <2> QED
    BY <2>1, Zenon DEF Steps
<1>3. CASE WriteIndeterminate(new, Idle)
  <2>1. Running
    BY <1>1, IdleShape DEF Running, Ready, Shaped
  <2>2. Written(new)
    BY <1>1, Zenon DEF Written
  <2>3. Fails
    BY <1>3, <2>1, <2>2, Zenon DEF Fails
  <2> QED
    BY <2>3, Zenon DEF Steps
<1> QED
  BY <1>2, <1>3, Zenon DEF PersistPreparedCommit

LEMMA DecideSteps ==
  ASSUME NEW t \in External, NEW cert \in Certificate, NEW sync \in BOOLEAN,
         \/ FinalizePreparedCommit(t, cert, sync)
         \/ AbortPreparedCommit(t, cert) /\ sync = TRUE
  PROVE  Steps
<1>1. PICK d \in {<<"finalize", "commit">>, <<"abort", "abort">>} :
           /\ Decide(t, d[1], d[2], cert, sync)
           /\ d[1] = "abort" => sync = TRUE
  <2>1. CASE FinalizePreparedCommit(t, cert, sync)
    <3> DEFINE e == <<"finalize", "commit">>
    <3>1. e[1] = "finalize" /\ e[2] = "commit" /\ e[1] # "abort"
      OBVIOUS
    <3>2. Decide(t, e[1], e[2], cert, sync)
      BY <2>1, <3>1, Zenon DEF FinalizePreparedCommit
    <3> QED
      BY <3>1, <3>2, Zenon
  <2>2. CASE AbortPreparedCommit(t, cert) /\ sync = TRUE
    <3> DEFINE e == <<"abort", "abort">>
    <3>1. e[1] = "abort" /\ e[2] = "abort"
      OBVIOUS
    <3>2. Decide(t, e[1], e[2], cert, sync)
      BY <2>2, <3>1, Zenon DEF AbortPreparedCommit
    <3> QED
      BY <2>2, <3>2, Zenon
  <2> QED
    BY <2>1, <2>2, Zenon
<1> DEFINE decided == [Idle EXCEPT !.op = d[1], !.txn = t, !.cert = cert, !.sync = sync]
           new == DecisionBatch(t, <<d[2], cert>>, store)
<1>2. /\ d[1] \in {"finalize", "abort"} /\ d[2] \in Outcome
      /\ \/ d[1] = "finalize" /\ d[2] = "commit"
         \/ d[1] = "abort" /\ d[2] = "abort"
  BY DEF Outcome
<1>3. DecidedCall(decided, d[1], t, sync)
  BY <1>2, DecidedShape, Zenon
<1>4. Ready
  BY <1>1, Zenon DEF Decide
<1> HIDE DEF decided, new
<1>5. CASE /\ store.decision[t] = <<d[2], cert>> /\ call' = decided
           /\ UNCHANGED <<images, recovery_required, failures>>
           /\ UNCHANGED <<watermarks, leases, live, history, env>>
  <2>1. MoveCall
    <3>1. CASE d[1] = "finalize" /\ d[2] = "commit"
      BY <1>3, <1>4, <1>5, <3>1, Zenon DEF MoveCall
    <3>2. CASE d[1] = "abort" /\ d[2] = "abort"
      BY <1>1, <1>3, <1>4, <1>5, <3>2, Zenon DEF MoveCall
    <3> QED
      BY <1>2, <3>1, <3>2, Zenon
  <2> QED
    BY <2>1, Zenon DEF Steps
<1>6. CASE /\ store.decision[t] = Undecided /\ t \in store.prepared
           /\ Write(new, TRUE) /\ call' = decided
           /\ UNCHANGED <<watermarks, leases, recovery_required, live, history, env,
                          failures>>
  <2>1. SaveDecision
    BY <1>3, <1>4, <1>6, Zenon DEF SaveDecision, new
  <2> QED
    BY <2>1, Zenon DEF Steps
<1>7. CASE /\ store.decision[t] = Undecided /\ t \in store.prepared
           /\ WriteIndeterminate(new, Idle)
  <2>1. Running
    BY <1>4, IdleShape DEF Running, Ready, Shaped
  <2>2. Written(new)
    BY <1>2, <1>7, Zenon DEF Written, Decides, new
  <2>3. Fails
    BY <1>7, <2>1, <2>2, Zenon DEF Fails
  <2> QED
    BY <2>3, Zenon DEF Steps
<1> QED
  BY <1>1, <1>5, <1>6, <1>7, Zenon DEF Decide, decided, new

LEMMA FinalizeSteps ==
  ASSUME FinalizeCommit
  PROVE  Steps
<1> DEFINE t == call.txn
           new == FinalizeBatch(t, store)
<1>1. /\ call.op = "finalize" /\ t \in store.prepared /\ ~recovery_required
      /\ store.outcome[t] = 0 /\ visible_seq < MaxSeq
  BY Zenon DEF FinalizeCommit
<1>2. Finalizes(new)
  BY <1>1, Zenon DEF Finalizes
<1>3. CASE /\ Write(new, call.sync) /\ visible_seq' = visible_seq + 1
           /\ Answer(t, "commit", visible_seq + 1, call.sync) /\ call' = Idle
           /\ UNCHANGED <<oldest_readable_seq, sequence_retention_watermark, leases,
                          recovery_required, live, handed, env, failures>>
  <2>1. SaveFinalized
    BY <1>1, <1>2, <1>3, Zenon DEF SaveFinalized
  <2> QED
    BY <2>1, Zenon DEF Steps
<1>4. CASE WriteIndeterminate(new, Idle)
  <2>1. Running
    BY <1>1 DEF Running
  <2>2. Written(new)
    BY <1>2, Zenon DEF Written
  <2>3. Fails
    BY <1>4, <2>1, <2>2, Zenon DEF Fails
  <2> QED
    BY <2>3, Zenon DEF Steps
<1> QED
  BY <1>3, <1>4, Zenon DEF FinalizeCommit

LEMMA AbortSteps ==
  ASSUME AbortCleanup
  PROVE  Steps
<1> DEFINE t == call.txn
           new == AbortBatch(t, store)
<1>1. call.op = "abort"
  BY Zenon DEF AbortCleanup
<1>2. CASE /\ Write(new, TRUE) /\ Answer(t, "abort", 0, TRUE) /\ call' = Idle
           /\ UNCHANGED <<watermarks, leases, recovery_required, live, handed, env,
                          failures>>
  <2>1. SaveAborted
    BY <1>1, <1>2, Zenon DEF SaveAborted
  <2> QED
    BY <2>1, Zenon DEF Steps
<1>3. CASE WriteIndeterminate(new, Idle)
  <2>1. Running
    BY <1>1 DEF Running
  <2>2. Written(new)
    BY <1>1, Zenon DEF Written, Aborts
  <2>3. Fails
    BY <1>3, <2>1, <2>2, Zenon DEF Fails
  <2> QED
    BY <2>3, Zenon DEF Steps
<1> QED
  BY <1>2, <1>3, Zenon DEF AbortCleanup

(* A lease, the commit of a local transaction, the boundary of a vacuum. *)
LEMMA LeaseSteps ==
  ASSUME NEW k \in Kind, ExtendLease(k)
  PROVE  Steps
<1> DEFINE new == LeaseBatch(k, store)
<1>1. Running /\ call.op # "vacuum"
  <2>1. CASE k = "transaction"
    BY <2>1, Zenon DEF ExtendLease, PublisherFree
  <2>2. CASE k # "transaction"
    <3>1. call = Idle
      BY <2>2, Zenon DEF ExtendLease, Ready
    <3> QED
      BY <3>1, IdleShape DEF Running, Shaped
  <2> QED
    BY <2>1, <2>2
<1>2. ~recovery_required /\ next_id[k] = limit[k]
  BY Zenon DEF ExtendLease
<1>3. CASE /\ Write(new, TRUE)
           /\ allocator' = [allocator EXCEPT ![k] = @ + LeaseSize]
           /\ next_id' = [next_id EXCEPT ![k] = allocator[k]]
           /\ limit' = [limit EXCEPT ![k] = allocator[k] + LeaseSize]
           /\ UNCHANGED <<watermarks, recovery_required, live, call, history, env,
                          failures>>
  <2>1. SaveLease(k)
    BY <1>1, <1>2, <1>3, Zenon DEF SaveLease
  <2> QED
    BY <2>1, Zenon DEF Steps
<1>4. CASE WriteIndeterminate(new, call)
  <2>1. Written(new)
    BY Zenon DEF Written, Leases
  <2>2. Fails
    BY <1>1, <1>4, <2>1, Zenon DEF Fails
  <2> QED
    BY <2>2, Zenon DEF Steps
<1> QED
  BY <1>3, <1>4, Zenon DEF ExtendLease

LEMMA CommitSteps ==
  ASSUME NEW t \in Local, CommitLocal(t)
  PROVE  Steps
<1> DEFINE new == CommitBatch(t, store)
<1>1. PublisherFree /\ ~recovery_required /\ t \in live /\ visible_seq < MaxSeq
  BY Zenon DEF CommitLocal
<1>2. CASE /\ Write(new, TRUE) /\ visible_seq' = visible_seq + 1 /\ live' = live \ {t}
           /\ Answer(t, "commit", visible_seq + 1, TRUE)
           /\ UNCHANGED <<oldest_readable_seq, sequence_retention_watermark, leases,
                          recovery_required, call, handed, env, failures>>
  <2>1. SaveCommit(t)
    BY <1>1, <1>2, Zenon DEF SaveCommit
  <2> QED
    BY <2>1, Zenon DEF Steps
<1>3. CASE WriteIndeterminate(new, call)
  <2>1. Written(new)
    BY <1>1, Zenon DEF Written, Commits, PublisherFree
  <2>2. Fails
    BY <1>1, <1>3, <2>1, Zenon DEF Fails, PublisherFree
  <2> QED
    BY <2>2, Zenon DEF Steps
<1> QED
  BY <1>2, <1>3, Zenon DEF CommitLocal

LEMMA BoundarySteps ==
  ASSUME NEW target \in CommitSeq, Vacuum(target)
  PROVE  Steps
<1> DEFINE started(step) == [Idle EXCEPT !.op = "vacuum", !.step = step, !.target = target]
           new == BoundaryBatch(target, store)
<1>1. Ready /\ ~recovery_required /\ target \in oldest_readable_seq..visible_seq
  BY Zenon DEF Vacuum
<1>2. Running
  BY <1>1, IdleShape DEF Running, Ready, Shaped
<1>3. target \in Seq0
  BY DEF Seq0, CommitSeq
<1>4. /\ Shaped(started("cleanup"), "vacuum", "cleanup", target)
      /\ Shaped(started("watermark"), "vacuum", "watermark", target)
  BY <1>3, VacuumShape, Zenon
<1> HIDE DEF started, new
<1>5. CASE /\ target = oldest_readable_seq /\ call' = started("watermark")
           /\ UNCHANGED <<images, oldest_readable_seq, recovery_required, failures>>
           /\ UNCHANGED <<visible_seq, sequence_retention_watermark, leases, live,
                          history, env>>
  <2>1. MoveCall
    BY <1>1, <1>4, <1>5, Zenon DEF MoveCall, watermarks
  <2> QED
    BY <2>1, Zenon DEF Steps
<1>6. CASE /\ Write(new, TRUE) /\ oldest_readable_seq' = target
           /\ call' = started("cleanup")
           /\ UNCHANGED <<visible_seq, sequence_retention_watermark, leases,
                          recovery_required, live, history, env, failures>>
  <2>1. SaveBoundary(target)
    BY <1>1, <1>4, <1>6, Zenon DEF SaveBoundary, new
  <2> QED
    BY <2>1, Zenon DEF Steps
<1>7. CASE WriteIndeterminate(new, Idle)
  <2>1. Written(new)
    BY <1>1, <1>2, Zenon DEF Written, Bounds, new
  <2>2. Fails
    BY <1>2, <1>7, <2>1, Zenon DEF Fails
  <2> QED
    BY <2>2, Zenon DEF Steps
<1> QED
  BY <1>5, <1>6, <1>7, Zenon DEF Vacuum, started, new

(* A cleanup batch, the retention watermark, a prune batch, and the end of *)
(* the vacuum, in a vacuum and in Open.                                    *)
LEMMA VacuumDoneShape ==
  \/ call.op = "open" /\ Shaped(VacuumDone, "open", "recover", 0)
  \/ call.op # "open" /\ VacuumDone = Idle
  BY OpeningFacts, Zenon DEF VacuumDone

LEMMA VacuumWriteSteps ==
  ASSUME Memory, call.op \in {"open", "vacuum"},
         NEW new, NEW sync \in BOOLEAN, NEW next, VacuumWrite(new, sync, next),
         sync \/ Prunes(new),
         \/ /\ Cleans(new)
            /\ \/ next = call \/ next = [call EXCEPT !.step = "watermark"]
               \/ next = VacuumDone
         \/ Retains(new) /\ next = [call EXCEPT !.step = "prune"]
         \/ Prunes(new) /\ next = call
  PROVE  Steps
<1>1. CASE /\ Write(new, sync) /\ call' = next
           /\ UNCHANGED <<visible_seq, oldest_readable_seq, leases, recovery_required,
                          live, history, env, failures>>
           /\ sequence_retention_watermark' = new.retention
  <2>1. \/ /\ Cleans(new)
           /\ \/ call' = call \/ call' = [call EXCEPT !.step = "watermark"]
              \/ call.op # "open" /\ call' = Idle
              \/ call.op = "open" /\ Shaped(call', "open", "recover", 0)
        \/ Retains(new) /\ call' = [call EXCEPT !.step = "prune"]
        \/ Prunes(new) /\ call' = call
    BY <1>1, VacuumDoneShape, Zenon
  <2>2. SaveVacuumed
    BY <1>1, <2>1, Zenon DEF SaveVacuumed
  <2> QED
    BY <2>2, Zenon DEF Steps
<1>2. CASE call.op = "vacuum" /\ WriteIndeterminate(new, Idle)
  <2>1. Running
    BY <1>2 DEF Running
  <2>2. Written(new)
    BY Zenon DEF Written
  <2>3. Fails
    BY <1>2, <2>1, <2>2, Zenon DEF Fails
  <2> QED
    BY <2>3, Zenon DEF Steps
<1> QED
  BY <1>1, <1>2, Zenon DEF VacuumWrite

LEMMA CleanupSteps ==
  ASSUME Memory, call.op \in {"open", "vacuum"}, DeleteObsoleteFactVersions
  PROVE  Steps
<1> DEFINE next(last) == IF last < Max(Fact) THEN call
                         ELSE IF PruneRecords THEN [call EXCEPT !.step = "watermark"]
                         ELSE VacuumDone
<1>1. PICK last \in Fact :
           call.step = "cleanup" /\ VacuumWrite(CleanupBatch(last, store), TRUE, next(last))
  BY Zenon DEF DeleteObsoleteFactVersions
<1>2. \/ next(last) = call \/ next(last) = [call EXCEPT !.step = "watermark"]
      \/ next(last) = VacuumDone
  BY Zenon
<1> HIDE DEF next
<1>3. Cleans(CleanupBatch(last, store))
  BY <1>1, Zenon DEF Cleans
<1> QED
  BY <1>1, <1>2, <1>3, VacuumWriteSteps, Zenon

LEMMA PruneSteps ==
  ASSUME Memory, call.op \in {"open", "vacuum"}, PruneSequenceRecords
  PROVE  Steps
<1>1. call.target \in Seq0 /\ call \in Calls
  BY DEF Memory, Calls
<1>2. ASSUME call.step \in {"watermark", "prune"}, call' = VacuumDone,
             UNCHANGED <<images, watermarks, leases, recovery_required, live, history,
                         env, failures>>
      PROVE  Steps
  <2>1. ~Validating
    <3>1. Opening("validate").step = "validate"
      BY OpeningFacts
    <3> QED
      BY <1>2, <3>1 DEF Validating
  <2>2. MoveCall
    BY <1>2, <2>1, VacuumDoneShape, Zenon DEF MoveCall
  <2> QED
    BY <2>2, Zenon DEF Steps
<1>3. ASSUME call.step = "watermark",
             call.target > 1 /\ sequence_retention_watermark < call.target,
             VacuumWrite([store EXCEPT !.retention = call.target], TRUE,
                         [call EXCEPT !.step = "prune"])
      PROVE  Steps
  <2> DEFINE new == [store EXCEPT !.retention = call.target]
  <2>1. Retains(new)
    BY <1>3, Zenon DEF Retains
  <2> QED
    BY <1>3, <2>1, VacuumWriteSteps, Zenon
<1>4. ASSUME call.step = "watermark",
             ~(call.target > 1 /\ sequence_retention_watermark < call.target),
             call' = IF call.target > 1 THEN [call EXCEPT !.step = "prune"] ELSE VacuumDone,
             UNCHANGED <<images, watermarks, leases, recovery_required, live, history,
                         env, failures>>
      PROVE  Steps
  <2>1. CASE call.target > 1
    <3>1. call.target <= sequence_retention_watermark
      BY <1>1, <1>4, <2>1 DEF Memory, Seq0
    <3>2. MoveCall
      BY <1>4, <2>1, <3>1, Zenon DEF MoveCall
    <3> QED
      BY <3>2, Zenon DEF Steps
  <2>2. CASE ~(call.target > 1)
    BY <1>2, <1>4, <2>2, Zenon
  <2> QED
    BY <2>1, <2>2, Zenon
<1>5. ASSUME call.step = "prune", NEW last \in Prunable(call.target, store),
             VacuumWrite(PruneBatch(last, store), PruneSync, call)
      PROVE  Steps
  <2>1. Prunes(PruneBatch(last, store))
    BY <1>5, Zenon DEF Prunes
  <2>2. PruneSync \in BOOLEAN
    BY RecoveryAssumption, Zenon
  <2> QED
    BY <1>5, <2>1, <2>2, VacuumWriteSteps, Zenon
<1> QED
  BY <1>2, <1>3, <1>4, <1>5, Zenon DEF PruneSequenceRecords

(* Open finalizes a prepared transaction, or has none left to finalize. *)
LEMMA RecoverSteps ==
  ASSUME RecoverPrepared
  PROVE  Steps
<1>1. call.op = "open" /\ call.step = "recover"
  BY Zenon DEF RecoverPrepared
<1>2. CASE /\ FinalizeOnOpen /\ visible_seq < MaxSeq
           /\ \E t \in store.prepared :
                /\ \A u \in store.prepared : t <= u
                /\ store.outcome[t] = 0
                /\ Write(FinalizeBatch(t, store), FALSE)
                /\ visible_seq' = visible_seq + 1
           /\ call' = call
  <2>1. PICK t \in store.prepared :
             /\ store.outcome[t] = 0 /\ Write(FinalizeBatch(t, store), FALSE)
             /\ visible_seq' = visible_seq + 1
    BY <1>2, Zenon
  <2>2. Finalizes(FinalizeBatch(t, store))
    BY <1>1, <1>2, <2>1, Zenon DEF Finalizes
  <2>3. SaveRecovered
    BY <1>1, <1>2, <2>1, <2>2, Zenon DEF SaveRecovered, RecoverPrepared
  <2> QED
    BY <2>3, Zenon DEF Steps
<1>3. CASE call' = Idle /\ UNCHANGED <<images, visible_seq>>
  <2>1. Opening("validate").step = "validate"
    BY OpeningFacts
  <2>2. ~Validating
    BY <1>1, <2>1 DEF Validating
  <2>3. MoveCall
    BY <1>3, <2>2, Zenon DEF MoveCall, RecoverPrepared, watermarks
  <2> QED
    BY <2>3, Zenon DEF Steps
<1> QED
  BY <1>2, <1>3, Zenon DEF RecoverPrepared

LEMMA NextSteps ==
  ASSUME Memory, Next
  PROVE  Steps
<1>1. CASE Open
  <2>1. CASE OpenStore
    BY <2>1, Zenon DEF Steps
  <2>2. CASE call.op = "open" /\ (DeleteObsoleteFactVersions \/ PruneSequenceRecords)
    BY <2>2, CleanupSteps, PruneSteps, Zenon
  <2>3. CASE RecoverPrepared
    BY <2>3, RecoverSteps, Zenon
  <2> QED
    BY <1>1, <2>1, <2>2, <2>3, Zenon DEF Open
<1>2. CASE Crash \/ FinalizeReplay \/ \E k \in Kind : AllocateId(k)
  BY <1>2, Zenon DEF Steps
<1>3. ASSUME NEW t \in External, PersistPreparedCommit(t)
      PROVE  Steps
  BY <1>3, PrepareSteps, Zenon
<1>4. ASSUME NEW t \in External, NEW cert \in Certificate, NEW sync \in BOOLEAN,
             FinalizePreparedCommit(t, cert, sync)
      PROVE  Steps
  BY <1>4, DecideSteps, Zenon
<1>5. ASSUME NEW t \in External, NEW cert \in Certificate, AbortPreparedCommit(t, cert)
      PROVE  Steps
  <2>1. TRUE \in BOOLEAN
    OBVIOUS
  <2> QED
    BY <1>5, <2>1, DecideSteps, Zenon
<1>6. CASE CallFails
  <2>1. Opening("validate").op = "open"
    BY OpeningFacts
  <2>2. ~Validating
    BY <1>6, <2>1 DEF Validating, CallFails
  <2>3. MoveCall
    BY <1>6, <2>2, Zenon DEF MoveCall, CallFails
  <2> QED
    BY <2>3, Zenon DEF Steps
<1>7. CASE FinalizeCommit \/ AbortCleanup
  BY <1>7, FinalizeSteps, AbortSteps, Zenon
<1>8. ASSUME NEW k \in Kind, ExtendLease(k)
      PROVE  Steps
  BY <1>8, LeaseSteps, Zenon
<1>9. ASSUME NEW t \in Local, CommitLocal(t)
      PROVE  Steps
  BY <1>9, CommitSteps, Zenon
<1>10. ASSUME NEW target \in CommitSeq, Vacuum(target)
       PROVE  Steps
  BY <1>10, BoundarySteps, Zenon
<1>11. CASE call.op = "vacuum" /\ (DeleteObsoleteFactVersions \/ PruneSequenceRecords)
  BY <1>11, CleanupSteps, PruneSteps, Zenon
<1> QED
  BY <1>1, <1>2, <1>3, <1>4, <1>5, <1>6, <1>7, <1>8, <1>9, <1>10, <1>11, Zenon DEF Next

-----------------------------------------------------------------------------
(* Type correctness. *)

(* A batch that is written becomes the store. *)
LEMMA SaveFacts ==
  ASSUME Stored, Memory, Called, NEW new, Written(new), NEW sync \in BOOLEAN,
         Write(new, sync)
  PROVE  /\ Stored' /\ store' = new /\ new \in Image
         /\ sync => Contents' = {new}
         /\ ~sync => Contents' = Contents \cup {new}
  BY WrittenType, WriteFacts, Zenon

LEMMA FailFacts ==
  ASSUME Stored, Memory, Called, Fails
  PROVE  /\ Stored' /\ Running /\ recovery_required'
         /\ \/ store' = store /\ Contents' = Contents
            \/ Written(store') /\ Contents' = Contents \cup {store'}
         /\ call' \in {Idle, call} /\ (call.op = "vacuum" => call' = Idle)
         /\ UNCHANGED <<watermarks, leases, live, history, env>>
<1>0. PICK new : \E next \in {Idle, call} :
           /\ Running /\ (call.op = "vacuum" => next = Idle)
           /\ Written(new) /\ WriteIndeterminate(new, next)
  BY Zenon DEF Fails
<1>1. PICK next \in {Idle, call} :
           /\ Running /\ (call.op = "vacuum" => next = Idle)
           /\ Written(new) /\ WriteIndeterminate(new, next)
  BY <1>0, Zenon
<1>2. new \in Image
  BY <1>1, WrittenType, Zenon
<1>3. /\ Stored'
      /\ \/ store' = store /\ Contents' = Contents
         \/ store' = new /\ Contents' = Contents \cup {new}
  BY <1>1, <1>2, IndeterminateFacts, Zenon
<1>4. /\ recovery_required' /\ call' = next
      /\ UNCHANGED <<watermarks, leases, live, history, env>>
  BY <1>1, Zenon DEF WriteIndeterminate
<1> QED
  BY <1>1, <1>3, <1>4, Zenon

(* The writes of a call, each with its batch. *)
LEMMA SavedFacts ==
  ASSUME Stored, Memory, Called,
         \/ SaveRecovered \/ SavePrepared \/ SaveDecision \/ SaveFinalized \/ SaveAborted
         \/ \E k \in Kind : SaveLease(k)
         \/ \E t \in Local : SaveCommit(t)
         \/ \E target \in CommitSeq : SaveBoundary(target)
         \/ SaveVacuumed
  PROVE  \E sync \in BOOLEAN : Written(store') /\ Write(store', sync)
<1> SUFFICES \E new : \E sync \in BOOLEAN : Written(new) /\ Write(new, sync)
  BY SaveFacts, Zenon
<1>b. TRUE \in BOOLEAN /\ FALSE \in BOOLEAN /\ call.sync \in BOOLEAN
  BY DEF Memory, Calls
<1>1. CASE SaveRecovered
  BY <1>1, <1>b, Zenon DEF SaveRecovered, Written
<1>2. CASE SavePrepared
  BY <1>2, <1>b, Zenon DEF SavePrepared, Written
<1>3. CASE SaveDecision
  <2>1. PICK t \in External, cert \in Certificate,
             d \in {<<"finalize", "commit">>, <<"abort", "abort">>} :
               /\ store.decision[t] = Undecided /\ t \in store.prepared
               /\ Write(DecisionBatch(t, <<d[2], cert>>, store), TRUE)
    BY <1>3, Zenon DEF SaveDecision
  <2>2. d[2] \in Outcome
    BY DEF Outcome
  <2>3. Decides(DecisionBatch(t, <<d[2], cert>>, store))
    BY <2>1, <2>2, Zenon DEF Decides
  <2> QED
    BY <1>b, <2>1, <2>3, Zenon DEF Written
<1>4. CASE SaveFinalized
  BY <1>4, <1>b, Zenon DEF SaveFinalized, Written
<1>5. CASE SaveAborted
  BY <1>5, <1>b, Zenon DEF SaveAborted, Written, Aborts
<1>6. ASSUME NEW k \in Kind, SaveLease(k)
      PROVE  \E new : \E sync \in BOOLEAN : Written(new) /\ Write(new, sync)
  BY <1>6, <1>b, Zenon DEF SaveLease, Written, Leases
<1>7. ASSUME NEW t \in Local, SaveCommit(t)
      PROVE  \E new : \E sync \in BOOLEAN : Written(new) /\ Write(new, sync)
  BY <1>7, <1>b, Zenon DEF SaveCommit, Written, Commits, PublisherFree
<1>8. ASSUME NEW target \in CommitSeq, SaveBoundary(target)
      PROVE  \E new : \E sync \in BOOLEAN : Written(new) /\ Write(new, sync)
  <2>1. Running
    BY <1>8, IdleShape DEF SaveBoundary, Ready, Running, Shaped
  <2> QED
    BY <1>8, <1>b, <2>1, Zenon DEF SaveBoundary, Written, Bounds
<1>9. CASE SaveVacuumed
  BY <1>9, Zenon DEF SaveVacuumed, Written
<1> QED
  BY <1>1, <1>2, <1>3, <1>4, <1>5, <1>6, <1>7, <1>8, <1>9, Zenon

(* A step adds at most one image, the new store, which one of the batches  *)
(* has made; every other image was there before.                           *)
LEMMA ContentsStep ==
  ASSUME Stored, Memory, Called, Steps
  PROVE  /\ Stored' /\ store' \in Contents'
         /\ Contents' \subseteq Contents \cup {store'}
         /\ store' \in Contents \/ Written(store')
<1>1. store \in Contents
  BY StoreFacts, Zenon
<1>2. ASSUME Stored' PROVE store' \in Contents'
  BY <1>2 DEF Stored, store, Contents
<1>3. CASE images' = images
  <2>1. Stored' /\ store' = store /\ Contents' = Contents
    BY <1>3, KeepFacts, Zenon
  <2> QED
    BY <1>1, <2>1, Zenon
<1>4. CASE \E i \in 1..Len(images) : images' = <<images[i]>>
  <2>1. Stored' /\ store' \in Contents /\ Contents' = {store'}
    BY <1>4, CrashFacts, Zenon
  <2> QED
    BY <2>1, Zenon
<1>5. CASE \E sync \in BOOLEAN : Written(store') /\ Write(store', sync)
  <2>1. Stored' /\ (Contents' = {store'} \/ Contents' = Contents \cup {store'})
    BY <1>5, SaveFacts, Zenon
  <2> QED
    BY <1>5, <2>1, Zenon
<1>6. CASE Fails
  <2>1. /\ Stored'
        /\ \/ store' = store /\ Contents' = Contents
           \/ Written(store') /\ Contents' = Contents \cup {store'}
    BY <1>6, FailFacts, Zenon
  <2> QED
    BY <1>1, <2>1, Zenon
<1>7. CASE FinalizeReplay
  <2>1. CASE images' = <<store>>
    <3>1. Len(images) \in 1..Len(images) /\ store = images[Len(images)]
      BY DEF Stored, store
    <3> QED
      BY <1>4, <2>1, <3>1, Zenon
  <2> QED
    BY <1>3, <1>7, <2>1, Zenon DEF FinalizeReplay, SynchronizeWal
<1>8. CASE OpenStore \/ MoveCall \/ \E k \in Kind : AllocateId(k)
  BY <1>3, <1>8, Zenon DEF OpenStore, MoveCall, AllocateId
<1>9. CASE Crash
  BY <1>4, <1>9, Zenon DEF Crash
<1> QED
  BY <1>5, <1>6, <1>7, <1>8, <1>9, SavedFacts, Zenon DEF Steps

(* What is recorded of a lease is a natural number, and so is the id after *)
(* the largest one a sequence record holds.                                *)
LEMMA TxnFacts ==
  /\ MaxSeq \in Nat /\ 0 \in Seq0 /\ TxnId \subseteq Nat \ {0}
  /\ Local \subseteq TxnId /\ External \subseteq TxnId
<1>1. MaxSeq \in Nat /\ MaxId["transaction"] \in Nat /\ External \subseteq Nat \ {0}
  BY RecoveryAssumption, Zenon
<1>2. Local \subseteq Nat \ {0} /\ 0 \in Seq0
  BY <1>1 DEF Local, Seq0
<1> QED
  BY <1>1, <1>2, Zenon DEF TxnId

LEMMA AllocatorType ==
  ASSUME NEW k \in Kind, NEW image \in Image
  PROVE  LoadAllocatorState(k, image) \in Nat
<1> DEFINE ids == {image.sequence[s] : s \in {s \in CommitSeq : s >= image.retention}}
<1>1. image.allocator[k] \in Nat
  BY DEF Image
<1>2. Max({0} \cup ids) \in Nat
  <2>1. TxnId \cup {0} \subseteq Nat /\ MaxSeq \in Nat
    BY TxnFacts
  <2>2. image.sequence \in [1..MaxSeq -> TxnId \cup {0}]
    BY DEF Image, CommitSeq
  <2>s. image.sequence \in [1..MaxSeq -> Nat]
    BY <2>1, <2>2
  <2>3. PICK b \in Nat : \A s \in 1..MaxSeq : image.sequence[s] <= b
    BY <2>1, <2>s, BoundedValues, Zenon
  <2>4. {0} \cup ids \subseteq 0..b
    <3>1. ASSUME NEW x \in ids PROVE x \in 0..b
      <4>1. PICK s \in 1..MaxSeq : x = image.sequence[s]
        BY DEF CommitSeq
      <4>2. x \in Nat /\ x <= b
        BY <2>s, <2>3, <4>1, Zenon
      <4> QED
        BY <4>2
    <3> HIDE DEF ids
    <3> QED
      BY <3>1
  <2> HIDE DEF ids
  <2>5. Max({0} \cup ids) \in {0} \cup ids
    BY <2>4, GreatestNatural, Zenon
  <2> QED
    BY <2>4, <2>5
<1>3. CASE image.allocator[k] # 0
  BY <1>1, <1>3, Zenon DEF LoadAllocatorState
<1>4. CASE image.allocator[k] = 0 /\ k = "transaction"
  <2>1. LoadAllocatorState(k, image) = 1 + Max({0} \cup ids)
    BY <1>4, Zenon DEF LoadAllocatorState
  <2> HIDE DEF ids
  <2> QED
    BY <1>2, <2>1
<1>5. CASE image.allocator[k] = 0 /\ k # "transaction"
  <2>1. LoadAllocatorState(k, image) = 1
    BY <1>5, Zenon DEF LoadAllocatorState
  <2> QED
    BY <2>1
<1> QED
  BY <1>3, <1>4, <1>5, Zenon

Typed == Stored /\ Memory /\ Called

LEMMA TypedInit ==
  ASSUME Init
  PROVE  Typed
<1>1. Initialized \in Image
  BY RecoveryAssumption DEF Initialized, Image, Seq0, Undecided
<1>2. Stored
  BY <1>1 DEF Init, Stored
<1>3. Shaped(call, "open", "validate", 0)
  BY OpeningFacts, Zenon DEF Init
<1>4. Memory
  <2>1. 0 \in Seq0 /\ NoLease \in [Kind -> Nat]
    BY RecoveryAssumption DEF Seq0, NoLease
  <2>2. call \in Calls
    BY <1>3, Zenon DEF Shaped
  <2> QED
    BY <2>1, <2>2 DEF Init, Memory
<1>5. Called
  BY <1>3 DEF Called, Shaped
<1> QED
  BY <1>2, <1>4, <1>5, Zenon DEF Typed

(* The step keeps the types of the variables. *)
LEMMA WatermarksTyped ==
  ASSUME Typed, Steps
  PROVE  /\ visible_seq' \in Seq0 /\ oldest_readable_seq' \in Seq0
         /\ sequence_retention_watermark' \in Seq0
<1>1. /\ visible_seq \in Seq0 /\ oldest_readable_seq \in Seq0
      /\ sequence_retention_watermark \in Seq0
  BY Zenon DEF Typed, Memory
<1>2. store \in Image /\ store.visible \in Seq0 /\ store.oldest \in Seq0 /\ store.retention \in Seq0
  <2>1. store \in Image
    BY StoreFacts, Zenon DEF Typed
  <2> QED
    BY <2>1 DEF Image
<1>3. visible_seq < MaxSeq => visible_seq + 1 \in Seq0
  BY <1>1, RecoveryAssumption DEF Seq0
<1>4. CASE OpenStore
  BY <1>2, <1>4, Zenon DEF OpenStore
<1>5. CASE Crash
  <2>1. 0 \in Seq0
    BY RecoveryAssumption DEF Seq0
  <2> QED
    BY <1>5, <2>1, Zenon DEF Crash
<1>6. CASE SaveRecovered \/ SaveFinalized
  <2>1. visible_seq < MaxSeq
    BY <1>6, Zenon DEF SaveRecovered, SaveFinalized, Finalizes
  <2> QED
    BY <1>1, <1>3, <1>6, <2>1, Zenon DEF SaveRecovered, SaveFinalized
<1>7. ASSUME NEW t \in Local, SaveCommit(t)
      PROVE  /\ visible_seq' \in Seq0 /\ oldest_readable_seq' \in Seq0
             /\ sequence_retention_watermark' \in Seq0
  BY <1>1, <1>3, <1>7, Zenon DEF SaveCommit
<1>8. ASSUME NEW target \in CommitSeq, SaveBoundary(target)
      PROVE  /\ visible_seq' \in Seq0 /\ oldest_readable_seq' \in Seq0
             /\ sequence_retention_watermark' \in Seq0
  <2>1. target \in Seq0
    BY DEF Seq0, CommitSeq
  <2> QED
    BY <1>1, <1>8, <2>1, Zenon DEF SaveBoundary
<1>9. CASE SaveVacuumed
  <2>1. PICK new : /\ Cleans(new) \/ Retains(new) \/ Prunes(new)
                   /\ sequence_retention_watermark' = new.retention
    BY <1>9, Zenon DEF SaveVacuumed
  <2>2. Written(new)
    BY <2>1, Zenon DEF Written
  <2>3. new \in Image
    BY <2>2, WrittenType, Zenon DEF Typed
  <2>4. new.retention \in Seq0
    BY <2>3 DEF Image
  <2> QED
    BY <1>1, <1>9, <2>1, <2>4, Zenon DEF SaveVacuumed
<1>10. CASE \/ MoveCall \/ SavePrepared \/ SaveDecision \/ FinalizeReplay \/ SaveAborted
            \/ \E k \in Kind : AllocateId(k) \/ SaveLease(k)
  <2>1. UNCHANGED watermarks
    BY <1>10, Zenon DEF MoveCall, SavePrepared, SaveDecision, FinalizeReplay, SaveAborted,
       AllocateId, SaveLease
  <2> QED
    BY <1>1, <2>1, Zenon DEF watermarks
<1>11. CASE Fails
  <2>1. UNCHANGED watermarks
    BY <1>11, FailFacts, Zenon DEF Typed
  <2> QED
    BY <1>1, <2>1, Zenon DEF watermarks
<1> QED
  BY <1>4, <1>5, <1>6, <1>7, <1>8, <1>9, <1>10, <1>11, Zenon DEF Steps

LEMMA LeasesTyped ==
  ASSUME Typed, Steps
  PROVE  /\ allocator' \in [Kind -> Nat] /\ next_id' \in [Kind -> Nat]
         /\ limit' \in [Kind -> Nat] /\ handed' \subseteq Kind \X Nat /\ live' \subseteq Nat
<1>1. /\ allocator \in [Kind -> Nat] /\ next_id \in [Kind -> Nat]
      /\ limit \in [Kind -> Nat] /\ handed \subseteq Kind \X Nat /\ live \subseteq Nat
  BY Zenon DEF Typed, Memory
<1>2. CASE OpenStore
  <2>1. store \in Image
    BY StoreFacts, Zenon DEF Typed
  <2>2. [k \in Kind |-> LoadAllocatorState(k, store)] \in [Kind -> Nat]
    BY <2>1, AllocatorType, Zenon
  <2> QED
    BY <1>1, <1>2, <2>2, Zenon DEF OpenStore, history
<1>3. CASE Crash
  <2>1. NoLease \in [Kind -> Nat]
    BY DEF NoLease
  <2> QED
    BY <1>1, <1>3, <2>1, Zenon DEF Crash, history
<1>4. ASSUME NEW k \in Kind, AllocateId(k)
      PROVE  /\ allocator' \in [Kind -> Nat] /\ next_id' \in [Kind -> Nat]
             /\ limit' \in [Kind -> Nat] /\ handed' \subseteq Kind \X Nat /\ live' \subseteq Nat
  <2>1. next_id[k] \in Nat /\ next_id[k] + 1 \in Nat
    BY <1>1
  <2>2. /\ next_id' = [next_id EXCEPT ![k] = next_id[k] + 1]
        /\ handed' = handed \cup {<<k, next_id[k]>>}
        /\ live' = live \/ live' = live \cup {next_id[k]}
        /\ allocator' = allocator /\ limit' = limit
    BY <1>4, Zenon DEF AllocateId
  <2>3. [next_id EXCEPT ![k] = next_id[k] + 1] \in [Kind -> Nat]
    BY <1>1, <2>1
  <2>4. <<k, next_id[k]>> \in Kind \X Nat
    BY <2>1
  <2> QED
    BY <1>1, <2>1, <2>2, <2>3, <2>4, Zenon
<1>5. ASSUME NEW k \in Kind, SaveLease(k)
      PROVE  /\ allocator' \in [Kind -> Nat] /\ next_id' \in [Kind -> Nat]
             /\ limit' \in [Kind -> Nat] /\ handed' \subseteq Kind \X Nat /\ live' \subseteq Nat
  BY <1>1, <1>5, RecoveryAssumption DEF SaveLease, history
<1>6. CASE UNCHANGED leases /\ handed' = handed /\ (live' = live \/ \E t : live' = live \ {t})
  BY <1>1, <1>6, Zenon DEF leases
<1>7. CASE \/ MoveCall \/ SaveRecovered \/ SavePrepared \/ SaveDecision
           \/ SaveFinalized \/ FinalizeReplay \/ SaveAborted
           \/ \E target \in CommitSeq : SaveBoundary(target)
           \/ SaveVacuumed
  BY <1>6, <1>7, Zenon DEF MoveCall, SaveRecovered, SavePrepared, SaveDecision,
     SaveFinalized, FinalizeReplay, SaveAborted, SaveBoundary, SaveVacuumed, history
<1>8. CASE \E t \in Local : SaveCommit(t)
  BY <1>6, <1>8, Zenon DEF SaveCommit
<1>9. CASE Fails
  <2>1. UNCHANGED <<leases, live, history>>
    BY <1>9, FailFacts, Zenon DEF Typed
  <2> QED
    BY <1>6, <2>1, Zenon DEF history
<1> QED
  BY <1>2, <1>3, <1>4, <1>5, <1>7, <1>8, <1>9, Zenon DEF Steps

LEMMA CallTyped ==
  ASSUME Typed, Steps
  PROVE  call' \in Calls /\ Called' /\ recovery_required' \in BOOLEAN
<1>1. call \in Calls /\ Called /\ recovery_required \in BOOLEAN
  BY Zenon DEF Typed, Memory
<1>2. Idle \in Calls /\ Idle.op = "none"
  BY IdleShape, Zenon DEF Shaped
<1>3. \A s \in {"watermark", "prune"} :
         [call EXCEPT !.step = s] \in Calls /\ [call EXCEPT !.step = s].op = call.op
                                            /\ [call EXCEPT !.step = s].txn = call.txn
  BY <1>1 DEF Calls
<1>4. ASSUME \/ call' = Idle \/ call' = call
             \/ \E s \in {"watermark", "prune"} : call' = [call EXCEPT !.step = s]
             \/ \E op \in {"open", "vacuum"} : \E s, n : Shaped(call', op, s, n)
             \/ \E op : \E t \in External : \E sync : DecidedCall(call', op, t, sync)
      PROVE  call' \in Calls /\ Called'
  <2>1. CASE call' = Idle
    BY <1>2, <2>1 DEF Called
  <2>2. CASE call' = call
    BY <1>1, <2>2, Zenon DEF Called
  <2>3. CASE \E s \in {"watermark", "prune"} : call' = [call EXCEPT !.step = s]
    BY <1>1, <1>3, <2>3, Zenon DEF Called
  <2>4. CASE \E op \in {"open", "vacuum"} : \E s, n : Shaped(call', op, s, n)
    BY <2>4 DEF Called, Shaped
  <2>5. CASE \E op : \E t \in External : \E sync : DecidedCall(call', op, t, sync)
    BY <2>5, Zenon DEF Called, DecidedCall, Shaped
  <2> QED
    BY <1>4, <2>1, <2>2, <2>3, <2>4, <2>5, Zenon
<1>5. CASE OpenStore
  <2>1. store.oldest \in Seq0
    <3>1. store \in Image
      BY StoreFacts, Zenon DEF Typed
    <3> QED
      BY <3>1 DEF Image
  <2>2. (IF store.vacuum.target # 0 THEN "cleanup" ELSE AfterCleanup)
           \in {"validate", "cleanup", "watermark", "recover"}
    BY DEF AfterCleanup
  <2>3. Shaped(call', "open", IF store.vacuum.target # 0 THEN "cleanup" ELSE AfterCleanup,
               store.oldest)
    BY <1>5, <2>1, <2>2, OpenShape, Zenon DEF OpenStore
  <2> QED
    BY <1>1, <1>4, <1>5, <2>3, Zenon DEF OpenStore
<1>6. CASE Crash
  BY <1>4, <1>6, OpeningFacts, Zenon DEF Crash
<1>7. CASE MoveCall
  BY <1>1, <1>4, <1>7, Zenon DEF MoveCall
<1>8. CASE SaveDecision
  BY <1>1, <1>4, <1>8, Zenon DEF SaveDecision
<1>9. CASE \E target \in CommitSeq : SaveBoundary(target)
  BY <1>1, <1>4, <1>9, Zenon DEF SaveBoundary
<1>10. CASE SaveVacuumed
  BY <1>1, <1>4, <1>10, Zenon DEF SaveVacuumed
<1>11. CASE SaveFinalized \/ FinalizeReplay \/ SaveAborted
  BY <1>1, <1>4, <1>11, Zenon DEF SaveFinalized, FinalizeReplay, SaveAborted
<1>12. CASE \/ SaveRecovered \/ SavePrepared
            \/ \E k \in Kind : AllocateId(k) \/ SaveLease(k)
            \/ \E t \in Local : SaveCommit(t)
  BY <1>1, <1>4, <1>12, Zenon DEF SaveRecovered, SavePrepared, AllocateId, SaveLease,
     SaveCommit
<1>13. CASE Fails
  BY <1>4, <1>13, FailFacts, Zenon DEF Typed
<1> QED
  BY <1>5, <1>6, <1>7, <1>8, <1>9, <1>10, <1>11, <1>12, <1>13, Zenon DEF Steps

LEMMA AnswersTyped ==
  ASSUME Typed, Steps
  PROVE  answers' \subseteq Answers
<1>1. answers \subseteq Answers /\ call.sync \in BOOLEAN /\ visible_seq \in Seq0
  BY DEF Typed, Memory, Calls
<1>2. ASSUME NEW t \in TxnId, NEW outcome \in Outcome, NEW seq \in Seq0,
             NEW durable \in BOOLEAN, Answer(t, outcome, seq, durable)
      PROVE  answers' \subseteq Answers
  <2>1. [txn |-> t, outcome |-> outcome, seq |-> seq, durable |-> durable] \in Answers
    BY DEF Answers
  <2> QED
    BY <1>1, <1>2, <2>1, Zenon DEF Answer
<1>3. "commit" \in Outcome /\ "abort" \in Outcome /\ 0 \in Seq0
  BY RecoveryAssumption DEF Outcome, Seq0
<1>4. visible_seq < MaxSeq => visible_seq + 1 \in Seq0
  BY <1>1, RecoveryAssumption DEF Seq0
<1>5. call.op \in {"finalize", "abort"} => call.txn \in TxnId
  BY Zenon DEF Typed, Called, TxnId
<1>6. CASE SaveFinalized
  <2>1. visible_seq < MaxSeq /\ call.op \in {"finalize", "abort"}
    BY <1>6, Zenon DEF SaveFinalized, Finalizes
  <2> QED
    BY <1>1, <1>2, <1>3, <1>4, <1>5, <1>6, <2>1, Zenon DEF SaveFinalized
<1>7. CASE FinalizeReplay
  <2>1. store.outcome[call.txn] \in Seq0
    <3>1. store \in Image
      BY StoreFacts, Zenon DEF Typed
    <3>2. call.txn \in TxnId
      BY <1>5, <1>7, Zenon DEF FinalizeReplay
    <3> QED
      BY <3>1, <3>2 DEF Image
  <2>2. /\ call.op \in {"finalize", "abort"}
        /\ Answer(call.txn, "commit", store.outcome[call.txn], call.sync)
    BY <1>7, Zenon DEF FinalizeReplay
  <2> QED
    BY <1>1, <1>2, <1>3, <1>5, <2>1, <2>2, Zenon
<1>8. CASE SaveAborted
  <2>1. call.op \in {"finalize", "abort"} /\ TRUE \in BOOLEAN
    BY <1>8, Zenon DEF SaveAborted
  <2> QED
    BY <1>2, <1>3, <1>5, <1>8, <2>1, Zenon DEF SaveAborted
<1>9. ASSUME NEW t \in Local, SaveCommit(t)
      PROVE  answers' \subseteq Answers
  <2>1. t \in TxnId /\ TRUE \in BOOLEAN
    BY Zenon DEF TxnId
  <2> QED
    BY <1>2, <1>3, <1>4, <1>9, <2>1, Zenon DEF SaveCommit
<1>10. CASE \/ OpenStore \/ Crash \/ MoveCall \/ SaveRecovered \/ SavePrepared \/ SaveDecision
            \/ \E k \in Kind : AllocateId(k) \/ SaveLease(k)
            \/ \E target \in CommitSeq : SaveBoundary(target)
            \/ SaveVacuumed
  BY <1>1, <1>10, Zenon DEF OpenStore, Crash, MoveCall, SaveRecovered, SavePrepared,
     SaveDecision, AllocateId, SaveLease, SaveBoundary, SaveVacuumed, history
<1>11. CASE Fails
  <2>1. UNCHANGED history
    BY <1>11, FailFacts, Zenon DEF Typed
  <2> QED
    BY <1>1, <2>1, Zenon DEF history
<1> QED
  BY <1>6, <1>7, <1>8, <1>9, <1>10, <1>11, Zenon DEF Steps

LEMMA TypedStep ==
  ASSUME Typed, [Next]_vars
  PROVE  Typed'
<1>1. CASE Next
  <2>1. Steps
    BY <1>1, NextSteps, Zenon DEF Typed
  <2>2. Stored'
    BY <2>1, ContentsStep, Zenon DEF Typed
  <2>3. Memory'
    BY <2>1, WatermarksTyped, LeasesTyped, CallTyped, AnswersTyped, Zenon DEF Memory
  <2>4. Called'
    BY <2>1, CallTyped, Zenon
  <2> QED
    BY <2>2, <2>3, <2>4, Zenon DEF Typed
<1>2. CASE UNCHANGED vars
  BY <1>2, Zenon DEF Typed, Stored, Memory, Called, vars, watermarks, leases, history, env
<1> QED
  BY <1>1, <1>2, Zenon

-----------------------------------------------------------------------------
(* Ids are fresh. *)

(* What is left of a lease is recorded in every image, and so is every id  *)
(* handed out.                                                             *)
Covers(image) ==
  /\ \A k \in Kind : next_id[k] < limit[k] => limit[k] <= image.allocator[k]
  /\ \A h \in handed : h[2] < image.allocator[h[1]]

Leased ==
  /\ \A k \in Kind : next_id[k] <= limit[k] /\ limit[k] <= allocator[k]
  /\ ~Validating => \A h \in handed : h[2] < next_id[h[1]]
  /\ \A image \in Contents : Covers(image)

(* Only OpenStore and a crash happen before the store is validated. *)
LEMMA NotValidating ==
  ASSUME Steps, ~OpenStore, ~Crash
  PROVE  ~Validating
<1>1. ASSUME call.op # "open" \/ call.step # "validate" PROVE ~Validating
  BY <1>1, OpeningFacts, Zenon DEF Validating
<1>2. Idle.op # "open"
  BY IdleShape DEF Shaped
<1>3. CASE MoveCall
  <2>1. CASE ~Validating
    BY <2>1
  <2>2. CASE Ready
    BY <1>1, <1>2, <2>2, Zenon DEF Ready
  <2>3. CASE call.step = "watermark"
    BY <1>1, <2>3
  <2> QED
    BY <1>3, <2>1, <2>2, <2>3, Zenon DEF MoveCall
<1>4. CASE SaveRecovered
  BY <1>1, <1>4 DEF SaveRecovered
<1>5. CASE SavePrepared \/ SaveDecision \/ \E target \in CommitSeq : SaveBoundary(target)
  BY <1>1, <1>2, <1>5, Zenon DEF SavePrepared, SaveDecision, SaveBoundary, Ready
<1>6. CASE SaveFinalized \/ FinalizeReplay \/ SaveAborted
  <2>1. call.op \in {"finalize", "abort"}
    BY <1>6, Zenon DEF SaveFinalized, FinalizeReplay, SaveAborted
  <2> QED
    BY <1>1, <2>1
<1>7. ASSUME NEW k \in Kind, AllocateId(k) \/ SaveLease(k)
      PROVE  ~Validating
  <2>1. Running \/ Ready
    BY <1>7, Zenon DEF AllocateId, SaveLease
  <2> QED
    BY <1>1, <1>2, <2>1, Zenon DEF Running, Ready
<1>8. CASE \E t \in Local : SaveCommit(t)
  BY <1>1, <1>8, Zenon DEF SaveCommit, PublisherFree, Running
<1>9. CASE SaveVacuumed
  <2>1. call.step \in {"cleanup", "watermark", "prune"}
    BY <1>9, Zenon DEF SaveVacuumed, Cleans, Retains, Prunes
  <2> QED
    BY <1>1, <2>1
<1>10. CASE Fails
  <2>1. Running
    BY <1>10, Zenon DEF Fails
  <2> QED
    BY <1>1, <2>1, Zenon DEF Running
<1> QED
  BY <1>3, <1>4, <1>5, <1>6, <1>7, <1>8, <1>9, <1>10, Zenon DEF Steps

(* No batch but that of a lease touches the allocator records. *)
LEMMA AllocatorKept ==
  ASSUME Typed, NEW new, Written(new)
  PROVE  \/ new.allocator = store.allocator
         \/ \E k \in Kind : new.allocator = [store.allocator EXCEPT ![k] = allocator[k] + LeaseSize]
<1>1. store \in Image /\ visible_seq \in Seq0 /\ allocator \in [Kind -> Nat]
  BY StoreFacts, Zenon DEF Typed, Memory
<1>2. CASE Prepares(new)
  <2>1. PICK t \in External : new = [store EXCEPT !.prepared = @ \cup {t}]
    BY <1>2, Zenon DEF Prepares
  <2>2. new.allocator = store.allocator
    BY <1>1, <2>1, PrepareFields, Zenon
  <2> QED
    BY <2>2
<1>3. CASE Decides(new)
  <2>1. PICK t \in External, outcome \in Outcome, cert \in Certificate :
               new = DecisionBatch(t, <<outcome, cert>>, store)
    BY <1>3, Zenon DEF Decides
  <2>2. <<outcome, cert>> \in Decision
    BY DEF Decision
  <2> QED
    BY <1>1, <2>1, <2>2, DecisionFields, Zenon
<1>4. CASE Finalizes(new)
  <2>1. PICK t \in store.prepared : visible_seq < MaxSeq /\ new = FinalizeBatch(t, store)
    BY <1>4, Zenon DEF Finalizes
  <2>2. t \in TxnId
    BY <1>1 DEF Image, TxnId
  <2> QED
    BY <1>1, <2>1, <2>2, FinalizeFields, Zenon
<1>5. CASE Aborts(new)
  <2>1. call.txn \in External
    BY <1>5 DEF Aborts, Typed, Called
  <2> QED
    BY <1>1, <1>5, <2>1, AbortFields, Zenon DEF Aborts
<1>6. CASE Leases(new)
  <2>1. PICK k \in Kind : new = LeaseBatch(k, store)
    BY <1>6, Zenon DEF Leases
  <2>2. new.allocator = [store.allocator EXCEPT ![k] = allocator[k] + LeaseSize]
    BY <1>1, <2>1, LeaseFields, Zenon
  <2> QED
    BY <2>2, Zenon
<1>7. CASE Commits(new)
  <2>1. PICK t \in Local : visible_seq < MaxSeq /\ new = CommitBatch(t, store)
    BY <1>7, Zenon DEF Commits
  <2>2. t \in TxnId
    BY TxnFacts, Zenon
  <2>3. new.allocator = store.allocator
    BY <1>1, <2>1, <2>2, CommitFields, Zenon
  <2> QED
    BY <2>3
<1>8. CASE Bounds(new)
  <2>1. PICK target \in CommitSeq : new = BoundaryBatch(target, store)
    BY <1>8, Zenon DEF Bounds
  <2>2. new.allocator = store.allocator
    BY <1>1, <2>1, BoundaryFields, Zenon
  <2> QED
    BY <2>2
<1>9. CASE Cleans(new)
  <2>1. PICK last \in Fact : new = CleanupBatch(last, store)
    BY <1>9, Zenon DEF Cleans
  <2>2. new.allocator = store.allocator
    BY <1>1, <2>1, CleanupFields, Zenon
  <2> QED
    BY <2>2
<1>10. CASE Retains(new)
  <2>1. call.target \in Seq0
    BY DEF Typed, Memory, Calls
  <2> QED
    BY <1>1, <1>10, <2>1, RetentionFields, Zenon DEF Retains
<1>11. CASE Prunes(new)
  <2>1. PICK last \in CommitSeq : new = PruneBatch(last, store)
    BY <1>11, Zenon DEF Prunes, Prunable
  <2>2. new.allocator = store.allocator
    BY <1>1, <2>1, PruneFields, Zenon
  <2> QED
    BY <2>2
<1> QED
  BY <1>2, <1>3, <1>4, <1>5, <1>6, <1>7, <1>8, <1>9, <1>10, <1>11, Zenon DEF Written

LEMMA WrittenCovers ==
  ASSUME Typed, Leased, ~Validating, NEW new, Written(new)
  PROVE  Covers(new)
<1>1. Covers(store) /\ store \in Image
  BY StoreFacts, Zenon DEF Leased, Typed
<1>2. CASE new.allocator = store.allocator
  BY <1>1, <1>2, Zenon DEF Covers
<1>3. ASSUME NEW k \in Kind,
             new.allocator = [store.allocator EXCEPT ![k] = allocator[k] + LeaseSize]
      PROVE  Covers(new)
  <2>1. /\ allocator \in [Kind -> Nat] /\ next_id \in [Kind -> Nat] /\ limit \in [Kind -> Nat]
        /\ handed \subseteq Kind \X Nat /\ LeaseSize \in Nat
    BY RecoveryAssumption, Zenon DEF Typed, Memory
  <2>2. store.allocator \in [Kind -> Nat]
    BY <1>1 DEF Image
  <2>3. ASSUME NEW j \in Kind, next_id[j] < limit[j]
        PROVE  limit[j] <= new.allocator[j]
    <3>1. limit[j] <= allocator[j] /\ limit[j] <= store.allocator[j]
      BY <1>1, <2>3, Zenon DEF Covers, Leased
    <3> QED
      BY <1>3, <2>1, <2>2, <3>1
  <2>4. ASSUME NEW h \in handed PROVE h[2] < new.allocator[h[1]]
    <3>1. /\ h[2] < store.allocator[h[1]] /\ h[2] < next_id[h[1]]
      BY <1>1, Zenon DEF Covers, Leased
    <3>2. h[1] \in Kind /\ h[2] \in Nat
      BY <2>1
    <3>3. next_id[h[1]] <= limit[h[1]] /\ limit[h[1]] <= allocator[h[1]]
      BY <3>2, Zenon DEF Leased
    <3> QED
      BY <1>3, <2>1, <2>2, <3>1, <3>2, <3>3
  <2> QED
    BY <2>3, <2>4, Zenon DEF Covers
<1> QED
  BY <1>2, <1>3, AllocatorKept, Zenon

(* A lease is recorded before its first id is used. *)
LEMMA LeasedStep ==
  ASSUME Typed, Leased, Steps, Typed'
  PROVE  Leased'
<1>1. /\ store' \in Contents'
      /\ Contents' \subseteq Contents \cup {store'}
      /\ store' \in Contents \/ Written(store')
  BY ContentsStep, Zenon DEF Typed
<1>t. /\ allocator \in [Kind -> Nat] /\ next_id \in [Kind -> Nat] /\ limit \in [Kind -> Nat]
      /\ handed \subseteq Kind \X Nat /\ LeaseSize \in Nat /\ Contents \subseteq Image
  BY RecoveryAssumption, StoreFacts, Zenon DEF Typed, Memory
<1>2. CASE OpenStore
  <2>1. /\ Contents' = Contents
        /\ allocator' = [k \in Kind |-> LoadAllocatorState(k, store)]
        /\ next_id' = allocator' /\ limit' = allocator' /\ handed' = handed
    BY <1>2, KeepFacts, Zenon DEF OpenStore, Typed, history
  <2>2. \A k \in Kind : ~(next_id'[k] < limit'[k]) /\ next_id'[k] <= limit'[k]
                                                 /\ limit'[k] <= allocator'[k]
    <3>1. allocator' \in [Kind -> Nat]
      BY Zenon DEF Typed, Memory
    <3> QED
      BY <2>1, <3>1
  <2>3. ASSUME NEW h \in handed PROVE h[2] < next_id'[h[1]]
    <3>1. h[2] < store.allocator[h[1]] /\ h[1] \in Kind /\ h[2] \in Nat
      BY <1>t, StoreFacts DEF Leased, Covers, Typed
    <3>2. store.allocator[h[1]] # 0
      BY <3>1
    <3>3. LoadAllocatorState(h[1], store) = store.allocator[h[1]]
      BY <3>2, Zenon DEF LoadAllocatorState
    <3> QED
      BY <2>1, <3>1, <3>3, Zenon
  <2>4. ASSUME NEW image \in Contents' PROVE Covers(image)'
    BY <2>1, <2>2, Zenon DEF Covers, Leased
  <2> QED
    BY <2>1, <2>2, <2>3, <2>4, Zenon DEF Leased
<1>3. CASE Crash
  <2>1. /\ allocator' = NoLease /\ next_id' = NoLease /\ limit' = NoLease
        /\ handed' = handed /\ Validating'
    BY <1>3, Zenon DEF Crash, Validating, history
  <2>2. \A k \in Kind : ~(next_id'[k] < limit'[k]) /\ next_id'[k] <= limit'[k]
                                                 /\ limit'[k] <= allocator'[k]
    BY <2>1 DEF NoLease
  <2>3. Contents' \subseteq Contents
    BY <1>3, CrashFacts, Zenon DEF Crash, Typed
  <2>4. ASSUME NEW image \in Contents' PROVE Covers(image)'
    BY <2>1, <2>2, <2>3, Zenon DEF Covers, Leased
  <2> QED
    BY <2>1, <2>2, <2>4, Zenon DEF Leased
<1>4. ASSUME NEW k \in Kind, AllocateId(k)
      PROVE  Leased'
  <2>1. /\ Contents' = Contents /\ next_id' = [next_id EXCEPT ![k] = @ + 1]
        /\ handed' = handed \cup {<<k, next_id[k]>>} /\ next_id[k] < limit[k]
        /\ allocator' = allocator /\ limit' = limit /\ call' = call
    BY <1>4, KeepFacts, Zenon DEF AllocateId, Typed
  <2>2. ~Validating
    <3>1. Running \/ Ready
      BY <1>4, Zenon DEF AllocateId
    <3> QED
      BY <3>1, OpeningFacts, IdleShape DEF Running, Ready, Validating, Shaped
  <2>3. \A j \in Kind : next_id'[j] <= limit'[j] /\ limit'[j] <= allocator'[j]
                        /\ next_id[j] <= next_id'[j]
    BY <1>t, <2>1 DEF Leased
  <2>4. ASSUME NEW h \in handed' PROVE h[2] < next_id'[h[1]]
    <3>1. CASE h \in handed
      <4>1. h[2] < next_id[h[1]] /\ h[1] \in Kind /\ h[2] \in Nat
        BY <1>t, <2>2, <3>1 DEF Leased
      <4> QED
        BY <1>t, <2>1, <4>1
    <3>2. CASE h = <<k, next_id[k]>>
      BY <1>t, <2>1, <3>2
    <3> QED
      BY <2>1, <3>1, <3>2, Zenon
  <2>5. ASSUME NEW image \in Contents' PROVE Covers(image)'
    <3>1. Covers(image) /\ image \in Image
      BY <1>t, <2>1, Zenon DEF Leased
    <3>2. image.allocator \in [Kind -> Nat]
      BY <3>1 DEF Image
    <3>3. limit[k] <= image.allocator[k]
      BY <2>1, <3>1, Zenon DEF Covers
    <3>4. ASSUME NEW j \in Kind, next_id'[j] < limit'[j] PROVE limit'[j] <= image.allocator[j]
      <4>1. next_id[j] < limit[j]
        BY <1>t, <2>1, <3>4
      <4> QED
        BY <2>1, <3>1, <4>1, Zenon DEF Covers
    <3>5. ASSUME NEW h \in handed' PROVE h[2] < image.allocator[h[1]]
      <4>1. CASE h \in handed
        BY <3>1, <4>1, Zenon DEF Covers
      <4>2. CASE h = <<k, next_id[k]>>
        BY <1>t, <2>1, <3>2, <3>3, <4>2
      <4> QED
        BY <2>1, <4>1, <4>2, Zenon
    <3> QED
      BY <3>4, <3>5, Zenon DEF Covers
  <2> QED
    BY <2>3, <2>4, <2>5, Zenon DEF Leased
<1>5. ASSUME NEW k \in Kind, SaveLease(k)
      PROVE  Leased'
  <2> DEFINE new == LeaseBatch(k, store)
  <2>1. /\ allocator' = [allocator EXCEPT ![k] = @ + LeaseSize]
        /\ next_id' = [next_id EXCEPT ![k] = allocator[k]]
        /\ limit' = [limit EXCEPT ![k] = allocator[k] + LeaseSize]
        /\ handed' = handed /\ call' = call /\ Running
    BY <1>5, Zenon DEF SaveLease, history
  <2>2. ~Validating
    BY <2>1, OpeningFacts DEF Running, Validating
  <2>3. Written(new) /\ Write(new, TRUE)
    BY <1>5, Zenon DEF SaveLease, Written, Leases
  <2>4. store' = new /\ Contents' = {new}
    <3>1. TRUE \in BOOLEAN
      OBVIOUS
    <3> QED
      BY <2>3, <3>1, SaveFacts, Zenon DEF Typed
  <2>5. Covers(new)
    BY <2>2, <2>3, WrittenCovers, Zenon
  <2>6. store \in Image /\ store.allocator \in [Kind -> Nat]
    <3>1. store \in Image
      BY StoreFacts, Zenon DEF Typed
    <3> QED
      BY <3>1 DEF Image
  <2>7. new.allocator = [store.allocator EXCEPT ![k] = allocator[k] + LeaseSize]
    BY <1>t, <2>6, LeaseFields, Zenon
  <2> HIDE DEF new
  <2>8. \A j \in Kind : next_id'[j] <= limit'[j] /\ limit'[j] <= allocator'[j]
                        /\ next_id[j] <= next_id'[j]
    BY <1>t, <2>1 DEF Leased
  <2>9. ASSUME NEW h \in handed' PROVE h[2] < next_id'[h[1]]
    <3>1. h[2] < next_id[h[1]] /\ h[1] \in Kind /\ h[2] \in Nat
      BY <1>t, <2>1, <2>2 DEF Leased
    <3>2. next_id[h[1]] <= next_id'[h[1]]
      BY <2>8, <3>1, Zenon
    <3> QED
      BY <1>t, <2>1, <3>1, <3>2
  <2>10. ASSUME NEW j \in Kind, next_id'[j] < limit'[j] PROVE limit'[j] <= new.allocator[j]
    <3>1. CASE j = k
      BY <1>t, <2>1, <2>6, <2>7, <3>1
    <3>2. CASE j # k
      <4>1. next_id'[j] = next_id[j] /\ limit'[j] = limit[j]
        BY <1>t, <2>1, <3>2
      <4> QED
        BY <2>5, <2>10, <4>1, Zenon DEF Covers
    <3> QED
      BY <3>1, <3>2
  <2>11. ASSUME NEW image \in Contents' PROVE Covers(image)'
    BY <2>1, <2>4, <2>5, <2>10, Zenon DEF Covers
  <2> QED
    BY <2>8, <2>9, <2>11, Zenon DEF Leased
<1>6. CASE ~OpenStore /\ ~Crash /\ UNCHANGED leases /\ handed' = handed
  <2>1. ~Validating
    BY <1>6, NotValidating, Zenon
  <2>2. ASSUME NEW image \in Contents' PROVE Covers(image)'
    <3>1. Covers(image)
      BY <1>1, <2>1, WrittenCovers, Zenon DEF Leased
    <3> QED
      BY <1>6, <3>1, Zenon DEF Covers, leases
  <2> QED
    BY <1>6, <2>1, <2>2, Zenon DEF Leased, leases
<1>7. CASE \/ MoveCall \/ SaveRecovered \/ SavePrepared \/ SaveDecision \/ SaveFinalized
           \/ FinalizeReplay \/ SaveAborted
           \/ \E t \in Local : SaveCommit(t)
           \/ \E target \in CommitSeq : SaveBoundary(target)
           \/ SaveVacuumed
  <2>1. UNCHANGED leases /\ handed' = handed
    BY <1>7, Zenon DEF MoveCall, SaveRecovered, SavePrepared, SaveDecision, SaveFinalized,
       FinalizeReplay, SaveAborted, SaveCommit, SaveBoundary, SaveVacuumed, history
  <2> QED
    BY <1>2, <1>3, <1>6, <2>1, Zenon
<1>8. CASE Fails
  <2>1. UNCHANGED <<leases, history>>
    BY <1>8, FailFacts, Zenon DEF Typed
  <2> QED
    BY <1>2, <1>3, <1>6, <2>1, Zenon DEF history
<1> QED
  BY <1>2, <1>3, <1>4, <1>5, <1>7, <1>8, Zenon DEF Steps

LEMMA LeasedKept ==
  ASSUME Typed, Leased, [Next]_vars
  PROVE  Leased'
<1>1. CASE Next
  BY <1>1, TypedStep, NextSteps, LeasedStep, Zenon DEF Typed
<1>2. CASE UNCHANGED vars
  BY <1>2, Zenon DEF Leased, Covers, Contents, Validating, vars, leases, history
<1> QED
  BY <1>1, <1>2, Zenon

LEMMA LeasedInit ==
  ASSUME Init
  PROVE  Leased
<1>1. \A k \in Kind : ~(next_id[k] < limit[k]) /\ next_id[k] <= limit[k] /\ limit[k] <= allocator[k]
  BY DEF Init, NoLease
<1>2. handed = {} /\ Validating
  BY Zenon DEF Init, Validating
<1> QED
  BY <1>1, <1>2, Zenon DEF Leased, Covers

-----------------------------------------------------------------------------
(* What Open accepts, and what a decision binds. *)

(* The coordinator's ids are not among the ids the store leases: a prepared *)
(* transaction and a local one never share an outcome record.              *)
IdsApart == External \cap Local = {}

CommitDecision == {"commit"} \X Certificate
AbortDecision == {"abort"} \X Certificate

(* The watermarks in memory are those of the store, once it is validated   *)
(* and unless a write has failed since.                                    *)
Current ==
  ~Validating /\ ~recovery_required =>
    /\ visible_seq = store.visible /\ oldest_readable_seq = store.oldest
    /\ sequence_retention_watermark = store.retention

(* What the call in progress knows of the store. *)
Phase ==
  /\ call.op \in {"open", "vacuum"} => ~recovery_required
  /\ call.step \in {"cleanup", "watermark", "prune"} =>
       call.op \in {"open", "vacuum"} /\ call.target = store.oldest
  /\ call.step = "prune" => call.target <= store.retention
  /\ call.op = "finalize" => store.decision[call.txn] \in CommitDecision
  /\ call.op = "abort" => store.decision[call.txn] \in AbortDecision

(* The outcome of a local transaction belongs to an id that was handed     *)
(* out, and one that has not committed has none.                           *)
Fresh ==
  /\ \A t \in live : <<"transaction", t>> \in handed
  /\ \A image \in Contents : \A t \in Local :
       /\ image.outcome[t] # 0 => <<"transaction", t>> \in handed
       /\ t \in live /\ ~recovery_required => image.outcome[t] = 0

(* DecisionsBinding of one image; an abort terminal has its decision. *)
Decided(image) ==
  \A t \in External :
    /\ ~FinalizeOnOpen /\ image.decision[t] \in AbortDecision => image.outcome[t] = 0
    /\ image.decision[t] \in CommitDecision => t \notin image.terminal
    /\ t \in image.prepared => image.outcome[t] = 0 /\ t \notin image.terminal
    /\ t \in image.terminal => image.decision[t] \in AbortDecision

(* Every version was committed by a transaction that writes the fact, and  *)
(* every version committed is there unless a newer one up to `bound` is.   *)
Sound(image) ==
  \A v \in image.facts : \E t \in TxnId : v[1] \in Writes[t] /\ image.outcome[t] = v[2]

Retained(image, bound) ==
  \A t \in TxnId : \A f \in Writes[t] :
    image.outcome[t] # 0 =>
      \/ <<f, image.outcome[t]>> \in image.facts
      \/ \E s \in CommitSeq :
           <<f, s>> \in image.facts /\ image.outcome[t] < s /\ s <= bound

Good(image) ==
  ValidImage(image) /\ Decided(image) /\ Sound(image) /\ Retained(image, image.oldest)

(* The batches by the fields they change. *)
SameLog(new) ==
  /\ new.visible = store.visible /\ new.oldest = store.oldest
  /\ new.retention = store.retention /\ new.sequence = store.sequence
  /\ new.outcome = store.outcome /\ new.facts = store.facts /\ new.vacuum = store.vacuum

SameTxns(new) ==
  /\ new.outcome = store.outcome /\ new.prepared = store.prepared
  /\ new.decision = store.decision /\ new.terminal = store.terminal

RecordsPrepare(new) ==
  /\ \E t \in External : /\ store.decision[t] = Undecided /\ store.outcome[t] = 0
                         /\ new.prepared = store.prepared \cup {t}
  /\ new.decision = store.decision /\ new.terminal = store.terminal

RecordsDecision(new) ==
  /\ \E t \in store.prepared : \E d \in Decision :
       store.decision[t] = Undecided /\ new.decision = [store.decision EXCEPT ![t] = d]
  /\ new.prepared = store.prepared /\ new.terminal = store.terminal

RecordsAbort(new) ==
  /\ \E t \in External : /\ store.decision[t] \in AbortDecision
                         /\ new.terminal = store.terminal \cup {t}
                         /\ new.prepared = store.prepared \ {t}
  /\ new.decision = store.decision

Publishes(t, new) ==
  LET seq == visible_seq + 1 IN
  /\ store.outcome[t] = 0 /\ ~recovery_required
  /\ visible_seq = store.visible /\ seq \in CommitSeq
  /\ \/ t \in store.prepared /\ (FinalizeOnOpen \/ store.decision[t] \in CommitDecision)
     \/ t \in Local /\ t \in live
  /\ new.visible = seq /\ new.oldest = store.oldest /\ new.retention = store.retention
  /\ new.sequence = [store.sequence EXCEPT ![seq] = t]
  /\ new.outcome = [store.outcome EXCEPT ![t] = seq]
  /\ new.facts = store.facts \cup {<<f, seq>> : f \in Writes[t]}
  /\ new.prepared = store.prepared \ {t} /\ new.decision = store.decision
  /\ new.terminal = store.terminal /\ new.vacuum = store.vacuum

MovesBoundary(new) ==
  /\ new.oldest \in store.oldest..store.visible /\ new.vacuum.target = new.oldest
  /\ new.visible = store.visible /\ new.retention = store.retention
  /\ new.sequence = store.sequence /\ new.facts = store.facts

DropsObsolete(new) ==
  /\ \E gone \in SUBSET Obsolete(store) : new.facts = store.facts \ gone
  /\ new.vacuum.target = 0 \/ new.vacuum.target = store.vacuum.target
  /\ new.visible = store.visible /\ new.oldest = store.oldest
  /\ new.retention = store.retention /\ new.sequence = store.sequence

MovesRetention(new) ==
  /\ new.retention = store.oldest
  /\ new.visible = store.visible /\ new.oldest = store.oldest
  /\ new.sequence = store.sequence /\ new.facts = store.facts /\ new.vacuum = store.vacuum

DropsRecords(new) ==
  /\ \E last \in CommitSeq :
       /\ last < store.retention
       /\ new.sequence = [s \in CommitSeq |-> IF s <= last THEN 0 ELSE store.sequence[s]]
  /\ new.visible = store.visible /\ new.oldest = store.oldest
  /\ new.retention = store.retention /\ new.facts = store.facts /\ new.vacuum = store.vacuum

Effect(new) ==
  \/ /\ SameLog(new)
     /\ RecordsPrepare(new) \/ RecordsDecision(new) \/ RecordsAbort(new) \/ SameTxns(new)
  \/ \E t \in TxnId : Publishes(t, new)
  \/ /\ SameTxns(new) /\ ~recovery_required
     /\ MovesBoundary(new) \/ DropsObsolete(new) \/ MovesRetention(new) \/ DropsRecords(new)

LEMMA PublishEffect ==
  ASSUME Typed, Current, Fresh, IdsApart, ~Validating, ~recovery_required,
         NEW new, visible_seq < MaxSeq, NEW t \in TxnId,
         \/ /\ t \in store.prepared /\ store.outcome[t] = 0
            /\ FinalizeOnOpen \/ store.decision[t] \in CommitDecision
            /\ new = FinalizeBatch(t, store)
         \/ t \in Local /\ t \in live /\ new = CommitBatch(t, store)
  PROVE  Publishes(t, new)
<1>1. store \in Image /\ store \in Contents /\ visible_seq \in Seq0
  BY StoreFacts, Zenon DEF Typed, Memory
<1>2. visible_seq = store.visible
  BY Zenon DEF Current
<1>3. CASE /\ t \in store.prepared /\ store.outcome[t] = 0
           /\ FinalizeOnOpen \/ store.decision[t] \in CommitDecision
           /\ new = FinalizeBatch(t, store)
  <2>1. /\ visible_seq + 1 \in CommitSeq
        /\ new.visible = visible_seq + 1 /\ new.oldest = store.oldest
        /\ new.retention = store.retention
        /\ new.sequence = [store.sequence EXCEPT ![visible_seq + 1] = t]
        /\ new.outcome = [store.outcome EXCEPT ![t] = visible_seq + 1]
        /\ new.facts = store.facts \cup {<<f, visible_seq + 1>> : f \in Writes[t]}
        /\ new.prepared = store.prepared \ {t} /\ new.decision = store.decision
        /\ new.terminal = store.terminal /\ new.vacuum = store.vacuum
    BY <1>1, <1>3, FinalizeFields, Zenon
  <2> QED
    BY <1>2, <1>3, <2>1, Zenon DEF Publishes
<1>4. CASE t \in Local /\ t \in live /\ new = CommitBatch(t, store)
  <2>1. /\ visible_seq + 1 \in CommitSeq
        /\ new.visible = visible_seq + 1 /\ new.oldest = store.oldest
        /\ new.retention = store.retention
        /\ new.sequence = [store.sequence EXCEPT ![visible_seq + 1] = t]
        /\ new.outcome = [store.outcome EXCEPT ![t] = visible_seq + 1]
        /\ new.facts = store.facts \cup {<<f, visible_seq + 1>> : f \in Writes[t]}
        /\ new.prepared = store.prepared /\ new.decision = store.decision
        /\ new.terminal = store.terminal /\ new.vacuum = store.vacuum
    BY <1>1, <1>4, CommitFields, Zenon
  <2>2. store.prepared = store.prepared \ {t}
    <3>1. store.prepared \subseteq External
      BY <1>1 DEF Image
    <3> QED
      BY <1>4, <3>1 DEF IdsApart
  <2>3. store.outcome[t] = 0
    BY <1>1, <1>4, Zenon DEF Fresh
  <2> QED
    BY <1>2, <1>4, <2>1, <2>2, <2>3, Zenon DEF Publishes
<1> QED
  BY <1>3, <1>4, Zenon

LEMMA WrittenEffect ==
  ASSUME Typed, Current, Phase, Fresh, IdsApart, ~Validating,
         ValidImage(store), NEW new, Written(new)
  PROVE  Effect(new)
<1>1. /\ store \in Image /\ visible_seq \in Seq0 /\ allocator \in [Kind -> Nat]
      /\ call \in Calls
  BY StoreFacts, Zenon DEF Typed, Memory
<1>v. /\ store.visible \in Nat /\ store.oldest \in Nat /\ store.retention \in Nat
      /\ store.retention \in Seq0 /\ store.oldest \in Seq0
      /\ store.prepared \subseteq External
  BY <1>1 DEF Image, Seq0
<1>2. CASE Prepares(new)
  <2>1. PICK t \in External : /\ store.decision[t] = Undecided /\ store.outcome[t] = 0
                              /\ new = [store EXCEPT !.prepared = @ \cup {t}]
    BY <1>2, Zenon DEF Prepares
  <2>2. SameLog(new) /\ RecordsPrepare(new)
    BY <1>1, <2>1, PrepareFields, Zenon DEF SameLog, RecordsPrepare
  <2> QED
    BY <2>2, Zenon DEF Effect
<1>3. CASE Decides(new)
  <2>1. PICK t \in External, outcome \in Outcome, cert \in Certificate :
               /\ store.decision[t] = Undecided /\ t \in store.prepared
               /\ new = DecisionBatch(t, <<outcome, cert>>, store)
    BY <1>3, Zenon DEF Decides
  <2>2. <<outcome, cert>> \in Decision
    BY DEF Decision
  <2>3. SameLog(new)
    BY <1>1, <2>1, <2>2, DecisionFields, Zenon DEF SameLog
  <2>4. /\ new.decision = [store.decision EXCEPT ![t] = <<outcome, cert>>]
        /\ new.prepared = store.prepared /\ new.terminal = store.terminal
    BY <1>1, <2>1, <2>2, DecisionFields, Zenon
  <2>5. RecordsDecision(new)
    BY <2>1, <2>2, <2>4, Zenon DEF RecordsDecision
  <2> QED
    BY <2>3, <2>5, Zenon DEF Effect
<1>4. CASE Finalizes(new)
  <2>1. PICK t \in store.prepared :
             /\ store.outcome[t] = 0 /\ visible_seq < MaxSeq
             /\ \/ FinalizeOnOpen /\ call.op = "open" /\ call.step = "recover"
                \/ call.op = "finalize" /\ t = call.txn /\ ~recovery_required
             /\ new = FinalizeBatch(t, store)
    BY <1>4, Zenon DEF Finalizes
  <2>2. t \in TxnId
    BY <1>v, TxnFacts, Zenon
  <2>3. ~recovery_required /\ (FinalizeOnOpen \/ store.decision[t] \in CommitDecision)
    BY <2>1, Zenon DEF Phase
  <2>4. Publishes(t, new)
    BY <2>1, <2>2, <2>3, PublishEffect, Zenon
  <2> QED
    BY <2>2, <2>4, Zenon DEF Effect
<1>5. CASE Aborts(new)
  <2>1. /\ call.txn \in External /\ new = AbortBatch(call.txn, store)
        /\ store.decision[call.txn] \in AbortDecision
    BY <1>5 DEF Aborts, Typed, Called, Phase
  <2>2. SameLog(new) /\ RecordsAbort(new)
    BY <1>1, <2>1, AbortFields, Zenon DEF SameLog, RecordsAbort
  <2> QED
    BY <2>2, Zenon DEF Effect
<1>6. CASE Leases(new)
  <2>1. PICK k \in Kind : new = LeaseBatch(k, store)
    BY <1>6, Zenon DEF Leases
  <2>2. SameLog(new) /\ SameTxns(new)
    BY <1>1, <2>1, LeaseFields, Zenon DEF SameLog, SameTxns
  <2> QED
    BY <2>2, Zenon DEF Effect
<1>7. CASE Commits(new)
  <2>1. PICK t \in Local : /\ t \in live /\ ~recovery_required /\ visible_seq < MaxSeq
                           /\ new = CommitBatch(t, store)
    BY <1>7, Zenon DEF Commits
  <2>2. t \in TxnId
    BY TxnFacts, Zenon
  <2>3. Publishes(t, new)
    BY <2>1, <2>2, PublishEffect, Zenon
  <2> QED
    BY <2>2, <2>3, Zenon DEF Effect
<1>8. CASE Bounds(new)
  <2>1. PICK target \in CommitSeq :
             /\ ~recovery_required /\ target \in oldest_readable_seq..visible_seq
             /\ new = BoundaryBatch(target, store)
    BY <1>8, Zenon DEF Bounds
  <2>2. target \in store.oldest..store.visible
    BY <2>1, Zenon DEF Current
  <2>3. SameTxns(new)
    BY <1>1, <2>1, BoundaryFields, Zenon DEF SameTxns
  <2>4. /\ new.oldest = target /\ new.vacuum.target = target
        /\ new.visible = store.visible /\ new.retention = store.retention
        /\ new.sequence = store.sequence /\ new.facts = store.facts
    BY <1>1, <2>1, BoundaryFields, Zenon
  <2>5. MovesBoundary(new)
    BY <2>2, <2>4 DEF MovesBoundary
  <2> QED
    BY <2>1, <2>3, <2>5, Zenon DEF Effect
<1>9. CASE Cleans(new)
  <2>1. PICK last \in Fact : new = CleanupBatch(last, store)
    BY <1>9, Zenon DEF Cleans
  <2>2. SameTxns(new)
    BY <1>1, <2>1, CleanupFields, Zenon DEF SameTxns
  <2> DEFINE gone == {v \in Obsolete(store) : store.vacuum.cursor < v[1] /\ v[1] <= last}
  <2>3. gone \in SUBSET Obsolete(store)
    BY Zenon
  <2>4. /\ new.facts = store.facts \ gone
        /\ new.vacuum.target = 0 \/ new.vacuum.target = store.vacuum.target
        /\ new.visible = store.visible /\ new.oldest = store.oldest
        /\ new.retention = store.retention /\ new.sequence = store.sequence
    BY <1>1, <2>1, CleanupFields, Zenon
  <2> HIDE DEF gone
  <2>5. DropsObsolete(new)
    BY <2>3, <2>4, Zenon DEF DropsObsolete
  <2>6. ~recovery_required
    BY <1>9 DEF Cleans, Phase
  <2> QED
    BY <2>2, <2>5, <2>6, Zenon DEF Effect
<1>10. CASE Retains(new)
  <2>1. /\ new = [store EXCEPT !.retention = call.target] /\ call.target = store.oldest
    BY <1>10 DEF Retains, Phase
  <2>2. call.target \in Seq0
    BY <1>v, <2>1
  <2>3. SameTxns(new)
    BY <1>1, <2>1, <2>2, RetentionFields, Zenon DEF SameTxns
  <2>4. /\ new.retention = call.target
        /\ new.visible = store.visible /\ new.oldest = store.oldest
        /\ new.sequence = store.sequence /\ new.facts = store.facts
        /\ new.vacuum = store.vacuum
    BY <1>1, <2>1, <2>2, RetentionFields, Zenon
  <2>5. MovesRetention(new)
    BY <2>1, <2>4, Zenon DEF MovesRetention
  <2>6. ~recovery_required
    BY <1>10 DEF Retains, Phase
  <2> QED
    BY <2>3, <2>5, <2>6, Zenon DEF Effect
<1>11. CASE Prunes(new)
  <2>1. PICK last \in Prunable(call.target, store) : new = PruneBatch(last, store)
    BY <1>11, Zenon DEF Prunes
  <2>2. last \in CommitSeq /\ last < call.target /\ call.target <= store.retention
    BY <1>11 DEF Prunable, Prunes, Phase
  <2>3. last < store.retention
    <3>1. call.target \in Nat
      BY <1>1 DEF Calls, Seq0
    <3> QED
      BY <1>v, <2>2, <3>1 DEF CommitSeq
  <2>4. SameTxns(new)
    BY <1>1, <2>1, <2>2, PruneFields, Zenon DEF SameTxns
  <2>5. DropsRecords(new)
    BY <1>1, <2>1, <2>2, <2>3, PruneFields, Zenon DEF DropsRecords
  <2>6. ~recovery_required
    BY <1>11 DEF Prunes, Phase
  <2> QED
    BY <2>4, <2>5, <2>6, Zenon DEF Effect
<1> QED
  BY <1>2, <1>3, <1>4, <1>5, <1>6, <1>7, <1>8, <1>9, <1>10, <1>11, Zenon DEF Written

(* Every batch keeps what ValidateCommittedSequences and the checks of     *)
(* FactStore::Open ask for.                                                *)
LEMMA ImageTypes ==
  ASSUME NEW image \in Image
  PROVE  /\ image.visible \in Nat /\ image.oldest \in Nat /\ image.retention \in Nat
         /\ image.sequence \in [CommitSeq -> TxnId \cup {0}]
         /\ image.outcome \in [TxnId -> Seq0] /\ image.facts \subseteq Fact \X CommitSeq
         /\ image.prepared \subseteq External
         /\ image.decision \in [External -> Decision \cup {Undecided}]
         /\ image.terminal \subseteq External /\ image.vacuum.target \in Nat
  BY DEF Image, Seq0

LEMMA ValidKept ==
  ASSUME store \in Image, NEW new \in Image, ValidImage(store), Effect(new)
  PROVE  ValidImage(new)
<1>1. /\ store.visible \in Nat /\ store.oldest \in Nat /\ store.retention \in Nat
      /\ store.sequence \in [CommitSeq -> TxnId \cup {0}]
      /\ store.outcome \in [TxnId -> Seq0] /\ store.vacuum.target \in Nat
      /\ CommitSeq \subseteq Nat \ {0}
  BY ImageTypes DEF CommitSeq
<1>2. /\ store.oldest <= store.visible /\ store.retention <= store.oldest
      /\ store.vacuum.target # 0 => store.vacuum.target = store.oldest
  BY Zenon DEF ValidImage
<1>3. \A s \in CommitSeq : store.sequence[s] # 0 => s <= store.visible
  BY Zenon DEF ValidImage
<1>4. \A s \in CommitSeq :
        (store.retention <= s /\ s <= store.visible) =>
          /\ store.sequence[s] # 0 /\ store.outcome[store.sequence[s]] = s
          /\ s >= store.oldest =>
               \A f \in Writes[store.sequence[s]] : <<f, s>> \in store.facts
  BY Zenon DEF ValidImage
<1>5. CASE SameLog(new)
  BY <1>5, Zenon DEF SameLog, ValidImage
<1>6. ASSUME NEW t \in TxnId, Publishes(t, new)
      PROVE  ValidImage(new)
  <2> DEFINE seq == visible_seq + 1
  <2>1. /\ store.outcome[t] = 0 /\ visible_seq = store.visible /\ seq \in CommitSeq
        /\ new.visible = seq /\ new.oldest = store.oldest /\ new.retention = store.retention
        /\ new.sequence = [store.sequence EXCEPT ![seq] = t]
        /\ new.outcome = [store.outcome EXCEPT ![t] = seq]
        /\ new.facts = store.facts \cup {<<f, seq>> : f \in Writes[t]}
        /\ new.vacuum = store.vacuum
    BY <1>6, Zenon DEF Publishes
  <2>2. seq = store.visible + 1 /\ t # 0
    BY <2>1, TxnFacts
  <2> HIDE DEF seq
  <2>3. new.oldest <= new.visible /\ new.retention <= new.oldest
    BY <1>1, <1>2, <2>1, <2>2
  <2>4. \A s \in CommitSeq : new.sequence[s] # 0 => s <= new.visible
    BY <1>1, <1>3, <2>1, <2>2
  <2>5. ASSUME NEW s \in CommitSeq, new.retention <= s, s <= new.visible
        PROVE  /\ new.sequence[s] # 0 /\ new.outcome[new.sequence[s]] = s
               /\ s >= new.oldest => \A f \in Writes[new.sequence[s]] : <<f, s>> \in new.facts
    <3>1. CASE s = seq
      <4>1. new.sequence[s] = t /\ new.outcome[t] = s
        BY <1>1, <2>1, <3>1
      <4>2. \A f \in Writes[t] : <<f, s>> \in new.facts
        BY <2>1, <3>1, Zenon
      <4> QED
        BY <2>2, <4>1, <4>2, Zenon
    <3>2. CASE s # seq
      <4>1. store.retention <= s /\ s <= store.visible
        BY <1>1, <2>1, <2>2, <2>5, <3>2
      <4>2. /\ store.sequence[s] # 0 /\ store.outcome[store.sequence[s]] = s
            /\ s >= store.oldest =>
                 \A f \in Writes[store.sequence[s]] : <<f, s>> \in store.facts
        BY <1>4, <4>1, Zenon
      <4>3. new.sequence[s] = store.sequence[s] /\ store.sequence[s] \in TxnId /\ s # 0
        BY <1>1, <2>1, <3>2, <4>2
      <4>4. store.sequence[s] # t
        BY <2>1, <4>2, <4>3
      <4>5. new.outcome[store.sequence[s]] = s
        BY <1>1, <2>1, <4>2, <4>3, <4>4
      <4> QED
        BY <2>1, <4>2, <4>3, <4>5, Zenon
    <3> QED
      BY <3>1, <3>2
  <2> QED
    BY <1>2, <2>1, <2>3, <2>4, <2>5, Zenon DEF ValidImage
<1>7. CASE SameTxns(new) /\ MovesBoundary(new)
  <2>1. /\ new.outcome = store.outcome /\ new.visible = store.visible
        /\ new.retention = store.retention /\ new.sequence = store.sequence
        /\ new.facts = store.facts /\ new.vacuum.target = new.oldest
        /\ new.oldest \in store.oldest..store.visible
    BY <1>7, Zenon DEF SameTxns, MovesBoundary
  <2>2. new.oldest <= new.visible /\ new.retention <= new.oldest /\ store.oldest <= new.oldest
    BY <1>1, <1>2, <2>1
  <2>3. ASSUME NEW s \in CommitSeq, s >= new.oldest PROVE s >= store.oldest
    BY <1>1, <2>1, <2>2, <2>3
  <2> QED
    BY <1>3, <1>4, <2>1, <2>2, <2>3, Zenon DEF ValidImage
<1>8. CASE SameTxns(new) /\ DropsObsolete(new)
  <2>1. PICK gone \in SUBSET Obsolete(store) : new.facts = store.facts \ gone
    BY <1>8, Zenon DEF DropsObsolete
  <2>2. /\ new.outcome = store.outcome /\ new.visible = store.visible
        /\ new.oldest = store.oldest
        /\ new.retention = store.retention /\ new.sequence = store.sequence
        /\ new.vacuum.target = 0 \/ new.vacuum.target = store.vacuum.target
    BY <1>8, Zenon DEF SameTxns, DropsObsolete
  <2>3. ASSUME NEW s \in CommitSeq, NEW f, s >= store.oldest, <<f, s>> \in store.facts
        PROVE  <<f, s>> \in new.facts
    <3>1. SUFFICES ASSUME <<f, s>> \in Obsolete(store) PROVE FALSE
      BY <2>1, <2>3, Zenon
    <3>2. PICK w \in store.facts : s < w[2] /\ w[2] <= store.vacuum.target
      BY <3>1 DEF Obsolete
    <3>3. w[2] \in Nat \ {0}
      BY <1>1, ImageTypes
    <3> QED
      BY <1>1, <1>2, <2>3, <3>2, <3>3
  <2> QED
    BY <1>2, <1>3, <1>4, <2>2, <2>3, Zenon DEF ValidImage
<1>9. CASE SameTxns(new) /\ MovesRetention(new)
  <2>1. /\ new.outcome = store.outcome /\ new.visible = store.visible
        /\ new.oldest = store.oldest /\ new.retention = store.oldest
        /\ new.sequence = store.sequence /\ new.facts = store.facts
        /\ new.vacuum = store.vacuum
    BY <1>9, Zenon DEF SameTxns, MovesRetention
  <2>2. new.retention <= new.oldest
    BY <1>1, <2>1
  <2>3. ASSUME NEW s \in CommitSeq, new.retention <= s PROVE store.retention <= s
    BY <1>1, <1>2, <2>1, <2>3
  <2> QED
    BY <1>2, <1>3, <1>4, <2>1, <2>2, <2>3, Zenon DEF ValidImage
<1>10. CASE SameTxns(new) /\ DropsRecords(new)
  <2>1. PICK last \in CommitSeq :
             /\ last < store.retention
             /\ new.sequence = [s \in CommitSeq |-> IF s <= last THEN 0 ELSE store.sequence[s]]
    BY <1>10, Zenon DEF DropsRecords
  <2>2. /\ new.outcome = store.outcome /\ new.visible = store.visible
        /\ new.oldest = store.oldest
        /\ new.retention = store.retention /\ new.facts = store.facts
        /\ new.vacuum = store.vacuum
    BY <1>10, Zenon DEF SameTxns, DropsRecords
  <2>3. \A s \in CommitSeq : new.sequence[s] # 0 => s <= new.visible
    BY <1>3, <2>1, <2>2
  <2>4. ASSUME NEW s \in CommitSeq, new.retention <= s PROVE new.sequence[s] = store.sequence[s]
    <3>1. ~(s <= last)
      BY <1>1, <2>1, <2>2, <2>4
    <3> QED
      BY <2>1, <3>1, Zenon
  <2> QED
    BY <1>2, <1>4, <2>2, <2>3, <2>4, Zenon DEF ValidImage
<1> QED
  BY <1>5, <1>6, <1>7, <1>8, <1>9, <1>10, Zenon DEF Effect

(* Every batch keeps what a decision binds. *)
LEMMA DecidedKept ==
  ASSUME IdsApart, store \in Image, NEW new \in Image, Decided(store), Effect(new)
  PROVE  Decided(new)
<1>1. /\ store.outcome \in [TxnId -> Seq0] /\ store.prepared \subseteq External
      /\ store.decision \in [External -> Decision \cup {Undecided}]
  BY ImageTypes, Zenon
<1>2. /\ Undecided \notin CommitDecision /\ Undecided \notin AbortDecision
      /\ CommitDecision \cap AbortDecision = {}
  BY DEF Undecided, CommitDecision, AbortDecision
<1>3. CASE SameTxns(new)
  BY <1>3, Zenon DEF SameTxns, Decided
<1>4. CASE SameLog(new) /\ RecordsPrepare(new)
  <2>1. PICK t \in External : /\ store.decision[t] = Undecided /\ store.outcome[t] = 0
                              /\ new.prepared = store.prepared \cup {t}
    BY <1>4, Zenon DEF RecordsPrepare
  <2>2. /\ new.outcome = store.outcome /\ new.decision = store.decision
        /\ new.terminal = store.terminal
    BY <1>4, Zenon DEF SameLog, RecordsPrepare
  <2>3. t \notin store.terminal
    BY <1>2, <2>1, Zenon DEF Decided
  <2> QED
    BY <2>1, <2>2, <2>3, Zenon DEF Decided
<1>5. CASE SameLog(new) /\ RecordsDecision(new)
  <2>1. PICK t \in store.prepared, d \in Decision :
             store.decision[t] = Undecided /\ new.decision = [store.decision EXCEPT ![t] = d]
    BY <1>5, Zenon DEF RecordsDecision
  <2>2. /\ new.outcome = store.outcome /\ new.prepared = store.prepared
        /\ new.terminal = store.terminal
    BY <1>5, Zenon DEF SameLog, RecordsDecision
  <2>3. t \in External /\ store.outcome[t] = 0 /\ t \notin store.terminal
    BY <1>1, <2>1, Zenon DEF Decided
  <2>4. ASSUME NEW u \in External, u # t PROVE new.decision[u] = store.decision[u]
    BY <1>1, <2>1, <2>4, Zenon
  <2>5. ASSUME NEW u \in External
        PROVE  /\ ~FinalizeOnOpen /\ new.decision[u] \in AbortDecision => new.outcome[u] = 0
               /\ new.decision[u] \in CommitDecision => u \notin new.terminal
               /\ u \in new.prepared => new.outcome[u] = 0 /\ u \notin new.terminal
               /\ u \in new.terminal => new.decision[u] \in AbortDecision
    <3>1. CASE u = t
      BY <2>2, <2>3, <3>1, Zenon
    <3>2. CASE u # t
      BY <2>2, <2>4, <3>2, Zenon DEF Decided
    <3> QED
      BY <3>1, <3>2
  <2> QED
    BY <2>5, Zenon DEF Decided
<1>6. CASE SameLog(new) /\ RecordsAbort(new)
  <2>1. PICK t \in External : /\ store.decision[t] \in AbortDecision
                              /\ new.terminal = store.terminal \cup {t}
                              /\ new.prepared = store.prepared \ {t}
    BY <1>6, Zenon DEF RecordsAbort
  <2>2. new.outcome = store.outcome /\ new.decision = store.decision
    BY <1>6, Zenon DEF SameLog, RecordsAbort
  <2>3. store.decision[t] \notin CommitDecision
    BY <1>2, <2>1, Zenon
  <2> QED
    BY <2>1, <2>2, <2>3, Zenon DEF Decided
<1>7. ASSUME NEW t \in TxnId, Publishes(t, new)
      PROVE  Decided(new)
  <2>1. /\ \/ t \in store.prepared /\ (FinalizeOnOpen \/ store.decision[t] \in CommitDecision)
           \/ t \in Local
        /\ new.outcome = [store.outcome EXCEPT ![t] = visible_seq + 1]
        /\ new.prepared = store.prepared \ {t} /\ new.decision = store.decision
        /\ new.terminal = store.terminal
    BY <1>7, Zenon DEF Publishes
  <2>2. ASSUME NEW u \in External, u # t PROVE new.outcome[u] = store.outcome[u]
    <3>1. u \in TxnId
      BY TxnFacts, Zenon
    <3> QED
      BY <1>1, <2>1, <2>2, <3>1, Zenon
  <2>3. t \in External => FinalizeOnOpen \/ store.decision[t] \notin AbortDecision
    BY <1>2, <2>1, Zenon DEF IdsApart
  <2>4. ASSUME NEW u \in External
        PROVE  /\ ~FinalizeOnOpen /\ new.decision[u] \in AbortDecision => new.outcome[u] = 0
               /\ new.decision[u] \in CommitDecision => u \notin new.terminal
               /\ u \in new.prepared => new.outcome[u] = 0 /\ u \notin new.terminal
               /\ u \in new.terminal => new.decision[u] \in AbortDecision
    <3>1. CASE u = t
      BY <2>1, <2>3, <3>1, Zenon DEF Decided
    <3>2. CASE u # t
      BY <2>1, <2>2, <3>2, Zenon DEF Decided
    <3> QED
      BY <3>1, <3>2
  <2> QED
    BY <2>4, Zenon DEF Decided
<1> QED
  BY <1>3, <1>4, <1>5, <1>6, <1>7, Zenon DEF Effect


(* Every version in the store is one that some published transaction wrote. *)
LEMMA SoundKept ==
  ASSUME store \in Image, NEW new \in Image, Sound(store), Effect(new)
  PROVE  Sound(new)
<1>1. /\ store.outcome \in [TxnId -> Seq0] /\ store.facts \subseteq Fact \X CommitSeq
      /\ CommitSeq \subseteq Nat \ {0}
  BY ImageTypes DEF CommitSeq
<1>2. CASE new.facts \subseteq store.facts /\ new.outcome = store.outcome
  BY <1>2, Zenon DEF Sound
<1>3. SameLog(new) => new.facts \subseteq store.facts /\ new.outcome = store.outcome
  BY Zenon DEF SameLog
<1>4. MovesBoundary(new) \/ DropsObsolete(new) \/ MovesRetention(new) \/ DropsRecords(new)
        => new.facts \subseteq store.facts
  BY Zenon DEF MovesBoundary, DropsObsolete, MovesRetention, DropsRecords
<1>5. SameTxns(new) => new.outcome = store.outcome
  BY Zenon DEF SameTxns
<1>6. ASSUME NEW t \in TxnId, Publishes(t, new)
      PROVE  Sound(new)
  <2> DEFINE seq == visible_seq + 1
  <2>1. /\ store.outcome[t] = 0
        /\ new.outcome = [store.outcome EXCEPT ![t] = seq]
        /\ new.facts = store.facts \cup {<<f, seq>> : f \in Writes[t]}
    BY <1>6, Zenon DEF Publishes
  <2> HIDE DEF seq
  <2>2. ASSUME NEW v \in store.facts
        PROVE  \E u \in TxnId : new.outcome[u] = v[2] /\ v[1] \in Writes[u]
    <3>1. PICK u \in TxnId : store.outcome[u] = v[2] /\ v[1] \in Writes[u]
      BY Zenon DEF Sound
    <3>2. v[2] # 0
      BY <1>1
    <3>3. u # t
      BY <2>1, <3>1, <3>2, Zenon
    <3>4. new.outcome[u] = v[2]
      BY <1>1, <2>1, <3>1, <3>3
    <3> QED
      BY <3>1, <3>4, Zenon
  <2>3. ASSUME NEW v, NEW f \in Writes[t], v = <<f, seq>>
        PROVE  \E u \in TxnId : new.outcome[u] = v[2] /\ v[1] \in Writes[u]
    <3>1. new.outcome[t] = seq
      BY <1>1, <2>1, Zenon
    <3>2. v[2] = seq /\ v[1] = f
      BY <2>3
    <3> QED
      BY <3>1, <3>2, Zenon
  <2>4. ASSUME NEW v \in new.facts
        PROVE  \E u \in TxnId : new.outcome[u] = v[2] /\ v[1] \in Writes[u]
    BY <2>1, <2>2, <2>3, Zenon
  <2> QED
    BY <2>4, Zenon DEF Sound
<1> QED
  BY <1>2, <1>3, <1>4, <1>5, <1>6, Zenon DEF Effect

(* Every batch keeps the versions that a reader at or after the oldest     *)
(* readable sequence can be shown: a committed transaction's version is    *)
(* removed only below a newer one that is itself readable there.  The      *)
(* newest version of a fact under the vacuum target is never obsolete.     *)
LEMMA RetainedKept ==
  ASSUME store \in Image, NEW new \in Image, ValidImage(store),
         Retained(store, store.oldest), Effect(new)
  PROVE  Retained(new, store.oldest)
<1>1. /\ store.outcome \in [TxnId -> Seq0] /\ store.facts \subseteq Fact \X CommitSeq
      /\ CommitSeq \subseteq Nat \ {0} /\ store.oldest \in Nat /\ store.vacuum.target \in Nat
      /\ store.vacuum.target # 0 => store.vacuum.target = store.oldest
  BY ImageTypes DEF CommitSeq, ValidImage
<1>b. ASSUME NEW n \in CommitSeq, n <= store.vacuum.target PROVE n <= store.oldest
  BY <1>1, <1>b
<1>2. CASE new.facts = store.facts /\ new.outcome = store.outcome
  BY <1>2, Zenon DEF Retained
<1>3. SameLog(new) => new.facts = store.facts /\ new.outcome = store.outcome
  BY Zenon DEF SameLog
<1>4. MovesBoundary(new) \/ MovesRetention(new) \/ DropsRecords(new)
        => new.facts = store.facts
  BY Zenon DEF MovesBoundary, MovesRetention, DropsRecords
<1>5. SameTxns(new) => new.outcome = store.outcome
  BY Zenon DEF SameTxns
<1>6. ASSUME NEW t \in TxnId, Publishes(t, new)
      PROVE  Retained(new, store.oldest)
  <2> DEFINE seq == visible_seq + 1
  <2>1. /\ new.outcome = [store.outcome EXCEPT ![t] = seq]
        /\ new.facts = store.facts \cup {<<f, seq>> : f \in Writes[t]}
    BY <1>6, Zenon DEF Publishes
  <2> HIDE DEF seq
  <2>2. ASSUME NEW f \in Writes[t] PROVE <<f, new.outcome[t]>> \in new.facts
    <3>1. new.outcome[t] = seq
      BY <1>1, <2>1, Zenon
    <3> QED
      BY <2>1, <3>1, Zenon
  <2>3. ASSUME NEW u \in TxnId, u # t PROVE new.outcome[u] = store.outcome[u]
    BY <1>1, <2>1, <2>3, Zenon
  <2>4. store.facts \subseteq new.facts
    BY <2>1, Zenon
  <2>5. ASSUME NEW u \in TxnId, NEW f \in Writes[u], new.outcome[u] # 0
        PROVE  \/ <<f, new.outcome[u]>> \in new.facts
               \/ \E s \in CommitSeq :
                    /\ <<f, s>> \in new.facts
                    /\ new.outcome[u] < s /\ s <= store.oldest
    <3>1. CASE u = t
      BY <2>2, <3>1, Zenon
    <3>2. CASE u # t
      BY <2>3, <2>4, <2>5, <3>2, Zenon DEF Retained
    <3> QED
      BY <3>1, <3>2
  <2> QED
    BY <2>5, Zenon DEF Retained
<1>7. CASE new.outcome = store.outcome /\ DropsObsolete(new)
  <2>1. PICK gone \in SUBSET Obsolete(store) : new.facts = store.facts \ gone
    BY <1>7, Zenon DEF DropsObsolete
  <2>2. ASSUME NEW u \in TxnId, NEW f \in Writes[u], store.outcome[u] # 0,
               <<f, store.outcome[u]>> \notin new.facts
        PROVE  \E s \in CommitSeq :
                 <<f, s>> \in new.facts /\ store.outcome[u] < s /\ s <= store.oldest
    <3> DEFINE o == store.outcome[u]
               S == {s \in CommitSeq : <<f, s>> \in store.facts /\ s <= store.oldest}
    <3>0. o \in Nat
      BY <1>1 DEF Seq0
    <3>1. \E s \in S : o < s
      <4>1. CASE <<f, o>> \notin store.facts
        BY <2>2, <4>1, Zenon DEF Retained
      <4>2. CASE <<f, o>> \in store.facts
        <5>1. <<f, o>> \in Obsolete(store)
          BY <2>1, <2>2, <4>2, Zenon
        <5>2. PICK w \in store.facts : w[1] = f /\ o < w[2] /\ w[2] <= store.vacuum.target
          BY <5>1 DEF Obsolete
        <5>3. w[2] \in CommitSeq /\ w = <<f, w[2]>>
          BY <1>1, <5>2
        <5>4. w[2] <= store.oldest
          BY <1>b, <5>2, <5>3, Zenon
        <5> QED
          BY <5>2, <5>3, <5>4, Zenon
      <4> QED
        BY <4>1, <4>2
    <3>2. PICK m \in S : \A s \in S : s <= m
      <4>1. S \subseteq 0..store.oldest
        <5>1. ASSUME NEW s \in CommitSeq, s <= store.oldest PROVE s \in 0..store.oldest
          BY <1>1, <5>1
        <5> QED
          BY <5>1, Zenon
      <4>2. S # {}
        BY <3>1, Zenon
      <4> HIDE DEF S
      <4>3. \E m \in S : \A s \in S : s <= m
        BY <1>1, <4>1, <4>2, GreatestNatural, Zenon
      <4> QED
        BY <4>3, Zenon
    <3>3. o < m
      <4>1. PICK s \in S : o < s
        BY <3>1, Zenon
      <4>2. s <= m /\ s \in Nat /\ m \in Nat
        BY <1>1, <3>2
      <4> QED
        BY <3>0, <4>1, <4>2
    <3>4. <<f, m>> \notin Obsolete(store)
      <4>1. SUFFICES ASSUME <<f, m>> \in Obsolete(store) PROVE FALSE
        OBVIOUS
      <4>2. PICK w \in store.facts : w[1] = f /\ m < w[2] /\ w[2] <= store.vacuum.target
        BY <4>1 DEF Obsolete
      <4>3. w[2] \in CommitSeq /\ w = <<f, w[2]>> /\ w[2] <= store.oldest
        <5>1. w[2] \in CommitSeq /\ w = <<f, w[2]>>
          BY <1>1, <4>2
        <5> QED
          BY <1>b, <4>2, <5>1, Zenon
      <4>4. w[2] \in S
        BY <4>2, <4>3, Zenon
      <4>5. w[2] <= m /\ m \in Nat /\ w[2] \in Nat
        BY <1>1, <3>2, <4>4
      <4> QED
        BY <4>2, <4>5
    <3>5. <<f, m>> \in new.facts
      BY <2>1, <3>2, <3>4, Zenon
    <3> QED
      BY <3>2, <3>3, <3>5, Zenon
  <2> QED
    BY <1>7, <2>2, Zenon DEF Retained
<1> QED
  BY <1>2, <1>3, <1>4, <1>5, <1>6, <1>7, Zenon DEF Effect

(* A version that is readable at a sequence stays readable at a later one. *)
LEMMA RetainedLater ==
  ASSUME NEW image, NEW low \in Nat, NEW high \in Nat, low <= high, Retained(image, low)
  PROVE  Retained(image, high)
<1>1. \A s \in CommitSeq : s <= low => s <= high
  BY DEF CommitSeq
<1> QED
  BY <1>1, Zenon DEF Retained

LEMMA GoodKept ==
  ASSUME IdsApart, store \in Image, NEW new \in Image, Good(store), Effect(new)
  PROVE  Good(new) /\ Retained(new, store.oldest)
<1>1. ValidImage(store) /\ Decided(store) /\ Sound(store) /\ Retained(store, store.oldest)
  BY Zenon DEF Good
<1>2. ValidImage(new) /\ Decided(new) /\ Sound(new) /\ Retained(new, store.oldest)
  BY <1>1, ValidKept, DecidedKept, SoundKept, RetainedKept, Zenon
<1>3. store.oldest <= new.oldest /\ store.oldest \in Nat /\ new.oldest \in Nat
  <2>1. store.oldest \in Nat /\ new.oldest \in Nat /\ store.visible \in Nat
    BY ImageTypes, Zenon
  <2>2. new.oldest = store.oldest \/ new.oldest \in store.oldest..store.visible
    BY Zenon DEF Effect, SameLog, Publishes, MovesBoundary, DropsObsolete, MovesRetention,
                 DropsRecords
  <2> QED
    BY <2>1, <2>2
<1>4. Retained(new, new.oldest)
  BY <1>2, <1>3, RetainedLater, Zenon
<1> QED
  BY <1>2, <1>4, Zenon DEF Good

-----------------------------------------------------------------------------
(* What each batch leaves of the watermarks. *)

(* What each batch leaves of the watermarks and of the outcomes. *)
LEMMA PlainMarks ==
  ASSUME Typed, NEW new, Prepares(new) \/ Decides(new) \/ Aborts(new) \/ Leases(new)
  PROVE  /\ new.visible = store.visible /\ new.oldest = store.oldest
         /\ new.retention = store.retention /\ new.outcome = store.outcome
<1>1. store \in Image /\ allocator \in [Kind -> Nat] /\ Called
  BY StoreFacts, Zenon DEF Typed, Memory
<1>2. CASE Prepares(new)
  <2>1. PICK t \in External : new = [store EXCEPT !.prepared = @ \cup {t}]
    BY <1>2, Zenon DEF Prepares
  <2> QED
    BY <1>1, <2>1, PrepareFields, Zenon
<1>3. CASE Decides(new)
  <2>1. PICK t \in External, outcome \in Outcome, cert \in Certificate :
             new = DecisionBatch(t, <<outcome, cert>>, store)
    BY <1>3, Zenon DEF Decides
  <2>2. <<outcome, cert>> \in Decision
    BY DEF Decision
  <2> QED
    BY <1>1, <2>1, <2>2, DecisionFields, Zenon
<1>4. CASE Aborts(new)
  <2>1. call.txn \in External /\ new = AbortBatch(call.txn, store)
    BY <1>1, <1>4 DEF Aborts, Called
  <2> QED
    BY <1>1, <2>1, AbortFields, Zenon
<1>5. CASE Leases(new)
  <2>1. PICK k \in Kind : new = LeaseBatch(k, store)
    BY <1>5, Zenon DEF Leases
  <2> QED
    BY <1>1, <2>1, LeaseFields, Zenon
<1> QED
  BY <1>2, <1>3, <1>4, <1>5

LEMMA VacuumMarks ==
  ASSUME Typed, NEW new, Cleans(new) \/ Retains(new) \/ Prunes(new)
  PROVE  /\ new.visible = store.visible /\ new.oldest = store.oldest
         /\ new.outcome = store.outcome /\ new.prepared = store.prepared
         /\ new.decision = store.decision
         /\ Cleans(new) \/ Prunes(new) => new.retention = store.retention \/ Retains(new)
         /\ Retains(new) => new.retention = call.target
<1>1. store \in Image /\ call.target \in Seq0
  BY StoreFacts DEF Typed, Memory, Calls
<1>2. CASE Cleans(new)
  <2>1. PICK last \in Fact : new = CleanupBatch(last, store)
    BY <1>2, Zenon DEF Cleans
  <2>2. call.step # "watermark"
    BY <1>2 DEF Cleans
  <2> QED
    BY <1>1, <2>1, <2>2, CleanupFields, Zenon DEF Retains
<1>3. CASE Retains(new)
  <2>1. new = [store EXCEPT !.retention = call.target]
    BY <1>3, Zenon DEF Retains
  <2> QED
    BY <1>1, <1>3, <2>1, RetentionFields, Zenon
<1>4. CASE Prunes(new)
  <2>1. PICK last \in Prunable(call.target, store) : new = PruneBatch(last, store)
    BY <1>4, Zenon DEF Prunes
  <2>2. last \in CommitSeq
    BY Zenon DEF Prunable
  <2>3. call.step # "watermark"
    BY <1>4 DEF Prunes
  <2> QED
    BY <1>1, <2>1, <2>2, <2>3, PruneFields, Zenon DEF Retains
<1> QED
  BY <1>2, <1>3, <1>4

LEMMA FinalizeMarks ==
  ASSUME Typed, NEW new, Finalizes(new)
  PROVE  \E t \in store.prepared :
           /\ t \in TxnId /\ visible_seq < MaxSeq
           /\ call.op = "finalize" => t = call.txn
           /\ new.visible = visible_seq + 1 /\ new.oldest = store.oldest
           /\ new.retention = store.retention
           /\ new.outcome = [store.outcome EXCEPT ![t] = visible_seq + 1]
           /\ new.prepared = store.prepared \ {t} /\ new.decision = store.decision
<1>1. store \in Image /\ visible_seq \in Seq0 /\ store.prepared \subseteq External
  BY StoreFacts, ImageTypes, Zenon DEF Typed, Memory
<1>2. PICK t \in store.prepared :
        /\ visible_seq < MaxSeq /\ new = FinalizeBatch(t, store)
        /\ \/ call.op = "open" \/ t = call.txn
  BY Zenon DEF Finalizes
<1>3. t \in TxnId
  BY <1>1, TxnFacts, Zenon
<1>4. /\ new.visible = visible_seq + 1 /\ new.oldest = store.oldest
      /\ new.retention = store.retention
      /\ new.outcome = [store.outcome EXCEPT ![t] = visible_seq + 1]
      /\ new.prepared = store.prepared \ {t} /\ new.decision = store.decision
  BY <1>1, <1>2, <1>3, FinalizeFields, Zenon
<1>5. call.op = "finalize" => t = call.txn
  BY <1>2
<1> QED
  BY <1>2, <1>3, <1>4, <1>5, Zenon

(* A step that writes leaves what it writes as the store. *)
LEMMA WriteStore ==
  ASSUME Typed, NEW new, Written(new), NEW sync \in BOOLEAN, Write(new, sync)
  PROVE  /\ store' = new
         /\ sync => Contents' = {new}
         /\ ~sync => Contents' = Contents \cup {new}
  BY SaveFacts, Zenon DEF Typed

(* The recovery policy never changes while the program runs. *)
LEMMA PolicyKept ==
  ASSUME Typed, Steps
  PROVE  policy' = policy
<1>1. CASE Fails
  BY <1>1, FailFacts, Zenon DEF Typed, env
<1>2. CASE OpenStore \/ Crash \/ MoveCall \/ FinalizeReplay
  BY <1>2, Zenon DEF OpenStore, Crash, MoveCall, FinalizeReplay, env
<1>3. CASE SaveRecovered \/ SavePrepared \/ SaveDecision \/ SaveFinalized \/ SaveAborted
           \/ SaveVacuumed
  BY <1>3, Zenon DEF SaveRecovered, SavePrepared, SaveDecision, SaveFinalized, SaveAborted,
     SaveVacuumed, env
<1>4. CASE \/ \E k \in Kind : AllocateId(k) \/ SaveLease(k)
           \/ \E t \in Local : SaveCommit(t)
           \/ \E target \in CommitSeq : SaveBoundary(target)
  BY <1>4, Zenon DEF AllocateId, SaveLease, SaveCommit, SaveBoundary, env
<1> QED
  BY <1>1, <1>2, <1>3, <1>4, Zenon DEF Steps

=============================================================================

------------------------ MODULE CommitPipelineProofs ------------------------
(***************************************************************************)
(* What holds of the append commit pipeline for every set of transactions, *)
(* every mix of modes and every limit.  CommitPipelineLemmas has the       *)
(* steps.  The theorems on the serial log, and that the pipeline           *)
(* implements it, assume PreparedApart, because prepared commits are not   *)
(* validated.                                                              *)
(***************************************************************************)
EXTENDS CommitPipelineLemmas, CommitPipelineRefinement, FiniteSetTheorems

-----------------------------------------------------------------------------
(* Counting *)

\* Counting the members of a set of positions from the left numbers them from
\* one without a gap.
LEMMA RankFacts ==
  ASSUME NEW n \in Nat, NEW T \in SUBSET (1..n)
  PROVE  /\ Cardinality(T) \in Nat
         /\ \A i \in T : Cardinality({j \in T : j <= i}) \in 1..Cardinality(T)
         /\ \A i, k \in T :
              Cardinality({j \in T : j <= i}) = Cardinality({j \in T : j <= k}) => i = k
         /\ \A m \in 1..Cardinality(T) :
              \E i \in T : Cardinality({j \in T : j <= i}) = m
<1> DEFINE Below(i) == {j \in T : j <= i}
           rank == [i \in T |-> Cardinality(Below(i))]
<1>1. IsFiniteSet(T) /\ Cardinality(T) \in Nat
  <2>1. IsFiniteSet(1..n)
    BY FS_Interval
  <2>2. IsFiniteSet(T)
    BY <2>1, FS_Subset, Zenon
  <2> QED
    BY <2>2, FS_CardinalityType
<1>2. ASSUME NEW i \in T
      PROVE  /\ IsFiniteSet(Below(i))
             /\ Cardinality(Below(i)) \in 1..Cardinality(T)
  <2>1. /\ IsFiniteSet(Below(i))
        /\ Cardinality(Below(i)) <= Cardinality(T)
    <3>1. Below(i) \in SUBSET T
      OBVIOUS
    <3> HIDE DEF Below
    <3> QED
      BY <1>1, <3>1, FS_Subset
  <2>2. i \in Below(i)
    OBVIOUS
  <2> HIDE DEF Below
  <2>3. Cardinality(Below(i)) \in Nat /\ Cardinality(Below(i)) # 0
    BY <2>1, <2>2, FS_CardinalityType, FS_EmptySet
  <2> QED
    BY <1>1, <2>1, <2>3
<1>3. ASSUME NEW i \in T, NEW k \in T, i < k
      PROVE  Cardinality(Below(i)) # Cardinality(Below(k))
  <2>1. Below(i) \in SUBSET Below(k) /\ k \in Below(k) /\ k \notin Below(i)
    <3>1. /\ i \in Nat /\ k \in Nat /\ k <= k /\ ~(k <= i)
          /\ \A j \in T : j <= i => j <= k
      <4>1. T \subseteq Nat
        OBVIOUS
      <4> QED
        BY <1>3, <4>1
    <3> QED
      BY <3>1, Zenon
  <2>2. IsFiniteSet(Below(k))
    BY <1>2
  <2> HIDE DEF Below
  <2>3. Cardinality(Below(k)) = Cardinality(Below(i)) => Below(k) = Below(i)
    BY <2>1, <2>2, FS_Subset
  <2> QED
    BY <2>1, <2>3
<1>4. ASSUME NEW i \in T, NEW k \in T, Cardinality(Below(i)) = Cardinality(Below(k))
      PROVE  i = k
  <2>1. i \in Nat /\ k \in Nat
    OBVIOUS
  <2>2. i < k \/ k < i \/ i = k
    BY <2>1
  <2> HIDE DEF Below
  <2> QED
    BY <1>3, <1>4, <2>2
<1> HIDE DEF Below
<1>5. rank \in Injection(T, 1..Cardinality(T))
  BY <1>2, <1>4 DEF Injection, IsInjective
<1>6. IsFiniteSet(1..Cardinality(T)) /\ Cardinality(1..Cardinality(T)) = Cardinality(T)
  BY <1>1, FS_Interval
<1>7. rank \in Surjection(T, 1..Cardinality(T))
  BY <1>5, <1>6, FS_Injection
<1>8. \A m \in 1..Cardinality(T) : \E i \in T : Cardinality(Below(i)) = m
  BY <1>7, Zenon DEF Surjection
<1>9. /\ \A i \in T : Cardinality(Below(i)) \in 1..Cardinality(T)
      /\ \A i, k \in T : Cardinality(Below(i)) = Cardinality(Below(k)) => i = k
  BY <1>2, <1>4, Zenon
<1> QED
  BY <1>1, <1>8, <1>9, Zenon DEF Below

LEMMA PositionsRanked == Ranked
<1>1. \A n \in Nat : Cardinality(1..n) = n
  BY FS_Interval
<1> QED
  BY <1>1, RankFacts, Zenon DEF Ranked

\* A log without gaps holds as many records as its last sequence says.
LEMMA FilledCount ==
  ASSUME commit_seq \in [Commit -> Nat], NEW n \in Nat, Filled(n)
  PROVE  /\ Cardinality({c \in Commit : commit_seq[c] # 0}) = n
         /\ {commit_seq[c] : c \in {d \in Commit : commit_seq[d] # 0}} = 1..n
<1> DEFINE S == {c \in Commit : commit_seq[c] # 0}
           f == [c \in S |-> commit_seq[c]]
<1>1. \A c \in S : c \in Commit /\ commit_seq[c] \in 1..n
  BY DEF Filled
<1>2. \A s \in 1..n : \E c \in S : commit_seq[c] = s
  <2>1. \A s \in 1..n : s # 0
    OBVIOUS
  <2> QED
    BY <2>1, Zenon DEF Filled
<1>3. \A c, d \in S : commit_seq[c] = commit_seq[d] => c = d
  BY Zenon DEF Filled
<1> HIDE DEF S
<1>4. f \in Injection(S, 1..n)
  BY <1>1, <1>3 DEF Injection, IsInjective
<1>5. f \in Surjection(S, 1..n)
  BY <1>1, <1>2 DEF Surjection
<1>6. IsFiniteSet(1..n) /\ Cardinality(1..n) = n
  BY FS_Interval
<1>7. Cardinality(S) = n
  BY <1>4, <1>5, <1>6, FS_Injection
<1>8. {commit_seq[c] : c \in S} = 1..n
  BY <1>1, <1>2
<1> QED
  BY <1>7, <1>8, Zenon DEF S

-----------------------------------------------------------------------------
(* Types, counters and durability *)

LEMMA TypesInductive == Spec => [](TypeOK /\ Counting)
<1>1. TypeOK /\ Counting /\ [Next]_vars => TypeOK' /\ Counting'
  BY PositionsRanked, TypeStep, Zenon
<1> QED
  BY <1>1, TypeInit, PTL DEF Spec

\* The pipeline's state is always well formed; in particular none of the
\* unsigned counters the workers decrement (reserved_append_commit_bytes,
\* active_append_commit_requests, active_append_publications) wraps below zero.
THEOREM TypeCorrect == Spec => []TypeOK
BY TypesInductive, PTL

\* The byte budget of the append queue is exact and is never exceeded, on every
\* path that admits, cancels, selects or releases a request.
THEOREM ReservationCorrect == Spec => []ReservationExact
<1>1. Counting => ReservationExact
  BY DEF Counting, ReservationExact
<1> QED
  BY <1>1, TypesInductive, PTL

LEMMA Inductive == Spec => [](TypeOK /\ Counting /\ Placement /\ Durability)
<1>1. Init => TypeOK /\ Counting /\ Placement /\ Durability
  <2>1. Init => Placement /\ Durability
    BY DEF Init, Placement, Durability, AckedIsDurable
  <2> QED
    BY <2>1, TypeInit
<1>2. /\ TypeOK /\ Counting /\ Placement /\ Durability
      /\ [Next]_vars
      => (TypeOK /\ Counting /\ Placement /\ Durability)'
  BY PositionsRanked, TypeStep, PlacementStep, DurabilityStep
<1> QED
  BY <1>1, <1>2, PTL DEF Spec

\* When DrainAppendCommitPipeline's predicate holds, no admitted request is
\* waiting for a result.
THEOREM DrainCorrect == Spec => []DrainedIsComplete
<1>1. TypeOK /\ Counting /\ Placement => DrainedIsComplete
  <2> SUFFICES ASSUME TypeOK, Counting, Placement,
                      append_commit_requests = <<>>,
                      active_append_commit_requests = 0,
                      active_append_publications = 0,
                      NEW t \in Txn
               PROVE  phase[t] \notin {"queued", "selected", "bound"}
    BY DEF DrainedIsComplete
  <2>0. requests \in Seq(Txn) /\ append_commit_requests \in Seq(Txn)
    BY DEF TypeOK, QueueTypeOK, WorkerTypeOK
  <2>1. /\ Range(append_commit_requests) = {}
        /\ Len(requests) = 0 => Range(requests) = {}
    <3>1. Len(append_commit_requests) = 0
      BY EmptyFacts
    <3>2. ASSUME NEW q \in Seq(Txn), Len(q) = 0
          PROVE  Range(q) = {}
      <4>1. ASSUME NEW x \in Range(q)
            PROVE  \E i \in 1..Len(q) : q[i] = x
        BY RangeFacts, Zenon
      <4> QED
        BY <3>2, <4>1
    <3> QED
      BY <2>0, <3>1, <3>2, Zenon
  <2>2. phase[t] # "queued"
    BY <2>1 DEF Placement
  <2>3. pc \in InEpoch => Range(requests) = {}
    BY <2>1 DEF Counting
  <2>4. pc = "complete" => ~HasHandles
    BY DEF Counting
  <2> QED
    BY <2>2, <2>3, <2>4 DEF Placement, HasHandles
<1> QED
  BY <1>1, Inductive, PTL

\* CommitAsync's success is backed by a record in the write-ahead log, across
\* both decision paths, cancellation and failed writes.
THEOREM AckCorrect == Spec => []AckedIsDurable
<1>1. Durability => AckedIsDurable
  BY DEF Durability
<1> QED
  BY <1>1, Inductive, PTL

-----------------------------------------------------------------------------
(* The sequences *)

\* Every reachable state has Order and Numbering.
LEMMA NumberingInductive == Spec => [](TypeOK /\ Counting /\ Placement /\ Order /\ Numbering)
<1>1. Init => Order
  <2> SUFFICES ASSUME Init PROVE Order
    OBVIOUS
  <2>1. append_commit_requests = <<>> /\ requests = <<>>
    BY DEF Init
  <2>2. Range(append_commit_requests) = {} /\ Range(requests) = {}
    BY <2>1 DEF Range
  <2>3. IsInjective(append_commit_requests) /\ IsInjective(requests)
    BY <2>1 DEF IsInjective
  <2>4. Phased
    <3>1. \A t \in Txn : /\ snapshot[t] = NoSnapshot /\ phase[t] = "idle"
                         /\ result[t] = "none" /\ commit_seq[t] = 0
      BY DEF Init, Commit
    <3> QED
      BY <3>1 DEF Phased
  <2> QED
    BY <2>2, <2>3, <2>4, Zenon DEF Order, Queued, Grouped
<1>2. Init => Numbering
  <2> SUFFICES ASSUME Init PROVE Numbering
    OBVIOUS
  <2>1. /\ \A c \in Commit : commit_seq[c] = 0
        /\ \A t \in Txn : snapshot[t] = NoSnapshot /\ result[t] = "none" /\ commit_seq[t] = 0
        /\ visible_seq = 0 /\ pc = "wait"
    BY DEF Init, Commit
  <2>2. Filled(0)
    BY <2>1 DEF Filled
  <2> QED
    BY <2>1, <2>2 DEF Numbering, PublisherHeld, ResultsMatchLog, NoSnapshot
<1>3. TypeOK /\ Counting /\ Placement /\ Order /\ Numbering /\ [Next]_vars => Order' /\ Numbering'
  BY PositionsRanked, OrderStep, NumberingStep
<1> QED
  BY <1>1, <1>2, <1>3, Inductive, PTL DEF Spec

\* The commit log is numbered without a gap, whatever was rejected, cancelled,
\* aborted or predicted, and the watermark never passes its end.
THEOREM ContiguousCorrect == Spec => []SequencesContiguous
<1>1. TypeOK /\ Numbering => SequencesContiguous
  <2> SUFFICES ASSUME TypeOK, Numbering PROVE SequencesContiguous
    OBVIOUS
  <2>1. PICK n \in Nat : visible_seq <= n /\ Filled(n)
    BY DEF Numbering
  <2>2. /\ {commit_seq[c] : c \in {d \in Commit : commit_seq[d] # 0}} = 1..n
        /\ Cardinality({c \in Commit : commit_seq[c] # 0}) = n
    <3>1. commit_seq \in [Commit -> Nat]
      BY DEF TypeOK, StoreTypeOK
    <3> QED
      BY <2>1, <3>1, FilledCount, Zenon
  <2>3. {commit_seq[c] : c \in Commit} \ {0} =
          {commit_seq[c] : c \in {d \in Commit : commit_seq[d] # 0}}
    OBVIOUS
  <2> QED
    BY <2>1, <2>2, <2>3 DEF SequencesContiguous, Filled
<1> QED
  BY <1>1, NumberingInductive, PTL

\* A caller's result agrees with the commit log: "committed" is visible, and
\* "aborted" or "rejected" left no record, whatever failed or was cancelled on
\* the way.
THEOREM ResultsCorrect == Spec => []ResultsMatchLog
<1>1. Numbering => ResultsMatchLog
  BY DEF Numbering
<1> QED
  BY <1>1, NumberingInductive, PTL

-----------------------------------------------------------------------------
(* The log is serial *)

\* With prepared commits apart from the blind puts, every reachable state is
\* serial.
LEMMA SerialInductive ==
  ASSUME PreparedApart
  PROVE  Spec => [](TypeOK /\ Placement /\ Order /\ Numbering /\ Predicting /\ Serial)
<1>1. Init => Predicting /\ Serial
  <2> SUFFICES ASSUME Init PROVE Predicting /\ Serial
    OBVIOUS
  <2>1. /\ active_pending_version_overlay = FALSE /\ pc = "wait" /\ preflight_pc = "wait"
        /\ requests = <<>> /\ predecided_epoch = NoEpoch /\ next_epoch_slot.eligible = FALSE
        /\ \A t \in Txn : commit_seq[t] = 0
    BY DEF Init, EmptySlot, Commit
  <2>2. pc \notin ActiveEpoch /\ pc # "sync"
    BY <2>1 DEF ActiveEpoch, InEpoch
  <2>3. Independent(requests)
    BY <2>1 DEF Independent
  <2>4. Predicting
    BY <2>1, <2>2, <2>3 DEF Predicting
  <2> QED
    BY <2>1, <2>2, <2>4
    DEF Serial, EpochAlone, SlotApart, PromotedValid, DecidedValid, ReadsBelow, SeriallyValid
<1>2. /\ TypeOK /\ Counting /\ Placement /\ Order /\ Numbering /\ Predicting /\ Serial
      /\ [Next]_vars /\ TypeOK'
      => Predicting' /\ Serial'
  <2> SUFFICES ASSUME TypeOK, Counting, Placement, Order, Numbering, Predicting, Serial,
                      [Next]_vars, TypeOK'
               PROVE  Predicting' /\ Serial'
    OBVIOUS
  <2>1. ASSUME WalDurable PROVE GroupWritten
    <3>1. visible_seq + 0 = visible_seq
      BY DEF TypeOK, StoreTypeOK
    <3>2. pc = "sync"
      BY <2>1, Zenon DEF WalDurable
    <3>3. Numbered /\ Filled(visible_seq)
      BY <3>1, <3>2 DEF Numbering, PublisherHeld
    <3> QED
      BY <2>1, <3>3, PositionsRanked, WalFills, Zenon DEF GroupWritten
  <2>2. ASSUME CommitGroup, decision' = DecideGroup PROVE Granted' = Accepted
    <3>1. UNCHANGED <<requests, visible_seq>> /\ IsInjective(requests)
      BY <2>2, Zenon DEF CommitGroup, storeVars, Order, Grouped
    <3> QED
      BY <2>2, <3>1, PositionsRanked, DecideNumbers
  <2>3. Predicting'
    BY PredictingStep, Zenon
  <2>4. Serial'
    BY <2>1, <2>2, SerialStep
  <2> QED
    BY <2>3, <2>4
<1> QED
  BY <1>1, <1>2, NumberingInductive, PTL DEF Spec

\* Group commit is serial commit: whatever was grouped, predicted, cancelled or
\* promoted, every transaction in the log is valid against all records below
\* its own.  Prepared commits must not write what a blind put writes: they are
\* not validated, and a promoted epoch does not look for them.
THEOREM SerialCorrect ==
  ASSUME PreparedApart
  PROVE  Spec => []SeriallyValid
<1>1. Serial => SeriallyValid
  BY DEF Serial
<1> QED
  BY <1>1, SerialInductive, PTL

\* A slot that skips validation is valid when it is promoted on its base.
THEOREM PredictionCorrect ==
  ASSUME PreparedApart
  PROVE  Spec => []PredictionSound
<1>1. TypeOK /\ Numbering /\ Serial => PredictionSound
  <2> SUFFICES ASSUME TypeOK, Numbering, Serial, next_epoch_slot.eligible,
                      ~next_epoch_slot.requires_validation,
                      NEW t \in Range(next_epoch_slot.requests)
               PROVE  DependenciesValid(commit_seq, t, snapshot[t], visible_seq)
    BY Zenon DEF PredictionSound
  <2>1. /\ commit_seq \in [Commit -> Nat] /\ visible_seq \in Nat
        /\ next_epoch_slot.requests \in Seq(Txn) /\ next_epoch_slot.predecessor \in Nat
    BY DEF TypeOK, StoreTypeOK, EpochTypeOK, Slot
  <2>2. t \in Txn
    BY <2>1, RangeFacts
  <2>3. /\ snapshot[t] = next_epoch_slot.predecessor
        /\ \A c \in Commit : commit_seq[c] > snapshot[t] => Footprint(t) \cap WriteIdentities(c) = {}
    BY Zenon DEF Serial, SlotApart, Apart, Footprint
  <2>4. snapshot[t] \in Nat /\ snapshot[t] <= visible_seq
    BY <2>1, <2>2, <2>3 DEF Numbering
  <2> QED
    BY <2>1, <2>3, <2>4, UntouchedIsValid
<1> QED
  BY <1>1, SerialInductive, PTL

\* First committer wins: a committed transaction wrote no fact that another
\* commit wrote between its snapshot and its own sequence.
THEOREM FirstCommitterCorrect ==
  ASSUME PreparedApart
  PROVE  Spec => []FirstCommitterWins
<1>1. TypeOK /\ Serial => FirstCommitterWins
  <2> SUFFICES ASSUME TypeOK, Serial, NEW t \in Txn, NEW c \in Commit, commit_seq[c] # 0,
                      snapshot[t] < commit_seq[c], commit_seq[c] < commit_seq[t]
               PROVE  Writes[t] \cap Writes[c] = {}
    BY Zenon DEF FirstCommitterWins
  <2>1. commit_seq \in [Commit -> Nat] /\ snapshot[t] \in Int /\ t \in Commit
    BY DEF TypeOK, StoreTypeOK, NoSnapshot, Commit
  <2> DEFINE s == commit_seq[t] - 1
  <2>2. commit_seq[t] # 0 /\ s \in Nat /\ commit_seq[c] <= s
    BY <2>1
  <2>3. DependenciesValid(commit_seq, t, snapshot[t], s)
    BY <2>2, Zenon DEF Serial, SeriallyValid
  <2> HIDE DEF s
  <2> QED
    BY <2>1, <2>2, <2>3, ValidWrites
<1> QED
  BY <1>1, SerialInductive, PTL

\* A committed strict transaction read what it would have read right below its
\* own sequence.
THEOREM StrictReadsCorrect ==
  ASSUME PreparedApart
  PROVE  Spec => []StrictReadsStable
<1>1. TypeOK /\ Serial => StrictReadsStable
  <2> SUFFICES ASSUME TypeOK, Serial, NEW t \in Txn, commit_seq[t] # 0, NEW f \in Reads[t]
               PROVE  EffectiveVersion(commit_seq, f[1], f[2], snapshot[t]) =
                      EffectiveVersion(commit_seq, f[1], f[2], commit_seq[t] - 1)
    BY Zenon DEF StrictReadsStable
  <2>1. /\ commit_seq \in [Commit -> Nat] /\ snapshot[t] \in Int /\ t \in Commit
        /\ snapshot[t] < commit_seq[t]
    BY DEF TypeOK, StoreTypeOK, NoSnapshot, Commit, Serial, ReadsBelow
  <2> DEFINE s == commit_seq[t] - 1
  <2>2. s \in Nat /\ snapshot[t] <= s
    BY <2>1
  <2>3. DependenciesValid(commit_seq, t, snapshot[t], s)
    BY Zenon DEF Serial, SeriallyValid
  <2> HIDE DEF s
  <2>4. EffectiveVersion(commit_seq, f[1], f[2], snapshot[t]) =
        EffectiveVersion(commit_seq, f[1], f[2], s)
    BY <2>1, <2>2, <2>3, ValidReads
  <2> QED
    BY <2>4, Zenon DEF s
<1> QED
  BY <1>1, SerialInductive, PTL

-----------------------------------------------------------------------------
(* The pipeline implements the serial log *)

\* The log's last sequence is the number of its records.
LogComplete ==
  \A n \in Nat : Filled(n) =>
    /\ Abstract!Top(commit_seq) = n
    /\ {commit_seq[c] : c \in {d \in Commit : commit_seq[d] # 0}} = 1..n

LEMMA LogIsComplete == TypeOK => LogComplete
<1> SUFFICES ASSUME TypeOK, NEW n \in Nat, Filled(n)
             PROVE  /\ Abstract!Top(commit_seq) = n
                    /\ {commit_seq[c] : c \in {d \in Commit : commit_seq[d] # 0}} = 1..n
  BY Zenon DEF LogComplete
<1>1. commit_seq \in [Commit -> Nat]
  BY DEF TypeOK, StoreTypeOK
<1>2. /\ Cardinality({c \in Commit : commit_seq[c] # 0}) = n
      /\ {commit_seq[c] : c \in {d \in Commit : commit_seq[d] # 0}} = 1..n
  BY <1>1, FilledCount, Zenon
<1>3. Abstract!Top(commit_seq) = Cardinality({c \in Commit : commit_seq[c] # 0})
  BY Zenon DEF Abstract!Top, Abstract!Commit, Commit, Abstract!Cardinality, Cardinality
<1> QED
  BY <1>2, <1>3, Zenon

\* The abstract log validates by the same rules.
LEMMA AbstractRules ==
  \A log, t, snap, s :
    Abstract!DependenciesValid(log, t, snap, s) <=> DependenciesValid(log, t, snap, s)
<1> SUFFICES ASSUME NEW log, NEW t, NEW snap, NEW s
             PROVE  Abstract!DependenciesValid(log, t, snap, s) <=>
                    DependenciesValid(log, t, snap, s)
  OBVIOUS
<1>1. \A r, h : Abstract!Boundaries(log, r, h) = Boundaries(log, r, h)
  BY Zenon
  DEF Abstract!Boundaries, Boundaries, Abstract!Within, Within, Abstract!Commit, Commit
<1>2. \A f : Abstract!WrittenSince(log, f, snap, s) <=> WrittenSince(log, f, snap, s)
  BY Zenon
  DEF Abstract!WrittenSince, WrittenSince, Abstract!Within, Within, Abstract!Commit, Commit
<1>3. \A r, v, h : Abstract!Successor(log, r, v, h) = Successor(log, r, v, h)
  BY <1>1, Zenon DEF Abstract!Successor, Successor
<1>4. \A r, v, h : Abstract!Predecessor(log, r, v, h) = Predecessor(log, r, v, h)
  BY <1>1, Zenon DEF Abstract!Predecessor, Predecessor
<1>5. \A r, v, h : Abstract!ReadIdentity(log, r, v, h) = ReadIdentity(log, r, v, h)
  BY <1>1, <1>3, <1>4, Zenon DEF Abstract!ReadIdentity, ReadIdentity
<1>6. Abstract!SnapshotWriteConflict(log, t, snap, s) <=> SnapshotWriteConflict(log, t, snap, s)
  BY <1>1, <1>2, <1>3, Zenon DEF Abstract!SnapshotWriteConflict, SnapshotWriteConflict
<1>7. Abstract!StrictReadConflict(log, t, snap, s) <=> StrictReadConflict(log, t, snap, s)
  BY <1>1, <1>2, <1>4, <1>5, Zenon DEF Abstract!StrictReadConflict, StrictReadConflict
<1> QED
  BY <1>6, <1>7, Zenon DEF Abstract!DependenciesValid, DependenciesValid

\* Every step of the pipeline is a step of the serial log, or invisible in it.
LEMMA LogStep ==
  /\ TypeOK /\ Order /\ Numbering /\ Serial
  /\ TypeOK' /\ Serial' /\ LogComplete /\ LogComplete'
  /\ [Next]_vars
  => [Abstract!Next]_(Abstract!vars)
<1> SUFFICES ASSUME TypeOK, Order, Numbering, Serial, TypeOK', Serial', LogComplete, LogComplete',
                    [Next]_vars
             PROVE  Abstract!Next \/ UNCHANGED <<snapshot, commit_seq, visible_seq>>
  BY DEF Abstract!vars
<1>0. /\ commit_seq \in [Commit -> Nat] /\ commit_seq' \in [Commit -> Nat] /\ visible_seq \in Nat
      /\ requests \in Seq(Txn) /\ Abstract!Commit = Commit /\ Abstract!NoSnapshot = NoSnapshot
      /\ Range(requests) \subseteq Txn /\ Len(requests) \in Nat
  BY RangeFacts
  DEF TypeOK, StoreTypeOK, WorkerTypeOK, Commit, Abstract!Commit, NoSnapshot, Abstract!NoSnapshot
<1>1. ASSUME NEW t \in Txn, BeginTransaction(t)
      PROVE  Abstract!Next
  <2>1. snapshot[t] = NoSnapshot
    BY <1>1 DEF BeginTransaction, Order, Phased
  <2>2. Abstract!Begin(t)
    BY <1>0, <1>1, <2>1, Zenon DEF BeginTransaction, Abstract!Begin
  <2> QED
    BY <2>2, Zenon DEF Abstract!Next
<1>2. CASE WalDurable
  <2>1. /\ pc = "sync" /\ UNCHANGED <<snapshot, visible_seq>>
    BY <1>2, Zenon DEF WalDurable
  <2>2. Numbered /\ Filled(visible_seq)
    <3>1. visible_seq + 0 = visible_seq
      BY <1>0
    <3> QED
      BY <2>1, <3>1 DEF Numbering, PublisherHeld
  <2>3. /\ Filled(visible_seq + Cardinality(Granted))'
        /\ \A c \in Commit : \/ commit_seq'[c] = commit_seq[c]
                             \/ /\ c \in Range(requests) /\ commit_seq[c] = 0
                                /\ commit_seq'[c] = decision[c] /\ decision[c] # 0
                                /\ decision[c] > visible_seq
        /\ UNCHANGED Granted
    BY <1>2, <2>2, PositionsRanked, WalFills, Zenon
  <2>4. Abstract!Top(commit_seq) = visible_seq
    BY <1>0, <2>2, Zenon DEF LogComplete
  <2>5. {commit_seq'[c] : c \in {d \in Commit : commit_seq'[d] # 0}} = 1..Abstract!Top(commit_seq')
    <3>1. Cardinality(Granted) \in Nat
      BY <1>0, PositionsRanked, PositionsCounted, Zenon DEF Granted
    <3>2. (visible_seq + Cardinality(Granted))' \in Nat
      BY <1>0, <2>1, <2>3, <3>1
    <3> QED
      BY <2>3, <3>2, Zenon DEF LogComplete
  <2>6. Abstract!Extends(commit_seq, commit_seq')
    <3>1. \A c \in Commit : commit_seq[c] # 0 => commit_seq'[c] = commit_seq[c]
      BY <2>3, Zenon
    <3>2. ASSUME NEW c \in Commit, commit_seq[c] = 0, commit_seq'[c] # 0
          PROVE  /\ commit_seq'[c] > Abstract!Top(commit_seq)
                 /\ c \in Txn => /\ snapshot[c] # Abstract!NoSnapshot
                                 /\ DependenciesValid(commit_seq', c, snapshot[c], commit_seq'[c] - 1)
      <4>1. c \in Range(requests) /\ commit_seq'[c] > visible_seq
        BY <2>3, <3>2
      <4>2. snapshot[c] # NoSnapshot
        <5>1. phase[c] = "bound"
          BY <2>1, <4>1 DEF Order, Grouped, InEpoch
        <5> QED
          BY <1>0, <4>1, <5>1 DEF Order, Phased
      <4>3. c \in Txn => DependenciesValid(commit_seq', c, snapshot[c], commit_seq'[c] - 1)
        BY <2>1, <3>2, Zenon DEF Serial, SeriallyValid
      <4> QED
        BY <1>0, <2>4, <4>1, <4>2, <4>3
    <3> QED
      BY <1>0, <2>5, <3>1, <3>2, AbstractRules, Zenon DEF Abstract!Extends
  <2>7. commit_seq' # commit_seq => Abstract!AppendGroup
    BY <1>0, <2>1, <2>4, <2>6, Zenon DEF Abstract!AppendGroup
  <2> QED
    BY <2>1, <2>7, Zenon DEF Abstract!Next
<1>3. CASE PublishVisible
  <2>1. /\ pc = "publish" /\ UNCHANGED <<snapshot, commit_seq>>
        /\ visible_seq' = visible_seq + Cardinality(Granted)
    BY <1>3, Zenon DEF PublishVisible, Granted
  <2>2. Filled(visible_seq + Cardinality(Granted))
    BY <2>1 DEF Numbering, PublisherHeld
  <2>3. Cardinality(Granted) \in Nat
    BY <1>0, PositionsRanked, PositionsCounted, Zenon DEF Granted
  <2>4. visible_seq + Cardinality(Granted) \in Nat
    BY <1>0, <2>3
  <2>5. Abstract!Top(commit_seq) = visible_seq'
    BY <2>1, <2>2, <2>4, Zenon DEF LogComplete
  <2>6. visible_seq' # visible_seq => Abstract!Publish
    BY <2>1, <2>5, Zenon DEF Abstract!Publish
  <2> QED
    BY <2>1, <2>6, Zenon DEF Abstract!Next
<1>4. ASSUME NEW p \in Prepared, FinalizePreparedCommit(p)
      PROVE  Abstract!Next
  <2>1. ~PublisherHeld /\ ~recovery_required
    BY <1>4, Zenon DEF FinalizePreparedCommit
  <2>2. Filled(visible_seq)
    <3>1. visible_seq + 0 = visible_seq
      BY <1>0
    <3> QED
      BY <2>1, <3>1 DEF Numbering, PublisherHeld
  <2>3. Abstract!Top(commit_seq) = visible_seq
    BY <1>0, <2>2, Zenon DEF LogComplete
  <2>4. Abstract!Finalize(p)
    BY <1>4, <2>3, Zenon DEF FinalizePreparedCommit, Abstract!Finalize
  <2> QED
    BY <2>4, Zenon DEF Abstract!Next
<1> QED
  BY <1>1, <1>2, <1>3, <1>4, LogSteps, Zenon

\* The append pipeline implements the serial log: queues, groups, predictions,
\* cancellations and failures never show in the order of the commits.
THEOREM RefinementCorrect ==
  ASSUME PreparedApart
  PROVE  Spec => ImplementsCommitLog
<1>1. Init => Abstract!Init
  BY DEF Init, Abstract!Init, Commit, Abstract!Commit, NoSnapshot, Abstract!NoSnapshot
<1> QED
  BY <1>1, LogIsComplete, LogStep, SerialInductive, PTL DEF Spec, ImplementsCommitLog, Abstract!Spec
=============================================================================

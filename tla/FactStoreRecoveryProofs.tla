---------------------- MODULE FactStoreRecoveryProofs -----------------------
(***************************************************************************)
(* What holds of the store across crashes and reopens, for every set of    *)
(* facts, transactions and ids. FactStoreRecoveryLemmas gives the steps.   *)
(*                                                                         *)
(* The inductive invariant is Recoverable. Every image that a crash may    *)
(* leave is Good: Open accepts it, each decision in it is bound to the     *)
(* records it was taken on, every row belongs to a commit, and no version  *)
(* that a read at or above its retention bound needs is gone. The memory   *)
(* of the process agrees with the store (Current), the call in progress is *)
(* at a Phase that the store allows, an image that a crash may leave       *)
(* trails the store (Trailing), and what a caller was told Survives in it. *)
(*                                                                         *)
(* All theorems but IdsCorrect assume IdsApart: the outcome of a prepared  *)
(* transaction and that of a local one are kept under the same key, and    *)
(* nothing in the store keeps a coordinator from choosing an id that the   *)
(* store leases.                                                           *)
(***************************************************************************)
EXTENDS FactStoreRecoveryLemmas

-----------------------------------------------------------------------------
(* The memory of the process against the store. *)

(* OpenStore reads the watermarks; a write that succeeds moves them with   *)
(* the store's; one that fails asks for a recovery.                        *)
LEMMA CurrentStep ==
  ASSUME Typed, Current, Steps
  PROVE  Current'
<1> DEFINE Mine(v, o, r) == /\ v = visible_seq' /\ o = oldest_readable_seq'
                            /\ r = sequence_retention_watermark'
<1>b. TRUE \in BOOLEAN /\ FALSE \in BOOLEAN /\ call.sync \in BOOLEAN
  BY DEF Typed, Memory, Calls
<1>1. CASE OpenStore
  <2>1. store' = store
    BY <1>1, KeepFacts, Zenon DEF OpenStore, Typed
  <2> QED
    BY <1>1, <2>1, Zenon DEF OpenStore, Current
<1>2. CASE Crash
  BY <1>2, Zenon DEF Crash, Validating, Current
<1>3. CASE Fails
  BY <1>3, FailFacts, Zenon DEF Typed, Current
<1>4. SUFFICES ASSUME ~OpenStore, ~Crash, ~Fails, ~recovery_required,
                      recovery_required' = recovery_required
               PROVE  Mine(store'.visible, store'.oldest, store'.retention)
  <2>1. ASSUME ~OpenStore, ~Crash, ~Fails PROVE recovery_required' = recovery_required
    BY <2>1, Zenon DEF Steps, MoveCall, SaveRecovered, SavePrepared, SaveDecision,
       SaveFinalized, FinalizeReplay, SaveAborted, AllocateId, SaveLease, SaveCommit,
       SaveBoundary, SaveVacuumed
  <2> QED
    BY <1>1, <1>2, <1>3, <2>1, Zenon DEF Current
<1>5. Validating \/ /\ visible_seq = store.visible /\ oldest_readable_seq = store.oldest
                    /\ sequence_retention_watermark = store.retention
  BY <1>4, Zenon DEF Current
<1>6. ~Validating
  BY <1>4, NotValidating, Zenon
<1>7. CASE MoveCall \/ \E k \in Kind : AllocateId(k)
  <2>1. images' = images /\ UNCHANGED watermarks
    BY <1>7, Zenon DEF MoveCall, AllocateId
  <2>2. store' = store
    BY <2>1, KeepFacts, Zenon DEF Typed
  <2> QED
    BY <1>5, <1>6, <2>1, <2>2, Zenon DEF watermarks
<1>8. CASE FinalizeReplay
  <2>1. UNCHANGED watermarks /\ (images' = images \/ images' = <<store>>)
    BY <1>8, Zenon DEF FinalizeReplay, SynchronizeWal
  <2>2. store' = store
    <3>1. CASE images' = images
      BY <3>1, KeepFacts, Zenon DEF Typed
    <3>2. CASE images' = <<store>>
      BY <3>2 DEF store
    <3> QED
      BY <2>1, <3>1, <3>2
  <2> QED
    BY <1>5, <1>6, <2>1, <2>2, Zenon DEF watermarks
<1>9. CASE SavePrepared \/ SaveDecision \/ SaveAborted \/ \E k \in Kind : SaveLease(k)
  <2>1. PICK new : /\ Prepares(new) \/ Decides(new) \/ Aborts(new) \/ Leases(new)
                   /\ Write(new, TRUE) /\ UNCHANGED watermarks
    <3>1. CASE SavePrepared
      BY <3>1, Zenon DEF SavePrepared
    <3>2. CASE SaveDecision
      <4>1. PICK t \in External, cert \in Certificate,
                 d \in {<<"finalize", "commit">>, <<"abort", "abort">>} :
                   /\ store.decision[t] = Undecided /\ t \in store.prepared
                   /\ Write(DecisionBatch(t, <<d[2], cert>>, store), TRUE)
        BY <3>2, Zenon DEF SaveDecision
      <4>2. d[2] \in Outcome
        BY DEF Outcome
      <4> QED
        BY <3>2, <4>1, <4>2, Zenon DEF SaveDecision, Decides
    <3>3. CASE SaveAborted
      BY <3>3, Zenon DEF SaveAborted, Aborts
    <3>4. CASE \E k \in Kind : SaveLease(k)
      BY <3>4, Zenon DEF SaveLease, Leases
    <3> QED
      BY <1>9, <3>1, <3>2, <3>3, <3>4, Zenon
  <2>2. store' = new
    BY <1>b, <2>1, WriteStore, Zenon DEF Written
  <2> QED
    BY <1>5, <1>6, <2>1, <2>2, PlainMarks, Zenon DEF watermarks
<1>10. CASE SaveRecovered \/ SaveFinalized
  <2>1. PICK new : /\ Finalizes(new) /\ (Write(new, FALSE) \/ Write(new, call.sync))
                   /\ visible_seq' = visible_seq + 1
                   /\ UNCHANGED <<oldest_readable_seq, sequence_retention_watermark>>
    BY <1>10, Zenon DEF SaveRecovered, SaveFinalized
  <2>2. store' = new
    BY <1>b, <2>1, WriteStore, Zenon DEF Written
  <2>3. /\ new.visible = visible_seq + 1 /\ new.oldest = store.oldest
        /\ new.retention = store.retention
    BY <2>1, FinalizeMarks, Zenon
  <2> QED
    BY <1>5, <1>6, <2>1, <2>2, <2>3, Zenon
<1>11. ASSUME NEW t \in Local, SaveCommit(t)
       PROVE  Mine(store'.visible, store'.oldest, store'.retention)
  <2>1. /\ Written(CommitBatch(t, store)) /\ Write(CommitBatch(t, store), TRUE)
        /\ visible_seq' = visible_seq + 1 /\ visible_seq < MaxSeq
        /\ UNCHANGED <<oldest_readable_seq, sequence_retention_watermark>>
    BY <1>11, Zenon DEF SaveCommit, Written, Commits, PublisherFree
  <2>2. store' = CommitBatch(t, store)
    BY <1>b, <2>1, WriteStore, Zenon
  <2>3. store \in Image /\ visible_seq \in Seq0 /\ t \in TxnId
    BY StoreFacts, Zenon DEF Typed, Memory, TxnId
  <2>4. /\ store'.visible = visible_seq + 1 /\ store'.oldest = store.oldest
        /\ store'.retention = store.retention
    BY <2>1, <2>2, <2>3, CommitFields, Zenon
  <2> QED
    BY <1>5, <1>6, <2>1, <2>4, Zenon
<1>12. ASSUME NEW target \in CommitSeq, SaveBoundary(target)
       PROVE  Mine(store'.visible, store'.oldest, store'.retention)
  <2>1. /\ Write(BoundaryBatch(target, store), TRUE) /\ oldest_readable_seq' = target
        /\ UNCHANGED <<visible_seq, sequence_retention_watermark>>
    BY <1>12, Zenon DEF SaveBoundary
  <2>2. store \in Image
    BY StoreFacts, Zenon DEF Typed
  <2>3. store' = BoundaryBatch(target, store)
    BY <1>b, <2>1, <2>2, BoundaryFields, WriteFacts, Zenon DEF Typed
  <2>4. /\ store'.visible = store.visible /\ store'.oldest = target
        /\ store'.retention = store.retention
    BY <2>2, <2>3, BoundaryFields, Zenon
  <2> QED
    BY <1>5, <1>6, <2>1, <2>4, Zenon
<1>13. CASE SaveVacuumed
  <2>1. PICK new : \E sync \in BOOLEAN :
             /\ Cleans(new) \/ Retains(new) \/ Prunes(new)
             /\ Write(new, sync) /\ sequence_retention_watermark' = new.retention
             /\ UNCHANGED <<visible_seq, oldest_readable_seq>>
    BY <1>13, Zenon DEF SaveVacuumed
  <2>2. store' = new
    BY <2>1, WriteStore, Zenon DEF Written
  <2>3. new.visible = store.visible /\ new.oldest = store.oldest
    BY <2>1, VacuumMarks, Zenon
  <2> QED
    BY <1>5, <1>6, <2>1, <2>2, <2>3, Zenon
<1> QED
  BY <1>4, <1>7, <1>8, <1>9, <1>10, <1>11, <1>12, <1>13, Zenon DEF Steps


(* What a batch never takes back: an outcome, a decision, an abort; and a  *)
(* transaction decided to commit stays prepared until it has its outcome.  *)
Advances(new) ==
  /\ \A t \in TxnId : store.outcome[t] # 0 => new.outcome[t] = store.outcome[t]
  /\ \A t \in External :
       /\ store.decision[t] # Undecided => new.decision[t] = store.decision[t]
       /\ store.outcome[t] # 0 => new.decision[t] = store.decision[t]
       /\ t \in store.terminal => t \in new.terminal
       /\ t \in store.terminal /\ t \notin store.prepared => t \notin new.prepared
       /\ t \in store.prepared /\ store.decision[t] \in CommitDecision =>
            \/ new.outcome[t] # 0
            \/ t \in new.prepared /\ new.decision[t] \in CommitDecision

LEMMA EffectAdvances ==
  ASSUME IdsApart, store \in Image, NEW new \in Image, Decided(store), Effect(new)
  PROVE  Advances(new)
<1>1. /\ store.outcome \in [TxnId -> Seq0] /\ store.prepared \subseteq External
      /\ store.decision \in [External -> Decision \cup {Undecided}]
      /\ External \subseteq TxnId
  BY ImageTypes, TxnFacts, Zenon
<1>2. /\ Undecided \notin CommitDecision /\ Undecided \notin AbortDecision
      /\ CommitDecision \cap AbortDecision = {}
  BY DEF Undecided, CommitDecision, AbortDecision
<1>3. CASE SameTxns(new)
  BY <1>3, Zenon DEF SameTxns, Advances
<1>4. CASE SameLog(new) /\ RecordsPrepare(new)
  <2>1. PICK t \in External : /\ store.decision[t] = Undecided /\ store.outcome[t] = 0
                              /\ new.prepared = store.prepared \cup {t}
    BY <1>4, Zenon DEF RecordsPrepare
  <2>2. /\ new.outcome = store.outcome /\ new.decision = store.decision
        /\ new.terminal = store.terminal
    BY <1>4, Zenon DEF SameLog, RecordsPrepare
  <2>3. t \notin store.terminal
    BY <1>2, <2>1, Zenon DEF Decided
  <2> QED
    BY <2>1, <2>2, <2>3, Zenon DEF Advances
<1>5. CASE SameLog(new) /\ RecordsDecision(new)
  <2>1. PICK t \in store.prepared, d \in Decision :
             store.decision[t] = Undecided /\ new.decision = [store.decision EXCEPT ![t] = d]
    BY <1>5, Zenon DEF RecordsDecision
  <2>2. /\ new.outcome = store.outcome /\ new.prepared = store.prepared
        /\ new.terminal = store.terminal
    BY <1>5, Zenon DEF SameLog, RecordsDecision
  <2>3. t \in External /\ store.outcome[t] = 0
    BY <1>1, <2>1, Zenon DEF Decided
  <2>4. ASSUME NEW u \in External, u # t PROVE new.decision[u] = store.decision[u]
    BY <1>1, <2>1, <2>4, Zenon
  <2> QED
    BY <1>2, <2>1, <2>2, <2>3, <2>4, Zenon DEF Advances
<1>6. CASE SameLog(new) /\ RecordsAbort(new)
  <2>1. PICK t \in External : /\ store.decision[t] \in AbortDecision
                              /\ new.terminal = store.terminal \cup {t}
                              /\ new.prepared = store.prepared \ {t}
    BY <1>6, Zenon DEF RecordsAbort
  <2>2. new.outcome = store.outcome /\ new.decision = store.decision
    BY <1>6, Zenon DEF SameLog, RecordsAbort
  <2>3. store.decision[t] \notin CommitDecision
    BY <1>2, <2>1, Zenon
  <2> QED
    BY <2>1, <2>2, <2>3, Zenon DEF Advances
<1>7. ASSUME NEW t \in TxnId, Publishes(t, new)
      PROVE  Advances(new)
  <2>1. /\ store.outcome[t] = 0 /\ visible_seq + 1 \in CommitSeq
        /\ new.outcome = [store.outcome EXCEPT ![t] = visible_seq + 1]
        /\ new.prepared = store.prepared \ {t} /\ new.decision = store.decision
        /\ new.terminal = store.terminal
    BY <1>7, Zenon DEF Publishes
  <2>2. ASSUME NEW u \in TxnId, u # t PROVE new.outcome[u] = store.outcome[u]
    BY <1>1, <2>1, <2>2, Zenon
  <2>3. visible_seq + 1 # 0
    BY <2>1 DEF CommitSeq
  <2>4. new.outcome[t] # 0
    BY <1>1, <2>1, <2>3, Zenon
  <2> QED
    BY <1>1, <2>1, <2>2, <2>4, Zenon DEF Advances
<1> QED
  BY <1>3, <1>4, <1>5, <1>6, <1>7, Zenon DEF Effect

(* A batch that is written leaves a store as good as the one it found. *)
LEMMA WrittenGood ==
  ASSUME Typed, Current, Phase, Fresh, IdsApart, Good(store), ~Validating,
         NEW new, Written(new)
  PROVE  /\ new \in Image /\ Effect(new) /\ Advances(new) /\ Good(new)
         /\ Retained(new, store.oldest)
<1>1. store \in Image /\ ValidImage(store) /\ Decided(store) /\ new \in Image
  BY StoreFacts, WrittenType, Zenon DEF Typed, Good
<1>2. Effect(new)
  BY <1>1, WrittenEffect, Zenon
<1> QED
  BY <1>1, <1>2, EffectAdvances, GoodKept, Zenon

(* A step keeps the store, goes back to one of its images, or writes a     *)
(* batch whose effect is one of those above.                               *)
LEMMA StoreStep ==
  ASSUME Typed, Current, Phase, Fresh, IdsApart, Good(store), Steps
  PROVE  \/ store' \in Contents
         \/ /\ ~Validating /\ Written(store') /\ store' \in Image
            /\ Effect(store') /\ Advances(store') /\ Retained(store', store.oldest)
            /\ Good(store')
<1>1. CASE OpenStore \/ Crash
  <2>1. CASE OpenStore
    BY <2>1, KeepFacts, StoreFacts, Zenon DEF OpenStore, Typed
  <2>2. CASE Crash
    BY <2>2, CrashFacts, Zenon DEF Crash, Typed
  <2> QED
    BY <1>1, <2>1, <2>2, Zenon
<1>2. CASE ~OpenStore /\ ~Crash /\ Written(store')
  <2>1. ~Validating
    BY <1>2, NotValidating, Zenon
  <2> QED
    BY <1>2, <2>1, WrittenGood, Zenon
<1> QED
  BY <1>1, <1>2, ContentsStep, Zenon DEF Typed

(* The call in progress keeps what it knows: what it holds the database    *)
(* for is not changed by the commits and leases that run beside it.        *)
LEMMA PhaseStep ==
  ASSUME Typed, Current, Phase, Fresh, IdsApart, Good(store), Steps
  PROVE  Phase'
<1>b. TRUE \in BOOLEAN /\ FALSE \in BOOLEAN /\ call.sync \in BOOLEAN /\ call \in Calls
      /\ call.target \in Seq0 /\ call.op \in {"none", "open", "finalize", "abort", "vacuum"}
  BY DEF Typed, Memory, Calls
<1>i. store \in Image /\ allocator \in [Kind -> Nat] /\ visible_seq \in Seq0
  BY StoreFacts, Zenon DEF Typed, Memory
<1>n. store.retention \in Nat /\ store.oldest \in Nat /\ store.oldest \in Seq0
  BY <1>i DEF Image, Seq0
<1>1. CASE call' = Idle
  BY <1>1, IdleShape DEF Phase, Shaped
<1>2. ASSUME call' = call, recovery_required' = recovery_required,
             store'.oldest = store.oldest, store'.retention = store.retention,
             store'.decision = store.decision
      PROVE  Phase'
  BY <1>2, Zenon DEF Phase
<1>3. ASSUME NEW s, Shaped(call', "open", s, store.oldest), store' = store,
             s \in {"cleanup", "watermark", "recover"}, ~recovery_required'
      PROVE  Phase'
  BY <1>3 DEF Phase, Shaped
<1>4. CASE OpenStore
  <2>1. store' = store
    BY <1>4, KeepFacts, Zenon DEF OpenStore, Typed
  <2> DEFINE s == IF store.vacuum.target # 0 THEN "cleanup" ELSE AfterCleanup
  <2>2. s \in {"cleanup", "watermark", "recover"}
    BY DEF AfterCleanup
  <2>3. s \in {"validate", "cleanup", "watermark", "recover"}
    BY <2>2
  <2>4. Shaped(call', "open", s, store.oldest)
    BY <1>4, <1>n, <2>3, OpenShape, Zenon DEF OpenStore
  <2>5. ~recovery_required'
    <3>1. call.op = "open"
      BY <1>4, OpeningFacts DEF OpenStore
    <3> QED
      BY <1>4, <3>1 DEF OpenStore, Phase
  <2> HIDE DEF s
  <2> QED
    BY <1>3, <2>1, <2>2, <2>4, <2>5, Zenon
<1>5. CASE Crash
  <2>1. call' = Opening("validate") /\ ~recovery_required'
    BY <1>5, Zenon DEF Crash
  <2> QED
    BY <2>1, OpeningFacts DEF Phase, Shaped
<1>6. CASE MoveCall
  <2>1. store' = store /\ recovery_required' = recovery_required
    BY <1>6, KeepFacts, Zenon DEF MoveCall, Typed
  <2>2. CASE Shaped(call', "open", "recover", 0) /\ call.op = "open"
    BY <2>1, <2>2 DEF Phase, Shaped
  <2>3. CASE /\ call' = [call EXCEPT !.step = "prune"] /\ call.step = "watermark"
             /\ call.target <= sequence_retention_watermark
    <3>1. Shaped(call', call.op, "prune", call.target)
      BY <1>b, <2>3, StepShape, Zenon
    <3>2. ~recovery_required /\ call.target = store.oldest /\ call.op \in {"open", "vacuum"}
      BY <2>3 DEF Phase
    <3>3. ~Validating
      BY <2>3, OpeningFacts DEF Validating
    <3>4. call.target <= store.retention
      BY <2>3, <3>2, <3>3, Zenon DEF Current
    <3> QED
      BY <2>1, <3>1, <3>2, <3>4 DEF Phase, Shaped
  <2>4. ASSUME NEW t \in External, NEW cert \in Certificate, NEW sync \in BOOLEAN,
               store.decision[t] = <<"commit", cert>>, DecidedCall(call', "finalize", t, sync)
        PROVE  Phase'
    <3>1. store.decision[t] \in CommitDecision
      BY <2>4 DEF CommitDecision
    <3>2. call'.op = "finalize" /\ call'.step = "none" /\ call'.txn = t
      BY <2>4, Zenon DEF DecidedCall, Shaped
    <3> QED
      BY <2>1, <3>1, <3>2 DEF Phase
  <2>5. ASSUME NEW t \in External, NEW cert \in Certificate,
               store.decision[t] = <<"abort", cert>>, DecidedCall(call', "abort", t, TRUE)
        PROVE  Phase'
    <3>1. store.decision[t] \in AbortDecision
      BY <2>5 DEF AbortDecision
    <3>2. call'.op = "abort" /\ call'.step = "none" /\ call'.txn = t
      BY <2>5, Zenon DEF DecidedCall, Shaped
    <3> QED
      BY <2>1, <3>1, <3>2 DEF Phase
  <2>6. CASE Ready /\ ~recovery_required
             /\ Shaped(call', "vacuum", "watermark", oldest_readable_seq)
    <3>1. ~Validating
      BY <2>6, IdleShape, OpeningFacts DEF Ready, Validating, Shaped
    <3>2. oldest_readable_seq = store.oldest
      BY <2>6, <3>1, Zenon DEF Current
    <3> QED
      BY <2>1, <2>6, <3>2 DEF Phase, Shaped
  <2> QED
    BY <1>1, <1>6, <2>2, <2>3, <2>4, <2>5, <2>6, Zenon DEF MoveCall
<1>7. CASE SaveFinalized \/ FinalizeReplay \/ SaveAborted
  BY <1>1, <1>7, Zenon DEF SaveFinalized, FinalizeReplay, SaveAborted
<1>8. CASE SavePrepared
  BY <1>1, <1>8, Zenon DEF SavePrepared, Ready
<1>9. CASE SaveRecovered
  <2>1. call' = call /\ recovery_required' = recovery_required
    BY <1>9, Zenon DEF SaveRecovered
  <2>2. PICK new : Finalizes(new) /\ Write(new, FALSE)
    BY <1>9, Zenon DEF SaveRecovered
  <2>3. store' = new
    BY <1>b, <2>2, WriteStore, Zenon DEF Written
  <2>4. /\ new.oldest = store.oldest /\ new.retention = store.retention
        /\ new.decision = store.decision
    BY <2>2, FinalizeMarks, Zenon
  <2> QED
    BY <1>2, <2>1, <2>3, <2>4, Zenon
<1>10. CASE SaveDecision
  <2>1. PICK t \in External, cert \in Certificate, sync \in BOOLEAN,
             d \in {<<"finalize", "commit">>, <<"abort", "abort">>} :
               /\ store.decision[t] = Undecided /\ t \in store.prepared
               /\ Write(DecisionBatch(t, <<d[2], cert>>, store), TRUE)
               /\ DecidedCall(call', d[1], t, sync)
    BY <1>10, Zenon DEF SaveDecision
  <2>2. d[2] \in Outcome /\ <<d[2], cert>> \in Decision
    BY DEF Outcome, Decision
  <2>3. store' = DecisionBatch(t, <<d[2], cert>>, store)
    BY <1>b, <1>i, <2>1, <2>2, DecisionFields, WriteFacts, Zenon DEF Typed
  <2>4. store'.decision = [store.decision EXCEPT ![t] = <<d[2], cert>>]
    BY <1>i, <2>2, <2>3, DecisionFields, Zenon
  <2>5. store.decision \in [External -> Decision \cup {Undecided}]
    BY <1>i, ImageTypes, Zenon
  <2>6. store'.decision[t] = <<d[2], cert>>
    BY <2>4, <2>5, Zenon
  <2>7. call'.op = d[1] /\ call'.step = "none" /\ call'.txn = t
    BY <2>1, Zenon DEF DecidedCall, Shaped
  <2>8. CASE d = <<"finalize", "commit">>
    <3>1. call'.op = "finalize" /\ store'.decision[t] \in CommitDecision
      BY <2>6, <2>7, <2>8 DEF CommitDecision
    <3> QED
      BY <2>7, <3>1 DEF Phase
  <2>9. CASE d = <<"abort", "abort">>
    <3>1. call'.op = "abort" /\ store'.decision[t] \in AbortDecision
      BY <2>6, <2>7, <2>9 DEF AbortDecision
    <3> QED
      BY <2>7, <3>1 DEF Phase
  <2> QED
    BY <2>8, <2>9
<1>11. ASSUME NEW k \in Kind, AllocateId(k)
       PROVE  Phase'
  <2>1. store' = store
    BY <1>11, KeepFacts, Zenon DEF AllocateId, Typed
  <2> QED
    BY <1>2, <1>11, <2>1, Zenon DEF AllocateId
<1>12. ASSUME NEW k \in Kind, SaveLease(k)
       PROVE  Phase'
  <2>1. call' = call /\ recovery_required' = recovery_required
        /\ Write(LeaseBatch(k, store), TRUE)
    BY <1>12, Zenon DEF SaveLease
  <2>2. store' = LeaseBatch(k, store)
    BY <1>b, <1>i, <2>1, LeaseFields, WriteFacts, Zenon DEF Typed
  <2>3. /\ store'.oldest = store.oldest /\ store'.retention = store.retention
        /\ store'.decision = store.decision
    BY <1>i, <2>2, LeaseFields, Zenon
  <2> QED
    BY <1>2, <2>1, <2>3, Zenon
<1>13. ASSUME NEW t \in Local, SaveCommit(t)
       PROVE  Phase'
  <2>1. call' = call /\ recovery_required' = recovery_required
        /\ Write(CommitBatch(t, store), TRUE) /\ visible_seq < MaxSeq /\ t \in TxnId
    BY <1>13, Zenon DEF SaveCommit, TxnId
  <2>2. store' = CommitBatch(t, store)
    BY <1>b, <1>i, <2>1, CommitFields, WriteFacts, Zenon DEF Typed
  <2>3. /\ store'.oldest = store.oldest /\ store'.retention = store.retention
        /\ store'.decision = store.decision
    BY <1>i, <2>1, <2>2, CommitFields, Zenon
  <2> QED
    BY <1>2, <2>1, <2>3, Zenon
<1>14. ASSUME NEW target \in CommitSeq, SaveBoundary(target)
       PROVE  Phase'
  <2>1. /\ Write(BoundaryBatch(target, store), TRUE)
        /\ Shaped(call', "vacuum", "cleanup", target) /\ ~recovery_required'
    BY <1>14, Zenon DEF SaveBoundary
  <2>2. store' = BoundaryBatch(target, store)
    BY <1>b, <1>i, <2>1, BoundaryFields, WriteFacts, Zenon DEF Typed
  <2>3. store'.oldest = target
    BY <1>i, <2>2, BoundaryFields, Zenon
  <2> QED
    BY <2>1, <2>3 DEF Phase, Shaped
<1>15. CASE SaveVacuumed
  <2>1. PICK new : \E sync \in BOOLEAN :
       /\ \/ /\ Cleans(new)
             /\ \/ call' = call \/ call' = [call EXCEPT !.step = "watermark"]
                \/ call' = Idle
                \/ call.op = "open" /\ Shaped(call', "open", "recover", 0)
          \/ Retains(new) /\ call' = [call EXCEPT !.step = "prune"]
          \/ Prunes(new) /\ call' = call
       /\ Write(new, sync) /\ recovery_required' = recovery_required
    BY <1>15, Zenon DEF SaveVacuumed
  <2>2. store' = new
    BY <2>1, WriteStore, Zenon DEF Written
  <2>3. /\ new.oldest = store.oldest /\ new.decision = store.decision
        /\ Cleans(new) \/ Prunes(new) => new.retention = store.retention \/ Retains(new)
        /\ Retains(new) => new.retention = call.target
    BY <2>1, VacuumMarks, Zenon
  <2>4. /\ ~recovery_required /\ call.op \in {"open", "vacuum"}
        /\ call.target = store.oldest /\ recovery_required' = recovery_required
    BY <2>1 DEF Phase, Cleans, Retains, Prunes
  <2>5. CASE call' = call /\ (Cleans(new) \/ Prunes(new))
    <3>1. new.retention = store.retention
      <4>1. call.step # "watermark"
        BY <2>5 DEF Cleans, Prunes
      <4> QED
        BY <2>3, <2>5, <4>1, Zenon DEF Retains
    <3> QED
      BY <1>2, <2>2, <2>3, <2>4, <2>5, <3>1, Zenon
  <2>6. CASE call' = [call EXCEPT !.step = "watermark"]
    <3>1. Shaped(call', call.op, "watermark", call.target)
      BY <1>b, <2>6, StepShape, Zenon
    <3> QED
      BY <2>2, <2>3, <2>4, <3>1 DEF Phase, Shaped
  <2>7. CASE Shaped(call', "open", "recover", 0)
    BY <2>4, <2>7 DEF Phase, Shaped
  <2>8. CASE Retains(new) /\ call' = [call EXCEPT !.step = "prune"]
    <3>1. Shaped(call', call.op, "prune", call.target)
      BY <1>b, <2>8, StepShape, Zenon
    <3>2. call.target <= new.retention
      BY <1>n, <2>3, <2>4, <2>8
    <3> QED
      BY <2>2, <2>3, <2>4, <3>1, <3>2 DEF Phase, Shaped
  <2> QED
    BY <1>1, <2>1, <2>5, <2>6, <2>7, <2>8, Zenon
<1>16. CASE Fails
  <2>1. /\ Running /\ recovery_required'
        /\ store' = store \/ Written(store')
        /\ call' \in {Idle, call} /\ (call.op = "vacuum" => call' = Idle)
    BY <1>16, FailFacts, Zenon DEF Typed
  <2>2. SUFFICES ASSUME call' = call, call.op # "vacuum" PROVE Phase'
    BY <1>1, <2>1, Zenon
  <2>3. call.op \notin {"open", "vacuum"}
    BY <2>1, <2>2 DEF Running
  <2>4. call.step \notin {"cleanup", "watermark", "prune"}
    BY <2>3 DEF Phase
  <2>5. call.op \in {"finalize", "abort"} => call.txn \in External
    BY Zenon DEF Typed, Called
  <2>6. ASSUME NEW t \in External, store.decision[t] # Undecided
        PROVE  store'.decision[t] = store.decision[t]
    <3>1. CASE store' = store
      BY <3>1
    <3>2. CASE Written(store')
      <4>1. ~Validating
        BY <2>3, OpeningFacts DEF Validating
      <4>2. Advances(store')
        BY <3>2, <4>1, WrittenGood, Zenon
      <4> QED
        BY <2>6, <4>2, Zenon DEF Advances
    <3> QED
      BY <2>1, <3>1, <3>2
  <2>7. Undecided \notin CommitDecision /\ Undecided \notin AbortDecision
    BY DEF Undecided, CommitDecision, AbortDecision
  <2>8. /\ call.op = "finalize" => store'.decision[call.txn] \in CommitDecision
        /\ call.op = "abort" => store'.decision[call.txn] \in AbortDecision
    <3>1. ASSUME call.op = "finalize"
          PROVE  store'.decision[call.txn] = store.decision[call.txn]
      BY <2>5, <2>6, <2>7, <3>1 DEF Phase
    <3>2. ASSUME call.op = "abort"
          PROVE  store'.decision[call.txn] = store.decision[call.txn]
      BY <2>5, <2>6, <2>7, <3>2 DEF Phase
    <3> QED
      BY <3>1, <3>2, Zenon DEF Phase
  <2> QED
    BY <2>2, <2>3, <2>4, <2>8, Zenon DEF Phase
<1> QED
  BY <1>4, <1>5, <1>6, <1>7, <1>8, <1>9, <1>10, <1>11, <1>12, <1>13, <1>14, <1>15, <1>16,
     Zenon DEF Steps


(* A local transaction publishes only under an id that was handed out to   *)
(* it, and the id is dead from then on.                                    *)
LEMMA FreshStep ==
  ASSUME Typed, Leased, Current, Phase, Fresh, IdsApart, Good(store), Steps
  PROVE  Fresh'
<1>b. TRUE \in BOOLEAN /\ FALSE \in BOOLEAN /\ call.sync \in BOOLEAN
  BY DEF Typed, Memory, Calls
<1>i. /\ store \in Image /\ store \in Contents /\ visible_seq \in Seq0
      /\ store.outcome \in [TxnId -> Seq0] /\ store.prepared \subseteq External
      /\ Local \subseteq TxnId
  BY StoreFacts, ImageTypes, Zenon DEF Typed, Memory, TxnId
<1>1. Contents' \subseteq Contents \cup {store'}
  BY ContentsStep, Zenon DEF Typed
<1>2. ASSUME NEW t \in Local, store'.outcome[t] # 0
      PROVE  <<"transaction", t>> \in handed
  <2>1. CASE store' \in Contents
    BY <1>2, <2>1, Zenon DEF Fresh
  <2>2. CASE Effect(store')
    <3>1. CASE store'.outcome = store.outcome
      BY <1>2, <1>i, <3>1, Zenon DEF Fresh
    <3>2. ASSUME NEW u \in TxnId, Publishes(u, store')
          PROVE  <<"transaction", t>> \in handed
      <4>1. /\ store'.outcome = [store.outcome EXCEPT ![u] = visible_seq + 1]
            /\ u \in store.prepared \/ u \in live
        BY <3>2, Zenon DEF Publishes
      <4>2. CASE u = t
        <5>1. u \notin store.prepared
          BY <1>i, <4>2, Zenon DEF IdsApart
        <5> QED
          BY <4>1, <4>2, <5>1, Zenon DEF Fresh
      <4>3. CASE u # t
        <5>1. store'.outcome[t] = store.outcome[t]
          BY <1>i, <4>1, <4>3, Zenon
        <5> QED
          BY <1>2, <1>i, <5>1, Zenon DEF Fresh
      <4> QED
        BY <4>2, <4>3
    <3> QED
      BY <2>2, <3>1, <3>2, Zenon DEF Effect, SameLog, SameTxns
  <2> QED
    BY <2>1, <2>2, StoreStep, Zenon
<1>3. ASSUME handed \subseteq handed', NEW image \in Contents', NEW t \in Local,
             image.outcome[t] # 0
      PROVE  <<"transaction", t>> \in handed'
  BY <1>1, <1>2, <1>3, Zenon DEF Fresh
(* Where no local transaction publishes, nothing happens to those alive. *)
<1>4. ASSUME handed \subseteq handed', live' \subseteq live,
             recovery_required' \/ live' = {} \/
               /\ ~recovery_required' => ~recovery_required
               /\ \/ store' \in Contents
                  \/ \A t \in live' : t \in Local => store'.outcome[t] = store.outcome[t]
      PROVE  Fresh'
  <2>1. \A t \in live' : <<"transaction", t>> \in handed'
    BY <1>4, Zenon DEF Fresh
  <2>2. ASSUME NEW image \in Contents', NEW t \in Local, t \in live', ~recovery_required'
        PROVE  image.outcome[t] = 0
    <3>1. ~recovery_required /\ t \in live
      BY <1>4, <2>2, Zenon
    <3>2. CASE image \in Contents
      BY <3>1, <3>2, Zenon DEF Fresh
    <3>3. CASE image = store' /\ store'.outcome[t] = store.outcome[t]
      BY <1>i, <3>1, <3>3, Zenon DEF Fresh
    <3> QED
      BY <1>1, <1>4, <2>2, <3>2, <3>3, Zenon
  <2> QED
    BY <1>3, <1>4, <2>1, <2>2, Zenon DEF Fresh
<1>5. CASE OpenStore \/ MoveCall \/ FinalizeReplay
  <2>1. /\ handed' = handed /\ live' = live /\ recovery_required' = recovery_required
        /\ images' = images \/ images' = <<store>>
    BY <1>5, Zenon DEF OpenStore, MoveCall, FinalizeReplay, SynchronizeWal, history
  <2>2. store' = store
    <3>1. CASE images' = images
      BY <3>1, KeepFacts, Zenon DEF Typed
    <3>2. CASE images' = <<store>>
      BY <3>2 DEF store
    <3> QED
      BY <2>1, <3>1, <3>2
  <2> QED
    BY <1>4, <1>i, <2>1, <2>2, Zenon
<1>6. CASE Crash
  BY <1>4, <1>6, Zenon DEF Crash, history
<1>7. CASE Fails
  <2>1. recovery_required' /\ UNCHANGED <<live, history>>
    BY <1>7, FailFacts, Zenon DEF Typed
  <2> QED
    BY <1>4, <2>1, Zenon DEF history
<1>8. ASSUME NEW k \in Kind, AllocateId(k)
      PROVE  Fresh'
  <2>1. /\ handed' = handed \cup {<<k, next_id[k]>>}
        /\ live' = IF k = "transaction" THEN live \cup {next_id[k]} ELSE live
        /\ recovery_required' = recovery_required /\ images' = images
        /\ Running \/ Ready
    BY <1>8, Zenon DEF AllocateId
  <2>2. store' = store /\ Contents' = Contents
    BY <2>1, KeepFacts, Zenon DEF Typed
  <2>3. CASE k # "transaction"
    BY <1>4, <1>i, <2>1, <2>2, <2>3, Zenon
  <2>4. CASE k = "transaction"
    <3>1. live' = live \cup {next_id["transaction"]}
          /\ handed' = handed \cup {<<"transaction", next_id["transaction"]>>}
      BY <2>1, <2>4, Zenon
    <3>2. <<"transaction", next_id["transaction"]>> \notin handed
      <4>1. ~Validating
        BY <2>1, OpeningFacts, IdleShape DEF Running, Ready, Validating, Shaped
      <4>2. ASSUME NEW h \in handed PROVE h[2] < next_id[h[1]]
        BY <4>1, Zenon DEF Leased
      <4>3. next_id["transaction"] \in Nat
        BY <2>4 DEF Typed, Memory
      <4> QED
        BY <4>2, <4>3
    <3>3. ASSUME NEW image \in Contents', NEW t \in Local, t \in live', ~recovery_required'
          PROVE  image.outcome[t] = 0
      <4>1. CASE t \in live
        BY <2>1, <2>2, <3>3, <4>1, Zenon DEF Fresh
      <4>2. CASE t = next_id["transaction"]
        BY <2>2, <3>2, <3>3, <4>2, Zenon DEF Fresh
      <4> QED
        BY <3>1, <3>3, <4>1, <4>2, Zenon
    <3>4. \A t \in live' : <<"transaction", t>> \in handed'
      BY <3>1, Zenon DEF Fresh
    <3> QED
      BY <1>3, <3>1, <3>3, <3>4, Zenon DEF Fresh
  <2> QED
    BY <2>3, <2>4
<1>9. ASSUME NEW new, NEW sync \in BOOLEAN, Write(new, sync),
             \/ Prepares(new) \/ Decides(new) \/ Aborts(new) \/ Leases(new)
             \/ Cleans(new) \/ Retains(new) \/ Prunes(new) \/ Finalizes(new)
             \/ Bounds(new),
             UNCHANGED <<live, handed, recovery_required>>
      PROVE  Fresh'
  <2>1. store' = new
    BY <1>9, WriteStore, Zenon DEF Written
  <2>2. ASSUME NEW t \in live', t \in Local PROVE new.outcome[t] = store.outcome[t]
    <3>1. CASE Prepares(new) \/ Decides(new) \/ Aborts(new) \/ Leases(new)
      BY <3>1, PlainMarks, Zenon
    <3>2. CASE Cleans(new) \/ Retains(new) \/ Prunes(new)
      BY <3>2, VacuumMarks, Zenon
    <3>3. CASE Bounds(new)
      <4>1. PICK target \in CommitSeq : new = BoundaryBatch(target, store)
        BY <3>3, Zenon DEF Bounds
      <4> QED
        BY <1>i, <4>1, BoundaryFields, Zenon
    <3>4. CASE Finalizes(new)
      <4>1. PICK u \in store.prepared :
              /\ u \in TxnId /\ visible_seq < MaxSeq
              /\ call.op = "finalize" => u = call.txn
              /\ new.visible = visible_seq + 1 /\ new.oldest = store.oldest
              /\ new.retention = store.retention
              /\ new.outcome = [store.outcome EXCEPT ![u] = visible_seq + 1]
              /\ new.prepared = store.prepared \ {u} /\ new.decision = store.decision
        BY <3>4, FinalizeMarks
      <4>2. u # t
        BY <1>i, <2>2, Zenon DEF IdsApart
      <4> QED
        BY <1>i, <2>2, <4>1, <4>2, Zenon
    <3> QED
      BY <1>9, <3>1, <3>2, <3>3, <3>4, Zenon
  <2> QED
    BY <1>4, <1>9, <2>1, <2>2, Zenon
<1>10. CASE SaveRecovered \/ SavePrepared \/ SaveFinalized \/ SaveAborted
            \/ \E k \in Kind : SaveLease(k)
  <2>1. UNCHANGED <<live, handed, recovery_required>>
    BY <1>10, Zenon DEF SaveRecovered, SavePrepared, SaveFinalized, SaveAborted, SaveLease,
       history
  <2>2. CASE SaveRecovered
    BY <1>9, <1>b, <2>1, <2>2, Zenon DEF SaveRecovered
  <2>3. CASE SavePrepared
    BY <1>9, <1>b, <2>1, <2>3, Zenon DEF SavePrepared
  <2>4. CASE SaveFinalized
    BY <1>9, <1>b, <2>1, <2>4, Zenon DEF SaveFinalized
  <2>5. CASE SaveAborted
    BY <1>9, <1>b, <2>1, <2>5, Zenon DEF SaveAborted, Aborts
  <2>6. CASE \E k \in Kind : SaveLease(k)
    BY <1>9, <1>b, <2>1, <2>6, Zenon DEF SaveLease, Leases
  <2> QED
    BY <1>10, <2>2, <2>3, <2>4, <2>5, <2>6, Zenon
<1>11. CASE SaveDecision
  <2>1. PICK t \in External, cert \in Certificate,
             d \in {<<"finalize", "commit">>, <<"abort", "abort">>} :
               /\ store.decision[t] = Undecided /\ t \in store.prepared
               /\ Write(DecisionBatch(t, <<d[2], cert>>, store), TRUE)
    BY <1>11, Zenon DEF SaveDecision
  <2>2. d[2] \in Outcome
    BY DEF Outcome
  <2>3. Decides(DecisionBatch(t, <<d[2], cert>>, store))
    BY <2>1, <2>2, Zenon DEF Decides
  <2>4. UNCHANGED <<live, handed, recovery_required>>
    BY <1>11, Zenon DEF SaveDecision, history
  <2> QED
    BY <1>9, <1>b, <2>1, <2>3, <2>4, Zenon
<1>12. ASSUME NEW target \in CommitSeq, SaveBoundary(target)
       PROVE  Fresh'
  <2>1. Running
    BY <1>12, IdleShape DEF SaveBoundary, Ready, Running, Shaped
  <2>2. Bounds(BoundaryBatch(target, store)) /\ Write(BoundaryBatch(target, store), TRUE)
    BY <1>12, <2>1, Zenon DEF SaveBoundary, Bounds
  <2>3. UNCHANGED <<live, handed, recovery_required>>
    BY <1>12, Zenon DEF SaveBoundary, history
  <2> QED
    BY <1>9, <1>b, <2>2, <2>3, Zenon
<1>13. CASE SaveVacuumed
  <2>1. UNCHANGED <<live, handed, recovery_required>>
    BY <1>13, Zenon DEF SaveVacuumed, history
  <2>2. \E new : \E sync \in BOOLEAN :
          Write(new, sync) /\ (Cleans(new) \/ Retains(new) \/ Prunes(new))
    BY <1>13, Zenon DEF SaveVacuumed
  <2> QED
    BY <1>9, <2>1, <2>2, Zenon
<1>14. ASSUME NEW t \in Local, SaveCommit(t)
       PROVE  Fresh'
  <2>1. /\ Write(CommitBatch(t, store), TRUE) /\ visible_seq < MaxSeq /\ live' = live \ {t}
        /\ UNCHANGED <<handed, recovery_required>>
    BY <1>14, Zenon DEF SaveCommit
  <2>2. store' = CommitBatch(t, store)
    BY <1>b, <1>i, <2>1, CommitFields, WriteFacts, Zenon DEF Typed
  <2>3. store'.outcome = [store.outcome EXCEPT ![t] = visible_seq + 1]
    BY <1>i, <2>1, <2>2, CommitFields, Zenon
  <2>4. ASSUME NEW u \in live', u \in Local PROVE store'.outcome[u] = store.outcome[u]
    BY <1>i, <2>1, <2>3, <2>4, Zenon
  <2> QED
    BY <1>4, <2>1, <2>4, Zenon
<1> QED
  BY <1>5, <1>6, <1>7, <1>8, <1>10, <1>11, <1>12, <1>13, <1>14, Zenon DEF Steps


-----------------------------------------------------------------------------
(* What a crash leaves, against the store it takes it from. *)

(* The writes that are always synchronized leave one image. *)
LEMMA SyncSaves ==
  ASSUME Typed,
         \/ SavePrepared \/ SaveDecision \/ SaveAborted
         \/ \E k \in Kind : SaveLease(k)
         \/ \E t \in Local : SaveCommit(t)
         \/ \E target \in CommitSeq : SaveBoundary(target)
  PROVE  Contents' = {store'}
<1>b. TRUE \in BOOLEAN
  OBVIOUS
<1>1. ASSUME \E new : Written(new) /\ Write(new, TRUE) PROVE Contents' = {store'}
  BY <1>1, <1>b, WriteStore, Zenon
<1>2. CASE SavePrepared
  BY <1>1, <1>2, Zenon DEF SavePrepared, Written
<1>3. CASE SaveDecision
  <2>1. PICK t \in External, cert \in Certificate,
             d \in {<<"finalize", "commit">>, <<"abort", "abort">>} :
               /\ store.decision[t] = Undecided /\ t \in store.prepared
               /\ Write(DecisionBatch(t, <<d[2], cert>>, store), TRUE)
    BY <1>3, Zenon DEF SaveDecision
  <2>2. d[2] \in Outcome
    BY DEF Outcome
  <2>3. Decides(DecisionBatch(t, <<d[2], cert>>, store))
    BY <2>1, <2>2, Zenon DEF Decides
  <2> QED
    BY <1>1, <2>1, <2>3, Zenon DEF Written
<1>4. CASE SaveAborted
  BY <1>1, <1>4, Zenon DEF SaveAborted, Aborts, Written
<1>5. CASE \E k \in Kind : SaveLease(k)
  BY <1>1, <1>5, Zenon DEF SaveLease, Leases, Written
<1>6. CASE \E t \in Local : SaveCommit(t)
  BY <1>1, <1>6, Zenon DEF SaveCommit, Commits, Written, PublisherFree
<1>7. ASSUME NEW target \in CommitSeq, SaveBoundary(target)
      PROVE  Contents' = {store'}
  <2>1. Running
    BY <1>7, IdleShape DEF SaveBoundary, Ready, Running, Shaped
  <2> QED
    BY <1>1, <1>7, <2>1, Zenon DEF SaveBoundary, Bounds, Written
<1> QED
  BY <1>2, <1>3, <1>4, <1>5, <1>6, <1>7, Zenon

(* The commit of t is in the image, or can be repeated from it. *)
Committable(image, t) ==
  \/ image.outcome[t] # 0
  \/ t \in image.prepared /\ image.decision[t] \in CommitDecision

(* The images behind the store differ from it by buffered publications     *)
(* and prunings: each has the store's decisions, and still has prepared    *)
(* what the store has finalized since.                                     *)
Trailing ==
  /\ ~recovery_required =>
       \A image \in Contents :
         image.decision = store.decision /\ store.prepared \subseteq image.prepared
  /\ \A image \in Contents : \A t \in External :
       store.outcome[t] # 0 /\ store.decision[t] \in CommitDecision => Committable(image, t)

LEMMA TrailingStep ==
  ASSUME Typed, Current, Phase, Fresh, Trailing, IdsApart, Good(store), Steps
  PROVE  Trailing'
<1>b. TRUE \in BOOLEAN /\ FALSE \in BOOLEAN /\ call.sync \in BOOLEAN
  BY DEF Typed, Memory, Calls
<1>i. /\ store \in Image /\ store.outcome \in [TxnId -> Seq0]
      /\ store.prepared \subseteq External /\ External \subseteq TxnId
  BY StoreFacts, ImageTypes, TxnFacts, Zenon DEF Typed
<1>1. CASE Contents' = {store'}
  BY <1>1, Zenon DEF Trailing, Committable
<1>2. ASSUME store' = store, Contents' = Contents, ~recovery_required' => ~recovery_required
      PROVE  Trailing'
  BY <1>2, Zenon DEF Trailing, Committable
<1>3. ASSUME Contents' = Contents \cup {store'}, Effect(store'), Advances(store'),
             NEW image \in Contents', NEW t \in External,
             store'.outcome[t] # 0, store'.decision[t] \in CommitDecision
      PROVE  Committable(image, t)
  <2>1. CASE image = store'
    BY <1>3, <2>1, Zenon DEF Committable
  <2>2. CASE image \in Contents /\ store.outcome[t] # 0
    <3>1. store'.decision[t] = store.decision[t]
      BY <1>3, <2>2, Zenon DEF Advances
    <3> QED
      BY <1>3, <2>2, <3>1, Zenon DEF Trailing
  <2>3. CASE image \in Contents /\ store.outcome[t] = 0
    <3>1. PICK u \in TxnId : Publishes(u, store')
      BY <1>3, <2>3, Zenon DEF Effect, SameLog, SameTxns
    <3>2. /\ u \in store.prepared \/ u \in Local
          /\ store'.outcome = [store.outcome EXCEPT ![u] = visible_seq + 1]
          /\ store'.decision = store.decision
      BY <3>1, Zenon DEF Publishes
    <3>r. ~recovery_required
      BY <3>1, Zenon DEF Publishes
    <3>3. u = t
      BY <1>3, <1>i, <2>3, <3>2, Zenon
    <3>4. t \in store.prepared
      BY <3>2, <3>3, Zenon DEF IdsApart
    <3>5. image.decision = store.decision /\ t \in image.prepared
      BY <2>3, <3>r, <3>4, Zenon DEF Trailing
    <3> QED
      BY <1>3, <3>2, <3>5, Zenon DEF Committable
  <2> QED
    BY <1>3, <2>1, <2>2, <2>3, Zenon
<1>4. ASSUME NEW new, Finalizes(new) \/ Prunes(new), Write(new, FALSE),
             recovery_required' = recovery_required, ~Validating
      PROVE  Trailing'
  <2>1. Written(new)
    BY <1>4, Zenon DEF Written
  <2>2. store' = new /\ Contents' = Contents \cup {new}
    BY <1>4, <1>b, <2>1, WriteStore, Zenon
  <2>3. new.decision = store.decision /\ new.prepared \subseteq store.prepared
    <3>1. CASE Finalizes(new)
      BY <3>1, FinalizeMarks
    <3>2. CASE Prunes(new)
      BY <3>2, VacuumMarks, Zenon
    <3> QED
      BY <1>4, <3>1, <3>2
  <2>4. Effect(new) /\ Advances(new)
    BY <1>4, <2>1, WrittenGood, Zenon
  <2>5. ASSUME NEW image \in Contents', ~recovery_required
        PROVE  image.decision = new.decision /\ new.prepared \subseteq image.prepared
    BY <2>2, <2>3, <2>5, Zenon DEF Trailing
  <2> QED
    BY <1>3, <1>4, <2>2, <2>4, <2>5, Zenon DEF Trailing, Committable
<1>5. CASE OpenStore \/ MoveCall \/ \E k \in Kind : AllocateId(k)
  <2>1. images' = images /\ recovery_required' = recovery_required
    BY <1>5, Zenon DEF OpenStore, MoveCall, AllocateId
  <2>2. store' = store /\ Contents' = Contents
    BY <2>1, KeepFacts, Zenon DEF Typed
  <2> QED
    BY <1>2, <2>1, <2>2, Zenon
<1>6. CASE Crash
  BY <1>1, <1>6, CrashFacts, Zenon DEF Crash, Typed
<1>7. CASE FinalizeReplay
  <2>1. CASE images' = images
    <3>1. store' = store /\ Contents' = Contents
      BY <2>1, KeepFacts, Zenon DEF Typed
    <3> QED
      BY <1>2, <1>7, <3>1, Zenon DEF FinalizeReplay
  <2>2. CASE images' = <<store>>
    <3>1. Contents' = {store'}
      BY <2>2 DEF store, Contents
    <3> QED
      BY <1>1, <3>1
  <2> QED
    BY <1>7, <2>1, <2>2, Zenon DEF FinalizeReplay, SynchronizeWal
<1>8. CASE \/ SavePrepared \/ SaveDecision \/ SaveAborted
           \/ \E k \in Kind : SaveLease(k)
           \/ \E t \in Local : SaveCommit(t)
           \/ \E target \in CommitSeq : SaveBoundary(target)
  BY <1>1, <1>8, SyncSaves, Zenon
<1>9. ASSUME NEW new, Written(new), Write(new, TRUE)
      PROVE  Trailing'
  BY <1>1, <1>9, <1>b, WriteStore, Zenon
<1>10. CASE SaveRecovered
  <2>1. ~Validating
    BY <1>10, OpeningFacts DEF SaveRecovered, Validating
  <2> QED
    BY <1>4, <1>10, <2>1, Zenon DEF SaveRecovered
<1>11. CASE SaveFinalized
  <2>1. PICK new : Finalizes(new) /\ Write(new, call.sync)
    BY <1>11, Zenon DEF SaveFinalized
  <2>2. ~Validating /\ recovery_required' = recovery_required
    BY <1>11, OpeningFacts DEF SaveFinalized, Validating
  <2>3. CASE call.sync = TRUE
    BY <1>9, <2>1, <2>3, Zenon DEF Written
  <2>4. CASE call.sync = FALSE
    BY <1>4, <2>1, <2>2, <2>4, Zenon
  <2> QED
    BY <1>b, <2>3, <2>4
<1>12. CASE SaveVacuumed
  <2>1. PICK new : \E sync \in BOOLEAN :
             /\ Cleans(new) \/ Retains(new) \/ Prunes(new)
             /\ Write(new, sync) /\ (sync \/ Prunes(new))
    BY <1>12, Zenon DEF SaveVacuumed
  <2>2. PICK sync \in BOOLEAN :
             /\ Cleans(new) \/ Retains(new) \/ Prunes(new)
             /\ Write(new, sync) /\ (sync \/ Prunes(new))
    BY <2>1, Zenon
  <2>3. ~Validating /\ recovery_required' = recovery_required
    <3>1. call.step \in {"cleanup", "watermark", "prune"}
      BY <2>2, Zenon DEF Cleans, Retains, Prunes
    <3>2. ~Validating
      BY <3>1, OpeningFacts DEF Validating
    <3> QED
      BY <1>12, <3>2, Zenon DEF SaveVacuumed
  <2>4. CASE sync = TRUE
    BY <1>9, <2>2, <2>4, Zenon DEF Written
  <2>5. CASE sync = FALSE
    BY <1>4, <2>2, <2>3, <2>5, Zenon
  <2> QED
    BY <2>4, <2>5
<1>13. CASE Fails
  <2>1. /\ Running /\ recovery_required'
        /\ \/ store' = store /\ Contents' = Contents
           \/ Written(store') /\ Contents' = Contents \cup {store'}
    BY <1>13, FailFacts, Zenon DEF Typed
  <2>2. CASE store' = store /\ Contents' = Contents
    BY <1>2, <2>1, <2>2, Zenon
  <2>3. CASE Written(store') /\ Contents' = Contents \cup {store'}
    <3>1. ~Validating
      BY <2>1, OpeningFacts DEF Running, Validating
    <3>2. Effect(store') /\ Advances(store')
      BY <2>3, <3>1, WrittenGood, Zenon
    <3> QED
      BY <1>3, <2>1, <2>3, <3>2, Zenon DEF Trailing, Committable
  <2> QED
    BY <2>1, <2>2, <2>3, Zenon
<1> QED
  BY <1>5, <1>6, <1>7, <1>8, <1>10, <1>11, <1>12, <1>13, Zenon DEF Steps


(* AnswersSurvive of one answer and one image, and what an answer says of  *)
(* its transaction.                                                        *)
Survives(a, image) ==
  /\ a.outcome = "abort" =>
       /\ a.txn \in image.terminal /\ a.txn \notin image.prepared
       /\ FinalizeOnOpen \/ image.outcome[a.txn] = 0
  /\ a.outcome = "commit" /\ a.durable => image.outcome[a.txn] = a.seq
  /\ a.outcome = "commit" /\ ~a.durable => Committable(image, a.txn)

Told(a) ==
  /\ a.outcome = "commit" => a.seq # 0
  /\ a.outcome = "abort" \/ ~a.durable => a.txn \in External

Survived == \A a \in answers : Told(a) /\ \A image \in Contents : Survives(a, image)

(* A batch takes nothing back that a caller was told. *)
LEMMA SurvivesWrite ==
  ASSUME NEW a \in Answers, Told(a), Survives(a, store),
         NEW new, Advances(new), Good(new)
  PROVE  Survives(a, new)
<1>1. a.txn \in TxnId /\ a.outcome \in {"commit", "abort"} /\ a.durable \in BOOLEAN
  BY DEF Answers, Outcome
<1>2. CASE a.outcome = "abort"
  <2>1. a.txn \in External /\ a.txn \in store.terminal /\ a.txn \notin store.prepared
    BY <1>2, Zenon DEF Told, Survives
  <2>2. a.txn \in new.terminal /\ a.txn \notin new.prepared
    BY <2>1, Zenon DEF Advances
  <2>3. FinalizeOnOpen \/ new.outcome[a.txn] = 0
    BY <2>1, <2>2, Zenon DEF Good, Decided
  <2>4. a.outcome # "commit"
    BY <1>2
  <2> QED
    BY <2>2, <2>3, <2>4, Zenon DEF Survives
<1>3. CASE a.outcome = "commit" /\ a.durable
  <2>1. store.outcome[a.txn] = a.seq /\ a.seq # 0
    BY <1>3, Zenon DEF Survives, Told
  <2>2. new.outcome[a.txn] = a.seq
    BY <1>1, <2>1, Zenon DEF Advances
  <2>3. a.outcome # "abort"
    BY <1>3
  <2> QED
    BY <1>3, <2>2, <2>3, Zenon DEF Survives
<1>4. CASE a.outcome = "commit" /\ ~a.durable
  <2>1. Committable(store, a.txn) /\ a.txn \in External
    BY <1>4, Zenon DEF Survives, Told
  <2>2. Committable(new, a.txn)
    <3>1. CASE store.outcome[a.txn] # 0
      BY <1>1, <3>1, Zenon DEF Advances, Committable
    <3>2. CASE a.txn \in store.prepared /\ store.decision[a.txn] \in CommitDecision
      BY <2>1, <3>2, Zenon DEF Advances, Committable
    <3> QED
      BY <2>1, <3>1, <3>2, Zenon DEF Committable
  <2>3. a.outcome # "abort"
    BY <1>4
  <2> QED
    BY <1>4, <2>2, <2>3, Zenon DEF Survives
<1> QED
  BY <1>1, <1>2, <1>3, <1>4

LEMMA SurvivedStep ==
  ASSUME Typed, Current, Phase, Fresh, Trailing, Survived, IdsApart, Good(store), Steps
  PROVE  Survived'
<1>b. /\ TRUE \in BOOLEAN /\ FALSE \in BOOLEAN /\ call.sync \in BOOLEAN
      /\ answers \subseteq Answers
  BY DEF Typed, Memory, Calls
<1>i. /\ store \in Image /\ store \in Contents /\ visible_seq \in Seq0
      /\ store.outcome \in [TxnId -> Seq0]
      /\ store.prepared \subseteq External /\ External \subseteq TxnId
  BY StoreFacts, ImageTypes, TxnFacts, Zenon DEF Typed, Memory
<1>p. FinalizeOnOpen' = FinalizeOnOpen
  BY PolicyKept, Zenon DEF FinalizeOnOpen
<1>1. ASSUME NEW a \in answers
      PROVE  Told(a) /\ \A image \in Contents' : Survives(a, image)
  <2>1. Contents' \subseteq Contents \cup {store'}
    BY ContentsStep, Zenon DEF Typed
  <2>2. Survives(a, store')
    <3>1. CASE store' \in Contents
      BY <3>1, Zenon DEF Survived
    <3>2. CASE Advances(store') /\ Good(store')
      BY <1>b, <1>i, <3>2, SurvivesWrite, Zenon DEF Survived
    <3> QED
      BY <3>1, <3>2, StoreStep, Zenon
  <2> QED
    BY <2>1, <2>2, Zenon DEF Survived
<1>2. ASSUME \A a \in answers' :
               a \in answers \/ (Told(a) /\ \A image \in Contents' : Survives(a, image))
      PROVE  Survived'
  <2>1. \A a \in answers' : Told(a) /\ \A image \in Contents' : Survives(a, image)
    BY <1>1, <1>2, Zenon
  <2> QED
    BY <1>p, <2>1, Zenon DEF Survived, Survives, Told, Committable
<1>3. CASE answers' = answers
  BY <1>2, <1>3, Zenon
(* An answer that a step gives. *)
<1>4. ASSUME NEW t \in TxnId, NEW seq \in Seq0, NEW sync \in BOOLEAN, seq # 0,
             Answer(t, "commit", seq, sync),
             sync => Contents' = {store'} /\ store'.outcome[t] = seq,
             ~sync => t \in External /\ \A image \in Contents' : Committable(image, t)
      PROVE  Survived'
  <2> DEFINE a == [txn |-> t, outcome |-> "commit", seq |-> seq, durable |-> sync]
  <2>1. a.txn = t /\ a.outcome = "commit" /\ a.seq = seq /\ a.durable = sync
    OBVIOUS
  <2>2. answers' = answers \cup {a}
    BY <1>4, Zenon DEF Answer
  <2> HIDE DEF a
  <2>3. a.outcome # "abort"
    BY <2>1
  <2>4. Told(a)
    BY <1>4, <2>1, <2>3, Zenon DEF Told
  <2>5. ASSUME NEW image \in Contents' PROVE Survives(a, image)
    <3>1. CASE sync
      <4>1. image = store' /\ image.outcome[t] = seq
        BY <1>4, <3>1, Zenon
      <4> QED
        BY <2>1, <2>3, <3>1, <4>1, Zenon DEF Survives
    <3>2. CASE ~sync
      <4>1. Committable(image, t)
        BY <1>4, <3>2, Zenon
      <4> QED
        BY <2>1, <2>3, <3>2, <4>1, Zenon DEF Survives
    <3> QED
      BY <3>1, <3>2, Zenon
  <2> QED
    BY <1>2, <2>2, <2>4, <2>5, Zenon
<1>5. CASE SaveFinalized
  <2>1. PICK new : Finalizes(new) /\ Write(new, call.sync)
    BY <1>5, Zenon DEF SaveFinalized
  <2>2. /\ Answer(call.txn, "commit", visible_seq + 1, call.sync)
        /\ call.op = "finalize" /\ call.txn \in External
    BY <1>5 DEF SaveFinalized, Typed, Called
  <2>3. /\ store' = new
        /\ call.sync => Contents' = {new}
        /\ ~call.sync => Contents' = Contents \cup {new}
    BY <1>b, <2>1, WriteStore, Zenon DEF Written
  <2>4. PICK u \in store.prepared :
          /\ u \in TxnId /\ visible_seq < MaxSeq
          /\ call.op = "finalize" => u = call.txn
          /\ new.visible = visible_seq + 1 /\ new.oldest = store.oldest
          /\ new.retention = store.retention
          /\ new.outcome = [store.outcome EXCEPT ![u] = visible_seq + 1]
          /\ new.prepared = store.prepared \ {u} /\ new.decision = store.decision
    BY <2>1, FinalizeMarks
  <2>5. call.txn \in store.prepared /\ new.outcome[call.txn] = visible_seq + 1
    <3>1. u = call.txn
      BY <2>2, <2>4, Zenon
    <3> QED
      BY <1>i, <2>4, <3>1, Zenon
  <2>6. visible_seq + 1 \in Seq0 /\ visible_seq + 1 # 0
    BY <1>i, <2>4, RecoveryAssumption DEF Seq0
  <2>7. ~recovery_required
    <3>1. call.op # "open"
      BY <2>2
    <3> QED
      BY <2>1, <3>1, Zenon DEF Finalizes
  <2>8. store.decision[call.txn] \in CommitDecision
    BY <2>2, Zenon DEF Phase
  <2>9. ASSUME ~call.sync, NEW image \in Contents' PROVE Committable(image, call.txn)
    <3>1. CASE image = new
      BY <2>5, <2>6, <3>1, Zenon DEF Committable
    <3>2. CASE image \in Contents
      BY <2>5, <2>7, <2>8, <3>2, Zenon DEF Trailing, Committable
    <3> QED
      BY <2>3, <2>9, <3>1, <3>2, Zenon
  <2>10. call.txn \in TxnId
    BY <1>i, <2>2, Zenon
  <2> QED
    BY <1>4, <1>b, <2>2, <2>3, <2>5, <2>6, <2>9, <2>10, Zenon
<1>6. CASE FinalizeReplay
  <2> DEFINE seq == store.outcome[call.txn]
  <2>1. /\ Answer(call.txn, "commit", seq, call.sync)
        /\ call.op = "finalize" /\ call.txn \in External
        /\ seq \in 1..visible_seq
    BY <1>6 DEF FinalizeReplay, Typed, Called
  <2>2. call.txn \in TxnId /\ seq \in Seq0
    BY <1>i, <2>1, Zenon
  <2>3. seq # 0
    BY <2>1
  <2>4. store.decision[call.txn] \in CommitDecision
    BY <2>1, Zenon DEF Phase
  <2>5. ASSUME call.sync PROVE Contents' = {store'} /\ store'.outcome[call.txn] = seq
    <3>1. images' = <<store>>
      BY <1>6, <2>5, Zenon DEF FinalizeReplay, SynchronizeWal
    <3>2. Contents' = {store'} /\ store' = store
      BY <3>1 DEF store, Contents
    <3> QED
      BY <3>2, Zenon
  <2>6. ASSUME ~call.sync, NEW image \in Contents' PROVE Committable(image, call.txn)
    <3>1. images' = images
      BY <1>6, <2>6, Zenon DEF FinalizeReplay
    <3>2. Contents' = Contents
      BY <3>1, KeepFacts, Zenon DEF Typed
    <3> QED
      BY <2>1, <2>3, <2>4, <2>6, <3>2, Zenon DEF Trailing
  <2> HIDE DEF seq
  <2> QED
    BY <1>4, <1>b, <2>1, <2>2, <2>3, <2>5, <2>6, Zenon
<1>7. CASE SaveAborted
  <2>1. /\ Write(AbortBatch(call.txn, store), TRUE) /\ Answer(call.txn, "abort", 0, TRUE)
        /\ call.op = "abort" /\ call.txn \in External
    BY <1>7 DEF SaveAborted, Typed, Called
  <2>2. Written(AbortBatch(call.txn, store))
    BY <2>1, Zenon DEF Aborts, Written
  <2>3. store' = AbortBatch(call.txn, store) /\ Contents' = {store'}
    BY <1>b, <2>1, <2>2, WriteStore, Zenon
  <2>4. /\ store'.terminal = store.terminal \cup {call.txn}
        /\ store'.prepared = store.prepared \ {call.txn}
    BY <1>i, <2>1, <2>3, AbortFields, Zenon
  <2>5. Good(store')
    <3>1. ~Validating
      BY <2>1, OpeningFacts DEF Validating
    <3> QED
      BY <2>2, <2>3, <3>1, WrittenGood, Zenon
  <2>6. FinalizeOnOpen \/ store'.outcome[call.txn] = 0
    BY <2>1, <2>4, <2>5, Zenon DEF Good, Decided
  <2> DEFINE a == [txn |-> call.txn, outcome |-> "abort", seq |-> 0, durable |-> TRUE]
  <2>7. a.txn = call.txn /\ a.outcome = "abort"
    OBVIOUS
  <2>8. answers' = answers \cup {a}
    BY <2>1, Zenon DEF Answer
  <2> HIDE DEF a
  <2>9. a.outcome # "commit"
    BY <2>7
  <2>10. Told(a) /\ Survives(a, store')
    BY <2>1, <2>4, <2>6, <2>7, <2>9, Zenon DEF Told, Survives
  <2> QED
    BY <1>2, <2>3, <2>8, <2>10, Zenon
<1>8. ASSUME NEW t \in Local, SaveCommit(t)
      PROVE  Survived'
  <2>1. /\ Write(CommitBatch(t, store), TRUE) /\ visible_seq < MaxSeq
        /\ Answer(t, "commit", visible_seq + 1, TRUE)
    BY <1>8, Zenon DEF SaveCommit
  <2>2. t \in TxnId
    BY Zenon DEF TxnId
  <2>3. store' = CommitBatch(t, store) /\ Contents' = {store'}
    BY <1>b, <1>i, <2>1, <2>2, CommitFields, WriteFacts, Zenon DEF Typed
  <2>4. store'.outcome = [store.outcome EXCEPT ![t] = visible_seq + 1]
    BY <1>i, <2>1, <2>2, <2>3, CommitFields, Zenon
  <2>5. store'.outcome[t] = visible_seq + 1
    BY <1>i, <2>2, <2>4, Zenon
  <2>6. visible_seq + 1 \in Seq0 /\ visible_seq + 1 # 0
    BY <1>i, <2>1, RecoveryAssumption DEF Seq0
  <2> QED
    BY <1>4, <1>b, <2>1, <2>2, <2>3, <2>5, <2>6, Zenon
<1>9. CASE \/ OpenStore \/ Crash \/ MoveCall \/ SaveRecovered \/ SavePrepared \/ SaveDecision
           \/ \E k \in Kind : AllocateId(k) \/ SaveLease(k)
           \/ \E target \in CommitSeq : SaveBoundary(target)
           \/ SaveVacuumed
  <2>1. answers' = answers
    BY <1>9, Zenon DEF OpenStore, Crash, MoveCall, SaveRecovered, SavePrepared,
       SaveDecision, AllocateId, SaveLease, SaveBoundary, SaveVacuumed, history
  <2> QED
    BY <1>3, <2>1
<1>10. CASE Fails
  <2>1. UNCHANGED history
    BY <1>10, FailFacts, Zenon DEF Typed
  <2> QED
    BY <1>3, <2>1, Zenon DEF history
<1> QED
  BY <1>5, <1>6, <1>7, <1>8, <1>9, <1>10, Zenon DEF Steps


-----------------------------------------------------------------------------
(* The images and the reads. *)

LEMMA GoodStep ==
  ASSUME Typed, Current, Phase, Fresh, IdsApart, \A image \in Contents : Good(image), Steps
  PROVE  (\A image \in Contents : Good(image))'
<1>1. Good(store)
  BY StoreFacts, Zenon DEF Typed
<1>2. ASSUME NEW image \in Contents' PROVE Good(image)
  <2>1. image \in Contents \/ image = store'
    BY ContentsStep, Zenon DEF Typed
  <2>2. Good(store')
    BY <1>1, StoreStep, Zenon
  <2> QED
    BY <2>1, <2>2, Zenon
<1>3. FinalizeOnOpen' = FinalizeOnOpen
  BY PolicyKept, Zenon DEF FinalizeOnOpen
<1> QED
  BY <1>2, <1>3, Zenon DEF Good, Decided

(* The running store keeps every version that a read at or above the       *)
(* boundary in memory needs, also after a write that failed.               *)
Readable == Running => Retained(store, oldest_readable_seq)

LEMMA ReadableStep ==
  ASSUME Typed, Current, Phase, Fresh, Readable, IdsApart,
         \A image \in Contents : Good(image), Steps
  PROVE  Readable'
<1>1. Good(store)
  BY StoreFacts, Zenon DEF Typed
<1>2. ASSUME Running' => Retained(store', oldest_readable_seq')
      PROVE  Readable'
  BY <1>2, Zenon DEF Readable
<1>3. CASE ~recovery_required'
  <2> SUFFICES ASSUME Running' PROVE Retained(store', oldest_readable_seq')
    BY <1>2, Zenon
  <2>1. ~Validating'
    BY OpeningFacts DEF Validating, Running, Shaped
  <2>2. oldest_readable_seq' = store'.oldest
    BY <1>3, <2>1, CurrentStep, Zenon DEF Current
  <2>3. Good(store')
    BY <1>1, StoreStep, Zenon
  <2>4. Retained(store', store'.oldest)
    BY <2>3, Zenon DEF Good
  <2> QED
    BY <2>2, <2>4, Zenon
<1>4. ASSUME Running, oldest_readable_seq' = oldest_readable_seq,
             store' = store \/ Written(store')
      PROVE  Readable'
  <2>1. Retained(store, oldest_readable_seq)
    BY <1>4, Zenon DEF Readable
  <2>2. CASE store' = store
    BY <1>2, <1>4, <2>1, <2>2, Zenon
  <2>3. CASE Written(store')
    <3>1. ~Validating
      BY <1>4, OpeningFacts DEF Validating, Running, Shaped
    <3>2. Effect(store') /\ Retained(store', store.oldest)
      BY <1>1, <2>3, <3>1, WrittenGood, Zenon
    <3>3. CASE ~recovery_required
      <4>1. oldest_readable_seq = store.oldest
        BY <3>1, <3>3, Zenon DEF Current
      <4> QED
        BY <1>2, <1>4, <3>2, <4>1, Zenon
    <3>4. CASE recovery_required
      <4>1. store'.outcome = store.outcome /\ store'.facts = store.facts
        BY <3>2, <3>4, Zenon DEF Effect, Publishes, SameLog
      <4>2. Retained(store', oldest_readable_seq)
        BY <2>1, <4>1, Zenon DEF Retained
      <4> QED
        BY <1>2, <1>4, <4>2, Zenon
    <3> QED
      BY <3>3, <3>4, Zenon
  <2> QED
    BY <1>4, <2>2, <2>3, Zenon
<1>5. CASE Fails
  BY <1>4, <1>5, FailFacts, Zenon DEF Typed, watermarks
<1>6. CASE OpenStore
  <2>1. call.op = "open"
    BY <1>6, OpeningFacts DEF OpenStore, Shaped
  <2> QED
    BY <1>3, <1>6, <2>1 DEF OpenStore, Phase
<1>7. CASE Crash
  BY <1>3, <1>7, Zenon DEF Crash
<1>8. SUFFICES ASSUME recovery_required, ~OpenStore, ~Crash, ~Fails
               PROVE  Readable'
  <2>1. ASSUME ~OpenStore, ~Crash, ~Fails PROVE recovery_required' = recovery_required
    BY <2>1, Zenon DEF Steps, MoveCall, SaveRecovered, SavePrepared, SaveDecision,
       SaveFinalized, FinalizeReplay, SaveAborted, AllocateId, SaveLease, SaveCommit,
       SaveBoundary, SaveVacuumed
  <2> QED
    BY <1>3, <1>5, <1>6, <1>7, <2>1, Zenon
<1>9. call.op # "open" /\ call.step \notin {"cleanup", "watermark", "prune"}
  BY <1>8 DEF Phase
<1>10. Running
  BY <1>9, Zenon DEF Running
<1>11. CASE MoveCall \/ FinalizeReplay \/ \E k \in Kind : AllocateId(k)
  <2>1. UNCHANGED watermarks
    BY <1>11, Zenon DEF MoveCall, FinalizeReplay, AllocateId
  <2>2. images' = images \/ images' = <<store>>
    BY <1>11, Zenon DEF MoveCall, FinalizeReplay, AllocateId, SynchronizeWal
  <2>3. store' = store
    BY <2>2 DEF store
  <2> QED
    BY <1>4, <1>10, <2>1, <2>3, Zenon DEF watermarks
<1>12. CASE \/ SavePrepared \/ SaveDecision \/ SaveFinalized \/ SaveAborted
            \/ \E k \in Kind : SaveLease(k)
            \/ \E t \in Local : SaveCommit(t)
  <2>1. oldest_readable_seq' = oldest_readable_seq
    BY <1>12, Zenon DEF SavePrepared, SaveDecision, SaveFinalized, SaveAborted, SaveLease,
       SaveCommit, watermarks
  <2>2. Written(store')
    BY <1>12, SavedFacts, Zenon DEF Typed
  <2> QED
    BY <1>4, <1>10, <2>1, <2>2, Zenon
<1>13. CASE SaveRecovered \/ \E target \in CommitSeq : SaveBoundary(target)
  BY <1>8, <1>9, <1>13, Zenon DEF SaveRecovered, SaveBoundary
<1>14. CASE SaveVacuumed
  <2>1. call.step \in {"cleanup", "watermark", "prune"}
    BY <1>14 DEF SaveVacuumed, Cleans, Retains, Prunes
  <2> QED
    BY <1>9, <2>1, Zenon
<1> QED
  BY <1>8, <1>11, <1>12, <1>13, <1>14, Zenon DEF Steps

-----------------------------------------------------------------------------
(* The inductive invariant. *)

Recoverable ==
  /\ Current /\ Phase /\ Fresh /\ Trailing /\ Survived /\ Readable
  /\ \A image \in Contents : Good(image)

LEMMA RecoverableInit ==
  ASSUME Init
  PROVE  Recoverable
<1>1. /\ Contents = {Initialized} /\ store = Initialized
  BY DEF Init, Contents, store
<1>2. /\ Validating /\ call.op = "open" /\ call.step = "validate" /\ ~recovery_required
  BY OpeningFacts DEF Init, Validating, Shaped
<1>3. live = {} /\ answers = {}
  BY Zenon DEF Init
<1>4. /\ Initialized.visible = 0 /\ Initialized.oldest = 0 /\ Initialized.retention = 0
      /\ Initialized.sequence = [s \in CommitSeq |-> 0]
      /\ Initialized.outcome = [t \in TxnId |-> 0]
      /\ Initialized.facts = {} /\ Initialized.prepared = {}
      /\ Initialized.decision = [t \in External |-> Undecided]
      /\ Initialized.terminal = {} /\ Initialized.vacuum.target = 0
  BY DEF Initialized
<1>5. \A t \in TxnId : Initialized.outcome[t] = 0
  BY <1>4, Zenon
<1>6. External \subseteq TxnId /\ Local \subseteq TxnId
  BY Zenon DEF TxnId
<1>7. Good(Initialized)
  <2>1. \A s \in CommitSeq : Initialized.sequence[s] = 0 /\ ~(s <= 0)
    BY <1>4 DEF CommitSeq
  <2>2. 0 <= 0
    OBVIOUS
  <2>3. ValidImage(Initialized)
    BY <1>4, <2>1, <2>2, Zenon DEF ValidImage
  <2>4. \A t \in External : Initialized.decision[t] = Undecided
    BY <1>4, Zenon
  <2>5. Undecided \notin CommitDecision /\ Undecided \notin AbortDecision
    BY DEF Undecided, CommitDecision, AbortDecision
  <2>6. Decided(Initialized)
    BY <1>4, <2>4, <2>5, Zenon DEF Decided
  <2>7. Sound(Initialized) /\ Retained(Initialized, Initialized.oldest)
    BY <1>4, <1>5, Zenon DEF Sound, Retained
  <2> QED
    BY <2>3, <2>6, <2>7, Zenon DEF Good
<1>8. Current /\ Survived
  BY <1>2, <1>3, Zenon DEF Current, Survived
<1>9. Phase /\ Readable
  BY <1>2 DEF Phase, Readable, Running
<1>10. Fresh /\ Trailing
  BY <1>1, <1>3, <1>5, <1>6, Zenon DEF Fresh, Trailing
<1> QED
  BY <1>1, <1>7, <1>8, <1>9, <1>10, Zenon DEF Recoverable

LEMMA RecoverableStep ==
  ASSUME Typed, Leased, Recoverable, IdsApart, [Next]_vars
  PROVE  Recoverable'
<1>1. /\ Current /\ Phase /\ Fresh /\ Trailing /\ Survived /\ Readable
      /\ \A image \in Contents : Good(image)
  BY Zenon DEF Recoverable
<1>2. Good(store)
  BY <1>1, StoreFacts, Zenon DEF Typed
<1>3. CASE Next
  <2>1. Steps
    BY <1>3, NextSteps, Zenon DEF Typed
  <2>2. Current'
    BY <1>1, <2>1, CurrentStep, Zenon
  <2>3. Phase'
    BY <1>1, <1>2, <2>1, PhaseStep, Zenon
  <2>4. Fresh'
    BY <1>1, <1>2, <2>1, FreshStep, Zenon
  <2>5. Trailing'
    BY <1>1, <1>2, <2>1, TrailingStep, Zenon
  <2>6. Survived'
    BY <1>1, <1>2, <2>1, SurvivedStep, Zenon
  <2>7. Readable'
    BY <1>1, <2>1, ReadableStep, Zenon
  <2>8. (\A image \in Contents : Good(image))'
    BY <1>1, <2>1, GoodStep, Zenon
  <2> QED
    BY <2>2, <2>3, <2>4, <2>5, <2>6, <2>7, <2>8, Zenon DEF Recoverable
<1>4. CASE UNCHANGED vars
  <2>1. /\ UNCHANGED <<images, visible_seq, oldest_readable_seq,
                       sequence_retention_watermark, recovery_required, live, call,
                       answers, handed, policy>>
    BY <1>4, Zenon DEF vars, watermarks, history, env
  <2>2. Contents' = Contents /\ store' = store /\ Validating' = Validating
        /\ Running' = Running /\ FinalizeOnOpen' = FinalizeOnOpen
    BY <2>1, Zenon DEF Contents, store, Validating, Running, FinalizeOnOpen
  <2>3. Current' /\ Readable'
    BY <1>1, <2>1, <2>2, Zenon DEF Current, Readable, Retained
  <2>4. Phase' /\ Fresh' /\ Trailing'
    BY <1>1, <2>1, <2>2, Zenon DEF Phase, Fresh, Trailing, Committable
  <2>5. Survived'
    BY <1>1, <2>1, <2>2, Zenon DEF Survived, Survives, Told, Committable
  <2>6. (\A image \in Contents : Good(image))'
    BY <1>1, <2>2, Zenon DEF Good, Decided
  <2> QED
    BY <2>3, <2>4, <2>5, <2>6, Zenon DEF Recoverable
<1> QED
  BY <1>3, <1>4, Zenon

LEMMA RecoveryInvariant ==
  ASSUME IdsApart
  PROVE  Spec => [](Typed /\ Recoverable)
<1>1. Init => Typed /\ Leased /\ Recoverable
  BY TypedInit, LeasedInit, RecoverableInit, Zenon
<1>2. Typed /\ Leased /\ Recoverable /\ [Next]_vars => (Typed /\ Leased /\ Recoverable)'
  <2> SUFFICES ASSUME Typed, Leased, Recoverable, [Next]_vars
               PROVE  (Typed /\ Leased /\ Recoverable)'
    OBVIOUS
  <2>1. Typed'
    BY TypedStep, Zenon
  <2>2. Leased'
    BY LeasedKept, Zenon
  <2>3. Recoverable'
    BY RecoverableStep, Zenon
  <2> QED
    BY <2>1, <2>2, <2>3, Zenon
<1> QED
  BY <1>1, <1>2, PTL DEF Spec

-----------------------------------------------------------------------------
(* What holds of every run. *)

(* No id is handed out twice, also not by a process that opens what a      *)
(* crash left: AllocateTransactionId and AllocateVertexId hand out only    *)
(* ids of a lease whose record has reached the log.                        *)
THEOREM IdsCorrect == Spec => []IdsFresh
<1>1. Init => Typed /\ Leased
  BY TypedInit, LeasedInit, Zenon
<1>2. Typed /\ Leased /\ [Next]_vars => (Typed /\ Leased)'
  BY TypedStep, LeasedKept, Zenon
<1>3. Typed /\ Leased => IdsFresh
  <2> SUFFICES ASSUME Typed, Leased, NEW h \in handed
               PROVE  /\ h[2] < next_id[h[1]] \/ call = Opening("validate")
                      /\ \A i \in 1..Len(images) : h[2] < LoadAllocatorState(h[1], images[i])
    BY Zenon DEF IdsFresh
  <2>1. h[2] < next_id[h[1]] \/ call = Opening("validate")
    BY Zenon DEF Leased, Validating
  <2>2. ASSUME NEW i \in 1..Len(images) PROVE h[2] < LoadAllocatorState(h[1], images[i])
    <3>1. images[i] \in Contents
      BY Zenon DEF Contents
    <3>2. h[2] < images[i].allocator[h[1]] /\ h[2] \in Nat
      <4>1. h[2] \in Nat
        BY DEF Typed, Memory
      <4> QED
        BY <3>1, <4>1, Zenon DEF Leased, Covers
    <3>3. images[i].allocator[h[1]] # 0
      BY <3>2
    <3>4. LoadAllocatorState(h[1], images[i]) = images[i].allocator[h[1]]
      BY <3>3, Zenon DEF LoadAllocatorState
    <3> QED
      BY <3>2, <3>4, Zenon
  <2> QED
    BY <2>1, <2>2, Zenon
<1> QED
  BY <1>1, <1>2, <1>3, PTL DEF Spec

(* Whatever a crash leaves, Open accepts: the writes of a commit, of the   *)
(* vacuum boundary, of a cleanup or prune batch leave in every prefix of   *)
(* the log what ValidateCommittedSequences asks for.                       *)
THEOREM ImagesCorrect ==
  ASSUME IdsApart
  PROVE  Spec => []EveryImageOpens
<1>1. Typed /\ Recoverable => EveryImageOpens
  <2> SUFFICES ASSUME Typed, Recoverable, NEW i \in 1..Len(images)
               PROVE  images[i] \in Image /\ ValidImage(images[i])
    BY Zenon DEF EveryImageOpens
  <2>1. images[i] \in Contents
    BY Zenon DEF Contents
  <2>2. ValidImage(images[i])
    BY <2>1, Zenon DEF Recoverable, Good
  <2>3. images[i] \in Image
    BY DEF Typed, Stored
  <2> QED
    BY <2>2, <2>3, Zenon
<1> QED
  BY <1>1, RecoveryInvariant, PTL

(* A certified decision of FinalizePreparedCommit or AbortPreparedCommit   *)
(* binds every later write, crash and reopening.                           *)
THEOREM DecisionsCorrect ==
  ASSUME IdsApart
  PROVE  Spec => []DecisionsBinding
<1>1. Recoverable => DecisionsBinding
  <2> SUFFICES ASSUME Recoverable
               PROVE  \A i \in 1..Len(images) : Decided(images[i])
    BY Zenon DEF DecisionsBinding, Decided, CommitDecision, AbortDecision
  <2>1. \A i \in 1..Len(images) : images[i] \in Contents
    BY Zenon DEF Contents
  <2> QED
    BY <2>1, Zenon DEF Recoverable, Good
<1> QED
  BY <1>1, RecoveryInvariant, PTL

(* What Commit, FinalizePreparedCommit and AbortPreparedCommit told their  *)
(* callers holds in whatever a crash leaves of the log.                    *)
THEOREM SurvivalCorrect ==
  ASSUME IdsApart
  PROVE  Spec => []AnswersSurvive
<1>1. Typed /\ Recoverable => AnswersSurvive
  <2> SUFFICES ASSUME Typed, Recoverable, NEW a \in answers, NEW i \in 1..Len(images)
               PROVE  LET image == images[i] IN
      CASE a.outcome = "abort" ->
             /\ a.txn \in image.terminal /\ a.txn \notin image.prepared
             /\ FinalizeOnOpen \/ image.outcome[a.txn] = 0
        [] a.outcome = "commit" /\ a.durable -> image.outcome[a.txn] = a.seq
        [] OTHER ->
             \/ image.outcome[a.txn] # 0
             \/ /\ a.txn \in image.prepared
                /\ image.decision[a.txn] \in {"commit"} \X Certificate
    BY Zenon DEF AnswersSurvive
  <2>1. images[i] \in Contents
    BY Zenon DEF Contents
  <2>2. Survives(a, images[i])
    BY <2>1, Zenon DEF Recoverable, Survived
  <2>3. a.outcome \in {"commit", "abort"} /\ a.durable \in BOOLEAN
    BY DEF Typed, Memory, Answers, Outcome
  <2>4. CASE a.outcome = "abort"
    BY <2>2, <2>4 DEF Survives
  <2>5. CASE a.outcome = "commit" /\ a.durable
    BY <2>2, <2>5 DEF Survives
  <2>6. CASE a.outcome = "commit" /\ ~a.durable
    BY <2>2, <2>6 DEF Survives, Committable, CommitDecision
  <2> QED
    BY <2>3, <2>4, <2>5, <2>6
<1> QED
  BY <1>1, RecoveryInvariant, PTL

(* Of a fact, a read at or above the bound finds the version that was      *)
(* committed last.                                                         *)
LEMMA ReadExact ==
  ASSUME NEW image \in Image, Sound(image), NEW bound \in Nat, Retained(image, bound),
         NEW f \in Fact, NEW seq \in Nat, bound <= seq
  PROVE  VersionAt(f, seq, image) = CommittedAt(f, seq, image)
<1> DEFINE A == {image.outcome[t] :
                   t \in {u \in TxnId : f \in Writes[u] /\ image.outcome[u] <= seq}}
           B == {v[2] : v \in {w \in image.facts : w[1] = f /\ w[2] <= seq}}
<1>1. image.outcome \in [TxnId -> Seq0] /\ image.facts \subseteq Fact \X CommitSeq
  BY ImageTypes, Zenon
<1>2. A \subseteq Nat
  <2>1. \A t \in TxnId : image.outcome[t] \in Nat
    BY <1>1 DEF Seq0
  <2> QED
    BY <2>1, Zenon
<1>3. B \subseteq A
  <2> SUFFICES ASSUME NEW v \in image.facts, v[1] = f, v[2] <= seq PROVE v[2] \in A
    BY Zenon
  <2>1. PICK t \in TxnId : v[1] \in Writes[t] /\ image.outcome[t] = v[2]
    BY Zenon DEF Sound
  <2> QED
    BY <2>1, Zenon
<1>4. ASSUME NEW a \in A PROVE \E b \in B \cup {0} : a <= b
  <2>1. PICK t \in TxnId : f \in Writes[t] /\ image.outcome[t] <= seq /\ a = image.outcome[t]
    BY Zenon
  <2>2. a \in Nat
    BY <1>2, Zenon
  <2>3. CASE a = 0
    BY <2>3
  <2>4. ASSUME NEW s \in CommitSeq, <<f, s>> \in image.facts, s <= seq, a <= s
        PROVE  \E b \in B \cup {0} : a <= b
    <3> DEFINE v == <<f, s>>
    <3>1. v[1] = f /\ v[2] = s
      OBVIOUS
    <3> HIDE DEF v
    <3>2. v \in image.facts
      BY <2>4 DEF v
    <3>3. s \in B
      BY <2>4, <3>1, <3>2, Zenon
    <3> QED
      BY <2>4, <3>3, Zenon
  <2>5. CASE a # 0 /\ <<f, a>> \in image.facts
    <3>1. a \in CommitSeq
      BY <1>1, <2>5
    <3>2. a <= a
      BY <2>2
    <3>3. a <= seq
      BY <2>1, Zenon
    <3> QED
      BY <2>4, <2>5, <3>1, <3>2, <3>3, Zenon
  <2>6. ASSUME NEW s \in CommitSeq, <<f, s>> \in image.facts, a < s, s <= bound
        PROVE  \E b \in B \cup {0} : a <= b
    <3>1. s <= seq /\ a <= s
      BY <2>2, <2>6 DEF CommitSeq
    <3> QED
      BY <2>4, <2>6, <3>1, Zenon
  <2>7. CASE a # 0 /\ <<f, a>> \notin image.facts
    <3>1. \E s \in CommitSeq : <<f, s>> \in image.facts /\ a < s /\ s <= bound
      BY <2>1, <2>7, Zenon DEF Retained
    <3> QED
      BY <2>6, <3>1, Zenon
  <2> QED
    BY <2>3, <2>5, <2>7, Zenon
<1>5. CommittedAt(f, seq, image) = Newest(A) /\ VersionAt(f, seq, image) = Newest(B)
  BY Zenon DEF CommittedAt, VersionAt
<1> HIDE DEF A, B
<1>6. Newest(A) = Newest(B)
  BY <1>2, <1>3, <1>4, SameNewest, Zenon
<1> QED
  BY <1>5, <1>6, Zenon

(* Vacuum takes no version that a read at or above the boundary needs, in  *)
(* the running store and in whatever a crash leaves of it, however its     *)
(* cleanup and pruning were interrupted and resumed.                       *)
THEOREM ReadsCorrect ==
  ASSUME IdsApart
  PROVE  Spec => []ReadsPreserved
<1>1. Typed /\ Recoverable => ReadsPreserved
  <2> SUFFICES ASSUME Typed, Recoverable PROVE ReadsPreserved
    OBVIOUS
  <2>1. \A image \in Contents : Sound(image) /\ Retained(image, image.oldest)
    BY Zenon DEF Recoverable, Good
  <2>2. ASSUME NEW i \in 1..Len(images), NEW f \in Fact,
               NEW seq \in images[i].oldest..images[i].visible
        PROVE  VersionAt(f, seq, images[i]) = CommittedAt(f, seq, images[i])
    <3>1. images[i] \in Contents
      BY Zenon DEF Contents
    <3>2. images[i] \in Image
      BY DEF Typed, Stored
    <3>3. images[i].oldest \in Nat /\ images[i].visible \in Nat
      BY <3>2, ImageTypes, Zenon
    <3>4. seq \in Nat /\ images[i].oldest <= seq
      BY <3>3
    <3> QED
      BY <2>1, <3>1, <3>2, <3>3, <3>4, ReadExact, Zenon
  <2>3. ASSUME call.op # "open", NEW f \in Fact, NEW seq \in oldest_readable_seq..visible_seq
        PROVE  VersionAt(f, seq, store) = CommittedAt(f, seq, store)
    <3>1. store \in Contents /\ store \in Image
      BY StoreFacts, Zenon DEF Typed
    <3>2. Retained(store, oldest_readable_seq)
      BY <2>3, Zenon DEF Recoverable, Readable, Running
    <3>3. seq \in Nat /\ oldest_readable_seq \in Nat /\ oldest_readable_seq <= seq
      BY DEF Typed, Memory, Seq0
    <3> QED
      BY <2>1, <3>1, <3>2, <3>3, ReadExact, Zenon
  <2> QED
    BY <2>2, <2>3, Zenon DEF ReadsPreserved
<1> QED
  BY <1>1, RecoveryInvariant, PTL

=============================================================================

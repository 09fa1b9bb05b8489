------------------------- MODULE FactStoreRecovery -------------------------
(***************************************************************************)
(* What the fact store writes to its log, and what a crash leaves of it.   *)
(*                                                                         *)
(* Two-phase commits prepared by an external coordinator, commits of local *)
(* transactions, id leases, vacuum and the pruning of sequence records are *)
(* the writers.  A call of the database holds Database::Impl::mutex until  *)
(* it returns; a local commit and a lease only take publisher_mutex, which *)
(* vacuum and Open hold throughout.                                        *)
(*                                                                         *)
(* `images` is what a crash may leave behind: the contents of the store    *)
(* from the last synchronized write on, one per write.  A synchronized     *)
(* write leaves one image, a buffered write adds one.                      *)
(***************************************************************************)
EXTENDS Naturals, Sequences, FiniteSets, FiniteSetsExt

CONSTANTS
  External,     \* ids the coordinator prepares transactions under
  Certificate,  \* decision certificates
  Fact,         \* 1..n: boundaries (fact, valid time) in key order
  Writes,       \* Writes[t]: the facts transaction t writes
  Kind,         \* the kinds of ids leased: "transaction" and "vertex"
  MaxId,        \* MaxId[k]: the last id of kind k a lease may end with, a bound
  LeaseSize,
  FirstLease,   \* next_id of the transaction lease found; 0: none was written
  Policy,           \* values of prepared_commit_recovery
  PruneRecords,     \* prune_sequence_records_on_vacuum
  PruneSync,        \* sequence_prune_sync
  MaxSeq, MaxCrashes, MaxFailures  \* bounds

Local == 1..MaxId["transaction"]
TxnId == Local \cup External
Seq0 == 0..MaxSeq
CommitSeq == 1..MaxSeq
Outcome == {"commit", "abort"}
Decision == Outcome \X Certificate
Undecided == <<"none">>

ASSUME RecoveryAssumption ==
  /\ External \subseteq Nat \ {0} /\ IsFiniteSet(External)
  /\ Certificate # {} /\ IsFiniteSet(Fact) /\ Fact \subseteq Nat \ {0}
  /\ Writes \in [TxnId -> (SUBSET Fact) \ {{}}]
  /\ "transaction" \in Kind /\ Kind \subseteq {"transaction", "vertex"}
  /\ MaxId \in [Kind -> Nat]
  /\ LeaseSize \in Nat \ {0} /\ FirstLease \in Nat
  /\ Policy \subseteq {"finalize_on_open", "await_external_decision"}
  /\ {PruneRecords, PruneSync} \subseteq BOOLEAN
  /\ MaxSeq \in Nat /\ MaxCrashes \in Nat /\ MaxFailures \in Nat

VARIABLES
  policy,             \* prepared_commit_recovery
  images,
  visible_seq, oldest_readable_seq, sequence_retention_watermark,
  allocator,          \* transaction_allocator, vertex_allocator: next_id
  next_id, limit,     \* what is left of the lease in use
  recovery_required,
  live,               \* local transactions begun and not yet committed
  call,               \* the call under Database::Impl::mutex, or Open
  answers,            \* history: what callers were told
  handed,             \* history: ids handed out
  crashes, failures

watermarks == <<visible_seq, oldest_readable_seq, sequence_retention_watermark>>
leases == <<allocator, next_id, limit>>
history == <<answers, handed>>
env == <<policy, crashes>>
vars == <<images, watermarks, leases, recovery_required, live, call, history, env,
          failures>>

-----------------------------------------------------------------------------
(* The contents of the store. *)

Image ==
  [visible : Seq0, oldest : Seq0, retention : Seq0,   \* durable watermarks
   sequence : [CommitSeq -> TxnId \cup {0}],          \* sequence/<seq> records
   outcome : [TxnId -> Seq0],                         \* transaction/<id> records
   facts : SUBSET (Fact \X CommitSeq),
   prepared : SUBSET External,
   decision : [External -> Decision \cup {Undecided}],
   terminal : SUBSET External,                        \* async abort terminals
   vacuum : [target : Seq0, cursor : Nat],            \* target 0: no record
   allocator : [Kind -> Nat]]                         \* 0: no record

Initialized ==
  [visible |-> 0, oldest |-> 0, retention |-> 0,
   sequence |-> [s \in CommitSeq |-> 0],
   outcome |-> [t \in TxnId |-> 0],
   facts |-> {}, prepared |-> {},
   decision |-> [t \in External |-> Undecided],
   terminal |-> {}, vacuum |-> [target |-> 0, cursor |-> 0],
   allocator |-> [k \in Kind |-> IF k = "transaction" THEN FirstLease ELSE 0]]

store == images[Len(images)]

Write(image, sync) ==
  images' = IF sync THEN <<image>> ELSE Append(images, image)

(* FromCommitWriteFailure, FromMetadataWriteFailure: the write may or may  *)
(* not have reached the log; the call returns Indeterminate and the store  *)
(* refuses commits until it is reopened.                                   *)
Idle == [op |-> "none", step |-> "none", txn |-> 0, cert |-> "none",
         sync |-> FALSE, target |-> 0]

WriteIndeterminate(image, next) ==
  /\ failures < MaxFailures
  /\ failures' = failures + 1
  /\ \/ images' = images
     \/ images' = Append(images, image)
  /\ recovery_required' = TRUE
  /\ call' = next
  /\ UNCHANGED <<watermarks, leases, live, history, env>>

-----------------------------------------------------------------------------
(* The write batches. *)

CommitBatch(t, image) ==
  LET seq == visible_seq + 1 IN
  [image EXCEPT
     !.facts = @ \cup {<<f, seq>> : f \in Writes[t]},
     !.sequence[seq] = t,
     !.outcome[t] = seq,
     !.visible = seq]

FinalizeBatch(t, image) == [CommitBatch(t, image) EXCEPT !.prepared = @ \ {t}]

\* Mutant: the abort terminal is written and the prepare record stays.
AbortBatch_KeepsPrepared(t, image) == [image EXCEPT !.terminal = @ \cup {t}]

AbortBatch(t, image) ==
  [image EXCEPT !.terminal = @ \cup {t}, !.prepared = @ \ {t}]

DecisionBatch(t, decision, image) == [image EXCEPT !.decision[t] = decision]

\* Mutant: the watermark is left to a write of its own.
BoundaryBatch_StateOnly(target, image) ==
  [image EXCEPT !.vacuum = [target |-> target, cursor |-> 0]]

BoundaryBatch(target, image) ==
  [image EXCEPT !.vacuum = [target |-> target, cursor |-> 0], !.oldest = target]

\* Mutant: a version is obsolete once any newer one exists.
Obsolete_IgnoresTarget(image) ==
  {v \in image.facts : /\ v[2] <= image.vacuum.target
                       /\ \E w \in image.facts : w[1] = v[1] /\ v[2] < w[2]}

(* VacuumCleanupPlanner: of the versions at or below the target every       *)
(* boundary keeps the newest; a batch ends between two boundaries.          *)
Obsolete(image) ==
  {v \in image.facts :
     /\ v[2] <= image.vacuum.target
     /\ \E w \in image.facts :
          w[1] = v[1] /\ v[2] < w[2] /\ w[2] <= image.vacuum.target}

CleanupBatch(last, image) ==
  [image EXCEPT
     !.facts = @ \ {v \in Obsolete(image) : image.vacuum.cursor < v[1] /\ v[1] <= last},
     !.vacuum = IF last = Max(Fact) THEN [target |-> 0, cursor |-> 0]
                ELSE [@ EXCEPT !.cursor = last]]

Prunable(boundary, image) ==
  {s \in CommitSeq : s < boundary /\ image.sequence[s] # 0}

PruneBatch(last, image) ==
  [image EXCEPT !.sequence = [s \in CommitSeq |-> IF s <= last THEN 0 ELSE @[s]]]

\* Mutant: the record of a lease holds its first id, not the one after it.
LeaseBatch_FirstId(k, image) == [image EXCEPT !.allocator[k] = allocator[k]]

LeaseBatch(k, image) == [image EXCEPT !.allocator[k] = allocator[k] + LeaseSize]

-----------------------------------------------------------------------------
(* Opening. *)

(* The checks of FactStore::Open and ValidateCommittedSequences. *)
ValidImage(image) ==
  /\ image.oldest <= image.visible
  /\ image.retention <= image.oldest
  /\ \A s \in CommitSeq :
       (image.retention <= s /\ s <= image.visible) =>
          /\ image.sequence[s] # 0
          /\ image.outcome[image.sequence[s]] = s
          /\ s >= image.oldest => \A f \in Writes[image.sequence[s]] : <<f, s>> \in image.facts
  /\ \A s \in CommitSeq : image.sequence[s] # 0 => s <= image.visible
  /\ image.vacuum.target # 0 => image.vacuum.target = image.oldest

LoadAllocatorState(k, image) ==
  IF image.allocator[k] # 0 THEN image.allocator[k]
  ELSE IF k # "transaction" THEN 1
  ELSE 1 + Max({0} \cup {image.sequence[s] : s \in {s \in CommitSeq : s >= image.retention}})

NoLease == [k \in Kind |-> 0]

Opening(step) == [Idle EXCEPT !.op = "open", !.step = step]

AfterCleanup == IF PruneRecords THEN "watermark" ELSE "recover"

OpenStore ==
  /\ call = Opening("validate")
  /\ ValidImage(store)
  /\ visible_seq' = store.visible
  /\ oldest_readable_seq' = store.oldest
  /\ sequence_retention_watermark' = store.retention
  /\ allocator' = [k \in Kind |-> LoadAllocatorState(k, store)]
  /\ next_id' = allocator' /\ limit' = allocator'
  /\ call' = [Opening(IF store.vacuum.target # 0 THEN "cleanup" ELSE AfterCleanup)
                EXCEPT !.target = store.oldest]
  /\ UNCHANGED <<images, recovery_required, live, history, env, failures>>

(* Database::Open finalizes what is prepared, each transaction with a      *)
(* buffered write, or leaves it to the coordinator.                        *)
FinalizeOnOpen == policy = "finalize_on_open"

RecoverPrepared ==
  /\ call.op = "open" /\ call.step = "recover"
  /\ \/ /\ FinalizeOnOpen /\ visible_seq < MaxSeq
        /\ \E t \in store.prepared :
             /\ \A u \in store.prepared : t <= u
             /\ store.outcome[t] = 0
             /\ Write(FinalizeBatch(t, store), FALSE)
             /\ visible_seq' = visible_seq + 1
        /\ call' = call
     \/ /\ FinalizeOnOpen => store.prepared = {}
        /\ call' = Idle
        /\ UNCHANGED <<images, visible_seq>>
  /\ UNCHANGED <<oldest_readable_seq, sequence_retention_watermark, leases,
                 recovery_required, live, history, env, failures>>

(* The process stops, or the machine does, or an operator reopens a store  *)
(* that asks for it.  What was not synchronized may be lost from some      *)
(* write on.                                                               *)
Crash ==
  /\ crashes < MaxCrashes \/ recovery_required
  /\ crashes' = IF recovery_required THEN crashes ELSE crashes + 1
  /\ \E i \in 1..Len(images) : images' = <<images[i]>>
  /\ call' = Opening("validate")
  /\ recovery_required' = FALSE
  /\ live' = {}
  /\ visible_seq' = 0 /\ oldest_readable_seq' = 0 /\ sequence_retention_watermark' = 0
  /\ allocator' = NoLease /\ next_id' = NoLease /\ limit' = NoLease
  /\ UNCHANGED <<policy, history, failures>>

-----------------------------------------------------------------------------
(* Prepared commits: Database::*PreparedCommit. *)

Running == call.op # "open"

Ready == call = Idle

Answer(t, outcome, seq, durable) ==
  answers' = answers \cup {[txn |-> t, outcome |-> outcome, seq |-> seq, durable |-> durable]}

PersistPreparedCommit(t) ==
  LET image == [store EXCEPT !.prepared = @ \cup {t}] IN
  /\ Ready /\ ~recovery_required
  /\ store.decision[t] = Undecided
  /\ t \notin store.prepared /\ store.outcome[t] = 0
  /\ \/ /\ Write(image, TRUE)
        /\ UNCHANGED <<watermarks, leases, recovery_required, live, call, history,
                       env, failures>>
     \/ WriteIndeterminate(image, Idle)

(* ResolvePreparedDecision, then PersistPreparedDecision when there is none. *)
Decide(t, op, outcome, cert, sync) ==
  LET decision == <<outcome, cert>>
      decided == [Idle EXCEPT !.op = op, !.txn = t, !.cert = cert, !.sync = sync]
      image == DecisionBatch(t, decision, store)
  IN /\ Ready
     /\ \/ /\ store.decision[t] = decision
           /\ call' = decided
           /\ UNCHANGED <<images, recovery_required, failures>>
           /\ UNCHANGED <<watermarks, leases, live, history, env>>
        \/ /\ store.decision[t] = Undecided /\ t \in store.prepared
           /\ \/ /\ Write(image, TRUE)
                 /\ call' = decided
                 /\ UNCHANGED <<watermarks, leases, recovery_required, live, history,
                                env, failures>>
              \/ WriteIndeterminate(image, Idle)

FinalizePreparedCommit(t, cert, sync) == Decide(t, "finalize", "commit", cert, sync)

AbortPreparedCommit(t, cert) == Decide(t, "abort", "abort", cert, TRUE)

(* CommitDirect of the prepared batch, after a lookup of its outcome. *)
FinalizeCommit ==
  LET t == call.txn
      image == FinalizeBatch(t, store)
  IN /\ call.op = "finalize" /\ t \in store.prepared
     /\ ~recovery_required /\ store.outcome[t] = 0 /\ visible_seq < MaxSeq
     /\ \/ /\ Write(image, call.sync)
           /\ visible_seq' = visible_seq + 1
           /\ Answer(t, "commit", visible_seq + 1, call.sync)
           /\ call' = Idle
           /\ UNCHANGED <<oldest_readable_seq, sequence_retention_watermark, leases,
                          recovery_required, live, handed, env, failures>>
        \/ WriteIndeterminate(image, Idle)

\* Mutant: a replay answers from the memtable.
SynchronizeWal_Skipped == images' = images

SynchronizeWal == images' = <<store>>

(* Not prepared any more: the outcome is resolved, and the log synchronized *)
(* for a caller that asks for it.                                          *)
FinalizeReplay ==
  LET t == call.txn IN
  /\ call.op = "finalize" /\ t \notin store.prepared
  /\ store.outcome[t] \in 1..visible_seq
  /\ store.outcome[t] >= store.retention
  /\ IF call.sync THEN SynchronizeWal ELSE UNCHANGED images
  /\ Answer(t, "commit", store.outcome[t], call.sync)
  /\ call' = Idle
  /\ UNCHANGED <<watermarks, leases, recovery_required, live, handed, env, failures>>

(* The error returns: the store needs recovery, the id belongs to another  *)
(* batch, the outcome is unknown or its record pruned, a write is refused. *)
CallFails ==
  /\ call.op \in {"finalize", "abort", "vacuum"}
  /\ call' = Idle
  /\ UNCHANGED <<images, watermarks, leases, recovery_required, live, history,
                 env, failures>>

AbortCleanup ==
  LET t == call.txn
      image == AbortBatch(t, store)
  IN /\ call.op = "abort"
     /\ \/ /\ Write(image, TRUE)
           /\ Answer(t, "abort", 0, TRUE)
           /\ call' = Idle
           /\ UNCHANGED <<watermarks, leases, recovery_required, live, handed, env,
                          failures>>
        \/ WriteIndeterminate(image, Idle)

-----------------------------------------------------------------------------
(* Local transactions and id leases. *)

PublisherFree == Running /\ call.op # "vacuum"

(* AllocateTransactionId, AllocateVertexId while the lease lasts.          *)
AllocateId(k) ==
  /\ IF k = "transaction" THEN Running /\ ~recovery_required ELSE Ready
  /\ next_id[k] < limit[k]
  /\ next_id' = [next_id EXCEPT ![k] = @ + 1]
  /\ handed' = handed \cup {<<k, next_id[k]>>}
  /\ live' = IF k = "transaction" THEN live \cup {next_id[k]} ELSE live
  /\ UNCHANGED <<images, watermarks, allocator, limit, recovery_required, call, answers,
                 env, failures>>

(* The slow path of AllocateTransactionId, and LeaseIds. *)
ExtendLease(k) ==
  LET image == LeaseBatch(k, store) IN
  /\ IF k = "transaction" THEN PublisherFree ELSE Ready
  /\ ~recovery_required
  /\ next_id[k] = limit[k]
  /\ allocator[k] + LeaseSize <= MaxId[k] + 1
  /\ \/ /\ Write(image, TRUE)
        /\ allocator' = [allocator EXCEPT ![k] = @ + LeaseSize]
        /\ next_id' = [next_id EXCEPT ![k] = allocator[k]]
        /\ limit' = [limit EXCEPT ![k] = allocator[k] + LeaseSize]
        /\ UNCHANGED <<watermarks, recovery_required, live, call, history, env,
                       failures>>
     \/ WriteIndeterminate(image, call)

(* The commit of a local transaction: its id is fresh, so no outcome is    *)
(* looked up.                                                              *)
CommitLocal(t) ==
  LET image == CommitBatch(t, store) IN
  /\ PublisherFree /\ ~recovery_required
  /\ t \in live /\ visible_seq < MaxSeq
  /\ \/ /\ Write(image, TRUE)
        /\ visible_seq' = visible_seq + 1
        /\ live' = live \ {t}
        /\ Answer(t, "commit", visible_seq + 1, TRUE)
        /\ UNCHANGED <<oldest_readable_seq, sequence_retention_watermark, leases,
                       recovery_required, call, handed, env, failures>>
     \/ WriteIndeterminate(image, call)

-----------------------------------------------------------------------------
(* Vacuum, and what Open resumes of it. *)

Vacuum(target) ==
  LET started(step) == [Idle EXCEPT !.op = "vacuum", !.step = step, !.target = target]
      image == BoundaryBatch(target, store)
  IN /\ Ready /\ ~recovery_required
     /\ target \in oldest_readable_seq..visible_seq
     /\ \/ /\ target = oldest_readable_seq /\ PruneRecords
           /\ call' = started("watermark")
           /\ UNCHANGED <<images, oldest_readable_seq, recovery_required, failures>>
           /\ UNCHANGED <<visible_seq, sequence_retention_watermark, leases, live,
                          history, env>>
        \/ /\ target > oldest_readable_seq
           /\ \/ /\ Write(image, TRUE)
                 /\ oldest_readable_seq' = target
                 /\ call' = started("cleanup")
                 /\ UNCHANGED <<visible_seq, sequence_retention_watermark, leases,
                                recovery_required, live, history, env, failures>>
              \/ WriteIndeterminate(image, Idle)

\* Mutant: Open looks for something to prune again.
VacuumDone_Again == IF call.op = "open" THEN Opening("watermark") ELSE Idle

(* The vacuum returns, or Open goes on to the prepared transactions. *)
VacuumDone == IF call.op = "open" THEN Opening("recover") ELSE Idle

(* A write that fails while Open runs fails the Open, as a crash does.     *)
VacuumWrite(image, sync, next) ==
  \/ /\ Write(image, sync)
     /\ call' = next
     /\ UNCHANGED <<visible_seq, oldest_readable_seq, leases, recovery_required, live,
                    history, env, failures>>
     /\ sequence_retention_watermark' = image.retention
  \/ call.op = "vacuum" /\ WriteIndeterminate(image, Idle)

DeleteObsoleteFactVersions ==
  /\ call.step = "cleanup"
  /\ \E last \in Fact :
       /\ store.vacuum.cursor < last
       /\ VacuumWrite(CleanupBatch(last, store), TRUE,
            IF last < Max(Fact) THEN call
            ELSE IF PruneRecords THEN [call EXCEPT !.step = "watermark"] ELSE VacuumDone)

PruneSequenceRecords ==
  \/ /\ call.step = "watermark"
     /\ IF call.target > 1 /\ sequence_retention_watermark < call.target
        THEN VacuumWrite([store EXCEPT !.retention = call.target], TRUE,
                         [call EXCEPT !.step = "prune"])
        ELSE /\ call' = IF call.target > 1 THEN [call EXCEPT !.step = "prune"] ELSE VacuumDone
             /\ UNCHANGED <<images, watermarks, leases, recovery_required, live, history,
                            env, failures>>
  \/ /\ call.step = "prune"
     /\ \/ \E last \in Prunable(call.target, store) :
             VacuumWrite(PruneBatch(last, store), PruneSync, call)
        \/ /\ Prunable(call.target, store) = {}
           /\ call' = VacuumDone
           /\ UNCHANGED <<images, watermarks, leases, recovery_required, live, history,
                          env, failures>>

-----------------------------------------------------------------------------
Init ==
  /\ policy \in Policy
  /\ images = <<Initialized>>
  /\ visible_seq = 0 /\ oldest_readable_seq = 0 /\ sequence_retention_watermark = 0
  /\ allocator = NoLease /\ next_id = NoLease /\ limit = NoLease
  /\ recovery_required = FALSE
  /\ live = {}
  /\ call = Opening("validate")
  /\ answers = {} /\ handed = {}
  /\ crashes = 0 /\ failures = 0

Open ==
  \/ OpenStore
  \/ call.op = "open" /\ (DeleteObsoleteFactVersions \/ PruneSequenceRecords)
  \/ RecoverPrepared

Next ==
  \/ Open
  \/ Crash
  \/ \E t \in External :
       \/ PersistPreparedCommit(t)
       \/ \E cert \in Certificate :
            \/ \E sync \in BOOLEAN : FinalizePreparedCommit(t, cert, sync)
            \/ AbortPreparedCommit(t, cert)
  \/ FinalizeCommit \/ FinalizeReplay \/ AbortCleanup \/ CallFails
  \/ \E k \in Kind : AllocateId(k) \/ ExtendLease(k)
  \/ \E t \in Local : CommitLocal(t)
  \/ \E target \in CommitSeq : Vacuum(target)
  \/ call.op = "vacuum" /\ (DeleteObsoleteFactVersions \/ PruneSequenceRecords)

Spec == Init /\ [][Next]_vars

(* Open runs on a thread of its own; nothing it waits for needs another.   *)
FairSpec == Spec /\ WF_vars(Open)

-----------------------------------------------------------------------------
(* Whatever a crash leaves, Open accepts: every write of a commit, of the  *)
(* vacuum boundary, of a cleanup or prune batch keeps the watermarks in    *)
(* order and the sequence, outcome and fact records that ValidateCommitted-*)
(* Sequences asks for, in every prefix of the log.                         *)
EveryImageOpens ==
  \A i \in 1..Len(images) : images[i] \in Image /\ ValidImage(images[i])

(* A certified decision is kept by every later write, crash and reopening: *)
(* a transaction decided to commit has no abort terminal, one decided to   *)
(* abort no outcome record where Open leaves prepared transactions to the  *)
(* coordinator, and a prepared one has neither.                            *)
DecisionsBinding ==
  \A i \in 1..Len(images) : \A t \in External :
    LET image == images[i] IN
      /\ ~FinalizeOnOpen /\ image.decision[t] \in {"abort"} \X Certificate =>
           image.outcome[t] = 0
      /\ image.decision[t] \in {"commit"} \X Certificate => t \notin image.terminal
      /\ t \in image.prepared => image.outcome[t] = 0 /\ t \notin image.terminal

(* What a caller was told survives.  A commit answered under kWalSync, or  *)
(* of a local transaction, keeps its sequence in whatever a crash leaves;  *)
(* one answered under kBuffered is there or can be finalized again.  An    *)
(* abort answered is done for good, where Open leaves it to the coordinator.*)
AnswersSurvive ==
  \A a \in answers : \A i \in 1..Len(images) :
    LET image == images[i] IN
      CASE a.outcome = "abort" ->
             /\ a.txn \in image.terminal /\ a.txn \notin image.prepared
             /\ FinalizeOnOpen \/ image.outcome[a.txn] = 0
        [] a.outcome = "commit" /\ a.durable -> image.outcome[a.txn] = a.seq
        [] OTHER ->
             \/ image.outcome[a.txn] # 0
             \/ /\ a.txn \in image.prepared
                /\ image.decision[a.txn] \in {"commit"} \X Certificate

(* No id is handed out twice, also not by a process that opens what a      *)
(* crash left: a lease is durable before its first id is used.             *)
IdsFresh ==
  \A h \in handed :
    /\ h[2] < next_id[h[1]] \/ call = Opening("validate")
    /\ \A i \in 1..Len(images) : h[2] < LoadAllocatorState(h[1], images[i])

Newest(seqs) == Max({0} \cup seqs)

VersionAt(f, seq, image) ==
  Newest({v[2] : v \in {w \in image.facts : w[1] = f /\ w[2] <= seq}})

CommittedAt(f, seq, image) ==
  Newest({image.outcome[t] : t \in {u \in TxnId : f \in Writes[u] /\ image.outcome[u] <= seq}})

(* Vacuum takes no version that a read at or above the boundary needs: in  *)
(* the running store and in whatever a crash leaves of it, every readable  *)
(* sequence finds of every fact the version last committed by then.        *)
ReadsPreserved ==
  /\ \A i \in 1..Len(images) : \A f \in Fact :
       \A seq \in images[i].oldest..images[i].visible :
         VersionAt(f, seq, images[i]) = CommittedAt(f, seq, images[i])
  /\ call.op # "open" =>
       \A f \in Fact : \A seq \in oldest_readable_seq..visible_seq :
         VersionAt(f, seq, store) = CommittedAt(f, seq, store)

(* Open ends: it resumes the vacuum and the pruning a crash interrupted,   *)
(* finalizes what is prepared if it should, and returns.                   *)
OpenCompletes == call.op = "open" ~> call.op # "open"
=============================================================================

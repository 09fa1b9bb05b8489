--------------------------- MODULE CommitPipeline ---------------------------
(***************************************************************************)
(* The append commit pipeline: clients that submit transactions, the async *)
(* submission executor that hands them to the bounded append queue, the    *)
(* append worker that groups queued requests into epochs and writes each   *)
(* epoch with one WAL sync, and the preflight worker that decides epoch    *)
(* N+1 while epoch N is being written.                                     *)
(*                                                                         *)
(* One action is one critical section of append_commit_mutex or of the     *)
(* store's publisher_mutex, or one step outside them that another thread   *)
(* can see.  Requests have unit size, and the adaptive limits on a group   *)
(* are any values within their caps.                                       *)
(*                                                                         *)
(* An operator named X_Fault is X with a plausible mistake in it.  It is   *)
(* put in the place of X to show which property notices.                   *)
(***************************************************************************)
EXTENDS FactLog, Sequences, Functions

CONSTANTS
  Mode,         \* Mode[t]: "sync", "async" or "pipelined"
  BlindPut,     \* transactions that only put non-edge facts, without edges
  MaxBatch,     \* append_commit_max_batch_size
  MaxQueue,     \* append_commit_max_queue_requests
  MaxReserved,  \* append_commit_max_queue_bytes, in requests
  MaxMailbox    \* async_executor.max_mailbox_requests

ASSUME PipelineAssumption ==
  /\ Mode \in [Txn -> {"sync", "async", "pipelined"}]
  /\ BlindPut \subseteq Txn
  /\ MaxBatch \in Nat \ {0}
  /\ MaxQueue \in Nat
  /\ MaxReserved \in Nat
  /\ MaxMailbox \in Nat

VARIABLES
  (* the store *)
  snapshot, commit_seq, visible_seq, abort_terminal, recovery_required,
  (* a transaction and its CommitHandle *)
  phase, cancelled, result, durable, ack,
  (* state under append_commit_mutex, and the executor's tickets *)
  append_commit_requests, reserved_append_commit_bytes,
  append_commit_pipelined_admission, tickets, next_epoch_slot,
  active_pending_version_overlay, active_epoch_generation,
  active_epoch_base_visible_seq, active_epoch_committed_count_hint,
  preflight_generation, active_append_commit_requests,
  active_append_publications,
  (* locals of the append worker *)
  pc, requests, predecided_epoch, promoted_requires_validation, decision,
  write_ok,
  (* locals of the preflight worker *)
  preflight_pc, candidates, captured

storeVars == <<snapshot, commit_seq, visible_seq, abort_terminal, recovery_required>>
handleVars == <<phase, cancelled, result, durable, ack>>
queueVars == <<append_commit_requests, reserved_append_commit_bytes,
               append_commit_pipelined_admission, tickets>>
epochVars == <<next_epoch_slot, active_pending_version_overlay,
               active_epoch_generation, active_epoch_base_visible_seq,
               active_epoch_committed_count_hint, preflight_generation,
               active_append_commit_requests, active_append_publications>>
workerVars == <<pc, requests, predecided_epoch, promoted_requires_validation,
                decision, write_ok>>
preflightVars == <<preflight_pc, candidates, captured>>
vars == <<storeVars, handleVars, queueVars, epochVars, workerVars, preflightVars>>

NoSnapshot == -1
NoEpoch == -1      \* predecided_epoch == nullptr

Async(t) == Mode[t] # "sync"
Without(q, i) == SubSeq(q, 1, i - 1) \o SubSeq(q, i + 1, Len(q))

\* next_epoch_slot without an eligible decision.
EmptySlot == [eligible |-> FALSE, generation |-> 0, predecessor |-> 0,
              successor |-> 0, requests |-> <<>>, requires_validation |-> FALSE]
\* What the preflight worker copied under the mutex.
NoCapture == [generation |-> 0, base |-> 0, count |-> 0]

Independent(s) ==
  \A i, j \in 1..Len(s) : i # j => ~FootprintsConflict(s[i], s[j])

\* A dependency of t has a predecessor or a successor in its snapshot.
HasNeighbour(t) ==
  \E f \in Writes[t] : \E b \in Boundaries(commit_seq, f[1], snapshot[t]) : b # f[2]

CanUseAppendFastPath(t) ==
  t \in BlindPut /\ Writes[t] # {} /\ Reads[t] = {} /\ ~HasNeighbour(t)

CanPredictIndependentAppend(t) == CanUseAppendFastPath(t)

DependenciesMatchEpochBase_AnySnapshot(t, base) ==
  Writes[t] = {} \/ ~HasNeighbour(t)

DependenciesMatchEpochBase(t, base) ==
  Writes[t] = {} \/ (snapshot[t] = base /\ ~HasNeighbour(t))

Init ==
  /\ snapshot = [t \in Txn |-> NoSnapshot]
  /\ commit_seq = [c \in Commit |-> 0]
  /\ visible_seq = 0
  /\ abort_terminal = {}
  /\ recovery_required = FALSE
  /\ phase = [t \in Txn |-> "idle"]
  /\ cancelled = [t \in Txn |-> "no"]
  /\ result = [t \in Txn |-> "none"]
  /\ durable = {}
  /\ ack = [t \in Txn |-> "none"]
  /\ append_commit_requests = <<>>
  /\ reserved_append_commit_bytes = 0
  /\ append_commit_pipelined_admission = FALSE
  /\ tickets = {}
  /\ next_epoch_slot = EmptySlot
  /\ active_pending_version_overlay = FALSE
  /\ active_epoch_generation = 0
  /\ active_epoch_base_visible_seq = 0
  /\ active_epoch_committed_count_hint = 0
  /\ preflight_generation = "completed"
  /\ active_append_commit_requests = 0
  /\ active_append_publications = 0
  /\ pc = "wait"
  /\ requests = <<>>
  /\ predecided_epoch = NoEpoch
  /\ promoted_requires_validation = FALSE
  /\ decision = [t \in Txn |-> 0]
  /\ write_ok = TRUE
  /\ preflight_pc = "wait"
  /\ candidates = <<>>
  /\ captured = NoCapture

-----------------------------------------------------------------------------
(* Clients *)

\* Database::BeginTransaction: pin the visible sequence.
BeginTransaction(t) ==
  /\ phase[t] = "idle"
  /\ phase' = [phase EXCEPT ![t] = "open"]
  /\ snapshot' = [snapshot EXCEPT ![t] = visible_seq]
  /\ UNCHANGED <<commit_seq, visible_seq, abort_terminal, recovery_required,
                 cancelled, result, durable, ack, queueVars, epochVars,
                 workerVars, preflightVars>>

HasCapacity ==
  /\ Len(append_commit_requests) < MaxQueue
  /\ reserved_append_commit_bytes < MaxReserved

\* preflight_request_generation moves past what the preflight worker has seen.
RequestPreflight == preflight_generation' = "requested"

RequestPreflightIfActive ==
  preflight_generation' =
    IF active_pending_version_overlay THEN "requested" ELSE preflight_generation

Enqueue_Unreserved(t) ==
  /\ append_commit_requests' = Append(append_commit_requests, t)
  /\ phase' = [phase EXCEPT ![t] = "queued"]
  /\ RequestPreflightIfActive
  /\ UNCHANGED <<reserved_append_commit_bytes, next_epoch_slot,
                 active_pending_version_overlay, active_epoch_generation,
                 active_epoch_base_visible_seq,
                 active_epoch_committed_count_hint,
                 active_append_commit_requests, active_append_publications>>

Enqueue(t) ==
  /\ append_commit_requests' = Append(append_commit_requests, t)
  /\ reserved_append_commit_bytes' = reserved_append_commit_bytes + 1
  /\ phase' = [phase EXCEPT ![t] = "queued"]
  /\ RequestPreflightIfActive
  /\ UNCHANGED <<next_epoch_slot, active_pending_version_overlay,
                 active_epoch_generation, active_epoch_base_visible_seq,
                 active_epoch_committed_count_hint,
                 active_append_commit_requests, active_append_publications>>

\* SubmitSyncCommit: admission to the append queue.
SubmitSyncCommit(t) ==
  /\ phase[t] = "open" /\ Mode[t] = "sync"
  /\ HasCapacity
  /\ Enqueue(t)
  /\ UNCHANGED <<storeVars, cancelled, result, durable, ack,
                 append_commit_pipelined_admission, tickets, workerVars,
                 preflightVars>>

\* SubmitAsyncCommit: a ticket in the executor's bounded mailbox.
SubmitAsyncCommit(t) ==
  /\ phase[t] = "open" /\ Async(t)
  /\ Cardinality(tickets) < MaxMailbox
  /\ tickets' = tickets \cup {t}
  /\ phase' = [phase EXCEPT ![t] = "mailbox"]
  /\ UNCHANGED <<storeVars, cancelled, result, durable, ack,
                 append_commit_requests, reserved_append_commit_bytes,
                 append_commit_pipelined_admission, epochVars, workerVars,
                 preflightVars>>

\* A submission refused before it is queued or mailed: pressure, a stale
\* runtime snapshot, a full queue or mailbox, an expired admission deadline.
Reject(t) ==
  /\ phase[t] = "open"
  /\ phase' = [phase EXCEPT ![t] = "done"]
  /\ result' = [result EXCEPT ![t] = "rejected"]
  /\ ack' = [ack EXCEPT ![t] = IF Async(t) THEN "error" ELSE "none"]
  /\ UNCHANGED <<storeVars, cancelled, durable, queueVars, epochVars,
                 workerVars, preflightVars>>

\* AsyncSubmissionExecutor::WorkerMain handing a request to the append queue.
SubmitAsyncCommitToAppendPipeline(t) ==
  /\ phase[t] = "mailbox"
  /\ cancelled[t] = "no"
  /\ HasCapacity
  /\ Enqueue(t)
  /\ append_commit_pipelined_admission' =
       (append_commit_pipelined_admission \/ Mode[t] = "pipelined")
  /\ UNCHANGED <<storeVars, cancelled, result, durable, ack, tickets,
                 workerVars, preflightVars>>

\* The hand-off fails (cancelled, pressure, or no capacity): the ticket's fail
\* callback completes the handle and the ticket is released.
HandoffFails(t) ==
  /\ phase[t] = "mailbox"
  /\ phase' = [phase EXCEPT ![t] = "done"]
  /\ result' = [result EXCEPT ![t] = "rejected"]
  /\ tickets' = tickets \ {t}
  /\ UNCHANGED <<storeVars, cancelled, durable, ack, append_commit_requests,
                 reserved_append_commit_bytes,
                 append_commit_pipelined_admission, epochVars, workerVars,
                 preflightVars>>

\* A CommitAsync deadline expires before the request is bound to an epoch.
CancelQueuedAsyncCommit(t) ==
  /\ Mode[t] = "async"
  /\ phase[t] \in {"mailbox", "queued", "selected"}
  /\ cancelled[t] = "no"
  /\ cancelled' = [cancelled EXCEPT ![t] = "flagged"]
  /\ UNCHANGED <<storeVars, phase, result, durable, ack, queueVars, epochVars,
                 workerVars, preflightVars>>

\* Its critical section: take the request out of the queue if it is still
\* there, and drop a prediction that holds it.
RemoveCancelledRequest(t) ==
  /\ cancelled[t] = "flagged"
  /\ cancelled' = [cancelled EXCEPT ![t] = "swept"]
  /\ next_epoch_slot' = IF t \in Range(next_epoch_slot.requests)
                        THEN EmptySlot ELSE next_epoch_slot
  /\ \/ /\ t \notin Range(append_commit_requests)
        /\ UNCHANGED <<append_commit_requests, reserved_append_commit_bytes,
                       preflight_generation, phase, result, tickets>>
     \/ /\ \E i \in 1..Len(append_commit_requests) :
             /\ append_commit_requests[i] = t
             /\ append_commit_requests' = Without(append_commit_requests, i)
        /\ reserved_append_commit_bytes' = reserved_append_commit_bytes - 1
        /\ RequestPreflight
        /\ phase' = [phase EXCEPT ![t] = "done"]
        /\ result' = [result EXCEPT ![t] = "rejected"]
        /\ tickets' = tickets \ {t}
  /\ UNCHANGED <<storeVars, durable, ack, append_commit_pipelined_admission,
                 active_pending_version_overlay, active_epoch_generation,
                 active_epoch_base_visible_seq,
                 active_epoch_committed_count_hint,
                 active_append_commit_requests, active_append_publications,
                 workerVars, preflightVars>>

ReturnAsyncCommit_AtAdmission(t) ==
  /\ Async(t) /\ ack[t] = "none"
  /\ phase[t] \notin {"idle", "open", "mailbox"}
  /\ ack' = [ack EXCEPT ![t] = IF result[t] # "rejected" THEN "ok" ELSE "error"]
  /\ UNCHANGED <<storeVars, phase, cancelled, result, durable, queueVars,
                 epochVars, workerVars, preflightVars>>

ReturnAsyncCommit_NotOnFailure(t) ==
  /\ Async(t) /\ ack[t] = "none"
  /\ t \in durable
  /\ ack' = [ack EXCEPT ![t] = "ok"]
  /\ UNCHANGED <<storeVars, phase, cancelled, result, durable, queueVars,
                 epochVars, workerVars, preflightVars>>

\* CommitAsync returns at WAL durability or with the terminal result;
\* CommitAsyncPipelined already at admission.
ReturnAsyncCommit(t) ==
  /\ Async(t) /\ ack[t] = "none"
  /\ IF Mode[t] = "pipelined"
     THEN phase[t] \notin {"idle", "open", "mailbox"}
     ELSE t \in durable \/ result[t] # "none"
  /\ ack' = [ack EXCEPT ![t] =
       IF \/ t \in durable
          \/ result[t] = "committed"
          \/ Mode[t] = "pipelined" /\ result[t] # "rejected"
       THEN "ok" ELSE "error"]
  /\ UNCHANGED <<storeVars, phase, cancelled, result, durable, queueVars,
                 epochVars, workerVars, preflightVars>>

-----------------------------------------------------------------------------
(* The append worker *)

Select_ClearsQueue(n) ==
  /\ requests' = SubSeq(append_commit_requests, 1, n)
  /\ append_commit_requests' = <<>>
  /\ phase' = [t \in Txn |-> IF \E i \in 1..n : append_commit_requests[i] = t
                             THEN "selected" ELSE phase[t]]
  /\ active_append_commit_requests' = active_append_commit_requests + n

Select(n) ==
  /\ requests' = SubSeq(append_commit_requests, 1, n)
  /\ append_commit_requests' =
       SubSeq(append_commit_requests, n + 1, Len(append_commit_requests))
  /\ phase' = [t \in Txn |-> IF \E i \in 1..n : append_commit_requests[i] = t
                             THEN "selected" ELSE phase[t]]
  /\ active_append_commit_requests' = active_append_commit_requests + n

IsQueuePrefix(s) ==
  /\ Len(s) <= Len(append_commit_requests)
  /\ s = SubSeq(append_commit_requests, 1, Len(s))

SlotIsQueued ==
  /\ IsQueuePrefix(next_epoch_slot.requests)
  /\ \A t \in Range(next_epoch_slot.requests) : cancelled[t] = "no"

\* The eligible slot still is the queue's prefix: its requests become the
\* epoch, already decided.
PromoteSlot ==
  /\ pc = "wait" /\ append_commit_requests # <<>>
  /\ next_epoch_slot.eligible /\ SlotIsQueued
  /\ Select(Len(next_epoch_slot.requests))
  /\ predecided_epoch' = next_epoch_slot.successor
  /\ promoted_requires_validation' = next_epoch_slot.requires_validation
  /\ next_epoch_slot' = EmptySlot
  /\ pc' = "open"
  /\ UNCHANGED <<storeVars, cancelled, result, durable, ack,
                 reserved_append_commit_bytes,
                 append_commit_pipelined_admission, tickets,
                 active_pending_version_overlay, active_epoch_generation,
                 active_epoch_base_visible_seq,
                 active_epoch_committed_count_hint, preflight_generation,
                 active_append_publications, decision, write_ok, preflightVars>>

\* No slot, one that no longer matches the queue, or one that pipelined
\* admission has outgrown: it is discarded and a group is collected.  The
\* collection waits release the mutex.
StartCollection ==
  /\ pc = "wait" /\ append_commit_requests # <<>>
  /\ \/ ~next_epoch_slot.eligible
     \/ ~SlotIsQueued
     \/ /\ append_commit_pipelined_admission
        /\ Len(append_commit_requests) > Len(next_epoch_slot.requests)
        /\ MaxBatch > Len(next_epoch_slot.requests)
  /\ next_epoch_slot' = EmptySlot
  /\ pc' = "collect"
  /\ UNCHANGED <<storeVars, handleVars, queueVars,
                 active_pending_version_overlay, active_epoch_generation,
                 active_epoch_base_visible_seq,
                 active_epoch_committed_count_hint, preflight_generation,
                 active_append_commit_requests, active_append_publications,
                 requests, predecided_epoch, promoted_requires_validation,
                 decision, write_ok, preflightVars>>

\* A group is a prefix of the queue with pairwise compatible footprints.  It
\* is empty only when every request was cancelled during the wait.
CollectGroup ==
  /\ pc = "collect"
  /\ \E n \in 0..MaxBatch :
       /\ n <= Len(append_commit_requests)
       /\ n = 0 => append_commit_requests = <<>>
       /\ Independent(SubSeq(append_commit_requests, 1, n))
       /\ Select(n)
  /\ predecided_epoch' = NoEpoch
  /\ promoted_requires_validation' = FALSE
  /\ pc' = "open"
  /\ UNCHANGED <<storeVars, cancelled, result, durable, ack,
                 reserved_append_commit_bytes,
                 append_commit_pipelined_admission, tickets, next_epoch_slot,
                 active_pending_version_overlay, active_epoch_generation,
                 active_epoch_base_visible_seq,
                 active_epoch_committed_count_hint, preflight_generation,
                 active_append_publications, decision, write_ok, preflightVars>>

\* The epoch's overlay, base and predicted commit count become visible to the
\* preflight worker.
OpenEpoch ==
  /\ pc = "open"
  /\ active_pending_version_overlay' = TRUE
  /\ active_epoch_generation' = active_epoch_generation + 1
  /\ active_epoch_base_visible_seq' = visible_seq
  /\ active_epoch_committed_count_hint' =
       IF \A t \in Range(requests) : CanPredictIndependentAppend(t)
       THEN Len(requests) ELSE 0
  /\ RequestPreflight
  /\ pc' = "bind"
  /\ UNCHANGED <<storeVars, handleVars, queueVars, next_epoch_slot,
                 active_append_commit_requests, active_append_publications,
                 requests, predecided_epoch, promoted_requires_validation,
                 decision, write_ok, preflightVars>>

\* The batches move into the store request and the handles are bound to the
\* epoch, which owns their outcome from here on.
BindEpoch ==
  /\ pc = "bind"
  /\ phase' = [t \in Txn |-> IF t \in Range(requests) THEN "bound" ELSE phase[t]]
  /\ pc' = IF predecided_epoch = NoEpoch THEN "commit"
           ELSE IF promoted_requires_validation THEN "validate" ELSE "write"
  /\ UNCHANGED <<storeVars, cancelled, result, durable, ack, queueVars,
                 epochVars, requests, predecided_epoch,
                 promoted_requires_validation, decision, write_ok,
                 preflightVars>>

BaseIsStale_Never == FALSE

\* The watermark is no longer the one the predicted sequences start from.
BaseIsStale == visible_seq # predecided_epoch

\* A promoted epoch with older snapshots checks its base and its dependencies
\* without the publisher mutex.
ValidatePredictedGroup ==
  /\ pc = "validate"
  /\ pc' = IF /\ ~BaseIsStale
              /\ ~recovery_required
              /\ \A t \in Range(requests) :
                   ~SnapshotWriteConflict(commit_seq, t, snapshot[t], visible_seq)
           THEN "write" ELSE "commit"
  /\ UNCHANGED <<storeVars, handleVars, queueVars, epochVars, requests,
                 predecided_epoch, promoted_requires_validation, decision,
                 write_ok, preflightVars>>

\* The worker holds publisher_mutex from the decision to the publication.
PublisherHeld == pc \in {"sync", "publish"}

\* WriteDecidedGroup: the predicted sequences are written as they are when the
\* store still is at their base; a stale base falls back to the general path.
WriteDecidedGroup ==
  /\ pc = "write"
  /\ IF recovery_required
     THEN /\ pc' = "account" /\ write_ok' = FALSE
          /\ UNCHANGED decision
     ELSE IF BaseIsStale
     THEN pc' = "commit" /\ UNCHANGED <<decision, write_ok>>
     ELSE /\ pc' = "sync"
          /\ decision' = [t \in Txn |->
               IF t \in Range(requests)
               THEN predecided_epoch + (CHOOSE i \in 1..Len(requests) : requests[i] = t)
               ELSE 0]
          /\ UNCHANGED write_ok
  /\ UNCHANGED <<storeVars, handleVars, queueVars, epochVars, requests,
                 predecided_epoch, promoted_requires_validation, preflightVars>>

Accepted_Unvalidated == 1..Len(requests)

Accepted_AtSnapshot == {i \in 1..Len(requests) :
  DependenciesValid(commit_seq, requests[i], snapshot[requests[i]],
                    snapshot[requests[i]])}

\* DecideAndEncodeGroupLocked: every request is validated against the store,
\* and the accepted ones take the next sequences in request order.
Accepted == {i \in 1..Len(requests) :
               DependenciesValid(commit_seq, requests[i], snapshot[requests[i]],
                                 visible_seq)}

DecideGroup ==
  [t \in Txn |->
     IF \E i \in Accepted : requests[i] = t
     THEN LET i == CHOOSE k \in Accepted : requests[k] = t
          IN visible_seq + Cardinality({j \in Accepted : j <= i})
     ELSE 0]

\* CommitGroupWithWalCallback.  A group without a commit and without an async
\* terminal to persist needs no write.
CommitGroup ==
  /\ pc = "commit"
  /\ IF recovery_required \/ requests = <<>>
     THEN /\ pc' = "account" /\ write_ok' = FALSE
          /\ UNCHANGED decision
     ELSE /\ decision' = DecideGroup
          /\ pc' = IF Accepted = {} /\ \A t \in Range(requests) : ~Async(t)
                   THEN "account" ELSE "sync"
          /\ UNCHANGED write_ok
  /\ UNCHANGED <<storeVars, handleVars, queueVars, epochVars, requests,
                 predecided_epoch, promoted_requires_validation, preflightVars>>

\* The async callers are woken and their tickets released.
NotifyWalDurable(handles) ==
  /\ durable' = durable \cup handles
  /\ tickets' = tickets \ handles

\* The WAL holds the group: its commits and the abort terminals of its async
\* requests.
WalDurable ==
  /\ pc = "sync"
  /\ commit_seq' = [c \in Commit |->
       IF c \in Range(requests) /\ decision[c] # 0 THEN decision[c]
       ELSE commit_seq[c]]
  /\ LET handles == {t \in Range(requests) : Async(t)}
     IN /\ abort_terminal' = abort_terminal \cup {t \in handles : decision[t] = 0}
        /\ NotifyWalDurable(handles)
  /\ pc' = "publish"
  /\ UNCHANGED <<snapshot, visible_seq, recovery_required, phase, cancelled,
                 result, ack, append_commit_requests,
                 reserved_append_commit_bytes,
                 append_commit_pipelined_admission, epochVars, requests,
                 predecided_epoch, promoted_requires_validation, decision,
                 write_ok, preflightVars>>

\* The write fails before the WAL callback, or after it in the memtable.
WriteFails ==
  /\ pc \in {"sync", "publish"}
  /\ recovery_required' = TRUE
  /\ write_ok' = FALSE
  /\ pc' = "account"
  /\ UNCHANGED <<snapshot, commit_seq, visible_seq, abort_terminal, handleVars,
                 queueVars, epochVars, requests, predecided_epoch,
                 promoted_requires_validation, decision, preflightVars>>

PublishVisible ==
  /\ pc = "publish"
  /\ visible_seq' =
       visible_seq + Cardinality({i \in 1..Len(requests) : decision[requests[i]] # 0})
  /\ pc' = "account"
  /\ UNCHANGED <<snapshot, commit_seq, abort_terminal, recovery_required,
                 handleVars, queueVars, epochVars, requests, predecided_epoch,
                 promoted_requires_validation, decision, write_ok,
                 preflightVars>>

Outcome_IgnoresWrite(t) == IF decision[t] # 0 THEN "committed" ELSE "aborted"

Outcome(t) ==
  IF ~write_ok THEN "indeterminate"
  ELSE IF decision[t] # 0 THEN "committed" ELSE "aborted"

HasHandles_Never == FALSE

\* The epoch's handles get their results from EpochCompletion::Publish.
HasHandles == \E t \in Range(requests) : Async(t)

\* A slot decided during a collected epoch survives only if that epoch ended
\* exactly where the prediction starts.
HasExpectedSuccessor ==
  /\ write_ok
  /\ next_epoch_slot.generation = active_epoch_generation
  /\ next_epoch_slot.predecessor = active_epoch_base_visible_seq
  /\ next_epoch_slot.successor = visible_seq

Deliver(handles) ==
  LET delivered == {t \in Range(requests) : Async(t) <=> handles}
  IN /\ result' = [t \in Txn |-> IF t \in delivered THEN Outcome(t) ELSE result[t]]
     /\ phase' = [t \in Txn |-> IF t \in delivered THEN "done" ELSE phase[t]]

\* The bookkeeping section after the write: settle the slot, give synchronous
\* callers their results and close the overlay.
AccountEpoch ==
  /\ pc = "account"
  /\ next_epoch_slot' =
       IF predecided_epoch = NoEpoch /\ ~HasExpectedSuccessor
       THEN EmptySlot ELSE next_epoch_slot
  /\ Deliver(FALSE)
  /\ active_append_publications' =
       active_append_publications + (IF HasHandles THEN 1 ELSE 0)
  /\ active_append_commit_requests' =
       active_append_commit_requests - Len(requests)
  /\ active_pending_version_overlay' = FALSE
  /\ RequestPreflight
  /\ pc' = "complete"
  /\ UNCHANGED <<storeVars, cancelled, durable, ack, queueVars,
                 active_epoch_generation, active_epoch_base_visible_seq,
                 active_epoch_committed_count_hint, requests, predecided_epoch,
                 promoted_requires_validation, decision, write_ok,
                 preflightVars>>

\* EpochCompletion::Publish, outside the mutex.
CompleteEpoch ==
  /\ pc = "complete"
  /\ Deliver(TRUE)
  /\ pc' = "release"
  /\ UNCHANGED <<storeVars, cancelled, durable, ack, queueVars, epochVars,
                 requests, predecided_epoch, promoted_requires_validation,
                 decision, write_ok, preflightVars>>

\* The last critical section: the drain barrier opens and the bytes return.
ReleaseEpoch ==
  /\ pc = "release"
  /\ active_append_publications' =
       active_append_publications - (IF HasHandles THEN 1 ELSE 0)
  /\ reserved_append_commit_bytes' = reserved_append_commit_bytes - Len(requests)
  /\ pc' = "wait"
  /\ requests' = <<>>
  /\ predecided_epoch' = NoEpoch
  /\ promoted_requires_validation' = FALSE
  /\ decision' = [t \in Txn |-> 0]
  /\ write_ok' = TRUE
  /\ UNCHANGED <<storeVars, handleVars, append_commit_requests,
                 append_commit_pipelined_admission, tickets, next_epoch_slot,
                 active_pending_version_overlay, active_epoch_generation,
                 active_epoch_base_visible_seq,
                 active_epoch_committed_count_hint, preflight_generation,
                 active_append_commit_requests, preflightVars>>

AppendWorker ==
  \/ PromoteSlot \/ StartCollection \/ CollectGroup \/ OpenEpoch \/ BindEpoch
  \/ ValidatePredictedGroup \/ WriteDecidedGroup \/ CommitGroup \/ WalDurable
  \/ WriteFails \/ PublishVisible \/ AccountEpoch \/ CompleteEpoch \/ ReleaseEpoch

-----------------------------------------------------------------------------
(* Prepared commits, finalized past the pipeline *)

\* Database::FinalizePreparedCommit: one store write under publisher_mutex.
\* A prepared batch has no dependencies, so nothing is validated.
FinalizePreparedCommit(p) ==
  /\ ~PublisherHeld /\ ~recovery_required
  /\ commit_seq[p] = 0
  /\ commit_seq' = [commit_seq EXCEPT ![p] = visible_seq + 1]
  /\ visible_seq' = visible_seq + 1
  /\ UNCHANGED <<snapshot, abort_terminal, recovery_required, handleVars,
                 queueVars, epochVars, workerVars, preflightVars>>

-----------------------------------------------------------------------------
(* The preflight worker *)

\* Copies the queue and the active epoch under the mutex.
PreflightCapture ==
  /\ preflight_pc = "wait"
  /\ active_pending_version_overlay
  /\ ~next_epoch_slot.eligible
  /\ preflight_generation # "completed"
  /\ preflight_generation' = "captured"
  /\ candidates' = append_commit_requests
  /\ captured' = [generation |-> active_epoch_generation,
                  base |-> active_epoch_base_visible_seq,
                  count |-> active_epoch_committed_count_hint]
  /\ preflight_pc' = "planning"
  /\ UNCHANGED <<storeVars, handleVars, queueVars, next_epoch_slot,
                 active_pending_version_overlay, active_epoch_generation,
                 active_epoch_base_visible_seq,
                 active_epoch_committed_count_hint,
                 active_append_commit_requests, active_append_publications,
                 workerVars>>

EpochIsCaptured ==
  active_pending_version_overlay /\ captured.generation = active_epoch_generation

Plannable_IgnoresOverlay(plan) ==
  /\ \A t \in Range(plan) : CanPredictIndependentAppend(t)
  /\ Independent(plan)

\* A plan: a prefix of the candidates that are blind puts, independent of the
\* epoch being written and of each other.
Plannable(plan) ==
  /\ \A t \in Range(plan) :
       /\ CanPredictIndependentAppend(t)
       /\ \A u \in Range(requests) : ~FootprintsConflict(t, u)
  /\ Independent(plan)

PlanIsQueued(plan) ==
  /\ IsQueuePrefix(plan)
  /\ \A t \in Range(plan) : cancelled[t] = "no"

DecidedSlot(plan) ==
  [eligible |-> TRUE, generation |-> captured.generation,
   predecessor |-> captured.base,
   successor |-> captured.base + captured.count,
   requests |-> plan,
   requires_validation |->
     \E t \in Range(plan) : ~DependenciesMatchEpochBase(t, captured.base)]

\* The plan is kept when the captured epoch is still being written and the
\* plan is still the queue's prefix; it becomes the slot when it was decided
\* (enough bytes, and no recovery pending).
PreflightFinish ==
  /\ preflight_pc = "planning"
  /\ \E n \in 0..MaxBatch :
       LET plan == SubSeq(candidates, 1, n)
       IN /\ n <= Len(candidates)
          /\ captured.count = 0 => n = 0
          /\ EpochIsCaptured => Plannable(plan)
          /\ IF EpochIsCaptured /\ PlanIsQueued(plan) /\ ~next_epoch_slot.eligible
             THEN /\ preflight_generation' = IF preflight_generation = "captured"
                                             THEN "completed" ELSE preflight_generation
                  /\ \/ UNCHANGED next_epoch_slot
                     \/ /\ n # 0 /\ ~recovery_required
                        /\ next_epoch_slot' = DecidedSlot(plan)
             ELSE UNCHANGED <<preflight_generation, next_epoch_slot>>
  /\ preflight_pc' = "wait"
  /\ candidates' = <<>>
  /\ captured' = NoCapture
  /\ UNCHANGED <<storeVars, handleVars, queueVars,
                 active_pending_version_overlay, active_epoch_generation,
                 active_epoch_base_visible_seq,
                 active_epoch_committed_count_hint,
                 active_append_commit_requests, active_append_publications,
                 workerVars>>

-----------------------------------------------------------------------------
\* The append worker waits for work and the executor's mailbox is empty.
Idle ==
  /\ pc = "wait"
  /\ append_commit_requests = <<>>
  /\ \A t \in Txn : phase[t] # "mailbox"
  /\ UNCHANGED vars

Executor(t) == SubmitAsyncCommitToAppendPipeline(t) \/ HandoffFails(t)

Next ==
  \/ \E t \in Txn :
       \/ BeginTransaction(t) \/ SubmitSyncCommit(t) \/ SubmitAsyncCommit(t)
       \/ Reject(t) \/ Executor(t) \/ CancelQueuedAsyncCommit(t)
       \/ RemoveCancelledRequest(t) \/ ReturnAsyncCommit(t)
  \/ AppendWorker
  \/ \E p \in Prepared : FinalizePreparedCommit(p)
  \/ PreflightCapture
  \/ PreflightFinish
  \/ Idle

Spec == Init /\ [][Next]_vars

\* The threads keep running: each worker takes a step it can take, the executor
\* drains its mailbox, and a client call that may return does.
Fairness ==
  /\ WF_vars(AppendWorker)
  /\ WF_vars(PreflightCapture \/ PreflightFinish)
  /\ \A t \in Txn : /\ WF_vars(Executor(t))
                     /\ WF_vars(RemoveCancelledRequest(t))
                     /\ WF_vars(ReturnAsyncCommit(t))

FairSpec == Spec /\ Fairness

-----------------------------------------------------------------------------
(* Properties *)

Phase == {"idle", "open", "mailbox", "queued", "selected", "bound", "done"}
Result == {"none", "committed", "aborted", "rejected", "indeterminate"}
WorkerPc == {"wait", "collect", "open", "bind", "validate", "write", "commit",
             "sync", "publish", "account", "complete", "release"}
Slot == [eligible : BOOLEAN, generation : Nat, predecessor : Nat,
         successor : Nat, requests : Seq(Txn), requires_validation : BOOLEAN]

StoreTypeOK ==
  /\ snapshot \in [Txn -> Nat \cup {NoSnapshot}]
  /\ commit_seq \in [Commit -> Nat]
  /\ visible_seq \in Nat
  /\ abort_terminal \subseteq Txn
  /\ recovery_required \in BOOLEAN

HandleTypeOK ==
  /\ phase \in [Txn -> Phase]
  /\ cancelled \in [Txn -> {"no", "flagged", "swept"}]
  /\ result \in [Txn -> Result]
  /\ durable \subseteq Txn
  /\ ack \in [Txn -> {"none", "ok", "error"}]

QueueTypeOK ==
  /\ append_commit_requests \in Seq(Txn)
  /\ reserved_append_commit_bytes \in Nat
  /\ append_commit_pipelined_admission \in BOOLEAN
  /\ tickets \subseteq Txn

EpochTypeOK ==
  /\ next_epoch_slot \in Slot
  /\ active_pending_version_overlay \in BOOLEAN
  /\ active_epoch_generation \in Nat
  /\ active_epoch_base_visible_seq \in Nat
  /\ active_epoch_committed_count_hint \in Nat
  /\ preflight_generation \in {"requested", "captured", "completed"}
  /\ active_append_commit_requests \in Nat
  /\ active_append_publications \in Nat

WorkerTypeOK ==
  /\ pc \in WorkerPc
  /\ requests \in Seq(Txn)
  /\ predecided_epoch \in Nat \cup {NoEpoch}
  /\ promoted_requires_validation \in BOOLEAN
  /\ decision \in [Txn -> Nat]
  /\ write_ok \in BOOLEAN

PreflightTypeOK ==
  /\ preflight_pc \in {"wait", "planning"}
  /\ candidates \in Seq(Txn)
  /\ captured \in [generation : Nat, base : Nat, count : Nat]

\* The state of the store, the handles, the queue and the two workers is well
\* formed: no unsigned counter the workers decrement wraps, and every decision
\* stays within the sequences.
TypeOK ==
  /\ StoreTypeOK /\ HandleTypeOK /\ QueueTypeOK
  /\ EpochTypeOK /\ WorkerTypeOK /\ PreflightTypeOK

\* Group commit is serial commit: every transaction in the log is valid
\* against all the records below its own sequence, including those of its own
\* group and those of the epoch its group was predicted on
\* (DecideAndEncodeGroupLocked, DecideIndependentAppendGroup).
SeriallyValid ==
  \A t \in Txn : commit_seq[t] # 0 =>
    DependenciesValid(commit_seq, t, snapshot[t], commit_seq[t] - 1)

\* Sequences are handed out once and without gaps, whichever path decided
\* them, and the watermark never runs ahead of the log.
SequencesContiguous ==
  /\ \A c, d \in Commit : commit_seq[c] = commit_seq[d] /\ c # d => commit_seq[c] = 0
  /\ {commit_seq[c] : c \in Commit} \ {0} =
       1..Cardinality({c \in Commit : commit_seq[c] # 0})
  /\ visible_seq <= Cardinality({c \in Commit : commit_seq[c] # 0})

\* A caller told "committed" finds its writes visible, and one told "aborted"
\* or "rejected", a cancelled one included, has no commit record, not even an
\* invisible one.
ResultsMatchLog ==
  \A t \in Txn :
    /\ result[t] = "committed" => commit_seq[t] \in 1..visible_seq
    /\ result[t] \in {"aborted", "rejected"} => commit_seq[t] = 0

\* CommitAsync returns success only when the WAL holds the transaction's
\* terminal record, its commit or its abort.
AckedIsDurable ==
  \A t \in Txn : Mode[t] = "async" /\ ack[t] = "ok" =>
    commit_seq[t] # 0 \/ t \in abort_terminal

\* DrainAppendCommitPipeline's barrier: when its predicate holds, every
\* admitted request has its terminal result.
DrainedIsComplete ==
  /\ append_commit_requests = <<>>
  /\ active_append_commit_requests = 0
  /\ active_append_publications = 0
  => \A t \in Txn : phase[t] \notin {"queued", "selected", "bound"}

\* The byte budget counts exactly the queued and the selected requests, and is
\* never exceeded.
ReservationExact ==
  /\ reserved_append_commit_bytes = Len(append_commit_requests) + Len(requests)
  /\ reserved_append_commit_bytes <= MaxReserved

\* A prediction that skips validation is valid whenever the store is at the
\* base it was decided for.
PredictionSound ==
  /\ next_epoch_slot.eligible
  /\ ~next_epoch_slot.requires_validation
  /\ pc = "wait"
  /\ visible_seq = next_epoch_slot.successor
  => \A t \in Range(next_epoch_slot.requests) :
       DependenciesValid(commit_seq, t, snapshot[t], visible_seq)

\* First committer wins: a transaction is not committed over a version of a
\* fact it writes that it could not see (snapshot-write dependencies).
FirstCommitterWins ==
  \A t \in Txn, c \in Commit :
    /\ commit_seq[c] # 0
    /\ snapshot[t] < commit_seq[c] /\ commit_seq[c] < commit_seq[t]
    => Writes[t] \cap Writes[c] = {}

\* A strict transaction commits only if each exact read still returns, right
\* below its sequence, the version it returned in the snapshot: the same
\* boundary with the same last writer (CaptureStrictRead,
\* ValidateStrictReadDependencies).
StrictReadsStable ==
  \A t \in Txn : commit_seq[t] # 0 =>
    \A f \in Reads[t] :
      EffectiveVersion(commit_seq, f[1], f[2], snapshot[t]) =
      EffectiveVersion(commit_seq, f[1], f[2], commit_seq[t] - 1)

\* Every admitted request gets a terminal result.
EveryRequestCompletes ==
  \A t \in Txn : phase[t] = "queued" ~> result[t] # "none"

\* Every asynchronous call returns, also when its deadline cancelled it.
EveryAsyncCallReturns ==
  \A t \in Txn : phase[t] = "mailbox" ~> ack[t] # "none"
=============================================================================

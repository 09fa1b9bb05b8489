---------------------- MODULE CommitPipelineInvariants ----------------------
(***************************************************************************)
(* The inductive invariants of the append commit pipeline.                 *)
(*                                                                         *)
(* Counting says what the pipeline's counters count.  TypeOK needs it: a   *)
(* counter that is decremented stays a natural number only if it counts    *)
(* something.  Placement says where an admitted request is.  Durability    *)
(* follows a decision from the write to the answer the caller gets.  Order *)
(* says which phase a request has at each place and that no request is at  *)
(* two of them.  Numbering follows the sequences of a group from the       *)
(* decision through the log to the watermark and the results.  Predicting  *)
(* and Serial say why a group that was decided ahead of its turn is still  *)
(* valid when it is written; that needs PreparedApart.                     *)
(***************************************************************************)
EXTENDS CommitPipeline

\* The worker's steps from selection to bookkeeping.
InEpoch == {"open", "bind", "validate", "write", "commit", "sync", "publish", "account"}

Counting ==
  /\ reserved_append_commit_bytes = Len(append_commit_requests) + Len(requests)
  /\ reserved_append_commit_bytes <= MaxReserved
  /\ active_append_commit_requests = IF pc \in InEpoch THEN Len(requests) ELSE 0
  /\ active_append_publications =
       IF pc \in {"complete", "release"} /\ HasHandles THEN 1 ELSE 0
  /\ pc \in {"wait", "collect"} => requests = <<>>
  /\ pc \in {"validate", "write"} => predecided_epoch # NoEpoch

Placement ==
  \A t \in Txn :
    /\ phase[t] = "queued" => t \in Range(append_commit_requests)
    /\ phase[t] \in {"selected", "bound"} =>
         /\ t \in Range(requests)
         /\ pc \in InEpoch \/ (pc = "complete" /\ Async(t))

Durability ==
  /\ \A t \in durable : commit_seq[t] # 0 \/ t \in abort_terminal
  /\ \A t \in Txn : result[t] = "committed" => commit_seq[t] # 0
  /\ pc \in {"publish", "account", "complete"} /\ write_ok =>
       \A t \in Range(requests) : decision[t] # 0 => commit_seq[t] # 0
  /\ AckedIsDurable

-----------------------------------------------------------------------------
(* Where a request is, and which sequence it gets *)

Queued ==
  /\ IsInjective(append_commit_requests)
  /\ \A t \in Range(append_commit_requests) : phase[t] = "queued"

Grouped ==
  /\ IsInjective(requests)
  /\ \A t \in Range(requests) :
       /\ pc \in {"open", "bind"} => phase[t] = "selected"
       /\ pc \in InEpoch \ {"open", "bind"} => phase[t] = "bound"
       /\ pc = "complete" /\ Async(t) => phase[t] = "bound"

Phased ==
  \A t \in Txn :
    /\ phase[t] = "idle" <=> snapshot[t] = NoSnapshot
    /\ result[t] # "none" => phase[t] = "done"
    /\ commit_seq[t] # 0 =>
         \/ phase[t] = "done"
         \/ phase[t] = "bound" /\ pc \in {"publish", "account", "complete"}

Order == Queued /\ Grouped /\ Phased

\* The positions of the group that got a sequence.
Granted == {i \in 1..Len(requests) : decision[requests[i]] # 0}

\* The log holds one record for each sequence up to n, and no other.
Filled(n) ==
  /\ \A c \in Commit : commit_seq[c] <= n
  /\ \A s \in 1..n : \E c \in Commit : commit_seq[c] = s
  /\ \A c, d \in Commit : commit_seq[c] = commit_seq[d] /\ c # d => commit_seq[c] = 0

\* The group takes the sequences behind the watermark, each once.
Numbered ==
  LET count == Cardinality(Granted)
  IN /\ \A i \in Granted : decision[requests[i]] \in (visible_seq + 1)..(visible_seq + count)
     /\ \A i, j \in Granted : decision[requests[i]] = decision[requests[j]] => i = j
     /\ \A s \in (visible_seq + 1)..(visible_seq + count) :
          \E i \in Granted : decision[requests[i]] = s

Numbering ==
  /\ PublisherHeld => ~recovery_required /\ Numbered
  /\ ~recovery_required =>
       Filled(visible_seq + IF pc = "publish" THEN Cardinality(Granted) ELSE 0)
  /\ \E n \in Nat : visible_seq <= n /\ Filled(n)
  /\ pc \in {"publish", "account", "complete"} /\ write_ok =>
       \A t \in Range(requests) :
         /\ commit_seq[t] = decision[t]
         /\ pc # "publish" => decision[t] <= visible_seq
  /\ \A t \in Txn : snapshot[t] <= visible_seq
  /\ ResultsMatchLog

-----------------------------------------------------------------------------
(* What a prediction relies on *)

\* No prepared commit writes an identity that a blind put writes.
PreparedApart ==
  \A p \in Prepared, t \in BlindPut : WriteIdentities(p) \cap WriteIdentities(t) = {}

\* c writes nothing that t reads or writes.
Apart(t, c) ==
  (WriteIdentities(t) \cup ReadIdentities(t)) \cap WriteIdentities(c) = {}

Blind(t) == t \in BlindPut /\ Reads[t] = {}

ActiveEpoch == InEpoch \ {"open"}

Predicting ==
  /\ active_pending_version_overlay <=> pc \in ActiveEpoch
  /\ preflight_pc = "planning" =>
       /\ captured.generation <= active_epoch_generation
       /\ captured.generation = active_epoch_generation =>
            captured.base = active_epoch_base_visible_seq
  /\ Independent(requests)
  /\ predecided_epoch # NoEpoch => \A t \in Range(requests) : Blind(t)
  /\ next_epoch_slot.eligible =>
       /\ pc \notin {"collect", "open"}
       /\ Independent(next_epoch_slot.requests)
       /\ \A t \in Range(next_epoch_slot.requests) :
            /\ Blind(t)
            /\ pc \in ActiveEpoch => \A u \in Range(requests) : Apart(t, u)

\* The dependencies of t hold in the visible history.
ValidNow(t) == DependenciesValid(commit_seq, t, snapshot[t], visible_seq)

\* While an epoch is written, only its own requests are committed above its base.
EpochAlone ==
  pc \in ActiveEpoch /\ ~recovery_required =>
    \A c \in Txn : commit_seq[c] > active_epoch_base_visible_seq => c \in Range(requests)

\* Nothing that was committed after the base of the slot touches its requests.
SlotApart ==
  next_epoch_slot.eligible /\ ~next_epoch_slot.requires_validation =>
    \A t \in Range(next_epoch_slot.requests) :
      /\ snapshot[t] = next_epoch_slot.predecessor
      /\ \A c \in Commit : commit_seq[c] > snapshot[t] => Apart(t, c)

\* A promoted epoch is valid once it needs no validation any more.
PromotedValid ==
  /\ predecided_epoch # NoEpoch
  /\ pc = "write" \/ (pc \in {"open", "bind"} /\ ~promoted_requires_validation)
  => \A t \in Range(requests) : ValidNow(t)

\* What is about to be written is valid.
DecidedValid == pc = "sync" => \A i \in Granted : ValidNow(requests[i])

ReadsBelow == \A t \in Txn : commit_seq[t] # 0 => snapshot[t] < commit_seq[t]

Serial ==
  EpochAlone /\ SlotApart /\ PromotedValid /\ DecidedValid /\ ReadsBelow /\ SeriallyValid

\* What writing a group does to the log.
GroupWritten ==
  /\ \A t \in Range(requests) : commit_seq'[t] = decision[t]
  /\ \A c \in Commit :
       \/ commit_seq'[c] = commit_seq[c]
       \/ /\ c \in Range(requests) /\ commit_seq[c] = 0
          /\ commit_seq'[c] = decision[c] /\ decision[c] # 0
          /\ decision[c] > visible_seq
=============================================================================

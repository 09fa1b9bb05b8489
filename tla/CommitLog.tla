----------------------------- MODULE CommitLog -----------------------------
(***************************************************************************)
(* What the commit pipeline promises, without queues, groups or            *)
(* predictions: a log in which every transaction sits at its own sequence, *)
(* validated against everything before it, and a visible watermark that    *)
(* moves over complete groups.                                             *)
(***************************************************************************)
EXTENDS FactLog

VARIABLES
  snapshot,    \* snapshot[t]: the sequence t reads at, -1 before it began
  commit_seq,  \* commit_seq[c]: the sequence of c's record, 0 without one
  visible_seq  \* the visible watermark

vars == <<snapshot, commit_seq, visible_seq>>

NoSnapshot == -1
Top(log) == Cardinality({c \in Commit : log[c] # 0})

Init ==
  /\ snapshot = [t \in Txn |-> NoSnapshot]
  /\ commit_seq = [c \in Commit |-> 0]
  /\ visible_seq = 0

\* A transaction reads at the visible watermark.
Begin(t) ==
  /\ snapshot[t] = NoSnapshot
  /\ snapshot' = [snapshot EXCEPT ![t] = visible_seq]
  /\ UNCHANGED <<commit_seq, visible_seq>>

\* A log that holds the old records, fills the next sequences without a gap,
\* and in which every new transaction is valid against all records below it.
Extends(log, new) ==
  /\ \A c \in Commit : log[c] # 0 => new[c] = log[c]
  /\ \A c \in Commit :
       log[c] = 0 /\ new[c] # 0 =>
         /\ new[c] > Top(log)
         /\ c \in Txn => /\ snapshot[c] # NoSnapshot
                         /\ DependenciesValid(new, c, snapshot[c], new[c] - 1)
  /\ {new[c] : c \in {d \in Commit : new[d] # 0}} = 1..Top(new)

\* A group of records is appended to the log, once nothing is in flight.
AppendGroup ==
  /\ visible_seq = Top(commit_seq)
  /\ commit_seq' \in [Commit -> Nat]
  /\ commit_seq' # commit_seq
  /\ Extends(commit_seq, commit_seq')
  /\ UNCHANGED <<snapshot, visible_seq>>

\* The appended group becomes visible as a whole.
Publish ==
  /\ visible_seq # Top(commit_seq)
  /\ visible_seq' = Top(commit_seq)
  /\ UNCHANGED <<snapshot, commit_seq>>

\* A prepared commit is appended and published under one lock.
Finalize(p) ==
  /\ visible_seq = Top(commit_seq)
  /\ commit_seq[p] = 0
  /\ commit_seq' = [commit_seq EXCEPT ![p] = visible_seq + 1]
  /\ visible_seq' = visible_seq + 1
  /\ UNCHANGED snapshot

Next ==
  \/ \E t \in Txn : Begin(t)
  \/ AppendGroup
  \/ Publish
  \/ \E p \in Prepared : Finalize(p)

Spec == Init /\ [][Next]_vars
=============================================================================

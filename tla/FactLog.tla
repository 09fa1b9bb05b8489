------------------------------ MODULE FactLog ------------------------------
(***************************************************************************)
(* The committed fact history of the store and the validation rules a     *)
(* commit is checked against.                                              *)
(*                                                                         *)
(* A fact is an identity (part, family, property, entity) at one valid     *)
(* time.  The history is the function `log' from commits to commit         *)
(* sequences: log[c] = 0 means that c has no record, and the versions of   *)
(* a fact are the sequences of the commits that write it.  Every operator  *)
(* takes the sequence s up to which the history is read.                   *)
(***************************************************************************)
EXTENDS Integers, FiniteSets

CONSTANTS
  Txn,        \* transactions that commit through the append pipeline
  Prepared,   \* prepared commits, finalized outside the pipeline
  Identity,   \* fact identities (FactRef)
  ValidTime,  \* valid-time boundaries
  Writes,     \* Writes[c]: the facts commit c writes
  Reads       \* Reads[t]: the exact reads of a strict transaction t

Commit == Txn \cup Prepared
Fact == Identity \X ValidTime

ASSUME FactAssumption ==
  /\ Txn \cap Prepared = {}
  /\ ValidTime \subseteq Nat
  /\ Writes \in [Commit -> SUBSET Fact]
  /\ Reads \in [Txn -> SUBSET Fact]

\* The commits of the history whose sequence lies in lo..hi.
Within(log, lo, hi) == {c \in Commit : log[c] # 0 /\ lo <= log[c] /\ log[c] <= hi}

\* The valid-time boundaries identity r has in the history up to s.
Boundaries(log, r, s) ==
  {v \in ValidTime : \E c \in Within(log, 1, s) : <<r, v>> \in Writes[c]}

\* A later commit than the snapshot wrote the fact.
WrittenSince(log, f, snap, s) ==
  \E c \in Within(log, snap + 1, s) : f \in Writes[c]

\* The boundaries next to v: SnapshotWriteDependency::predecessor and
\* ::successor, each a set of at most one element.
Predecessor(log, r, v, s) ==
  {b \in Boundaries(log, r, s) :
     b < v /\ \A e \in Boundaries(log, r, s) : e < v => e <= b}

Successor(log, r, v, s) ==
  {b \in Boundaries(log, r, s) :
     b > v /\ \A e \in Boundaries(log, r, s) : e > v => b <= e}

\* Snapshot-write validation of t against the history up to s.  Only the
\* current interval that starts at b and was written after the snapshot can
\* conflict.  An earlier interval conflicts when it is bounded beyond the
\* written boundary; a later one unless it starts at or after the successor
\* the transaction saw.
SnapshotWriteConflict(log, t, snap, s) ==
  \E f \in Writes[t] :
    LET r == f[1]
        v == f[2]
    IN \E b \in Boundaries(log, r, s) :
         /\ WrittenSince(log, <<r, b>>, snap, s)
         /\ IF b < v
            THEN \E to \in Successor(log, r, b, s) : to > v
            ELSE \A to \in Successor(log, r, v, snap) : b < to

\* What an exact read of <<r, v>> depends on: the boundary it observed and
\* that boundary's neighbours.
ReadIdentity(log, r, v, s) ==
  << v \in Boundaries(log, r, s),
     Predecessor(log, r, v, s),
     Successor(log, r, v, s) >>

\* The version an exact read of <<r, v>> returns: the last boundary at or before
\* v and the commit that wrote it last.
EffectiveVersion(log, r, v, s) ==
  UNION {{<<b, c>> : c \in {d \in Within(log, 1, s) :
                              /\ <<r, b>> \in Writes[d]
                              /\ ~WrittenSince(log, <<r, b>>, log[d], s)}} :
         b \in {e \in Boundaries(log, r, s) :
                  e <= v /\ \A g \in Boundaries(log, r, s) : g <= v => g <= e}}

StrictReadConflict_BoundariesOnly(log, t, snap, s) ==
  \E f \in Reads[t] :
    ReadIdentity(log, f[1], f[2], snap) # ReadIdentity(log, f[1], f[2], s)

\* Strict-read validation: the observed version or a neighbouring boundary
\* changed between the snapshot and s.
StrictReadConflict(log, t, snap, s) ==
  \E f \in Reads[t] :
    LET r == f[1]
        v == f[2]
        observed == IF v \in Boundaries(log, r, snap) THEN {v}
                    ELSE Predecessor(log, r, v, snap)
    IN \/ ReadIdentity(log, r, v, snap) # ReadIdentity(log, r, v, s)
       \/ \E b \in observed : WrittenSince(log, <<r, b>>, snap, s)

\* Every dependency of t still holds in the history up to s.
DependenciesValid(log, t, snap, s) ==
  /\ ~SnapshotWriteConflict(log, t, snap, s)
  /\ ~StrictReadConflict(log, t, snap, s)

\* Footprints work on identities, not on valid times.
WriteIdentities(c) == {f[1] : f \in Writes[c]}
ReadIdentities(t) == {f[1] : f \in Reads[t]}

\* Two transactions whose footprints may not share one physical write.
FootprintsConflict(t, u) ==
  \/ WriteIdentities(t) \cap WriteIdentities(u) # {}
  \/ WriteIdentities(t) \cap ReadIdentities(u) # {}
  \/ ReadIdentities(t) \cap WriteIdentities(u) # {}
=============================================================================

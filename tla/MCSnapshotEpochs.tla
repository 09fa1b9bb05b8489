-------------------------- MODULE MCSnapshotEpochs --------------------------
(* Finite instances of the snapshot epochs, and the retention they implement. *)
EXTENDS SnapshotEpochs, Integers, TLC

Symmetry == Permutations(Epoch) \cup Permutations(Reader)

Retention == INSTANCE SnapshotRetention WITH
  pin <- [r \in Reader |-> IF th[r].pc = "held" THEN epoch[th[r].epoch].seq ELSE -1],
  visible <- visible_seq

\* Vacuum never deletes what a snapshot reads, and no snapshot is opened below
\* what it has deleted: the epochs implement SnapshotRetention.
ImplementsRetention == Retention!Spec
=============================================================================

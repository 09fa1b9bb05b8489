---------------------------- MODULE MCQueryDelta ----------------------------
(* A finite instance of the query delta: its readers and maintenance calls. *)
EXTENDS QueryDelta, TLC

CONSTANTS r1, r2

Queries == {r1, r2}

\* A repair to 1 may find 1 and 2 queued; one to 3 exceeds the hard bounds
\* unless something was retired or reset.
MaintenanceCalls ==
  {[op |-> "repair", at |-> 1], [op |-> "repair", at |-> 3],
   [op |-> "retire", at |-> 1], [op |-> "retire", at |-> 2],
   [op |-> "reset", at |-> 1]}
=============================================================================

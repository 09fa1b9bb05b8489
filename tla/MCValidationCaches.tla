------------------------- MODULE MCValidationCaches -------------------------
(* Small instances of the validation caches. *)
EXTENDS ValidationCaches

CONSTANTS fact1, fact2, worker, finalizer

\* Both identities hash to the one bucket.
OneBucket == [h \in Fact |-> 1]

\* Two boundaries of one identity, and a later one with another identity: a
\* chain that has all three outgrows its array.
Batches == {{<<fact1, 1>>, <<fact1, 2>>}, {<<fact1, 3>>, <<fact2, 1>>}}
=============================================================================

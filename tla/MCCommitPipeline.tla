-------------------------- MODULE MCCommitPipeline --------------------------
(***************************************************************************)
(* Small instances of the commit pipeline.                                 *)
(***************************************************************************)
EXTENDS CommitPipelineRefinement, TLC

CONSTANTS t1, t2, t3, p1, a, b

Nothing(S) == [c \in S |-> {}]

\* One transaction of each mode.  t3 overwrites t1's fact.
MixedMode == t1 :> "sync" @@ t2 :> "async" @@ t3 :> "pipelined"
MixedWrites == t1 :> {<<a, 1>>} @@ t2 :> {<<b, 1>>} @@ t3 :> {<<a, 1>>}
MixedReads == Nothing({t1, t2, t3})

\* Intervals of one identity: t1 and t2 read what the other writes; t1 and t3
\* overwrite each other's facts below what t2 reads.
TemporalMode == t1 :> "sync" @@ t2 :> "sync" @@ t3 :> "sync"
TemporalWrites == t1 :> {<<a, 2>>} @@ t2 :> {<<b, 1>>} @@ t3 :> {<<a, 2>>, <<a, 3>>}
TemporalReads == t1 :> {<<b, 2>>} @@ t2 :> {<<a, 2>>, <<a, 3>>} @@ t3 :> {}

\* Two asynchronous calls, one of which may be cancelled by its deadline.
AsyncMode == t1 :> "async" @@ t2 :> "pipelined"

\* A prepared commit writes the facts of two independent transactions.
PreparedMode == t1 :> "sync" @@ t2 :> "sync"
PreparedWrites == t1 :> {<<a, 1>>} @@ t2 :> {<<b, 1>>} @@ p1 :> {<<a, 1>>, <<b, 1>>}
PreparedReads == Nothing({t1, t2})
=============================================================================

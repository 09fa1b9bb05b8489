---------------------- MODULE CommitPipelineRefinement ----------------------
(***************************************************************************)
(* The commit pipeline implements the serial commit log.  The log's state  *)
(* is the store's: snapshots, commit sequences and the watermark.          *)
(***************************************************************************)
EXTENDS CommitPipeline

Abstract == INSTANCE CommitLog

\* Whatever the queue, the groups and the predictions do, the store only ever
\* takes steps of the serial log (WriteDecidedGroupLocked, PublishVisible).
ImplementsCommitLog == Abstract!Spec
=============================================================================

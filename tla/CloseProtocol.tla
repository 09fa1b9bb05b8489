---------------------------- MODULE CloseProtocol ----------------------------
(***************************************************************************)
(* Closing and destroying a database while its clients commit and query.   *)
(*                                                                         *)
(* Database::Close publishes `closing`, drains the commit calls that       *)
(* registered without a lock, drains the append pipeline, asks the store   *)
(* whether a snapshot pins it, and only then stops the executor and the    *)
(* workers and detaches the derived query state.  A close that is pinned   *)
(* rolls back.  ~Impl stops the pipeline without a drain: it runs on the   *)
(* thread that drops the last reference, of the Database, a transaction, a *)
(* cursor or a refresh of the query indexes.                               *)
(*                                                                         *)
(* What an epoch validates and writes is CommitPipeline's subject, the     *)
(* store's handshake with readers SnapshotEpochs'; here an epoch commits,  *)
(* aborts or stays undecided as a whole, and PrepareClose is one step.     *)
(* Commit deadlines, and the cancellation they cause, are CommitPipeline's. *)
(***************************************************************************)
EXTENDS Naturals, Sequences, FiniteSets, Functions

CONSTANTS
  Client,     \* threads: each one transaction, one refresh or one cursor
  Modes,      \* the instances: what each client is
  MaxCalls,   \* calls of Commit and CommitAsync, a bound
  MaxCloses   \* calls of Database::Close, a bound

ASSUME CloseAssumption ==
  /\ IsFiniteSet(Client)
  /\ Modes \subseteq [Client -> {"sync", "async", "pipelined", "refresh", "query"}]
  /\ MaxCalls \in Nat /\ MaxCloses \in Nat

VARIABLES
  mode,                 \* what each client is
  closing, closed, active_commit_calls,  \* the atomics of Database::Impl
  owner,                \* the Database object: "open", "dropping", "dropped"
  pc, loaded, closes,   \* the thread in Close or ~Impl
  pins,                 \* who holds a snapshot
  accepting_snapshots, store_open, query_state_attached,
  phase, calls,         \* the thread that uses a transaction, or that refreshes
  queue, tickets, stopping, executor, handing, sweep,  \* the submission executor
  append_commit_requests, append_commit_stopping, \* the append pipeline
  worker, requests, outcome,
  result, bound, admitted, durable, epoch_result, \* request and CommitHandle
  handles, waited,      \* handles given to callers, what Wait answered
  committed,            \* history: what the log holds
  cursor, registered    \* query execution states

flags == <<mode, closing, closed, owner>>
closeVars == <<pc, loaded, closes>>
clientVars == <<phase, calls, handles, waited, committed>>
storeVars == <<accepting_snapshots, store_open, query_state_attached>>
executorVars == <<queue, tickets, stopping, executor, handing, sweep>>
pipelineVars == <<append_commit_requests, append_commit_stopping, worker, requests,
                  outcome>>
handleVars == <<result, bound, admitted, durable, epoch_result>>
queryVars == <<cursor, registered>>
vars == <<flags, active_commit_calls, closeVars, pins, storeVars, clientVars, executorVars,
          pipelineVars, handleVars, queryVars>>

Async(t) == mode[t] \in {"async", "pipelined"}

Init ==
  /\ mode \in Modes
  /\ closing = FALSE /\ closed = FALSE /\ owner = "open"
  /\ active_commit_calls = 0
  /\ pc = "idle" /\ loaded = 0 /\ closes = 0
  /\ pins = {}
  /\ accepting_snapshots = TRUE /\ store_open = TRUE /\ query_state_attached = TRUE
  /\ phase = [t \in Client |-> "idle"] /\ calls = 0
  /\ queue = <<>> /\ tickets = {} /\ stopping = FALSE /\ executor = "wait" /\ sweep = {}
  /\ handing = {}
  /\ append_commit_requests = <<>> /\ append_commit_stopping = FALSE
  /\ worker = "wait" /\ requests = <<>> /\ outcome = "none"
  /\ result = [t \in Client |-> "none"] /\ bound = {} /\ admitted = {} /\ durable = {}
  /\ epoch_result = [t \in Client |-> "none"]
  /\ handles = {} /\ waited = [t \in Client |-> "none"] /\ committed = {}
  /\ cursor = [q \in Client |-> "none"] /\ registered = {}

-----------------------------------------------------------------------------
(* A client: BeginTransaction, BeginCommit, the submission, EndCommit. *)

To(t, next) == phase' = [phase EXCEPT ![t] = next]

BeginTransaction(t) ==
  /\ phase[t] = "idle" /\ mode[t] # "query" /\ owner = "open"
  /\ ~closed /\ ~closing
  /\ To(t, "begin")
  /\ UNCHANGED <<flags, active_commit_calls, closeVars, pins, storeVars, calls, handles,
                 waited, committed, executorVars, pipelineVars, handleVars, queryVars>>

(* The store refuses a snapshot once a close has shut its gate.            *)
PinSnapshot(t) ==
  /\ phase[t] = "begin"
  /\ IF accepting_snapshots
     THEN To(t, "open") /\ pins' = pins \cup {t}
     ELSE To(t, "gone") /\ UNCHANGED pins
  /\ UNCHANGED <<flags, active_commit_calls, closeVars, storeVars, calls, handles, waited,
                 committed, executorVars, pipelineVars, handleVars, queryVars>>

(* BeginCommit: its first look at `closed`.                                *)
StartCommit(t) ==
  /\ phase[t] = "open" /\ mode[t] # "refresh" /\ calls < MaxCalls
  /\ calls' = calls + 1
  /\ To(t, IF closed THEN "open" ELSE "register")
  /\ UNCHANGED <<flags, active_commit_calls, closeVars, pins, storeVars, handles, waited,
                 committed, executorVars, pipelineVars, handleVars, queryVars>>

\* Mutant: the flags are not read again after the registration.
Register_NoRecheck(t) ==
  /\ phase[t] = "register"
  /\ active_commit_calls' = active_commit_calls + 1
  /\ To(t, "admitted")
  /\ UNCHANGED <<flags, closeVars, pins, storeVars, calls, handles, waited, committed,
                 executorVars, pipelineVars, handleVars, queryVars>>

Register(t) ==
  /\ phase[t] = "register"
  /\ active_commit_calls' = active_commit_calls + 1
  /\ To(t, "recheck_closing")
  /\ UNCHANGED <<flags, closeVars, pins, storeVars, calls, handles, waited, committed,
                 executorVars, pipelineVars, handleVars, queryVars>>

Recheck(t) ==
  /\ \/ phase[t] = "recheck_closing" /\ To(t, IF closing THEN "withdraw" ELSE "recheck_closed")
     \/ phase[t] = "recheck_closed" /\ To(t, IF closed THEN "withdraw" ELSE "admitted")
  /\ UNCHANGED <<flags, active_commit_calls, closeVars, pins, storeVars, calls, handles,
                 waited, committed, executorVars, pipelineVars, handleVars, queryVars>>

\* Mutant: nobody wakes the drain.
WakeCallDrain_Never == UNCHANGED pc

(* notify_all on the transition to zero; atomic::wait then loads again.    *)
WakeCallDrain ==
  pc' = IF active_commit_calls = 1 /\ pc = "calls_asleep" THEN "calls" ELSE pc

EndCommit(t) ==
  /\ phase[t] \in {"withdraw", "end"}
  /\ active_commit_calls' = active_commit_calls - 1
  /\ WakeCallDrain
  /\ To(t, IF phase[t] = "end" THEN "returned" ELSE "open")
  /\ UNCHANGED <<flags, loaded, closes, pins, storeVars, calls, handles, waited, committed,
                 executorVars, pipelineVars, handleVars, queryVars>>

(* SubmitSyncCommit: the queue, or a refusal (stopping, pressure, full).   *)
SubmitSync(t) ==
  /\ phase[t] = "admitted" /\ mode[t] = "sync"
  /\ \/ /\ ~append_commit_stopping
        /\ append_commit_requests' = Append(append_commit_requests, t)
        /\ To(t, "waiting")
        /\ UNCHANGED result
     \/ /\ To(t, "finish")
        /\ result' = [result EXCEPT ![t] = "rejected"]
        /\ UNCHANGED append_commit_requests
  /\ UNCHANGED <<flags, active_commit_calls, closeVars, pins, storeVars, calls, handles,
                 waited, committed, executorVars, append_commit_stopping, worker, requests,
                 outcome, bound, admitted, durable, epoch_result, queryVars>>

(* RefreshQueryIndexes looks at the flags once it has its snapshot.        *)
CheckRefresh(t) ==
  /\ phase[t] = "open" /\ mode[t] = "refresh"
  /\ IF closed \/ closing
     THEN To(t, "gone") /\ pins' = pins \ {t}
     ELSE To(t, "submit") /\ UNCHANGED pins
  /\ UNCHANGED <<flags, active_commit_calls, closeVars, storeVars, calls, handles, waited,
                 committed, executorVars, pipelineVars, handleVars, queryVars>>

(* TrySubmit of SubmitAsyncCommit, or of a refresh, which does not wait.   *)
SubmitTicket(t) ==
  /\ phase[t] = IF Async(t) THEN "admitted" ELSE "submit"
  /\ \/ /\ ~stopping
        /\ queue' = Append(queue, t) /\ tickets' = tickets \cup {t}
        /\ To(t, IF Async(t) THEN "waiting" ELSE "gone")
        /\ UNCHANGED <<result, pins>>
     \/ /\ result' = [result EXCEPT ![t] = "rejected"]
        /\ To(t, IF Async(t) THEN "finish" ELSE "gone")
        /\ pins' = IF Async(t) THEN pins ELSE pins \ {t}
        /\ UNCHANGED <<queue, tickets>>
  /\ UNCHANGED <<flags, active_commit_calls, closeVars, storeVars, calls, handles, waited,
                 committed, stopping, executor, handing, sweep, pipelineVars, bound,
                 admitted, durable, epoch_result, queryVars>>

(* The call has what it waits for: a result, durability, admission.        *)
Answered(t) ==
  \/ result[t] # "none"
  \/ mode[t] = "async" /\ (t \in durable \/ epoch_result[t] # "none")
  \/ mode[t] = "pipelined" /\ t \in admitted

(* The wait ends, with a handle unless the call failed; Finish releases    *)
(* the transaction's snapshot.                                             *)
FinishCommit(t) ==
  /\ \/ /\ phase[t] = "waiting" /\ Answered(t)
        /\ handles' = IF /\ Async(t) /\ result[t] = "none"
                         /\ mode[t] = "async" => t \in durable \/ epoch_result[t] = "committed"
                      THEN handles \cup {t} ELSE handles
        /\ To(t, "finish") /\ UNCHANGED pins
     \/ /\ phase[t] = "finish" /\ To(t, "end")
        /\ pins' = pins \ {t} /\ UNCHANGED handles
  /\ UNCHANGED <<flags, active_commit_calls, closeVars, storeVars, calls, waited, committed,
                 executorVars, pipelineVars, handleVars, queryVars>>

(* The transaction object goes, with its snapshot if it was not committed. *)
DropTransaction(t) ==
  /\ phase[t] \in {"open", "returned"} /\ mode[t] # "refresh"
  /\ To(t, "gone")
  /\ pins' = pins \ {t}
  /\ UNCHANGED <<flags, active_commit_calls, closeVars, storeVars, calls, handles, waited,
                 committed, executorVars, pipelineVars, handleVars, queryVars>>

(* CommitHandle::Wait.  A handle bound to an epoch has the epoch's result. *)
WaitAnswer(t) == IF t \in bound THEN epoch_result[t] ELSE result[t]

WaitHandle(t) ==
  /\ t \in handles /\ phase[t] \in {"returned", "gone"}
  /\ waited[t] = "none" /\ WaitAnswer(t) # "none"
  /\ waited' = [waited EXCEPT ![t] = WaitAnswer(t)]
  /\ UNCHANGED <<flags, active_commit_calls, closeVars, pins, storeVars, phase, calls,
                 handles, committed, executorVars, pipelineVars, handleVars, queryVars>>

-----------------------------------------------------------------------------
(* The executor's worker, and the tickets. *)

\* Mutant: the sweep writes over the result an epoch owns.
CompleteCommitHandle_Overwrites(t, status) ==
  /\ result' = [result EXCEPT ![t] = status]
  /\ bound' = bound \ {t}

(* Terminal state is single-assignment, and an epoch owns what it bound.   *)
CompleteCommitHandle(t, status) ==
  /\ result' = IF result[t] = "none" /\ t \notin bound
               THEN [result EXCEPT ![t] = status] ELSE result
  /\ UNCHANGED bound

Release(t) == tickets' = tickets \ {t}

ExecutorTake ==
  /\ executor = "wait" /\ queue # <<>>
  /\ executor' = "handoff" /\ handing' = {Head(queue)} /\ queue' = Tail(queue)
  /\ UNCHANGED <<flags, active_commit_calls, closeVars, pins, storeVars, clientVars,
                 tickets, stopping, sweep, pipelineVars, handleVars, queryVars>>

(* SubmitAsyncCommitToAppendPipeline, or its refusal, or the refresh.      *)
Handoff(t) ==
  /\ executor = "handoff" /\ t \in handing
  /\ \/ /\ Async(t) /\ ~append_commit_stopping
        /\ append_commit_requests' = Append(append_commit_requests, t)
        /\ executor' = IF mode[t] = "pipelined" THEN "admit" ELSE "drop"
        /\ UNCHANGED <<result, bound, tickets>>
     \/ /\ CompleteCommitHandle(t, IF Async(t) THEN "rejected" ELSE "done")
        /\ Release(t)
        /\ executor' = "drop"
        /\ UNCHANGED append_commit_requests
  /\ UNCHANGED <<flags, active_commit_calls, closeVars, pins, storeVars, clientVars, queue,
                 stopping, handing, sweep, append_commit_stopping, worker, requests,
                 outcome, admitted, durable, epoch_result, queryVars>>

MarkCommitHandleAdmitted(t) ==
  /\ executor = "admit" /\ t \in handing
  /\ executor' = "drop"
  /\ admitted' = admitted \cup {t}
  /\ UNCHANGED <<flags, active_commit_calls, closeVars, pins, storeVars, clientVars, queue,
                 tickets, stopping, handing, sweep, pipelineVars, result, bound, durable,
                 epoch_result, queryVars>>

(* Who keeps the Impl alive once the Database is gone.                     *)
Unreferenced(held) ==
  /\ owner = "dropped"
  /\ \A t \in Client : phase[t] \in {"idle", "gone"}
  /\ \A q \in Client : cursor[q] \in {"none", "gone"}
  /\ \A t \in Range(queue) \cup held : Async(t)

(* The worker drops its ticket, and what a refresh captured: the snapshot  *)
(* and a reference of the Impl.  If that was the last one ~Impl runs here, *)
(* where Stop joins the thread it runs on: the join throws and the process *)
(* terminates.                                                             *)
DropTicket ==
  /\ executor = "drop"
  /\ executor' = "wait" /\ handing' = {}
  /\ pins' = pins \ {t \in handing : ~Async(t)}
  /\ pc' = IF (\E t \in handing : ~Async(t)) /\ pc = "idle" /\ Unreferenced({})
           THEN "terminated" ELSE pc
  /\ UNCHANGED <<flags, active_commit_calls, loaded, closes, storeVars, clientVars, queue,
                 tickets, stopping, sweep, pipelineVars, handleVars, queryVars>>

ExecutorExit ==
  /\ executor = "wait" /\ stopping /\ queue = <<>>
  /\ executor' = "exited"
  /\ UNCHANGED <<flags, active_commit_calls, closeVars, pins, storeVars, clientVars, queue,
                 tickets, stopping, handing, sweep, pipelineVars, handleVars, queryVars>>

-----------------------------------------------------------------------------
(* The append worker. *)

Select ==
  /\ worker = "wait" /\ append_commit_requests # <<>>
  /\ \E n \in 1..Len(append_commit_requests) :
       /\ requests' = SubSeq(append_commit_requests, 1, n)
       /\ append_commit_requests' =
            SubSeq(append_commit_requests, n + 1, Len(append_commit_requests))
  /\ worker' = "bind"
  /\ UNCHANGED <<flags, active_commit_calls, closeVars, pins, storeVars, clientVars,
                 executorVars, append_commit_stopping, outcome, handleVars, queryVars>>

Grouped == Range(requests)

BindEpoch ==
  /\ worker = "bind"
  /\ bound' = bound \cup {t \in Grouped : Async(t)}
  /\ worker' = "write"
  /\ UNCHANGED <<flags, active_commit_calls, closeVars, pins, storeVars, clientVars,
                 executorVars, append_commit_requests, append_commit_stopping, requests,
                 outcome, result, admitted, durable, epoch_result, queryVars>>

(* The write: durable, with the tickets released by the callback; refused; *)
(* or failed with the log holding the epoch or not.                        *)
WriteEpoch ==
  /\ worker = "write" /\ worker' = "account"
  /\ \/ /\ outcome' = "committed"
        /\ committed' = committed \cup Grouped
        /\ durable' = durable \cup {t \in Grouped : Async(t)}
        /\ tickets' = tickets \ Grouped
     \/ outcome' = "aborted" /\ UNCHANGED <<committed, durable, tickets>>
     \/ /\ outcome' = "indeterminate"
        /\ committed' \in {committed, committed \cup Grouped}
        /\ UNCHANGED <<durable, tickets>>
  /\ UNCHANGED <<flags, active_commit_calls, closeVars, pins, storeVars, phase, calls,
                 handles, waited, queue, stopping, executor, handing, sweep,
                 append_commit_requests, append_commit_stopping, requests, result, bound,
                 admitted, epoch_result, queryVars>>

(* The results of synchronous requests, under the mutex.                   *)
AccountEpoch ==
  /\ worker = "account" /\ worker' = "publish"
  /\ result' = [t \in Client |-> IF t \in Grouped /\ ~Async(t) THEN outcome ELSE result[t]]
  /\ UNCHANGED <<flags, active_commit_calls, closeVars, pins, storeVars, clientVars,
                 executorVars, append_commit_requests, append_commit_stopping, requests,
                 outcome, bound, admitted, durable, epoch_result, queryVars>>

(* The query delta is told, and the epoch's completion is published.       *)
PublishEpoch ==
  /\ worker = "publish" /\ worker' = "published"
  /\ epoch_result' = [t \in Client |-> IF t \in Grouped /\ Async(t) THEN outcome
                                     ELSE epoch_result[t]]
  /\ UNCHANGED <<flags, active_commit_calls, closeVars, pins, storeVars, clientVars,
                 executorVars, append_commit_requests, append_commit_stopping, requests,
                 outcome, result, bound, admitted, durable, queryVars>>

FinishEpoch ==
  /\ worker = "published"
  /\ worker' = "wait" /\ requests' = <<>> /\ outcome' = "none"
  /\ pc' = IF pc = "drain_asleep" /\ append_commit_requests = <<>> THEN "drain" ELSE pc
  /\ UNCHANGED <<flags, active_commit_calls, loaded, closes, pins, storeVars, clientVars,
                 executorVars, append_commit_requests, append_commit_stopping, handleVars,
                 queryVars>>

\* Mutant: the worker leaves what is queued.
WorkerMayExit_AtOnce == append_commit_stopping

WorkerMayExit == append_commit_stopping /\ append_commit_requests = <<>>

WorkerExit ==
  /\ worker = "wait" /\ WorkerMayExit
  /\ worker' = "exited"
  /\ UNCHANGED <<flags, active_commit_calls, closeVars, pins, storeVars, clientVars,
                 executorVars, append_commit_requests, append_commit_stopping, requests,
                 outcome, handleVars, queryVars>>

-----------------------------------------------------------------------------
(* Cursors: QueryExecutionState. *)

(* Execute: a snapshot, then the registration under the lifecycle mutex.   *)
OpenCursor(q) ==
  /\ \/ /\ cursor[q] = "none" /\ mode[q] = "query" /\ owner = "open"
        /\ ~closed /\ ~closing /\ accepting_snapshots
        /\ cursor' = [cursor EXCEPT ![q] = "new"]
        /\ pins' = pins \cup {q}
        /\ UNCHANGED registered
     \/ /\ cursor[q] = "new"
        /\ IF closed \/ closing
           THEN /\ cursor' = [cursor EXCEPT ![q] = "gone"]
                /\ pins' = pins \ {q}
                /\ UNCHANGED registered
           ELSE /\ cursor' = [cursor EXCEPT ![q] = "ready"]
                /\ registered' = registered \cup {q}
                /\ UNCHANGED pins
  /\ UNCHANGED <<flags, active_commit_calls, closeVars, storeVars, clientVars, executorVars,
                 pipelineVars, handleVars>>

(* BeginOperation and EndOperation around Next; a cancelled cursor has     *)
(* nothing more to read.                                                   *)
BeginOperation(q) ==
  /\ cursor[q] = "ready" /\ pc # "queries"
  /\ cursor' = [cursor EXCEPT ![q] = "reading"]
  /\ UNCHANGED <<flags, active_commit_calls, closeVars, pins, storeVars, clientVars,
                 executorVars, pipelineVars, handleVars, registered>>

EndOperation(q) ==
  /\ cursor[q] = "reading"
  /\ cursor' = [cursor EXCEPT ![q] = "ready"]
  /\ UNCHANGED <<flags, active_commit_calls, closeVars, pins, storeVars, clientVars,
                 executorVars, pipelineVars, handleVars, registered>>

(* QueryExecutionState::Close: the first caller past the operations takes  *)
(* the callback, the cursor's owner here, Database::Close below.           *)
CloseCursor(q) ==
  /\ cursor[q] = "ready"
  /\ cursor' = [cursor EXCEPT ![q] = "owner_releases"]
  /\ UNCHANGED <<flags, active_commit_calls, closeVars, pins, storeVars, clientVars,
                 executorVars, pipelineVars, handleVars, registered>>

(* The callback: the snapshot goes, and the registration with it.          *)
CloseCallback(q) ==
  /\ cursor[q] \in {"owner_releases", "close_releases"}
  /\ cursor' = [cursor EXCEPT ![q] = "gone"]
  /\ pins' = pins \ {q}
  /\ registered' = registered \ {q}
  /\ UNCHANGED <<flags, active_commit_calls, closeVars, storeVars, clientVars, executorVars,
                 pipelineVars, handleVars>>

-----------------------------------------------------------------------------
(* Database::Close. *)

(* Close by its caller, or by the destructor of the Database, which no     *)
(* call of the Database may overlap.                                       *)
BeginClose(drop) ==
  /\ pc = "idle" /\ owner = "open" /\ ~closed
  /\ IF drop
     THEN \A t \in Client :
            /\ phase[t] # "begin"
            /\ mode[t] = "refresh" => phase[t] \in {"idle", "gone"}
     ELSE closes < MaxCloses
  /\ closes' = IF drop THEN closes ELSE closes + 1
  /\ owner' = IF drop THEN "dropping" ELSE owner
  /\ closing' = TRUE
  /\ pc' = "queries"
  /\ UNCHANGED <<mode, closed, active_commit_calls, loaded, pins, storeVars, clientVars,
                 executorVars, pipelineVars, handleVars, queryVars>>

(* CancelActiveQueries and WaitForActiveQueries: past a cursor whose owner *)
(* took the callback the close does not wait.                              *)
CloseQueries ==
  /\ pc = "queries"
  /\ \/ /\ \E q \in registered :
             cursor[q] = "ready" /\ cursor' = [cursor EXCEPT ![q] = "close_releases"]
        /\ UNCHANGED <<pc, registered>>
     \/ /\ \A q \in registered : cursor[q] = "owner_releases"
        /\ registered' = {}
        /\ pc' = "calls"
        /\ UNCHANGED cursor
  /\ UNCHANGED <<flags, active_commit_calls, loaded, closes, pins, storeVars, clientVars,
                 executorVars, pipelineVars, handleVars>>

(* WaitForActiveCommitCalls: a load, then a wait that sleeps only while    *)
(* the counter still has the loaded value.                                 *)
WaitForActiveCommitCalls ==
  /\ \/ /\ pc = "calls"
        /\ loaded' = active_commit_calls
        /\ pc' = IF active_commit_calls = 0 THEN "drain" ELSE "calls_wait"
     \/ /\ pc = "calls_wait"
        /\ pc' = IF active_commit_calls = loaded THEN "calls_asleep" ELSE "calls"
        /\ UNCHANGED loaded
  /\ UNCHANGED <<flags, active_commit_calls, closes, pins, storeVars, clientVars,
                 executorVars, pipelineVars, handleVars, queryVars>>

(* No request is queued or selected, no publication outstanding.           *)
Drained ==
  /\ append_commit_requests = <<>>
  /\ \/ worker \in {"wait", "exited"}
     \/ worker \in {"publish", "published"} /\ \A t \in Grouped : ~Async(t)

DrainAppendCommitPipeline ==
  /\ pc = "drain"
  /\ pc' = IF Drained THEN "prepare" ELSE "drain_asleep"
  /\ UNCHANGED <<flags, active_commit_calls, loaded, closes, pins, storeVars, clientVars,
                 executorVars, pipelineVars, handleVars, queryVars>>

Dropped == IF owner = "dropping" THEN "dropped" ELSE owner

\* Mutant: a pinned close leaves the gate shut.
PrepareClose_GateShut ==
  /\ pc = "prepare"
  /\ accepting_snapshots' = FALSE
  /\ IF pins # {}
     THEN closing' = FALSE /\ pc' = "idle" /\ owner' = Dropped
     ELSE pc' = "stop_executor" /\ UNCHANGED <<closing, owner>>
  /\ UNCHANGED <<mode, closed, active_commit_calls, loaded, closes, pins, store_open,
                 query_state_attached, clientVars, executorVars, pipelineVars, handleVars,
                 queryVars>>

PrepareClose ==
  /\ pc = "prepare"
  /\ IF pins # {}
     THEN /\ closing' = FALSE /\ pc' = "idle" /\ owner' = Dropped
          /\ UNCHANGED accepting_snapshots
     ELSE /\ accepting_snapshots' = FALSE /\ pc' = "stop_executor"
          /\ UNCHANGED <<closing, owner>>
  /\ UNCHANGED <<mode, closed, active_commit_calls, loaded, closes, pins, store_open,
                 query_state_attached, clientVars, executorVars, pipelineVars, handleVars,
                 queryVars>>

(* AsyncSubmissionExecutor::Stop: what is in the mailbox fails, the worker *)
(* is joined, then every ticket that is left fails.                        *)
StopExecutor ==
  /\ \/ /\ pc = "stop_executor" /\ pc' = "fail_pending"
        /\ stopping' = TRUE
        /\ sweep' = Range(queue) /\ queue' = <<>>
     \/ /\ pc = "fail_pending" /\ sweep = {} /\ pc' = "join_executor"
        /\ UNCHANGED <<stopping, sweep, queue>>
     \/ /\ pc = "join_executor" /\ executor = "exited" /\ pc' = "fail_remaining"
        /\ sweep' = tickets
        /\ UNCHANGED <<stopping, queue>>
     \/ /\ pc = "fail_remaining" /\ sweep = {} /\ pc' = "stop_worker"
        /\ UNCHANGED <<stopping, sweep, queue>>
  /\ UNCHANGED <<flags, active_commit_calls, loaded, closes, pins, storeVars, clientVars,
                 tickets, executor, handing, pipelineVars, handleVars, queryVars>>

FailTicket(t) ==
  /\ pc \in {"fail_pending", "fail_remaining"} /\ t \in sweep
  /\ sweep' = sweep \ {t}
  /\ CompleteCommitHandle(t, "aborted")
  /\ Release(t)
  /\ UNCHANGED <<flags, active_commit_calls, closeVars, pins, storeVars, clientVars, queue,
                 stopping, executor, handing, pipelineVars, admitted, durable, epoch_result,
                 queryVars>>

\* Mutant: the append worker is not joined.
StopWorker_NoJoin ==
  /\ \/ /\ pc = "stop_worker" /\ pc' = "join_worker"
        /\ append_commit_stopping' = TRUE
     \/ /\ pc = "join_worker"
        /\ pc' = IF closing THEN "detach" ELSE "destroyed"
        /\ UNCHANGED append_commit_stopping
  /\ UNCHANGED <<flags, active_commit_calls, loaded, closes, pins, storeVars, clientVars,
                 executorVars, append_commit_requests, worker, requests, outcome,
                 handleVars, queryVars>>

(* The rest of StopAppendCommitPipeline.                                   *)
StopWorker ==
  /\ \/ /\ pc = "stop_worker" /\ pc' = "join_worker"
        /\ append_commit_stopping' = TRUE
     \/ /\ pc = "join_worker" /\ worker = "exited"
        /\ pc' = IF closing THEN "detach" ELSE "destroyed"
        /\ UNCHANGED append_commit_stopping
  /\ UNCHANGED <<flags, active_commit_calls, loaded, closes, pins, storeVars, clientVars,
                 executorVars, append_commit_requests, worker, requests, outcome,
                 handleVars, queryVars>>

(* The derived query state goes, then the store; `closed` is stored before *)
(* `closing` is taken back.                                                *)
FinishClose ==
  /\ \/ /\ pc = "detach" /\ pc' = "finish"
        /\ query_state_attached' = FALSE
        /\ UNCHANGED <<store_open, closing, closed, owner>>
     \/ /\ pc = "finish" /\ pc' = "set_closed"
        /\ store_open' = FALSE
        /\ UNCHANGED <<query_state_attached, closing, closed, owner>>
     \/ /\ pc = "set_closed" /\ pc' = "unset_closing"
        /\ closed' = TRUE
        /\ UNCHANGED <<store_open, query_state_attached, closing, owner>>
     \/ /\ pc = "unset_closing" /\ pc' = "idle"
        /\ closing' = FALSE /\ owner' = Dropped
        /\ UNCHANGED <<store_open, query_state_attached, closed>>
  /\ UNCHANGED <<mode, active_commit_calls, loaded, closes, pins, accepting_snapshots,
                 clientVars, executorVars, pipelineVars, handleVars, queryVars>>

(* ~Database of a closed database, and ~Impl when nobody refers to it any  *)
(* more: StopAppendCommitPipeline, unless a close ran it.                  *)
DropDatabase ==
  /\ pc = "idle"
  /\ \/ owner = "open" /\ closed /\ owner' = "dropped" /\ UNCHANGED pc
     \/ /\ Unreferenced(handing)
        /\ pc' = IF closed THEN "destroyed" ELSE "stop_executor"
        /\ UNCHANGED owner
  /\ UNCHANGED <<mode, closing, closed, active_commit_calls, loaded, closes, pins,
                 storeVars, clientVars, executorVars, pipelineVars, handleVars, queryVars>>

-----------------------------------------------------------------------------
ClientStep(t) ==
  \/ PinSnapshot(t) \/ Register(t) \/ Recheck(t) \/ EndCommit(t)
  \/ SubmitSync(t) \/ CheckRefresh(t) \/ SubmitTicket(t) \/ FinishCommit(t)

ExecutorStep ==
  \/ ExecutorTake \/ DropTicket \/ ExecutorExit
  \/ \E t \in Client : Handoff(t) \/ MarkCommitHandleAdmitted(t)

WorkerStep ==
  \/ Select \/ BindEpoch \/ WriteEpoch \/ AccountEpoch \/ PublishEpoch \/ FinishEpoch
  \/ WorkerExit

CloseStep ==
  \/ CloseQueries \/ WaitForActiveCommitCalls \/ DrainAppendCommitPipeline \/ PrepareClose
  \/ StopExecutor \/ StopWorker \/ FinishClose
  \/ \E t \in Client : FailTicket(t)

Next ==
  \/ \E t \in Client :
       BeginTransaction(t) \/ StartCommit(t) \/ DropTransaction(t) \/ WaitHandle(t)
         \/ ClientStep(t)
  \/ \E q \in Client :
       OpenCursor(q) \/ BeginOperation(q) \/ EndOperation(q) \/ CloseCursor(q)
         \/ CloseCallback(q)
  \/ ExecutorStep \/ WorkerStep
  \/ \E drop \in BOOLEAN : BeginClose(drop)
  \/ CloseStep \/ DropDatabase

Spec == Init /\ [][Next]_vars

(* The threads that are inside a call run: the client's once it called,    *)
(* the cursor's during Next and its release, the workers, the close.       *)
FairSpec ==
  /\ Spec
  /\ WF_vars(ExecutorStep) /\ WF_vars(WorkerStep) /\ WF_vars(CloseStep)
  /\ \A t \in Client : WF_vars(ClientStep(t))
  /\ \A q \in Client : WF_vars(EndOperation(q)) /\ WF_vars(CloseCallback(q))

-----------------------------------------------------------------------------
InCommit == {"admitted", "waiting", "finish", "end"}

(* Close has decided that no commit is registered, and has not rolled back. *)
PastCallDrain ==
  closing /\ pc \notin {"idle", "queries", "calls", "calls_wait", "calls_asleep"}

(* No commit is admitted after Close decided that none is registered       *)
(* (BeginCommit against WaitForActiveCommitCalls), and the counter counts  *)
(* the calls that are inside.                                              *)
NoAdmitAfterClose ==
  /\ PastCallDrain => \A t \in Client : phase[t] \notin InCommit
  /\ active_commit_calls =
       Cardinality({t \in Client :
         phase[t] \in InCommit \cup {"recheck_closing", "recheck_closed", "withdraw"}})

(* A database that is neither closed nor being closed can be used: a close *)
(* that found it pinned left its workers, its executor, the store's gate   *)
(* and the derived query state as they were.                               *)
OpenIsUsable ==
  (pc = "idle" /\ ~closed) =>
    /\ ~closing /\ accepting_snapshots /\ store_open /\ query_state_attached
    /\ ~stopping /\ executor # "exited"
    /\ ~append_commit_stopping /\ worker # "exited"

(* What Close and ~Impl take away is in use no more: the append worker     *)
(* writes to a store that is open and tells a query delta that is there,   *)
(* a refresh finds the projection store, and nobody holds a snapshot of a  *)
(* closed store.                                                           *)
TeardownOrdered ==
  /\ worker \in {"write", "account", "publish"} => store_open /\ query_state_attached
  /\ (executor = "handoff" /\ \E t \in handing : ~Async(t)) => query_state_attached
  /\ ~store_open => pins = {}

(* When the pipeline has been stopped every admitted commit has its        *)
(* result, and no ticket is left.                                          *)
StoppedIsComplete ==
  pc \in {"detach", "finish", "set_closed", "unset_closing", "destroyed"} =>
    /\ tickets = {} /\ append_commit_requests = <<>>
    /\ \A t \in handles : WaitAnswer(t) # "none"
    /\ \A t \in Client : phase[t] \notin InCommit

Settled(t) == waited[t] # "none" /\ WaitAnswer(t) # "none"

(* Wait is idempotent and its answer agrees with the log, where no         *)
(* pipelined commit is queued when ~Impl runs: CompleteCommitHandle leaves *)
(* the result to the epoch that bound the handle.                          *)
AnswersHold ==
  \A t \in handles : Settled(t) /\ (mode[t] = "async" \/ owner # "dropped") =>
    /\ WaitAnswer(t) = waited[t]
    /\ waited[t] = "committed" => t \in committed
    /\ waited[t] = "aborted" => t \notin committed

(* "Database shutdown joins the executor before ~Impl releases the         *)
(* member": the worker of the executor never runs ~Impl itself.            *)
NoSelfJoin == pc # "terminated"

Returned == {"idle", "destroyed", "terminated"}

(* Close returns, pinned or done, and so does ~Impl: no wake-up of the     *)
(* call drain or of the pipeline drain is lost, and no join waits for a    *)
(* thread that waits for the close.                                        *)
CloseReturns == (pc \notin Returned) ~> (pc \in Returned)
=============================================================================

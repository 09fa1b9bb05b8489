--------------------------- MODULE SnapshotEpochs ---------------------------
(***************************************************************************)
(* Snapshot epochs: one shared RocksDB snapshot per visible sequence.      *)
(*                                                                         *)
(* Readers pin the current epoch without a lock or fall back to a slow     *)
(* path under epoch_mutex.  The last release of a retired epoch reclaims   *)
(* it; its memory is freed once no pin attempt is in flight.  Publication, *)
(* vacuum, close and destruction, which the database keeps apart, are the  *)
(* steps of one writer thread.                                             *)
(*                                                                         *)
(* An action is one access to a word other threads race for, or one        *)
(* critical section.  The attempt counters are not variables: who is       *)
(* counted follows from where the threads are.                             *)
(***************************************************************************)
EXTENDS Naturals, FiniteSets

CONSTANTS
  Reader, Writer,
  Epoch,      \* addresses of epochs
  None,       \* no epoch, or no thread
  Ops,        \* what the threads do, a subset of ReaderOps \cup WriterOps
  MaxSeq,     \* bound on the visible sequence
  MaxTries,   \* passes through the lock-free loop (4 in the code)
  CacheSlots  \* kAsOfCacheSlots

ReaderOps == {"current", "at", "oneoff"}
WriterOps == {"publish", "vacuum", "close", "destroy"}
Thread == Reader \cup {Writer}

ASSUME EpochAssumption ==
  /\ Writer \notin Reader /\ IsFiniteSet(Reader)
  /\ None \notin Epoch \cup Thread
  /\ Ops \subseteq ReaderOps \cup WriterOps
  /\ MaxSeq \in Nat /\ MaxTries \in Nat \ {0} /\ CacheSlots \in Nat \ {0}

VARIABLES
  th,     \* th[t]: thread t
          \*   pc     what it does next
          \*   op     the call it is in
          \*   at     the sequence asked for; for a reader of the current one,
          \*          the last sequence whose publication had returned
          \*   epoch  the epoch it pins, holds or releases
          \*   keep   the epoch it will hold after releasing another
          \*   back   where it goes from ReleaseEpochRef
          \*   tries  passes through the lock-free loop
  epoch,  \* epoch[e]: [seq, refs, dead, lease, memory]
  current_epoch, current_epoch_fast, retired_epochs,
  dead_epochs_pending_free, pending_reclaim, close_graveyard,
  as_of_cache,          \* epochs the as_of cache owns a reference of
  clearing,             \* epochs ClearAsOfCache has yet to release
  epoch_mutex,          \* its owner
  visible_seq,
  published,            \* the last sequence whose publication has returned
  oldest_readable_seq, pending_vacuum_oldest,
  cleaned,              \* versions obsolete at this sequence are deleted
  store                 \* "open", "closing" (gates shut), "closed", "destroyed"

registryVars == <<current_epoch, current_epoch_fast, retired_epochs>>
freeVars == <<dead_epochs_pending_free, pending_reclaim, close_graveyard>>
cacheVars == <<as_of_cache, clearing>>
seqVars == <<visible_seq, published>>
vacuumVars == <<oldest_readable_seq, pending_vacuum_oldest, cleaned>>
vars == <<th, epoch, registryVars, freeVars, cacheVars, epoch_mutex, seqVars,
          vacuumVars, store>>

NoCall == [pc |-> "idle", op |-> "none", at |-> 0, epoch |-> None, keep |-> None,
           back |-> "none", tries |-> 0]
Unused == [seq |-> 0, refs |-> 0, dead |-> FALSE, lease |-> FALSE, memory |-> "free"]

Go(t, to) == th' = [th EXCEPT ![t].pc = to]
Return(t) == th' = [th EXCEPT ![t] = NoCall]
Unlocked == epoch_mutex = None
Releasing(t) == th[t].back # "none"

\* The threads counted in pin_attempts, in fast_pin_attempts_, in
\* snapshot_opens_in_flight and in reclaim_attempts.
PinAttempts ==
  {r \in Reader : th[r].pc \in {"load", "cas", "check"} \/ th[r].back = "load"}

FastPinAttempts ==
  PinAttempts \cup
  {r \in Reader : th[r].pc \in {"free", "lookup"} \/ th[r].back = "register"}

OpensInFlight == {r \in Reader : th[r].pc \in {"open", "insert"} \/ th[r].back = "held"}
ReclaimAttempts == {t \in Thread : Releasing(t)}

Init ==
  /\ th = [t \in Thread |-> NoCall]
  /\ epoch = [e \in Epoch |-> Unused]
  /\ current_epoch = None /\ current_epoch_fast = None /\ retired_epochs = {}
  /\ dead_epochs_pending_free = {} /\ pending_reclaim = FALSE
  /\ close_graveyard = {} /\ as_of_cache = {} /\ clearing = {}
  /\ epoch_mutex = None /\ visible_seq = 0 /\ published = 0
  /\ oldest_readable_seq = 0 /\ pending_vacuum_oldest = 0 /\ cleaned = 0
  /\ store = "open"

-----------------------------------------------------------------------------
(* Creating and freeing epochs *)

\* The allocator hands out an address nobody holds.
Fresh == {e \in Epoch : /\ epoch[e].memory = "free"
                        /\ \A t \in Thread : e \notin {th[t].epoch, th[t].keep}}

\* CreateEpochLocked.
CreateEpochLocked(e, seq, refs) ==
  epoch' = [epoch EXCEPT ![e] = [seq |-> seq, refs |-> refs, dead |-> FALSE,
                                 lease |-> TRUE, memory |-> "live"]]

\* The current epoch is shared, or created with a reference for the store.
PinCurrentEpochLocked(r) ==
  \/ /\ current_epoch # None
     /\ epoch' = [epoch EXCEPT ![current_epoch].refs = @ + 1]
     /\ th' = [th EXCEPT ![r].pc = "held", ![r].epoch = current_epoch]
     /\ UNCHANGED registryVars
  \/ /\ current_epoch = None
     /\ \E e \in Fresh :
          /\ CreateEpochLocked(e, visible_seq, 2)
          /\ current_epoch' = e /\ current_epoch_fast' = e
          /\ th' = [th EXCEPT ![r].pc = "held", ![r].epoch = e]
     /\ UNCHANGED retired_epochs

\* An epoch for one sequence, retired from birth.
CreateUncachedEpochLocked(r, seq, to) ==
  \E e \in Fresh :
    /\ CreateEpochLocked(e, seq, 1)
    /\ retired_epochs' = retired_epochs \cup {e}
    /\ th' = [th EXCEPT ![r].pc = to, ![r].epoch = e]
    /\ UNCHANGED <<current_epoch, current_epoch_fast>>

\* FreeDeadEpochsLocked.
FreeDeadEpochsLocked ==
  /\ epoch' = [e \in Epoch |-> IF e \in dead_epochs_pending_free
                               THEN Unused ELSE epoch[e]]
  /\ dead_epochs_pending_free' = {} /\ pending_reclaim' = FALSE
  /\ UNCHANGED close_graveyard

\* MaybeFreeDeadEpochs.
MaybeFreeDeadEpochs ==
  \/ /\ pending_reclaim /\ PinAttempts = {} /\ Unlocked
     /\ FreeDeadEpochsLocked
  \/ /\ ~pending_reclaim \/ PinAttempts # {}
     /\ UNCHANGED <<epoch, freeVars>>

-----------------------------------------------------------------------------
(* Opening a snapshot without a lock *)

\* BeginCurrentSnapshot, BeginCurrentSnapshotAt or BeginSnapshot(as_of), up to
\* the watermarks they load first; a sequence outside them returns at once.
Begin(r, op, s) ==
  /\ th[r].pc = "idle" /\ op \in Ops \cap ReaderOps
  /\ th[Writer].op # "destroy" /\ store # "destroyed"
  /\ \/ op = "current" /\ s = published
     \/ op # "current" /\ oldest_readable_seq <= s /\ s <= visible_seq
  /\ th' = [th EXCEPT ![r] = [NoCall EXCEPT !.op = op, !.at = s, !.pc =
              IF op = "oneoff" \/ store # "open" THEN "register"
              ELSE IF op = "at" /\ s < visible_seq THEN "lookup" ELSE "load"]]
  /\ UNCHANGED <<epoch, registryVars, freeVars, cacheVars, epoch_mutex, seqVars,
                 vacuumVars, store>>

\* The head of the loop in TryPinCurrentEpochLockFree.
LoadCurrentEpoch(r) ==
  /\ th[r].pc = "load"
  /\ LET candidate == IF store = "open" /\ th[r].tries < MaxTries
                      THEN current_epoch_fast ELSE None
     IN th' = [th EXCEPT ![r].pc = IF candidate = None THEN "free" ELSE "cas",
                         ![r].epoch = candidate,
                         ![r].tries = IF candidate = None THEN 0 ELSE @ + 1]
  /\ UNCHANGED <<epoch, registryVars, freeVars, cacheVars, epoch_mutex, seqVars,
                 vacuumVars, store>>

\* The increment, which a dead epoch refuses and which may fail for no reason.
IncrementRefs(r) ==
  /\ th[r].pc = "cas"
  /\ \/ /\ ~epoch[th[r].epoch].dead
        /\ epoch' = [epoch EXCEPT ![th[r].epoch].refs = @ + 1]
        /\ Go(r, "check")
     \/ /\ th' = [th EXCEPT ![r].pc = "load", ![r].epoch = None]
        /\ UNCHANGED epoch
  /\ UNCHANGED <<registryVars, freeVars, cacheVars, epoch_mutex, seqVars, vacuumVars,
                 store>>

\* An epoch that was retired in the meantime is released again.  Otherwise the
\* attempt is over.
RecheckCurrentEpoch(r) ==
  /\ th[r].pc = "check"
  /\ th' = IF current_epoch_fast = th[r].epoch
           THEN [th EXCEPT ![r].pc = "free", ![r].tries = 0]
           ELSE [th EXCEPT ![r].pc = "release", ![r].back = "load"]
  /\ UNCHANGED <<epoch, registryVars, freeVars, cacheVars, epoch_mutex, seqVars,
                 vacuumVars, store>>

EndAttempt_AnySequence(r) ==
  /\ th[r].pc = "free"
  /\ MaybeFreeDeadEpochs
  /\ Go(r, IF th[r].epoch = None THEN "register" ELSE "held")
  /\ UNCHANGED <<registryVars, cacheVars, epoch_mutex, seqVars, vacuumVars, store>>

\* After the attempt, parked epochs are freed.  A read at a given sequence only
\* takes an epoch of that sequence.
EndAttempt(r) ==
  /\ th[r].pc = "free"
  /\ MaybeFreeDeadEpochs
  /\ LET e == th[r].epoch
     IN \/ e = None /\ Go(r, "register")
        \/ /\ e # None /\ (th[r].op = "at" => epoch[e].seq = th[r].at)
           /\ Go(r, "held")
        \/ /\ e # None /\ th[r].op = "at" /\ epoch[e].seq # th[r].at
           /\ th' = [th EXCEPT ![r].pc = "release", ![r].back = "register"]
  /\ UNCHANGED <<registryVars, cacheVars, epoch_mutex, seqVars, vacuumVars, store>>

\* ClearAsOfCache keeps as_of_cache_mutex while it releases.
CacheUnlocked == th[Writer].pc # "clear" /\ th[Writer].back # "clear"

Cached(s) == {e \in as_of_cache : epoch[e].seq = s}

\* BeginCurrentSnapshotAt for a historical sequence.
LookupAsOfCache(r) ==
  /\ th[r].pc = "lookup" /\ CacheUnlocked
  /\ \/ \E e \in Cached(th[r].at) :
          /\ epoch' = [epoch EXCEPT ![e].refs = @ + 1]
          /\ th' = [th EXCEPT ![r].pc = "held", ![r].epoch = e]
     \/ Cached(th[r].at) = {} /\ Go(r, "register") /\ UNCHANGED epoch
  /\ UNCHANGED <<registryVars, freeVars, cacheVars, epoch_mutex, seqVars, vacuumVars,
                 store>>

-----------------------------------------------------------------------------
(* Opening a snapshot under epoch_mutex *)

\* Close owns lifecycle_mutex_ until it has decided.
LifecycleUnlocked ==
  th[Writer].op \in {"close", "destroy"} => th[Writer].pc = "prepared"

\* The open registers with Close, or finds the store closing or closed.
RegisterOpen(r) ==
  /\ th[r].pc = "register" /\ LifecycleUnlocked
  /\ IF store = "open" THEN Go(r, "open") ELSE Return(r)
  /\ UNCHANGED <<epoch, registryVars, freeVars, cacheVars, epoch_mutex, seqVars,
                 vacuumVars, store>>

EffectiveOldestReadableLocked_Durable == oldest_readable_seq

\* A vacuum's reservation counts before it is durable.
EffectiveOldestReadableLocked ==
  IF pending_vacuum_oldest > oldest_readable_seq
  THEN pending_vacuum_oldest ELSE oldest_readable_seq

\* BeginSnapshot and BeginSnapshotAtCached: the boundary check and the epoch's
\* registration are one critical section.  The call returns without a snapshot
\* below the boundary, and wherever RocksDB refuses one.
OpenEpoch(r) ==
  /\ th[r].pc = "open" /\ Unlocked
  /\ LET s == IF th[r].op = "current" THEN visible_seq ELSE th[r].at
     IN \/ Return(r) /\ UNCHANGED <<epoch, registryVars>>
        \/ /\ s >= EffectiveOldestReadableLocked
           /\ IF s = visible_seq /\ th[r].op # "oneoff"
              THEN PinCurrentEpochLocked(r)
              ELSE CreateUncachedEpochLocked(r, s,
                     IF th[r].op = "oneoff" THEN "held" ELSE "insert")
  /\ UNCHANGED <<freeVars, cacheVars, epoch_mutex, seqVars, vacuumVars, store>>

\* A full cache gives up the epoch with the lowest sequence.
Evicted == {e \in as_of_cache : /\ Cardinality(as_of_cache) = CacheSlots
                                /\ \A f \in as_of_cache : epoch[e].seq <= epoch[f].seq}

\* The cache takes over the reference of a new epoch, unless it has one of that
\* sequence.  The reader pins the cached epoch and releases the loser.
InsertAsOf(r) ==
  /\ th[r].pc = "insert" /\ CacheUnlocked
  /\ LET new == th[r].epoch
         chosen == IF Cached(th[r].at) = {} THEN {new} ELSE Cached(th[r].at)
         released == IF Cached(th[r].at) = {} THEN Evicted ELSE {new}
     IN \E c \in chosen :
          /\ as_of_cache' = (as_of_cache \ released) \cup chosen
          /\ epoch' = [epoch EXCEPT ![c].refs = @ + 1]
          /\ \/ /\ released = {}
                /\ Go(r, "held")
             \/ \E e \in released :
                  th' = [th EXCEPT ![r].pc = "release", ![r].back = "held",
                                   ![r].epoch = e, ![r].keep = c]
  /\ UNCHANGED <<registryVars, freeVars, clearing, epoch_mutex, seqVars, vacuumVars,
                 store>>

-----------------------------------------------------------------------------
(* Releasing a reference *)

\* The handle of a snapshot goes out of scope.
ReleaseSnapshot(r) ==
  /\ th[r].pc = "held"
  /\ th' = [th EXCEPT ![r] = [NoCall EXCEPT !.pc = "release", !.back = "idle",
                                            !.epoch = th[r].epoch]]
  /\ UNCHANGED <<epoch, registryVars, freeVars, cacheVars, epoch_mutex, seqVars,
                 vacuumVars, store>>

\* DropOwnerReferenceLocked is called with epoch_mutex and frees nothing else.
Owning(t) == th[t].back = "published"
AfterReclaim(t) == IF Owning(t) THEN "published" ELSE "sweep"

\* The decrement in ReleaseEpochRef and DropOwnerReferenceLocked.
DecrementRefs(t) ==
  /\ th[t].pc = "release"
  /\ epoch' = [epoch EXCEPT ![th[t].epoch].refs = @ - 1]
  /\ Go(t, IF epoch[th[t].epoch].refs = 1 THEN "reclaim" ELSE AfterReclaim(t))
  /\ UNCHANGED <<registryVars, freeVars, cacheVars, epoch_mutex, seqVars, vacuumVars,
                 store>>

\* ReclaimEpochLocked claims the epoch and drops its lease.  The claim fails on
\* an epoch that was pinned again or claimed by another thread; on memory that
\* was freed meanwhile this is the only outcome after which the program goes on.
\* What the graveyard holds is not freed here.
ReclaimEpoch(t) ==
  LET e == th[t].epoch
      claims == epoch[e].memory = "live" /\ epoch[e].refs = 0 /\ ~epoch[e].dead
  IN /\ th[t].pc = "reclaim" /\ epoch_mutex \in {None, t}
     /\ \/ /\ ~claims
           /\ UNCHANGED <<epoch, retired_epochs>>
        \/ /\ claims
           /\ retired_epochs' = retired_epochs \ {e}
           /\ epoch' = [epoch EXCEPT ![e].dead = TRUE, ![e].lease = FALSE]
     /\ IF claims /\ e \notin close_graveyard
        THEN epoch_mutex' = t /\ Go(t, "claimed")
        ELSE UNCHANGED epoch_mutex /\ Go(t, AfterReclaim(t))
     /\ UNCHANGED <<current_epoch, current_epoch_fast, freeVars, cacheVars, seqVars,
                    vacuumVars, store>>

CountAttempts_Never(t) ==
  /\ th[t].pc = "claimed"
  /\ epoch' = [epoch EXCEPT ![th[t].epoch] = Unused]
  /\ epoch_mutex' = IF Owning(t) THEN t ELSE None
  /\ Go(t, AfterReclaim(t))
  /\ UNCHANGED <<registryVars, freeVars, cacheVars, seqVars, vacuumVars, store>>

\* Without an attempt in flight the claimed epoch is freed at once.
CountAttempts(t) ==
  /\ th[t].pc = "claimed"
  /\ \/ /\ PinAttempts = {}
        /\ epoch' = [epoch EXCEPT ![th[t].epoch] = Unused]
        /\ epoch_mutex' = IF Owning(t) THEN t ELSE None
        /\ Go(t, AfterReclaim(t))
     \/ /\ PinAttempts # {}
        /\ Go(t, "park")
        /\ UNCHANGED <<epoch, epoch_mutex>>
  /\ UNCHANGED <<registryVars, freeVars, cacheVars, seqVars, vacuumVars, store>>

\* Otherwise it is parked for the last attempt to free.
ParkEpoch(t) ==
  /\ th[t].pc = "park"
  /\ dead_epochs_pending_free' = dead_epochs_pending_free \cup {th[t].epoch}
  /\ pending_reclaim' = TRUE
  /\ Go(t, "parked")
  /\ UNCHANGED <<epoch, registryVars, close_graveyard, cacheVars, epoch_mutex, seqVars,
                 vacuumVars, store>>

RecheckAttempts_Never(t) ==
  /\ th[t].pc = "parked"
  /\ epoch_mutex' = IF Owning(t) THEN t ELSE None
  /\ Go(t, AfterReclaim(t))
  /\ UNCHANGED <<epoch, freeVars, registryVars, cacheVars, seqVars, vacuumVars, store>>

\* The attempts are counted again after pending_reclaim was set.
RecheckAttempts(t) ==
  /\ th[t].pc = "parked"
  /\ \/ PinAttempts = {} /\ FreeDeadEpochsLocked
     \/ PinAttempts # {} /\ UNCHANGED <<epoch, freeVars>>
  /\ epoch_mutex' = IF Owning(t) THEN t ELSE None
  /\ Go(t, AfterReclaim(t))
  /\ UNCHANGED <<registryVars, cacheVars, seqVars, vacuumVars, store>>

\* The end of ReleaseEpochRef.
SweepAndReturn(t) ==
  /\ th[t].pc = "sweep"
  /\ MaybeFreeDeadEpochs
  /\ th' = [th EXCEPT ![t].pc = th[t].back, ![t].back = "none",
                      ![t].epoch = th[t].keep, ![t].keep = None]
  /\ UNCHANGED <<registryVars, cacheVars, epoch_mutex, seqVars, vacuumVars, store>>

-----------------------------------------------------------------------------
(* The writer: publication *)

Calls(op) == th[Writer].pc = "idle" /\ op \in Ops /\ store = "open"

\* PublishVisible: the watermark moves first.
PublishVisible ==
  /\ Calls("publish") /\ visible_seq < MaxSeq /\ Unlocked
  /\ visible_seq' = visible_seq + 1
  /\ \/ /\ current_epoch = None
        /\ published' = visible_seq' /\ UNCHANGED <<th, epoch_mutex>>
     \/ /\ current_epoch # None
        /\ epoch_mutex' = Writer /\ Go(Writer, "retire") /\ UNCHANGED published
  /\ UNCHANGED <<epoch, registryVars, freeVars, cacheVars, vacuumVars, store>>

\* RetireCurrentEpochLocked, before it drops the store's reference.
RetireCurrentEpoch ==
  /\ th[Writer].pc = "retire"
  /\ current_epoch_fast' = None /\ current_epoch' = None
  /\ retired_epochs' = retired_epochs \cup {current_epoch}
  /\ th' = [th EXCEPT ![Writer].pc = "release", ![Writer].back = "published",
                      ![Writer].epoch = current_epoch]
  /\ UNCHANGED <<epoch, freeVars, cacheVars, epoch_mutex, seqVars, vacuumVars, store>>

PublishReturns ==
  /\ th[Writer].pc = "published"
  /\ epoch_mutex' = None /\ published' = visible_seq
  /\ Return(Writer)
  /\ UNCHANGED <<epoch, registryVars, freeVars, cacheVars, visible_seq, vacuumVars, store>>

-----------------------------------------------------------------------------
(* The writer: vacuum *)

\* ClearAsOfCache takes every entry out and releases them one by one.
TakeAsOfCache == clearing' = as_of_cache /\ as_of_cache' = {}

ReleaseCached ==
  /\ th[Writer].pc = "clear"
  /\ \/ \E e \in clearing :
          /\ clearing' = clearing \ {e}
          /\ th' = [th EXCEPT ![Writer].pc = "release", ![Writer].back = "clear",
                              ![Writer].epoch = e]
     \/ /\ clearing = {}
        /\ Go(Writer, IF th[Writer].op = "vacuum" THEN "scan" ELSE "test")
        /\ UNCHANGED clearing
  /\ UNCHANGED <<epoch, registryVars, freeVars, as_of_cache, epoch_mutex, seqVars,
                 vacuumVars, store>>

\* HasActiveEpochRefsLocked and OldestActiveEpochSeqLocked.
ActiveEpochs ==
  {e \in retired_epochs \cup ({current_epoch} \ {None}) :
     epoch[e].refs > IF e = current_epoch THEN 1 ELSE 0}

Vacuum(s) ==
  /\ Calls("vacuum") /\ oldest_readable_seq < s /\ s <= visible_seq
  /\ TakeAsOfCache
  /\ th' = [th EXCEPT ![Writer] = [NoCall EXCEPT !.pc = "clear", !.op = "vacuum", !.at = s]]
  /\ UNCHANGED <<epoch, registryVars, freeVars, epoch_mutex, seqVars, vacuumVars, store>>

\* Phase 1: an active snapshot below the target refuses it, or the target is
\* reserved.
ReserveBoundary ==
  /\ th[Writer].pc = "scan" /\ Unlocked
  /\ \/ /\ \E e \in ActiveEpochs : epoch[e].seq < th[Writer].at
        /\ Return(Writer) /\ UNCHANGED pending_vacuum_oldest
     \/ /\ \A e \in ActiveEpochs : epoch[e].seq >= th[Writer].at
        /\ pending_vacuum_oldest' = th[Writer].at /\ Go(Writer, "write")
  /\ UNCHANGED <<epoch, registryVars, freeVars, cacheVars, epoch_mutex, seqVars,
                 oldest_readable_seq, cleaned, store>>

\* The durable write fails, and PendingVacuumReservation takes the target back.
BoundaryWriteFails ==
  /\ th[Writer].pc = "write" /\ Unlocked
  /\ pending_vacuum_oldest' = 0 /\ Return(Writer)
  /\ UNCHANGED <<epoch, registryVars, freeVars, cacheVars, epoch_mutex, seqVars,
                 oldest_readable_seq, cleaned, store>>

\* Phase 2, after the durable write.
PublishBoundary ==
  /\ th[Writer].pc = "write" /\ Unlocked
  /\ oldest_readable_seq' = th[Writer].at /\ pending_vacuum_oldest' = 0
  /\ Go(Writer, "cleanup")
  /\ UNCHANGED <<epoch, registryVars, freeVars, cacheVars, epoch_mutex, seqVars, cleaned,
                 store>>

\* DeleteObsoleteFactVersions, as a whole or in part.
CleanUp ==
  /\ th[Writer].pc = "cleanup"
  /\ cleaned' = th[Writer].at /\ Return(Writer)
  /\ UNCHANGED <<epoch, registryVars, freeVars, cacheVars, epoch_mutex, seqVars,
                 oldest_readable_seq, pending_vacuum_oldest, store>>

-----------------------------------------------------------------------------
(* The writer: close and destruction *)

\* The gates shut: accepting_snapshots, accepting_fast and fast_impl_.  The
\* destructor runs when nobody uses the store except to release a handle.
PrepareClose(op) ==
  /\ Calls(op) /\ op \in {"close", "destroy"}
  /\ op = "destroy" => \A r \in Reader : th[r].pc \in {"idle", "held"} \/ th[r].back = "idle"
  /\ store' = "closing"
  /\ th' = [th EXCEPT ![Writer] = [NoCall EXCEPT !.pc = "drain", !.op = op]]
  /\ UNCHANGED <<epoch, registryVars, freeVars, cacheVars, epoch_mutex, seqVars, vacuumVars>>

\* What Close spins for: registered opens and lock-free attempts are over.
Drained == OpensInFlight = {} /\ FastPinAttempts = {}

DrainOpens ==
  /\ th[Writer].pc = "drain" /\ Drained
  /\ TakeAsOfCache /\ Go(Writer, "clear")
  /\ UNCHANGED <<epoch, registryVars, freeVars, epoch_mutex, seqVars, vacuumVars, store>>

DecideClose_IgnoresPins ==
  /\ th[Writer].pc = "test" /\ Unlocked
  /\ Go(Writer, "prepared")
  /\ UNCHANGED <<epoch, registryVars, freeVars, cacheVars, epoch_mutex, seqVars, vacuumVars,
                 store>>

DecideClose_WaitsForReaders ==
  /\ th[Writer].pc = "test" /\ Unlocked
  /\ Go(Writer, IF ActiveEpochs = {} THEN "prepared" ELSE "drain")
  /\ UNCHANGED <<epoch, registryVars, freeVars, cacheVars, epoch_mutex, seqVars, vacuumVars,
                 store>>

\* A pinned close opens the gates again; the destructor goes on to
\* ForceCloseLocked.
DecideClose ==
  /\ th[Writer].pc = "test" /\ Unlocked
  /\ \/ /\ ActiveEpochs = {} /\ Go(Writer, "prepared") /\ UNCHANGED store
     \/ /\ ActiveEpochs # {} /\ th[Writer].op = "close"
        /\ store' = "open" /\ Return(Writer)
     \/ /\ ActiveEpochs # {} /\ th[Writer].op = "destroy"
        /\ Go(Writer, "force") /\ UNCHANGED store
  /\ UNCHANGED <<epoch, registryVars, freeVars, cacheVars, epoch_mutex, seqVars, vacuumVars>>

\* Every registered epoch loses its lease, and its memory goes to the graveyard.
Registered == retired_epochs \cup ({current_epoch} \ {None})

UnregisterAll ==
  current_epoch' = None /\ current_epoch_fast' = None /\ retired_epochs' = {}

\* FinishCloseLocked, CloseEpochsLocked.
FinishClose ==
  /\ th[Writer].pc = "prepared" /\ Drained /\ Unlocked
  /\ epoch' = [e \in Epoch |-> IF e \in Registered
                 THEN [epoch[e] EXCEPT !.refs = 0, !.dead = TRUE, !.lease = FALSE]
                 ELSE epoch[e]]
  /\ close_graveyard' = close_graveyard \cup Registered
  /\ UnregisterAll
  /\ store' = "closed" /\ Return(Writer)
  /\ UNCHANGED <<dead_epochs_pending_free, pending_reclaim, cacheVars, epoch_mutex, seqVars,
                 vacuumVars>>

\* ForceCloseLocked waits for the releases it can see; others may follow.
DrainReleases ==
  /\ th[Writer].pc = "force" /\ Drained /\ ReclaimAttempts = {}
  /\ Go(Writer, "detach")
  /\ UNCHANGED <<epoch, registryVars, freeVars, cacheVars, epoch_mutex, seqVars, vacuumVars,
                 store>>

\* ForceDetachEpochsLocked: the store's own reference is dropped; what a handle
\* may still release stays in the graveyard.
ForceDetachEpochs ==
  /\ th[Writer].pc = "detach" /\ Unlocked
  /\ LET unheld == {e \in {current_epoch} \ {None} : epoch[e].refs = 1}
     IN /\ epoch' = [e \in Epoch |->
             IF e \in unheld THEN Unused
             ELSE IF e \in Registered
             THEN [epoch[e] EXCEPT !.lease = FALSE,
                                   !.refs = IF e = current_epoch THEN @ - 1 ELSE @]
             ELSE epoch[e]]
        /\ close_graveyard' = close_graveyard \cup (Registered \ unheld)
  /\ UnregisterAll
  /\ store' = "destroyed" /\ Return(Writer)
  /\ UNCHANGED <<dead_epochs_pending_free, pending_reclaim, cacheVars, epoch_mutex, seqVars,
                 vacuumVars>>

-----------------------------------------------------------------------------

\* The steps of a call that has begun.
ReaderStep(r) ==
  \/ LoadCurrentEpoch(r) \/ IncrementRefs(r) \/ RecheckCurrentEpoch(r) \/ EndAttempt(r)
  \/ LookupAsOfCache(r) \/ RegisterOpen(r) \/ OpenEpoch(r) \/ InsertAsOf(r)

ReleaseStep(t) ==
  \/ DecrementRefs(t) \/ ReclaimEpoch(t) \/ CountAttempts(t) \/ ParkEpoch(t)
  \/ RecheckAttempts(t) \/ SweepAndReturn(t)

WriterStep ==
  \/ RetireCurrentEpoch \/ PublishReturns
  \/ ReleaseCached \/ ReserveBoundary \/ BoundaryWriteFails \/ PublishBoundary \/ CleanUp
  \/ DrainOpens \/ DecideClose \/ FinishClose \/ DrainReleases \/ ForceDetachEpochs

Next ==
  \/ \E r \in Reader :
       \/ \E op \in ReaderOps, s \in 0..MaxSeq : Begin(r, op, s)
       \/ ReleaseSnapshot(r) \/ ReaderStep(r)
  \/ \E t \in Thread : ReleaseStep(t)
  \/ PublishVisible \/ WriterStep
  \/ \E s \in 1..MaxSeq : Vacuum(s)
  \/ \E op \in {"close", "destroy"} : PrepareClose(op)

Spec == Init /\ [][Next]_vars

\* A thread inside a call goes on; none has to begin one or to give up a
\* snapshot.
FairSpec ==
  /\ Spec
  /\ \A r \in Reader : WF_vars(ReaderStep(r) \/ ReleaseStep(r))
  /\ WF_vars(WriterStep \/ ReleaseStep(Writer))

-----------------------------------------------------------------------------
(* Properties *)

\* Who owns a reference of e: threads, the store and the as_of cache.
References(e) ==
  Cardinality({t \in Thread : /\ th[t].epoch = e
                              /\ th[t].pc \in {"check", "free", "held", "insert", "release"}})
  + Cardinality({t \in Thread : th[t].keep = e})
  + (IF current_epoch = e THEN 1 ELSE 0)
  + (IF e \in as_of_cache \cup clearing THEN 1 ELSE 0)

\* A held snapshot has its RocksDB lease until the destructor takes it, and an
\* epoch is not freed under a pin attempt or a release.
HeldAlive ==
  \A t \in Thread :
    /\ th[t].pc = "held" => \/ epoch[th[t].epoch].lease
                            \/ store = "destroyed"
    /\ th[t].pc \in {"cas", "check", "insert", "held", "release"} =>
         epoch[th[t].epoch].memory = "live"

\* A snapshot at a sequence is exactly that sequence, and a current one holds
\* every commit whose publication had returned when it was asked for.
SnapshotExact ==
  \A r \in Reader : th[r].pc = "held" =>
    LET seq == epoch[th[r].epoch].seq
    IN /\ th[r].op = "current" => th[r].at <= seq
       /\ th[r].op # "current" => th[r].at = seq
       /\ seq <= visible_seq

\* No reference and no epoch leaks: whatever pins, failed pins, evictions and
\* releases interleave, the count of an epoch is the number of its owners and a
\* dead one has none; and when every call has returned, the live epochs are the
\* current one, the cached ones, those readers hold and those a close keeps.
NothingLeaks ==
  /\ \A e \in Epoch :
       IF epoch[e].memory = "live" /\ ~epoch[e].dead
       THEN epoch[e].refs = References(e) ELSE References(e) = 0
  /\ (\A t \in Thread : th[t].pc \in {"idle", "held"}) =>
       {e \in Epoch : epoch[e].memory = "live"} =
         ({current_epoch} \ {None}) \cup as_of_cache \cup close_graveyard
           \cup {th[r].epoch : r \in {q \in Reader : th[q].pc = "held"}}

\* Close comes to a decision, whatever opens and pins it has to wait for.
CloseDecides == th[Writer].op = "close" ~> th[Writer].op # "close"

\* Only the thread that saw the last reference go touches an epoch to reclaim
\* it, so that nobody finds it freed.
ReclaimedOnce ==
  \A t \in Thread : th[t].pc = "reclaim" => epoch[th[t].epoch].memory = "live"
=============================================================================

---------------------------- MODULE CommitQueue ----------------------------
(* The commit queue of one database (commit/queue/mod.rs): the entries      *)
(* submitters push, the entries the drain owner put back, the serializable  *)
(* commits parked behind the registration fence, and the flag that makes    *)
(* one thread at a time the drain owner.                                    *)
(*                                                                          *)
(* An operator of this module is one critical section of the queue's mutex; *)
(* it constrains the primed value of the variables it writes and nothing    *)
(* else, so that CommitRuntime can put several of them into one step.       *)
EXTENDS CommitTypes

CONSTANTS
    Wakers,         \* the threads of the drain wake pool
    NoThread,       \* "no drain owner"
    TargetBatch,    \* effective_target_batch_size()
    BypassBudget,   \* serializable_bypass_batch_budget
    MaxQueueDepth   \* max_commit_queue_depth

VARIABLES
    entries,        \* QueueState.entries
    deferred,       \* QueueState.deferred_entries
    pendingFence,   \* QueueState.pending_fence
    closed,         \* QueueState.closed
    drainOwner      \* the holder of drain_owner_active, or NoThread

queueVars == <<entries, deferred, pendingFence, closed, drainOwner>>

Threads == Txns \cup Wakers

ASSUME QueueAssumption ==
    /\ NoThread \notin Threads
    /\ Txns \cap Wakers = {}
    /\ TargetBatch \in Nat \ {0}
    /\ BypassBudget \in Nat
    /\ MaxQueueDepth \in Nat \ {0}

----------------------------------------------------------------------------
(* FenceBlockedBatch: the runtime always parks one entry at a time.  spent  *)
(* is snapshot_bypass_epoch - bypass_epoch_at_block, which saturates at the *)
(* budget because only "is the budget used up" is ever asked of it.         *)
FenceBlockedBatch ==
    [txn : Txns, required : Nat, spent : 0 .. BypassBudget]

FencedTxns == {pendingFence[i].txn : i \in 1 .. Len(pendingFence)}

(* Everything close_and_drain_pending would return. *)
PendingTxns == Elems(entries) \cup Elems(deferred) \cup FencedTxns

VisibleDepth == Len(entries) + Len(deferred) + Len(pendingFence)

HasReadyWork == VisibleDepth > 0

HasPendingFence == pendingFence # <<>>

QueueInit ==
    /\ entries = <<>>
    /\ deferred = <<>>
    /\ pendingFence = <<>>
    /\ closed = FALSE
    /\ drainOwner = NoThread

----------------------------------------------------------------------------
(* enqueue: refused once the queue is closed or at the depth limit. *)
EnqueueAdmits == ~closed /\ VisibleDepth < MaxQueueDepth

Enqueue(t) ==
    /\ EnqueueAdmits
    /\ entries' = Append(entries, t)

(* close_and_drain_pending: PendingTxns are handed back to the caller. *)
CloseAndDrainPending ==
    /\ closed' = TRUE
    /\ entries' = <<>>
    /\ deferred' = <<>>
    /\ pendingFence' = <<>>

(* try_acquire_drain_owner: a compare-exchange of drain_owner_active. *)
TryAcquireDrainOwner(th) ==
    /\ drainOwner = NoThread
    /\ drainOwner' = th

ReleaseDrainOwner ==
    /\ drainOwner # NoThread
    /\ drainOwner' = NoThread

(* take_local_buffer: deferred entries first, then new ones, up to the     *)
(* target batch size.                                                       *)
TakeLocalBuffer(local) ==
    LET line == deferred \o entries
        n    == IF Len(line) < TargetBatch THEN Len(line) ELSE TargetBatch
        d    == IF n < Len(deferred) THEN n ELSE Len(deferred)
    IN  /\ local = SubSeq(line, 1, n)
        /\ deferred' = SubSeq(deferred, d + 1, Len(deferred))
        /\ entries' = SubSeq(entries, n - d + 1, Len(entries))

(* take_ready_pending_fence looks at the oldest parked batch only. *)
PendingFenceReady(registeredTs) ==
    /\ HasPendingFence
    /\ Head(pendingFence).required <= registeredTs

TakeReadyPendingFence(registeredTs, local) ==
    /\ PendingFenceReady(registeredTs)
    /\ local = <<Head(pendingFence).txn>>
    /\ pendingFence' = Tail(pendingFence)

(* block_on_fence: a fresh bypass budget each time the entry is parked. *)
BlockOnFence(t, requiredTs) ==
    pendingFence' =
        Append(pendingFence, [txn |-> t, required |-> requiredTs, spent |-> 0])

(* can_bypass_snapshot over a given fence queue: some budget must be left   *)
(* for every parked batch, and the oldest of them must not have waited for  *)
(* the time budget (aged, a clock reading).                                 *)
CanBypassSnapshot(fence, aged) ==
    \/ fence = <<>>
    \/ /\ ~aged
       /\ \A i \in 1 .. Len(fence) : fence[i].spent < BypassBudget

(* snapshot_bypass_conflicts_with_pending_head *)
BypassConflictsWithHead(t) ==
    /\ HasPendingFence
    /\ ConflictsWith(t, Head(pendingFence).txn)

(* record_snapshot_bypass: every parked batch is charged. *)
RecordSnapshotBypass ==
    pendingFence' =
        [i \in 1 .. Len(pendingFence) |->
            [pendingFence[i] EXCEPT
                !.spent = IF @ < BypassBudget THEN @ + 1 ELSE BypassBudget]]

(* defer_entries appends; unlike enqueue it does not look at closed. *)
DeferEntries(s) == deferred' = deferred \o s

QueueTypeOK ==
    /\ entries \in Seq(Txns)
    /\ deferred \in Seq(Txns)
    /\ pendingFence \in Seq(FenceBlockedBatch)
    /\ drainOwner \in Threads \cup {NoThread}
=============================================================================

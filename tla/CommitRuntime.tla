--------------------------- MODULE CommitRuntime ---------------------------
(* The commit runtime of one database (commit/runtime/mod.rs): submitters   *)
(* put prepared commits on the queue; whichever thread becomes the drain    *)
(* owner groups them into batches, gives them commit timestamps, appends    *)
(* them to the journal and hands them to the finalize worker, which         *)
(* registers each commit and submits it to the ordered apply worker.        *)
(*                                                                          *)
(* A step is a stretch of code no other thread can observe in the middle:   *)
(* a critical section, or a run of them whose intermediate states only the  *)
(* thread itself reads.  The failures the code handles (a failed append, a  *)
(* failed rollback, a panic in phase 1 or while the apply request is built, *)
(* a failed apply) happen when they are in Faults.                          *)
EXTENDS CommitQueue, CommitCompletion

CONSTANTS
    HasWal,          \* FALSE: an in-memory database, whose journal has no appender
    FinalizeDepth,   \* max_commit_finalize_pipeline_depth
    MaxUnpublished,  \* max_unpublished_commit_count
    MaxWakeTasks,    \* bound of the model: wake tasks beyond it are not queued
    Faults           \* which of FaultKinds may happen

FaultKinds == {"append", "rollback", "phase1", "build", "apply"}

ASSUME RuntimeAssumption ==
    /\ HasWal \in BOOLEAN
    /\ FinalizeDepth \in Nat \ {0}
    /\ MaxUnpublished \in Nat \ {0}
    /\ MaxWakeTasks \in Nat
    /\ Faults \subseteq FaultKinds

VARIABLES
    pc,            \* where each submitter and each wake worker is
    wakeTasks,     \* tasks waiting in the drain wake pool
    dpc,           \* where the drain owner is in drain_owned
    source,        \* which queue the owner's entries came from
    local,         \* entries the owner has taken and not yet decided on
    batch,         \* the batch the owner is building
    accepted,      \* the durable records of the batch being finished
    nextTs,        \* CommitSequencer.next_commit_ts
    journal,       \* the commit records that are durable
    journalDown,   \* the appender has failed and refuses further batches
    poisoned,      \* CommitRuntimeInner.poison is set (and admission closed)
    durable,       \* CommitFrontier.durable_commit_id
    published,     \* CommitFrontier.published_commit_id
    blockedTs,     \* first_blocked_commit_ts of the publish failure, 0 if none
    finQueue,      \* batches scheduled for the finalize worker
    finPc,         \* where the finalize worker is
    finBatch,      \* what is left of the batch it works on
    finPoison,     \* FinalizeStageState.poison is set
    registered,    \* RegistrationGate.registered_commit_ts
    applyQueue,    \* requests submitted to the apply runtime
    applyPc,       \* where the apply worker is
    applyDown,     \* the apply runtime is poisoned
    visible,       \* transactions whose effects are applied and finalized
    reservation    \* the finalize reservation of each transaction

drainVars    == <<dpc, source, local, batch, accepted>>
seqVars      == <<nextTs, journal, journalDown>>
frontierVars == <<durable, published, blockedTs>>
finVars      == <<finQueue, finPc, finBatch, finPoison, registered>>
applyVars    == <<applyQueue, applyPc, applyDown, visible>>
threadVars   == <<pc, wakeTasks>>

vars == <<queueVars, completionVars, drainVars, seqVars, frontierVars,
          finVars, applyVars, threadVars, poisoned, reservation>>

(* A durable commit: CommitRecord with its timestamp (DurableCommitHandle). *)
Record == [txn : Txns, ts : Nat]

MaxOf(a, b) == IF a < b THEN b ELSE a

Init ==
    /\ QueueInit
    /\ CompletionInit
    /\ pc = [th \in Threads |-> IF th \in Txns THEN "start" ELSE "idle"]
    /\ wakeTasks = 0
    /\ dpc = "idle" /\ source = "buffer"
    /\ local = <<>> /\ batch = <<>> /\ accepted = {}
    /\ nextTs = 1 /\ journal = {} /\ journalDown = FALSE
    /\ poisoned = FALSE
    /\ durable = 0 /\ published = 0 /\ blockedTs = 0
    /\ finQueue = <<>> /\ finPc = "pop" /\ finBatch = {}
    /\ finPoison = FALSE /\ registered = 0
    /\ applyQueue = <<>> /\ applyPc = "idle" /\ applyDown = FALSE
    /\ visible = {}
    /\ reservation = [t \in Txns |-> "none"]

----------------------------------------------------------------------------
(* Shared effects. *)

(* poison(): admission closes, the first poison is kept, and every commit   *)
(* still on the queue is rejected.  extra: entries pushed back on the queue *)
(* by the same handler just before it poisons.                              *)
PoisonRuntime ==
    /\ poisoned' = TRUE
    /\ CloseAndDrainPending

RejectPending(sl, extra) == SetState(sl, PendingTxns \cup extra, "rejected")

(* CommitDrainWakeHandle::signal.  Every task runs the same drain, so the   *)
(* bound only limits how many further attempts are outstanding.             *)
WakePool ==
    wakeTasks' = IF wakeTasks < MaxWakeTasks THEN wakeTasks + 1 ELSE wakeTasks

(* Mutant: the latest failure replaces an earlier one. *)
MarkPublishFailed_Latest(ts) == blockedTs' = ts

(* mark_publish_failed keeps the smallest blocked timestamp. *)
MarkPublishFailed(ts) ==
    blockedTs' = IF blockedTs # 0 /\ blockedTs <= ts THEN blockedTs ELSE ts

----------------------------------------------------------------------------
(* Submitters: commit_blocking = submit_commit; drain_inline; wait.         *)

(* ensure_healthy, then allocate the completion slot. *)
SubmitCommit(t) ==
    /\ pc[t] = "start"
    /\ \/ /\ poisoned
          /\ NotAdmitted(t)
          /\ pc' = [pc EXCEPT ![t] = "done"]
          /\ UNCHANGED slot
       \/ /\ ~poisoned
          /\ slot' = Allocate(slot, t)
          /\ pc' = [pc EXCEPT ![t] = "enqueue"]
          /\ UNCHANGED outcome
    /\ UNCHANGED <<queueVars, drainVars, seqVars, frontierVars, finVars,
                   applyVars, wakeTasks, poisoned, reservation>>

(* queue.enqueue; on refusal the error is returned and the slot stays. *)
EnqueueJob(t) ==
    /\ pc[t] = "enqueue"
    /\ \/ /\ Enqueue(t)
          /\ pc' = [pc EXCEPT ![t] = "signal"]
          /\ UNCHANGED outcome
       \/ /\ ~EnqueueAdmits
          /\ NotAdmitted(t)
          /\ pc' = [pc EXCEPT ![t] = "done"]
          /\ UNCHANGED entries
    /\ UNCHANGED <<deferred, pendingFence, closed, drainOwner, slot, drainVars,
                   seqVars, frontierVars, finVars, applyVars, wakeTasks,
                   poisoned, reservation>>

(* signal_drain_needed: drain inline when nobody owns the drain, otherwise *)
(* leave a task for the wake pool.                                         *)
SignalDrain(t) ==
    /\ pc[t] = "signal"
    /\ \/ /\ drainOwner = NoThread
          /\ pc' = [pc EXCEPT ![t] = "drain1"]
          /\ UNCHANGED wakeTasks
       \/ /\ drainOwner # NoThread
          /\ WakePool
          /\ pc' = [pc EXCEPT ![t] = "drain2"]
    /\ UNCHANGED <<queueVars, completionVars, drainVars, seqVars, frontierVars,
                   finVars, applyVars, poisoned, reservation>>

(* Mutant: a worker runs without having received a task. *)
TakeWakeTask_Spurious(w) ==
    /\ pc[w] = "idle"
    /\ wakeTasks' = wakeTasks - 1
    /\ pc' = [pc EXCEPT ![w] = "drain"]
    /\ UNCHANGED <<queueVars, completionVars, drainVars, seqVars, frontierVars,
                   finVars, applyVars, poisoned, reservation>>

(* A wake worker takes a task and calls drain_inline_with_batch_budget. *)
TakeWakeTask(w) ==
    /\ pc[w] = "idle"
    /\ wakeTasks > 0
    /\ wakeTasks' = wakeTasks - 1
    /\ pc' = [pc EXCEPT ![w] = "drain"]
    /\ UNCHANGED <<queueVars, completionVars, drainVars, seqVars, frontierVars,
                   finVars, applyVars, poisoned, reservation>>

(* drain_inline is called twice by a submitter, once per task by a worker. *)
AfterDrain(at) ==
    CASE at = "drain1" -> "drain2"
      [] at = "drain2" -> "wait"
      [] OTHER         -> "idle"

(* drain_inline: become the owner, or give up at once if there is one. *)
DrainInline(th) ==
    /\ pc[th] \in {"drain1", "drain2", "drain"}
    /\ drainOwner # th
    /\ \/ /\ TryAcquireDrainOwner(th)
          /\ dpc' = "top"
          /\ UNCHANGED pc
       \/ /\ drainOwner # NoThread
          /\ pc' = [pc EXCEPT ![th] = AfterDrain(pc[th])]
          /\ UNCHANGED <<drainOwner, dpc>>
    /\ UNCHANGED <<entries, deferred, pendingFence, closed, completionVars,
                   source, local, batch, accepted, seqVars, frontierVars,
                   finVars, applyVars, wakeTasks, poisoned, reservation>>

WaitCompletion(t) ==
    /\ pc[t] = "wait"
    /\ Wait(t)
    /\ pc' = [pc EXCEPT ![t] = "done"]
    /\ UNCHANGED <<queueVars, drainVars, seqVars, frontierVars, finVars,
                   applyVars, wakeTasks, poisoned, reservation>>

----------------------------------------------------------------------------
(* The drain owner. *)

(* Head of the drain_owned loop: stop when unhealthy, otherwise take a      *)
(* parked serializable commit whose fence has been reached.                 *)
DrainTop ==
    /\ dpc = "top"
    /\ \/ /\ poisoned
          /\ dpc' = "release"
          /\ UNCHANGED <<source, local, pendingFence>>
       \/ /\ ~poisoned
          /\ TakeReadyPendingFence(registered, local')
          /\ dpc' = "front"
          /\ source' = "fence"
       \/ /\ ~poisoned
          /\ ~PendingFenceReady(registered)
          /\ dpc' = "buffer"
          /\ UNCHANGED <<source, local, pendingFence>>
    /\ UNCHANGED <<entries, deferred, closed, drainOwner, completionVars, batch,
                   accepted, seqVars, frontierVars, finVars, applyVars,
                   threadVars, poisoned, reservation>>

DrainTakeBuffer ==
    /\ dpc = "buffer"
    /\ TakeLocalBuffer(local')
    /\ source' = "buffer"
    /\ dpc' = IF local' = <<>> THEN "release" ELSE "front"
    /\ UNCHANGED <<pendingFence, closed, drainOwner, completionVars, batch,
                   accepted, seqVars, frontierVars, finVars, applyVars,
                   threadVars, poisoned, reservation>>

(* predecessor_commit_ts *)
PredecessorTs == nextTs - 1

(* Mutant: off by one, the direct predecessor need not be registered. *)
ShouldBlockOnRegistration_OffByOne(t) ==
    /\ t \in Serializable
    /\ PredecessorTs > 0
    /\ registered + 1 < PredecessorTs

(* should_block_on_registration: a serializable commit must not be fenced   *)
(* before every earlier commit has been registered.                         *)
ShouldBlockOnRegistration(t) ==
    /\ t \in Serializable
    /\ PredecessorTs > 0
    /\ registered < PredecessorTs

(* check_drain: too many durable commits are not yet published. *)
DrainBackpressure == durable - published >= MaxUnpublished

(* Must a snapshot commit stay behind the parked serializable ones? *)
MustStayBehindFence(t, aged) ==
    /\ IsSnapshotOnly(t)
    /\ HasPendingFence
    /\ \/ BypassConflictsWithHead(t)
       \/ ~CanBypassSnapshot(pendingFence, aged)

(* record_snapshot_bypass when t overtakes a parked commit. *)
ChargeBypass(t) ==
    IF IsSnapshotOnly(t) /\ HasPendingFence
    THEN RecordSnapshotBypass
    ELSE UNCHANGED pendingFence

(* Where the owner may go once b is the batch and rest is left: on growing  *)
(* unless the batch is full, nothing is left, or the target byte size has   *)
(* been reached (record sizes are abstract, so that may always be).         *)
GrowOrAppend(b, rest) ==
    IF Len(b) < TargetBatch /\ rest # <<>> THEN {"grow", "append"} ELSE {"append"}

(* process_entries, for the entry at the front of the local buffer. *)
ProcessRejected ==
    /\ DrainBackpressure
    /\ slot' = SetState(slot, {Head(local)}, "rejected")
    /\ local' = Tail(local)
    /\ UNCHANGED <<dpc, batch, deferred, pendingFence>>

ProcessBlocked ==
    /\ ~DrainBackpressure
    /\ ShouldBlockOnRegistration(Head(local))
    /\ BlockOnFence(Head(local), PredecessorTs)
    /\ \E aged \in BOOLEAN :
          IF CanBypassSnapshot(pendingFence', aged)
          THEN /\ local' = Tail(local)
               /\ UNCHANGED <<dpc, deferred>>
          ELSE /\ DeferEntries(Tail(local))
               /\ local' = <<>>
               /\ dpc' = "turn"
    /\ UNCHANGED <<slot, batch>>

ProcessKeptBehind ==
    /\ ~DrainBackpressure
    /\ ~ShouldBlockOnRegistration(Head(local))
    /\ \E aged \in BOOLEAN : MustStayBehindFence(Head(local), aged)
    /\ DeferEntries(local)
    /\ local' = <<>>
    /\ dpc' = "turn"
    /\ UNCHANGED <<slot, batch, pendingFence>>

ProcessStartsBatch ==
    /\ ~DrainBackpressure
    /\ ~ShouldBlockOnRegistration(Head(local))
    /\ \E aged \in BOOLEAN : ~MustStayBehindFence(Head(local), aged)
    /\ ChargeBypass(Head(local))
    /\ batch' = <<Head(local)>>
    /\ local' = Tail(local)
    /\ dpc' \in GrowOrAppend(batch', local')
    /\ UNCHANGED <<slot, deferred>>

ProcessDone ==
    /\ local = <<>>
    /\ dpc' = "turn"
    /\ UNCHANGED <<local, batch, slot, deferred, pendingFence>>

ProcessEntries ==
    /\ dpc = "front"
    /\ \/ ProcessDone
       \/ /\ local # <<>>
          /\ \/ ProcessRejected
             \/ ProcessBlocked
             \/ ProcessKeptBehind
             \/ ProcessStartsBatch
    /\ UNCHANGED <<entries, closed, drainOwner, outcome, source, accepted,
                   seqVars, frontierVars, finVars, applyVars, threadVars,
                   poisoned, reservation>>

(* The loop of process_entries that adds candidates to the batch. *)
GrowBlocked ==
    /\ ShouldBlockOnRegistration(Head(local))
    /\ BlockOnFence(Head(local), PredecessorTs)
    /\ local' = Tail(local)
    /\ dpc' = "append"
    /\ UNCHANGED batch

GrowStops ==
    /\ ~ShouldBlockOnRegistration(Head(local))
    /\ \E aged \in BOOLEAN : MustStayBehindFence(Head(local), aged)
    /\ dpc' = "append"
    /\ UNCHANGED <<batch, local, pendingFence>>

GrowTakes ==
    /\ ~ShouldBlockOnRegistration(Head(local))
    /\ \E aged \in BOOLEAN : ~MustStayBehindFence(Head(local), aged)
    /\ ChargeBypass(Head(local))
    /\ batch' = Append(batch, Head(local))
    /\ local' = Tail(local)
    /\ dpc' \in GrowOrAppend(batch', local')

GrowBatch ==
    /\ dpc = "grow"
    /\ GrowBlocked \/ GrowStops \/ GrowTakes
    /\ UNCHANGED <<entries, deferred, closed, drainOwner, completionVars, source,
                   accepted, seqVars, frontierVars, finVars, applyVars,
                   threadVars, poisoned, reservation>>

----------------------------------------------------------------------------
(* sequence_append_schedule. *)

(* sequence_ordered_batch: f lists, in order, the positions of b among the  *)
(* first cut that are accepted.  A position is rejected when the final      *)
(* fence refuses it (fenced: the SSI verdicts, for serializable commits     *)
(* only) or when its write set conflicts with one accepted before it.  The  *)
(* positions after cut are deferred: the batch or time limit was reached,   *)
(* which is only looked at once something has been accepted.                *)
IsSequencing(b, fenced, cut, f) ==
    /\ \A m, n \in 1 .. Len(f) : m < n => f[m] < f[n]
    /\ \A i \in 1 .. cut :
          (\E n \in 1 .. Len(f) : f[n] = i) <=>
             /\ b[i] \notin fenced
             /\ \A n \in 1 .. Len(f) : f[n] < i => ~ConflictsWith(b[f[n]], b[i])
    /\ cut < Len(b) => f # <<>>

(* The accepted commits take the timestamps from next_commit_ts on. *)
SequencedRecords(b, f) ==
    {[txn |-> b[f[n]], ts |-> nextTs + n - 1] : n \in 1 .. Len(f)}

RejectedTxns(b, cut, f) ==
    {b[i] : i \in {j \in 1 .. cut : \A n \in 1 .. Len(f) : f[n] # j}}

DeferredSuffix(b, cut) == SubSeq(b, cut + 1, Len(b))

(* append_durable_commit_batch.  Without a WAL every record is reported at  *)
(* LSN 0, which validate_append_results accepts for one record only.        *)
AppendSucceeds(n) == ~journalDown /\ (HasWal \/ n = 1)
AppendViolatesProtocol(n) == ~HasWal /\ n > 1
AppendFails == HasWal /\ (journalDown \/ "append" \in Faults)

(* No commit of the batch was accepted: nothing is appended. *)
NothingAccepted(rej, def) ==
    /\ DeferEntries(def)
    /\ slot' = SetState(slot, rej, "rejected")
    /\ dpc' = "front"
    /\ UNCHANGED <<entries, pendingFence, closed, accepted, seqVars, poisoned,
                   reservation>>

(* The batch is durable; the sequencer's clock moves past it. *)
BatchDurable(recs, n, rej, def) ==
    /\ AppendSucceeds(n)
    /\ journal' = journal \cup recs
    /\ nextTs' = nextTs + n
    /\ accepted' = recs
    /\ reservation' = [t \in Txns |-> IF \E r \in recs : r.txn = t
                                      THEN "held" ELSE reservation[t]]
    /\ DeferEntries(def)
    /\ slot' = SetState(slot, rej, "rejected")
    /\ dpc' = "mark"
    /\ UNCHANGED <<entries, pendingFence, closed, journalDown, poisoned>>

(* handle_sequence_or_append_error, durable_committed = false: reservations *)
(* are released, the transactions rolled back; the clock does not move.  A  *)
(* rollback that fails poisons the runtime.                                 *)
BatchAppendFailed(recs, rej, def) ==
    /\ AppendFails
    /\ journalDown' = TRUE
    /\ reservation' = [t \in Txns |-> IF \E r \in recs : r.txn = t
                                      THEN "released" ELSE reservation[t]]
    /\ dpc' = "front"
    /\ LET sl == SetState(SetState(slot, rej, "rejected"),
                          {r.txn : r \in recs}, "failed_append")
       IN  \/ /\ slot' = sl
              /\ DeferEntries(def)
              /\ UNCHANGED <<entries, pendingFence, closed, poisoned>>
           \/ /\ "rollback" \in Faults
              /\ slot' = RejectPending(sl, Elems(def))
              /\ PoisonRuntime
    /\ UNCHANGED <<accepted, nextTs, journal>>

(* durable_committed = true: the outcome is ambiguous, the clock moves, the *)
(* runtime is poisoned before any waiter is told.                           *)
BatchAmbiguous(recs, n, rej, def) ==
    /\ AppendViolatesProtocol(n)
    /\ journal' = journal \cup recs
    /\ nextTs' = nextTs + n
    /\ reservation' = [t \in Txns |-> IF \E r \in recs : r.txn = t
                                      THEN "released" ELSE reservation[t]]
    /\ slot' = SetState(RejectPending(SetState(slot, rej, "rejected"), Elems(def)),
                        {r.txn : r \in recs}, "ambiguous")
    /\ PoisonRuntime
    /\ dpc' = "front"
    /\ UNCHANGED <<accepted, journalDown>>

AppendBatch(cut, k, f) ==
    LET recs == SequencedRecords(batch, f)
        rej  == RejectedTxns(batch, cut, f)
        def  == DeferredSuffix(batch, cut)
    IN  \/ k = 0 /\ NothingAccepted(rej, def)
        \/ k > 0 /\ BatchDurable(recs, k, rej, def)
        \/ k > 0 /\ BatchAppendFailed(recs, rej, def)
        \/ k > 0 /\ BatchAmbiguous(recs, k, rej, def)

SequenceAppend ==
    /\ dpc = "append"
    /\ \E fenced \in SUBSET (Elems(batch) \cap Serializable),
          cut \in 1 .. Len(batch) :
       \E k \in 0 .. cut :
       \E f \in [1 .. k -> 1 .. cut] :
          IsSequencing(batch, fenced, cut, f) /\ AppendBatch(cut, k, f)
    /\ batch' = <<>>
    /\ UNCHANGED <<drainOwner, outcome, source, local, frontierVars, finVars,
                   applyVars, threadVars>>

(* handle_append_success: frontier.mark_durable and completions.mark_durable *)
(* for every record, before the batch can reach the finalize worker.         *)
MarkBatchDurable ==
    /\ dpc = "mark"
    /\ durable' = nextTs - 1
    /\ slot' = MarkDurable(slot, accepted)
    /\ dpc' = "schedule"
    /\ UNCHANGED <<queueVars, outcome, source, local, batch, accepted, seqVars,
                   published, blockedTs, finVars, applyVars, threadVars,
                   poisoned, reservation>>

(* finalize_stage.schedule waits while the finalize queue is full; on a     *)
(* poisoned stage the jobs are dropped and their waiters told ambiguous.    *)
ScheduleBatch ==
    /\ dpc = "schedule"
    /\ \/ /\ ~finPoison
          /\ Len(finQueue) < FinalizeDepth
          /\ finQueue' = Append(finQueue, accepted)
          /\ dpc' = "front"
          /\ UNCHANGED <<slot, reservation>>
       \/ /\ finPoison
          /\ slot' = SetState(slot, {r.txn : r \in accepted}, "ambiguous")
          /\ reservation' = [t \in Txns |-> IF \E r \in accepted : r.txn = t
                                            THEN "dropped" ELSE reservation[t]]
          /\ dpc' = "poison"
          /\ UNCHANGED finQueue
    /\ accepted' = {}
    /\ UNCHANGED <<queueVars, outcome, source, local, batch, seqVars,
                   frontierVars, finPc, finBatch, finPoison, registered,
                   applyVars, threadVars, poisoned>>

(* poison_from_finalize_schedule, after the waiters have been told. *)
PoisonAfterSchedule ==
    /\ dpc = "poison"
    /\ slot' = RejectPending(slot, {})
    /\ PoisonRuntime
    /\ dpc' = "front"
    /\ UNCHANGED <<drainOwner, outcome, source, local, batch, accepted, seqVars,
                   frontierVars, finVars, applyVars, threadVars, reservation>>

(* The end of a turn of drain_owned: go round again, or, with work left and *)
(* the batch budget (wake workers) or the time budget used up, hand over to *)
(* the wake pool.                                                           *)
DrainTurn ==
    /\ dpc = "turn"
    /\ \/ dpc' = "top"
       \/ /\ HasReadyWork
          /\ source = "buffer" \/ drainOwner \in Wakers
          /\ dpc' = "yield"
    /\ UNCHANGED <<queueVars, completionVars, source, local, batch, accepted,
                   seqVars, frontierVars, finVars, applyVars, threadVars,
                   poisoned, reservation>>

(* active_owner.release(), and signal_drain_continuation after a yield. *)
DrainRelease ==
    /\ dpc \in {"release", "yield"}
    /\ ReleaseDrainOwner
    /\ pc' = [pc EXCEPT ![drainOwner] = AfterDrain(pc[drainOwner])]
    /\ IF dpc = "yield" THEN WakePool ELSE UNCHANGED wakeTasks
    /\ dpc' = "idle"
    /\ source' = "buffer"
    /\ UNCHANGED <<entries, deferred, pendingFence, closed, completionVars,
                   local, batch, accepted, seqVars, frontierVars,
                   finVars, applyVars, poisoned, reservation>>

----------------------------------------------------------------------------
(* The finalize worker (commit/finalize/stage.rs), one job at a time in     *)
(* timestamp order.                                                         *)

(* Mutant: the batch is worked off from its end. *)
IsCurrent_FromTheEnd(r) == r \in finBatch /\ \A q \in finBatch : r.ts >= q.ts

(* The job process_finalize_batch works on: finBatch is popped in order. *)
IsCurrent(r) == r \in finBatch /\ \A q \in finBatch : r.ts <= q.ts

FinalizePop ==
    /\ finPc = "pop"
    /\ finQueue # <<>>
    /\ finBatch' = Head(finQueue)
    /\ finQueue' = Tail(finQueue)
    /\ finPc' = "phase1"
    /\ UNCHANGED <<queueVars, completionVars, drainVars, seqVars, frontierVars,
                   finPoison, registered, applyVars, threadVars, poisoned,
                   reservation>>

(* finalize_reservation.apply() and the lock releases.  A panic leaves the  *)
(* reservation consumed but its registration possibly not done.             *)
FinalizePhase1 ==
    /\ finPc = "phase1"
    /\ \E r \in finBatch :
          /\ IsCurrent(r)
          /\ \/ /\ reservation' = [reservation EXCEPT ![r.txn] = "applied"]
                /\ finPc' = "register"
             \/ /\ "phase1" \in Faults
                /\ reservation' = [reservation EXCEPT ![r.txn] = "panicked"]
                /\ finPc' = "fail"
    /\ UNCHANGED <<queueVars, completionVars, drainVars, seqVars, frontierVars,
                   finQueue, finBatch, finPoison, registered, applyVars,
                   threadVars, poisoned>>

(* gate.mark_registered, then the on_registered hook wakes the pool. *)
FinalizeRegister ==
    /\ finPc = "register"
    /\ \E r \in finBatch : IsCurrent(r) /\ registered' = MaxOf(registered, r.ts)
    /\ WakePool
    /\ finPc' = "submit"
    /\ UNCHANGED <<queueVars, completionVars, drainVars, seqVars, frontierVars,
                   finQueue, finBatch, finPoison, applyVars, pc, poisoned,
                   reservation>>

(* build_apply_request and submit_async_with_completion. *)
FinalizeSubmit ==
    /\ finPc = "submit"
    /\ \/ /\ \E r \in finBatch : IsCurrent(r) /\ applyQueue' = Append(applyQueue, r)
          /\ finPc' = "hook"
       \/ /\ "build" \in Faults
          /\ finPc' = "fail"
          /\ UNCHANGED applyQueue
    /\ UNCHANGED <<queueVars, completionVars, drainVars, seqVars, frontierVars,
                   finQueue, finBatch, finPoison, registered, applyPc, applyDown,
                   visible, threadVars, poisoned, reservation>>

(* The on_submission hook; the apply worker may already have completed. *)
FinalizeSubmitted ==
    /\ finPc = "hook"
    /\ \E r \in finBatch :
          /\ IsCurrent(r)
          /\ slot' = MarkPublishSubmitted(slot, r.ts)
          /\ finBatch' = finBatch \ {r}
          /\ finPc' = IF finBatch = {r} THEN "pop" ELSE "phase1"
    /\ UNCHANGED <<queueVars, outcome, drainVars, seqVars, frontierVars, finQueue,
                   finPoison, registered, applyVars, threadVars, poisoned,
                   reservation>>

(* Mutant: the stage is not poisoned before the waiters are told. *)
FinalizeFail_NoPoison ==
    /\ finPc = "fail"
    /\ \E r \in finBatch :
          /\ IsCurrent(r)
          /\ reservation' = [t \in Txns |->
                IF \E q \in finBatch \ {r} : q.txn = t
                THEN "released" ELSE reservation[t]]
    /\ finPc' = "fail_hook"
    /\ UNCHANGED <<queueVars, completionVars, drainVars, seqVars, frontierVars,
                   finQueue, finBatch, finPoison, registered, applyVars, threadVars,
                   poisoned>>

(* run_finalize_worker on a failure.  First the reservations of the rest of *)
(* the batch are released and the stage is poisoned ...                     *)
FinalizeFail ==
    /\ finPc = "fail"
    /\ finPoison' = TRUE
    /\ \E r \in finBatch :
          /\ IsCurrent(r)
          /\ reservation' = [t \in Txns |->
                IF \E q \in finBatch \ {r} : q.txn = t
                THEN "released" ELSE reservation[t]]
    /\ finPc' = "fail_hook"
    /\ UNCHANGED <<queueVars, completionVars, drainVars, seqVars, frontierVars,
                   finQueue, finBatch, registered, applyVars, threadVars, poisoned>>

(* ... then on_stage_error poisons the runtime and tells the current waiter ... *)
FinalizeStageError ==
    /\ finPc = "fail_hook"
    /\ \E r \in finBatch :
          /\ IsCurrent(r)
          /\ MarkPublishFailed(r.ts)
          /\ PoisonRuntime
          /\ slot' = SetStateForCommitTs(RejectPending(slot, {}), r.ts, "ambiguous")
    /\ finPc' = "fail_drain"
    /\ UNCHANGED <<drainOwner, outcome, drainVars, seqVars, durable, published,
                   finQueue, finBatch, finPoison, registered, applyVars,
                   threadVars, reservation>>

(* ... and last the waiters of the batch and of every queued batch. *)
QueuedForFinalize == UNION Elems(finQueue)

(* Mutant: the batches still queued are forgotten. *)
FinalizeDrain_CurrentOnly ==
    /\ finPc = "fail_drain"
    /\ slot' = SetState(slot, {r.txn : r \in finBatch}, "ambiguous")
    /\ finBatch' = {}
    /\ finQueue' = <<>>
    /\ finPc' = "stopped"
    /\ UNCHANGED <<queueVars, outcome, drainVars, seqVars, frontierVars, finPoison,
                   registered, applyVars, threadVars, poisoned, reservation>>

FinalizeDrain ==
    /\ finPc = "fail_drain"
    /\ slot' = SetState(slot, {r.txn : r \in finBatch \cup QueuedForFinalize},
                        "ambiguous")
    /\ reservation' = [t \in Txns |->
          IF \E r \in QueuedForFinalize : r.txn = t
          THEN "released" ELSE reservation[t]]
    /\ finBatch' = {}
    /\ finQueue' = <<>>
    /\ finPc' = "stopped"
    /\ UNCHANGED <<queueVars, outcome, drainVars, seqVars, frontierVars, finPoison,
                   registered, applyVars, threadVars, poisoned>>

----------------------------------------------------------------------------
(* The apply worker, as the commit pipeline sees it: requests are applied   *)
(* in submission order, one at a time, and once one has failed all later    *)
(* ones fail.  JournalApply models it in detail.                            *)

(* Mutant: a request behind a failed one is applied all the same. *)
ApplyPublish_PastFailure ==
    /\ applyPc = "idle"
    /\ applyQueue # <<>>
    /\ visible' = visible \cup {Head(applyQueue).txn}
    /\ published' = MaxOf(published, Head(applyQueue).ts)
    /\ applyPc' = "complete"
    /\ UNCHANGED <<queueVars, completionVars, drainVars, seqVars, durable,
                   blockedTs, finVars, applyQueue, applyDown, threadVars,
                   poisoned, reservation>>

(* Apply, then the on_published hook: post-apply finalize, mark_published. *)
ApplyPublish ==
    /\ applyPc = "idle"
    /\ applyQueue # <<>>
    /\ ~applyDown
    /\ visible' = visible \cup {Head(applyQueue).txn}
    /\ published' = MaxOf(published, Head(applyQueue).ts)
    /\ applyPc' = "complete"
    /\ UNCHANGED <<queueVars, completionVars, drainVars, seqVars, durable,
                   blockedTs, finVars, applyQueue, applyDown, threadVars,
                   poisoned, reservation>>

ApplyFail ==
    /\ applyPc = "idle"
    /\ applyQueue # <<>>
    /\ applyDown \/ "apply" \in Faults
    /\ applyDown' = TRUE
    /\ applyPc' = "failed"
    /\ UNCHANGED <<queueVars, completionVars, drainVars, seqVars, frontierVars,
                   finVars, applyQueue, visible, threadVars, poisoned, reservation>>

(* on_complete(Ok) *)
ApplyComplete ==
    /\ applyPc = "complete"
    /\ slot' = MarkPublished(slot, Head(applyQueue).ts)
    /\ applyQueue' = Tail(applyQueue)
    /\ applyPc' = "idle"
    /\ UNCHANGED <<queueVars, outcome, drainVars, seqVars, frontierVars, finVars,
                   applyDown, visible, threadVars, poisoned, reservation>>

(* on_complete(Err): the frontier is blocked and the runtime poisoned       *)
(* before the waiter is told.                                               *)
ApplyCompleteFailed ==
    /\ applyPc = "failed"
    /\ MarkPublishFailed(Head(applyQueue).ts)
    /\ PoisonRuntime
    /\ slot' = SetStateForCommitTs(RejectPending(slot, {}), Head(applyQueue).ts,
                                   "failed_apply")
    /\ applyQueue' = Tail(applyQueue)
    /\ applyPc' = "idle"
    /\ UNCHANGED <<drainOwner, outcome, drainVars, seqVars, durable, published,
                   finVars, applyDown, visible, threadVars, reservation>>

----------------------------------------------------------------------------
Submitter(t) ==
    SubmitCommit(t) \/ EnqueueJob(t) \/ SignalDrain(t) \/ WaitCompletion(t)

DrainOwner ==
    \/ DrainTop \/ DrainTakeBuffer \/ ProcessEntries \/ GrowBatch
    \/ SequenceAppend \/ MarkBatchDurable \/ ScheduleBatch
    \/ PoisonAfterSchedule \/ DrainTurn \/ DrainRelease

FinalizeWorker ==
    \/ FinalizePop \/ FinalizePhase1 \/ FinalizeRegister \/ FinalizeSubmit
    \/ FinalizeSubmitted \/ FinalizeFail \/ FinalizeStageError \/ FinalizeDrain

ApplyWorker ==
    ApplyPublish \/ ApplyFail \/ ApplyComplete \/ ApplyCompleteFailed

Next ==
    \/ \E t \in Txns : Submitter(t)
    \/ \E w \in Wakers : TakeWakeTask(w)
    \/ \E th \in Threads : DrainInline(th)
    \/ DrainOwner
    \/ FinalizeWorker
    \/ ApplyWorker

Spec == Init /\ [][Next]_vars

(* Every thread of the pipeline keeps running: a submitter that has called  *)
(* commit_blocking (calling it is its own choice), the wake pool, the drain *)
(* owner, the finalize worker and the apply worker.                         *)
Fairness ==
    /\ \A t \in Txns : WF_vars(EnqueueJob(t) \/ SignalDrain(t) \/ WaitCompletion(t))
    /\ \A w \in Wakers : WF_vars(TakeWakeTask(w))
    /\ \A th \in Threads : WF_vars(DrainInline(th))
    /\ WF_vars(DrainOwner)
    /\ WF_vars(FinalizeWorker)
    /\ WF_vars(ApplyWorker)

FairSpec == Spec /\ Fairness

----------------------------------------------------------------------------
(* Properties. *)

DrainPcs == {"idle", "top", "buffer", "front", "grow", "append", "mark",
             "schedule", "poison", "turn", "release", "yield"}

FinPcs == {"pop", "phase1", "register", "submit", "hook", "fail", "fail_hook",
           "fail_drain", "stopped"}

ThreadPcs == {"start", "enqueue", "signal", "drain1", "drain2", "wait", "done",
              "idle", "drain"}

ThreadTypeOK ==
    /\ pc \in [Threads -> ThreadPcs]
    /\ wakeTasks \in Nat

DrainTypeOK ==
    /\ dpc \in DrainPcs
    /\ source \in {"fence", "buffer"}
    /\ local \in Seq(Txns)
    /\ batch \in Seq(Txns)
    /\ accepted \in SUBSET Record
    /\ dpc = "grow" => local # <<>>

SequencerTypeOK ==
    /\ nextTs \in Nat \ {0}
    /\ journal \in SUBSET Record

FrontierTypeOK == durable \in Nat /\ published \in Nat /\ blockedTs \in Nat

FinalizeTypeOK ==
    /\ finQueue \in Seq(SUBSET Record)
    /\ finPc \in FinPcs
    /\ finBatch \in SUBSET Record
    /\ registered \in Nat

ApplyTypeOK ==
    /\ applyQueue \in Seq(Record)
    /\ applyPc \in {"idle", "complete", "failed"}
    /\ visible \in SUBSET Txns
    /\ applyPc # "idle" => applyQueue # <<>>

FlagsTypeOK ==
    /\ closed \in BOOLEAN /\ poisoned \in BOOLEAN
    /\ journalDown \in BOOLEAN /\ finPoison \in BOOLEAN /\ applyDown \in BOOLEAN

ReservationStates == {"none", "held", "applied", "panicked", "released", "dropped"}

(* Type invariant of the runtime. *)
TypeOK ==
    /\ QueueTypeOK
    /\ CompletionTypeOK
    /\ ThreadTypeOK
    /\ DrainTypeOK
    /\ SequencerTypeOK
    /\ FrontierTypeOK
    /\ FinalizeTypeOK
    /\ ApplyTypeOK
    /\ FlagsTypeOK
    /\ reservation \in [Txns -> ReservationStates]

JournalTxns == {r.txn : r \in journal}

(* Commit timestamps: dense, and each given to one commit only. *)
JournalDense ==
    /\ \A r \in journal : r.ts \in 1 .. nextTs - 1
    /\ \A n \in 1 .. nextTs - 1 : \E r \in journal : r.ts = n
    /\ \A r, q \in journal : r.ts = q.ts => r = q

(* The commits between the drain owner and publication. *)
InFlight == QueuedForFinalize \cup finBatch \cup Elems(applyQueue)

(* What has left the drain owner is in the journal and below the durable    *)
(* frontier, which handle_append_success moves before it schedules.         *)
ScheduledIsDurable ==
    /\ accepted \subseteq journal
    /\ dpc = "schedule" => durable = nextTs - 1
    /\ \A r \in InFlight : r \in journal /\ r.ts <= durable

(* A completion slot resolves a timestamp to the commit that owns it, and   *)
(* says "published" only of a commit readers can see, although the durable, *)
(* submitted and published events reach it from three threads.              *)
SlotsTellTheTruth ==
    /\ \A t \in Txns :
          /\ slot[t].ts # 0 => [txn |-> t, ts |-> slot[t].ts] \in journal
          /\ slot[t].st \in {"durable_done", "published"} => t \in visible
          /\ outcome[t] = "published" => t \in visible
    /\ applyPc = "complete" => Head(applyQueue).txn \in visible

(* Readers see durable commits only, and the frontiers are ordered (so the  *)
(* backpressure difference durable - published never underflows).           *)
FrontiersOrdered ==
    /\ published <= durable /\ durable < nextTs
    /\ \A t \in visible : \E r \in journal : r.txn = t /\ r.ts <= published

(* The durable order, the frontiers, the completion slots and the readers'  *)
(* view agree, whatever the interleaving of drain owner, finalize worker    *)
(* and apply worker and whatever fails: the inductive core of the runtime.  *)
PipelineInv ==
    JournalDense /\ ScheduledIsDurable /\ SlotsTellTheTruth /\ FrontiersOrdered

(* A serializable commit is sequenced (and meets the final SSI fence) only  *)
(* when the conflict information of every earlier durable commit has been   *)
(* registered by the finalize worker: should_block_on_registration and the  *)
(* fence queue keep it back until then, whatever the batches around it do.  *)
SerializableSeesRegistered ==
    dpc = "append" /\ Elems(batch) \cap Serializable # {} =>
        \A r \in journal : reservation[r.txn] = "applied"

(* The registration gate is a prefix: it never announces a timestamp while  *)
(* an earlier commit has not applied its reservation (mark_registered is a  *)
(* maximum, so only the order of the finalize worker ensures it).           *)
RegisteredIsPrefix ==
    \A r \in journal : r.ts <= registered => reservation[r.txn] = "applied"

(* A waiter that has been told "ambiguous" also finds the finalize stage    *)
(* closed: run_finalize_worker poisons the stage before it wakes anyone.    *)
(* Only the protocol violation of a journal without WAL is reported from    *)
(* the drain owner, which poisons the runtime first.                        *)
AmbiguousSeesPoison ==
    \A t \in Txns :
        slot[t].st = "ambiguous" \/ outcome[t] = "ambiguous" =>
            finPoison \/ (~HasWal /\ poisoned)

(* A DurableOnlyAsync commit is acknowledged only once its publication has  *)
(* been submitted: it is visible, or queued for apply, or the frontier      *)
(* reports a publish failure at or below its timestamp (the session's async *)
(* commit floor would otherwise wait for it for ever).                      *)
AckedIsOnItsWay ==
    \A r \in journal :
        outcome[r.txn] = "acked" =>
            \/ r.txn \in visible
            \/ r \in {applyQueue[i] : i \in 1 .. Len(applyQueue)}
            \/ blockedTs \in 1 .. r.ts

(* The journal is the log of the commit service, the frontier its watermark. *)
Service == INSTANCE CommitService WITH
    log <- journal, next <- nextTs, watermark <- published, answer <- outcome

(* Every behaviour of the pipeline is one of CommitService: timestamps are  *)
(* dense and in order, the published frontier moves one commit at a time    *)
(* and never past a failed or ambiguous commit, and what commit_blocking    *)
(* returns agrees with the journal for ever after.                          *)
ImplementsService == Service!ServiceSpec

(* A commit that has become durable always gets its waiter woken, whatever  *)
(* fails afterwards (finalize panic, poisoned stage, failed apply).         *)
DurableCommitCompletes ==
    \A t \in Txns : (t \in JournalTxns) ~> (outcome[t] # "pending")

(* commit_blocking returns. *)
EveryCommitCompletes ==
    \A t \in Txns : (pc[t] = "wait") ~> (pc[t] = "done")
=============================================================================

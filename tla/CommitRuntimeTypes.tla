------------------------- MODULE CommitRuntimeTypes -------------------------
(* Type correctness of the commit runtime: lemmas on sequences and on the   *)
(* completion registry, the initial state, one lemma per group of actions,  *)
(* and the theorem.                                                         *)
EXTENDS CommitRuntime, SequenceTheorems, TLAPS

(* A leaf that names no prover goes to SMT; Zenon does the others.          *)
USE SMTT(30)

LEMMA SeqNone ==
    ASSUME NEW S
    PROVE  <<>> \in Seq(S)
  OBVIOUS

LEMMA SeqOne ==
    ASSUME NEW S, NEW e \in S
    PROVE  <<e>> \in Seq(S)
  OBVIOUS

LEMMA SeqTake ==
    ASSUME NEW S, NEW s \in Seq(S), s # <<>>
    PROVE  Head(s) \in S /\ Tail(s) \in Seq(S)
  OBVIOUS

LEMMA SeqPut ==
    ASSUME NEW S, NEW s \in Seq(S), NEW e \in S
    PROVE  Append(s, e) \in Seq(S)
  OBVIOUS

LEMMA SeqJoin ==
    ASSUME NEW S, NEW s \in Seq(S), NEW u \in Seq(S)
    PROVE  s \o u \in Seq(S)
  OBVIOUS

LEMMA SeqSuffix ==
    ASSUME NEW S, NEW s \in Seq(S), NEW d \in 0 .. Len(s)
    PROVE  SubSeq(s, d + 1, Len(s)) \in Seq(S)
  BY SubSeqProperties

LEMMA SeqPrefix ==
    ASSUME NEW S, NEW s \in Seq(S), NEW d \in 0 .. Len(s)
    PROVE  SubSeq(s, 1, d) \in Seq(S)
  BY SubSeqProperties

----------------------------------------------------------------------------
(* The registry's transformers keep a slot table a slot table. *)

LEMMA AllocateType ==
    ASSUME NEW sl \in SlotTable, NEW t \in Txns
    PROVE  Allocate(sl, t) \in SlotTable
  BY DEF Allocate, SlotTable, SlotStates

LEMMA SetStateType ==
    ASSUME NEW sl \in SlotTable, NEW S, NEW st \in SlotStates
    PROVE  SetState(sl, S, st) \in SlotTable
  BY DEF SetState, SlotTable

LEMMA SetStateForCommitTsType ==
    ASSUME NEW sl \in SlotTable, NEW ts, NEW st \in SlotStates
    PROVE  SetStateForCommitTs(sl, ts, st) \in SlotTable
  BY SetStateType DEF SetStateForCommitTs

LEMMA MarkDurableType ==
    ASSUME NEW sl \in SlotTable, NEW recs \in SUBSET Record
    PROVE  MarkDurable(sl, recs) \in SlotTable
  <1>1. ASSUME NEW t \in Txns, \E r \in recs : r.txn = t
        PROVE  (CHOOSE r \in recs : r.txn = t).ts \in Nat
    BY <1>1 DEF Record
  <1>2. QED
    BY <1>1 DEF MarkDurable, SlotTable, SlotStates

LEMMA MarkPublishSubmittedType ==
    ASSUME NEW sl \in SlotTable, NEW ts
    PROVE  MarkPublishSubmitted(sl, ts) \in SlotTable
  BY DEF MarkPublishSubmitted, SlotTable, SlotStates, TerminalStates

LEMMA MarkPublishedType ==
    ASSUME NEW sl \in SlotTable, NEW ts
    PROVE  MarkPublished(sl, ts) \in SlotTable
  BY DEF MarkPublished, SlotTable, SlotStates, TerminalStates

----------------------------------------------------------------------------
(* Type correctness. *)

LEMMA TypeInit == Init => TypeOK
  <1> SUFFICES ASSUME Init PROVE TypeOK
    OBVIOUS
  <1> USE DEF Init
  <1>1. QueueTypeOK
    BY SeqNone DEF QueueInit, QueueTypeOK
  <1>2. CompletionTypeOK
    BY DEF CompletionInit, CompletionTypeOK, SlotTable, NoSlot, SlotStates, Outcomes
  <1>3. ThreadTypeOK
    BY DEF ThreadTypeOK, ThreadPcs
  <1>4. DrainTypeOK
    BY SeqNone DEF DrainTypeOK, DrainPcs
  <1>5. SequencerTypeOK /\ FrontierTypeOK
    BY DEF SequencerTypeOK, FrontierTypeOK
  <1>6. FinalizeTypeOK
    BY SeqNone DEF FinalizeTypeOK, FinPcs
  <1>7. ApplyTypeOK
    BY SeqNone DEF ApplyTypeOK
  <1>8. FlagsTypeOK
    BY ZenonT(40) DEF FlagsTypeOK, QueueInit
  <1>9. reservation \in [Txns -> ReservationStates]
    BY DEF ReservationStates
  <1>10. QED
    BY <1>1, <1>2, <1>3, <1>4, <1>5, <1>6, <1>7, <1>8, <1>9, ZenonT(40) DEF TypeOK

(* What an unchanged group of variables keeps. *)
LEMMA Keeps ==
    /\ QueueTypeOK /\ UNCHANGED queueVars => QueueTypeOK'
    /\ CompletionTypeOK /\ UNCHANGED completionVars => CompletionTypeOK'
    /\ ThreadTypeOK /\ UNCHANGED threadVars => ThreadTypeOK'
    /\ DrainTypeOK /\ UNCHANGED drainVars => DrainTypeOK'
    /\ SequencerTypeOK /\ UNCHANGED seqVars => SequencerTypeOK'
    /\ FrontierTypeOK /\ UNCHANGED frontierVars => FrontierTypeOK'
    /\ FinalizeTypeOK /\ UNCHANGED finVars => FinalizeTypeOK'
    /\ ApplyTypeOK /\ UNCHANGED applyVars => ApplyTypeOK'
  BY DEF queueVars, completionVars, threadVars, drainVars, seqVars, frontierVars,
         finVars, applyVars, QueueTypeOK, CompletionTypeOK, ThreadTypeOK,
         DrainTypeOK, SequencerTypeOK, FrontierTypeOK, FinalizeTypeOK, ApplyTypeOK

LEMMA SubmitterType ==
    ASSUME TypeOK, NEW t \in Txns, Submitter(t)
    PROVE  TypeOK'
  <1> USE DEF TypeOK
  <1> t \in Threads
    BY DEF Threads
  <1>1. CASE SubmitCommit(t)
    <2>0. UNCHANGED <<queueVars, drainVars, seqVars, frontierVars, finVars,
                      applyVars, wakeTasks, poisoned, reservation>>
      BY <1>1 DEF SubmitCommit
    <2>1. CompletionTypeOK'
      BY <1>1, AllocateType DEF SubmitCommit, NotAdmitted, CompletionTypeOK, Outcomes
    <2>2. ThreadTypeOK'
      BY <1>1 DEF SubmitCommit, ThreadTypeOK, ThreadPcs
    <2>3. FlagsTypeOK'
      BY <2>0 DEF FlagsTypeOK, queueVars, seqVars, finVars, applyVars
    <2>4. QED
      BY <2>0, <2>1, <2>2, <2>3, Keeps
  <1>2. CASE EnqueueJob(t)
    <2>0. UNCHANGED <<deferred, pendingFence, closed, drainOwner, slot, drainVars,
                      seqVars, frontierVars, finVars, applyVars, wakeTasks,
                      poisoned, reservation>>
      BY <1>2 DEF EnqueueJob
    <2>1. QueueTypeOK'
      <3>1. entries' = Append(entries, t) \/ entries' = entries
        BY <1>2 DEF EnqueueJob, Enqueue
      <3>2. entries' \in Seq(Txns)
        BY <3>1, SeqPut, ZenonT(40) DEF QueueTypeOK
      <3>3. QED
        BY <1>2, <3>2 DEF EnqueueJob, QueueTypeOK
    <2>2. CompletionTypeOK'
      BY <1>2 DEF EnqueueJob, NotAdmitted, CompletionTypeOK, Outcomes
    <2>3. ThreadTypeOK'
      BY <1>2 DEF EnqueueJob, ThreadTypeOK, ThreadPcs
    <2>4. FlagsTypeOK'
      BY <2>0 DEF FlagsTypeOK, seqVars, finVars, applyVars
    <2>5. QED
      BY <2>0, <2>1, <2>2, <2>3, <2>4, Keeps
  <1>3. CASE SignalDrain(t)
    <2>0. UNCHANGED <<queueVars, completionVars, drainVars, seqVars, frontierVars,
                      finVars, applyVars, poisoned, reservation>>
      BY <1>3 DEF SignalDrain
    <2>1. ThreadTypeOK'
      BY <1>3 DEF SignalDrain, WakePool, ThreadTypeOK, ThreadPcs
    <2>2. FlagsTypeOK'
      BY <2>0 DEF FlagsTypeOK, queueVars, seqVars, finVars, applyVars
    <2>3. QED
      BY <2>0, <2>1, <2>2, Keeps
  <1>4. CASE WaitCompletion(t)
    <2>0. UNCHANGED <<queueVars, drainVars, seqVars, frontierVars, finVars,
                      applyVars, wakeTasks, poisoned, reservation>>
      BY <1>4 DEF WaitCompletion
    <2>1. CompletionTypeOK'
      BY <1>4 DEF WaitCompletion, Wait, IsTerminal, CompletionTypeOK, Outcomes,
                  SlotTable, NoSlot, SlotStates
    <2>2. ThreadTypeOK'
      BY <1>4 DEF WaitCompletion, ThreadTypeOK, ThreadPcs
    <2>3. FlagsTypeOK'
      BY <2>0 DEF FlagsTypeOK, queueVars, seqVars, finVars, applyVars
    <2>4. QED
      BY <2>0, <2>1, <2>2, <2>3, Keeps
  <1>5. QED
    BY <1>1, <1>2, <1>3, <1>4 DEF Submitter

LEMMA WakeTaskType ==
    ASSUME TypeOK, NEW w \in Wakers, TakeWakeTask(w)
    PROVE  TypeOK'
  <1> USE DEF TypeOK
  <1>0. UNCHANGED <<queueVars, completionVars, drainVars, seqVars, frontierVars,
                    finVars, applyVars, poisoned, reservation>>
    BY DEF TakeWakeTask
  <1>1. ThreadTypeOK'
    BY DEF TakeWakeTask, ThreadTypeOK, ThreadPcs, Threads
  <1>2. FlagsTypeOK'
    BY <1>0 DEF FlagsTypeOK, queueVars, seqVars, finVars, applyVars
  <1>3. QED
    BY <1>0, <1>1, <1>2, Keeps

LEMMA DrainInlineType ==
    ASSUME TypeOK, NEW th \in Threads, DrainInline(th)
    PROVE  TypeOK'
  <1> USE DEF TypeOK
  <1>0. UNCHANGED <<entries, deferred, pendingFence, closed, completionVars,
                    source, local, batch, accepted, seqVars, frontierVars, finVars,
                    applyVars, wakeTasks, poisoned, reservation>>
    BY DEF DrainInline
  <1>1. ThreadTypeOK'
    BY DEF DrainInline, AfterDrain, ThreadTypeOK, ThreadPcs
  <1>2. QueueTypeOK'
    BY DEF DrainInline, TryAcquireDrainOwner, QueueTypeOK
  <1>3. DrainTypeOK'
    BY DEF DrainInline, DrainTypeOK, DrainPcs
  <1>4. FlagsTypeOK'
    BY <1>0 DEF FlagsTypeOK, seqVars, finVars, applyVars
  <1>5. QED
    BY <1>0, <1>1, <1>2, <1>3, <1>4, Keeps

LEMMA DrainTopType ==
    ASSUME TypeOK, DrainTop
    PROVE  TypeOK'
  <1> USE DEF TypeOK
  <1>0. UNCHANGED <<entries, deferred, closed, drainOwner, completionVars, batch,
                    accepted, seqVars, frontierVars, finVars, applyVars,
                    threadVars, poisoned, reservation>>
    BY DEF DrainTop
  <1>1. \/ local' = local /\ pendingFence' = pendingFence
        \/ /\ pendingFence # <<>>
           /\ local' = <<Head(pendingFence).txn>>
           /\ pendingFence' = Tail(pendingFence)
    BY DEF DrainTop, TakeReadyPendingFence, PendingFenceReady, HasPendingFence
  <1>2. pendingFence # <<>> =>
           /\ Head(pendingFence).txn \in Txns
           /\ Tail(pendingFence) \in Seq(FenceBlockedBatch)
    <2>1. pendingFence # <<>> =>
             /\ Head(pendingFence) \in FenceBlockedBatch
             /\ Tail(pendingFence) \in Seq(FenceBlockedBatch)
      BY SeqTake DEF QueueTypeOK
    <2>2. QED
      BY <2>1 DEF FenceBlockedBatch
  <1>3. QueueTypeOK'
    BY <1>1, <1>2, ZenonT(40) DEF DrainTop, QueueTypeOK
  <1>4. DrainTypeOK'
    <2>1. local' \in Seq(Txns)
      BY <1>1, <1>2, SeqOne, ZenonT(40) DEF DrainTypeOK
    <2>2. QED
      BY <2>1 DEF DrainTop, DrainTypeOK, DrainPcs
  <1>5. FlagsTypeOK'
    BY <1>0 DEF FlagsTypeOK, seqVars, finVars, applyVars
  <1>6. QED
    BY <1>0, <1>3, <1>4, <1>5, Keeps

LEMMA DrainTakeBufferType ==
    ASSUME TypeOK, DrainTakeBuffer
    PROVE  TypeOK'
  <1> USE DEF TypeOK
  <1>0. UNCHANGED <<pendingFence, closed, drainOwner, completionVars, batch,
                    accepted, seqVars, frontierVars, finVars, applyVars,
                    threadVars, poisoned, reservation>>
    BY DEF DrainTakeBuffer
  <1> DEFINE line == deferred \o entries
             n    == IF Len(line) < TargetBatch THEN Len(line) ELSE TargetBatch
             d    == IF n < Len(deferred) THEN n ELSE Len(deferred)
  <1>1. /\ line \in Seq(Txns)
        /\ Len(line) = Len(deferred) + Len(entries)
    BY ConcatProperties DEF QueueTypeOK
  <1>2. /\ n \in 0 .. Len(line)
        /\ d \in 0 .. Len(deferred)
        /\ n - d \in 0 .. Len(entries)
    BY <1>1, QueueAssumption DEF QueueTypeOK
  <1>3. /\ local' = SubSeq(line, 1, n)
        /\ deferred' = SubSeq(deferred, d + 1, Len(deferred))
        /\ entries' = SubSeq(entries, n - d + 1, Len(entries))
    BY DEF DrainTakeBuffer, TakeLocalBuffer
  <1>4. local' \in Seq(Txns)
    BY <1>1, <1>2, <1>3, SeqPrefix, ZenonT(40)
  <1>5. deferred' \in Seq(Txns) /\ entries' \in Seq(Txns)
    BY <1>2, <1>3, SeqSuffix DEF QueueTypeOK
  <1>6. QueueTypeOK'
    BY <1>5 DEF DrainTakeBuffer, QueueTypeOK
  <1>7. DrainTypeOK'
    BY <1>4 DEF DrainTakeBuffer, DrainTypeOK, DrainPcs
  <1>8. FlagsTypeOK'
    BY <1>0 DEF FlagsTypeOK, seqVars, finVars, applyVars
  <1>9. QED
    BY <1>0, <1>6, <1>7, <1>8, Keeps

(* Parking an entry, and charging the parked ones, keep the fence queue. *)
LEMMA BlockOnFenceType ==
    ASSUME QueueTypeOK, SequencerTypeOK, NEW t \in Txns,
           BlockOnFence(t, PredecessorTs)
    PROVE  pendingFence' \in Seq(FenceBlockedBatch)
  <1>1. [txn |-> t, required |-> PredecessorTs, spent |-> 0] \in FenceBlockedBatch
    BY QueueAssumption DEF SequencerTypeOK, PredecessorTs, FenceBlockedBatch
  <1>2. QED
    BY <1>1, SeqPut DEF BlockOnFence, QueueTypeOK

LEMMA ChargeBypassType ==
    ASSUME QueueTypeOK, NEW t, ChargeBypass(t)
    PROVE  pendingFence' \in Seq(FenceBlockedBatch)
  <1>1. CASE RecordSnapshotBypass
    <2> DEFINE new(i) == [pendingFence[i] EXCEPT
                            !.spent = IF @ < BypassBudget THEN @ + 1 ELSE BypassBudget]
    <2>1. Len(pendingFence) \in Nat
      BY DEF QueueTypeOK
    <2>2. ASSUME NEW i \in 1 .. Len(pendingFence)
          PROVE  new(i) \in FenceBlockedBatch
      <3>1. pendingFence[i] \in FenceBlockedBatch
        BY DEF QueueTypeOK
      <3>2. QED
        BY <3>1, QueueAssumption DEF FenceBlockedBatch
    <2>3. pendingFence' \in [1 .. Len(pendingFence) -> FenceBlockedBatch]
      BY <1>1, <2>2 DEF RecordSnapshotBypass
    <2>4. QED
      BY <2>1, <2>3, SeqDef
  <1>2. CASE UNCHANGED pendingFence
    BY <1>2 DEF QueueTypeOK
  <1>3. QED
    BY <1>1, <1>2 DEF ChargeBypass

LEMMA ProcessEntriesType ==
    ASSUME TypeOK, ProcessEntries
    PROVE  TypeOK'
  <1> USE DEF TypeOK
  <1>0. UNCHANGED <<entries, closed, drainOwner, outcome, source, accepted,
                    seqVars, frontierVars, finVars, applyVars, threadVars,
                    poisoned, reservation>>
    BY DEF ProcessEntries
  <1>1. local # <<>> => Head(local) \in Txns /\ Tail(local) \in Seq(Txns)
    BY SeqTake DEF DrainTypeOK
  <1>2. /\ slot' \in SlotTable
        /\ deferred' \in Seq(Txns)
        /\ pendingFence' \in Seq(FenceBlockedBatch)
        /\ local' \in Seq(Txns)
        /\ batch' \in Seq(Txns)
        /\ dpc' \in DrainPcs
        /\ dpc' = "grow" => local' # <<>>
    <2>0. /\ slot \in SlotTable /\ deferred \in Seq(Txns) /\ local \in Seq(Txns)
          /\ pendingFence \in Seq(FenceBlockedBatch)
          /\ batch \in Seq(Txns) /\ dpc \in DrainPcs /\ dpc = "front"
      BY DEF QueueTypeOK, CompletionTypeOK, DrainTypeOK, ProcessEntries
    <2>1. CASE ProcessDone
      BY <2>0, <2>1 DEF ProcessDone, DrainPcs
    <2>2. CASE local # <<>> /\ ProcessRejected
      BY <1>1, <2>0, <2>2, SetStateType DEF ProcessRejected, SlotStates, TerminalStates
    <2>3. CASE local # <<>> /\ ProcessBlocked
      <3>1. pendingFence' \in Seq(FenceBlockedBatch)
        BY <1>1, <2>3, BlockOnFenceType DEF ProcessBlocked
      <3>2. \/ local' = Tail(local) /\ dpc' = dpc /\ deferred' = deferred
            \/ local' = <<>> /\ dpc' = "turn" /\ deferred' = deferred \o Tail(local)
        BY <2>3 DEF ProcessBlocked, DeferEntries
      <3>3. deferred \o Tail(local) \in Seq(Txns)
        BY <1>1, <2>0, <2>3, SeqJoin
      <3>4. QED
        BY <1>1, <2>0, <2>3, <3>1, <3>2, <3>3, SeqNone, ZenonT(40) DEF ProcessBlocked, DrainPcs
    <2>4. CASE local # <<>> /\ ProcessKeptBehind
      BY <2>0, <2>4, SeqJoin, SeqNone DEF ProcessKeptBehind, DeferEntries, DrainPcs
    <2>5. CASE local # <<>> /\ ProcessStartsBatch
      <3>1. pendingFence' \in Seq(FenceBlockedBatch)
        BY <2>5, ChargeBypassType DEF ProcessStartsBatch
      <3>2. dpc' \in DrainPcs /\ (dpc' = "grow" => local' # <<>>)
        BY <2>5 DEF ProcessStartsBatch, GrowOrAppend, DrainPcs
      <3>3. QED
        BY <1>1, <2>0, <2>5, <3>1, <3>2, SeqOne DEF ProcessStartsBatch
    <2>6. QED
      BY <2>1, <2>2, <2>3, <2>4, <2>5 DEF ProcessEntries
  <1>3. QueueTypeOK'
    BY <1>2 DEF ProcessEntries, QueueTypeOK
  <1>4. CompletionTypeOK'
    BY <1>2 DEF ProcessEntries, CompletionTypeOK
  <1>5. DrainTypeOK'
    BY <1>2 DEF ProcessEntries, DrainTypeOK
  <1>6. FlagsTypeOK'
    BY <1>0 DEF FlagsTypeOK, seqVars, finVars, applyVars
  <1>7. QED
    BY <1>0, <1>3, <1>4, <1>5, <1>6, Keeps

LEMMA GrowBatchType ==
    ASSUME TypeOK, GrowBatch
    PROVE  TypeOK'
  <1> USE DEF TypeOK
  <1>0. UNCHANGED <<entries, deferred, closed, drainOwner, completionVars, source,
                    accepted, seqVars, frontierVars, finVars, applyVars,
                    threadVars, poisoned, reservation>>
    BY DEF GrowBatch
  <1>1. /\ Head(local) \in Txns /\ Tail(local) \in Seq(Txns)
        /\ local \in Seq(Txns) /\ batch \in Seq(Txns)
    BY SeqTake DEF DrainTypeOK, GrowBatch
  <1>2. /\ pendingFence' \in Seq(FenceBlockedBatch)
        /\ local' \in Seq(Txns)
        /\ batch' \in Seq(Txns)
        /\ dpc' \in DrainPcs
        /\ dpc' = "grow" => local' # <<>>
    <2>1. CASE GrowBlocked
      BY <1>1, <2>1, BlockOnFenceType DEF GrowBlocked, DrainPcs
    <2>2. CASE GrowStops
      BY <1>1, <2>2 DEF GrowStops, DrainPcs, QueueTypeOK
    <2>3. CASE GrowTakes
      <3>1. pendingFence' \in Seq(FenceBlockedBatch)
        BY <2>3, ChargeBypassType DEF GrowTakes
      <3>2. dpc' \in DrainPcs /\ (dpc' = "grow" => local' # <<>>)
        BY <2>3 DEF GrowTakes, GrowOrAppend, DrainPcs
      <3>3. QED
        BY <1>1, <2>3, <3>1, <3>2, SeqPut DEF GrowTakes
    <2>4. QED
      BY <2>1, <2>2, <2>3 DEF GrowBatch
  <1>3. QueueTypeOK'
    BY <1>2 DEF GrowBatch, QueueTypeOK
  <1>4. DrainTypeOK'
    BY <1>2 DEF GrowBatch, DrainTypeOK
  <1>5. FlagsTypeOK'
    BY <1>0 DEF FlagsTypeOK, seqVars, finVars, applyVars
  <1>6. QED
    BY <1>0, <1>3, <1>4, <1>5, Keeps

(* The records a batch may become. *)
LEMMA SequencedRecordsType ==
    ASSUME SequencerTypeOK, NEW b \in Seq(Txns), NEW cut \in 1 .. Len(b),
           NEW k \in 0 .. cut, NEW f \in [1 .. k -> 1 .. cut]
    PROVE  /\ SequencedRecords(b, f) \in SUBSET Record
           /\ DeferredSuffix(b, cut) \in Seq(Txns)
           /\ Len(f) = k
  <1>1. Len(f) = k
    OBVIOUS
  <1>2. \A n \in 1 .. k : b[f[n]] \in Txns
    OBVIOUS
  <1>3. SequencedRecords(b, f) \in SUBSET Record
    BY <1>1, <1>2 DEF SequencedRecords, Record, SequencerTypeOK
  <1>4. DeferredSuffix(b, cut) \in Seq(Txns)
    BY SeqSuffix DEF DeferredSuffix
  <1>5. QED
    BY <1>1, <1>3, <1>4

(* poison() leaves an empty queue and rejects what was on it. *)
LEMMA PoisonRuntimeType ==
    ASSUME PoisonRuntime
    PROVE  /\ poisoned' = TRUE /\ closed' = TRUE
           /\ entries' \in Seq(Txns) /\ deferred' \in Seq(Txns)
           /\ pendingFence' \in Seq(FenceBlockedBatch)
  BY SeqNone DEF PoisonRuntime, CloseAndDrainPending

LEMMA RejectPendingType ==
    ASSUME NEW sl \in SlotTable, NEW S
    PROVE  RejectPending(sl, S) \in SlotTable
  BY SetStateType DEF RejectPending, SlotStates, TerminalStates

LEMMA SequenceAppendType ==
    ASSUME TypeOK, SequenceAppend
    PROVE  TypeOK'
  <1> USE DEF TypeOK
  <1> PICK cut \in 1 .. Len(batch) :
          \E k \in 0 .. cut : \E f \in [1 .. k -> 1 .. cut] : AppendBatch(cut, k, f)
    BY DEF SequenceAppend
  <1> PICK k \in 0 .. cut : \E f \in [1 .. k -> 1 .. cut] : AppendBatch(cut, k, f)
    OBVIOUS
  <1> PICK f \in [1 .. k -> 1 .. cut] : AppendBatch(cut, k, f)
    BY ZenonT(40)
  <1> DEFINE recs == SequencedRecords(batch, f)
             rej  == RejectedTxns(batch, cut, f)
             def  == DeferredSuffix(batch, cut)
             failed == {r.txn : r \in recs}
             rejected == SetState(slot, rej, "rejected")
  <1>1. /\ recs \in SUBSET Record /\ def \in Seq(Txns)
        /\ batch \in Seq(Txns) /\ accepted \in SUBSET Record
    BY SequencedRecordsType, ZenonT(40) DEF DrainTypeOK
  <1>2. rejected \in SlotTable
    BY SetStateType DEF CompletionTypeOK, SlotStates, TerminalStates
  <1>3. /\ SetState(rejected, failed, "failed_append") \in SlotTable
        /\ RejectPending(SetState(rejected, failed, "failed_append"), Elems(def))
              \in SlotTable
        /\ RejectPending(rejected, Elems(def)) \in SlotTable
    BY <1>2, SetStateType, RejectPendingType DEF SlotStates, TerminalStates
  <1>4. SetState(RejectPending(rejected, Elems(def)), failed, "ambiguous") \in SlotTable
    BY <1>3, SetStateType DEF SlotStates, TerminalStates
  <1>5. deferred \o def \in Seq(Txns)
    BY <1>1, SeqJoin DEF QueueTypeOK
  <1>c. \/ NothingAccepted(rej, def)
        \/ k > 0 /\ BatchDurable(recs, k, rej, def)
        \/ BatchAppendFailed(recs, rej, def)
        \/ BatchAmbiguous(recs, k, rej, def)
    BY ZenonT(40) DEF AppendBatch
  <1> HIDE DEF recs, rej, def, failed, rejected
  <1>6. /\ slot' \in SlotTable
        /\ entries' \in Seq(Txns) /\ deferred' \in Seq(Txns)
        /\ pendingFence' \in Seq(FenceBlockedBatch)
        /\ accepted' \in SUBSET Record /\ journal' \in SUBSET Record
        /\ nextTs' \in Nat \ {0}
        /\ dpc' \in DrainPcs /\ dpc' # "grow"
        /\ reservation' \in [Txns -> ReservationStates]
    <2>1. CASE NothingAccepted(rej, def)
      <3>1. /\ UNCHANGED <<entries, pendingFence, accepted, nextTs, journal, reservation>>
            /\ deferred' = deferred \o def /\ slot' = rejected /\ dpc' = "front"
        BY <2>1 DEF NothingAccepted, DeferEntries, seqVars, rejected
      <3>2. QED
        BY <1>1, <1>2, <1>5, <3>1 DEF QueueTypeOK, SequencerTypeOK, DrainPcs
    <2>2. CASE k > 0 /\ BatchDurable(recs, k, rej, def)
      <3>1. /\ UNCHANGED <<entries, pendingFence>>
            /\ accepted' = recs /\ journal' = journal \cup recs /\ nextTs' = nextTs + k
            /\ deferred' = deferred \o def /\ slot' = rejected /\ dpc' = "mark"
        BY <2>2 DEF BatchDurable, DeferEntries, rejected
      <3>2. reservation' \in [Txns -> ReservationStates]
        BY <2>2 DEF BatchDurable, ReservationStates
      <3>3. journal' \in SUBSET Record /\ nextTs' \in Nat \ {0}
        BY <1>1, <3>1 DEF SequencerTypeOK
      <3>4. QED
        BY <1>1, <1>2, <1>5, <3>1, <3>2, <3>3 DEF QueueTypeOK, DrainPcs
    <2>3. CASE BatchAppendFailed(recs, rej, def)
      <3>1. /\ UNCHANGED <<accepted, nextTs, journal>>
            /\ dpc' = "front"
            /\ \/ /\ slot' = SetState(rejected, failed, "failed_append")
                  /\ deferred' = deferred \o def
                  /\ UNCHANGED <<entries, pendingFence>>
               \/ /\ slot' = RejectPending(SetState(rejected, failed, "failed_append"),
                                           Elems(def))
                  /\ PoisonRuntime
        BY <2>3 DEF BatchAppendFailed, DeferEntries, rejected, failed
      <3>2. reservation' \in [Txns -> ReservationStates]
        BY <2>3 DEF BatchAppendFailed, ReservationStates
      <3>3. /\ slot' \in SlotTable
            /\ entries' \in Seq(Txns) /\ deferred' \in Seq(Txns)
            /\ pendingFence' \in Seq(FenceBlockedBatch)
        BY <1>3, <1>5, <3>1, PoisonRuntimeType, ZenonT(40) DEF QueueTypeOK
      <3>4. QED
        BY <1>1, <3>1, <3>2, <3>3 DEF SequencerTypeOK, DrainPcs
    <2>4. CASE BatchAmbiguous(recs, k, rej, def)
      <3>1. /\ accepted' = accepted /\ dpc' = "front"
            /\ slot' = SetState(RejectPending(rejected, Elems(def)), failed, "ambiguous")
            /\ PoisonRuntime
            /\ journal' = journal \cup recs /\ nextTs' = nextTs + k
        BY <2>4 DEF BatchAmbiguous, rejected, failed
      <3>2. reservation' \in [Txns -> ReservationStates]
        BY <2>4 DEF BatchAmbiguous, ReservationStates
      <3>3. journal' \in SUBSET Record /\ nextTs' \in Nat \ {0}
        BY <1>1, <3>1 DEF SequencerTypeOK
      <3>4. QED
        BY <1>1, <1>4, <3>1, <3>2, <3>3, PoisonRuntimeType DEF DrainPcs
    <2>5. QED
      BY <1>c, <2>1, <2>2, <2>3, <2>4, ZenonT(40)
  <1>7. FlagsTypeOK'
    <2>1. closed' \in BOOLEAN /\ poisoned' \in BOOLEAN /\ journalDown' \in BOOLEAN
      BY <1>c, PoisonRuntimeType, ZenonT(40)
      DEF NothingAccepted, BatchDurable, BatchAppendFailed, BatchAmbiguous,
          FlagsTypeOK, seqVars
    <2>2. QED
      BY <2>1 DEF SequenceAppend, FlagsTypeOK, finVars, applyVars
  <1>8. QueueTypeOK' /\ CompletionTypeOK' /\ SequencerTypeOK'
    BY <1>6 DEF SequenceAppend, QueueTypeOK, CompletionTypeOK, SequencerTypeOK
  <1>9. DrainTypeOK'
    BY <1>6, SeqNone DEF SequenceAppend, DrainTypeOK
  <1>10. QED
    BY <1>6, <1>7, <1>8, <1>9, Keeps DEF SequenceAppend

----------------------------------------------------------------------------
(* The rest of the drain, the finalize worker and the apply worker.         *)
LEMMA DrainRestType ==
    ASSUME TypeOK,
           \/ MarkBatchDurable \/ ScheduleBatch \/ PoisonAfterSchedule
           \/ DrainTurn \/ DrainRelease
    PROVE  TypeOK'
  <1> USE DEF TypeOK
  <1>1. CASE MarkBatchDurable
    <2>0. UNCHANGED <<queueVars, outcome, source, local, batch, accepted, seqVars,
                      published, blockedTs, finVars, applyVars, threadVars,
                      poisoned, reservation>>
      BY <1>1 DEF MarkBatchDurable
    <2>1. CompletionTypeOK'
      BY <1>1, MarkDurableType DEF MarkBatchDurable, CompletionTypeOK, DrainTypeOK
    <2>2. FrontierTypeOK' /\ DrainTypeOK'
      BY <1>1 DEF MarkBatchDurable, FrontierTypeOK, SequencerTypeOK, DrainTypeOK, DrainPcs
    <2>3. FlagsTypeOK'
      BY <2>0 DEF FlagsTypeOK, queueVars, seqVars, finVars, applyVars
    <2>4. QED
      BY <2>0, <2>1, <2>2, <2>3, Keeps
  <1>2. CASE ScheduleBatch
    <2>0. UNCHANGED <<queueVars, outcome, source, local, batch, seqVars,
                      frontierVars, finPc, finBatch, finPoison, registered,
                      applyVars, threadVars, poisoned>>
      BY <1>2, ZenonT(40) DEF ScheduleBatch
    <2>1. /\ \/ /\ finQueue' = Append(finQueue, accepted) /\ dpc' = "front"
                /\ UNCHANGED <<slot, reservation>>
             \/ /\ slot' = SetState(slot, {r.txn : r \in accepted}, "ambiguous")
                /\ reservation' = [t \in Txns |-> IF \E r \in accepted : r.txn = t
                                                  THEN "dropped" ELSE reservation[t]]
                /\ dpc' = "poison" /\ UNCHANGED finQueue
          /\ accepted' = {}
      BY <1>2, ZenonT(40) DEF ScheduleBatch
    <2>2. reservation' \in [Txns -> ReservationStates]
      BY <2>1 DEF ReservationStates
    <2>3. finQueue' \in Seq(SUBSET Record)
      <3>1. finQueue' = Append(finQueue, accepted) \/ finQueue' = finQueue
        BY <2>1, ZenonT(40)
      <3>2. finQueue \in Seq(SUBSET Record) /\ accepted \in SUBSET Record
        BY ZenonT(40) DEF FinalizeTypeOK, DrainTypeOK
      <3>3. QED
        BY <3>1, <3>2, SeqPut, ZenonT(40)
    <2>4. CompletionTypeOK' /\ FinalizeTypeOK'
      <3>1. slot' \in SlotTable
        BY <2>1, SetStateType DEF CompletionTypeOK, SlotStates, TerminalStates
      <3>2. QED
        BY <2>0, <2>3, <3>1 DEF CompletionTypeOK, FinalizeTypeOK
    <2>5. DrainTypeOK'
      BY <2>0, <2>1 DEF DrainTypeOK, DrainPcs
    <2>6. FlagsTypeOK'
      BY <2>0 DEF FlagsTypeOK, queueVars, seqVars, applyVars
    <2>7. QED
      BY <2>0, <2>2, <2>4, <2>5, <2>6, Keeps
  <1>3. CASE PoisonAfterSchedule
    <2>0. UNCHANGED <<drainOwner, outcome, source, local, batch, accepted, seqVars,
                      frontierVars, finVars, applyVars, threadVars, reservation>>
      BY <1>3 DEF PoisonAfterSchedule
    <2>1. CompletionTypeOK'
      BY <1>3, RejectPendingType DEF PoisonAfterSchedule, CompletionTypeOK
    <2>2. QueueTypeOK'
      BY <1>3, PoisonRuntimeType DEF PoisonAfterSchedule, QueueTypeOK
    <2>3. DrainTypeOK'
      BY <1>3 DEF PoisonAfterSchedule, DrainTypeOK, DrainPcs
    <2>4. FlagsTypeOK'
      BY <1>3, PoisonRuntimeType
      DEF PoisonAfterSchedule, FlagsTypeOK, seqVars, finVars, applyVars
    <2>5. QED
      BY <2>0, <2>1, <2>2, <2>3, <2>4, Keeps
  <1>4. CASE DrainTurn
    <2>0. UNCHANGED <<queueVars, completionVars, source, local, batch, accepted,
                      seqVars, frontierVars, finVars, applyVars, threadVars,
                      poisoned, reservation>>
      BY <1>4 DEF DrainTurn
    <2>1. DrainTypeOK'
      BY <1>4 DEF DrainTurn, DrainTypeOK, DrainPcs
    <2>2. FlagsTypeOK'
      BY <2>0 DEF FlagsTypeOK, queueVars, seqVars, finVars, applyVars
    <2>3. QED
      BY <2>0, <2>1, <2>2, Keeps
  <1>5. CASE DrainRelease
    <2>0. UNCHANGED <<entries, deferred, pendingFence, closed, completionVars,
                      local, batch, accepted, seqVars, frontierVars, finVars,
                      applyVars, poisoned, reservation>>
      BY <1>5 DEF DrainRelease
    <2>1. ThreadTypeOK'
      BY <1>5 DEF DrainRelease, ReleaseDrainOwner, WakePool, AfterDrain,
                  QueueTypeOK, ThreadTypeOK, ThreadPcs
    <2>2. QueueTypeOK' /\ DrainTypeOK'
      BY <1>5 DEF DrainRelease, ReleaseDrainOwner, QueueTypeOK, DrainTypeOK, DrainPcs
    <2>3. FlagsTypeOK'
      BY <2>0 DEF FlagsTypeOK, seqVars, finVars, applyVars
    <2>4. QED
      BY <2>0, <2>1, <2>2, <2>3, Keeps
  <1>6. QED
    BY <1>1, <1>2, <1>3, <1>4, <1>5

LEMMA FinalizeWorkerType ==
    ASSUME TypeOK, FinalizeWorker
    PROVE  TypeOK'
  <1> USE DEF TypeOK
  <1>1. CASE FinalizePop
    <2>0. UNCHANGED <<queueVars, completionVars, drainVars, seqVars, frontierVars,
                      finPoison, registered, applyVars, threadVars, poisoned,
                      reservation>>
      BY <1>1 DEF FinalizePop
    <2>1. FinalizeTypeOK'
      BY <1>1, SeqTake DEF FinalizePop, FinalizeTypeOK, FinPcs
    <2>2. FlagsTypeOK'
      BY <2>0 DEF FlagsTypeOK, queueVars, seqVars, applyVars
    <2>3. QED
      BY <2>0, <2>1, <2>2, Keeps
  <1>2. CASE FinalizePhase1
    <2>0. UNCHANGED <<queueVars, completionVars, drainVars, seqVars, frontierVars,
                      finQueue, finBatch, finPoison, registered, applyVars,
                      threadVars, poisoned>>
      BY <1>2 DEF FinalizePhase1
    <2>1. FinalizeTypeOK'
      BY <1>2 DEF FinalizePhase1, FinalizeTypeOK, FinPcs
    <2>2. reservation' \in [Txns -> ReservationStates]
      BY <1>2 DEF FinalizePhase1, FinalizeTypeOK, Record, ReservationStates
    <2>3. FlagsTypeOK'
      BY <2>0 DEF FlagsTypeOK, queueVars, seqVars, applyVars
    <2>4. QED
      BY <2>0, <2>1, <2>2, <2>3, Keeps
  <1>3. CASE FinalizeRegister
    <2>0. UNCHANGED <<queueVars, completionVars, drainVars, seqVars, frontierVars,
                      finQueue, finBatch, finPoison, applyVars, pc, poisoned,
                      reservation>>
      BY <1>3 DEF FinalizeRegister
    <2>1. FinalizeTypeOK'
      BY <1>3 DEF FinalizeRegister, FinalizeTypeOK, FinPcs, MaxOf, Record
    <2>2. ThreadTypeOK'
      BY <1>3 DEF FinalizeRegister, WakePool, ThreadTypeOK
    <2>3. FlagsTypeOK'
      BY <2>0 DEF FlagsTypeOK, queueVars, seqVars, applyVars
    <2>4. QED
      BY <2>0, <2>1, <2>2, <2>3, Keeps
  <1>4. CASE FinalizeSubmit
    <2>0. UNCHANGED <<queueVars, completionVars, drainVars, seqVars, frontierVars,
                      finQueue, finBatch, finPoison, registered, applyPc,
                      applyDown, visible, threadVars, poisoned, reservation>>
      BY <1>4 DEF FinalizeSubmit
    <2>1. FinalizeTypeOK'
      BY <1>4 DEF FinalizeSubmit, FinalizeTypeOK, FinPcs
    <2>2. applyQueue' \in Seq(Record) /\ (applyQueue' = applyQueue \/ applyQueue' # <<>>)
      BY <1>4, SeqPut, AppendProperties DEF FinalizeSubmit, FinalizeTypeOK, ApplyTypeOK
    <2>3. ApplyTypeOK'
      BY <1>4, <2>2 DEF FinalizeSubmit, ApplyTypeOK
    <2>4. FlagsTypeOK'
      BY <2>0 DEF FlagsTypeOK, queueVars, seqVars
    <2>5. QED
      BY <2>0, <2>1, <2>3, <2>4, Keeps
  <1>5. CASE FinalizeSubmitted
    <2>0. UNCHANGED <<queueVars, outcome, drainVars, seqVars, frontierVars,
                      finQueue, finPoison, registered, applyVars, threadVars,
                      poisoned, reservation>>
      BY <1>5 DEF FinalizeSubmitted
    <2>1. CompletionTypeOK'
      BY <1>5, MarkPublishSubmittedType DEF FinalizeSubmitted, CompletionTypeOK
    <2>2. FinalizeTypeOK'
      BY <1>5 DEF FinalizeSubmitted, FinalizeTypeOK, FinPcs
    <2>3. FlagsTypeOK'
      BY <2>0 DEF FlagsTypeOK, queueVars, seqVars, applyVars
    <2>4. QED
      BY <2>0, <2>1, <2>2, <2>3, Keeps
  <1>6. CASE FinalizeFail
    <2>0. UNCHANGED <<queueVars, completionVars, drainVars, seqVars, frontierVars,
                      finQueue, finBatch, registered, applyVars, threadVars,
                      poisoned>>
      BY <1>6 DEF FinalizeFail
    <2>1. FinalizeTypeOK'
      BY <1>6 DEF FinalizeFail, FinalizeTypeOK, FinPcs
    <2>2. reservation' \in [Txns -> ReservationStates]
      BY <1>6 DEF FinalizeFail, ReservationStates
    <2>3. FlagsTypeOK'
      BY <1>6 DEF FinalizeFail, FlagsTypeOK, queueVars, seqVars, applyVars
    <2>4. QED
      BY <2>0, <2>1, <2>2, <2>3, Keeps
  <1>7. CASE FinalizeStageError
    <2>0. UNCHANGED <<drainOwner, outcome, drainVars, seqVars, durable, published,
                      finQueue, finBatch, finPoison, registered, applyVars,
                      threadVars, reservation>>
      BY <1>7 DEF FinalizeStageError
    <2>1. CompletionTypeOK'
      BY <1>7, RejectPendingType, SetStateForCommitTsType
      DEF FinalizeStageError, CompletionTypeOK, SlotStates, TerminalStates
    <2>2. FrontierTypeOK'
      BY <1>7 DEF FinalizeStageError, MarkPublishFailed, FrontierTypeOK,
                  FinalizeTypeOK, Record
    <2>3. QueueTypeOK'
      BY <1>7, PoisonRuntimeType DEF FinalizeStageError, QueueTypeOK
    <2>4. FinalizeTypeOK'
      BY <1>7 DEF FinalizeStageError, FinalizeTypeOK, FinPcs
    <2>5. FlagsTypeOK'
      BY <1>7, PoisonRuntimeType
      DEF FinalizeStageError, FlagsTypeOK, seqVars, applyVars
    <2>6. QED
      BY <2>0, <2>1, <2>2, <2>3, <2>4, <2>5, Keeps
  <1>8. CASE FinalizeDrain
    <2>0. UNCHANGED <<queueVars, outcome, drainVars, seqVars, frontierVars,
                      finPoison, registered, applyVars, threadVars, poisoned>>
      BY <1>8, ZenonT(40) DEF FinalizeDrain
    <2>1. CompletionTypeOK'
      BY <1>8, SetStateType, ZenonT(40)
      DEF FinalizeDrain, CompletionTypeOK, SlotStates, TerminalStates
    <2>2. FinalizeTypeOK'
      <3>1. finBatch' = {} /\ finQueue' = <<>> /\ finPc' = "stopped" /\ UNCHANGED <<finPoison, registered>>
        BY <1>8, <2>0, ZenonT(40) DEF FinalizeDrain
      <3>2. QED
        BY <3>1, SeqNone DEF FinalizeTypeOK, FinPcs
    <2>3. reservation' \in [Txns -> ReservationStates]
      <3>1. PICK Q : reservation' = [t \in Txns |-> IF t \in Q THEN "released" ELSE reservation[t]]
        <4> DEFINE Q == {t \in Txns : \E r \in QueuedForFinalize : r.txn = t}
        <4>1. reservation' = [t \in Txns |-> IF t \in Q THEN "released" ELSE reservation[t]]
          BY <1>8, ZenonT(40) DEF FinalizeDrain
        <4>2. QED
          BY <4>1, ZenonT(40)
      <3>2. QED
        BY <3>1 DEF ReservationStates
    <2>4. FlagsTypeOK'
      BY <2>0 DEF FlagsTypeOK, queueVars, seqVars, applyVars
    <2>5. QED
      BY <2>0, <2>1, <2>2, <2>3, <2>4, Keeps
  <1>9. QED
    BY <1>1, <1>2, <1>3, <1>4, <1>5, <1>6, <1>7, <1>8, ZenonT(40) DEF FinalizeWorker

LEMMA ApplyWorkerType ==
    ASSUME TypeOK, ApplyWorker
    PROVE  TypeOK'
  <1> USE DEF TypeOK
  <1>1. applyQueue # <<>> =>
           /\ Head(applyQueue) \in Record /\ Tail(applyQueue) \in Seq(Record)
           /\ Head(applyQueue).txn \in Txns /\ Head(applyQueue).ts \in Nat
    <2>1. applyQueue # <<>> =>
             Head(applyQueue) \in Record /\ Tail(applyQueue) \in Seq(Record)
      BY SeqTake DEF ApplyTypeOK
    <2>2. QED
      BY <2>1 DEF Record
  <1>2. CASE ApplyPublish
    <2>0. UNCHANGED <<queueVars, completionVars, drainVars, seqVars, durable,
                      blockedTs, finVars, applyQueue, applyDown, threadVars,
                      poisoned, reservation>>
      BY <1>2 DEF ApplyPublish
    <2>1. ApplyTypeOK'
      BY <1>1, <1>2 DEF ApplyPublish, ApplyTypeOK
    <2>2. FrontierTypeOK'
      BY <1>1, <1>2 DEF ApplyPublish, FrontierTypeOK, MaxOf
    <2>3. FlagsTypeOK'
      BY <2>0 DEF FlagsTypeOK, queueVars, seqVars, finVars
    <2>4. QED
      BY <2>0, <2>1, <2>2, <2>3, Keeps
  <1>3. CASE ApplyFail
    <2>0. UNCHANGED <<queueVars, completionVars, drainVars, seqVars, frontierVars,
                      finVars, applyQueue, visible, threadVars, poisoned,
                      reservation>>
      BY <1>3 DEF ApplyFail
    <2>1. ApplyTypeOK'
      BY <1>3 DEF ApplyFail, ApplyTypeOK
    <2>2. FlagsTypeOK'
      BY <1>3 DEF ApplyFail, FlagsTypeOK, queueVars, seqVars, finVars
    <2>3. QED
      BY <2>0, <2>1, <2>2, Keeps
  <1>4. CASE ApplyComplete
    <2>0. UNCHANGED <<queueVars, outcome, drainVars, seqVars, frontierVars,
                      finVars, applyDown, visible, threadVars, poisoned, reservation>>
      BY <1>4 DEF ApplyComplete
    <2>1. ApplyTypeOK'
      BY <1>1, <1>4 DEF ApplyComplete, ApplyTypeOK
    <2>2. CompletionTypeOK'
      BY <1>4, MarkPublishedType DEF ApplyComplete, CompletionTypeOK
    <2>3. FlagsTypeOK'
      BY <2>0 DEF FlagsTypeOK, queueVars, seqVars, finVars
    <2>4. QED
      BY <2>0, <2>1, <2>2, <2>3, Keeps
  <1>5. CASE ApplyCompleteFailed
    <2>0. UNCHANGED <<drainOwner, outcome, drainVars, seqVars, durable, published,
                      finVars, applyDown, visible, threadVars, reservation>>
      BY <1>5 DEF ApplyCompleteFailed
    <2>1. applyQueue # <<>>
      BY <1>5 DEF ApplyCompleteFailed, ApplyTypeOK
    <2>2. ApplyTypeOK'
      BY <1>1, <1>5, <2>1 DEF ApplyCompleteFailed, ApplyTypeOK
    <2>3. CompletionTypeOK'
      BY <1>5, RejectPendingType, SetStateForCommitTsType
      DEF ApplyCompleteFailed, CompletionTypeOK, SlotStates, TerminalStates
    <2>4. FrontierTypeOK'
      BY <1>1, <1>5, <2>1 DEF ApplyCompleteFailed, MarkPublishFailed, FrontierTypeOK
    <2>5. QueueTypeOK'
      BY <1>5, PoisonRuntimeType DEF ApplyCompleteFailed, QueueTypeOK
    <2>6. FlagsTypeOK'
      BY <1>5, PoisonRuntimeType
      DEF ApplyCompleteFailed, FlagsTypeOK, seqVars, finVars
    <2>7. QED
      BY <2>0, <2>2, <2>3, <2>4, <2>5, <2>6, Keeps
  <1>6. QED
    BY <1>2, <1>3, <1>4, <1>5 DEF ApplyWorker

LEMMA TypeStep == TypeOK /\ [Next]_vars => TypeOK'
  <1> SUFFICES ASSUME TypeOK, [Next]_vars PROVE TypeOK'
    OBVIOUS
  <1>1. CASE \E t \in Txns : Submitter(t)
    BY <1>1, SubmitterType
  <1>2. CASE \E w \in Wakers : TakeWakeTask(w)
    BY <1>2, WakeTaskType
  <1>3. CASE \E th \in Threads : DrainInline(th)
    BY <1>3, DrainInlineType
  <1>4. CASE DrainOwner
    BY <1>4, DrainTopType, DrainTakeBufferType, ProcessEntriesType, GrowBatchType,
       SequenceAppendType, DrainRestType
    DEF DrainOwner
  <1>5. CASE FinalizeWorker
    BY <1>5, FinalizeWorkerType
  <1>6. CASE ApplyWorker
    BY <1>6, ApplyWorkerType
  <1>7. CASE UNCHANGED vars
    <2>1. UNCHANGED <<queueVars, completionVars, drainVars, seqVars, frontierVars,
                      finVars, applyVars, threadVars, poisoned, reservation>>
      BY <1>7 DEF vars
    <2>2. FlagsTypeOK'
      BY <2>1 DEF TypeOK, FlagsTypeOK, queueVars, seqVars, finVars, applyVars
    <2>3. QED
      BY <2>1, <2>2, Keeps DEF TypeOK
  <1>8. QED
    BY <1>1, <1>2, <1>3, <1>4, <1>5, <1>6, <1>7 DEF Next

(* Every variable of the runtime keeps its type; in particular the drain    *)
(* owner only grows a batch while it has candidates left, and the apply     *)
(* worker only completes a request it still holds.                          *)
THEOREM TypeCorrect == Spec => []TypeOK
  BY TypeInit, TypeStep, PTL DEF Spec

=============================================================================

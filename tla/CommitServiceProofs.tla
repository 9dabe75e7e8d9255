------------------------ MODULE CommitServiceProofs -------------------------
(* The runtime implements CommitService when its journal has a WAL: the     *)
(* order of the pipeline from sequencer to apply worker, the registration   *)
(* gate, the apply queue, and the answers that stay true.  Without a WAL a  *)
(* batch of two violates the append protocol: it is durable but never       *)
(* registered, and what is registered after it is no prefix.                *)
EXTENDS CommitAnswerProofs

(* A leaf that names no prover goes to Zenon; SMT does the arithmetic, and  *)
(* the records and sets of records.                                         *)
USE ZenonT(100)

(* The batches of a finalize queue are in timestamp order. *)
Ordered(q) ==
    \A i, j \in 1 .. Len(q) : i < j => \A r \in q[i], p \in q[j] : r.ts < p.ts

LEMMA TakeBatch ==
    ASSUME NEW q \in Seq(SUBSET Record), q # <<>>
    PROVE  /\ UNION Elems(q) = Head(q) \cup UNION Elems(Tail(q))
           /\ Ordered(q) =>
                 /\ Ordered(Tail(q))
                 /\ \A r \in Head(q), p \in UNION Elems(Tail(q)) : r.ts < p.ts
  <1>1. Len(Tail(q)) = Len(q) - 1 /\ \A i \in 1 .. Len(Tail(q)) : Tail(q)[i] = q[i + 1]
    BY HeadTailProperties, SMTT(20)
  <1>2. Len(q) \in Nat /\ Len(q) > 0 /\ Head(q) = q[1]
    BY SMTT(20)
  <1> DEFINE t == Tail(q)
             h == Head(q)
             n == Len(q)
  <1>3. Elems(q) = {h} \cup Elems(t)
    BY TakeOnce
  <1> HIDE DEF t, h, n
  <1>4. /\ n \in Nat /\ n > 0 /\ h = q[1] /\ Len(t) = n - 1 /\ Len(q) = n
        /\ \A i \in 1 .. n - 1 : t[i] = q[i + 1]
    BY <1>1, <1>2, SMTT(20) DEF t, h, n
  <1>5. \A i \in 1 .. n - 1 : i + 1 \in 1 .. n /\ 1 \in 1 .. n /\ 1 < i + 1
    BY <1>4, SMTT(20)
  <1>6. \A i, j \in 1 .. n - 1 : i < j => i + 1 < j + 1
    BY <1>4, SMTT(20)
  <1>7. UNION Elems(q) = h \cup UNION Elems(t)
    BY <1>3
  <1>8. ASSUME Ordered(q)
        PROVE  Ordered(t) /\ \A r \in h, p \in UNION Elems(t) : r.ts < p.ts
    <2>1. \A i, j \in 1 .. n : i < j => \A r \in q[i], p \in q[j] : r.ts < p.ts
      BY <1>4, <1>8 DEF Ordered
    <2>2. \A i, j \in 1 .. n - 1 : i < j => \A r \in t[i], p \in t[j] : r.ts < p.ts
      BY <1>4, <1>5, <1>6, <2>1, ZenonT(120)
    <2>3. Ordered(t)
      BY <1>4, <2>2 DEF Ordered
    <2>4. ASSUME NEW r \in h, NEW p \in UNION Elems(t) PROVE r.ts < p.ts
      <3>1. PICK i \in 1 .. n - 1 : p \in t[i]
        BY <1>4, <2>4 DEF Elems
      <3>2. p \in q[i + 1] /\ r \in q[1]
        BY <1>4, <2>4, <3>1
      <3>3. QED
        BY <1>5, <2>1, <3>1, <3>2
    <2>5. QED
      BY <2>3, <2>4
  <1>9. QED
    BY <1>7, <1>8 DEF t, h

LEMMA PutBatch ==
    ASSUME NEW S, NEW q \in Seq(S), NEW B \in S
    PROVE  /\ UNION Elems(Append(q, B)) = (UNION Elems(q)) \cup B
           /\ Ordered(q) /\ (\A r \in UNION Elems(q), p \in B : r.ts < p.ts) =>
                 Ordered(Append(q, B))
  <1> DEFINE a == Append(q, B)
             n == Len(q)
  <1>1. /\ Len(a) = n + 1 /\ n \in Nat
        /\ \A i \in 1 .. n : a[i] = q[i]
        /\ a[n + 1] = B
    BY AppendProperties, SMTT(20)
  <1>2. Elems(a) = Elems(q) \cup {B}
    BY ElemsPut, SMTT(20) DEF a
  <1> HIDE DEF a
  <1>3. UNION Elems(a) = (UNION Elems(q)) \cup B
    BY <1>2
  <1>4. ASSUME Ordered(q), \A r \in UNION Elems(q), p \in B : r.ts < p.ts
        PROVE  Ordered(a)
    <2> SUFFICES ASSUME NEW i \in 1 .. n + 1, NEW j \in 1 .. n + 1, i < j,
                        NEW r \in a[i], NEW p \in a[j]
                 PROVE  r.ts < p.ts
      BY <1>1 DEF Ordered
    <2>1. i \in 1 .. n /\ (j \in 1 .. n \/ j = n + 1)
      BY <1>1, SMTT(20)
    <2>2. r \in q[i] /\ r \in UNION Elems(q)
      BY <1>1, <2>1 DEF Elems
    <2>3. CASE j \in 1 .. n
      BY <1>1, <1>4, <2>1, <2>2, <2>3 DEF Ordered
    <2>4. CASE j = n + 1
      BY <1>1, <1>4, <2>2, <2>4
    <2>5. QED
      BY <2>1, <2>3, <2>4
  <1>5. QED
    BY <1>3, <1>4 DEF a

----------------------------------------------------------------------------
(* Which steps write which variables. *)

LEMMA SequencerFrame ==
    ASSUME [Next]_vars, ~SequenceAppend
    PROVE  UNCHANGED <<journal, nextTs>> /\ (ScheduleBatch \/ UNCHANGED accepted)
  BY DEF Next, Submitter, SubmitCommit, EnqueueJob, SignalDrain, WaitCompletion,
    TakeWakeTask, DrainInline, DrainOwner, DrainTop, DrainTakeBuffer, ProcessEntries,
    GrowBatch, MarkBatchDurable, ScheduleBatch, PoisonAfterSchedule, DrainTurn,
    DrainRelease, FinalizeWorker, FinalizePop, FinalizePhase1, FinalizeRegister,
    FinalizeSubmit, FinalizeSubmitted, FinalizeFail, FinalizeStageError, FinalizeDrain,
    ApplyWorker, ApplyPublish, ApplyFail, ApplyComplete, ApplyCompleteFailed, vars, seqVars,
    drainVars

LEMMA StageQueueFrame ==
    ASSUME [Next]_vars, ~FinalizeWorker, ~ScheduleBatch
    PROVE  UNCHANGED finQueue
  BY DEF Next, Submitter, SubmitCommit, EnqueueJob, SignalDrain, WaitCompletion,
    TakeWakeTask, DrainInline, DrainOwner, DrainTop, DrainTakeBuffer, ProcessEntries,
    GrowBatch, SequenceAppend, MarkBatchDurable, PoisonAfterSchedule, DrainTurn,
    DrainRelease, ApplyWorker, ApplyPublish, ApplyFail, ApplyComplete, ApplyCompleteFailed,
    vars, finVars

LEMMA ReservationFrame ==
    ASSUME [Next]_vars, ~FinalizeWorker, ~ScheduleBatch, ~SequenceAppend
    PROVE  UNCHANGED reservation
  BY DEF Next, Submitter, SubmitCommit, EnqueueJob, SignalDrain, WaitCompletion,
    TakeWakeTask, DrainInline, DrainOwner, DrainTop, DrainTakeBuffer, ProcessEntries,
    GrowBatch, MarkBatchDurable, PoisonAfterSchedule, DrainTurn,
    DrainRelease, ApplyWorker, ApplyPublish, ApplyFail, ApplyComplete, ApplyCompleteFailed,
    vars

LEMMA ApplyFrame ==
    ASSUME [Next]_vars, ~ApplyWorker
    PROVE  UNCHANGED <<applyPc, applyDown, visible, published>>
           /\ (FinalizeSubmit \/ UNCHANGED applyQueue)
  BY DEF Next, Submitter, SubmitCommit, EnqueueJob, SignalDrain, WaitCompletion,
    TakeWakeTask, DrainInline, DrainOwner, DrainTop, DrainTakeBuffer, ProcessEntries,
    GrowBatch, SequenceAppend, MarkBatchDurable, ScheduleBatch, PoisonAfterSchedule, DrainTurn,
    DrainRelease, FinalizeWorker, FinalizePop, FinalizePhase1, FinalizeRegister,
    FinalizeSubmit, FinalizeSubmitted, FinalizeFail, FinalizeStageError, FinalizeDrain,
    vars, applyVars, frontierVars

----------------------------------------------------------------------------
(* The order of the pipeline: what the finalize worker works on comes       *)
(* before what is queued, that before what the drain owner has just         *)
(* appended, and together they are all that is not yet registered.          *)

Stopping == {"fail_hook", "fail_drain", "stopped"}

(* Accepted commits exist only between append and schedule.                 *)
OwnerInv ==
    /\ drainOwner = NoThread => dpc = "idle"
    /\ dpc \notin {"mark", "schedule"} => accepted = {}

(* What the finalize worker holds comes before what waits in its queue,     *)
(* that before what the drain owner is about to schedule; and all of it is  *)
(* beyond the registration gate, but for the commit at the gate.            *)
InOrder ==
    /\ Ordered(finQueue)
    /\ \A r \in finBatch, q \in QueuedForFinalize \cup accepted : r.ts < q.ts
    /\ \A r \in QueuedForFinalize, q \in accepted : r.ts < q.ts
    /\ \A q \in QueuedForFinalize \cup accepted : q.ts > registered
    /\ \A r \in finBatch : r.ts >= registered

(* The gate stands at the current commit from the registration of that      *)
(* commit to its submission.                                                *)
StageInv ==
    /\ finPoison => finPc \in Stopping
    /\ finPc = "pop" => finBatch = {}
    /\ finPc \in {"phase1", "register"} => \A r \in finBatch : r.ts > registered
    /\ finPc \in {"submit", "hook"} => \A r \in Current : r.ts = registered
    /\ registered < nextTs

(* While the finalize worker runs, every durable commit beyond the gate is  *)
(* still on its way to the gate: none is skipped.                           *)
Covered ==
    finPc \notin Stopping =>
        \A r \in journal : r.ts > registered => r \in finBatch \cup QueuedForFinalize \cup accepted

OrderInv == OwnerInv /\ InOrder /\ StageInv /\ Covered

LEMMA OwnerStep ==
    ASSUME TypeOK, OwnerInv, Once, TypeOK', [Next]_vars
    PROVE  OwnerInv'
  <1>1. CASE SequenceAppend
    <2>1. PICK recs, R : AppendEffect(recs, R)
      BY <1>1, SequenceAppendEffect DEF Once
    <2>2. dpc = "append" /\ UNCHANGED drainOwner
      BY <1>1 DEF SequenceAppend
    <2>3. accepted = {} /\ drainOwner # NoThread
      BY <2>2 DEF OwnerInv
    <2>4. dpc' = "mark" \/ accepted' = accepted
      BY <2>1 DEF AppendEffect, Withdrawn, Logged
    <2>5. QED
      BY <2>2, <2>3, <2>4 DEF OwnerInv
  <1>2. CASE DrainOwner /\ ~SequenceAppend
    BY <1>2 DEF OwnerInv, DrainOwner, DrainTop, DrainTakeBuffer, ProcessEntries,
      GrowBatch, MarkBatchDurable, ScheduleBatch, PoisonAfterSchedule, DrainTurn,
      DrainRelease, ReleaseDrainOwner, queueVars
  <1>3. ASSUME NEW th \in Threads, DrainInline(th) PROVE OwnerInv'
    BY <1>3, QueueAssumption DEF OwnerInv, DrainInline, TryAcquireDrainOwner
  <1>4. CASE UNCHANGED <<drainOwner, dpc, accepted>>
    BY <1>4 DEF OwnerInv
  <1>5. CASE (\E t \in Txns : Submitter(t)) \/ (\E w \in Wakers : TakeWakeTask(w))
             \/ UNCHANGED vars
    BY <1>4, <1>5 DEF Submitter, SubmitCommit, EnqueueJob, SignalDrain, WaitCompletion,
      TakeWakeTask, vars, queueVars, drainVars
  <1>6. CASE FinalizeWorker \/ ApplyWorker
    BY <1>4, <1>6 DEF FinalizeWorker, FinalizePop, FinalizePhase1, FinalizeRegister,
      FinalizeSubmit, FinalizeSubmitted, FinalizeFail, FinalizeStageError, FinalizeDrain,
      ApplyWorker, ApplyPublish, ApplyFail, ApplyComplete, ApplyCompleteFailed,
      queueVars, drainVars
  <1>7. QED
    BY <1>1, <1>2, <1>3, <1>5, <1>6 DEF Next

(* The current commit is the next one to be registered. *)
LEMMA CurrentIsNext ==
    ASSUME TypeOK, PipelineInv, OrderInv, finPc \in {"phase1", "register"}, NEW r \in Current
    PROVE  r.ts = registered + 1
  <1>1. r \in journal /\ r \in finBatch /\ r.ts > registered /\ finPc \notin Stopping
    BY CurrentInJournal DEF Current, OrderInv, StageInv, Stopping
  <1>2. r.ts \in Nat /\ r.ts < nextTs /\ registered \in Nat /\ nextTs \in Nat
    BY <1>1, JournalTs DEF TypeOK, FinalizeTypeOK, SequencerTypeOK
  <1>3. registered + 1 \in 1 .. nextTs - 1 /\ registered + 1 > registered /\ registered + 1 \in Nat
    BY <1>1, <1>2, SMTT(20)
  <1>4. PICK q \in journal : q.ts = registered + 1
    BY <1>3 DEF PipelineInv, JournalDense
  <1>5. q \in finBatch \cup QueuedForFinalize \cup accepted
    BY <1>1, <1>3, <1>4 DEF OrderInv, Covered
  <1>6. r.ts <= q.ts \/ r.ts < q.ts
    BY <1>1, <1>5 DEF OrderInv, InOrder, Current, IsCurrent
  <1>7. QED
    BY <1>1, <1>2, <1>3, <1>4, <1>6, SMTT(20)

LEMMA AppendOrder ==
    ASSUME TypeOK, TypeOK', PipelineInv, Once, HasWal, OrderInv, SequenceAppend
    PROVE  InOrder' /\ StageInv' /\ Covered'
  <1>1. PICK recs, R : AppendEffect(recs, R)
    BY SequenceAppendEffect DEF Once
  <1>2. /\ UNCHANGED <<finQueue, finPc, finBatch, finPoison, registered>>
        /\ QueuedForFinalize' = QueuedForFinalize /\ Current' = Current
    BY DEF SequenceAppend, finVars, QueuedForFinalize, Current, IsCurrent
  <1>3. dpc = "append" /\ accepted = {}
    BY DEF SequenceAppend, OrderInv, OwnerInv
  <1>4. CASE Withdrawn(recs)
    <2>1. UNCHANGED <<journal, nextTs, accepted>>
      BY <1>4 DEF Withdrawn
    <2>2. QED
      BY <1>2, <2>1 DEF OrderInv, InOrder, StageInv, Covered
  <1>5. CASE Logged(recs)
    <2>1. /\ journal' = journal \cup recs /\ accepted' = recs /\ nextTs' \in Nat
          /\ nextTs' > nextTs /\ \A r \in recs : r.ts \in nextTs .. nextTs' - 1
      BY <1>5 DEF Logged
    <2>2. nextTs \in Nat /\ registered \in Nat /\ registered < nextTs
      BY DEF TypeOK, SequencerTypeOK, FinalizeTypeOK, OrderInv, StageInv
    <2>3. \A r \in recs : r.ts \in Nat /\ r.ts >= nextTs /\ r.ts > registered
      BY <2>1, <2>2, SMTT(20)
    <2>4. \A r \in finBatch \cup QueuedForFinalize : r.ts \in Nat /\ r.ts < nextTs
      BY CurrentInJournal, JournalTs
    <2>5. \A r \in finBatch \cup QueuedForFinalize, q \in recs : r.ts < q.ts
      BY <2>2, <2>3, <2>4, SMTT(20)
    <2>6. registered < nextTs'
      BY <2>1, <2>2, SMTT(20)
    <2>7. InOrder'
      BY <1>2, <2>1, <2>3, <2>5 DEF OrderInv, InOrder
    <2>8. StageInv'
      BY <1>2, <2>6 DEF OrderInv, StageInv
    <2>9. Covered'
      BY <1>2, <1>3, <2>1 DEF OrderInv, Covered
    <2>10. QED
      BY <2>7, <2>8, <2>9
  <1>6. QED
    BY <1>1, <1>4, <1>5 DEF AppendEffect

LEMMA ScheduleOrder ==
    ASSUME TypeOK, TypeOK', PipelineInv, OrderInv, ScheduleBatch
    PROVE  InOrder' /\ StageInv' /\ Covered'
  <1>1. /\ UNCHANGED <<finPc, finBatch, finPoison, registered, journal, nextTs>>
        /\ Current' = Current /\ accepted' = {}
    BY DEF ScheduleBatch, seqVars, Current, IsCurrent
  <1>2. CASE UNCHANGED finQueue /\ finPoison
    <2>1. QueuedForFinalize' = QueuedForFinalize /\ finPc \in Stopping
      BY <1>2 DEF QueuedForFinalize, OrderInv, StageInv
    <2>2. QED
      BY <1>1, <1>2, <2>1 DEF OrderInv, InOrder, StageInv, Covered
  <1>3. CASE finQueue' = Append(finQueue, accepted)
    <2>1. finQueue \in Seq(SUBSET Record) /\ accepted \in SUBSET Record
      BY DEF TypeOK, FinalizeTypeOK, DrainTypeOK
    <2>2. Ordered(finQueue) /\ \A r \in UNION Elems(finQueue), q \in accepted : r.ts < q.ts
      BY DEF OrderInv, InOrder, QueuedForFinalize
    <2> DEFINE a == Append(finQueue, accepted)
    <2>3. UNION Elems(a) = (UNION Elems(finQueue)) \cup accepted /\ Ordered(a)
      <3> DEFINE S == SUBSET Record
      <3>1. finQueue \in Seq(S) /\ accepted \in S
        BY <2>1
      <3> HIDE DEF S
      <3>2. QED
        BY <2>2, <3>1, PutBatch, ZenonT(120)
    <2>4. finQueue' = a
      BY <1>3
    <2> HIDE DEF a
    <2>5. QueuedForFinalize' = QueuedForFinalize \cup accepted /\ Ordered(finQueue')
      BY <2>3, <2>4 DEF QueuedForFinalize
    <2>6. QED
      BY <1>1, <2>5 DEF OrderInv, InOrder, StageInv, Covered
  <1>4. QED
    BY <1>2, <1>3 DEF ScheduleBatch

LEMMA FinalizeOrder ==
    ASSUME TypeOK, TypeOK', PipelineInv, OrderInv, FinalizeWorker
    PROVE  InOrder' /\ StageInv' /\ Covered'
  <1>0. UNCHANGED <<journal, nextTs, accepted>>
    BY DEF FinalizeWorker, FinalizePop, FinalizePhase1, FinalizeRegister,
      FinalizeSubmit, FinalizeSubmitted, FinalizeFail, FinalizeStageError, FinalizeDrain,
      seqVars, drainVars
  <1>1. InOrder /\ StageInv /\ Covered
    BY DEF OrderInv
  <1>2. registered \in Nat /\ nextTs \in Nat
    BY DEF TypeOK, FinalizeTypeOK, SequencerTypeOK
  <1>3. CASE FinalizePop
    <2>1. /\ finPc = "pop" /\ finPc' = "phase1" /\ finBatch' = Head(finQueue)
          /\ finQueue' = Tail(finQueue) /\ UNCHANGED <<finPoison, registered>>
      BY <1>3 DEF FinalizePop
    <2>2. finBatch = {} /\ ~finPoison
      BY <1>1, <2>1 DEF StageInv, Stopping
    <2>3. finQueue \in Seq(SUBSET Record) /\ finQueue # <<>> /\ Ordered(finQueue)
      BY <1>1, <1>3 DEF TypeOK, FinalizeTypeOK, InOrder, FinalizePop
    <2>4. /\ UNION Elems(finQueue) = Head(finQueue) \cup UNION Elems(Tail(finQueue))
          /\ Ordered(Tail(finQueue))
          /\ \A r \in Head(finQueue), p \in UNION Elems(Tail(finQueue)) : r.ts < p.ts
      BY <2>3, TakeBatch
    <2>5. /\ QueuedForFinalize = finBatch' \cup QueuedForFinalize'
          /\ Ordered(finQueue') /\ \A r \in finBatch', p \in QueuedForFinalize' : r.ts < p.ts
      BY <2>1, <2>4 DEF QueuedForFinalize
    <2>6. \A r \in finBatch' : r.ts > registered /\ r.ts >= registered
      <3>1. \A r \in finBatch' : r.ts > registered /\ r.ts \in Nat
        BY <1>1, <2>5, CurrentInJournal, JournalTs DEF InOrder
      <3>2. QED
        BY <1>2, <3>1, SMTT(20)
    <2>7. InOrder'
      BY <1>0, <1>1, <2>1, <2>5, <2>6 DEF InOrder
    <2>8. StageInv'
      BY <1>0, <1>1, <2>1, <2>2, <2>6 DEF StageInv
    <2>9. Covered'
      BY <1>0, <1>1, <2>1, <2>2, <2>5 DEF Covered, Stopping
    <2>10. QED
      BY <2>7, <2>8, <2>9
  <1>4. CASE FinalizePhase1 \/ FinalizeSubmit \/ FinalizeFail \/ FinalizeStageError
    <2>1. UNCHANGED <<finQueue, finBatch, registered>>
      BY <1>4 DEF FinalizePhase1, FinalizeSubmit, FinalizeFail, FinalizeStageError
    <2>2. QueuedForFinalize' = QueuedForFinalize /\ Current' = Current
      BY <2>1 DEF QueuedForFinalize, Current, IsCurrent
    <2>3. /\ finPc' # "pop" /\ (finPc' \in Stopping \/ finPc \notin Stopping)
          /\ finPc' \in {"phase1", "register"} => finPc = "phase1"
          /\ finPc' \in {"submit", "hook"} => finPc = "submit"
          /\ finPoison' => finPc' \in Stopping
      <3>1. CASE FinalizePhase1
        BY <1>1, <3>1 DEF FinalizePhase1, StageInv, Stopping
      <3>2. CASE FinalizeSubmit
        BY <1>1, <3>2 DEF FinalizeSubmit, StageInv, Stopping
      <3>3. CASE FinalizeFail
        BY <1>1, <3>3 DEF FinalizeFail, StageInv, Stopping
      <3>4. CASE FinalizeStageError
        BY <1>1, <3>4 DEF FinalizeStageError, StageInv, Stopping
      <3>5. QED
        BY <1>4, <3>1, <3>2, <3>3, <3>4
    <2>4. QED
      BY <1>0, <1>1, <2>1, <2>2, <2>3 DEF InOrder, StageInv, Covered
  <1>5. CASE FinalizeRegister
    <2>1. /\ finPc = "register" /\ finPc' = "submit" /\ UNCHANGED <<finQueue, finBatch, finPoison>>
      BY <1>5 DEF FinalizeRegister
    <2>2. PICK r \in finBatch : IsCurrent(r) /\ registered' = MaxOf(registered, r.ts)
      BY <1>5 DEF FinalizeRegister
    <2>3. r.ts = registered + 1 /\ r \in journal /\ r \in Current
      BY <2>1, <2>2, CurrentIsNext, CurrentInJournal DEF Current
    <2>4. registered' = r.ts /\ r.ts > registered
      BY <1>2, <2>2, <2>3, SMTT(20) DEF MaxOf
    <2>5. QueuedForFinalize' = QueuedForFinalize /\ Current' = Current
      BY <2>1 DEF QueuedForFinalize, Current, IsCurrent
    <2>6. InOrder'
      <3>1. \A q \in QueuedForFinalize \cup accepted : q.ts \in Nat /\ r.ts < q.ts
        BY <1>1, CurrentInJournal, JournalTs DEF InOrder
      <3>2. \A q \in QueuedForFinalize \cup accepted : q.ts > r.ts
        BY <2>3, <1>2, <3>1, SMTT(20)
      <3>3. \A q \in finBatch : q.ts \in Nat /\ r.ts <= q.ts
        BY <2>2, CurrentInJournal, JournalTs DEF IsCurrent
      <3>4. \A q \in finBatch : q.ts >= r.ts
        BY <1>2, <2>3, <3>3, SMTT(20)
      <3>5. QED
        BY <1>0, <1>1, <2>1, <2>4, <2>5, <3>2, <3>4 DEF InOrder
    <2>7. StageInv'
      <3>1. \A q \in Current : q.ts = registered'
        BY <2>3, <2>4, CurrentUnique, SMTT(20)
      <3>2. registered' < nextTs
        BY <2>3, <2>4, JournalTs
      <3>3. QED
        BY <1>0, <1>1, <2>1, <2>5, <3>1, <3>2 DEF StageInv, Stopping
    <2>8. Covered'
      <3>1. \A q \in journal : q.ts > registered' => q.ts > registered
        <4>1. \A q \in journal : q.ts \in Nat
          BY JournalTs
        <4>2. QED
          BY <1>2, <2>3, <2>4, <4>1, SMTT(20)
      <3>2. QED
        BY <1>0, <1>1, <2>1, <2>5, <3>1 DEF Covered, Stopping
    <2>9. QED
      BY <2>6, <2>7, <2>8
  <1>6. CASE FinalizeSubmitted
    <2>1. PICK r \in finBatch : /\ IsCurrent(r) /\ finBatch' = finBatch \ {r}
                                /\ finPc' = IF finBatch = {r} THEN "pop" ELSE "phase1"
      BY <1>6 DEF FinalizeSubmitted
    <2>2. finPc = "hook" /\ UNCHANGED <<finQueue, finPoison, registered>>
      BY <1>6 DEF FinalizeSubmitted
    <2>3. QueuedForFinalize' = QueuedForFinalize
      BY <2>2 DEF QueuedForFinalize
    <2>4. r.ts = registered /\ r \in journal
      BY <1>1, <2>1, <2>2, CurrentInJournal DEF StageInv, Current
    <2>5. \A q \in finBatch' : q.ts > registered
      <3> SUFFICES ASSUME NEW q \in finBatch' PROVE q.ts > registered
        OBVIOUS
      <3>1. q \in finBatch /\ q # r /\ q \in journal
        BY <2>1, CurrentInJournal
      <3>2. q.ts # r.ts
        BY <2>4, <3>1 DEF PipelineInv, JournalDense
      <3>3. q.ts >= registered /\ q.ts \in Nat
        BY <1>1, <3>1, JournalTs DEF InOrder
      <3>4. QED
        BY <1>2, <2>4, <3>2, <3>3, SMTT(20)
    <2>6. InOrder'
      BY <1>0, <1>1, <2>1, <2>2, <2>3 DEF InOrder
    <2>7. StageInv'
      <3>1. finPc' = "pop" => finBatch' = {}
        BY <2>1
      <3>2. finPc' \in {"pop", "phase1"}
        BY <2>1
      <3>3. ~finPoison
        BY <1>1, <2>2 DEF StageInv, Stopping
      <3>4. QED
        BY <1>0, <1>1, <2>2, <2>5, <3>1, <3>2, <3>3 DEF StageInv
    <2>8. Covered'
      <3>1. r.ts > registered => FALSE
        BY <1>2, <2>4, SMTT(20)
      <3>2. finPc \notin Stopping
        BY <2>2 DEF Stopping
      <3>3. QED
        BY <1>0, <1>1, <2>1, <2>2, <2>3, <3>1, <3>2 DEF Covered
    <2>9. QED
      BY <2>6, <2>7, <2>8
  <1>7. CASE FinalizeDrain
    <2>1. /\ finBatch' = {} /\ finQueue' = <<>> /\ finPc' = "stopped"
          /\ UNCHANGED <<finPoison, registered>>
      BY <1>7 DEF FinalizeDrain
    <2>2. QueuedForFinalize' = {} /\ Ordered(finQueue')
      BY <2>1, NothingOnce, SMTT(20) DEF QueuedForFinalize, Ordered
    <2>3. QED
      BY <1>0, <1>1, <2>1, <2>2 DEF InOrder, StageInv, Covered, Stopping
  <1>8. QED
    BY <1>3, <1>4, <1>5, <1>6, <1>7 DEF FinalizeWorker

LEMMA OrderStep ==
    ASSUME TypeOK, TypeOK', PipelineInv, Once, HasWal, OrderInv, [Next]_vars
    PROVE  OrderInv'
  <1>1. OwnerInv'
    BY OwnerStep DEF OrderInv
  <1>2. CASE FinalizeWorker
    BY <1>1, <1>2, FinalizeOrder DEF OrderInv
  <1>3. CASE SequenceAppend
    BY <1>1, <1>3, AppendOrder DEF OrderInv
  <1>4. CASE ScheduleBatch
    BY <1>1, <1>4, ScheduleOrder DEF OrderInv
  <1>5. CASE ~FinalizeWorker /\ ~SequenceAppend /\ ~ScheduleBatch
    <2>1. UNCHANGED <<finPc, finBatch, finPoison, registered, finQueue, journal, nextTs, accepted>>
      BY <1>5, FinalizeFrame, SequencerFrame, StageQueueFrame
    <2>2. QueuedForFinalize' = QueuedForFinalize /\ Current' = Current
      BY <2>1 DEF QueuedForFinalize, Current, IsCurrent
    <2>3. QED
      BY <1>1, <2>1, <2>2 DEF OrderInv, InOrder, StageInv, Covered
  <1>6. QED
    BY <1>2, <1>3, <1>4, <1>5

----------------------------------------------------------------------------
(* Registration: the gate is a prefix of the journal, and a batch with a    *)
(* serializable commit is built only when the prefix is the whole journal.  *)

(* The reservation is applied before the gate moves.                        *)
CurrentApplied ==
    finPc \in {"register", "submit", "hook"} => \A r \in Current : reservation[r.txn] = "applied"

(* should_block_on_registration keeps a serializable commit out of the      *)
(* batch until the gate has reached the clock.                              *)
FencedBatch ==
    dpc \in {"grow", "append"} /\ Elems(batch) \cap Serializable # {} => registered >= nextTs - 1

ReservationInv == RegisteredIsPrefix /\ CurrentApplied /\ FencedBatch

(* A step that takes the reservation only of commits beyond the gate. *)
LEMMA PrefixKept ==
    ASSUME TypeOK, Once, RegisteredIsPrefix, NEW Q \in SUBSET journal,
           \A q \in Q : q.ts > registered,
           \A t \in Txns : reservation'[t] = reservation[t] \/ \E q \in Q : q.txn = t,
           UNCHANGED <<journal, registered>>
    PROVE  RegisteredIsPrefix'
  <1> SUFFICES ASSUME NEW r \in journal, r.ts <= registered
               PROVE  reservation'[r.txn] = "applied"
    BY DEF RegisteredIsPrefix
  <1>1. registered \in Nat /\ r.ts \in Nat /\ r.txn \in Txns
    BY SMTT(20) DEF TypeOK, SequencerTypeOK, FinalizeTypeOK, Record
  <1>2. ASSUME NEW q \in Q, q.txn = r.txn PROVE FALSE
    <2>1. q = r
      BY <1>2 DEF Once, JournalOnce
    <2>2. r.ts > registered
      BY <2>1
    <2>3. QED
      BY <1>1, <2>2, SMTT(20)
  <1>3. QED
    BY <1>1, <1>2 DEF RegisteredIsPrefix

LEMMA AppendReservation ==
    ASSUME TypeOK, TypeOK', PipelineInv, Once, HasWal, OrderInv, ReservationInv, SequenceAppend
    PROVE  ReservationInv'
  <1>1. PICK recs, R : AppendEffect(recs, R)
    BY SequenceAppendEffect DEF Once
  <1>2. UNCHANGED <<finPc, finBatch, registered>> /\ Current' = Current
    BY DEF SequenceAppend, finVars, Current, IsCurrent
  <1>3. \A r \in recs : r.txn \in Waiting
    BY <1>1 DEF AppendEffect, Waiting
  <1>4. \A r \in journal : r.txn \in Txns /\ reservation'[r.txn] = reservation[r.txn]
    <2> SUFFICES ASSUME NEW r \in journal
                 PROVE  r.txn \in Txns /\ reservation'[r.txn] = reservation[r.txn]
      OBVIOUS
    <2>1. r.txn \in Txns /\ r.txn \in JournalTxns
      BY JournalTs DEF JournalTxns
    <2>2. \A q \in recs : q.txn \notin JournalTxns
      BY <1>3 DEF Once, WaitingInv
    <2>3. reservation'[r.txn] = reservation[r.txn] \/ \E q \in recs : q.txn = r.txn
      BY <1>1, <2>1 DEF AppendEffect
    <2>4. QED
      BY <2>1, <2>2, <2>3
  <1>5. dpc' \in {"front", "mark"}
    BY <1>1 DEF AppendEffect, Withdrawn, Logged
  <1>6. CurrentApplied'
    BY <1>2, <1>4, CurrentInJournal DEF ReservationInv, CurrentApplied, Current
  <1>7. \A r \in journal' : r.ts <= registered => r \in journal
    <2>1. CASE Withdrawn(recs)
      BY <2>1 DEF Withdrawn
    <2>2. CASE Logged(recs)
      <3>1. journal' = journal \cup recs /\ \A r \in recs : r.ts \in nextTs .. nextTs' - 1
        BY <2>2 DEF Logged
      <3>2. nextTs \in Nat /\ nextTs' \in Nat /\ registered \in Nat /\ registered < nextTs
        BY DEF TypeOK, SequencerTypeOK, FinalizeTypeOK, OrderInv, StageInv
      <3>3. \A r \in recs : ~(r.ts <= registered)
        BY <3>1, <3>2, SMTT(20)
      <3>4. QED
        BY <3>1, <3>3
    <2>3. QED
      BY <1>1, <2>1, <2>2 DEF AppendEffect
  <1>8. RegisteredIsPrefix'
    BY <1>2, <1>4, <1>7 DEF ReservationInv, RegisteredIsPrefix
  <1>9. QED
    BY <1>5, <1>6, <1>8 DEF ReservationInv, FencedBatch

LEMMA ScheduleReservation ==
    ASSUME TypeOK, TypeOK', PipelineInv, Once, OrderInv, ReservationInv, ScheduleBatch
    PROVE  ReservationInv'
  <1>1. /\ UNCHANGED <<finPc, finBatch, finPoison, registered, journal>>
        /\ Current' = Current /\ dpc' \in {"front", "poison"}
    BY DEF ScheduleBatch, seqVars, Current, IsCurrent
  <1>2. \/ UNCHANGED reservation
        \/ finPoison /\ reservation' = [t \in Txns |-> IF \E r \in accepted : r.txn = t
                                                      THEN "dropped" ELSE reservation[t]]
    BY DEF ScheduleBatch
  <1>3. \A t \in Txns : reservation'[t] = reservation[t] \/ \E q \in accepted : q.txn = t
    BY <1>2
  <1>4. accepted \in SUBSET journal /\ \A q \in accepted : q.ts > registered
    BY DEF PipelineInv, ScheduledIsDurable, OrderInv, InOrder
  <1>5. RegisteredIsPrefix'
    BY <1>1, <1>3, <1>4, PrefixKept DEF ReservationInv
  <1>6. CurrentApplied'
    BY <1>1, <1>2 DEF ReservationInv, CurrentApplied, OrderInv, StageInv, Stopping
  <1>7. QED
    BY <1>1, <1>5, <1>6 DEF ReservationInv, FencedBatch

(* The drain owner starts or extends a batch. *)
LEMMA BuildReservation ==
    ASSUME TypeOK, TypeOK', FencedBatch, ProcessEntries \/ GrowBatch
    PROVE  FencedBatch'
  <1>1. UNCHANGED <<registered, nextTs>> /\ registered \in Nat /\ nextTs \in Nat \ {0}
    BY DEF ProcessEntries, GrowBatch, finVars, seqVars, TypeOK, FinalizeTypeOK, SequencerTypeOK
  <1>2. ASSUME NEW t, t \in Serializable, ~ShouldBlockOnRegistration(t)
        PROVE  registered >= nextTs - 1
    BY <1>1, <1>2, SMTT(20) DEF ShouldBlockOnRegistration, PredecessorTs
  <1>3. local \in Seq(Txns) /\ batch \in Seq(Txns)
    BY DEF TypeOK, DrainTypeOK
  <1>4. CASE dpc = "front" /\ dpc' \in {"front", "turn"}
    BY <1>4 DEF FencedBatch
  <1>5. CASE /\ ~ShouldBlockOnRegistration(Head(local)) /\ batch' = <<Head(local)>>
    <2>1. Elems(batch') = {Head(local)}
      BY <1>5, SMTT(20) DEF Elems
    <2>2. QED
      BY <1>1, <1>2, <1>5, <2>1 DEF FencedBatch
  <1>6. CASE /\ ~ShouldBlockOnRegistration(Head(local)) /\ local # <<>>
             /\ dpc = "grow" /\ batch' = Append(batch, Head(local))
    <2>1. Head(local) \in Txns
      BY <1>3, <1>6, SMTT(20)
    <2>2. Elems(batch') = Elems(batch) \cup {Head(local)}
      BY <1>3, <1>6, <2>1, ElemsPut, SMTT(20)
    <2>3. QED
      BY <1>1, <1>2, <1>6, <2>2 DEF FencedBatch
  <1>7. CASE dpc = "grow" /\ UNCHANGED batch
    BY <1>1, <1>7 DEF FencedBatch
  <1>8. CASE ProcessEntries
    BY <1>4, <1>5, <1>8 DEF ProcessEntries, ProcessDone, ProcessRejected, ProcessBlocked,
      ProcessKeptBehind, ProcessStartsBatch
  <1>9. CASE GrowBatch
    BY <1>6, <1>7, <1>9 DEF GrowBatch, GrowBlocked, GrowStops, GrowTakes, TypeOK, DrainTypeOK
  <1>10. QED
    BY <1>8, <1>9

LEMMA BatchFrame ==
    ASSUME [Next]_vars, ~SequenceAppend, ~ProcessEntries, ~GrowBatch
    PROVE  dpc' \notin {"grow", "append"} \/ UNCHANGED <<dpc, batch>>
  BY DEF Next, Submitter, SubmitCommit, EnqueueJob, SignalDrain, WaitCompletion,
    TakeWakeTask, DrainInline, DrainOwner, DrainTop, DrainTakeBuffer,
    MarkBatchDurable, ScheduleBatch, PoisonAfterSchedule, DrainTurn,
    DrainRelease, FinalizeWorker, FinalizePop, FinalizePhase1, FinalizeRegister,
    FinalizeSubmit, FinalizeSubmitted, FinalizeFail, FinalizeStageError, FinalizeDrain,
    ApplyWorker, ApplyPublish, ApplyFail, ApplyComplete, ApplyCompleteFailed,
    vars, drainVars

LEMMA FinalizeReservation ==
    ASSUME TypeOK, TypeOK', PipelineInv, Once, OrderInv, ReservationInv, FinalizeWorker
    PROVE  ReservationInv'
  <1>0. UNCHANGED <<journal, nextTs, dpc, batch>>
    BY DEF FinalizeWorker, FinalizePop, FinalizePhase1, FinalizeRegister,
      FinalizeSubmit, FinalizeSubmitted, FinalizeFail, FinalizeStageError, FinalizeDrain,
      seqVars, drainVars
  <1>1. RegisteredIsPrefix /\ CurrentApplied /\ FencedBatch /\ InOrder /\ StageInv
    BY DEF ReservationInv, OrderInv
  <1>2. registered \in Nat /\ nextTs \in Nat /\ reservation \in [Txns -> ReservationStates]
    BY DEF TypeOK, FinalizeTypeOK, SequencerTypeOK
  <1>3. CASE FinalizePop \/ FinalizeSubmit \/ FinalizeSubmitted \/ FinalizeStageError
    <2>1. UNCHANGED <<registered, reservation>>
      BY <1>3 DEF FinalizePop, FinalizeSubmit, FinalizeSubmitted, FinalizeStageError
    <2>2. \/ finPc' \notin {"register", "submit", "hook"}
          \/ finPc = "submit" /\ UNCHANGED finBatch
      BY <1>3 DEF FinalizePop, FinalizeSubmit, FinalizeSubmitted, FinalizeStageError
    <2>3. UNCHANGED finBatch => Current' = Current
      BY DEF Current, IsCurrent
    <2>4. QED
      BY <1>0, <1>1, <2>1, <2>2, <2>3 DEF ReservationInv, RegisteredIsPrefix, CurrentApplied, FencedBatch
  <1>4. CASE FinalizePhase1
    <2>1. finPc = "phase1" /\ UNCHANGED <<finBatch, registered>>
      BY <1>4 DEF FinalizePhase1
    <2>2. PICK r \in finBatch :
            /\ IsCurrent(r)
            /\ \/ /\ reservation' = [reservation EXCEPT ![r.txn] = "applied"]
                  /\ finPc' = "register"
               \/ /\ reservation' = [reservation EXCEPT ![r.txn] = "panicked"]
                  /\ finPc' = "fail"
      BY <1>4 DEF FinalizePhase1
    <2>3. r \in journal /\ r.ts > registered /\ r \in Current /\ r.txn \in Txns
      BY <1>1, <2>1, <2>2, CurrentInJournal, JournalTs DEF StageInv, Current
    <2>4. /\ {r} \in SUBSET journal /\ \A q \in {r} : q.ts > registered
          /\ \A t \in Txns : reservation'[t] = reservation[t] \/ \E q \in {r} : q.txn = t
      BY <1>2, <2>2, <2>3
    <2>5. RegisteredIsPrefix'
      <3> DEFINE Q == {r}
      <3>1. /\ Q \in SUBSET journal /\ \A q \in Q : q.ts > registered
            /\ \A t \in Txns : reservation'[t] = reservation[t] \/ \E q \in Q : q.txn = t
        BY <2>4
      <3> HIDE DEF Q
      <3>2. QED
        BY <1>0, <1>1, <2>1, <3>1, PrefixKept
    <2>6. Current' = Current
      BY <2>1 DEF Current, IsCurrent
    <2>7. CurrentApplied'
      <3>1. \A q \in Current : q = r
        BY <2>3, CurrentUnique
      <3>2. finPc' = "fail" \/ reservation'[r.txn] = "applied"
        BY <1>2, <2>2, <2>3
      <3>3. QED
        BY <2>6, <3>1, <3>2 DEF CurrentApplied
    <2>8. QED
      BY <1>0, <1>1, <2>1, <2>5, <2>7 DEF ReservationInv, FencedBatch
  <1>5. CASE FinalizeRegister
    <2>1. /\ finPc = "register" /\ finPc' = "submit" /\ UNCHANGED <<finBatch, reservation>>
      BY <1>5 DEF FinalizeRegister
    <2>2. PICK r \in finBatch : IsCurrent(r) /\ registered' = MaxOf(registered, r.ts)
      BY <1>5 DEF FinalizeRegister
    <2>3. r.ts = registered + 1 /\ r \in journal /\ r \in Current
      BY <2>1, <2>2, CurrentIsNext, CurrentInJournal DEF Current
    <2>4. registered' = registered + 1
      BY <1>2, <2>2, <2>3, SMTT(20) DEF MaxOf
    <2>5. Current' = Current
      BY <2>1 DEF Current, IsCurrent
    <2>6. reservation[r.txn] = "applied"
      BY <1>1, <2>1, <2>3 DEF CurrentApplied
    <2>7. \A q \in journal : q.ts <= registered' => q.ts <= registered \/ q = r
      <3> SUFFICES ASSUME NEW q \in journal, q.ts <= registered'
                   PROVE  q.ts <= registered \/ q = r
        OBVIOUS
      <3>1. q.ts \in Nat
        BY JournalTs
      <3>2. q.ts <= registered \/ q.ts = r.ts
        BY <1>2, <2>3, <2>4, <3>1, SMTT(20)
      <3>3. QED
        BY <2>3, <3>2 DEF PipelineInv, JournalDense
    <2>8. RegisteredIsPrefix'
      BY <1>0, <1>1, <2>1, <2>6, <2>7 DEF RegisteredIsPrefix
    <2>9. registered >= nextTs - 1 => registered' >= nextTs - 1
      BY <1>2, <2>4, SMTT(20)
    <2>10. QED
      BY <1>0, <1>1, <2>1, <2>5, <2>8, <2>9 DEF ReservationInv, CurrentApplied, FencedBatch
  <1>6. CASE FinalizeFail
    <2>1. finPc = "fail" /\ finPc' = "fail_hook" /\ UNCHANGED <<finBatch, registered>>
      BY <1>6 DEF FinalizeFail
    <2>2. PICK r \in finBatch :
            /\ IsCurrent(r)
            /\ reservation' = [t \in Txns |-> IF \E q \in finBatch \ {r} : q.txn = t
                                             THEN "released" ELSE reservation[t]]
      BY <1>6 DEF FinalizeFail
    <2> DEFINE Q == finBatch \ {r}
    <2>3. \A q \in Q : q \in journal /\ q.ts > registered
      <3> SUFFICES ASSUME NEW q \in Q PROVE q \in journal /\ q.ts > registered
        OBVIOUS
      <3>1. q \in finBatch /\ q # r /\ q \in journal /\ r \in journal
        BY <2>2, CurrentInJournal
      <3>2. q.ts # r.ts
        BY <3>1 DEF PipelineInv, JournalDense
      <3>3. r.ts <= q.ts /\ r.ts >= registered /\ q.ts \in Nat /\ r.ts \in Nat
        BY <1>1, <2>2, <3>1, JournalTs DEF InOrder, IsCurrent
      <3>4. QED
        BY <1>2, <3>1, <3>2, <3>3, SMTT(20)
    <2>4. \A t \in Txns : reservation'[t] = reservation[t] \/ \E q \in Q : q.txn = t
      BY <2>2
    <2> HIDE DEF Q
    <2>5. Q \in SUBSET journal /\ \A q \in Q : q.ts > registered
      BY <2>3
    <2>6. RegisteredIsPrefix'
      BY <1>0, <1>1, <2>1, <2>4, <2>5, PrefixKept
    <2>7. QED
      BY <1>0, <1>1, <2>1, <2>6 DEF ReservationInv, CurrentApplied, FencedBatch
  <1>7. CASE FinalizeDrain
    <2>1. finPc' = "stopped" /\ UNCHANGED registered
      BY <1>7 DEF FinalizeDrain
    <2>2. \A t \in Txns : reservation'[t] = reservation[t] \/ \E q \in QueuedForFinalize : q.txn = t
      BY <1>7 DEF FinalizeDrain
    <2>3. QueuedForFinalize \in SUBSET journal /\ \A q \in QueuedForFinalize : q.ts > registered
      BY <1>1, CurrentInJournal DEF InOrder
    <2>4. RegisteredIsPrefix'
      BY <1>0, <1>1, <2>1, <2>2, <2>3, PrefixKept
    <2>5. QED
      BY <1>0, <1>1, <2>1, <2>4 DEF ReservationInv, CurrentApplied, FencedBatch
  <1>8. QED
    BY <1>3, <1>4, <1>5, <1>6, <1>7 DEF FinalizeWorker

LEMMA ReservationStep ==
    ASSUME TypeOK, TypeOK', PipelineInv, Once, HasWal, OrderInv, ReservationInv, [Next]_vars
    PROVE  ReservationInv'
  <1>1. CASE FinalizeWorker
    BY <1>1, FinalizeReservation
  <1>2. CASE SequenceAppend
    BY <1>2, AppendReservation
  <1>3. CASE ScheduleBatch
    BY <1>3, ScheduleReservation
  <1>4. CASE ~FinalizeWorker /\ ~SequenceAppend /\ ~ScheduleBatch
    <2>1. UNCHANGED <<finPc, finBatch, registered, journal, nextTs, reservation>>
      BY <1>4, FinalizeFrame, SequencerFrame, ReservationFrame
    <2>2. Current' = Current
      BY <2>1 DEF Current, IsCurrent
    <2>3. RegisteredIsPrefix' /\ CurrentApplied'
      BY <2>1, <2>2 DEF ReservationInv, RegisteredIsPrefix, CurrentApplied
    <2>4. CASE ProcessEntries \/ GrowBatch
      BY <2>3, <2>4, BuildReservation DEF ReservationInv
    <2>5. CASE ~ProcessEntries /\ ~GrowBatch
      BY <1>4, <2>1, <2>3, <2>5, BatchFrame DEF ReservationInv, FencedBatch
    <2>6. QED
      BY <2>4, <2>5
  <1>5. QED
    BY <1>1, <1>2, <1>3, <1>4

----------------------------------------------------------------------------
(* The apply queue: consecutive timestamps, from the one after the          *)
(* published frontier up to the last registered commit, until an apply      *)
(* fails; after that nothing more is published.                             *)

(* The requests of an apply queue have consecutive timestamps after b.      *)
Numbered(q, b) == \A i \in 1 .. Len(q) : q[i].ts = b + i

LEMMA TakeNumbered ==
    ASSUME NEW S, NEW q \in Seq(S), q # <<>>, NEW b \in Int, Numbered(q, b)
    PROVE  /\ Len(q) \in Nat /\ Len(Tail(q)) = Len(q) - 1
           /\ Head(q).ts = b + 1 /\ Numbered(Tail(q), b + 1)
  <1>1. Len(Tail(q)) = Len(q) - 1 /\ \A i \in 1 .. Len(Tail(q)) : Tail(q)[i] = q[i + 1]
    BY HeadTailProperties, SMTT(20)
  <1>2. Len(q) \in Nat /\ Len(q) > 0 /\ Head(q) = q[1]
    BY SMTT(20)
  <1> DEFINE t == Tail(q)
             n == Len(q)
  <1> HIDE DEF t
  <1>3. n \in Nat /\ n > 0 /\ Len(t) = n - 1 /\ \A i \in 1 .. n - 1 : t[i] = q[i + 1]
    BY <1>1, <1>2, SMTT(20) DEF t
  <1>4. \A i \in 1 .. n : q[i].ts = b + i
    BY DEF Numbered
  <1> HIDE DEF n
  <1>5. \A i \in 1 .. n - 1 : t[i].ts = (b + 1) + i
    <2> SUFFICES ASSUME NEW i \in 1 .. n - 1 PROVE t[i].ts = (b + 1) + i
      OBVIOUS
    <2>1. i + 1 \in 1 .. n /\ b + (i + 1) = (b + 1) + i
      BY <1>3, SMTT(20)
    <2>2. t[i].ts = b + (i + 1)
      BY <1>3, <1>4, <2>1
    <2>3. QED
      BY <2>1, <2>2
  <1>6. q[1].ts = b + 1
    BY <1>3, <1>4, SMTT(20)
  <1>7. Numbered(t, b + 1)
    BY <1>3, <1>5 DEF Numbered
  <1>8. QED
    BY <1>1, <1>2, <1>6, <1>7 DEF t

LEMMA PutNumbered ==
    ASSUME NEW S, NEW q \in Seq(S), NEW b \in Int, NEW e \in S,
           Numbered(q, b), e.ts = b + Len(q) + 1
    PROVE  Len(Append(q, e)) = Len(q) + 1 /\ Numbered(Append(q, e), b)
  <1> DEFINE a == Append(q, e)
             n == Len(q)
  <1>1. /\ Len(a) = n + 1 /\ n \in Nat
        /\ \A i \in 1 .. n : a[i] = q[i]
        /\ a[n + 1] = e
    BY AppendProperties, SMTT(20)
  <1> HIDE DEF a
  <1>2. e.ts = b + n + 1 /\ \A i \in 1 .. n : q[i].ts = b + i
    BY DEF Numbered
  <1> HIDE DEF n
  <1>3. \A i \in 1 .. n + 1 : a[i].ts = b + i
    <2> SUFFICES ASSUME NEW i \in 1 .. n + 1 PROVE a[i].ts = b + i
      OBVIOUS
    <2>1. i \in 1 .. n \/ i = n + 1
      BY <1>1, SMTT(20)
    <2>2. b + n + 1 = b + (n + 1)
      BY <1>1, SMTT(20)
    <2>3. QED
      BY <1>1, <1>2, <2>1, <2>2
  <1>4. Len(a) = n + 1 /\ Numbered(a, b)
    BY <1>1, <1>3 DEF Numbered
  <1>5. QED
    BY <1>4 DEF a, n

Running == {"pop", "phase1", "register", "submit", "hook"}

(* The published frontier before the request the apply worker is at. *)
Base == IF applyPc = "complete" THEN published - 1 ELSE published

(* The last commit that has been handed to the apply worker. *)
Submitted == IF finPc = "submit" THEN registered - 1 ELSE registered

NotSubmitted(q) == finPc # "hook" \/ q.ts > registered

(* What is not yet submitted comes after everything that is.                *)
AheadOfApply ==
    /\ published <= registered
    /\ \A r \in Elems(applyQueue) : r.ts <= registered
    /\ \A q \in finBatch :
          NotSubmitted(q) => q.ts > published /\ \A r \in Elems(applyQueue) : r.ts < q.ts

(* The apply queue continues the published frontier without a gap, up to    *)
(* the last commit submitted, until apply has failed; from then on nothing  *)
(* in the queue is published.                                               *)
ApplyOrder ==
    /\ applyPc = "failed" => applyDown
    /\ applyDown => applyPc # "complete" /\ \A r \in Elems(applyQueue) : r.ts > published
    /\ ~applyDown => Numbered(applyQueue, Base)
    /\ ~applyDown /\ finPc \in Running => Base + Len(applyQueue) = Submitted

ApplyInv == AheadOfApply /\ ApplyOrder

LEMMA ApplyTypes ==
    ASSUME TypeOK
    PROVE  /\ registered \in Nat /\ published \in Nat /\ applyQueue \in Seq(Record)
           /\ Base \in Int /\ Submitted \in Int /\ Len(applyQueue) \in Nat
           /\ \A r \in Elems(applyQueue) : r \in Record /\ r.ts \in Nat
           /\ \A r \in finBatch : r \in Record /\ r.ts \in Nat
  <1>1. registered \in Nat /\ published \in Nat /\ applyQueue \in Seq(Record) /\ finBatch \in SUBSET Record
    BY DEF TypeOK, FinalizeTypeOK, FrontierTypeOK, ApplyTypeOK
  <1>2. Base \in Int /\ Submitted \in Int /\ Len(applyQueue) \in Nat
    BY <1>1, SMTT(20) DEF Base, Submitted
  <1>3. \A r \in Elems(applyQueue) : r \in Record
    BY <1>1, SMTT(20) DEF Elems
  <1>4. \A r \in Record : r.ts \in Nat
    BY SMTT(20) DEF Record
  <1>5. QED
    BY <1>1, <1>2, <1>3, <1>4

LEMMA ApplyWorkerApply ==
    ASSUME TypeOK, TypeOK', PipelineInv, OrderInv, ApplyInv, ApplyWorker
    PROVE  ApplyInv' /\ (ApplyPublish => published' = published + 1
                                         /\ Head(applyQueue).ts = published + 1)
  <1>1. UNCHANGED <<finPc, finBatch, registered>> /\ Submitted' = Submitted
        /\ \A q : NotSubmitted(q)' <=> NotSubmitted(q)
    BY DEF ApplyWorker, ApplyPublish, ApplyFail, ApplyComplete, ApplyCompleteFailed, finVars,
      Submitted, NotSubmitted
  <1>2. /\ registered \in Nat /\ published \in Nat /\ applyQueue \in Seq(Record)
        /\ Base \in Int /\ Submitted \in Int
        /\ \A r \in Elems(applyQueue) : r.ts \in Nat
        /\ \A r \in finBatch : r.ts \in Nat
    BY ApplyTypes
  <1>3. AheadOfApply /\ ApplyOrder
    BY DEF ApplyInv
  <1>4. applyQueue # <<>>
    BY DEF ApplyWorker, ApplyPublish, ApplyFail, ApplyComplete, ApplyCompleteFailed,
      TypeOK, ApplyTypeOK
  <1>5. Elems(applyQueue) = {Head(applyQueue)} \cup Elems(Tail(applyQueue))
    BY <1>2, <1>4, TakeOnce
  <1>6. CASE ApplyPublish
    <2>1. /\ applyPc = "idle" /\ ~applyDown /\ applyPc' = "complete" /\ UNCHANGED <<applyQueue, applyDown>>
          /\ published' = MaxOf(published, Head(applyQueue).ts)
      BY <1>6 DEF ApplyPublish
    <2>2. Base = published /\ Numbered(applyQueue, Base)
      BY <1>3, <2>1 DEF Base, ApplyOrder
    <2>3. Head(applyQueue).ts = Base + 1
      BY <1>2, <1>4, <2>2, TakeNumbered
    <2>4. Head(applyQueue).ts = published + 1 /\ published' = published + 1
      BY <1>2, <2>1, <2>2, <2>3, SMTT(20) DEF MaxOf
    <2>5. Base' = Base
      BY <1>2, <2>1, <2>2, <2>4, SMTT(20) DEF Base
    <2>6. ApplyOrder'
      BY <1>1, <1>3, <2>1, <2>2, <2>5 DEF ApplyOrder
    <2>7. Head(applyQueue) \in Elems(applyQueue)
      BY <1>5
    <2>8. published' <= registered
      BY <1>3, <2>4, <2>7 DEF AheadOfApply
    <2>9. ASSUME NEW q \in finBatch, NotSubmitted(q) PROVE q.ts > published'
      <3>1. Head(applyQueue).ts < q.ts
        BY <1>3, <2>7, <2>9 DEF AheadOfApply
      <3>2. QED
        BY <1>2, <2>4, <3>1, SMTT(20)
    <2>10. AheadOfApply'
      BY <1>1, <1>3, <2>1, <2>8, <2>9 DEF AheadOfApply
    <2>11. QED
      BY <2>4, <2>6, <2>10 DEF ApplyInv
  <1>7. CASE ApplyFail
    <2>1. /\ applyPc = "idle" /\ applyDown' /\ applyPc' = "failed" /\ UNCHANGED <<applyQueue, published>>
          /\ ~ApplyPublish
      <3>1. /\ applyPc = "idle" /\ applyDown' = TRUE /\ applyPc' = "failed"
            /\ UNCHANGED <<applyQueue, published>>
        BY <1>7 DEF ApplyFail, frontierVars
      <3>2. ~ApplyPublish
        BY <3>1 DEF ApplyPublish
      <3>3. applyDown'
        BY <3>1, SMTT(20)
      <3>4. QED
        BY <3>1, <3>2, <3>3
    <2>2. \A r \in Elems(applyQueue) : r.ts > published
      <3>1. CASE applyDown
        BY <1>3, <3>1 DEF ApplyOrder
      <3>2. CASE ~applyDown
        <4>1. \A i \in 1 .. Len(applyQueue) : applyQueue[i].ts = published + i
          BY <1>3, <2>1, <3>2 DEF ApplyOrder, Base, Numbered
        <4>2. \A i \in 1 .. Len(applyQueue) : applyQueue[i].ts > published
          BY <1>2, <4>1, SMTT(20)
        <4>3. QED
          BY <4>2 DEF Elems
      <3>3. QED
        BY <3>1, <3>2
    <2>3. ApplyOrder'
      BY <2>1, <2>2 DEF ApplyOrder
    <2>4. QED
      BY <1>1, <1>3, <2>1, <2>3 DEF ApplyInv, AheadOfApply
  <1>8. CASE ApplyComplete \/ ApplyCompleteFailed
    <2>1. /\ applyQueue' = Tail(applyQueue) /\ applyPc' = "idle" /\ UNCHANGED <<published, applyDown>>
          /\ ~ApplyPublish /\ applyPc \in {"complete", "failed"}
      BY <1>8 DEF ApplyComplete, ApplyCompleteFailed, ApplyPublish, frontierVars
    <2>2. Elems(applyQueue') \subseteq Elems(applyQueue)
      BY <1>5, <2>1
    <2>3. AheadOfApply'
      BY <1>1, <1>3, <2>1, <2>2 DEF AheadOfApply
    <2>4. CASE applyDown
      BY <1>3, <2>1, <2>2, <2>3, <2>4 DEF ApplyOrder, ApplyInv
    <2>5. CASE ~applyDown
      <3>1. applyPc = "complete" /\ Numbered(applyQueue, Base)
        BY <1>3, <2>1, <2>5 DEF ApplyOrder
      <3>2. Base + 1 = published /\ Base' = published
        BY <1>2, <2>1, <3>1, SMTT(20) DEF Base
      <3>3. /\ Len(applyQueue) \in Nat /\ Len(Tail(applyQueue)) = Len(applyQueue) - 1
            /\ Numbered(Tail(applyQueue), Base + 1)
        BY <1>2, <1>4, <3>1, TakeNumbered
      <3>4. Base' + Len(applyQueue') = Base + Len(applyQueue)
        BY <1>2, <2>1, <3>2, <3>3, SMTT(20)
      <3>5. Numbered(applyQueue', Base')
        BY <2>1, <3>2, <3>3
      <3>6. QED
        BY <1>1, <1>3, <2>1, <2>3, <2>5, <3>4, <3>5 DEF ApplyOrder, ApplyInv
    <2>6. QED
      BY <2>1, <2>4, <2>5
  <1>9. QED
    BY <1>6, <1>7, <1>8 DEF ApplyWorker

LEMMA FinalizeApply ==
    ASSUME TypeOK, TypeOK', PipelineInv, Once, OrderInv, OrderInv', ApplyInv, FinalizeWorker
    PROVE  ApplyInv'
  <1>0. UNCHANGED <<applyPc, applyDown, published>> /\ Base' = Base
    BY DEF FinalizeWorker, FinalizePop, FinalizePhase1, FinalizeRegister,
      FinalizeSubmit, FinalizeSubmitted, FinalizeFail, FinalizeStageError, FinalizeDrain,
      applyVars, frontierVars, Base
  <1>1. /\ registered \in Nat /\ published \in Nat /\ applyQueue \in Seq(Record)
        /\ Base \in Int /\ Submitted \in Int /\ Len(applyQueue) \in Nat
        /\ \A r \in Elems(applyQueue) : r \in Record /\ r.ts \in Nat
        /\ \A r \in finBatch : r \in Record /\ r.ts \in Nat
        /\ \A r \in finBatch' : r \in Record /\ r.ts \in Nat
    BY ApplyTypes DEF TypeOK, FinalizeTypeOK, Record
  <1>2. AheadOfApply /\ ApplyOrder /\ InOrder /\ StageInv
    BY DEF ApplyInv, OrderInv
  <1>3. ASSUME NEW q, q.ts \in Nat, q.ts > registered
        PROVE  q.ts > published /\ \A r \in Elems(applyQueue) : r.ts < q.ts
    BY <1>1, <1>2, <1>3, SMTT(20) DEF AheadOfApply
  <1>4. CASE FinalizePop
    <2>1. /\ UNCHANGED <<registered, applyQueue>> /\ finPc = "pop" /\ finPc' = "phase1"
      BY <1>4 DEF FinalizePop, applyVars
    <2>2. \A q \in finBatch' : q.ts > registered
      BY <2>1 DEF OrderInv, StageInv
    <2>3. Submitted' = Submitted
      BY <2>1 DEF Submitted
    <2>4. AheadOfApply'
      BY <1>0, <1>1, <1>2, <1>3, <2>1, <2>2 DEF AheadOfApply
    <2>5. QED
      BY <1>0, <1>2, <2>1, <2>3, <2>4 DEF ApplyInv, ApplyOrder, Running
  <1>5. CASE FinalizePhase1 \/ FinalizeFail \/ FinalizeStageError \/ FinalizeDrain
    <2>1. /\ UNCHANGED <<registered, applyQueue>> /\ finPc # "hook" /\ finPc # "submit"
          /\ finPc' # "submit" /\ (finPc' \in Running => finPc \in Running)
          /\ finBatch' \subseteq finBatch
      BY <1>5 DEF FinalizePhase1, FinalizeFail, FinalizeStageError, FinalizeDrain, applyVars, Running
    <2>2. Submitted' = Submitted
      BY <2>1 DEF Submitted
    <2>3. AheadOfApply'
      BY <1>0, <1>2, <2>1 DEF AheadOfApply, NotSubmitted
    <2>4. QED
      BY <1>0, <1>2, <2>1, <2>2, <2>3 DEF ApplyInv, ApplyOrder
  <1>6. CASE FinalizeRegister
    <2>1. /\ finPc = "register" /\ finPc' = "submit" /\ UNCHANGED <<finBatch, applyQueue>>
      BY <1>6 DEF FinalizeRegister, applyVars
    <2>2. PICK r \in finBatch : IsCurrent(r) /\ registered' = MaxOf(registered, r.ts)
      BY <1>6 DEF FinalizeRegister
    <2>3. r.ts = registered + 1
      BY <2>1, <2>2, CurrentIsNext DEF Current
    <2>4. registered' = registered + 1
      BY <1>1, <2>2, <2>3, SMTT(20) DEF MaxOf
    <2>5. Submitted' = Submitted
      BY <1>1, <2>1, <2>4, SMTT(20) DEF Submitted
    <2>6. published <= registered' /\ \A q \in Elems(applyQueue) : q.ts <= registered'
      BY <1>1, <1>2, <2>4, SMTT(20) DEF AheadOfApply
    <2>7. AheadOfApply'
      BY <1>0, <1>2, <2>1, <2>6 DEF AheadOfApply, NotSubmitted
    <2>8. QED
      BY <1>0, <1>2, <2>1, <2>5, <2>7 DEF ApplyInv, ApplyOrder, Running
  <1>7. CASE FinalizeSubmit /\ UNCHANGED applyQueue
    <2>1. /\ finPc = "submit" /\ finPc' \in {"fail", "hook"} /\ UNCHANGED <<registered, finBatch>>
      BY <1>7 DEF FinalizeSubmit
    <2>2. finPc' = "fail"
      <3>1. ASSUME NEW r \in finBatch, applyQueue' = Append(applyQueue, r) PROVE FALSE
        <4>1. Len(Append(applyQueue, r)) = Len(applyQueue) + 1
          BY <1>1, <3>1, AppendProperties
        <4>2. Len(applyQueue) = Len(applyQueue) + 1
          BY <1>7, <3>1, <4>1
        <4>3. QED
          BY <1>1, <4>2, SMTT(20)
      <3>2. QED
        BY <1>7, <3>1 DEF FinalizeSubmit
    <2>3. AheadOfApply'
      BY <1>0, <1>2, <1>7, <2>1 DEF AheadOfApply, NotSubmitted
    <2>4. QED
      BY <1>0, <1>2, <1>7, <2>2, <2>3 DEF ApplyInv, ApplyOrder, Running
  <1>8. CASE FinalizeSubmit /\ ~UNCHANGED applyQueue
    <2>1. finPc = "submit" /\ finPc' = "hook" /\ UNCHANGED <<registered, finBatch>>
      BY <1>8 DEF FinalizeSubmit
    <2>2. PICK r \in finBatch : IsCurrent(r) /\ applyQueue' = Append(applyQueue, r)
      BY <1>8 DEF FinalizeSubmit
    <2>3. r.ts = registered /\ r.ts > published
      BY <1>2, <2>1, <2>2 DEF StageInv, Current, AheadOfApply, NotSubmitted
    <2> DEFINE a == Append(applyQueue, r)
    <2>4. Elems(a) = Elems(applyQueue) \cup {r}
      <3>1. applyQueue \in Seq(Record) /\ r \in Record
        BY <1>1, <2>2
      <3>2. QED
        BY <3>1, ElemsPut, SMTT(20)
    <2>5. applyQueue' = a
      BY <2>2
    <2>6. AheadOfApply'
      <3> HIDE DEF a
      <3>1. \A q \in Elems(a) : q.ts <= registered
        <4>1. r.ts <= registered
          BY <1>1, <2>3, SMTT(20)
        <4>2. QED
          BY <1>2, <2>4, <4>1 DEF AheadOfApply
      <3>2. ASSUME NEW q \in finBatch, q.ts > registered
            PROVE  q.ts > published /\ \A p \in Elems(a) : p.ts < q.ts
        <4>1. r.ts < q.ts
          BY <1>1, <2>3, <3>2, SMTT(20)
        <4>2. QED
          BY <1>2, <2>1, <2>4, <3>2, <4>1 DEF AheadOfApply, NotSubmitted
      <3>3. QED
        BY <1>0, <1>2, <2>1, <2>5, <3>1, <3>2 DEF AheadOfApply, NotSubmitted
    <2>7. ASSUME ~applyDown
          PROVE  Numbered(applyQueue', Base) /\ Base + Len(applyQueue') = registered
      <3>1. Numbered(applyQueue, Base) /\ Base + Len(applyQueue) = Submitted /\ Submitted = registered - 1
        BY <1>2, <2>1, <2>7 DEF ApplyOrder, Submitted, Running
      <3>2. r.ts = Base + Len(applyQueue) + 1
        BY <1>1, <2>3, <3>1, SMTT(20)
      <3>3. Len(a) = Len(applyQueue) + 1 /\ Numbered(a, Base)
        <4> DEFINE S == Record
                   b == Base
        <4>1. applyQueue \in Seq(S) /\ r \in S /\ b \in Int /\ Numbered(applyQueue, b)
              /\ r.ts = b + Len(applyQueue) + 1
          BY <1>1, <2>2, <3>1, <3>2
        <4> HIDE DEF S, b
        <4>2. Len(a) = Len(applyQueue) + 1 /\ Numbered(a, b)
          BY <4>1, PutNumbered
        <4>3. QED
          BY <4>2 DEF b
      <3> HIDE DEF a
      <3>4. Base + Len(a) = registered
        BY <1>1, <2>3, <3>2, <3>3, SMTT(20)
      <3>5. QED
        BY <2>5, <3>3, <3>4
    <2>8. Submitted' = registered
      BY <2>1 DEF Submitted
    <2>9. applyDown => \A q \in Elems(applyQueue') : q.ts > published
      <3> HIDE DEF a
      <3>1. QED
        BY <1>2, <2>3, <2>4, <2>5 DEF ApplyOrder
    <2>10. QED
      BY <1>0, <1>2, <2>6, <2>7, <2>8, <2>9 DEF ApplyInv, ApplyOrder
  <1>9. CASE FinalizeSubmitted
    <2>1. /\ finPc = "hook" /\ finPc' \in {"pop", "phase1"} /\ UNCHANGED <<registered, applyQueue>>
          /\ finBatch' \subseteq finBatch
      BY <1>9 DEF FinalizeSubmitted, applyVars
    <2>2. \A q \in finBatch' : q.ts > registered
      BY <2>1 DEF OrderInv, StageInv
    <2>3. Submitted' = Submitted
      BY <2>1 DEF Submitted
    <2>4. AheadOfApply'
      BY <1>0, <1>1, <1>2, <1>3, <2>1, <2>2 DEF AheadOfApply
    <2>5. QED
      BY <1>0, <1>2, <2>1, <2>3, <2>4 DEF ApplyInv, ApplyOrder, Running
  <1>10. QED
    BY <1>4, <1>5, <1>6, <1>7, <1>8, <1>9 DEF FinalizeWorker

LEMMA ApplyInvStep ==
    ASSUME TypeOK, TypeOK', PipelineInv, Once, OrderInv, OrderInv', ApplyInv, [Next]_vars
    PROVE  ApplyInv'
  <1>1. CASE ApplyWorker
    BY <1>1, ApplyWorkerApply
  <1>2. CASE FinalizeWorker
    BY <1>2, FinalizeApply
  <1>3. CASE ~ApplyWorker /\ ~FinalizeWorker
    <2>1. UNCHANGED <<finPc, finBatch, registered, applyPc, applyDown, published, applyQueue>>
      BY <1>3, ApplyFrame, FinalizeFrame DEF FinalizeWorker
    <2>2. Base' = Base /\ Submitted' = Submitted
      BY <2>1 DEF Base, Submitted
    <2>3. QED
      BY <2>1, <2>2 DEF ApplyInv, AheadOfApply, ApplyOrder, NotSubmitted
  <1>4. QED
    BY <1>1, <1>2, <1>3

----------------------------------------------------------------------------
(* What a waiter is told is true of its commit, and stays true: a commit    *)
(* called ambiguous or failed is never published afterwards.                *)

(* Durable, beyond the published frontier and not on its way there. *)
LeftBehind(r) == r \in journal /\ r.ts > published /\ r \notin Elems(applyQueue)

(* A commit reported ambiguous can never be published any more.             *)
AmbiguousStands == \A t \in Txns : Fate(t, "ambiguous") => \E r \in journal : r.txn = t /\ LeftBehind(r)

(* A commit reported as failed in apply is behind a worker that has         *)
(* stopped.                                                                 *)
FailureStands ==
    \A t \in Txns : Fate(t, "failed_apply") =>
        applyDown /\ \E r \in journal : r.txn = t /\ r.ts > published

(* Only a durable commit is acknowledged.                                   *)
AckIsDurable == \A t \in Txns : Fate(t, "acked") => t \in JournalTxns

FateInv == AmbiguousStands /\ FailureStands /\ AckIsDurable

(* What the apply worker publishes is the head of its queue. *)
LEMMA PublishedStep ==
    ASSUME TypeOK, TypeOK', PipelineInv, OrderInv, ApplyInv, [Next]_vars
    PROVE  \/ UNCHANGED <<published, visible>>
           \/ /\ ApplyPublish /\ ~applyDown /\ Head(applyQueue) \in Elems(applyQueue)
              /\ Head(applyQueue) \in journal /\ Head(applyQueue).ts = published + 1
              /\ published' = published + 1
  <1>1. CASE ApplyPublish
    <2>1. Head(applyQueue).ts = published + 1 /\ published' = published + 1
      BY <1>1, ApplyWorkerApply DEF ApplyWorker
    <2>2. applyQueue # <<>> /\ ~applyDown /\ applyQueue \in Seq(Record)
      BY <1>1 DEF ApplyPublish, TypeOK, ApplyTypeOK
    <2>3. Head(applyQueue) \in Elems(applyQueue)
      BY <2>2, TakeOnce, ZenonT(120)
    <2>4. Head(applyQueue) \in journal
      BY <2>3 DEF PipelineInv, ScheduledIsDurable, InFlight
    <2>5. QED
      BY <1>1, <2>1, <2>2, <2>3, <2>4
  <1>2. CASE ApplyFail \/ ApplyComplete \/ ApplyCompleteFailed
    BY <1>2 DEF ApplyFail, ApplyComplete, ApplyCompleteFailed, frontierVars
  <1>3. CASE ~ApplyWorker
    BY <1>3, ApplyFrame
  <1>4. QED
    BY <1>1, <1>2, <1>3 DEF ApplyWorker

LEMMA ApplyQueueStep ==
    ASSUME TypeOK, [Next]_vars
    PROVE  \/ Elems(applyQueue') \subseteq Elems(applyQueue)
           \/ finPc = "submit"
  <1>1. CASE ApplyComplete \/ ApplyCompleteFailed
    <2>1. applyQueue \in Seq(Record) /\ applyQueue # <<>> /\ applyQueue' = Tail(applyQueue)
      BY <1>1 DEF ApplyComplete, ApplyCompleteFailed, TypeOK, ApplyTypeOK
    <2>2. Elems(applyQueue) = {Head(applyQueue)} \cup Elems(Tail(applyQueue))
      BY <2>1, TakeOnce
    <2>3. QED
      BY <2>1, <2>2
  <1>2. CASE ApplyPublish \/ ApplyFail
    BY <1>2 DEF ApplyPublish, ApplyFail
  <1>3. CASE ~ApplyWorker
    BY <1>3, ApplyFrame DEF FinalizeSubmit
  <1>4. QED
    BY <1>1, <1>2, <1>3 DEF ApplyWorker

LEMMA LeftBehindStays ==
    ASSUME TypeOK, TypeOK', PipelineInv, Once, OrderInv, ApplyInv, [Next]_vars,
           NEW r, LeftBehind(r), finPc # "submit"
    PROVE  LeftBehind(r)'
  <1>1. r \in journal /\ r \in journal' /\ r.ts > published /\ r \notin Elems(applyQueue)
    BY JournalStep DEF LeftBehind
  <1>2. r \notin Elems(applyQueue')
    BY <1>1, ApplyQueueStep
  <1>3. CASE UNCHANGED <<published, visible>>
    BY <1>1, <1>2, <1>3 DEF LeftBehind
  <1>4. CASE /\ Head(applyQueue) \in Elems(applyQueue) /\ Head(applyQueue) \in journal
             /\ Head(applyQueue).ts = published + 1 /\ published' = published + 1
    <2>1. r.ts # published + 1
      BY <1>1, <1>4 DEF PipelineInv, JournalDense
    <2>2. r.ts \in Nat /\ published \in Nat
      BY <1>1, JournalTs, ApplyTypes
    <2>3. r.ts > published'
      BY <1>1, <1>4, <2>1, <2>2, SMTT(20)
    <2>4. QED
      BY <1>1, <1>2, <2>3 DEF LeftBehind
  <1>5. QED
    BY <1>3, <1>4, PublishedStep

(* Whoever is told "ambiguous" owns a commit that was left behind. *)
LEMMA AmbiguousOrigin ==
    ASSUME TypeOK, TypeOK', PipelineInv, Once, HasWal, AmbiguousSeesPoison, OrderInv,
           ApplyInv, AmbiguousStands, [Next]_vars, NEW t \in Txns, Fate(t, "ambiguous")'
    PROVE  finPc # "submit" /\ \E r \in journal : r.txn = t /\ LeftBehind(r)
  <1>1. /\ "ambiguous" \in LateAnswers /\ "acked" # "ambiguous" /\ "failed_apply" # "ambiguous"
    BY DEF LateAnswers
  <1>2. /\ registered \in Nat /\ published \in Nat
        /\ \A r \in Elems(applyQueue) : r.ts \in Nat
        /\ \A r \in finBatch : r.ts \in Nat
    BY ApplyTypes
  <1>3. AheadOfApply /\ InOrder /\ StageInv
    BY DEF ApplyInv, OrderInv
  <1>4. CASE Fate(t, "ambiguous")
    <2>1. finPoison
      BY <1>4 DEF AmbiguousSeesPoison, Fate
    <2>2. finPc # "submit"
      BY <1>3, <2>1 DEF StageInv, Stopping
    <2>3. QED
      BY <1>4, <2>2 DEF AmbiguousStands
  <1>5. ASSUME NEW r, r \in journal, r.ts > registered PROVE LeftBehind(r)
    <2>1. r.ts \in Nat
      BY <1>5, JournalTs
    <2>2. r.ts > published
      BY <1>2, <1>3, <1>5, <2>1, SMTT(20) DEF AheadOfApply
    <2>3. ~(r.ts <= registered)
      BY <1>2, <1>5, <2>1, SMTT(20)
    <2>4. QED
      BY <1>3, <1>5, <2>2, <2>3 DEF AheadOfApply, LeftBehind
  <1>6. ASSUME NEW r \in finBatch, finPc # "hook" PROVE LeftBehind(r)
    <2>1. r \in journal /\ r.ts > published /\ \A q \in Elems(applyQueue) : q.ts < r.ts
      BY <1>3, <1>6, CurrentInJournal DEF AheadOfApply, NotSubmitted
    <2>2. ~(r.ts < r.ts)
      BY <1>2, <1>6, SMTT(20)
    <2>3. QED
      BY <2>1, <2>2 DEF LeftBehind
  <1>7. CASE \A x \in LateAnswers : FateStep(x, {})
    BY <1>1, <1>4, <1>7 DEF FateStep
  <1>8. CASE ScheduleBatch /\ finPoison /\ Only("ambiguous", TxnsOf(accepted))
    <2>1. CASE t \in TxnsOf(accepted)
      <3>1. PICK r \in accepted : r.txn = t
        BY <2>1 DEF TxnsOf
      <3>2. r \in journal /\ r.ts > registered
        BY <1>3, <3>1 DEF InOrder, PipelineInv, ScheduledIsDurable
      <3>3. finPc # "submit"
        BY <1>3, <1>8 DEF StageInv, Stopping
      <3>4. QED
        BY <1>5, <3>1, <3>2, <3>3
    <2>2. QED
      BY <1>4, <1>8, <2>1 DEF Only, FateStep
  <1>9. CASE FinalizeStageError /\ Only("ambiguous", TxnsOf(Current))
    <2>1. CASE t \in TxnsOf(Current)
      <3>1. PICK r \in Current : r.txn = t
        BY <2>1 DEF TxnsOf
      <3>2. r \in finBatch /\ r \in journal /\ finPc = "fail_hook"
        BY <1>9, <3>1, CurrentInJournal DEF Current, FinalizeStageError
      <3>3. QED
        BY <1>6, <3>1, <3>2
    <2>2. QED
      BY <1>4, <1>9, <2>1 DEF Only, FateStep
  <1>10. CASE FinalizeDrain /\ Only("ambiguous", TxnsOf(finBatch \cup QueuedForFinalize))
    <2>1. CASE t \in TxnsOf(finBatch \cup QueuedForFinalize)
      <3>1. PICK r \in finBatch \cup QueuedForFinalize : r.txn = t
        BY <2>1 DEF TxnsOf
      <3>2. r \in journal /\ finPc = "fail_drain"
        BY <1>10, <3>1, CurrentInJournal DEF FinalizeDrain
      <3>3. CASE r \in finBatch
        BY <1>6, <3>1, <3>2, <3>3
      <3>4. CASE r \in QueuedForFinalize
        BY <1>3, <1>5, <3>1, <3>2, <3>4 DEF InOrder
      <3>5. QED
        BY <3>1, <3>3, <3>4
    <2>2. QED
      BY <1>4, <1>10, <2>1 DEF Only, FateStep
  <1>11. CASE \/ FinalizeSubmitted /\ Only("acked", TxnsOf(Current))
              \/ ApplyCompleteFailed /\ Only("failed_apply", {Head(applyQueue).txn})
    BY <1>1, <1>4, <1>11 DEF Only, FateStep
  <1>12. QED
    BY <1>7, <1>8, <1>9, <1>10, <1>11, Fates

LEMMA AmbiguousStandsStep ==
    ASSUME TypeOK, TypeOK', PipelineInv, Once, HasWal, AmbiguousSeesPoison, OrderInv,
           ApplyInv, AmbiguousStands, [Next]_vars
    PROVE  AmbiguousStands'
  <1> SUFFICES ASSUME NEW t \in Txns, Fate(t, "ambiguous")'
               PROVE  \E r \in journal' : r.txn = t /\ LeftBehind(r)'
    BY DEF AmbiguousStands
  <1>1. finPc # "submit" /\ \E r \in journal : r.txn = t /\ LeftBehind(r)
    BY AmbiguousOrigin
  <1>2. PICK r \in journal : r.txn = t /\ LeftBehind(r)
    BY <1>1
  <1>3. LeftBehind(r)'
    BY <1>1, <1>2, LeftBehindStays
  <1>4. QED
    BY <1>2, <1>3 DEF LeftBehind

LEMMA ApplyDownStays ==
    ASSUME [Next]_vars, applyDown
    PROVE  applyDown'
  <1>1. CASE ApplyWorker
    <2>1. CASE UNCHANGED applyDown
      BY <2>1
    <2>2. CASE applyDown' = TRUE
      BY <2>2, SMTT(20)
    <2>3. QED
      BY <1>1, <2>1, <2>2 DEF ApplyWorker, ApplyPublish, ApplyFail, ApplyComplete,
        ApplyCompleteFailed
  <1>2. CASE ~ApplyWorker
    BY <1>2, ApplyFrame
  <1>3. QED
    BY <1>1, <1>2

LEMMA FailureStandsStep ==
    ASSUME TypeOK, TypeOK', PipelineInv, Once, OrderInv, ApplyInv, FailureStands, HasWal, [Next]_vars
    PROVE  FailureStands'
  <1> SUFFICES ASSUME NEW t \in Txns, Fate(t, "failed_apply")'
               PROVE  applyDown' /\ \E r \in journal' : r.txn = t /\ r.ts > published'
    BY DEF FailureStands
  <1>1. "failed_apply" \in LateAnswers /\ "ambiguous" # "failed_apply" /\ "acked" # "failed_apply"
    BY DEF LateAnswers
  <1>2. applyDown /\ \E r \in journal : r.txn = t /\ r.ts > published
    <2>1. CASE Fate(t, "failed_apply")
      BY <2>1 DEF FailureStands
    <2>2. CASE ApplyCompleteFailed /\ Only("failed_apply", {Head(applyQueue).txn})
      <3>1. applyPc = "failed" /\ applyPc # "idle"
        BY <2>2 DEF ApplyCompleteFailed
      <3>2. Head(applyQueue) \in journal /\ Head(applyQueue) \in Elems(applyQueue)
        BY <3>1, HeadInJournal
      <3>3. applyDown /\ Head(applyQueue).ts > published
        BY <3>1, <3>2 DEF ApplyInv, ApplyOrder
      <3>4. t = Head(applyQueue).txn \/ Fate(t, "failed_apply")
        BY <2>2 DEF Only, FateStep
      <3>5. QED
        BY <2>1, <3>2, <3>3, <3>4
    <2>3. CASE ~(ApplyCompleteFailed /\ Only("failed_apply", {Head(applyQueue).txn}))
      <3>1. FateStep("failed_apply", {})
        BY <1>1, <2>3, Fates DEF Only
      <3>2. QED
        BY <2>1, <3>1 DEF FateStep
    <2>4. QED
      BY <2>2, <2>3
  <1>3. applyDown'
    BY <1>2, ApplyDownStays
  <1>4. UNCHANGED published
    BY <1>2, PublishedStep
  <1>5. journal \subseteq journal'
    BY JournalStep
  <1>6. QED
    BY <1>2, <1>3, <1>4, <1>5

LEMMA AckIsDurableStep ==
    ASSUME TypeOK, TypeOK', PipelineInv, Once, AckIsDurable, HasWal, [Next]_vars
    PROVE  AckIsDurable'
  <1> SUFFICES ASSUME NEW t \in Txns, Fate(t, "acked")'
               PROVE  t \in JournalTxns'
    BY DEF AckIsDurable
  <1>1. "acked" \in LateAnswers /\ "ambiguous" # "acked" /\ "failed_apply" # "acked"
    BY DEF LateAnswers
  <1>2. journal \subseteq journal'
    BY JournalStep
  <1>3. JournalTxns \subseteq JournalTxns'
    BY <1>2 DEF JournalTxns
  <1>4. FateStep("acked", TxnsOf(Current))
    <2>1. CASE FateStep("acked", {})
      BY <2>1 DEF FateStep
    <2>2. QED
      BY <1>1, <2>1, Fates DEF Only
  <1>5. TxnsOf(Current) \subseteq JournalTxns
    BY CurrentInJournal DEF TxnsOf, Current, JournalTxns
  <1>6. QED
    BY <1>3, <1>4, <1>5 DEF FateStep, AckIsDurable

----------------------------------------------------------------------------
(* The inductive invariant of the pipeline over a journal with a WAL. *)

ServiceInv ==
    /\ HasWal
    /\ AnswerInv
    /\ OrderInv /\ ReservationInv /\ ApplyInv /\ FateInv

LEMMA ServiceInvInit == HasWal /\ Init => ServiceInv
  <1> SUFFICES ASSUME HasWal, Init PROVE ServiceInv
    OBVIOUS
  <1>1. AnswerInv
    BY AnswerInit
  <1>2. /\ drainOwner = NoThread /\ dpc = "idle" /\ accepted = {} /\ finQueue = <<>> /\ finPc = "pop"
        /\ finBatch = {} /\ finPoison = FALSE /\ registered = 0 /\ nextTs = 1 /\ journal = {}
        /\ published = 0 /\ applyQueue = <<>> /\ applyPc = "idle" /\ applyDown = FALSE
    BY DEF Init, QueueInit
  <1>3. \A t \in Txns : slot[t].st = "none" /\ outcome[t] = "pending"
    BY DEF Init, CompletionInit, NoSlot
  <1>4. /\ Elems(finQueue) = {} /\ Elems(applyQueue) = {} /\ Ordered(finQueue)
        /\ Len(applyQueue) = 0 /\ Numbered(applyQueue, Base)
    BY <1>2, SMTT(20) DEF Elems, Ordered, Numbered
  <1>5. QueuedForFinalize = {} /\ Current = {}
    BY <1>2, <1>4 DEF QueuedForFinalize, Current
  <1>6. OrderInv
    <2>1. registered < nextTs
      BY <1>2, SMTT(20)
    <2>2. ~finPoison
      BY <1>2
    <2>3. QED
      BY <1>2, <1>4, <1>5, <2>1, <2>2 DEF OrderInv, OwnerInv, InOrder, StageInv, Covered
  <1>7. ReservationInv
    BY <1>2 DEF ReservationInv, RegisteredIsPrefix, CurrentApplied, FencedBatch
  <1>8. ApplyInv
    <2>1. published <= registered /\ ~applyDown /\ Base + Len(applyQueue) = Submitted
      BY <1>2, <1>4, SMTT(20) DEF Base, Submitted
    <2>2. QED
      BY <1>2, <1>4, <2>1 DEF ApplyInv, AheadOfApply, ApplyOrder
  <1>9. FateInv
    BY <1>3 DEF FateInv, AmbiguousStands, FailureStands, AckIsDurable, Fate
  <1>10. QED
    BY <1>1, <1>6, <1>7, <1>8, <1>9 DEF ServiceInv

LEMMA ServiceInvStep ==
    ASSUME ServiceInv, [Next]_vars
    PROVE  ServiceInv'
  <1>1. /\ HasWal /\ TypeOK /\ PipelineInv /\ Once /\ AmbiguousSeesPoison
        /\ OrderInv /\ ReservationInv /\ ApplyInv
        /\ AmbiguousStands /\ FailureStands /\ AckIsDurable /\ AnswerInv
    BY DEF ServiceInv, AnswerInv, FateInv
  <1>2. AnswerInv' /\ TypeOK'
    BY <1>1, AnswerStep DEF AnswerInv
  <1>3. OrderInv'
    BY <1>1, <1>2, OrderStep
  <1>4. ReservationInv'
    BY <1>1, <1>2, ReservationStep
  <1>5. ApplyInv'
    BY <1>1, <1>2, <1>3, ApplyInvStep
  <1>6. FateInv'
    BY <1>1, <1>2, AmbiguousStandsStep, FailureStandsStep, AckIsDurableStep DEF FateInv
  <1>7. QED
    BY <1>1, <1>2, <1>3, <1>4, <1>5, <1>6 DEF ServiceInv

LEMMA ServiceInvCorrect == HasWal => (Spec => []ServiceInv)
  BY ServiceInvInit, ServiceInvStep, PTL DEF Spec

(* For a database with a WAL: the registration gate is a prefix of the      *)
(* journal, for every set of transactions and every limit and fault.        *)
(* mark_registered takes a maximum, so this rests on the order in which     *)
(* schedule, the finalize queue and the finalize worker pass the batches    *)
(* on. Without a WAL it does not hold: a batch of two is reported           *)
(* ambiguous, durable and unregistered, and an entry the drain owner still  *)
(* has in its local buffer is then appended and registered above it.        *)
THEOREM RegistrationCorrect == HasWal => (Spec => []RegisteredIsPrefix)
  <1>1. ServiceInv => RegisteredIsPrefix
    BY DEF ServiceInv, ReservationInv
  <1>2. QED
    BY <1>1, ServiceInvCorrect, PTL

(* For a database with a WAL: when a serializable commit is sequenced, the  *)
(* reservation of every earlier durable commit has been applied, so its     *)
(* final SSI fence sees them all (should_block_on_registration, and the     *)
(* pending fence queue it feeds).                                           *)
THEOREM SerializableCorrect == HasWal => (Spec => []SerializableSeesRegistered)
  <1>1. ASSUME ServiceInv PROVE SerializableSeesRegistered
    <2> SUFFICES ASSUME dpc = "append", Elems(batch) \cap Serializable # {}, NEW r \in journal
                 PROVE  reservation[r.txn] = "applied"
      BY DEF SerializableSeesRegistered
    <2>1. TypeOK /\ PipelineInv /\ RegisteredIsPrefix /\ FencedBatch
      BY <1>1 DEF ServiceInv, AnswerInv, ReservationInv
    <2>2. registered >= nextTs - 1
      BY <2>1 DEF FencedBatch
    <2>3. r.ts \in Nat /\ r.ts < nextTs /\ registered \in Nat /\ nextTs \in Nat
      BY <2>1, JournalTs DEF TypeOK, FinalizeTypeOK, SequencerTypeOK
    <2>4. r.ts <= registered
      BY <2>2, <2>3, SMTT(20)
    <2>5. QED
      BY <2>1, <2>4 DEF RegisteredIsPrefix
  <1>2. QED
    BY <1>1, ServiceInvCorrect, PTL

----------------------------------------------------------------------------
(* The runtime implements CommitService, one step at a time. *)

LEMMA LaterPosition ==
    ASSUME NEW a \in Nat \ {0}, NEW b \in Nat, NEW p \in a .. b - 1
    PROVE  p \in 1 .. b - 1 /\ ~(p < a)
  <1>1. p \in Int /\ a <= p /\ p <= b - 1 /\ 1 <= a
    BY SMTT(20)
  <1>2. QED
    BY <1>1, SMTT(20)

LEMMA AppendImplements ==
    ASSUME ServiceInv, ServiceInv', SequenceAppend
    PROVE  Service!CommitGroup \/ UNCHANGED Service!serviceVars
  <1>1. /\ HasWal /\ TypeOK /\ TypeOK' /\ PipelineInv /\ PipelineInv' /\ Once /\ Once'
    BY DEF ServiceInv, AnswerInv
  <1>2. PICK recs, R : AppendEffect(recs, R)
    BY <1>1, SequenceAppendEffect DEF Once
  <1>3. UNCHANGED <<published, visible, outcome>>
    BY DEF SequenceAppend, frontierVars, applyVars
  <1>4. CASE Withdrawn(recs)
    BY <1>3, <1>4 DEF Withdrawn, Service!serviceVars
  <1>5. CASE Logged(recs)
    <2>1. /\ journal' = journal \cup recs /\ nextTs' \in Nat /\ nextTs' > nextTs
          /\ \A r \in recs : r.ts \in nextTs .. nextTs' - 1
      BY <1>5 DEF Logged
    <2>2. nextTs \in Nat \ {0}
      BY <1>1 DEF TypeOK, SequencerTypeOK
    <2>3. journal \subseteq journal'
      BY <2>1
    <2>4. \A r \in journal' \ journal : r \in recs
      BY <2>1
    <2>5. ASSUME NEW p \in nextTs .. nextTs' - 1
          PROVE  \E r \in journal' \ journal : r.ts = p
      <3>1. p \in 1 .. nextTs' - 1 /\ ~(p < nextTs)
        <4>1. nextTs \in Nat \ {0} /\ nextTs' \in Nat
          BY <2>1, <2>2
        <4>2. QED
          BY <4>1, LaterPosition
      <3>2. PICK r \in journal' : r.ts = p
        <4>1. JournalDense'
          BY <1>1 DEF PipelineInv
        <4>2. \A n \in 1 .. nextTs' - 1 : \E r \in journal' : r.ts = n
          BY <4>1 DEF JournalDense
        <4>3. QED
          BY <3>1, <4>2
      <3>3. \A q \in journal : q.ts < nextTs
        BY <1>1, JournalTs
      <3>4. r \notin journal
        BY <3>1, <3>2, <3>3
      <3>5. QED
        BY <3>2, <3>4
    <2>6. ASSUME NEW r \in journal' \ journal
          PROVE  /\ r.txn \in Txns
                 /\ r.ts \in nextTs .. nextTs' - 1
                 /\ ~Service!InLog(r.txn)
                 /\ outcome[r.txn] = "pending"
                 /\ \A q \in journal' \ journal : q.ts = r.ts \/ q.txn = r.txn => q = r
      <3>1. r \in recs /\ r.txn \in Waiting
        BY <1>2, <2>4, <2>6 DEF AppendEffect, Waiting
      <3>2. r.txn \in Txns
        BY <1>1, <3>1, WaitingTxns
      <3>3. outcome[r.txn] = "pending" /\ r.txn \notin JournalTxns
        BY <1>1, <3>1 DEF Once, WaitingInv
      <3>4. ~Service!InLog(r.txn)
        BY <3>3 DEF Service!InLog, JournalTxns
      <3>5. \A q \in journal' \ journal : q.ts = r.ts \/ q.txn = r.txn => q = r
        BY <1>1, <2>6 DEF Once, JournalOnce, PipelineInv, JournalDense
      <3>6. QED
        BY <2>1, <3>1, <3>2, <3>3, <3>4, <3>5
    <2>7. Service!CommitGroup
      BY <1>3, <2>1, <2>3, <2>5, <2>6 DEF Service!CommitGroup
    <2>8. QED
      BY <2>7
  <1>6. QED
    BY <1>2, <1>4, <1>5 DEF AppendEffect

LEMMA PublishImplements ==
    ASSUME ServiceInv, ServiceInv', ApplyPublish
    PROVE  Service!Publish
  <1>1. /\ TypeOK /\ TypeOK' /\ PipelineInv /\ Once /\ OrderInv /\ ApplyInv
        /\ AmbiguousStands /\ FailureStands
    BY DEF ServiceInv, AnswerInv, FateInv
  <1>2. [Next]_vars
    BY DEF Next, ApplyWorker
  <1>3. applyPc' = "complete" /\ applyPc = "idle" /\ ~applyDown
        /\ visible' = visible \cup {Head(applyQueue).txn}
        /\ UNCHANGED <<journal, nextTs, outcome>>
    BY DEF ApplyPublish, seqVars, completionVars
  <1> DEFINE r == Head(applyQueue)
  <1>4. r.ts = published + 1 /\ published' = published + 1
    BY <1>1, ApplyWorkerApply DEF ApplyWorker
  <1>5. applyQueue # <<>> /\ applyQueue \in Seq(Record)
    BY <1>1 DEF ApplyPublish, TypeOK, ApplyTypeOK
  <1>6. r \in Elems(applyQueue)
    BY <1>5, TakeOnce, ZenonT(120)
  <1>7. r \in journal
    BY <1>1, <1>6 DEF PipelineInv, ScheduledIsDurable, InFlight
  <1> HIDE DEF r
  <1>8. r.txn \in Txns
    BY <1>1, <1>7, JournalTs
  <1>9. outcome[r.txn] # "ambiguous"
    <2> SUFFICES ASSUME outcome[r.txn] = "ambiguous" PROVE FALSE
      OBVIOUS
    <2>1. PICK q \in journal : q.txn = r.txn /\ LeftBehind(q)
      BY <1>1, <1>8 DEF AmbiguousStands, Fate
    <2>2. q = r
      BY <1>1, <1>7, <2>1 DEF Once, JournalOnce
    <2>3. QED
      BY <1>6, <2>1, <2>2 DEF LeftBehind
  <1>10. outcome[r.txn] # "failed_apply"
    BY <1>1, <1>3, <1>8 DEF FailureStands, Fate
  <1>11. visible' = visible \cup {r.txn}
    BY <1>3 DEF r
  <1>12. QED
    BY <1>3, <1>4, <1>7, <1>9, <1>10, <1>11 DEF Service!Publish, Service!Unpublishable

LEMMA RefusalImplements ==
    ASSUME ServiceInv, NEW t \in Txns, pc[t] \in {"start", "enqueue"}, NotAdmitted(t),
           UNCHANGED <<journal, nextTs, published, visible>>
    PROVE  Service!Answer(t)
  <1>1. Once /\ t \notin JournalTxns /\ outcome[t] = "pending"
    BY DEF ServiceInv, AnswerInv, Once, SubmitterInv
  <1>2. ~Service!InLog(t)
    BY <1>1 DEF Service!InLog, JournalTxns
  <1>3. /\ "not_admitted" \in Service!Answers \ {"pending"}
        /\ "not_admitted" \notin Service!Unpublishable
    BY DEF Service!Answers, Service!Nondurable, Service!Unpublishable
  <1>4. outcome' = [outcome EXCEPT ![t] = "not_admitted"]
    BY DEF NotAdmitted
  <1>5. QED
    BY <1>1, <1>2, <1>3, <1>4 DEF Service!Answer

LEMMA WaitImplements ==
    ASSUME ServiceInv, NEW t \in Txns, WaitCompletion(t)
    PROVE  Service!Answer(t)
  <1>1. /\ TypeOK /\ PipelineInv /\ Once /\ AmbiguousStands /\ FailureStands /\ AckIsDurable
    BY DEF ServiceInv, AnswerInv, FateInv
  <1> DEFINE a == slot[t].st
  <1>2. /\ pc[t] = "wait" /\ a \in TerminalStates /\ outcome' = [outcome EXCEPT ![t] = a]
        /\ UNCHANGED <<journal, nextTs, published, visible>>
    BY DEF WaitCompletion, Wait, IsTerminal, seqVars, frontierVars, applyVars
  <1> HIDE DEF a
  <1>3. outcome[t] = "pending"
    BY <1>1, <1>2 DEF Once, SubmitterInv
  <1>4. a \in Service!Answers \ {"pending"}
    BY <1>2 DEF TerminalStates, Service!Answers, Service!Nondurable, Service!Unpublishable
  <1>5. Service!InLog(t) <=> t \in JournalTxns
    BY DEF Service!InLog, JournalTxns
  <1>6. a \in Service!Nondurable => ~Service!InLog(t)
    BY <1>1, <1>5 DEF Once, NondurableInv, NondurableStates, Service!Nondurable, a
  <1>7. a = "acked" => Service!InLog(t)
    BY <1>1, <1>5 DEF AckIsDurable, Fate, a
  <1>8. a = "published" => t \in visible
    BY <1>1 DEF PipelineInv, SlotsTellTheTruth, a
  <1>9. ASSUME a \in Service!Unpublishable PROVE Service!InLog(t) /\ t \notin visible
    <2>1. PICK r \in journal : r.txn = t /\ r.ts > published
      <3>1. Fate(t, "ambiguous") \/ Fate(t, "failed_apply")
        BY <1>9 DEF Service!Unpublishable, Fate, a
      <3>2. QED
        BY <1>1, <3>1 DEF AmbiguousStands, FailureStands, LeftBehind
    <2>2. ASSUME t \in visible PROVE FALSE
      <3>1. PICK q \in journal : q.txn = t /\ q.ts <= published
        BY <1>1, <2>2 DEF PipelineInv, FrontiersOrdered
      <3>2. q = r
        BY <1>1, <2>1, <3>1 DEF Once, JournalOnce
      <3>3. r.ts <= published
        BY <3>1, <3>2
      <3>4. r.ts \in Nat /\ published \in Nat
        BY <1>1, JournalTs, ApplyTypes
      <3>5. QED
        BY <2>1, <3>3, <3>4, SMTT(20)
    <2>3. QED
      BY <2>1, <2>2 DEF Service!InLog
  <1>10. QED
    BY <1>2, <1>3, <1>4, <1>6, <1>7, <1>8, <1>9 DEF Service!Answer

LEMMA AnswerFrame ==
    ASSUME [Next]_vars
    PROVE  \/ UNCHANGED outcome
           \/ \E t \in Txns : \/ WaitCompletion(t)
                              \/ /\ pc[t] \in {"start", "enqueue"} /\ NotAdmitted(t)
                                 /\ UNCHANGED <<journal, nextTs, published, visible>>
  BY DEF Next, Submitter, SubmitCommit, EnqueueJob, SignalDrain,
    TakeWakeTask, DrainInline, DrainOwner, DrainTop, DrainTakeBuffer, ProcessEntries,
    GrowBatch, SequenceAppend, MarkBatchDurable, ScheduleBatch, PoisonAfterSchedule, DrainTurn,
    DrainRelease, FinalizeWorker, FinalizePop, FinalizePhase1, FinalizeRegister,
    FinalizeSubmit, FinalizeSubmitted, FinalizeFail, FinalizeStageError, FinalizeDrain,
    ApplyWorker, ApplyPublish, ApplyFail, ApplyComplete, ApplyCompleteFailed,
    vars, completionVars, seqVars, frontierVars, applyVars

(* For a database with a WAL: every step of the submitters, the drain       *)
(* owner, the finalize worker and the apply worker is a step of             *)
(* CommitService or leaves its variables alone. Group commits take          *)
(* consecutive positions once, the frontier moves over the log one commit   *)
(* at a time and never over one reported ambiguous or failed, and what      *)
(* commit_blocking returns stays true.                                      *)
THEOREM ServiceCorrect == HasWal => (Spec => ImplementsService)
  <1>1. Init => Service!ServiceInit
    BY DEF Init, CompletionInit, Service!ServiceInit
  <1>2. ASSUME ServiceInv, ServiceInv', [Next]_vars
        PROVE  [Service!ServiceNext]_Service!serviceVars
    <2>1. CASE SequenceAppend
      BY <1>2, <2>1, AppendImplements DEF Service!ServiceNext
    <2>2. CASE ApplyPublish
      BY <1>2, <2>2, PublishImplements DEF Service!ServiceNext
    <2>3. CASE \E t \in Txns : \/ WaitCompletion(t)
                               \/ /\ pc[t] \in {"start", "enqueue"} /\ NotAdmitted(t)
                                  /\ UNCHANGED <<journal, nextTs, published, visible>>
      BY <1>2, <2>3, WaitImplements, RefusalImplements DEF Service!ServiceNext
    <2>4. CASE ~SequenceAppend /\ ~ApplyPublish /\ UNCHANGED outcome
      <3>1. TypeOK /\ TypeOK' /\ PipelineInv /\ OrderInv /\ ApplyInv
        BY <1>2 DEF ServiceInv, AnswerInv
      <3>2. UNCHANGED <<journal, nextTs>>
        BY <1>2, <2>4, SequencerFrame
      <3>3. UNCHANGED <<published, visible>>
        BY <1>2, <2>4, <3>1, PublishedStep
      <3>4. QED
        BY <2>4, <3>2, <3>3 DEF Service!serviceVars
    <2>5. QED
      BY <1>2, <2>1, <2>2, <2>3, <2>4, AnswerFrame
  <1>3. QED
    BY <1>1, <1>2, ServiceInvCorrect, PTL DEF Spec, ImplementsService, Service!ServiceSpec

=============================================================================

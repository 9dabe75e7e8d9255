------------------------ MODULE CommitRuntimeProofs -------------------------
(* The pipeline invariant, for every set of transactions and every value of *)
(* the limits: what a step may do to it, the steps of the submitters and of *)
(* the drain owner, then those of the two workers, and the theorem.         *)
EXTENDS CommitRuntimeTypes

(* A leaf that names no prover goes to SMT; Zenon does the others.          *)
USE SMTT(30)

LEMMA ElemsTake ==
    ASSUME NEW S, NEW s \in Seq(S), s # <<>>
    PROVE  /\ Head(s) \in Elems(s)
           /\ Elems(Tail(s)) \subseteq Elems(s)
  <1>1. Len(Tail(s)) = Len(s) - 1 /\ \A i \in 1 .. Len(Tail(s)) : Tail(s)[i] = s[i + 1]
    BY HeadTailProperties
  <1>2. Len(s) \in Nat /\ Len(s) > 0 /\ Head(s) = s[1]
    OBVIOUS
  <1>3. QED
    BY <1>1, <1>2 DEF Elems

LEMMA ElemsPut ==
    ASSUME NEW S, NEW s \in Seq(S), NEW e \in S
    PROVE  Elems(Append(s, e)) = Elems(s) \cup {e}
  <1>1. /\ Len(Append(s, e)) = Len(s) + 1
        /\ \A i \in 1 .. Len(s) : Append(s, e)[i] = s[i]
        /\ Append(s, e)[Len(s) + 1] = e
    BY AppendProperties
  <1>2. Len(s) \in Nat
    OBVIOUS
  <1>3. QED
    BY <1>1, <1>2 DEF Elems

(* new keeps every timestamp of sl, or drops it, and makes no slot say      *)
(* that its commit has been published.                                      *)
Harmless(sl, new) ==
    \A t \in Txns :
        /\ new[t].ts = 0 \/ new[t].ts = sl[t].ts
        /\ new[t].st \in {"durable_done", "published"} =>
              sl[t].st \in {"durable_done", "published"}

LEMMA SetStateHarmless ==
    ASSUME NEW sl \in SlotTable, NEW S,
           NEW st \in {"rejected", "failed_append", "failed_apply", "ambiguous"}
    PROVE  Harmless(sl, SetState(sl, S, st))
  BY DEF Harmless, SetState, SlotTable

LEMMA HarmlessTransitive ==
    ASSUME NEW a, NEW b, NEW c, Harmless(a, b), Harmless(b, c)
    PROVE  Harmless(a, c)
  BY ZenonT(40) DEF Harmless

LEMMA PipelineInit == Init => PipelineInv
  <1> SUFFICES ASSUME Init PROVE PipelineInv
    OBVIOUS
  <1>1. InFlight = {}
    BY DEF Init, InFlight, QueuedForFinalize, Elems
  <1>2. JournalDense
    BY DEF Init, JournalDense
  <1>3. ScheduledIsDurable
    BY <1>1 DEF Init, ScheduledIsDurable
  <1>4. SlotsTellTheTruth
    BY DEF Init, SlotsTellTheTruth, CompletionInit, NoSlot
  <1>5. FrontiersOrdered
    BY DEF Init, FrontiersOrdered
  <1>6. QED
    BY <1>2, <1>3, <1>4, <1>5 DEF PipelineInv

(* The steps that only move commits towards publication, or give up on them. *)
LEMMA Quiet ==
    ASSUME TypeOK, TypeOK', PipelineInv,
           UNCHANGED <<nextTs, journal, durable, published, visible>>,
           accepted' \subseteq accepted,
           dpc' = "schedule" => dpc = "schedule",
           \A r \in InFlight' : r \in InFlight \/ (dpc = "schedule" /\ r \in accepted),
           applyPc' = "complete" =>
               applyPc = "complete" /\ Head(applyQueue') = Head(applyQueue),
           Harmless(slot, slot'),
           \A t \in Txns : outcome'[t] = "published" =>
               outcome[t] = "published" \/ slot[t].st = "published"
    PROVE  PipelineInv'
  <1>0. JournalDense /\ ScheduledIsDurable /\ SlotsTellTheTruth /\ FrontiersOrdered
    BY DEF PipelineInv
  <1>1. JournalDense'
    BY <1>0 DEF JournalDense
  <1>2. ScheduledIsDurable'
    <2>1. \A r \in accepted : r.ts <= nextTs - 1
      BY <1>0 DEF ScheduledIsDurable, JournalDense
    <2>2. dpc = "schedule" => \A r \in accepted : r \in journal /\ r.ts <= durable
      BY <1>0, <2>1 DEF ScheduledIsDurable
    <2>3. \A r \in InFlight' : r \in journal /\ r.ts <= durable
      BY <1>0, <2>2 DEF ScheduledIsDurable
    <2>4. QED
      BY <1>0, <2>3 DEF ScheduledIsDurable
  <1>3. SlotsTellTheTruth'
    BY <1>0, ZenonT(40) DEF SlotsTellTheTruth, Harmless
  <1>4. FrontiersOrdered'
    BY <1>0 DEF FrontiersOrdered
  <1>5. QED
    BY <1>1, <1>2, <1>3, <1>4 DEF PipelineInv

LEMMA HarmlessSame ==
    ASSUME UNCHANGED slot
    PROVE  Harmless(slot, slot')
  BY DEF Harmless

(* ... in particular those that leave the queues behind the owner alone. *)
behindVars == <<nextTs, journal, durable, published, visible, accepted,
                finQueue, finBatch, applyQueue, applyPc>>

LEMMA QuietFrame ==
    ASSUME TypeOK, TypeOK', PipelineInv,
           UNCHANGED behindVars,
           dpc' = "schedule" => dpc = "schedule",
           Harmless(slot, slot'),
           \A t \in Txns : outcome'[t] = "published" =>
               outcome[t] = "published" \/ slot[t].st = "published"
    PROVE  PipelineInv'
  <1>1. UNCHANGED <<nextTs, journal, durable, published, visible, accepted,
                    finQueue, finBatch, applyQueue, applyPc>>
    BY DEF behindVars
  <1>2. InFlight' = InFlight
    BY <1>1 DEF InFlight, QueuedForFinalize, Elems
  <1>3. QED
    BY <1>1, <1>2, Quiet

LEMMA QuietSame ==
    ASSUME TypeOK, TypeOK', PipelineInv,
           UNCHANGED behindVars, UNCHANGED <<slot, outcome>>,
           dpc' = "schedule" => dpc = "schedule"
    PROVE  PipelineInv'
  BY HarmlessSame, QuietFrame

LEMMA SubmitterPipeline ==
    ASSUME TypeOK, TypeOK', PipelineInv, NEW t \in Txns, Submitter(t)
    PROVE  PipelineInv'
  <1> USE DEF seqVars, frontierVars, finVars, applyVars, drainVars, completionVars
  <1>1. CASE SubmitCommit(t)
    <2>1. Harmless(slot, slot')
      BY <1>1 DEF SubmitCommit, Allocate, Harmless, TypeOK, CompletionTypeOK, SlotTable
    <2>2. \A u \in Txns : outcome'[u] = "published" => outcome[u] = "published"
      BY <1>1 DEF SubmitCommit, NotAdmitted, TypeOK, CompletionTypeOK
    <2>3. /\ UNCHANGED behindVars
          /\ dpc' = "schedule" => dpc = "schedule"
      BY <1>1 DEF SubmitCommit, behindVars
    <2>4. QED
      BY <2>1, <2>2, <2>3, QuietFrame
  <1>2. CASE EnqueueJob(t)
    <2>1. \A u \in Txns : outcome'[u] = "published" => outcome[u] = "published"
      BY <1>2 DEF EnqueueJob, NotAdmitted, TypeOK, CompletionTypeOK
    <2>2. /\ UNCHANGED behindVars
          /\ dpc' = "schedule" => dpc = "schedule"
          /\ slot' = slot
      BY <1>2 DEF EnqueueJob, behindVars
    <2>3. QED
      BY <2>1, <2>2, HarmlessSame, QuietFrame
  <1>3. CASE SignalDrain(t)
    <2>1. /\ UNCHANGED behindVars /\ UNCHANGED <<slot, outcome>>
          /\ dpc' = "schedule" => dpc = "schedule"
      BY <1>3 DEF SignalDrain, behindVars
    <2>2. QED
      BY <2>1, QuietSame
  <1>4. CASE WaitCompletion(t)
    <2>1. Harmless(slot, slot')
      BY <1>4 DEF WaitCompletion, Wait, NoSlot, Harmless, TypeOK, CompletionTypeOK,
                  SlotTable
    <2>2. \A u \in Txns : outcome'[u] = "published" =>
             outcome[u] = "published" \/ slot[u].st = "published"
      BY <1>4 DEF WaitCompletion, Wait, TypeOK, CompletionTypeOK
    <2>3. /\ UNCHANGED behindVars
          /\ dpc' = "schedule" => dpc = "schedule"
      BY <1>4 DEF WaitCompletion, behindVars
    <2>4. QED
      BY <2>1, <2>2, <2>3, QuietFrame
  <1>5. QED
    BY <1>1, <1>2, <1>3, <1>4 DEF Submitter

LEMMA RejectPendingHarmless ==
    ASSUME NEW sl \in SlotTable, NEW S
    PROVE  Harmless(sl, RejectPending(sl, S))
  BY SetStateHarmless DEF RejectPending

(* Slots are told of a failure after the queue has been rejected. *)
LEMMA FailHarmless ==
    ASSUME NEW sl \in SlotTable, NEW S, NEW ts,
           NEW st \in {"rejected", "failed_append", "failed_apply", "ambiguous"}
    PROVE  Harmless(sl, SetStateForCommitTs(RejectPending(sl, S), ts, st))
  <1>1. RejectPending(sl, S) \in SlotTable /\ Harmless(sl, RejectPending(sl, S))
    BY RejectPendingType, RejectPendingHarmless
  <1>2. Harmless(RejectPending(sl, S),
                 SetStateForCommitTs(RejectPending(sl, S), ts, st))
    BY <1>1, SetStateHarmless DEF SetStateForCommitTs
  <1>3. QED
    BY <1>1, <1>2, HarmlessTransitive

LEMMA DrainQuietPipeline ==
    ASSUME TypeOK, TypeOK', PipelineInv,
           \/ \E w \in Wakers : TakeWakeTask(w)
           \/ \E th \in Threads : DrainInline(th)
           \/ DrainTop \/ DrainTakeBuffer \/ ProcessEntries \/ GrowBatch
           \/ PoisonAfterSchedule \/ DrainTurn \/ DrainRelease
    PROVE  PipelineInv'
  <1> USE DEF seqVars, frontierVars, finVars, applyVars, drainVars, completionVars
  <1>1. CASE \E w \in Wakers : TakeWakeTask(w)
    <2>1. /\ UNCHANGED behindVars /\ UNCHANGED <<slot, outcome>>
          /\ dpc' = "schedule" => dpc = "schedule"
      BY <1>1 DEF TakeWakeTask, behindVars
    <2>2. QED
      BY <2>1, QuietSame
  <1>2. CASE \E th \in Threads : DrainInline(th)
    <2>1. /\ UNCHANGED behindVars /\ UNCHANGED <<slot, outcome>>
          /\ dpc' = "schedule" => dpc = "schedule"
      BY <1>2 DEF DrainInline, behindVars
    <2>2. QED
      BY <2>1, QuietSame
  <1>3. CASE DrainTop
    <2>1. /\ UNCHANGED behindVars /\ UNCHANGED <<slot, outcome>>
          /\ dpc' = "schedule" => dpc = "schedule"
      BY <1>3 DEF DrainTop, behindVars
    <2>2. QED
      BY <2>1, QuietSame
  <1>4. CASE DrainTakeBuffer
    <2>1. /\ UNCHANGED behindVars /\ UNCHANGED <<slot, outcome>>
          /\ dpc' = "schedule" => dpc = "schedule"
      BY <1>4 DEF DrainTakeBuffer, behindVars
    <2>2. QED
      BY <2>1, QuietSame
  <1>5. CASE ProcessEntries
    <2>1. Harmless(slot, slot')
      <3>1. slot \in SlotTable
        BY DEF TypeOK, CompletionTypeOK
      <3>2. slot' = slot \/ slot' = SetState(slot, {Head(local)}, "rejected")
        BY <1>5, ZenonT(40)
        DEF ProcessEntries, ProcessDone, ProcessRejected, ProcessBlocked,
            ProcessKeptBehind, ProcessStartsBatch
      <3>3. QED
        BY <3>1, <3>2, HarmlessSame, SetStateHarmless
    <2>2. dpc' # "schedule"
      BY <1>5 DEF ProcessEntries, ProcessDone, ProcessRejected, ProcessBlocked,
                  ProcessKeptBehind, ProcessStartsBatch, GrowOrAppend
    <2>3. /\ UNCHANGED behindVars
          /\ dpc' = "schedule" => dpc = "schedule"
          /\ outcome' = outcome
      BY <1>5, <2>2 DEF ProcessEntries, behindVars
    <2>4. QED
      BY <2>1, <2>2, <2>3, QuietFrame
  <1>6. CASE GrowBatch
    <2>1. dpc' # "schedule"
      BY <1>6 DEF GrowBatch, GrowBlocked, GrowStops, GrowTakes, GrowOrAppend
    <2>2. /\ UNCHANGED behindVars
          /\ dpc' = "schedule" => dpc = "schedule"
          /\ slot' = slot
          /\ outcome' = outcome
      BY <1>6, <2>1 DEF GrowBatch, behindVars
    <2>3. QED
      BY <2>1, <2>2, HarmlessSame, QuietFrame
  <1>7. CASE PoisonAfterSchedule
    <2>1. Harmless(slot, slot')
      BY <1>7, RejectPendingHarmless DEF PoisonAfterSchedule, TypeOK, CompletionTypeOK
    <2>2. /\ UNCHANGED behindVars
          /\ dpc' = "schedule" => dpc = "schedule"
          /\ outcome' = outcome
      BY <1>7 DEF PoisonAfterSchedule, behindVars
    <2>3. QED
      BY <2>1, <2>2, QuietFrame
  <1>8. CASE DrainTurn
    <2>1. /\ UNCHANGED behindVars /\ UNCHANGED <<slot, outcome>>
          /\ dpc' = "schedule" => dpc = "schedule"
      BY <1>8 DEF DrainTurn, behindVars
    <2>2. QED
      BY <2>1, QuietSame
  <1>9. CASE DrainRelease
    <2>1. /\ UNCHANGED behindVars /\ UNCHANGED <<slot, outcome>>
          /\ dpc' = "schedule" => dpc = "schedule"
      BY <1>9 DEF DrainRelease, behindVars
    <2>2. QED
      BY <2>1, QuietSame
  <1>10. QED
    BY <1>1, <1>2, <1>3, <1>4, <1>5, <1>6, <1>7, <1>8, <1>9

(* A batch takes the timestamps nextTs .. nextTs + k - 1, one each. *)
LEMMA JournalGrows ==
    ASSUME SequencerTypeOK, JournalDense,
           NEW b \in Seq(Txns), NEW cut \in 1 .. Len(b),
           NEW k \in 0 .. cut, NEW f \in [1 .. k -> 1 .. cut],
           journal' = journal \cup SequencedRecords(b, f), nextTs' = nextTs + k
    PROVE  JournalDense'
  <1> DEFINE recs == SequencedRecords(b, f)
             rec(n) == [txn |-> b[f[n]], ts |-> nextTs + n - 1]
  <1>1. Len(f) = k /\ k \in Nat /\ nextTs \in Nat \ {0}
    BY DEF SequencerTypeOK
  <1>2. /\ \A r \in recs : \E n \in 1 .. k : r = rec(n)
        /\ \A n \in 1 .. k : rec(n) \in recs
    BY <1>1, ZenonT(40) DEF SequencedRecords
  <1>3. \A n \in 1 .. k : rec(n).ts = nextTs + n - 1
    OBVIOUS
  <1> HIDE DEF recs, rec
  <1>4. \A r \in recs : r.ts \in nextTs .. nextTs + k - 1
    BY <1>1, <1>2, <1>3
  <1>5. \A p \in nextTs .. nextTs + k - 1 : \E r \in recs : r.ts = p
    <2> TAKE p \in nextTs .. nextTs + k - 1
    <2>1. p - nextTs + 1 \in 1 .. k /\ rec(p - nextTs + 1).ts = p
      BY <1>1, <1>3
    <2>2. QED
      BY <1>2, <2>1
  <1>6. \A r, q \in recs : r.ts = q.ts => r = q
    <2> TAKE r, q \in recs
    <2>1. PICK m \in 1 .. k : r = rec(m)
      BY <1>2
    <2>2. PICK n \in 1 .. k : q = rec(n)
      BY <1>2
    <2>3. r.ts = q.ts => m = n
      BY <1>1, <1>3, <2>1, <2>2
    <2>4. QED
      BY <2>1, <2>2, <2>3
  <1>7. journal' = journal \cup recs
    BY DEF recs
  <1>8. \A r \in journal' : r.ts \in 1 .. nextTs' - 1
    BY <1>1, <1>4, <1>7 DEF JournalDense
  <1>9. \A p \in 1 .. nextTs' - 1 : \E r \in journal' : r.ts = p
    <2> TAKE p \in 1 .. nextTs' - 1
    <2>1. p \in 1 .. nextTs - 1 \/ p \in nextTs .. nextTs + k - 1
      BY <1>1
    <2>2. QED
      BY <1>5, <1>7, <2>1 DEF JournalDense
  <1>10. \A r, q \in journal' : r.ts = q.ts => r = q
    BY <1>1, <1>4, <1>6, <1>7 DEF JournalDense
  <1>11. QED
    BY <1>8, <1>9, <1>10 DEF JournalDense

LEMMA SequenceAppendPipeline ==
    ASSUME TypeOK, TypeOK', PipelineInv, SequenceAppend
    PROVE  PipelineInv'
  <1> PICK cut \in 1 .. Len(batch) :
          \E k \in 0 .. cut : \E f \in [1 .. k -> 1 .. cut] : AppendBatch(cut, k, f)
    BY DEF SequenceAppend
  <1> PICK k \in 0 .. cut : \E f \in [1 .. k -> 1 .. cut] : AppendBatch(cut, k, f)
    OBVIOUS
  <1> PICK f \in [1 .. k -> 1 .. cut] : AppendBatch(cut, k, f)
    OBVIOUS
  <1> DEFINE recs == SequencedRecords(batch, f)
             rej  == RejectedTxns(batch, cut, f)
             def  == DeferredSuffix(batch, cut)
             failed == {r.txn : r \in recs}
             rejected == SetState(slot, rej, "rejected")
  <1> HIDE DEF recs, rej, def, failed, rejected
  <1>1. /\ UNCHANGED <<outcome, durable, published, finQueue, finBatch, applyQueue,
                       applyPc, visible>>
        /\ InFlight' = InFlight
    BY DEF SequenceAppend, frontierVars, finVars, applyVars, InFlight, QueuedForFinalize
  <1>2. rejected \in SlotTable /\ Harmless(slot, rejected)
    BY SetStateType, SetStateHarmless
    DEF TypeOK, CompletionTypeOK, SlotStates, TerminalStates, rejected
  <1>3. CASE NothingAccepted(rej, def)
    <2>1. /\ UNCHANGED <<nextTs, journal, accepted>>
          /\ dpc' # "schedule" /\ slot' = rejected
      BY <1>3 DEF NothingAccepted, seqVars, rejected
    <2>2. UNCHANGED behindVars
      BY <1>1, <2>1 DEF behindVars
    <2>3. QED
      BY <1>1, <1>2, <2>1, <2>2, QuietFrame
  <1>4. CASE BatchAppendFailed(recs, rej, def)
    <2> DEFINE sl == SetState(rejected, failed, "failed_append")
    <2>1. sl \in SlotTable /\ Harmless(rejected, sl)
      BY <1>2, SetStateType, SetStateHarmless DEF SlotStates, TerminalStates
    <2>2. Harmless(sl, RejectPending(sl, Elems(def)))
      BY <2>1, RejectPendingHarmless
    <2>3. slot' = sl \/ slot' = RejectPending(sl, Elems(def))
      BY <1>4 DEF BatchAppendFailed, rejected, failed
    <2> HIDE DEF sl
    <2>4. Harmless(slot, slot')
      BY <1>2, <2>1, <2>2, <2>3, HarmlessTransitive
    <2>5. /\ UNCHANGED behindVars
          /\ dpc' = "schedule" => dpc = "schedule"
      BY <1>1, <1>4 DEF BatchAppendFailed, behindVars
    <2>6. QED
      BY <1>1, <2>4, <2>5, QuietFrame
  <1>5. CASE BatchDurable(recs, k, rej, def) \/ BatchAmbiguous(recs, k, rej, def)
    <2>1. journal' = journal \cup recs /\ nextTs' = nextTs + k
      BY <1>5 DEF BatchDurable, BatchAmbiguous
    <2>2. JournalDense'
      BY <2>1, JournalGrows, ZenonT(40)
      DEF recs, TypeOK, SequencerTypeOK, DrainTypeOK, PipelineInv
    <2>3. Harmless(slot, slot')
      <3>1. slot' = rejected
            \/ slot' = SetState(RejectPending(rejected, Elems(def)), failed, "ambiguous")
        BY <1>5 DEF BatchDurable, BatchAmbiguous, rejected, failed
      <3>2. /\ RejectPending(rejected, Elems(def)) \in SlotTable
            /\ Harmless(rejected, RejectPending(rejected, Elems(def)))
        BY <1>2, RejectPendingType, RejectPendingHarmless
      <3>3. Harmless(RejectPending(rejected, Elems(def)),
                     SetState(RejectPending(rejected, Elems(def)), failed, "ambiguous"))
        BY <3>2, SetStateHarmless
      <3>4. QED
        BY <1>2, <3>1, <3>2, <3>3, HarmlessTransitive
    <2>4. ScheduledIsDurable'
      <3>1. accepted' = recs \/ accepted' = accepted
        BY <1>5 DEF BatchDurable, BatchAmbiguous
      <3>2. dpc' # "schedule"
        BY <1>5 DEF BatchDurable, BatchAmbiguous
      <3>3. QED
        BY <1>1, <2>1, <3>1, <3>2 DEF PipelineInv, ScheduledIsDurable
    <2>5. SlotsTellTheTruth'
      BY <1>1, <2>1, <2>3, ZenonT(40) DEF PipelineInv, SlotsTellTheTruth, Harmless
    <2>6. FrontiersOrdered'
      <3>1. nextTs' >= nextTs /\ nextTs \in Nat /\ durable \in Nat /\ nextTs' \in Nat
        BY <2>1 DEF TypeOK, SequencerTypeOK, FrontierTypeOK
      <3>2. QED
        BY <1>1, <2>1, <3>1 DEF PipelineInv, FrontiersOrdered
    <2>7. QED
      BY <2>2, <2>4, <2>5, <2>6 DEF PipelineInv
  <1>6. QED
    BY <1>3, <1>4, <1>5 DEF AppendBatch, recs, rej, def

LEMMA MarkBatchDurablePipeline ==
    ASSUME TypeOK, TypeOK', PipelineInv, MarkBatchDurable
    PROVE  PipelineInv'
  <1> USE DEF PipelineInv
  <1>1. /\ UNCHANGED <<nextTs, journal, accepted, outcome, published, finQueue,
                       finBatch, applyQueue, applyPc, visible>>
        /\ InFlight' = InFlight
    BY DEF MarkBatchDurable, seqVars, finVars, applyVars, InFlight, QueuedForFinalize
  <1>2. nextTs \in Nat /\ nextTs > 0 /\ durable' = nextTs - 1
    BY DEF MarkBatchDurable, TypeOK, SequencerTypeOK
  <1>3. JournalDense'
    BY <1>1 DEF JournalDense
  <1>4. ScheduledIsDurable'
    BY <1>1, <1>2 DEF ScheduledIsDurable, JournalDense
  <1>5. SlotsTellTheTruth'
    <2>1. ASSUME NEW t \in Txns
          PROVE  \/ slot'[t] = slot[t]
                 \/ /\ slot'[t].st = "durable"
                    /\ [txn |-> t, ts |-> slot'[t].ts] \in accepted
      <3>1. CASE slot[t].st # "none" /\ \E r \in accepted : r.txn = t
        <4> DEFINE c == CHOOSE r \in accepted : r.txn = t
        <4>1. c \in accepted /\ c.txn = t
          BY <3>1
        <4>2. c = [txn |-> t, ts |-> c.ts]
          BY <4>1 DEF TypeOK, DrainTypeOK, Record
        <4>3. slot'[t] = [st |-> "durable", ts |-> c.ts]
          BY <3>1 DEF MarkBatchDurable, MarkDurable
        <4>4. QED
          BY <4>1, <4>2, <4>3
      <3>2. CASE ~(slot[t].st # "none" /\ \E r \in accepted : r.txn = t)
        BY <3>2 DEF MarkBatchDurable, MarkDurable
      <3>3. QED
        BY <3>1, <3>2
    <2>2. QED
      BY <1>1, <2>1, ZenonT(40) DEF SlotsTellTheTruth, ScheduledIsDurable
  <1>6. FrontiersOrdered'
    BY <1>1, <1>2 DEF FrontiersOrdered, TypeOK, FrontierTypeOK
  <1>7. QED
    BY <1>3, <1>4, <1>5, <1>6

LEMMA ScheduleBatchPipeline ==
    ASSUME TypeOK, TypeOK', PipelineInv, ScheduleBatch
    PROVE  PipelineInv'
  <1>1. UNCHANGED <<nextTs, journal, outcome, durable, published, finBatch,
                    applyQueue, applyPc, visible>>
    BY DEF ScheduleBatch, seqVars, frontierVars, applyVars
  <1>2. \A r \in InFlight' : r \in InFlight \/ r \in accepted
    <2>1. finQueue' = Append(finQueue, accepted) \/ finQueue' = finQueue
      BY DEF ScheduleBatch
    <2>2. Elems(finQueue') = Elems(finQueue) \cup {accepted} \/ finQueue' = finQueue
      <3>1. finQueue \in Seq(SUBSET Record) /\ accepted \in SUBSET Record
        BY DEF TypeOK, FinalizeTypeOK, DrainTypeOK
      <3>2. Elems(Append(finQueue, accepted)) = Elems(finQueue) \cup {accepted}
        BY <3>1, ElemsPut
      <3>3. CASE finQueue' = Append(finQueue, accepted)
        BY <3>2, <3>3 DEF Elems
      <3>4. QED
        BY <2>1, <3>3
    <2>3. QED
      BY <1>1, <2>2 DEF InFlight, QueuedForFinalize
  <1>3. Harmless(slot, slot')
    <2>1. slot \in SlotTable
      BY DEF TypeOK, CompletionTypeOK
    <2>2. slot' = slot \/ \E S : slot' = SetState(slot, S, "ambiguous")
      BY DEF ScheduleBatch
    <2>3. QED
      BY <2>1, <2>2, HarmlessSame, SetStateHarmless
  <1>4. /\ accepted' \subseteq accepted
        /\ dpc = "schedule" /\ dpc' # "schedule"
    BY DEF ScheduleBatch
  <1>5. QED
    BY <1>1, <1>2, <1>3, <1>4, Quiet

----------------------------------------------------------------------------
(* The finalize worker and the apply worker.                                *)
LEMMA FinalizeWorkerPipeline ==
    ASSUME TypeOK, TypeOK', PipelineInv, FinalizeWorker
    PROVE  PipelineInv'
  <1> USE DEF seqVars, frontierVars, applyVars, drainVars, completionVars
  <1>1. CASE FinalizePop
    <2>1. Head(finQueue) \in Elems(finQueue) /\ Elems(Tail(finQueue)) \subseteq Elems(finQueue)
      BY <1>1, ElemsTake DEF FinalizePop, TypeOK, FinalizeTypeOK
    <2>2. \A r \in InFlight' : r \in InFlight
      BY <1>1, <2>1 DEF FinalizePop, InFlight, QueuedForFinalize
    <2>3. UNCHANGED <<nextTs, journal, durable, published, visible, accepted, dpc,
                     outcome, slot, applyQueue, applyPc>>
      BY <1>1 DEF FinalizePop
    <2>4. QED
      BY <2>2, <2>3, HarmlessSame, Quiet
  <1>2. CASE FinalizePhase1
    <2>1. /\ UNCHANGED behindVars /\ UNCHANGED <<slot, outcome>>
          /\ dpc' = "schedule" => dpc = "schedule"
      BY <1>2 DEF FinalizePhase1, behindVars
    <2>2. QED
      BY <2>1, QuietSame
  <1>3. CASE FinalizeRegister
    <2>1. /\ UNCHANGED behindVars /\ UNCHANGED <<slot, outcome>>
          /\ dpc' = "schedule" => dpc = "schedule"
      BY <1>3 DEF FinalizeRegister, behindVars
    <2>2. QED
      BY <2>1, QuietSame
  <1>4. CASE FinalizeSubmit
    <2>1. \/ applyQueue' = applyQueue
          \/ \E r \in finBatch : applyQueue' = Append(applyQueue, r)
      BY <1>4 DEF FinalizeSubmit
    <2>2. applyQueue \in Seq(Record) /\ finBatch \subseteq Record
      BY DEF TypeOK, ApplyTypeOK, FinalizeTypeOK
    <2>3. \A r \in InFlight' : r \in InFlight
      <3>1. \A e \in Elems(applyQueue') : e \in Elems(applyQueue) \/ e \in finBatch
        <4>1. \A r \in finBatch : Elems(Append(applyQueue, r)) = Elems(applyQueue) \cup {r}
          BY <2>2, ElemsPut
        <4>2. CASE \E r \in finBatch : applyQueue' = Append(applyQueue, r)
          <5>1. PICK r \in finBatch : applyQueue' = Append(applyQueue, r)
            BY <4>2
          <5>2. Elems(applyQueue') = Elems(Append(applyQueue, r))
            BY <5>1 DEF Elems
          <5>3. QED
            BY <4>1, <5>2
        <4>3. CASE applyQueue' = applyQueue
          BY <4>3 DEF Elems
        <4>4. QED
          BY <2>1, <4>2, <4>3
      <3>2. QED
        BY <1>4, <3>1 DEF FinalizeSubmit, InFlight, QueuedForFinalize
    <2>4. applyPc = "complete" => Head(applyQueue') = Head(applyQueue)
      <3>1. applyPc = "complete" => applyQueue # <<>>
        BY DEF TypeOK, ApplyTypeOK
      <3>2. ASSUME NEW r \in Record, applyQueue # <<>>
            PROVE  Head(Append(applyQueue, r)) = Head(applyQueue)
        BY <2>2, <3>2
      <3>3. QED
        BY <2>1, <2>2, <3>1, <3>2
    <2>5. UNCHANGED <<nextTs, journal, durable, published, visible, accepted, dpc,
                     outcome, slot, applyPc>>
      BY <1>4 DEF FinalizeSubmit
    <2>6. QED
      BY <2>3, <2>4, <2>5, HarmlessSame, Quiet
  <1>5. CASE FinalizeSubmitted
    <2>1. \A r \in InFlight' : r \in InFlight
      BY <1>5 DEF FinalizeSubmitted, InFlight, QueuedForFinalize
    <2>2. Harmless(slot, slot')
      BY <1>5 DEF FinalizeSubmitted, MarkPublishSubmitted, Harmless, TypeOK,
                  CompletionTypeOK, SlotTable
    <2>3. UNCHANGED <<nextTs, journal, durable, published, visible, accepted, dpc,
                     outcome, applyQueue, applyPc>>
      BY <1>5 DEF FinalizeSubmitted
    <2>4. QED
      BY <2>1, <2>2, <2>3, Quiet
  <1>6. CASE FinalizeFail
    <2>1. /\ UNCHANGED behindVars /\ UNCHANGED <<slot, outcome>>
          /\ dpc' = "schedule" => dpc = "schedule"
      BY <1>6 DEF FinalizeFail, behindVars
    <2>2. QED
      BY <2>1, QuietSame
  <1>7. CASE FinalizeStageError
    <2>1. Harmless(slot, slot')
      BY <1>7, FailHarmless DEF FinalizeStageError, TypeOK, CompletionTypeOK
    <2>2. /\ UNCHANGED behindVars
          /\ dpc' = "schedule" => dpc = "schedule"
          /\ outcome' = outcome
      BY <1>7 DEF FinalizeStageError, behindVars
    <2>3. QED
      BY <2>1, <2>2, QuietFrame
  <1>8. CASE FinalizeDrain
    <2>1. \A r \in InFlight' : r \in InFlight
      <3>1. finQueue' = <<>> /\ finBatch' = {} /\ applyQueue' = applyQueue
        BY <1>8 DEF FinalizeDrain
      <3>2. QueuedForFinalize' = {}
        BY <3>1 DEF QueuedForFinalize, Elems
      <3>3. Elems(applyQueue') = Elems(applyQueue)
        BY <3>1
      <3>4. QED
        BY <3>1, <3>2, <3>3 DEF InFlight
    <2>2. Harmless(slot, slot')
      <3>1. slot \in SlotTable
        BY DEF TypeOK, CompletionTypeOK
      <3>2. slot' = SetState(slot, {r.txn : r \in finBatch \cup QueuedForFinalize},
                             "ambiguous")
        BY <1>8 DEF FinalizeDrain
      <3>3. QED
        BY <3>1, <3>2, SetStateHarmless
    <2>3. UNCHANGED <<nextTs, journal, durable, published, visible, accepted, dpc,
                     outcome, applyQueue, applyPc>>
      BY <1>8 DEF FinalizeDrain
    <2>4. QED
      BY <2>1, <2>2, <2>3, Quiet
  <1>9. QED
    BY <1>1, <1>2, <1>3, <1>4, <1>5, <1>6, <1>7, <1>8 DEF FinalizeWorker

LEMMA ApplyWorkerPipeline ==
    ASSUME TypeOK, TypeOK', PipelineInv, ApplyWorker
    PROVE  PipelineInv'
  <1> USE DEF seqVars, frontierVars, finVars, drainVars, completionVars
  <1> DEFINE head == Head(applyQueue)
  <1>0. applyQueue # <<>> =>
           /\ head \in InFlight /\ head \in Record
           /\ Elems(Tail(applyQueue)) \subseteq Elems(applyQueue)
    <2>1. applyQueue \in Seq(Record)
      BY DEF TypeOK, ApplyTypeOK
    <2>2. applyQueue # <<>> =>
             /\ head \in Elems(applyQueue) /\ head \in Record
             /\ Elems(Tail(applyQueue)) \subseteq Elems(applyQueue)
      BY <2>1, ElemsTake, SeqTake
    <2>3. QED
      BY <2>2 DEF InFlight
  <1>1. applyQueue # <<>> =>
           /\ head \in journal /\ head.ts <= durable
           /\ head.ts \in Nat /\ head.ts # 0 /\ head.txn \in Txns
    <2>1. applyQueue # <<>> => head \in journal /\ head.ts <= durable
      BY <1>0 DEF PipelineInv, ScheduledIsDurable
    <2>2. \A r \in journal : r.ts # 0
      BY DEF PipelineInv, JournalDense
    <2>3. QED
      BY <1>0, <2>1, <2>2 DEF Record
  <1> HIDE DEF head
  <1>2. CASE ApplyPublish
    <2>1. /\ UNCHANGED <<nextTs, journal, accepted, dpc, slot, outcome, durable,
                         finQueue, finBatch, applyQueue>>
          /\ InFlight' = InFlight
          /\ applyQueue # <<>>
      BY <1>2 DEF ApplyPublish, InFlight, QueuedForFinalize
    <2>2. /\ visible' = visible \cup {head.txn}
          /\ published' = MaxOf(published, head.ts)
      BY <1>2 DEF ApplyPublish, head
    <2>3. /\ published' \in Nat /\ published \in Nat /\ durable \in Nat
          /\ published <= published' /\ head.ts <= published'
      BY <1>1, <2>1, <2>2 DEF TypeOK, FrontierTypeOK, MaxOf
    <2>4. JournalDense' /\ ScheduledIsDurable'
      BY <2>1 DEF PipelineInv, JournalDense, ScheduledIsDurable
    <2>5. SlotsTellTheTruth'
      <3>1. Head(applyQueue').txn \in visible'
        BY <2>1, <2>2 DEF head
      <3>2. QED
        BY <2>1, <2>2, <3>1 DEF PipelineInv, SlotsTellTheTruth
    <2>6. FrontiersOrdered'
      <3>1. published' <= durable'
        BY <1>1, <2>1, <2>2, <2>3 DEF PipelineInv, FrontiersOrdered, MaxOf
      <3>2. \A t \in visible' : \E r \in journal' : r.txn = t /\ r.ts <= published'
        <4>1. ASSUME NEW t \in visible
              PROVE  \E r \in journal : r.txn = t /\ r.ts <= published'
          <5>1. PICK r \in journal : r.txn = t /\ r.ts <= published
            BY DEF PipelineInv, FrontiersOrdered
          <5>2. r.ts \in Nat
            BY DEF TypeOK, SequencerTypeOK, Record
          <5>3. QED
            BY <2>3, <5>1, <5>2
        <4>2. QED
          BY <1>1, <2>1, <2>2, <2>3, <4>1
      <3>3. QED
        BY <2>1, <3>1, <3>2 DEF PipelineInv, FrontiersOrdered
    <2>7. QED
      BY <2>4, <2>5, <2>6 DEF PipelineInv
  <1>3. CASE ApplyFail
    <2>1. InFlight' = InFlight
      BY <1>3 DEF ApplyFail, InFlight, QueuedForFinalize
    <2>2. /\ UNCHANGED <<nextTs, journal, durable, published, visible, accepted, dpc,
                        outcome, slot, applyQueue>>
          /\ applyPc' = "failed"
      BY <1>3 DEF ApplyFail
    <2>3. QED
      BY <2>1, <2>2, HarmlessSame, Quiet
  <1>4. CASE ApplyComplete
    <2>1. applyQueue # <<>> /\ head.txn \in visible
      BY <1>4, ZenonT(40) DEF ApplyComplete, TypeOK, ApplyTypeOK, PipelineInv, SlotsTellTheTruth, head
    <2>2. /\ UNCHANGED <<nextTs, journal, accepted, dpc, outcome, durable, published,
                         finQueue, finBatch, visible>>
          /\ applyPc' = "idle" /\ applyQueue' = Tail(applyQueue)
          /\ slot' = MarkPublished(slot, head.ts)
      BY <1>4, ZenonT(40) DEF ApplyComplete, head
    <2>3. \A r \in InFlight' : r \in InFlight
      <3>1. Elems(applyQueue') = Elems(Tail(applyQueue))
        BY <2>2 DEF Elems
      <3>2. QED
        BY <1>0, <2>1, <2>2, <3>1 DEF InFlight, QueuedForFinalize
    <2>4. ASSUME NEW t \in Txns, slot[t].ts = head.ts
          PROVE  t \in visible
      <3>1. [txn |-> t, ts |-> slot[t].ts] \in journal
        BY <1>1, <2>1, <2>4 DEF PipelineInv, SlotsTellTheTruth
      <3>2. [txn |-> t, ts |-> slot[t].ts] = head
        BY <1>1, <2>1, <2>4, <3>1 DEF PipelineInv, JournalDense
      <3>3. t = head.txn
        BY <3>2
      <3>4. QED
        BY <2>1, <3>3
    <2>5. ASSUME NEW t \in Txns
          PROVE  /\ slot'[t].ts = slot[t].ts
                 /\ slot'[t].st \in {"durable_done", "published"} =>
                       slot[t].st \in {"durable_done", "published"} \/ slot[t].ts = head.ts
      BY <2>2 DEF MarkPublished, SlotsForCommitTs, TypeOK, CompletionTypeOK, SlotTable
    <2>6. JournalDense' /\ FrontiersOrdered'
      BY <2>2 DEF PipelineInv, JournalDense, FrontiersOrdered
    <2>7. ScheduledIsDurable'
      BY <2>2, <2>3 DEF PipelineInv, ScheduledIsDurable
    <2>8. SlotsTellTheTruth'
      BY <2>2, <2>4, <2>5, ZenonT(40) DEF PipelineInv, SlotsTellTheTruth
    <2>9. QED
      BY <2>6, <2>7, <2>8 DEF PipelineInv
  <1>5. CASE ApplyCompleteFailed
    <2>1. applyQueue # <<>>
      BY <1>5 DEF ApplyCompleteFailed, TypeOK, ApplyTypeOK
    <2>2. \A r \in InFlight' : r \in InFlight
      <3>1. Elems(applyQueue') = Elems(Tail(applyQueue))
        BY <1>5, ZenonT(40) DEF ApplyCompleteFailed, Elems
      <3>2. QED
        BY <1>0, <1>5, <2>1, <3>1 DEF ApplyCompleteFailed, InFlight, QueuedForFinalize
    <2>3. Harmless(slot, slot')
      BY <1>5, FailHarmless DEF ApplyCompleteFailed, TypeOK, CompletionTypeOK
    <2>4. /\ UNCHANGED <<nextTs, journal, durable, published, visible, accepted, dpc,
                        outcome>>
          /\ applyPc' = "idle"
      BY <1>5 DEF ApplyCompleteFailed
    <2>5. QED
      BY <2>2, <2>3, <2>4, Quiet
  <1>6. QED
    BY <1>2, <1>3, <1>4, <1>5 DEF ApplyWorker

LEMMA PipelineStep == TypeOK /\ TypeOK' /\ PipelineInv /\ [Next]_vars => PipelineInv'
  <1> SUFFICES ASSUME TypeOK, TypeOK', PipelineInv, [Next]_vars PROVE PipelineInv'
    OBVIOUS
  <1>1. CASE Next
    BY <1>1, SubmitterPipeline, DrainQuietPipeline, SequenceAppendPipeline,
       MarkBatchDurablePipeline, ScheduleBatchPipeline, FinalizeWorkerPipeline,
       ApplyWorkerPipeline
    DEF Next, DrainOwner
  <1>2. CASE UNCHANGED vars
    <2>1. UNCHANGED behindVars /\ UNCHANGED <<slot, outcome, dpc>>
      BY <1>2 DEF vars, completionVars, drainVars, seqVars, frontierVars, finVars,
                  applyVars, behindVars
    <2>2. QED
      BY <2>1, QuietSame
  <1>3. QED
    BY <1>1, <1>2

(* For any number of submitters, wake workers and faults: commit timestamps *)
(* are dense and unique, what is scheduled is durable, the frontiers are    *)
(* ordered, readers see durable commits only, and a completion that says    *)
(* "published" is about a commit readers can see.                           *)
THEOREM PipelineCorrect == Spec => []PipelineInv
  <1>1. Init => TypeOK /\ PipelineInv
    BY TypeInit, PipelineInit
  <1>2. (TypeOK /\ PipelineInv) /\ [Next]_vars => (TypeOK /\ PipelineInv)'
    BY TypeStep, PipelineStep
  <1>3. QED
    BY <1>1, <1>2, PTL DEF Spec

=============================================================================

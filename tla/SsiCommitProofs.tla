--------------------------- MODULE SsiCommitProofs ---------------------------
(* For any number of serializable transactions and items: what a            *)
(* transaction has read can always be found by a later writer, and two      *)
(* transactions in write skew both commit only through an overlap that      *)
(* validate_commit cannot see.                                              *)
EXTENDS SsiCommit, FiniteSetTheorems, TLAPS

\* A leaf that names no prover goes to Zenon; SMT does the arithmetic, and the
\* records and sets of records.
USE ZenonT(100)

\* Phases from a point of the commit on, without those of an abort.
Fenced == {"accepted", "durable", "summarized", "registered", "published"}
ReadersMarked == {"state", "epoch", "queued"} \cup Fenced
ReadsScanned == {"activeReaders"} \cup ReadersMarked
WritesScanned == {"committedReads"} \cup ReadsScanned
Started == {"committedWrites"} \cup WritesScanned
Summarized == {"summarized", "registered", "published"}

\* Where the reads of t are.
ReadsInv(t) ==
    /\ phase[t] = "idle" => deps[t] = {}
    /\ phase[t] \in {"active", "summarized"} \cup (Started \ Summarized) => t \in indexed
    /\ t \in summaries <=> phase[t] \in Summarized
    /\ phase[t] \in Started => deps[t] = Reads[t] /\ deps[t] \subseteq frozen[t]
    /\ t \in batch => phase[t] = "accepted"

\* t has both marks and will read them, or has read them: its plan fails.
Doomed(t) ==
    \/ phase[t] = "state" /\ t \in rwIn /\ t \in rwOut
    \/ phase[t] = "epoch" /\ seen[t].in /\ seen[t].out

\* u was summarized when t began its validation.
After(t, u) ==
    /\ u \in summaries
    /\ commitTs[u] > readTs[t] =>
          /\ t \in rwOut
          /\ phase[t] \in ReadsScanned => t \in rwIn
          /\ phase[t] \in ReadersMarked => Doomed(t)

\* Each of t and u began its validation before the other looked at the active
\* read sets, so that it is met there.
Abreast(t, u) ==
    /\ phase[t] \in ReadersMarked => u \in rwOut
    /\ phase[u] \in ReadersMarked => t \in rwOut
    /\ phase[t] \in ReadersMarked /\ phase[u] \in ReadersMarked => Doomed(t) \/ Doomed(u)
    /\ phase[t] \notin ReadersMarked => u \notin summaries
    /\ phase[u] \notin ReadersMarked => t \notin summaries

Skewed(t, u) ==
    /\ Reads[t] \cap Writes[u] # {} /\ Reads[u] \cap Writes[t] # {}
    /\ phase[t] \in WritesScanned /\ phase[u] \in WritesScanned
    /\ u \notin blind[t] /\ t \notin blind[u]

SkewInv(t, u) == Skewed(t, u) => After(t, u) \/ After(u, t) \/ Abreast(t, u)

IInv ==
    /\ TypeOK
    /\ \A t \in Txns : ReadsInv(t)
    /\ \A t, u \in Txns : t # u => SkewInv(t, u)

-----------------------------------------------------------------------------
(* Types *)

\* A batch is finite, so that the timestamps given out in it are numbers.
LEMMA BatchFinite ==
    ASSUME TypeOK
    PROVE  Cardinality(batch) \in Nat
<1>1. batch \in SUBSET Txns /\ IsFiniteSet(Txns)
  BY SsiAssumption DEF TypeOK
<1> QED
  BY <1>1, FS_Subset, FS_CardinalityType

\* The validator starts well typed.
LEMMA InitType == Init => TypeOK
  BY SMT DEF Init, TypeOK

\* An epoch that moves moves for validated transactions.
LEMMA MarkType ==
    ASSUME TypeOK
    PROVE  /\ Bump => bumped' \subseteq Txns
           /\ \A S \in SUBSET Txns : Mark(S) => moved' \subseteq Txns /\ bumped' \subseteq Txns
  BY SMT DEF TypeOK, Mark, Bump, Validated

\* The steps of a transaction that is not committing keep the state well typed.
LEMMA ActiveType ==
    ASSUME TypeOK, NEW t \in Txns,
           \/ Begin(t) \/ Coarsen(t) \/ StartCommit(t) \/ Rollback(t)
           \/ \E x \in Items : Record(t, x)
           \/ \E S \in SUBSET Items : RollbackToSavepoint(t, S)
    PROVE  TypeOK'
<1>1. CASE Begin(t)
  BY <1>1, MarkType, SMT DEF TypeOK, Begin, marks
<1>2. CASE Coarsen(t)
  BY <1>2, MarkType, SMT DEF TypeOK, Coarsen, clock, marks
<1>3. CASE StartCommit(t)
  BY <1>3, SMT DEF TypeOK, StartCommit, Covered, clock, marks, epochs
<1>4. CASE Rollback(t)
  BY <1>4, MarkType, SMT DEF TypeOK, Rollback, Aborted, clock, marks
<1>5. CASE \E x \in Items : Record(t, x)
  BY <1>5, MarkType, SMT DEF TypeOK, Record, clock, marks
<1>6. CASE \E S \in SUBSET Items : RollbackToSavepoint(t, S)
  BY <1>6, MarkType, SMT DEF TypeOK, RollbackToSavepoint, clock, marks
<1> QED
  BY <1>1, <1>2, <1>3, <1>4, <1>5, <1>6

\* So do those of a validation.
LEMMA ValidateType ==
    ASSUME TypeOK, NEW t \in Txns,
           \/ CommittedWrites(t) \/ CommittedReads(t) \/ ActiveReaders(t)
           \/ ReadState(t) \/ LoadEpoch(t)
    PROVE  TypeOK'
<1> USE DEF clock, readSets
<1>1. CASE CommittedWrites(t)
  <2>1. moved' \subseteq Txns /\ bumped' \subseteq Txns
    BY <1>1, MarkType, SMT DEF CommittedWrites
  <2> QED
    BY <1>1, <2>1, SMT DEF TypeOK, CommittedWrites
<1>2. CASE CommittedReads(t)
  <2>1. moved' \subseteq Txns /\ bumped' \subseteq Txns
    BY <1>2, MarkType, SMT DEF CommittedReads
  <2> QED
    BY <1>2, <2>1, SMT DEF TypeOK, CommittedReads
<1>3. CASE ActiveReaders(t)
  <2> DEFINE R == {u \in indexed \ {t} : Covered(u) \cap Writes[t] # {}}
  <2>1. R \in SUBSET Txns
    BY SMT DEF TypeOK
  <2> HIDE DEF R
  <2>2. moved' \subseteq Txns /\ bumped' \subseteq Txns
    BY <1>3, <2>1, MarkType DEF ActiveReaders, R
  <2>3. rwOut' = rwOut \cup R /\ danger' = danger \cup (R \cap rwIn)
        /\ rwIn' = IF R # {} THEN rwIn \cup {t} ELSE rwIn
    BY <1>3 DEF ActiveReaders, R
  <2> QED
    BY <1>3, <2>1, <2>2, <2>3, SMT DEF TypeOK, ActiveReaders
<1>4. CASE ReadState(t)
  <2>1. moved' \subseteq Txns /\ bumped' \subseteq Txns
    BY <1>4, MarkType, SMT DEF ReadState
  <2> QED
    BY <1>4, <2>1, SMT DEF TypeOK, ReadState
<1>5. CASE LoadEpoch(t)
  <2>1. /\ phase' = [phase EXCEPT ![t] = "aborted"] \/ phase' = [phase EXCEPT ![t] = "queued"]
        /\ moved' \in {moved, moved \ {t}} /\ indexed' \in {indexed, indexed \ {t}}
    BY <1>5 DEF LoadEpoch, Aborted
  <2>2. bumped' \subseteq Txns
    BY <1>5, MarkType, SMT DEF TypeOK, LoadEpoch, Aborted
  <2>3. overtaken' \in [Txns -> SUBSET Txns]
    <3>1. \/ overtaken' = overtaken
          \/ overtaken' = [u \in Txns |-> IF u \in bumped THEN overtaken[u] \cup {t}
                                                          ELSE overtaken[u]]
      BY <1>5 DEF LoadEpoch
    <3>2. overtaken \in [Txns -> SUBSET Txns]
      BY DEF TypeOK
    <3> QED
      BY <3>1, <3>2, SMT
  <2> QED
    BY <1>5, <2>1, <2>2, <2>3, SMT DEF TypeOK, LoadEpoch, marks
<1> QED
  BY <1>1, <1>2, <1>3, <1>4, <1>5

\* And those of the sequencer and the finalize stage.
LEMMA CommitType ==
    ASSUME TypeOK,
           \/ Append
           \/ \E t \in Txns : Fence(t) \/ Summarize(t) \/ Release(t) \/ Publish(t)
    PROVE  TypeOK'
<1> USE DEF marks, epochs
<1>1. ASSUME NEW t \in Txns, Fence(t)
      PROVE  TypeOK'
  <2>1. nextTs + Cardinality(batch) \in Nat
    BY BatchFinite, SMT DEF TypeOK
  <2>2. /\ phase' = [phase EXCEPT ![t] = "aborted"] \/ phase' = [phase EXCEPT ![t] = "accepted"]
        /\ batch' \in {batch, batch \cup {t}} /\ indexed' \in {indexed, indexed \ {t}}
    BY <1>1 DEF Fence, Aborted
  <2>3. bumped' \subseteq Txns
    BY <1>1, MarkType, SMT DEF TypeOK, Fence, Aborted
  <2>4. commitTs' \in [Txns -> Nat]
    BY <1>1, <2>1, SMT DEF TypeOK, Fence
  <2> QED
    BY <1>1, <2>2, <2>3, <2>4, SMT DEF TypeOK, Fence
<1>2. ASSUME NEW t \in Txns, Summarize(t)
      PROVE  TypeOK'
  BY <1>2, SMT DEF TypeOK, Summarize, clock, readSets
<1>3. ASSUME NEW t \in Txns, Release(t)
      PROVE  TypeOK'
  <2>1. bumped' \subseteq Txns
    BY <1>3, MarkType DEF Release
  <2> QED
    BY <1>3, <2>1, SMT DEF TypeOK, Release, clock
<1>4. ASSUME NEW t \in Txns, Publish(t)
      PROVE  TypeOK'
  BY <1>4, SMT DEF TypeOK, Publish, readSets
<1>5. CASE Append
  BY <1>5, BatchFinite, SMT DEF TypeOK, Append, readSets
<1> QED
  BY <1>1, <1>2, <1>3, <1>4, <1>5

\* Every step keeps the state well typed.
LEMMA NextType ==
    ASSUME TypeOK, [Next]_vars
    PROVE  TypeOK'
<1>1. CASE UNCHANGED vars
  BY <1>1 DEF TypeOK, vars
<1> QED
  BY <1>1, ActiveType, ValidateType, CommitType DEF Next

\* The tables have an entry for every transaction.
LEMMA Tables ==
    ASSUME TypeOK
    PROVE  /\ DOMAIN phase = Txns /\ DOMAIN readTs = Txns /\ DOMAIN commitTs = Txns
           /\ DOMAIN seen = Txns /\ DOMAIN blind = Txns
  BY DEF TypeOK

-----------------------------------------------------------------------------
(* Where the reads are *)

\* A read set, widened or not, holds what was read.
LEMMA CoveredHolds ==
    ASSUME TypeOK, NEW t \in Txns
    PROVE  deps[t] \subseteq Covered(t)
  BY SMT DEF TypeOK, Covered

\* What ReadsInv says of a transaction survives a step that leaves its phase
\* and its read sets alone.
LEMMA ReadsSame ==
    ASSUME NEW u \in Txns, ReadsInv(u), phase'[u] = phase[u], deps'[u] = deps[u],
           frozen'[u] = frozen[u], u \in indexed' <=> u \in indexed,
           u \in summaries' <=> u \in summaries, u \in batch' => u \in batch
    PROVE  ReadsInv(u)'
  BY DEF ReadsInv

\* The reads of every transaction stay where the invariant says.
LEMMA NextReads ==
    ASSUME TypeOK, [Next]_vars, NEW u \in Txns, ReadsInv(u)
    PROVE  ReadsInv(u)'
<1> USE DEF Fenced, ReadersMarked, ReadsScanned, WritesScanned, Started, Summarized
<1>1. CASE UNCHANGED vars
  BY <1>1, ReadsSame DEF vars
<1>2. CASE Append
  BY <1>2, SMT DEF Append, ReadsInv, TypeOK, readSets
<1>3. ASSUME NEW t \in Txns, t # u,
             \/ Begin(t) \/ Coarsen(t) \/ StartCommit(t) \/ Rollback(t)
             \/ \E x \in Items : Record(t, x)
             \/ \E S \in SUBSET Items : RollbackToSavepoint(t, S)
      PROVE  ReadsInv(u)'
  <2>1. /\ phase'[u] = phase[u] /\ deps'[u] = deps[u] /\ frozen'[u] = frozen[u]
        /\ u \in indexed' <=> u \in indexed
    BY <1>3, SMT DEF TypeOK, Begin, Coarsen, StartCommit, Rollback, Record,
         RollbackToSavepoint, Aborted
  <2>2. UNCHANGED <<summaries, batch>>
    BY <1>3 DEF Begin, Coarsen, StartCommit, Rollback, Record, RollbackToSavepoint
  <2> QED
    BY <2>1, <2>2, ReadsSame
<1>4. ASSUME NEW t \in Txns, t # u,
             \/ CommittedWrites(t) \/ CommittedReads(t) \/ ActiveReaders(t)
             \/ ReadState(t) \/ LoadEpoch(t)
      PROVE  ReadsInv(u)'
  <2>1. /\ phase'[u] = phase[u]
        /\ u \in indexed' <=> u \in indexed
    <3>1. \E p : phase' = [phase EXCEPT ![t] = p]
      BY <1>4 DEF CommittedWrites, CommittedReads, ActiveReaders, ReadState, LoadEpoch,
           Aborted
    <3>2. UNCHANGED indexed \/ indexed' = indexed \ {t}
      BY <1>4 DEF CommittedWrites, CommittedReads, ActiveReaders, ReadState, LoadEpoch,
           Aborted, readSets
    <3> QED
      BY <1>4, <3>1, <3>2, Tables
  <2>2. UNCHANGED <<deps, frozen, summaries, batch>>
    BY <1>4 DEF CommittedWrites, CommittedReads, ActiveReaders, ReadState, LoadEpoch,
         readSets
  <2> QED
    BY <2>1, <2>2, ReadsSame
<1>5. ASSUME NEW t \in Txns, t # u, Fence(t) \/ Summarize(t) \/ Release(t) \/ Publish(t)
      PROVE  ReadsInv(u)'
  <2>1. /\ phase'[u] = phase[u]
        /\ u \in indexed' <=> u \in indexed
        /\ u \in summaries' <=> u \in summaries
        /\ u \in batch' => u \in batch
    BY <1>5, SMT DEF TypeOK, Fence, Summarize, Release, Publish, Aborted, readSets
  <2>2. UNCHANGED <<deps, frozen>>
    BY <1>5 DEF Fence, Summarize, Release, Publish, readSets
  <2> QED
    BY <2>1, <2>2, ReadsSame
<1>6. CASE Begin(u) \/ Coarsen(u) \/ Rollback(u)
  BY <1>6, SMT DEF TypeOK, ReadsInv, Begin, Coarsen, Rollback, Aborted
<1>7. CASE StartCommit(u)
  BY <1>7, CoveredHolds, SMT DEF TypeOK, ReadsInv, StartCommit
<1>8. CASE \/ \E x \in Items : Record(u, x)
           \/ \E S \in SUBSET Items : RollbackToSavepoint(u, S)
  BY <1>8, SMT DEF TypeOK, ReadsInv, Record, RollbackToSavepoint
<1>9. CASE CommittedWrites(u) \/ CommittedReads(u)
  BY <1>9, SMT DEF TypeOK, ReadsInv, CommittedWrites, CommittedReads, readSets
<1>10. CASE ActiveReaders(u) \/ ReadState(u)
  BY <1>10, SMT DEF TypeOK, ReadsInv, ActiveReaders, ReadState, readSets
<1>11. CASE LoadEpoch(u)
  BY <1>11, SMT DEF TypeOK, ReadsInv, LoadEpoch, Aborted
<1>12. CASE Fence(u)
  BY <1>12, SMT DEF TypeOK, ReadsInv, Fence, Aborted
<1>13. CASE Summarize(u) \/ Release(u) \/ Publish(u)
  BY <1>13, SMT DEF TypeOK, ReadsInv, Summarize, Release, Publish, readSets
<1> QED
  BY <1>1, <1>2, <1>3, <1>4, <1>5, <1>6, <1>7, <1>8, <1>9, <1>10, <1>11, <1>12, <1>13 DEF Next

-----------------------------------------------------------------------------
(* Write skew *)

\* A step that moves w past none of its scans, gives it no summary, and takes
\* no mark from it.
Steady(w) ==
    /\ phase'[w] \in WritesScanned =>
          /\ phase[w] \in WritesScanned
          /\ phase'[w] \in ReadsScanned <=> phase[w] \in ReadsScanned
          /\ phase'[w] \in ReadersMarked <=> phase[w] \in ReadersMarked
          /\ Doomed(w) => Doomed(w)'
          /\ readTs'[w] = readTs[w]
    /\ w \in summaries' <=> w \in summaries
    /\ w \in summaries => commitTs'[w] = commitTs[w]
    /\ w \in rwIn => w \in rwIn'
    /\ w \in rwOut => w \in rwOut'
    /\ blind[w] \subseteq blind'[w]

\* A step that leaves w alone is steady for it.
LEMMA SteadySame ==
    ASSUME NEW w \in Txns, phase'[w] = phase[w], readTs'[w] = readTs[w],
           commitTs'[w] = commitTs[w], seen'[w] = seen[w],
           w \in summaries' <=> w \in summaries,
           rwIn \subseteq rwIn', rwOut \subseteq rwOut', blind[w] \subseteq blind'[w]
    PROVE  Steady(w)
  BY DEF Steady, Doomed

\* A step of another transaction is steady for w.
LEMMA SteadyOther ==
    ASSUME TypeOK, NEW w \in Txns, NEW v \in Txns, v # w,
           \/ Begin(v) \/ Coarsen(v) \/ StartCommit(v) \/ Rollback(v)
           \/ \E x \in Items : Record(v, x)
           \/ \E S \in SUBSET Items : RollbackToSavepoint(v, S)
           \/ CommittedWrites(v) \/ CommittedReads(v) \/ ActiveReaders(v)
           \/ ReadState(v) \/ LoadEpoch(v) \/ Fence(v)
           \/ Summarize(v) \/ Release(v) \/ Publish(v)
    PROVE  Steady(w)
<1>1. CASE \/ Begin(v) \/ Coarsen(v) \/ StartCommit(v) \/ Rollback(v)
           \/ \E x \in Items : Record(v, x)
           \/ \E S \in SUBSET Items : RollbackToSavepoint(v, S)
  <2>1. phase'[w] = phase[w] /\ readTs'[w] = readTs[w]
    <3>1. \/ UNCHANGED phase
          \/ \E p : phase' = [phase EXCEPT ![v] = p]
      BY <1>1 DEF Begin, Coarsen, StartCommit, Rollback, Record, RollbackToSavepoint, Aborted
    <3>2. UNCHANGED readTs \/ readTs' = [readTs EXCEPT ![v] = published]
      BY <1>1 DEF Begin, Coarsen, StartCommit, Rollback, Record, RollbackToSavepoint, clock
    <3> QED
      BY <3>1, <3>2, Tables
  <2>2. UNCHANGED <<commitTs, summaries, rwIn, rwOut, seen, blind>>
    BY <1>1 DEF Begin, Coarsen, StartCommit, Rollback, Record, RollbackToSavepoint, clock,
         marks
  <2> QED
    BY <2>1, <2>2, SteadySame
<1>2. CASE CommittedWrites(v) \/ CommittedReads(v) \/ ActiveReaders(v)
  <2>1. phase'[w] = phase[w] /\ blind'[w] = blind[w]
    BY <1>2, Tables DEF CommittedWrites, CommittedReads, ActiveReaders
  <2>2. rwIn \subseteq rwIn' /\ rwOut \subseteq rwOut'
    BY <1>2 DEF CommittedWrites, CommittedReads, ActiveReaders
  <2>3. UNCHANGED <<readTs, commitTs, summaries, seen>>
    BY <1>2 DEF CommittedWrites, CommittedReads, ActiveReaders, clock
  <2> QED
    BY <2>1, <2>2, <2>3, SteadySame
<1>3. CASE ReadState(v) \/ LoadEpoch(v) \/ Fence(v)
  <2>1. phase'[w] = phase[w] /\ seen'[w] = seen[w] /\ commitTs'[w] = commitTs[w]
    <3>1. \E p : phase' = [phase EXCEPT ![v] = p]
      BY <1>3 DEF ReadState, LoadEpoch, Fence, Aborted
    <3>2. \/ UNCHANGED seen
          \/ seen' = [seen EXCEPT ![v] = [in |-> v \in rwIn, out |-> v \in rwOut]]
      BY <1>3 DEF ReadState, LoadEpoch, Fence
    <3>3. \/ UNCHANGED commitTs
          \/ commitTs' = [commitTs EXCEPT ![v] = nextTs + Cardinality(batch)]
      BY <1>3 DEF ReadState, LoadEpoch, Fence, clock
    <3> QED
      BY <3>1, <3>2, <3>3, Tables
  <2>2. UNCHANGED <<readTs, summaries, rwIn, rwOut, blind>>
    BY <1>3 DEF ReadState, LoadEpoch, Fence, clock, marks
  <2> QED
    BY <2>1, <2>2, SteadySame
<1>4. CASE Summarize(v) \/ Release(v) \/ Publish(v)
  <2>1. /\ phase'[w] = phase[w]
        /\ w \in summaries' <=> w \in summaries
        /\ blind[w] \subseteq blind'[w]
    <3>1. CASE Summarize(v)
      BY <3>1, Tables DEF Summarize
    <3>2. CASE Release(v) \/ Publish(v)
      <4>1. UNCHANGED <<summaries, blind>>
        BY <3>2 DEF Release, Publish
      <4>2. phase'[w] = phase[w]
        BY <3>2, Tables DEF Release, Publish
      <4> QED
        BY <4>1, <4>2
    <3> QED
      BY <1>4, <3>1, <3>2
  <2>2. UNCHANGED <<readTs, commitTs, rwIn, rwOut, seen>>
    BY <1>4 DEF Summarize, Release, Publish, clock, marks
  <2> QED
    BY <2>1, <2>2, SteadySame
<1> QED
  BY <1>1, <1>2, <1>3, <1>4

\* Of its own steps only the three scans and the summary are not steady.
LEMMA SteadySelf ==
    ASSUME TypeOK, NEW w \in Txns, ReadsInv(w),
           \/ Begin(w) \/ Coarsen(w) \/ StartCommit(w) \/ Rollback(w)
           \/ \E x \in Items : Record(w, x)
           \/ \E S \in SUBSET Items : RollbackToSavepoint(w, S)
           \/ ReadState(w) \/ LoadEpoch(w) \/ Fence(w) \/ Release(w) \/ Publish(w)
           \/ Append \/ UNCHANGED vars
    PROVE  Steady(w)
<1> USE DEF Fenced, ReadersMarked, ReadsScanned, WritesScanned, Started, Summarized
<1>1. CASE Begin(w) \/ StartCommit(w) \/ Rollback(w)
  <2>1. phase'[w] \in {"active", "committedWrites", "aborted"}
    BY <1>1, Tables DEF Begin, StartCommit, Rollback, Aborted
  <2>2. phase'[w] \notin WritesScanned
    BY <2>1, SMT
  <2>3. UNCHANGED <<commitTs, summaries, rwIn, rwOut, blind>>
    BY <1>1 DEF Begin, StartCommit, Rollback, clock, marks
  <2> QED
    BY <2>2, <2>3 DEF Steady
<1>2. CASE \/ Coarsen(w)
           \/ \E x \in Items : Record(w, x)
           \/ \E S \in SUBSET Items : RollbackToSavepoint(w, S)
           \/ UNCHANGED vars
  <2>1. UNCHANGED <<phase, readTs, commitTs, summaries, rwIn, rwOut, seen, blind>>
    BY <1>2 DEF Coarsen, Record, RollbackToSavepoint, vars, clock, marks
  <2> QED
    BY <2>1, SteadySame
<1>3. CASE ReadState(w)
  <2>1. phase[w] = "state" /\ phase'[w] = "epoch"
    BY <1>3, Tables DEF ReadState
  <2>2. seen'[w] = [in |-> w \in rwIn, out |-> w \in rwOut]
    BY <1>3, Tables DEF ReadState
  <2>3. w \in rwIn /\ w \in rwOut => seen'[w].in /\ seen'[w].out
    <3>1. ASSUME w \in rwIn, w \in rwOut
          PROVE  seen'[w] = [in |-> TRUE, out |-> TRUE]
      BY <2>2, <3>1, Zenon
    <3>2. [in |-> TRUE, out |-> TRUE].in /\ [in |-> TRUE, out |-> TRUE].out
      BY SMT
    <3> QED
      BY <3>1, <3>2
  <2>4. UNCHANGED <<readTs, commitTs, summaries, rwIn, rwOut, blind>>
    BY <1>3 DEF ReadState, clock
  <2>5. Doomed(w) => Doomed(w)'
    BY <2>1, <2>3, SMT DEF Doomed
  <2> QED
    BY <2>1, <2>4, <2>5 DEF Steady
<1>4. CASE LoadEpoch(w)
  <2>1. /\ phase[w] = "epoch"
        /\ \/ phase'[w] = "aborted"
           \/ phase'[w] = "queued" /\ ~ (seen[w].in /\ seen[w].out)
    BY <1>4, Tables DEF LoadEpoch, Aborted
  <2>2. UNCHANGED <<readTs, commitTs, summaries, rwIn, rwOut, blind>>
    BY <1>4 DEF LoadEpoch, clock, marks
  <2>3. /\ phase[w] \in ReadersMarked
        /\ phase'[w] \in WritesScanned => phase'[w] \in ReadersMarked /\ ~ Doomed(w)
    BY <2>1, SMT DEF Doomed
  <2> QED
    BY <2>2, <2>3 DEF Steady
<1>5. CASE Fence(w)
  <2>1. phase[w] = "queued" /\ phase'[w] \in {"aborted", "accepted"}
    BY <1>5, Tables DEF Fence, Aborted
  <2>2. UNCHANGED <<readTs, summaries, rwIn, rwOut, blind>>
    BY <1>5 DEF Fence, marks
  <2>3. /\ phase[w] \in ReadersMarked /\ ~ Doomed(w)
        /\ phase'[w] \in WritesScanned => phase'[w] \in ReadersMarked
    BY <2>1, SMT DEF Doomed
  <2>4. w \notin summaries
    BY <2>1, SMT DEF ReadsInv
  <2> QED
    BY <2>2, <2>3, <2>4 DEF Steady
<1>6. CASE Release(w) \/ Publish(w)
  <2>1. \/ phase[w] = "summarized" /\ phase'[w] = "registered"
        \/ phase[w] = "registered" /\ phase'[w] = "published"
    BY <1>6, Tables DEF Release, Publish
  <2>2. UNCHANGED <<readTs, commitTs, summaries, rwIn, rwOut, blind>>
    BY <1>6 DEF Release, Publish, clock, marks
  <2>3. phase[w] \in ReadersMarked /\ phase'[w] \in ReadersMarked /\ ~ Doomed(w)
    BY <2>1, SMT DEF Doomed
  <2> QED
    BY <2>2, <2>3 DEF Steady
<1>7. CASE Append
  <2>1. UNCHANGED <<readTs, commitTs, summaries, rwIn, rwOut, seen, blind>>
    BY <1>7 DEF Append, marks
  <2>2. CASE w \in batch
    <3>1. phase[w] = "accepted" /\ phase'[w] = "durable"
      BY <1>7, <2>2 DEF Append, ReadsInv
    <3>2. phase[w] \in ReadersMarked /\ phase'[w] \in ReadersMarked /\ ~ Doomed(w)
      BY <3>1, SMT DEF Doomed
    <3> QED
      BY <2>1, <3>2 DEF Steady
  <2>3. CASE w \notin batch
    <3>1. phase'[w] = phase[w]
      BY <1>7, <2>3 DEF Append
    <3> QED
      BY <2>1, <3>1, SteadySame
  <2> QED
    BY <2>2, <2>3
<1> QED
  BY <1>1, <1>2, <1>3, <1>4, <1>5, <1>6, <1>7

\* The invariant of a pair survives a step that is steady for both.
LEMMA Carry ==
    ASSUME NEW t \in Txns, NEW u \in Txns, Steady(t), Steady(u), SkewInv(t, u)
    PROVE  SkewInv(t, u)'
<1> SUFFICES ASSUME Skewed(t, u)'
             PROVE  (After(t, u) \/ After(u, t) \/ Abreast(t, u))'
  BY DEF SkewInv
<1>1. After(t, u) \/ After(u, t) \/ Abreast(t, u)
  BY DEF SkewInv, Skewed, Steady
<1>2. CASE After(t, u)
  BY <1>2 DEF Skewed, Steady, After
<1>3. CASE After(u, t)
  BY <1>3 DEF Skewed, Steady, After
<1>4. CASE Abreast(t, u)
  BY <1>4 DEF Skewed, Steady, Abreast
<1> QED
  BY <1>1, <1>2, <1>3, <1>4

\* The order of the pair does not matter.
LEMMA Swap ==
    ASSUME NEW t \in Txns, NEW u \in Txns, SkewInv(t, u)'
    PROVE  SkewInv(u, t)'
  BY DEF SkewInv, Skewed, Abreast

\* A validation that begins finds u in the summaries, or u has yet to look at
\* the active read sets.
LEMMA SkewCommittedWrites ==
    ASSUME TypeOK, NEW v \in Txns, NEW u \in Txns, u # v, ReadsInv(v), ReadsInv(u),
           CommittedWrites(v)
    PROVE  SkewInv(v, u)'
<1> USE DEF Fenced, ReadersMarked, ReadsScanned, WritesScanned, Started, Summarized
<1> SUFFICES ASSUME Skewed(v, u)'
             PROVE  (After(v, u) \/ Abreast(v, u))'
  BY DEF SkewInv
<1>1. /\ phase[v] = "committedWrites" /\ phase'[v] = "committedReads"
      /\ phase'[u] = phase[u]
      /\ ~ InWindow(u)
      /\ UNCHANGED <<summaries, commitTs, readTs>>
  BY SMT DEF TypeOK, CommittedWrites, clock, Skewed
<1>2. CASE phase[u] \in Summarized
  <2>1. u \in summaries
    BY <1>2 DEF ReadsInv
  <2>2. frozen[v] \cap Writes[u] # {}
    BY <1>1 DEF ReadsInv, Skewed
  <2>3. commitTs[u] > readTs[v] => v \in rwOut'
    BY <2>1, <2>2 DEF CommittedWrites
  <2> QED
    BY <1>1, <2>1, <2>3, SMT DEF After
<1>3. CASE phase[u] \notin Summarized
  <2>1. phase[u] \in {"committedReads", "activeReaders"}
    BY <1>1, <1>3, SMT DEF Skewed, InWindow
  <2>2. u \notin summaries /\ v \notin summaries
    BY <1>1, <1>3, SMT DEF ReadsInv
  <2> QED
    BY <1>1, <2>1, <2>2, SMT DEF Abreast
<1> QED
  BY <1>2, <1>3

\* A later commit that overwrote what v read has read what v overwrites.
LEMMA SkewCommittedReads ==
    ASSUME TypeOK, NEW v \in Txns, NEW u \in Txns, u # v, ReadsInv(v), ReadsInv(u),
           CommittedReads(v), SkewInv(v, u)
    PROVE  SkewInv(v, u)'
<1> USE DEF Fenced, ReadersMarked, ReadsScanned, WritesScanned, Started, Summarized
<1> SUFFICES ASSUME Skewed(v, u)'
             PROVE  (After(v, u) \/ Abreast(v, u))'
  BY DEF SkewInv
<1>1. /\ phase[v] = "committedReads" /\ phase'[v] = "activeReaders"
      /\ phase'[u] = phase[u]
  BY SMT DEF TypeOK, CommittedReads
<1>2. /\ rwIn \subseteq rwIn'
      /\ UNCHANGED <<summaries, commitTs, readTs, rwOut, seen, blind>>
  BY DEF CommittedReads, clock
<1>3. Skewed(v, u)
  BY <1>1, <1>2, SMT DEF Skewed
<1>4. v \notin summaries
  BY <1>1, SMT DEF ReadsInv
<1>5. After(v, u) \/ Abreast(v, u)
  BY <1>3, <1>4 DEF SkewInv, After
<1>6. CASE After(v, u)
  <2>1. u \in summaries
    BY <1>6 DEF After
  <2>2. frozen[u] \cap Writes[v] # {}
    BY <2>1 DEF ReadsInv, Skewed
  <2>3. commitTs[u] > readTs[v] => v \in rwIn'
    BY <2>1, <2>2 DEF CommittedReads
  <2> QED
    BY <1>1, <1>2, <1>6, <2>3, SMT DEF After
<1>7. CASE Abreast(v, u)
  BY <1>1, <1>2, <1>7, SMT DEF Abreast
<1> QED
  BY <1>5, <1>6, <1>7

\* The second of two to look at the active read sets ends with both marks.
LEMMA SkewActiveReaders ==
    ASSUME TypeOK, NEW v \in Txns, NEW u \in Txns, u # v, ReadsInv(v), ReadsInv(u),
           ActiveReaders(v), SkewInv(v, u)
    PROVE  SkewInv(v, u)'
<1> USE DEF Fenced, ReadersMarked, ReadsScanned, WritesScanned, Started, Summarized
<1> SUFFICES ASSUME Skewed(v, u)'
             PROVE  (After(v, u) \/ Abreast(v, u))'
  BY DEF SkewInv
<1>1. /\ phase[v] = "activeReaders" /\ phase'[v] = "state"
      /\ phase'[u] = phase[u]
  BY SMT DEF TypeOK, ActiveReaders
<1>2. /\ rwIn \subseteq rwIn' /\ rwOut \subseteq rwOut'
      /\ UNCHANGED <<summaries, commitTs, readTs, seen, blind>>
  BY DEF ActiveReaders, clock
<1>3. Skewed(v, u)
  BY <1>1, <1>2, SMT DEF Skewed
<1>4. v \notin summaries
  BY <1>1, SMT DEF ReadsInv
<1>5. After(v, u) \/ Abreast(v, u)
  BY <1>3, <1>4 DEF SkewInv, After
<1>6. CASE After(v, u)
  BY <1>1, <1>2, <1>6, SMT DEF After, Doomed
<1>7. CASE Abreast(v, u)
  <2>1. u \notin summaries
    BY <1>1, <1>7, SMT DEF Abreast
  <2>2. u \in indexed /\ deps[u] = Reads[u]
    BY <1>3, <2>1, SMT DEF ReadsInv, Skewed
  <2>3. Covered(u) \cap Writes[v] # {}
    BY <1>3, <2>2, CoveredHolds DEF Skewed
  <2>4. u \in rwOut' /\ v \in rwIn'
    BY <2>2, <2>3 DEF ActiveReaders
  <2> QED
    BY <1>1, <1>2, <1>4, <1>7, <2>4, SMT DEF Abreast, Doomed
<1> QED
  BY <1>5, <1>6, <1>7

\* Whoever began its validation, and is not marked blind by this summary, has
\* looked at the active read sets while v was in them.
LEMMA SkewSummarize ==
    ASSUME TypeOK, NEW v \in Txns, NEW u \in Txns, u # v, ReadsInv(v), ReadsInv(u),
           Summarize(v), SkewInv(v, u)
    PROVE  SkewInv(v, u)'
<1> USE DEF Fenced, ReadersMarked, ReadsScanned, WritesScanned, Started, Summarized
<1> SUFFICES ASSUME Skewed(v, u)'
             PROVE  (After(v, u) \/ Abreast(v, u))'
  BY DEF SkewInv
<1>1. /\ phase[v] = "durable" /\ phase'[v] = "summarized"
      /\ phase'[u] = phase[u]
      /\ summaries \subseteq summaries' /\ (u \in summaries' => u \in summaries)
  BY SMT DEF TypeOK, Summarize
<1>2. UNCHANGED <<commitTs, readTs, rwIn, rwOut, seen>>
  BY DEF Summarize, clock, marks
<1>3. /\ blind[v] \subseteq blind'[v] /\ blind[u] \subseteq blind'[u]
      /\ ~ BetweenScans(u)
  BY SMT DEF Summarize, Skewed
<1>4. Skewed(v, u) /\ phase[u] \in ReadersMarked
  BY <1>1, <1>3, SMT DEF Skewed, BetweenScans
<1>5. v \notin summaries
  BY <1>1, SMT DEF ReadsInv
<1>6. After(v, u) \/ Abreast(v, u)
  BY <1>4, <1>5 DEF SkewInv, After
<1>7. CASE After(v, u)
  BY <1>1, <1>2, <1>7, SMT DEF After, Doomed
<1>8. CASE Abreast(v, u)
  <2>1. phase[v] \in ReadersMarked /\ phase'[v] \in ReadersMarked /\ ~ Doomed(v)
    BY <1>1, SMT DEF Doomed
  <2>2. phase'[u] \in ReadersMarked /\ (Doomed(u) => Doomed(u)')
    BY <1>1, <1>2, <1>4 DEF Doomed
  <2> QED
    BY <1>2, <1>4, <1>8, <2>1, <2>2 DEF Abreast
<1> QED
  BY <1>6, <1>7, <1>8

\* Every step keeps the invariant of every pair.
LEMMA NextSkew ==
    ASSUME IInv, [Next]_vars
    PROVE  \A t, u \in Txns : t # u => SkewInv(t, u)'
<1> USE DEF IInv
<1>1. CASE Append \/ UNCHANGED vars
  BY <1>1, SteadySelf, Carry
<1>2. ASSUME NEW v \in Txns,
             \/ Begin(v) \/ Coarsen(v) \/ StartCommit(v) \/ Rollback(v)
             \/ \E x \in Items : Record(v, x)
             \/ \E S \in SUBSET Items : RollbackToSavepoint(v, S)
             \/ ReadState(v) \/ LoadEpoch(v) \/ Fence(v) \/ Release(v) \/ Publish(v)
      PROVE  \A t, u \in Txns : t # u => SkewInv(t, u)'
  <2>1. Steady(v)
    BY <1>2, SteadySelf
  <2>2. \A w \in Txns : w # v => Steady(w)
    BY <1>2, SteadyOther
  <2> QED
    BY <2>1, <2>2, Carry
<1>3. ASSUME NEW v \in Txns,
             CommittedWrites(v) \/ CommittedReads(v) \/ ActiveReaders(v) \/ Summarize(v)
      PROVE  \A t, u \in Txns : t # u => SkewInv(t, u)'
  <2>1. \A w \in Txns : w # v => Steady(w)
    BY <1>3, SteadyOther
  <2>2. \A u \in Txns : u # v => SkewInv(v, u)'
    BY <1>3, SkewCommittedWrites, SkewCommittedReads, SkewActiveReaders, SkewSummarize
  <2>3. \A u \in Txns : u # v => SkewInv(u, v)'
    BY <2>2, Swap
  <2> QED
    BY <2>1, <2>2, <2>3, Carry
<1> QED
  BY <1>1, <1>2, <1>3 DEF Next

-----------------------------------------------------------------------------
(* The theorems *)

LEMMA InitInvariant == Init => IInv
<1> SUFFICES ASSUME Init PROVE IInv
  OBVIOUS
<1>1. \A t \in Txns : phase[t] = "idle" /\ deps[t] = {}
  BY DEF Init
<1>2. summaries = {} /\ batch = {}
  BY DEF Init
<1>3. \A t \in Txns : ReadsInv(t)
  BY <1>1, <1>2, SMT DEF ReadsInv, Started, WritesScanned, ReadsScanned, ReadersMarked,
     Fenced, Summarized
<1>4. \A t, u \in Txns : t # u => SkewInv(t, u)
  BY <1>1, SMT DEF SkewInv, Skewed, WritesScanned, ReadsScanned, ReadersMarked, Fenced
<1> QED
  BY <1>3, <1>4, InitType DEF IInv

LEMMA NextInvariant == IInv /\ [Next]_vars => IInv'
<1> SUFFICES ASSUME IInv, [Next]_vars PROVE IInv'
  OBVIOUS
<1>1. TypeOK'
  BY NextType DEF IInv
<1>2. \A t \in Txns : ReadsInv(t)'
  BY NextReads DEF IInv
<1> QED
  BY <1>1, <1>2, NextSkew DEF IInv

\* The invariant IInv holds in every reachable state of the validator and the
\* commit path (validate_commit, process_finalize_batch).
LEMMA Invariance == Spec => []IInv
  BY InitInvariant, NextInvariant, PTL DEF Spec

\* Whatever a transaction has read, a writer that validates later finds it in
\* the index of active read sets or in the summaries: process_finalize_batch
\* registers the summary before the active read set goes, and
\* coarsen_to_table_level only widens.
THEOREM SsiReadsFindable == Spec => []ReadsFindable
<1>1. IInv => ReadsFindable
  <2> SUFFICES ASSUME IInv, NEW t \in Txns, phase[t] # "aborted"
               PROVE  \/ t \in indexed /\ deps[t] \subseteq Covered(t)
                      \/ t \in summaries /\ deps[t] \subseteq frozen[t]
                      \/ deps[t] = {}
    BY DEF ReadsFindable
  <2>1. TypeOK /\ ReadsInv(t)
    BY DEF IInv
  <2>2. deps[t] \subseteq Covered(t)
    BY <2>1, CoveredHolds
  <2>3. phase[t] \in {"idle", "active"} \cup Started
    BY <2>1, SMT DEF TypeOK, Started, WritesScanned, ReadsScanned, ReadersMarked, Fenced
  <2> QED
    BY <2>1, <2>2, <2>3, SMT DEF ReadsInv, Started, WritesScanned, ReadsScanned,
       ReadersMarked, Fenced, Summarized
<1> QED
  BY <1>1, Invariance, PTL

\* Two transactions that each read what the other overwrote are both committed
\* only if the validation of one overlapped the commit of the other unseen: in
\* every other order the marks of validate_commit and mark_write_conflicts give
\* one of them both, and its plan fails.
THEOREM SsiSkewNeedsOverlap == Spec => []WriteSkewNeedsOverlap
<1>1. IInv => WriteSkewNeedsOverlap
  <2> SUFFICES ASSUME IInv, NEW t \in Committed, NEW u \in Committed, t # u,
                      AntiDepends(t, u), AntiDepends(u, t),
                      u \notin blind[t], t \notin blind[u]
               PROVE  FALSE
    BY DEF WriteSkewNeedsOverlap
  <2>1. t \in Txns /\ u \in Txns /\ phase[t] \in Fenced /\ phase[u] \in Fenced
    BY DEF Committed, Fenced
  <2>2. ~ Doomed(t) /\ ~ Doomed(u)
    <3>1. "state" \notin Fenced /\ "epoch" \notin Fenced
      BY SMT DEF Fenced
    <3> QED
      BY <2>1, <3>1 DEF Doomed
  <2>3. Skewed(t, u)
    BY <2>1 DEF Skewed, AntiDepends, WritesScanned, ReadsScanned, ReadersMarked
  <2>4. After(t, u) \/ After(u, t) \/ Abreast(t, u)
    BY <2>1, <2>3 DEF IInv, SkewInv
  <2> QED
    BY <2>1, <2>2, <2>4 DEF After, Abreast, AntiDepends, ReadersMarked
<1> QED
  BY <1>1, Invariance, PTL
==============================================================================

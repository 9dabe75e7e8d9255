----------------------------- MODULE SsiCommit -----------------------------
(* Serializable validation: the index of active read sets                   *)
(* (transaction/src/read_dependency_index.rs), the summaries of committed   *)
(* transactions (committed_txn_summary.rs), the validator that marks        *)
(* read-write conflicts in both (ssi_validator.rs), and the fence of the    *)
(* sequencer that drops a plan whose marks changed after its validation     *)
(* (commit/sequencer/mod.rs, storage/src/transaction/manager.rs).  The      *)
(* group commit itself is CommitRuntime; here a batch is fenced one plan at *)
(* a time, becomes durable, and is registered and published in order.       *)
(*                                                                          *)
(* validate_commit takes the locks of the indexes one after the other, so   *)
(* each of its parts is a step.  state_epoch is a counter that is only      *)
(* compared: moved, bumped and overtaken hold the outcomes of the           *)
(* comparisons that are made.                                               *)
EXTENDS Integers, FiniteSets

CONSTANTS
    Txns,       \* serializable transactions that write
    Items,
    Reads,      \* what each one reads
    Writes,     \* what each one writes
    MayCoarsen  \* transactions whose read set may exceed the memory budget

ASSUME SsiAssumption ==
    /\ IsFiniteSet(Txns)
    /\ Reads \in [Txns -> SUBSET Items]
    /\ Writes \in [Txns -> SUBSET Items]
    /\ \A t, u \in Txns : t # u => Writes[t] \cap Writes[u] = {}
    /\ MayCoarsen \subseteq Txns

VARIABLES
    phase,      \* how far each transaction is
    readTs,     \* its snapshot
    commitTs,
    published,  \* published commit timestamp
    nextTs,     \* next_commit_ts of the sequencer
    deps,       \* what it has read so far and not rolled back
    coarse,     \* transactions whose read set was widened to the table
    indexed,    \* transactions with an entry in the ReadDependencyIndex
    frozen,     \* FrozenReadSet of the commit plan
    summaries,  \* transactions in the CommittedTxnSummaryIndex
    rwIn,       \* marked rw_conflict_in
    rwOut,      \* marked rw_conflict_out
    danger,     \* marked dangerous_structure
    moved,      \* ssi_state_epoch is past validation_epoch
    bumped,     \* state_epoch is past validation_epoch
    overtaken,  \* for each one, those whose validation_epoch is past its own
    seen,       \* the marks its validation read
    batch,      \* InFlightCommitBatch.accepted
    blind       \* those whose commit its validation overlapped unseen

vars == <<phase, readTs, commitTs, published, nextTs, deps, coarse, indexed, frozen,
          summaries, rwIn, rwOut, danger, moved, bumped, overtaken, seen, batch, blind>>

clock == <<readTs, commitTs, published, nextTs>>
readSets == <<deps, coarse, indexed, frozen>>
marks == <<rwIn, rwOut, danger>>
epochs == <<moved, bumped, overtaken>>

TypeOK ==
    /\ phase \in [Txns -> {"idle", "active", "committedWrites", "committedReads",
                           "activeReaders", "state", "epoch", "queued", "accepted",
                           "durable", "summarized", "registered", "published", "aborted"}]
    /\ readTs \in [Txns -> Nat] /\ commitTs \in [Txns -> Nat]
    /\ published \in Nat /\ nextTs \in Nat
    /\ deps \in [Txns -> SUBSET Items] /\ frozen \in [Txns -> SUBSET Items]
    /\ \A S \in {coarse, indexed, summaries, rwIn, rwOut, danger, moved, bumped, batch} :
          S \subseteq Txns
    /\ overtaken \in [Txns -> SUBSET Txns] /\ blind \in [Txns -> SUBSET Txns]
    /\ seen \in [Txns -> [in : BOOLEAN, out : BOOLEAN]]

Init ==
    /\ phase = [t \in Txns |-> "idle"]
    /\ readTs = [t \in Txns |-> 0] /\ commitTs = [t \in Txns |-> 0]
    /\ published = 0 /\ nextTs = 1
    /\ deps = [t \in Txns |-> {}] /\ frozen = [t \in Txns |-> {}]
    /\ coarse = {} /\ indexed = {} /\ summaries = {}
    /\ rwIn = {} /\ rwOut = {} /\ danger = {}
    /\ moved = {} /\ bumped = {} /\ overtaken = [t \in Txns |-> {}]
    /\ seen = [t \in Txns |-> [in |-> FALSE, out |-> FALSE]]
    /\ batch = {} /\ blind = [t \in Txns |-> {}]

-----------------------------------------------------------------------------
(* ReadDependencyIndex *)

\* Dependencies of the active read set: a widened one holds the table.
Covered(t) == IF t \in coarse /\ deps[t] # {} THEN Items ELSE deps[t]

Validated == {t \in Txns : phase[t] = "queued"}

\* bump_epoch
Bump == bumped' = bumped \cup Validated

\* The transactions S get a mark: their ssi_state_epoch is the newest epoch.
Mark(S) ==
    /\ moved' = moved \cup (S \cap Validated)
    /\ IF S = {} THEN UNCHANGED bumped ELSE Bump

\* register_transaction, with the snapshot of the published frontier.
Begin(t) ==
    /\ phase[t] = "idle"
    /\ phase' = [phase EXCEPT ![t] = "active"]
    /\ readTs' = [readTs EXCEPT ![t] = published]
    /\ indexed' = indexed \cup {t}
    /\ Bump
    /\ UNCHANGED <<commitTs, published, nextTs, deps, coarse, frozen, summaries, marks,
                   moved, overtaken, seen, batch, blind>>

\* record_batch
Record(t, x) ==
    /\ phase[t] = "active" /\ x \in Reads[t] \ deps[t]
    /\ deps' = [deps EXCEPT ![t] = @ \cup {x}]
    /\ IF x \in Covered(t) THEN UNCHANGED bumped ELSE Bump
    /\ UNCHANGED <<phase, clock, coarse, indexed, frozen, summaries, marks, moved,
                   overtaken, seen, batch, blind>>

\* coarsen_to_table_level, by the owner or by another transaction's
\* enforce_global_budget.
Coarsen(t) ==
    /\ t \in MayCoarsen /\ t \in indexed \ coarse
    /\ coarse' = coarse \cup {t}
    /\ Bump
    /\ UNCHANGED <<phase, clock, deps, indexed, frozen, summaries, marks, moved,
                   overtaken, seen, batch, blind>>

\* rollback_to_savepoint: what was read since is forgotten, but a read set that
\* was widened since is kept.
RollbackToSavepoint(t, S) ==
    /\ phase[t] = "active" /\ t \notin coarse /\ S \subseteq deps[t] /\ S # deps[t]
    /\ deps' = [deps EXCEPT ![t] = S]
    /\ Bump
    /\ UNCHANGED <<phase, clock, coarse, indexed, frozen, summaries, marks, moved,
                   overtaken, seen, batch, blind>>

-----------------------------------------------------------------------------
(* SsiValidator::validate_commit *)

\* The commit plan freezes the read set; nothing is read after that.
StartCommit(t) ==
    /\ phase[t] = "active" /\ deps[t] = Reads[t]
    /\ frozen' = [frozen EXCEPT ![t] = Covered(t)]
    /\ phase' = [phase EXCEPT ![t] = "committedWrites"]
    /\ UNCHANGED <<clock, deps, coarse, indexed, summaries, marks, epochs, seen, batch, blind>>

\* Past its scan of the active read sets and not in the summaries yet.
InWindow(t) == phase[t] \in {"state", "epoch", "queued", "accepted", "durable"}

\* It has looked at the summaries, not at the active read sets yet.
BetweenScans(t) == phase[t] \in {"committedReads", "activeReaders"}

\* first_write_conflict_for_reads: a later commit overwrote what it read.
CommittedWrites(t) ==
    /\ phase[t] = "committedWrites"
    /\ LET out == \E u \in summaries :
                     commitTs[u] > readTs[t] /\ frozen[t] \cap Writes[u] # {}
       IN  /\ rwOut' = IF out THEN rwOut \cup {t} ELSE rwOut
           /\ Mark(IF out THEN {t} ELSE {})
    /\ phase' = [phase EXCEPT ![t] = "committedReads"]
    /\ blind' = [blind EXCEPT ![t] = {u \in Txns \ {t} : InWindow(u)}]
    /\ UNCHANGED <<clock, readSets, summaries, rwIn, danger, overtaken, seen, batch>>

\* first_read_conflict_for_writes: a later commit read what it overwrites.
CommittedReads(t) ==
    /\ phase[t] = "committedReads"
    /\ LET in == \E u \in summaries :
                    commitTs[u] > readTs[t] /\ frozen[u] \cap Writes[t] # {}
       IN  /\ rwIn' = IF in THEN rwIn \cup {t} ELSE rwIn
           /\ Mark(IF in THEN {t} ELSE {})
    /\ phase' = [phase EXCEPT ![t] = "activeReaders"]
    /\ UNCHANGED <<clock, readSets, summaries, rwOut, danger, overtaken, seen, batch, blind>>

\* Only the writer is marked.
MUActiveReaders(t) ==
    /\ phase[t] = "activeReaders"
    /\ LET R == {u \in indexed \ {t} : Covered(u) \cap Writes[t] # {}}
       IN  rwIn' = IF R # {} THEN rwIn \cup {t} ELSE rwIn
    /\ phase' = [phase EXCEPT ![t] = "state"]
    /\ UNCHANGED <<clock, readSets, summaries, epochs, rwOut, danger, seen, batch, blind>>

\* mark_write_conflicts, and the mark it leaves on the writer.
ActiveReaders(t) ==
    /\ phase[t] = "activeReaders"
    /\ LET R == {u \in indexed \ {t} : Covered(u) \cap Writes[t] # {}}
       IN  /\ rwOut' = rwOut \cup R
           /\ danger' = danger \cup (R \cap rwIn)
           /\ rwIn' = IF R # {} THEN rwIn \cup {t} ELSE rwIn
           /\ Mark(R)
    /\ phase' = [phase EXCEPT ![t] = "state"]
    /\ UNCHANGED <<clock, readSets, summaries, overtaken, seen, batch, blind>>

\* ssi_state: with both marks the transaction is dangerous.
ReadState(t) ==
    /\ phase[t] = "state"
    /\ seen' = [seen EXCEPT ![t] = [in |-> t \in rwIn, out |-> t \in rwOut]]
    /\ danger' = IF t \in rwIn \cap rwOut THEN danger \cup {t} ELSE danger
    /\ Mark(IF t \in rwIn \cap rwOut THEN {t} ELSE {})
    /\ phase' = [phase EXCEPT ![t] = "epoch"]
    /\ UNCHANGED <<clock, readSets, summaries, rwIn, rwOut, overtaken, batch, blind>>

\* rollback_transaction releases the read set.
Aborted(t) ==
    /\ phase' = [phase EXCEPT ![t] = "aborted"]
    /\ indexed' = indexed \ {t}
    /\ Bump

\* validation_epoch is loaded after the state was read; a dangerous plan fails.
LoadEpoch(t) ==
    /\ phase[t] = "epoch"
    /\ IF seen[t].in /\ seen[t].out
       THEN Aborted(t) /\ UNCHANGED <<moved, overtaken>>
       ELSE /\ phase' = [phase EXCEPT ![t] = "queued"]
            /\ moved' = moved \ {t}
            /\ bumped' = bumped \ {t}
            /\ overtaken' = [u \in Txns |-> IF u \in bumped THEN overtaken[u] \cup {t}
                                                            ELSE overtaken[u]]
            /\ UNCHANGED indexed
    /\ UNCHANGED <<clock, deps, coarse, frozen, summaries, marks, seen, batch, blind>>

-----------------------------------------------------------------------------
(* Sequencer, journal, finalize stage *)

\* A batch with a serializable plan waits until what is durable is registered
\* (the gate of CommitRuntime).
GateOpen == batch = {} => \A u \in Txns : phase[u] \notin {"durable", "summarized"}

\* reject_reason_for, then ssi_final_fence_reason.
Rejected(t) == overtaken[t] \cap batch # {} \/ t \in moved

\* The sequencer fences one plan of the batch it is forming.
Fence(t) ==
    /\ phase[t] = "queued" /\ GateOpen
    /\ IF Rejected(t)
       THEN Aborted(t) /\ UNCHANGED <<commitTs, batch>>
       ELSE /\ phase' = [phase EXCEPT ![t] = "accepted"]
            /\ commitTs' = [commitTs EXCEPT ![t] = nextTs + Cardinality(batch)]
            /\ batch' = batch \cup {t}
            /\ UNCHANGED <<indexed, bumped>>
    /\ UNCHANGED <<readTs, published, nextTs, deps, coarse, frozen, summaries, marks, moved,
                   overtaken, seen, blind>>

\* The read sets of the batch go as soon as it is durable.
MUAppend ==
    /\ batch # {}
    /\ phase' = [t \in Txns |-> IF t \in batch THEN "durable" ELSE phase[t]]
    /\ nextTs' = nextTs + Cardinality(batch)
    /\ indexed' = indexed \ batch
    /\ batch' = {}
    /\ UNCHANGED <<readTs, commitTs, published, deps, coarse, frozen, summaries, marks, epochs,
                   seen, blind>>

\* The batch is durable and handed to the finalize stage.
Append ==
    /\ batch # {}
    /\ phase' = [t \in Txns |-> IF t \in batch THEN "durable" ELSE phase[t]]
    /\ nextTs' = nextTs + Cardinality(batch)
    /\ batch' = {}
    /\ UNCHANGED <<readTs, commitTs, published, readSets, summaries, marks, epochs, seen, blind>>

\* finalize_reservation.apply: the summary is registered, in commit order.
Summarize(t) ==
    /\ phase[t] = "durable"
    /\ \A u \in Txns : phase[u] \in {"durable", "summarized"} => commitTs[t] <= commitTs[u]
    /\ phase' = [phase EXCEPT ![t] = "summarized"]
    /\ summaries' = summaries \cup {t}
    /\ blind' = [u \in Txns |-> IF BetweenScans(u) THEN blind[u] \cup {t} ELSE blind[u]]
    /\ UNCHANGED <<clock, readSets, marks, epochs, seen, batch>>

\* pre_publish_release_plan.apply: the active read set goes; then the gate is
\* told.
Release(t) ==
    /\ phase[t] = "summarized"
    /\ phase' = [phase EXCEPT ![t] = "registered"]
    /\ indexed' = indexed \ {t}
    /\ Bump
    /\ UNCHANGED <<clock, deps, coarse, frozen, summaries, marks, moved, overtaken, seen,
                   batch, blind>>

\* The publish frontier reaches the commit.
Publish(t) ==
    /\ phase[t] = "registered" /\ commitTs[t] = published + 1
    /\ phase' = [phase EXCEPT ![t] = "published"]
    /\ published' = commitTs[t]
    /\ UNCHANGED <<readTs, commitTs, nextTs, readSets, summaries, marks, epochs, seen, batch,
                   blind>>

\* The client gives up before it commits.
Rollback(t) ==
    /\ phase[t] = "active"
    /\ Aborted(t)
    /\ UNCHANGED <<clock, deps, coarse, frozen, summaries, marks, moved, overtaken, seen,
                   batch, blind>>

Next ==
    \/ \E t \in Txns :
          \/ Begin(t) \/ Coarsen(t) \/ StartCommit(t)
          \/ \E x \in Items : Record(t, x)
          \/ \E S \in SUBSET Items : RollbackToSavepoint(t, S)
          \/ CommittedWrites(t) \/ CommittedReads(t) \/ ActiveReaders(t)
          \/ ReadState(t) \/ LoadEpoch(t) \/ Fence(t)
          \/ Summarize(t) \/ Release(t) \/ Publish(t) \/ Rollback(t)
    \/ Append

Spec == Init /\ [][Next]_vars

-----------------------------------------------------------------------------

Committed == {t \in Txns : phase[t] \in {"accepted", "durable", "summarized", "registered",
                                         "published"}}

\* t read a version that u's commit replaced.
AntiDepends(t, u) == Reads[t] \cap Writes[u] # {} /\ commitTs[u] > readTs[t]

\* u read a version that t wrote.
Feeds(t, u) == Writes[t] \cap Reads[u] # {} /\ commitTs[t] <= readTs[u]

Precedes(t, u) == t # u /\ (AntiDepends(t, u) \/ Feeds(t, u))

\* Two transactions that each read what the other overwrote are both committed
\* only if one of them began its validation in the other's window, from its scan
\* of the active read sets to its summary, or the summary came between its two
\* scans; in every other order of reads, validations, fences and registrations a
\* mark or a summary gives one of them both marks (validate_commit,
\* mark_write_conflicts, process_finalize_batch).
WriteSkewNeedsOverlap ==
    \A t, u \in Committed :
        t # u /\ AntiDepends(t, u) /\ AntiDepends(u, t) => u \in blind[t] \/ t \in blind[u]

\* What a transaction has read can be found by a later writer from the read on,
\* in the index of active read sets or in the summaries, whatever was widened
\* and however far the commit is (coarsen_to_table_level, process_finalize_batch).
ReadsFindable ==
    \A t \in Txns : phase[t] # "aborted" =>
        \/ t \in indexed /\ deps[t] \subseteq Covered(t)
        \/ t \in summaries /\ deps[t] \subseteq frozen[t]
        \/ deps[t] = {}

\* The committed transactions have a serial order that explains what they read
\* and wrote: no cycle among them.
Serializable ==
    LET reach[n \in Nat] ==
          IF n = 0 THEN {p \in Committed \X Committed : Precedes(p[1], p[2])}
          ELSE LET r == reach[n - 1]
               IN  r \cup {p \in Committed \X Committed :
                            \E v \in Committed : <<p[1], v>> \in r /\ <<v, p[2]>> \in r}
    IN  \A t \in Committed : <<t, t>> \notin reach[Cardinality(Txns)]
=============================================================================

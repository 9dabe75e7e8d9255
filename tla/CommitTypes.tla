---------------------------- MODULE CommitTypes ----------------------------
(* What the commit pipeline knows of the transactions that are submitted to *)
(* it (PreparedCommitJob, CommitSequencingPlan, CommitAckPolicy).           *)
EXTENDS Naturals, Sequences

CONSTANTS
    Txns,              \* one commit request per transaction
    Serializable,      \* the transactions that commit under serializable isolation
    WriteSet,          \* the lock resources each transaction writes
    DurableOnlyAsync   \* the transactions acknowledged without waiting for publish

ASSUME TypesAssumption ==
    /\ Serializable \subseteq Txns
    /\ DurableOnlyAsync \subseteq Txns

(* CommitQueueEntry::is_snapshot_only *)
IsSnapshotOnly(t) == t \notin Serializable

(* LockResource::conflicts_with, lifted to write sets *)
ConflictsWith(t, u) == WriteSet[t] \cap WriteSet[u] # {}

(* The members of a sequence. *)
Elems(s) == {s[i] : i \in 1 .. Len(s)}
=============================================================================

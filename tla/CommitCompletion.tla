-------------------------- MODULE CommitCompletion --------------------------
(* The completion registry (commit/runtime/completion.rs): one slot per     *)
(* submitted commit, the state machine that joins the durable, submitted    *)
(* and published events in whatever order they arrive, and the waiter that  *)
(* removes the slot once it is terminal.                                    *)
(*                                                                          *)
(* An operator maps the old slot table to the new one: it is what the       *)
(* registry method does under the slot's mutex.                             *)
EXTENDS CommitTypes

VARIABLES
    slot,             \* the slot of each transaction: its state and its commit timestamp
    outcome           \* what wait() returned to the submitter

completionVars == <<slot, outcome>>

----------------------------------------------------------------------------
(* "durable_done" is Durable { publish_completed: true }; "failed_append"   *)
(* stands for Failed(Append | AppendCleanup) and "failed_apply" for         *)
(* Failed(Apply): the session treats the two differently.                   *)
TerminalStates ==
    {"acked", "published", "rejected", "failed_append", "failed_apply", "ambiguous"}

SlotStates ==
    {"none", "queued", "durable", "durable_done", "submitted"} \cup TerminalStates

(* not_admitted: submit_commit itself failed (AdmissionClosed, Poisoned, Queue). *)
Outcomes == {"pending", "not_admitted"} \cup TerminalStates

NoSlot == [st |-> "none", ts |-> 0]

CompletionInit ==
    /\ slot = [t \in Txns |-> NoSlot]
    /\ outcome = [t \in Txns |-> "pending"]

IsTerminal(t) == slot[t].st \in TerminalStates

----------------------------------------------------------------------------
Allocate(sl, t) == [sl EXCEPT ![t] = [st |-> "queued", ts |-> 0]]

(* mark_rejected, mark_failed_handle, mark_ambiguous: an unconditional      *)
(* overwrite of every slot of S that still exists.                          *)
SetState(sl, S, st) ==
    [t \in Txns |-> IF t \in S /\ sl[t].st # "none"
                    THEN [sl[t] EXCEPT !.st = st]
                    ELSE sl[t]]

(* mark_durable for every record of a durable batch: the timestamp becomes  *)
(* resolvable in the same step as the state.                                *)
MarkDurable(sl, recs) ==
    [t \in Txns |->
        IF sl[t].st # "none" /\ \E r \in recs : r.txn = t
        THEN [st |-> "durable", ts |-> (CHOOSE r \in recs : r.txn = t).ts]
        ELSE sl[t]]

(* slot_for_commit_ts *)
SlotsForCommitTs(sl, ts) == {t \in Txns : sl[t].st # "none" /\ sl[t].ts = ts}

(* Mutant: submission counts as publication. *)
MarkPublishSubmitted_Early(sl, ts) ==
    [t \in Txns |->
        IF t \notin SlotsForCommitTs(sl, ts) THEN sl[t]
        ELSE IF sl[t].st \notin {"durable", "durable_done"} THEN sl[t]
        ELSE [sl[t] EXCEPT !.st =
                IF t \in DurableOnlyAsync THEN "acked" ELSE "published"]]

MarkPublishSubmitted(sl, ts) ==
    [t \in Txns |->
        IF t \notin SlotsForCommitTs(sl, ts) THEN sl[t]
        ELSE IF sl[t].st \notin {"durable", "durable_done"} THEN sl[t]
        ELSE [sl[t] EXCEPT !.st =
                IF t \in DurableOnlyAsync THEN "acked"
                ELSE IF @ = "durable_done" THEN "published"
                ELSE "submitted"]]

MarkPublished(sl, ts) ==
    [t \in Txns |->
        IF t \notin SlotsForCommitTs(sl, ts) THEN sl[t]
        ELSE CASE sl[t].st = "submitted" -> [sl[t] EXCEPT !.st = "published"]
               [] sl[t].st = "durable"   -> [sl[t] EXCEPT !.st = "durable_done"]
               [] OTHER                  -> sl[t]]

(* mark_failed and mark_ambiguous_commit_ts *)
SetStateForCommitTs(sl, ts, st) == SetState(sl, SlotsForCommitTs(sl, ts), st)

(* wait: only a terminal state is returned, and the slot is removed. *)
Wait(t) ==
    /\ IsTerminal(t)
    /\ outcome' = [outcome EXCEPT ![t] = slot[t].st]
    /\ slot' = [slot EXCEPT ![t] = NoSlot]

(* submit_commit returned an error: the submitter never waits. *)
NotAdmitted(t) == outcome' = [outcome EXCEPT ![t] = "not_admitted"]

SlotTable == [Txns -> [st : SlotStates, ts : Nat]]

CompletionTypeOK ==
    /\ slot \in SlotTable
    /\ outcome \in [Txns -> Outcomes]
=============================================================================

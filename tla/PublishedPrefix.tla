--------------------------- MODULE PublishedPrefix ---------------------------
(* The tracker a checkpoint takes its replay boundary from                  *)
(* (instance/checkpoint/runtime.rs): the journal tells it what is durable,  *)
(* the apply runtime what is published, one LSN after the other, and it     *)
(* folds the records' watermarks into the summary of the published prefix.  *)
(* Operators from tracker to tracker; one critical section each.            *)
EXTENDS Naturals

(* RecoverySummary, with the two watermarks that tell records apart. *)
SummaryOf(l, c, m) == [lsn |-> l, commit |-> c, maintenance |-> m]

NoSummary == SummaryOf(0, 0, 0)

Larger(a, b) == IF a >= b THEN a ELSE b

(* waiters: exact_prefix_waiters, the cuts somebody asked for; Pending is   *)
(* the entry None (no record has LSN 0).                                    *)
Pending == NoSummary

TrackerAt(l) ==
    [durable |-> l, summary |-> SummaryOf(l, 0, 0), waiters |-> <<>>]

RecordDurable(tr, l) == [tr EXCEPT !.durable = Larger(@, l)]

(* Mutant: any LSN is folded, whether or not it is the next one. *)
Expects_Any(tr, l) == l > 0

Expects(tr, l) == l = tr.summary.lsn + 1

FoldRecord(summary, l, mark) ==
    SummaryOf(l, Larger(summary.commit, mark.commit),
                 Larger(summary.maintenance, mark.maintenance))

RecordPublished(tr, l, mark) ==
    LET summary == FoldRecord(tr.summary, l, mark)
    IN  [tr EXCEPT !.summary = summary,
                   !.waiters = [k \in DOMAIN @ |-> IF k = l THEN summary ELSE @[k]]]

(* capture_durable_prefix returns the LSN that is durable; only one that is *)
(* not published yet gets an entry.                                         *)
CapturePrefix(tr) ==
    IF tr.durable > tr.summary.lsn /\ tr.durable \notin DOMAIN tr.waiters
    THEN [tr EXCEPT !.waiters =
             [k \in DOMAIN @ \cup {tr.durable} |->
                 IF k \in DOMAIN @ THEN @[k] ELSE Pending]]
    ELSE tr

(* wait_for_exact_prefix has a summary to return. *)
ExactPrefixReady(tr, target) ==
    \/ target = 0
    \/ tr.summary.lsn = target
    \/ target \in DOMAIN tr.waiters /\ tr.waiters[target] # Pending

(* Mutant: the summary at the time of the call. *)
ExactPrefix_Current(tr, target) == IF target = 0 THEN NoSummary ELSE tr.summary

ExactPrefix(tr, target) ==
    CASE target = 0              -> NoSummary
      [] tr.summary.lsn = target -> tr.summary
      [] OTHER                   -> tr.waiters[target]

(* The entry is removed when its summary is taken. *)
TakeExactPrefix(tr, target) ==
    IF target = 0 \/ tr.summary.lsn = target
    THEN tr
    ELSE [tr EXCEPT !.waiters = [k \in DOMAIN @ \ {target} |-> @[k]]]
=============================================================================

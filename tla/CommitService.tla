--------------------------- MODULE CommitService ---------------------------
(* What the commit runtime promises a session, without queues, batches or   *)
(* workers: commits form one log; the log becomes visible to readers in     *)
(* order, one commit at a time; and the answer a submitter gets tells the   *)
(* truth about its commit's place in the log, now and later.                *)
(* CommitRuntime is checked to implement this specification.                *)
EXTENDS Naturals

CONSTANT Txns

VARIABLES
    log,        \* the durable commits, each with its position (commit timestamp)
    next,       \* the first free position
    watermark,  \* the last position that is published
    visible,    \* the transactions whose effects readers can see
    answer      \* what each submitter has been told

serviceVars == <<log, next, watermark, visible, answer>>

(* The session discards staged data on these: the commit must not be, and   *)
(* never become, durable (commit_runtime_error_is_definitely_nondurable).   *)
Nondurable == {"not_admitted", "rejected", "failed_append"}

(* These say "durable, but not published": nothing may publish it later.    *)
Unpublishable == {"failed_apply", "ambiguous"}

Answers == {"pending", "acked", "published"} \cup Nondurable \cup Unpublishable

InLog(t) == \E r \in log : r.txn = t

ServiceInit ==
    /\ log = {}
    /\ next = 1
    /\ watermark = 0
    /\ visible = {}
    /\ answer = [t \in Txns |-> "pending"]

(* A group of unanswered commits becomes durable, on the next positions. *)
CommitGroup ==
    /\ next' > next
    /\ log \subseteq log'
    /\ \A p \in next .. next' - 1 : \E r \in log' \ log : r.ts = p
    /\ \A r \in log' \ log :
          /\ r.txn \in Txns
          /\ r.ts \in next .. next' - 1
          /\ ~InLog(r.txn)
          /\ answer[r.txn] = "pending"
          /\ \A q \in log' \ log : q.ts = r.ts \/ q.txn = r.txn => q = r
    /\ UNCHANGED <<watermark, visible, answer>>

(* The next commit of the log becomes visible. *)
Publish ==
    /\ \E r \in log :
          /\ r.ts = watermark + 1
          /\ answer[r.txn] \notin Unpublishable
          /\ visible' = visible \cup {r.txn}
    /\ watermark' = watermark + 1
    /\ UNCHANGED <<log, next, answer>>

(* A submitter is told the fate of its commit, once. *)
Answer(t) ==
    /\ answer[t] = "pending"
    /\ \E a \in Answers \ {"pending"} :
          /\ a \in Nondurable => ~InLog(t)
          /\ a = "acked" => InLog(t)
          /\ a = "published" => t \in visible
          /\ a \in Unpublishable => InLog(t) /\ t \notin visible
          /\ answer' = [answer EXCEPT ![t] = a]
    /\ UNCHANGED <<log, next, watermark, visible>>

ServiceNext == CommitGroup \/ Publish \/ \E t \in Txns : Answer(t)

ServiceSpec == ServiceInit /\ [][ServiceNext]_serviceVars
=============================================================================

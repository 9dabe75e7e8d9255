----------------------------- MODULE OrderedApply ----------------------------
(* What the commit pipeline is promised by the apply runtime it submits to: *)
(* requests are published one at a time in the order of submission, each    *)
(* request is answered once, with Ok exactly when it was published, and     *)
(* after the first failure nothing is published.  CommitRuntime's apply     *)
(* worker takes these steps.                                                *)
EXTENDS Naturals, Sequences

CONSTANT Requests

VARIABLES
    queue,   \* submitted and not answered
    shown,   \* published
    answer,  \* "none", "ok" or "err"
    down     \* the runtime is poisoned

vars == <<queue, shown, answer, down>>

Init ==
    /\ queue = <<>>
    /\ shown = {}
    /\ answer = [r \in Requests |-> "none"]
    /\ down = FALSE

Submit(r) ==
    /\ answer[r] = "none" /\ r \notin shown
    /\ \A i \in DOMAIN queue : queue[i] # r
    /\ queue' = Append(queue, r)
    /\ UNCHANGED <<shown, answer, down>>

Publish ==
    /\ queue # <<>> /\ ~down
    /\ Head(queue) \notin shown
    /\ shown' = shown \cup {Head(queue)}
    /\ UNCHANGED <<queue, answer, down>>

Break ==
    /\ queue # <<>> /\ ~down
    /\ Head(queue) \notin shown
    /\ down' = TRUE
    /\ UNCHANGED <<queue, shown, answer>>

Complete ==
    /\ queue # <<>>
    /\ Head(queue) \in shown \/ down
    /\ answer' = [answer EXCEPT ![Head(queue)] =
                     IF Head(queue) \in shown THEN "ok" ELSE "err"]
    /\ queue' = Tail(queue)
    /\ UNCHANGED <<shown, down>>

Next ==
    \/ \E r \in Requests : Submit(r)
    \/ Publish \/ Break \/ Complete

Spec == Init /\ [][Next]_vars
=============================================================================

---------------------------- MODULE JournalApply ----------------------------
(* The ordered journal apply runtime of one database                        *)
(* (journal/src/apply_queue.rs) after recovery.  Every durable record is    *)
(* submitted once.  Commits go through the queue of the one async submit    *)
(* worker; a maintenance record (compaction, search generation) is          *)
(* submitted by the thread that appended it, or, when its completion guard  *)
(* is dropped unfinished, through the same queue.  Records are dispatched   *)
(* in LSN order; their tablet parts run on the tablet workers; the          *)
(* publish frontier moves over the applied prefix, and whichever thread     *)
(* moves it runs the hooks of the records it passed, outside the lock.      *)
(*                                                                          *)
(* A step is a critical section or a closure.  A thread that waits on its   *)
(* ticket tests and parks in two steps: it holds the ticket's lock in       *)
(* between, but poison is set and notified without that lock.               *)
EXTENDS PublishedPrefix, Sequences, FiniteSets

CONSTANTS
    N,             \* number of records
    Recovered,     \* max_lsn of the recovery summary
    Modes,         \* values of inMemory: databases with and without a journal
    Commits,       \* the requests that are commits
    Dropped,       \* maintenance whose completion guard is dropped
    CatalogSerial, \* the requests that take the catalog lane
    Tablets,
    Parts,         \* the tablets of each request
    Workers,       \* tablet workers
    CanFail,       \* which closures may fail, of FailKinds
    MaxCuts        \* bound on the number of checkpoints

Requests == 1 .. N

FailKinds == {"pre", "part", "apply", "hook"}

ASSUME ApplyAssumption ==
    /\ N \in Nat /\ Recovered \in Nat /\ MaxCuts \in Nat
    /\ Modes \subseteq BOOLEAN
    /\ Commits \subseteq Requests
    /\ Dropped \subseteq Requests \ Commits
    /\ CatalogSerial \subseteq Requests
    /\ Parts \in [Requests -> SUBSET Tablets]
    /\ CanFail \subseteq FailKinds

Threads == Requests \cup Workers

VARIABLES
    inMemory,       \* no appender: every record carries LSN 0
    appended,       \* how many requests the journal has made durable
    batch,          \* durable_batch_lsn of each append result
    pc,             \* where the thread of each request is
    answer,         \* what submit returned, or the completion was given
    asyncQueue,     \* AsyncSubmitState.queue
    asyncCur,       \* the request the async worker is in, 0 if none
    nextDispatch,   \* next_dispatch_lsn
    nextEphemeral,  \* next_ephemeral_lsn
    frontiers,      \* JournalFrontierSnapshot
    applyFrontier,  \* ApplyFrontier
    publishFrontier,\* PublishFrontier
    records,        \* the registered requests that are not published
    poisoned,
    lane,           \* holder of catalog_lane, 0 if free
    lsn,            \* RecordTicket.lsn, 0 before registration
    remaining,      \* RecordProgress.remaining_tablet_parts
    partError,      \* RecordProgress.part_error is set
    published,      \* RecordProgress.published
    toEnqueue,      \* tablet parts not yet in a mailbox
    toPublish,      \* the LSNs whose hooks the thread has to run
    mailbox,        \* TabletMailbox.queue of each tablet
    scheduled,      \* TabletMailbox.scheduled_or_running
    ready,          \* ready_tablets
    worker,         \* what each tablet worker is doing
    failing,        \* where a thread is in fail_record
    tracker,        \* the publication observer
    cut,            \* the checkpoint in progress
    partLog,        \* history: the LSNs applied to each tablet, in order
    hooked          \* history: the requests whose published hook succeeded

journalVars  == <<inMemory, appended, batch, tracker>>
asyncVars    == <<asyncQueue, asyncCur>>
frontierVars == <<nextDispatch, nextEphemeral, frontiers, applyFrontier,
                  publishFrontier, records>>
ticketVars   == <<lsn, remaining, partError, published>>
tabletVars   == <<mailbox, scheduled, ready, worker, partLog>>
vars == <<journalVars, asyncVars, frontierVars, ticketVars, tabletVars, pc,
          answer, poisoned, lane, toEnqueue, toPublish, failing, cut, hooked>>

----------------------------------------------------------------------------
(* publish_frontier.rs.  MarkReady adds a set of LSNs; the frontier moves   *)
(* over the ready LSNs that follow it without a gap.                        *)
FrontierAt(l) == [next |-> l + 1, ready |-> {}]

(* Mutant: the frontier moves past whatever is ready, gaps included. *)
MarkReady_OverGaps(fr, S) ==
    [next  |-> 1 + CHOOSE l \in fr.ready \cup S \cup {fr.next - 1} :
                      \A k \in fr.ready \cup S : k <= l,
     ready |-> {}]

MarkReady(fr, S) ==
    LET all  == fr.ready \cup S
        next == CHOOSE l \in fr.next .. fr.next + Cardinality(all) :
                   l \notin all /\ fr.next .. l - 1 \subseteq all
    IN  [next |-> next, ready |-> all \ (fr.next .. next - 1)]

(* The waiters a ticket's condition variable wakes. *)
Woken(where, S) ==
    [r \in Requests |->
        CASE r \in S /\ where[r] = "tablets_wait"   -> "tablets"
          [] r \in S /\ where[r] = "published_wait" -> "published"
          [] OTHER                                  -> where[r]]

(* The thread of r holds its ticket's lock between test and park. *)
HoldsTicket(r) == pc[r] \in {"tablets_park", "published_park"}

Idle == [st |-> "idle", tablet |-> 0, req |-> 0, ok |-> TRUE]
NotFailing == [st |-> "no", ticket |-> 0, waiters |-> {}]

Init ==
    /\ inMemory \in Modes
    /\ appended = 0 /\ batch = [r \in Requests |-> 0]
    /\ pc = [r \in Requests |-> "new"]
    /\ answer = [r \in Requests |-> "none"]
    /\ asyncQueue = <<>> /\ asyncCur = 0
    /\ nextDispatch = Recovered + 1 /\ nextEphemeral = Recovered + 1
    /\ frontiers = [durable |-> Recovered, applied |-> Recovered, published |-> Recovered]
    /\ applyFrontier = FrontierAt(Recovered)
    /\ publishFrontier = FrontierAt(Recovered)
    /\ records = {}
    /\ poisoned = FALSE
    /\ lane = 0
    /\ lsn = [r \in Requests |-> 0]
    /\ remaining = [r \in Requests |-> Cardinality(Parts[r])]
    /\ partError = [r \in Requests |-> FALSE]
    /\ published = [r \in Requests |-> FALSE]
    /\ toEnqueue = Parts
    /\ toPublish = [r \in Requests |-> <<>>]
    /\ mailbox = [t \in Tablets |-> <<>>]
    /\ scheduled = [t \in Tablets |-> FALSE]
    /\ ready = <<>>
    /\ worker = [w \in Workers |-> Idle]
    /\ failing = [x \in Threads |-> NotFailing]
    /\ tracker = TrackerAt(Recovered)
    /\ cut = [st |-> "none", target |-> 0, summary |-> NoSummary, count |-> 0]
    /\ partLog = [t \in Tablets |-> <<>>]
    /\ hooked = <<>>

----------------------------------------------------------------------------
(* The journal and the callers.                                             *)
RawLsn(r) == IF inMemory THEN 0 ELSE Recovered + r

(* publication_watermarks: commit id or maintenance id *)
Watermarks(r) == [commit      |-> IF r \in Commits THEN r ELSE 0,
                  maintenance |-> IF r \in Commits THEN 0 ELSE r]

(* The journal appender's run_worker makes the next records durable with    *)
(* one sync; a group that fails never gets here.                            *)
AppendBatch ==
    /\ \E k \in appended + 1 .. N :
          LET group == appended + 1 .. k
          IN  /\ appended' = k
              /\ batch' = [r \in Requests |-> IF r \in group THEN RawLsn(k) ELSE batch[r]]
              /\ pc' = [r \in Requests |-> IF r \in group THEN "appended" ELSE pc[r]]
    /\ UNCHANGED <<inMemory, tracker, asyncVars, frontierVars, ticketVars, tabletVars,
                   answer, poisoned, lane, toEnqueue, toPublish, failing, cut, hooked>>

(* The rest of JournalCoordinator::append_records, by each caller:          *)
(* note_durable_append, then record_durable.                                *)
NoteDurable(r) ==
    /\ pc[r] = "appended"
    /\ pc' = [pc EXCEPT ![r] = "durable"]
    /\ frontiers' = [frontiers EXCEPT !.durable = Larger(@, batch[r])]
    /\ tracker' = IF batch[r] # 0 THEN RecordDurable(tracker, batch[r]) ELSE tracker
    /\ UNCHANGED <<inMemory, appended, batch, asyncVars, nextDispatch, nextEphemeral,
                   applyFrontier, publishFrontier, records, ticketVars, tabletVars,
                   answer, poisoned, lane, toEnqueue, toPublish, failing, cut, hooked>>

(* submit_async_with_completion, called by the finalize worker in commit    *)
(* order; submit_async, called by the drop of a maintenance completion.     *)
SubmitAsync(r) ==
    /\ pc[r] = "durable" /\ r \in Commits \cup Dropped
    /\ r \in Commits =>
          \A c \in Commits : c < r => pc[c] \notin {"new", "appended", "durable"}
    /\ asyncQueue' = Append(asyncQueue, r)
    /\ pc' = [pc EXCEPT ![r] = "queued"]
    /\ UNCHANGED <<journalVars, asyncCur, frontierVars, ticketVars, tabletVars, answer,
                   poisoned, lane, toEnqueue, toPublish, failing, cut, hooked>>

(* submit, called by the thread that appended the maintenance record.       *)
SubmitSync(r) ==
    /\ pc[r] = "durable" /\ r \notin Commits \cup Dropped
    /\ pc' = [pc EXCEPT ![r] = "register"]
    /\ UNCHANGED <<journalVars, asyncVars, frontierVars, ticketVars, tabletVars, answer,
                   poisoned, lane, toEnqueue, toPublish, failing, cut, hooked>>

(* run_async_submit_worker takes the next request when it is done with the  *)
(* last one.                                                                *)
DequeueAsyncSubmit ==
    /\ asyncCur = 0 /\ asyncQueue # <<>>
    /\ asyncCur' = Head(asyncQueue)
    /\ asyncQueue' = Tail(asyncQueue)
    /\ pc' = [pc EXCEPT ![Head(asyncQueue)] = "register"]
    /\ UNCHANGED <<journalVars, frontierVars, ticketVars, tabletVars, answer, poisoned,
                   lane, toEnqueue, toPublish, failing, cut, hooked>>

----------------------------------------------------------------------------
(* submit_observed_tracked, by the thread of request r.                     *)

(* The call returns (or, for a commit, its completion is called); the lane  *)
(* guard is dropped and the async worker is free again.                     *)
Return(r, a) ==
    /\ answer' = [answer EXCEPT ![r] = a]
    /\ pc' = [pc EXCEPT ![r] = "done"]
    /\ lane' = IF lane = r THEN 0 ELSE lane
    /\ asyncCur' = IF asyncCur = r THEN 0 ELSE asyncCur

GoTo(r, where) ==
    /\ pc' = [pc EXCEPT ![r] = where]
    /\ UNCHANGED <<answer, lane, asyncCur>>

(* The thread of r goes into fail_record for the ticket of q. *)
StartFail(x, q) == failing' = [failing EXCEPT ![x] = [st |-> "poison", ticket |-> q,
                                                      waiters |-> {}]]

Fail(r, q) == GoTo(r, "failing") /\ StartFail(r, q)

RegisterRecord(r) ==
    /\ pc[r] = "register"
    /\ LET l == IF RawLsn(r) = 0 THEN nextEphemeral ELSE RawLsn(r)
       IN  IF poisoned
           THEN /\ Return(r, "err")
                /\ UNCHANGED <<frontiers, nextEphemeral, records, lsn>>
           ELSE /\ nextEphemeral' = Larger(nextEphemeral, l + 1)
                /\ IF l < nextDispatch
                   THEN Return(r, "err") /\ UNCHANGED <<frontiers, records, lsn>>
                   ELSE /\ GoTo(r, "turn")
                        /\ lsn' = [lsn EXCEPT ![r] = l]
                        /\ records' = records \cup {r}
                        /\ frontiers' = [frontiers EXCEPT !.durable =
                                            Larger(@, batch[r])]
    /\ UNCHANGED <<journalVars, asyncQueue, nextDispatch, applyFrontier,
                   publishFrontier, remaining, partError, published, tabletVars,
                   poisoned, toEnqueue, toPublish, failing, cut, hooked>>

(* Mutant: a record is dispatched without waiting for its turn. *)
WaitForDispatchTurn_Early(r) ==
    /\ pc[r] = "turn"
    /\ IF poisoned THEN Fail(r, r) ELSE GoTo(r, "lane") /\ UNCHANGED failing
    /\ UNCHANGED <<journalVars, asyncQueue, frontierVars, ticketVars, tabletVars,
                   poisoned, toEnqueue, toPublish, cut, hooked>>

(* Test and wait are under the state lock, which every change of what is    *)
(* tested takes before it notifies dispatch_wake: one step.                 *)
WaitForDispatchTurn(r) ==
    /\ pc[r] = "turn"
    /\ \/ poisoned /\ Fail(r, r)
       \/ ~poisoned /\ nextDispatch = lsn[r] /\ GoTo(r, "lane") /\ UNCHANGED failing
    /\ UNCHANGED <<journalVars, asyncQueue, frontierVars, ticketVars, tabletVars,
                   poisoned, toEnqueue, toPublish, cut, hooked>>

TakeCatalogLane(r) ==
    /\ pc[r] = "lane"
    /\ r \in CatalogSerial => lane = 0
    /\ lane' = IF r \in CatalogSerial THEN r ELSE lane
    /\ pc' = [pc EXCEPT ![r] = "pre"]
    /\ UNCHANGED <<journalVars, asyncVars, frontierVars, ticketVars, tabletVars, answer,
                   poisoned, toEnqueue, toPublish, failing, cut, hooked>>

CatalogPre(r) ==
    /\ pc[r] = "pre"
    /\ \/ GoTo(r, "enqueue") /\ UNCHANGED failing
       \/ "pre" \in CanFail /\ Fail(r, r)
    /\ UNCHANGED <<journalVars, asyncQueue, frontierVars, ticketVars, tabletVars,
                   poisoned, toEnqueue, toPublish, cut, hooked>>

(* One part enters its tablet's mailbox; a tablet that is neither scheduled *)
(* nor running becomes ready.                                               *)
EnqueueTabletPart(r) ==
    /\ pc[r] = "enqueue"
    /\ \E t \in toEnqueue[r] :
          /\ toEnqueue' = [toEnqueue EXCEPT ![r] = @ \ {t}]
          /\ mailbox' = [mailbox EXCEPT ![t] = Append(@, r)]
          /\ scheduled' = [scheduled EXCEPT ![t] = TRUE]
          /\ ready' = IF scheduled[t] THEN ready ELSE Append(ready, t)
    /\ UNCHANGED <<journalVars, asyncVars, frontierVars, ticketVars, worker, partLog, pc,
                   answer, poisoned, lane, toPublish, failing, cut, hooked>>

FinishDispatchTurn(r) ==
    /\ pc[r] = "enqueue" /\ toEnqueue[r] = {}
    /\ nextDispatch' = IF nextDispatch = lsn[r] THEN nextDispatch + 1 ELSE nextDispatch
    /\ pc' = [pc EXCEPT ![r] = "tablets"]
    /\ UNCHANGED <<journalVars, asyncVars, nextEphemeral, frontiers, applyFrontier,
                   publishFrontier, records, ticketVars, tabletVars, answer, poisoned,
                   lane, toEnqueue, toPublish, failing, cut, hooked>>

(* RecordTicket::wait_for_tablet_phase, the test. *)
WaitForTabletPhase(r) ==
    /\ pc[r] = "tablets"
    /\ IF partError[r] \/ (remaining[r] # 0 /\ poisoned)
       THEN Fail(r, r)
       ELSE /\ GoTo(r, IF remaining[r] = 0 THEN "apply" ELSE "tablets_park")
            /\ UNCHANGED failing
    /\ UNCHANGED <<journalVars, asyncQueue, frontierVars, ticketVars, tabletVars,
                   poisoned, toEnqueue, toPublish, cut, hooked>>

(* descriptor_phase and catalog_post *)
FinishApply(r) ==
    /\ pc[r] = "apply"
    /\ \/ GoTo(r, "mark") /\ UNCHANGED failing
       \/ "apply" \in CanFail /\ Fail(r, r)
    /\ UNCHANGED <<journalVars, asyncQueue, frontierVars, ticketVars, tabletVars,
                   poisoned, toEnqueue, toPublish, cut, hooked>>

(* advance_publish_frontiers_locked: the records the frontier passes leave  *)
(* the table, and the thread of r has their hooks to run.                   *)
AdvancePublishFrontiers(r) ==
    LET af  == MarkReady(applyFrontier, {lsn[r]})
        pf  == MarkReady(publishFrontier, applyFrontier.next .. af.next - 1)
        pub == [i \in 1 .. pf.next - publishFrontier.next |->
                   publishFrontier.next + i - 1]
        HasRecord(k) == \E q \in records : lsn[q] = k
    IN  /\ applyFrontier' = af
        /\ publishFrontier' = pf
        /\ frontiers' = [frontiers EXCEPT !.applied = af.next - 1,
                                          !.published = pf.next - 1]
        /\ toPublish' = [toPublish EXCEPT ![r] = SelectSeq(pub, HasRecord)]
        /\ records' = {q \in records : lsn[q] >= pf.next}

MarkApplied(r) ==
    /\ pc[r] = "mark"
    /\ \/ /\ poisoned
          /\ Return(r, "err")
          /\ UNCHANGED <<frontierVars, toPublish>>
       \/ /\ ~poisoned
          /\ AdvancePublishFrontiers(r)
          /\ GoTo(r, "hooks")
          /\ UNCHANGED <<nextDispatch, nextEphemeral>>
    /\ UNCHANGED <<journalVars, asyncQueue, ticketVars, tabletVars, poisoned, toEnqueue,
                   failing, cut, hooked>>

(* run_published_hooks: for each record the frontier passed, its hook, the  *)
(* observer and the ticket, three steps outside the lock.                   *)
TicketAt(l) == CHOOSE q \in Requests : lsn[q] = l

(* Mutant: the error of a hook is ignored. *)
RunPublishedHook_IgnoresError(r) ==
    /\ pc[r] = "hooks" /\ toPublish[r] # <<>>
    /\ GoTo(r, "observe")
    /\ \/ hooked' = Append(hooked, TicketAt(Head(toPublish[r])))
       \/ "hook" \in CanFail /\ UNCHANGED hooked
    /\ UNCHANGED <<journalVars, asyncQueue, frontierVars, ticketVars, tabletVars,
                   poisoned, toEnqueue, toPublish, failing, cut>>

RunPublishedHook(r) ==
    /\ pc[r] = "hooks" /\ toPublish[r] # <<>>
    /\ LET q == TicketAt(Head(toPublish[r]))
       IN  \/ /\ GoTo(r, "observe")
              /\ hooked' = Append(hooked, q)
              /\ UNCHANGED failing
           \/ "hook" \in CanFail /\ Fail(r, q) /\ UNCHANGED hooked
    /\ UNCHANGED <<journalVars, asyncQueue, frontierVars, ticketVars, tabletVars,
                   poisoned, toEnqueue, toPublish, cut>>

ObservePublished(r) ==
    /\ pc[r] = "observe"
    /\ LET l == Head(toPublish[r])
           q == TicketAt(l)
       IN  \/ /\ Expects(tracker, l)
              /\ tracker' = RecordPublished(tracker, l, Watermarks(q))
              /\ GoTo(r, "ack")
              /\ UNCHANGED failing
           \/ ~Expects(tracker, l) /\ Fail(r, q) /\ UNCHANGED tracker
    /\ UNCHANGED <<inMemory, appended, batch, asyncQueue, frontierVars, ticketVars,
                   tabletVars, poisoned, toEnqueue, toPublish, cut, hooked>>

(* RecordTicket::mark_published *)
MarkPublished(r) ==
    /\ pc[r] = "ack"
    /\ LET q == TicketAt(Head(toPublish[r]))
       IN  /\ ~HoldsTicket(q)
           /\ published' = [published EXCEPT ![q] = TRUE]
           /\ pc' = [Woken(pc, {q}) EXCEPT ![r] = "hooks"]
    /\ toPublish' = [toPublish EXCEPT ![r] = Tail(@)]
    /\ UNCHANGED <<journalVars, asyncVars, frontierVars, lsn, remaining, partError,
                   tabletVars, answer, poisoned, lane, toEnqueue, failing, cut, hooked>>

FinishHooks(r) ==
    /\ pc[r] = "hooks" /\ toPublish[r] = <<>>
    /\ pc' = [pc EXCEPT ![r] = "published"]
    /\ UNCHANGED <<journalVars, asyncVars, frontierVars, ticketVars, tabletVars, answer,
                   poisoned, lane, toEnqueue, toPublish, failing, cut, hooked>>

(* RecordTicket::wait_for_published, the test; an error here is returned    *)
(* without fail_record.                                                     *)
WaitForPublished(r) ==
    /\ pc[r] = "published"
    /\ \/ partError[r] /\ Return(r, "err")
       \/ ~partError[r] /\ published[r] /\ Return(r, "ok")
       \/ ~partError[r] /\ ~published[r] /\ poisoned /\ Return(r, "err")
       \/ ~partError[r] /\ ~published[r] /\ ~poisoned /\ GoTo(r, "published_park")
    /\ UNCHANGED <<journalVars, asyncQueue, frontierVars, ticketVars, tabletVars,
                   poisoned, toEnqueue, toPublish, failing, cut, hooked>>

(* Condvar::wait, which gives the ticket's lock up. *)
Park(r) ==
    /\ HoldsTicket(r)
    /\ pc' = [pc EXCEPT ![r] = IF @ = "tablets_park" THEN "tablets_wait"
                               ELSE "published_wait"]
    /\ UNCHANGED <<journalVars, asyncVars, frontierVars, ticketVars, tabletVars, answer,
                   poisoned, lane, toEnqueue, toPublish, failing, cut, hooked>>

----------------------------------------------------------------------------
(* fail_record, by a request's thread or a tablet worker: the runtime is    *)
(* poisoned, the failed ticket gets the error under its own lock, the other *)
(* registered tickets are only notified, without their locks.               *)
PoisonState(x) ==
    /\ failing[x].st = "poison"
    /\ poisoned' = TRUE
    /\ failing' = [failing EXCEPT ![x].st = "ticket", ![x].waiters = records]
    /\ UNCHANGED <<journalVars, asyncVars, frontierVars, ticketVars, tabletVars, pc,
                   answer, lane, toEnqueue, toPublish, cut, hooked>>

(* Mutant: the error is stored and notified without the ticket's lock. *)
FailTicket_Unlocked(x) ==
    /\ failing[x].st = "ticket"
    /\ partError' = [partError EXCEPT ![failing[x].ticket] = TRUE]
    /\ pc' = Woken(pc, {failing[x].ticket})
    /\ failing' = [failing EXCEPT ![x].st = "notify"]
    /\ UNCHANGED <<journalVars, asyncVars, frontierVars, lsn, remaining, published,
                   tabletVars, answer, poisoned, lane, toEnqueue, toPublish, cut, hooked>>

FailTicket(x) ==
    /\ failing[x].st = "ticket"
    /\ LET q == failing[x].ticket
       IN  /\ ~HoldsTicket(q)
           /\ partError' = [partError EXCEPT ![q] = TRUE]
           /\ pc' = Woken(pc, {q})
    /\ failing' = [failing EXCEPT ![x].st = "notify"]
    /\ UNCHANGED <<journalVars, asyncVars, frontierVars, lsn, remaining, published,
                   tabletVars, answer, poisoned, lane, toEnqueue, toPublish, cut, hooked>>

NotifyPoison(x) ==
    /\ failing[x].st = "notify"
    /\ \E q \in failing[x].waiters :
          /\ pc' = Woken(pc, {q})
          /\ failing' = [failing EXCEPT ![x].waiters = @ \ {q}]
    /\ UNCHANGED <<journalVars, asyncVars, frontierVars, ticketVars, tabletVars, answer,
                   poisoned, lane, toEnqueue, toPublish, cut, hooked>>

FailDone(x) ==
    /\ failing[x].st = "notify" /\ failing[x].waiters = {}
    /\ failing' = [failing EXCEPT ![x] = NotFailing]
    /\ IF x \in Requests
       THEN Return(x, "err") /\ UNCHANGED worker
       ELSE /\ worker' = [worker EXCEPT ![x] = Idle]
            /\ UNCHANGED <<pc, answer, lane, asyncCur>>
    /\ UNCHANGED <<journalVars, asyncQueue, frontierVars, ticketVars, mailbox, scheduled,
                   ready, partLog, poisoned, toEnqueue, toPublish, cut, hooked>>

----------------------------------------------------------------------------
(* run_tablet_worker.  A tablet on the ready list or in a worker's hands is *)
(* scheduled_or_running; its mailbox is drained one part at a time.         *)
DequeueTabletWork(w) ==
    /\ worker[w].st = "idle" /\ ready # <<>>
    /\ LET t == Head(ready)
       IN  IF mailbox[t] # <<>>
           THEN /\ worker' = [worker EXCEPT ![w] = [st |-> "run", tablet |-> t,
                                                    req |-> Head(mailbox[t]),
                                                    ok |-> TRUE]]
                /\ mailbox' = [mailbox EXCEPT ![t] = Tail(@)]
                /\ UNCHANGED scheduled
           ELSE /\ scheduled' = [scheduled EXCEPT ![t] = FALSE]
                /\ UNCHANGED <<worker, mailbox>>
    /\ ready' = Tail(ready)
    /\ UNCHANGED <<journalVars, asyncVars, frontierVars, ticketVars, partLog, pc, answer,
                   poisoned, lane, toEnqueue, toPublish, failing, cut, hooked>>

RunTabletPart(w) ==
    /\ worker[w].st = "run"
    /\ \/ /\ worker' = [worker EXCEPT ![w].st = "finish"]
          /\ partLog' = [partLog EXCEPT ![worker[w].tablet] =
                            Append(@, lsn[worker[w].req])]
       \/ /\ "part" \in CanFail
          /\ worker' = [worker EXCEPT ![w].st = "finish", ![w].ok = FALSE]
          /\ UNCHANGED partLog
    /\ UNCHANGED <<journalVars, asyncVars, frontierVars, ticketVars, mailbox, scheduled,
                   ready, pc, answer, poisoned, lane, toEnqueue, toPublish, failing, cut,
                   hooked>>

(* Mutant: a tablet with more work is not put back on the ready list. *)
FinishTabletDispatch_NotReady(w) ==
    /\ worker[w].st = "finish"
    /\ scheduled' = [scheduled EXCEPT ![worker[w].tablet] = FALSE]
    /\ worker' = [worker EXCEPT ![w].st = "complete"]
    /\ UNCHANGED <<journalVars, asyncVars, frontierVars, ticketVars, mailbox, ready,
                   partLog, pc, answer, poisoned, lane, toEnqueue, toPublish, failing,
                   cut, hooked>>

FinishTabletDispatch(w) ==
    /\ worker[w].st = "finish"
    /\ LET t == worker[w].tablet
       IN  IF mailbox[t] = <<>>
           THEN scheduled' = [scheduled EXCEPT ![t] = FALSE] /\ UNCHANGED ready
           ELSE ready' = Append(ready, t) /\ UNCHANGED scheduled
    /\ worker' = [worker EXCEPT ![w].st = "complete"]
    /\ UNCHANGED <<journalVars, asyncVars, frontierVars, ticketVars, mailbox, partLog, pc,
                   answer, poisoned, lane, toEnqueue, toPublish, failing, cut, hooked>>

(* complete_tablet_part: the ticket's count, or fail_record. *)
CompleteTabletPart(w) ==
    /\ worker[w].st = "complete"
    /\ LET q == worker[w].req
       IN  \/ /\ worker[w].ok /\ ~HoldsTicket(q)
              /\ remaining' = [remaining EXCEPT ![q] = IF @ = 0 THEN 0 ELSE @ - 1]
              /\ pc' = Woken(pc, {q})
              /\ worker' = [worker EXCEPT ![w] = Idle]
              /\ UNCHANGED failing
           \/ /\ ~worker[w].ok
              /\ StartFail(w, q)
              /\ worker' = [worker EXCEPT ![w].st = "failing"]
              /\ UNCHANGED <<remaining, pc>>
    /\ UNCHANGED <<journalVars, asyncVars, frontierVars, lsn, partError, published,
                   mailbox, scheduled, ready, partLog, answer, poisoned, lane, toEnqueue,
                   toPublish, cut, hooked>>

----------------------------------------------------------------------------
(* The checkpoint coordinator: capture the durable prefix, then wait until  *)
(* exactly that prefix is published.  One checkpoint at a time.             *)
CaptureDurablePrefix ==
    /\ ~inMemory /\ cut.count < MaxCuts
    /\ cut.st \in {"none", "got", "timeout"}
    /\ tracker' = CapturePrefix(tracker)
    /\ cut' = [st |-> "check", target |-> tracker.durable, summary |-> NoSummary,
               count |-> cut.count + 1]
    /\ UNCHANGED <<inMemory, appended, batch, asyncVars, frontierVars, ticketVars,
                   tabletVars, pc, answer, poisoned, lane, toEnqueue, toPublish, failing, hooked>>

(* "wait" is inside changed.wait_for. *)
WaitForExactPrefix ==
    /\ \/ /\ cut.st \in {"check", "wait"}
          /\ ExactPrefixReady(tracker, cut.target)
          /\ cut' = [cut EXCEPT !.st = "got",
                                !.summary = ExactPrefix(tracker, cut.target)]
          /\ tracker' = TakeExactPrefix(tracker, cut.target)
       \/ /\ cut.st = "check" /\ ~ExactPrefixReady(tracker, cut.target)
          /\ cut' = [cut EXCEPT !.st = "wait"]
          /\ UNCHANGED tracker
       \/ /\ cut.st = "wait"
          /\ cut' = [cut EXCEPT !.st = "timeout"]
          /\ UNCHANGED tracker
    /\ UNCHANGED <<inMemory, appended, batch, asyncVars, frontierVars, ticketVars,
                   tabletVars, pc, answer, poisoned, lane, toEnqueue, toPublish, failing, hooked>>

----------------------------------------------------------------------------
FailRecord(x) == PoisonState(x) \/ FailTicket(x) \/ NotifyPoison(x) \/ FailDone(x)

Submission(r) ==
    \/ RegisterRecord(r) \/ WaitForDispatchTurn(r) \/ TakeCatalogLane(r)
    \/ CatalogPre(r) \/ EnqueueTabletPart(r) \/ FinishDispatchTurn(r)
    \/ WaitForTabletPhase(r) \/ FinishApply(r) \/ MarkApplied(r)
    \/ RunPublishedHook(r) \/ ObservePublished(r) \/ MarkPublished(r)
    \/ FinishHooks(r) \/ WaitForPublished(r) \/ Park(r) \/ FailRecord(r)

TabletWorker(w) ==
    \/ DequeueTabletWork(w) \/ RunTabletPart(w) \/ FinishTabletDispatch(w)
    \/ CompleteTabletPart(w) \/ FailRecord(w)

Checkpoint == CaptureDurablePrefix \/ WaitForExactPrefix

Next ==
    \/ AppendBatch
    \/ \E r \in Requests : NoteDurable(r) \/ SubmitAsync(r) \/ SubmitSync(r)
    \/ DequeueAsyncSubmit
    \/ \E r \in Requests : Submission(r)
    \/ \E w \in Workers : TabletWorker(w)
    \/ Checkpoint

Spec == Init /\ [][Next]_vars

(* Every thread keeps running: the callers once their record is appended,   *)
(* the async submit worker and the tablet workers.  Appending and taking    *)
(* checkpoints is up to the callers.                                        *)
Fairness ==
    /\ \A r \in Requests :
          WF_vars(NoteDurable(r) \/ SubmitAsync(r) \/ SubmitSync(r) \/ Submission(r))
    /\ WF_vars(DequeueAsyncSubmit)
    /\ \A w \in Workers : WF_vars(TabletWorker(w))

FairSpec == Spec /\ Fairness

----------------------------------------------------------------------------
(* Properties. *)

Registered(r) == lsn[r] # 0

Done(r, t) == \E i \in DOMAIN partLog[t] : partLog[t][i] = lsn[r]

Hooked(r) == \E i \in DOMAIN hooked : hooked[i] = r

(* The publish frontier only passes records that were applied: each LSN     *)
(* below it is a registered record whose parts ran on all of its tablets    *)
(* without error, and nothing above it was published (mark_applied,         *)
(* advance_publish_frontiers_locked).                                       *)
PublishedIsApplied ==
    /\ \A l \in Recovered + 1 .. frontiers.published :
          \E r \in Requests :
             /\ lsn[r] = l /\ r \notin records
             /\ \A t \in Parts[r] : Done(r, t)
    /\ \A r \in Requests :
          published[r] \/ Hooked(r) => Registered(r) /\ lsn[r] <= frontiers.published

(* The parts for one tablet are applied in LSN order, and none is left out  *)
(* unless a part failed, whichever worker runs them (wait_for_dispatch_turn *)
(* with the tablet mailboxes).                                              *)
TabletsInOrder ==
    \A t \in Tablets :
       /\ \A i, j \in DOMAIN partLog[t] : i < j => partLog[t][i] < partLog[t][j]
       /\ \A q, r \in Requests :
             /\ Registered(q) /\ lsn[q] < lsn[r]
             /\ t \in Parts[q] /\ t \in Parts[r]
             /\ Done(r, t)
             => \/ Done(q, t)
                \/ poisoned
                \/ \E w \in Workers : ~worker[w].ok

(* Work in a mailbox is never forgotten and never run twice at a time: a    *)
(* tablet is scheduled_or_running exactly when it is once on the ready list *)
(* or in one worker's hands, and its mailbox is empty otherwise.            *)
MailboxScheduled ==
    \A t \in Tablets :
       LET onList == {i \in DOMAIN ready : ready[i] = t}
           inHand == {w \in Workers : /\ worker[w].tablet = t
                                      /\ worker[w].st \in {"run", "finish"}}
       IN  /\ Cardinality(onList) + Cardinality(inHand) =
                 (IF scheduled[t] THEN 1 ELSE 0)
           /\ mailbox[t] # <<>> => scheduled[t]

(* A submission that returned Ok is durable history: the hooks of all       *)
(* records up to its LSN have run, none of these records failed, and the    *)
(* checkpoint tracker has them in its prefix (run_published_hooks,          *)
(* record_published, wait_for_published).                                   *)
OkMeansPrefixPublished ==
    \A r \in Requests : answer[r] = "ok" =>
       /\ lsn[r] <= tracker.summary.lsn
       /\ \A q \in Requests : Registered(q) /\ lsn[q] <= lsn[r] =>
             Hooked(q) /\ ~partError[q]

LargestUpTo(S, l) ==
    LET below == {r \in S : Registered(r) /\ lsn[r] <= l}
    IN  IF below = {} THEN 0 ELSE CHOOSE r \in below : \A q \in below : q <= r

(* The cut a checkpoint gets is the summary of exactly the records up to    *)
(* the LSN that was durable when the checkpoint began, all of them applied, *)
(* whatever was published before the coordinator looked.                    *)
CutIsExact ==
    cut.st = "got" =>
       /\ cut.summary = IF cut.target = 0 THEN NoSummary
                        ELSE SummaryOf(cut.target, LargestUpTo(Commits, cut.target),
                                       LargestUpTo(Requests \ Commits, cut.target))
       /\ cut.target <= frontiers.published

(* Every durable record's submission returns (submit, or the completion of  *)
(* submit_async_with_completion).                                           *)
EverySubmitReturns ==
    \A r \in Requests : pc[r] = "durable" ~> pc[r] = "done"

(* Without a failing closure the runtime is never poisoned.                 *)
OnlyFailuresPoison == CanFail = {} => ~poisoned

(* With commits only, the runtime implements OrderedApply, what the commit  *)
(* pipeline relies on: the requests in the async queue and the one the      *)
(* worker is in are the abstract queue.                                     *)
Abstract == INSTANCE OrderedApply WITH
    queue  <- IF asyncCur = 0 THEN asyncQueue ELSE <<asyncCur>> \o asyncQueue,
    shown  <- {r \in Requests : Hooked(r)},
    answer <- answer,
    down   <- poisoned

ImplementsOrderedApply == Abstract!Spec
=============================================================================

# Verification of Paro's transactions

TLA+ specifications of the parts of Paro that decide what a transaction may do and
whether it is committed: the lock manager, serializable validation, the commit
pipeline from `commit_blocking` to the moment readers see the commit and the
session gets its answer, and the apply runtime that commits share with storage
maintenance and checkpoints. The modules are translated from `src/crates/`, checked
with TLC on small instances, and the invariants that matter most are proved with
TLAPS for every instance.

## 1. The system

Paro is a multi-model database in Rust. A commit passes through these parts
(paths under `src/crates/`):

| part | source | state | operations |
|---|---|---|---|
| session | `session/src/transaction/commit/` | the transaction being committed | prepare, `commit_blocking`, classify the error |
| commit queue | `transaction/src/commit/queue/` | entries, deferred entries, fence queue, closed flag, drain-owner flag | enqueue, acquire/release ownership, take a local buffer, park behind the fence, defer, close |
| commit runtime | `transaction/src/commit/runtime/mod.rs` | poison, admission | submit, drain, build a batch, sequence and append it, schedule it, handle errors, recover |
| completion registry | `transaction/src/commit/runtime/completion.rs` | one slot per commit | allocate, durable / submitted / published / rejected / failed / ambiguous, wait |
| sequencer | `transaction/src/commit/sequencer/` | next commit timestamp | accept, reject or defer each entry of a batch; advance the clock |
| durable append, journal, WAL | `transaction/src/commit/durable_append.rs`, `journal/src/{runtime,appender}.rs`, `journal/src/wal/` | the log | append a batch, fail for good, recover |
| finalize stage | `transaction/src/commit/finalize/`, `gate.rs` | queue of durable batches, registered timestamp, stage poison | schedule, register, submit for apply, fail |
| journal apply runtime | `journal/src/apply_queue.rs`, `instance/src/commit/live_publish.rs` | dispatch order, tablet queues, published prefix | register, dispatch, apply, publish, complete, fail |
| maintenance, checkpoint cut | `storage/src/durable_maintenance.rs`, `instance/src/checkpoint/runtime.rs` | pending completions, published-prefix summary | submit or drop a maintenance record, fold published records, capture a prefix |
| frontier | `transaction/src/commit/frontier.rs` | durable, published, first blocked timestamp | mark, wait |
| drain wake pool | `transaction/src/commit/drain_wake.rs` | tasks | signal, run a drain |
| lock manager | `transaction/src/lock_manager.rs`, `storage/src/transaction/txn.rs` | coarse table, hash shards, active count, epoch, lock sets | `lock_many`, escalate, release, roll back to a savepoint |
| serializable validation | `transaction/src/{ssi_validator,read_dependency_index,committed_txn_summary}.rs` | active read sets, summaries of committed transactions, marks, epochs | record reads, validate, fence, summarize, release |
| retention, active transactions | `transaction/src/{retention,active}.rs` | snapshots, floors | register, prune |
| checkpointing | `instance/src/checkpoint/` | manifests, artifacts, WAL floor | checkpoint, install, collect, recover |
| scheduler | `scheduler/src/` | tasks, events | schedule, finish, propagate errors |
| storage, catalog, query engine, server | the other crates | — | — |

How they interact: any thread that submits a commit may become the *drain owner*;
there is one at a time. The owner groups queued entries into a batch, the
sequencer gives the accepted ones consecutive commit timestamps, the journal
makes them durable, and the batch goes to the *finalize worker*, which registers
each commit's conflict information (so that later serializable commits see it)
and submits it to the *apply worker*, which makes it visible and moves the
published frontier. Submitter, owner, finalize worker and apply worker each update
the completion slot the submitter waits on. Any of them may fail; a failure
after the append *poisons* the runtime, because the commit is durable but its
effects are not in place.

Before that, the statements of a transaction take locks. Nobody waits for a lock: a
request that meets a conflicting holder fails. Exact resources (rows, keys, catalog
objects) live in hash shards, each under its own mutex; coarse ones (tables,
tablets, ranges) in one table under another. A serializable transaction records
what it reads in an index of active read sets; at commit it looks for read-write
conflicts in that index and in the summaries of committed transactions and leaves
marks on both sides. One that has both marks is aborted; the sequencer's fence
drops a plan whose marks changed since its validation.

What makes it hard: exclusion between lock tables that share no mutex, only a
counter and an epoch; a validation that visits its indexes one lock at a time
while others move from one to the next; in the pipeline, four kinds of thread updating one slot; ownership handed over
without a lock; entries put back on a queue another thread may have closed; a
serializable commit that must wait for registrations while snapshot commits
overtake it; and a failure at every stage that must still answer every waiter
truthfully. The list, with lines, is `hazards` in `PROJECT.json`.

## 2. The modules

| module | models | notes |
|---|---|---|
| `CommitTypes` | what is known of a transaction | serializable or snapshot, write set, ack policy |
| `CommitQueue` | `queue/mod.rs`, `queue/policy.rs` | one operator per critical section |
| `CommitCompletion` | `runtime/completion.rs` | operators from slot table to slot table |
| `CommitRuntime` | `runtime/mod.rs` with sequencer, append, finalize stage, gate, frontier, wake pool and the pipeline's view of apply | the composed state machine and its properties |
| `CommitService` | nothing in the code: what a session may rely on | the abstract specification `CommitRuntime` implements |
| `JournalApply` | `journal/src/apply_queue.rs`, `publish_frontier.rs`, with the callers in `durable_maintenance.rs` and the checkpoint coordinator | the apply runtime in detail |
| `PublishedPrefix` | `instance/src/checkpoint/runtime.rs` | operators from tracker to tracker |
| `OrderedApply` | nothing in the code: what the commit pipeline relies on | abstract specification; the apply worker of `CommitRuntime` takes its steps, `JournalApply` implements it for commits |
| `LockTypes` | resources, modes and conflicts of `lock_manager.rs` | pure operators |
| `LockManager` | the rest of `lock_manager.rs`, and the lock sets a transaction keeps | one step per critical section or access of the shared atomics |
| `SsiCommit` | `ssi_validator.rs`, `read_dependency_index.rs`, `committed_txn_summary.rs`, the fence and the finalize steps that touch them | the part of a commit that `CommitRuntime` leaves as an arbitrary verdict |
| `MCCommitRuntime`, `MCJournalApply`, `MCLockManager`, `MCSsiCommit` | — | constants for TLC |
| `CommitRuntimeTypes`, `CommitRuntimeProofs` | — | TLAPS: type correctness of the runtime; the pipeline invariant |
| `CommitAnswerProofs` | — | TLAPS: a commit is in one place at a time and in the journal at most once; what a submitter is told by which step |
| `CommitServiceProofs` | — | TLAPS: the order of the pipeline, the registration gate, and the refinement of `CommitService` |
| `LockInvariant`, `LockManagerProofs` | — | TLAPS: the invariant of the lock manager and what does not depend on the step; the steps, and the theorems |
| `SsiCommitProofs` | — | TLAPS: the invariant of serializable validation and its two theorems |

`map` in `PROJECT.json` gives the source lines of every definition.

### Correspondence

*State.* `entries`, `deferred`, `pendingFence`, `closed` are the fields of
`QueueState`; `drainOwner` is `drain_owner_active` together with who holds it.
`slot` is the registry's table, with a slot's commit timestamp as its second
field (the `commit_to_slot` map read backwards); `outcome` is what
`commit_blocking` returned. `local`, `batch`, `accepted` are local variables of
the drain owner in `drain_owned`, `process_entries` and `handle_append_success`;
`dpc`, `finPc`, `applyPc` and `pc` say where each thread is. `journal` is the set
of durable commit records. `reservation` follows each
`CommitFinalizeReservation`: held from the fence to the finalize worker, then
applied, released, or dropped.

*Steps.* A step is a stretch of code that no other thread can observe half-done:
a critical section, or several whose intermediate states only that thread reads.
Where the code leaves a window the model has two steps: health check / enqueue /
signal / drain in a submitter; taking an empty buffer / releasing ownership;
appending / marking durable / scheduling; poisoning the stage / calling the hook
/ telling the waiters; publishing / completing.

*Data.* A commit is a model value. Write sets are sets of resources, compared by
intersection. Byte sizes are abstract: where the code compares bytes or elapsed
time with a limit, both outcomes are allowed (`GrowOrAppend`, the `cut` of
`SequenceAppend`, `aged`, `DrainTurn`). The verdict of the SSI fence is an
arbitrary subset of the serializable entries of the batch.

*Faults* (`Faults`): a failed append (the appender then refuses everything), a
rollback that fails after a failed append, a panic in phase 1 of finalize, a panic
while the apply request is built, a failed apply. With `HasWal = FALSE` the journal
has no appender.

### The apply runtime

`JournalApply` starts where recovery ends (`bootstrap_frontiers`, observer bound).
A request is a record: request `r` has LSN `Recovered + r`, or, in a database without a
journal (`inMemory`, chosen at the start from `Modes`), the LSN registration gives it. `pc[r]` is the thread that submits it. For commits and for
dropped maintenance this is the one async submit worker, one request at a time
(`asyncQueue`, `asyncCur`); other maintenance has a thread of its own. `records`, `nextDispatch`,
`nextEphemeral`, `frontiers`, `applyFrontier`, `publishFrontier`, `poisoned` are
`ApplyRuntimeState`; `remaining`, `partError`, `published` are the ticket's
`RecordProgress`; `mailbox`, `scheduled`, `ready` are `TabletDispatchState`; `worker`
is what each tablet worker holds. `tracker` is the published-prefix tracker and
`cut` the checkpoint in progress. `partLog` and `hooked` are history.

A step is a critical section or a closure. A ticket's condition variable gets its
real discipline: a waiter tests and parks in two steps and holds the ticket's lock
in between (`HoldsTicket`), so `mark_published`, `complete_tablet_part` and `fail`
wait for it, while `notify_poison` does not. `dispatch_wake`, `async_submit_wake` and
`tablet_wake` are only signalled after their mutex was taken, so there a waiter is a
disabled action. `fail_record` is four steps for whoever calls it (`failing`):
poison, the failed ticket, each other ticket, return. `CanFail` says which closures
may fail: `catalog_pre`, a tablet part, the descriptor phase or `catalog_post`, the
publish hook.

### The lock manager

`holder[t][r]` is the `LockHolder` of transaction `t` on resource `r`, in whichever
table `r` belongs to; `activeCount` is `coarse_active_count`. `coarse_epoch` is only
compared for equality, so `moved` keeps the threads whose loaded value is out of
date. `grants` are the `GrantedLock` entries of a transaction's lock sets, numbered
by call; `dropping` are those a failed call, an escalation, a rollback to a
savepoint or the end of the transaction is releasing; `asked` is history: what the
calls that returned Ok were asked for. `cur`, `left` and `hit` belong to a coarse
grant between its insertion and the end of its scan of the shards. A step is a
critical section, or one access of the atomics outside of them: `Announce` is
separate from `CoarseInsert` but still under the mutex, `Retire` is after it.
A request names a resource as a record; `RangeS`, `RangeX` and `PredicateX` behave
as `S` and `X` everywhere and are not modes of their own. Whatever the reason, a
refused request is one outcome. The requests of a call are taken in any order.

### Serializable validation

`phase[t]` walks through the parts of `validate_commit`, each under locks of its own:
committed writes, committed reads, active readers, state, epoch; then queued, fenced,
durable, summarized, released and published. `state_epoch` is only compared: `moved`
and `bumped` say of a validated plan whether its own or the global epoch has passed
its `validation_epoch`, `overtaken` which plans were validated at a later one. `blind`
is history: the transactions whose commit a validation overlapped without a chance
to see it. `mark_write_conflicts` scans the shards of the read-set index one by one; the
model takes it as one step: whether a given reader is met is decided as in the code, but
a scan that meets one reader and misses an earlier one of another shard is not
covered. Widening a read set that exceeds its
memory budget is a step that may happen at any time to the transactions in
`MayCoarsen`. A batch is fenced one plan at a time; deferral and grouping are in
`CommitRuntime`.

## 3. Properties

`CommitService` is the contract: durable commits form one log with dense
positions; the log becomes visible in order; each submitter is answered once, and
the answer is right now and later: *rejected*, *failed append* and *not admitted*
mean the commit is not and never will be durable (the session discards staged data
on them, `commit_runtime_error_is_definitely_nondurable`); *published* means
visible; *failed apply* and *ambiguous* mean durable and never made visible by
this process.

| property | says |
|---|---|
| `TypeOK` | type invariant |
| `PipelineInv` | timestamps dense and unique; what is scheduled is durable; slots resolve to their own commit and say "published" only of visible ones; published <= durable < next |
| `ImplementsService` | refinement of `CommitService` |
| `SerializableSeesRegistered` | a batch with a serializable commit is sequenced only when all earlier durable commits are registered |
| `RegisteredIsPrefix` | the gate never passes an unregistered commit |
| `AmbiguousSeesPoison` | a waiter told "ambiguous" finds the finalize stage poisoned (without a WAL: the runtime) |
| `AckedIsOnItsWay` | an acknowledged asynchronous commit is visible, queued for apply, or covered by a reported publish failure |
| `DurableCommitCompletes` | a durable commit's waiter is always woken (liveness) |
| `ImplementsOrderedApply` | with commits only, `JournalApply` implements `OrderedApply` |
| `PublishedIsApplied` | the publish frontier passes only records whose parts all ran; nothing beyond it is published |
| `TabletsInOrder` | each tablet gets its parts in LSN order, without omission unless something failed |
| `MailboxScheduled` | a tablet is flagged exactly when it is once on the ready list or in one worker's hands |
| `OkMeansPrefixPublished` | a submission answered Ok has its whole prefix hooked, without failure, and in the tracker |
| `CutIsExact` | a checkpoint gets the summary of exactly the prefix it captured |
| `EverySubmitReturns` | the submission of a durable record returns (liveness) |
| `Exclusion` | what two transactions were told they hold never conflicts |
| `RangeExcludesKeys` | a range lock excludes the keys of every hash in it, also when it wraps past the largest one |
| `RefsBalanced` | a holder's count is the number of entries that will release it; the coarse count is the number of coarse holders |
| `KeptModes` | a lock still held is never left weaker than it was granted, although sets are dropped first to last and each restores the mode it found |
| `EveryCallReturns` | every `lock_many` and every release finishes (liveness): no circle among the mutexes |
| `WriteSkewNeedsOverlap` | two transactions that each read what the other overwrote both commit only if one validated inside a window in which the other could not be seen |
| `ReadsFindable` | what a transaction has read can be found by a later writer, in the active read sets or in the summaries, at every moment of its commit |
| `StableSnapshotBlocksWriters`, `Serializable` | what the documentation says of CREATE INDEX and of serializable transactions; both violated, see below |

## 4. Runs

Times with two workers.

| run | instance | distinct states | time |
|---|---|---|---|
| `GroupCommit` | 3 commits, 1 serializable, 2 conflicting, 1 asynchronous, batches of 2, finalize queue of 1 | 1,098,759 | 2 min |
| `CommitFaults` | 2 commits, 1 wake worker, all faults | 276,348 | 25 s |
| `DurableLiveness` | 2 commits, all faults, fair threads | 56,229 | 45 s |
| `LostDrainWake` | 2 commits, 1 wake worker, fair threads | violated | 20 s |
| `ApplyCommits` | 2 commits, 2 tablets, 2 tablet workers, 1 checkpoint, all faults, with and without a WAL, fair threads | 97,238 | 1 min |
| `ApplyMixed` | commit, maintenance, commit; 2 tablets, 2 workers, parts and hooks may fail, with and without a WAL | 382,618 | 30 s |
| `PublicationRace` | commit, maintenance, no fault | violated | seconds |
| `DroppedMaintenance` | commit, dropped maintenance, fair threads | violated | seconds |
| `LockExclusion` | 2 transactions with 3 and 1 calls; a table, a tablet, 2 rows, a key and a wrapping range in 2 shards; escalation at 2 rows, fair threads | 87,835 | 40 s |
| `LostIntent` | DROP INDEX then DML against CREATE INDEX | violated | seconds |
| `SsiSkew` | 3 serializable transactions, 2 of them in write skew, 1 read set that may be widened, savepoints | 1,881,602 | 1 min |
| `SsiWriteSkew` | 2 serializable transactions in write skew | violated | seconds |

*Why the bounds are enough.* Two commits make a batch, a fence with a
predecessor, a conflict, an entry deferred behind another and a queued batch
behind a failing one. Three make a serializable commit parked behind two others, a
snapshot commit overtaking it, and a second batch in the finalize queue while the
third is sequenced. `MaxWakeTasks` bounds the wake pool's queue: every task runs the
same drain, so further tasks only repeat an attempt; runs without wake workers use
0, since nobody would take a task. `LostDrainWake` uses 6, more than two commits
can leave behind, so that the bound never discards a task there. `GroupCommit`
has no wake worker: a wake worker adds drain owners that behave as submitters do,
and `CommitFaults` has one.
For the apply runtime, three records in a row from two threads are what it takes for
the frontier to wait at a gap and then pass several records at once, for hooks to
run on another thread than the record's own, and for one tablet to get parts from
two threads; two workers compete for its mailbox. `ApplyMixed` treats the two workers
as interchangeable (symmetry, invariants only). `Recovered` is 1 in `ApplyMixed`, so that
LSNs and request numbers differ. `MaxCuts` bounds the checkpoints: they
share nothing but the tracker's entries. `ApplyCommits` has the refinement and the
liveness property for commits only: with maintenance threads both fail, see below.
For the lock manager, a conflict is between two transactions, and only the steps of
these two matter to it; three calls of one of them are what it takes to hold, escalate and
lock the whole table, with a rollback to any point in between. The two rows are in
different shards, so that a scan can meet one and miss the other; 8 hashes suffice
for a range that wraps. `AbortOnFailure` is FALSE: the other setting ends an
escalation as a failed call, which the runs have anyway, and the proofs cover both.
What TLC cannot reach here, more transactions and resources, is proved (section 5).
For validation, two transactions make a mutual dependency, and the third gives the
marks a second source and a commit before or between the other two.
Deadlock is not checked: once every submitter has its answer the system stops.

*Fairness.* Weak fairness for each thread: a submitter that has called
`commit_blocking`, the wake workers, the drain owner, the finalize worker, the apply
worker are OS threads that are scheduled again and again; none waits for a lock that
is held for ever. In `JournalApply` likewise the callers whose record is appended, the
async submit worker and the tablet workers; in `LockManager` a thread inside
`lock_many` or a release (`Step`). No fairness for the decision to submit, to
append, to take a checkpoint, to call `lock_many` or to end a transaction.

### What the violated runs show

- `LostDrainWake`: between taking an empty buffer and releasing ownership
  (`runtime/mod.rs:527-530`) the owner does not look at the queue again. A commit
  enqueued in that window is left alone: its submitter saw an owner and left a wake
  task, the wake worker saw an owner and gave up. The commit waits until another
  one arrives.
- `PublicationRace`: the frontier moves under the lock, the hooks run after it. The
  thread of a maintenance record can reach the tracker before the thread of the
  preceding commit; the tracker refuses, and the runtime poisons itself.
- `DroppedMaintenance`: a dropped completion goes through the commits' queue, where it
  can be ahead of a commit with a smaller LSN; the worker waits for a turn that
  needs the request behind it.
- `LostIntent`: a holder keeps the stronger of two modes by a linear `strength`, in
  which `SchemaStability` is above `IX` although it excludes less. A transaction that
  drops an index and then writes to the table holds `SchemaStability` only, and
  another one's CREATE INDEX gets its `S` lock beside a writer.
- `SsiWriteSkew`: a transaction that has scanned the active read sets and has no
  summary yet is in neither of the places where another one's validation looks for
  its writes. If the other reads what it overwrites in that window and writes what
  it read, both commit. `WriteSkewNeedsOverlap` says that there is no other way.

## 5. Proofs

The commit runtime has four proof modules, each extending the one before. They hold
for every set of transactions, wake workers, limits and faults (only the assumptions
`TypesAssumption`, `QueueAssumption` and `RuntimeAssumption`, and `HasWal` where it is
named). `CommitRuntimeTypes` and `CommitRuntimeProofs` prove:

- `TypeCorrect`: `Spec => []TypeOK`. `TypeOK` is in groups that match the variable
  groups of the actions' `UNCHANGED` clauses, so that a step only argues about the
  groups it writes (lemma `Keeps`). Two facts in it are not types and are there
  because typing needs them: the batch grows only while entries are left, and the
  apply worker is busy only with a request.
- `PipelineCorrect`: `Spec => []PipelineInv`. `PipelineInv` together with `TypeOK`
  is inductive. The argument: only `SequenceAppend` gives out timestamps, and it
  extends the journal by exactly the next `k`; the frontier moves to `nextTs - 1`
  before the batch can be scheduled, so whatever is in flight is durable; a slot
  becomes "published" or "durable_done" only by the completion of a request whose
  transaction is visible. Steps that touch none of this are dismissed together
  (lemma `Quiet`).

`CommitAnswerProofs` proves `AmbiguousCorrect`: `Spec => []AmbiguousSeesPoison` and
`AckedCorrect`: `Spec => []AckedIsOnItsWay`. Neither is inductive: whether an answer
is still to come depends on where the commit is. The first layer, `Once`, says that a
commit waits in one place (the three queues, the local buffer, the batch), without
repetition, with a queued slot and no answer, and that the journal holds it at most
once and only after it has left them. `Fate(t, a)` is "the slot says `a`, or the submitter
has returned it"; for each answer there is a lemma on the steps that can give it
(`TellsPoisonedStep`, `AmbiguousStep`, `AckStep`). Together they are `AnswerInv`.

`CommitServiceProofs` proves, for a database with a WAL (`HasWal`):

- `RegistrationCorrect`: `HasWal => (Spec => []RegisteredIsPrefix)`.
- `SerializableCorrect`: `HasWal => (Spec => []SerializableSeesRegistered)`.
- `ServiceCorrect`: `HasWal => (Spec => ImplementsService)`: every step is a step of
  `CommitService` or a stutter. Only four kinds of steps are more than a stutter:
  `SequenceAppend` (`AppendImplements`), `ApplyPublish` (`PublishImplements`), a refusal at the
  door (`RefusalImplements`) and the end of a wait (`WaitImplements`).

The inductive invariant `ServiceInv` adds to `AnswerInv` four things. `OrderInv`: the batch
of the finalize worker comes before its queue, the queue before what was just appended,
and while the worker runs these are all durable commits beyond the gate; so the gate can
only move to the next timestamp (`CurrentIsNext`). `ReservationInv`: the current commit's
reservation is applied when the gate moves, and a batch with a serializable commit is
built only when the gate has reached the clock and stays there until the append. `ApplyInv`:
the apply queue continues the published frontier without a gap up to the last commit
submitted, until an apply fails; from then on nothing is published. `FateInv`: an ambiguous
commit is beyond the frontier and not in the apply queue, and will not get there; a failed one
is behind a worker that has stopped; an acknowledged one is durable. The last three are
what makes an answer true for ever, which `CommitService` demands and no single state
shows. They were model-checked on the instances of `CommitFaults` and `GroupCommit`
before they were proved.

`HasWal` is needed. Without a WAL a group of two is a protocol violation: its commits are
in the journal, reported ambiguous and never registered. An entry that the drain owner still
has in its local buffer is appended after them, alone, so without a violation, and is
registered above them.

`LockManagerProofs` (with `LockInvariant`) proves, for every finite set of
transactions and resources, any number of shards and calls, any threshold and either
failure action (only the assumption `LockAssumption`):

- `LockExclusion`: `Spec => []Exclusion`, if `ComparableModes`: no transaction asks for
  one resource in two modes neither of which covers the other (`IX` with `S` or with
  `SchemaStability`), and none asks for predicate locks. Both conditions are needed:
  without the first `LostIntent` is the counterexample; a predicate lock is not
  excluded by the tablet lock that rows were escalated to. No caller
  outside the tests asks for predicate locks; the first condition is broken by a
  transaction that mixes index statements and DML on one table.
- `LockRanges`: `Spec => []RangeExcludesKeys`, under the same condition: from `Exclusion`,
  because `hash_in_range`, with its two cases, is the comparison of two distances modulo
  the number of hashes (`RangeDistance`).
- `LockBalance`: `Spec => []RefsBalanced`, and `LockModesKept`: `Spec => []KeptModes`, without
  that condition.

The inductive invariant `IInv` has three layers. `BookAt` is the account of one
transaction and one resource: its holder counts the entries kept and the entries
being released, is as strong as each entry kept, and every remembered mode is as strong as the
entries kept of earlier calls; that is why releasing first to last, against the
order of the grants, never weakens a lock. `Control`, `ToDo` and `AskedHeld` tie a
thread's place in `lock_many` to what it holds, has still to ask for, and was told;
`StandsFor` says how an escalated tablet lock answers for its rows. `NoClash` is the
exclusion protocol: no two coarse entries conflict, no two fine ones do; a coarse
entry whose scan has visited a shard (`Settled`) conflicts with no entry of that shard
unless the scan has noticed (`hit`), nor with a fine batch that owns the shard and is
past its second test. The decisive step is `FineRecheck`: under the shard's mutex it
tests the coarse table unless the count is 0, and by `CountExact` a count of 0 means that
no coarse entry is settled (`SettledCounted`); a coarse entry that is not
will still visit this shard, and wait for its mutex. `FrameThread` and `ClashShrinks` carry
all of this over the steps of other threads and the steps that only give up locks.
`IInv` was model-checked on the instance of `LockExclusion` before it was proved. In these
modules a leaf that names no prover goes to Zenon (`USE`), which keeps the run short.

`SsiCommitProofs` proves, for every finite set of transactions, every set of items and
every choice of what is read and written (only the assumption `SsiAssumption`: no two
transactions write the same item, which the locks see to):

- `SsiReadsFindable`: `Spec => []ReadsFindable`. The invariant `ReadsInv` says which
  phases of a commit have an entry in the index, and that a started commit's read set is
  complete and frozen; the summary is there before `Release` takes the entry away.
- `SsiSkewNeedsOverlap`: `Spec => []WriteSkewNeedsOverlap`. For two transactions in write
  skew of which neither is in the other's `blind` set, `SkewInv` distinguishes how their
  validations lie. `After(t, u)`: `u` was summarized when `t` began, so that the two
  scans of the summaries give `t` both marks. `Abreast(t, u)`: each began before the other
  looked at the active read sets; the first to look marks the other `rw_conflict_out`,
  the second finds the first still indexed and has both marks before it reads them
  (`Doomed`). Only the three scans and the summary of one of the two can change this; every
  other step is `Steady` (lemma `Carry`). The fence plays no part in the argument.

The invariant was model-checked on the instance of `SsiSkew` before it was proved.

Only model-checked: all of `JournalApply`, with its refinement of `OrderedApply`. Liveness under fairness (`DurableCommitCompletes`
and the other `~>` properties) is out of the prover's reach and stays with TLC.

## 6. Not modelled

In the modelled parts: `recovery_replay`; the branches taken when a completion
callback itself panics (`fallback_ack`, `fatal_sink`); a runtime without a wake
handle (tests only), where the finalize worker drains inline; graceful and forced
shutdown of the finalize stage; a `DurableHandle` stage error and a refused submit,
which need a shut-down apply runtime; retained-byte limits and cleanup backpressure.
In the apply runtime: placeholders and gaps (called by recovery only), shutdown,
metrics, panics of a completion callback. `CommitRuntime` and `JournalApply` are not
composed: `CommitRuntime` relies on `OrderedApply`, which `JournalApply` is shown to
implement when only commits are submitted. With maintenance threads a commit that
was answered with an error because another record failed can still be published by
a thread that is running hooks; and a durable commit that a poisoned commit runtime
never submits leaves a gap that maintenance waits for. Both are in `hazards`.
Three behaviours the models have and no run is about: without a WAL every record has
LSN 0, so that the contiguity check takes a group of two commits for a protocol
violation and poisons the runtime (`HasWal = FALSE`); a poisoned finalize stage drops the
reservations of the batch it refuses (`reservation[t] = "dropped"`), against the
assertion in `job/reservation.rs:92-99`; a checkpoint whose prefix is already
published when it is captured gets no entry in the tracker, so that the next
publication makes it wait until its timeout.
Two more that TLC finds and no run keeps: `defer_entries` and `block_on_fence` ignore
`closed`, so that a drain owner can put entries back after `poison()` has emptied the
queue, and their waiters stay parked (`CommitRuntime`, 2 commits, phase 1 may panic);
`notify_poison` does not take the ticket's lock, so that a maintenance thread between
test and park misses it (`JournalApply`, commit and maintenance, parts may fail).
In the lock manager: namespaces (resources of different ones never conflict), the
wording of errors, metrics. In validation:
read-only and snapshot transactions, which the validator skips; the write-conflict index
(write sets of the model are disjoint: the locks see to that); pruning of summaries
below the retention floor; range and predicate dependencies, which the index
compares by overlap as items are here. `LockManager`, `SsiCommit` and `CommitRuntime` are
not composed: they share no state but the transaction's place in its commit.
The rest of the system is listed in `components` with the reason: crash recovery and
the WAL's file handling need a model of the disk, the retention floor one of the
readers; the storage engine, catalog and query engine are mostly sequential data
structures and transformations.

## 7. Plan

1. `JournalApply` with maintenance threads against a weaker abstract specification,
   and composed with a commit pipeline that stops submitting. Theorem: the
   published prefix contains only applied records.
2. `FrontierWait`: the condition variables of `frontier.rs` and `gate.rs`, with check
   and wait as separate steps. Liveness of waiters.
3. `JournalAppender`: group append, poison after a failed append, no LSN holes.
4. `CommitRecovery`: crash at any step, replay of the durable tail.
5. `Retention`: snapshot registration racing the floor, with the pruning of
   summaries added to `SsiCommit`, and `SsiReadsFindable` proved of it again.
6. `Checkpoint`: manifest install, WAL pruning, artifact collection, with crashes.
7. `Scheduler`: events and error propagation.
8. Proofs: the invariants of `JournalApply` (`TabletsInOrder`, `PublishedIsApplied`,
   `CutIsExact`) and its refinement of `OrderedApply`.

---------------------------- MODULE LockManager ----------------------------
(* The sharded multi-granularity lock manager                               *)
(* (transaction/src/lock_manager.rs) and the lock sets a transaction keeps  *)
(* (storage/src/transaction/txn.rs).  Exact resources live in hash shards,  *)
(* each under its own mutex; coarse ones in one table under another mutex.  *)
(* Nobody waits for a lock: a request that meets a conflicting holder       *)
(* fails.  Exclusion between the two tables rests on a protocol without a   *)
(* common mutex: a coarse request inserts its holder, announces it in       *)
(* coarse_active_count, and only then scans the shards one by one; a fine   *)
(* request tests the count again after it has locked its shard.             *)
(*                                                                          *)
(* A step is a critical section or an access of the shared atomics.  The    *)
(* epoch is compared for equality only, so it is kept as the set of the     *)
(* threads whose loaded value is out of date.  A transaction makes one call *)
(* at a time.                                                               *)
EXTENDS LockTypes, FiniteSets

CONSTANTS
    Txns,
    Resources,
    Shards,
    ShardIndex,     \* the shard of each resource that is not coarse
    Calls,          \* the request sets each transaction may pass to lock_many
    MaxCalls,       \* bound on the calls of each transaction
    Threshold,      \* row_id_escalation_threshold
    HashSpace,      \* number of key hashes, 2^64 in the code
    AbortOnFailure, \* lock_escalation_failure_action = Abort
    None

Requests == [res : Resources, mode : Modes]

FineResources == {r \in Resources : ~IsCoarse(r)}

ASSUME LockAssumption ==
    /\ IsFiniteSet(Txns) /\ IsFiniteSet(Resources)
    /\ None \notin Txns
    /\ Resources \subseteq [kind : Kinds, table : Nat, tablet : Nat, lo : Nat, hi : Nat]
    /\ \A r \in Resources : r.kind = "CatalogObject" => r.table = 0 /\ r.tablet = 0
    /\ \A r \in Resources : r.kind \in {"PrimaryKey", "Range"} =>
          r.lo < HashSpace /\ r.hi < HashSpace
    /\ ShardIndex \in [FineResources -> Shards]
    /\ Calls \in [Txns -> SUBSET SUBSET Requests]
    /\ \A t \in Txns : \A R \in Calls[t] : \A p, q \in R :
          p.res = q.res /\ Strength(p.mode) = Strength(q.mode) => p = q
    /\ MaxCalls \in [Txns -> Nat]
    /\ Threshold \in Nat \ {0}
    /\ HashSpace \in Nat \ {0}
    /\ AbortOnFailure \in BOOLEAN

VARIABLES
    holder,       \* LockHolder of each transaction and resource
    activeCount,  \* coarse_active_count
    moved,        \* threads whose coarse_epoch, as loaded, is out of date
    coarseLock,   \* owner of the coarse table's mutex
    shardLock,    \* owner of each shard's mutex
    pc,           \* where each transaction's thread is
    calls,        \* calls of lock_many so far
    asking,       \* the requests of the call in progress
    todo,         \* of them, normalized, those not granted yet
    cur,          \* the coarse grant in progress
    left,         \* shards its scan has not visited
    hit,          \* the scan has met a blocker
    removed,      \* the release in progress removed a coarse holder
    batch,        \* the shard of the fine batch in progress
    after,        \* where the thread resumes after a coarse grant or release
    grants,       \* GrantedLock entries of the lock sets in use
    dropping,     \* entries being released
    asked         \* what the calls that returned Ok asked for

table == <<holder, activeCount, moved, coarseLock, shardLock>>
thread == <<pc, calls, asking, todo, cur, left, hit, removed, batch, after>>
sets == <<grants, dropping, asked>>
vars == <<table, thread, sets>>

NoHolder == [mode |-> NoMode, refs |-> 0]
NoGrant == [call |-> 0, res |-> None, mode |-> NoMode, prev |-> NoMode]

Grant == [call : Nat \ {0}, res : Resources, mode : Modes, prev : Modes \cup {NoMode}]

TypeOK ==
    /\ holder \in [Txns -> [Resources -> [mode : Modes \cup {NoMode}, refs : Nat]]]
    /\ activeCount \in Int
    /\ moved \in SUBSET Txns
    /\ coarseLock \in Txns \cup {None}
    /\ shardLock \in [Shards -> Txns \cup {None}]
    /\ pc \in [Txns -> {"idle", "request", "announce", "scan", "fineCheck", "fineLock",
                        "fineRecheck", "fineGrant", "escalate", "drop", "retire", "done"}]
    /\ calls \in [Txns -> Nat]
    /\ asking \in [Txns -> SUBSET Requests]
    /\ todo \in [Txns -> SUBSET Requests]
    /\ cur \in [Txns -> Grant \cup {NoGrant}]
    /\ left \in [Txns -> SUBSET Shards]
    /\ hit \in [Txns -> BOOLEAN]
    /\ removed \in [Txns -> BOOLEAN]
    /\ batch \in [Txns -> Shards \cup {None}]
    /\ after \in [Txns -> {"idle", "request", "escalate", "done"}]
    /\ grants \in [Txns -> SUBSET Grant]
    /\ dropping \in [Txns -> SUBSET Grant]
    /\ asked \in [Txns -> SUBSET [call : Nat \ {0}, res : Resources, mode : Modes]]

Init ==
    /\ holder = [t \in Txns |-> [r \in Resources |-> NoHolder]]
    /\ activeCount = 0
    /\ moved = {}
    /\ coarseLock = None
    /\ shardLock = [s \in Shards |-> None]
    /\ pc = [t \in Txns |-> "idle"]
    /\ calls = [t \in Txns |-> 0]
    /\ asking = [t \in Txns |-> {}]
    /\ todo = [t \in Txns |-> {}]
    /\ cur = [t \in Txns |-> NoGrant]
    /\ left = [t \in Txns |-> {}]
    /\ hit = [t \in Txns |-> FALSE]
    /\ removed = [t \in Txns |-> FALSE]
    /\ batch = [t \in Txns |-> None]
    /\ after = [t \in Txns |-> "idle"]
    /\ grants = [t \in Txns |-> {}]
    /\ dropping = [t \in Txns |-> {}]
    /\ asked = [t \in Txns |-> {}]

-----------------------------------------------------------------------------
(* LockTableShard *)

Holds(u, r) == holder[u][r].refs > 0

\* Some other transaction's holder among the resources S conflicts with q.
Blocked(t, q, S) ==
    \E u \in Txns \ {t}, r \in S :
        Holds(u, r) /\ GrantsConflict(r, holder[u][r].mode, q.res, q.mode)

\* LockTableShard::grant: one holder per transaction and resource, counted.
GrantHolder(h, m) ==
    IF h.refs = 0
    THEN [mode |-> m, refs |-> 1]
    ELSE [mode |-> Strongest(h.mode, m), refs |-> h.refs + 1]

\* LockTableShard::release: the mode before the grant comes back.
ReleaseHolder(h, prev) ==
    IF h.refs > 1
    THEN [mode |-> IF prev # NoMode THEN prev ELSE h.mode, refs |-> h.refs - 1]
    ELSE NoHolder

CoarseResources == Resources \ FineResources

ShardResources(s) == {r \in FineResources : ShardIndex[r] = s}

\* coarse_epoch.fetch_add(1): every value loaded so far is out of date.
BumpEpoch == moved' = moved \cup {u \in Txns : pc[u] \in {"fineCheck", "fineLock", "fineRecheck"}}

\* The entries of the call in progress.
ThisCall(t) == {g \in grants[t] : g.call = calls[t]}

\* Release the entries D and go on at p: release_locks, or a TxnLockSet's drop.
StartDrop(t, D, p) ==
    /\ dropping' = [dropping EXCEPT ![t] = D]
    /\ after' = [after EXCEPT ![t] = p]
    /\ pc' = [pc EXCEPT ![t] = IF D = {} THEN p ELSE "drop"]

\* lock_many returns Err: what the call was granted is released.
FailCall(t, extra) ==
    /\ grants' = [grants EXCEPT ![t] = @ \ ThisCall(t)]
    /\ StartDrop(t, ThisCall(t) \cup extra, "idle")
    /\ todo' = [todo EXCEPT ![t] = {}]
    /\ asking' = [asking EXCEPT ![t] = {}]

-----------------------------------------------------------------------------

\* A statement calls lock_many with the requests R.
Call(t, R) ==
    /\ pc[t] = "idle" /\ calls[t] < MaxCalls[t]
    /\ calls' = [calls EXCEPT ![t] = @ + 1]
    /\ asking' = [asking EXCEPT ![t] = R]
    /\ todo' = [todo EXCEPT ![t] = Normalize(R)]
    /\ pc' = [pc EXCEPT ![t] = "request"]
    /\ UNCHANGED <<table, sets, cur, left, hit, removed, batch, after>>

(* try_grant_coarse, for a request or for an escalation.  The requests of a *)
(* call are taken in any order, of which the code's is one.                 *)

\* blockers, then grant, under the coarse mutex, which is kept until the
\* holder is announced.
CoarseInsert(t, q) ==
    /\ pc[t] \in {"request", "escalate"} /\ q \in todo[t] /\ IsCoarse(q.res)
    /\ coarseLock = None
    /\ ~Blocked(t, q, CoarseResources)
    /\ holder' = [holder EXCEPT ![t][q.res] = GrantHolder(@, q.mode)]
    /\ cur' = [cur EXCEPT ![t] = [call |-> calls[t], res |-> q.res, mode |-> q.mode,
                                  prev |-> holder[t][q.res].mode]]
    /\ coarseLock' = t
    /\ todo' = [todo EXCEPT ![t] = @ \ {q}]
    /\ after' = [after EXCEPT ![t] = pc[t]]
    /\ pc' = [pc EXCEPT ![t] = "announce"]
    /\ UNCHANGED <<activeCount, moved, shardLock, calls, asking, left, hit, removed, batch, sets>>

\* A conflicting holder in the coarse table: the call fails, or the
\* escalation is given up.
CoarseBlocked(t, q) ==
    /\ pc[t] \in {"request", "escalate"} /\ q \in todo[t] /\ IsCoarse(q.res)
    /\ coarseLock = None
    /\ Blocked(t, q, CoarseResources)
    /\ \/ /\ pc[t] = "request" \/ AbortOnFailure
          /\ FailCall(t, {})
       \/ /\ pc[t] = "escalate" /\ ~AbortOnFailure
          /\ todo' = [todo EXCEPT ![t] = @ \ {q}]
          /\ UNCHANGED <<pc, asking, after, grants, dropping>>
    /\ UNCHANGED <<table, calls, cur, left, hit, removed, batch, asked>>

\* The coarse mutex is kept for the scan.
MUAnnounce(t) ==
    /\ pc[t] = "announce"
    /\ activeCount' = IF cur[t].prev = NoMode THEN activeCount + 1 ELSE activeCount
    /\ BumpEpoch
    /\ left' = [left EXCEPT ![t] = Shards]
    /\ hit' = [hit EXCEPT ![t] = FALSE]
    /\ pc' = [pc EXCEPT ![t] = "scan"]
    /\ UNCHANGED <<coarseLock, holder, shardLock, calls, asking, todo, cur, removed,
                   batch, after, sets>>

\* coarse_active_count and coarse_epoch move, the mutex is released.
Announce(t) ==
    /\ pc[t] = "announce"
    /\ activeCount' = IF cur[t].prev = NoMode THEN activeCount + 1 ELSE activeCount
    /\ BumpEpoch
    /\ coarseLock' = None
    /\ left' = [left EXCEPT ![t] = Shards]
    /\ hit' = [hit EXCEPT ![t] = FALSE]
    /\ pc' = [pc EXCEPT ![t] = "scan"]
    /\ UNCHANGED <<holder, shardLock, calls, asking, todo, cur, removed, batch, after, sets>>

\* fine_blockers, one shard mutex at a time.
Scan(t, s) ==
    /\ pc[t] = "scan" /\ s \in left[t] /\ shardLock[s] = None
    /\ hit' = [hit EXCEPT ![t] = @ \/ Blocked(t, cur[t], ShardResources(s))]
    /\ left' = [left EXCEPT ![t] = @ \ {s}]
    /\ UNCHANGED <<table, sets, pc, calls, asking, todo, cur, removed, batch, after>>

\* No blocker: the entry joins the lock set.  An escalation then releases the
\* exact locks of its tablet that this call was granted.
CoarseGranted(t) ==
    /\ pc[t] = "scan" /\ left[t] = {} /\ ~hit[t]
    /\ LET fine == IF after[t] = "escalate"
                   THEN {g \in ThisCall(t) : /\ g.res.kind \in {"PrimaryKey", "RowId"}
                                             /\ SameTablet(g.res, cur[t].res)}
                   ELSE {}
       IN  /\ grants' = [grants EXCEPT ![t] = (@ \ fine) \cup {cur[t]}]
           /\ StartDrop(t, fine, after[t])
    /\ cur' = [cur EXCEPT ![t] = NoGrant]
    /\ UNCHANGED <<table, calls, asking, todo, left, hit, removed, batch, asked>>

\* Blockers: release_coarse_lock, and the call fails or, for an escalation
\* under KeepFineGrained, goes on.
CoarseRefused(t) ==
    /\ pc[t] = "scan" /\ left[t] = {} /\ hit[t]
    /\ IF after[t] = "request" \/ AbortOnFailure
       THEN FailCall(t, {cur[t]})
       ELSE StartDrop(t, {cur[t]}, after[t]) /\ UNCHANGED <<grants, todo, asking>>
    /\ cur' = [cur EXCEPT ![t] = NoGrant]
    /\ hit' = [hit EXCEPT ![t] = FALSE]
    /\ UNCHANGED <<table, calls, left, removed, batch, asked>>

-----------------------------------------------------------------------------
(* try_grant_fine_batch, after the coarse requests, one batch per shard. *)

Batch(t) == {q \in todo[t] : ShardIndex[q.res] = batch[t]}

\* coarse_blockers_many: nothing is looked at while the count is 0.
CoarseBlockers(t) ==
    activeCount # 0 /\ \E q \in Batch(t) : Blocked(t, q, CoarseResources)

\* Load coarse_epoch.
FineLoad(t, s) ==
    /\ pc[t] = "request" /\ todo[t] # {}
    /\ \A q \in todo[t] : ~IsCoarse(q.res)
    /\ \E q \in todo[t] : ShardIndex[q.res] = s
    /\ batch' = [batch EXCEPT ![t] = s]
    /\ moved' = moved \ {t}
    /\ pc' = [pc EXCEPT ![t] = "fineCheck"]
    /\ UNCHANGED <<holder, activeCount, coarseLock, shardLock, calls, asking, todo,
                   cur, left, hit, removed, after, sets>>

\* The first test of the coarse table, before the shard is locked.
FineCheck(t) ==
    /\ pc[t] = "fineCheck"
    /\ activeCount # 0 => coarseLock = None
    /\ IF CoarseBlockers(t)
       THEN FailCall(t, {})
       ELSE pc' = [pc EXCEPT ![t] = "fineLock"] /\ UNCHANGED <<todo, asking, after, grants, dropping>>
    /\ UNCHANGED <<table, calls, cur, left, hit, removed, batch, asked>>

\* Lock the shard.
FineLock(t) ==
    /\ pc[t] = "fineLock" /\ shardLock[batch[t]] = None
    /\ shardLock' = [shardLock EXCEPT ![batch[t]] = t]
    /\ pc' = [pc EXCEPT ![t] = "fineRecheck"]
    /\ UNCHANGED <<holder, activeCount, moved, coarseLock, calls, asking, todo, cur, left, hit,
                   removed, batch, after, sets>>

\* The coarse table is not tested again once the shard is locked.
MUFineRecheck(t) ==
    /\ pc[t] = "fineRecheck"
    /\ pc' = [pc EXCEPT ![t] = "fineGrant"]
    /\ UNCHANGED <<table, sets, calls, asking, todo, cur, left, hit, removed, batch, after>>

\* Under the shard's mutex, test again if the epoch moved or a coarse lock is
\* held, which takes the coarse mutex too.
FineRecheck(t) ==
    /\ pc[t] = "fineRecheck"
    /\ activeCount # 0 => coarseLock = None
    /\ IF (t \in moved \/ activeCount > 0) /\ CoarseBlockers(t)
       THEN FailCall(t, {}) /\ shardLock' = [shardLock EXCEPT ![batch[t]] = None]
       ELSE /\ pc' = [pc EXCEPT ![t] = "fineGrant"]
            /\ UNCHANGED <<shardLock, todo, asking, after, grants, dropping>>
    /\ moved' = moved \ {t}
    /\ UNCHANGED <<holder, activeCount, coarseLock, calls, cur, left, hit, removed, batch, asked>>

\* Exact blockers in the shard, or every request of the batch is granted.
FineGrant(t) ==
    /\ pc[t] = "fineGrant"
    /\ IF \E q \in Batch(t) : Blocked(t, q, {q.res})
       THEN FailCall(t, {}) /\ UNCHANGED holder
       ELSE /\ holder' = [holder EXCEPT ![t] = [r \in Resources |->
                             IF \E q \in Batch(t) : q.res = r
                             THEN GrantHolder(@[r], (CHOOSE q \in Batch(t) : q.res = r).mode)
                             ELSE @[r]]]
            /\ grants' = [grants EXCEPT ![t] = @ \cup
                             {[call |-> calls[t], res |-> q.res, mode |-> q.mode,
                               prev |-> holder[t][q.res].mode] : q \in Batch(t)}]
            /\ todo' = [todo EXCEPT ![t] = @ \ Batch(t)]
            /\ pc' = [pc EXCEPT ![t] = "request"]
            /\ UNCHANGED <<asking, after, dropping>>
    /\ shardLock' = [shardLock EXCEPT ![batch[t]] = None]
    /\ batch' = [batch EXCEPT ![t] = None]
    /\ UNCHANGED <<activeCount, moved, coarseLock, calls, cur, left, hit, removed, asked>>

-----------------------------------------------------------------------------
(* try_escalate *)

\* The tablets of which this call locked Threshold rows or more and which it
\* does not lock as a whole.
Escalations(t) ==
    {r \in Resources :
        /\ r.kind = "Tablet"
        /\ Cardinality({g \in ThisCall(t) : g.res.kind = "RowId" /\ SameTablet(g.res, r)})
              >= Threshold
        /\ \A g \in ThisCall(t) : g.res # r}

AllGranted(t) ==
    /\ pc[t] = "request" /\ todo[t] = {}
    /\ todo' = [todo EXCEPT ![t] = {[res |-> r, mode |-> "X"] : r \in Escalations(t)}]
    /\ pc' = [pc EXCEPT ![t] = "escalate"]
    /\ UNCHANGED <<table, sets, calls, asking, cur, left, hit, removed, batch, after>>

\* lock_many returns the lock set and the transaction keeps it.
Return(t) ==
    /\ pc[t] = "escalate" /\ todo[t] = {}
    /\ asked' = [asked EXCEPT ![t] = @ \cup
                   {[call |-> calls[t], res |-> q.res, mode |-> q.mode] : q \in asking[t]}]
    /\ asking' = [asking EXCEPT ![t] = {}]
    /\ pc' = [pc EXCEPT ![t] = "idle"]
    /\ UNCHANGED <<table, calls, todo, cur, left, hit, removed, batch, after, grants, dropping>>

-----------------------------------------------------------------------------
(* Releasing.  Lock sets are dropped first to last. *)

\* One entry leaves its table, under that table's mutex.
Drop(t, g) ==
    /\ pc[t] = "drop" /\ g \in dropping[t]
    /\ \A d \in dropping[t] : g.call <= d.call
    /\ IF IsCoarse(g.res) THEN coarseLock = None ELSE shardLock[ShardIndex[g.res]] = None
    /\ holder' = [holder EXCEPT ![t][g.res] = ReleaseHolder(@, g.prev)]
    /\ dropping' = [dropping EXCEPT ![t] = @ \ {g}]
    /\ removed' = [removed EXCEPT ![t] = IsCoarse(g.res) /\ holder[t][g.res].refs = 1]
    /\ pc' = [pc EXCEPT ![t] = IF IsCoarse(g.res) THEN "retire"
                               ELSE IF dropping'[t] = {} THEN after[t] ELSE "drop"]
    /\ UNCHANGED <<activeCount, moved, coarseLock, shardLock, calls, asking, todo,
                   cur, left, hit, batch, after, grants, asked>>

\* The count is lowered whether or not the holder is gone.
MURetire(t) ==
    /\ pc[t] = "retire"
    /\ activeCount' = activeCount - 1
    /\ BumpEpoch
    /\ removed' = [removed EXCEPT ![t] = FALSE]
    /\ pc' = [pc EXCEPT ![t] = IF dropping[t] = {} THEN after[t] ELSE "drop"]
    /\ UNCHANGED <<holder, coarseLock, shardLock, calls, asking, todo, cur, left,
                   hit, batch, after, sets>>

\* release_coarse_lock, after the mutex: the count, if the holder is gone, and
\* the epoch.
Retire(t) ==
    /\ pc[t] = "retire"
    /\ activeCount' = IF removed[t] THEN activeCount - 1 ELSE activeCount
    /\ BumpEpoch
    /\ removed' = [removed EXCEPT ![t] = FALSE]
    /\ pc' = [pc EXCEPT ![t] = IF dropping[t] = {} THEN after[t] ELSE "drop"]
    /\ UNCHANGED <<holder, coarseLock, shardLock, calls, asking, todo, cur, left,
                   hit, batch, after, sets>>

\* rollback_to_savepoint: the lock sets pushed since call n are dropped.
RollbackToSavepoint(t, n) ==
    /\ pc[t] = "idle"
    /\ grants' = [grants EXCEPT ![t] = {g \in @ : g.call <= n}]
    /\ asked' = [asked EXCEPT ![t] = {a \in @ : a.call <= n}]
    /\ StartDrop(t, {g \in grants[t] : g.call > n}, "idle")
    /\ dropping'[t] # {}
    /\ UNCHANGED <<table, calls, asking, todo, cur, left, hit, removed, batch>>

\* release_transaction_locks, at commit or abort.
End(t) ==
    /\ pc[t] = "idle"
    /\ grants' = [grants EXCEPT ![t] = {}]
    /\ asked' = [asked EXCEPT ![t] = {}]
    /\ StartDrop(t, grants[t], "done")
    /\ UNCHANGED <<table, calls, asking, todo, cur, left, hit, removed, batch>>

-----------------------------------------------------------------------------
(* What the callers ask for, of which exclusion depends. *)

\* The modes in which t may ask for r, escalations included.
ModesOf(t, r) ==
    {m \in Modes : \E R \in Calls[t] : [res |-> r, mode |-> m] \in R}
        \cup (IF r.kind = "Tablet" THEN {"X"} ELSE {})

\* Mode m conflicts with whatever mode n conflicts with.
Covers(m, n) ==
    /\ m \in IntentModes => n \in IntentModes
    /\ \A k \in Modes : CompatibleWith(m, k) => CompatibleWith(n, k)

\* No transaction asks for one resource in two modes neither of which covers
\* the other (IX and S, IX and SchemaStability), and none asks for predicates.
ComparableModes ==
    /\ \A t \in Txns, r \in Resources : \A m, n \in ModesOf(t, r) :
          Strength(m) >= Strength(n) => Covers(m, n)
    /\ \A r \in Resources : r.kind # "Predicate"

-----------------------------------------------------------------------------

Step(t) ==
    \/ \E q \in todo[t] : CoarseInsert(t, q) \/ CoarseBlocked(t, q)
    \/ Announce(t)
    \/ \E s \in Shards : Scan(t, s)
    \/ CoarseGranted(t) \/ CoarseRefused(t)
    \/ \E s \in Shards : FineLoad(t, s)
    \/ FineCheck(t) \/ FineLock(t) \/ FineRecheck(t) \/ FineGrant(t)
    \/ AllGranted(t) \/ Return(t)
    \/ \E g \in dropping[t] : Drop(t, g)
    \/ Retire(t)

Next ==
    \E t \in Txns :
        \/ \E R \in Calls[t] : Call(t, R)
        \/ Step(t)
        \/ \E n \in 0 .. calls[t] : RollbackToSavepoint(t, n)
        \/ End(t)

Spec == Init /\ [][Next]_vars

\* A thread inside the lock manager keeps running.
LiveSpec == Spec /\ \A t \in Txns : WF_vars(Step(t))

-----------------------------------------------------------------------------

\* What two transactions were told they hold never conflicts: whichever of
\* them asked at the coarse and whichever at the fine level, in whatever order
\* their calls, escalations, refusals, rollbacks to savepoints and releases
\* interleave (try_grant_coarse, try_grant_fine_batch, try_escalate).
Exclusion ==
    \A t, u \in Txns : t # u =>
        \A a \in asked[t], b \in asked[u] :
            ~GrantsConflict(a.res, a.mode, b.res, b.mode)

\* A range lock excludes the key locks of every hash from its start up to its
\* end, in u64 arithmetic: a range that wraps past the largest hash included
\* (hash_in_range).
RangeExcludesKeys ==
    \A t, u \in Txns : t # u =>
        \A a \in asked[t], b \in asked[u] :
            /\ a.res.kind = "Range" /\ a.mode = "X" /\ b.res.kind = "PrimaryKey"
            /\ SameTablet(a.res, b.res)
            => (b.res.lo - a.res.lo) % HashSpace > (a.res.hi - a.res.lo) % HashSpace

\* The locks of one transaction whose release is still to come.
Live(t) == grants[t] \cup dropping[t] \cup ({cur[t]} \ {NoGrant})

\* Coarse holders counted in coarse_active_count: inserted and announced, or
\* removed and not yet subtracted.
Counted ==
    {x \in Txns \X CoarseResources :
        /\ Holds(x[1], x[2])
        /\ ~(pc[x[1]] = "announce" /\ cur[x[1]].res = x[2] /\ cur[x[1]].prev = NoMode)}

Retiring == {t \in Txns : pc[t] = "retire" /\ removed[t]}

\* No holder is leaked or removed early: ref_count is the number of entries
\* still to be released, and coarse_active_count the number of coarse holders,
\* failed calls and partial scans included (grant, release,
\* release_coarse_lock).
RefsBalanced ==
    /\ \A t \in Txns, r \in Resources :
          holder[t][r].refs = Cardinality({g \in Live(t) : g.res = r})
    /\ activeCount = Cardinality(Counted) + Cardinality(Retiring)

\* A lock a transaction still holds is never left weaker than it was granted,
\* although sets are dropped first to last and each restores the mode it found
\* (rollback_to_savepoint, LockTableShard::release).
KeptModes ==
    \A t \in Txns : \A g \in grants[t] :
        Holds(t, g.res) /\ Strength(holder[t][g.res].mode) >= Strength(g.mode)

\* A transaction that holds a table in mode S, as a non-concurrent CREATE INDEX
\* does, blocks every writer of that table until it ends
\* (context/src/txn_admission.rs, lock_requests of CREATE INDEX).
StableSnapshotBlocksWriters ==
    \A t, u \in Txns : t # u =>
        \A a \in asked[t], b \in asked[u] :
            ~(a.res = b.res /\ a.res.kind = "Table" /\ a.mode = "S" /\ b.mode = "IX")

\* Every lock_many and every release finishes: the shard and coarse mutexes
\* are never waited for in a circle.
EveryCallReturns ==
    \A t \in Txns : pc[t] = "request" ~> pc[t] = "idle"
=============================================================================

------------------------- MODULE LockManagerProofs --------------------------
(* Every step of the lock manager preserves the invariant of LockInvariant: *)
(* first the steps that add no lock another transaction could conflict      *)
(* with, then those that grant a lock or test for blockers.  The theorems:  *)
(* for any number of transactions, resources and shards, conflicting locks  *)
(* are excluded, and no lock is leaked or weakened.                         *)
EXTENDS LockInvariant

\* A leaf that names no prover goes to Zenon; SMT does the arithmetic, and the
\* records and sets of records.
USE ZenonT(100)

\* lock_many starts.
LEMMA CallInv ==
    ASSUME IInv, NEW t \in Txns, NEW R \in Calls[t], Call(t, R)
    PROVE  IInv'
<1>1. TypeOK /\ TypeOK' /\ ThreadInv(t) /\ ShardOwned /\ CountExact
  BY CallType DEF IInv
<1>2. \A u \in Txns \ {t} : Same(u)
  BY <1>1 DEF Call, Same, TypeOK, table, sets
<1>3. /\ pc[t] = "idle" /\ pc'[t] = "request" /\ calls'[t] = calls[t] + 1
      /\ asking'[t] = R /\ todo'[t] = Normalize(R) /\ holder' = holder
      /\ grants' = grants /\ dropping' = dropping /\ asked' = asked /\ cur' = cur
      /\ activeCount' = activeCount /\ shardLock' = shardLock
  BY <1>1 DEF Call, TypeOK, table, sets
<1>4. cur[t] = NoGrant /\ dropping[t] = {} /\ calls[t] \in Nat
  BY <1>1, <1>3 DEF ThreadInv, Control, TypeOK
<1>5. Kept(t)' = Kept(t) /\ Kept(t) = grants[t]
  BY <1>3, <1>4 DEF Kept
<1>6. Requesting(t)' /\ ~Escalating(t)'
  BY <1>3 DEF Requesting, Escalating
<1>7. Books(t)'
  BY <1>1, <1>3, <1>5, BooksSame DEF ThreadInv
<1>8. \A g \in grants[t] : g.call \in Nat /\ g.call <= calls[t]
  BY <1>1, SMTT(20) DEF TypeOK, Grant, ThreadInv, Control
<1>9. Control(t)'
  BY <1>3, <1>4, <1>8, SMTT(20) DEF Control
<1>10. R \in SUBSET Requests /\ Normalize(R) \subseteq R
  BY LockAssumption DEF Normalize
<1>11. \A q \in R : q.mode \in ModesOf(t, q.res)
  BY <1>10, SMTT(20) DEF ModesOf, Requests
<1>12. ToDo(t)'
  <2>1. \A q, p \in Normalize(R) : q.res = p.res => q = p
    <3> SUFFICES ASSUME NEW q \in Normalize(R), NEW p \in Normalize(R), q.res = p.res
                 PROVE  q = p
      OBVIOUS
    <3>1. Strength(p.mode) <= Strength(q.mode) /\ Strength(q.mode) <= Strength(p.mode)
      BY DEF Normalize
    <3>2. Strength(p.mode) \in Int /\ Strength(q.mode) \in Int
      BY <1>10, StrengthRange, SMTT(20) DEF Requests
    <3>3. Strength(p.mode) = Strength(q.mode)
      BY <3>1, <3>2, SMTT(20)
    <3> QED
      BY <1>10, <3>3, LockAssumption
  <2>2. \A g \in Kept(t)' \cup dropping'[t] : g.call # calls'[t]
    BY <1>3, <1>4, <1>5, <1>8, SMTT(20)
  <2> QED
    BY <1>3, <1>6, <1>10, <1>11, <2>1, <2>2, SMTT(20) DEF ToDo
<1>13. AskedHeld(t)'
  <2>1. \A a \in asked[t] : a.call \in Nat /\ a.call <= calls[t]
    BY <1>1, SMTT(20) DEF ThreadInv, AskedHeld, TypeOK
  <2>2. \A q \in R : \E p \in Normalize(R) : p.res = q.res /\ StandsFor(p, q)
    BY <1>10, NormalizeCovers DEF StandsFor
  <2>3. \A a \in asked[t] : /\ a.mode \in ModesOf(t, a.res)
                            /\ \E g \in grants[t] : g.call = a.call /\ StandsFor(g, a)
    BY <1>1 DEF ThreadInv, AskedHeld
  <2> QED
    BY <1>3, <1>4, <1>6, <1>11, <2>1, <2>2, <2>3, SMTT(20) DEF AskedHeld
<1>14. ShardOwned'
  BY <1>1, <1>2, <1>3, ShardStill
<1>15. CountExact'
  BY <1>1, <1>2, <1>3, CountStill
<1>16. Shrinks(t)
  BY <1>1, <1>3, <1>4, QuietShrinks
<1> QED
  BY <1>1, <1>2, <1>7, <1>9, <1>12, <1>13, <1>14, <1>15, <1>16, OneThread DEF ThreadInv

\* A coarse request meets a holder of the coarse table.
LEMMA CoarseBlockedInv ==
    ASSUME IInv, NEW t \in Txns, NEW q \in todo[t], CoarseBlocked(t, q)
    PROVE  IInv'
<1>1. TypeOK /\ TypeOK' /\ ThreadInv(t) /\ ShardOwned /\ CountExact
  BY CoarseBlockedType DEF IInv
<1>2. \A u \in Txns \ {t} : Same(u)
  BY <1>1, SMTT(20) DEF CoarseBlocked, FailCall, StartDrop, Same, TypeOK, table
<1>3. /\ pc[t] \in {"request", "escalate"} /\ holder' = holder /\ asked' = asked
      /\ cur' = cur /\ calls' = calls /\ activeCount' = activeCount /\ shardLock' = shardLock
  BY DEF CoarseBlocked, table
<1>4. cur[t] = NoGrant /\ dropping[t] = {} /\ (Requesting(t) \/ Escalating(t))
  BY <1>1, <1>3 DEF ThreadInv, Control, Requesting, Escalating
<1>5. ThreadInv(t)' /\ Shrinks(t) /\ pc'[t] \in {"idle", "drop", "escalate"}
  <2>1. CASE FailCall(t, {})
    <3>1. {cur[t]} \ {NoGrant} = {}
      BY <1>4
    <3> QED
      BY <1>1, <1>3, <1>4, <2>1, <3>1, FailThread
  <2>2. CASE /\ pc[t] = "escalate" /\ todo' = [todo EXCEPT ![t] = @ \ {q}]
             /\ UNCHANGED <<pc, asking, after, grants, dropping>>
    <3>1. todo'[t] \subseteq todo[t]
      BY <1>1, <2>2 DEF TypeOK
    <3>2. Kept(t)' = Kept(t)
      BY <1>3, <2>2 DEF Kept
    <3>3. /\ Escalating(t)' /\ Escalating(t)
          /\ ~Requesting(t)' /\ ~Requesting(t)
      BY <2>2 DEF Requesting, Escalating
    <3>4. Books(t)'
      BY <1>1, <1>3, <2>2, <3>2, BooksSame DEF ThreadInv
    <3>5. Control(t)'
      BY <1>1, <1>3, <2>2, <3>1, <3>3 DEF ThreadInv, Control
    <3>6. ToDo(t)'
      BY <1>1, <1>3, <2>2, <3>1, <3>2, <3>3 DEF ThreadInv, ToDo
    <3>7. AskedHeld(t)'
      BY <1>1, <1>3, <2>2, <3>3 DEF ThreadInv, AskedHeld
    <3>8. Shrinks(t)
      BY <1>1, <1>3, <1>4, <2>2, QuietShrinks
    <3> QED
      BY <2>2, <3>4, <3>5, <3>6, <3>7, <3>8 DEF ThreadInv
  <2> QED
    BY <2>1, <2>2 DEF CoarseBlocked
<1>6. ShardOwned'
  BY <1>1, <1>2, <1>3, <1>5, ShardStill
<1>7. CountExact'
  BY <1>1, <1>2, <1>3, <1>5, CountStill
<1> QED
  BY <1>1, <1>2, <1>5, <1>6, <1>7, OneThread

\* A fine batch proceeds: nothing of the thread changes but where it is.
LEMMA BatchThread ==
    ASSUME NEW t \in Txns, ThreadInv(t),
           pc[t] \in {"request", "fineCheck", "fineLock", "fineRecheck"},
           pc'[t] \in {"fineCheck", "fineLock", "fineRecheck", "fineGrant"},
           batch'[t] \in Shards, \A q \in todo[t] : ~IsCoarse(q.res),
           holder'[t] = holder[t], calls'[t] = calls[t], asking'[t] = asking[t],
           todo'[t] = todo[t], cur'[t] = cur[t], after'[t] = after[t], grants'[t] = grants[t],
           dropping'[t] = dropping[t], asked'[t] = asked[t]
    PROVE  ThreadInv(t)' /\ cur[t] = NoGrant
<1>1. cur[t] = NoGrant /\ dropping[t] = {}
  BY DEF ThreadInv, Control
<1>2. Kept(t)' = Kept(t)
  BY DEF Kept
<1>3. Requesting(t) /\ Requesting(t)' /\ ~Escalating(t) /\ ~Escalating(t)'
  BY DEF Requesting, Escalating
<1>4. Books(t)'
  BY <1>2, BooksSame DEF ThreadInv
<1>5. Control(t)'
  BY <1>1, <1>3 DEF ThreadInv, Control
<1>6. ToDo(t)'
  BY <1>2, <1>3 DEF ThreadInv, ToDo
<1>7. AskedHeld(t)'
  BY <1>2, <1>3 DEF ThreadInv, AskedHeld
<1> QED
  BY <1>1, <1>4, <1>5, <1>6, <1>7 DEF ThreadInv

\* A fine batch loads the epoch.
LEMMA FineLoadInv ==
    ASSUME IInv, NEW t \in Txns, NEW s \in Shards, FineLoad(t, s)
    PROVE  IInv'
<1>1. TypeOK /\ TypeOK' /\ ThreadInv(t) /\ ShardOwned /\ CountExact
  BY FineLoadType DEF IInv
<1>2. \A u \in Txns \ {t} : Same(u)
  BY <1>1 DEF FineLoad, Same, TypeOK, sets
<1>3. /\ pc[t] = "request" /\ pc'[t] = "fineCheck" /\ batch'[t] = s
      /\ \A q \in todo[t] : ~IsCoarse(q.res)
      /\ UNCHANGED <<holder, activeCount, shardLock, calls, asking, todo, cur, after,
                     grants, dropping, asked>>
  BY <1>1 DEF FineLoad, TypeOK, sets
<1>4. ThreadInv(t)' /\ cur[t] = NoGrant
  BY <1>1, <1>3, BatchThread
<1>5. ShardOwned'
  BY <1>1, <1>2, <1>3, ShardStill
<1>6. CountExact'
  BY <1>1, <1>2, <1>3, CountStill
<1>7. Shrinks(t)
  BY <1>1, <1>3, <1>4, QuietShrinks
<1> QED
  BY <1>1, <1>2, <1>4, <1>5, <1>6, <1>7, OneThread

\* A fine batch tests the coarse table before it locks its shard.
LEMMA FineCheckInv ==
    ASSUME IInv, NEW t \in Txns, FineCheck(t)
    PROVE  IInv'
<1>1. TypeOK /\ TypeOK' /\ ThreadInv(t) /\ ShardOwned /\ CountExact
  BY FineCheckType DEF IInv
<1>2. \A u \in Txns \ {t} : Same(u)
  BY <1>1, SMTT(20) DEF FineCheck, FailCall, StartDrop, Same, TypeOK, table
<1>3. /\ pc[t] = "fineCheck"
      /\ UNCHANGED <<holder, activeCount, shardLock, calls, cur, batch, asked>>
  BY DEF FineCheck, table
<1>4. /\ cur[t] = NoGrant /\ Requesting(t)
      /\ batch[t] \in Shards /\ \A q \in todo[t] : ~IsCoarse(q.res)
  BY <1>1, <1>3 DEF ThreadInv, Control, Requesting
<1>5. ThreadInv(t)' /\ Shrinks(t) /\ pc'[t] \in {"idle", "drop", "fineLock"}
  <2>1. CASE FailCall(t, {})
    <3>1. {cur[t]} \ {NoGrant} = {}
      BY <1>4
    <3> QED
      BY <1>1, <1>3, <1>4, <2>1, <3>1, FailThread
  <2>2. CASE /\ pc' = [pc EXCEPT ![t] = "fineLock"]
             /\ UNCHANGED <<todo, asking, after, grants, dropping>>
    <3>1. pc'[t] = "fineLock"
      BY <1>1, <2>2 DEF TypeOK
    <3>2. ThreadInv(t)'
      BY <1>1, <1>3, <1>4, <2>2, <3>1, BatchThread
    <3>3. Shrinks(t)
      BY <1>1, <1>3, <1>4, <2>2, <3>1, QuietShrinks
    <3> QED
      BY <3>1, <3>2, <3>3
  <2> QED
    BY <2>1, <2>2 DEF FineCheck
<1>6. ShardOwned'
  BY <1>1, <1>2, <1>3, <1>5, ShardStill
<1>7. CountExact'
  BY <1>1, <1>2, <1>3, <1>5, CountStill
<1> QED
  BY <1>1, <1>2, <1>5, <1>6, <1>7, OneThread

\* A fine batch locks its shard.
LEMMA FineLockInv ==
    ASSUME IInv, NEW t \in Txns, FineLock(t)
    PROVE  IInv'
<1>1. TypeOK /\ TypeOK' /\ ThreadInv(t) /\ ShardOwned /\ CountExact
  BY FineLockType DEF IInv
<1>2. \A u \in Txns \ {t} : Same(u)
  BY <1>1 DEF FineLock, Same, TypeOK, sets
<1>3. /\ pc[t] = "fineLock" /\ pc'[t] = "fineRecheck"
      /\ shardLock[batch[t]] = None /\ shardLock' = [shardLock EXCEPT ![batch[t]] = t]
      /\ UNCHANGED <<holder, activeCount, calls, asking, todo, cur, batch, after,
                     grants, dropping, asked>>
  BY <1>1 DEF FineLock, TypeOK, sets
<1>4. batch[t] \in Shards /\ \A q \in todo[t] : ~IsCoarse(q.res)
  BY <1>1, <1>3 DEF ThreadInv, Control
<1>5. ThreadInv(t)' /\ cur[t] = NoGrant
  BY <1>1, <1>3, <1>4, BatchThread
<1>6. ShardOwned'
  <2> SUFFICES ASSUME NEW u \in Txns, pc'[u] \in {"fineRecheck", "fineGrant"}
               PROVE  shardLock'[batch'[u]] = u
    BY DEF ShardOwned
  <2>1. CASE u = t
    BY <1>1, <1>3, <1>4, <2>1 DEF TypeOK
  <2>2. CASE u # t
    <3>1. pc[u] \in {"fineRecheck", "fineGrant"} /\ batch'[u] = batch[u]
      BY <1>2, <2>2 DEF Same
    <3>2. shardLock[batch[u]] = u /\ u # None
      BY <1>1, <3>1, LockAssumption DEF ShardOwned
    <3> QED
      BY <1>1, <1>3, <3>1, <3>2, SMTT(20) DEF TypeOK
  <2> QED
    BY <2>1, <2>2
<1>7. CountExact'
  BY <1>1, <1>2, <1>3, CountStill
<1>8. Shrinks(t)
  BY <1>1, <1>3, <1>5, QuietShrinks
<1> QED
  BY <1>1, <1>2, <1>5, <1>6, <1>7, <1>8, OneThread

\* Every request is granted, and the call looks for tablets to escalate.
LEMMA AllGrantedInv ==
    ASSUME IInv, NEW t \in Txns, AllGranted(t)
    PROVE  IInv'
<1>1. TypeOK /\ TypeOK' /\ ThreadInv(t) /\ ShardOwned /\ CountExact
  BY AllGrantedType DEF IInv
<1>2. \A u \in Txns \ {t} : Same(u)
  BY <1>1 DEF AllGranted, Same, TypeOK, table, sets
<1>3. /\ pc[t] = "request" /\ pc'[t] = "escalate" /\ todo[t] = {}
      /\ todo'[t] = {[res |-> r, mode |-> "X"] : r \in Escalations(t)}
      /\ UNCHANGED <<holder, activeCount, shardLock, calls, asking, cur, batch, after,
                     grants, dropping, asked>>
  BY <1>1 DEF AllGranted, TypeOK, table, sets
<1>4. cur[t] = NoGrant /\ dropping[t] = {}
  BY <1>1, <1>3 DEF ThreadInv, Control
<1>5. Kept(t)' = Kept(t) /\ Kept(t) = grants[t]
  BY <1>3, <1>4 DEF Kept
<1>6. Requesting(t) /\ ~Requesting(t)' /\ ~Escalating(t) /\ Escalating(t)'
  BY <1>3 DEF Requesting, Escalating
<1>7. Books(t)'
  BY <1>1, <1>3, <1>5, BooksSame DEF ThreadInv
<1>8. Control(t)'
  BY <1>1, <1>3, <1>4, <1>6 DEF ThreadInv, Control
<1>9. ToDo(t)'
  <2>1. ASSUME NEW q \in todo'[t]
        PROVE  /\ q.res.kind = "Tablet" /\ q.mode = "X" /\ q.mode \in ModesOf(t, q.res)
               /\ \A g \in grants[t] : g.call = calls[t] => g.res # q.res
               /\ q = [res |-> q.res, mode |-> "X"]
    <3>1. PICK r \in Escalations(t) : q = [res |-> r, mode |-> "X"]
      BY <1>3
    <3>2. r.kind = "Tablet" /\ \A g \in ThisCall(t) : g.res # r
      BY DEF Escalations
    <3> QED
      BY <3>1, <3>2 DEF ModesOf, ThisCall, Modes
  <2>2. \A q, p \in todo'[t] : q.res = p.res => q = p
    BY <2>1
  <2> QED
    BY <1>3, <1>4, <1>5, <2>1, <2>2 DEF ToDo
<1>10. AskedHeld(t)'
  BY <1>1, <1>3, <1>5, <1>6 DEF ThreadInv, AskedHeld
<1>11. ShardOwned'
  BY <1>1, <1>2, <1>3, ShardStill
<1>12. CountExact'
  BY <1>1, <1>2, <1>3, CountStill
<1>13. Shrinks(t)
  BY <1>1, <1>3, <1>4, QuietShrinks
<1> QED
  BY <1>1, <1>2, <1>7, <1>8, <1>9, <1>10, <1>11, <1>12, <1>13, OneThread DEF ThreadInv

\* lock_many returns its lock set.
LEMMA ReturnInv ==
    ASSUME IInv, NEW t \in Txns, Return(t)
    PROVE  IInv'
<1>1. TypeOK /\ ThreadInv(t) /\ ShardOwned /\ CountExact /\ pc[t] = "escalate"
  BY DEF IInv, Return
<1>2. cur[t] = NoGrant /\ dropping[t] = {} /\ calls[t] # 0 /\ calls[t] \in Nat
  BY <1>1 DEF ThreadInv, Control, Escalating, TypeOK
<1>3. TypeOK'
  BY <1>1, <1>2, ReturnType
<1>4. \A u \in Txns \ {t} : Same(u)
  BY <1>1 DEF Return, Same, TypeOK, table
<1>5. /\ pc'[t] = "idle" /\ asking'[t] = {} /\ todo[t] = {}
      /\ asked'[t] = asked[t] \cup
            {[call |-> calls[t], res |-> q.res, mode |-> q.mode] : q \in asking[t]}
      /\ UNCHANGED <<holder, activeCount, shardLock, calls, todo, cur, batch, after,
                     grants, dropping>>
  BY <1>1 DEF Return, TypeOK, table
<1>6. Kept(t)' = Kept(t)
  BY <1>5 DEF Kept
<1>7. Escalating(t) /\ ~Requesting(t)' /\ ~Escalating(t)'
  BY <1>1, <1>5 DEF Requesting, Escalating
<1>8. Books(t)'
  BY <1>1, <1>5, <1>6, BooksSame DEF ThreadInv
<1>9. Control(t)'
  BY <1>1, <1>2, <1>5, <1>7 DEF ThreadInv, Control
<1>10. ToDo(t)'
  BY <1>5 DEF ToDo
<1>11. AskedHeld(t)'
  <2>1. ASSUME NEW a \in asked'[t]
        PROVE  /\ a.mode \in ModesOf(t, a.res) /\ a.call <= calls[t]
               /\ \E g \in grants[t] : g.call = a.call /\ StandsFor(g, a)
    <3>1. CASE a \in asked[t]
      BY <1>1, <3>1 DEF ThreadInv, AskedHeld
    <3>2. CASE a \notin asked[t]
      <4>1. PICK q \in asking[t] : a = [call |-> calls[t], res |-> q.res, mode |-> q.mode]
        BY <1>5, <3>2
      <4>2. /\ q.mode \in ModesOf(t, q.res)
            /\ \E g \in grants[t] : g.call = calls[t] /\ StandsFor(g, q)
        BY <1>1, <1>7 DEF ThreadInv, AskedHeld
      <4>3. \A g : StandsFor(g, q) => StandsFor(g, a)
        BY <4>1 DEF StandsFor
      <4> QED
        BY <1>2, <4>1, <4>2, <4>3, SMTT(20)
    <3> QED
      BY <3>1, <3>2
  <2> QED
    BY <1>5, <1>7, <2>1 DEF AskedHeld
<1>12. ShardOwned'
  BY <1>1, <1>4, <1>5, ShardStill
<1>13. CountExact'
  BY <1>1, <1>4, <1>5, CountStill
<1>14. Shrinks(t)
  BY <1>1, <1>2, <1>5, QuietShrinks
<1> QED
  BY <1>3, <1>4, <1>8, <1>9, <1>10, <1>11, <1>12, <1>13, <1>14, OneThread DEF ThreadInv

\* Outside lock_many the entries of the calls after n are marked for release.
LEMMA ReleaseThread ==
    ASSUME TypeOK, NEW t \in Txns, ThreadInv(t), pc[t] = "idle", NEW n \in Nat,
           grants'[t] = {g \in grants[t] : g.call <= n},
           asked'[t] = {a \in asked[t] : a.call <= n},
           NEW p \in {"idle", "done"}, after'[t] = p,
           dropping'[t] = {g \in grants[t] : g.call > n},
           pc'[t] = IF dropping'[t] = {} THEN p ELSE "drop",
           holder'[t] = holder[t], calls'[t] = calls[t], asking'[t] = asking[t],
           todo'[t] = todo[t], cur'[t] = cur[t]
    PROVE  ThreadInv(t)' /\ Shrinks(t)
<1>1. cur[t] = NoGrant /\ dropping[t] = {}
  BY DEF ThreadInv, Control
<1>2. Kept(t) = grants[t] /\ Kept(t)' = grants'[t]
  BY <1>1 DEF Kept
<1>3. \A g \in grants[t] : g.call \in Nat /\ g.call <= calls[t]
  BY SMTT(20) DEF TypeOK, Grant, ThreadInv, Control
<1>4. /\ ~Requesting(t) /\ ~Requesting(t)'
      /\ ~Escalating(t) /\ ~Escalating(t)'
  BY DEF Requesting, Escalating
<1>5. Books(t)'
  <2>1. Kept(t)' \cup dropping'[t] = Kept(t)
    BY <1>2, <1>3, SMTT(20)
  <2>2. \A g \in dropping'[t], k \in Kept(t)' : k.call < g.call
    BY <1>2, <1>3, SMTT(20)
  <2> QED
    BY <1>1, <2>1, <2>2, BooksMove DEF ThreadInv
<1>6. Control(t)'
  BY <1>1, <1>3, <1>4 DEF Control
<1>7. ToDo(t)'
  BY <1>1, <1>2, <1>4, SMTT(20) DEF ThreadInv, ToDo
<1>8. AskedHeld(t)'
  BY <1>4 DEF ThreadInv, AskedHeld
<1>9. Shrinks(t)
  BY <1>1, QuietShrinks
<1> QED
  BY <1>5, <1>6, <1>7, <1>8, <1>9 DEF ThreadInv

\* rollback_to_savepoint starts to release the later lock sets.
LEMMA RollbackInv ==
    ASSUME IInv, NEW t \in Txns, NEW n \in 0 .. calls[t], RollbackToSavepoint(t, n)
    PROVE  IInv'
<1>1. TypeOK /\ TypeOK' /\ ThreadInv(t) /\ ShardOwned /\ CountExact
  BY RollbackType DEF IInv
<1>2. \A u \in Txns \ {t} : Same(u)
  BY <1>1 DEF RollbackToSavepoint, StartDrop, Same, TypeOK, table
<1>3. /\ pc[t] = "idle" /\ n \in Nat
      /\ grants'[t] = {g \in grants[t] : g.call <= n}
      /\ asked'[t] = {a \in asked[t] : a.call <= n}
      /\ dropping'[t] = {g \in grants[t] : g.call > n} /\ after'[t] = "idle"
      /\ pc'[t] = IF dropping'[t] = {} THEN "idle" ELSE "drop"
      /\ UNCHANGED <<holder, activeCount, shardLock, calls, asking, todo, cur, batch>>
  BY <1>1, SMTT(20) DEF RollbackToSavepoint, StartDrop, TypeOK, table
<1>4. ThreadInv(t)' /\ Shrinks(t)
  BY <1>1, <1>3, ReleaseThread
<1>5. ShardOwned'
  BY <1>1, <1>2, <1>3, ShardStill
<1>6. CountExact'
  BY <1>1, <1>2, <1>3, CountStill
<1> QED
  BY <1>1, <1>2, <1>4, <1>5, <1>6, OneThread

\* The transaction ends and starts to release all its locks.
LEMMA EndInv ==
    ASSUME IInv, NEW t \in Txns, End(t)
    PROVE  IInv'
<1>1. TypeOK /\ TypeOK' /\ ThreadInv(t) /\ ShardOwned /\ CountExact
  BY EndType DEF IInv
<1>2. \A u \in Txns \ {t} : Same(u)
  BY <1>1 DEF End, StartDrop, Same, TypeOK, table
<1>3. /\ pc[t] = "idle" /\ grants'[t] = {} /\ asked'[t] = {}
      /\ dropping'[t] = grants[t] /\ after'[t] = "done"
      /\ pc'[t] = IF dropping'[t] = {} THEN "done" ELSE "drop"
      /\ UNCHANGED <<holder, activeCount, shardLock, calls, asking, todo, cur, batch>>
  BY <1>1 DEF End, StartDrop, TypeOK, table
<1>4. /\ \A g \in grants[t] : g.call \in Nat /\ g.call > 0
      /\ \A a \in asked[t] : a.call \in Nat /\ a.call > 0
  BY <1>1, SMTT(20) DEF TypeOK, Grant
<1>5. /\ grants'[t] = {g \in grants[t] : g.call <= 0}
      /\ asked'[t] = {a \in asked[t] : a.call <= 0}
      /\ dropping'[t] = {g \in grants[t] : g.call > 0}
  BY <1>3, <1>4, SMTT(20)
<1>6. ThreadInv(t)' /\ Shrinks(t)
  BY <1>1, <1>3, <1>5, ReleaseThread
<1>7. ShardOwned'
  BY <1>1, <1>2, <1>3, ShardStill
<1>8. CountExact'
  BY <1>1, <1>2, <1>3, CountStill
<1> QED
  BY <1>1, <1>2, <1>6, <1>7, <1>8, OneThread

\* active_count counts finite sets.
LEMMA CountsFinite ==
    /\ IsFiniteSet(Counted) /\ IsFiniteSet(Retiring)
    /\ Cardinality(Counted) \in Nat /\ Cardinality(Retiring) \in Nat
<1>1. CoarseResources \in SUBSET Resources
  BY DEF CoarseResources
<1>2. IsFiniteSet(Txns) /\ IsFiniteSet(CoarseResources)
  BY <1>1, LockAssumption, FS_Subset
<1>3. IsFiniteSet(Txns \X CoarseResources)
  BY <1>2, FS_Product
<1>4. Counted \in SUBSET (Txns \X CoarseResources) /\ Retiring \in SUBSET Txns
  BY DEF Counted, Retiring
<1>5. IsFiniteSet(Counted) /\ IsFiniteSet(Retiring)
  BY <1>2, <1>3, <1>4, FS_Subset
<1> QED
  BY <1>5, FS_CardinalityType

\* A release that removed a coarse holder lowers the count.
LEMMA RetireInv ==
    ASSUME IInv, NEW t \in Txns, Retire(t)
    PROVE  IInv'
<1>1. TypeOK /\ TypeOK' /\ ThreadInv(t) /\ ShardOwned /\ CountExact
  BY RetireType DEF IInv
<1>2. \A u \in Txns \ {t} : Same(u)
  BY <1>1 DEF Retire, Same, TypeOK, sets
<1>3. /\ pc[t] = "retire" /\ removed'[t] = FALSE
      /\ pc'[t] = IF dropping[t] = {} THEN after[t] ELSE "drop"
      /\ activeCount' = IF removed[t] THEN activeCount - 1 ELSE activeCount
      /\ UNCHANGED <<holder, shardLock, calls, asking, todo, cur, batch, after,
                     grants, dropping, asked>>
  BY <1>1 DEF Retire, TypeOK, sets
<1>4. /\ cur[t] = NoGrant /\ after[t] \in {"idle", "escalate", "done"}
      /\ pc'[t] \in {"idle", "escalate", "done", "drop"}
  BY <1>1, <1>3 DEF ThreadInv, Control, TypeOK
<1>5. Kept(t)' = Kept(t)
  BY <1>3 DEF Kept
<1>6. /\ ~Requesting(t) /\ ~Requesting(t)'
      /\ Escalating(t) <=> Escalating(t)'
  BY <1>3, <1>4 DEF Requesting, Escalating
<1>7. Books(t)'
  BY <1>1, <1>3, <1>5, BooksSame DEF ThreadInv
<1>8. Control(t)'
  BY <1>1, <1>3, <1>4, <1>6 DEF ThreadInv, Control
<1>9. ToDo(t)'
  BY <1>1, <1>3, <1>5, <1>6 DEF ThreadInv, ToDo
<1>10. AskedHeld(t)'
  BY <1>1, <1>3, <1>6 DEF ThreadInv, AskedHeld
<1>11. ShardOwned'
  BY <1>1, <1>2, <1>3, <1>4, ShardStill
<1>12. CountExact'
  <2>1. ASSUME NEW x \in Txns \X CoarseResources
        PROVE  /\ Holds(x[1], x[2])' <=> Holds(x[1], x[2])
               /\ (pc'[x[1]] = "announce" /\ cur'[x[1]].res = x[2] /\ cur'[x[1]].prev = NoMode)
                  <=> (pc[x[1]] = "announce" /\ cur[x[1]].res = x[2] /\ cur[x[1]].prev = NoMode)
    BY <1>2, <1>3, <1>4 DEF Same, Holds
  <2>2. Counted' = Counted
    BY <2>1 DEF Counted, CoarseResources, FineResources
  <2>3. Retiring' = Retiring \ {t} /\ (t \in Retiring <=> removed[t])
    BY <1>2, <1>3, <1>4 DEF Same, Retiring
  <2>4. Cardinality(Retiring') = IF removed[t] THEN Cardinality(Retiring) - 1
                                 ELSE Cardinality(Retiring)
    BY <2>3, CountsFinite, FS_RemoveElement
  <2> QED
    BY <1>1, <1>3, <2>2, <2>4, CountsFinite, SMTT(20) DEF CountExact
<1>13. Shrinks(t)
  BY <1>1, <1>3, <1>4, QuietShrinks
<1> QED
  BY <1>1, <1>2, <1>7, <1>8, <1>9, <1>10, <1>11, <1>12, <1>13, OneThread DEF ThreadInv

\* A release takes back one entry.
LEMMA DropInv ==
    ASSUME IInv, NEW t \in Txns, NEW g \in dropping[t], Drop(t, g)
    PROVE  IInv'
<1>1. TypeOK /\ TypeOK' /\ ThreadInv(t) /\ ShardOwned /\ CountExact
  BY DropType DEF IInv
<1>2. \A u \in Txns \ {t} : Same(u)
  BY <1>1 DEF Drop, Same, TypeOK
<1>3. g \in Grant /\ g.res \in Resources
  BY <1>1, SMTT(20) DEF TypeOK, Grant
<1>4. /\ pc[t] = "drop" /\ dropping'[t] = dropping[t] \ {g}
      /\ holder'[t] = [holder[t] EXCEPT ![g.res] = ReleaseHolder(@, g.prev)]
      /\ removed'[t] = (IsCoarse(g.res) /\ holder[t][g.res].refs = 1)
      /\ pc'[t] = IF IsCoarse(g.res) THEN "retire"
                  ELSE IF dropping'[t] = {} THEN after[t] ELSE "drop"
      /\ UNCHANGED <<activeCount, shardLock, calls, asking, todo, cur, batch, after,
                     grants, asked>>
  BY <1>1 DEF Drop, TypeOK
<1>5. /\ cur[t] = NoGrant /\ after[t] \in {"idle", "escalate", "done"}
      /\ pc'[t] \in {"idle", "escalate", "done", "drop", "retire"}
  BY <1>1, <1>4 DEF ThreadInv, Control, TypeOK
<1>6. Kept(t)' = Kept(t)
  BY <1>4 DEF Kept
<1>7. /\ ~Requesting(t) /\ ~Requesting(t)'
      /\ Escalating(t) <=> Escalating(t)'
  BY <1>4, <1>5 DEF Requesting, Escalating
<1>8. /\ \A r \in Resources \ {g.res} : holder'[t][r] = holder[t][r]
      /\ holder'[t][g.res] = ReleaseHolder(holder[t][g.res], g.prev)
  BY <1>1, <1>3, <1>4 DEF TypeOK
<1>9. Books(t)'
  <2> SUFFICES ASSUME NEW r \in Resources
               PROVE  BookAt(t, r, holder'[t][r], At(Kept(t), r), At(dropping'[t], r))
    BY <1>6 DEF Books
  <2>1. BookAt(t, r, holder[t][r], At(Kept(t), r), At(dropping[t], r))
    BY <1>1 DEF ThreadInv, Books
  <2>2. CASE r = g.res
    <3>1. g \in At(dropping[t], r) /\ At(dropping'[t], r) = At(dropping[t], r) \ {g}
      BY <1>4, <2>2 DEF At
    <3> QED
      <4>1. BookAt(t, r, ReleaseHolder(holder[t][r], g.prev), At(Kept(t), r), At(dropping[t], r) \ {g})
        BY <2>1, <3>1, BookRelease
      <4> QED
        BY <1>8, <2>2, <3>1, <4>1
  <2>3. CASE r # g.res
    <3>1. At(dropping'[t], r) = At(dropping[t], r)
      BY <1>4, <2>3 DEF At
    <3> QED
      BY <1>8, <2>1, <2>3, <3>1
  <2> QED
    BY <2>2, <2>3
<1>10. Control(t)'
  BY <1>1, <1>4, <1>5, <1>7 DEF ThreadInv, Control
<1>11. ToDo(t)'
  BY <1>1, <1>4, <1>6, <1>7 DEF ThreadInv, ToDo
<1>12. AskedHeld(t)'
  BY <1>1, <1>4, <1>7 DEF ThreadInv, AskedHeld
<1>13. ShardOwned'
  BY <1>1, <1>2, <1>4, <1>5, ShardStill
<1>14. CountExact'
  <2>1. CASE ~IsCoarse(g.res)
    <3>1. \A r \in CoarseResources : holder'[t][r] = holder[t][r]
      BY <1>8, <2>1 DEF CoarseResources, FineResources
    <3>2. pc'[t] # "retire"
      BY <1>4, <1>5, <2>1
    <3> QED
      BY <1>1, <1>2, <1>4, <1>5, <3>1, <3>2, CountStill
  <2>2. CASE IsCoarse(g.res)
    <3> DEFINE y == <<t, g.res>>
    <3>1. /\ holder[t][g.res].refs \in Nat /\ holder[t][g.res].refs # 0
          /\ holder'[t][g.res].refs = holder[t][g.res].refs - 1
      <4>1. BookAt(t, g.res, holder[t][g.res], At(Kept(t), g.res), At(dropping[t], g.res))
        BY <1>1, <1>3 DEF ThreadInv, Books
      <4>2. g \in At(Kept(t), g.res) \cup At(dropping[t], g.res)
        BY DEF At
      <4>3. holder[t][g.res].refs \in Nat /\ holder[t][g.res].refs # 0
        BY <4>1, <4>2, FS_EmptySet DEF BookAt
      <4> QED
        BY <1>8, <4>3, SMTT(20) DEF ReleaseHolder, NoHolder
    <3>2. y \in Txns \X CoarseResources /\ y \in Counted
      BY <1>3, <1>4, <2>2, <3>1, SMTT(20) DEF CoarseResources, FineResources, Counted, Holds
    <3>3. ASSUME NEW x \in Txns \X CoarseResources
          PROVE  /\ Holds(x[1], x[2])' <=>
                       Holds(x[1], x[2]) /\ ~(x[1] = t /\ x[2] = g.res /\ removed'[t])
                 /\ (pc'[x[1]] = "announce" /\ cur'[x[1]].res = x[2] /\ cur'[x[1]].prev = NoMode)
                    <=> (pc[x[1]] = "announce" /\ cur[x[1]].res = x[2] /\ cur[x[1]].prev = NoMode)
      <4>1. CASE x[1] # t
        BY <1>2, <4>1 DEF Same, Holds
      <4>2. CASE x[1] = t /\ x[2] # g.res
        BY <1>4, <1>5, <1>8, <4>2 DEF Holds, CoarseResources
      <4>3. CASE x[1] = t /\ x[2] = g.res
        <5>1. removed'[t] <=> holder[t][g.res].refs = 1
          BY <1>4, <2>2
        <5>2. Holds(x[1], x[2]) /\ (Holds(x[1], x[2])' <=> ~removed'[t])
          BY <3>1, <4>3, <5>1, SMTT(20) DEF Holds
        <5> QED
          BY <1>4, <1>5, <4>3, <5>2
      <4> QED
        BY <4>1, <4>2, <4>3
    <3>4. Counted' = IF removed'[t] THEN Counted \ {y} ELSE Counted
      <4>1. \A x \in Txns \X CoarseResources : x = y <=> x[1] = t /\ x[2] = g.res
        BY SMTT(20)
      <4> QED
        BY <3>3, <4>1 DEF Counted, CoarseResources, FineResources
    <3>5. t \notin Retiring /\ Retiring' = IF removed'[t] THEN Retiring \cup {t} ELSE Retiring
      BY <1>2, <1>4, <2>2, SMTT(20) DEF Same, Retiring
    <3>6. removed'[t] => /\ Cardinality(Counted') = Cardinality(Counted) - 1
                         /\ Cardinality(Retiring') = Cardinality(Retiring) + 1
      BY <3>2, <3>4, <3>5, CountsFinite, FS_RemoveElement, FS_AddElement
    <3>7. ~removed'[t] => Counted' = Counted /\ Retiring' = Retiring
      BY <3>4, <3>5
    <3> QED
      BY <1>1, <1>4, <3>6, <3>7, CountsFinite, SMTT(20) DEF CountExact
  <2> QED
    BY <2>1, <2>2
<1>15. Shrinks(t)
  BY <1>1, <1>4, <1>5, QuietShrinks
<1> QED
  BY <1>1, <1>2, <1>9, <1>10, <1>11, <1>12, <1>13, <1>14, <1>15, OneThread DEF ThreadInv

\* A coarse request announces itself: the count rises, the epoch moves.
LEMMA AnnounceInv ==
    ASSUME IInv, NEW t \in Txns, Announce(t)
    PROVE  IInv'
<1>1. TypeOK /\ TypeOK' /\ ThreadInv(t) /\ ShardOwned /\ CountExact
  BY AnnounceType DEF IInv
<1>2. \A u \in Txns \ {t} : Same(u)
  BY <1>1 DEF Announce, Same, TypeOK, sets
<1>3. /\ pc[t] = "announce" /\ pc'[t] = "scan" /\ left'[t] = Shards
      /\ activeCount' = IF cur[t].prev = NoMode THEN activeCount + 1 ELSE activeCount
      /\ UNCHANGED <<holder, shardLock, calls, asking, todo, cur, removed, batch, after,
                     grants, dropping, asked>>
  BY <1>1 DEF Announce, TypeOK, sets
<1>4. /\ cur[t] # NoGrant /\ cur[t] \in Grant /\ cur[t] \in Kept(t)
      /\ IsCoarse(cur[t].res) /\ dropping[t] = {}
  BY <1>1, <1>3 DEF ThreadInv, Control, TypeOK, Kept
<1>5. Kept(t)' = Kept(t)
  BY <1>3 DEF Kept
<1>6. /\ Requesting(t) <=> Requesting(t)'
      /\ Escalating(t) <=> Escalating(t)'
  BY <1>3 DEF Requesting, Escalating
<1>7. Books(t)'
  BY <1>1, <1>3, <1>5, BooksSame DEF ThreadInv
<1>8. Control(t)'
  BY <1>1, <1>3, <1>4, <1>6 DEF ThreadInv, Control
<1>9. ToDo(t)'
  BY <1>1, <1>3, <1>5, <1>6 DEF ThreadInv, ToDo
<1>10. AskedHeld(t)'
  BY <1>1, <1>3, <1>5, <1>6 DEF ThreadInv, AskedHeld
<1>11. ShardOwned'
  BY <1>1, <1>2, <1>3, ShardStill
<1>12. CountExact'
  <2> DEFINE y == <<t, cur[t].res>>
  <2>1. cur[t].res \in CoarseResources /\ holder[t][cur[t].res].refs > 0
    <3>1. cur[t].res \in Resources /\ cur[t].res \in CoarseResources
      BY <1>4 DEF Grant, CoarseResources, FineResources
    <3>2. BookAt(t, cur[t].res, holder[t][cur[t].res], At(Kept(t), cur[t].res),
                 At(dropping[t], cur[t].res))
      BY <1>1, <3>1 DEF ThreadInv, Books
    <3>3. cur[t] \in At(Kept(t), cur[t].res)
      BY <1>4 DEF At
    <3>4. holder[t][cur[t].res].refs \in Nat /\ holder[t][cur[t].res].refs # 0
      BY <3>2, <3>3, FS_EmptySet DEF BookAt
    <3> QED
      BY <3>1, <3>4, SMTT(20)
  <2>2. \A x \in Txns \X CoarseResources : x = y <=> x[1] = t /\ x[2] = cur[t].res
    BY SMTT(20)
  <2>3. y \in Txns \X CoarseResources
    BY <2>1
  <2>4. ASSUME NEW x \in Txns \X CoarseResources
        PROVE  /\ Holds(x[1], x[2])' <=> Holds(x[1], x[2])
               /\ (pc[x[1]] = "announce" /\ cur[x[1]].res = x[2] /\ cur[x[1]].prev = NoMode)
                  <=> \/ /\ x[1] = t /\ x[2] = cur[t].res /\ cur[t].prev = NoMode
                      \/ /\ pc'[x[1]] = "announce" /\ cur'[x[1]].res = x[2]
                         /\ cur'[x[1]].prev = NoMode
    BY <1>2, <1>3 DEF Same, Holds
  <2>5. /\ Counted' = IF cur[t].prev = NoMode THEN Counted \cup {y} ELSE Counted
        /\ cur[t].prev = NoMode => y \notin Counted
    BY <1>3, <2>1, <2>2, <2>3, <2>4 DEF Counted, CoarseResources, FineResources, Holds
  <2>6. cur[t].prev = NoMode => Cardinality(Counted') = Cardinality(Counted) + 1
    BY <2>5, CountsFinite, FS_AddElement
  <2>7. Retiring' = Retiring
    BY <1>2, <1>3 DEF Same, Retiring
  <2> QED
    BY <1>1, <1>3, <2>5, <2>6, <2>7, CountsFinite, SMTT(20) DEF CountExact
<1>13. Shrinks(t)
  <2>1. Coarse(t)' = Coarse(t) /\ Fine(t)' = Fine(t)
    BY <1>3, <1>5 DEF Coarse, Fine
  <2>2. \A s \in Shards : /\ Settled(t, s)' \subseteq Settled(t, s)
                          /\ \A g \in Settled(t, s)' : g # cur[t]
    BY <1>3, <2>1 DEF Settled
  <2> QED
    BY <1>3, <2>1, <2>2 DEF Shrinks
<1> QED
  BY <1>1, <1>2, <1>7, <1>8, <1>9, <1>10, <1>11, <1>12, <1>13, OneThread DEF ThreadInv

\* A coarse request that met no fine holder is granted.
LEMMA CoarseGrantedInv ==
    ASSUME IInv, NEW t \in Txns, CoarseGranted(t)
    PROVE  IInv'
<1> DEFINE fine == IF after[t] = "escalate"
                   THEN {g \in ThisCall(t) : /\ g.res.kind \in {"PrimaryKey", "RowId"}
                                             /\ SameTablet(g.res, cur[t].res)}
                   ELSE {}
           c == cur[t]
<1>1. TypeOK /\ ThreadInv(t) /\ ShardOwned /\ CountExact /\ pc[t] = "scan"
  BY DEF IInv, CoarseGranted
<1>2. /\ c # NoGrant /\ c \in Grant /\ IsCoarse(c.res) /\ c.call = calls[t] /\ c \notin grants[t]
      /\ after[t] \in {"request", "escalate"}
      /\ after[t] = "escalate" => c.res.kind = "Tablet" /\ c.mode = "X"
      /\ dropping[t] = {} /\ calls[t] \in Nat
  BY <1>1 DEF ThreadInv, Control, TypeOK
<1>3. TypeOK'
  BY <1>1, <1>2, CoarseGrantedType
<1>4. \A u \in Txns \ {t} : Same(u)
  BY <1>1 DEF CoarseGranted, StartDrop, Same, TypeOK, table
<1>5. /\ left[t] = {} /\ ~hit[t]
      /\ grants'[t] = (grants[t] \ fine) \cup {c} /\ dropping'[t] = fine
      /\ after'[t] = after[t] /\ pc'[t] = IF fine = {} THEN after[t] ELSE "drop"
      /\ cur'[t] = NoGrant
      /\ UNCHANGED <<holder, activeCount, shardLock, calls, asking, todo, left, hit, batch, asked>>
  BY <1>1 DEF CoarseGranted, StartDrop, TypeOK, table
<1>6. /\ fine \subseteq grants[t] /\ c \notin fine
      /\ \A g \in fine : /\ g.call = calls[t] /\ g.res.kind \in {"PrimaryKey", "RowId"}
                         /\ SameTablet(g.res, c.res) /\ after[t] = "escalate"
  BY <1>2 DEF ThisCall
<1> HIDE DEF fine
<1>7. Kept(t)' = (grants[t] \ fine) \cup {c} /\ Kept(t) = grants[t] \cup {c}
  BY <1>2, <1>3, <1>5 DEF Kept, TypeOK, Grant, NoGrant
<1>8. /\ Requesting(t) <=> Requesting(t)'
      /\ Escalating(t) <=> Escalating(t)'
      /\ Requesting(t) <=> after[t] = "request"
  BY <1>1, <1>2, <1>5, <1>6 DEF Requesting, Escalating
<1>9. Books(t)'
  <2>1. Kept(t)' \cup dropping'[t] = Kept(t)
    BY <1>5, <1>6, <1>7
  <2>2. ASSUME NEW g \in dropping'[t], NEW k \in Kept(t)', g.res = k.res
        PROVE  k.call < g.call
    <3>1. g \in Kept(t) /\ k \in Kept(t) /\ g # k /\ g.call = calls[t]
      BY <1>5, <1>6, <1>7
    <3>2. k.call \in Nat /\ k.call <= calls[t] /\ g.res \in Resources
      <4>1. calls[t] <= calls[t] /\ g.res \in Resources /\ k.call \in Nat
        BY <1>1, <3>1, SMTT(20) DEF TypeOK, Grant, Kept, NoGrant
      <4>2. k.call <= calls[t]
        BY <1>1, <1>2, <1>7, <3>1, <4>1 DEF ThreadInv, Control, Kept
      <4> QED
        BY <4>1, <4>2
    <3>3. BookAt(t, g.res, holder[t][g.res], At(Kept(t), g.res), At(dropping[t], g.res))
      BY <1>1, <3>2 DEF ThreadInv, Books
    <3>4. g \in At(Kept(t), g.res) /\ k \in At(Kept(t), g.res)
      BY <2>2, <3>1 DEF At
    <3>5. g.call # k.call
      BY <3>1, <3>3, <3>4 DEF BookAt
    <3> QED
      BY <1>2, <3>1, <3>2, <3>5, SMTT(20)
  <2> QED
    BY <1>1, <1>2, <1>5, <2>1, <2>2, BooksMove DEF ThreadInv
<1>10. Control(t)'
  <2>1. \A g \in grants'[t] \cup dropping'[t] : g.call <= calls[t]
    <3>1. \A g \in grants[t] : g.call <= calls[t]
      BY <1>1 DEF ThreadInv, Control
    <3>2. c.call <= calls[t]
      BY <1>2, SMTT(20)
    <3>3. /\ \A g \in grants'[t] : g \in grants[t] \/ g = c
          /\ \A g \in dropping'[t] : g \in grants[t]
      BY <1>5, <1>6
    <3> QED
      BY <3>1, <3>2, <3>3
  <2>2. pc'[t] \in {"request", "escalate", "drop"}
        /\ (pc'[t] = "drop" => after[t] = "escalate") /\ (dropping'[t] # {} => pc'[t] = "drop")
    BY <1>2, <1>5, <1>6
  <2>3. Requesting(t)' \/ Escalating(t)' => calls'[t] # 0
    BY <1>1, <1>5, <1>8 DEF ThreadInv, Control
  <2> QED
    BY <1>5, <2>1, <2>2, <2>3 DEF Control
<1>11. ToDo(t)'
  <2>1. Kept(t)' \cup dropping'[t] = Kept(t) \cup dropping[t]
    BY <1>2, <1>5, <1>6, <1>7
  <2> QED
    BY <1>1, <1>5, <1>8, <2>1 DEF ThreadInv, ToDo
<1>12. AskedHeld(t)'
  <2>1. ASSUME NEW a \in asked[t]
        PROVE  /\ a.mode \in ModesOf(t, a.res) /\ a.call <= calls[t]
               /\ a.call < calls[t]
               /\ \E g \in grants'[t] : g.call = a.call /\ StandsFor(g, a)
    <3>1. /\ a.mode \in ModesOf(t, a.res) /\ a.call <= calls[t] /\ a.call < calls[t]
          /\ \E g \in grants[t] : g.call = a.call /\ StandsFor(g, a)
      BY <1>1, <1>2 DEF ThreadInv, AskedHeld, Requesting, Escalating
    <3> QED
      BY <1>2, <1>5, <1>6, <3>1, SMTT(20)
  <2>2. ASSUME Escalating(t), NEW q \in asking[t]
        PROVE  \E g \in grants'[t] : g.call = calls[t] /\ StandsFor(g, q)
    <3>1. PICK g \in grants[t] : g.call = calls[t] /\ StandsFor(g, q)
      BY <1>1, <2>2 DEF ThreadInv, AskedHeld
    <3>2. CASE g \in fine
      <4>1. StandsFor(c, q)
        BY <1>2, <1>6, <3>1, <3>2 DEF StandsFor, SameTablet
      <4> QED
        BY <1>2, <1>5, <4>1
    <3> QED
      BY <1>5, <3>1, <3>2
  <2>3. ASSUME Requesting(t), NEW q \in asking[t]
        PROVE  \/ \E p \in todo[t] : p.res = q.res /\ StandsFor(p, q)
               \/ \E g \in Kept(t)' : g.call = calls[t] /\ StandsFor(g, q)
    <3>1. Kept(t)' = Kept(t)
      BY <1>6, <1>7, <1>8, <2>3
    <3> QED
      BY <1>1, <2>3, <3>1 DEF ThreadInv, AskedHeld
  <2>4. \A q \in asking[t] : q.mode \in ModesOf(t, q.res)
    BY <1>1 DEF ThreadInv, AskedHeld
  <2> QED
    BY <1>5, <1>8, <2>1, <2>2, <2>3, <2>4 DEF AskedHeld
<1>13. ShardOwned'
  BY <1>1, <1>2, <1>4, <1>5, ShardStill
<1>14. CountExact'
  BY <1>1, <1>2, <1>4, <1>5, CountStill
<1>15. Shrinks(t)
  <2>1. Coarse(t)' \subseteq Coarse(t) /\ Fine(t)' \subseteq Fine(t)
    BY <1>2, <1>5, <1>7 DEF Coarse, Fine
  <2>2. \A s \in Shards : Settled(t, s)' \subseteq Settled(t, s)
    BY <1>1, <1>5, <2>1 DEF Settled
  <2> QED
    BY <1>2, <1>5, <2>1, <2>2 DEF Shrinks
<1> QED
  BY <1>3, <1>4, <1>9, <1>10, <1>11, <1>12, <1>13, <1>14, <1>15, OneThread DEF ThreadInv

\* A coarse request that met a fine holder is taken back.
LEMMA CoarseRefusedInv ==
    ASSUME IInv, NEW t \in Txns, CoarseRefused(t)
    PROVE  IInv'
<1> DEFINE c == cur[t]
<1>1. TypeOK /\ ThreadInv(t) /\ ShardOwned /\ CountExact /\ pc[t] = "scan"
  BY DEF IInv, CoarseRefused
<1>2. /\ c # NoGrant /\ c \in Grant /\ c.call = calls[t] /\ c \notin grants[t]
      /\ after[t] \in {"request", "escalate"}
      /\ dropping[t] = {} /\ calls[t] \in Nat
  BY <1>1 DEF ThreadInv, Control, TypeOK
<1>3. TypeOK'
  BY <1>1, <1>2, CoarseRefusedType
<1>4. \A u \in Txns \ {t} : Same(u)
  BY <1>1, SMTT(20) DEF CoarseRefused, FailCall, StartDrop, Same, TypeOK, table
<1>5. /\ cur'[t] = NoGrant
      /\ UNCHANGED <<holder, activeCount, shardLock, calls, left, batch, asked>>
  BY <1>1 DEF CoarseRefused, TypeOK, table
<1>6. Requesting(t) \/ Escalating(t)
  BY <1>1, <1>2 DEF Requesting, Escalating
<1>7. ThreadInv(t)' /\ Shrinks(t) /\ pc'[t] \in {"idle", "drop"}
  <2>1. CASE FailCall(t, {c})
    <3>1. {c} = {cur[t]} \ {NoGrant}
      BY <1>2
    <3> QED
      BY <1>1, <1>5, <1>6, <2>1, <3>1, FailThread
  <2>2. CASE /\ after[t] # "request" /\ StartDrop(t, {c}, after[t])
             /\ UNCHANGED <<grants, todo, asking>>
    <3>1. /\ dropping'[t] = {c} /\ after'[t] = after[t] /\ after[t] = "escalate"
          /\ pc'[t] = "drop" /\ UNCHANGED <<grants, todo, asking>>
      BY <1>1, <1>2, <2>2 DEF StartDrop, TypeOK
    <3>2. Kept(t)' = grants[t] /\ Kept(t) = grants[t] \cup {c}
      BY <1>1, <1>2, <1>5, <3>1 DEF Kept
    <3>3. Escalating(t) /\ Escalating(t)' /\ ~Requesting(t) /\ ~Requesting(t)'
      BY <1>1, <3>1 DEF Escalating, Requesting
    <3>4. Books(t)'
      <4>1. Kept(t)' \cup dropping'[t] = Kept(t)
        BY <3>1, <3>2
      <4>2. ASSUME NEW g \in dropping'[t], NEW k \in Kept(t)', g.res = k.res
            PROVE  k.call < g.call
        <5>1. g = c /\ k \in grants[t] /\ g # k
          BY <1>2, <3>1, <3>2
        <5>2. k.call \in Nat /\ k.call <= calls[t] /\ g.res \in Resources
          <6>1. c.res \in Resources
            BY <1>2, SMTT(20) DEF Grant
          <6> QED
            BY <1>1, <5>1, <6>1, GrantTypes DEF ThreadInv, Control
        <5>3. BookAt(t, g.res, holder[t][g.res], At(Kept(t), g.res), At(dropping[t], g.res))
          BY <1>1, <5>2 DEF ThreadInv, Books
        <5>4. g \in At(Kept(t), g.res) /\ k \in At(Kept(t), g.res)
          BY <3>2, <4>2, <5>1 DEF At
        <5>5. g.call # k.call
          BY <5>1, <5>3, <5>4 DEF BookAt
        <5> QED
          BY <1>2, <5>1, <5>2, <5>5, SMTT(20)
      <4> QED
        BY <1>1, <1>2, <1>5, <4>1, <4>2, BooksMove DEF ThreadInv
    <3>5. Control(t)'
      <4>1. c.call <= calls[t]
        BY <1>2, SMTT(20)
      <4>2. \A g \in grants[t] : g.call <= calls[t]
        BY <1>1 DEF ThreadInv, Control
      <4>3. \A g \in (grants[t] \cup dropping[t])' : g.call <= calls'[t]
        BY <1>5, <3>1, <4>1, <4>2
      <4>4. calls'[t] # 0
        BY <1>1, <1>5, <3>3 DEF ThreadInv, Control
      <4> QED
        BY <1>5, <3>1, <4>3, <4>4 DEF Control
    <3>6. ToDo(t)'
      <4>1. Kept(t)' \cup dropping'[t] = Kept(t) \cup dropping[t]
        BY <1>2, <3>1, <3>2
      <4> QED
        BY <1>1, <1>5, <3>1, <3>3, <4>1 DEF ThreadInv, ToDo
    <3>7. AskedHeld(t)'
      BY <1>1, <1>5, <3>1, <3>3 DEF ThreadInv, AskedHeld
    <3>8. Shrinks(t)
      <4>1. Coarse(t)' \subseteq Coarse(t) /\ Fine(t)' \subseteq Fine(t)
        BY <3>1, <3>2 DEF Coarse, Fine
      <4>2. \A s \in Shards : /\ Settled(t, s)' \subseteq Settled(t, s)
                              /\ \A g \in Settled(t, s)' : g # cur[t]
        BY <1>2, <3>2, <4>1 DEF Settled, Coarse
      <4> QED
        BY <3>1, <4>1, <4>2 DEF Shrinks
    <3> QED
      BY <3>1, <3>4, <3>5, <3>6, <3>7, <3>8 DEF ThreadInv
  <2> QED
    BY <2>1, <2>2 DEF CoarseRefused
<1>8. ShardOwned'
  BY <1>1, <1>4, <1>5, <1>7, ShardStill
<1>9. CountExact'
  BY <1>1, <1>4, <1>5, <1>7, CountStill
<1> QED
  BY <1>3, <1>4, <1>7, <1>8, <1>9, OneThread

-----------------------------------------------------------------------------
(* The steps that grant a lock or test for blockers. *)

\* A test for blockers among S meets every conflicting entry another
\* transaction keeps there.
LEMMA BlockerSeen ==
    ASSUME ComparableModes, TypeOK, NEW t \in Txns, NEW u \in Txns, t # u, Books(u),
           NEW S, NEW k \in Kept(u), k.res \in S,
           NEW q, q.mode \in Modes, Clash(k, q) \/ Clash(q, k)
    PROVE  Blocked(t, q, S)
<1>1. k \in Grant /\ k.res \in Resources
  BY SMTT(20) DEF Kept, TypeOK, Grant
<1>2. BookAt(u, k.res, holder[u][k.res], At(Kept(u), k.res), At(dropping[u], k.res))
  BY <1>1 DEF Books
<1>3. k \in At(Kept(u), k.res)
  BY DEF At
<1>4. /\ holder[u][k.res].refs > 0 /\ holder[u][k.res].mode \in Modes /\ k.mode \in Modes
      /\ Covers(holder[u][k.res].mode, k.mode)
  BY <1>1, <1>2, <1>3, BookHolds
<1>5. GrantsConflict(k.res, k.mode, q.res, q.mode)
  BY <1>4, GrantsSymmetric DEF Clash
<1>6. GrantsConflict(k.res, holder[u][k.res].mode, q.res, q.mode)
  BY <1>4, <1>5, CoverConflict
<1> QED
  BY <1>4, <1>6 DEF Blocked, Holds

\* While a coarse entry is settled, coarse_active_count is not 0.
LEMMA SettledCounted ==
    ASSUME IInv, NEW u \in Txns, NEW s, NEW g \in Settled(u, s)
    PROVE  activeCount > 0
<1>1. TypeOK /\ Books(u) /\ Control(u) /\ CountExact
  BY DEF IInv, ThreadInv
<1>2. g \in Kept(u) /\ IsCoarse(g.res) /\ g \in Grant /\ g.res \in CoarseResources
      /\ g.res \in Resources
  BY <1>1, SMTT(20) DEF Settled, Coarse, Kept, TypeOK, Grant, CoarseResources, FineResources
<1>3. BookAt(u, g.res, holder[u][g.res], At(Kept(u), g.res), At(dropping[u], g.res))
  BY <1>1, <1>2 DEF Books
<1>4. g \in At(Kept(u), g.res)
  BY <1>2 DEF At
<1>5. holder[u][g.res].refs \in Nat /\ holder[u][g.res].refs # 0
  BY <1>3, <1>4, FS_EmptySet DEF BookAt
<1>6. ~(pc[u] = "announce" /\ cur[u].res = g.res /\ cur[u].prev = NoMode)
  <2> SUFFICES ASSUME pc[u] = "announce", cur[u].res = g.res
               PROVE  cur[u].prev # NoMode
    OBVIOUS
  <2>1. g # cur[u] /\ g \in grants[u] /\ cur[u] \in Kept(u) /\ cur[u].call = calls[u]
    BY <1>1, <1>2 DEF Settled, Control, Kept
  <2>2. g.call \in Nat /\ g.call <= calls[u] /\ calls[u] \in Nat
    BY <1>1, <1>2, <2>1 DEF Control, TypeOK, Grant
  <2>3. cur[u] \in At(Kept(u), g.res)
    BY <2>1 DEF At
  <2>4. g.call # cur[u].call
    BY <1>3, <1>4, <2>1, <2>3 DEF BookAt
  <2>5. g.call < cur[u].call
    BY <2>1, <2>2, <2>4, SMTT(20)
  <2> QED
    BY <1>3, <1>4, <2>3, <2>5 DEF BookAt
<1>7. <<u, g.res>> \in Counted
  BY <1>2, <1>5, <1>6, SMTT(20) DEF Counted, Holds
<1>8. Cardinality(Counted) # 0
  BY <1>7, CountsFinite, FS_EmptySet
<1> QED
  BY <1>1, <1>8, CountsFinite, SMTT(20) DEF CountExact

\* A coarse request looks for fine holders in one shard.
LEMMA ScanInv ==
    ASSUME IInv, NEW t \in Txns, NEW s \in Shards, Scan(t, s)
    PROVE  IInv'
<1>1. TypeOK /\ TypeOK' /\ ThreadInv(t) /\ ShardOwned /\ CountExact
  BY ScanType DEF IInv
<1>2. \A u \in Txns \ {t} : Same(u)
  BY <1>1 DEF Scan, Same, TypeOK, table, sets
<1>3. /\ pc[t] = "scan" /\ shardLock[s] = None /\ left'[t] = left[t] \ {s}
      /\ hit'[t] = (hit[t] \/ Blocked(t, cur[t], ShardResources(s)))
      /\ UNCHANGED <<holder, activeCount, shardLock, pc, calls, asking, todo, cur, batch, after,
                     grants, dropping, asked>>
  BY <1>1 DEF Scan, TypeOK, table, sets
<1>4. cur[t] # NoGrant /\ cur[t] \in Grant /\ cur[t].mode \in Modes
  BY <1>1, <1>3 DEF ThreadInv, Control, TypeOK, Grant
<1>5. ThreadInv(t)'
  <2>1. Kept(t)' = Kept(t)
    BY <1>3 DEF Kept
  <2>2. /\ Requesting(t) <=> Requesting(t)'
        /\ Escalating(t) <=> Escalating(t)'
    BY <1>3 DEF Requesting, Escalating
  <2>3. Books(t)'
    BY <1>1, <1>3, <2>1, BooksSame DEF ThreadInv
  <2>4. Control(t)'
    BY <1>1, <1>3, <2>2 DEF ThreadInv, Control
  <2>5. ToDo(t)'
    BY <1>1, <1>3, <2>1, <2>2 DEF ThreadInv, ToDo
  <2>6. AskedHeld(t)'
    BY <1>1, <1>3, <2>1, <2>2 DEF ThreadInv, AskedHeld
  <2> QED
    BY <2>3, <2>4, <2>5, <2>6 DEF ThreadInv
<1>6. ShardOwned'
  BY <1>1, <1>2, <1>3, ShardStill
<1>7. CountExact'
  BY <1>1, <1>2, <1>3, CountStill
<1>8. \A u \in Txns : /\ Kept(u)' = Kept(u) /\ Coarse(u)' = Coarse(u) /\ Fine(u)' = Fine(u)
                      /\ Batch(u)' = Batch(u)
  BY <1>3 DEF Kept, Coarse, Fine, Batch
<1>9. \A u \in Txns \ {t}, z \in Shards : Settled(u, z)' = Settled(u, z)
  BY <1>2, <1>8 DEF Settled, Same
<1>10. \A z \in Shards : \A g \in Settled(t, z)' :
          g \in Settled(t, z) \/ (g = cur[t] /\ z = s)
  BY <1>3, <1>8 DEF Settled
<1>11. ASSUME ComparableModes, NEW u \in Txns, u # t
       PROVE  Apart(t, u)'
  <2>1. Apart(t, u) /\ Control(u) /\ Books(u)
    BY <1>11 DEF IInv, NoClash, ThreadInv
  <2>2. ASSUME NEW h \in Fine(u), NEW g \in Settled(t, ShardIndex[h.res])'
        PROVE  (g = cur[t] /\ hit'[t]) \/ ~Clash(g, h)
    <3>1. ShardIndex[h.res] \in Shards /\ h.res \in FineResources
      BY <1>1, FineShard
    <3>2. CASE g \in Settled(t, ShardIndex[h.res])
      BY <1>3, <2>1, <3>2 DEF Apart
    <3>3. CASE g = cur[t] /\ ShardIndex[h.res] = s
      <4>1. h \in Kept(u) /\ h.res \in ShardResources(s)
        BY <3>1, <3>3 DEF Fine, Kept, ShardResources
      <4>2. Clash(g, h) => Blocked(t, cur[t], ShardResources(s))
        BY <1>1, <1>4, <1>11, <2>1, <3>3, <4>1, BlockerSeen
      <4> QED
        BY <1>3, <3>3, <4>2
    <3> QED
      BY <1>10, <3>1, <3>2, <3>3
  <2>3. ASSUME pc[u] = "fineGrant", NEW q \in Batch(u), NEW g \in Settled(t, batch[u])'
        PROVE  ~Clash(g, q)
    <3>1. batch[u] \in Shards /\ shardLock[batch[u]] = u /\ u # None
      BY <1>1, <2>1, <2>3, LockAssumption DEF Control, ShardOwned
    <3>2. batch[u] # s
      BY <1>3, <3>1
    <3>3. batch'[u] = batch[u] /\ g \in Settled(t, batch[u])
      BY <1>3, <1>8, <3>1, <3>2 DEF Settled
    <3> QED
      BY <2>1, <2>3, <3>3 DEF Apart
  <2> QED
    BY <1>3, <1>8, <1>11, <2>1, <2>2, <2>3 DEF Apart, Clash
<1>12. ASSUME ComparableModes, NEW v \in Txns \ {t}, NEW u \in Txns, u # v
       PROVE  Apart(v, u)'
  <2>1. Apart(v, u) /\ Control(u) /\ cur'[v] = cur[v] /\ hit'[v] = hit[v] /\ pc'[u] = pc[u]
    BY <1>2, <1>3, <1>12 DEF IInv, NoClash, ThreadInv, Same
  <2>2. ASSUME NEW h \in Fine(u), NEW g \in Settled(v, ShardIndex[h.res])'
        PROVE  (g = cur[v] /\ hit[v]) \/ ~Clash(g, h)
    <3>1. ShardIndex[h.res] \in Shards
      BY <1>1, FineShard
    <3>2. g \in Settled(v, ShardIndex[h.res])
      BY <1>9, <3>1
    <3> QED
      BY <2>1, <3>2 DEF Apart
  <2>3. ASSUME pc[u] = "fineGrant", NEW q \in Batch(u), NEW g \in Settled(v, batch[u])'
        PROVE  ~Clash(g, q)
    <3>1. batch[u] \in Shards /\ batch'[u] = batch[u]
      BY <1>3, <2>1, <2>3 DEF Control
    <3>2. g \in Settled(v, batch[u])
      BY <1>2, <1>8, <3>1 DEF Settled, Same
    <3> QED
      BY <2>1, <2>3, <3>2 DEF Apart
  <2> QED
    BY <1>8, <2>1, <2>2, <2>3 DEF Apart, Clash
<1>13. ComparableModes => NoClash'
  BY <1>11, <1>12 DEF NoClash
<1>14. \A u \in Txns : ThreadInv(u)'
  BY <1>2, <1>5, FrameThread DEF IInv
<1> QED
  BY <1>1, <1>6, <1>7, <1>13, <1>14 DEF IInv

\* A coarse request enters the coarse table.
LEMMA CoarseInsertInv ==
    ASSUME IInv, NEW t \in Txns, NEW q \in todo[t], CoarseInsert(t, q)
    PROVE  IInv'
<1> DEFINE h == holder[t][q.res]
           e == [call |-> calls[t], res |-> q.res, mode |-> q.mode, prev |-> h.mode]
<1>1. TypeOK /\ ThreadInv(t) /\ ShardOwned /\ CountExact /\ pc[t] \in {"request", "escalate"}
  BY DEF IInv, CoarseInsert
<1>2. /\ cur[t] = NoGrant /\ dropping[t] = {} /\ calls[t] \in Nat \ {0}
      /\ q.res \in Resources /\ q.mode \in Modes /\ IsCoarse(q.res)
  BY <1>1, SMTT(20) DEF ThreadInv, Control, Requesting, Escalating, TypeOK, Requests, CoarseInsert
<1>3. TypeOK'
  BY <1>1, <1>2, CoarseInsertType
<1>4. \A u \in Txns \ {t} : Same(u)
  BY <1>1 DEF CoarseInsert, Same, TypeOK, sets
<1>5. /\ ~Blocked(t, q, CoarseResources)
      /\ holder'[t] = [holder[t] EXCEPT ![q.res] = GrantHolder(@, q.mode)]
      /\ cur'[t] = e /\ todo'[t] = todo[t] \ {q} /\ after'[t] = pc[t] /\ pc'[t] = "announce"
      /\ UNCHANGED <<activeCount, shardLock, calls, asking, left, hit, removed, batch,
                     grants, dropping, asked>>
  BY <1>1 DEF CoarseInsert, TypeOK, sets
<1>6. /\ \A r \in Resources \ {q.res} : holder'[t][r] = holder[t][r]
      /\ holder'[t][q.res] = GrantHolder(h, q.mode)
  BY <1>1, <1>2, <1>5 DEF TypeOK
<1>7. /\ e.call = calls[t] /\ e.res = q.res /\ e.mode = q.mode /\ e.prev = h.mode
      /\ e # NoGrant
  BY <1>2 DEF NoGrant
<1>8. \A g \in grants[t] : /\ g.call \in Nat /\ g.call <= calls[t]
                           /\ g.res = q.res => g.call < calls[t]
  <2>1. \A g \in grants[t] : g.call \in Nat /\ g.call <= calls[t]
    BY <1>1, SMTT(20) DEF TypeOK, Grant, ThreadInv, Control
  <2>2. \A g \in grants[t] : g.call = calls[t] => g.res # q.res
    BY <1>1 DEF ThreadInv, ToDo, Kept
  <2> QED
    BY <1>2, <2>1, <2>2, SMTT(20)
<1> HIDE DEF e
<1>9. Kept(t) = grants[t] /\ Kept(t)' = grants[t] \cup {e}
  BY <1>2, <1>5, <1>7 DEF Kept
<1>10. /\ Requesting(t) <=> Requesting(t)'
       /\ Escalating(t) <=> Escalating(t)'
  BY <1>1, <1>5 DEF Requesting, Escalating
<1>11. BookAt(t, q.res, h, At(Kept(t), q.res), {})
  <2>1. At(dropping[t], q.res) = {}
    BY <1>2 DEF At
  <2> QED
    BY <1>1, <1>2, <2>1 DEF ThreadInv, Books
<1>12. Books(t)'
  <2> SUFFICES ASSUME NEW r \in Resources
               PROVE  BookAt(t, r, holder'[t][r], At(grants[t] \cup {e}, r), At(dropping[t], r))
    BY <1>5, <1>9 DEF Books
  <2>1. BookAt(t, r, holder[t][r], At(grants[t], r), At(dropping[t], r))
    BY <1>1, <1>9 DEF ThreadInv, Books
  <2>2. CASE r = q.res
    <3>1. /\ At(grants[t] \cup {e}, r) = At(grants[t], r) \cup {e}
          /\ At(dropping[t], r) = {} /\ \A g \in At(grants[t], r) : g.call < calls[t]
      BY <1>2, <1>7, <1>8, <2>2 DEF At
    <3>2. q.mode \in ModesOf(t, r)
      BY <1>1, <2>2 DEF ThreadInv, ToDo
    <3>3. BookAt(t, r, GrantHolder(h, q.mode), At(grants[t], r) \cup {e}, {})
      BY <1>2, <1>9, <1>11, <2>2, <3>1, <3>2, BookInsert DEF e
    <3> QED
      BY <1>6, <2>2, <3>1, <3>3
  <2>3. CASE r # q.res
    <3>1. At(grants[t] \cup {e}, r) = At(grants[t], r)
      BY <1>7, <2>3 DEF At
    <3> QED
      BY <1>6, <2>1, <2>3, <3>1
  <2> QED
    BY <2>2, <2>3
<1>13. Control(t)'
  <2>1. e \notin grants[t]
    BY <1>2, <1>7, <1>8, SMTT(20)
  <2>2. pc[t] = "escalate" => q.res.kind = "Tablet" /\ q.mode = "X"
    BY <1>1 DEF ThreadInv, ToDo, Escalating
  <2>3. \A g \in grants[t] \cup dropping[t] : g.call <= calls[t]
    BY <1>1 DEF ThreadInv, Control
  <2> QED
    BY <1>1, <1>2, <1>5, <1>7, <2>1, <2>2, <2>3 DEF Control
<1>14. ToDo(t)'
  <2>1. /\ \A p \in todo[t] : p.mode \in ModesOf(t, p.res)
        /\ \A p \in todo[t] : \A g \in grants[t] : g.call = calls[t] => g.res # p.res
        /\ \A o, p \in todo[t] : o.res = p.res => o = p
    BY <1>1, <1>9 DEF ThreadInv, ToDo
  <2>2. \A p \in todo[t] \ {q} : e.res # p.res
    BY <1>7, <2>1
  <2>3. Escalating(t) => \A p \in todo[t] : p.res.kind = "Tablet" /\ p.mode = "X"
    BY <1>1 DEF ThreadInv, ToDo
  <2> QED
    BY <1>2, <1>5, <1>9, <1>10, <2>1, <2>2, <2>3 DEF ToDo
<1>15. AskedHeld(t)'
  <2>1. ASSUME Requesting(t), NEW o \in asking[t]
        PROVE  \/ \E p \in todo'[t] : p.res = o.res /\ StandsFor(p, o)
               \/ \E g \in Kept(t)' : g.call = calls[t] /\ StandsFor(g, o)
    <3>1. CASE q.res = o.res /\ StandsFor(q, o)
      <4>1. StandsFor(e, o)
        BY <1>7, <3>1 DEF StandsFor
      <4> QED
        BY <1>7, <1>9, <4>1
    <3>2. CASE ~(q.res = o.res /\ StandsFor(q, o))
      <4>1. \/ \E p \in todo[t] : p.res = o.res /\ StandsFor(p, o)
            \/ \E g \in Kept(t) : g.call = calls[t] /\ StandsFor(g, o)
        BY <1>1, <2>1 DEF ThreadInv, AskedHeld
      <4> QED
        BY <1>5, <1>9, <3>2, <4>1
    <3> QED
      BY <3>1, <3>2
  <2> QED
    BY <1>1, <1>5, <1>10, <2>1 DEF ThreadInv, AskedHeld
<1>16. ShardOwned'
  BY <1>1, <1>4, <1>5, ShardStill
<1>17. CountExact'
  <2>1. /\ h.refs \in Nat /\ (h.refs = 0 <=> h.mode = NoMode)
        /\ GrantHolder(h, q.mode).refs > 0
    BY <1>11, SMTT(20) DEF BookAt, GrantHolder
  <2>2. ASSUME NEW x \in Txns \X CoarseResources
        PROVE  (/\ Holds(x[1], x[2])'
                /\ ~(pc'[x[1]] = "announce" /\ cur'[x[1]].res = x[2]
                       /\ cur'[x[1]].prev = NoMode))
               <=> (/\ Holds(x[1], x[2])
                    /\ ~(pc[x[1]] = "announce" /\ cur[x[1]].res = x[2]
                           /\ cur[x[1]].prev = NoMode))
    <3>1. CASE x[1] # t
      BY <1>4, <3>1 DEF Same, Holds
    <3>2. CASE x[1] = t /\ x[2] # q.res
      BY <1>1, <1>5, <1>6, <1>7, <3>2 DEF Holds, CoarseResources
    <3>3. CASE x[1] = t /\ x[2] = q.res
      <4>1. Holds(x[1], x[2])' /\ (Holds(x[1], x[2]) <=> h.mode # NoMode)
        BY <1>6, <2>1, <3>3, SMTT(20) DEF Holds
      <4>2. /\ pc'[x[1]] = "announce" /\ cur'[x[1]].res = x[2] /\ cur'[x[1]].prev = h.mode
            /\ pc[x[1]] # "announce"
        BY <1>1, <1>5, <1>7, <3>3
      <4> QED
        BY <4>1, <4>2
    <3> QED
      BY <3>1, <3>2, <3>3
  <2>3. Counted' = Counted
    BY <2>2 DEF Counted, CoarseResources, FineResources
  <2>4. Retiring' = Retiring
    BY <1>1, <1>4, <1>5 DEF Same, Retiring
  <2> QED
    BY <1>1, <1>5, <2>3, <2>4 DEF CountExact
<1>18. /\ Coarse(t)' \subseteq Coarse(t) \cup {e} /\ Fine(t)' = Fine(t)
       /\ \A s \in Shards : Settled(t, s)' \subseteq Settled(t, s)
       /\ \A s \in Shards : \A g \in Settled(t, s) : g # cur[t]
  <2>1. Coarse(t)' \subseteq Coarse(t) \cup {e} /\ Fine(t)' = Fine(t)
    BY <1>5, <1>9 DEF Coarse, Fine
  <2>2. \A g \in grants[t] : g # NoGrant
    BY <1>1, SMTT(20) DEF TypeOK, Grant, NoGrant
  <2>3. \A s \in Shards : Settled(t, s)' \subseteq Settled(t, s)
    BY <1>2, <1>5, <1>9, <2>2 DEF Settled, Coarse
  <2>4. \A s \in Shards : \A g \in Settled(t, s) : g # cur[t]
    BY <1>2, <1>9, <2>2 DEF Settled, Coarse
  <2> QED
    BY <2>1, <2>3, <2>4
<1>19. ASSUME ComparableModes, NEW u \in Txns, u # t
       PROVE  \A g \in Coarse(u) : ~Clash(g, e) /\ ~Clash(e, g)
  <2> SUFFICES ASSUME NEW g \in Coarse(u), Clash(g, e) \/ Clash(e, g)
               PROVE  FALSE
    OBVIOUS
  <2>1. g \in Kept(u) /\ g.res \in CoarseResources
    <3>1. g \in Kept(u) /\ IsCoarse(g.res) /\ g.res \in Resources
      BY <1>1, SMTT(20) DEF Coarse, Kept, TypeOK, Grant, NoGrant
    <3> QED
      BY <3>1 DEF CoarseResources, FineResources
  <2>2. Clash(g, q) \/ Clash(q, g)
    BY <1>7 DEF Clash
  <2>3. Books(u)
    BY DEF IInv, ThreadInv
  <2> QED
    BY <1>1, <1>2, <1>5, <1>19, <2>1, <2>2, <2>3, BlockerSeen
<1>20. ComparableModes => NoClash'
  <2> SUFFICES ASSUME ComparableModes, NEW v \in Txns, NEW u \in Txns, v # u
               PROVE  Apart(v, u)'
    BY DEF NoClash
  <2>1. Apart(v, u) /\ Control(u)
    BY DEF IInv, NoClash, ThreadInv
  <2>2. \A w \in Txns \ {t} : Shrinks(w)
    BY <1>4, FrameShrinks
  <2>3. \A g \in Coarse(v)', k \in Coarse(u)' : ~Clash(g, k)
    <3>1. CASE v = t
      BY <1>18, <1>19, <2>1, <2>2, <3>1 DEF Apart, Shrinks
    <3>2. CASE u = t
      BY <1>18, <1>19, <2>1, <2>2, <3>2 DEF Apart, Shrinks
    <3>3. CASE v # t /\ u # t
      BY <2>1, <2>2, <3>3 DEF Apart, Shrinks
    <3> QED
      BY <3>1, <3>2, <3>3
  <2>4. \A w \in Txns : /\ Fine(w)' \subseteq Fine(w)
                        /\ \A s \in Shards : Settled(w, s)' \subseteq Settled(w, s)
    BY <1>18, <2>2 DEF Shrinks
  <2>5. ASSUME NEW k \in Fine(u)', NEW g \in Settled(v, ShardIndex[k.res])'
        PROVE  (g = cur'[v] /\ hit'[v]) \/ ~Clash(g, k)
    <3>1. k \in Fine(u) /\ ShardIndex[k.res] \in Shards
      BY <1>1, <2>4, FineShard
    <3>2. g \in Settled(v, ShardIndex[k.res])
      BY <2>4, <3>1
    <3>3. CASE v = t
      BY <1>18, <2>1, <3>1, <3>2, <3>3 DEF Apart
    <3>4. CASE v # t
      BY <2>1, <2>2, <3>1, <3>2, <3>4 DEF Apart, Shrinks
    <3> QED
      BY <3>3, <3>4
  <2>6. ASSUME pc'[u] = "fineGrant", NEW p \in Batch(u)', NEW g \in Settled(v, batch[u])'
        PROVE  ~Clash(g, p)
    <3>1. u # t
      BY <1>5, <2>6
    <3>2. /\ pc[u] = "fineGrant" /\ p \in Batch(u) /\ batch'[u] = batch[u]
          /\ batch[u] \in Shards
      BY <2>1, <2>2, <2>6, <3>1 DEF Shrinks, Control
    <3>3. g \in Settled(v, batch[u])
      BY <2>4, <3>2 DEF Settled
    <3> QED
      BY <2>1, <3>2, <3>3 DEF Apart
  <2> QED
    BY <2>1, <2>3, <2>4, <2>5, <2>6 DEF Apart, Clash
<1>21. \A u \in Txns : ThreadInv(u)'
  BY <1>4, <1>12, <1>13, <1>14, <1>15, FrameThread DEF IInv, ThreadInv
<1> QED
  BY <1>3, <1>16, <1>17, <1>20, <1>21 DEF IInv

\* A fine batch that owns its shard tests the coarse table again.
LEMMA FineRecheckInv ==
    ASSUME IInv, NEW t \in Txns, FineRecheck(t)
    PROVE  IInv'
<1>1. TypeOK /\ TypeOK' /\ ThreadInv(t) /\ ShardOwned /\ CountExact /\ pc[t] = "fineRecheck"
  BY FineRecheckType DEF IInv, FineRecheck
<1>2. \A u \in Txns \ {t} : Same(u)
  BY <1>1, SMTT(20) DEF FineRecheck, FailCall, StartDrop, Same, TypeOK
<1>3. UNCHANGED <<holder, activeCount, calls, cur, left, hit, removed, batch, asked>>
  BY DEF FineRecheck
<1>4. /\ cur[t] = NoGrant /\ Requesting(t) /\ batch[t] \in Shards
      /\ \A q \in todo[t] : ~IsCoarse(q.res) /\ q.mode \in Modes
  BY <1>1, SMTT(20) DEF ThreadInv, Control, Requesting, TypeOK, Requests
<1>5. CASE FailCall(t, {}) /\ shardLock' = [shardLock EXCEPT ![batch[t]] = None]
  <2>1. {cur[t]} \ {NoGrant} = {}
    BY <1>4
  <2>2. ThreadInv(t)' /\ Shrinks(t) /\ pc'[t] \in {"idle", "drop"}
    BY <1>1, <1>3, <1>4, <1>5, <2>1, FailThread
  <2>3. ShardOwned'
    BY <1>1, <1>2, <1>5, <2>2, ShardReleased
  <2>4. CountExact'
    BY <1>1, <1>2, <1>3, <2>2, CountStill
  <2> QED
    BY <1>1, <1>2, <2>2, <2>3, <2>4, OneThread
<1>6. CASE /\ ~(activeCount > 0 /\ CoarseBlockers(t))
           /\ pc' = [pc EXCEPT ![t] = "fineGrant"]
           /\ UNCHANGED <<shardLock, todo, asking, after, grants, dropping>>
  <2>1. pc'[t] = "fineGrant"
    BY <1>1, <1>6 DEF TypeOK
  <2>2. ThreadInv(t)'
    BY <1>1, <1>3, <1>4, <1>6, <2>1, BatchThread
  <2>3. ShardOwned'
    BY <1>1, <1>2, <1>3, <1>6, ShardStill
  <2>4. CountExact'
    BY <1>1, <1>2, <1>3, <1>6, <2>1, CountStill
  <2>5. \A u \in Txns : /\ Coarse(u)' = Coarse(u) /\ Fine(u)' = Fine(u) /\ Batch(u)' = Batch(u)
    BY <1>3, <1>6 DEF Kept, Coarse, Fine, Batch
  <2>6. \A u \in Txns : u # t => pc'[u] = pc[u]
    BY <1>2 DEF Same
  <2>7. \A g \in Kept(t) : g # cur[t]
    BY <1>1, <1>4, GrantTypes DEF Kept
  <2>8. \A u \in Txns, s \in Shards : Settled(u, s)' = Settled(u, s)
    <3> SUFFICES ASSUME NEW u \in Txns, NEW s \in Shards
                 PROVE  Settled(u, s)' = Settled(u, s)
      OBVIOUS
    <3>1. CASE u = t
      BY <1>3, <2>5, <2>7, <3>1 DEF Settled, Coarse
    <3>2. CASE u # t
      BY <1>3, <2>5, <2>6, <3>2 DEF Settled
    <3> QED
      BY <3>1, <3>2
  <2>9. ASSUME ComparableModes, NEW u \in Txns, u # t, NEW q \in Batch(t), NEW g \in Settled(u, batch[t])
        PROVE  ~Clash(g, q)
    <3>1. activeCount > 0 /\ activeCount \in Int
      BY <1>1, SettledCounted DEF TypeOK
    <3>2. ~Blocked(t, q, CoarseResources)
      BY <1>6, <3>1, SMTT(20) DEF CoarseBlockers
    <3>3. g \in Kept(u) /\ g.res \in CoarseResources
      <4>1. g \in Kept(u) /\ IsCoarse(g.res) /\ g.res \in Resources
        BY <1>1, SMTT(20) DEF Settled, Coarse, Kept, TypeOK, Grant, NoGrant
      <4> QED
        BY <4>1 DEF CoarseResources, FineResources
    <3>4. q.mode \in Modes /\ Books(u)
      BY <1>4 DEF Batch, IInv, ThreadInv
    <3> QED
      BY <1>1, <2>9, <3>2, <3>3, <3>4, BlockerSeen
  <2>10. ComparableModes => NoClash'
    <3> SUFFICES ASSUME ComparableModes, NEW v \in Txns, NEW u \in Txns, v # u
                 PROVE  Apart(v, u)'
      BY DEF NoClash
    <3>1. Apart(v, u) /\ Control(u)
      BY DEF IInv, NoClash, ThreadInv
    <3>2. ASSUME NEW h \in Fine(u), NEW g \in Settled(v, ShardIndex[h.res])'
          PROVE  (g = cur[v] /\ hit[v]) \/ ~Clash(g, h)
      <4>1. ShardIndex[h.res] \in Shards
        BY <1>1, FineShard
      <4> QED
        BY <2>8, <3>1, <4>1 DEF Apart
    <3>3. ASSUME pc'[u] = "fineGrant", NEW q \in Batch(u), NEW g \in Settled(v, batch[u])'
          PROVE  ~Clash(g, q)
      <4>1. batch[u] \in Shards /\ (u = t \/ pc[u] = "fineGrant")
        BY <1>4, <2>6, <3>1, <3>3 DEF Control
      <4>2. g \in Settled(v, batch[u])
        <5>1. Settled(v, batch[u])' = Settled(v, batch[u])
          <6>1. PICK s \in Shards : s = batch[u]
            BY <4>1
          <6>2. Settled(v, s)' = Settled(v, s)
            BY <2>8
          <6> QED
            BY <1>3, <6>1, <6>2 DEF Settled
        <5> QED
          BY <5>1
      <4> QED
        BY <2>9, <3>1, <4>1, <4>2 DEF Apart
    <3> QED
      BY <1>3, <2>5, <3>1, <3>2, <3>3 DEF Apart, Clash
  <2>11. \A u \in Txns : ThreadInv(u)'
    BY <1>2, <2>2, FrameThread DEF IInv
  <2> QED
    BY <1>1, <2>3, <2>4, <2>10, <2>11 DEF IInv
<1> QED
  BY <1>5, <1>6 DEF FineRecheck

\* A fine batch enters its shard, or fails.
LEMMA FineGrantInv ==
    ASSUME IInv, NEW t \in Txns, FineGrant(t)
    PROVE  IInv'
<1>1. TypeOK /\ ThreadInv(t) /\ ShardOwned /\ CountExact /\ pc[t] = "fineGrant"
  BY DEF IInv, FineGrant
<1>2. /\ cur[t] = NoGrant /\ dropping[t] = {} /\ Requesting(t) /\ batch[t] \in Shards
      /\ calls[t] \in Nat \ {0} /\ \A q \in todo[t] : ~IsCoarse(q.res)
  BY <1>1 DEF ThreadInv, Control, Requesting, TypeOK
<1>3. TypeOK'
  BY <1>1, <1>2, FineGrantType
<1>4. \A u \in Txns \ {t} : Same(u)
  <2> SUFFICES ASSUME NEW u \in Txns \ {t}
               PROVE  Same(u)
    OBVIOUS
  <2>1. /\ batch'[u] = batch[u]
        /\ UNCHANGED <<calls, cur, left, hit, removed, asked>>
    BY <1>1 DEF FineGrant, TypeOK
  <2>2. CASE FailCall(t, {}) /\ UNCHANGED holder
    BY <1>1, <2>1, <2>2 DEF FailCall, StartDrop, Same, TypeOK
  <2>3. CASE ~\E q \in Batch(t) : Blocked(t, q, {q.res})
    <3>1. /\ \E h : holder' = [holder EXCEPT ![t] = h]
          /\ \E g : grants' = [grants EXCEPT ![t] = g]
          /\ \E d : todo' = [todo EXCEPT ![t] = d]
          /\ pc' = [pc EXCEPT ![t] = "request"]
          /\ UNCHANGED <<asking, after, dropping>>
      BY <2>3 DEF FineGrant
    <3>2. /\ holder'[u] = holder[u] /\ grants'[u] = grants[u] /\ todo'[u] = todo[u]
          /\ pc'[u] = pc[u] /\ UNCHANGED <<asking, after, dropping>>
      BY <1>1, <3>1 DEF TypeOK
    <3> QED
      BY <2>1, <3>2 DEF Same
  <2> QED
    BY <2>2, <2>3 DEF FineGrant
<1>5. /\ shardLock' = [shardLock EXCEPT ![batch[t]] = None]
      /\ UNCHANGED <<activeCount, calls, cur, left, hit, removed, asked>>
  BY DEF FineGrant
<1>6. CASE FailCall(t, {}) /\ UNCHANGED holder
  <2>1. {cur[t]} \ {NoGrant} = {}
    BY <1>2
  <2>2. ThreadInv(t)' /\ Shrinks(t) /\ pc'[t] \in {"idle", "drop"}
    BY <1>1, <1>2, <1>5, <1>6, <2>1, FailThread
  <2>3. ShardOwned'
    BY <1>1, <1>4, <1>5, <2>2, ShardReleased
  <2>4. CountExact'
    BY <1>1, <1>4, <1>5, <1>6, <2>2, CountStill
  <2> QED
    BY <1>3, <1>4, <2>2, <2>3, <2>4, OneThread
<1>7. CASE \A q \in Batch(t) : ~Blocked(t, q, {q.res})
  <2> DEFINE E(q) == [call |-> calls[t], res |-> q.res, mode |-> q.mode,
                      prev |-> holder[t][q.res].mode]
             New == {E(q) : q \in Batch(t)}
  <2>1. /\ Batch(t) \subseteq todo[t]
        /\ \A q \in Batch(t) : /\ q.res \in Resources /\ q.res \in FineResources
                               /\ q.mode \in Modes /\ q.mode \in ModesOf(t, q.res)
                               /\ ShardIndex[q.res] = batch[t]
        /\ \A q, p \in Batch(t) : q.res = p.res => q = p
    BY <1>1, <1>2, SMTT(20) DEF Batch, TypeOK, Requests, FineResources, ThreadInv, ToDo
  <2>2. /\ grants'[t] = grants[t] \cup New /\ todo'[t] = todo[t] \ Batch(t)
        /\ pc'[t] = "request"
        /\ UNCHANGED <<asking, after, dropping>>
    <3>1. /\ grants' = [grants EXCEPT ![t] = grants[t] \cup New]
          /\ todo' = [todo EXCEPT ![t] = todo[t] \ Batch(t)]
          /\ pc' = [pc EXCEPT ![t] = "request"]
          /\ UNCHANGED <<asking, after, dropping>>
      BY <1>7 DEF FineGrant
    <3> QED
      BY <1>1, <3>1 DEF TypeOK
  <2>3. /\ \A r \in Resources : (\A q \in Batch(t) : q.res # r) => holder'[t][r] = holder[t][r]
        /\ \A q \in Batch(t) : holder'[t][q.res] = GrantHolder(holder[t][q.res], q.mode)
    <3> DEFINE H == [r \in Resources |->
                       IF \E q \in Batch(t) : q.res = r
                       THEN GrantHolder(holder[t][r], (CHOOSE q \in Batch(t) : q.res = r).mode)
                       ELSE holder[t][r]]
    <3>1. holder' = [holder EXCEPT ![t] = H]
      BY <1>7 DEF FineGrant
    <3>2. holder'[t] = H
      BY <1>1, <3>1 DEF TypeOK
    <3>3. \A q \in Batch(t) : (CHOOSE p \in Batch(t) : p.res = q.res) = q
      BY <2>1
    <3>4. ASSUME NEW q \in Batch(t)
          PROVE  holder'[t][q.res] = GrantHolder(holder[t][q.res], q.mode)
      <4>1. q.res \in Resources /\ H[q.res] = GrantHolder(holder[t][q.res],
                                                      (CHOOSE p \in Batch(t) : p.res = q.res).mode)
        BY <2>1
      <4> QED
        BY <3>2, <3>3, <4>1
    <3>5. ASSUME NEW r \in Resources, \A q \in Batch(t) : q.res # r
          PROVE  holder'[t][r] = holder[t][r]
      BY <3>2, <3>5
    <3> QED
      BY <3>4, <3>5
  <2>4. \A e \in New : \E q \in Batch(t) : e = E(q) /\ e.call = calls[t] /\ e.res = q.res
                                           /\ e.mode = q.mode
    BY SMTT(20)
  <2>5. \A q \in Batch(t) : /\ E(q) \in New /\ E(q).call = calls[t] /\ E(q).res = q.res
                            /\ E(q).mode = q.mode
    OBVIOUS
  <2>6. Kept(t) = grants[t] /\ Kept(t)' = grants[t] \cup New
    BY <1>2, <1>5, <2>2 DEF Kept
  <2>7. Requesting(t)' /\ ~Escalating(t) /\ ~Escalating(t)'
    BY <1>1, <2>2 DEF Requesting, Escalating
  <2>8. Books(t)'
    <3> SUFFICES ASSUME NEW r \in Resources
                 PROVE  BookAt(t, r, holder'[t][r], At(grants[t] \cup New, r),
                               At(dropping[t], r))
      BY <2>2, <2>6 DEF Books
    <3>1. /\ BookAt(t, r, holder[t][r], At(grants[t], r), At(dropping[t], r))
          /\ At(dropping[t], r) = {}
      BY <1>1, <1>2, <2>6 DEF ThreadInv, Books, At
    <3>2. CASE \A q \in Batch(t) : q.res # r
      <4>1. At(grants[t] \cup New, r) = At(grants[t], r)
        BY <2>4, <3>2 DEF At
      <4> QED
        BY <2>3, <3>1, <3>2, <4>1
    <3>3. ASSUME NEW q \in Batch(t), q.res = r
          PROVE  BookAt(t, r, holder'[t][r], At(grants[t] \cup New, r), At(dropping[t], r))
      <4>1. At(grants[t] \cup New, r) = At(grants[t], r) \cup {E(q)}
        <5> HIDE DEF New, E
        <5>1. ASSUME NEW e \in New
              PROVE  e.res = r <=> e = E(q)
          <6>1. PICK p \in Batch(t) : e = E(p) /\ e.res = p.res
            BY <2>4
          <6>2. p.res = q.res => p = q
            BY <2>1, <3>3
          <6>3. E(q).res = q.res
            BY <2>5
          <6> QED
            BY <3>3, <6>1, <6>2, <6>3
        <5>2. E(q) \in New
          BY <2>5
        <5> QED
          BY <5>1, <5>2 DEF At
      <4>2. \A g \in At(grants[t], r) : g.call < calls[t]
        <5>1. \A g \in grants[t] : g.call \in Nat /\ g.call <= calls[t]
          BY <1>1, GrantTypes DEF ThreadInv, Control
        <5>2. \A g \in grants[t] : g.call = calls[t] => g.res # q.res
          BY <1>1, <2>1, <2>6 DEF ThreadInv, ToDo
        <5> QED
          BY <1>2, <3>3, <5>1, <5>2, SMTT(20) DEF At
      <4>3. BookAt(t, r, GrantHolder(holder[t][r], q.mode), At(grants[t], r) \cup {E(q)}, {})
        BY <1>2, <2>1, <3>1, <3>3, <4>2, BookInsert
      <4> QED
        BY <2>3, <3>1, <3>3, <4>1, <4>3
    <3> QED
      BY <3>2, <3>3
  <2> HIDE DEF New, E
  <2>9. Control(t)'
    <3>1. \A g \in grants'[t] \cup dropping'[t] : g.call <= calls[t]
      <4>1. \A g \in grants[t] \cup dropping[t] : g.call <= calls[t]
        BY <1>1 DEF ThreadInv, Control
      <4>2. \A g \in New : g.call = calls[t]
        BY <2>4
      <4>3. calls[t] <= calls[t]
        BY <1>2, SMTT(20)
      <4> QED
        BY <2>2, <4>1, <4>2, <4>3
    <3> QED
      BY <1>2, <1>5, <2>2, <3>1 DEF Control
  <2>10. ToDo(t)'
    <3>1. ASSUME NEW p \in todo'[t], NEW g \in New
          PROVE  g.res # p.res
      <4>1. PICK q \in Batch(t) : g.res = q.res
        BY <2>4
      <4>2. p \in todo[t] /\ p \notin Batch(t)
        BY <2>2
      <4>3. ShardIndex[p.res] # batch[t] /\ ShardIndex[q.res] = batch[t]
        BY <2>1, <4>2 DEF Batch
      <4> QED
        BY <4>1, <4>3
    <3>2. todo'[t] \subseteq todo[t]
      BY <2>2
    <3> QED
      BY <1>1, <1>2, <1>5, <2>2, <2>6, <2>7, <3>1, <3>2, SMTT(20) DEF ThreadInv, ToDo
  <2>11. AskedHeld(t)'
    <3>1. ASSUME NEW o \in asking[t]
          PROVE  \/ \E p \in todo'[t] : p.res = o.res /\ StandsFor(p, o)
                 \/ \E g \in Kept(t)' : g.call = calls[t] /\ StandsFor(g, o)
      <4>1. \/ \E p \in todo[t] : p.res = o.res /\ StandsFor(p, o)
            \/ \E g \in Kept(t) : g.call = calls[t] /\ StandsFor(g, o)
        BY <1>1, <1>2 DEF ThreadInv, AskedHeld
      <4>2. ASSUME NEW p \in Batch(t), p.res = o.res, StandsFor(p, o)
            PROVE  \E g \in Kept(t)' : g.call = calls[t] /\ StandsFor(g, o)
        <5>1. E(p) \in Kept(t)' /\ E(p).call = calls[t]
          BY <2>5, <2>6
        <5>2. StandsFor(E(p), o)
          BY <2>5, <4>2 DEF StandsFor
        <5> QED
          BY <5>1, <5>2
      <4> QED
        BY <2>2, <2>6, <4>1, <4>2
    <3>2. ASSUME NEW a \in asked[t]
          PROVE  /\ a.mode \in ModesOf(t, a.res) /\ a.call <= calls[t] /\ a.call < calls[t]
                 /\ \E g \in grants'[t] : g.call = a.call /\ StandsFor(g, a)
      BY <1>1, <1>2, <2>2 DEF ThreadInv, AskedHeld
    <3>3. \A q \in asking[t] : q.mode \in ModesOf(t, q.res)
      BY <1>1 DEF ThreadInv, AskedHeld
    <3> QED
      BY <1>5, <2>2, <2>7, <3>1, <3>2, <3>3 DEF AskedHeld
  <2>12. ShardOwned'
    BY <1>1, <1>4, <1>5, <2>2, ShardReleased
  <2>13. CountExact'
    <3>1. \A r \in CoarseResources : holder'[t][r] = holder[t][r]
      BY <2>1, <2>3 DEF CoarseResources
    <3> QED
      BY <1>1, <1>4, <1>5, <2>2, <3>1, CountStill
  <2>14. /\ Coarse(t)' = Coarse(t)
         /\ \A g \in Fine(t)' : g \in Fine(t) \/ g \in New
         /\ \A s \in Shards : Settled(t, s)' = Settled(t, s)
    <3>1. \A g \in New : ~IsCoarse(g.res)
      BY <2>1, <2>4, SMTT(20) DEF FineResources
    <3>2. Coarse(t)' = Coarse(t) /\ \A g \in Fine(t)' : g \in Fine(t) \/ g \in New
      BY <2>2, <2>6, <3>1 DEF Coarse, Fine
    <3>3. \A g \in grants[t] : g # NoGrant
      BY <1>1, SMTT(20) DEF TypeOK, Grant, NoGrant
    <3>4. \A s \in Shards : Settled(t, s)' = Settled(t, s)
      BY <1>2, <1>5, <2>6, <3>2, <3>3 DEF Settled, Coarse
    <3> QED
      BY <3>2, <3>4
  <2>15. ASSUME ComparableModes, NEW u \in Txns, u # t, NEW h \in Fine(u), NEW e \in New
         PROVE  ~Clash(h, e) /\ ~Clash(e, h)
    <3> SUFFICES ASSUME Clash(h, e) \/ Clash(e, h)
                 PROVE  FALSE
      OBVIOUS
    <3>1. PICK q \in Batch(t) : e.res = q.res /\ e.mode = q.mode
      BY <2>4
    <3>2. Clash(h, q) \/ Clash(q, h)
      BY <3>1 DEF Clash
    <3>3. h.res \in FineResources
      BY <1>1, FineShard
    <3>4. h.res = q.res
      BY <2>1, <3>2, <3>3, FineExact DEF Clash, GrantsConflict
    <3>5. h \in Kept(u) /\ Books(u)
      BY DEF Fine, Kept, IInv, ThreadInv
    <3> QED
      BY <1>1, <1>7, <2>1, <2>15, <3>2, <3>4, <3>5, BlockerSeen
  <2>16. ComparableModes => NoClash'
    <3> SUFFICES ASSUME ComparableModes, NEW v \in Txns, NEW u \in Txns, v # u
                 PROVE  Apart(v, u)'
      BY DEF NoClash
    <3>1. Apart(v, u) /\ Control(u)
      BY DEF IInv, NoClash, ThreadInv
    <3>2. \A w \in Txns \ {t} : Shrinks(w)
      BY <1>4, FrameShrinks
    <3>3. \A w \in Txns : /\ Coarse(w)' \subseteq Coarse(w)
                          /\ \A s \in Shards : Settled(w, s)' \subseteq Settled(w, s)
      BY <2>14, <3>2 DEF Shrinks
    <3>4. \A g \in Coarse(v)', k \in Coarse(u)' : ~Clash(g, k)
      BY <3>1, <3>3 DEF Apart
    <3>5. \A g \in Fine(v)', k \in Fine(u)' : ~Clash(g, k)
      <4>1. CASE v = t
        BY <2>14, <2>15, <3>1, <3>2, <4>1 DEF Apart, Shrinks
      <4>2. CASE u = t
        BY <2>14, <2>15, <3>1, <3>2, <4>2 DEF Apart, Shrinks
      <4>3. CASE v # t /\ u # t
        BY <3>1, <3>2, <4>3 DEF Apart, Shrinks
      <4> QED
        BY <4>1, <4>2, <4>3
    <3>6. ASSUME NEW k \in Fine(u)', NEW g \in Settled(v, ShardIndex[k.res])'
          PROVE  (g = cur'[v] /\ hit'[v]) \/ ~Clash(g, k)
      <4>1. ShardIndex[k.res] \in Shards
        BY <1>3, LockAssumption, SMTT(20) DEF TypeOK, Fine, Grant, FineResources
      <4>2. g \in Settled(v, ShardIndex[k.res]) /\ cur' = cur /\ hit' = hit
        BY <1>5, <3>3, <4>1
      <4>3. CASE k \in Fine(u)
        BY <3>1, <4>2, <4>3 DEF Apart
      <4>4. CASE k \notin Fine(u)
        <5>1. u = t /\ k \in New
          BY <2>14, <3>2, <4>4 DEF Shrinks
        <5>2. PICK q \in Batch(t) : k.res = q.res /\ k.mode = q.mode
          BY <2>4, <5>1
        <5>3. g \in Settled(v, batch[t])
          BY <2>1, <4>2, <5>2
        <5>4. ~Clash(g, q)
          BY <1>1, <3>1, <5>1, <5>3 DEF Apart
        <5> QED
          BY <5>2, <5>4 DEF Clash
      <4> QED
        BY <4>3, <4>4
    <3>7. ASSUME pc'[u] = "fineGrant", NEW p \in Batch(u)', NEW g \in Settled(v, batch[u])'
          PROVE  ~Clash(g, p)
      <4>1. u # t
        BY <2>2, <3>7
      <4>2. /\ pc[u] = "fineGrant" /\ p \in Batch(u) /\ batch'[u] = batch[u]
            /\ batch[u] \in Shards
        BY <3>1, <3>2, <3>7, <4>1 DEF Shrinks, Control
      <4>3. g \in Settled(v, batch[u])
        BY <3>3, <4>2 DEF Settled
      <4> QED
        BY <3>1, <4>2, <4>3 DEF Apart
    <3> QED
      BY <3>4, <3>5, <3>6, <3>7 DEF Apart, Clash
  <2>17. \A u \in Txns : ThreadInv(u)'
    BY <1>4, <2>8, <2>9, <2>10, <2>11, FrameThread DEF IInv, ThreadInv
  <2> QED
    BY <1>3, <2>12, <2>13, <2>16, <2>17 DEF IInv
<1> QED
  BY <1>6, <1>7 DEF FineGrant

-----------------------------------------------------------------------------

\* The invariant holds at the start.
LEMMA InitInv == Init => IInv
<1> SUFFICES ASSUME Init
             PROVE  IInv
  OBVIOUS
<1>1. TypeOK
  BY InitType
<1>2. ASSUME NEW t \in Txns
      PROVE  ThreadInv(t)
  <2>1. /\ grants[t] = {} /\ cur[t] = NoGrant /\ dropping[t] = {} /\ pc[t] = "idle"
        /\ todo[t] = {} /\ asking[t] = {} /\ asked[t] = {}
        /\ \A r \in Resources : holder[t][r] = NoHolder
    BY DEF Init
  <2>2. Kept(t) = {}
    BY <2>1 DEF Kept
  <2>3. Books(t)
    <3>1. \A r \in Resources : At(Kept(t), r) = {} /\ At(dropping[t], r) = {}
      BY <2>1, <2>2 DEF At
    <3> QED
      BY <2>1, <3>1, BookEmpty DEF Books
  <2>4. ~Requesting(t) /\ ~Escalating(t)
    BY <2>1 DEF Requesting, Escalating
  <2>5. Control(t) /\ ToDo(t) /\ AskedHeld(t)
    BY <2>1, <2>2, <2>4 DEF Control, ToDo, AskedHeld
  <2> QED
    BY <2>3, <2>5 DEF ThreadInv
<1>3. ShardOwned
  BY DEF Init, ShardOwned
<1>4. CountExact
  <2>1. Counted = {} /\ Retiring = {}
    BY SMTT(20) DEF Init, Counted, Retiring, Holds, NoHolder, CoarseResources
  <2> QED
    BY <2>1, FS_EmptySet, SMTT(20) DEF Init, CountExact
<1>5. NoClash
  <2>1. \A t \in Txns : Coarse(t) = {} /\ Fine(t) = {} /\ pc[t] # "fineGrant"
    BY DEF Init, Coarse, Fine, Kept
  <2> QED
    BY <2>1 DEF NoClash, Apart
<1> QED
  BY <1>1, <1>2, <1>3, <1>4, <1>5 DEF IInv

\* The invariant depends on the variables of the lock manager alone.
LEMMA StutterInv ==
    ASSUME IInv, UNCHANGED vars
    PROVE  IInv'
<1>1. \A u \in Txns : Same(u)
  BY DEF vars, table, thread, sets, Same
<1>2. TypeOK'
  BY DEF IInv, TypeOK, vars, table, thread, sets
<1>3. \A u \in Txns : ThreadInv(u)' /\ Shrinks(u) /\ Control(u)
  BY <1>1, FrameThread, FrameShrinks DEF IInv, ThreadInv
<1>4. ComparableModes => NoClash'
  BY <1>2, <1>3, ClashShrinks DEF IInv
<1>5. ShardOwned'
  BY DEF IInv, ShardOwned, vars, table, thread
<1>6. Counted' = Counted /\ Retiring' = Retiring /\ activeCount' = activeCount
  BY DEF Counted, Retiring, Holds, CoarseResources, FineResources, vars, table, thread
<1>7. CountExact'
  BY <1>6 DEF IInv, CountExact
<1> QED
  BY <1>2, <1>3, <1>4, <1>5, <1>7 DEF IInv

\* Every step of the lock manager preserves the invariant.
LEMMA NextInv ==
    ASSUME IInv, Next
    PROVE  IInv'
<1>1. PICK t \in Txns : \/ \E R \in Calls[t] : Call(t, R)
                        \/ Step(t)
                        \/ \E n \in 0 .. calls[t] : RollbackToSavepoint(t, n)
                        \/ End(t)
  BY DEF Next
<1>2. CASE \E R \in Calls[t] : Call(t, R)
  BY <1>2, CallInv
<1>3. CASE Step(t)
  <2>1. CASE \E q \in todo[t] : CoarseInsert(t, q) \/ CoarseBlocked(t, q)
    BY <2>1, CoarseInsertInv, CoarseBlockedInv
  <2>2. CASE Announce(t)
    BY <2>2, AnnounceInv
  <2>3. CASE \E s \in Shards : Scan(t, s)
    BY <2>3, ScanInv
  <2>4. CASE CoarseGranted(t) \/ CoarseRefused(t)
    BY <2>4, CoarseGrantedInv, CoarseRefusedInv
  <2>5. CASE \E s \in Shards : FineLoad(t, s)
    BY <2>5, FineLoadInv
  <2>6. CASE FineCheck(t) \/ FineLock(t)
    BY <2>6, FineCheckInv, FineLockInv
  <2>7. CASE FineRecheck(t) \/ FineGrant(t)
    BY <2>7, FineRecheckInv, FineGrantInv
  <2>8. CASE AllGranted(t) \/ Return(t)
    BY <2>8, AllGrantedInv, ReturnInv
  <2>9. CASE \E g \in dropping[t] : Drop(t, g)
    BY <2>9, DropInv
  <2>10. CASE Retire(t)
    BY <2>10, RetireInv
  <2> QED
    BY <1>3, <2>1, <2>2, <2>3, <2>4, <2>5, <2>6, <2>7, <2>8, <2>9, <2>10 DEF Step
<1>4. CASE \E n \in 0 .. calls[t] : RollbackToSavepoint(t, n)
  BY <1>4, RollbackInv
<1>5. CASE End(t)
  BY <1>5, EndInv
<1> QED
  BY <1>1, <1>2, <1>3, <1>4, <1>5

\* What is held does not conflict, so what was asked for does not either.
LEMMA InvExcludes ==
    ASSUME ComparableModes, IInv
    PROVE  Exclusion
<1> SUFFICES ASSUME NEW t \in Txns, NEW u \in Txns, t # u, NEW a \in asked[t], NEW b \in asked[u],
                    GrantsConflict(a.res, a.mode, b.res, b.mode)
             PROVE  FALSE
  BY DEF Exclusion
<1>1. TypeOK /\ AskedHeld(t) /\ AskedHeld(u) /\ Control(t) /\ Control(u)
  BY DEF IInv, ThreadInv
<1>2. PICK g \in grants[t] : StandsFor(g, a)
  BY <1>1 DEF AskedHeld
<1>3. PICK h \in grants[u] : StandsFor(h, b)
  BY <1>1 DEF AskedHeld
<1>4. /\ a.res \in Resources /\ b.res \in Resources /\ a.mode \in Modes /\ b.mode \in Modes
      /\ a.mode \in ModesOf(t, a.res) /\ b.mode \in ModesOf(u, b.res)
  BY <1>1, GrantTypes DEF AskedHeld
<1>5. /\ g \in Grant /\ g.res \in Resources /\ g.mode \in Modes /\ g \in Kept(t) /\ g # NoGrant
      /\ h \in Grant /\ h.res \in Resources /\ h.mode \in Modes /\ h \in Kept(u) /\ h # NoGrant
  BY <1>1, GrantTypes DEF Kept
<1>6. g.mode \in ModesOf(t, g.res) /\ h.mode \in ModesOf(u, h.res)
  <2>1. /\ BookAt(t, g.res, holder[t][g.res], At(Kept(t), g.res), At(dropping[t], g.res))
        /\ BookAt(u, h.res, holder[u][h.res], At(Kept(u), h.res), At(dropping[u], h.res))
    BY <1>5 DEF IInv, ThreadInv, Books
  <2>2. g \in At(Kept(t), g.res) /\ h \in At(Kept(u), h.res)
    BY <1>5 DEF At
  <2> QED
    BY <2>1, <2>2 DEF BookAt
<1>7. GrantsConflict(g.res, g.mode, b.res, b.mode)
  BY <1>2, <1>4, <1>5, <1>6, StandInConflict
<1>8. GrantsConflict(b.res, b.mode, g.res, g.mode)
  BY <1>4, <1>5, <1>7, GrantsSymmetric
<1>9. GrantsConflict(h.res, h.mode, g.res, g.mode)
  BY <1>3, <1>4, <1>5, <1>6, <1>8, StandInConflict
<1>10. Clash(h, g) /\ Clash(g, h)
  BY <1>5, <1>9, GrantsSymmetric DEF Clash
<1>11. Apart(t, u) /\ Apart(u, t)
  BY DEF IInv, NoClash
<1>12. cur[t] # g /\ cur[u] # h
  BY <1>1, <1>5 DEF Control
<1>13. /\ IsCoarse(g.res) => g \in Coarse(t) /\ \A s : g \in Settled(t, s)
       /\ IsCoarse(h.res) => h \in Coarse(u) /\ \A s : h \in Settled(u, s)
       /\ ~IsCoarse(g.res) => g \in Fine(t)
       /\ ~IsCoarse(h.res) => h \in Fine(u)
  BY <1>5, <1>12 DEF Coarse, Settled, Fine
<1> QED
  BY <1>10, <1>11, <1>12, <1>13 DEF Apart

\* The books are those RefsBalanced and KeptModes speak of.
LEMMA InvBalanced ==
    ASSUME IInv
    PROVE  RefsBalanced /\ KeptModes
<1>1. ASSUME NEW t \in Txns, NEW r \in Resources
      PROVE  holder[t][r].refs = Cardinality({g \in Live(t) : g.res = r})
  <2>1. {g \in Live(t) : g.res = r} = At(Kept(t), r) \cup At(dropping[t], r)
    BY DEF Live, Kept, At
  <2> QED
    <3>1. BookAt(t, r, holder[t][r], At(Kept(t), r), At(dropping[t], r))
      BY DEF IInv, ThreadInv, Books
    <3> QED
      BY <2>1, <3>1 DEF BookAt
<1>2. ASSUME NEW t \in Txns, NEW g \in grants[t]
      PROVE  Holds(t, g.res) /\ Strength(holder[t][g.res].mode) >= Strength(g.mode)
  <2>1. g.res \in Resources /\ g \in At(Kept(t), g.res)
    BY GrantTypes DEF IInv, Kept, At
  <2>2. BookAt(t, g.res, holder[t][g.res], At(Kept(t), g.res), At(dropping[t], g.res))
    BY <2>1 DEF IInv, ThreadInv, Books
  <2>3. holder[t][g.res].refs \in Nat /\ holder[t][g.res].refs # 0
    BY <2>1, <2>2, FS_EmptySet DEF BookAt
  <2> QED
    BY <2>1, <2>2, <2>3, SMTT(30) DEF BookAt, Holds
<1> QED
  BY <1>1, <1>2 DEF IInv, CountExact, RefsBalanced, KeptModes

\* The invariant always holds.
LEMMA InvHolds == Spec => []IInv
<1>1. Init => IInv
  BY InitInv
<1>2. IInv /\ [Next]_vars => IInv'
  BY NextInv, StutterInv
<1> QED
  BY <1>1, <1>2, PTL DEF Spec

\* For every set of transactions, resources, shards and calls in which no
\* transaction asks for one resource in two incomparable modes and none asks for
\* predicates, what two transactions were told they hold never conflicts
\* (lock_many, try_escalate, release_locks).
THEOREM LockExclusion ==
    ASSUME ComparableModes
    PROVE  Spec => []Exclusion
<1>1. IInv => Exclusion
  BY InvExcludes
<1> QED
  BY <1>1, InvHolds, PTL

\* Whatever the transactions ask for, the reference counts and
\* coarse_active_count are exact, whichever calls fail, escalate or are rolled
\* back (LockTableShard::grant, LockTableShard::release, release_coarse_lock).
THEOREM LockBalance == Spec => []RefsBalanced
<1>1. IInv => RefsBalanced
  BY InvBalanced
<1> QED
  BY <1>1, InvHolds, PTL

\* Whatever the transactions ask for, a lock still held is as strong as it was
\* granted, although sets are dropped first to last (rollback_to_savepoint,
\* LockTableShard::release).
THEOREM LockModesKept == Spec => []KeptModes
<1>1. IInv => KeptModes
  BY InvBalanced
<1> QED
  BY <1>1, InvHolds, PTL

-----------------------------------------------------------------------------
(* Ranges of hashes. *)

LEMMA SmallModulus ==
    ASSUME NEW n \in Nat \ {0}, NEW x \in Int
    PROVE  /\ 0 <= x /\ x < n => x % n = x
           /\ -n < x /\ x < 0 => x % n = x + n
  BY SMTT(20)

\* hash_in_range decides the distance from the start of the range, modulo the
\* number of hashes.
LEMMA RangeDistance ==
    ASSUME NEW n \in Nat \ {0}, NEW h \in Nat, NEW start \in Nat, NEW end \in Nat,
           h < n, start < n, end < n, ~HashInRange(h, start, end)
    PROVE  (h - start) % n > (end - start) % n
<1> DEFINE x == h - start
           y == end - start
<1>1. /\ x \in Int /\ y \in Int
      /\ IF y >= 0 THEN x < 0 \/ x > y ELSE x < 0 /\ x > y
      /\ -n < x /\ x < n /\ -n < y /\ y < n /\ x - y > -n
  BY SMTT(20) DEF HashInRange
<1> HIDE DEF x, y
<1>2. /\ 0 <= x /\ x < n => x % n = x
      /\ -n < x /\ x < 0 => x % n = x + n
      /\ 0 <= y /\ y < n => y % n = y
      /\ -n < y /\ y < 0 => y % n = y + n
  BY <1>1, SmallModulus
<1>3. x % n > y % n
  BY <1>1, <1>2, SMTT(20)
<1> QED
  BY <1>3 DEF x, y

LEMMA ExclusionOfRanges ==
    ASSUME TypeOK, Exclusion
    PROVE  RangeExcludesKeys
<1> SUFFICES ASSUME NEW t \in Txns, NEW u \in Txns, t # u,
                    NEW a \in asked[t], NEW b \in asked[u],
                    a.res.kind = "Range", a.mode = "X", b.res.kind = "PrimaryKey",
                    SameTablet(a.res, b.res)
             PROVE  (b.res.lo - a.res.lo) % HashSpace > (a.res.hi - a.res.lo) % HashSpace
  BY DEF RangeExcludesKeys
<1>1. a.res \in Resources /\ b.res \in Resources
  BY GrantTypes
<1>2. /\ b.res.lo \in Nat /\ a.res.lo \in Nat /\ a.res.hi \in Nat /\ HashSpace \in Nat \ {0}
      /\ b.res.lo < HashSpace /\ a.res.lo < HashSpace /\ a.res.hi < HashSpace
  BY <1>1, LockAssumption, SMTT(20)
<1>3. ~GrantsConflict(a.res, a.mode, b.res, b.mode)
  BY DEF Exclusion
<1>4. ~CompatibleWith(a.mode, b.mode)
  BY SMTT(20) DEF CompatibleWith
<1>5. ~ProperAncestorIntent(a.res, a.mode, b.res) /\ ~ProperAncestorIntent(b.res, b.mode, a.res)
  BY SMTT(20) DEF ProperAncestorIntent
<1>6. ~ConflictsWith(a.res, b.res)
  BY <1>3, <1>4, <1>5 DEF GrantsConflict
<1>7. ~HashInRange(b.res.lo, a.res.lo, a.res.hi)
  BY <1>6 DEF ConflictsWith
<1> QED
  BY <1>2, <1>7, RangeDistance

\* For all ranges, the ones that wrap past the largest hash included, and all
\* interleavings, under the condition of LockExclusion: nobody holds a key whose
\* hash is in a range another transaction holds exclusively (hash_in_range,
\* conflicts_with, lock_many).
THEOREM LockRanges ==
    ASSUME ComparableModes
    PROVE  Spec => []RangeExcludesKeys
<1>1. IInv => RangeExcludesKeys
  BY InvExcludes, ExclusionOfRanges DEF IInv
<1> QED
  BY <1>1, InvHolds, PTL
=============================================================================

------------------------- MODULE CommitAnswerProofs -------------------------
(* What a submitter is told.  A submitted commit waits in one place at a    *)
(* time (one of the three queues, the drain owner's buffer or its batch);   *)
(* once it has left them it is in the journal once, or never.  From that:   *)
(* who can be told what by which step, that an ambiguous answer finds the   *)
(* runtime poisoned, and that an acknowledged commit is on its way to the   *)
(* readers.                                                                 *)
EXTENDS CommitRuntimeProofs

(* A leaf that names no prover goes to Zenon; SMT does the arithmetic, and  *)
(* the records and sets of records.                                         *)
USE ZenonT(100)

----------------------------------------------------------------------------
(* Sequences without repetitions, and the places a commit can wait in.      *)
NoRepeat(s) == \A i, j \in 1 .. Len(s) : s[i] = s[j] => i = j

LEMMA TakeOnce ==
    ASSUME NEW S, NEW s \in Seq(S), s # <<>>
    PROVE  /\ Elems(s) = {Head(s)} \cup Elems(Tail(s))
           /\ NoRepeat(s) => NoRepeat(Tail(s)) /\ Head(s) \notin Elems(Tail(s))
  <1>1. Len(Tail(s)) = Len(s) - 1 /\ \A i \in 1 .. Len(Tail(s)) : Tail(s)[i] = s[i + 1]
    BY HeadTailProperties, SMT
  <1>2. Len(s) \in Nat /\ Len(s) > 0 /\ Head(s) = s[1]
    BY SMT
  <1> DEFINE t == Tail(s)
             h == Head(s)
             n == Len(s)
  <1> HIDE DEF t, h, n
  <1>3. /\ n \in Nat /\ n > 0 /\ h = s[1] /\ Len(t) = n - 1
        /\ \A i \in 1 .. n - 1 : t[i] = s[i + 1]
    BY <1>1, <1>2, SMT DEF t, h, n
  <1>4. \A e : (\E i \in 1 .. n : e = s[i]) <=> (e = h \/ \E i \in 1 .. n - 1 : e = t[i])
    <2> TAKE e
    <2>1. ASSUME NEW i \in 1 .. n, e = s[i], e # h
          PROVE  \E j \in 1 .. n - 1 : e = t[j]
      <3>1. i - 1 \in 1 .. n - 1 /\ t[i - 1] = s[i]
        BY <1>3, <2>1, SMT
      <3>2. QED
        BY <2>1, <3>1
    <2>2. ASSUME NEW i \in 1 .. n - 1, e = t[i]
          PROVE  \E j \in 1 .. n : e = s[j]
      <3>1. i + 1 \in 1 .. n /\ t[i] = s[i + 1]
        BY <1>3, SMT
      <3>2. QED
        BY <2>2, <3>1
    <2>3. 1 \in 1 .. n
      BY <1>3, SMT
    <2>4. QED
      BY <1>3, <2>1, <2>2, <2>3
  <1>5. Elems(s) = {h} \cup Elems(t)
    <2>1. Len(s) = n /\ Len(t) = n - 1
      BY <1>3 DEF n
    <2>2. \A e : e \in Elems(s) <=> \E i \in 1 .. n : e = s[i]
      BY <2>1 DEF Elems
    <2>3. \A e : e \in Elems(t) <=> \E i \in 1 .. n - 1 : e = t[i]
      BY <2>1 DEF Elems
    <2>4. QED
      BY <1>4, <2>2, <2>3
  <1>6. ASSUME NoRepeat(s)
        PROVE  NoRepeat(t) /\ h \notin Elems(t)
    <2>1. \A i, j \in 1 .. n : s[i] = s[j] => i = j
      BY <1>6 DEF NoRepeat, n
    <2>2. \A i, j \in 1 .. n - 1 : t[i] = t[j] => i = j
      BY <1>3, <2>1, SMT
    <2>3. \A i \in 1 .. n - 1 : t[i] # h
      BY <1>3, <2>1, SMT
    <2>4. QED
      BY <1>3, <2>2, <2>3 DEF NoRepeat, Elems
  <1>7. QED
    BY <1>5, <1>6 DEF t, h

LEMMA PutOnce ==
    ASSUME NEW S, NEW s \in Seq(S), NEW e \in S
    PROVE  /\ Elems(Append(s, e)) = Elems(s) \cup {e}
           /\ NoRepeat(s) /\ e \notin Elems(s) => NoRepeat(Append(s, e))
  <1> DEFINE a == Append(s, e)
             n == Len(s)
  <1>1. /\ Len(a) = n + 1 /\ n \in Nat
        /\ \A i \in 1 .. n : a[i] = s[i]
        /\ a[n + 1] = e
    BY AppendProperties, SMT
  <1> HIDE DEF a
  <1>2. ASSUME NoRepeat(s), e \notin Elems(s)
        PROVE  NoRepeat(a)
    <2>1. /\ \A i, j \in 1 .. n : s[i] = s[j] => i = j
          /\ \A i \in 1 .. n : s[i] # e
      BY <1>2 DEF NoRepeat, Elems
    <2>2. \A i, j \in 1 .. n + 1 : a[i] = a[j] => i = j
      BY <1>1, <2>1, SMT
    <2>3. QED
      BY <1>1, <2>2 DEF NoRepeat
  <1>3. Elems(Append(s, e)) = Elems(s) \cup {e}
    BY ElemsPut, SMT
  <1>4. QED
    BY <1>2, <1>3 DEF a

LEMMA JoinOnce ==
    ASSUME NEW S, NEW s \in Seq(S), NEW u \in Seq(S)
    PROVE  /\ Elems(s \o u) = Elems(s) \cup Elems(u)
           /\ NoRepeat(s) /\ NoRepeat(u) /\ Elems(s) \cap Elems(u) = {} => NoRepeat(s \o u)
  <1> DEFINE c == s \o u
             m == Len(s)
             n == Len(u)
  <1>1. /\ Len(c) = m + n /\ m \in Nat /\ n \in Nat
        /\ \A i \in 1 .. m : c[i] = s[i]
        /\ \A i \in m + 1 .. m + n : c[i] = u[i - m]
    BY ConcatProperties, SMT
  <1> HIDE DEF c, m, n
  <1>2. /\ \A e : e \in Elems(s) <=> \E i \in 1 .. m : e = s[i]
        /\ \A e : e \in Elems(u) <=> \E i \in 1 .. n : e = u[i]
        /\ \A e : e \in Elems(c) <=> \E i \in 1 .. m + n : e = c[i]
    <2>1. Len(s) = m /\ Len(u) = n /\ Len(c) = m + n
      BY <1>1 DEF m, n
    <2>2. QED
      BY <2>1 DEF Elems
  <1>3. \A i \in 1 .. m + n : i \in 1 .. m \/ (i \in m + 1 .. m + n /\ i - m \in 1 .. n)
    BY <1>1, SMT
  <1>4. \A i \in 1 .. n : i + m \in 1 .. m + n /\ c[i + m] = u[i]
    <2> TAKE i \in 1 .. n
    <2>1. i + m \in 1 .. m + n /\ i + m \in m + 1 .. m + n /\ (i + m) - m = i
      BY <1>1, SMT
    <2>2. QED
      BY <1>1, <2>1
  <1>5. \A i \in 1 .. m : i \in 1 .. m + n
    BY <1>1, SMT
  <1>6. Elems(c) = Elems(s) \cup Elems(u)
    <2>1. ASSUME NEW e \in Elems(c) PROVE e \in Elems(s) \cup Elems(u)
      <3>1. PICK i \in 1 .. m + n : e = c[i]
        BY <1>2
      <3>2. CASE i \in 1 .. m
        BY <1>1, <1>2, <3>1, <3>2
      <3>3. CASE i \in m + 1 .. m + n /\ i - m \in 1 .. n
        BY <1>1, <1>2, <3>1, <3>3
      <3>4. QED
        BY <1>3, <3>2, <3>3
    <2>2. ASSUME NEW e \in Elems(s) PROVE e \in Elems(c)
      BY <1>1, <1>2, <1>5, SMT
    <2>3. ASSUME NEW e \in Elems(u) PROVE e \in Elems(c)
      BY <1>2, <1>4
    <2>4. QED
      BY <2>1, <2>2, <2>3
  <1>7. ASSUME NoRepeat(s), NoRepeat(u), Elems(s) \cap Elems(u) = {}
        PROVE  NoRepeat(c)
    <2>0. /\ \A i, j \in 1 .. m : s[i] = s[j] => i = j
          /\ \A i, j \in 1 .. n : u[i] = u[j] => i = j
          /\ \A i \in 1 .. m, j \in 1 .. n : s[i] # u[j]
      BY <1>2, <1>7 DEF NoRepeat, m, n
    <2>1. ASSUME NEW i \in 1 .. m + n, NEW j \in 1 .. m + n, c[i] = c[j]
          PROVE  i = j
      <3>1. CASE i \in 1 .. m /\ j \in 1 .. m
        BY <1>1, <2>0, <2>1, <3>1
      <3>2. CASE /\ i \in m + 1 .. m + n /\ i - m \in 1 .. n
                 /\ j \in m + 1 .. m + n /\ j - m \in 1 .. n
        <4>1. i - m = j - m
          BY <1>1, <2>0, <2>1, <3>2
        <4>2. QED
          BY <1>1, <4>1, SMT
      <3>3. CASE i \in 1 .. m /\ j \in m + 1 .. m + n /\ j - m \in 1 .. n
        BY <1>1, <2>0, <2>1, <3>3
      <3>4. CASE j \in 1 .. m /\ i \in m + 1 .. m + n /\ i - m \in 1 .. n
        BY <1>1, <2>0, <2>1, <3>4
      <3>5. QED
        BY <1>3, <3>1, <3>2, <3>3, <3>4
    <2>2. QED
      BY <1>1, <2>1 DEF NoRepeat
  <1>8. QED
    BY <1>6, <1>7 DEF c

LEMMA SuffixAt ==
    ASSUME NEW S, NEW s \in Seq(S), NEW d \in 0 .. Len(s)
    PROVE  /\ Len(SubSeq(s, d + 1, Len(s))) = Len(s) - d
           /\ \A i \in 1 .. Len(s) - d : SubSeq(s, d + 1, Len(s))[i] = s[i + d]
  BY SubSeqProperties, SMT

LEMMA SplitOnce ==
    ASSUME NEW S, NEW s \in Seq(S), NEW d \in 0 .. Len(s)
    PROVE  /\ Elems(SubSeq(s, 1, d)) \subseteq Elems(s)
           /\ Elems(SubSeq(s, d + 1, Len(s))) \subseteq Elems(s)
           /\ NoRepeat(s) => /\ NoRepeat(SubSeq(s, 1, d))
                             /\ NoRepeat(SubSeq(s, d + 1, Len(s)))
                             /\ Elems(SubSeq(s, 1, d)) \cap Elems(SubSeq(s, d + 1, Len(s))) = {}
  <1> DEFINE p == SubSeq(s, 1, d)
             q == SubSeq(s, d + 1, Len(s))
             n == Len(s)
  <1>1. /\ n \in Nat /\ d \in Nat /\ d <= n
        /\ Len(p) = d /\ \A i \in 1 .. d : p[i] = s[i]
        /\ Len(q) = n - d /\ \A i \in 1 .. n - d : q[i] = s[i + d]
    BY SubSeqProperties, SMT
  <1> HIDE DEF p, q, n
  <1>2. /\ \A e : e \in Elems(s) <=> \E i \in 1 .. n : e = s[i]
        /\ \A e : e \in Elems(p) <=> \E i \in 1 .. d : e = p[i]
        /\ \A e : e \in Elems(q) <=> \E i \in 1 .. n - d : e = q[i]
    <2>1. Len(s) = n /\ Len(p) = d /\ Len(q) = n - d
      BY <1>1 DEF n
    <2>2. \A e : e \in Elems(s) <=> \E i \in 1 .. n : e = s[i]
      BY <2>1 DEF Elems
    <2>3. \A e : e \in Elems(p) <=> \E i \in 1 .. d : e = p[i]
      BY <2>1 DEF Elems
    <2>4. \A e : e \in Elems(q) <=> \E i \in 1 .. n - d : e = q[i]
      BY <2>1 DEF Elems
    <2>5. QED
      BY <2>2, <2>3, <2>4
  <1>3. /\ \A i \in 1 .. d : i \in 1 .. n
        /\ \A i \in 1 .. n - d : i + d \in 1 .. n
        /\ \A i \in 1 .. d, j \in 1 .. n - d : i # j + d
        /\ \A i, j \in 1 .. n - d : i + d = j + d => i = j
    BY <1>1, SMT
  <1>4. Elems(p) \subseteq Elems(s) /\ Elems(q) \subseteq Elems(s)
    BY <1>1, <1>2, <1>3, SMTT(20)
  <1>5. ASSUME NoRepeat(s)
        PROVE  NoRepeat(p) /\ NoRepeat(q) /\ Elems(p) \cap Elems(q) = {}
    <2>0. \A i, j \in 1 .. n : s[i] = s[j] => i = j
      BY <1>5 DEF NoRepeat, n
    <2>1. NoRepeat(p)
      BY <1>1, <1>3, <2>0, SMT DEF NoRepeat
    <2>2. NoRepeat(q)
      BY <1>1, <1>3, <2>0, SMT DEF NoRepeat
    <2>3. \A i \in 1 .. d, j \in 1 .. n - d : p[i] # q[j]
      BY <1>1, <1>3, <2>0, SMT
    <2>4. Elems(p) \cap Elems(q) = {}
      BY <1>2, <2>3, SMT
    <2>5. QED
      BY <2>1, <2>2, <2>4
  <1>6. QED
    BY <1>4, <1>5 DEF p, q, n

----------------------------------------------------------------------------
(* The fence queue, whose batches hold one transaction each. *)

FenceOnce ==
    \A i, j \in 1 .. Len(pendingFence) :
        pendingFence[i].txn = pendingFence[j].txn => i = j

LEMMA FenceTake ==
    ASSUME QueueTypeOK, FenceOnce, pendingFence # <<>>, pendingFence' = Tail(pendingFence)
    PROVE  /\ FenceOnce' /\ FencedTxns' \subseteq FencedTxns
           /\ Head(pendingFence).txn \in FencedTxns
           /\ Head(pendingFence).txn \notin FencedTxns'
  <1> DEFINE p == pendingFence
             n == Len(p)
  <1>1. p \in Seq(FenceBlockedBatch)
    BY DEF QueueTypeOK
  <1>2. /\ n \in Nat /\ n > 0 /\ Head(p) = p[1] /\ Len(p') = n - 1
        /\ \A i \in 1 .. n - 1 : p'[i] = p[i + 1]
    BY <1>1, HeadTailProperties, SMT
  <1>3. \A i, j \in 1 .. n : p[i].txn = p[j].txn => i = j
    BY DEF FenceOnce
  <1>4. /\ FencedTxns = {p[i].txn : i \in 1 .. n}
        /\ FencedTxns' = {p'[i].txn : i \in 1 .. n - 1}
    BY <1>2 DEF FencedTxns
  <1> HIDE DEF n
  <1>5. FenceOnce'
    <2>1. \A i, j \in 1 .. n - 1 : p'[i].txn = p'[j].txn => i = j
      BY <1>2, <1>3, SMT
    <2>2. QED
      BY <1>2, <2>1 DEF FenceOnce
  <1>6. 1 \in 1 .. n /\ \A i \in 1 .. n - 1 : i + 1 \in 1 .. n /\ i + 1 # 1
    BY <1>2, SMT
  <1>7. FencedTxns' \subseteq FencedTxns
    <2>1. \A i \in 1 .. n - 1 : p'[i].txn = p[i + 1].txn /\ i + 1 \in 1 .. n
      BY <1>2, <1>6
    <2>2. QED
      BY <1>4, <2>1
  <1>8. Head(p).txn \in FencedTxns
    BY <1>2, <1>4, <1>6
  <1>9. Head(p).txn \notin FencedTxns'
    BY <1>2, <1>3, <1>4, <1>6
  <1>10. QED
    BY <1>5, <1>7, <1>8, <1>9

LEMMA FencePut ==
    ASSUME QueueTypeOK, FenceOnce, NEW t \in Txns, NEW ts \in Nat, BlockOnFence(t, ts),
           t \notin FencedTxns
    PROVE  FenceOnce' /\ FencedTxns' = FencedTxns \cup {t}
  <1> DEFINE p == pendingFence
             n == Len(p)
             e == [txn |-> t, required |-> ts, spent |-> 0]
  <1>1. p \in Seq(FenceBlockedBatch) /\ e \in FenceBlockedBatch /\ e.txn = t
    <2>1. p \in Seq(FenceBlockedBatch)
      BY DEF QueueTypeOK
    <2>2. 0 \in 0 .. BypassBudget
      BY QueueAssumption, SMT
    <2>3. e \in FenceBlockedBatch /\ e.txn = t
      BY <2>2, SMT DEF FenceBlockedBatch
    <2>4. QED
      BY <2>1, <2>3
  <1>2. p' = Append(p, e)
    BY DEF BlockOnFence
  <1> HIDE DEF e
  <1>3. /\ n \in Nat /\ Len(p') = n + 1 /\ p'[n + 1] = e
        /\ \A i \in 1 .. n : p'[i] = p[i]
    BY <1>1, <1>2, AppendProperties, SMT
  <1>4. \A i, j \in 1 .. n : p[i].txn = p[j].txn => i = j
    BY DEF FenceOnce
  <1>5. /\ FencedTxns = {p[i].txn : i \in 1 .. n}
        /\ FencedTxns' = {p'[i].txn : i \in 1 .. n + 1}
    BY <1>3 DEF FencedTxns
  <1>6. \A i \in 1 .. n : p[i].txn # t
    BY <1>5
  <1> HIDE DEF n
  <1>7. FenceOnce'
    <2>1. \A i, j \in 1 .. n + 1 : p'[i].txn = p'[j].txn => i = j
      BY <1>1, <1>3, <1>4, <1>6, SMT
    <2>2. QED
      BY <1>3, <2>1 DEF FenceOnce
  <1>8. n + 1 \in 1 .. n + 1 /\ \A i \in 1 .. n + 1 : i \in 1 .. n \/ i = n + 1
    BY <1>3, SMT
  <1>9. \A i \in 1 .. n : i \in 1 .. n + 1
    BY <1>3, SMT
  <1>10. FencedTxns' = FencedTxns \cup {t}
    <2>1. ASSUME NEW x \in FencedTxns' PROVE x \in FencedTxns \cup {t}
      BY <1>1, <1>3, <1>5, <1>8
    <2>2. ASSUME NEW x \in FencedTxns PROVE x \in FencedTxns'
      BY <1>3, <1>5, <1>9
    <2>3. t \in FencedTxns'
      BY <1>1, <1>3, <1>5, <1>8
    <2>4. QED
      BY <2>1, <2>2, <2>3
  <1>11. QED
    BY <1>7, <1>10

LEMMA FenceCharge ==
    ASSUME QueueTypeOK, FenceOnce, NEW t, ChargeBypass(t)
    PROVE  FenceOnce' /\ FencedTxns' = FencedTxns
  <1> DEFINE p == pendingFence
             n == Len(p)
  <1>1. CASE UNCHANGED pendingFence
    BY <1>1 DEF FenceOnce, FencedTxns
  <1>2. CASE RecordSnapshotBypass
    <2>1. p \in Seq(FenceBlockedBatch)
      BY DEF QueueTypeOK
    <2>2. n \in Nat /\ \A i \in 1 .. n : p[i] \in FenceBlockedBatch
      BY <2>1, SMT
    <2>3. /\ DOMAIN p' = 1 .. n
          /\ \A i \in 1 .. n : p'[i].txn = p[i].txn
      BY <1>2, <2>2, SMT DEF RecordSnapshotBypass, FenceBlockedBatch
    <2>4. Len(p') = n
      <3>1. p' \in [1 .. n -> FenceBlockedBatch]
        <4>1. p' \in Seq(FenceBlockedBatch)
          BY ChargeBypassType
        <4>2. QED
          BY <2>3, <4>1, SMT
      <3>2. QED
        BY <2>2, <3>1, SMT
    <2>5. FencedTxns' = {p'[i].txn : i \in 1 .. n}
      BY <2>4 DEF FencedTxns
    <2>6. FencedTxns' = FencedTxns
      BY <2>3, <2>5 DEF FencedTxns
    <2>7. FenceOnce'
      BY <2>3, <2>4 DEF FenceOnce
    <2>8. QED
      BY <2>6, <2>7
  <1>3. QED
    BY <1>1, <1>2 DEF ChargeBypass

----------------------------------------------------------------------------
(* The invariant. *)

InOnePlace(t) ==
    /\ t \in Elems(entries) =>
          t \notin Elems(deferred) \cup FencedTxns \cup Elems(local) \cup Elems(batch)
    /\ t \in Elems(deferred) => t \notin FencedTxns \cup Elems(local) \cup Elems(batch)
    /\ t \in FencedTxns => t \notin Elems(local) \cup Elems(batch)
    /\ t \in Elems(local) => t \notin Elems(batch)

Places ==
    /\ NoRepeat(entries) /\ NoRepeat(deferred) /\ FenceOnce
    /\ NoRepeat(local) /\ NoRepeat(batch)
    /\ \A t \in Txns : InOnePlace(t)

(* The transactions the drain owner may still sequence. *)
Waiting == PendingTxns \cup Elems(local) \cup Elems(batch)

WaitingInv ==
    \A t \in Waiting :
        /\ slot[t].st = "queued" /\ outcome[t] = "pending"
        /\ t \notin JournalTxns /\ pc[t] \notin {"start", "enqueue"}

SubmitterInv ==
    \A t \in Txns :
        /\ pc[t] = "start" => slot[t].st = "none"
        /\ pc[t] = "enqueue" => slot[t].st = "queued"
        /\ pc[t] \in {"start", "enqueue"} => t \notin JournalTxns
        /\ outcome[t] # "pending" => pc[t] \in {"done", "idle"}

JournalOnce == \A r, q \in journal : r.txn = q.txn => r = q

NondurableStates == {"not_admitted", "rejected", "failed_append"}

(* Who is told that its commit is not durable has no record in the journal. *)
NondurableInv ==
    \A t \in Txns :
        slot[t].st \in NondurableStates \/ outcome[t] \in NondurableStates =>
            t \notin JournalTxns

Once == Places /\ WaitingInv /\ SubmitterInv /\ JournalOnce /\ NondurableInv

LEMMA WaitingTxns == TypeOK => Waiting \subseteq Txns
  <1> SUFFICES ASSUME TypeOK PROVE Waiting \subseteq Txns
    OBVIOUS
  <1>1. \A s \in Seq(Txns) : Elems(s) \subseteq Txns
    BY SMT DEF Elems
  <1>2. FencedTxns \subseteq Txns
    <2>1. \A i \in 1 .. Len(pendingFence) : pendingFence[i] \in FenceBlockedBatch
      BY SMT DEF TypeOK, QueueTypeOK
    <2>2. QED
      BY <2>1, SMT DEF FencedTxns, FenceBlockedBatch
  <1>3. QED
    BY <1>1, <1>2 DEF TypeOK, QueueTypeOK, DrainTypeOK, Waiting, PendingTxns

(* What a step may do to the submitters' slots: reject some that wait, and  *)
(* tell others, whose commits are in the journal, how far these have come.  *)
Tells(R, Q, X) ==
    \A t \in Txns :
        \/ slot'[t].st = slot[t].st
        \/ t \in R /\ slot'[t].st = "rejected"
        \/ (\E q \in Q : q.txn = t) /\ slot'[t].st \in X

DurableStates ==
    {"durable", "durable_done", "submitted", "acked", "published", "failed_apply",
     "ambiguous"}

(* No submitter goes back to submitting or waiting. *)
PcOnward ==
    \A t \in Txns :
        /\ pc'[t] \in {"start", "enqueue"} => pc'[t] = pc[t]
        /\ pc[t] \in {"done", "idle"} => pc'[t] \in {"done", "idle"}

LEMMA ToldStep ==
    ASSUME TypeOK, TypeOK', Once,
           NEW R \in SUBSET Waiting, NEW Q \in SUBSET journal,
           NEW X \in SUBSET DurableStates, Tells(R, Q, X),
           Places', Waiting' \subseteq Waiting \ R,
           UNCHANGED <<journal, outcome>>, PcOnward
    PROVE  Once'
  <1>0. Places /\ WaitingInv /\ SubmitterInv /\ JournalOnce /\ NondurableInv
    BY DEF Once
  <1>1. JournalTxns' = JournalTxns /\ \A q \in Q : q.txn \in JournalTxns
    BY DEF JournalTxns
  <1>2. WaitingInv'
    <2> SUFFICES ASSUME NEW t \in Waiting'
                 PROVE  /\ slot'[t].st = "queued" /\ outcome'[t] = "pending"
                        /\ t \notin JournalTxns' /\ pc'[t] \notin {"start", "enqueue"}
      BY DEF WaitingInv
    <2>1. t \in Txns /\ t \in Waiting /\ t \notin R
      BY WaitingTxns
    <2>2. /\ slot[t].st = "queued" /\ outcome[t] = "pending"
          /\ t \notin JournalTxns /\ pc[t] \notin {"start", "enqueue"}
      BY <1>0, <2>1 DEF WaitingInv
    <2>3. slot'[t].st = slot[t].st
      BY <1>1, <2>1, <2>2 DEF Tells
    <2>4. pc'[t] \notin {"start", "enqueue"}
      BY <2>1, <2>2 DEF PcOnward
    <2>5. QED
      BY <1>1, <2>2, <2>3, <2>4
  <1>3. SubmitterInv'
    <2> SUFFICES ASSUME NEW t \in Txns
                 PROVE  /\ pc'[t] = "start" => slot'[t].st = "none"
                        /\ pc'[t] = "enqueue" => slot'[t].st = "queued"
                        /\ pc'[t] \in {"start", "enqueue"} => t \notin JournalTxns'
                        /\ outcome'[t] # "pending" => pc'[t] \in {"done", "idle"}
      BY DEF SubmitterInv
    <2>1. /\ pc[t] = "start" => slot[t].st = "none"
          /\ pc[t] = "enqueue" => slot[t].st = "queued"
          /\ pc[t] \in {"start", "enqueue"} => t \notin JournalTxns
          /\ outcome[t] # "pending" => pc[t] \in {"done", "idle"}
      BY <1>0 DEF SubmitterInv
    <2>2. /\ pc'[t] \in {"start", "enqueue"} => pc'[t] = pc[t]
          /\ pc[t] \in {"done", "idle"} => pc'[t] \in {"done", "idle"}
      BY DEF PcOnward
    <2>3. ASSUME pc'[t] \in {"start", "enqueue"}
          PROVE  slot'[t].st = slot[t].st
      <3>1. t \notin Waiting /\ t \notin JournalTxns
        BY <1>0, <2>1, <2>2, <2>3 DEF WaitingInv
      <3>2. QED
        BY <1>1, <3>1 DEF Tells
    <2>4. QED
      BY <1>1, <2>1, <2>2, <2>3
  <1>4. JournalOnce'
    BY <1>0 DEF JournalOnce
  <1>5. NondurableInv'
    <2> SUFFICES ASSUME NEW t \in Txns,
                        slot'[t].st \in NondurableStates \/ outcome'[t] \in NondurableStates
                 PROVE  t \notin JournalTxns'
      BY DEF NondurableInv
    <2>1. slot[t].st \in NondurableStates \/ outcome[t] \in NondurableStates =>
             t \notin JournalTxns
      BY <1>0 DEF NondurableInv
    <2>2. CASE slot'[t].st = slot[t].st
      BY <1>1, <2>1, <2>2
    <2>3. CASE t \in R
      BY <1>0, <1>1, <2>3 DEF WaitingInv
    <2>4. CASE slot'[t].st \in X
      <3>1. slot'[t].st \notin NondurableStates
        BY <2>4 DEF DurableStates, NondurableStates
      <3>2. QED
        BY <1>1, <2>1, <3>1
    <2>5. QED
      BY <2>2, <2>3, <2>4 DEF Tells
  <1>6. QED
    BY <1>2, <1>3, <1>4, <1>5 DEF Once

LEMMA TellsNone ==
    ASSUME UNCHANGED slot
    PROVE  Tells({}, {}, {})
  BY DEF Tells

LEMMA PcSame ==
    ASSUME UNCHANGED pc
    PROVE  PcOnward
  BY DEF PcOnward

placeVars == <<entries, deferred, pendingFence, local, batch>>

LEMMA PlacesSame ==
    ASSUME Places, UNCHANGED placeVars
    PROVE  Places' /\ Waiting' = Waiting
  <1>1. /\ UNCHANGED <<entries, deferred, pendingFence, local, batch>>
        /\ FencedTxns' = FencedTxns /\ FenceOnce' = FenceOnce
    BY DEF placeVars, FencedTxns, FenceOnce
  <1>2. Waiting' = Waiting
    BY <1>1 DEF Waiting, PendingTxns
  <1>3. \A t \in Txns : InOnePlace(t)'
    BY <1>1 DEF Places, InOnePlace
  <1>4. QED
    BY <1>1, <1>2, <1>3 DEF Places

(* poison() empties the three queues. *)
LEMMA PlacesPoison ==
    ASSUME TypeOK, Places, PoisonRuntime, UNCHANGED <<local, batch>>
    PROVE  Places' /\ Waiting' \subseteq Waiting \ PendingTxns
  <1>1. entries' = <<>> /\ deferred' = <<>> /\ pendingFence' = <<>>
    BY DEF PoisonRuntime, CloseAndDrainPending
  <1>2. Elems(<<>>) = {} /\ NoRepeat(<<>>)
    BY SMT DEF Elems, NoRepeat
  <1>3. Elems(entries') = {} /\ Elems(deferred') = {}
    BY <1>1, <1>2
  <1>4. FencedTxns' = {} /\ FenceOnce'
    BY <1>1, SMT DEF FencedTxns, FenceOnce
  <1>5. \A t \in Elems(local) \cup Elems(batch) : t \notin PendingTxns
    <2> TAKE t \in Elems(local) \cup Elems(batch)
    <2>1. t \in Txns
      BY WaitingTxns DEF Waiting
    <2>2. QED
      BY <2>1 DEF Places, InOnePlace, PendingTxns
  <1>6. \A t \in Txns : InOnePlace(t)'
    BY <1>3, <1>4 DEF Places, InOnePlace
  <1>7. Places'
    BY <1>1, <1>2, <1>4, <1>6 DEF Places
  <1>8. Waiting' \subseteq Elems(local) \cup Elems(batch)
    BY <1>3, <1>4 DEF Waiting, PendingTxns
  <1>9. QED
    BY <1>5, <1>7, <1>8 DEF Waiting

----------------------------------------------------------------------------
(* The steps that move entries from place to place. *)

LEMMA DrainTopPlaces ==
    ASSUME TypeOK, TypeOK', Places, DrainTop
    PROVE  Places' /\ Waiting' \subseteq Waiting
  <1>1. UNCHANGED <<entries, deferred, batch>>
    BY DEF DrainTop
  <1>2. CASE UNCHANGED <<local, pendingFence>>
    BY <1>1, <1>2, PlacesSame DEF placeVars
  <1>3. CASE TakeReadyPendingFence(registered, local')
    <2> DEFINE h == Head(pendingFence).txn
    <2>1. /\ pendingFence # <<>> /\ pendingFence' = Tail(pendingFence)
          /\ local' = <<h>>
      BY <1>3 DEF TakeReadyPendingFence, PendingFenceReady, HasPendingFence
    <2>2. /\ FenceOnce' /\ FencedTxns' \subseteq FencedTxns
          /\ h \in FencedTxns /\ h \notin FencedTxns'
      BY <2>1, FenceTake DEF TypeOK, QueueTypeOK, Places
    <2> HIDE DEF h
    <2>3. Elems(local') = {h} /\ NoRepeat(local')
      BY <2>1, SMT DEF Elems, NoRepeat
    <2>4. \A t \in Txns : InOnePlace(t)'
      <3> TAKE t \in Txns
      <3>1. InOnePlace(t)
        BY DEF Places
      <3>2. QED
        BY <1>1, <2>2, <2>3, <3>1 DEF InOnePlace
    <2>5. Places'
      BY <1>1, <2>2, <2>3, <2>4 DEF Places
    <2>6. Waiting' \subseteq Waiting
      BY <1>1, <2>2, <2>3 DEF Waiting, PendingTxns
    <2>7. QED
      BY <2>5, <2>6
  <1>4. QED
    BY <1>2, <1>3 DEF DrainTop

LEMMA DrainTakeBufferPlaces ==
    ASSUME TypeOK, TypeOK', Places, DrainTakeBuffer
    PROVE  Places' /\ Waiting' \subseteq Waiting
  <1> DEFINE line == deferred \o entries
             n    == IF Len(line) < TargetBatch THEN Len(line) ELSE TargetBatch
             d    == IF n < Len(deferred) THEN n ELSE Len(deferred)
             e    == n - d
             l    == SubSeq(line, 1, n)
             lf   == SubSeq(line, n + 1, Len(line))
             df   == SubSeq(deferred, d + 1, Len(deferred))
             ef   == SubSeq(entries, e + 1, Len(entries))
  <1>1. UNCHANGED <<pendingFence, batch>> /\ local' = l /\ deferred' = df /\ entries' = ef
    BY DEF DrainTakeBuffer, TakeLocalBuffer
  <1>2. /\ deferred \in Seq(Txns) /\ entries \in Seq(Txns)
        /\ NoRepeat(deferred) /\ NoRepeat(entries)
        /\ \A t \in Txns : t \in Elems(entries) => t \notin Elems(deferred)
    BY DEF TypeOK, QueueTypeOK, Places, InOnePlace
  <1>3. /\ line \in Seq(Txns)
        /\ Len(line) = Len(deferred) + Len(entries)
        /\ \A i \in 1 .. Len(deferred) : line[i] = deferred[i]
        /\ \A i \in Len(deferred) + 1 .. Len(line) : line[i] = entries[i - Len(deferred)]
    BY <1>2, ConcatProperties, SMT
  <1>4. Elems(line) = Elems(deferred) \cup Elems(entries) /\ NoRepeat(line)
    <2>1. Elems(deferred) \subseteq Txns
      BY <1>2, WaitingTxns DEF Waiting, PendingTxns
    <2>2. Elems(deferred) \cap Elems(entries) = {}
      BY <1>2, <2>1
    <2>3. QED
      BY <1>2, <2>2, JoinOnce, ZenonT(120)
  <1> HIDE DEF line
  <1>5. /\ n \in 0 .. Len(line) /\ d \in 0 .. Len(deferred) /\ e \in 0 .. Len(entries)
        /\ d + e = n
        /\ d < Len(deferred) => d = n
        /\ d = Len(deferred) \/ d < Len(deferred)
    BY <1>2, <1>3, QueueAssumption, SMT
  <1> HIDE DEF n, d, e
  <1>6. /\ NoRepeat(l) /\ Elems(l) \subseteq Elems(line)
        /\ Elems(l) \cap Elems(lf) = {}
    BY <1>3, <1>4, <1>5, SplitOnce
  <1>7. /\ NoRepeat(df) /\ Elems(df) \subseteq Elems(deferred)
        /\ NoRepeat(ef) /\ Elems(ef) \subseteq Elems(entries)
    BY <1>2, <1>5, SplitOnce
  <1>8. Elems(df) \subseteq Elems(lf) /\ Elems(ef) \subseteq Elems(lf)
    <2>0. \A i \in Len(deferred) + 1 .. Len(line) : line[i] = entries[i - Len(deferred)]
      BY <1>3
    <2>1. /\ Len(lf) = Len(line) - n
          /\ \A i \in 1 .. Len(line) - n : lf[i] = line[i + n]
      BY <1>3, <1>5, SuffixAt, ZenonT(120)
    <2>2. /\ Len(df) = Len(deferred) - d
          /\ \A i \in 1 .. Len(deferred) - d : df[i] = deferred[i + d]
      BY <1>2, <1>5, SuffixAt
    <2>3. /\ Len(ef) = Len(entries) - e
          /\ \A i \in 1 .. Len(entries) - e : ef[i] = entries[i + e]
      BY <1>2, <1>5, SuffixAt
    <2>4. /\ Len(deferred) \in Nat /\ Len(entries) \in Nat
          /\ Len(line) = Len(deferred) + Len(entries)
      BY <1>2, <1>3, SMT
    <2> HIDE DEF df, ef, lf
    <2>5. ASSUME NEW m \in n + 1 .. Len(line) PROVE line[m] \in Elems(lf)
      <3>1. m - n \in 1 .. Len(line) - n /\ (m - n) + n = m
        BY <1>5, <2>4, SMT
      <3>2. lf[m - n] = line[m]
        BY <2>1, <3>1
      <3>3. QED
        BY <2>1, <3>1, <3>2 DEF Elems
    <2>6. ASSUME NEW i \in 1 .. Len(deferred) - d PROVE df[i] \in Elems(lf)
      <3> DEFINE m == i + d
      <3>1. m \in n + 1 .. Len(line) /\ m \in 1 .. Len(deferred)
        BY <1>5, <2>4, SMT
      <3>2. df[i] = deferred[m] /\ line[m] = deferred[m]
        BY <1>3, <2>2, <3>1
      <3>3. QED
        BY <2>5, <3>1, <3>2
    <2>7. ASSUME NEW i \in 1 .. Len(entries) - e PROVE ef[i] \in Elems(lf)
      <3> DEFINE m == i + e + Len(deferred)
      <3>1. /\ m \in n + 1 .. Len(line) /\ m \in Len(deferred) + 1 .. Len(line)
            /\ m - Len(deferred) = i + e
        BY <1>5, <2>4, SMT
      <3> HIDE DEF m
      <3>2. line[m] = entries[m - Len(deferred)]
        BY <2>0, <3>1
      <3>3. ef[i] = line[m]
        BY <2>3, <3>1, <3>2
      <3>4. QED
        BY <2>5, <3>1, <3>3
    <2>8. QED
      BY <2>2, <2>3, <2>6, <2>7 DEF Elems
  <1> HIDE DEF l, lf, df, ef
  <1>9. FencedTxns' = FencedTxns /\ FenceOnce'
    BY <1>1 DEF Places, FencedTxns, FenceOnce
  <1>10. \A t \in Txns : InOnePlace(t)'
    <2> TAKE t \in Txns
    <2>1. InOnePlace(t)
      BY DEF Places
    <2>2. t \in Elems(l) => t \in Elems(deferred) \cup Elems(entries)
      BY <1>4, <1>6
    <2>3. t \in Elems(l) => t \notin Elems(df) /\ t \notin Elems(ef)
      BY <1>6, <1>8
    <2>4. (t \in Elems(df) => t \in Elems(deferred)) /\ (t \in Elems(ef) => t \in Elems(entries))
      BY <1>7
    <2>5. QED
      BY <1>1, <1>9, <2>1, <2>2, <2>3, <2>4 DEF InOnePlace
  <1>11. Places'
    BY <1>1, <1>6, <1>7, <1>9, <1>10 DEF Places
  <1>12. Waiting' \subseteq Waiting
    BY <1>1, <1>4, <1>6, <1>7, <1>9 DEF Waiting, PendingTxns
  <1>13. QED
    BY <1>11, <1>12

(* The entry at the front of the owner's buffer is nowhere else. *)
LEMMA FrontOnce ==
    ASSUME TypeOK, Places, local # <<>>
    PROVE  /\ Head(local) \in Txns /\ Tail(local) \in Seq(Txns)
           /\ Elems(local) = {Head(local)} \cup Elems(Tail(local))
           /\ NoRepeat(Tail(local)) /\ Head(local) \notin Elems(Tail(local))
           /\ Head(local) \notin Elems(entries) \cup Elems(deferred) \cup FencedTxns
                                    \cup Elems(batch)
  <1>1. local \in Seq(Txns) /\ NoRepeat(local)
    BY DEF TypeOK, DrainTypeOK, Places
  <1>2. /\ Head(local) \in Txns /\ Tail(local) \in Seq(Txns)
        /\ Elems(local) = {Head(local)} \cup Elems(Tail(local))
        /\ NoRepeat(Tail(local)) /\ Head(local) \notin Elems(Tail(local))
    BY <1>1, SeqTake, TakeOnce
  <1>3. InOnePlace(Head(local)) /\ Head(local) \in Elems(local)
    BY <1>2 DEF Places
  <1>4. QED
    BY <1>2, <1>3 DEF InOnePlace

LEMMA NothingOnce == Elems(<<>>) = {} /\ NoRepeat(<<>>)
  BY SMT DEF Elems, NoRepeat

LEMMA OneOnce ==
    ASSUME NEW e
    PROVE  Elems(<<e>>) = {e} /\ NoRepeat(<<e>>)
  BY SMT DEF Elems, NoRepeat

LEMMA PredecessorType ==
    ASSUME TypeOK
    PROVE  PredecessorTs \in Nat
  BY SMT DEF TypeOK, SequencerTypeOK, PredecessorTs

LEMMA ProcessEntriesPlaces ==
    ASSUME TypeOK, TypeOK', Places, ProcessEntries
    PROVE  /\ Places'
           /\ \/ Waiting' \subseteq Waiting /\ UNCHANGED slot
              \/ /\ local # <<>> /\ slot' = SetState(slot, {Head(local)}, "rejected")
                 /\ Waiting' \subseteq Waiting \ {Head(local)}
  <1> DEFINE h == Head(local)
             rest == Tail(local)
  <1>0. entries' = entries
    BY DEF ProcessEntries
  <1>1. CASE ProcessDone
    BY <1>0, <1>1, PlacesSame DEF ProcessDone, placeVars
  <1>2. local # <<>> =>
           /\ h \in Txns /\ rest \in Seq(Txns)
           /\ Elems(local) = {h} \cup Elems(rest)
           /\ NoRepeat(rest) /\ h \notin Elems(rest)
           /\ h \notin Elems(entries) \cup Elems(deferred) \cup FencedTxns \cup Elems(batch)
    BY FrontOnce
  <1> HIDE DEF h, rest
  <1>3. CASE local # <<>> /\ ProcessRejected
    <2>1. /\ slot' = SetState(slot, {h}, "rejected") /\ local' = rest
          /\ UNCHANGED <<batch, deferred, pendingFence>>
      BY <1>3 DEF ProcessRejected, h, rest
    <2>2. FencedTxns' = FencedTxns /\ FenceOnce'
      BY <2>1 DEF FencedTxns, FenceOnce, Places
    <2>3. \A t \in Txns : InOnePlace(t)'
      <3> TAKE t \in Txns
      <3>1. InOnePlace(t)
        BY DEF Places
      <3>2. QED
        BY <1>0, <1>2, <1>3, <2>1, <2>2, <3>1 DEF InOnePlace
    <2>4. Places'
      BY <1>0, <1>2, <1>3, <2>1, <2>2, <2>3 DEF Places
    <2>5. Waiting' \subseteq Waiting \ {h}
      BY <1>0, <1>2, <1>3, <2>1, <2>2 DEF Waiting, PendingTxns
    <2>6. QED
      BY <1>3, <2>1, <2>4, <2>5 DEF h
  <1>4. CASE local # <<>> /\ ProcessBlocked
    <2>1. /\ BlockOnFence(h, PredecessorTs) /\ UNCHANGED <<slot, batch>>
          /\ \/ local' = rest /\ UNCHANGED deferred
             \/ local' = <<>> /\ deferred' = deferred \o rest
      BY <1>4 DEF ProcessBlocked, DeferEntries, h, rest
    <2>2. FenceOnce' /\ FencedTxns' = FencedTxns \cup {h}
      BY <1>2, <1>4, <2>1, PredecessorType, FencePut DEF TypeOK, Places
    <2>3. /\ NoRepeat(local') /\ NoRepeat(deferred')
          /\ Elems(local') \cap Elems(deferred') = {}
          /\ Elems(local') \cup Elems(deferred') = Elems(deferred) \cup Elems(rest)
      <3>1. /\ deferred \in Seq(Txns) /\ NoRepeat(deferred)
            /\ rest \in Seq(Txns) /\ NoRepeat(rest)
            /\ Elems(deferred) \cap Elems(rest) = {}
        <4>1. \A t \in Elems(deferred) : t \in Txns
          BY WaitingTxns DEF Waiting, PendingTxns
        <4>2. QED
          BY <1>2, <1>4, <4>1 DEF TypeOK, QueueTypeOK, Places, InOnePlace
      <3>2. /\ Elems(deferred \o rest) = Elems(deferred) \cup Elems(rest)
            /\ NoRepeat(deferred \o rest)
        BY <3>1, JoinOnce
      <3>3. QED
        BY <1>2, <1>4, <2>1, <3>1, <3>2, NothingOnce
    <2>4. \A t \in Txns : InOnePlace(t)'
      <3> TAKE t \in Txns
      <3>1. InOnePlace(t)
        BY DEF Places
      <3>2. /\ t \in Elems(local') \/ t \in Elems(deferred') <=>
                  t \in Elems(deferred) \/ t \in Elems(rest)
            /\ ~(t \in Elems(local') /\ t \in Elems(deferred'))
        BY <2>3
      <3>3. QED
        BY <1>0, <1>2, <1>4, <2>1, <2>2, <3>1, <3>2 DEF InOnePlace
    <2>5. Places'
      BY <1>0, <2>1, <2>2, <2>3, <2>4 DEF Places
    <2>6. Waiting' \subseteq Waiting
      BY <1>0, <1>2, <1>4, <2>1, <2>2, <2>3 DEF Waiting, PendingTxns
    <2>7. QED
      BY <2>1, <2>5, <2>6
  <1>5. CASE local # <<>> /\ ProcessKeptBehind
    <2>1. /\ deferred' = deferred \o local /\ local' = <<>>
          /\ UNCHANGED <<slot, batch, pendingFence>>
      BY <1>5 DEF ProcessKeptBehind, DeferEntries
    <2>2. FencedTxns' = FencedTxns /\ FenceOnce'
      BY <2>1 DEF FencedTxns, FenceOnce, Places
    <2>3. /\ NoRepeat(deferred') /\ Elems(deferred') = Elems(deferred) \cup Elems(local)
          /\ NoRepeat(local') /\ Elems(local') = {}
      <3>1. /\ deferred \in Seq(Txns) /\ NoRepeat(deferred)
            /\ local \in Seq(Txns) /\ NoRepeat(local)
            /\ Elems(deferred) \cap Elems(local) = {}
        <4>1. \A t \in Elems(deferred) : t \in Txns
          BY WaitingTxns DEF Waiting, PendingTxns
        <4>2. QED
          BY <4>1 DEF TypeOK, QueueTypeOK, DrainTypeOK, Places, InOnePlace
      <3>2. QED
        BY <2>1, <3>1, JoinOnce, NothingOnce, ZenonT(120)
    <2>4. \A t \in Txns : InOnePlace(t)'
      <3> TAKE t \in Txns
      <3>1. InOnePlace(t)
        BY DEF Places
      <3>2. QED
        BY <1>0, <2>1, <2>2, <2>3, <3>1 DEF InOnePlace
    <2>5. Places'
      BY <1>0, <2>1, <2>2, <2>3, <2>4 DEF Places
    <2>6. Waiting' \subseteq Waiting
      BY <1>0, <2>1, <2>2, <2>3 DEF Waiting, PendingTxns
    <2>7. QED
      BY <2>1, <2>5, <2>6
  <1>6. CASE local # <<>> /\ ProcessStartsBatch
    <2>1. /\ ChargeBypass(h) /\ batch' = <<h>> /\ local' = rest
          /\ UNCHANGED <<slot, deferred>>
      BY <1>6 DEF ProcessStartsBatch, h, rest
    <2>2. FencedTxns' = FencedTxns /\ FenceOnce'
      BY <2>1, FenceCharge DEF TypeOK, Places
    <2>3. Elems(batch') = {h} /\ NoRepeat(batch')
      BY <2>1, OneOnce
    <2>4. \A t \in Txns : InOnePlace(t)'
      <3> TAKE t \in Txns
      <3>1. InOnePlace(t)
        BY DEF Places
      <3>2. QED
        BY <1>0, <1>2, <1>6, <2>1, <2>2, <2>3, <3>1 DEF InOnePlace
    <2>5. Places'
      BY <1>0, <1>2, <1>6, <2>1, <2>2, <2>3, <2>4 DEF Places
    <2>6. Waiting' \subseteq Waiting
      BY <1>0, <1>2, <1>6, <2>1, <2>2, <2>3 DEF Waiting, PendingTxns
    <2>7. QED
      BY <2>1, <2>5, <2>6
  <1>7. QED
    BY <1>1, <1>3, <1>4, <1>5, <1>6, PlacesSame
    DEF ProcessEntries, ProcessDone, placeVars

LEMMA GrowBatchPlaces ==
    ASSUME TypeOK, TypeOK', Places, GrowBatch
    PROVE  Places' /\ Waiting' \subseteq Waiting
  <1> DEFINE h == Head(local)
             rest == Tail(local)
  <1>0. UNCHANGED <<entries, deferred>> /\ local # <<>>
    BY DEF GrowBatch, TypeOK, DrainTypeOK
  <1>1. /\ h \in Txns /\ Elems(local) = {h} \cup Elems(rest)
        /\ NoRepeat(rest) /\ h \notin Elems(rest)
        /\ h \notin Elems(entries) \cup Elems(deferred) \cup FencedTxns \cup Elems(batch)
    BY <1>0, FrontOnce
  <1> HIDE DEF h, rest
  <1>2. CASE GrowBlocked
    <2>1. BlockOnFence(h, PredecessorTs) /\ local' = rest /\ UNCHANGED batch
      BY <1>2 DEF GrowBlocked, h, rest
    <2>2. FenceOnce' /\ FencedTxns' = FencedTxns \cup {h}
      BY <1>1, <2>1, PredecessorType, FencePut DEF TypeOK, Places
    <2>3. \A t \in Txns : InOnePlace(t)'
      <3> TAKE t \in Txns
      <3>1. InOnePlace(t)
        BY DEF Places
      <3>2. QED
        BY <1>0, <1>1, <2>1, <2>2, <3>1 DEF InOnePlace
    <2>4. Places'
      BY <1>0, <1>1, <2>1, <2>2, <2>3 DEF Places
    <2>5. QED
      BY <1>0, <1>1, <2>1, <2>2, <2>4 DEF Waiting, PendingTxns
  <1>3. CASE GrowStops
    BY <1>0, <1>3, PlacesSame DEF GrowStops, placeVars
  <1>4. CASE GrowTakes
    <2>1. ChargeBypass(h) /\ local' = rest /\ batch' = Append(batch, h)
      BY <1>4 DEF GrowTakes, h, rest
    <2>2. FencedTxns' = FencedTxns /\ FenceOnce'
      BY <2>1, FenceCharge DEF TypeOK, Places
    <2>3. Elems(batch') = Elems(batch) \cup {h} /\ NoRepeat(batch')
      <3>1. h \in Txns /\ batch \in Seq(Txns) /\ NoRepeat(batch) /\ h \notin Elems(batch)
        BY <1>1 DEF TypeOK, DrainTypeOK, Places
      <3>2. QED
        BY <2>1, <3>1, PutOnce
    <2>4. \A t \in Txns : InOnePlace(t)'
      <3> TAKE t \in Txns
      <3>1. InOnePlace(t)
        BY DEF Places
      <3>2. QED
        BY <1>0, <1>1, <2>1, <2>2, <2>3, <3>1 DEF InOnePlace
    <2>5. Places'
      BY <1>0, <1>1, <2>1, <2>2, <2>3, <2>4 DEF Places
    <2>6. QED
      BY <1>0, <1>1, <2>1, <2>2, <2>3, <2>5 DEF Waiting, PendingTxns
  <1>5. QED
    BY <1>2, <1>3, <1>4 DEF GrowBatch

----------------------------------------------------------------------------
(* Sequencing: the accepted, the rejected and the deferred entries of a     *)
(* batch are different transactions.                                        *)

LEMMA BatchSplit ==
    ASSUME NEW b \in Seq(Txns), NoRepeat(b), NEW cut \in 1 .. Len(b),
           NEW k \in 0 .. cut, NEW f \in [1 .. k -> 1 .. cut], nextTs \in Nat,
           \A m, n \in 1 .. Len(f) : m < n => f[m] < f[n]
    PROVE  /\ \A r \in SequencedRecords(b, f) :
                 r.txn \in Elems(b) /\ r.ts \in nextTs .. nextTs + k - 1
           /\ \A r, q \in SequencedRecords(b, f) : r.txn = q.txn => r = q
           /\ \A t \in RejectedTxns(b, cut, f) :
                 t \in Elems(b) /\ \A r \in SequencedRecords(b, f) : r.txn # t
           /\ \A t \in Elems(DeferredSuffix(b, cut)) :
                 /\ t \in Elems(b) /\ t \notin RejectedTxns(b, cut, f)
                 /\ \A r \in SequencedRecords(b, f) : r.txn # t
           /\ NoRepeat(DeferredSuffix(b, cut))
           /\ k > 0 => SequencedRecords(b, f) # {}
  <1> DEFINE recs == SequencedRecords(b, f)
             rej == RejectedTxns(b, cut, f)
             def == DeferredSuffix(b, cut)
             rec(n) == [txn |-> b[f[n]], ts |-> nextTs + n - 1]
  <1>1. Len(f) = k /\ Len(b) \in Nat /\ cut \in 1 .. Len(b) /\ k \in Nat
    BY SMT
  <1>2. /\ \A r \in recs : \E n \in 1 .. k : r = rec(n)
        /\ \A n \in 1 .. k : rec(n) \in recs
    BY <1>1 DEF SequencedRecords
  <1>3. \A n \in 1 .. k : /\ f[n] \in 1 .. cut /\ rec(n).txn = b[f[n]]
                          /\ rec(n).ts \in nextTs .. nextTs + k - 1
    BY <1>1, SMT
  <1>4. \A t \in rej : \E i \in 1 .. cut : t = b[i] /\ \A n \in 1 .. k : f[n] # i
    BY <1>1 DEF RejectedTxns
  <1>5. cut \in 0 .. Len(b) /\ \A i \in 1 .. cut : i \in 1 .. Len(b)
    BY <1>1, SMT
  <1>6. \A t \in Elems(def) : \E i \in cut + 1 .. Len(b) : t = b[i]
    <2>1. /\ Len(def) = Len(b) - cut
          /\ \A i \in 1 .. Len(b) - cut : def[i] = b[i + cut]
      BY <1>5, SuffixAt DEF DeferredSuffix
    <2>2. \A i \in 1 .. Len(b) - cut : i + cut \in cut + 1 .. Len(b)
      BY <1>1, SMT
    <2>3. QED
      BY <2>1, <2>2 DEF Elems
  <1>7. \A i \in cut + 1 .. Len(b) : i \in 1 .. Len(b) /\ \A j \in 1 .. cut : i # j
    BY <1>1, SMT
  <1>8. \A i, j \in 1 .. Len(b) : b[i] = b[j] => i = j
    BY DEF NoRepeat
  <1>9. \A i \in 1 .. Len(b) : b[i] \in Elems(b)
    BY DEF Elems
  <1>10. \A m, n \in 1 .. k : f[m] = f[n] => m = n
    <2> TAKE m, n \in 1 .. k
    <2>1. m < n => f[m] < f[n]
      BY <1>1
    <2>2. n < m => f[n] < f[m]
      BY <1>1
    <2>3. m \in Nat /\ n \in Nat /\ f[m] \in Nat /\ f[n] \in Nat
      BY <1>1, <1>3, SMT
    <2>4. QED
      BY <2>1, <2>2, <2>3, SMT
  <1> HIDE DEF recs, rej, def, rec
  <1>11. \A r \in recs : \E n \in 1 .. k :
            r = rec(n) /\ f[n] \in 1 .. cut /\ r.txn = b[f[n]]
    BY <1>2, <1>3, ZenonT(120)
  <1>12. \A r \in recs : r.txn \in Elems(b) /\ r.ts \in nextTs .. nextTs + k - 1
    <2> TAKE r \in recs
    <2>1. PICK n \in 1 .. k : r = rec(n)
      BY <1>2
    <2>2. f[n] \in 1 .. cut /\ r.txn = b[f[n]] /\ r.ts \in nextTs .. nextTs + k - 1
      BY <1>3, <2>1
    <2>3. r.txn \in Elems(b)
      BY <1>5, <1>9, <2>2
    <2>4. QED
      BY <2>2, <2>3
  <1>13. \A r, q \in recs : r.txn = q.txn => r = q
    <2> SUFFICES ASSUME NEW r \in recs, NEW q \in recs, r.txn = q.txn PROVE r = q
      OBVIOUS
    <2>1. PICK m \in 1 .. k : r = rec(m) /\ f[m] \in 1 .. cut /\ r.txn = b[f[m]]
      BY <1>11
    <2>2. PICK n \in 1 .. k : q = rec(n) /\ f[n] \in 1 .. cut /\ q.txn = b[f[n]]
      BY <1>11
    <2>3. f[m] = f[n]
      BY <1>5, <1>8, <2>1, <2>2
    <2>4. m = n
      BY <1>10, <2>3
    <2>5. QED
      BY <2>1, <2>2, <2>4
  <1>14. \A t \in rej : t \in Elems(b) /\ \A r \in recs : r.txn # t
    <2> TAKE t \in rej
    <2>1. PICK i \in 1 .. cut : t = b[i] /\ \A n \in 1 .. k : f[n] # i
      BY <1>4
    <2>2. i \in 1 .. Len(b) /\ t \in Elems(b)
      BY <1>5, <1>9, <2>1
    <2>3. \A r \in recs : r.txn # t
      <3> TAKE r \in recs
      <3>1. PICK n \in 1 .. k : f[n] \in 1 .. cut /\ r.txn = b[f[n]]
        BY <1>11
      <3>2. f[n] \in 1 .. Len(b) /\ f[n] # i
        BY <1>5, <2>1, <3>1
      <3>3. QED
        BY <1>8, <2>1, <2>2, <3>1, <3>2
    <2>4. QED
      BY <2>2, <2>3
  <1>15. \A t \in Elems(def) : t \in Elems(b) /\ t \notin rej /\ \A r \in recs : r.txn # t
    <2> TAKE t \in Elems(def)
    <2>1. PICK i \in cut + 1 .. Len(b) : t = b[i]
      BY <1>6
    <2>2. i \in 1 .. Len(b) /\ \A j \in 1 .. cut : b[j] # t
      BY <1>5, <1>7, <1>8, <2>1
    <2>3. QED
      BY <1>4, <1>9, <1>11, <2>1, <2>2
  <1>16. NoRepeat(def)
    BY <1>5, SplitOnce DEF def, DeferredSuffix
  <1>17. k > 0 => recs # {}
    <2>1. k > 0 => 1 \in 1 .. k
      BY <1>1, SMT
    <2>2. QED
      BY <1>2, <2>1
  <1>18. QED
    BY <1>12, <1>13, <1>14, <1>15, <1>16, <1>17 DEF recs, rej, def

LEMMA SetStateAt ==
    ASSUME NEW sl \in SlotTable, NEW S, NEW st, NEW t \in Txns
    PROVE  \/ SetState(sl, S, st)[t].st = sl[t].st
           \/ t \in S /\ SetState(sl, S, st)[t].st = st
  BY SMT DEF SetState, SlotTable

(* Nothing of the batch became durable; the accepted entries are told so. *)
Withdrawn(recs) ==
    /\ UNCHANGED <<journal, nextTs, accepted>> /\ dpc' = "front"
    /\ \A t \in Txns : slot'[t].st = "ambiguous" => slot[t].st = "ambiguous"

(* The accepted entries are in the journal. *)
Logged(recs) ==
    /\ recs # {} /\ journal' = journal \cup recs /\ nextTs' \in Nat
    /\ nextTs' > nextTs /\ \A r \in recs : r.ts \in nextTs .. nextTs' - 1
    /\ \A t \in Txns : slot'[t].st = "failed_append" => slot[t].st = "failed_append"
    /\ \/ /\ accepted' = recs /\ dpc' = "mark"
          /\ \A t \in Txns : slot'[t].st = "ambiguous" => slot[t].st = "ambiguous"
       \/ /\ accepted' = accepted /\ dpc' = "front"
          /\ ~HasWal /\ poisoned'

(* What SequenceAppend does: R is rejected, recs have been accepted. *)
AppendEffect(recs, R) ==
    /\ recs \in SUBSET Record /\ R \in SUBSET Waiting
    /\ Places' /\ Waiting' \subseteq Waiting \ R
    /\ \A r \in recs : r.txn \in Elems(batch) /\ r.txn \notin R /\ r.txn \notin Waiting'
    /\ \A r, q \in recs : r.txn = q.txn => r = q
    /\ \A t \in Txns :
          \/ slot'[t].st = slot[t].st
          \/ t \in R /\ slot'[t].st = "rejected"
          \/ /\ \E r \in recs : r.txn = t
             /\ slot'[t].st \in {"failed_append", "ambiguous"}
    /\ \A t \in Txns : reservation'[t] = reservation[t] \/ \E r \in recs : r.txn = t
    /\ Withdrawn(recs) \/ Logged(recs)

(* The rest of the batch goes back on the queue. *)
LEMMA DeferPlaces ==
    ASSUME TypeOK, Places, NEW def \in Seq(Txns), NoRepeat(def),
           Elems(def) \subseteq Elems(batch), DeferEntries(def), batch' = <<>>,
           UNCHANGED <<entries, pendingFence, local>>
    PROVE  Places' /\ \A t \in Waiting' : t \in Waiting /\ (t \in Elems(batch) => t \in Elems(def))
  <1>1. FencedTxns' = FencedTxns /\ FenceOnce'
    BY DEF Places, FencedTxns, FenceOnce
  <1>2. /\ deferred \in Seq(Txns) /\ NoRepeat(deferred) /\ def \in Seq(Txns) /\ NoRepeat(def)
        /\ Elems(deferred) \cap Elems(def) = {}
    <2>1. \A t \in Elems(deferred) : t \in Txns
      BY WaitingTxns DEF Waiting, PendingTxns
    <2>2. QED
      BY <2>1 DEF TypeOK, QueueTypeOK, Places, InOnePlace
  <1>3. Elems(deferred') = Elems(deferred) \cup Elems(def) /\ NoRepeat(deferred')
    BY <1>2, JoinOnce, ZenonT(120) DEF DeferEntries
  <1>4. Elems(batch') = {} /\ NoRepeat(batch')
    BY NothingOnce
  <1>5. \A t \in Txns : InOnePlace(t)'
    <2> TAKE t \in Txns
    <2>1. InOnePlace(t)
      BY DEF Places
    <2>2. QED
      BY <1>1, <1>3, <1>4, <2>1 DEF InOnePlace
  <1>6. Places'
    BY <1>1, <1>3, <1>4, <1>5 DEF Places
  <1>7. Waiting' = Elems(entries) \cup Elems(deferred) \cup Elems(def) \cup FencedTxns
                     \cup Elems(local)
    BY <1>1, <1>3, <1>4 DEF Waiting, PendingTxns
  <1>8. \A t \in Waiting' : t \in Waiting /\ (t \in Elems(batch) => t \in Elems(def))
    <2> TAKE t \in Waiting'
    <2>1. t \in Waiting /\ t \in Txns
      BY <1>7, WaitingTxns DEF Waiting, PendingTxns
    <2>2. InOnePlace(t)
      BY <2>1 DEF Places
    <2>3. QED
      BY <1>7, <2>1, <2>2 DEF InOnePlace
  <1>9. QED
    BY <1>6, <1>8

(* poison() after the batch has been given up. *)
LEMMA AbandonPlaces ==
    ASSUME TypeOK, Places, PoisonRuntime, batch' = <<>>, UNCHANGED local
    PROVE  /\ Places'
           /\ \A t \in Waiting' : t \in Waiting /\ t \notin PendingTxns \cup Elems(batch)
  <1>1. entries' = <<>> /\ deferred' = <<>> /\ pendingFence' = <<>>
    BY DEF PoisonRuntime, CloseAndDrainPending
  <1>2. Elems(entries') = {} /\ Elems(deferred') = {} /\ Elems(batch') = {}
    BY <1>1, NothingOnce
  <1>3. FencedTxns' = {} /\ FenceOnce'
    BY <1>1, SMT DEF FencedTxns, FenceOnce
  <1>4. \A t \in Txns : InOnePlace(t)'
    BY <1>2, <1>3 DEF InOnePlace
  <1>5. Places'
    BY <1>1, <1>3, <1>4, NothingOnce DEF Places
  <1>6. Waiting' = Elems(local)
    BY <1>2, <1>3 DEF Waiting, PendingTxns
  <1>7. \A t \in Elems(local) : t \in Waiting /\ t \notin PendingTxns \cup Elems(batch)
    <2> TAKE t \in Elems(local)
    <2>1. t \in Waiting /\ t \in Txns
      BY WaitingTxns DEF Waiting
    <2>2. InOnePlace(t)
      BY <2>1 DEF Places
    <2>3. QED
      BY <2>1, <2>2 DEF InOnePlace, PendingTxns
  <1>8. QED
    BY <1>5, <1>6, <1>7

LEMMA SequenceAppendEffect ==
    ASSUME TypeOK, TypeOK', Places, SequenceAppend
    PROVE  \E recs, R : AppendEffect(recs, R)
  <1>1. PICK fenced \in SUBSET (Elems(batch) \cap Serializable), cut \in 1 .. Len(batch) :
           \E k \in 0 .. cut : \E f \in [1 .. k -> 1 .. cut] :
              IsSequencing(batch, fenced, cut, f) /\ AppendBatch(cut, k, f)
    BY DEF SequenceAppend
  <1>2. PICK k \in 0 .. cut : \E f \in [1 .. k -> 1 .. cut] :
              IsSequencing(batch, fenced, cut, f) /\ AppendBatch(cut, k, f)
    BY <1>1
  <1>3. PICK f \in [1 .. k -> 1 .. cut] :
              IsSequencing(batch, fenced, cut, f) /\ AppendBatch(cut, k, f)
    BY <1>2
  <1> DEFINE recs == SequencedRecords(batch, f)
             rej == RejectedTxns(batch, cut, f)
             def == DeferredSuffix(batch, cut)
             T == {r.txn : r \in recs}
  <1>4. /\ \A r \in recs : r.txn \in Elems(batch) /\ r.ts \in nextTs .. nextTs + k - 1
        /\ \A r, q \in recs : r.txn = q.txn => r = q
        /\ \A t \in rej : t \in Elems(batch) /\ \A r \in recs : r.txn # t
        /\ \A t \in Elems(def) :
              t \in Elems(batch) /\ t \notin rej /\ \A r \in recs : r.txn # t
        /\ NoRepeat(def)
        /\ k > 0 => recs # {}
    <2>1. \A m, n \in 1 .. Len(f) : m < n => f[m] < f[n]
      BY <1>3 DEF IsSequencing
    <2>2. batch \in Seq(Txns) /\ NoRepeat(batch) /\ nextTs \in Nat
      BY DEF TypeOK, DrainTypeOK, SequencerTypeOK, Places
    <2>3. QED
      BY <2>1, <2>2, BatchSplit
  <1>5. def \in Seq(Txns)
    BY SMT DEF DeferredSuffix, TypeOK, DrainTypeOK
  <1>6. recs \in SUBSET Record
    BY SequencedRecordsType DEF TypeOK, DrainTypeOK, SequencerTypeOK
  <1>7. batch' = <<>> /\ UNCHANGED local
    BY DEF SequenceAppend
  <1>8. \/ NothingAccepted(rej, def)
        \/ k > 0 /\ BatchDurable(recs, k, rej, def)
        \/ BatchAppendFailed(recs, rej, def)
        \/ k > 0 /\ BatchAmbiguous(recs, k, rej, def)
    BY <1>3 DEF AppendBatch
  <1> HIDE DEF recs, rej, def
  <1>9. slot \in SlotTable
    BY DEF TypeOK, CompletionTypeOK
  <1>10. rej \subseteq Waiting /\ PendingTxns \cup rej \cup Elems(def) \subseteq Waiting
    BY <1>4 DEF Waiting
  <1>11. ASSUME DeferEntries(def), UNCHANGED <<entries, pendingFence>>
         PROVE  /\ Places' /\ Waiting' \subseteq Waiting \ rej
                /\ \A r \in recs : r.txn \in Elems(batch) /\ r.txn \notin rej
                                       /\ r.txn \notin Waiting'
    <2>1. /\ Places'
          /\ \A t \in Waiting' : t \in Waiting /\ (t \in Elems(batch) => t \in Elems(def))
      BY <1>4, <1>5, <1>7, <1>11, DeferPlaces
    <2>2. QED
      BY <1>4, <2>1
  <1>12. ASSUME PoisonRuntime
         PROVE  /\ Places' /\ Waiting' \subseteq Waiting \ (PendingTxns \cup rej \cup Elems(def))
                /\ \A r \in recs : /\ r.txn \in Elems(batch)
                                   /\ r.txn \notin PendingTxns \cup rej \cup Elems(def)
                                   /\ r.txn \notin Waiting'
    <2>1. /\ Places'
          /\ \A t \in Waiting' : t \in Waiting /\ t \notin PendingTxns \cup Elems(batch)
      BY <1>7, <1>12, AbandonPlaces
    <2>2. \A t \in Elems(batch) : t \notin PendingTxns
      <3> TAKE t \in Elems(batch)
      <3>1. t \in Txns
        BY WaitingTxns DEF Waiting
      <3>2. QED
        BY <3>1 DEF Places, InOnePlace, PendingTxns
    <2>3. QED
      BY <1>4, <2>1, <2>2
  <1> DEFINE s1 == SetState(slot, rej, "rejected")
             s2 == SetState(s1, T, "failed_append")
             s3 == RejectPending(s2, Elems(def))
             s4 == RejectPending(s1, Elems(def))
             s5 == SetState(s4, T, "ambiguous")
  <1>13. /\ s1 \in SlotTable /\ s2 \in SlotTable /\ s3 \in SlotTable
         /\ s4 \in SlotTable /\ s5 \in SlotTable
    <2>1. \A x : x \in {"rejected", "failed_append", "ambiguous"} => x \in SlotStates
      BY DEF SlotStates, TerminalStates
    <2>2. s1 \in SlotTable
      BY <1>9, <2>1, SetStateType
    <2>3. s2 \in SlotTable /\ s4 \in SlotTable
      BY <2>1, <2>2, SetStateType DEF RejectPending
    <2>4. QED
      BY <2>1, <2>2, <2>3, SetStateType DEF RejectPending
  <1>14. \A t \in Txns :
            /\ \/ s1[t].st = slot[t].st
               \/ t \in rej /\ s1[t].st = "rejected"
            /\ \/ s2[t].st = s1[t].st
               \/ t \in T /\ s2[t].st = "failed_append"
            /\ \/ s3[t].st = s2[t].st
               \/ t \in PendingTxns \cup Elems(def) /\ s3[t].st = "rejected"
            /\ \/ s4[t].st = s1[t].st
               \/ t \in PendingTxns \cup Elems(def) /\ s4[t].st = "rejected"
            /\ \/ s5[t].st = s4[t].st
               \/ t \in T /\ s5[t].st = "ambiguous"
    <2> TAKE t \in Txns
    <2>1. s1[t].st = slot[t].st \/ (t \in rej /\ s1[t].st = "rejected")
      BY <1>9, SetStateAt, SMTT(20)
    <2> HIDE DEF T
    <2>2. s2[t].st = s1[t].st \/ (t \in T /\ s2[t].st = "failed_append")
      <3> HIDE DEF s1
      <3>1. QED
        BY <1>13, SetStateAt, SMTT(20)
    <2>3. s3[t].st = s2[t].st \/ (t \in PendingTxns \cup Elems(def) /\ s3[t].st = "rejected")
      <3> HIDE DEF s2
      <3>1. QED
        BY <1>13, SetStateAt, SMTT(20) DEF RejectPending
    <2>4. s4[t].st = s1[t].st \/ (t \in PendingTxns \cup Elems(def) /\ s4[t].st = "rejected")
      <3> HIDE DEF s1
      <3>1. QED
        BY <1>13, SetStateAt, SMTT(20) DEF RejectPending
    <2>5. s5[t].st = s4[t].st \/ (t \in T /\ s5[t].st = "ambiguous")
      <3> HIDE DEF s4
      <3>1. QED
        BY <1>13, SetStateAt, SMT
    <2> HIDE DEF s1, s2, s3, s4, s5
    <2>6. QED
      BY <2>1, <2>2, <2>3, <2>4, <2>5
  <1>15. \A t : t \in T => \E r \in recs : r.txn = t
    OBVIOUS
  <1> HIDE DEF T, s1, s2, s3, s4, s5
  <1>16. CASE NothingAccepted(rej, def)
    <2>1. /\ slot' = s1 /\ DeferEntries(def) /\ dpc' = "front"
          /\ UNCHANGED <<entries, pendingFence, accepted, journal, nextTs, reservation>>
      BY <1>16 DEF NothingAccepted, seqVars, s1
    <2>2. Withdrawn(recs)
      BY <1>14, <2>1 DEF Withdrawn
    <2>3. AppendEffect(recs, rej)
      BY <1>4, <1>6, <1>10, <1>11, <1>14, <2>1, <2>2 DEF AppendEffect
    <2>4. QED
      BY <2>3
  <1>17. CASE k > 0 /\ BatchDurable(recs, k, rej, def)
    <2>1. /\ slot' = s1 /\ DeferEntries(def) /\ dpc' = "mark" /\ accepted' = recs
          /\ journal' = journal \cup recs /\ nextTs' = nextTs + k
          /\ UNCHANGED <<entries, pendingFence>>
      BY <1>17 DEF BatchDurable, s1
    <2>2. \A t \in Txns : reservation'[t] = reservation[t] \/ \E r \in recs : r.txn = t
      BY <1>17 DEF BatchDurable
    <2>3. nextTs' \in Nat /\ nextTs' > nextTs /\ nextTs' - 1 = nextTs + k - 1
      BY <1>17, <2>1, SMTT(20) DEF TypeOK, SequencerTypeOK
    <2>4. Logged(recs)
      BY <1>4, <1>14, <1>17, <2>1, <2>3 DEF Logged
    <2>5. AppendEffect(recs, rej)
      BY <1>4, <1>6, <1>10, <1>11, <1>14, <2>1, <2>2, <2>4 DEF AppendEffect
    <2>6. QED
      BY <2>5
  <1>18. CASE BatchAppendFailed(recs, rej, def)
    <2>1. /\ UNCHANGED <<journal, nextTs, accepted>> /\ dpc' = "front"
          /\ \A t \in Txns : reservation'[t] = reservation[t] \/ \E r \in recs : r.txn = t
      BY <1>18 DEF BatchAppendFailed
    <2>2. \/ slot' = s2 /\ DeferEntries(def) /\ UNCHANGED <<entries, pendingFence>>
          \/ slot' = s3 /\ PoisonRuntime
      BY <1>18 DEF BatchAppendFailed, s1, s2, s3, T
    <2>3. \A t \in Txns : slot'[t].st = "ambiguous" => slot[t].st = "ambiguous"
      BY <1>14, <2>2
    <2>4. Withdrawn(recs)
      BY <2>1, <2>3 DEF Withdrawn
    <2>5. CASE slot' = s2 /\ DeferEntries(def) /\ UNCHANGED <<entries, pendingFence>>
      <3>1. AppendEffect(recs, rej)
        BY <1>4, <1>6, <1>10, <1>11, <1>14, <1>15, <2>1, <2>4, <2>5 DEF AppendEffect
      <3>2. QED
        BY <3>1
    <2>6. CASE slot' = s3 /\ PoisonRuntime
      <3>1. AppendEffect(recs, PendingTxns \cup rej \cup Elems(def))
        BY <1>4, <1>6, <1>10, <1>12, <1>14, <1>15, <2>1, <2>4, <2>6, ZenonT(120) DEF AppendEffect
      <3>2. QED
        BY <3>1
    <2>7. QED
      BY <2>2, <2>5, <2>6
  <1>19. CASE k > 0 /\ BatchAmbiguous(recs, k, rej, def)
    <2>1. /\ slot' = s5 /\ PoisonRuntime /\ dpc' = "front" /\ accepted' = accepted
          /\ journal' = journal \cup recs /\ nextTs' = nextTs + k
          /\ ~HasWal /\ poisoned'
      BY <1>19 DEF BatchAmbiguous, AppendViolatesProtocol, PoisonRuntime, s1, s4, s5, T
    <2>2. \A t \in Txns : reservation'[t] = reservation[t] \/ \E r \in recs : r.txn = t
      BY <1>19 DEF BatchAmbiguous
    <2>3. nextTs' \in Nat /\ nextTs' > nextTs /\ nextTs' - 1 = nextTs + k - 1
      BY <1>19, <2>1, SMT DEF TypeOK, SequencerTypeOK
    <2>4. Logged(recs)
      BY <1>4, <1>14, <1>19, <2>1, <2>3 DEF Logged
    <2>5. AppendEffect(recs, PendingTxns \cup rej \cup Elems(def))
      BY <1>4, <1>6, <1>10, <1>12, <1>14, <1>15, <2>1, <2>2, <2>4 DEF AppendEffect
    <2>6. QED
      BY <2>5
  <1>20. QED
    BY <1>8, <1>16, <1>17, <1>18, <1>19

----------------------------------------------------------------------------
(* Every step keeps a commit in one place and in the journal at most once;  *)
(* and which answers each step can give.                                    *)
LEMMA SequenceAppendOnce ==
    ASSUME TypeOK, TypeOK', Once, SequenceAppend
    PROVE  Once'
  <1>0. Places /\ WaitingInv /\ SubmitterInv /\ JournalOnce /\ NondurableInv
    BY DEF Once
  <1>1. PICK recs, R : AppendEffect(recs, R)
    BY <1>0, SequenceAppendEffect
  <1>2. /\ R \subseteq Waiting /\ Places' /\ Waiting' \subseteq Waiting \ R
        /\ \A r \in recs : r.txn \in Waiting /\ r.txn \notin R /\ r.txn \notin Waiting'
        /\ \A r, q \in recs : r.txn = q.txn => r = q
        /\ Withdrawn(recs) \/ Logged(recs)
    BY <1>1 DEF AppendEffect, Waiting
  <1>3. \A t \in Txns :
          \/ slot'[t].st = slot[t].st
          \/ t \in R /\ slot'[t].st = "rejected"
          \/ /\ \E r \in recs : r.txn = t
             /\ slot'[t].st \in {"failed_append", "ambiguous"}
    BY <1>1 DEF AppendEffect
  <1>4. UNCHANGED <<outcome, pc>>
    BY DEF SequenceAppend, threadVars
  <1>5. /\ \A t \in JournalTxns' : t \in JournalTxns \/ \E r \in recs : r.txn = t
        /\ journal' = journal => JournalTxns' = JournalTxns
    BY <1>2 DEF Withdrawn, Logged, JournalTxns
  <1>6. \A t \in Waiting :
           /\ slot[t].st = "queued" /\ outcome[t] = "pending"
           /\ t \notin JournalTxns /\ pc[t] \notin {"start", "enqueue"}
    BY <1>0 DEF WaitingInv
  <1>7. WaitingInv'
    <2> SUFFICES ASSUME NEW t \in Waiting'
                 PROVE  /\ slot'[t].st = "queued" /\ outcome'[t] = "pending"
                        /\ t \notin JournalTxns' /\ pc'[t] \notin {"start", "enqueue"}
      BY DEF WaitingInv
    <2>1. /\ t \in Txns /\ t \in Waiting /\ t \notin R
          /\ ~ \E r \in recs : r.txn = t
      BY <1>2, WaitingTxns
    <2>2. slot'[t].st = slot[t].st /\ t \notin JournalTxns'
      BY <1>3, <1>5, <1>6, <2>1
    <2>3. QED
      BY <1>4, <1>6, <2>1, <2>2
  <1>8. SubmitterInv'
    <2> SUFFICES ASSUME NEW t \in Txns
                 PROVE  /\ pc'[t] = "start" => slot'[t].st = "none"
                        /\ pc'[t] = "enqueue" => slot'[t].st = "queued"
                        /\ pc'[t] \in {"start", "enqueue"} => t \notin JournalTxns'
                        /\ outcome'[t] # "pending" => pc'[t] \in {"done", "idle"}
      BY DEF SubmitterInv
    <2>1. /\ pc[t] = "start" => slot[t].st = "none"
          /\ pc[t] = "enqueue" => slot[t].st = "queued"
          /\ pc[t] \in {"start", "enqueue"} => t \notin JournalTxns
          /\ outcome[t] # "pending" => pc[t] \in {"done", "idle"}
      BY <1>0 DEF SubmitterInv
    <2>2. ASSUME pc[t] \in {"start", "enqueue"}
          PROVE  slot'[t].st = slot[t].st /\ t \notin JournalTxns'
      <3>1. t \notin Waiting
        BY <1>6, <2>2
      <3>2. QED
        BY <1>2, <1>3, <1>5, <2>1, <2>2, <3>1
    <2>3. QED
      BY <1>4, <2>1, <2>2
  <1>9. JournalOnce'
    <2>1. CASE Withdrawn(recs)
      BY <1>0, <2>1 DEF Withdrawn, JournalOnce
    <2>2. CASE Logged(recs)
      <3>1. journal' = journal \cup recs
        BY <2>2 DEF Logged
      <3>2. \A r \in recs : r.txn \notin JournalTxns
        BY <1>2, <1>6
      <3>3. \A r \in recs, q \in journal : r.txn # q.txn
        BY <3>2 DEF JournalTxns
      <3>4. QED
        BY <1>0, <1>2, <3>1, <3>3 DEF JournalOnce
    <2>3. QED
      BY <1>2, <2>1, <2>2
  <1>10. NondurableInv'
    <2> SUFFICES ASSUME NEW t \in Txns, t \in JournalTxns'
                 PROVE  slot'[t].st \notin NondurableStates /\ outcome'[t] \notin NondurableStates
      BY DEF NondurableInv
    <2>1. slot[t].st \in NondurableStates \/ outcome[t] \in NondurableStates =>
             t \notin JournalTxns
      BY <1>0 DEF NondurableInv
    <2>2. CASE t \in JournalTxns
      <3>1. t \notin Waiting
        BY <1>6, <2>2
      <3>2. slot'[t].st = slot[t].st
        BY <1>2, <1>3, <3>1
      <3>3. QED
        BY <1>4, <2>1, <2>2, <3>2
    <2>3. CASE t \notin JournalTxns
      <3>1. PICK r \in recs : r.txn = t
        BY <1>5, <2>3
      <3>2. t \in Waiting /\ t \notin R
        BY <1>2, <3>1
      <3>3. slot[t].st = "queued" /\ outcome'[t] = "pending"
        BY <1>4, <1>6, <3>2
      <3>4. slot'[t].st \in {"queued", "failed_append", "ambiguous"}
        BY <1>3, <3>2, <3>3
      <3>5. Logged(recs)
        BY <1>2, <2>3 DEF Withdrawn, JournalTxns
      <3>6. slot'[t].st # "failed_append"
        BY <3>3, <3>5 DEF Logged
      <3>7. QED
        BY <3>3, <3>4, <3>6 DEF NondurableStates
    <2>4. QED
      BY <2>2, <2>3
  <1>11. QED
    BY <1>2, <1>7, <1>8, <1>9, <1>10 DEF Once

----------------------------------------------------------------------------
(* The submitters. *)

LEMMA OneSubmitter ==
    ASSUME TypeOK, TypeOK', Once, NEW t \in Txns, UNCHANGED journal, Places',
           \A u \in Waiting' : u # t => u \in Waiting,
           \A u \in Txns \ {t} : /\ slot'[u] = slot[u] /\ outcome'[u] = outcome[u]
                                 /\ pc'[u] = pc[u],
           t \in Waiting' =>
              /\ slot'[t].st = "queued" /\ outcome'[t] = "pending"
              /\ t \notin JournalTxns /\ pc'[t] \notin {"start", "enqueue"},
           pc'[t] # "start",
           pc'[t] = "enqueue" => slot'[t].st = "queued" /\ t \notin JournalTxns,
           outcome'[t] # "pending" => pc'[t] \in {"done", "idle"},
           slot'[t].st \in NondurableStates \/ outcome'[t] \in NondurableStates =>
              t \notin JournalTxns
    PROVE  Once'
  <1>0. Places /\ WaitingInv /\ SubmitterInv /\ JournalOnce /\ NondurableInv
    BY DEF Once
  <1>1. JournalTxns' = JournalTxns
    BY DEF JournalTxns
  <1>2. WaitingInv'
    <2> SUFFICES ASSUME NEW u \in Waiting', u # t
                 PROVE  /\ slot'[u].st = "queued" /\ outcome'[u] = "pending"
                        /\ u \notin JournalTxns' /\ pc'[u] \notin {"start", "enqueue"}
      BY <1>1 DEF WaitingInv
    <2>1. u \in Waiting /\ u \in Txns \ {t}
      BY WaitingTxns
    <2>2. QED
      BY <1>0, <1>1, <2>1 DEF WaitingInv
  <1>3. SubmitterInv'
    <2> SUFFICES ASSUME NEW u \in Txns
                 PROVE  /\ pc'[u] = "start" => slot'[u].st = "none"
                        /\ pc'[u] = "enqueue" => slot'[u].st = "queued"
                        /\ pc'[u] \in {"start", "enqueue"} => u \notin JournalTxns'
                        /\ outcome'[u] # "pending" => pc'[u] \in {"done", "idle"}
      BY DEF SubmitterInv
    <2>1. CASE u = t
      BY <1>1, <2>1
    <2>2. CASE u # t
      BY <1>0, <1>1, <2>2 DEF SubmitterInv
    <2>3. QED
      BY <2>1, <2>2
  <1>4. JournalOnce'
    BY <1>0 DEF JournalOnce
  <1>5. NondurableInv'
    <2> SUFFICES ASSUME NEW u \in Txns
                 PROVE  slot'[u].st \in NondurableStates \/ outcome'[u] \in NondurableStates =>
                            u \notin JournalTxns'
      BY DEF NondurableInv
    <2>1. CASE u = t
      BY <1>1, <2>1
    <2>2. CASE u # t
      BY <1>0, <1>1, <2>2 DEF NondurableInv
    <2>3. QED
      BY <2>1, <2>2
  <1>6. QED
    BY <1>2, <1>3, <1>4, <1>5 DEF Once

LEMMA SubmitCommitOnce ==
    ASSUME TypeOK, TypeOK', Once, NEW t \in Txns, SubmitCommit(t)
    PROVE  Once'
  <1>1. /\ pc[t] = "start" /\ UNCHANGED <<journal, placeVars>>
        /\ \/ /\ outcome' = [outcome EXCEPT ![t] = "not_admitted"]
              /\ pc' = [pc EXCEPT ![t] = "done"] /\ UNCHANGED slot
           \/ /\ slot' = Allocate(slot, t) /\ pc' = [pc EXCEPT ![t] = "enqueue"]
              /\ UNCHANGED outcome
    BY DEF SubmitCommit, NotAdmitted, queueVars, drainVars, seqVars, placeVars
  <1>2. Places' /\ Waiting' = Waiting
    BY <1>1, PlacesSame DEF Once
  <1>3. /\ pc \in [Threads -> ThreadPcs] /\ outcome \in [Txns -> Outcomes]
        /\ slot \in SlotTable /\ t \in Threads
    BY DEF TypeOK, ThreadTypeOK, CompletionTypeOK, Threads
  <1>4. /\ t \notin Waiting /\ t \notin JournalTxns /\ outcome[t] = "pending"
        /\ slot[t].st = "none"
    BY <1>1 DEF Once, WaitingInv, SubmitterInv
  <1>5. \A u \in Txns \ {t} : slot'[u] = slot[u] /\ outcome'[u] = outcome[u] /\ pc'[u] = pc[u]
    BY <1>1, <1>3 DEF Allocate, SlotTable, Threads
  <1>6. \/ pc'[t] = "done" /\ outcome'[t] = "not_admitted" /\ slot'[t] = slot[t]
        \/ pc'[t] = "enqueue" /\ outcome'[t] = "pending" /\ slot'[t].st = "queued"
    <2>1. Allocate(slot, t)[t].st = "queued"
      BY <1>3, SMT DEF Allocate, SlotTable
    <2>2. QED
      BY <1>1, <1>3, <1>4, <2>1
  <1>7. QED
    BY <1>1, <1>2, <1>4, <1>5, <1>6, OneSubmitter

LEMMA EnqueueJobOnce ==
    ASSUME TypeOK, TypeOK', Once, NEW t \in Txns, EnqueueJob(t)
    PROVE  Once'
  <1>1. /\ pc[t] = "enqueue" /\ UNCHANGED <<journal, deferred, pendingFence, local, batch, slot>>
        /\ \/ /\ entries' = Append(entries, t) /\ pc' = [pc EXCEPT ![t] = "signal"]
              /\ UNCHANGED outcome
           \/ /\ outcome' = [outcome EXCEPT ![t] = "not_admitted"]
              /\ pc' = [pc EXCEPT ![t] = "done"] /\ UNCHANGED entries
    BY DEF EnqueueJob, Enqueue, NotAdmitted, drainVars, seqVars
  <1>2. /\ pc \in [Threads -> ThreadPcs] /\ outcome \in [Txns -> Outcomes] /\ t \in Threads
    BY DEF TypeOK, ThreadTypeOK, CompletionTypeOK, Threads
  <1>3. /\ t \notin Waiting /\ t \notin JournalTxns /\ outcome[t] = "pending"
        /\ slot[t].st = "queued" /\ Places
    BY <1>1 DEF Once, WaitingInv, SubmitterInv
  <1>4. \A u \in Txns \ {t} : slot'[u] = slot[u] /\ outcome'[u] = outcome[u] /\ pc'[u] = pc[u]
    BY <1>1, <1>2 DEF Threads
  <1>5. CASE entries' = Append(entries, t) /\ pc' = [pc EXCEPT ![t] = "signal"] /\ UNCHANGED outcome
    <2>1. pc'[t] = "signal"
      BY <1>2, <1>5
    <2>2. entries \in Seq(Txns) /\ NoRepeat(entries) /\ t \notin Elems(entries)
      BY <1>3 DEF TypeOK, QueueTypeOK, Places, Waiting, PendingTxns
    <2>3. Elems(entries') = Elems(entries) \cup {t} /\ NoRepeat(entries')
      BY <1>5, <2>2, PutOnce
    <2>4. FencedTxns' = FencedTxns /\ FenceOnce'
      <3>1. UNCHANGED pendingFence /\ FenceOnce
        BY <1>1, <1>3 DEF Places
      <3>2. QED
        BY <3>1 DEF FencedTxns, FenceOnce
    <2>5. \A u \in Txns : InOnePlace(u)'
      <3> TAKE u \in Txns
      <3>1. InOnePlace(u)
        BY <1>3 DEF Places
      <3>2. u = t => u \notin Elems(deferred) \cup FencedTxns \cup Elems(local) \cup Elems(batch)
        BY <1>3 DEF Waiting, PendingTxns
      <3>3. QED
        BY <1>1, <2>3, <2>4, <3>1, <3>2 DEF InOnePlace
    <2>6. Places'
      BY <1>1, <1>3, <2>3, <2>4, <2>5 DEF Places
    <2>7. \A u \in Waiting' : u # t => u \in Waiting
      BY <1>1, <2>3, <2>4 DEF Waiting, PendingTxns
    <2>8. slot'[t].st = "queued" /\ outcome'[t] = "pending"
      BY <1>1, <1>3, <1>5
    <2>9. QED
      BY <1>1, <1>3, <1>4, <2>1, <2>6, <2>7, <2>8, OneSubmitter
  <1>6. CASE outcome' = [outcome EXCEPT ![t] = "not_admitted"] /\ pc' = [pc EXCEPT ![t] = "done"]
             /\ UNCHANGED entries
    <2>1. pc'[t] = "done" /\ outcome'[t] = "not_admitted" /\ slot'[t] = slot[t]
      BY <1>1, <1>2, <1>6
    <2>2. Places' /\ Waiting' = Waiting
      BY <1>1, <1>3, <1>6, PlacesSame DEF placeVars
    <2>3. QED
      BY <1>1, <1>3, <1>4, <2>1, <2>2, OneSubmitter
  <1>7. QED
    BY <1>1, <1>5, <1>6

LEMMA WaitCompletionOnce ==
    ASSUME TypeOK, TypeOK', Once, NEW t \in Txns, WaitCompletion(t)
    PROVE  Once'
  <1>1. /\ pc[t] = "wait" /\ UNCHANGED <<journal, placeVars>>
        /\ slot[t].st \in TerminalStates
        /\ outcome' = [outcome EXCEPT ![t] = slot[t].st]
        /\ slot' = [slot EXCEPT ![t] = NoSlot] /\ pc' = [pc EXCEPT ![t] = "done"]
    BY DEF WaitCompletion, Wait, IsTerminal, queueVars, drainVars, seqVars, placeVars
  <1>2. Places' /\ Waiting' = Waiting
    BY <1>1, PlacesSame DEF Once
  <1>3. /\ pc \in [Threads -> ThreadPcs] /\ outcome \in [Txns -> Outcomes]
        /\ slot \in SlotTable /\ t \in Threads
    BY DEF TypeOK, ThreadTypeOK, CompletionTypeOK, Threads
  <1>4. /\ t \notin Waiting
        /\ slot[t].st \in NondurableStates => t \notin JournalTxns
    BY <1>1 DEF Once, WaitingInv, NondurableInv, TerminalStates
  <1>5. \A u \in Txns \ {t} : slot'[u] = slot[u] /\ outcome'[u] = outcome[u] /\ pc'[u] = pc[u]
    BY <1>1, <1>3 DEF SlotTable, Threads
  <1>6. /\ pc'[t] = "done" /\ outcome'[t] = slot[t].st /\ slot'[t] = NoSlot
        /\ NoSlot.st = "none" /\ "none" \notin NondurableStates
    BY <1>1, <1>3 DEF SlotTable, NoSlot, NondurableStates
  <1>7. QED
    BY <1>1, <1>2, <1>4, <1>5, <1>6, OneSubmitter

----------------------------------------------------------------------------
(* What the completion events tell, and whom. *)

LEMMA SlotOwner ==
    ASSUME TypeOK, PipelineInv, NEW r \in journal, NEW t \in Txns, slot[t].ts = r.ts
    PROVE  r.txn = t
  <1>1. r.ts # 0
    BY SMT DEF PipelineInv, JournalDense
  <1>2. [txn |-> t, ts |-> slot[t].ts] \in journal
    BY <1>1 DEF PipelineInv, SlotsTellTheTruth
  <1>3. [txn |-> t, ts |-> slot[t].ts] = r
    BY <1>2 DEF PipelineInv, JournalDense
  <1>4. QED
    BY <1>3

LEMMA RejectTells ==
    ASSUME TypeOK, NEW R, slot' = SetState(slot, R, "rejected")
    PROVE  Tells(R, {}, {})
  <1>1. slot \in SlotTable
    BY DEF TypeOK, CompletionTypeOK
  <1>2. \A t \in Txns : slot'[t].st = slot[t].st \/ (t \in R /\ slot'[t].st = "rejected")
    BY <1>1, SetStateAt, SMT
  <1>3. QED
    BY <1>2 DEF Tells

LEMMA SetStateTells ==
    ASSUME TypeOK, NEW Q, NEW x, slot' = SetState(slot, {r.txn : r \in Q}, x)
    PROVE  Tells({}, Q, {x})
  <1> DEFINE T == {r.txn : r \in Q}
  <1>1. slot \in SlotTable /\ \A t : t \in T => \E r \in Q : r.txn = t
    BY DEF TypeOK, CompletionTypeOK
  <1>2. slot' = SetState(slot, T, x)
    OBVIOUS
  <1> HIDE DEF T
  <1>3. \A t \in Txns : slot'[t].st = slot[t].st \/ (t \in T /\ slot'[t].st = x)
    BY <1>1, <1>2, SetStateAt, SMT
  <1>4. QED
    BY <1>1, <1>3 DEF Tells

LEMMA DurableTells ==
    ASSUME TypeOK, MarkBatchDurable
    PROVE  Tells({}, accepted, {"durable"})
  <1>1. slot' = MarkDurable(slot, accepted)
    BY DEF MarkBatchDurable
  <1>2. \A t \in Txns :
           slot'[t] = slot[t] \/ ((\E q \in accepted : q.txn = t) /\ slot'[t].st = "durable")
    BY <1>1, SMT DEF MarkDurable
  <1>3. QED
    BY <1>2 DEF Tells

LEMMA SubmittedTells ==
    ASSUME TypeOK, PipelineInv, NEW r \in journal, slot' = MarkPublishSubmitted(slot, r.ts)
    PROVE  Tells({}, {r}, {"acked", "published", "submitted"})
  <1>1. slot \in SlotTable
    BY DEF TypeOK, CompletionTypeOK
  <1>2. \A t \in Txns :
           slot'[t] = slot[t] \/ (slot[t].ts = r.ts /\ slot'[t].st \in {"acked", "published", "submitted"})
    BY <1>1, SMT DEF MarkPublishSubmitted, SlotsForCommitTs, SlotTable
  <1>3. QED
    BY <1>2, SlotOwner DEF Tells

LEMMA PublishedTells ==
    ASSUME TypeOK, PipelineInv, NEW r \in journal, slot' = MarkPublished(slot, r.ts)
    PROVE  Tells({}, {r}, {"published", "durable_done"})
  <1>1. slot \in SlotTable
    BY DEF TypeOK, CompletionTypeOK
  <1>2. \A t \in Txns :
           slot'[t] = slot[t] \/ (slot[t].ts = r.ts /\ slot'[t].st \in {"published", "durable_done"})
    BY <1>1, SMT DEF MarkPublished, SlotsForCommitTs, SlotTable
  <1>3. QED
    BY <1>2, SlotOwner DEF Tells

LEMMA FailureTells ==
    ASSUME TypeOK, PipelineInv, NEW r \in journal, NEW x \in SlotStates,
           slot' = SetStateForCommitTs(RejectPending(slot, {}), r.ts, x)
    PROVE  Tells(PendingTxns, {r}, {x})
  <1> DEFINE s1 == SetState(slot, PendingTxns, "rejected")
             T == SlotsForCommitTs(s1, r.ts)
  <1>1. slot \in SlotTable /\ "rejected" \in SlotStates /\ PendingTxns \cup {} = PendingTxns
    BY DEF TypeOK, CompletionTypeOK, SlotStates, TerminalStates
  <1>2. slot' = SetState(s1, T, x) /\ s1 \in SlotTable
    BY <1>1, SetStateType DEF SetStateForCommitTs, RejectPending
  <1>3. \A t \in Txns : /\ s1[t].st = slot[t].st \/ (t \in PendingTxns /\ s1[t].st = "rejected")
                        /\ s1[t].ts = slot[t].ts
    BY <1>1, SMT DEF SetState, SlotTable
  <1>4. \A t \in Txns : t \in T => s1[t].ts = r.ts
    BY DEF SlotsForCommitTs
  <1> HIDE DEF s1, T
  <1>5. \A t \in Txns : slot'[t].st = s1[t].st \/ (t \in T /\ slot'[t].st = x)
    BY <1>2, SetStateAt, SMT
  <1>6. \A t \in Txns : t \in T => r.txn = t
    BY <1>3, <1>4, SlotOwner
  <1>7. QED
    BY <1>3, <1>5, <1>6 DEF Tells

LEMMA CurrentInJournal ==
    ASSUME TypeOK, PipelineInv
    PROVE  /\ finBatch \subseteq journal /\ QueuedForFinalize \subseteq journal
           /\ accepted \subseteq journal /\ Elems(applyQueue) \subseteq journal
  BY DEF PipelineInv, ScheduledIsDurable, InFlight

LEMMA HeadInJournal ==
    ASSUME TypeOK, PipelineInv, applyPc # "idle"
    PROVE  applyQueue # <<>> /\ Head(applyQueue) \in journal /\ Head(applyQueue) \in Elems(applyQueue)
  <1>1. applyQueue # <<>> /\ applyQueue \in Seq(Record)
    BY DEF TypeOK, ApplyTypeOK
  <1>2. Head(applyQueue) \in Elems(applyQueue)
    BY <1>1, TakeOnce, ZenonT(120)
  <1>3. QED
    BY <1>1, <1>2, CurrentInJournal

LEMMA PendingWaits == PendingTxns \subseteq Waiting
  BY DEF Waiting

----------------------------------------------------------------------------
LEMMA AfterDrainPc ==
    ASSUME TypeOK, NEW th, pc' = [pc EXCEPT ![th] = AfterDrain(pc[th])]
    PROVE  PcOnward
  <1>1. AfterDrain(pc[th]) \in {"drain2", "wait", "idle"}
        /\ (pc[th] \in {"done", "idle"} => AfterDrain(pc[th]) = "idle")
    BY SMT DEF AfterDrain
  <1>2. pc \in [Threads -> ThreadPcs] /\ \A t \in Txns : t \in Threads
    BY DEF TypeOK, ThreadTypeOK, Threads
  <1>3. \A t \in Txns : IF t = th THEN pc'[t] = AfterDrain(pc[th]) ELSE pc'[t] = pc[t]
    BY <1>2
  <1>4. QED
    BY <1>1, <1>3 DEF PcOnward

LEMMA DrainOwnerOnce ==
    ASSUME TypeOK, TypeOK', PipelineInv, Once, DrainOwner
    PROVE  Once'
  <1>0. Places /\ {} \subseteq Waiting /\ {} \subseteq journal /\ {} \subseteq DurableStates
    BY DEF Once
  <1>1. CASE DrainTop
    <2>1. UNCHANGED <<slot, journal, outcome, pc>>
      BY <1>1 DEF DrainTop, completionVars, seqVars, threadVars
    <2>2. Places' /\ Waiting' \subseteq Waiting \ {}
      BY <1>0, <1>1, DrainTopPlaces
    <2>3. QED
      BY <1>0, <2>1, <2>2, TellsNone, PcSame, ToldStep
  <1>2. CASE DrainTakeBuffer
    <2>1. UNCHANGED <<slot, journal, outcome, pc>>
      BY <1>2 DEF DrainTakeBuffer, completionVars, seqVars, threadVars
    <2>2. Places' /\ Waiting' \subseteq Waiting \ {}
      BY <1>0, <1>2, DrainTakeBufferPlaces
    <2>3. QED
      BY <1>0, <2>1, <2>2, TellsNone, PcSame, ToldStep
  <1>3. CASE ProcessEntries
    <2>1. UNCHANGED <<journal, outcome, pc>>
      BY <1>3 DEF ProcessEntries, seqVars, threadVars
    <2>2. Places'
      BY <1>0, <1>3, ProcessEntriesPlaces
    <2>3. CASE Waiting' \subseteq Waiting /\ UNCHANGED slot
      <3>1. Waiting' \subseteq Waiting \ {}
        BY <2>3
      <3>2. QED
        BY <1>0, <2>1, <2>2, <2>3, <3>1, TellsNone, PcSame, ToldStep
    <2>4. CASE /\ local # <<>> /\ slot' = SetState(slot, {Head(local)}, "rejected")
               /\ Waiting' \subseteq Waiting \ {Head(local)}
      <3> DEFINE R == {Head(local)}
      <3>1. R \subseteq Waiting
        BY <1>0, <2>4, FrontOnce DEF Waiting
      <3>2. Tells(R, {}, {}) /\ Waiting' \subseteq Waiting \ R
        BY <2>4, RejectTells
      <3> HIDE DEF R
      <3>3. QED
        BY <1>0, <2>1, <2>2, <3>1, <3>2, PcSame, ToldStep
    <2>5. QED
      BY <1>0, <1>3, <2>3, <2>4, ProcessEntriesPlaces
  <1>4. CASE GrowBatch
    <2>1. UNCHANGED <<slot, journal, outcome, pc>>
      BY <1>4 DEF GrowBatch, completionVars, seqVars, threadVars
    <2>2. Places' /\ Waiting' \subseteq Waiting \ {}
      BY <1>0, <1>4, GrowBatchPlaces
    <2>3. QED
      BY <1>0, <2>1, <2>2, TellsNone, PcSame, ToldStep
  <1>5. CASE SequenceAppend
    BY <1>5, SequenceAppendOnce
  <1>6. CASE MarkBatchDurable
    <2>1. UNCHANGED <<journal, outcome, pc, placeVars>>
      BY <1>6 DEF MarkBatchDurable, seqVars, threadVars, queueVars, placeVars
    <2>2. Places' /\ Waiting' \subseteq Waiting \ {}
      BY <1>0, <2>1, PlacesSame
    <2>3. Tells({}, accepted, {"durable"}) /\ accepted \subseteq journal
          /\ {"durable"} \subseteq DurableStates
      BY <1>6, DurableTells, CurrentInJournal DEF DurableStates
    <2>4. QED
      BY <1>0, <2>1, <2>2, <2>3, PcSame, ToldStep
  <1>7. CASE ScheduleBatch
    <2>1. UNCHANGED <<journal, outcome, pc, placeVars>>
      BY <1>7 DEF ScheduleBatch, seqVars, threadVars, queueVars, placeVars
    <2>2. Places' /\ Waiting' \subseteq Waiting \ {}
      BY <1>0, <2>1, PlacesSame
    <2>3. CASE UNCHANGED slot
      BY <1>0, <2>1, <2>2, <2>3, TellsNone, PcSame, ToldStep
    <2>4. CASE slot' = SetState(slot, {r.txn : r \in accepted}, "ambiguous")
      <3>1. Tells({}, accepted, {"ambiguous"}) /\ accepted \subseteq journal
            /\ {"ambiguous"} \subseteq DurableStates
        BY <2>4, SetStateTells, CurrentInJournal DEF DurableStates
      <3>2. QED
        BY <1>0, <2>1, <2>2, <3>1, PcSame, ToldStep
    <2>5. QED
      BY <1>7, <2>3, <2>4 DEF ScheduleBatch
  <1>8. CASE PoisonAfterSchedule
    <2>1. UNCHANGED <<journal, outcome, pc, local, batch>> /\ PoisonRuntime
          /\ slot' = SetState(slot, PendingTxns \cup {}, "rejected")
      BY <1>8 DEF PoisonAfterSchedule, seqVars, threadVars, RejectPending
    <2>2. Places' /\ Waiting' \subseteq Waiting \ PendingTxns
      BY <1>0, <2>1, PlacesPoison
    <2>3. Tells(PendingTxns, {}, {})
      <3>1. PendingTxns \cup {} = PendingTxns
        OBVIOUS
      <3>2. QED
        BY <2>1, <3>1, RejectTells
    <2>4. QED
      BY <1>0, <2>1, <2>2, <2>3, PendingWaits, PcSame, ToldStep
  <1>9. CASE DrainTurn
    <2>1. UNCHANGED <<slot, journal, outcome, pc, placeVars>>
      BY <1>9 DEF DrainTurn, completionVars, seqVars, threadVars, queueVars, placeVars
    <2>2. Places' /\ Waiting' \subseteq Waiting \ {}
      BY <1>0, <2>1, PlacesSame
    <2>3. QED
      BY <1>0, <2>1, <2>2, TellsNone, PcSame, ToldStep
  <1>10. CASE DrainRelease
    <2>1. UNCHANGED <<slot, journal, outcome, placeVars>>
          /\ pc' = [pc EXCEPT ![drainOwner] = AfterDrain(pc[drainOwner])]
      BY <1>10 DEF DrainRelease, completionVars, seqVars, placeVars
    <2>2. Places' /\ Waiting' \subseteq Waiting \ {}
      BY <1>0, <2>1, PlacesSame
    <2>3. PcOnward
      BY <2>1, AfterDrainPc DEF PcOnward
    <2>4. QED
      BY <1>0, <2>1, <2>2, <2>3, TellsNone, ToldStep
  <1>11. QED
    BY <1>1, <1>2, <1>3, <1>4, <1>5, <1>6, <1>7, <1>8, <1>9, <1>10 DEF DrainOwner

LEMMA FinalizeWorkerOnce ==
    ASSUME TypeOK, TypeOK', PipelineInv, Once, FinalizeWorker
    PROVE  Once'
  <1>0. Places /\ {} \subseteq Waiting /\ {} \subseteq journal /\ {} \subseteq DurableStates
    BY DEF Once
  <1>1. CASE FinalizePop \/ FinalizePhase1 \/ FinalizeRegister \/ FinalizeSubmit \/ FinalizeFail
    <2>1. UNCHANGED <<slot, journal, outcome, pc, placeVars>>
      BY <1>1 DEF FinalizePop, FinalizePhase1, FinalizeRegister, FinalizeSubmit, FinalizeFail,
                  completionVars, seqVars, threadVars, queueVars, drainVars, placeVars
    <2>2. Places' /\ Waiting' \subseteq Waiting \ {}
      BY <1>0, <2>1, PlacesSame
    <2>3. QED
      BY <1>0, <2>1, <2>2, TellsNone, PcSame, ToldStep
  <1>2. CASE FinalizeSubmitted
    <2>1. UNCHANGED <<journal, outcome, pc, placeVars>>
      BY <1>2 DEF FinalizeSubmitted, seqVars, threadVars, queueVars, drainVars, placeVars
    <2>2. PICK r \in finBatch : slot' = MarkPublishSubmitted(slot, r.ts)
      BY <1>2 DEF FinalizeSubmitted
    <2>3. Places' /\ Waiting' \subseteq Waiting \ {}
      BY <1>0, <2>1, PlacesSame
    <2>4. {r} \subseteq journal /\ Tells({}, {r}, {"acked", "published", "submitted"})
          /\ {"acked", "published", "submitted"} \subseteq DurableStates
      BY <2>2, CurrentInJournal, SubmittedTells DEF DurableStates
    <2>5. QED
      BY <1>0, <2>1, <2>3, <2>4, PcSame, ToldStep
  <1>3. CASE FinalizeStageError
    <2>1. UNCHANGED <<journal, outcome, pc, local, batch>> /\ PoisonRuntime
      BY <1>3 DEF FinalizeStageError, seqVars, threadVars, drainVars
    <2>2. PICK r \in finBatch :
             slot' = SetStateForCommitTs(RejectPending(slot, {}), r.ts, "ambiguous")
      BY <1>3 DEF FinalizeStageError
    <2>3. Places' /\ Waiting' \subseteq Waiting \ PendingTxns
      BY <1>0, <2>1, PlacesPoison
    <2>4. {r} \subseteq journal /\ Tells(PendingTxns, {r}, {"ambiguous"})
          /\ {"ambiguous"} \subseteq DurableStates
      <3>1. r \in journal /\ "ambiguous" \in SlotStates
        BY CurrentInJournal DEF SlotStates, TerminalStates
      <3>2. QED
        BY <2>2, <3>1, FailureTells DEF DurableStates
    <2>5. QED
      BY <1>0, <2>1, <2>3, <2>4, PendingWaits, PcSame, ToldStep
  <1>4. CASE FinalizeDrain
    <2> DEFINE Q == finBatch \cup QueuedForFinalize
    <2>1. UNCHANGED <<journal, outcome, pc, placeVars>>
          /\ slot' = SetState(slot, {r.txn : r \in Q}, "ambiguous")
      BY <1>4 DEF FinalizeDrain, seqVars, threadVars, queueVars, drainVars, placeVars
    <2>2. Q \subseteq journal
      BY CurrentInJournal
    <2> HIDE DEF Q
    <2>3. Places' /\ Waiting' \subseteq Waiting \ {}
      BY <1>0, <2>1, PlacesSame
    <2>4. Tells({}, Q, {"ambiguous"}) /\ {"ambiguous"} \subseteq DurableStates
      BY <2>1, SetStateTells DEF DurableStates
    <2>5. QED
      BY <1>0, <2>1, <2>2, <2>3, <2>4, PcSame, ToldStep
  <1>5. QED
    BY <1>1, <1>2, <1>3, <1>4 DEF FinalizeWorker

LEMMA ApplyWorkerOnce ==
    ASSUME TypeOK, TypeOK', PipelineInv, Once, ApplyWorker
    PROVE  Once'
  <1>0. Places /\ {} \subseteq Waiting /\ {} \subseteq journal /\ {} \subseteq DurableStates
    BY DEF Once
  <1>1. CASE ApplyPublish \/ ApplyFail
    <2>1. UNCHANGED <<slot, journal, outcome, pc, placeVars>>
      BY <1>1 DEF ApplyPublish, ApplyFail,
                  completionVars, seqVars, threadVars, queueVars, drainVars, placeVars
    <2>2. Places' /\ Waiting' \subseteq Waiting \ {}
      BY <1>0, <2>1, PlacesSame
    <2>3. QED
      BY <1>0, <2>1, <2>2, TellsNone, PcSame, ToldStep
  <1> DEFINE r == Head(applyQueue)
  <1>2. CASE ApplyComplete
    <2>1. UNCHANGED <<journal, outcome, pc, placeVars>> /\ slot' = MarkPublished(slot, r.ts)
      BY <1>2 DEF ApplyComplete, seqVars, threadVars, queueVars, drainVars, placeVars
    <2>2. Places' /\ Waiting' \subseteq Waiting \ {}
      BY <1>0, <2>1, PlacesSame
    <2>3. r \in journal
      BY <1>2, HeadInJournal DEF ApplyComplete
    <2> HIDE DEF r
    <2>4. {r} \subseteq journal /\ Tells({}, {r}, {"published", "durable_done"})
          /\ {"published", "durable_done"} \subseteq DurableStates
      BY <2>1, <2>3, PublishedTells DEF DurableStates
    <2>5. QED
      BY <1>0, <2>1, <2>2, <2>4, PcSame, ToldStep
  <1>3. CASE ApplyCompleteFailed
    <2>1. UNCHANGED <<journal, outcome, pc, local, batch>> /\ PoisonRuntime
          /\ slot' = SetStateForCommitTs(RejectPending(slot, {}), r.ts, "failed_apply")
      BY <1>3 DEF ApplyCompleteFailed, seqVars, threadVars, drainVars
    <2>2. Places' /\ Waiting' \subseteq Waiting \ PendingTxns
      BY <1>0, <2>1, PlacesPoison
    <2>3. r \in journal
      BY <1>3, HeadInJournal DEF ApplyCompleteFailed
    <2> HIDE DEF r
    <2>4. {r} \subseteq journal /\ Tells(PendingTxns, {r}, {"failed_apply"})
          /\ {"failed_apply"} \subseteq DurableStates
      <3>1. "failed_apply" \in SlotStates
        BY DEF SlotStates, TerminalStates
      <3>2. QED
        BY <2>1, <2>3, <3>1, FailureTells DEF DurableStates
    <2>5. QED
      BY <1>0, <2>1, <2>2, <2>4, PendingWaits, PcSame, ToldStep
  <1>4. QED
    BY <1>1, <1>2, <1>3 DEF ApplyWorker

LEMMA OnceInit == Init => Once
  <1> SUFFICES ASSUME Init PROVE Once
    OBVIOUS
  <1>1. /\ entries = <<>> /\ deferred = <<>> /\ pendingFence = <<>>
        /\ local = <<>> /\ batch = <<>> /\ journal = {}
        /\ slot = [t \in Txns |-> NoSlot] /\ outcome = [t \in Txns |-> "pending"]
        /\ pc = [th \in Threads |-> IF th \in Txns THEN "start" ELSE "idle"]
    BY DEF Init, QueueInit, CompletionInit
  <1>2. FencedTxns = {} /\ FenceOnce
    BY <1>1, SMT DEF FencedTxns, FenceOnce
  <1>3. /\ Elems(entries) = {} /\ Elems(deferred) = {} /\ Elems(local) = {}
        /\ Elems(batch) = {}
    BY <1>1, NothingOnce
  <1>4. Places
    BY <1>1, <1>2, <1>3, NothingOnce DEF Places, InOnePlace
  <1>5. Waiting = {} /\ JournalTxns = {}
    BY <1>1, <1>2, <1>3 DEF Waiting, PendingTxns, JournalTxns
  <1>6. \A t \in Txns : slot[t].st = "none" /\ outcome[t] = "pending" /\ pc[t] = "start"
    BY <1>1 DEF NoSlot, Threads
  <1>7. QED
    BY <1>1, <1>4, <1>5, <1>6 DEF Once, WaitingInv, SubmitterInv, JournalOnce, NondurableInv

LEMMA OnceStep ==
    ASSUME TypeOK, TypeOK', PipelineInv, Once, [Next]_vars
    PROVE  Once'
  <1>0. Places /\ {} \subseteq Waiting /\ {} \subseteq journal /\ {} \subseteq DurableStates
    BY DEF Once
  <1>1. ASSUME NEW t \in Txns, SignalDrain(t) PROVE Once'
    <2>1. UNCHANGED <<slot, journal, outcome, placeVars>> /\ pc[t] = "signal"
          /\ \E x \in {"drain1", "drain2"} : pc' = [pc EXCEPT ![t] = x]
      BY <1>1 DEF SignalDrain, completionVars, seqVars, queueVars, drainVars, placeVars
    <2>2. Places' /\ Waiting' \subseteq Waiting \ {}
      BY <1>0, <2>1, PlacesSame
    <2>3. PcOnward
      BY <2>1 DEF PcOnward, TypeOK, ThreadTypeOK, Threads
    <2>4. QED
      BY <1>0, <2>1, <2>2, <2>3, TellsNone, ToldStep
  <1>2. ASSUME NEW w \in Wakers, TakeWakeTask(w) PROVE Once'
    <2>1. UNCHANGED <<slot, journal, outcome, placeVars>> /\ pc' = [pc EXCEPT ![w] = "drain"]
      BY <1>2 DEF TakeWakeTask, completionVars, seqVars, queueVars, drainVars, placeVars
    <2>2. Places' /\ Waiting' \subseteq Waiting \ {}
      BY <1>0, <2>1, PlacesSame
    <2>3. PcOnward
      <3>1. \A t \in Txns : t # w /\ t \in Threads
        BY QueueAssumption DEF Threads
      <3>2. QED
        BY <2>1, <3>1 DEF PcOnward, TypeOK, ThreadTypeOK
    <2>4. QED
      BY <1>0, <2>1, <2>2, <2>3, TellsNone, ToldStep
  <1>3. ASSUME NEW th \in Threads, DrainInline(th) PROVE Once'
    <2>1. UNCHANGED <<slot, journal, outcome, placeVars>>
          /\ (pc' = pc \/ pc' = [pc EXCEPT ![th] = AfterDrain(pc[th])])
      BY <1>3 DEF DrainInline, completionVars, seqVars, placeVars
    <2>2. Places' /\ Waiting' \subseteq Waiting \ {}
      BY <1>0, <2>1, PlacesSame
    <2>3. PcOnward
      BY <2>1, AfterDrainPc, PcSame DEF PcOnward
    <2>4. QED
      BY <1>0, <2>1, <2>2, <2>3, TellsNone, ToldStep
  <1>4. CASE UNCHANGED vars
    <2>1. UNCHANGED <<slot, journal, outcome, pc, placeVars>>
      BY <1>4 DEF vars, completionVars, seqVars, threadVars, queueVars, drainVars, placeVars
    <2>2. Places' /\ Waiting' \subseteq Waiting \ {}
      BY <1>0, <2>1, PlacesSame
    <2>3. QED
      BY <1>0, <2>1, <2>2, TellsNone, PcSame, ToldStep
  <1>5. QED
    BY <1>1, <1>2, <1>3, <1>4, SubmitCommitOnce, EnqueueJobOnce, WaitCompletionOnce,
       DrainOwnerOnce, FinalizeWorkerOnce, ApplyWorkerOnce DEF Next, Submitter

----------------------------------------------------------------------------
(* Which step can give a submitter which answer. *)

Fate(t, x) == slot[t].st = x \/ outcome[t] = x

(* The answers after a step, in terms of those before it. *)
FateStep(x, T) == \A t \in Txns : Fate(t, x)' => Fate(t, x) \/ t \in T

TxnsOf(Q) == {q.txn : q \in Q}

Current == {r \in finBatch : IsCurrent(r)}

LEMMA FateTold ==
    ASSUME NEW R, NEW Q, NEW X, NEW x, Tells(R, Q, X), UNCHANGED outcome, x # "rejected"
    PROVE  /\ FateStep(x, TxnsOf(Q))
           /\ x \notin X => FateStep(x, {})
  <1>1. \A t \in Txns : /\ slot'[t].st = x => slot[t].st = x \/ (t \in TxnsOf(Q) /\ x \in X)
                        /\ outcome'[t] = outcome[t]
    BY DEF Tells, TxnsOf
  <1>2. QED
    BY <1>1 DEF FateStep, Fate

(* No answer but a rejection comes from the other steps. *)
LateAnswers == {"acked", "ambiguous", "failed_apply"}

LEMMA FateSubmitter ==
    ASSUME TypeOK, NEW t \in Txns, NEW x \in LateAnswers,
           SubmitCommit(t) \/ EnqueueJob(t) \/ SignalDrain(t) \/ WaitCompletion(t)
    PROVE  FateStep(x, {})
  <1>1. slot \in SlotTable /\ outcome \in [Txns -> Outcomes]
    BY DEF TypeOK, CompletionTypeOK
  <1>2. \/ slot' = Allocate(slot, t) /\ UNCHANGED outcome
        \/ outcome' = [outcome EXCEPT ![t] = "not_admitted"] /\ UNCHANGED slot
        \/ UNCHANGED <<slot, outcome>>
        \/ slot' = [slot EXCEPT ![t] = NoSlot] /\ outcome' = [outcome EXCEPT ![t] = slot[t].st]
    BY DEF SubmitCommit, EnqueueJob, SignalDrain, WaitCompletion, Wait, NotAdmitted,
           completionVars
  <1>3. /\ x # "queued" /\ x # "not_admitted" /\ x # "none"
        /\ NoSlot.st = "none"
    BY DEF LateAnswers, NoSlot
  <1>4. \A u \in Txns : /\ u # t => slot'[u] = slot[u] /\ outcome'[u] = outcome[u]
                        /\ slot'[u].st \in {slot[u].st, "queued", "none"}
                        /\ outcome'[u] \in {outcome[u], "not_admitted", slot[u].st}
    <2>1. \A u \in Txns : u # t => slot'[u] = slot[u] /\ outcome'[u] = outcome[u]
      BY <1>1, <1>2 DEF Allocate, SlotTable
    <2>2. Allocate(slot, t)[t].st = "queued"
      BY <1>1, SMT DEF Allocate, SlotTable
    <2>3. slot'[t].st \in {slot[t].st, "queued", "none"}
      BY <1>1, <1>2, <1>3, <2>2 DEF SlotTable
    <2>4. outcome'[t] \in {outcome[t], "not_admitted", slot[t].st}
      BY <1>1, <1>2
    <2>5. QED
      BY <2>1, <2>3, <2>4
  <1>5. QED
    BY <1>3, <1>4 DEF FateStep, Fate

LEMMA FateQuiet ==
    ASSUME NEW x, UNCHANGED <<slot, outcome>>
    PROVE  FateStep(x, {})
  BY DEF FateStep, Fate

(* The step answers x to some of T, and otherwise only rejections. *)
Only(x, T) == FateStep(x, T) /\ \A y \in LateAnswers \ {x} : FateStep(y, {})

LEMMA OnlyTold ==
    ASSUME NEW R, NEW Q, NEW X, NEW x, Tells(R, Q, X), UNCHANGED outcome,
           x \in LateAnswers, X \cap LateAnswers \subseteq {x}
    PROVE  Only(x, TxnsOf(Q))
  <1>1. \A y \in LateAnswers : y # "rejected"
    BY DEF LateAnswers
  <1>2. QED
    BY <1>1, FateTold DEF Only

LEMMA AppendFates ==
    ASSUME TypeOK, TypeOK', Once, SequenceAppend
    PROVE  \/ \A x \in LateAnswers : FateStep(x, {})
           \/ ~HasWal /\ poisoned' /\ Only("ambiguous", Txns)
  <1>1. PICK recs, R : AppendEffect(recs, R)
    BY SequenceAppendEffect DEF Once
  <1>2. \A t \in Txns :
          \/ slot'[t].st = slot[t].st
          \/ slot'[t].st \in {"rejected", "failed_append", "ambiguous"}
    BY <1>1 DEF AppendEffect
  <1>3. UNCHANGED outcome
    BY DEF SequenceAppend
  <1>4. FateStep("acked", {}) /\ FateStep("failed_apply", {})
    BY <1>2, <1>3 DEF FateStep, Fate
  <1>5. LateAnswers = {"acked", "ambiguous", "failed_apply"}
    BY DEF LateAnswers
  <1>6. CASE \A t \in Txns : slot'[t].st = "ambiguous" => slot[t].st = "ambiguous"
    <2>1. FateStep("ambiguous", {})
      BY <1>3, <1>6 DEF FateStep, Fate
    <2>2. QED
      BY <1>4, <1>5, <2>1
  <1>7. CASE ~HasWal /\ poisoned'
    <2>1. FateStep("ambiguous", Txns)
      BY DEF FateStep
    <2>2. QED
      BY <1>4, <1>5, <1>7, <2>1 DEF Only
  <1>8. QED
    BY <1>1, <1>6, <1>7 DEF AppendEffect, Withdrawn, Logged

(* Only four steps answer that a commit is acknowledged, failed, or of      *)
(* unknown fate, and each to the commits it works on.                       *)
LEMMA Fates ==
    ASSUME TypeOK, TypeOK', PipelineInv, Once, [Next]_vars
    PROVE  \/ \A x \in LateAnswers : FateStep(x, {})
           \/ SequenceAppend /\ ~HasWal /\ poisoned' /\ Only("ambiguous", Txns)
           \/ ScheduleBatch /\ finPoison /\ Only("ambiguous", TxnsOf(accepted))
           \/ FinalizeSubmitted /\ Only("acked", TxnsOf(Current))
           \/ FinalizeStageError /\ Only("ambiguous", TxnsOf(Current))
           \/ FinalizeDrain /\ Only("ambiguous", TxnsOf(finBatch \cup QueuedForFinalize))
           \/ ApplyCompleteFailed /\ Only("failed_apply", {Head(applyQueue).txn})
  <1> DEFINE Quietly == \A x \in LateAnswers : FateStep(x, {})
  <1>0. /\ "acked" \in LateAnswers /\ "ambiguous" \in LateAnswers /\ "failed_apply" \in LateAnswers
        /\ {} \cap LateAnswers = {} /\ {"durable"} \cap LateAnswers = {}
        /\ {"published", "durable_done"} \cap LateAnswers = {}
        /\ {"acked", "published", "submitted"} \cap LateAnswers \subseteq {"acked"}
        /\ {"ambiguous"} \cap LateAnswers \subseteq {"ambiguous"}
        /\ {"failed_apply"} \cap LateAnswers \subseteq {"failed_apply"}
        /\ "rejected" \notin LateAnswers
    BY DEF LateAnswers
  <1>1. ASSUME NEW R, NEW Q, NEW X, Tells(R, Q, X), UNCHANGED outcome, X \cap LateAnswers = {}
        PROVE  Quietly
    BY <1>0, <1>1, FateTold
  <1>2. CASE UNCHANGED <<slot, outcome>>
    BY <1>2, FateQuiet
  <1>3. \A r \in finBatch : IsCurrent(r) => TxnsOf({r}) \subseteq TxnsOf(Current)
    BY DEF TxnsOf, Current
  <1>4. \A x, S, T : Only(x, S) /\ S \subseteq T => Only(x, T)
    BY DEF Only, FateStep
  <1> HIDE DEF Quietly
  <1>5. CASE DrainOwner
    <2>1. CASE DrainTop \/ DrainTakeBuffer \/ GrowBatch \/ DrainTurn \/ DrainRelease
      <3>1. UNCHANGED <<slot, outcome>>
        BY <2>1 DEF DrainTop, DrainTakeBuffer, GrowBatch, DrainTurn, DrainRelease, completionVars
      <3>2. QED
        BY <1>2, <3>1
    <2>2. CASE ProcessEntries
      <3>1. UNCHANGED outcome
        BY <2>2 DEF ProcessEntries
      <3>2. CASE UNCHANGED slot
        BY <1>2, <3>1, <3>2
      <3>3. CASE slot' = SetState(slot, {Head(local)}, "rejected")
        <4>1. Tells({Head(local)}, {}, {})
          BY <3>3, RejectTells
        <4>2. Quietly
          BY <1>0, <1>1, <3>1, <4>1
        <4>3. QED
          BY <4>2 DEF Quietly
      <3>4. QED
        BY <2>2, <3>2, <3>3, ProcessEntriesPlaces DEF Once
    <2>3. CASE SequenceAppend
      BY <2>3, AppendFates
    <2>4. CASE MarkBatchDurable
      <3>1. UNCHANGED outcome /\ Tells({}, accepted, {"durable"})
        BY <2>4, DurableTells DEF MarkBatchDurable
      <3>2. Quietly
        BY <1>0, <1>1, <3>1
      <3>3. QED
        BY <3>2 DEF Quietly
    <2>5. CASE ScheduleBatch
      <3>1. UNCHANGED outcome
        BY <2>5 DEF ScheduleBatch
      <3>2. CASE UNCHANGED slot
        BY <1>2, <3>1, <3>2
      <3>3. CASE finPoison /\ slot' = SetState(slot, {r.txn : r \in accepted}, "ambiguous")
        <4>1. Tells({}, accepted, {"ambiguous"})
          BY <3>3, SetStateTells
        <4>2. Only("ambiguous", TxnsOf(accepted))
          BY <1>0, <3>1, <4>1, OnlyTold
        <4>3. QED
          BY <2>5, <3>3, <4>2
      <3>4. QED
        BY <2>5, <3>2, <3>3 DEF ScheduleBatch
    <2>6. CASE PoisonAfterSchedule
      <3>1. UNCHANGED outcome /\ slot' = SetState(slot, PendingTxns \cup {}, "rejected")
        BY <2>6 DEF PoisonAfterSchedule, RejectPending
      <3>2. Tells(PendingTxns \cup {}, {}, {})
        BY <3>1, RejectTells
      <3>3. Quietly
        BY <1>0, <1>1, <3>1, <3>2
      <3>4. QED
        BY <3>3 DEF Quietly
    <2>7. QED
      BY <1>5, <2>1, <2>2, <2>3, <2>4, <2>5, <2>6 DEF DrainOwner
  <1>6. CASE FinalizeWorker
    <2>1. CASE FinalizePop \/ FinalizePhase1 \/ FinalizeRegister \/ FinalizeSubmit \/ FinalizeFail
      <3>1. UNCHANGED <<slot, outcome>>
        BY <2>1 DEF FinalizePop, FinalizePhase1, FinalizeRegister, FinalizeSubmit, FinalizeFail,
                    completionVars
      <3>2. QED
        BY <1>2, <3>1
    <2>2. CASE FinalizeSubmitted
      <3>1. PICK r \in finBatch : IsCurrent(r) /\ slot' = MarkPublishSubmitted(slot, r.ts)
        BY <2>2 DEF FinalizeSubmitted
      <3>2. r \in journal /\ UNCHANGED outcome
        BY <2>2, CurrentInJournal DEF FinalizeSubmitted
      <3>3. Tells({}, {r}, {"acked", "published", "submitted"})
        BY <3>1, <3>2, SubmittedTells
      <3>4. Only("acked", TxnsOf({r}))
        BY <1>0, <3>2, <3>3, OnlyTold
      <3>5. Only("acked", TxnsOf(Current))
        BY <1>3, <1>4, <3>1, <3>4
      <3>6. QED
        BY <2>2, <3>5
    <2>3. CASE FinalizeStageError
      <3>1. PICK r \in finBatch :
               /\ IsCurrent(r)
               /\ slot' = SetStateForCommitTs(RejectPending(slot, {}), r.ts, "ambiguous")
        BY <2>3 DEF FinalizeStageError
      <3>2. r \in journal /\ UNCHANGED outcome /\ "ambiguous" \in SlotStates
        BY <2>3, CurrentInJournal DEF FinalizeStageError, SlotStates, TerminalStates
      <3>3. Tells(PendingTxns, {r}, {"ambiguous"})
        BY <3>1, <3>2, FailureTells
      <3>4. Only("ambiguous", TxnsOf({r}))
        BY <1>0, <3>2, <3>3, OnlyTold
      <3>5. Only("ambiguous", TxnsOf(Current))
        BY <1>3, <1>4, <3>1, <3>4
      <3>6. QED
        BY <2>3, <3>5
    <2>4. CASE FinalizeDrain
      <3> DEFINE Q == finBatch \cup QueuedForFinalize
      <3>1. UNCHANGED outcome /\ slot' = SetState(slot, {r.txn : r \in Q}, "ambiguous")
        BY <2>4 DEF FinalizeDrain
      <3> HIDE DEF Q
      <3>2. Tells({}, Q, {"ambiguous"})
        BY <3>1, SetStateTells
      <3>3. Only("ambiguous", TxnsOf(Q))
        BY <1>0, <3>1, <3>2, OnlyTold
      <3>4. QED
        BY <2>4, <3>3 DEF Q
    <2>5. QED
      BY <1>6, <2>1, <2>2, <2>3, <2>4 DEF FinalizeWorker
  <1>7. CASE ApplyWorker
    <2> DEFINE r == Head(applyQueue)
    <2>1. CASE ApplyPublish \/ ApplyFail
      <3>1. UNCHANGED <<slot, outcome>>
        BY <2>1 DEF ApplyPublish, ApplyFail, completionVars
      <3>2. QED
        BY <1>2, <3>1
    <2>2. CASE ApplyComplete
      <3>1. r \in journal /\ slot' = MarkPublished(slot, r.ts) /\ UNCHANGED outcome
        BY <2>2, HeadInJournal DEF ApplyComplete
      <3> HIDE DEF r
      <3>2. Tells({}, {r}, {"published", "durable_done"})
        BY <3>1, PublishedTells
      <3>3. Quietly
        BY <1>0, <1>1, <3>1, <3>2
      <3>4. QED
        BY <3>3 DEF Quietly
    <2>3. CASE ApplyCompleteFailed
      <3>1. /\ r \in journal /\ UNCHANGED outcome /\ "failed_apply" \in SlotStates
            /\ slot' = SetStateForCommitTs(RejectPending(slot, {}), r.ts, "failed_apply")
        BY <2>3, HeadInJournal DEF ApplyCompleteFailed, SlotStates, TerminalStates
      <3> HIDE DEF r
      <3>2. Tells(PendingTxns, {r}, {"failed_apply"})
        BY <3>1, FailureTells
      <3>3. Only("failed_apply", TxnsOf({r}))
        BY <1>0, <3>1, <3>2, OnlyTold
      <3>4. TxnsOf({r}) = {r.txn}
        BY DEF TxnsOf
      <3>5. QED
        BY <2>3, <3>3, <3>4 DEF r
    <2>4. QED
      BY <1>7, <2>1, <2>2, <2>3 DEF ApplyWorker
  <1>8. CASE (\E w \in Wakers : TakeWakeTask(w)) \/ (\E th \in Threads : DrainInline(th))
             \/ UNCHANGED vars
    <2>1. UNCHANGED <<slot, outcome>>
      BY <1>8 DEF TakeWakeTask, DrainInline, vars, completionVars
    <2>2. QED
      BY <1>2, <2>1
  <1>9. CASE \E t \in Txns : Submitter(t)
    BY <1>9, FateSubmitter DEF Submitter
  <1>10. QED
    BY <1>5, <1>6, <1>7, <1>8, <1>9 DEF Next

----------------------------------------------------------------------------
(* Ambiguous and acknowledged commits.                                      *)
(* No step takes back a poisoning. *)
LEMMA PoisonStays ==
    ASSUME [Next]_vars
    PROVE  (finPoison => finPoison') /\ (poisoned => poisoned')
  <1>1. CASE UNCHANGED <<finPoison, poisoned>>
    BY <1>1
  <1>2. CASE \E t \in Txns : Submitter(t)
    BY <1>1, <1>2 DEF Submitter, SubmitCommit, EnqueueJob, SignalDrain, WaitCompletion, finVars
  <1>3. CASE (\E w \in Wakers : TakeWakeTask(w)) \/ (\E th \in Threads : DrainInline(th))
             \/ UNCHANGED vars
    BY <1>1, <1>3 DEF TakeWakeTask, DrainInline, vars, finVars
  <1>4. CASE DrainOwner
    <2>1. CASE SequenceAppend
      <3>1. UNCHANGED finPoison /\ \E cut, k, f : AppendBatch(cut, k, f)
        BY <2>1 DEF SequenceAppend, finVars
      <3>2. PICK cut, k, f : AppendBatch(cut, k, f)
        BY <3>1
      <3>3. CASE UNCHANGED poisoned
        BY <3>1, <3>3
      <3>4. CASE poisoned' = TRUE
        BY <1>1, <3>1, <3>4, SMT
      <3>5. QED
        BY <3>2, <3>3, <3>4 DEF AppendBatch, NothingAccepted, BatchDurable,
          BatchAppendFailed, BatchAmbiguous, PoisonRuntime
    <2>2. CASE PoisonAfterSchedule
      <3>1. UNCHANGED finPoison /\ poisoned' = TRUE
        BY <2>2 DEF PoisonAfterSchedule, PoisonRuntime, finVars
      <3>2. QED
        BY <3>1, SMT
    <2>3. QED
      BY <1>1, <1>4, <2>1, <2>2 DEF DrainOwner, DrainTop, DrainTakeBuffer, ProcessEntries,
        GrowBatch, MarkBatchDurable, ScheduleBatch, DrainTurn, DrainRelease, finVars
  <1>5. CASE FinalizeWorker
    <2>1. /\ finPoison' = finPoison \/ finPoison' = TRUE
          /\ poisoned' = poisoned \/ poisoned' = TRUE
      BY <1>5 DEF FinalizeWorker, FinalizePop, FinalizePhase1, FinalizeRegister, FinalizeSubmit,
                FinalizeSubmitted, FinalizeFail, FinalizeStageError, FinalizeDrain, PoisonRuntime
    <2>2. QED
      BY <2>1, SMT
  <1>6. CASE ApplyWorker
    <2>1. UNCHANGED finPoison /\ (poisoned' = poisoned \/ poisoned' = TRUE)
      BY <1>6 DEF ApplyWorker, ApplyPublish, ApplyFail, ApplyComplete, ApplyCompleteFailed,
                  PoisonRuntime, finVars
    <2>2. QED
      BY <2>1, SMT
  <1>7. QED
    BY <1>2, <1>3, <1>4, <1>5, <1>6 DEF Next

(* The finalize worker's own variables. *)
LEMMA FinalizeFrame ==
    ASSUME [Next]_vars, ~FinalizeWorker
    PROVE  UNCHANGED <<finPc, finBatch, finPoison, registered>>
  <1>2. CASE \E t \in Txns : Submitter(t)
    BY <1>2 DEF Submitter, SubmitCommit, EnqueueJob, SignalDrain, WaitCompletion, finVars
  <1>3. CASE (\E w \in Wakers : TakeWakeTask(w)) \/ (\E th \in Threads : DrainInline(th))
             \/ UNCHANGED vars
    BY <1>3 DEF TakeWakeTask, DrainInline, vars, finVars
  <1>4. CASE DrainOwner
    BY <1>4 DEF DrainOwner, DrainTop, DrainTakeBuffer, ProcessEntries, GrowBatch,
                SequenceAppend, MarkBatchDurable, ScheduleBatch, PoisonAfterSchedule,
                DrainTurn, DrainRelease, finVars
  <1>6. CASE ApplyWorker
    BY <1>6 DEF ApplyWorker, ApplyPublish, ApplyFail, ApplyComplete, ApplyCompleteFailed,
                finVars
  <1>7. QED
    BY <1>2, <1>3, <1>4, <1>6 DEF Next

----------------------------------------------------------------------------
(* The finalize worker tells nobody before the stage is poisoned. *)
TellsPoisoned == finPc \in {"fail_hook", "fail_drain"} => finPoison

LEMMA TellsPoisonedStep ==
    ASSUME TellsPoisoned, [Next]_vars
    PROVE  TellsPoisoned'
  <1>1. CASE FinalizeWorker
    BY <1>1 DEF TellsPoisoned, FinalizeWorker, FinalizePop, FinalizePhase1, FinalizeRegister,
                FinalizeSubmit, FinalizeSubmitted, FinalizeFail, FinalizeStageError, FinalizeDrain
  <1>2. CASE ~FinalizeWorker
    BY <1>2, FinalizeFrame DEF TellsPoisoned
  <1>3. QED
    BY <1>1, <1>2

LEMMA AmbiguousStep ==
    ASSUME TypeOK, TypeOK', PipelineInv, Once, TellsPoisoned, AmbiguousSeesPoison, [Next]_vars
    PROVE  AmbiguousSeesPoison'
  <1>1. CASE FateStep("ambiguous", {})
    <2>1. \A t \in Txns : Fate(t, "ambiguous")' => Fate(t, "ambiguous")
      BY <1>1 DEF FateStep
    <2>2. QED
      BY <2>1, PoisonStays DEF AmbiguousSeesPoison, Fate
  <1>2. CASE (~HasWal /\ poisoned') \/ finPoison'
    BY <1>2 DEF AmbiguousSeesPoison
  <1>3. CASE ScheduleBatch /\ finPoison
    BY <1>2, <1>3, PoisonStays
  <1>4. CASE FinalizeStageError \/ FinalizeDrain
    <2>1. finPoison'
      BY <1>4, PoisonStays DEF TellsPoisoned, FinalizeStageError, FinalizeDrain
    <2>2. QED
      BY <1>2, <2>1
  <1>5. "ambiguous" \in LateAnswers /\ "acked" # "ambiguous" /\ "failed_apply" # "ambiguous"
    BY DEF LateAnswers
  <1>6. QED
    BY <1>1, <1>2, <1>3, <1>4, <1>5, Fates DEF Only

----------------------------------------------------------------------------
(* What is on its way to the readers stays so. *)
OnItsWay(r) ==
    \/ r.txn \in visible
    \/ r \in Elems(applyQueue)
    \/ blockedTs \in 1 .. r.ts

LEMMA BlockedLower ==
    ASSUME blockedTs \in Nat, NEW ts \in Nat \ {0}, MarkPublishFailed(ts)
    PROVE  blockedTs' \in 1 .. ts /\ \A n \in Nat : blockedTs \in 1 .. n => blockedTs' \in 1 .. n
  BY SMT DEF MarkPublishFailed

LEMMA JournalTs ==
    ASSUME PipelineInv, TypeOK, NEW r \in journal
    PROVE  r.ts \in Nat \ {0} /\ r.txn \in Txns /\ r.ts < nextTs
  BY SMT DEF PipelineInv, JournalDense, TypeOK, SequencerTypeOK, Record

LEMMA OnItsWayStays ==
    ASSUME TypeOK, TypeOK', PipelineInv, [Next]_vars, NEW r \in journal, OnItsWay(r)
    PROVE  OnItsWay(r)'
  <1>0. /\ r.ts \in Nat /\ blockedTs \in Nat /\ applyQueue \in Seq(Record)
    BY JournalTs DEF TypeOK, FrontierTypeOK, ApplyTypeOK
  <1>1. CASE UNCHANGED <<visible, applyQueue, blockedTs>>
    BY <1>1 DEF OnItsWay
  <1>2. CASE \E t \in Txns : Submitter(t)
    BY <1>1, <1>2 DEF Submitter, SubmitCommit, EnqueueJob, SignalDrain, WaitCompletion,
                      applyVars, frontierVars
  <1>3. CASE (\E w \in Wakers : TakeWakeTask(w)) \/ (\E th \in Threads : DrainInline(th))
             \/ UNCHANGED vars
    BY <1>1, <1>3 DEF TakeWakeTask, DrainInline, vars, applyVars, frontierVars
  <1>4. CASE DrainOwner
    BY <1>1, <1>4 DEF DrainOwner, DrainTop, DrainTakeBuffer, ProcessEntries, GrowBatch,
                SequenceAppend, MarkBatchDurable, ScheduleBatch, PoisonAfterSchedule,
                DrainTurn, DrainRelease, applyVars, frontierVars
  <1>5. CASE FinalizeWorker
    <2>1. CASE FinalizeSubmit
      <3>1. UNCHANGED <<visible, blockedTs>>
        BY <2>1 DEF FinalizeSubmit, frontierVars
      <3>2. CASE UNCHANGED applyQueue
        BY <1>1, <3>1, <3>2
      <3>3. CASE \E q \in finBatch : applyQueue' = Append(applyQueue, q)
        <4>1. PICK q \in finBatch : applyQueue' = Append(applyQueue, q)
          BY <3>3
        <4>2. q \in Record /\ applyQueue \in Seq(Record)
          BY DEF TypeOK, FinalizeTypeOK, ApplyTypeOK
        <4>3. Elems(Append(applyQueue, q)) = Elems(applyQueue) \cup {q}
          BY <4>2, ElemsPut, SMT
        <4>4. QED
          BY <3>1, <4>1, <4>3 DEF OnItsWay
      <3>4. QED
        BY <2>1, <3>2, <3>3 DEF FinalizeSubmit
    <2>2. CASE FinalizeStageError
      <3>1. PICK q \in finBatch : MarkPublishFailed(q.ts)
        BY <2>2 DEF FinalizeStageError
      <3>2. q.ts \in Nat \ {0}
        BY CurrentInJournal, JournalTs
      <3>3. blockedTs \in 1 .. r.ts => blockedTs' \in 1 .. r.ts
        BY <1>0, <3>1, <3>2, BlockedLower
      <3>4. UNCHANGED <<visible, applyQueue>>
        BY <2>2 DEF FinalizeStageError, applyVars
      <3>5. QED
        BY <3>3, <3>4 DEF OnItsWay
    <2>3. QED
      BY <1>1, <1>5, <2>1, <2>2 DEF FinalizeWorker, FinalizePop, FinalizePhase1, FinalizeRegister,
                FinalizeSubmitted, FinalizeFail, FinalizeDrain, applyVars, frontierVars
  <1>6. CASE ApplyWorker
    <2> DEFINE h == Head(applyQueue)
    <2>1. CASE ApplyPublish \/ ApplyFail
      <3>1. UNCHANGED <<applyQueue, blockedTs>> /\ visible \subseteq visible'
        BY <2>1 DEF ApplyPublish, ApplyFail, frontierVars
      <3>2. QED
        BY <3>1 DEF OnItsWay
    <2>2. CASE ApplyComplete \/ ApplyCompleteFailed
      <3>1. applyPc # "idle" /\ applyQueue' = Tail(applyQueue) /\ UNCHANGED visible
        BY <2>2 DEF ApplyComplete, ApplyCompleteFailed
      <3>2. applyQueue # <<>> /\ h \in journal
        BY <3>1, HeadInJournal
      <3>3. Elems(applyQueue) = {h} \cup Elems(applyQueue')
        BY <1>0, <3>1, <3>2, TakeOnce
      <3>4. h.ts \in Nat \ {0}
        BY <3>2, JournalTs
      <3> HIDE DEF h
      <3>5. CASE ApplyComplete
        <4>1. h.txn \in visible /\ UNCHANGED blockedTs
          BY <3>5 DEF ApplyComplete, frontierVars, PipelineInv, SlotsTellTheTruth, h
        <4>2. QED
          BY <3>1, <3>3, <4>1 DEF OnItsWay
      <3>6. CASE ApplyCompleteFailed
        <4>1. MarkPublishFailed(h.ts)
          BY <3>6 DEF ApplyCompleteFailed, h
        <4>2. /\ blockedTs \in 1 .. r.ts => blockedTs' \in 1 .. r.ts
              /\ blockedTs' \in 1 .. h.ts
          BY <1>0, <3>4, <4>1, BlockedLower
        <4>3. QED
          BY <3>1, <3>3, <4>2 DEF OnItsWay
      <3>7. QED
        BY <2>2, <3>5, <3>6
    <2>3. QED
      BY <1>6, <2>1, <2>2 DEF ApplyWorker
  <1>7. QED
    BY <1>2, <1>3, <1>4, <1>5, <1>6 DEF Next

(* An acknowledged commit is on its way; so is the current one, before      *)
(* on_submission acknowledges it.                                           *)
AckInv ==
    /\ \A r \in journal : Fate(r.txn, "acked") => OnItsWay(r)
    /\ finPc = "hook" => \A r \in Current : OnItsWay(r)

LEMMA CurrentUnique ==
    ASSUME TypeOK, PipelineInv, NEW r \in Current, NEW q \in Current
    PROVE  r = q
  <1>1. r \in journal /\ q \in journal
    BY CurrentInJournal DEF Current
  <1>2. r.ts \in Nat /\ q.ts \in Nat
    BY <1>1, JournalTs
  <1>3. r.ts <= q.ts /\ q.ts <= r.ts
    BY DEF Current, IsCurrent
  <1>4. r.ts = q.ts
    BY <1>2, <1>3, SMT
  <1>5. QED
    BY <1>1, <1>4 DEF PipelineInv, JournalDense

(* A record is new only when its submitter still waits. *)
LEMMA JournalStep ==
    ASSUME TypeOK, TypeOK', PipelineInv, Once, [Next]_vars
    PROVE  /\ journal \subseteq journal'
           /\ \A r \in journal' \ journal :
                 /\ SequenceAppend /\ r.txn \in Elems(batch) /\ r.ts \in nextTs .. nextTs' - 1
                 /\ slot'[r.txn].st \in {"queued", "ambiguous"}
                 /\ outcome'[r.txn] = "pending"
  <1>1. CASE SequenceAppend
    <2>1. PICK recs, R : AppendEffect(recs, R)
      BY <1>1, SequenceAppendEffect DEF Once
    <2>2. journal \subseteq journal'
      BY <2>1 DEF AppendEffect, Withdrawn, Logged
    <2> SUFFICES ASSUME NEW r \in journal' \ journal
                 PROVE  /\ r.txn \in Elems(batch) /\ r.ts \in nextTs .. nextTs' - 1
                        /\ slot'[r.txn].st \in {"queued", "ambiguous"}
                        /\ outcome'[r.txn] = "pending"
      BY <1>1, <2>2
    <2>3. Logged(recs)
      BY <2>1 DEF AppendEffect, Withdrawn
    <2>4. r \in recs
      BY <2>3 DEF Logged
    <2>5. /\ r.txn \in Elems(batch) /\ r.txn \notin R /\ r.ts \in nextTs .. nextTs' - 1
      BY <2>1, <2>3, <2>4 DEF AppendEffect, Logged
    <2>6. r.txn \in Waiting /\ r.txn \in Txns
      BY <2>5, WaitingTxns DEF Waiting
    <2>7. slot[r.txn].st = "queued" /\ outcome[r.txn] = "pending"
      BY <2>6 DEF Once, WaitingInv
    <2>8. slot'[r.txn].st \in {"queued", "failed_append", "ambiguous"}
      BY <2>1, <2>5, <2>6, <2>7 DEF AppendEffect
    <2>9. slot'[r.txn].st # "failed_append"
      BY <2>3, <2>6, <2>7 DEF Logged
    <2>10. QED
      BY <1>1, <2>5, <2>7, <2>8, <2>9 DEF SequenceAppend
  <1>2. CASE ~SequenceAppend
    <2>1. UNCHANGED journal
      BY <1>2 DEF Next, Submitter, SubmitCommit, EnqueueJob, SignalDrain, WaitCompletion,
        TakeWakeTask, DrainInline, DrainOwner, DrainTop, DrainTakeBuffer, ProcessEntries,
        GrowBatch, MarkBatchDurable, ScheduleBatch, PoisonAfterSchedule, DrainTurn,
        DrainRelease, FinalizeWorker, FinalizePop, FinalizePhase1, FinalizeRegister,
        FinalizeSubmit, FinalizeSubmitted, FinalizeFail, FinalizeStageError, FinalizeDrain,
        ApplyWorker, ApplyPublish, ApplyFail, ApplyComplete, ApplyCompleteFailed, vars, seqVars
    <2>2. QED
      BY <2>1
  <1>3. QED
    BY <1>1, <1>2

LEMMA AckStep ==
    ASSUME TypeOK, TypeOK', PipelineInv, PipelineInv', Once, AckInv, [Next]_vars
    PROVE  AckInv'
  <1>1. \A r \in journal : OnItsWay(r) => OnItsWay(r)'
    BY OnItsWayStays
  <1>2. ASSUME NEW r \in journal', Fate(r.txn, "acked")'
        PROVE  OnItsWay(r)'
    <2>1. r \in journal
      BY <1>2, JournalStep DEF Fate
    <2>2. r.txn \in Txns
      BY <2>1, JournalTs
    <2>3. CASE Fate(r.txn, "acked")
      BY <1>1, <2>1, <2>3 DEF AckInv
    <2>4. CASE FinalizeSubmitted /\ r.txn \in TxnsOf(Current)
      <3>1. PICK q \in Current : q.txn = r.txn
        BY <2>4 DEF TxnsOf
      <3>2. q \in journal
        BY <3>1, CurrentInJournal DEF Current
      <3>3. q = r
        BY <2>1, <3>1, <3>2 DEF Once, JournalOnce
      <3>4. OnItsWay(r)
        BY <2>4, <3>1, <3>3 DEF AckInv, FinalizeSubmitted
      <3>5. QED
        BY <1>1, <2>1, <3>4
    <2>5. "acked" \in LateAnswers /\ "acked" # "ambiguous" /\ "failed_apply" # "acked"
      BY DEF LateAnswers
    <2>6. FateStep("acked", {}) \/ (FinalizeSubmitted /\ FateStep("acked", TxnsOf(Current)))
      BY <2>5, Fates DEF Only
    <2>7. QED
      BY <1>2, <2>2, <2>3, <2>4, <2>6 DEF FateStep
  <1>3. ASSUME finPc' = "hook", NEW r \in Current' PROVE OnItsWay(r)'
    <2>1. CASE FinalizeSubmit
      <3>1. UNCHANGED finBatch
        BY <2>1 DEF FinalizeSubmit
      <3>2. Current' = Current
        BY <3>1 DEF Current, IsCurrent
      <3>3. PICK q \in finBatch : IsCurrent(q) /\ applyQueue' = Append(applyQueue, q)
        BY <1>3, <2>1 DEF FinalizeSubmit
      <3>4. q \in Record /\ applyQueue \in Seq(Record)
        BY DEF TypeOK, FinalizeTypeOK, ApplyTypeOK
      <3>5. q \in Elems(Append(applyQueue, q))
        BY <3>4, ElemsPut, SMT
      <3>6. r = q
        BY <1>3, <3>2, <3>3, CurrentUnique DEF Current
      <3>7. QED
        BY <3>3, <3>5, <3>6 DEF OnItsWay
    <2>2. CASE ~FinalizeSubmit
      <3>1. finPc = "hook" /\ UNCHANGED finBatch
        <4>1. CASE FinalizeWorker
          BY <1>3, <2>2, <4>1 DEF FinalizeWorker, FinalizePop, FinalizePhase1, FinalizeRegister,
            FinalizeSubmitted, FinalizeFail, FinalizeStageError, FinalizeDrain
        <4>2. CASE ~FinalizeWorker
          BY <1>3, <4>2, FinalizeFrame
        <4>3. QED
          BY <4>1, <4>2
      <3>2. Current' = Current
        BY <3>1 DEF Current, IsCurrent
      <3>3. r \in Current /\ r \in journal
        BY <1>3, <3>2, CurrentInJournal DEF Current
      <3>4. QED
        BY <1>1, <3>1, <3>3 DEF AckInv
    <2>3. QED
      BY <2>1, <2>2
  <1>4. QED
    BY <1>2, <1>3 DEF AckInv

----------------------------------------------------------------------------
AnswerInv ==
    /\ TypeOK /\ PipelineInv /\ Once
    /\ TellsPoisoned /\ AmbiguousSeesPoison /\ AckInv

LEMMA AnswerInit == Init => AnswerInv
  <1> SUFFICES ASSUME Init PROVE AnswerInv
    OBVIOUS
  <1>1. TypeOK /\ PipelineInv /\ Once
    BY TypeInit, PipelineInit, OnceInit
  <1>2. \A t \in Txns : slot[t].st = "none" /\ outcome[t] = "pending"
    BY DEF Init, CompletionInit, NoSlot
  <1>3. journal = {} /\ finPc = "pop"
    BY DEF Init
  <1>4. QED
    BY <1>1, <1>2, <1>3 DEF AnswerInv, TellsPoisoned, AmbiguousSeesPoison, AckInv

LEMMA AnswerStep ==
    ASSUME AnswerInv, [Next]_vars
    PROVE  AnswerInv'
  <1>1. TypeOK /\ PipelineInv /\ Once /\ TellsPoisoned /\ AmbiguousSeesPoison /\ AckInv
    BY DEF AnswerInv
  <1>2. TypeOK'
    BY <1>1, TypeStep
  <1>3. PipelineInv'
    BY <1>1, <1>2, PipelineStep
  <1>4. QED
    BY <1>1, <1>2, <1>3, OnceStep, TellsPoisonedStep, AmbiguousStep, AckStep DEF AnswerInv

LEMMA AnswerCorrect == Spec => []AnswerInv
  BY AnswerInit, AnswerStep, PTL DEF Spec

(* For any number of submitters and whatever fails: nobody is told that a   *)
(* commit is ambiguous before the finalize stage is poisoned (or, for the   *)
(* append protocol violation of a journal without WAL, the runtime), so no  *)
(* later commit gets past it: run_finalize_worker and                       *)
(* handle_sequence_or_append_error poison first and wake the waiters after. *)
THEOREM AmbiguousCorrect == Spec => []AmbiguousSeesPoison
  <1>1. AnswerInv => AmbiguousSeesPoison
    BY DEF AnswerInv
  <1>2. QED
    BY <1>1, AnswerCorrect, PTL

(* For any number of submitters and whatever fails: a DurableOnlyAsync      *)
(* commit that was acknowledged is visible, or in the apply queue, or at or *)
(* above a reported publish failure; the completion hook runs only after    *)
(* apply_runtime.submit.                                                    *)
THEOREM AckedCorrect == Spec => []AckedIsOnItsWay
  <1>1. AnswerInv => AckedIsOnItsWay
    BY DEF AnswerInv, AckInv, AckedIsOnItsWay, OnItsWay, Fate, Elems
  <1>2. QED
    BY <1>1, AnswerCorrect, PTL

=============================================================================

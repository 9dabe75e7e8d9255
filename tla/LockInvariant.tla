--------------------------- MODULE LockInvariant ----------------------------
(* The inductive invariant behind the exclusion proof of LockManager, and   *)
(* the facts about it that do not depend on the step taken: conflicts of    *)
(* modes and resources, the accounts of holders and entries, types, and     *)
(* what a step of one transaction leaves alone.                             *)
EXTENDS LockManager, FiniteSetTheorems, TLAPS

\* A leaf that names no prover goes to Zenon; SMT does the arithmetic, and the
\* records and sets of records.
USE ZenonT(100)

\* The entries of t that are not being released, the coarse one in progress
\* included.
Kept(t) == grants[t] \cup ({cur[t]} \ {NoGrant})

At(S, r) == {g \in S : g.res = r}

\* The accounts of transaction t for resource r: h is its holder, K its entries
\* kept, D its entries being released.  The holder counts the entries, one per
\* call; it is as strong as every entry kept, and stays so when the others give
\* back the modes they found.
BookAt(t, r, h, K, D) ==
    /\ IsFiniteSet(K \cup D)
    /\ \A g \in K \cup D : /\ g \in Grant /\ g.res = r
                           /\ g.mode \in ModesOf(t, r)
                           /\ g.prev \in ModesOf(t, r) \cup {NoMode}
    /\ \A g, k \in K \cup D : g.call = k.call => g = k
    /\ h \in [mode : ModesOf(t, r) \cup {NoMode}, refs : Nat]
    /\ h.refs = Cardinality(K \cup D)
    /\ h.refs = 0 <=> h.mode = NoMode
    /\ \A k \in K : Strength(h.mode) >= Strength(k.mode)
    /\ \A g \in K \cup D, k \in K : k.call < g.call =>
          g.prev # NoMode /\ Strength(g.prev) >= Strength(k.mode)
    /\ \A g \in D, k \in K : k.call < g.call

Books(t) ==
    \A r \in Resources : BookAt(t, r, holder[t][r], At(Kept(t), r), At(dropping[t], r))

\* Inside lock_many, before try_escalate and in it.
Requesting(t) ==
    \/ pc[t] \in {"request", "fineCheck", "fineLock", "fineRecheck", "fineGrant"}
    \/ pc[t] \in {"announce", "scan"} /\ after[t] = "request"

Escalating(t) ==
    \/ pc[t] = "escalate"
    \/ pc[t] \in {"announce", "scan", "drop", "retire"} /\ after[t] = "escalate"

\* Where the thread of t is, against what it holds and has still to do.
Control(t) ==
    /\ pc[t] \in {"fineCheck", "fineLock", "fineRecheck", "fineGrant"} =>
          batch[t] \in Shards /\ \A q \in todo[t] : ~IsCoarse(q.res)
    /\ pc[t] \in {"announce", "scan"} <=> cur[t] # NoGrant
    /\ cur[t] # NoGrant =>
          /\ IsCoarse(cur[t].res) /\ cur[t].call = calls[t] /\ cur[t] \notin grants[t]
          /\ after[t] \in {"request", "escalate"}
          /\ after[t] = "escalate" => cur[t].res.kind = "Tablet" /\ cur[t].mode = "X"
    /\ dropping[t] # {} => pc[t] \in {"drop", "retire"}
    /\ pc[t] \in {"drop", "retire"} => after[t] # "request"
    /\ \A g \in grants[t] \cup dropping[t] : g.call <= calls[t]
    /\ Requesting(t) \/ Escalating(t) => calls[t] # 0

\* What the call of t has still to be granted.
ToDo(t) ==
    /\ \A q \in todo[t] : /\ q.mode \in ModesOf(t, q.res)
                          /\ \A g \in Kept(t) \cup dropping[t] : g.call = calls[t] => g.res # q.res
    /\ \A q, p \in todo[t] : q.res = p.res => q = p
    /\ Escalating(t) => \A q \in todo[t] : q.res.kind = "Tablet" /\ q.mode = "X"

\* The entry or request g stands for the request a: same resource, at least as
\* strong, or the tablet it was escalated to.
StandsFor(g, a) ==
    \/ g.res = a.res /\ Strength(g.mode) >= Strength(a.mode)
    \/ /\ g.res.kind = "Tablet" /\ g.mode = "X"
       /\ a.res.kind \in {"PrimaryKey", "RowId"} /\ SameTablet(g.res, a.res)

\* Everything t was told it holds is held; what its call was asked for is held
\* or still to be granted.
AskedHeld(t) ==
    /\ \A a \in asked[t] :
          /\ a.mode \in ModesOf(t, a.res)
          /\ a.call <= calls[t]
          /\ Requesting(t) \/ Escalating(t) => a.call < calls[t]
          /\ \E g \in grants[t] : g.call = a.call /\ StandsFor(g, a)
    /\ \A q \in asking[t] : q.mode \in ModesOf(t, q.res)
    /\ Escalating(t) => \A q \in asking[t] :
          \E g \in grants[t] : g.call = calls[t] /\ StandsFor(g, q)
    /\ Requesting(t) => \A q \in asking[t] :
          \/ \E p \in todo[t] : p.res = q.res /\ StandsFor(p, q)
          \/ \E g \in Kept(t) : g.call = calls[t] /\ StandsFor(g, q)

\* A fine batch past its second test of the coarse table owns its shard.
ShardOwned ==
    \A t \in Txns : pc[t] \in {"fineRecheck", "fineGrant"} => shardLock[batch[t]] = t

CountExact == activeCount = Cardinality(Counted) + Cardinality(Retiring)

Clash(g, h) == GrantsConflict(g.res, g.mode, h.res, h.mode)

Fine(t) == {g \in grants[t] : ~IsCoarse(g.res)}

Coarse(t) == {g \in Kept(t) : IsCoarse(g.res)}

\* The coarse entries of t that a fine batch of shard s has to respect: all but
\* the one in progress, and that one too once its scan has visited s.
Settled(t, s) ==
    {g \in Coarse(t) : g = cur[t] => pc[t] = "scan" /\ s \notin left[t]}

\* No conflict between the entries of t and u, save one that the scan of t has
\* already met; and none between the entries of t and a batch of u that is past
\* its tests of the coarse table.
Apart(t, u) ==
    /\ \A g \in Coarse(t), h \in Coarse(u) : ~Clash(g, h)
    /\ \A g \in Fine(t), h \in Fine(u) : ~Clash(g, h)
    /\ \A h \in Fine(u) : \A g \in Settled(t, ShardIndex[h.res]) :
          (g = cur[t] /\ hit[t]) \/ ~Clash(g, h)
    /\ pc[u] = "fineGrant" =>
          \A q \in Batch(u), g \in Settled(t, batch[u]) : ~Clash(g, q)

NoClash == \A t, u \in Txns : t # u => Apart(t, u)

ThreadInv(t) == Books(t) /\ Control(t) /\ ToDo(t) /\ AskedHeld(t)

IInv ==
    /\ TypeOK
    /\ \A t \in Txns : ThreadInv(t)
    /\ ShardOwned
    /\ CountExact
    /\ ComparableModes => NoClash
-----------------------------------------------------------------------------
(* Modes and resources *)

\* LockMode::strength numbers the modes 1 to 4.
LEMMA StrengthRange ==
    \A m \in Modes : Strength(m) \in 1 .. 4
  BY SMTT(20) DEF Modes, Strength

\* compatible_with does not depend on which mode asks.
LEMMA CompatibleSymmetric ==
    \A m, n \in Modes : CompatibleWith(m, n) <=> CompatibleWith(n, m)
  BY DEF Modes, CompatibleWith

\* conflicts_with does not depend on which resource asks.
LEMMA ConflictSymmetric ==
    ASSUME NEW r, NEW s, ConflictsWith(r, s)
    PROVE  ConflictsWith(s, r)
<1>1. RangesOverlap(r.lo, r.hi, s.lo, s.hi) => RangesOverlap(s.lo, s.hi, r.lo, r.hi)
  BY DEF RangesOverlap
<1>2. /\ SameTable(r, s) => SameTable(s, r)
      /\ SameTablet(r, s) => SameTablet(s, r)
  BY DEF SameTable, SameTablet
<1> QED
  BY <1>1, <1>2 DEF ConflictsWith

\* Nor does a conflict of two locks.
LEMMA GrantsSymmetric ==
    ASSUME NEW r, NEW s, NEW m \in Modes, NEW n \in Modes, GrantsConflict(r, m, s, n)
    PROVE  GrantsConflict(s, n, r, m)
  BY ConflictSymmetric DEF GrantsConflict

\* A mode that covers another conflicts with whatever that one conflicts with.
LEMMA CoverConflict ==
    ASSUME NEW r, NEW s, NEW m \in Modes, NEW n \in Modes, NEW k \in Modes,
           Covers(m, n), GrantsConflict(r, n, s, k)
    PROVE  GrantsConflict(r, m, s, k)
<1>1. ~CompatibleWith(n, k)
  BY CompatibleSymmetric DEF GrantsConflict
<1>2. ~CompatibleWith(m, k)
  BY <1>1 DEF Covers
<1>3. ProperAncestorIntent(r, m, s) => ProperAncestorIntent(r, n, s)
  BY DEF Covers, ProperAncestorIntent
<1> QED
  BY <1>2, <1>3 DEF GrantsConflict

\* Two exact resources conflict only if they are the same.
LEMMA FineExact ==
    ASSUME NEW r \in FineResources, NEW s \in FineResources, ConflictsWith(r, s)
    PROVE  r = s
<1>1. /\ r.kind \in {"PrimaryKey", "RowId", "CatalogObject"}
      /\ s.kind \in {"PrimaryKey", "RowId", "CatalogObject"}
  BY LockAssumption DEF FineResources, IsCoarse, Kinds
<1>2. r = s \/ /\ r.kind = "CatalogObject" /\ s.kind = "CatalogObject"
               /\ r.hi = s.hi /\ r.lo = s.lo
  BY <1>1 DEF ConflictsWith
<1>3. /\ r \in [kind : Kinds, table : Nat, tablet : Nat, lo : Nat, hi : Nat]
      /\ s \in [kind : Kinds, table : Nat, tablet : Nat, lo : Nat, hi : Nat]
  BY LockAssumption DEF FineResources
<1>4. CASE r.kind = "CatalogObject" /\ s.kind = "CatalogObject" /\ r.hi = s.hi /\ r.lo = s.lo
  BY <1>3, <1>4, LockAssumption, SMTT(20) DEF FineResources
<1> QED
  BY <1>2, <1>4

\* A tablet locked in mode X conflicts with whatever a key or row of it
\* conflicts with, predicates apart.
LEMMA EscalationCovers ==
    ASSUME NEW g, NEW r, NEW m \in Modes, NEW s, NEW k \in Modes,
           g.kind = "Tablet", r.kind \in {"PrimaryKey", "RowId"}, SameTablet(g, r),
           s.kind # "Predicate", GrantsConflict(r, m, s, k)
    PROVE  GrantsConflict(g, "X", s, k)
<1>1. ~CompatibleWith("X", k)
  BY DEF CompatibleWith
<1>2. ~ProperAncestorIntent(g, "X", s)
  BY DEF ProperAncestorIntent, IntentModes
<1>3. ConflictsWith(g, s)
  BY DEF GrantsConflict, ConflictsWith, SameTable, SameTablet, HasTable, HasTablet
<1>4. g # s => ~ProperAncestorIntent(s, k, g)
  BY DEF GrantsConflict, ConflictsWith, ProperAncestorIntent, SameTable, SameTablet, HasTable, HasTablet
<1> QED
  BY <1>1, <1>2, <1>3, <1>4 DEF GrantsConflict

\* An entry conflicts with whatever the request it stands for conflicts with.
LEMMA StandInConflict ==
    ASSUME ComparableModes, NEW t \in Txns, NEW g, NEW a, NEW s \in Resources, NEW k \in Modes,
           g.res \in Resources, a.res \in Resources,
           g.mode \in ModesOf(t, g.res), a.mode \in ModesOf(t, a.res),
           StandsFor(g, a), GrantsConflict(a.res, a.mode, s, k)
    PROVE  GrantsConflict(g.res, g.mode, s, k)
<1>1. g.mode \in Modes /\ a.mode \in Modes
  BY DEF ModesOf, Modes
<1>2. CASE g.res = a.res /\ Strength(g.mode) >= Strength(a.mode)
  <2>1. Covers(g.mode, a.mode)
    BY <1>2 DEF ComparableModes
  <2> QED
    BY <1>1, <1>2, <2>1, CoverConflict
<1>3. CASE /\ g.res.kind = "Tablet" /\ g.mode = "X"
           /\ a.res.kind \in {"PrimaryKey", "RowId"} /\ SameTablet(g.res, a.res)
  <2>1. s.kind # "Predicate"
    BY DEF ComparableModes
  <2> QED
    BY <1>1, <1>3, <2>1, EscalationCovers
<1> QED
  BY <1>2, <1>3 DEF StandsFor

\* normalize_requests keeps a request at least as strong as each it was given.
LEMMA NormalizeCovers ==
    ASSUME NEW R \in SUBSET Requests, NEW q \in R
    PROVE  \E p \in Normalize(R) : p.res = q.res /\ Strength(p.mode) >= Strength(q.mode)
<1> DEFINE Same == {p \in R : p.res = q.res}
<1>1. \A p \in R : Strength(p.mode) \in 1 .. 4
  BY StrengthRange DEF Requests
<1>2. \E p \in Same : \A o \in Same : Strength(o.mode) <= Strength(p.mode)
  <2>1. CASE \E p \in Same : Strength(p.mode) = 4
    BY <1>1, <2>1, SMTT(20)
  <2>2. CASE \E p \in Same : Strength(p.mode) = 3
    BY <1>1, <2>1, <2>2, SMTT(20)
  <2>3. CASE \E p \in Same : Strength(p.mode) = 2
    BY <1>1, <2>1, <2>2, <2>3, SMTT(20)
  <2>4. CASE \A p \in Same : Strength(p.mode) = 1
    BY <1>1, <2>4, SMTT(20)
  <2> QED
    BY <1>1, <2>1, <2>2, <2>3, <2>4, SMTT(20)
<1>3. PICK p \in Same : \A o \in Same : Strength(o.mode) <= Strength(p.mode)
  BY <1>2
<1>4. p \in Normalize(R)
  BY <1>3 DEF Normalize
<1> QED
  BY <1>1, <1>3, <1>4

-----------------------------------------------------------------------------
(* The accounts of one transaction and resource *)

\* A transaction asks for modes of the code, never for "none".
LEMMA ModesOfModes ==
    \A t \in Txns, r \in Resources : ModesOf(t, r) \subseteq Modes /\ NoMode \notin ModesOf(t, r)
  BY DEF ModesOf, Modes, NoMode

\* A resource without entries has no holder.
LEMMA BookEmpty ==
    ASSUME NEW t \in Txns, NEW r \in Resources
    PROVE  BookAt(t, r, NoHolder, {}, {})
<1>1. {} \cup {} = {}
  OBVIOUS
<1>2. IsFiniteSet({}) /\ Cardinality({}) = 0
  BY FS_EmptySet
<1> QED
  BY <1>1, <1>2 DEF BookAt, NoHolder

\* An entry kept has a holder, whose mode covers it.
LEMMA BookHolds ==
    ASSUME ComparableModes, NEW t \in Txns, NEW r \in Resources, NEW h, NEW K, NEW D,
           BookAt(t, r, h, K, D), NEW k \in K
    PROVE  /\ h.refs > 0 /\ h.mode \in Modes /\ k.mode \in Modes
           /\ Covers(h.mode, k.mode)
<1>1. Cardinality(K \cup D) # 0
  BY FS_EmptySet DEF BookAt
<1>2. h.mode \in ModesOf(t, r) /\ k.mode \in ModesOf(t, r)
  BY <1>1 DEF BookAt
<1>3. h.refs > 0
  BY <1>1, SMTT(20) DEF BookAt
<1>4. Covers(h.mode, k.mode)
  BY <1>2 DEF BookAt, ComparableModes
<1> QED
  BY <1>2, <1>3, <1>4, ModesOfModes

\* LockTableShard::grant
LEMMA BookInsert ==
    ASSUME NEW t \in Txns, NEW r \in Resources, NEW h, NEW K, BookAt(t, r, h, K, {}),
           NEW c \in Nat \ {0}, NEW m \in ModesOf(t, r), \A g \in K : g.call < c,
           NEW e, e = [call |-> c, res |-> r, mode |-> m, prev |-> h.mode]
    PROVE  BookAt(t, r, GrantHolder(h, m), K \cup {e}, {})
<1>1. K \cup {} = K /\ (K \cup {e}) \cup {} = K \cup {e}
  OBVIOUS
<1>2. /\ m \in Modes /\ \A g \in K : g.mode \in Modes
      /\ h.mode \in ModesOf(t, r) \cup {NoMode} /\ ModesOf(t, r) \subseteq Modes
  BY ModesOfModes DEF BookAt
<1>3. e \in Grant /\ e.res = r /\ e.mode = m /\ e.prev = h.mode /\ e.call = c
  BY <1>2 DEF Grant
<1>4. \A g \in K : g.call \in Nat
  BY DEF BookAt, Grant
<1>5. e \notin K
  BY <1>3, <1>4, SMTT(20)
<1>6. /\ IsFiniteSet(K \cup {e})
      /\ Cardinality(K \cup {e}) = h.refs + 1
  <2>1. IsFiniteSet(K) /\ Cardinality(K) = h.refs
    BY <1>1 DEF BookAt
  <2> QED
    BY <1>5, <2>1, FS_AddElement
<1>7. h.refs \in Nat /\ Cardinality(K) = h.refs
  BY <1>1 DEF BookAt
<1>8. h.refs = 0 => K = {}
  BY <1>1, <1>7, FS_EmptySet DEF BookAt
<1>9. \A n \in Modes : Strength(n) \in Nat
  BY StrengthRange, SMTT(20)
<1>10. /\ GrantHolder(h, m).refs = h.refs + 1
       /\ GrantHolder(h, m).mode \in ModesOf(t, r)
       /\ Strength(GrantHolder(h, m).mode) >= Strength(m)
       /\ h.refs # 0 => Strength(GrantHolder(h, m).mode) >= Strength(h.mode)
       /\ GrantHolder(h, m) \in [mode : ModesOf(t, r) \cup {NoMode}, refs : Nat]
  BY <1>2, <1>7, <1>9, SMTT(20) DEF BookAt, GrantHolder, Strongest
<1>11. \A k \in K \cup {e} : Strength(GrantHolder(h, m).mode) >= Strength(k.mode)
  <2> SUFFICES ASSUME NEW k \in K
               PROVE  Strength(GrantHolder(h, m).mode) >= Strength(k.mode)
    BY <1>3, <1>10
  <2>1. h.refs # 0 /\ h.mode \in Modes /\ GrantHolder(h, m).mode \in Modes
    BY <1>2, <1>8, <1>10 DEF BookAt
  <2>2. Strength(h.mode) >= Strength(k.mode)
    BY DEF BookAt
  <2> QED
    BY <1>2, <1>9, <1>10, <2>1, <2>2, SMTT(20)
<1>12. \A g, k \in K \cup {e} : k.call < g.call =>
          g.prev # NoMode /\ Strength(g.prev) >= Strength(k.mode)
  <2> SUFFICES ASSUME NEW g \in K \cup {e}, NEW k \in K \cup {e}, k.call < g.call
               PROVE  g.prev # NoMode /\ Strength(g.prev) >= Strength(k.mode)
    OBVIOUS
  <2>1. k \in K
    BY <1>3, <1>4, SMTT(20)
  <2>2. CASE g = e
    BY <1>3, <1>8, <2>1, <2>2 DEF BookAt
  <2> QED
    BY <2>1, <2>2 DEF BookAt
<1>13. \A g, k \in K \cup {e} : g.call = k.call => g = k
  BY <1>3, <1>4, SMTT(20) DEF BookAt
<1>14. \A g \in K \cup {e} : /\ g \in Grant /\ g.res = r /\ g.mode \in ModesOf(t, r)
                            /\ g.prev \in ModesOf(t, r) \cup {NoMode}
  BY <1>2, <1>3 DEF BookAt
<1>15. GrantHolder(h, m).refs # 0 /\ GrantHolder(h, m).mode # NoMode
  BY <1>7, <1>10, ModesOfModes, SMTT(20)
<1> QED
  BY <1>1, <1>6, <1>10, <1>11, <1>12, <1>13, <1>14, <1>15 DEF BookAt

\* Entries are marked for release, each younger than every entry kept.
LEMMA BookMove ==
    ASSUME NEW t, NEW r, NEW h, NEW K, NEW D, BookAt(t, r, h, K, D),
           NEW K2, NEW D2, K2 \subseteq K, K2 \cup D2 = K \cup D,
           \A g \in D2, k \in K2 : k.call < g.call
    PROVE  BookAt(t, r, h, K2, D2)
  BY DEF BookAt

\* LockTableShard::release
LEMMA BookRelease ==
    ASSUME NEW t \in Txns, NEW r \in Resources, NEW h, NEW K, NEW D, BookAt(t, r, h, K, D),
           NEW g \in D
    PROVE  BookAt(t, r, ReleaseHolder(h, g.prev), K, D \ {g})
<1> DEFINE L == K \cup D
           L2 == K \cup (D \ {g})
<1>1. g \notin K
  BY SMTT(20) DEF BookAt, Grant
<1>2. L2 = L \ {g} /\ g \in L
  BY <1>1
<1>3. IsFiniteSet(L2) /\ Cardinality(L2) = h.refs - 1 /\ h.refs \in Nat /\ h.refs # 0
  <2>1. IsFiniteSet(L) /\ h.refs = Cardinality(L) /\ h.refs \in Nat
    BY DEF BookAt
  <2>2. Cardinality(L) # 0
    BY <1>2, <2>1, FS_EmptySet
  <2> QED
    BY <1>2, <2>1, <2>2, FS_RemoveElement, SMTT(20)
<1>4. /\ h.mode \in ModesOf(t, r) /\ g.prev \in ModesOf(t, r) \cup {NoMode}
      /\ ModesOf(t, r) \subseteq Modes /\ NoMode \notin ModesOf(t, r)
  BY <1>2, <1>3, ModesOfModes DEF BookAt
<1>5. h.refs = 1 => K = {} /\ L2 = {}
  BY <1>3, FS_EmptySet, SMTT(20)
<1> DEFINE h2 == ReleaseHolder(h, g.prev)
<1>6. /\ h2 \in [mode : ModesOf(t, r) \cup {NoMode}, refs : Nat]
      /\ h2.refs = Cardinality(L2)
      /\ h2.refs = 0 <=> h2.mode = NoMode
  BY <1>3, <1>4, SMTT(20) DEF ReleaseHolder, NoHolder
<1>7. ASSUME NEW k \in K
      PROVE  Strength(h2.mode) >= Strength(k.mode)
  <2>1. k.call < g.call /\ g.prev # NoMode /\ Strength(g.prev) >= Strength(k.mode)
    BY DEF BookAt
  <2> QED
    BY <1>3, <1>5, <2>1, SMTT(20) DEF ReleaseHolder
<1> HIDE DEF h2
<1> QED
  BY <1>3, <1>6, <1>7 DEF BookAt, h2

-----------------------------------------------------------------------------
(* Types *)

\* grant and release keep a holder a mode with a count.
LEMMA HolderTypes ==
    ASSUME NEW h \in [mode : Modes \cup {NoMode}, refs : Nat]
    PROVE  /\ \A m \in Modes : GrantHolder(h, m) \in [mode : Modes \cup {NoMode}, refs : Nat]
           /\ \A p \in Modes \cup {NoMode} :
                 ReleaseHolder(h, p) \in [mode : Modes \cup {NoMode}, refs : Nat]
  BY SMTT(20) DEF GrantHolder, Strongest, ReleaseHolder, NoHolder

\* The fields of an entry and of a request that was granted.
LEMMA GrantTypes ==
    ASSUME TypeOK, NEW t \in Txns
    PROVE  /\ \A g \in grants[t] : /\ g \in Grant /\ g # NoGrant /\ g.call \in Nat
                                   /\ g.res \in Resources /\ g.mode \in Modes
           /\ \A a \in asked[t] : a.res \in Resources /\ a.mode \in Modes
<1>1. grants[t] \subseteq Grant /\ asked[t] \subseteq [call : Nat \ {0}, res : Resources, mode : Modes]
  BY DEF TypeOK
<1>2. \A g \in Grant : g # NoGrant /\ g.call \in Nat /\ g.res \in Resources /\ g.mode \in Modes
  BY SMTT(20) DEF Grant, NoGrant
<1>3. \A a \in [call : Nat \ {0}, res : Resources, mode : Modes] : a.res \in Resources /\ a.mode \in Modes
  BY SMTT(20)
<1> QED
  BY <1>1, <1>2, <1>3

\* The lock manager starts well typed, and each of its steps keeps it so.
LEMMA InitType == Init => TypeOK
  BY SMTT(20) DEF Init, TypeOK, NoHolder, Modes, NoMode

\* The types of what a failing call changes.
LEMMA FailTypes ==
    ASSUME TypeOK, NEW t \in Txns, NEW E \in SUBSET Grant, FailCall(t, E)
    PROVE  /\ grants' \in [Txns -> SUBSET Grant]
           /\ dropping' \in [Txns -> SUBSET Grant]
           /\ after' \in [Txns -> {"idle", "request", "escalate", "done"}]
           /\ pc' \in [Txns -> {"idle", "request", "announce", "scan", "fineCheck", "fineLock",
                                "fineRecheck", "fineGrant", "escalate", "drop", "retire", "done"}]
           /\ todo' \in [Txns -> SUBSET Requests]
           /\ asking' \in [Txns -> SUBSET Requests]
  BY DEF FailCall, StartDrop, ThisCall, TypeOK

\* Call keeps the state well typed.
LEMMA CallType ==
    ASSUME TypeOK, NEW t \in Txns, NEW R \in Calls[t], Call(t, R)
    PROVE  TypeOK'
<1>1. R \in SUBSET Requests /\ Normalize(R) \in SUBSET Requests
  BY LockAssumption DEF Normalize
<1> QED
  BY <1>1, SMTT(20) DEF Call, TypeOK, table, sets

\* CoarseInsert keeps the state well typed.
LEMMA CoarseInsertType ==
    ASSUME TypeOK, NEW t \in Txns, calls[t] # 0, NEW q \in todo[t], CoarseInsert(t, q)
    PROVE  TypeOK'
<1>1. q \in Requests /\ q.res \in Resources /\ q.mode \in Modes
  BY SMTT(20) DEF TypeOK, Requests
<1>2. holder' \in [Txns -> [Resources -> [mode : Modes \cup {NoMode}, refs : Nat]]]
  BY <1>1, HolderTypes, SMTT(20) DEF TypeOK, CoarseInsert
<1>3. cur' \in [Txns -> Grant \cup {NoGrant}]
  BY <1>1, SMTT(20) DEF TypeOK, CoarseInsert, Grant
<1> QED
  BY <1>2, <1>3 DEF CoarseInsert, TypeOK, sets

\* CoarseBlocked keeps the state well typed.
LEMMA CoarseBlockedType ==
    ASSUME TypeOK, NEW t \in Txns, NEW q \in todo[t], CoarseBlocked(t, q)
    PROVE  TypeOK'
<1>1. CASE FailCall(t, {})
  BY <1>1, FailTypes DEF CoarseBlocked, TypeOK, table
<1>2. CASE /\ todo' = [todo EXCEPT ![t] = @ \ {q}]
           /\ UNCHANGED <<pc, asking, after, grants, dropping>>
  BY <1>2 DEF CoarseBlocked, TypeOK, table
<1> QED
  BY <1>1, <1>2 DEF CoarseBlocked

\* Announce keeps the state well typed.
LEMMA AnnounceType ==
    ASSUME TypeOK, NEW t \in Txns, Announce(t)
    PROVE  TypeOK'
  BY SMTT(20) DEF Announce, BumpEpoch, TypeOK, sets

\* Scan keeps the state well typed.
LEMMA ScanType ==
    ASSUME TypeOK, NEW t \in Txns, NEW s \in Shards, Scan(t, s)
    PROVE  TypeOK'
<1>1. Blocked(t, cur[t], ShardResources(s)) \in BOOLEAN
  BY DEF Blocked
<1> QED
  BY <1>1 DEF Scan, TypeOK, table, sets

\* CoarseGranted keeps the state well typed.
LEMMA CoarseGrantedType ==
    ASSUME TypeOK, NEW t \in Txns, cur[t] # NoGrant, after[t] \in {"request", "escalate"},
           CoarseGranted(t)
    PROVE  TypeOK'
<1>1. cur[t] \in Grant
  BY DEF TypeOK
<1> QED
  BY <1>1 DEF CoarseGranted, StartDrop, ThisCall, TypeOK, table

\* CoarseRefused keeps the state well typed.
LEMMA CoarseRefusedType ==
    ASSUME TypeOK, NEW t \in Txns, cur[t] # NoGrant, CoarseRefused(t)
    PROVE  TypeOK'
<1>1. {cur[t]} \in SUBSET Grant
  BY DEF TypeOK
<1>2. CASE FailCall(t, {cur[t]})
  BY <1>1, <1>2, FailTypes DEF CoarseRefused, TypeOK, table
<1>3. CASE StartDrop(t, {cur[t]}, after[t]) /\ UNCHANGED <<grants, todo, asking>>
  BY <1>1, <1>3 DEF CoarseRefused, StartDrop, TypeOK, table
<1> QED
  BY <1>2, <1>3 DEF CoarseRefused

\* FineLoad keeps the state well typed.
LEMMA FineLoadType ==
    ASSUME TypeOK, NEW t \in Txns, NEW s \in Shards, FineLoad(t, s)
    PROVE  TypeOK'
  BY DEF FineLoad, TypeOK, sets

\* FineCheck keeps the state well typed.
LEMMA FineCheckType ==
    ASSUME TypeOK, NEW t \in Txns, FineCheck(t)
    PROVE  TypeOK'
<1>1. CASE FailCall(t, {})
  BY <1>1, FailTypes DEF FineCheck, TypeOK, table
<1>2. CASE /\ pc' = [pc EXCEPT ![t] = "fineLock"]
           /\ UNCHANGED <<todo, asking, after, grants, dropping>>
  BY <1>2 DEF FineCheck, TypeOK, table
<1> QED
  BY <1>1, <1>2 DEF FineCheck

\* FineLock keeps the state well typed.
LEMMA FineLockType ==
    ASSUME TypeOK, NEW t \in Txns, FineLock(t)
    PROVE  TypeOK'
  BY DEF FineLock, TypeOK, sets

\* FineRecheck keeps the state well typed.
LEMMA FineRecheckType ==
    ASSUME TypeOK, NEW t \in Txns, FineRecheck(t)
    PROVE  TypeOK'
<1>1. CASE FailCall(t, {}) /\ shardLock' = [shardLock EXCEPT ![batch[t]] = None]
  BY <1>1, FailTypes DEF FineRecheck, TypeOK
<1>2. CASE /\ pc' = [pc EXCEPT ![t] = "fineGrant"]
           /\ UNCHANGED <<shardLock, todo, asking, after, grants, dropping>>
  BY <1>2 DEF FineRecheck, TypeOK
<1> QED
  BY <1>1, <1>2 DEF FineRecheck

\* FineGrant keeps the state well typed.
LEMMA FineGrantType ==
    ASSUME TypeOK, NEW t \in Txns, calls[t] # 0, FineGrant(t)
    PROVE  TypeOK'
<1>1. \A q \in Batch(t) : q \in Requests /\ q.res \in Resources /\ q.mode \in Modes
  BY SMTT(20) DEF TypeOK, Requests, Batch
<1>2. CASE FailCall(t, {}) /\ UNCHANGED holder
  BY <1>2, FailTypes DEF FineGrant, TypeOK
<1>3. CASE ~\E q \in Batch(t) : Blocked(t, q, {q.res})
  <2>1. holder' \in [Txns -> [Resources -> [mode : Modes \cup {NoMode}, refs : Nat]]]
    <3> DEFINE H == [r \in Resources |->
                       IF \E q \in Batch(t) : q.res = r
                       THEN GrantHolder(holder[t][r], (CHOOSE q \in Batch(t) : q.res = r).mode)
                       ELSE holder[t][r]]
    <3>1. \A r \in Resources : H[r] \in [mode : Modes \cup {NoMode}, refs : Nat]
      <4> SUFFICES ASSUME NEW r \in Resources
                   PROVE  H[r] \in [mode : Modes \cup {NoMode}, refs : Nat]
        OBVIOUS
      <4>1. holder[t][r] \in [mode : Modes \cup {NoMode}, refs : Nat]
        BY SMTT(20) DEF TypeOK
      <4>2. (\E q \in Batch(t) : q.res = r) => (CHOOSE q \in Batch(t) : q.res = r).mode \in Modes
        BY <1>1
      <4> QED
        BY <4>1, <4>2, HolderTypes
    <3>2. H \in [Resources -> [mode : Modes \cup {NoMode}, refs : Nat]]
      BY <3>1
    <3>3. holder' = [holder EXCEPT ![t] = H]
      BY <1>3 DEF FineGrant
    <3> HIDE DEF H
    <3> QED
      BY <3>2, <3>3 DEF TypeOK
  <2> DEFINE New == {[call |-> calls[t], res |-> q.res, mode |-> q.mode,
                      prev |-> holder[t][q.res].mode] : q \in Batch(t)}
  <2>2. New \in SUBSET Grant
    BY <1>1, SMTT(20) DEF TypeOK, Grant
  <2>3. /\ grants' = [grants EXCEPT ![t] = @ \cup New]
        /\ todo' = [todo EXCEPT ![t] = @ \ Batch(t)]
        /\ pc' = [pc EXCEPT ![t] = "request"]
        /\ UNCHANGED <<asking, after, dropping>>
    BY <1>3 DEF FineGrant
  <2>4. /\ shardLock' = [shardLock EXCEPT ![batch[t]] = None]
        /\ batch' = [batch EXCEPT ![t] = None]
        /\ UNCHANGED <<activeCount, moved, coarseLock, calls, cur, left, hit, removed, asked>>
    BY DEF FineGrant
  <2> HIDE DEF New
  <2> QED
    BY <2>1, <2>2, <2>3, <2>4 DEF TypeOK
<1> QED
  BY <1>2, <1>3 DEF FineGrant

\* AllGranted keeps the state well typed.
LEMMA AllGrantedType ==
    ASSUME TypeOK, NEW t \in Txns, AllGranted(t)
    PROVE  TypeOK'
<1>1. {[res |-> r, mode |-> "X"] : r \in Escalations(t)} \in SUBSET Requests
  <2>1. Escalations(t) \subseteq Resources /\ "X" \in Modes
    BY DEF Escalations, Modes
  <2> QED
    BY <2>1, SMTT(20) DEF Requests
<1> QED
  BY <1>1 DEF AllGranted, TypeOK, table, sets

\* Return keeps the state well typed.
LEMMA ReturnType ==
    ASSUME TypeOK, NEW t \in Txns, calls[t] # 0, Return(t)
    PROVE  TypeOK'
<1>1. {[call |-> calls[t], res |-> q.res, mode |-> q.mode] : q \in asking[t]}
         \in SUBSET [call : Nat \ {0}, res : Resources, mode : Modes]
  BY SMTT(20) DEF TypeOK, Requests
<1> QED
  BY <1>1 DEF Return, TypeOK, table

\* Drop keeps the state well typed.
LEMMA DropType ==
    ASSUME TypeOK, NEW t \in Txns, NEW g \in dropping[t], Drop(t, g)
    PROVE  TypeOK'
<1>1. g \in Grant /\ g.res \in Resources /\ g.prev \in Modes \cup {NoMode}
  BY SMTT(20) DEF TypeOK, Grant
<1>2. holder' \in [Txns -> [Resources -> [mode : Modes \cup {NoMode}, refs : Nat]]]
  BY <1>1, HolderTypes, SMTT(20) DEF TypeOK, Drop
<1>3. removed' \in [Txns -> BOOLEAN]
  BY DEF TypeOK, Drop, IsCoarse
<1> QED
  BY <1>2, <1>3 DEF Drop, TypeOK

\* Retire keeps the state well typed.
LEMMA RetireType ==
    ASSUME TypeOK, NEW t \in Txns, Retire(t)
    PROVE  TypeOK'
  BY SMTT(20) DEF Retire, BumpEpoch, TypeOK, sets

\* Rollback keeps the state well typed.
LEMMA RollbackType ==
    ASSUME TypeOK, NEW t \in Txns, NEW n \in 0 .. calls[t], RollbackToSavepoint(t, n)
    PROVE  TypeOK'
  BY DEF RollbackToSavepoint, StartDrop, TypeOK, table

\* End keeps the state well typed.
LEMMA EndType ==
    ASSUME TypeOK, NEW t \in Txns, End(t)
    PROVE  TypeOK'
  BY DEF End, StartDrop, TypeOK, table

-----------------------------------------------------------------------------
(* What a step of one transaction leaves alone *)

\* The step leaves the thread, the holders and the lock sets of u alone.
Same(u) ==
    /\ holder'[u] = holder[u] /\ pc'[u] = pc[u] /\ calls'[u] = calls[u]
    /\ asking'[u] = asking[u] /\ todo'[u] = todo[u] /\ cur'[u] = cur[u]
    /\ left'[u] = left[u] /\ hit'[u] = hit[u] /\ removed'[u] = removed[u]
    /\ batch'[u] = batch[u] /\ after'[u] = after[u] /\ grants'[u] = grants[u]
    /\ dropping'[u] = dropping[u] /\ asked'[u] = asked[u]

\* The step gives u nothing another transaction could conflict with.
Shrinks(u) ==
    /\ Coarse(u)' \subseteq Coarse(u)
    /\ Fine(u)' \subseteq Fine(u)
    /\ \A s \in Shards : Settled(u, s)' \subseteq Settled(u, s)
    /\ \A s \in Shards : \A g \in Settled(u, s)' :
          g = cur[u] /\ hit[u] => g = cur'[u] /\ hit'[u]
    /\ pc'[u] = "fineGrant" =>
          pc[u] = "fineGrant" /\ Batch(u)' \subseteq Batch(u) /\ batch'[u] = batch[u]

\* What is said of a transaction holds on while others step.
LEMMA FrameThread ==
    ASSUME NEW u \in Txns, Same(u), ThreadInv(u)
    PROVE  ThreadInv(u)'
<1>1. Kept(u)' = Kept(u)
  BY DEF Same, Kept
<1>2. Books(u)'
  BY <1>1 DEF Same, ThreadInv, Books
<1>3. /\ Requesting(u)' <=> Requesting(u)
      /\ Escalating(u)' <=> Escalating(u)
  BY DEF Same, Requesting, Escalating
<1>4. Control(u)'
  BY <1>3 DEF Same, ThreadInv, Control
<1>5. ToDo(u)'
  BY <1>1, <1>3 DEF Same, ThreadInv, ToDo
<1>6. AskedHeld(u)'
  BY <1>1, <1>3 DEF Same, ThreadInv, AskedHeld
<1> QED
  BY <1>2, <1>4, <1>5, <1>6 DEF ThreadInv

\* A transaction that does not step gains no entry.
LEMMA FrameShrinks ==
    ASSUME NEW u \in Txns, Same(u)
    PROVE  Shrinks(u)
<1>1. Kept(u)' = Kept(u)
  BY DEF Same, Kept
<1>2. Coarse(u)' = Coarse(u) /\ Fine(u)' = Fine(u) /\ Batch(u)' = Batch(u)
  BY <1>1 DEF Same, Coarse, Fine, Batch
<1>3. \A s \in Shards : Settled(u, s)' = Settled(u, s)
  BY <1>2 DEF Same, Settled
<1> QED
  BY <1>2, <1>3 DEF Same, Shrinks

\* A fine entry lives in a shard.
LEMMA FineShard ==
    ASSUME TypeOK, NEW u \in Txns, NEW h \in Fine(u)
    PROVE  h.res \in FineResources /\ ShardIndex[h.res] \in Shards
  BY LockAssumption, SMTT(20) DEF TypeOK, Fine, Grant, FineResources

\* A step that gains no entry causes no conflict.
LEMMA ClashShrinks ==
    ASSUME TypeOK', NoClash, \A u \in Txns : Shrinks(u) /\ Control(u)
    PROVE  NoClash'
<1> SUFFICES ASSUME NEW t \in Txns, NEW u \in Txns, t # u
             PROVE  Apart(t, u)'
  BY DEF NoClash
<1>1. Apart(t, u) /\ Shrinks(t) /\ Shrinks(u) /\ Control(u)
  BY DEF NoClash
<1>2. \A g \in Coarse(t)', h \in Coarse(u)' : ~Clash(g, h)
  BY <1>1 DEF Apart, Shrinks
<1>3. \A g \in Fine(t)', h \in Fine(u)' : ~Clash(g, h)
  BY <1>1 DEF Apart, Shrinks
<1>4. ASSUME NEW h \in Fine(u)', NEW g \in Settled(t, ShardIndex[h.res])'
      PROVE  (g = cur'[t] /\ hit'[t]) \/ ~Clash(g, h)
  <2>1. ShardIndex[h.res] \in Shards
    BY LockAssumption, SMTT(20) DEF TypeOK, Fine, Grant, FineResources
  <2>2. h \in Fine(u) /\ g \in Settled(t, ShardIndex[h.res])
    BY <1>1, <2>1 DEF Shrinks
  <2> QED
    BY <1>1, <2>1, <2>2 DEF Apart, Shrinks
<1>5. ASSUME pc'[u] = "fineGrant", NEW q \in Batch(u)', NEW g \in Settled(t, batch[u])'
      PROVE  ~Clash(g, q)
  <2>1. pc[u] = "fineGrant" /\ q \in Batch(u) /\ batch'[u] = batch[u] /\ batch[u] \in Shards
    BY <1>1, <1>5 DEF Shrinks, Control
  <2>2. g \in Settled(t, batch[u])
    BY <1>1, <2>1 DEF Shrinks, Settled
  <2> QED
    BY <1>1, <2>1, <2>2 DEF Apart
<1> QED
  BY <1>2, <1>3, <1>4, <1>5 DEF Apart, Clash

\* A step of t alone that leaves it with nothing new to conflict with.
LEMMA OneThread ==
    ASSUME IInv, TypeOK', NEW t \in Txns, \A u \in Txns \ {t} : Same(u),
           ThreadInv(t)', Shrinks(t), ShardOwned', CountExact'
    PROVE  IInv'
<1>1. \A u \in Txns : ThreadInv(u)'
  BY FrameThread DEF IInv
<1>2. \A u \in Txns : Shrinks(u) /\ Control(u)
  BY FrameShrinks DEF IInv, ThreadInv
<1>3. ComparableModes => NoClash'
  BY <1>2, ClashShrinks DEF IInv
<1> QED
  BY <1>1, <1>3 DEF IInv

\* A step of t that changes none of its coarse holders.
LEMMA CountStill ==
    ASSUME CountExact, NEW t \in Txns, \A u \in Txns \ {t} : Same(u),
           \A r \in CoarseResources : holder'[t][r] = holder[t][r],
           pc[t] \notin {"announce", "retire"}, pc'[t] \notin {"announce", "retire"},
           activeCount' = activeCount
    PROVE  CountExact'
<1>1. ASSUME NEW x \in Txns \X CoarseResources
      PROVE  /\ Holds(x[1], x[2])' <=> Holds(x[1], x[2])
             /\ (pc'[x[1]] = "announce" /\ cur'[x[1]].res = x[2] /\ cur'[x[1]].prev = NoMode)
                <=> (pc[x[1]] = "announce" /\ cur[x[1]].res = x[2] /\ cur[x[1]].prev = NoMode)
  BY DEF Same, Holds
<1>2. Counted' = Counted
  BY <1>1 DEF Counted, CoarseResources, FineResources
<1>3. Retiring' = Retiring
  BY DEF Same, Retiring
<1> QED
  BY <1>2, <1>3 DEF CountExact

\* A step that neither takes nor frees a shard leaves its owner.
LEMMA ShardStill ==
    ASSUME ShardOwned, NEW t \in Txns, \A u \in Txns \ {t} : Same(u), shardLock' = shardLock,
           pc'[t] \in {"fineRecheck", "fineGrant"} =>
              pc[t] \in {"fineRecheck", "fineGrant"} /\ batch'[t] = batch[t]
    PROVE  ShardOwned'
  BY SMTT(20) DEF ShardOwned, Same

\* The owner of a shard alone frees it.
LEMMA ShardReleased ==
    ASSUME TypeOK, ShardOwned, NEW t \in Txns, \A u \in Txns \ {t} : Same(u),
           pc[t] \in {"fineRecheck", "fineGrant"}, pc'[t] \notin {"fineRecheck", "fineGrant"},
           shardLock' = [shardLock EXCEPT ![batch[t]] = None]
    PROVE  ShardOwned'
<1> SUFFICES ASSUME NEW u \in Txns, pc'[u] \in {"fineRecheck", "fineGrant"}
             PROVE  shardLock'[batch'[u]] = u
  BY DEF ShardOwned
<1>1. u # t /\ pc[u] \in {"fineRecheck", "fineGrant"} /\ batch'[u] = batch[u]
  BY DEF Same
<1>2. shardLock[batch[u]] = u /\ shardLock[batch[t]] = t
  BY <1>1 DEF ShardOwned
<1>3. batch[u] # batch[t]
  BY <1>1, <1>2
<1> QED
  BY <1>1, <1>2, <1>3, SMTT(20) DEF TypeOK

\* Entries of t are marked for release, each younger than every entry of its
\* resource that is kept.
LEMMA BooksMove ==
    ASSUME NEW t \in Txns, Books(t), holder'[t] = holder[t], dropping[t] = {},
           Kept(t)' \cup dropping'[t] = Kept(t),
           \A g \in dropping'[t], k \in Kept(t)' : g.res = k.res => k.call < g.call
    PROVE  Books(t)'
<1> SUFFICES ASSUME NEW r \in Resources
             PROVE  BookAt(t, r, holder[t][r], At(Kept(t)', r), At(dropping'[t], r))
  BY DEF Books, At
<1>1. BookAt(t, r, holder[t][r], At(Kept(t), r), At(dropping[t], r))
  BY DEF Books
<1>2. /\ At(Kept(t)', r) \subseteq At(Kept(t), r)
      /\ At(Kept(t)', r) \cup At(dropping'[t], r) = At(Kept(t), r) \cup At(dropping[t], r)
      /\ \A g \in At(dropping'[t], r), k \in At(Kept(t)', r) : k.call < g.call
  BY DEF At
<1> QED
  BY <1>1, <1>2, BookMove

\* The accounts of a transaction whose holders and entries stay are kept.
LEMMA BooksSame ==
    ASSUME NEW t \in Txns, Books(t), holder'[t] = holder[t], dropping'[t] = dropping[t],
           Kept(t)' = Kept(t)
    PROVE  Books(t)'
  BY DEF Books

\* lock_many fails: the entries of the call, the one in progress included, are
\* marked for release.
LEMMA FailThread ==
    ASSUME TypeOK, NEW t \in Txns, ThreadInv(t), Requesting(t) \/ Escalating(t),
           pc[t] \notin {"drop", "retire"}, NEW E, E = {cur[t]} \ {NoGrant}, FailCall(t, E),
           holder'[t] = holder[t], calls'[t] = calls[t], asked'[t] = asked[t],
           cur'[t] = NoGrant
    PROVE  ThreadInv(t)' /\ Shrinks(t) /\ pc'[t] \in {"idle", "drop"}
<1>1. /\ grants'[t] = grants[t] \ ThisCall(t)
      /\ dropping'[t] = ThisCall(t) \cup E
      /\ after'[t] = "idle" /\ todo'[t] = {} /\ asking'[t] = {}
      /\ pc'[t] \in {"idle", "drop"}
      /\ dropping'[t] # {} => pc'[t] = "drop"
  BY DEF FailCall, StartDrop, TypeOK
<1>2. dropping[t] = {} /\ calls[t] \in Nat
  BY DEF ThreadInv, Control, TypeOK
<1>3. Kept(t)' = grants[t] \ ThisCall(t) /\ Kept(t) = grants[t] \cup E
  BY <1>1 DEF Kept
<1>4. /\ \A g \in grants[t] \ ThisCall(t) : g.call \in Nat /\ g.call < calls[t]
      /\ \A g \in ThisCall(t) \cup E : g.call = calls[t]
  <2>1. \A g \in grants[t] : g.call \in Nat /\ g.call <= calls[t]
    BY GrantTypes DEF ThreadInv, Control
  <2>2. \A g \in E : g.call = calls[t]
    BY DEF ThreadInv, Control
  <2> QED
    BY <1>2, <2>1, <2>2, SMTT(20) DEF ThisCall
<1>5. Books(t)'
  <2>1. Kept(t)' \cup dropping'[t] = Kept(t)
    BY <1>1, <1>3 DEF ThisCall
  <2>2. \A g \in dropping'[t], k \in Kept(t)' : k.call < g.call
    BY <1>1, <1>2, <1>3, <1>4
  <2> QED
    BY <1>2, <2>1, <2>2, BooksMove DEF ThreadInv
<1>6. ~Requesting(t)' /\ ~Escalating(t)'
  BY <1>1 DEF Requesting, Escalating
<1>7. Control(t)'
  BY <1>1, <1>2, <1>4, <1>6, SMTT(20) DEF Control, ThisCall
<1>8. ToDo(t)'
  BY <1>1 DEF ToDo
<1>9. AskedHeld(t)'
  <2>1. ASSUME NEW a \in asked[t]
        PROVE  /\ a.mode \in ModesOf(t, a.res) /\ a.call <= calls[t]
               /\ \E g \in grants[t] \ ThisCall(t) : g.call = a.call /\ StandsFor(g, a)
    <3>1. /\ a.mode \in ModesOf(t, a.res) /\ a.call <= calls[t] /\ a.call < calls[t]
          /\ \E g \in grants[t] : g.call = a.call /\ StandsFor(g, a)
      BY DEF ThreadInv, AskedHeld
    <3> QED
      BY <1>2, <3>1, SMTT(20) DEF ThisCall
  <2> QED
    BY <1>1, <1>6, <2>1 DEF AskedHeld
<1>10. Shrinks(t)
  <2>1. Coarse(t)' \subseteq Coarse(t) /\ Fine(t)' \subseteq Fine(t)
    BY <1>1, <1>3 DEF Coarse, Fine
  <2>2. \A g \in Coarse(t)' : g # cur[t]
    <3>1. \A g \in grants[t] : g # cur[t]
      BY GrantTypes DEF ThreadInv, Control
    <3> QED
      BY <1>3, <3>1 DEF Coarse
  <2>3. \A s \in Shards : /\ Settled(t, s)' \subseteq Settled(t, s)
                           /\ \A g \in Settled(t, s)' : g # cur[t]
    BY <2>1, <2>2 DEF Settled
  <2> QED
    BY <1>1, <2>1, <2>2, <2>3 DEF Shrinks
<1> QED
  BY <1>1, <1>5, <1>7, <1>8, <1>9, <1>10 DEF ThreadInv

\* A step that adds no entry and does not reach the grant of a fine batch.
LEMMA QuietShrinks ==
    ASSUME TypeOK, NEW t \in Txns, grants'[t] \subseteq grants[t], cur[t] = NoGrant,
           cur'[t] = NoGrant, pc'[t] # "fineGrant"
    PROVE  Shrinks(t)
<1>1. Kept(t) = grants[t] /\ Kept(t)' = grants'[t]
  BY DEF Kept
<1>2. \A g \in grants[t] : g # NoGrant
  BY SMTT(20) DEF TypeOK, Grant, NoGrant
<1>3. Coarse(t)' \subseteq Coarse(t) /\ Fine(t)' \subseteq Fine(t)
  BY <1>1 DEF Coarse, Fine
<1>4. \A g \in Coarse(t)' : g # cur[t]
  BY <1>1, <1>2 DEF Coarse
<1>5. \A s \in Shards : /\ Settled(t, s)' \subseteq Settled(t, s)
                         /\ \A g \in Settled(t, s)' : g # cur[t]
  BY <1>3, <1>4 DEF Settled
<1> QED
  BY <1>3, <1>4, <1>5 DEF Shrinks
=============================================================================

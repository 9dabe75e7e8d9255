----------------------------- MODULE LockTypes -----------------------------
(* Lock resources and modes of the sharded lock manager                     *)
(* (transaction/src/lock_manager.rs): which resources overlap, which modes  *)
(* are compatible, and which grants conflict once intent locks on ancestors *)
(* are taken into account.                                                  *)
(*                                                                          *)
(* A resource is a record [kind, table, tablet, lo, hi] of one namespace.   *)
(* lo and hi are the hash bounds of a range; lo is the key hash, row, schema*)
(* or object id of the other kinds; fields a kind does not have are 0.      *)
EXTENDS Integers

Kinds == {"Database", "Schema", "Table", "Tablet", "PrimaryKey", "RowId",
          "Range", "Predicate", "CatalogObject"}

\* is_coarse_resource: kept in the coarse table, not in a shard.
IsCoarse(r) ==
    r.kind \in {"Database", "Schema", "Table", "Tablet", "Range", "Predicate"}

HasTable(r) == r.kind \in {"Table", "Tablet", "PrimaryKey", "RowId",
                           "Range", "Predicate"}

HasTablet(r) == r.kind \in {"Tablet", "PrimaryKey", "RowId", "Range"}

\* table_id() of both is the same Some(..).
SameTable(r, s) == HasTable(r) /\ HasTable(s) /\ r.table = s.table

\* tablet_identity() of both is the same Some(..).
SameTablet(r, s) ==
    HasTablet(r) /\ HasTablet(s) /\ r.table = s.table /\ r.tablet = s.tablet

-----------------------------------------------------------------------------
(* Hash ranges; one with start > end wraps around. *)

\* A range never wraps.
MUHashInRange(h, start, end) == start <= h /\ h <= end

HashInRange(h, start, end) ==
    IF start <= end THEN start <= h /\ h <= end ELSE h >= start \/ h <= end

RangesOverlap(ls, le, rs, re) ==
    \/ HashInRange(ls, rs, re) \/ HashInRange(le, rs, re)
    \/ HashInRange(rs, ls, le) \/ HashInRange(re, ls, le)

-----------------------------------------------------------------------------

\* LockResource::conflicts_with.  The arms of the match are tried in this
\* order: a table, then a tablet, decides before a predicate does.
ConflictsWith(r, s) ==
    LET either(k) == r.kind = k \/ s.kind = k
        both(k) == r.kind = k /\ s.kind = k
    IN  \/ r = s
        \/ either("Database")
        \/ either("Table") /\ SameTable(r, s)
        \/ ~either("Table") /\ either("Tablet") /\ SameTablet(r, s)
        \/ /\ r.kind = "PrimaryKey" /\ s.kind = "Range" /\ SameTablet(r, s)
           /\ HashInRange(r.lo, s.lo, s.hi)
        \/ /\ r.kind = "Range" /\ s.kind = "PrimaryKey" /\ SameTablet(r, s)
           /\ HashInRange(s.lo, r.lo, r.hi)
        \/ both("Range") /\ SameTablet(r, s) /\ RangesOverlap(r.lo, r.hi, s.lo, s.hi)
        \/ ~either("Table") /\ ~either("Tablet") /\ either("Predicate") /\ SameTable(r, s)
        \/ both("Schema") /\ r.lo = s.lo
        \/ both("CatalogObject") /\ r.hi = s.hi /\ r.lo = s.lo

-----------------------------------------------------------------------------
(* Modes.  RangeS behaves as S and RangeX and PredicateX as X everywhere in *)
(* the file, so they are not modes of their own here.                       *)

Modes == {"IS", "IX", "S", "X", "SchemaStability", "SchemaModification"}

NoMode == "none"

\* LockMode::compatible_with
CompatibleWith(m, n) ==
    \/ m = "IS" /\ n \in {"IS", "IX", "S", "SchemaStability"}
    \/ m = "IX" /\ n \in {"IS", "IX", "SchemaStability"}
    \/ m = "S" /\ n \in {"IS", "S", "SchemaStability"}
    \/ m = "SchemaStability" /\ n \in {"IS", "IX", "S", "SchemaStability"}

\* LockMode::strength
Strength(m) ==
    CASE m = "IS" -> 1
      [] m = "IX" -> 2
      [] m \in {"S", "SchemaStability"} -> 3
      [] m \in {"X", "SchemaModification"} -> 4

\* The last request decides.
MUStrongest(m, n) == n

\* LockMode::strongest
Strongest(m, n) == IF Strength(m) >= Strength(n) THEN m ELSE n

IntentModes == {"IS", "IX", "SchemaStability"}

\* proper_ancestor_intent
ProperAncestorIntent(anc, m, desc) ==
    /\ m \in IntentModes
    /\ \/ anc.kind = "Database"
       \/ anc.kind = "Table" /\ SameTable(anc, desc) /\ desc.kind # "Table"
       \/ anc.kind = "Tablet" /\ SameTablet(anc, desc) /\ desc.kind # "Tablet"

\* lock_grants_conflict
GrantsConflict(r, m, s, n) ==
    /\ ConflictsWith(r, s)
    /\ r # s => /\ ~ProperAncestorIntent(r, m, s)
                /\ ~ProperAncestorIntent(s, n, r)
    /\ ~CompatibleWith(m, n) \/ ~CompatibleWith(n, m)

\* normalize_requests: one request per resource, with the strongest mode.
Normalize(R) ==
    {q \in R : \A p \in R : p.res = q.res => Strength(p.mode) <= Strength(q.mode)}
=============================================================================

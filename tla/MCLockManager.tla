--------------------------- MODULE MCLockManager ---------------------------
(* Small instances of LockManager for TLC: one table with one tablet, two   *)
(* rows and a key in two shards, and a range that wraps around.             *)
EXTENDS LockManager, TLC

CONSTANTS t1, t2

Table1 == [kind |-> "Table", table |-> 1, tablet |-> 0, lo |-> 0, hi |-> 0]
Tablet1 == [kind |-> "Tablet", table |-> 1, tablet |-> 1, lo |-> 0, hi |-> 0]
Row(n) == [kind |-> "RowId", table |-> 1, tablet |-> 1, lo |-> n, hi |-> 0]
Key(h) == [kind |-> "PrimaryKey", table |-> 1, tablet |-> 1, lo |-> h, hi |-> 0]
Wrapped == [kind |-> "Range", table |-> 1, tablet |-> 1, lo |-> 6, hi |-> 2]

Ask(r, m) == [res |-> r, mode |-> m]

MCResources == {Table1, Tablet1, Row(1), Row(2), Key(1), Wrapped}

MCShardIndex == (Row(1) :> 1) @@ (Row(2) :> 2) @@ (Key(1) :> 1)

\* One transaction deletes rows, enough of them to escalate, writes a key, and may lock
\* the whole table (FOR UPDATE); the other writes a row or a range.
MCWriterCalls ==
    (t1 :> {{Ask(Table1, "IX")}, {Ask(Row(1), "X"), Ask(Row(2), "X")},
            {Ask(Key(1), "X")}, {Ask(Table1, "X")}})
 @@ (t2 :> {{Ask(Table1, "IX"), Ask(Row(1), "X")}, {Ask(Wrapped, "X")}})

MCMaxCalls == (t1 :> 3) @@ (t2 :> 1)

\* One transaction drops an index of the table and then writes to it; the other
\* creates an index of the same table.
MCIndexCalls ==
    (t1 :> {{Ask(Table1, "SchemaStability")}, {Ask(Table1, "IX")}})
 @@ (t2 :> {{Ask(Table1, "S")}})
=============================================================================

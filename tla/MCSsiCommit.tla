---------------------------- MODULE MCSsiCommit ----------------------------
(* Small instances of SsiCommit for TLC. *)
EXTENDS SsiCommit, TLC

CONSTANTS t1, t2, t3, x, y, z

\* Two transactions that each read what the other writes.
MCSkewReads == (t1 :> {x}) @@ (t2 :> {y})
MCSkewWrites == (t1 :> {y}) @@ (t2 :> {x})

\* The same two and a third that reads both items.
MCReads == (t1 :> {x}) @@ (t2 :> {y}) @@ (t3 :> {x, y})
MCWrites == (t1 :> {y}) @@ (t2 :> {x}) @@ (t3 :> {z})
=============================================================================

--------------------------- MODULE MCJournalApply ---------------------------
(* Small instances of JournalApply for TLC. *)
EXTENDS JournalApply, TLC

CONSTANTS a, b, u, v

\* Two commits over two tablets.
MCCommitParts == (1 :> {a, b}) @@ (2 :> {a})

\* A commit, maintenance of the same tablet, a commit on the other one.
MCMixedParts == (1 :> {a}) @@ (2 :> {a}) @@ (3 :> {b})

\* One part each.
MCPairParts == (1 :> {a}) @@ (2 :> {a})

\* Tablet workers are interchangeable; used for invariants only.
WorkerSymmetry == Permutations(Workers)
=============================================================================

-------------------------- MODULE MCCommitRuntime --------------------------
(* Small instances of CommitRuntime for TLC. *)
EXTENDS CommitRuntime, TLC

CONSTANTS t1, t2, t3, w1

\* t1 and t3 write the same resource; t2 and t3 commit under serializable isolation.
MCWriteSet3 == (t1 :> {"x"}) @@ (t2 :> {"y"}) @@ (t3 :> {"x", "z"})
=============================================================================

---- MODULE MCMergeRequest ----
(***************************************************************************)
(* A merge request pushed to twice, so that it can come back to a commit it *)
(* has left, in three versions and so two pages; and as many discussions   *)
(* as fill two pages, one more than the ceiling.                           *)
(***************************************************************************)
EXTENDS MergeRequest, TLC

CONSTANTS h1, h2, t1, t2, t3, t4

HeadSet == {h1, h2}
ThreadSet == {t1, t2, t3, t4}

\* Commits and discussions are only compared: any two may be exchanged.
Symmetry == Permutations(HeadSet) \union Permutations(ThreadSet)
====

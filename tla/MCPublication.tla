---------------------------- MODULE MCPublication ----------------------------
(* Publication on small instances, for TLC. *)
EXTENDS Publication, TLC

CONSTANTS p1, p2, f1, f2

\* A colleague's own comment for f1, at the very same position.
ColleaguesNote == {[finding |-> f1, author |-> "other", exact |-> TRUE]}

PageSymmetry == Permutations(Pages)
=============================================================================

--------------------------- MODULE MCPageTakeover ---------------------------
(* PageTakeover on small instances, for TLC. *)
EXTENDS PageTakeover

CONSTANTS p1, p2, p3, s1, s2
=============================================================================

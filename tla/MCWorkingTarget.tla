---- MODULE MCWorkingTarget ----
(***************************************************************************)
(* A tree of two files, which a review captures while it is edited and     *)
(* committed.                                                              *)
(***************************************************************************)
EXTENDS WorkingTarget

CONSTANTS r1, a, b

PathList == <<a, b>>
====

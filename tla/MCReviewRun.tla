---- MODULE MCReviewRun ----
(***************************************************************************)
(* Two runs on a merge request of two versions.  The first changes a file  *)
(* in two hunks, the first of which ends without a newline; in the second  *)
(* the same lines have moved.  The answers: a finding with a supporting    *)
(* line that only the first version bears out, and two of the same text    *)
(* on one removed line.                                                    *)
(***************************************************************************)
EXTENDS ReviewRun

CONSTANTS r1, r2

File(old, section) == [oldPath |-> old, newPath |-> "a", binary |-> FALSE, section |-> section]
First == <<Body("x"), Header(1, 1), Body(" "), Body("-"), Body("\\"), Body("+"), Header(4, 4), Body("+"), Body(" "), Body("")>>
Second == <<Header(1, 1), Body("+"), Body(" "), Body("-"), Body("+"), Body("x"), Body("+")>>

DiffList ==
  << [files |-> <<File("a", First)>>, mirrored |-> [p \in {"a", "c"} |-> 9]],
     [files |-> <<File("a", Second)>>, mirrored |-> [p \in {"a", "c"} |-> 9]] >>

At(side, line) == [oldPath |-> "a", newPath |-> "a", side |-> side, line |-> line]
Candidate(loc, supporting) == [location |-> loc, supporting |-> supporting, comment |-> "text", cites |-> TRUE]
OnOld == Candidate(At("old", 2), <<>>)
OnNew == Candidate(At("new", 2), <<At("new", 9)>>)

OutputSet == {<<OnNew>>, <<OnOld, OnOld>>}

Symmetry == Permutations(Runs)
====

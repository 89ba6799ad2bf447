---------------------------- MODULE CommentLedger ----------------------------
(***************************************************************************)
(* What publication promises the person who submits the form: a comment is *)
(* created at most once, and the saved review claims that a comment was    *)
(* published only when it was.  Everything else - pages, leases, lost      *)
(* answers, crashes, retries - is how Publication keeps that promise.      *)
(***************************************************************************)
EXTENDS Naturals

CONSTANT Findings

VARIABLES
    delivered,  \* how many comments each finding has on the merge request
    confirmed   \* the findings the saved review says are published

Init ==
    /\ delivered = [f \in Findings |-> 0]
    /\ confirmed = {}

\* A comment that is not on the merge request is created there.
Create(f) ==
    /\ delivered[f] = 0
    /\ delivered' = [delivered EXCEPT ![f] = 1]
    /\ UNCHANGED confirmed

\* The saved review is rewritten: it confirms delivered comments only.
Confirm ==
    /\ confirmed' \in SUBSET {f \in Findings : delivered[f] > 0}
    /\ UNCHANGED delivered

Next == (\E f \in Findings : Create(f)) \/ Confirm

Spec == Init /\ [][Next]_<<delivered, confirmed>>
=============================================================================

---------------------------- MODULE MCHookMarkers ----------------------------
(***************************************************************************)
(* HookMarkers on a small instance, for TLC: the sessions whose context is *)
(* renewed and in which two edits are told of their rules, with any fourth *)
(* event beside, before, between or after them.                            *)
(***************************************************************************)
EXTENDS HookMarkers, TLC

CONSTANTS h1, h2, h3, h4, main, r1

HookSymmetry == Permutations(Hooks)

MCInit ==
    /\ Init
    /\ \E r \in Hooks : Renews(r)
    /\ \E g, h \in Hooks : g # h /\ event[g] = "PostToolUse" /\ event[h] = "PostToolUse"

MCSpec == MCInit /\ [][Next]_vars
=============================================================================

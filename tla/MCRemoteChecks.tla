--------------------------- MODULE MCRemoteChecks ---------------------------
(* RemoteChecks on a small instance, for TLC. *)
EXTENDS RemoteChecks

\* Every way a check is allowed or refused.
Varied == {[policy |-> "run", selector |-> "files"],
           [policy |-> "propose", selector |-> "files"],
           [policy |-> "forbid", selector |-> "files"],
           [policy |-> "run", selector |-> "executing"]}

\* Approvals of checks that need none change nothing, and are left out.
MCInit == Init /\ \A c \in approvals : config[c].policy = "propose"
MCSpec == MCInit /\ [][Next]_vars /\ WF_vars(GoesOn)
=============================================================================

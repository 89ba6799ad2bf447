------------------------------ MODULE MCChecks ------------------------------
(* Checks on small instances, for TLC. *)
EXTENDS Checks

CONSTANTS t1, t2

C(policy, selector, selectorPolicy) ==
    [policy |-> policy, selector |-> selector, selectorPolicy |-> selectorPolicy]

\* Every policy and every kind of selector, the command selector under each
\* policy that makes a difference.
Varied == {C("run", "related", "run"), C("propose", "files", "run"),
           C("forbid", "files", "run"), C("propose", "command", "propose"),
           C("run", "command", "forbid")}

OneCheck == [c \in 1..1 |-> 1]
OneProject == [c \in 1..2 |-> 1]

CheckKeys == {<<c, "check">> : c \in 1..Count}
AnyKey == {<<c, k>> : c \in 1..Count, k \in {"check", "selector"}}

\* Nothing, or the first check, is approved in advance.
FirstOrNone == {{}, {<<1, "check">>}}
=============================================================================

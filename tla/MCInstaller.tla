----------------------------- MODULE MCInstaller -----------------------------
(* Installer on a small instance, for TLC. *)
EXTENDS Installer, TLC

CONSTANTS a, b, here, there

\* Two versions, one of them rebuilt without a new number.
ThreeCandidates == {[version |-> 1, build |-> 1], [version |-> 2, build |-> 1],
                    [version |-> 2, build |-> 2]}

\* Nothing tells two processes apart, nor two places, but what they were asked.
InstallerSymmetry == Permutations(Installers) \cup Permutations(Places)

\* After a lock was taken from a process that runs, only a removal goes on.
UntilTheft ==
    robbed => /\ \E p \in Installers : At(p, "remove root")
              /\ \A p \in Installers : Mutating(p) => At(p, "remove root")
=============================================================================

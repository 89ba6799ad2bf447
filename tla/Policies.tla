---- MODULE Policies ----
(***************************************************************************)
(* From the policy packs a project enables to what applies to some paths:  *)
(* what makes a pack unusable, which pack stands for which, and which      *)
(* decision a command gets (src/src/policy/load.ts, validate.ts and        *)
(* resolve.ts).                                                            *)
(*                                                                         *)
(* A pack is [reference, origin, id, replaces, activities, appliesTo,      *)
(* decisions, defects]: appliesTo is the set of paths its globs match, and *)
(* defects what is wrong with its file.  Rules and prompts are carried     *)
(* along by the same conditions as decisions and left out.                 *)
(***************************************************************************)
EXTENDS Integers, Sequences, SequencesExt, Subsequences

NoReference == "none"
Precedence == [forbid |-> 3, propose |-> 2, run |-> 1]
Actions == DOMAIN Precedence

\* A file that gives no pack, and defects of a pack that is one.
Unread == {"pack-missing", "pack-unparsable", "pack-invalid"}
OfContent == {"prompt-unreadable", "path-escape", "path-missing", "remind-on-edit-broad-pack"}

Diagnostic(severity, code, where) == [severity |-> severity, code |-> code, where |-> where]

\* What is found in one file, and whether it gives a pack.
ValidatePack(pack, commands) ==
  LET unread == pack.defects \cap Unread
      replacing == pack.origin = "builtin" /\ pack.replaces # NoReference
      mismatch == pack.defects \cap {"pack-id-mismatch"}
      unknown == IF \A d \in ToSet(pack.decisions) : d.command \in commands THEN {} ELSE {"pack-unknown-command"}
      content == (pack.defects \cap OfContent) \union unknown
      codes == CASE unread # {} -> unread
                 [] unread = {} /\ replacing -> content \union {"pack-replaces-builtin"}
                 [] OTHER -> content \union mismatch
  IN [usable |-> unread = {} /\ ~ replacing /\ mismatch = {},
      diagnostics |-> {Diagnostic("error", code, pack.reference) : code \in codes}]

Superseded(pack, packs) ==
  pack.origin = "builtin" /\ \E p \in ToSet(packs) : p.origin = "project" /\ p.replaces = pack.reference

Unreplaced(packs) == Among(packs, {p \in ToSet(packs) : ~ Superseded(p, packs)})
Clashing(rest) == {i \in DOMAIN rest : \E j \in 1 .. i - 1 : rest[j].id = rest[i].id}

\* Packs that are not superseded; of those with one id the first.
KeptPacks(packs) ==
  LET rest == Unreplaced(packs)
      first == Among([i \in DOMAIN rest |-> i], DOMAIN rest \ Clashing(rest))
  IN [k \in DOMAIN first |-> rest[first[k]]]

ValidatePackSet(packs) ==
  LET rest == Unreplaced(packs)
      last == {i \in DOMAIN packs : /\ packs[i].replaces # NoReference
                                    /\ \A j \in DOMAIN packs : packs[j].replaces = packs[i].replaces => j <= i}
      unused == {i \in last : ~ \E p \in ToSet(packs) : p.origin = "builtin" /\ p.reference = packs[i].replaces}
  IN [packs |-> KeptPacks(packs),
      diagnostics |-> {Diagnostic("error", "pack-duplicate-id", rest[i].reference) : i \in Clashing(rest)}
                        \union {Diagnostic("warning", "pack-replaces-unused", packs[i].reference) : i \in unused}]

\* The packs a project enables: those that come with the program, then its own.
LoadPacks(project) ==
  LET usable == Among(project.packs, {p \in ToSet(project.packs) : ValidatePack(p, project.commands).usable})
      set == ValidatePackSet(usable)
      found == UNION {ValidatePack(p, project.commands).diagnostics : p \in ToSet(project.packs)}
  IN [packs |-> set.packs, diagnostics |-> found \union set.diagnostics]

\* Mutant of StrongerAction: the pack that is read last has its way.
LaterAction(a, b) == b
StrongerAction(a, b) == IF Precedence[a] >= Precedence[b] THEN a ELSE b

NoDecisions == [c \in {} |-> "run"]

Decide(made, d) ==
  [c \in DOMAIN made \union {d.command} |->
     IF c # d.command THEN made[c] ELSE IF c \in DOMAIN made THEN StrongerAction(made[c], d.action) ELSE d.action]

DecideAll(made, decisions) ==
  LET upTo[n \in 0 .. Len(decisions)] == IF n = 0 THEN made ELSE Decide(upTo[n - 1], decisions[n])
  IN upTo[Len(decisions)]

Decisions(packs) ==
  LET upTo[n \in 0 .. Len(packs)] == IF n = 0 THEN NoDecisions ELSE DecideAll(upTo[n - 1], packs[n].decisions)
  IN upTo[Len(packs)]

PackScoped == OfContent \union {"pack-unknown-command"}

\* An error in the content of a pack that does not apply is only noticed.
ScopeDiagnostics(diagnostics, considered, applicable) ==
  {IF /\ d.severity = "error" /\ d.code \in PackScoped
      /\ d.where \in considered \ applicable THEN [d EXCEPT !.severity = "notice"] ELSE d
   : d \in diagnostics}

\* No paths ask for everything of an activity; paths outside the project for nothing.
Applies(pack, activity, paths, inProject) ==
  activity \in pack.activities /\ (paths = {} \/ pack.appliesTo \cap inProject # {})

ResolvePolicy(activity, loaded, paths, inProject) ==
  IF paths # {} /\ inProject = {}
  THEN [packs |-> {}, decisions |-> NoDecisions,
        diagnostics |-> loaded.diagnostics \union {Diagnostic("notice", "paths-outside-project", NoReference)}]
  ELSE LET applicable == Among(loaded.packs, {p \in ToSet(loaded.packs) : Applies(p, activity, paths, inProject)})
           references == {p.reference : p \in ToSet(applicable)}
       IN [packs |-> references,
           decisions |-> Decisions(applicable),
           diagnostics |-> ScopeDiagnostics(loaded.diagnostics, {p.reference : p \in ToSet(loaded.packs)}, references)]

\* Absence is not permission.
DecisionFor(policy, command) ==
  IF command \in DOMAIN policy.decisions THEN policy.decisions[command] ELSE "undeclared"
====

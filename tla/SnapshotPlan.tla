---- MODULE SnapshotPlan ----
(***************************************************************************)
(* From a diff to the tree the reviewer reads: what is kept out of the     *)
(* review (src/src/snapshot/exclusions.ts), the limits that refuse it      *)
(* (snapshot/limits.ts), and the plan of what is mirrored: every changed   *)
(* file or none, and as much unchanged context as the budget leaves        *)
(* (snapshot/snapshot.ts).                                                 *)
(*                                                                         *)
(* Traits says what the patterns of the code make of a path; which glob    *)
(* matches which path is left out.                                         *)
(***************************************************************************)
EXTENDS MergeRequestEvidence, FiniteSetsExt

CONSTANTS
  Traits,               \* of a path: a set of "vendored", "test", "secret", "binary name", "generated"
  DirectoryOf,          \* of a path
  MaxTotalBytes,        \* MAX_SNAPSHOT_TOTAL_BYTES
  MaxDirectoryLists,    \* MAX_CONTEXT_DIRECTORY_LISTS
  MaxContextReads,      \* MAX_CONTEXT_FILE_READS
  ReadConcurrency,      \* CONTENT_READ_CONCURRENCY
  Reserve               \* PROMPT_EVIDENCE_RESERVE_BYTES

ASSUME PlanAssumption ==
  /\ {MaxTotalBytes, MaxDirectoryLists, MaxContextReads, Reserve} \subseteq Nat
  /\ ReadConcurrency \in Nat \ {0}
  /\ DOMAIN Traits = DOMAIN DirectoryOf /\ IsFiniteSet(DOMAIN Traits) /\ Nowhere \notin DOMAIN Traits

(***************************************************************************)
(* Exclusion.  What the operator asked for is [exclude, only, noTests]:    *)
(* the paths two sets of patterns match, and none selected means all.      *)
(***************************************************************************)
NoOperator == [exclude |-> {}, only |-> {}, noTests |-> FALSE]

PathExcluded(path, operator) ==
  \/ Traits[path] \cap {"vendored", "secret", "binary name"} # {}
  \/ path \in operator.exclude
  \/ operator.noTests /\ "test" \in Traits[path]

\* A selection is answered by both names at once, an exclusion by either.
ExcludedFromReview(file, operator) ==
  LET names == {file.oldPath, file.newPath} \ {Nowhere} IN
  \/ operator.only # {} /\ names \cap operator.only = {}
  \/ \E p \in names : PathExcluded(p, operator)

Reviewable(files, operator) == Among(files, {f \in ToSet(files) : ~ ExcludedFromReview(f, operator)})
KeptOut(files, operator) == {f \in ToSet(files) : ExcludedFromReview(f, operator)}

(***************************************************************************)
(* Limits.  A section of the patch is one byte; limits is                  *)
(* [maxChangedFiles, maxContextBytes].                                     *)
(***************************************************************************)
PatchBytes(files) == Len(files)
ContextBytes(files, promptBytes, snapshotBytes) ==
  (IF promptBytes > 0 THEN promptBytes ELSE PatchBytes(files)) + snapshotBytes

WithinLimits(files, promptBytes, snapshotBytes, limits) ==
  /\ Len(files) <= limits.maxChangedFiles
  /\ ContextBytes(files, promptBytes, snapshotBytes) <= limits.maxContextBytes

PromptOverhead(files) == Reserve + PatchBytes(files)
ContextBudget(files, limits) == IF limits.maxContextBytes < PromptOverhead(files) THEN 0
                                ELSE limits.maxContextBytes - PromptOverhead(files)

(***************************************************************************)
(* The plan.                                                               *)
(***************************************************************************)
Empty == [entries |-> <<>>, omitted |-> {}, totalBytes |-> 0, changedBytes |-> 0,
          oversized |-> {}, refused |-> FALSE, trimmed |-> 0, capped |-> FALSE, stopped |-> FALSE]

Mirror(plan, path, bytes) ==
  [plan EXCEPT !.entries = Append(@, [path |-> path, bytes |-> bytes]), !.totalBytes = @ + bytes]

\* What is read is decided before anything is: one batch, or one request a path.
Needed(files) == {f.newPath : f \in {g \in ToSet(files) : ~ g.binary}}
                   \cap {p \in DOMAIN Traits : ~ PathExcluded(p, NoOperator)}

\* Mutant of TakeChanged: a file above its ceiling is left out of the mirror and not named.
TakeChangedThatFits(plan, file, content) ==
  IF plan.refused \/ file.newPath = Nowhere \/ content[file.newPath].bytes > MaxFileBytes THEN plan
  ELSE IF file.binary \/ PathExcluded(file.newPath, NoOperator) \/ content[file.newPath].kind # "text"
       THEN [plan EXCEPT !.omitted = @ \union {file.newPath}]
  ELSE IF plan.totalBytes + content[file.newPath].bytes > MaxTotalBytes THEN [plan EXCEPT !.refused = TRUE]
  ELSE Mirror(plan, file.newPath, content[file.newPath].bytes)

\* One changed file: mirrored, omitted by name, or a reason to refuse the whole plan.
TakeChanged(plan, file, content) ==
  IF plan.refused \/ file.newPath = Nowhere THEN plan
  ELSE IF file.binary \/ PathExcluded(file.newPath, NoOperator)
       THEN [plan EXCEPT !.omitted = @ \union {file.newPath}]
  ELSE LET read == content[file.newPath] IN
       CASE read.kind \in {"none", "unavailable", "symlink", "binary"} ->
              [plan EXCEPT !.omitted = @ \union {file.newPath}]
         [] read.kind = "too-large" \/ (read.kind = "text" /\ read.bytes > MaxFileBytes) ->
              [plan EXCEPT !.oversized = @ \union {file.newPath}]
         [] OTHER ->
              IF plan.totalBytes + read.bytes > MaxTotalBytes THEN [plan EXCEPT !.refused = TRUE]
              ELSE Mirror(plan, file.newPath, read.bytes)

Changed(files, content) ==
  LET upTo[n \in 0 .. Len(files)] == IF n = 0 THEN Empty ELSE TakeChanged(upTo[n - 1], files[n], content)
      taken == upTo[Len(files)]
  IN [taken EXCEPT !.refused = @ \/ taken.oversized # {}, !.changedBytes = taken.totalBytes]

Lesser(a, b) == IF a < b THEN a ELSE b
FirstUpTo(n, s) == SubSeq(s, 1, Lesser(n, Len(s)))

\* The first occurrence of each directory of the change, in the order of the diff.
Directories(files) ==
  LET dirs == [i \in DOMAIN files |-> IF files[i].newPath = Nowhere THEN Nowhere ELSE DirectoryOf[files[i].newPath]]
      New(i) == dirs[i] # Nowhere /\ \A j \in 1 .. i - 1 : dirs[j] # dirs[i]
      places == Among([i \in DOMAIN files |-> i], {i \in DOMAIN files : New(i)})
  IN [k \in DOMAIN places |-> dirs[places[k]]]

Candidates(files, listing, operator) ==
  LET changed == {f.newPath : f \in ToSet(files)}
      listed == FirstUpTo(MaxDirectoryLists, Directories(files))
      upTo[n \in 0 .. Len(listed)] == IF n = 0 THEN <<>> ELSE upTo[n - 1] \o listing[listed[n]]
  IN Among(upTo[Len(listed)], {p \in DOMAIN Traits \ changed : ~ PathExcluded(p, operator) /\ "generated" \notin Traits[p]})

\* One sibling, read with its batch: a batch is read when the ceiling is not reached at its start.
\* stopped says that no further batch is.
TakeSibling(plan, sibling, first, content, ceiling) ==
  LET read == content[sibling]
      stopped == plan.stopped \/ (first /\ plan.totalBytes >= ceiling)
      at == [plan EXCEPT !.stopped = stopped]
  IN CASE stopped -> [at EXCEPT !.trimmed = @ + 1]
       [] ~ stopped /\ (read.kind # "text" \/ read.bytes > MaxFileBytes) -> at
       [] OTHER -> IF plan.totalBytes + read.bytes > ceiling THEN [at EXCEPT !.trimmed = @ + 1]
                   ELSE Mirror(at, sibling, read.bytes)

WithContext(plan, files, content, listing, operator, budget) ==
  LET candidates == Candidates(files, listing, operator)
      wanted == FirstUpTo(MaxContextReads, candidates)
      upTo[n \in 0 .. Len(wanted)] ==
        IF n = 0 THEN plan
        ELSE TakeSibling(upTo[n - 1], wanted[n], (n - 1) % ReadConcurrency = 0, content, Lesser(budget, MaxTotalBytes))
  IN [upTo[Len(wanted)] EXCEPT
        !.capped = Len(Directories(files)) > MaxDirectoryLists \/ Len(candidates) > MaxContextReads]

PlanSnapshot(files, content, listing, withSiblings, operator, budget) ==
  LET changed == Changed(files, content) IN
  IF changed.refused \/ ~ withSiblings THEN changed
  ELSE WithContext(changed, files, content, listing, operator, budget)
====

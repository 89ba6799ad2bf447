---- MODULE WorkingTarget ----
(***************************************************************************)
(* How the target of a review of the working tree is captured while an     *)
(* editor, a build or another git command goes on changing the tree        *)
(* (src/src/snapshot/target.ts, content.ts, src/src/git/diff.ts).          *)
(*                                                                         *)
(* The tree is read by several git commands and by one read per file.  The *)
(* model makes each of them a step.  A file's content is a number, 0 for a *)
(* file that is not there; a patch gives the files that differ a section,  *)
(* which says the content before and after.  git lists files in one order, *)
(* so that a list of them is the set of its members.  The files are in one *)
(* directory, so that each is a neighbour of the others.                   *)
(***************************************************************************)
EXTENDS Integers, Sequences, SequencesExt, Functions, FiniteSets

CONSTANTS
  Runs,       \* reviews of the working tree
  Paths,      \* the files of the repository, in the order git lists them
  MaxEdits,   \* bound: edits in a behaviour
  MaxCommits  \* bound: commits in a behaviour

ASSUME PathsAssumption == IsInjective(Paths) /\ MaxEdits \in Nat /\ MaxCommits \in Nat

VARIABLES
  head,       \* the content HEAD gives each file
  tree,       \* the content each file has in the working tree
  edits, commits,
  past,       \* the contents each file has had
  restored,   \* a file has gone back to a content it had before
  cap         \* what each run has captured so far

tree_vars == <<head, tree, edits, commits, past, restored>>
capture_vars == <<head, tree, edits, commits, past, restored, cap>>

Files == ToSet(Paths)
Absent == 0
Unread == -1

Uncaptured ==
  [at |-> "head", headSha |-> 0, known |-> {}, changes |-> {}, patch |-> [p \in {} |-> Absent],
   base |-> [p \in Files |-> Absent], todo |-> <<>>, content |-> [p \in Files |-> Unread]]

\* Each file is as HEAD has it, edited, removed or not tracked yet.
CaptureInit ==
  /\ head \in [Files -> {Absent, 1}]
  /\ tree \in [Files -> {Absent, 1, 2}]
  /\ edits = 0 /\ commits = 0 /\ restored = FALSE
  /\ past = [p \in Files |-> {tree[p]}]
  /\ cap = [r \in Runs |-> Uncaptured]

(***************************************************************************)
(* What else happens in the repository.                                    *)
(***************************************************************************)
\* A file is written with something new, removed, or put back as HEAD has it.
Edit(p, value) ==
  /\ edits < MaxEdits /\ edits' = edits + 1
  /\ value # tree[p] /\ tree' = [tree EXCEPT ![p] = value]
  /\ past' = [past EXCEPT ![p] = @ \union {value}]
  /\ restored' = (restored \/ value \in past[p])
  /\ UNCHANGED <<head, commits, cap>>

\* Everything is added and committed: the tree stays, HEAD moves to it.
Commit ==
  /\ commits < MaxCommits /\ commits' = commits + 1
  /\ head # tree /\ head' = tree
  /\ UNCHANGED <<tree, edits, past, restored, cap>>

(***************************************************************************)
(* git diff HEAD with the throwaway index, which knows the files that were *)
(* there when it was made: any other file is not there for it.             *)
(***************************************************************************)
Shown(p, known) == IF p \in known THEN tree[p] ELSE Absent
Changed(known) == {p \in Files : head[p] # Shown(p, known)}
Patch(known) == [p \in Changed(known) |-> [before |-> head[p], after |-> Shown(p, known)]]
Listed(files) == SelectSeq(Paths, LAMBDA p : p \in files)

(***************************************************************************)
(* One run.                                                                *)
(***************************************************************************)
Proceed(r, c) == cap' = [cap EXCEPT ![r] = c] /\ UNCHANGED tree_vars

\* The commit the review will say it is of.
ReadHead(r) ==
  /\ cap[r].at = "head"
  /\ Proceed(r, [cap[r] EXCEPT !.at = "index", !.headSha = commits])

\* The index is copied and the files it does not hold are added to the copy by intent.
MarkIntentToAdd(r) ==
  /\ cap[r].at = "index"
  /\ Proceed(r, [cap[r] EXCEPT !.at = "raw", !.known = {p \in Files : head[p] # Absent \/ tree[p] # Absent}])

RawDiff(r) ==
  /\ cap[r].at = "raw"
  /\ Proceed(r, [cap[r] EXCEPT !.at = "patch", !.changes = Changed(cap[r].known),
                 !.todo = Listed({p \in Changed(cap[r].known) : Shown(p, cap[r].known) # Absent})])

\* combineDiff: the two lists are matched by position, and refused when their lengths differ.
Matched(changes, patch) == Cardinality(changes) = Cardinality(DOMAIN patch)

PatchDiff(r) ==
  /\ cap[r].at = "patch"
  /\ LET patch == Patch(cap[r].known) IN
     Proceed(r, [cap[r] EXCEPT !.at = IF Matched(cap[r].changes, patch) THEN "changed" ELSE "refused",
                 !.patch = patch, !.base = head])

\* A file that is not there when it is read is not captured; one that was read is not read again.
CaptureFile(r) ==
  /\ cap[r].at \in {"changed", "siblings"} /\ cap[r].todo # <<>>
  /\ LET p == Head(cap[r].todo)
         value == IF cap[r].content[p] = Unread /\ tree[p] # Absent THEN tree[p] ELSE cap[r].content[p]
     IN Proceed(r, [cap[r] EXCEPT !.todo = Tail(@), !.content[p] = value])

\* The neighbours are listed after the changed files have been read; without a change there are none.
ListSiblings(r) ==
  /\ cap[r].at = "changed" /\ cap[r].todo = <<>>
  /\ Proceed(r, [cap[r] EXCEPT !.at = "siblings",
                 !.todo = IF cap[r].changes = {} THEN <<>> ELSE Listed({p \in Files : tree[p] # Absent})])

\* Mutant of Unmoved: what was read is taken to be what was diffed.
UnmovedUnchecked(r) == TRUE

\* The patch is made again and compared.
Unmoved(r) == Patch(cap[r].known) = cap[r].patch

Compare(r) ==
  /\ cap[r].at = "siblings" /\ cap[r].todo = <<>>
  /\ Proceed(r, [cap[r] EXCEPT !.at = IF Unmoved(r) THEN "captured" ELSE "refused"])

Repository ==
  \/ \E p \in Files : \E value \in {Absent, head[p], 3 + edits} : Edit(p, value)
  \/ Commit

Capture(r) ==
  \/ ReadHead(r) \/ MarkIntentToAdd(r) \/ RawDiff(r) \/ PatchDiff(r)
  \/ CaptureFile(r) \/ ListSiblings(r) \/ Compare(r)

CaptureNext == Repository \/ \E r \in Runs : Capture(r)
CaptureSpec == CaptureInit /\ [][CaptureNext]_capture_vars

(***************************************************************************)
(* Properties.                                                             *)
(***************************************************************************)
Contents == Absent .. 3 + MaxEdits

CaptureTypeOK ==
  /\ head \in [Files -> Contents] /\ tree \in [Files -> Contents]
  /\ edits \in 0 .. MaxEdits /\ commits \in 0 .. MaxCommits
  /\ past \in [Files -> SUBSET Contents] /\ restored \in BOOLEAN
  /\ DOMAIN cap = Runs
  /\ \A r \in Runs :
       /\ DOMAIN cap[r] = DOMAIN Uncaptured
       /\ cap[r].known \subseteq Files /\ cap[r].content \in [Files -> Contents \union {Unread}]
       /\ cap[r].base \in [Files -> Contents]

\* What the reviewer reads is what the patch describes: a changed file was read with the content
\* the patch gives it, and a neighbour that the patch does not name with the content it has in the
\* commit the patch starts from.  Other tools write the tree between any two of the reads, and commit
\* it.  Left out are a file that did not exist when the index was copied, which the patch knows nothing
\* of; a file that is changed and put back as it was between the two patches, which leaves no trace in
\* them; and neighbours when the patch is of nothing but files committed after the index was
\* copied: it stays the same when a neighbour is edited and committed as well.
CapturedIsDiffed ==
  \A r \in Runs :
    LET c == cap[r] IN
    c.at = "captured" /\ ~ restored =>
      /\ \A p \in c.known \cap DOMAIN c.patch : c.content[p] \in {c.patch[p].after, Unread}
      /\ c.known \cap DOMAIN c.patch # {} =>
           \A p \in c.known \ DOMAIN c.patch : c.content[p] \in {c.base[p], Unread}

\* A claim the code does not keep, "AMBICODE will not guess which patch belongs to which file"
\* (git/diff.ts:45): the section a file is given is its own.  The two lists come from two commands,
\* and only their lengths are compared.
PatchNamesItsFile == \A r \in Runs : cap[r].at = "captured" => cap[r].changes = DOMAIN cap[r].patch

====

---- MODULE MergeRequestEvidence ----
(***************************************************************************)
(* What a merge request's pinned version becomes: the files GitLab         *)
(* delivered, whether that is the whole change, which of them would still  *)
(* change the target branch, and the content of a path at the pinned head, *)
(* read alone or in a batch (src/src/providers/gitlab/provider.ts).        *)
(*                                                                         *)
(* A diff body is "text", "binary" or "empty"; the content of a path is    *)
(* its kind and its size, since a path has one content at one revision.    *)
(***************************************************************************)
EXTENDS Subsequences, SequencesExt, Functions

CONSTANT MaxFileBytes     \* MAX_SNAPSHOT_FILE_BYTES

ASSUME EvidenceAssumption == MaxFileBytes \in Nat

Nowhere == "nowhere"
NoMode == "no mode"
NoSize == -1

(***************************************************************************)
(* The delivered files.  An entry is [oldPath, newPath, newFile,           *)
(* deletedFile, renamed, generated, aMode, bMode, tooLarge, collapsed,     *)
(* body].                                                                  *)
(***************************************************************************)
ModeKind(mode) ==
  CASE mode \in {NoMode, "", "0"} -> "unknown"
    [] mode = "120000" -> "symlink"
    [] mode = "160000" -> "gitlink"
    [] OTHER -> "file"

\* An added or deleted file has the mode "0" on one side, so an empty body of it is expected too.
ModeOnly(e) == e.aMode # e.bMode /\ NoMode \notin {e.aMode, e.bMode}
Symlink(e) == ModeKind(e.bMode) = "symlink" \/ (e.deletedFile /\ ModeKind(e.aMode) = "symlink")

\* Mutant of Withheld: an empty body is taken for a change without content.
WithheldIfMarked(e) == e.tooLarge \/ e.collapsed
Withheld(e) ==
  \/ e.tooLarge \/ e.collapsed
  \/ e.body = "empty" /\ ~ (e.renamed \/ ModeOnly(e) \/ Symlink(e) \/ e.generated)

ToFetchedFile(e) ==
  [oldPath |-> IF e.newFile THEN Nowhere ELSE e.oldPath,
   newPath |-> IF e.deletedFile THEN Nowhere ELSE e.newPath,
   binary |-> e.body = "binary", symlink |-> Symlink(e), incomplete |-> Withheld(e),
   section |-> IF Withheld(e) THEN "empty" ELSE e.body]

Named(file) == IF file.newPath # Nowhere THEN file.newPath ELSE file.oldPath

(***************************************************************************)
(* Coverage.  A version is [head, state, realSize, diffs]; realSize is     *)
(* NoSize when it is absent or not a number, and its "+" is not read.      *)
(***************************************************************************)
CappedStates == {"overflow", "without_files", "timeout"}

AssessCoverage(version, files) ==
  [complete |-> /\ version.state \notin CappedStates
                /\ version.realSize <= Len(files)
                /\ files # <<>>
                /\ \A f \in ToSet(files) : ~ f.incomplete]

(***************************************************************************)
(* Narrowing to what merging would change.  A comparison is [kind, paths]. *)
(***************************************************************************)
\* The paths that still differ, as a sequence of at most one set.
PathsDifferingFromTarget(target, compare) ==
  IF target.start = target.head \/ compare.kind # "ok" THEN <<>> ELSE <<compare.paths>>

Narrow(delivered, differing) ==
  IF differing = <<>> THEN delivered ELSE Among(delivered, {f \in ToSet(delivered) : Named(f) \in differing[1]})

Failed == [kind |-> "failed", files |-> <<>>, complete |-> FALSE, narrowed |-> FALSE,
           omissions |-> {}, symlinks |-> {}]

FetchSnapshot(target, version, compare) ==
  LET delivered == [i \in DOMAIN version.diffs |-> ToFetchedFile(version.diffs[i])]
      differing == PathsDifferingFromTarget(target, compare)
  IN IF version.head # target.head THEN Failed
     ELSE [kind |-> "ok", files |-> Narrow(delivered, differing),
           complete |-> AssessCoverage(version, delivered).complete,
           narrowed |-> differing # <<>>,
           omissions |-> {Named(f) : f \in {g \in ToSet(delivered) : g.incomplete}},
           symlinks |-> {f.newPath : f \in {g \in ToSet(delivered) : g.symlink}} \ {Nowhere}]

(***************************************************************************)
(* Content at the pinned head.  A blob is [kind, size].  isBinaryContent   *)
(* calls it binary ("binary", "disputed") or not ("text", "legacy"), and   *)
(* it is UTF-8 ("text", "disputed") or grows when it is decoded ("legacy", *)
(* "binary"); or it is "gone".                                             *)
(***************************************************************************)
Text(bytes) == [kind |-> "text", bytes |-> bytes]
TooLarge(bytes) == [kind |-> "too-large", bytes |-> bytes]
Binary == [kind |-> "binary", bytes |-> 0]
Link == [kind |-> "symlink", bytes |-> 0]
Unavailable == [kind |-> "unavailable", bytes |-> 0]
Nothing == [kind |-> "none", bytes |-> 0]

IsBinaryContent(blob) == blob.kind \in {"binary", "disputed"}
DecodedSize(blob) == IF blob.kind \in {"legacy", "binary"} THEN blob.size + 1 ELSE blob.size

\* One path, its bytes classified before they are decoded.
Fetch(path, symlinks, blob, answered) ==
  CASE path \in symlinks -> Link
    [] path \notin symlinks /\ (~ answered \/ blob.kind = "gone") -> Unavailable
    [] OTHER -> IF blob.size > MaxFileBytes THEN TooLarge(blob.size)
                ELSE IF IsBinaryContent(blob) THEN Binary
                ELSE Text(DecodedSize(blob))

\* GitLab's answer for one path of a batch.  What is text and what is not, it decides in its own
\* way: UTF-8 for a blob it takes for text, no text at all for another.
Node(path, blob, asText) ==
  [path |-> path, rawSize |-> blob.size, textSize |-> IF asText THEN DecodedSize(blob) ELSE 0]

\* Mutant of Served: a text is believed whatever its length.
ServedAnyLength(node) == node.rawSize # NoSize
\* A text is believed when its length is the length of the blob.
Served(node) == node.rawSize # NoSize /\ (node.rawSize > MaxFileBytes \/ node.textSize = node.rawSize)

Primable(path, cache, symlinks) == path \notin DOMAIN cache /\ path \notin symlinks

\* A batch is [kind, hasNextPage, nodes]; what it does not resolve stays to be read alone.
PrimeBatch(cache, paths, batch) ==
  LET served == {n \in batch.nodes : n.path \in paths /\ Served(n)}
      Value(p) == LET n == CHOOSE m \in served : m.path = p IN
                  IF n.rawSize > MaxFileBytes THEN TooLarge(n.rawSize) ELSE Text(n.textSize)
      primed == {n.path : n \in served}
  IN IF batch.kind # "ok" \/ batch.hasNextPage THEN cache
     ELSE [p \in primed \union DOMAIN cache |-> IF p \in primed THEN Value(p) ELSE cache[p]]
====

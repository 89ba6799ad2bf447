---- MODULE Findings ----
(***************************************************************************)
(* From the lines of a pinned diff to the places of comments: how hunks    *)
(* are numbered (src/src/git/diff.ts), how the places a reviewer names are *)
(* checked against them (src/src/review/validate.ts), the position a       *)
(* comment is given (src/src/providers/position.ts, publication/positions.ts) *)
(* and what a saved review's files must agree on before they are opened    *)
(* (src/src/publication/aggregate.ts).                                     *)
(*                                                                         *)
(* A line of a patch is its first character and, for a hunk header, the    *)
(* two lines it starts at; a comment's text is a model value; a hash is    *)
(* the tuple that is hashed.                                               *)
(***************************************************************************)
EXTENDS Integers, Sequences, SequencesExt, Subsequences, Functions

CONSTANT MaxFindings    \* review.maxFindings

ASSUME FindingsAssumption == MaxFindings \in Nat

NoPath == "no path"
NoLine == 0

Sides == {"old", "new"}
PathOn(x, side) == IF side = "old" THEN x.oldPath ELSE x.newPath
LineOn(l, side) == IF side = "old" THEN l.oldLine ELSE l.newLine

\* The first element that is in a set, as a sequence of at most one.
FirstOf(s, S) == LET found == Among(s, S) IN IF found = <<>> THEN <<>> ELSE <<found[1]>>
Ids(s) == [i \in DOMAIN s |-> s[i].id]

(***************************************************************************)
(* Hunks.                                                                  *)
(***************************************************************************)
Header(old, new) == [mark |-> "@", old |-> old, new |-> new]
Body(mark) == [mark |-> mark, old |-> NoLine, new |-> NoLine]

Outside == [inHunks |-> FALSE, old |-> NoLine, new |-> NoLine, lines |-> <<>>]

\* A header starts the count of both sides; any line that cannot be one of a hunk ends it.
ReadLine(h, line) ==
  CASE line.mark = "@" -> [h EXCEPT !.inHunks = TRUE, !.old = line.old, !.new = line.new]
    [] line.mark # "@" /\ (~ h.inHunks \/ line.mark \in {"\\", ""}) -> h
    [] line.mark = "+" /\ h.inHunks ->
         [h EXCEPT !.new = @ + 1, !.lines = Append(@, [kind |-> "added", oldLine |-> NoLine, newLine |-> h.new])]
    [] line.mark = "-" /\ h.inHunks ->
         [h EXCEPT !.old = @ + 1, !.lines = Append(@, [kind |-> "removed", oldLine |-> h.old, newLine |-> NoLine])]
    [] line.mark = " " /\ h.inHunks ->
         [h EXCEPT !.old = @ + 1, !.new = @ + 1,
                   !.lines = Append(@, [kind |-> "context", oldLine |-> h.old, newLine |-> h.new])]
    [] OTHER -> [h EXCEPT !.inHunks = FALSE]

\* What a patch may hold: a line that is none of a hunk's is of mark "x".
Marks == {"@", "+", "-", " ", "\\", "", "x"}
Patches == [oldPath : STRING, newPath : STRING, binary : BOOLEAN, section : Seq([mark : Marks, old : Nat, new : Nat])]

ReadUpTo(section) ==
  LET upTo[n \in 0 .. Len(section)] == IF n = 0 THEN Outside ELSE ReadLine(upTo[n - 1], section[n])
  IN upTo[Len(section)]
Lines(file) == IF file.binary THEN <<>> ELSE ReadUpTo(file.section).lines

AddressableLines(file, side) == {LineOn(l, side) : l \in ToSet(Lines(file))} \ {NoLine}
LineAt(file, side, n) == FirstOf(Lines(file), {l \in ToSet(Lines(file)) : LineOn(l, side) = n})

FileNamed(files, side, name) == FirstOf(files, {f \in ToSet(files) : PathOn(f, side) = name})

(***************************************************************************)
(* What the reviewer names.                                                *)
(***************************************************************************)
NoPlace == [oldPath |-> NoPath, newPath |-> NoPath, side |-> "new", line |-> NoLine]

\* The paths are taken from the diff, so that a near miss cannot become a place.
ResolveLocation(loc, files) ==
  LET file == FileNamed(files, loc.side, PathOn(loc, loc.side)) IN
  IF PathOn(loc, loc.side) = NoPath \/ file = <<>> THEN NoPlace
  ELSE IF loc.line \notin AddressableLines(file[1], loc.side) THEN NoPlace
  ELSE [oldPath |-> file[1].oldPath, newPath |-> file[1].newPath, side |-> loc.side, line |-> loc.line]

\* A supporting place may also be any line of a mirrored file; mirrored is the length of each.
ResolveSupporting(loc, files, mirrored) ==
  LET inDiff == ResolveLocation(loc, files)
      changed == FileNamed(files, "new", loc.newPath)
  IN CASE inDiff # NoPlace -> inDiff
       [] inDiff = NoPlace /\ loc.side = "new" /\ loc.newPath \in DOMAIN mirrored /\ loc.line <= mirrored[loc.newPath] ->
            [oldPath |-> IF changed = <<>> THEN loc.newPath ELSE changed[1].oldPath,
             newPath |-> loc.newPath, side |-> "new", line |-> loc.line]
       [] OTHER -> NoPlace

\* The id is of the review, the place and the comment; a second finding of the same id gets a number.
StableId(reviewId, loc, comment, used) ==
  LET Base(n) == <<reviewId, loc, comment, n>>
      free == {n \in 1 .. Len(used) + 1 : Base(n) \notin ToSet(used)}
  IN Base(CHOOSE n \in free : \A m \in free : n <= m)

\* cites says that every rule and requirement a candidate refers to is one the review holds.
Locations == [oldPath : STRING, newPath : STRING, side : Sides, line : Nat]
Proposals == [location : Locations, supporting : Seq(Locations), comment : STRING, cites : BOOLEAN]

Rejected(candidate, files, mirrored) ==
  \/ ResolveLocation(candidate.location, files) = NoPlace
  \/ \E s \in ToSet(candidate.supporting) : ResolveSupporting(s, files, mirrored) = NoPlace
  \/ ~ candidate.cites

Invalid == [kind |-> "invalid", findings |-> <<>>]

ValidateFindings(output, files, mirrored, reviewId) ==
  LET Finding(candidate, found) ==
        LET loc == ResolveLocation(candidate.location, files) IN
        [id |-> StableId(reviewId, loc, candidate.comment, Ids(found)), location |-> loc, comment |-> candidate.comment]
      upTo[n \in 0 .. Len(output)] == IF n = 0 THEN <<>> ELSE Append(upTo[n - 1], Finding(output[n], upTo[n - 1]))
  IN IF Len(output) > MaxFindings \/ \E c \in ToSet(output) : Rejected(c, files, mirrored)
     THEN Invalid
     ELSE [kind |-> "ok", findings |-> upTo[Len(output)]]

(***************************************************************************)
(* Where its comment goes.                                                 *)
(***************************************************************************)
\* The position of a place in the diff of a target, as a sequence of at most one.
PositionForLocation(target, files, loc) ==
  LET named == PathOn(loc, loc.side)
      file == FileNamed(files, loc.side, named)
      line == IF named = NoPath \/ file = <<>> THEN <<>> ELSE LineAt(file[1], loc.side, loc.line)
      Or(path, other) == IF path = NoPath THEN other ELSE path
  IN IF line = <<>> THEN <<>>
     ELSE <<[target |-> target,
             oldPath |-> IF line[1].kind = "added" THEN Or(file[1].oldPath, file[1].newPath) ELSE file[1].oldPath,
             newPath |-> IF line[1].kind = "removed" THEN Or(file[1].newPath, file[1].oldPath) ELSE file[1].newPath,
             oldLine |-> line[1].oldLine, newLine |-> line[1].newLine]>>

PositionDigest(reviewId, findingId, target, position) == <<reviewId, findingId, target, position>>

DerivePositions(reviewId, target, files, findings) ==
  LET Placed(f) == PositionForLocation(target, files, f.location)
      Position(f) == [id |-> f.id, target |-> target, position |-> Placed(f)[1],
                      digest |-> PositionDigest(reviewId, f.id, target, Placed(f)[1])]
      placed == Among(findings, {f \in ToSet(findings) : Placed(f) # <<>>})
  IN [reviewId |-> reviewId, target |-> target,
      positions |-> [i \in DOMAIN placed |-> Position(placed[i])],
      unplaceable |-> Among(findings, {f \in ToSet(findings) : Placed(f) = <<>>})]

(***************************************************************************)
(* What a saved review must agree on.  The result is [reviewId, remote,    *)
(* findings], the record [reviewId, drafts, outcomes, submitted], and      *)
(* positions a sequence of at most one.                                    *)
(***************************************************************************)
NoRemote == 0     \* versions are numbered from 1
NoDigest == <<>>  \* a digest is of four parts

\* Mutant of SameTarget: the versions are not compared.
AnyTarget(a, b) == TRUE
SameTarget(a, b) == a = b

PositionsAgree(positions, result) ==
  LET ids == ToSet(Ids(result.findings)) IN
  /\ positions.reviewId = result.reviewId
  /\ result.remote # NoRemote /\ SameTarget(positions.target, result.remote)
  /\ IsInjective(Ids(positions.positions)) /\ IsInjective(Ids(positions.unplaceable))
  /\ ToSet(Ids(positions.positions)) \cap ToSet(Ids(positions.unplaceable)) = {}
  /\ ToSet(Ids(positions.positions)) \union ToSet(Ids(positions.unplaceable)) \subseteq ids
  /\ \A e \in ToSet(positions.positions) :
       /\ SameTarget(e.target, result.remote)
       /\ e.digest = PositionDigest(positions.reviewId, e.id, positions.target, e.position)

Settled(outcome) == outcome.state \in {"published", "already-published"}

RecordAgrees(record, result, positions) ==
  LET ids == ToSet(Ids(result.findings))
      placed == IF positions = <<>> THEN {} ELSE ToSet(positions[1].positions)
  IN /\ IsInjective(Ids(record.drafts)) /\ ToSet(Ids(record.drafts)) \subseteq ids
     /\ IsInjective(Ids(record.outcomes)) /\ ToSet(Ids(record.outcomes)) \subseteq ids
     /\ \A o \in ToSet(record.outcomes) :
          /\ result.remote = NoRemote => o.state \in {"draft", "not-selected"}
          /\ (Settled(o) /\ o.digest # NoDigest) => \E e \in placed : e.id = o.id /\ e.digest = o.digest

Agree(result, positions, record) ==
  /\ record.reviewId = result.reviewId
  /\ IsInjective(Ids(result.findings))
  /\ positions # <<>> => PositionsAgree(positions[1], result)
  /\ RecordAgrees(record, result, positions)
  /\ result.remote = NoRemote => record.submitted = 0
====

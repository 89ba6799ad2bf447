---- MODULE MCReviewEvidence ----
(***************************************************************************)
(* Changes of two files with every shape a diff entry can have, beside a   *)
(* file in a vendored directory, a test and three unchanged neighbours in  *)
(* two directories.  A file of 3 bytes is above the ceiling of one, two of *)
(* 2 are above the ceiling of all.                                         *)
(***************************************************************************)
EXTENDS ReviewEvidence

TraitsValue == [p \in {"s/a", "t/b", "v/x", "s/test", "s/lock", "s/n", "t/n", "t/o"} |->
  CASE p = "v/x" -> {"vendored"} [] p = "s/test" -> {"test"} [] p = "s/lock" -> {"generated"} [] OTHER -> {}]
DirectoryValue == [p \in DOMAIN TraitsValue |->
  CASE p = "v/x" -> "v" [] p \in {"t/b", "t/n", "t/o"} -> "t" [] OTHER -> "s"]

Modified(p) ==
  [oldPath |-> p, newPath |-> p, newFile |-> FALSE, deletedFile |-> FALSE, renamed |-> FALSE, generated |-> FALSE,
   aMode |-> "100644", bMode |-> "100644", tooLarge |-> FALSE, collapsed |-> FALSE, body |-> "text", onTarget |-> FALSE]

Shapes(p) ==
  { Modified(p),
    [Modified(p) EXCEPT !.onTarget = TRUE],
    [Modified(p) EXCEPT !.newFile = TRUE, !.aMode = "0"],
    [Modified(p) EXCEPT !.deletedFile = TRUE, !.bMode = "0"],
    [Modified(p) EXCEPT !.oldPath = "v/x", !.renamed = TRUE, !.body = "empty"],
    [Modified(p) EXCEPT !.bMode = "120000"],
    [Modified(p) EXCEPT !.body = "binary"] }

Blob(kind, size) == [kind |-> kind, size |-> size]
Of(change) ==
  CASE change.deletedFile -> {Blob("gone", 0)}
    [] change.body = "binary" -> {Blob("binary", 1)}
    [] OTHER -> {Blob("text", 2), Blob("text", 3), Blob("legacy", 2), Blob("legacy", 1), Blob("binary", 1),
                Blob("disputed", 2)}

Beside == [p \in DOMAIN TraitsValue |->
  CASE p = "t/o" -> Blob("legacy", 1) [] p \in {"v/x", "s/lock"} -> Blob("text", 0) [] OTHER -> Blob("text", 1)]

BlobsFor(c, d) == {[Beside EXCEPT !["s/a"] = b, !["t/b"] = e] : b \in Of(c), e \in Of(d) \cap {Blob("gone", 0), Blob("binary", 1), Blob("text", 2), Blob("legacy", 1)}}

Request(remote, changes, blobs, known, operator, limits) ==
  [remote |-> remote, changes |-> changes, blobs |-> blobs, pathKnown |-> known, operator |-> operator, limits |-> limits,
   urls |-> <<>>, supplied |-> NothingSupplied, server |-> NoServer, projects |-> [id \in {} |-> NoReference]]

Wide == [maxChangedFiles |-> 3, maxContextBytes |-> 9]
Tight == {[maxChangedFiles |-> 2, maxContextBytes |-> n] : n \in {1, 5, 6, 7}}
Operators == {NoOperator, [NoOperator EXCEPT !.exclude = {"s/n"}], [NoOperator EXCEPT !.only = {"t/b"}],
              [NoOperator EXCEPT !.noTests = TRUE]}

RemoteRequests ==
  UNION {{Request(TRUE, <<c, d>>, blobs, known, NoOperator, Wide) : blobs \in BlobsFor(c, d), known \in BOOLEAN}
         : c \in Shapes("s/a"), d \in Shapes("t/b")}
    \union {Request(TRUE, <<c, Modified("s/test")>>, Beside, TRUE, NoOperator, Wide) : c \in Shapes("s/a")}
LocalRequests ==
  UNION {{Request(FALSE, <<c, d>>, blobs, TRUE, operator, limits)
            : blobs \in BlobsFor(c, d), operator \in Operators, limits \in Tight \union {Wide}}
         : c \in Shapes("s/a"), d \in {Modified("t/b"), [Modified("t/b") EXCEPT !.deletedFile = TRUE]}}
    \union {Request(FALSE, <<c, Modified("s/test")>>, Beside, TRUE, operator, Wide)
              : c \in Shapes("s/a"), operator \in Operators \union {[NoOperator EXCEPT !.only = {"s/test"}]}}
(***************************************************************************)
(* Requirements: two documents, one of them under two spellings.           *)
(***************************************************************************)
CanonicalValue == [u \in {"u", "u/", "w", "ftp", "words"} |-> IF u = "u/" THEN "u" ELSE u]
RetrievableValue == {"u", "u/", "w"}

Simple == Request(FALSE, <<Modified("s/a")>>, Beside, TRUE, NoOperator, Wide)

Source(id, url, status, content) == [id |-> id, url |-> url, status |-> status, content |-> content]
Good == {Source(id, url, "retrieved", content) : id \in {"A", "B"}, url \in {"u", "u/", "w"}, content \in {"text", "other"}}
Sources == Good \union {Source("A", url, "forbidden", Blank) : url \in {"u", "w"}}
                \union {Source("A", url, "retrieved", Blank) : url \in {"u", "w"}}
Written == {<<>>, <<Blank>>, <<"u">>, <<"u/", Blank>>, <<"u", "w">>, <<"w", "u/">>, <<"u", "u/">>, <<"u", "ftp">>, <<"words">>}

Envelope(server, sources, conflicts) ==
  [kind |-> "envelope", server |-> server, sources |-> sources, conflicts |-> conflicts]

RequirementRequests ==
  {[Simple EXCEPT !.urls = urls, !.supplied = supplied]
     : urls \in Written, supplied \in {NothingSupplied, Unreadable}
                                    \union {Envelope(NoServer, sources, FALSE) : sources \in BoundedSeq(Sources, 2)}}
    \union
  {[Simple EXCEPT !.urls = urls, !.server = bound, !.supplied = Envelope(server, sources, conflicts)]
     : urls \in Written, bound \in {NoServer, "mcp"}, server \in {NoServer, "mcp", "another"}, conflicts \in BOOLEAN,
       sources \in {<<>>, <<Source("A", "u", "retrieved", "text")>>,
                    <<Source("A", "w", "retrieved", "text"), Source("B", "u", "retrieved", "other")>>}}

(***************************************************************************)
(* Policies: packs of the program and of a project with two directories,   *)
(* one of which is changed.                                                *)
(***************************************************************************)
Pack(origin, name, id, decisions) ==
  [reference |-> name, origin |-> origin, id |-> id, replaces |-> NoReference, activities |-> {"review"},
   appliesTo |-> {"s/a"}, decisions |-> decisions, defects |-> {}]
Decision(command, action) == [command |-> command, action |-> action]

Builtins ==
  { Pack("builtin", "builtin/x", "x", <<Decision("test", "run"), Decision("lint", "propose")>>),
    [Pack("builtin", "builtin/y", "y", <<Decision("test", "forbid")>>) EXCEPT !.appliesTo = {"t/b"}, !.defects = {"prompt-unreadable"}],
    Pack("builtin", "builtin/z", "z", <<Decision("test", "propose"), Decision("other", "run")>>) }
OwnPacks ==
  { [Pack("project", "own/x", "own", <<Decision("test", "propose"), Decision("test", "run")>>) EXCEPT !.replaces = "builtin/x"],
    Pack("project", "own/y", "y", <<Decision("lint", "run")>>),
    [Pack("project", "own/f", "f", <<Decision("test", "forbid")>>) EXCEPT !.activities = {"review", "task"}],
    [Pack("project", "own/b", "b", <<Decision("test", "forbid")>>) EXCEPT !.defects = {"pack-unparsable"}],
    [Pack("project", "own/t", "t", <<Decision("other", "forbid")>>) EXCEPT !.activities = {"task"}, !.replaces = "builtin/z"] }
Orders(packs, n) == {s \in BoundedSeq(packs, n) : IsInjective(s)}

PolicyRequests ==
  {[Simple EXCEPT !.projects = [id \in {"front", "docs"} |->
      IF id = "front" THEN [packs |-> builtins \o own, commands |-> {"test", "lint"}, owns |-> {"s/a", "t/b"}]
      ELSE [packs |-> <<>>, commands |-> {}, owns |-> {"v/x"}]]]
     : builtins \in Orders(Builtins, 3), own \in Orders(OwnPacks, 3)}

Requests == RemoteRequests \union LocalRequests \union RequirementRequests \union PolicyRequests
====

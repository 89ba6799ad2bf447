---- MODULE Requirements ----
(***************************************************************************)
(* What a review is judged against: the URLs the operator named and the    *)
(* documents the session retrieved for them                                *)
(* (src/src/requirements/normalize.ts).                                    *)
(*                                                                         *)
(* A source is [id, url, status, content]; what the session supplies is    *)
(* [kind, server, sources, conflicts].  The order of the sources in the    *)
(* result is presentation and left out.                                    *)
(***************************************************************************)
EXTENDS Integers, Sequences, SequencesExt

CONSTANTS
  Canonical,     \* of a URL as it was written: the document it names
  Retrievable    \* the URLs that parse and use http or https

ASSUME RequirementsAssumption == Retrievable \subseteq DOMAIN Canonical

Blank == ""
NoServer == "no server"

\* An oversized or empty standard input, a file that is not there, and text that is not an envelope
\* are all unreadable.
NothingSupplied == [kind |-> "none", server |-> NoServer, sources |-> <<>>, conflicts |-> FALSE]
Unreadable == [NothingSupplied EXCEPT !.kind = "unreadable"]

SameUrl(a, b) == Canonical[a] = Canonical[b]

Refused(code) == [mode |-> "refused", code |-> code, sources |-> {}, server |-> NoServer]
SourceFree == [mode |-> "source-free", code |-> "none", sources |-> {}, server |-> NoServer]

ServerProblem(configured, declared) ==
  CASE configured = NoServer \/ declared = configured -> "none"
    [] OTHER -> IF declared = NoServer THEN "server-unrecorded" ELSE "server-mismatch"

BoundServer(configured, declared) == IF declared # NoServer THEN declared ELSE configured

Retrievals(url, sources) == {i \in DOMAIN sources : SameUrl(sources[i].url, url)}

\* Mutant of MatchProblem: what else the evidence holds is not looked at.
MatchProblemOfAsked(urls, sources) ==
  IF \E u \in urls : \E i, j \in Retrievals(u, sources) : i # j THEN "ambiguous"
  ELSE IF \E u \in urls : Retrievals(u, sources) = {} THEN "not-retrieved"
  ELSE "none"

\* A second retrieval of one document stops the search for the others.
MatchProblem(urls, sources) ==
  LET Extra == {i \in DOMAIN sources : \A u \in urls : ~ SameUrl(sources[i].url, u)} IN
  IF \E u \in urls : \E i, j \in Retrievals(u, sources) : i # j THEN "ambiguous"
  ELSE IF \E u \in urls : Retrievals(u, sources) = {} THEN "not-retrieved"
  ELSE IF Extra # {} THEN "undeclared"
  ELSE IF \E s, t \in ToSet(sources) : s.id = t.id /\ ~ SameUrl(s.url, t.url) THEN "ambiguous"
  ELSE "none"

\* structuralConflicts looks for one document retrieved twice, which was refused before.
SourceProblem(sources, conflicts) ==
  IF \E s \in sources : s.status # "retrieved" THEN "unavailable"
  ELSE IF \E s \in sources : s.content = Blank THEN "empty"
  ELSE IF conflicts \/ \E s, t \in sources : SameUrl(s.url, t.url) /\ s.content # t.content THEN "conflicting"
  ELSE "none"

\* Blank lines are no URLs.
Asked(written) == {i \in DOMAIN written : written[i] # Blank}

UrlProblem(written) ==
  IF \E i \in Asked(written) : written[i] \notin Retrievable THEN "invalid-url"
  ELSE IF \E i, j \in Asked(written) : i # j /\ SameUrl(written[i], written[j]) THEN "duplicated"
  ELSE "none"

\* The first of several problems, in the order they are looked for.
FirstProblem(problems) == SelectInSeq(problems, LAMBDA p : p # "none")

NormalizeRequirements(written, supplied, configured) ==
  LET urls == {written[i] : i \in Asked(written)}
      sources == ToSet(supplied.sources)
      problems == <<UrlProblem(written),
                    IF supplied.kind = "none" THEN "not-retrieved" ELSE "none",
                    ServerProblem(configured, supplied.server),
                    MatchProblem(urls, supplied.sources),
                    SourceProblem(sources, supplied.conflicts)>>
      first == FirstProblem(problems)
  IN IF supplied.kind = "unreadable" THEN Refused("unreadable")
     ELSE IF urls = {} THEN IF sources = {} THEN SourceFree ELSE Refused("undeclared")
     ELSE IF first > 0 THEN Refused(problems[first])
     ELSE [mode |-> "requirement-based", code |-> "none", sources |-> sources,
           server |-> BoundServer(configured, supplied.server)]
====

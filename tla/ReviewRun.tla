---- MODULE ReviewRun ----
(***************************************************************************)
(* Runs of `ambicode review` and `ambicode bundle` in one repository, from *)
(* the target they pin to the files they save (src/src/review/bundle.ts,   *)
(* src/src/cli/commands/review.ts), and a person who opens a saved review  *)
(* and publishes from it (src/src/cli/commands/view.ts).                   *)
(*                                                                         *)
(* Runs share the directory of reviews.  A name is chosen by looking, and  *)
(* made afterwards; a file is written in place, so that it is torn while   *)
(* it is being written and stays so when the write fails or the process    *)
(* dies.  A directory is raced when two runs made it: names are cut to the *)
(* minute, so that two runs of one target have the same candidates.        *)
(*                                                                         *)
(* Abstracted: temporary directories, the content of requirements,         *)
(* policies, prompts and check evidence, and the status of a result; every *)
(* refusal before a name is chosen is one alternative of the step that can *)
(* refuse.                                                                 *)
(***************************************************************************)
EXTENDS Findings, Reviewer, FiniteSets

CONSTANTS
  Runs,       \* processes
  Limit,      \* names tried before the unique id is used
  Diffs,      \* what the merge request's versions change: [files, mirrored]
  MaxComments, \* bound: comments published from one directory
  None        \* no process, no name

ASSUME ReviewAssumption ==
  Limit \in Nat \ {0} /\ Len(Diffs) \in Nat \ {0} /\ MaxComments \in Nat /\ None \notin Runs

ASSUME DiffsAssumption == \A v \in 1 .. Len(Diffs) : Diffs[v].files \in Seq(Patches)
ASSUME OutputsAssumption == Outputs \subseteq Seq(Proposals)

VARIABLES
  latest,     \* the version of the merge request that a run would pin now
  run,        \* per process: where it is and what it holds
  made,       \* the review directories that exist
  raced,      \* those that a run found made after it had seen their name free
  files,      \* per directory and file: [by, writers]
  record,     \* per directory: its publication record
  view        \* the reader

vars == <<latest, run, made, raced, files, record, view>>

Kinds == {"MR", "local"}
Commands == {"review", "bundle"}
\* The files that are read again; of the others only whose they are matters.
Reread == {"result", "positions.writing"}
Artifacts == {"checks", "rejected", "result", "prompts", "positions.writing", "positions"}

\* Candidates carry a number, and the last resort the id of the run.
Names == Kinds \X (1 .. Limit \union Runs)

ASSUME NamesAssumption == None \notin Names /\ (1 .. Limit) \cap Runs = {}

Earlier == "earlier"    \* a review made on another day, under the same name
Torn == "torn"
NoFile == [by |-> None, writers |-> {}]

Unstarted ==
  [at |-> "start", kind |-> "local", version |-> 0, excluded |-> {}, tried |-> 0,
   name |-> None, findings |-> <<>>, todo |-> <<>>]

NoRecord == [drafts |-> <<>>, outcomes |-> <<>>, submitted |-> 0]
NoView == [at |-> "closed", name |-> None, result |-> None, positions |-> <<>>, record |-> NoRecord]

\* Any number of the candidates are taken already.
Init ==
  \E n \in 0 .. Limit :
    LET taken == Kinds \X (1 .. n) IN
    /\ latest = 1 /\ run = [r \in Runs |-> Unstarted]
    /\ made = taken /\ raced = {}
    /\ files = [d \in Names |-> [a \in Artifacts |->
                  IF d \in taken /\ a = "result" THEN [by |-> Earlier, writers |-> {}] ELSE NoFile]]
    /\ record = [d \in Names |-> NoRecord] /\ view = NoView

\* The merge request gets another version.
NewVersion ==
  /\ latest < Len(Diffs) /\ latest' = latest + 1
  /\ UNCHANGED <<run, made, raced, files, record, view>>

(***************************************************************************)
(* Gathering evidence.                                                     *)
(***************************************************************************)
shared == <<latest, made, raced, files, record, view>>

Go(r, c) == run' = [run EXCEPT ![r] = c]

\* A process that is over: what it had not begun to save is forgotten.
Stop(r) ==
  Go(r, IF run[r].at = "save" THEN [run[r] EXCEPT !.at = "failed", !.todo = <<>>]
        ELSE [Unstarted EXCEPT !.at = "failed"])

\* The files that patterns leave in the review.
Reviewed(c) == Among(Diffs[c.version].files, ToSet(Diffs[c.version].files) \ c.excluded)

\* Until a name is looked for nothing is shared but the version of the merge request, which is
\* pinned once: requirements, target, patterns, limits, policy and the snapshot are one step.  Each
\* can refuse the review, and an empty one is refused.  The first diff stands for a local one as well.
Assemble(r, kind) ==
  /\ run[r].at = "start"
  /\ \/ LET version == IF kind = "MR" THEN latest ELSE 1 IN
        \E excluded \in SUBSET ToSet(Diffs[version].files) :
          LET c == [Unstarted EXCEPT !.at = "name", !.kind = kind, !.tried = 1, !.version = version,
                    !.excluded = excluded]
          IN Reviewed(c) # <<>> /\ Go(r, c)
     \/ Stop(r)
  /\ UNCHANGED shared

\* Mutant of NameAfter: the last candidate is used when all are taken.
LastCandidate(r, kind) == <<kind, Limit>>

\* After the candidates, a name that no other run can have.
NameAfter(r, kind) == <<kind, r>>

\* uniqueReviewName: the candidates are looked up one by one.
Look(r) ==
  /\ run[r].at = "name"
  /\ LET candidate == <<run[r].kind, run[r].tried>> IN
     IF candidate \notin made THEN Go(r, [run[r] EXCEPT !.at = "make", !.name = candidate])
     ELSE IF run[r].tried < Limit THEN Go(r, [run[r] EXCEPT !.tried = @ + 1])
     ELSE Go(r, [run[r] EXCEPT !.at = "make", !.tried = 0, !.name = NameAfter(r, run[r].kind)])
  /\ UNCHANGED shared

\* A directory that exists by now is taken all the same.
MakeDirectory(r) ==
  /\ run[r].at = "make"
  /\ LET d == run[r].name IN
     /\ made' = made \union {d}
     /\ raced' = IF d \in made /\ run[r].tried # 0 THEN raced \union {d} ELSE raced
  /\ Go(r, [run[r] EXCEPT !.at = "conclude", !.tried = 0])
  /\ UNCHANGED <<latest, files, record, view>>

(***************************************************************************)
(* The reviewer.                                                           *)
(***************************************************************************)
\* The prompts stand for the files that follow the result and are not read again: the two prompts
\* and the pointer to the snapshot.  The report, which comes last, is left out.
Saved == <<"result", "prompts">>
Placed(c) == IF c.kind = "MR" THEN <<"positions.writing", "positions">> ELSE <<>>

Ending(c) == [c EXCEPT !.at = "save", !.todo = Saved \o Placed(c)]

\* The findings of a local review have no place on a remote, and are not kept apart.
Kept(c, findings) == IF c.kind = "MR" THEN findings ELSE <<>>

\* An answer that does not hold up is kept as it is, and the review has no findings.
Judged(c, output) ==
  LET validated == ValidateFindings(output, Reviewed(c), Diffs[c.version].mirrored, c.name) IN
  IF validated.kind = "ok" THEN Ending([c EXCEPT !.findings = Kept(c, validated.findings)])
  ELSE [Ending(c) EXCEPT !.todo = <<"rejected">> \o @]

\* changed gives some of the artifacts of the run's directory.
Put(r, changed) ==
  files' = [files EXCEPT ![run[r].name] = [a \in Artifacts |-> IF a \in DOMAIN changed THEN changed[a] ELSE @[a]]]
Only(a, file) == [x \in {a} |-> file]
Complete(r) == [by |-> r, writers |-> {}]

\* The composed prompt is measured; one that is too large ends the run, and so does a bundle.
EndBundle(r) == Go(r, [run[r] EXCEPT !.at = "save", !.todo = Saved])

\* A check that waits for an answer ends a review before the reviewer; checks of a merge request never
\* wait, since they run in a container or not at all.
StopForAuthorization(r) == run[r].kind = "local" /\ EndBundle(r)

\* The reviewer runs once it can be isolated and its prompt written, which may fail too.
Invoke(r) ==
  \E isolated \in Isolations, invocation \in Invocations :
    \/ Stop(r)
    \/ /\ isolated
       /\ Go(r, IF invocation.kind = "ok" THEN Judged(run[r], invocation.output) ELSE Ending(run[r]))

\* Checks run and leave their evidence, whatever comes of the run.
Conclude(r, command) ==
  /\ run[r].at = "conclude"
  /\ \/ Stop(r)
     \/ command = "bundle" /\ EndBundle(r)
     \/ command = "review" /\ (StopForAuthorization(r) \/ Invoke(r))
  /\ Put(r, Only("checks", Complete(r)))
  /\ UNCHANGED <<latest, made, raced, record, view>>

(***************************************************************************)
(* Saving: one file after the other.                                       *)
(***************************************************************************)
Result(by, d) ==
  [reviewId |-> d,
   remote |-> IF by = Earlier \/ d[1] = "local" THEN NoRemote ELSE run[by].version,
   findings |-> IF by = Earlier THEN <<>> ELSE run[by].findings]

Positions(by) == DerivePositions(run[by].name, run[by].version, Reviewed(run[by]), run[by].findings)

Writing(r) == {a \in Artifacts : run[r].name # None /\ r \in files[run[r].name][a].writers}

\* The file is emptied; another run may be writing it.
StartWrite(r) ==
  /\ run[r].at = "save" /\ run[r].todo # <<>> /\ run[r].todo[1] \in Reread /\ Writing(r) = {}
  /\ LET a == run[r].todo[1] IN
     Put(r, Only(a, [by |-> Torn, writers |-> files[run[r].name][a].writers \union {r}]))
  /\ UNCHANGED <<latest, run, made, raced, record, view>>

\* What two runs write to one file at once is what either wrote, or neither.
FinishWrite(r) ==
  /\ \E a \in Writing(r) :
       LET file == files[run[r].name][a] IN
       \E by \in IF file = [by |-> Torn, writers |-> {r}] THEN {r} ELSE {r, Torn} :
         Put(r, Only(a, [by |-> by, writers |-> file.writers \ {r}]))
  /\ Go(r, [run[r] EXCEPT !.todo = Tail(@)])
  /\ UNCHANGED <<latest, made, raced, record, view>>

LeaveTorn(r) ==
  Put(r, [a \in Writing(r) |-> [files[run[r].name][a] EXCEPT !.writers = @ \ {r}]])

FailWrite(r) ==
  /\ Writing(r) # {} /\ LeaveTorn(r) /\ Stop(r)
  /\ UNCHANGED <<latest, made, raced, record, view>>

WriteOther(r) ==
  /\ run[r].at = "save" /\ run[r].todo # <<>> /\ run[r].todo[1] \in Artifacts \ (Reread \union {"positions"})
  /\ \/ Put(r, Only(run[r].todo[1], Complete(r))) /\ Go(r, [run[r] EXCEPT !.todo = Tail(@)])
     \/ Stop(r) /\ UNCHANGED files
  /\ UNCHANGED <<latest, made, raced, record, view>>

\* The positions are written under another name and renamed, which fails when another run's rename
\* took the file.
RenamePositions(r) ==
  /\ run[r].at = "save" /\ run[r].todo # <<>> /\ run[r].todo[1] = "positions"
  /\ LET from == files[run[r].name]["positions.writing"] IN
     IF from = NoFile THEN Stop(r) /\ UNCHANGED files
     ELSE /\ Put(r, [a \in {"positions", "positions.writing"} |-> IF a = "positions" THEN from ELSE NoFile])
          /\ Go(r, [run[r] EXCEPT !.todo = Tail(@)])
  /\ UNCHANGED <<latest, made, raced, record, view>>

\* A crash removes nothing.
Crash(r) ==
  /\ run[r].at \notin {"start", "failed"} /\ (run[r].at = "save" => run[r].todo # <<>>) /\ Stop(r)
  /\ IF Writing(r) = {} THEN UNCHANGED files ELSE LeaveTorn(r)
  /\ UNCHANGED <<latest, made, raced, record, view>>

(***************************************************************************)
(* A person opens a saved review: three files, read one after the other.   *)
(***************************************************************************)
unread == <<latest, run, made, raced, files, record>>

ReadResult(d) ==
  /\ view.at = "closed"
  /\ LET by == files[d]["result"].by IN
     /\ by \notin {None, Torn}
     /\ view' = [NoView EXCEPT !.at = "positions", !.name = d, !.result = Result(by, d)]
  /\ UNCHANGED unread

Refuse == view' = NoView

ReadPositions ==
  /\ view.at = "positions"
  /\ LET by == files[view.name]["positions"].by IN
     IF by = Torn THEN Refuse
     ELSE view' = [view EXCEPT !.at = "record", !.positions = IF by = None THEN <<>> ELSE <<Positions(by)>>]
  /\ UNCHANGED unread

\* A record that is not there is an empty one of this review.
Opens(v) ==
  Agree(v.result, v.positions,
        [reviewId |-> v.result.reviewId, drafts |-> v.record.drafts, outcomes |-> v.record.outcomes,
         submitted |-> v.record.submitted])

ReadRecord ==
  /\ view.at = "record"
  /\ LET v == [view EXCEPT !.at = "open", !.record = record[view.name]] IN
     IF Opens(v) THEN view' = v ELSE Refuse
  /\ UNCHANGED unread

\* A comment is published from an open review, at the position the review gives it.
PublishComment ==
  /\ view.at = "open" /\ view.positions # <<>> /\ view.record.submitted < MaxComments
  /\ \E e \in ToSet(view.positions[1].positions) :
       /\ e.id \notin ToSet(Ids(view.record.outcomes))
       /\ LET published == [view.record EXCEPT !.submitted = @ + 1,
                             !.outcomes = Append(@, [id |-> e.id, state |-> "published", digest |-> e.digest])]
          IN record' = [record EXCEPT ![view.name] = published] /\ view' = [view EXCEPT !.record = published]
  /\ UNCHANGED <<latest, run, made, raced, files>>

CloseView == view.at = "open" /\ Refuse /\ UNCHANGED unread

Review(r) ==
  \/ \E kind \in Kinds : Assemble(r, kind)
  \/ Look(r) \/ MakeDirectory(r) \/ (\E command \in Commands : Conclude(r, command))
  \/ StartWrite(r) \/ FinishWrite(r) \/ FailWrite(r) \/ WriteOther(r) \/ RenamePositions(r) \/ Crash(r)

View == (\E d \in Names : ReadResult(d)) \/ ReadPositions \/ ReadRecord \/ PublishComment \/ CloseView

Next == NewVersion \/ View \/ \E r \in Runs : Review(r)
Spec == Init /\ [][Next]_vars

(***************************************************************************)
(* Properties.                                                             *)
(***************************************************************************)
TypeOK ==
  /\ latest \in 1 .. Len(Diffs)
  /\ made \subseteq Names /\ raced \subseteq made
  /\ DOMAIN run = Runs
  /\ \A r \in Runs :
       /\ DOMAIN run[r] = DOMAIN Unstarted
       /\ run[r].name \in Names \union {None} /\ run[r].version \in 0 .. Len(Diffs) /\ run[r].kind \in Kinds
  /\ files \in [Names -> [Artifacts -> [by : Runs \union {None, Earlier, Torn}, writers : SUBSET Runs]]]

\* "It gives up and returns a name carrying the unique id source rather than looping or overwriting
\* somebody's review" (review-name.ts): unless two runs made one directory at once, the files of
\* a directory are those of one run, however many names were taken, and whichever runs failed or
\* died on the way.
OneRunPerDirectory ==
  \A d \in made \ raced :
    LET owners == {files[d][a].by : a \in Artifacts} \union UNION {files[d][a].writers : a \in Artifacts}
    IN \A x, y \in owners \ {None, Torn} : x = y

(* The number a line of a patch has on a side, counted from the last header before it: a line of
   neither side, and anything after the end of a hunk, has none. *)
OnSide(mark, side) == mark \in {" ", IF side = "old" THEN "-" ELSE "+"}
Counted(section, i, side) ==
  LET headers == {h \in 1 .. i - 1 : section[h].mark = "@"}
      h == CHOOSE x \in headers : \A y \in headers : y <= x
      between == {j \in h + 1 .. i - 1 : OnSide(section[j].mark, side)}
  IN IF headers = {} \/ ~ OnSide(section[i].mark, side) \/ (\E j \in h + 1 .. i : section[j].mark = "x") THEN NoLine
     ELSE Cardinality(between) + (IF side = "old" THEN section[h].old ELSE section[h].new)

\* A comment for e sits on the line that finding f is about, in the diff of version v.
Sits(e, f, v) ==
  e.target = v /\ \E file \in ToSet(Diffs[v].files) : \E i \in DOMAIN file.section :
    /\ PathOn(file, f.location.side) = PathOn(f.location, f.location.side)
    /\ Counted(file.section, i, f.location.side) = f.location.line
    /\ e.position.oldLine = Counted(file.section, i, "old")
    /\ e.position.newLine = Counted(file.section, i, "new")

\* A review that opens can be published from: each of its positions is for one of its findings, in
\* the version of the merge request it is of, on the very line of the patch the finding names, and
\* a comment already recorded as published was put there.  This holds for whatever files the
\* directory holds by then: those of a run that died half way, or a mixture of two runs
\* that shared the directory, read while they were being written.
OpenedReviewHolds ==
  (view.at = "open" /\ view.positions # <<>>) =>
    \A e \in ToSet(view.positions[1].positions) :
      /\ \E f \in ToSet(view.result.findings) : e.id = f.id /\ Sits(e, f, view.result.remote)
      /\ \A o \in ToSet(view.record.outcomes) : o.id = e.id => o.digest = e.digest
====

---- MODULE MergeRequest ----
(***************************************************************************)
(* A merge request as GitLab keeps it, and what the GitLab provider says   *)
(* of it (src/src/providers/gitlab/provider.ts and api.ts).                *)
(*                                                                         *)
(* GitLab answers one request at a time and goes on changing between two   *)
(* of them: pushes arrive, versions of the diff are collected some time    *)
(* after the push they describe, discussions are opened, the request is    *)
(* closed and reopened.  One provider operation is several requests: the   *)
(* model makes each request a step, so that everything GitLab can do       *)
(* between two requests of one operation happens.                          *)
(*                                                                         *)
(* Abstracted: which field of a payload failed validation, and messages.   *)
(* A request fails "before-send" (glab never started) or "uncertain"       *)
(* (everything else); a commit is a model value, compared in full, which   *)
(* is what sameSha does for spellings of seven characters or more.         *)
(***************************************************************************)
EXTENDS Integers, Sequences, SequencesExt, Functions

CONSTANTS
  Heads,           \* commits that may become the head of the source branch
  Threads,         \* discussions that may be opened
  PageSize,        \* items GitLab delivers per page (PAGE_SIZE)
  MaxDiscussions,  \* the ceiling a listing is given (MAX_REVIEWED_DISCUSSIONS)
  MaxPushes,       \* bound: pushes in a behaviour
  MaxFaults        \* bound: failed requests in a behaviour

ASSUME SizesAssumption ==
  /\ PageSize \in Nat \ {0} /\ MaxDiscussions \in Nat \ {0}
  /\ MaxPushes \in Nat /\ MaxFaults \in Nat

VARIABLES
  mr,         \* GitLab: [state, sha, refs]; refs is diff_refs.head_sha
  versions,   \* GitLab: collected versions [id, head, based], newest first
  threads,    \* GitLab: discussions, in the order they are listed
  pending,    \* GitLab: a push has not been collected yet
  pushes, faults,
  target,     \* the pinned target [head, version], or Unpinned
  call,       \* the operation under way, or Idle
  answer,     \* what the last operation returned
  seen        \* what was so while it ran: heads the request was open at,
              \* newest versions, the threads that were there throughout,
              \* whether a discussion was deleted, and whether an answer that
              \* was used left the head out

service == <<mr, versions, threads, pending, pushes>>
vars == <<mr, versions, threads, pending, pushes, faults, target, call, answer, seen>>

None == "none"
Unpinned == [head |-> None, version |-> 0]
Idle == [op |-> "idle"]
Unseen == [heads |-> {}, newest |-> {}, threads |-> {}, deleted |-> FALSE, unnamed |-> FALSE]

Newest(vs) == IF vs = <<>> THEN 0 ELSE vs[1].id
OpenHeads(m) == IF m.state = "opened" THEN {m.sha} ELSE {}
Now == [heads |-> OpenHeads(mr), newest |-> {Newest(versions)}, threads |-> ToSet(threads),
        deleted |-> FALSE, unnamed |-> FALSE]

\* A merge request whose first push has not been collected yet.
Init ==
  \E h \in Heads :
    /\ mr = [state |-> "opened", sha |-> h, refs |-> None]
    /\ versions = <<>> /\ threads = <<>> /\ pending = TRUE /\ pushes = 0 /\ faults = 0
    /\ target = Unpinned /\ call = Idle /\ answer = Idle
    /\ seen = Unseen

(***************************************************************************)
(* GitLab.                                                                 *)
(***************************************************************************)
\* What a running operation may have seen of a change.  Between operations nothing is remembered:
\* an answer speaks of the merge request until that changes again.
Passes ==
  /\ IF call = Idle
     THEN seen' = Unseen /\ answer' = Idle
     ELSE /\ seen' = [heads |-> seen.heads \union OpenHeads(mr'),
                     newest |-> seen.newest \union {Newest(versions')},
                     threads |-> seen.threads \cap ToSet(threads'),
                     deleted |-> seen.deleted \/ Len(threads') < Len(threads),
                     unnamed |-> seen.unnamed]
          /\ UNCHANGED answer
  /\ UNCHANGED <<faults, target, call>>

\* A push moves the branch; its diff is collected later.
Push(h) ==
  /\ mr.state = "opened" /\ pushes < MaxPushes /\ h # mr.sha
  /\ mr' = [mr EXCEPT !.sha = h] /\ pending' = TRUE /\ pushes' = pushes + 1
  /\ UNCHANGED <<versions, threads>> /\ Passes

\* GitLab collects the diff of the head; a version may lack its base and start commits.
CollectVersion(based) ==
  /\ pending /\ pending' = FALSE
  /\ versions' = <<[id |-> Len(versions) + 1, head |-> mr.sha, based |-> based]>> \o versions
  /\ UNCHANGED <<mr, threads, pushes>> /\ Passes

\* diff_refs follow the head on their own time.
PublishRefs ==
  /\ mr.refs # mr.sha /\ mr' = [mr EXCEPT !.refs = mr.sha]
  /\ UNCHANGED <<versions, threads, pending, pushes>> /\ Passes

CloseOrReopen ==
  /\ mr' = [mr EXCEPT !.state = IF mr.state = "opened" THEN "closed" ELSE "opened"]
  /\ UNCHANGED <<versions, threads, pending, pushes>> /\ Passes

OpenThread(t) ==
  /\ t \notin ToSet(threads) /\ threads' = Append(threads, t)
  /\ UNCHANGED <<mr, versions, pending, pushes>> /\ Passes

DeleteThread ==
  /\ \E i \in DOMAIN threads : threads' = RemoveAt(threads, i)
  /\ UNCHANGED <<mr, versions, pending, pushes>> /\ Passes

(***************************************************************************)
(* One request, and a collection read page by page.                        *)
(***************************************************************************)
\* A request that fails: a read's failure is the same to its caller whatever the cause.
RequestFails == faults < MaxFaults /\ faults' = faults + 1

Reading == [page |-> 1, items |-> <<>>, status |-> "reading", capped |-> FALSE]

PageOf(list, p) ==
  SubSeq(list, (p - 1) * PageSize + 1, IF p * PageSize < Len(list) THEN p * PageSize ELSE Len(list))

\* The ceiling is applied before a short page ends the collection; a full page asks for the next.
AfterPage(c, got, ceiling) ==
  LET all == c.items \o got IN
  IF Len(all) > ceiling
  THEN [c EXCEPT !.items = SubSeq(all, 1, ceiling), !.status = "ended", !.capped = TRUE]
  ELSE IF Len(got) < PageSize THEN [c EXCEPT !.items = all, !.status = "ended"]
  ELSE [c EXCEPT !.items = all, !.page = @ + 1]

\* Mutant of AfterFailure: what was read before the failure is taken for the collection.
AfterFailureKept(c) == [c EXCEPT !.status = "ended"]

\* A failure on any page fails the whole collection: no prefix is kept.
AfterFailure(c) == [c EXCEPT !.items = <<>>, !.status = "failed"]

NoCeiling == MaxPushes + 2     \* more than the versions there can be

(***************************************************************************)
(* The operations.                                                         *)
(***************************************************************************)
Begin(c) ==
  /\ call = Idle /\ call' = c /\ answer' = Idle /\ seen' = Now
  /\ UNCHANGED <<mr, versions, threads, pending, pushes, faults, target>>

Continue(c) ==
  /\ call' = c /\ UNCHANGED <<mr, versions, threads, pending, pushes, target, answer, seen>>

Return(a) ==
  /\ call' = Idle /\ answer' = a
  /\ UNCHANGED <<mr, versions, threads, pending, pushes, seen>>

\* resolveTarget: the project, then the merge request and the versions side by side.
Resolve == target = Unpinned /\ Begin([op |-> "resolve", at |-> "project", mr |-> "unread", coll |-> Reading])

Unresolved == [op |-> "resolve", kind |-> "failed"]

ReadProject ==
  /\ call.op = "resolve" /\ call.at = "project"
  /\ \/ Continue([call EXCEPT !.at = "both"]) /\ UNCHANGED faults
     \/ RequestFails /\ Return(Unresolved) /\ UNCHANGED target

ReadForResolve ==
  /\ call.op = "resolve" /\ call.at = "both" /\ call.mr = "unread"
  /\ \/ Continue([call EXCEPT !.mr = "read"]) /\ UNCHANGED faults
     \/ RequestFails /\ Continue([call EXCEPT !.mr = "failed"])

CollectForResolve ==
  /\ call.op = "resolve" /\ call.at = "both" /\ call.coll.status = "reading"
  /\ \/ /\ Continue([call EXCEPT !.coll = AfterPage(@, PageOf(versions, @.page), NoCeiling)])
        /\ UNCHANGED faults
     \/ RequestFails /\ Continue([call EXCEPT !.coll = AfterFailure(@)])

\* The newest collected version is what the review pins to; without its base it pins nothing.
Pinnable(items) == items # <<>> /\ items[1].based

PinTarget ==
  /\ call.op = "resolve" /\ call.mr # "unread" /\ call.coll.status # "reading"
  /\ IF call.mr = "read" /\ call.coll.status = "ended" /\ Pinnable(call.coll.items)
     THEN LET selected == call.coll.items[1] IN
          /\ target' = [head |-> selected.head, version |-> selected.id]
          /\ Return([op |-> "resolve", kind |-> "pinned"])
     ELSE UNCHANGED target /\ Return(Unresolved)
  /\ UNCHANGED faults

\* getCurrentRevision: the merge request first, the versions after it.
AskRevision == target # Unpinned /\ Begin([op |-> "revision", head |-> None, coll |-> Reading])

Revision(state) == [op |-> "revision", state |-> state]

\* An answer that leaves the head out: that of its diff refs is taken for it.
ContinueUnnamed ==
  /\ call' = [call EXCEPT !.head = mr.refs] /\ seen' = [seen EXCEPT !.unnamed = TRUE]
  /\ UNCHANGED <<mr, versions, threads, pending, pushes, target, answer>>

ReadForRevision ==
  /\ call.op = "revision" /\ call.head = None
  /\ \/ RequestFails /\ Return(Revision("unavailable")) /\ UNCHANGED target
     \/ /\ UNCHANGED faults
        /\ IF mr.state # "opened" THEN Return(Revision("unavailable")) /\ UNCHANGED target
           ELSE \/ mr.refs # mr.sha /\ Return(Revision("collecting")) /\ UNCHANGED target
                \/ mr.refs = mr.sha /\ Continue([call EXCEPT !.head = mr.sha])
                \/ mr.refs # None /\ ContinueUnnamed

\* Mutant of Judged: the pinned version is recognised by its head alone.
JudgedByHead(items, head) ==
  IF items = <<>> \/ items[1].head # head THEN "collecting"
  ELSE IF head # target.head THEN "stale"
  ELSE "current"

\* What the newest collected version says of the head that was read before it.
Judged(items, head) ==
  IF items = <<>> \/ items[1].head # head THEN "collecting"
  ELSE IF head # target.head \/ items[1].id # target.version THEN "stale"
  ELSE "current"

CollectForRevision ==
  /\ call.op = "revision" /\ call.head # None
  /\ \/ RequestFails /\ Return(Revision("unavailable")) /\ UNCHANGED target
     \/ /\ UNCHANGED faults
        /\ LET c == AfterPage(call.coll, PageOf(versions, call.coll.page), NoCeiling) IN
           IF c.status = "reading" THEN Continue([call EXCEPT !.coll = c])
           ELSE Return(Revision(Judged(c.items, call.head))) /\ UNCHANGED target

\* listDiscussions: the discussions up to the ceiling, and whether that is all of them.
AskDiscussions == target # Unpinned /\ Begin([op |-> "listing", coll |-> Reading])

Listing(c) ==
  IF c.status = "failed" THEN [op |-> "listing", kind |-> "failed"]
  ELSE [op |-> "listing", kind |-> "listed", items |-> c.items, complete |-> ~ c.capped]

CollectDiscussions ==
  /\ call.op = "listing"
  /\ \/ /\ UNCHANGED faults
        /\ LET c == AfterPage(call.coll, PageOf(threads, call.coll.page), MaxDiscussions) IN
           IF c.status = "reading" THEN Continue([call EXCEPT !.coll = c])
           ELSE Return(Listing(c)) /\ UNCHANGED target
     \/ RequestFails /\ Return(Listing(AfterFailure(call.coll))) /\ UNCHANGED target

\* publishComment: the request that is not repeatable.  Only a glab that never started proves
\* that nothing was sent; a lost, cut or invalid answer, or one without a note, is uncertain.
AskComment(t) ==
  target # Unpinned /\ t \notin ToSet(threads) /\ Begin([op |-> "post", thread |-> t])

Posted(kind) == [op |-> "post", thread |-> call.thread, kind |-> kind]

NotStarted == call.op = "post" /\ RequestFails /\ Return(Posted("before-send")) /\ UNCHANGED target

Arrives == IF call.thread \in ToSet(threads) THEN threads ELSE Append(threads, call.thread)

Create ==
  /\ call.op = "post" /\ threads' = Arrives
  /\ call' = Idle
  /\ \/ answer' = Posted("created") /\ UNCHANGED faults
     \/ answer' = Posted("uncertain") /\ RequestFails
  /\ UNCHANGED <<mr, versions, pending, pushes, target, seen>>

Refuse == call.op = "post" /\ RequestFails /\ Return(Posted("uncertain")) /\ UNCHANGED target

Service ==
  \/ \E h \in Heads : Push(h)
  \/ \E based \in BOOLEAN : CollectVersion(based)
  \/ PublishRefs \/ CloseOrReopen
  \/ (\E t \in Threads : OpenThread(t)) \/ DeleteThread

Provider ==
  \/ Resolve \/ ReadProject \/ ReadForResolve \/ CollectForResolve \/ PinTarget
  \/ AskRevision \/ ReadForRevision \/ CollectForRevision
  \/ AskDiscussions \/ CollectDiscussions
  \/ (\E t \in Threads : AskComment(t)) \/ NotStarted \/ Create \/ Refuse

Next == Service \/ Provider
Spec == Init /\ [][Next]_vars

(***************************************************************************)
(* Properties.                                                             *)
(***************************************************************************)
Versions == [id : 1 .. MaxPushes + 1, head : Heads, based : BOOLEAN]
Collections(S) ==
  [page : Nat \ {0}, items : Seq(S), status : {"reading", "ended", "failed"}, capped : BOOLEAN]

TypeOK ==
  /\ mr \in [state : {"opened", "closed"}, sha : Heads, refs : Heads \union {None}]
  /\ versions \in Seq(Versions) /\ threads \in Seq(Threads) /\ pending \in BOOLEAN
  /\ pushes \in 0 .. MaxPushes /\ faults \in 0 .. MaxFaults
  /\ target \in [head : Heads \union {None}, version : 0 .. MaxPushes + 1]
  /\ seen \in [heads : SUBSET Heads, newest : SUBSET (0 .. MaxPushes + 1), threads : SUBSET Threads,
               deleted : BOOLEAN, unnamed : BOOLEAN]
  /\ \/ call = Idle
     \/ call \in [op : {"resolve"}, at : {"project", "both"}, mr : {"unread", "read", "failed"},
                  coll : Collections(Versions)]
     \/ call \in [op : {"revision"}, head : Heads \union {None}, coll : Collections(Versions)]
     \/ call \in [op : {"listing"}, coll : Collections(Threads)]
     \/ call \in [op : {"post"}, thread : Threads]

\* A revision is called current only if the merge request, while it was being asked about, was open
\* at the pinned head and the pinned version was the newest one collected: neither a push and
\* a push back, nor a push whose diff is not collected yet, makes an old version current.  What
\* a review is pinned to was likewise the newest version while it was being resolved.  Where
\* GitLab's answer names no head, the head of its diff refs is all there is, and only the
\* version is vouched for.
RevisionHeld ==
  /\ answer = Revision("current") =>
       (target.head \in seen.heads \/ seen.unnamed) /\ target.version \in seen.newest
  /\ (answer.op = "resolve" /\ answer.kind = "pinned") => target.version \in seen.newest

\* A listing that is called complete holds every discussion that existed as long as it was being
\* read, each once, and never more of them than the ceiling it was given.  Deleting a discussion
\* while the pages are read moves the others up, and one may then fall between two pages: the
\* provider has no way to notice, so that case is left out.
ListingIsWhole ==
  (answer.op = "listing" /\ answer.kind = "listed" /\ ~ seen.deleted) =>
    /\ Len(answer.items) <= MaxDiscussions /\ IsInjective(answer.items)
    /\ answer.complete => seen.threads \subseteq ToSet(answer.items)

====

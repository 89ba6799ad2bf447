---- MODULE ReviewEvidence ----
(***************************************************************************)
(* How a review gets its evidence, from the request to the prompt: the     *)
(* requirements it is judged against, the diff of a merge request's pinned *)
(* version or of a local revision, what of it is reviewed and under which  *)
(* policies, the content primed in batches and read path by path from a    *)
(* server that fails, leaves files out and cuts pages short, the plan of   *)
(* the mirrored tree, and the last measurement                             *)
(* (src/src/snapshot/remote-target.ts, src/src/review/bundle.ts).          *)
(***************************************************************************)
EXTENDS SnapshotPlan, Requirements, Policies, TLC

CONSTANTS
  RequestSet,       \* what reviews are asked for
  BatchPaths        \* MAX_BLOB_BATCH_PATHS

ASSUME ReviewEvidenceAssumption == BatchPaths \in Nat \ {0}

(***************************************************************************)
(* A request is [remote, changes, blobs, pathKnown, operator, limits,      *)
(* urls, supplied, server, projects]; a change is an entry of a diff with  *)
(* the body it really has and whether the target branch already holds it;  *)
(* blobs is the content of every path; a project is [packs, commands,      *)
(* owns], and the paths it owns are those whose closest project it is.     *)
(***************************************************************************)
Changes ==
  [oldPath : DOMAIN Traits, newPath : DOMAIN Traits, newFile : BOOLEAN, deletedFile : BOOLEAN, renamed : BOOLEAN,
   generated : BOOLEAN, aMode : STRING, bMode : STRING, tooLarge : {FALSE}, collapsed : {FALSE},
   body : {"text", "binary", "empty"}, onTarget : BOOLEAN]
Options == [exclude : SUBSET DOMAIN Traits, only : SUBSET DOMAIN Traits, noTests : BOOLEAN]
Limits == [maxChangedFiles : Nat, maxContextBytes : Nat]
Blobs == [kind : {"text", "legacy", "binary", "disputed", "gone"}, size : Nat]

\* A change that is not a rename, of a mode or a link, or generated has a body.
Plain(change) == ~ (change.renamed \/ ModeOnly(change) \/ Symlink(change) \/ change.generated)

\* What a session supplies.
Supplied == [kind : {"none", "unreadable", "envelope"}, server : STRING, conflicts : BOOLEAN,
             sources : Seq([id : STRING, url : DOMAIN Canonical, status : STRING, content : STRING])]

Projects ==
  [packs : Seq([reference : STRING, origin : {"builtin", "project"}, id : STRING, replaces : STRING,
                activities : SUBSET STRING, appliesTo : SUBSET DOMAIN Traits, defects : SUBSET STRING,
                decisions : Seq([command : STRING, action : Actions])]),
   commands : SUBSET STRING, owns : SUBSET DOMAIN Traits]

\* No change adds and deletes at once or lacks the body it should have, and a path is the new name of one;
\* an empty file is UTF-8 and not binary.
ASSUME RequestsAssumption ==
  \A r \in RequestSet :
    /\ r.remote \in BOOLEAN /\ r.changes \in Seq(Changes) /\ r.blobs \in [DOMAIN Traits -> Blobs]
    /\ \A c \in ToSet(r.changes) : ~ (c.newFile /\ c.deletedFile) /\ (c.body = "empty" => ~ Plain(c))
    /\ \A i, j \in DOMAIN r.changes :
         r.changes[i].newPath = r.changes[j].newPath /\ ~ r.changes[i].deletedFile /\ ~ r.changes[j].deletedFile => i = j
    /\ r.operator \in Options /\ r.limits \in Limits
    /\ \A p \in DOMAIN r.blobs : r.blobs[p].size = 0 => r.blobs[p].kind \in {"text", "gone"}
    /\ r.urls \in Seq(DOMAIN Canonical \union {Blank}) /\ r.supplied \in Supplied
    /\ \A id \in DOMAIN r.projects : r.projects[id] \in Projects

VARIABLES
  pc,
  request,
  requirements, \* what normalizeRequirements answered
  policies,     \* per project that owns a reviewed change: its policy
  delivered,    \* the changes that came whole
  evidence,     \* what fetchSnapshot answered, or the diff of a local target
  wanted,       \* paths still to be primed
  cache,        \* RemoteContent.files, or the content of the local revision
  unanswered,   \* paths whose own read failed
  plan,
  prompt        \* bytes of the composed prompt, 0 before it is

evidence_vars == <<pc, request, requirements, policies, delivered, evidence, wanted, cache, unanswered, plan, prompt>>

Target == [start |-> "start", head |-> "head"]
NoCache == [p \in {} |-> Nothing]

EvidenceInit ==
  /\ pc = "asked" /\ request \in RequestSet
  /\ requirements = SourceFree /\ policies = [id \in {} |-> NoDecisions]
  /\ delivered = {} /\ evidence = Failed /\ wanted = <<>> /\ cache = NoCache
  /\ unanswered = {} /\ plan = Empty /\ prompt = 0

\* Requirements come first: one that is missing or contradictory costs nothing.
GatherRequirements ==
  /\ pc = "asked"
  /\ requirements' = NormalizeRequirements(request.urls, request.supplied, request.server)
  /\ pc' = IF requirements'.mode = "refused" THEN "not judgeable" ELSE "gathered"
  /\ UNCHANGED <<request, policies, delivered, evidence, wanted, cache, unanswered, plan, prompt>>

(***************************************************************************)
(* What GitLab sends of a version.  A change that is left out is declared  *)
(* by the version's state or its size; a body that is held back is marked, *)
(* or is of a change that cannot be without one.                           *)
(***************************************************************************)
Sent(change, how) ==
  [change EXCEPT !.body = IF how = "whole" THEN @ ELSE "empty",
                 !.tooLarge = how = "too large", !.collapsed = how = "collapsed"]

Ways(change) == {"whole", "collapsed", "too large", "left out"} \union (IF Plain(change) THEN {"bare"} ELSE {})

Versions(changes, how, head) ==
  LET sent == Among([i \in DOMAIN changes |-> i], {i \in DOMAIN changes : how[i] # "left out"})
      diffs == [i \in DOMAIN sent |-> Sent(changes[sent[i]], how[sent[i]])]
      told == IF Len(sent) = Len(changes) THEN {<<"collected", Len(sent)>>, <<"collected", NoSize>>}
              ELSE {<<"overflow", NoSize>>, <<"collected", Len(changes)>>}
  IN {[head |-> head, state |-> t[1], realSize |-> t[2], diffs |-> diffs] : t \in told}

StillDiffers == UNION {{c.oldPath, c.newPath} : c \in {d \in ToSet(request.changes) : ~ d.onTarget}}

ResolveMergeRequest ==
  /\ pc = "gathered" /\ request.remote
  /\ \E how \in [DOMAIN request.changes -> UNION {Ways(c) : c \in ToSet(request.changes)}] :
     \E compare \in {[kind |-> "ok", paths |-> StillDiffers], [kind |-> "timeout", paths |-> {}]} :
     \E head \in {Target.head, "moved"} : \E version \in Versions(request.changes, how, head) :
       /\ \A i \in DOMAIN how : how[i] \in Ways(request.changes[i])
       /\ delivered' = {i \in DOMAIN how : how[i] = "whole"}
       /\ evidence' = FetchSnapshot(Target, version, compare)
       /\ pc' = IF evidence'.kind = "ok" THEN "resolved" ELSE "failed"
  /\ UNCHANGED <<request, requirements, policies, wanted, cache, unanswered, plan, prompt>>

\* Content at a committed revision: git's text, measured after it is decoded.
RevisionContent(blob) ==
  CASE blob.kind = "gone" -> Nothing
    [] blob.kind # "gone" /\ DecodedSize(blob) > MaxFileBytes -> TooLarge(DecodedSize(blob))
    [] OTHER -> IF IsBinaryContent(blob) THEN Binary ELSE Text(DecodedSize(blob))

ResolveLocal ==
  /\ pc = "gathered" /\ ~ request.remote
  /\ evidence' = [Failed EXCEPT !.kind = "ok", !.complete = TRUE,
                                !.files = [i \in DOMAIN request.changes |-> ToFetchedFile(request.changes[i])]]
  /\ cache' = [p \in DOMAIN request.blobs |-> RevisionContent(request.blobs[p])]
  /\ delivered' = DOMAIN request.changes
  /\ pc' = "resolved"
  /\ UNCHANGED <<request, requirements, policies, wanted, unanswered, plan, prompt>>

(***************************************************************************)
(* assembleBundle: the cheap counts, the plan, the last measurement.       *)
(***************************************************************************)
\* Tests are left out of the review of a merge request.
Operator == [request.operator EXCEPT !.noTests = @ \/ request.remote]
Files == Reviewable(evidence.files, Operator)

Select ==
  /\ pc = "resolved"
  /\ pc' = IF Files = <<>> \/ ~ WithinLimits(Files, 0, 0, request.limits) THEN "refused" ELSE "selected"
  /\ UNCHANGED <<request, requirements, policies, delivered, evidence, wanted, cache, unanswered, plan, prompt>>

\* A file's project is that of its new name, or of the one it had; a file of no project has no policy.
Touched(id) == {Named(f) : f \in ToSet(Files)} \cap request.projects[id].owns

\* Policy is resolved and the prompt estimated before the planner starts to read.
ResolvePolicies ==
  /\ pc = "selected" /\ pc' = "reading"
  /\ policies' = [id \in {p \in DOMAIN request.projects : Touched(p) # {}} |->
                    ResolvePolicy("review", LoadPacks(request.projects[id]), Touched(id), Touched(id))]
  /\ wanted' = IF request.remote /\ request.pathKnown
               THEN SetToSeq({p \in Needed(Files) : Primable(p, cache, evidence.symlinks)}) ELSE <<>>
  /\ UNCHANGED <<request, requirements, delivered, evidence, cache, unanswered, plan, prompt>>

\* Batches go one after another, and one that fails does not stop the next.
Prime ==
  /\ pc = "reading" /\ wanted # <<>>
  /\ LET asked == ToSet(FirstUpTo(BatchPaths, wanted))
         held == {p \in asked : request.blobs[p].kind # "gone"} IN
     \E kind \in {"ok", "failed"}, some \in SUBSET held : \E texts \in SUBSET some :
       cache' = PrimeBatch(cache, asked, [kind |-> kind, hasNextPage |-> some # held,
                                          nodes |-> {Node(p, request.blobs[p], p \in texts) : p \in some}])
  /\ wanted' = SubSeq(wanted, BatchPaths + 1, Len(wanted))
  /\ UNCHANGED <<pc, request, requirements, policies, delivered, evidence, unanswered, plan, prompt>>

\* The reads of a batch run at once, so that they end in any order.
Read ==
  /\ pc = "reading" /\ wanted = <<>>
  /\ \E p \in Needed(Files) \ DOMAIN cache, answered \in BOOLEAN :
       /\ cache' = [q \in DOMAIN cache \union {p} |->
                      IF q = p THEN Fetch(p, evidence.symlinks, request.blobs[p], answered) ELSE cache[q]]
       /\ unanswered' = IF answered THEN unanswered ELSE unanswered \union {p}
  /\ UNCHANGED <<pc, request, requirements, policies, delivered, evidence, wanted, plan, prompt>>

\* What a directory of the revision lists, in one order.
Listing == [d \in Range(DirectoryOf) |->
              SetToSeq({p \in DOMAIN DirectoryOf : DirectoryOf[p] = d /\ request.blobs[p].kind # "gone"})]

Plan ==
  /\ pc = "reading" /\ wanted = <<>> /\ Needed(Files) \subseteq DOMAIN cache
  /\ plan' = PlanSnapshot(Files, cache, Listing, ~ request.remote, Operator, ContextBudget(Files, request.limits))
  /\ pc' = IF plan'.refused THEN "refused" ELSE "planned"
  /\ UNCHANGED <<request, requirements, policies, delivered, evidence, wanted, cache, unanswered, prompt>>

\* The prompt carries the patch, the checks and the omissions; the estimate reserves room for the last two.
Compose ==
  /\ pc = "planned"
  /\ \E rest \in 0 .. Reserve + 1 : prompt' = PatchBytes(Files) + rest
  /\ pc' = IF WithinLimits(Files, prompt', plan.totalBytes, request.limits) THEN "composed" ELSE "too large"
  /\ UNCHANGED <<request, requirements, policies, delivered, evidence, wanted, cache, unanswered, plan>>

EvidenceNext ==
  \/ GatherRequirements \/ ResolveMergeRequest \/ ResolveLocal \/ Select \/ ResolvePolicies
  \/ Prime \/ Read \/ Plan \/ Compose

EvidenceSpec == EvidenceInit /\ [][EvidenceNext]_evidence_vars

----------------------------------------------------------------------------
(***************************************************************************)
(* Properties.                                                             *)
(***************************************************************************)
\* The evidence is of known kind, and only requested paths are cached or mirrored.
EvidenceTypeOK ==
  /\ pc \in {"asked", "not judgeable", "gathered", "failed", "resolved", "refused", "selected", "reading", "planned", "composed", "too large"}
  /\ DOMAIN cache \subseteq DOMAIN request.blobs
  /\ unanswered \subseteq DOMAIN cache /\ prompt \in Nat

\* The URLs the operator wrote, and what makes the documents supplied an answer to them.
WrittenUrls == {u \in ToSet(request.urls) : u # Blank}
Answered ==
  LET places == {i \in DOMAIN request.urls : request.urls[i] # Blank}
      sources == request.supplied.sources
  IN /\ WrittenUrls \subseteq Retrievable
     /\ request.supplied.kind = "envelope" /\ ~ request.supplied.conflicts
     /\ request.server \in {NoServer, request.supplied.server}
     /\ \E match \in Bijection(places, DOMAIN sources) :
          \A i \in places, j \in DOMAIN sources :
            SameUrl(request.urls[i], sources[j].url) <=> j = match[i]
     /\ \A s \in ToSet(sources) : s.status = "retrieved" /\ s.content # Blank
     /\ \A i, j \in DOMAIN sources : sources[i].id = sources[j].id => i = j

\* A review is judged against exactly what it was asked to be judged against: it goes on when each URL the
\* operator wrote names a document of its own, and the session supplied that document and nothing else, once,
\* retrieved, with content, under one id, from the server it is bound to, without a contradiction; it
\* goes on without requirements only if none were written or supplied; else it stops
\* (normalizeRequirements: none of its failures "degrades into a quality review").
JudgedAgainstWhatWasAsked ==
  pc # "asked" =>
    /\ requirements.mode = "requirement-based" <=> WrittenUrls # {} /\ Answered
    /\ requirements.mode = "source-free" <=>
         WrittenUrls = {} /\ request.supplied.sources = <<>> /\ request.supplied.kind # "unreadable"
    /\ requirements.sources =
         IF requirements.mode = "requirement-based" THEN ToSet(request.supplied.sources) ELSE {}
    /\ pc = "not judgeable" <=> requirements.mode = "refused"

\* What the packs say of a change: those that concern it and that no pack of the project stands for.
Concerns(p, paths) == "review" \in p.activities /\ p.appliesTo \cap paths # {}
Replaced(p, packs) == p.origin = "builtin" /\ \E q \in packs : q.origin = "project" /\ q.replaces = p.reference
SaidOf(command, packs) == UNION {{d.action : d \in {e \in ToSet(p.decisions) : e.command = command}} : p \in packs}

\* Whatever order packs are enabled in: unless an error is reported, the decision on a command is the
\* strictest of all that the packs which concern the change make, a pack of the program counting when no pack
\* of the project stands for it; and an error in the content of a pack that does not concern the change
\* is not reported as one ("Sorting is presentation, never precedence", resolve.ts).
PolicyIsWhatPacksSay ==
  \A id \in DOMAIN policies :
    LET enabled == ToSet(request.projects[id].packs)
        counting == {p \in enabled : Concerns(p, Touched(id)) /\ ~ Replaced(p, enabled)}
        errors == {d \in policies[id].diagnostics : d.severity = "error"}
    IN /\ errors = {} =>
            \A c \in request.projects[id].commands :
              LET said == SaidOf(c, counting) IN
              DecisionFor(policies[id], c) =
                IF said = {} THEN "undeclared" ELSE CHOOSE a \in said : \A b \in said : Precedence[a] >= Precedence[b]
       /\ \A e \in errors : e.code \in PackScoped =>
            \E p \in enabled :
              p.reference = e.where /\ (Concerns(p, Touched(id)) \/ p \notin ToSet(LoadPacks(request.projects[id]).packs))

\* The coverage recorded for a merge request is true both ways: it is complete exactly when GitLab sent
\* every change with its whole body, so that leaving out what the target branch already holds never reads
\* as GitLab withholding it; and of a complete one every change that merging would make is in the evidence,
\* whole (fetchSnapshot, assessCoverage).
CoverageIsTrue ==
  request.remote /\ evidence.kind = "ok" =>
    LET changes == request.changes IN
    /\ evidence.complete <=> delivered = DOMAIN changes /\ changes # <<>>
    /\ evidence.complete => \A i \in DOMAIN changes :
         changes[i].onTarget \/ ToFetchedFile(changes[i]) \in ToSet(evidence.files)

\* A file that is UTF-8 and binary to isBinaryContent, which a batch cannot ask: if GitLab takes it for text,
\* its text is held.
AsServed(path, symlinks, blob, answered) ==
  IF blob.kind = "disputed" /\ path \notin symlinks /\ answered /\ blob.size <= MaxFileBytes
  THEN {Text(blob.size)} ELSE {}

\* Whatever GitLab takes for text, and whatever was primed, cut short or read alone: the content held for a
\* path is what reading that path alone gives, or its own read failed; except that a file of UTF-8 that
\* isBinaryContent calls binary may be held as its own text, whole.  Never is a text held that is not
\* the file's, a link followed or a ceiling passed (RemoteContent.prime, primeBatch, read, fetch).
PrimedReadsAgree ==
  request.remote => \A p \in DOMAIN cache :
    LET answered == p \notin unanswered IN
    \/ cache[p] = Fetch(p, evidence.symlinks, request.blobs[p], answered)
    \/ cache[p] \in AsServed(p, evidence.symlinks, request.blobs[p], answered)

\* A claim the code does not keep (provider.ts:698, "only be faster, never a different answer"): the length of
\* the text tells nothing of a file that GitLab takes for text and isBinaryContent for binary.
PrimedIsNeverAnother ==
  request.remote => \A p \in DOMAIN cache :
    cache[p] = Fetch(p, evidence.symlinks, request.blobs[p], p \notin unanswered)

\* Every change under review is mirrored whole, named as omitted, or deleted; every other is kept out
\* by a pattern, already on the target branch, or declared as not delivered.
EveryFileAccounted ==
  \A c \in ToSet(request.changes) :
    LET file == ToFetchedFile(c) IN
    \/ file.newPath = Nowhere
    \/ file.newPath \in plan.omitted
    \/ [path |-> file.newPath, bytes |-> DecodedSize(request.blobs[file.newPath])] \in ToSet(plan.entries)
    \/ ExcludedFromReview(file, Operator)
    \/ c.onTarget /\ evidence.narrowed
    \/ ~ evidence.complete /\ \A f \in ToSet(evidence.files) : f.newPath # file.newPath

\* No file kept out by the name it has comes back as a neighbour of a change.
NothingComesBack ==
  \A e \in ToSet(plan.entries) : ~ PathExcluded(e.path, Operator)

\* A claim the code does not keep (snapshot.ts:154): a file the run did not select, or one renamed out of
\* an excluded directory, does come back, since neighbours are judged by the name they have.
NothingKeptOutComesBack ==
  pc \in {"planned", "composed"} =>
    {e.path : e \in ToSet(plan.entries)} \cap {f.newPath : f \in KeptOut(evidence.files, Operator)} = {}

\* Context is what the limits leave over: when the last measurement refuses, it would without context,
\* or the prompt outgrew its estimate.
ContextIsFree ==
  pc = "too large" =>
    prompt > PromptOverhead(Files) \/ ~ WithinLimits(Files, prompt, plan.changedBytes, request.limits)

BytesOf(entries) ==
  LET upTo[n \in 0 .. Len(entries)] == IF n = 0 THEN 0 ELSE upTo[n - 1] + entries[n].bytes IN upTo[Len(entries)]

\* A plan is the whole change or none of it: a file that is too large, unreadable, held back or excluded
\* refuses the plan or is named, whatever the order of reads and of the diff, and the files beside the
\* change neither bring an excluded one back nor make a review too large (planSnapshot, assembleBundle).
SnapshotIsTrue ==
  /\ pc \in {"planned", "composed", "too large"} =>
       /\ EveryFileAccounted /\ NothingComesBack
       /\ plan.totalBytes = BytesOf(plan.entries)
       /\ plan.totalBytes <= MaxTotalBytes
  /\ ContextIsFree
====

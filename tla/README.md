# AMBICODE in TLA+

AMBICODE reviews a local change, a branch or a GitLab merge request with an
independent model reviewer, saves the review under `.ambicode/reviews/<id>/`,
and lets a person publish the findings as merge request comments from a local
web page.  This directory holds TLA+ modules translated from its source, the TLC
configurations that check them and proofs that TLAPS checks.  Paths below are
relative to the repository; its TypeScript is in `src/`.

## 1. The system

Components, the state each keeps, and how they meet.

| Component | Code | State | Operations | What is hard |
|---|---|---|---|---|
| Publication run | `src/publication/publish.ts`, `reconcile.ts`, `src/contracts/publication.ts` | locals of one run: outcomes so far, the listing last read | identity, revision check, listing, per comment: reconcile, re-check, POST, classify, re-list | lost answers, a merge request that moves between check and write, stopping half-way, look-alike notes |
| Saved review store | `src/publication/store.ts` | `result.json`, `publication-positions.json`, `publication.json` | read, save drafts, record a submission; write to a temporary file and rename | several processes read, compute and write back; one temporary name for all of them |
| Publication lease | `src/publication/lease.ts` | `publication.lock` with a token | exclusive creation, read-back and removal; never reclaimed automatically | crash while held, recovery by hand, release in two steps |
| Page server | `src/page/server.ts`, `session.ts` | sessions, each with one in-flight slot and the submission ids seen; idle timer; shutdown flag | `/<token>`, `/`, `/publish`, `/close`, `/takeover`, stop | concurrent requests, expiry and shutdown during a run, a slot that must come back |
| Opening a page | `src/cli/commands/view.ts` | the record it read | read and validate the files, reconcile uncertain comments, bind the port, write the control file | writes the record without the lease |
| Takeover | `src/page/takeover.ts`, `src/cli/main.ts` | fixed port, control file with a shutdown token | ask the old page to stop, retry the port, fall back | check-then-stop, two newcomers, control file of a successor |
| Form parsing | `src/page/submission.ts` | none | which drafts and selections a form carries | partly invalid forms |
| Page rendering | `src/page/view-model.ts`, `open-browser.ts`, `reopen.ts` | none | presentation | - |
| Owned temporaries | `src/page/cleanup.ts` | directories with an ownership marker | sweep by age | a directory in use, a marker not yet written |
| Positions, aggregate | `src/publication/positions.ts`, `aggregate.ts`, `marker.ts` | none | derive positions, check that three files agree | - |
| GitLab provider | `src/providers/gitlab/` | none; one `glab` process per request | revision, identity, discussions, POST, capture of a diff | pagination over a moving collection, a diff still being collected |
| GitHub, registry | `src/providers/github/`, `registry.ts`, `src/contracts/provider.ts` | none | unsupported answers; comparing revisions | - |
| Edit hook | `src/hook/run-hook.ts`, `markers.ts` | epoch file, marker files per session | deliver a reminder once per epoch, reset, clean up | parallel hook processes, a process that dies after it marked |
| Checks | `src/checks/run.ts`, `select.ts`, `authorize.ts` | approvals and declines given on the command line | select files, authorize, run, report | an answer that resolves nothing, commands that change the checkout |
| Remote checks | `src/checks/remote.ts` | one container per check, on the Docker daemon | probe the image; create, copy in, start, copy out, compare, remove | a client that is given up while the daemon goes on, clean-up after any failure |
| Workspace watch | `src/checks/mutations.ts` | fingerprint of the checkout | baseline, observe | attributing a change to the wrong actor |
| Review run | `src/cli/commands/review.ts`, `src/review/` | review directory | assemble, name, check, review, validate, write file by file | partial failure between files, name collisions, a reader in between |
| Bundle, prompt, prepare | `src/review/bundle.ts`, `prompt.ts`, `src/cli/commands/prepare.ts` | none | gather requirements, resolve the target, select, resolve policy, plan, compose, measure | budgets that meet; what is refused, and when |
| Snapshot | `src/snapshot/` | content of the pinned revision, directory of files | capture a target, apply exclusions and limits, choose context | a tree that is edited meanwhile, a server that holds content back |
| Policy | `src/policy/` | none | load, validate, supersede and resolve packs | precedence, errors of packs that do not apply |
| Requirements | `src/requirements/` | none | match what was asked with what was supplied | spellings of one document, answers nobody asked for |
| Configuration | `src/config/` | `.ambicode/config.json` | detect, init, load | init over edited files |
| Git, code location | `src/git/`, `src/code-intelligence/` | none | run git, search text | - |
| Process runner | `src/ports/node-process-runner.ts` | one child process | start, deadline, output ceiling, kill | deadline against exit |
| Command line, ports, utilities | `src/cli/args.ts`, `src/ports/`, `src/util/` | none | parsing, wiring, strings | - |
| Installer, packaging | `install-local.mjs`, `package-candidate.mjs`, `build.mjs` | lock, record, marketplace directory, recovery journal; Claude Code's own registrations | install, upgrade, uninstall, inspect | commands that fail after their effect, compensations that fail, dead installers |

Interactions.  `ambicode review` writes the review directory once.  Each
`ambicode view` process reads it, takes (or fails to take) the fixed port, and
serves sessions; a session's form goes through its slot, then the lease, then
the record, then GitLab, then the record again, then releases lease and slot.
Processes share nothing but the files of the review directory, the port and its
control file, and the merge request.  The edit hook and the installer stand apart:
one process per event of a session, and one per command of a person, each with
files of its own.

A review gathers in a fixed order: requirements, target, what of it is reviewed,
policy, content, plan, prompt.  Each of them can refuse it, and before the plan
nothing is written.  Then come the directory, the checks, the reviewer and the
files, which `ambicode view` opens.

What makes each component correct:

- Publication: no finding gets two comments; what is recorded as published
  exists; a run reports honestly where it stopped; a confirmed comment should stay
  confirmed and an uncertain one be looked for again (neither does: §3); nothing is
  sent to code that was not reviewed, but for a comment whose check was already
  answered.
- Lease: one publisher; given back; never taken from its owner.
- Server and sessions: every form ends and its slot comes back; the person's
  wording survives.
- Takeover: one page per machine; a publishing page is left running; a control
  file names the page that serves the port.
- Store: a reader sees a whole record; a write is not lost.
- Hook: a reminder at most once per epoch and agent; nothing told in an old
  context counts as told in the new one.
- GitLab: a revision that is called current was current while it was asked for; a
  listing that is called complete is; coverage that is called complete misses
  nothing, whatever was left out on purpose.
- Review: what the reviewer reads is the pinned revision; files of one run do not
  mix with another's; a comment's position is the line its finding is about.
- Requirements, policy: judged against exactly what was asked; the strictest
  applicable decision wins, in any order of packs.
- Installer: one at a time; a failure restores or says it could not; the source of
  what is installed is never lost; "installed" is true.
- Checks: nothing unapproved runs; no reviewer is paid while a question waits;
  every answer resolves the question it was asked for; a change of the checkout
  is reported by the check that made it.
- Remote checks: only the complete pinned snapshot runs, isolated and allowed;
  what a check leaves behind or could not inspect, its result says.

## 2. What is modelled now

### CommentLedger

What publication promises, in two variables: `delivered` (how many comments each
finding has) and `confirmed` (what the saved review calls published).  A comment
is created once; the saved review confirms delivered comments only.

### Publication

One review, one merge request, several *pages*.  A page is one session of one
`ambicode view` process: two sessions of a process and two processes differ only
in their port, which plays no part here.  `pc[p]` is where the page stands; each
value is a point between two awaits of the code, where anybody else may act.

| Model | Code |
|---|---|
| `record` | `publication.json`: `outcomes` per finding |
| `lease` | `publication.lock`; the token is abstracted to the page that minted it, since a page's acquisitions never overlap |
| `posted`, `lookalikes`, `revision` | the merge request: our comments per finding, notes of others (or elsewhere) carrying our marker, whether the head is the one reviewed |
| `orphans` | POSTs whose client gave up, or died, and that GitLab may still execute |
| `mem`, `todo`, `cur`, `listing`, `out` | locals of the handler: `record`/`previous`, the selected comments left, the comment being sent, `discussions` with `listingComplete`, `outcomes` |
| `invalid` | invalid forms being handled: of which page, and the record as their handler read it |
| `sent`, `stragglers`, `submissions` | history, for the properties and the bound |
| `Open`, `ReopenLookup`, `ReopenUnchanged`, `ReopenRecord` | `runView` up to the page server, `reconcileUncertainOutcomes`; no lease is taken |
| `InvalidForm`, `SaveInvalidDrafts`, `InvalidFormFails` | the invalid branch of `/publish`: reads and writes the record with neither slot nor lease, at any time the page serves, also from a second tab while the page's own run publishes |
| `Submit` | authentication, parsing and `beginSubmission`; the slot is `pc[p]` being neither idle nor closed |
| `AcquireLease`, `LeaseHeld`, `AcquireFails` | `acquirePublicationLease` and its three outcomes; the third is outside the `try`, and the page is left `"stuck"` |
| `ReadRecord`, `SaveDrafts` | `readPublication`, `saveDrafts` |
| `Identity`, `CheckRevision`, `ListDiscussions` | the three requests before the loop, each of which can stop the run |
| `Consider`, `Recheck`, `Post`, `PostNotStarted`, `Answered`, `AnswerLost`, `Relist`, `Finish` | one turn of the loop of `runPublication` |
| `RecordSubmission`, `ReadLease`, `RemoveLease`, `ReleaseFails`, `StoreFails` | `recordSubmission` and the `finally`, with the ways each can fail |
| `Deliver`, `Drop`, `OrphanEnds`, `LookAlikeAppears`, `Push`, `Crash`, `RecoverLease` | the environment |

Abstractions, and why they lose nothing the properties speak of:

- Comment bodies, ids, links, messages, times and the person's drafts are left out,
  and so is the `submissions` list of the record, which nothing reads back.  A step
  that saves drafts still writes the whole record it read before.
- The comments of a form are handled in any order; the code uses one of them.
- A form selects findings that have a saved position only: `parseSubmission`
  rejects others, so the run's `no exact position` branch is not reached.
- A replayed submission id and a second form during a run are refused by
  `beginSubmission` before anything happens; the model has no such steps.
- All pages publish as one account, and nobody deletes comments.
- A listing is one read of the merge request, complete or any incomplete part
  of it (the provider interface allows both).  A revision check is one read as
  well.  MergeRequest has the requests behind either, and `ListingIsWhole` and
  `RevisionHeld` say why one read may stand for them.
- A closed merge request is a check that is answered `unavailable`; it may be
  reopened, so the answer may be `current` again.  The head never comes back.
- Writing `publication.json` is one step here; ReviewRun has the writes of the
  other files of a review.
- Stopping the server does not stop a handler that runs: only `Crash` ends it.

### PageTakeover

Several `ambicode view` processes on one machine, their browsers, the fixed port
and the control file.  A publishing run is only its start and its end here;
Publication has what it does in between.

| Model | Code |
|---|---|
| `port` | the listener on the fixed port: a page, another program, nobody |
| `control` | the control file: whose token it holds, torn, or absent |
| `at`, `token`, `attempts` | where `runView` and `bindPort` stand, the token read, the attempts left of `RELEASE_ATTEMPTS` |
| `recorded`, `stage` | whether `controlPort` is set; how far `stop()` has come |
| `session`, `admitted`, `runs`, `finish` | sessions; forms past the `onRequest` hook; forms that hold a slot; responses whose `finish` event will stop the page |
| `Open`, `TryListen`, `ReadControl`, `AskTakeover`, `Retry`, `GiveUpWaiting`, `ListenElsewhere` | `bindPort` and `requestTakeover` |
| `StartControl`, `WriteControl`, `SetControlPort`, `ControlFails` | `writeControlFile` and what `runView` does of it |
| `Redeem`, `Expire`, `Admit`, `BeginPublishing`, `EndPublishing`, `CloseFromPage` | `/<token>`, session expiry, `/publish` in its two halves, `/close` |
| `ResponseFinished`, `StopFromWithin`, `ReadOwnControl`, `RemoveControl`, `CloseListener` | `beginShutdown` and `stop()`, from a request, the idle timer or a signal |
| `Die`, `ForeignLeaves` | the environment |

Abstractions: a page on port 0 takes nothing over and is not modelled, and a
`listen` that fails for another reason than a busy port ends the command before
anything is shared.  A token is the page that minted it (it is random).  The
submission ids a session has seen are left out (a replay changes nothing).  A
page is opened once: reopening is another page.

### Checks

One `ambicode review` of the developer's checkout after another, and the person
who answers between them.

| Model | Code |
|---|---|
| `config` | policy decision and selector of each check |
| `tree` | what the workspace fingerprint covers, as one value |
| `phase`, `at`, `selection` | the loop of `runChecks`, the check it is at, the selection it found |
| `approvals`, `declines`, `waiting`, `result`, `status` | `--approve` and `--decline` keys, `pendingApprovals`, results, the review's status |
| `held`, `reported` | the watch of each project (`watchWorkspace`), results that list mutations |
| `first`, `before`, `touched`, `edited` | history, for the properties |
| `Start`, `Answer` | a review is run; the person answers every waiting key and runs it again |
| `Refuse`, `SelectorNotAllowed`, `SelectByGlobs`, `StartSelector`, `EndSelector`, `NothingSelected`, `SkipDeclined`, `Ask`, `StartCommand`, `NotStarted`, `EndCommand` | the turns of the loop, with `authorizeCommand`, `selectFiles`, `applyLimits`, `baseline` and `observe` inside |
| `StopForAuthorization`, `InvokeReviewer`, `ReviewerEnds` | the gate of `runReview`, the reviewer, `applyStatus` |
| `Write`, `Edit`, `Abort` | processes and people that change the checkout; the end of the process |

Abstractions: a null check, an undeclared command and a null command end the
same way and are one `policy`, `"absent"`.  A `related` selector asks the test
runner without a key of its own, as in the code.  What a selection holds is one
of five classes, those `applyLimits` tells apart.  What makes a review partial
besides its checks (policy, coverage) is nondeterministic.  An answer is for one
run, so the person gives the earlier ones again.  `ProjectOf` keeps the checks of
a project adjacent, as the configuration does.

### RemoteChecks

The checks of a merge request, one container each.

| Model | Code |
|---|---|
| `container`, `tree` | each container and its workspace *as the daemon has them* |
| `phase`, `at`, `baseline`, `copy`, `run`, `produced` | the loop of `runRemoteChecks` and the locals of `executeInContainer` |
| `copies` | the temporary directories workspaces are copied out to |
| `cut` | history: the containers whose command may have outlived its client |
| `result` | status, what is said of the command's writes, clean-up notes |
| `AssessIsolation`, `Skip`, `Enter` | `assessIsolation`, `runOne` up to the container |
| `Create` ... `CaptureOutput`, `Throw` | the `try` of `executeInContainer`, `observeMutations` included |
| `Remove`, `RemoveFails`, `Sweep`, `ReturnProduced`, `Rethrow` | its `finally`, and what is returned or thrown |
| `LateCreation`, `CommandStarts`, `CommandEnds`, `Write`, `Kill` | the daemon, the commands, the end of the process |

Every step that runs `docker` succeeds, fails, or is given up at its deadline; in
the last case the daemon may have done the work or may yet do it.  The client of
`start --attach` returns when the command ends (`AttachReturns`), when the deadline
does (`AttachTimesOut`), or when it loses the daemon, which is taken for a failure of
the command (`AttachBreaks`).  The comparison of two scans is abstracted to whether the workspace still is the
snapshot.  Declines and selection limits are not read by this code, and are not
modelled; `produced = None` is an exception on its way out.

### HookMarkers

One session of Claude Code, and one process per event: they start in any order,
run side by side, and fail or are killed anywhere.

| Model | Code |
|---|---|
| `epoch`, `markers`, `ids` | the epoch file, truncated before it is written; the marker files, by epoch, agent and subject; capabilities drawn |
| `event`, `agent`, `pc`, `mine`, `left`, `chosen`, `told` | a process of `runHook`: its input, its step, the epoch it works under, subjects to consider, found undelivered, told |
| `skipped`, `earlier`, `working`, `touched` | history, for the properties: what was passed over, who had ended or knew its epoch at the start, who renewed, began or removed an epoch |
| `Begin`, `Ignore` | the event, and the edits that call for nothing |
| `ClearMarkers`, `TruncateForReset`, `WriteForReset`, `CleanUp` | `resetEpoch`, `cleanupSessionState` |
| `ReadEpoch`, `TruncateForEpoch`, `WriteForEpoch` | `currentEpoch` |
| `Look`, `Mark`, `Tell`, `Fail` | `alreadyDelivered`, `markDelivered`, the output, the catch-all |

Which rules an edit calls for is a choice; a rule stands for its content's hash.

### MergeRequest

GitLab, and the provider's four operations on a merge request, each request a
step.

| Model | Code |
|---|---|
| `mr`, `versions`, `threads`, `pending` | GitLab: the request, its collected diff versions, its discussions, whether a push is not collected yet |
| `target`, `call`, `answer` | the pinned target, the operation under way with what it has read, what it returned |
| `seen` | history: what was so while the operation ran |
| `Resolve` ... `PinTarget` | `resolveTarget`; the merge request and the versions are asked for side by side |
| `AskRevision`, `ReadForRevision`, `CollectForRevision`, `Judged` | `getCurrentRevision` |
| `AskDiscussions`, `CollectDiscussions`, `PageOf`, `AfterPage`, `AfterFailure` | `listDiscussions` and `GitLabApi.collect`, page by page |
| `AskComment`, `Create`, `NotStarted`, `Refuse` | `publishComment` |
| `Push`, `CollectVersion`, `PublishRefs`, `CloseOrReopen`, `OpenThread`, `DeleteThread` | GitLab |

A commit is a model value compared in full (`sameSha` accepts prefixes of seven
characters and more).  An answer that leaves the head out lets the head of the diff
refs stand for it (`ContinueUnnamed`); `seen.unnamed` remembers that one did.

### ReviewEvidence, with Requirements, Policies, MergeRequestEvidence and SnapshotPlan

`assembleBundle` from the request to the last measurement.  Its specification is
`EvidenceSpec`.  The four modules are pure: `NormalizeRequirements` with every refusal in the code's order;
`LoadPacks`, `ResolvePolicy` and `DecisionFor`; `FetchSnapshot` (what GitLab's
diff says, what it withholds, what is already on the target branch), `Fetch` and
`PrimeBatch` (content read alone and in batches); exclusions, limits and
`PlanSnapshot`.  `Among`, in Subsequences, is the filter their lists go through.

| Model | Code |
|---|---|
| `request` | options, configuration, and what the merge request or the local revision really holds |
| `requirements`, `policies`, `evidence`, `cache`, `plan`, `prompt` | the values `assembleBundle` passes on |
| `delivered`, `unanswered` | history: what GitLab sent whole; whose read failed |
| `GatherRequirements` | `normalizeRequirements` and the evidence it is given |
| `ResolveMergeRequest`, `ResolveLocal` | `resolveMergeRequestTarget`; `resolveBranchTarget` and committed content |
| `Select`, `ResolvePolicies` | `partitionChange` and the cheap limits; `resolveProjectPolicies` |
| `Prime`, `Read`, `Plan`, `Compose` | batches, single reads in any order, `planSnapshot`, the final `enforceReviewInputLimits` |

Abstractions: a path is a model value with the traits its patterns would find, a
content its kind and size, a patch one byte per file, a pack its scope, its
decisions and its defects.  GitLab holds a body back without a mark for plain
modifications only, and what it leaves out it declares by the version's state or
size: the two signs the code reads.  `RequestsAssumption` says what a request is: a
change does not add and delete at once, has a body if its kind has one, a path is
the new name of one change (a deleted one apart), and what is binary is not empty.
What GitLab serves as text in a batch (`Node`) and what `isBinaryContent` calls binary
are independent of each other.  Of UTF-8, only that a text that is not is longer once
it is decoded: GitLab's own re-encodings are taken to change the length too, which is
what the comment at `provider.ts` 736-740 says of them.

### WorkingTarget

The review of uncommitted work: `resolveWorkingTarget`, each git command and each
file read a step, while others edit, remove, restore and commit.  `head` and
`tree` are the repository; `cap` is what a run holds; `ReadHead`,
`MarkIntentToAdd`, `RawDiff`, `PatchDiff`, `CaptureFile`, `ListSiblings` and
`Compare` are the run.  Its specification is `CaptureSpec`.  A file's content is a
number; a patch is a function from the files it is about to the content before and
after, so that two patches are equal when their texts are; the paths of the raw
diff are a set, since git sorts both lists alike.

### ReviewRun, with Findings and Reviewer

Runs of `review` and `bundle` in one repository, and a person who opens what they
saved.  Findings is pure: the lines a patch makes addressable, locations,
`ValidateFindings`, `DerivePositions`, and `Agree`, which is
`validateReviewAggregate`.  Reviewer is pure too: whether the reviewer can be
isolated, and what an ended process is taken for.

| Model | Code |
|---|---|
| `latest` | the version of the merge request a run would pin now |
| `run`, `made`, `raced`, `files` | processes, review directories (and those two runs made at once), their files with whose they are and who is writing |
| `record`, `view` | the publication record of a directory, the reader |
| `Assemble`, `Look`, `MakeDirectory` | `assembleBundle` up to the directory, `uniqueReviewName` |
| `Conclude` (`EndBundle`, `StopForAuthorization`, `Invoke`) | the checks' evidence, and the ways `runBundle` and `runReview` go on |
| `StartWrite`, `FinishWrite`, `FailWrite`, `WriteOther`, `RenamePositions` | `writeBundleArtifacts`, `persistPublicationPositions`, `writeJson` |
| `ReadResult`, `ReadPositions`, `ReadRecord`, `PublishComment`, `CloseView` | `runView`, and a comment published from it |
| `NewVersion`, `Crash` | the environment |

What two processes write to one file at once is what either wrote, or neither.
`DiffsAssumption` and `OutputsAssumption` only give types: files of a version are
patches, with any lines in any order, and an answer is a list of proposals.
Statuses, the report and the temporary directories are left out.

### Installer

`install-local.mjs` on one configuration directory: `install`, `uninstall` and
`inspect`, every file operation and every command of Claude Code a step.

| Model | Code |
|---|---|
| `lock`, `state`, `market`, `staging`, `rollback`, `journal` | the files of the installer's directory |
| `catalog`, `plugins` | what Claude Code has registered, which only its commands change |
| `undo`, `result` | the compensations of a process, in order; how its command ended |
| `looked`, `robbed` | history: the lock each process looked at before it reclaims; whether a lock was taken from a process that runs |
| `CreateLock`, `WriteLock`, `LockFails`, `ReadHolder`, `Reclaim`, `Release` | `acquireLock`, the `finally`: at each step anybody else may be at any of theirs |
| `BeginInstall` ... `Discard` | `install`; each command of Claude Code fails before or after its effect |
| `UndoUninstall` ... `Compensated` | `failWithCompensation` and the compensations |
| `BeginUninstall` ... `RemoveSource` | `uninstall` up to its last line but one |
| `RemoveRest`, `RemoveLock`, `EndRemoval` | the recursive removal of the directory, in which the lock may go before the rest |
| `Die` | a signal, or the end of the machine, at any step |

The list of plugins is Claude Code's own, asked for in the project directory
(`findInstalled` matches id and scope, and `verifyPostcondition` the project path as
well): it is taken to hold what is installed in that very place.  The lock of an earlier
day may be there at the start.  An existing lock that cannot be read and a release that
fails are left out.

## 3. What is checked

Each `MC` module instantiates the module it is named after for TLC.

| Run | Instance | Shows |
|---|---|---|
| `safety` | Publication: 2 pages, 2 findings, 2 submissions, an invalid form at a time, a look-alike note, failing files | `TypeOK`, `OnePublisher`, `NoDuplicateComment`, `SentIsNeverReportedUnsent`, `AtMostOneStraggler`, `ConfirmedExists`, and that it implements `CommentLedger` |
| `forms_end` | Publication: 2 pages, 1 finding, 2 submissions, late POSTs, leases removed by hand, `FairSpec` | `FormEnds`, `LeaseIsReleased` |
| `serving` | PageTakeover: 2 pages, 2 sessions each, faults | `TypeOK`, `ControlNamesHolder`, `NothingStartsAfterShutdown` |
| `opens_and_stops` | PageTakeover: 3 pages without sessions, a foreign program, faults, `FairSpec` | `FreshPageIsNotReplaced`, `StoppedPageFreesPort`, `OpeningEnds` |
| `checks` | Checks: 2 checks of one project, 5 configurations, 2 contents, edits by others, `FairSpec` | `NothingUnapprovedRuns`, `EvidenceIsSettled`, `MutationsAreAttributed`, `NoSilentDrift`, `AnswersLeadToReview` |
| `remote` | RemoteChecks: 2 checks, 4 configurations, `FairSpec` | `RunsOnlyPinnedCode`, `NothingLeftUnsaid`, `WritesAreTrue`, `ReviewGoesOn` |
| `hook` | HookMarkers: 4 processes, a renewal, two edits and any other event; two under way at a time, one that fails; a rule and the contract, one agent | `DeliveredOnce`, `ToldInEveryContext` |
| `gitlab` | MergeRequest: 2 commits, 2 pushes, 4 discussions in pages of 2 under a ceiling of 3, 1 failed request | `RevisionHeld`, `ListingIsWhole` |
| `evidence` | ReviewEvidence: remote and local changes of two files in 7 shapes, 9 pairs of limits and patterns, requirements of up to 2 documents, policies of up to 3 packs of each origin | `CoverageIsTrue`, `PrimedReadsAgree`, `SnapshotIsTrue`, `JudgedAgainstWhatWasAsked`, `PolicyIsWhatPacksSay` |
| `capture` | WorkingTarget: 2 files, 3 edits, 2 commits | `CapturedIsDiffed` |
| `review_run` | ReviewRun: 2 runs, 2 versions, 2 candidate names, 2 answers, a comment | `OneRunPerDirectory`, `OpenedReviewHolds` |
| `installer` | Installer: 2 commands, 3 builds of 2 versions, 2 places, failing files and commands | `OneMutator`, `FailureRestores`, `SourceSurvives`, `InstalledIsTrue` |

`OpenedReviewHolds` counts lines in the patch by a definition of its own and so
checks `Findings` against it; `PolicyIsWhatPacksSay` and
`JudgedAgainstWhatWasAsked` likewise say what resolution and matching come to
without following their steps.  Every module with variables states its types
(`TypeOK`, `CaptureTypeOK`, `EvidenceTypeOK`); the runs spend their properties on
the rest, but for the two first modules, and §4 proves all of them.

Bounds.

- `MaxSubmissions` bounds the forms, and with them everything else that grows;
  `MaxInvalid` the invalid forms that are handled at once, of which `forms_end` has
  none: they hold neither slot nor lease, so that no form waits for them.  Two pages and two submissions are what it takes for a form to compete with,
  follow, or retry another one.  Two comments are needed for a run to stop
  between them.  Pages open, save invalid forms, crash and reopen any number of
  times.  `forms_end` has no look-alike: whose note a listing shows does not
  decide whether a form ends.
- Two pages with sessions are a holder and its successor.  The third page is for
  a token that has gone stale: read from one page, presented to another.  One
  release attempt instead of twenty still separates an attempt that remains from
  none; the attempts differ in nothing else.
- Two checks of one project share a watch, which is where attribution can go
  wrong; two contents are a change and its absence.  The configurations are
  every policy and every selector kind, not every pair of them.
- Two containers: one may still be created, run or be left behind while the
  review is at the next.  Approvals of checks that need none change nothing, and are
  left out.
- Four hook processes are a renewal, two edits that follow it, and one more event of
  any kind beside, before, between or after them, which is what `DeliveredOnce` is
  about; or one edit before the renewal and one after it, which is
  `ToldInEveryContext`.  `MaxTogether`: two of them are under way at a time, so that
  each step of one falls between any two of another.  `MaxFailed`: one fails.  A
  second agent would only have markers of its own, a second rule is told like the
  first.
- Two pushes let the merge request leave a commit and come back to it; three
  versions and four discussions are two pages of each, and more than the ceiling.
  `MaxFaults` bounds the failed requests: after the first, an operation has ended.
- `evidence` takes ceilings of a few bytes, so that a file, the tree, the listed
  directories and the context reads each meet theirs.  Batches hold one path, so
  that two are needed.  Two documents, one with two spellings, are what it takes
  to answer one twice; three packs in every order are one that is replaced, one
  that decides, one that is broken.
- Three edits reach a change before, during and after the two diffs; a commit
  moves their base, and the second lets a file be committed that the first patch
  did not know.
- `Limit` of two names with any number of them taken; two runs of one target.  The
  two versions of the diff place the same finding on different lines.
- Two commands on one configuration are the most that can meet in the lock with
  every pair of commands; with an old lock they are also the two that a theft takes.
  After one (`UntilTheft`), only the removal of a directory that has begun goes on,
  since nothing is claimed of what follows.

Environment constants.  `LateDelivery`: GitLab may create a comment after `glab`
was given up on.  `CarelessRecovery`: a person removes the lease of a live page,
which the refusal message warns against.  `FileFaults`, `Faults`: an operation on
a file fails, and (in PageTakeover) a process dies.  `ForeignHolds`: another
program is on the port.  `Edits`: the checkout is edited by others during a
review.  With `LateDelivery` false a POST takes effect, or is lost, while its
client still waits; a crash right after that is included.

Fairness.

- Publication: the handlers and the network are weakly fair.  A handler that was
  started is run on by Node's event loop, each of its awaits is a file operation
  or a `glab` process, and the process runner ends the latter at its deadline.
- PageTakeover: what a page does on its own, opening and stopping.  The request
  for a takeover ends after five seconds, the attempts are counted, the rest is
  the event loop and local files.
- Checks: the review goes on, since each of its processes ends at a deadline.
  `Answer` is fair too, since `AnswersLeadToReview` is about a person who does
  answer; no particular answer is assumed.
- RemoteChecks: the review's own steps (`GoesOn`).  Nothing is assumed of the daemon,
  not even that it is lost, nor of the commands, which may run for ever.

The runs added for the other modules check safety only, and assume no fairness.

Nowhere is anything assumed of pushes, crashes, faults or people who edit.

Deadlock is checked for Publication (a closed page can always be opened), Checks
(a review can always be run) and MergeRequest (an operation can always be
asked for).  It is not where everything may be over: PageTakeover, RemoteChecks,
HookMarkers, ReviewEvidence, WorkingTarget, ReviewRun, Installer.

### Where the code does not do what it says

What TLC refutes in the configuration named here; the definitions are in the modules,
and no run checks them so.

| Property | Configuration | What happens |
|---|---|---|
| `NoDuplicateComment` | `safety` with one page, one finding and `LateDelivery` | The answer to a POST is lost, the one listing does not show the comment, GitLab creates it afterwards; the person submits the still uncertain comment again at once. `docs/review.md` 560 promises that a network failure never becomes a second post. |
| `ConfirmedStaysConfirmed` | `safety`, with one page too | An invalid form, of another page or of a second tab of the very page that publishes, or a page being opened, writes back a record it read before a publication was recorded. `store.ts` 129: "Earlier confirmed publications are preserved". (The comment is still found by its marker before any later POST, which is why `NoDuplicateComment` holds.) |
| `UncertainUntilConfirmed` | `safety` with one page | Submitting again with the uncertain comment unchecked, or a run that stops early, turns `uncertain` into `not-selected`, `failed-before-send` or `stale`; reopening no longer looks for it. `docs/review.md` 559. |
| `FormEnds` | `forms_end` with `FileFaults` | An error while creating the lease (anything but "exists") skips `endSubmission`: the session refuses every later form, and the process every takeover. `session.ts` 113 tells the person to wait. |
| `ReplacedOnlyWhenIdle` | `serving` | `/takeover` looks at the running forms and stops the page when its answer has been written; a form that was past the `onRequest` hook begins to publish in between. `server.ts` 478: "never while a publication is running". |
| `AnswersLeadToReview` | `checks` with `Declinable` every key | A proposed selector command waits again in every run, since `--decline` is read for check keys only, and while anything waits there is no review. `checks/run.ts` 53: "it stops waiting". |
| `NothingKeptOutComesBack` | `evidence` | A changed file outside `--only`, or one renamed out of an excluded directory, is mirrored again as an unchanged neighbour, since neighbours are judged by the name they have. `snapshot.ts` 154: "does not come back in beside it". |
| `PatchNamesItsFile` | `capture` | Between the raw diff and the patch one file's change is committed or reverted and another's begins: the lists have one length, and are paired by position. `git/diff.ts` 45: "will not guess which patch belongs to which file". |
| `NeverConcurrently` | `installer` | A lock that was just created is still blank and is taken for a stale one; two installers reclaim the same stale lock, the second that of the first; an uninstall removes its own lock before the rest, and whoever comes then begins. `install-local.mjs` 229-230: "so two installer processes never mutate the same install root concurrently". `OneMutator` says that nothing else breaks it. |
| `PrimedIsNeverAnother` | `evidence` | A file of UTF-8 that `isBinaryContent` calls binary and GitLab takes for text has the length of its blob, and is held as text, where the single read says binary. `provider.ts` 698: "So the fast path can only be faster, never a different answer". `PrimedReadsAgree` allows this one difference. |

Seen while translating, without a run of their own:

- `server.ts` 463 records a run with the drafts from before it: wording that a
  second tab saved meanwhile is lost.
- `lease.ts` 103-106 compares the token, then removes the file by name; a person
  may have replaced the lease in between.
- Two views that start together may both stay: the second cannot ask a page
  whose control file is not written yet, and goes elsewhere (`docs/review.md`
  481: one page per machine).
- A session that expires while its form publishes takes its slot along
  (`session.ts` 93): the page then accepts a takeover in the middle of the run.
- When the control file cannot be written, `ambicode view` reports a failure
  and its listener keeps the process and the port until it idles out.
- `docs/review.md` 346, "answer every waiting key and re-run once": an approved
  selector may yield a selection that needs an answer of its own, so it can take
  two rounds.
- What others edit between two checks is reported by the next check that looks
  (`MutationsAreAttributed` is therefore about a checkout nobody else edits).
  Nothing ties an approved key to the argv that was shown with it.
- A `docker start --attach` that loses the daemon exits with an error, which
  `remote.ts` 482 takes for the command's own: the check is `failed` while its command
  may still run and write.  `WritesAreTrue` is about commands that ended under their
  client.
- Remote checks do not apply the selection limits, and so never wait, although
  `docs/review.md` 339-341 says that such a selection asks.
- A `docker create` that was given up may leave a container whose id nobody has;
  an exception on the way out loses the clean-up notes; a command that overran
  writes on after its workspace was copied out, unreported (`docs/review.md` 190).
- `docs/compatibility.md` 298-306 has `docker diff` and no `--mount`; the code
  copies the workspace out and compares it, and mounts an anonymous volume.
- Two runs of one target that look for a name in the same minute share the
  directory (`review-name.ts` 115 excludes it); their files may mix, and a comment
  is still only placed where its finding belongs (`OpenedReviewHolds`).
- A discussion deleted while the pages are read moves the others up, and one may
  fall between two pages; `ListingIsWhole` leaves that out.
- A hook process that finds the epoch missing or half written, while another
  renews it, begins one of its own later: what was told under the renewed epoch
  in the meantime is told again.  `DeliveredOnce` leaves that out (`SameContext`).
- A file that is changed and put back between the two diffs of a capture escapes the
  comparison, and a file created after the index was copied reads as absent.  When
  the patch is of nothing but files committed after the index was copied, it stays
  the same while a neighbour is edited and committed as well, and the neighbour was
  read as it was before.  `CapturedIsDiffed` leaves all three out.
- `remote-target.ts` 79 copies the omissions before any content is read, so that
  what `RemoteContent` notes later is not in the report (108 says it is); the
  plan's own omission for the file is.
- Directories named `ambicode-index-` and `ambicode-page-`, and snapshots whose
  creation failed before the marker (`snapshot.ts` 337), are never swept.
- `structuralConflicts` cannot report anything: what it looks for is refused before.
- An error in policy does not stop a review's checks, even of a pack that forbids
  the command and cannot be read; the review is then `partial`.  A diagnostic about
  a pack that was superseded stays an error, although the comment at
  `resolve.ts` 188-198 speaks of packs that never parsed only.
- A renaming that throws between setting the old marketplace aside and publishing
  the new one is not compensated (`install-local.mjs` 755-756): the old one stays
  aside, where `SourceSurvives` looks for it too.
- Three commands can leave a record without a source and a plugin of yet another
  version: an uninstallation fails at its last step, after plugin and source are
  gone; an installation fails after publishing and cannot compensate; the next one
  fails after the plugin's update, and removes its own directory first.
  `SourceSurvives` is therefore about the step that loses the source: the plugin
  is gone by then.
- A later installation that fails and is compensated removes the journal of an
  earlier one whose compensation had failed.

## 4. What is proved

For every value of the constants that the `ASSUME` of the module admits, unless
said otherwise: any sets of pages, findings, notes and sessions, any number of
checks however configured.

| Theorem | Module | Assumes |
|---|---|---|
| `TypeCorrect`: `TypeOK` | PublicationProofs | - |
| `OnePublisherHolds` | PublicationProofs | `~CarelessRecovery` |
| `AtMostOneStragglerHolds` | PublicationProofs | `~CarelessRecovery` |
| `ConfirmedExistsHolds` | PublicationProofs | - |
| `SentIsNeverReportedUnsentHolds` | PublicationProofs | - |
| `NoDuplicateCommentHolds` | PublicationProofs | `~LateDelivery`, `~CarelessRecovery` |
| `LedgerIsImplemented`: `Spec => ImplementsLedger` | PublicationProofs | `~LateDelivery`, `~CarelessRecovery` |
| `TypeCorrect`, `ControlNamesHolderHolds`, `FreshPageIsNotReplacedHolds`, `NothingStartsAfterShutdownHolds` | PageTakeoverProofs | - |
| `TypeCorrect`, `NothingUnapprovedRunsHolds`, `EvidenceIsSettledHolds`, `MutationsAreAttributedHolds`, `NoSilentDriftHolds` | ChecksProofs | - |
| `TypeCorrect`, `RunsOnlyPinnedCodeHolds`, `NothingLeftUnsaidHolds`, `WritesAreTrueHolds` | RemoteChecksProofs | - |
| `TypeCorrect`, `NothingIsToldTwice`, `NothingIsKeptFromANewContext` | HookMarkersProofs | - |
| `TypeCorrect`, `OneAtATime`, `CompensationRestores`, `InstalledMeansInstalled`, `SourceGoesLast` | InstallerProofs | - |
| `CaptureTypeCorrect`, `CaptureIsDiffed` (of `CaptureSpec`) | TargetProofs | - |
| `TypeCorrect`, `CurrentWasHeld`, `CompleteIsWhole` (of MergeRequest) | TargetProofs | - |
| `TypeCorrect`, `OneOwner`, `OpenedHolds` (of ReviewRun) | ReviewProofs | - |
| `EvidenceTypeCorrect`, `CoverageHolds`, `ReadsAgree`, `JudgedAsAsked`, `SnapshotHolds`, `PolicyHolds` (of `EvidenceSpec`) | ReviewProofs | - |

Every safety property that a run checks is stated by one of these.

The assumption on LateDelivery is needed: §3 shows what happens without it.  A lease
removed under a live page lets a second one publish at once, by definition.

The arguments.

*Publication.*  `TypeOK` is not inductive alone: a run that is sending must know
that `cur` is one of its comments (`CurrentOK`).  Mutual exclusion is `LeaseOK`:
whoever stands between acquiring and releasing is the one the lease file names.
`StragglerOK` adds that once a comment went to moved code, no page stands past
its re-check and none will be told `current`.  `ConfirmedExists` needs the same
of every copy that may still reach the record - a handler's memory, its
outcomes, its listing - which is `ExistsOK`, and uses that the marker alone is
not believed (`GenuineNote`).  `SentOK` follows a sent comment from the wire to
its outcome.  `NoDuplicateComment` rests on `OnceOK`: what the lease holder's
complete listing does not show does not exist, which stays true because nobody
else delivers while it holds the lease (`LeaseOK`) and nothing is late
(`orphans` is zero); an incomplete listing lets nothing be sent.  In the
refinement the one step that changes the merge request is a delivery, shown to
be `Create`; everything else is `Confirm`, by `ConfirmedExists` of the next
state, or a stutter.

*PageTakeover.*  The control file is written by whoever holds the port, and a page
that stops removes it *before* it closes its listener.  So a page that writes the
file, or may still remove it, holds the port (`HoldsPort`), which one page at a
time can, and while it runs the file holds what it wrote (`Named`); that yields
`ControlNamesHolder`.  `TokensLeft` says that every token in the file or in
a newcomer's hands is of a page that has left it, hence not of one that has just
bound the port: `FreshPageIsNotReplaced`.  `NothingStartsAfterShutdown` needs
`NoSessionLeft`: a page that is stopping has no open session, and none is issued
again.  `Progress` relates `at`, `stage` and `recorded`.

*Checks.*  `NothingUnapprovedRuns` is inductive once `Progress` says what a phase
implies of the current check.  `Progress` also says that the checks behind it
have results, waiting ones only while something waits, and `EvidenceIsSettled`
follows at the gate.  `Watched` is the watch's bookkeeping: a project the loop has
not reached is unread, and unless somebody edited, the fingerprint held for the
current one is the checkout as it is, or as it was when the running process was
started; the adjacency of a project's checks is used here.  It carries
`MutationsAreAttributed`.  `FirstRead` makes `NoSilentDrift` inductive: the two
fingerprints are first taken together, before a process starts.

*RemoteChecks.*  `Fresh`: nothing exists of the checks ahead.  `Staged`: each phase
implies where the container of the current check is and what its workspace
holds, which gives `RunsOnlyPinnedCode`.  `Told`: what a result says of the writes
stays true although the daemon goes on, since the container of a command that
ended under its client does not run any more; it gives `WritesAreTrue`.  `Accounted`: the result on
its way out of the `finally` has the note of whatever was not removed, which
gives `NothingLeftUnsaid` when it is returned.

*HookMarkers.*  A marker is keyed by the epoch it was written under, and epochs are
drawn in order (`Drawn`, `Marked`).  `NewContext` is the reason nothing is kept from
a new context: once a process that renews has truncated the epoch file, none of
those that knew their epoch when it began works under the epoch in force, so that
none of their markers counts for whoever reads it from then on.  `DeliveredOnce`
needs more, since two processes may find no epoch and each begin one.  Seen from a
renewal `r`, the others that touched the epoch and did not end before it are
`Strangers(r)`; while there are none, the epoch is `Undisturbed`: no process that
follows `r` begins another, and whatever a follower passed over has its marker, so
that one that comes later finds it.  And as long as all
strangers are followers there are none: a follower is never the first to disturb
it (`OneContext`).

*Installer.*  What matters is said of the time before a theft (`robbed`).  `LockOK`:
the lock names whoever is between taking and releasing it, and everybody else is
`Quiet`.  Who reclaims a lock looked at one whose owner does not live (`Looked`), so
that if it is the holder's by now, it was not seen, and removing it is a theft; no
other step breaks `LockOK`.  What the holder may rely on is then its own:
`Started` keeps what it found, and `InstallOK` says of each step where the source
and the plugin are and which compensations are left to run.  The stack `undo` has
one of a few forms (`Fresh`, `Downgrades`, `Others`), by whether the plugin was
absent, of another version, or not touched; `PluginUndone` and `SourceUndone` say
that running what is left of it restores what was found, which gives
`FailureRestores` when the stack is empty.  `BuildsOK` is about builds rather than
versions: unless something died or failed to compensate, what is recorded, on disk
and registered is one build (`Exact` while somebody works), and `InstalledIsTrue`
follows.

*WorkingTarget.*  The patch says what the base had, and what it says a file has
now the file has had since (`Pinned`).  If no content comes back, a file that is
still, or again, as the patch says was so all along, so that what was read in
between is what the patch says (`Steady`); the final comparison turns this into
`Faithful` for the files the index copy knew.

*MergeRequest.*  Everything an operation was shown stays on record in `seen`
(`Watched`): the heads the merge request had open, the newest versions, the
discussions that were there throughout, and whether an answer left the head out.  The
first version of a listing was the
newest when its first page was read (`FirstSeen`), whatever was pushed later.
While nothing is deleted, what a listing has so far is the beginning of the
discussions, a full page each time (`SoFar`); the last, short page makes it all of
them, and an ended listing that is not capped has each once.

*ReviewRun.*  Until a directory is made nobody has anything in it (`Untouched`), and
once it is, unless two runs made it at once, one claims it, by having taken its
name or by a file in it (`OneClaim`).  The name of the last resort is a run's own
(`OwnName`), and who is writing a file has taken the name of its directory
(`Writers`).

*ReviewRun, what opens.*  The reader may be given the result of one run and the
positions of another, since two may share a directory.  What holds is therefore said of
each file alone (`PlaceInv`).  The findings of a run have ids that tell their places
(`AreFindings`): `StableId` adds the first number that is free, and one is, since
there are more numbers than ids in use.  A position that a run saves sits on the line its id
tells (`PlacedOn`), which rests on `ReadWell`: along a patch, the lines read so
far carry the numbers that counting from the last header gives.  And a record
holds only what was published, each with the digest of a position.  The three
are then compared when the review is opened (`Agree`), id by id and target by
target; that turns a position on the line its id tells into one on the line that
the result's finding names, whoever wrote which.

*ReviewEvidence.*  Coverage is a statement about lists: what GitLab sends of the
changes, filtered twice.  `AmongFacts` says what a filter returns: no element from
outside, none left out, and the whole length exactly when all of it passes; it is proved by induction over the length, as a statement about sets
of numbers (`Induct`, from `Least`, which the library's theorem on well-founded
sets yields).  `VersionTells` then says that a version from which something was
left out says so, by its state or its size, and `FetchedCoverage` that a body held
back makes its file incomplete.  For the reads, `Priming`: nothing is held before
they begin, no read has failed while there are paths to prime, and no link is
primed; a batch answers as single reads do, or with a file's own text, because a text
is believed only at the length of the blob (`BatchedAsAlone`).  For the requirements, a bijection between what was written and what was
supplied exists exactly when no two URLs name one document and each is retrieved
once, by something that was asked for (`MatchedIsOnePerUrl`), which is what passes
every refusal of `NormalizeRequirements` (`NormalizeMeans`).

*ReviewEvidence, the snapshot.*  A plan is a fold over the diff, then one over the
neighbours.  Of the first, `DealtWith`: each file so far is mirrored, named among
those omitted, or has refused the plan, and the total is that of the entries.  Of the
second, `Extends`: nothing that was there is lost, an entry that is added is a path
outside the change that no pattern excludes, and the total stays below the ceiling or
where it was - so a review that fits without context fits with it
(`ContextIsFree`).  `SnapshotInv` carries this through the steps: `Known` says of
what was delivered that each change is in the evidence, already on the target
or known to be missing, and `ContentHeld` that a content held is that of the
revision, so that what the plan read is what the request has.

*ReviewEvidence, the policy.*  Decisions are a fold within a fold, and what comes out
is the strictest of what was said (`Strictest`), in whatever order.  What was
said is that of the packs kept.  If no error is reported, every enabled pack
is usable and no two share an id, so that the packs kept are just those that
nothing replaces (`Loaded`), and of them those that apply are what
`PolicyIsWhatPacksSay` counts.  An error of content that stays an error is of a pack that
applies, or of one that was not kept (`ResolvedWell`).

Every invariant above was first checked by TLC on an instance of §3.

Only model-checked:

- `FormEnds`, `LeaseIsReleased`, `StoppedPageFreesPort`, `OpeningEnds`,
  `AnswersLeadToReview`, `ReviewGoesOn`: liveness under fairness is out of the
  prover's reach.

## 5. Plan

Every component whose steps meet those of another is modelled.  What is left, in
this order:

1. `publication.json` written through its temporary name, as ReviewRun has it for
   the positions.
2. `prepare`: sizes that are part of the text they measure, and the end of their
   iteration.

Not modelled, and not planned: rendering and wording, URL and schema parsing,
argument parsing, git output parsing, the text of policies and prompts, code
location, configuration, packaging and building - functions over strings, or one
process reading and writing files of its own.  The process runner's ladder of
signals depends on the operating system's timing; its deadline and its failure to
start are in the modules that depend on them.  The sweep of temporary directories
looks at an age of a day and a marker, and nothing it removes is named elsewhere.

## 6. Running

    tlc -config Publication_safety.cfg MCPublication.tla
    tlc -config ReviewEvidence_reading.cfg MCReviewEvidence.tla
    tlapm PublicationProofs.tla

`PROJECT.json` lists the runs, for each property a mutant of the model that
breaks it (the `Mutant of` definitions, which nothing else uses), the source
lines every definition translates, the hazards and the theorems.

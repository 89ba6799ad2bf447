----------------------------- MODULE Publication -----------------------------
(***************************************************************************)
(* Publishing the comments of one saved review to one merge request.       *)
(*                                                                         *)
(* Several `ambicode view` pages may have the same review open: a page of  *)
(* the model is one session of one such process, whose slot admits one     *)
(* publishing form at a time (the slot is pc[p] # "idle").  The pages      *)
(* share the review directory, which holds publication.json (`record`)     *)
(* and publication.lock (`lease`), and the merge request, which they reach *)
(* only through requests whose answers can be lost.  Every `await` of the  *)
(* code is a point at which another page, the network or a person may act. *)
(***************************************************************************)
EXTENDS Naturals, FiniteSets

CONSTANTS
    Pages,            \* sessions of `ambicode view` processes on this review
    Findings,         \* the findings that have a saved exact position
    None,             \* no lease file, no comment being sent
    LookAlikes,       \* notes of others, or elsewhere, that carry our marker
    LateDelivery,     \* may a POST create its comment after the client gave up
    CarelessRecovery, \* may a person remove the lease of a live page
    FileFaults,       \* may an operation on the review directory fail
    MaxSubmissions,   \* bound on the publishing forms submitted
    MaxInvalid        \* bound on the invalid forms handled at once

\* The notes of the merge request that carry a marker of this review.
Note == [finding: Findings, author: {"me", "other"}, exact: BOOLEAN]

\* The note a POST for finding f creates: ours, at the saved exact position.
Genuine(f) == [finding |-> f, author |-> "me", exact |-> TRUE]

ASSUME PublicationAssumption ==
    /\ None \notin Pages \cup Findings
    /\ LookAlikes \subseteq Note \ {Genuine(f) : f \in Findings}
    /\ LateDelivery \in BOOLEAN
    /\ CarelessRecovery \in BOOLEAN
    /\ FileFaults \in BOOLEAN
    /\ MaxSubmissions \in Nat
    /\ MaxInvalid \in Nat

VARIABLES
    record,      \* publication.json: the outcome of each finding
    lease,       \* publication.lock: the page whose token it holds, or None
    posted,      \* how many genuine comments each finding has on the MR
    orphans,     \* POSTs nobody waits for any more that may still arrive
    lookalikes,  \* the look-alike notes that exist on the MR
    revision,    \* whether the merge request is at the revision reviewed
    pc,          \* where each page stands
    mem,         \* the record as the page's handler last read or wrote it
    todo,        \* the selected comments the run has not dealt with yet
    cur,         \* the comment being sent
    listing,     \* the discussions as the run last read them
    out,         \* the outcomes of the run so far
    sent,        \* history: the comments the page's current run has sent
    stragglers,  \* history: POSTs sent after the merge request had moved
    submissions, \* history: publishing forms submitted, bounded
    invalid      \* forms that failed parsing and are being handled: of which page,
                 \* and the record as the handler read it

fileVars   == <<record, lease>>
remoteVars == <<posted, orphans, lookalikes, revision>>
localVars  == <<pc, mem, todo, cur, listing, out>>
forms      == <<submissions, invalid>>
history    == <<sent, stragglers>>
vars       == <<fileVars, remoteVars, localVars, forms, history>>

-----------------------------------------------------------------------------
(* Outcomes and the saved record. *)

Settled == {"published", "already-published"}

\* PublicationState, with "none" for a finding the record does not name.
State == Settled \cup {"none", "not-selected", "failed-before-send", "stale", "uncertain"}

NoOutcomes == [f \in Findings |-> "none"]

\* recordSubmission: the new outcome wins, except that a settled one is kept
\* against one that is not.
Merge(old, new) ==
    [f \in Findings |->
        IF new[f] = "none" \/ (old[f] \in Settled /\ new[f] \notin Settled)
        THEN old[f] ELSE new[f]]

\* Every comment that was left gets the state the run stopped with.
StopAll(done, left, state) ==
    [f \in Findings |-> IF f \in left THEN state ELSE done[f]]

-----------------------------------------------------------------------------
(* What a request to GitLab can answer. *)

NotesOnMR == {Genuine(f) : f \in {g \in Findings : posted[g] > 0}} \cup lookalikes

\* A successful listing is complete, or says that it is not.
Listings ==
    {[notes |-> NotesOnMR, complete |-> TRUE]} \cup
    [notes : SUBSET NotesOnMR, complete : {FALSE}]
NoListing == [notes |-> {}, complete |-> FALSE]

\* Mutants of Reconcile: a truncated listing taken for the whole, and a note
\* recognised by its marker whoever wrote it.
ReconcileTruncated(l, f) ==
    IF \E n \in l.notes : n.finding = f /\ n.author = "me" /\ n.exact THEN "found" ELSE "absent"
ReconcileAnyAuthor(l, f) ==
    IF \E n \in l.notes : n.finding = f /\ n.exact THEN "found"
    ELSE IF l.complete THEN "absent" ELSE "inconclusive"

\* Whether the comment of finding f is among the notes listed: the marker alone
\* proves nothing, and neither does its absence from an incomplete listing.
Reconcile(l, f) ==
    IF \E n \in l.notes : n.finding = f /\ n.author = "me" /\ n.exact THEN "found"
    ELSE IF l.complete THEN "absent" ELSE "inconclusive"

\* checkRevision, by the state a stop gives the comments that are left: a read
\* can always fail and the merge request can be closed (and reopened) at any
\* time; a diff GitLab is still collecting is as stale as a newer diff.
RevisionAnswers ==
    {"failed-before-send", IF revision = "current" THEN "current" ELSE "stale"}

-----------------------------------------------------------------------------
(* Control locations. *)

\* From the lease being acquired to its being released.
Leased == {"reading", "saving", "identity", "checking", "listing", "next",
           "rechecking", "posting", "wired", "arrived", "dropped", "relisting",
           "recording", "releasing", "removing"}
Location == Leased \cup {"closed", "opening", "reconciled", "idle", "acquiring", "stuck"}

Holds(p) == pc[p] \in Leased

\* The handler of page p forgets its locals and the page goes to location l.
Reset(p, l) ==
    /\ pc' = [pc EXCEPT ![p] = l]
    /\ mem' = [mem EXCEPT ![p] = NoOutcomes]
    /\ todo' = [todo EXCEPT ![p] = {}]
    /\ cur' = [cur EXCEPT ![p] = None]
    /\ listing' = [listing EXCEPT ![p] = NoListing]
    /\ out' = [out EXCEPT ![p] = NoOutcomes]
    /\ sent' = [sent EXCEPT ![p] = {}]

Goto(p, l) == pc' = [pc EXCEPT ![p] = l]

\* Mutant of Stop: the state is given to every selected comment.
StopEverySelected(p, state) ==
    /\ Goto(p, "recording")
    /\ out' = [out EXCEPT ![p] = StopAll(@, {f \in Findings : @[f] # "not-selected"}, state)]
    /\ todo' = [todo EXCEPT ![p] = {}]
    /\ cur' = [cur EXCEPT ![p] = None]
    /\ listing' = [listing EXCEPT ![p] = NoListing]

\* The run of page p ends, the comments that are left getting the state given:
\* none of them is sent.
Stop(p, state) ==
    /\ Goto(p, "recording")
    /\ out' = [out EXCEPT ![p] = StopAll(@, todo[p], state)]
    /\ todo' = [todo EXCEPT ![p] = {}]
    /\ cur' = [cur EXCEPT ![p] = None]
    /\ listing' = [listing EXCEPT ![p] = NoListing]

\* The run is done with comment f and goes on to the next one.
Conclude(p, f, state) ==
    /\ Goto(p, "next")
    /\ out' = [out EXCEPT ![p][f] = state]
    /\ todo' = [todo EXCEPT ![p] = @ \ {f}]
    /\ cur' = [cur EXCEPT ![p] = None]

-----------------------------------------------------------------------------
Init ==
    /\ record = NoOutcomes
    /\ lease = None
    /\ posted = [f \in Findings |-> 0]
    /\ orphans = [f \in Findings |-> 0]
    /\ lookalikes = {}
    /\ revision = "current"
    /\ pc = [p \in Pages |-> "closed"]
    /\ mem = [p \in Pages |-> NoOutcomes]
    /\ todo = [p \in Pages |-> {}]
    /\ cur = [p \in Pages |-> None]
    /\ listing = [p \in Pages |-> NoListing]
    /\ out = [p \in Pages |-> NoOutcomes]
    /\ sent = [p \in Pages |-> {}]
    /\ stragglers = 0
    /\ submissions = 0
    /\ invalid = {}

-----------------------------------------------------------------------------
(* Opening a page: runView up to the page server, without the lease.        *)

HasUncertain(rec) == \E f \in Findings : rec[f] = "uncertain"

Open(p) ==
    /\ pc[p] = "closed"
    /\ IF HasUncertain(record)
       THEN Goto(p, "opening") /\ mem' = [mem EXCEPT ![p] = record]
       ELSE Goto(p, "idle") /\ UNCHANGED mem
    /\ UNCHANGED <<fileVars, remoteVars, todo, cur, listing, out, forms, history>>

\* reconcileUncertainOutcomes: the uncertain comments a listing shows to exist.
Confirmed(rec, l) ==
    {f \in Findings : rec[f] = "uncertain" /\ Reconcile(l, f) = "found"}

ReopenLookup(p) ==
    /\ pc[p] = "opening"
    /\ \E l \in Listings :
         /\ Confirmed(mem[p], l) # {}
         /\ Goto(p, "reconciled")
         /\ out' = [out EXCEPT ![p] = StopAll(NoOutcomes, Confirmed(mem[p], l), "published")]
    /\ UNCHANGED <<fileVars, remoteVars, mem, todo, cur, listing, forms, history>>

\* The account or the discussions cannot be read, or nothing is confirmed.
ReopenUnchanged(p) ==
    /\ pc[p] = "opening"
    /\ Reset(p, "idle")
    /\ UNCHANGED <<fileVars, remoteVars, stragglers, forms>>

ReopenRecord(p) ==
    /\ pc[p] = "reconciled"
    /\ record' = Merge(mem[p], out[p])
    /\ Reset(p, "idle")
    /\ UNCHANGED <<lease, remoteVars, stragglers, forms>>

-----------------------------------------------------------------------------
(* A form that fails parsing still saves its drafts, without slot or lease, *)
(* and from another tab also while its page is publishing: the record is    *)
(* written back as it was read (what drafts say is left out).               *)

Serving(p) == pc[p] \notin {"closed", "opening", "reconciled"}

InvalidForm(p) ==
    /\ Serving(p)
    /\ Cardinality(invalid) < MaxInvalid
    /\ invalid' = invalid \cup {[page |-> p, read |-> record]}
    /\ UNCHANGED <<fileVars, remoteVars, localVars, submissions, history>>

SaveInvalidDrafts(p) ==
    /\ \E form \in invalid :
         /\ form.page = p
         /\ record' = form.read
         /\ invalid' = invalid \ {form}
    /\ UNCHANGED <<lease, remoteVars, localVars, submissions, history>>

-----------------------------------------------------------------------------
(* The publishing form: POST /publish and runPublication.                   *)

\* The session slot is claimed; the form selects some of the findings.
Submit(p) ==
    /\ pc[p] = "idle"
    /\ submissions < MaxSubmissions
    /\ submissions' = submissions + 1
    /\ Goto(p, "acquiring")
    /\ \E selected \in SUBSET Findings :
         /\ todo' = [todo EXCEPT ![p] = selected]
         /\ out' = [out EXCEPT ![p] = StopAll(@, Findings \ selected, "not-selected")]
    /\ UNCHANGED <<fileVars, remoteVars, mem, cur, listing, invalid, history>>

\* Mutant of AcquireLease: the file is written, not created exclusively.
AcquireAnyway(p) ==
    /\ pc[p] = "acquiring"
    /\ lease' = p
    /\ Goto(p, "reading")
    /\ UNCHANGED <<record, remoteVars, mem, todo, cur, listing, out, forms, history>>

AcquireLease(p) ==
    /\ pc[p] = "acquiring"
    /\ lease = None
    /\ lease' = p
    /\ Goto(p, "reading")
    /\ UNCHANGED <<record, remoteVars, mem, todo, cur, listing, out, forms, history>>

\* Mutant of LeaseHeld: the refusal forgets the session's slot.
LeaseHeldKeepsSlot(p) ==
    /\ pc[p] = "acquiring"
    /\ lease # None
    /\ Goto(p, "stuck")
    /\ UNCHANGED <<fileVars, remoteVars, mem, todo, cur, listing, out, forms, history>>

LeaseHeld(p) ==
    /\ pc[p] = "acquiring"
    /\ lease # None
    /\ Reset(p, "idle")
    /\ UNCHANGED <<fileVars, remoteVars, stragglers, forms>>

\* The lease file cannot be created.  This is outside the `try` whose `finally`
\* gives the session's slot back: the slot stays taken.
AcquireFails(p) ==
    /\ FileFaults
    /\ pc[p] = "acquiring"
    /\ lease = None
    /\ \/ UNCHANGED lease
       \/ lease' = p  \* an unreadable file is left, which is a lease as well
    /\ Goto(p, "stuck")
    /\ UNCHANGED <<record, remoteVars, mem, todo, cur, listing, out, forms, history>>

ReadRecord(p) ==
    /\ pc[p] = "reading"
    /\ Goto(p, "saving")
    /\ mem' = [mem EXCEPT ![p] = record]
    /\ UNCHANGED <<fileVars, remoteVars, todo, cur, listing, out, forms, history>>

SaveDrafts(p) ==
    /\ pc[p] = "saving"
    /\ Goto(p, IF todo[p] = {} THEN "recording" ELSE "identity")
    /\ record' = mem[p]
    /\ UNCHANGED <<lease, remoteVars, mem, todo, cur, listing, out, forms, history>>

Identity(p) ==
    /\ pc[p] = "identity"
    /\ \/ Goto(p, "checking") /\ UNCHANGED <<todo, cur, listing, out>>
       \/ Stop(p, "failed-before-send")
    /\ UNCHANGED <<fileVars, remoteVars, mem, forms, history>>

CheckRevision(p) ==
    /\ pc[p] = "checking"
    /\ \E answer \in RevisionAnswers :
         IF answer = "current"
         THEN Goto(p, "listing") /\ UNCHANGED <<todo, cur, listing, out>>
         ELSE Stop(p, answer)
    /\ UNCHANGED <<fileVars, remoteVars, mem, forms, history>>

ListDiscussions(p) ==
    /\ pc[p] = "listing"
    /\ \/ /\ Goto(p, "next")
          /\ \E l \in Listings : listing' = [listing EXCEPT ![p] = l]
          /\ UNCHANGED <<todo, cur, out>>
       \/ Stop(p, "failed-before-send")
    /\ UNCHANGED <<fileVars, remoteVars, mem, forms, history>>

\* One turn of the loop, up to the re-check: f is settled by the record or by
\* the listing, or it must not be sent, or it is the next to send.
Consider(p) ==
    /\ pc[p] = "next"
    /\ \E f \in todo[p] :
         LET known == mem[p][f] \in Settled \/ Reconcile(listing[p], f) = "found"
         IN  \/ known /\ Conclude(p, f, "already-published") /\ UNCHANGED listing
             \/ /\ ~known /\ Reconcile(listing[p], f) = "inconclusive"
                /\ Stop(p, "failed-before-send")
             \/ /\ ~known /\ Reconcile(listing[p], f) = "absent"
                /\ Goto(p, "rechecking")
                /\ cur' = [cur EXCEPT ![p] = f]
                /\ UNCHANGED <<todo, listing, out>>
    /\ UNCHANGED <<fileVars, remoteVars, mem, forms, history>>

\* Mutant of Recheck: the revision is read once per run, before the first POST.
RecheckSkipped(p) ==
    /\ pc[p] = "rechecking"
    /\ Goto(p, "posting")
    /\ UNCHANGED <<fileVars, remoteVars, mem, todo, cur, listing, out, forms, history>>

Recheck(p) ==
    /\ pc[p] = "rechecking"
    /\ \E answer \in RevisionAnswers :
         IF answer = "current"
         THEN Goto(p, "posting") /\ UNCHANGED <<todo, cur, listing, out>>
         ELSE Stop(p, answer)
    /\ UNCHANGED <<fileVars, remoteVars, mem, forms, history>>

Post(p) ==
    /\ pc[p] = "posting"
    /\ Goto(p, "wired")
    /\ sent' = [sent EXCEPT ![p] = @ \cup {cur[p]}]
    /\ stragglers' = IF revision = "current" THEN stragglers ELSE stragglers + 1
    /\ UNCHANGED <<fileVars, remoteVars, mem, todo, cur, listing, out, forms>>

\* glab could not even be started: the one failure that proves nothing left.
PostNotStarted(p) ==
    /\ pc[p] = "posting"
    /\ Conclude(p, cur[p], "failed-before-send")
    /\ UNCHANGED <<fileVars, remoteVars, mem, listing, forms, history>>

\* Mutant of Answered: the provider's word is recorded as the outcome.
AnsweredVerbatim(p) ==
    /\ pc[p] = "arrived"
    /\ Conclude(p, cur[p], "ok")
    /\ UNCHANGED <<fileVars, remoteVars, mem, listing, forms, history>>

Answered(p) ==
    /\ pc[p] = "arrived"
    /\ Conclude(p, cur[p], "published")
    /\ UNCHANGED <<fileVars, remoteVars, mem, listing, forms, history>>

\* A timeout, a truncated or unreadable answer, a nonzero exit.
AnswerLost(p) ==
    /\ \/ pc[p] \in {"arrived", "dropped"} /\ UNCHANGED orphans
       \/ /\ LateDelivery /\ pc[p] = "wired"
          /\ orphans' = [orphans EXCEPT ![cur[p]] = @ + 1]
    /\ Goto(p, "relisting")
    /\ UNCHANGED <<fileVars, posted, lookalikes, revision,
                    mem, todo, cur, listing, out, forms, history>>

\* Mutant of Relist: a comment that is not shown to be absent is published.
RelistOptimistic(p) ==
    /\ pc[p] = "relisting"
    /\ \E l \in Listings :
         /\ listing' = [listing EXCEPT ![p] = l]
         /\ Conclude(p, cur[p], IF Reconcile(l, cur[p]) = "absent" THEN "uncertain" ELSE "published")
    /\ UNCHANGED <<fileVars, remoteVars, mem, forms, history>>

\* The single query after an uncertain delivery; nothing is sent again.
Relist(p) ==
    /\ pc[p] = "relisting"
    /\ \/ \E l \in Listings :
            /\ listing' = [listing EXCEPT ![p] = l]
            /\ Conclude(p, cur[p], IF Reconcile(l, cur[p]) = "found" THEN "published" ELSE "uncertain")
       \/ Conclude(p, cur[p], "uncertain") /\ UNCHANGED listing
    /\ UNCHANGED <<fileVars, remoteVars, mem, forms, history>>

Finish(p) ==
    /\ pc[p] = "next"
    /\ todo[p] = {}
    /\ Stop(p, "none")
    /\ UNCHANGED <<fileVars, remoteVars, mem, forms, history>>

\* Mutant of RecordSubmission: the lease is forgotten once the run is recorded.
RecordWithoutRelease(p) ==
    /\ pc[p] = "recording"
    /\ record' = Merge(mem[p], out[p])
    /\ Reset(p, "idle")
    /\ UNCHANGED <<lease, remoteVars, stragglers, forms>>

\* The record written is the one read before the run, with the run's outcomes.
RecordSubmission(p) ==
    /\ pc[p] = "recording"
    /\ record' = Merge(mem[p], out[p])
    /\ Goto(p, "releasing")
    /\ UNCHANGED <<lease, remoteVars, mem, todo, cur, listing, out, forms, history>>

-----------------------------------------------------------------------------
(* Releasing the lease: the token is read back, then the file removed.      *)

ReadLease(p) ==
    /\ pc[p] = "releasing"
    /\ IF lease = p
       THEN Goto(p, "removing") /\ UNCHANGED <<mem, todo, cur, listing, out, sent>>
       ELSE Reset(p, "idle")
    /\ UNCHANGED <<fileVars, remoteVars, stragglers, forms>>

RemoveLease(p) ==
    /\ pc[p] = "removing"
    /\ lease' = None
    /\ Reset(p, "idle")
    /\ UNCHANGED <<record, remoteVars, stragglers, forms>>

\* The lease cannot be read back or removed: it stays, and the form ends.
ReleaseFails(p) ==
    /\ FileFaults
    /\ pc[p] \in {"releasing", "removing"}
    /\ Reset(p, "idle")
    /\ UNCHANGED <<fileVars, remoteVars, stragglers, forms>>

\* A read or a write of publication.json throws.  `ambicode view` gives up, a
\* run goes to its `finally`.
StoreFails(p) ==
    /\ FileFaults
    /\ \/ pc[p] = "reconciled" /\ Reset(p, "closed")
       \/ /\ pc[p] \in {"reading", "saving", "recording"}
          /\ Goto(p, "releasing")
          /\ UNCHANGED <<mem, todo, cur, listing, out, sent>>
    /\ UNCHANGED <<fileVars, remoteVars, stragglers, forms>>

\* The same under an invalid form, which ends in an error page.
InvalidFormFails(p) ==
    /\ FileFaults
    /\ \E form \in invalid : form.page = p /\ invalid' = invalid \ {form}
    /\ UNCHANGED <<fileVars, remoteVars, localVars, submissions, history>>

-----------------------------------------------------------------------------
(* The environment: the network, the people on the merge request, the      *)
(* person at the page.                                                      *)

\* GitLab creates the comment of the POST that page p is waiting for.
Deliver(p) ==
    /\ pc[p] = "wired"
    /\ Goto(p, "arrived")
    /\ posted' = [posted EXCEPT ![cur[p]] = @ + 1]
    /\ UNCHANGED <<fileVars, orphans, lookalikes, revision,
                    mem, todo, cur, listing, out, forms, history>>

\* The POST never reaches GitLab, or GitLab rejects it.
Drop(p) ==
    /\ pc[p] = "wired"
    /\ Goto(p, "dropped")
    /\ UNCHANGED <<fileVars, remoteVars, mem, todo, cur, listing, out, forms, history>>

\* A POST nobody waits for any more arrives after all, or is lost.
OrphanEnds(f) ==
    /\ orphans[f] > 0
    /\ orphans' = [orphans EXCEPT ![f] = @ - 1]
    /\ \/ posted' = [posted EXCEPT ![f] = @ + 1]
       \/ UNCHANGED posted
    /\ UNCHANGED <<fileVars, lookalikes, revision, localVars, forms, history>>

\* Someone copies a comment with its marker, or another account publishes.
LookAlikeAppears(n) ==
    /\ n \notin lookalikes
    /\ lookalikes' = lookalikes \cup {n}
    /\ UNCHANGED <<fileVars, posted, orphans, revision, localVars, forms, history>>

\* A push gives the merge request another head than the one the review pinned.
Push ==
    /\ revision = "current"
    /\ revision' = "moved"
    /\ UNCHANGED <<fileVars, posted, orphans, lookalikes, localVars, forms, history>>

\* The process of page p dies.  Its POST may outlive it.
Crash(p) ==
    /\ pc[p] # "closed"
    /\ \/ pc[p] # "wired" /\ UNCHANGED orphans
       \/ /\ LateDelivery /\ pc[p] = "wired"
          /\ orphans' = [orphans EXCEPT ![cur[p]] = @ + 1]
    /\ Reset(p, "closed")
    /\ invalid' = {form \in invalid : form.page # p}
    /\ UNCHANGED <<fileVars, posted, lookalikes, revision, stragglers, submissions>>

\* The manual recovery the refusal names: a person removes the lease file.
RecoverLease ==
    /\ lease # None
    /\ CarelessRecovery \/ ~Holds(lease)
    /\ lease' = None
    /\ UNCHANGED <<record, remoteVars, localVars, forms, history>>

-----------------------------------------------------------------------------
\* What the code of page p does once a form or a command has been given to it.
Handler(p) ==
    \/ ReopenLookup(p) \/ ReopenUnchanged(p) \/ ReopenRecord(p)
    \/ AcquireLease(p) \/ LeaseHeld(p) \/ ReadRecord(p) \/ SaveDrafts(p)
    \/ Identity(p) \/ CheckRevision(p) \/ ListDiscussions(p)
    \/ Consider(p) \/ Recheck(p) \/ Post(p) \/ PostNotStarted(p)
    \/ Answered(p) \/ AnswerLost(p) \/ Relist(p) \/ Finish(p)
    \/ RecordSubmission(p) \/ ReadLease(p) \/ RemoveLease(p)

\* What the person at the page, or the machine, may do to it.
Outside(p) ==
    \/ Open(p) \/ InvalidForm(p) \/ Submit(p) \/ Crash(p)
    \/ AcquireFails(p) \/ StoreFails(p) \/ InvalidFormFails(p) \/ ReleaseFails(p)

Network(p) == Deliver(p) \/ Drop(p)

Environment ==
    \/ \E f \in Findings : OrphanEnds(f)
    \/ \E n \in LookAlikes : LookAlikeAppears(n)
    \/ Push \/ RecoverLease

Next ==
    \/ \E p \in Pages : Handler(p) \/ SaveInvalidDrafts(p) \/ Outside(p) \/ Network(p)
    \/ Environment

Spec == Init /\ [][Next]_vars

\* A handler that has been started runs on, and a request ends by its deadline;
\* nothing is assumed of people, pushes, crashes or faults.
FairSpec ==
    Spec /\ \A p \in Pages :
        WF_vars(Handler(p)) /\ WF_vars(SaveInvalidDrafts(p)) /\ WF_vars(Network(p))

-----------------------------------------------------------------------------
Outcomes == [Findings -> State]

\* Every file, local of a handler and counter holds a value of its kind; in
\* particular an outcome is one of the states the schema admits.
TypeOK ==
    /\ record \in Outcomes
    /\ lease \in Pages \cup {None}
    /\ posted \in [Findings -> Nat]
    /\ orphans \in [Findings -> Nat]
    /\ lookalikes \subseteq LookAlikes
    /\ revision \in {"current", "moved"}
    /\ pc \in [Pages -> Location]
    /\ mem \in [Pages -> Outcomes]
    /\ todo \in [Pages -> SUBSET Findings]
    /\ cur \in [Pages -> Findings \cup {None}]
    /\ listing \in [Pages -> [notes: SUBSET Note, complete: BOOLEAN]]
    /\ out \in [Pages -> Outcomes]
    /\ sent \in [Pages -> SUBSET Findings]
    /\ stragglers \in Nat
    /\ submissions \in 0..MaxSubmissions
    /\ invalid \subseteq [page: Pages, read: Outcomes]
-----------------------------------------------------------------------------
(* Safety. *)

\* Two pages never publish the same review at once, the lease being all that
\* keeps two processes apart (acquirePublicationLease).
OnePublisher == \A p, q \in Pages : Holds(p) /\ Holds(q) => p = q

\* No finding gets two comments, whatever is retried, reopened, lost or killed
\* (runPublication: reconcile before each POST, no second POST in a run).
NoDuplicateComment == \A f \in Findings : posted[f] <= 1

\* What the saved record calls published is on the merge request as our own
\* comment at the exact position, whoever else's note carries the marker.
ConfirmedExists ==
    \A f \in Findings : record[f] \in Settled => posted[f] > 0

\* A run never reports as unsent a comment that it sent: stopping at a later
\* comment, and an answer that was lost, leave it "published" or "uncertain".
SentIsNeverReportedUnsent ==
    \A p \in Pages : \A f \in sent[p] :
        out[p][f] \notin {"not-selected", "failed-before-send", "stale", "already-published"}

\* After the merge request moved, one comment at most is still sent, over all
\* pages and retries: the one whose re-check had already been answered.
AtMostOneStraggler == stragglers <= 1

\* A claim the code does not keep, with one page: a finding the saved record
\* confirms stays confirmed (recordSubmission: "a later failure never rewrites
\* a comment that was delivered").  An invalid form of another tab, or another
\* page, writes back a record it read before.
ConfirmedStaysConfirmed ==
    [][\A f \in Findings :
         record[f] \in Settled => record'[f] \in Settled]_record

\* A claim the code does not keep, with one page and two submissions: what is
\* uncertain stays uncertain until it is found on the merge request, so that
\* every reopening looks for it again (docs/review.md:559).
UncertainUntilConfirmed ==
    [][\A f \in Findings :
         record[f] = "uncertain" =>
             record'[f] \in Settled \cup {"uncertain"}]_record

(* Liveness. *)

\* Every publishing form ends: its session slot is given back, or its process
\* has died.
FormEnds == \A p \in Pages : pc[p] = "acquiring" ~> pc[p] \in {"idle", "closed"}

\* A lease is given back by the page that acquired it, unless that page dies.
LeaseIsReleased ==
    \A p \in Pages : Holds(p) ~> lease # p \/ pc[p] = "closed"

(* The promise of the whole, in two variables. *)
Ledger == INSTANCE CommentLedger WITH
            delivered <- posted,
            confirmed <- {f \in Findings : record[f] \in Settled}

\* Publishing implements the ledger: every comment goes from absent to present
\* once, and only what is present is ever recorded as published.
ImplementsLedger == Ledger!Spec
=============================================================================

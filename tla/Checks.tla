------------------------------- MODULE Checks -------------------------------
(***************************************************************************)
(* The checks of a local or branch review (src/checks/run.ts, select.ts,   *)
(* authorize.ts, mutations.ts), the gate in front of the reviewer          *)
(* (src/cli/commands/review.ts) and the person who answers what waits.     *)
(*                                                                         *)
(* A review visits the checks of its projects one after the other.  Each   *)
(* may be refused, may ask, may run a selector, may run its command; all   *)
(* processes run in the developer's checkout, which is fingerprinted       *)
(* around them.  While a check waits, no reviewer is invoked: the person   *)
(* answers with `--approve` or `--decline` and runs the review again.      *)
(***************************************************************************)
EXTENDS Naturals

CONSTANTS
    Count,       \* how many checks are configured, visited in the order 1..Count
    ProjectOf,   \* the project of each check; a project's checks are adjacent
    Configs,     \* configurations a check may have, see Config
    Contents,    \* what the fingerprinted part of the checkout may hold
    Unread,      \* no fingerprint has been taken
    Upfront,     \* sets of keys the person may approve before being asked
    Declinable,  \* keys the person is ready to decline
    Edits        \* whether the checkout is edited by others during a review

Check == 1..Count
Projects == {ProjectOf[c] : c \in Check}

\* How a check is configured.  `policy` is the decision on its command,
\* "absent" standing for a null check, an undeclared or a null command, all of
\* which end the same way.  A "files" selector (lint globs, a mapping) is
\* computed; the two others run a process, and a "command" one is under a
\* policy of its own.
Config == [policy: {"run", "propose", "forbid", "absent"},
           selector: {"files", "related", "command"},
           selectorPolicy: {"run", "propose", "forbid"}]

\* checkApprovalKey and selectorApprovalKey.
CheckKey(c) == <<c, "check">>
SelectorKey(c) == <<c, "selector">>
Keys == Check \X {"check", "selector"}

ASSUME ChecksAssumption ==
    /\ Count \in Nat \ {0}
    /\ ProjectOf \in [Check -> Nat]
    /\ \A c, d, e \in Check :
         c < d /\ d < e /\ ProjectOf[c] = ProjectOf[e] => ProjectOf[d] = ProjectOf[c]
    /\ Configs \subseteq Config
    /\ Unread \notin Contents
    /\ Upfront \subseteq SUBSET Keys
    /\ Declinable \subseteq Keys
    /\ Edits \in BOOLEAN

VARIABLES
    config,      \* the configuration of each check
    tree,        \* what the checkout holds
    status,      \* status of the last review, "none" while one runs
    phase,       \* where the review is
    at,          \* the check it has reached
    approvals,   \* `--approve` keys of this run
    declines,    \* `--decline` keys of this run
    waiting,     \* pendingApprovals of this run
    selection,   \* what the selector of the current check found
    result,      \* status of each result, with the reason of a skipped one
    held,        \* last fingerprint of each project's watch
    reported,    \* checks whose result lists mutations
    \* History, for the properties.
    first,       \* first fingerprint of each project's watch
    before,      \* the checkout when the current process was started
    touched,     \* checks with a process that left the checkout changed
    edited       \* whether anybody else changed the checkout in this run

runVars == <<approvals, declines>>
watchVars == <<held, reported, first, before, touched>>
vars == <<config, tree, status, phase, at, approvals, declines, waiting,
          selection, result, watchVars, edited>>

-----------------------------------------------------------------------------
(* Authorization (authorizeCommand). *)

Allowed(policy, key) == policy = "run" \/ (policy = "propose" /\ key \in approvals)

SelectorAllowed(c) == Allowed(config[c].selectorPolicy, SelectorKey(c))

\* Whether deciding the selection starts a process, and may.
SelectionExecutes(c) ==
    \/ config[c].selector = "related"
    \/ config[c].selector = "command" /\ SelectorAllowed(c)

\* applyLimits: an incomplete, oversized or straying selection needs a person.
\* An empty one never becomes a command, complete ("empty") or not ("unknown").
Selections == {"empty", "unknown", "within", "partial", "beyond"}
HasFiles == selection \in {"within", "partial", "beyond"}
IsComplete == selection \in {"empty", "within", "beyond"}

\* Mutant of NeedsApproval: only the limits ask.
NeedsApprovalByLimits(c) == selection # "within"

\* Either the policy proposed the command, or the selection exceeds the limits.
NeedsApproval(c) == selection # "within" \/ config[c].policy = "propose"

(* The workspace watch (watchWorkspace). *)

\* baseline(): a fingerprint, unless one is held.
Baseline(c) ==
    LET p == ProjectOf[c] IN
    /\ held' = [held EXCEPT ![p] = IF @ = Unread THEN tree ELSE @]
    /\ first' = [first EXCEPT ![p] = IF @ = Unread THEN tree ELSE @]

\* Mutant of Observe: the first fingerprint is kept.
ObserveOnce(c) ==
    /\ reported' = IF held[ProjectOf[c]] # tree THEN reported \cup {c} ELSE reported
    /\ UNCHANGED held

\* observe(): what changed since the last fingerprint is a mutation of this
\* check's result, and the fingerprint is renewed.
Observe(c) ==
    /\ reported' = IF held[ProjectOf[c]] # tree THEN reported \cup {c} ELSE reported
    /\ held' = [held EXCEPT ![ProjectOf[c]] = tree]

\* The end of a process: whether it left the checkout changed.
Ends(c) ==
    /\ touched' = IF before # tree THEN touched \cup {c} ELSE touched
    /\ UNCHANGED <<first, before>>

-----------------------------------------------------------------------------
(* The person at the command line. *)

Init ==
    /\ config \in [Check -> Configs]
    /\ tree \in Contents
    /\ status = "none"
    /\ phase = "idle"
    /\ at = 1
    /\ approvals = {}
    /\ declines = {}
    /\ waiting = {}
    /\ selection = "empty"
    /\ result = [c \in Check |-> "none"]
    /\ held = [p \in Projects |-> Unread]
    /\ reported = {}
    /\ first = [p \in Projects |-> Unread]
    /\ before = tree
    /\ touched = {}
    /\ edited = FALSE

\* A run of `ambicode review` with these answers.
Begin(yes, no) ==
    /\ phase = "idle"
    /\ phase' = "deciding"
    /\ status' = "none"
    /\ at' = 1
    /\ approvals' = yes
    /\ declines' = no
    /\ waiting' = {}
    /\ result' = [c \in Check |-> "none"]
    /\ held' = [p \in Projects |-> Unread]
    /\ reported' = {}
    /\ first' = [p \in Projects |-> Unread]
    /\ touched' = {}
    /\ edited' = FALSE
    /\ selection' = "empty"
    /\ before' = tree
    /\ UNCHANGED <<config, tree>>

Start ==
    /\ status # "waiting"
    /\ \E yes \in Upfront : Begin(yes, {})

\* Every waiting key is answered, and earlier answers are given again: one key
\* answers one run.
Answer ==
    /\ status = "waiting"
    /\ \E yes \in SUBSET waiting :
         /\ waiting \ yes \subseteq Declinable
         /\ Begin(approvals \cup yes, declines \cup (waiting \ yes))

-----------------------------------------------------------------------------
(* One check (the loop of runChecks). *)

\* The result of check c is pushed and the loop goes on.
Push(c, outcome) ==
    /\ result' = [result EXCEPT ![c] = outcome]
    /\ at' = c + 1
    /\ phase' = IF c = Count THEN "gate" ELSE "deciding"

Unrun == <<config, tree, status, runVars, edited>>

\* Nothing to run, or nothing that may ever run.
Refuse(c) ==
    /\ phase = "deciding"
    /\ config[c].policy \in {"forbid", "absent"}
    /\ Push(c, "refused")
    /\ UNCHANGED <<Unrun, waiting, selection, watchVars>>

Considered(c) == phase = "deciding" /\ config[c].policy \in {"run", "propose"}

\* Mutant of SelectorNotAllowed: the question is not put to anybody.
SelectorNotAsked(c) ==
    /\ Considered(c)
    /\ config[c].selector = "command" /\ ~SelectorAllowed(c)
    /\ Push(c, IF config[c].selectorPolicy = "propose" THEN "waiting" ELSE "refused")
    /\ UNCHANGED <<Unrun, waiting, selection, watchVars>>

\* The command that would select may not run: the check is skipped, and a
\* proposed one waits, whatever `declines` holds.
SelectorNotAllowed(c) ==
    /\ Considered(c)
    /\ config[c].selector = "command" /\ ~SelectorAllowed(c)
    /\ \/ /\ config[c].selectorPolicy = "propose"
          /\ waiting' = waiting \cup {SelectorKey(c)}
          /\ Push(c, "waiting")
       \/ /\ config[c].selectorPolicy = "forbid"
          /\ UNCHANGED waiting
          /\ Push(c, "refused")
    /\ UNCHANGED <<Unrun, selection, watchVars>>

SelectByGlobs(c) ==
    /\ Considered(c)
    /\ config[c].selector = "files"
    /\ selection' \in Selections
    /\ phase' = "selected"
    /\ UNCHANGED <<Unrun, at, waiting, result, watchVars>>

StartSelector(c) ==
    /\ Considered(c)
    /\ SelectionExecutes(c)
    /\ Baseline(c)
    /\ before' = tree
    /\ phase' = "selecting"
    /\ UNCHANGED <<Unrun, at, waiting, selection, result, reported, touched>>

\* Mutant of EndSelector: the watch is renewed and what it found is dropped.
EndSelectorQuietly(c) ==
    /\ phase = "selecting"
    /\ held' = [held EXCEPT ![ProjectOf[c]] = tree]
    /\ Ends(c)
    /\ selection' \in Selections
    /\ phase' = "selected"
    /\ UNCHANGED <<Unrun, at, waiting, result, reported>>

EndSelector(c) ==
    /\ phase = "selecting"
    /\ Observe(c)
    /\ Ends(c)
    /\ selection' \in Selections
    /\ phase' = "selected"
    /\ UNCHANGED <<Unrun, at, waiting, result>>

\* An empty selection never becomes a whole-suite command.
NothingSelected(c) ==
    /\ phase = "selected"
    /\ ~HasFiles
    /\ Push(c, "nothing selected")
    /\ UNCHANGED <<Unrun, waiting, selection, watchVars>>

Unapproved(c) ==
    /\ phase = "selected"
    /\ HasFiles
    /\ NeedsApproval(c) /\ CheckKey(c) \notin approvals

\* Mutant of Declined: declines are not read.
DeclinesIgnored(c) == FALSE

Declined(c) == CheckKey(c) \in declines

\* Declined is an answer: the check is evidence, nothing waits.
SkipDeclined(c) ==
    /\ Unapproved(c)
    /\ Declined(c)
    /\ Push(c, "declined")
    /\ UNCHANGED <<Unrun, waiting, selection, watchVars>>

Ask(c) ==
    /\ Unapproved(c)
    /\ ~Declined(c)
    /\ waiting' = waiting \cup {CheckKey(c)}
    /\ Push(c, "waiting")
    /\ UNCHANGED <<Unrun, selection, watchVars>>

MayRun(c) == phase = "selected" /\ HasFiles /\ ~Unapproved(c)

StartCommand(c) ==
    /\ MayRun(c)
    /\ Baseline(c)
    /\ before' = tree
    /\ phase' = "running"
    /\ UNCHANGED <<Unrun, at, waiting, selection, result, reported, touched>>

\* The executable is missing, or the process cannot be started.
NotStarted(c) ==
    /\ MayRun(c)
    /\ LET p == ProjectOf[c] IN
       /\ first' = [first EXCEPT ![p] = IF @ = Unread THEN tree ELSE @]
       /\ held' = [held EXCEPT ![p] = tree]
       /\ reported' = IF held[p] \notin {Unread, tree} THEN reported \cup {c} ELSE reported
    /\ \E outcome \in {"skipped", "error"} : Push(c, outcome)
    /\ UNCHANGED <<Unrun, waiting, selection, before, touched>>

\* A passing run of a selection that may have missed tests.
Passed == IF IsComplete THEN "passed" ELSE "passed in part"

EndCommand(c) ==
    /\ phase = "running"
    /\ Observe(c)
    /\ Ends(c)
    /\ \E outcome \in {Passed, "failed", "timed-out"} : Push(c, outcome)
    /\ UNCHANGED <<Unrun, waiting, selection>>

\* A process that runs changes what is fingerprinted.
Write ==
    /\ phase \in {"selecting", "running"}
    /\ tree' \in Contents \ {tree}
    /\ UNCHANGED <<config, status, phase, at, runVars, waiting, selection,
                   result, watchVars, edited>>

-----------------------------------------------------------------------------
(* The review after its checks (runReview). *)

\* stopForAuthorization: the evidence is saved and no reviewer is invoked.
StopForAuthorization ==
    /\ phase = "gate"
    /\ waiting # {}
    /\ phase' = "idle"
    /\ status' = "waiting"
    /\ UNCHANGED <<config, tree, at, runVars, waiting, selection, result, watchVars, edited>>

InvokeReviewer ==
    /\ phase = "gate"
    /\ waiting = {}
    /\ phase' = "reviewing"
    /\ UNCHANGED <<config, tree, status, at, runVars, waiting, selection, result,
                   watchVars, edited>>

\* applyStatus: an error without a validated answer, complete only if every
\* check passed in full; gaps of other kinds (policy, coverage) may make it partial.
ReviewerEnds ==
    /\ phase = "reviewing"
    /\ phase' = "idle"
    /\ \/ status' \in {"error", "partial"}
       \/ status' = "complete" /\ \A c \in Check : result[c] = "passed"
    /\ UNCHANGED <<config, tree, at, runVars, waiting, selection, result, watchVars, edited>>

\* The process is killed, or an error ends the command.
Abort ==
    /\ phase # "idle"
    /\ phase' = "idle"
    /\ status' = "aborted"
    /\ UNCHANGED <<config, tree, at, runVars, waiting, selection, result, watchVars, edited>>

\* The developer, or a process that outlived its check, changes the checkout.
Edit ==
    /\ Edits
    /\ tree' \in Contents \ {tree}
    /\ edited' = TRUE
    /\ UNCHANGED <<config, status, phase, at, runVars, waiting, selection, result,
                   watchVars>>

-----------------------------------------------------------------------------
Visit(c) ==
    \/ Refuse(c) \/ SelectorNotAllowed(c) \/ SelectByGlobs(c) \/ StartSelector(c)
    \/ EndSelector(c) \/ NothingSelected(c) \/ SkipDeclined(c) \/ Ask(c)
    \/ StartCommand(c) \/ NotStarted(c) \/ EndCommand(c)

\* What the review does on its own.
Proceed ==
    \/ \E c \in Check : at = c /\ Visit(c)
    \/ StopForAuthorization \/ InvokeReviewer \/ ReviewerEnds

Next == Start \/ Answer \/ Proceed \/ Write \/ Abort \/ Edit

Spec == Init /\ [][Next]_vars

\* A review goes on, every process ending at its deadline, and the person does
\* not leave a question unanswered.
FairSpec == Spec /\ WF_vars(Proceed) /\ WF_vars(Answer)

-----------------------------------------------------------------------------
Phases == {"idle", "deciding", "selecting", "selected", "running", "gate", "reviewing"}
Results == {"none", "refused", "waiting", "nothing selected", "declined",
            "skipped", "error", "passed", "passed in part", "failed", "timed-out"}

TypeOK ==
    /\ config \in [Check -> Config]
    /\ tree \in Contents
    /\ status \in {"none", "waiting", "partial", "complete", "error", "aborted"}
    /\ phase \in Phases
    /\ at \in 1..(Count + 1)
    /\ phase \in {"deciding", "selecting", "selected", "running"} => at \in Check
    /\ approvals \subseteq Keys
    /\ declines \subseteq Declinable
    /\ waiting \subseteq Keys
    /\ selection \in Selections
    /\ result \in [Check -> Results]
    /\ held \in [Projects -> Contents \cup {Unread}]
    /\ reported \subseteq Check
    /\ first \in [Projects -> Contents \cup {Unread}]
    /\ before \in Contents
    /\ touched \subseteq Check
    /\ edited \in BOOLEAN

\* No command and no selector command runs against the policy: a forbidden one
\* never, a proposed one, or one over a selection beyond the limits, only with
\* its own key ("approving a test run is not approving the script that decides
\* what to run").  A "related" selector asks the runner without a key.
NothingUnapprovedRuns ==
    /\ phase \in {"selecting", "selected", "running"} /\ config[at].selector = "command" =>
         Allowed(config[at].selectorPolicy, SelectorKey(at))
    /\ phase = "running" =>
         /\ Allowed(config[at].policy, CheckKey(at))
         /\ selection # "within" => CheckKey(at) \in approvals

\* The reviewer is invoked on evidence that is about to change for no check:
\* each has a result, and none of them says it waits for a person.
EvidenceIsSettled ==
    phase = "reviewing" => \A c \in Check : result[c] \notin {"none", "waiting"}

\* While nobody else edits the checkout, a result lists mutations exactly if a
\* process of that very check left the checkout changed.
MutationsAreAttributed == ~edited => reported = touched

\* However the checkout is edited, it is never seen in a state other than the
\* first one seen in that project without some result saying so.
NoSilentDrift ==
    \A p \in Projects :
        held[p] # first[p] => \E c \in reported : ProjectOf[c] = p

\* A person who answers every waiting key, approving or declining, gets the
\* review.
AnswersLeadToReview ==
    (status = "waiting") ~> (status \in {"partial", "complete", "error", "aborted"})
=============================================================================

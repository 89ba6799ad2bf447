---------------------------- MODULE RemoteChecks ----------------------------
(***************************************************************************)
(* The checks of a merge request (src/checks/remote.ts).  The code is      *)
(* somebody else's: a command runs in a container of its own, on a copy of *)
(* the pinned snapshot, or not at all.  Every step is a `docker` process   *)
(* with a deadline; what the daemon did for a process that was given up is *)
(* known to the daemon only.                                               *)
(***************************************************************************)
EXTENDS Naturals

CONSTANTS
    Count,    \* how many checks are configured, visited in the order 1..Count
    Configs   \* configurations a check may have, see Config

Check == 1..Count

\* `policy` is the decision on the command of a check, "absent" standing for a
\* null check, an undeclared or a null command.  A "files" selector (lint
\* globs, a mapping) is computed, an "executing" one would run project code.
Config == [policy: {"run", "propose", "forbid", "absent"},
           selector: {"files", "executing"}]

ASSUME RemoteAssumption ==
    /\ Count \in Nat \ {0}
    /\ Configs \subseteq Config

VARIABLES
    config,      \* the configuration of each check
    approvals,   \* checks approved with `--approve`
    isolation,   \* Isolation: what assessIsolation found
    phase,       \* the step the command is at
    at,          \* the check it has reached
    container,   \* the container of each check, as the daemon has it
    tree,        \* what the workspace of each container holds
    baseline,    \* whether the snapshot could be scanned
    copy,        \* what was copied out of the workspace, "none" if nothing was
    run,         \* how `start --attach` ended
    produced,    \* the result about to be returned, None while there is none
    copies,      \* checks whose inspection directory exists
    result,      \* the results that were returned
    cut          \* history: checks whose client ended before their command

steering == <<config, approvals, isolation, at>>
daemon == <<container, tree>>
client == <<baseline, copy, run, produced, copies>>
vars == <<steering, phase, daemon, client, result, cut>>

None == [status |-> "none", writes |-> "unasked", notes |-> {}]

\* A result without a run: nothing was executed, no mutation is listed.
NotRun(status) == [status |-> status, writes |-> "unasked", notes |-> {}]

Init ==
    /\ config \in [Check -> Configs]
    /\ approvals \in SUBSET Check
    /\ isolation = "unassessed"
    /\ phase = "probe"
    /\ at = 1
    /\ container = [c \in Check |-> "none"]
    /\ tree = [c \in Check |-> "empty"]
    /\ baseline = FALSE
    /\ copy = "none"
    /\ run = "none"
    /\ produced = None
    /\ copies = {}
    /\ result = [c \in Check |-> None]
    /\ cut = {}

-----------------------------------------------------------------------------
(* Before any container. *)

\* No image, one that is not pinned, or none that `image inspect` finds.
AssessIsolation ==
    /\ phase = "probe"
    /\ isolation' \in {"available", "unavailable"}
    /\ phase' = "next"
    /\ UNCHANGED <<config, approvals, at, daemon, client, result, cut>>

\* The loop of runRemoteChecks goes on with `answer` as the result of check c.
Return(c, answer) ==
    /\ result' = [result EXCEPT ![c] = answer]
    /\ at' = c + 1
    /\ phase' = IF c = Count THEN "ended" ELSE "next"
    /\ UNCHANGED <<config, approvals, isolation>>

\* authorizeCommand.  A proposed command without its key waits for nobody.
Allowed(c) ==
    \/ config[c].policy = "run"
    \/ config[c].policy = "propose" /\ c \in approvals

\* Nothing allowed to run, or a selector that would run project code.
Refused(c) == ~Allowed(c) \/ config[c].selector = "executing"

\* Skipped: refused, without a file in scope, or without isolation.
Skip(c) ==
    /\ phase = "next"
    /\ \/ Refused(c) /\ Return(c, NotRun("refused"))
       \/ ~Refused(c) /\ Return(c, NotRun("nothing selected"))
       \/ ~Refused(c) /\ isolation = "unavailable" /\ Return(c, NotRun("unavailable"))
    /\ UNCHANGED <<daemon, client, cut>>

\* Whatever the limits say of a selection with files, it is not asked about.
Enter(c) ==
    /\ phase = "next"
    /\ ~Refused(c) /\ isolation = "available"
    /\ phase' = "create"
    /\ UNCHANGED <<steering, daemon, client, result, cut>>

-----------------------------------------------------------------------------
(* One container (executeInContainer). *)

Create(c) ==
    /\ phase = "create"
    /\ container' = [container EXCEPT ![c] = "created"]
    /\ phase' = "copy in"
    /\ baseline' = FALSE /\ copy' = "none" /\ run' = "none" /\ produced' = None
    /\ UNCHANGED <<steering, tree, copies, result, cut>>

\* `create` failed or was given up: its id is unknown, and the daemon may have
\* made, or still make, the container.
CreateFails(c) ==
    /\ phase = "create"
    /\ \E state \in {"none", "creating"} : container' = [container EXCEPT ![c] = state]
    /\ Return(c, NotRun("not created"))
    /\ UNCHANGED <<tree, client, cut>>

CopyIn(c) ==
    /\ phase = "copy in"
    /\ tree' = [tree EXCEPT ![c] = "snapshot"]
    /\ baseline' \in BOOLEAN
    /\ phase' = "start"
    /\ UNCHANGED <<steering, container, copy, run, produced, copies, result, cut>>

\* Mutant of CopyInFails: the outcome of the copy is not looked at.
CopyInUnchecked(c) ==
    /\ phase = "copy in"
    /\ \E part \in {"empty", "part"} : tree' = [tree EXCEPT ![c] = part]
    /\ phase' = "start"
    /\ UNCHANGED <<steering, container, client, result, cut>>

CopyInFails(c) ==
    /\ phase = "copy in"
    /\ \E part \in {"empty", "part"} : tree' = [tree EXCEPT ![c] = part]
    /\ produced' = NotRun("not copied")
    /\ phase' = "remove"
    /\ UNCHANGED <<steering, container, baseline, copy, run, copies, result, cut>>

Start(c) ==
    /\ phase = "start"
    /\ container' = [container EXCEPT ![c] = "starting"]
    /\ phase' = "attached"
    /\ UNCHANGED <<steering, tree, client, result, cut>>

\* `docker` could not be started ("error"), or could not start the container.
StartFails(c) ==
    /\ phase = "start"
    /\ run' \in {"error", "failed"}
    /\ phase' = "temporary"
    /\ UNCHANGED <<steering, daemon, baseline, copy, produced, copies, result, cut>>

AttachReturns(c) ==
    /\ phase = "attached"
    /\ container[c] = "exited"
    /\ run' \in {"passed", "failed"}
    /\ phase' = "temporary"
    /\ UNCHANGED <<steering, daemon, baseline, copy, produced, copies, result, cut>>

\* Mutant of AttachTimesOut: there is no deadline.
AttachWaits(c) == FALSE

\* The client is gone before the command is.
CutOff(c) == cut' = IF container[c] = "exited" THEN cut ELSE cut \cup {c}

\* The deadline ends the client; the container knows nothing of it.
AttachTimesOut(c) ==
    /\ phase = "attached"
    /\ run' = "timed-out"
    /\ phase' = "temporary"
    /\ CutOff(c)
    /\ UNCHANGED <<steering, daemon, baseline, copy, produced, copies, result>>

\* The client loses the daemon and exits with an error, which is taken for the
\* command's own.
AttachBreaks(c) ==
    /\ phase = "attached"
    /\ run' = "failed"
    /\ phase' = "temporary"
    /\ CutOff(c)
    /\ UNCHANGED <<steering, daemon, baseline, copy, produced, copies, result>>

TemporaryDirectory(c) ==
    /\ phase = "temporary"
    /\ copies' = copies \cup {c}
    /\ phase' = "copy out"
    /\ UNCHANGED <<steering, daemon, baseline, copy, run, produced, result, cut>>

\* observeMutations: the copy is taken unless there is nothing to compare with.
CopyOut(c) ==
    /\ phase = "copy out"
    /\ copy' \in IF baseline THEN {"none", tree[c]} ELSE {"none"}
    /\ phase' = "capture"
    /\ UNCHANGED <<steering, daemon, baseline, run, produced, copies, result, cut>>

\* Mutant of Writes: what could not be inspected is not mentioned.
WritesOrNone(found) == IF found = "changed" THEN "some" ELSE "none"

\* What the result says of the workspace.
Writes(found) ==
    CASE found = "none" -> "unknown"
      [] found = "snapshot" -> "none"
      [] OTHER -> "some"

CaptureOutput(c) ==
    /\ phase = "capture"
    /\ produced' = [status |-> run, writes |-> Writes(copy), notes |-> {}]
    /\ phase' = "remove"
    /\ UNCHANGED <<steering, daemon, baseline, copy, run, copies, result, cut>>

\* The temporary directory or the output file could not be made: an error is
\* on its way out, through the `finally`, and no result.
Throw(c) ==
    /\ phase \in {"temporary", "capture"}
    /\ phase' = "remove"
    /\ UNCHANGED <<steering, daemon, client, result, cut>>

\* `note`: added to the result, if there is one.
Note(line) ==
    produced' = IF produced = None THEN None
                ELSE [produced EXCEPT !.notes = @ \cup {line}]

Remove(c) ==
    /\ phase = "remove"
    /\ container' = [container EXCEPT ![c] = "gone"]
    /\ phase' = "sweep"
    /\ UNCHANGED <<steering, tree, client, result, cut>>

\* Mutant of RemoveFails: the failure is not noted.
RemoveFailsQuietly(c) ==
    /\ phase = "remove"
    /\ phase' = "sweep"
    /\ UNCHANGED <<steering, daemon, client, result, cut>>

\* `rm --force` failed or was given up, and may succeed all the same.
RemoveFails(c) ==
    /\ phase = "remove"
    /\ \E state \in {container[c], "gone"} : container' = [container EXCEPT ![c] = state]
    /\ Note("container not removed")
    /\ phase' = "sweep"
    /\ UNCHANGED <<steering, tree, baseline, copy, run, copies, result, cut>>

\* The end of the `finally`, with the inspection directory deleted or not.
Sweep(c) ==
    /\ phase = "sweep"
    /\ \/ /\ copies' = copies \ {c}
          /\ UNCHANGED produced
       \/ /\ c \in copies
          /\ Note("copy not deleted")
          /\ UNCHANGED copies
    /\ phase' = "return"
    /\ UNCHANGED <<steering, daemon, baseline, copy, run, result, cut>>

ReturnProduced(c) ==
    /\ phase = "return"
    /\ produced # None
    /\ Return(c, produced)
    /\ UNCHANGED <<daemon, client, cut>>

\* The error ends the review.
Rethrow(c) ==
    /\ phase = "return"
    /\ produced = None
    /\ phase' = "failed"
    /\ UNCHANGED <<steering, daemon, client, result, cut>>

-----------------------------------------------------------------------------
(* The daemon, the commands in its containers, and the end of the process. *)

Over == {"ended", "failed", "killed"}

Become(c, from, to) ==
    /\ container[c] = from
    /\ container' = [container EXCEPT ![c] = to]
    /\ UNCHANGED <<steering, phase, tree, client, result, cut>>

LateCreation(c) == Become(c, "creating", "created")
CommandStarts(c) == Become(c, "starting", "running")
CommandEnds(c) == Become(c, "running", "exited")

\* A command writes in its workspace, or takes back what it wrote.
Write(c) ==
    /\ container[c] = "running"
    /\ \E content \in {"snapshot", "changed"} : tree' = [tree EXCEPT ![c] = content]
    /\ UNCHANGED <<steering, phase, container, client, result, cut>>

Kill ==
    /\ phase \notin Over
    /\ phase' = "killed"
    /\ UNCHANGED <<steering, daemon, client, result, cut>>

-----------------------------------------------------------------------------
OnItsOwn(c) ==
    \/ Skip(c) \/ Enter(c) \/ Create(c) \/ CreateFails(c) \/ CopyIn(c)
    \/ CopyInFails(c) \/ Start(c) \/ StartFails(c) \/ AttachReturns(c)
    \/ AttachTimesOut(c) \/ TemporaryDirectory(c) \/ CopyOut(c)
    \/ CaptureOutput(c) \/ Throw(c) \/ Remove(c) \/ RemoveFails(c) \/ Sweep(c) \/ ReturnProduced(c)
    \/ Rethrow(c)

Visit(c) == OnItsOwn(c) \/ AttachBreaks(c)

Proceed == AssessIsolation \/ \E c \in Check : at = c /\ Visit(c)

Environment ==
    \/ \E c \in Check : LateCreation(c) \/ CommandStarts(c) \/ CommandEnds(c) \/ Write(c)
    \/ Kill

Next == Proceed \/ Environment

Spec == Init /\ [][Next]_vars

\* The process goes on: each of its steps has a deadline.  Nothing is assumed
\* of the daemon, which need not be lost, or of the commands, which may run for ever.
GoesOn == AssessIsolation \/ \E c \in Check : at = c /\ OnItsOwn(c)

FairSpec == Spec /\ WF_vars(GoesOn)

-----------------------------------------------------------------------------
Phases == Over \cup {"probe", "next", "create", "copy in", "start", "attached",
                     "temporary", "copy out", "capture", "remove", "sweep", "return"}
Containers == {"none", "creating", "created", "starting", "running", "exited", "gone"}
Workspaces == {"empty", "part", "snapshot", "changed"}
Runs == {"passed", "failed", "timed-out", "error"}
Unrun == {"refused", "nothing selected", "unavailable", "not created", "not copied"}
Lines == {"container not removed", "copy not deleted"}
Result == [status: Runs \cup Unrun \cup {"none"},
           writes: {"unasked", "unknown", "none", "some"},
           notes: SUBSET Lines]

TypeOK ==
    /\ config \in [Check -> Config]
    /\ approvals \subseteq Check
    /\ isolation \in {"unassessed", "available", "unavailable"}
    /\ phase \in Phases
    /\ at \in 1..(Count + 1)
    /\ phase \notin Over => at \in Check
    /\ container \in [Check -> Containers]
    /\ tree \in [Check -> Workspaces]
    /\ baseline \in BOOLEAN
    /\ copy \in Workspaces \cup {"none"}
    /\ run \in Runs \cup {"none"}
    /\ produced \in Result
    /\ copies \subseteq Check
    /\ result \in [Check -> Result]
    /\ cut \subseteq Check

\* Whatever fails on the way, a command of a merge request is started only if
\* the policy or the person allows it, isolated, and on a complete copy of the
\* pinned snapshot.
RunsOnlyPinnedCode ==
    \A c \in Check : container[c] \in {"starting", "running", "exited"} =>
        /\ isolation = "available"
        /\ ~Refused(c)
        /\ tree[c] \in {"snapshot", "changed"}

\* "Disposable means disposed, including after a timeout": once a check has its
\* result, its container and the copy of its workspace are gone, or the result
\* says that they are not.  (A container whose creation failed has no name.)
NothingLeftUnsaid ==
    \A c \in Check : result[c] # None =>
        /\ \/ container[c] \in {"none", "gone"}
           \/ result[c].status = "not created"
           \/ "container not removed" \in result[c].notes
        /\ c \in copies => "copy not deleted" \in result[c].notes

\* What the result of a command that ended under its client says of its writes
\* is what the workspace holds; "silence would be indistinct from 'the command changed
\* nothing'", so what could not be inspected is called unknown.
WritesAreTrue ==
    \A c \in Check \ cut : result[c].status \in Runs =>
        /\ result[c].writes = "none" => tree[c] = "snapshot"
        /\ result[c].writes = "some" => tree[c] = "changed"

\* A command that never ends, or a daemon that never answers, does not keep the
\* review: every check is gone through, or the process ends.
ReviewGoesOn == <>(phase \in Over)
=============================================================================

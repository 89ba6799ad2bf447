------------------------------ MODULE HookMarkers ------------------------------
(***************************************************************************)
(* The edit hook (hook/run-hook.ts, hook/markers.ts).  Claude Code starts  *)
(* one process per event, several at a time, and each may put text into    *)
(* the model's context.  What a session was told is remembered in files:   *)
(* an epoch, renewed whenever the context is, and one marker per subject   *)
(* (a rule on a path, or the operating contract), kept under its epoch.    *)
(***************************************************************************)
EXTENDS Naturals, FiniteSets

CONSTANTS
    Hooks,     \* processes, one event each
    Agents,    \* the main thread and its subagents
    Rules,     \* reminders an edit can call for, each with the hash of its content
    Contract,  \* the shared operating contract
    MaxTogether, \* bound: processes under way at a time
    MaxFailed,   \* bound: processes that fail
    None,      \* no epoch file
    Blank      \* an epoch file that was truncated and not written yet

Subjects == Rules \cup {Contract}
Events == {"SessionStart", "PostCompact", "UserPromptSubmit", "PostToolUse", "SessionEnd"}

ASSUME HookAssumption ==
    /\ Contract \notin Rules
    /\ None # Blank /\ {None, Blank} \cap Nat = {}

ASSUME BoundAssumption == MaxTogether \in Nat /\ MaxFailed \in Nat

VARIABLES
    event,    \* what each process was started for
    agent,    \* and in which agent
    pc,       \* the step each process is at
    mine,     \* the epoch it works under
    left,     \* subjects it has yet to consider
    chosen,   \* subjects it found undelivered, and marked
    told,     \* what it put into the context
    epoch,    \* the epoch file
    markers,  \* the marker files
    ids,      \* how many capabilities were drawn, all different
    skipped,  \* history: subjects it found delivered
    earlier,  \* history: the processes that had ended when it began
    working,  \* history: the processes that knew their epoch when it began
    touched   \* history: the processes that renewed, began or removed an epoch

files == <<epoch, markers, ids, touched>>
own == <<mine, left, chosen, told, skipped>>
given == <<event, agent, earlier, working>>
vars == <<given, pc, own, files>>

Init ==
    /\ event \in [Hooks -> Events]
    /\ agent \in [Hooks -> Agents]
    /\ pc = [h \in Hooks |-> "waiting"]
    /\ mine = [h \in Hooks |-> None]
    /\ left = [h \in Hooks |-> {}]
    /\ chosen = [h \in Hooks |-> {}]
    /\ told = [h \in Hooks |-> {}]
    /\ epoch = None
    /\ markers = {}
    /\ ids = 0
    /\ skipped = [h \in Hooks |-> {}]
    /\ earlier = [h \in Hooks |-> {}]
    /\ working = [h \in Hooks |-> {}]
    /\ touched = {}

At(h, step) == pc[h] = step
Go(h, step) == pc' = [pc EXCEPT ![h] = step]
Over == {"ended", "failed"}
UnderWay == {h \in Hooks : pc[h] \notin Over \cup {"waiting"}}
Failed == {h \in Hooks : At(h, "failed")}

\* resetEpoch comes first where the context is new; an edit only looks.
FirstStep == [SessionStart |-> "clear", PostCompact |-> "clear", SessionEnd |-> "clean up",
              UserPromptSubmit |-> "read epoch", PostToolUse |-> "read epoch"]

\* An edit is first resolved to its project, its policy and their reminders.
Begin(h) ==
    /\ At(h, "waiting") /\ Cardinality(UnderWay) < MaxTogether
    /\ earlier' = [earlier EXCEPT ![h] = {g \in Hooks : pc[g] \in Over}]
    /\ working' = [working EXCEPT ![h] = {g \in Hooks : mine[g] # None}]
    /\ \E wanted \in SUBSET Rules :
          left' = [left EXCEPT ![h] = IF event[h] = "PostToolUse" THEN wanted ELSE {Contract}]
    /\ Go(h, FirstStep[event[h]])
    /\ UNCHANGED <<event, agent, mine, chosen, told, skipped, files>>

\* No Edit or Write, no repository, no project, reminders switched off.
Ignore(h) ==
    /\ At(h, "read epoch")
    /\ event[h] = "PostToolUse" /\ left[h] = {}
    /\ Go(h, "ended")
    /\ UNCHANGED <<given, own, files>>

-----------------------------------------------------------------------------
(* resetEpoch *)

\* The old markers go while the old epoch is still in force.
ClearMarkers(h) ==
    /\ At(h, "clear")
    /\ markers' = {} /\ touched' = touched \cup {h}
    /\ Go(h, "reset")
    /\ UNCHANGED <<given, own, epoch, ids>>

\* Mutant of TruncateForReset: the epoch is left as it was.
KeepEpoch(h) ==
    /\ At(h, "reset")
    /\ Go(h, IF event[h] = "SessionStart" THEN "read epoch" ELSE "ended")
    /\ UNCHANGED <<given, own, files>>

\* writeText truncates the file before it writes it.
TruncateForReset(h) ==
    /\ At(h, "reset")
    /\ epoch' = Blank
    /\ Go(h, "reset written")
    /\ UNCHANGED <<given, own, markers, ids, touched>>

\* A file that was removed meanwhile takes the write with it.
Written == IF epoch = None THEN None ELSE ids

WriteForReset(h) ==
    /\ At(h, "reset written")
    /\ epoch' = Written
    /\ ids' = ids + 1
    /\ Go(h, IF event[h] = "SessionStart" THEN "read epoch" ELSE "ended")
    /\ UNCHANGED <<given, own, markers, touched>>

\* SessionEnd removes everything the session kept.
CleanUp(h) ==
    /\ At(h, "clean up")
    /\ epoch' = None /\ markers' = {} /\ touched' = touched \cup {h}
    /\ Go(h, "ended")
    /\ UNCHANGED <<given, own, ids>>

-----------------------------------------------------------------------------
(* currentEpoch *)

\* Mutant of ReadEpoch: every process begins an epoch of its own.
ReadNoEpoch(h) ==
    /\ At(h, "read epoch") /\ left[h] # {}
    /\ Go(h, "create epoch") /\ UNCHANGED mine
    /\ UNCHANGED <<given, left, chosen, told, skipped, files>>

\* No file, or an empty one: an epoch is begun.
ReadEpoch(h) ==
    /\ At(h, "read epoch") /\ left[h] # {}
    /\ IF epoch \in {None, Blank}
       THEN Go(h, "create epoch") /\ UNCHANGED mine
       ELSE Go(h, "consider") /\ mine' = [mine EXCEPT ![h] = epoch]
    /\ UNCHANGED <<given, left, chosen, told, skipped, files>>

TruncateForEpoch(h) ==
    /\ At(h, "create epoch")
    /\ epoch' = Blank /\ touched' = touched \cup {h}
    /\ Go(h, "epoch written")
    /\ UNCHANGED <<given, own, markers, ids>>

\* Whoever wrote meanwhile, this process works under the epoch it drew.
WriteForEpoch(h) ==
    /\ At(h, "epoch written")
    /\ epoch' = Written
    /\ ids' = ids + 1
    /\ mine' = [mine EXCEPT ![h] = ids]
    /\ Go(h, "consider")
    /\ UNCHANGED <<given, left, chosen, told, skipped, markers, touched>>

-----------------------------------------------------------------------------
(* Delivery *)

\* One marker per epoch, agent and subject.
Key(h, s) == <<mine[h], agent[h], s>>

\* alreadyDelivered
Look(h, s) ==
    /\ At(h, "consider") /\ s \in left[h]
    /\ IF Key(h, s) \in markers
       THEN /\ skipped' = [skipped EXCEPT ![h] = @ \cup {s}]
            /\ left' = [left EXCEPT ![h] = @ \ {s}]
            /\ UNCHANGED <<pc, chosen>>
       ELSE /\ chosen' = [chosen EXCEPT ![h] = @ \cup {s}]
            /\ Go(h, "mark")
            /\ UNCHANGED <<left, skipped>>
    /\ UNCHANGED <<given, mine, told, files>>

\* markDelivered: the marker is there before a word of it is out.
Mark(h) ==
    /\ At(h, "mark")
    /\ markers' = markers \cup {Key(h, s) : s \in chosen[h] \cap left[h]}
    /\ left' = [left EXCEPT ![h] = @ \ chosen[h]]
    /\ Go(h, "consider")
    /\ UNCHANGED <<given, mine, chosen, told, skipped, epoch, ids, touched>>

\* One output with everything that was chosen, or none.
Tell(h) ==
    /\ At(h, "consider") /\ left[h] = {}
    /\ told' = [told EXCEPT ![h] = chosen[h]]
    /\ Go(h, "ended")
    /\ UNCHANGED <<given, mine, left, chosen, skipped, files>>

\* An exception is a silent no-op, and so is a process that is killed: what it
\* marked stays marked.
Fail(h) ==
    /\ pc[h] \notin Over \cup {"waiting"} /\ Cardinality(Failed) < MaxFailed
    /\ Go(h, "failed")
    /\ UNCHANGED <<given, own, files>>

Resetting(h) == ClearMarkers(h) \/ TruncateForReset(h) \/ WriteForReset(h) \/ CleanUp(h)
Finding(h) == ReadEpoch(h) \/ TruncateForEpoch(h) \/ WriteForEpoch(h)
Delivering(h) == Mark(h) \/ Tell(h) \/ \E s \in Subjects : Look(h, s)

Next ==
    \E h \in Hooks :
        Begin(h) \/ Ignore(h) \/ Resetting(h) \/ Finding(h) \/ Delivering(h) \/ Fail(h)

Spec == Init /\ [][Next]_vars

-----------------------------------------------------------------------------

Steps == {"waiting", "clear", "reset", "reset written", "clean up", "read epoch",
          "create epoch", "epoch written", "consider", "mark"} \cup Over

\* Every variable has its type; every process draws two capabilities at most.
TypeOK ==
    /\ event \in [Hooks -> Events]
    /\ agent \in [Hooks -> Agents]
    /\ pc \in [Hooks -> Steps]
    /\ ids \in Nat
    /\ epoch \in 0..ids \cup {None, Blank}
    /\ mine \in [Hooks -> 0..ids \cup {None}]
    /\ left \in [Hooks -> SUBSET Subjects] /\ skipped \in [Hooks -> SUBSET Subjects]
    /\ chosen \in [Hooks -> SUBSET Subjects] /\ told \in [Hooks -> SUBSET Subjects]
    /\ markers \subseteq (0..ids) \X Agents \X Subjects
    /\ earlier \in [Hooks -> SUBSET Hooks] /\ working \in [Hooks -> SUBSET Hooks]
    /\ touched \subseteq Hooks

Renews(h) == event[h] \in {"SessionStart", "PostCompact"}
TouchesEpoch(h) == Renews(h) \/ event[h] = "SessionEnd"

\* A renewal that was over when g began, and nobody else near the epoch since,
\* until h was over: no other renewal, no end of the session, and no process
\* that had found the epoch missing or half written and begins one late.
SameContext(g, h) ==
    \E r \in earlier[g] :
        /\ Renews(r) /\ At(r, "ended")
        /\ ~TouchesEpoch(g) /\ ~TouchesEpoch(h)
        /\ \A x \in touched \ {r, g, h} : x \in earlier[r] \/ h \in earlier[x]

\* run-hook.ts: in one context, what one process told an agent is not told again
\* by a process that begins after it ended, however the others interleave.
DeliveredOnce ==
    \A h \in Hooks : \A g \in earlier[h] :
        agent[g] = agent[h] /\ SameContext(g, h) => told[g] \cap told[h] = {}

\* resetEpoch, currentEpoch: after a renewal of the context, nothing is passed
\* over but what a process chose that found its epoch after the renewal began;
\* no marker of the old context silences the new one.
ToldInEveryContext ==
    \A h \in Hooks : \A r \in earlier[h] :
        Renews(r) /\ At(r, "ended") =>
            \A s \in skipped[h] : \E g \in Hooks \ working[r] :
                s \in chosen[g] /\ agent[g] = agent[h]
=============================================================================

------------------------------- MODULE Installer -------------------------------
(***************************************************************************)
(* install-local.mjs: installing, upgrading and uninstalling the plugin in *)
(* one CLAUDE_CONFIG_DIR.  The script owns a directory with a lock, a      *)
(* state file, a marketplace and a recovery journal; Claude Code owns the  *)
(* registrations, which only its commands change.  A command can fail      *)
(* before or after it took effect, and a process can die at every step.    *)
(***************************************************************************)
EXTENDS Integers, Sequences

CONSTANTS
    Installers,  \* processes, each with one command
    Candidates,  \* packaged plugins, [version, build]
    Places,      \* a scope with its project directory
    None,        \* nothing
    Corrupt,     \* a state file that cannot be read
    FileFaults   \* whether renames and removals can fail

Version == {c.version : c \in Candidates}
Install == [verb: {"install"}, candidate: Candidates, place: Places]
Uninstall == [verb: {"uninstall"}, candidate: {None}, place: Places \cup {None}]

\* The process that made the lock, None for one of an earlier day.
LockFile == [owner: Installers \cup {None}, blank: BOOLEAN]

ASSUME InstallerAssumption ==
    /\ \A c \in Candidates : DOMAIN c = {"version", "build"}
    /\ None \notin Installers /\ None \notin Candidates /\ None \notin Places /\ None \notin Version
    /\ None \notin LockFile
    /\ Corrupt # None /\ {None, Corrupt} \cap [version: Version, place: Places] = {}
    /\ FileFaults \in BOOLEAN

VARIABLES
    command,   \* what each process was asked
    pc,        \* the step each process is at
    attempt,   \* which of its two attempts at the lock
    existed,   \* whether it found a marketplace directory
    undo,      \* compensations, in the order they must run
    result,    \* how its command ended
    lock,      \* the lock file: its creator, and whether it is still blank
    looked,    \* history: the lock that each process looked at before it reclaims
    robbed,    \* history: whether a lock was taken from a process that lives
    state,     \* state.json
    market,    \* what the live marketplace directory holds
    staging,   \* the attempted replacement of each process
    rollback,  \* the previous content each process set aside
    journal,   \* whether recovery-journal.json exists
    catalog,   \* what Claude Code last read from the marketplace
    plugins,   \* the plugin Claude Code has, in each place
    before     \* history: market, state and plugins when the process began

memory == <<command, attempt, existed, undo, before>>
root == <<state, market, staging, rollback, journal>>
native == <<catalog, plugins>>
exclusion == <<lock, looked, robbed>>
vars == <<memory, pc, result, exclusion, root, native>>

\* A new configuration, an installed candidate, one that lost its registration,
\* or one with an unreadable state file; perhaps with the lock of a process that
\* died before it changed anything.
Init ==
    /\ command \in [Installers -> Install \cup Uninstall]
    /\ pc = [p \in Installers |-> "create lock"]
    /\ attempt = [p \in Installers |-> 1]
    /\ existed = [p \in Installers |-> FALSE]
    /\ undo = [p \in Installers |-> <<>>]
    /\ result = [p \in Installers |-> None]
    /\ lock \in {None, [owner |-> None, blank |-> FALSE]}
    /\ looked = [p \in Installers |-> None]
    /\ robbed = FALSE
    /\ staging = [p \in Installers |-> None]
    /\ rollback = [p \in Installers |-> None]
    /\ journal = FALSE
    /\ before = [p \in Installers |-> None]
    /\ \/ /\ market = None /\ state = None /\ catalog = None
          /\ plugins = [l \in Places |-> None]
       \/ \E c \in Candidates, l \in Places, registered \in BOOLEAN, readable \in BOOLEAN :
             /\ market = c
             /\ catalog = IF registered THEN c ELSE None
             /\ plugins = [k \in Places |-> IF k = l /\ registered THEN c ELSE None]
             /\ state = IF readable THEN [version |-> c.version, place |-> l] ELSE Corrupt

Alive(p) == pc[p] \notin {"dead", "done"}
At(p, step) == pc[p] = step
Go(p, step) == pc' = [pc EXCEPT ![p] = step]

\* The command returns `answer`; the lock is given back in the finally block.
Return(p, answer) ==
    /\ result' = [result EXCEPT ![p] = answer]
    /\ Go(p, "release")

-----------------------------------------------------------------------------
(* The lock (acquireLock). *)

\* writeFile with the flag `wx` creates the file before it writes it.
CreateLock(p) ==
    /\ At(p, "create lock")
    /\ \/ lock = None /\ lock' = [owner |-> p, blank |-> TRUE] /\ Go(p, "write lock")
       \/ lock # None /\ lock' = lock /\ Go(p, "read holder")
    /\ UNCHANGED <<memory, result, looked, robbed, root, native>>

WriteLock(p) ==
    /\ At(p, "write lock")
    /\ lock' = IF lock # None /\ lock.owner = p THEN [lock EXCEPT !.blank = FALSE] ELSE lock
    /\ Go(p, "begin")
    /\ UNCHANGED <<memory, result, looked, robbed, root, native>>

\* The directory cannot be made, or went while an uninstall removes it; the file
\* cannot be created, written or removed.  Nothing gives a blank one back.
LockFails(p) ==
    /\ pc[p] \in {"create lock", "write lock", "reclaim"}
    /\ FileFaults \/ (At(p, "create lock") /\ \E q \in Installers : At(q, "remove root"))
    /\ result' = [result EXCEPT ![p] = "no lock"]
    /\ Go(p, "done")
    /\ UNCHANGED <<memory, exclusion, root, native>>

\* A process that is named, and runs.  A blank file names nobody.
Lives(holder) == holder # None /\ ~holder.blank /\ holder.owner # None /\ Alive(holder.owner)

\* Mutant of HolderLives: a recorded process is taken for gone.
HolderNeverLives == FALSE

HolderLives == Lives(lock)

\* The lock may be gone, or another one, by the time it is read.
ReadHolder(p) ==
    /\ At(p, "read holder")
    /\ IF HolderLives
       THEN result' = [result EXCEPT ![p] = "locked"] /\ Go(p, "done") /\ UNCHANGED looked
       ELSE Go(p, "reclaim") /\ looked' = [looked EXCEPT ![p] = lock] /\ UNCHANGED result
    /\ UNCHANGED <<memory, lock, robbed, root, native>>

\* The lock that p is about to remove belongs to a process that runs, and p has
\* not read its name: it was blank, or not there, or another one, when p looked.
Unseen(p) ==
    /\ lock # None /\ lock.owner # None /\ Alive(lock.owner)
    /\ lock.blank \/ looked[p] # lock

\* Whatever file is there by now is removed, whoever made it since.
Reclaim(p) ==
    /\ At(p, "reclaim")
    /\ robbed' = (robbed \/ Unseen(p))
    /\ lock' = None
    /\ looked' = [looked EXCEPT ![p] = None]
    /\ attempt' = [attempt EXCEPT ![p] = @ + 1]
    /\ IF attempt[p] = 1
       THEN Go(p, "create lock") /\ UNCHANGED result
       ELSE result' = [result EXCEPT ![p] = "locked"] /\ Go(p, "done")
    /\ UNCHANGED <<command, existed, undo, before, root, native>>

\* Whatever file is there by now: after an uninstall, it is not its own.
Release(p) ==
    /\ At(p, "release")
    /\ robbed' = (robbed \/ (lock # None /\ lock.owner # p))
    /\ lock' = None
    /\ Go(p, "done")
    /\ UNCHANGED <<memory, result, looked, root, native>>

-----------------------------------------------------------------------------
(* Install, up to the live directory. *)

Candidate(p) == command[p].candidate
Place(p) == command[p].place

Recorded == state \notin {None, Corrupt}
OtherPlace(p) == Recorded /\ state.place # Place(p)
SameVersion(p) == Recorded /\ state.version = Candidate(p).version

\* Mutant of ChangedUnderVersion: the version alone identifies a candidate.
VersionIsEnough(p) == SameVersion(p) /\ market = None

\* The recorded source is missing, or its fingerprint is another one.
ChangedUnderVersion(p) == SameVersion(p) /\ market # Candidate(p)

RefuseInstall(p) ==
    /\ At(p, "begin") /\ command[p].verb = "install"
    /\ state = Corrupt \/ OtherPlace(p) \/ ChangedUnderVersion(p)
    /\ Return(p, "refused")
    /\ UNCHANGED <<memory, exclusion, root, native>>

BeginInstall(p) ==
    /\ At(p, "begin") /\ command[p].verb = "install"
    /\ state # Corrupt /\ ~OtherPlace(p) /\ ~ChangedUnderVersion(p)
    /\ existed' = [existed EXCEPT ![p] = market # None]
    /\ before' = [before EXCEPT ![p] = [market |-> market, state |-> state, plugins |-> plugins]]
    /\ Go(p, "stage")
    /\ UNCHANGED <<command, attempt, undo, result, exclusion, root, native>>

\* The copy is built, and validated by this script and by Claude Code.
Stage(p) ==
    /\ At(p, "stage")
    /\ staging' = [staging EXCEPT ![p] = Candidate(p)]
    /\ Go(p, "set aside")
    /\ UNCHANGED <<memory, result, exclusion, state, market, rollback, journal, native>>

StageInvalid(p) ==
    /\ At(p, "stage")
    /\ Return(p, "refused")
    /\ UNCHANGED <<memory, exclusion, root, native>>

\* rename() refuses a directory that is gone, or one that is in the way.
SetAside(p) ==
    /\ At(p, "set aside")
    /\ existed[p] => market # None
    /\ rollback' = [rollback EXCEPT ![p] = IF existed[p] THEN market ELSE None]
    /\ market' = IF existed[p] THEN None ELSE market
    /\ Go(p, "publish")
    /\ UNCHANGED <<memory, result, exclusion, state, staging, journal, native>>

\* Compensating actions.
To(step) == [step |-> step, version |-> None]
DowngradeTo(version) == [step |-> "downgrade", version |-> version]

\* From here on a failure is compensated: first the registrations of a fresh
\* install and then its directory, or the previous directory and then a refresh.
Publish(p) ==
    /\ At(p, "publish") /\ market = None
    /\ market' = staging[p]
    /\ staging' = [staging EXCEPT ![p] = None]
    /\ undo' = [undo EXCEPT ![p] =
          IF existed[p] THEN <<To("restore"), To("refresh")>> ELSE <<To("unregister"), To("restore")>>]
    /\ Go(p, "add")
    /\ UNCHANGED <<command, attempt, existed, before, result, exclusion, state, rollback, journal, native>>

\* An exception before the compensations exist: only the lock is given back.
ThrowUncompensated(p) ==
    /\ \/ At(p, "set aside") /\ (FileFaults \/ (existed[p] /\ market = None))
       \/ At(p, "publish") /\ (FileFaults \/ market # None)
    /\ Return(p, "threw")
    /\ UNCHANGED <<memory, exclusion, root, native>>

-----------------------------------------------------------------------------
(* Claude Code, as far as its answers and effects are relied on.  A command *)
(* that fails may have taken effect or not.                                 *)

Registered == catalog' = (IF catalog = None THEN market ELSE catalog) /\ UNCHANGED plugins
Refreshed == catalog # None /\ market # None /\ catalog' = market /\ UNCHANGED plugins
Unregistered == catalog' = None /\ UNCHANGED plugins

PluginInstalled(l) == catalog # None /\ plugins' = [plugins EXCEPT ![l] = catalog] /\ UNCHANGED catalog
PluginUninstalled(l) == plugins' = [plugins EXCEPT ![l] = None] /\ UNCHANGED catalog

\* An update to the version that is there leaves the cached content alone.
PluginUpdated(l) ==
    /\ catalog # None /\ plugins[l] # None
    /\ plugins' = [plugins EXCEPT ![l] = IF @.version = catalog.version THEN @ ELSE catalog]
    /\ UNCHANGED catalog

\* A normalized failure: it says nothing of what the command did.
Failed(effect) == effect \/ UNCHANGED native

-----------------------------------------------------------------------------
(* Install, with Claude Code.                                               *)

Unwind(p) == Go(p, "compensate")

AddMarketplace(p) ==
    /\ At(p, "add")
    /\ \/ Registered /\ Go(p, "refresh")
       \/ Failed(Registered) /\ Unwind(p)
    /\ UNCHANGED <<memory, result, exclusion, root>>

UpdateMarketplace(p) ==
    /\ At(p, "refresh")
    /\ \/ Refreshed /\ Go(p, "list")
       \/ Failed(Refreshed) /\ Unwind(p)
    /\ UNCHANGED <<memory, result, exclusion, root>>

Current(p) == plugins[Place(p)]

\* What has to be done for the plugin, and undone first or last.
ListPlugins(p) ==
    /\ At(p, "list")
    /\ \/ /\ Current(p) = None
          /\ undo' = [undo EXCEPT ![p] = <<To("uninstall")>> \o @]
          /\ Go(p, "install")
       \/ /\ Current(p) # None
          /\ Current(p).version # Candidate(p).version
          /\ undo' = [undo EXCEPT ![p] = Append(@, DowngradeTo(Current(p).version))]
          /\ Go(p, "update")
       \/ /\ Current(p) # None
          /\ Current(p).version = Candidate(p).version
          /\ Go(p, "verify") /\ UNCHANGED undo
       \/ Unwind(p) /\ UNCHANGED undo
    /\ UNCHANGED <<command, attempt, existed, before, result, exclusion, root, native>>

InstallPlugin(p) ==
    /\ At(p, "install")
    /\ \/ PluginInstalled(Place(p)) /\ Go(p, "verify")
       \/ Failed(PluginInstalled(Place(p))) /\ Unwind(p)
    /\ UNCHANGED <<memory, result, exclusion, root>>

UpdatePlugin(p) ==
    /\ At(p, "update")
    /\ \/ PluginUpdated(Place(p)) /\ Go(p, "verify")
       \/ Failed(PluginUpdated(Place(p))) /\ Unwind(p)
    /\ UNCHANGED <<memory, result, exclusion, root>>

\* verifyPostcondition: the version that is reported, never an exit code.
Postcondition(l, version) == plugins[l] # None /\ plugins[l].version = version

\* The list can fail, and report a plugin that is disabled or does not load.
Verify(p) ==
    /\ At(p, "verify")
    /\ \/ Postcondition(Place(p), Candidate(p).version) /\ Go(p, "record")
       \/ Unwind(p)
    /\ UNCHANGED <<memory, result, exclusion, root, native>>

\* Mutant of RecordState: the previous content goes before the record is written.
RecordAfterDiscarding(p) ==
    /\ At(p, "record")
    /\ rollback' = [rollback EXCEPT ![p] = None]
    /\ \/ /\ state' = [version |-> Candidate(p).version, place |-> Place(p)]
          /\ Go(p, "discard")
       \/ FileFaults /\ Unwind(p) /\ UNCHANGED state
    /\ UNCHANGED <<memory, result, exclusion, market, staging, journal, native>>

\* A new file, renamed over the old one.
RecordState(p) ==
    /\ At(p, "record")
    /\ \/ /\ state' = [version |-> Candidate(p).version, place |-> Place(p)]
          /\ Go(p, "discard")
       \/ FileFaults /\ Unwind(p) /\ UNCHANGED state
    /\ UNCHANGED <<memory, result, exclusion, market, staging, rollback, journal, native>>

Discard(p) ==
    /\ At(p, "discard")
    /\ \/ rollback' = [rollback EXCEPT ![p] = None] /\ journal' = FALSE /\ Return(p, "installed")
       \/ FileFaults /\ Return(p, "threw") /\ UNCHANGED <<rollback, journal>>
    /\ UNCHANGED <<memory, exclusion, state, market, staging, native>>

-----------------------------------------------------------------------------
(* Compensation (failWithCompensation). *)

Undoing(p, step) ==
    /\ At(p, "compensate")
    /\ undo[p] # <<>> /\ Head(undo[p]).step = step

Undone(p) ==
    /\ undo' = [undo EXCEPT ![p] = Tail(@)]
    /\ Go(p, "compensate")
    /\ UNCHANGED <<command, attempt, existed, before, result>>

\* The first one that fails ends them all: a later one might remove what it needs.
NotUndone(p) ==
    /\ Return(p, "journaled")
    /\ UNCHANGED memory

\* Mutant of UndoUninstall: a normalized failure is not turned into an exception.
UndoUninstallUnchecked(p) ==
    /\ Undoing(p, "uninstall")
    /\ Failed(PluginUninstalled(Place(p)))
    /\ Undone(p)
    /\ UNCHANGED <<exclusion, root>>

UndoUninstall(p) ==
    /\ Undoing(p, "uninstall")
    /\ \/ PluginUninstalled(Place(p)) /\ Undone(p) /\ UNCHANGED journal
       \/ Failed(PluginUninstalled(Place(p))) /\ NotUndone(p) /\ journal' = TRUE
    /\ UNCHANGED <<exclusion, state, market, staging, rollback>>

UndoRegistration(p) ==
    /\ Undoing(p, "unregister")
    /\ \/ Unregistered /\ Undone(p) /\ UNCHANGED journal
       \/ Failed(Unregistered) /\ NotUndone(p) /\ journal' = TRUE
    /\ UNCHANGED <<exclusion, state, market, staging, rollback>>

RemovePublished(p) ==
    /\ Undoing(p, "restore")
    /\ \/ market' = None /\ Go(p, "put back") /\ UNCHANGED <<memory, result, journal>>
       \/ FileFaults /\ NotUndone(p) /\ journal' = TRUE /\ UNCHANGED market
    /\ UNCHANGED <<exclusion, state, staging, rollback, native>>

PutBack(p) ==
    /\ At(p, "put back")
    /\ \/ /\ market = None \/ rollback[p] = None
          /\ market' = IF rollback[p] = None THEN market ELSE rollback[p]
          /\ rollback' = [rollback EXCEPT ![p] = None]
          /\ Undone(p) /\ UNCHANGED journal
       \/ /\ FileFaults \/ market # None
          /\ NotUndone(p) /\ journal' = TRUE /\ UNCHANGED <<market, rollback>>
    /\ UNCHANGED <<exclusion, state, staging, native>>

UndoRefresh(p) ==
    /\ Undoing(p, "refresh")
    /\ \/ Refreshed /\ Undone(p) /\ UNCHANGED journal
       \/ Failed(Refreshed) /\ NotUndone(p) /\ journal' = TRUE
    /\ UNCHANGED <<exclusion, state, market, staging, rollback>>

\* Proven by the list: an update that did nothing is a failure.
UndoUpdate(p) ==
    /\ Undoing(p, "downgrade")
    /\ \/ /\ PluginUpdated(Place(p))
          /\ plugins'[Place(p)].version = Head(undo[p]).version
          /\ Undone(p) /\ UNCHANGED journal
       \/ Failed(PluginUpdated(Place(p))) /\ NotUndone(p) /\ journal' = TRUE
    /\ UNCHANGED <<exclusion, state, market, staging, rollback>>

\* Everything is as it was: the command failed, and no journal is needed.
Compensated(p) ==
    /\ At(p, "compensate") /\ undo[p] = <<>>
    /\ journal' = FALSE
    /\ Return(p, "failed")
    /\ UNCHANGED <<memory, exclusion, state, market, staging, rollback, native>>

-----------------------------------------------------------------------------
(* Uninstall. *)

EndUninstall(p) ==
    /\ At(p, "begin") /\ command[p].verb = "uninstall"
    /\ \/ state = None /\ Return(p, "nothing installed")
       \/ state = Corrupt /\ Return(p, "refused")
       \/ Recorded /\ Place(p) \notin {None, state.place} /\ Return(p, "refused")
    /\ UNCHANGED <<memory, exclusion, root, native>>

BeginUninstall(p) ==
    /\ At(p, "begin") /\ command[p].verb = "uninstall"
    /\ Recorded /\ Place(p) \in {None, state.place}
    /\ before' = [before EXCEPT ![p] = [market |-> market, state |-> state, plugins |-> plugins]]
    /\ Go(p, "uninstall")
    /\ UNCHANGED <<command, attempt, existed, undo, result, exclusion, root, native>>

\* Accepted if the plugin was not installed any more.
UninstallPlugin(p) ==
    /\ At(p, "uninstall")
    /\ LET place == before[p].state.place
       IN  \/ PluginUninstalled(place) /\ Go(p, "unregister") /\ UNCHANGED result
           \/ Failed(PluginUninstalled(place)) /\ Return(p, "not uninstalled")
    /\ UNCHANGED <<memory, exclusion, root>>

RemoveMarketplace(p) ==
    /\ At(p, "unregister")
    /\ \/ Unregistered /\ Go(p, "remove source") /\ UNCHANGED result
       \/ Failed(Unregistered) /\ Return(p, "not uninstalled")
    /\ UNCHANGED <<memory, exclusion, root>>

RemoveSource(p) ==
    /\ At(p, "remove source")
    /\ \/ market' = None /\ Go(p, "remove root") /\ UNCHANGED result
       \/ FileFaults /\ Return(p, "threw") /\ UNCHANGED market
    /\ UNCHANGED <<memory, exclusion, state, staging, rollback, journal, native>>

\* All that the directory holds besides the lock.
Emptied ==
    /\ state = None /\ market = None /\ ~journal
    /\ \A q \in Installers : staging[q] = None /\ rollback[q] = None

\* The directory goes entry by entry, its own lock one of them: whoever comes
\* once that is gone does not wait for the rest.
RemoveRest(p) ==
    /\ At(p, "remove root") /\ ~Emptied
    /\ state' = None /\ market' = None /\ journal' = FALSE
    /\ staging' = [q \in Installers |-> None]
    /\ rollback' = [q \in Installers |-> None]
    /\ UNCHANGED <<memory, pc, result, exclusion, native>>

RemoveLock(p) ==
    /\ At(p, "remove root") /\ lock # None
    /\ lock' = None
    /\ robbed' = (robbed \/ ~Emptied)
    /\ IF Emptied
       THEN \E answer \in {"uninstalled", "threw"} : Return(p, answer)
       ELSE UNCHANGED <<pc, result>>
    /\ UNCHANGED <<memory, looked, root, native>>

\* All gone; or something that cannot go, or came meanwhile.
EndRemoval(p) ==
    /\ At(p, "remove root")
    /\ \/ Emptied /\ lock = None /\ Return(p, "uninstalled")
       \/ FileFaults /\ Return(p, "threw")
    /\ UNCHANGED <<memory, exclusion, root, native>>

-----------------------------------------------------------------------------

\* The process is killed: nothing of it is undone, its lock stays.
Die(p) ==
    /\ Alive(p)
    /\ Go(p, "dead")
    /\ UNCHANGED <<memory, result, exclusion, root, native>>

Locking(p) == CreateLock(p) \/ WriteLock(p) \/ LockFails(p) \/ ReadHolder(p) \/ Reclaim(p) \/ Release(p)

Publishing(p) ==
    \/ RefuseInstall(p) \/ BeginInstall(p) \/ Stage(p) \/ StageInvalid(p)
    \/ SetAside(p) \/ Publish(p) \/ ThrowUncompensated(p)

Registering(p) ==
    \/ AddMarketplace(p) \/ UpdateMarketplace(p) \/ ListPlugins(p)
    \/ InstallPlugin(p) \/ UpdatePlugin(p)
    \/ Verify(p) \/ RecordState(p) \/ Discard(p)

Compensating(p) ==
    \/ UndoUninstall(p) \/ UndoRegistration(p) \/ RemovePublished(p) \/ PutBack(p)
    \/ UndoRefresh(p) \/ UndoUpdate(p) \/ Compensated(p)

Uninstalling(p) ==
    \/ EndUninstall(p) \/ BeginUninstall(p) \/ UninstallPlugin(p)
    \/ RemoveMarketplace(p) \/ RemoveSource(p)
    \/ RemoveRest(p) \/ RemoveLock(p) \/ EndRemoval(p)

Next ==
    \E p \in Installers :
        \/ Locking(p) \/ Publishing(p) \/ Registering(p)
        \/ Compensating(p) \/ Uninstalling(p) \/ Die(p)

Spec == Init /\ [][Next]_vars

-----------------------------------------------------------------------------

Steps == {"create lock", "write lock", "read holder", "reclaim", "begin", "stage", "set aside",
          "publish", "add", "refresh", "list", "install", "update", "verify", "record",
          "discard", "compensate", "put back", "uninstall", "unregister", "remove source",
          "remove root", "release", "done", "dead"}

Results == {"locked", "no lock", "refused", "threw", "installed", "failed", "journaled",
            "nothing installed", "not uninstalled", "uninstalled"}

ASSUME ResultAssumption == None \notin Results

States == [version: Version, place: Places] \cup {None, Corrupt}

\* Every variable has its type.
TypeOK ==
    /\ command \in [Installers -> Install \cup Uninstall]
    /\ pc \in [Installers -> Steps]
    /\ attempt \in [Installers -> 1..3]
    /\ existed \in [Installers -> BOOLEAN]
    /\ result \in [Installers -> Results \cup {None}]
    /\ lock \in LockFile \cup {None}
    /\ looked \in [Installers -> LockFile \cup {None}]
    /\ robbed \in BOOLEAN
    /\ state \in States
    /\ market \in Candidates \cup {None}
    /\ staging \in [Installers -> Candidates \cup {None}]
    /\ rollback \in [Installers -> Candidates \cup {None}]
    /\ journal \in BOOLEAN
    /\ catalog \in Candidates \cup {None}
    /\ plugins \in [Places -> Candidates \cup {None}]

Mutating(p) == pc[p] \notin {"create lock", "write lock", "read holder", "reclaim",
                             "release", "done", "dead"}

\* acquireLock: two installers never change the same directory at once, dead
\* holders, half-written locks and second attempts included, until a lock is taken
\* from a process that runs: by one that reclaims it without having read its name,
\* or with the directory that an uninstall removes.
OneMutator == ~robbed => \A p, q \in Installers : Mutating(p) /\ Mutating(q) => p = q

\* acquireLock, in its own words: never.  It does not hold.
NeverConcurrently == \A p, q \in Installers : Mutating(p) /\ Mutating(q) => p = q

VersionAt(place, all) == IF all[place] = None THEN None ELSE all[place].version

\* install: a failure that wrote no journal left what it found, the directory,
\* the record and the plugin, whatever Claude Code's commands did before failing;
\* as long as no lock was taken from anybody.
FailureRestores ==
    ~robbed =>
    \A p \in Installers :
        At(p, "release") /\ result[p] = "failed" =>
            /\ market = before[p].market
            /\ state = before[p].state
            /\ \A l \in Places : VersionAt(l, plugins) = VersionAt(l, before[p].plugins)

Sources == ({market} \cup {rollback[p] : p \in Installers}) \ {None}

RecordedSource == Recorded /\ \E source \in Sources : source.version = state.version

\* install (D9), uninstall: the source of the recorded version is on disk, live or
\* set aside, until another version with its source is recorded, and otherwise goes
\* after the plugin: no crash, failed rename or failed compensation loses it, as
\* long as no lock was taken from anybody.
SourceSurvives ==
    [][~robbed' /\ RecordedSource /\ Recorded' /\ ~RecordedSource' => plugins[state.place] = None]_vars

\* The inspect command.
Inspect ==
    IF state = Corrupt THEN "corrupt"
    ELSE IF state = None THEN "not installed"
    ELSE IF Postcondition(state.place, state.version) THEN "installed"
    ELSE "disagrees"

\* A compensation that failed, or a process that died, left something behind.
Disturbed == \E p \in Installers : pc[p] = "dead" \/ result[p] \in {"journaled", "threw"}

\* install, inspect: "installed" is said only of a plugin that the record, the
\* directory and Claude Code agree on; its very build, unless an earlier
\* installer died or could not compensate.  As long as no lock was taken.
InstalledIsTrue ==
    ~robbed =>
    \A p \in Installers :
        At(p, "release") /\ result[p] = "installed" =>
            /\ state = [version |-> Candidate(p).version, place |-> Place(p)]
            /\ market = Candidate(p)
            /\ Inspect = "installed"
            /\ Disturbed \/ Current(p) = Candidate(p)
=============================================================================

------------------------- MODULE RemoteChecksProofs -------------------------
(* What holds of RemoteChecks for any number of checks, however configured. *)
EXTENDS RemoteChecks, TLAPS

\* The phases in which the current check may have a container.
Inside == {"create", "copy in", "start", "attached", "temporary", "copy out",
           "capture", "remove", "sweep", "return"}

\* Nothing exists of a check the loop has not come to.
Fresh ==
    /\ phase = "probe" => at = 1
    /\ \A c \in Check : c >= at =>
         /\ result[c] = None
         /\ c > at \/ phase \in {"probe", "next", "create"} =>
              container[c] = "none" /\ c \notin copies

\* The container of the current check is where the steps behind it left it.
Staged ==
    /\ phase \in Inside => ~Refused(at) /\ isolation = "available"
    /\ phase \in {"copy in", "start", "attached", "temporary", "copy out", "capture"} =>
         produced = None
    /\ phase = "copy in" => container[at] = "created"
    /\ phase = "start" => container[at] = "created" /\ tree[at] = "snapshot"
    /\ phase = "attached" =>
         /\ container[at] \in {"starting", "running", "exited"}
         /\ tree[at] \in {"snapshot", "changed"}
    /\ phase \in {"temporary", "copy out", "capture"} =>
         /\ run \in Runs
         /\ tree[at] \in {"snapshot", "changed"}
         /\ at \notin cut => container[at] \in {"created", "exited"}
    /\ phase = "capture" =>
         /\ copy \in {"none", "snapshot", "changed"}
         /\ at \notin cut => copy \in {"none", tree[at]}

\* What a result says of the writes of a command that ended under its client
\* holds for good: the container of the command does not run any more.
Holds(c, answer) ==
    c \notin cut /\ answer.status \in Runs =>
        /\ container[c] \notin {"starting", "running"}
        /\ answer.writes = "none" => tree[c] = "snapshot"
        /\ answer.writes = "some" => tree[c] = "changed"

Told ==
    /\ \A c \in Check : Holds(c, result[c])
    /\ phase \in {"remove", "sweep", "return"} => Holds(at, produced)

\* The result on its way out says what the `finally` did not achieve.
Accounted ==
    /\ phase \in {"sweep", "return"} /\ produced # None =>
         container[at] = "gone" \/ "container not removed" \in produced.notes
    /\ phase = "return" /\ produced # None /\ at \in copies =>
         "copy not deleted" \in produced.notes

IInv ==
    /\ TypeOK /\ Fresh /\ Staged /\ Told /\ Accounted
    /\ RunsOnlyPinnedCode /\ NothingLeftUnsaid

-----------------------------------------------------------------------------
(* Results. *)

LEMMA Records ==
    /\ None \in Result /\ None.status = "none"
    /\ \A status \in Unrun :
         /\ NotRun(status) \in Result /\ NotRun(status) # None
         /\ NotRun(status).status = status
BY DEF None, NotRun, Result, Unrun, Runs

\* A note is added to a result and changes nothing else.
LEMMA Noting ==
    ASSUME produced \in Result, NEW line \in Lines, Note(line)
    PROVE  /\ produced' \in Result
           /\ produced'.status = produced.status /\ produced'.writes = produced.writes
           /\ produced.notes \subseteq produced'.notes
           /\ produced' = None <=> produced = None
           /\ produced # None => line \in produced'.notes
<1>1. CASE produced = None
  BY <1>1, Records DEF Note
<1>2. CASE produced # None
  <2>1. produced' = [produced EXCEPT !.notes = @ \cup {line}]
    BY <1>2 DEF Note
  <2>2. /\ produced'.status = produced.status /\ produced'.writes = produced.writes
        /\ produced'.notes = produced.notes \cup {line}
    BY <2>1 DEF Result
  <2>3. produced' \in Result
    BY <2>1 DEF Result
  <2>4. produced' # None
    BY <2>2 DEF None
  <2>5. QED
    BY <1>2, <2>2, <2>3, <2>4
<1>3. QED
  BY <1>1, <1>2

\* The loop goes on after a result, within its bounds.
LEMMA Returning ==
    ASSUME TypeOK, NEW c \in Check, at = c, NEW answer \in Result, Return(c, answer)
    PROVE  /\ result' = [result EXCEPT ![c] = answer]
           /\ result' \in [Check -> Result]
           /\ at' = c + 1 /\ at' \in 1..(Count + 1)
           /\ phase' \in {"ended", "next"}
           /\ phase' = "next" => at' \in Check
           /\ UNCHANGED <<config, approvals, isolation>>
BY RemoteAssumption DEF TypeOK, Return, Check

\* Only an attached client is cut off, and only from the current check.
LEMMA Cutting ==
    ASSUME Next, cut \subseteq Check
    PROVE  /\ cut \subseteq cut' /\ cut' \subseteq Check
           /\ phase # "attached" => cut' = cut
           /\ phase' # "temporary" => cut' = cut
           /\ \A d \in cut' \ cut : d = at /\ container[d] # "exited"
<1>1. ASSUME NEW c \in Check, Visit(c), at = c
      PROVE  \/ cut' = cut
             \/ phase = "attached" /\ phase' = "temporary" /\ CutOff(c)
  BY <1>1 DEF Visit, OnItsOwn, Skip, Enter, Create, CreateFails, CopyIn, CopyInFails, Start, StartFails,
       AttachReturns, AttachTimesOut, AttachBreaks, TemporaryDirectory, CopyOut, CaptureOutput,
       Throw, Remove, RemoveFails, Sweep, ReturnProduced, Rethrow
<1>2. CASE AssessIsolation \/ Environment
  BY <1>2 DEF AssessIsolation, Environment, LateCreation, CommandStarts, CommandEnds, Become,
       Write, Kill
<1>3. QED
  BY <1>1, <1>2 DEF Next, Proceed, CutOff

-----------------------------------------------------------------------------
(* Types. *)

LEMMA InitType == Init => TypeOK
<1> SUFFICES ASSUME Init PROVE TypeOK
  OBVIOUS
<1> USE RemoteAssumption DEF Init
<1>1. config \in [Check -> Config] /\ at \in 1..(Count + 1) /\ at \in Check
  BY DEF Check
<1>2. QED
  BY <1>1, Records DEF TypeOK, Phases, Over, Containers, Workspaces

\* Every step keeps every variable in its type.
LEMMA TypeStep ==
    ASSUME TypeOK, Next
    PROVE  TypeOK'
<1> USE RemoteAssumption, Records DEF TypeOK, steering, daemon, client
<1>0. cut' \subseteq Check
  BY Cutting
<1>1. CASE AssessIsolation \/ Kill
  BY <1>0, <1>1 DEF AssessIsolation, Kill, Phases, Over
<1>2. ASSUME NEW c \in Check, at = c, Visit(c)
      PROVE  TypeOK'
  <2> USE <1>2
  <2>1. ASSUME NEW answer \in Result, Return(c, answer),
               container' \in [Check -> Containers], UNCHANGED <<tree, client>>
        PROVE  TypeOK'
    BY <1>0, <2>1, Returning DEF Phases, Over
  <2>2. CASE Skip(c)
    <3>1. PICK status \in {"refused", "nothing selected", "unavailable"} :
            Return(c, NotRun(status))
      BY <2>2 DEF Skip
    <3>2. NotRun(status) \in Result
      BY DEF Unrun
    <3>3. QED
      BY <2>1, <2>2, <3>1, <3>2 DEF Skip
  <2>3. CASE CreateFails(c)
    <3>1. container' \in [Check -> Containers]
      BY <2>3 DEF CreateFails, Containers
    <3>2. NotRun("not created") \in Result
      BY DEF Unrun
    <3>3. QED
      BY <2>1, <2>3, <3>1, <3>2 DEF CreateFails
  <2>4. CASE Enter(c) \/ Throw(c) \/ Rethrow(c)
    BY <2>4 DEF Enter, Throw, Rethrow, Phases, Over
  <2>5. CASE Create(c) \/ Start(c) \/ Remove(c)
    <3>1. container' \in [Check -> Containers]
      BY <2>5 DEF Create, Start, Remove, Containers
    <3>2. QED
      BY <2>5, <3>1 DEF Create, Start, Remove, Phases, Over
  <2>6. CASE CopyIn(c)
    <3>1. tree' \in [Check -> Workspaces]
      BY <2>6 DEF CopyIn, Workspaces
    <3>2. QED
      BY <2>6, <3>1 DEF CopyIn, Phases, Over
  <2>7. CASE CopyInFails(c)
    <3>1. tree' \in [Check -> Workspaces]
      BY <2>7 DEF CopyInFails, Workspaces
    <3>2. produced' \in Result
      BY <2>7 DEF CopyInFails, Unrun
    <3>3. QED
      BY <2>7, <3>1, <3>2 DEF CopyInFails, Phases, Over
  <2>8. CASE StartFails(c) \/ AttachReturns(c) \/ AttachTimesOut(c) \/ AttachBreaks(c)
    <3>1. run' \in Runs \cup {"none"} /\ phase' = "temporary"
      BY <2>8 DEF StartFails, AttachReturns, AttachTimesOut, AttachBreaks, Runs
    <3>2. at \in Check /\ "temporary" \in Phases
      BY DEF Phases
    <3>3. UNCHANGED <<steering, daemon, baseline, copy, produced, copies, result>>
      BY <2>8 DEF StartFails, AttachReturns, AttachTimesOut, AttachBreaks
    <3>4. QED
      BY <1>0, <3>1, <3>2, <3>3
  <2>9. CASE TemporaryDirectory(c)
    BY <2>9 DEF TemporaryDirectory, Phases
  <2>10. CASE CopyOut(c)
    <3>1. copy' = "none" \/ copy' = tree[c]
      BY <2>10 DEF CopyOut
    <3>2. tree[c] \in Workspaces
      OBVIOUS
    <3>3. copy' \in Workspaces \cup {"none"}
      BY <3>1, <3>2
    <3>4. "capture" \in Phases
      BY DEF Phases
    <3>5. /\ phase' = "capture"
          /\ UNCHANGED <<steering, daemon, baseline, run, produced, copies, result>>
      BY <2>10 DEF CopyOut
    <3>6. QED
      BY <1>0, <3>3, <3>4, <3>5
  <2>11. CASE CaptureOutput(c)
    <3>1. run \in Runs \cup {"none"} /\ Writes(copy) \in {"unknown", "none", "some"}
      BY DEF Writes
    <3>2. produced' \in Result
      BY <2>11, <3>1 DEF CaptureOutput, Result
    <3>3. QED
      BY <2>11, <3>2 DEF CaptureOutput, Phases
  <2>12. CASE RemoveFails(c)
    <3>1. container' \in [Check -> Containers]
      BY <2>12 DEF RemoveFails, Containers
    <3>2. produced' \in Result
      BY <2>12, Noting DEF RemoveFails, Lines
    <3>3. QED
      BY <2>12, <3>1, <3>2 DEF RemoveFails, Phases
  <2>13. CASE Sweep(c)
    <3>1. produced' \in Result
      BY <2>13, Noting DEF Sweep, Lines
    <3>2. copies' \subseteq Check
      BY <2>13 DEF Sweep
    <3>3. QED
      BY <2>13, <3>1, <3>2 DEF Sweep, Phases
  <2>14. CASE ReturnProduced(c)
    <3>1. Return(c, produced) /\ UNCHANGED <<container, tree, client>>
      BY <2>14 DEF ReturnProduced
    <3>2. QED
      BY <2>1, <3>1
  <2>15. QED
    BY <2>2, <2>3, <2>4, <2>5, <2>6, <2>7, <2>8, <2>9, <2>10, <2>11, <2>12, <2>13, <2>14
       DEF Visit, OnItsOwn
<1>3. ASSUME NEW c \in Check, LateCreation(c) \/ CommandStarts(c) \/ CommandEnds(c)
      PROVE  TypeOK'
  <2>1. container' \in [Check -> Containers]
    BY <1>3 DEF LateCreation, CommandStarts, CommandEnds, Become, Containers
  <2>2. UNCHANGED <<steering, phase, tree, client, result>>
    BY <1>3 DEF LateCreation, CommandStarts, CommandEnds, Become
  <2>3. QED
    BY <1>0, <2>1, <2>2
<1>4. ASSUME NEW c \in Check, Write(c)
      PROVE  TypeOK'
  <2>1. tree' \in [Check -> Workspaces]
    BY <1>4 DEF Write, Workspaces
  <2>2. QED
    BY <1>4, <2>1 DEF Write
<1>5. QED
  BY <1>1, <1>2, <1>3, <1>4 DEF Next, Proceed, Environment

-----------------------------------------------------------------------------
(* Where the steps leave the container, and what the results say. *)

Returns(c) == Skip(c) \/ CreateFails(c) \/ ReturnProduced(c)

\* A step of the current check other than its last touches nothing of the other
\* checks, and no result.
LEMMA Frame ==
    ASSUME TypeOK, NEW c \in Check, at = c, Visit(c), ~Returns(c)
    PROVE  /\ UNCHANGED <<steering, result>>
           /\ phase \in Inside \/ (phase = "next" /\ phase' = "create" /\ UNCHANGED <<daemon, copies>>)
           /\ phase' \in (Inside \ {"create"}) \cup {"failed"} \/ phase = "next"
           /\ \A d \in Check \ {c} :
                container'[d] = container[d] /\ (d \in copies' <=> d \in copies)
<1> USE DEF TypeOK, Inside, daemon, client, steering
<1>1. CASE Enter(c) \/ Create(c) \/ CopyIn(c) \/ CopyInFails(c) \/ Start(c)
  BY <1>1 DEF Enter, Create, CopyIn, CopyInFails, Start
<1>2. CASE StartFails(c) \/ AttachReturns(c) \/ AttachTimesOut(c) \/ AttachBreaks(c)
            \/ TemporaryDirectory(c)
  BY <1>2 DEF StartFails, AttachReturns, AttachTimesOut, AttachBreaks, TemporaryDirectory
<1>3. CASE CopyOut(c) \/ CaptureOutput(c) \/ Throw(c) \/ Remove(c)
  BY <1>3 DEF CopyOut, CaptureOutput, Throw, Remove
<1>4. CASE RemoveFails(c) \/ Sweep(c) \/ Rethrow(c)
  BY <1>4 DEF RemoveFails, Sweep, Rethrow
<1>5. QED
  BY <1>1, <1>2, <1>3, <1>4 DEF Visit, OnItsOwn, Returns

\* The last step of a check returns a result for it and goes on.
LEMMA Answering ==
    ASSUME TypeOK, NEW c \in Check, at = c, Returns(c)
    PROVE  \E answer \in Result :
             /\ Return(c, answer)
             /\ UNCHANGED <<tree, client>>
             /\ \/ phase = "next" /\ answer.status \in Unrun /\ UNCHANGED container
                \/ /\ phase = "create" /\ answer.status = "not created"
                   /\ \A d \in Check \ {c} : container'[d] = container[d]
                   /\ container'[c] \in {"none", "creating"}
                \/ phase = "return" /\ answer = produced /\ produced # None /\ UNCHANGED container
<1> USE Records DEF TypeOK, daemon
<1>1. CASE Skip(c)
  <2>1. PICK status \in {"refused", "nothing selected", "unavailable"} :
          Return(c, NotRun(status))
    BY <1>1 DEF Skip
  <2>2. status \in Unrun
    BY DEF Unrun
  <2>3. QED
    BY <1>1, <2>1, <2>2 DEF Skip
<1>2. CASE CreateFails(c)
  <2>1. "not created" \in Unrun
    BY DEF Unrun
  <2>2. QED
    BY <1>2, <2>1 DEF CreateFails
<1>3. CASE ReturnProduced(c)
  BY <1>3 DEF ReturnProduced
<1>4. QED
  BY <1>1, <1>2, <1>3 DEF Returns

\* What the daemon and the commands do touches nothing but containers.
LEMMA Outside ==
    ASSUME TypeOK, NEW c \in Check,
           LateCreation(c) \/ CommandStarts(c) \/ CommandEnds(c) \/ Write(c)
    PROVE  /\ UNCHANGED <<steering, phase, client, result>>
           /\ \A d \in Check : container'[d] # container[d] =>
                \/ container[d] = "creating" /\ container'[d] = "created"
                \/ container[d] = "starting" /\ container'[d] = "running"
                \/ container[d] = "running" /\ container'[d] = "exited"
           /\ \A d \in Check : tree'[d] # tree[d] =>
                /\ container[d] = "running" /\ container'[d] = "running"
                /\ tree'[d] \in {"snapshot", "changed"}
<1>1. CASE LateCreation(c) \/ CommandStarts(c) \/ CommandEnds(c)
  BY <1>1 DEF TypeOK, LateCreation, CommandStarts, CommandEnds, Become, steering, client
<1>2. CASE Write(c)
  BY <1>2 DEF TypeOK, Write, steering, client
<1>3. QED
  BY <1>1, <1>2

\* Only the current check gets a container, a copy or a result.
LEMMA FreshStep ==
    ASSUME TypeOK, Fresh, Next
    PROVE  Fresh'
<1> USE RemoteAssumption DEF Fresh
<1>1. CASE AssessIsolation \/ Kill
  BY <1>1 DEF AssessIsolation, Kill, steering, daemon, client
<1>2. ASSUME NEW c \in Check, at = c, Visit(c), Returns(c)
      PROVE  Fresh'
  <2>1. PICK answer \in Result :
          /\ Return(c, answer) /\ UNCHANGED client
          /\ \A d \in Check \ {c} : container'[d] = container[d]
    BY <1>2, Answering
  <2>2. at' = c + 1 /\ result' = [result EXCEPT ![c] = answer]
    BY <1>2, <2>1, Returning
  <2>3. phase' \in {"ended", "next"}
    BY <1>2, <2>1, Returning
  <2>4. QED
    BY <1>2, <2>1, <2>2, <2>3 DEF TypeOK, client, Check
<1>3. ASSUME NEW c \in Check, at = c, Visit(c), ~Returns(c)
      PROVE  Fresh'
  <2>1. /\ UNCHANGED <<at, result>>
        /\ \A d \in Check \ {c} :
             container'[d] = container[d] /\ (d \in copies' <=> d \in copies)
    BY <1>3, Frame DEF steering
  <2>2. CASE phase = "next"
    <3>1. phase' = "create" /\ UNCHANGED <<container, copies>>
      BY <1>3, <2>2, Frame DEF Inside, daemon
    <3>2. QED
      BY <2>1, <2>2, <3>1
  <2>3. CASE phase # "next"
    <3>1. phase' \notin {"probe", "next", "create"}
      BY <1>3, <2>3, Frame DEF Inside
    <3>2. \A d \in Check : d > at => d # c
      BY <1>3 DEF Check
    <3>3. QED
      BY <2>1, <3>1, <3>2
  <2>4. QED
    BY <2>2, <2>3
<1>4. ASSUME NEW c \in Check,
             LateCreation(c) \/ CommandStarts(c) \/ CommandEnds(c) \/ Write(c)
      PROVE  Fresh'
  <2>1. UNCHANGED <<at, phase, copies, result>>
    BY <1>4, Outside DEF steering, client
  <2>2. \A d \in Check : container[d] = "none" => container'[d] = "none"
    BY <1>4, Outside
  <2>3. QED
    BY <2>1, <2>2
<1>5. QED
  BY <1>1, <1>2, <1>3, <1>4 DEF Next, Proceed, Environment

\* Of the current check, there is no result yet, and nothing before `create`.
LEMMA Unreached ==
    ASSUME Fresh, NEW c \in Check, at = c
    PROVE  /\ result[c] = None
           /\ phase \in {"next", "create"} => c \notin copies /\ container[c] = "none"
<1>1. c \in Nat
  BY RemoteAssumption DEF Check
<1>2. c >= at
  BY <1>1
<1>3. QED
  BY <1>2 DEF Fresh

\* A step leaves the container as the next one expects it.
LEMMA StagedStep ==
    ASSUME TypeOK, Fresh, Staged, Next
    PROVE  Staged'
<1> USE DEF Staged, Inside
<1>1. CASE AssessIsolation \/ Kill
  BY <1>1 DEF AssessIsolation, Kill
<1>2. ASSUME NEW c \in Check, at = c, Returns(c)
      PROVE  Staged'
  BY <1>2, Answering, Returning
<1>3. ASSUME NEW c \in Check, at = c, Visit(c), ~Returns(c)
      PROVE  Staged'
  <2> USE <1>3 DEF TypeOK
  <2>1. UNCHANGED <<config, approvals, isolation, at>>
    BY Frame DEF steering
  <2>2. Refused(c) <=> Refused(c)'
    BY <2>1 DEF Refused, Allowed
  <2> USE <2>1, <2>2
  <2>3. CASE Enter(c) \/ Create(c) \/ CopyIn(c) \/ CopyInFails(c) \/ Start(c)
    BY <2>3 DEF Enter, Create, CopyIn, CopyInFails, Start, daemon, client
  <2>4. CASE StartFails(c) \/ AttachReturns(c) \/ AttachTimesOut(c) \/ AttachBreaks(c)
    BY <2>4 DEF StartFails, AttachReturns, AttachTimesOut, AttachBreaks, CutOff, daemon, Runs
  <2>5. CASE TemporaryDirectory(c) \/ CopyOut(c)
    BY <2>5 DEF TemporaryDirectory, CopyOut, daemon
  <2>6. CASE CaptureOutput(c) \/ Throw(c) \/ Remove(c) \/ RemoveFails(c) \/ Sweep(c) \/ Rethrow(c)
    BY <2>6 DEF CaptureOutput, Throw, Remove, RemoveFails, Sweep, Rethrow
  <2>7. QED
    BY <2>3, <2>4, <2>5, <2>6 DEF Visit, OnItsOwn, Returns
<1>4. ASSUME NEW c \in Check,
             LateCreation(c) \/ CommandStarts(c) \/ CommandEnds(c) \/ Write(c)
      PROVE  Staged'
  <2>1. UNCHANGED <<config, approvals, isolation, at, phase, copy, run, produced>>
    BY <1>4, Outside DEF steering, client
  <2>2. Refused(at) <=> Refused(at)'
    BY <2>1 DEF Refused, Allowed
  <2>3. cut' = cut
    BY <1>4 DEF LateCreation, CommandStarts, CommandEnds, Become, Write
  <2>4. QED
    BY <1>4, <2>1, <2>2, <2>3, Outside DEF TypeOK, Over
<1>5. QED
  BY <1>1, <1>2, <1>3, <1>4 DEF Next, Proceed, Environment, Visit, OnItsOwn, Returns

\* What a result says of the writes goes on holding.
LEMMA ToldStep ==
    ASSUME TypeOK, Fresh, Staged, Told, Next
    PROVE  Told'
<1> USE DEF Told, Holds
<1> cut \subseteq cut' /\ (phase' # "temporary" => cut' = cut)
  BY Cutting DEF TypeOK
<1>1. CASE AssessIsolation \/ Kill
  BY <1>1 DEF AssessIsolation, Kill, steering, daemon, client
<1>2. ASSUME NEW c \in Check, at = c, Visit(c), Returns(c)
      PROVE  Told'
  <2>1. PICK answer \in Result :
          /\ Return(c, answer) /\ UNCHANGED tree
          /\ \A d \in Check \ {c} : container'[d] = container[d]
          /\ answer.status \in Unrun \cup {"not created"} \/
               (answer = produced /\ phase = "return" /\ UNCHANGED container)
    BY <1>2, Answering
  <2>2. Holds(c, answer)'
    BY <1>2, <2>1 DEF Unrun, Runs
  <2>3. result' = [result EXCEPT ![c] = answer] /\ phase' \in {"ended", "next"}
    BY <1>2, <2>1, Returning
  <2>4. QED
    BY <2>1, <2>2, <2>3 DEF TypeOK
<1>3. ASSUME NEW c \in Check, at = c, Visit(c), ~Returns(c)
      PROVE  Told'
  <2> USE <1>3
  <2>1. /\ UNCHANGED <<at, result>>
        /\ \A d \in Check \ {c} : container'[d] = container[d]
    BY Frame DEF steering
  <2>2. \A d \in Check \ {c} : tree'[d] = tree[d]
    BY DEF Visit, OnItsOwn, Returns, TypeOK, daemon, Enter, Create, CopyIn, CopyInFails, Start,
           StartFails, AttachReturns, AttachTimesOut, AttachBreaks, TemporaryDirectory, CopyOut,
           CaptureOutput, Throw, Remove, RemoveFails, Sweep, Rethrow
  <2>3. result[c].status = "none"
    BY Records, Unreached
  <2>4. \A d \in Check : Holds(d, result[d])'
    BY <2>1, <2>2, <2>3 DEF Runs
  <2>5. CASE CopyInFails(c)
    BY <2>1, <2>4, <2>5 DEF CopyInFails, NotRun, Runs
  <2>6. CASE CaptureOutput(c)
    <3>1. produced'.status = run /\ produced'.writes = Writes(copy) /\ UNCHANGED daemon
      BY <2>6 DEF CaptureOutput
    <3>2. QED
      BY <2>1, <2>4, <2>6, <3>1 DEF CaptureOutput, Staged, Writes, daemon
  <2>7. CASE Throw(c)
    BY <2>1, <2>4, <2>7, Records DEF Throw, Staged, client, daemon, Runs
  <2>8. CASE Remove(c) \/ Rethrow(c)
    BY <2>1, <2>4, <2>8 DEF Remove, Rethrow, TypeOK, client, daemon
  <2>9. CASE RemoveFails(c) \/ Sweep(c)
    BY <2>1, <2>4, <2>9, Noting DEF RemoveFails, Sweep, Lines, TypeOK, daemon
  <2>10. CASE phase' \notin {"remove", "sweep", "return"}
    BY <2>4, <2>10
  <2>11. QED
    BY <2>5, <2>6, <2>7, <2>8, <2>9, <2>10
       DEF Visit, OnItsOwn, Returns, Enter, Create, CopyIn, Start, StartFails, AttachReturns,
           AttachTimesOut, AttachBreaks, TemporaryDirectory, CopyOut
<1>4. ASSUME NEW c \in Check,
             LateCreation(c) \/ CommandStarts(c) \/ CommandEnds(c) \/ Write(c)
      PROVE  Told'
  <2>1. UNCHANGED <<at, phase, produced, result>>
    BY <1>4, Outside DEF steering, client
  <2>2. \A d \in Check : container[d] \notin {"starting", "running"} =>
          tree'[d] = tree[d] /\ container'[d] \notin {"starting", "running"}
    BY <1>4, Outside
  <2>3. QED
    BY <2>1, <2>2 DEF TypeOK, Over
<1>5. QED
  BY <1>1, <1>2, <1>3, <1>4 DEF Next, Proceed, Environment

\* The `finally` notes what it does not achieve.
LEMMA AccountedStep ==
    ASSUME TypeOK, Accounted, Next
    PROVE  Accounted'
<1> USE DEF Accounted
<1>1. CASE AssessIsolation \/ Kill
  BY <1>1 DEF AssessIsolation, Kill
<1>2. ASSUME NEW c \in Check, at = c, Returns(c)
      PROVE  Accounted'
  BY <1>2, Answering, Returning
<1>3. ASSUME NEW c \in Check, at = c, Visit(c), ~Returns(c)
      PROVE  Accounted'
  <2> USE <1>3
  <2>1. UNCHANGED at
    BY Frame DEF steering
  <2>2. CASE Remove(c)
    BY <2>1, <2>2 DEF Remove, TypeOK
  <2>3. CASE RemoveFails(c)
    BY <2>1, <2>3, Noting DEF RemoveFails, Lines, TypeOK
  <2>4. CASE Sweep(c)
    BY <2>1, <2>4, Noting DEF Sweep, Lines, daemon, TypeOK
  <2>5. CASE Rethrow(c)
    BY <2>5 DEF Rethrow
  <2>6. CASE phase' \notin {"sweep", "return"}
    BY <2>6
  <2>7. QED
    BY <2>2, <2>3, <2>4, <2>5, <2>6
       DEF Visit, OnItsOwn, Returns, Enter, Create, CopyIn, CopyInFails, Start, StartFails,
           AttachReturns, AttachTimesOut, AttachBreaks, TemporaryDirectory, CopyOut, CaptureOutput, Throw
<1>4. ASSUME NEW c \in Check,
             LateCreation(c) \/ CommandStarts(c) \/ CommandEnds(c) \/ Write(c)
      PROVE  Accounted'
  <2>1. UNCHANGED <<at, phase, produced, copies>>
    BY <1>4, Outside DEF steering, client
  <2>2. \A d \in Check : container[d] = "gone" => container'[d] = "gone"
    BY <1>4, Outside
  <2>3. QED
    BY <2>1, <2>2 DEF TypeOK, Over
<1>5. QED
  BY <1>1, <1>2, <1>3, <1>4 DEF Next, Proceed, Environment, Visit, OnItsOwn, Returns

\* A container is started after a successful copy only.
LEMMA PinnedStep ==
    ASSUME TypeOK, Fresh, Staged, RunsOnlyPinnedCode, Next
    PROVE  RunsOnlyPinnedCode'
<1> USE DEF RunsOnlyPinnedCode
<1> DEFINE Started == {"starting", "running", "exited"}
<1>1. CASE AssessIsolation
  <2>1. \A d \in Check : container'[d] = "none"
    BY <1>1, RemoteAssumption DEF AssessIsolation, daemon, Fresh, Check
  <2>2. QED
    BY <2>1
<1>2. CASE Kill
  BY <1>2 DEF Kill, steering, daemon, Refused, Allowed
<1>3. ASSUME NEW c \in Check, at = c, Visit(c)
      PROVE  RunsOnlyPinnedCode'
  <2> USE <1>3
  <2>1. UNCHANGED <<config, approvals, isolation>>
    BY Frame, Answering, Returning DEF steering
  <2>2. \A d \in Check : Refused(d) <=> Refused(d)'
    BY <2>1 DEF Refused, Allowed
  <2>3. \A d \in Check : container'[d] \in Started => container[d] \in Started \/ Start(c)
    BY DEF Visit, OnItsOwn, Skip, CreateFails, ReturnProduced, TypeOK, daemon, Enter, Create,
           CopyIn, CopyInFails, StartFails, AttachReturns, AttachTimesOut, AttachBreaks,
           TemporaryDirectory, CopyOut, CaptureOutput, Throw, Remove, RemoveFails,
           Sweep, Rethrow
  <2>4. CASE Start(c)
    BY <2>1, <2>2, <2>4 DEF Start, Staged, Inside, TypeOK
  <2>5. CASE CopyIn(c) \/ CopyInFails(c)
    BY <2>1, <2>2, <2>5 DEF CopyIn, CopyInFails, Staged, TypeOK
  <2>6. CASE UNCHANGED tree
    BY <2>1, <2>2, <2>3, <2>4, <2>6
  <2>7. QED
    BY <2>4, <2>5, <2>6
       DEF Visit, OnItsOwn, Skip, CreateFails, ReturnProduced, daemon, Enter, Create, StartFails,
           AttachReturns, AttachTimesOut, AttachBreaks, TemporaryDirectory, CopyOut, CaptureOutput,
           Throw, Remove, RemoveFails, Sweep, Rethrow
<1>4. ASSUME NEW c \in Check,
             LateCreation(c) \/ CommandStarts(c) \/ CommandEnds(c) \/ Write(c)
      PROVE  RunsOnlyPinnedCode'
  <2>1. UNCHANGED <<config, approvals, isolation>>
    BY <1>4, Outside DEF steering
  <2>2. \A d \in Check : Refused(d) <=> Refused(d)'
    BY <2>1 DEF Refused, Allowed
  <2>3. QED
    BY <1>4, <2>1, <2>2, Outside
<1>5. QED
  BY <1>1, <1>2, <1>3, <1>4 DEF Next, Proceed, Environment

\* What is left of a check is in its result.
LEMMA UnsaidStep ==
    ASSUME TypeOK, Fresh, Accounted, NothingLeftUnsaid, Next
    PROVE  NothingLeftUnsaid'
<1> USE DEF NothingLeftUnsaid
<1>1. CASE AssessIsolation \/ Kill
  BY <1>1 DEF AssessIsolation, Kill, steering, daemon, client
<1>2. ASSUME NEW c \in Check, at = c, Visit(c), Returns(c)
      PROVE  NothingLeftUnsaid'
  <2>1. PICK answer \in Result :
          /\ Return(c, answer) /\ UNCHANGED client
          /\ \A d \in Check \ {c} : container'[d] = container[d]
          /\ \/ phase = "next" /\ UNCHANGED container
             \/ phase = "create" /\ answer.status = "not created"
             \/ phase = "return" /\ answer = produced /\ produced # None /\ UNCHANGED container
    BY <1>2, Answering
  <2>2. result' = [result EXCEPT ![c] = answer] /\ UNCHANGED copies
    BY <1>2, <2>1, Returning DEF client
  <2>3. phase \in {"next", "create"} => c \notin copies /\ container[c] = "none"
    BY <1>2, Unreached
  <2>4. QED
    BY <1>2, <2>1, <2>2, <2>3 DEF TypeOK, Accounted
<1>3. ASSUME NEW c \in Check, at = c, Visit(c), ~Returns(c)
      PROVE  NothingLeftUnsaid'
  <2>1. result[c] = None
    BY <1>3, Unreached
  <2>2. QED
    BY <1>3, <2>1, Frame
<1>4. ASSUME NEW c \in Check,
             LateCreation(c) \/ CommandStarts(c) \/ CommandEnds(c) \/ Write(c)
      PROVE  NothingLeftUnsaid'
  <2>1. UNCHANGED <<copies, result>>
    BY <1>4, Outside DEF client
  <2>2. \A d \in Check : container[d] \in {"none", "gone"} => container'[d] = container[d]
    BY <1>4, Outside
  <2>3. QED
    BY <2>1, <2>2
<1>5. QED
  BY <1>1, <1>2, <1>3, <1>4 DEF Next, Proceed, Environment

LEMMA InitInv == Init => IInv
<1> SUFFICES ASSUME Init PROVE IInv
  OBVIOUS
<1>1. Fresh /\ Staged /\ Told /\ Accounted
  BY Records DEF Init, Fresh, Staged, Told, Holds, Accounted, Inside, Runs
<1>2. RunsOnlyPinnedCode /\ NothingLeftUnsaid
  BY DEF Init, RunsOnlyPinnedCode, NothingLeftUnsaid
<1>3. QED
  BY <1>1, <1>2, InitType DEF IInv

-----------------------------------------------------------------------------
THEOREM Invariance == Spec => []IInv
<1>1. IInv /\ [Next]_vars => IInv'
  <2> SUFFICES ASSUME IInv, [Next]_vars PROVE IInv'
    OBVIOUS
  <2>1. CASE Next
    BY <2>1, TypeStep, FreshStep, StagedStep, ToldStep, AccountedStep, PinnedStep,
       UnsaidStep DEF IInv
  <2>2. CASE UNCHANGED vars
    <3>1. UNCHANGED <<config, approvals, isolation, at, phase, container, tree, baseline,
                      copy, run, produced, copies, result, cut>>
      BY <2>2 DEF vars, steering, daemon, client
    <3>2. TypeOK' /\ Fresh'
      BY <3>1 DEF IInv, TypeOK, Fresh
    <3>3. \A c \in Check : Refused(c) <=> Refused(c)'
      BY <3>1 DEF Refused, Allowed
    <3>4. Refused(at) <=> Refused(at)'
      BY <3>1 DEF Refused, Allowed
    <3>5. Staged' /\ RunsOnlyPinnedCode'
      BY <3>1, <3>3, <3>4 DEF IInv, Staged, RunsOnlyPinnedCode
    <3>6. Told' /\ Accounted' /\ NothingLeftUnsaid'
      BY <3>1 DEF IInv, Told, Holds, Accounted, NothingLeftUnsaid
    <3>7. QED
      BY <3>2, <3>5, <3>6 DEF IInv
  <2>3. QED
    BY <2>1, <2>2
<1>2. QED
  BY <1>1, InitInv, PTL DEF Spec

\* Every reachable state is well typed (the steps of executeInContainer).
THEOREM TypeCorrect == Spec => []TypeOK
BY Invariance, PTL DEF IInv

\* A command of a merge request is started only if it is allowed, isolated and
\* on a complete copy of the snapshot (runOne, executeInContainer).
THEOREM RunsOnlyPinnedCodeHolds == Spec => []RunsOnlyPinnedCode
BY Invariance, PTL DEF IInv

\* Whatever fails, a result without a note leaves no container and no copy
\* behind (the `finally` of executeInContainer).
THEOREM NothingLeftUnsaidHolds == Spec => []NothingLeftUnsaid
BY Invariance, PTL DEF IInv

\* What the result of a command that ended under its client says is true
\* (observeMutations).
THEOREM WritesAreTrueHolds == Spec => []WritesAreTrue
<1>1. IInv => WritesAreTrue
  BY DEF IInv, Told, Holds, WritesAreTrue
<1>2. QED
  BY <1>1, Invariance, PTL
=============================================================================

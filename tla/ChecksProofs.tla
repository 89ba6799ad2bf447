---------------------------- MODULE ChecksProofs ----------------------------
(* What holds of Checks for any number of checks, any configuration of them *)
(* and any content of the checkout.                                         *)
EXTENDS Checks, TLAPS

Busy == {"selecting", "running"}

\* The loop is at the check it says, and what it left behind has a result.
Progress ==
    /\ phase \in {"gate", "reviewing"} => at = Count + 1
    /\ phase # "idle" => \A c \in Check : c < at => result[c] # "none"
    /\ phase # "idle" => \A c \in Check : result[c] = "waiting" => waiting # {}
    /\ phase = "reviewing" => waiting = {}
    /\ phase \in {"selecting", "selected", "running"} => config[at].policy \in {"run", "propose"}

\* A project that has no check behind `at` has not been fingerprinted; and if
\* nobody else edits, the last fingerprint is what the checkout holds, or held
\* when the process was started.
Watched ==
    /\ phase # "idle" =>
         \A d \in Check :
             /\ d >= at
             /\ \A c \in Check : c < at => ProjectOf[c] # ProjectOf[d]
             /\ phase \in {"selecting", "selected", "running"} => ProjectOf[at] # ProjectOf[d]
             => held[ProjectOf[d]] = Unread
    /\ ~edited => reported = touched
    /\ ~edited /\ phase \in {"deciding", "selected"} =>
         \A d \in Check : d >= at => held[ProjectOf[d]] \in {Unread, tree}
    /\ ~edited /\ phase \in Busy => held[ProjectOf[at]] = before

\* Both fingerprints of a watch begin together, before a process is started.
FirstRead ==
    /\ \A p \in Projects : held[p] = Unread <=> first[p] = Unread
    /\ phase \in Busy => held[ProjectOf[at]] # Unread

IInv ==
    /\ TypeOK /\ Progress /\ NothingUnapprovedRuns
    /\ Watched /\ FirstRead /\ NoSilentDrift

-----------------------------------------------------------------------------
LEMMA InitInv == Init => IInv
<1> SUFFICES ASSUME Init PROVE IInv
  OBVIOUS
<1> USE ChecksAssumption DEF Init
<1>1. TypeOK
  <2>1. config \in [Check -> Config]
    OBVIOUS
  <2>2. at \in 1..(Count + 1) /\ 1 \in Check
    BY DEF Check
  <2>3. QED
    BY <2>1, <2>2 DEF TypeOK, Phases, Selections, Results
<1>2. Progress /\ NothingUnapprovedRuns /\ FirstRead /\ NoSilentDrift
  BY DEF Progress, NothingUnapprovedRuns, FirstRead, NoSilentDrift, Busy
<1>3. Watched
  BY DEF Watched, Busy
<1>4. QED
  BY <1>1, <1>2, <1>3 DEF IInv

\* Pushing a result keeps the loop in its bounds.
LEMMA PushStep ==
    ASSUME TypeOK, NEW c \in Check, at = c, NEW outcome \in Results, Push(c, outcome)
    PROVE  /\ result' \in [Check -> Results]
           /\ at' \in 1..(Count + 1)
           /\ phase' \in {"gate", "deciding"}
           /\ phase' = "deciding" => at' \in Check
           /\ phase' = "gate" => at' = Count + 1
BY ChecksAssumption DEF TypeOK, Push, Check

\* Every step keeps every variable in its type.
LEMMA TypeStep ==
    ASSUME TypeOK, Next
    PROVE  TypeOK'
<1> USE ChecksAssumption DEF TypeOK, runVars, watchVars, Unrun
<1>1. ASSUME NEW yes \in SUBSET Keys, NEW no \in SUBSET Declinable, Begin(yes, no)
      PROVE  TypeOK'
  <2>1. at' \in 1..(Count + 1) /\ 1 \in Check
    BY <1>1 DEF Begin, Check
  <2>2. QED
    BY <1>1, <2>1 DEF Begin, Phases, Selections, Results
<1>2. CASE Start
  <2>1. PICK yes \in Upfront : Begin(yes, {})
    BY <1>2 DEF Start
  <2>2. yes \in SUBSET Keys /\ {} \in SUBSET Declinable
    OBVIOUS
  <2>3. QED
    BY <1>1, <2>1, <2>2
<1>3. CASE Answer
  <2>1. PICK yes \in SUBSET waiting :
          waiting \ yes \subseteq Declinable
          /\ Begin(approvals \cup yes, declines \cup (waiting \ yes))
    BY <1>3 DEF Answer
  <2>2. /\ approvals \cup yes \in SUBSET Keys
        /\ declines \cup (waiting \ yes) \in SUBSET Declinable
    BY <2>1
  <2>3. QED
    BY <1>1, <2>1, <2>2
<1>4. ASSUME NEW c \in Check, at = c, Visit(c)
      PROVE  TypeOK'
  <2> USE <1>4
  <2>0. ProjectOf[c] \in Projects
    BY DEF Projects
  <2>1. CASE Refuse(c)
    BY <2>1, PushStep DEF Refuse, Phases, Results
  <2>2. CASE SelectorNotAllowed(c)
    <3>1. SelectorKey(c) \in Keys
      BY DEF SelectorKey, Keys
    <3>2. PICK outcome \in {"waiting", "refused"} : Push(c, outcome)
      BY <2>2 DEF SelectorNotAllowed
    <3>3. QED
      BY <2>2, <3>1, <3>2, PushStep DEF SelectorNotAllowed, Phases, Results
  <2>3. CASE SelectByGlobs(c)
    BY <2>3 DEF SelectByGlobs, Phases
  <2>4. CASE StartSelector(c)
    BY <2>4, <2>0 DEF StartSelector, Baseline, Phases
  <2>5. CASE EndSelector(c)
    BY <2>5, <2>0 DEF EndSelector, Observe, Ends, Phases
  <2>6. CASE NothingSelected(c)
    BY <2>6, PushStep DEF NothingSelected, Phases, Results
  <2>7. CASE SkipDeclined(c)
    BY <2>7, PushStep DEF SkipDeclined, Phases, Results
  <2>8. CASE Ask(c)
    <3>1. CheckKey(c) \in Keys
      BY DEF CheckKey, Keys
    <3>2. QED
      BY <2>8, <3>1, PushStep DEF Ask, Phases, Results
  <2>9. CASE StartCommand(c)
    BY <2>9, <2>0 DEF StartCommand, Baseline, Phases
  <2>10. CASE NotStarted(c)
    <3>1. PICK outcome \in {"skipped", "error"} : Push(c, outcome)
      BY <2>10 DEF NotStarted
    <3>2. QED
      BY <2>10, <2>0, <3>1, PushStep DEF NotStarted, Phases, Results
  <2>11. CASE EndCommand(c)
    <3>1. PICK outcome \in {Passed, "failed", "timed-out"} : Push(c, outcome)
      BY <2>11 DEF EndCommand
    <3>2. QED
      BY <2>11, <2>0, <3>1, PushStep DEF EndCommand, Passed, Observe, Ends, Phases, Results
  <2>12. QED
    BY <2>1, <2>2, <2>3, <2>4, <2>5, <2>6, <2>7, <2>8, <2>9, <2>10, <2>11 DEF Visit
<1>5. CASE StopForAuthorization
  BY <1>5 DEF StopForAuthorization, Phases
<1>6. CASE InvokeReviewer
  BY <1>6 DEF InvokeReviewer, Phases
<1>7. CASE ReviewerEnds
  BY <1>7 DEF ReviewerEnds, Phases
<1>8. CASE Write
  BY <1>8 DEF Write
<1>9. CASE Abort
  BY <1>9 DEF Abort, Phases
<1>10. CASE Edit
  BY <1>10 DEF Edit
<1>11. QED
  BY <1>2, <1>3, <1>4, <1>5, <1>6, <1>7, <1>8, <1>9, <1>10 DEF Next, Proceed

\* The loop goes forward, leaves a result behind it, and asks for what waits.
LEMMA ProgressStep ==
    ASSUME TypeOK, Progress, Next
    PROVE  Progress'
<1> USE ChecksAssumption DEF TypeOK, runVars, watchVars, Unrun
<1>1. ASSUME NEW yes, NEW no, Begin(yes, no)
      PROVE  Progress'
  BY <1>1 DEF Begin, Progress, Check
<1>2. ASSUME NEW c \in Check, at = c, Visit(c)
      PROVE  Progress'
  <2> USE <1>2
  <2>1. ASSUME NEW outcome, outcome # "none", Push(c, outcome),
               outcome = "waiting" => waiting' # {}, waiting \subseteq waiting',
               phase # "idle"
        PROVE  Progress'
    BY <2>1 DEF Push, Progress, Check
  <2>2. CASE Refuse(c)
    BY <2>1, <2>2 DEF Refuse
  <2>3. CASE SelectorNotAllowed(c)
    BY <2>1, <2>3 DEF SelectorNotAllowed, Considered
  <2>4. CASE SelectByGlobs(c) \/ StartSelector(c)
    BY <2>4 DEF SelectByGlobs, StartSelector, Considered, Baseline, Progress
  <2>5. CASE EndSelector(c)
    BY <2>5 DEF EndSelector, Observe, Ends, Progress
  <2>6. CASE NothingSelected(c)
    BY <2>1, <2>6 DEF NothingSelected
  <2>7. CASE SkipDeclined(c)
    BY <2>1, <2>7 DEF SkipDeclined, Unapproved
  <2>8. CASE Ask(c)
    BY <2>1, <2>8 DEF Ask, Unapproved
  <2>9. CASE StartCommand(c)
    BY <2>9 DEF StartCommand, MayRun, Baseline, Progress
  <2>10. CASE NotStarted(c)
    BY <2>1, <2>10 DEF NotStarted, MayRun
  <2>11. CASE EndCommand(c)
    BY <2>1, <2>11 DEF EndCommand, Passed, Observe, Ends
  <2>12. QED
    BY <2>2, <2>3, <2>4, <2>5, <2>6, <2>7, <2>8, <2>9, <2>10, <2>11 DEF Visit
<1>3. CASE StopForAuthorization \/ InvokeReviewer \/ ReviewerEnds
  BY <1>3 DEF StopForAuthorization, InvokeReviewer, ReviewerEnds, Progress
<1>4. CASE Write \/ Abort \/ Edit
  BY <1>4 DEF Write, Abort, Edit, Progress
<1>5. QED
  BY <1>1, <1>2, <1>3, <1>4 DEF Next, Start, Answer, Proceed

\* A process is started with the authorization it needs.
LEMMA AuthorizationStep ==
    ASSUME TypeOK, Progress, NothingUnapprovedRuns, Next
    PROVE  NothingUnapprovedRuns'
<1> USE ChecksAssumption DEF TypeOK, runVars, watchVars, Unrun, NothingUnapprovedRuns, Allowed
<1>1. ASSUME NEW yes, NEW no, Begin(yes, no)
      PROVE  NothingUnapprovedRuns'
  BY <1>1 DEF Begin
<1>2. ASSUME NEW c \in Check, at = c, Visit(c)
      PROVE  NothingUnapprovedRuns'
  <2> USE <1>2
  <2>1. ASSUME NEW outcome, Push(c, outcome)
        PROVE  NothingUnapprovedRuns'
    BY <2>1 DEF Push
  <2>2. CASE Refuse(c) \/ SelectorNotAllowed(c) \/ NothingSelected(c)
             \/ SkipDeclined(c) \/ Ask(c) \/ NotStarted(c) \/ EndCommand(c)
    BY <2>1, <2>2 DEF Refuse, SelectorNotAllowed, NothingSelected, SkipDeclined,
                      Ask, NotStarted, EndCommand
  <2>3. CASE SelectByGlobs(c)
    BY <2>3 DEF SelectByGlobs
  <2>4. CASE StartSelector(c)
    BY <2>4 DEF StartSelector, SelectionExecutes, SelectorAllowed
  <2>5. CASE EndSelector(c)
    BY <2>5 DEF EndSelector
  <2>6. CASE StartCommand(c)
    <3>1. config[at].policy \in {"run", "propose"}
      BY <2>6 DEF StartCommand, MayRun, Progress
    <3>2. QED
      BY <2>6, <3>1 DEF StartCommand, MayRun, Unapproved, NeedsApproval
  <2>7. QED
    BY <2>2, <2>3, <2>4, <2>5, <2>6 DEF Visit
<1>3. CASE StopForAuthorization \/ InvokeReviewer \/ ReviewerEnds
  BY <1>3 DEF StopForAuthorization, InvokeReviewer, ReviewerEnds
<1>4. CASE Write \/ Abort \/ Edit
  BY <1>4 DEF Write, Abort, Edit
<1>5. QED
  BY <1>1, <1>2, <1>3, <1>4 DEF Next, Start, Answer, Proceed

\* The fingerprints of a project begin together, and a difference between the
\* first and the last is in some result.
LEMMA DriftStep ==
    ASSUME TypeOK, FirstRead, NoSilentDrift, Next
    PROVE  FirstRead' /\ NoSilentDrift'
<1> USE ChecksAssumption DEF TypeOK, runVars, watchVars, Unrun, Busy, FirstRead, NoSilentDrift
<1>1. ASSUME NEW yes, NEW no, Begin(yes, no)
      PROVE  FirstRead' /\ NoSilentDrift'
  BY <1>1 DEF Begin
<1>2. ASSUME NEW c \in Check, at = c, Visit(c)
      PROVE  FirstRead' /\ NoSilentDrift'
  <2> USE <1>2
  <2>1. ProjectOf[c] \in Projects
    BY DEF Projects
  <2>2. CASE Refuse(c) \/ SelectorNotAllowed(c) \/ SelectByGlobs(c) \/ NothingSelected(c)
             \/ SkipDeclined(c) \/ Ask(c)
    BY <2>2 DEF Refuse, SelectorNotAllowed, SelectByGlobs, NothingSelected,
                SkipDeclined, Ask, Push
  <2>3. CASE StartSelector(c) \/ StartCommand(c)
    BY <2>1, <2>3 DEF StartSelector, StartCommand, Baseline
  <2>4. CASE EndSelector(c) \/ EndCommand(c)
    BY <2>1, <2>4 DEF EndSelector, EndCommand, Observe, Ends, Push
  <2>5. CASE NotStarted(c)
    BY <2>1, <2>5 DEF NotStarted, Push
  <2>6. QED
    BY <2>2, <2>3, <2>4, <2>5 DEF Visit
<1>3. CASE StopForAuthorization \/ InvokeReviewer \/ ReviewerEnds
  BY <1>3 DEF StopForAuthorization, InvokeReviewer, ReviewerEnds
<1>4. CASE Write \/ Abort \/ Edit
  BY <1>4 DEF Write, Abort, Edit
<1>5. QED
  BY <1>1, <1>2, <1>3, <1>4 DEF Next, Start, Answer, Proceed

\* Of the checks to come, one of another project than check c has a watch that
\* was never started.
LEMMA OtherProjects ==
    ASSUME TypeOK, Watched, NEW c \in Check, at = c,
           phase \in {"selecting", "selected", "running"},
           NEW d \in Check, d > c, ProjectOf[d] # ProjectOf[c]
    PROVE  held[ProjectOf[d]] = Unread
<1>1. ASSUME NEW e \in Check, e < c
      PROVE  ProjectOf[e] # ProjectOf[d]
  BY <1>1, ChecksAssumption
<1>2. QED
  BY <1>1 DEF Watched, Check

\* Fingerprints stay in step with the checkout while nobody else edits it.
LEMMA WatchedStep ==
    ASSUME TypeOK, Watched, Next
    PROVE  Watched'
<1> USE ChecksAssumption DEF runVars, watchVars, Unrun, Busy
<1>1. ASSUME NEW yes, NEW no, Begin(yes, no)
      PROVE  Watched'
  <2>1. \A d \in Check : ProjectOf[d] \in Projects
    BY DEF Projects
  <2>2. QED
    BY <1>1, <2>1 DEF Begin, Watched
<1>2. ASSUME NEW c \in Check, at = c, Visit(c)
      PROVE  Watched'
  <2> USE <1>2
  <2>1. ProjectOf[c] \in Projects /\ \A d \in Check : ProjectOf[d] \in Projects
    BY DEF Projects
  <2>2. ASSUME NEW outcome, Push(c, outcome), phase \in {"deciding", "selected"},
               UNCHANGED <<tree, held, reported, touched, edited>>
        PROVE  Watched'
    BY <2>2 DEF Push, Watched, Check
  <2>3. CASE Refuse(c) \/ SelectorNotAllowed(c) \/ NothingSelected(c)
             \/ SkipDeclined(c) \/ Ask(c)
    BY <2>2, <2>3 DEF Refuse, SelectorNotAllowed, Considered, NothingSelected,
                      SkipDeclined, Ask, Unapproved
  <2>4. CASE SelectByGlobs(c)
    BY <2>4 DEF SelectByGlobs, Considered, Watched
  <2>5. CASE StartSelector(c) \/ StartCommand(c)
    BY <2>1, <2>5 DEF StartSelector, StartCommand, Considered, MayRun, Baseline, Watched, TypeOK, Check
  <2>6. ASSUME Observe(c), Ends(c), phase \in Busy, UNCHANGED <<tree, edited>>,
               \/ phase' = "selected" /\ at' = at
               \/ at' = c + 1 /\ phase' \in {"gate", "deciding"}
        PROVE  Watched'
    <3>1. ~edited => reported' = touched'
      BY <2>6 DEF Watched, Observe, Ends
    <3>2. \A d \in Check : d > c /\ ProjectOf[d] # ProjectOf[c] =>
             held'[ProjectOf[d]] = Unread
      BY <2>1, <2>6, OtherProjects DEF Observe, TypeOK
    <3>3. held'[ProjectOf[c]] = tree
      BY <2>1, <2>6 DEF Observe, TypeOK
    <3>4. QED
      BY <2>6, <3>1, <3>2, <3>3 DEF Watched, Check
  <2>7. CASE EndSelector(c)
    BY <2>6, <2>7 DEF EndSelector
  <2>8. CASE EndCommand(c)
    BY <2>6, <2>8 DEF EndCommand, Push
  <2>9. CASE NotStarted(c)
    <3>1. ~edited => reported' = reported
      BY <2>1, <2>9 DEF NotStarted, MayRun, Watched, Check
    <3>2. \A d \in Check : d > c /\ ProjectOf[d] # ProjectOf[c] =>
             held'[ProjectOf[d]] = Unread
      BY <2>1, <2>9, OtherProjects DEF NotStarted, MayRun, TypeOK
    <3>3. held'[ProjectOf[c]] = tree
      BY <2>1, <2>9 DEF NotStarted, TypeOK
    <3>4. QED
      BY <2>9, <3>1, <3>2, <3>3 DEF NotStarted, Push, Watched, Check
  <2>10. QED
    BY <2>3, <2>4, <2>5, <2>7, <2>8, <2>9 DEF Visit
<1>3. CASE StopForAuthorization \/ InvokeReviewer \/ ReviewerEnds
  BY <1>3 DEF StopForAuthorization, InvokeReviewer, ReviewerEnds, Watched
<1>4. CASE Write \/ Abort \/ Edit
  BY <1>4 DEF Write, Abort, Edit, Watched
<1>5. QED
  BY <1>1, <1>2, <1>3, <1>4 DEF Next, Start, Answer, Proceed

-----------------------------------------------------------------------------
THEOREM Invariance == Spec => []IInv
<1>1. ASSUME IInv, [Next]_vars
      PROVE  IInv'
  <2>1. CASE Next
    BY <1>1, <2>1, TypeStep, ProgressStep, AuthorizationStep, DriftStep, WatchedStep DEF IInv
  <2>2. CASE UNCHANGED vars
    BY <1>1, <2>2 DEF IInv, TypeOK, Progress, NothingUnapprovedRuns, Watched, FirstRead,
                      NoSilentDrift, Allowed, Busy, vars, watchVars
  <2>3. QED
    BY <1>1, <2>1, <2>2
<1>2. QED
  BY <1>1, InitInv, PTL DEF Spec

\* Every reachable state is well typed (every variable of runChecks and of the
\* review around it).
THEOREM TypeCorrect == Spec => []TypeOK
BY Invariance, PTL DEF IInv

\* No command and no selector command runs without the policy's leave or the
\* person's key, whatever the configuration (authorizeCommand, runChecks).
THEOREM NothingUnapprovedRunsHolds == Spec => []NothingUnapprovedRuns
BY Invariance, PTL DEF IInv

\* No reviewer is invoked while a check waits (runReview).
THEOREM EvidenceIsSettledHolds == Spec => []EvidenceIsSettled
<1>1. IInv => EvidenceIsSettled
  BY ChecksAssumption DEF IInv, Progress, EvidenceIsSettled, Check
<1>2. QED
  BY <1>1, Invariance, PTL

\* While nobody else edits the checkout, exactly the checks that changed it say
\* so (watchWorkspace).
THEOREM MutationsAreAttributedHolds == Spec => []MutationsAreAttributed
<1>1. IInv => MutationsAreAttributed
  BY DEF IInv, Watched, MutationsAreAttributed
<1>2. QED
  BY <1>1, Invariance, PTL

\* The checkout is never fingerprinted in a new state without a result that
\* says so, whoever edits it (watchWorkspace).
THEOREM NoSilentDriftHolds == Spec => []NoSilentDrift
BY Invariance, PTL DEF IInv
=============================================================================

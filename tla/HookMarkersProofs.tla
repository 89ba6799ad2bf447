--------------------------- MODULE HookMarkersProofs ---------------------------
(***************************************************************************)
(* What holds of HookMarkers for any number of processes of a session, any *)
(* agents and any rules.                                                   *)
(***************************************************************************)
EXTENDS HookMarkers, TLAPS

Epochless == {"waiting", "clear", "reset", "reset written", "clean up",
              "read epoch", "create epoch", "epoch written"}

\* Capabilities are drawn in order.
Drawn ==
    /\ epoch \notin {None, Blank} => epoch < ids
    /\ \A h \in Hooks : mine[h] # None => mine[h] < ids

\* What a step says of the process that is at it.
Staged(h) ==
    /\ At(h, "waiting") => h \notin touched /\ earlier[h] = {}
    /\ pc[h] \in Epochless => mine[h] = None /\ chosen[h] = {} /\ skipped[h] = {}
    /\ pc[h] \in {"consider", "mark"} => mine[h] # None
    /\ pc[h] \in {"clear", "reset", "reset written"} => Renews(h)
    /\ At(h, "clean up") => event[h] = "SessionEnd"
    /\ pc[h] \in {"reset", "reset written", "epoch written"} => h \in touched
    /\ told[h] # {} => /\ At(h, "ended") /\ mine[h] # None
                       /\ left[h] = {} /\ told[h] = chosen[h]

Stages == \A h \in Hooks : Staged(h)

\* Who came before whom.
Precedence ==
    \A h \in Hooks :
        /\ \A g \in earlier[h] : pc[g] \in Over /\ earlier[g] \subseteq earlier[h]
        /\ \A g \in working[h] : mine[g] # None

\* A marker was made by a process that chose its subject.
Marked ==
    \A k \in markers : \E g \in Hooks : \E s \in chosen[g] : mine[g] # None /\ k = Key(g, s)

Structure == TypeOK /\ Drawn /\ Stages /\ Precedence /\ Marked

\* A renewal that has truncated the old epoch.
PastOld(r) == Renews(r) /\ pc[r] \notin {"waiting", "clear", "reset", "failed"}

\* From then on nobody works under the epoch in force who knew its own before.
NewContext ==
    /\ \A r \in Hooks : PastOld(r) => \A g \in working[r] : mine[g] # epoch
    /\ \A h \in Hooks : \A r \in earlier[h] :
          Renews(r) /\ At(r, "ended") /\ mine[h] # None =>
              \A g \in working[r] : mine[g] # mine[h]

-----------------------------------------------------------------------------
(* One context: a renewal, and what has been near the epoch since. *)

Renewed(r) == PastOld(r) /\ pc[r] # "reset written"
Creating(h) == pc[h] \in {"create epoch", "epoch written"}
Strangers(r) == touched \ (earlier[r] \cup {r})
Follows(h, r) == r \in earlier[h] /\ At(r, "ended") /\ ~TouchesEpoch(h)

\* While there is none but the renewal itself, its epoch is in force, and those
\* that follow it work under it and mark there what they were done with.
Undisturbed(r) ==
    /\ At(r, "reset written") => epoch = Blank
    /\ Renewed(r) => epoch \notin {None, Blank} /\ ~Creating(r)
    /\ Renewed(r) => \A h \in Hooks : Follows(h, r) =>
          /\ ~Creating(h)
          /\ mine[h] \in {None, epoch}
          /\ \A s \in chosen[h] \ left[h] : Key(h, s) \in markers
    /\ Renewed(r) => \A h \in Hooks : \A g \in earlier[h] :
          Follows(g, r) /\ Follows(h, r) /\ agent[g] = agent[h] => told[g] \cap chosen[h] = {}

\* And none of those that follow is ever the first to disturb it.
OneContext ==
    \A r \in Hooks : Renews(r) =>
        /\ Strangers(r) = {} => Undisturbed(r)
        /\ Renewed(r) /\ (\A x \in Strangers(r) : Follows(x, r)) => Strangers(r) = {}

IInv == Structure /\ NewContext /\ OneContext /\ DeliveredOnce /\ ToldInEveryContext

-----------------------------------------------------------------------------
LEMMA InitIInv == Init => IInv
<1> SUFFICES ASSUME Init PROVE IInv
  OBVIOUS
<1> USE HookAssumption DEF Init
<1>1. TypeOK
  BY DEF TypeOK, Steps
<1>2. Drawn /\ Stages /\ Precedence /\ Marked
  BY DEF Drawn, Stages, Staged, Precedence, Marked, At, Epochless, Over
<1>3. NewContext /\ OneContext
  BY DEF NewContext, PastOld, OneContext, Renewed, Undisturbed, At
<1>4. DeliveredOnce /\ ToldInEveryContext
  BY DEF DeliveredOnce, ToldInEveryContext
<1>5. QED
  BY <1>1, <1>2, <1>3, <1>4 DEF Structure, IInv

LEMMA FirstSteps ==
    ASSUME NEW e \in Events
    PROVE  /\ e \in {"SessionStart", "PostCompact"} => FirstStep[e] = "clear"
           /\ e = "SessionEnd" => FirstStep[e] = "clean up"
           /\ e \in {"UserPromptSubmit", "PostToolUse"} => FirstStep[e] = "read epoch"
<1>1. CASE e = "SessionStart"
  BY <1>1 DEF FirstStep
<1>2. CASE e = "PostCompact"
  BY <1>2 DEF FirstStep
<1>3. CASE e = "SessionEnd"
  BY <1>3 DEF FirstStep
<1>4. CASE e = "UserPromptSubmit"
  BY <1>4 DEF FirstStep
<1>5. CASE e = "PostToolUse"
  BY <1>5 DEF FirstStep
<1>6. QED
  BY <1>1, <1>2, <1>3, <1>4, <1>5 DEF Events

\* How a process begins, in the terms of the invariant.
LEMMA Beginning ==
    ASSUME Structure, NEW h \in Hooks, Begin(h)
    PROVE  /\ pc'[h] \in {"clear", "clean up", "read epoch"}
           /\ pc'[h] = "clear" <=> Renews(h)
           /\ pc'[h] = "clean up" => event[h] = "SessionEnd"
           /\ pc' = [pc EXCEPT ![h] = pc'[h]]
<1>1. event[h] \in Events
  BY DEF Structure, TypeOK
<1>2. QED
  BY <1>1, FirstSteps DEF Begin, Go, Structure, TypeOK, Renews, Events

\* Drawing a capability keeps what was typed.
LEMMA Drawing ==
    ASSUME TypeOK, ids' = ids + 1
    PROVE  /\ ids \in 0..ids' /\ ids' \in Nat /\ 0..ids \subseteq 0..ids'
           /\ mine \in [Hooks -> 0..ids' \cup {None}]
           /\ markers \subseteq (0..ids') \X Agents \X Subjects
<1>1. ids \in 0..ids' /\ ids' \in Nat /\ 0..ids \subseteq 0..ids'
  BY DEF TypeOK
<1>2. mine \in [Hooks -> 0..ids' \cup {None}]
  BY <1>1 DEF TypeOK
<1>3. markers \subseteq (0..ids') \X Agents \X Subjects
  BY <1>1 DEF TypeOK
<1>4. QED
  BY <1>1, <1>2, <1>3

LEMMA Updating ==
    ASSUME NEW S, NEW T, NEW f \in [S -> SUBSET T], NEW x \in S, NEW y \in SUBSET T
    PROVE  [f EXCEPT ![x] = y] \in [S -> SUBSET T]
OBVIOUS

LEMMA TypeStep ==
    ASSUME Structure, Next
    PROVE  TypeOK'
<1> USE HookAssumption DEF TypeOK, Steps, Over, given, own, files, Go, At
<1> PICK h \in Hooks :
      Begin(h) \/ Ignore(h) \/ Resetting(h) \/ Finding(h) \/ Delivering(h) \/ Fail(h)
  BY DEF Next
<1>0. TypeOK
  BY DEF Structure
<1>1. CASE Begin(h)
  <2>1. PICK wanted \in SUBSET Rules :
          left' = [left EXCEPT ![h] = IF event[h] = "PostToolUse" THEN wanted ELSE {Contract}]
    BY <1>1 DEF Begin
  <2>2. left' \in [Hooks -> SUBSET Subjects]
    BY <1>0, <2>1 DEF Subjects
  <2>3. pc' \in [Hooks -> Steps]
    BY <1>0, <1>1, Beginning
  <2>4. QED
    BY <1>0, <1>1, <2>2, <2>3 DEF Begin
<1>2. CASE Ignore(h)
  BY <1>0, <1>2 DEF Ignore
<1>3. CASE ClearMarkers(h)
  BY <1>0, <1>3 DEF ClearMarkers
<1>4. CASE TruncateForReset(h)
  BY <1>0, <1>4 DEF TruncateForReset
<1>5. CASE WriteForReset(h)
  <2>1. epoch' \in 0..ids' \cup {None, Blank}
    BY <1>0, <1>5, Drawing DEF WriteForReset, Written
  <2>2. QED
    BY <1>0, <1>5, <2>1, Drawing DEF WriteForReset
<1>6. CASE CleanUp(h)
  BY <1>0, <1>6 DEF CleanUp
<1>7. CASE ReadEpoch(h)
  <2>1. mine' \in [Hooks -> 0..ids \cup {None}]
    BY <1>0, <1>7 DEF ReadEpoch
  <2>2. pc' \in [Hooks -> Steps]
    BY <1>0, <1>7 DEF ReadEpoch
  <2>3. QED
    BY <1>0, <1>7, <2>1, <2>2 DEF ReadEpoch
<1>8. CASE TruncateForEpoch(h)
  BY <1>0, <1>8 DEF TruncateForEpoch
<1>9. CASE WriteForEpoch(h)
  <2>1. epoch' \in 0..ids' \cup {None, Blank}
    BY <1>0, <1>9, Drawing DEF WriteForEpoch, Written
  <2>2. mine' \in [Hooks -> 0..ids' \cup {None}]
    BY <1>0, <1>9, Drawing DEF WriteForEpoch
  <2>3. QED
    BY <1>0, <1>9, <2>1, <2>2, Drawing DEF WriteForEpoch
<1>10. ASSUME NEW s \in Subjects, Look(h, s) PROVE TypeOK'
  <2>1. /\ skipped \in [Hooks -> SUBSET Subjects] /\ left \in [Hooks -> SUBSET Subjects]
        /\ chosen \in [Hooks -> SUBSET Subjects]
        /\ skipped[h] \cup {s} \in SUBSET Subjects /\ left[h] \ {s} \in SUBSET Subjects
        /\ chosen[h] \cup {s} \in SUBSET Subjects
    BY <1>0
  <2>2. /\ \/ skipped' = skipped
           \/ skipped' = [skipped EXCEPT ![h] = skipped[h] \cup {s}]
        /\ left' = left \/ left' = [left EXCEPT ![h] = left[h] \ {s}]
        /\ chosen' = chosen \/ chosen' = [chosen EXCEPT ![h] = chosen[h] \cup {s}]
        /\ pc' = pc \/ pc' = [pc EXCEPT ![h] = "mark"]
    BY <1>10 DEF Look
  <2>3. skipped' \in [Hooks -> SUBSET Subjects]
    <3>1. [skipped EXCEPT ![h] = skipped[h] \cup {s}] \in [Hooks -> SUBSET Subjects]
      BY <2>1, Updating
    <3>2. QED
      BY <2>1, <2>2, <3>1
  <2>4. left' \in [Hooks -> SUBSET Subjects]
    BY <2>1, <2>2, Updating, Zenon
  <2>5. chosen' \in [Hooks -> SUBSET Subjects]
    BY <2>1, <2>2, Updating, Zenon
  <2>6. pc' \in [Hooks -> Steps]
    BY <1>0, <2>2
  <2>7. QED
    BY <1>0, <1>10, <2>3, <2>4, <2>5, <2>6 DEF Look
<1>11. CASE Mark(h)
  <2>1. mine[h] \in 0..ids
    BY <1>0, <1>11 DEF Mark, Structure, Stages, Staged
  <2>2. \A s \in Subjects : Key(h, s) \in (0..ids) \X Agents \X Subjects
    BY <1>0, <2>1 DEF Key
  <2>3. chosen[h] \subseteq Subjects
    BY <1>0
  <2>4. markers' \subseteq (0..ids) \X Agents \X Subjects
    BY <1>0, <1>11, <2>2, <2>3 DEF Mark
  <2>5. QED
    BY <1>0, <1>11, <2>4 DEF Mark
<1>12. CASE Tell(h)
  BY <1>0, <1>12 DEF Tell
<1>13. CASE Fail(h)
  BY <1>0, <1>13 DEF Fail
<1>14. QED
  BY <1>1, <1>2, <1>3, <1>4, <1>5, <1>6, <1>7, <1>8, <1>9, <1>10, <1>11, <1>12, <1>13
     DEF Resetting, Finding, Delivering

-----------------------------------------------------------------------------
(* One step of one process. *)

Step(h) == Begin(h) \/ Ignore(h) \/ Resetting(h) \/ Finding(h) \/ Delivering(h) \/ Fail(h)

\* What moves is the process itself; what it does to the epoch, and to markers
\* that are there, it does as one of those that touched them.
LEMMA Moves ==
    ASSUME Structure, NEW h \in Hooks, Step(h)
    PROVE  /\ pc[h] \notin Over /\ event' = event /\ agent' = agent
           /\ \A x \in Hooks \ {h} :
                /\ pc'[x] = pc[x] /\ mine'[x] = mine[x] /\ left'[x] = left[x]
                /\ chosen'[x] = chosen[x] /\ told'[x] = told[x] /\ skipped'[x] = skipped[x]
                /\ earlier'[x] = earlier[x] /\ working'[x] = working[x]
           /\ pc[h] = "waiting" => Begin(h)
           /\ pc[h] # "waiting" => earlier'[h] = earlier[h] /\ working'[h] = working[h]
           /\ touched' \in {touched, touched \cup {h}}
           /\ mine[h] # None => mine'[h] = mine[h]
           /\ chosen[h] \subseteq chosen'[h]
           /\ epoch' # epoch \/ ~(markers \subseteq markers') => h \in touched'
<1> USE DEF Structure, TypeOK, Over, given, own, files, Go, At, Stages, Staged, Epochless
<1>1. CASE Begin(h)
  <2>1. \A x \in Hooks \ {h} : pc'[x] = pc[x] /\ left'[x] = left[x]
    BY <1>1, Beginning DEF Begin
  <2>2. QED
    BY <1>1, <2>1 DEF Begin
<1>2. CASE Ignore(h)
  BY <1>2 DEF Ignore
<1>3. CASE ClearMarkers(h)
  BY <1>3 DEF ClearMarkers
<1>4. CASE TruncateForReset(h)
  BY <1>4 DEF TruncateForReset
<1>5. CASE WriteForReset(h)
  BY <1>5 DEF WriteForReset
<1>6. CASE CleanUp(h)
  BY <1>6 DEF CleanUp
<1>7. CASE ReadEpoch(h)
  BY <1>7 DEF ReadEpoch
<1>8. CASE TruncateForEpoch(h)
  BY <1>8 DEF TruncateForEpoch
<1>9. CASE WriteForEpoch(h)
  BY <1>9 DEF WriteForEpoch
<1>10. CASE \E s \in Subjects : Look(h, s)
  <2>1. PICK s \in Subjects : Look(h, s)
    BY <1>10
  <2>2. \A x \in Hooks \ {h} : /\ pc'[x] = pc[x] /\ left'[x] = left[x]
                               /\ chosen'[x] = chosen[x] /\ skipped'[x] = skipped[x]
    BY <2>1 DEF Look
  <2>3. chosen'[h] \in {chosen[h], chosen[h] \cup {s}}
    BY <2>1 DEF Look
  <2>4. QED
    BY <2>1, <2>2, <2>3 DEF Look
<1>11. CASE Mark(h)
  BY <1>11 DEF Mark
<1>12. CASE Tell(h)
  BY <1>12 DEF Tell
<1>13. CASE Fail(h)
  BY <1>13 DEF Fail
<1>14. QED
  BY <1>1, <1>2, <1>3, <1>4, <1>5, <1>6, <1>7, <1>8, <1>9, <1>10, <1>11, <1>12, <1>13
     DEF Step, Resetting, Finding, Delivering

LEMMA DrawnStep ==
    ASSUME Structure, TypeOK', NEW h \in Hooks, Step(h)
    PROVE  Drawn'
<1> USE HookAssumption DEF Structure, TypeOK, Drawn, given, own, files
<1>1. CASE UNCHANGED <<epoch, mine, ids>>
  BY <1>1
<1>2. CASE TruncateForReset(h) \/ CleanUp(h) \/ TruncateForEpoch(h)
  BY <1>2 DEF TruncateForReset, CleanUp, TruncateForEpoch
<1>3. ASSUME ids' = ids + 1, epoch' = Written, NEW x \in Hooks, mine'[x] \in {mine[x], ids}
      PROVE  /\ epoch' \notin {None, Blank} => epoch' < ids'
             /\ mine'[x] # None => mine'[x] < ids'
  <2>1. epoch' \notin {None, Blank} => epoch' = ids
    BY <1>3 DEF Written
  <2>2. mine'[x] # None => mine'[x] <= ids /\ mine'[x] \in Nat
    BY <1>3
  <2>3. QED
    BY <1>3, <2>1, <2>2
<1>4. CASE WriteForReset(h)
  BY <1>3, <1>4 DEF WriteForReset
<1>5. CASE WriteForEpoch(h)
  BY <1>3, <1>5 DEF WriteForEpoch
<1>6. CASE ReadEpoch(h)
  BY <1>6 DEF ReadEpoch
<1>7. QED
  BY <1>1, <1>2, <1>4, <1>5, <1>6
     DEF Step, Resetting, Finding, Delivering, Begin, Ignore, ClearMarkers, Look, Mark, Tell, Fail

LEMMA StagesStep ==
    ASSUME Structure, TypeOK', NEW h \in Hooks, Step(h)
    PROVE  Stages'
<1>1. SUFFICES Staged(h)'
  <2>1. ASSUME NEW x \in Hooks \ {h} PROVE Staged(x)'
    <3>1. /\ pc'[x] = pc[x] /\ mine'[x] = mine[x] /\ left'[x] = left[x] /\ chosen'[x] = chosen[x]
          /\ told'[x] = told[x] /\ skipped'[x] = skipped[x] /\ earlier'[x] = earlier[x]
          /\ event'[x] = event[x] /\ (x \in touched' <=> x \in touched)
      BY Moves
    <3>2. Staged(x)
      BY DEF Structure, Stages
    <3>3. QED
      BY <3>1, <3>2 DEF Staged, At, Renews
  <2>2. QED
    BY <2>1 DEF Stages, Staged
<1>2. Staged(h)
  BY DEF Structure, Stages
<1> USE HookAssumption DEF Structure, TypeOK, Staged, Epochless, given, own, files, At, Go, Over
<1>3. CASE Begin(h)
  <2>1. At(h, "waiting") /\ UNCHANGED <<event, mine, chosen, skipped, told, files>>
    BY <1>3 DEF Begin
  <2>2. /\ pc'[h] \in {"clear", "clean up", "read epoch"}
        /\ pc'[h] = "clear" <=> Renews(h)
        /\ pc'[h] = "clean up" => event[h] = "SessionEnd"
    BY <1>3, Beginning
  <2>3. QED
    BY <1>2, <2>1, <2>2 DEF Renews
<1>4. CASE Resetting(h)
  <2>1. CASE ClearMarkers(h)
    BY <1>2, <2>1 DEF ClearMarkers, Renews
  <2>2. CASE TruncateForReset(h)
    BY <1>2, <2>2 DEF TruncateForReset, Renews
  <2>3. CASE WriteForReset(h)
    BY <1>2, <2>3 DEF WriteForReset, Renews
  <2>4. CASE CleanUp(h)
    BY <1>2, <2>4 DEF CleanUp, Renews
  <2>5. QED
    BY <1>4, <2>1, <2>2, <2>3, <2>4 DEF Resetting
<1>5. CASE ReadEpoch(h)
  <2>1. At(h, "read epoch") /\ UNCHANGED <<event, earlier, chosen, told, skipped, touched>>
    BY <1>5 DEF ReadEpoch
  <2>2. \/ pc'[h] = "create epoch" /\ mine'[h] = mine[h]
        \/ pc'[h] = "consider" /\ mine'[h] # None
    <3>1. CASE epoch \in {None, Blank}
      BY <1>5, <3>1 DEF ReadEpoch
    <3>2. CASE epoch \notin {None, Blank}
      BY <1>5, <3>2 DEF ReadEpoch
    <3>3. QED
      BY <3>1, <3>2
  <2>3. QED
    BY <1>2, <2>1, <2>2 DEF Renews
<1>6. CASE TruncateForEpoch(h)
  BY <1>2, <1>6 DEF TruncateForEpoch, Renews
<1>7. CASE WriteForEpoch(h)
  BY <1>2, <1>7 DEF WriteForEpoch, Renews
<1>8. CASE \E s \in Subjects : Look(h, s)
  BY <1>2, <1>8 DEF Look, Renews
<1>9. CASE Mark(h)
  BY <1>2, <1>9 DEF Mark, Renews
<1>10. CASE Ignore(h)
  BY <1>2, <1>10 DEF Ignore, Renews
<1>11. CASE Fail(h)
  BY <1>2, <1>11 DEF Fail, Renews
<1>12. CASE Tell(h)
  BY <1>2, <1>12 DEF Tell, Renews
<1>13. QED
  BY <1>3, <1>4, <1>5, <1>6, <1>7, <1>8, <1>9, <1>10, <1>11, <1>12 DEF Step, Finding, Delivering

LEMMA PrecedenceStep ==
    ASSUME Structure, TypeOK', NEW h \in Hooks, Step(h)
    PROVE  Precedence'
<1> USE DEF Structure, TypeOK, Precedence
<1>1. \A x \in Hooks : pc[x] \in Over => x # h /\ pc'[x] = pc[x] /\ earlier'[x] = earlier[x]
  BY Moves
<1>2. \A x \in Hooks : mine[x] # None => mine'[x] # None
  BY Moves
<1>3. CASE Begin(h)
  <2>1. /\ earlier'[h] = {g \in Hooks : pc[g] \in Over}
        /\ working'[h] = {g \in Hooks : mine[g] # None}
    BY <1>3 DEF Begin
  <2>2. \A g \in earlier'[h] : pc'[g] \in Over /\ earlier'[g] \subseteq earlier'[h]
    BY <1>1, <2>1
  <2>3. \A g \in working'[h] : mine'[g] # None
    BY <1>2, <2>1
  <2>4. \A x \in Hooks \ {h} : earlier'[x] = earlier[x] /\ working'[x] = working[x]
    BY Moves
  <2>5. QED
    BY <1>1, <1>2, <2>2, <2>3, <2>4
<1>4. CASE ~Begin(h)
  <2>1. \A x \in Hooks : earlier'[x] = earlier[x] /\ working'[x] = working[x]
    BY <1>4, Moves
  <2>2. QED
    BY <1>1, <1>2, <2>1
<1>5. QED
  BY <1>3, <1>4

LEMMA MarkedStep ==
    ASSUME Structure, TypeOK', NEW h \in Hooks, Step(h)
    PROVE  Marked'
<1>1. \A g \in Hooks : mine[g] # None =>
        mine'[g] = mine[g] /\ agent'[g] = agent[g] /\ chosen[g] \subseteq chosen'[g]
  BY Moves
<1>2. \A k \in markers : \E g \in Hooks : \E s \in chosen'[g] : mine'[g] # None /\ k = Key(g, s)'
  BY <1>1 DEF Structure, Marked, Key
<1>3. CASE Mark(h)
  <2>1. /\ markers' = markers \cup {Key(h, s) : s \in chosen[h] \cap left[h]}
        /\ mine[h] # None
    BY <1>3 DEF Mark, Structure, Stages, Staged, At
  <2>2. \A s \in chosen[h] : s \in chosen'[h] /\ mine'[h] # None /\ Key(h, s) = Key(h, s)'
    BY <1>1, <2>1 DEF Key
  <2>3. QED
    BY <1>2, <2>1, <2>2 DEF Marked
<1>4. CASE ~Mark(h)
  <2>1. markers' \subseteq markers
    BY <1>4 DEF Step, Resetting, Finding, Delivering, Begin, Ignore, ClearMarkers, TruncateForReset,
         WriteForReset, CleanUp, ReadEpoch, TruncateForEpoch, WriteForEpoch, Look, Tell, Fail, files
  <2>2. QED
    BY <1>2, <2>1 DEF Marked
<1>5. QED
  BY <1>3, <1>4

LEMMA StructureStep ==
    ASSUME Structure, NEW h \in Hooks, Step(h)
    PROVE  Structure'
<1>1. TypeOK'
  BY TypeStep DEF Next, Step
<1>2. QED
  BY <1>1, DrawnStep, StagesStep, PrecedenceStep, MarkedStep DEF Structure

-----------------------------------------------------------------------------
(* ToldInEveryContext. *)

\* A process that has its epoch when another begins draws none any more.
LEMMA NewContextStep ==
    ASSUME Structure, Structure', NewContext, NEW h \in Hooks, Step(h)
    PROVE  NewContext'
<1> USE DEF Structure
<1>1. ASSUME NEW r \in Hooks, PastOld(r)', NEW g \in working'[r]
      PROVE  mine'[g] # epoch'
  <2>1. ~Begin(h) \/ h # r
    <3>1. CASE Begin(r)
      <4>1. pc'[r] = "clear" <=> Renews(r)
        BY <3>1, Beginning
      <4>2. Renews(r)' <=> Renews(r)
        BY <3>1 DEF Begin, Renews
      <4>3. QED
        BY <1>1, <4>1, <4>2 DEF PastOld
    <3>2. QED
      BY <3>1
  <2>2. working'[r] = working[r] /\ g \in Hooks /\ mine[g] # None /\ mine'[g] = mine[g]
    BY <1>1, <2>1, Moves DEF TypeOK, Precedence
  <2>3. CASE PastOld(r) /\ epoch' = epoch
    BY <1>1, <2>2, <2>3 DEF NewContext
  <2>4. CASE epoch' \in {None, Blank}
    BY <2>2, <2>4, HookAssumption DEF TypeOK
  <2>5. CASE epoch' = ids
    BY <2>2, <2>5 DEF TypeOK, Drawn
  <2>6. epoch' \in {epoch, None, Blank, ids}
    BY DEF Step, Resetting, Finding, Delivering, Begin, Ignore, ClearMarkers, TruncateForReset,
       WriteForReset, CleanUp, ReadEpoch, TruncateForEpoch, WriteForEpoch, Look, Mark, Tell, Fail,
       files, Written
  <2>7. PastOld(r) \/ epoch' = Blank
    <3>1. CASE h # r
      BY <1>1, <3>1, Moves DEF PastOld, Renews
    <3>2. CASE h = r
      <4>1. Renews(r) /\ pc[r] # "waiting" /\ pc[r] # "failed"
        BY <1>1, <2>1, <3>2, Moves DEF PastOld, Renews, Over
      <4>2. CASE pc[r] \in {"clear", "reset"}
        <5>1. ClearMarkers(r) \/ TruncateForReset(r) \/ Fail(r)
          BY <3>2, <4>2 DEF At, Step, Resetting, Finding, Delivering, Begin, Ignore, WriteForReset,
             CleanUp, ReadEpoch, TruncateForEpoch, WriteForEpoch, Look, Mark, Tell
        <5>2. ~ClearMarkers(r) /\ ~Fail(r)
          BY <1>1 DEF ClearMarkers, Fail, Go, PastOld, TypeOK
        <5>3. QED
          BY <5>1, <5>2 DEF TruncateForReset
      <4>3. QED
        BY <4>1, <4>2 DEF PastOld
    <3>3. QED
      BY <3>1, <3>2
  <2>8. QED
    BY <2>3, <2>4, <2>5, <2>6, <2>7
<1>2. ASSUME NEW x \in Hooks, NEW r \in earlier'[x], Renews(r)', At(r, "ended")', mine'[x] # None,
             NEW g \in working'[r]
      PROVE  mine'[g] # mine'[x]
  <2>1. ~(Begin(h) /\ x = h)
    BY <1>2 DEF Stages, Staged, TypeOK, Epochless, Begin, At
  <2>2. earlier'[x] = earlier[x] /\ r \in Hooks /\ r # h
    BY <1>2, <2>1, Moves DEF TypeOK, Precedence
  <2>3. working'[r] = working[r] /\ g \in Hooks /\ mine[g] # None /\ mine'[g] = mine[g]
    BY <1>2, <2>2, Moves DEF TypeOK, Precedence
  <2>4. Renews(r) /\ At(r, "ended") /\ PastOld(r) /\ r \in earlier[x]
    BY <1>2, <2>2, Moves DEF Renews, At, PastOld
  <2>5. CASE mine'[x] = mine[x]
    BY <1>2, <2>3, <2>4, <2>5 DEF NewContext
  <2>6. CASE mine'[x] = epoch
    BY <1>2, <2>2, <2>3, <2>4, <2>6 DEF NewContext
  <2>7. CASE mine'[x] = ids
    <3>1. mine[g] < ids /\ mine[g] \in Nat
      BY <2>3 DEF Drawn, TypeOK
    <3>2. QED
      BY <2>3, <2>7, <3>1
  <2>8. mine'[x] \in {mine[x], epoch, ids}
    BY DEF Step, Resetting, Finding, Delivering, Begin, Ignore, ClearMarkers, TruncateForReset,
       WriteForReset, CleanUp, ReadEpoch, TruncateForEpoch, WriteForEpoch, Look, Mark, Tell, Fail,
       own, TypeOK
  <2>9. QED
    BY <2>5, <2>6, <2>7, <2>8
<1>3. QED
  BY <1>1, <1>2 DEF NewContext

\* What is passed over was marked under the epoch that this process works under.
LEMMA ToldStep ==
    ASSUME Structure, Structure', NewContext, ToldInEveryContext, NEW h \in Hooks, Step(h)
    PROVE  ToldInEveryContext'
<1> USE DEF Structure
<1> SUFFICES ASSUME NEW x \in Hooks, NEW r \in earlier'[x], Renews(r)', At(r, "ended")',
                    NEW s \in skipped'[x]
             PROVE  \E g \in Hooks \ working'[r] : s \in chosen'[g] /\ agent'[g] = agent'[x]
  BY DEF ToldInEveryContext
<1>1. ~(Begin(h) /\ x = h)
  BY DEF Stages, Staged, TypeOK, Epochless, Begin, At, own
<1>2. earlier'[x] = earlier[x] /\ r \in Hooks /\ r # h
  BY <1>1, Moves DEF TypeOK, Precedence
<1>3. Renews(r) /\ At(r, "ended") /\ working'[r] = working[r]
  BY <1>2, Moves DEF Renews, At
<1>4. \A g \in Hooks : chosen[g] \subseteq chosen'[g] /\ agent'[g] = agent[g]
  BY Moves
<1>5. CASE s \in skipped[x]
  BY <1>2, <1>3, <1>4, <1>5 DEF ToldInEveryContext
<1>6. CASE s \notin skipped[x]
  <2>1. Key(x, s) \in markers /\ At(x, "consider")
    <3>1. x = h /\ skipped' # skipped
      BY <1>6, Moves
    <3>2. PICK t \in Subjects : Look(h, t)
      BY <3>1 DEF Step, Resetting, Finding, Delivering, Begin, Ignore, ClearMarkers,
         TruncateForReset, WriteForReset, CleanUp, ReadEpoch, TruncateForEpoch, WriteForEpoch,
         Mark, Tell, Fail, own
    <3>3. Key(h, t) \in markers /\ skipped' = [skipped EXCEPT ![h] = @ \cup {t}]
      BY <3>1, <3>2 DEF Look
    <3>4. s = t
      BY <1>6, <3>1, <3>3 DEF TypeOK
    <3>5. QED
      BY <3>1, <3>2, <3>3, <3>4 DEF Look
  <2>2. PICK g \in Hooks : s \in chosen[g] /\ mine[g] = mine[x] /\ agent[g] = agent[x]
    BY <2>1 DEF Marked, Key
  <2>3. mine[x] # None
    BY <2>1 DEF Stages, Staged, At
  <2>4. g \notin working[r]
    BY <1>2, <1>3, <2>2, <2>3 DEF NewContext
  <2>5. QED
    BY <1>3, <1>4, <2>2, <2>4
<1>7. QED
  BY <1>5, <1>6

-----------------------------------------------------------------------------
(* DeliveredOnce. *)

\* While a renewal has no strangers, who moves is it or has not touched.
LEMMA NoStrangers ==
    ASSUME Structure, NEW h \in Hooks, Step(h), NEW r \in Hooks, ~At(r, "waiting"),
           Strangers(r)' = {}
    PROVE  /\ Strangers(r) = {} /\ earlier'[r] = earlier[r]
           /\ h \in touched' => h = r
<1>1. earlier'[r] = earlier[r] /\ touched \subseteq touched' /\ h \notin earlier[r]
  BY Moves DEF At, Structure, Precedence
<1>2. QED
  BY <1>1 DEF Strangers

\* Then the renewal itself leaves the epoch it wrote alone.
LEMMA Quiet ==
    ASSUME Structure, NEW h \in Hooks, Step(h), NEW r \in Hooks, Renewed(r),
           Strangers(r)' = {}, Undisturbed(r)
    PROVE  epoch' = epoch /\ markers \subseteq markers'
<1>1. ~At(r, "waiting")
  BY DEF Renewed, PastOld, At
<1>2. CASE h # r
  BY <1>1, <1>2, NoStrangers, Moves
<1>3. CASE h = r
  <2>1. pc[h] \in {"read epoch", "consider", "mark"}
    BY <1>3, Moves DEF Renewed, PastOld, Undisturbed, Creating, Structure, TypeOK, Steps, Over,
       Stages, Staged, At, Renews
  <2>2. QED
    BY <2>1 DEF Step, Resetting, Finding, Delivering, Begin, Ignore, ClearMarkers,
       TruncateForReset, WriteForReset, CleanUp, ReadEpoch, TruncateForEpoch, WriteForEpoch, Look,
       Mark, Tell, Fail, At, files
<1>4. QED
  BY <1>2, <1>3

\* How a renewal comes to have written.
LEMMA Renewing ==
    ASSUME Structure, NEW h \in Hooks, Step(h), NEW r \in Hooks, Renewed(r)', ~Renewed(r)
    PROVE  h = r /\ WriteForReset(r)
<1>1. h = r
  BY Moves DEF Renewed, PastOld, Renews
<1>2. Renews(r) /\ pc[r] \in {"waiting", "clear", "reset", "reset written"}
  BY <1>1, Moves DEF Renewed, PastOld, Renews, Over
<1>3. ~Begin(r)
  <2>1. CASE Begin(r)
    <3>1. pc'[r] = "clear"
      BY <1>2, <2>1, Beginning
    <3>2. QED
      BY <3>1 DEF Renewed, PastOld
  <2>2. QED
    BY <2>1
<1>4. ClearMarkers(r) \/ TruncateForReset(r) \/ WriteForReset(r) \/ Fail(r)
  BY <1>1, <1>2, <1>3, Moves DEF At, Step, Resetting, Finding, Delivering, Ignore, CleanUp,
     ReadEpoch, TruncateForEpoch, WriteForEpoch, Look, Mark, Tell
<1>5. ~ClearMarkers(r) /\ ~TruncateForReset(r) /\ ~Fail(r)
  BY DEF ClearMarkers, TruncateForReset, Fail, Go, Renewed, PastOld, Structure, TypeOK
<1>6. QED
  BY <1>1, <1>4, <1>5

\* Who follows has followed, unless it begins now.
LEMMA Following ==
    ASSUME Structure, NEW h \in Hooks, Step(h), NEW r \in Hooks, NEW x \in Hooks, Follows(x, r)'
    PROVE  /\ ~TouchesEpoch(x) /\ At(r, "ended") /\ r # h
           /\ Follows(x, r) \/ (x = h /\ Begin(h))
<1>1. ~TouchesEpoch(x)
  BY Moves DEF Follows, TouchesEpoch, Renews
<1>2. CASE x = h /\ Begin(h)
  <2>1. pc[r] \in Over
    BY <1>2 DEF Follows, Begin, Structure, TypeOK
  <2>2. QED
    BY <1>1, <1>2, <2>1, Moves DEF Follows, At
<1>3. CASE ~(x = h /\ Begin(h))
  <2>1. earlier'[x] = earlier[x]
    BY <1>3, Moves
  <2>2. r \in earlier[x] /\ pc[r] \in Over
    BY <2>1 DEF Follows, Structure, Precedence
  <2>3. r # h /\ At(r, "ended")
    BY <2>2, Moves DEF Follows, At
  <2>4. QED
    BY <1>1, <2>2, <2>3 DEF Follows
<1>4. QED
  BY <1>2, <1>3

\* A follower that moves: it begins, finds the epoch in force, or goes on with
\* its subjects under it.
LEMMA FollowerMoves ==
    ASSUME Structure, Structure', NEW h \in Hooks, Step(h), NEW r \in Hooks, Follows(h, r)',
           Renewed(r), Undisturbed(r), epoch' = epoch, markers \subseteq markers'
    PROVE  /\ ~Creating(h)'
           /\ mine'[h] \in {None, epoch}
           /\ \A s \in chosen'[h] \ left'[h] : Key(h, s)' \in markers'
<1>1. ~TouchesEpoch(h) /\ (Follows(h, r) \/ Begin(h))
  BY Following
<1>2. CASE Begin(h)
  <2>1. pc'[h] = "read epoch"
    BY <1>1, <1>2, Beginning DEF TouchesEpoch
  <2>2. mine'[h] = None /\ chosen'[h] = {}
    BY <2>1 DEF Structure, Stages, Staged, Epochless
  <2>3. QED
    BY <2>1, <2>2 DEF Creating
<1>3. CASE Follows(h, r) /\ ~Begin(h)
  <2>1. /\ ~Creating(h) /\ mine[h] \in {None, epoch}
        /\ \A s \in chosen[h] \ left[h] : Key(h, s) \in markers
        /\ epoch \notin {None, Blank}
    BY <1>3 DEF Undisturbed
  <2>2. pc[h] \in {"read epoch", "consider", "mark"}
    BY <1>1, <1>3, <2>1, Moves DEF Creating, Structure, TypeOK, Steps, Over, Stages, Staged, At,
       TouchesEpoch
  <2>3. \A s : mine'[h] = mine[h] => Key(h, s)' = Key(h, s)
    BY Moves DEF Key
  <2>4. CASE ReadEpoch(h)
    <3>1. pc'[h] = "consider" /\ mine'[h] = epoch
      <4>1. pc' = [pc EXCEPT ![h] = "consider"] /\ mine' = [mine EXCEPT ![h] = epoch]
        BY <2>1, <2>4 DEF ReadEpoch, Go
      <4>2. QED
        BY <4>1 DEF Structure, TypeOK
    <3>2. chosen'[h] = {}
      BY <2>4 DEF ReadEpoch, At, Structure, Stages, Staged, Epochless
    <3>3. QED
      BY <3>1, <3>2 DEF Creating
  <2>5. CASE Ignore(h) \/ Tell(h) \/ Fail(h)
    <3>1. mine' = mine /\ left' = left /\ chosen' = chosen /\ pc'[h] \in Over
      BY <2>5 DEF Ignore, Tell, Fail, own, Go, Structure, TypeOK, Over
    <3>2. QED
      BY <2>1, <2>3, <3>1 DEF Creating, Over
  <2>6. CASE Mark(h)
    <3>1. /\ mine' = mine /\ chosen' = chosen /\ left'[h] = left[h] \ chosen[h]
          /\ markers' = markers \cup {Key(h, s) : s \in chosen[h] \cap left[h]}
          /\ pc'[h] = "consider"
      BY <2>6 DEF Mark, Go, Structure, TypeOK
    <3>2. QED
      BY <2>1, <2>3, <3>1 DEF Creating
  <2>7. CASE \E s \in Subjects : Look(h, s)
    <3>1. PICK s \in Subjects : Look(h, s)
      BY <2>7
    <3>2. mine' = mine /\ pc'[h] \in {"consider", "mark"} /\ s \in left[h]
      BY <3>1 DEF Look, Go, At, Structure, TypeOK
    <3>3. \/ Key(h, s) \in markers /\ chosen'[h] = chosen[h] /\ left'[h] = left[h] \ {s}
          \/ chosen'[h] = chosen[h] \cup {s} /\ left'[h] = left[h]
      BY <3>1 DEF Look, Structure, TypeOK
    <3>4. QED
      BY <2>1, <2>3, <3>2, <3>3 DEF Creating
  <2>8. QED
    BY <1>3, <2>2, <2>4, <2>5, <2>6, <2>7
       DEF Step, Resetting, Finding, Delivering, Begin, ClearMarkers, TruncateForReset,
           WriteForReset, CleanUp, TruncateForEpoch, WriteForEpoch, At
<1>4. QED
  BY <1>1, <1>2, <1>3

\* What a follower has told is marked, and so no later one chooses it.
LEMMA ChosenAfresh ==
    ASSUME Structure, NEW h \in Hooks, Step(h), ~Begin(h), NEW r \in Hooks, Renewed(r),
           Undisturbed(r), Follows(h, r), NEW g \in earlier[h], Follows(g, r), agent[g] = agent[h]
    PROVE  told[g] \cap chosen'[h] = {}
<1> g \in Hooks
  BY DEF Structure, TypeOK
<1>1. told[g] \cap chosen[h] = {} /\ mine[h] \in {None, epoch} /\ mine[g] \in {None, epoch}
  BY DEF Undisturbed
<1>2. CASE chosen'[h] = chosen[h]
  BY <1>1, <1>2
<1>3. CASE chosen'[h] # chosen[h]
  <2>1. PICK s \in Subjects : Look(h, s)
    BY <1>3 DEF Step, Resetting, Finding, Delivering, Ignore, ClearMarkers, TruncateForReset,
       WriteForReset, CleanUp, ReadEpoch, TruncateForEpoch, WriteForEpoch, Mark, Tell, Fail, own
  <2>2. /\ Key(h, s) \notin markers /\ chosen'[h] = chosen[h] \cup {s}
        /\ At(h, "consider")
    BY <1>3, <2>1 DEF Look, Structure, TypeOK
  <2>3. mine[h] = epoch
    BY <1>1, <2>2 DEF Structure, Stages, Staged, At
  <2>4. s \notin told[g]
    <3>1. CASE s \in told[g]
      <4>1. mine[g] = epoch /\ s \in chosen[g] \ left[g]
        BY <1>1, <3>1 DEF Structure, Stages, Staged
      <4>2. Key(g, s) \in markers
        BY <4>1 DEF Undisturbed
      <4>3. QED
        BY <2>2, <2>3, <4>1, <4>2 DEF Key
    <3>2. QED
      BY <3>1
  <2>5. QED
    BY <1>1, <2>2, <2>4
<1>4. QED
  BY <1>2, <1>3

LEMMA UndisturbedStep ==
    ASSUME Structure, Structure', OneContext, NEW h \in Hooks, Step(h), NEW r \in Hooks,
           Renews(r)', Strangers(r)' = {}
    PROVE  Undisturbed(r)'
<1>1. CASE At(r, "waiting")
  <2>1. pc'[r] \in {"waiting", "clear"}
    BY <1>1, Moves, Beginning DEF At, Renews
  <2>2. QED
    BY <2>1 DEF Undisturbed, Renewed, PastOld, At
<1>2. CASE ~At(r, "waiting")
  <2>1. Renews(r) /\ Undisturbed(r) /\ (h \in touched' => h = r)
    BY <1>2, NoStrangers, Moves DEF Renews, OneContext
  <2>2. At(r, "reset written")' => epoch' = Blank
    <3>1. CASE h # r
      BY <2>1, <3>1, Moves DEF Undisturbed, At
    <3>2. CASE h = r /\ At(r, "reset written")'
      <4>1. TruncateForReset(r)
        BY <1>2, <3>2, Beginning DEF At, Step, Resetting, Finding, Delivering, Ignore,
           ClearMarkers, WriteForReset, CleanUp, ReadEpoch, TruncateForEpoch, WriteForEpoch, Look,
           Mark, Tell, Fail, Go, Structure, TypeOK, Over
      <4>2. QED
        BY <4>1 DEF TruncateForReset
    <3>3. QED
      BY <3>1, <3>2
  <2>3. ASSUME Renewed(r)', ~Renewed(r) PROVE Undisturbed(r)'
    <3>1. h = r /\ WriteForReset(r)
      BY <2>3, Renewing
    <3>2. epoch' \notin {None, Blank}
      BY <2>1, <3>1, HookAssumption DEF WriteForReset, Written, Undisturbed, Structure, TypeOK
    <3>3. ~Creating(r)'
      BY <3>1 DEF WriteForReset, Go, Creating, Structure, TypeOK
    <3>4. \A x \in Hooks : ~Follows(x, r)'
      BY <3>1, Following
    <3>5. QED
      BY <2>2, <3>2, <3>3, <3>4 DEF Undisturbed
  <2>4. ASSUME Renewed(r) PROVE Undisturbed(r)'
    <3>1. epoch' = epoch /\ markers \subseteq markers'
      BY <2>1, <2>4, Quiet
    <3>2. Renewed(r)' => ~Creating(r)'
      <4>1. CASE h # r
        BY <2>1, <2>4, <4>1, Moves DEF Undisturbed, Creating
      <4>2. CASE h = r
        <5>1. CASE ReadEpoch(r)
          BY <2>1, <2>4, <5>1 DEF ReadEpoch, Undisturbed, Creating, Go, Structure, TypeOK
        <5>2. CASE ~ReadEpoch(r)
          BY <1>2, <2>1, <2>4, <4>2, <5>2 DEF Undisturbed, Creating, At, Go, Over, Structure, TypeOK,
             Step, Resetting, Finding, Delivering, Begin, Ignore, ClearMarkers, TruncateForReset,
             WriteForReset, CleanUp, TruncateForEpoch, WriteForEpoch, Look, Mark, Tell, Fail
        <5>3. QED
          BY <5>1, <5>2
      <4>3. QED
        BY <4>1, <4>2
    <3>3. ASSUME NEW x \in Hooks, Follows(x, r)'
          PROVE  /\ ~Creating(x)' /\ mine'[x] \in {None, epoch'}
                 /\ \A s \in chosen'[x] \ left'[x] : Key(x, s)' \in markers'
      <4>1. CASE x = h
        BY <2>1, <2>4, <3>1, <3>3, <4>1, FollowerMoves
      <4>2. CASE x # h
        <5>1. Follows(x, r)
          BY <3>3, <4>2, Following
        <5>2. /\ pc'[x] = pc[x] /\ mine'[x] = mine[x] /\ agent'[x] = agent[x]
              /\ chosen'[x] = chosen[x] /\ left'[x] = left[x]
          BY <4>2, Moves
        <5>3. QED
          BY <2>1, <2>4, <3>1, <5>1, <5>2 DEF Undisturbed, Creating, Key
      <4>3. QED
        BY <4>1, <4>2
    <3>4. ASSUME NEW x \in Hooks, NEW g \in earlier'[x], Follows(g, r)', Follows(x, r)',
                 agent'[g] = agent'[x]
          PROVE  told'[g] \cap chosen'[x] = {}
      <4>1. CASE x = h /\ Begin(h)
        <5>1. chosen'[h] = {}
          BY <4>1, Beginning DEF Structure, Stages, Staged, Epochless
        <5>2. QED
          BY <4>1, <5>1
      <4>2. CASE ~(x = h /\ Begin(h))
        <5>1. earlier'[x] = earlier[x] /\ agent' = agent
          BY <4>2, Moves
        <5>2. g \in Hooks /\ g # h /\ told'[g] = told[g]
          BY <3>4, <5>1, Moves DEF Structure, TypeOK, Precedence
        <5>3. Follows(x, r) /\ Follows(g, r)
          BY <3>4, <4>2, <5>2, Following
        <5>4. CASE x = h
          BY <2>1, <2>4, <3>4, <4>2, <5>1, <5>2, <5>3, <5>4, ChosenAfresh
        <5>5. CASE x # h
          <6>1. chosen'[x] = chosen[x] /\ g \in earlier[x] /\ agent[g] = agent[x]
            BY <3>4, <5>1, <5>5, Moves
          <6>2. told[g] \cap chosen[x] = {}
            BY <2>1, <2>4, <5>3, <6>1 DEF Undisturbed
          <6>3. QED
            BY <5>2, <6>1, <6>2
        <5>6. QED
          BY <5>4, <5>5
      <4>3. QED
        BY <4>1, <4>2
    <3>5. QED
      BY <2>1, <2>2, <2>4, <3>1, <3>2, <3>3, <3>4 DEF Undisturbed
  <2>5. QED
    BY <2>2, <2>3, <2>4 DEF Undisturbed
<1>3. QED
  BY <1>1, <1>2

\* The first stranger would be a follower that creates an epoch, and none does.
LEMMA OneContextStep ==
    ASSUME Structure, Structure', OneContext, NEW h \in Hooks, Step(h)
    PROVE  OneContext'
<1> SUFFICES ASSUME NEW r \in Hooks, Renews(r)'
             PROVE  /\ Strangers(r)' = {} => Undisturbed(r)'
                    /\ Renewed(r)' /\ (\A x \in Strangers(r)' : Follows(x, r)') => Strangers(r)' = {}
  BY DEF OneContext
<1>1. Strangers(r)' = {} => Undisturbed(r)'
  BY UndisturbedStep
<1>2. ASSUME Renewed(r)', \A x \in Strangers(r)' : Follows(x, r)', NEW x \in Strangers(r)'
      PROVE  FALSE
  <2>1. x \in Hooks /\ x \in touched' /\ x # r
    BY DEF Strangers, Structure, TypeOK
  <2>2. Follows(x, r) \/ (x = h /\ Begin(h))
    BY <1>2, <2>1, Following
  <2>3. At(r, "ended") /\ r # h
    BY <1>2, <2>1, Following
  <2>4. Renewed(r) /\ Renews(r)
    BY <1>2, <2>3, Renewing DEF Renewed, PastOld
  <2>5. earlier'[r] = earlier[r] /\ touched \subseteq touched'
    BY <2>3, Moves
  <2>6. \A y \in Strangers(r) : Follows(y, r)
    <3>1. ASSUME NEW y \in Strangers(r) PROVE Follows(y, r)
      <4>1. y \in Strangers(r)' /\ y \in Hooks /\ y \in touched
        BY <2>5 DEF Strangers, Structure, TypeOK
      <4>2. ~(y = h /\ Begin(h))
        BY <4>1 DEF Begin, Structure, Stages, Staged
      <4>3. QED
        BY <1>2, <4>1, <4>2, Following
    <3>2. QED
      BY <3>1
  <2>7. Strangers(r) = {} /\ Undisturbed(r)
    BY <2>4, <2>6 DEF OneContext
  <2>8. x = h /\ h \notin touched /\ h \in touched'
    BY <2>1, <2>5, <2>7, Moves DEF Strangers
  <2>9. ~Begin(h) /\ Follows(h, r) /\ ~TouchesEpoch(h)
    BY <2>2, <2>8 DEF Begin, files, Follows
  <2>10. ~Creating(h)
    BY <2>4, <2>7, <2>9 DEF Undisturbed
  <2>11. ~ClearMarkers(h) /\ ~CleanUp(h) /\ ~TruncateForEpoch(h)
    BY <2>9, <2>10 DEF ClearMarkers, CleanUp, TruncateForEpoch, At, Creating, TouchesEpoch,
       Structure, Stages, Staged
  <2>12. QED
    BY <2>8, <2>9, <2>11 DEF Step, Resetting, Finding, Delivering, Ignore, TruncateForReset,
       WriteForReset, ReadEpoch, WriteForEpoch, Look, Mark, Tell, Fail, files
<1>3. QED
  BY <1>1, <1>2

\* The contexts of a step are contexts of the state before it.
LEMMA SameContextBack ==
    ASSUME Structure, NEW h \in Hooks, Step(h), NEW x \in Hooks, NEW g \in earlier[x],
           earlier'[x] = earlier[x], SameContext(g, x)'
    PROVE  SameContext(g, x)
<1>1. g \in Hooks /\ g # h /\ earlier'[g] = earlier[g]
  BY Moves DEF Structure, TypeOK, Precedence
<1>2. PICK r \in earlier[g] :
        /\ Renews(r)' /\ At(r, "ended")' /\ ~TouchesEpoch(g)' /\ ~TouchesEpoch(x)'
        /\ \A y \in touched' \ {r, g, x} : y \in earlier'[r] \/ x \in earlier'[y]
  BY <1>1 DEF SameContext
<1>3. r \in Hooks /\ r # h /\ earlier'[r] = earlier[r]
  BY <1>1, <1>2, Moves DEF Structure, TypeOK, Precedence
<1>4. Renews(r) /\ At(r, "ended") /\ ~TouchesEpoch(g) /\ ~TouchesEpoch(x)
  BY <1>1, <1>2, <1>3, Moves DEF Renews, TouchesEpoch, At
<1>5. \A y \in touched : y \in touched' /\ earlier'[y] = earlier[y]
  BY Moves DEF Structure, TypeOK, Stages, Staged, At
<1>6. QED
  BY <1>2, <1>3, <1>4, <1>5 DEF SameContext

LEMMA DeliveredStep ==
    ASSUME Structure, Structure', OneContext, DeliveredOnce, NEW h \in Hooks, Step(h)
    PROVE  DeliveredOnce'
<1> SUFFICES ASSUME NEW x \in Hooks, NEW g \in earlier'[x], agent'[g] = agent'[x],
                    SameContext(g, x)', told'[x] # {}
             PROVE  told'[g] \cap told'[x] = {}
  BY DEF DeliveredOnce
<1>1. earlier'[x] = earlier[x]
  <2>1. ~(x = h /\ Begin(h))
    BY Beginning DEF Structure, Stages, Staged, At
  <2>2. QED
    BY <2>1, Moves
<1>2. g \in Hooks /\ g # h /\ told'[g] = told[g] /\ agent[g] = agent[x]
  BY <1>1, Moves DEF Structure, TypeOK, Precedence
<1>3. SameContext(g, x)
  BY <1>1, SameContextBack
<1>4. CASE told'[x] = told[x]
  BY <1>1, <1>2, <1>3, <1>4 DEF DeliveredOnce
<1>5. CASE told'[x] # told[x]
  <2>1. x = h
    BY <1>5, Moves
  <2>2. Tell(h)
    BY <1>5, <2>1 DEF Step, Resetting, Finding, Delivering, Begin, Ignore, ClearMarkers,
       TruncateForReset, WriteForReset, CleanUp, ReadEpoch, TruncateForEpoch, WriteForEpoch, Look,
       Mark, Fail, own
  <2>3. told'[x] = chosen[x] /\ ~(pc[h] \in Over)
    BY <2>1, <2>2, Moves DEF Tell, Structure, TypeOK
  <2>4. PICK r \in earlier[g] :
          /\ Renews(r) /\ At(r, "ended") /\ ~TouchesEpoch(g) /\ ~TouchesEpoch(x)
          /\ \A y \in touched \ {r, g, x} : y \in earlier[r] \/ x \in earlier[y]
    BY <1>3 DEF SameContext
  <2>5. /\ r \in Hooks /\ r \in earlier[x] /\ Renewed(r) /\ Renews(r)
        /\ Follows(g, r) /\ Follows(x, r)
    BY <1>1, <1>2, <2>4 DEF Structure, TypeOK, Precedence, Renewed, PastOld, At, Follows
  <2>6. \A y \in Strangers(r) : Follows(y, r)
    <3>1. ASSUME NEW y \in Strangers(r) PROVE y \in {g, x}
      BY <2>1, <2>3, <2>4 DEF Strangers, Structure, TypeOK, Precedence
    <3>2. QED
      BY <2>5, <3>1
  <2>7. Undisturbed(r)
    BY <2>5, <2>6 DEF OneContext
  <2>8. told[g] \cap chosen[x] = {}
    BY <1>1, <1>2, <2>5, <2>7 DEF Undisturbed
  <2>9. QED
    BY <1>2, <2>3, <2>8
<1>6. QED
  BY <1>4, <1>5

-----------------------------------------------------------------------------

LEMMA Inductive ==
    ASSUME IInv, [Next]_vars
    PROVE  IInv'
<1>1. CASE UNCHANGED vars
  <2> USE <1>1 DEF vars, given, own, files
  <2>1. Structure'
    <3>1. TypeOK' /\ Drawn'
      BY DEF IInv, Structure, TypeOK, Drawn
    <3>2. Stages' /\ Precedence'
      BY DEF IInv, Structure, Stages, Staged, Precedence, At, Renews
    <3>3. Marked'
      BY DEF IInv, Structure, Marked, Key
    <3>4. QED
      BY <3>1, <3>2, <3>3 DEF Structure
  <2>2. NewContext'
    BY DEF IInv, NewContext, PastOld, Renews, At
  <2>3. OneContext'
    BY DEF IInv, OneContext, Strangers, Undisturbed, Renewed, PastOld, Creating, Follows, Renews,
       TouchesEpoch, At, Key
  <2>4. DeliveredOnce' /\ ToldInEveryContext'
    BY DEF IInv, DeliveredOnce, ToldInEveryContext, SameContext, Renews, TouchesEpoch, At
  <2>5. QED
    BY <2>1, <2>2, <2>3, <2>4 DEF IInv
<1>2. CASE Next
  <2>1. PICK h \in Hooks : Step(h)
    BY <1>2 DEF Next, Step
  <2>2. Structure'
    BY <2>1, StructureStep DEF IInv
  <2>3. NewContext' /\ ToldInEveryContext'
    BY <2>1, <2>2, NewContextStep, ToldStep DEF IInv
  <2>4. OneContext' /\ DeliveredOnce'
    BY <2>1, <2>2, OneContextStep, DeliveredStep DEF IInv
  <2>5. QED
    BY <2>2, <2>3, <2>4 DEF IInv
<1>3. QED
  BY <1>1, <1>2

\* Every state the processes can reach, in any number and however they
\* interleave, fail and are killed, satisfies IInv.
THEOREM Invariance == Spec => []IInv
<1>1. Init => IInv
  BY InitIInv
<1>2. IInv /\ [Next]_vars => IInv'
  BY Inductive
<1>3. QED
  BY <1>1, <1>2, PTL DEF Spec

\* Every variable has its type (the fields and files of run-hook.ts and markers.ts).
THEOREM TypeCorrect == Spec => []TypeOK
<1>1. IInv => TypeOK
  BY DEF IInv, Structure
<1>2. QED
  BY <1>1, Invariance, PTL

\* run-hook.ts: in one context, what one process told an agent is not told again
\* by a process that begins after it ended, however the others interleave.
THEOREM NothingIsToldTwice == Spec => []DeliveredOnce
<1>1. IInv => DeliveredOnce
  BY DEF IInv
<1>2. QED
  BY <1>1, Invariance, PTL

\* resetEpoch, currentEpoch: no marker of the old context silences the new one.
THEOREM NothingIsKeptFromANewContext == Spec => []ToldInEveryContext
<1>1. IInv => ToldInEveryContext
  BY DEF IInv
<1>2. QED
  BY <1>1, Invariance, PTL
=============================================================================

------------------------- MODULE PageTakeoverProofs -------------------------
(* Theorems about PageTakeover, for every set of pages and sessions and any *)
(* number of release attempts.                                              *)
EXTENDS PageTakeover, TLAPS

-----------------------------------------------------------------------------
(* The inductive invariant. *)

\* Where a page has got no further than looking for a port.
Searching == {"unopened", "binding", "reading control", "asking", "waiting",
              "elsewhere"}

\* How far a page is tells how far its stop() and its controlPort can be.
Progress ==
    \A p \in Pages :
        /\ at[p] \in Searching \cup {"bound", "writing control"} =>
             stage[p] = "running" /\ finish[p] = {}
        /\ at[p] \in {"headless", "dead"} => finish[p] = {}
        /\ at[p] = "dead" => stage[p] = "closed"
        /\ p \in recorded => at[p] \in {"up", "dead"}
        /\ stage[p] \in {"reading control", "removing control"} => p \in recorded

\* From the bind to the end of app.close(), a page that writes or wrote the
\* control file holds the port, and nobody holds it without having bound it.
HoldsPort ==
    \A p \in Pages :
        /\ at[p] \in {"bound", "writing control"} => port = p
        /\ stage[p] # "closed" /\ (at[p] = "control written" \/ p \in recorded) => port = p
        /\ port = p => at[p] \notin Searching \cup {"dead"}

\* Such a page is named by the file until it removes it itself.
Named ==
    \A p \in Pages :
        stage[p] = "running" /\ (at[p] = "control written" \/ p \in recorded) => control = p

\* A token that can be known is of a page that has left it.
Left(p) == at[p] \in {"control written", "up", "dead"}

TokensLeft ==
    /\ \A p \in Pages : control = p => Left(p)
    /\ \A p, q \in Pages : token[q] = p => Left(p)

\* Shutdown leaves no session that a late request could authenticate.
NoSessionLeft ==
    \A p \in Pages : stage[p] # "running" => \A s \in Sessions : session[p][s] # "open"

IInv == TypeOK /\ Progress /\ HoldsPort /\ Named /\ TokensLeft /\ NoSessionLeft

-----------------------------------------------------------------------------
(* Steps. *)

\* What reading the control file changes.
LEMMA ReadControlEffect ==
    ASSUME TypeOK, NEW p \in Pages, ReadControl(p)
    PROVE  /\ at[p] = "reading control" /\ at'[p] \in {"asking", "elsewhere"}
           /\ at' = [at EXCEPT ![p] = at'[p]]
           /\ token' = [token EXCEPT ![p] = token'[p]]
           /\ token'[p] \in Pages \cup {Absent}
           /\ token'[p] = token[p] \/ token'[p] = control
           /\ UNCHANGED <<port, control, attempts, recorded, stage, requestVars>>
<1>1. CASE control \in Pages
  BY <1>1 DEF TypeOK, ReadControl
<1>2. CASE control \notin Pages
  BY <1>2 DEF TypeOK, ReadControl
<1>3. QED
  BY <1>1, <1>2

\* What asking the holder of the port changes.
LEMMA AskTakeoverEffect ==
    ASSUME TypeOK, NEW p \in Pages, AskTakeover(p)
    PROVE  /\ at' \in [Pages -> Locations]
           /\ attempts' \in [Pages -> 0..ReleaseAttempts]
           /\ finish' \in [Pages -> SUBSET Reasons]
<1>1. \/ UNCHANGED attempts
      \/ attempts' = [attempts EXCEPT ![p] = ReleaseAttempts]
  BY DEF AskTakeover, Promised, Refused
<1>2. \/ UNCHANGED finish
      \/ port \in Pages /\ finish' = [finish EXCEPT ![port] = @ \cup {"replaced"}]
  BY DEF AskTakeover
<1>3. attempts' \in [Pages -> 0..ReleaseAttempts]
  BY <1>1, TakeoverAssumption DEF TypeOK
<1>4. finish' \in [Pages -> SUBSET Reasons]
  BY <1>2 DEF TypeOK, Reasons
<1>5. at' \in [Pages -> Locations]
  BY DEF AskTakeover, Promised, Refused, TypeOK, Locations
<1>6. QED
  BY <1>3, <1>4, <1>5

\* Counting an attempt that failed.
LEMMA OneAttemptLess ==
    ASSUME TypeOK, NEW p \in Pages, attempts[p] > 0,
           attempts' = [attempts EXCEPT ![p] = @ - 1]
    PROVE  attempts' \in [Pages -> 0..ReleaseAttempts]
BY TakeoverAssumption DEF TypeOK

\* What beginning the shutdown of a page changes.
LEMMA BeginShutdownEffect ==
    ASSUME TypeOK, NEW p \in Pages, BeginShutdown(p)
    PROVE  /\ session' \in [Pages -> [Sessions -> {"unissued", "open", "gone"}]]
           /\ stage' \in [Pages -> Stages]
           /\ \A s \in Sessions : session'[p][s] # "open"
           /\ \A q \in Pages \ {p} :
                session'[q] = session[q] /\ stage'[q] = stage[q]
BY DEF TypeOK, BeginShutdown, Stages

\* Every step keeps every variable in its type.
LEMMA TypeStep ==
    ASSUME TypeOK, Next
    PROVE  TypeOK'
<1> USE DEF TypeOK, Locations, Stages, Reasons, vars, bindVars, requestVars
<1>1. ASSUME NEW p \in Pages, Open(p)
      PROVE  TypeOK'
  BY <1>1 DEF Open
<1>2. ASSUME NEW p \in Pages, TryListen(p)
      PROVE  TypeOK'
  BY <1>2 DEF TryListen, Bind
<1>3. ASSUME NEW p \in Pages, ReadControl(p)
      PROVE  TypeOK'
  <2>1. at' \in [Pages -> Locations]
    <3>1. \/ at' = [at EXCEPT ![p] = "asking"]
          \/ at' = [at EXCEPT ![p] = "elsewhere"]
      BY <1>3 DEF ReadControl
    <3>2. QED
      BY <3>1
  <2>2. token' \in [Pages -> Pages \cup {Absent}]
    <3>1. \/ token' = token
          \/ control \in Pages /\ token' = [token EXCEPT ![p] = control]
      BY <1>3 DEF ReadControl
    <3>2. QED
      BY <3>1
  <2>3. UNCHANGED <<port, control, attempts, recorded, stage, requestVars>>
    BY <1>3 DEF ReadControl
  <2>4. QED
    BY <2>1, <2>2, <2>3
<1>4. ASSUME NEW p \in Pages, AskTakeover(p)
      PROVE  TypeOK'
  BY <1>4, AskTakeoverEffect DEF AskTakeover
<1>5. ASSUME NEW p \in Pages, Retry(p)
      PROVE  TypeOK'
  <2>1. CASE Bind(p)
    BY <1>5, <2>1 DEF Retry, Bind
  <2>2. CASE ~Bind(p)
    <3>1. attempts[p] > 0 /\ attempts' = [attempts EXCEPT ![p] = @ - 1]
      BY <1>5, <2>2 DEF Retry
    <3>2. attempts' \in [Pages -> 0..ReleaseAttempts]
      BY <3>1, OneAttemptLess
    <3>3. QED
      BY <1>5, <2>2, <3>2 DEF Retry
  <2>3. QED
    BY <2>1, <2>2
<1>6. ASSUME NEW p \in Pages, GiveUpWaiting(p)
      PROVE  TypeOK'
  BY <1>6 DEF GiveUpWaiting
<1>7. ASSUME NEW p \in Pages, ListenElsewhere(p)
      PROVE  TypeOK'
  BY <1>7 DEF ListenElsewhere, Bind
<1>8. ASSUME NEW p \in Pages, StartControl(p)
      PROVE  TypeOK'
  BY <1>8 DEF StartControl
<1>9. ASSUME NEW p \in Pages, WriteControl(p)
      PROVE  TypeOK'
  BY <1>9 DEF WriteControl
<1>10. ASSUME NEW p \in Pages, SetControlPort(p)
      PROVE  TypeOK'
  BY <1>10 DEF SetControlPort
<1>11. ASSUME NEW p \in Pages, ControlFails(p)
      PROVE  TypeOK'
  BY <1>11 DEF ControlFails
<1>12. ASSUME NEW p \in Pages, NEW s \in Sessions, Redeem(p, s)
      PROVE  TypeOK'
  BY <1>12 DEF Redeem, Serving
<1>13. ASSUME NEW p \in Pages, NEW s \in Sessions, Expire(p, s)
      PROVE  TypeOK'
  BY <1>13 DEF Expire, Serving
<1>14. ASSUME NEW p \in Pages, NEW s \in Sessions, Admit(p, s)
      PROVE  TypeOK'
  BY <1>14 DEF Admit, Serving
<1>15. ASSUME NEW p \in Pages, NEW s \in Sessions, BeginPublishing(p, s)
      PROVE  TypeOK'
  BY <1>15 DEF BeginPublishing
<1>16. ASSUME NEW p \in Pages, NEW s \in Sessions, EndPublishing(p, s)
      PROVE  TypeOK'
  BY <1>16 DEF EndPublishing
<1>17. ASSUME NEW p \in Pages, CloseFromPage(p)
      PROVE  TypeOK'
  BY <1>17 DEF CloseFromPage, Serving
<1>18. ASSUME NEW p \in Pages, NEW reason \in Reasons, ResponseFinished(p, reason)
      PROVE  TypeOK'
  <2>1. finish' \in [Pages -> SUBSET Reasons]
    BY <1>18 DEF ResponseFinished
  <2>2. session' \in [Pages -> [Sessions -> {"unissued", "open", "gone"}]]
        /\ stage' \in [Pages -> Stages]
    BY <1>18, BeginShutdownEffect DEF ResponseFinished
  <2>3. QED
    BY <1>18, <2>1, <2>2 DEF ResponseFinished
<1>19. ASSUME NEW p \in Pages, StopFromWithin(p)
      PROVE  TypeOK'
  BY <1>19 DEF StopFromWithin, BeginShutdown
<1>20. ASSUME NEW p \in Pages, ReadOwnControl(p)
      PROVE  TypeOK'
  BY <1>20 DEF ReadOwnControl
<1>21. ASSUME NEW p \in Pages, RemoveControl(p)
      PROVE  TypeOK'
  BY <1>21 DEF RemoveControl
<1>22. ASSUME NEW p \in Pages, CloseListener(p)
      PROVE  TypeOK'
  BY <1>22 DEF CloseListener, FreePort
<1>23. ASSUME NEW p \in Pages, Die(p)
      PROVE  TypeOK'
  BY <1>23 DEF Die, FreePort
<1>24. CASE ForeignLeaves
  BY <1>24 DEF ForeignLeaves
<1>25. QED
  BY <1>1, <1>2, <1>3, <1>4, <1>5, <1>6, <1>7, <1>8, <1>9, <1>10, <1>11, <1>12,
     <1>13, <1>14, <1>15, <1>16, <1>17, <1>18, <1>19, <1>20, <1>21, <1>22, <1>23, <1>24
     DEF Next, Opening, Stopping, Request

\* Every step keeps a page's stop() in line with its opening.
LEMMA ProgressStep ==
    ASSUME TypeOK, TokensLeft, Progress, Next
    PROVE  Progress'
<1> USE DEF TypeOK, Progress, TokensLeft, Searching, Left, vars, bindVars, requestVars
<1>1. ASSUME NEW p \in Pages, Open(p)
      PROVE  Progress'
  BY <1>1, TakeoverAssumption DEF Open
<1>2. ASSUME NEW p \in Pages, TryListen(p)
      PROVE  Progress'
  BY <1>2, TakeoverAssumption DEF TryListen, Bind
<1>3. ASSUME NEW p \in Pages, ReadControl(p)
      PROVE  Progress'
  BY <1>3, TakeoverAssumption DEF ReadControl
<1>4. ASSUME NEW p \in Pages, AskTakeover(p)
      PROVE  Progress'
  <2>1. \A q \in Pages : finish'[q] # finish[q] => Accepts(q, token[p])
    BY <1>4 DEF AskTakeover
  <2>2. \A q \in Pages : Accepts(q, token[p]) => at[q] \in {"control written", "up"}
    BY DEF Accepts
  <2>3. at' = [at EXCEPT ![p] = at'[p]] /\ at[p] = "asking" /\ at'[p] \in {"waiting", "elsewhere"}
    BY <1>4 DEF AskTakeover, Promised, Refused
  <2>4. UNCHANGED <<stage, recorded>>
    BY <1>4 DEF AskTakeover
  <2>5. QED
    BY <2>1, <2>2, <2>3, <2>4
<1>5. ASSUME NEW p \in Pages, Retry(p)
      PROVE  Progress'
  BY <1>5, TakeoverAssumption DEF Retry, Bind
<1>6. ASSUME NEW p \in Pages, GiveUpWaiting(p)
      PROVE  Progress'
  BY <1>6, TakeoverAssumption DEF GiveUpWaiting
<1>7. ASSUME NEW p \in Pages, ListenElsewhere(p)
      PROVE  Progress'
  BY <1>7, TakeoverAssumption DEF ListenElsewhere, Bind
<1>8. ASSUME NEW p \in Pages, StartControl(p)
      PROVE  Progress'
  BY <1>8, TakeoverAssumption DEF StartControl
<1>9. ASSUME NEW p \in Pages, WriteControl(p)
      PROVE  Progress'
  BY <1>9, TakeoverAssumption DEF WriteControl
<1>10. ASSUME NEW p \in Pages, SetControlPort(p)
      PROVE  Progress'
  BY <1>10, TakeoverAssumption DEF SetControlPort
<1>11. ASSUME NEW p \in Pages, ControlFails(p)
      PROVE  Progress'
  BY <1>11, TakeoverAssumption DEF ControlFails
<1>12. ASSUME NEW p \in Pages, NEW s \in Sessions, Redeem(p, s)
      PROVE  Progress'
  BY <1>12, TakeoverAssumption DEF Redeem, Serving
<1>13. ASSUME NEW p \in Pages, NEW s \in Sessions, Expire(p, s)
      PROVE  Progress'
  BY <1>13, TakeoverAssumption DEF Expire, Serving
<1>14. ASSUME NEW p \in Pages, NEW s \in Sessions, Admit(p, s)
      PROVE  Progress'
  BY <1>14, TakeoverAssumption DEF Admit, Serving
<1>15. ASSUME NEW p \in Pages, NEW s \in Sessions, BeginPublishing(p, s)
      PROVE  Progress'
  BY <1>15, TakeoverAssumption DEF BeginPublishing
<1>16. ASSUME NEW p \in Pages, NEW s \in Sessions, EndPublishing(p, s)
      PROVE  Progress'
  BY <1>16, TakeoverAssumption DEF EndPublishing
<1>17. ASSUME NEW p \in Pages, CloseFromPage(p)
      PROVE  Progress'
  BY <1>17, TakeoverAssumption DEF CloseFromPage, Serving
<1>18. ASSUME NEW p \in Pages, NEW reason \in Reasons, ResponseFinished(p, reason)
      PROVE  Progress'
  BY <1>18, TakeoverAssumption DEF ResponseFinished, BeginShutdown
<1>19. ASSUME NEW p \in Pages, StopFromWithin(p)
      PROVE  Progress'
  BY <1>19, TakeoverAssumption DEF StopFromWithin, BeginShutdown
<1>20. ASSUME NEW p \in Pages, ReadOwnControl(p)
      PROVE  Progress'
  BY <1>20, TakeoverAssumption DEF ReadOwnControl
<1>21. ASSUME NEW p \in Pages, RemoveControl(p)
      PROVE  Progress'
  BY <1>21, TakeoverAssumption DEF RemoveControl
<1>22. ASSUME NEW p \in Pages, CloseListener(p)
      PROVE  Progress'
  BY <1>22, TakeoverAssumption DEF CloseListener, FreePort
<1>23. ASSUME NEW p \in Pages, Die(p)
      PROVE  Progress'
  BY <1>23, TakeoverAssumption DEF Die, FreePort
<1>24. CASE ForeignLeaves
  BY <1>24, TakeoverAssumption DEF ForeignLeaves
<1>25. QED
  BY <1>1, <1>2, <1>3, <1>4, <1>5, <1>6, <1>7, <1>8, <1>9, <1>10, <1>11, <1>12,
     <1>13, <1>14, <1>15, <1>16, <1>17, <1>18, <1>19, <1>20, <1>21, <1>22, <1>23, <1>24
     DEF Next, Opening, Stopping, Request

\* A page that binds the free port is the only one to hold it.
LEMMA BindHolds ==
    ASSUME TypeOK, Progress, HoldsPort, NEW p \in Pages, Bind(p),
           at[p] \in Searching, UNCHANGED stage
    PROVE  HoldsPort'
<1>1. stage[p] = "running" /\ p \notin recorded
  BY DEF Progress, Searching
<1>2. port \notin Pages
  BY TakeoverAssumption DEF Bind
<1>3. at' = [at EXCEPT ![p] = "bound"] /\ port' = p /\ recorded' = recorded
  BY DEF Bind
<1>4. ASSUME NEW q \in Pages, q # p
      PROVE  /\ at'[q] \notin {"bound", "writing control"}
             /\ ~(stage'[q] # "closed" /\ (at'[q] = "control written" \/ q \in recorded'))
  BY <1>2, <1>3, <1>4 DEF TypeOK, HoldsPort
<1>5. at'[p] = "bound"
  BY <1>3 DEF TypeOK
<1>6. QED
  BY <1>1, <1>3, <1>4, <1>5 DEF HoldsPort, Searching

\* Every step keeps the port with the page that bound it.
LEMMA HoldsPortStep ==
    ASSUME TypeOK, Progress, HoldsPort, Next
    PROVE  HoldsPort'
<1> USE DEF TypeOK, Progress, HoldsPort, Searching, vars, bindVars, requestVars
<1>1. ASSUME NEW p \in Pages, Open(p)
      PROVE  HoldsPort'
  BY <1>1, TakeoverAssumption DEF Open
<1>2. ASSUME NEW p \in Pages, TryListen(p)
      PROVE  HoldsPort'
  <2>1. CASE Bind(p)
    BY <1>2, <2>1, BindHolds DEF TryListen
  <2>2. CASE ~Bind(p)
    BY <1>2, <2>2 DEF TryListen
  <2>3. QED
    BY <2>1, <2>2
<1>3. ASSUME NEW p \in Pages, ReadControl(p)
      PROVE  HoldsPort'
  BY <1>3, TakeoverAssumption DEF ReadControl
<1>4. ASSUME NEW p \in Pages, AskTakeover(p)
      PROVE  HoldsPort'
  BY <1>4, TakeoverAssumption DEF AskTakeover, Accepts, Promised, Refused
<1>5. ASSUME NEW p \in Pages, Retry(p)
      PROVE  HoldsPort'
  <2>1. CASE Bind(p)
    BY <1>5, <2>1, BindHolds DEF Retry
  <2>2. CASE ~Bind(p)
    BY <1>5, <2>2 DEF Retry
  <2>3. QED
    BY <2>1, <2>2
<1>6. ASSUME NEW p \in Pages, GiveUpWaiting(p)
      PROVE  HoldsPort'
  BY <1>6, TakeoverAssumption DEF GiveUpWaiting
<1>7. ASSUME NEW p \in Pages, ListenElsewhere(p)
      PROVE  HoldsPort'
  <2>1. CASE Bind(p)
    BY <1>7, <2>1, BindHolds DEF ListenElsewhere
  <2>2. CASE ~Bind(p)
    BY <1>7, <2>2 DEF ListenElsewhere
  <2>3. QED
    BY <2>1, <2>2
<1>8. ASSUME NEW p \in Pages, StartControl(p)
      PROVE  HoldsPort'
  BY <1>8, TakeoverAssumption DEF StartControl
<1>9. ASSUME NEW p \in Pages, WriteControl(p)
      PROVE  HoldsPort'
  BY <1>9, TakeoverAssumption DEF WriteControl
<1>10. ASSUME NEW p \in Pages, SetControlPort(p)
      PROVE  HoldsPort'
  BY <1>10, TakeoverAssumption DEF SetControlPort
<1>11. ASSUME NEW p \in Pages, ControlFails(p)
      PROVE  HoldsPort'
  BY <1>11, TakeoverAssumption DEF ControlFails
<1>12. ASSUME NEW p \in Pages, NEW s \in Sessions, Redeem(p, s)
      PROVE  HoldsPort'
  BY <1>12, TakeoverAssumption DEF Redeem, Serving
<1>13. ASSUME NEW p \in Pages, NEW s \in Sessions, Expire(p, s)
      PROVE  HoldsPort'
  BY <1>13, TakeoverAssumption DEF Expire, Serving
<1>14. ASSUME NEW p \in Pages, NEW s \in Sessions, Admit(p, s)
      PROVE  HoldsPort'
  BY <1>14, TakeoverAssumption DEF Admit, Serving
<1>15. ASSUME NEW p \in Pages, NEW s \in Sessions, BeginPublishing(p, s)
      PROVE  HoldsPort'
  BY <1>15, TakeoverAssumption DEF BeginPublishing
<1>16. ASSUME NEW p \in Pages, NEW s \in Sessions, EndPublishing(p, s)
      PROVE  HoldsPort'
  BY <1>16, TakeoverAssumption DEF EndPublishing
<1>17. ASSUME NEW p \in Pages, CloseFromPage(p)
      PROVE  HoldsPort'
  BY <1>17, TakeoverAssumption DEF CloseFromPage, Serving
<1>18. ASSUME NEW p \in Pages, NEW reason \in Reasons, ResponseFinished(p, reason)
      PROVE  HoldsPort'
  BY <1>18, TakeoverAssumption DEF ResponseFinished, BeginShutdown
<1>19. ASSUME NEW p \in Pages, StopFromWithin(p)
      PROVE  HoldsPort'
  BY <1>19, TakeoverAssumption DEF StopFromWithin, BeginShutdown
<1>20. ASSUME NEW p \in Pages, ReadOwnControl(p)
      PROVE  HoldsPort'
  BY <1>20, TakeoverAssumption DEF ReadOwnControl
<1>21. ASSUME NEW p \in Pages, RemoveControl(p)
      PROVE  HoldsPort'
  BY <1>21, TakeoverAssumption DEF RemoveControl
<1>22. ASSUME NEW p \in Pages, CloseListener(p)
      PROVE  HoldsPort'
  BY <1>22, TakeoverAssumption DEF CloseListener, FreePort
<1>23. ASSUME NEW p \in Pages, Die(p)
      PROVE  HoldsPort'
  BY <1>23, TakeoverAssumption DEF Die, FreePort
<1>24. CASE ForeignLeaves
  BY <1>24, TakeoverAssumption DEF ForeignLeaves
<1>25. QED
  BY <1>1, <1>2, <1>3, <1>4, <1>5, <1>6, <1>7, <1>8, <1>9, <1>10, <1>11, <1>12,
     <1>13, <1>14, <1>15, <1>16, <1>17, <1>18, <1>19, <1>20, <1>21, <1>22, <1>23, <1>24
     DEF Next, Opening, Stopping, Request

\* Only the page that holds the port writes or removes the file.
LEMMA NamedStep ==
    ASSUME TypeOK, Progress, HoldsPort, Named, Next
    PROVE  Named'
<1> USE DEF TypeOK, Progress, HoldsPort, Named, Searching, vars, bindVars, requestVars
<1>1. ASSUME NEW p \in Pages, Open(p)
      PROVE  Named'
  BY <1>1, TakeoverAssumption DEF Open
<1>2. ASSUME NEW p \in Pages, TryListen(p)
      PROVE  Named'
  BY <1>2, TakeoverAssumption DEF TryListen, Bind
<1>3. ASSUME NEW p \in Pages, ReadControl(p)
      PROVE  Named'
  BY <1>3, TakeoverAssumption DEF ReadControl
<1>4. ASSUME NEW p \in Pages, AskTakeover(p)
      PROVE  Named'
  BY <1>4, TakeoverAssumption DEF AskTakeover, Accepts, Promised, Refused
<1>5. ASSUME NEW p \in Pages, Retry(p)
      PROVE  Named'
  BY <1>5, TakeoverAssumption DEF Retry, Bind
<1>6. ASSUME NEW p \in Pages, GiveUpWaiting(p)
      PROVE  Named'
  BY <1>6, TakeoverAssumption DEF GiveUpWaiting
<1>7. ASSUME NEW p \in Pages, ListenElsewhere(p)
      PROVE  Named'
  BY <1>7, TakeoverAssumption DEF ListenElsewhere, Bind
<1>8. ASSUME NEW p \in Pages, StartControl(p)
      PROVE  Named'
  BY <1>8, TakeoverAssumption DEF StartControl
<1>9. ASSUME NEW p \in Pages, WriteControl(p)
      PROVE  Named'
  BY <1>9, TakeoverAssumption DEF WriteControl
<1>10. ASSUME NEW p \in Pages, SetControlPort(p)
      PROVE  Named'
  BY <1>10, TakeoverAssumption DEF SetControlPort
<1>11. ASSUME NEW p \in Pages, ControlFails(p)
      PROVE  Named'
  BY <1>11, TakeoverAssumption DEF ControlFails
<1>12. ASSUME NEW p \in Pages, NEW s \in Sessions, Redeem(p, s)
      PROVE  Named'
  BY <1>12, TakeoverAssumption DEF Redeem, Serving
<1>13. ASSUME NEW p \in Pages, NEW s \in Sessions, Expire(p, s)
      PROVE  Named'
  BY <1>13, TakeoverAssumption DEF Expire, Serving
<1>14. ASSUME NEW p \in Pages, NEW s \in Sessions, Admit(p, s)
      PROVE  Named'
  BY <1>14, TakeoverAssumption DEF Admit, Serving
<1>15. ASSUME NEW p \in Pages, NEW s \in Sessions, BeginPublishing(p, s)
      PROVE  Named'
  BY <1>15, TakeoverAssumption DEF BeginPublishing
<1>16. ASSUME NEW p \in Pages, NEW s \in Sessions, EndPublishing(p, s)
      PROVE  Named'
  BY <1>16, TakeoverAssumption DEF EndPublishing
<1>17. ASSUME NEW p \in Pages, CloseFromPage(p)
      PROVE  Named'
  BY <1>17, TakeoverAssumption DEF CloseFromPage, Serving
<1>18. ASSUME NEW p \in Pages, NEW reason \in Reasons, ResponseFinished(p, reason)
      PROVE  Named'
  BY <1>18, TakeoverAssumption DEF ResponseFinished, BeginShutdown
<1>19. ASSUME NEW p \in Pages, StopFromWithin(p)
      PROVE  Named'
  BY <1>19, TakeoverAssumption DEF StopFromWithin, BeginShutdown
<1>20. ASSUME NEW p \in Pages, ReadOwnControl(p)
      PROVE  Named'
  BY <1>20, TakeoverAssumption DEF ReadOwnControl
<1>21. ASSUME NEW p \in Pages, RemoveControl(p)
      PROVE  Named'
  BY <1>21, TakeoverAssumption DEF RemoveControl
<1>22. ASSUME NEW p \in Pages, CloseListener(p)
      PROVE  Named'
  BY <1>22, TakeoverAssumption DEF CloseListener, FreePort
<1>23. ASSUME NEW p \in Pages, Die(p)
      PROVE  Named'
  BY <1>23, TakeoverAssumption DEF Die, FreePort
<1>24. CASE ForeignLeaves
  BY <1>24, TakeoverAssumption DEF ForeignLeaves
<1>25. QED
  BY <1>1, <1>2, <1>3, <1>4, <1>5, <1>6, <1>7, <1>8, <1>9, <1>10, <1>11, <1>12,
     <1>13, <1>14, <1>15, <1>16, <1>17, <1>18, <1>19, <1>20, <1>21, <1>22, <1>23, <1>24
     DEF Next, Opening, Stopping, Request

\* A token that is read from the file is of a page that left it there.
LEMMA ReadControlTokens ==
    ASSUME TypeOK, TokensLeft, NEW p \in Pages, ReadControl(p)
    PROVE  TokensLeft'
<1>1. \A q \in Pages : Left(q) => Left(q)'
  BY DEF ReadControl, TypeOK, Left
<1>2. \A q \in Pages : token'[q] = token[q] \/ token'[q] = control
  BY DEF ReadControl, TypeOK
<1>3. control' = control
  BY DEF ReadControl
<1>4. QED
  BY <1>1, <1>2, <1>3 DEF TokensLeft

\* Tokens come from the file, and the file from pages that wrote it.
LEMMA TokensLeftStep ==
    ASSUME TypeOK, Progress, TokensLeft, Next
    PROVE  TokensLeft'
<1> USE DEF TypeOK, Progress, TokensLeft, Left, vars, bindVars, requestVars
<1>1. ASSUME NEW p \in Pages, Open(p)
      PROVE  TokensLeft'
  BY <1>1, TakeoverAssumption DEF Open
<1>2. ASSUME NEW p \in Pages, TryListen(p)
      PROVE  TokensLeft'
  BY <1>2, TakeoverAssumption DEF TryListen, Bind
<1>3. ASSUME NEW p \in Pages, ReadControl(p)
      PROVE  TokensLeft'
  BY <1>3, ReadControlTokens
<1>4. ASSUME NEW p \in Pages, AskTakeover(p)
      PROVE  TokensLeft'
  BY <1>4, TakeoverAssumption DEF AskTakeover, Accepts, Promised, Refused
<1>5. ASSUME NEW p \in Pages, Retry(p)
      PROVE  TokensLeft'
  BY <1>5, TakeoverAssumption DEF Retry, Bind
<1>6. ASSUME NEW p \in Pages, GiveUpWaiting(p)
      PROVE  TokensLeft'
  BY <1>6, TakeoverAssumption DEF GiveUpWaiting
<1>7. ASSUME NEW p \in Pages, ListenElsewhere(p)
      PROVE  TokensLeft'
  BY <1>7, TakeoverAssumption DEF ListenElsewhere, Bind
<1>8. ASSUME NEW p \in Pages, StartControl(p)
      PROVE  TokensLeft'
  BY <1>8, TakeoverAssumption DEF StartControl
<1>9. ASSUME NEW p \in Pages, WriteControl(p)
      PROVE  TokensLeft'
  BY <1>9, TakeoverAssumption DEF WriteControl
<1>10. ASSUME NEW p \in Pages, SetControlPort(p)
      PROVE  TokensLeft'
  BY <1>10, TakeoverAssumption DEF SetControlPort
<1>11. ASSUME NEW p \in Pages, ControlFails(p)
      PROVE  TokensLeft'
  BY <1>11, TakeoverAssumption DEF ControlFails
<1>12. ASSUME NEW p \in Pages, NEW s \in Sessions, Redeem(p, s)
      PROVE  TokensLeft'
  BY <1>12, TakeoverAssumption DEF Redeem, Serving
<1>13. ASSUME NEW p \in Pages, NEW s \in Sessions, Expire(p, s)
      PROVE  TokensLeft'
  BY <1>13, TakeoverAssumption DEF Expire, Serving
<1>14. ASSUME NEW p \in Pages, NEW s \in Sessions, Admit(p, s)
      PROVE  TokensLeft'
  BY <1>14, TakeoverAssumption DEF Admit, Serving
<1>15. ASSUME NEW p \in Pages, NEW s \in Sessions, BeginPublishing(p, s)
      PROVE  TokensLeft'
  BY <1>15, TakeoverAssumption DEF BeginPublishing
<1>16. ASSUME NEW p \in Pages, NEW s \in Sessions, EndPublishing(p, s)
      PROVE  TokensLeft'
  BY <1>16, TakeoverAssumption DEF EndPublishing
<1>17. ASSUME NEW p \in Pages, CloseFromPage(p)
      PROVE  TokensLeft'
  BY <1>17, TakeoverAssumption DEF CloseFromPage, Serving
<1>18. ASSUME NEW p \in Pages, NEW reason \in Reasons, ResponseFinished(p, reason)
      PROVE  TokensLeft'
  BY <1>18, TakeoverAssumption DEF ResponseFinished, BeginShutdown
<1>19. ASSUME NEW p \in Pages, StopFromWithin(p)
      PROVE  TokensLeft'
  BY <1>19, TakeoverAssumption DEF StopFromWithin, BeginShutdown
<1>20. ASSUME NEW p \in Pages, ReadOwnControl(p)
      PROVE  TokensLeft'
  BY <1>20, TakeoverAssumption DEF ReadOwnControl
<1>21. ASSUME NEW p \in Pages, RemoveControl(p)
      PROVE  TokensLeft'
  BY <1>21, TakeoverAssumption DEF RemoveControl
<1>22. ASSUME NEW p \in Pages, CloseListener(p)
      PROVE  TokensLeft'
  BY <1>22, TakeoverAssumption DEF CloseListener, FreePort
<1>23. ASSUME NEW p \in Pages, Die(p)
      PROVE  TokensLeft'
  BY <1>23, TakeoverAssumption DEF Die, FreePort
<1>24. CASE ForeignLeaves
  BY <1>24, TakeoverAssumption DEF ForeignLeaves
<1>25. QED
  BY <1>1, <1>2, <1>3, <1>4, <1>5, <1>6, <1>7, <1>8, <1>9, <1>10, <1>11, <1>12,
     <1>13, <1>14, <1>15, <1>16, <1>17, <1>18, <1>19, <1>20, <1>21, <1>22, <1>23, <1>24
     DEF Next, Opening, Stopping, Request

\* Only a page that has not begun its shutdown opens a session.
LEMMA NoSessionLeftStep ==
    ASSUME TypeOK, Progress, NoSessionLeft, Next
    PROVE  NoSessionLeft'
<1> USE DEF TypeOK, Progress, NoSessionLeft, Searching, vars, bindVars, requestVars
<1>1. ASSUME NEW p \in Pages, Open(p)
      PROVE  NoSessionLeft'
  BY <1>1, TakeoverAssumption DEF Open
<1>2. ASSUME NEW p \in Pages, TryListen(p)
      PROVE  NoSessionLeft'
  BY <1>2, TakeoverAssumption DEF TryListen, Bind
<1>3. ASSUME NEW p \in Pages, ReadControl(p)
      PROVE  NoSessionLeft'
  BY <1>3, TakeoverAssumption DEF ReadControl
<1>4. ASSUME NEW p \in Pages, AskTakeover(p)
      PROVE  NoSessionLeft'
  BY <1>4, TakeoverAssumption DEF AskTakeover, Accepts, Promised, Refused
<1>5. ASSUME NEW p \in Pages, Retry(p)
      PROVE  NoSessionLeft'
  BY <1>5, TakeoverAssumption DEF Retry, Bind
<1>6. ASSUME NEW p \in Pages, GiveUpWaiting(p)
      PROVE  NoSessionLeft'
  BY <1>6, TakeoverAssumption DEF GiveUpWaiting
<1>7. ASSUME NEW p \in Pages, ListenElsewhere(p)
      PROVE  NoSessionLeft'
  BY <1>7, TakeoverAssumption DEF ListenElsewhere, Bind
<1>8. ASSUME NEW p \in Pages, StartControl(p)
      PROVE  NoSessionLeft'
  BY <1>8, TakeoverAssumption DEF StartControl
<1>9. ASSUME NEW p \in Pages, WriteControl(p)
      PROVE  NoSessionLeft'
  BY <1>9, TakeoverAssumption DEF WriteControl
<1>10. ASSUME NEW p \in Pages, SetControlPort(p)
      PROVE  NoSessionLeft'
  BY <1>10, TakeoverAssumption DEF SetControlPort
<1>11. ASSUME NEW p \in Pages, ControlFails(p)
      PROVE  NoSessionLeft'
  BY <1>11, TakeoverAssumption DEF ControlFails
<1>12. ASSUME NEW p \in Pages, NEW s \in Sessions, Redeem(p, s)
      PROVE  NoSessionLeft'
  BY <1>12, TakeoverAssumption DEF Redeem, Serving
<1>13. ASSUME NEW p \in Pages, NEW s \in Sessions, Expire(p, s)
      PROVE  NoSessionLeft'
  BY <1>13, TakeoverAssumption DEF Expire, Serving
<1>14. ASSUME NEW p \in Pages, NEW s \in Sessions, Admit(p, s)
      PROVE  NoSessionLeft'
  BY <1>14, TakeoverAssumption DEF Admit, Serving
<1>15. ASSUME NEW p \in Pages, NEW s \in Sessions, BeginPublishing(p, s)
      PROVE  NoSessionLeft'
  BY <1>15, TakeoverAssumption DEF BeginPublishing
<1>16. ASSUME NEW p \in Pages, NEW s \in Sessions, EndPublishing(p, s)
      PROVE  NoSessionLeft'
  BY <1>16, TakeoverAssumption DEF EndPublishing
<1>17. ASSUME NEW p \in Pages, CloseFromPage(p)
      PROVE  NoSessionLeft'
  BY <1>17, TakeoverAssumption DEF CloseFromPage, Serving
<1>18. ASSUME NEW p \in Pages, NEW reason \in Reasons, ResponseFinished(p, reason)
      PROVE  NoSessionLeft'
  <2>1. CASE stage[p] = "running"
    <3>1. /\ \A t \in Sessions : session'[p][t] # "open"
          /\ \A q \in Pages \ {p} : session'[q] = session[q] /\ stage'[q] = stage[q]
      BY <1>18, <2>1, BeginShutdownEffect DEF ResponseFinished
    <3>2. QED
      BY ONLY NoSessionLeft, <3>1 DEF NoSessionLeft
  <2>2. CASE stage[p] # "running"
    BY <1>18, <2>2 DEF ResponseFinished
  <2>3. QED
    BY <2>1, <2>2
<1>19. ASSUME NEW p \in Pages, StopFromWithin(p)
      PROVE  NoSessionLeft'
  BY <1>19, TakeoverAssumption DEF StopFromWithin, BeginShutdown
<1>20. ASSUME NEW p \in Pages, ReadOwnControl(p)
      PROVE  NoSessionLeft'
  BY <1>20, TakeoverAssumption DEF ReadOwnControl
<1>21. ASSUME NEW p \in Pages, RemoveControl(p)
      PROVE  NoSessionLeft'
  BY <1>21, TakeoverAssumption DEF RemoveControl
<1>22. ASSUME NEW p \in Pages, CloseListener(p)
      PROVE  NoSessionLeft'
  BY <1>22, TakeoverAssumption DEF CloseListener, FreePort
<1>23. ASSUME NEW p \in Pages, Die(p)
      PROVE  NoSessionLeft'
  BY <1>23, TakeoverAssumption DEF Die, FreePort
<1>24. CASE ForeignLeaves
  BY <1>24, TakeoverAssumption DEF ForeignLeaves
<1>25. QED
  BY <1>1, <1>2, <1>3, <1>4, <1>5, <1>6, <1>7, <1>8, <1>9, <1>10, <1>11, <1>12,
     <1>13, <1>14, <1>15, <1>16, <1>17, <1>18, <1>19, <1>20, <1>21, <1>22, <1>23, <1>24
     DEF Next, Opening, Stopping, Request

-----------------------------------------------------------------------------
(* Theorems. *)

LEMMA InitIInv == Init => IInv
<1> SUFFICES ASSUME Init
             PROVE  IInv
  OBVIOUS
<1> USE TakeoverAssumption DEF Init
<1>1. TypeOK
  BY DEF TypeOK, Locations, Stages, Reasons
<1>2. Progress /\ HoldsPort /\ Named
  BY DEF Progress, HoldsPort, Named, Searching
<1>3. TokensLeft /\ NoSessionLeft
  BY DEF TokensLeft, Left, NoSessionLeft
<1>4. QED
  BY <1>1, <1>2, <1>3 DEF IInv

LEMMA StutterIInv == IInv /\ UNCHANGED vars => IInv'
BY DEF IInv, TypeOK, Progress, HoldsPort, Named, TokensLeft, Left,
       NoSessionLeft, vars, bindVars, requestVars

LEMMA Invariance == Spec => []IInv
<1>1. IInv /\ [Next]_vars => IInv'
  BY TypeStep, ProgressStep, HoldsPortStep, NamedStep, TokensLeftStep,
     NoSessionLeftStep, StutterIInv DEF IInv
<1>2. QED
  BY InitIInv, <1>1, PTL DEF Spec

\* Every reachable state is well typed: in particular a view never counts
\* below zero attempts, however long the page it replaces takes (bindPort).
THEOREM TypeCorrect == Spec => []TypeOK
BY Invariance, PTL DEF IInv

\* For any number of views that open, stop and die in any order, the control
\* file names the page that holds the port (writeControlFile, stop).
THEOREM ControlNamesHolderHolds == Spec => []ControlNamesHolder
<1>1. IInv => ControlNamesHolder
  BY DEF IInv, Named, ControlNamesHolder
<1>2. QED
  BY <1>1, Invariance, PTL

\* No token a newcomer can hold stops a page that has not left its own
\* (requestTakeover, POST /takeover).
THEOREM FreshPageIsNotReplacedHolds == Spec => []FreshPageIsNotReplaced
<1>1. IInv => FreshPageIsNotReplaced
  <2> SUFFICES ASSUME IInv, NEW p \in Pages, "replaced" \in finish[p]
               PROVE  at[p] \in {"control written", "up"}
    BY DEF FreshPageIsNotReplaced
  <2>1. finish[p] # {}
    OBVIOUS
  <2>2. at[p] \in Locations
    BY DEF IInv, TypeOK
  <2>3. QED
    BY <2>1, <2>2 DEF IInv, Progress, Searching, Locations
<1>2. QED
  BY <1>1, Invariance, PTL

\* Once its shutdown has begun, a page starts no publishing run, because no
\* session is left that the handler could authenticate (beginShutdown).
THEOREM NothingStartsAfterShutdownHolds == Spec => NothingStartsAfterShutdown
<1>1. ASSUME IInv, [Next]_vars, NEW p \in Pages, stage[p] # "running"
      PROVE  runs'[p] \subseteq runs[p]
  <2>1. ASSUME NEW q \in Pages, NEW s \in Sessions, BeginPublishing(q, s)
        PROVE  runs'[p] \subseteq runs[p]
    <3>1. CASE q = p
      <4>1. session[p][s] # "open"
        BY <1>1 DEF IInv, NoSessionLeft
      <4>2. QED
        BY <1>1, <2>1, <3>1, <4>1 DEF BeginPublishing, IInv, TypeOK
    <3>2. CASE q # p
      BY <1>1, <2>1, <3>2 DEF BeginPublishing, IInv, TypeOK
    <3>3. QED
      BY <3>1, <3>2
  <2>2. ASSUME NEW q \in Pages, NEW s \in Sessions, EndPublishing(q, s)
        PROVE  runs'[p] \subseteq runs[p]
    BY <1>1, <2>2 DEF EndPublishing, IInv, TypeOK
  <2>3. ASSUME NEW q \in Pages, Die(q)
        PROVE  runs'[p] \subseteq runs[p]
    BY <1>1, <2>3 DEF Die, IInv, TypeOK
  <2>4. ASSUME UNCHANGED runs
        PROVE  runs'[p] \subseteq runs[p]
    BY <2>4
  <2>5. ASSUME NEW q \in Pages, Opening(q) \/ Open(q) \/ ControlFails(q)
        PROVE  UNCHANGED runs
    BY <2>5 DEF Opening, Open, ControlFails, TryListen, ReadControl, AskTakeover,
       Retry, GiveUpWaiting, ListenElsewhere, StartControl, WriteControl,
       SetControlPort, requestVars
  <2>6. ASSUME NEW q \in Pages, Stopping(q) \/ StopFromWithin(q)
        PROVE  UNCHANGED runs
    BY <2>6 DEF Stopping, StopFromWithin, ResponseFinished,
       ReadOwnControl, RemoveControl, CloseListener, requestVars
  <2>7. ASSUME NEW q \in Pages, NEW s \in Sessions,
               Redeem(q, s) \/ Expire(q, s) \/ Admit(q, s)
        PROVE  UNCHANGED runs
    BY <2>7 DEF Redeem, Expire, Admit
  <2>8. ASSUME NEW q \in Pages, CloseFromPage(q)
        PROVE  UNCHANGED runs
    BY <2>8 DEF CloseFromPage
  <2>9. CASE UNCHANGED vars
    BY <2>4, <2>9 DEF vars, requestVars
  <2>10. CASE ForeignLeaves
    BY <2>4, <2>10 DEF ForeignLeaves, requestVars
  <2>11. QED
    BY <1>1, <2>1, <2>2, <2>3, <2>4, <2>5, <2>6, <2>7, <2>8, <2>9, <2>10
       DEF Next, Request
<1>2. IInv /\ [Next]_vars =>
        [\A p \in Pages : stage[p] # "running" => runs'[p] \subseteq runs[p]]_vars
  BY <1>1
<1>3. QED
  BY <1>2, Invariance, PTL DEF Spec, NothingStartsAfterShutdown

=============================================================================

---------------------------- MODULE PageTakeover ----------------------------
(***************************************************************************)
(* One review page per machine: how a new `ambicode view` takes the fixed  *)
(* port over from the page that holds it, and how a page stops.            *)
(*                                                                         *)
(* Pages are processes.  They share the port, which one listener at a time *)
(* can hold, and the control file beside it, in which the running page     *)
(* leaves the token that stops it.  A token is fresh for each process, so  *)
(* it is the page that issued it here.  Browsers hold sessions of a page;  *)
(* a publishing run of a session is abstracted to when it starts and ends, *)
(* and is modelled in Publication.                                         *)
(***************************************************************************)
EXTENDS Naturals

CONSTANTS
    Pages,           \* `ambicode view` processes, each opened at most once
    Sessions,        \* session cookies a page may issue
    ReleaseAttempts, \* RELEASE_ATTEMPTS, 20 in the code
    Free,            \* the port when nothing listens on it
    Foreign,         \* a program that is not a review page, on the port
    Absent,          \* there is no control file
    Torn,            \* a control file whose write has not ended
    ForeignHolds,    \* may such a program hold the port
    Faults           \* may processes die and writes of the file fail

ASSUME TakeoverAssumption ==
    /\ Pages \cap {Free, Foreign, Absent, Torn} = {}
    /\ Free # Foreign
    /\ Absent # Torn
    /\ ReleaseAttempts \in Nat
    /\ ForeignHolds \in BOOLEAN
    /\ Faults \in BOOLEAN

VARIABLES
    port,     \* who listens on the fixed port
    control,  \* the control file: whose token it holds
    at,       \* where runView and bindPort stand, for each page
    token,    \* the token the page read from the control file, or Absent
    attempts, \* the attempts left to bind the port once it was promised
    recorded, \* pages whose controlPort is set
    stage,    \* how far stop() has come
    session,  \* the sessions of each page
    admitted, \* sessions with a publishing form past the onRequest hook
    runs,     \* sessions whose publishing form is running
    finish    \* why the page will stop once the response has been written

bindVars    == <<port, control, at, token, attempts, recorded>>
requestVars == <<session, admitted, runs, finish>>
vars        == <<bindVars, stage, requestVars>>

Locations == {"unopened", "binding", "reading control", "asking", "waiting",
              "elsewhere", "bound", "writing control", "control written",
              "up", "headless", "dead"}
Stages    == {"running", "reading control", "removing control", "closing",
              "closed"}
Reasons   == {"replaced", "closed from the page"}

TypeOK ==
    /\ port \in Pages \cup {Free, Foreign}
    /\ control \in Pages \cup {Absent, Torn}
    /\ at \in [Pages -> Locations]
    /\ token \in [Pages -> Pages \cup {Absent}]
    /\ attempts \in [Pages -> 0..ReleaseAttempts]
    /\ recorded \in SUBSET Pages
    /\ stage \in [Pages -> Stages]
    /\ session \in [Pages -> [Sessions -> {"unissued", "open", "gone"}]]
    /\ admitted \in [Pages -> SUBSET Sessions]
    /\ runs \in [Pages -> SUBSET Sessions]
    /\ finish \in [Pages -> SUBSET Reasons]

\* Any port may be busy, and a page that died has left its control file.
Init ==
    /\ port \in {Free} \cup (IF ForeignHolds THEN {Foreign} ELSE {})
    /\ control = Absent
    /\ at = [p \in Pages |-> "unopened"]
    /\ token = [p \in Pages |-> Absent]
    /\ attempts = [p \in Pages |-> 0]
    /\ recorded = {}
    /\ stage = [p \in Pages |-> "running"]
    /\ session = [p \in Pages |-> [s \in Sessions |-> "unissued"]]
    /\ admitted = [p \in Pages |-> {}]
    /\ runs = [p \in Pages |-> {}]
    /\ finish = [p \in Pages |-> {}]

-----------------------------------------------------------------------------
(* Opening a page: bindPort, then the control file.                        *)

\* runView reaches bindPort.
Open(p) ==
    /\ at[p] = "unopened"
    /\ at' = [at EXCEPT ![p] = "binding"]
    /\ UNCHANGED <<port, control, token, attempts, recorded, stage, requestVars>>

Bind(p) ==
    /\ port = Free
    /\ port' = p
    /\ at' = [at EXCEPT ![p] = "bound"]
    /\ UNCHANGED <<control, token, recorded>>

TryListen(p) ==
    /\ at[p] = "binding"
    /\ \/ Bind(p)
       \/ /\ port # Free
          /\ at' = [at EXCEPT ![p] = "reading control"]
          /\ UNCHANGED <<port, control, token, recorded>>
    /\ UNCHANGED <<attempts, stage, requestVars>>

\* A file that is missing or does not parse names nobody.
ReadControl(p) ==
    /\ at[p] = "reading control"
    /\ \/ /\ control \in Pages
          /\ token' = [token EXCEPT ![p] = control]
          /\ at' = [at EXCEPT ![p] = "asking"]
       \/ /\ control \notin Pages
          /\ at' = [at EXCEPT ![p] = "elsewhere"]
          /\ UNCHANGED token
    /\ UNCHANGED <<port, control, attempts, recorded, stage, requestVars>>

\* Whether a session known to the page holds its publication slot.
Publishing(p) == \E s \in runs[p] : session[p][s] = "open"

\* Mutant of Accepts: a token of any page is taken.
AcceptsAnyToken(h, t) ==
    /\ stage[h] = "running"
    /\ t \in Pages
    /\ ~Publishing(h)

\* POST /takeover accepts only this page's token, from a page that is not
\* shutting down or publishing.
Accepts(h, t) ==
    /\ stage[h] = "running"
    /\ t = h
    /\ ~Publishing(h)

Promised(p) ==
    /\ at' = [at EXCEPT ![p] = "waiting"]
    /\ attempts' = [attempts EXCEPT ![p] = ReleaseAttempts]

Refused(p) ==
    /\ at' = [at EXCEPT ![p] = "elsewhere"]
    /\ UNCHANGED attempts

\* requestTakeover: a page that accepts stops once its answer is written,
\* whether or not the answer comes within the newcomer's five seconds.
AskTakeover(p) ==
    /\ at[p] = "asking"
    /\ \/ /\ port \in Pages
          /\ Accepts(port, token[p])
          /\ finish' = [finish EXCEPT ![port] = @ \cup {"replaced"}]
          /\ Promised(p) \/ Refused(p)
       \/ /\ port \in Pages => ~Accepts(port, token[p])
          /\ Refused(p)
          /\ UNCHANGED finish
       \/ /\ port = Foreign
          /\ Promised(p)
          /\ UNCHANGED finish
    /\ UNCHANGED <<port, control, token, recorded, stage, session, admitted, runs>>

\* Mutant of Retry: one attempt too many.
RetryOnceMore(p) ==
    /\ at[p] = "waiting"
    /\ \/ Bind(p) /\ UNCHANGED attempts
       \/ /\ port # Free
          /\ attempts' = [attempts EXCEPT ![p] = @ - 1]
          /\ UNCHANGED <<port, control, at, token, recorded>>
    /\ UNCHANGED <<stage, requestVars>>

\* Mutant of Retry: the attempts are not counted.
RetryForever(p) ==
    /\ at[p] = "waiting"
    /\ Bind(p)
    /\ UNCHANGED <<attempts, stage, requestVars>>

Retry(p) ==
    /\ at[p] = "waiting"
    /\ attempts[p] > 0
    /\ \/ Bind(p) /\ UNCHANGED attempts
       \/ /\ port # Free
          /\ attempts' = [attempts EXCEPT ![p] = @ - 1]
          /\ UNCHANGED <<port, control, at, token, recorded>>
    /\ UNCHANGED <<stage, requestVars>>

GiveUpWaiting(p) ==
    /\ at[p] = "waiting"
    /\ attempts[p] = 0
    /\ at' = [at EXCEPT ![p] = "elsewhere"]
    /\ UNCHANGED <<port, control, token, attempts, recorded, stage, requestVars>>

\* listen(0): the system picks a port, which may be the fixed one if it is
\* free by now.
ListenElsewhere(p) ==
    /\ at[p] = "elsewhere"
    /\ \/ Bind(p)
       \/ /\ at' = [at EXCEPT ![p] = "up"]
          /\ UNCHANGED <<port, control, token, recorded>>
    /\ UNCHANGED <<attempts, stage, requestVars>>

\* writeControlFile truncates the file, then fills it; controlPort is set
\* when the write has been confirmed.
StartControl(p) ==
    /\ at[p] = "bound"
    /\ control' = Torn
    /\ at' = [at EXCEPT ![p] = "writing control"]
    /\ UNCHANGED <<port, token, attempts, recorded, stage, requestVars>>

WriteControl(p) ==
    /\ at[p] = "writing control"
    /\ control' = p
    /\ at' = [at EXCEPT ![p] = "control written"]
    /\ UNCHANGED <<port, token, attempts, recorded, stage, requestVars>>

SetControlPort(p) ==
    /\ at[p] = "control written"
    /\ recorded' = recorded \cup {p}
    /\ at' = [at EXCEPT ![p] = "up"]
    /\ UNCHANGED <<port, control, token, attempts, stage, requestVars>>

\* The write fails: `ambicode view` reports it and prints no link, but its
\* listener keeps the process, and the port, until it idles out.
ControlFails(p) ==
    /\ Faults
    /\ at[p] \in {"bound", "writing control"}
    /\ at' = [at EXCEPT ![p] = "headless"]
    /\ UNCHANGED <<port, control, token, attempts, recorded, stage, requestVars>>

-----------------------------------------------------------------------------
(* Serving: what the sessions of a page that printed its link may ask.     *)

Serving(p) == at[p] = "up" /\ stage[p] = "running"

\* The link opens a session for each browser that visits it.
Redeem(p, s) ==
    /\ Serving(p)
    /\ session[p][s] = "unissued"
    /\ session' = [session EXCEPT ![p][s] = "open"]
    /\ UNCHANGED <<bindVars, stage, admitted, runs, finish>>

\* A request of a session that has idled past its lifetime drops it; only the
\* activity of another one can have kept the page from idling out before.
Expire(p, s) ==
    /\ Serving(p)
    /\ session[p][s] = "open"
    /\ \E t \in Sessions \ {s} : session[p][t] = "open"
    /\ session' = [session EXCEPT ![p][s] = "gone"]
    /\ UNCHANGED <<bindVars, stage, admitted, runs, finish>>

\* A POST /publish passes the onRequest hook; its body is yet to be read.
Admit(p, s) ==
    /\ Serving(p)
    /\ session[p][s] # "unissued"
    /\ admitted' = [admitted EXCEPT ![p] = @ \cup {s}]
    /\ UNCHANGED <<bindVars, stage, session, runs, finish>>

\* Its handler authenticates the session and claims the slot, or refuses.
BeginPublishing(p, s) ==
    /\ s \in admitted[p]
    /\ admitted' = [admitted EXCEPT ![p] = @ \ {s}]
    /\ runs' = [runs EXCEPT ![p] = IF session[p][s] = "open" THEN @ \cup {s} ELSE @]
    /\ UNCHANGED <<bindVars, stage, session, finish>>

\* The run is recorded and its slot given back, shutdown or not.
EndPublishing(p, s) ==
    /\ s \in runs[p]
    /\ runs' = [runs EXCEPT ![p] = @ \ {s}]
    /\ UNCHANGED <<bindVars, stage, session, admitted, finish>>

\* POST /close answers, and stops the page once the answer is written.
CloseFromPage(p) ==
    /\ Serving(p)
    /\ \E s \in Sessions : session[p][s] = "open"
    /\ finish' = [finish EXCEPT ![p] = @ \cup {"closed from the page"}]
    /\ UNCHANGED <<bindVars, stage, session, admitted, runs>>

-----------------------------------------------------------------------------
(* Stopping.                                                               *)

\* Mutant of BeginShutdown: the sessions stay.
ShutdownKeepsSessions(p) ==
    /\ stage' = [stage EXCEPT ![p] =
                     IF p \in recorded THEN "reading control" ELSE "closing"]
    /\ UNCHANGED session

\* beginShutdown and the start of beforeClose: every session goes, and the
\* control file is looked at if this page set controlPort.
BeginShutdown(p) ==
    /\ session' = [session EXCEPT ![p] =
                     [s \in Sessions |-> IF @[s] = "open" THEN "gone" ELSE @[s]]]
    /\ stage' = [stage EXCEPT ![p] =
                     IF p \in recorded THEN "reading control" ELSE "closing"]

\* A response that ends the page has been written; only the first stops it.
ResponseFinished(p, reason) ==
    /\ reason \in finish[p]
    /\ finish' = [finish EXCEPT ![p] = @ \ {reason}]
    /\ IF stage[p] = "running" THEN BeginShutdown(p) ELSE UNCHANGED <<session, stage>>
    /\ UNCHANGED <<bindVars, admitted, runs>>

\* The idle timer fires, or Ctrl-C reaches a page that waits for it.
StopFromWithin(p) ==
    /\ stage[p] = "running"
    /\ at[p] \in {"up", "headless"}
    /\ BeginShutdown(p)
    /\ UNCHANGED <<bindVars, admitted, runs, finish>>

FreePort(p) == port' = IF port = p THEN Free ELSE port

\* Mutant of ReadOwnControl: the listener goes before the control file.
ReadAfterClosing(p) ==
    /\ stage[p] = "reading control"
    /\ stage' = [stage EXCEPT ![p] = IF control = p THEN "removing control" ELSE "closing"]
    /\ FreePort(p)
    /\ UNCHANGED <<control, at, token, attempts, recorded, requestVars>>

\* removeControlFile: the file is removed only if it holds this page's token.
ReadOwnControl(p) ==
    /\ stage[p] = "reading control"
    /\ stage' = [stage EXCEPT ![p] = IF control = p THEN "removing control" ELSE "closing"]
    /\ UNCHANGED <<bindVars, requestVars>>

\* Mutant of RemoveControl: a removal that fails ends stop().
RemovalFailureEndsStop(p) ==
    /\ stage[p] = "removing control"
    /\ \/ control' = Absent /\ stage' = [stage EXCEPT ![p] = "closing"]
       \/ Faults /\ UNCHANGED control /\ stage' = [stage EXCEPT ![p] = "closed"]
    /\ UNCHANGED <<port, at, token, attempts, recorded, requestVars>>

\* A removal that fails is ignored.
RemoveControl(p) ==
    /\ stage[p] = "removing control"
    /\ stage' = [stage EXCEPT ![p] = "closing"]
    /\ \/ control' = Absent
       \/ Faults /\ UNCHANGED control
    /\ UNCHANGED <<port, at, token, attempts, recorded, requestVars>>

\* app.close(): the listener goes at once; requests in flight run on.
CloseListener(p) ==
    /\ stage[p] = "closing"
    /\ stage' = [stage EXCEPT ![p] = "closed"]
    /\ FreePort(p)
    /\ UNCHANGED <<control, at, token, attempts, recorded, requestVars>>

\* The process is killed, or a second signal reaches it.
Die(p) ==
    /\ Faults
    /\ at[p] \notin {"unopened", "dead"}
    /\ at' = [at EXCEPT ![p] = "dead"]
    /\ stage' = [stage EXCEPT ![p] = "closed"]
    /\ FreePort(p)
    /\ session' = [session EXCEPT ![p] =
                     [s \in Sessions |-> IF @[s] = "open" THEN "gone" ELSE @[s]]]
    /\ admitted' = [admitted EXCEPT ![p] = {}]
    /\ runs' = [runs EXCEPT ![p] = {}]
    /\ finish' = [finish EXCEPT ![p] = {}]
    /\ UNCHANGED <<control, token, attempts, recorded>>

-----------------------------------------------------------------------------
\* What a page does on its own once it has been opened, and what is done to it.
Opening(p) ==
    \/ TryListen(p) \/ ReadControl(p) \/ AskTakeover(p) \/ Retry(p)
    \/ GiveUpWaiting(p) \/ ListenElsewhere(p) \/ StartControl(p)
    \/ WriteControl(p) \/ SetControlPort(p)

Stopping(p) ==
    \/ \E reason \in Reasons : ResponseFinished(p, reason)
    \/ ReadOwnControl(p) \/ RemoveControl(p) \/ CloseListener(p)

Request(p) ==
    \/ CloseFromPage(p)
    \/ \E s \in Sessions :
         Redeem(p, s) \/ Expire(p, s) \/ Admit(p, s) \/ BeginPublishing(p, s)
         \/ EndPublishing(p, s)

\* The foreign program lets the port go.
ForeignLeaves ==
    /\ port = Foreign
    /\ port' = Free
    /\ UNCHANGED <<control, at, token, attempts, recorded, stage, requestVars>>

Next ==
    \/ \E p \in Pages :
         \/ Open(p) \/ Opening(p) \/ ControlFails(p) \/ Request(p)
         \/ StopFromWithin(p) \/ Stopping(p) \/ Die(p)
    \/ ForeignLeaves

Spec == Init /\ [][Next]_vars

\* The event loop of a page goes on, so what it has begun it ends.
Fairness == \A p \in Pages : WF_vars(Opening(p)) /\ WF_vars(Stopping(p))

FairSpec == Spec /\ Fairness

-----------------------------------------------------------------------------
(* What this promises.                                                     *)

\* A page that holds the fixed port and has finished opening can be found by
\* its successor: the control file holds its token, whatever the pages before
\* it remove or left behind while they stopped or died.
ControlNamesHolder ==
    \A p \in Pages :
        port = p /\ p \in recorded /\ stage[p] = "running" => control = p

\* A page that has not yet left its token is never stopped by a newcomer: the
\* token a newcomer read from an earlier page does not stop the one that took
\* the port in between.
FreshPageIsNotReplaced ==
    \A p \in Pages :
        "replaced" \in finish[p] => at[p] \in {"control written", "up"}

\* No publishing run starts once shutdown has begun, not even for a form that
\* had passed the onRequest hook before.
NothingStartsAfterShutdown ==
    [][\A p \in Pages : stage[p] # "running" => runs'[p] \subseteq runs[p]]_vars

\* A page that stops lets the port go, even if its control file cannot be
\* removed.
StoppedPageFreesPort ==
    \A p \in Pages : (stage[p] # "running") ~> (port # p)

\* Every view that starts opens a page somewhere, whoever holds the port and
\* whatever the page on it answers.
OpeningEnds ==
    \A p \in Pages :
        (at[p] = "binding") ~> (at[p] \in {"up", "headless", "dead"})

\* A claim the code does not keep, for every configuration with a takeover:
\* "never while a publication is running" (page/server.ts:478).  A form may
\* begin to publish between the answer to /takeover and the shutdown.
ReplacedOnlyWhenIdle ==
    [][\A p \in Pages :
         /\ "replaced" \in finish[p] \ finish'[p]
         /\ stage[p] = "running" /\ stage'[p] # "closed"
         => runs[p] = {}]_vars

=============================================================================

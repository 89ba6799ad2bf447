---------------------------- MODULE InstallerProofs ----------------------------
(***************************************************************************)
(* What holds of Installer for any number of installers, candidates and    *)
(* places.                                                                 *)
(***************************************************************************)
EXTENDS Installer, SequenceTheorems, TLAPS

-----------------------------------------------------------------------------
(* The lock. *)

\* Having given an answer that is about the directory, and not yet the lock.
Answering(p) == At(p, "release") /\ result[p] \in {"failed", "installed"}

Holding(p) == At(p, "write lock") \/ Mutating(p) \/ Answering(p)

\* Who holds the lock is named by it.
Held(p) ==
    /\ At(p, "write lock") => lock = [owner |-> p, blank |-> TRUE]
    /\ Mutating(p) \/ Answering(p) => lock = [owner |-> p, blank |-> FALSE]

\* Who reclaims a lock has not read a name in it of a process that runs.
Looked == \A p \in Installers : At(p, "reclaim") => ~Lives(looked[p])

LockOK == \A p \in Installers : Held(p)

-----------------------------------------------------------------------------
(* One installer at work. *)

Published == {"add", "refresh", "list", "install", "update", "verify", "record", "discard"}
Undos == {"compensate", "put back"}
InstallSteps == {"stage", "set aside", "publish"} \cup Published \cup Undos
UninstallSteps == {"uninstall", "unregister", "remove source", "remove root"}
Working(p) == pc[p] \in InstallSteps \cup UninstallSteps

Found == [market : Candidates \cup {None}, state : States, plugins : [Places -> Candidates \cup {None}]]

\* What the compensations pushed so far can be, and what is left of them.
Restore == <<To("restore"), To("refresh")>>
Remove == <<To("unregister"), To("restore")>>
Fresh == {<<To("uninstall"), To("restore"), To("refresh")>>,
          <<To("uninstall"), To("unregister"), To("restore")>>}
Downgrades(v) == {<<To("restore"), To("refresh"), DowngradeTo(v)>>,
                  <<To("unregister"), To("restore"), DowngradeTo(v)>>,
                  <<To("restore"), DowngradeTo(v)>>, <<To("refresh"), DowngradeTo(v)>>,
                  <<DowngradeTo(v)>>}
Others == {Restore, Remove, <<To("restore")>>, <<To("refresh")>>, <<>>}
Restored(v) == {<<To("refresh"), DowngradeTo(v)>>, <<DowngradeTo(v)>>, <<To("refresh")>>, <<>>}

\* The version an update is undone to.
Previous(p) == VersionAt(Place(p), before[p].plugins)

\* The compensations match what was done to the plugin.
PluginUndone(p) ==
    \/ undo[p] \in Fresh /\ Previous(p) = None
    \/ undo[p] \in Downgrades(Previous(p)) /\ Previous(p) # None
    \/ undo[p] \in Others /\ VersionAt(Place(p), plugins) = Previous(p)

\* And what was done to the directory.
SourceUndone(p) ==
    /\ At(p, "compensate") =>
         IF undo[p] \in Restored(Previous(p)) THEN market = before[p].market
         ELSE market = Candidate(p) /\ rollback[p] = before[p].market
    /\ At(p, "put back") => /\ market = None /\ rollback[p] = before[p].market
                            /\ undo[p] # <<>> /\ Head(undo[p]).step = "restore"

Started(p) ==
    /\ command[p] \in Install /\ before[p] \in Found
    /\ existed[p] <=> before[p].market # None
    /\ before[p].state \notin {None, Corrupt} =>
         /\ before[p].state.place = Place(p)
         /\ before[p].state.version = Candidate(p).version => before[p].market = Candidate(p)
    /\ \A l \in Places : l # Place(p) => plugins[l] = before[p].plugins[l]
    /\ before[p].state # Corrupt
    /\ state = IF At(p, "discard") THEN [version |-> Candidate(p).version, place |-> Place(p)]
               ELSE before[p].state

InstallOK(p) ==
    /\ pc[p] \in InstallSteps => Started(p)
    /\ pc[p] \in {"stage", "set aside", "publish"} => plugins = before[p].plugins
    /\ pc[p] \in {"stage", "set aside"} => market = before[p].market
    /\ pc[p] \in {"set aside", "publish"} => staging[p] = Candidate(p)
    /\ At(p, "publish") => market = None
    /\ pc[p] \in {"publish"} \cup Published => rollback[p] = before[p].market
    /\ pc[p] \in Published => market = Candidate(p)
    /\ pc[p] \in {"add", "refresh", "list"} =>
         plugins = before[p].plugins /\ undo[p] = (IF existed[p] THEN Restore ELSE Remove)
    /\ At(p, "install") => undo[p] \in Fresh
    /\ At(p, "update") => undo[p] \in Downgrades(Previous(p))
    /\ pc[p] \in {"install", "update", "verify", "record"} \cup Undos => PluginUndone(p)
    /\ pc[p] \in {"install", "update", "verify", "record"} =>
         undo[p] \notin Restored(Previous(p))
    /\ pc[p] \in Undos => SourceUndone(p)
    /\ pc[p] \in {"record", "discard"} => Postcondition(Place(p), Candidate(p).version)

UninstallOK(p) ==
    pc[p] \in UninstallSteps =>
        /\ command[p] \in Uninstall /\ before[p] \in Found
        /\ before[p].state \notin {None, Corrupt}
        /\ state = before[p].state \/ (At(p, "remove root") /\ state = None)
        /\ \A l \in Places : l # before[p].state.place => plugins[l] = before[p].plugins[l]
        /\ At(p, "uninstall") => plugins[before[p].state.place] = before[p].plugins[before[p].state.place]
        /\ ~At(p, "uninstall") => plugins[before[p].state.place] = None
        /\ ~At(p, "remove root") => market = before[p].market
        /\ At(p, "remove root") => market = None

\* What a command that gives its lock back has said.
AnswerOK(p) ==
    At(p, "release") =>
        /\ result[p] \in {"failed", "installed"} => command[p] \in Install
        /\ result[p] = "failed" =>
             /\ market = before[p].market /\ state = before[p].state
             /\ \A l \in Places : VersionAt(l, plugins) = VersionAt(l, before[p].plugins)
        /\ result[p] = "installed" =>
             /\ state = [version |-> Candidate(p).version, place |-> Place(p)]
             /\ market = Candidate(p) /\ Postcondition(Place(p), Candidate(p).version)

Doing(p) == InstallOK(p) /\ UninstallOK(p) /\ AnswerOK(p)

-----------------------------------------------------------------------------
(* Builds, as long as every installer could compensate. *)

\* The record, the directory and Claude Code agree.
Consistent(m, s, all) ==
    \/ s = Corrupt
    \/ s = None /\ m = None /\ \A l \in Places : all[l] = None
    \/ /\ s \notin {None, Corrupt} /\ m # None /\ m.version = s.version
       /\ \A l \in Places : all[l] # None => l = s.place /\ all[l] = m

\* What an update that is to be undone has left.
Upgraded(p) ==
    /\ plugins[Place(p)] \in {before[p].plugins[Place(p)], Candidate(p)}
    /\ Previous(p) # Candidate(p).version
    /\ undo[p] = <<To("unregister"), To("restore"), DowngradeTo(Previous(p))>> => before[p].market = None
    /\ undo[p] \in {<<To("restore"), DowngradeTo(Previous(p))>>, <<DowngradeTo(Previous(p))>>} =>
         catalog = before[p].market

Exact(p) ==
    /\ Working(p) => Consistent(before[p].market, before[p].state, before[p].plugins)
    /\ pc[p] \in {"list", "install", "update"} => catalog = Candidate(p)
    /\ At(p, "install") => plugins[Place(p)] = None
    /\ At(p, "update") => plugins[Place(p)] = before[p].plugins[Place(p)]
    /\ pc[p] \in {"verify", "record", "discard"} => plugins[Place(p)] = Candidate(p)
    /\ At(p, "release") /\ result[p] = "installed" => plugins[Place(p)] = Candidate(p)
    /\ pc[p] \in {"update", "verify", "record"} \cup Undos /\ undo[p] \in Downgrades(Previous(p)) =>
         Upgraded(p)
    /\ pc[p] \in {"verify", "record"} \cup Undos /\ undo[p] \in Others => plugins = before[p].plugins

BuildsOK ==
    Disturbed \/ /\ \A p \in Installers : Exact(p)
                 /\ (\A p \in Installers : ~Working(p)) => Consistent(market, state, plugins)

-----------------------------------------------------------------------------

\* What each process has not done yet, and what it remembers.
NotYet(p) ==
    /\ attempt[p] = 3 => pc[p] \in {"done", "dead"}
    /\ result[p] # None => pc[p] \in {"release", "done", "dead"}
    /\ pc[p] \in {"create lock", "write lock", "read holder", "reclaim", "begin",
                  "stage", "set aside"} => rollback[p] = None

Memory ==
    /\ DOMAIN undo = Installers
    /\ before \in [Installers -> Found \cup {None}]
    /\ \A p \in Installers : NotYet(p)

\* Who installs was asked to.
Asked == \A p \in Installers : pc[p] \in InstallSteps => command[p] \in Install

\* What holds as long as no lock was taken from its holder.
Exclusive == LockOK /\ BuildsOK /\ \A p \in Installers : Doing(p)

IInv ==
    /\ TypeOK /\ Memory /\ Asked /\ Looked
    /\ ~robbed => Exclusive

-----------------------------------------------------------------------------
(* The compensations. *)

LEMMA StepsOfUndo ==
    ASSUME NEW v
    PROVE  /\ \A s : To(s).step = s /\ To(s).version = None
           /\ DowngradeTo(v).step = "downgrade" /\ DowngradeTo(v).version = v
BY DEF To, DowngradeTo

LEMMA JoinedFirst ==
    ASSUME NEW a, NEW b, NEW c
    PROVE  <<a>> \o <<b, c>> = <<a, b, c>>
<1> DEFINE S == {a, b, c}  s == <<a>>  t == <<b, c>>  u == <<a, b, c>>
<1>1. s \in Seq(S) /\ t \in Seq(S) /\ u \in Seq(S) /\ Len(s) = 1 /\ Len(t) = 2 /\ Len(u) = 3
  OBVIOUS
<1>2. /\ s \o t \in Seq(S) /\ Len(s \o t) = 3
      /\ \A i \in 1 .. 3 : (s \o t)[i] = IF i <= 1 THEN s[i] ELSE t[i - 1]
  <2> HIDE DEF s, t, S, u
  <2>1. /\ s \o t \in Seq(S) /\ Len(s \o t) = Len(s) + Len(t)
        /\ \A i \in 1 .. Len(s) + Len(t) : (s \o t)[i] = IF i <= Len(s) THEN s[i] ELSE t[i - Len(s)]
    BY <1>1, ConcatProperties, Zenon
  <2>2. Len(s) + Len(t) = 3 BY <1>1
  <2> QED BY <1>1, <2>1, <2>2, Zenon
<1>3. \A i \in 1..3 : (s \o t)[i] = u[i]
  <2>1. (s \o t)[1] = s[1] /\ (s \o t)[2] = t[1] /\ (s \o t)[3] = t[2]
    <3> HIDE DEF s, t, S, u
    <3> QED BY <1>2
  <2>2. (s \o t)[1] = a /\ (s \o t)[2] = b /\ (s \o t)[3] = c BY <2>1
  <2> QED BY <2>2
<1> HIDE DEF s, t, S, u
<1>4. s \o t = u BY <1>1, <1>2, <1>3, SeqEqual
<1> QED BY <1>4 DEF s, t, u

LEMMA JoinedLast ==
    ASSUME NEW a, NEW b, NEW c
    PROVE  <<a, b>> \o <<c>> = <<a, b, c>>
<1> DEFINE S == {a, b, c}  s == <<a, b>>  t == <<c>>  u == <<a, b, c>>
<1>1. s \in Seq(S) /\ t \in Seq(S) /\ u \in Seq(S) /\ Len(s) = 2 /\ Len(t) = 1 /\ Len(u) = 3
  OBVIOUS
<1>2. /\ s \o t \in Seq(S) /\ Len(s \o t) = 3
      /\ \A i \in 1 .. 3 : (s \o t)[i] = IF i <= 2 THEN s[i] ELSE t[i - 2]
  <2> HIDE DEF s, t, S, u
  <2>1. /\ s \o t \in Seq(S) /\ Len(s \o t) = Len(s) + Len(t)
        /\ \A i \in 1 .. Len(s) + Len(t) : (s \o t)[i] = IF i <= Len(s) THEN s[i] ELSE t[i - Len(s)]
    BY <1>1, ConcatProperties, Zenon
  <2>2. Len(s) + Len(t) = 3 BY <1>1
  <2> QED BY <1>1, <2>1, <2>2, Zenon
<1>3. \A i \in 1..3 : (s \o t)[i] = u[i]
  <2>1. (s \o t)[1] = s[1] /\ (s \o t)[2] = s[2] /\ (s \o t)[3] = t[1]
    <3> HIDE DEF s, t, S, u
    <3> QED BY <1>2
  <2>2. (s \o t)[1] = a /\ (s \o t)[2] = b /\ (s \o t)[3] = c BY <2>1
  <2> QED BY <2>2
<1> HIDE DEF s, t, S, u
<1>4. s \o t = u BY <1>1, <1>2, <1>3, SeqEqual
<1> QED BY <1>4 DEF s, t, u

LEMMA Appended ==
    ASSUME NEW a, NEW b, NEW c
    PROVE  Append(<<a, b>>, c) = <<a, b, c>>
<1> DEFINE S == {a, b, c}  s == <<a, b>>
<1>1. s \in Seq(S) /\ c \in S
  OBVIOUS
<1>2. Append(s, c) = s \o <<c>>
  <2> HIDE DEF s, S
  <2> QED BY <1>1, AppendIsConcat
<1> QED BY <1>2, JoinedLast, Zenon

LEMMA Tails ==
    ASSUME NEW a, NEW b, NEW c
    PROVE  /\ Head(<<a>>) = a /\ Tail(<<a>>) = <<>> /\ <<a>> # <<>>
           /\ Head(<<a, b>>) = a /\ Tail(<<a, b>>) = <<b>> /\ <<a, b>> # <<>>
           /\ Head(<<a, b, c>>) = a /\ Tail(<<a, b, c>>) = <<b, c>> /\ <<a, b, c>> # <<>>
OBVIOUS

LEMMA Apart ==
    ASSUME NEW a, NEW b, NEW c, NEW d, NEW e, NEW f
    PROVE  /\ <<a>> # <<d, e>> /\ <<a>> # <<d, e, f>> /\ <<a, b>> # <<d, e, f>>
           /\ <<a>> = <<d>> => a = d
           /\ <<a, b>> = <<d, e>> => a = d /\ b = e
           /\ <<a, b, c>> = <<d, e, f>> => a = d /\ b = e /\ c = f
OBVIOUS

LEMMA StepsApart ==
    ASSUME NEW v
    PROVE  /\ To("restore") # To("refresh") /\ To("restore") # To("unregister")
           /\ To("restore") # To("uninstall") /\ To("refresh") # To("unregister")
           /\ To("refresh") # To("uninstall") /\ To("unregister") # To("uninstall")
           /\ DowngradeTo(v) \notin {To("restore"), To("refresh"), To("unregister"), To("uninstall")}
BY StepsOfUndo

LEMMA Pushing ==
    ASSUME NEW v
    PROVE  /\ <<To("uninstall")>> \o Restore \in Fresh
           /\ <<To("uninstall")>> \o Remove \in Fresh
           /\ Append(Restore, DowngradeTo(v)) \in Downgrades(v) \ Restored(v)
           /\ Append(Remove, DowngradeTo(v)) \in Downgrades(v) \ Restored(v)
<1>1. /\ <<To("uninstall")>> \o Restore = <<To("uninstall"), To("restore"), To("refresh")>>
      /\ <<To("uninstall")>> \o Remove = <<To("uninstall"), To("unregister"), To("restore")>>
  BY JoinedFirst, Zenon DEF Restore, Remove
<1>2. /\ Append(Restore, DowngradeTo(v)) = <<To("restore"), To("refresh"), DowngradeTo(v)>>
      /\ Append(Remove, DowngradeTo(v)) = <<To("unregister"), To("restore"), DowngradeTo(v)>>
  BY Appended, Zenon DEF Restore, Remove
<1>3. /\ <<To("restore"), To("refresh"), DowngradeTo(v)>> \notin Restored(v)
      /\ <<To("unregister"), To("restore"), DowngradeTo(v)>> \notin Restored(v)
  BY Apart, SMT DEF Restored
<1> QED BY <1>1, <1>2, <1>3, Zenon DEF Fresh, Downgrades

\* What is undone first, and what is left then: of a plugin that was not there,
LEMMA FreshUndo ==
    ASSUME NEW u \in Fresh
    PROVE  /\ u # <<>> /\ Head(u) = To("uninstall")
           /\ Tail(u) \in {Restore, Remove}
<1>1. CASE u = <<To("uninstall"), To("restore"), To("refresh")>>
  BY <1>1, Tails DEF Restore
<1>2. CASE u = <<To("uninstall"), To("unregister"), To("restore")>>
  BY <1>2, Tails DEF Remove
<1> QED BY <1>1, <1>2 DEF Fresh

\* of one that was updated,
LEMMA DowngradesUndo ==
    ASSUME NEW v, NEW u \in Downgrades(v)
    PROVE  /\ u # <<>> /\ Head(u).step # "uninstall"
           /\ Head(u).step = "restore" =>
                /\ Tail(u) \in Downgrades(v) \cap Restored(v) /\ u \notin Restored(v)
                /\ Tail(u) = <<DowngradeTo(v)>> => u = <<To("restore"), DowngradeTo(v)>>
           /\ Head(u).step = "unregister" =>
                /\ Tail(u) = <<To("restore"), DowngradeTo(v)>> /\ u \notin Restored(v)
                /\ u = <<To("unregister"), To("restore"), DowngradeTo(v)>>
           /\ Head(u).step = "refresh" => u \in Restored(v) /\ Tail(u) = <<DowngradeTo(v)>>
           /\ Head(u).step = "downgrade" =>
                u \in Restored(v) /\ Tail(u) = <<>> /\ u = <<DowngradeTo(v)>> /\ Head(u) = DowngradeTo(v)
<1>1. CASE u = <<To("restore"), To("refresh"), DowngradeTo(v)>>
  BY <1>1, Tails, Apart, StepsOfUndo DEF Downgrades, Restored
<1>2. CASE u = <<To("unregister"), To("restore"), DowngradeTo(v)>>
  BY <1>2, Tails, Apart, StepsOfUndo DEF Downgrades, Restored
<1>3. CASE u = <<To("restore"), DowngradeTo(v)>>
  BY <1>3, Tails, Apart, StepsOfUndo DEF Downgrades, Restored
<1>4. CASE u = <<To("refresh"), DowngradeTo(v)>>
  BY <1>4, Tails, Apart, StepsOfUndo DEF Downgrades, Restored
<1>5. CASE u = <<DowngradeTo(v)>>
  BY <1>5, Tails, Apart, StepsOfUndo DEF Downgrades, Restored
<1> QED BY <1>1, <1>2, <1>3, <1>4, <1>5 DEF Downgrades

\* and of one that was left alone.
LEMMA OthersUndo ==
    ASSUME NEW v, NEW u \in Others
    PROVE  /\ u # <<>> => Head(u).step \notin {"uninstall", "downgrade"}
           /\ u = <<>> => u \in Restored(v)
           /\ u # <<>> /\ Head(u).step = "restore" => Tail(u) \in Others \cap Restored(v) /\ u \notin Restored(v)
           /\ u # <<>> /\ Head(u).step = "unregister" => Tail(u) = <<To("restore")>> /\ u \notin Restored(v)
           /\ u # <<>> /\ Head(u).step = "refresh" => u \in Restored(v) /\ Tail(u) = <<>>
<1>1. CASE u = Restore
  BY <1>1, Tails, Apart, StepsOfUndo DEF Others, Restored, Restore
<1>2. CASE u = Remove
  BY <1>2, Tails, Apart, StepsOfUndo DEF Others, Restored, Remove
<1>3. CASE u = <<To("restore")>>
  BY <1>3, Tails, Apart, StepsOfUndo DEF Others, Restored
<1>4. CASE u = <<To("refresh")>>
  BY <1>4, Tails, Apart, StepsOfUndo DEF Others, Restored
<1>5. CASE u = <<>>
  BY <1>5, Tails, Apart, StepsOfUndo DEF Others, Restored
<1> QED BY <1>1, <1>2, <1>3, <1>4, <1>5 DEF Others

LEMMA KindsApart ==
    ASSUME NEW v
    PROVE  /\ Fresh \cap Downgrades(v) = {} /\ Fresh \cap Others = {} /\ Fresh \cap Restored(v) = {}
           /\ Downgrades(v) \cap Others = {}
<1>1. Fresh \cap Downgrades(v) = {}
  <2>1. ASSUME NEW u \in Fresh PROVE u \notin Downgrades(v)
    <3>1. Head(u).step = "uninstall" BY FreshUndo, StepsOfUndo, Zenon
    <3> QED BY <3>1, DowngradesUndo, Zenon
  <2> QED BY <2>1, Zenon
<1>2. Fresh \cap Others = {} BY FreshUndo, OthersUndo, StepsOfUndo, Zenon
<1>3. Fresh \cap Restored(v) = {} BY Apart, SMT DEF Fresh, Restored
<1>4. Downgrades(v) \cap Others = {}
  <2>1. ASSUME NEW u \in Downgrades(v) PROVE u \notin Others
    BY Apart, StepsApart, SMT DEF Downgrades, Others, Restore, Remove
  <2> QED BY <2>1, Zenon
<1> QED BY <1>1, <1>2, <1>3, <1>4

-----------------------------------------------------------------------------
(* The lock admits one installer. *)

LEMMA Locks == ASSUME NEW q \in Installers, NEW b \in BOOLEAN
               PROVE  /\ [owner |-> q, blank |-> b] \in LockFile
                      /\ [owner |-> q, blank |-> b] # None
                      /\ [owner |-> q, blank |-> b].owner = q
                      /\ [owner |-> q, blank |-> b].blank = b
<1>1. [owner |-> q, blank |-> b] \in LockFile BY DEF LockFile
<1> QED BY <1>1, InstallerAssumption

LEMMA Owner ==
    ASSUME LockOK, NEW q \in Installers, Holding(q)
    PROVE  lock # None /\ lock.owner = q /\ lock.owner # None /\ Alive(lock.owner)
<1>1. Held(q) BY DEF LockOK
<1>2. lock = [owner |-> q, blank |-> TRUE] \/ lock = [owner |-> q, blank |-> FALSE]
  BY <1>1 DEF Held, Holding
<1>3. Alive(q) BY DEF Holding, Mutating, Answering, At, Alive
<1>4. lock # None /\ lock.owner = q BY <1>2, Locks
<1>5. q # None BY InstallerAssumption
<1> QED BY <1>3, <1>4, <1>5

LEMMA Alone ==
    ASSUME LockOK, NEW p \in Installers, Holding(p), NEW q \in Installers, q # p
    PROVE  ~Holding(q)
BY Owner

\* Who did not move holds as before.
LEMMA SameHolding ==
    ASSUME NEW q \in Installers, pc'[q] = pc[q], result'[q] = result[q]
    PROVE  /\ Holding(q)' = Holding(q) /\ Mutating(q)' = Mutating(q) /\ Answering(q)' = Answering(q)
           /\ \A s : At(q, s)' = At(q, s)
BY DEF Holding, Mutating, Answering, At

LEMMA NotHolding ==
    ASSUME NEW q \in Installers, ~Holding(q)
    PROVE  Held(q)
BY DEF Held, Holding

\* An installer that changes the directory goes on with its lock, and ends with
\* it or with the directory.
LEMMA LockKept ==
    ASSUME TypeOK, LockOK, NEW p \in Installers, Mutating(p), NEW s \in Steps, Go(p, s),
           \A q \in Installers : q # p => result'[q] = result[q],
           \/ lock' = lock /\ s \notin {"create lock", "write lock", "read holder", "reclaim"}
           \/ s = "release" /\ result'[p] \notin {"failed", "installed"}
    PROVE  LockOK'
<1> SUFFICES ASSUME NEW q \in Installers PROVE Held(q)'
  BY DEF LockOK
<1>1. pc' = [pc EXCEPT ![p] = s] /\ pc \in [Installers -> Steps] BY DEF Go, TypeOK
<1>2. lock = [owner |-> p, blank |-> FALSE] BY DEF LockOK, Held
<1>3. CASE q # p
  <2>1. ~Holding(q) BY <1>3, Alone DEF Holding
  <2>2. pc'[q] = pc[q] /\ result'[q] = result[q] BY <1>1, <1>3
  <2>3. ~Holding(q)' BY <2>1, <2>2, SameHolding
  <2> QED BY <2>3 DEF Held, Holding
<1>4. CASE q = p
  <2>1. pc'[p] = s BY <1>1
  <2> QED BY <1>2, <1>4, <2>1 DEF Held, Mutating, Answering, At
<1> QED BY <1>3, <1>4

\* Whoever tries for the lock, takes it, or gives it back.
LEMMA LockingKeepsLock ==
    ASSUME TypeOK, Looked, LockOK, ~robbed', NEW p \in Installers, Locking(p)
    PROVE  LockOK'
<1> SUFFICES ASSUME NEW q \in Installers PROVE Held(q)'
  BY DEF LockOK
<1>1. pc \in [Installers -> Steps] /\ result \in [Installers -> Results \cup {None}] BY DEF TypeOK
<1>2. Held(p) /\ Held(q) BY DEF LockOK
<1>3. ASSUME q # p PROVE pc'[q] = pc[q] /\ result'[q] = result[q]
  BY <1>1, <1>3 DEF Locking, CreateLock, WriteLock, LockFails, ReadHolder, Reclaim, Release, Go
<1>4. ASSUME q # p, ~Holding(q) PROVE Held(q)'
  <2>1. ~Holding(q)' BY <1>3, <1>4, SameHolding
  <2> QED BY <2>1 DEF Held, Holding
<1>5. ASSUME q # p, lock' = lock PROVE Held(q)'
  BY <1>2, <1>3, <1>5, SameHolding DEF Held
<1>6. CASE CreateLock(p) /\ lock = None
  <2>1. ~Holding(q) BY <1>6, Owner
  <2>2. pc'[p] = "write lock" /\ lock' = [owner |-> p, blank |-> TRUE]
    BY <1>1, <1>6 DEF CreateLock, Go
  <2> QED BY <1>4, <2>1, <2>2 DEF Held, Mutating, Answering, At
<1>7. CASE CreateLock(p) /\ lock # None
  <2>1. pc'[p] = "read holder" /\ lock' = lock BY <1>1, <1>7 DEF CreateLock, Go
  <2> QED BY <1>5, <2>1 DEF Held, Mutating, Answering, At
<1>8. CASE WriteLock(p)
  <2>1. lock = [owner |-> p, blank |-> TRUE] /\ Holding(p)
    BY <1>2, <1>8 DEF WriteLock, Held, Holding
  <2>2. pc'[p] = "begin" /\ lock' = [owner |-> p, blank |-> FALSE]
    BY <1>1, <1>8, <2>1, Locks DEF WriteLock, Go
  <2>3. CASE q = p BY <2>2, <2>3 DEF Held, Mutating, Answering, At
  <2>4. CASE q # p BY <1>4, <2>1, <2>4, Alone
  <2> QED BY <2>3, <2>4
<1>9. CASE LockFails(p) \/ ReadHolder(p)
  <2>1. pc'[p] \in {"done", "reclaim"} /\ lock' = lock
    BY <1>1, <1>9 DEF LockFails, ReadHolder, Go, exclusion
  <2> QED BY <1>5, <2>1 DEF Held, Mutating, Answering, At
<1>10. CASE Reclaim(p)
  <2>1. ~Unseen(p) /\ ~Lives(looked[p]) BY <1>10 DEF Reclaim, Looked
  <2>2. ~(lock # None /\ lock.owner # None /\ Alive(lock.owner)) BY <2>1 DEF Unseen, Lives
  <2>3. ~Holding(q) BY <2>2, Owner
  <2>4. pc'[p] \in {"create lock", "done"} BY <1>1, <1>10 DEF Reclaim, Go
  <2> QED BY <1>4, <2>3, <2>4 DEF Held, Mutating, Answering, At
<1>11. CASE Release(p)
  <2>1. lock = None \/ lock.owner = p BY <1>11 DEF Release
  <2>2. q # p => ~Holding(q) BY <2>1, Owner
  <2>3. pc'[p] = "done" BY <1>1, <1>11 DEF Release, Go
  <2> QED BY <1>4, <2>2, <2>3 DEF Held, Mutating, Answering, At
<1> QED BY <1>6, <1>7, <1>8, <1>9, <1>10, <1>11 DEF Locking

-----------------------------------------------------------------------------
(* Types. *)

LEMMA Commands ==
    ASSUME NEW p \in Installers, command[p] \in Install
    PROVE  /\ Candidate(p) \in Candidates /\ Candidate(p) # None
           /\ Candidate(p).version \in Version /\ Candidate(p).version # None
           /\ Place(p) \in Places /\ command[p].verb = "install"
           /\ [version |-> Candidate(p).version, place |-> Place(p)] \in States \ {None, Corrupt}
<1>1. Candidate(p) \in Candidates /\ Place(p) \in Places /\ command[p].verb = "install"
  BY DEF Install, Candidate, Place
<1>2. Candidate(p).version \in Version BY <1>1 DEF Version
<1>3. [version |-> Candidate(p).version, place |-> Place(p)] \in [version: Version, place: Places]
  BY <1>1, <1>2
<1> QED BY <1>1, <1>2, <1>3, InstallerAssumption DEF States

LEMMA CommandOf ==
    ASSUME TypeOK, NEW p \in Installers, InstallOK(p), pc[p] \in InstallSteps
    PROVE  command[p] \in Install
BY DEF InstallOK, Started

LEMMA LockingTypes ==
    ASSUME TypeOK, Memory, NEW p \in Installers, Locking(p)
    PROVE  TypeOK'
<1>1. UNCHANGED <<command, existed, root, native>>
  BY DEF Locking, CreateLock, WriteLock, LockFails, ReadHolder, Reclaim, Release, memory
<1>2. pc' \in [Installers -> Steps] /\ result' \in [Installers -> Results \cup {None}]
  BY DEF Locking, CreateLock, WriteLock, LockFails, ReadHolder, Reclaim, Release, TypeOK, Go, Steps, Results
<1>3. lock' \in LockFile \cup {None}
  <2>1. CASE CreateLock(p) BY <2>1, Locks DEF CreateLock, TypeOK
  <2>2. CASE WriteLock(p)
    <3>1. CASE lock # None /\ lock.owner = p
      BY <2>2, <3>1 DEF WriteLock, TypeOK, LockFile
    <3> QED BY <2>2, <3>1 DEF WriteLock, TypeOK
  <2>3. CASE LockFails(p) \/ ReadHolder(p) BY <2>3 DEF LockFails, ReadHolder, exclusion, TypeOK
  <2>4. CASE Reclaim(p) \/ Release(p) BY <2>4 DEF Reclaim, Release
  <2> QED BY <2>1, <2>2, <2>3, <2>4 DEF Locking
<1>4. looked' \in [Installers -> LockFile \cup {None}] /\ robbed' \in BOOLEAN
  <2>1. CASE CreateLock(p) \/ WriteLock(p) \/ LockFails(p)
    BY <2>1 DEF CreateLock, WriteLock, LockFails, exclusion, TypeOK
  <2>2. CASE ReadHolder(p) BY <2>2, Zenon DEF ReadHolder, TypeOK
  <2>3. CASE Reclaim(p) BY <2>3, Zenon DEF Reclaim, TypeOK
  <2>4. CASE Release(p) BY <2>4, Zenon DEF Release, TypeOK
  <2> QED BY <2>1, <2>2, <2>3, <2>4 DEF Locking
<1>5. attempt' \in [Installers -> 1..3]
  <2>1. CASE Reclaim(p)
    <3>1. attempt[p] \in 1..3 /\ attempt[p] # 3
      BY <2>1 DEF Reclaim, TypeOK, Memory, NotYet, At
    <3> DEFINE n == attempt[p] + 1
    <3>2. n \in 1..3 BY <3>1
    <3>3. attempt' = [attempt EXCEPT ![p] = n] BY <2>1 DEF Reclaim
    <3> HIDE DEF n
    <3> QED BY <3>2, <3>3 DEF TypeOK
  <2> QED
    BY <2>1 DEF Locking, CreateLock, WriteLock, LockFails, ReadHolder, Release, memory, TypeOK
<1>6. UNCHANGED <<command, existed, state, market, staging, rollback, journal, catalog, plugins>>
  BY <1>1 DEF root, native
<1> QED BY <1>2, <1>3, <1>4, <1>5, <1>6 DEF TypeOK

LEMMA PublishingTypes ==
    ASSUME TypeOK, Asked, NEW p \in Installers, Publishing(p)
    PROVE  TypeOK'
<1>1. CASE RefuseInstall(p)
  BY <1>1 DEF RefuseInstall, Return, TypeOK, At, Go, memory, exclusion, root, native, Steps, Results, States
<1>2. CASE BeginInstall(p)
  BY <1>2 DEF BeginInstall, TypeOK, At, Go, memory, exclusion, root, native, Steps, Results, States
<1>3. CASE Stage(p)
  <2>1. command[p] \in Install
    BY <1>3 DEF Asked, Stage, At, InstallSteps
  <2>2. staging' \in [Installers -> Candidates \cup {None}]
    BY <1>3, <2>1, Commands DEF Stage, TypeOK
  <2>3. pc' \in [Installers -> Steps]
    BY <1>3 DEF Stage, TypeOK, Go, Steps
  <2> QED BY <1>3, <2>2, <2>3 DEF Stage, TypeOK, memory, exclusion, native
<1>4. CASE StageInvalid(p)
  BY <1>4 DEF StageInvalid, Return, TypeOK, At, Go, memory, exclusion, root, native, Steps, Results, States
<1>5. CASE SetAside(p)
  BY <1>5 DEF SetAside, TypeOK, At, Go, memory, exclusion, root, native, Steps, Results, States
<1>6. CASE Publish(p)
  BY <1>6 DEF Publish, TypeOK, At, Go, memory, exclusion, root, native, Steps, Results, States
<1>7. CASE ThrowUncompensated(p)
  BY <1>7 DEF ThrowUncompensated, Return, TypeOK, At, Go, memory, exclusion, root, native, Steps, Results, States
<1> QED BY <1>1, <1>2, <1>3, <1>4, <1>5, <1>6, <1>7 DEF Publishing

LEMMA RegisteringTypes ==
    ASSUME TypeOK, Asked, NEW p \in Installers, Registering(p)
    PROVE  TypeOK'
<1>1. CASE AddMarketplace(p)
  BY <1>1 DEF AddMarketplace, Unwind, Failed, Registered, TypeOK, At, Go, memory, exclusion, root, native, Steps, Results, States
<1>2. CASE UpdateMarketplace(p)
  BY <1>2 DEF UpdateMarketplace, Unwind, Failed, Refreshed, TypeOK, At, Go, memory, exclusion, root, native, Steps, Results, States
<1>3. CASE ListPlugins(p)
  BY <1>3 DEF ListPlugins, Unwind, TypeOK, At, Go, memory, exclusion, root, native, Steps, Results, States
<1>4. CASE InstallPlugin(p)
  BY <1>4 DEF InstallPlugin, Unwind, Failed, PluginInstalled, TypeOK, At, Go, memory, exclusion, root, native, Steps, Results, States
<1>5. CASE UpdatePlugin(p)
  <2>1. catalog' = catalog /\ plugins' \in [Places -> Candidates \cup {None}]
    BY <1>5 DEF UpdatePlugin, Failed, PluginUpdated, TypeOK, native
  <2>2. pc' \in [Installers -> Steps] BY <1>5 DEF UpdatePlugin, Unwind, Go, TypeOK, Steps
  <2>3. UNCHANGED <<memory, result, exclusion, root>> BY <1>5 DEF UpdatePlugin
  <2> QED BY <2>1, <2>2, <2>3 DEF TypeOK, memory, exclusion, root
<1>6. CASE Verify(p)
  BY <1>6 DEF Verify, Unwind, TypeOK, At, Go, memory, exclusion, root, native, Steps, Results, States
<1>7. CASE RecordState(p)
  <2>1. command[p] \in Install
    BY <1>7 DEF Asked, RecordState, At, InstallSteps, Published
  <2>2. state' \in States
    BY <1>7, <2>1, Commands DEF RecordState, TypeOK
  <2>3. pc' \in [Installers -> Steps]
    BY <1>7 DEF RecordState, Unwind, TypeOK, Go, Steps
  <2> QED BY <1>7, <2>2, <2>3 DEF RecordState, TypeOK, memory, exclusion, native
<1>8. CASE Discard(p)
  BY <1>8 DEF Discard, Return, TypeOK, At, Go, memory, exclusion, root, native, Steps, Results, States
<1> QED BY <1>1, <1>2, <1>3, <1>4, <1>5, <1>6, <1>7, <1>8 DEF Registering

LEMMA CompensatingTypes ==
    ASSUME TypeOK, Asked, NEW p \in Installers, Compensating(p)
    PROVE  TypeOK'
<1>1. CASE UndoUninstall(p)
  BY <1>1 DEF UndoUninstall, Undoing, Undone, NotUndone, Return, Failed, PluginUninstalled, TypeOK, At, Go, memory, exclusion, root, native, Steps, Results, States
<1>2. CASE UndoRegistration(p)
  BY <1>2 DEF UndoRegistration, Undoing, Undone, NotUndone, Return, Failed, Unregistered, TypeOK, At, Go, memory, exclusion, root, native, Steps, Results, States
<1>3. CASE RemovePublished(p)
  BY <1>3 DEF RemovePublished, Undoing, NotUndone, Return, TypeOK, At, Go, memory, exclusion, root, native, Steps, Results, States
<1>4. CASE PutBack(p)
  BY <1>4 DEF PutBack, Undone, NotUndone, Return, TypeOK, At, Go, memory, exclusion, root, native, Steps, Results, States
<1>5. CASE UndoRefresh(p)
  BY <1>5 DEF UndoRefresh, Undoing, Undone, NotUndone, Return, Failed, Refreshed, TypeOK, At, Go, memory, exclusion, root, native, Steps, Results, States
<1>6. CASE UndoUpdate(p)
  <2>1. catalog' = catalog /\ plugins' \in [Places -> Candidates \cup {None}]
    BY <1>6 DEF UndoUpdate, Failed, PluginUpdated, TypeOK, native
  <2>2. /\ pc' \in [Installers -> Steps] /\ result' \in [Installers -> Results \cup {None}]
        /\ UNCHANGED <<command, attempt, existed>>
    BY <1>6 DEF UndoUpdate, Undone, NotUndone, Return, Go, TypeOK, Steps, Results, memory
  <2>3. journal' \in BOOLEAN BY <1>6 DEF UndoUpdate, TypeOK
  <2>4. UNCHANGED <<exclusion, state, market, staging, rollback>> BY <1>6 DEF UndoUpdate
  <2> QED BY <2>1, <2>2, <2>3, <2>4 DEF TypeOK, exclusion
<1>7. CASE Compensated(p)
  BY <1>7 DEF Compensated, Return, TypeOK, At, Go, memory, exclusion, root, native, Steps, Results, States
<1> QED BY <1>1, <1>2, <1>3, <1>4, <1>5, <1>6, <1>7 DEF Compensating

LEMMA UninstallingTypes ==
    ASSUME TypeOK, Asked, NEW p \in Installers, Uninstalling(p)
    PROVE  TypeOK'
<1>1. CASE EndUninstall(p)
  BY <1>1 DEF EndUninstall, Return, TypeOK, At, Go, memory, exclusion, root, native, Steps, Results, States
<1>2. CASE BeginUninstall(p)
  BY <1>2 DEF BeginUninstall, TypeOK, At, Go, memory, exclusion, root, native, Steps, Results, States
<1>3. CASE UninstallPlugin(p)
  BY <1>3 DEF UninstallPlugin, Return, Failed, PluginUninstalled, TypeOK, At, Go, memory, exclusion, root, native, Steps, Results, States
<1>4. CASE RemoveMarketplace(p)
  BY <1>4 DEF RemoveMarketplace, Return, Failed, Unregistered, TypeOK, At, Go, memory, exclusion, root, native, Steps, Results, States
<1>5. CASE RemoveSource(p)
  BY <1>5 DEF RemoveSource, Return, TypeOK, At, Go, memory, exclusion, root, native, Steps, Results, States
<1>6. CASE RemoveRest(p)
  <2>1. UNCHANGED <<memory, pc, result, exclusion, native>> BY <1>6 DEF RemoveRest
  <2>2. /\ state' = None /\ market' = None /\ journal' = FALSE
        /\ staging' = [q \in Installers |-> None] /\ rollback' = [q \in Installers |-> None]
    BY <1>6 DEF RemoveRest
  <2> QED BY <2>1, <2>2 DEF TypeOK, memory, exclusion, native, States
<1>7. CASE RemoveLock(p)
  <2>1. UNCHANGED <<memory, looked, root, native>> /\ lock' = None /\ robbed' \in BOOLEAN
    BY <1>7 DEF RemoveLock, TypeOK
  <2>2. pc' \in [Installers -> Steps] /\ result' \in [Installers -> Results \cup {None}]
    BY <1>7 DEF RemoveLock, Return, Go, TypeOK, Steps, Results
  <2> QED BY <2>1, <2>2 DEF TypeOK, memory, root, native
<1>8. CASE EndRemoval(p)
  BY <1>8 DEF EndRemoval, Return, TypeOK, At, Go, memory, exclusion, root, native, Steps, Results, States
<1> QED BY <1>1, <1>2, <1>3, <1>4, <1>5, <1>6, <1>7, <1>8 DEF Uninstalling

-----------------------------------------------------------------------------
(* What each process remembers. *)

LEMMA LockingRemembers ==
    ASSUME TypeOK, Memory, NEW p \in Installers, Locking(p)
    PROVE  Memory'
<1>1. DOMAIN undo' = Installers /\ before' \in [Installers -> Found \cup {None}]
  BY DEF Locking, CreateLock, WriteLock, LockFails, ReadHolder, Reclaim, Release, Memory, TypeOK, Found, memory, root, native, Undone, NotUndone, Failed
<1> SUFFICES ASSUME NEW q \in Installers PROVE NotYet(q)'
  BY <1>1 DEF Memory
<1>2. NotYet(q) /\ NotYet(p) BY DEF Memory
<1>3. CASE CreateLock(p)
  BY <1>2, <1>3 DEF CreateLock, NotYet, TypeOK, At, Go, memory, root
<1>4. CASE WriteLock(p)
  BY <1>2, <1>4 DEF WriteLock, NotYet, TypeOK, At, Go, memory, root
<1>5. CASE ReadHolder(p)
  BY <1>2, <1>5 DEF ReadHolder, NotYet, TypeOK, At, Go, memory, root
<1>6. CASE Reclaim(p)
  <2>1. CASE q # p
    BY <1>2, <1>6, <2>1 DEF Reclaim, NotYet, TypeOK, Go, root
  <2>2. CASE q = p
    <3>1. attempt'[p] = attempt[p] + 1 /\ attempt[p] \in 1..3 /\ pc[p] = "reclaim" /\ rollback' = rollback
      BY <1>6 DEF Reclaim, TypeOK, At, root
    <3>2. CASE attempt[p] = 1
      <4>1. attempt'[p] # 3 BY <3>1, <3>2
      <4>2. pc'[p] = "create lock" /\ result' = result
        BY <1>6, <3>2 DEF Reclaim, TypeOK, Go
      <4>3. result[p] = None /\ rollback[p] = None
        BY <1>2, <3>1 DEF NotYet
      <4> QED BY <2>2, <3>1, <4>1, <4>2, <4>3 DEF NotYet
    <3>3. CASE attempt[p] # 1
      <4>1. pc'[p] = "done" BY <1>6, <3>3 DEF Reclaim, TypeOK, Go
      <4> QED BY <2>2, <4>1 DEF NotYet
    <3> QED BY <3>2, <3>3
  <2> QED BY <2>1, <2>2
<1>7. CASE Release(p)
  BY <1>2, <1>7 DEF Release, NotYet, TypeOK, At, Go, memory, root
<1>8. CASE LockFails(p)
  BY <1>2, <1>8 DEF LockFails, NotYet, TypeOK, At, Go, memory, root
<1> QED BY <1>3, <1>4, <1>5, <1>6, <1>7, <1>8 DEF Locking

LEMMA PublishingRemembers ==
    ASSUME TypeOK, Memory, NEW p \in Installers, Publishing(p)
    PROVE  Memory'
<1>1. DOMAIN undo' = Installers /\ before' \in [Installers -> Found \cup {None}]
  <2>1. CASE BeginInstall(p)
    <3> DEFINE now == [market |-> market, state |-> state, plugins |-> plugins]
    <3>1. now \in Found BY DEF TypeOK, Found
    <3>2. before' = [before EXCEPT ![p] = now] /\ undo' = undo BY <2>1 DEF BeginInstall
    <3> HIDE DEF now
    <3> QED BY <3>1, <3>2 DEF Memory
  <2>2. CASE ~BeginInstall(p)
    <3>1. UNCHANGED before /\ DOMAIN undo' = DOMAIN undo
      BY <2>2 DEF Publishing, RefuseInstall, Stage, StageInvalid, SetAside, Publish, ThrowUncompensated, memory, root, native, Undone, NotUndone, Failed
    <3> QED BY <3>1 DEF Memory
  <2> QED BY <2>1, <2>2
<1> SUFFICES ASSUME NEW q \in Installers PROVE NotYet(q)'
  BY <1>1 DEF Memory
<1>2. NotYet(q) /\ NotYet(p) BY DEF Memory
<1>3. CASE RefuseInstall(p)
  BY <1>2, <1>3 DEF RefuseInstall, Return, NotYet, TypeOK, At, Go, memory, root
<1>4. CASE BeginInstall(p)
  BY <1>2, <1>4 DEF BeginInstall, NotYet, TypeOK, At, Go, memory, root
<1>5. CASE Stage(p)
  BY <1>2, <1>5 DEF Stage, NotYet, TypeOK, At, Go, memory, root
<1>6. CASE StageInvalid(p)
  BY <1>2, <1>6 DEF StageInvalid, Return, NotYet, TypeOK, At, Go, memory, root
<1>7. CASE SetAside(p)
  BY <1>2, <1>7 DEF SetAside, NotYet, TypeOK, At, Go, memory, root
<1>8. CASE Publish(p)
  BY <1>2, <1>8 DEF Publish, NotYet, TypeOK, At, Go, memory, root
<1>9. CASE ThrowUncompensated(p)
  BY <1>2, <1>9 DEF ThrowUncompensated, Return, NotYet, TypeOK, At, Go, memory, root
<1> QED BY <1>3, <1>4, <1>5, <1>6, <1>7, <1>8, <1>9 DEF Publishing

LEMMA RegisteringRemembers ==
    ASSUME TypeOK, Memory, NEW p \in Installers, Registering(p)
    PROVE  Memory'
<1>1. DOMAIN undo' = Installers /\ before' \in [Installers -> Found \cup {None}]
  BY DEF Registering, AddMarketplace, UpdateMarketplace, ListPlugins, InstallPlugin, UpdatePlugin, Verify, RecordState, Discard, Memory, TypeOK, Found, memory, root, native, Undone, NotUndone, Failed
<1> SUFFICES ASSUME NEW q \in Installers PROVE NotYet(q)'
  BY <1>1 DEF Memory
<1>2. NotYet(q) /\ NotYet(p) BY DEF Memory
<1>3. CASE AddMarketplace(p)
  BY <1>2, <1>3 DEF AddMarketplace, Unwind, NotYet, TypeOK, At, Go, memory, root
<1>4. CASE UpdateMarketplace(p)
  BY <1>2, <1>4 DEF UpdateMarketplace, Unwind, NotYet, TypeOK, At, Go, memory, root
<1>5. CASE ListPlugins(p)
  BY <1>2, <1>5 DEF ListPlugins, Unwind, NotYet, TypeOK, At, Go, memory, root
<1>6. CASE InstallPlugin(p)
  BY <1>2, <1>6 DEF InstallPlugin, Unwind, NotYet, TypeOK, At, Go, memory, root
<1>7. CASE UpdatePlugin(p)
  BY <1>2, <1>7 DEF UpdatePlugin, Unwind, NotYet, TypeOK, At, Go, memory, root
<1>8. CASE Verify(p)
  BY <1>2, <1>8 DEF Verify, Unwind, NotYet, TypeOK, At, Go, memory, root
<1>9. CASE RecordState(p)
  BY <1>2, <1>9 DEF RecordState, Unwind, NotYet, TypeOK, At, Go, memory, root
<1>10. CASE Discard(p)
  BY <1>2, <1>10 DEF Discard, Return, NotYet, TypeOK, At, Go, memory, root
<1> QED BY <1>3, <1>4, <1>5, <1>6, <1>7, <1>8, <1>9, <1>10 DEF Registering

LEMMA CompensatingRemembers ==
    ASSUME TypeOK, Memory, NEW p \in Installers, Compensating(p)
    PROVE  Memory'
<1>1. DOMAIN undo' = Installers /\ before' \in [Installers -> Found \cup {None}]
  BY DEF Compensating, UndoUninstall, UndoRegistration, RemovePublished, PutBack, UndoRefresh, UndoUpdate, Compensated, Memory, TypeOK, Found, memory, root, native, Undone, NotUndone, Failed
<1> SUFFICES ASSUME NEW q \in Installers PROVE NotYet(q)'
  BY <1>1 DEF Memory
<1>2. NotYet(q) /\ NotYet(p) BY DEF Memory
<1>3. CASE UndoUninstall(p)
  BY <1>2, <1>3 DEF UndoUninstall, Undoing, Undone, NotUndone, Return, NotYet, TypeOK, At, Go, memory, root
<1>4. CASE UndoRegistration(p)
  BY <1>2, <1>4 DEF UndoRegistration, Undoing, Undone, NotUndone, Return, NotYet, TypeOK, At, Go, memory, root
<1>5. CASE RemovePublished(p)
  BY <1>2, <1>5 DEF RemovePublished, Undoing, NotUndone, Return, NotYet, TypeOK, At, Go, memory, root
<1>6. CASE PutBack(p)
  BY <1>2, <1>6 DEF PutBack, Undone, NotUndone, Return, NotYet, TypeOK, At, Go, memory, root
<1>7. CASE UndoRefresh(p)
  BY <1>2, <1>7 DEF UndoRefresh, Undoing, Undone, NotUndone, Return, NotYet, TypeOK, At, Go, memory, root
<1>8. CASE UndoUpdate(p)
  BY <1>2, <1>8 DEF UndoUpdate, Undoing, Undone, NotUndone, Return, NotYet, TypeOK, At, Go, memory, root
<1>9. CASE Compensated(p)
  BY <1>2, <1>9 DEF Compensated, Return, NotYet, TypeOK, At, Go, memory, root
<1> QED BY <1>3, <1>4, <1>5, <1>6, <1>7, <1>8, <1>9 DEF Compensating

LEMMA UninstallingRemembers ==
    ASSUME TypeOK, Memory, NEW p \in Installers, Uninstalling(p)
    PROVE  Memory'
<1>1. DOMAIN undo' = Installers /\ before' \in [Installers -> Found \cup {None}]
  <2>1. CASE BeginUninstall(p)
    <3> DEFINE now == [market |-> market, state |-> state, plugins |-> plugins]
    <3>1. now \in Found BY DEF TypeOK, Found
    <3>2. before' = [before EXCEPT ![p] = now] /\ undo' = undo BY <2>1 DEF BeginUninstall
    <3> HIDE DEF now
    <3> QED BY <3>1, <3>2 DEF Memory
  <2>2. CASE ~BeginUninstall(p)
    <3>1. UNCHANGED before /\ DOMAIN undo' = DOMAIN undo
      BY <2>2 DEF Uninstalling, EndUninstall, UninstallPlugin, RemoveMarketplace, RemoveSource, RemoveRest, RemoveLock, EndRemoval, memory, root, native, Undone, NotUndone, Failed
    <3> QED BY <3>1 DEF Memory
  <2> QED BY <2>1, <2>2
<1> SUFFICES ASSUME NEW q \in Installers PROVE NotYet(q)'
  BY <1>1 DEF Memory
<1>2. NotYet(q) /\ NotYet(p) BY DEF Memory
<1>3. CASE EndUninstall(p)
  BY <1>2, <1>3 DEF EndUninstall, Return, NotYet, TypeOK, At, Go, memory, root
<1>4. CASE BeginUninstall(p)
  BY <1>2, <1>4 DEF BeginUninstall, NotYet, TypeOK, At, Go, memory, root
<1>5. CASE UninstallPlugin(p)
  BY <1>2, <1>5 DEF UninstallPlugin, Return, NotYet, TypeOK, At, Go, memory, root
<1>6. CASE RemoveMarketplace(p)
  BY <1>2, <1>6 DEF RemoveMarketplace, Return, NotYet, TypeOK, At, Go, memory, root
<1>7. CASE RemoveSource(p)
  BY <1>2, <1>7 DEF RemoveSource, Return, NotYet, TypeOK, At, Go, memory, root
<1>8. CASE RemoveRest(p)
  BY <1>2, <1>8 DEF RemoveRest, NotYet, TypeOK, At, memory
<1>9. CASE RemoveLock(p)
  BY <1>2, <1>9 DEF RemoveLock, Return, NotYet, TypeOK, At, Go, memory, root
<1>10. CASE EndRemoval(p)
  BY <1>2, <1>10 DEF EndRemoval, Return, NotYet, TypeOK, At, Go, memory, root
<1> QED BY <1>3, <1>4, <1>5, <1>6, <1>7, <1>8, <1>9, <1>10 DEF Uninstalling

-----------------------------------------------------------------------------
(* One installer at work, step by step. *)

LEMMA WholeUndo ==
    ASSUME NEW v
    PROVE  {Restore, Remove} \subseteq Others /\ {Restore, Remove} \cap Restored(v) = {}
BY Apart, SMT DEF Restore, Remove, Others, Restored

Quiet(p) == pc[p] \notin InstallSteps \cup UninstallSteps /\ ~Answering(p)

LEMMA Quieted ==
    ASSUME NEW p \in Installers, Quiet(p)'
    PROVE  Doing(p)' /\ Exact(p)' /\ ~Working(p)'
<1>1. pc'[p] \notin InstallSteps \cup UninstallSteps
  BY DEF Quiet
<1>2. pc'[p] = "release" => result'[p] \notin {"failed", "installed"}
  BY DEF Quiet, Answering, At
<1>3. InstallOK(p)'
  BY <1>1, Zenon DEF InstallOK, InstallSteps, Published, Undos, At
<1>4. UninstallOK(p)' BY <1>1 DEF UninstallOK
<1>5. AnswerOK(p)' BY <1>2 DEF AnswerOK, At
<1>6. ~Working(p)' BY <1>1 DEF Working
<1>7. Exact(p)'
  BY <1>1, <1>2, <1>6 DEF Exact, InstallSteps, Published, Undos, At
<1> QED BY <1>3, <1>4, <1>5, <1>6, <1>7 DEF Doing

\* An installer that gives its lock back without having installed or compensated.
LEMMA Answered ==
    ASSUME TypeOK, NEW p \in Installers, NEW r, Return(p, r), r \notin {"failed", "installed"}
    PROVE  Doing(p)' /\ Exact(p)' /\ ~Working(p)' /\ result'[p] = r
<1>1. pc'[p] = "release" /\ result'[p] = r
  BY DEF Return, Go, TypeOK
<1>2. InstallOK(p)'
  BY <1>1 DEF InstallOK, InstallSteps, Published, Undos, At
<1>3. UninstallOK(p)' BY <1>1 DEF UninstallOK, UninstallSteps
<1>4. AnswerOK(p)' BY <1>1 DEF AnswerOK, At
<1>5. ~Working(p)' BY <1>1 DEF Working, InstallSteps, UninstallSteps, Published, Undos
<1>6. Exact(p)'
  BY <1>1, <1>5 DEF Exact, InstallSteps, Published, Undos, At
<1> QED BY <1>1, <1>2, <1>3, <1>4, <1>5, <1>6 DEF Doing

\* What an installer was asked, and found when it began, stays as it is.
LEMMA Kept ==
    ASSUME NEW p \in Installers, command' = command, before' = before
    PROVE  Candidate(p)' = Candidate(p) /\ Place(p)' = Place(p) /\ Previous(p)' = Previous(p)
BY DEF Candidate, Place, Previous, VersionAt

LEMMA BeginInstallOK ==
    ASSUME TypeOK, Memory, NEW p \in Installers, BeginInstall(p)
    PROVE  Doing(p)'
<1> DEFINE now == [market |-> market, state |-> state, plugins |-> plugins]
<1>1. pc'[p] = "stage" /\ command' = command
  BY DEF BeginInstall, Go, TypeOK, memory
<1>2. before'[p] = now
  BY DEF BeginInstall, Memory
<1>3. existed'[p] = (market # None)
  BY DEF BeginInstall, TypeOK
<1>4. market' = market /\ state' = state /\ plugins' = plugins
  BY DEF BeginInstall, root, native
<1>5. now \in Found BY DEF TypeOK, Found
<1>6. command[p] \in Install /\ state # Corrupt
  BY DEF BeginInstall, TypeOK, Install, Uninstall
<1>7. now.state \notin {None, Corrupt} =>
        /\ now.state.place = Place(p)
        /\ now.state.version = Candidate(p).version => now.market = Candidate(p)
  BY DEF BeginInstall, OtherPlace, ChangedUnderVersion, SameVersion, Recorded
<1>8. now.market = market /\ now.state = state /\ now.plugins = plugins OBVIOUS
<1> HIDE DEF now
<1>9. Started(p)'
  BY <1>1, <1>2, <1>3, <1>4, <1>5, <1>6, <1>7, <1>8 DEF Started, At, Candidate, Place
<1>10. InstallOK(p)'
  BY <1>1, <1>2, <1>4, <1>8, <1>9 DEF InstallOK, InstallSteps, Published, Undos, At
<1> QED BY <1>1, <1>10 DEF Doing, UninstallOK, AnswerOK, UninstallSteps, At

LEMMA StageOK ==
    ASSUME TypeOK, NEW p \in Installers, InstallOK(p), Stage(p)
    PROVE  Doing(p)'
<1>1. pc[p] = "stage" /\ pc'[p] = "set aside" /\ staging'[p] = Candidate(p)
  BY DEF Stage, At, Go, TypeOK
<1>2. UNCHANGED <<command, existed, before, market, state, plugins>>
  BY DEF Stage, memory, native
<1>3. Candidate(p)' = Candidate(p) /\ Place(p)' = Place(p)
  BY <1>2 DEF Candidate, Place
<1>4. Started(p)'
  BY <1>1, <1>2, <1>3 DEF InstallOK, InstallSteps, Started, At
<1>5. InstallOK(p)'
  BY <1>1, <1>2, <1>3, <1>4 DEF InstallOK, InstallSteps, Published, Undos, At
<1> QED BY <1>1, <1>5 DEF Doing, UninstallOK, AnswerOK, UninstallSteps, At

LEMMA SetAsideOK ==
    ASSUME TypeOK, NEW p \in Installers, InstallOK(p), SetAside(p)
    PROVE  Doing(p)'
<1>1. pc[p] = "set aside" /\ pc'[p] = "publish"
  BY DEF SetAside, At, Go, TypeOK
<1>2. UNCHANGED <<command, existed, before, state, plugins, staging>>
  BY DEF SetAside, memory, native
<1>3. Candidate(p)' = Candidate(p) /\ Place(p)' = Place(p)
  BY <1>2 DEF Candidate, Place
<1>4. Started(p) /\ market = before[p].market
  BY <1>1 DEF InstallOK, InstallSteps
<1>5. market' = None /\ rollback'[p] = before[p].market
  BY <1>4 DEF SetAside, Started, TypeOK
<1>6. Started(p)'
  BY <1>1, <1>2, <1>3, <1>4 DEF Started, At
<1>7. InstallOK(p)'
  BY <1>1, <1>2, <1>3, <1>5, <1>6 DEF InstallOK, InstallSteps, Published, Undos, At
<1> QED BY <1>1, <1>7 DEF Doing, UninstallOK, AnswerOK, UninstallSteps, At

LEMMA PublishOK ==
    ASSUME TypeOK, Memory, NEW p \in Installers, InstallOK(p), Publish(p)
    PROVE  Doing(p)'
<1>1. pc[p] = "publish" /\ pc'[p] = "add"
  BY DEF Publish, At, Go, TypeOK
<1>2. UNCHANGED <<command, existed, before, state, plugins, rollback>>
  BY DEF Publish, native
<1>3. Candidate(p)' = Candidate(p) /\ Place(p)' = Place(p)
  BY <1>2 DEF Candidate, Place
<1>4. Started(p) /\ staging[p] = Candidate(p) /\ rollback[p] = before[p].market /\ plugins = before[p].plugins
  BY <1>1 DEF InstallOK, InstallSteps
<1>5. market' = Candidate(p) /\ undo'[p] = (IF existed[p] THEN Restore ELSE Remove)
  BY <1>4 DEF Publish, Memory, Restore, Remove
<1>6. Started(p)'
  BY <1>1, <1>2, <1>3, <1>4 DEF Started, At
<1>7. InstallOK(p)'
  BY <1>1, <1>2, <1>3, <1>4, <1>5, <1>6 DEF InstallOK, InstallSteps, Published, Undos, At
<1> QED BY <1>1, <1>7 DEF Doing, UninstallOK, AnswerOK, UninstallSteps, At

\* A step that leaves the directory and the record alone, and of the plugins
\* only the one in its place.
Aside(p) ==
    /\ UNCHANGED <<command, existed, before, state, market, rollback>>
    /\ \A l \in Places : l # Place(p) => plugins'[l] = plugins[l]

LEMMA StartedKept ==
    ASSUME NEW p \in Installers, Started(p), Aside(p), ~At(p, "discard"), ~At(p, "discard")'
    PROVE  Started(p)'
BY DEF Aside, Started, Candidate, Place, At

\* A failure from which the compensations run.
LEMMA UnwindOK ==
    ASSUME TypeOK, NEW p \in Installers, InstallOK(p), pc[p] \in Published \ {"discard"},
           Unwind(p), Aside(p), undo' = undo, PluginUndone(p)'
    PROVE  Doing(p)'
<1>1. pc'[p] = "compensate"
  BY DEF Unwind, Go, TypeOK
<1>2. Started(p)'
  BY <1>1, StartedKept DEF InstallOK, InstallSteps, Published, At
<1>3. Candidate(p)' = Candidate(p) /\ Place(p)' = Place(p) /\ Previous(p)' = Previous(p)
  BY Kept DEF Aside
<1>4. market = Candidate(p) /\ rollback[p] = before[p].market
  BY DEF InstallOK, Published
<1>5. undo[p] \notin Restored(Previous(p))
  <2>1. CASE pc[p] \in {"add", "refresh", "list"}
    BY <2>1, WholeUndo DEF InstallOK
  <2>2. CASE pc[p] \in {"install", "update", "verify", "record"}
    BY <2>2 DEF InstallOK
  <2> QED BY <2>1, <2>2 DEF Published
<1>6. SourceUndone(p)'
  BY <1>1, <1>3, <1>4, <1>5 DEF SourceUndone, Aside, At
<1>7. InstallOK(p)'
  BY <1>1, <1>2, <1>6 DEF InstallOK, InstallSteps, Published, Undos, At
<1> QED BY <1>1, <1>7 DEF Doing, UninstallOK, AnswerOK, UninstallSteps, At

\* Before the plugins are listed, none was touched.
LEMMA Untouched ==
    ASSUME TypeOK, NEW p \in Installers, InstallOK(p), pc[p] \in {"add", "refresh", "list"}
    PROVE  PluginUndone(p) /\ undo[p] \in {Restore, Remove} /\ Current(p) = before[p].plugins[Place(p)]
<1>1. undo[p] \in {Restore, Remove} /\ plugins = before[p].plugins
  BY DEF InstallOK
<1> QED BY <1>1, WholeUndo DEF PluginUndone, Previous, Current

LEMMA UndoneKept ==
    ASSUME NEW p \in Installers, PluginUndone(p), UNCHANGED <<command, before, undo, plugins>>
    PROVE  PluginUndone(p)'
<1>1. Previous(p)' = Previous(p) /\ Place(p)' = Place(p) BY Kept
<1> QED BY <1>1 DEF PluginUndone, VersionAt

LEMMA AddMarketplaceOK ==
    ASSUME TypeOK, NEW p \in Installers, InstallOK(p), AddMarketplace(p)
    PROVE  Doing(p)'
<1>1. pc[p] = "add" /\ UNCHANGED <<command, existed, before, undo, state, market, rollback, plugins>>
  BY DEF AddMarketplace, At, memory, root, Failed, Registered, native
<1>2. Aside(p) BY <1>1 DEF Aside
<1>3. PluginUndone(p)' BY <1>1, Untouched, UndoneKept
<1>4. CASE Unwind(p) BY <1>1, <1>2, <1>3, <1>4, UnwindOK DEF Published
<1>5. CASE Go(p, "refresh")
  <2>1. pc'[p] = "refresh" BY <1>5 DEF Go, TypeOK
  <2>2. Started(p)' BY <1>1, <1>2, <2>1, StartedKept DEF InstallOK, InstallSteps, Published, At
  <2>3. Candidate(p)' = Candidate(p) BY <1>1 DEF Candidate
  <2>4. InstallOK(p)'
    BY <1>1, <2>1, <2>2, <2>3 DEF InstallOK, InstallSteps, Published, Undos, At
  <2> QED BY <2>1, <2>4 DEF Doing, UninstallOK, AnswerOK, UninstallSteps, At
<1> QED BY <1>4, <1>5 DEF AddMarketplace

LEMMA UpdateMarketplaceOK ==
    ASSUME TypeOK, NEW p \in Installers, InstallOK(p), UpdateMarketplace(p)
    PROVE  Doing(p)'
<1>1. pc[p] = "refresh" /\ UNCHANGED <<command, existed, before, undo, state, market, rollback, plugins>>
  BY DEF UpdateMarketplace, At, memory, root, Failed, Refreshed, native
<1>2. Aside(p) BY <1>1 DEF Aside
<1>3. PluginUndone(p)' BY <1>1, Untouched, UndoneKept
<1>4. CASE Unwind(p) BY <1>1, <1>2, <1>3, <1>4, UnwindOK DEF Published
<1>5. CASE Go(p, "list")
  <2>1. pc'[p] = "list" BY <1>5 DEF Go, TypeOK
  <2>2. Started(p)' BY <1>1, <1>2, <2>1, StartedKept DEF InstallOK, InstallSteps, Published, At
  <2>3. Candidate(p)' = Candidate(p) BY <1>1 DEF Candidate
  <2>4. InstallOK(p)'
    BY <1>1, <2>1, <2>2, <2>3 DEF InstallOK, InstallSteps, Published, Undos, At
  <2> QED BY <2>1, <2>4 DEF Doing, UninstallOK, AnswerOK, UninstallSteps, At
<1> QED BY <1>4, <1>5 DEF UpdateMarketplace

LEMMA ListPluginsOK ==
    ASSUME TypeOK, Memory, NEW p \in Installers, InstallOK(p), ListPlugins(p)
    PROVE  Doing(p)'
<1>1. pc[p] = "list" /\ UNCHANGED <<command, existed, before, state, market, rollback, plugins>>
  BY DEF ListPlugins, At, root, native
<1>2. Aside(p) BY <1>1 DEF Aside
<1>3. Started(p) /\ market = Candidate(p) /\ rollback[p] = before[p].market
  BY <1>1 DEF InstallOK, InstallSteps, Published
<1>4. PluginUndone(p) /\ undo[p] \in {Restore, Remove} /\ Current(p) = before[p].plugins[Place(p)]
  BY <1>1, Untouched
<1>5. CASE Unwind(p) /\ undo' = undo
  <2>1. PluginUndone(p)' BY <1>1, <1>4, <1>5, UndoneKept
  <2> QED BY <1>1, <1>2, <1>5, <2>1, UnwindOK DEF Published
<1>6. ASSUME NEW s \in {"install", "update", "verify"}, Go(p, s), PluginUndone(p)',
             s = "install" => undo'[p] \in Fresh,
             s = "update" => undo'[p] \in Downgrades(Previous(p)),
             undo'[p] \notin Restored(Previous(p))
      PROVE  Doing(p)'
  <2>1. pc'[p] = s BY <1>6 DEF Go, TypeOK
  <2>2. Started(p)' BY <1>1, <1>2, <1>3, <2>1, StartedKept DEF At
  <2>3. Candidate(p)' = Candidate(p) /\ Previous(p)' = Previous(p) BY <1>1, Kept
  <2>4. InstallOK(p)'
    BY <1>1, <1>3, <1>6, <2>1, <2>2, <2>3 DEF InstallOK, InstallSteps, Published, Undos, At
  <2> QED BY <2>1, <2>4 DEF Doing, UninstallOK, AnswerOK, UninstallSteps, At
<1>7. CASE Current(p) = None /\ Go(p, "install") /\ undo' = [undo EXCEPT ![p] = <<To("uninstall")>> \o @]
  <2>1. undo'[p] \in Fresh BY <1>4, <1>7, Pushing, Zenon DEF Memory
  <2>2. Previous(p) = None BY <1>4, <1>7 DEF Previous, VersionAt
  <2>3. PluginUndone(p)' BY <1>1, <2>1, <2>2, Kept DEF PluginUndone
  <2>4. undo'[p] \notin Restored(Previous(p)) BY <2>1, KindsApart, Zenon
  <2> QED BY <1>6, <1>7, <2>1, <2>3, <2>4
<1>8. CASE /\ Current(p) # None /\ Current(p).version # Candidate(p).version
           /\ undo' = [undo EXCEPT ![p] = Append(@, DowngradeTo(Current(p).version))]
           /\ Go(p, "update")
  <2>1. Previous(p) = Current(p).version BY <1>4, <1>8 DEF Previous, VersionAt
  <2>2. undo'[p] = Append(undo[p], DowngradeTo(Previous(p)))
    BY <1>8, <2>1, Zenon DEF Memory
  <2>3. undo'[p] \in Downgrades(Previous(p)) \ Restored(Previous(p))
    BY <1>4, <2>2, Pushing, Zenon
  <2>4. Previous(p) # None
    <3>1. Current(p) \in Candidates
      BY <1>3, <1>8, Commands DEF TypeOK, Current, Started
    <3> QED BY <2>1, <3>1, InstallerAssumption DEF Version
  <2>5. PluginUndone(p)' BY <1>1, <2>3, <2>4, Kept DEF PluginUndone
  <2> QED BY <1>6, <1>8, <2>3, <2>5
<1>9. CASE /\ Current(p) # None /\ Current(p).version = Candidate(p).version
           /\ Go(p, "verify") /\ undo' = undo
  <2>1. PluginUndone(p)' BY <1>1, <1>4, <1>9, UndoneKept
  <2>2. undo'[p] \notin Restored(Previous(p)) BY <1>4, <1>9, WholeUndo, Zenon
  <2> QED BY <1>6, <1>9, <2>1, <2>2
<1> QED BY <1>5, <1>7, <1>8, <1>9 DEF ListPlugins

LEMMA InstallPluginOK ==
    ASSUME TypeOK, NEW p \in Installers, InstallOK(p), InstallPlugin(p)
    PROVE  Doing(p)'
<1>1. pc[p] = "install" /\ UNCHANGED <<command, existed, before, undo, state, market, rollback>>
  BY DEF InstallPlugin, At, memory, root
<1>2. \A l \in Places : l # Place(p) => plugins'[l] = plugins[l]
  BY DEF InstallPlugin, Failed, PluginInstalled, native, TypeOK
<1>3. Aside(p) BY <1>1, <1>2 DEF Aside
<1>4. undo[p] \in Fresh /\ PluginUndone(p) /\ undo[p] \notin Restored(Previous(p))
  BY <1>1 DEF InstallOK, At
<1>5. undo[p] \in Fresh /\ Previous(p) = None
  BY <1>4, KindsApart, Zenon DEF PluginUndone
<1>6. Previous(p)' = Previous(p) /\ Candidate(p)' = Candidate(p) BY <1>1, Kept
<1>7. PluginUndone(p)' BY <1>1, <1>5, <1>6 DEF PluginUndone
<1>8. CASE Unwind(p) BY <1>1, <1>3, <1>7, <1>8, UnwindOK DEF Published
<1>9. CASE Go(p, "verify")
  <2>1. pc'[p] = "verify" BY <1>9 DEF Go, TypeOK
  <2>2. Started(p)' BY <1>1, <1>3, <2>1, StartedKept DEF InstallOK, InstallSteps, Published, At
  <2>3. market = Candidate(p) /\ rollback[p] = before[p].market BY <1>1 DEF InstallOK, Published
  <2>4. InstallOK(p)'
    BY <1>1, <1>4, <1>6, <1>7, <2>1, <2>2, <2>3 DEF InstallOK, InstallSteps, Published, Undos, At
  <2> QED BY <2>1, <2>4 DEF Doing, UninstallOK, AnswerOK, UninstallSteps, At
<1> QED BY <1>8, <1>9 DEF InstallPlugin

LEMMA UpdatePluginOK ==
    ASSUME TypeOK, NEW p \in Installers, InstallOK(p), UpdatePlugin(p)
    PROVE  Doing(p)'
<1>1. pc[p] = "update" /\ UNCHANGED <<command, existed, before, undo, state, market, rollback>>
  BY DEF UpdatePlugin, At, memory, root
<1>2. \A l \in Places : l # Place(p) => plugins'[l] = plugins[l]
  BY DEF UpdatePlugin, Failed, PluginUpdated, native, TypeOK
<1>3. Aside(p) BY <1>1, <1>2 DEF Aside
<1>4. undo[p] \in Downgrades(Previous(p)) /\ PluginUndone(p) /\ undo[p] \notin Restored(Previous(p))
  BY <1>1 DEF InstallOK, At
<1>5. undo[p] \in Downgrades(Previous(p)) /\ Previous(p) # None
  BY <1>4, KindsApart, Zenon DEF PluginUndone
<1>6. Previous(p)' = Previous(p) /\ Candidate(p)' = Candidate(p) BY <1>1, Kept
<1>7. PluginUndone(p)' BY <1>1, <1>5, <1>6 DEF PluginUndone
<1>8. CASE Unwind(p) BY <1>1, <1>3, <1>7, <1>8, UnwindOK DEF Published
<1>9. CASE Go(p, "verify")
  <2>1. pc'[p] = "verify" BY <1>9 DEF Go, TypeOK
  <2>2. Started(p)' BY <1>1, <1>3, <2>1, StartedKept DEF InstallOK, InstallSteps, Published, At
  <2>3. market = Candidate(p) /\ rollback[p] = before[p].market BY <1>1 DEF InstallOK, Published
  <2>4. InstallOK(p)'
    BY <1>1, <1>4, <1>6, <1>7, <2>1, <2>2, <2>3 DEF InstallOK, InstallSteps, Published, Undos, At
  <2> QED BY <2>1, <2>4 DEF Doing, UninstallOK, AnswerOK, UninstallSteps, At
<1> QED BY <1>8, <1>9 DEF UpdatePlugin

LEMMA VerifyOK ==
    ASSUME TypeOK, NEW p \in Installers, InstallOK(p), Verify(p)
    PROVE  Doing(p)'
<1>1. pc[p] = "verify" /\ UNCHANGED <<command, existed, before, undo, state, market, rollback, plugins>>
  BY DEF Verify, At, memory, root, native
<1>2. Aside(p) BY <1>1 DEF Aside
<1>3. PluginUndone(p) /\ undo[p] \notin Restored(Previous(p)) BY <1>1 DEF InstallOK
<1>4. PluginUndone(p)' BY <1>1, <1>3, UndoneKept
<1>5. CASE Unwind(p) BY <1>1, <1>2, <1>4, <1>5, UnwindOK DEF Published
<1>6. CASE Go(p, "record") /\ Postcondition(Place(p), Candidate(p).version)
  <2>1. pc'[p] = "record" BY <1>6 DEF Go, TypeOK
  <2>2. Started(p)' BY <1>1, <1>2, <2>1, StartedKept DEF InstallOK, InstallSteps, Published, At
  <2>3. Candidate(p)' = Candidate(p) /\ Previous(p)' = Previous(p) /\ Place(p)' = Place(p)
    BY <1>1, Kept
  <2>4. Postcondition(Place(p), Candidate(p).version)' BY <1>1, <1>6, <2>3 DEF Postcondition
  <2>5. market = Candidate(p) /\ rollback[p] = before[p].market BY <1>1 DEF InstallOK, Published
  <2>6. InstallOK(p)'
    BY <1>1, <1>3, <1>4, <2>1, <2>2, <2>3, <2>4, <2>5
    DEF InstallOK, InstallSteps, Published, Undos, At
  <2> QED BY <2>1, <2>6 DEF Doing, UninstallOK, AnswerOK, UninstallSteps, At
<1> QED BY <1>5, <1>6 DEF Verify

LEMMA RecordStateOK ==
    ASSUME TypeOK, NEW p \in Installers, InstallOK(p), RecordState(p)
    PROVE  Doing(p)'
<1>1. pc[p] = "record" /\ UNCHANGED <<command, existed, before, undo, market, rollback, plugins>>
  BY DEF RecordState, At, memory, native
<1>2. PluginUndone(p) /\ undo[p] \notin Restored(Previous(p)) BY <1>1 DEF InstallOK
<1>3. PluginUndone(p)' BY <1>1, <1>2, UndoneKept
<1>4. CASE Unwind(p) /\ state' = state
  <2>1. Aside(p) BY <1>1, <1>4 DEF Aside
  <2> QED BY <1>1, <1>3, <1>4, <2>1, UnwindOK DEF Published
<1>5. CASE Go(p, "discard") /\ state' = [version |-> Candidate(p).version, place |-> Place(p)]
  <2>1. pc'[p] = "discard" BY <1>5 DEF Go, TypeOK
  <2>2. Candidate(p)' = Candidate(p) /\ Place(p)' = Place(p) BY <1>1, Kept
  <2>3. Started(p) /\ Postcondition(Place(p), Candidate(p).version)
    BY <1>1 DEF InstallOK, InstallSteps, Published
  <2>4. Started(p)' BY <1>1, <1>5, <2>1, <2>2, <2>3 DEF Started, At
  <2>5. Postcondition(Place(p), Candidate(p).version)' BY <1>1, <2>2, <2>3 DEF Postcondition
  <2>6. market = Candidate(p) /\ rollback[p] = before[p].market BY <1>1 DEF InstallOK, Published
  <2>7. InstallOK(p)'
    BY <1>1, <2>1, <2>2, <2>4, <2>5, <2>6 DEF InstallOK, InstallSteps, Published, Undos, At
  <2> QED BY <2>1, <2>7 DEF Doing, UninstallOK, AnswerOK, UninstallSteps, At
<1> QED BY <1>4, <1>5 DEF RecordState

LEMMA DiscardOK ==
    ASSUME TypeOK, NEW p \in Installers, InstallOK(p), Discard(p)
    PROVE  Doing(p)'
<1>1. pc[p] = "discard" /\ UNCHANGED <<command, before, state, market, plugins>>
  BY DEF Discard, At, memory, native
<1>2. CASE Return(p, "threw") BY <1>2, Answered
<1>3. CASE Return(p, "installed")
  <2>1. pc'[p] = "release" /\ result'[p] = "installed" BY <1>3 DEF Return, Go, TypeOK
  <2>2. Started(p) /\ market = Candidate(p) /\ Postcondition(Place(p), Candidate(p).version)
    BY <1>1 DEF InstallOK, InstallSteps, Published
  <2>3. Candidate(p)' = Candidate(p) /\ Place(p)' = Place(p) BY <1>1, Kept
  <2>4. Postcondition(Place(p), Candidate(p).version)' BY <1>1, <2>2, <2>3 DEF Postcondition
  <2>5. command[p] \in Install /\ state = [version |-> Candidate(p).version, place |-> Place(p)]
    BY <1>1, <2>2 DEF Started, At
  <2>6. AnswerOK(p)' BY <1>1, <2>1, <2>2, <2>3, <2>4, <2>5 DEF AnswerOK
  <2> QED
    BY <2>1, <2>6 DEF Doing, UninstallOK, InstallOK, InstallSteps, UninstallSteps, Published, Undos, At
<1> QED BY <1>2, <1>3 DEF Discard

\* A compensation that succeeded, with what is left of them.
LEMMA UndoneOK ==
    ASSUME TypeOK, NEW p \in Installers, InstallOK(p), pc[p] \in Undos, Go(p, "compensate"),
           UNCHANGED <<command, existed, before, state>>,
           \A l \in Places : l # Place(p) => plugins'[l] = plugins[l],
           PluginUndone(p)',
           IF undo'[p] \in Restored(Previous(p)) THEN market' = before[p].market
           ELSE market' = Candidate(p) /\ rollback'[p] = before[p].market
    PROVE  Doing(p)'
<1>1. pc'[p] = "compensate" BY DEF Go, TypeOK
<1>2. Candidate(p)' = Candidate(p) /\ Place(p)' = Place(p) /\ Previous(p)' = Previous(p)
  BY Kept
<1>3. Started(p) BY DEF InstallOK, InstallSteps
<1>4. Started(p)' BY <1>1, <1>2, <1>3 DEF Started, Undos, At
<1>5. SourceUndone(p)' BY <1>1, <1>2 DEF SourceUndone, At
<1>6. InstallOK(p)' BY <1>1, <1>4, <1>5 DEF InstallOK, InstallSteps, Published, Undos, At
<1> QED BY <1>1, <1>6 DEF Doing, UninstallOK, AnswerOK, UninstallSteps, At

LEMMA UndoUninstallOK ==
    ASSUME TypeOK, Memory, NEW p \in Installers, InstallOK(p), UndoUninstall(p)
    PROVE  Doing(p)'
<1>1. CASE Return(p, "journaled") BY <1>1, Answered
<1>2. CASE PluginUninstalled(Place(p)) /\ Undone(p)
  <2>1. pc[p] = "compensate" /\ undo[p] # <<>> /\ Head(undo[p]).step = "uninstall"
    BY DEF UndoUninstall, Undoing, At
  <2>2. PluginUndone(p) /\ SourceUndone(p) /\ Started(p)
    BY <2>1 DEF InstallOK, Undos, InstallSteps
  <2>3. undo[p] \in Fresh /\ Previous(p) = None
    BY <2>1, <2>2, DowngradesUndo, OthersUndo, Zenon DEF PluginUndone
  <2>4. undo'[p] \in {Restore, Remove}
    BY <1>2, <2>3, FreshUndo, Zenon DEF Undone, Memory
  <2>5. undo'[p] \in Others /\ undo'[p] \notin Restored(Previous(p))
    BY <2>4, WholeUndo, Zenon
  <2>6. undo[p] \notin Restored(Previous(p)) BY <2>3, KindsApart, Zenon
  <2>7. market = Candidate(p) /\ rollback[p] = before[p].market
    BY <2>1, <2>2, <2>6 DEF SourceUndone, At
  <2>8. UNCHANGED <<command, existed, before, state, market, rollback>>
    BY <1>2 DEF UndoUninstall, Undone
  <2>9. plugins'[Place(p)] = None /\ \A l \in Places : l # Place(p) => plugins'[l] = plugins[l]
    BY <1>2, <2>2, Commands DEF PluginUninstalled, TypeOK, Started
  <2>10. PluginUndone(p)'
    BY <2>3, <2>5, <2>8, <2>9, Kept DEF PluginUndone, VersionAt
  <2> QED BY <1>2, <2>1, <2>5, <2>7, <2>8, <2>9, <2>10, UndoneOK DEF Undone, Undos
<1> QED BY <1>1, <1>2 DEF UndoUninstall, NotUndone

LEMMA UndoRegistrationOK ==
    ASSUME TypeOK, Memory, NEW p \in Installers, InstallOK(p), UndoRegistration(p)
    PROVE  Doing(p)'
<1>1. CASE Return(p, "journaled") BY <1>1, Answered
<1>2. CASE Unregistered /\ Undone(p)
  <2>1. pc[p] = "compensate" /\ undo[p] # <<>> /\ Head(undo[p]).step = "unregister"
    BY DEF UndoRegistration, Undoing, At
  <2>2. PluginUndone(p) /\ SourceUndone(p)
    BY <2>1 DEF InstallOK, Undos
  <2>3. undo'[p] = Tail(undo[p]) /\ UNCHANGED <<command, existed, before, state, market, rollback, plugins>>
    BY <1>2, Zenon DEF UndoRegistration, Unregistered, Undone, Memory
  <2>4. undo[p] \notin Fresh BY <2>1, FreshUndo, StepsOfUndo
  <2>5. undo[p] \notin Restored(Previous(p))
    BY <2>1, <2>2, <2>4, DowngradesUndo, OthersUndo, Zenon DEF PluginUndone
  <2>6. undo'[p] \notin Restored(Previous(p)) /\ PluginUndone(p)'
    <3>1. CASE undo[p] \in Downgrades(Previous(p)) /\ Previous(p) # None
      <4>1. undo'[p] = <<To("restore"), DowngradeTo(Previous(p))>>
        BY <2>1, <2>3, <3>1, DowngradesUndo, Zenon
      <4>2. undo'[p] \in Downgrades(Previous(p)) /\ undo'[p] \notin Restored(Previous(p))
        BY <4>1, Apart, StepsApart DEF Downgrades, Restored
      <4> QED BY <2>3, <3>1, <4>2, Kept DEF PluginUndone
    <3>2. CASE undo[p] \in Others /\ VersionAt(Place(p), plugins) = Previous(p)
      <4>1. undo'[p] = <<To("restore")>>
        BY <2>1, <2>3, <3>2, OthersUndo, Zenon
      <4>2. undo'[p] \in Others /\ undo'[p] \notin Restored(Previous(p))
        BY <4>1, Apart, StepsApart DEF Others, Restored
      <4> QED BY <2>3, <3>2, <4>2, Kept DEF PluginUndone, VersionAt
    <3> QED BY <2>2, <2>4, <3>1, <3>2 DEF PluginUndone
  <2>7. market = Candidate(p) /\ rollback[p] = before[p].market
    BY <2>1, <2>2, <2>5 DEF SourceUndone, At
  <2> QED BY <1>2, <2>1, <2>3, <2>6, <2>7, UndoneOK DEF Undone, Undos
<1> QED BY <1>1, <1>2 DEF UndoRegistration, NotUndone

\* The first of the two renames that put the previous directory back.
LEMMA RemovePublishedOK ==
    ASSUME TypeOK, NEW p \in Installers, InstallOK(p), RemovePublished(p)
    PROVE  Doing(p)'
<1>1. CASE Return(p, "journaled") BY <1>1, Answered
<1>2. CASE market' = None /\ Go(p, "put back") /\ UNCHANGED memory
  <2>1. pc[p] = "compensate" /\ undo[p] # <<>> /\ Head(undo[p]).step = "restore"
    BY DEF RemovePublished, Undoing, At
  <2>2. PluginUndone(p) /\ SourceUndone(p) /\ Started(p)
    BY <2>1 DEF InstallOK, Undos, InstallSteps
  <2>3. UNCHANGED <<command, existed, before, undo, state, rollback, plugins>>
    BY <1>2 DEF RemovePublished, memory, native
  <2>4. undo[p] \notin Restored(Previous(p))
    <3>1. undo[p] \notin Fresh BY <2>1, FreshUndo, StepsOfUndo
    <3> QED BY <2>1, <2>2, <3>1, DowngradesUndo, OthersUndo, Zenon DEF PluginUndone
  <2>5. rollback[p] = before[p].market BY <2>1, <2>2, <2>4 DEF SourceUndone, At
  <2>6. pc'[p] = "put back" BY <1>2 DEF Go, TypeOK
  <2>7. SourceUndone(p)'
    BY <1>2, <2>1, <2>3, <2>5, <2>6 DEF SourceUndone, At
  <2>8. PluginUndone(p)' BY <2>2, <2>3, UndoneKept
  <2>9. Started(p)'
    BY <2>1, <2>2, <2>3, <2>6 DEF Started, Candidate, Place, At
  <2>10. InstallOK(p)'
    BY <2>6, <2>7, <2>8, <2>9 DEF InstallOK, InstallSteps, Published, Undos, At
  <2> QED BY <2>6, <2>10 DEF Doing, UninstallOK, AnswerOK, UninstallSteps, At
<1> QED BY <1>1, <1>2 DEF RemovePublished, NotUndone

LEMMA PutBackOK ==
    ASSUME TypeOK, Memory, NEW p \in Installers, InstallOK(p), PutBack(p)
    PROVE  Doing(p)'
<1>1. CASE Return(p, "journaled") BY <1>1, Answered
<1>2. CASE /\ market' = IF rollback[p] = None THEN market ELSE rollback[p]
           /\ Undone(p)
  <2>1. pc[p] = "put back" BY DEF PutBack, At
  <2>2. PluginUndone(p) /\ SourceUndone(p)
    BY <2>1 DEF InstallOK, Undos
  <2>3. /\ market = None /\ rollback[p] = before[p].market
        /\ undo[p] # <<>> /\ Head(undo[p]).step = "restore"
    BY <2>1, <2>2 DEF SourceUndone, At
  <2>4. undo'[p] = Tail(undo[p]) /\ UNCHANGED <<command, existed, before, state, plugins>>
    BY <1>2, Zenon DEF PutBack, Undone, Memory, native
  <2>5. market' = before[p].market BY <1>2, <2>3
  <2>6. undo'[p] \in Restored(Previous(p)) /\ PluginUndone(p)'
    <3>1. CASE undo[p] \in Downgrades(Previous(p)) /\ Previous(p) # None
      <4>1. undo'[p] \in Downgrades(Previous(p)) /\ undo'[p] \in Restored(Previous(p))
        BY <2>3, <2>4, <3>1, DowngradesUndo, Zenon
      <4> QED BY <2>4, <3>1, <4>1, Kept DEF PluginUndone
    <3>2. CASE undo[p] \in Others /\ VersionAt(Place(p), plugins) = Previous(p)
      <4>1. undo'[p] \in Others /\ undo'[p] \in Restored(Previous(p))
        BY <2>3, <2>4, <3>2, OthersUndo, Zenon
      <4> QED BY <2>4, <3>2, <4>1, Kept DEF PluginUndone, VersionAt
    <3>3. undo[p] \notin Fresh BY <2>3, FreshUndo, StepsOfUndo
    <3> QED BY <2>2, <3>1, <3>2, <3>3 DEF PluginUndone
  <2> QED BY <1>2, <2>1, <2>4, <2>5, <2>6, UndoneOK DEF Undone, Undos
<1> QED BY <1>1, <1>2 DEF PutBack, NotUndone

LEMMA UndoRefreshOK ==
    ASSUME TypeOK, Memory, NEW p \in Installers, InstallOK(p), UndoRefresh(p)
    PROVE  Doing(p)'
<1>1. CASE Return(p, "journaled") BY <1>1, Answered
<1>2. CASE Refreshed /\ Undone(p)
  <2>1. pc[p] = "compensate" /\ undo[p] # <<>> /\ Head(undo[p]).step = "refresh"
    BY DEF UndoRefresh, Undoing, At
  <2>2. PluginUndone(p) /\ SourceUndone(p)
    BY <2>1 DEF InstallOK, Undos
  <2>3. undo'[p] = Tail(undo[p]) /\ UNCHANGED <<command, existed, before, state, market, rollback, plugins>>
    BY <1>2, Zenon DEF UndoRefresh, Refreshed, Undone, Memory
  <2>4. undo[p] \in Restored(Previous(p)) /\ undo'[p] \in Restored(Previous(p)) /\ PluginUndone(p)'
    <3>1. CASE undo[p] \in Downgrades(Previous(p)) /\ Previous(p) # None
      <4>1. undo[p] \in Restored(Previous(p)) /\ undo'[p] = <<DowngradeTo(Previous(p))>>
        BY <2>1, <2>3, <3>1, DowngradesUndo, Zenon
      <4>2. undo'[p] \in Downgrades(Previous(p)) /\ undo'[p] \in Restored(Previous(p))
        BY <4>1 DEF Downgrades, Restored
      <4> QED BY <2>3, <3>1, <4>1, <4>2, Kept DEF PluginUndone
    <3>2. CASE undo[p] \in Others /\ VersionAt(Place(p), plugins) = Previous(p)
      <4>1. undo[p] \in Restored(Previous(p)) /\ undo'[p] = <<>>
        BY <2>1, <2>3, <3>2, OthersUndo, Zenon
      <4>2. undo'[p] \in Others /\ undo'[p] \in Restored(Previous(p))
        BY <4>1 DEF Others, Restored
      <4> QED BY <2>3, <3>2, <4>1, <4>2, Kept DEF PluginUndone, VersionAt
    <3>3. undo[p] \notin Fresh BY <2>1, FreshUndo, StepsOfUndo
    <3> QED BY <2>2, <3>1, <3>2, <3>3 DEF PluginUndone
  <2>5. market = before[p].market BY <2>1, <2>2, <2>4 DEF SourceUndone, At
  <2> QED BY <1>2, <2>1, <2>3, <2>4, <2>5, UndoneOK DEF Undone, Undos
<1> QED BY <1>1, <1>2 DEF UndoRefresh, NotUndone

LEMMA UndoUpdateOK ==
    ASSUME TypeOK, Memory, NEW p \in Installers, InstallOK(p), UndoUpdate(p)
    PROVE  Doing(p)'
<1>1. CASE Return(p, "journaled") BY <1>1, Answered
<1>2. CASE /\ PluginUpdated(Place(p)) /\ Undone(p)
           /\ plugins'[Place(p)].version = Head(undo[p]).version
  <2>1. pc[p] = "compensate" /\ undo[p] # <<>> /\ Head(undo[p]).step = "downgrade"
    BY DEF UndoUpdate, Undoing, At
  <2>2. PluginUndone(p) /\ SourceUndone(p) /\ Started(p)
    BY <2>1 DEF InstallOK, Undos, InstallSteps
  <2>3. undo'[p] = Tail(undo[p]) /\ UNCHANGED <<command, existed, before, state, market, rollback>>
    BY <1>2, Zenon DEF UndoUpdate, Undone, Memory
  <2>4. undo[p] \in Downgrades(Previous(p)) /\ Previous(p) # None
    <3>1. undo[p] \notin Fresh BY <2>1, FreshUndo, StepsOfUndo
    <3> QED BY <2>1, <2>2, <3>1, OthersUndo, Zenon DEF PluginUndone
  <2>5. /\ undo[p] \in Restored(Previous(p)) /\ undo'[p] = <<>>
        /\ Head(undo[p]) = DowngradeTo(Previous(p))
    BY <2>1, <2>3, <2>4, DowngradesUndo, Zenon
  <2>6. /\ plugins'[Place(p)] # None /\ plugins'[Place(p)].version = Previous(p)
        /\ \A l \in Places : l # Place(p) => plugins'[l] = plugins[l]
    BY <1>2, <2>2, <2>5, StepsOfUndo, Commands DEF PluginUpdated, TypeOK, Started
  <2>7. undo'[p] \in Others /\ undo'[p] \in Restored(Previous(p))
    BY <2>5 DEF Others, Restored
  <2>8. PluginUndone(p)' BY <2>3, <2>6, <2>7, Kept DEF PluginUndone, VersionAt
  <2>9. market = before[p].market BY <2>1, <2>2, <2>5 DEF SourceUndone, At
  <2> QED BY <1>2, <2>1, <2>3, <2>6, <2>7, <2>8, <2>9, UndoneOK DEF Undone, Undos
<1> QED BY <1>1, <1>2 DEF UndoUpdate, NotUndone

LEMMA CompensatedOK ==
    ASSUME TypeOK, NEW p \in Installers, InstallOK(p), Compensated(p)
    PROVE  Doing(p)'
<1>1. pc[p] = "compensate" /\ undo[p] = <<>> /\ UNCHANGED <<command, before, state, market, plugins>>
  BY DEF Compensated, At, memory, native
<1>2. pc'[p] = "release" /\ result'[p] = "failed" BY DEF Compensated, Return, Go, TypeOK
<1>3. PluginUndone(p) /\ SourceUndone(p) /\ Started(p)
  BY <1>1 DEF InstallOK, Undos, InstallSteps
<1>4. undo[p] \notin Fresh /\ undo[p] \notin Downgrades(Previous(p)) /\ undo[p] \in Restored(Previous(p))
  <2>1. undo[p] \in Restored(Previous(p)) BY <1>1 DEF Restored
  <2> QED BY <1>1, <2>1, FreshUndo, DowngradesUndo, Zenon
<1>5. VersionAt(Place(p), plugins) = VersionAt(Place(p), before[p].plugins)
  BY <1>3, <1>4 DEF PluginUndone, Previous
<1>6. \A l \in Places : VersionAt(l, plugins) = VersionAt(l, before[p].plugins)
  BY <1>3, <1>5 DEF Started, VersionAt
<1>7. market = before[p].market /\ state = before[p].state /\ command[p] \in Install
  BY <1>1, <1>3, <1>4 DEF SourceUndone, Started, At
<1>8. AnswerOK(p)' BY <1>1, <1>2, <1>6, <1>7 DEF AnswerOK, VersionAt
<1> QED
  BY <1>2, <1>8 DEF Doing, UninstallOK, InstallOK, InstallSteps, UninstallSteps, Published, Undos, At

LEMMA BeginUninstallOK ==
    ASSUME TypeOK, Memory, NEW p \in Installers, BeginUninstall(p)
    PROVE  Doing(p)'
<1> DEFINE now == [market |-> market, state |-> state, plugins |-> plugins]
<1>1. pc'[p] = "uninstall" /\ UNCHANGED <<command, market, state, plugins>>
  BY DEF BeginUninstall, Go, TypeOK, root, native
<1>2. before'[p] = now BY DEF BeginUninstall, Memory
<1>3. now \in Found BY DEF TypeOK, Found
<1>4. command[p] \in Uninstall /\ Recorded
  BY DEF BeginUninstall, TypeOK, Install, Uninstall
<1>5. now.market = market /\ now.state = state /\ now.plugins = plugins OBVIOUS
<1> HIDE DEF now
<1>6. UninstallOK(p)'
  BY <1>1, <1>2, <1>3, <1>4, <1>5 DEF UninstallOK, Recorded, At
<1> QED
  BY <1>1, <1>6 DEF Doing, InstallOK, AnswerOK, InstallSteps, Published, Undos, At

LEMMA RecordedPlace ==
    ASSUME TypeOK, Recorded
    PROVE  state \in [version: Version, place: Places] /\ state.place \in Places
BY DEF TypeOK, Recorded, States

\* A step from one part of the removal to the next.
LEMMA UninstallingOK ==
    ASSUME TypeOK, NEW p \in Installers, UninstallOK(p), pc[p] \in UninstallSteps,
           NEW s \in UninstallSteps \ {"uninstall"}, Go(p, s),
           UNCHANGED <<command, before>>,
           state' = state \/ (s = "remove root" /\ state' = None),
           state = before[p].state \/ (s = "remove root" /\ state = None),
           \A l \in Places : l # before[p].state.place => plugins'[l] = plugins[l],
           plugins'[before[p].state.place] = None,
           IF s = "remove root" THEN market' = None ELSE market' = before[p].market
    PROVE  Doing(p)'
<1>1. pc'[p] = s BY DEF Go, TypeOK
<1>2. UninstallOK(p)'
  BY <1>1 DEF UninstallOK, UninstallSteps, Recorded, At
<1> QED
  BY <1>1, <1>2 DEF Doing, InstallOK, AnswerOK, InstallSteps, UninstallSteps, Published, Undos, At

LEMMA UninstallPluginOK ==
    ASSUME TypeOK, NEW p \in Installers, UninstallOK(p), UninstallPlugin(p)
    PROVE  Doing(p)'
<1>1. CASE Return(p, "not uninstalled") BY <1>1, Answered
<1>2. CASE PluginUninstalled(before[p].state.place) /\ Go(p, "unregister")
  <2>1. pc[p] = "uninstall" /\ UNCHANGED <<command, before, state, market>>
    BY DEF UninstallPlugin, At, memory, root
  <2>2. state = before[p].state /\ Recorded /\ market = before[p].market
    BY <2>1 DEF UninstallOK, UninstallSteps, Recorded, At
  <2>3. /\ plugins'[before[p].state.place] = None
        /\ \A l \in Places : l # before[p].state.place => plugins'[l] = plugins[l]
    BY <1>2, <2>2, RecordedPlace DEF PluginUninstalled, TypeOK
  <2> QED BY <1>2, <2>1, <2>2, <2>3, UninstallingOK DEF UninstallSteps
<1> QED BY <1>1, <1>2 DEF UninstallPlugin

LEMMA RemoveMarketplaceOK ==
    ASSUME TypeOK, NEW p \in Installers, UninstallOK(p), RemoveMarketplace(p)
    PROVE  Doing(p)'
<1>1. CASE Return(p, "not uninstalled") BY <1>1, Answered
<1>2. CASE Unregistered /\ Go(p, "remove source")
  <2>1. pc[p] = "unregister" /\ UNCHANGED <<command, before, state, market, plugins>>
    BY <1>2 DEF RemoveMarketplace, Unregistered, At, memory, root
  <2>2. plugins[before[p].state.place] = None /\ market = before[p].market /\ state = before[p].state
    BY <2>1 DEF UninstallOK, UninstallSteps, At
  <2> QED BY <1>2, <2>1, <2>2, UninstallingOK DEF UninstallSteps
<1> QED BY <1>1, <1>2 DEF RemoveMarketplace

LEMMA RemoveSourceOK ==
    ASSUME TypeOK, NEW p \in Installers, UninstallOK(p), RemoveSource(p)
    PROVE  Doing(p)'
<1>1. CASE Return(p, "threw") BY <1>1, Answered
<1>2. CASE market' = None /\ Go(p, "remove root")
  <2>1. pc[p] = "remove source" /\ UNCHANGED <<command, before, state, plugins>>
    BY DEF RemoveSource, At, memory, native
  <2>2. plugins[before[p].state.place] = None /\ state = before[p].state
    BY <2>1 DEF UninstallOK, UninstallSteps, At
  <2> QED BY <1>2, <2>1, <2>2, UninstallingOK DEF UninstallSteps
<1> QED BY <1>1, <1>2 DEF RemoveSource

LEMMA RemoveRootOK ==
    ASSUME TypeOK, NEW p \in Installers, UninstallOK(p), RemoveRest(p) \/ RemoveLock(p) \/ EndRemoval(p)
    PROVE  Doing(p)'
<1>1. pc[p] = "remove root" /\ UNCHANGED <<command, before, plugins>>
  BY DEF RemoveRest, RemoveLock, EndRemoval, At, memory, native
<1>2. CASE \E r \in {"uninstalled", "threw"} : Return(p, r) BY <1>2, Answered
<1>3. CASE UNCHANGED pc /\ (state' = state \/ state' = None) /\ (market' = market \/ market' = None)
  <2>1. pc' = [pc EXCEPT ![p] = "remove root"] BY <1>1, <1>3 DEF TypeOK
  <2>2. /\ plugins[before[p].state.place] = None /\ market = None
        /\ state = before[p].state \/ state = None
    BY <1>1 DEF UninstallOK, UninstallSteps, At
  <2> QED BY <1>1, <1>3, <2>1, <2>2, UninstallingOK DEF UninstallSteps, Go
<1> QED BY <1>2, <1>3 DEF RemoveRest, RemoveLock, EndRemoval, root

-----------------------------------------------------------------------------
(* Every step. *)

Actions(p) == Publishing(p) \/ Registering(p) \/ Compensating(p) \/ Uninstalling(p)

\* Whoever changes the directory is inside of the lock, and leaves it last.
KeepsLock(p, s) ==
    \/ lock' = lock /\ s \notin {"create lock", "write lock", "read holder", "reclaim"}
    \/ s = "release" /\ result'[p] \notin {"failed", "installed"}

LEMMA ActionsMutate ==
    ASSUME TypeOK, NEW p \in Installers, Actions(p)
    PROVE  /\ Mutating(p) /\ looked' = looked /\ (robbed => robbed')
           /\ \E s \in Steps : /\ Go(p, s) /\ s # "reclaim"
                               /\ ~robbed' => KeepsLock(p, s)
<1>1. CASE Publishing(p)
  <2>1. CASE RefuseInstall(p)
    BY <2>1 DEF RefuseInstall, Return, KeepsLock, Mutating, At, Steps, exclusion
  <2>2. CASE BeginInstall(p)
    BY <2>2 DEF BeginInstall, KeepsLock, Mutating, At, Steps, exclusion
  <2>3. CASE Stage(p)
    BY <2>3 DEF Stage, KeepsLock, Mutating, At, Steps, exclusion
  <2>4. CASE StageInvalid(p)
    BY <2>4 DEF StageInvalid, Return, KeepsLock, Mutating, At, Steps, exclusion
  <2>5. CASE SetAside(p)
    BY <2>5 DEF SetAside, KeepsLock, Mutating, At, Steps, exclusion
  <2>6. CASE Publish(p)
    BY <2>6 DEF Publish, KeepsLock, Mutating, At, Steps, exclusion
  <2>7. CASE ThrowUncompensated(p)
    BY <2>7 DEF ThrowUncompensated, Return, KeepsLock, Mutating, At, Steps, exclusion
  <2> QED BY <1>1, <2>1, <2>2, <2>3, <2>4, <2>5, <2>6, <2>7 DEF Publishing
<1>2. CASE Registering(p)
  <2>1. CASE AddMarketplace(p)
    BY <2>1 DEF AddMarketplace, Unwind, KeepsLock, Mutating, At, Steps, exclusion
  <2>2. CASE UpdateMarketplace(p)
    BY <2>2 DEF UpdateMarketplace, Unwind, KeepsLock, Mutating, At, Steps, exclusion
  <2>3. CASE ListPlugins(p)
    BY <2>3 DEF ListPlugins, Unwind, KeepsLock, Mutating, At, Steps, exclusion
  <2>4. CASE InstallPlugin(p)
    BY <2>4 DEF InstallPlugin, Unwind, KeepsLock, Mutating, At, Steps, exclusion
  <2>5. CASE UpdatePlugin(p)
    BY <2>5 DEF UpdatePlugin, Unwind, KeepsLock, Mutating, At, Steps, exclusion
  <2>6. CASE Verify(p)
    BY <2>6 DEF Verify, Unwind, KeepsLock, Mutating, At, Steps, exclusion
  <2>7. CASE RecordState(p)
    BY <2>7 DEF RecordState, Unwind, KeepsLock, Mutating, At, Steps, exclusion
  <2>8. CASE Discard(p)
    BY <2>8 DEF Discard, Return, KeepsLock, Mutating, At, Steps, exclusion
  <2> QED BY <1>2, <2>1, <2>2, <2>3, <2>4, <2>5, <2>6, <2>7, <2>8 DEF Registering
<1>3. CASE Compensating(p)
  <2>1. CASE UndoUninstall(p)
    BY <2>1 DEF UndoUninstall, Undoing, Undone, NotUndone, Return, KeepsLock, Mutating, At, Steps, exclusion
  <2>2. CASE UndoRegistration(p)
    BY <2>2 DEF UndoRegistration, Undoing, Undone, NotUndone, Return, KeepsLock, Mutating, At, Steps, exclusion
  <2>3. CASE RemovePublished(p)
    BY <2>3 DEF RemovePublished, Undoing, NotUndone, Return, KeepsLock, Mutating, At, Steps, exclusion
  <2>4. CASE PutBack(p)
    BY <2>4 DEF PutBack, Undone, NotUndone, Return, KeepsLock, Mutating, At, Steps, exclusion
  <2>5. CASE UndoRefresh(p)
    BY <2>5 DEF UndoRefresh, Undoing, Undone, NotUndone, Return, KeepsLock, Mutating, At, Steps, exclusion
  <2>6. CASE UndoUpdate(p)
    BY <2>6 DEF UndoUpdate, Undoing, Undone, NotUndone, Return, KeepsLock, Mutating, At, Steps, exclusion
  <2>7. CASE Compensated(p)
    BY <2>7 DEF Compensated, Return, KeepsLock, Mutating, At, Steps, exclusion
  <2> QED BY <1>3, <2>1, <2>2, <2>3, <2>4, <2>5, <2>6, <2>7 DEF Compensating
<1>4. CASE Uninstalling(p)
  <2>1. CASE EndUninstall(p)
    BY <2>1 DEF EndUninstall, Return, KeepsLock, Mutating, At, Steps, exclusion
  <2>2. CASE BeginUninstall(p)
    BY <2>2 DEF BeginUninstall, KeepsLock, Mutating, At, Steps, exclusion
  <2>3. CASE UninstallPlugin(p)
    BY <2>3 DEF UninstallPlugin, Return, KeepsLock, Mutating, At, Steps, exclusion
  <2>4. CASE RemoveMarketplace(p)
    BY <2>4 DEF RemoveMarketplace, Return, KeepsLock, Mutating, At, Steps, exclusion
  <2>5. CASE RemoveSource(p)
    BY <2>5 DEF RemoveSource, Return, KeepsLock, Mutating, At, Steps, exclusion
  <2>6. CASE RemoveRest(p)
    <3>1. pc' = [pc EXCEPT ![p] = "remove root"] BY <2>6 DEF RemoveRest, At, TypeOK
    <3> QED BY <2>6, <3>1 DEF RemoveRest, KeepsLock, Mutating, At, Go, Steps, exclusion
  <2>7. CASE RemoveLock(p)
    <3>1. pc[p] = "remove root" /\ Mutating(p) /\ looked' = looked /\ (robbed => robbed')
      BY <2>7 DEF RemoveLock, Mutating, At
    <3>2. CASE Emptied
      BY <2>7, <3>1, <3>2 DEF RemoveLock, Return, KeepsLock, TypeOK, Steps
    <3>3. CASE ~Emptied
      <4>1. pc' = [pc EXCEPT ![p] = "remove root"] /\ robbed'
        BY <2>7, <3>1, <3>3 DEF RemoveLock, TypeOK
      <4> QED BY <3>1, <4>1 DEF Go, Steps
    <3> QED BY <3>2, <3>3
  <2>8. CASE EndRemoval(p)
    BY <2>8 DEF EndRemoval, Return, KeepsLock, Mutating, At, Steps, exclusion
  <2> QED BY <1>4, <2>1, <2>2, <2>3, <2>4, <2>5, <2>6, <2>7, <2>8 DEF Uninstalling
<1> QED BY <1>1, <1>2, <1>3, <1>4 DEF Actions

LEMMA OwnStep ==
    ASSUME TypeOK, Memory, NEW p \in Installers, Doing(p), Actions(p)
    PROVE  Doing(p)'
<1>1. InstallOK(p) /\ UninstallOK(p) BY DEF Doing
<1>2. CASE Publishing(p)
  <2>1. CASE RefuseInstall(p) BY <2>1, Answered DEF RefuseInstall
  <2>2. CASE StageInvalid(p) BY <2>2, Answered DEF StageInvalid
  <2>3. CASE ThrowUncompensated(p) BY <2>3, Answered DEF ThrowUncompensated
  <2> QED
    BY <1>1, <1>2, <2>1, <2>2, <2>3, BeginInstallOK, StageOK, SetAsideOK, PublishOK DEF Publishing
<1>3. CASE Registering(p)
  BY <1>1, <1>3, AddMarketplaceOK, UpdateMarketplaceOK, ListPluginsOK, InstallPluginOK,
     UpdatePluginOK, VerifyOK, RecordStateOK, DiscardOK DEF Registering
<1>4. CASE Compensating(p)
  BY <1>1, <1>4, UndoUninstallOK, UndoRegistrationOK, RemovePublishedOK, PutBackOK, UndoRefreshOK,
     UndoUpdateOK, CompensatedOK DEF Compensating
<1>5. CASE Uninstalling(p)
  <2>1. CASE EndUninstall(p) BY <2>1, Answered DEF EndUninstall
  <2>2. CASE RemoveRest(p) \/ RemoveLock(p) \/ EndRemoval(p) BY <1>1, <2>2, RemoveRootOK
  <2> QED
    BY <1>1, <1>5, <2>1, <2>2, BeginUninstallOK, UninstallPluginOK, RemoveMarketplaceOK, RemoveSourceOK
    DEF Uninstalling
<1> QED BY <1>2, <1>3, <1>4, <1>5 DEF Actions

LEMMA OwnAnswer ==
    ASSUME TypeOK, NEW p \in Installers, Actions(p), NEW q \in Installers, q # p
    PROVE  result'[q] = result[q]
<1>1. CASE Publishing(p)
  BY <1>1 DEF Publishing, RefuseInstall, BeginInstall, Stage, StageInvalid, SetAside, Publish, ThrowUncompensated, Return, TypeOK
<1>2. CASE Registering(p)
  BY <1>2 DEF Registering, AddMarketplace, UpdateMarketplace, ListPlugins, InstallPlugin, UpdatePlugin, Verify, RecordState, Discard, Return, TypeOK, memory
<1>3. CASE Compensating(p)
  BY <1>3 DEF Compensating, UndoUninstall, UndoRegistration, RemovePublished, PutBack, UndoRefresh, UndoUpdate, Compensated, Return, Undone, NotUndone, TypeOK
<1>4. CASE Uninstalling(p)
  BY <1>4 DEF Uninstalling, EndUninstall, BeginUninstall, UninstallPlugin, RemoveMarketplace, RemoveSource, RemoveRest, RemoveLock, EndRemoval, Return, TypeOK
<1> QED BY <1>1, <1>2, <1>3, <1>4 DEF Actions

\* Who was asked what, and who looked at what.
LEMMA ActionsAsk ==
    ASSUME TypeOK, Asked, NEW p \in Installers, Actions(p)
    PROVE  Asked'
<1>1. command' = command
  BY DEF Actions, Publishing, RefuseInstall, BeginInstall, Stage, StageInvalid, SetAside, Publish,
     ThrowUncompensated, Registering, AddMarketplace, UpdateMarketplace, ListPlugins, InstallPlugin,
     UpdatePlugin, Verify, RecordState, Discard, Compensating, UndoUninstall, UndoRegistration,
     RemovePublished, PutBack, UndoRefresh, UndoUpdate, Compensated, Undone, NotUndone, Uninstalling,
     EndUninstall, BeginUninstall, UninstallPlugin, RemoveMarketplace, RemoveSource, RemoveRest,
     RemoveLock, EndRemoval, memory
<1>2. \A q \in Installers : q # p => pc'[q] = pc[q] BY ActionsMutate DEF Go, TypeOK
<1>3. ASSUME pc'[p] \in InstallSteps PROVE command[p] \in Install
  <2>1. CASE pc[p] \in InstallSteps BY <2>1 DEF Asked
  <2>2. CASE BeginInstall(p) BY <2>2 DEF BeginInstall, TypeOK, Install, Uninstall
  <2>3. CASE Publishing(p) /\ ~BeginInstall(p)
    BY <1>3, <2>1, <2>3 DEF Publishing, RefuseInstall, Stage, StageInvalid, SetAside, Publish,
       ThrowUncompensated, Return, Go, At, TypeOK, InstallSteps, Published, Undos
  <2>4. CASE Registering(p) \/ Compensating(p)
    <3>1. pc[p] \in InstallSteps
      BY <2>4 DEF Registering, AddMarketplace, UpdateMarketplace, ListPlugins, InstallPlugin,
         UpdatePlugin, Verify, RecordState, Discard, Compensating, UndoUninstall, UndoRegistration,
         RemovePublished, PutBack, UndoRefresh, UndoUpdate, Compensated, Undoing, At, InstallSteps,
         Published, Undos
    <3> QED BY <2>1, <3>1
  <2>5. CASE Uninstalling(p)
    BY <1>3, <2>5 DEF Uninstalling, EndUninstall, BeginUninstall, UninstallPlugin, RemoveMarketplace,
       RemoveSource, RemoveRest, RemoveLock, EndRemoval, Return, Go, At, TypeOK, InstallSteps,
       Published, Undos
  <2> QED BY <2>2, <2>3, <2>4, <2>5 DEF Actions
<1> QED BY <1>1, <1>2, <1>3 DEF Asked

LEMMA ActionsLook ==
    ASSUME TypeOK, Looked, NEW p \in Installers, Actions(p)
    PROVE  Looked'
<1> SUFFICES ASSUME NEW q \in Installers, At(q, "reclaim")' PROVE ~Lives(looked[q])'
  BY DEF Looked
<1>1. PICK s \in Steps : Go(p, s) /\ s # "reclaim" BY ActionsMutate
<1>2. looked' = looked /\ pc' = [pc EXCEPT ![p] = s] /\ Alive(p)
  BY <1>1, ActionsMutate DEF Go, Mutating, Alive
<1>3. q # p /\ At(q, "reclaim") BY <1>1, <1>2 DEF At, TypeOK
<1>4. ~Lives(looked[q]) BY <1>3 DEF Looked
<1>5. \A r \in Installers : Alive(r)' => Alive(r) BY <1>2 DEF Alive, TypeOK
<1>6. looked[q] # None => looked[q].owner \in Installers \cup {None} BY DEF TypeOK, LockFile
<1> QED BY <1>2, <1>4, <1>5, <1>6 DEF Lives

\* Meanwhile nobody else does anything,
LEMMA OthersQuiet ==
    ASSUME TypeOK, LockOK, NEW p \in Installers, Actions(p), NEW q \in Installers, q # p
    PROVE  Quiet(q) /\ Quiet(q)' /\ pc'[q] = pc[q]
<1>1. ~Holding(q) BY Alone, ActionsMutate DEF Holding
<1>2. pc'[q] = pc[q] /\ result'[q] = result[q] BY ActionsMutate, OwnAnswer DEF Go, TypeOK
<1>3. ~Mutating(q) /\ ~Answering(q) BY <1>1 DEF Holding
<1>4. Quiet(q)
  BY <1>3 DEF Quiet, Mutating, InstallSteps, UninstallSteps, Published, Undos
<1> QED BY <1>2, <1>4 DEF Quiet, Answering, At

\* and whoever only looks for the lock, or dies, leaves everybody to what they do.
Waiting(p) == Locking(p) \/ Die(p)

LEMMA WaitingLeaves ==
    ASSUME TypeOK, NEW p \in Installers, Waiting(p)
    PROVE  /\ UNCHANGED <<command, existed, undo, before, root, native>>
           /\ Quiet(p)'
           /\ \A q \in Installers : q # p => pc'[q] = pc[q] /\ result'[q] = result[q]
<1> USE DEF Go, TypeOK, memory
<1>1. SUFFICES /\ UNCHANGED <<command, existed, undo, before, root, native>>
               /\ pc'[p] \in {"write lock", "begin", "read holder", "reclaim", "create lock", "done", "dead"}
               /\ \A q \in Installers : q # p => pc'[q] = pc[q] /\ result'[q] = result[q]
  BY <1>1 DEF Quiet, Answering, At, InstallSteps, UninstallSteps, Published, Undos
<1>2. CASE CreateLock(p)
  BY <1>2 DEF CreateLock
<1>3. CASE WriteLock(p)
  BY <1>3 DEF WriteLock
<1>4. CASE LockFails(p)
  BY <1>4 DEF LockFails
<1>5. CASE ReadHolder(p)
  BY <1>5 DEF ReadHolder
<1>6. CASE Reclaim(p)
  BY <1>6 DEF Reclaim
<1>7. CASE Release(p)
  BY <1>7 DEF Release
<1>8. CASE Die(p)
  BY <1>8 DEF Die
<1> QED BY <1>2, <1>3, <1>4, <1>5, <1>6, <1>7, <1>8, Zenon DEF Waiting, Locking

\* What an installer is doing depends on nothing else.
LEMMA SameDoing ==
    ASSUME NEW q \in Installers, pc'[q] = pc[q], result'[q] = result[q],
           UNCHANGED <<command, existed, undo, before, root, native>>
    PROVE  Doing(q)' = Doing(q) /\ Exact(q)' = Exact(q) /\ Working(q)' = Working(q)
<1>1. /\ Candidate(q)' = Candidate(q) /\ Place(q)' = Place(q) /\ Previous(q)' = Previous(q)
      /\ state' = state /\ market' = market /\ staging' = staging /\ rollback' = rollback
      /\ catalog' = catalog /\ plugins' = plugins
  BY Kept DEF root, native
<1>2. /\ Started(q)' = Started(q) /\ Working(q)' = Working(q) /\ SourceUndone(q)' = SourceUndone(q)
      /\ PluginUndone(q)' = PluginUndone(q)
  BY <1>1 DEF Started, Working, SourceUndone, PluginUndone, VersionAt, At
<1>3. Upgraded(q)' = Upgraded(q)
  BY <1>1 DEF Upgraded
<1>4. InstallOK(q)' = InstallOK(q)
  BY <1>1, <1>2 DEF InstallOK, Postcondition, At
<1>5. UninstallOK(q)' = UninstallOK(q)
  BY <1>1 DEF UninstallOK, Recorded, At
<1>6. AnswerOK(q)' = AnswerOK(q)
  BY <1>1 DEF AnswerOK, Postcondition, VersionAt, At
<1>7. Exact(q)' = Exact(q)
  BY <1>1, <1>2, <1>3 DEF Exact, Consistent, At
<1> QED BY <1>2, <1>4, <1>5, <1>6, <1>7 DEF Doing

-----------------------------------------------------------------------------
(* Builds, step by step. *)

Builds(p) == Exact(p) /\ (~Working(p) => Consistent(market, state, plugins))

\* A plugin that an installer found came from the directory that it found.
LEMMA FoundBuild ==
    ASSUME TypeOK, NEW p \in Installers, Started(p), Exact(p), Working(p),
           before[p].plugins[Place(p)] # None
    PROVE  /\ before[p].market = before[p].plugins[Place(p)]
           /\ before[p].market.version = before[p].state.version
           /\ before[p].market.version = Candidate(p).version => before[p].market = Candidate(p)
<1>1. Consistent(before[p].market, before[p].state, before[p].plugins) BY DEF Exact
<1>2. before[p].state # Corrupt /\ Place(p) \in Places BY Commands DEF Started
<1> QED BY <1>1, <1>2 DEF Consistent, Started

LEMMA NowDisturbed ==
    ASSUME TypeOK, NEW p \in Installers, NEW r \in {"journaled", "threw"}, Return(p, r)
    PROVE  Disturbed'
<1>1. result'[p] = r BY DEF Return, TypeOK
<1> QED BY <1>1 DEF Disturbed

\* A command that ends with nothing changed, or before it changed anything.
LEMMA RefusedBuilds ==
    ASSUME TypeOK, NEW p \in Installers, Builds(p), ~Working(p), NEW r, Return(p, r),
           r \notin {"failed", "installed"}, UNCHANGED <<market, state, plugins>>
    PROVE  Builds(p)'
BY Answered DEF Builds, Consistent

LEMMA BeginBuilds ==
    ASSUME TypeOK, Memory, NEW p \in Installers, Builds(p), BeginInstall(p) \/ BeginUninstall(p)
    PROVE  Builds(p)'
<1> DEFINE now == [market |-> market, state |-> state, plugins |-> plugins]
<1>1. pc[p] = "begin" BY DEF BeginInstall, BeginUninstall, At
<1>2. PICK s \in {"stage", "uninstall"} : Go(p, s) BY DEF BeginInstall, BeginUninstall
<1>3. pc'[p] = s BY <1>2 DEF Go, TypeOK
<1>4. before'[p] = now BY DEF BeginInstall, BeginUninstall, Memory
<1>5. Consistent(market, state, plugins)
  BY <1>1 DEF Builds, Working, InstallSteps, UninstallSteps, Published, Undos
<1>6. now.market = market /\ now.state = state /\ now.plugins = plugins OBVIOUS
<1> HIDE DEF now
<1>7. Consistent(before[p].market, before[p].state, before[p].plugins)'
  BY <1>4, <1>5, <1>6 DEF Consistent
<1>8. Working(p)' BY <1>3 DEF Working, InstallSteps, UninstallSteps
<1>9. Exact(p)' BY <1>3, <1>7 DEF Exact, Undos, At
<1> QED BY <1>8, <1>9 DEF Builds

\* A step on the way, of which the builds ask nothing.
LEMMA OnTheWay ==
    ASSUME TypeOK, NEW p \in Installers, Exact(p), Working(p),
           NEW s \in {"set aside", "publish", "add", "refresh"} \cup UninstallSteps, Go(p, s),
           before' = before
    PROVE  Builds(p)'
<1>1. pc'[p] = s BY DEF Go, TypeOK
<1>2. Working(p)' BY <1>1 DEF Working, InstallSteps, Published
<1>3. Exact(p)' BY <1>1 DEF Exact, Working, Consistent, UninstallSteps, Undos, At
<1> QED BY <1>2, <1>3 DEF Builds

\* From the list of plugins on, the builds are followed.
LEMMA Followed ==
    ASSUME TypeOK, NEW p \in Installers, Exact(p), Working(p), command' = command, before' = before,
           NEW s \in {"list", "install", "update", "verify", "record", "discard"} \cup Undos, Go(p, s),
           s \in {"list", "install", "update"} => catalog' = Candidate(p),
           s = "install" => plugins'[Place(p)] = None,
           s = "update" => plugins'[Place(p)] = before[p].plugins[Place(p)],
           s \in {"verify", "record", "discard"} => plugins'[Place(p)] = Candidate(p),
           s \in {"update", "verify", "record"} \cup Undos /\ undo'[p] \in Downgrades(Previous(p)) =>
             Upgraded(p)',
           s \in {"verify", "record"} \cup Undos /\ undo'[p] \in Others => plugins' = before[p].plugins
    PROVE  Builds(p)'
<1>1. pc'[p] = s BY DEF Go, TypeOK
<1>2. Working(p)' BY <1>1 DEF Working, InstallSteps, Published, Undos
<1>3. Candidate(p)' = Candidate(p) /\ Place(p)' = Place(p) /\ Previous(p)' = Previous(p) BY Kept
<1>4. Consistent(before[p].market, before[p].state, before[p].plugins)'
  BY DEF Exact, Consistent
<1>5. Exact(p)' BY <1>1, <1>3, <1>4 DEF Exact, Undos, At
<1> QED BY <1>2, <1>5 DEF Builds

LEMMA AddMarketplaceBuilds ==
    ASSUME TypeOK, NEW p \in Installers, InstallOK(p), Exact(p), AddMarketplace(p)
    PROVE  Builds(p)'
<1>1. pc[p] = "add" /\ UNCHANGED <<command, undo, before, plugins>>
  BY DEF AddMarketplace, At, memory, Failed, Registered, native
<1>2. Working(p) BY <1>1 DEF Working, InstallSteps, Published
<1>3. undo[p] \in {Restore, Remove} /\ plugins = before[p].plugins BY <1>1 DEF InstallOK
<1>4. CASE Go(p, "refresh") BY <1>1, <1>2, <1>4, OnTheWay
<1>5. CASE Unwind(p)
  <2>1. undo[p] \notin Downgrades(Previous(p)) BY <1>3, WholeUndo, KindsApart, Zenon
  <2> QED BY <1>1, <1>2, <1>3, <1>5, <2>1, Followed DEF Unwind, Undos
<1> QED BY <1>4, <1>5 DEF AddMarketplace

LEMMA UpdateMarketplaceBuilds ==
    ASSUME TypeOK, NEW p \in Installers, InstallOK(p), Exact(p), UpdateMarketplace(p)
    PROVE  Builds(p)'
<1>1. pc[p] = "refresh" /\ UNCHANGED <<command, undo, before, plugins, market>>
  BY DEF UpdateMarketplace, At, memory, root, Failed, Refreshed, native
<1>2. Working(p) BY <1>1 DEF Working, InstallSteps, Published
<1>3. undo[p] \in {Restore, Remove} /\ plugins = before[p].plugins /\ market = Candidate(p)
  BY <1>1 DEF InstallOK, Published
<1>4. CASE Refreshed /\ Go(p, "list") BY <1>1, <1>2, <1>3, <1>4, Followed DEF Refreshed, Undos
<1>5. CASE Unwind(p)
  <2>1. undo[p] \notin Downgrades(Previous(p)) BY <1>3, WholeUndo, KindsApart, Zenon
  <2> QED BY <1>1, <1>2, <1>3, <1>5, <2>1, Followed DEF Unwind, Undos
<1> QED BY <1>4, <1>5 DEF UpdateMarketplace

LEMMA ListPluginsBuilds ==
    ASSUME TypeOK, Memory, NEW p \in Installers, InstallOK(p), Exact(p), ListPlugins(p)
    PROVE  Builds(p)'
<1>1. pc[p] = "list" /\ UNCHANGED <<command, existed, before, plugins, catalog>>
  BY DEF ListPlugins, At, native
<1>2. Working(p) /\ catalog = Candidate(p)
  BY <1>1 DEF Working, InstallSteps, Published, Exact
<1>3. /\ undo[p] = (IF existed[p] THEN Restore ELSE Remove)
      /\ plugins = before[p].plugins /\ Started(p)
  BY <1>1 DEF InstallOK, InstallSteps, Published
<1>4. Current(p) = before[p].plugins[Place(p)] /\ Current(p) = plugins[Place(p)]
  BY <1>3 DEF Current
<1>5. CASE Current(p) = None /\ Go(p, "install")
  BY <1>1, <1>2, <1>4, <1>5, Followed DEF Undos
<1>6. CASE /\ Current(p) # None /\ Current(p).version # Candidate(p).version
           /\ undo' = [undo EXCEPT ![p] = Append(@, DowngradeTo(Current(p).version))]
           /\ Go(p, "update")
  <2>1. Previous(p) = Current(p).version BY <1>4, <1>6 DEF Previous, VersionAt
  <2>2. undo'[p] = Append(undo[p], DowngradeTo(Previous(p)))
    BY <1>6, <2>1, Zenon DEF Memory
  <2>3. undo'[p] = (IF existed[p] THEN <<To("restore"), To("refresh"), DowngradeTo(Previous(p))>>
                    ELSE <<To("unregister"), To("restore"), DowngradeTo(Previous(p))>>)
    BY <1>3, <2>2, Appended, Zenon DEF Restore, Remove
  <2>4. existed[p] => undo'[p] # <<To("unregister"), To("restore"), DowngradeTo(Previous(p))>>
    BY <2>3, Apart, StepsApart
  <2>5. undo'[p] \notin {<<To("restore"), DowngradeTo(Previous(p))>>, <<DowngradeTo(Previous(p))>>}
    BY <2>3, Apart
  <2>6. ~existed[p] => before[p].market = None BY <1>3 DEF Started
  <2>7. Candidate(p)' = Candidate(p) /\ Place(p)' = Place(p) /\ Previous(p)' = Previous(p)
    BY <1>1, Kept
  <2>8. Upgraded(p)'
    BY <1>1, <1>4, <1>6, <2>1, <2>4, <2>5, <2>6, <2>7 DEF Upgraded
  <2> QED BY <1>1, <1>2, <1>4, <1>6, <2>8, Followed DEF Undos
<1>7. CASE /\ Current(p) # None /\ Current(p).version = Candidate(p).version
           /\ Go(p, "verify") /\ undo' = undo
  <2>1. Current(p) = Candidate(p) BY <1>2, <1>3, <1>4, <1>7, FoundBuild
  <2>2. undo[p] \notin Downgrades(Previous(p)) BY <1>3, WholeUndo, KindsApart, Zenon
  <2> QED BY <1>1, <1>2, <1>3, <1>4, <1>7, <2>1, <2>2, Followed DEF Undos
<1>8. CASE Unwind(p) /\ undo' = undo
  <2>1. undo[p] \notin Downgrades(Previous(p)) BY <1>3, WholeUndo, KindsApart, Zenon
  <2> QED BY <1>1, <1>2, <1>3, <1>8, <2>1, Followed DEF Unwind, Undos
<1> QED BY <1>5, <1>6, <1>7, <1>8 DEF ListPlugins

LEMMA InstallPluginBuilds ==
    ASSUME TypeOK, NEW p \in Installers, InstallOK(p), Exact(p), InstallPlugin(p)
    PROVE  Builds(p)'
<1>1. pc[p] = "install" /\ UNCHANGED <<command, undo, before, catalog>>
  BY DEF InstallPlugin, At, memory, Failed, PluginInstalled, native
<1>2. Working(p) /\ catalog = Candidate(p) /\ undo[p] \in Fresh
  BY <1>1 DEF Working, InstallSteps, Published, Exact, InstallOK, At
<1>3. undo[p] \notin Downgrades(Previous(p)) /\ undo[p] \notin Others
  BY <1>2, KindsApart, Zenon
<1>4. CASE Unwind(p) BY <1>1, <1>2, <1>3, <1>4, Followed DEF Unwind, Undos
<1>5. CASE PluginInstalled(Place(p)) /\ Go(p, "verify")
  <2>1. Place(p) \in Places
    BY <1>1, CommandOf, Commands DEF InstallSteps, Published
  <2>2. plugins'[Place(p)] = Candidate(p) BY <1>2, <1>5, <2>1 DEF PluginInstalled, TypeOK
  <2> QED BY <1>1, <1>2, <1>3, <1>5, <2>2, Followed DEF Undos
<1> QED BY <1>4, <1>5 DEF InstallPlugin

LEMMA UpdatePluginBuilds ==
    ASSUME TypeOK, NEW p \in Installers, InstallOK(p), Exact(p), UpdatePlugin(p)
    PROVE  Builds(p)'
<1>1. pc[p] = "update" /\ UNCHANGED <<command, undo, before, catalog>>
  BY DEF UpdatePlugin, At, memory, Failed, PluginUpdated, native
<1>2. /\ Working(p) /\ catalog = Candidate(p) /\ undo[p] \in Downgrades(Previous(p))
      /\ plugins[Place(p)] = before[p].plugins[Place(p)]
  BY <1>1 DEF Working, InstallSteps, Published, Exact, InstallOK, At
<1>3. Upgraded(p) /\ PluginUndone(p)
  BY <1>1, <1>2 DEF Exact, InstallOK
<1>4. undo[p] \notin Others /\ Previous(p) # None
  BY <1>2, <1>3, KindsApart, Zenon DEF PluginUndone
<1>5. plugins[Place(p)].version = Previous(p) /\ Previous(p) # Candidate(p).version
  BY <1>2, <1>3, <1>4 DEF Previous, VersionAt, Upgraded
<1>6. Place(p) \in Places
  BY <1>1, CommandOf, Commands DEF InstallSteps, Published
<1>7. PluginUpdated(Place(p)) => plugins'[Place(p)] = Candidate(p)
  BY <1>2, <1>5, <1>6 DEF PluginUpdated, TypeOK
<1>8. Candidate(p)' = Candidate(p) /\ Place(p)' = Place(p) /\ Previous(p)' = Previous(p)
  BY <1>1, Kept
<1>9. ASSUME plugins'[Place(p)] \in {before[p].plugins[Place(p)], Candidate(p)} PROVE Upgraded(p)'
  BY <1>1, <1>3, <1>8, <1>9 DEF Upgraded
<1>10. CASE Unwind(p) /\ Failed(PluginUpdated(Place(p)))
  <2>1. plugins'[Place(p)] \in {before[p].plugins[Place(p)], Candidate(p)}
    BY <1>2, <1>7, <1>10 DEF Failed, native
  <2> QED BY <1>1, <1>2, <1>4, <1>9, <1>10, <2>1, Followed DEF Unwind, Undos
<1>11. CASE PluginUpdated(Place(p)) /\ Go(p, "verify")
  BY <1>1, <1>2, <1>4, <1>7, <1>9, <1>11, Followed DEF Undos
<1> QED BY <1>10, <1>11 DEF UpdatePlugin

LEMMA UpgradedKept ==
    ASSUME NEW p \in Installers, Upgraded(p), UNCHANGED <<command, before, undo, plugins, catalog>>
    PROVE  Upgraded(p)'
BY Kept DEF Upgraded

LEMMA VerifyBuilds ==
    ASSUME TypeOK, NEW p \in Installers, Exact(p), Verify(p)
    PROVE  Builds(p)'
<1>1. pc[p] = "verify" /\ UNCHANGED <<command, before, undo, plugins, catalog>>
  BY DEF Verify, At, memory, native
<1>2. Working(p) /\ plugins[Place(p)] = Candidate(p)
  BY <1>1 DEF Working, InstallSteps, Published, Exact
<1>3. undo[p] \in Downgrades(Previous(p)) => Upgraded(p)' BY <1>1, UpgradedKept DEF Exact
<1>4. undo[p] \in Others => plugins = before[p].plugins BY <1>1 DEF Exact
<1>5. PICK s \in {"record", "compensate"} : Go(p, s) BY DEF Verify, Unwind
<1> QED BY <1>1, <1>2, <1>3, <1>4, <1>5, Followed DEF Undos

LEMMA RecordStateBuilds ==
    ASSUME TypeOK, NEW p \in Installers, Exact(p), RecordState(p)
    PROVE  Builds(p)'
<1>1. pc[p] = "record" /\ UNCHANGED <<command, before, undo, plugins, catalog>>
  BY DEF RecordState, At, memory, native
<1>2. Working(p) /\ plugins[Place(p)] = Candidate(p)
  BY <1>1 DEF Working, InstallSteps, Published, Exact
<1>3. undo[p] \in Downgrades(Previous(p)) => Upgraded(p)' BY <1>1, UpgradedKept DEF Exact
<1>4. undo[p] \in Others => plugins = before[p].plugins BY <1>1 DEF Exact
<1>5. PICK s \in {"discard", "compensate"} : Go(p, s) BY DEF RecordState, Unwind
<1> QED BY <1>1, <1>2, <1>3, <1>4, <1>5, Followed DEF Undos

LEMMA DiscardBuilds ==
    ASSUME TypeOK, NEW p \in Installers, InstallOK(p), Exact(p), Discard(p), ~Disturbed'
    PROVE  Builds(p)'
<1>1. pc[p] = "discard" /\ UNCHANGED <<command, before, state, market, plugins>>
  BY DEF Discard, At, memory, native
<1>2. Return(p, "installed") BY NowDisturbed DEF Discard
<1>3. pc'[p] = "release" /\ result'[p] = "installed" BY <1>2 DEF Return, Go, TypeOK
<1>4. Started(p) /\ market = Candidate(p) BY <1>1 DEF InstallOK, InstallSteps, Published
<1>5. /\ state = [version |-> Candidate(p).version, place |-> Place(p)]
      /\ state \notin {None, Corrupt} /\ market # None
  BY <1>1, <1>4, Commands DEF Started, At
<1>6. plugins[Place(p)] = Candidate(p) /\ Working(p)
  BY <1>1 DEF Exact, Working, InstallSteps, Published
<1>7. ASSUME NEW l \in Places, plugins[l] # None PROVE l = Place(p)
  <2>1. SUFFICES ASSUME l # Place(p) PROVE FALSE OBVIOUS
  <2>2. before[p].plugins[l] # None /\ before[p].state # Corrupt
    BY <1>4, <1>7, <2>1 DEF Started
  <2>3. Consistent(before[p].market, before[p].state, before[p].plugins) BY <1>6 DEF Exact
  <2>4. before[p].state \notin {None, Corrupt} /\ l = before[p].state.place
    BY <2>2, <2>3 DEF Consistent
  <2> QED BY <1>4, <2>1, <2>4 DEF Started
<1>8. Consistent(market, state, plugins)
  BY <1>4, <1>5, <1>6, <1>7 DEF Consistent
<1>9. Consistent(market, state, plugins)' BY <1>1, <1>8 DEF Consistent
<1>10. Exact(p)'
  BY <1>1, <1>3, <1>6, Kept DEF Exact, Working, InstallSteps, UninstallSteps, Published, Undos, At
<1> QED BY <1>9, <1>10 DEF Builds

\* Compensations, of which one that fails disturbs.
LEMMA UndoUninstallBuilds ==
    ASSUME TypeOK, Memory, NEW p \in Installers, InstallOK(p), Exact(p), UndoUninstall(p), ~Disturbed'
    PROVE  Builds(p)'
<1>1. PluginUninstalled(Place(p)) /\ Undone(p) BY NowDisturbed DEF UndoUninstall, NotUndone
<1>2. pc[p] = "compensate" /\ undo[p] # <<>> /\ Head(undo[p]).step = "uninstall"
  BY DEF UndoUninstall, Undoing, At
<1>3. PluginUndone(p) /\ Started(p) /\ Working(p)
  BY <1>2 DEF InstallOK, Undos, InstallSteps, Working
<1>4. undo[p] \in Fresh /\ Previous(p) = None
  BY <1>2, <1>3, DowngradesUndo, OthersUndo, Zenon DEF PluginUndone
<1>5. undo'[p] \in {Restore, Remove}
  BY <1>1, <1>4, FreshUndo, Zenon DEF Undone, Memory
<1>6. undo'[p] \notin Downgrades(Previous(p)) BY <1>5, WholeUndo, KindsApart, Zenon
<1>7. before[p].plugins \in [Places -> Candidates \cup {None}] /\ Place(p) \in Places
  BY <1>3, Commands DEF Started, Found
<1>8. before[p].plugins[Place(p)] = None
  <2>1. ASSUME before[p].plugins[Place(p)] # None PROVE FALSE
    <3>1. before[p].plugins[Place(p)] \in Candidates /\ before[p].plugins[Place(p)].version = None
      BY <1>4, <1>7, <2>1 DEF Previous, VersionAt
    <3> QED BY <3>1, InstallerAssumption DEF Version
  <2> QED BY <2>1
<1>9. plugins' = [plugins EXCEPT ![Place(p)] = None] BY <1>1 DEF PluginUninstalled
<1>10. plugins' = before[p].plugins
  <2>1. \A l \in Places : plugins'[l] = before[p].plugins[l]
    BY <1>3, <1>7, <1>8, <1>9 DEF TypeOK, Started
  <2>2. plugins' \in [Places -> Candidates \cup {None}] BY <1>9 DEF TypeOK
  <2> QED BY <1>7, <2>1, <2>2
<1> QED BY <1>1, <1>3, <1>6, <1>10, Followed DEF Undone, Undos

LEMMA UndoRegistrationBuilds ==
    ASSUME TypeOK, Memory, NEW p \in Installers, InstallOK(p), Exact(p), UndoRegistration(p), ~Disturbed'
    PROVE  Builds(p)'
<1>1. Unregistered /\ Undone(p) BY NowDisturbed DEF UndoRegistration, NotUndone
<1>2. pc[p] = "compensate" /\ undo[p] # <<>> /\ Head(undo[p]).step = "unregister"
  BY DEF UndoRegistration, Undoing, At
<1>3. PluginUndone(p) /\ Working(p)
  BY <1>2 DEF InstallOK, Undos, InstallSteps, Working
<1>4. undo'[p] = Tail(undo[p]) /\ UNCHANGED <<command, before, plugins>> /\ catalog' = None
  BY <1>1, Zenon DEF Unregistered, Undone, Memory
<1>5. undo[p] \notin Fresh BY <1>2, FreshUndo, StepsOfUndo
<1>6. CASE undo[p] \in Downgrades(Previous(p))
  <2>1. /\ undo[p] = <<To("unregister"), To("restore"), DowngradeTo(Previous(p))>>
        /\ undo'[p] = <<To("restore"), DowngradeTo(Previous(p))>>
    BY <1>2, <1>4, <1>6, DowngradesUndo, Zenon
  <2>2. Upgraded(p) BY <1>2, <1>6 DEF Exact, Undos
  <2>3. before[p].market = None BY <2>1, <2>2 DEF Upgraded
  <2>4. undo'[p] # <<To("unregister"), To("restore"), DowngradeTo(Previous(p))>> BY <2>1, Apart
  <2>5. Upgraded(p)' BY <1>4, <2>2, <2>3, <2>4, Kept DEF Upgraded
  <2>6. undo'[p] \notin Others
    <3>1. undo'[p] \in Downgrades(Previous(p)) BY <2>1 DEF Downgrades
    <3> QED BY <3>1, KindsApart, Zenon
  <2> QED BY <1>1, <1>3, <1>4, <2>5, <2>6, Followed DEF Undone, Undos
<1>7. CASE undo[p] \in Others
  <2>1. undo'[p] = <<To("restore")>> BY <1>2, <1>4, <1>7, OthersUndo, Zenon
  <2>2. undo'[p] \notin Downgrades(Previous(p))
    <3>1. undo'[p] \in Others BY <2>1 DEF Others
    <3> QED BY <3>1, KindsApart, Zenon
  <2>3. plugins = before[p].plugins BY <1>2, <1>7 DEF Exact, Undos
  <2> QED BY <1>1, <1>3, <1>4, <2>2, <2>3, Followed DEF Undone, Undos
<1> QED BY <1>3, <1>5, <1>6, <1>7 DEF PluginUndone

LEMMA RemovePublishedBuilds ==
    ASSUME TypeOK, NEW p \in Installers, Exact(p), RemovePublished(p), ~Disturbed'
    PROVE  Builds(p)'
<1>1. Go(p, "put back") /\ UNCHANGED <<command, before, undo, plugins, catalog>>
  BY NowDisturbed DEF RemovePublished, NotUndone, memory, native
<1>2. pc[p] = "compensate" BY DEF RemovePublished, Undoing, At
<1>3. Working(p) BY <1>2 DEF Undos, InstallSteps, Working
<1>4. undo[p] \in Downgrades(Previous(p)) => Upgraded(p)'
  BY <1>1, <1>2, UpgradedKept DEF Exact, Undos
<1>5. undo[p] \in Others => plugins = before[p].plugins BY <1>2 DEF Exact, Undos
<1> QED BY <1>1, <1>3, <1>4, <1>5, Followed DEF Undos

LEMMA PutBackBuilds ==
    ASSUME TypeOK, Memory, NEW p \in Installers, InstallOK(p), Exact(p), PutBack(p), ~Disturbed'
    PROVE  Builds(p)'
<1>1. Undone(p) BY NowDisturbed DEF PutBack, NotUndone
<1>2. pc[p] = "put back" BY DEF PutBack, At
<1>3. PluginUndone(p) /\ SourceUndone(p) /\ Working(p)
  BY <1>2 DEF InstallOK, Undos, InstallSteps, Working
<1>4. undo[p] # <<>> /\ Head(undo[p]).step = "restore" BY <1>2, <1>3 DEF SourceUndone, At
<1>5. undo'[p] = Tail(undo[p]) /\ UNCHANGED <<command, before, plugins, catalog>>
  BY <1>1, Zenon DEF PutBack, native, Undone, Memory
<1>6. undo[p] \notin Fresh BY <1>4, FreshUndo, StepsOfUndo
<1>7. CASE undo[p] \in Downgrades(Previous(p))
  <2>1. /\ undo'[p] \in Restored(Previous(p)) /\ undo'[p] \in Downgrades(Previous(p))
        /\ undo'[p] = <<DowngradeTo(Previous(p))>> =>
             undo[p] = <<To("restore"), DowngradeTo(Previous(p))>>
    <3> DEFINE u == undo[p]  t == undo'[p]  v == Previous(p)
    <3>1. u \in Downgrades(v) /\ Head(u).step = "restore" /\ t = Tail(u) BY <1>4, <1>5, <1>7
    <3> HIDE DEF u, t, v
    <3>2. /\ t \in Restored(v) /\ t \in Downgrades(v)
          /\ t = <<DowngradeTo(v)>> => u = <<To("restore"), DowngradeTo(v)>>
      BY <3>1, DowngradesUndo
    <3> QED BY <3>2 DEF u, t, v
  <2>2. Upgraded(p) BY <1>2, <1>7 DEF Exact, Undos
  <2>3. /\ undo'[p] # <<To("unregister"), To("restore"), DowngradeTo(Previous(p))>>
        /\ undo'[p] # <<To("restore"), DowngradeTo(Previous(p))>>
    BY <2>1, Apart, StepsApart DEF Restored
  <2>4. Upgraded(p)' BY <1>5, <2>1, <2>2, <2>3, Kept DEF Upgraded
  <2>5. undo'[p] \notin Others BY <2>1, KindsApart, Zenon
  <2> QED BY <1>1, <1>3, <1>5, <2>4, <2>5, Followed DEF Undone, Undos
<1>8. CASE undo[p] \in Others
  <2>1. undo'[p] \in Others BY <1>4, <1>5, <1>8, OthersUndo, Zenon
  <2>2. undo'[p] \notin Downgrades(Previous(p)) BY <2>1, KindsApart, Zenon
  <2>3. plugins = before[p].plugins BY <1>2, <1>8 DEF Exact, Undos
  <2> QED BY <1>1, <1>3, <1>5, <2>2, <2>3, Followed DEF Undone, Undos
<1> QED BY <1>3, <1>6, <1>7, <1>8 DEF PluginUndone

LEMMA UndoRefreshBuilds ==
    ASSUME TypeOK, Memory, NEW p \in Installers, InstallOK(p), Exact(p), UndoRefresh(p), ~Disturbed'
    PROVE  Builds(p)'
<1>1. Refreshed /\ Undone(p) BY NowDisturbed DEF UndoRefresh, NotUndone
<1>2. pc[p] = "compensate" /\ undo[p] # <<>> /\ Head(undo[p]).step = "refresh"
  BY DEF UndoRefresh, Undoing, At
<1>3. PluginUndone(p) /\ SourceUndone(p) /\ Working(p)
  BY <1>2 DEF InstallOK, Undos, InstallSteps, Working
<1>4. undo'[p] = Tail(undo[p]) /\ UNCHANGED <<command, before, plugins>> /\ catalog' = market
  BY <1>1, Zenon DEF Refreshed, Undone, Memory
<1>5. undo[p] \notin Fresh BY <1>2, FreshUndo, StepsOfUndo
<1>6. CASE undo[p] \in Downgrades(Previous(p))
  <2>1. undo[p] \in Restored(Previous(p)) /\ undo'[p] = <<DowngradeTo(Previous(p))>>
    BY <1>2, <1>4, <1>6, DowngradesUndo, Zenon
  <2>2. Upgraded(p) BY <1>2, <1>6 DEF Exact, Undos
  <2>3. market = before[p].market BY <1>2, <1>3, <2>1 DEF SourceUndone, At
  <2>4. undo'[p] # <<To("unregister"), To("restore"), DowngradeTo(Previous(p))>> BY <2>1, Apart
  <2>5. Upgraded(p)' BY <1>4, <2>2, <2>3, <2>4, Kept DEF Upgraded
  <2>6. undo'[p] \notin Others
    <3>1. undo'[p] \in Downgrades(Previous(p)) BY <2>1 DEF Downgrades
    <3> QED BY <3>1, KindsApart, Zenon
  <2> QED BY <1>1, <1>3, <1>4, <2>5, <2>6, Followed DEF Undone, Undos
<1>7. CASE undo[p] \in Others
  <2>1. undo'[p] = <<>> BY <1>2, <1>4, <1>7, OthersUndo, Zenon
  <2>2. undo'[p] \notin Downgrades(Previous(p)) BY <2>1, DowngradesUndo, Zenon
  <2>3. plugins = before[p].plugins BY <1>2, <1>7 DEF Exact, Undos
  <2> QED BY <1>1, <1>3, <1>4, <2>2, <2>3, Followed DEF Undone, Undos
<1> QED BY <1>3, <1>5, <1>6, <1>7 DEF PluginUndone

LEMMA UndoUpdateBuilds ==
    ASSUME TypeOK, Memory, NEW p \in Installers, InstallOK(p), Exact(p), UndoUpdate(p), ~Disturbed'
    PROVE  Builds(p)'
<1>1. /\ PluginUpdated(Place(p)) /\ Undone(p)
      /\ plugins'[Place(p)].version = Head(undo[p]).version
  BY NowDisturbed DEF UndoUpdate, NotUndone
<1>2. pc[p] = "compensate" /\ undo[p] # <<>> /\ Head(undo[p]).step = "downgrade"
  BY DEF UndoUpdate, Undoing, At
<1>3. PluginUndone(p) /\ Started(p) /\ Working(p)
  BY <1>2 DEF InstallOK, Undos, InstallSteps, Working
<1>4. undo'[p] = Tail(undo[p]) /\ UNCHANGED <<command, before, catalog>>
  BY <1>1, Zenon DEF PluginUpdated, Undone, Memory
<1>5. undo[p] \in Downgrades(Previous(p)) /\ Previous(p) # None
  <2>1. undo[p] \notin Fresh BY <1>2, FreshUndo, StepsOfUndo
  <2> QED BY <1>2, <1>3, <2>1, OthersUndo, Zenon DEF PluginUndone
<1>6. /\ undo[p] = <<DowngradeTo(Previous(p))>> /\ undo'[p] = <<>>
      /\ Head(undo[p]).version = Previous(p)
  <2>1. undo[p] = <<DowngradeTo(Previous(p))>> /\ undo'[p] = <<>> /\ Head(undo[p]) = DowngradeTo(Previous(p))
    BY <1>2, <1>4, <1>5, DowngradesUndo, Zenon
  <2> QED BY <2>1, StepsOfUndo
<1>7. Upgraded(p) BY <1>2, <1>5 DEF Exact, Undos
<1>8. catalog = before[p].market /\ Previous(p) # Candidate(p).version BY <1>6, <1>7 DEF Upgraded
<1>9. before[p].plugins[Place(p)] # None /\ before[p].plugins[Place(p)].version = Previous(p)
  BY <1>5 DEF Previous, VersionAt
<1>10. before[p].market = before[p].plugins[Place(p)] BY <1>3, <1>9, FoundBuild
<1>11. before[p].plugins \in [Places -> Candidates \cup {None}] /\ Place(p) \in Places
  BY <1>3, Commands DEF Started, Found
<1>12. plugins'[Place(p)] \in {plugins[Place(p)], catalog} BY <1>1, <1>11 DEF PluginUpdated, TypeOK
<1>13. plugins'[Place(p)] = before[p].plugins[Place(p)]
  BY <1>1, <1>6, <1>7, <1>8, <1>10, <1>12 DEF Upgraded
<1>14. plugins' = before[p].plugins
  <2>1. \A l \in Places : plugins'[l] = before[p].plugins[l]
    BY <1>1, <1>3, <1>11, <1>13 DEF TypeOK, Started, PluginUpdated
  <2>2. plugins' \in [Places -> Candidates \cup {None}] BY <1>1 DEF TypeOK, PluginUpdated
  <2> QED BY <1>11, <2>1, <2>2
<1>15. undo'[p] \notin Downgrades(Previous(p)) BY <1>6, DowngradesUndo, Zenon
<1> QED BY <1>1, <1>3, <1>4, <1>14, <1>15, Followed DEF Undone, Undos

LEMMA CompensatedBuilds ==
    ASSUME TypeOK, NEW p \in Installers, InstallOK(p), Exact(p), Compensated(p)
    PROVE  Builds(p)'
<1>1. pc[p] = "compensate" /\ undo[p] = <<>> /\ UNCHANGED <<before, state, market, plugins>>
  BY DEF Compensated, At, memory, native
<1>2. pc'[p] = "release" /\ result'[p] = "failed" BY DEF Compensated, Return, Go, TypeOK
<1>3. SourceUndone(p) /\ Started(p) /\ Working(p)
  BY <1>1 DEF InstallOK, Undos, InstallSteps, Working
<1>4. undo[p] \in Others /\ undo[p] \in Restored(Previous(p)) BY <1>1 DEF Others, Restored
<1>5. /\ market = before[p].market /\ state = before[p].state /\ plugins = before[p].plugins
      /\ Consistent(before[p].market, before[p].state, before[p].plugins)
  BY <1>1, <1>3, <1>4 DEF SourceUndone, Started, Exact, Undos, At
<1>6. Consistent(market, state, plugins)' BY <1>1, <1>5 DEF Consistent
<1>7. Exact(p)'
  BY <1>2 DEF Exact, Working, InstallSteps, UninstallSteps, Published, Undos, At
<1> QED BY <1>6, <1>7 DEF Builds

\* Uninstalling.
LEMMA UninstalledBuilds ==
    ASSUME TypeOK, NEW p \in Installers, UninstallOK(p), Exact(p),
           \/ UninstallPlugin(p) \/ RemoveMarketplace(p) \/ RemoveSource(p)
           \/ RemoveRest(p) \/ RemoveLock(p) \/ EndRemoval(p),
           ~Disturbed'
    PROVE  Builds(p)'
<1>1. pc[p] \in UninstallSteps /\ Working(p) /\ before' = before
  BY DEF UninstallPlugin, RemoveMarketplace, RemoveSource, RemoveRest, RemoveLock, EndRemoval,
     UninstallSteps, Working, At, memory
<1>2. /\ before[p].state \notin {None, Corrupt}
      /\ Consistent(before[p].market, before[p].state, before[p].plugins)
      /\ \A l \in Places : l # before[p].state.place => plugins[l] = before[p].plugins[l]
  BY <1>1 DEF UninstallOK, Exact
<1>3. \A l \in Places : plugins[l] # None /\ l # before[p].state.place => FALSE
  BY <1>2 DEF Consistent
<1>4. CASE \E s \in UninstallSteps : Go(p, s) BY <1>1, <1>4, OnTheWay
<1>5. CASE /\ Return(p, "not uninstalled") /\ ~At(p, "remove source") /\ ~At(p, "remove root")
           /\ UNCHANGED <<state, market>>
           /\ \A l \in Places : plugins'[l] \in {plugins[l], None}
  <2>1. /\ market = before[p].market /\ state = before[p].state
        /\ At(p, "uninstall") => plugins[state.place] = before[p].plugins[state.place]
        /\ ~At(p, "uninstall") => plugins[state.place] = None
    BY <1>1, <1>5 DEF UninstallOK
  <2>2. market # None /\ market.version = state.version /\ state \notin {None, Corrupt}
    BY <1>2, <2>1 DEF Consistent
  <2>3. \A l \in Places : plugins[l] # None => l = state.place /\ plugins[l] = market
    BY <1>2, <1>3, <2>1 DEF Consistent
  <2>4. Consistent(market, state, plugins)' BY <1>5, <2>2, <2>3 DEF Consistent
  <2> QED BY <1>5, <2>4, Answered DEF Builds
<1>6. CASE /\ At(p, "remove root") /\ Emptied /\ Return(p, "uninstalled")
           /\ UNCHANGED <<state, market, plugins>>
  <2>1. plugins[before[p].state.place] = None BY <1>1, <1>6 DEF UninstallOK, At
  <2>2. \A l \in Places : plugins[l] = None BY <1>3, <2>1
  <2>3. Consistent(market, state, plugins)' BY <1>6, <2>2 DEF Consistent, Emptied
  <2> QED BY <1>6, <2>3, Answered DEF Builds
<1>7. CASE UninstallPlugin(p)
  <2>1. before[p].state.place \in Places BY <1>1, <1>2 DEF UninstallOK, Found, States
  <2>2. ASSUME Failed(PluginUninstalled(before[p].state.place))
        PROVE  \A l \in Places : plugins'[l] \in {plugins[l], None}
    BY <2>1, <2>2 DEF Failed, PluginUninstalled, native, TypeOK
  <2> QED BY <1>4, <1>5, <1>7, <2>2 DEF UninstallPlugin, UninstallSteps, At, root
<1>8. CASE RemoveMarketplace(p)
  BY <1>4, <1>5, <1>8 DEF RemoveMarketplace, UninstallSteps, At, root, Failed, Unregistered, native
<1>9. CASE RemoveSource(p)
  BY <1>4, <1>9, NowDisturbed DEF RemoveSource, UninstallSteps
<1>10. ASSUME At(p, "remove root"), UNCHANGED pc PROVE Builds(p)'
  <2>1. pc' = [pc EXCEPT ![p] = "remove root"] BY <1>10 DEF At, TypeOK
  <2> QED BY <1>4, <2>1 DEF Go, UninstallSteps
<1>11. CASE RemoveRest(p) BY <1>10, <1>11 DEF RemoveRest
<1>12. CASE RemoveLock(p)
  BY <1>6, <1>10, <1>12, NowDisturbed DEF RemoveLock, root, native
<1>13. CASE EndRemoval(p)
  BY <1>6, <1>13, NowDisturbed DEF EndRemoval, root, native
<1> QED BY <1>7, <1>8, <1>9, <1>11, <1>12, <1>13

LEMMA BuildsStep ==
    ASSUME TypeOK, Memory, NEW p \in Installers, Doing(p), Builds(p), Actions(p), ~Disturbed'
    PROVE  Builds(p)'
<1>1. InstallOK(p) /\ UninstallOK(p) /\ Exact(p) BY DEF Doing, Builds
<1>2. CASE Publishing(p)
  <2>1. CASE RefuseInstall(p)
    BY <2>1, RefusedBuilds DEF RefuseInstall, At, Working, InstallSteps, UninstallSteps, Published, Undos,
       root, native
  <2>2. CASE BeginInstall(p) BY <2>2, BeginBuilds
  <2>3. CASE StageInvalid(p)
    <3>1. pc[p] = "stage" /\ UNCHANGED <<market, state, plugins>>
      BY <2>3 DEF StageInvalid, At, root, native
    <3>2. Working(p) /\ market = before[p].market /\ state = before[p].state /\ plugins = before[p].plugins
      BY <1>1, <3>1 DEF InstallOK, Started, Working, InstallSteps, At
    <3>3. Consistent(market, state, plugins)' BY <1>1, <3>1, <3>2 DEF Exact, Consistent
    <3> QED BY <2>3, <3>3, Answered DEF StageInvalid, Builds
  <2>4. CASE Stage(p) \/ SetAside(p) \/ Publish(p)
    BY <1>1, <2>4, OnTheWay DEF Stage, SetAside, Publish, memory, At, Working, InstallSteps
  <2>5. CASE ThrowUncompensated(p) BY <2>5, NowDisturbed DEF ThrowUncompensated
  <2> QED BY <1>2, <2>1, <2>2, <2>3, <2>4, <2>5 DEF Publishing
<1>3. CASE Registering(p)
  BY <1>1, <1>3, AddMarketplaceBuilds, UpdateMarketplaceBuilds, ListPluginsBuilds, InstallPluginBuilds,
     UpdatePluginBuilds, VerifyBuilds, RecordStateBuilds, DiscardBuilds DEF Registering
<1>4. CASE Compensating(p)
  BY <1>1, <1>4, UndoUninstallBuilds, UndoRegistrationBuilds, RemovePublishedBuilds, PutBackBuilds,
     UndoRefreshBuilds, UndoUpdateBuilds, CompensatedBuilds DEF Compensating
<1>5. CASE Uninstalling(p)
  <2>1. CASE EndUninstall(p)
    BY <2>1, RefusedBuilds DEF EndUninstall, At, Working, InstallSteps, UninstallSteps, Published, Undos,
       root, native
  <2>2. CASE BeginUninstall(p) BY <2>2, BeginBuilds
  <2> QED BY <1>1, <1>5, <2>1, <2>2, UninstalledBuilds DEF Uninstalling
<1> QED BY <1>2, <1>3, <1>4, <1>5 DEF Actions

LEMMA QuietBuilds ==
    ASSUME NEW q \in Installers, Quiet(q)
    PROVE  ~Working(q)
BY DEF Quiet, Working

\* Once disturbed, always disturbed.
LEMMA StaysDisturbed ==
    ASSUME TypeOK, Memory, NEW p \in Installers, Actions(p) \/ Waiting(p), Disturbed
    PROVE  Disturbed'
<1>1. PICK q \in Installers : pc[q] = "dead" \/ result[q] \in {"journaled", "threw"} BY DEF Disturbed
<1>2. result[q] \in {"journaled", "threw"} => pc[q] \in {"release", "done", "dead"}
  BY ResultAssumption DEF Memory, NotYet, Results
<1>3. CASE Actions(p)
  <2>1. Mutating(p) BY <1>3, ActionsMutate
  <2>2. q # p BY <1>1, <1>2, <2>1 DEF Mutating
  <2>3. pc'[q] = pc[q] BY <1>3, <2>2, ActionsMutate DEF Go, TypeOK
  <2>4. result'[q] = result[q] BY <1>3, <2>2, OwnAnswer
  <2> QED BY <1>1, <2>3, <2>4 DEF Disturbed
<1>4. CASE Waiting(p) /\ q # p BY <1>1, <1>4, WaitingLeaves DEF Disturbed
<1>5. CASE Waiting(p) /\ q = p
  <2>1. CASE Die(p)
    <3>1. pc'[p] = "dead" BY <2>1 DEF Die, Go, TypeOK
    <3> QED BY <3>1 DEF Disturbed
  <2>2. CASE Locking(p)
    <3>1. pc[p] \in {"release", "done", "dead"} BY <1>1, <1>2, <1>5
    <3>2. Release(p)
      BY <2>2, <3>1 DEF Locking, CreateLock, WriteLock, LockFails, ReadHolder, Reclaim, At
    <3>3. result' = result /\ result[q] \in {"journaled", "threw"}
      BY <1>1, <1>5, <3>2 DEF Release, At
    <3> QED BY <3>3 DEF Disturbed
  <2> QED BY <1>5, <2>1, <2>2 DEF Waiting
<1> QED BY <1>3, <1>4, <1>5

LEMMA WaitingBuilds ==
    ASSUME TypeOK, Memory, BuildsOK, NEW p \in Installers, Waiting(p)
    PROVE  BuildsOK'
<1> SUFFICES ASSUME ~Disturbed' PROVE BuildsOK'
  BY DEF BuildsOK
<1>1. ~Disturbed BY StaysDisturbed
<1>2. ~Die(p)
  <2>1. ASSUME Die(p) PROVE FALSE
    <3>1. pc'[p] = "dead" BY <2>1 DEF Die, Go, TypeOK
    <3> QED BY <3>1 DEF Disturbed
  <2> QED BY <2>1
<1>3. UNCHANGED <<market, state, plugins>>
  BY WaitingLeaves DEF root, native
<1>4. ~Working(p)
  BY <1>2 DEF Waiting, Locking, CreateLock, WriteLock, LockFails, ReadHolder, Reclaim, Release, At, Working,
     InstallSteps, UninstallSteps, Published, Undos
<1>5. ASSUME NEW q \in Installers PROVE Exact(q)' /\ (Working(q)' <=> Working(q))
  <2>1. CASE q = p BY <1>4, <2>1, WaitingLeaves, Quieted
  <2>2. CASE q # p
    <3>1. Exact(q) BY <1>1 DEF BuildsOK
    <3>2. /\ pc'[q] = pc[q] /\ result'[q] = result[q]
          /\ UNCHANGED <<command, existed, undo, before, root, native>>
      BY <2>2, WaitingLeaves
    <3>3. Exact(q)' = Exact(q) /\ Working(q)' = Working(q) BY <3>2, SameDoing
    <3> QED BY <3>1, <3>3
  <2> QED BY <2>1, <2>2
<1>6. (\A q \in Installers : ~Working(q)') => Consistent(market, state, plugins)'
  BY <1>1, <1>3, <1>5 DEF BuildsOK, Consistent
<1> QED BY <1>5, <1>6 DEF BuildsOK

LEMMA ActionsBuild ==
    ASSUME TypeOK, Memory, Exclusive, NEW p \in Installers, Actions(p)
    PROVE  BuildsOK'
<1> SUFFICES ASSUME ~Disturbed' PROVE BuildsOK'
  BY DEF BuildsOK
<1>1. LockOK /\ BuildsOK /\ Doing(p) BY DEF Exclusive
<1>2. ~Disturbed BY <1>1, StaysDisturbed
<1>3. \A q \in Installers : q # p => ~Working(q) /\ ~Working(q)' /\ Exact(q)'
  BY <1>1, OthersQuiet, Quieted, QuietBuilds
<1>4. Builds(p) BY <1>1, <1>2, <1>3 DEF BuildsOK, Builds
<1>5. Builds(p)' BY <1>1, <1>4, BuildsStep
<1>6. \A q \in Installers : Exact(q)' BY <1>3, <1>5 DEF Builds
<1>7. (\A q \in Installers : ~Working(q)') => Consistent(market, state, plugins)'
  BY <1>5 DEF Builds
<1> QED BY <1>6, <1>7 DEF BuildsOK

-----------------------------------------------------------------------------
(* The inductive invariant. *)

LEMMA InitIInv == Init => IInv
<1> SUFFICES ASSUME Init PROVE IInv
  OBVIOUS
<1>1. /\ pc = [p \in Installers |-> "create lock"] /\ result = [p \in Installers |-> None]
      /\ command \in [Installers -> Install \cup Uninstall]
      /\ attempt = [p \in Installers |-> 1] /\ existed = [p \in Installers |-> FALSE]
      /\ undo = [p \in Installers |-> <<>>] /\ before = [p \in Installers |-> None]
      /\ lock \in {None, [owner |-> None, blank |-> FALSE]} /\ journal = FALSE
      /\ looked = [p \in Installers |-> None] /\ robbed = FALSE
      /\ staging = [p \in Installers |-> None] /\ rollback = [p \in Installers |-> None]
  BY DEF Init
<1>2. ~Disturbed BY <1>1, ResultAssumption DEF Disturbed, Results
<1>3. \A p \in Installers : Quiet(p)
  BY <1>1 DEF Quiet, Answering, At, InstallSteps, UninstallSteps, Published, Undos
<1>4. \A p \in Installers : Doing(p) /\ Exact(p)
  BY <1>1 DEF Doing, InstallOK, UninstallOK, AnswerOK, Exact, Working, InstallSteps, UninstallSteps,
     Published, Undos, At
<1>5. /\ market \in Candidates \cup {None} /\ catalog \in Candidates \cup {None}
      /\ plugins \in [Places -> Candidates \cup {None}] /\ state \in States
      /\ Consistent(market, state, plugins)
  <2>1. CASE market = None /\ state = None /\ catalog = None /\ plugins = [l \in Places |-> None]
    BY <2>1 DEF States, Consistent
  <2>2. ASSUME NEW c \in Candidates, NEW l \in Places, NEW registered \in BOOLEAN, NEW readable \in BOOLEAN,
               market = c,
               catalog = IF registered THEN c ELSE None,
               plugins = [k \in Places |-> IF k = l /\ registered THEN c ELSE None],
               state = IF readable THEN [version |-> c.version, place |-> l] ELSE Corrupt
        PROVE  /\ market \in Candidates \cup {None} /\ catalog \in Candidates \cup {None}
               /\ plugins \in [Places -> Candidates \cup {None}] /\ state \in States
               /\ Consistent(market, state, plugins)
    <3>1. c.version \in Version /\ c # None BY InstallerAssumption DEF Version
    <3>2. [version |-> c.version, place |-> l] \in [version: Version, place: Places] BY <3>1
    <3>3. state \in States BY <2>2, <3>2 DEF States
    <3>4. plugins \in [Places -> Candidates \cup {None}] BY <2>2
    <3>5. Consistent(market, state, plugins)
      <4>1. CASE readable
        <5>1. state \notin {None, Corrupt} /\ state.version = c.version /\ state.place = l
          BY <2>2, <3>2, <4>1, InstallerAssumption
        <5>2. \A k \in Places : plugins[k] # None => k = l /\ plugins[k] = c BY <2>2
        <5> QED BY <2>2, <3>1, <5>1, <5>2 DEF Consistent
      <4>2. CASE ~readable BY <2>2, <4>2 DEF Consistent
      <4> QED BY <4>1, <4>2
    <3> QED BY <2>2, <3>3, <3>4, <3>5
  <2> QED BY <2>1, <2>2 DEF Init
<1>6. TypeOK
  <2>1. pc \in [Installers -> Steps] BY <1>1 DEF Steps
  <2>2. attempt \in [Installers -> 1..3] /\ existed \in [Installers -> BOOLEAN]
    <3>1. 1 \in 1..3 OBVIOUS
    <3>2. attempt \in [Installers -> 1..3] BY <1>1, <3>1, Zenon
    <3> QED BY <1>1, <3>2
  <2>3. /\ result \in [Installers -> Results \cup {None}]
        /\ staging \in [Installers -> Candidates \cup {None}]
        /\ rollback \in [Installers -> Candidates \cup {None}]
    BY <1>1
  <2>4. lock \in LockFile \cup {None} /\ journal \in BOOLEAN
    <3>1. [owner |-> None, blank |-> FALSE] \in LockFile BY DEF LockFile
    <3> QED BY <1>1, <3>1, Zenon
  <2>5. looked \in [Installers -> LockFile \cup {None}] /\ robbed \in BOOLEAN BY <1>1
  <2> QED BY <1>1, <1>5, <2>1, <2>2, <2>3, <2>4, <2>5 DEF TypeOK
<1>7. Memory
  <2>1. DOMAIN undo = Installers /\ before \in [Installers -> Found \cup {None}] BY <1>1
  <2>2. \A p \in Installers : attempt[p] = 1 /\ result[p] = None /\ rollback[p] = None BY <1>1
  <2>3. ASSUME NEW p \in Installers PROVE NotYet(p)
    <3>1. attempt[p] # 3 /\ result[p] = None /\ rollback[p] = None BY <2>2
    <3> QED BY <3>1, Zenon DEF NotYet
  <2> QED BY <2>1, <2>3 DEF Memory
<1>8. LockOK BY <1>1 DEF LockOK, Held, Mutating, Answering, At
<1>9. BuildsOK BY <1>4, <1>5 DEF BuildsOK
<1>10. Looked BY <1>1 DEF Looked, At
<1>11. Asked BY <1>1 DEF Asked, InstallSteps, Published, Undos
<1> QED BY <1>4, <1>6, <1>7, <1>8, <1>9, <1>10, <1>11 DEF IInv, Exclusive

LEMMA ActionsKeep ==
    ASSUME IInv, NEW p \in Installers, Actions(p)
    PROVE  IInv'
<1>1. TypeOK /\ Memory /\ Asked /\ Looked BY DEF IInv
<1>2. TypeOK'
  BY <1>1, PublishingTypes, RegisteringTypes, CompensatingTypes, UninstallingTypes DEF Actions
<1>3. Memory'
  BY <1>1, PublishingRemembers, RegisteringRemembers, CompensatingRemembers, UninstallingRemembers DEF Actions
<1>4. Asked' /\ Looked' BY <1>1, ActionsAsk, ActionsLook
<1>5. ASSUME ~robbed' PROVE Exclusive'
  <2>1. Exclusive BY <1>1, <1>5, ActionsMutate DEF IInv
  <2>2. LockOK /\ Doing(p) BY <2>1 DEF Exclusive
  <2>3. LockOK'
    <3>1. Mutating(p) BY <1>1, ActionsMutate
    <3>2. PICK s \in Steps : Go(p, s) /\ KeepsLock(p, s) BY <1>1, <1>5, ActionsMutate
    <3>3. \A q \in Installers : q # p => result'[q] = result[q] BY <1>1, OwnAnswer
    <3> QED BY <1>1, <2>2, <3>1, <3>2, <3>3, LockKept DEF KeepsLock
  <2>4. BuildsOK' BY <1>1, <2>1, ActionsBuild
  <2>5. ASSUME NEW q \in Installers PROVE Doing(q)'
    <3>1. CASE q = p BY <1>1, <2>2, <3>1, OwnStep
    <3>2. CASE q # p BY <1>1, <2>2, <3>2, OthersQuiet, Quieted
    <3> QED BY <3>1, <3>2
  <2> QED BY <2>3, <2>4, <2>5 DEF Exclusive
<1> QED BY <1>2, <1>3, <1>4, <1>5 DEF IInv

\* Dying leaves everything, the lock included.
LEMMA DieKeeps ==
    ASSUME TypeOK, Memory, NEW p \in Installers, Die(p)
    PROVE  TypeOK' /\ Memory' /\ (LockOK => LockOK')
<1>1. pc' = [pc EXCEPT ![p] = "dead"] /\ lock' = lock /\ pc \in [Installers -> Steps]
  BY DEF Die, Go, TypeOK, exclusion
<1>2. TypeOK' BY DEF Die, Go, TypeOK, Steps, memory, exclusion, root, native
<1>3. Memory'
  <2>1. UNCHANGED <<undo, before, attempt, result, rollback>> BY DEF Die, memory, root
  <2>2. ASSUME NEW q \in Installers PROVE NotYet(q)'
    BY <1>1, <2>1 DEF Memory, NotYet
  <2> QED BY <2>1, <2>2 DEF Memory
<1>4. ASSUME LockOK, NEW q \in Installers PROVE Held(q)'
  <2>1. pc'[q] = pc[q] \/ pc'[q] = "dead" BY <1>1
  <2>2. Held(q) BY <1>4 DEF LockOK
  <2>3. result' = result BY DEF Die
  <2> QED BY <1>1, <2>1, <2>2, <2>3 DEF Held, Mutating, Answering, At
<1> QED BY <1>2, <1>3, <1>4 DEF LockOK

\* Nobody comes back to life, and who looks keeps what was seen.
LEMMA WaitingLooks ==
    ASSUME TypeOK, Looked, NEW p \in Installers, Waiting(p)
    PROVE  Looked'
<1> SUFFICES ASSUME NEW q \in Installers, At(q, "reclaim")' PROVE ~Lives(looked[q])'
  BY DEF Looked
<1>1. \A r \in Installers : Alive(r)' => Alive(r)
  BY DEF Waiting, Locking, CreateLock, WriteLock, LockFails, ReadHolder, Reclaim, Release, Die, Go, At,
     Alive, TypeOK
<1>2. CASE q = p
  <2>1. ReadHolder(p) /\ ~HolderLives
    BY <1>2 DEF Waiting, Locking, CreateLock, WriteLock, LockFails, ReadHolder, Reclaim, Release, Die, Go,
       At, TypeOK
  <2>2. looked'[p] = lock BY <2>1 DEF ReadHolder, TypeOK
  <2>3. lock # None => lock.owner \in Installers \cup {None} BY DEF TypeOK, LockFile
  <2> QED BY <1>1, <1>2, <2>1, <2>2, <2>3 DEF HolderLives, Lives
<1>3. CASE q # p
  <2>1. looked'[q] = looked[q]
    BY <1>3 DEF Waiting, Locking, CreateLock, WriteLock, LockFails, ReadHolder, Reclaim, Release, Die,
       exclusion, TypeOK
  <2>2. At(q, "reclaim") BY <1>3, WaitingLeaves DEF At
  <2>3. ~Lives(looked[q]) BY <2>2 DEF Looked
  <2>4. looked[q] # None => looked[q].owner \in Installers \cup {None} BY DEF TypeOK, LockFile
  <2> QED BY <1>1, <2>1, <2>3, <2>4 DEF Lives
<1> QED BY <1>2, <1>3

LEMMA WaitingKeeps ==
    ASSUME IInv, NEW p \in Installers, Waiting(p)
    PROVE  IInv'
<1>1. TypeOK /\ Memory /\ Asked /\ Looked BY DEF IInv
<1>2. TypeOK' /\ Memory'
  BY <1>1, LockingTypes, LockingRemembers, DieKeeps DEF Waiting
<1>3. Looked' BY <1>1, WaitingLooks
<1>4. Asked'
  BY <1>1, WaitingLeaves DEF Asked, Quiet
<1>5. ASSUME ~robbed' PROVE Exclusive'
  <2>1. ~robbed
    BY <1>1, <1>5 DEF Waiting, Locking, CreateLock, WriteLock, LockFails, ReadHolder, Reclaim, Release, Die,
       exclusion, TypeOK
  <2>2. LockOK /\ BuildsOK BY <2>1 DEF IInv, Exclusive
  <2>3. LockOK' BY <1>1, <1>5, <2>2, LockingKeepsLock, DieKeeps DEF Waiting
  <2>4. BuildsOK' BY <1>1, <2>2, WaitingBuilds
  <2>5. ASSUME NEW q \in Installers PROVE Doing(q)'
    <3>1. CASE q = p BY <1>1, <3>1, WaitingLeaves, Quieted
    <3>2. CASE q # p
      <4>1. Doing(q) BY <2>1 DEF IInv, Exclusive
      <4>2. /\ pc'[q] = pc[q] /\ result'[q] = result[q]
            /\ UNCHANGED <<command, existed, undo, before, root, native>>
        BY <1>1, <3>2, WaitingLeaves
      <4>3. Doing(q)' = Doing(q) BY <4>2, SameDoing
      <4> QED BY <4>1, <4>3
    <3> QED BY <3>1, <3>2
  <2> QED BY <2>3, <2>4, <2>5 DEF Exclusive
<1> QED BY <1>2, <1>3, <1>4, <1>5 DEF IInv

LEMMA Stuttering ==
    ASSUME IInv, UNCHANGED vars
    PROVE  IInv'
<1>1. /\ UNCHANGED <<command, attempt, existed, undo, before, pc, result, lock, looked, robbed>>
      /\ UNCHANGED <<state, market, staging, rollback, journal, catalog, plugins>>
  BY DEF vars, memory, exclusion, root, native
<1>2. TypeOK' BY <1>1 DEF IInv, TypeOK
<1>3. Memory' /\ Asked' BY <1>1 DEF IInv, Memory, NotYet, Asked
<1>4. Looked' BY <1>1 DEF IInv, Looked, Lives, Alive, At
<1>5. ASSUME NEW q \in Installers
      PROVE  Doing(q)' = Doing(q) /\ Exact(q)' = Exact(q) /\ Working(q)' = Working(q)
  BY <1>1, SameDoing DEF root, native
<1>6. ASSUME ~robbed' PROVE Exclusive'
  <2>1. Exclusive BY <1>1, <1>6 DEF IInv
  <2>2. LockOK' BY <1>1, <2>1 DEF Exclusive, LockOK, Held, Mutating, Answering, At
  <2>3. Disturbed' = Disturbed BY <1>1 DEF Disturbed
  <2>4. Consistent(market, state, plugins)' = Consistent(market, state, plugins) BY <1>1 DEF Consistent
  <2>5. BuildsOK' BY <1>5, <2>1, <2>3, <2>4 DEF Exclusive, BuildsOK
  <2> QED BY <1>5, <2>1, <2>2, <2>5 DEF Exclusive
<1> QED BY <1>2, <1>3, <1>4, <1>6 DEF IInv

LEMMA NextIInv ==
    ASSUME IInv, [Next]_vars
    PROVE  IInv'
<1>1. CASE UNCHANGED vars BY <1>1, Stuttering
<1>2. ASSUME NEW p \in Installers, Actions(p) \/ Waiting(p) PROVE IInv'
  BY <1>2, ActionsKeep, WaitingKeeps
<1> QED BY <1>1, <1>2 DEF Next, Actions, Waiting

\* install-local.mjs: until a lock is taken from a process that runs, who holds
\* the lock is alone with the directory, and at each step of a command the directory, the record and the plugins are what its
\* compensations, and its answer, will say they were.
THEOREM Invariance ==
    Spec => []IInv
<1>1. Init => IInv BY InitIInv
<1>2. IInv /\ [Next]_vars => IInv' BY NextIInv
<1> QED BY <1>1, <1>2, PTL DEF Spec

\* Every variable keeps its type.
THEOREM TypeCorrect ==
    Spec => []TypeOK
<1>1. IInv => TypeOK BY DEF IInv
<1> QED BY <1>1, Invariance, PTL

\* acquireLock: two installers change the directory at once only after a lock was
\* taken from a process that runs, by one that had not read its name, or with the
\* directory that an uninstall removes.
THEOREM OneAtATime ==
    Spec => []OneMutator
<1>1. IInv => OneMutator
  <2> SUFFICES ASSUME IInv, ~robbed, NEW p \in Installers, NEW q \in Installers, Mutating(p), Mutating(q)
               PROVE  p = q
    BY DEF OneMutator
  <2>1. lock = [owner |-> p, blank |-> FALSE] /\ lock = [owner |-> q, blank |-> FALSE]
    BY DEF IInv, Exclusive, LockOK, Held
  <2> QED BY <2>1, Locks
<1> QED BY <1>1, Invariance, PTL

\* failWithCompensation: a failure without a journal left what was there.
THEOREM CompensationRestores ==
    Spec => []FailureRestores
<1>1. IInv => FailureRestores BY DEF IInv, Exclusive, Doing, AnswerOK, FailureRestores
<1> QED BY <1>1, Invariance, PTL

\* install, inspect: what is said to be installed is, its very build if every
\* installer before could compensate.
THEOREM InstalledMeansInstalled ==
    Spec => []InstalledIsTrue
<1>1. IInv => InstalledIsTrue
  <2> SUFFICES ASSUME IInv, ~robbed, NEW p \in Installers, At(p, "release"), result[p] = "installed"
               PROVE  /\ state = [version |-> Candidate(p).version, place |-> Place(p)]
                      /\ market = Candidate(p)
                      /\ Inspect = "installed"
                      /\ Disturbed \/ Current(p) = Candidate(p)
    BY DEF InstalledIsTrue
  <2>1. /\ command[p] \in Install
        /\ state = [version |-> Candidate(p).version, place |-> Place(p)]
        /\ market = Candidate(p) /\ Postcondition(Place(p), Candidate(p).version)
    BY DEF IInv, Exclusive, Doing, AnswerOK
  <2>2. state \notin {None, Corrupt} /\ state.place = Place(p) /\ state.version = Candidate(p).version
    BY <2>1, Commands
  <2>3. Inspect = "installed" BY <2>1, <2>2 DEF Inspect
  <2>4. Disturbed \/ Current(p) = Candidate(p) BY DEF IInv, Exclusive, BuildsOK, Exact, Current
  <2> QED BY <2>1, <2>3, <2>4
<1> QED BY <1>1, Invariance, PTL

-----------------------------------------------------------------------------
(* The source of what is recorded. *)

LEMMA SourceKept ==
    ASSUME TypeOK, NEW p \in Installers, InstallOK(p), UninstallOK(p), Memory, Actions(p),
           RecordedSource, Recorded', ~RecordedSource'
    PROVE  plugins[state.place] = None
<1>1. PICK source \in Sources : source.version = state.version BY DEF RecordedSource
<1>2. ASSUME NEW q \in Installers, state' = state, rollback'[q] = source PROVE FALSE
  BY <1>1, <1>2 DEF RecordedSource, Sources
<1>3. ASSUME state' = state, market' = source PROVE FALSE
  BY <1>1, <1>3 DEF RecordedSource, Sources
<1>4. source # None /\ (source = market \/ \E q \in Installers : source = rollback[q])
  BY <1>1 DEF Sources
<1>5. CASE UNCHANGED <<state, market, rollback>> BY <1>2, <1>3, <1>4, <1>5
<1>6. CASE SetAside(p)
  <2>1. rollback[p] = None /\ state' = state BY <1>6 DEF SetAside, Memory, NotYet, At
  <2>2. \A q \in Installers : q # p => rollback'[q] = rollback[q] BY <1>6 DEF SetAside, TypeOK
  <2>3. market = market' \/ rollback'[p] = market BY <1>6 DEF SetAside, TypeOK
  <2> QED BY <1>2, <1>3, <1>4, <2>1, <2>2, <2>3
<1>7. CASE Publish(p)
  BY <1>2, <1>4, <1>7 DEF Publish
<1>8. CASE RecordState(p) /\ ~UNCHANGED state
  <2>1. state' = [version |-> Candidate(p).version, place |-> Place(p)] /\ market' = market
    BY <1>8 DEF RecordState
  <2>2. market = Candidate(p) /\ command[p] \in Install
    BY <1>8 DEF RecordState, InstallOK, Started, InstallSteps, Published, At
  <2>3. RecordedSource'
    BY <2>1, <2>2, Commands DEF RecordedSource, Sources
  <2> QED BY <2>3
<1>9. CASE Discard(p)
  <2>1. /\ state = [version |-> Candidate(p).version, place |-> Place(p)] /\ market = Candidate(p)
        /\ command[p] \in Install
    BY <1>9 DEF Discard, InstallOK, Started, InstallSteps, Published, At
  <2>2. state' = state /\ market' = market BY <1>9 DEF Discard
  <2>3. RecordedSource'
    BY <2>1, <2>2, Commands DEF RecordedSource, Sources
  <2> QED BY <2>3
<1>10. CASE RemovePublished(p) /\ ~UNCHANGED market
  <2>1. UNCHANGED <<state, rollback>> BY <1>10 DEF RemovePublished
  <2>2. source = market BY <1>2, <1>4, <2>1
  <2>3. pc[p] = "compensate" /\ undo[p] # <<>> /\ Head(undo[p]).step = "restore"
    BY <1>10 DEF RemovePublished, Undoing, At
  <2>4. PluginUndone(p) /\ SourceUndone(p) /\ Started(p)
    BY <2>3 DEF InstallOK, Undos, InstallSteps
  <2>5. undo[p] \notin Restored(Previous(p))
    <3>1. undo[p] \notin Fresh BY <2>3, FreshUndo, StepsOfUndo
    <3> QED BY <2>3, <2>4, <3>1, DowngradesUndo, OthersUndo, Zenon DEF PluginUndone
  <2>6. market = Candidate(p) /\ rollback[p] = before[p].market /\ state = before[p].state
    BY <2>3, <2>4, <2>5 DEF SourceUndone, Started, At
  <2>7. before[p].market = Candidate(p)
    BY <1>1, <2>1, <2>2, <2>4, <2>6 DEF Started, Recorded
  <2> QED BY <1>2, <2>1, <2>2, <2>6, <2>7
<1>11. CASE PutBack(p) /\ ~UNCHANGED <<market, rollback>>
  <2>1. state' = state /\ market' = (IF rollback[p] = None THEN market ELSE rollback[p])
    BY <1>11 DEF PutBack
  <2>2. \A q \in Installers : q # p => rollback'[q] = rollback[q] BY <1>11 DEF PutBack, TypeOK
  <2>3. market = None \/ rollback[p] = None BY <1>11 DEF PutBack
  <2> QED BY <1>2, <1>3, <1>4, <2>1, <2>2, <2>3
<1>12. CASE RemoveSource(p)
  BY <1>12 DEF RemoveSource, UninstallOK, UninstallSteps, At
<1>13. CASE RemoveRest(p)
  BY <1>13 DEF RemoveRest, Recorded
<1>14. CASE Publishing(p)
  BY <1>5, <1>6, <1>7, <1>14 DEF Publishing, RefuseInstall, BeginInstall, Stage, StageInvalid,
     ThrowUncompensated, root
<1>15. CASE Registering(p)
  BY <1>5, <1>8, <1>9, <1>15 DEF Registering, AddMarketplace, UpdateMarketplace, ListPlugins, InstallPlugin,
     UpdatePlugin, Verify, RecordState, root
<1>16. CASE Compensating(p)
  BY <1>5, <1>10, <1>11, <1>16 DEF Compensating, UndoUninstall, UndoRegistration, RemovePublished, PutBack,
     UndoRefresh, UndoUpdate, Compensated
<1>17. CASE Uninstalling(p)
  BY <1>5, <1>12, <1>13, <1>17 DEF Uninstalling, EndUninstall, BeginUninstall, UninstallPlugin,
     RemoveMarketplace, RemoveLock, EndRemoval, root
<1> QED BY <1>14, <1>15, <1>16, <1>17 DEF Actions

\* install, uninstall: the source of the recorded version goes only after the plugin.
THEOREM SourceGoesLast ==
    Spec => SourceSurvives
<1> DEFINE LastOfAll == ~robbed' /\ RecordedSource /\ Recorded' /\ ~RecordedSource' => plugins[state.place] = None
<1>1. IInv /\ [Next]_vars => [LastOfAll]_vars
  <2> SUFFICES ASSUME IInv, Next, ~robbed', RecordedSource, Recorded', ~RecordedSource'
               PROVE  plugins[state.place] = None
    OBVIOUS
  <2>1. PICK p \in Installers : Actions(p) \/ Waiting(p) BY DEF Next, Actions, Waiting
  <2>2. TypeOK /\ Memory BY DEF IInv
  <2>3. CASE Actions(p)
    <3>1. Exclusive BY <2>2, <2>3, ActionsMutate DEF IInv
    <3>2. InstallOK(p) /\ UninstallOK(p) BY <3>1 DEF Exclusive, Doing
    <3> QED BY <2>2, <2>3, <3>2, SourceKept
  <2>4. CASE Waiting(p)
    <3>1. UNCHANGED <<state, market, rollback>> BY <2>2, <2>4, WaitingLeaves DEF root
    <3>2. RecordedSource' BY <3>1 DEF RecordedSource, Recorded, Sources
    <3> QED BY <3>2
  <2> QED BY <2>1, <2>3, <2>4
<1>2. Spec => [][LastOfAll]_vars BY <1>1, Invariance, PTL DEF Spec
<1> QED BY <1>2 DEF SourceSurvives
=============================================================================

---- MODULE ReviewProofs ----
(***************************************************************************)
(* How a review is made, and of which evidence: proofs about ReviewRun and *)
(* ReviewEvidence.                                                         *)
(***************************************************************************)
EXTENDS ReviewRun, ReviewEvidence, FiniteSetTheorems, SequenceTheorems, WellFoundedInduction, TLAPS

(***************************************************************************)
(* ReviewRun: whose directories are.                                       *)
(***************************************************************************)
\* A run that has made its directory.
Past == {"conclude", "save", "failed"}
Holds(r, d) == run[r].name = d /\ run[r].at \in Past

\* Whose files a directory has, and whose it may still get.
Somebody == Runs \union {Earlier, Torn, None}
Owns(x, d) == x \notin {None, Torn} /\ \E a \in Artifacts : x = files[d][a].by \/ x \in files[d][a].writers
Claims(x, d) == Owns(x, d) \/ (x \in Runs /\ Holds(x, d))

\* Nobody has anything in a directory that is not made.
Untouched == \A d \in Names \ made, x \in Somebody : ~ Claims(x, d)

\* Unless a run saw that it was free and found it made, one run has all of it.
OneClaim == \A d \in made \ raced : \A x, y \in Somebody : Claims(x, d) /\ Claims(y, d) => x = y

\* A run that looks for a name has none, and tries the numbers in turn.
Looking(c) ==
  /\ c.at \in {"start", "name"} => c.name = None
  /\ c.at = "name" => c.tried \in 1 .. Limit
  /\ c.at \in {"make", "conclude", "save"} => c.name \in Names

\* The last name is of nobody else, and is made once.
OwnName(r) ==
  /\ \A d \in Names : run[r].name = d /\ d[2] \in Runs => d[2] = r
  /\ run[r].at = "make" /\ run[r].tried = 0 => run[r].name[2] = r
  /\ \A d \in made : d[2] = r => run[r].at \in Past

\* Who is writing a file has made its directory.
Writers(r) == \A d \in Names, a \in Artifacts :
  r \in files[d][a].writers => run[r].name = d /\ run[r].at \in {"save", "failed"}

RunOK(r) == Looking(run[r]) /\ OwnName(r) /\ Writers(r)

IInv == TypeOK /\ Untouched /\ OneClaim /\ \A r \in Runs : RunOK(r)

File == [by : Somebody, writers : SUBSET Runs]
Typed(c) ==
  /\ DOMAIN c = DOMAIN Unstarted
  /\ c.name \in Names \union {None} /\ c.version \in 0 .. Len(Diffs) /\ c.kind \in Kinds

LEMMA Fields == DOMAIN Unstarted = {"at", "kind", "version", "excluded", "tried", "name", "findings", "todo"}
BY SMTT(20) DEF Unstarted

LEMMA TypeParts ==
  TypeOK <=> /\ latest \in 1 .. Len(Diffs)
             /\ made \subseteq Names /\ raced \subseteq made
             /\ DOMAIN run = Runs /\ \A r \in Runs : Typed(run[r])
             /\ files \in [Names -> [Artifacts -> File]]
BY DEF TypeOK, Typed, File, Somebody

\* A run that has forgotten everything, and one that stops while it saves.
Forgotten == [Unstarted EXCEPT !.at = "failed"]

LEMMA ForgottenOK ==
  /\ Typed(Unstarted) /\ Typed(Forgotten) /\ Unstarted.at = "start"
  /\ Unstarted.name = None /\ Forgotten.name = None /\ Forgotten.at = "failed"
<1>1. 0 \in 0 .. Len(Diffs) BY ReviewAssumption
<1> QED BY <1>1 DEF Forgotten, Unstarted, Typed, Kinds

LEMMA InitIInv == Init => IInv
<1> SUFFICES ASSUME Init PROVE IInv OBVIOUS
<1>1. PICK n \in 0 .. Limit :
        /\ latest = 1 /\ run = [r \in Runs |-> Unstarted]
        /\ made = Kinds \X (1 .. n) /\ raced = {}
        /\ files = [d \in Names |-> [a \in Artifacts |->
                      IF d \in Kinds \X (1 .. n) /\ a = "result" THEN [by |-> Earlier, writers |-> {}] ELSE NoFile]]
  BY DEF Init
<1>2. 1 .. n \subseteq 1 .. Limit /\ 1 \in 1 .. Len(Diffs) BY ReviewAssumption
<1>3. made \subseteq Names BY <1>1, <1>2 DEF Names
<1>4. [by |-> Earlier, writers |-> {}] \in File /\ NoFile \in File BY DEF File, Somebody, NoFile
<1>5. files \in [Names -> [Artifacts -> File]] BY <1>1, <1>4
<1>6. TypeOK BY <1>1, <1>2, <1>3, <1>5, ForgottenOK, TypeParts
<1>7. \A d \in Names, r \in Runs : ~ Holds(r, d) BY <1>1, ForgottenOK DEF Holds, Past
<1>8. \A d \in Names, a \in Artifacts : files[d][a].writers = {} /\ files[d][a].by \in {Earlier, None}
  BY <1>1 DEF NoFile
<1>9. \A d \in Names \ made, a \in Artifacts : files[d][a].by = None
  BY <1>1 DEF NoFile
<1>10. Untouched BY <1>7, <1>8, <1>9 DEF Untouched, Claims, Owns
<1>11. OneClaim
  <2>1. \A d \in Names, x \in Somebody : Claims(x, d) => x = Earlier BY <1>7, <1>8 DEF Claims, Owns
  <2> QED BY <1>3, <2>1 DEF OneClaim
<1>12. ASSUME NEW r \in Runs PROVE RunOK(r)
  <2>1. run[r] = Unstarted BY <1>1
  <2>2. Looking(run[r]) BY <2>1, ForgottenOK DEF Looking
  <2>3. \A d \in made : d[2] # r BY <1>1, <1>2, NamesAssumption
  <2>4. OwnName(r) BY <2>1, <2>3, ForgottenOK, NamesAssumption DEF OwnName
  <2>5. Writers(r) BY <1>8 DEF Writers
  <2> QED BY <2>2, <2>4, <2>5 DEF RunOK
<1> QED BY <1>6, <1>10, <1>11, <1>12 DEF IInv

\* A run that has not made its directory yet has nothing, and goes on without anything.
LEMMA SearchKeeps ==
  ASSUME IInv, NEW r \in Runs, NEW c, run' = [run EXCEPT ![r] = c], UNCHANGED <<latest, made, raced, files>>,
         Typed(c), Looking(c), run[r].at \notin Past, c.at \notin Past \/ c.name = None,
         c.name \in Names /\ c.name[2] \in Runs => c.name[2] = r,
         c.at = "make" /\ c.tried = 0 => c.name[2] = r
  PROVE  IInv'
<1>1. DOMAIN run = Runs BY TypeParts DEF IInv
<1>2. run'[r] = c /\ \A q \in Runs \ {r} : run'[q] = run[q] BY <1>1
<1>3. TypeOK'
  <2>1. DOMAIN run' = Runs /\ \A q \in Runs : Typed(run'[q]) BY <1>1, <1>2, TypeParts DEF IInv
  <2> QED BY <2>1, TypeParts DEF IInv, TypeOK, Typed
<1>4. \A d \in Names, q \in Runs : Holds(q, d)' = Holds(q, d)
  BY <1>2, NamesAssumption DEF Holds
<1>5. \A d \in Names, x \in Somebody : Claims(x, d)' <=> Claims(x, d) BY <1>4 DEF Claims, Owns
<1>6. made \subseteq Names BY TypeParts DEF IInv
<1>7. Untouched' /\ OneClaim' BY <1>5, <1>6 DEF IInv, Untouched, OneClaim
<1>8. RunOK(r) BY DEF IInv
<1>9. ASSUME NEW q \in Runs \ {r} PROVE RunOK(q)'
  <2>1. RunOK(q) BY DEF IInv
  <2> QED BY <1>2, <2>1 DEF RunOK, Looking, OwnName, Writers
<1>10. RunOK(r)'
  <2>1. OwnName(r)' BY <1>2, <1>8 DEF RunOK, OwnName
  <2>2. Writers(r)'
    <3>1. \A d \in Names, a \in Artifacts : r \notin files[d][a].writers BY <1>8 DEF RunOK, Writers, Past
    <3> QED BY <3>1 DEF Writers
  <2>3. Looking(run[r])' BY <1>2 DEF Looking
  <2> QED BY <2>1, <2>2, <2>3 DEF RunOK
<1> QED BY <1>3, <1>7, <1>9, <1>10 DEF IInv

\* A run that is past the making of its directory d goes on to c.
Moves(r, d, c) ==
  /\ run[r].name = d /\ run[r].at \in Past /\ Typed(c) /\ c.at \in {"save", "failed"}
  /\ c.name = d \/ (c.name = None /\ c.at = "failed")
  /\ DOMAIN run' = Runs /\ run'[r] = c /\ \A q \in Runs \ {r} : run'[q] = run[q]

\* The files of d become g, in which r has its own at most, and nobody else anything new.
Gives(r, d, g) ==
  /\ g \in [Artifacts -> File] /\ files' = [files EXCEPT ![d] = g]
  /\ \A a \in Artifacts : g[a].by \in {files[d][b].by : b \in Artifacts} \union {r, None, Torn}
  /\ \A a \in Artifacts : \A q \in g[a].writers : q = r \/ \E b \in Artifacts : q \in files[d][b].writers

\* A run in its own directory claims nothing that it did not.
LEMMA HolderKeeps ==
  ASSUME IInv, NEW r \in Runs, NEW d \in Names, NEW c, NEW g, Moves(r, d, c), Gives(r, d, g),
         c.name = None => \A a \in Artifacts : r \notin g[a].writers,
         UNCHANGED <<latest, made, raced>>
  PROVE  IInv'
<1> USE DEF Moves, Gives
<1>1. DOMAIN run = Runs /\ files \in [Names -> [Artifacts -> File]] /\ made \subseteq Names BY TypeParts DEF IInv
<1>2. run'[r] = c /\ \A q \in Runs \ {r} : run'[q] = run[q] OBVIOUS
<1>3. files'[d] = g /\ \A e \in Names \ {d} : files'[e] = files[e] BY <1>1
<1>4. Holds(r, d) BY DEF Holds
<1>5. d \in made BY <1>4 DEF IInv, Untouched, Claims, Somebody
<1>6. TypeOK'
  <2>1. DOMAIN run' = Runs /\ \A q \in Runs : Typed(run'[q]) BY <1>1, <1>2, TypeParts DEF IInv
  <2>2. files' \in [Names -> [Artifacts -> File]] BY <1>1
  <2>3. latest \in 1 .. Len(Diffs) /\ raced \subseteq made BY TypeParts DEF IInv
  <2> QED BY <1>1, <2>1, <2>2, <2>3 DEF TypeOK, Typed, File, Somebody
<1>7. \A e \in Names, q \in Runs : Holds(q, e)' => Holds(q, e)
  BY <1>2, NamesAssumption DEF Holds
<1>8. \A e \in Names \ {d}, x \in Somebody : Claims(x, e)' => Claims(x, e)
  <2>1. \A e \in Names \ {d}, x \in Somebody : Owns(x, e)' <=> Owns(x, e) BY <1>3 DEF Owns
  <2> QED BY <1>7, <2>1 DEF Claims
<1>9. ASSUME NEW x \in Somebody, Claims(x, d)' PROVE Claims(x, d)
  <2>1. CASE x \in Runs /\ Holds(x, d)' BY <1>7, <2>1 DEF Claims
  <2>2. CASE x = r BY <1>4, <2>2 DEF Claims
  <2>3. CASE Owns(x, d)' /\ x # r
    <3>1. x \notin {None, Torn} /\ \E a \in Artifacts : x = files'[d][a].by \/ x \in files'[d][a].writers
      BY <2>3 DEF Owns
    <3>2. PICK a \in Artifacts : x = g[a].by \/ x \in g[a].writers BY <1>3, <3>1
    <3>3. CASE x = g[a].by
      <4>1. g[a].by \in {files[d][b].by : b \in Artifacts} BY <2>3, <3>1, <3>3
      <4>2. PICK b \in Artifacts : x = files[d][b].by BY <3>3, <4>1
      <4> QED BY <3>1, <4>2 DEF Owns, Claims
    <3>4. CASE x \in g[a].writers
      <4>1. \E b \in Artifacts : x \in files[d][b].writers BY <2>3, <3>4
      <4> QED BY <3>1, <4>1 DEF Owns, Claims
    <3> QED BY <3>2, <3>3, <3>4
  <2> QED BY <1>9, <2>1, <2>2, <2>3 DEF Claims
<1>10. Untouched' BY <1>5, <1>8 DEF IInv, Untouched
<1>11. OneClaim'
  <2> SUFFICES ASSUME NEW e \in made \ raced, NEW x \in Somebody, NEW y \in Somebody,
                      Claims(x, e)', Claims(y, e)'
               PROVE  x = y
    BY DEF OneClaim
  <2>1. e \in Names BY <1>1
  <2>2. Claims(x, e) /\ Claims(y, e)
    <3>1. CASE e = d BY <1>9, <3>1
    <3>2. CASE e # d BY <1>8, <2>1, <3>2
    <3> QED BY <3>1, <3>2
  <2> QED BY <2>2 DEF IInv, OneClaim
<1>12. ASSUME NEW q \in Runs \ {r} PROVE RunOK(q)'
  <2>1. RunOK(q) BY DEF IInv
  <2>2. Writers(q)'
    <3> SUFFICES ASSUME NEW e \in Names, NEW a \in Artifacts, q \in files'[e][a].writers
                 PROVE  run[q].name = e /\ run[q].at \in {"save", "failed"}
      BY <1>2 DEF Writers
    <3>1. CASE e # d BY <1>3, <2>1, <3>1 DEF RunOK, Writers
    <3>2. CASE e = d
      <4>1. PICK b \in Artifacts : q \in files[d][b].writers
        <5>1. q \in g[a].writers /\ q # r BY <1>3, <3>2
        <5> QED BY <5>1
      <4> QED BY <2>1, <3>2, <4>1 DEF RunOK, Writers
    <3> QED BY <3>1, <3>2
  <2>3. Looking(run[q])' /\ OwnName(q)' BY <1>2, <2>1 DEF RunOK, Looking, OwnName
  <2> QED BY <2>2, <2>3 DEF RunOK
<1>13. RunOK(r)'
  <2>1. RunOK(r) BY DEF IInv
  <2>2. Looking(run[r])' BY <1>2 DEF Looking
  <2>3. OwnName(r)' BY <1>2, <2>1, NamesAssumption DEF RunOK, OwnName, Past
  <2>4. Writers(r)'
    <3> SUFFICES ASSUME NEW e \in Names, NEW a \in Artifacts, r \in files'[e][a].writers
                 PROVE  c.name = e /\ c.at \in {"save", "failed"}
      BY <1>2 DEF Writers
    <3>1. e = d BY <1>3, <2>1 DEF RunOK, Writers
    <3> QED BY <1>3, <3>1
  <2> QED BY <2>2, <2>3, <2>4 DEF RunOK
<1> QED BY <1>6, <1>10, <1>11, <1>12, <1>13 DEF IInv

(***************************************************************************)
(* Looking for a name.                                                     *)
(***************************************************************************)
LEMMA AssembleKeeps == ASSUME IInv, NEW r \in Runs, NEW kind \in Kinds, Assemble(r, kind) PROVE IInv'
<1>1. run[r].at = "start" /\ UNCHANGED <<latest, made, raced, files>> BY DEF Assemble, shared
<1>2. run[r].at \notin Past BY <1>1 DEF Past
<1>3. CASE Stop(r)
  <2>1. run' = [run EXCEPT ![r] = Forgotten] BY <1>1, <1>3 DEF Stop, Go, Forgotten
  <2> QED BY <1>1, <1>2, <2>1, ForgottenOK, SearchKeeps, NamesAssumption DEF Looking
<1>4. ASSUME NEW version \in 0 .. Len(Diffs), NEW excluded,
             Go(r, [Unstarted EXCEPT !.at = "name", !.kind = kind, !.tried = 1, !.version = version,
                                     !.excluded = excluded])
      PROVE  IInv'
  <2> DEFINE c == [Unstarted EXCEPT !.at = "name", !.kind = kind, !.tried = 1, !.version = version,
                                    !.excluded = excluded]
  <2>1. run' = [run EXCEPT ![r] = c] BY <1>4 DEF Go
  <2>2. /\ c.at = "name" /\ c.name = None /\ c.tried = 1 /\ c.kind = kind /\ c.version = version
        /\ DOMAIN c = DOMAIN Unstarted
    BY DEF Unstarted
  <2>3. Typed(c) BY <2>2 DEF Typed
  <2>4. Looking(c) BY <2>2, ReviewAssumption DEF Looking
  <2> QED BY <1>1, <1>2, <2>1, <2>2, <2>3, <2>4, SearchKeeps, NamesAssumption DEF Past
<1>5. latest \in 0 .. Len(Diffs) /\ 1 \in 0 .. Len(Diffs)
  BY TypeParts, ReviewAssumption DEF IInv
<1> QED BY <1>3, <1>4, <1>5 DEF Assemble

LEMMA LookKeeps == ASSUME IInv, NEW r \in Runs, Look(r) PROVE IInv'
<1> DEFINE candidate == <<run[r].kind, run[r].tried>>
<1>1. run[r].at = "name" /\ UNCHANGED <<latest, made, raced, files>> BY DEF Look, shared
<1>2. run[r].at \notin Past BY <1>1 DEF Past
<1>3. Typed(run[r]) /\ Looking(run[r]) /\ run[r].tried \in 1 .. Limit /\ run[r].name = None
  BY <1>1, TypeParts DEF IInv, RunOK, Looking
<1>4. /\ candidate \in Names /\ candidate[2] = run[r].tried /\ run[r].tried \notin Runs /\ run[r].tried # 0
      /\ <<run[r].kind, r>> \in Names
  BY <1>3, NamesAssumption DEF Names, Typed
<1>5. ASSUME Go(r, [run[r] EXCEPT !.at = "make", !.name = candidate]) PROVE IInv'
  <2> DEFINE c == [run[r] EXCEPT !.at = "make", !.name = candidate]
  <2>1. run' = [run EXCEPT ![r] = c] BY <1>5 DEF Go
  <2>2. /\ c.at = "make" /\ c.name = candidate /\ c.tried = run[r].tried /\ c.kind = run[r].kind
        /\ c.version = run[r].version /\ DOMAIN c = DOMAIN run[r]
    BY <1>3, Fields DEF Typed
  <2>3. Typed(c) BY <1>3, <1>4, <2>2 DEF Typed
  <2>4. Looking(c) BY <1>4, <2>2 DEF Looking
  <2> QED BY <1>1, <1>2, <1>4, <2>1, <2>2, <2>3, <2>4, SearchKeeps DEF Past
<1>6. ASSUME run[r].tried < Limit, Go(r, [run[r] EXCEPT !.tried = @ + 1]) PROVE IInv'
  <2> DEFINE c == [run[r] EXCEPT !.tried = @ + 1]
  <2>1. run' = [run EXCEPT ![r] = c] BY <1>6 DEF Go
  <2>2. /\ c.at = "name" /\ c.name = None /\ c.tried = run[r].tried + 1 /\ c.kind = run[r].kind
        /\ c.version = run[r].version /\ DOMAIN c = DOMAIN run[r]
    BY <1>1, <1>3, Fields DEF Typed
  <2>3. Typed(c) BY <1>3, <2>2 DEF Typed
  <2>4. Looking(c) BY <1>3, <1>6, <2>2, ReviewAssumption DEF Looking
  <2> QED BY <1>1, <1>2, <2>1, <2>2, <2>3, <2>4, SearchKeeps, NamesAssumption DEF Past
<1>7. ASSUME Go(r, [run[r] EXCEPT !.at = "make", !.tried = 0, !.name = NameAfter(r, run[r].kind)]) PROVE IInv'
  <2> DEFINE c == [run[r] EXCEPT !.at = "make", !.tried = 0, !.name = NameAfter(r, run[r].kind)]
  <2>1. run' = [run EXCEPT ![r] = c] BY <1>7 DEF Go
  <2>2. /\ c.at = "make" /\ c.name = <<run[r].kind, r>> /\ c.tried = 0 /\ c.kind = run[r].kind
        /\ c.version = run[r].version /\ DOMAIN c = DOMAIN run[r]
    BY <1>3, Fields DEF Typed, NameAfter
  <2>3. Typed(c) BY <1>3, <1>4, <2>2 DEF Typed
  <2>4. Looking(c) BY <1>4, <2>2 DEF Looking
  <2>5. c.name[2] = r /\ c.at \notin Past BY <2>2 DEF Past
  <2> HIDE DEF c
  <2> QED BY <1>1, <1>2, <2>1, <2>3, <2>4, <2>5, SearchKeeps
<1>8. \/ Go(r, [run[r] EXCEPT !.at = "make", !.name = candidate])
      \/ run[r].tried < Limit /\ Go(r, [run[r] EXCEPT !.tried = @ + 1])
      \/ Go(r, [run[r] EXCEPT !.at = "make", !.tried = 0, !.name = NameAfter(r, run[r].kind)])
  BY Zenon DEF Look
<1> QED BY <1>5, <1>6, <1>7, <1>8

\* A name nobody had made is of the run that makes it; one that somebody had made is raced, unless it is
\* the last, which nobody else can make.
LEMMA MakeDirectoryKeeps == ASSUME IInv, NEW r \in Runs, MakeDirectory(r) PROVE IInv'
<1> DEFINE d == run[r].name
           c == [run[r] EXCEPT !.at = "conclude", !.tried = 0]
<1>1. /\ run[r].at = "make" /\ run' = [run EXCEPT ![r] = c] /\ UNCHANGED <<latest, files>>
      /\ made' = made \union {d}
      /\ raced' = IF d \in made /\ run[r].tried # 0 THEN raced \union {d} ELSE raced
  BY DEF MakeDirectory, Go
<1>2. /\ DOMAIN run = Runs /\ Typed(run[r]) /\ files \in [Names -> [Artifacts -> File]]
      /\ made \subseteq Names /\ raced \subseteq made /\ latest \in 1 .. Len(Diffs)
  BY TypeParts DEF IInv
<1>3. RunOK(r) /\ d \in Names BY <1>1 DEF IInv, RunOK, Looking
<1>4. /\ c.at = "conclude" /\ c.name = d /\ c.tried = 0 /\ c.kind = run[r].kind
      /\ c.version = run[r].version /\ DOMAIN c = DOMAIN run[r]
  BY <1>2, Fields DEF Typed
<1>5. run'[r] = c /\ \A q \in Runs \ {r} : run'[q] = run[q] BY <1>1, <1>2
<1>6. TypeOK'
  <2>1. Typed(c) BY <1>2, <1>4 DEF Typed
  <2>2. DOMAIN run' = Runs /\ \A q \in Runs : Typed(run'[q]) BY <1>1, <1>2, <1>5, <2>1, TypeParts DEF IInv
  <2>3. made' \subseteq Names /\ raced' \subseteq made' BY <1>1, <1>2, <1>3
  <2> QED BY <1>1, <1>2, <2>2, <2>3 DEF TypeOK, Typed, File, Somebody
<1>7. \A e \in Names \ {d}, q \in Runs : Holds(q, e)' = Holds(q, e)
  BY <1>1, <1>4, <1>5 DEF Holds, Past
<1>8. \A e \in Names \ {d}, x \in Somebody : Claims(x, e)' <=> Claims(x, e) BY <1>1, <1>7 DEF Claims, Owns
<1>9. Untouched' BY <1>1, <1>8 DEF IInv, Untouched
<1>10. d \in made => run[r].tried # 0
  <2>1. run[r].tried = 0 => d[2] = r BY <1>1, <1>3 DEF RunOK, OwnName
  <2> QED BY <1>1, <1>3, <2>1 DEF RunOK, OwnName, Past
<1>11. ASSUME d \notin made, NEW x \in Somebody, Claims(x, d)' PROVE x = r
  <2>1. ~ Claims(x, d) BY <1>3, <1>11 DEF IInv, Untouched
  <2>2. ~ Owns(x, d)' BY <1>1, <2>1 DEF Owns, Claims
  <2>3. x \in Runs /\ Holds(x, d)' BY <1>11, <2>2 DEF Claims
  <2> QED BY <1>5, <2>1, <2>3 DEF Claims, Holds
<1>12. OneClaim'
  <2> SUFFICES ASSUME NEW e \in made' \ raced', NEW x \in Somebody, NEW y \in Somebody,
                      Claims(x, e)', Claims(y, e)'
               PROVE  x = y
    BY DEF OneClaim
  <2>1. CASE e = d BY <1>1, <1>10, <1>11, <2>1
  <2>2. CASE e # d
    <3>1. e \in made \ raced /\ e \in Names BY <1>1, <1>2, <2>2
    <3> QED BY <1>8, <2>2, <3>1 DEF IInv, OneClaim
  <2> QED BY <2>1, <2>2
<1>13. ASSUME NEW q \in Runs \ {r} PROVE RunOK(q)'
  <2>1. RunOK(q) BY DEF IInv
  <2>2. d[2] # q BY <1>3 DEF RunOK, OwnName
  <2>3. OwnName(q)' BY <1>1, <1>5, <2>1, <2>2 DEF RunOK, OwnName
  <2> QED BY <1>1, <1>5, <2>1, <2>3 DEF RunOK, Looking, Writers
<1>14. RunOK(r)'
  <2>1. Looking(run[r])' BY <1>3, <1>4, <1>5 DEF Looking
  <2>2. OwnName(r)' BY <1>3, <1>4, <1>5 DEF RunOK, OwnName, Past
  <2>3. \A e \in Names, a \in Artifacts : r \notin files[e][a].writers BY <1>1, <1>3 DEF RunOK, Writers
  <2>4. Writers(r)' BY <1>1, <2>3 DEF Writers
  <2> QED BY <2>1, <2>2, <2>4 DEF RunOK
<1> QED BY <1>6, <1>9, <1>12, <1>13, <1>14 DEF IInv

(***************************************************************************)
(* Writing.                                                                *)
(***************************************************************************)
\* What Put leaves in the directory.
With(r, changed) == [a \in Artifacts |-> IF a \in DOMAIN changed THEN changed[a] ELSE files[run[r].name][a]]

LEMMA PutGives ==
  ASSUME IInv, NEW r \in Runs, run[r].name \in Names, NEW changed, \A a \in DOMAIN changed : changed[a] \in File,
         Put(r, changed)
  PROVE  /\ With(r, changed) \in [Artifacts -> File]
         /\ files' = [files EXCEPT ![run[r].name] = With(r, changed)]
         /\ \A a \in Artifacts : With(r, changed)[a] =
              IF a \in DOMAIN changed THEN changed[a] ELSE files[run[r].name][a]
<1>1. files \in [Names -> [Artifacts -> File]] BY TypeParts DEF IInv
<1>2. files[run[r].name] \in [Artifacts -> File] BY <1>1
<1> QED BY <1>1, <1>2 DEF With, Put

LEMMA SameFiles ==
  ASSUME IInv, NEW r \in Runs, run[r].name \in Names, UNCHANGED files
  PROVE  /\ files[run[r].name] \in [Artifacts -> File]
         /\ files' = [files EXCEPT ![run[r].name] = files[run[r].name]]
<1>1. files \in [Names -> [Artifacts -> File]] BY TypeParts DEF IInv
<1> QED BY <1>1

\* Who has concluded has a directory.
LEMMA SavingHolds ==
  ASSUME IInv, NEW r \in Runs
  PROVE  /\ Typed(run[r]) /\ RunOK(r)
         /\ run[r].at \in {"make", "conclude", "save"} => run[r].name \in Names
         /\ Writing(r) # {} => run[r].name \in Names /\ run[r].at \in {"save", "failed"}
         /\ Writing(r) \subseteq Artifacts
<1>1. Typed(run[r]) /\ RunOK(r) BY TypeParts DEF IInv
<1>2. run[r].name # None => run[r].name \in Names BY <1>1 DEF Typed
<1> QED BY <1>1, <1>2 DEF RunOK, Looking, Writers, Writing

\* How a run stops: what it had begun to save is remembered.
Stopped(r) == IF run[r].at = "save" THEN [run[r] EXCEPT !.at = "failed", !.todo = <<>>] ELSE Forgotten

LEMMA StoppedOK ==
  ASSUME IInv, NEW r \in Runs
  PROVE  /\ Typed(Stopped(r)) /\ Stopped(r).at = "failed"
         /\ Stopped(r).name = IF run[r].at = "save" THEN run[r].name ELSE None
         /\ Stop(r) <=> run' = [run EXCEPT ![r] = Stopped(r)]
<1>1. Typed(run[r]) BY SavingHolds
<1>2. CASE run[r].at = "save"
  <2>1. Stopped(r) = [run[r] EXCEPT !.at = "failed", !.todo = <<>>] BY <1>2 DEF Stopped
  <2>2. DOMAIN run[r] = DOMAIN Unstarted BY <1>1 DEF Typed
  <2>3. /\ DOMAIN Stopped(r) = DOMAIN Unstarted /\ Stopped(r).at = "failed" /\ Stopped(r).name = run[r].name
        /\ Stopped(r).version = run[r].version /\ Stopped(r).kind = run[r].kind
    BY <2>1, <2>2, Fields
  <2> QED BY <1>1, <1>2, <2>1, <2>3 DEF Typed, Stop, Go
<1>3. CASE run[r].at # "save"
  <2>1. Stopped(r) = Forgotten BY <1>3 DEF Stopped
  <2> QED BY <1>3, <2>1, ForgottenOK DEF Stop, Go, Forgotten
<1> QED BY <1>2, <1>3

\* A run that is over or goes on to save: nothing else of the directory changes.
LEMMA ConcludeKeeps == ASSUME IInv, NEW r \in Runs, NEW command \in Commands, Conclude(r, command) PROVE IInv'
<1>1. run[r].at = "conclude" /\ UNCHANGED <<latest, made, raced>> /\ Put(r, Only("checks", Complete(r)))
  BY DEF Conclude
<1>2. Typed(run[r]) /\ RunOK(r) /\ run[r].name \in Names BY <1>1, SavingHolds
<1>3. PICK d \in Names : d = run[r].name BY <1>2
<1> DEFINE changed == Only("checks", Complete(r))
           g == With(r, changed)
<1>4. DOMAIN changed = {"checks"} /\ changed["checks"] = [by |-> r, writers |-> {}] BY DEF Only, Complete
<1>5. \A a \in DOMAIN changed : changed[a] \in File BY <1>4 DEF File, Somebody
<1>6. /\ g \in [Artifacts -> File] /\ files' = [files EXCEPT ![d] = g]
      /\ \A a \in Artifacts : g[a] = IF a = "checks" THEN [by |-> r, writers |-> {}] ELSE files[d][a]
  <2> HIDE DEF changed
  <2> QED BY <1>1, <1>2, <1>3, <1>4, <1>5, PutGives DEF changed
<1> HIDE DEF g
<1>7. ASSUME NEW c, run' = [run EXCEPT ![r] = c], Typed(c), c.at \in {"save", "failed"},
             c.name \in {d, None}, c.name = None => c.at = "failed"
      PROVE  IInv'
  <2>1. \A a \in Artifacts : r \notin files[d][a].writers BY <1>1, <1>2 DEF RunOK, Writers
  <2>2. \A a \in Artifacts : g[a].by \in {files[d][b].by : b \in Artifacts} \union {r, None, Torn} BY <1>6
  <2>3. \A a \in Artifacts : \A q \in g[a].writers : q = r \/ \E b \in Artifacts : q \in files[d][b].writers
    BY <1>6
  <2>4. \A a \in Artifacts : r \notin g[a].writers BY <1>6, <2>1
  <2>5. DOMAIN run = Runs BY TypeParts DEF IInv
  <2>6. Moves(r, d, c) BY <1>1, <1>3, <1>7, <2>5 DEF Moves, Past
  <2>7. Gives(r, d, g) BY <1>6, <2>2, <2>3 DEF Gives
  <2>8. UNCHANGED <<latest, made, raced>> BY <1>1
  <2> QED BY <2>4, <2>6, <2>7, <2>8, HolderKeeps
<1>8. CASE Stop(r)
  <2>1. Stopped(r).name = None BY <1>1, StoppedOK
  <2> HIDE DEF Stopped
  <2> QED BY <1>7, <1>8, <2>1, StoppedOK
<1>9. ASSUME NEW c, run' = [run EXCEPT ![r] = c], DOMAIN c = DOMAIN run[r], c.at = "save", c.name = run[r].name,
             c.version = run[r].version, c.kind = run[r].kind
      PROVE  IInv'
  <2>1. Typed(c) BY <1>2, <1>9 DEF Typed
  <2>2. c.name = d /\ c.name # None BY <1>3, <1>9, NamesAssumption
  <2> QED BY <1>7, <1>9, <2>1, <2>2
<1>10. DOMAIN run[r] = DOMAIN Unstarted BY <1>2 DEF Typed
<1>11. CASE EndBundle(r)
  <2> DEFINE c == [run[r] EXCEPT !.at = "save", !.todo = Saved]
  <2>1. run' = [run EXCEPT ![r] = c] BY <1>11 DEF EndBundle, Go
  <2>2. DOMAIN c = DOMAIN run[r] /\ c.at = "save" /\ c.name = run[r].name /\ c.version = run[r].version
        /\ c.kind = run[r].kind
    BY <1>10, Fields
  <2> HIDE DEF c
  <2> QED BY <1>9, <2>1, <2>2
<1>12. ASSUME NEW findings PROVE
         LET c == Ending([run[r] EXCEPT !.findings = findings]) IN
         DOMAIN c = DOMAIN run[r] /\ c.at = "save" /\ c.name = run[r].name /\ c.version = run[r].version
         /\ c.kind = run[r].kind
  BY <1>10, Fields DEF Ending
<1>13. ASSUME NEW c, DOMAIN c = DOMAIN run[r], c.at = "save", c.name = run[r].name, c.version = run[r].version,
              c.kind = run[r].kind, NEW todo, run' = [run EXCEPT ![r] = [c EXCEPT !.todo = todo]]
       PROVE  IInv'
  <2> DEFINE e == [c EXCEPT !.todo = todo]
  <2>1. DOMAIN e = DOMAIN run[r] /\ e.at = "save" /\ e.name = run[r].name /\ e.version = run[r].version
        /\ e.kind = run[r].kind
    BY <1>10, <1>13, Fields
  <2>2. run' = [run EXCEPT ![r] = e] BY <1>13
  <2> HIDE DEF e
  <2> QED BY <1>9, <2>1, <2>2
<1>14. /\ DOMAIN Ending(run[r]) = DOMAIN run[r] /\ Ending(run[r]).at = "save" /\ Ending(run[r]).name = run[r].name
       /\ Ending(run[r]).version = run[r].version /\ Ending(run[r]).kind = run[r].kind
  BY <1>10, Fields DEF Ending
<1>15. ASSUME NEW output, Go(r, Judged(run[r], output)) PROVE IInv'
  <2>1. PICK validated : validated = ValidateFindings(output, Reviewed(run[r]), Diffs[run[r].version].mirrored, run[r].name)
    OBVIOUS
  <2>2. Judged(run[r], output) =
          IF validated.kind = "ok"
          THEN Ending([run[r] EXCEPT !.findings = Kept(run[r], validated.findings)])
          ELSE [Ending(run[r]) EXCEPT !.todo = <<"rejected">> \o @]
    BY <2>1 DEF Judged
  <2>3. CASE validated.kind = "ok"
    <3>1. run' = [run EXCEPT ![r] = Ending([run[r] EXCEPT !.findings = Kept(run[r], validated.findings)])]
      BY <1>15, <2>2, <2>3 DEF Go
    <3> QED BY <1>9, <1>12, <3>1
  <2>4. CASE validated.kind # "ok"
    <3>1. run' = [run EXCEPT ![r] = [Ending(run[r]) EXCEPT !.todo = <<"rejected">> \o Ending(run[r]).todo]]
      BY <1>15, <2>2, <2>4 DEF Go
    <3> QED BY <1>13, <1>14, <3>1
  <2> QED BY <2>3, <2>4
<1>16. CASE Invoke(r)
  <2>1. CASE Go(r, Ending(run[r])) BY <1>9, <1>14, <2>1 DEF Go
  <2>2. Stop(r) \/ Go(r, Ending(run[r])) \/ \E invocation \in Invocations : Go(r, Judged(run[r], invocation.output))
    BY <1>16, Zenon DEF Invoke
  <2> QED BY <1>8, <1>15, <2>1, <2>2
<1> QED BY <1>1, <1>8, <1>11, <1>16 DEF Conclude, StopForAuthorization

\* A run that goes on with what it has to save, or does not.
LEMMA Shortened ==
  ASSUME IInv, NEW r \in Runs, run[r].name \in Names, run[r].at \in {"save", "failed"}, NEW todo
  PROVE  LET c == [run[r] EXCEPT !.todo = todo] IN
         Typed(c) /\ c.at = run[r].at /\ c.name = run[r].name
<1>1. Typed(run[r]) BY SavingHolds
<1>2. DOMAIN run[r] = DOMAIN Unstarted BY <1>1 DEF Typed
<1> QED BY <1>1, <1>2, Fields DEF Typed

\* What a run may put into its directory while it saves.
Fits(r, changed) ==
  \A a \in DOMAIN changed :
    /\ changed[a] \in File
    /\ changed[a].by \in {files[run[r].name][b].by : b \in Artifacts} \union {r, None, Torn}
    /\ \A q \in changed[a].writers : q = r \/ \E b \in Artifacts : q \in files[run[r].name][b].writers

\* Nothing remains of what r was writing.
Leaves(r, changed) ==
  /\ \A a \in DOMAIN changed : r \notin changed[a].writers
  /\ \A a \in Artifacts \ DOMAIN changed : r \notin files[run[r].name][a].writers

LEMMA WriteKeeps ==
  ASSUME IInv, NEW r \in Runs, run[r].name \in Names, run[r].at \in {"save", "failed"},
         NEW c, Typed(c), c.at \in {"save", "failed"},
         NEW changed, Fits(r, changed), Put(r, changed),
         c.name = run[r].name \/ (c.name = None /\ c.at = "failed" /\ Leaves(r, changed)),
         run' = [run EXCEPT ![r] = c] \/ (UNCHANGED run /\ c = run[r]), UNCHANGED <<latest, made, raced>>
  PROVE  IInv'
<1>1. PICK d \in Names : d = run[r].name OBVIOUS
<1>2. DOMAIN run = Runs BY TypeParts DEF IInv
<1>3. PICK g : g = With(r, changed) OBVIOUS
<1>4. \A a \in DOMAIN changed : changed[a] \in File BY DEF Fits
<1>5. /\ g \in [Artifacts -> File] /\ files' = [files EXCEPT ![d] = g]
      /\ \A a \in Artifacts : g[a] = IF a \in DOMAIN changed THEN changed[a] ELSE files[d][a]
  BY <1>1, <1>3, <1>4, PutGives
<1>6. ASSUME NEW a \in Artifacts
      PROVE  /\ g[a].by \in {files[d][b].by : b \in Artifacts} \union {r, None, Torn}
             /\ \A q \in g[a].writers : q = r \/ \E b \in Artifacts : q \in files[d][b].writers
  <2>1. CASE a \in DOMAIN changed
    <3>1. g[a] = changed[a] BY <1>5, <2>1
    <3> QED BY <1>1, <2>1, <3>1 DEF Fits
  <2>2. CASE a \notin DOMAIN changed BY <1>5, <2>2
  <2> QED BY <2>1, <2>2
<1>7. Gives(r, d, g) BY <1>5, <1>6 DEF Gives
<1>8. Moves(r, d, c) BY <1>1, <1>2 DEF Moves, Past
<1>9. c.name = None => \A a \in Artifacts : r \notin g[a].writers
  BY <1>1, <1>5, NamesAssumption DEF Leaves
<1> QED BY <1>7, <1>8, <1>9, HolderKeeps

\* One artifact is put.
LEMMA OnlyFits ==
  ASSUME NEW r \in Runs, NEW a \in Artifacts, NEW file \in File, file.by \in {r, None, Torn},
         \A q \in file.writers : q = r \/ \E b \in Artifacts : q \in files[run[r].name][b].writers
  PROVE  Fits(r, Only(a, file))
<1>1. DOMAIN Only(a, file) = {a} /\ Only(a, file)[a] = file BY DEF Only
<1> QED BY <1>1 DEF Fits

LEMMA FilesAre ==
  ASSUME IInv, NEW r \in Runs, run[r].name \in Names, NEW a \in Artifacts
  PROVE  /\ files[run[r].name][a] \in File
         /\ files[run[r].name][a].by \in Somebody /\ files[run[r].name][a].writers \subseteq Runs
<1>1. files \in [Names -> [Artifacts -> File]] BY TypeParts DEF IInv
<1>2. files[run[r].name][a] \in File BY <1>1
<1> QED BY <1>2 DEF File

LEMMA StartWriteKeeps == ASSUME IInv, NEW r \in Runs, StartWrite(r) PROVE IInv'
<1>1. /\ run[r].at = "save" /\ run[r].todo[1] \in Reread /\ UNCHANGED <<latest, run, made, raced>>
      /\ Put(r, Only(run[r].todo[1],
                     [by |-> Torn, writers |-> files[run[r].name][run[r].todo[1]].writers \union {r}]))
  BY DEF StartWrite
<1>2. Typed(run[r]) /\ run[r].name \in Names BY <1>1, SavingHolds
<1>3. PICK a \in Artifacts : a = run[r].todo[1] BY <1>1 DEF Reread, Artifacts
<1>4. PICK file : file = [by |-> Torn, writers |-> files[run[r].name][a].writers \union {r}] OBVIOUS
<1>5. file \in File /\ file.by = Torn /\ file.writers = files[run[r].name][a].writers \union {r}
  BY <1>2, <1>4, FilesAre DEF File, Somebody
<1>6. Fits(r, Only(a, file)) BY <1>5, OnlyFits
<1>7. Put(r, Only(a, file)) BY <1>1, <1>3, <1>4
<1> QED BY <1>1, <1>2, <1>6, <1>7, WriteKeeps

LEMMA FinishWriteKeeps == ASSUME IInv, NEW r \in Runs, FinishWrite(r) PROVE IInv'
<1>1. PICK a \in Writing(r), by \in {r, Torn} :
        Put(r, Only(a, [by |-> by, writers |-> files[run[r].name][a].writers \ {r}]))
  BY DEF FinishWrite
<1>2. run' = [run EXCEPT ![r] = [run[r] EXCEPT !.todo = Tail(@)]] /\ UNCHANGED <<latest, made, raced>>
  BY DEF FinishWrite, Go
<1>3. a \in Artifacts /\ run[r].name \in Names /\ run[r].at \in {"save", "failed"} BY SavingHolds
<1>4. PICK file : file = [by |-> by, writers |-> files[run[r].name][a].writers \ {r}] OBVIOUS
<1>5. file \in File /\ file.by = by /\ file.writers = files[run[r].name][a].writers \ {r}
  BY <1>3, <1>4, FilesAre DEF File, Somebody
<1>6. Fits(r, Only(a, file)) BY <1>3, <1>5, OnlyFits
<1>7. Put(r, Only(a, file)) BY <1>1, <1>4
<1>8. PICK c : c = [run[r] EXCEPT !.todo = Tail(run[r].todo)] OBVIOUS
<1>9. Typed(c) /\ c.at = run[r].at /\ c.name = run[r].name BY <1>3, <1>8, Shortened
<1> QED BY <1>2, <1>3, <1>6, <1>7, <1>8, <1>9, WriteKeeps

\* What a dead writer leaves.
LEMMA TornFits ==
  ASSUME IInv, NEW r \in Runs, Writing(r) # {}, LeaveTorn(r)
  PROVE  \E changed : Fits(r, changed) /\ Put(r, changed) /\ Leaves(r, changed)
<1>1. Writing(r) \subseteq Artifacts /\ run[r].name \in Names BY SavingHolds
<1> DEFINE changed == [a \in Writing(r) |-> [files[run[r].name][a] EXCEPT !.writers = @ \ {r}]]
<1>2. ASSUME NEW a \in Writing(r)
      PROVE  /\ changed[a] \in File /\ changed[a].by = files[run[r].name][a].by
             /\ changed[a].writers = files[run[r].name][a].writers \ {r}
  <2>1. files[run[r].name][a] \in File BY <1>1, FilesAre
  <2> QED BY <2>1 DEF File
<1>3. Fits(r, changed) BY <1>1, <1>2 DEF Fits
<1>4. Put(r, changed) BY DEF LeaveTorn
<1>5. \A a \in Artifacts \ Writing(r) : r \notin files[run[r].name][a].writers
  BY <1>1, NamesAssumption DEF Writing
<1>6. Leaves(r, changed) BY <1>2, <1>5 DEF Leaves
<1> QED BY <1>3, <1>4, <1>6

LEMMA FailWriteKeeps == ASSUME IInv, NEW r \in Runs, FailWrite(r) PROVE IInv'
<1>1. Writing(r) # {} /\ LeaveTorn(r) /\ Stop(r) /\ UNCHANGED <<latest, made, raced>> BY DEF FailWrite
<1>2. run[r].name \in Names /\ run[r].at \in {"save", "failed"} BY <1>1, SavingHolds
<1>3. PICK changed : Fits(r, changed) /\ Put(r, changed) /\ Leaves(r, changed) BY <1>1, TornFits
<1>4. PICK c : c = Stopped(r) OBVIOUS
<1>5. /\ Typed(c) /\ c.at = "failed" /\ c.name \in {run[r].name, None}
      /\ run' = [run EXCEPT ![r] = c]
  BY <1>1, <1>4, StoppedOK
<1> QED BY <1>1, <1>2, <1>3, <1>5, WriteKeeps

\* What a run that stops before or while it saves leaves as it is.
LEMMA StopKeeps ==
  ASSUME IInv, NEW r \in Runs, Stop(r), UNCHANGED <<latest, made, raced, files>>,
         run[r].at # "failed", run[r].at # "save" => Writing(r) = {}
  PROVE  IInv'
<1>1. PICK c : c = Stopped(r) OBVIOUS
<1>2. /\ Typed(c) /\ c.at = "failed" /\ run' = [run EXCEPT ![r] = c]
      /\ c.name = IF run[r].at = "save" THEN run[r].name ELSE None
  BY <1>1, StoppedOK
<1>3. CASE run[r].at \in Past
  <2>1. run[r].name \in Names BY <1>3, SavingHolds DEF Past
  <2>2. DOMAIN run = Runs BY TypeParts DEF IInv
  <2>3. PICK g : g = files[run[r].name] OBVIOUS
  <2>4. PICK d \in Names : d = run[r].name BY <2>1
  <2>5. Moves(r, d, c) BY <1>2, <1>3, <2>2, <2>4 DEF Moves
  <2>6. Gives(r, d, g) BY <2>1, <2>3, <2>4, SameFiles DEF Gives
  <2>7. c.name = None => \A a \in Artifacts : r \notin g[a].writers 
    BY <1>2, <2>1, <2>3, NamesAssumption DEF Writing
  <2> QED BY <2>5, <2>6, <2>7, HolderKeeps
<1>4. CASE run[r].at \notin Past
  <2>1. Looking(c) BY <1>2 DEF Looking
  <2>2. c.name = None BY <1>2, <1>4 DEF Past
  <2> QED BY <1>2, <1>4, <2>1, <2>2, SearchKeeps, NamesAssumption
<1> QED BY <1>3, <1>4

LEMMA WriteOtherKeeps == ASSUME IInv, NEW r \in Runs, WriteOther(r) PROVE IInv'
<1>1. run[r].at = "save" /\ UNCHANGED <<latest, made, raced>> BY DEF WriteOther
<1>2. PICK a \in Artifacts : a = run[r].todo[1] BY DEF WriteOther
<1>3. run[r].name \in Names BY <1>1, SavingHolds
<1>4. CASE Put(r, Only(a, Complete(r))) /\ Go(r, [run[r] EXCEPT !.todo = Tail(@)])
  <2>1. PICK c : c = [run[r] EXCEPT !.todo = Tail(run[r].todo)] OBVIOUS
  <2>2. Typed(c) /\ c.at = run[r].at /\ c.name = run[r].name BY <1>1, <1>3, <2>1, Shortened
  <2>3. run' = [run EXCEPT ![r] = c] BY <1>4, <2>1 DEF Go
  <2>4. Complete(r) \in File /\ Complete(r).by = r /\ Complete(r).writers = {} BY DEF Complete, File, Somebody
  <2>5. Fits(r, Only(a, Complete(r))) BY <2>4, OnlyFits
  <2> QED BY <1>1, <1>3, <1>4, <2>2, <2>3, <2>5, WriteKeeps
<1>5. CASE Stop(r) /\ UNCHANGED files BY <1>1, <1>5, StopKeeps
<1> QED BY <1>2, <1>4, <1>5 DEF WriteOther

LEMMA RenamePositionsKeeps == ASSUME IInv, NEW r \in Runs, RenamePositions(r) PROVE IInv'
<1>1. run[r].at = "save" /\ UNCHANGED <<latest, made, raced>> BY DEF RenamePositions
<1>2. run[r].name \in Names BY <1>1, SavingHolds
<1>3. PICK from : from = files[run[r].name]["positions.writing"] OBVIOUS
<1>4. CASE Stop(r) /\ UNCHANGED files BY <1>1, <1>4, StopKeeps
<1> DEFINE changed == [a \in {"positions", "positions.writing"} |-> IF a = "positions" THEN from ELSE NoFile]
<1>5. CASE Put(r, changed) /\ Go(r, [run[r] EXCEPT !.todo = Tail(@)])
  <2>1. PICK c : c = [run[r] EXCEPT !.todo = Tail(run[r].todo)] OBVIOUS
  <2>2. Typed(c) /\ c.at = run[r].at /\ c.name = run[r].name BY <1>1, <1>2, <2>1, Shortened
  <2>3. run' = [run EXCEPT ![r] = c] BY <1>5, <2>1 DEF Go
  <2>4. "positions.writing" \in Artifacts BY DEF Artifacts
  <2>5. from \in File /\ from.by \in Somebody /\ from.writers \subseteq Runs BY <1>2, <1>3, <2>4, FilesAre
  <2>6. NoFile \in File /\ NoFile.by = None /\ NoFile.writers = {} BY DEF NoFile, File, Somebody
  <2>7. /\ DOMAIN changed = {"positions", "positions.writing"}
        /\ changed["positions"] = from /\ changed["positions.writing"] = NoFile
    OBVIOUS
  <2> HIDE DEF changed
  <2>8. Fits(r, changed) BY <1>3, <2>4, <2>5, <2>6, <2>7 DEF Fits
  <2> QED BY <1>1, <1>2, <1>5, <2>2, <2>3, <2>8, WriteKeeps
<1> QED BY <1>3, <1>4, <1>5, Zenon DEF RenamePositions

LEMMA CrashKeeps == ASSUME IInv, NEW r \in Runs, Crash(r) PROVE IInv'
<1>1. run[r].at # "failed" /\ Stop(r) /\ UNCHANGED <<latest, made, raced, record, view>> BY DEF Crash
<1>2. CASE Writing(r) = {}
  <2>1. UNCHANGED files BY <1>2 DEF Crash
  <2> QED BY <1>1, <1>2, <2>1, StopKeeps
<1>3. CASE Writing(r) # {}
  <2>1. LeaveTorn(r) BY <1>3 DEF Crash
  <2> QED BY <1>1, <1>3, <2>1, FailWriteKeeps DEF FailWrite
<1> QED BY <1>2, <1>3

(***************************************************************************)
(* The whole.                                                              *)
(***************************************************************************)
\* What the merge request, a reader or a publication does leaves the directories to their runs.
LEMMA OthersKeep == ASSUME IInv, NewVersion \/ View \/ UNCHANGED vars PROVE IInv'
<1>1. UNCHANGED <<run, made, raced, files>>
  BY DEF NewVersion, View, ReadResult, ReadPositions, ReadRecord, PublishComment, CloseView, Refuse, unread, vars
<1>2. latest' \in 1 .. Len(Diffs)
  <2>1. latest \in 1 .. Len(Diffs) BY TypeParts DEF IInv
  <2>2. latest' = latest \/ (latest < Len(Diffs) /\ latest' = latest + 1)
    BY DEF NewVersion, View, ReadResult, ReadPositions, ReadRecord, PublishComment, CloseView, Refuse, unread, vars
  <2> QED BY <2>1, <2>2, ReviewAssumption
<1>3. TypeOK' BY <1>1, <1>2 DEF IInv, TypeOK
<1>4. \A d \in Names, x \in Somebody : Claims(x, d)' <=> Claims(x, d) BY <1>1 DEF Claims, Owns, Holds
<1>5. made \subseteq Names BY TypeParts DEF IInv
<1>6. Untouched' /\ OneClaim' BY <1>1, <1>4, <1>5 DEF IInv, Untouched, OneClaim
<1>7. ASSUME NEW r \in Runs PROVE RunOK(r)'
  <2>1. RunOK(r) BY DEF IInv
  <2> QED BY <1>1, <2>1 DEF RunOK, Looking, OwnName, Writers
<1> QED BY <1>3, <1>6, <1>7 DEF IInv

LEMMA NextIInv == IInv /\ [Next]_vars => IInv'
<1> SUFFICES ASSUME IInv, [Next]_vars PROVE IInv' OBVIOUS
<1>1. ASSUME NEW r \in Runs, Review(r) PROVE IInv'
  <2>1. CASE \E kind \in Kinds : Assemble(r, kind) BY <2>1, AssembleKeeps
  <2>2. CASE Look(r) \/ MakeDirectory(r) BY <2>2, LookKeeps, MakeDirectoryKeeps
  <2>3. CASE \E command \in Commands : Conclude(r, command) BY <2>3, ConcludeKeeps
  <2>4. CASE StartWrite(r) \/ FinishWrite(r) \/ FailWrite(r)
    BY <2>4, StartWriteKeeps, FinishWriteKeeps, FailWriteKeeps
  <2>5. CASE WriteOther(r) \/ RenamePositions(r) \/ Crash(r)
    BY <2>5, WriteOtherKeeps, RenamePositionsKeeps, CrashKeeps
  <2> QED BY <1>1, <2>1, <2>2, <2>3, <2>4, <2>5 DEF Review
<1> QED BY <1>1, OthersKeep DEF Next

THEOREM Invariance == Spec => []IInv
<1> QED BY InitIInv, NextIInv, PTL DEF Spec

\* However many runs share the directory of reviews, the state stays well-formed: a name is chosen among
\* the candidates or is the run's own, a version is one that the merge request has had, and only files of
\* runs, torn ones and earlier ones are found.
THEOREM TypeCorrect == Spec => []TypeOK
<1>1. IInv => TypeOK BY DEF IInv
<1> QED BY <1>1, Invariance, PTL

\* review-name.ts "rather than looping or overwriting somebody's review": unless a run found a directory
\* made after it had seen that its name was free, the files of a directory are those of one run, for any
\* number of runs and of names taken, whatever fails and whoever dies.
THEOREM OneOwner == Spec => []OneRunPerDirectory
<1>1. IInv => OneRunPerDirectory
  <2> SUFFICES ASSUME IInv, NEW d \in made \ raced, NEW x, NEW y,
                      x \in ({files[d][a].by : a \in Artifacts} \union UNION {files[d][a].writers : a \in Artifacts})
                              \ {None, Torn},
                      y \in ({files[d][a].by : a \in Artifacts} \union UNION {files[d][a].writers : a \in Artifacts})
                              \ {None, Torn}
               PROVE  x = y
    BY DEF OneRunPerDirectory
  <2>1. d \in Names /\ files \in [Names -> [Artifacts -> File]] BY TypeParts DEF IInv
  <2>2. \A a \in Artifacts : files[d][a].by \in Somebody /\ files[d][a].writers \subseteq Runs
    BY <2>1 DEF File
  <2>3. \A z : z \in ({files[d][a].by : a \in Artifacts} \union UNION {files[d][a].writers : a \in Artifacts})
                       \ {None, Torn} => Owns(z, d) /\ z \in Somebody
    BY <2>2 DEF Owns, Somebody
  <2>4. Claims(x, d) /\ Claims(y, d) /\ x \in Somebody /\ y \in Somebody BY <2>3 DEF Claims
  <2> QED BY <2>4 DEF IInv, OneClaim
<1> QED BY <1>1, Invariance, PTL

(***************************************************************************)
(* Subsequences: what a filter keeps, by induction over the length.        *)
(***************************************************************************)
LEMMA Least ==
  ASSUME NEW T \in SUBSET Nat, T # {}
  PROVE  \E n \in T : \A m \in T : ~ (m < n)
<1> DEFINE R == OpToRel(<, Nat)
<1>1. IsWellFoundedOn(R, Nat) BY NatLessThanWellFounded
<1>2. \E n \in T : \A m \in T : ~ (<<m, n>> \in R)
  <2> HIDE DEF R
  <2> QED BY <1>1, WFMin
<1>3. \A m, n \in Nat : m < n => <<m, n>> \in R BY DEF OpToRel
<1> QED BY <1>2, <1>3

LEMMA Induct ==
  ASSUME NEW T \in SUBSET Nat, 0 \in T, \A n \in T : n + 1 \in T
  PROVE  Nat \subseteq T
<1> SUFFICES ASSUME Nat \ T # {} PROVE FALSE OBVIOUS
<1>1. PICK n \in Nat \ T : \A m \in Nat \ T : ~ (m < n) BY Least
<1>2. n # 0 OBVIOUS
<1>3. n - 1 \in Nat /\ n - 1 < n BY <1>2
<1>4. n - 1 \in T BY <1>1, <1>3
<1> QED BY <1>1, <1>3, <1>4

\* The filter up to a place, from the filter up to the place before.
Grown(s, S, f, n) == IF n = 0 THEN <<>> ELSE IF s[n] \in S THEN Append(f[n - 1], s[n]) ELSE f[n - 1]
Filter(s, S, f, k) == f = [n \in 0 .. k |-> Grown(s, S, f, n)]

LEMMA FilterExists ==
  ASSUME NEW s, NEW S, NEW k \in Nat
  PROVE  \E f : Filter(s, S, f, k)
<1> DEFINE T == {n \in Nat : \E f : Filter(s, S, f, n)}
<1>1. 0 \in T
  <2> DEFINE f == [n \in 0 .. 0 |-> <<>>]
  <2>1. f = [n \in 0 .. 0 |-> Grown(s, S, f, n)] BY DEF Grown
  <2> HIDE DEF f
  <2> QED BY <2>1 DEF Filter
<1>2. ASSUME NEW n \in T PROVE n + 1 \in T
  <2>1. PICK g : Filter(s, S, g, n) OBVIOUS
  <2> DEFINE f == [m \in 0 .. n + 1 |-> Grown(s, S, g, m)]
  <2>2. ASSUME NEW m \in 0 .. n + 1 PROVE Grown(s, S, g, m) = Grown(s, S, f, m)
    <3>1. CASE m = 0 BY <3>1 DEF Grown
    <3>2. CASE m # 0
      <4>1. m - 1 \in 0 .. n /\ m - 1 \in 0 .. n + 1 BY <3>2
      <4>2. g[m - 1] = Grown(s, S, g, m - 1) BY <2>1, <4>1 DEF Filter
      <4>3. f[m - 1] = Grown(s, S, g, m - 1) BY <4>1
      <4> HIDE DEF f
      <4> QED BY <3>2, <4>2, <4>3 DEF Grown
    <3> QED BY <3>1, <3>2
  <2>3. f = [m \in 0 .. n + 1 |-> Grown(s, S, f, m)]
    <3> DEFINE h == [m \in 0 .. n + 1 |-> Grown(s, S, f, m)]
    <3>1. \A m \in 0 .. n + 1 : h[m] = Grown(s, S, f, m) OBVIOUS
    <3>2. \A m \in 0 .. n + 1 : f[m] = Grown(s, S, f, m) BY <2>2
    <3> QED BY <2>2
  <2> HIDE DEF f
  <2>4. Filter(s, S, f, n + 1) BY <2>3 DEF Filter
  <2> QED BY <2>4
<1>3. T \in SUBSET Nat OBVIOUS
<1> HIDE DEF T
<1>4. k \in T BY <1>1, <1>2, <1>3, Induct
<1> QED BY <1>4 DEF T

LEMMA AmongIsFilter ==
  ASSUME NEW s, NEW S, Len(s) \in Nat
  PROVE  \E f : Filter(s, S, f, Len(s)) /\ Among(s, S) = f[Len(s)]
<1> DEFINE upTo[n \in 0 .. Len(s)] ==
        IF n = 0 THEN <<>> ELSE IF s[n] \in S THEN Append(upTo[n - 1], s[n]) ELSE upTo[n - 1]
<1>1. Among(s, S) = upTo[Len(s)] BY DEF Among
<1>2. PICK g : Filter(s, S, g, Len(s)) BY FilterExists
<1>3. upTo = [n \in 0 .. Len(s) |-> IF n = 0 THEN <<>> ELSE IF s[n] \in S THEN Append(upTo[n - 1], s[n]) ELSE upTo[n - 1]]
  BY <1>2, Zenon DEF Filter, Grown
<1> HIDE DEF upTo
<1> QED BY <1>1, <1>3 DEF Filter, Grown

\* What passes a filter: the elements that are in the set, and all of them exactly when none is left behind.
LEMMA AmongFacts ==
  ASSUME NEW X, NEW s \in Seq(X), NEW S
  PROVE  /\ Among(s, S) \in Seq(X)
         /\ ToSet(Among(s, S)) = ToSet(s) \cap S
         /\ Len(Among(s, S)) <= Len(s)
         /\ Len(Among(s, S)) = Len(s) <=> ToSet(s) \subseteq S
<1>1. Len(s) \in Nat /\ DOMAIN s = 1 .. Len(s) OBVIOUS
<1>2. PICK f : Filter(s, S, f, Len(s)) /\ Among(s, S) = f[Len(s)] BY <1>1, AmongIsFilter
<1> DEFINE Begun(k) == {s[i] : i \in 1 .. k}
           Good(k) == /\ f[k] \in Seq(X) /\ ToSet(f[k]) = Begun(k) \cap S /\ Len(f[k]) <= k
                      /\ Len(f[k]) = k <=> Begun(k) \subseteq S
           T == {k \in Nat : k <= Len(s) => Good(k)}
<1>3. 0 \in T
  <2>1. f[0] = <<>> BY <1>1, <1>2 DEF Filter, Grown
  <2>2. Begun(0) = {} OBVIOUS
  <2>3. ToSet(<<>>) = {} BY DEF ToSet
  <2>4. <<>> \in Seq(X) /\ Len(<<>>) = 0 OBVIOUS
  <2> HIDE DEF Begun
  <2>5. Good(0) BY <2>1, <2>2, <2>3, <2>4
  <2> QED BY <2>5
<1>4. ASSUME NEW n \in T PROVE n + 1 \in T
  <2> SUFFICES ASSUME n + 1 <= Len(s) PROVE Good(n + 1) OBVIOUS
  <2>1. n \in Nat /\ Good(n) /\ n \in 0 .. Len(s) /\ n + 1 \in 0 .. Len(s) BY <1>1
  <2> PICK c : c = s[n + 1] OBVIOUS
  <2>2. c \in X /\ Begun(n + 1) = Begun(n) \union {c} BY <1>1, <2>1
  <2>3. f[n + 1] = Grown(s, S, f, n + 1) BY <1>2, <2>1 DEF Filter
  <2>4. f[n + 1] = IF c \in S THEN Append(f[n], c) ELSE f[n]
    <3>1. n + 1 # 0 /\ (n + 1) - 1 = n BY <2>1
    <3> QED BY <2>3, <3>1 DEF Grown
  <2>5. CASE c \in S
    <3>1. f[n + 1] = Append(f[n], c) BY <2>4, <2>5
    <3>2. f[n + 1] \in Seq(X) /\ Len(f[n + 1]) = Len(f[n]) + 1 BY <2>1, <2>2, <3>1
    <3>3. ToSet(Append(f[n], c)) = ToSet(f[n]) \union {c}
      <4> PICK g : g = f[n] OBVIOUS
      <4>1. g \in Seq(X) BY <2>1
      <4>2. \A i \in 1 .. Len(g) : Append(g, c)[i] = g[i] BY <2>2, <4>1
      <4>3. Append(g, c)[Len(g) + 1] = c BY <2>2, <4>1
      <4>4. DOMAIN g = 1 .. Len(g) /\ DOMAIN Append(g, c) = 1 .. Len(g) + 1 BY <2>2, <4>1
      <4>5. Len(g) \in Nat /\ 1 .. Len(g) + 1 = (1 .. Len(g)) \union {Len(g) + 1} BY <4>1
      <4> QED BY <4>2, <4>3, <4>4, <4>5 DEF ToSet
    <3>4. ToSet(f[n + 1]) = Begun(n + 1) \cap S BY <2>1, <2>2, <2>5, <3>1, <3>3
    <3>5. Len(f[n + 1]) = n + 1 <=> Len(f[n]) = n BY <2>1, <3>2
    <3>6. Len(f[n + 1]) <= n + 1 BY <2>1, <3>2
    <3> HIDE DEF Begun
    <3> QED BY <2>1, <2>2, <2>5, <3>2, <3>4, <3>5, <3>6
  <2>6. CASE c \notin S
    <3>1. f[n + 1] = f[n] BY <2>4, <2>6
    <3>2. Begun(n + 1) \cap S = Begun(n) \cap S BY <2>2, <2>6
    <3>3. Len(f[n + 1]) # n + 1 /\ ~ (Begun(n + 1) \subseteq S) /\ Len(f[n + 1]) <= n + 1 BY <2>1, <2>2, <2>6, <3>1
    <3> HIDE DEF Begun
    <3> QED BY <2>1, <3>1, <3>2, <3>3
  <2> QED BY <2>5, <2>6
<1>5. Len(s) \in T
  <2>1. T \in SUBSET Nat OBVIOUS
  <2> HIDE DEF T
  <2> QED BY <1>1, <1>3, <1>4, <2>1, Induct
<1>6. Good(Len(s)) BY <1>1, <1>5
<1>7. Begun(Len(s)) = ToSet(s) BY <1>1 DEF ToSet
<1> QED BY <1>2, <1>6, <1>7

LEMMA Element ==
  ASSUME NEW X, NEW s \in Seq(X), NEW i \in DOMAIN s
  PROVE  s[i] \in X
OBVIOUS

LEMMA ListOfImages ==
  ASSUME NEW f, NEW n \in Nat, f = [k \in 1 .. n |-> f[k]]
  PROVE  f \in Seq(ToSet(f)) /\ DOMAIN f = 1 .. n /\ Len(f) = n /\ (f = <<>> <=> n = 0)
<1>1. DOMAIN f = 1 .. n OBVIOUS
<1>2. ToSet(f) = {f[k] : k \in 1 .. n} BY <1>1 DEF ToSet
<1>3. f \in [1 .. n -> ToSet(f)] BY <1>2
<1>4. f \in Seq(ToSet(f)) /\ Len(f) = n BY <1>3, IsASeq, LenProperties
<1>5. f = <<>> <=> n = 0 BY <1>4, EmptySeq
<1> QED BY <1>1, <1>4, <1>5

LEMMA SameFile ==
  ASSUME NEW e, NEW c, Withheld(e) = FALSE, Withheld(c) = FALSE, Symlink(e) = Symlink(c), e.body = c.body,
         e.newFile = c.newFile, e.deletedFile = c.deletedFile, e.oldPath = c.oldPath, e.newPath = c.newPath
  PROVE  ToFetchedFile(e) = ToFetchedFile(c)
BY DEF ToFetchedFile

\* What GitLab's entry of a change becomes: the file of the change when it came whole, and marked when it
\* did not.
LEMMA WholeOrWithheld ==
  ASSUME NEW r \in RequestSet, NEW i \in DOMAIN r.changes, NEW way \in Ways(r.changes[i]), way # "left out"
  PROVE  /\ ToFetchedFile(Sent(r.changes[i], way)).incomplete <=> way # "whole"
         /\ way = "whole" => ToFetchedFile(Sent(r.changes[i], way)) = ToFetchedFile(r.changes[i])
<1> PICK c : c = r.changes[i] OBVIOUS
<1>1. c \in Changes /\ (c.body = "empty" => ~ Plain(c))
  <2>1. r.changes \in Seq(Changes) BY RequestsAssumption
  <2>2. c \in ToSet(r.changes) BY DEF ToSet
  <2>3. c.body = "empty" => ~ Plain(c) BY <2>2, RequestsAssumption
  <2>4. c \in Changes
    BY <2>1, Element, Zenon
  <2> QED BY <2>3, <2>4
<1> PICK e : e = Sent(c, way) OBVIOUS
<1>2. /\ e.body = IF way = "whole" THEN c.body ELSE "empty"
      /\ e.tooLarge = (way = "too large") /\ e.collapsed = (way = "collapsed")
      /\ e.oldPath = c.oldPath /\ e.newPath = c.newPath /\ e.newFile = c.newFile /\ e.deletedFile = c.deletedFile
      /\ e.renamed = c.renamed /\ e.generated = c.generated /\ e.aMode = c.aMode /\ e.bMode = c.bMode
  BY <1>1 DEF Sent, Changes
<1>3. ~ c.tooLarge /\ ~ c.collapsed BY <1>1 DEF Changes
<1>4. ModeOnly(e) = ModeOnly(c) /\ Symlink(e) = Symlink(c) BY <1>2 DEF ModeOnly, Symlink
<1>5. Withheld(e) <=> way # "whole"
  <2>1. way \in {"whole", "collapsed", "too large"} \/ (way = "bare" /\ Plain(c)) BY DEF Ways
  <2>2. Withheld(e) <=> way \in {"too large", "collapsed"} \/ (e.body = "empty" /\ Plain(c))
    BY <1>1, <1>2, <1>4 DEF Withheld, Plain
  <2> QED BY <1>1, <1>2, <2>1, <2>2
<1>6. ToFetchedFile(e).incomplete = Withheld(e) BY DEF ToFetchedFile
<1>7. way = "whole" => ToFetchedFile(e) = ToFetchedFile(c)
  <2> SUFFICES ASSUME way = "whole" PROVE ToFetchedFile(e) = ToFetchedFile(c) OBVIOUS
  <2>1. ~ Withheld(c) BY <1>1, <1>3 DEF Withheld, Plain
  <2>2. e.body = c.body BY <1>2
  <2>3. ~ Withheld(e) BY <1>5
  <2>4. Withheld(e) = FALSE /\ Withheld(c) = FALSE BY <2>1, <2>3 DEF Withheld
  <2>5. /\ e.newFile = c.newFile /\ e.deletedFile = c.deletedFile /\ e.oldPath = c.oldPath /\ e.newPath = c.newPath
        /\ Symlink(e) = Symlink(c)
    BY <1>2, <1>4
  <2> QED BY <2>2, <2>4, <2>5, SameFile
<1> QED BY <1>5, <1>6, <1>7

\* A version is of the changes at some places, and says whether these are all.
Tells(v, changes, how, sent) ==
  /\ ToSet(sent) = {i \in DOMAIN changes : how[i] # "left out"}
  /\ v.diffs = [k \in DOMAIN sent |-> Sent(changes[sent[k]], how[sent[k]])]
  /\ Len(v.diffs) = Len(sent) /\ DOMAIN v.diffs = DOMAIN sent
  /\ (v.state \notin CappedStates /\ v.realSize <= Len(v.diffs)) <=> ToSet(sent) = DOMAIN changes

\* A version says of itself that something is left out exactly when something is.
LEMMA VersionTells ==
  ASSUME NEW r \in RequestSet, NEW how, NEW head, NEW v \in Versions(r.changes, how, head)
  PROVE  \E sent \in Seq(DOMAIN r.changes) : Tells(v, r.changes, how, sent)
<1> DEFINE D == DOMAIN r.changes
           places == [i \in D |-> i]
           kept == {i \in D : how[i] # "left out"}
           sent == Among(places, kept)
<1>1. r.changes \in Seq(Changes) BY RequestsAssumption
<1>2. places \in Seq(D) /\ Len(places) = Len(r.changes) /\ ToSet(places) = D
  <2>1. D = 1 .. Len(r.changes) /\ Len(r.changes) \in Nat BY <1>1
  <2>2. places \in Seq(D) /\ Len(places) = Len(r.changes) BY <2>1
  <2>3. ToSet(places) = D BY DEF ToSet
  <2> QED BY <2>2, <2>3
<1> HIDE DEF places, kept
<1>3. /\ sent \in Seq(D) /\ ToSet(sent) = D \cap kept /\ Len(sent) <= Len(r.changes)
      /\ Len(sent) = Len(r.changes) <=> D \subseteq kept
  BY <1>2, AmongFacts
<1>4. D \cap kept = kept /\ (D \subseteq kept <=> kept = D) BY DEF kept
<1> DEFINE diffs == [k \in DOMAIN sent |-> Sent(r.changes[sent[k]], how[sent[k]])]
<1>5. PICK t \in IF Len(sent) = Len(r.changes) THEN {<<"collected", Len(sent)>>, <<"collected", NoSize>>}
                ELSE {<<"overflow", NoSize>>, <<"collected", Len(r.changes)>>} :
        v.state = t[1] /\ v.realSize = t[2] /\ v.diffs = diffs
  <2> DEFINE told == IF Len(sent) = Len(r.changes) THEN {<<"collected", Len(sent)>>, <<"collected", NoSize>>}
                     ELSE {<<"overflow", NoSize>>, <<"collected", Len(r.changes)>>}
  <2>1. Versions(r.changes, how, head) =
          {[head |-> head, state |-> t[1], realSize |-> t[2], diffs |-> diffs] : t \in told}
    BY DEF Versions, places, kept
  <2> HIDE DEF told, diffs, sent
  <2>2. PICK t \in told :
          v = [head |-> head, state |-> t[1], realSize |-> t[2], diffs |-> diffs]
    BY <2>1
  <2>3. v.state = t[1] /\ v.realSize = t[2] /\ v.diffs = diffs BY <2>2
  <2> QED BY <2>3 DEF told
<1> HIDE DEF sent
<1>6. Len(sent) \in Nat /\ Len(r.changes) \in Nat BY <1>1, <1>3, LenProperties
<1>7. Len(diffs) = Len(sent) /\ DOMAIN diffs = DOMAIN sent
  <2>1. DOMAIN sent = 1 .. Len(sent) BY <1>3
  <2> QED BY <1>6, <2>1
<1>8. (v.state \notin CappedStates /\ v.realSize <= Len(v.diffs)) <=> Len(sent) = Len(r.changes)
  <2> HIDE DEF diffs
  <2>1. v.diffs = diffs BY <1>5
  <2>2. Len(v.diffs) = Len(sent) BY <1>7, <2>1
  <2>3. CASE Len(sent) = Len(r.changes)
    BY <1>5, <1>6, <2>2, <2>3 DEF CappedStates, NoSize
  <2>4. CASE Len(sent) # Len(r.changes)
    <3>1. t \in {<<"overflow", NoSize>>, <<"collected", Len(r.changes)>>} BY <1>5, <2>4
    <3>2. CASE t = <<"overflow", NoSize>> BY <1>5, <2>4, <3>2 DEF CappedStates
    <3>3. CASE t = <<"collected", Len(r.changes)>> BY <1>3, <1>5, <1>6, <2>2, <2>4, <3>3
    <3> QED BY <3>1, <3>2, <3>3
  <2> QED BY <2>3, <2>4
<1> QED
  <2>1. sent \in Seq(D) BY <1>3
  <2>2. ToSet(sent) = {i \in D : how[i] # "left out"} BY <1>3, <1>4 DEF kept
  <2>3. v.diffs = [k \in DOMAIN sent |-> Sent(r.changes[sent[k]], how[sent[k]])] BY <1>5
  <2>4. Len(v.diffs) = Len(sent) /\ DOMAIN v.diffs = DOMAIN sent BY <1>5, <1>7
  <2>5. (v.state \notin CappedStates /\ v.realSize <= Len(v.diffs)) <=> ToSet(sent) = D BY <1>3, <1>4, <1>8
  <2> HIDE DEF D, diffs
  <2> QED BY <2>1, <2>2, <2>3, <2>4, <2>5 DEF D, Tells

\* What GitLab may do to each change, what a comparison that succeeds knows, and what the coverage says.
Possible(r, how) == \A i \in DOMAIN r.changes : how[i] \in Ways(r.changes[i])
Compared(r, compare) ==
  compare.kind = "ok" => \A i \in DOMAIN r.changes :
    ~ r.changes[i].onTarget => {r.changes[i].oldPath, r.changes[i].newPath} \subseteq compare.paths
Covered(r, how, got) ==
  /\ got.complete <=> {i \in DOMAIN r.changes : how[i] = "whole"} = DOMAIN r.changes /\ r.changes # <<>>
  /\ got.complete => \A i \in DOMAIN r.changes :
       r.changes[i].onTarget \/ ToFetchedFile(r.changes[i]) \in ToSet(got.files)

\* What a merge request's evidence says about coverage, from what GitLab sent of it.
LEMMA FetchedCoverage ==
  ASSUME NEW r \in RequestSet, NEW how, Possible(r, how), NEW head, NEW v \in Versions(r.changes, how, head),
         NEW compare, Compared(r, compare), NEW got, got = FetchSnapshot(Target, v, compare), got.kind = "ok"
  PROVE  Covered(r, how, got)
<1>1. PICK sentFiles : sentFiles = [k \in DOMAIN v.diffs |-> ToFetchedFile(v.diffs[k])] OBVIOUS
<1>2. PICK differing : differing = PathsDifferingFromTarget(Target, compare) OBVIOUS
<1>3. got.files = Narrow(sentFiles, differing) /\ got.complete = AssessCoverage(v, sentFiles).complete
  <2>1. v.head = Target.head BY DEF FetchSnapshot, Failed
  <2> QED BY <1>1, <1>2, <2>1 DEF FetchSnapshot
<1>4. PICK sent \in Seq(DOMAIN r.changes) : Tells(v, r.changes, how, sent)
  BY VersionTells
<1>5. r.changes \in Seq(Changes) BY RequestsAssumption
<1>6. \A k \in DOMAIN sent : sent[k] \in DOMAIN r.changes /\ sent[k] \in ToSet(sent) BY Element DEF ToSet
<1>7. Len(sent) \in Nat /\ DOMAIN sent = 1 .. Len(sent) BY LenProperties
<1>8. /\ sentFiles \in Seq(ToSet(sentFiles)) /\ DOMAIN sentFiles = 1 .. Len(sent) /\ Len(sentFiles) = Len(sent)
      /\ sentFiles = <<>> <=> Len(sent) = 0
  <2>1. sentFiles = [k \in 1 .. Len(sent) |-> sentFiles[k]] BY <1>1, <1>4, <1>7 DEF Tells
  <2> QED BY <1>7, <2>1, ListOfImages
<1>9. ASSUME NEW k \in DOMAIN sent
      PROVE  /\ sentFiles[k].incomplete <=> how[sent[k]] # "whole"
             /\ how[sent[k]] = "whole" => sentFiles[k] = ToFetchedFile(r.changes[sent[k]])
  <2>1. sentFiles[k] = ToFetchedFile(Sent(r.changes[sent[k]], how[sent[k]])) BY <1>1, <1>4 DEF Tells
  <2>2. PICK i \in DOMAIN r.changes : i = sent[k] BY <1>6
  <2>3. how[i] \in Ways(r.changes[i]) /\ how[i] # "left out" BY <1>4, <1>6, <2>2 DEF Tells, Possible
  <2> QED BY <2>1, <2>2, <2>3, WholeOrWithheld
<1>10. (\A f \in ToSet(sentFiles) : ~ f.incomplete) <=> \A i \in ToSet(sent) : how[i] = "whole"
  <2>1. ToSet(sentFiles) = {sentFiles[k] : k \in DOMAIN sent} BY <1>7, <1>8 DEF ToSet
  <2>2. ToSet(sent) = {sent[k] : k \in DOMAIN sent} BY DEF ToSet
  <2> QED BY <1>9, <2>1, <2>2
<1>11. ToSet(sent) = DOMAIN r.changes => (Len(sent) = 0 <=> r.changes = <<>>)
  <2>1. ToSet(sent) = {} <=> Len(sent) = 0
    <3>1. ToSet(sent) = {sent[k] : k \in 1 .. Len(sent)} BY <1>7 DEF ToSet
    <3>2. \A n \in Nat : n # 0 => 1 \in 1 .. n OBVIOUS
    <3>3. Len(sent) = 0 => 1 .. Len(sent) = {} OBVIOUS
    <3> QED BY <1>7, <3>1, <3>2, <3>3
  <2>2. DOMAIN r.changes = {} <=> r.changes = <<>>
    <3> PICK s : s = r.changes OBVIOUS
    <3>1. s \in Seq(Changes) BY <1>5
    <3> QED BY <3>1, EmptySeq, LenProperties
  <2> QED BY <2>1, <2>2
<1>12. got.complete <=> {i \in DOMAIN r.changes : how[i] = "whole"} = DOMAIN r.changes /\ r.changes # <<>>
  <2>1. got.complete <=> (v.state \notin CappedStates /\ v.realSize <= Len(sentFiles)) /\ sentFiles # <<>>
                         /\ \A f \in ToSet(sentFiles) : ~ f.incomplete
    BY <1>3 DEF AssessCoverage
  <2>2. got.complete <=> ToSet(sent) = DOMAIN r.changes /\ sentFiles # <<>> /\ \A i \in ToSet(sent) : how[i] = "whole"
    BY <1>4, <1>8, <1>10, <2>1 DEF Tells
  <2>3. got.complete => ToSet(sent) = DOMAIN r.changes /\ r.changes # <<>>
                        /\ \A i \in DOMAIN r.changes : how[i] = "whole"
    BY <1>8, <1>11, <2>2
  <2>4. (\A i \in DOMAIN r.changes : how[i] = "whole") => ToSet(sent) = DOMAIN r.changes BY <1>4 DEF Tells
  <2> QED BY <1>8, <1>11, <2>2, <2>3, <2>4
<1>13. ASSUME got.complete, NEW i \in DOMAIN r.changes, ~ r.changes[i].onTarget
       PROVE  ToFetchedFile(r.changes[i]) \in ToSet(got.files)
  <2>1. how[i] = "whole" /\ i \in ToSet(sent) BY <1>4, <1>12, <1>13 DEF Tells
  <2>2. PICK k \in DOMAIN sent : sent[k] = i BY <2>1 DEF ToSet
  <2>3. sentFiles[k] = ToFetchedFile(r.changes[i]) BY <1>9, <2>1, <2>2
  <2>4. sentFiles[k] \in ToSet(sentFiles) BY <1>7, <1>8 DEF ToSet
  <2>5. compare.kind = "ok" => Named(sentFiles[k]) \in compare.paths
    <3>1. r.changes[i] \in Changes BY <1>5, Element, Zenon
    <3> PICK c : c = r.changes[i] OBVIOUS
    <3>2. Named(ToFetchedFile(c)) \in {c.oldPath, c.newPath}
      <4>1. c \in ToSet(r.changes) BY DEF ToSet
      <4>2. ~ (c.newFile /\ c.deletedFile) BY <4>1, RequestsAssumption
      <4> QED BY <4>2 DEF Named, ToFetchedFile
    <3> QED BY <1>13, <2>3, <3>2 DEF Compared
  <2>6. CASE differing = <<>> BY <1>3, <2>3, <2>4, <2>6 DEF Narrow
  <2>7. CASE differing # <<>>
    <3>1. compare.kind = "ok" /\ differing = <<compare.paths>> BY <1>2, <2>7 DEF PathsDifferingFromTarget
    <3>2. got.files = Among(sentFiles, {g \in ToSet(sentFiles) : Named(g) \in compare.paths}) BY <1>3, <2>7, <3>1 DEF Narrow
    <3>3. ToSet(got.files) = ToSet(sentFiles) \cap {g \in ToSet(sentFiles) : Named(g) \in compare.paths}
      BY <1>8, <3>2, AmongFacts
    <3> QED BY <2>3, <2>4, <2>5, <3>1, <3>3
  <2> QED BY <2>6, <2>7
<1> QED BY <1>12, <1>13 DEF Covered

\* What is known of the evidence: its files are a list.
Listed == evidence.files \in Seq(ToSet(evidence.files))

\* Before the reads nothing is held of a merge request, and while paths are still to be primed no read has
\* failed; what is to be primed is no link.
Priming ==
  /\ pc \in {"asked", "gathered"} => cache = NoCache
  /\ pc \in {"asked", "gathered", "resolved", "selected"} => wanted = <<>> /\ unanswered = {}
  /\ wanted # <<>> => unanswered = {}
  /\ wanted \in Seq(DOMAIN Traits) /\ ToSet(wanted) \cap evidence.symlinks = {}

EvidenceInv ==
  request \in RequestSet /\ Listed /\ EvidenceTypeOK /\ Priming /\ CoverageIsTrue /\ PrimedReadsAgree

LEMMA RequestParts ==
  ASSUME NEW r \in RequestSet
  PROVE  /\ r.remote \in BOOLEAN /\ r.changes \in Seq(Changes) /\ r.blobs \in [DOMAIN Traits -> Blobs]
         /\ DOMAIN r.blobs = DOMAIN Traits
         /\ \A p \in DOMAIN r.blobs : r.blobs[p].size = 0 => r.blobs[p].kind \in {"text", "gone"}
BY RequestsAssumption

LEMMA NoCacheEmpty == DOMAIN NoCache = {}
BY DEF NoCache

\* What a list is selected to is a list.
LEMMA AmongList ==
  ASSUME NEW s, s \in Seq(ToSet(s)), NEW S
  PROVE  Among(s, S) \in Seq(ToSet(Among(s, S))) /\ Len(Among(s, S)) \in Nat
<1>1. PICK f : f = Among(s, S) OBVIOUS
<1>2. f \in Seq(ToSet(s)) BY <1>1, AmongFacts
<1>3. f = [k \in 1 .. Len(f) |-> f[k]] /\ Len(f) \in Nat BY <1>2
<1>4. f \in Seq(ToSet(f)) BY <1>3, ListOfImages
<1> QED BY <1>1, <1>3, <1>4

LEMMA FetchedList ==
  ASSUME NEW r \in RequestSet, NEW how, NEW head, NEW v \in Versions(r.changes, how, head), NEW compare,
         NEW got, got = FetchSnapshot(Target, v, compare)
  PROVE  got.files \in Seq(ToSet(got.files))
<1>1. CASE v.head # Target.head
  <2>1. got.files = <<>> BY <1>1 DEF FetchSnapshot, Failed
  <2> QED BY <2>1
<1>2. CASE v.head = Target.head
  <2>1. PICK sentFiles : sentFiles = [k \in DOMAIN v.diffs |-> ToFetchedFile(v.diffs[k])] OBVIOUS
  <2>2. PICK sent \in Seq(DOMAIN r.changes) : Tells(v, r.changes, how, sent) BY VersionTells
  <2>3. Len(sent) \in Nat /\ DOMAIN v.diffs = 1 .. Len(sent)
    <3>1. Len(sent) \in Nat /\ DOMAIN sent = 1 .. Len(sent) BY LenProperties
    <3> QED BY <2>2, <3>1 DEF Tells
  <2>4. sentFiles = [k \in 1 .. Len(sent) |-> sentFiles[k]] BY <2>1, <2>3
  <2>5. sentFiles \in Seq(ToSet(sentFiles)) BY <2>3, <2>4, ListOfImages
  <2>6. got.files = Narrow(sentFiles, PathsDifferingFromTarget(Target, compare)) BY <1>2, <2>1 DEF FetchSnapshot
  <2> QED BY <2>5, <2>6, AmongList DEF Narrow
<1> QED BY <1>1, <1>2

\* A set that is put in some order is finite, and the list has nothing else.
LEMMA SetInOrder ==
  ASSUME NEW S, IsFiniteSet(S)
  PROVE  SetToSeq(S) \in Seq(S) /\ ToSet(SetToSeq(S)) \subseteq S
<1>1. PICK n \in Nat : ExistsBijection(1 .. n, S) BY FS_NatBijection
<1>2. Cardinality(S) = n BY <1>1, FS_CountingElements
<1>3. \E f \in [1 .. Cardinality(S) -> S] : IsInjective(f)
  <2>1. PICK f \in Bijection(1 .. n, S) : TRUE BY <1>1 DEF ExistsBijection
  <2>2. f \in [1 .. n -> S] /\ IsInjective(f) BY <2>1 DEF Bijection, Injection
  <2> QED BY <1>2, <2>2
<1>4. SetToSeq(S) \in [1 .. Cardinality(S) -> S] BY <1>3 DEF SetToSeq
<1>5. SetToSeq(S) \in Seq(S) BY <1>2, <1>4, IsASeq
<1> QED BY <1>4, <1>5 DEF ToSet

\* The nodes of a batch, and what is held once it is taken in.
Answers(batch, r, some, texts, paths) ==
  /\ some \subseteq paths /\ \A p \in some : r.blobs[p].kind # "gone"
  /\ batch.nodes = {Node(p, r.blobs[p], p \in texts) : p \in some}
Takes(new, old, paths, links, r) ==
  /\ DOMAIN new \subseteq DOMAIN old \union paths /\ DOMAIN old \subseteq DOMAIN new
  /\ \A p \in DOMAIN new : \/ p \in DOMAIN old /\ new[p] = old[p]
                           \/ new[p] = Fetch(p, links, r.blobs[p], TRUE)
                           \/ new[p] \in AsServed(p, links, r.blobs[p], TRUE)

LEMMA NodeFields ==
  ASSUME NEW p, NEW b, NEW asText
  PROVE  /\ Node(p, b, asText).path = p /\ Node(p, b, asText).rawSize = b.size
         /\ Node(p, b, asText).textSize = IF asText THEN DecodedSize(b) ELSE 0
BY DEF Node

\* A text of the blob's length is the blob's, and the blob is UTF-8.
LEMMA LengthTells ==
  ASSUME NEW b \in Blobs, b.kind # "gone", b.size = 0 => b.kind \in {"text", "gone"}, NEW asText,
         (IF asText THEN DecodedSize(b) ELSE 0) = b.size
  PROVE  DecodedSize(b) = b.size /\ b.kind \in {"text", "disputed"}
<1>1. b.size \in Nat /\ b.kind \in {"text", "legacy", "binary", "disputed"} BY DEF Blobs
<1>2. CASE b.size = 0 BY <1>2 DEF DecodedSize
<1>3. CASE b.size # 0
  <2>1. DecodedSize(b) = b.size BY <1>1, <1>3
  <2> QED BY <1>1, <2>1 DEF DecodedSize
<1> QED BY <1>2, <1>3

\* A batch answers a path as its own read does, or as GitLab's own text of it.
LEMMA BatchedAsAlone ==
  ASSUME NEW r \in RequestSet, NEW paths \in SUBSET DOMAIN Traits, NEW links, paths \cap links = {},
         NEW some, NEW texts, NEW batch, Answers(batch, r, some, texts, paths), NEW old
  PROVE  Takes(PrimeBatch(old, paths, batch), old, paths, links, r)
<1>0. PICK new : new = PrimeBatch(old, paths, batch) OBVIOUS
<1>1. CASE batch.kind # "ok" \/ batch.hasNextPage BY <1>0, <1>1 DEF PrimeBatch, Takes
<1>2. CASE ~ (batch.kind # "ok" \/ batch.hasNextPage)
  <2> DEFINE served == {n \in batch.nodes : n.path \in paths /\ Served(n)}
             Value(p) == LET n == CHOOSE m \in served : m.path = p IN
                         IF n.rawSize > MaxFileBytes THEN TooLarge(n.rawSize) ELSE Text(n.textSize)
             primed == {n.path : n \in served}
  <2>1. new = [p \in primed \union DOMAIN old |-> IF p \in primed THEN Value(p) ELSE old[p]] BY <1>0, <1>2 DEF PrimeBatch
  <2>2. ASSUME NEW p \in primed
        PROVE  /\ p \in paths
               /\ Value(p) = Fetch(p, links, r.blobs[p], TRUE) \/ Value(p) \in AsServed(p, links, r.blobs[p], TRUE)
    <3>0. PICK n : n = CHOOSE m \in served : m.path = p OBVIOUS
    <3>1. n \in served /\ n.path = p BY <3>0
    <3>2. PICK q \in some : n = Node(q, r.blobs[q], q \in texts) BY <3>1 DEF Answers
    <3>3. q = p /\ p \in paths /\ Served(n) /\ p \in some BY <3>1, <3>2, NodeFields
    <3> PICK b : b = r.blobs[p] OBVIOUS
    <3>4. b \in Blobs /\ b.kind # "gone" /\ (b.size = 0 => b.kind \in {"text", "gone"}) BY <3>3, RequestParts DEF Answers
    <3>5. b.size \in Nat BY <3>4 DEF Blobs
    <3>6. n.rawSize = b.size /\ n.textSize = IF p \in texts THEN DecodedSize(b) ELSE 0
      <4> PICK asText : asText = (p \in texts) OBVIOUS
      <4>1. n = Node(p, b, asText) BY <3>2, <3>3
      <4>2. n.rawSize = b.size /\ n.textSize = IF asText THEN DecodedSize(b) ELSE 0 BY <4>1, NodeFields
      <4> QED BY <4>2
    <3>7. p \notin links BY <3>3
    <3>8. Value(p) = IF b.size > MaxFileBytes THEN TooLarge(b.size) ELSE Text(n.textSize) BY <3>0, <3>6
    <3>9. b.size > MaxFileBytes \/ n.textSize = b.size BY <3>3, <3>6 DEF Served
    <3>10. Fetch(p, links, b, TRUE) = IF b.size > MaxFileBytes THEN TooLarge(b.size)
             ELSE IF IsBinaryContent(b) THEN Binary ELSE Text(DecodedSize(b))
      BY <3>4, <3>7 DEF Fetch
    <3> HIDE DEF Value
    <3>11. CASE b.size > MaxFileBytes BY <3>3, <3>8, <3>10, <3>11
    <3>12. CASE ~ (b.size > MaxFileBytes)
      <4>1. n.textSize = b.size BY <3>9, <3>12
      <4>2. DecodedSize(b) = b.size /\ b.kind \in {"text", "disputed"} BY <3>4, <3>6, <4>1, LengthTells
      <4>3. Value(p) = Text(b.size) BY <3>8, <3>12, <4>1
      <4>4. CASE b.kind = "text" BY <3>3, <3>10, <3>12, <4>2, <4>3, <4>4 DEF IsBinaryContent
      <4>5. CASE b.kind = "disputed"
        <5>1. b.size <= MaxFileBytes BY <3>5, <3>12, EvidenceAssumption
        <5> QED BY <3>3, <3>7, <4>3, <4>5, <5>1 DEF AsServed
      <4> QED BY <4>2, <4>4, <4>5
    <3> QED BY <3>11, <3>12
  <2> HIDE DEF Value, primed
  <2>3. DOMAIN new = primed \union DOMAIN old BY <2>1
  <2>4. ASSUME NEW p \in DOMAIN new PROVE \/ p \in DOMAIN old /\ new[p] = old[p]
                                         \/ new[p] = Fetch(p, links, r.blobs[p], TRUE)
                                         \/ new[p] \in AsServed(p, links, r.blobs[p], TRUE)
    BY <2>1, <2>2, <2>3
  <2> QED BY <1>0, <2>2, <2>3, <2>4 DEF Takes
<1> QED BY <1>1, <1>2

LEMMA FilesAreList ==
  ASSUME Listed
  PROVE  Files \in Seq(ToSet(Files)) /\ PatchBytes(Files) \in Nat
BY AmongList DEF Listed, Files, Reviewable, PatchBytes

LEMMA NeededArePaths == Needed(Files) \subseteq DOMAIN Traits
BY DEF Needed

LEMMA InitEvidence == EvidenceInit => EvidenceInv
<1> SUFFICES ASSUME EvidenceInit PROVE EvidenceInv OBVIOUS
<1> USE NoCacheEmpty DEF EvidenceInit
<1>1. Listed BY DEF Listed, Failed
<1>2. EvidenceTypeOK BY DEF EvidenceTypeOK
<1>3. Priming BY DEF Priming, ToSet
<1>4. CoverageIsTrue BY DEF CoverageIsTrue, Failed
<1>5. PrimedReadsAgree BY DEF PrimedReadsAgree
<1> QED BY <1>1, <1>2, <1>3, <1>4, <1>5 DEF EvidenceInv

LEMMA KeptEvidence ==
  ASSUME EvidenceInv, UNCHANGED <<request, delivered, evidence>>
  PROVE  request' \in RequestSet /\ Listed' /\ CoverageIsTrue'
BY DEF EvidenceInv, Listed, CoverageIsTrue

\* A step that reads nothing.
LEMMA KeptReads ==
  ASSUME EvidenceInv, UNCHANGED <<request, delivered, evidence, wanted, cache, unanswered>>, prompt' \in Nat,
         pc' \in {"not judgeable", "refused", "planned", "composed", "too large"}
                 \union (IF pc = "asked" THEN {pc, "gathered"} ELSE IF pc = "resolved" THEN {pc, "selected"} ELSE {pc})
  PROVE  EvidenceInv'
<1>1. request' \in RequestSet /\ Listed' /\ CoverageIsTrue' BY KeptEvidence
<1>2. EvidenceTypeOK' BY DEF EvidenceInv, EvidenceTypeOK
<1>3. Priming'
  <2>1. pc' \in {"asked", "gathered"} => pc \in {"asked", "gathered"} OBVIOUS
  <2>2. pc' \in {"asked", "gathered", "resolved", "selected"} => pc \in {"asked", "gathered", "resolved", "selected"} OBVIOUS
  <2> QED BY <2>1, <2>2 DEF EvidenceInv, Priming
<1>4. PrimedReadsAgree' BY DEF EvidenceInv, PrimedReadsAgree
<1> QED BY <1>1, <1>2, <1>3, <1>4 DEF EvidenceInv

LEMMA ResolvedMergeRequest == ASSUME EvidenceInv, ResolveMergeRequest PROVE EvidenceInv'
<1> USE DEF EvidenceInv, ResolveMergeRequest
<1>1. PICK how \in [DOMAIN request.changes -> UNION {Ways(c) : c \in ToSet(request.changes)}],
           compare \in {[kind |-> "ok", paths |-> StillDiffers], [kind |-> "timeout", paths |-> {}]},
           head \in {Target.head, "moved"} :
        \E v \in Versions(request.changes, how, head) :
          /\ \A i \in DOMAIN how : how[i] \in Ways(request.changes[i])
          /\ delivered' = {i \in DOMAIN how : how[i] = "whole"}
          /\ evidence' = FetchSnapshot(Target, v, compare)
          /\ pc' = IF evidence'.kind = "ok" THEN "resolved" ELSE "failed"
  OBVIOUS
<1> PICK v \in Versions(request.changes, how, head) :
      /\ \A i \in DOMAIN how : how[i] \in Ways(request.changes[i])
      /\ delivered' = {i \in DOMAIN how : how[i] = "whole"}
      /\ evidence' = FetchSnapshot(Target, v, compare)
      /\ pc' = IF evidence'.kind = "ok" THEN "resolved" ELSE "failed"
  BY <1>1
<1>2. request' = request /\ DOMAIN how = DOMAIN request.changes OBVIOUS
<1>3. Listed' BY <1>1, FetchedList DEF Listed
<1>4. EvidenceTypeOK' BY <1>1 DEF EvidenceTypeOK
<1>5. cache' = NoCache /\ wanted' = <<>> /\ unanswered' = {} BY DEF Priming
<1>6. Priming' BY <1>1, <1>5 DEF Priming, ToSet
<1>7. PrimedReadsAgree' BY <1>5, NoCacheEmpty DEF PrimedReadsAgree
<1>8. CoverageIsTrue'
  <2>1. Compared(request, compare)
    <3> SUFFICES ASSUME compare.kind = "ok", NEW i \in DOMAIN request.changes, ~ request.changes[i].onTarget
                 PROVE  {request.changes[i].oldPath, request.changes[i].newPath} \subseteq compare.paths
      BY DEF Compared
    <3>1. compare.paths = StillDiffers BY <1>1
    <3>2. request.changes[i] \in ToSet(request.changes) BY DEF ToSet
    <3> QED BY <3>1, <3>2 DEF StillDiffers
  <2>2. Possible(request, how) BY <1>2 DEF Possible
  <2>3. evidence'.kind = "ok" => Covered(request, how, evidence') BY <2>1, <2>2, FetchedCoverage
  <2>4. delivered' = {i \in DOMAIN request.changes : how[i] = "whole"} BY <1>2
  <2> QED BY <1>2, <2>3, <2>4 DEF CoverageIsTrue, Covered
<1> QED BY <1>2, <1>3, <1>4, <1>6, <1>7, <1>8

LEMMA ResolvedLocal == ASSUME EvidenceInv, ResolveLocal PROVE EvidenceInv'
<1> USE DEF EvidenceInv, ResolveLocal
<1>1. request' = request /\ ~ request.remote OBVIOUS
<1>2. PICK n \in Nat : DOMAIN request.changes = 1 .. n
  <2>1. request.changes \in Seq(Changes) BY RequestParts
  <2> QED BY <2>1, LenProperties
<1>3. Listed'
  <2> PICK f : f = [i \in DOMAIN request.changes |-> ToFetchedFile(request.changes[i])] OBVIOUS
  <2>1. evidence'.files = f BY DEF Failed
  <2>2. f = [i \in 1 .. n |-> f[i]] BY <1>2
  <2> QED BY <2>1, <2>2, ListOfImages DEF Listed
<1>4. wanted' = <<>> /\ unanswered' = {} BY DEF Priming
<1>5. EvidenceTypeOK' BY <1>4, RequestParts DEF EvidenceTypeOK
<1>6. Priming' BY <1>4 DEF Priming, ToSet
<1>7. CoverageIsTrue' /\ PrimedReadsAgree' BY <1>1 DEF CoverageIsTrue, PrimedReadsAgree
<1> QED BY <1>1, <1>3, <1>5, <1>6, <1>7

LEMMA ResolvedPolicies == ASSUME EvidenceInv, ResolvePolicies PROVE EvidenceInv'
<1> USE DEF EvidenceInv, ResolvePolicies
<1>1. request' \in RequestSet /\ Listed' /\ CoverageIsTrue' BY KeptEvidence
<1>2. EvidenceTypeOK' BY DEF EvidenceTypeOK
<1>3. wanted' \in Seq(DOMAIN Traits) /\ ToSet(wanted') \cap evidence.symlinks = {}
  <2> PICK S : S = {p \in Needed(Files) : Primable(p, cache, evidence.symlinks)} OBVIOUS
  <2>1. S \subseteq DOMAIN Traits /\ S \cap evidence.symlinks = {} BY NeededArePaths DEF Primable
  <2>2. IsFiniteSet(S) BY <2>1, FS_Subset, PlanAssumption
  <2>3. SetToSeq(S) \in Seq(S) /\ ToSet(SetToSeq(S)) \subseteq S BY <2>2, SetInOrder
  <2>4. SetToSeq(S) \in Seq(DOMAIN Traits) BY <2>1, <2>3, SeqMonotonic
  <2>5. wanted' = SetToSeq(S) \/ wanted' = <<>> OBVIOUS
  <2>6. ToSet(<<>>) = {} /\ <<>> \in Seq(DOMAIN Traits) BY DEF ToSet
  <2>7. CASE wanted' = SetToSeq(S) BY <2>1, <2>3, <2>4, <2>7
  <2>8. CASE wanted' = <<>> BY <2>6, <2>8
  <2> QED BY <2>5, <2>7, <2>8
<1>4. Priming' BY <1>3 DEF Priming
<1>5. PrimedReadsAgree' BY DEF PrimedReadsAgree
<1> QED BY <1>1, <1>2, <1>4, <1>5

LEMMA Primed == ASSUME EvidenceInv, Prime PROVE EvidenceInv'
<1> USE DEF EvidenceInv
<1>1. pc = "reading" /\ wanted # <<>> /\ UNCHANGED <<pc, request, requirements, policies, delivered, evidence, unanswered, plan, prompt>>
  BY DEF Prime
<1>2. request' \in RequestSet /\ Listed' /\ CoverageIsTrue' BY <1>1, KeptEvidence
<1> PICK asked : asked = ToSet(FirstUpTo(BatchPaths, wanted)) OBVIOUS
<1>3. PICK kind \in {"ok", "failed"}, some \in SUBSET {p \in asked : request.blobs[p].kind # "gone"}, more \in BOOLEAN :
        \E texts \in SUBSET some :
          cache' = PrimeBatch(cache, asked, [kind |-> kind, hasNextPage |-> more,
                                             nodes |-> {Node(p, request.blobs[p], p \in texts) : p \in some}])
  BY DEF Prime
<1>4. wanted \in Seq(DOMAIN Traits) /\ unanswered = {} BY <1>1 DEF Priming
<1>5. asked \subseteq ToSet(wanted)
  <2> PICK n : n = IF BatchPaths < Len(wanted) THEN BatchPaths ELSE Len(wanted) OBVIOUS
  <2>1. n \in 0 .. Len(wanted) BY <1>4, ReviewEvidenceAssumption
  <2>2. FirstUpTo(BatchPaths, wanted) = SubSeq(wanted, 1, n) BY DEF FirstUpTo, Lesser
  <2>3. \A i \in 1 .. n : SubSeq(wanted, 1, n)[i] = wanted[i] /\ i \in DOMAIN wanted BY <1>4, <2>1
  <2>4. DOMAIN SubSeq(wanted, 1, n) = 1 .. n BY <1>4, <2>1
  <2> QED BY <2>2, <2>3, <2>4 DEF ToSet
<1>6. wanted' \in Seq(DOMAIN Traits) /\ ToSet(wanted') \subseteq ToSet(wanted)
  <2>1. wanted' = SubSeq(wanted, BatchPaths + 1, Len(wanted)) BY DEF Prime
  <2>2. wanted' \in Seq(DOMAIN Traits) BY <1>4, <2>1, ReviewEvidenceAssumption, SubSeqProperties
  <2>3. \A i \in DOMAIN wanted' : \E j \in DOMAIN wanted : wanted'[i] = wanted[j]
    <3> SUFFICES ASSUME NEW i \in DOMAIN wanted' PROVE \E j \in DOMAIN wanted : wanted'[i] = wanted[j] OBVIOUS
    <3>1. Len(wanted) \in Nat /\ BatchPaths \in Nat /\ BatchPaths > 0 BY <1>4, ReviewEvidenceAssumption
    <3>2. i \in 1 .. Len(wanted) - BatchPaths /\ wanted'[i] = wanted[BatchPaths + i] BY <1>4, <2>1, <3>1
    <3>3. BatchPaths + i \in 1 .. Len(wanted) BY <3>1, <3>2
    <3>4. BatchPaths + i \in DOMAIN wanted BY <1>4, <3>3
    <3> QED BY <3>2, <3>4
  <2> QED BY <2>2, <2>3 DEF ToSet
<1>7. asked \subseteq DOMAIN Traits
  <2>1. ToSet(wanted) \subseteq DOMAIN Traits BY <1>4, Element DEF ToSet
  <2> QED BY <1>5, <2>1
<1>8. asked \cap evidence.symlinks = {} BY <1>5 DEF Priming
<1> PICK texts \in SUBSET some :
      cache' = PrimeBatch(cache, asked, [kind |-> kind, hasNextPage |-> more,
                                         nodes |-> {Node(p, request.blobs[p], p \in texts) : p \in some}])
  BY <1>3
<1>9. Takes(cache', cache, asked, evidence.symlinks, request)
  <2> PICK batch : batch = [kind |-> kind, hasNextPage |-> more,
                            nodes |-> {Node(p, request.blobs[p], p \in texts) : p \in some}]
    OBVIOUS
  <2>1. cache' = PrimeBatch(cache, asked, batch) OBVIOUS
  <2>2. Answers(batch, request, some, texts, asked) BY DEF Answers
  <2> QED BY <1>7, <1>8, <2>1, <2>2, BatchedAsAlone
<1>10. EvidenceTypeOK' BY <1>1, <1>7, <1>9, RequestParts DEF EvidenceTypeOK, Takes
<1>11. Priming' BY <1>1, <1>4, <1>6 DEF Priming
<1>12. PrimedReadsAgree'
  <2> SUFFICES ASSUME request.remote, NEW p \in DOMAIN cache'
               PROVE  \/ cache'[p] = Fetch(p, evidence.symlinks, request.blobs[p], p \notin {})
                      \/ cache'[p] \in AsServed(p, evidence.symlinks, request.blobs[p], p \notin {})
    BY <1>1, <1>4 DEF PrimedReadsAgree
  <2>1. p \in DOMAIN cache => \/ cache[p] = Fetch(p, evidence.symlinks, request.blobs[p], p \notin {})
                              \/ cache[p] \in AsServed(p, evidence.symlinks, request.blobs[p], p \notin {})
    BY <1>4 DEF PrimedReadsAgree
  <2>2. (p \notin {}) = TRUE OBVIOUS
  <2> QED BY <1>9, <2>1, <2>2 DEF Takes
<1> QED BY <1>2, <1>10, <1>11, <1>12

LEMMA ReadAlone == ASSUME EvidenceInv, Read PROVE EvidenceInv'
<1> USE DEF EvidenceInv
<1>1. PICK p \in Needed(Files) \ DOMAIN cache, answered \in BOOLEAN :
        /\ cache' = [q \in DOMAIN cache \union {p} |->
                       IF q = p THEN Fetch(p, evidence.symlinks, request.blobs[p], answered) ELSE cache[q]]
        /\ unanswered' = IF answered THEN unanswered ELSE unanswered \union {p}
  BY DEF Read
<1>2. wanted = <<>> /\ pc = "reading" /\ UNCHANGED <<pc, request, requirements, policies, delivered, evidence, wanted, plan, prompt>>
  BY DEF Read
<1>3. request' \in RequestSet /\ Listed' /\ CoverageIsTrue' BY <1>2, KeptEvidence
<1>4. p \in DOMAIN request.blobs /\ unanswered \subseteq DOMAIN cache
  BY NeededArePaths, RequestParts DEF EvidenceTypeOK
<1>5. EvidenceTypeOK' BY <1>1, <1>2, <1>4 DEF EvidenceTypeOK
<1>6. Priming' BY <1>2 DEF Priming
<1>7. PrimedReadsAgree'
  <2> SUFFICES ASSUME request.remote, NEW q \in DOMAIN cache'
               PROVE  \/ cache'[q] = Fetch(q, evidence.symlinks, request.blobs[q], q \notin unanswered')
                      \/ cache'[q] \in AsServed(q, evidence.symlinks, request.blobs[q], q \notin unanswered')
    BY <1>2 DEF PrimedReadsAgree
  <2>1. CASE q = p
    <3>1. (p \notin unanswered') = answered BY <1>1, <1>4
    <3>2. cache'[p] = Fetch(p, evidence.symlinks, request.blobs[p], answered) BY <1>1
    <3> QED BY <2>1, <3>1, <3>2
  <2>2. CASE q # p
    <3>1. q \in DOMAIN cache /\ cache'[q] = cache[q] BY <1>1, <2>2
    <3>2. (q \notin unanswered') = (q \notin unanswered) BY <1>1, <2>2
    <3>3. \/ cache[q] = Fetch(q, evidence.symlinks, request.blobs[q], q \notin unanswered)
          \/ cache[q] \in AsServed(q, evidence.symlinks, request.blobs[q], q \notin unanswered)
      BY <3>1 DEF PrimedReadsAgree
    <3> QED BY <3>1, <3>2, <3>3
  <2> QED BY <2>1, <2>2
<1> QED BY <1>3, <1>5, <1>6, <1>7

LEMMA EvidenceStep == ASSUME EvidenceInv, [EvidenceNext]_evidence_vars PROVE EvidenceInv'
<1>1. EvidenceTypeOK BY DEF EvidenceInv
<1>2. prompt \in Nat BY <1>1 DEF EvidenceTypeOK
<1>3. CASE GatherRequirements BY <1>2, <1>3, KeptReads DEF GatherRequirements
<1>4. CASE ResolveMergeRequest BY <1>4, ResolvedMergeRequest
<1>5. CASE ResolveLocal BY <1>5, ResolvedLocal
<1>6. CASE Select BY <1>2, <1>6, KeptReads DEF Select
<1>7. CASE ResolvePolicies BY <1>7, ResolvedPolicies
<1>8. CASE Prime BY <1>8, Primed
<1>9. CASE Read BY <1>9, ReadAlone
<1>10. CASE Plan BY <1>2, <1>10, KeptReads DEF Plan
<1>11. CASE Compose
  <2>1. PatchBytes(Files) \in Nat BY FilesAreList DEF EvidenceInv
  <2>2. prompt' \in Nat
    <3>1. PICK rest \in 0 .. Reserve + 1 : prompt' = PatchBytes(Files) + rest BY <1>11 DEF Compose
    <3> QED BY <2>1, <3>1, PlanAssumption
  <2> QED BY <1>11, <2>2, KeptReads DEF Compose
<1>12. CASE UNCHANGED evidence_vars
  BY <1>2, <1>12, KeptReads DEF evidence_vars
<1> QED BY <1>3, <1>4, <1>5, <1>6, <1>7, <1>8, <1>9, <1>10, <1>11, <1>12 DEF EvidenceNext

(***************************************************************************)
(* What a review is judged against.                                        *)
(***************************************************************************)
\* No problem is found exactly when each of the five says "none".
LEMMA NoProblem ==
  ASSUME NEW p, Len(p) = 5
  PROVE  ~ (FirstProblem(p) > 0) <=> \A i \in 1 .. 5 : p[i] = "none"
<1> DEFINE I == {i \in 1 .. Len(p) : p[i] # "none"}
<1>1. FirstProblem(p) = IF I # {} THEN Min(I) ELSE 0 BY DEF FirstProblem, SelectInSeq
<1>2. I # {} => Min(I) > 0
  <2> SUFFICES ASSUME I # {} PROVE Min(I) > 0 OBVIOUS
  <2>1. I \subseteq 1 .. 5 /\ I \in SUBSET Nat OBVIOUS
  <2> HIDE DEF I
  <2>2. PICK n \in I : \A m \in I : ~ (m < n) BY <2>1, Least
  <2>3. \A m \in I : n <= m BY <2>1, <2>2
  <2>4. Min(I) \in I BY <2>3 DEF Min
  <2>5. \A m \in 1 .. 5 : m > 0 OBVIOUS
  <2> QED BY <2>1, <2>4, <2>5
<1>3. I = {} <=> \A i \in 1 .. 5 : p[i] = "none" OBVIOUS
<1> HIDE DEF I
<1> QED BY <1>1, <1>2, <1>3

\* The places of the URLs that were written, and a source for each and of each.
Matched(written, sources, match) ==
  /\ match \in Bijection(Asked(written), DOMAIN sources)
  /\ \A i \in Asked(written), j \in DOMAIN sources : SameUrl(written[i], sources[j].url) <=> j = match[i]
Answerable(written, supplied, configured) ==
  /\ {written[i] : i \in Asked(written)} \subseteq Retrievable
  /\ supplied.kind = "envelope" /\ ~ supplied.conflicts
  /\ configured \in {NoServer, supplied.server}
  /\ \E match : Matched(written, supplied.sources, match)
  /\ \A s \in ToSet(supplied.sources) : s.status = "retrieved" /\ s.content # Blank
  /\ \A i, j \in DOMAIN supplied.sources : supplied.sources[i].id = supplied.sources[j].id => i = j

\* No URL twice, and every one is retrieved once.
Separate(written) == \A i, j \in Asked(written) : SameUrl(written[i], written[j]) => i = j
OnePerUrl(written, sources) ==
  /\ \A k \in Asked(written) : \E j \in DOMAIN sources : SameUrl(written[k], sources[j].url)
  /\ \A k \in Asked(written), i, j \in DOMAIN sources :
       SameUrl(written[k], sources[i].url) /\ SameUrl(written[k], sources[j].url) => i = j
  /\ \A j \in DOMAIN sources : \E k \in Asked(written) : SameUrl(written[k], sources[j].url)

LEMMA MatchedIsOnePerUrl ==
  ASSUME NEW written, NEW sources
  PROVE  (\E match : Matched(written, sources, match)) <=> Separate(written) /\ OnePerUrl(written, sources)
<1>1. ASSUME NEW match, Matched(written, sources, match) PROVE Separate(written) /\ OnePerUrl(written, sources)
  <2>1. /\ match \in [Asked(written) -> DOMAIN sources] /\ \A a, b \in Asked(written) : match[a] = match[b] => a = b
        /\ \A j \in DOMAIN sources : \E k \in Asked(written) : match[k] = j
    BY <1>1 DEF Matched, Bijection, Injection, Surjection, IsInjective
  <2>2. \A i \in Asked(written), j \in DOMAIN sources : SameUrl(written[i], sources[j].url) <=> j = match[i]
    BY <1>1 DEF Matched
  <2>3. Separate(written)
    <3> SUFFICES ASSUME NEW i \in Asked(written), NEW j \in Asked(written), SameUrl(written[i], written[j]) PROVE i = j
      BY DEF Separate
    <3>1. SameUrl(written[j], sources[match[j]].url) BY <2>1, <2>2
    <3>2. SameUrl(written[i], sources[match[j]].url) BY <3>1 DEF SameUrl
    <3>3. match[j] = match[i] BY <2>1, <2>2, <3>2
    <3> QED BY <2>1, <3>3
  <2>4. OnePerUrl(written, sources) BY <2>1, <2>2 DEF OnePerUrl
  <2> QED BY <2>3, <2>4
<1>2. ASSUME Separate(written), OnePerUrl(written, sources) PROVE \E match : Matched(written, sources, match)
  <2> DEFINE match == [i \in Asked(written) |-> CHOOSE j \in DOMAIN sources : SameUrl(written[i], sources[j].url)]
  <2>1. \A i \in Asked(written) : match[i] \in DOMAIN sources /\ SameUrl(written[i], sources[match[i]].url)
    BY <1>2 DEF OnePerUrl
  <2>2. match \in [Asked(written) -> DOMAIN sources] BY <2>1
  <2> HIDE DEF match
  <2>3. \A i \in Asked(written), j \in DOMAIN sources : SameUrl(written[i], sources[j].url) <=> j = match[i]
    BY <1>2, <2>1 DEF OnePerUrl
  <2>4. \A a, b \in Asked(written) : match[a] = match[b] => a = b
    <3> SUFFICES ASSUME NEW a \in Asked(written), NEW b \in Asked(written), match[a] = match[b] PROVE a = b OBVIOUS
    <3>1. SameUrl(written[a], sources[match[a]].url) /\ SameUrl(written[b], sources[match[a]].url) BY <2>1
    <3>2. SameUrl(written[a], written[b]) BY <3>1 DEF SameUrl
    <3> QED BY <1>2, <3>2 DEF Separate
  <2>5. \A j \in DOMAIN sources : \E k \in Asked(written) : match[k] = j BY <1>2, <2>3 DEF OnePerUrl
  <2>6. match \in Bijection(Asked(written), DOMAIN sources)
    BY <2>2, <2>4, <2>5 DEF Bijection, Injection, Surjection, IsInjective
  <2> QED BY <2>3, <2>6 DEF Matched
<1> QED BY <1>1, <1>2

\* The match is looked for in turn: one retrieval each, none without, none that was not asked for.
LEMMA MatchMeans ==
  ASSUME NEW written, NEW sources
  PROVE  MatchProblem({written[i] : i \in Asked(written)}, sources) = "none" <=>
           OnePerUrl(written, sources) /\ \A i, j \in DOMAIN sources :
             sources[i].id = sources[j].id => SameUrl(sources[i].url, sources[j].url)
<1> DEFINE urls == {written[i] : i \in Asked(written)}
           Extra == {i \in DOMAIN sources : \A u \in urls : ~ SameUrl(sources[i].url, u)}
<1>0. \A a, b : SameUrl(a, b) <=> SameUrl(b, a) BY DEF SameUrl
<1>1. (\E u \in urls : \E i, j \in Retrievals(u, sources) : i # j) <=>
        ~ \A k \in Asked(written), i, j \in DOMAIN sources :
            SameUrl(written[k], sources[i].url) /\ SameUrl(written[k], sources[j].url) => i = j
  BY <1>0 DEF Retrievals
<1>2. (\E u \in urls : Retrievals(u, sources) = {}) <=>
        ~ \A k \in Asked(written) : \E j \in DOMAIN sources : SameUrl(written[k], sources[j].url)
  BY <1>0 DEF Retrievals
<1>3. Extra # {} <=> ~ \A j \in DOMAIN sources : \E k \in Asked(written) : SameUrl(written[k], sources[j].url)
  BY <1>0
<1>4. (\E s, t \in ToSet(sources) : s.id = t.id /\ ~ SameUrl(s.url, t.url)) <=>
        ~ \A i, j \in DOMAIN sources : sources[i].id = sources[j].id => SameUrl(sources[i].url, sources[j].url)
  BY DEF ToSet
<1>5. MatchProblem(urls, sources) =
        IF \E u \in urls : \E i, j \in Retrievals(u, sources) : i # j THEN "ambiguous"
        ELSE IF \E u \in urls : Retrievals(u, sources) = {} THEN "not-retrieved"
        ELSE IF Extra # {} THEN "undeclared"
        ELSE IF \E s, t \in ToSet(sources) : s.id = t.id /\ ~ SameUrl(s.url, t.url) THEN "ambiguous"
        ELSE "none"
  BY DEF MatchProblem
<1> HIDE DEF urls, Extra
<1>6. MatchProblem(urls, sources) = "none" <=>
        /\ ~ (\E u \in urls : \E i, j \in Retrievals(u, sources) : i # j)
        /\ ~ (\E u \in urls : Retrievals(u, sources) = {})
        /\ Extra = {}
        /\ ~ (\E s, t \in ToSet(sources) : s.id = t.id /\ ~ SameUrl(s.url, t.url))
  BY <1>5
<1> QED BY <1>1, <1>2, <1>3, <1>4, <1>6 DEF OnePerUrl, urls

\* Of five problems none is found exactly when the evidence answers what was written.
LEMMA NoneMeansAnswerable ==
  ASSUME NEW written, NEW supplied \in Supplied, NEW configured, supplied.kind # "unreadable"
  PROVE  Answerable(written, supplied, configured) <=>
           /\ UrlProblem(written) = "none" /\ supplied.kind # "none"
           /\ ServerProblem(configured, supplied.server) = "none"
           /\ MatchProblem({written[i] : i \in Asked(written)}, supplied.sources) = "none"
           /\ SourceProblem(ToSet(supplied.sources), supplied.conflicts) = "none"
<1>1. PICK sources : sources = supplied.sources OBVIOUS
<1>2. UrlProblem(written) = "none" <=>
        {written[i] : i \in Asked(written)} \subseteq Retrievable /\ Separate(written)
  BY DEF UrlProblem, Separate
<1>3. supplied.kind # "none" <=> supplied.kind = "envelope" BY DEF Supplied
<1>4. ServerProblem(configured, supplied.server) = "none" <=> configured \in {NoServer, supplied.server}
  BY DEF ServerProblem
<1>5. SourceProblem(ToSet(sources), supplied.conflicts) = "none" <=>
        /\ ~ supplied.conflicts
        /\ \A s \in ToSet(sources) : s.status = "retrieved" /\ s.content # Blank
        /\ \A s, t \in ToSet(sources) : SameUrl(s.url, t.url) => s.content = t.content
  BY DEF SourceProblem
<1>6. ASSUME OnePerUrl(written, sources)
      PROVE  \A i, j \in DOMAIN sources : SameUrl(sources[i].url, sources[j].url) => i = j
  <2> SUFFICES ASSUME NEW i \in DOMAIN sources, NEW j \in DOMAIN sources, SameUrl(sources[i].url, sources[j].url)
               PROVE  i = j
    OBVIOUS
  <2>1. PICK k \in Asked(written) : SameUrl(written[k], sources[j].url) BY <1>6 DEF OnePerUrl
  <2>2. SameUrl(written[k], sources[i].url) BY <2>1 DEF SameUrl
  <2> QED BY <1>6, <2>1, <2>2 DEF OnePerUrl
<1>7. ASSUME OnePerUrl(written, sources)
      PROVE  /\ \A s, t \in ToSet(sources) : SameUrl(s.url, t.url) => s.content = t.content
             /\ (\A i, j \in DOMAIN sources : sources[i].id = sources[j].id => SameUrl(sources[i].url, sources[j].url))
                  <=> \A i, j \in DOMAIN sources : sources[i].id = sources[j].id => i = j
  <2>1. \A i, j \in DOMAIN sources : i = j => SameUrl(sources[i].url, sources[j].url) BY DEF SameUrl
  <2>2. \A i, j \in DOMAIN sources : SameUrl(sources[i].url, sources[j].url) => i = j BY <1>6, <1>7
  <2> QED BY <2>1, <2>2 DEF ToSet
<1> QED
  <2>1. Answerable(written, supplied, configured) <=>
          /\ {written[i] : i \in Asked(written)} \subseteq Retrievable
          /\ supplied.kind = "envelope" /\ ~ supplied.conflicts
          /\ configured \in {NoServer, supplied.server}
          /\ Separate(written) /\ OnePerUrl(written, sources)
          /\ \A s \in ToSet(sources) : s.status = "retrieved" /\ s.content # Blank
          /\ \A i, j \in DOMAIN sources : sources[i].id = sources[j].id => i = j
    BY <1>1, MatchedIsOnePerUrl DEF Answerable
  <2>2. MatchProblem({written[i] : i \in Asked(written)}, supplied.sources) = "none" <=>
          OnePerUrl(written, sources) /\ \A i, j \in DOMAIN sources :
            sources[i].id = sources[j].id => SameUrl(sources[i].url, sources[j].url)
    BY <1>1, MatchMeans
  <2>3. SourceProblem(ToSet(supplied.sources), supplied.conflicts) = "none" <=>
          /\ ~ supplied.conflicts
          /\ \A s \in ToSet(sources) : s.status = "retrieved" /\ s.content # Blank
          /\ \A s, t \in ToSet(sources) : SameUrl(s.url, t.url) => s.content = t.content
    BY <1>1, <1>5
  <2> QED BY <1>2, <1>3, <1>4, <1>7, <2>1, <2>2, <2>3, Zenon

\* What an answer of normalizeRequirements says of the URLs that were asked for.
Decided(got, urls, supplied, answerable) ==
  /\ got.mode = "requirement-based" <=> urls # {} /\ answerable
  /\ got.mode = "source-free" <=> urls = {} /\ supplied.sources = <<>> /\ supplied.kind # "unreadable"
  /\ got.sources = IF got.mode = "requirement-based" THEN ToSet(supplied.sources) ELSE {}

LEMMA NormalizeMeans ==
  ASSUME NEW written, NEW supplied \in Supplied, NEW configured, NEW got,
         got = NormalizeRequirements(written, supplied, configured)
  PROVE  Decided(got, {written[i] : i \in Asked(written)}, supplied, Answerable(written, supplied, configured))
<1> PICK urls : urls = {written[i] : i \in Asked(written)} OBVIOUS
<1> PICK sources : sources = ToSet(supplied.sources) OBVIOUS
<1>1. sources = {} <=> supplied.sources = <<>>
  <2> PICK s : s = supplied.sources OBVIOUS
  <2>1. s \in Seq([id : STRING, url : DOMAIN Canonical, status : STRING, content : STRING]) BY DEF Supplied
  <2>2. Len(s) \in Nat /\ DOMAIN s = 1 .. Len(s) BY <2>1
  <2>3. s # <<>> => 1 \in DOMAIN s BY <2>1, <2>2, EmptySeq
  <2>4. ToSet(s) = {s[i] : i \in DOMAIN s} BY DEF ToSet
  <2>5. s # <<>> => ToSet(s) # {} BY <2>3, <2>4
  <2>6. s = <<>> => ToSet(s) = {}
    <3>1. ToSet(<<>>) = {} BY DEF ToSet
    <3> QED BY <3>1
  <2> QED BY <2>5, <2>6
<1>2. PICK problems : problems = <<UrlProblem(written), IF supplied.kind = "none" THEN "not-retrieved" ELSE "none",
                                   ServerProblem(configured, supplied.server), MatchProblem(urls, supplied.sources),
                                   SourceProblem(sources, supplied.conflicts)>>
  OBVIOUS
<1>3. Len(problems) = 5 BY <1>2
<1>4. got = IF supplied.kind = "unreadable" THEN Refused("unreadable")
            ELSE IF urls = {} THEN IF sources = {} THEN SourceFree ELSE Refused("undeclared")
            ELSE IF FirstProblem(problems) > 0 THEN Refused(problems[FirstProblem(problems)])
            ELSE [mode |-> "requirement-based", code |-> "none", sources |-> sources,
                  server |-> BoundServer(configured, supplied.server)]
  BY <1>2 DEF NormalizeRequirements
<1>5. \A code : Refused(code).mode = "refused" /\ Refused(code).sources = {} BY DEF Refused
<1>6. SourceFree.mode = "source-free" /\ SourceFree.sources = {} BY DEF SourceFree
<1>7. ASSUME supplied.kind # "unreadable"
      PROVE  ~ (FirstProblem(problems) > 0) <=> Answerable(written, supplied, configured)
  <2>1. ~ (FirstProblem(problems) > 0) <=> \A i \in 1 .. 5 : problems[i] = "none" BY <1>3, NoProblem
  <2>2. (\A i \in 1 .. 5 : problems[i] = "none") <=>
          /\ UrlProblem(written) = "none" /\ supplied.kind # "none"
          /\ ServerProblem(configured, supplied.server) = "none"
          /\ MatchProblem(urls, supplied.sources) = "none"
          /\ SourceProblem(sources, supplied.conflicts) = "none"
    <3>1. \A i \in 1 .. 5 : i = 1 \/ i = 2 \/ i = 3 \/ i = 4 \/ i = 5 OBVIOUS
    <3> QED BY <1>2, <3>1
  <2> QED BY <1>7, <2>1, <2>2, NoneMeansAnswerable
<1>8. supplied.kind = "unreadable" => ~ Answerable(written, supplied, configured) BY DEF Answerable
<1> PICK answerable : answerable = Answerable(written, supplied, configured) OBVIOUS
<1>9. CASE supplied.kind = "unreadable"
  <2>1. got = Refused("unreadable") BY <1>4, <1>9
  <2>2. got.mode = "refused" /\ got.sources = {} /\ ~ answerable BY <1>5, <1>8, <1>9, <2>1
  <2>3. Decided(got, urls, supplied, answerable) BY <1>9, <2>2 DEF Decided
  <2> QED BY <2>3
<1>10. CASE supplied.kind # "unreadable" /\ urls = {}
  <2>1. got = IF sources = {} THEN SourceFree ELSE Refused("undeclared") BY <1>4, <1>10
  <2>2. got.mode = (IF sources = {} THEN "source-free" ELSE "refused") /\ got.sources = {} BY <1>5, <1>6, <2>1
  <2>3. Decided(got, urls, supplied, answerable) BY <1>1, <1>10, <2>2 DEF Decided
  <2> QED BY <2>3
<1>11. CASE supplied.kind # "unreadable" /\ urls # {}
  <2>1. CASE FirstProblem(problems) > 0
    <3>1. got.mode = "refused" /\ got.sources = {} /\ ~ answerable BY <1>4, <1>5, <1>7, <1>11, <2>1
    <3>2. Decided(got, urls, supplied, answerable) BY <1>11, <3>1 DEF Decided
    <3> QED BY <3>2
  <2>2. CASE ~ (FirstProblem(problems) > 0)
    <3>1. got.mode = "requirement-based" /\ got.sources = sources /\ answerable BY <1>4, <1>7, <1>11, <2>2
    <3>2. Decided(got, urls, supplied, answerable) BY <1>11, <3>1 DEF Decided
    <3> QED BY <3>2
  <2> QED BY <2>1, <2>2
<1> QED BY <1>9, <1>10, <1>11

\* Once requirements are gathered they are the answer to the request, and the review stops where it must.
Gathered ==
  pc # "asked" => /\ requirements = NormalizeRequirements(request.urls, request.supplied, request.server)
                  /\ pc = "not judgeable" <=> requirements.mode = "refused"

LEMMA GatheredKept == ASSUME Gathered, [EvidenceNext]_evidence_vars PROVE Gathered'
<1>1. CASE GatherRequirements BY <1>1 DEF GatherRequirements, Gathered
<1>2. CASE UNCHANGED evidence_vars BY <1>2 DEF evidence_vars, Gathered
<1>3. CASE pc \notin {"asked", "not judgeable"} /\ pc' \notin {"asked", "not judgeable"}
           /\ UNCHANGED <<request, requirements>>
  BY <1>3 DEF Gathered
<1>4. ASSUME ResolveMergeRequest \/ ResolveLocal \/ Select \/ ResolvePolicies \/ Prime \/ Read \/ Plan \/ Compose
      PROVE  pc \notin {"asked", "not judgeable"} /\ pc' \notin {"asked", "not judgeable"} /\ UNCHANGED <<request, requirements>>
  BY <1>4 DEF ResolveMergeRequest, ResolveLocal, Select, ResolvePolicies, Prime, Read, Plan, Compose
<1> QED BY <1>1, <1>2, <1>3, <1>4 DEF EvidenceNext

LEMMA GatheredIsJudged == ASSUME request \in RequestSet, Gathered PROVE JudgedAgainstWhatWasAsked
<1> SUFFICES ASSUME pc # "asked" PROVE JudgedAgainstWhatWasAsked BY DEF JudgedAgainstWhatWasAsked
<1>1. request.supplied \in Supplied BY RequestsAssumption
<1>2. requirements = NormalizeRequirements(request.urls, request.supplied, request.server) BY DEF Gathered
<1>3. Asked(request.urls) = {i \in DOMAIN request.urls : request.urls[i] # Blank} BY DEF Asked
<1>4. {request.urls[i] : i \in Asked(request.urls)} = WrittenUrls BY <1>3 DEF ToSet, WrittenUrls
<1>5. Answerable(request.urls, request.supplied, request.server) <=> Answered
  <2>1. (\E match : Matched(request.urls, request.supplied.sources, match)) <=>
          \E match \in Bijection(Asked(request.urls), DOMAIN request.supplied.sources) :
             \A i \in Asked(request.urls), j \in DOMAIN request.supplied.sources :
               SameUrl(request.urls[i], request.supplied.sources[j].url) <=> j = match[i]
    BY DEF Matched
  <2> QED BY <1>3, <1>4, <2>1 DEF Answerable, Answered
<1>6. pc = "not judgeable" <=> requirements.mode = "refused" BY DEF Gathered
<1>7. Decided(requirements, WrittenUrls, request.supplied, Answerable(request.urls, request.supplied, request.server))
  BY <1>1, <1>2, <1>4, NormalizeMeans
<1>8. /\ requirements.mode = "requirement-based" <=> WrittenUrls # {} /\ Answered
      /\ requirements.mode = "source-free"
           <=> WrittenUrls = {} /\ request.supplied.sources = <<>> /\ request.supplied.kind # "unreadable"
      /\ requirements.sources = IF requirements.mode = "requirement-based" THEN ToSet(request.supplied.sources) ELSE {}
  BY <1>5, <1>7 DEF Decided
<1> QED BY <1>6, <1>8 DEF JudgedAgainstWhatWasAsked

(***************************************************************************)
(* The theorems.                                                           *)
(***************************************************************************)
\* The evidence of every reachable state is of known kind, its coverage is true and its reads agree.
THEOREM EvidenceInvariance == EvidenceSpec => []EvidenceInv
<1>1. EvidenceInit => EvidenceInv BY InitEvidence
<1>2. EvidenceInv /\ [EvidenceNext]_evidence_vars => EvidenceInv' BY EvidenceStep
<1> QED BY <1>1, <1>2, PTL DEF EvidenceSpec

THEOREM EvidenceTypeCorrect == EvidenceSpec => []EvidenceTypeOK
<1>1. EvidenceInv => EvidenceTypeOK BY DEF EvidenceInv
<1> QED BY <1>1, EvidenceInvariance, PTL

\* Whatever GitLab leaves out, holds back or cuts off, the recorded coverage of a merge request is true.
THEOREM CoverageHolds == EvidenceSpec => []CoverageIsTrue
<1>1. EvidenceInv => CoverageIsTrue BY DEF EvidenceInv
<1> QED BY <1>1, EvidenceInvariance, PTL

\* However a path's content came, it is what its own read gives, or the whole text of a file that GitLab takes
\* for text and isBinaryContent for binary (RemoteContent.prime, primeBatch, fetch).
THEOREM ReadsAgree == EvidenceSpec => []PrimedReadsAgree
<1>1. EvidenceInv => PrimedReadsAgree BY DEF EvidenceInv
<1> QED BY <1>1, EvidenceInvariance, PTL

\* A review is judged against what was asked for, or stops.
THEOREM JudgedAsAsked == EvidenceSpec => []JudgedAgainstWhatWasAsked
<1> DEFINE Known == request \in RequestSet /\ Gathered
<1>1. EvidenceInit => Known BY DEF EvidenceInit, Gathered
<1>2. Known /\ [EvidenceNext]_evidence_vars => Known'
  <2> SUFFICES ASSUME Known, [EvidenceNext]_evidence_vars PROVE Known' OBVIOUS
  <2>1. Gathered' BY GatheredKept
  <2>2. request' = request
    BY DEF EvidenceNext, evidence_vars, GatherRequirements, ResolveMergeRequest, ResolveLocal, Select, ResolvePolicies,
           Prime, Read, Plan, Compose
  <2> QED BY <2>1, <2>2
<1>3. Known => JudgedAgainstWhatWasAsked BY GatheredIsJudged
<1> HIDE DEF Known
<1> QED BY <1>1, <1>2, <1>3, PTL DEF EvidenceSpec

(***************************************************************************)
(* Recursion over a list: it is defined, and stays in a set its step does  *)
(* not leave.                                                              *)
(***************************************************************************)
LEMMA FoldTyped ==
  ASSUME NEW A, NEW n \in Nat, NEW f, f[0] \in A, \A k \in 1 .. n : f[k - 1] \in A => f[k] \in A
  PROVE  \A k \in 0 .. n : f[k] \in A
<1> DEFINE T == {k \in Nat : k <= n => f[k] \in A}
<1>1. 0 \in T OBVIOUS
<1>2. ASSUME NEW k \in T PROVE k + 1 \in T
  <2>1. CASE k + 1 <= n
    <3>1. k + 1 \in 1 .. n /\ (k + 1) - 1 = k /\ f[k] \in A BY <2>1
    <3> QED BY <3>1
  <2>2. CASE ~ (k + 1 <= n) BY <2>2
  <2> QED BY <2>1, <2>2
<1>3. T \in SUBSET Nat OBVIOUS
<1> HIDE DEF T
<1>4. Nat \subseteq T BY <1>1, <1>2, <1>3, Induct
<1> QED BY <1>4 DEF T

Fold(f, A, base, n, step) == f \in [0 .. n -> A] /\ f[0] = base /\ \A k \in 1 .. n : f[k] = step[k][f[k - 1]]

LEMMA FoldExists ==
  ASSUME NEW A, NEW base \in A, NEW n \in Nat, NEW step \in [1 .. n -> [A -> A]]
  PROVE  \E f : Fold(f, A, base, n, step)
<1> DEFINE Folds(f, m) == f \in [0 .. m -> A] /\ f[0] = base /\ \A k \in 1 .. m : f[k] = step[k][f[k - 1]]
           T == {m \in Nat : m <= n => \E f : Folds(f, m)}
<1>1. 0 \in T
  <2>1. Folds([k \in 0 .. 0 |-> base], 0) OBVIOUS
  <2> HIDE DEF Folds
  <2> QED BY <2>1
<1>2. ASSUME NEW m \in T PROVE m + 1 \in T
  <2>0. m \in Nat /\ (m <= n => \E f : Folds(f, m)) /\ (m + 1 <= n => m <= n) OBVIOUS
  <2> SUFFICES ASSUME m + 1 <= n PROVE \E f : Folds(f, m + 1)
    <3> HIDE DEF Folds
    <3> QED BY <2>0
  <2>1. PICK g : Folds(g, m)
    <3> HIDE DEF Folds
    <3> QED BY <2>0
  <2> DEFINE f == [k \in 0 .. m + 1 |-> IF k = m + 1 THEN step[m + 1][g[m]] ELSE g[k]]
  <2>2. m + 1 \in 1 .. n /\ g[m] \in A BY <2>1
  <2>3. step[m + 1][g[m]] \in A BY <2>2
  <2>4. \A k \in 0 .. m : f[k] = g[k] /\ g[k] \in A BY <2>1
  <2>5. f[m + 1] = step[m + 1][g[m]] OBVIOUS
  <2>6. f \in [0 .. m + 1 -> A]
    <3>1. \A k \in 0 .. m + 1 : k = m + 1 \/ k \in 0 .. m OBVIOUS
    <3>2. \A k \in 0 .. m + 1 : f[k] \in A
      <4> HIDE DEF f
      <4> QED BY <2>3, <2>4, <2>5, <3>1
    <3> QED BY <3>2
  <2>7. f = [k \in 0 .. m + 1 |-> f[k]] OBVIOUS
  <2> HIDE DEF f
  <2>8. f[0] = base BY <2>1, <2>4
  <2>9. \A k \in 1 .. m + 1 : f[k] = step[k][f[k - 1]]
    <3> SUFFICES ASSUME NEW k \in 1 .. m + 1 PROVE f[k] = step[k][f[k - 1]] OBVIOUS
    <3>1. CASE k = m + 1
      <4>1. k - 1 = m BY <3>1
      <4> QED BY <2>4, <2>5, <3>1, <4>1
    <3>2. CASE k # m + 1
      <4>1. k \in 1 .. m /\ k \in 0 .. m /\ k - 1 \in 0 .. m BY <3>2
      <4> QED BY <2>1, <2>4, <4>1
    <3> QED BY <3>1, <3>2
  <2> QED BY <2>6, <2>8, <2>9
<1>3. T \in SUBSET Nat OBVIOUS
<1> HIDE DEF T
<1>4. Nat \subseteq T BY <1>1, <1>2, <1>3, Induct
<1> QED BY <1>4 DEF T, Fold

(***************************************************************************)
(* What the entries of a plan take together.                               *)
(***************************************************************************)
Sums(f, s) == f[0] = 0 /\ \A k \in 1 .. Len(s) : f[k] = f[k - 1] + s[k].bytes

LEMMA BytesOfIsSum ==
  ASSUME NEW X, NEW s \in Seq(X), \A e \in X : e.bytes \in Nat
  PROVE  \E f \in [0 .. Len(s) -> Nat] : Sums(f, s) /\ BytesOf(s) = f[Len(s)]
<1> DEFINE upTo[n \in 0 .. Len(s)] == IF n = 0 THEN 0 ELSE upTo[n - 1] + s[n].bytes
           step == [k \in 1 .. Len(s) |-> [a \in Nat |-> a + s[k].bytes]]
<1>1. BytesOf(s) = upTo[Len(s)] BY DEF BytesOf
<1>2. Len(s) \in Nat /\ \A k \in 1 .. Len(s) : s[k].bytes \in Nat OBVIOUS
<1>3. step \in [1 .. Len(s) -> [Nat -> Nat]] BY <1>2
<1>4. PICK g \in [0 .. Len(s) -> Nat] : g[0] = 0 /\ \A k \in 1 .. Len(s) : g[k] = step[k][g[k - 1]]
  <2> HIDE DEF step
  <2>1. 0 \in Nat OBVIOUS
  <2>2. PICK n \in Nat : n = Len(s) BY <1>2
  <2>3. step \in [1 .. n -> [Nat -> Nat]] BY <1>3, <2>2
  <2>4. \E f : Fold(f, Nat, 0, n, step) BY <2>1, <2>3, FoldExists
  <2> QED BY <2>2, <2>4 DEF Fold
<1>5. g = [n \in 0 .. Len(s) |-> IF n = 0 THEN 0 ELSE g[n - 1] + s[n].bytes]
  <2> DEFINE h == [n \in 0 .. Len(s) |-> IF n = 0 THEN 0 ELSE g[n - 1] + s[n].bytes]
  <2>1. ASSUME NEW n \in 0 .. Len(s) PROVE g[n] = h[n]
    <3>1. CASE n = 0 BY <1>4, <3>1
    <3>2. CASE n # 0
      <4>1. n \in 1 .. Len(s) /\ n - 1 \in 0 .. Len(s) BY <1>2, <3>2
      <4>2. g[n - 1] \in Nat BY <4>1
      <4> QED BY <1>4, <3>2, <4>1, <4>2
    <3> QED BY <3>1, <3>2
  <2>2. DOMAIN g = 0 .. Len(s) /\ DOMAIN h = 0 .. Len(s) BY <1>4
  <2> QED BY <2>1, <2>2
<1>6. upTo = [n \in 0 .. Len(s) |-> IF n = 0 THEN 0 ELSE upTo[n - 1] + s[n].bytes] BY <1>5, Zenon
<1> HIDE DEF upTo
<1>7. upTo[0] = 0 /\ \A n \in 1 .. Len(s) : upTo[n] = upTo[n - 1] + s[n].bytes
  <2>1. 0 \in 0 .. Len(s) /\ \A n \in 1 .. Len(s) : n # 0 /\ n \in 0 .. Len(s) BY <1>2
  <2> QED BY <1>6, <2>1
<1>8. \A k \in 0 .. Len(s) : upTo[k] \in Nat
  <2>1. upTo[0] \in Nat /\ \A k \in 1 .. Len(s) : upTo[k - 1] \in Nat => upTo[k] \in Nat 
    <3> SUFFICES ASSUME NEW k \in 1 .. Len(s), upTo[k - 1] \in Nat PROVE upTo[k] \in Nat BY <1>7
    <3> QED BY <1>2, <1>7
  <2> QED BY <1>2, <2>1, FoldTyped
<1>9. upTo \in [0 .. Len(s) -> Nat] BY <1>6, <1>8
<1> QED BY <1>1, <1>7, <1>9 DEF Sums

LEMMA NoEntries == BytesOf(<<>>) = 0
<1> DEFINE X == {[bytes |-> 0]}
<1>0. <<>> \in Seq(X) OBVIOUS
<1> PICK s \in Seq(X) : s = <<>> BY <1>0
<1>1. \A e \in X : e.bytes \in Nat OBVIOUS
<1> HIDE DEF X
<1>2. PICK f \in [0 .. Len(s) -> Nat] : Sums(f, s) /\ BytesOf(s) = f[Len(s)] BY <1>1, BytesOfIsSum
<1>3. Len(s) = 0 OBVIOUS
<1> QED BY <1>2, <1>3 DEF Sums

LEMMA OneEntryMore ==
  ASSUME NEW X, NEW s \in Seq(X), NEW e \in X, \A x \in X : x.bytes \in Nat
  PROVE  BytesOf(Append(s, e)) = BytesOf(s) + e.bytes /\ BytesOf(s) \in Nat
<1> PICK t : t = Append(s, e) OBVIOUS
<1>1. t \in Seq(X) /\ Len(s) \in Nat /\ Len(t) = Len(s) + 1 /\ t[Len(t)] = e /\ \A i \in 1 .. Len(s) : t[i] = s[i] OBVIOUS
<1>2. PICK f \in [0 .. Len(s) -> Nat] : Sums(f, s) /\ BytesOf(s) = f[Len(s)] BY BytesOfIsSum
<1>3. PICK g \in [0 .. Len(t) -> Nat] : Sums(g, t) /\ BytesOf(t) = g[Len(t)] BY <1>1, BytesOfIsSum
<1> DEFINE T == {k \in Nat : k <= Len(s) => g[k] = f[k]}
<1>4. 0 \in T BY <1>2, <1>3 DEF Sums
<1>5. ASSUME NEW k \in T PROVE k + 1 \in T
  <2> SUFFICES ASSUME k + 1 <= Len(s) PROVE g[k + 1] = f[k + 1] OBVIOUS
  <2>1. k \in Nat /\ k <= Len(s) /\ g[k] = f[k] BY <1>1
  <2>2. k + 1 \in 1 .. Len(s) /\ k + 1 \in 1 .. Len(t) /\ (k + 1) - 1 = k BY <1>1, <2>1
  <2>3. f[k + 1] = f[k] + s[k + 1].bytes BY <1>2, <2>2 DEF Sums
  <2>4. g[k + 1] = g[k] + t[k + 1].bytes BY <1>3, <2>2 DEF Sums
  <2> QED BY <1>1, <2>1, <2>2, <2>3, <2>4
<1>6. T \in SUBSET Nat OBVIOUS
<1> HIDE DEF T
<1>7. Nat \subseteq T BY <1>4, <1>5, <1>6, Induct
<1>8. g[Len(s)] = f[Len(s)] BY <1>1, <1>7 DEF T
<1>9. g[Len(t)] = g[Len(s)] + e.bytes
  <2>1. Len(t) \in 1 .. Len(t) /\ Len(t) - 1 = Len(s) BY <1>1
  <2> QED BY <1>1, <1>3, <2>1 DEF Sums
<1>10. f[Len(s)] \in Nat BY <1>1, <1>2
<1> QED BY <1>2, <1>3, <1>8, <1>9, <1>10

(***************************************************************************)
(* Plans.                                                                  *)
(***************************************************************************)
Tree == DOMAIN Traits
TreeContents == [kind : {"none", "unavailable", "symlink", "binary", "too-large", "text"}, bytes : Nat]
TreeEntries == [path : Tree, bytes : Nat]
TreePlans ==
  [entries : Seq(TreeEntries), omitted : SUBSET Tree, totalBytes : Nat, changedBytes : Nat, oversized : SUBSET Tree,
   refused : BOOLEAN, trimmed : Nat, capped : BOOLEAN, stopped : BOOLEAN]

\* A plan counts what it mirrors, and stays within the ceiling.
Balanced(p) == p.totalBytes = BytesOf(p.entries) /\ p.totalBytes <= MaxTotalBytes

Keeps(p, q) ==
  /\ p.omitted \subseteq q.omitted /\ p.oversized \subseteq q.oversized /\ (p.refused => q.refused)
  /\ ToSet(p.entries) \subseteq ToSet(q.entries)

\* What one more mirrored file changes.
Mirrors(p, q, path, bytes) ==
  /\ q \in TreePlans
  /\ q.omitted = p.omitted /\ q.oversized = p.oversized /\ q.refused = p.refused /\ q.changedBytes = p.changedBytes
  /\ q.totalBytes = p.totalBytes + bytes /\ BytesOf(q.entries) = BytesOf(p.entries) + bytes
  /\ ToSet(q.entries) = ToSet(p.entries) \union {[path |-> path, bytes |-> bytes]}

LEMMA MirrorFacts ==
  ASSUME NEW p \in TreePlans, NEW path \in Tree, NEW bytes \in Nat
  PROVE  Mirrors(p, Mirror(p, path, bytes), path, bytes)
<1> PICK e : e = [path |-> path, bytes |-> bytes] OBVIOUS
<1> PICK q : q = Mirror(p, path, bytes) OBVIOUS
<1>1. e \in TreeEntries /\ p.entries \in Seq(TreeEntries) /\ p.totalBytes \in Nat BY DEF TreeEntries, TreePlans
<1>2. q = [p EXCEPT !.entries = Append(p.entries, e), !.totalBytes = p.totalBytes + bytes] BY DEF Mirror
<1>3. q.entries = Append(p.entries, e) /\ q.totalBytes = p.totalBytes + bytes BY <1>2 DEF TreePlans
<1>4. q.omitted = p.omitted /\ q.oversized = p.oversized /\ q.refused = p.refused /\ q.changedBytes = p.changedBytes
  BY <1>2 DEF TreePlans
<1>5. q \in TreePlans
  <2>1. Append(p.entries, e) \in Seq(TreeEntries) /\ p.totalBytes + bytes \in Nat BY <1>1
  <2> QED BY <1>2, <2>1 DEF TreePlans
<1>6. BytesOf(q.entries) = BytesOf(p.entries) + bytes
  <2>1. \A x \in TreeEntries : x.bytes \in Nat BY DEF TreeEntries
  <2>2. e.bytes = bytes OBVIOUS
  <2>3. BytesOf(Append(p.entries, e)) = BytesOf(p.entries) + e.bytes BY <1>1, <2>1, OneEntryMore
  <2> QED BY <1>3, <2>2, <2>3
<1>7. ToSet(q.entries) = ToSet(p.entries) \union {e}
  <2> PICK s : s = p.entries OBVIOUS
  <2>1. s \in Seq(TreeEntries) BY <1>1
  <2>2. ToSet(Append(s, e)) = ToSet(s) \union {e}
    <3>1. Len(s) \in Nat /\ DOMAIN s = 1 .. Len(s) /\ DOMAIN Append(s, e) = 1 .. Len(s) + 1 BY <2>1
    <3>2. \A i \in 1 .. Len(s) : Append(s, e)[i] = s[i] BY <2>1
    <3>3. Append(s, e)[Len(s) + 1] = e BY <2>1
    <3>4. \A i \in 1 .. Len(s) + 1 : i \in 1 .. Len(s) \/ i = Len(s) + 1 BY <3>1
    <3>5. \A i \in 1 .. Len(s) : i \in 1 .. Len(s) + 1 BY <3>1
    <3>6. Len(s) + 1 \in 1 .. Len(s) + 1 BY <3>1
    <3> QED BY <3>1, <3>2, <3>3, <3>4, <3>5, <3>6 DEF ToSet
  <2> QED BY <1>3, <2>2
<1> QED BY <1>3, <1>4, <1>5, <1>6, <1>7 DEF Mirrors

\* A changed file with its content, as far as it is read.
IsRead(file) == file.newPath # Nowhere /\ ~ file.binary /\ ~ PathExcluded(file.newPath, NoOperator)
Readable(file, content) ==
  file.newPath \in Tree \union {Nowhere} /\ (IsRead(file) => content[file.newPath] \in TreeContents)

\* What has become of it in a plan.
Mirrored(p, file, content) ==
  /\ IsRead(file) /\ content[file.newPath].kind = "text"
  /\ [path |-> file.newPath, bytes |-> content[file.newPath].bytes] \in ToSet(p.entries)
DealtWith(p, file, content) ==
  \/ p.refused \/ file.newPath = Nowhere
  \/ file.newPath \in p.omitted \/ file.newPath \in p.oversized
  \/ Mirrored(p, file, content)

Took(p, q, file, content) ==
  /\ q \in TreePlans /\ Keeps(p, q) /\ DealtWith(q, file, content) /\ (Balanced(p) => Balanced(q))
  /\ \A e \in ToSet(q.entries) : e \in ToSet(p.entries) \/ e.path = file.newPath

LEMMA TakeChangedFacts ==
  ASSUME NEW p \in TreePlans, NEW file, NEW content, Readable(file, content)
  PROVE  Took(p, TakeChanged(p, file, content), file, content)
<1> PICK q : q = TakeChanged(p, file, content) OBVIOUS
<1> PICK path : path = file.newPath OBVIOUS
<1> PICK read : read = content[path] OBVIOUS
<1>0. path \in Tree \union {Nowhere} BY DEF Readable
<1>1. CASE p.refused \/ path = Nowhere
  <2>1. q = p BY <1>1 DEF TakeChanged
  <2> QED BY <1>1, <2>1 DEF Took, Keeps, DealtWith
<1>2. CASE ~ (p.refused \/ path = Nowhere) /\ q = [p EXCEPT !.omitted = @ \union {path}]
  <2>1. /\ q.omitted = p.omitted \union {path} /\ q.oversized = p.oversized /\ q.refused = p.refused
        /\ q.entries = p.entries /\ q.totalBytes = p.totalBytes
    BY <1>2 DEF TreePlans
  <2>2. q \in TreePlans BY <1>0, <1>2 DEF TreePlans
  <2> QED BY <2>1, <2>2 DEF Took, Keeps, DealtWith, Balanced
<1>3. CASE ~ (p.refused \/ path = Nowhere) /\ q = [p EXCEPT !.oversized = @ \union {path}]
  <2>1. /\ q.oversized = p.oversized \union {path} /\ q.omitted = p.omitted /\ q.refused = p.refused
        /\ q.entries = p.entries /\ q.totalBytes = p.totalBytes
    BY <1>3 DEF TreePlans
  <2>2. q \in TreePlans BY <1>0, <1>3 DEF TreePlans
  <2> QED BY <2>1, <2>2 DEF Took, Keeps, DealtWith, Balanced
<1>4. CASE q = [p EXCEPT !.refused = TRUE]
  <2>1. /\ q.oversized = p.oversized /\ q.omitted = p.omitted /\ q.refused
        /\ q.entries = p.entries /\ q.totalBytes = p.totalBytes
    BY <1>4 DEF TreePlans
  <2>2. q \in TreePlans BY <1>4 DEF TreePlans
  <2> QED BY <2>1, <2>2 DEF Took, Keeps, DealtWith, Balanced
<1>5. CASE /\ ~ (p.refused \/ path = Nowhere) /\ IsRead(file) /\ read \in TreeContents /\ read.kind = "text"
           /\ p.totalBytes + read.bytes <= MaxTotalBytes /\ q = Mirror(p, path, read.bytes)
  <2>1. read.bytes \in Nat /\ path \in Tree BY <1>0, <1>5 DEF TreeContents
  <2>2. Mirrors(p, q, path, read.bytes) BY <1>5, <2>1, MirrorFacts
  <2>3. \A e \in ToSet(q.entries) : e \in ToSet(p.entries) \/ e.path = path BY <2>2 DEF Mirrors
  <2>4. Balanced(p) => Balanced(q) BY <1>5, <2>2 DEF Mirrors, Balanced
  <2>5. Mirrored(q, file, content) BY <1>5, <2>2 DEF Mirrors, Mirrored
  <2> QED BY <2>2, <2>3, <2>4, <2>5 DEF Mirrors, Took, Keeps, DealtWith
<1>6. \/ p.refused \/ path = Nowhere
      \/ q = [p EXCEPT !.omitted = @ \union {path}] \/ q = [p EXCEPT !.oversized = @ \union {path}]
      \/ q = [p EXCEPT !.refused = TRUE]
      \/ /\ IsRead(file) /\ read \in TreeContents /\ read.kind = "text"
         /\ p.totalBytes + read.bytes <= MaxTotalBytes /\ q = Mirror(p, path, read.bytes)
  <2> SUFFICES ASSUME ~ p.refused, path # Nowhere
               PROVE  \/ q = [p EXCEPT !.omitted = @ \union {path}] \/ q = [p EXCEPT !.oversized = @ \union {path}]
                      \/ q = [p EXCEPT !.refused = TRUE]
                      \/ /\ IsRead(file) /\ read \in TreeContents /\ read.kind = "text"
                         /\ p.totalBytes + read.bytes <= MaxTotalBytes /\ q = Mirror(p, path, read.bytes)
    OBVIOUS
  <2>1. CASE file.binary \/ PathExcluded(path, NoOperator) BY <2>1 DEF TakeChanged
  <2>2. CASE ~ (file.binary \/ PathExcluded(path, NoOperator))
    <3>1. IsRead(file) /\ read \in TreeContents BY <2>2 DEF Readable, IsRead
    <3>2. read.kind \in {"none", "unavailable", "symlink", "binary", "too-large", "text"} /\ read.bytes \in Nat
      BY <3>1 DEF TreeContents
    <3>3. MaxTotalBytes \in Nat /\ MaxFileBytes \in Nat /\ p.totalBytes \in Nat
      BY PlanAssumption, EvidenceAssumption DEF TreePlans
    <3>4. q = CASE read.kind \in {"none", "unavailable", "symlink", "binary"} -> [p EXCEPT !.omitted = @ \union {path}]
                [] read.kind = "too-large" \/ (read.kind = "text" /\ read.bytes > MaxFileBytes) ->
                     [p EXCEPT !.oversized = @ \union {path}]
                [] OTHER -> IF p.totalBytes + read.bytes > MaxTotalBytes THEN [p EXCEPT !.refused = TRUE]
                            ELSE Mirror(p, path, read.bytes)
      BY <2>2 DEF TakeChanged
    <3>5. CASE read.kind \in {"none", "unavailable", "symlink", "binary"} BY <3>4, <3>5
    <3>6. CASE read.kind = "too-large" \/ (read.kind = "text" /\ read.bytes > MaxFileBytes) BY <3>4, <3>6
    <3>7. CASE read.kind = "text" /\ ~ (read.bytes > MaxFileBytes)
      <4>1. q = IF p.totalBytes + read.bytes > MaxTotalBytes THEN [p EXCEPT !.refused = TRUE]
                ELSE Mirror(p, path, read.bytes)
        BY <3>4, <3>7
      <4>2. ~ (p.totalBytes + read.bytes > MaxTotalBytes) => p.totalBytes + read.bytes <= MaxTotalBytes BY <3>2, <3>3
      <4> QED BY <3>1, <3>7, <4>1, <4>2
    <3> QED BY <3>2, <3>5, <3>6, <3>7
  <2> QED BY <2>1, <2>2
<1> QED BY <1>1, <1>2, <1>3, <1>4, <1>5, <1>6

LEMMA EmptyPlan == Empty \in TreePlans /\ Balanced(Empty) /\ ToSet(Empty.entries) = {}
<1>1. Empty.entries = <<>> /\ Empty.totalBytes = 0 BY DEF Empty
<1>2. <<>> \in Seq(TreeEntries) OBVIOUS
<1>3. Empty \in TreePlans BY <1>2 DEF Empty, TreePlans
<1>4. ToSet(<<>>) = {} BY DEF ToSet
<1>5. Balanced(Empty) BY <1>1, NoEntries, PlanAssumption DEF Balanced
<1> QED BY <1>1, <1>3, <1>4, <1>5

\* The changed files of a diff, taken one after another.
TakenUpTo(f, diff, content) ==
  /\ f \in [0 .. Len(diff) -> TreePlans] /\ f[0] = Empty
  /\ \A k \in 1 .. Len(diff) : f[k] = TakeChanged(f[k - 1], diff[k], content)

AllReadable(X, content) == \A file \in X : Readable(file, content)
Concluded(q, p) == q = [p EXCEPT !.refused = @ \/ p.oversized # {}, !.changedBytes = p.totalBytes]

LEMMA ChangedIsTaken ==
  ASSUME NEW X, NEW diff \in Seq(X), NEW content, AllReadable(X, content)
  PROVE  \E f : TakenUpTo(f, diff, content) /\ Concluded(Changed(diff, content), f[Len(diff)])
<1> PICK n \in Nat : n = Len(diff) OBVIOUS
<1> DEFINE upTo[k \in 0 .. Len(diff)] == IF k = 0 THEN Empty ELSE TakeChanged(upTo[k - 1], diff[k], content)
           step == [k \in 1 .. n |-> [p \in TreePlans |-> TakeChanged(p, diff[k], content)]]
<1>1. Concluded(Changed(diff, content), upTo[n]) BY DEF Changed, Concluded
<1>2. \A k \in 1 .. n : Readable(diff[k], content) BY DEF AllReadable
<1>3. \A k \in 1 .. n, p \in TreePlans : TakeChanged(p, diff[k], content) \in TreePlans
  BY <1>2, TakeChangedFacts DEF Took
<1>4. step \in [1 .. n -> [TreePlans -> TreePlans]] BY <1>3
<1>5. \A k \in 1 .. n, p \in TreePlans : step[k][p] = TakeChanged(p, diff[k], content) OBVIOUS
<1>6. PICK g : Fold(g, TreePlans, Empty, n, step)
  <2> HIDE DEF step
  <2> QED BY <1>4, EmptyPlan, FoldExists
<1> HIDE DEF step
<1>7. /\ g \in [0 .. n -> TreePlans] /\ g[0] = Empty
      /\ \A k \in 1 .. n : g[k] = TakeChanged(g[k - 1], diff[k], content)
  <2>1. \A k \in 1 .. n : k - 1 \in 0 .. n OBVIOUS
  <2>2. g \in [0 .. n -> TreePlans] /\ g[0] = Empty /\ \A k \in 1 .. n : g[k] = step[k][g[k - 1]] BY <1>6 DEF Fold
  <2> QED BY <1>5, <2>1, <2>2
<1>8. g = [k \in 0 .. Len(diff) |-> IF k = 0 THEN Empty ELSE TakeChanged(g[k - 1], diff[k], content)]
  <2>1. \A k \in 0 .. n : k = 0 \/ k \in 1 .. n OBVIOUS
  <2>2. \A k \in 0 .. n : g[k] = IF k = 0 THEN Empty ELSE TakeChanged(g[k - 1], diff[k], content) BY <1>7, <2>1
  <2> QED BY <1>7, <2>2
<1>9. upTo = [k \in 0 .. Len(diff) |-> IF k = 0 THEN Empty ELSE TakeChanged(upTo[k - 1], diff[k], content)] BY <1>8, Zenon
<1> HIDE DEF upTo
<1>10. upTo[0] = Empty /\ \A k \in 1 .. n : upTo[k] = TakeChanged(upTo[k - 1], diff[k], content)
  <2>1. 0 \in 0 .. n /\ \A k \in 1 .. n : k # 0 /\ k \in 0 .. n OBVIOUS
  <2> QED BY <1>9, <2>1
<1>11. \A k \in 0 .. n : upTo[k] \in TreePlans
  <2>1. upTo[0] \in TreePlans BY <1>10, EmptyPlan
  <2>2. \A k \in 1 .. n : upTo[k - 1] \in TreePlans => upTo[k] \in TreePlans BY <1>3, <1>10
  <2> QED BY <2>1, <2>2, FoldTyped
<1>12. upTo \in [0 .. n -> TreePlans] BY <1>9, <1>11
<1>13. TakenUpTo(upTo, diff, content) BY <1>10, <1>12 DEF TakenUpTo
<1> QED BY <1>1, <1>13

\* The changed files as a whole.
ChangedPlan(q, diff, content) ==
  /\ q \in TreePlans /\ Balanced(q) /\ q.changedBytes = q.totalBytes
  /\ q.refused \/ \A i \in 1 .. Len(diff) :
       diff[i].newPath = Nowhere \/ diff[i].newPath \in q.omitted \/ Mirrored(q, diff[i], content)
  /\ \A e \in ToSet(q.entries) : \E i \in 1 .. Len(diff) : e.path = diff[i].newPath

LEMMA SettledStays ==
  ASSUME NEW p, NEW q, Keeps(p, q), NEW file, NEW content, DealtWith(p, file, content)
  PROVE  DealtWith(q, file, content)
BY DEF Keeps, DealtWith, Mirrored

LEMMA ChangedFacts ==
  ASSUME NEW X, NEW diff \in Seq(X), NEW content, AllReadable(X, content)
  PROVE  ChangedPlan(Changed(diff, content), diff, content)
<1> PICK n \in Nat : n = Len(diff) OBVIOUS
<1>1. PICK f : TakenUpTo(f, diff, content) /\ Concluded(Changed(diff, content), f[Len(diff)])
  BY ChangedIsTaken
<1> DEFINE Good(k) == /\ f[k] \in TreePlans /\ Balanced(f[k])
                      /\ \A i \in 1 .. k : DealtWith(f[k], diff[i], content)
                      /\ \A e \in ToSet(f[k].entries) : \E i \in 1 .. k : e.path = diff[i].newPath
           T == {k \in Nat : k <= n => Good(k)}
<1>2. 0 \in T
  <2>1. f[0] = Empty BY <1>1 DEF TakenUpTo
  <2>2. Good(0) BY <2>1, EmptyPlan
  <2> QED BY <2>2
<1>3. ASSUME NEW k \in T PROVE k + 1 \in T
  <2>0. k \in Nat /\ (k <= n => Good(k)) /\ (k + 1 <= n => k <= n) OBVIOUS
  <2> HIDE DEF Good
  <2> SUFFICES ASSUME k + 1 <= n PROVE Good(k + 1) BY <2>0
  <2>1. Good(k) /\ k + 1 \in 1 .. n /\ (k + 1) - 1 = k BY <2>0
  <2>2. f[k + 1] = TakeChanged(f[k], diff[k + 1], content) BY <1>1, <2>1 DEF TakenUpTo
  <2>3. Took(f[k], f[k + 1], diff[k + 1], content)
    <3>1. Readable(diff[k + 1], content) BY <2>1 DEF AllReadable
    <3>2. f[k] \in TreePlans BY <2>1 DEF Good
    <3> QED BY <2>2, <3>1, <3>2, TakeChangedFacts
  <2>4. \A i \in 1 .. k + 1 : DealtWith(f[k + 1], diff[i], content)
    <3>1. \A i \in 1 .. k + 1 : i \in 1 .. k \/ i = k + 1 BY <2>0
    <3>2. \A i \in 1 .. k : DealtWith(f[k + 1], diff[i], content) BY <2>1, <2>3, SettledStays DEF Good, Took
    <3> QED BY <2>3, <3>1, <3>2 DEF Took
  <2>5. \A e \in ToSet(f[k + 1].entries) : \E i \in 1 .. k + 1 : e.path = diff[i].newPath
    <3>1. k + 1 \in 1 .. k + 1 /\ \A i \in 1 .. k : i \in 1 .. k + 1 BY <2>0
    <3> QED BY <2>1, <2>3, <3>1 DEF Good, Took
  <2> QED BY <2>1, <2>3, <2>4, <2>5 DEF Good, Took
<1>4. T \in SUBSET Nat OBVIOUS
<1> HIDE DEF T
<1>5. Nat \subseteq T BY <1>2, <1>3, <1>4, Induct
<1>6. Good(n) BY <1>5 DEF T
<1> PICK p : p = f[n] OBVIOUS
<1> PICK q : q = Changed(diff, content) OBVIOUS
<1>7. p \in TreePlans /\ Balanced(p) BY <1>6
<1>8. q = [p EXCEPT !.refused = @ \/ p.oversized # {}, !.changedBytes = p.totalBytes] BY <1>1 DEF Concluded
<1>9. /\ q.entries = p.entries /\ q.totalBytes = p.totalBytes /\ q.changedBytes = p.totalBytes
      /\ q.omitted = p.omitted /\ (q.refused <=> p.refused \/ p.oversized # {})
  BY <1>7, <1>8 DEF TreePlans
<1>10. q \in TreePlans BY <1>7, <1>8 DEF TreePlans
<1>11. Balanced(q) BY <1>7, <1>9 DEF Balanced
<1>12. \A i \in 1 .. n : DealtWith(p, diff[i], content) BY <1>6
<1>13. \A e \in ToSet(p.entries) : \E i \in 1 .. n : e.path = diff[i].newPath BY <1>6
<1> QED BY <1>9, <1>10, <1>11, <1>12, <1>13 DEF ChangedPlan, DealtWith, Mirrored

(***************************************************************************)
(* The neighbours.                                                         *)
(***************************************************************************)
LEMMA LesserFacts ==
  ASSUME NEW a \in Nat, NEW b \in Nat
  PROVE  Lesser(a, b) \in Nat /\ Lesser(a, b) <= a /\ Lesser(a, b) <= b
BY DEF Lesser

LEMMA FirstOfList ==
  ASSUME NEW X, NEW s \in Seq(X), NEW n \in Nat
  PROVE  FirstUpTo(n, s) \in Seq(X)
<1> PICK m : m = Lesser(n, Len(s)) OBVIOUS
<1>1. m \in Nat /\ m <= Len(s) BY LesserFacts, LenProperties
<1>2. SubSeq(s, 1, m) \in Seq(X)
  <2>1. \A i \in 1 .. m : s[i] \in X BY <1>1
  <2> QED BY <1>1, <2>1
<1> QED BY <1>2 DEF FirstUpTo

Dirs == Range(DirectoryOf)
Located(X) == \A file \in X : file.newPath \in Tree \union {Nowhere}

LEMMA DirectoriesFacts ==
  ASSUME NEW X, NEW diff \in Seq(X), Located(X)
  PROVE  Directories(diff) \in Seq(Dirs)
<1> DEFINE dirs == [i \in DOMAIN diff |-> IF diff[i].newPath = Nowhere THEN Nowhere ELSE DirectoryOf[diff[i].newPath]]
           New(i) == dirs[i] # Nowhere /\ \A j \in 1 .. i - 1 : dirs[j] # dirs[i]
           all == [i \in DOMAIN diff |-> i]
           places == Among(all, {i \in DOMAIN diff : New(i)})
<1>1. Directories(diff) = [k \in DOMAIN places |-> dirs[places[k]]] BY DEF Directories
<1>2. Len(diff) \in Nat /\ DOMAIN diff = 1 .. Len(diff) BY LenProperties
<1>3. all \in Seq(DOMAIN diff)
  <2>1. all \in [1 .. Len(diff) -> DOMAIN diff] BY <1>2
  <2> QED BY <1>2, <2>1, IsASeq
<1>4. \A i \in DOMAIN diff : dirs[i] # Nowhere => dirs[i] \in Dirs
  <2> SUFFICES ASSUME NEW i \in DOMAIN diff, diff[i].newPath # Nowhere PROVE DirectoryOf[diff[i].newPath] \in Dirs
    OBVIOUS
  <2>1. diff[i].newPath \in Tree
    <3>1. diff[i] \in X BY Element, Zenon
    <3> QED BY <3>1 DEF Located
  <2> QED BY <2>1, PlanAssumption DEF Dirs, Range, Tree
<1> HIDE DEF dirs, all
<1>5. places \in Seq(DOMAIN diff) /\ ToSet(places) \subseteq {i \in DOMAIN diff : New(i)}
  <2> HIDE DEF New
  <2> QED BY <1>3, AmongFacts
<1> HIDE DEF places
<1>6. Len(places) \in Nat /\ DOMAIN places = 1 .. Len(places) BY <1>5, LenProperties
<1>7. \A k \in DOMAIN places : dirs[places[k]] \in Dirs
  <2>1. \A k \in DOMAIN places : places[k] \in DOMAIN diff /\ dirs[places[k]] # Nowhere BY <1>5 DEF ToSet
  <2> QED BY <1>4, <2>1
<1>8. [k \in DOMAIN places |-> dirs[places[k]]] \in [1 .. Len(places) -> Dirs] BY <1>6, <1>7
<1> QED BY <1>1, <1>6, <1>8, IsASeq

\* What may be read beside the change.
Besides(operator) == {p \in Tree : ~ PathExcluded(p, operator)}

LEMMA CandidatesFacts ==
  ASSUME NEW X, NEW diff \in Seq(X), Located(X), NEW listing \in [Dirs -> Seq(Tree)], NEW operator
  PROVE  Candidates(diff, listing, operator) \in Seq(Besides(operator))
<1> DEFINE changed == {f.newPath : f \in ToSet(diff)}
           listed == FirstUpTo(MaxDirectoryLists, Directories(diff))
           upTo[k \in 0 .. Len(listed)] == IF k = 0 THEN <<>> ELSE upTo[k - 1] \o listing[listed[k]]
           kept == {p \in DOMAIN Traits \ changed : ~ PathExcluded(p, operator) /\ "generated" \notin Traits[p]}
<1>1. Candidates(diff, listing, operator) = Among(upTo[Len(listed)], kept) BY DEF Candidates
<1>2. listed \in Seq(Dirs) BY DirectoriesFacts, FirstOfList, PlanAssumption
<1>3. kept \subseteq Besides(operator) BY DEF Besides, Tree
<1> HIDE DEF listed, kept
<1> PICK n \in Nat : n = Len(listed) BY <1>2
<1>4. \A k \in 1 .. n : listing[listed[k]] \in Seq(Tree) BY <1>2
<1> DEFINE step == [k \in 1 .. n |-> [s \in Seq(Tree) |-> s \o listing[listed[k]]]]
<1>5. \A k \in 1 .. n, s \in Seq(Tree) : s \o listing[listed[k]] \in Seq(Tree) BY <1>4
<1>6. step \in [1 .. n -> [Seq(Tree) -> Seq(Tree)]] BY <1>5
<1>7. \A k \in 1 .. n, s \in Seq(Tree) : step[k][s] = s \o listing[listed[k]] OBVIOUS
<1>8. <<>> \in Seq(Tree) OBVIOUS
<1> HIDE DEF step
<1>9. PICK g : Fold(g, Seq(Tree), <<>>, n, step) BY <1>6, <1>8, FoldExists
<1>10. /\ g \in [0 .. n -> Seq(Tree)] /\ g[0] = <<>>
       /\ \A k \in 1 .. n : g[k] = g[k - 1] \o listing[listed[k]]
  <2>1. \A k \in 1 .. n : k - 1 \in 0 .. n OBVIOUS
  <2>2. g \in [0 .. n -> Seq(Tree)] /\ g[0] = <<>> /\ \A k \in 1 .. n : g[k] = step[k][g[k - 1]] BY <1>9 DEF Fold
  <2> QED BY <1>7, <2>1, <2>2
<1>11. g = [k \in 0 .. Len(listed) |-> IF k = 0 THEN <<>> ELSE g[k - 1] \o listing[listed[k]]]
  <2>1. \A k \in 0 .. n : k = 0 \/ k \in 1 .. n OBVIOUS
  <2>2. \A k \in 0 .. n : g[k] = IF k = 0 THEN <<>> ELSE g[k - 1] \o listing[listed[k]] BY <1>10, <2>1
  <2> QED BY <1>10, <2>2
<1>12. upTo = [k \in 0 .. Len(listed) |-> IF k = 0 THEN <<>> ELSE upTo[k - 1] \o listing[listed[k]]] BY <1>11, Zenon
<1> HIDE DEF upTo
<1>13. upTo[0] = <<>> /\ \A k \in 1 .. n : upTo[k] = upTo[k - 1] \o listing[listed[k]]
  <2>1. 0 \in 0 .. n /\ \A k \in 1 .. n : k # 0 /\ k \in 0 .. n OBVIOUS
  <2> QED BY <1>12, <2>1
<1>14. \A k \in 0 .. n : upTo[k] \in Seq(Tree)
  <2>1. upTo[0] \in Seq(Tree) BY <1>8, <1>13
  <2>2. \A k \in 1 .. n : upTo[k - 1] \in Seq(Tree) => upTo[k] \in Seq(Tree) BY <1>5, <1>13
  <2> QED BY <2>1, <2>2, FoldTyped
<1>15. upTo[n] \in Seq(Tree) BY <1>14
<1> PICK s : s = Among(upTo[n], kept) OBVIOUS
<1>16. s \in Seq(Tree) /\ ToSet(s) \subseteq Besides(operator) BY <1>3, <1>15, AmongFacts
<1>17. s \in Seq(Besides(operator))
  <2>1. Len(s) \in Nat /\ s \in [1 .. Len(s) -> Tree] BY <1>16, LenProperties
  <2>2. \A k \in 1 .. Len(s) : s[k] \in Besides(operator) BY <1>16, <2>1 DEF ToSet
  <2>3. s \in [1 .. Len(s) -> Besides(operator)] BY <2>1, <2>2
  <2> QED BY <2>1, <2>3, IsASeq
<1> QED BY <1>1, <1>17

\* What context may change of a plan.
Extends(p, q, ceiling, besides) ==
  /\ q \in TreePlans /\ Keeps(p, q) /\ q.refused = p.refused /\ q.changedBytes = p.changedBytes
  /\ (Balanced(p) => Balanced(q)) /\ (q.totalBytes = p.totalBytes \/ q.totalBytes <= ceiling)
  /\ \A e \in ToSet(q.entries) : e \in ToSet(p.entries) \/ e.path \in besides

LEMMA ExtendsStill ==
  ASSUME NEW p \in TreePlans, NEW ceiling, NEW besides
  PROVE  Extends(p, p, ceiling, besides)
BY DEF Extends, Keeps

LEMMA ExtendsFurther ==
  ASSUME NEW p, NEW q, NEW r, NEW ceiling, NEW besides, Extends(p, q, ceiling, besides), Extends(q, r, ceiling, besides)
  PROVE  Extends(p, r, ceiling, besides)
BY DEF Extends, Keeps

LEMMA TakeSiblingFacts ==
  ASSUME NEW p \in TreePlans, NEW besides \in SUBSET Tree, NEW sibling \in besides, NEW first \in BOOLEAN, NEW content,
         content[sibling] \in TreeContents, NEW ceiling \in Nat, ceiling <= MaxTotalBytes
  PROVE  Extends(p, TakeSibling(p, sibling, first, content, ceiling), ceiling, besides)
<1> PICK q : q = TakeSibling(p, sibling, first, content, ceiling) OBVIOUS
<1> PICK read : read = content[sibling] OBVIOUS
<1> PICK stopped : stopped = (p.stopped \/ (first /\ p.totalBytes >= ceiling)) OBVIOUS
<1> PICK at : at = [p EXCEPT !.stopped = stopped] OBVIOUS
<1>1. stopped \in BOOLEAN /\ at \in TreePlans BY DEF TreePlans
<1>2. /\ at.entries = p.entries /\ at.totalBytes = p.totalBytes /\ at.changedBytes = p.changedBytes
      /\ at.omitted = p.omitted /\ at.oversized = p.oversized /\ at.refused = p.refused
  BY DEF TreePlans
<1>3. read.bytes \in Nat /\ read.kind \in {"none", "unavailable", "symlink", "binary", "too-large", "text"}
  BY DEF TreeContents
<1>4. q = CASE stopped -> [at EXCEPT !.trimmed = @ + 1]
            [] ~ stopped /\ (read.kind # "text" \/ read.bytes > MaxFileBytes) -> at
            [] OTHER -> IF p.totalBytes + read.bytes > ceiling THEN [at EXCEPT !.trimmed = @ + 1]
                        ELSE Mirror(at, sibling, read.bytes)
  BY DEF TakeSibling
<1>5. q = at \/ q = [at EXCEPT !.trimmed = @ + 1]
      \/ (~ (p.totalBytes + read.bytes > ceiling) /\ q = Mirror(at, sibling, read.bytes))
  <2>1. CASE stopped BY <1>4, <2>1
  <2>2. CASE ~ stopped /\ (read.kind # "text" \/ read.bytes > MaxFileBytes) BY <1>4, <2>2
  <2>3. CASE ~ stopped /\ ~ (read.kind # "text" \/ read.bytes > MaxFileBytes)
    <3>1. q = IF p.totalBytes + read.bytes > ceiling THEN [at EXCEPT !.trimmed = @ + 1]
              ELSE Mirror(at, sibling, read.bytes)
      BY <1>4, <2>3
    <3> QED BY <3>1
  <2> QED BY <1>1, <2>1, <2>2, <2>3
<1>6. CASE q = at
  BY <1>1, <1>2, <1>6 DEF Extends, Keeps, Balanced
<1>7. CASE q = [at EXCEPT !.trimmed = @ + 1]
  <2>1. /\ q.entries = p.entries /\ q.totalBytes = p.totalBytes /\ q.changedBytes = p.changedBytes
        /\ q.omitted = p.omitted /\ q.oversized = p.oversized /\ q.refused = p.refused
    BY <1>1, <1>2, <1>7 DEF TreePlans
  <2>2. q \in TreePlans
    <3>1. at.trimmed \in Nat BY <1>1 DEF TreePlans
    <3>2. at.trimmed + 1 \in Nat BY <3>1
    <3>3. q = [at EXCEPT !.trimmed = at.trimmed + 1] BY <1>7
    <3> QED BY <1>1, <3>2, <3>3 DEF TreePlans
  <2> QED BY <2>1, <2>2 DEF Extends, Keeps, Balanced
<1>8. CASE ~ (p.totalBytes + read.bytes > ceiling) /\ q = Mirror(at, sibling, read.bytes)
  <2>1. sibling \in Tree OBVIOUS
  <2>2. Mirrors(at, q, sibling, read.bytes) BY <1>1, <1>3, <1>8, <2>1, MirrorFacts
  <2>3. p.totalBytes \in Nat /\ MaxTotalBytes \in Nat BY PlanAssumption DEF TreePlans
  <2>4. q.totalBytes = p.totalBytes + read.bytes /\ q.totalBytes <= ceiling /\ q.totalBytes <= MaxTotalBytes
    BY <1>2, <1>3, <1>8, <2>2, <2>3 DEF Mirrors
  <2>5. Balanced(p) => Balanced(q) BY <1>2, <2>2, <2>4 DEF Mirrors, Balanced
  <2>6. \A e \in ToSet(q.entries) : e \in ToSet(p.entries) \/ e.path \in besides BY <1>2, <2>2 DEF Mirrors
  <2>7. q \in TreePlans /\ Keeps(p, q) /\ q.refused = p.refused /\ q.changedBytes = p.changedBytes
    BY <1>2, <2>2 DEF Mirrors, Keeps
  <2> QED BY <2>4, <2>5, <2>6, <2>7 DEF Extends
<1> QED BY <1>5, <1>6, <1>7, <1>8

LEMMA WithContextFacts ==
  ASSUME NEW p \in TreePlans, NEW X, NEW diff \in Seq(X), Located(X), NEW content,
         NEW operator, \A path \in Besides(operator) : content[path] \in TreeContents,
         NEW listing \in [Dirs -> Seq(Tree)], NEW budget \in Nat
  PROVE  Extends(p, WithContext(p, diff, content, listing, operator, budget), budget, Besides(operator))
<1> DEFINE candidates == Candidates(diff, listing, operator)
           picked == FirstUpTo(MaxContextReads, candidates)
           ceiling == Lesser(budget, MaxTotalBytes)
           Next1(q, k) == TakeSibling(q, picked[k], (k - 1) % ReadConcurrency = 0, content, ceiling)
           upTo[k \in 0 .. Len(picked)] == IF k = 0 THEN p ELSE Next1(upTo[k - 1], k)
           capped == Len(Directories(diff)) > MaxDirectoryLists \/ Len(candidates) > MaxContextReads
<1>1. WithContext(p, diff, content, listing, operator, budget) = [upTo[Len(picked)] EXCEPT !.capped = capped]
  BY DEF WithContext
<1>2. picked \in Seq(Besides(operator)) BY CandidatesFacts, FirstOfList, PlanAssumption
<1>3. ceiling \in Nat /\ ceiling <= MaxTotalBytes /\ ceiling <= budget BY LesserFacts, PlanAssumption
<1>4. capped \in BOOLEAN OBVIOUS
<1> HIDE DEF picked, ceiling, capped
<1> PICK n \in Nat : n = Len(picked) BY <1>2
<1>5. \A k \in 1 .. n : picked[k] \in Besides(operator) BY <1>2
<1>6. \A k \in 1 .. n, q \in TreePlans : Extends(q, Next1(q, k), ceiling, Besides(operator))
  <2> SUFFICES ASSUME NEW k \in 1 .. n, NEW q \in TreePlans PROVE Extends(q, Next1(q, k), ceiling, Besides(operator))
    OBVIOUS
  <2>1. ((k - 1) % ReadConcurrency = 0) \in BOOLEAN OBVIOUS
  <2>2. content[picked[k]] \in TreeContents /\ Besides(operator) \in SUBSET Tree BY <1>5 DEF Besides
  <2> QED BY <1>3, <1>5, <2>1, <2>2, TakeSiblingFacts
<1> HIDE DEF Next1
<1> DEFINE step == [k \in 1 .. n |-> [q \in TreePlans |-> Next1(q, k)]]
<1>7. \A k \in 1 .. n, q \in TreePlans : Next1(q, k) \in TreePlans BY <1>6 DEF Extends
<1>8. step \in [1 .. n -> [TreePlans -> TreePlans]] BY <1>7
<1>9. \A k \in 1 .. n, q \in TreePlans : step[k][q] = Next1(q, k) OBVIOUS
<1> HIDE DEF step
<1>10. PICK g : Fold(g, TreePlans, p, n, step) BY <1>8, FoldExists
<1>11. /\ g \in [0 .. n -> TreePlans] /\ g[0] = p
       /\ \A k \in 1 .. n : g[k] = Next1(g[k - 1], k)
  <2>1. \A k \in 1 .. n : k - 1 \in 0 .. n OBVIOUS
  <2>2. g \in [0 .. n -> TreePlans] /\ g[0] = p /\ \A k \in 1 .. n : g[k] = step[k][g[k - 1]] BY <1>10 DEF Fold
  <2> QED BY <1>9, <2>1, <2>2
<1>12. g = [k \in 0 .. Len(picked) |-> IF k = 0 THEN p ELSE Next1(g[k - 1], k)]
  <2>1. \A k \in 0 .. n : k = 0 \/ k \in 1 .. n OBVIOUS
  <2>2. \A k \in 0 .. n : g[k] = IF k = 0 THEN p ELSE Next1(g[k - 1], k) BY <1>11, <2>1
  <2> QED BY <1>11, <2>2
<1>13. upTo = [k \in 0 .. Len(picked) |-> IF k = 0 THEN p ELSE Next1(upTo[k - 1], k)] BY <1>12, Zenon
<1> HIDE DEF upTo
<1>14. upTo[0] = p /\ \A k \in 1 .. n : upTo[k] = Next1(upTo[k - 1], k)
  <2>1. 0 \in 0 .. n /\ \A k \in 1 .. n : k # 0 /\ k \in 0 .. n OBVIOUS
  <2> QED BY <1>13, <2>1
<1> DEFINE Good == {q \in TreePlans : Extends(p, q, ceiling, Besides(operator))}
<1>15. \A k \in 0 .. n : upTo[k] \in Good
  <2>1. upTo[0] \in Good BY <1>14, ExtendsStill
  <2>2. \A k \in 1 .. n : upTo[k - 1] \in Good => upTo[k] \in Good
    <3> SUFFICES ASSUME NEW k \in 1 .. n, upTo[k - 1] \in Good PROVE upTo[k] \in Good OBVIOUS
    <3> PICK q : q = upTo[k - 1] OBVIOUS
    <3>1. q \in TreePlans /\ Extends(p, q, ceiling, Besides(operator)) OBVIOUS
    <3>2. upTo[k] = Next1(q, k) BY <1>14
    <3>3. Extends(q, upTo[k], ceiling, Besides(operator)) BY <1>6, <3>1, <3>2
    <3>4. upTo[k] \in TreePlans BY <1>7, <3>1, <3>2
    <3> QED BY <3>1, <3>3, <3>4, ExtendsFurther
  <2> HIDE DEF Good
  <2> QED BY <2>1, <2>2, FoldTyped
<1>16. upTo[n] \in Good
  <2>1. n \in 0 .. n OBVIOUS
  <2> HIDE DEF Good
  <2> QED BY <1>15, <2>1
<1> PICK last : last = upTo[n] OBVIOUS
<1> PICK q : q = [last EXCEPT !.capped = capped] OBVIOUS
<1>17. last \in TreePlans /\ Extends(p, last, ceiling, Besides(operator)) BY <1>16
<1>18. /\ q.entries = last.entries /\ q.totalBytes = last.totalBytes /\ q.changedBytes = last.changedBytes
       /\ q.omitted = last.omitted /\ q.oversized = last.oversized /\ q.refused = last.refused
  BY <1>17 DEF TreePlans
<1>19. q \in TreePlans BY <1>4, <1>17 DEF TreePlans
<1>20. q.totalBytes = p.totalBytes \/ q.totalBytes <= budget
  <2>1. q.totalBytes \in Nat BY <1>19 DEF TreePlans
  <2> QED BY <1>3, <1>17, <1>18, <2>1 DEF Extends
<1>21. Extends(p, q, budget, Besides(operator)) BY <1>17, <1>18, <1>19, <1>20 DEF Extends, Keeps, Balanced
<1> QED BY <1>1, <1>21

\* The whole plan.
Accounts(q, diff, content) == \A i \in 1 .. Len(diff) :
  diff[i].newPath = Nowhere \/ diff[i].newPath \in q.omitted \/ Mirrored(q, diff[i], content)
OfTheChange(q, diff, others) == \A e \in ToSet(q.entries) :
  (\E i \in 1 .. Len(diff) : e.path = diff[i].newPath) \/ e.path \in others
Affordable(q, budget) == q.totalBytes = q.changedBytes \/ q.totalBytes <= budget
Made(q, diff, content, operator, budget) ==
  /\ q \in TreePlans
  /\ ~ q.refused => /\ Balanced(q) /\ Affordable(q, budget) /\ Accounts(q, diff, content)
                    /\ OfTheChange(q, diff, Besides(operator))

LEMMA PlanFacts ==
  ASSUME NEW X, NEW diff \in Seq(X), NEW content, AllReadable(X, content), NEW siblings \in BOOLEAN, NEW operator,
         siblings => \A path \in Besides(operator) : content[path] \in TreeContents,
         NEW listing \in [Dirs -> Seq(Tree)], NEW budget \in Nat
  PROVE  Made(PlanSnapshot(diff, content, listing, siblings, operator, budget), diff, content, operator, budget)
<1> PICK p : p = Changed(diff, content) OBVIOUS
<1> PICK q : q = PlanSnapshot(diff, content, listing, siblings, operator, budget) OBVIOUS
<1>1. ChangedPlan(p, diff, content) BY ChangedFacts
<1>2. Located(X) BY DEF Located, AllReadable, Readable
<1>3. CASE p.refused \/ ~ siblings
  <2>1. q = p BY <1>3 DEF PlanSnapshot
  <2> QED BY <1>1, <2>1 DEF ChangedPlan, Made, Affordable, Accounts, OfTheChange
<1>4. CASE ~ (p.refused \/ ~ siblings)
  <2>1. q = WithContext(p, diff, content, listing, operator, budget) BY <1>4 DEF PlanSnapshot
  <2>2. p \in TreePlans BY <1>1 DEF ChangedPlan
  <2>3. Extends(p, q, budget, Besides(operator)) BY <1>2, <1>4, <2>1, <2>2, WithContextFacts
  <2>4. Accounts(q, diff, content) BY <1>1, <1>4, <2>3 DEF ChangedPlan, Extends, Keeps, Accounts, Mirrored
  <2>5. OfTheChange(q, diff, Besides(operator)) BY <1>1, <2>3 DEF ChangedPlan, Extends, OfTheChange
  <2>6. Balanced(q) /\ Affordable(q, budget) BY <1>1, <2>3 DEF ChangedPlan, Extends, Affordable
  <2> QED BY <2>3, <2>4, <2>5, <2>6 DEF Made, Extends
<1> QED BY <1>3, <1>4

(***************************************************************************)
(* The evidence the plan is made of.                                       *)
(***************************************************************************)
SameNames(f, g) == f.newPath = g.newPath /\ f.oldPath = g.oldPath
Delivers(got, c) ==
  LET file == ToFetchedFile(c) IN
  \/ file.newPath = Nowhere
  \/ \E f \in ToSet(got.files) : SameNames(f, file)
  \/ c.onTarget /\ got.narrowed
  \/ ~ got.complete /\ \A f \in ToSet(got.files) : f.newPath # file.newPath

LEMMA ChangeOf ==
  ASSUME NEW r \in RequestSet, NEW i \in DOMAIN r.changes
  PROVE  r.changes[i] \in Changes /\ r.changes[i] \in ToSet(r.changes)
<1>1. r.changes \in Seq(Changes) BY RequestsAssumption
<1> QED BY <1>1, Element, Zenon DEF ToSet

LEMMA NamesOf ==
  ASSUME NEW c \in Changes, NEW way
  PROVE  /\ SameNames(ToFetchedFile(Sent(c, way)), ToFetchedFile(c))
         /\ ToFetchedFile(c).newPath = (IF c.deletedFile THEN Nowhere ELSE c.newPath)
         /\ ToFetchedFile(c).newPath \in Tree \union {Nowhere}
<1> PICK e : e = Sent(c, way) OBVIOUS
<1>1. e.oldPath = c.oldPath /\ e.newPath = c.newPath /\ e.newFile = c.newFile /\ e.deletedFile = c.deletedFile
  BY DEF Sent, Changes
<1>2. SameNames(ToFetchedFile(e), ToFetchedFile(c)) BY <1>1 DEF SameNames, ToFetchedFile
<1>3. ToFetchedFile(c).newPath = (IF c.deletedFile THEN Nowhere ELSE c.newPath) BY DEF ToFetchedFile
<1>4. c.newPath \in Tree BY DEF Changes, Tree
<1> QED BY <1>2, <1>3, <1>4

LEMMA NamedByChange ==
  ASSUME NEW r \in RequestSet, NEW i \in DOMAIN r.changes, NEW f, SameNames(f, ToFetchedFile(r.changes[i]))
  PROVE  Named(f) \in {r.changes[i].oldPath, r.changes[i].newPath}
<1> PICK c : c = r.changes[i] OBVIOUS
<1>1. ~ (c.newFile /\ c.deletedFile) BY ChangeOf, RequestsAssumption
<1>2. Named(ToFetchedFile(c)) \in {c.oldPath, c.newPath} BY <1>1 DEF Named, ToFetchedFile
<1>3. Named(f) = Named(ToFetchedFile(c)) BY DEF Named, SameNames
<1> QED BY <1>2, <1>3

LEMMA OneNewName ==
  ASSUME NEW r \in RequestSet, NEW i \in DOMAIN r.changes, NEW j \in DOMAIN r.changes,
         ToFetchedFile(r.changes[i]).newPath = ToFetchedFile(r.changes[j]).newPath,
         ToFetchedFile(r.changes[i]).newPath # Nowhere
  PROVE  i = j
<1>1. r.changes[i] \in Changes /\ r.changes[j] \in Changes BY ChangeOf
<1>2. ~ r.changes[i].deletedFile /\ ~ r.changes[j].deletedFile /\ r.changes[i].newPath = r.changes[j].newPath
  BY <1>1, NamesOf
<1> QED BY <1>2, RequestsAssumption

LEMMA FetchedNames ==
  ASSUME NEW r \in RequestSet, NEW how, NEW head, NEW v \in Versions(r.changes, how, head),
         NEW compare, Compared(r, compare), NEW got, got = FetchSnapshot(Target, v, compare), got.kind = "ok",
         Covered(r, how, got)
  PROVE  Located(ToSet(got.files)) /\ \A i \in DOMAIN r.changes : Delivers(got, r.changes[i])
<1>1. PICK sentFiles : sentFiles = [k \in DOMAIN v.diffs |-> ToFetchedFile(v.diffs[k])] OBVIOUS
<1>2. PICK differing : differing = PathsDifferingFromTarget(Target, compare) OBVIOUS
<1>3. got.files = Narrow(sentFiles, differing) /\ got.narrowed = (differing # <<>>)
  <2>1. v.head = Target.head BY DEF FetchSnapshot, Failed
  <2> QED BY <1>1, <1>2, <2>1 DEF FetchSnapshot
<1>4. PICK sent \in Seq(DOMAIN r.changes) : Tells(v, r.changes, how, sent) BY VersionTells
<1>5. Len(sent) \in Nat /\ DOMAIN sent = 1 .. Len(sent) BY LenProperties
<1>6. \A k \in DOMAIN sent : sent[k] \in DOMAIN r.changes /\ sent[k] \in ToSet(sent) BY Element DEF ToSet
<1>7. sentFiles \in Seq(ToSet(sentFiles)) /\ ToSet(sentFiles) = {sentFiles[k] : k \in DOMAIN sent}
  <2>1. sentFiles = [k \in 1 .. Len(sent) |-> sentFiles[k]] BY <1>1, <1>4, <1>5 DEF Tells
  <2>2. sentFiles \in Seq(ToSet(sentFiles)) /\ DOMAIN sentFiles = 1 .. Len(sent) BY <1>5, <2>1, ListOfImages
  <2> QED BY <1>5, <2>2 DEF ToSet
<1>8. ASSUME NEW k \in DOMAIN sent
      PROVE  /\ SameNames(sentFiles[k], ToFetchedFile(r.changes[sent[k]]))
             /\ sentFiles[k].newPath \in Tree \union {Nowhere} /\ sentFiles[k] \in ToSet(sentFiles)
  <2>1. sentFiles[k] = ToFetchedFile(Sent(r.changes[sent[k]], how[sent[k]])) BY <1>1, <1>4 DEF Tells
  <2>2. r.changes[sent[k]] \in Changes BY <1>6, ChangeOf
  <2>3. SameNames(sentFiles[k], ToFetchedFile(r.changes[sent[k]]))
        /\ ToFetchedFile(r.changes[sent[k]]).newPath \in Tree \union {Nowhere}
    BY <2>1, <2>2, NamesOf
  <2> QED BY <1>7, <2>3 DEF SameNames
<1>9. \/ differing = <<>> /\ ToSet(got.files) = ToSet(sentFiles)
      \/ /\ differing # <<>> /\ compare.kind = "ok" /\ got.narrowed
         /\ ToSet(got.files) = ToSet(sentFiles) \cap {g \in ToSet(sentFiles) : Named(g) \in compare.paths}
  <2>1. CASE differing = <<>> BY <1>3, <2>1 DEF Narrow
  <2>2. CASE differing # <<>>
    <3>1. compare.kind = "ok" /\ differing = <<compare.paths>> BY <1>2, <2>2 DEF PathsDifferingFromTarget
    <3>2. got.files = Among(sentFiles, {g \in ToSet(sentFiles) : Named(g) \in compare.paths}) BY <1>3, <2>2, <3>1 DEF Narrow
    <3>3. ToSet(got.files) = ToSet(sentFiles) \cap {g \in ToSet(sentFiles) : Named(g) \in compare.paths}
      BY <1>7, <3>2, AmongFacts
    <3> QED BY <1>3, <2>2, <3>1, <3>3
  <2> QED BY <2>1, <2>2
<1>10. ToSet(got.files) \subseteq ToSet(sentFiles) BY <1>9
<1>11. Located(ToSet(got.files)) BY <1>7, <1>8, <1>10 DEF Located
<1>12. ASSUME NEW i \in DOMAIN r.changes PROVE Delivers(got, r.changes[i])
  <2> PICK c : c = r.changes[i] OBVIOUS
  <2>1. CASE i \in ToSet(sent)
    <3>1. PICK k \in DOMAIN sent : sent[k] = i BY <2>1 DEF ToSet
    <3>2. SameNames(sentFiles[k], ToFetchedFile(c)) /\ sentFiles[k] \in ToSet(sentFiles) BY <1>8, <3>1
    <3>3. CASE differing = <<>> BY <1>9, <3>2, <3>3 DEF Delivers
    <3>4. CASE differing # <<>> /\ c.onTarget BY <1>9, <3>4 DEF Delivers
    <3>5. CASE differing # <<>> /\ ~ c.onTarget
      <4>1. Named(sentFiles[k]) \in compare.paths BY <1>9, <3>2, <3>5, NamedByChange DEF Compared
      <4>2. sentFiles[k] \in ToSet(got.files) BY <1>9, <3>2, <3>5, <4>1
      <4> QED BY <3>2, <4>2 DEF Delivers
    <3> QED BY <3>3, <3>4, <3>5
  <2>2. CASE i \notin ToSet(sent)
    <3>1. ~ got.complete
      <4>1. how[i] = "left out" BY <1>4, <2>2 DEF Tells
      <4> QED BY <4>1 DEF Covered
    <3>2. ASSUME NEW f \in ToSet(got.files), f.newPath = ToFetchedFile(c).newPath, f.newPath # Nowhere PROVE FALSE
      <4>1. PICK k \in DOMAIN sent : f = sentFiles[k] BY <1>7, <1>10
      <4>2. ToFetchedFile(r.changes[sent[k]]).newPath = ToFetchedFile(r.changes[i]).newPath
        BY <1>8, <3>2, <4>1 DEF SameNames
      <4>3. sent[k] = i BY <1>6, <3>2, <4>2, OneNewName
      <4> QED BY <1>6, <2>2, <4>3
    <3> QED BY <3>1, <3>2 DEF Delivers
  <2> QED BY <2>1, <2>2
<1> QED BY <1>11, <1>12

Begun == {"asked", "not judgeable", "gathered", "failed"}
Gone == {"planned", "composed", "too large"}

\* Every change is in the evidence, or it is known why not.
Known ==
  /\ pc \notin Begun => evidence.kind = "ok"
  /\ evidence.kind = "ok" =>
       Located(ToSet(evidence.files)) /\ \A c \in ToSet(request.changes) : Delivers(evidence, c)

\* All of a local revision is held at once.
HeldAtOnce ==
  ~ request.remote =>
    /\ wanted = <<>>
    /\ pc \notin Begun => cache = [p \in DOMAIN request.blobs |-> RevisionContent(request.blobs[p])]

\* What is planned is planned for good, and context was what the budget left.
PlannedWell ==
  pc \in Gone =>
    /\ EveryFileAccounted /\ NothingComesBack /\ Balanced(plan) /\ plan \in TreePlans
    /\ Affordable(plan, ContextBudget(Files, request.limits))

SnapshotInv == Known /\ HeldAtOnce /\ PlannedWell /\ ContextIsFree

LEMMA KeptSnapshot ==
  ASSUME SnapshotInv, UNCHANGED <<request, evidence, plan>>, pc \notin Begun => pc' \notin Begun,
         pc' \notin Begun => pc \notin Begun, pc' \in Gone => pc \in Gone
  PROVE  Known' /\ PlannedWell'
<1>1. Known' BY DEF SnapshotInv, Known
<1>2. Files' = Files /\ Operator' = Operator BY DEF Files, Operator
<1>3. PlannedWell' BY <1>2 DEF SnapshotInv, PlannedWell, EveryFileAccounted, NothingComesBack
<1> QED BY <1>1, <1>3

\* What is held of a path, if it is text, is the text of the revision.
ContentHeld == \A p \in DOMAIN cache :
  /\ cache[p] \in TreeContents
  /\ cache[p].kind = "text" => cache[p].bytes = DecodedSize(request.blobs[p])

LEMMA DecodedIsSize ==
  ASSUME NEW b \in Blobs
  PROVE  DecodedSize(b) \in Nat /\ b.size \in Nat
BY DEF Blobs, DecodedSize

LEMMA FetchedContent ==
  ASSUME NEW p, NEW links, NEW b \in Blobs, NEW answered, NEW got, got = Fetch(p, links, b, answered)
  PROVE  got \in TreeContents /\ (got.kind = "text" => got.bytes = DecodedSize(b))
<1>1. DecodedSize(b) \in Nat /\ b.size \in Nat BY DecodedIsSize
<1>2. got \in {Link, Unavailable, TooLarge(b.size), Binary, Text(DecodedSize(b))}
  <2>1. CASE p \in links BY <2>1 DEF Fetch
  <2>2. CASE p \notin links /\ (~ answered \/ b.kind = "gone") BY <2>2 DEF Fetch
  <2>3. CASE p \notin links /\ ~ (~ answered \/ b.kind = "gone")
    <3>1. got = IF b.size > MaxFileBytes THEN TooLarge(b.size)
                ELSE IF IsBinaryContent(b) THEN Binary ELSE Text(DecodedSize(b))
      BY <2>3 DEF Fetch
    <3> QED BY <3>1
  <2> QED BY <2>1, <2>2, <2>3
<1> QED BY <1>1, <1>2 DEF Link, Unavailable, TooLarge, Binary, Text, TreeContents

LEMMA ServedContent ==
  ASSUME NEW p, NEW links, NEW b \in Blobs, NEW answered, NEW got \in AsServed(p, links, b, answered)
  PROVE  got \in TreeContents /\ got.bytes = DecodedSize(b)
<1>1. b.kind = "disputed" /\ got = Text(b.size) BY DEF AsServed
<1>2. DecodedSize(b) = b.size /\ b.size \in Nat BY <1>1 DEF DecodedSize, Blobs
<1> QED BY <1>1, <1>2 DEF Text, TreeContents

LEMMA RevisionContentFacts ==
  ASSUME NEW b \in Blobs, NEW got, got = RevisionContent(b)
  PROVE  got \in TreeContents /\ (got.kind = "text" => got.bytes = DecodedSize(b))
<1>1. DecodedSize(b) \in Nat /\ b.size \in Nat BY DecodedIsSize
<1>2. got \in {Nothing, TooLarge(DecodedSize(b)), Binary, Text(DecodedSize(b))}
  <2>1. CASE b.kind = "gone" BY <2>1 DEF RevisionContent
  <2>2. CASE b.kind # "gone" /\ DecodedSize(b) > MaxFileBytes BY <2>2 DEF RevisionContent
  <2>3. CASE b.kind # "gone" /\ ~ (DecodedSize(b) > MaxFileBytes) BY <2>3 DEF RevisionContent
  <2> QED BY <2>1, <2>2, <2>3
<1> QED BY <1>1, <1>2 DEF Nothing, TooLarge, Binary, Text, TreeContents

LEMMA ContentIsHeld ==
  ASSUME EvidenceInv, HeldAtOnce, pc \notin Begun
  PROVE  ContentHeld /\ (~ request.remote => DOMAIN cache = Tree)
<1>1. request \in RequestSet /\ DOMAIN cache \subseteq DOMAIN request.blobs BY DEF EvidenceInv, EvidenceTypeOK
<1>2. request.blobs \in [Tree -> Blobs] /\ DOMAIN request.blobs = Tree /\ request.remote \in BOOLEAN
  BY <1>1, RequestParts DEF Tree
<1>3. CASE request.remote
  <2> SUFFICES ASSUME NEW p \in DOMAIN cache
               PROVE  cache[p] \in TreeContents /\ (cache[p].kind = "text" => cache[p].bytes = DecodedSize(request.blobs[p]))
    BY <1>3 DEF ContentHeld
  <2>1. \/ cache[p] = Fetch(p, evidence.symlinks, request.blobs[p], p \notin unanswered)
        \/ cache[p] \in AsServed(p, evidence.symlinks, request.blobs[p], p \notin unanswered)
    BY <1>3 DEF EvidenceInv, PrimedReadsAgree
  <2>2. request.blobs[p] \in Blobs BY <1>1, <1>2
  <2> QED BY <2>1, <2>2, FetchedContent, ServedContent
<1>4. CASE ~ request.remote
  <2>1. cache = [p \in DOMAIN request.blobs |-> RevisionContent(request.blobs[p])] BY <1>4 DEF HeldAtOnce
  <2>2. \A p \in DOMAIN cache : request.blobs[p] \in Blobs /\ cache[p] = RevisionContent(request.blobs[p]) BY <1>2, <2>1
  <2>3. DOMAIN cache = Tree BY <1>2, <2>1
  <2> QED BY <2>2, <2>3, RevisionContentFacts DEF ContentHeld
<1> QED BY <1>2, <1>3, <1>4

LEMMA ListingIsOfTree == ASSUME EvidenceInv PROVE Listing \in [Dirs -> Seq(Tree)]
<1> SUFFICES ASSUME NEW d \in Dirs
             PROVE  SetToSeq({p \in DOMAIN DirectoryOf : DirectoryOf[p] = d /\ request.blobs[p].kind # "gone"}) \in Seq(Tree)
  BY DEF Listing, Dirs
<1> PICK S : S = {p \in DOMAIN DirectoryOf : DirectoryOf[p] = d /\ request.blobs[p].kind # "gone"} OBVIOUS
<1>1. S \subseteq Tree BY PlanAssumption DEF Tree
<1>2. IsFiniteSet(S) BY <1>1, PlanAssumption, FS_Subset DEF Tree
<1>3. SetToSeq(S) \in Seq(S) BY <1>2, SetInOrder
<1>4. \A T, s : S \subseteq T /\ s \in Seq(S) => s \in Seq(T) OBVIOUS
<1> QED BY <1>1, <1>3, <1>4

LEMMA BudgetIsNat ==
  ASSUME EvidenceInv
  PROVE  /\ ContextBudget(Files, request.limits) \in Nat /\ PromptOverhead(Files) \in Nat
         /\ request.limits.maxContextBytes \in Nat /\ request.limits.maxChangedFiles \in Nat
         /\ PatchBytes(Files) \in Nat /\ PatchBytes(Files) <= PromptOverhead(Files)
<1>1. request.limits \in Limits BY RequestsAssumption DEF EvidenceInv
<1>2. PatchBytes(Files) \in Nat /\ Reserve \in Nat BY FilesAreList, PlanAssumption DEF EvidenceInv
<1>3. PromptOverhead(Files) \in Nat /\ PatchBytes(Files) <= PromptOverhead(Files) BY <1>2 DEF PromptOverhead
<1>4. request.limits.maxContextBytes \in Nat /\ request.limits.maxChangedFiles \in Nat BY <1>1 DEF Limits
<1>5. ContextBudget(Files, request.limits) \in Nat BY <1>3, <1>4 DEF ContextBudget
<1> QED BY <1>2, <1>3, <1>4, <1>5

\* Of what is reviewed, nothing is excluded, and what is not excluded is reviewed.
LEMMA ReviewedFiles ==
  ASSUME EvidenceInv
  PROVE  /\ Files \in Seq(ToSet(Files)) /\ ToSet(Files) = {Files[i] : i \in 1 .. Len(Files)}
         /\ ToSet(Files) = {f \in ToSet(evidence.files) : ~ ExcludedFromReview(f, Operator)}
<1>1. Files \in Seq(ToSet(Files)) BY FilesAreList DEF EvidenceInv
<1>2. ToSet(Files) = {Files[i] : i \in 1 .. Len(Files)}
  <2>1. DOMAIN Files = 1 .. Len(Files) BY <1>1, LenProperties
  <2> QED BY <2>1 DEF ToSet
<1>3. ToSet(Files) = {f \in ToSet(evidence.files) : ~ ExcludedFromReview(f, Operator)}
  <2> PICK S : S = {f \in ToSet(evidence.files) : ~ ExcludedFromReview(f, Operator)} OBVIOUS
  <2>1. Files = Among(evidence.files, S) BY DEF Files, Reviewable
  <2>2. evidence.files \in Seq(ToSet(evidence.files)) BY DEF EvidenceInv, Listed
  <2>3. ToSet(Files) = ToSet(evidence.files) \cap S BY <2>1, <2>2, AmongFacts
  <2> QED BY <2>3
<1> QED BY <1>1, <1>2, <1>3

LEMMA InitSnapshot == EvidenceInit => SnapshotInv
BY DEF EvidenceInit, SnapshotInv, Known, HeldAtOnce, PlannedWell, ContextIsFree, Failed, Begun, Gone

LEMMA ResolvedMergeRequestKnown ==
  ASSUME EvidenceInv, EvidenceInv', SnapshotInv, ResolveMergeRequest
  PROVE  SnapshotInv'
<1>1. pc = "gathered" /\ request.remote /\ UNCHANGED <<request, wanted, cache, plan, prompt>> BY DEF ResolveMergeRequest
<1>2. request \in RequestSet BY DEF EvidenceInv
<1> PICK how \in [DOMAIN request.changes -> UNION {Ways(c) : c \in ToSet(request.changes)}],
         compare \in {[kind |-> "ok", paths |-> StillDiffers], [kind |-> "timeout", paths |-> {}]},
         head \in {Target.head, "moved"} :
      \E v \in Versions(request.changes, how, head) :
        /\ delivered' = {i \in DOMAIN how : how[i] = "whole"}
        /\ evidence' = FetchSnapshot(Target, v, compare)
        /\ pc' = IF evidence'.kind = "ok" THEN "resolved" ELSE "failed"
  BY DEF ResolveMergeRequest
<1> PICK v \in Versions(request.changes, how, head) :
      /\ delivered' = {i \in DOMAIN how : how[i] = "whole"}
      /\ evidence' = FetchSnapshot(Target, v, compare)
      /\ pc' = IF evidence'.kind = "ok" THEN "resolved" ELSE "failed"
  OBVIOUS
<1>3. pc' \notin Begun => evidence'.kind = "ok" BY DEF Begun
<1>4. Compared(request, compare)
  <2>1. ASSUME compare.kind = "ok", NEW i \in DOMAIN request.changes, ~ request.changes[i].onTarget
        PROVE  {request.changes[i].oldPath, request.changes[i].newPath} \subseteq compare.paths
    <3>1. request.changes[i] \in ToSet(request.changes) BY <1>2, ChangeOf
    <3>2. compare.paths = StillDiffers BY <2>1
    <3>3. request.changes[i] \in {d \in ToSet(request.changes) : ~ d.onTarget} BY <2>1, <3>1
    <3> QED BY <3>2, <3>3 DEF StillDiffers
  <2> QED BY <2>1 DEF Compared
<1>5. evidence'.kind = "ok" => Covered(request, how, evidence')
  <2>1. CoverageIsTrue' BY DEF EvidenceInv
  <2> SUFFICES ASSUME evidence'.kind = "ok" PROVE Covered(request, how, evidence') OBVIOUS
  <2>2. DOMAIN how = DOMAIN request.changes OBVIOUS
  <2>3. delivered' = {i \in DOMAIN request.changes : how[i] = "whole"} BY <2>2
  <2>4. /\ evidence'.complete <=> delivered' = DOMAIN request.changes /\ request.changes # <<>>
        /\ evidence'.complete => \A i \in DOMAIN request.changes :
             request.changes[i].onTarget \/ ToFetchedFile(request.changes[i]) \in ToSet(evidence'.files)
    BY <1>1, <2>1 DEF CoverageIsTrue
  <2> QED BY <2>3, <2>4 DEF Covered
<1>6. evidence'.kind = "ok" =>
        Located(ToSet(evidence'.files)) /\ \A i \in DOMAIN request.changes : Delivers(evidence', request.changes[i])
  BY <1>2, <1>4, <1>5, FetchedNames
<1>7. Known'
  <2>1. \A c \in ToSet(request.changes) : \E i \in DOMAIN request.changes : c = request.changes[i] BY DEF ToSet
  <2>2. evidence'.kind = "ok" => \A c \in ToSet(request.changes) : Delivers(evidence', c) BY <1>6, <2>1
  <2> QED BY <1>1, <1>3, <1>6, <2>2 DEF Known, Located, Delivers
<1>8. HeldAtOnce' BY <1>1 DEF HeldAtOnce
<1>9. pc' \in {"resolved", "failed"} OBVIOUS
<1>10. PlannedWell' /\ ContextIsFree' BY <1>9 DEF PlannedWell, ContextIsFree, Gone
<1> QED BY <1>7, <1>8, <1>10 DEF SnapshotInv

LEMMA ResolvedLocalKnown ==
  ASSUME EvidenceInv, SnapshotInv, ResolveLocal
  PROVE  SnapshotInv'
<1>1. /\ pc = "gathered" /\ pc' = "resolved" /\ ~ request.remote /\ UNCHANGED <<request, wanted, plan, prompt>>
      /\ cache' = [p \in DOMAIN request.blobs |-> RevisionContent(request.blobs[p])]
      /\ evidence' = [Failed EXCEPT !.kind = "ok", !.complete = TRUE,
                                    !.files = [i \in DOMAIN request.changes |-> ToFetchedFile(request.changes[i])]]
  BY DEF ResolveLocal
<1>2. request \in RequestSet BY DEF EvidenceInv
<1>3. evidence'.kind = "ok" /\ evidence'.files = [i \in DOMAIN request.changes |-> ToFetchedFile(request.changes[i])]
  BY <1>1 DEF Failed
<1>4. ToSet(evidence'.files) = {ToFetchedFile(request.changes[i]) : i \in DOMAIN request.changes} BY <1>3 DEF ToSet
<1>5. Located(ToSet(evidence'.files))
  <2>1. \A i \in DOMAIN request.changes : ToFetchedFile(request.changes[i]).newPath \in Tree \union {Nowhere}
    BY <1>2, ChangeOf, NamesOf
  <2> QED BY <1>4, <2>1 DEF Located
<1>6. \A c \in ToSet(request.changes) : Delivers(evidence', c)
  <2>1. \A c \in ToSet(request.changes) : ToFetchedFile(c) \in ToSet(evidence'.files) BY <1>4 DEF ToSet
  <2>2. \A f : SameNames(f, f) BY DEF SameNames
  <2> QED BY <2>1, <2>2 DEF Delivers
<1>7. Known' BY <1>1, <1>3, <1>5, <1>6 DEF Known, Located, Delivers
<1>8. HeldAtOnce' BY <1>1 DEF SnapshotInv, HeldAtOnce
<1>9. PlannedWell' /\ ContextIsFree' BY <1>1 DEF PlannedWell, ContextIsFree, Gone
<1> QED BY <1>7, <1>8, <1>9 DEF SnapshotInv

\* What is planned of the evidence.
LEMMA PlannedFromEvidence ==
  ASSUME EvidenceInv, SnapshotInv, Plan
  PROVE  Made(plan', Files, cache, Operator, ContextBudget(Files, request.limits))
<1>1. /\ pc = "reading" /\ Needed(Files) \subseteq DOMAIN cache
      /\ plan' = PlanSnapshot(Files, cache, Listing, ~ request.remote, Operator, ContextBudget(Files, request.limits))
  BY DEF Plan
<1>2. ContentHeld /\ (~ request.remote => DOMAIN cache = Tree) BY <1>1, ContentIsHeld DEF SnapshotInv, Begun
<1>3. Located(ToSet(evidence.files)) BY <1>1 DEF SnapshotInv, Known, Begun
<1>4. AllReadable(ToSet(Files), cache)
  <2> SUFFICES ASSUME NEW f \in ToSet(Files) PROVE Readable(f, cache) BY DEF AllReadable
  <2>1. f.newPath \in Tree \union {Nowhere} BY <1>3, ReviewedFiles DEF Located
  <2> SUFFICES ASSUME IsRead(f)
               PROVE  cache[f.newPath] \in TreeContents
    BY <2>1 DEF Readable
  <2>2. f.newPath \in Needed(Files) BY <2>1 DEF Needed, Tree, IsRead
  <2> QED BY <1>1, <1>2, <2>2 DEF ContentHeld
<1>5. ~ request.remote => \A path \in Besides(Operator) : cache[path] \in TreeContents
  BY <1>2 DEF ContentHeld, Besides
<1>6. (~ request.remote) \in BOOLEAN OBVIOUS
<1>7. Files \in Seq(ToSet(Files)) /\ Listing \in [Dirs -> Seq(Tree)] /\ ContextBudget(Files, request.limits) \in Nat
  BY ReviewedFiles, ListingIsOfTree, BudgetIsNat
<1> QED BY <1>1, <1>4, <1>5, <1>6, <1>7, PlanFacts

LEMMA PlannedAccounts ==
  ASSUME EvidenceInv, SnapshotInv, Plan, ~ plan'.refused
  PROVE  EveryFileAccounted'
<1>1. pc = "reading" /\ UNCHANGED <<request, evidence, cache>> BY DEF Plan
<1>2. Files' = Files /\ Operator' = Operator BY <1>1 DEF Files, Operator
<1>3. Accounts(plan', Files, cache) BY PlannedFromEvidence DEF Made
<1>4. ContentHeld BY <1>1, ContentIsHeld DEF SnapshotInv, Begun
<1>5. \A c \in ToSet(request.changes) : Delivers(evidence, c) BY <1>1 DEF SnapshotInv, Known, Begun
<1> SUFFICES ASSUME NEW c \in ToSet(request.changes)
             PROVE  LET file == ToFetchedFile(c) IN
                    \/ file.newPath = Nowhere
                    \/ file.newPath \in plan'.omitted
                    \/ [path |-> file.newPath, bytes |-> DecodedSize(request.blobs[file.newPath])] \in ToSet(plan'.entries)
                    \/ ExcludedFromReview(file, Operator)
                    \/ c.onTarget /\ evidence.narrowed
                    \/ ~ evidence.complete /\ \A f \in ToSet(evidence.files) : f.newPath # file.newPath
  BY <1>1, <1>2 DEF EveryFileAccounted
<1> PICK file : file = ToFetchedFile(c) OBVIOUS
<1> SUFFICES ASSUME file.newPath # Nowhere, ~ ExcludedFromReview(file, Operator),
                    NEW f \in ToSet(evidence.files), SameNames(f, file)
             PROVE  \/ file.newPath \in plan'.omitted
                    \/ [path |-> file.newPath, bytes |-> DecodedSize(request.blobs[file.newPath])] \in ToSet(plan'.entries)
  BY <1>5 DEF Delivers
<1>6. ~ ExcludedFromReview(f, Operator) BY DEF ExcludedFromReview, SameNames
<1>7. PICK i \in 1 .. Len(Files) : Files[i] = f BY <1>6, ReviewedFiles
<1>8. f.newPath \in plan'.omitted \/ Mirrored(plan', f, cache) BY <1>3, <1>7 DEF Accounts, SameNames
<1>9. CASE Mirrored(plan', f, cache)
  <2>1. cache[f.newPath].kind = "text" /\ [path |-> f.newPath, bytes |-> cache[f.newPath].bytes] \in ToSet(plan'.entries)
    BY <1>9 DEF Mirrored
  <2>2. f.newPath \in DOMAIN cache
    <3>1. Needed(Files) \subseteq DOMAIN cache BY DEF Plan
    <3>2. IsRead(f) BY <1>9 DEF Mirrored
    <3>3. f.newPath \in Tree BY <1>1, <3>2 DEF SnapshotInv, Known, Begun, Located, IsRead
    <3>4. f \in ToSet(Files) BY <1>7, ReviewedFiles
    <3> QED BY <3>1, <3>2, <3>3, <3>4 DEF Needed, IsRead, Tree
  <2>3. cache[f.newPath].bytes = DecodedSize(request.blobs[f.newPath]) BY <1>4, <2>1, <2>2 DEF ContentHeld
  <2> QED BY <2>1, <2>3 DEF SameNames
<1> QED BY <1>8, <1>9 DEF SameNames

LEMMA PlannedKnown ==
  ASSUME EvidenceInv, SnapshotInv, Plan
  PROVE  SnapshotInv'
<1>1. /\ pc = "reading" /\ UNCHANGED <<request, evidence, wanted, cache, prompt>>
      /\ pc' = IF plan'.refused THEN "refused" ELSE "planned"
  BY DEF Plan
<1>2. Files' = Files /\ Operator' = Operator BY <1>1 DEF Files, Operator
<1>3. Known' BY <1>1 DEF SnapshotInv, Known, Begun
<1>4. HeldAtOnce' BY <1>1 DEF SnapshotInv, HeldAtOnce, Begun
<1>5. ContextIsFree' BY <1>1 DEF ContextIsFree
<1>6. PlannedWell'
  <2> SUFFICES ASSUME ~ plan'.refused
               PROVE  /\ EveryFileAccounted' /\ NothingComesBack' /\ Balanced(plan') /\ plan' \in TreePlans
                      /\ Affordable(plan', ContextBudget(Files, request.limits))
    BY <1>1, <1>2 DEF PlannedWell, Gone, Balanced
  <2>1. /\ plan' \in TreePlans /\ Balanced(plan') /\ Affordable(plan', ContextBudget(Files, request.limits))
        /\ OfTheChange(plan', Files, Besides(Operator))
    BY PlannedFromEvidence DEF Made
  <2>2. NothingComesBack'
    <3> SUFFICES ASSUME NEW e \in ToSet(plan'.entries) PROVE ~ PathExcluded(e.path, Operator)
      BY <1>2 DEF NothingComesBack
    <3>1. CASE e.path \in Besides(Operator) BY <3>1 DEF Besides
    <3>2. CASE e.path \notin Besides(Operator)
      <4>1. PICK i \in 1 .. Len(Files) : e.path = Files[i].newPath BY <2>1, <3>2 DEF OfTheChange
      <4>2. ~ ExcludedFromReview(Files[i], Operator) BY ReviewedFiles
      <4>3. e.path # Nowhere
        <5>1. plan'.entries \in Seq(TreeEntries) BY <2>1 DEF TreePlans
        <5>2. e \in TreeEntries
          <6> PICK s : s = plan'.entries OBVIOUS
          <6>1. s \in Seq(TreeEntries) /\ e \in ToSet(s) BY <5>1
          <6> QED BY <6>1, Element DEF ToSet
        <5> QED BY <5>2, PlanAssumption DEF TreeEntries, Tree
      <4> QED BY <4>1, <4>2, <4>3 DEF ExcludedFromReview
    <3> QED BY <3>1, <3>2
  <2> QED BY <2>1, <2>2, PlannedAccounts
<1> QED BY <1>3, <1>4, <1>5, <1>6 DEF SnapshotInv

\* What the budget left for context never makes a review too large.
LEMMA ContextFits ==
  ASSUME NEW n \in Nat, NEW limits, limits.maxContextBytes \in Nat, limits.maxChangedFiles \in Nat,
         NEW diff, PatchBytes(diff) \in Nat, NEW total \in Nat, NEW changed \in Nat,
         total = changed \/ total <= ContextBudget(diff, limits), ~ WithinLimits(diff, n, total, limits)
  PROVE  n > PromptOverhead(diff) \/ ~ WithinLimits(diff, n, changed, limits)
<1> PICK max \in Nat : max = limits.maxContextBytes OBVIOUS
<1> PICK patch \in Nat : patch = PatchBytes(diff) OBVIOUS
<1> PICK over \in Nat : over = PromptOverhead(diff) /\ patch <= over
  <2>1. Reserve \in Nat BY PlanAssumption
  <2>2. Reserve + patch \in Nat /\ patch <= Reserve + patch BY <2>1
  <2> QED BY <2>2 DEF PromptOverhead
<1> PICK size \in Nat : size = IF n > 0 THEN n ELSE patch OBVIOUS
<1>1. \A t \in Nat : WithinLimits(diff, n, t, limits) <=> Len(diff) <= limits.maxChangedFiles /\ size + t <= max
  BY DEF WithinLimits, ContextBytes
<1>2. ContextBudget(diff, limits) = IF max < over THEN 0 ELSE max - over BY DEF ContextBudget
<1> SUFFICES ASSUME n <= over, Len(diff) <= limits.maxChangedFiles, size + changed <= max PROVE FALSE
  BY <1>1
<1>3. ~ (size + total <= max) BY <1>1
<1>4. size <= over OBVIOUS
<1> QED BY <1>2, <1>3, <1>4

LEMMA ComposedKnown ==
  ASSUME EvidenceInv, SnapshotInv, Compose
  PROVE  SnapshotInv'
<1>1. /\ pc = "planned" /\ UNCHANGED <<request, evidence, wanted, cache, plan>>
      /\ pc' = IF WithinLimits(Files, prompt', plan.totalBytes, request.limits) THEN "composed" ELSE "too large"
  BY DEF Compose
<1>2. prompt' \in Nat
  <2>1. PICK rest \in 0 .. Reserve + 1 : prompt' = PatchBytes(Files) + rest BY DEF Compose
  <2> QED BY <2>1, BudgetIsNat, PlanAssumption
<1>3. Known' /\ PlannedWell' BY <1>1, KeptSnapshot DEF Begun, Gone
<1>4. HeldAtOnce' BY <1>1 DEF SnapshotInv, HeldAtOnce, Begun
<1>5. ContextIsFree'
  <2>1. Files' = Files BY <1>1 DEF Files, Operator
  <2> SUFFICES ASSUME ~ WithinLimits(Files, prompt', plan.totalBytes, request.limits)
               PROVE  prompt' > PromptOverhead(Files) \/ ~ WithinLimits(Files, prompt', plan.changedBytes, request.limits)
    BY <1>1, <2>1 DEF ContextIsFree
  <2>2. plan \in TreePlans /\ Affordable(plan, ContextBudget(Files, request.limits))
    BY <1>1 DEF SnapshotInv, PlannedWell, Gone
  <2>3. plan.totalBytes \in Nat /\ plan.changedBytes \in Nat BY <2>2 DEF TreePlans
  <2>4. plan.totalBytes = plan.changedBytes \/ plan.totalBytes <= ContextBudget(Files, request.limits)
    BY <2>2 DEF Affordable
  <2> QED BY <1>2, <2>3, <2>4, BudgetIsNat, ContextFits
<1> QED BY <1>3, <1>4, <1>5 DEF SnapshotInv

LEMMA SnapshotStep ==
  ASSUME EvidenceInv, EvidenceInv', SnapshotInv, [EvidenceNext]_evidence_vars
  PROVE  SnapshotInv'
<1>1. CASE GatherRequirements
  <2>1. /\ pc = "asked" /\ pc' \in {"gathered", "not judgeable"}
        /\ UNCHANGED <<request, evidence, wanted, cache, plan, prompt>>
    BY <1>1 DEF GatherRequirements
  <2>2. Known' /\ PlannedWell' BY <2>1, KeptSnapshot DEF Begun, Gone
  <2> QED BY <2>1, <2>2 DEF SnapshotInv, HeldAtOnce, ContextIsFree, Begun
<1>2. CASE ResolveMergeRequest BY <1>2, ResolvedMergeRequestKnown
<1>3. CASE ResolveLocal BY <1>3, ResolvedLocalKnown
<1>4. CASE Select
  <2>1. /\ pc = "resolved" /\ pc' \in {"refused", "selected"}
        /\ UNCHANGED <<request, evidence, wanted, cache, plan, prompt>>
    BY <1>4 DEF Select
  <2>2. Known' /\ PlannedWell' BY <2>1, KeptSnapshot DEF Begun, Gone
  <2> QED BY <2>1, <2>2 DEF SnapshotInv, HeldAtOnce, ContextIsFree, Begun
<1>5. CASE ResolvePolicies
  <2>1. /\ pc = "selected" /\ pc' = "reading" /\ (~ request.remote => wanted' = <<>>)
        /\ UNCHANGED <<request, evidence, cache, plan, prompt>>
    BY <1>5 DEF ResolvePolicies
  <2>2. Known' /\ PlannedWell' BY <2>1, KeptSnapshot DEF Begun, Gone
  <2> QED BY <2>1, <2>2 DEF SnapshotInv, HeldAtOnce, ContextIsFree, Begun
<1>6. CASE Prime
  <2>1. pc = "reading" /\ wanted # <<>> /\ UNCHANGED <<pc, request, evidence, plan, prompt>> BY <1>6 DEF Prime
  <2>2. Known' /\ PlannedWell' BY <2>1, KeptSnapshot
  <2> QED BY <2>1, <2>2 DEF SnapshotInv, HeldAtOnce, ContextIsFree
<1>7. CASE Read
  <2>1. pc = "reading" /\ Needed(Files) \ DOMAIN cache # {} /\ UNCHANGED <<pc, request, evidence, plan, prompt>>
    BY <1>7 DEF Read
  <2>2. Known' /\ PlannedWell' BY <2>1, KeptSnapshot
  <2>3. request.remote
    <3>1. ~ request.remote => DOMAIN cache = Tree BY <2>1, ContentIsHeld DEF SnapshotInv, Begun
    <3> QED BY <2>1, <3>1, NeededArePaths DEF Tree
  <2> QED BY <2>1, <2>2, <2>3 DEF SnapshotInv, HeldAtOnce, ContextIsFree
<1>8. CASE Plan BY <1>8, PlannedKnown
<1>9. CASE Compose BY <1>9, ComposedKnown
<1>10. CASE UNCHANGED evidence_vars
  <2>1. UNCHANGED <<pc, request, evidence, wanted, cache, plan, prompt>> BY <1>10 DEF evidence_vars
  <2>2. Known' /\ PlannedWell' BY <2>1, KeptSnapshot
  <2>3. Files' = Files BY <2>1 DEF Files, Operator
  <2> QED BY <2>1, <2>2, <2>3 DEF SnapshotInv, HeldAtOnce, ContextIsFree
<1> QED BY <1>1, <1>2, <1>3, <1>4, <1>5, <1>6, <1>7, <1>8, <1>9, <1>10 DEF EvidenceNext

\* What is mirrored for the reviewer is the whole change or none of it: whatever is withheld, unreadable,
\* too large or excluded refuses the plan or is named, for any tree, limits and order of reads, and
\* neighbours neither bring an excluded file back nor make a review too large (planSnapshot).
THEOREM SnapshotHolds == EvidenceSpec => []SnapshotIsTrue
<1>1. EvidenceInit => SnapshotInv BY InitSnapshot
<1>2. EvidenceInv /\ EvidenceInv' /\ SnapshotInv /\ [EvidenceNext]_evidence_vars => SnapshotInv' BY SnapshotStep
<1>3. SnapshotInv => SnapshotIsTrue
  BY DEF SnapshotInv, PlannedWell, SnapshotIsTrue, Balanced, Gone
<1> QED BY <1>1, <1>2, <1>3, EvidenceInvariance, PTL DEF EvidenceSpec

(***************************************************************************)
(* Policies: the decision on a command.                                    *)
(***************************************************************************)
Spoken == [command : STRING, action : Actions]
Rulings == UNION {[C -> Actions] : C \in SUBSET STRING}

\* What is decided is the strictest of what was said.
Strictest(ruled, said) ==
  /\ DOMAIN ruled = {d.command : d \in said}
  /\ \A c \in DOMAIN ruled :
       /\ \E d \in said : d.command = c /\ d.action = ruled[c]
       /\ \A d \in said : d.command = c => Precedence[ruled[c]] >= Precedence[d.action]

LEMMA ActionsAre == Actions = {"run", "propose", "forbid"} /\ \A a \in Actions : Precedence[a] \in 1 .. 3
BY DEF Actions, Precedence

LEMMA RulingsAre == ASSUME NEW ruled PROVE ruled \in Rulings <=> DOMAIN ruled \subseteq STRING /\ ruled \in [DOMAIN ruled -> Actions]
BY DEF Rulings

LEMMA OneDecisionMore ==
  ASSUME NEW ruled \in Rulings, NEW d \in Spoken
  PROVE  /\ Decide(ruled, d) \in Rulings
         /\ \A said \in SUBSET Spoken : Strictest(ruled, said) => Strictest(Decide(ruled, d), said \union {d})
<1> DEFINE then == Decide(ruled, d)
<1>1. DOMAIN ruled \subseteq STRING /\ ruled \in [DOMAIN ruled -> Actions] BY RulingsAre
<1>2. d.command \in STRING /\ d.action \in Actions BY DEF Spoken
<1>3. DOMAIN then = DOMAIN ruled \union {d.command} BY DEF Decide
<1>4. \A c \in DOMAIN ruled : c # d.command => then[c] = ruled[c] BY <1>3 DEF Decide
<1>5. then[d.command] = IF d.command \in DOMAIN ruled THEN StrongerAction(ruled[d.command], d.action) ELSE d.action
  BY <1>3 DEF Decide
<1>6. \A a, b \in Actions : /\ StrongerAction(a, b) \in {a, b}
                            /\ Precedence[StrongerAction(a, b)] >= Precedence[a]
                            /\ Precedence[StrongerAction(a, b)] >= Precedence[b]
  BY ActionsAre DEF StrongerAction
<1>7. then[d.command] \in Actions BY <1>1, <1>2, <1>5, <1>6
<1>8. then \in [DOMAIN then -> Actions]
  <2>1. then = [c \in DOMAIN then |-> then[c]] BY DEF Decide
  <2>2. \A c \in DOMAIN then : then[c] \in Actions BY <1>1, <1>3, <1>4, <1>7
  <2> HIDE DEF then
  <2> QED BY <2>1, <2>2
<1>9. then \in Rulings BY <1>1, <1>2, <1>3, <1>8, RulingsAre
<1>10. ASSUME NEW said \in SUBSET Spoken, Strictest(ruled, said) PROVE Strictest(then, said \union {d})
  <2> HIDE DEF then
  <2>1. DOMAIN then = {e.command : e \in said \union {d}} BY <1>3, <1>10 DEF Strictest
  <2>2. ASSUME NEW c \in DOMAIN then, c # d.command
        PROVE  /\ \E e \in said \union {d} : e.command = c /\ e.action = then[c]
               /\ \A e \in said \union {d} : e.command = c => Precedence[then[c]] >= Precedence[e.action]
    <3>1. c \in DOMAIN ruled /\ then[c] = ruled[c] BY <1>3, <1>4, <2>2
    <3> QED BY <1>10, <2>2, <3>1 DEF Strictest
  <2>3. /\ \E e \in said \union {d} : e.command = d.command /\ e.action = then[d.command]
        /\ \A e \in said \union {d} : e.command = d.command => Precedence[then[d.command]] >= Precedence[e.action]
    <3>1. CASE d.command \in DOMAIN ruled
      <4>1. PICK e \in said : e.command = d.command /\ e.action = ruled[d.command] BY <1>10, <3>1 DEF Strictest
      <4>2. then[d.command] \in {ruled[d.command], d.action} /\ ruled[d.command] \in Actions BY <1>1, <1>2, <1>5, <1>6, <3>1
      <4>3. /\ Precedence[then[d.command]] >= Precedence[ruled[d.command]]
            /\ Precedence[then[d.command]] >= Precedence[d.action]
        BY <1>2, <1>5, <1>6, <3>1, <4>2
      <4>4. \A x \in said : x.command = d.command => Precedence[ruled[d.command]] >= Precedence[x.action]
        BY <1>10, <3>1 DEF Strictest
      <4>5. \A x \in said : x.action \in Actions BY DEF Spoken
      <4>6. ASSUME NEW x \in said, x.command = d.command PROVE Precedence[then[d.command]] >= Precedence[x.action]
        <5>1. Precedence[then[d.command]] \in 1 .. 3 /\ Precedence[ruled[d.command]] \in 1 .. 3 /\ Precedence[x.action] \in 1 .. 3
          BY <1>7, <4>2, <4>5, ActionsAre
        <5> QED BY <4>3, <4>4, <4>6, <5>1
      <4> QED BY <4>1, <4>2, <4>3, <4>6
    <3>2. CASE d.command \notin DOMAIN ruled
      <4>1. \A e \in said : e.command # d.command BY <1>10, <3>2 DEF Strictest
      <4>2. then[d.command] = d.action BY <1>5, <3>2
      <4>3. Precedence[d.action] >= Precedence[d.action] BY <1>2, ActionsAre
      <4> QED BY <4>1, <4>2, <4>3
    <3> QED BY <3>1, <3>2
  <2> QED BY <2>1, <2>2, <2>3 DEF Strictest
<1> QED BY <1>9, <1>10

\* The recursion over the decisions of one pack.
LEMMA DecideAllIsFold ==
  ASSUME NEW ruled \in Rulings, NEW s \in Seq(Spoken)
  PROVE  \E f \in [0 .. Len(s) -> Rulings] :
           f[0] = ruled /\ DecideAll(ruled, s) = f[Len(s)] /\ \A k \in 1 .. Len(s) : f[k] = Decide(f[k - 1], s[k])
<1> DEFINE upTo[n \in 0 .. Len(s)] == IF n = 0 THEN ruled ELSE Decide(upTo[n - 1], s[n])
           step == [k \in 1 .. Len(s) |-> [a \in Rulings |-> Decide(a, s[k])]]
<1>1. DecideAll(ruled, s) = upTo[Len(s)] BY DEF DecideAll
<1>2. Len(s) \in Nat /\ \A k \in 1 .. Len(s) : s[k] \in Spoken OBVIOUS
<1>3. step \in [1 .. Len(s) -> [Rulings -> Rulings]] BY <1>2, OneDecisionMore
<1>4. PICK g \in [0 .. Len(s) -> Rulings] : g[0] = ruled /\ \A k \in 1 .. Len(s) : g[k] = step[k][g[k - 1]]
  <2> HIDE DEF step
  <2>1. PICK n \in Nat : n = Len(s) BY <1>2
  <2>2. step \in [1 .. n -> [Rulings -> Rulings]] BY <1>3, <2>1
  <2>3. \E f : Fold(f, Rulings, ruled, n, step) BY <2>2, FoldExists
  <2> QED BY <2>1, <2>3 DEF Fold
<1>5. \A k \in 1 .. Len(s) : g[k] = Decide(g[k - 1], s[k])
  <2> SUFFICES ASSUME NEW k \in 1 .. Len(s) PROVE g[k] = Decide(g[k - 1], s[k]) OBVIOUS
  <2>1. k - 1 \in 0 .. Len(s) BY <1>2
  <2>2. g[k - 1] \in Rulings BY <2>1
  <2> QED BY <1>4, <2>2
<1>6. g = [n \in 0 .. Len(s) |-> IF n = 0 THEN ruled ELSE Decide(g[n - 1], s[n])]
  <2> DEFINE h == [n \in 0 .. Len(s) |-> IF n = 0 THEN ruled ELSE Decide(g[n - 1], s[n])]
  <2>1. ASSUME NEW n \in 0 .. Len(s) PROVE g[n] = h[n]
    <3>1. CASE n = 0 BY <1>4, <3>1
    <3>2. CASE n # 0
      <4>1. n \in 1 .. Len(s) BY <1>2, <3>2
      <4> QED BY <1>5, <3>2, <4>1
    <3> QED BY <3>1, <3>2
  <2>2. DOMAIN g = 0 .. Len(s) /\ DOMAIN h = 0 .. Len(s) BY <1>4
  <2>3. g = [n \in 0 .. Len(s) |-> g[n]] BY <1>4
  <2> QED BY <2>1, <2>2, <2>3
<1>7. upTo = [n \in 0 .. Len(s) |-> IF n = 0 THEN ruled ELSE Decide(upTo[n - 1], s[n])] BY <1>6, Zenon
<1> HIDE DEF upTo, step
<1>8. upTo[0] = ruled /\ \A k \in 1 .. Len(s) : upTo[k] = Decide(upTo[k - 1], s[k])
  <2>1. 0 \in 0 .. Len(s) /\ \A n \in 1 .. Len(s) : n # 0 /\ n \in 0 .. Len(s) BY <1>2
  <2> QED BY <1>7, <2>1
<1>9. \A k \in 0 .. Len(s) : upTo[k] \in Rulings
  <2>1. upTo[0] \in Rulings /\ \A k \in 1 .. Len(s) : upTo[k - 1] \in Rulings => upTo[k] \in Rulings
    BY <1>2, <1>8, OneDecisionMore
  <2> QED BY <1>2, <2>1, FoldTyped
<1>10. upTo \in [0 .. Len(s) -> Rulings] BY <1>7, <1>9
<1> QED BY <1>1, <1>8, <1>10

\* The decisions of one pack on top of what is decided.
LEMMA OnePackMore ==
  ASSUME NEW ruled \in Rulings, NEW s \in Seq(Spoken)
  PROVE  /\ DecideAll(ruled, s) \in Rulings
         /\ \A said \in SUBSET Spoken : Strictest(ruled, said) => Strictest(DecideAll(ruled, s), said \union ToSet(s))
<1>1. Len(s) \in Nat /\ ToSet(s) = {s[i] : i \in 1 .. Len(s)} /\ \A k \in 1 .. Len(s) : s[k] \in Spoken BY DEF ToSet
<1>2. PICK f \in [0 .. Len(s) -> Rulings] :
        f[0] = ruled /\ DecideAll(ruled, s) = f[Len(s)] /\ \A k \in 1 .. Len(s) : f[k] = Decide(f[k - 1], s[k])
  BY DecideAllIsFold
<1>3. ASSUME NEW said \in SUBSET Spoken, Strictest(ruled, said) PROVE Strictest(DecideAll(ruled, s), said \union ToSet(s))
  <2> DEFINE So(k) == said \union {s[i] : i \in 1 .. k}
             T == {k \in Nat : k <= Len(s) => Strictest(f[k], So(k))}
  <2>1. 0 \in T
    <3>1. So(0) = said OBVIOUS
    <3> QED BY <1>2, <1>3, <3>1
  <2>2. ASSUME NEW k \in T PROVE k + 1 \in T
    <3> SUFFICES ASSUME k + 1 <= Len(s) PROVE Strictest(f[k + 1], So(k + 1)) OBVIOUS
    <3>1. k + 1 \in 1 .. Len(s) /\ (k + 1) - 1 = k /\ k \in 0 .. Len(s) BY <1>1
    <3>2. f[k + 1] = Decide(f[k], s[k + 1]) /\ f[k] \in Rulings /\ s[k + 1] \in Spoken BY <1>1, <1>2, <3>1
    <3>3. 1 .. k + 1 = (1 .. k) \union {k + 1} OBVIOUS
    <3>4. So(k + 1) = So(k) \union {s[k + 1]} BY <3>3
    <3>5. Strictest(f[k], So(k)) BY <1>1, <3>1
    <3>6. So(k) \in SUBSET Spoken
      <4>1. \A i \in 1 .. k : i \in 1 .. Len(s) BY <1>1, <3>1
      <4> QED BY <1>1, <4>1
    <3> HIDE DEF So
    <3>7. Strictest(Decide(f[k], s[k + 1]), So(k) \union {s[k + 1]}) BY <3>2, <3>5, <3>6, OneDecisionMore
    <3> QED BY <3>2, <3>4, <3>7
  <2>3. T \in SUBSET Nat OBVIOUS
  <2> HIDE DEF T
  <2>4. Len(s) \in T BY <1>1, <2>1, <2>2, <2>3, Induct
  <2> QED BY <1>1, <1>2, <2>4 DEF T
<1> QED BY <1>1, <1>2, <1>3

\* The decisions of a list of packs.
LEMMA DecisionsAreStrictest ==
  ASSUME NEW P, NEW s \in Seq(P), \A p \in P : p.decisions \in Seq(Spoken)
  PROVE  Decisions(s) \in Rulings /\ Strictest(Decisions(s), UNION {ToSet(p.decisions) : p \in ToSet(s)})
<1> DEFINE upTo[n \in 0 .. Len(s)] == IF n = 0 THEN NoDecisions ELSE DecideAll(upTo[n - 1], s[n].decisions)
           step == [k \in 1 .. Len(s) |-> [a \in Rulings |-> DecideAll(a, s[k].decisions)]]
<1>1. Decisions(s) = upTo[Len(s)] BY DEF Decisions
<1>2. Len(s) \in Nat /\ ToSet(s) = {s[i] : i \in 1 .. Len(s)} /\ \A k \in 1 .. Len(s) : s[k].decisions \in Seq(Spoken)
  BY DEF ToSet
<1>3. step \in [1 .. Len(s) -> [Rulings -> Rulings]] BY <1>2, OnePackMore
<1>4. DOMAIN NoDecisions = {} /\ NoDecisions \in Rulings
  <2>1. DOMAIN NoDecisions = {} /\ NoDecisions \in [{} -> Actions] BY DEF NoDecisions
  <2> QED BY <2>1, RulingsAre
<1>5. PICK g \in [0 .. Len(s) -> Rulings] : g[0] = NoDecisions /\ \A k \in 1 .. Len(s) : g[k] = step[k][g[k - 1]]
  <2> HIDE DEF step
  <2>1. PICK n \in Nat : n = Len(s) BY <1>2
  <2>2. step \in [1 .. n -> [Rulings -> Rulings]] BY <1>3, <2>1
  <2>3. \E f : Fold(f, Rulings, NoDecisions, n, step) BY <1>4, <2>2, FoldExists
  <2> QED BY <2>1, <2>3 DEF Fold
<1>6. \A k \in 1 .. Len(s) : g[k] = DecideAll(g[k - 1], s[k].decisions)
  <2> SUFFICES ASSUME NEW k \in 1 .. Len(s) PROVE g[k] = DecideAll(g[k - 1], s[k].decisions) OBVIOUS
  <2>1. k - 1 \in 0 .. Len(s) BY <1>2
  <2>2. g[k - 1] \in Rulings BY <2>1
  <2> QED BY <1>5, <2>2
<1>7. g = [n \in 0 .. Len(s) |-> IF n = 0 THEN NoDecisions ELSE DecideAll(g[n - 1], s[n].decisions)]
  <2> DEFINE h == [n \in 0 .. Len(s) |-> IF n = 0 THEN NoDecisions ELSE DecideAll(g[n - 1], s[n].decisions)]
  <2>1. ASSUME NEW n \in 0 .. Len(s) PROVE g[n] = h[n]
    <3>1. CASE n = 0 BY <1>5, <3>1
    <3>2. CASE n # 0
      <4>1. n \in 1 .. Len(s) BY <1>2, <3>2
      <4> QED BY <1>6, <3>2, <4>1
    <3> QED BY <3>1, <3>2
  <2>2. DOMAIN g = 0 .. Len(s) /\ DOMAIN h = 0 .. Len(s) BY <1>5
  <2>3. g = [n \in 0 .. Len(s) |-> g[n]] BY <1>5
  <2> QED BY <2>1, <2>2, <2>3
<1>8. upTo = [n \in 0 .. Len(s) |-> IF n = 0 THEN NoDecisions ELSE DecideAll(upTo[n - 1], s[n].decisions)] BY <1>7, Zenon
<1> HIDE DEF upTo, step
<1>9. upTo[0] = NoDecisions /\ \A k \in 1 .. Len(s) : upTo[k] = DecideAll(upTo[k - 1], s[k].decisions)
  <2>1. 0 \in 0 .. Len(s) /\ \A n \in 1 .. Len(s) : n # 0 /\ n \in 0 .. Len(s) BY <1>2
  <2> QED BY <1>8, <2>1
<1> DEFINE Said(k) == UNION {ToSet(s[i].decisions) : i \in 1 .. k}
           T == {k \in Nat : k <= Len(s) => upTo[k] \in Rulings /\ Strictest(upTo[k], Said(k))}
<1>10. 0 \in T
  <2>1. Said(0) = {} OBVIOUS
  <2>2. Strictest(NoDecisions, {}) BY <1>4 DEF Strictest
  <2> QED BY <1>4, <1>9, <2>1, <2>2
<1>11. ASSUME NEW k \in T PROVE k + 1 \in T
  <2> SUFFICES ASSUME k + 1 <= Len(s) PROVE upTo[k + 1] \in Rulings /\ Strictest(upTo[k + 1], Said(k + 1)) OBVIOUS
  <2>1. k + 1 \in 1 .. Len(s) /\ (k + 1) - 1 = k BY <1>2
  <2>2. upTo[k + 1] = DecideAll(upTo[k], s[k + 1].decisions) BY <1>9, <2>1
  <2>3. 1 .. k + 1 = (1 .. k) \union {k + 1} OBVIOUS
  <2>4. Said(k + 1) = Said(k) \union ToSet(s[k + 1].decisions) BY <2>3
  <2>5. upTo[k] \in Rulings /\ Strictest(upTo[k], Said(k)) BY <1>2, <2>1
  <2>6. Said(k) \in SUBSET Spoken
    <3>1. ASSUME NEW i \in 1 .. k PROVE ToSet(s[i].decisions) \subseteq Spoken
      <4>1. s[i].decisions \in Seq(Spoken) BY <1>2, <2>1
      <4> QED BY <4>1 DEF ToSet
    <3> QED BY <3>1
  <2>7. s[k + 1].decisions \in Seq(Spoken) BY <1>2, <2>1
  <2> HIDE DEF Said
  <2> QED BY <2>2, <2>4, <2>5, <2>6, <2>7, OnePackMore
<1>12. T \in SUBSET Nat OBVIOUS
<1> HIDE DEF T
<1>13. Len(s) \in T BY <1>2, <1>10, <1>11, <1>12, Induct
<1>14. upTo[Len(s)] \in Rulings /\ Strictest(upTo[Len(s)], Said(Len(s))) BY <1>2, <1>13 DEF T
<1>15. Said(Len(s)) = UNION {ToSet(p.decisions) : p \in ToSet(s)} BY <1>2
<1> QED BY <1>1, <1>14, <1>15

(***************************************************************************)
(* Policies: which packs count.                                            *)
(***************************************************************************)
Packs == [reference : STRING, origin : {"builtin", "project"}, id : STRING, replaces : STRING,
          activities : SUBSET STRING, appliesTo : SUBSET DOMAIN Traits, defects : SUBSET STRING, decisions : Seq(Spoken)]

LEMMA KeptPacksFacts ==
  ASSUME NEW packs \in Seq(Packs)
  PROVE  /\ Unreplaced(packs) \in Seq(Packs)
         /\ ToSet(Unreplaced(packs)) = {p \in ToSet(packs) : ~ Superseded(p, packs)}
         /\ KeptPacks(packs) \in Seq(Packs) /\ ToSet(KeptPacks(packs)) \subseteq ToSet(Unreplaced(packs))
         /\ Clashing(Unreplaced(packs)) = {} => ToSet(KeptPacks(packs)) = ToSet(Unreplaced(packs))
<1> DEFINE rest == Unreplaced(packs)
           places == [i \in DOMAIN rest |-> i]
           first == Among(places, DOMAIN rest \ Clashing(rest))
<1>1. rest \in Seq(Packs) /\ ToSet(rest) = {p \in ToSet(packs) : ~ Superseded(p, packs)} BY AmongFacts DEF Unreplaced
<1>2. KeptPacks(packs) = [k \in DOMAIN first |-> rest[first[k]]] BY DEF KeptPacks
<1> HIDE DEF rest
<1>3. Len(rest) \in Nat /\ DOMAIN rest = 1 .. Len(rest) /\ ToSet(rest) = {rest[i] : i \in DOMAIN rest} BY <1>1 DEF ToSet
<1>4. places \in Seq(DOMAIN rest) /\ ToSet(places) = DOMAIN rest BY <1>3 DEF ToSet
<1>5. first \in Seq(DOMAIN rest) /\ ToSet(first) = DOMAIN rest \ Clashing(rest)
  <2> HIDE DEF places
  <2> QED BY <1>4, AmongFacts
<1> HIDE DEF first
<1>6. Len(first) \in Nat /\ DOMAIN first = 1 .. Len(first) /\ ToSet(first) = {first[k] : k \in DOMAIN first} BY <1>5 DEF ToSet
<1>7. \A k \in DOMAIN first : rest[first[k]] \in ToSet(rest) /\ rest[first[k]] \in Packs BY <1>1, <1>3, <1>5
<1>8. KeptPacks(packs) \in Seq(Packs)
  <2>1. KeptPacks(packs) \in [1 .. Len(first) -> Packs] BY <1>2, <1>6, <1>7
  <2> QED BY <1>6, <2>1
<1>9. ToSet(KeptPacks(packs)) = {rest[i] : i \in ToSet(first)} BY <1>2, <1>6 DEF ToSet
<1>10. ToSet(KeptPacks(packs)) \subseteq ToSet(rest) BY <1>3, <1>5, <1>9
<1>11. Clashing(rest) = {} => ToSet(KeptPacks(packs)) = ToSet(rest) BY <1>3, <1>5, <1>9
<1> QED BY <1>1, <1>8, <1>10, <1>11 DEF rest

\* A record of what a diagnostic says.
Shaped(d) == d = Diagnostic(d.severity, d.code, d.where)

LEMMA DiagnosticFields ==
  ASSUME NEW severity, NEW code, NEW where
  PROVE  /\ Diagnostic(severity, code, where).severity = severity
         /\ Diagnostic(severity, code, where).code = code
         /\ Diagnostic(severity, code, where).where = where
         /\ Shaped(Diagnostic(severity, code, where))
BY DEF Diagnostic, Shaped

LEMMA ScopedCodes ==
  /\ Unread \cap PackScoped = {}
  /\ {"pack-replaces-builtin", "pack-id-mismatch", "pack-duplicate-id", "pack-replaces-unused"} \cap PackScoped = {}
<1>1. PackScoped = {"prompt-unreadable", "path-escape", "path-missing", "remind-on-edit-broad-pack", "pack-unknown-command"}
  BY DEF PackScoped, OfContent
<1>2. Unread = {"pack-missing", "pack-unparsable", "pack-invalid"} BY DEF Unread
<1> QED BY <1>1, <1>2

\* A pack that is not usable has an error that does not depend on where it applies.
LEMMA ValidatePackFacts ==
  ASSUME NEW pack \in Packs, NEW commands
  PROVE  /\ \A d \in ValidatePack(pack, commands).diagnostics : Shaped(d) /\ d.where = pack.reference
         /\ \/ ValidatePack(pack, commands).usable
            \/ \E d \in ValidatePack(pack, commands).diagnostics : d.severity = "error" /\ d.code \notin PackScoped
<1> DEFINE unreadable == pack.defects \cap Unread
           replacing == pack.origin = "builtin" /\ pack.replaces # NoReference
           mismatch == pack.defects \cap {"pack-id-mismatch"}
           unknown == IF \A d \in ToSet(pack.decisions) : d.command \in commands THEN {} ELSE {"pack-unknown-command"}
           content == (pack.defects \cap OfContent) \union unknown
           codes == CASE unreadable # {} -> unreadable
                      [] unreadable = {} /\ replacing -> content \union {"pack-replaces-builtin"}
                      [] OTHER -> content \union mismatch
           v == ValidatePack(pack, commands)
<1>1. v = [usable |-> unreadable = {} /\ ~ replacing /\ mismatch = {},
           diagnostics |-> {Diagnostic("error", code, pack.reference) : code \in codes}]
  BY DEF ValidatePack
<1>3. v.usable = (unreadable = {} /\ ~ replacing /\ mismatch = {})
      /\ v.diagnostics = {Diagnostic("error", code, pack.reference) : code \in codes}
  <2> HIDE DEF v, codes, unreadable, replacing, mismatch
  <2> QED BY <1>1
<1> HIDE DEF v
<1> HIDE DEF content
<1>5. /\ unreadable # {} => codes = unreadable
      /\ unreadable = {} /\ replacing => codes = content \union {"pack-replaces-builtin"}
      /\ unreadable = {} /\ ~ replacing => codes = content \union mismatch
  <2> HIDE DEF unreadable, replacing, mismatch
  <2> QED OBVIOUS
<1> HIDE DEF codes
<1>7. ASSUME NEW d \in v.diagnostics PROVE Shaped(d) /\ d.where = pack.reference
  <2>1. PICK code \in codes : d = Diagnostic("error", code, pack.reference) BY <1>3
  <2> QED BY <2>1, DiagnosticFields
<1>8. ASSUME NEW code \in codes, code \notin PackScoped
      PROVE  \E d \in v.diagnostics : d.severity = "error" /\ d.code \notin PackScoped
  <2>1. Diagnostic("error", code, pack.reference) \in v.diagnostics BY <1>3
  <2>2. Diagnostic("error", code, pack.reference).severity = "error" /\ Diagnostic("error", code, pack.reference).code = code
    BY DiagnosticFields
  <2> QED BY <1>8, <2>1, <2>2
<1>9. v.usable \/ \E code \in codes : code \notin PackScoped
  <2>1. CASE unreadable # {} BY <1>5, <2>1, ScopedCodes
  <2>2. CASE unreadable = {} /\ replacing
    <3>1. "pack-replaces-builtin" \in codes BY <1>5, <2>2
    <3> QED BY <3>1, ScopedCodes
  <2>3. CASE unreadable = {} /\ ~ replacing
    <3>1. CASE mismatch = {} BY <1>3, <2>3, <3>1
    <3>2. CASE mismatch # {}
      <4>1. "pack-id-mismatch" \in codes BY <1>5, <2>3, <3>2
      <4> QED BY <4>1, ScopedCodes
    <3> QED BY <3>1, <3>2
  <2> QED BY <2>1, <2>2, <2>3
<1> QED BY <1>7, <1>8, <1>9 DEF v

LEMMA ValidatePackSetFacts ==
  ASSUME NEW packs \in Seq(Packs)
  PROVE  /\ ValidatePackSet(packs).packs = KeptPacks(packs)
         /\ \A d \in ValidatePackSet(packs).diagnostics : Shaped(d) /\ d.code \notin PackScoped
         /\ \/ Clashing(Unreplaced(packs)) = {}
            \/ \E d \in ValidatePackSet(packs).diagnostics : d.severity = "error" /\ d.code \notin PackScoped
<1> DEFINE rest == Unreplaced(packs)
           last == {i \in DOMAIN packs : /\ packs[i].replaces # NoReference
                                         /\ \A j \in DOMAIN packs : packs[j].replaces = packs[i].replaces => j <= i}
           unused == {i \in last : ~ \E p \in ToSet(packs) : p.origin = "builtin" /\ p.reference = packs[i].replaces}
           clashes == {Diagnostic("error", "pack-duplicate-id", rest[i].reference) : i \in Clashing(rest)}
           useless == {Diagnostic("warning", "pack-replaces-unused", packs[i].reference) : i \in unused}
           v == ValidatePackSet(packs)
<1>1. v = [packs |-> KeptPacks(packs), diagnostics |-> clashes \union useless] BY DEF ValidatePackSet
<1>2. v.packs = KeptPacks(packs) /\ v.diagnostics = clashes \union useless
  <2> HIDE DEF v, clashes, useless
  <2> QED BY <1>1
<1> HIDE DEF v, rest, unused
<1>7. ASSUME NEW d \in clashes PROVE Shaped(d) /\ d.severity = "error" /\ d.code = "pack-duplicate-id"
  <2>1. PICK i \in Clashing(rest) : d = Diagnostic("error", "pack-duplicate-id", rest[i].reference) OBVIOUS
  <2> QED BY <2>1, DiagnosticFields
<1>8. ASSUME NEW d \in useless PROVE Shaped(d) /\ d.code = "pack-replaces-unused"
  <2>1. PICK i \in unused : d = Diagnostic("warning", "pack-replaces-unused", packs[i].reference) OBVIOUS
  <2> QED BY <2>1, DiagnosticFields
<1>9. Clashing(rest) = {} \/ clashes # {} OBVIOUS
<1> HIDE DEF clashes, useless
<1> QED BY <1>2, <1>7, <1>8, <1>9, ScopedCodes DEF rest, v

\* Loading: without an error about the packs themselves, those that none of the project stands for.
Loaded(loaded, enabled) ==
  /\ loaded.packs \in Seq(Packs) /\ ToSet(loaded.packs) \subseteq enabled
  /\ \A d \in loaded.diagnostics : Shaped(d)
  /\ \A d \in loaded.diagnostics : d.code \in PackScoped => \E p \in enabled : d.where = p.reference
  /\ (\A d \in loaded.diagnostics : d.severity = "error" => d.code \in PackScoped)
       => ToSet(loaded.packs) = {p \in enabled : ~ Replaced(p, enabled)}

LEMMA LoadPacksFacts ==
  ASSUME NEW project \in Projects
  PROVE  Loaded(LoadPacks(project), ToSet(project.packs))
<1> DEFINE enabled == ToSet(project.packs)
           Good == {p \in enabled : ValidatePack(p, project.commands).usable}
           usable == Among(project.packs, Good)
           found == UNION {ValidatePack(p, project.commands).diagnostics : p \in enabled}
           set == ValidatePackSet(usable)
           loaded == LoadPacks(project)
<1>1. project.packs \in Seq(Packs) BY DEF Projects, Packs, Spoken
<1>2. enabled \subseteq Packs BY <1>1 DEF ToSet
<1>3. loaded = [packs |-> set.packs, diagnostics |-> found \union set.diagnostics] BY DEF LoadPacks
<1> HIDE DEF set
<1>4. loaded.packs = set.packs /\ loaded.diagnostics = found \union set.diagnostics
  <2> HIDE DEF loaded, found
  <2> QED BY <1>3
<1> HIDE DEF loaded
<1>5. usable \in Seq(Packs) /\ ToSet(usable) = Good
  <2> HIDE DEF Good
  <2>1. usable \in Seq(Packs) /\ ToSet(usable) = enabled \cap Good BY <1>1, AmongFacts
  <2> QED BY <2>1 DEF Good
<1> HIDE DEF usable
<1>6. set.packs = KeptPacks(usable) /\ KeptPacks(usable) \in Seq(Packs) /\ ToSet(KeptPacks(usable)) \subseteq Good
  BY <1>5, ValidatePackSetFacts, KeptPacksFacts DEF set
<1>7. \A d \in set.diagnostics : Shaped(d) /\ d.code \notin PackScoped BY <1>5, ValidatePackSetFacts DEF set
<1>8. \A d \in found : Shaped(d) /\ \E p \in enabled : d.where = p.reference BY <1>2, ValidatePackFacts
<1>9. ASSUME \A d \in loaded.diagnostics : d.severity = "error" => d.code \in PackScoped
      PROVE  ToSet(loaded.packs) = {p \in enabled : ~ Replaced(p, enabled)}
  <2>1. Good = enabled
    <3> SUFFICES ASSUME NEW p \in enabled PROVE ValidatePack(p, project.commands).usable OBVIOUS
    <3>1. \A d \in ValidatePack(p, project.commands).diagnostics : d \in loaded.diagnostics BY <1>4
    <3> QED BY <1>2, <1>9, <3>1, ValidatePackFacts
  <2>2. Clashing(Unreplaced(usable)) = {} BY <1>4, <1>5, <1>9, ValidatePackSetFacts DEF set
  <2>3. ToSet(set.packs) = {p \in enabled : ~ Superseded(p, usable)} BY <1>5, <1>6, <2>1, <2>2, KeptPacksFacts
  <2>4. \A p \in enabled : Replaced(p, enabled) <=> Superseded(p, usable) BY <1>5, <2>1 DEF Replaced, Superseded
  <2> QED BY <1>4, <2>3, <2>4
<1>10. ToSet(loaded.packs) \subseteq enabled BY <1>4, <1>6
<1> QED BY <1>4, <1>6, <1>7, <1>8, <1>9, <1>10 DEF loaded, Loaded

Erring(diagnostics) == {d \in diagnostics : d.severity = "error"}

LEMMA ScopeFacts ==
  ASSUME NEW diagnostics, \A d \in diagnostics : Shaped(d), NEW considered, NEW applicable
  PROVE  Erring(ScopeDiagnostics(diagnostics, considered, applicable)) =
           {d \in diagnostics : /\ d.severity = "error"
                                /\ ~ (d.code \in PackScoped /\ d.where \in considered \ applicable)}
<1> DEFINE Spared(d) == d.severity = "error" /\ d.code \in PackScoped /\ d.where \in considered \ applicable
           scoped == ScopeDiagnostics(diagnostics, considered, applicable)
<1>1. scoped = {IF Spared(d) THEN [d EXCEPT !.severity = "notice"] ELSE d : d \in diagnostics} BY DEF ScopeDiagnostics
<1>2. \A d \in diagnostics : [d EXCEPT !.severity = "notice"].severity = "notice" BY DEF Shaped, Diagnostic
<1>3. ASSUME NEW e \in scoped, e.severity = "error" PROVE e \in diagnostics /\ ~ Spared(e)
  <2>1. PICK d \in diagnostics : e = IF Spared(d) THEN [d EXCEPT !.severity = "notice"] ELSE d BY <1>1
  <2>2. ~ Spared(d) BY <1>2, <1>3, <2>1
  <2> QED BY <2>1, <2>2
<1>4. \A d \in diagnostics : ~ Spared(d) => d \in scoped BY <1>1
<1> HIDE DEF scoped
<1> QED BY <1>3, <1>4 DEF Erring, scoped

\* What a resolved policy says, by the packs that are enabled.
ResolvedWell(policy, project, paths) ==
  LET enabled == ToSet(project.packs)
      counting == {q \in enabled : Concerns(q, paths) /\ ~ Replaced(q, enabled)}
  IN /\ Erring(policy.diagnostics) = {} =>
          /\ policy.decisions \in Rulings
          /\ Strictest(policy.decisions, UNION {ToSet(p.decisions) : p \in counting})
     /\ \A e \in Erring(policy.diagnostics) : e.code \in PackScoped =>
          \E p \in enabled : p.reference = e.where /\ (Concerns(p, paths) \/ p \notin ToSet(LoadPacks(project).packs))

LEMMA ResolvePolicyFacts ==
  ASSUME NEW project \in Projects, NEW paths, paths # {}
  PROVE  ResolvedWell(ResolvePolicy("review", LoadPacks(project), paths, paths), project, paths)
<1> DEFINE enabled == ToSet(project.packs)
           loaded == LoadPacks(project)
           Fitting == {p \in ToSet(loaded.packs) : Applies(p, "review", paths, paths)}
           applicable == Among(loaded.packs, Fitting)
           references == {p.reference : p \in ToSet(applicable)}
           considered == {p.reference : p \in ToSet(loaded.packs)}
           policy == ResolvePolicy("review", loaded, paths, paths)
           counting == {q \in enabled : Concerns(q, paths) /\ ~ Replaced(q, enabled)}
<1>1. Loaded(loaded, enabled) BY LoadPacksFacts
<1> HIDE DEF loaded
<1>2. policy = [packs |-> references, decisions |-> Decisions(applicable),
                diagnostics |-> ScopeDiagnostics(loaded.diagnostics, considered, references)]
  BY DEF ResolvePolicy
<1>3. policy.decisions = Decisions(applicable)
      /\ policy.diagnostics = ScopeDiagnostics(loaded.diagnostics, considered, references)
  <2> HIDE DEF policy, applicable, references, considered
  <2> QED BY <1>2
<1> HIDE DEF policy
<1>4. applicable \in Seq(Packs) /\ ToSet(applicable) = Fitting
  <2> HIDE DEF Fitting
  <2>1. applicable \in Seq(Packs) /\ ToSet(applicable) = ToSet(loaded.packs) \cap Fitting BY <1>1, AmongFacts DEF Loaded
  <2> QED BY <2>1 DEF Fitting
<1>5. Fitting = {p \in ToSet(loaded.packs) : Concerns(p, paths)} BY DEF Applies, Concerns
<1> HIDE DEF Fitting, applicable
<1>6. Erring(policy.diagnostics) = {d \in loaded.diagnostics :
        d.severity = "error" /\ ~ (d.code \in PackScoped /\ d.where \in considered \ references)}
  <2> HIDE DEF considered, references
  <2> QED BY <1>1, <1>3, ScopeFacts DEF Loaded
<1>7. ASSUME Erring(policy.diagnostics) = {}
      PROVE  policy.decisions \in Rulings /\ Strictest(policy.decisions, UNION {ToSet(p.decisions) : p \in counting})
  <2>1. \A d \in loaded.diagnostics : d.severity = "error" => d.code \in PackScoped BY <1>6, <1>7
  <2>2. ToSet(loaded.packs) = {p \in enabled : ~ Replaced(p, enabled)} BY <1>1, <2>1 DEF Loaded
  <2>3. ToSet(applicable) = counting BY <1>4, <1>5, <2>2
  <2>4. \A p \in Packs : p.decisions \in Seq(Spoken) BY DEF Packs
  <2> HIDE DEF counting
  <2> QED BY <1>3, <1>4, <2>3, <2>4, DecisionsAreStrictest
<1>8. ASSUME NEW e \in Erring(policy.diagnostics), e.code \in PackScoped
      PROVE  \E p \in enabled : p.reference = e.where /\ (Concerns(p, paths) \/ p \notin ToSet(loaded.packs))
  <2>1. e \in loaded.diagnostics /\ ~ (e.where \in considered \ references) BY <1>6, <1>8
  <2>2. CASE e.where \in references
    <3>1. PICK p \in ToSet(applicable) : p.reference = e.where BY <2>2
    <3>2. p \in enabled /\ Concerns(p, paths) BY <1>1, <1>4, <1>5 DEF Loaded
    <3> QED BY <3>1, <3>2
  <2>3. CASE e.where \notin considered
    <3>1. PICK p \in enabled : e.where = p.reference BY <1>1, <1>8, <2>1 DEF Loaded
    <3>2. p \notin ToSet(loaded.packs) BY <2>3, <3>1
    <3> QED BY <3>1, <3>2
  <2> QED BY <2>1, <2>2, <2>3
<1> QED BY <1>7, <1>8 DEF ResolvedWell, policy, loaded

\* The strictest of what was said is what a command gets.
LEMMA StrictestIsChosen ==
  ASSUME NEW ruled \in Rulings, NEW packs \in SUBSET Packs, Strictest(ruled, UNION {ToSet(p.decisions) : p \in packs}),
         NEW c
  PROVE  /\ c \in DOMAIN ruled <=> SaidOf(c, packs) # {}
         /\ c \in DOMAIN ruled =>
              ruled[c] = CHOOSE a \in SaidOf(c, packs) : \A b \in SaidOf(c, packs) : Precedence[a] >= Precedence[b]
<1> DEFINE said == UNION {ToSet(p.decisions) : p \in packs}
           mine == SaidOf(c, packs)
<1>1. mine = {d.action : d \in {e \in said : e.command = c}} BY DEF SaidOf
<1>2. said \subseteq Spoken
  <2>1. ASSUME NEW p \in packs PROVE ToSet(p.decisions) \subseteq Spoken
    <3>1. p.decisions \in Seq(Spoken) BY DEF Packs
    <3> QED BY <3>1 DEF ToSet
  <2> QED BY <2>1
<1>3. mine \subseteq Actions BY <1>1, <1>2 DEF Spoken
<1> HIDE DEF mine, said
<1>4. DOMAIN ruled = {d.command : d \in said}
      /\ \A x \in DOMAIN ruled : /\ \E d \in said : d.command = x /\ d.action = ruled[x]
                                 /\ \A d \in said : d.command = x => Precedence[ruled[x]] >= Precedence[d.action]
  BY DEF Strictest, said
<1>5. c \in DOMAIN ruled <=> mine # {} BY <1>1, <1>4
<1>6. ASSUME c \in DOMAIN ruled
      PROVE  ruled[c] = CHOOSE a \in mine : \A b \in mine : Precedence[a] >= Precedence[b]
  <2>1. ruled[c] \in mine /\ \A b \in mine : Precedence[ruled[c]] >= Precedence[b] BY <1>1, <1>4, <1>6
  <2>2. \A a, b \in Actions : Precedence[a] >= Precedence[b] /\ Precedence[b] >= Precedence[a] => a = b
    BY DEF Actions, Precedence
  <2>3. \A a \in mine : (\A b \in mine : Precedence[a] >= Precedence[b]) => a = ruled[c] BY <1>3, <2>1, <2>2
  <2> QED BY <2>1, <2>3
<1> QED BY <1>5, <1>6 DEF mine

(***************************************************************************)
(* The policies of a review.                                               *)
(***************************************************************************)
Unresolved == {"asked", "not judgeable", "gathered", "failed", "resolved"}
PolicyInv ==
  /\ DOMAIN policies # {} => pc \notin Unresolved
  /\ \A id \in DOMAIN policies :
       /\ id \in DOMAIN request.projects /\ Touched(id) # {}
       /\ policies[id] = ResolvePolicy("review", LoadPacks(request.projects[id]), Touched(id), Touched(id))

LEMMA InitPolicies == EvidenceInit => PolicyInv
BY DEF EvidenceInit, PolicyInv

LEMMA PolicyStep == ASSUME PolicyInv, [EvidenceNext]_evidence_vars PROVE PolicyInv'
<1>1. ASSUME UNCHANGED <<request, policies, evidence>>, DOMAIN policies # {} => pc' \notin Unresolved PROVE PolicyInv'
  <2>1. \A id : Touched(id)' = Touched(id) BY <1>1 DEF Touched, Files, Operator
  <2> QED BY <1>1, <2>1 DEF PolicyInv
<1>2. CASE GatherRequirements BY <1>2 DEF GatherRequirements, PolicyInv, Unresolved
<1>3. CASE ResolveMergeRequest BY <1>3 DEF ResolveMergeRequest, PolicyInv, Unresolved
<1>4. CASE ResolveLocal BY <1>4 DEF ResolveLocal, PolicyInv, Unresolved
<1>5. CASE Select BY <1>1, <1>5 DEF Select, PolicyInv, Unresolved
<1>6. CASE ResolvePolicies
  <2>1. /\ UNCHANGED <<request, evidence>> /\ pc' = "reading"
        /\ policies' = [id \in {p \in DOMAIN request.projects : Touched(p) # {}} |->
                          ResolvePolicy("review", LoadPacks(request.projects[id]), Touched(id), Touched(id))]
    BY <1>6 DEF ResolvePolicies
  <2>2. \A id : Touched(id)' = Touched(id) BY <2>1 DEF Touched, Files, Operator
  <2> QED BY <2>1, <2>2 DEF PolicyInv, Unresolved
<1>7. CASE Prime BY <1>1, <1>7 DEF Prime, PolicyInv
<1>8. CASE Read BY <1>1, <1>8 DEF Read, PolicyInv
<1>9. CASE Plan BY <1>1, <1>9 DEF Plan, PolicyInv, Unresolved
<1>10. CASE Compose BY <1>1, <1>10 DEF Compose, PolicyInv, Unresolved
<1>11. CASE UNCHANGED evidence_vars BY <1>1, <1>11 DEF evidence_vars, PolicyInv
<1> QED BY <1>2, <1>3, <1>4, <1>5, <1>6, <1>7, <1>8, <1>9, <1>10, <1>11 DEF EvidenceNext

LEMMA PoliciesSaid == ASSUME PolicyInv, request \in RequestSet PROVE PolicyIsWhatPacksSay
<1> SUFFICES ASSUME NEW id \in DOMAIN policies
    PROVE  LET enabled == ToSet(request.projects[id].packs)
               counting == {p \in enabled : Concerns(p, Touched(id)) /\ ~ Replaced(p, enabled)}
               errors == {d \in policies[id].diagnostics : d.severity = "error"}
           IN /\ errors = {} =>
                   \A c \in request.projects[id].commands :
                     LET said == SaidOf(c, counting) IN
                     DecisionFor(policies[id], c) =
                       IF said = {} THEN "undeclared" ELSE CHOOSE a \in said : \A b \in said : Precedence[a] >= Precedence[b]
              /\ \A e \in errors : e.code \in PackScoped =>
                   \E p \in enabled :
                     p.reference = e.where /\ (Concerns(p, Touched(id)) \/ p \notin ToSet(LoadPacks(request.projects[id]).packs))
  BY DEF PolicyIsWhatPacksSay
<1> DEFINE project == request.projects[id]
           policy == policies[id]
           all == ToSet(project.packs)
           voices == {p \in all : Concerns(p, Touched(id)) /\ ~ Replaced(p, all)}
<1>1. project \in Projects /\ Touched(id) # {} /\ policy = ResolvePolicy("review", LoadPacks(project), Touched(id), Touched(id))
  BY RequestsAssumption DEF PolicyInv
<1>2. ResolvedWell(policy, project, Touched(id)) BY <1>1, ResolvePolicyFacts
<1>3. voices \in SUBSET Packs
  <2>1. project.packs \in Seq(Packs) BY <1>1 DEF Projects, Packs, Spoken
  <2> QED BY <2>1 DEF ToSet
<1>4. ASSUME Erring(policy.diagnostics) = {}, NEW c
      PROVE  DecisionFor(policy, c) = IF SaidOf(c, voices) = {} THEN "undeclared"
               ELSE CHOOSE a \in SaidOf(c, voices) : \A b \in SaidOf(c, voices) : Precedence[a] >= Precedence[b]
  <2>1. policy.decisions \in Rulings /\ Strictest(policy.decisions, UNION {ToSet(p.decisions) : p \in voices})
    BY <1>2, <1>4 DEF ResolvedWell
  <2> HIDE DEF voices, policy
  <2>2. /\ c \in DOMAIN policy.decisions <=> SaidOf(c, voices) # {}
        /\ c \in DOMAIN policy.decisions => policy.decisions[c] =
             CHOOSE a \in SaidOf(c, voices) : \A b \in SaidOf(c, voices) : Precedence[a] >= Precedence[b]
    BY <1>3, <2>1, StrictestIsChosen
  <2> QED BY <2>2 DEF DecisionFor
<1>5. \A e \in Erring(policy.diagnostics) : e.code \in PackScoped =>
        \E p \in all : p.reference = e.where /\ (Concerns(p, Touched(id)) \/ p \notin ToSet(LoadPacks(project).packs))
  BY <1>2 DEF ResolvedWell
<1> QED BY <1>4, <1>5 DEF Erring

\* A policy is what the packs say of a change, in whatever order they are enabled.
THEOREM PolicyHolds == EvidenceSpec => []PolicyIsWhatPacksSay
<1>1. EvidenceInit => PolicyInv BY InitPolicies
<1>2. PolicyInv /\ [EvidenceNext]_evidence_vars => PolicyInv' BY PolicyStep
<1>3. EvidenceInv => request \in RequestSet BY DEF EvidenceInv
<1>4. PolicyInv /\ request \in RequestSet => PolicyIsWhatPacksSay BY PoliciesSaid
<1> QED BY <1>1, <1>2, <1>3, <1>4, EvidenceInvariance, PTL DEF EvidenceSpec

(***************************************************************************)
(* ReviewRun: where a comment goes.                                        *)
(* The lines of a patch are numbered as they are counted.                  *)
(***************************************************************************)
PatchLines == [mark : Marks, old : Nat, new : Nat]
DiffLines == [kind : {"added", "removed", "context"}, oldLine : Nat, newLine : Nat]
Readings == [inHunks : BOOLEAN, old : Nat, new : Nat, lines : Seq(DiffLines)]

Headers(s, k) == {h \in 1 .. k : s[h].mark = "@"}
Latest(s, k, h) == h \in Headers(s, k) /\ \A y \in Headers(s, k) : y <= h
Between(s, h, k, side) == {j \in h + 1 .. k : OnSide(s[j].mark, side)}
Broken(s, h, k) == \E j \in h + 1 .. k : s[j].mark = "x"
Start(s, h, side) == IF side = "old" THEN s[h].old ELSE s[h].new

LEMMA CountedFromHeader ==
  ASSUME NEW s \in Seq(PatchLines), NEW k \in Nat, k < Len(s), NEW h, Latest(s, k, h), NEW side
  PROVE  Counted(s, k + 1, side) =
           IF ~ OnSide(s[k + 1].mark, side) \/ Broken(s, h, k + 1) THEN NoLine
           ELSE Cardinality(Between(s, h, k, side)) + Start(s, h, side)
<1> DEFINE headers == {x \in 1 .. (k + 1) - 1 : s[x].mark = "@"}
           m == CHOOSE x \in headers : \A y \in headers : y <= x
           between == {j \in m + 1 .. (k + 1) - 1 : OnSide(s[j].mark, side)}
<1>1. Counted(s, k + 1, side) =
        IF headers = {} \/ ~ OnSide(s[k + 1].mark, side) \/ (\E j \in m + 1 .. k + 1 : s[j].mark = "x") THEN NoLine
        ELSE Cardinality(between) + (IF side = "old" THEN s[m].old ELSE s[m].new)
  BY DEF Counted
<1>2. (k + 1) - 1 = k OBVIOUS
<1>3. headers = Headers(s, k) BY <1>2 DEF Headers
<1>4. h \in headers /\ \A y \in headers : y <= h BY <1>3 DEF Latest
<1>5. \A x \in headers : x \in Int OBVIOUS
<1> HIDE DEF headers
<1>6. m = h
  <2>1. \A x \in headers : (\A y \in headers : y <= x) => x = h
    <3> SUFFICES ASSUME NEW x \in headers, \A y \in headers : y <= x PROVE x = h OBVIOUS
    <3>1. x <= h /\ h <= x /\ x \in Int /\ h \in Int BY <1>4, <1>5
    <3> QED BY <3>1
  <2> QED BY <1>4, <2>1
<1> HIDE DEF m
<1>7. between = Between(s, h, k, side) BY <1>2, <1>6 DEF Between
<1>8. (\E j \in m + 1 .. k + 1 : s[j].mark = "x") <=> Broken(s, h, k + 1) BY <1>6 DEF Broken
<1> HIDE DEF between
<1> QED BY <1>1, <1>4, <1>6, <1>7, <1>8 DEF Start

\* What is known after some lines: where a hunk is being read, and that its lines are numbered by counting.
Agrees(s, k, l) == \E i \in 1 .. k : l.oldLine = Counted(s, i, "old") /\ l.newLine = Counted(s, i, "new")
ReadWell(r, s, k) ==
  /\ r \in Readings
  /\ r.inHunks => \E h : /\ Latest(s, k, h) /\ ~ Broken(s, h, k)
                         /\ r.old = Cardinality(Between(s, h, k, "old")) + s[h].old
                         /\ r.new = Cardinality(Between(s, h, k, "new")) + s[h].new
  /\ \A l \in ToSet(r.lines) : Agrees(s, k, l)

LEMMA BetweenIsFinite ==
  ASSUME NEW s, NEW h \in Nat, NEW k \in Nat, NEW side
  PROVE  IsFiniteSet(Between(s, h, k, side)) /\ Cardinality(Between(s, h, k, side)) \in Nat
<1>1. IsFiniteSet(h + 1 .. k) BY FS_Interval
<1>2. Between(s, h, k, side) \subseteq h + 1 .. k BY DEF Between
<1>3. IsFiniteSet(Between(s, h, k, side)) BY <1>1, <1>2, FS_Subset
<1> QED BY <1>3, FS_CardinalityType

LEMMA OneLineMore ==
  ASSUME NEW s \in Seq(PatchLines), NEW k \in Nat, k < Len(s), NEW h \in 1 .. k, NEW side
  PROVE  /\ Broken(s, h, k + 1) <=> Broken(s, h, k) \/ s[k + 1].mark = "x"
         /\ Cardinality(Between(s, h, k + 1, side)) =
              Cardinality(Between(s, h, k, side)) + (IF OnSide(s[k + 1].mark, side) THEN 1 ELSE 0)
<1>1. h + 1 .. k + 1 = (h + 1 .. k) \union {k + 1} /\ k + 1 \notin h + 1 .. k OBVIOUS
<1>2. Broken(s, h, k + 1) <=> Broken(s, h, k) \/ s[k + 1].mark = "x" BY <1>1 DEF Broken
<1>3. k + 1 \notin Between(s, h, k, side) BY <1>1 DEF Between
<1>4. IsFiniteSet(Between(s, h, k, side)) /\ Cardinality(Between(s, h, k, side)) \in Nat BY BetweenIsFinite
<1>5. CASE OnSide(s[k + 1].mark, side)
  <2>1. Between(s, h, k + 1, side) = Between(s, h, k, side) \union {k + 1} BY <1>1, <1>5 DEF Between
  <2> QED BY <1>2, <1>3, <1>4, <1>5, <2>1, FS_AddElement
<1>6. CASE ~ OnSide(s[k + 1].mark, side)
  <2>1. Between(s, h, k + 1, side) = Between(s, h, k, side) BY <1>1, <1>6 DEF Between
  <2> QED BY <1>2, <1>4, <1>6, <2>1
<1> QED BY <1>5, <1>6

LEMMA LatestStays ==
  ASSUME NEW s, NEW k \in Nat, NEW h, Latest(s, k, h), s[k + 1].mark # "@"
  PROVE  Latest(s, k + 1, h) /\ h \in 1 .. k
<1>1. 1 .. k + 1 = (1 .. k) \union {k + 1} OBVIOUS
<1>2. Headers(s, k + 1) = Headers(s, k) BY <1>1 DEF Headers
<1> QED BY <1>2 DEF Latest, Headers

LEMMA LatestHeader ==
  ASSUME NEW s, NEW k \in Nat, s[k + 1].mark = "@"
  PROVE  /\ Latest(s, k + 1, k + 1) /\ ~ Broken(s, k + 1, k + 1)
         /\ \A side : Between(s, k + 1, k + 1, side) = {}
<1>1. k + 1 \in Headers(s, k + 1) /\ \A y \in Headers(s, k + 1) : y <= k + 1 BY DEF Headers
<1>2. (k + 1) + 1 .. k + 1 = {} OBVIOUS
<1> QED BY <1>1, <1>2 DEF Latest, Broken, Between

LEMMA LinesStay ==
  ASSUME NEW s, NEW k \in Nat, NEW lines, \A l \in ToSet(lines) : Agrees(s, k, l)
  PROVE  \A l \in ToSet(lines) : Agrees(s, k + 1, l)
<1>1. \A i \in 1 .. k : i \in 1 .. k + 1 OBVIOUS
<1> QED BY <1>1 DEF Agrees

LEMMA AppendedSet ==
  ASSUME NEW S, NEW s \in Seq(S), NEW e \in S
  PROVE  Append(s, e) \in Seq(S) /\ ToSet(Append(s, e)) = ToSet(s) \union {e}
<1>1. Append(s, e) \in Seq(S) /\ Len(Append(s, e)) = Len(s) + 1 /\ Len(s) \in Nat OBVIOUS
<1>2. \A i \in 1 .. Len(s) : Append(s, e)[i] = s[i] OBVIOUS
<1>3. Append(s, e)[Len(s) + 1] = e OBVIOUS
<1>4. 1 .. Len(s) + 1 = (1 .. Len(s)) \union {Len(s) + 1} BY <1>1
<1>5. DOMAIN s = 1 .. Len(s) /\ DOMAIN Append(s, e) = 1 .. Len(s) + 1 BY <1>1
<1> QED BY <1>1, <1>2, <1>3, <1>4, <1>5 DEF ToSet

LEMMA OneFurther ==
  ASSUME NEW count \in Nat, NEW start \in Nat, NEW more \in {0, 1}
  PROVE  (count + start) + more = (count + more) + start
OBVIOUS

LEMMA ReadLineReadsWell ==
  ASSUME NEW s \in Seq(PatchLines), NEW k \in Nat, k < Len(s), NEW r, ReadWell(r, s, k)
  PROVE  ReadWell(ReadLine(r, s[k + 1]), s, k + 1)
<1> DEFINE line == s[k + 1]
<1> PICK q : q = ReadLine(r, line) OBVIOUS
<1> SUFFICES ReadWell(q, s, k + 1) OBVIOUS
<1>1. k + 1 \in 1 .. Len(s) OBVIOUS
<1>2. line \in PatchLines BY <1>1
<1>3. line.mark \in Marks /\ line.old \in Nat /\ line.new \in Nat BY <1>2 DEF PatchLines
<1>4. r \in Readings /\ \A l \in ToSet(r.lines) : Agrees(s, k, l) BY DEF ReadWell
<1>5. \A l \in ToSet(r.lines) : Agrees(s, k + 1, l) BY <1>4, LinesStay
<1>6. DOMAIN r = {"inHunks", "old", "new", "lines"} /\ r.lines \in Seq(DiffLines) /\ r.inHunks \in BOOLEAN
      /\ r.old \in Nat /\ r.new \in Nat
  BY <1>4 DEF Readings
<1>7. CASE line.mark = "@"
  <2>1. q = [r EXCEPT !.inHunks = TRUE, !.old = line.old, !.new = line.new] BY <1>7 DEF ReadLine
  <2>2. q \in Readings /\ q.lines = r.lines /\ q.old = line.old /\ q.new = line.new BY <1>3, <1>4, <2>1 DEF Readings
  <2>3. Cardinality(Between(s, k + 1, k + 1, "old")) = 0 /\ Cardinality(Between(s, k + 1, k + 1, "new")) = 0
    BY <1>7, LatestHeader, FS_EmptySet
  <2>4. q.old = Cardinality(Between(s, k + 1, k + 1, "old")) + s[k + 1].old
        /\ q.new = Cardinality(Between(s, k + 1, k + 1, "new")) + s[k + 1].new
    BY <1>3, <2>2, <2>3
  <2> QED BY <1>5, <1>7, <2>2, <2>4, LatestHeader DEF ReadWell
<1>8. CASE line.mark # "@" /\ ~ r.inHunks
  <2>1. q = r BY <1>8 DEF ReadLine
  <2> QED BY <1>4, <1>5, <1>8, <2>1 DEF ReadWell
<1>9. CASE line.mark # "@" /\ r.inHunks
  <2>1. PICK h : /\ Latest(s, k, h) /\ ~ Broken(s, h, k)
                 /\ r.old = Cardinality(Between(s, h, k, "old")) + s[h].old
                 /\ r.new = Cardinality(Between(s, h, k, "new")) + s[h].new
    BY <1>9 DEF ReadWell
  <2>2. Latest(s, k + 1, h) /\ h \in 1 .. k BY <1>9, <2>1, LatestStays
  <2>3. s[h] \in PatchLines BY <2>2
  <2>4. s[h].old \in Nat /\ s[h].new \in Nat BY <2>3 DEF PatchLines
  <2>5. Cardinality(Between(s, h, k, "old")) \in Nat /\ Cardinality(Between(s, h, k, "new")) \in Nat BY <2>2, BetweenIsFinite
  <2>6. Broken(s, h, k + 1) <=> line.mark = "x" BY <2>1, <2>2, OneLineMore
  <2>7. /\ Cardinality(Between(s, h, k + 1, "old")) =
             Cardinality(Between(s, h, k, "old")) + (IF OnSide(line.mark, "old") THEN 1 ELSE 0)
        /\ Cardinality(Between(s, h, k + 1, "new")) =
             Cardinality(Between(s, h, k, "new")) + (IF OnSide(line.mark, "new") THEN 1 ELSE 0)
    BY <2>2, OneLineMore
  <2>8. \A side : Counted(s, k + 1, side) =
          IF ~ OnSide(line.mark, side) \/ line.mark = "x" THEN NoLine
          ELSE Cardinality(Between(s, h, k, side)) + Start(s, h, side)
    BY <2>1, <2>6, CountedFromHeader
  <2>9. /\ OnSide(line.mark, "old") <=> line.mark \in {" ", "-"}
        /\ OnSide(line.mark, "new") <=> line.mark \in {" ", "+"}
    BY DEF OnSide
  <2>10. Start(s, h, "old") = s[h].old /\ Start(s, h, "new") = s[h].new BY DEF Start
  <2>11. CASE line.mark \in {"\\", ""}
    <3>1. q = r BY <1>9, <2>11 DEF ReadLine
    <3>2. q.old = Cardinality(Between(s, h, k + 1, "old")) + s[h].old
          /\ q.new = Cardinality(Between(s, h, k + 1, "new")) + s[h].new
      <4>1. ~ OnSide(line.mark, "old") /\ ~ OnSide(line.mark, "new") BY <2>9, <2>11
      <4>2. Cardinality(Between(s, h, k + 1, "old")) = Cardinality(Between(s, h, k, "old"))
            /\ Cardinality(Between(s, h, k + 1, "new")) = Cardinality(Between(s, h, k, "new"))
        BY <2>5, <2>7, <4>1
      <4> QED BY <2>1, <3>1, <4>2
    <3>3. ~ Broken(s, h, k + 1) BY <2>6, <2>11
    <3> QED BY <1>4, <1>5, <2>2, <3>1, <3>2, <3>3 DEF ReadWell
  <2>12. CASE line.mark = "x"
    <3>1. q = [r EXCEPT !.inHunks = FALSE] BY <1>9, <2>12 DEF ReadLine
    <3>2. q \in Readings /\ ~ q.inHunks /\ q.lines = r.lines BY <1>4, <3>1 DEF Readings
    <3> QED BY <1>5, <3>2 DEF ReadWell
  <2>13. CASE line.mark \in {"+", "-", " "}
    <3> DEFINE hasOld == line.mark # "+"
               hasNew == line.mark # "-"
               l == [kind |-> IF ~ hasOld THEN "added" ELSE IF ~ hasNew THEN "removed" ELSE "context",
                     oldLine |-> IF hasOld THEN r.old ELSE NoLine, newLine |-> IF hasNew THEN r.new ELSE NoLine]
    <3>1. /\ q.lines = Append(r.lines, l) /\ q.inHunks = r.inHunks /\ DOMAIN q = DOMAIN r
          /\ q.old = (IF hasOld THEN r.old + 1 ELSE r.old) /\ q.new = (IF hasNew THEN r.new + 1 ELSE r.new)
          /\ q = [inHunks |-> q.inHunks, old |-> q.old, new |-> q.new, lines |-> q.lines]
      <4>0. r = [inHunks |-> r.inHunks, old |-> r.old, new |-> r.new, lines |-> r.lines] BY <1>4 DEF Readings
      <4>1. CASE line.mark = "+"
        <5>1. q = [r EXCEPT !.new = @ + 1, !.lines = Append(@, [kind |-> "added", oldLine |-> NoLine, newLine |-> r.new])]
          BY <1>9, <4>1 DEF ReadLine
        <5> QED BY <1>6, <4>0, <4>1, <5>1
      <4>2. CASE line.mark = "-"
        <5>1. q = [r EXCEPT !.old = @ + 1, !.lines = Append(@, [kind |-> "removed", oldLine |-> r.old, newLine |-> NoLine])]
          BY <1>9, <4>2 DEF ReadLine
        <5> QED BY <1>6, <4>0, <4>2, <5>1
      <4>3. CASE line.mark = " "
        <5>1. q = [r EXCEPT !.old = @ + 1, !.new = @ + 1,
                            !.lines = Append(@, [kind |-> "context", oldLine |-> r.old, newLine |-> r.new])]
          BY <1>9, <4>3 DEF ReadLine
        <5> QED BY <1>6, <4>0, <4>3, <5>1
      <4> QED BY <2>13, <4>1, <4>2, <4>3
    <3>2. l \in DiffLines BY <1>6 DEF DiffLines, NoLine
    <3>3. l.oldLine = Counted(s, k + 1, "old") /\ l.newLine = Counted(s, k + 1, "new")
      BY <2>1, <2>8, <2>9, <2>10, <2>13
    <3> HIDE DEF l
    <3>4. q.lines \in Seq(DiffLines) /\ ToSet(q.lines) = ToSet(r.lines) \union {l} BY <1>6, <3>1, <3>2, AppendedSet
    <3>5. q \in Readings
      <4>1. q.old \in Nat /\ q.new \in Nat /\ q.inHunks \in BOOLEAN BY <1>6, <3>1
      <4> QED BY <3>1, <3>4, <4>1 DEF Readings
    <3>6. Agrees(s, k + 1, l)
      <4>1. k + 1 \in 1 .. k + 1 OBVIOUS
      <4> QED BY <3>3, <4>1 DEF Agrees
    <3>7. q.old = Cardinality(Between(s, h, k + 1, "old")) + s[h].old
          /\ q.new = Cardinality(Between(s, h, k + 1, "new")) + s[h].new
      <4>1. hasOld <=> OnSide(line.mark, "old") BY <2>9, <2>13
      <4>2. hasNew <=> OnSide(line.mark, "new") BY <2>9, <2>13
      <4> HIDE DEF hasOld, hasNew
      <4>3. q.old = r.old + (IF hasOld THEN 1 ELSE 0) BY <1>6, <3>1
      <4>4. q.new = r.new + (IF hasNew THEN 1 ELSE 0) BY <1>6, <3>1
      <4>5. (IF hasOld THEN 1 ELSE 0) \in {0, 1} /\ (IF hasNew THEN 1 ELSE 0) \in {0, 1} OBVIOUS
      <4>6. q.old = Cardinality(Between(s, h, k + 1, "old")) + s[h].old
        <5> DEFINE c == Cardinality(Between(s, h, k, "old"))
                   m == IF hasOld THEN 1 ELSE 0
        <5>1. c \in Nat /\ m \in {0, 1} /\ s[h].old \in Nat BY <2>4, <2>5
        <5>2. q.old = r.old + m BY <4>3
        <5>3. r.old = c + s[h].old BY <2>1
        <5>4. Cardinality(Between(s, h, k + 1, "old")) = c + m BY <2>7, <4>1
        <5> HIDE DEF c, m
        <5>5. (c + s[h].old) + m = (c + m) + s[h].old BY <5>1, OneFurther
        <5> QED BY <5>2, <5>3, <5>4, <5>5
      <4>7. q.new = Cardinality(Between(s, h, k + 1, "new")) + s[h].new
        <5> DEFINE c == Cardinality(Between(s, h, k, "new"))
                   m == IF hasNew THEN 1 ELSE 0
        <5>1. c \in Nat /\ m \in {0, 1} /\ s[h].new \in Nat BY <2>4, <2>5
        <5>2. q.new = r.new + m BY <4>4
        <5>3. r.new = c + s[h].new BY <2>1
        <5>4. Cardinality(Between(s, h, k + 1, "new")) = c + m BY <2>7, <4>2
        <5> HIDE DEF c, m
        <5>5. (c + s[h].new) + m = (c + m) + s[h].new BY <5>1, OneFurther
        <5> QED BY <5>2, <5>3, <5>4, <5>5
      <4> QED BY <4>6, <4>7
    <3>8. ~ Broken(s, h, k + 1) BY <2>6, <2>13
    <3> QED BY <1>5, <2>2, <3>4, <3>5, <3>6, <3>7, <3>8 DEF ReadWell
  <2> QED BY <1>3, <1>9, <2>11, <2>12, <2>13 DEF Marks
<1> QED BY <1>6, <1>7, <1>8, <1>9

LEMMA OutsideReadsWell == ASSUME NEW s PROVE ReadWell(Outside, s, 0)
<1>1. ToSet(<<>>) = {} BY DEF ToSet
<1>2. <<>> \in Seq(DiffLines) OBVIOUS
<1>3. Outside \in Readings BY <1>2 DEF Outside, Readings, NoLine
<1> QED BY <1>1, <1>3 DEF ReadWell, Outside

LEMMA ReadingsWell ==
  ASSUME NEW s \in Seq(PatchLines), NEW f, f[0] = Outside,
         \A k \in 1 .. Len(s) : ReadLine(f[k - 1], s[k]) \in Readings => f[k] = ReadLine(f[k - 1], s[k])
  PROVE  \A k \in 0 .. Len(s) : ReadWell(f[k], s, k)
<1> DEFINE T == {k \in Nat : k <= Len(s) => ReadWell(f[k], s, k)}
<1>1. 0 \in T BY OutsideReadsWell
<1>2. ASSUME NEW k \in T PROVE k + 1 \in T
  <2> SUFFICES ASSUME k + 1 <= Len(s) PROVE ReadWell(f[k + 1], s, k + 1) OBVIOUS
  <2>1. k \in Nat /\ k < Len(s) /\ ReadWell(f[k], s, k) /\ k + 1 \in 1 .. Len(s) /\ (k + 1) - 1 = k OBVIOUS
  <2>2. ReadWell(ReadLine(f[k], s[k + 1]), s, k + 1) BY <2>1, ReadLineReadsWell
  <2>3. ReadLine(f[k], s[k + 1]) \in Readings BY <2>2 DEF ReadWell
  <2>4. f[k + 1] = ReadLine(f[k], s[k + 1]) BY <2>1, <2>3
  <2> QED BY <2>2, <2>4
<1>3. T \in SUBSET Nat OBVIOUS
<1> HIDE DEF T
<1>4. Nat \subseteq T BY <1>1, <1>2, <1>3, Induct
<1> QED BY <1>4 DEF T

LEMMA ReadUpToReadsWell == ASSUME NEW s \in Seq(PatchLines) PROVE ReadWell(ReadUpTo(s), s, Len(s))
<1> DEFINE upTo[n \in 0 .. Len(s)] == IF n = 0 THEN Outside ELSE ReadLine(upTo[n - 1], s[n])
           next == [k \in 1 .. Len(s) |-> [r \in Readings |->
                      IF ReadLine(r, s[k]) \in Readings THEN ReadLine(r, s[k]) ELSE r]]
<1>1. ReadUpTo(s) = upTo[Len(s)] BY DEF ReadUpTo
<1>2. Len(s) \in Nat OBVIOUS
<1>3. next \in [1 .. Len(s) -> [Readings -> Readings]]
  <2>1. \A k \in 1 .. Len(s) : next[k] \in [Readings -> Readings]
    <3> SUFFICES ASSUME NEW k \in 1 .. Len(s) PROVE next[k] \in [Readings -> Readings] OBVIOUS
    <3>1. next[k] = [r \in Readings |-> IF ReadLine(r, s[k]) \in Readings THEN ReadLine(r, s[k]) ELSE r] OBVIOUS
    <3> HIDE DEF next
    <3> QED BY <3>1
  <2>2. next = [k \in 1 .. Len(s) |-> next[k]] OBVIOUS
  <2> HIDE DEF next
  <2> QED BY <2>1, <2>2
<1>4. PICK g : g \in [0 .. Len(s) -> Readings] /\ g[0] = Outside /\ \A k \in 1 .. Len(s) : g[k] = next[k][g[k - 1]]
  <2> HIDE DEF next
  <2>1. Outside \in Readings BY OutsideReadsWell DEF ReadWell
  <2>2. PICK n \in Nat : n = Len(s) BY <1>2
  <2>3. next \in [1 .. n -> [Readings -> Readings]] BY <1>3, <2>2
  <2>4. \E f : Fold(f, Readings, Outside, n, next) BY <2>1, <2>3, FoldExists
  <2> QED BY <2>2, <2>4 DEF Fold
<1>5. \A k \in 1 .. Len(s) : ReadLine(g[k - 1], s[k]) \in Readings => g[k] = ReadLine(g[k - 1], s[k])
  <2> SUFFICES ASSUME NEW k \in 1 .. Len(s), ReadLine(g[k - 1], s[k]) \in Readings PROVE g[k] = ReadLine(g[k - 1], s[k])
    OBVIOUS
  <2>1. k - 1 \in 0 .. Len(s) BY <1>2
  <2>2. g[k - 1] \in Readings BY <1>4, <2>1
  <2>3. next[k][g[k - 1]] = ReadLine(g[k - 1], s[k]) BY <2>2
  <2> QED BY <1>4, <2>3
<1> HIDE DEF next
<1>6. \A k \in 0 .. Len(s) : ReadWell(g[k], s, k) BY <1>4, <1>5, ReadingsWell
<1>7. g = [n \in 0 .. Len(s) |-> IF n = 0 THEN Outside ELSE ReadLine(g[n - 1], s[n])]
  <2> DEFINE h == [n \in 0 .. Len(s) |-> IF n = 0 THEN Outside ELSE ReadLine(g[n - 1], s[n])]
  <2>1. ASSUME NEW n \in 0 .. Len(s) PROVE g[n] = h[n]
    <3>1. CASE n = 0 BY <1>4, <3>1
    <3>2. CASE n # 0
      <4>1. n \in 1 .. Len(s) /\ n - 1 \in 0 .. Len(s) /\ n - 1 \in Nat /\ n - 1 < Len(s) /\ (n - 1) + 1 = n BY <1>2, <3>2
      <4>2. ReadWell(g[n - 1], s, n - 1) BY <1>6, <4>1
      <4>3. ReadWell(ReadLine(g[n - 1], s[n]), s, n)
        <5> PICK m : m = n - 1 OBVIOUS
        <5>1. ReadWell(g[m], s, m) /\ m \in Nat /\ m < Len(s) /\ m + 1 = n BY <4>1, <4>2
        <5> QED BY <5>1, ReadLineReadsWell
      <4>4. g[n] = ReadLine(g[n - 1], s[n]) BY <1>5, <4>1, <4>3 DEF ReadWell
      <4> QED BY <3>2, <4>4
    <3> QED BY <3>1, <3>2
  <2>2. DOMAIN g = 0 .. Len(s) /\ DOMAIN h = 0 .. Len(s) BY <1>4
  <2>3. h = [n \in 0 .. Len(s) |-> h[n]] /\ g = [n \in 0 .. Len(s) |-> g[n]] BY <1>4
  <2> HIDE DEF h
  <2>4. g = h BY <2>1, <2>3
  <2> QED BY <2>4 DEF h
<1>8. upTo = [n \in 0 .. Len(s) |-> IF n = 0 THEN Outside ELSE ReadLine(upTo[n - 1], s[n])] BY <1>7, Zenon
<1> HIDE DEF upTo
<1>9. upTo[0] = Outside /\ \A n \in 1 .. Len(s) : upTo[n] = ReadLine(upTo[n - 1], s[n])
  <2>1. 0 \in 0 .. Len(s) /\ \A n \in 1 .. Len(s) : n # 0 /\ n \in 0 .. Len(s) BY <1>2
  <2> QED BY <1>8, <2>1
<1>10. \A k \in 0 .. Len(s) : ReadWell(upTo[k], s, k) BY <1>9, ReadingsWell
<1> QED BY <1>1, <1>2, <1>10

\* A line of a patch's diff is a line of the patch, with the numbers it is counted to have.
LEMMA LinesAreCounted ==
  ASSUME NEW file \in Patches
  PROVE  /\ Lines(file) \in Seq(DiffLines)
         /\ \A l \in ToSet(Lines(file)) : \E i \in DOMAIN file.section :
              l.oldLine = Counted(file.section, i, "old") /\ l.newLine = Counted(file.section, i, "new")
<1>1. CASE file.binary
  <2>1. Lines(file) = <<>> BY <1>1 DEF Lines
  <2>2. ToSet(<<>>) = {} BY DEF ToSet
  <2> QED BY <2>1, <2>2
<1>2. CASE ~ file.binary
  <2> PICK s : s = file.section OBVIOUS
  <2>1. s \in Seq(PatchLines) BY DEF Patches, PatchLines
  <2> PICK q : q = ReadUpTo(s) OBVIOUS
  <2>2. Lines(file) = q.lines BY <1>2 DEF Lines
  <2>3. ReadWell(q, s, Len(s)) BY <2>1, ReadUpToReadsWell
  <2>4. q.lines \in Seq(DiffLines) /\ \A l \in ToSet(q.lines) : Agrees(s, Len(s), l) BY <2>3 DEF ReadWell, Readings
  <2>5. DOMAIN s = 1 .. Len(s) BY <2>1
  <2> QED BY <2>2, <2>4, <2>5 DEF Agrees
<1> QED BY <1>1, <1>2

\* The first element that passes.
LEMMA FirstOfFacts ==
  ASSUME NEW X, NEW s \in Seq(X), NEW S
  PROVE  FirstOf(s, S) = <<>> \/ \E x \in ToSet(s) \cap S : FirstOf(s, S) = <<x>>
<1> PICK found : found = Among(s, S) OBVIOUS
<1>1. found \in Seq(X) /\ ToSet(found) = ToSet(s) \cap S BY AmongFacts
<1>2. FirstOf(s, S) = IF found = <<>> THEN <<>> ELSE <<found[1]>> BY DEF FirstOf
<1>3. CASE found = <<>> BY <1>2, <1>3
<1>4. CASE found # <<>>
  <2>1. 1 \in DOMAIN found BY <1>1, <1>4
  <2>2. found[1] \in ToSet(found) BY <2>1 DEF ToSet
  <2> QED BY <1>1, <1>2, <1>4, <2>2
<1> QED BY <1>3, <1>4

\* A place that has a position is that of a line of a file of the diff.
LEMMA PositionIsOfALine ==
  ASSUME NEW target, NEW changed \in Seq(Patches), NEW loc, PositionForLocation(target, changed, loc) # <<>>
  PROVE  \E file \in ToSet(changed) : \E l \in ToSet(Lines(file)) :
           /\ PathOn(file, loc.side) = PathOn(loc, loc.side) /\ LineOn(l, loc.side) = loc.line
           /\ PositionForLocation(target, changed, loc)[1].oldLine = l.oldLine
           /\ PositionForLocation(target, changed, loc)[1].newLine = l.newLine
<1> PICK named : named = PathOn(loc, loc.side) OBVIOUS
<1> PICK first : first = FileNamed(changed, loc.side, named) OBVIOUS
<1> PICK line : line = IF named = NoPath \/ first = <<>> THEN <<>> ELSE LineAt(first[1], loc.side, loc.line) OBVIOUS
<1> PICK p : p = PositionForLocation(target, changed, loc) OBVIOUS
<1> DEFINE Or(path, other) == IF path = NoPath THEN other ELSE path
<1>1. p = IF line = <<>> THEN <<>>
          ELSE <<[target |-> target,
                  oldPath |-> IF line[1].kind = "added" THEN Or(first[1].oldPath, first[1].newPath) ELSE first[1].oldPath,
                  newPath |-> IF line[1].kind = "removed" THEN Or(first[1].newPath, first[1].oldPath) ELSE first[1].newPath,
                  oldLine |-> line[1].oldLine, newLine |-> line[1].newLine]>>
  BY DEF PositionForLocation
<1>2. line # <<>> /\ p[1].oldLine = line[1].oldLine /\ p[1].newLine = line[1].newLine BY <1>1
<1>3. first # <<>> /\ line = LineAt(first[1], loc.side, loc.line) BY <1>2
<1>4. PICK file \in ToSet(changed) : first = <<file>> /\ PathOn(file, loc.side) = named
  <2> PICK S : S = {f \in ToSet(changed) : PathOn(f, loc.side) = named} OBVIOUS
  <2>1. first = FirstOf(changed, S) BY DEF FileNamed
  <2>2. PICK x \in ToSet(changed) \cap S : first = <<x>>
    <3>1. changed \in Seq(Patches) OBVIOUS
    <3>2. FirstOf(changed, S) = <<>> \/ \E x \in ToSet(changed) \cap S : FirstOf(changed, S) = <<x>>
      BY <3>1, FirstOfFacts
    <3> QED BY <1>3, <2>1, <3>2
  <2> QED BY <2>2
<1>5. first[1] = file BY <1>4
<1>6. file \in Patches BY DEF ToSet
<1>7. PICK l \in ToSet(Lines(file)) : line = <<l>> /\ LineOn(l, loc.side) = loc.line
  <2> PICK S : S = {l \in ToSet(Lines(file)) : LineOn(l, loc.side) = loc.line} OBVIOUS
  <2>1. line = FirstOf(Lines(file), S) BY <1>3, <1>5 DEF LineAt
  <2>2. Lines(file) \in Seq(DiffLines) BY <1>6, LinesAreCounted
  <2>3. PICK x \in ToSet(Lines(file)) \cap S : line = <<x>> BY <1>2, <2>1, <2>2, FirstOfFacts
  <2> QED BY <2>3
<1>8. p[1].oldLine = l.oldLine /\ p[1].newLine = l.newLine BY <1>2, <1>7
<1> QED BY <1>4, <1>7, <1>8

\* The new side is any that is not the old one.
LEMMA NewSide == ASSUME NEW s, NEW i, NEW side, side # "old" PROVE Counted(s, i, side) = Counted(s, i, "new")
BY DEF Counted, OnSide

\* It is on the line that the place names, in the diff of the version the files are of.
LEMMA PlacedSits ==
  ASSUME NEW v, Diffs[v].files \in Seq(Patches), NEW changed \in Seq(Patches), ToSet(changed) \subseteq ToSet(Diffs[v].files),
         NEW target, NEW f, PositionForLocation(target, changed, f.location) # <<>>,
         NEW e, e.target = v, e.position = PositionForLocation(target, changed, f.location)[1]
  PROVE  Sits(e, f, v)
<1> PICK loc : loc = f.location OBVIOUS
<1>0. PICK file \in ToSet(changed) : \E l \in ToSet(Lines(file)) :
        /\ PathOn(file, loc.side) = PathOn(loc, loc.side) /\ LineOn(l, loc.side) = loc.line
        /\ e.position.oldLine = l.oldLine /\ e.position.newLine = l.newLine
  BY PositionIsOfALine
<1>1. PICK l \in ToSet(Lines(file)) :
        /\ PathOn(file, loc.side) = PathOn(loc, loc.side) /\ LineOn(l, loc.side) = loc.line
        /\ e.position.oldLine = l.oldLine /\ e.position.newLine = l.newLine
  BY <1>0
<1>2. file \in ToSet(Diffs[v].files) /\ file \in Patches
  <2>1. file \in Patches BY DEF ToSet
  <2> QED BY <2>1
<1>3. PICK i \in DOMAIN file.section : l.oldLine = Counted(file.section, i, "old") /\ l.newLine = Counted(file.section, i, "new")
  BY <1>2, LinesAreCounted
<1>4. Counted(file.section, i, loc.side) = loc.line
  <2>1. CASE loc.side = "old" BY <1>1, <1>3, <2>1 DEF LineOn
  <2>2. CASE loc.side # "old" BY <1>1, <1>3, <2>2, NewSide DEF LineOn
  <2> QED BY <2>1, <2>2
<1> QED BY <1>1, <1>2, <1>3, <1>4 DEF Sits

\* What is derived from findings: a position and its digest for each of those that have one.
LEMMA DerivedFacts ==
  ASSUME NEW reviewId, NEW target, NEW changed, NEW X, NEW findings \in Seq(X), NEW p,
         p = DerivePositions(reviewId, target, changed, findings)
  PROVE  /\ p.target = target
         /\ \A e \in ToSet(p.positions) : \E f \in ToSet(findings) :
              /\ PositionForLocation(target, changed, f.location) # <<>>
              /\ e.id = f.id /\ e.target = target
              /\ e.position = PositionForLocation(target, changed, f.location)[1] /\ e.digest # NoDigest
<1> DEFINE Place(f) == PositionForLocation(target, changed, f.location)
           Position(f) == [id |-> f.id, target |-> target, position |-> Place(f)[1],
                           digest |-> PositionDigest(reviewId, f.id, target, Place(f)[1])]
           placed == Among(findings, {f \in ToSet(findings) : Place(f) # <<>>})
<1>1. p.target = target /\ p.positions = [i \in DOMAIN placed |-> Position(placed[i])] BY DEF DerivePositions
<1>2. ToSet(placed) = {f \in ToSet(findings) : Place(f) # <<>>}
  <2>1. ToSet(placed) = ToSet(findings) \cap {f \in ToSet(findings) : Place(f) # <<>>} BY AmongFacts
  <2> QED BY <2>1
<1> HIDE DEF placed
<1>3. ASSUME NEW e \in ToSet(p.positions) PROVE \E f \in ToSet(placed) : e = Position(f)
  <2>1. PICK i \in DOMAIN placed : e = Position(placed[i]) BY <1>1, <1>3 DEF ToSet
  <2> QED BY <2>1 DEF ToSet
<1>4. ASSUME NEW f PROVE Position(f).digest # NoDigest BY DEF PositionDigest, NoDigest
<1>5. ASSUME NEW e \in ToSet(p.positions)
      PROVE  \E f \in ToSet(findings) : /\ Place(f) # <<>> /\ e.id = f.id /\ e.target = target
                                        /\ e.position = Place(f)[1] /\ e.digest # NoDigest
  <2>1. PICK f \in ToSet(placed) : e = Position(f) BY <1>3, <1>5
  <2>2. e.digest # NoDigest BY <1>4, <2>1
  <2> QED BY <1>2, <2>1, <2>2
<1> QED BY <1>1, <1>5

\* Of one more than there are places, two have the same.
LEMMA TwoOfOne ==
  ASSUME NEW N \in Nat, NEW g \in [1 .. N + 1 -> 1 .. N]
  PROVE  \E m, n \in 1 .. N + 1 : m # n /\ g[m] = g[n]
<1> PICK S : S = 1 .. N + 1 OBVIOUS
<1> PICK T : T = 1 .. N OBVIOUS
<1>1. IsFiniteSet(S) /\ Cardinality(S) = N + 1
  <2>1. 1 \in Int /\ N + 1 \in Int /\ ~ (1 > N + 1) /\ (N + 1) - 1 + 1 = N + 1 OBVIOUS
  <2> QED BY <2>1, FS_Interval
<1>2. IsFiniteSet(T) /\ Cardinality(T) = N
  <2>1. 1 \in Int /\ N \in Int /\ (N = 0 <=> 1 > N) /\ N - 1 + 1 = N OBVIOUS
  <2> QED BY <2>1, FS_Interval
<1>3. Cardinality(T) < Cardinality(S) BY <1>1, <1>2
<1>4. g \in [S -> T] OBVIOUS
<1>5. \E m, n \in S : m # n /\ g[m] = g[n]
  <2> QED BY <1>1, <1>2, <1>3, <1>4, FS_PigeonHole, SMTT(30)
<1> QED BY <1>5

\* The id of a finding is of its place, and is not in use.
LEMMA StableIdFacts ==
  ASSUME NEW reviewId, NEW loc, NEW comment, NEW X, NEW used \in Seq(X)
  PROVE  \E n \in Nat : /\ StableId(reviewId, loc, comment, used) = <<reviewId, loc, comment, n>>
                        /\ <<reviewId, loc, comment, n>> \notin ToSet(used)
<1> DEFINE Base(n) == <<reviewId, loc, comment, n>>
           free == {n \in 1 .. Len(used) + 1 : Base(n) \notin ToSet(used)}
           least == CHOOSE n \in free : \A m \in free : n <= m
<1>0. Len(used) \in Nat /\ DOMAIN used = 1 .. Len(used) OBVIOUS
<1>1. free # {}
  <2> SUFFICES ASSUME free = {} PROVE FALSE OBVIOUS
  <2>1. \A n \in 1 .. Len(used) + 1 : \E i \in 1 .. Len(used) : used[i] = Base(n) BY <1>0 DEF ToSet
  <2> DEFINE at == [n \in 1 .. Len(used) + 1 |-> CHOOSE i \in 1 .. Len(used) : used[i] = Base(n)]
  <2>2. \A n \in 1 .. Len(used) + 1 : at[n] \in 1 .. Len(used) /\ used[at[n]] = Base(n) BY <2>1
  <2>3. at \in [1 .. Len(used) + 1 -> 1 .. Len(used)] BY <2>2
  <2>4. \A m, n \in 1 .. Len(used) + 1 : at[m] = at[n] => m = n
    <3> SUFFICES ASSUME NEW m \in 1 .. Len(used) + 1, NEW n \in 1 .. Len(used) + 1, at[m] = at[n] PROVE m = n OBVIOUS
    <3>1. Base(m) = Base(n) BY <2>2
    <3> QED BY <3>1
  <2> PICK N \in Nat : N = Len(used) BY <1>0
  <2> HIDE DEF at
  <2>5. at \in [1 .. N + 1 -> 1 .. N] BY <2>3
  <2>6. PICK m, n \in 1 .. N + 1 : m # n /\ at[m] = at[n] BY <2>5, TwoOfOne, Zenon
  <2> QED BY <2>4, <2>6
<1>2. free \subseteq Nat OBVIOUS
<1>3. StableId(reviewId, loc, comment, used) = Base(least) BY DEF StableId
<1>4. \A n \in free : n \in Nat /\ Base(n) \notin ToSet(used) OBVIOUS
<1> HIDE DEF free, Base
<1>5. PICK n \in free : \A m \in free : ~ (m < n) BY <1>1, <1>2, Least
<1>6. \A m \in free : n <= m BY <1>2, <1>5
<1>7. least \in free BY <1>5, <1>6
<1> HIDE DEF least
<1> QED BY <1>3, <1>4, <1>7 DEF Base

LEMMA ListIsOfItself == ASSUME NEW X, NEW s \in Seq(X) PROVE s \in Seq(ToSet(s))
<1>1. DOMAIN s = 1 .. Len(s) /\ Len(s) \in Nat /\ s = [k \in 1 .. Len(s) |-> s[k]] OBVIOUS
<1> PICK n \in Nat : n = Len(s) BY <1>1
<1>2. s = [k \in 1 .. n |-> s[k]] BY <1>1
<1> QED BY <1>2, ListOfImages

LEMMA IdsAreAList == ASSUME NEW X, NEW s \in Seq(X) PROVE Ids(s) \in Seq(ToSet(Ids(s)))
<1>1. DOMAIN s = 1 .. Len(s) /\ Len(s) \in Nat OBVIOUS
<1> PICK n \in Nat : n = Len(s) BY <1>1
<1> PICK t : t = Ids(s) OBVIOUS
<1>2. t = [k \in 1 .. n |-> s[k].id] BY <1>1 DEF Ids
<1>3. t = [k \in 1 .. n |-> t[k]] BY <1>2
<1> QED BY <1>3, ListOfImages

\* Findings: their ids tell their places.
AreFindings(s) == s \in Seq(ToSet(s)) /\ \A f \in ToSet(s) : f.id[2] = f.location

LEMMA NoFindings == AreFindings(<<>>)
<1>1. ToSet(<<>>) = {} BY DEF ToSet
<1> QED BY <1>1 DEF AreFindings

LEMMA ValidatedAreFindings ==
  ASSUME NEW X, NEW output \in Seq(X), NEW changed, NEW mirrored, NEW reviewId
  PROVE  AreFindings(ValidateFindings(output, changed, mirrored, reviewId).findings)
<1> DEFINE Place(n) == ResolveLocation(output[n].location, changed)
           Ls == {Place(n) : n \in 1 .. Len(output)}
           Cs == {output[n].comment : n \in 1 .. Len(output)}
           F == {f \in [id : {reviewId} \X Ls \X Cs \X Nat, location : Ls, comment : Cs] : f.id[2] = f.location}
           FindingAt(n, found) == [id |-> StableId(reviewId, Place(n), output[n].comment, Ids(found)),
                               location |-> Place(n), comment |-> output[n].comment]
           Finding(candidate, found) ==
             LET loc == ResolveLocation(candidate.location, changed) IN
             [id |-> StableId(reviewId, loc, candidate.comment, Ids(found)), location |-> loc,
              comment |-> candidate.comment]
           upTo[n \in 0 .. Len(output)] ==
             IF n = 0 THEN <<>> ELSE Append(upTo[n - 1], Finding(output[n], upTo[n - 1]))
           next == [n \in 1 .. Len(output) |-> [s \in Seq(F) |-> Append(s, FindingAt(n, s))]]
<1> PICK v : v = ValidateFindings(output, changed, mirrored, reviewId) OBVIOUS
<1>1. v = Invalid \/ v.findings = upTo[Len(output)] BY DEF ValidateFindings
<1>2. Len(output) \in Nat OBVIOUS
<1>3. ASSUME NEW n \in 1 .. Len(output), NEW s \in Seq(F) PROVE FindingAt(n, s) \in F
  <2> PICK loc : loc = Place(n) OBVIOUS
  <2> PICK comment : comment = output[n].comment OBVIOUS
  <2>1. Ids(s) \in Seq(ToSet(Ids(s))) BY IdsAreAList
  <2>2. PICK m \in Nat : StableId(reviewId, loc, comment, Ids(s)) = <<reviewId, loc, comment, m>> BY <2>1, StableIdFacts
  <2>3. loc \in Ls /\ comment \in Cs OBVIOUS
  <2>4. FindingAt(n, s) = [id |-> <<reviewId, loc, comment, m>>, location |-> loc, comment |-> comment] BY <2>2
  <2> HIDE DEF FindingAt, Place, Ls, Cs
  <2> QED BY <2>3, <2>4
<1>4. next \in [1 .. Len(output) -> [Seq(F) -> Seq(F)]]
  <2>1. ASSUME NEW n \in 1 .. Len(output) PROVE next[n] \in [Seq(F) -> Seq(F)]
    <3>1. next[n] = [s \in Seq(F) |-> Append(s, FindingAt(n, s))] OBVIOUS
    <3>2. \A s \in Seq(F) : Append(s, FindingAt(n, s)) \in Seq(F)
      <4> HIDE DEF F, FindingAt
      <4> QED BY <1>3
    <3> HIDE DEF next, F, FindingAt
    <3> QED BY <3>1, <3>2
  <2>2. next = [n \in 1 .. Len(output) |-> next[n]] OBVIOUS
  <2> HIDE DEF next, F
  <2> QED BY <2>1, <2>2
<1>5. \A n \in 1 .. Len(output), s \in Seq(F) : next[n][s] = Append(s, Finding(output[n], s))
  <2> HIDE DEF F
  <2> QED OBVIOUS
<1>6. PICK g : g \in [0 .. Len(output) -> Seq(F)] /\ g[0] = <<>> /\ \A k \in 1 .. Len(output) : g[k] = next[k][g[k - 1]]
  <2> HIDE DEF next, F
  <2>1. <<>> \in Seq(F) OBVIOUS
  <2>2. PICK n \in Nat : n = Len(output) BY <1>2
  <2>3. next \in [1 .. n -> [Seq(F) -> Seq(F)]] BY <1>4, <2>2
  <2>4. \E f : Fold(f, Seq(F), <<>>, n, next) BY <2>1, <2>3, FoldExists
  <2> QED BY <2>2, <2>4 DEF Fold
<1>7. g = [n \in 0 .. Len(output) |-> IF n = 0 THEN <<>> ELSE Append(g[n - 1], Finding(output[n], g[n - 1]))]
  <2> DEFINE h == [n \in 0 .. Len(output) |-> IF n = 0 THEN <<>> ELSE Append(g[n - 1], Finding(output[n], g[n - 1]))]
  <2> HIDE DEF next, F, Finding
  <2>1. ASSUME NEW n \in 0 .. Len(output) PROVE g[n] = h[n]
    <3>1. CASE n = 0 BY <1>6, <3>1
    <3>2. CASE n # 0
      <4>1. n \in 1 .. Len(output) /\ n - 1 \in 0 .. Len(output) BY <1>2, <3>2
      <4>2. g[n - 1] \in Seq(F) BY <1>6, <4>1
      <4>3. g[n] = Append(g[n - 1], Finding(output[n], g[n - 1])) BY <1>5, <1>6, <4>1, <4>2
      <4> QED BY <3>2, <4>3
    <3> QED BY <3>1, <3>2
  <2>2. h = [n \in 0 .. Len(output) |-> h[n]] /\ g = [n \in 0 .. Len(output) |-> g[n]] BY <1>6
  <2> HIDE DEF h
  <2>3. g = h BY <2>1, <2>2
  <2> QED BY <2>3 DEF h
<1>8. upTo = [n \in 0 .. Len(output) |-> IF n = 0 THEN <<>> ELSE Append(upTo[n - 1], Finding(output[n], upTo[n - 1]))]
  <2> HIDE DEF Finding
  <2> QED BY <1>7, Zenon
<1> HIDE DEF upTo
<1>9. upTo[0] = <<>> /\ \A n \in 1 .. Len(output) : upTo[n] = Append(upTo[n - 1], Finding(output[n], upTo[n - 1]))
  <2>1. 0 \in 0 .. Len(output) /\ \A n \in 1 .. Len(output) : n # 0 /\ n \in 0 .. Len(output) BY <1>2
  <2> HIDE DEF Finding
  <2> QED BY <1>8, <2>1
<1>10. \A k \in 0 .. Len(output) : upTo[k] \in Seq(F)
  <2>0. \A n \in 1 .. Len(output), s \in Seq(F) : Append(s, Finding(output[n], s)) \in Seq(F)
    <3> HIDE DEF F, FindingAt, Finding, next
    <3>1. \A n \in 1 .. Len(output), s \in Seq(F) : next[n][s] \in Seq(F) BY <1>4
    <3> QED BY <1>5, <3>1
  <2> HIDE DEF F, Finding, next
  <2>1. upTo[0] \in Seq(F) BY <1>9
  <2>2. \A k \in 1 .. Len(output) : upTo[k - 1] \in Seq(F) => upTo[k] \in Seq(F) BY <1>9, <2>0
  <2> PICK A : A = Seq(F) OBVIOUS
  <2>3. \A k \in 0 .. Len(output) : upTo[k] \in A BY <1>2, <2>1, <2>2, FoldTyped
  <2> QED BY <2>3
<1>11. CASE v = Invalid BY <1>11, NoFindings DEF Invalid
<1>12. CASE v.findings = upTo[Len(output)]
  <2> PICK s : s = v.findings OBVIOUS
  <2>1. s \in Seq(F)
    <3> HIDE DEF F
    <3> QED BY <1>2, <1>10, <1>12
  <2>2. \A f \in F : f.id[2] = f.location OBVIOUS
  <2> HIDE DEF F
  <2>3. s \in Seq(ToSet(s)) BY <2>1, ListIsOfItself
  <2>4. \A f \in ToSet(s) : f \in F BY <2>1 DEF ToSet
  <2> QED BY <2>2, <2>3, <2>4 DEF AreFindings
<1> QED BY <1>1, <1>11, <1>12

\* What a reviewer's answer holds up to.
LEMMA AnswersAreProposals ==
  ASSUME NEW invocation \in Invocations, invocation.kind = "ok"
  PROVE  invocation.output \in Seq(Proposals)
<1>1. PICK ending \in Endings : invocation = Invocation(ending) BY DEF Invocations
<1>2. \A p \in Payloads : ValidateAnswer(p).kind = "ok" => ValidateAnswer(p).output \in Outputs
  BY DEF Payloads, ValidateAnswer, NoAnswer
<1>3. NoAnswer.kind # "ok" BY DEF NoAnswer
<1>4. invocation = ParseReviewerOutput(ending.printed) BY <1>1, <1>3 DEF Invocation
<1> PICK printed : printed = ending.printed OBVIOUS
<1>5. printed \in Printed BY <1>1 DEF Endings
<1>6. printed.structured \in Optional /\ printed.result \in Optional BY <1>5 DEF Printed, Optional
<1>7. \A o \in Optional : o # <<>> => o[1] \in Payloads BY DEF Optional
<1>8. invocation \in {NoAnswer, ValidateAnswer(printed.structured[1]), ValidateAnswer(printed.result[1])}
      /\ (invocation # NoAnswer => \E o \in {printed.structured, printed.result} : o # <<>> /\ invocation = ValidateAnswer(o[1]))
  <2>1. CASE printed.kind # "envelope" \/ printed.errored BY <1>4, <2>1 DEF ParseReviewerOutput
  <2>2. CASE printed.kind = "envelope" /\ ~ printed.errored /\ printed.structured # <<>>
    BY <1>4, <2>2 DEF ParseReviewerOutput
  <2>3. CASE printed.kind = "envelope" /\ ~ printed.errored /\ printed.structured = <<>>
    BY <1>4, <2>3 DEF ParseReviewerOutput
  <2> QED BY <2>1, <2>2, <2>3
<1>9. PICK o \in Optional : o # <<>> /\ invocation = ValidateAnswer(o[1]) BY <1>3, <1>6, <1>8
<1>10. invocation.output \in Outputs BY <1>2, <1>7, <1>9
<1> QED BY <1>10, OutputsAssumption

\* What a run holds: findings, and a version when it has begun.
RunHolds(c) ==
  /\ AreFindings(c.findings)
  /\ c.findings # <<>> \/ c.at \notin {"start", "failed"} => c.version \in 1 .. Len(Diffs)

\* Only results are left by earlier reviews.
OnlyResultsAreEarlier == \A d \in Names : \A a \in Artifacts \ {"result"} : files[d][a].by \in Runs \union {None, Torn}

\* What is recorded is published, with the digest of a position.
Recorded(published) ==
  /\ DOMAIN published = {"drafts", "outcomes", "submitted"}
  /\ published.outcomes \in Seq(ToSet(published.outcomes))
  /\ \A o \in ToSet(published.outcomes) : o.state = "published" /\ o.digest # NoDigest

\* A position sits on the line that the id of its finding tells.
PlacedOn(e) == Sits(e, [location |-> e.id[2]], e.target) /\ e.digest # NoDigest

\* The files of an open review agree with one another.
AgreedOn(result, placed, outcomes) ==
  /\ \A e \in placed : e.target = result.remote /\ \E f \in ToSet(result.findings) : f.id = e.id
  /\ \A e, x \in placed : e.id = x.id => e = x
  /\ \A e \in placed : \A o \in ToSet(outcomes) : o.id = e.id => o.digest = e.digest

Agreed(v) == AgreedOn(v.result, ToSet(v.positions[1].positions), v.record.outcomes)

ViewHolds(v) ==
  /\ DOMAIN v = {"at", "name", "result", "positions", "record"}
  /\ v.at # "closed" => v.name \in Names /\ AreFindings(v.result.findings)
  /\ v.positions # <<>> => \A e \in ToSet(v.positions[1].positions) : PlacedOn(e)
  /\ v.at = "open" => Recorded(v.record) /\ (v.positions # <<>> => Agreed(v))

PlaceInv ==
  /\ IInv /\ OnlyResultsAreEarlier /\ \A r \in Runs : RunHolds(run[r])
  /\ DOMAIN record = Names /\ \A d \in Names : Recorded(record[d])
  /\ ViewHolds(view)

LEMMA UnstartedHolds ==
  /\ RunHolds(Unstarted) /\ RunHolds(Forgotten) /\ Unstarted.findings = <<>> /\ Forgotten.findings = <<>>
<1>1. Unstarted.findings = <<>> /\ Unstarted.at = "start" BY DEF Unstarted
<1>2. Forgotten.findings = <<>> /\ Forgotten.at = "failed" BY Fields, <1>1 DEF Forgotten
<1> QED BY <1>1, <1>2, NoFindings DEF RunHolds

LEMMA NoViewHolds == ViewHolds(NoView)
BY DEF ViewHolds, NoView

LEMMA InitPlaces == Init => PlaceInv
<1> SUFFICES ASSUME Init PROVE PlaceInv OBVIOUS
<1>1. PICK n \in 0 .. Limit :
        /\ run = [r \in Runs |-> Unstarted]
        /\ files = [d \in Names |-> [a \in Artifacts |->
                      IF d \in Kinds \X (1 .. n) /\ a = "result" THEN [by |-> Earlier, writers |-> {}] ELSE NoFile]]
        /\ record = [d \in Names |-> NoRecord] /\ view = NoView
  BY DEF Init
<1>2. IInv BY InitIInv
<1>3. OnlyResultsAreEarlier
  <2>1. NoFile.by = None BY DEF NoFile
  <2> QED BY <1>1, <2>1 DEF OnlyResultsAreEarlier
<1>4. \A r \in Runs : RunHolds(run[r]) BY <1>1, UnstartedHolds
<1>5. Recorded(NoRecord)
  <2>1. ToSet(<<>>) = {} BY DEF ToSet
  <2> QED BY <2>1 DEF Recorded, NoRecord
<1>6. DOMAIN record = Names /\ \A d \in Names : Recorded(record[d]) BY <1>1, <1>5
<1> QED BY <1>1, <1>2, <1>3, <1>4, <1>6, NoViewHolds DEF PlaceInv

(***************************************************************************)
(* The runs.                                                               *)
(***************************************************************************)
\* A run that has begun goes on with its version, and keeps findings.
LEMMA GoesOn ==
  ASSUME NEW r \in Runs, RunHolds(run[r]), NEW c, c.version = run[r].version, AreFindings(c.findings),
         run[r].at \notin {"start", "failed"} \/ (c.at = run[r].at /\ c.findings = run[r].findings)
  PROVE  RunHolds(c)
BY DEF RunHolds

LEMMA StoppedHolds == ASSUME IInv, NEW r \in Runs, RunHolds(run[r]) PROVE RunHolds(Stopped(r))
<1>1. CASE run[r].at = "save"
  <2> PICK c : c = Stopped(r) OBVIOUS
  <2>1. DOMAIN run[r] = DOMAIN Unstarted BY SavingHolds DEF Typed
  <2>2. c = [run[r] EXCEPT !.at = "failed", !.todo = <<>>] BY <1>1 DEF Stopped
  <2>3. c.version = run[r].version /\ c.findings = run[r].findings BY <2>1, <2>2, Fields
  <2>4. AreFindings(c.findings) BY <2>3 DEF RunHolds
  <2>5. RunHolds(c) BY <1>1, <2>3, <2>4, GoesOn
  <2> QED BY <2>5
<1>2. CASE run[r].at # "save" BY <1>2, UnstartedHolds DEF Stopped
<1> QED BY <1>1, <1>2

\* How the state of a run can change in a step of its own.
Goes(r, c) == run' = [run EXCEPT ![r] = c]
Moved(r) == UNCHANGED run \/ \E c : Goes(r, c) /\ RunHolds(c)

LEMMA StopMoves == ASSUME IInv, NEW r \in Runs, RunHolds(run[r]), Stop(r) PROVE Moved(r)
<1> PICK c : c = Stopped(r) OBVIOUS
<1>1. run' = [run EXCEPT ![r] = c] /\ RunHolds(c) BY StoppedOK, StoppedHolds
<1> QED BY <1>1 DEF Moved, Goes

LEMMA AssembleMoves == ASSUME IInv, NEW r \in Runs, RunHolds(run[r]), NEW kind \in Kinds, Assemble(r, kind) PROVE Moved(r)
<1>1. ASSUME NEW version \in 1 .. Len(Diffs), NEW excluded,
             Go(r, [Unstarted EXCEPT !.at = "name", !.kind = kind, !.tried = 1, !.version = version,
                                     !.excluded = excluded])
      PROVE  Moved(r)
  <2> PICK c : c = [Unstarted EXCEPT !.at = "name", !.kind = kind, !.tried = 1, !.version = version,
                                     !.excluded = excluded]
    OBVIOUS
  <2>1. Goes(r, c) BY <1>1 DEF Go, Goes
  <2>2. c.version = version /\ c.findings = <<>> BY DEF Unstarted
  <2>3. RunHolds(c) BY <2>2, NoFindings DEF RunHolds
  <2> QED BY <2>1, <2>3 DEF Moved
<1>2. latest \in 1 .. Len(Diffs) /\ 1 \in 1 .. Len(Diffs) BY TypeParts, ReviewAssumption DEF IInv
<1> QED BY <1>1, <1>2, StopMoves DEF Assemble

LEMMA SearchMoves == ASSUME IInv, NEW r \in Runs, RunHolds(run[r]), Look(r) \/ MakeDirectory(r) PROVE Moved(r)
<1>1. DOMAIN run[r] = DOMAIN Unstarted BY SavingHolds DEF Typed
<1>2. run[r].at \in {"name", "make"} /\ AreFindings(run[r].findings) BY DEF Look, MakeDirectory, RunHolds
<1>3. ASSUME NEW c, Goes(r, c), c.version = run[r].version, c.findings = run[r].findings PROVE Moved(r)
  <2>1. RunHolds(c) BY <1>2, <1>3, GoesOn
  <2> QED BY <1>3, <2>1 DEF Moved
<1>4. ASSUME NEW name, Go(r, [run[r] EXCEPT !.at = "make", !.name = name]) PROVE Moved(r)
  <2> PICK c : c = [run[r] EXCEPT !.at = "make", !.name = name] OBVIOUS
  <2> QED BY <1>1, <1>3, <1>4, Fields DEF Go, Goes
<1>5. ASSUME Go(r, [run[r] EXCEPT !.tried = @ + 1]) PROVE Moved(r)
  <2> PICK c : c = [run[r] EXCEPT !.tried = @ + 1] OBVIOUS
  <2> QED BY <1>1, <1>3, <1>5, Fields DEF Go, Goes
<1>6. ASSUME NEW name, Go(r, [run[r] EXCEPT !.at = "make", !.tried = 0, !.name = name]) PROVE Moved(r)
  <2> PICK c : c = [run[r] EXCEPT !.at = "make", !.tried = 0, !.name = name] OBVIOUS
  <2> QED BY <1>1, <1>3, <1>6, Fields DEF Go, Goes
<1>7. ASSUME Go(r, [run[r] EXCEPT !.at = "conclude", !.tried = 0]) PROVE Moved(r)
  <2> PICK c : c = [run[r] EXCEPT !.at = "conclude", !.tried = 0] OBVIOUS
  <2> QED BY <1>1, <1>3, <1>7, Fields DEF Go, Goes
<1>8. CASE Look(r) BY <1>4, <1>5, <1>6, <1>8 DEF Look
<1>9. CASE MakeDirectory(r) BY <1>7, <1>9 DEF MakeDirectory
<1> QED BY <1>8, <1>9

LEMMA ConcludeMoves ==
  ASSUME IInv, NEW r \in Runs, RunHolds(run[r]), NEW command \in Commands, Conclude(r, command)
  PROVE  Moved(r)
<1>1. DOMAIN run[r] = DOMAIN Unstarted BY SavingHolds DEF Typed
<1>2. run[r].at = "conclude" /\ AreFindings(run[r].findings) BY DEF Conclude, RunHolds
<1>3. ASSUME NEW c, Goes(r, c), c.version = run[r].version, AreFindings(c.findings) PROVE Moved(r)
  <2>1. RunHolds(c) BY <1>2, <1>3, GoesOn
  <2> QED BY <1>3, <2>1 DEF Moved
<1>4. CASE EndBundle(r)
  <2> PICK c : c = [run[r] EXCEPT !.at = "save", !.todo = Saved] OBVIOUS
  <2>1. Goes(r, c) /\ c.version = run[r].version /\ c.findings = run[r].findings
    BY <1>1, <1>4, Fields DEF EndBundle, Go, Goes
  <2> QED BY <1>2, <1>3, <2>1
<1> PICK ended : ended = Ending(run[r]) OBVIOUS
<1>5. DOMAIN ended = DOMAIN Unstarted /\ ended.version = run[r].version /\ ended.findings = run[r].findings
  BY <1>1, Fields DEF Ending
<1>6. CASE Go(r, Ending(run[r]))
  <2>1. Goes(r, ended) BY <1>6 DEF Go, Goes
  <2> QED BY <1>2, <1>3, <1>5, <2>1
<1>7. ASSUME NEW invocation \in Invocations, invocation.kind = "ok", Go(r, Judged(run[r], invocation.output))
      PROVE  Moved(r)
  <2> PICK output : output = invocation.output OBVIOUS
  <2> PICK validated : validated = ValidateFindings(output, Reviewed(run[r]), Diffs[run[r].version].mirrored, run[r].name)
    OBVIOUS
  <2>1. output \in Seq(Proposals) BY <1>7, AnswersAreProposals
  <2>2. AreFindings(validated.findings) BY <2>1, ValidatedAreFindings
  <2>3. Judged(run[r], output) =
          IF validated.kind = "ok"
          THEN Ending([run[r] EXCEPT !.findings = Kept(run[r], validated.findings)])
          ELSE [Ending(run[r]) EXCEPT !.todo = <<"rejected">> \o @]
    BY SMTT(20) DEF Judged
  <2>4. CASE validated.kind = "ok"
    <3> PICK findings : findings = Kept(run[r], validated.findings) OBVIOUS
    <3>1. AreFindings(findings) BY <2>2, NoFindings DEF Kept
    <3> PICK c : c = Ending([run[r] EXCEPT !.findings = findings]) OBVIOUS
    <3>2. c.version = run[r].version /\ c.findings = findings BY <1>1, Fields DEF Ending
    <3>3. Goes(r, c) BY <1>7, <2>3, <2>4 DEF Go, Goes
    <3> QED BY <1>3, <3>1, <3>2, <3>3
  <2>5. CASE validated.kind # "ok"
    <3> PICK c : c = [ended EXCEPT !.todo = <<"rejected">> \o @] OBVIOUS
    <3>1. c.version = run[r].version /\ c.findings = run[r].findings BY <1>5, Fields
    <3>2. Goes(r, c) BY <1>7, <2>3, <2>5 DEF Go, Goes
    <3> QED BY <1>2, <1>3, <3>1, <3>2
  <2> QED BY <2>4, <2>5
<1>8. CASE Invoke(r)
  <2>1. PICK invocation \in Invocations :
          Stop(r) \/ Go(r, IF invocation.kind = "ok" THEN Judged(run[r], invocation.output) ELSE Ending(run[r]))
    BY <1>8, Zenon DEF Invoke
  <2>2. CASE invocation.kind = "ok" BY <1>7, <2>1, <2>2, StopMoves
  <2>3. CASE invocation.kind # "ok" BY <1>6, <2>1, <2>3, StopMoves
  <2> QED BY <2>2, <2>3
<1> QED BY <1>4, <1>8, StopMoves DEF Conclude, StopForAuthorization

LEMMA SaveMoves ==
  ASSUME IInv, NEW r \in Runs, RunHolds(run[r]),
         StartWrite(r) \/ FinishWrite(r) \/ FailWrite(r) \/ WriteOther(r) \/ RenamePositions(r) \/ Crash(r)
  PROVE  Moved(r)
<1>1. DOMAIN run[r] = DOMAIN Unstarted BY SavingHolds DEF Typed
<1>2. CASE Go(r, [run[r] EXCEPT !.todo = Tail(@)])
  <2> PICK c : c = [run[r] EXCEPT !.todo = Tail(@)] OBVIOUS
  <2>1. /\ Goes(r, c) /\ c.version = run[r].version /\ c.findings = run[r].findings /\ c.at = run[r].at
        /\ AreFindings(c.findings)
    BY <1>1, <1>2, Fields DEF Go, Goes, RunHolds
  <2>2. RunHolds(c) BY <2>1, GoesOn
  <2> QED BY <2>1, <2>2 DEF Moved
<1>3. StartWrite(r) => UNCHANGED run BY DEF StartWrite
<1>4. FinishWrite(r) => Go(r, [run[r] EXCEPT !.todo = Tail(@)]) BY DEF FinishWrite
<1>5. FailWrite(r) \/ Crash(r) => Stop(r) BY DEF FailWrite, Crash
<1>6. WriteOther(r) \/ RenamePositions(r) => Stop(r) \/ Go(r, [run[r] EXCEPT !.todo = Tail(@)])
  BY Zenon DEF WriteOther, RenamePositions
<1> QED BY <1>2, <1>3, <1>4, <1>5, <1>6, StopMoves DEF Moved

(***************************************************************************)
(* The files.                                                              *)
(***************************************************************************)
LEMMA PutIsOfRuns ==
  ASSUME IInv, OnlyResultsAreEarlier, NEW r \in Runs, run[r].name \in Names, NEW changed, Put(r, changed),
         \A a \in DOMAIN changed : a = "result" \/ changed[a].by \in Runs \union {None, Torn}
  PROVE  OnlyResultsAreEarlier'
<1> SUFFICES ASSUME NEW d \in Names, NEW a \in Artifacts \ {"result"} PROVE files'[d][a].by \in Runs \union {None, Torn}
  BY DEF OnlyResultsAreEarlier
<1>1. files \in [Names -> [Artifacts -> File]] BY TypeParts DEF IInv
<1>2. files[d][a].by \in Runs \union {None, Torn} BY DEF OnlyResultsAreEarlier
<1> PICK g : g = [b \in Artifacts |-> IF b \in DOMAIN changed THEN changed[b] ELSE files[run[r].name][b]] OBVIOUS
<1>3. files' = [files EXCEPT ![run[r].name] = g] BY DEF Put
<1>4. CASE d = run[r].name
  <2>1. files'[d] = g BY <1>1, <1>3, <1>4
  <2> QED BY <1>2, <1>4, <2>1
<1>5. CASE d # run[r].name
  <2>1. files'[d] = files[d] BY <1>1, <1>3, <1>5
  <2> QED BY <1>2, <2>1
<1> QED BY <1>4, <1>5

LEMMA OnePutIsOfRuns ==
  ASSUME IInv, OnlyResultsAreEarlier, NEW r \in Runs, run[r].name \in Names, NEW a, NEW file,
         file.by \in Runs \union {None, Torn}, Put(r, Only(a, file))
  PROVE  OnlyResultsAreEarlier'
<1> PICK changed : changed = Only(a, file) OBVIOUS
<1>1. DOMAIN changed = {a} /\ changed[a] = file BY DEF Only
<1> QED BY <1>1, PutIsOfRuns

LEMMA LeftTornIsOfRuns ==
  ASSUME IInv, OnlyResultsAreEarlier, NEW r \in Runs, Writing(r) # {}, LeaveTorn(r)
  PROVE  OnlyResultsAreEarlier'
<1>1. run[r].name \in Names /\ Writing(r) \subseteq Artifacts BY SavingHolds
<1> PICK changed : changed = [a \in Writing(r) |-> [files[run[r].name][a] EXCEPT !.writers = @ \ {r}]] OBVIOUS
<1>2. Put(r, changed) BY DEF LeaveTorn
<1>3. ASSUME NEW a \in DOMAIN changed PROVE a = "result" \/ changed[a].by \in Runs \union {None, Torn}
  <2>1. a \in Artifacts /\ files[run[r].name][a] \in File BY <1>1, FilesAre
  <2>2. changed[a].by = files[run[r].name][a].by BY <2>1 DEF File
  <2> QED BY <1>1, <2>1, <2>2 DEF OnlyResultsAreEarlier
<1> QED BY <1>1, <1>2, <1>3, PutIsOfRuns

LEMMA ReviewLeavesFiles == ASSUME IInv, OnlyResultsAreEarlier, NEW r \in Runs, Review(r) PROVE OnlyResultsAreEarlier'
<1>1. UNCHANGED files => OnlyResultsAreEarlier' BY DEF OnlyResultsAreEarlier
<1>2. run[r].at \in {"conclude", "save"} \/ Writing(r) # {} => run[r].name \in Names BY SavingHolds
<1>3. CASE (\E kind \in Kinds : Assemble(r, kind)) \/ Look(r) \/ MakeDirectory(r)
  BY <1>1, <1>3 DEF Assemble, Look, MakeDirectory, shared
<1>4. CASE \E command \in Commands : Conclude(r, command)
  <2>1. run[r].at = "conclude" /\ Put(r, Only("checks", Complete(r))) BY <1>4 DEF Conclude
  <2>2. Complete(r).by = r BY DEF Complete
  <2> QED BY <1>2, <2>1, <2>2, OnePutIsOfRuns
<1>5. CASE StartWrite(r)
  <2> PICK file : file = [by |-> Torn, writers |-> files[run[r].name][run[r].todo[1]].writers \union {r}] OBVIOUS
  <2>1. run[r].at = "save" /\ Put(r, Only(run[r].todo[1], file)) /\ file.by = Torn
    BY <1>5, SMTT(20) DEF StartWrite
  <2> QED BY <1>2, <2>1, OnePutIsOfRuns
<1>6. CASE FinishWrite(r)
  <2>1. PICK a \in Writing(r), by \in {r, Torn} :
          Put(r, Only(a, [by |-> by, writers |-> files[run[r].name][a].writers \ {r}]))
    BY <1>6 DEF FinishWrite
  <2> PICK file : file = [by |-> by, writers |-> files[run[r].name][a].writers \ {r}] OBVIOUS
  <2>2. Put(r, Only(a, file)) /\ file.by = by BY <2>1
  <2> QED BY <1>2, <2>1, <2>2, OnePutIsOfRuns
<1>7. CASE FailWrite(r) BY <1>7, LeftTornIsOfRuns DEF FailWrite
<1>8. CASE WriteOther(r)
  <2>1. run[r].at = "save" /\ (UNCHANGED files \/ Put(r, Only(run[r].todo[1], Complete(r)))) BY <1>8 DEF WriteOther
  <2>2. Complete(r).by = r BY DEF Complete
  <2> QED BY <1>1, <1>2, <2>1, <2>2, OnePutIsOfRuns
<1>9. CASE RenamePositions(r)
  <2> PICK from : from = files[run[r].name]["positions.writing"] OBVIOUS
  <2> PICK changed : changed = [a \in {"positions", "positions.writing"} |-> IF a = "positions" THEN from ELSE NoFile]
    OBVIOUS
  <2>1. run[r].at = "save" /\ (UNCHANGED files \/ Put(r, changed)) BY <1>9, Zenon DEF RenamePositions
  <2>2. run[r].name \in Names BY <1>2, <2>1
  <2>3. "positions.writing" \in Artifacts \ {"result"} BY DEF Artifacts
  <2>4. from.by \in Runs \union {None, Torn} BY <2>2, <2>3 DEF OnlyResultsAreEarlier
  <2>5. NoFile.by = None BY DEF NoFile
  <2>6. \A a \in DOMAIN changed : changed[a].by \in Runs \union {None, Torn} BY <2>4, <2>5
  <2> QED BY <1>1, <2>1, <2>2, <2>6, PutIsOfRuns
<1>10. CASE Crash(r)
  <2>1. UNCHANGED files \/ (Writing(r) # {} /\ LeaveTorn(r)) BY <1>10 DEF Crash
  <2> QED BY <1>1, <2>1, LeftTornIsOfRuns
<1> QED BY <1>3, <1>4, <1>5, <1>6, <1>7, <1>8, <1>9, <1>10 DEF Review

LEMMA ReviewKeepsPlaces == ASSUME PlaceInv, NEW r \in Runs, Review(r) PROVE PlaceInv'
<1>1. IInv /\ OnlyResultsAreEarlier /\ \A q \in Runs : RunHolds(run[q]) BY DEF PlaceInv
<1>2. IInv'
  <2>1. Next BY DEF Next
  <2> QED BY <1>1, <2>1, NextIInv
<1>3. OnlyResultsAreEarlier' BY <1>1, ReviewLeavesFiles
<1>4. UNCHANGED <<record, view>>
  BY DEF Review, Assemble, Look, MakeDirectory, shared, Conclude, StartWrite, FinishWrite, FailWrite, WriteOther,
         RenamePositions, Crash
<1>5. Moved(r)
  <2>1. RunHolds(run[r]) BY <1>1
  <2> QED BY <1>1, <2>1, AssembleMoves, SearchMoves, ConcludeMoves, SaveMoves DEF Review
<1>6. \A q \in Runs : RunHolds(run[q])'
  <2>1. DOMAIN run = Runs BY <1>1, TypeParts DEF IInv
  <2> SUFFICES ASSUME NEW q \in Runs PROVE RunHolds(run'[q]) BY DEF RunHolds
  <2>2. CASE UNCHANGED run BY <1>1, <2>2
  <2>3. ASSUME NEW c, Goes(r, c), RunHolds(c) PROVE RunHolds(run'[q])
    <3>1. run'[q] = c \/ run'[q] = run[q] BY <2>1, <2>3 DEF Goes
    <3> QED BY <1>1, <2>3, <3>1
  <2> QED BY <1>5, <2>2, <2>3 DEF Moved
<1> QED BY <1>2, <1>3, <1>4, <1>6 DEF PlaceInv

(***************************************************************************)
(* The reader.                                                             *)
(***************************************************************************)
\* Another of the reader's steps leaves the rest as it is.
LEMMA ReaderKeepsPlaces ==
  ASSUME PlaceInv, UNCHANGED <<run, files, record>>, IInv', ViewHolds(view')
  PROVE  PlaceInv'
BY DEF PlaceInv, OnlyResultsAreEarlier

LEMMA ReadResultHolds == ASSUME PlaceInv, NEW d \in Names, ReadResult(d) PROVE ViewHolds(view')
<1> PICK by : by = files[d]["result"].by OBVIOUS
<1> PICK result : result = Result(by, d) OBVIOUS
<1>1. by \notin {None, Torn} /\ view' = [NoView EXCEPT !.at = "positions", !.name = d, !.result = result] BY DEF ReadResult
<1>2. files \in [Names -> [Artifacts -> File]] BY TypeParts DEF PlaceInv, IInv
<1>3. "result" \in Artifacts BY DEF Artifacts
<1>4. files[d]["result"] \in File BY <1>2, <1>3
<1>5. by \in Runs \union {Earlier} BY <1>1, <1>4 DEF File, Somebody
<1>6. AreFindings(result.findings)
  <2>1. result.findings = IF by = Earlier THEN <<>> ELSE run[by].findings BY DEF Result
  <2> QED BY <1>5, <2>1, NoFindings DEF PlaceInv, RunHolds
<1>7. /\ DOMAIN view' = {"at", "name", "result", "positions", "record"} /\ view'.at = "positions" /\ view'.name = d
      /\ view'.result = result /\ view'.positions = <<>>
  BY <1>1 DEF NoView
<1> QED BY <1>6, <1>7 DEF ViewHolds

\* The positions a run writes are on the lines of its findings.
LEMMA PositionsArePlaced == ASSUME PlaceInv, NEW r \in Runs, NEW e \in ToSet(Positions(r).positions) PROVE PlacedOn(e)
<1> PICK p : p = Positions(r) OBVIOUS
<1> PICK c : c = run[r] OBVIOUS
<1> PICK changed : changed = Reviewed(c) OBVIOUS
<1>1. RunHolds(c) BY DEF PlaceInv
<1>2. c.findings \in Seq(ToSet(c.findings)) /\ \A f \in ToSet(c.findings) : f.id[2] = f.location
  BY <1>1 DEF RunHolds, AreFindings
<1>3. p = DerivePositions(c.name, c.version, changed, c.findings) BY DEF Positions
<1>4. PICK f \in ToSet(c.findings) :
        /\ PositionForLocation(c.version, changed, f.location) # <<>>
        /\ e.id = f.id /\ e.target = c.version
        /\ e.position = PositionForLocation(c.version, changed, f.location)[1] /\ e.digest # NoDigest
  BY <1>2, <1>3, DerivedFacts
<1>5. c.version \in 1 .. Len(Diffs)
  <2>1. c.findings # <<>>
    <3>1. ToSet(<<>>) = {} BY DEF ToSet
    <3> QED BY <1>4, <3>1
  <2> QED BY <1>1, <2>1 DEF RunHolds
<1>6. Diffs[c.version].files \in Seq(Patches) BY <1>5, DiffsAssumption
<1>7. changed \in Seq(Patches) /\ ToSet(changed) \subseteq ToSet(Diffs[c.version].files)
  BY <1>6, AmongFacts DEF Reviewed
<1> PICK g : g = [location |-> e.id[2]] OBVIOUS
<1>8. g.location = f.location BY <1>2, <1>4
<1>9. Sits(e, g, c.version) BY <1>4, <1>6, <1>7, <1>8, PlacedSits
<1> QED BY <1>4, <1>9 DEF PlacedOn

LEMMA ReadPositionsHolds == ASSUME PlaceInv, ReadPositions PROVE ViewHolds(view')
<1> PICK by : by = files[view.name]["positions"].by OBVIOUS
<1>1. view.at = "positions" /\ ViewHolds(view) BY DEF ReadPositions, PlaceInv
<1>2. CASE by = Torn BY <1>2, NoViewHolds DEF ReadPositions, Refuse
<1>3. CASE by # Torn
  <2> PICK positions : positions = IF by = None THEN <<>> ELSE <<Positions(by)>> OBVIOUS
  <2>1. view' = [view EXCEPT !.at = "record", !.positions = positions] BY <1>3 DEF ReadPositions
  <2>2. /\ DOMAIN view' = DOMAIN view /\ view'.at = "record" /\ view'.positions = positions /\ view'.name = view.name
        /\ view'.result = view.result
    BY <1>1, <2>1 DEF ViewHolds
  <2>3. view.name \in Names /\ AreFindings(view.result.findings) BY <1>1 DEF ViewHolds
  <2>4. "positions" \in Artifacts \ {"result"} BY DEF Artifacts
  <2>5. by \in Runs \union {None} BY <1>3, <2>3, <2>4 DEF PlaceInv, OnlyResultsAreEarlier
  <2>6. positions # <<>> => \A e \in ToSet(positions[1].positions) : PlacedOn(e)
    <3> SUFFICES ASSUME positions # <<>>, NEW e \in ToSet(positions[1].positions) PROVE PlacedOn(e) OBVIOUS
    <3>1. by \in Runs /\ e \in ToSet(Positions(by).positions) BY <2>5
    <3> QED BY <3>1, PositionsArePlaced
  <2> QED BY <1>1, <2>2, <2>3, <2>6 DEF ViewHolds
<1> QED BY <1>2, <1>3

\* Positions that agree with a result and a record do so id by id.
LEMMA AgreeMeans ==
  ASSUME NEW result, NEW positions, positions # <<>>, NEW published, Agree(result, positions, published),
         \A o \in ToSet(published.outcomes) : o.state = "published" /\ o.digest # NoDigest
  PROVE  AgreedOn(result, ToSet(positions[1].positions), published.outcomes)
<1> PICK p : p = positions[1] OBVIOUS
<1>1. PositionsAgree(p, result) /\ RecordAgrees(published, result, positions) BY DEF Agree
<1>2. ASSUME NEW e \in ToSet(p.positions)
      PROVE  e.target = result.remote /\ \E f \in ToSet(result.findings) : f.id = e.id
  <2>1. e.target = result.remote BY <1>1, <1>2 DEF PositionsAgree, SameTarget
  <2>2. ToSet(Ids(p.positions)) \subseteq ToSet(Ids(result.findings)) BY <1>1 DEF PositionsAgree
  <2>3. e.id \in ToSet(Ids(p.positions)) BY <1>2 DEF ToSet, Ids
  <2>4. e.id \in ToSet(Ids(result.findings)) BY <2>2, <2>3
  <2>5. \E f \in ToSet(result.findings) : f.id = e.id BY <2>4 DEF ToSet, Ids
  <2> QED BY <2>1, <2>5
<1>3. ASSUME NEW e \in ToSet(p.positions), NEW x \in ToSet(p.positions), e.id = x.id PROVE e = x
  <2>1. IsInjective(Ids(p.positions)) BY <1>1 DEF PositionsAgree
  <2>2. PICK i, j \in DOMAIN p.positions : e = p.positions[i] /\ x = p.positions[j] BY <1>3 DEF ToSet
  <2>3. i \in DOMAIN Ids(p.positions) /\ j \in DOMAIN Ids(p.positions) /\ Ids(p.positions)[i] = Ids(p.positions)[j]
    BY <1>3, <2>2 DEF Ids
  <2>4. i = j BY <2>1, <2>3 DEF IsInjective
  <2> QED BY <2>2, <2>4
<1>4. ASSUME NEW e \in ToSet(p.positions), NEW o \in ToSet(published.outcomes), o.id = e.id PROVE o.digest = e.digest
  <2>1. Settled(o) /\ o.digest # NoDigest BY DEF Settled
  <2>2. PICK x \in ToSet(p.positions) : x.id = o.id /\ x.digest = o.digest BY <1>1, <2>1 DEF RecordAgrees
  <2>3. x = e BY <1>3, <1>4, <2>2
  <2> QED BY <2>2, <2>3
<1> QED BY <1>2, <1>3, <1>4 DEF AgreedOn

LEMMA ReadRecordHolds == ASSUME PlaceInv, ReadRecord PROVE ViewHolds(view')
<1> PICK v : v = [view EXCEPT !.at = "open", !.record = record[view.name]] OBVIOUS
<1>1. view.at = "record" /\ ViewHolds(view) BY DEF ReadRecord, PlaceInv
<1>2. CASE ~ Opens(v) BY <1>2, NoViewHolds DEF ReadRecord, Refuse
<1>3. CASE Opens(v)
  <2>1. view' = v BY <1>3 DEF ReadRecord
  <2>2. view.name \in Names /\ AreFindings(view.result.findings) BY <1>1 DEF ViewHolds
  <2>3. /\ DOMAIN v = DOMAIN view /\ v.at = "open" /\ v.name = view.name /\ v.result = view.result
        /\ v.positions = view.positions /\ v.record = record[view.name]
    BY <1>1 DEF ViewHolds
  <2>4. Recorded(v.record) BY <2>2, <2>3 DEF PlaceInv
  <2> PICK published : published = [reviewId |-> v.result.reviewId, drafts |-> v.record.drafts,
                                    outcomes |-> v.record.outcomes, submitted |-> v.record.submitted]
    OBVIOUS
  <2>5. published.outcomes = v.record.outcomes OBVIOUS
  <2>6. Agree(v.result, v.positions, published) BY <1>3 DEF Opens
  <2>7. \A o \in ToSet(published.outcomes) : o.state = "published" /\ o.digest # NoDigest BY <2>4, <2>5 DEF Recorded
  <2>8. v.positions # <<>> => Agreed(v)
    <3> SUFFICES ASSUME v.positions # <<>> PROVE Agreed(v) OBVIOUS
    <3> PICK result : result = v.result OBVIOUS
    <3> PICK positions : positions = v.positions OBVIOUS
    <3>1. Agree(result, positions, published) /\ positions # <<>> BY <2>6
    <3>2. AgreedOn(result, ToSet(positions[1].positions), published.outcomes) BY <2>7, <3>1, AgreeMeans
    <3> QED BY <2>5, <3>2 DEF Agreed
  <2> QED BY <1>1, <2>1, <2>2, <2>3, <2>4, <2>8 DEF ViewHolds
<1> QED BY <1>2, <1>3

\* A comment that is published is recorded with the digest of its position.
LEMMA PublishKeeps == ASSUME PlaceInv, PublishComment PROVE PlaceInv'
<1>1. view.at = "open" /\ view.positions # <<>> /\ UNCHANGED <<latest, run, made, raced, files>> BY DEF PublishComment
<1>2. ViewHolds(view) /\ Recorded(view.record) /\ Agreed(view) /\ view.name \in Names BY <1>1 DEF PlaceInv, ViewHolds
<1> PICK placed : placed = ToSet(view.positions[1].positions) OBVIOUS
<1> PICK e \in placed :
      LET published == [view.record EXCEPT !.submitted = @ + 1,
                        !.outcomes = Append(@, [id |-> e.id, state |-> "published", digest |-> e.digest])]
      IN record' = [record EXCEPT ![view.name] = published] /\ view' = [view EXCEPT !.record = published]
  BY DEF PublishComment
<1> PICK outcome : outcome = [id |-> e.id, state |-> "published", digest |-> e.digest] OBVIOUS
<1> PICK published : published = [view.record EXCEPT !.submitted = @ + 1, !.outcomes = Append(@, outcome)] OBVIOUS
<1>3. record' = [record EXCEPT ![view.name] = published] /\ view' = [view EXCEPT !.record = published] OBVIOUS
<1> PICK outcomes : outcomes = view.record.outcomes OBVIOUS
<1>4. DOMAIN published = DOMAIN view.record /\ published.outcomes = Append(outcomes, outcome)
  BY <1>2 DEF Recorded
<1>5. published.outcomes \in Seq(ToSet(published.outcomes)) /\ ToSet(published.outcomes) = ToSet(outcomes) \union {outcome}
  <2> PICK S : S = ToSet(outcomes) \union {outcome} OBVIOUS
  <2>1. outcomes \in Seq(ToSet(outcomes)) /\ ToSet(outcomes) \subseteq S /\ outcome \in S BY <1>2 DEF Recorded
  <2>2. outcomes \in Seq(S) BY <2>1, SeqMonotonic
  <2>3. Append(outcomes, outcome) \in Seq(S) /\ ToSet(Append(outcomes, outcome)) = ToSet(outcomes) \union {outcome}
    BY <2>1, <2>2, AppendedSet
  <2> QED BY <1>4, <2>3
<1>6. PlacedOn(e) BY <1>1, <1>2 DEF ViewHolds
<1>7. outcome.id = e.id /\ outcome.state = "published" /\ outcome.digest = e.digest /\ e.digest # NoDigest
  BY <1>6 DEF PlacedOn
<1>8. Recorded(published)
  <2>1. \A o \in ToSet(outcomes) : o.state = "published" /\ o.digest # NoDigest BY <1>2 DEF Recorded
  <2>2. DOMAIN published = {"drafts", "outcomes", "submitted"} BY <1>2, <1>4 DEF Recorded
  <2>3. \A o \in ToSet(published.outcomes) : o.state = "published" /\ o.digest # NoDigest BY <1>5, <1>7, <2>1
  <2> QED BY <1>5, <2>2, <2>3 DEF Recorded
<1>9. /\ DOMAIN view' = DOMAIN view /\ view'.at = view.at /\ view'.name = view.name /\ view'.result = view.result
      /\ view'.positions = view.positions /\ view'.record = published
  BY <1>2, <1>3 DEF ViewHolds
<1>10. Agreed(view')
  <2>1. /\ \A x \in placed : x.target = view.result.remote /\ \E f \in ToSet(view.result.findings) : f.id = x.id
        /\ \A x, y \in placed : x.id = y.id => x = y
        /\ \A x \in placed : \A o \in ToSet(outcomes) : o.id = x.id => o.digest = x.digest
    BY <1>2 DEF Agreed, AgreedOn
  <2>2. \A x \in placed : \A o \in ToSet(published.outcomes) : o.id = x.id => o.digest = x.digest
    BY <1>5, <1>7, <2>1
  <2>3. AgreedOn(view.result, placed, published.outcomes) BY <2>1, <2>2 DEF AgreedOn
  <2> QED BY <1>9, <2>3 DEF Agreed
<1>11. ViewHolds(view') BY <1>2, <1>8, <1>9, <1>10 DEF ViewHolds
<1>12. IInv'
  <2>1. IInv /\ View BY DEF PlaceInv, View
  <2> QED BY <2>1, OthersKeep
<1>13. DOMAIN record' = Names /\ \A d \in Names : Recorded(record'[d])
  <2>1. DOMAIN record = Names /\ \A d \in Names : Recorded(record[d]) BY DEF PlaceInv
  <2> QED BY <1>2, <1>3, <1>8, <2>1
<1>14. OnlyResultsAreEarlier' /\ \A r \in Runs : RunHolds(run[r])'
  BY <1>1 DEF PlaceInv, OnlyResultsAreEarlier, RunHolds
<1> QED BY <1>11, <1>12, <1>13, <1>14 DEF PlaceInv

LEMMA NextPlaces == PlaceInv /\ [Next]_vars => PlaceInv'
<1> SUFFICES ASSUME PlaceInv, [Next]_vars PROVE PlaceInv' OBVIOUS
<1>1. IInv' BY NextIInv DEF PlaceInv
<1>2. CASE NewVersion \/ UNCHANGED vars
  <2>1. UNCHANGED <<run, files, record, view>> BY <1>2 DEF NewVersion, vars
  <2> QED BY <1>1, <2>1, ReaderKeepsPlaces DEF PlaceInv
<1>3. CASE View
  <2>1. CASE \E d \in Names : ReadResult(d)
    <3>1. UNCHANGED <<run, files, record>> BY <2>1 DEF ReadResult, unread
    <3> QED BY <1>1, <2>1, <3>1, ReadResultHolds, ReaderKeepsPlaces
  <2>2. CASE ReadPositions
    <3>1. UNCHANGED <<run, files, record>> BY <2>2 DEF ReadPositions, unread
    <3> QED BY <1>1, <2>2, <3>1, ReadPositionsHolds, ReaderKeepsPlaces
  <2>3. CASE ReadRecord
    <3>1. UNCHANGED <<run, files, record>> BY <2>3 DEF ReadRecord, unread
    <3> QED BY <1>1, <2>3, <3>1, ReadRecordHolds, ReaderKeepsPlaces
  <2>4. CASE PublishComment BY <2>4, PublishKeeps
  <2>5. CASE CloseView
    <3>1. UNCHANGED <<run, files, record>> /\ view' = NoView BY <2>5 DEF CloseView, Refuse, unread
    <3> QED BY <1>1, <3>1, NoViewHolds, ReaderKeepsPlaces
  <2> QED BY <1>3, <2>1, <2>2, <2>3, <2>4, <2>5 DEF View
<1>4. CASE \E r \in Runs : Review(r) BY <1>4, ReviewKeepsPlaces
<1> QED BY <1>2, <1>3, <1>4 DEF Next

\* publication/aggregate.ts, publication/positions.ts: a review that opens can be published from, whatever
\* its directory holds by then.  Each of its positions is for one of its findings, in the version
\* it is of, and on the very line of the patch that the finding names; and a comment that was recorded as
\* published was put there.
THEOREM OpenedHolds == Spec => []OpenedReviewHolds
<1>1. PlaceInv => OpenedReviewHolds
  <2> SUFFICES ASSUME PlaceInv, view.at = "open", view.positions # <<>>, NEW e \in ToSet(view.positions[1].positions)
               PROVE  /\ \E f \in ToSet(view.result.findings) : e.id = f.id /\ Sits(e, f, view.result.remote)
                      /\ \A o \in ToSet(view.record.outcomes) : o.id = e.id => o.digest = e.digest
    BY DEF OpenedReviewHolds
  <2>1. PlacedOn(e) /\ Agreed(view) /\ AreFindings(view.result.findings) BY DEF PlaceInv, ViewHolds
  <2>2. PICK f \in ToSet(view.result.findings) : f.id = e.id BY <2>1 DEF Agreed, AgreedOn
  <2>3. e.target = view.result.remote BY <2>1 DEF Agreed, AgreedOn
  <2> PICK g : g = [location |-> e.id[2]] OBVIOUS
  <2>4. g.location = f.location BY <2>1, <2>2 DEF AreFindings
  <2>5. Sits(e, g, view.result.remote) BY <2>1, <2>3 DEF PlacedOn
  <2>6. Sits(e, f, view.result.remote) BY <2>4, <2>5 DEF Sits
  <2>7. \A o \in ToSet(view.record.outcomes) : o.id = e.id => o.digest = e.digest BY <2>1 DEF Agreed, AgreedOn
  <2> QED BY <2>2, <2>6, <2>7
<1> QED BY <1>1, InitPlaces, NextPlaces, PTL DEF Spec
====

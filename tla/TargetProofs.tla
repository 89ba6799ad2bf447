---- MODULE TargetProofs ----
(***************************************************************************)
(* What a review is pinned to and what it is told of it, for any number of *)
(* captures, files, edits and commits, and of pushes, discussions and      *)
(* failures: proofs about WorkingTarget and about MergeRequest.            *)
(***************************************************************************)
EXTENDS WorkingTarget, MergeRequest, SequenceTheorems, TLAPS

(***************************************************************************)
(* The working tree.                                                       *)
(***************************************************************************)
\* The content a file the index knows had when the patch was made.
Then(c, p) == IF p \in DOMAIN c.patch THEN c.patch[p].after ELSE c.base[p]

\* Before the patch nothing has been read.
Untouched(c) == \A p \in Files : c.content[p] = Unread

\* What the patch says of the commit and the tree it was made from.
Pinned(c) ==
  /\ \A p \in DOMAIN c.patch : c.patch[p].before = c.base[p]
  /\ \A p \in c.known : Then(c, p) \in past[p]
  /\ \A p \in c.known \cap DOMAIN c.patch : c.patch[p].after # c.base[p]

\* A file that never went back to an earlier content, and has the one of the patch, has had it all the
\* time: it was not read with another, and no commit since then gave HEAD another.
Steady(c) ==
  \A p \in c.known : tree[p] = Then(c, p) =>
    /\ c.content[p] \in {Then(c, p), Unread}
    /\ p \in DOMAIN c.patch => head = c.base \/ head[p] # c.base[p]

\* What a run says of one capture.
Faithful(c) ==
  /\ \A p \in c.known \cap DOMAIN c.patch : c.content[p] \in {c.patch[p].after, Unread}
  /\ c.known \cap DOMAIN c.patch # {} =>
       \A p \in c.known \ DOMAIN c.patch : c.content[p] \in {c.base[p], Unread}

Early == {"head", "index", "raw", "patch"}
WhileReading == {"changed", "siblings"}

CaptureOK(c) ==
  /\ c.at \in Early => Untouched(c)
  /\ c.at \in WhileReading => Pinned(c) /\ (~ restored => Steady(c))
  /\ c.at = "captured" /\ ~ restored => Faithful(c)

Past == \A p \in Files : tree[p] \in past[p]

CaptureIInv == CaptureTypeOK /\ Past /\ \A r \in Runs : CaptureOK(cap[r])

LEMMA Bounds == Contents \subseteq Int /\ Absent \in Contents /\ 1 \in Contents /\ 2 \in Contents
                /\ \A n \in 0 .. MaxEdits : n < MaxEdits => 3 + n \in Contents
BY PathsAssumption DEF Contents, Absent

LEMMA BoundsAreNaturals == MaxEdits \in Nat /\ MaxCommits \in Nat
BY PathsAssumption

LEMMA CaptureInitIInv == CaptureInit => CaptureIInv
<1> SUFFICES ASSUME CaptureInit PROVE CaptureIInv OBVIOUS
<1>1. Uncaptured.known = {} /\ Uncaptured.at = "head" /\ Uncaptured.content = [p \in Files |-> Unread]
      /\ Uncaptured.base = [p \in Files |-> Absent]
  BY DEF Uncaptured
<1>2. \A r \in Runs : cap[r] = Uncaptured BY DEF CaptureInit
<1>3. CaptureTypeOK
  <2>1. head \in [Files -> Contents] /\ tree \in [Files -> Contents] /\ past \in [Files -> SUBSET Contents]
    BY Bounds DEF CaptureInit
  <2>2. DOMAIN cap = Runs BY DEF CaptureInit
  <2>3. edits \in 0 .. MaxEdits /\ commits \in 0 .. MaxCommits /\ restored \in BOOLEAN
    <3>1. edits = 0 /\ commits = 0 /\ restored = FALSE BY DEF CaptureInit
    <3>2. edits \in 0 .. MaxEdits /\ commits \in 0 .. MaxCommits BY <3>1, BoundsAreNaturals
    <3>3. restored \in BOOLEAN BY <3>1
    <3> QED BY <3>2, <3>3
  <2> QED BY <1>1, <1>2, <2>1, <2>2, <2>3, Bounds DEF CaptureTypeOK
<1>4. Past BY DEF CaptureInit, Past
<1>5. CaptureOK(Uncaptured)
  BY <1>1 DEF CaptureOK, Untouched, Early, WhileReading
<1> QED BY <1>2, <1>3, <1>4, <1>5 DEF CaptureIInv

(***************************************************************************)
(* What else happens in the repository.                                    *)
(***************************************************************************)
LEMMA EditKeeps ==
  ASSUME CaptureIInv, NEW p \in Files, NEW value \in {Absent, head[p], 3 + edits}, Edit(p, value) PROVE CaptureIInv'
<1>1. value \in Contents BY Bounds DEF CaptureIInv, CaptureTypeOK, Edit
<1>2. tree' = [tree EXCEPT ![p] = value] /\ past' = [past EXCEPT ![p] = @ \union {value}]
      /\ head' = head /\ cap' = cap /\ commits' = commits
      /\ restored' = (restored \/ value \in past[p])
  BY DEF Edit
<1>3. CaptureTypeOK'
  <2>1. edits' \in 0 .. MaxEdits BY BoundsAreNaturals DEF CaptureIInv, CaptureTypeOK, Edit
  <2>2. tree' \in [Files -> Contents] /\ past' \in [Files -> SUBSET Contents]
    BY <1>1, <1>2 DEF CaptureIInv, CaptureTypeOK
  <2>3. restored' \in BOOLEAN BY <1>2
  <2> QED BY <1>2, <2>1, <2>2, <2>3 DEF CaptureIInv, CaptureTypeOK
<1>4. Past' BY <1>2 DEF CaptureIInv, CaptureTypeOK, Past
<1>5. ASSUME NEW r \in Runs PROVE CaptureOK(cap[r])'
  <2> DEFINE c == cap[r]
  <2>0. c.known \subseteq Files /\ CaptureOK(c) BY DEF CaptureIInv, CaptureTypeOK
  <2>1. ASSUME Pinned(c) PROVE Pinned(c)'
    <3>1. \A q \in c.known : past[q] \subseteq past'[q] BY <1>2, <2>0 DEF CaptureIInv, CaptureTypeOK
    <3> QED BY <1>2, <2>1, <3>1 DEF Pinned, Then
  <2>2. ASSUME Pinned(c), Steady(c), ~ restored' PROVE Steady(c)'
    <3>1. Then(c, p)' = Then(c, p) /\ \A q \in c.known : Then(c, q)' = Then(c, q) BY <1>2 DEF Then
    <3>2. p \in c.known => value # Then(c, p) BY <1>2, <2>2 DEF Pinned
    <3>3. tree'[p] = value /\ \A q \in Files \ {p} : tree'[q] = tree[q] BY <1>2 DEF CaptureIInv, CaptureTypeOK
    <3> QED BY <1>2, <2>0, <2>2, <3>1, <3>2, <3>3 DEF Steady
  <2>3. Untouched(c)' = Untouched(c) /\ Faithful(c)' = Faithful(c) BY <1>2 DEF Untouched, Faithful
  <2>4. restored => restored' BY <1>2
  <2> QED BY <1>2, <2>0, <2>1, <2>2, <2>3, <2>4 DEF CaptureOK
<1> QED BY <1>3, <1>4, <1>5 DEF CaptureIInv

LEMMA CommitKeeps == ASSUME CaptureIInv, Commit PROVE CaptureIInv'
<1>1. head' = tree /\ tree' = tree /\ past' = past /\ cap' = cap /\ restored' = restored /\ edits' = edits
  BY DEF Commit
<1>2. CaptureTypeOK'
  <2>1. commits' \in 0 .. MaxCommits BY BoundsAreNaturals DEF CaptureIInv, CaptureTypeOK, Commit
  <2> QED BY <1>1, <2>1 DEF CaptureIInv, CaptureTypeOK
<1>3. Past' BY <1>1 DEF CaptureIInv, Past
<1>4. ASSUME NEW r \in Runs PROVE CaptureOK(cap[r])'
  <2> DEFINE c == cap[r]
  <2>0. CaptureOK(c) BY DEF CaptureIInv
  <2>1. Pinned(c)' = Pinned(c) /\ Untouched(c)' = Untouched(c) /\ Faithful(c)' = Faithful(c)
    BY <1>1 DEF Pinned, Then, Untouched, Faithful
  <2>2. ASSUME Pinned(c), Steady(c) PROVE Steady(c)'
    <3>1. \A q \in c.known : Then(c, q)' = Then(c, q) BY <1>1 DEF Then
    <3>2. ASSUME NEW q \in c.known, q \in DOMAIN c.patch, tree[q] = Then(c, q) PROVE head'[q] # c.base[q]
      BY <1>1, <2>2, <3>2 DEF Pinned, Then
    <3> QED BY <1>1, <2>2, <3>1, <3>2 DEF Steady
  <2> QED BY <1>1, <2>0, <2>1, <2>2 DEF CaptureOK
<1> QED BY <1>2, <1>3, <1>4 DEF CaptureIInv

(***************************************************************************)
(* A run changes only its own capture.                                     *)
(***************************************************************************)
Typed(c) ==
  /\ DOMAIN c = DOMAIN Uncaptured
  /\ c.known \subseteq Files /\ c.content \in [Files -> Contents \union {Unread}]
  /\ c.base \in [Files -> Contents]

LEMMA ProceedKeeps ==
  ASSUME CaptureIInv, NEW r \in Runs, NEW c, Proceed(r, c), Typed(c), CaptureOK(c) PROVE CaptureIInv'
<1>1. UNCHANGED tree_vars /\ cap' = [cap EXCEPT ![r] = c] BY DEF Proceed
<1>2. DOMAIN cap = Runs BY DEF CaptureIInv, CaptureTypeOK
<1>3. \A q \in Runs : cap'[q] = IF q = r THEN c ELSE cap[q] BY <1>1, <1>2
<1>4. Past' BY <1>1 DEF CaptureIInv, Past, tree_vars
<1>5. CaptureTypeOK'
  <2>1. DOMAIN cap' = Runs BY <1>1, <1>2
  <2>2. \A q \in Runs : Typed(cap'[q]) BY <1>3 DEF CaptureIInv, CaptureTypeOK, Typed
  <2> QED BY <1>1, <2>1, <2>2 DEF CaptureIInv, CaptureTypeOK, Typed, tree_vars
<1>6. ASSUME NEW q \in Runs PROVE CaptureOK(cap[q])'
  <2>1. CaptureOK(cap'[q]) BY <1>3 DEF CaptureIInv
  <2> QED BY <1>1, <2>1 DEF CaptureOK, Untouched, Pinned, Steady, Then, Faithful, tree_vars
<1> QED BY <1>4, <1>5, <1>6 DEF CaptureIInv

\* The fields of a capture.
LEMMA Fields ==
  ASSUME CaptureIInv, NEW r \in Runs
  PROVE  /\ DOMAIN cap[r] = {"at", "headSha", "known", "changes", "patch", "base", "todo", "content"}
         /\ Typed(cap[r]) /\ CaptureOK(cap[r])
BY DEF CaptureIInv, CaptureTypeOK, Typed, Uncaptured

LEMMA ReadHeadKeeps == ASSUME CaptureIInv, NEW r \in Runs, ReadHead(r) PROVE CaptureIInv'
<1> DEFINE c == cap[r]
           d == [c EXCEPT !.at = "index", !.headSha = commits]
<1>1. Proceed(r, d) /\ c.at = "head" BY DEF ReadHead
<1>2. d.at = "index" /\ d.known = c.known /\ d.content = c.content /\ d.base = c.base /\ DOMAIN d = DOMAIN c
  BY Fields
<1>3. Typed(d) BY <1>2, Fields DEF Typed
<1>4. CaptureOK(d) BY <1>1, <1>2, Fields DEF CaptureOK, Untouched, Early, WhileReading
<1> QED BY <1>1, <1>3, <1>4, ProceedKeeps

LEMMA MarkIntentToAddKeeps == ASSUME CaptureIInv, NEW r \in Runs, MarkIntentToAdd(r) PROVE CaptureIInv'
<1> DEFINE c == cap[r]
           d == [c EXCEPT !.at = "raw", !.known = {p \in Files : head[p] # Absent \/ tree[p] # Absent}]
<1>1. Proceed(r, d) /\ c.at = "index" BY DEF MarkIntentToAdd
<1>2. d.at = "raw" /\ d.known \subseteq Files /\ d.content = c.content /\ d.base = c.base /\ DOMAIN d = DOMAIN c
  BY Fields
<1>3. Typed(d) BY <1>2, Fields DEF Typed
<1>4. CaptureOK(d) BY <1>1, <1>2, Fields DEF CaptureOK, Untouched, Early, WhileReading
<1> QED BY <1>1, <1>3, <1>4, ProceedKeeps

LEMMA RawDiffKeeps == ASSUME CaptureIInv, NEW r \in Runs, RawDiff(r) PROVE CaptureIInv'
<1> DEFINE c == cap[r]
           d == [c EXCEPT !.at = "patch", !.changes = Changed(c.known),
                 !.todo = Listed({p \in Changed(c.known) : Shown(p, c.known) # Absent})]
<1>1. Proceed(r, d) /\ c.at = "raw" BY DEF RawDiff
<1>2. d.at = "patch" /\ d.known = c.known /\ d.content = c.content /\ d.base = c.base /\ DOMAIN d = DOMAIN c
  BY Fields
<1>3. Typed(d) BY <1>2, Fields DEF Typed
<1>4. CaptureOK(d) BY <1>1, <1>2, Fields DEF CaptureOK, Untouched, Early, WhileReading
<1> QED BY <1>1, <1>3, <1>4, ProceedKeeps

\* The patch pins the tree as it is, and nothing has been read yet.
LEMMA PatchDiffKeeps == ASSUME CaptureIInv, NEW r \in Runs, PatchDiff(r) PROVE CaptureIInv'
<1> DEFINE c == cap[r]
           patch == Patch(c.known)
           d == [c EXCEPT !.at = IF Matched(c.changes, patch) THEN "changed" ELSE "refused",
                 !.patch = patch, !.base = head]
<1>1. Proceed(r, d) /\ c.at = "patch" BY DEF PatchDiff
<1>2. /\ d.at \in {"changed", "refused"} /\ d.patch = patch /\ d.base = head
      /\ d.known = c.known /\ d.content = c.content /\ DOMAIN d = DOMAIN c
  BY Fields
<1>3. Typed(d) BY <1>2, Fields DEF Typed, CaptureIInv, CaptureTypeOK
<1>4. c.known \subseteq Files /\ Untouched(c) BY <1>1, Fields DEF Typed, CaptureOK, Early
<1>5. /\ DOMAIN patch = {p \in Files : head[p] # Shown(p, c.known)}
      /\ \A p \in DOMAIN patch : patch[p].before = head[p] /\ patch[p].after = Shown(p, c.known)
  BY DEF Patch, Changed
<1>6. \A p \in c.known : Then(d, p) = tree[p]
  BY <1>2, <1>4, <1>5 DEF Then, Shown
<1>7. Pinned(d)
  BY <1>2, <1>4, <1>5, <1>6 DEF Pinned, Past, CaptureIInv, Shown
<1>8. Steady(d)
  <2>1. \A p \in d.known : d.content[p] = Unread BY <1>2, <1>4 DEF Untouched
  <2> QED BY <1>2, <2>1 DEF Steady
<1>9. CaptureOK(d) BY <1>2, <1>7, <1>8 DEF CaptureOK, Early, WhileReading
<1> QED BY <1>1, <1>3, <1>9, ProceedKeeps

LEMMA CaptureFileKeeps == ASSUME CaptureIInv, NEW r \in Runs, CaptureFile(r) PROVE CaptureIInv'
<1> DEFINE c == cap[r]
           p == Head(c.todo)
           value == IF c.content[p] = Unread /\ tree[p] # Absent THEN tree[p] ELSE c.content[p]
           d == [c EXCEPT !.todo = Tail(@), !.content[p] = value]
<1>1. Proceed(r, d) /\ c.at \in WhileReading BY DEF CaptureFile, WhileReading
<1>2. /\ d.at = c.at /\ d.patch = c.patch /\ d.base = c.base /\ d.known = c.known /\ DOMAIN d = DOMAIN c
      /\ d.content = [c.content EXCEPT ![p] = value]
  BY Fields
<1>3. Typed(c) /\ Pinned(c) /\ (~ restored => Steady(c)) BY <1>1, Fields DEF CaptureOK
<1>4. \A q \in Files : d.content[q] = IF q = p THEN value ELSE c.content[q]
  BY <1>2, <1>3 DEF Typed
<1>5. Typed(d)
  <2>1. p \in Files => value \in Contents \union {Unread} BY <1>3 DEF Typed, CaptureIInv, CaptureTypeOK
  <2>2. d.content \in [Files -> Contents \union {Unread}]
    <3>1. c.content \in [Files -> Contents \union {Unread}] BY <1>3 DEF Typed
    <3>2. d.content = [q \in Files |-> IF q = p THEN value ELSE c.content[q]] BY <1>2, <3>1
    <3>3. \A q \in Files : (IF q = p THEN value ELSE c.content[q]) \in Contents \union {Unread} BY <2>1, <3>1
    <3> HIDE DEF value
    <3> QED BY <3>2, <3>3
  <2> QED BY <1>2, <1>3, <2>2 DEF Typed
<1>6. Pinned(d) BY <1>2, <1>3 DEF Pinned, Then
<1>7. ASSUME ~ restored PROVE Steady(d)
  <2>1. ASSUME NEW q \in c.known, tree[q] = Then(c, q) PROVE d.content[q] \in {Then(c, q), Unread}
    <3>1. q \in Files /\ c.content[q] \in {Then(c, q), Unread} BY <1>3, <1>7, <2>1 DEF Typed, Steady
    <3> QED BY <1>4, <2>1, <3>1
  <2>2. \A q \in c.known : Then(d, q) = Then(c, q) BY <1>2 DEF Then
  <2> QED BY <1>2, <1>3, <1>7, <2>1, <2>2 DEF Steady
<1>8. CaptureOK(d) BY <1>1, <1>2, <1>6, <1>7 DEF CaptureOK, Early, WhileReading
<1> QED BY <1>1, <1>5, <1>8, ProceedKeeps

LEMMA ListSiblingsKeeps == ASSUME CaptureIInv, NEW r \in Runs, ListSiblings(r) PROVE CaptureIInv'
<1> DEFINE c == cap[r]
           d == [c EXCEPT !.at = "siblings",
                 !.todo = IF c.changes = {} THEN <<>> ELSE Listed({p \in Files : tree[p] # Absent})]
<1>1. Proceed(r, d) /\ c.at \in WhileReading BY DEF ListSiblings, WhileReading
<1>2. /\ d.at = "siblings" /\ d.patch = c.patch /\ d.base = c.base /\ d.known = c.known /\ DOMAIN d = DOMAIN c
      /\ d.content = c.content
  BY Fields
<1>3. Typed(c) /\ Pinned(c) /\ (~ restored => Steady(c)) BY <1>1, Fields DEF CaptureOK
<1>4. Typed(d) BY <1>2, <1>3 DEF Typed
<1>5. Pinned(d) BY <1>2, <1>3 DEF Pinned, Then
<1>6. ~ restored => Steady(d)
  <2>1. \A q \in c.known : Then(d, q) = Then(c, q) BY <1>2 DEF Then
  <2> QED BY <1>2, <1>3, <2>1 DEF Steady
<1>7. CaptureOK(d) BY <1>2, <1>5, <1>6 DEF CaptureOK, Early, WhileReading
<1> QED BY <1>1, <1>4, <1>7, ProceedKeeps

\* A patch that is the same again says that HEAD and the tree are where they were.
LEMMA SamePatchSameTree ==
  ASSUME NEW c, Typed(c), Pinned(c), Steady(c), Patch(c.known) = c.patch PROVE Faithful(c)
<1>1. /\ DOMAIN c.patch = {p \in Files : head[p] # Shown(p, c.known)}
      /\ \A p \in DOMAIN c.patch : c.patch[p].before = head[p] /\ c.patch[p].after = Shown(p, c.known)
  <2>1. /\ DOMAIN Patch(c.known) = {p \in Files : head[p] # Shown(p, c.known)}
        /\ \A p \in DOMAIN Patch(c.known) :
             Patch(c.known)[p].before = head[p] /\ Patch(c.known)[p].after = Shown(p, c.known)
    BY DEF Patch, Changed
  <2> QED BY <2>1
<1>2. c.known \subseteq Files BY DEF Typed
<1>3. ASSUME NEW p \in c.known \cap DOMAIN c.patch
      PROVE  c.content[p] \in {c.patch[p].after, Unread} /\ head = c.base
  <2>1. tree[p] = Then(c, p) /\ Then(c, p) = c.patch[p].after BY <1>1, <1>3 DEF Then, Shown
  <2>2. head[p] = c.base[p] BY <1>1, <1>3 DEF Pinned
  <2> QED BY <1>3, <2>1, <2>2 DEF Steady
<1>4. ASSUME head = c.base, NEW p \in c.known \ DOMAIN c.patch PROVE c.content[p] \in {c.base[p], Unread}
  <2>1. tree[p] = head[p] BY <1>1, <1>2, <1>4 DEF Shown
  <2>2. Then(c, p) = c.base[p] BY <1>4 DEF Then
  <2> QED BY <1>4, <2>1, <2>2 DEF Steady
<1> QED BY <1>3, <1>4 DEF Faithful

LEMMA CompareKeeps == ASSUME CaptureIInv, NEW r \in Runs, Compare(r) PROVE CaptureIInv'
<1> DEFINE c == cap[r]
           d == [c EXCEPT !.at = IF Unmoved(r) THEN "captured" ELSE "refused"]
<1>1. Proceed(r, d) /\ c.at \in WhileReading BY DEF Compare, WhileReading
<1>2. /\ d.at = (IF Unmoved(r) THEN "captured" ELSE "refused") /\ d.patch = c.patch /\ d.base = c.base
      /\ d.known = c.known /\ d.content = c.content /\ DOMAIN d = DOMAIN c
  BY Fields
<1>3. Typed(c) /\ Pinned(c) /\ (~ restored => Steady(c)) BY <1>1, Fields DEF CaptureOK
<1>4. Typed(d) BY <1>2, <1>3 DEF Typed
<1>5. Unmoved(r) /\ ~ restored => Faithful(c) BY <1>3, SamePatchSameTree DEF Unmoved
<1>6. Faithful(d) = Faithful(c) BY <1>2 DEF Faithful
<1>7. CaptureOK(d) BY <1>2, <1>5, <1>6 DEF CaptureOK, Early, WhileReading
<1> QED BY <1>1, <1>4, <1>7, ProceedKeeps

(***************************************************************************)
(* The theorems.                                                           *)
(***************************************************************************)
\* The inductive invariant: what a capture holds is what the patch says as long as the tree is where it
\* was when the patch was made.
THEOREM CaptureInvariance == CaptureSpec => []CaptureIInv
<1>1. CaptureIInv /\ [CaptureNext]_capture_vars => CaptureIInv'
  <2> SUFFICES ASSUME CaptureIInv, [CaptureNext]_capture_vars PROVE CaptureIInv' OBVIOUS
  <2>1. CASE Repository BY <2>1, EditKeeps, CommitKeeps DEF Repository
  <2>2. ASSUME NEW r \in Runs, Capture(r) PROVE CaptureIInv'
    BY <2>2, ReadHeadKeeps, MarkIntentToAddKeeps, RawDiffKeeps, PatchDiffKeeps, CaptureFileKeeps,
       ListSiblingsKeeps, CompareKeeps DEF Capture
  <2>3. CASE UNCHANGED capture_vars
    BY <2>3 DEF CaptureIInv, CaptureTypeOK, Past, CaptureOK, Untouched, Pinned, Steady, Then, Faithful, Patch, capture_vars
  <2> QED BY <2>1, <2>2, <2>3 DEF CaptureNext
<1> QED BY <1>1, CaptureInitIInv, PTL DEF CaptureSpec

\* Contents, histories and captures are what they are said to be (resolveWorkingTarget).
THEOREM CaptureTypeCorrect == CaptureSpec => []CaptureTypeOK
<1>1. CaptureIInv => CaptureTypeOK BY DEF CaptureIInv
<1> QED BY <1>1, CaptureInvariance, PTL

\* Whatever is edited and committed while a working tree is captured: a capture that was not refused holds of
\* every changed file what the patch says, and of its neighbours what the commit says
\* (resolveWorkingTarget, "so stop instead of publishing").
THEOREM CaptureIsDiffed == CaptureSpec => []CapturedIsDiffed
<1>1. CaptureIInv => CapturedIsDiffed
  <2> SUFFICES ASSUME CaptureIInv, NEW r \in Runs, cap[r].at = "captured", ~ restored PROVE Faithful(cap[r])
    BY DEF CapturedIsDiffed, Faithful
  <2> QED BY DEF CaptureIInv, CaptureOK
<1> QED BY <1>1, CaptureInvariance, PTL

(***************************************************************************)
(* The merge request.                                                      *)
(***************************************************************************)
\* Each push is collected at most once.
VersionsFit == Len(versions) + (IF pending THEN 1 ELSE 0) <= pushes + 1

\* While an operation runs there is no answer, and what it is to have seen is remembered.
Watched == call # Idle =>
  /\ answer = Idle /\ OpenHeads(mr) \subseteq seen.heads /\ Newest(versions) \in seen.newest
  /\ seen.threads \subseteq ToSet(threads)

\* The first version read was the newest while the first page was.
FirstSeen(c) ==
  /\ c.items # <<>> => c.items[1].id \in seen.newest
  /\ c.status = "reading" => (c.page = 1 <=> c.items = <<>>)

Resolving == call.op = "resolve" => FirstSeen(call.coll)
Revising == call.op = "revision" =>
  /\ FirstSeen(call.coll) /\ call.coll.status = "reading"
  /\ call.head # None => call.head \in seen.heads \/ seen.unnamed

\* Unless one was deleted, the pages read are the discussions in their order from the first on.
Begins(items, list) == Len(items) <= Len(list) /\ \A i \in 1 .. Len(items) : items[i] = list[i]
SoFar(c) == Len(c.items) = (c.page - 1) * PageSize /\ Begins(c.items, threads)
ListingSoFar == call.op = "listing" =>
  /\ call.coll.status = "reading" /\ ~ call.coll.capped
  /\ ~ seen.deleted => SoFar(call.coll)

Distinct(list) == \A i, j \in DOMAIN list : list[i] = list[j] => i = j
KeptByGitLab == VersionsFit /\ Distinct(threads)
Operation == Watched /\ Resolving /\ Revising /\ ListingSoFar
IInv == TypeOK /\ KeptByGitLab /\ Operation /\ RevisionHeld /\ ListingIsWhole

(***************************************************************************)
(* Pages.                                                                  *)
(***************************************************************************)
LEMMA Multiples ==
  ASSUME NEW p \in Nat \ {0}
  PROVE  /\ (p - 1) * PageSize \in Nat /\ p * PageSize = (p - 1) * PageSize + PageSize
         /\ p = 1 => (p - 1) * PageSize = 0
         /\ ((p + 1) - 1) * PageSize = p * PageSize
BY SizesAssumption

\* A page holds the items of the list at its place.
LEMMA PageIs ==
  ASSUME NEW S, NEW list \in Seq(S), NEW p \in Nat \ {0}
  PROVE  /\ PageOf(list, p) \in Seq(S)
         /\ Len(PageOf(list, p)) =
              IF Len(list) <= (p - 1) * PageSize THEN 0
              ELSE IF p * PageSize < Len(list) THEN PageSize ELSE Len(list) - (p - 1) * PageSize
         /\ \A i \in 1 .. Len(PageOf(list, p)) : PageOf(list, p)[i] = list[(p - 1) * PageSize + i]
<1>1. PICK m : m = (p - 1) * PageSize OBVIOUS
<1>2. m \in Nat /\ p * PageSize = m + PageSize BY <1>1, Multiples
<1>3. PICK n : n = IF m + PageSize < Len(list) THEN m + PageSize ELSE Len(list) OBVIOUS
<1>4. n \in Nat /\ n <= Len(list) BY <1>2, <1>3, SizesAssumption
<1>5. PageOf(list, p) = SubSeq(list, m + 1, n) BY <1>1, <1>2, <1>3 DEF PageOf
<1>6. \A i \in m + 1 .. n : list[i] \in S BY <1>2, <1>4
<1>7. /\ PageOf(list, p) \in Seq(S)
      /\ Len(PageOf(list, p)) = IF m + 1 <= n THEN n - (m + 1) + 1 ELSE 0
      /\ \A i \in 1 .. n - (m + 1) + 1 : PageOf(list, p)[i] = list[(m + 1) + i - 1]
  BY <1>2, <1>4, <1>5, <1>6, SubSeqProperties
<1>8. Len(PageOf(list, p)) =
        IF Len(list) <= m THEN 0 ELSE IF m + PageSize < Len(list) THEN PageSize ELSE Len(list) - m
  BY <1>2, <1>3, <1>4, <1>7, SizesAssumption
<1>9. \A i \in 1 .. Len(PageOf(list, p)) : PageOf(list, p)[i] = list[m + i]
  BY <1>2, <1>4, <1>7
<1> QED BY <1>1, <1>2, <1>7, <1>8, <1>9

\* What a page makes of a collection: it goes on, ends, or ends at the ceiling.
Grown(S, c, got, ceiling, all, r) ==
  /\ r \in Collections(S) /\ all \in Seq(S) /\ Len(all) = Len(c.items) + Len(got)
  /\ \/ /\ Len(all) > ceiling /\ r.items = SubSeq(all, 1, ceiling)
        /\ r.status = "ended" /\ r.capped = TRUE
     \/ /\ Len(all) <= ceiling /\ Len(got) < PageSize /\ r.items = all
        /\ r.status = "ended" /\ r.capped = c.capped
     \/ /\ Len(all) <= ceiling /\ Len(got) >= PageSize /\ r.items = all
        /\ r.page = c.page + 1 /\ r.status = c.status /\ r.capped = c.capped

LEMMA AfterPageIs ==
  ASSUME NEW S, NEW c \in Collections(S), NEW got \in Seq(S), NEW ceiling \in Nat \ {0}
  PROVE  Grown(S, c, got, ceiling, c.items \o got, AfterPage(c, got, ceiling))
<1> SUFFICES ASSUME NEW all, all = c.items \o got, NEW r, r = AfterPage(c, got, ceiling)
             PROVE  Grown(S, c, got, ceiling, all, r)
  OBVIOUS
<1> USE DEF Grown
<1>1. c.items \in Seq(S) /\ all \in Seq(S) /\ Len(all) = Len(c.items) + Len(got) BY DEF Collections
<1>2. CASE Len(all) > ceiling
  <2>1. PICK cut : cut = SubSeq(all, 1, ceiling) OBVIOUS
  <2>2. cut \in Seq(S) BY <1>1, <1>2, <2>1, SubSeqProperties
  <2>3. r = [c EXCEPT !.items = cut, !.status = "ended", !.capped = TRUE]
    BY <1>2, <2>1 DEF AfterPage
  <2>4. r \in Collections(S) BY <2>2, <2>3 DEF Collections
  <2>5. r.items = cut /\ r.status = "ended" /\ r.capped = TRUE BY <2>3 DEF Collections
  <2> QED BY <1>1, <1>2, <2>1, <2>4, <2>5
<1>3. CASE Len(all) <= ceiling /\ Len(got) < PageSize
  <2>1. r = [c EXCEPT !.items = all, !.status = "ended"]
    BY <1>1, <1>3 DEF AfterPage
  <2>2. r \in Collections(S) BY <1>1, <2>1 DEF Collections
  <2>3. r.items = all /\ r.status = "ended" /\ r.capped = c.capped BY <2>1 DEF Collections
  <2> QED BY <1>1, <1>3, <2>2, <2>3
<1>4. CASE Len(all) <= ceiling /\ Len(got) >= PageSize
  <2>1. PICK next \in Nat \ {0} : next = c.page + 1 BY DEF Collections
  <2>2. r = [c EXCEPT !.items = all, !.page = next]
    BY <1>1, <1>4, <2>1, SizesAssumption DEF AfterPage
  <2>3. r \in Collections(S) BY <1>1, <2>2 DEF Collections
  <2>4. r.items = all /\ r.page = next /\ r.status = c.status /\ r.capped = c.capped
    BY <2>2 DEF Collections
  <2> QED BY <1>1, <1>4, <2>1, <2>3, <2>4, Zenon
<1>5. Len(all) > ceiling \/ (Len(all) <= ceiling /\ (Len(got) < PageSize \/ Len(got) >= PageSize))
  BY <1>1, SizesAssumption
<1> QED BY <1>2, <1>3, <1>4, <1>5

LEMMA PageTyped ==
  ASSUME NEW S, NEW c \in Collections(S), NEW list \in Seq(S), NEW ceiling \in Nat \ {0}
  PROVE  AfterPage(c, PageOf(list, c.page), ceiling) \in Collections(S)
<1>1. PICK p \in Nat \ {0} : p = c.page BY DEF Collections
<1>2. PICK got : got = PageOf(list, p) OBVIOUS
<1>3. got \in Seq(S) BY <1>2, PageIs
<1>4. AfterPage(c, got, ceiling) \in Collections(S) BY <1>3, AfterPageIs DEF Grown
<1> QED BY <1>1, <1>2, <1>4

\* A collection of versions that goes on has seen the newest; one that ends too.
LEMMA FirstSeenGoesOn ==
  ASSUME NEW c \in Collections(Versions), c.status = "reading", FirstSeen(c), versions \in Seq(Versions),
         Newest(versions) \in seen.newest, NEW ceiling \in Nat \ {0}
  PROVE  FirstSeen(AfterPage(c, PageOf(versions, c.page), ceiling))
<1>1. PICK got : got = PageOf(versions, c.page) OBVIOUS
<1>2. PICK r : r = AfterPage(c, got, ceiling) OBVIOUS
<1>3. c.page \in Nat \ {0} /\ c.items \in Seq(Versions) BY DEF Collections
<1>4. got \in Seq(Versions) /\ \A i \in 1 .. Len(got) : got[i] = versions[(c.page - 1) * PageSize + i]
  <2>1. PICK p \in Nat \ {0} : p = c.page BY <1>3
  <2>2. PICK list \in Seq(Versions) : list = versions OBVIOUS
  <2>3. PageOf(list, p) \in Seq(Versions)
        /\ \A i \in 1 .. Len(PageOf(list, p)) : PageOf(list, p)[i] = list[(p - 1) * PageSize + i]
    BY PageIs
  <2> QED BY <1>1, <2>1, <2>2, <2>3
<1>5. PICK all : all = c.items \o got OBVIOUS
<1>6. Grown(Versions, c, got, ceiling, all, r) BY <1>2, <1>4, <1>5, AfterPageIs
<1>7. all # <<>> => r.items[1] = all[1]
  <2>1. CASE r.items = all BY <2>1
  <2>2. CASE r.items = SubSeq(all, 1, ceiling) /\ Len(all) > ceiling
    BY <1>6, <2>2, SubSeqProperties DEF Grown
  <2> QED BY <1>6, <2>1, <2>2 DEF Grown
<1>8. all # <<>> => all[1].id \in seen.newest
  <2>1. CASE c.items # <<>>
    <3>1. all[1] = c.items[1] BY <1>3, <1>4, <1>5, <2>1
    <3> QED BY <2>1, <3>1 DEF FirstSeen
  <2>2. CASE c.items = <<>> /\ got # <<>>
    <3>1. c.page = 1 BY <2>2 DEF FirstSeen
    <3>2. all[1] = got[1] /\ got[1] = versions[1] /\ versions # <<>>
      <4>1. Len(got) >= 1 /\ (c.page - 1) * PageSize = 0 BY <1>4, <2>2, <3>1, Multiples
      <4>2. got[1] = versions[1] BY <1>4, <4>1
      <4>3. all[1] = got[1] BY <1>3, <1>4, <1>5, <2>2
      <4>4. versions # <<>> BY <1>1, <1>3, <4>1, PageIs, SizesAssumption
      <4> QED BY <4>2, <4>3, <4>4
    <3> QED BY <3>2 DEF Newest
  <2> QED BY <1>3, <1>4, <1>5, <2>1, <2>2
<1>9. r.items # <<>> => all # <<>>
  <2>1. SUFFICES ASSUME all = <<>> PROVE r.items = <<>> OBVIOUS
  <2>2. ~ (Len(all) > ceiling) BY <2>1
  <2> QED BY <1>6, <2>1, <2>2 DEF Grown
<1>10. r.status = "reading" => r.page # 1 /\ r.items # <<>>
  BY <1>3, <1>4, <1>6, SizesAssumption DEF Grown
<1> QED BY <1>1, <1>2, <1>7, <1>8, <1>9, <1>10 DEF FirstSeen

\* A listing that nothing was deleted from is the beginning of the discussions, and when it ends
\* below the ceiling it is all of them.
LEMMA ListingGoesOn ==
  ASSUME NEW c \in Collections(Threads), threads \in Seq(Threads), SoFar(c), c.status = "reading", NEW ceiling \in Nat \ {0}, NEW got, got = PageOf(threads, c.page),
         NEW r, r = AfterPage(c, got, ceiling), c.capped = FALSE
  PROVE  /\ Begins(r.items, threads) /\ Len(r.items) <= ceiling
         /\ r.status # "ended" => SoFar(r)
         /\ r.status = "ended" /\ r.capped # TRUE => Len(r.items) = Len(threads)
<1>1. c.page \in Nat \ {0} /\ c.items \in Seq(Threads) /\ r.items \in Seq(Threads)
  <2>1. got \in Seq(Threads) BY PageIs DEF Collections
  <2>2. r \in Collections(Threads) BY <2>1, AfterPageIs DEF Grown
  <2> QED BY <2>2 DEF Collections
<1>2. PICK p \in Nat \ {0}, items \in Seq(Threads), list \in Seq(Threads) :
        p = c.page /\ items = c.items /\ list = threads
  BY <1>1
<1>0. PICK m \in Nat : m = (p - 1) * PageSize /\ p * PageSize = m + PageSize /\ ((p + 1) - 1) * PageSize = m + PageSize
  BY Multiples
<1>3. /\ got \in Seq(Threads)
      /\ Len(got) = IF Len(threads) <= m THEN 0 ELSE IF m + PageSize < Len(threads) THEN PageSize ELSE Len(threads) - m
      /\ \A i \in 1 .. Len(got) : got[i] = threads[m + i]
  <2>1. got = PageOf(list, p) BY <1>2
  <2>2. /\ PageOf(list, p) \in Seq(Threads)
        /\ Len(PageOf(list, p)) =
             IF Len(list) <= (p - 1) * PageSize THEN 0
             ELSE IF p * PageSize < Len(list) THEN PageSize ELSE Len(list) - (p - 1) * PageSize
        /\ \A i \in 1 .. Len(PageOf(list, p)) : PageOf(list, p)[i] = list[(p - 1) * PageSize + i]
    BY PageIs
  <2> QED BY <1>0, <1>2, <2>1, <2>2
<1>4. PICK all : all = c.items \o got OBVIOUS
<1>5. Grown(Threads, c, got, ceiling, all, r) BY <1>3, <1>4, AfterPageIs
<1>6. Len(c.items) = m /\ m <= Len(threads) /\ Len(all) = m + Len(got) /\ all \in Seq(Threads)
  BY <1>0, <1>1, <1>2, <1>3, <1>4, <1>5 DEF SoFar, Begins, Grown
<1>7. Len(all) <= Len(threads) /\ (Len(got) < PageSize => Len(all) = Len(threads))
  <2>1. PICK l \in Nat, g \in Nat : l = Len(threads) /\ g = Len(got) BY <1>3
  <2>2. Len(all) = m + g /\ m <= l BY <1>6, <2>1
  <2>3. g = IF l <= m THEN 0 ELSE IF m + PageSize < l THEN PageSize ELSE l - m BY <1>3, <2>1
  <2> QED BY <2>1, <2>2, <2>3, SizesAssumption
<1>8. \A i \in 1 .. Len(all) : all[i] = threads[i]
  <2>0. \A i \in 1 .. Len(items) + Len(got) :
          all[i] = IF i <= Len(items) THEN items[i] ELSE got[i - Len(items)]
    <3>1. all = items \o got BY <1>2, <1>4
    <3> QED BY <1>3, <3>1, ConcatProperties
  <2> SUFFICES ASSUME NEW i \in 1 .. Len(all) PROVE all[i] = threads[i] OBVIOUS
  <2>1. CASE i <= m
    <3>1. all[i] = c.items[i] BY <1>2, <1>6, <2>0, <2>1
    <3>2. c.items[i] = threads[i] BY <1>6, <2>1 DEF SoFar, Begins
    <3> QED BY <3>1, <3>2
  <2>2. CASE i > m
    <3>1. all[i] = got[i - m] BY <1>2, <1>3, <1>6, <2>0, <2>2
    <3>2. i - m \in 1 .. Len(got) /\ m + (i - m) = i BY <1>3, <1>6, <2>2
    <3> QED BY <1>3, <3>1, <3>2
  <2> QED BY <1>6, <2>1, <2>2
<1>9. Len(threads) \in Nat /\ Len(all) \in Nat /\ PageSize \in Nat \ {0} BY <1>6, SizesAssumption
<1>10. CASE Len(all) > ceiling /\ r.items = SubSeq(all, 1, ceiling) /\ r.status = "ended" /\ r.capped = TRUE
  <2>1. Len(r.items) = ceiling /\ \A i \in 1 .. ceiling : r.items[i] = all[i]
    <3>1. \A i \in 1 .. ceiling : all[i] \in Threads BY <1>6, <1>10
    <3> QED BY <1>9, <1>10, <3>1, SubSeqProperties
  <2>2. Begins(r.items, threads) /\ Len(r.items) <= ceiling BY <1>7, <1>8, <1>9, <1>10, <2>1 DEF Begins
  <2> QED BY <1>10, <2>2
<1>11. CASE Len(all) <= ceiling /\ r.items = all /\ Len(got) < PageSize /\ r.status = "ended"
  BY <1>7, <1>8, <1>11 DEF Begins
<1>12. CASE Len(all) <= ceiling /\ r.items = all /\ r.page = c.page + 1 /\ Len(got) >= PageSize /\ r.status = c.status
            /\ r.capped = c.capped
  <2>1. Len(got) = PageSize BY <1>3, <1>9, <1>12
  <2>2. Len(r.items) = (r.page - 1) * PageSize BY <1>0, <1>2, <1>6, <1>12, <2>1
  <2>3. r.status # "ended" BY <1>12
  <2>4. Begins(r.items, threads) /\ Len(r.items) <= ceiling BY <1>7, <1>8, <1>12 DEF Begins
  <2> QED BY <2>2, <2>3, <2>4 DEF SoFar
<1> QED BY <1>5, <1>10, <1>11, <1>12 DEF Grown

(***************************************************************************)
(* The steps of GitLab.                                                    *)
(***************************************************************************)
Resolves == [op : {"resolve"}, at : {"project", "both"}, mr : {"unread", "read", "failed"},
             coll : Collections(Versions)]
Revisions == [op : {"revision"}, head : Heads \union {None}, coll : Collections(Versions)]
Listings == [op : {"listing"}, coll : Collections(Threads)]
Posts == [op : {"post"}, thread : Threads]
Known(c) == c = Idle \/ c \in Resolves \/ c \in Revisions \/ c \in Listings \/ c \in Posts
IdleOrKnown == Known(call)

ServiceType ==
  /\ mr \in [state : {"opened", "closed"}, sha : Heads, refs : Heads \union {None}]
  /\ versions \in Seq(Versions) /\ threads \in Seq(Threads) /\ pending \in BOOLEAN
  /\ pushes \in 0 .. MaxPushes

SeenType ==
  seen \in [heads : SUBSET Heads, newest : SUBSET (0 .. MaxPushes + 1), threads : SUBSET Threads,
            deleted : BOOLEAN, unnamed : BOOLEAN]

TargetType == target \in [head : Heads \union {None}, version : 0 .. MaxPushes + 1]

LEMMA TypeParts ==
  TypeOK <=> ServiceType /\ faults \in 0 .. MaxFaults /\ TargetType /\ SeenType /\ IdleOrKnown
BY DEF TypeOK, ServiceType, TargetType, SeenType, IdleOrKnown, Known, Resolves, Revisions, Listings, Posts

\* The same of any merge request, versions and discussions: said again of those of the next state.
LEMMA SeenNow ==
  ASSUME NEW m \in [state : {"opened", "closed"}, sha : Heads, refs : Heads \union {None}],
         NEW vs \in Seq(Versions), NEW ts \in Seq(Threads)
  PROVE  OpenHeads(m) \subseteq Heads /\ Newest(vs) \in 0 .. MaxPushes + 1 /\ ToSet(ts) \subseteq Threads
<1>1. MaxPushes \in Nat BY SizesAssumption
<1>2. OpenHeads(m) \subseteq Heads BY DEF OpenHeads
<1>3. Newest(vs) \in 0 .. MaxPushes + 1
  <2>1. CASE vs = <<>> BY <1>1, <2>1 DEF Newest
  <2>2. CASE vs # <<>>
    <3>1. vs[1] \in Versions BY <2>2
    <3> QED BY <1>1, <2>2, <3>1 DEF Newest, Versions
  <2> QED BY <2>1, <2>2
<1>4. ToSet(ts) \subseteq Threads BY DEF ToSet
<1> QED BY <1>2, <1>3, <1>4

\* What GitLab does while an operation runs is remembered, and an answer is forgotten with the next change.
LEMMA PassesKeeps ==
  ASSUME IInv, Passes, ServiceType', KeptByGitLab',
         Len(threads') >= Len(threads) => Begins(threads, threads')
  PROVE  IInv'
<1>1. ServiceType /\ SeenType /\ faults \in 0 .. MaxFaults /\ TargetType /\ IdleOrKnown /\ Operation
  BY TypeParts DEF IInv
<1>2. UNCHANGED <<faults, target, call>> BY DEF Passes
<1>3. OpenHeads(mr') \subseteq Heads /\ Newest(versions') \in 0 .. MaxPushes + 1 /\ ToSet(threads') \subseteq Threads
  BY SeenNow DEF ServiceType
<1>4. CASE call = Idle
  <2>1. seen' = Unseen /\ answer' = Idle BY <1>4 DEF Passes
  <2>2. SeenType' BY <2>1 DEF SeenType, Unseen
  <2>3. TypeOK' BY <1>1, <1>2, <2>2, Zenon 
    DEF TypeOK, ServiceType, SeenType, TargetType, IdleOrKnown, Known, Resolves, Revisions, Listings, Posts
  <2>4. Operation' BY <1>2, <1>4 DEF Operation, Watched, Resolving, Revising, ListingSoFar, Idle
  <2>5. RevisionHeld' /\ ListingIsWhole' BY <2>1 DEF RevisionHeld, ListingIsWhole, Idle, Revision
  <2> QED BY <2>3, <2>4, <2>5 DEF IInv
<1>5. CASE call # Idle
  <2>1. /\ seen' = [heads |-> seen.heads \union OpenHeads(mr'), newest |-> seen.newest \union {Newest(versions')},
                    threads |-> seen.threads \cap ToSet(threads'),
                    deleted |-> seen.deleted \/ Len(threads') < Len(threads),
                    unnamed |-> seen.unnamed]
        /\ UNCHANGED answer
    BY <1>5 DEF Passes
  <2>2. /\ seen'.heads = seen.heads \union OpenHeads(mr') /\ seen'.newest = seen.newest \union {Newest(versions')}
        /\ seen'.threads = seen.threads \cap ToSet(threads')
        /\ seen'.deleted = (seen.deleted \/ Len(threads') < Len(threads)) /\ seen'.unnamed = seen.unnamed
    BY <2>1
  <2>3. SeenType' BY <1>1, <1>3, <2>1 DEF SeenType
  <2>4. TypeOK' BY <1>1, <1>2, <2>3, Zenon 
    DEF TypeOK, ServiceType, SeenType, TargetType, IdleOrKnown, Known, Resolves, Revisions, Listings, Posts
  <2>5. answer = Idle BY <1>1, <1>5 DEF Operation, Watched
  <2>6. RevisionHeld' /\ ListingIsWhole' BY <2>1, <2>5 DEF RevisionHeld, ListingIsWhole, Idle, Revision
  <2>7. Watched' BY <2>1, <2>2, <2>5 DEF Watched
  <2>8. \A c : FirstSeen(c) => FirstSeen(c)' BY <2>2 DEF FirstSeen
  <2>9. Resolving' /\ Revising' BY <1>1, <1>2, <2>2, <2>8 DEF Operation, Resolving, Revising
  <2>10. ListingSoFar'
    <3> SUFFICES ASSUME call.op = "listing", ~ seen'.deleted
                 PROVE  SoFar(call.coll)'
      BY <1>1, <1>2 DEF Operation, ListingSoFar
    <3>1. ~ seen.deleted /\ ~ (Len(threads') < Len(threads)) BY <2>2
    <3>2. SoFar(call.coll) BY <1>1, <3>1 DEF Operation, ListingSoFar
    <3>3. Len(threads') \in Nat /\ Len(threads) \in Nat BY <1>1 DEF ServiceType
    <3>4. Begins(threads, threads') BY <3>1, <3>3
    <3>5. Begins(call.coll.items, threads') BY <3>2, <3>3, <3>4 DEF SoFar, Begins
    <3> QED BY <1>2, <3>2, <3>5 DEF SoFar, Begins
  <2> QED BY <2>4, <2>6, <2>7, <2>9, <2>10 DEF IInv, Operation
<1> QED BY <1>4, <1>5

LEMMA ThreadsUnmoved == ASSUME IInv, UNCHANGED threads PROVE Begins(threads, threads') /\ Distinct(threads)'
<1>1. threads \in Seq(Threads) /\ Distinct(threads) BY TypeParts DEF IInv, ServiceType, KeptByGitLab
<1> QED BY <1>1 DEF Begins

LEMMA PushKeeps == ASSUME IInv, NEW h \in Heads, Push(h) PROVE IInv'
<1>1. ServiceType /\ VersionsFit BY TypeParts DEF IInv, KeptByGitLab
<1>2. /\ mr' = [mr EXCEPT !.sha = h] /\ pending' = TRUE /\ pushes' = pushes + 1 /\ pushes < MaxPushes
      /\ UNCHANGED <<versions, threads>> /\ Passes
  BY DEF Push
<1>3. ServiceType'
  <2>1. pushes' \in 0 .. MaxPushes BY <1>1, <1>2, SizesAssumption DEF ServiceType
  <2>2. mr' \in [state : {"opened", "closed"}, sha : Heads, refs : Heads \union {None}]
    BY <1>1, <1>2 DEF ServiceType
  <2>3. pending' \in BOOLEAN BY <1>2
  <2> QED BY <1>1, <1>2, <2>1, <2>2, <2>3 DEF ServiceType
<1>4. VersionsFit'
  <2>1. Len(versions) \in Nat /\ pushes \in Nat BY <1>1 DEF ServiceType
  <2> QED BY <1>1, <1>2, <2>1 DEF VersionsFit
<1> QED BY <1>2, <1>3, <1>4, ThreadsUnmoved, PassesKeeps DEF KeptByGitLab

LEMMA CollectVersionKeeps == ASSUME IInv, NEW based \in BOOLEAN, CollectVersion(based) PROVE IInv'
<1>1. ServiceType /\ VersionsFit BY TypeParts DEF IInv, KeptByGitLab
<1> DEFINE v == [id |-> Len(versions) + 1, head |-> mr.sha, based |-> based]
<1>2. /\ pending = TRUE /\ pending' = FALSE /\ versions' = <<v>> \o versions
      /\ UNCHANGED <<mr, threads, pushes>> /\ Passes
  BY <1>1 DEF CollectVersion, ServiceType
<1>3. Len(versions) \in Nat /\ pushes \in 0 .. MaxPushes /\ MaxPushes \in Nat /\ versions \in Seq(Versions)
  BY <1>1, SizesAssumption DEF ServiceType
<1>4. Len(versions) + 1 <= pushes + 1 BY <1>1, <1>2 DEF VersionsFit
<1>5. v \in Versions
  <2>1. Len(versions) + 1 \in 1 .. MaxPushes + 1 BY <1>3, <1>4
  <2>2. mr.sha \in Heads BY <1>1 DEF ServiceType
  <2> QED BY <2>1, <2>2 DEF Versions
<1> HIDE DEF v
<1>6. versions' \in Seq(Versions) /\ Len(versions') = Len(versions) + 1
  <2>1. <<v>> \in Seq(Versions) /\ Len(<<v>>) = 1 BY <1>5
  <2>2. /\ <<v>> \o versions \in Seq(Versions) /\ Len(<<v>> \o versions) = Len(<<v>>) + Len(versions)
    BY <1>3, <2>1, ConcatProperties
  <2> QED BY <1>2, <1>3, <2>1, <2>2
<1>7. ServiceType'
  <2>1. pending' \in BOOLEAN BY <1>2
  <2> QED BY <1>1, <1>2, <1>6, <2>1 DEF ServiceType
<1>8. VersionsFit' BY <1>2, <1>3, <1>4, <1>6 DEF VersionsFit
<1> QED BY <1>2, <1>7, <1>8, ThreadsUnmoved, PassesKeeps DEF KeptByGitLab

LEMMA MoreOfGitLabKeeps == ASSUME IInv, PublishRefs \/ CloseOrReopen PROVE IInv'
<1>1. ServiceType /\ VersionsFit BY TypeParts DEF IInv, KeptByGitLab
<1>2. UNCHANGED <<versions, threads, pending, pushes>> /\ Passes BY DEF PublishRefs, CloseOrReopen
<1>3. mr' \in [state : {"opened", "closed"}, sha : Heads, refs : Heads \union {None}]
  BY <1>1 DEF ServiceType, PublishRefs, CloseOrReopen
<1>4. ServiceType' BY <1>1, <1>2, <1>3 DEF ServiceType
<1>5. VersionsFit' BY <1>1, <1>2 DEF VersionsFit
<1> QED BY <1>2, <1>4, <1>5, ThreadsUnmoved, PassesKeeps DEF KeptByGitLab

LEMMA AppendedOnce ==
  ASSUME NEW list \in Seq(Threads), Distinct(list), NEW t \in Threads, t \notin ToSet(list),
         NEW more, more = Append(list, t)
  PROVE  more \in Seq(Threads) /\ Distinct(more) /\ Begins(list, more)
<1>1. /\ more \in Seq(Threads) /\ Len(more) = Len(list) + 1
      /\ \A i \in 1 .. Len(list) : more[i] = list[i]
      /\ more[Len(list) + 1] = t
  BY AppendProperties
<1>2. \A i \in 1 .. Len(list) : list[i] # t BY DEF ToSet
<1>3. DOMAIN more = 1 .. Len(list) + 1 /\ DOMAIN list = 1 .. Len(list) /\ Len(list) \in Nat BY <1>1
<1>4. Distinct(more) BY <1>1, <1>2, <1>3 DEF Distinct
<1>5. Begins(list, more) BY <1>1, <1>3 DEF Begins
<1> QED BY <1>1, <1>4, <1>5

LEMMA OpenThreadKeeps == ASSUME IInv, NEW t \in Threads, OpenThread(t) PROVE IInv'
<1>1. ServiceType /\ VersionsFit /\ Distinct(threads) BY TypeParts DEF IInv, KeptByGitLab
<1>2. /\ t \notin ToSet(threads) /\ threads' = Append(threads, t)
      /\ UNCHANGED <<mr, versions, pending, pushes>> /\ Passes
  BY DEF OpenThread
<1>3. threads \in Seq(Threads) BY <1>1 DEF ServiceType
<1>4. threads' \in Seq(Threads) /\ Distinct(threads') /\ Begins(threads, threads')
  <2>1. PICK more : more = Append(threads, t) OBVIOUS
  <2>2. more \in Seq(Threads) /\ Distinct(more) /\ Begins(threads, more)
    BY <1>1, <1>2, <1>3, <2>1, AppendedOnce
  <2> QED BY <1>2, <2>1, <2>2
<1>5. ServiceType' BY <1>1, <1>2, <1>4 DEF ServiceType
<1>6. VersionsFit' BY <1>1, <1>2 DEF VersionsFit
<1> QED BY <1>2, <1>4, <1>5, <1>6, PassesKeeps DEF KeptByGitLab

LEMMA DeleteThreadKeeps == ASSUME IInv, DeleteThread PROVE IInv'
<1>1. ServiceType /\ VersionsFit /\ Distinct(threads) BY TypeParts DEF IInv, KeptByGitLab
<1>2. UNCHANGED <<mr, versions, pending, pushes>> /\ Passes BY DEF DeleteThread
<1>3. PICK k \in DOMAIN threads : threads' = RemoveAt(threads, k) BY DEF DeleteThread
<1>4. threads \in Seq(Threads) BY <1>1 DEF ServiceType
<1>5. PICK n \in Nat : n = Len(threads) BY <1>4
<1>6. k \in 1 .. n /\ \A i \in 1 .. n : threads[i] \in Threads BY <1>4, <1>5
<1>7. PICK before : before = SubSeq(threads, 1, k - 1) OBVIOUS
<1>8. PICK after : after = SubSeq(threads, k + 1, n) OBVIOUS
<1>9. before \in Seq(Threads) /\ Len(before) = k - 1 /\ \A i \in 1 .. k - 1 : before[i] = threads[i]
  BY <1>6, <1>7, SubSeqProperties
<1>10. after \in Seq(Threads) /\ Len(after) = n - k /\ \A i \in 1 .. n - k : after[i] = threads[k + i]
  <2>1. \A i \in k + 1 .. n : threads[i] \in Threads BY <1>6
  <2>2. /\ after \in Seq(Threads) /\ Len(after) = IF k + 1 <= n THEN n - (k + 1) + 1 ELSE 0
        /\ \A i \in 1 .. n - (k + 1) + 1 : after[i] = threads[(k + 1) + i - 1]
    BY <1>6, <1>8, <2>1, SubSeqProperties
  <2>3. n - (k + 1) + 1 = n - k /\ \A i \in 1 .. n - k : (k + 1) + i - 1 = k + i BY <1>6
  <2> QED BY <1>6, <2>2, <2>3
<1>11. threads' = before \o after BY <1>3, <1>5, <1>7, <1>8 DEF RemoveAt
<1>12. /\ threads' \in Seq(Threads) /\ Len(threads') = n - 1
       /\ \A i \in 1 .. n - 1 : threads'[i] = IF i < k THEN threads[i] ELSE threads[i + 1]
  <2>1. /\ threads' \in Seq(Threads) /\ Len(threads') = Len(before) + Len(after)
        /\ \A i \in 1 .. Len(before) + Len(after) :
             threads'[i] = IF i <= Len(before) THEN before[i] ELSE after[i - Len(before)]
    BY <1>9, <1>10, <1>11, ConcatProperties
  <2>2. \A i \in 1 .. n - 1 : i >= k => after[i - (k - 1)] = threads[i + 1]
    <3> SUFFICES ASSUME NEW i \in 1 .. n - 1, i >= k PROVE after[i - (k - 1)] = threads[i + 1] OBVIOUS
    <3>1. i - (k - 1) \in 1 .. n - k /\ k + (i - (k - 1)) = i + 1 BY <1>6
    <3> QED BY <1>10, <3>1
  <2>3. Len(before) = k - 1 /\ Len(before) + Len(after) = n - 1 BY <1>6, <1>9, <1>10
  <2>4. \A i \in 1 .. n - 1 : i < k => i <= k - 1 /\ i \in 1 .. k - 1 BY <1>6
  <2>5. \A i \in 1 .. n - 1 : ~ (i < k) => i >= k /\ ~ (i <= k - 1) BY <1>6
  <2>6. \A i \in 1 .. n - 1 : threads'[i] = IF i <= k - 1 THEN before[i] ELSE after[i - (k - 1)]
    BY <2>1, <2>3
  <2> QED BY <1>9, <2>1, <2>2, <2>3, <2>4, <2>5, <2>6
<1>13. Distinct(threads')
  <2>1. DOMAIN threads' = 1 .. n - 1 /\ DOMAIN threads = 1 .. n BY <1>4, <1>5, <1>6, <1>12
  <2> SUFFICES ASSUME NEW i \in 1 .. n - 1, NEW j \in 1 .. n - 1, threads'[i] = threads'[j] PROVE i = j
    BY <2>1 DEF Distinct
  <2>2. \A x, y \in 1 .. n : threads[x] = threads[y] => x = y BY <1>1, <2>1 DEF Distinct
  <2>3. PICK x \in 1 .. n : x = (IF i < k THEN i ELSE i + 1) /\ threads'[i] = threads[x] BY <1>6, <1>12
  <2>4. PICK y \in 1 .. n : y = (IF j < k THEN j ELSE j + 1) /\ threads'[j] = threads[y] BY <1>6, <1>12
  <2>5. x = y BY <2>2, <2>3, <2>4
  <2> QED BY <1>6, <2>3, <2>4, <2>5
<1>14. ServiceType' BY <1>1, <1>2, <1>12 DEF ServiceType
<1>15. VersionsFit' BY <1>1, <1>2 DEF VersionsFit
<1>16. Len(threads') < Len(threads) BY <1>5, <1>12
<1> QED BY <1>2, <1>4, <1>12, <1>13, <1>14, <1>15, <1>16, PassesKeeps DEF KeptByGitLab

(***************************************************************************)
(* The steps of the provider.                                              *)
(***************************************************************************)
LEMMA CallIs ==
  ASSUME Known(call)
  PROVE  /\ call.op = "resolve" => call \in Resolves
         /\ call.op = "revision" => call \in Revisions
         /\ call.op = "listing" => call \in Listings
         /\ call.op = "post" => call \in Posts
         /\ call.op \in {"resolve", "revision", "listing", "post"} => call # Idle
BY DEF Known, Idle, Resolves, Revisions, Listings, Posts

LEMMA ReadingIs ==
  /\ \A S : Reading \in Collections(S)
  /\ FirstSeen(Reading) /\ Reading.status = "reading" /\ Reading.capped = FALSE
  /\ Reading.page = 1 /\ Reading.items = <<>>
BY DEF Reading, Collections, FirstSeen

LEMMA FaultsIn == ASSUME IInv, RequestFails \/ UNCHANGED faults PROVE faults' \in 0 .. MaxFaults
<1>1. faults \in 0 .. MaxFaults /\ MaxFaults \in Nat BY TypeParts, SizesAssumption DEF IInv
<1> QED BY <1>1 DEF RequestFails

LEMMA BeginKeeps ==
  ASSUME IInv, NEW c, Begin(c), Known(c), c.op = "resolve" \/ c.op = "revision" => c.coll = Reading,
         c.op = "revision" => c.head = None, c.op = "listing" => c.coll = Reading
  PROVE  IInv'
<1>1. ServiceType /\ KeptByGitLab /\ faults \in 0 .. MaxFaults /\ TargetType BY TypeParts DEF IInv
<1>2. /\ call' = c /\ answer' = Idle /\ seen' = Now
      /\ UNCHANGED <<mr, versions, threads, pending, pushes, faults, target>>
  BY DEF Begin
<1>3. /\ seen'.heads = OpenHeads(mr) /\ seen'.newest = {Newest(versions)} /\ seen'.threads = ToSet(threads)
      /\ seen'.deleted = FALSE
  BY <1>2 DEF Now
<1>4. SeenType'
  <2>1. OpenHeads(mr) \subseteq Heads /\ Newest(versions) \in 0 .. MaxPushes + 1 /\ ToSet(threads) \subseteq Threads
    BY <1>1, SeenNow DEF ServiceType
  <2> QED BY <1>2, <2>1 DEF SeenType, Now
<1>5. TypeOK'
  BY <1>1, <1>2, <1>4, Zenon
  DEF TypeOK, ServiceType, SeenType, TargetType, Known, Resolves, Revisions, Listings, Posts
<1>6. KeptByGitLab' BY <1>1, <1>2 DEF KeptByGitLab, VersionsFit
<1>7. Watched' BY <1>2, <1>3 DEF Watched, OpenHeads
<1>8. FirstSeen(Reading)' BY DEF FirstSeen, Reading
<1>9. Resolving' /\ Revising' BY <1>2, <1>8, ReadingIs DEF Resolving, Revising
<1>10. ListingSoFar'
  <2>1. threads' \in Seq(Threads) BY <1>1, <1>2 DEF ServiceType
  <2>2. SoFar(Reading)' BY <2>1, ReadingIs, SizesAssumption DEF SoFar, Begins
  <2> QED BY <1>2, <2>2, ReadingIs DEF ListingSoFar
<1>11. RevisionHeld' /\ ListingIsWhole' BY <1>2 DEF RevisionHeld, ListingIsWhole, Idle, Revision
<1> QED BY <1>5, <1>6, <1>7, <1>9, <1>10, <1>11 DEF IInv, Operation

\* An operation that goes on, whether or not the answer it goes on with left the head out.
LEMMA GoingOnKeeps ==
  ASSUME IInv, call # Idle, NEW c, call' = c,
         UNCHANGED <<mr, versions, threads, pending, pushes, target, answer>>,
         seen' = seen \/ seen' = [seen EXCEPT !.unnamed = TRUE], faults' \in 0 .. MaxFaults, Known(c),
         c.op = "resolve" => FirstSeen(c.coll),
         c.op = "revision" => FirstSeen(c.coll) /\ c.coll.status = "reading"
                              /\ (c.head # None => c.head \in seen.heads \/ seen'.unnamed),
         c.op = "listing" => c.coll.status = "reading" /\ ~ c.coll.capped /\ (~ seen.deleted => SoFar(c.coll))
  PROVE  IInv'
<1>1. ServiceType /\ KeptByGitLab /\ SeenType /\ TargetType BY TypeParts DEF IInv
<1>2. /\ seen'.heads = seen.heads /\ seen'.newest = seen.newest /\ seen'.threads = seen.threads
      /\ seen'.deleted = seen.deleted /\ (seen.unnamed => seen'.unnamed)
  BY <1>1 DEF SeenType
<1>3. SeenType' BY <1>1 DEF SeenType
<1>4. TypeOK'
  BY <1>1, <1>3, Zenon
  DEF TypeOK, ServiceType, SeenType, TargetType, Known, Resolves, Revisions, Listings, Posts
<1>5. KeptByGitLab' BY <1>1 DEF KeptByGitLab, VersionsFit
<1>6. Watched' BY <1>2 DEF IInv, Operation, Watched, OpenHeads
<1>7. Resolving' /\ Revising' BY <1>2 DEF Resolving, Revising, FirstSeen
<1>8. ListingSoFar' BY <1>2 DEF ListingSoFar, SoFar, Begins
<1>9. answer = Idle BY DEF IInv, Operation, Watched
<1>10. RevisionHeld' /\ ListingIsWhole' BY <1>9 DEF RevisionHeld, ListingIsWhole, Revision, Idle
<1> QED BY <1>4, <1>5, <1>6, <1>7, <1>8, <1>10 DEF IInv, Operation

LEMMA ContinueKeeps ==
  ASSUME IInv, call # Idle, NEW c, Continue(c), faults' \in 0 .. MaxFaults, Known(c),
         c.op = "resolve" => FirstSeen(c.coll),
         c.op = "revision" => FirstSeen(c.coll) /\ c.coll.status = "reading"
                              /\ (c.head # None => c.head \in seen.heads \/ seen.unnamed),
         c.op = "listing" => c.coll.status = "reading" /\ ~ c.coll.capped /\ (~ seen.deleted => SoFar(c.coll))
  PROVE  IInv'
<1>1. call' = c /\ UNCHANGED <<mr, versions, threads, pending, pushes, target, answer, seen>> BY DEF Continue
<1> QED BY <1>1, GoingOnKeeps

LEMMA ReturnKeeps ==
  ASSUME IInv, NEW a, Return(a), faults' \in 0 .. MaxFaults, TargetType', RevisionHeld', ListingIsWhole'
  PROVE  IInv'
<1>1. ServiceType /\ KeptByGitLab /\ SeenType BY TypeParts DEF IInv
<1>2. call' = Idle /\ answer' = a /\ UNCHANGED <<mr, versions, threads, pending, pushes, seen>> BY DEF Return
<1>3. TypeOK' BY <1>1, <1>2, Zenon DEF TypeOK, ServiceType, SeenType, TargetType
<1>4. KeptByGitLab' BY <1>1, <1>2 DEF KeptByGitLab, VersionsFit
<1>5. Operation' BY <1>2 DEF Operation, Watched, Resolving, Revising, ListingSoFar, Idle
<1> QED BY <1>3, <1>4, <1>5 DEF IInv

LEMMA AskingKeeps ==
  ASSUME IInv, Resolve \/ AskRevision \/ AskDiscussions \/ (\E t \in Threads : AskComment(t)) PROVE IInv'
<1>1. CASE Resolve
  <2>1. PICK c : c = [op |-> "resolve", at |-> "project", mr |-> "unread", coll |-> Reading] OBVIOUS
  <2>2. Known(c) /\ c.op = "resolve" /\ c.coll = Reading BY <2>1, ReadingIs DEF Known, Resolves
  <2>3. Begin(c) BY <1>1, <2>1 DEF Resolve
  <2> QED BY <2>2, <2>3, BeginKeeps
<1>2. CASE AskRevision
  <2>1. PICK c : c = [op |-> "revision", head |-> None, coll |-> Reading] OBVIOUS
  <2>2. Known(c) /\ c.op = "revision" /\ c.coll = Reading /\ c.head = None
    BY <2>1, ReadingIs DEF Known, Revisions
  <2>3. Begin(c) BY <1>2, <2>1 DEF AskRevision
  <2> QED BY <2>2, <2>3, BeginKeeps
<1>3. CASE AskDiscussions
  <2>1. PICK c : c = [op |-> "listing", coll |-> Reading] OBVIOUS
  <2>2. Known(c) /\ c.op = "listing" /\ c.coll = Reading BY <2>1, ReadingIs DEF Known, Listings
  <2>3. Begin(c) BY <1>3, <2>1 DEF AskDiscussions
  <2> QED BY <2>2, <2>3, BeginKeeps
<1>4. ASSUME NEW t \in Threads, AskComment(t) PROVE IInv'
  <2>1. PICK c : c = [op |-> "post", thread |-> t] OBVIOUS
  <2>2. Known(c) /\ c.op = "post" BY <2>1 DEF Known, Posts
  <2>3. Begin(c) BY <1>4, <2>1 DEF AskComment
  <2> QED BY <2>2, <2>3, BeginKeeps
<1> QED BY <1>1, <1>2, <1>3, <1>4

\* Answers that promise nothing.
LEMMA PlainAnswer ==
  ASSUME IInv, NEW a, Return(a), RequestFails \/ UNCHANGED faults, UNCHANGED target,
         a # Revision("current"), ~ (a.op = "resolve" /\ a.kind = "pinned"),
         ~ (a.op = "listing" /\ a.kind = "listed")
  PROVE  IInv'
<1>1. faults' \in 0 .. MaxFaults BY FaultsIn
<1>2. TargetType' BY TypeParts DEF IInv, TargetType
<1>3. answer' = a BY DEF Return
<1>4. RevisionHeld' /\ ListingIsWhole' BY <1>3 DEF RevisionHeld, ListingIsWhole, Revision
<1> QED BY <1>1, <1>2, <1>4, ReturnKeeps

LEMMA PlainAnswers ==
  /\ Unresolved # Revision("current") /\ Unresolved.op = "resolve" /\ Unresolved.kind = "failed"
  /\ \A state : state # "current" => Revision(state) # Revision("current") /\ Revision(state).op = "revision"
  /\ \A kind : Posted(kind) # Revision("current") /\ Posted(kind).op = "post"
BY DEF Unresolved, Revision, Posted

LEMMA ResolvingKeeps == ASSUME IInv, ReadProject \/ ReadForResolve \/ CollectForResolve PROVE IInv'
<1>1. Known(call) /\ call.op = "resolve" /\ versions \in Seq(Versions)
  BY TypeParts DEF IInv, IdleOrKnown, ServiceType, ReadProject, ReadForResolve, CollectForResolve
<1>2. /\ call \in Resolves /\ call # Idle /\ FirstSeen(call.coll) /\ call.coll \in Collections(Versions)
      /\ Newest(versions) \in seen.newest
  BY <1>1, CallIs DEF IInv, Operation, Resolving, Watched, Resolves
<1>3. ASSUME NEW c \in Resolves, FirstSeen(c.coll), Continue(c), RequestFails \/ UNCHANGED faults PROVE IInv'
  <2>1. Known(c) /\ c.op = "resolve" BY DEF Known, Resolves
  <2> QED BY <1>2, <1>3, <2>1, FaultsIn, ContinueKeeps
<1>4. CASE ReadProject
  <2>1. CASE Continue([call EXCEPT !.at = "both"]) /\ UNCHANGED faults
    <3>1. PICK c : c = [call EXCEPT !.at = "both"] OBVIOUS
    <3>2. c \in Resolves /\ c.coll = call.coll BY <1>2, <3>1 DEF Resolves
    <3> QED BY <1>2, <1>3, <2>1, <3>1, <3>2
  <2>2. CASE RequestFails /\ Return(Unresolved) /\ UNCHANGED target BY <2>2, PlainAnswer, PlainAnswers
  <2> QED BY <1>4, <2>1, <2>2 DEF ReadProject
<1>5. CASE ReadForResolve
  <2>1. ASSUME NEW result \in {"read", "failed"}, Continue([call EXCEPT !.mr = result]),
               RequestFails \/ UNCHANGED faults
        PROVE  IInv'
    <3>1. PICK c : c = [call EXCEPT !.mr = result] OBVIOUS
    <3>2. c \in Resolves /\ c.coll = call.coll BY <1>2, <3>1 DEF Resolves
    <3> QED BY <1>2, <1>3, <2>1, <3>1, <3>2
  <2> QED BY <1>5, <2>1 DEF ReadForResolve
<1>6. CASE CollectForResolve
  <2>1. ASSUME NEW coll \in Collections(Versions), FirstSeen(coll), Continue([call EXCEPT !.coll = coll]),
               RequestFails \/ UNCHANGED faults
        PROVE  IInv'
    <3>1. PICK c : c = [call EXCEPT !.coll = coll] OBVIOUS
    <3>2. c \in Resolves /\ c.coll = coll BY <1>2, <3>1 DEF Resolves
    <3> QED BY <1>3, <2>1, <3>1, <3>2
  <2>2. CASE RequestFails /\ Continue([call EXCEPT !.coll = AfterFailure(call.coll)])
    <3>1. PICK coll : coll = AfterFailure(call.coll) OBVIOUS
    <3>2. call.coll \in Collections(Versions) /\ <<>> \in Seq(Versions) BY <1>2
    <3>3. coll \in Collections(Versions) /\ coll.items = <<>> /\ coll.status = "failed"
      BY <3>1, <3>2 DEF AfterFailure, Collections
    <3>4. FirstSeen(coll) BY <3>3 DEF FirstSeen
    <3> QED BY <2>1, <2>2, <3>1, <3>3, <3>4
  <2>3. CASE UNCHANGED faults /\ Continue([call EXCEPT !.coll =
                    AfterPage(call.coll, PageOf(versions, call.coll.page), NoCeiling)])
    <3>1. PICK coll : coll = AfterPage(call.coll, PageOf(versions, call.coll.page), NoCeiling) OBVIOUS
    <3>2. NoCeiling \in Nat \ {0} BY SizesAssumption DEF NoCeiling
    <3>3. call.coll.status = "reading" BY <1>6 DEF CollectForResolve
    <3>4. FirstSeen(coll) BY <1>1, <1>2, <3>1, <3>2, <3>3, FirstSeenGoesOn
    <3>5. coll \in Collections(Versions)
      <4>1. call.coll \in Collections(Versions) /\ versions \in Seq(Versions) BY <1>1, <1>2
      <4> QED BY <3>1, <3>2, <4>1, PageTyped
    <3> QED BY <2>1, <2>3, <3>1, <3>4, <3>5
  <2> QED BY <1>6, <2>2, <2>3 DEF CollectForResolve
<1> QED BY <1>4, <1>5, <1>6

LEMMA PinTargetKeeps == ASSUME IInv, PinTarget PROVE IInv'
<1>1. call \in Resolves /\ FirstSeen(call.coll) /\ UNCHANGED faults
  BY CallIs, TypeParts DEF IInv, IdleOrKnown, PinTarget, Operation, Resolving
<1>2. CASE UNCHANGED target /\ Return(Unresolved) BY <1>1, <1>2, PlainAnswer, PlainAnswers
<1>3. CASE /\ Pinnable(call.coll.items)
           /\ target' = [head |-> call.coll.items[1].head, version |-> call.coll.items[1].id]
           /\ Return([op |-> "resolve", kind |-> "pinned"])
  <2>1. call.coll.items \in Seq(Versions) /\ call.coll.items # <<>>
    BY <1>1, <1>3 DEF Resolves, Collections, Pinnable
  <2>2. PICK selected \in Versions : selected = call.coll.items[1] BY <2>1
  <2>3. target' = [head |-> selected.head, version |-> selected.id] /\ selected.id \in seen.newest
    BY <1>1, <1>3, <2>1, <2>2 DEF FirstSeen
  <2>4. selected.head \in Heads /\ selected.id \in 1 .. MaxPushes + 1 /\ MaxPushes \in Nat
    BY <2>2, SizesAssumption DEF Versions
  <2>5. TargetType' BY <2>3, <2>4 DEF TargetType
  <2>6. PICK a : a = [op |-> "resolve", kind |-> "pinned"] OBVIOUS
  <2>7. Return(a) /\ answer' = a /\ UNCHANGED seen BY <1>3, <2>6 DEF Return
  <2>8. RevisionHeld'
    <3>1. a # Revision("current") BY <2>6 DEF Revision
    <3>2. target'.version \in seen.newest BY <2>3
    <3> QED BY <2>7, <3>1, <3>2 DEF RevisionHeld, Revision
  <2>9. ListingIsWhole' BY <2>6, <2>7 DEF ListingIsWhole
  <2> QED BY <1>1, <2>5, <2>7, <2>8, <2>9, FaultsIn, ReturnKeeps
<1> QED BY <1>2, <1>3 DEF PinTarget

LEMMA RevisionKeeps == ASSUME IInv, ReadForRevision \/ CollectForRevision PROVE IInv'
<1>1. Known(call) /\ call.op = "revision" /\ versions \in Seq(Versions)
  BY TypeParts DEF IInv, IdleOrKnown, ServiceType, ReadForRevision, CollectForRevision
<1>2. /\ call \in Revisions /\ call # Idle /\ FirstSeen(call.coll) /\ call.coll.status = "reading"
      /\ call.head # None => call.head \in seen.heads \/ seen.unnamed
      /\ OpenHeads(mr) \subseteq seen.heads /\ Newest(versions) \in seen.newest
  BY <1>1, CallIs DEF IInv, Operation, Revising, Watched
<1>3. call.coll \in Collections(Versions) BY <1>2 DEF Revisions
<1>4. ASSUME NEW state \in {"unavailable", "collecting", "stale"}, RequestFails \/ UNCHANGED faults,
             Return(Revision(state)), UNCHANGED target
      PROVE  IInv'
  BY <1>4, PlainAnswer, PlainAnswers
<1>5. ASSUME NEW c \in Revisions, FirstSeen(c.coll), c.coll.status = "reading",
             c.head # None => c.head \in seen.heads \/ seen.unnamed, Continue(c), UNCHANGED faults
      PROVE  IInv'
  <2>1. Known(c) /\ c.op = "revision" BY DEF Known, Revisions
  <2> QED BY <1>2, <1>5, <2>1, FaultsIn, ContinueKeeps
<1>6. CASE ReadForRevision
  <2>1. CASE mr.state = "opened" /\ UNCHANGED faults /\ Continue([call EXCEPT !.head = mr.sha])
    <3>1. PICK h : h = mr.sha OBVIOUS
    <3>2. PICK c : c = [call EXCEPT !.head = h] OBVIOUS
    <3>3. h \in Heads /\ h \in seen.heads
      BY <1>2, <2>1, <3>1, TypeParts DEF IInv, ServiceType, OpenHeads
    <3>4. c \in Revisions /\ c.coll = call.coll /\ c.head = h BY <1>2, <3>2, <3>3 DEF Revisions
    <3> QED BY <1>2, <1>5, <2>1, <3>1, <3>2, <3>3, <3>4
  <2>2. CASE mr.refs # None /\ UNCHANGED faults /\ ContinueUnnamed
    <3>1. PICK h : h = mr.refs OBVIOUS
    <3>2. PICK c : c = [call EXCEPT !.head = h] OBVIOUS
    <3>3. h \in Heads BY <2>2, <3>1, TypeParts DEF IInv, ServiceType
    <3>4. c \in Revisions /\ c.coll = call.coll BY <1>2, <3>2, <3>3 DEF Revisions
    <3>5. Known(c) /\ c.op = "revision" BY <3>4 DEF Known, Revisions
    <3>6. /\ call' = c /\ seen' = [seen EXCEPT !.unnamed = TRUE]
          /\ UNCHANGED <<mr, versions, threads, pending, pushes, target, answer>>
      BY <2>2, <3>1, <3>2 DEF ContinueUnnamed
    <3>7. seen'.unnamed BY <3>6, TypeParts DEF IInv, SeenType
    <3> QED BY <1>2, <2>2, <3>4, <3>5, <3>6, <3>7, FaultsIn, GoingOnKeeps
  <2>3. \/ (RequestFails \/ UNCHANGED faults) /\ Return(Revision("unavailable")) /\ UNCHANGED target
        \/ UNCHANGED faults /\ Return(Revision("collecting")) /\ UNCHANGED target
        \/ mr.refs # None /\ UNCHANGED faults /\ ContinueUnnamed
        \/ mr.state = "opened" /\ UNCHANGED faults /\ Continue([call EXCEPT !.head = mr.sha])
    BY <1>6 DEF ReadForRevision
  <2> QED BY <1>4, <2>1, <2>2, <2>3
<1>7. CASE CollectForRevision
  <2>1. CASE RequestFails /\ Return(Revision("unavailable")) /\ UNCHANGED target BY <1>4, <2>1
  <2>2. CASE UNCHANGED faults /\ ~ (RequestFails /\ Return(Revision("unavailable")) /\ UNCHANGED target)
    <3>1. PICK c : c = AfterPage(call.coll, PageOf(versions, call.coll.page), NoCeiling) OBVIOUS
    <3>2. NoCeiling \in Nat \ {0} BY SizesAssumption DEF NoCeiling
    <3>3. FirstSeen(c) BY <1>1, <1>2, <1>3, <3>1, <3>2, FirstSeenGoesOn
    <3>4. c \in Collections(Versions) BY <1>1, <1>3, <3>1, <3>2, PageTyped
    <3>5. IF c.status = "reading" THEN Continue([call EXCEPT !.coll = c])
          ELSE Return(Revision(Judged(c.items, call.head))) /\ UNCHANGED target
      BY <1>7, <2>2, <3>1 DEF CollectForRevision
    <3>6. CASE c.status = "reading"
      <4>1. PICK d : d = [call EXCEPT !.coll = c] OBVIOUS
      <4>2. d \in Revisions /\ d.coll = c /\ d.head = call.head BY <1>2, <3>4, <4>1 DEF Revisions
      <4> QED BY <1>2, <1>5, <2>2, <3>3, <3>5, <3>6, <4>1, <4>2
    <3>7. CASE c.status # "reading"
      <4>1. PICK state : state = Judged(c.items, call.head) OBVIOUS
      <4>2. Return(Revision(state)) /\ UNCHANGED target BY <3>5, <3>7, <4>1
      <4>3. CASE state # "current"
        <5>1. state \in {"collecting", "stale"} BY <4>1, <4>3 DEF Judged
        <5> QED BY <1>4, <2>2, <4>2, <5>1
      <4>4. CASE state = "current"
        <5>1. c.items # <<>> /\ c.items[1].head = call.head /\ call.head = target.head /\ c.items[1].id = target.version
          BY <4>1, <4>4 DEF Judged
        <5>2. target.version \in seen.newest BY <3>3, <5>1 DEF FirstSeen
        <5>3. target.head \in seen.heads \/ seen.unnamed BY <1>2, <1>7, <5>1 DEF CollectForRevision
        <5>4. PICK a : a = Revision(state) OBVIOUS
        <5>5. Return(a) /\ answer' = a /\ UNCHANGED <<seen, target>> BY <4>2, <5>4 DEF Return
        <5>6. RevisionHeld' BY <5>2, <5>3, <5>4, <5>5 DEF RevisionHeld, Revision
        <5>7. ListingIsWhole' BY <5>4, <5>5 DEF ListingIsWhole, Revision
        <5>8. TargetType' BY <5>5, TypeParts DEF IInv, TargetType
        <5> QED BY <2>2, <5>5, <5>6, <5>7, <5>8, FaultsIn, ReturnKeeps
      <4> QED BY <4>3, <4>4
    <3> QED BY <3>6, <3>7
  <2> QED BY <1>7, <2>1, <2>2 DEF CollectForRevision
<1> QED BY <1>6, <1>7

LEMMA CollectDiscussionsKeeps == ASSUME IInv, CollectDiscussions PROVE IInv'
<1>1. Known(call) /\ call.op = "listing" /\ threads \in Seq(Threads) /\ Distinct(threads)
  BY TypeParts DEF IInv, IdleOrKnown, ServiceType, KeptByGitLab, CollectDiscussions
<1>2. /\ call \in Listings /\ call # Idle /\ call.coll.status = "reading" /\ ~ call.coll.capped
      /\ ~ seen.deleted => SoFar(call.coll)
      /\ seen.threads \subseteq ToSet(threads)
  BY <1>1, CallIs DEF IInv, Operation, ListingSoFar, Watched
<1>3. call.coll \in Collections(Threads) /\ call.coll.capped = FALSE BY <1>2 DEF Listings, Collections
<1>4. CASE RequestFails /\ Return(Listing(AfterFailure(call.coll))) /\ UNCHANGED target
  <2>1. AfterFailure(call.coll).status = "failed" BY <1>3 DEF AfterFailure, Collections
  <2>2. Listing(AfterFailure(call.coll)) = [op |-> "listing", kind |-> "failed"] BY <2>1 DEF Listing
  <2>3. PICK a : a = [op |-> "listing", kind |-> "failed"] OBVIOUS
  <2>4. a # Revision("current") /\ a.op = "listing" /\ a.kind = "failed" BY <2>3 DEF Revision
  <2> QED BY <1>4, <2>2, <2>3, <2>4, PlainAnswer
<1>5. CASE UNCHANGED faults /\ ~ (RequestFails /\ Return(Listing(AfterFailure(call.coll))) /\ UNCHANGED target)
  <2>1. PICK got : got = PageOf(threads, call.coll.page) OBVIOUS
  <2>2. PICK c : c = AfterPage(call.coll, got, MaxDiscussions) OBVIOUS
  <2>3. MaxDiscussions \in Nat \ {0} BY SizesAssumption
  <2>4. c \in Collections(Threads) BY <1>1, <1>3, <2>1, <2>2, <2>3, PageTyped
  <2>5. ~ seen.deleted =>
          /\ Begins(c.items, threads) /\ Len(c.items) <= MaxDiscussions
          /\ c.status # "ended" => SoFar(c)
          /\ c.status = "ended" /\ c.capped # TRUE => Len(c.items) = Len(threads)
    <3>1. PICK coll \in Collections(Threads) : coll = call.coll BY <1>3
    <3>2. coll.status = "reading" /\ coll.capped = FALSE /\ (~ seen.deleted => SoFar(coll))
      BY <1>2, <1>3, <3>1
    <3>3. got = PageOf(threads, coll.page) /\ c = AfterPage(coll, got, MaxDiscussions) BY <2>1, <2>2, <3>1
    <3> QED BY <1>1, <2>3, <3>2, <3>3, ListingGoesOn
  <2>6. IF c.status = "reading" THEN Continue([call EXCEPT !.coll = c])
        ELSE Return(Listing(c)) /\ UNCHANGED target
    BY <1>5, <2>1, <2>2 DEF CollectDiscussions
  <2>7. c.status = "reading" => c.capped = FALSE
    <3>1. got \in Seq(Threads)
      <4>1. PICK p \in Nat \ {0} : p = call.coll.page BY <1>3 DEF Collections
      <4> QED BY <1>1, <2>1, <4>1, PageIs
    <3>2. Grown(Threads, call.coll, got, MaxDiscussions, call.coll.items \o got, c)
      BY <1>3, <2>2, <2>3, <3>1, AfterPageIs
    <3> QED BY <1>3, <3>2 DEF Grown
  <2>8. CASE c.status = "reading"
    <3>1. PICK d : d = [call EXCEPT !.coll = c] OBVIOUS
    <3>2. d \in Listings /\ d.op = "listing" /\ d.coll = c BY <1>2, <2>4, <3>1 DEF Listings
    <3>3. Known(d) BY <3>2 DEF Known
    <3>4. Continue(d) BY <2>6, <2>8, <3>1
    <3>5. d.coll.status = "reading" /\ ~ d.coll.capped /\ (~ seen.deleted => SoFar(d.coll))
      BY <2>5, <2>7, <2>8, <3>2
    <3> QED BY <1>2, <1>5, <3>2, <3>3, <3>4, <3>5, FaultsIn, ContinueKeeps
  <2>9. CASE c.status = "failed"
    <3>1. Listing(c) = [op |-> "listing", kind |-> "failed"] BY <2>9 DEF Listing
    <3>2. PICK a : a = [op |-> "listing", kind |-> "failed"] OBVIOUS
    <3>3. a # Revision("current") /\ a.op = "listing" /\ a.kind = "failed" BY <3>2 DEF Revision
    <3>4. Return(a) /\ UNCHANGED target BY <2>6, <2>9, <3>1, <3>2
    <3> QED BY <1>5, <3>3, <3>4, PlainAnswer
  <2>10. CASE c.status = "ended"
    <3>1. PICK a : a = [op |-> "listing", kind |-> "listed", items |-> c.items, complete |-> ~ c.capped] OBVIOUS
    <3>2. Return(a) /\ UNCHANGED target BY <2>6, <2>10, <3>1 DEF Listing
    <3>3. answer' = a /\ UNCHANGED <<seen, threads>> BY <3>2 DEF Return
    <3>4. a.op = "listing" /\ a.items = c.items /\ (a.complete => c.capped # TRUE) BY <3>1
    <3>5. c.items \in Seq(Threads) BY <2>4 DEF Collections
    <3>6. ListingIsWhole'
      <4> SUFFICES ASSUME ~ seen.deleted
                   PROVE  /\ Len(c.items) <= MaxDiscussions /\ Distinct(c.items)
                          /\ a.complete => seen.threads \subseteq ToSet(c.items)
        BY <3>3, <3>4 DEF ListingIsWhole, IsInjective, Distinct
      <4>1. Len(c.items) <= MaxDiscussions /\ Begins(c.items, threads) BY <2>5
      <4>2. \A i \in DOMAIN c.items : i \in DOMAIN threads /\ c.items[i] = threads[i]
        BY <1>1, <3>5, <4>1 DEF Begins
      <4>3. Distinct(c.items) BY <1>1, <4>2 DEF Distinct
      <4>4. a.complete => seen.threads \subseteq ToSet(c.items)
        <5> SUFFICES ASSUME a.complete, NEW t \in seen.threads PROVE t \in ToSet(c.items) OBVIOUS
        <5>1. Len(c.items) = Len(threads) BY <2>5, <2>10, <3>4
        <5>2. PICK i \in DOMAIN threads : threads[i] = t BY <1>2 DEF ToSet
        <5>3. i \in DOMAIN c.items BY <1>1, <3>5, <5>1, <5>2
        <5> QED BY <4>2, <5>2, <5>3 DEF ToSet
      <4> QED BY <4>1, <4>3, <4>4
    <3>7. RevisionHeld' BY <3>3, <3>4 DEF RevisionHeld, Revision
    <3>8. TargetType' BY <3>2, TypeParts DEF IInv, TargetType
    <3> QED BY <1>5, <3>2, <3>6, <3>7, <3>8, FaultsIn, ReturnKeeps
  <2> QED BY <2>4, <2>8, <2>9, <2>10 DEF Collections
<1> QED BY <1>4, <1>5 DEF CollectDiscussions

LEMMA PostingKeeps == ASSUME IInv, NotStarted \/ Create \/ Refuse PROVE IInv'
<1>1. Known(call) /\ call.op = "post" BY TypeParts DEF IInv, IdleOrKnown, NotStarted, Create, Refuse
<1>2. call \in Posts /\ call.thread \in Threads BY <1>1, CallIs DEF Posts
<1>3. CASE NotStarted \/ Refuse BY <1>3, PlainAnswer, PlainAnswers DEF NotStarted, Refuse
<1>4. CASE Create
  <2>1. /\ threads' = Arrives /\ call' = Idle /\ UNCHANGED <<mr, versions, pending, pushes, target, seen>>
        /\ RequestFails \/ UNCHANGED faults
        /\ \E kind \in {"created", "uncertain"} : answer' = Posted(kind)
    BY <1>4 DEF Create
  <2>2. ServiceType /\ VersionsFit /\ Distinct(threads) /\ SeenType /\ TargetType
    BY TypeParts DEF IInv, KeptByGitLab
  <2>3. threads' \in Seq(Threads) /\ Distinct(threads')
    <3>1. threads \in Seq(Threads) BY <2>2 DEF ServiceType
    <3>2. PICK t \in Threads : t = call.thread BY <1>2
    <3>3. CASE t \in ToSet(threads) BY <2>1, <2>2, <3>1, <3>2, <3>3 DEF Arrives
    <3>4. CASE t \notin ToSet(threads)
      <4>1. PICK more : more = Append(threads, t) OBVIOUS
      <4>2. more \in Seq(Threads) /\ Distinct(more) BY <2>2, <3>1, <3>4, <4>1, AppendedOnce
      <4> QED BY <2>1, <3>2, <3>4, <4>1, <4>2 DEF Arrives
    <3> QED BY <3>3, <3>4
  <2>4. TypeOK'
    <3>1. ServiceType' BY <2>1, <2>2, <2>3 DEF ServiceType
    <3>2. faults' \in 0 .. MaxFaults BY <2>1, FaultsIn
    <3> QED BY <2>1, <2>2, <3>1, <3>2, Zenon DEF TypeOK, ServiceType, SeenType, TargetType
  <2>5. KeptByGitLab' BY <2>1, <2>2, <2>3 DEF KeptByGitLab, VersionsFit
  <2>6. Operation' BY <2>1 DEF Operation, Watched, Resolving, Revising, ListingSoFar, Idle
  <2>7. RevisionHeld' /\ ListingIsWhole' BY <2>1, PlainAnswers DEF RevisionHeld, ListingIsWhole, Revision
  <2> QED BY <2>4, <2>5, <2>6, <2>7 DEF IInv
<1> QED BY <1>3, <1>4

(***************************************************************************)
(* The theorems.                                                           *)
(***************************************************************************)
LEMMA InitIInv == Init => IInv
<1> SUFFICES ASSUME NEW h \in Heads, mr = [state |-> "opened", sha |-> h, refs |-> None],
                    versions = <<>>, threads = <<>>, pending = TRUE, pushes = 0, faults = 0,
                    target = Unpinned, call = Idle, answer = Idle, seen = Unseen
             PROVE  IInv
  BY DEF Init
<1>1. ServiceType BY SizesAssumption DEF ServiceType
<1>2. faults \in 0 .. MaxFaults BY SizesAssumption
<1>3. TargetType BY SizesAssumption DEF TargetType, Unpinned
<1>4. SeenType BY DEF SeenType, Unseen
<1>5. TypeOK
  <2>1. IdleOrKnown BY DEF IdleOrKnown, Known
  <2> QED BY ONLY <1>1, <1>2, <1>3, <1>4, <2>1, TypeParts
<1>6. KeptByGitLab BY DEF KeptByGitLab, VersionsFit, Distinct
<1>7. Operation BY DEF Operation, Watched, Resolving, Revising, ListingSoFar, Idle
<1>8. RevisionHeld /\ ListingIsWhole BY DEF RevisionHeld, ListingIsWhole, Revision, Idle
<1> QED BY <1>5, <1>6, <1>7, <1>8 DEF IInv

LEMMA StutterIInv == ASSUME IInv, UNCHANGED vars PROVE IInv'
<1>1. UNCHANGED <<mr, versions, threads, pending, pushes, faults, target, call, answer, seen>> BY DEF vars
<1>2. TypeOK' BY <1>1, Zenon DEF IInv, TypeOK
<1>3. KeptByGitLab' BY <1>1 DEF IInv, KeptByGitLab, VersionsFit, Distinct
<1>4. Watched' BY <1>1 DEF IInv, Operation, Watched, OpenHeads, Newest
<1>5. Resolving' /\ Revising' BY <1>1 DEF IInv, Operation, Resolving, Revising, FirstSeen
<1>6. ListingSoFar' BY <1>1 DEF IInv, Operation, ListingSoFar, SoFar, Begins
<1>7. RevisionHeld' /\ ListingIsWhole' BY <1>1 DEF IInv, RevisionHeld, ListingIsWhole, Revision
<1> QED BY <1>2, <1>3, <1>4, <1>5, <1>6, <1>7 DEF IInv, Operation

LEMMA NextIInv == IInv /\ [Next]_vars => IInv'
<1> SUFFICES ASSUME IInv, [Next]_vars PROVE IInv' OBVIOUS
<1>1. CASE Service
  BY <1>1, PushKeeps, CollectVersionKeeps, MoreOfGitLabKeeps, OpenThreadKeeps, DeleteThreadKeeps DEF Service
<1>2. CASE Provider
  BY <1>2, AskingKeeps, ResolvingKeeps, PinTargetKeeps, RevisionKeeps, CollectDiscussionsKeeps, PostingKeeps
  DEF Provider
<1>3. CASE UNCHANGED vars BY <1>3, StutterIInv
<1> QED BY <1>1, <1>2, <1>3 DEF Next

\* The inductive invariant holds in every state GitLab and the provider reach.
THEOREM Invariance == Spec => []IInv
<1> QED BY InitIInv, NextIInv, PTL DEF Spec

\* Every variable keeps its type: the merge request GitLab serves, the pinned target and the operation under
\* way (provider.ts).
THEOREM TypeCorrect == Spec => []TypeOK
<1>1. IInv => TypeOK BY DEF IInv
<1> QED BY <1>1, Invariance, PTL

\* However pushes, collected versions and page reads interleave: what is called current was open at the pinned
\* head, unless GitLab left the head out, with the pinned version the newest, and what a review is pinned to was the newest version
\* (getCurrentRevision, resolveTarget).
THEOREM CurrentWasHeld == Spec => []RevisionHeld
<1>1. IInv => RevisionHeld BY DEF IInv
<1> QED BY <1>1, Invariance, PTL

\* However many discussions are opened while they are listed: unless one is deleted, a complete listing holds
\* each of those that were there throughout, once, and never more than its ceiling (listDiscussions).
THEOREM CompleteIsWhole == Spec => []ListingIsWhole
<1>1. IInv => ListingIsWhole BY DEF IInv
<1> QED BY <1>1, Invariance, PTL
====

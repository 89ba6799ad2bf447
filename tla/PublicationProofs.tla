-------------------------- MODULE PublicationProofs --------------------------
(* Theorems about Publication, for every set of pages, findings and notes.  *)
EXTENDS Publication, TLAPS

-----------------------------------------------------------------------------
(* Type correctness. *)

\* Where a run is busy with one comment, cur, which is still to be dealt with.
Sending == {"rechecking", "posting", "wired", "arrived", "dropped", "relisting"}

CurrentOK ==
    \A p \in Pages : cur[p] \in IF pc[p] \in Sending THEN todo[p] ELSE {None}

LEMMA InitTypeOK == Init => TypeOK
BY PublicationAssumption
   DEF Init, TypeOK, Outcomes, State, NoOutcomes, NoListing, Location

LEMMA MergeType ==
    ASSUME NEW old \in Outcomes, NEW new \in Outcomes
    PROVE  Merge(old, new) \in Outcomes
BY DEF Merge, Outcomes

LEMMA StopAllType ==
    ASSUME NEW done \in Outcomes, NEW left, NEW state \in State
    PROVE  StopAll(done, left, state) \in Outcomes
BY DEF StopAll, Outcomes

LEMMA ListingsType ==
    ASSUME TypeOK, NEW l \in Listings
    PROVE  l \in [notes: SUBSET Note, complete: BOOLEAN]
<1>1. \A f \in Findings : Genuine(f) \in Note
  BY DEF Genuine, Note
<1>2. lookalikes \subseteq Note
  BY PublicationAssumption DEF TypeOK
<1>3. NotesOnMR \subseteq Note
  BY <1>1, <1>2 DEF NotesOnMR
<1>4. CASE l = [notes |-> NotesOnMR, complete |-> TRUE]
  BY <1>3, <1>4
<1>5. CASE l \in [notes : SUBSET NotesOnMR, complete : {FALSE}]
  BY <1>3, <1>5
<1>6. QED
  BY <1>4, <1>5 DEF Listings

LEMMA ConstantTypes ==
    /\ NoOutcomes \in Outcomes
    /\ NoListing \in [notes: SUBSET Note, complete: BOOLEAN]
    /\ Settled \subseteq State
BY DEF Outcomes, State, NoOutcomes, NoListing, Settled

LEMMA ResetType ==
    ASSUME TypeOK, NEW p \in Pages, NEW l \in Location, Reset(p, l)
    PROVE  /\ pc' \in [Pages -> Location]
           /\ mem' \in [Pages -> Outcomes]
           /\ todo' \in [Pages -> SUBSET Findings]
           /\ cur' \in [Pages -> Findings \cup {None}]
           /\ listing' \in [Pages -> [notes: SUBSET Note, complete: BOOLEAN]]
           /\ out' \in [Pages -> Outcomes]
           /\ sent' \in [Pages -> SUBSET Findings]
BY ConstantTypes DEF TypeOK, Reset

LEMMA StopType ==
    ASSUME TypeOK, NEW p \in Pages, NEW state \in State, Stop(p, state)
    PROVE  /\ pc' \in [Pages -> Location]
           /\ todo' \in [Pages -> SUBSET Findings]
           /\ cur' \in [Pages -> Findings \cup {None}]
           /\ listing' \in [Pages -> [notes: SUBSET Note, complete: BOOLEAN]]
           /\ out' \in [Pages -> Outcomes]
<1>1. StopAll(out[p], todo[p], state) \in Outcomes
  BY StopAllType DEF TypeOK
<1>2. QED
  BY <1>1, ConstantTypes DEF TypeOK, Stop, Goto, Location, Leased

LEMMA ConcludeType ==
    ASSUME TypeOK, NEW p \in Pages, NEW f \in Findings, NEW state \in State,
           Conclude(p, f, state)
    PROVE  /\ pc' \in [Pages -> Location]
           /\ todo' \in [Pages -> SUBSET Findings]
           /\ cur' \in [Pages -> Findings \cup {None}]
           /\ out' \in [Pages -> Outcomes]
BY DEF TypeOK, Conclude, Goto, Location, Leased, Outcomes

LEMMA HandlerTypeOK ==
    ASSUME TypeOK, CurrentOK, NEW p \in Pages, Handler(p)
    PROVE  TypeOK'
<1> USE DEF vars, fileVars, remoteVars, localVars, forms, history
<1>1. CASE ReopenLookup(p)
  <2>1. PICK l \in Listings :
           out' = [out EXCEPT ![p] = StopAll(NoOutcomes, Confirmed(mem[p], l), "published")]
    BY <1>1 DEF ReopenLookup
  <2>2. StopAll(NoOutcomes, Confirmed(mem[p], l), "published") \in Outcomes
    BY StopAllType, ConstantTypes DEF State, Settled
  <2>3. QED
    BY <1>1, <2>1, <2>2 DEF ReopenLookup, TypeOK, Goto, Location
<1>2. CASE ReopenUnchanged(p)
  BY <1>2, ResetType DEF ReopenUnchanged, TypeOK, Location
<1>3. CASE ReopenRecord(p)
  <2>1. record' \in Outcomes
    BY <1>3, MergeType DEF ReopenRecord, TypeOK
  <2>2. QED
    BY <1>3, <2>1, ResetType DEF ReopenRecord, TypeOK, Location
<1>5. CASE AcquireLease(p)
  BY <1>5 DEF AcquireLease, TypeOK, Goto, Location, Leased
<1>6. CASE LeaseHeld(p)
  BY <1>6, ResetType DEF LeaseHeld, TypeOK, Location
<1>7. CASE ReadRecord(p)
  BY <1>7 DEF ReadRecord, TypeOK, Goto, Location, Leased
<1>8. CASE SaveDrafts(p)
  BY <1>8 DEF SaveDrafts, TypeOK, Goto, Location, Leased
<1>9. CASE Identity(p)
  BY <1>9, StopType DEF Identity, TypeOK, Goto, Location, Leased, State
<1>10. CASE CheckRevision(p)
  BY <1>10, StopType
     DEF CheckRevision, RevisionAnswers, TypeOK, Goto, Location, Leased, State
<1>11. CASE ListDiscussions(p)
  <2>1. CASE Stop(p, "failed-before-send")
    BY <1>11, <2>1, StopType DEF ListDiscussions, TypeOK, State
  <2>2. CASE ~Stop(p, "failed-before-send")
    BY <1>11, <2>2, ListingsType DEF ListDiscussions, TypeOK, Goto, Location, Leased
  <2>3. QED
    BY <2>1, <2>2
<1>12. CASE Consider(p)
  <2>1. PICK f \in todo[p] :
           \/ Conclude(p, f, "already-published") /\ UNCHANGED listing
           \/ Stop(p, "failed-before-send")
           \/ /\ Goto(p, "rechecking")
              /\ cur' = [cur EXCEPT ![p] = f]
              /\ UNCHANGED <<todo, listing, out>>
    BY <1>12 DEF Consider
  <2>2. f \in Findings
    BY DEF TypeOK
  <2>3. CASE Conclude(p, f, "already-published") /\ UNCHANGED listing
    BY <1>12, <2>2, <2>3, ConcludeType DEF Consider, TypeOK, State, Settled
  <2>4. CASE Stop(p, "failed-before-send")
    BY <1>12, <2>4, StopType DEF Consider, TypeOK, State
  <2>5. CASE /\ Goto(p, "rechecking")
             /\ cur' = [cur EXCEPT ![p] = f]
             /\ UNCHANGED <<todo, listing, out>>
    BY <1>12, <2>2, <2>5 DEF Consider, TypeOK, Goto, Location, Leased
  <2>6. QED
    BY <2>1, <2>3, <2>4, <2>5
<1>13. CASE Recheck(p)
  BY <1>13, StopType DEF Recheck, RevisionAnswers, TypeOK, Goto, Location, Leased, State
<1>14. CASE Post(p)
  <2>1. cur[p] \in Findings
    BY <1>14 DEF Post, Sending, CurrentOK, TypeOK
  <2>2. QED
    BY <1>14, <2>1 DEF Post, TypeOK, Goto, Location, Leased
<1>15. CASE PostNotStarted(p)
  <2>1. cur[p] \in Findings
    BY <1>15 DEF PostNotStarted, Sending, CurrentOK, TypeOK
  <2>2. QED
    BY <1>15, <2>1, ConcludeType DEF PostNotStarted, TypeOK, State
<1>16. CASE Answered(p)
  <2>1. cur[p] \in Findings
    BY <1>16 DEF Answered, Sending, CurrentOK, TypeOK
  <2>2. QED
    BY <1>16, <2>1, ConcludeType DEF Answered, TypeOK, State, Settled
<1>17. CASE AnswerLost(p)
  BY <1>17 DEF AnswerLost, TypeOK, Goto, Location, Leased
<1>18. CASE Relist(p)
  <2>1. cur[p] \in Findings
    BY <1>18 DEF Relist, Sending, CurrentOK, TypeOK
  <2>2. PICK state \in {"published", "uncertain"} : Conclude(p, cur[p], state)
    BY <1>18 DEF Relist
  <2>3. listing' \in [Pages -> [notes: SUBSET Note, complete: BOOLEAN]]
    BY <1>18, ListingsType DEF Relist, TypeOK
  <2>4. QED
    BY <1>18, <2>1, <2>2, <2>3, ConcludeType DEF Relist, TypeOK, State, Settled
<1>19. CASE Finish(p)
  BY <1>19, StopType DEF Finish, TypeOK, State
<1>20. CASE RecordSubmission(p)
  <2>1. record' \in Outcomes
    BY <1>20, MergeType DEF RecordSubmission, TypeOK
  <2>2. QED
    BY <1>20, <2>1 DEF RecordSubmission, TypeOK, Goto, Location, Leased
<1>21. CASE ReadLease(p)
  BY <1>21, ResetType DEF ReadLease, TypeOK, Goto, Location, Leased
<1>22. CASE RemoveLease(p)
  BY <1>22, ResetType DEF RemoveLease, TypeOK, Location
<1>23. QED
  BY <1>1, <1>2, <1>3, <1>5, <1>6, <1>7, <1>8, <1>9, <1>10, <1>11, <1>12,
     <1>13, <1>14, <1>15, <1>16, <1>17, <1>18, <1>19, <1>20, <1>21, <1>22
     DEF Handler

LEMMA OtherTypeOK ==
    ASSUME TypeOK, CurrentOK,
           \/ \E p \in Pages : SaveInvalidDrafts(p) \/ Outside(p) \/ Network(p)
           \/ Environment
    PROVE  TypeOK'
<1> USE DEF vars, fileVars, remoteVars, localVars, forms, history
<1>1. ASSUME NEW p \in Pages, Open(p) PROVE TypeOK'
  BY <1>1 DEF Open, TypeOK, Goto, Location
<1>2. ASSUME NEW p \in Pages, InvalidForm(p) \/ SaveInvalidDrafts(p) \/ InvalidFormFails(p) PROVE TypeOK'
  BY <1>2 DEF InvalidForm, SaveInvalidDrafts, InvalidFormFails, TypeOK
<1>3. ASSUME NEW p \in Pages, Submit(p) PROVE TypeOK'
  <2>1. PICK selected \in SUBSET Findings :
          /\ todo' = [todo EXCEPT ![p] = selected]
          /\ out' = [out EXCEPT ![p] = StopAll(@, Findings \ selected, "not-selected")]
    BY <1>3 DEF Submit
  <2>2. out' \in [Pages -> Outcomes]
    BY <2>1, StopAllType DEF TypeOK, State
  <2>3. QED
    BY <1>3, <2>1, <2>2, PublicationAssumption DEF Submit, TypeOK, Goto, Location
<1>4. ASSUME NEW p \in Pages, Crash(p) PROVE TypeOK'
  <2>1. orphans' \in [Findings -> Nat]
    BY <1>4 DEF Crash, TypeOK
  <2>2. QED
    BY <1>4, <2>1, ResetType DEF Crash, TypeOK, Location
<1>5. ASSUME NEW p \in Pages, AcquireFails(p) PROVE TypeOK'
  BY <1>5 DEF AcquireFails, TypeOK, Goto, Location
<1>6. ASSUME NEW p \in Pages, StoreFails(p) PROVE TypeOK'
  BY <1>6, ResetType DEF StoreFails, TypeOK, Goto, Location, Leased
<1>7. ASSUME NEW p \in Pages, ReleaseFails(p) PROVE TypeOK'
  BY <1>7, ResetType DEF ReleaseFails, TypeOK, Location
<1>8. ASSUME NEW p \in Pages, Deliver(p) PROVE TypeOK'
  <2>1. cur[p] \in Findings
    BY <1>8 DEF Deliver, Sending, CurrentOK, TypeOK
  <2>2. QED
    BY <1>8, <2>1 DEF Deliver, TypeOK, Goto, Location, Leased
<1>9. ASSUME NEW p \in Pages, Drop(p) PROVE TypeOK'
  BY <1>9 DEF Drop, TypeOK, Goto, Location, Leased
<1>10. ASSUME NEW f \in Findings, OrphanEnds(f) PROVE TypeOK'
  BY <1>10 DEF OrphanEnds, TypeOK
<1>11. ASSUME NEW n \in LookAlikes, LookAlikeAppears(n) PROVE TypeOK'
  BY <1>11 DEF LookAlikeAppears, TypeOK
<1>12. CASE Push
  BY <1>12 DEF Push, TypeOK
<1>13. CASE RecoverLease
  BY <1>13 DEF RecoverLease, TypeOK
<1>14. QED
  BY <1>1, <1>2, <1>3, <1>4, <1>5, <1>6, <1>7, <1>8, <1>9, <1>10, <1>11,
     <1>12, <1>13 DEF Outside, Network, Environment

LEMMA HandlerCurrentOK ==
    ASSUME TypeOK, CurrentOK, NEW p \in Pages, Handler(p)
    PROVE  CurrentOK'
<1> USE DEF TypeOK, CurrentOK, Sending
<1>1. CASE ReopenLookup(p)
  BY <1>1 DEF ReopenLookup, Goto
<1>2. CASE ReopenUnchanged(p) \/ ReopenRecord(p) \/ LeaseHeld(p) \/ RemoveLease(p)
  BY <1>2 DEF ReopenUnchanged, ReopenRecord, LeaseHeld, RemoveLease, Reset
<1>3. CASE AcquireLease(p) \/ ReadRecord(p) \/ RecordSubmission(p)
  BY <1>3 DEF AcquireLease, ReadRecord, RecordSubmission, Goto
<1>4. CASE SaveDrafts(p)
  BY <1>4 DEF SaveDrafts, Goto
<1>5. CASE Identity(p) \/ CheckRevision(p) \/ Recheck(p)
  BY <1>5 DEF Identity, CheckRevision, Recheck, RevisionAnswers, Goto, Stop
<1>6. CASE ListDiscussions(p)
  BY <1>6 DEF ListDiscussions, Goto, Stop
<1>7. CASE Consider(p)
  BY <1>7 DEF Consider, Goto, Stop, Conclude
<1>8. CASE Post(p) \/ AnswerLost(p)
  BY <1>8 DEF Post, AnswerLost, Goto
<1>9. CASE PostNotStarted(p) \/ Answered(p)
  BY <1>9 DEF PostNotStarted, Answered, Goto, Conclude
<1>10. CASE Relist(p)
  BY <1>10 DEF Relist, Goto, Conclude
<1>11. CASE Finish(p)
  BY <1>11 DEF Finish, Goto, Stop
<1>12. CASE ReadLease(p)
  BY <1>12 DEF ReadLease, Goto, Reset
<1>13. QED
  BY <1>1, <1>2, <1>3, <1>4, <1>5, <1>6, <1>7, <1>8, <1>9, <1>10, <1>11,
     <1>12 DEF Handler

LEMMA OtherCurrentOK ==
    ASSUME TypeOK, CurrentOK,
           \/ \E p \in Pages : SaveInvalidDrafts(p) \/ Outside(p) \/ Network(p)
           \/ Environment
    PROVE  CurrentOK'
<1> USE DEF TypeOK, CurrentOK, Sending
<1>1. ASSUME NEW p \in Pages,
             \/ Open(p) \/ AcquireFails(p)
             \/ InvalidForm(p) \/ SaveInvalidDrafts(p) \/ InvalidFormFails(p)
      PROVE  CurrentOK'
  BY <1>1 DEF Open, InvalidForm, SaveInvalidDrafts, InvalidFormFails, AcquireFails, Goto, localVars
<1>2. ASSUME NEW p \in Pages, Submit(p) PROVE CurrentOK'
  BY <1>2 DEF Submit, Goto
<1>3. ASSUME NEW p \in Pages, Crash(p) \/ ReleaseFails(p) PROVE CurrentOK'
  BY <1>3 DEF Crash, ReleaseFails, Reset
<1>4. ASSUME NEW p \in Pages, StoreFails(p) PROVE CurrentOK'
  BY <1>4 DEF StoreFails, Goto, Reset
<1>5. ASSUME NEW p \in Pages, Network(p) PROVE CurrentOK'
  BY <1>5 DEF Network, Deliver, Drop, Goto
<1>6. CASE Environment
  BY <1>6 DEF Environment, OrphanEnds, LookAlikeAppears, Push, RecoverLease, localVars
<1>7. QED
  BY <1>1, <1>2, <1>3, <1>4, <1>5, <1>6 DEF Outside

\* Every reachable state is well typed: in particular, whatever a provider
\* answers, an outcome is one of the states the record's schema admits, and a
\* run that is sending knows which comment it sends.
THEOREM TypeCorrect == Spec => [](TypeOK /\ CurrentOK)
<1>1. Init => TypeOK /\ CurrentOK
  BY InitTypeOK DEF Init, CurrentOK, Sending
<1>2. TypeOK /\ CurrentOK /\ [Next]_vars => TypeOK' /\ CurrentOK'
  <2> SUFFICES ASSUME TypeOK, CurrentOK, [Next]_vars
               PROVE  TypeOK' /\ CurrentOK'
    OBVIOUS
  <2>1. CASE \E p \in Pages : Handler(p)
    BY <2>1, HandlerTypeOK, HandlerCurrentOK
  <2>2. CASE (\E p \in Pages : SaveInvalidDrafts(p) \/ Outside(p) \/ Network(p)) \/ Environment
    BY <2>2, OtherTypeOK, OtherCurrentOK
  <2>3. CASE UNCHANGED vars
    BY <2>3 DEF vars, fileVars, remoteVars, localVars, forms, history, TypeOK, CurrentOK
  <2>4. QED
    BY <2>1, <2>2, <2>3 DEF Next
<1>3. QED
  BY <1>1, <1>2, PTL DEF Spec

-----------------------------------------------------------------------------
(* One publisher at a time, and at most one straggler.                      *)

\* The lease file names the page that is publishing.
LeaseOK == \A p \in Pages : Holds(p) => lease = p

LEMMA HandlerLeaseOK ==
    ASSUME TypeOK, LeaseOK, NEW p \in Pages, Handler(p)
    PROVE  LeaseOK'
<1> USE PublicationAssumption DEF TypeOK, LeaseOK, Holds, Leased
<1>1. CASE ReopenLookup(p)
  BY <1>1 DEF ReopenLookup, Goto, fileVars
<1>2. CASE ReopenUnchanged(p) \/ ReopenRecord(p) \/ LeaseHeld(p)
  BY <1>2 DEF ReopenUnchanged, ReopenRecord, LeaseHeld, Reset, fileVars
<1>3. CASE AcquireLease(p)
  BY <1>3 DEF AcquireLease, Goto
<1>4. CASE ReadRecord(p) \/ SaveDrafts(p) \/ RecordSubmission(p)
  BY <1>4 DEF ReadRecord, SaveDrafts, RecordSubmission, Goto, fileVars
<1>5. CASE Identity(p) \/ CheckRevision(p) \/ ListDiscussions(p) \/ Recheck(p) \/ Finish(p)
  BY <1>5 DEF Identity, CheckRevision, ListDiscussions, Recheck, Finish, Goto, Stop, fileVars
<1>6. CASE Consider(p)
  BY <1>6 DEF Consider, Goto, Stop, Conclude, fileVars
<1>7. CASE Post(p) \/ AnswerLost(p)
  BY <1>7 DEF Post, AnswerLost, Goto, fileVars
<1>8. CASE PostNotStarted(p) \/ Answered(p) \/ Relist(p)
  BY <1>8 DEF PostNotStarted, Answered, Relist, Goto, Conclude, fileVars
<1>9. CASE ReadLease(p)
  BY <1>9 DEF ReadLease, Goto, Reset, fileVars
<1>10. CASE RemoveLease(p)
  BY <1>10 DEF RemoveLease, Reset
<1>11. QED
  BY <1>1, <1>2, <1>3, <1>4, <1>5, <1>6, <1>7, <1>8, <1>9, <1>10 DEF Handler

LEMMA OtherLeaseOK ==
    ASSUME TypeOK, LeaseOK, ~CarelessRecovery,
           \/ \E p \in Pages : SaveInvalidDrafts(p) \/ Outside(p) \/ Network(p)
           \/ Environment
    PROVE  LeaseOK'
<1> USE PublicationAssumption DEF TypeOK, LeaseOK, Holds, Leased
<1>1. ASSUME NEW p \in Pages, SaveInvalidDrafts(p) \/ Outside(p) PROVE LeaseOK'
  <2>1. CASE Open(p) \/ Submit(p)
    BY <2>1 DEF Open, Submit, Goto, fileVars
  <2>2. CASE AcquireFails(p)
    BY <2>2 DEF AcquireFails, Goto
  <2>3. CASE StoreFails(p)
    BY <2>3 DEF StoreFails, Goto, Reset, fileVars
  <2>4. CASE Crash(p) \/ ReleaseFails(p)
    BY <2>4 DEF Crash, ReleaseFails, Reset, fileVars
  <2>5. CASE InvalidForm(p) \/ SaveInvalidDrafts(p) \/ InvalidFormFails(p)
    BY <2>5 DEF InvalidForm, SaveInvalidDrafts, InvalidFormFails, fileVars, localVars
  <2>6. QED
    BY <1>1, <2>1, <2>2, <2>3, <2>4, <2>5 DEF Outside
<1>2. ASSUME NEW p \in Pages, Network(p) PROVE LeaseOK'
  BY <1>2 DEF Network, Deliver, Drop, Goto, fileVars
<1>3. CASE RecoverLease
  BY <1>3 DEF RecoverLease, localVars
<1>4. CASE Environment /\ ~RecoverLease
  BY <1>4 DEF Environment, OrphanEnds, LookAlikeAppears, Push, fileVars, localVars
<1>5. QED
  BY <1>1, <1>2, <1>3, <1>4

\* While no lease of a live page is removed by hand, two pages never publish
\* the same review at once: the lease file is created exclusively, kept until
\* the recorded outcome, and removed by its owner only.
THEOREM OnePublisherHolds ==
    ASSUME ~CarelessRecovery
    PROVE  Spec => [](LeaseOK /\ OnePublisher)
<1>1. Init => LeaseOK
  BY DEF Init, LeaseOK, Holds, Leased
<1>2. TypeOK /\ LeaseOK /\ [Next]_vars => LeaseOK'
  <2> SUFFICES ASSUME TypeOK, LeaseOK, [Next]_vars PROVE LeaseOK'
    OBVIOUS
  <2>1. CASE \E p \in Pages : Handler(p)
    BY <2>1, HandlerLeaseOK
  <2>2. CASE (\E p \in Pages : SaveInvalidDrafts(p) \/ Outside(p) \/ Network(p)) \/ Environment
    BY <2>2, OtherLeaseOK
  <2>3. CASE UNCHANGED vars
    BY <2>3 DEF vars, fileVars, localVars, LeaseOK, Holds
  <2>4. QED
    BY <2>1, <2>2, <2>3 DEF Next
<1>3. LeaseOK => OnePublisher
  BY DEF LeaseOK, OnePublisher
<1>4. QED
  BY <1>1, <1>2, <1>3, TypeCorrect, PTL DEF Spec

\* Once a comment was sent to a merge request that had moved, no page stands
\* past its re-check any more, and no re-check will be answered "current".
StragglerOK ==
    /\ stragglers \in {0, 1}
    /\ stragglers = 1 => revision = "moved" /\ \A p \in Pages : pc[p] # "posting"

LEMMA HandlerStragglerOK ==
    ASSUME TypeOK, LeaseOK, StragglerOK, NEW p \in Pages, Handler(p)
    PROVE  StragglerOK'
<1> USE DEF TypeOK, StragglerOK, remoteVars, history
<1>1. CASE ReopenLookup(p) \/ AcquireLease(p) \/ ReadRecord(p) \/ SaveDrafts(p)
           \/ RecordSubmission(p)
  BY <1>1 DEF ReopenLookup, AcquireLease, ReadRecord, SaveDrafts, RecordSubmission, Goto
<1>2. CASE ReopenUnchanged(p) \/ ReopenRecord(p) \/ LeaseHeld(p) \/ RemoveLease(p)
  BY <1>2 DEF ReopenUnchanged, ReopenRecord, LeaseHeld, RemoveLease, Reset
<1>3. CASE Identity(p) \/ CheckRevision(p) \/ ListDiscussions(p) \/ Finish(p)
  BY <1>3 DEF Identity, CheckRevision, ListDiscussions, Finish, Goto, Stop
<1>4. CASE Consider(p)
  BY <1>4 DEF Consider, Goto, Stop, Conclude
<1>5. CASE Recheck(p)
  BY <1>5 DEF Recheck, RevisionAnswers, Goto, Stop
<1>6. CASE Post(p)
  <2>1. \A q \in Pages : pc[q] = "posting" => q = p
    BY <1>6 DEF Post, LeaseOK, Holds, Leased
  <2>2. QED
    BY <1>6, <2>1 DEF Post, Goto
<1>7. CASE AnswerLost(p)
  BY <1>7 DEF AnswerLost, Goto
<1>8. CASE PostNotStarted(p) \/ Answered(p) \/ Relist(p)
  BY <1>8 DEF PostNotStarted, Answered, Relist, Goto, Conclude
<1>9. CASE ReadLease(p)
  BY <1>9 DEF ReadLease, Goto, Reset
<1>10. QED
  BY <1>1, <1>2, <1>3, <1>4, <1>5, <1>6, <1>7, <1>8, <1>9 DEF Handler

LEMMA OtherStragglerOK ==
    ASSUME TypeOK, StragglerOK,
           \/ \E p \in Pages : SaveInvalidDrafts(p) \/ Outside(p) \/ Network(p)
           \/ Environment
    PROVE  StragglerOK'
<1> USE DEF TypeOK, StragglerOK, remoteVars, history
<1>1. ASSUME NEW p \in Pages, SaveInvalidDrafts(p) \/ Outside(p) PROVE StragglerOK'
  <2>1. CASE Open(p) \/ Submit(p) \/ AcquireFails(p)
    BY <2>1 DEF Open, Submit, AcquireFails, Goto
  <2>2. CASE StoreFails(p)
    BY <2>2 DEF StoreFails, Goto, Reset
  <2>3. CASE Crash(p) \/ ReleaseFails(p)
    BY <2>3 DEF Crash, ReleaseFails, Reset
  <2>4. CASE InvalidForm(p) \/ SaveInvalidDrafts(p) \/ InvalidFormFails(p)
    BY <2>4 DEF InvalidForm, SaveInvalidDrafts, InvalidFormFails, localVars
  <2>5. QED
    BY <1>1, <2>1, <2>2, <2>3, <2>4 DEF Outside
<1>2. ASSUME NEW p \in Pages, Network(p) PROVE StragglerOK'
  BY <1>2 DEF Network, Deliver, Drop, Goto
<1>3. CASE Environment
  BY <1>3 DEF Environment, OrphanEnds, LookAlikeAppears, Push, RecoverLease, localVars
<1>4. QED
  BY <1>1, <1>2, <1>3

\* After a push, at most one more comment is sent, over all pages and retries:
\* the re-check before every POST leaves room for the one already re-checked.
THEOREM AtMostOneStragglerHolds ==
    ASSUME ~CarelessRecovery
    PROVE  Spec => []AtMostOneStraggler
<1>1. Init => StragglerOK
  BY DEF Init, StragglerOK
<1>2. TypeOK /\ LeaseOK /\ StragglerOK /\ [Next]_vars => StragglerOK'
  <2> SUFFICES ASSUME TypeOK, LeaseOK, StragglerOK, [Next]_vars PROVE StragglerOK'
    OBVIOUS
  <2>1. CASE \E p \in Pages : Handler(p)
    BY <2>1, HandlerStragglerOK
  <2>2. CASE (\E p \in Pages : SaveInvalidDrafts(p) \/ Outside(p) \/ Network(p)) \/ Environment
    BY <2>2, OtherStragglerOK
  <2>3. CASE UNCHANGED vars
    BY <2>3 DEF vars, remoteVars, localVars, forms, history, StragglerOK
  <2>4. QED
    BY <2>1, <2>2, <2>3 DEF Next
<1>3. StragglerOK => AtMostOneStraggler
  BY DEF StragglerOK, AtMostOneStraggler
<1>4. QED
  BY <1>1, <1>2, <1>3, TypeCorrect, OnePublisherHolds, PTL DEF Spec

-----------------------------------------------------------------------------
(* What is recorded as published is on the merge request.                   *)

\* Not the record only: all that a page remembers and may yet record.
ExistsOK ==
    /\ ConfirmedExists
    /\ \A p \in Pages : \A f \in Findings :
         /\ mem[p][f] \in Settled => posted[f] > 0
         /\ out[p][f] \in Settled => posted[f] > 0
         /\ Genuine(f) \in listing[p].notes => posted[f] > 0
    /\ \A p \in Pages : pc[p] = "arrived" => posted[cur[p]] > 0
    /\ \A form \in invalid, f \in Findings : form.read[f] \in Settled => posted[f] > 0

LEMMA GenuineNote ==
    ASSUME NEW n \in Note, NEW f \in Findings
    PROVE  n.finding = f /\ n.author = "me" /\ n.exact <=> n = Genuine(f)
<1>1. ASSUME n.finding = f, n.author = "me", n.exact PROVE n = Genuine(f)
  <2>1. n.exact = TRUE
    BY <1>1 DEF Note
  <2>2. n = [finding |-> n.finding, author |-> n.author, exact |-> n.exact]
    BY DEF Note
  <2>3. QED
    BY <1>1, <2>1, <2>2 DEF Genuine
<1>2. ASSUME n = Genuine(f) PROVE n.finding = f /\ n.author = "me" /\ n.exact
  BY <1>2 DEF Genuine
<1>3. QED
  BY <1>1, <1>2

LEMMA FoundIsGenuine ==
    ASSUME NEW l \in [notes: SUBSET Note, complete: BOOLEAN], NEW f \in Findings
    PROVE  (Reconcile(l, f) = "found") <=> Genuine(f) \in l.notes
<1>1. l.notes \subseteq Note
  OBVIOUS
<1>2. (\E n \in l.notes : n.finding = f /\ n.author = "me" /\ n.exact) <=> Genuine(f) \in l.notes
  BY <1>1, GenuineNote
<1>3. QED
  BY <1>2 DEF Reconcile

LEMMA ListingsSplit ==
    ASSUME NEW l \in Listings
    PROVE  /\ l.notes \subseteq NotesOnMR
           /\ l.complete => l.notes = NotesOnMR
<1>1. CASE l = [notes |-> NotesOnMR, complete |-> TRUE]
  BY <1>1
<1>2. CASE l \in [notes : SUBSET NotesOnMR, complete : {FALSE}]
  BY <1>2
<1>3. QED
  BY <1>1, <1>2 DEF Listings

LEMMA ListedExists ==
    ASSUME TypeOK, NEW l \in Listings, NEW f \in Findings, Genuine(f) \in l.notes
    PROVE  posted[f] > 0
<1>1. Genuine(f) \in NotesOnMR
  BY ListingsSplit
<1>2. Genuine(f) \notin lookalikes
  BY PublicationAssumption DEF TypeOK
<1>3. PICK g \in Findings : posted[g] > 0 /\ Genuine(f) = Genuine(g)
  BY <1>1, <1>2 DEF NotesOnMR
<1>4. QED
  BY <1>3 DEF Genuine

LEMMA CompleteListsAll ==
    ASSUME NEW l \in Listings, l.complete, NEW f \in Findings, posted[f] > 0
    PROVE  Genuine(f) \in l.notes
BY ListingsSplit DEF NotesOnMR

LEMMA MergeSettled ==
    ASSUME NEW old, NEW new, NEW f \in Findings, Merge(old, new)[f] \in Settled
    PROVE  old[f] \in Settled \/ new[f] \in Settled
BY DEF Merge

\* Forgetting what a handler knew keeps ExistsOK.
LEMMA ResetExistsOK ==
    ASSUME TypeOK, ExistsOK, ConfirmedExists', NEW p \in Pages, NEW l, l # "arrived",
           Reset(p, l), posted' = posted, invalid' \subseteq invalid
    PROVE  ExistsOK'
<1>1. \A f \in Findings : NoOutcomes[f] \notin Settled
  BY DEF NoOutcomes, Settled
<1>2. NoListing.notes = {}
  BY DEF NoListing
<1>3. QED
  BY <1>1, <1>2 DEF TypeOK, ExistsOK, Reset

LEMMA StopExistsOK ==
    ASSUME TypeOK, ExistsOK, NEW p \in Pages, NEW state \in State \ Settled,
           Stop(p, state), UNCHANGED <<record, posted, mem, invalid>>
    PROVE  ExistsOK'
<1>1. \A f \in Findings :
         StopAll(out[p], todo[p], state)[f] \in Settled => out[p][f] \in Settled
  BY DEF StopAll
<1>2. NoListing.notes = {}
  BY DEF NoListing
<1>3. QED
  BY <1>1, <1>2 DEF TypeOK, ExistsOK, ConfirmedExists, Stop, Goto

\* Concluding with a settled outcome is right for a comment that exists.
LEMMA ConcludeExistsOK ==
    ASSUME TypeOK, ExistsOK, NEW p \in Pages, NEW f \in Findings, NEW state,
           state \in Settled => posted[f] > 0,
           Conclude(p, f, state), UNCHANGED <<record, posted, mem, invalid>>,
           \A q \in Pages : \A g \in Findings :
               Genuine(g) \in listing'[q].notes => posted[g] > 0
    PROVE  ExistsOK'
<1>1. \A q \in Pages : \A g \in Findings : out'[q][g] \in Settled => posted[g] > 0
  BY DEF TypeOK, Outcomes, ExistsOK, Conclude
<1>2. QED
  BY <1>1 DEF TypeOK, ExistsOK, ConfirmedExists, Conclude, Goto

LEMMA HandlerExistsOK ==
    ASSUME TypeOK, CurrentOK, ExistsOK, NEW p \in Pages, Handler(p)
    PROVE  ExistsOK'
<1> USE DEF fileVars, remoteVars, forms
<1>1. CASE ReopenLookup(p)
  <2>1. PICK l \in Listings :
           out' = [out EXCEPT ![p] = StopAll(NoOutcomes, Confirmed(mem[p], l), "published")]
    BY <1>1 DEF ReopenLookup
  <2>2. \A f \in Confirmed(mem[p], l) : posted[f] > 0
    BY ListingsType, FoundIsGenuine, ListedExists DEF Confirmed
  <2>3. \A f \in Findings :
           StopAll(NoOutcomes, Confirmed(mem[p], l), "published")[f] \in Settled => posted[f] > 0
    BY <2>2 DEF StopAll, NoOutcomes, Settled
  <2>4. QED
    BY <1>1, <2>1, <2>3 DEF ReopenLookup, Goto, TypeOK, ExistsOK, ConfirmedExists
<1>2. CASE ReopenUnchanged(p) \/ LeaseHeld(p) \/ RemoveLease(p)
  BY <1>2, ResetExistsOK DEF ReopenUnchanged, LeaseHeld, RemoveLease, ExistsOK, ConfirmedExists
<1>3. CASE ReopenRecord(p)
  <2>1. ConfirmedExists'
    <3>1. record' = Merge(mem[p], out[p]) /\ posted' = posted
      BY <1>3 DEF ReopenRecord
    <3>2. QED
      BY <3>1, MergeSettled DEF ConfirmedExists, ExistsOK
  <2>2. QED
    BY <1>3, <2>1, ResetExistsOK DEF ReopenRecord
<1>5. CASE AcquireLease(p)
  BY <1>5 DEF AcquireLease, Goto, TypeOK, ExistsOK, ConfirmedExists
<1>6. CASE ReadRecord(p)
  BY <1>6 DEF ReadRecord, Goto, TypeOK, ExistsOK, ConfirmedExists
<1>7. CASE SaveDrafts(p)
  BY <1>7 DEF SaveDrafts, Goto, TypeOK, ExistsOK, ConfirmedExists
<1>8. CASE Identity(p)
  BY <1>8, StopExistsOK
     DEF Identity, Goto, TypeOK, ExistsOK, ConfirmedExists, State, Settled
<1>9. CASE CheckRevision(p) \/ Recheck(p)
  BY <1>9, StopExistsOK
     DEF CheckRevision, Recheck, RevisionAnswers, Goto, TypeOK, ExistsOK,
         ConfirmedExists, State, Settled
<1>10. CASE ListDiscussions(p)
  <2>1. CASE Stop(p, "failed-before-send")
    BY <1>10, <2>1, StopExistsOK DEF ListDiscussions, State, Settled
  <2>2. CASE ~Stop(p, "failed-before-send")
    BY <1>10, <2>2, ListedExists
       DEF ListDiscussions, Goto, TypeOK, ExistsOK, ConfirmedExists
  <2>3. QED
    BY <2>1, <2>2
<1>11. CASE Consider(p)
  <2>1. PICK f \in todo[p] :
          \/ /\ mem[p][f] \in Settled \/ Reconcile(listing[p], f) = "found"
             /\ Conclude(p, f, "already-published")
             /\ UNCHANGED listing
          \/ Stop(p, "failed-before-send")
          \/ /\ Goto(p, "rechecking")
             /\ cur' = [cur EXCEPT ![p] = f]
             /\ UNCHANGED <<listing, out>>
    BY <1>11 DEF Consider
  <2>2. f \in Findings /\ listing[p] \in [notes: SUBSET Note, complete: BOOLEAN]
    BY DEF TypeOK
  <2>3. ASSUME mem[p][f] \in Settled \/ Reconcile(listing[p], f) = "found"
        PROVE  posted[f] > 0
    BY <2>2, <2>3, FoundIsGenuine DEF ExistsOK
  <2>4. CASE /\ posted[f] > 0
             /\ Conclude(p, f, "already-published")
             /\ UNCHANGED listing
    BY <1>11, <2>2, <2>4, ConcludeExistsOK DEF Consider, ExistsOK
  <2>5. CASE Stop(p, "failed-before-send")
    BY <1>11, <2>5, StopExistsOK DEF Consider, State, Settled
  <2>6. CASE Goto(p, "rechecking") /\ cur' = [cur EXCEPT ![p] = f] /\ UNCHANGED <<listing, out>>
    BY <1>11, <2>6 DEF Consider, Goto, TypeOK, ExistsOK, ConfirmedExists
  <2>7. QED
    BY <2>1, <2>3, <2>4, <2>5, <2>6
<1>12. CASE Post(p) \/ AnswerLost(p)
  BY <1>12 DEF Post, AnswerLost, Goto, TypeOK, ExistsOK, ConfirmedExists
<1>13. CASE PostNotStarted(p) \/ Answered(p)
  <2>1. cur[p] \in Findings
    BY <1>13 DEF PostNotStarted, Answered, Sending, CurrentOK, TypeOK
  <2>2. \A q \in Pages : \A g \in Findings : Genuine(g) \in listing[q].notes => posted[g] > 0
    BY DEF ExistsOK
  <2>3. CASE PostNotStarted(p)
    <3>1. "failed-before-send" \notin Settled
      BY DEF Settled
    <3>2. QED
      BY <2>1, <2>2, <2>3, <3>1, ConcludeExistsOK DEF PostNotStarted
  <2>4. CASE Answered(p)
    <3>1. posted[cur[p]] > 0
      BY <2>4 DEF Answered, ExistsOK
    <3>2. QED
      BY <2>1, <2>2, <2>4, <3>1, ConcludeExistsOK DEF Answered
  <2>5. QED
    BY <1>13, <2>3, <2>4
<1>14. CASE Relist(p)
  <2>1. cur[p] \in Findings
    BY <1>14 DEF Relist, Sending, CurrentOK, TypeOK
  <2>2. CASE Conclude(p, cur[p], "uncertain") /\ UNCHANGED listing
    BY <1>14, <2>1, <2>2, ConcludeExistsOK DEF Relist, ExistsOK, Settled
  <2>3. ASSUME NEW l \in Listings,
               listing' = [listing EXCEPT ![p] = l],
               Conclude(p, cur[p], IF Reconcile(l, cur[p]) = "found" THEN "published" ELSE "uncertain")
        PROVE  ExistsOK'
    <3>1. Reconcile(l, cur[p]) = "found" => posted[cur[p]] > 0
      BY <2>1, ListingsType, FoundIsGenuine, ListedExists
    <3>2. \A q \in Pages : \A g \in Findings :
             Genuine(g) \in listing'[q].notes => posted[g] > 0
      BY <2>3, ListedExists DEF ExistsOK, TypeOK
    <3>3. QED
      BY <1>14, <2>1, <2>3, <3>1, <3>2, ConcludeExistsOK DEF Relist, Settled
  <2>4. QED
    BY <1>14, <2>2, <2>3 DEF Relist
<1>15. CASE Finish(p)
  BY <1>15, StopExistsOK DEF Finish, State, Settled
<1>16. CASE RecordSubmission(p)
  <2>1. record' = Merge(mem[p], out[p]) /\ posted' = posted
    BY <1>16 DEF RecordSubmission
  <2>2. ConfirmedExists'
    BY <2>1, MergeSettled DEF ConfirmedExists, ExistsOK
  <2>3. QED
    BY <1>16, <2>2 DEF RecordSubmission, Goto, TypeOK, ExistsOK
<1>17. CASE ReadLease(p)
  <2>1. CASE Reset(p, "idle")
    BY <1>17, <2>1, ResetExistsOK DEF ReadLease, ExistsOK, ConfirmedExists
  <2>2. CASE ~Reset(p, "idle")
    BY <1>17, <2>2 DEF ReadLease, Goto, TypeOK, ExistsOK, ConfirmedExists
  <2>3. QED
    BY <2>1, <2>2
<1>18. QED
  BY <1>1, <1>2, <1>3, <1>5, <1>6, <1>7, <1>8, <1>9, <1>10, <1>11, <1>12,
     <1>13, <1>14, <1>15, <1>16, <1>17 DEF Handler

LEMMA OtherExistsOK ==
    ASSUME TypeOK, CurrentOK, ExistsOK,
           \/ \E p \in Pages : SaveInvalidDrafts(p) \/ Outside(p) \/ Network(p)
           \/ Environment
    PROVE  ExistsOK'
<1> USE DEF fileVars, remoteVars, forms
<1>1. ASSUME NEW p \in Pages, Open(p) \/ AcquireFails(p) PROVE ExistsOK'
  BY <1>1 DEF Open, AcquireFails, Goto, TypeOK, ExistsOK, ConfirmedExists
<1>2. ASSUME NEW p \in Pages, Submit(p) PROVE ExistsOK'
  <2>1. PICK selected \in SUBSET Findings :
           out' = [out EXCEPT ![p] = StopAll(@, Findings \ selected, "not-selected")]
    BY <1>2 DEF Submit
  <2>2. \A f \in Findings :
           StopAll(out[p], Findings \ selected, "not-selected")[f] \in Settled => out[p][f] \in Settled
    BY DEF StopAll, Settled
  <2>3. QED
    BY <1>2, <2>1, <2>2 DEF Submit, Goto, TypeOK, ExistsOK, ConfirmedExists
<1>3. ASSUME NEW p \in Pages, Crash(p) \/ ReleaseFails(p) PROVE ExistsOK'
  BY <1>3, ResetExistsOK DEF Crash, ReleaseFails, ExistsOK, ConfirmedExists
<1>4. ASSUME NEW p \in Pages, StoreFails(p) PROVE ExistsOK'
  <2>1. CASE Reset(p, "closed") \/ Reset(p, "idle")
    BY <1>4, <2>1, ResetExistsOK DEF StoreFails, ExistsOK, ConfirmedExists
  <2>2. CASE ~(Reset(p, "closed") \/ Reset(p, "idle"))
    BY <1>4, <2>2 DEF StoreFails, Goto, TypeOK, ExistsOK, ConfirmedExists
  <2>3. QED
    BY <2>1, <2>2
<1>5. ASSUME NEW p \in Pages, Deliver(p) PROVE ExistsOK'
  <2>1. cur[p] \in Findings
    BY <1>5 DEF Deliver, Sending, CurrentOK, TypeOK
  <2>2. \A f \in Findings : posted[f] > 0 => posted'[f] > 0
    BY <1>5, <2>1 DEF Deliver, TypeOK
  <2>3. posted'[cur[p]] > 0
    BY <1>5, <2>1 DEF Deliver, TypeOK
  <2>4. \A q \in Pages : pc'[q] = "arrived" => posted'[cur'[q]] > 0
    <3>1. \A q \in Pages : pc[q] = "arrived" => cur[q] \in Findings
      BY DEF Sending, CurrentOK, TypeOK
    <3>2. QED
      BY <1>5, <2>2, <2>3, <3>1 DEF Deliver, Goto, TypeOK, ExistsOK
  <2>5. QED
    BY <1>5, <2>2, <2>4 DEF Deliver, TypeOK, ExistsOK, ConfirmedExists
<1>6. ASSUME NEW p \in Pages, Drop(p) PROVE ExistsOK'
  BY <1>6 DEF Drop, Goto, TypeOK, ExistsOK, ConfirmedExists
<1>7. ASSUME NEW f \in Findings, OrphanEnds(f) PROVE ExistsOK'
  <2>1. \A g \in Findings : posted[g] > 0 => posted'[g] > 0
    BY <1>7 DEF OrphanEnds, TypeOK
  <2>2. \A q \in Pages : pc[q] = "arrived" => cur[q] \in Findings
    BY DEF Sending, CurrentOK, TypeOK
  <2>3. QED
    BY <1>7, <2>1, <2>2 DEF OrphanEnds, localVars, ExistsOK, ConfirmedExists
<1>8. CASE (\E n \in LookAlikes : LookAlikeAppears(n)) \/ Push \/ RecoverLease
  BY <1>8 DEF LookAlikeAppears, Push, RecoverLease, localVars, ExistsOK, ConfirmedExists
<1>9. ASSUME NEW p \in Pages, InvalidForm(p) \/ SaveInvalidDrafts(p) \/ InvalidFormFails(p) PROVE ExistsOK'
  BY <1>9 DEF InvalidForm, SaveInvalidDrafts, InvalidFormFails, localVars, ExistsOK, ConfirmedExists
<1>10. QED
  BY <1>1, <1>2, <1>3, <1>4, <1>5, <1>6, <1>7, <1>8, <1>9 DEF Outside, Network, Environment

\* Whatever the saved record calls published is on the merge request as our own
\* comment at the exact position - with late deliveries, with leases removed by
\* hand under a live page, with failing files, with forms of other tabs that write
\* an older record back, whoever copies the marker.
THEOREM ConfirmedExistsHolds == Spec => []ConfirmedExists
<1>1. Init => ExistsOK
  BY DEF Init, ExistsOK, ConfirmedExists, NoOutcomes, NoListing, Settled
<1>2. TypeOK /\ CurrentOK /\ ExistsOK /\ [Next]_vars => ExistsOK'
  <2> SUFFICES ASSUME TypeOK, CurrentOK, ExistsOK, [Next]_vars PROVE ExistsOK'
    OBVIOUS
  <2>1. CASE \E p \in Pages : Handler(p)
    BY <2>1, HandlerExistsOK
  <2>2. CASE (\E p \in Pages : SaveInvalidDrafts(p) \/ Outside(p) \/ Network(p)) \/ Environment
    BY <2>2, OtherExistsOK
  <2>3. CASE UNCHANGED vars
    BY <2>3 DEF vars, fileVars, remoteVars, localVars, forms, ExistsOK, ConfirmedExists
  <2>4. QED
    BY <2>1, <2>2, <2>3 DEF Next
<1>3. ExistsOK => ConfirmedExists
  BY DEF ExistsOK
<1>4. QED
  BY <1>1, <1>2, <1>3, TypeCorrect, PTL DEF Spec

-----------------------------------------------------------------------------
(* What a run reports of the comments it sent.                               *)

\* A comment that was sent is either the one whose fate is being settled, or it
\* is dealt with and reported "published" or "uncertain".
SentOK ==
    \A p \in Pages :
        /\ sent[p] \cap todo[p] \subseteq {cur[p]}
        /\ pc[p] \in {"next", "rechecking", "posting"} => sent[p] \cap todo[p] = {}
        /\ \A f \in todo[p] : out[p][f] = "none"
        /\ \A f \in sent[p] \ todo[p] : out[p][f] \in {"published", "uncertain"}
        /\ pc[p] \in {"closed", "opening", "idle"} =>
             sent[p] = {} /\ todo[p] = {} /\ out[p] = NoOutcomes

LEMMA ResetSentOK ==
    ASSUME TypeOK, SentOK, NEW p \in Pages, NEW l, Reset(p, l)
    PROVE  SentOK'
BY DEF TypeOK, SentOK, Reset

LEMMA StopSentOK ==
    ASSUME TypeOK, SentOK, NEW p \in Pages, NEW state, Stop(p, state),
           sent[p] \cap todo[p] = {}, UNCHANGED sent
    PROVE  SentOK'
<1>1. \A f \in sent[p] : StopAll(out[p], todo[p], state)[f] = out[p][f]
  BY DEF StopAll, TypeOK
<1>2. QED
  BY <1>1 DEF TypeOK, SentOK, Stop, Goto

LEMMA ConcludeSentOK ==
    ASSUME TypeOK, SentOK, NEW p \in Pages, NEW f \in todo[p], NEW state,
           Conclude(p, f, state), UNCHANGED sent,
           sent[p] \cap todo[p] \subseteq {f},
           f \in sent[p] => state \in {"published", "uncertain"}
    PROVE  SentOK'
<1>1. \A g \in Findings : out'[p][g] = IF g = f THEN state ELSE out[p][g]
  BY DEF TypeOK, Outcomes, Conclude
<1>2. QED
  BY <1>1 DEF TypeOK, SentOK, Conclude, Goto

LEMMA HandlerSentOK ==
    ASSUME TypeOK, CurrentOK, SentOK, NEW p \in Pages, Handler(p)
    PROVE  SentOK'
<1> USE DEF history
<1>1. CASE ReopenLookup(p)
  BY <1>1 DEF ReopenLookup, Goto, TypeOK, SentOK
<1>2. CASE ReopenUnchanged(p) \/ ReopenRecord(p) \/ LeaseHeld(p) \/ RemoveLease(p)
  BY <1>2, ResetSentOK
     DEF ReopenUnchanged, ReopenRecord, LeaseHeld, RemoveLease
<1>3. CASE AcquireLease(p) \/ ReadRecord(p) \/ SaveDrafts(p) \/ RecordSubmission(p)
  BY <1>3 DEF AcquireLease, ReadRecord, SaveDrafts, RecordSubmission, Goto, TypeOK, SentOK
<1>4. CASE Identity(p) \/ CheckRevision(p) \/ ListDiscussions(p) \/ Recheck(p)
  <2>1. sent[p] \cap todo[p] = {}
    BY <1>4, PublicationAssumption
       DEF Identity, CheckRevision, ListDiscussions, Recheck, TypeOK, CurrentOK, Sending, SentOK
  <2>2. CASE \E state : Stop(p, state)
    BY <1>4, <2>1, <2>2, StopSentOK DEF Identity, CheckRevision, ListDiscussions, Recheck
  <2>3. CASE ~\E state : Stop(p, state)
    BY <1>4, <2>1, <2>3
       DEF Identity, CheckRevision, ListDiscussions, Recheck, Goto, TypeOK, SentOK
  <2>4. QED
    BY <2>2, <2>3
<1>5. CASE Consider(p)
  <2>1. PICK f \in todo[p] :
          \/ Conclude(p, f, "already-published")
          \/ Stop(p, "failed-before-send")
          \/ /\ Goto(p, "rechecking")
             /\ cur' = [cur EXCEPT ![p] = f]
             /\ UNCHANGED <<todo, listing, out>>
    BY <1>5 DEF Consider
  <2>2. sent[p] \cap todo[p] = {}
    BY <1>5 DEF Consider, SentOK
  <2>3. CASE Conclude(p, f, "already-published")
    BY <1>5, <2>2, <2>3, ConcludeSentOK DEF Consider
  <2>4. CASE Stop(p, "failed-before-send")
    BY <1>5, <2>2, <2>4, StopSentOK DEF Consider
  <2>5. CASE /\ Goto(p, "rechecking")
             /\ cur' = [cur EXCEPT ![p] = f]
             /\ UNCHANGED <<todo, listing, out>>
    BY <1>5, <2>2, <2>5 DEF Consider, Goto, TypeOK, SentOK
  <2>6. QED
    BY <2>1, <2>3, <2>4, <2>5
<1>6. CASE Post(p)
  <2>1. cur[p] \in todo[p]
    BY <1>6 DEF Post, CurrentOK, Sending
  <2>2. QED
    BY <1>6, <2>1 DEF Post, Goto, TypeOK, SentOK
<1>7. CASE AnswerLost(p)
  BY <1>7 DEF AnswerLost, Goto, TypeOK, SentOK
<1>8. CASE PostNotStarted(p) \/ Answered(p) \/ Relist(p)
  <2>1. cur[p] \in todo[p] /\ sent[p] \cap todo[p] \subseteq {cur[p]}
    BY <1>8 DEF PostNotStarted, Answered, Relist, CurrentOK, Sending, SentOK
  <2>2. CASE PostNotStarted(p)
    BY <2>1, <2>2, ConcludeSentOK DEF PostNotStarted, SentOK
  <2>3. CASE Answered(p) \/ Relist(p)
    BY <2>1, <2>3, ConcludeSentOK DEF Answered, Relist
  <2>4. QED
    BY <1>8, <2>2, <2>3
<1>9. CASE Finish(p)
  BY <1>9, StopSentOK DEF Finish
<1>10. CASE ReadLease(p)
  <2>1. CASE Reset(p, "idle")
    BY <1>10, <2>1, ResetSentOK DEF ReadLease
  <2>2. CASE ~Reset(p, "idle")
    BY <1>10, <2>2 DEF ReadLease, Goto, TypeOK, SentOK
  <2>3. QED
    BY <2>1, <2>2
<1>11. QED
  BY <1>1, <1>2, <1>3, <1>4, <1>5, <1>6, <1>7, <1>8, <1>9, <1>10 DEF Handler

LEMMA OtherSentOK ==
    ASSUME TypeOK, CurrentOK, SentOK,
           \/ \E p \in Pages : SaveInvalidDrafts(p) \/ Outside(p) \/ Network(p)
           \/ Environment
    PROVE  SentOK'
<1> USE DEF history
<1>1. ASSUME NEW p \in Pages, SaveInvalidDrafts(p) \/ Outside(p) PROVE SentOK'
  <2>1. CASE Open(p) \/ AcquireFails(p)
    BY <2>1 DEF Open, AcquireFails, Goto, TypeOK, SentOK
  <2>2. CASE Submit(p)
    <3>1. PICK selected \in SUBSET Findings :
            /\ todo' = [todo EXCEPT ![p] = selected]
            /\ out' = [out EXCEPT ![p] = StopAll(@, Findings \ selected, "not-selected")]
      BY <2>2 DEF Submit
    <3>2. \A f \in selected : StopAll(NoOutcomes, Findings \ selected, "not-selected")[f] = "none"
      BY DEF StopAll, NoOutcomes
    <3>3. out[p] = NoOutcomes /\ sent[p] = {}
      BY <2>2 DEF Submit, SentOK
    <3>4. /\ pc'[p] = "acquiring" /\ sent' = sent
          /\ todo'[p] = selected
          /\ out'[p] = StopAll(NoOutcomes, Findings \ selected, "not-selected")
          /\ cur' = cur
      BY <2>2, <3>1, <3>3 DEF Submit, Goto, TypeOK
    <3>5. ASSUME NEW q \in Pages \ {p}
          PROVE  /\ pc'[q] = pc[q] /\ todo'[q] = todo[q]
                 /\ out'[q] = out[q] /\ sent'[q] = sent[q]
      BY <2>2, <3>1, <3>5 DEF Submit, Goto, TypeOK
    <3>6. QED
      BY <3>2, <3>3, <3>4, <3>5 DEF SentOK
  <2>3. CASE Crash(p) \/ ReleaseFails(p)
    BY <2>3, ResetSentOK DEF Crash, ReleaseFails
  <2>4. CASE StoreFails(p)
    <3>1. CASE Reset(p, "closed") \/ Reset(p, "idle")
      BY <2>4, <3>1, ResetSentOK DEF StoreFails
    <3>2. CASE ~(Reset(p, "closed") \/ Reset(p, "idle"))
      BY <2>4, <3>2 DEF StoreFails, Goto, TypeOK, SentOK
    <3>3. QED
      BY <3>1, <3>2
  <2>5. CASE InvalidForm(p) \/ SaveInvalidDrafts(p) \/ InvalidFormFails(p)
    BY <2>5 DEF InvalidForm, SaveInvalidDrafts, InvalidFormFails, localVars, SentOK
  <2>6. QED
    BY <1>1, <2>1, <2>2, <2>3, <2>4, <2>5 DEF Outside
<1>2. ASSUME NEW p \in Pages, Network(p) PROVE SentOK'
  <2>1. PICK l \in {"arrived", "dropped"} : pc' = [pc EXCEPT ![p] = l]
    BY <1>2 DEF Network, Deliver, Drop, Goto
  <2>2. UNCHANGED <<todo, cur, out, sent>>
    BY <1>2 DEF Network, Deliver, Drop
  <2>3. \A q \in Pages : pc'[q] = IF q = p THEN l ELSE pc[q]
    BY <2>1 DEF TypeOK
  <2>4. QED
    BY <2>2, <2>3 DEF SentOK
<1>3. ASSUME Environment PROVE SentOK'
  <2>1. UNCHANGED <<localVars, history>>
    BY <1>3 DEF Environment, OrphanEnds, LookAlikeAppears, Push, RecoverLease
  <2>2. QED
    BY <2>1 DEF localVars, SentOK
<1>4. QED
  BY <1>1, <1>2, <1>3

\* A run never reports as unsent a comment that it sent, wherever it stops.
THEOREM SentIsNeverReportedUnsentHolds == Spec => []SentIsNeverReportedUnsent
<1>1. Init => SentOK
  BY DEF Init, SentOK
<1>2. TypeOK /\ CurrentOK /\ SentOK /\ [Next]_vars => SentOK'
  <2> SUFFICES ASSUME TypeOK, CurrentOK, SentOK, [Next]_vars PROVE SentOK'
    OBVIOUS
  <2>1. CASE \E p \in Pages : Handler(p)
    BY <2>1, HandlerSentOK
  <2>2. CASE (\E p \in Pages : SaveInvalidDrafts(p) \/ Outside(p) \/ Network(p)) \/ Environment
    BY <2>2, OtherSentOK
  <2>3. CASE UNCHANGED vars
    BY <2>3 DEF vars, localVars, history, SentOK
  <2>4. QED
    BY <2>1, <2>2, <2>3 DEF Next
<1>3. SentOK => SentIsNeverReportedUnsent
  BY DEF SentOK, SentIsNeverReportedUnsent
<1>4. QED
  BY <1>1, <1>2, <1>3, TypeCorrect, PTL DEF Spec

-----------------------------------------------------------------------------
(* No comment is created twice, and Publication implements CommentLedger, as    *)
(* long as a POST creates its comment before its client gives up on it and      *)
(* nobody removes the lease of a live page.                                     *)

OnTime == ~LateDelivery /\ ~CarelessRecovery

\* What the run of page p knows of the comments that are still to be dealt
\* with: the one being sent does not exist, or no longer needs to be known; of
\* the others a complete listing shows all that exist.
KnowsWhatExists(p) ==
    /\ pc[p] \in {"rechecking", "posting", "wired", "dropped"} => posted[cur[p]] = 0
    /\ pc[p] \in Sending \cup {"next"} /\ listing[p].complete =>
         \A f \in todo[p] \ {cur[p]} : posted[f] > 0 => Genuine(f) \in listing[p].notes

OnceOK ==
    /\ orphans = [f \in Findings |-> 0]
    /\ NoDuplicateComment
    /\ \A p \in Pages : KnowsWhatExists(p)

-----------------------------------------------------------------------------
\* A page that goes where nothing is to be known keeps OnceOK.
LEMMA ElsewhereOnceOK ==
    ASSUME TypeOK, OnceOK, NEW p \in Pages, NEW l, l \notin Sending \cup {"next"},
           pc' = [pc EXCEPT ![p] = l],
           \A q \in Pages \ {p} : /\ cur'[q] = cur[q]
                                  /\ todo'[q] = todo[q]
                                  /\ listing'[q] = listing[q],
           UNCHANGED <<posted, orphans>>
    PROVE  OnceOK'
BY DEF TypeOK, OnceOK, NoDuplicateComment, KnowsWhatExists, Sending

LEMMA ResetOnceOK ==
    ASSUME TypeOK, OnceOK, NEW p \in Pages, NEW l, l \notin Sending \cup {"next"},
           Reset(p, l), UNCHANGED <<posted, orphans>>
    PROVE  OnceOK'
BY ElsewhereOnceOK DEF Reset, TypeOK

LEMMA StopOnceOK ==
    ASSUME TypeOK, OnceOK, NEW p \in Pages, NEW state, Stop(p, state),
           UNCHANGED <<posted, orphans>>
    PROVE  OnceOK'
<1>1. "recording" \notin Sending \cup {"next"}
  BY DEF Sending
<1>2. QED
  BY <1>1, ElsewhereOnceOK DEF Stop, Goto, TypeOK

\* Being done with a comment: the others are known as before, or by a new
\* listing.
LEMMA ConcludeOnceOK ==
    ASSUME TypeOK, OnceOK, NEW p \in Pages, NEW f \in Findings, NEW state,
           Conclude(p, f, state), UNCHANGED <<posted, orphans>>,
           \A q \in Pages \ {p} : listing'[q] = listing[q],
           listing'[p].complete =>
               \A g \in todo[p] \ {f} : posted[g] > 0 => Genuine(g) \in listing'[p].notes
    PROVE  OnceOK'
<1>1. KnowsWhatExists(p)'
  BY DEF TypeOK, Conclude, Goto, KnowsWhatExists, Sending
<1>2. ASSUME NEW q \in Pages \ {p} PROVE KnowsWhatExists(q)'
  BY <1>2 DEF TypeOK, OnceOK, Conclude, Goto, KnowsWhatExists, Sending
<1>3. QED
  BY <1>1, <1>2 DEF OnceOK, NoDuplicateComment

LEMMA HandlerOnceOK ==
    ASSUME OnTime, TypeOK, CurrentOK, OnceOK, NEW p \in Pages, Handler(p)
    PROVE  OnceOK'
<1> USE DEF remoteVars
<1>1. CASE ReopenLookup(p) \/ AcquireLease(p) \/ ReadRecord(p) \/ SaveDrafts(p)
           \/ RecordSubmission(p)
  BY <1>1, ElsewhereOnceOK
     DEF ReopenLookup, AcquireLease, ReadRecord, SaveDrafts, RecordSubmission, Goto, Sending
<1>2. CASE ReopenUnchanged(p) \/ ReopenRecord(p) \/ LeaseHeld(p) \/ RemoveLease(p)
  BY <1>2, ResetOnceOK
     DEF ReopenUnchanged, ReopenRecord, LeaseHeld, RemoveLease, Sending
<1>3. CASE Identity(p) \/ CheckRevision(p)
  BY <1>3, StopOnceOK, ElsewhereOnceOK DEF Identity, CheckRevision, Goto, Sending
<1>4. CASE ListDiscussions(p)
  <2>1. CASE Stop(p, "failed-before-send")
    BY <1>4, <2>1, StopOnceOK DEF ListDiscussions
  <2>2. ASSUME NEW l \in Listings, Goto(p, "next"), listing' = [listing EXCEPT ![p] = l],
               UNCHANGED <<todo, cur>>
        PROVE  OnceOK'
    BY <1>4, <2>2, CompleteListsAll
       DEF ListDiscussions, Goto, TypeOK, OnceOK, NoDuplicateComment, KnowsWhatExists, Sending
  <2>3. QED
    BY <1>4, <2>1, <2>2 DEF ListDiscussions
<1>5. CASE Consider(p)
  <2>1. PICK f \in todo[p] :
          \/ Conclude(p, f, "already-published") /\ UNCHANGED listing
          \/ Stop(p, "failed-before-send")
          \/ /\ Reconcile(listing[p], f) = "absent"
             /\ Goto(p, "rechecking")
             /\ cur' = [cur EXCEPT ![p] = f]
             /\ UNCHANGED <<todo, listing, out>>
    BY <1>5 DEF Consider
  <2>2. f \in Findings /\ cur[p] = None /\ None \notin todo[p]
    BY <1>5, PublicationAssumption DEF Consider, TypeOK, CurrentOK, Sending
  <2>3. listing[p].complete =>
           \A g \in todo[p] : posted[g] > 0 => Genuine(g) \in listing[p].notes
    BY <1>5, <2>2 DEF Consider, OnceOK, KnowsWhatExists
  <2>4. CASE Conclude(p, f, "already-published") /\ UNCHANGED listing
    BY <1>5, <2>2, <2>3, <2>4, ConcludeOnceOK DEF Consider
  <2>5. CASE Stop(p, "failed-before-send")
    BY <1>5, <2>5, StopOnceOK DEF Consider
  <2>6. CASE /\ Reconcile(listing[p], f) = "absent"
             /\ Goto(p, "rechecking")
             /\ cur' = [cur EXCEPT ![p] = f]
             /\ UNCHANGED <<todo, listing, out>>
    <3>1. listing[p].complete /\ Genuine(f) \notin listing[p].notes
      BY <2>2, <2>6, FoundIsGenuine DEF Reconcile, TypeOK
    <3>2. posted[f] = 0
      BY <2>2, <2>3, <3>1 DEF TypeOK
    <3>3. QED
      BY <1>5, <2>2, <2>3, <2>6, <3>2
         DEF Consider, Goto, TypeOK, OnceOK, NoDuplicateComment, KnowsWhatExists, Sending
  <2>7. QED
    BY <2>1, <2>4, <2>5, <2>6
<1>6. CASE Recheck(p)
  <2>1. CASE \E state : Stop(p, state)
    BY <1>6, <2>1, StopOnceOK DEF Recheck
  <2>2. CASE ~\E state : Stop(p, state)
    BY <1>6, <2>2
       DEF Recheck, Goto, TypeOK, OnceOK, NoDuplicateComment, KnowsWhatExists, Sending
  <2>3. QED
    BY <2>1, <2>2
<1>7. CASE Post(p) \/ AnswerLost(p)
  BY <1>7 DEF Post, AnswerLost, OnTime, Goto, TypeOK, OnceOK, NoDuplicateComment,
              KnowsWhatExists, Sending
<1>8. CASE PostNotStarted(p) \/ Answered(p)
  <2>1. cur[p] \in Findings
    BY <1>8 DEF PostNotStarted, Answered, Sending, CurrentOK, TypeOK
  <2>2. listing[p].complete =>
           \A g \in todo[p] \ {cur[p]} : posted[g] > 0 => Genuine(g) \in listing[p].notes
    BY <1>8 DEF PostNotStarted, Answered, OnceOK, KnowsWhatExists, Sending
  <2>3. QED
    BY <1>8, <2>1, <2>2, ConcludeOnceOK DEF PostNotStarted, Answered
<1>9. CASE Relist(p)
  <2>1. cur[p] \in Findings
    BY <1>9 DEF Relist, Sending, CurrentOK, TypeOK
  <2>2. PICK state : Conclude(p, cur[p], state)
    BY <1>9 DEF Relist
  <2>3. listing'[p].complete =>
           \A g \in todo[p] \ {cur[p]} : posted[g] > 0 => Genuine(g) \in listing'[p].notes
    <3>1. CASE UNCHANGED listing
      BY <1>9, <3>1 DEF Relist, OnceOK, KnowsWhatExists, Sending
    <3>2. CASE \E l \in Listings : listing' = [listing EXCEPT ![p] = l]
      BY <3>2, CompleteListsAll DEF TypeOK
    <3>3. QED
      BY <1>9, <3>1, <3>2 DEF Relist
  <2>4. \A q \in Pages \ {p} : listing'[q] = listing[q]
    BY <1>9 DEF Relist, TypeOK
  <2>5. QED
    BY <1>9, <2>1, <2>2, <2>3, <2>4, ConcludeOnceOK DEF Relist
<1>10. CASE Finish(p)
  BY <1>10, StopOnceOK DEF Finish
<1>11. CASE ReadLease(p)
  BY <1>11, ResetOnceOK, ElsewhereOnceOK DEF ReadLease, Goto, Sending
<1>12. QED
  BY <1>1, <1>2, <1>3, <1>4, <1>5, <1>6, <1>7, <1>8, <1>9, <1>10, <1>11 DEF Handler

\* The one step that creates a comment.
LEMMA DeliverOnceOK ==
    ASSUME TypeOK, CurrentOK, LeaseOK, OnceOK, NEW p \in Pages, Deliver(p)
    PROVE  /\ OnceOK'
           /\ posted[cur[p]] = 0
           /\ posted' = [posted EXCEPT ![cur[p]] = 1]
<1>1. cur[p] \in Findings /\ posted[cur[p]] = 0
  BY DEF Deliver, Sending, CurrentOK, TypeOK, OnceOK, KnowsWhatExists
<1>2. posted' = [posted EXCEPT ![cur[p]] = 1]
  BY <1>1 DEF Deliver
<1>3. KnowsWhatExists(p)'
  BY <1>1, <1>2 DEF Deliver, Goto, TypeOK, OnceOK, KnowsWhatExists, Sending
<1>4. ASSUME NEW q \in Pages \ {p} PROVE KnowsWhatExists(q)'
  <2>1. pc[q] \notin Leased
    BY <1>4 DEF Deliver, LeaseOK, Holds, Leased
  <2>2. pc'[q] \notin Sending \cup {"next"}
    BY <1>4, <2>1 DEF Deliver, Goto, TypeOK, Sending, Leased
  <2>3. QED
    BY <2>2 DEF KnowsWhatExists, Sending
<1>5. NoDuplicateComment'
  BY <1>1, <1>2 DEF TypeOK, OnceOK, NoDuplicateComment
<1>6. QED
  BY <1>1, <1>2, <1>3, <1>4, <1>5 DEF Deliver, OnceOK

LEMMA OtherOnceOK ==
    ASSUME OnTime, TypeOK, CurrentOK, LeaseOK, OnceOK,
           \/ \E p \in Pages : SaveInvalidDrafts(p) \/ Outside(p) \/ Network(p)
           \/ Environment
    PROVE  OnceOK'
<1> USE DEF remoteVars
<1>1. ASSUME NEW p \in Pages, SaveInvalidDrafts(p) \/ Outside(p) PROVE OnceOK'
  <2>1. CASE Open(p) \/ AcquireFails(p)
    BY <2>1, ElsewhereOnceOK DEF Open, AcquireFails, Goto, Sending
  <2>2. CASE Submit(p)
    <3>1. \A q \in Pages \ {p} : todo'[q] = todo[q]
      BY <2>2 DEF Submit, TypeOK
    <3>2. QED
      BY <2>2, <3>1, ElsewhereOnceOK DEF Submit, Goto, Sending
  <2>3. CASE Crash(p) \/ ReleaseFails(p)
    BY <2>3, ResetOnceOK DEF Crash, ReleaseFails, OnTime, Sending
  <2>4. CASE StoreFails(p)
    BY <2>4, ResetOnceOK, ElsewhereOnceOK DEF StoreFails, Goto, Sending
  <2>5. CASE InvalidForm(p) \/ SaveInvalidDrafts(p) \/ InvalidFormFails(p)
    BY <2>5 DEF InvalidForm, SaveInvalidDrafts, InvalidFormFails, localVars, OnceOK, NoDuplicateComment,
                KnowsWhatExists
  <2>6. QED
    BY <1>1, <2>1, <2>2, <2>3, <2>4, <2>5 DEF Outside
<1>2. ASSUME NEW p \in Pages, Drop(p) PROVE OnceOK'
  BY <1>2 DEF Drop, Goto, TypeOK, OnceOK, NoDuplicateComment, KnowsWhatExists, Sending
<1>3. ASSUME NEW f \in Findings, OrphanEnds(f) PROVE OnceOK'
  BY <1>3 DEF OrphanEnds, OnceOK
<1>4. CASE (\E n \in LookAlikes : LookAlikeAppears(n)) \/ Push \/ RecoverLease
  BY <1>4
     DEF LookAlikeAppears, Push, RecoverLease, localVars, OnceOK, NoDuplicateComment, KnowsWhatExists
<1>5. QED
  BY <1>1, <1>2, <1>3, <1>4, DeliverOnceOK DEF Network, Environment

LEMMA NextOnceOK ==
    ASSUME OnTime
    PROVE  TypeOK /\ CurrentOK /\ LeaseOK /\ OnceOK /\ [Next]_vars => OnceOK'
<1> SUFFICES ASSUME TypeOK, CurrentOK, LeaseOK, OnceOK, [Next]_vars PROVE OnceOK'
  OBVIOUS
<1>1. CASE \E p \in Pages : Handler(p)
  BY <1>1, HandlerOnceOK
<1>2. CASE (\E p \in Pages : SaveInvalidDrafts(p) \/ Outside(p) \/ Network(p)) \/ Environment
  BY <1>2, OtherOnceOK
<1>3. CASE UNCHANGED vars
  BY <1>3 DEF vars, remoteVars, localVars, OnceOK, NoDuplicateComment, KnowsWhatExists
<1>4. QED
  BY <1>1, <1>2, <1>3 DEF Next

LEMMA OnceOKHolds ==
    ASSUME OnTime
    PROVE  Spec => []OnceOK
<1>1. Init => OnceOK
  BY DEF Init, OnceOK, NoDuplicateComment, KnowsWhatExists, Sending
<1>2. TypeOK /\ CurrentOK /\ LeaseOK /\ OnceOK /\ [Next]_vars => OnceOK'
  BY NextOnceOK
<1>3. Spec => []LeaseOK
  BY OnePublisherHolds, PTL DEF OnTime
<1>4. QED
  BY <1>1, <1>2, <1>3, TypeCorrect, PTL DEF Spec

\* A finding never gets a second comment: retries, reopened pages, competing
\* pages, lost answers, crashes, truncated listings and copied markers included.
THEOREM NoDuplicateCommentHolds ==
    ASSUME OnTime
    PROVE  Spec => []NoDuplicateComment
<1>1. OnceOK => NoDuplicateComment
  BY DEF OnceOK
<1>2. QED
  BY <1>1, OnceOKHolds, PTL

-----------------------------------------------------------------------------
(* Refinement. *)

\* Only a delivery changes what the merge request holds.
LEMMA PostedByDelivery ==
    ASSUME OnceOK, Next, posted' # posted
    PROVE  \E p \in Pages : Deliver(p)
<1> USE DEF remoteVars
<1>1. ASSUME NEW p \in Pages, Handler(p) PROVE FALSE
  BY <1>1
     DEF Handler, ReopenLookup, ReopenUnchanged, ReopenRecord, AcquireLease,
         LeaseHeld, ReadRecord, SaveDrafts, Identity, CheckRevision, ListDiscussions,
         Consider, Recheck, Post, PostNotStarted, Answered,
         AnswerLost, Relist, Finish, RecordSubmission, ReadLease, RemoveLease
<1>2. ASSUME NEW p \in Pages, SaveInvalidDrafts(p) \/ Outside(p) PROVE FALSE
  BY <1>2
     DEF SaveInvalidDrafts, Outside, Open, InvalidForm, Submit, Crash, AcquireFails, StoreFails,
         InvalidFormFails, ReleaseFails
<1>3. ASSUME NEW p \in Pages, Drop(p) PROVE FALSE
  BY <1>3 DEF Drop
<1>4. ASSUME Environment PROVE FALSE
  BY <1>4 DEF Environment, OrphanEnds, LookAlikeAppears, Push, RecoverLease, OnceOK
<1>5. QED
  BY <1>1, <1>2, <1>3, <1>4 DEF Next, Network

\* While POSTs are answered or lost on time and leases of live pages are left
\* alone, publishing is the ledger of CommentLedger: a delivery is Create, a
\* rewriting of publication.json is Confirm, every other step is a stutter.
THEOREM LedgerIsImplemented ==
    ASSUME OnTime
    PROVE  Spec => ImplementsLedger
<1> DEFINE confirmed == {f \in Findings : record[f] \in Settled}
<1>1. Init => Ledger!Init
  BY DEF Init, Ledger!Init, NoOutcomes, Settled
<1>2. TypeOK /\ CurrentOK /\ LeaseOK /\ OnceOK /\ ConfirmedExists' /\ [Next]_vars
        => [Ledger!Next]_<<posted, confirmed>>
  <2> SUFFICES ASSUME TypeOK, CurrentOK, LeaseOK, OnceOK, ConfirmedExists', [Next]_vars
               PROVE  [Ledger!Next]_<<posted, confirmed>>
    OBVIOUS
  <2>1. CASE posted' = posted
    <3>1. confirmed' \in SUBSET {f \in Findings : posted[f] > 0}
      BY <2>1 DEF ConfirmedExists
    <3>2. Ledger!Confirm
      BY <2>1, <3>1 DEF Ledger!Confirm
    <3>3. QED
      BY <3>2 DEF Ledger!Next
  <2>2. CASE posted' # posted
    <3>1. Next
      BY <2>2 DEF vars, remoteVars
    <3>2. PICK p \in Pages : Deliver(p)
      BY <2>2, <3>1, PostedByDelivery
    <3>3. cur[p] \in Findings
      BY <3>2 DEF Deliver, Sending, CurrentOK, TypeOK
    <3>4. UNCHANGED confirmed
      BY <3>2 DEF Deliver, fileVars
    <3>5. Ledger!Create(cur[p])
      BY <3>2, <3>4, DeliverOnceOK DEF Ledger!Create
    <3>6. QED
      BY <3>3, <3>5 DEF Ledger!Next
  <2>3. QED
    BY <2>1, <2>2
<1>3. Spec => []LeaseOK
  BY OnePublisherHolds, PTL DEF OnTime
<1>4. QED
  BY <1>1, <1>2, <1>3, TypeCorrect, OnceOKHolds, ConfirmedExistsHolds, PTL
     DEF Spec, ImplementsLedger, Ledger!Spec
=============================================================================

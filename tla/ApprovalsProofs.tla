---------------------------- MODULE ApprovalsProofs ----------------------------
(***************************************************************************)
(* For any number of sessions: the rows and sessions stay well formed, and *)
(* the row shows the last decision of the trail.  The lemmas about a       *)
(* request and a decision serve every component that uses Approvals.       *)
(* Calls that never hold the same row at the same time decide it once.     *)
(***************************************************************************)
EXTENDS Approvals, SequenceTheorems, FiniteSetTheorems, TLAPS

\* Rows and trail belong together: the part of the invariant that does not
\* speak of sessions.
Trail ==
  /\ approvals \in Seq(Approval)
  /\ decisions \in Seq(DecisionEvent)
  /\ \A k \in DOMAIN decisions : decisions[k].approval \in DOMAIN approvals
  /\ RowShowsLastDecision

ApprovalsInv == TypeOKApprovals /\ Trail

\* History is never rewritten: every row stays about what it was about, and
\* every event stays.
Grows ==
  /\ \A id \in DOMAIN approvals :
       /\ id \in DOMAIN approvals'
       /\ approvals'[id].entity = approvals[id].entity
       /\ approvals'[id].approval_type = approvals[id].approval_type
  /\ \A k \in DOMAIN decisions :
       k \in DOMAIN decisions' /\ decisions'[k] = decisions[k]

\* A step that leaves rows and events alone.
LEMMA TrailUnchanged ==
  ASSUME Trail, UNCHANGED <<approvals, decisions>>
  PROVE  Trail' /\ Grows
<1>1. \A id : EventsFor(id)' = EventsFor(id)
  BY DEF EventsFor
<1>2. RowShowsLastDecision'
  BY <1>1 DEF Trail, RowShowsLastDecision
<1>. QED
  BY <1>2 DEF Trail, Grows

\* A new row has no decision, and no event is about it.
LEMMA RequestPreserves ==
  ASSUME Trail, NEW entity \in Entity, NEW type \in ApprovalType,
         NEW u \in Approver, request(entity, type, u)
  PROVE  /\ Trail' /\ Grows
         /\ DOMAIN approvals \subseteq DOMAIN approvals'
         /\ Len(approvals) + 1 \in DOMAIN approvals'
         /\ approvals'[Len(approvals) + 1].entity = entity
         /\ approvals'[Len(approvals) + 1].approval_type = type
<1>. DEFINE row == [entity |-> entity, approval_type |-> type,
                    requested_by |-> u, approver |-> NoDecision,
                    decision |-> NoDecision]
<1>1. /\ row \in Approval
      /\ approvals' = Append(approvals, row)
      /\ decisions' = decisions
  BY DEF request, Approval
<1>2. approvals' \in Seq(Approval) /\ decisions' \in Seq(DecisionEvent)
  BY <1>1 DEF Trail
<1>3. DOMAIN approvals = 1..Len(approvals)
      /\ DOMAIN approvals' = 1..(Len(approvals) + 1) /\ Len(approvals) \in Nat
  BY <1>1 DEF Trail
<1>4. \A k \in DOMAIN decisions' : decisions'[k].approval \in DOMAIN approvals
  BY <1>1 DEF Trail
<1>5. ASSUME NEW id \in DOMAIN approvals'
      PROVE  EventsFor(id)' = EventsFor(id)
  BY <1>1 DEF EventsFor
<1>6. RowShowsLastDecision'
  <2>. SUFFICES ASSUME NEW id \in DOMAIN approvals'
                PROVE  LET r == approvals'[id]
                       IN  IF EventsFor(id) = {}
                             THEN /\ r.decision = NoDecision
                                  /\ r.approver = NoDecision
                             ELSE \E k \in EventsFor(id) :
                                    /\ \A j \in EventsFor(id) : j <= k
                                    /\ r.decision = decisions[k].new_value
                                    /\ r.approver = decisions[k].user_id
    BY <1>1, <1>5 DEF RowShowsLastDecision
  <2>1. CASE id \in DOMAIN approvals
    <3>1. approvals'[id] = approvals[id]
      BY <1>1, <1>3, <2>1 DEF Trail
    <3>. QED
      BY <2>1, <3>1 DEF Trail, RowShowsLastDecision
  <2>2. CASE id \notin DOMAIN approvals
    <3>1. id = Len(approvals) + 1
      BY <1>3, <2>2
    <3>2. approvals'[id] = row
      BY <1>1, <3>1 DEF Trail
    <3>3. EventsFor(id) = {}
      BY <2>2 DEF Trail, EventsFor
    <3>. QED
      BY <3>2, <3>3
  <2>. QED
    BY <2>1, <2>2
<1>7. Grows
  BY <1>1, <1>3 DEF Trail, Grows
<1>. QED
  BY <1>1, <1>2, <1>3, <1>4, <1>6, <1>7 DEF Trail

\* A decision becomes the last event of its row, and of no other.
LEMMA DecidePreserves ==
  ASSUME Trail, NEW id \in DOMAIN approvals, NEW d \in ApprovalDecision,
         NEW u \in Approver, Decide(id, d, u)
  PROVE  /\ Trail' /\ Grows
         /\ DOMAIN approvals' = DOMAIN approvals
         /\ \E k \in DOMAIN decisions' :
              /\ decisions'[k].approval = id /\ decisions'[k].new_value = d
              /\ decisions'[k].user_id = u
<1>. DEFINE event == [approval |-> id, user_id |-> u, new_value |-> d]
            last == Len(decisions) + 1
<1>1. /\ approvals' = [approvals EXCEPT ![id].decision = d, ![id].approver = u]
      /\ decisions' = Append(decisions, event)
      /\ id \in 1..Len(approvals) /\ Len(approvals) \in Nat
      /\ Len(decisions) \in Nat /\ DOMAIN decisions = 1..Len(decisions)
  BY DEF Decide, Trail
<1>2. event \in DecisionEvent
  BY <1>1 DEF DecisionEvent
<1>3. /\ decisions' \in Seq(DecisionEvent)
      /\ DOMAIN decisions' = 1..last
      /\ decisions'[last] = event
      /\ \A k \in DOMAIN decisions : decisions'[k] = decisions[k]
  BY <1>1, <1>2 DEF Trail
<1>4. /\ DOMAIN approvals' = DOMAIN approvals
      /\ \A i \in DOMAIN approvals : approvals[i] \in Approval
      /\ \A i \in DOMAIN approvals \ {id} : approvals'[i] = approvals[i]
      /\ approvals'[id] = [approvals[id] EXCEPT !.decision = d, !.approver = u]
  BY <1>1 DEF Trail
<1>5. approvals'[id] \in Approval
      /\ approvals'[id].entity = approvals[id].entity
      /\ approvals'[id].approval_type = approvals[id].approval_type
      /\ approvals'[id].decision = d /\ approvals'[id].approver = u
  BY <1>4 DEF Approval
<1>6. approvals' \in Seq(Approval)
  <2>. DEFINE row == [approvals[id] EXCEPT !.decision = d, !.approver = u]
  <2>1. approvals' = [approvals EXCEPT ![id] = row]
    BY <1>1, <1>4 DEF Trail
  <2>2. row \in Approval
    BY <1>4, <1>5
  <2>. HIDE DEF row
  <2>3. [approvals EXCEPT ![id] = row] \in Seq(Approval)
    BY <1>1, <2>2, ExceptSeq DEF Trail
  <2>. QED
    BY <2>1, <2>3
<1>7. \A k \in DOMAIN decisions' : decisions'[k].approval \in DOMAIN approvals'
  BY <1>1, <1>3, <1>4 DEF Trail
<1>8. EventsFor(id)' = EventsFor(id) \cup {last}
  BY <1>1, <1>3 DEF EventsFor
<1>9. \A i \in DOMAIN approvals \ {id} : EventsFor(i)' = EventsFor(i)
  BY <1>1, <1>3 DEF EventsFor
<1>10. RowShowsLastDecision'
  <2>. SUFFICES ASSUME NEW i \in DOMAIN approvals
                PROVE  LET r == approvals'[i]
                       IN  IF EventsFor(i)' = {}
                             THEN /\ r.decision = NoDecision
                                  /\ r.approver = NoDecision
                             ELSE \E k \in EventsFor(i)' :
                                    /\ \A j \in EventsFor(i)' : j <= k
                                    /\ r.decision = decisions'[k].new_value
                                    /\ r.approver = decisions'[k].user_id
    BY <1>4 DEF RowShowsLastDecision
  <2>1. CASE i = id
    <3>1. last \in EventsFor(i)' /\ \A j \in EventsFor(i)' : j <= last
      BY <1>1, <1>8, <2>1 DEF EventsFor
    <3>2. decisions'[last].new_value = d /\ decisions'[last].user_id = u
      BY <1>3
    <3>. QED
      BY <1>5, <2>1, <3>1, <3>2
  <2>2. CASE i # id
    <3>1. EventsFor(i)' = EventsFor(i) /\ approvals'[i] = approvals[i]
      BY <1>4, <1>9, <2>2
    <3>2. \A k \in EventsFor(i) : decisions'[k] = decisions[k]
      BY <1>3 DEF EventsFor
    <3>. QED
      BY <3>1, <3>2 DEF Trail, RowShowsLastDecision
  <2>. QED
    BY <2>1, <2>2
<1>11. Grows
  BY <1>1, <1>3, <1>4, <1>5 DEF Grows
<1>12. last \in DOMAIN decisions'
  BY <1>1, <1>3
<1>. QED
  BY <1>3, <1>4, <1>6, <1>7, <1>10, <1>11, <1>12 DEF Trail

-----------------------------------------------------------------------------
(* What has been decided stays decided.                                    *)

\* Whether one of these users took one of these decisions on a row of one of
\* these types about the entity.
OnRecord(e, types, verdicts, users) ==
  \E k \in DOMAIN decisions :
    /\ approvals[decisions[k].approval].entity = e
    /\ approvals[decisions[k].approval].approval_type \in types
    /\ decisions[k].new_value \in verdicts
    /\ decisions[k].user_id \in users

\* A decision on record stays there.
LEMMA RecordStays ==
  ASSUME Trail, Grows, NEW e, NEW types, NEW verdicts, NEW users,
         OnRecord(e, types, verdicts, users)
  PROVE  OnRecord(e, types, verdicts, users)'
<1>1. PICK k \in DOMAIN decisions :
        /\ approvals[decisions[k].approval].entity = e
        /\ approvals[decisions[k].approval].approval_type \in types
        /\ decisions[k].new_value \in verdicts
        /\ decisions[k].user_id \in users
  BY DEF OnRecord
<1>2. decisions[k].approval \in DOMAIN approvals
  BY <1>1 DEF Trail
<1>3. k \in DOMAIN decisions' /\ decisions'[k] = decisions[k]
      /\ approvals'[decisions[k].approval].entity = e
      /\ approvals'[decisions[k].approval].approval_type \in types
  BY <1>1, <1>2 DEF Grows
<1>. QED
  BY <1>1, <1>3 DEF OnRecord

\* Deciding a row puts the decision on record.
LEMMA DecidingRecords ==
  ASSUME Trail, NEW id \in DOMAIN approvals, NEW d \in ApprovalDecision,
         NEW u \in Approver, Decide(id, d, u)
  PROVE  OnRecord(approvals[id].entity, {approvals[id].approval_type}, {d},
                  {u})'
<1>1. Grows
  BY DecidePreserves
<1>2. PICK k \in DOMAIN decisions' :
        /\ decisions'[k].approval = id /\ decisions'[k].new_value = d
        /\ decisions'[k].user_id = u
  BY DecidePreserves
<1>3. /\ approvals'[id].entity = approvals[id].entity
      /\ approvals'[id].approval_type = approvals[id].approval_type
  BY <1>1 DEF Grows
<1>. QED
  BY <1>2, <1>3 DEF OnRecord

-----------------------------------------------------------------------------
\* Initially there are no rows.
LEMMA ApprovalsInit == InitApprovals => ApprovalsInv
BY DEF InitApprovals, ApprovalsInv, TypeOKApprovals, Trail,
       RowShowsLastDecision, EventsFor, Nothing

\* What a session may hold.
LoadedRow == [approval : DOMAIN approvals, decision : ApprovalDecision,
         user_id : Approver]

\* Steps that leave the approvals alone, ask for one, and decide one.
LEMMA ApprovalsLeftAlone ==
  ASSUME ApprovalsInv, UNCHANGED approvalVars
  PROVE  ApprovalsInv' /\ Grows
BY TrailUnchanged DEF approvalVars, ApprovalsInv, TypeOKApprovals

\* A request keeps the invariant of the approvals and what is on record.
LEMMA ApprovalRequested ==
  ASSUME ApprovalsInv, NEW entity \in Entity, NEW type \in ApprovalType,
         NEW u \in Approver, request(entity, type, u), UNCHANGED deciding
  PROVE  ApprovalsInv' /\ Grows
<1>1. Trail' /\ Grows /\ DOMAIN approvals \subseteq DOMAIN approvals'
  BY RequestPreserves DEF ApprovalsInv
<1>. QED
  BY <1>1 DEF ApprovalsInv, TypeOKApprovals, Trail

\* So does a decision.
LEMMA ApprovalDecided ==
  ASSUME ApprovalsInv, NEW id \in DOMAIN approvals, NEW d \in ApprovalDecision,
         NEW u \in Approver, Decide(id, d, u),
         deciding' = deciding
           \/ \E s \in Session : deciding' = [deciding EXCEPT ![s] = Nothing]
  PROVE  ApprovalsInv' /\ Grows
<1>1. Trail' /\ Grows /\ DOMAIN approvals' = DOMAIN approvals
  BY DecidePreserves DEF ApprovalsInv
<1>. QED
  BY <1>1 DEF ApprovalsInv, TypeOKApprovals, Trail

\* Every step of the component preserves the invariant.
LEMMA ApprovalsStep ==
  ASSUME ApprovalsInv, [NextApprovals]_approvalVars
  PROVE  ApprovalsInv' /\ Grows
<1>0. Trail /\ deciding \in [Session -> {Nothing} \cup LoadedRow]
  BY DEF ApprovalsInv, TypeOKApprovals, LoadedRow
<1>1. ASSUME NEW entity \in Entity, NEW type \in ApprovalType,
             NEW u \in Approver, request(entity, type, u), UNCHANGED deciding
      PROVE  ApprovalsInv' /\ Grows
  BY <1>1, ApprovalRequested
<1>2. ASSUME NEW s \in Session, NEW id \in DOMAIN approvals,
             NEW d \in ApprovalDecision, NEW u \in Approver, load(s, id, d, u)
      PROVE  ApprovalsInv' /\ Grows
  <2>1. Trail' /\ Grows
    BY <1>0, <1>2, TrailUnchanged DEF load
  <2>. QED
    BY <1>0, <1>2, <2>1 DEF load, ApprovalsInv, TypeOKApprovals, Trail, LoadedRow
<1>3. ASSUME NEW s \in Session, decide(s)
      PROVE  ApprovalsInv' /\ Grows
  <2>1. deciding[s] \in LoadedRow
    BY <1>0, <1>3 DEF decide
  <2>. QED
    BY <1>3, <2>1, ApprovalDecided DEF decide, LoadedRow
<1>4. ASSUME NEW s \in Session, abandon(s)
      PROVE  ApprovalsInv' /\ Grows
  <2>1. Trail' /\ Grows
    BY <1>0, <1>4, TrailUnchanged DEF abandon
  <2>. QED
    BY <1>0, <1>4, <2>1 DEF abandon, ApprovalsInv, TypeOKApprovals, Trail, LoadedRow
<1>. QED
  BY <1>1, <1>2, <1>3, <1>4, ApprovalsLeftAlone DEF NextApprovals

\* Rows, trail and sessions stay well formed and the row shows decision and
\* approver of the last event about it, however many sessions decide on it.
THEOREM RowAlwaysShowsLastDecision ==
  SpecApprovals => [](TypeOKApprovals /\ RowShowsLastDecision)
<1>1. InitApprovals => ApprovalsInv
  BY ApprovalsInit
<1>2. ApprovalsInv /\ [NextApprovals]_approvalVars => ApprovalsInv'
  BY ApprovalsStep
<1>3. ApprovalsInv => TypeOKApprovals /\ RowShowsLastDecision
  BY DEF ApprovalsInv, Trail
<1>. QED
  BY <1>1, <1>2, <1>3, PTL DEF SpecApprovals
-----------------------------------------------------------------------------
(* One call at a time on each row: rows are decided once.                  *)

\* No two calls hold the same row, as if loading it took a lock on it.
Apart ==
  \A s, t \in Session :
    deciding[s] # Nothing /\ deciding[t] # Nothing =>
      (deciding[s].approval = deciding[t].approval => s = t)

\* Calls on the same row one after the other, on others in any order.
SpecApart == InitApprovals /\ [][NextApprovals /\ Apart']_approvalVars

\* The row a call holds is still as it was loaded.
HeldUndecided ==
  \A s \in Session : deciding[s] # Nothing =>
    approvals[deciding[s].approval].decision = NoDecision

AtMostOnce ==
  \A id \in DOMAIN approvals :
    EventsFor(id) = {} \/ \E k : EventsFor(id) = {k}

ApartInv ==
  /\ ApprovalsInv
  /\ Apart
  /\ HeldUndecided
  /\ AtMostOnce

\* A row without a decision has no event.
LEMMA UndecidedHasNoEvent ==
  ASSUME ApprovalsInv, NEW id \in DOMAIN approvals,
         approvals[id].decision = NoDecision
  PROVE  EventsFor(id) = {}
<1>. SUFFICES ASSUME EventsFor(id) # {}
              PROVE  FALSE
  OBVIOUS
<1>1. PICK k \in EventsFor(id) : approvals[id].decision = decisions[k].new_value
  BY DEF ApprovalsInv, Trail, RowShowsLastDecision
<1>2. decisions[k] \in DecisionEvent
  BY <1>1, ElementOfSeq DEF ApprovalsInv, Trail, EventsFor
<1>. QED
  BY <1>1, <1>2, ApprovalConstants DEF DecisionEvent

\* A request adds a row no event is about, and changes no other.
LEMMA RequestApart ==
  ASSUME ApartInv, NEW entity \in Entity, NEW type \in ApprovalType,
         NEW u \in Approver, request(entity, type, u), UNCHANGED deciding
  PROVE  HeldUndecided' /\ AtMostOnce'
<1>1. /\ approvals \in Seq(Approval) /\ decisions' = decisions
      /\ deciding \in [Session -> {Nothing} \cup LoadedRow]
      /\ \A k \in DOMAIN decisions : decisions[k].approval \in DOMAIN approvals
  BY DEF ApartInv, ApprovalsInv, Trail, TypeOKApprovals, LoadedRow, request
<1>2. \A id \in DOMAIN approvals : approvals'[id] = approvals[id]
  BY <1>1 DEF request
<1>3. \A id : EventsFor(id)' = EventsFor(id)
  BY <1>1 DEF EventsFor
<1>4. \A id : id \notin DOMAIN approvals => EventsFor(id) = {}
  BY <1>1 DEF EventsFor
<1>5. AtMostOnce'
  BY <1>3, <1>4 DEF ApartInv, AtMostOnce
<1>6. HeldUndecided'
  BY <1>1, <1>2 DEF ApartInv, HeldUndecided, LoadedRow
<1>. QED
  BY <1>5, <1>6

\* A decision is the first of its row, and leaves the rows of others alone.
LEMMA DecideApart ==
  ASSUME ApartInv, NEW s \in Session, decide(s)
  PROVE  HeldUndecided' /\ AtMostOnce'
<1>1. /\ approvals \in Seq(Approval) /\ decisions \in Seq(DecisionEvent)
      /\ deciding \in [Session -> {Nothing} \cup LoadedRow]
  BY DEF ApartInv, ApprovalsInv, Trail, TypeOKApprovals, LoadedRow
<1>2. PICK id \in DOMAIN approvals, d \in ApprovalDecision, u \in Approver :
        /\ deciding[s] # Nothing /\ id = deciding[s].approval
        /\ approvals' = [approvals EXCEPT ![id].decision = d, ![id].approver = u]
        /\ decisions' = Append(decisions,
                          [approval |-> id, user_id |-> u, new_value |-> d])
        /\ deciding' = [deciding EXCEPT ![s] = Nothing]
  <2>1. deciding[s] \in LoadedRow
    BY <1>1 DEF decide
  <2>. QED
    BY <2>1 DEF decide, Decide, LoadedRow
<1>3. EventsFor(id) = {}
  BY <1>2, UndecidedHasNoEvent DEF ApartInv, HeldUndecided
<1>4. /\ DOMAIN approvals' = DOMAIN approvals
      /\ \A i \in DOMAIN approvals \ {id} : approvals'[i] = approvals[i]
  BY <1>1, <1>2
<1>5. PICK last : last = Len(decisions) + 1
  OBVIOUS
<1>6. /\ DOMAIN decisions' = DOMAIN decisions \cup {last}
      /\ \A k \in DOMAIN decisions : decisions'[k] = decisions[k]
      /\ decisions'[last].approval = id
  BY <1>1, <1>2, <1>5
<1>7. /\ EventsFor(id)' = {last}
      /\ \A i \in DOMAIN approvals \ {id} : EventsFor(i)' = EventsFor(i)
  BY <1>3, <1>6 DEF EventsFor
<1>8. AtMostOnce'
  BY <1>4, <1>7 DEF ApartInv, AtMostOnce
<1>9. HeldUndecided'
  <2>. SUFFICES ASSUME NEW t \in Session, deciding'[t] # Nothing
                PROVE  approvals'[deciding'[t].approval].decision = NoDecision
    BY DEF HeldUndecided
  <2>1. t # s /\ deciding'[t] = deciding[t]
    BY <1>1, <1>2
  <2>2. deciding[t].approval \in DOMAIN approvals \ {id}
    BY <1>1, <1>2, <2>1 DEF ApartInv, Apart, LoadedRow
  <2>. QED
    BY <1>4, <2>1, <2>2 DEF ApartInv, HeldUndecided
<1>. QED
  BY <1>8, <1>9

\* Every step of calls that hold different rows preserves the invariant.
LEMMA ApartStep ==
  ASSUME ApartInv, [NextApprovals /\ Apart']_approvalVars
  PROVE  ApartInv'
<1>1. ApprovalsInv'
  BY ApprovalsStep DEF ApartInv
<1>2. deciding \in [Session -> {Nothing} \cup LoadedRow]
  BY DEF ApartInv, ApprovalsInv, TypeOKApprovals, LoadedRow
<1>3. ASSUME UNCHANGED approvals, UNCHANGED decisions
      PROVE  AtMostOnce'
  BY <1>3 DEF ApartInv, AtMostOnce, EventsFor
<1>4. ASSUME NEW s \in Session, NEW id \in DOMAIN approvals,
             NEW d \in ApprovalDecision, NEW u \in Approver, load(s, id, d, u)
      PROVE  HeldUndecided' /\ AtMostOnce'
  <2>1. approvals' = approvals /\ decisions' = decisions
    BY <1>4 DEF load
  <2>2. HeldUndecided'
    BY <1>2, <1>4, <2>1 DEF load, ApartInv, HeldUndecided
  <2>. QED
    BY <1>3, <2>1, <2>2
<1>5. ASSUME NEW s \in Session, abandon(s)
      PROVE  HeldUndecided' /\ AtMostOnce'
  <2>1. approvals' = approvals /\ decisions' = decisions
    BY <1>5 DEF abandon
  <2>2. HeldUndecided'
    BY <1>2, <1>5, <2>1 DEF abandon, ApartInv, HeldUndecided
  <2>. QED
    BY <1>3, <2>1, <2>2
<1>6. CASE UNCHANGED approvalVars
  BY <1>1, <1>3, <1>6 DEF approvalVars, ApartInv, Apart, HeldUndecided
<1>7. CASE NextApprovals /\ Apart'
  <2>1. HeldUndecided' /\ AtMostOnce'
    BY <1>4, <1>5, <1>7, RequestApart, DecideApart DEF NextApprovals
  <2>. QED
    BY <1>1, <1>7, <2>1 DEF ApartInv
<1>. QED
  BY <1>6, <1>7

\* A row is decided once, however many calls come in and die, as long as no
\* call loads a row that another has loaded and not yet committed: what breaks
\* DecidedOnce is the missing lock, and nothing else.
THEOREM DecidedOnceApart == SpecApart => []DecidedOnce
<1>1. InitApprovals => ApartInv
  BY ApprovalsInit DEF InitApprovals, ApartInv, Apart, HeldUndecided, AtMostOnce
<1>2. ApartInv /\ [NextApprovals /\ Apart']_approvalVars => ApartInv'
  BY ApartStep
<1>3. ApartInv => DecidedOnce
  <2>. SUFFICES ASSUME ApartInv, NEW id \in DOMAIN approvals
                PROVE  Cardinality(EventsFor(id)) <= 1
    BY DEF DecidedOnce
  <2>1. CASE EventsFor(id) = {}
    BY <2>1, FS_EmptySet
  <2>2. ASSUME NEW k, EventsFor(id) = {k}
        PROVE  Cardinality(EventsFor(id)) <= 1
    <3>1. Cardinality({k}) = 1
      BY FS_Singleton
    <3>. QED
      BY <2>2, <3>1
  <2>. QED
    BY <2>1, <2>2 DEF ApartInv, AtMostOnce
<1>. QED
  BY <1>1, <1>2, <1>3, PTL DEF SpecApart
=============================================================================

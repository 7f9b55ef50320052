---------------------------- MODULE CCReviewProofs ----------------------------
(***************************************************************************)
(* For any number of requests, bundles, reviewers and sessions: a verdict  *)
(* on a cost-committee request has its decision on record and moved its    *)
(* first opening, and no opening passes the committees unheard, although   *)
(* every review goes by the stages it loaded.                              *)
(***************************************************************************)
EXTENDS CCReview, WorkflowProofs, ApprovalsProofs

CCRow ==
  [status : CCRequestStatus, items : Seq(Opening),
   amounts_approved : BOOLEAN, cc_reviewer_id : User \cup {None},
   md_reviewer_id : User \cup {None}]

\* What a worker may be doing.
ReviewJob ==
  [pc : {"request", "refresh", "decide", "reject", "load", "move"},
   id : CCRequest, type : {"CC", "MD"},
   decision : {"APPROVED", "REJECTED", "SENT_BACK"}, user : User,
   loaded : CCRow, approval : Nat, stages : Seq(WorkflowStage),
   next : Nat \ {0}]

CCJob == {Away} \cup [pc : {"submit"}, id : CCRequest] \cup ReviewJob

\* An approval by u of this type: on record, and acted on.
Approved(r, type, u, items) ==
  /\ OnRecord(r, {type}, {"APPROVED"}, {u})
  /\ items # <<>>
  /\ AdvancedBy(items[1], TargetOf[type], u)

\* Whoever the request names did approve it and move its first opening,
\* whatever status the request was given since: reviews that loaded it
\* earlier overwrite the status, and not always the reviewers.
RequestOK(r) ==
  LET row == cc_requests[r] IN
  /\ row.cc_reviewer_id # None
       => Approved(r, "CC", row.cc_reviewer_id, row.items)
  /\ row.md_reviewer_id # None
       => Approved(r, "MD", row.md_reviewer_id, row.items)
  /\ row.status = "CC_APPROVED" => row.cc_reviewer_id # None
  /\ row.status = "MD_APPROVED" => row.md_reviewer_id # None
  /\ row.status \in {"REJECTED", "SENT_BACK"}
       => OnRecord(r, {"CC", "MD"}, {row.status}, User)

\* The committees had been heard when this stage of the opening was loaded.
StageOK(o, stage) == stage \in WorkflowStage /\ CommitteesAt(o, stage)

\* What a review knows of the request, its approval and its openings.
ReviewerOK(w) ==
  LET v == review[w]  row == cc_requests[v.id] IN
  v.pc \in {"request", "refresh", "decide", "reject", "load", "move"} =>
    /\ row.items = v.loaded.items /\ v.loaded.items # <<>>
    /\ v.loaded.cc_reviewer_id # None => row.cc_reviewer_id # None
    /\ v.loaded.md_reviewer_id # None => row.md_reviewer_id # None
    /\ v.pc \in {"refresh", "decide"} =>
         /\ v.approval \in DOMAIN approvals
         /\ approvals[v.approval].entity = v.id
         /\ approvals[v.approval].approval_type = v.type
    /\ v.pc \in {"reject", "load", "move"} =>
         OnRecord(v.id, {v.type}, {v.decision}, {v.user})
    /\ v.pc = "reject" => v.decision = "REJECTED"
    /\ v.pc \in {"load", "move"} => v.decision # "REJECTED"
    /\ v.pc # "move" => v.next = 1
    /\ v.pc = "move" =>
         /\ v.next \in DOMAIN v.loaded.items
         /\ \A i \in DOMAIN v.loaded.items :
              StageOK(v.loaded.items[i], v.stages[i])

CasesOK == TrailTypeOK /\ CommitteesInv /\ created = Opening

RequestsOK ==
  /\ cc_requests \in [CCRequest -> CCRow]
  /\ \A r \in CCRequest : RequestOK(r)

CCInv ==
  /\ CasesOK
  /\ ApprovalsInv
  /\ RequestsOK
  /\ review \in [Reviewer -> CCJob]
  /\ \A w \in Reviewer : ReviewerOK(w)

\* A request keeps its openings, and does not lose a reviewer.
RequestsStay ==
  \A r \in CCRequest :
    /\ Exists(r) => cc_requests'[r].items = cc_requests[r].items
    /\ cc_requests[r].cc_reviewer_id # None
         => cc_requests'[r].cc_reviewer_id # None
    /\ cc_requests[r].md_reviewer_id # None
         => cc_requests'[r].md_reviewer_id # None

-----------------------------------------------------------------------------
(* What stays true while trails and decisions grow.                        *)

\* A committee that approved on record stays so, while decisions are only added.
LEMMA ApprovedStays ==
  ASSUME TrailTypeOK, TrailTypeOK', TrailKept, Trail, Grows, NEW r, NEW type,
         NEW u, NEW items \in Seq(Opening), Approved(r, type, u, items)
  PROVE  Approved(r, type, u, items)'
<1>1. OnRecord(r, {type}, {"APPROVED"}, {u})'
  BY RecordStays DEF Approved
<1>2. items[1] \in Opening
  BY DEF Approved
<1>3. PICK o \in Opening : o = items[1]
  BY <1>2
<1>4. PICK s : s = TargetOf[type]
  OBVIOUS
<1>5. AdvancedBy(o, s, u)'
  BY <1>3, <1>4, EntriesGrow DEF Approved
<1>. QED
  BY <1>1, <1>3, <1>4, <1>5 DEF Approved, TargetOf

\* What the trail says of a stage stays true while it grows.
LEMMA StageStays ==
  ASSUME TrailKept, NEW o \in Opening, NEW stage, StageOK(o, stage)
  PROVE  StageOK(o, stage)'
<1>1. stage \in WorkflowStage /\ CommitteesAt(o, stage)
  BY DEF StageOK
<1>2. SEQUENCE_INDEX[stage] <= SEQUENCE_INDEX[stage]
  BY <1>1, IndexSequence
<1>. QED
  BY <1>1, <1>2, CommitteesKept DEF StageOK

\* The stage an opening stands on is one.
LEMMA StageNow ==
  ASSUME CasesOK, NEW o \in Opening
  PROVE  StageOK(o, current_stage[o])
BY DEF CasesOK, TrailTypeOK, CommitteesInv, StageOK

-----------------------------------------------------------------------------
(* Workers.                                                                *)

\* A worker that does nothing stays right.
LEMMA OtherReviewers ==
  ASSUME CCInv, CasesOK', TrailKept, Grows, RequestsStay, NEW w \in Reviewer,
         review'[w] = review[w]
  PROVE  ReviewerOK(w)'
<1>. PICK v \in CCJob : v = review[w]
  BY DEF CCInv
<1>. SUFFICES ASSUME v.pc \in {"request", "refresh", "decide", "reject",
                               "load", "move"}
              PROVE  ReviewerOK(w)'
  BY DEF ReviewerOK
<1>1. v \in ReviewJob
  BY DEF CCJob, Away
<1>2. ReviewerOK(w) /\ Trail
  BY DEF CCInv, ApprovalsInv
<1>3. /\ v.id \in CCRequest /\ v.loaded.items \in Seq(Opening)
      /\ v.loaded.items # <<>>
  BY <1>1, <1>2 DEF ReviewJob, CCRow, ReviewerOK
<1>4. /\ cc_requests'[v.id].items = v.loaded.items
      /\ v.loaded.cc_reviewer_id # None
           => cc_requests'[v.id].cc_reviewer_id # None
      /\ v.loaded.md_reviewer_id # None
           => cc_requests'[v.id].md_reviewer_id # None
  BY <1>2, <1>3 DEF ReviewerOK, RequestsStay, Exists
<1>5. v.pc \in {"refresh", "decide"} =>
        /\ v.approval \in DOMAIN approvals'
        /\ approvals'[v.approval].entity = v.id
        /\ approvals'[v.approval].approval_type = v.type
  BY <1>2 DEF ReviewerOK, Grows
<1>6. v.pc \in {"reject", "load", "move"} =>
        OnRecord(v.id, {v.type}, {v.decision}, {v.user})'
  BY <1>2, RecordStays DEF ReviewerOK
<1>7. \A i \in DOMAIN v.loaded.items : v.loaded.items[i] \in Opening
  BY <1>3
<1>8. v.pc = "move" =>
         \A i \in DOMAIN v.loaded.items :
           StageOK(v.loaded.items[i], v.stages[i])'
  <2>. SUFFICES ASSUME v.pc = "move", NEW i \in DOMAIN v.loaded.items
                PROVE  StageOK(v.loaded.items[i], v.stages[i])'
    OBVIOUS
  <2>1. StageOK(v.loaded.items[i], v.stages[i])
    BY <1>2 DEF ReviewerOK
  <2>. QED
    BY <1>7, <2>1, StageStays
<1>9. /\ v.loaded.items # <<>>
      /\ v.pc = "reject" => v.decision = "REJECTED"
      /\ v.pc \in {"load", "move"} => v.decision # "REJECTED"
      /\ v.pc # "move" => v.next = 1
      /\ v.pc = "move" => v.next \in DOMAIN v.loaded.items
  BY <1>2 DEF ReviewerOK
<1>. QED
  BY <1>4, <1>5, <1>6, <1>8, <1>9 DEF ReviewerOK

\* A step of one worker, from what it does to cases, approvals and requests.
LEMMA ReviewerStep ==
  ASSUME CCInv, CasesOK', TrailKept, ApprovalsInv', Grows, RequestsOK',
         RequestsStay, NEW w \in Reviewer, NEW t \in CCJob,
         review' = [review EXCEPT ![w] = t], ReviewerOK(w)'
  PROVE  CCInv'
<1>1. review' \in [Reviewer -> CCJob]
      /\ \A v \in Reviewer \ {w} : review'[v] = review[v]
  BY DEF CCInv
<1>2. \A v \in Reviewer : ReviewerOK(v)'
  BY <1>1, OtherReviewers
<1>. QED
  BY <1>1, <1>2 DEF CCInv

\* A step of a session, of the engine or of nobody.
LEMMA NoReviewerStep ==
  ASSUME CCInv, CasesOK', TrailKept, ApprovalsInv', Grows, RequestsOK',
         RequestsStay, review' = review
  PROVE  CCInv'
<1>1. \A v \in Reviewer : ReviewerOK(v)'
  BY OtherReviewers
<1>. QED
  BY <1>1 DEF CCInv

-----------------------------------------------------------------------------
(* Requests.                                                               *)

\* Requests that are left alone, while trails and decisions grow.
LEMMA RequestStays ==
  ASSUME CCInv, CasesOK', TrailKept, Grows, NEW r \in CCRequest,
         cc_requests'[r] = cc_requests[r]
  PROVE  RequestOK(r)'
<1>. PICK row \in CCRow : row = cc_requests[r]
  BY DEF CCInv, RequestsOK
<1>1. /\ RequestOK(r) /\ Trail /\ TrailTypeOK /\ TrailTypeOK'
      /\ row.items \in Seq(Opening)
  BY DEF CCInv, RequestsOK, ApprovalsInv, CasesOK, CCRow
<1>2. row.cc_reviewer_id # None
        => Approved(r, "CC", row.cc_reviewer_id, row.items)'
  BY <1>1, ApprovedStays DEF RequestOK
<1>3. row.md_reviewer_id # None
        => Approved(r, "MD", row.md_reviewer_id, row.items)'
  BY <1>1, ApprovedStays DEF RequestOK
<1>4. row.status \in {"REJECTED", "SENT_BACK"}
        => OnRecord(r, {"CC", "MD"}, {row.status}, User)'
  BY <1>1, RecordStays DEF RequestOK
<1>. QED
  BY <1>1, <1>2, <1>3, <1>4 DEF RequestOK

\* Steps that leave the requests keep what is said of them.
LEMMA RequestsKept ==
  ASSUME CCInv, CasesOK', TrailKept, Grows, cc_requests' = cc_requests
  PROVE  RequestsOK' /\ RequestsStay
<1>1. \A r \in CCRequest : RequestOK(r)'
  BY RequestStays
<1>. QED
  BY <1>1 DEF CCInv, RequestsOK, RequestsStay

\* One request is written.
LEMMA RequestWritten ==
  ASSUME CCInv, CasesOK', TrailKept, Grows, NEW r \in CCRequest,
         NEW row \in CCRow,
         cc_requests' = [cc_requests EXCEPT ![r] = row],
         Exists(r) => row.items = cc_requests[r].items,
         row.cc_reviewer_id # None
           => Approved(r, "CC", row.cc_reviewer_id, row.items)',
         row.md_reviewer_id # None
           => Approved(r, "MD", row.md_reviewer_id, row.items)',
         row.status = "CC_APPROVED" => row.cc_reviewer_id # None,
         row.status = "MD_APPROVED" => row.md_reviewer_id # None,
         row.status \in {"REJECTED", "SENT_BACK"}
           => OnRecord(r, {"CC", "MD"}, {row.status}, User)',
         cc_requests[r].cc_reviewer_id # None => row.cc_reviewer_id # None,
         cc_requests[r].md_reviewer_id # None => row.md_reviewer_id # None
  PROVE  RequestsOK' /\ RequestsStay
<1>1. cc_requests \in [CCRequest -> CCRow]
  BY DEF CCInv, RequestsOK
<1>2. /\ cc_requests' \in [CCRequest -> CCRow] /\ cc_requests'[r] = row
      /\ \A q \in CCRequest \ {r} : cc_requests'[q] = cc_requests[q]
  BY <1>1
<1>3. RequestOK(r)'
  BY <1>2 DEF RequestOK
<1>4. \A q \in CCRequest : RequestOK(q)'
  BY <1>2, <1>3, RequestStays
<1>. QED
  BY <1>2, <1>4 DEF RequestsOK, RequestsStay

\* A step that leaves the cases alone.
LEMMA CasesLeftAlone ==
  ASSUME CasesOK, UNCHANGED vars
  PROVE  CasesOK' /\ TrailKept
<1>1. TrailTypeOK' /\ TrailKept /\ created' = created
  BY NothingMoved DEF CasesOK
<1>2. \A o \in created : CommitteesAt(o, current_stage[o])'
  BY <1>1, CommitteesUntouched DEF CasesOK, vars
<1>. QED
  BY <1>1, <1>2 DEF CasesOK, CommitteesInv

-----------------------------------------------------------------------------
\* Initially no request exists, and every worker is away.
LEMMA CCInit == InitCC => CCInv
<1>. SUFFICES ASSUME InitCC PROVE CCInv
  OBVIOUS
<1>1. ApprovalsInv
  BY ApprovalsInit DEF InitCC
<1>2. CasesOK
  <2>1. PICK u \in User : RoleOf[u] = "ADMIN" /\ InitAt(StartStage, u)
    BY DEF InitCC
  <2>2. TrailTypeOK /\ CommitteesInv
    BY <2>1, CCConstants, InitAtTrail, InitAtCommittees
  <2>. QED
    BY <2>1, <2>2 DEF InitAt, CasesOK
<1>3. RequestsOK
  BY DEF InitCC, RequestsOK, CCRow, CCRequestStatus, RequestOK
<1>. QED
  BY <1>1, <1>2, <1>3 DEF InitCC, CCInv, CCJob, ReviewerOK, Away

\* A step that touches neither cases nor approvals nor requests.
LEMMA OnlyReviewerMoves ==
  ASSUME CCInv, NEW w \in Reviewer, NEW t \in CCJob,
         review' = [review EXCEPT ![w] = t], ReviewerOK(w)',
         UNCHANGED <<vars, approvalVars, cc_requests>>
  PROVE  CCInv'
<1>1. CasesOK' /\ TrailKept
  BY CasesLeftAlone DEF CCInv
<1>2. ApprovalsInv' /\ Grows
  BY ApprovalsLeftAlone DEF CCInv
<1>3. RequestsOK' /\ RequestsStay
  BY <1>1, <1>2, RequestsKept
<1>. QED
  BY <1>1, <1>2, <1>3, ReviewerStep

\* A worker that has left is right.
LEMMA AwayIsRight ==
  ASSUME CCInv, NEW w \in Reviewer, review' = [review EXCEPT ![w] = Away]
  PROVE  Away \in CCJob /\ ReviewerOK(w)'
<1>1. review'[w] = Away
  BY DEF CCInv
<1>. QED
  BY <1>1 DEF CCJob, ReviewerOK, Away

\* A call that ends without a commit.
LEMMA LeavingStep ==
  ASSUME CCInv, NEW w \in Reviewer, review' = [review EXCEPT ![w] = Away],
         UNCHANGED <<vars, approvalVars, cc_requests>>
  PROVE  CCInv'
BY AwayIsRight, OnlyReviewerMoves

-----------------------------------------------------------------------------
(* Drafts.                                                                 *)

\* create: the new request is a DRAFT and claims nothing.
LEMMA CreateRequestStep ==
  ASSUME CCInv, NEW r \in CCRequest, NEW items \in Bundles, NEW u \in User,
         create_request(r, items, u)
  PROVE  CCInv'
<1>1. PICK old \in CCRow : old = cc_requests[r] /\ old.items = <<>>
  BY DEF create_request, Exists, CCInv, RequestsOK
<1>2. items \in Seq(Opening)
  BY DEF Bundles, SeqOf
<1>. DEFINE row == [old EXCEPT !.items = items]
<1>3. /\ row \in CCRow /\ row.status = old.status
      /\ row.cc_reviewer_id = old.cc_reviewer_id
      /\ row.md_reviewer_id = old.md_reviewer_id
  BY <1>2 DEF CCRow
<1>4. cc_requests' = [cc_requests EXCEPT ![r] = row]
  BY <1>1 DEF create_request, CCInv, RequestsOK
<1>. HIDE DEF row
<1>5. CasesOK' /\ TrailKept
  BY CasesLeftAlone DEF CCInv, create_request
<1>6. ApprovalsInv' /\ Grows
  BY ApprovalsLeftAlone DEF CCInv, create_request
<1>7. RequestOK(r) /\ Trail
  BY DEF CCInv, RequestsOK, ApprovalsInv
<1>8. row.cc_reviewer_id = None /\ row.md_reviewer_id = None
  BY <1>1, <1>3, <1>7 DEF RequestOK, Approved
<1>9. row.status \in {"REJECTED", "SENT_BACK"}
        => OnRecord(r, {"CC", "MD"}, {row.status}, User)'
  BY <1>1, <1>3, <1>6, <1>7, RecordStays DEF RequestOK
<1>10. /\ row.status # "CC_APPROVED" /\ row.status # "MD_APPROVED"
       /\ cc_requests[r].cc_reviewer_id = None
       /\ cc_requests[r].md_reviewer_id = None
  BY <1>1, <1>3, <1>7, <1>8 DEF RequestOK
<1>11. RequestsOK' /\ RequestsStay
  BY <1>1, <1>3, <1>4, <1>5, <1>6, <1>8, <1>9, <1>10, RequestWritten DEF Exists
<1>. QED
  BY <1>5, <1>6, <1>11, NoReviewerStep DEF create_request

\* submit, the read.
LEMMA BeginSubmitStep ==
  ASSUME CCInv, NEW w \in Reviewer, NEW r \in CCRequest, NEW u \in User,
         begin_submit(w, r, u)
  PROVE  CCInv'
<1>. DEFINE t == [pc |-> "submit", id |-> r]
<1>1. t \in CCJob /\ t.pc = "submit"
  BY DEF CCJob
<1>2. review' = [review EXCEPT ![w] = t] /\ review'[w] = t
  BY DEF begin_submit, CCInv
<1>. HIDE DEF t
<1>3. ReviewerOK(w)'
  BY <1>1, <1>2 DEF ReviewerOK
<1>. QED
  BY <1>1, <1>2, <1>3, OnlyReviewerMoves DEF begin_submit

\* submit, the commit: SUBMITTED needs nothing behind it.
LEMMA CommitSubmitStep ==
  ASSUME CCInv, NEW w \in Reviewer, commit_submit(w)
  PROVE  CCInv'
<1>1. PICK r \in CCRequest : r = review[w].id
  BY DEF commit_submit, CCInv, CCJob, ReviewJob, Away
<1>2. PICK old \in CCRow : old = cc_requests[r]
  BY DEF CCInv, RequestsOK
<1>. DEFINE row == [old EXCEPT !.status = "SUBMITTED"]
<1>3. /\ row \in CCRow /\ row.status = "SUBMITTED" /\ row.items = old.items
      /\ row.cc_reviewer_id = old.cc_reviewer_id
      /\ row.md_reviewer_id = old.md_reviewer_id
      /\ old.items \in Seq(Opening)
  BY DEF CCRow, CCRequestStatus
<1>4. cc_requests' = [cc_requests EXCEPT ![r] = row]
  BY <1>1, <1>2 DEF commit_submit, CCInv, RequestsOK
<1>. HIDE DEF row
<1>5. CasesOK' /\ TrailKept
  BY CasesLeftAlone DEF CCInv, commit_submit
<1>6. ApprovalsInv' /\ Grows
  BY ApprovalsLeftAlone DEF CCInv, commit_submit
<1>7. RequestOK(r) /\ Trail /\ TrailTypeOK /\ TrailTypeOK'
  BY <1>5 DEF CCInv, RequestsOK, ApprovalsInv, CasesOK
<1>8. row.cc_reviewer_id # None
        => Approved(r, "CC", row.cc_reviewer_id, row.items)'
  BY <1>2, <1>3, <1>5, <1>6, <1>7, ApprovedStays DEF RequestOK
<1>9. row.md_reviewer_id # None
        => Approved(r, "MD", row.md_reviewer_id, row.items)'
  BY <1>2, <1>3, <1>5, <1>6, <1>7, ApprovedStays DEF RequestOK
<1>10. RequestsOK' /\ RequestsStay
  BY <1>2, <1>3, <1>4, <1>5, <1>6, <1>8, <1>9, RequestWritten
<1>11. review' = [review EXCEPT ![w] = Away]
  BY DEF commit_submit
<1>. QED
  BY <1>5, <1>6, <1>10, <1>11, AwayIsRight, ReviewerStep

-----------------------------------------------------------------------------
(* A review up to its decision.                                            *)

\* The read of a review: the session's copy is what the row was.
LEMMA BeginReviewStep ==
  ASSUME CCInv, NEW w \in Reviewer, NEW r \in CCRequest,
         NEW type \in {"CC", "MD"},
         NEW d \in {"APPROVED", "REJECTED", "SENT_BACK"}, NEW u \in User,
         begin_review(w, r, type, d, u)
  PROVE  CCInv'
<1>1. PICK row \in CCRow : row = cc_requests[r] /\ row.items # <<>>
  BY DEF begin_review, Exists, CCInv, RequestsOK
<1>. DEFINE t == [pc |-> "request", id |-> r, type |-> type, decision |-> d,
                  user |-> u, loaded |-> row, approval |-> 0,
                  stages |-> <<>>, next |-> 1]
<1>2. /\ t \in CCJob /\ t.pc = "request" /\ t.id = r /\ t.loaded = row
      /\ t.next = 1
  BY DEF CCJob, ReviewJob
<1>3. review' = [review EXCEPT ![w] = t] /\ review'[w] = t
      /\ cc_requests' = cc_requests
  BY <1>1 DEF begin_review, CCInv
<1>. HIDE DEF t
<1>4. ReviewerOK(w)'
  BY <1>1, <1>2, <1>3 DEF ReviewerOK
<1>. QED
  BY <1>2, <1>3, <1>4, OnlyReviewerMoves DEF begin_review

\* A worker in a review, and what it knows.
LEMMA InReview ==
  ASSUME CCInv, NEW w \in Reviewer,
         review[w].pc \in {"request", "refresh", "decide", "reject", "load",
                           "move"}
  PROVE  \E v \in ReviewJob :
           /\ v = review[w] /\ ReviewerOK(w)
           /\ v.loaded.items \in Seq(Opening) /\ v.loaded.items # <<>>
           /\ v.loaded.items[1] \in Opening
<1>1. review[w] \in ReviewJob /\ ReviewerOK(w)
  BY DEF CCInv, CCJob, Away
<1>2. review[w].loaded.items \in Seq(Opening) /\ review[w].loaded.items # <<>>
  BY <1>1 DEF ReviewJob, CCRow, ReviewerOK
<1>. QED
  BY <1>1, <1>2

\* The approval row a review inserts is one of its own request and level.
LEMMA RequestApprovalStep ==
  ASSUME CCInv, NEW w \in Reviewer, request_approval(w)
  PROVE  CCInv'
<1>1. PICK v \in ReviewJob :
        v = review[w] /\ ReviewerOK(w) /\ v.pc = "request"
  BY InReview DEF request_approval, At
<1>2. PICK id \in Nat : id = Len(approvals) + 1
  BY DEF CCInv, ApprovalsInv, Trail
<1>. DEFINE t == [v EXCEPT !.pc = "refresh", !.approval = id]
<1>3. /\ t \in CCJob /\ t.pc = "refresh" /\ t.id = v.id /\ t.type = v.type
      /\ t.approval = id /\ t.loaded = v.loaded /\ t.next = v.next
  BY DEF CCJob, ReviewJob
<1>4. /\ v.id \in Entity /\ v.type \in ApprovalType /\ v.user \in Approver
      /\ request(v.id, v.type, v.user)
  BY <1>1, CCConstants DEF request_approval, ReviewJob
<1>5. ApprovalsInv' /\ Grows
  BY <1>4, ApprovalRequested DEF CCInv, request_approval
<1>6. /\ id \in DOMAIN approvals'
      /\ approvals'[id].entity = v.id
      /\ approvals'[id].approval_type = v.type
  BY <1>2, <1>4, RequestPreserves DEF CCInv, ApprovalsInv
<1>7. CasesOK' /\ TrailKept
  BY CasesLeftAlone DEF CCInv, request_approval
<1>8. RequestsOK' /\ RequestsStay /\ cc_requests' = cc_requests
  BY <1>5, <1>7, RequestsKept DEF request_approval
<1>9. review' = [review EXCEPT ![w] = t] /\ review'[w] = t
  BY <1>1, <1>2 DEF request_approval, CCInv
<1>. HIDE DEF t
<1>10. ReviewerOK(w)'
  BY <1>1, <1>3, <1>6, <1>8, <1>9 DEF ReviewerOK
<1>. QED
  BY <1>3, <1>5, <1>7, <1>8, <1>9, <1>10, ReviewerStep

\* The approval row as loaded again.
LEMMA RefreshStep ==
  ASSUME CCInv, NEW w \in Reviewer, refresh_approval(w)
  PROVE  CCInv'
<1>1. PICK v \in ReviewJob :
        v = review[w] /\ ReviewerOK(w) /\ v.pc = "refresh"
  BY InReview DEF refresh_approval, At
<1>2. CASE review' = [review EXCEPT ![w] = Away]
  BY <1>2, LeavingStep DEF refresh_approval
<1>3. CASE Goto(w, "decide")
  <2>. DEFINE t == [v EXCEPT !.pc = "decide"]
  <2>1. /\ t \in CCJob /\ t.pc = "decide" /\ t.id = v.id /\ t.type = v.type
        /\ t.approval = v.approval /\ t.loaded = v.loaded /\ t.next = v.next
    BY DEF CCJob, ReviewJob
  <2>2. /\ review' = [review EXCEPT ![w] = t] /\ review'[w] = t
        /\ cc_requests' = cc_requests /\ approvals' = approvals
    BY <1>1, <1>3 DEF refresh_approval, Goto, CCInv, approvalVars
  <2>. HIDE DEF t
  <2>3. ReviewerOK(w)'
    BY <1>1, <2>1, <2>2 DEF ReviewerOK
  <2>. QED
    BY <2>1, <2>2, <2>3, OnlyReviewerMoves DEF refresh_approval
<1>. QED
  BY <1>2, <1>3 DEF refresh_approval

\* The decision of a review goes on record before anything is made of it.
LEMMA DecideApprovalStep ==
  ASSUME CCInv, NEW w \in Reviewer, decide_approval(w)
  PROVE  CCInv'
<1>1. PICK v \in ReviewJob :
        v = review[w] /\ ReviewerOK(w) /\ v.pc = "decide"
  BY InReview DEF decide_approval, At
<1>2. PICK pc \in {"reject", "load"} :
        pc = IF v.decision = "REJECTED" THEN "reject" ELSE "load"
  OBVIOUS
<1>. DEFINE t == [v EXCEPT !.pc = pc]
<1>3. /\ t \in CCJob /\ t.pc = pc /\ t.id = v.id /\ t.type = v.type
      /\ t.decision = v.decision /\ t.user = v.user
      /\ t.loaded = v.loaded /\ t.next = v.next
  BY DEF CCJob, ReviewJob
<1>4. PICK id \in DOMAIN approvals :
        /\ id = v.approval
        /\ approvals[id].entity = v.id
        /\ approvals[id].approval_type = v.type
  BY <1>1 DEF ReviewerOK
<1>5. /\ Decide(id, v.decision, v.user)
      /\ v.decision \in ApprovalDecision /\ v.user \in Approver
      /\ deciding' = deciding
  BY <1>1, <1>4, CCConstants DEF decide_approval, ApprovalDecision, ReviewJob
<1>6. ApprovalsInv' /\ Grows
  BY <1>5, ApprovalDecided DEF CCInv
<1>7. OnRecord(v.id, {v.type}, {v.decision}, {v.user})'
  <2>1. OnRecord(approvals[id].entity, {approvals[id].approval_type},
                 {v.decision}, {v.user})'
    BY <1>5, DecidingRecords DEF CCInv, ApprovalsInv
  <2>2. /\ approvals'[id].entity = approvals[id].entity
        /\ approvals'[id].approval_type = approvals[id].approval_type
    BY <1>6 DEF Grows
  <2>. QED
    BY <1>4, <2>1, <2>2 DEF OnRecord
<1>8. CasesOK' /\ TrailKept
  BY CasesLeftAlone DEF CCInv, decide_approval
<1>9. RequestsOK' /\ RequestsStay /\ cc_requests' = cc_requests
  BY <1>6, <1>8, RequestsKept DEF decide_approval
<1>10. review' = [review EXCEPT ![w] = t] /\ review'[w] = t
  BY <1>1, <1>2 DEF decide_approval, Goto, CCInv
<1>. HIDE DEF t
<1>11. ReviewerOK(w)'
  BY <1>1, <1>2, <1>3, <1>7, <1>9, <1>10 DEF ReviewerOK
<1>. QED
  BY <1>3, <1>6, <1>8, <1>9, <1>10, <1>11, ReviewerStep

-----------------------------------------------------------------------------
(* A review behind its decision.                                           *)

\* What a decided review makes of the request.  An approval also needs the
\* move of the first opening to be recorded.
LEMMA ReviewedRequest ==
  ASSUME CCInv, CasesOK', TrailKept, Grows, NEW w \in Reviewer,
         NEW v \in ReviewJob, v = review[w],
         v.pc \in {"reject", "move"}, ReviewerOK(w),
         v.decision = "APPROVED"
           => AdvancedBy(v.loaded.items[1], TargetOf[v.type], v.user)',
         cc_requests' = [cc_requests EXCEPT ![v.id] = Reviewed(v)]
  PROVE  RequestsOK' /\ RequestsStay
<1>1. PICK r \in CCRequest, type \in {"CC", "MD"}, u \in User,
           d \in {"APPROVED", "REJECTED", "SENT_BACK"}, loaded \in CCRow :
        /\ r = v.id /\ type = v.type /\ u = v.user /\ d = v.decision
        /\ loaded = v.loaded
  BY DEF ReviewJob
<1>2. PICK old \in CCRow : old = cc_requests[r]
  BY DEF CCInv, RequestsOK
<1>3. /\ old.items = loaded.items /\ old.items # <<>>
      /\ loaded.cc_reviewer_id # None => old.cc_reviewer_id # None
      /\ loaded.md_reviewer_id # None => old.md_reviewer_id # None
      /\ OnRecord(r, {type}, {d}, {u})
      /\ old.items \in Seq(Opening)
  BY <1>1, <1>2 DEF ReviewerOK, CCRow
<1>4. /\ RequestOK(r) /\ Trail /\ TrailTypeOK /\ TrailTypeOK'
      /\ OnRecord(r, {type}, {d}, {u})'
  BY <1>3, RecordStays DEF CCInv, RequestsOK, ApprovalsInv, CasesOK
<1>. DEFINE after == StatusAfter(type, d)
            status == IF loaded.status = after THEN old.status ELSE after
            cc == IF d = "APPROVED" /\ type = "CC"
                    THEN IF loaded.cc_reviewer_id = u
                           THEN old.cc_reviewer_id ELSE u
                    ELSE old.cc_reviewer_id
            md == IF d = "APPROVED" /\ type = "MD"
                    THEN IF loaded.md_reviewer_id = u
                           THEN old.md_reviewer_id ELSE u
                    ELSE old.md_reviewer_id
            row == [old EXCEPT !.status = status, !.cc_reviewer_id = cc,
                               !.md_reviewer_id = md,
                               !.amounts_approved =
                                  old.amounts_approved
                                    \/ (d = "APPROVED" /\ type = "CC")]
<1>5. row = Reviewed(v)
  <2>1. CASE d # "APPROVED"
    BY <1>1, <1>2, <2>1 DEF Reviewed, CCRow
  <2>2. CASE d = "APPROVED" /\ type = "CC"
    BY <1>1, <1>2, <2>2 DEF Reviewed, CCRow
  <2>3. CASE d = "APPROVED" /\ type = "MD"
    BY <1>1, <1>2, <2>3 DEF Reviewed, CCRow
  <2>. QED
    BY <2>1, <2>2, <2>3
<1>6. u # None
  BY WorkflowConstants
<1>7. /\ after = "CC_APPROVED" => d = "APPROVED" /\ type = "CC"
      /\ after = "MD_APPROVED" => d = "APPROVED" /\ type = "MD"
      /\ after \in {"REJECTED", "SENT_BACK"} => d = after
      /\ after \in CCRequestStatus
      /\ status \in {old.status, after}
  BY DEF StatusAfter, CCRequestStatus
<1>8. /\ cc \in {old.cc_reviewer_id, u}
      /\ cc # old.cc_reviewer_id => cc = u /\ d = "APPROVED" /\ type = "CC"
      /\ old.cc_reviewer_id # None => cc # None
      /\ d = "APPROVED" /\ type = "CC" => cc # None
  BY <1>3, <1>6
<1>9. /\ md \in {old.md_reviewer_id, u}
      /\ md # old.md_reviewer_id => md = u /\ d = "APPROVED" /\ type = "MD"
      /\ old.md_reviewer_id # None => md # None
      /\ d = "APPROVED" /\ type = "MD" => md # None
  BY <1>3, <1>6
<1>10. /\ row \in CCRow /\ row.status = status /\ row.items = old.items
       /\ row.cc_reviewer_id = cc /\ row.md_reviewer_id = md
  BY <1>7, <1>8, <1>9 DEF CCRow
<1>11. cc_requests' = [cc_requests EXCEPT ![r] = row]
  BY <1>1, <1>5
<1>. HIDE DEF row, status, cc, md, after
<1>12. d = "APPROVED" => Approved(r, type, u, old.items)'
  BY <1>1, <1>3, <1>4 DEF Approved, TargetOf
<1>13. old.cc_reviewer_id # None
         => Approved(r, "CC", old.cc_reviewer_id, old.items)'
  BY <1>2, <1>3, <1>4, ApprovedStays DEF RequestOK
<1>14. old.md_reviewer_id # None
         => Approved(r, "MD", old.md_reviewer_id, old.items)'
  BY <1>2, <1>3, <1>4, ApprovedStays DEF RequestOK
<1>15. row.cc_reviewer_id # None
         => Approved(r, "CC", row.cc_reviewer_id, row.items)'
  <2>1. CASE cc = old.cc_reviewer_id
    BY <1>10, <1>13, <2>1
  <2>2. CASE cc # old.cc_reviewer_id
    BY <1>8, <1>10, <1>12, <2>2
  <2>. QED
    BY <2>1, <2>2
<1>16. row.md_reviewer_id # None
         => Approved(r, "MD", row.md_reviewer_id, row.items)'
  <2>1. CASE md = old.md_reviewer_id
    BY <1>10, <1>14, <2>1
  <2>2. CASE md # old.md_reviewer_id
    BY <1>9, <1>10, <1>12, <2>2
  <2>. QED
    BY <2>1, <2>2
<1>17. /\ row.status = "CC_APPROVED" => row.cc_reviewer_id # None
       /\ row.status = "MD_APPROVED" => row.md_reviewer_id # None
  BY <1>2, <1>4, <1>7, <1>8, <1>9, <1>10 DEF RequestOK
<1>18. row.status \in {"REJECTED", "SENT_BACK"}
         => OnRecord(r, {"CC", "MD"}, {row.status}, User)'
  <2>1. CASE status = old.status
    <3>1. old.status \in {"REJECTED", "SENT_BACK"}
            => OnRecord(r, {"CC", "MD"}, {old.status}, User)'
      BY <1>2, <1>4, RecordStays DEF RequestOK
    <3>. QED
      BY <1>10, <2>1, <3>1
  <2>2. CASE status = after
    <3>1. OnRecord(r, {"CC", "MD"}, {d}, User)'
      BY <1>4 DEF OnRecord
    <3>. QED
      BY <1>7, <1>10, <2>2, <3>1
  <2>. QED
    BY <1>7, <2>1, <2>2
<1>19. /\ cc_requests[r].cc_reviewer_id # None => row.cc_reviewer_id # None
       /\ cc_requests[r].md_reviewer_id # None => row.md_reviewer_id # None
       /\ row.items = cc_requests[r].items
  BY <1>2, <1>8, <1>9, <1>10
<1>. QED
  BY <1>10, <1>11, <1>15, <1>16, <1>17, <1>18, <1>19, RequestWritten

\* A rejection or a hold is written only after it was decided.
LEMMA RejectionStep ==
  ASSUME CCInv, NEW w \in Reviewer, commit_rejection(w)
  PROVE  CCInv'
<1>1. PICK v \in ReviewJob :
        v = review[w] /\ ReviewerOK(w) /\ v.pc = "reject"
  BY InReview DEF commit_rejection, At
<1>2. v.decision # "APPROVED"
  BY <1>1 DEF ReviewerOK
<1>3. CasesOK' /\ TrailKept
  BY CasesLeftAlone DEF CCInv, commit_rejection
<1>4. ApprovalsInv' /\ Grows
  BY ApprovalsLeftAlone DEF CCInv, commit_rejection
<1>5. cc_requests' = [cc_requests EXCEPT ![v.id] = Reviewed(v)]
      /\ review' = [review EXCEPT ![w] = Away]
  BY <1>1 DEF commit_rejection
<1>6. RequestsOK' /\ RequestsStay
  BY <1>1, <1>2, <1>3, <1>4, <1>5, ReviewedRequest
<1>. QED
  BY <1>3, <1>4, <1>5, <1>6, AwayIsRight, ReviewerStep

\* The openings of the bundle as loaded: what the trail says of their stages
\* stays true.
LEMMA LoadStep ==
  ASSUME CCInv, NEW w \in Reviewer, load_openings(w)
  PROVE  CCInv'
<1>1. PICK v \in ReviewJob :
        /\ v = review[w] /\ ReviewerOK(w) /\ v.pc = "load"
        /\ v.loaded.items \in Seq(Opening) /\ v.loaded.items # <<>>
  BY InReview DEF load_openings, At
<1>2. /\ 1 \in DOMAIN v.loaded.items
      /\ \A i \in DOMAIN v.loaded.items : v.loaded.items[i] \in Opening
  BY <1>1
<1>3. PICK stages \in Seq(WorkflowStage) :
        /\ stages = [i \in DOMAIN v.loaded.items |->
                       current_stage[v.loaded.items[i]]]
        /\ \A i \in DOMAIN v.loaded.items :
             StageOK(v.loaded.items[i], stages[i])
  <2>. DEFINE stages == [i \in DOMAIN v.loaded.items |->
                           current_stage[v.loaded.items[i]]]
  <2>1. \A i \in DOMAIN v.loaded.items :
          StageOK(v.loaded.items[i], stages[i])
    BY <1>2, StageNow DEF CCInv
  <2>2. \A i \in DOMAIN v.loaded.items : stages[i] \in WorkflowStage
    BY <2>1 DEF StageOK
  <2>3. /\ DOMAIN v.loaded.items = 1..Len(v.loaded.items)
        /\ Len(v.loaded.items) \in Nat
    BY <1>1
  <2>4. stages \in [1..Len(v.loaded.items) -> WorkflowStage]
    BY <2>2, <2>3
  <2>. HIDE DEF stages
  <2>5. stages \in Seq(WorkflowStage)
    BY <2>3, <2>4
  <2>. QED
    BY <2>1, <2>5 DEF stages
<1>. DEFINE t == [v EXCEPT !.pc = "move", !.stages = stages]
<1>4. /\ t \in CCJob /\ t.pc = "move" /\ t.id = v.id /\ t.type = v.type
      /\ t.decision = v.decision /\ t.user = v.user /\ t.next = v.next
      /\ t.loaded = v.loaded /\ t.stages = stages
  BY DEF CCJob, ReviewJob
<1>5. review' = [review EXCEPT ![w] = t] /\ review'[w] = t
      /\ cc_requests' = cc_requests
  BY <1>1, <1>3 DEF load_openings, CCInv
<1>. HIDE DEF t
<1>6. CasesOK' /\ TrailKept
  BY CasesLeftAlone DEF CCInv, load_openings
<1>7. Grows
  BY ApprovalsLeftAlone DEF CCInv, load_openings
<1>8. \A i \in DOMAIN v.loaded.items :
        StageOK(v.loaded.items[i], stages[i])'
  BY <1>2, <1>3, <1>6, StageStays
<1>9. OnRecord(v.id, {v.type}, {v.decision}, {v.user})'
  BY <1>1, <1>7, RecordStays DEF ReviewerOK, CCInv, ApprovalsInv
<1>10. /\ v.next \in DOMAIN v.loaded.items
       /\ cc_requests'[v.id].items = v.loaded.items
       /\ v.loaded.cc_reviewer_id # None
            => cc_requests'[v.id].cc_reviewer_id # None
       /\ v.loaded.md_reviewer_id # None
            => cc_requests'[v.id].md_reviewer_id # None
       /\ v.decision # "REJECTED" /\ v.loaded.items # <<>>
  BY <1>1, <1>2, <1>5 DEF ReviewerOK
<1>11. ReviewerOK(w)'
  BY <1>4, <1>5, <1>8, <1>9, <1>10 DEF ReviewerOK
<1>. QED
  BY <1>4, <1>5, <1>11, OnlyReviewerMoves DEF load_openings

\* The move of one opening, from the stage at which it was loaded.
LEMMA OpeningMoved ==
  ASSUME CCInv, NEW v \in ReviewJob, NEW o \in Opening,
         NEW stage \in WorkflowStage, stage = v.stages[v.next],
         StageOK(o, stage), Movable(v),
         IF v.decision = "APPROVED"
           THEN Advance(o, stage, TargetOf[v.type], v.user)
           ELSE SendBack(o, stage, v.user)
  PROVE  /\ CasesOK' /\ TrailKept
         /\ v.decision = "APPROVED" => AdvancedBy(o, TargetOf[v.type], v.user)'
<1>1. PICK type \in {"CC", "MD"}, u \in User : type = v.type /\ u = v.user
  BY DEF ReviewJob
<1>2. TrailTypeOK /\ CommitteesInv /\ created = Opening /\ CommitteesAt(o, stage)
  BY DEF CCInv, CasesOK, StageOK
<1>3. CASE v.decision = "APPROVED"
  <2>1. PICK target \in WorkflowStage :
          /\ target = TargetOf[type] /\ is_allowed(stage, target)
          /\ can_role_advance(RoleOf[u], target)
    BY <1>1, <1>3, TransitionSteps DEF Movable
  <2>2. Advance(o, stage, target, u)
    BY <1>1, <1>3, <2>1
  <2>3. /\ TrailTypeOK' /\ TrailKept /\ created' = created
        /\ AdvancedBy(o, target, u)'
    BY <1>2, <2>2, AdvanceRecorded
  <2>4. CommitteesInv'
    BY <1>2, <2>1, <2>2, AdvanceCommittees
  <2>. QED
    BY <1>1, <1>2, <2>1, <2>3, <2>4 DEF CasesOK, TargetOf
<1>4. CASE v.decision # "APPROVED"
  <2>1. has_previous(stage) /\ SendBack(o, stage, u)
    BY <1>1, <1>4 DEF Movable
  <2>2. TrailTypeOK' /\ TrailKept /\ created' = created
    BY <1>2, <2>1, SendBackRecorded
  <2>3. CommitteesInv'
    BY <1>2, <2>1, RetreatCommittees
  <2>. QED
    BY <1>2, <1>4, <2>2, <2>3 DEF CasesOK
<1>. QED
  BY <1>3, <1>4

\* A move of a review, of which the first writes the request.
LEMMA MoveStep ==
  ASSUME CCInv, NEW w \in Reviewer, move_opening(w)
  PROVE  CCInv'
<1>1. PICK v \in ReviewJob :
        /\ v = review[w] /\ ReviewerOK(w) /\ v.pc = "move"
        /\ v.loaded.items \in Seq(Opening) /\ v.loaded.items # <<>>
  BY InReview DEF move_opening, At
<1>2. /\ v.next \in DOMAIN v.loaded.items
      /\ \A i \in DOMAIN v.loaded.items :
           StageOK(v.loaded.items[i], v.stages[i])
  BY <1>1 DEF ReviewerOK
<1>3. PICK o \in Opening, stage \in WorkflowStage :
        o = v.loaded.items[v.next] /\ stage = v.stages[v.next]
  BY <1>1, <1>2 DEF StageOK
<1>4. StageOK(o, stage)
  BY <1>2, <1>3
<1>5. /\ Movable(v)
      /\ IF v.decision = "APPROVED"
           THEN Advance(o, stage, TargetOf[v.type], v.user)
           ELSE SendBack(o, stage, v.user)
  BY <1>1, <1>3 DEF move_opening
<1>6. /\ CasesOK' /\ TrailKept
      /\ v.decision = "APPROVED" => AdvancedBy(o, TargetOf[v.type], v.user)'
  BY <1>3, <1>4, <1>5, OpeningMoved
<1>7. ApprovalsInv' /\ Grows
  BY ApprovalsLeftAlone DEF CCInv, move_opening
<1>8. RequestsOK' /\ RequestsStay
  <2>1. CASE v.next = 1
    <3>1. cc_requests' = [cc_requests EXCEPT ![v.id] = Reviewed(v)]
      BY <1>1, <2>1 DEF move_opening
    <3>2. v.decision = "APPROVED"
            => AdvancedBy(v.loaded.items[1], TargetOf[v.type], v.user)'
      BY <1>3, <1>6, <2>1
    <3>. QED
      BY <1>1, <1>6, <1>7, <3>1, <3>2, ReviewedRequest
  <2>2. CASE v.next # 1
    <3>1. cc_requests' = cc_requests
      BY <1>1, <2>2 DEF move_opening
    <3>. QED
      BY <1>6, <1>7, <3>1, RequestsKept
  <2>. QED
    BY <2>1, <2>2
<1>9. CASE review' = [review EXCEPT ![w] = Away]
  BY <1>6, <1>7, <1>8, <1>9, AwayIsRight, ReviewerStep
<1>10. CASE /\ v.next # Len(v.loaded.items)
            /\ review' = [review EXCEPT ![w] = [v EXCEPT !.next = v.next + 1]]
  <2>. DEFINE t == [v EXCEPT !.next = v.next + 1]
  <2>1. /\ t \in CCJob /\ t.pc = "move" /\ t.id = v.id /\ t.type = v.type
        /\ t.decision = v.decision /\ t.user = v.user
        /\ t.loaded = v.loaded /\ t.stages = v.stages /\ t.next = v.next + 1
    BY <1>1 DEF CCJob, ReviewJob
  <2>2. review' = [review EXCEPT ![w] = t] /\ review'[w] = t
    BY <1>10 DEF CCInv
  <2>. HIDE DEF t
  <2>3. v.next + 1 \in DOMAIN v.loaded.items
    BY <1>1, <1>2, <1>10
  <2>4. \A i \in DOMAIN v.loaded.items :
          StageOK(v.loaded.items[i], v.stages[i])'
    BY <1>1, <1>2, <1>6, StageStays
  <2>5. OnRecord(v.id, {v.type}, {v.decision}, {v.user})'
    BY <1>1, <1>7, RecordStays DEF ReviewerOK, CCInv, ApprovalsInv
  <2>6. /\ cc_requests[v.id].items = v.loaded.items /\ v.id \in CCRequest
        /\ v.loaded.cc_reviewer_id # None
             => cc_requests[v.id].cc_reviewer_id # None
        /\ v.loaded.md_reviewer_id # None
             => cc_requests[v.id].md_reviewer_id # None
        /\ v.decision # "REJECTED"
    BY <1>1 DEF ReviewerOK, ReviewJob
  <2>7. /\ cc_requests'[v.id].items = v.loaded.items
        /\ v.loaded.cc_reviewer_id # None
             => cc_requests'[v.id].cc_reviewer_id # None
        /\ v.loaded.md_reviewer_id # None
             => cc_requests'[v.id].md_reviewer_id # None
    BY <1>1, <1>8, <2>6 DEF RequestsStay, Exists
  <2>8. ReviewerOK(w)'
    BY <1>1, <2>1, <2>2, <2>3, <2>4, <2>5, <2>6, <2>7 DEF ReviewerOK
  <2>. QED
    BY <1>6, <1>7, <1>8, <2>1, <2>2, <2>8, ReviewerStep
<1>11. \/ review' = [review EXCEPT ![w] = Away]
       \/ /\ v.next # Len(v.loaded.items)
          /\ review' = [review EXCEPT ![w] = [v EXCEPT !.next = v.next + 1]]
  BY <1>1 DEF move_opening
<1>. QED
  BY <1>9, <1>10, <1>11

-----------------------------------------------------------------------------
(* The other actors.                                                       *)

\* A step of the engine or of a session on the approvals.
LEMMA OutsideStep ==
  ASSUME CCInv, CasesOK', TrailKept, ApprovalsInv', Grows,
         UNCHANGED <<cc_requests, review>>
  PROVE  CCInv'
BY RequestsKept, NoReviewerStep

\* A case moved through the endpoint of the engine.
LEMMA HandStep ==
  ASSUME CCInv, NEW o \in Opening, NEW u \in User, MoveByHand(o, u)
  PROVE  CCInv'
<1>1. TrailTypeOK /\ CommitteesInv /\ created = Opening
  BY DEF CCInv, CasesOK
<1>2. send_back(o, u) \/ \E target \in WorkflowStage : transition(o, target, u)
  BY DEF MoveByHand
<1>3. TrailTypeOK' /\ TrailKept /\ created' = created
  BY <1>1, <1>2, HandMoved
<1>4. CommitteesInv'
  BY <1>1, <1>2, TransitionCommittees, SendBackCommittees
<1>5. ApprovalsInv' /\ Grows
  BY ApprovalsLeftAlone DEF CCInv, MoveByHand
<1>. QED
  BY <1>1, <1>3, <1>4, <1>5, OutsideStep DEF MoveByHand, CasesOK

\* An approval row decided through its own endpoint.
LEMMA DirectStep ==
  ASSUME CCInv, DecideDirectly
  PROVE  CCInv'
<1>1. NextApprovals
  BY CCConstants DEF DecideDirectly, NextApprovals
<1>2. ApprovalsInv' /\ Grows
  BY <1>1, ApprovalsStep DEF CCInv
<1>3. CasesOK' /\ TrailKept
  BY CasesLeftAlone DEF CCInv, DecideDirectly
<1>. QED
  BY <1>2, <1>3, OutsideStep DEF DecideDirectly

\* Nothing happens.
LEMMA StutterStep ==
  ASSUME CCInv, UNCHANGED ccVars
  PROVE  CCInv'
<1>1. ApprovalsInv' /\ Grows
  BY ApprovalsLeftAlone DEF CCInv, ccVars
<1>2. CasesOK' /\ TrailKept
  BY CasesLeftAlone DEF CCInv, ccVars
<1>. QED
  BY <1>1, <1>2, OutsideStep DEF ccVars

\* Every step preserves the invariant.
LEMMA CCNext ==
  ASSUME CCInv, [NextCC]_ccVars
  PROVE  CCInv'
<1>1. ASSUME NEW w \in Reviewer, conflict(w) \/ crash(w)
      PROVE  CCInv'
  BY <1>1, LeavingStep DEF conflict, crash
<1>2. ASSUME NEW w \in Reviewer, Continues(w)
      PROVE  CCInv'
  BY <1>1, <1>2, CommitSubmitStep, RequestApprovalStep, RefreshStep,
     DecideApprovalStep, RejectionStep, LoadStep, MoveStep
  DEF Continues
<1>3. ASSUME NEW w \in Reviewer, NEW u \in User, Begins(w, u)
      PROVE  CCInv'
  BY <1>3, BeginSubmitStep, BeginReviewStep DEF Begins
<1>. QED
  BY <1>2, <1>3, CreateRequestStep, HandStep, DirectStep, StutterStep
  DEF NextCC

-----------------------------------------------------------------------------
\* Whatever races, fails or dies: a request carries a verdict only if a
\* decision to that effect is on record, an approval by the reviewer it names.
THEOREM StatusAlwaysBacked == SpecCC => []StatusBackedByDecision
<1>1. InitCC => CCInv
  BY CCInit
<1>2. CCInv /\ [NextCC]_ccVars => CCInv'
  BY CCNext
<1>3. CCInv => StatusBackedByDecision
  <2>. SUFFICES ASSUME CCInv, NEW r \in CCRequest
                PROVE  LET row == cc_requests[r] IN
                       /\ row.status = "CC_APPROVED" =>
                            DecisionOnRecord(r, "CC", "APPROVED",
                                             {row.cc_reviewer_id})
                       /\ row.status = "MD_APPROVED" =>
                            DecisionOnRecord(r, "MD", "APPROVED",
                                             {row.md_reviewer_id})
                       /\ row.status \in {"REJECTED", "SENT_BACK"} =>
                            \E type \in {"CC", "MD"} :
                              DecisionOnRecord(r, type, row.status, User)
    BY DEF StatusBackedByDecision
  <2>1. RequestOK(r)
    BY DEF CCInv, RequestsOK
  <2>. QED
    BY <2>1 DEF RequestOK, Approved, OnRecord, DecisionOnRecord
<1>. QED
  BY <1>1, <1>2, <1>3, PTL DEF SpecCC

\* An approved request names a reviewer who moved its first opening on.
THEOREM ApprovalAlwaysMovedFirst == SpecCC => []ApprovalMovedFirstOpening
<1>1. InitCC => CCInv
  BY CCInit
<1>2. CCInv /\ [NextCC]_ccVars => CCInv'
  BY CCNext
<1>3. CCInv => ApprovalMovedFirstOpening
  <2>. SUFFICES ASSUME CCInv, NEW r \in CCRequest
                PROVE  LET row == cc_requests[r] IN
                       /\ row.status = "CC_APPROVED" =>
                            AdvancedBy(row.items[1], "MD_APPROVAL",
                                       row.cc_reviewer_id)
                       /\ row.status = "MD_APPROVED" =>
                            AdvancedBy(row.items[1], "PAYMENT",
                                       row.md_reviewer_id)
    BY DEF ApprovalMovedFirstOpening, AdvancedBy
  <2>1. RequestOK(r)
    BY DEF CCInv, RequestsOK
  <2>. QED
    BY <2>1 DEF RequestOK, Approved, TargetOf
<1>. QED
  BY <1>1, <1>2, <1>3, PTL DEF SpecCC

\* The reviews move openings from stages that may be out of date, and still
\* take none to PAYMENT that both committees have not moved on.
THEOREM ReviewsAlwaysHeard == SpecCC => []CommitteeBeforePayment
<1>1. InitCC => CCInv
  BY CCInit
<1>2. CCInv /\ [NextCC]_ccVars => CCInv'
  BY CCNext
<1>3. CCInv => CommitteeBeforePayment
  BY DEF CCInv, CasesOK, CommitteesInv, CommitteesAt, CommitteeBeforePayment
<1>. QED
  BY <1>1, <1>2, <1>3, PTL DEF SpecCC
=============================================================================

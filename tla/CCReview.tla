------------------------------ MODULE CCReview ------------------------------
(***************************************************************************)
(* Cost-committee requests: one request bundles several openings, CC and   *)
(* then MD decide on it, and the decision moves every bundled opening one  *)
(* stage on or back.  A review is a chain of commits: the approval row,    *)
(* its decision, and one commit for each opening moved; the first of these *)
(* also writes the request itself.  Between any two of them the review may *)
(* fail with a conflict or die, and other requests run.                    *)
(*                                                                         *)
(* Composes Workflow (the openings) and Approvals (the approval rows).     *)
(* Translated from app/services/cc.py and app/api/cc.py.                   *)
(***************************************************************************)
EXTENDS Workflow, Approvals

CONSTANTS
  CCRequest,      \* ids of the requests that may be created (the Entity
                  \* of Approvals)
  Reviewer,       \* worker threads that submit or review requests
  StartStage,     \* the stage the openings stand on when the model starts
  DirectDecider,  \* bound: users who call the approvals endpoint
  DirectDecision  \* bound: decisions they take there

ASSUME CCConstants ==
  /\ CCRequest \subseteq Entity
  /\ {"CC", "MD"} \subseteq ApprovalType
  /\ Approver = User
  /\ StartStage \in WorkflowStage
  /\ DirectDecider \subseteq User
  /\ DirectDecision \subseteq ApprovalDecision

VARIABLES
  cc_requests,    \* the rows of cc_requests with their items
  review          \* what each worker is doing

ccVars == <<vars, approvalVars, cc_requests, review>>

CCRequestStatus ==
  {"DRAFT", "SUBMITTED", "UNDER_REVIEW", "CC_APPROVED", "MD_APPROVED",
   "REJECTED", "SENT_BACK"}

\* Roles the endpoints of app/api/cc.py admit.
TEAM == [CC |-> {"CC", "SUPER_ADMIN", "ADMIN"},
         MD |-> {"MD", "SUPER_ADMIN", "ADMIN"}]

\* What a decision makes of the request, and the stage an approval leads to.
StatusAfter(type, decision) ==
  IF decision # "APPROVED" THEN decision
  ELSE IF type = "CC" THEN "CC_APPROVED" ELSE "MD_APPROVED"

TargetOf == [CC |-> "MD_APPROVAL", MD |-> "PAYMENT"]

Away == [pc |-> "away"]

Exists(r) == cc_requests[r].items # <<>>

-----------------------------------------------------------------------------
\* The openings have come to StartStage by an administrator's transitions.
InitCC ==
  /\ InitApprovals
  /\ \E u \in {v \in User : RoleOf[v] = "ADMIN"} : InitAt(StartStage, u)
  /\ cc_requests = [r \in CCRequest |->
       [status |-> "DRAFT", items |-> <<>>, amounts_approved |-> FALSE,
        cc_reviewer_id |-> None, md_reviewer_id |-> None]]
  /\ review = [w \in Reviewer |-> Away]

\* CCService.create: a draft with at least one item.  The code of the request
\* is left out.
create_request(r, items, u) ==
  /\ ~Exists(r)
  /\ RoleOf[u] \in MANAGERS
  /\ items # <<>>
  /\ cc_requests' = [cc_requests EXCEPT ![r].items = items]
  /\ UNCHANGED <<vars, approvalVars, review>>

\* CCService.submit loads the request and checks that it is a draft ...
begin_submit(w, r, u) ==
  /\ review[w] = Away
  /\ Exists(r)
  /\ RoleOf[u] \in MANAGERS
  /\ cc_requests[r].status = "DRAFT"
  /\ review' = [review EXCEPT ![w] = [pc |-> "submit", id |-> r]]
  /\ UNCHANGED <<vars, approvalVars, cc_requests>>

\* ... and commits, without looking again.
commit_submit(w) ==
  /\ review[w].pc = "submit"
  /\ cc_requests' = [cc_requests EXCEPT ![review[w].id].status = "SUBMITTED"]
  /\ review' = [review EXCEPT ![w] = Away]
  /\ UNCHANGED <<vars, approvalVars>>

-----------------------------------------------------------------------------
(* The steps of cc_review (type "CC") and md_review (type "MD").           *)

At(w, pc) == review[w].pc = pc

Goto(w, pc) == review' = [review EXCEPT ![w].pc = pc]

\* _assert_no_decision.
Decided(r, type) ==
  \E id \in DOMAIN approvals :
    /\ approvals[id].entity = r
    /\ approvals[id].approval_type = type
    /\ approvals[id].decision # NoDecision

\* The request is loaded and has no decision of this type.  Its status is
\* loaded and not looked at.
begin_review(w, r, type, decision, u) ==
  /\ review[w] = Away
  /\ Exists(r)
  /\ RoleOf[u] \in TEAM[type]
  /\ ~Decided(r, type)
  /\ review' = [review EXCEPT ![w] =
       [pc |-> "request", id |-> r, type |-> type, decision |-> decision,
        user |-> u, loaded |-> cc_requests[r], approval |-> 0,
        stages |-> <<>>, next |-> 1]]
  /\ UNCHANGED <<vars, approvalVars, cc_requests>>

\* ApprovalService.request commits the row.  The first opening, which it looks
\* up, is not kept in the session.
request_approval(w) ==
  /\ At(w, "request")
  /\ LET v == review[w]
     IN  /\ request(v.id, v.type, v.user)
         /\ review' = [review EXCEPT ![w].pc = "refresh",
                                     ![w].approval = Len(approvals) + 1]
  /\ UNCHANGED <<vars, deciding, cc_requests>>

\* Faulty variant: a row decided by somebody else counts as decided.
refresh_approval_trusting(w) ==
  /\ At(w, "refresh")
  /\ Goto(w, IF approvals[review[w].approval].decision = NoDecision
               THEN "decide" ELSE "load")
  /\ UNCHANGED <<vars, approvalVars, cc_requests>>

\* The refresh at the end of request: if somebody has decided the row by now,
\* decide will answer with a conflict.
refresh_approval(w) ==
  /\ At(w, "refresh")
  /\ IF approvals[review[w].approval].decision = NoDecision
       THEN Goto(w, "decide")
       ELSE review' = [review EXCEPT ![w] = Away]
  /\ UNCHANGED <<vars, approvalVars, cc_requests>>

\* ApprovalService.decide.
decide_approval(w) ==
  /\ At(w, "decide")
  /\ LET v == review[w] IN
       /\ Decide(v.approval, v.decision, v.user)
       /\ Goto(w, IF v.decision = "REJECTED" THEN "reject" ELSE "load")
  /\ UNCHANGED <<vars, deciding, cc_requests>>

\* The row of the request as the review leaves it: what it changes of what it
\* loaded, on top of what the database holds.
Reviewed(v) ==
  LET stored == cc_requests[v.id]
      status == StatusAfter(v.type, v.decision)
      written == [stored EXCEPT
                    !.status = IF v.loaded.status = status THEN @ ELSE status]
  IN  CASE v.decision # "APPROVED" -> written
        [] v.decision = "APPROVED" /\ v.type = "CC" ->
             [written EXCEPT
                !.amounts_approved = TRUE,
                !.cc_reviewer_id = IF v.loaded.cc_reviewer_id = v.user
                                     THEN @ ELSE v.user]
        [] v.decision = "APPROVED" /\ v.type = "MD" ->
             [written EXCEPT
                !.md_reviewer_id = IF v.loaded.md_reviewer_id = v.user
                                     THEN @ ELSE v.user]

\* A rejection moves no opening: one commit ends it.
commit_rejection(w) ==
  /\ At(w, "reject")
  /\ cc_requests' = [cc_requests EXCEPT ![review[w].id] = Reviewed(review[w])]
  /\ review' = [review EXCEPT ![w] = Away]
  /\ UNCHANGED <<vars, approvalVars>>

\* _openings loads every opening before the first one is moved.
load_openings(w) ==
  /\ At(w, "load")
  /\ LET items == review[w].loaded.items
     IN  review' = [review EXCEPT
           ![w].pc = "move",
           ![w].stages = [i \in DOMAIN items |-> current_stage[items[i]]]]
  /\ UNCHANGED <<vars, approvalVars, cc_requests>>

\* Faulty variant: the stage of the opening is not checked.
Movable_from_anywhere(v) ==
  IF v.decision = "APPROVED"
    THEN can_role_advance(RoleOf[v.user], TargetOf[v.type])
    ELSE /\ has_previous(v.stages[v.next])
         /\ can_role_send_back(RoleOf[v.user], v.stages[v.next])

\* Whether the engine takes the next opening where this review would move it.
\* Both answers go by the row as it was loaded.
Movable(v) ==
  LET stage == v.stages[v.next]  role == RoleOf[v.user]
  IN  IF v.decision = "APPROVED"
        THEN /\ is_allowed(stage, TargetOf[v.type])
             /\ can_role_advance(role, TargetOf[v.type])
        ELSE has_previous(stage) /\ can_role_send_back(role, stage)

\* One turn of _advance_all or _send_back_all: a commit that moves one opening
\* and, the first time, writes the request.
move_opening(w) ==
  LET v == review[w]
      o == v.loaded.items[v.next]
      last == v.next = Len(v.loaded.items)
  IN  /\ At(w, "move")
      /\ Movable(v)
      /\ IF v.decision = "APPROVED"
           THEN Advance(o, v.stages[v.next], TargetOf[v.type], v.user)
           ELSE SendBack(o, v.stages[v.next], v.user)
      /\ IF v.next = 1
           THEN cc_requests' = [cc_requests EXCEPT ![v.id] = Reviewed(v)]
           ELSE UNCHANGED cc_requests
      /\ review' = [review EXCEPT ![w] =
                      IF last THEN Away ELSE [v EXCEPT !.next = v.next + 1]]
      /\ UNCHANGED approvalVars

\* Faulty variant: the request is written although the engine refused.
conflict_committed(w) ==
  /\ At(w, "move")
  /\ ~Movable(review[w])
  /\ cc_requests' = [cc_requests EXCEPT ![review[w].id] = Reviewed(review[w])]
  /\ review' = [review EXCEPT ![w] = Away]
  /\ UNCHANGED <<vars, approvalVars>>

\* The engine answers 409 or 403: the openings moved so far stay moved, the
\* approval stays decided, the rest of the review is lost.
conflict(w) ==
  /\ At(w, "move")
  /\ ~Movable(review[w])
  /\ review' = [review EXCEPT ![w] = Away]
  /\ UNCHANGED <<vars, approvalVars, cc_requests>>

\* The server dies between two commits.
crash(w) ==
  /\ review[w] # Away
  /\ review' = [review EXCEPT ![w] = Away]
  /\ UNCHANGED <<vars, approvalVars, cc_requests>>

-----------------------------------------------------------------------------
\* A call of a user that starts a submission or a review.
Begins(w, u) ==
  \E r \in CCRequest :
    \/ begin_submit(w, r, u)
    \/ \E type \in {"CC", "MD"}, d \in {"APPROVED", "REJECTED", "SENT_BACK"} :
         begin_review(w, r, type, d, u)

\* The next step of a call that has started.
Continues(w) ==
  \/ commit_submit(w)
  \/ request_approval(w)
  \/ refresh_approval(w)
  \/ decide_approval(w)
  \/ commit_rejection(w)
  \/ load_openings(w)
  \/ move_opening(w)
  \/ conflict(w)
  \/ crash(w)

\* Openings moved by hand, through the endpoints of the engine.
MoveByHand(o, u) ==
  /\ send_back(o, u) \/ \E target \in WorkflowStage : transition(o, target, u)
  /\ UNCHANGED <<approvalVars, cc_requests, review>>

\* Approval rows decided through the endpoint of the approvals.
DecideDirectly ==
  /\ \/ \E s \in Session, id \in DOMAIN approvals, u \in DirectDecider,
           d \in DirectDecision : load(s, id, d, u)
     \/ \E s \in Session : decide(s) \/ abandon(s)
  /\ UNCHANGED <<vars, cc_requests, review>>

Bundles == {items \in SeqOf(Opening, Cardinality(Opening)) : IsInjective(items)}

NextCC ==
  \/ \E r \in CCRequest, items \in Bundles, u \in User :
       create_request(r, items, u)
  \/ \E w \in Reviewer : Continues(w) \/ \E u \in User : Begins(w, u)
  \/ \E o \in Opening, u \in User : MoveByHand(o, u)
  \/ DecideDirectly

SpecCC == InitCC /\ [][NextCC]_ccVars

-----------------------------------------------------------------------------
(* Properties.                                                             *)

\* The request rows are well formed, and no worker is lost in a review.
TypeOKCC ==
  /\ TypeOK
  /\ TypeOKApprovals
  /\ \A r \in CCRequest :
       /\ cc_requests[r].status \in CCRequestStatus
       /\ cc_requests[r].items \in Seq(Opening)
       /\ cc_requests[r].amounts_approved \in BOOLEAN
       /\ cc_requests[r].cc_reviewer_id \in User \cup {None}
       /\ cc_requests[r].md_reviewer_id \in User \cup {None}
  /\ \A w \in Reviewer :
       /\ review[w].pc \in {"away", "submit", "request", "refresh", "decide",
                            "reject", "load", "move"}
       /\ At(w, "move") => review[w].next \in DOMAIN review[w].loaded.items

\* Whether the trail of the decisions has this decision on the request.
DecisionOnRecord(r, type, decision, users) ==
  \E k \in DOMAIN decisions :
    LET row == approvals[decisions[k].approval]
    IN  /\ row.entity = r
        /\ row.approval_type = type
        /\ decisions[k].new_value = decision
        /\ decisions[k].user_id \in users

\* docs/approval-matrix.md: a status never changes without an approval record.
\* Whatever races, fails or dies: a request carries a verdict only if a
\* decision to that effect was recorded, an approval by the reviewer it names.
StatusBackedByDecision ==
  \A r \in CCRequest :
    LET row == cc_requests[r]
    IN  CASE row.status = "CC_APPROVED" ->
               DecisionOnRecord(r, "CC", "APPROVED", {row.cc_reviewer_id})
          [] row.status = "MD_APPROVED" ->
               DecisionOnRecord(r, "MD", "APPROVED", {row.md_reviewer_id})
          [] row.status \in {"REJECTED", "SENT_BACK"} ->
               \E type \in {"CC", "MD"} :
                 DecisionOnRecord(r, type, row.status, User)
          [] OTHER -> TRUE

\* The verdict on a request and the move of its first opening are one commit:
\* an approved request names a reviewer who did move that opening on.
ApprovalMovedFirstOpening ==
  \A r \in CCRequest :
    LET row == cc_requests[r]
        MovedBy(target, u) ==
          \E i \in StageEvents(row.items[1]) :
            /\ audit[row.items[1]][i].action = "STAGE_ADVANCED"
            /\ audit[row.items[1]][i].new_value = target
            /\ audit[row.items[1]][i].user_id = u
    IN  /\ row.status = "CC_APPROVED"
             => MovedBy("MD_APPROVAL", row.cc_reviewer_id)
        /\ row.status = "MD_APPROVED"
             => MovedBy("PAYMENT", row.md_reviewer_id)

Quiet == \A w \in Reviewer : review[w] = Away

\* docs/approval-matrix.md: the CC decision is recorded on the request, once
\* no review of it is running any more.  Violated when
\* the first opening is refused or the server dies after the decision: the
\* request keeps its old status, and cannot be reviewed again.
DecisionReachesRequest ==
  Quiet => \A r \in CCRequest :
    Decided(r, "CC") => cc_requests[r].status \notin {"DRAFT", "SUBMITTED"}
=============================================================================

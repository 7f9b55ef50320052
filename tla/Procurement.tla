----------------------------- MODULE Procurement -----------------------------
(***************************************************************************)
(* Quotation requests of an opening and their accounts review.  Managers   *)
(* collect one quotation per vendor and select a vendor; ACCOUNTS reviews  *)
(* the request, which moves the case on to CC_APPROVAL or back to          *)
(* QUOTATION.  Selecting is a chain of two commits, a review of three or   *)
(* four, and any of them may be the last one.                              *)
(*                                                                         *)
(* Composes Workflow (the openings) and Approvals (the approval rows).     *)
(* Translated from app/services/procurement.py, app/services/accounts.py,  *)
(* app/api/procurement.py and app/api/accounts.py.                         *)
(***************************************************************************)
EXTENDS Workflow, Approvals

CONSTANTS
  QuotationRequest,  \* ids of the requests that may be created (the Entity
                     \* of Approvals)
  Vendor,            \* the vendors
  Buyer,             \* worker threads that handle requests
  StartStage,        \* the stage the openings stand on when the model starts
  ReviewDecision,    \* bound: decisions reviewers take
  Mover,             \* bound: users who move openings by hand
  DirectDecider,     \* bound: users who call the approvals endpoint
  DirectDecision     \* bound: decisions they take there

QuotationStatus == {"SUBMITTED", "UNDER_REVIEW", "ACCEPTED", "REJECTED"}

ASSUME ProcurementConstants ==
  /\ QuotationRequest \subseteq Entity
  /\ {"QUOTATION", "ACCOUNTS"} \subseteq ApprovalType
  /\ Approver = User
  /\ None \notin Opening \cup Vendor \cup QuotationStatus
  /\ StartStage \in WorkflowStage
  /\ Mover \subseteq User
  /\ ReviewDecision \subseteq ApprovalDecision
  /\ DirectDecider \subseteq User
  /\ DirectDecision \subseteq ApprovalDecision

VARIABLES
  requests,       \* the rows of quotation_requests
  quotations,     \* Quotation.status, by request and vendor
  selections,     \* the vendors VENDOR_SELECTED events name, by request
  buying          \* what each worker is doing

procurementVars ==
  <<vars, approvalVars, requests, quotations, selections, buying>>

QuotationRequestStatus ==
  {"OPEN", "SUBMITTED", "UNDER_REVIEW", "APPROVED", "REJECTED"}

\* Roles the review endpoint of app/api/accounts.py admits.
ACCOUNTS_TEAM == {"ACCOUNTS", "SUPER_ADMIN", "ADMIN"}

NoRequest ==
  [branch_opening_id |-> None, items |-> FALSE, status |-> "OPEN",
   selected_vendor_id |-> None, approved_amount |-> FALSE]

Made(r) == requests[r].branch_opening_id # None

Quoted(r) == {v \in Vendor : quotations[r][v] # None}

Idle == [pc |-> "idle"]

Step(w, pc) == buying[w].pc = pc

Turn(w, pc) == buying' = [buying EXCEPT ![w].pc = pc]

Leave(w) == buying' = [buying EXCEPT ![w] = Idle]

\* A column is written if the session changed it from what it had loaded.
Written(stored, loaded, new) == IF new = loaded THEN stored ELSE new

-----------------------------------------------------------------------------
\* The openings have come to StartStage by an administrator's transitions.
InitProcurement ==
  /\ InitApprovals
  /\ \E u \in {v \in User : RoleOf[v] = "ADMIN"} : InitAt(StartStage, u)
  /\ requests = [r \in QuotationRequest |-> NoRequest]
  /\ quotations = [r \in QuotationRequest |-> [v \in Vendor |-> None]]
  /\ selections = [r \in QuotationRequest |-> {}]
  /\ buying = [w \in Buyer |-> Idle]

\* QuotationRequestService.create, with or without items.
create_request(r, o, items, u) ==
  /\ ~Made(r)
  /\ o \in created
  /\ RoleOf[u] \in MANAGERS
  /\ requests' = [requests EXCEPT ![r].branch_opening_id = o,
                                  ![r].items = items]
  /\ UNCHANGED <<vars, approvalVars, quotations, selections, buying>>

add_item(r, u) ==
  /\ Made(r)
  /\ RoleOf[u] \in MANAGERS
  /\ requests' = [requests EXCEPT ![r].items = TRUE]
  /\ UNCHANGED <<vars, approvalVars, quotations, selections, buying>>

\* add_quotation finds items and no quotation of the vendor ...
begin_quotation(w, r, v, u) ==
  /\ Step(w, "idle")
  /\ requests[r].items
  /\ RoleOf[u] \in MANAGERS
  /\ quotations[r][v] = None
  /\ buying' = [buying EXCEPT ![w] =
       [pc |-> "quote", id |-> r, vendor |-> v, status |-> requests[r].status]]
  /\ UNCHANGED <<vars, approvalVars, requests, quotations, selections>>

\* ... and commits the quotation, whatever the status of the request is; the
\* unique constraint refuses a second one of the vendor.
commit_quotation(w) ==
  LET b == buying[w] IN
  /\ Step(w, "quote")
  /\ IF quotations[b.id][b.vendor] = None
       THEN /\ quotations' = [quotations EXCEPT ![b.id][b.vendor] = "SUBMITTED"]
            /\ requests' = [requests EXCEPT ![b.id].status =
                              Written(@, b.status, "SUBMITTED")]
       ELSE UNCHANGED <<quotations, requests>>
  /\ Leave(w)
  /\ UNCHANGED <<vars, approvalVars, selections>>

\* select_vendor loads the request and its quotations, that of the vendor
\* among them.
begin_select(w, r, v, u) ==
  /\ Step(w, "idle")
  /\ Made(r)
  /\ RoleOf[u] \in MANAGERS
  /\ v \in Quoted(r)
  /\ buying' = [buying EXCEPT ![w] =
       [pc |-> "select", id |-> r, vendor |-> v, user |-> u,
        status |-> requests[r].status, quotation |-> quotations[r][v],
        selected |-> requests[r].selected_vendor_id]]
  /\ UNCHANGED <<vars, approvalVars, requests, quotations, selections>>

\* Faulty variant: the quotation is accepted for the first selection only.
commit_selection_first_only(w) ==
  LET b == buying[w] IN
  /\ Step(w, "select")
  /\ request(b.id, "QUOTATION", b.user)
  /\ requests' = [requests EXCEPT
       ![b.id].selected_vendor_id =
          Written(@, b.selected, b.vendor),
       ![b.id].status = Written(@, b.status, "APPROVED")]
  /\ IF b.selected = None
       THEN quotations' = [quotations EXCEPT ![b.id][b.vendor] = "ACCEPTED"]
       ELSE UNCHANGED quotations
  /\ Turn(w, "event")
  /\ UNCHANGED <<vars, deciding, selections>>

\* The commit inside ApprovalService.request takes the selection along.
commit_selection(w) ==
  LET b == buying[w] IN
  /\ Step(w, "select")
  /\ request(b.id, "QUOTATION", b.user)
  /\ requests' = [requests EXCEPT
       ![b.id].selected_vendor_id =
          Written(@, b.selected, b.vendor),
       ![b.id].status = Written(@, b.status, "APPROVED")]
  /\ quotations' = [quotations EXCEPT
       ![b.id][b.vendor] = Written(@, b.quotation, "ACCEPTED")]
  /\ Turn(w, "event")
  /\ UNCHANGED <<vars, deciding, selections>>

\* The event follows in a commit of its own.
commit_selection_event(w) ==
  LET b == buying[w] IN
  /\ Step(w, "event")
  /\ selections' = [selections EXCEPT ![b.id] = @ \cup {b.vendor}]
  /\ Leave(w)
  /\ UNCHANGED <<vars, approvalVars, requests, quotations>>

-----------------------------------------------------------------------------
(* AccountsService.review_quotation_request.                               *)

\* The opening and the request are loaded; neither the status of the request
\* nor an earlier decision is looked at.
begin_review(w, r, decision, amount, u) ==
  /\ Step(w, "idle")
  /\ Made(r)
  /\ RoleOf[u] \in ACCOUNTS_TEAM
  /\ buying' = [buying EXCEPT ![w] =
       [pc |-> "request", id |-> r, decision |-> decision, amount |-> amount,
        user |-> u, status |-> requests[r].status, approval |-> 0,
        stage |-> current_stage[requests[r].branch_opening_id]]]
  /\ UNCHANGED <<vars, approvalVars, requests, quotations, selections>>

request_approval(w) ==
  /\ Step(w, "request")
  /\ request(buying[w].id, "ACCOUNTS", buying[w].user)
  /\ buying' = [buying EXCEPT ![w].pc = "refresh",
                              ![w].approval = Len(approvals) + 1]
  /\ UNCHANGED <<vars, deciding, requests, quotations, selections>>

\* Faulty variant: a row decided by somebody else counts as decided.
refresh_approval_trusting(w) ==
  /\ Step(w, "refresh")
  /\ Turn(w, IF approvals[buying[w].approval].decision = NoDecision
               THEN "decide" ELSE "move")
  /\ UNCHANGED <<vars, approvalVars, requests, quotations, selections>>

\* The refresh at the end of request: a row somebody has decided by now is
\* answered with a conflict.
refresh_approval(w) ==
  /\ Step(w, "refresh")
  /\ IF approvals[buying[w].approval].decision = NoDecision
       THEN Turn(w, "decide") ELSE Leave(w)
  /\ UNCHANGED <<vars, approvalVars, requests, quotations, selections>>

\* Where a decision takes the case; the other decisions leave it alone.
ReviewTarget == [SENT_BACK |-> "QUOTATION", APPROVED |-> "CC_APPROVAL"]

\* The decision is committed.  Only then is an approval without an amount
\* refused.
decide_approval(w) ==
  LET b == buying[w] IN
  /\ Step(w, "decide")
  /\ Decide(b.approval, b.decision, b.user)
  /\ IF \/ b.decision \notin DOMAIN ReviewTarget
        \/ b.decision = "APPROVED" /\ ~b.amount
       THEN Leave(w) ELSE Turn(w, "move")
  /\ UNCHANGED <<vars, deciding, requests, quotations, selections>>

\* Whether the engine takes the opening there, by the row as it was loaded.
Movable(b) ==
  /\ is_allowed(b.stage, ReviewTarget[b.decision])
  /\ can_role_advance(RoleOf[b.user], ReviewTarget[b.decision])

\* Faulty variant: the amount is committed with the decision of the engine
\* still to come.
move_or_conflict_amount_kept(w) ==
  LET b == buying[w]  o == requests[b.id].branch_opening_id IN
  /\ Step(w, "move")
  /\ IF Movable(b) THEN Advance(o, b.stage, ReviewTarget[b.decision], b.user)
                   ELSE UNCHANGED vars
  /\ IF b.decision = "APPROVED"
       THEN /\ requests' = [requests EXCEPT ![b.id].approved_amount = TRUE]
            /\ Leave(w)
       ELSE UNCHANGED requests /\ Turn(w, "reopen")
  /\ UNCHANGED <<approvalVars, quotations, selections>>

\* The engine moves the case, and an approval writes the amount in the same
\* commit; or it answers 409 or 403, and the decision stands alone.
move_or_conflict(w) ==
  LET b == buying[w]  o == requests[b.id].branch_opening_id IN
  /\ Step(w, "move")
  /\ IF Movable(b)
       THEN /\ MoveBound(o, ReviewTarget[b.decision])
            /\ Advance(o, b.stage, ReviewTarget[b.decision], b.user)
            /\ IF b.decision = "APPROVED"
                 THEN /\ requests' =
                           [requests EXCEPT ![b.id].approved_amount = TRUE]
                      /\ Leave(w)
                 ELSE UNCHANGED requests /\ Turn(w, "reopen")
       ELSE UNCHANGED <<vars, requests>> /\ Leave(w)
  /\ UNCHANGED <<approvalVars, quotations, selections>>

\* A request sent back is opened again, in a commit after the move.
commit_reopen(w) ==
  LET b == buying[w] IN
  /\ Step(w, "reopen")
  /\ requests' = [requests EXCEPT ![b.id].status =
                    Written(@, b.status, "OPEN")]
  /\ Leave(w)
  /\ UNCHANGED <<vars, approvalVars, quotations, selections>>

\* The server dies between two commits.
crash(w) ==
  /\ buying[w] # Idle
  /\ Leave(w)
  /\ UNCHANGED <<vars, approvalVars, requests, quotations, selections>>

-----------------------------------------------------------------------------
\* Openings moved by hand, through the endpoints of the engine.
MoveByHand ==
  /\ \E o \in Opening, u \in Mover :
       send_back(o, u) \/ \E target \in WorkflowStage : transition(o, target, u)
  /\ UNCHANGED <<approvalVars, requests, quotations, selections, buying>>

\* Approval rows decided through the endpoint of the approvals.
DecideDirectly ==
  /\ \/ \E s \in Session, id \in DOMAIN approvals, u \in DirectDecider,
           d \in DirectDecision : load(s, id, d, u)
     \/ \E s \in Session : decide(s) \/ abandon(s)
  /\ UNCHANGED <<vars, requests, quotations, selections, buying>>

NextProcurement ==
  \/ \E r \in QuotationRequest, u \in User :
       \/ \E o \in Opening, items \in BOOLEAN : create_request(r, o, items, u)
       \/ add_item(r, u)
  \/ \E w \in Buyer :
       \/ \E r \in QuotationRequest, u \in User :
            \/ \E v \in Vendor : begin_quotation(w, r, v, u)
            \/ \E v \in Vendor : begin_select(w, r, v, u)
            \/ \E d \in ReviewDecision, amount \in BOOLEAN :
                 (amount => d = "APPROVED") /\ begin_review(w, r, d, amount, u)
       \/ commit_quotation(w)
       \/ commit_selection(w)
       \/ commit_selection_event(w)
       \/ request_approval(w)
       \/ refresh_approval(w)
       \/ decide_approval(w)
       \/ move_or_conflict(w)
       \/ commit_reopen(w)
       \/ crash(w)
  \/ MoveByHand
  \/ DecideDirectly

SpecProcurement == InitProcurement /\ [][NextProcurement]_procurementVars

-----------------------------------------------------------------------------
(* Properties.                                                             *)

\* The rows are well formed, and so is what a worker holds.
TypeOKProcurement ==
  /\ TypeOK
  /\ TypeOKApprovals
  /\ requests \in [QuotationRequest ->
       [branch_opening_id : Opening \cup {None}, items : BOOLEAN,
        status : QuotationRequestStatus, approved_amount : BOOLEAN,
        selected_vendor_id : Vendor \cup {None}]]
  /\ quotations \in
       [QuotationRequest -> [Vendor -> QuotationStatus \cup {None}]]
  /\ selections \in [QuotationRequest -> SUBSET Vendor]
  /\ \A w \in Buyer : Step(w, "decide") =>
       approvals[buying[w].approval].approval_type = "ACCOUNTS"

ApprovalRows(r, type) ==
  {id \in DOMAIN approvals : /\ approvals[id].entity = r
                             /\ approvals[id].approval_type = type}

Accepted(r) == {v \in Vendor : quotations[r][v] = "ACCEPTED"}

\* However selections of several vendors race or die half way: the vendor
\* selected, and every vendor an event names, has an accepted quotation, each
\* acceptance asked for an approval, and an approved request names a vendor.
SelectionBacked ==
  \A r \in QuotationRequest :
    /\ requests[r].selected_vendor_id \in Accepted(r) \cup {None}
    /\ requests[r].status = "APPROVED" => requests[r].selected_vendor_id # None
    /\ Cardinality(Accepted(r)) <= Cardinality(ApprovalRows(r, "QUOTATION"))
    /\ selections[r] \subseteq Accepted(r)

\* An accounts review of request r with this decision, by a user who also
\* moved the case where the decision takes it.
ReviewMoved(r, decision) ==
  \E id \in ApprovalRows(r, "ACCOUNTS"), k \in DOMAIN decisions :
    /\ decisions[k].approval = id
    /\ decisions[k].new_value = decision
    /\ LET o == requests[r].branch_opening_id IN
         \E i \in StageEvents(o) :
           /\ audit[o][i].action = "STAGE_ADVANCED"
           /\ audit[o][i].new_value = ReviewTarget[decision]
           /\ audit[o][i].user_id = decisions[k].user_id

\* The amount and the move to CC_APPROVAL are one commit behind the decision:
\* a request has an amount only if an approval of it is on record whose
\* approver moved the case on, however many reviews conflicted or died; and
\* no two requests share such a move.
AmountMovesCase ==
  LET WithAmount(o) == {r \in QuotationRequest :
                          /\ requests[r].branch_opening_id = o
                          /\ requests[r].approved_amount}
  IN  /\ \A r \in QuotationRequest :
           requests[r].approved_amount => ReviewMoved(r, "APPROVED")
      /\ \A o \in Opening :
           Cardinality(WithAmount(o))
             <= Cardinality({i \in StageEvents(o) :
                               audit[o][i].new_value = "CC_APPROVAL"})

\* A request is open again, with quotations, only after a review sent it back
\* and its approver moved the case back to QUOTATION.
ReopenedBySendBack ==
  \A r \in QuotationRequest :
    requests[r].status = "OPEN" /\ Quoted(r) # {}
      => ReviewMoved(r, "SENT_BACK")
=============================================================================

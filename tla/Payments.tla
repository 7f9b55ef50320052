------------------------------ MODULE Payments ------------------------------
(***************************************************************************)
(* Payments of an opening: drafted, submitted, reviewed and paid.  A       *)
(* review is a chain of three commits (the approval row, its decision, the *)
(* payment); paying is one commit of the engine, which takes the payment   *)
(* along and moves the case from PAYMENT to INFRASTRUCTURE.  Each request  *)
(* decides on the payment as it first loaded it.                           *)
(*                                                                         *)
(* Composes Workflow (the openings) and Approvals (the approval rows).     *)
(* Translated from app/services/payment.py and app/api/payment.py.         *)
(***************************************************************************)
EXTENDS Workflow, Approvals

CONSTANTS
  Payment,        \* ids of the payments that may be created (the Entity of
                  \* Approvals)
  Clerk,          \* worker threads that handle payments
  DirectDecider,  \* bound: users who call the approvals endpoint
  DirectDecision  \* bound: decisions they take there

ASSUME PaymentConstants ==
  /\ Payment \subseteq Entity
  /\ "PAYMENT" \in ApprovalType
  /\ Approver = User
  /\ DirectDecider \subseteq User
  /\ DirectDecision \subseteq ApprovalDecision

VARIABLES
  payments,       \* the rows of payments
  paying          \* what each worker is doing

payVars == <<vars, approvalVars, payments, paying>>

PaymentStatus == {"DRAFT", "SUBMITTED", "APPROVED", "REJECTED", "PAID"}

\* Roles the review endpoint of app/api/payment.py admits.
PAYMENT_TEAM == {"ACCOUNTS", "SUPER_ADMIN", "ADMIN"}

NoPayment ==
  [branch_opening_id |-> None, status |-> "DRAFT", approved_by |-> None]

Made(p) == payments[p] # NoPayment

Free == [pc |-> "free"]

Doing(w, pc) == paying[w].pc = pc

Proceed(w, pc) == paying' = [paying EXCEPT ![w].pc = pc]

Finish(w) == paying' = [paying EXCEPT ![w] = Free]

-----------------------------------------------------------------------------
\* The openings have come to PAYMENT by an administrator's transitions.
InitPay ==
  /\ InitApprovals
  /\ \E u \in {v \in User : RoleOf[v] = "ADMIN"} : InitAt("PAYMENT", u)
  /\ payments = [p \in Payment |-> NoPayment]
  /\ paying = [w \in Clerk |-> Free]

\* PaymentService.create: at whatever stage the opening stands.  Amount,
\* mode, invoice and vendor, and the PAYMENT_CREATED event, are left out.
create_payment(p, o, u) ==
  /\ ~Made(p)
  /\ o \in created
  /\ RoleOf[u] \in MANAGERS
  /\ payments' = [payments EXCEPT ![p].branch_opening_id = o]
  /\ UNCHANGED <<vars, approvalVars, paying>>

\* PaymentService.submit loads the payment and checks that it is a draft ...
begin_submit(w, p, u) ==
  /\ paying[w] = Free
  /\ Made(p)
  /\ RoleOf[u] \in MANAGERS
  /\ payments[p].status = "DRAFT"
  /\ paying' = [paying EXCEPT ![w] = [pc |-> "submit", id |-> p]]
  /\ UNCHANGED <<vars, approvalVars, payments>>

\* ... and commits, without looking again.
commit_submit(w) ==
  /\ Doing(w, "submit")
  /\ payments' = [payments EXCEPT ![paying[w].id].status = "SUBMITTED"]
  /\ Finish(w)
  /\ UNCHANGED <<vars, approvalVars>>

-----------------------------------------------------------------------------
(* PaymentService.review.                                                  *)

\* Whether some approval of the payment has a decision.
Decided(p) ==
  \E id \in DOMAIN approvals :
    /\ approvals[id].entity = p
    /\ approvals[id].approval_type = "PAYMENT"
    /\ approvals[id].decision # NoDecision

\* The payment is loaded, may be reviewed and has no decision yet.
begin_review(w, p, decision, u) ==
  /\ paying[w] = Free
  /\ Made(p)
  /\ RoleOf[u] \in PAYMENT_TEAM
  /\ payments[p].status \in {"SUBMITTED", "APPROVED"}
  /\ ~Decided(p)
  /\ paying' = [paying EXCEPT ![w] =
       [pc |-> "request", id |-> p, decision |-> decision, user |-> u,
        loaded |-> payments[p], approval |-> 0]]
  /\ UNCHANGED <<vars, approvalVars, payments>>

\* ApprovalService.request commits the row.
request_approval(w) ==
  /\ Doing(w, "request")
  /\ request(paying[w].id, "PAYMENT", paying[w].user)
  /\ paying' = [paying EXCEPT ![w].pc = "refresh",
                              ![w].approval = Len(approvals) + 1]
  /\ UNCHANGED <<vars, deciding, payments>>

\* Faulty variant: a row decided by somebody else counts as decided.
refresh_approval_trusting(w) ==
  /\ Doing(w, "refresh")
  /\ Proceed(w, IF approvals[paying[w].approval].decision = NoDecision
                  THEN "decide" ELSE "verdict")
  /\ UNCHANGED <<vars, approvalVars, payments>>

\* The refresh at the end of request: if somebody has decided the row by now,
\* decide will answer with a conflict.
refresh_approval(w) ==
  /\ Doing(w, "refresh")
  /\ IF approvals[paying[w].approval].decision = NoDecision
       THEN Proceed(w, "decide") ELSE Finish(w)
  /\ UNCHANGED <<vars, approvalVars, payments>>

\* ApprovalService.decide commits the decision.
decide_approval(w) ==
  /\ Doing(w, "decide")
  /\ Decide(paying[w].approval, paying[w].decision, paying[w].user)
  /\ Proceed(w, "verdict")
  /\ UNCHANGED <<vars, deciding, payments>>

\* A column is written if the session changed it from what it had loaded.
Written(stored, loaded, new) == IF new = loaded THEN stored ELSE new

\* The commit of the payment.  A rejection leaves approved_by alone.
commit_verdict(w) ==
  /\ Doing(w, "verdict")
  /\ LET v == paying[w] IN
       payments' = [payments EXCEPT
         ![v.id].status = Written(@, v.loaded.status, v.decision),
         ![v.id].approved_by =
            IF v.decision = "APPROVED"
              THEN Written(@, v.loaded.approved_by, v.user) ELSE @]
  /\ Finish(w)
  /\ UNCHANGED <<vars, approvalVars>>

-----------------------------------------------------------------------------
(* PaymentService.mark_paid.                                               *)

\* The payment and its opening are loaded and checked, the opening by the
\* engine.  A manager whom the engine does not let move the case is refused.
begin_mark_paid(w, p, u) ==
  LET stage == current_stage[payments[p].branch_opening_id] IN
  /\ paying[w] = Free
  /\ Made(p)
  /\ RoleOf[u] \in MANAGERS
  /\ payments[p].status = "APPROVED"
  /\ is_allowed(stage, "INFRASTRUCTURE")
  /\ can_role_advance(RoleOf[u], "INFRASTRUCTURE")
  /\ MoveBound(payments[p].branch_opening_id, "INFRASTRUCTURE")
  /\ paying' = [paying EXCEPT ![w] =
       [pc |-> "pay", id |-> p, user |-> u, stage |-> stage]]
  /\ UNCHANGED <<vars, approvalVars, payments>>

\* Faulty variant: a case that has moved on meanwhile is left alone.
commit_mark_paid_unmoved(w) ==
  /\ Doing(w, "pay")
  /\ LET v == paying[w]  o == payments[v.id].branch_opening_id IN
       /\ payments' = [payments EXCEPT ![v.id].status = "PAID"]
       /\ IF current_stage[o] = v.stage
            THEN Advance(o, v.stage, "INFRASTRUCTURE", v.user)
            ELSE UNCHANGED vars
  /\ Finish(w)
  /\ UNCHANGED approvalVars

\* The commit of the engine writes the payment and the move.
commit_mark_paid(w) ==
  /\ Doing(w, "pay")
  /\ LET v == paying[w]  o == payments[v.id].branch_opening_id IN
       /\ payments' = [payments EXCEPT ![v.id].status = "PAID"]
       /\ Advance(o, v.stage, "INFRASTRUCTURE", v.user)
  /\ Finish(w)
  /\ UNCHANGED approvalVars

\* The server dies between two commits.
crash(w) ==
  /\ paying[w] # Free
  /\ Finish(w)
  /\ UNCHANGED <<vars, approvalVars, payments>>

-----------------------------------------------------------------------------
\* Openings sent back, and moved on around the payments, through the engine's
\* endpoints.
MoveByHand ==
  /\ \E o \in Opening, u \in User :
       \/ send_back(o, u)
       \/ \E target \in {"PAYMENT", "INFRASTRUCTURE"} : transition(o, target, u)
  /\ UNCHANGED <<approvalVars, payments, paying>>

\* Approval rows decided through the endpoint of the approvals.
DecideDirectly ==
  /\ \/ \E s \in Session, id \in DOMAIN approvals, u \in DirectDecider,
           d \in DirectDecision : load(s, id, d, u)
     \/ \E s \in Session : decide(s) \/ abandon(s)
  /\ UNCHANGED <<vars, payments, paying>>

NextPay ==
  \/ \E p \in Payment, o \in Opening, u \in User : create_payment(p, o, u)
  \/ \E w \in Clerk :
       \/ \E p \in Payment, u \in User :
            \/ begin_submit(w, p, u)
            \/ \E d \in {"APPROVED", "REJECTED"} : begin_review(w, p, d, u)
            \/ begin_mark_paid(w, p, u)
       \/ commit_submit(w)
       \/ request_approval(w)
       \/ refresh_approval(w)
       \/ decide_approval(w)
       \/ commit_verdict(w)
       \/ commit_mark_paid(w)
       \/ crash(w)
  \/ MoveByHand
  \/ DecideDirectly

SpecPay == InitPay /\ [][NextPay]_payVars

-----------------------------------------------------------------------------
(* Properties.                                                             *)

\* The payment rows and the workers are well formed, on top of the engine and
\* the approvals being so.
TypeOKPay ==
  /\ TypeOK
  /\ TypeOKApprovals
  /\ payments \in [Payment ->
       [branch_opening_id : Opening \cup {None}, status : PaymentStatus,
        approved_by : User \cup {None}]]
  /\ \A w \in Clerk :
       paying[w].pc \in {"free", "submit", "request", "refresh", "decide",
                         "verdict", "pay"}

\* Whether the trail has this decision on the payment, by one of these users.
DecisionOnRecord(p, decision, users) ==
  \E k \in DOMAIN decisions :
    /\ approvals[decisions[k].approval].entity = p
    /\ decisions[k].new_value = decision
    /\ decisions[k].user_id \in users

\* docs/approval-matrix.md: a payment is paid after its PAYMENT approval.
\* Whatever races or dies, also when the same row is decided through another
\* endpoint: an approved or paid payment names somebody whose approval of it
\* is on record, and a rejected one was rejected by somebody.
VerdictBackedByDecision ==
  \A p \in Payment :
    CASE payments[p].status \in {"APPROVED", "PAID"} ->
           DecisionOnRecord(p, "APPROVED", {payments[p].approved_by})
      [] payments[p].status = "REJECTED" ->
           DecisionOnRecord(p, "REJECTED", User)
      [] OTHER -> TRUE

\* Each paid payment of a case moved it out of PAYMENT: payment and move are
\* one commit, so that a case has as many moves to INFRASTRUCTURE as it has
\* paid payments, or more.
PaidMovesCase ==
  \A o \in Opening :
    Cardinality({p \in Payment : /\ payments[p].branch_opening_id = o
                                 /\ payments[p].status = "PAID"})
      <= Cardinality({i \in StageEvents(o) :
                        audit[o][i].new_value = "INFRASTRUCTURE"})

\* docs/business-workflow.md: a case has several payments, 50% in advance and
\* the balance later.  When one was paid, another that is approved can be paid.
\* Violated: the first one takes the case to INFRASTRUCTURE, and there the
\* engine refuses the move that mark_paid always makes.
BalanceCanBePaid ==
  \A p, q \in Payment :
    /\ payments[p].branch_opening_id = payments[q].branch_opening_id
    /\ payments[p].status = "PAID"
    /\ payments[q].status = "APPROVED"
    => is_allowed(current_stage[payments[q].branch_opening_id],
                  "INFRASTRUCTURE")
=============================================================================

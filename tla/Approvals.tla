------------------------------ MODULE Approvals ------------------------------
(***************************************************************************)
(* The approval records every approver in the system goes through: a row   *)
(* is requested without a decision and decided later, by anybody who knows *)
(* its id.  Deciding loads the row, checks that it has no decision yet,    *)
(* and commits; the check and the commit are two steps of a session, and   *)
(* nothing locks the row in between.                                       *)
(*                                                                         *)
(* Translated from app/services/approvals.py and app/api/approvals.py.     *)
(***************************************************************************)
EXTENDS Naturals, Sequences, FiniteSets

CONSTANTS
  Entity,          \* what an approval is about: (entity_type, entity_id)
  ApprovalType,    \* kinds of approval in use
  Approver,        \* users who request and decide
  Session,         \* database sessions of concurrent calls
  NoDecision,      \* decision is NULL
  MaxApprovals     \* bound: approval rows

VARIABLES
  approvals,       \* the Approval rows, in id order
  decisions,       \* the APPROVAL_<decision> audit events, in id order
  deciding         \* what each session has loaded in order to decide it

approvalVars == <<approvals, decisions, deciding>>

ApprovalDecision ==
  {"APPROVED", "REJECTED", "SENT_BACK", "MISMATCH", "REVISION_REQUIRED"}

\* NULL is no decision.
ASSUME ApprovalConstants == NoDecision \notin ApprovalDecision

Approval ==
  [ entity        : Entity,
    approval_type : ApprovalType,
    requested_by  : Approver,
    approver      : Approver \cup {NoDecision},
    decision      : ApprovalDecision \cup {NoDecision} ]

DecisionEvent ==
  [approval : Nat, user_id : Approver, new_value : ApprovalDecision]

Nothing == [approval |-> 0]

-----------------------------------------------------------------------------
InitApprovals ==
  /\ approvals = <<>>
  /\ decisions = <<>>
  /\ deciding = [s \in Session |-> Nothing]

\* ApprovalService.request.
request(entity, type, u) ==
  /\ Len(approvals) < MaxApprovals
  /\ approvals' = Append(approvals,
                    [entity |-> entity, approval_type |-> type,
                     requested_by |-> u, approver |-> NoDecision,
                     decision |-> NoDecision])
  /\ UNCHANGED decisions

\* The row is loaded, and has no decision: ApprovalService.get before a call
\* of the endpoint, the refresh at the end of request before a call from
\* another service.  A row with a decision is answered with a conflict.
load(s, id, decision, u) ==
  /\ deciding[s] = Nothing
  /\ approvals[id].decision = NoDecision
  /\ deciding' = [deciding EXCEPT ![s] =
                    [approval |-> id, decision |-> decision, user_id |-> u]]
  /\ UNCHANGED <<approvals, decisions>>

\* Faulty variant: the first approver of a row stays.
Decide_keeping_approver(id, decision, u) ==
  /\ approvals' = [approvals EXCEPT
                     ![id].decision = decision,
                     ![id].approver = IF @ = NoDecision THEN u ELSE @]
  /\ decisions' = Append(decisions,
                    [approval |-> id, user_id |-> u, new_value |-> decision])

\* What decide writes: the row had no decision when it was loaded, so that
\* decision and approver have changed and are both written.
Decide(id, decision, u) ==
  /\ approvals' = [approvals EXCEPT ![id].decision = decision,
                                    ![id].approver = u]
  /\ decisions' = Append(decisions,
                    [approval |-> id, user_id |-> u, new_value |-> decision])

\* ApprovalService.decide commits.
decide(s) ==
  /\ deciding[s] # Nothing
  /\ Decide(deciding[s].approval, deciding[s].decision, deciding[s].user_id)
  /\ deciding' = [deciding EXCEPT ![s] = Nothing]

\* The call dies before its commit.
abandon(s) ==
  /\ deciding[s] # Nothing
  /\ deciding' = [deciding EXCEPT ![s] = Nothing]
  /\ UNCHANGED <<approvals, decisions>>

NextApprovals ==
  \/ \E entity \in Entity, type \in ApprovalType, u \in Approver :
       request(entity, type, u) /\ UNCHANGED deciding
  \/ \E s \in Session, id \in DOMAIN approvals, d \in ApprovalDecision,
        u \in Approver : load(s, id, d, u)
  \/ \E s \in Session : decide(s) \/ abandon(s)

SpecApprovals == InitApprovals /\ [][NextApprovals]_approvalVars

-----------------------------------------------------------------------------
(* Properties.                                                             *)

\* Rows, events and sessions are well formed.
TypeOKApprovals ==
  /\ approvals \in Seq(Approval)
  /\ decisions \in Seq(DecisionEvent)
  /\ deciding \in [Session -> {Nothing} \cup
       [approval : DOMAIN approvals, decision : ApprovalDecision,
        user_id : Approver]]

\* The decision events of one approval row.
EventsFor(id) == {k \in DOMAIN decisions : decisions[k].approval = id}

\* The row and the trail agree, also when sessions race: a row is decided
\* exactly if the trail has a decision of it, and it shows decision and
\* approver of the last one.
RowShowsLastDecision ==
  \A id \in DOMAIN approvals :
    LET row == approvals[id]
    IN  IF EventsFor(id) = {}
          THEN row.decision = NoDecision /\ row.approver = NoDecision
          ELSE \E k \in EventsFor(id) :
                 /\ \A j \in EventsFor(id) : j <= k
                 /\ row.decision = decisions[k].new_value
                 /\ row.approver = decisions[k].user_id

\* docs/approval-matrix.md: approval history is never overwritten, a row is
\* decided once.  Violated by two sessions that loaded the same undecided row.
DecidedOnce == \A id \in DOMAIN approvals : Cardinality(EventsFor(id)) <= 1
=============================================================================

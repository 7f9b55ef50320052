------------------------------- MODULE Stages -------------------------------
(***************************************************************************)
(* The fixed stage order of a branch opening and the tables the workflow   *)
(* engine consults: which stage may follow which, which role may move a    *)
(* case into which stage, and which tasks entering a stage generates.      *)
(* Pure definitions, translated from app/workflow/transitions.py and       *)
(* app/workflow/tasks.py; a Python dict is a record, a list whose order    *)
(* does not matter a set.                                                  *)
(***************************************************************************)
EXTENDS Naturals, Sequences

SEQUENCE ==
  << "REQUIREMENT", "PROPERTY_SEARCH", "PROPERTY_APPROVAL",
     "SECURITY_DEPOSIT", "LOA", "AGREEMENT", "QUOTATION", "ACCOUNTS",
     "CC_APPROVAL", "MD_APPROVAL", "PAYMENT", "INFRASTRUCTURE",
     "OPERATIONAL_READINESS", "OPENING", "COMPLETED" >>

WorkflowStage == {SEQUENCE[i] : i \in 1..15}

\* Positions count from 1 here and from 0 in the code.
SEQUENCE_INDEX ==
  [stage \in WorkflowStage |-> CHOOSE i \in 1..15 : SEQUENCE[i] = stage]

TRANSITIONS ==
  [ REQUIREMENT           |-> {"PROPERTY_SEARCH"},
    PROPERTY_SEARCH       |-> {"PROPERTY_APPROVAL"},
    PROPERTY_APPROVAL     |-> {"SECURITY_DEPOSIT"},
    SECURITY_DEPOSIT      |-> {"LOA"},
    LOA                   |-> {"AGREEMENT"},
    AGREEMENT             |-> {"QUOTATION"},
    QUOTATION             |-> {"ACCOUNTS"},
    ACCOUNTS              |-> {"CC_APPROVAL", "QUOTATION"},
    CC_APPROVAL           |-> {"MD_APPROVAL"},
    MD_APPROVAL           |-> {"PAYMENT"},
    PAYMENT               |-> {"INFRASTRUCTURE"},
    INFRASTRUCTURE        |-> {"OPERATIONAL_READINESS"},
    OPERATIONAL_READINESS |-> {"OPENING"},
    OPENING               |-> {"COMPLETED"},
    COMPLETED             |-> {} ]

\* Roles absent from this table may move no case forward.
ROLL_TRANSITIONS ==
  [ ADMIN          |-> {SEQUENCE[i] : i \in 2..15},
    SUPER_ADMIN    |-> {SEQUENCE[i] : i \in 2..15},
    ACCOUNTS       |-> {"CC_APPROVAL", "QUOTATION"},
    CC             |-> {"MD_APPROVAL"},
    MD             |-> {"PAYMENT"},
    REGIONAL_ADMIN |-> {"PROPERTY_APPROVAL", "SECURITY_DEPOSIT", "LOA",
                        "AGREEMENT", "QUOTATION"} ]

STAGE_APPROVER ==
  [ ACCOUNTS |-> "ACCOUNTS", CC_APPROVAL |-> "CC", MD_APPROVAL |-> "MD" ]

\* Faulty variant: any stage may follow any other.
is_allowed_anything(current, target) == target \in WorkflowStage

is_allowed(current, target) == target \in TRANSITIONS[current]

can_role_advance(role, target) ==
  /\ role \in DOMAIN ROLL_TRANSITIONS
  /\ target \in ROLL_TRANSITIONS[role]

\* previous_stage returns None for the first stage: the guard comes first.
has_previous(stage)   == SEQUENCE_INDEX[stage] # 1
previous_stage(stage) == SEQUENCE[SEQUENCE_INDEX[stage] - 1]

\* The role test at the head of send_back.
can_role_send_back(role, current) ==
  \/ can_role_advance(role, current)
  \/ role \in {"ADMIN", "SUPER_ADMIN"}
  \/ current \in DOMAIN STAGE_APPROVER /\ role = STAGE_APPROVER[current]

TASK_TEMPLATES ==
  [ REQUIREMENT           |-> <<"CASE_REQUIREMENT_CONFIRMATION">>,
    PROPERTY_SEARCH       |-> <<"PROPERTY_SEARCH">>,
    PROPERTY_APPROVAL     |-> <<"PROPERTY_APPROVAL">>,
    SECURITY_DEPOSIT      |-> <<"SD_PAYMENT">>,
    LOA                   |-> <<"LOA_PREPARATION">>,
    AGREEMENT             |-> <<"AGREEMENT_EXECUTION">>,
    QUOTATION             |-> <<"QUOTATION_COLLECTION">>,
    ACCOUNTS              |-> <<"ACCOUNTS_REVIEW">>,
    CC_APPROVAL           |-> <<"CC_APPROVAL">>,
    MD_APPROVAL           |-> <<"MD_APPROVAL">>,
    PAYMENT               |-> <<"PO_PREPARATION", "PAYMENT_EXECUTION">>,
    INFRASTRUCTURE        |-> <<"INFRASTRUCTURE_WORK">>,
    OPERATIONAL_READINESS |-> <<"READINESS_CHECK">>,
    OPENING               |-> <<"OPENING_EXECUTION">>,
    COMPLETED             |-> <<>> ]

RoleCode ==
  {"SUPER_ADMIN", "ADMIN", "BUSINESS_TEAM", "REGIONAL_ADMIN", "SD",
   "ACCOUNTS", "CC", "MD"}
=============================================================================

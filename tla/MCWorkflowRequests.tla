------------------------- MODULE MCWorkflowRequests -------------------------
(* Instance of WorkflowRequests for TLC: one case that every request is     *)
(* about, and workers that are interchangeable.                             *)
EXTENDS WorkflowRequests

CONSTANTS admin, accounts, clerk, cc, md

MCRoleOf ==
  [u \in User |-> CASE u = admin    -> "ADMIN"
                    [] u = accounts -> "ACCOUNTS"
                    [] u = cc       -> "CC"
                    [] u = md       -> "MD"
                    [] OTHER        -> "BUSINESS_TEAM"]

VARIABLE solo    \* one worker on a new case, or two on their way to the
                 \* committees

InitMC ==
  /\ session = [w \in Worker |-> Idle]
  /\ solo \in BOOLEAN
  /\ IF solo THEN Init ELSE InitAt("ACCOUNTS", admin)

Busy == {w \in Worker : session[w] # Idle}

\* Bounds: alone, an administrator makes four moves, one of them back, and
\* assigns the case to nobody else; racing workers only move the case.
Bounds ==
  IF solo
    THEN /\ \A v, w \in Busy : v = w
         /\ \A w \in Busy : /\ session[w].user = admin
                            /\ session[w].request.arg # accounts
         /\ \A o \in Opening : /\ Cardinality(StageEvents(o)) <= 4
                               /\ Cardinality(BackMoves(o)) <= 1
    ELSE \A w \in Busy : session[w].request.op \in {"transition", "send_back"}

NextMC ==
  /\ UNCHANGED solo
  /\ (solo /\ OneStep) \/ Sessions
  /\ Bounds'

SpecMC == InitMC /\ [][NextMC]_<<reqVars, solo>>

Workers == Permutations(Worker)

\* With a single worker the sessions are invisible: every step is one of the
\* serial engine or changes no row, so that what the serial engine preserves
\* is preserved.
SerialEngine == [][solo => [Next]_vars]_<<reqVars, solo>>
=============================================================================

----------------------------- MODULE MCWorkflow -----------------------------
(* Instance of Workflow for TLC: one case, a user for each kind of role     *)
(* that may act on it.                                                      *)
EXTENDS Workflow

CONSTANTS admin, accounts, clerk, cc, md

MCRoleOf ==
  [u \in User |-> CASE u = admin    -> "ADMIN"
                    [] u = accounts -> "ACCOUNTS"
                    [] u = cc       -> "CC"
                    [] u = md       -> "MD"
                    [] OTHER        -> "BUSINESS_TEAM"]

VARIABLE late    \* cases that are about to be completed, or new ones

InitMC ==
  /\ late \in BOOLEAN
  /\ IF late THEN InitAt("OPENING", admin) ELSE Init

\* Bounds on what happens late: two moves, one of them back, and an
\* assignment to the clerk.
LateBounds ==
  late => \A o \in Opening :
    /\ Cardinality(StageEvents(o)) <= 15
    /\ Cardinality(BackMoves(o)) <= 1
    /\ assigned_to[o] \in {None, clerk}

\* Administration and tasks are studied at the end of a case, where what they
\* change and what a completing move changes meet.
NextMC ==
  /\ UNCHANGED late
  /\ \E o \in Opening :
       \/ ~late /\ \E u \in User \ {clerk} : Moves(o, u)
       \/ late /\ \E u \in {admin, clerk} : Moves(o, u) \/ DeskWork(o, u)
  /\ LateBounds'

SpecMC == InitMC /\ [][NextMC]_<<vars, late>>
=============================================================================

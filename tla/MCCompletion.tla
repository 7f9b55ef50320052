---------------------------- MODULE MCCompletion ----------------------------
(* Instance of Completion for TLC: an administrator, and a regional         *)
(* administrator whom the endpoints admit and the engine refuses.  Rows that *)
(* move the case and records of a case whose status is set by hand are       *)
(* studied in behaviours of their own.                                      *)
EXTENDS Completion

CONSTANTS admin, regional

MCRoleOf == [u \in User |-> IF u = admin THEN "ADMIN" ELSE "REGIONAL_ADMIN"]

VARIABLE statuses   \* whether statuses are set by hand, and no row is created

InitMC == InitCompletion /\ statuses \in BOOLEAN

NextMC ==
  /\ UNCHANGED statuses
  /\ \/ \E w \in Manager : Handles(w)
     \/ MoveByHand
     \/ statuses /\ SetStatusByHand
  /\ statuses => rows' = rows

SpecMC == InitMC /\ [][NextMC]_<<completionVars, statuses>>

Symmetry == Permutations(Manager) \cup Permutations(Fitout)
=============================================================================

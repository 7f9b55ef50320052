---------------------------- MODULE MCProcurement ----------------------------
(* Instance of Procurement for TLC: an administrator and an accountant.      *)
(* Either two workers race, or one worker races with the approvals endpoint. *)
EXTENDS Procurement

CONSTANTS admin, accounts

VARIABLE two_workers

MCRoleOf == [u \in User |-> IF u = admin THEN "ADMIN" ELSE "ACCOUNTS"]

InitMC == InitProcurement /\ two_workers \in BOOLEAN

NextMC == NextProcurement /\ UNCHANGED two_workers

MCSpec == InitMC /\ [][NextMC]_<<procurementVars, two_workers>>

\* Bound: who is at work at the same time.
AtWork ==
  IF two_workers THEN \A s \in Session : deciding[s] = Nothing
                 ELSE Cardinality({w \in Buyer : buying[w] # Idle}) <= 1

Symmetry == Permutations(Buyer) \cup Permutations(Vendor)
=============================================================================

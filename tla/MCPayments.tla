----------------------------- MODULE MCPayments -----------------------------
(* Instance of Payments for TLC: an administrator and an accountant.        *)
EXTENDS Payments

CONSTANTS admin, accounts

MCRoleOf == [u \in User |-> IF u = admin THEN "ADMIN" ELSE "ACCOUNTS"]

Symmetry == Permutations(Clerk) \cup Permutations(Payment)
=============================================================================

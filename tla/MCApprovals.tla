----------------------------- MODULE MCApprovals -----------------------------
(* Instance of Approvals for TLC.                                           *)
EXTENDS Approvals, TLC

Symmetry == Permutations(Session) \cup Permutations(Approver)
=============================================================================

SPECIFICATION SpecApprovals
CONSTANTS
  Entity = {e1}
  ApprovalType = {"CC"}
  Approver = {u1, u2}
  Session = {s1, s2}
  NoDecision = NoDecision
  MaxApprovals = 2
INVARIANTS
  DecidedOnce
CHECK_DEADLOCK FALSE

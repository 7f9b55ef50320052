SPECIFICATION SpecPay
CONSTANTS
  admin = admin
  accounts = accounts
  None = None
  NoDecision = NoDecision
  Opening = {o1}
  User = {admin, accounts}
  Approver = {admin, accounts}
  RoleOf <- MCRoleOf
  Payment = {p1, p2}
  Entity = {p1, p2}
  ApprovalType = {"PAYMENT"}
  Clerk = {w1, w2}
  Session = {s1}
  DirectDecider = {accounts}
  DirectDecision = {"REJECTED"}
  MaxBackMoves = 1
  MaxStageMoves = 13
  MaxStatusChanges = 0
  MaxAssignments = 0
  MaxTouchedTasks = 0
  MaxTaskCompletions = 0
  MaxApprovals = 2
SYMMETRY Symmetry
INVARIANTS
  RowShowsLastDecision
  VerdictBackedByDecision
  PaidMovesCase
CHECK_DEADLOCK FALSE

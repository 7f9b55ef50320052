SPECIFICATION SpecPay
CONSTANTS
  admin = admin
  accounts = accounts
  None = None
  NoDecision = NoDecision
  Opening = {o1}
  User = {admin, accounts}
  Approver = {admin, accounts}
  RoleOf <- MCRoleOf
  Payment = {p1, p2}
  Entity = {p1, p2}
  ApprovalType = {"PAYMENT"}
  Clerk = {w1}
  Session = {}
  DirectDecider = {}
  DirectDecision = {"REJECTED"}
  MaxBackMoves = 1
  MaxStageMoves = 13
  MaxStatusChanges = 0
  MaxAssignments = 0
  MaxTouchedTasks = 0
  MaxTaskCompletions = 0
  MaxApprovals = 2
INVARIANTS
  BalanceCanBePaid
CHECK_DEADLOCK FALSE

SPECIFICATION MCSpec
CONSTANTS
  admin = admin
  accounts = accounts
  None = None
  NoDecision = NoDecision
  Opening = {o1}
  User = {admin, accounts}
  Approver = {admin, accounts}
  RoleOf <- MCRoleOf
  QuotationRequest = {r1}
  Entity = {r1}
  ApprovalType = {"QUOTATION", "ACCOUNTS"}
  Vendor = {v1, v2}
  Buyer = {w1, w2}
  StartStage = "ACCOUNTS"
  ReviewDecision = {"APPROVED", "SENT_BACK"}
  Mover = {accounts}
  Session = {s1}
  DirectDecider = {accounts}
  DirectDecision = {"SENT_BACK"}
  MaxBackMoves = 1
  MaxStageMoves = 9
  MaxStatusChanges = 0
  MaxAssignments = 0
  MaxTouchedTasks = 0
  MaxTaskCompletions = 0
  MaxApprovals = 2
CONSTRAINT AtWork
SYMMETRY Symmetry
INVARIANTS
  SelectionBacked
  AmountMovesCase
  ReopenedBySendBack
CHECK_DEADLOCK FALSE

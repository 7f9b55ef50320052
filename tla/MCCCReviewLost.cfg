SPECIFICATION SpecMC
CONSTANTS
  admin = admin
  cc = cc
  md = md
  first = o1
  None = None
  NoDecision = NoDecision
  Opening = {o1, o2}
  User = {admin, cc, md}
  Approver = {admin, cc, md}
  RoleOf <- MCRoleOf
  CCRequest = {r1}
  Entity = {r1}
  ApprovalType = {"CC", "MD"}
  Reviewer = {w1, w2}
  Session = {s1}
  DirectDecider = {cc}
  DirectDecision = {"REJECTED"}
  StartStage = "CC_APPROVAL"
  MaxBackMoves = 1
  MaxStageMoves = 9
  MaxStatusChanges = 0
  MaxAssignments = 0
  MaxTouchedTasks = 0
  MaxTaskCompletions = 0
  MaxApprovals = 3
INVARIANTS
  DecisionReachesRequest
CHECK_DEADLOCK FALSE

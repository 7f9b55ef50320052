SPECIFICATION SpecMC
CONSTANTS
  admin = admin
  accounts = accounts
  clerk = clerk
  cc = cc
  md = md
  None = None
  Opening = {o1}
  User = {admin, accounts}
  RoleOf <- MCRoleOf
  MaxBackMoves = 2
  MaxStageMoves = 12
  MaxStatusChanges = 1
  MaxAssignments = 1
  MaxTouchedTasks = 1
  MaxTaskCompletions = 1
  Worker = {w1, w2}
SYMMETRY Workers
INVARIANTS
  TrailEndsAtCurrentStage
PROPERTIES
  SerialEngine
CHECK_DEADLOCK FALSE

SPECIFICATION SpecMC
CONSTANTS
  admin = admin
  accounts = accounts
  clerk = clerk
  cc = cc
  md = md
  None = None
  Opening = {o1}
  User = {admin}
  RoleOf <- MCRoleOf
  MaxBackMoves = 1
  MaxStageMoves = 12
  MaxStatusChanges = 0
  MaxAssignments = 0
  MaxTouchedTasks = 0
  MaxTaskCompletions = 0
  Worker = {w1, w2}
INVARIANTS
  OnlyDefinedMoves
CHECK_DEADLOCK FALSE

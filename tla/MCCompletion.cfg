SPECIFICATION SpecMC
CONSTANTS
  admin = admin
  regional = regional
  None = None
  Opening = {o1}
  User = {admin, regional}
  RoleOf <- MCRoleOf
  Fitout = {f1, f2}
  ReadinessItem = {i1}
  UpdateStatus = {"IN_PROGRESS", "COMPLETED", "PENDING", "DONE", "NOT_APPLICABLE"}
  Manager = {w1, w2}
  StartStage = "INFRASTRUCTURE"
  MaxBackMoves = 1
  MaxStageMoves = 14
  MaxStatusChanges = 2
  MaxAssignments = 0
  MaxTouchedTasks = 0
  MaxTaskCompletions = 0
SYMMETRY Symmetry
INVARIANTS
  LastRowMovesCase
  RecordCompletesCase
PROPERTIES
  MovesOnlyWhenClosed
CHECK_DEADLOCK FALSE

SPECIFICATION SpecMC
CONSTANTS
  admin = admin
  accounts = accounts
  clerk = clerk
  cc = cc
  md = md
  None = None
  Opening = {o1}
  User = {admin, accounts, cc, md, clerk}
  RoleOf <- MCRoleOf
  MaxBackMoves = 2
  MaxStageMoves = 20
  MaxStatusChanges = 1
  MaxAssignments = 1
  MaxTouchedTasks = 1
  MaxTaskCompletions = 2
INVARIANTS
  TypeOK
  EarlierStagesCompleted
  OnlyCurrentInProgress
  FinishedCaseClosed
  AuditReplaysCase
  TasksMatchEntries
  AuditExplainsStatus
  CompletedTasksAudited
  CommitteeBeforePayment
CHECK_DEADLOCK FALSE

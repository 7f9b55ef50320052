------------------------------ MODULE Workflow ------------------------------
(***************************************************************************)
(* The workflow engine of a branch opening: the row of the opening, its    *)
(* fifteen stage instances, its tasks and its audit trail, and the         *)
(* operations that change them.  Every operation ends in exactly one       *)
(* commit, and here it is one step: this is what the engine does when      *)
(* requests do not overlap.  WorkflowRequests splits the same operations   *)
(* into the reads and the commit of concurrent database sessions.          *)
(*                                                                         *)
(* Translated from app/services/workflow.py and app/services/openings.py.  *)
(***************************************************************************)
EXTENDS Stages, FiniteSets, SequencesExt

CONSTANTS
  Opening,            \* ids of the cases that may be created
  User,               \* the users of the API
  RoleOf,             \* the role of each user, "" for a user without one
  None,               \* a NULL column
  MaxBackMoves,       \* bound: stage moves to an earlier stage, per case
  MaxStageMoves,      \* bound: stage moves of any kind, per case
  MaxStatusChanges,   \* bound: explicit changes of case_status, per case
  MaxAssignments,     \* bound: assignments of the case, per case
  MaxTouchedTasks,    \* bound: tasks ever started or completed, per case
  MaxTaskCompletions  \* bound: complete_task calls, per case

ASSUME WorkflowConstants ==
  /\ RoleOf \in [User -> RoleCode \cup {""}]
  /\ None \notin User \cup WorkflowStage

VARIABLES
  created,         \* the openings that exist
  current_stage,   \* BranchOpening.current_stage
  case_status,     \* BranchOpening.case_status
  completed_at,    \* whether BranchOpening.completed_at is set
  assigned_to,     \* BranchOpening.assigned_to
  instance,        \* WorkflowInstance.status, by opening and stage
  tasks,           \* the WorkflowTask rows of each opening, in id order
  audit            \* the AuditEvent rows of each opening, in id order

vars == <<created, current_stage, case_status, completed_at, assigned_to,
          instance, tasks, audit>>

CaseStatus == {"DRAFT", "ACTIVE", "ON_HOLD", "COMPLETED", "CANCELLED"}

WorkflowStageStatus ==
  {"PENDING", "IN_PROGRESS", "SUBMITTED", "APPROVED", "REJECTED",
   "SENT_BACK", "COMPLETED"}

TaskStatus == {"PENDING", "IN_PROGRESS", "COMPLETED", "CANCELLED"}

TaskType ==
  UNION {{TASK_TEMPLATES[s][i] : i \in DOMAIN TASK_TEMPLATES[s]} :
           s \in WorkflowStage}

WorkflowTask ==
  [ stage        : WorkflowStage,
    task_type    : TaskType,
    assigned_to  : User,
    status       : TaskStatus,
    completed_by : User \cup {None} ]

AuditAction ==
  {"CASE_CREATED", "STAGE_ADVANCED", "STAGE_SENT_BACK",
   "CASE_STATUS_CHANGED", "CASE_ASSIGNED", "TASK_COMPLETED"}

AuditEvent ==
  [ action    : AuditAction,
    stage     : WorkflowStage,
    user_id   : User,
    old_value : WorkflowStage \cup CaseStatus \cup User \cup {None},
    new_value : WorkflowStage \cup CaseStatus \cup TaskType \cup User
                  \cup {None} ]

\* Roles the endpoints of app/api/openings.py admit.
CREATORS  == {"SUPER_ADMIN", "ADMIN", "BUSINESS_TEAM", "REGIONAL_ADMIN"}
APPROVERS == {"SUPER_ADMIN", "ADMIN"}

\* Roles the endpoints of the later stages admit for most changes.
MANAGERS == {"SUPER_ADMIN", "ADMIN", "REGIONAL_ADMIN"}

-----------------------------------------------------------------------------
(* What an operation writes.                                               *)

Event(action, stage, u, old, new) ==
  [action |-> action, stage |-> stage, user_id |-> u,
   old_value |-> old, new_value |-> new]

Record(o, event) == audit' = [audit EXCEPT ![o] = Append(@, event)]

\* Faulty variant: the tasks are left unassigned.
NewTasks_unassigned(stage, u) ==
  [i \in 1..Len(TASK_TEMPLATES[stage]) |->
     [stage |-> stage, task_type |-> TASK_TEMPLATES[stage][i],
      assigned_to |-> None, status |-> "PENDING", completed_by |-> None]]

\* _generate_tasks: one task per template, assigned to whoever acts.
NewTasks(stage, u) ==
  [i \in 1..Len(TASK_TEMPLATES[stage]) |->
     [stage |-> stage, task_type |-> TASK_TEMPLATES[stage][i],
      assigned_to |-> u, status |-> "PENDING", completed_by |-> None]]

\* start_stage: only a stage never entered before becomes IN_PROGRESS.
start_stage(stages, stage) ==
  IF stages[stage] = "PENDING"
    THEN [stages EXCEPT ![stage] = "IN_PROGRESS"]
    ELSE stages

\* _close_stage: whatever the status was.
close_stage(stages, stage, final) == [stages EXCEPT ![stage] = final]

\* Faulty variants: the stage left behind is not closed; the last stage is
\* started and not closed.
stages_advanced_unclosed(stages, current, target) ==
  start_stage(stages, target)

stages_advanced_unfinished(stages, current, target) ==
  start_stage(close_stage(stages, current, "COMPLETED"), target)

\* What transition and send_back make of the stages they loaded.
stages_advanced(stages, current, target) ==
  LET started == start_stage(close_stage(stages, current, "COMPLETED"), target)
  IN  IF target = "COMPLETED"
        THEN close_stage(started, target, "COMPLETED") ELSE started

\* Faulty variant: the stage sent back stays open.
stages_sent_back_open(stages, current, previous) ==
  start_stage(stages, previous)

stages_sent_back(stages, current, previous) ==
  start_stage(close_stage(stages, current, "SENT_BACK"), previous)

\* Stage events of the trail, and those that moved the case back.
StageEvents(o) ==
  {i \in DOMAIN audit[o] :
     audit[o][i].action \in {"STAGE_ADVANCED", "STAGE_SENT_BACK"}}

BackMoves(o) ==
  {i \in StageEvents(o) : SEQUENCE_INDEX[audit[o][i].new_value]
                            < SEQUENCE_INDEX[audit[o][i].old_value]}

\* The bounds on stage moves.
MoveBound(o, target) ==
  /\ Cardinality(StageEvents(o)) < MaxStageMoves
  /\ SEQUENCE_INDEX[target] < SEQUENCE_INDEX[current_stage[o]]
       => Cardinality(BackMoves(o)) < MaxBackMoves

EventsOf(o, action) == {i \in DOMAIN audit[o] : audit[o][i].action = action}

-----------------------------------------------------------------------------
Init ==
  /\ created = {}
  /\ current_stage = [o \in Opening |-> "REQUIREMENT"]
  /\ case_status = [o \in Opening |-> "DRAFT"]
  /\ completed_at = [o \in Opening |-> FALSE]
  /\ assigned_to = [o \in Opening |-> None]
  /\ instance = [o \in Opening |-> [s \in WorkflowStage |-> "PENDING"]]
  /\ tasks = [o \in Opening |-> <<>>]
  /\ audit = [o \in Opening |-> <<>>]

\* Where every case stands after user u has created it and taken it straight
\* to a stage, stage by stage: a reachable state, for instances that study the
\* engine from there on.
Journey(stage, u) ==
  [i \in 1..(SEQUENCE_INDEX[stage] - 1) |->
     Event("STAGE_ADVANCED", SEQUENCE[i], u, SEQUENCE[i], SEQUENCE[i + 1])]

InitAt(stage, u) ==
  /\ created = Opening
  /\ current_stage = [o \in Opening |-> stage]
  /\ case_status = [o \in Opening |-> "ACTIVE"]
  /\ completed_at = [o \in Opening |-> FALSE]
  /\ assigned_to = [o \in Opening |-> None]
  /\ instance = [o \in Opening |-> [s \in WorkflowStage |->
       CASE SEQUENCE_INDEX[s] < SEQUENCE_INDEX[stage] -> "COMPLETED"
         [] s = stage -> "IN_PROGRESS"
         [] OTHER -> "PENDING"]]
  /\ tasks = [o \in Opening |->
       FlattenSeq([i \in 1..(SEQUENCE_INDEX[stage] - 1) |->
                     NewTasks(SEQUENCE[i + 1], u)])]
  /\ audit = [o \in Opening |->
       <<Event("CASE_CREATED", "REQUIREMENT", u, None, None)>>
         \o Journey(stage, u)]

\* OpeningService.create with _create_stage_instances.  The number the case
\* gets, and the retries of its allocation, are left out.
create(o, u) ==
  /\ o \notin created
  /\ RoleOf[u] \in CREATORS
  /\ created' = created \cup {o}
  /\ current_stage' = [current_stage EXCEPT ![o] = "REQUIREMENT"]
  /\ case_status' = [case_status EXCEPT ![o] = "ACTIVE"]
  /\ instance' = [instance EXCEPT ![o] =
                    [s \in WorkflowStage |->
                       IF s = SEQUENCE[1] THEN "IN_PROGRESS" ELSE "PENDING"]]
  /\ Record(o, Event("CASE_CREATED", "REQUIREMENT", u, None, None))
  /\ UNCHANGED <<completed_at, assigned_to, tasks>>

\* What transition writes for a case it found on stage current.
Advance(o, current, target, u) ==
  /\ instance' = [instance EXCEPT ![o] = stages_advanced(@, current, target)]
  /\ current_stage' = [current_stage EXCEPT ![o] = target]
  /\ tasks' = [tasks EXCEPT ![o] = @ \o NewTasks(target, u)]
  /\ IF target = "COMPLETED"
       THEN /\ completed_at' = [completed_at EXCEPT ![o] = TRUE]
            /\ case_status' = [case_status EXCEPT ![o] = "COMPLETED"]
       ELSE UNCHANGED <<completed_at, case_status>>
  /\ Record(o, Event("STAGE_ADVANCED", current, u, current, target))
  /\ UNCHANGED <<created, assigned_to>>

\* Faulty variant: the route is not checked.
transition_unchecked(o, target, u) ==
  /\ o \in created
  /\ can_role_advance(RoleOf[u], target)
  /\ MoveBound(o, target)
  /\ Advance(o, current_stage[o], target, u)

\* WorkflowService.transition.  Neither case_status nor the state of the
\* current stage's tasks is consulted.
transition(o, target, u) ==
  /\ o \in created
  /\ is_allowed(current_stage[o], target)
  /\ can_role_advance(RoleOf[u], target)
  /\ MoveBound(o, target)
  /\ Advance(o, current_stage[o], target, u)

\* Faulty variant: a stage entered again gets no tasks.
SendBack_without_tasks(o, current, u) ==
  LET previous == previous_stage(current)
  IN  /\ instance' = [instance EXCEPT ![o] =
                         stages_sent_back(@, current, previous)]
      /\ current_stage' = [current_stage EXCEPT ![o] = previous]
      /\ Record(o, Event("STAGE_SENT_BACK", current, u, current, previous))
      /\ UNCHANGED <<created, case_status, completed_at, assigned_to, tasks>>

\* What send_back writes for a case it found on stage current.
SendBack(o, current, u) ==
  LET previous == previous_stage(current)
  IN  /\ instance' = [instance EXCEPT ![o] =
                         stages_sent_back(@, current, previous)]
      /\ current_stage' = [current_stage EXCEPT ![o] = previous]
      /\ tasks' = [tasks EXCEPT ![o] = @ \o NewTasks(previous, u)]
      /\ Record(o, Event("STAGE_SENT_BACK", current, u, current, previous))
      /\ UNCHANGED <<created, case_status, completed_at, assigned_to>>

\* WorkflowService.send_back: to the stage before the current one, from any
\* stage but the first, the last one included.
send_back(o, u) ==
  /\ o \in created
  /\ has_previous(current_stage[o])
  /\ can_role_send_back(RoleOf[u], current_stage[o])
  /\ MoveBound(o, previous_stage(current_stage[o]))
  /\ SendBack(o, current_stage[o], u)

\* Faulty variant: the old status is read after it was overwritten.
set_status_recorded_late(o, status, u) ==
  /\ o \in created
  /\ RoleOf[u] \in APPROVERS
  /\ Cardinality(EventsOf(o, "CASE_STATUS_CHANGED")) < MaxStatusChanges
  /\ case_status' = [case_status EXCEPT ![o] = status]
  /\ completed_at' = [completed_at EXCEPT ![o] = @ \/ status = "COMPLETED"]
  /\ Record(o, Event("CASE_STATUS_CHANGED", current_stage[o], u,
                     status, status))
  /\ UNCHANGED <<created, current_stage, assigned_to, instance, tasks>>

\* OpeningService.set_status: any status from any status.
set_status(o, status, u) ==
  /\ o \in created
  /\ RoleOf[u] \in APPROVERS
  /\ Cardinality(EventsOf(o, "CASE_STATUS_CHANGED")) < MaxStatusChanges
  /\ case_status' = [case_status EXCEPT ![o] = status]
  /\ completed_at' = [completed_at EXCEPT ![o] = @ \/ status = "COMPLETED"]
  /\ Record(o, Event("CASE_STATUS_CHANGED", current_stage[o], u,
                     case_status[o], status))
  /\ UNCHANGED <<created, current_stage, assigned_to, instance, tasks>>

\* OpeningService.assign.
assign(o, assignee, u) ==
  /\ o \in created
  /\ RoleOf[u] \in APPROVERS
  /\ Cardinality(EventsOf(o, "CASE_ASSIGNED")) < MaxAssignments
  /\ assigned_to' = [assigned_to EXCEPT ![o] = assignee]
  /\ Record(o, Event("CASE_ASSIGNED", current_stage[o], u,
                     assigned_to[o], assignee))
  /\ UNCHANGED <<created, current_stage, case_status, completed_at, instance,
                 tasks>>

\* The bound on tasks: a task already touched may be touched again.
TouchBound(o, i) ==
  \/ tasks[o][i].status # "PENDING"
  \/ Cardinality({j \in DOMAIN tasks[o] : tasks[o][j].status # "PENDING"})
       < MaxTouchedTasks

\* start_task and complete_task look at the assignee and at nothing else.
start_task(o, i, u) ==
  /\ i \in DOMAIN tasks[o]
  /\ tasks[o][i].assigned_to = u
  /\ TouchBound(o, i)
  /\ tasks' = [tasks EXCEPT ![o][i].status = "IN_PROGRESS"]
  /\ UNCHANGED <<created, current_stage, case_status, completed_at,
                 assigned_to, instance, audit>>

\* Faulty variant of complete_task: the assignee is not asked.
complete_task_by_anybody(o, i, u) ==
  /\ i \in DOMAIN tasks[o]
  /\ TouchBound(o, i)
  /\ Cardinality(EventsOf(o, "TASK_COMPLETED")) < MaxTaskCompletions
  /\ tasks' = [tasks EXCEPT ![o][i].status = "COMPLETED",
                            ![o][i].completed_by = u]
  /\ Record(o, Event("TASK_COMPLETED", tasks[o][i].stage, u, None,
                     tasks[o][i].task_type))
  /\ UNCHANGED <<created, current_stage, case_status, completed_at,
                 assigned_to, instance>>

complete_task(o, i, u) ==
  /\ i \in DOMAIN tasks[o]
  /\ tasks[o][i].assigned_to = u
  /\ TouchBound(o, i)
  /\ Cardinality(EventsOf(o, "TASK_COMPLETED")) < MaxTaskCompletions
  /\ tasks' = [tasks EXCEPT ![o][i].status = "COMPLETED",
                            ![o][i].completed_by = u]
  /\ Record(o, Event("TASK_COMPLETED", tasks[o][i].stage, u, None,
                     tasks[o][i].task_type))
  /\ UNCHANGED <<created, current_stage, case_status, completed_at,
                 assigned_to, instance>>

\* A case is opened and moves through the stages ...
Moves(o, u) ==
  \/ create(o, u)
  \/ \E target \in WorkflowStage : transition(o, target, u)
  \/ send_back(o, u)

\* ... and is administered, and its tasks are worked on.
DeskWork(o, u) ==
  \/ \E status \in CaseStatus : set_status(o, status, u)
  \/ \E assignee \in User : assign(o, assignee, u)
  \/ \E i \in DOMAIN tasks[o] : start_task(o, i, u)
  \/ \E i \in DOMAIN tasks[o] : complete_task(o, i, u)

Next == \E o \in Opening, u \in User : Moves(o, u) \/ DeskWork(o, u)

Spec == Init /\ [][Next]_vars

-----------------------------------------------------------------------------
(* Properties.                                                             *)

\* Every column holds a value its model class declares.
TypeOK ==
  /\ created \subseteq Opening
  /\ current_stage \in [Opening -> WorkflowStage]
  /\ case_status \in [Opening -> CaseStatus]
  /\ completed_at \in [Opening -> BOOLEAN]
  /\ assigned_to \in [Opening -> User \cup {None}]
  /\ instance \in [Opening -> [WorkflowStage -> WorkflowStageStatus]]
  /\ tasks \in [Opening -> Seq(WorkflowTask)]
  /\ audit \in [Opening -> Seq(AuditEvent)]

\* Whatever detours a case took (send-backs, ACCOUNTS back to QUOTATION, a
\* finished case sent back), every stage before its current one is COMPLETED:
\* no route through transition and send_back skips a stage.
EarlierStagesCompleted ==
  \A o \in created : \A s \in WorkflowStage :
    SEQUENCE_INDEX[s] < SEQUENCE_INDEX[current_stage[o]]
      => instance[o][s] = "COMPLETED"

\* A stage left behind never stays IN_PROGRESS, and a stage already worked on
\* is not reset to PENDING while the case stands on it.
OnlyCurrentInProgress ==
  \A o \in created : \A s \in WorkflowStage :
    /\ instance[o][s] = "IN_PROGRESS" => s = current_stage[o]
    /\ s = current_stage[o] => instance[o][s] # "PENDING"

\* A case that stands on COMPLETED has no open stage at all, however often it
\* was sent back from there and finished again.
FinishedCaseClosed ==
  \A o \in created :
    current_stage[o] = "COMPLETED"
      => \A s \in WorkflowStage : instance[o][s] = "COMPLETED"

\* The stage events that follow each other in the trail of a case.
Consecutive(o) ==
  {p \in StageEvents(o) \X StageEvents(o) :
     p[1] < p[2] /\ \A k \in StageEvents(o) : k <= p[1] \/ p[2] <= k}

\* The last stage event of a trail led to the current stage; a case without
\* any stands where it was created.
TrailEnds(o) ==
  /\ StageEvents(o) = {} => current_stage[o] = "REQUIREMENT"
  /\ \A i \in StageEvents(o) :
       (\A j \in StageEvents(o) : j <= i)
         => audit[o][i].new_value = current_stage[o]

\* The audit trail replays the case: its stage events form one unbroken chain
\* from REQUIREMENT to the current stage, and each one is a defined transition
\* or a step back by one.
Replays(o) ==
  /\ TrailEnds(o)
  /\ \A p \in Consecutive(o) :
       audit[o][p[2]].old_value = audit[o][p[1]].new_value
  /\ \A i \in StageEvents(o) :
       LET event == audit[o][i]  from == event.old_value
       IN  /\ (\A j \in StageEvents(o) : i <= j) => from = "REQUIREMENT"
           /\ event.stage = from
           /\ IF event.action = "STAGE_ADVANCED"
                THEN is_allowed(from, event.new_value)
                ELSE /\ has_previous(from)
                     /\ event.new_value = previous_stage(from)

AuditReplaysCase == \A o \in created : Replays(o)

\* Each entry into a stage generated the stage's tasks exactly once: the tasks
\* of a stage are as many as the trail has entries into it, times its template.
TasksMatchEntries ==
  \A o \in created : \A s \in WorkflowStage :
    Cardinality({i \in DOMAIN tasks[o] : tasks[o][i].stage = s})
      = Len(TASK_TEMPLATES[s])
          * Cardinality({i \in StageEvents(o) : audit[o][i].new_value = s})

\* The events by which somebody of these roles moved the case into stage s.
EntriesBy(o, s, roles) ==
  {i \in StageEvents(o) : /\ audit[o][i].new_value = s
                          /\ RoleOf[audit[o][i].user_id] \in roles}

\* A case at PAYMENT or beyond was moved to MD_APPROVAL by CC or an
\* administrator, and after that to PAYMENT by MD or an administrator.
CommitteeBeforePayment ==
  \A o \in created :
    SEQUENCE_INDEX[current_stage[o]] >= SEQUENCE_INDEX["PAYMENT"]
      => \E i \in EntriesBy(o, "MD_APPROVAL", {"CC"} \cup APPROVERS),
            j \in EntriesBy(o, "PAYMENT", {"MD"} \cup APPROVERS) : i < j

\* The events of the trail up to position n that wrote case_status, and the
\* status they left behind.
StatusEvents(o, n) ==
  {i \in DOMAIN audit[o] :
     /\ i <= n
     /\ \/ audit[o][i].action \in {"CASE_CREATED", "CASE_STATUS_CHANGED"}
        \/ audit[o][i].action = "STAGE_ADVANCED"
             /\ audit[o][i].new_value = "COMPLETED"}

StatusAt(o, n) ==
  LET last == CHOOSE i \in StatusEvents(o, n) :
                \A j \in StatusEvents(o, n) : j <= i
  IN  IF audit[o][last].action = "CASE_CREATED"
        THEN "ACTIVE" ELSE audit[o][last].new_value

\* The audit trail explains the status of the case: case_status is what the
\* last event that wrote it says, every status change recorded the status it
\* replaced, and completed_at is set exactly if some event completed the case.
AuditExplainsStatus ==
  \A o \in created :
    /\ case_status[o] = StatusAt(o, Len(audit[o]))
    /\ \A i \in EventsOf(o, "CASE_STATUS_CHANGED") :
         audit[o][i].old_value = StatusAt(o, i - 1)
    /\ completed_at[o] <=>
         \E i \in StatusEvents(o, Len(audit[o])) :
           audit[o][i].new_value = "COMPLETED"

\* A task that was completed carries the user it was assigned to, and the
\* trail has that user's completion of a task of this type and stage.
CompletedTasksAudited ==
  \A o \in created : \A i \in DOMAIN tasks[o] :
    LET task == tasks[o][i]
    IN  task.status = "COMPLETED" \/ task.completed_by # None
          => /\ task.completed_by = task.assigned_to
             /\ \E k \in EventsOf(o, "TASK_COMPLETED") :
                  /\ audit[o][k].user_id = task.assigned_to
                  /\ audit[o][k].stage = task.stage
                  /\ audit[o][k].new_value = task.task_type
=============================================================================

--------------------------- MODULE WorkflowProofs ---------------------------
(***************************************************************************)
(* What TLAPS proves about the serial workflow engine, for any sets of     *)
(* openings and users, any assignment of roles and any bounds: facts about *)
(* the stage tables, the types, the stages of a case, the committees       *)
(* before PAYMENT, the trail as a replay of the case, what explains its    *)
(* status, and what its tasks owe to the trail.                            *)
(***************************************************************************)
EXTENDS Workflow, SequenceTheorems, FiniteSetTheorems, TLAPS

-----------------------------------------------------------------------------
(* The stage tables.                                                       *)

\* No stage occurs twice in SEQUENCE, so that SEQUENCE_INDEX inverts it.
LEMMA SequenceIndex ==
  \A i \in 1..15 : /\ SEQUENCE[i] \in WorkflowStage
                   /\ SEQUENCE_INDEX[SEQUENCE[i]] = i
<1>1. \A i, j \in 1..15 : SEQUENCE[i] = SEQUENCE[j] => i = j
  BY DEF SEQUENCE
<1>2. QED
  BY <1>1 DEF WorkflowStage, SEQUENCE_INDEX

\* The converse: every stage has a position, and stands there.
LEMMA IndexSequence ==
  \A s \in WorkflowStage : /\ SEQUENCE_INDEX[s] \in 1..15
                           /\ SEQUENCE[SEQUENCE_INDEX[s]] = s
  BY SequenceIndex DEF WorkflowStage

\* The two ends of the sequence.
LEMMA Ends ==
  /\ "REQUIREMENT" \in WorkflowStage /\ SEQUENCE_INDEX["REQUIREMENT"] = 1
  /\ "COMPLETED" \in WorkflowStage /\ SEQUENCE_INDEX["COMPLETED"] = 15
<1>1. SEQUENCE[1] = "REQUIREMENT" /\ SEQUENCE[15] = "COMPLETED"
  BY DEF SEQUENCE
<1>2. QED
  BY <1>1, SequenceIndex

\* A defined transition leads to the next stage, or from ACCOUNTS back to
\* QUOTATION, the stage before it.
LEMMA TransitionSteps ==
  ASSUME NEW current \in WorkflowStage, NEW target, is_allowed(current, target)
  PROVE  /\ target \in WorkflowStage
         /\ \/ SEQUENCE_INDEX[target] = SEQUENCE_INDEX[current] + 1
            \/ SEQUENCE_INDEX[target] = SEQUENCE_INDEX[current] - 1
<1>1. PICK i \in 1..15 : current = SEQUENCE[i]
  BY DEF WorkflowStage
<1>2. CASE i = 8
  <2>1. target = SEQUENCE[9] \/ target = SEQUENCE[7]
    BY <1>1, <1>2 DEF is_allowed, TRANSITIONS, SEQUENCE
  <2>2. QED
    BY <1>1, <1>2, <2>1, SequenceIndex
<1>3. CASE i # 8
  <2>1. i + 1 \in 1..15 /\ target = SEQUENCE[i + 1]
    BY <1>1, <1>3 DEF is_allowed, TRANSITIONS, SEQUENCE
  <2>2. QED
    BY <1>1, <2>1, SequenceIndex
<1>4. QED
  BY <1>2, <1>3

\* The stage before one that has a predecessor.
LEMMA PreviousStage ==
  ASSUME NEW current \in WorkflowStage, has_previous(current)
  PROVE  /\ previous_stage(current) \in WorkflowStage
         /\ SEQUENCE_INDEX[previous_stage(current)]
              = SEQUENCE_INDEX[current] - 1
<1>1. SEQUENCE_INDEX[current] - 1 \in 1..15
  BY IndexSequence DEF has_previous
<1>2. QED
  BY <1>1, SequenceIndex DEF previous_stage

\* Every stage has a template, a sequence.
LEMMA Templates ==
  \A s \in WorkflowStage : /\ Len(TASK_TEMPLATES[s]) \in Nat
                           /\ DOMAIN TASK_TEMPLATES[s] = 1..Len(TASK_TEMPLATES[s])
<1>1. \A i \in 1..15 :
        /\ Len(TASK_TEMPLATES[SEQUENCE[i]]) \in Nat
        /\ DOMAIN TASK_TEMPLATES[SEQUENCE[i]]
             = 1..Len(TASK_TEMPLATES[SEQUENCE[i]])
  BY DEF TASK_TEMPLATES, SEQUENCE
<1>2. QED
  BY <1>1 DEF WorkflowStage

-----------------------------------------------------------------------------
(* The part of TypeOK that the trail and the stage of a case are about; it *)
(* is all that the components which move cases have to know of the engine. *)

TrailTypeOK ==
  /\ created \subseteq Opening
  /\ current_stage \in [Opening -> WorkflowStage]
  /\ audit \in [Opening -> Seq(AuditEvent)]

\* A well-typed state of the engine is well typed in this respect.
LEMMA TrailTypes == TypeOK => TrailTypeOK
BY DEF TypeOK, TrailTypeOK

-----------------------------------------------------------------------------
(* What the operations write has the type of the column it goes to.        *)

\* _generate_tasks returns well-formed rows.
LEMMA NewTasksType ==
  ASSUME NEW stage \in WorkflowStage, NEW u \in User
  PROVE  NewTasks(stage, u) \in Seq(WorkflowTask)
<1> DEFINE n == Len(TASK_TEMPLATES[stage])
<1>1. n \in Nat /\ DOMAIN TASK_TEMPLATES[stage] = 1..n
  BY Templates
<1>2. ASSUME NEW i \in 1..n
      PROVE  [stage |-> stage, task_type |-> TASK_TEMPLATES[stage][i],
              assigned_to |-> u, status |-> "PENDING",
              completed_by |-> None] \in WorkflowTask
  <2>1. TASK_TEMPLATES[stage][i] \in TaskType
    BY <1>1 DEF TaskType
  <2>2. QED
    BY <2>1 DEF WorkflowTask, TaskStatus
<1>3. NewTasks(stage, u) \in [1..n -> WorkflowTask]
  BY <1>2 DEF NewTasks
<1>4. QED
  BY <1>1, <1>3, IsASeq

\* _record_audit makes a well-formed event.
LEMMA EventType ==
  ASSUME NEW action \in AuditAction, NEW stage \in WorkflowStage,
         NEW u \in User,
         NEW old \in WorkflowStage \cup CaseStatus \cup User \cup {None},
         NEW new \in WorkflowStage \cup CaseStatus \cup TaskType \cup User
                       \cup {None}
  PROVE  Event(action, stage, u, old, new) \in AuditEvent
BY DEF Event, AuditEvent

\* An event appended keeps the trail well formed.
LEMMA RecordType ==
  ASSUME TrailTypeOK, NEW o \in Opening, NEW event \in AuditEvent,
         Record(o, event)
  PROVE  audit' \in [Opening -> Seq(AuditEvent)]
BY DEF TrailTypeOK, Record

\* Starting and completing stages keeps the instances well formed.
LEMMA StagesType ==
  ASSUME NEW stages \in [WorkflowStage -> WorkflowStageStatus],
         NEW current \in WorkflowStage, NEW target \in WorkflowStage
  PROVE  /\ stages_advanced(stages, current, target)
              \in [WorkflowStage -> WorkflowStageStatus]
         /\ stages_sent_back(stages, current, target)
              \in [WorkflowStage -> WorkflowStageStatus]
BY DEF stages_advanced, stages_sent_back, start_stage, close_stage,
       WorkflowStageStatus

-----------------------------------------------------------------------------
(* Type correctness.                                                       *)

\* No case exists at first, and no row.
LEMMA InitType == Init => TypeOK
<1>1. "REQUIREMENT" \in WorkflowStage
  BY Ends
<1>2. QED
  BY <1>1 DEF Init, TypeOK, CaseStatus, WorkflowStageStatus

\* create keeps the types.
LEMMA CreateType ==
  ASSUME TypeOK, NEW o \in Opening, NEW u \in User, create(o, u)
  PROVE  TypeOK'
<1>1. "REQUIREMENT" \in WorkflowStage
  BY Ends
<1>2. audit' \in [Opening -> Seq(AuditEvent)]
  BY <1>1, EventType, RecordType, TrailTypes DEF create, AuditAction
<1>3. QED
  BY <1>1, <1>2 DEF TypeOK, create, CaseStatus, WorkflowStageStatus

\* transition keeps the types.
LEMMA AdvanceType ==
  ASSUME TypeOK, NEW o \in Opening, NEW u \in User,
         NEW current \in WorkflowStage, NEW target \in WorkflowStage,
         Advance(o, current, target, u)
  PROVE  TypeOK'
<1>1. audit' \in [Opening -> Seq(AuditEvent)]
  BY EventType, RecordType, TrailTypes DEF Advance, AuditAction
<1>2. tasks' \in [Opening -> Seq(WorkflowTask)]
  <2>1. tasks[o] \o NewTasks(target, u) \in Seq(WorkflowTask)
    BY NewTasksType, ConcatProperties DEF TypeOK
  <2>2. QED
    BY <2>1 DEF TypeOK, Advance
<1>3. instance' \in [Opening -> [WorkflowStage -> WorkflowStageStatus]]
  BY StagesType DEF TypeOK, Advance
<1>4. QED
  BY <1>1, <1>2, <1>3 DEF TypeOK, Advance, CaseStatus

\* send_back keeps the types.
LEMMA SendBackType ==
  ASSUME TypeOK, NEW o \in Opening, NEW u \in User,
         NEW current \in WorkflowStage, has_previous(current),
         SendBack(o, current, u)
  PROVE  TypeOK'
<1>1. previous_stage(current) \in WorkflowStage
  BY PreviousStage
<1>2. audit' \in [Opening -> Seq(AuditEvent)]
  BY <1>1, EventType, RecordType, TrailTypes DEF SendBack, AuditAction
<1>3. tasks' \in [Opening -> Seq(WorkflowTask)]
  <2>1. tasks[o] \o NewTasks(previous_stage(current), u) \in Seq(WorkflowTask)
    BY <1>1, NewTasksType, ConcatProperties DEF TypeOK
  <2>2. QED
    BY <2>1 DEF TypeOK, SendBack
<1>4. instance' \in [Opening -> [WorkflowStage -> WorkflowStageStatus]]
  BY <1>1, StagesType DEF TypeOK, SendBack
<1>5. QED
  BY <1>1, <1>2, <1>3, <1>4 DEF TypeOK, SendBack

\* set_status keeps the types.
LEMMA StatusType ==
  ASSUME TypeOK, NEW o \in Opening, NEW u \in User, NEW status \in CaseStatus,
         set_status(o, status, u)
  PROVE  TypeOK'
<1>1. audit' \in [Opening -> Seq(AuditEvent)]
  BY EventType, RecordType, TrailTypes DEF TypeOK, set_status, AuditAction
<1>2. QED
  BY <1>1 DEF TypeOK, set_status

\* assign keeps the types.
LEMMA AssignType ==
  ASSUME TypeOK, NEW o \in Opening, NEW u \in User, NEW assignee \in User,
         assign(o, assignee, u)
  PROVE  TypeOK'
<1>1. audit' \in [Opening -> Seq(AuditEvent)]
  BY EventType, RecordType, TrailTypes DEF TypeOK, assign, AuditAction
<1>2. QED
  BY <1>1 DEF TypeOK, assign

\* start_task and complete_task keep the types.
LEMMA TaskStepType ==
  ASSUME TypeOK, NEW o \in Opening, NEW u \in User,
         NEW i \in DOMAIN tasks[o],
         start_task(o, i, u) \/ complete_task(o, i, u)
  PROVE  TypeOK'
<1>1. tasks[o] \in Seq(WorkflowTask) /\ tasks[o][i] \in WorkflowTask
  BY DEF TypeOK
<1>2. CASE start_task(o, i, u)
  <2>1. [tasks[o][i] EXCEPT !.status = "IN_PROGRESS"] \in WorkflowTask
    BY <1>1 DEF WorkflowTask, TaskStatus
  <2>2. tasks' \in [Opening -> Seq(WorkflowTask)]
    BY <1>1, <1>2, <2>1 DEF TypeOK, start_task
  <2>3. QED
    BY <1>2, <2>2 DEF TypeOK, start_task
<1>3. CASE complete_task(o, i, u)
  <2> DEFINE closed == [tasks EXCEPT ![o][i].status = "COMPLETED"]
  <2>1. /\ closed \in [Opening -> Seq(WorkflowTask)]
        /\ i \in DOMAIN closed[o]
    <3>1. [tasks[o][i] EXCEPT !.status = "COMPLETED"] \in WorkflowTask
      BY <1>1 DEF WorkflowTask, TaskStatus
    <3>2. QED
      BY <1>1, <3>1 DEF TypeOK
  <2>2. tasks' \in [Opening -> Seq(WorkflowTask)]
    <3>1. closed[o][i] \in WorkflowTask
      BY <2>1
    <3>2. [closed[o][i] EXCEPT !.completed_by = u] \in WorkflowTask
      BY <3>1 DEF WorkflowTask
    <3>3. tasks' = [closed EXCEPT ![o][i].completed_by = u]
      BY <1>3 DEF complete_task
    <3> HIDE DEF closed
    <3>4. QED
      BY <2>1, <3>2, <3>3
  <2>3. audit' \in [Opening -> Seq(AuditEvent)]
    BY <1>1, <1>3, EventType, RecordType, TrailTypes
    DEF complete_task, AuditAction, WorkflowTask
  <2>4. QED
    BY <1>3, <2>2, <2>3 DEF TypeOK, complete_task
<1>4. QED
  BY <1>2, <1>3

\* Type correctness: whatever the operations do to a case, in any order and by
\* anybody, every column holds a value its model class declares.
THEOREM TypeCorrect == Spec => []TypeOK
<1>1. Init => TypeOK
  BY InitType
<1>2. TypeOK /\ [Next]_vars => TypeOK'
  <2> SUFFICES ASSUME TypeOK, [Next]_vars PROVE TypeOK'
    OBVIOUS
  <2>1. ASSUME NEW o \in Opening, NEW u \in User, create(o, u)
        PROVE  TypeOK'
    BY <2>1, CreateType
  <2>2. ASSUME NEW o \in Opening, NEW u \in User, NEW target \in WorkflowStage,
               transition(o, target, u)
        PROVE  TypeOK'
    <3>1. current_stage[o] \in WorkflowStage
      BY DEF TypeOK
    <3>2. QED
      BY <2>2, <3>1, AdvanceType DEF transition
  <2>3. ASSUME NEW o \in Opening, NEW u \in User, send_back(o, u)
        PROVE  TypeOK'
    <3>1. current_stage[o] \in WorkflowStage
      BY DEF TypeOK
    <3>2. QED
      BY <2>3, <3>1, SendBackType DEF send_back
  <2>4. ASSUME NEW o \in Opening, NEW u \in User, NEW status \in CaseStatus,
               set_status(o, status, u)
        PROVE  TypeOK'
    BY <2>4, StatusType
  <2>5. ASSUME NEW o \in Opening, NEW u \in User, NEW assignee \in User,
               assign(o, assignee, u)
        PROVE  TypeOK'
    BY <2>5, AssignType
  <2>6. ASSUME NEW o \in Opening, NEW u \in User, NEW i \in DOMAIN tasks[o],
               start_task(o, i, u) \/ complete_task(o, i, u)
        PROVE  TypeOK'
    BY <2>6, TaskStepType
  <2>7. CASE UNCHANGED vars
    BY <2>7 DEF TypeOK, vars
  <2>8. QED
    BY <2>1, <2>2, <2>3, <2>4, <2>5, <2>6, <2>7 DEF Next, Moves, DeskWork
<1>3. QED
  BY <1>1, <1>2, PTL DEF Spec

-----------------------------------------------------------------------------
(* The stages of a case.  The three invariants hold together: a finished   *)
(* case is closed because all earlier stages were completed.  Four steps   *)
(* write current_stage or instance; every other one is covered by          *)
(* StagesUntouched.                                                        *)

StagesInv == /\ EarlierStagesCompleted
             /\ OnlyCurrentInProgress
             /\ FinishedCaseClosed

\* A step that leaves stages and positions of all cases keeps StagesInv.
LEMMA StagesUntouched ==
  ASSUME StagesInv, UNCHANGED <<created, current_stage, instance>>
  PROVE  StagesInv'
BY DEF StagesInv, EarlierStagesCompleted, OnlyCurrentInProgress,
       FinishedCaseClosed

\* What a move between neighbouring stages, in either direction, makes of the
\* stages of one case.
LEMMA AdvancedStages ==
  ASSUME NEW stages \in [WorkflowStage -> WorkflowStageStatus],
         NEW current \in WorkflowStage, NEW target \in WorkflowStage,
         current # target
  PROVE  LET after == stages_advanced(stages, current, target)
         IN  /\ after[current] = "COMPLETED"
             /\ target = "COMPLETED" => after[target] = "COMPLETED"
             /\ after[target] # "PENDING"
             /\ \A s \in WorkflowStage \ {current, target} :
                  after[s] = stages[s]
BY DEF stages_advanced, start_stage, close_stage

\* The same for a case sent back.
LEMMA SentBackStages ==
  ASSUME NEW stages \in [WorkflowStage -> WorkflowStageStatus],
         NEW current \in WorkflowStage, NEW previous \in WorkflowStage,
         current # previous
  PROVE  LET after == stages_sent_back(stages, current, previous)
         IN  /\ after[current] = "SENT_BACK"
             /\ after[previous] # "PENDING"
             /\ \A s \in WorkflowStage \ {current, previous} :
                  after[s] = stages[s]
BY DEF stages_sent_back, start_stage, close_stage

\* create keeps StagesInv.
LEMMA CreateStages ==
  ASSUME TypeOK, StagesInv, NEW o \in Opening, NEW u \in User, create(o, u)
  PROVE  StagesInv'
<1>1. /\ created' = created \cup {o}
      /\ current_stage' = [current_stage EXCEPT ![o] = "REQUIREMENT"]
      /\ instance' = [instance EXCEPT ![o] =
            [s \in WorkflowStage |->
               IF s = "REQUIREMENT" THEN "IN_PROGRESS" ELSE "PENDING"]]
  BY DEF create, SEQUENCE
<1>2. /\ current_stage'[o] = "REQUIREMENT"
      /\ \A s \in WorkflowStage :
           instance'[o][s] = IF s = "REQUIREMENT" THEN "IN_PROGRESS"
                                                  ELSE "PENDING"
  BY <1>1 DEF TypeOK
<1>3. \A p \in created \ {o} : /\ current_stage'[p] = current_stage[p]
                              /\ instance'[p] = instance[p]
  BY <1>1 DEF TypeOK
<1>4. \A s \in WorkflowStage :
        ~ (SEQUENCE_INDEX[s] < SEQUENCE_INDEX["REQUIREMENT"])
  BY Ends, IndexSequence
<1>5. EarlierStagesCompleted'
  BY <1>1, <1>2, <1>3, <1>4 DEF StagesInv, EarlierStagesCompleted
<1>6. OnlyCurrentInProgress'
  BY <1>1, <1>2, <1>3 DEF StagesInv, OnlyCurrentInProgress
<1>7. FinishedCaseClosed'
  BY <1>1, <1>2, <1>3 DEF StagesInv, FinishedCaseClosed
<1>8. QED
  BY <1>5, <1>6, <1>7 DEF StagesInv

\* transition keeps StagesInv.
LEMMA TransitionStages ==
  ASSUME TypeOK, StagesInv, NEW o \in Opening, NEW target \in WorkflowStage,
         NEW u \in User, transition(o, target, u)
  PROVE  StagesInv'
<1> DEFINE current == current_stage[o]
           after == instance'[o]
<1>1. /\ o \in created
      /\ current \in WorkflowStage
      /\ instance[o] \in [WorkflowStage -> WorkflowStageStatus]
  BY DEF TypeOK, transition
<1>2. \/ SEQUENCE_INDEX[target] = SEQUENCE_INDEX[current] + 1
      \/ SEQUENCE_INDEX[target] = SEQUENCE_INDEX[current] - 1
  BY <1>1, TransitionSteps DEF transition
<1>3. SEQUENCE_INDEX[current] \in 1..15 /\ SEQUENCE_INDEX[target] \in 1..15
  BY <1>1, IndexSequence
<1>4. current # target
  BY <1>2, <1>3
<1>5. /\ created' = created
      /\ current_stage'[o] = target
      /\ after = stages_advanced(instance[o], current, target)
      /\ \A p \in created \ {o} : /\ current_stage'[p] = current_stage[p]
                                 /\ instance'[p] = instance[p]
  BY DEF TypeOK, transition, Advance
<1>6. /\ after[current] = "COMPLETED"
      /\ target = "COMPLETED" => after[target] = "COMPLETED"
      /\ after[target] # "PENDING"
      /\ \A s \in WorkflowStage \ {current, target} :
           after[s] = instance[o][s]
  BY <1>1, <1>4, <1>5, AdvancedStages
<1>7. ASSUME NEW s \in WorkflowStage,
             SEQUENCE_INDEX[s] < SEQUENCE_INDEX[target]
      PROVE  after[s] = "COMPLETED"
  <2>1. SEQUENCE_INDEX[s] \in 1..15
    BY IndexSequence
  <2>2. s = current \/ SEQUENCE_INDEX[s] < SEQUENCE_INDEX[current]
    BY <1>1, <1>2, <1>3, <1>7, <2>1, IndexSequence
  <2>3. QED
    BY <1>1, <1>3, <1>6, <1>7, <2>2 DEF StagesInv, EarlierStagesCompleted
<1>8. EarlierStagesCompleted'
  BY <1>5, <1>7 DEF StagesInv, EarlierStagesCompleted
<1>9. OnlyCurrentInProgress'
  BY <1>1, <1>5, <1>6 DEF StagesInv, OnlyCurrentInProgress
<1>10. FinishedCaseClosed'
  <2>1. ASSUME target = "COMPLETED", NEW s \in WorkflowStage
        PROVE  after[s] = "COMPLETED"
    <3>1. s = target \/ SEQUENCE_INDEX[s] < SEQUENCE_INDEX[target]
      BY <2>1, Ends, IndexSequence
    <3>2. QED
      BY <1>6, <1>7, <2>1, <3>1
  <2>2. QED
    BY <1>5, <2>1 DEF StagesInv, FinishedCaseClosed
<1>11. QED
  BY <1>8, <1>9, <1>10 DEF StagesInv

\* send_back keeps StagesInv.
LEMMA SendBackStages ==
  ASSUME TypeOK, StagesInv, NEW o \in Opening, NEW u \in User, send_back(o, u)
  PROVE  StagesInv'
<1> DEFINE current == current_stage[o]
           previous == previous_stage(current)
           after == instance'[o]
<1>1. /\ o \in created
      /\ current \in WorkflowStage
      /\ instance[o] \in [WorkflowStage -> WorkflowStageStatus]
  BY DEF TypeOK, send_back
<1>2. /\ previous \in WorkflowStage
      /\ SEQUENCE_INDEX[previous] = SEQUENCE_INDEX[current] - 1
  BY <1>1, PreviousStage DEF send_back
<1>3. SEQUENCE_INDEX[current] \in 1..15 /\ SEQUENCE_INDEX[previous] \in 1..15
  BY <1>1, <1>2, IndexSequence
<1>4. current # previous /\ previous # "COMPLETED"
  BY <1>2, <1>3, Ends
<1>5. /\ created' = created
      /\ current_stage'[o] = previous
      /\ after = stages_sent_back(instance[o], current, previous)
      /\ \A p \in created \ {o} : /\ current_stage'[p] = current_stage[p]
                                 /\ instance'[p] = instance[p]
  BY DEF TypeOK, send_back, SendBack
<1>6. /\ after[current] = "SENT_BACK"
      /\ after[previous] # "PENDING"
      /\ \A s \in WorkflowStage \ {current, previous} :
           after[s] = instance[o][s]
  BY <1>1, <1>2, <1>4, <1>5, SentBackStages
<1>7. ASSUME NEW s \in WorkflowStage,
             SEQUENCE_INDEX[s] < SEQUENCE_INDEX[previous]
      PROVE  after[s] = "COMPLETED"
  <2>1. SEQUENCE_INDEX[s] \in 1..15
    BY IndexSequence
  <2>2. /\ s \notin {current, previous}
        /\ SEQUENCE_INDEX[s] < SEQUENCE_INDEX[current]
    BY <1>2, <1>3, <1>7, <2>1
  <2>3. QED
    BY <1>1, <1>6, <2>2 DEF StagesInv, EarlierStagesCompleted
<1>8. EarlierStagesCompleted'
  BY <1>5, <1>7 DEF StagesInv, EarlierStagesCompleted
<1>9. OnlyCurrentInProgress'
  BY <1>1, <1>5, <1>6 DEF StagesInv, OnlyCurrentInProgress
<1>10. FinishedCaseClosed'
  BY <1>4, <1>5 DEF StagesInv, FinishedCaseClosed
<1>11. QED
  BY <1>8, <1>9, <1>10 DEF StagesInv

\* The three invariants of the stages hold in every reachable state.
THEOREM StagesCorrect == Spec => []StagesInv
<1>1. Init => StagesInv
  BY DEF Init, StagesInv, EarlierStagesCompleted, OnlyCurrentInProgress,
         FinishedCaseClosed
<1>2. TypeOK /\ StagesInv /\ [Next]_vars => StagesInv'
  <2> SUFFICES ASSUME TypeOK, StagesInv, [Next]_vars PROVE StagesInv'
    OBVIOUS
  <2>1. ASSUME NEW o \in Opening, NEW u \in User, create(o, u)
        PROVE  StagesInv'
    BY <2>1, CreateStages
  <2>2. ASSUME NEW o \in Opening, NEW u \in User, NEW target \in WorkflowStage,
               transition(o, target, u)
        PROVE  StagesInv'
    BY <2>2, TransitionStages
  <2>3. ASSUME NEW o \in Opening, NEW u \in User, send_back(o, u)
        PROVE  StagesInv'
    BY <2>3, SendBackStages
  <2>4. ASSUME NEW o \in Opening, NEW u \in User, NEW status \in CaseStatus,
               set_status(o, status, u)
        PROVE  StagesInv'
    BY <2>4, StagesUntouched DEF set_status
  <2>5. ASSUME NEW o \in Opening, NEW u \in User, NEW assignee \in User,
               assign(o, assignee, u)
        PROVE  StagesInv'
    BY <2>5, StagesUntouched DEF assign
  <2>6. ASSUME NEW o \in Opening, NEW u \in User, NEW i \in DOMAIN tasks[o],
               start_task(o, i, u) \/ complete_task(o, i, u)
        PROVE  StagesInv'
    BY <2>6, StagesUntouched DEF start_task, complete_task
  <2>7. CASE UNCHANGED vars
    BY <2>7, StagesUntouched DEF vars
  <2>8. QED
    BY <2>1, <2>2, <2>3, <2>4, <2>5, <2>6, <2>7 DEF Next, Moves, DeskWork
<1>3. QED
  BY <1>1, <1>2, TypeCorrect, PTL DEF Spec

\* No route skips a stage: every stage before the current one is COMPLETED,
\* for any number of cases, users and detours.
THEOREM EarlierStagesAlwaysCompleted == Spec => []EarlierStagesCompleted
BY StagesCorrect, PTL DEF StagesInv

\* Never two stages of a case in progress, and never a current stage that was
\* not started.
THEOREM OnlyCurrentEverInProgress == Spec => []OnlyCurrentInProgress
BY StagesCorrect, PTL DEF StagesInv

\* A case on COMPLETED has no open stage.
THEOREM FinishedCaseStaysClosed == Spec => []FinishedCaseClosed
BY StagesCorrect, PTL DEF StagesInv

-----------------------------------------------------------------------------
(* Both committees before PAYMENT.  To be inductive the property needs its *)
(* first half one stage earlier: a case at MD_APPROVAL or beyond was moved *)
(* there by CC or an administrator.                                        *)

CommitteesAt(o, stage) ==
  LET position == SEQUENCE_INDEX[stage]
      ccMoves  == EntriesBy(o, "MD_APPROVAL", {"CC"} \cup APPROVERS)
      mdMoves  == EntriesBy(o, "PAYMENT", {"MD"} \cup APPROVERS)
  IN  /\ position >= SEQUENCE_INDEX["MD_APPROVAL"] => ccMoves # {}
      /\ position >= SEQUENCE_INDEX["PAYMENT"]
           => \E i \in ccMoves, j \in mdMoves : i < j

CommitteesInv == \A o \in created : CommitteesAt(o, current_stage[o])

\* The audit trail of every case keeps what it has.
TrailKept == \A o \in Opening : \A i \in DOMAIN audit[o] :
               i \in DOMAIN audit'[o] /\ audit'[o][i] = audit[o][i]

\* Where the committees stand in the sequence.
LEMMA CommitteeStages ==
  /\ SEQUENCE_INDEX["MD_APPROVAL"] = 10 /\ SEQUENCE[10] = "MD_APPROVAL"
  /\ SEQUENCE_INDEX["PAYMENT"] = 11 /\ SEQUENCE[11] = "PAYMENT"
<1>1. SEQUENCE[10] = "MD_APPROVAL" /\ SEQUENCE[11] = "PAYMENT"
  BY DEF SEQUENCE
<1>2. QED
  BY <1>1, SequenceIndex

\* Who the role table admits to a committee's move.
LEMMA CommitteeRoles ==
  ASSUME NEW role
  PROVE  /\ can_role_advance(role, "MD_APPROVAL")
              => role \in {"CC"} \cup APPROVERS
         /\ can_role_advance(role, "PAYMENT")
              => role \in {"MD"} \cup APPROVERS
BY DEF can_role_advance, ROLL_TRANSITIONS, APPROVERS

\* An event appended keeps every earlier one.
LEMMA RecordKeepsTrail ==
  ASSUME TrailTypeOK, NEW o \in Opening, NEW event \in AuditEvent,
         Record(o, event)
  PROVE  /\ TrailKept
         /\ Len(audit[o]) + 1 \in DOMAIN audit'[o]
         /\ audit'[o][Len(audit[o]) + 1] = event
<1>1. audit[o] \in Seq(AuditEvent)
  BY DEF TrailTypeOK
<1>2. /\ audit'[o] = Append(audit[o], event)
      /\ \A p \in Opening \ {o} : audit'[p] = audit[p]
  BY DEF TrailTypeOK, Record
<1>3. \A i \in DOMAIN audit[o] : /\ i \in DOMAIN audit'[o]
                                 /\ audit'[o][i] = audit[o][i]
  BY <1>1, <1>2
<1>4. QED
  BY <1>1, <1>2, <1>3 DEF TrailKept

\* A move on record stays on record.
LEMMA EntriesKept ==
  ASSUME TrailKept, NEW o \in Opening, NEW s, NEW roles
  PROVE  EntriesBy(o, s, roles) \subseteq EntriesBy(o, s, roles)'
BY DEF TrailKept, EntriesBy, StageEvents

\* What the trail holds for a stage it holds for an earlier one, and keeps.
LEMMA CommitteesKept ==
  ASSUME TrailKept, NEW o \in Opening,
         NEW stage \in WorkflowStage, NEW later \in WorkflowStage,
         SEQUENCE_INDEX[stage] <= SEQUENCE_INDEX[later],
         CommitteesAt(o, later)
  PROVE  CommitteesAt(o, stage)'
<1>1. SEQUENCE_INDEX[stage] \in 1..15 /\ SEQUENCE_INDEX[later] \in 1..15
  BY IndexSequence
<1>2. /\ EntriesBy(o, "MD_APPROVAL", {"CC"} \cup APPROVERS)
           \subseteq EntriesBy(o, "MD_APPROVAL", {"CC"} \cup APPROVERS)'
      /\ EntriesBy(o, "PAYMENT", {"MD"} \cup APPROVERS)
           \subseteq EntriesBy(o, "PAYMENT", {"MD"} \cup APPROVERS)'
  BY EntriesKept
<1>3. QED
  BY <1>1, <1>2, CommitteeStages DEF CommitteesAt

\* A move forward by somebody whose role admits it, recorded.
LEMMA CommitteesAdvanced ==
  ASSUME TrailTypeOK, NEW o \in Opening, NEW u \in User,
         NEW current \in WorkflowStage, NEW target \in WorkflowStage,
         is_allowed(current, target), can_role_advance(RoleOf[u], target),
         CommitteesAt(o, current),
         Record(o, Event("STAGE_ADVANCED", current, u, current, target))
  PROVE  CommitteesAt(o, target)'
<1> DEFINE n == Len(audit[o]) + 1
           cc == {"CC"} \cup APPROVERS
           md == {"MD"} \cup APPROVERS
<1>1. audit[o] \in Seq(AuditEvent)
  BY DEF TrailTypeOK
<1>2. /\ TrailKept
      /\ n \in DOMAIN audit'[o]
      /\ audit'[o][n] = Event("STAGE_ADVANCED", current, u, current, target)
  BY EventType, RecordKeepsTrail DEF AuditAction
<1>3. /\ SEQUENCE_INDEX[current] \in 1..15
      /\ SEQUENCE_INDEX[target] \in 1..15
      /\ \/ SEQUENCE_INDEX[target] = SEQUENCE_INDEX[current] + 1
         \/ SEQUENCE_INDEX[target] = SEQUENCE_INDEX[current] - 1
  BY TransitionSteps, IndexSequence
<1>4. /\ EntriesBy(o, "MD_APPROVAL", cc)
           \subseteq EntriesBy(o, "MD_APPROVAL", cc)'
      /\ EntriesBy(o, "PAYMENT", md) \subseteq EntriesBy(o, "PAYMENT", md)'
  BY <1>2, EntriesKept
<1>5. \A i \in EntriesBy(o, "MD_APPROVAL", cc) : i < n
  BY <1>1 DEF EntriesBy, StageEvents
<1>6. /\ target = "MD_APPROVAL" => n \in EntriesBy(o, "MD_APPROVAL", cc)'
      /\ target = "PAYMENT" => n \in EntriesBy(o, "PAYMENT", md)'
  BY <1>2, CommitteeRoles DEF EntriesBy, StageEvents, Event
<1>7. /\ SEQUENCE_INDEX[current] >= 10
           => EntriesBy(o, "MD_APPROVAL", cc) # {}
      /\ SEQUENCE_INDEX[current] >= 11
           => \E i \in EntriesBy(o, "MD_APPROVAL", cc),
                 j \in EntriesBy(o, "PAYMENT", md) : i < j
  BY CommitteeStages DEF CommitteesAt
<1>8. /\ SEQUENCE_INDEX[target] = 10 => target = "MD_APPROVAL"
      /\ SEQUENCE_INDEX[target] = 11 => target = "PAYMENT"
  <2>1. target = SEQUENCE[SEQUENCE_INDEX[target]]
    BY IndexSequence
  <2>2. QED
    BY <2>1, CommitteeStages
<1>9. SEQUENCE_INDEX[target] >= 10 => EntriesBy(o, "MD_APPROVAL", cc)' # {}
  <2> HIDE DEF cc, n
  <2>1. QED
    BY <1>3, <1>4, <1>6, <1>7, <1>8
<1>10. SEQUENCE_INDEX[target] >= 11
         => \E i \in EntriesBy(o, "MD_APPROVAL", cc)',
               j \in EntriesBy(o, "PAYMENT", md)' : i < j
  <2> HIDE DEF cc, md, n
  <2>1. CASE SEQUENCE_INDEX[target] = 11 /\ SEQUENCE_INDEX[current] = 10
    BY <1>4, <1>5, <1>6, <1>7, <1>8, <2>1
  <2>2. CASE SEQUENCE_INDEX[current] >= 11
    BY <1>4, <1>7, <2>2
  <2>3. QED
    BY <1>3, <2>1, <2>2
<1>11. QED
  BY <1>9, <1>10, CommitteeStages DEF CommitteesAt

\* A step that leaves the stages of these cases alone and loses nothing of the
\* trail.
LEMMA CommitteesUntouched ==
  ASSUME TrailTypeOK, CommitteesInv, TrailKept, NEW o \in created,
         current_stage'[o] = current_stage[o]
  PROVE  CommitteesAt(o, current_stage[o])'
<1>1. /\ o \in Opening /\ current_stage[o] \in WorkflowStage
      /\ SEQUENCE_INDEX[current_stage[o]] \in 1..15
  BY IndexSequence DEF TrailTypeOK
<1>2. QED
  BY <1>1, CommitteesKept DEF CommitteesInv

\* create keeps CommitteesInv.
LEMMA CreateCommittees ==
  ASSUME TypeOK, CommitteesInv, NEW o \in Opening, NEW u \in User, create(o, u)
  PROVE  CommitteesInv'
<1>1. TrailKept
  BY Ends, EventType, RecordKeepsTrail, TrailTypes DEF create, AuditAction
<1>2. /\ current_stage'[o] = "REQUIREMENT"
      /\ \A p \in created' \ {o} :
           p \in created /\ current_stage'[p] = current_stage[p]
  BY DEF TypeOK, create
<1>3. CommitteesAt(o, current_stage[o])'
  BY <1>2, Ends, CommitteeStages DEF CommitteesAt
<1>4. QED
  BY <1>1, <1>2, <1>3, CommitteesUntouched, TrailTypes DEF CommitteesInv

\* Both kinds of move, from a stage at which the committees had been heard,
\* wherever the case stands by now.
LEMMA AdvanceCommittees ==
  ASSUME TrailTypeOK, CommitteesInv, NEW o \in Opening, NEW u \in User,
         NEW current \in WorkflowStage, NEW target \in WorkflowStage,
         is_allowed(current, target), can_role_advance(RoleOf[u], target),
         CommitteesAt(o, current), Advance(o, current, target, u)
  PROVE  CommitteesInv'
<1>1. TrailKept
  BY EventType, RecordKeepsTrail DEF Advance, AuditAction
<1>2. /\ created' = created
      /\ current_stage'[o] = target
      /\ \A p \in created \ {o} : current_stage'[p] = current_stage[p]
  BY DEF TrailTypeOK, Advance
<1>3. CommitteesAt(o, target)'
  BY CommitteesAdvanced DEF Advance
<1>4. QED
  BY <1>1, <1>2, <1>3, CommitteesUntouched DEF CommitteesInv

\* A case moved back, by whomever, keeps CommitteesInv.
LEMMA RetreatCommittees ==
  ASSUME TrailTypeOK, CommitteesInv, NEW o \in Opening, NEW u \in User,
         NEW current \in WorkflowStage, has_previous(current),
         CommitteesAt(o, current), SendBack(o, current, u)
  PROVE  CommitteesInv'
<1>1. PICK previous \in WorkflowStage :
        /\ previous = previous_stage(current)
        /\ SEQUENCE_INDEX[previous] = SEQUENCE_INDEX[current] - 1
  BY PreviousStage
<1>2. TrailKept
  BY <1>1, EventType, RecordKeepsTrail DEF SendBack, AuditAction
<1>3. /\ created' = created
      /\ current_stage'[o] = previous
      /\ \A p \in created \ {o} : current_stage'[p] = current_stage[p]
  BY <1>1 DEF TrailTypeOK, SendBack
<1>4. CommitteesAt(o, previous)'
  <2>1. SEQUENCE_INDEX[previous] <= SEQUENCE_INDEX[current]
    BY <1>1, IndexSequence
  <2>2. QED
    BY <1>2, <2>1, CommitteesKept
<1>5. QED
  BY <1>2, <1>3, <1>4, CommitteesUntouched DEF CommitteesInv

\* transition keeps CommitteesInv.
LEMMA TransitionCommittees ==
  ASSUME TrailTypeOK, CommitteesInv, NEW o \in Opening,
         NEW target \in WorkflowStage, NEW u \in User, transition(o, target, u)
  PROVE  CommitteesInv'
BY AdvanceCommittees DEF TrailTypeOK, CommitteesInv, transition

\* send_back keeps CommitteesInv.
LEMMA SendBackCommittees ==
  ASSUME TrailTypeOK, CommitteesInv, NEW o \in Opening, NEW u \in User,
         send_back(o, u)
  PROVE  CommitteesInv'
BY RetreatCommittees DEF TrailTypeOK, CommitteesInv, send_back

\* No case reaches PAYMENT, by whatever route and after whatever send-backs,
\* without a move to MD_APPROVAL by CC or an administrator and, later, a move
\* to PAYMENT by MD or an administrator.
THEOREM CommitteesAlwaysBeforePayment == Spec => []CommitteeBeforePayment
<1>1. Init => CommitteesInv
  BY DEF Init, CommitteesInv
<1>2. TypeOK /\ CommitteesInv /\ [Next]_vars => CommitteesInv'
  <2> SUFFICES ASSUME TypeOK, CommitteesInv, [Next]_vars PROVE CommitteesInv'
    OBVIOUS
  <2>1. ASSUME NEW o \in Opening, NEW u \in User, create(o, u)
        PROVE  CommitteesInv'
    BY <2>1, CreateCommittees
  <2>2. ASSUME NEW o \in Opening, NEW u \in User, NEW target \in WorkflowStage,
               transition(o, target, u)
        PROVE  CommitteesInv'
    BY <2>2, TransitionCommittees, TrailTypes
  <2>3. ASSUME NEW o \in Opening, NEW u \in User, send_back(o, u)
        PROVE  CommitteesInv'
    BY <2>3, SendBackCommittees, TrailTypes
  <2>4. ASSUME NEW o \in Opening, NEW u \in User, NEW status \in CaseStatus,
               set_status(o, status, u)
        PROVE  CommitteesInv'
    <3>1. TrailKept
      BY <2>4, EventType, RecordKeepsTrail, TrailTypes DEF TypeOK, set_status, AuditAction
    <3>2. QED
      BY <2>4, <3>1, CommitteesUntouched, TrailTypes DEF set_status, CommitteesInv
  <2>5. ASSUME NEW o \in Opening, NEW u \in User, NEW assignee \in User,
               assign(o, assignee, u)
        PROVE  CommitteesInv'
    <3>1. TrailKept
      BY <2>5, EventType, RecordKeepsTrail, TrailTypes DEF TypeOK, assign, AuditAction
    <3>2. QED
      BY <2>5, <3>1, CommitteesUntouched, TrailTypes DEF assign, CommitteesInv
  <2>6. ASSUME NEW o \in Opening, NEW u \in User, NEW i \in DOMAIN tasks[o],
               start_task(o, i, u)
        PROVE  CommitteesInv'
    BY <2>6, CommitteesUntouched, TrailTypes DEF start_task, TrailKept, CommitteesInv
  <2>7. ASSUME NEW o \in Opening, NEW u \in User, NEW i \in DOMAIN tasks[o],
               complete_task(o, i, u)
        PROVE  CommitteesInv'
    <3>1. tasks[o][i] \in WorkflowTask
      BY <2>7 DEF TypeOK
    <3>2. TrailKept
      BY <2>7, <3>1, EventType, RecordKeepsTrail, TrailTypes
      DEF complete_task, AuditAction, WorkflowTask
    <3>3. QED
      BY <2>7, <3>2, CommitteesUntouched, TrailTypes DEF complete_task, CommitteesInv
  <2>8. CASE UNCHANGED vars
    BY <2>8, CommitteesUntouched, TrailTypes DEF vars, TrailKept, CommitteesInv
  <2>9. QED
    BY <2>1, <2>2, <2>3, <2>4, <2>5, <2>6, <2>7, <2>8 DEF Next, Moves, DeskWork
<1>3. CommitteesInv => CommitteeBeforePayment
  BY DEF CommitteesInv, CommitteesAt, CommitteeBeforePayment
<1>4. QED
  BY <1>1, <1>2, <1>3, TypeCorrect, PTL DEF Spec
-----------------------------------------------------------------------------
(* The audit trail replays every case, for trails of any length: what it   *)
(* takes to know of the last stage event of a trail that grows.            *)
(*                                                                         *)
(* The trail and the stage of a case.  A case that does not exist yet has  *)
(* no stage events.                                                        *)

TrailInv ==
  /\ AuditReplaysCase
  /\ \A o \in Opening \ created : StageEvents(o) = {}

\* Appending to a trail leaves what it said of every earlier position.
LEMMA TrailPrefix ==
  ASSUME TrailTypeOK, NEW o \in Opening, NEW event \in AuditEvent,
         Record(o, event)
  PROVE  LET n == Len(audit[o]) + 1
             moves == event.action \in {"STAGE_ADVANCED", "STAGE_SENT_BACK"}
         IN  /\ n \in Nat \ {0}
             /\ Len(audit'[o]) = n
             /\ audit'[o][n] = event
             /\ \A i \in StageEvents(o) : /\ i \in 1..(n - 1)
                                         /\ audit'[o][i] = audit[o][i]
             /\ StageEvents(o)' = IF moves THEN StageEvents(o) \cup {n}
                                           ELSE StageEvents(o)
<1>1. /\ audit[o] \in Seq(AuditEvent)
      /\ audit'[o] = Append(audit[o], event)
  BY DEF TrailTypeOK, Record
<1>2. /\ Len(audit'[o]) = Len(audit[o]) + 1
      /\ DOMAIN audit'[o] = 1..(Len(audit[o]) + 1)
      /\ DOMAIN audit[o] = 1..Len(audit[o])
      /\ Len(audit[o]) \in Nat
      /\ audit'[o][Len(audit[o]) + 1] = event
      /\ \A i \in 1..Len(audit[o]) : audit'[o][i] = audit[o][i]
  BY <1>1
<1>3. QED
  BY <1>2 DEF StageEvents

\* A step that is no move and leaves the case where it is.
LEMMA NoMoveReplays ==
  ASSUME NEW o \in Opening, Replays(o),
         StageEvents(o)' = StageEvents(o),
         \A i \in StageEvents(o) : audit'[o][i] = audit[o][i],
         current_stage'[o] = current_stage[o]
  PROVE  Replays(o)'
<1>1. TrailEnds(o)'
  BY DEF Replays, TrailEnds
<1>2. Consecutive(o)' = Consecutive(o)
  BY DEF Consecutive
<1>3. \A p \in Consecutive(o) : /\ p[1] \in StageEvents(o)
                                /\ p[2] \in StageEvents(o)
  BY DEF Consecutive
<1>4. QED
  BY <1>1, <1>2, <1>3 DEF Replays

\* A move that is recorded ends the trail where it leads.
LEMMA MoveEndsTrail ==
  ASSUME TypeOK, NEW o \in Opening, NEW event \in AuditEvent,
         Record(o, event),
         event.action \in {"STAGE_ADVANCED", "STAGE_SENT_BACK"},
         event.new_value = current_stage'[o]
  PROVE  TrailEnds(o)'
<1> DEFINE n == Len(audit[o]) + 1
<1>1. /\ n \in Nat \ {0}
      /\ audit'[o][n] = event
      /\ StageEvents(o)' = StageEvents(o) \cup {n}
      /\ \A i \in StageEvents(o) : i \in 1..(n - 1)
  BY TrailPrefix, TrailTypes
<1> HIDE DEF n
<1>2. QED
  BY <1>1 DEF TrailEnds

\* A move, recorded as the code records it: from where the case stands.
LEMMA MoveReplays ==
  ASSUME TypeOK, NEW o \in Opening, Replays(o), NEW event \in AuditEvent,
         Record(o, event),
         event.action \in {"STAGE_ADVANCED", "STAGE_SENT_BACK"},
         event.old_value = current_stage[o],
         event.stage = current_stage[o],
         event.new_value = current_stage'[o],
         IF event.action = "STAGE_ADVANCED"
           THEN is_allowed(current_stage[o], current_stage'[o])
           ELSE /\ has_previous(current_stage[o])
                /\ current_stage'[o] = previous_stage(current_stage[o])
  PROVE  Replays(o)'
<1> DEFINE n == Len(audit[o]) + 1
           moves == StageEvents(o)
<1>1. /\ n \in Nat \ {0}
      /\ audit'[o][n] = event
      /\ moves' = moves \cup {n}
      /\ \A i \in moves : /\ i \in 1..(n - 1)
                         /\ audit'[o][i] = audit[o][i]
  BY TrailPrefix, TrailTypes
<1> HIDE DEF n
<1>2. TrailEnds(o)'
  BY MoveEndsTrail
<1>3. ASSUME NEW p \in Consecutive(o)'
      PROVE  audit'[o][p[2]].old_value = audit'[o][p[1]].new_value
  <2>1. /\ p[1] \in moves'
        /\ p[2] \in moves'
        /\ p[1] < p[2]
        /\ \A k \in moves' : k <= p[1] \/ p[2] <= k
    BY <1>3 DEF Consecutive
  <2>2. CASE p[2] = n
    <3>1. p[1] \in moves /\ \A k \in moves : k <= p[1]
      BY <1>1, <2>1, <2>2
    <3>2. audit[o][p[1]].new_value = current_stage[o]
      BY <3>1 DEF Replays, TrailEnds
    <3>3. QED
      BY <1>1, <2>2, <3>1, <3>2
  <2>3. CASE p[2] \in moves
    <3>1. p[1] \in moves
      BY <1>1, <2>1, <2>3
    <3>2. p \in Consecutive(o)
      BY <1>1, <1>3, <2>1, <2>3, <3>1 DEF Consecutive
    <3>3. QED
      BY <1>1, <2>3, <3>1, <3>2 DEF Replays
  <2>4. QED
    BY <1>1, <2>1, <2>2, <2>3
<1>4. ASSUME NEW i \in moves'
      PROVE  LET e == audit'[o][i]  from == e.old_value
             IN  /\ (\A j \in moves' : i <= j) => from = "REQUIREMENT"
                 /\ e.stage = from
                 /\ IF e.action = "STAGE_ADVANCED"
                      THEN is_allowed(from, e.new_value)
                      ELSE /\ has_previous(from)
                           /\ e.new_value = previous_stage(from)
  <2>1. CASE i = n
    <3>1. (\A j \in moves' : i <= j) => moves = {}
      BY <1>1, <2>1
    <3>2. moves = {} => current_stage[o] = "REQUIREMENT"
      BY DEF Replays, TrailEnds
    <3>3. QED
      BY <1>1, <2>1, <3>1, <3>2
  <2>2. CASE i \in moves
    BY <1>1, <2>2 DEF Replays
  <2>3. QED
    BY <1>1, <2>1, <2>2
<1>5. QED
  BY <1>2, <1>3, <1>4 DEF Replays

\* A case that a step does not record anything about.
LEMMA NothingRecorded ==
  ASSUME NEW o \in Opening, audit'[o] = audit[o],
         current_stage'[o] = current_stage[o]
  PROVE  /\ StageEvents(o)' = StageEvents(o)
         /\ Replays(o) => Replays(o)'
<1>1. StageEvents(o)' = StageEvents(o)
  BY DEF StageEvents
<1>2. QED
  BY <1>1, NoMoveReplays

\* A step that records an event that is no move, of whatever case, and moves
\* no case.
LEMMA TrailUntouched ==
  ASSUME TypeOK, TrailInv, NEW o \in Opening, NEW event \in AuditEvent,
         Record(o, event),
         event.action \notin {"STAGE_ADVANCED", "STAGE_SENT_BACK"},
         UNCHANGED <<created, current_stage>>
  PROVE  TrailInv'
<1>1. /\ StageEvents(o)' = StageEvents(o)
      /\ \A i \in StageEvents(o) : audit'[o][i] = audit[o][i]
  BY TrailPrefix, TrailTypes
<1>2. \A p \in Opening \ {o} : audit'[p] = audit[p]
  BY DEF TypeOK, Record
<1>3. created \subseteq Opening
  BY DEF TypeOK
<1>4. \A p \in Opening : /\ StageEvents(p)' = StageEvents(p)
                         /\ Replays(p) => Replays(p)'
  BY <1>1, <1>2, NoMoveReplays, NothingRecorded
<1>5. QED
  BY <1>3, <1>4 DEF TrailInv, AuditReplaysCase

\* create keeps TrailInv: a new case has no stage events.
LEMMA CreateTrail ==
  ASSUME TypeOK, TrailInv, NEW o \in Opening, NEW u \in User, create(o, u)
  PROVE  TrailInv'
<1> DEFINE event == Event("CASE_CREATED", "REQUIREMENT", u, None, None)
<1>1. event \in AuditEvent /\ event.action = "CASE_CREATED"
  BY Ends, EventType DEF AuditAction, Event
<1> HIDE DEF event
<1>2. /\ Record(o, event)
      /\ o \notin created
      /\ created' = created \cup {o}
      /\ created \subseteq Opening
      /\ current_stage'[o] = "REQUIREMENT"
      /\ \A p \in Opening \ {o} : /\ current_stage'[p] = current_stage[p]
                                 /\ audit'[p] = audit[p]
  BY DEF TypeOK, create, Record, event
<1>3. StageEvents(o)' = {}
  <2>1. StageEvents(o) = {}
    BY <1>2 DEF TrailInv
  <2>2. QED
    BY <1>1, <1>2, <2>1, TrailPrefix, TrailTypes
<1>4. Replays(o)'
  BY <1>2, <1>3 DEF Replays, TrailEnds, Consecutive
<1>5. AuditReplaysCase'
  <2> SUFFICES ASSUME NEW p \in created' PROVE Replays(p)'
    BY DEF AuditReplaysCase
  <2>1. CASE p = o
    BY <2>1, <1>4
  <2>2. CASE p # o
    <3>1. p \in created /\ p \in Opening \ {o}
      BY <2>2, <1>2
    <3>2. Replays(p)
      BY <3>1 DEF TrailInv, AuditReplaysCase
    <3>3. QED
      BY <3>1, <3>2, <1>2, NothingRecorded
  <2>3. QED
    BY <2>1, <2>2
<1>6. ASSUME NEW p \in Opening \ created' PROVE StageEvents(p)' = {}
  <2>1. p \in Opening \ created /\ p \in Opening \ {o}
    BY <1>2
  <2>2. StageEvents(p) = {}
    BY <2>1 DEF TrailInv
  <2>3. QED
    BY <2>1, <2>2, <1>2, NothingRecorded
<1>7. QED
  BY <1>5, <1>6 DEF TrailInv

\* transition and send_back.
LEMMA MoveTrail ==
  ASSUME TypeOK, TrailInv, NEW o \in created, NEW event \in AuditEvent,
         Record(o, event),
         event.action \in {"STAGE_ADVANCED", "STAGE_SENT_BACK"},
         event.old_value = current_stage[o],
         event.stage = current_stage[o],
         event.new_value = current_stage'[o],
         IF event.action = "STAGE_ADVANCED"
           THEN is_allowed(current_stage[o], current_stage'[o])
           ELSE /\ has_previous(current_stage[o])
                /\ current_stage'[o] = previous_stage(current_stage[o]),
         created' = created,
         \A p \in Opening \ {o} : current_stage'[p] = current_stage[p]
  PROVE  TrailInv'
<1>1. o \in Opening /\ created \subseteq Opening
  BY DEF TypeOK
<1>2. Replays(o)'
  BY <1>1, MoveReplays DEF TrailInv, AuditReplaysCase
<1>3. \A p \in Opening \ {o} : audit'[p] = audit[p]
  BY DEF TypeOK, Record
<1>4. AuditReplaysCase'
  <2> SUFFICES ASSUME NEW p \in created' PROVE Replays(p)'
    BY DEF AuditReplaysCase
  <2>1. CASE p = o
    BY <2>1, <1>2
  <2>2. CASE p # o
    <3>1. p \in created /\ p \in Opening \ {o}
      BY <2>2, <1>1
    <3>2. Replays(p)
      BY <3>1 DEF TrailInv, AuditReplaysCase
    <3>3. QED
      BY <3>1, <3>2, <1>3, NothingRecorded
  <2>3. QED
    BY <2>1, <2>2
<1>5. ASSUME NEW p \in Opening \ created' PROVE StageEvents(p)' = {}
  <2>1. p \in Opening \ created /\ p \in Opening \ {o}
    BY <1>1
  <2>2. StageEvents(p) = {}
    BY <2>1 DEF TrailInv
  <2>3. QED
    BY <2>1, <2>2, <1>3, NothingRecorded
<1>6. QED
  BY <1>4, <1>5 DEF TrailInv

\* transition keeps TrailInv.
LEMMA TransitionTrail ==
  ASSUME TypeOK, TrailInv, NEW o \in Opening, NEW target \in WorkflowStage,
         NEW u \in User, transition(o, target, u)
  PROVE  TrailInv'
<1>1. PICK current \in WorkflowStage : current = current_stage[o]
  BY DEF TypeOK
<1> DEFINE event == Event("STAGE_ADVANCED", current, u, current, target)
<1>2. /\ event \in AuditEvent
      /\ event.action = "STAGE_ADVANCED"
      /\ event.old_value = current /\ event.stage = current
      /\ event.new_value = target
  BY EventType DEF AuditAction, Event
<1> HIDE DEF event
<1>3. /\ o \in created
      /\ Record(o, event)
      /\ is_allowed(current, target)
      /\ current_stage'[o] = target
      /\ created' = created
      /\ \A p \in Opening \ {o} : current_stage'[p] = current_stage[p]
  BY <1>1 DEF TypeOK, transition, Advance, event
<1>4. QED
  BY <1>1, <1>2, <1>3, MoveTrail

\* send_back keeps TrailInv.
LEMMA SendBackTrail ==
  ASSUME TypeOK, TrailInv, NEW o \in Opening, NEW u \in User, send_back(o, u)
  PROVE  TrailInv'
<1>1. PICK current \in WorkflowStage : current = current_stage[o]
  BY DEF TypeOK
<1>2. PICK previous \in WorkflowStage : previous = previous_stage(current)
  BY <1>1, PreviousStage DEF send_back
<1> DEFINE event == Event("STAGE_SENT_BACK", current, u, current, previous)
<1>3. /\ event \in AuditEvent
      /\ event.action = "STAGE_SENT_BACK"
      /\ event.old_value = current /\ event.stage = current
      /\ event.new_value = previous
  BY EventType DEF AuditAction, Event
<1> HIDE DEF event
<1>4. /\ o \in created
      /\ Record(o, event)
      /\ has_previous(current)
      /\ current_stage'[o] = previous
      /\ created' = created
      /\ \A p \in Opening \ {o} : current_stage'[p] = current_stage[p]
  BY <1>1, <1>2 DEF TypeOK, send_back, SendBack, event
<1>5. QED
  BY <1>1, <1>2, <1>3, <1>4, MoveTrail

\* The audit trail replays the case, for trails of any length: its stage
\* events chain from REQUIREMENT to the current stage, each one a defined
\* transition or a step back.
THEOREM AuditAlwaysReplaysCase == Spec => []AuditReplaysCase
<1>1. Init => TrailInv
  BY DEF Init, TrailInv, AuditReplaysCase, StageEvents
<1>2. TypeOK /\ TrailInv /\ [Next]_vars => TrailInv'
  <2> SUFFICES ASSUME TypeOK, TrailInv, [Next]_vars PROVE TrailInv'
    OBVIOUS
  <2>1. ASSUME NEW o \in Opening, NEW u \in User, create(o, u)
        PROVE  TrailInv'
    BY <2>1, CreateTrail
  <2>2. ASSUME NEW o \in Opening, NEW u \in User, NEW target \in WorkflowStage,
               transition(o, target, u)
        PROVE  TrailInv'
    BY <2>2, TransitionTrail
  <2>3. ASSUME NEW o \in Opening, NEW u \in User, send_back(o, u)
        PROVE  TrailInv'
    BY <2>3, SendBackTrail
  <2>4. ASSUME NEW o \in Opening, NEW u \in User, NEW status \in CaseStatus,
               set_status(o, status, u)
        PROVE  TrailInv'
    <3> DEFINE event == Event("CASE_STATUS_CHANGED", current_stage[o], u,
                              case_status[o], status)
    <3>1. event \in AuditEvent /\ event.action = "CASE_STATUS_CHANGED"
      BY EventType DEF TypeOK, AuditAction, Event
    <3>2. Record(o, event) /\ UNCHANGED <<created, current_stage>>
      BY <2>4 DEF set_status
    <3>3. QED
      BY <3>1, <3>2, TrailUntouched
  <2>5. ASSUME NEW o \in Opening, NEW u \in User, NEW assignee \in User,
               assign(o, assignee, u)
        PROVE  TrailInv'
    <3> DEFINE event == Event("CASE_ASSIGNED", current_stage[o], u,
                              assigned_to[o], assignee)
    <3>1. event \in AuditEvent /\ event.action = "CASE_ASSIGNED"
      BY EventType DEF TypeOK, AuditAction, Event
    <3>2. Record(o, event) /\ UNCHANGED <<created, current_stage>>
      BY <2>5 DEF assign
    <3>3. QED
      BY <3>1, <3>2, TrailUntouched
  <2>6. ASSUME NEW o \in Opening, NEW u \in User, NEW i \in DOMAIN tasks[o],
               start_task(o, i, u)
        PROVE  TrailInv'
    BY <2>6, NothingRecorded
    DEF start_task, TrailInv, AuditReplaysCase, TypeOK
  <2>7. ASSUME NEW o \in Opening, NEW u \in User, NEW i \in DOMAIN tasks[o],
               complete_task(o, i, u)
        PROVE  TrailInv'
    <3> DEFINE event == Event("TASK_COMPLETED", tasks[o][i].stage, u, None,
                              tasks[o][i].task_type)
    <3>1. tasks[o][i] \in WorkflowTask
      BY <2>7 DEF TypeOK
    <3>2. event \in AuditEvent /\ event.action = "TASK_COMPLETED"
      BY <3>1, EventType DEF AuditAction, Event, WorkflowTask
    <3>3. Record(o, event) /\ UNCHANGED <<created, current_stage>>
      BY <2>7 DEF complete_task
    <3>4. QED
      BY <3>2, <3>3, TrailUntouched
  <2>8. CASE UNCHANGED vars
    BY <2>8, NothingRecorded DEF vars, TrailInv, AuditReplaysCase, TypeOK
  <2>9. QED
    BY <2>1, <2>2, <2>3, <2>4, <2>5, <2>6, <2>7, <2>8 DEF Next, Moves, DeskWork
<1>3. QED
  BY <1>1, <1>2, TypeCorrect, PTL DEF Spec, TrailInv

-----------------------------------------------------------------------------
(* The status of a case.  To be inductive the property needs to know that  *)
(* the status at a position of the trail is well defined, and that a case  *)
(* which does not exist yet has neither a trail nor a completion date.     *)

HasStatusAt(o, n) ==
  \E i \in StatusEvents(o, n) : \A j \in StatusEvents(o, n) : j <= i

\* AuditExplainsStatus, of one case.
StatusExplained(o) ==
  /\ HasStatusAt(o, Len(audit[o]))
  /\ case_status[o] = StatusAt(o, Len(audit[o]))
  /\ \A i \in EventsOf(o, "CASE_STATUS_CHANGED") :
       HasStatusAt(o, i - 1) /\ audit[o][i].old_value = StatusAt(o, i - 1)
  /\ completed_at[o] <=>
       \E i \in StatusEvents(o, Len(audit[o])) :
         audit[o][i].new_value = "COMPLETED"

StatusInv ==
  /\ \A o \in created : StatusExplained(o)
  /\ \A o \in Opening \ created :
       audit[o] = <<>> /\ tasks[o] = <<>> /\ ~completed_at[o]

\* Whether an event writes the status of its case, and what it makes of it.
WritesStatus(event) ==
  \/ event.action \in {"CASE_CREATED", "CASE_STATUS_CHANGED"}
  \/ event.action = "STAGE_ADVANCED" /\ event.new_value = "COMPLETED"

StatusWritten(event) ==
  IF event.action = "CASE_CREATED" THEN "ACTIVE" ELSE event.new_value

\* What the end of a trail says of the status, if it says anything.
LEMMA LastStatus ==
  ASSUME NEW o, NEW n, NEW i \in StatusEvents(o, n),
         \A j \in StatusEvents(o, n) : j <= i,
         audit[o] \in Seq(AuditEvent)
  PROVE  StatusAt(o, n) = StatusWritten(audit[o][i])
<1> DEFINE last == CHOOSE k \in StatusEvents(o, n) :
                     \A j \in StatusEvents(o, n) : j <= k
<1>1. last \in StatusEvents(o, n) /\ \A j \in StatusEvents(o, n) : j <= last
  OBVIOUS
<1>2. \A j \in StatusEvents(o, n) : j \in Nat
  BY DEF StatusEvents
<1>3. last = i
  BY <1>1, <1>2
<1>4. QED
  BY <1>3 DEF StatusAt, StatusWritten

\* What an event appended to a trail changes of it: nothing up to its end ...
LEMMA EarlierStatus ==
  ASSUME TypeOK, NEW o \in Opening, NEW event \in AuditEvent,
         Record(o, event),
         NEW n \in 0..Len(audit[o])
  PROVE  /\ StatusEvents(o, n)' = StatusEvents(o, n)
         /\ \A i \in StatusEvents(o, n) : audit'[o][i] = audit[o][i]
         /\ HasStatusAt(o, n)
              => HasStatusAt(o, n)' /\ StatusAt(o, n)' = StatusAt(o, n)
<1>1. /\ audit[o] \in Seq(AuditEvent)
      /\ audit'[o] = Append(audit[o], event)
      /\ audit'[o] \in Seq(AuditEvent)
  BY DEF TypeOK, Record
<1>2. /\ DOMAIN audit'[o] = 1..(Len(audit[o]) + 1)
      /\ DOMAIN audit[o] = 1..Len(audit[o])
      /\ \A i \in 1..Len(audit[o]) : audit'[o][i] = audit[o][i]
  BY <1>1
<1>3. /\ StatusEvents(o, n)' = StatusEvents(o, n)
      /\ \A i \in StatusEvents(o, n) : audit'[o][i] = audit[o][i]
  BY <1>2 DEF StatusEvents
<1>4. ASSUME HasStatusAt(o, n)
      PROVE  HasStatusAt(o, n)' /\ StatusAt(o, n)' = StatusAt(o, n)
  <2>1. PICK i \in StatusEvents(o, n) : \A j \in StatusEvents(o, n) : j <= i
    BY <1>4 DEF HasStatusAt
  <2>2. StatusAt(o, n) = StatusWritten(audit[o][i])
    BY <1>1, <2>1, LastStatus
  <2>3. i \in StatusEvents(o, n)' /\ \A j \in StatusEvents(o, n)' : j <= i
    BY <1>3, <2>1
  <2>4. StatusAt(o, n)' = StatusWritten(audit'[o][i])
    <3>1. (/\ i \in StatusEvents(o, n)
           /\ \A j \in StatusEvents(o, n) : j <= i
           /\ audit[o] \in Seq(AuditEvent)
           => StatusAt(o, n) = StatusWritten(audit[o][i]))'
      BY LastStatus, PTL
    <3>2. QED
      BY <1>1, <2>3, <3>1 DEF StatusWritten
  <2>5. QED
    BY <1>3, <2>1, <2>2, <2>3, <2>4 DEF HasStatusAt
<1>5. QED
  BY <1>3, <1>4

\* ... and at its end what the event writes, if it writes the status.
LEMMA NewStatus ==
  ASSUME TypeOK, NEW o \in Opening, NEW event \in AuditEvent,
         Record(o, event),
         NEW n \in Nat, n = Len(audit[o]) + 1
  PROVE  /\ Len(audit'[o]) = n
         /\ audit'[o][n] = event
         /\ StatusEvents(o, n)' =
              IF WritesStatus(event) THEN StatusEvents(o, n - 1) \cup {n}
                                     ELSE StatusEvents(o, n - 1)
         /\ \A i \in DOMAIN audit[o] : i <= n - 1 /\ audit'[o][i] = audit[o][i]
         /\ WritesStatus(event)
              => HasStatusAt(o, n)' /\ StatusAt(o, n)' = StatusWritten(event)
         /\ ~WritesStatus(event) /\ HasStatusAt(o, n - 1)
              => HasStatusAt(o, n)' /\ StatusAt(o, n)' = StatusAt(o, n - 1)
<1>1. /\ audit[o] \in Seq(AuditEvent)
      /\ audit'[o] = Append(audit[o], event)
      /\ audit'[o] \in Seq(AuditEvent)
  BY DEF TypeOK, Record
<1>2. /\ n \in Nat \ {0}
      /\ Len(audit'[o]) = n
      /\ audit'[o][n] = event
      /\ DOMAIN audit'[o] = 1..n
      /\ DOMAIN audit[o] = 1..(n - 1)
      /\ \A i \in 1..(n - 1) : audit'[o][i] = audit[o][i]
  BY <1>1
<1>3. StatusEvents(o, n)' =
        IF WritesStatus(event) THEN StatusEvents(o, n - 1) \cup {n}
                               ELSE StatusEvents(o, n - 1)
  <2>1. n \in StatusEvents(o, n)' <=> WritesStatus(event)
    BY <1>2 DEF StatusEvents, WritesStatus
  <2>2. \A i \in 1..(n - 1) :
          i \in StatusEvents(o, n)' <=> i \in StatusEvents(o, n - 1)
    BY <1>2 DEF StatusEvents
  <2>3. /\ StatusEvents(o, n)' \subseteq 1..n
        /\ StatusEvents(o, n - 1) \subseteq 1..(n - 1)
    BY <1>2 DEF StatusEvents
  <2>4. \A i \in StatusEvents(o, n)' : i = n \/ i \in 1..(n - 1)
    BY <1>2, <2>3
  <2>5. n \notin StatusEvents(o, n - 1)
    BY <1>2, <2>3
  <2>6. CASE WritesStatus(event)
    BY <2>1, <2>2, <2>3, <2>4, <2>6
  <2>7. CASE ~WritesStatus(event)
    BY <2>1, <2>2, <2>3, <2>4, <2>5, <2>7
  <2>8. QED
    BY <2>6, <2>7
<1>4. \A i \in StatusEvents(o, n - 1) :
        i \in 1..(n - 1) /\ audit'[o][i] = audit[o][i]
  BY <1>2 DEF StatusEvents
<1>5. ASSUME NEW i \in StatusEvents(o, n)',
             \A j \in StatusEvents(o, n)' : j <= i
      PROVE  HasStatusAt(o, n)' /\ StatusAt(o, n)' = StatusWritten(audit'[o][i])
  <2>1. (/\ i \in StatusEvents(o, n)
         /\ \A j \in StatusEvents(o, n) : j <= i
         /\ audit[o] \in Seq(AuditEvent)
         => StatusAt(o, n) = StatusWritten(audit[o][i]))'
    BY LastStatus, PTL
  <2>2. QED
    BY <1>1, <1>5, <2>1 DEF HasStatusAt, StatusWritten
<1>6. CASE WritesStatus(event)
  <2>1. n \in StatusEvents(o, n)' /\ \A j \in StatusEvents(o, n)' : j <= n
    BY <1>2, <1>3, <1>4, <1>6
  <2>2. HasStatusAt(o, n)' /\ StatusAt(o, n)' = StatusWritten(audit'[o][n])
    BY <1>5, <2>1
  <2>3. QED
    BY <1>2, <1>3, <1>6, <2>2
<1>7. CASE ~WritesStatus(event)
  <2>1. ASSUME HasStatusAt(o, n - 1)
        PROVE  HasStatusAt(o, n)' /\ StatusAt(o, n)' = StatusAt(o, n - 1)
    <3>1. PICK i \in StatusEvents(o, n - 1) :
            \A j \in StatusEvents(o, n - 1) : j <= i
      BY <2>1 DEF HasStatusAt
    <3>2. StatusAt(o, n - 1) = StatusWritten(audit[o][i])
      BY <1>1, <3>1, LastStatus
    <3>3. HasStatusAt(o, n)' /\ StatusAt(o, n)' = StatusWritten(audit'[o][i])
      BY <1>3, <1>5, <1>7, <3>1
    <3>4. QED
      BY <1>4, <3>1, <3>2, <3>3
  <2>2. QED
    BY <1>2, <1>3, <1>7, <2>1
<1>8. QED
  BY <1>6, <1>7

\* A case that a step records nothing about and leaves as it is.
LEMMA StatusUntouched ==
  ASSUME NEW o, audit'[o] = audit[o], case_status'[o] = case_status[o],
         completed_at'[o] = completed_at[o], StatusExplained(o)
  PROVE  StatusExplained(o)'
<1>1. \A n : /\ StatusEvents(o, n)' = StatusEvents(o, n)
             /\ StatusAt(o, n)' = StatusAt(o, n)
             /\ HasStatusAt(o, n)' = HasStatusAt(o, n)
  BY DEF StatusEvents, StatusAt, HasStatusAt
<1>2. EventsOf(o, "CASE_STATUS_CHANGED")' = EventsOf(o, "CASE_STATUS_CHANGED")
  BY DEF EventsOf
<1>3. QED
  BY <1>1, <1>2 DEF StatusExplained

\* A case that exists and that something is recorded about: an event that
\* writes the status says what it writes, and what was there before.
LEMMA StatusRecorded ==
  ASSUME TypeOK, NEW o \in Opening, StatusExplained(o),
         NEW event \in AuditEvent, Record(o, event),
         event.action # "CASE_CREATED",
         event.action = "CASE_STATUS_CHANGED" => event.old_value = case_status[o],
         IF WritesStatus(event)
           THEN /\ case_status'[o] = event.new_value
                /\ completed_at'[o]
                     <=> completed_at[o] \/ event.new_value = "COMPLETED"
           ELSE /\ case_status'[o] = case_status[o]
                /\ completed_at'[o] <=> completed_at[o]
  PROVE  StatusExplained(o)'
<1>1. PICK n \in Nat : n = Len(audit[o]) + 1
  BY DEF TypeOK
<1>2. /\ Len(audit'[o]) = n
      /\ audit'[o][n] = event
      /\ StatusEvents(o, n)' =
           IF WritesStatus(event) THEN StatusEvents(o, n - 1) \cup {n}
                                  ELSE StatusEvents(o, n - 1)
      /\ \A i \in DOMAIN audit[o] : i <= n - 1 /\ audit'[o][i] = audit[o][i]
      /\ WritesStatus(event)
           => HasStatusAt(o, n)' /\ StatusAt(o, n)' = StatusWritten(event)
      /\ ~WritesStatus(event) /\ HasStatusAt(o, n - 1)
           => HasStatusAt(o, n)' /\ StatusAt(o, n)' = StatusAt(o, n - 1)
  BY <1>1, NewStatus
<1>3. /\ HasStatusAt(o, n - 1)
      /\ case_status[o] = StatusAt(o, n - 1)
      /\ completed_at[o] <=> \E i \in StatusEvents(o, n - 1) :
                               audit[o][i].new_value = "COMPLETED"
  <2>1. n - 1 = Len(audit[o])
    BY <1>1 DEF TypeOK
  <2>2. QED
    BY <2>1 DEF StatusExplained
<1>4. /\ audit[o] \in Seq(AuditEvent)
      /\ n - 1 = Len(audit[o]) /\ n - 1 \in Nat
      /\ DOMAIN audit[o] = 1..(n - 1)
      /\ audit'[o] = Append(audit[o], event)
      /\ DOMAIN audit'[o] = 1..n
  BY <1>1 DEF TypeOK, Record
<1>5. StatusWritten(event) = event.new_value
  BY DEF StatusWritten
<1>6. HasStatusAt(o, n)' /\ case_status'[o] = StatusAt(o, n)'
  BY <1>2, <1>3, <1>5
<1>7. ASSUME NEW i \in EventsOf(o, "CASE_STATUS_CHANGED")'
      PROVE  /\ HasStatusAt(o, i - 1)'
             /\ audit'[o][i].old_value = StatusAt(o, i - 1)'
  <2>1. i \in 1..n /\ audit'[o][i].action = "CASE_STATUS_CHANGED"
    BY <1>4 DEF EventsOf
  <2>2. i - 1 \in 0..Len(audit[o])
    BY <1>4, <2>1
  <2>3. HasStatusAt(o, i - 1)
          => /\ HasStatusAt(o, i - 1)'
             /\ StatusAt(o, i - 1)' = StatusAt(o, i - 1)
    BY <2>2, EarlierStatus
  <2>4. CASE i = n
    BY <1>2, <1>3, <2>1, <2>3, <2>4
  <2>5. CASE i # n
    <3>1. i \in DOMAIN audit[o] /\ audit'[o][i] = audit[o][i]
      BY <1>2, <1>4, <2>1, <2>5
    <3>2. i \in EventsOf(o, "CASE_STATUS_CHANGED")
      BY <2>1, <3>1 DEF EventsOf
    <3>3. QED
      BY <2>3, <3>1, <3>2 DEF StatusExplained
  <2>6. QED
    BY <2>4, <2>5
<1>8. completed_at'[o] <=> \E i \in StatusEvents(o, n)' :
                             audit'[o][i].new_value = "COMPLETED"
  <2>1. \A i \in StatusEvents(o, n - 1) : audit'[o][i] = audit[o][i]
    BY <1>2 DEF StatusEvents
  <2>2. CASE WritesStatus(event)
    BY <1>2, <1>3, <2>1, <2>2
  <2>3. CASE ~WritesStatus(event)
    BY <1>2, <1>3, <2>1, <2>3
  <2>4. QED
    BY <2>2, <2>3
<1>9. QED
  BY <1>2, <1>6, <1>7, <1>8 DEF StatusExplained

\* Only case o is touched, and StatusRecorded covers it.
LEMMA StatusStep ==
  ASSUME TypeOK, StatusInv, NEW o \in created, created' = created,
         \A p \in Opening \ {o} : /\ audit'[p] = audit[p]
                                 /\ case_status'[p] = case_status[p]
                                 /\ completed_at'[p] = completed_at[p]
                                 /\ tasks'[p] = tasks[p],
         StatusExplained(o)'
  PROVE  StatusInv'
<1>1. \A p \in created \ {o} : StatusExplained(p)'
  BY StatusUntouched DEF StatusInv, TypeOK
<1>2. QED
  BY <1>1 DEF StatusInv

\* create: a new case is ACTIVE, with nothing to explain.
LEMMA CreateStatus ==
  ASSUME TypeOK, StatusInv, NEW o \in Opening, NEW u \in User, create(o, u)
  PROVE  StatusInv'
<1> DEFINE event == Event("CASE_CREATED", "REQUIREMENT", u, None, None)
<1>1. /\ event \in AuditEvent
      /\ event.action = "CASE_CREATED" /\ event.new_value = None
  BY Ends, EventType DEF AuditAction, Event
<1>2. Record(o, event)
  BY DEF create
<1> HIDE DEF event
<1>3. /\ o \notin created /\ created' = created \cup {o}
      /\ audit[o] = <<>> /\ completed_at'[o] = FALSE
      /\ case_status'[o] = "ACTIVE"
      /\ \A p \in Opening \ {o} : /\ audit'[p] = audit[p]
                                 /\ case_status'[p] = case_status[p]
                                 /\ completed_at'[p] = completed_at[p]
                                 /\ tasks'[p] = tasks[p]
  BY DEF TypeOK, StatusInv, create, Record
<1>4. 1 = Len(audit[o]) + 1 /\ DOMAIN audit[o] = {}
  BY <1>3
<1>5. WritesStatus(event) /\ StatusWritten(event) = "ACTIVE"
  BY <1>1 DEF WritesStatus, StatusWritten
<1>6. /\ Len(audit'[o]) = 1
      /\ audit'[o][1] = event
      /\ StatusEvents(o, 1)' = StatusEvents(o, 1 - 1) \cup {1}
      /\ HasStatusAt(o, 1)' /\ StatusAt(o, 1)' = "ACTIVE"
  BY <1>1, <1>2, <1>4, <1>5, NewStatus
<1>7. StatusEvents(o, 1)' = {1}
  BY <1>4, <1>6 DEF StatusEvents
<1>8. EventsOf(o, "CASE_STATUS_CHANGED")' = {}
  <2>1. audit'[o] \in Seq(AuditEvent)
    BY <1>1, <1>2, RecordType, TrailTypes
  <2>2. DOMAIN audit'[o] = 1..1
    BY <1>6, <2>1
  <2>3. QED
    BY <1>1, <1>6, <2>2 DEF EventsOf
<1>9. None # "COMPLETED"
  BY Ends, WorkflowConstants
<1>10. StatusExplained(o)'
  BY <1>1, <1>3, <1>6, <1>7, <1>8, <1>9 DEF StatusExplained
<1>11. \A p \in created : StatusExplained(p)'
  BY <1>3, StatusUntouched DEF StatusInv, TypeOK
<1>12. QED
  BY <1>3, <1>10, <1>11 DEF StatusInv

\* transition closes a case with the event that explains it.
LEMMA TransitionStatus ==
  ASSUME TypeOK, StatusInv, NEW o \in Opening, NEW target \in WorkflowStage,
         NEW u \in User, transition(o, target, u)
  PROVE  StatusInv'
<1>1. PICK current \in WorkflowStage : current = current_stage[o]
  BY DEF TypeOK
<1> DEFINE event == Event("STAGE_ADVANCED", current, u, current, target)
<1>2. /\ event \in AuditEvent
      /\ event.action = "STAGE_ADVANCED" /\ event.new_value = target
  BY EventType DEF AuditAction, Event
<1> HIDE DEF event
<1>3. /\ o \in created /\ created' = created
      /\ Record(o, event)
      /\ IF target = "COMPLETED"
           THEN case_status'[o] = target /\ completed_at'[o] = TRUE
           ELSE /\ case_status'[o] = case_status[o]
                /\ completed_at'[o] = completed_at[o]
      /\ \A p \in Opening \ {o} : /\ audit'[p] = audit[p]
                                 /\ case_status'[p] = case_status[p]
                                 /\ completed_at'[p] = completed_at[p]
                                 /\ tasks'[p] = tasks[p]
  BY <1>1 DEF TypeOK, transition, Advance, Record, event
<1>4. WritesStatus(event) <=> target = "COMPLETED"
  BY <1>2 DEF WritesStatus
<1>5. StatusExplained(o)'
  BY <1>2, <1>3, <1>4, StatusRecorded DEF StatusInv
<1>6. QED
  BY <1>3, <1>5, StatusStep

\* send_back leaves status and timestamp and adds an event of another kind.
LEMMA SendBackStatus ==
  ASSUME TypeOK, StatusInv, NEW o \in Opening, NEW u \in User, send_back(o, u)
  PROVE  StatusInv'
<1>1. PICK current \in WorkflowStage : current = current_stage[o]
  BY DEF TypeOK
<1>2. PICK previous \in WorkflowStage : previous = previous_stage(current)
  BY <1>1, PreviousStage DEF send_back
<1> DEFINE event == Event("STAGE_SENT_BACK", current, u, current, previous)
<1>3. event \in AuditEvent /\ event.action = "STAGE_SENT_BACK"
  BY EventType DEF AuditAction, Event
<1> HIDE DEF event
<1>4. /\ o \in created /\ created' = created
      /\ Record(o, event)
      /\ UNCHANGED <<case_status, completed_at>>
      /\ \A p \in Opening \ {o} : /\ audit'[p] = audit[p]
                                  /\ tasks'[p] = tasks[p]
  BY <1>1, <1>2 DEF TypeOK, send_back, SendBack, Record, event
<1>5. StatusExplained(o)'
  BY <1>3, <1>4, StatusRecorded DEF StatusInv, WritesStatus
<1>6. QED
  BY <1>4, <1>5, StatusStep

\* The audit trail explains the status of every case: whatever moves and
\* explicit changes come in whatever order, the status is what the last event
\* that wrote it says, every change recorded what it replaced, and the
\* completion date is set exactly if some event completed the case.
THEOREM AuditAlwaysExplainsStatus == Spec => []AuditExplainsStatus
<1>1. Init => StatusInv
  BY DEF Init, StatusInv
<1>2. TypeOK /\ StatusInv /\ [Next]_vars => StatusInv'
  <2> SUFFICES ASSUME TypeOK, StatusInv, [Next]_vars PROVE StatusInv'
    OBVIOUS
  <2>1. ASSUME NEW o \in Opening, NEW u \in User, create(o, u)
        PROVE  StatusInv'
    BY <2>1, CreateStatus
  <2>2. ASSUME NEW o \in Opening, NEW u \in User, NEW target \in WorkflowStage,
               transition(o, target, u)
        PROVE  StatusInv'
    BY <2>2, TransitionStatus
  <2>3. ASSUME NEW o \in Opening, NEW u \in User, send_back(o, u)
        PROVE  StatusInv'
    BY <2>3, SendBackStatus
  <2>4. ASSUME NEW o \in Opening, NEW u \in User, NEW status \in CaseStatus,
               set_status(o, status, u)
        PROVE  StatusInv'
    <3> DEFINE event == Event("CASE_STATUS_CHANGED", current_stage[o], u,
                              case_status[o], status)
    <3>1. /\ event \in AuditEvent /\ event.action = "CASE_STATUS_CHANGED"
          /\ event.old_value = case_status[o] /\ event.new_value = status
      BY EventType DEF TypeOK, AuditAction, Event
    <3>2. Record(o, event)
      BY <2>4 DEF set_status
    <3> HIDE DEF event
    <3>3. /\ o \in created /\ created' = created
          /\ case_status'[o] = status
          /\ completed_at'[o] <=> completed_at[o] \/ status = "COMPLETED"
          /\ \A p \in Opening \ {o} : /\ audit'[p] = audit[p]
                                     /\ case_status'[p] = case_status[p]
                                     /\ completed_at'[p] = completed_at[p]
                                     /\ tasks'[p] = tasks[p]
      BY <2>4 DEF TypeOK, set_status, Record
    <3>4. StatusExplained(o)'
      BY <3>1, <3>2, <3>3, StatusRecorded DEF StatusInv, WritesStatus
    <3>5. QED
      BY <3>3, <3>4, StatusStep
  <2>5. ASSUME NEW o \in Opening, NEW u \in User, NEW assignee \in User,
               assign(o, assignee, u)
        PROVE  StatusInv'
    <3> DEFINE event == Event("CASE_ASSIGNED", current_stage[o], u,
                              assigned_to[o], assignee)
    <3>1. event \in AuditEvent /\ event.action = "CASE_ASSIGNED"
      BY EventType DEF TypeOK, AuditAction, Event
    <3>2. Record(o, event)
      BY <2>5 DEF assign
    <3> HIDE DEF event
    <3>3. /\ o \in created
          /\ UNCHANGED <<created, case_status, completed_at>>
          /\ \A p \in Opening \ {o} : /\ audit'[p] = audit[p]
                                      /\ tasks'[p] = tasks[p]
      BY <2>5 DEF TypeOK, assign, Record
    <3>4. StatusExplained(o)'
      BY <3>1, <3>2, <3>3, StatusRecorded DEF StatusInv, WritesStatus
    <3>5. QED
      BY <3>3, <3>4, StatusStep
  <2>6. ASSUME NEW o \in Opening, NEW u \in User, NEW i \in DOMAIN tasks[o],
               start_task(o, i, u)
        PROVE  StatusInv'
    <3>1. o \in created
      BY <2>6 DEF StatusInv
    <3>2. \A p \in Opening \ {o} : tasks'[p] = tasks[p]
      BY <2>6 DEF TypeOK, start_task
    <3>3. QED
      BY <2>6, <3>1, <3>2, StatusUntouched DEF start_task, StatusInv
  <2>7. ASSUME NEW o \in Opening, NEW u \in User, NEW i \in DOMAIN tasks[o],
               complete_task(o, i, u)
        PROVE  StatusInv'
    <3> DEFINE event == Event("TASK_COMPLETED", tasks[o][i].stage, u, None,
                              tasks[o][i].task_type)
    <3>1. tasks[o][i] \in WorkflowTask
      BY <2>7 DEF TypeOK
    <3>2. event \in AuditEvent /\ event.action = "TASK_COMPLETED"
      BY <3>1, EventType DEF AuditAction, Event, WorkflowTask
    <3>3. Record(o, event)
      BY <2>7 DEF complete_task
    <3> HIDE DEF event
    <3>4. /\ o \in created
          /\ UNCHANGED <<created, case_status, completed_at>>
          /\ \A p \in Opening \ {o} : /\ audit'[p] = audit[p]
                                      /\ tasks'[p] = tasks[p]
      BY <2>7 DEF TypeOK, StatusInv, complete_task, Record
    <3>5. StatusExplained(o)'
      BY <3>2, <3>3, <3>4, StatusRecorded DEF StatusInv, WritesStatus
    <3>6. QED
      BY <3>4, <3>5, StatusStep
  <2>8. CASE UNCHANGED vars
    BY <2>8, StatusUntouched DEF vars, StatusInv
  <2>9. QED
    BY <2>1, <2>2, <2>3, <2>4, <2>5, <2>6, <2>7, <2>8 DEF Next, Moves, DeskWork
<1>3. StatusInv => AuditExplainsStatus
  BY DEF StatusInv, StatusExplained, AuditExplainsStatus
<1>4. QED
  BY <1>1, <1>2, <1>3, TypeCorrect, PTL DEF Spec

-----------------------------------------------------------------------------
(* Completed tasks.  No step touches a task but those of its assignee, and *)
(* no step takes an event from the trail.                                  *)

\* CompletedTasksAudited, of one task.
TaskAudited(o, task) ==
  task.status = "COMPLETED" \/ task.completed_by # None
    => /\ task.completed_by = task.assigned_to
       /\ \E k \in EventsOf(o, "TASK_COMPLETED") :
            /\ audit[o][k].user_id = task.assigned_to
            /\ audit[o][k].stage = task.stage
            /\ audit[o][k].new_value = task.task_type

TasksInv == \A o \in Opening : \A i \in DOMAIN tasks[o] :
              TaskAudited(o, tasks[o][i])

\* A completion on record stays on record.
LEMMA AuditedStays ==
  ASSUME TrailKept, NEW o \in Opening, NEW task, TaskAudited(o, task)
  PROVE  TaskAudited(o, task)'
<1>1. \A k \in EventsOf(o, "TASK_COMPLETED") :
        /\ k \in EventsOf(o, "TASK_COMPLETED")'
        /\ audit'[o][k] = audit[o][k]
  BY DEF TrailKept, EventsOf
<1>2. QED
  BY <1>1 DEF TaskAudited

\* A new task is not completed.
LEMMA NewTasksAudited ==
  ASSUME NEW stage \in WorkflowStage, NEW u \in User, NEW o,
         NEW i \in DOMAIN NewTasks(stage, u)
  PROVE  TaskAudited(o, NewTasks(stage, u)[i])
BY DEF NewTasks, TaskAudited

\* A step that adds the tasks of a stage to one case, or none at all.
LEMMA TasksAdded ==
  ASSUME TypeOK, TasksInv, TrailKept, NEW o \in Opening, NEW u \in User,
         NEW stage \in WorkflowStage,
         tasks' = [tasks EXCEPT ![o] = @ \o NewTasks(stage, u)]
  PROVE  TasksInv'
<1> SUFFICES ASSUME NEW p \in Opening, NEW i \in DOMAIN tasks'[p],
                    NEW task, task = tasks'[p][i]
             PROVE  TaskAudited(p, task)'
  BY DEF TasksInv, TaskAudited
<1> DEFINE new == NewTasks(stage, u)
<1>1. new \in Seq(WorkflowTask) /\ tasks[p] \in Seq(WorkflowTask)
  BY NewTasksType DEF TypeOK
<1>2. \/ i \in DOMAIN tasks[p] /\ tasks'[p][i] = tasks[p][i]
      \/ \E j \in DOMAIN new : tasks'[p][i] = new[j]
  <2>1. CASE p = o
    <3>1. tasks'[p] = tasks[p] \o new
      BY <2>1 DEF TypeOK
    <3> HIDE DEF new
    <3>2. /\ i \in 1..(Len(tasks[p]) + Len(new))
          /\ tasks'[p][i] = IF i <= Len(tasks[p]) THEN tasks[p][i]
                                                  ELSE new[i - Len(tasks[p])]
      BY <1>1, <3>1, ConcatProperties
    <3>3. CASE i <= Len(tasks[p])
      BY <1>1, <3>2, <3>3
    <3>4. CASE ~(i <= Len(tasks[p]))
      <4>1. i - Len(tasks[p]) \in DOMAIN new
        BY <1>1, <3>2, <3>4
      <4>2. QED
        BY <3>2, <3>4, <4>1
    <3>5. QED
      BY <3>3, <3>4
  <2>2. CASE p # o
    BY <2>2 DEF TypeOK
  <2>3. QED
    BY <2>1, <2>2
<1>3. TaskAudited(p, task)
  <2>1. CASE i \in DOMAIN tasks[p] /\ tasks'[p][i] = tasks[p][i]
    BY <2>1 DEF TasksInv
  <2>2. ASSUME NEW j \in DOMAIN new, tasks'[p][i] = new[j]
        PROVE  TaskAudited(p, task)
    BY <2>2, NewTasksAudited
  <2>3. QED
    BY <1>2, <2>1, <2>2
<1>4. QED
  BY <1>3, AuditedStays

\* A step that leaves the tasks alone.
LEMMA TasksUntouched ==
  ASSUME TasksInv, TrailKept, tasks' = tasks
  PROVE  TasksInv'
<1> SUFFICES ASSUME NEW o \in Opening, NEW i \in DOMAIN tasks[o],
                    NEW task, task = tasks[o][i]
             PROVE  TaskAudited(o, task)'
  BY DEF TasksInv, TaskAudited
<1>1. TaskAudited(o, task)
  BY DEF TasksInv
<1>2. QED
  BY <1>1, AuditedStays

\* A step on one task, after which that task is audited.
LEMMA TaskTouched ==
  ASSUME TypeOK, TasksInv, TrailKept, NEW o \in Opening,
         NEW i \in DOMAIN tasks[o], NEW after,
         tasks' = [tasks EXCEPT ![o][i] = after],
         TaskAudited(o, after)'
  PROVE  TasksInv'
<1> SUFFICES ASSUME NEW p \in Opening, NEW j \in DOMAIN tasks'[p],
                    NEW task, task = tasks'[p][j]
             PROVE  TaskAudited(p, task)'
  BY DEF TasksInv, TaskAudited
<1>1. CASE p = o /\ j = i
  <2>1. task = after
    BY <1>1 DEF TypeOK
  <2>2. QED
    BY <1>1, <2>1
<1>2. CASE ~(p = o /\ j = i)
  <2>1. j \in DOMAIN tasks[p] /\ task = tasks[p][j]
    BY <1>2 DEF TypeOK
  <2>2. TaskAudited(p, task)
    BY <2>1 DEF TasksInv
  <2>3. QED
    BY <2>2, AuditedStays
<1>3. QED
  BY <1>1, <1>2

\* start_task completes nothing.
LEMMA StartAudited ==
  ASSUME TypeOK, TasksInv, NEW o \in Opening, NEW u \in User,
         NEW i \in DOMAIN tasks[o], start_task(o, i, u)
  PROVE  TasksInv'
<1>1. TrailKept
  BY DEF start_task, TrailKept
<1>2. PICK task \in WorkflowTask : task = tasks[o][i]
  BY DEF TypeOK
<1> DEFINE after == [task EXCEPT !.status = "IN_PROGRESS"]
<1>3. tasks' = [tasks EXCEPT ![o][i] = after]
  BY <1>2 DEF start_task
<1>4. TaskAudited(o, after)
  <2>1. TaskAudited(o, task)
    BY <1>2 DEF TasksInv
  <2>2. QED
    BY <2>1 DEF TaskAudited, WorkflowTask
<1> HIDE DEF after
<1>5. TaskAudited(o, after)'
  BY <1>1, <1>4, AuditedStays
<1>6. QED
  BY <1>1, <1>3, <1>5, TaskTouched

\* complete_task records the completion it writes.
LEMMA CompleteAudited ==
  ASSUME TypeOK, TasksInv, NEW o \in Opening, NEW u \in User,
         NEW i \in DOMAIN tasks[o], complete_task(o, i, u)
  PROVE  TasksInv'
<1>1. PICK task \in WorkflowTask : task = tasks[o][i]
  BY DEF TypeOK
<1> DEFINE event == Event("TASK_COMPLETED", task.stage, u, None,
                          task.task_type)
           after == [task EXCEPT !.status = "COMPLETED", !.completed_by = u]
<1>2. /\ event \in AuditEvent /\ event.action = "TASK_COMPLETED"
      /\ event.user_id = u /\ event.stage = task.stage
      /\ event.new_value = task.task_type
  BY EventType DEF AuditAction, Event, WorkflowTask
<1>3. Record(o, event) /\ task.assigned_to = u
  BY <1>1 DEF complete_task
<1> HIDE DEF event
<1>4. PICK n : n \in DOMAIN audit'[o] /\ audit'[o][n] = event
  BY <1>2, <1>3, RecordKeepsTrail, TrailTypes
<1>5. TrailKept
  BY <1>2, <1>3, RecordKeepsTrail, TrailTypes
<1>6. n \in EventsOf(o, "TASK_COMPLETED")'
  BY <1>2, <1>4 DEF EventsOf
<1>7. tasks' = [tasks EXCEPT ![o][i] = after]
  BY <1>1 DEF complete_task
<1>8. /\ after.completed_by = u /\ after.assigned_to = u
      /\ after.stage = task.stage /\ after.task_type = task.task_type
  BY <1>3 DEF WorkflowTask
<1> HIDE DEF after
<1>9. TaskAudited(o, after)'
  BY <1>2, <1>4, <1>6, <1>8 DEF TaskAudited
<1>10. QED
  BY <1>5, <1>7, <1>9, TaskTouched

\* A completed task names the user it was assigned to, and the trail has that
\* user's completion of a task of its stage and type: no step forges a
\* completion, however often a task is started and completed again.
THEOREM CompletedTasksAlwaysAudited == Spec => []CompletedTasksAudited
<1>1. Init => TasksInv
  BY DEF Init, TasksInv
<1>2. TypeOK /\ TasksInv /\ [Next]_vars => TasksInv'
  <2> SUFFICES ASSUME TypeOK, TasksInv, [Next]_vars PROVE TasksInv'
    OBVIOUS
  <2>1. ASSUME NEW o \in Opening, NEW u \in User, create(o, u)
        PROVE  TasksInv'
    <3>1. TrailKept
      BY <2>1, Ends, EventType, RecordKeepsTrail, TrailTypes DEF create, AuditAction
    <3>2. QED
      BY <2>1, <3>1, TasksUntouched DEF create
  <2>2. ASSUME NEW o \in Opening, NEW u \in User, NEW target \in WorkflowStage,
               transition(o, target, u)
        PROVE  TasksInv'
    <3>1. current_stage[o] \in WorkflowStage
      BY DEF TypeOK
    <3>2. TrailKept
      BY <2>2, <3>1, EventType, RecordKeepsTrail, TrailTypes
      DEF transition, Advance, AuditAction
    <3>3. tasks' = [tasks EXCEPT ![o] = @ \o NewTasks(target, u)]
      BY <2>2 DEF transition, Advance
    <3>4. QED
      BY <3>2, <3>3, TasksAdded
  <2>3. ASSUME NEW o \in Opening, NEW u \in User, send_back(o, u)
        PROVE  TasksInv'
    <3>1. current_stage[o] \in WorkflowStage
      BY DEF TypeOK
    <3>2. PICK previous \in WorkflowStage :
            previous = previous_stage(current_stage[o])
      BY <2>3, <3>1, PreviousStage DEF send_back
    <3>3. TrailKept
      BY <2>3, <3>1, <3>2, EventType, RecordKeepsTrail, TrailTypes
      DEF send_back, SendBack, AuditAction
    <3>4. tasks' = [tasks EXCEPT ![o] = @ \o NewTasks(previous, u)]
      BY <2>3, <3>2 DEF send_back, SendBack
    <3>5. QED
      BY <3>3, <3>4, TasksAdded
  <2>4. ASSUME NEW o \in Opening, NEW u \in User, NEW status \in CaseStatus,
               set_status(o, status, u)
        PROVE  TasksInv'
    <3>1. TrailKept
      BY <2>4, EventType, RecordKeepsTrail, TrailTypes DEF TypeOK, set_status, AuditAction
    <3>2. QED
      BY <2>4, <3>1, TasksUntouched DEF set_status
  <2>5. ASSUME NEW o \in Opening, NEW u \in User, NEW assignee \in User,
               assign(o, assignee, u)
        PROVE  TasksInv'
    <3>1. TrailKept
      BY <2>5, EventType, RecordKeepsTrail, TrailTypes DEF TypeOK, assign, AuditAction
    <3>2. QED
      BY <2>5, <3>1, TasksUntouched DEF assign
  <2>6. ASSUME NEW o \in Opening, NEW u \in User, NEW i \in DOMAIN tasks[o],
               start_task(o, i, u)
        PROVE  TasksInv'
    BY <2>6, StartAudited
  <2>7. ASSUME NEW o \in Opening, NEW u \in User, NEW i \in DOMAIN tasks[o],
               complete_task(o, i, u)
        PROVE  TasksInv'
    BY <2>7, CompleteAudited
  <2>8. CASE UNCHANGED vars
    BY <2>8, TasksUntouched DEF vars, TrailKept
  <2>9. QED
    BY <2>1, <2>2, <2>3, <2>4, <2>5, <2>6, <2>7, <2>8 DEF Next, Moves, DeskWork
<1>3. TypeOK /\ TasksInv => CompletedTasksAudited
  BY DEF TypeOK, TasksInv, TaskAudited, CompletedTasksAudited
<1>4. QED
  BY <1>1, <1>2, <1>3, TypeCorrect, PTL DEF Spec

-----------------------------------------------------------------------------
(* The tasks of a case are counted against the entries of its trail, also  *)
(* for a case that does not exist yet: both are none.                      *)

TasksOf(o, s) == {i \in DOMAIN tasks[o] : tasks[o][i].stage = s}

EntriesInto(o, s) == {i \in StageEvents(o) : audit[o][i].new_value = s}

TasksCounted(o) ==
  \A s \in WorkflowStage :
    Cardinality(TasksOf(o, s))
      = Len(TASK_TEMPLATES[s]) * Cardinality(EntriesInto(o, s))

CountInv == \A o \in Opening : TasksCounted(o)

\* A stage has at most two templates.
LEMMA TemplateLengths ==
  \A s \in WorkflowStage : Len(TASK_TEMPLATES[s]) \in 0..2
<1>1. \A i \in 1..15 : Len(TASK_TEMPLATES[SEQUENCE[i]]) \in 0..2
  BY DEF TASK_TEMPLATES, SEQUENCE
<1>2. QED
  BY <1>1 DEF WorkflowStage

\* Both sets are finite.
LEMMA EntriesFinite ==
  ASSUME TrailTypeOK, NEW o \in Opening, NEW s
  PROVE  /\ IsFiniteSet(EntriesInto(o, s))
         /\ Cardinality(EntriesInto(o, s)) \in Nat
<1>1. Len(audit[o]) \in Nat /\ DOMAIN audit[o] = 1..Len(audit[o])
  BY DEF TrailTypeOK
<1>2. EntriesInto(o, s) \in SUBSET (1..Len(audit[o]))
  BY <1>1 DEF EntriesInto, StageEvents
<1>3. IsFiniteSet(1..Len(audit[o]))
  BY <1>1, FS_Interval
<1>4. IsFiniteSet(EntriesInto(o, s))
  BY <1>2, <1>3, FS_Subset
<1>5. QED
  BY <1>4, FS_CardinalityType

\* The tasks of one case and stage are finitely many.
LEMMA TasksFinite ==
  ASSUME TypeOK, NEW o \in Opening, NEW s
  PROVE  /\ IsFiniteSet(TasksOf(o, s))
         /\ Cardinality(TasksOf(o, s)) \in Nat
<1>1. Len(tasks[o]) \in Nat /\ DOMAIN tasks[o] = 1..Len(tasks[o])
  BY DEF TypeOK
<1>2. TasksOf(o, s) \in SUBSET (1..Len(tasks[o]))
  BY <1>1 DEF TasksOf
<1>3. IsFiniteSet(1..Len(tasks[o]))
  BY <1>1, FS_Interval
<1>4. IsFiniteSet(TasksOf(o, s))
  BY <1>2, <1>3, FS_Subset
<1>5. QED
  BY <1>4, FS_CardinalityType

\* Entering a stage appends one task per template of it.
LEMMA TasksAppended ==
  ASSUME TypeOK, NEW o \in Opening, NEW u \in User,
         NEW stage \in WorkflowStage, NEW s \in WorkflowStage,
         tasks' = [tasks EXCEPT ![o] = @ \o NewTasks(stage, u)]
  PROVE  Cardinality(TasksOf(o, s)')
           = IF s = stage
               THEN Cardinality(TasksOf(o, s)) + Len(TASK_TEMPLATES[stage])
               ELSE Cardinality(TasksOf(o, s))
<1> DEFINE k == Len(TASK_TEMPLATES[stage])
           new == NewTasks(stage, u)
<1>1. PICK n \in Nat : n = Len(tasks[o])
  BY DEF TypeOK
<1>2. /\ k \in Nat
      /\ new \in Seq(WorkflowTask) /\ Len(new) = k
      /\ \A i \in 1..k : new[i].stage = stage
  <2>1. k \in Nat
    BY Templates
  <2>2. QED
    BY <2>1, NewTasksType DEF NewTasks
<1>3. /\ tasks[o] \in Seq(WorkflowTask) /\ DOMAIN tasks[o] = 1..n
      /\ tasks'[o] = tasks[o] \o new
  BY <1>1 DEF TypeOK
<1> HIDE DEF new, k
<1>4. /\ DOMAIN tasks'[o] = 1..(n + k)
      /\ \A i \in 1..n : tasks'[o][i] = tasks[o][i]
      /\ \A i \in (n + 1)..(n + k) : tasks'[o][i].stage = stage
  <2>1. /\ tasks'[o] \in Seq(WorkflowTask)
        /\ Len(tasks'[o]) = n + k
        /\ \A i \in 1..(n + k) :
             tasks'[o][i] = IF i <= n THEN tasks[o][i] ELSE new[i - n]
    <3> DEFINE old == tasks[o]
    <3>1. old \in Seq(WorkflowTask) /\ Len(old) = n /\ tasks'[o] = old \o new
      BY <1>1, <1>3
    <3> HIDE DEF old
    <3>2. /\ old \o new \in Seq(WorkflowTask)
          /\ Len(old \o new) = Len(old) + Len(new)
          /\ \A i \in 1..(Len(old) + Len(new)) :
               (old \o new)[i] = IF i <= Len(old) THEN old[i]
                                                 ELSE new[i - Len(old)]
      BY <1>2, <3>1, ConcatProperties
    <3>3. QED
      BY <1>2, <3>1, <3>2 DEF old
  <2>2. DOMAIN tasks'[o] = 1..(n + k)
    BY <2>1
  <2>3. \A i \in 1..n : tasks'[o][i] = tasks[o][i]
    BY <1>2, <2>1
  <2>4. ASSUME NEW i \in (n + 1)..(n + k) PROVE tasks'[o][i].stage = stage
    <3>1. i \in 1..(n + k) /\ ~(i <= n) /\ i - n \in 1..k
      BY <1>2, <2>4
    <3>2. QED
      BY <1>2, <2>1, <3>1
  <2>5. QED
    BY <2>2, <2>3, <2>4
<1>5. TasksOf(o, s)' = IF s = stage THEN TasksOf(o, s) \cup ((n + 1)..(n + k))
                                    ELSE TasksOf(o, s)
  <2>1. \A i \in 1..n : i \in TasksOf(o, s)' <=> i \in TasksOf(o, s)
    BY <1>2, <1>3, <1>4 DEF TasksOf
  <2>2. \A i \in (n + 1)..(n + k) : i \in TasksOf(o, s)' <=> s = stage
    BY <1>2, <1>4 DEF TasksOf
  <2>3. TasksOf(o, s)' \subseteq 1..(n + k) /\ TasksOf(o, s) \subseteq 1..n
    BY <1>3, <1>4 DEF TasksOf
  <2>4. \A i \in 1..(n + k) : i \in 1..n \/ i \in (n + 1)..(n + k)
    BY <1>2
  <2>5. CASE s = stage
    BY <2>1, <2>2, <2>3, <2>4, <2>5
  <2>6. CASE s # stage
    BY <2>1, <2>2, <2>3, <2>4, <2>6
  <2>7. QED
    BY <2>5, <2>6
<1>6. /\ IsFiniteSet((n + 1)..(n + k))
      /\ Cardinality((n + 1)..(n + k)) = k
  <2>1. n + 1 \in Int /\ n + k \in Int
    BY <1>2
  <2>2. /\ IsFiniteSet((n + 1)..(n + k))
        /\ Cardinality((n + 1)..(n + k))
             = IF n + 1 > n + k THEN 0 ELSE (n + k) - (n + 1) + 1
    BY <2>1, FS_Interval
  <2>3. QED
    BY <1>2, <2>2
<1>7. TasksOf(o, s) \cap ((n + 1)..(n + k)) = {}
  BY <1>3 DEF TasksOf
<1>8. Cardinality(TasksOf(o, s) \cup ((n + 1)..(n + k)))
        = Cardinality(TasksOf(o, s)) + k
  <2>1. Cardinality({}) = 0
    BY FS_EmptySet
  <2>2. IsFiniteSet(TasksOf(o, s)) /\ Cardinality(TasksOf(o, s)) \in Nat
    BY TasksFinite
  <2>3. Cardinality(TasksOf(o, s) \cup ((n + 1)..(n + k)))
          = Cardinality(TasksOf(o, s)) + Cardinality((n + 1)..(n + k))
              - Cardinality(TasksOf(o, s) \cap ((n + 1)..(n + k)))
    <3> DEFINE S == TasksOf(o, s)
               T == (n + 1)..(n + k)
    <3>1. IsFiniteSet(S) /\ IsFiniteSet(T)
      BY <1>6, <2>2
    <3> HIDE DEF S, T
    <3>2. Cardinality(S \cup T)
            = Cardinality(S) + Cardinality(T) - Cardinality(S \cap T)
      BY <3>1, FS_Union
    <3>3. QED
      BY <3>2 DEF S, T
  <2>4. Cardinality(TasksOf(o, s) \cap ((n + 1)..(n + k))) = 0
    BY <1>7, <2>1
  <2>5. QED
    BY <1>2, <1>6, <2>2, <2>3, <2>4
<1>9. QED
  BY <1>5, <1>8 DEF k

\* A move recorded is one entry into the stage it leads to.
LEMMA EntryAdded ==
  ASSUME TrailTypeOK, NEW o \in Opening, NEW event \in AuditEvent,
         Record(o, event), NEW s
  PROVE  IF /\ event.action \in {"STAGE_ADVANCED", "STAGE_SENT_BACK"}
            /\ event.new_value = s
           THEN Cardinality(EntriesInto(o, s)')
                  = Cardinality(EntriesInto(o, s)) + 1
           ELSE EntriesInto(o, s)' = EntriesInto(o, s)
<1>1. PICK n \in Nat : n = Len(audit[o]) + 1
  BY DEF TrailTypeOK
<1>2. /\ audit'[o][n] = event
      /\ \A i \in StageEvents(o) : i \in 1..(n - 1) /\ audit'[o][i] = audit[o][i]
      /\ StageEvents(o)' =
           IF event.action \in {"STAGE_ADVANCED", "STAGE_SENT_BACK"}
             THEN StageEvents(o) \cup {n} ELSE StageEvents(o)
  BY <1>1, TrailPrefix
<1>3. n \notin EntriesInto(o, s)
  BY <1>2 DEF EntriesInto
<1>4. CASE /\ event.action \in {"STAGE_ADVANCED", "STAGE_SENT_BACK"}
           /\ event.new_value = s
  <2>1. EntriesInto(o, s)' = EntriesInto(o, s) \cup {n}
    BY <1>2, <1>4 DEF EntriesInto
  <2>2. IsFiniteSet(EntriesInto(o, s))
    BY EntriesFinite
  <2>3. QED
    BY <1>3, <1>4, <2>1, <2>2, FS_AddElement
<1>5. CASE ~(/\ event.action \in {"STAGE_ADVANCED", "STAGE_SENT_BACK"}
             /\ event.new_value = s)
  <2>1. EntriesInto(o, s)' = EntriesInto(o, s)
    BY <1>2, <1>5 DEF EntriesInto
  <2>2. QED
    BY <1>5, <2>1
<1>6. QED
  BY <1>4, <1>5

\* Entering a stage: its tasks are added, and the entry is recorded.
LEMMA EntryCounted ==
  ASSUME TypeOK, NEW o \in Opening, NEW u \in User, TasksCounted(o),
         NEW stage \in WorkflowStage, NEW event \in AuditEvent,
         Record(o, event),
         event.action \in {"STAGE_ADVANCED", "STAGE_SENT_BACK"},
         event.new_value = stage,
         tasks' = [tasks EXCEPT ![o] = @ \o NewTasks(stage, u)]
  PROVE  TasksCounted(o)'
<1> SUFFICES ASSUME NEW s \in WorkflowStage
             PROVE  Cardinality(TasksOf(o, s)')
                      = Len(TASK_TEMPLATES[s]) * Cardinality(EntriesInto(o, s)')
  BY DEF TasksCounted
<1>1. PICK k \in 0..2 : k = Len(TASK_TEMPLATES[s])
  BY TemplateLengths
<1>2. PICK m \in Nat : m = Cardinality(EntriesInto(o, s))
  BY EntriesFinite, TrailTypes
<1>3. Cardinality(TasksOf(o, s)) = k * m
  BY <1>1, <1>2 DEF TasksCounted
<1>4. CASE s = stage
  <2>1. Cardinality(TasksOf(o, s)') = k * m + k
    BY <1>1, <1>3, <1>4, TasksAppended
  <2>2. Cardinality(EntriesInto(o, s)') = m + 1
    BY <1>2, <1>4, EntryAdded, TrailTypes
  <2>3. k * m + k = k * (m + 1)
    BY <1>1, <1>2
  <2>4. QED
    BY <1>1, <2>1, <2>2, <2>3
<1>5. CASE s # stage
  <2>1. Cardinality(TasksOf(o, s)') = k * m
    BY <1>3, <1>5, TasksAppended
  <2>2. EntriesInto(o, s)' = EntriesInto(o, s)
    BY <1>5, EntryAdded, TrailTypes
  <2>3. QED
    BY <1>1, <1>2, <2>1, <2>2
<1>6. QED
  BY <1>4, <1>5

\* A step that enters no stage: the tasks of a case keep their stages.
LEMMA CountKept ==
  ASSUME TypeOK, NEW o \in Opening, TasksCounted(o),
         \A s \in WorkflowStage : TasksOf(o, s)' = TasksOf(o, s),
         \A s \in WorkflowStage : EntriesInto(o, s)' = EntriesInto(o, s)
  PROVE  TasksCounted(o)'
BY DEF TasksCounted

\* A case that nothing happens to.
LEMMA CountUntouched ==
  ASSUME TypeOK, CountInv, NEW o \in Opening,
         tasks'[o] = tasks[o], audit'[o] = audit[o]
  PROVE  TasksCounted(o)'
<1>1. \A s \in WorkflowStage : /\ TasksOf(o, s)' = TasksOf(o, s)
                               /\ EntriesInto(o, s)' = EntriesInto(o, s)
  BY DEF TasksOf, EntriesInto, StageEvents
<1>2. QED
  BY <1>1, CountKept DEF CountInv

\* A step that records an event that is no move, and leaves the stages of the
\* tasks alone.
LEMMA CountNotMoved ==
  ASSUME TypeOK, CountInv, NEW o \in Opening, NEW event \in AuditEvent,
         Record(o, event),
         event.action \notin {"STAGE_ADVANCED", "STAGE_SENT_BACK"},
         \A s \in WorkflowStage : TasksOf(o, s)' = TasksOf(o, s),
         \A p \in Opening \ {o} : tasks'[p] = tasks[p]
  PROVE  CountInv'
<1>1. \A s \in WorkflowStage : EntriesInto(o, s)' = EntriesInto(o, s)
  BY EntryAdded, TrailTypes
<1>2. TasksCounted(o)'
  BY <1>1, CountKept DEF CountInv
<1>3. \A p \in Opening \ {o} : audit'[p] = audit[p]
  BY DEF TypeOK, Record
<1>4. QED
  BY <1>2, <1>3, CountUntouched DEF CountInv

\* A task that is started or completed keeps its stage.
LEMMA TaskStagesKept ==
  ASSUME TypeOK, NEW o \in Opening, NEW u \in User, NEW i \in DOMAIN tasks[o],
         start_task(o, i, u) \/ complete_task(o, i, u)
  PROVE  /\ \A s \in WorkflowStage : TasksOf(o, s)' = TasksOf(o, s)
         /\ \A p \in Opening \ {o} : tasks'[p] = tasks[p]
<1>1. /\ tasks[o] \in Seq(WorkflowTask) /\ tasks[o][i] \in WorkflowTask
  BY DEF TypeOK
<1>2. PICK after :
        /\ tasks' = [tasks EXCEPT ![o][i] = after]
        /\ after.stage = tasks[o][i].stage
  <2>1. CASE start_task(o, i, u)
    <3> DEFINE after == [tasks[o][i] EXCEPT !.status = "IN_PROGRESS"]
    <3>1. tasks' = [tasks EXCEPT ![o][i] = after]
      BY <2>1 DEF start_task
    <3>2. after.stage = tasks[o][i].stage
      BY <1>1 DEF WorkflowTask
    <3>3. QED
      BY <3>1, <3>2
  <2>2. CASE complete_task(o, i, u)
    <3> DEFINE after == [tasks[o][i] EXCEPT !.status = "COMPLETED",
                                            !.completed_by = u]
    <3>1. tasks' = [tasks EXCEPT ![o][i] = after]
      BY <2>2 DEF complete_task
    <3>2. after.stage = tasks[o][i].stage
      BY <1>1 DEF WorkflowTask
    <3>3. QED
      BY <3>1, <3>2
  <2>3. QED
    BY <2>1, <2>2
<1>3. /\ DOMAIN tasks'[o] = DOMAIN tasks[o]
      /\ \A j \in DOMAIN tasks[o] : tasks'[o][j].stage = tasks[o][j].stage
      /\ \A p \in Opening \ {o} : tasks'[p] = tasks[p]
  BY <1>1, <1>2 DEF TypeOK
<1>4. QED
  BY <1>3 DEF TasksOf

\* A move, of one case.
LEMMA CountMoved ==
  ASSUME TypeOK, CountInv, NEW o \in Opening, NEW u \in User,
         NEW stage \in WorkflowStage, NEW event \in AuditEvent,
         Record(o, event),
         event.action \in {"STAGE_ADVANCED", "STAGE_SENT_BACK"},
         event.new_value = stage,
         tasks' = [tasks EXCEPT ![o] = @ \o NewTasks(stage, u)]
  PROVE  CountInv'
<1>1. TasksCounted(o)'
  BY EntryCounted DEF CountInv
<1>2. \A p \in Opening \ {o} : tasks'[p] = tasks[p] /\ audit'[p] = audit[p]
  BY DEF TypeOK, Record
<1>3. QED
  BY <1>1, <1>2, CountUntouched DEF CountInv

\* Every entry into a stage generated its tasks exactly once: the tasks of a
\* stage are as many as the trail has entries into it, times its template, for
\* any number of cases, detours and users.
THEOREM TasksAlwaysMatchEntries == Spec => []TasksMatchEntries
<1>1. Init => CountInv
  <2> SUFFICES ASSUME Init, NEW o \in Opening, NEW s \in WorkflowStage
               PROVE  Cardinality(TasksOf(o, s))
                        = Len(TASK_TEMPLATES[s]) * Cardinality(EntriesInto(o, s))
    BY DEF CountInv, TasksCounted
  <2>1. TasksOf(o, s) = {} /\ EntriesInto(o, s) = {}
    BY DEF Init, TasksOf, EntriesInto, StageEvents
  <2>2. Cardinality({}) = 0
    BY FS_EmptySet
  <2>3. PICK k \in 0..2 : k = Len(TASK_TEMPLATES[s])
    BY TemplateLengths
  <2>4. QED
    BY <2>1, <2>2, <2>3
<1>2. TypeOK /\ CountInv /\ [Next]_vars => CountInv'
  <2> SUFFICES ASSUME TypeOK, CountInv, [Next]_vars PROVE CountInv'
    OBVIOUS
  <2>1. ASSUME NEW o \in Opening, NEW u \in User, create(o, u)
        PROVE  CountInv'
    <3> DEFINE event == Event("CASE_CREATED", "REQUIREMENT", u, None, None)
    <3>1. event \in AuditEvent /\ event.action = "CASE_CREATED"
      BY Ends, EventType DEF AuditAction, Event
    <3>2. Record(o, event) /\ tasks' = tasks
      BY <2>1 DEF create
    <3> HIDE DEF event
    <3>3. \A s \in WorkflowStage : TasksOf(o, s)' = TasksOf(o, s)
      BY <3>2 DEF TasksOf
    <3>4. QED
      BY <3>1, <3>2, <3>3, CountNotMoved
  <2>2. ASSUME NEW o \in Opening, NEW u \in User, NEW target \in WorkflowStage,
               transition(o, target, u)
        PROVE  CountInv'
    <3>1. PICK current \in WorkflowStage : current = current_stage[o]
      BY DEF TypeOK
    <3> DEFINE event == Event("STAGE_ADVANCED", current, u, current, target)
    <3>2. /\ event \in AuditEvent
          /\ event.action = "STAGE_ADVANCED" /\ event.new_value = target
      BY EventType DEF AuditAction, Event
    <3>3. /\ Record(o, event)
          /\ tasks' = [tasks EXCEPT ![o] = @ \o NewTasks(target, u)]
      BY <2>2, <3>1 DEF transition, Advance
    <3> HIDE DEF event
    <3>4. QED
      BY <3>2, <3>3, CountMoved
  <2>3. ASSUME NEW o \in Opening, NEW u \in User, send_back(o, u)
        PROVE  CountInv'
    <3>1. PICK current \in WorkflowStage : current = current_stage[o]
      BY DEF TypeOK
    <3>2. PICK previous \in WorkflowStage : previous = previous_stage(current)
      BY <2>3, <3>1, PreviousStage DEF send_back
    <3> DEFINE event == Event("STAGE_SENT_BACK", current, u, current, previous)
    <3>3. /\ event \in AuditEvent
          /\ event.action = "STAGE_SENT_BACK" /\ event.new_value = previous
      BY EventType DEF AuditAction, Event
    <3>4. /\ Record(o, event)
          /\ tasks' = [tasks EXCEPT ![o] = @ \o NewTasks(previous, u)]
      BY <2>3, <3>1, <3>2 DEF send_back, SendBack
    <3> HIDE DEF event
    <3>5. QED
      BY <3>3, <3>4, CountMoved
  <2>4. ASSUME NEW o \in Opening, NEW u \in User, NEW status \in CaseStatus,
               set_status(o, status, u)
        PROVE  CountInv'
    <3> DEFINE event == Event("CASE_STATUS_CHANGED", current_stage[o], u,
                              case_status[o], status)
    <3>1. event \in AuditEvent /\ event.action = "CASE_STATUS_CHANGED"
      BY EventType DEF TypeOK, AuditAction, Event
    <3>2. Record(o, event) /\ tasks' = tasks
      BY <2>4 DEF set_status
    <3> HIDE DEF event
    <3>3. \A s \in WorkflowStage : TasksOf(o, s)' = TasksOf(o, s)
      BY <3>2 DEF TasksOf
    <3>4. QED
      BY <3>1, <3>2, <3>3, CountNotMoved
  <2>5. ASSUME NEW o \in Opening, NEW u \in User, NEW assignee \in User,
               assign(o, assignee, u)
        PROVE  CountInv'
    <3> DEFINE event == Event("CASE_ASSIGNED", current_stage[o], u,
                              assigned_to[o], assignee)
    <3>1. event \in AuditEvent /\ event.action = "CASE_ASSIGNED"
      BY EventType DEF TypeOK, AuditAction, Event
    <3>2. Record(o, event) /\ tasks' = tasks
      BY <2>5 DEF assign
    <3> HIDE DEF event
    <3>3. \A s \in WorkflowStage : TasksOf(o, s)' = TasksOf(o, s)
      BY <3>2 DEF TasksOf
    <3>4. QED
      BY <3>1, <3>2, <3>3, CountNotMoved
  <2>6. ASSUME NEW o \in Opening, NEW u \in User, NEW i \in DOMAIN tasks[o],
               start_task(o, i, u)
        PROVE  CountInv'
    <3>1. \A s \in WorkflowStage : TasksOf(o, s)' = TasksOf(o, s)
      BY <2>6, TaskStagesKept
    <3>2. \A s \in WorkflowStage : EntriesInto(o, s)' = EntriesInto(o, s)
      BY <2>6 DEF start_task, EntriesInto, StageEvents
    <3>3. TasksCounted(o)'
      BY <3>1, <3>2, CountKept DEF CountInv
    <3>4. \A p \in Opening \ {o} : tasks'[p] = tasks[p]
      BY <2>6, TaskStagesKept
    <3>5. audit' = audit
      BY <2>6 DEF start_task
    <3>6. QED
      BY <3>3, <3>4, <3>5, CountUntouched DEF CountInv
  <2>7. ASSUME NEW o \in Opening, NEW u \in User, NEW i \in DOMAIN tasks[o],
               complete_task(o, i, u)
        PROVE  CountInv'
    <3> DEFINE event == Event("TASK_COMPLETED", tasks[o][i].stage, u, None,
                              tasks[o][i].task_type)
    <3>1. tasks[o][i] \in WorkflowTask
      BY <2>7 DEF TypeOK
    <3>2. event \in AuditEvent /\ event.action = "TASK_COMPLETED"
      BY <3>1, EventType DEF AuditAction, Event, WorkflowTask
    <3>3. Record(o, event)
      BY <2>7 DEF complete_task
    <3> HIDE DEF event
    <3>4. /\ \A s \in WorkflowStage : TasksOf(o, s)' = TasksOf(o, s)
          /\ \A p \in Opening \ {o} : tasks'[p] = tasks[p]
      BY <2>7, TaskStagesKept
    <3>5. QED
      BY <3>2, <3>3, <3>4, CountNotMoved
  <2>8. CASE UNCHANGED vars
    BY <2>8, CountUntouched DEF vars, CountInv
  <2>9. QED
    BY <2>1, <2>2, <2>3, <2>4, <2>5, <2>6, <2>7, <2>8 DEF Next, Moves, DeskWork
<1>3. TypeOK /\ CountInv => TasksMatchEntries
  BY DEF TypeOK, CountInv, TasksCounted, TasksOf, EntriesInto, TasksMatchEntries
<1>4. QED
  BY <1>1, <1>2, <1>3, TypeCorrect, PTL DEF Spec
-----------------------------------------------------------------------------
(* What the components need that move cases with Advance and SendBack, from *)
(* a stage they loaded earlier, and start where InitAt has taken the cases. *)

\* User u moved case o forward into stage s.
AdvancedBy(o, s, u) ==
  \E i \in StageEvents(o) : /\ audit[o][i].action = "STAGE_ADVANCED"
                            /\ audit[o][i].new_value = s
                            /\ audit[o][i].user_id = u

\* The trail of a case taken to a stage by one user, event by event.
LEMMA JourneyTrail ==
  ASSUME NEW stage \in WorkflowStage, NEW u \in User, InitAt(stage, u),
         NEW o \in Opening
  PROVE  /\ audit[o] \in Seq(AuditEvent)
         /\ Len(audit[o]) = SEQUENCE_INDEX[stage]
         /\ audit[o][1] = Event("CASE_CREATED", "REQUIREMENT", u, None, None)
         /\ \A i \in 1..(SEQUENCE_INDEX[stage] - 1) :
              /\ i + 1 \in DOMAIN audit[o]
              /\ audit[o][i + 1] = Event("STAGE_ADVANCED", SEQUENCE[i], u,
                                         SEQUENCE[i], SEQUENCE[i + 1])
<1>1. PICK n \in 0..14 : n = SEQUENCE_INDEX[stage] - 1
  BY IndexSequence
<1> DEFINE first == <<Event("CASE_CREATED", "REQUIREMENT", u, None, None)>>
           step(i) == Event("STAGE_ADVANCED", SEQUENCE[i], u,
                            SEQUENCE[i], SEQUENCE[i + 1])
           journey == [i \in 1..n |-> step(i)]
<1>2. audit[o] = first \o journey
  BY <1>1 DEF InitAt, Journey
<1>3. first \in Seq(AuditEvent) /\ Len(first) = 1
  <2>1. Event("CASE_CREATED", "REQUIREMENT", u, None, None) \in AuditEvent
    BY Ends, EventType DEF AuditAction
  <2> QED
    BY <2>1
<1>4. \A i \in 1..n : step(i) \in AuditEvent
  <2> SUFFICES ASSUME NEW i \in 1..n PROVE step(i) \in AuditEvent
    OBVIOUS
  <2>1. SEQUENCE[i] \in WorkflowStage /\ SEQUENCE[i + 1] \in WorkflowStage
    BY SequenceIndex
  <2>2. "STAGE_ADVANCED" \in AuditAction
    BY DEF AuditAction
  <2> QED
    BY <2>1, <2>2, EventType
<1> HIDE DEF first, step
<1>5. journey \in Seq(AuditEvent) /\ Len(journey) = n
  BY <1>4, IsASeq
<1>6. /\ first \o journey \in Seq(AuditEvent)
      /\ Len(first \o journey) = 1 + n
      /\ \A i \in 1..(1 + n) :
           (first \o journey)[i] = IF i <= 1 THEN first[i] ELSE journey[i - 1]
  BY <1>3, <1>5, ConcatProperties
<1>7. \A i \in 1..n : /\ i + 1 \in DOMAIN audit[o]
                      /\ audit[o][i + 1] = step(i)
  BY <1>2, <1>6
<1>8. /\ Len(audit[o]) = SEQUENCE_INDEX[stage]
      /\ audit[o][1] = Event("CASE_CREATED", "REQUIREMENT", u, None, None)
  BY <1>1, <1>2, <1>6, IndexSequence DEF first
<1> QED
  BY <1>1, <1>2, <1>6, <1>7, <1>8 DEF step

\* The cases stand where their trails have taken them.
LEMMA InitAtTrail ==
  ASSUME NEW stage \in WorkflowStage, NEW u \in User, InitAt(stage, u)
  PROVE  TrailTypeOK
<1>1. \A o \in Opening : audit[o] \in Seq(AuditEvent)
  BY JourneyTrail
<1> QED
  BY <1>1 DEF InitAt, TrailTypeOK

\* An administrator may have taken a case past both committees.
LEMMA InitAtCommittees ==
  ASSUME NEW stage \in WorkflowStage, NEW u \in User, InitAt(stage, u),
         RoleOf[u] = "ADMIN"
  PROVE  CommitteesInv
<1> SUFFICES ASSUME NEW o \in Opening PROVE CommitteesAt(o, stage)
  BY DEF CommitteesInv, InitAt
<1>1. PICK n \in 0..14 : n = SEQUENCE_INDEX[stage] - 1
  BY IndexSequence
<1>2. \A i \in 1..n :
        i + 1 \in EntriesBy(o, SEQUENCE[i + 1], {"ADMIN"})
  <2> SUFFICES ASSUME NEW i \in 1..n
               PROVE  i + 1 \in EntriesBy(o, SEQUENCE[i + 1], {"ADMIN"})
    OBVIOUS
  <2>1. /\ i + 1 \in DOMAIN audit[o]
        /\ audit[o][i + 1] = Event("STAGE_ADVANCED", SEQUENCE[i], u,
                                   SEQUENCE[i], SEQUENCE[i + 1])
    BY <1>1, JourneyTrail
  <2> QED
    BY <2>1 DEF EntriesBy, StageEvents, Event
<1>3. \A s : /\ EntriesBy(o, s, {"ADMIN"})
                  \subseteq EntriesBy(o, s, {"CC"} \cup APPROVERS)
             /\ EntriesBy(o, s, {"ADMIN"})
                  \subseteq EntriesBy(o, s, {"MD"} \cup APPROVERS)
  BY DEF EntriesBy, APPROVERS
<1>4. n >= 9 => 10 \in EntriesBy(o, "MD_APPROVAL", {"CC"} \cup APPROVERS)
  <2>1. n >= 9 => 9 + 1 \in EntriesBy(o, SEQUENCE[9 + 1], {"ADMIN"})
    BY <1>2
  <2> QED
    BY <1>3, <2>1, CommitteeStages
<1>5. n >= 10 => 11 \in EntriesBy(o, "PAYMENT", {"MD"} \cup APPROVERS)
  <2>1. n >= 10 => 10 + 1 \in EntriesBy(o, SEQUENCE[10 + 1], {"ADMIN"})
    BY <1>2
  <2> QED
    BY <1>3, <2>1, CommitteeStages
<1>6. SEQUENCE_INDEX[stage] = n + 1
  BY <1>1, IndexSequence
<1> QED
  BY <1>4, <1>5, <1>6, CommitteeStages DEF CommitteesAt

\* A move forward on record enters one stage of one case, once.
LEMMA MoveRecorded ==
  ASSUME TrailTypeOK, NEW o \in Opening, NEW current \in WorkflowStage,
         NEW target \in WorkflowStage, NEW u \in User,
         Record(o, Event("STAGE_ADVANCED", current, u, current, target)),
         current_stage' = [current_stage EXCEPT ![o] = target],
         created' = created
  PROVE  /\ TrailTypeOK' /\ TrailKept /\ created' = created
         /\ AdvancedBy(o, target, u)'
         /\ Cardinality(EntriesInto(o, target)')
              = Cardinality(EntriesInto(o, target)) + 1
         /\ \A p \in Opening, s \in WorkflowStage :
              p # o \/ s # target => EntriesInto(p, s)' = EntriesInto(p, s)
<1> DEFINE event == Event("STAGE_ADVANCED", current, u, current, target)
<1>1. /\ event \in AuditEvent
      /\ event.action = "STAGE_ADVANCED" /\ event.new_value = target
      /\ event.user_id = u
  BY EventType DEF AuditAction, Event
<1>2. /\ Record(o, event) /\ created' = created
      /\ current_stage' = [current_stage EXCEPT ![o] = target]
  OBVIOUS
<1> HIDE DEF event
<1>3. TrailTypeOK'
  BY <1>1, <1>2, RecordType DEF TrailTypeOK
<1>4. PICK n \in Nat : n = Len(audit[o]) + 1
  BY DEF TrailTypeOK
<1>5. TrailKept /\ n \in DOMAIN audit'[o] /\ audit'[o][n] = event
  BY <1>1, <1>2, <1>4, RecordKeepsTrail
<1>6. AdvancedBy(o, target, u)'
  BY <1>1, <1>5 DEF AdvancedBy, StageEvents
<1>7. Cardinality(EntriesInto(o, target)')
        = Cardinality(EntriesInto(o, target)) + 1
  BY <1>1, <1>2, EntryAdded
<1>8. ASSUME NEW p \in Opening, NEW s \in WorkflowStage, p # o \/ s # target
      PROVE  EntriesInto(p, s)' = EntriesInto(p, s)
  <2>1. CASE p = o
    BY <1>1, <1>2, <1>8, <2>1, EntryAdded
  <2>2. CASE p # o
    <3>1. audit'[p] = audit[p]
      BY <1>2, <2>2 DEF Record, TrailTypeOK
    <3> QED
      BY <3>1 DEF EntriesInto, StageEvents
  <2> QED
    BY <2>1, <2>2
<1> QED
  BY <1>2, <1>3, <1>5, <1>6, <1>7, <1>8

\* So does a move of the engine.
LEMMA AdvanceRecorded ==
  ASSUME TrailTypeOK, NEW o \in Opening, NEW current \in WorkflowStage,
         NEW target \in WorkflowStage, NEW u \in User,
         Advance(o, current, target, u)
  PROVE  /\ TrailTypeOK' /\ TrailKept /\ created' = created
         /\ AdvancedBy(o, target, u)'
         /\ Cardinality(EntriesInto(o, target)')
              = Cardinality(EntriesInto(o, target)) + 1
         /\ \A p \in Opening, s \in WorkflowStage :
              p # o \/ s # target => EntriesInto(p, s)' = EntriesInto(p, s)
<1>1. /\ Record(o, Event("STAGE_ADVANCED", current, u, current, target))
      /\ current_stage' = [current_stage EXCEPT ![o] = target]
      /\ created' = created
  BY DEF Advance
<1> QED
  BY <1>1, MoveRecorded

\* A move back, likewise; its event is no move forward.
LEMMA SendBackRecorded ==
  ASSUME TrailTypeOK, NEW o \in Opening, NEW current \in WorkflowStage,
         has_previous(current), NEW u \in User, SendBack(o, current, u)
  PROVE  TrailTypeOK' /\ TrailKept /\ created' = created
<1>1. PICK previous \in WorkflowStage : previous = previous_stage(current)
  BY PreviousStage
<1> DEFINE event == Event("STAGE_SENT_BACK", current, u, current, previous)
<1>2. event \in AuditEvent
  BY EventType DEF AuditAction
<1>3. /\ Record(o, event) /\ created' = created
      /\ current_stage' = [current_stage EXCEPT ![o] = previous]
  BY <1>1 DEF SendBack
<1> HIDE DEF event
<1>4. TrailTypeOK'
  BY <1>2, <1>3, RecordType DEF TrailTypeOK
<1> QED
  BY <1>2, <1>3, <1>4, RecordKeepsTrail

\* Moves by hand, through the endpoints of the engine.
LEMMA HandMoved ==
  ASSUME TrailTypeOK, NEW o \in Opening, NEW u \in User,
         send_back(o, u) \/ \E target \in WorkflowStage : transition(o, target, u)
  PROVE  TrailTypeOK' /\ TrailKept /\ created' = created
<1>1. current_stage[o] \in WorkflowStage
  BY DEF TrailTypeOK
<1>2. CASE send_back(o, u)
  BY <1>1, <1>2, SendBackRecorded DEF send_back
<1>3. ASSUME NEW target \in WorkflowStage, transition(o, target, u)
      PROVE  TrailTypeOK' /\ TrailKept /\ created' = created
  BY <1>1, <1>3, AdvanceRecorded DEF transition
<1> QED
  BY <1>2, <1>3

\* A trail that loses nothing loses no entry and no mover.
LEMMA EntriesGrow ==
  ASSUME TrailTypeOK, TrailTypeOK', TrailKept, NEW o \in Opening, NEW s
  PROVE  /\ Cardinality(EntriesInto(o, s)) \in Nat
         /\ Cardinality(EntriesInto(o, s)') \in Nat
         /\ Cardinality(EntriesInto(o, s)) <= Cardinality(EntriesInto(o, s)')
         /\ \A u : AdvancedBy(o, s, u) => AdvancedBy(o, s, u)'
<1>1. StageEvents(o) \subseteq StageEvents(o)'
      /\ \A i \in StageEvents(o) : audit'[o][i] = audit[o][i]
  BY DEF TrailKept, StageEvents
<1>2. EntriesInto(o, s) \subseteq EntriesInto(o, s)'
  BY <1>1 DEF EntriesInto
<1>3. IsFiniteSet(EntriesInto(o, s)) /\ Cardinality(EntriesInto(o, s)) \in Nat
  BY EntriesFinite
<1>4. (TrailTypeOK => /\ IsFiniteSet(EntriesInto(o, s))
                      /\ Cardinality(EntriesInto(o, s)) \in Nat)'
  BY EntriesFinite, PTL
<1>5. Cardinality(EntriesInto(o, s)) <= Cardinality(EntriesInto(o, s)')
  BY <1>2, <1>3, <1>4, FS_Subset
<1>6. \A u : AdvancedBy(o, s, u) => AdvancedBy(o, s, u)'
  BY <1>1 DEF AdvancedBy
<1> QED
  BY <1>3, <1>4, <1>5, <1>6

\* A step that moves no case.
LEMMA NothingMoved ==
  ASSUME TrailTypeOK, UNCHANGED vars
  PROVE  /\ TrailTypeOK' /\ TrailKept /\ created' = created
         /\ \A p \in Opening, s \in WorkflowStage :
              EntriesInto(p, s)' = EntriesInto(p, s)
BY DEF vars, TrailTypeOK, TrailKept, EntriesInto, StageEvents
=============================================================================

----------------------- MODULE WorkflowRequestsProofs -----------------------
(***************************************************************************)
(* What TLAPS proves about concurrent requests, for any number of workers: *)
(* the columns keep their types, a case never stands on a stage that was   *)
(* not started, the trail ends where the case stands, and no interleaving  *)
(* of stale reads, commits and crashes takes a case to PAYMENT without     *)
(* both committees.                                                        *)
(*                                                                         *)
(* EarlierStagesCompleted is not among it: it does not survive a race.     *)
(* Requests whose sessions do not overlap implement Workflow, and so keep  *)
(* it, and move along defined transitions only.                            *)
(***************************************************************************)
EXTENDS MCWorkflowRequests, WorkflowProofs

-----------------------------------------------------------------------------
(* What a session holds.  All of it was true of the database when it was   *)
(* loaded, and what the trail says of the loaded stage stays true.         *)

BusySession == Loaded({"row", "loaded"})

SessionOK(s) ==
  /\ s.pc = "loaded" => s.stages \in [WorkflowStage -> WorkflowStageStatus]
  /\ s.opening \in created
  /\ s.request.op = "transition"
       => /\ is_allowed(s.row.current_stage, s.request.arg)
          /\ can_role_advance(RoleOf[s.user], s.request.arg)
  /\ s.request.op = "send_back" => has_previous(s.row.current_stage)
  /\ CommitteesAt(s.opening, s.row.current_stage)

RequestsInv ==
  /\ TypeOKReq
  /\ CommitteesInv
  /\ \A w \in Worker : session[w] # Idle => SessionOK(session[w])

\* A session that is not idle is a record with all its fields.
LEMMA BusyType ==
  ASSUME TypeOKReq, NEW w \in Worker, session[w] # Idle
  PROVE  /\ session[w] \in BusySession
         /\ session[w].request \in Request
         /\ session[w].opening \in Opening
         /\ session[w].user \in User
         /\ session[w].row.current_stage \in WorkflowStage
         /\ session[w].row.case_status \in CaseStatus
         /\ session[w].row.assigned_to \in User \cup {None}
<1>1. session[w] \in BusySession
  BY DEF TypeOKReq, BusySession
<1>2. QED
  BY <1>1 DEF BusySession, Loaded

\* The argument of a request, by its operation.
LEMMA RequestType ==
  ASSUME NEW request \in Request
  PROVE  /\ request.op = "transition" => request.arg \in WorkflowStage
         /\ request.op = "set_status" => request.arg \in CaseStatus
         /\ request.op = "assign" => request.arg \in User
BY DEF Request

\* A worker that may commit has loaded row and stages.
LEMMA LoadedType ==
  ASSUME RequestsInv, NEW w \in Worker, session[w].pc = "loaded"
  PROVE  /\ session[w] # Idle
         /\ SessionOK(session[w])
         /\ session[w].stages \in [WorkflowStage -> WorkflowStageStatus]
BY DEF RequestsInv, Idle, SessionOK

\* Flush writes a value of the column's type.
LEMMA FlushType ==
  ASSUME NEW S, NEW stored \in S, NEW loaded, NEW new \in S
  PROVE  Flush(stored, loaded, new) \in S
BY DEF Flush

\* So does the flush of the instances.
LEMMA FlushStagesType ==
  ASSUME TypeOK, NEW o \in Opening,
         NEW loaded \in [WorkflowStage -> WorkflowStageStatus],
         NEW new \in [WorkflowStage -> WorkflowStageStatus],
         FlushStages(o, loaded, new)
  PROVE  instance' \in [Opening -> [WorkflowStage -> WorkflowStageStatus]]
<1>1. \A s \in WorkflowStage :
        Flush(instance[o][s], loaded[s], new[s]) \in WorkflowStageStatus
  BY FlushType DEF TypeOK
<1>2. QED
  BY <1>1 DEF TypeOK, FlushStages

-----------------------------------------------------------------------------
(* The sessions a step leaves alone stay well formed: no case disappears   *)
(* and the trail only grows.                                               *)

\* What a session holds stays true while the trail grows and no case goes away.
LEMMA SessionKept ==
  ASSUME RequestsInv, TrailKept, created \subseteq created',
         NEW w \in Worker, session[w] # Idle, session'[w] = session[w]
  PROVE  SessionOK(session[w])'
<1>1. /\ SessionOK(session[w])
      /\ session[w].opening \in Opening
      /\ session[w].row.current_stage \in WorkflowStage
  BY BusyType DEF RequestsInv
<1>2. SEQUENCE_INDEX[session[w].row.current_stage] \in 1..15
  BY <1>1, IndexSequence
<1>3. PICK o \in Opening, stage \in WorkflowStage :
        o = session[w].opening /\ stage = session[w].row.current_stage
  BY <1>1
<1>4. CommitteesAt(o, stage)'
  BY <1>1, <1>2, <1>3, CommitteesKept DEF SessionOK
<1>5. CommitteesAt(session[w].opening, session[w].row.current_stage)'
  BY <1>3, <1>4
<1>6. QED
  BY <1>1, <1>5 DEF SessionOK

\* A step that takes worker w back to Idle, or touches no session.
LEMMA SessionsKept ==
  ASSUME RequestsInv, TypeOK', TrailKept, created \subseteq created',
         \/ session' = session
         \/ \E w \in Worker : session' = [session EXCEPT ![w] = Idle]
  PROVE  /\ TypeOKReq'
         /\ \A w \in Worker : session'[w] # Idle => SessionOK(session[w])'
<1>1. session \in [Worker -> {Idle} \cup BusySession]
  BY DEF RequestsInv, TypeOKReq, BusySession
<1>2. session' \in [Worker -> {Idle} \cup BusySession]
  BY <1>1
<1>3. TypeOKReq'
  BY <1>2 DEF TypeOKReq, BusySession, Loaded, Request
<1>4. ASSUME NEW w \in Worker, session'[w] # Idle
      PROVE  SessionOK(session[w])'
  <2>1. session'[w] = session[w]
    BY <1>1, <1>4
  <2>2. QED
    BY <1>4, <2>1, SessionKept
<1>5. QED
  BY <1>3, <1>4

-----------------------------------------------------------------------------
(* The steps that load.                                                    *)

\* A session that worker w has just built, or filled.
LEMMA SessionLoaded ==
  ASSUME RequestsInv, UNCHANGED vars, NEW w \in Worker, NEW s \in BusySession,
         session' = [session EXCEPT ![w] = s], SessionOK(s)
  PROVE  RequestsInv'
<1>1. session \in [Worker -> {Idle} \cup BusySession]
  BY DEF RequestsInv, TypeOKReq, BusySession
<1>2. /\ session' \in [Worker -> {Idle} \cup BusySession]
      /\ session'[w] = s
      /\ \A v \in Worker \ {w} : session'[v] = session[v]
  BY <1>1
<1>3. TypeOK' /\ TrailKept /\ created' = created
  BY DEF RequestsInv, TypeOKReq, TypeOK, vars, TrailKept
<1>4. TypeOKReq'
  BY <1>2, <1>3 DEF TypeOKReq, BusySession, Loaded, Request
<1>5. CommitteesInv'
  BY DEF RequestsInv, CommitteesInv, CommitteesAt, EntriesBy, StageEvents, vars
<1>6. ASSUME NEW v \in Worker, session'[v] # Idle
      PROVE  SessionOK(session[v])'
  <2>1. CASE v = w
    <3>1. SessionOK(s)'
      BY DEF SessionOK, CommitteesAt, EntriesBy, StageEvents, vars
    <3>2. QED
      BY <1>2, <2>1, <3>1
  <2>2. CASE v # w
    BY <1>2, <1>3, <1>6, <2>2, SessionKept
  <2>3. QED
    BY <2>1, <2>2
<1>7. QED
  BY <1>4, <1>5, <1>6 DEF RequestsInv

\* The read of the row: what it holds is true of the database.
LEMMA LoadOpening ==
  ASSUME RequestsInv, NEW w \in Worker, NEW o \in Opening,
         NEW request \in Request, NEW u \in User,
         load_opening(w, o, request, u)
  PROVE  RequestsInv'
<1> DEFINE s == [pc |-> "row", request |-> request, opening |-> o,
                 user |-> u, row |-> Row(o), stages |-> None]
<1>1. /\ o \in created
      /\ Admitted(o, request, u)
      /\ session' = [session EXCEPT ![w] = s]
      /\ UNCHANGED vars
  BY DEF load_opening
<1>2. Row(o) \in [current_stage : WorkflowStage, case_status : CaseStatus,
                  assigned_to : User \cup {None}]
  BY DEF Row, RequestsInv, TypeOKReq, TypeOK
<1>3. s \in BusySession
  BY <1>2 DEF BusySession, Loaded
<1>4. CommitteesAt(o, current_stage[o])
  BY <1>1 DEF RequestsInv, CommitteesInv
<1>5. SessionOK(s)
  BY <1>1, <1>4 DEF SessionOK, Row, Admitted
<1> HIDE DEF s
<1>6. QED
  BY <1>1, <1>3, <1>5, SessionLoaded

\* The read of the instances.
LEMMA LoadInstances ==
  ASSUME RequestsInv, NEW w \in Worker, load_instances(w)
  PROVE  RequestsInv'
<1> DEFINE old == session[w]
           s == [old EXCEPT !.pc = "loaded", !.stages = instance[old.opening]]
<1>1. session[w] # Idle
  BY DEF load_instances, Idle
<1>2. old \in BusySession /\ SessionOK(old) /\ old.opening \in Opening
  BY <1>1, BusyType DEF RequestsInv
<1>3. instance[old.opening] \in [WorkflowStage -> WorkflowStageStatus]
  BY <1>2 DEF RequestsInv, TypeOKReq, TypeOK
<1>4. s \in BusySession
  BY <1>2, <1>3 DEF BusySession, Loaded
<1>5. SessionOK(s)
  BY <1>2, <1>3 DEF SessionOK, BusySession, Loaded
<1>6. session' = [session EXCEPT ![w] = s]
  BY DEF load_instances
<1>7. UNCHANGED vars
  BY DEF load_instances
<1> HIDE DEF s, old
<1>8. QED
  BY <1>4, <1>5, <1>6, <1>7, SessionLoaded

-----------------------------------------------------------------------------
(* The commits.                                                            *)

\* What a commit has to show, once its effect on the columns is known: the
\* event of a user of the system, and the committees where it left the case.
LEMMA Committed ==
  ASSUME RequestsInv, NEW w \in Worker, NEW op, Commits(w, op), TypeOK',
         NEW o \in Opening, NEW event \in AuditEvent, Record(o, event),
         UNCHANGED created,
         \A p \in Opening \ {o} : current_stage'[p] = current_stage[p],
         o \in created => CommitteesAt(o, current_stage[o])'
  PROVE  RequestsInv'
<1>1. TrailKept
  BY RecordKeepsTrail, TrailTypes DEF RequestsInv, TypeOKReq
<1>2. /\ TypeOKReq'
      /\ \A v \in Worker : session'[v] # Idle => SessionOK(session[v])'
  BY <1>1, SessionsKept DEF Commits
<1>3. ASSUME NEW p \in created'
      PROVE  CommitteesAt(p, current_stage[p])'
  <2>1. CASE p = o
    BY <2>1
  <2>2. CASE p # o
    BY <1>1, <2>2, CommitteesUntouched, TrailTypes DEF RequestsInv, TypeOKReq, TypeOK
  <2>3. QED
    BY <2>1, <2>2
<1>4. QED
  BY <1>2, <1>3 DEF RequestsInv, CommitteesInv

\* The commit of transition on what its session loaded.
LEMMA CommitTransition ==
  ASSUME RequestsInv, NEW w \in Worker, commit_transition(w)
  PROVE  RequestsInv'
<1>1. /\ session[w].pc = "loaded"
      /\ session[w].request.op = "transition"
      /\ Commits(w, "transition")
  BY DEF commit_transition, Commits
<1>2. PICK o \in Opening, u \in User, current \in WorkflowStage,
           target \in WorkflowStage, status \in CaseStatus,
           stages \in [WorkflowStage -> WorkflowStageStatus] :
        /\ o = session[w].opening /\ u = session[w].user
        /\ current = session[w].row.current_stage
        /\ target = session[w].request.arg
        /\ status = session[w].row.case_status
        /\ stages = session[w].stages
  BY <1>1, LoadedType, BusyType, RequestType DEF RequestsInv
<1>3. /\ o \in created
      /\ is_allowed(current, target)
      /\ can_role_advance(RoleOf[u], target)
      /\ CommitteesAt(o, current)
  BY <1>1, <1>2, LoadedType DEF SessionOK
<1> DEFINE event == Event("STAGE_ADVANCED", current, u, current, target)
<1>4. event \in AuditEvent
  BY EventType DEF AuditAction
<1>5. /\ Record(o, event)
      /\ UNCHANGED <<created, assigned_to>>
      /\ current_stage' = [current_stage EXCEPT ![o] = target]
  BY <1>2 DEF commit_transition
<1>6. TypeOK'
  <2>1. TypeOK
    BY DEF RequestsInv, TypeOKReq
  <2>2. instance' \in [Opening -> [WorkflowStage -> WorkflowStageStatus]]
    BY <1>2, <2>1, StagesType, FlushStagesType DEF commit_transition
  <2>3. tasks' \in [Opening -> Seq(WorkflowTask)]
    BY <1>2, <2>1, NewTasksType DEF commit_transition, TypeOK
  <2>4. audit' \in [Opening -> Seq(AuditEvent)]
    BY <1>4, <1>5, <2>1, RecordType, TrailTypes
  <2>5. /\ completed_at' \in [Opening -> BOOLEAN]
        /\ case_status' \in [Opening -> CaseStatus]
    BY <1>2, <2>1 DEF commit_transition, TypeOK, Flush, CaseStatus
  <2>6. QED
    BY <1>5, <2>1, <2>2, <2>3, <2>4, <2>5 DEF TypeOK
<1>7. CommitteesAt(o, target)'
  BY <1>3, <1>5, CommitteesAdvanced, TrailTypes DEF RequestsInv, TypeOKReq
<1>8. CommitteesAt(o, current_stage[o])'
  BY <1>5, <1>7 DEF RequestsInv, TypeOKReq, TypeOK
<1>9. \A p \in Opening \ {o} : current_stage'[p] = current_stage[p]
  BY <1>5 DEF RequestsInv, TypeOKReq, TypeOK
<1> HIDE DEF event
<1>10. QED
  BY <1>1, <1>4, <1>5, <1>6, <1>8, <1>9, Committed

\* The commit of send_back on what its session loaded.
LEMMA CommitSendBack ==
  ASSUME RequestsInv, NEW w \in Worker, commit_send_back(w)
  PROVE  RequestsInv'
<1>1. /\ session[w].pc = "loaded"
      /\ session[w].request.op = "send_back"
      /\ Commits(w, "send_back")
  BY DEF commit_send_back, Commits
<1>2. PICK o \in Opening, u \in User, current \in WorkflowStage,
           stages \in [WorkflowStage -> WorkflowStageStatus] :
        /\ o = session[w].opening /\ u = session[w].user
        /\ current = session[w].row.current_stage
        /\ stages = session[w].stages
  BY <1>1, LoadedType, BusyType DEF RequestsInv
<1>3. has_previous(current) /\ CommitteesAt(o, current)
  BY <1>1, <1>2, LoadedType DEF SessionOK
<1>4. PICK previous \in WorkflowStage :
        /\ previous = previous_stage(current)
        /\ SEQUENCE_INDEX[previous] = SEQUENCE_INDEX[current] - 1
        /\ SEQUENCE_INDEX[current] \in 1..15
  BY <1>3, PreviousStage, IndexSequence
<1> DEFINE event == Event("STAGE_SENT_BACK", current, u, current, previous)
<1>5. event \in AuditEvent
  BY EventType DEF AuditAction
<1>6. /\ Record(o, event)
      /\ UNCHANGED <<created, case_status, completed_at, assigned_to>>
      /\ current_stage' = [current_stage EXCEPT ![o] = previous]
  BY <1>2, <1>4 DEF commit_send_back
<1>7. TypeOK'
  <2>1. TypeOK
    BY DEF RequestsInv, TypeOKReq
  <2>2. instance' \in [Opening -> [WorkflowStage -> WorkflowStageStatus]]
    BY <1>2, <1>4, <2>1, StagesType, FlushStagesType DEF commit_send_back
  <2>3. tasks' \in [Opening -> Seq(WorkflowTask)]
    BY <1>2, <1>4, <2>1, NewTasksType DEF commit_send_back, TypeOK
  <2>4. audit' \in [Opening -> Seq(AuditEvent)]
    BY <1>5, <1>6, <2>1, RecordType, TrailTypes
  <2>5. QED
    BY <1>6, <2>1, <2>2, <2>3, <2>4 DEF TypeOK
<1>8. TrailKept
  BY <1>5, <1>6, RecordKeepsTrail, TrailTypes DEF RequestsInv, TypeOKReq
<1>9. CommitteesAt(o, previous)'
  BY <1>3, <1>4, <1>8, CommitteesKept
<1>10. CommitteesAt(o, current_stage[o])'
  BY <1>6, <1>9 DEF RequestsInv, TypeOKReq, TypeOK
<1>11. \A p \in Opening \ {o} : current_stage'[p] = current_stage[p]
  BY <1>6 DEF RequestsInv, TypeOKReq, TypeOK
<1> HIDE DEF event
<1>12. QED
  BY <1>1, <1>5, <1>6, <1>7, <1>10, <1>11, Committed

\* A commit that does not move the case.
LEMMA CommitColumn ==
  ASSUME RequestsInv, NEW w \in Worker, NEW op, Commits(w, op),
         NEW o \in Opening, NEW event \in AuditEvent, Record(o, event),
         UNCHANGED <<created, current_stage, instance, tasks>>,
         case_status' \in [Opening -> CaseStatus],
         completed_at' \in [Opening -> BOOLEAN],
         assigned_to' \in [Opening -> User \cup {None}]
  PROVE  RequestsInv'
<1>1. TypeOK /\ CommitteesInv
  BY DEF RequestsInv, TypeOKReq
<1>2. TypeOK'
  BY <1>1, RecordType, TrailTypes DEF TypeOK
<1>3. o \in created => CommitteesAt(o, current_stage[o])'
  BY <1>1, RecordKeepsTrail, TrailTypes, CommitteesUntouched
<1>4. QED
  BY <1>2, <1>3, Committed

\* The commit of set_status.
LEMMA CommitSetStatus ==
  ASSUME RequestsInv, NEW w \in Worker, commit_set_status(w)
  PROVE  RequestsInv'
<1>1. /\ session[w].pc = "loaded"
      /\ session[w].request.op = "set_status"
      /\ Commits(w, "set_status")
  BY DEF commit_set_status, Commits
<1>2. PICK o \in Opening, u \in User, stage \in WorkflowStage,
           old \in CaseStatus, status \in CaseStatus :
        /\ o = session[w].opening /\ u = session[w].user
        /\ stage = session[w].row.current_stage
        /\ old = session[w].row.case_status
        /\ status = session[w].request.arg
  BY <1>1, LoadedType, BusyType, RequestType DEF RequestsInv
<1> DEFINE event == Event("CASE_STATUS_CHANGED", stage, u, old, status)
<1>3. event \in AuditEvent
  BY EventType DEF AuditAction
<1>4. /\ Record(o, event)
      /\ UNCHANGED <<created, current_stage, assigned_to, instance, tasks>>
      /\ case_status' = [case_status EXCEPT ![o] = Flush(@, old, status)]
      /\ completed_at' = [completed_at EXCEPT ![o] =
                            @ \/ status = "COMPLETED"]
  BY <1>2 DEF commit_set_status
<1>5. /\ case_status' \in [Opening -> CaseStatus]
      /\ completed_at' \in [Opening -> BOOLEAN]
      /\ assigned_to' \in [Opening -> User \cup {None}]
  BY <1>4 DEF RequestsInv, TypeOKReq, TypeOK, Flush
<1> HIDE DEF event
<1>6. QED
  BY <1>1, <1>3, <1>4, <1>5, CommitColumn

\* The commit of assign.
LEMMA CommitAssign ==
  ASSUME RequestsInv, NEW w \in Worker, commit_assign(w)
  PROVE  RequestsInv'
<1>1. /\ session[w].pc = "loaded"
      /\ session[w].request.op = "assign"
      /\ Commits(w, "assign")
  BY DEF commit_assign, Commits
<1>2. PICK o \in Opening, u \in User, stage \in WorkflowStage,
           old \in User \cup {None}, assignee \in User :
        /\ o = session[w].opening /\ u = session[w].user
        /\ stage = session[w].row.current_stage
        /\ old = session[w].row.assigned_to
        /\ assignee = session[w].request.arg
  BY <1>1, LoadedType, BusyType, RequestType DEF RequestsInv
<1> DEFINE event == Event("CASE_ASSIGNED", stage, u, old, assignee)
<1>3. event \in AuditEvent
  BY EventType DEF AuditAction
<1>4. /\ Record(o, event)
      /\ UNCHANGED <<created, current_stage, case_status, completed_at,
                     instance, tasks>>
      /\ assigned_to' = [assigned_to EXCEPT ![o] = Flush(@, old, assignee)]
  BY <1>2 DEF commit_assign
<1>5. /\ case_status' \in [Opening -> CaseStatus]
      /\ completed_at' \in [Opening -> BOOLEAN]
      /\ assigned_to' \in [Opening -> User \cup {None}]
  BY <1>4 DEF RequestsInv, TypeOKReq, TypeOK, Flush
<1> HIDE DEF event
<1>6. QED
  BY <1>1, <1>3, <1>4, <1>5, CommitColumn

-----------------------------------------------------------------------------
(* The steps without a session of their own.                               *)

\* The requests that are one step: create, start_task, complete_task.
LEMMA OneStepKept ==
  ASSUME RequestsInv, OneStep
  PROVE  RequestsInv'
<1>1. TypeOK /\ CommitteesInv
  BY DEF RequestsInv, TypeOKReq
<1>2. PICK o \in Opening, u \in User :
        \/ create(o, u)
        \/ \E i \in DOMAIN tasks[o] : start_task(o, i, u)
        \/ \E i \in DOMAIN tasks[o] : complete_task(o, i, u)
  BY DEF OneStep
<1>3. TypeOK' /\ CommitteesInv' /\ TrailKept /\ created \subseteq created'
  <2>1. CASE create(o, u)
    <3> DEFINE event == Event("CASE_CREATED", "REQUIREMENT", u, None, None)
    <3>1. event \in AuditEvent
      BY Ends, EventType DEF AuditAction
    <3>2. TrailKept
      BY <1>1, <2>1, <3>1, RecordKeepsTrail, TrailTypes DEF create
    <3>3. QED
      BY <1>1, <2>1, <3>2, CreateType, CreateCommittees DEF create
  <2>2. ASSUME NEW i \in DOMAIN tasks[o], start_task(o, i, u)
        PROVE  /\ TypeOK' /\ CommitteesInv' /\ TrailKept
               /\ created \subseteq created'
    <3>1. TypeOK'
      BY <1>1, <2>2, TaskStepType
    <3>2. TrailKept /\ UNCHANGED <<created, current_stage>>
      BY <2>2 DEF start_task, TrailKept
    <3>3. CommitteesInv'
      BY <1>1, <3>2, CommitteesUntouched, TrailTypes DEF CommitteesInv
    <3>4. QED
      BY <3>1, <3>2, <3>3
  <2>3. ASSUME NEW i \in DOMAIN tasks[o], complete_task(o, i, u)
        PROVE  /\ TypeOK' /\ CommitteesInv' /\ TrailKept
               /\ created \subseteq created'
    <3> DEFINE event == Event("TASK_COMPLETED", tasks[o][i].stage, u, None,
                              tasks[o][i].task_type)
    <3>1. tasks[o][i] \in WorkflowTask
      BY <1>1, <2>3 DEF TypeOK
    <3>2. event \in AuditEvent
      BY <3>1, EventType DEF AuditAction, WorkflowTask
    <3>3. Record(o, event) /\ UNCHANGED <<created, current_stage>>
      BY <2>3 DEF complete_task
    <3>4. TypeOK'
      BY <1>1, <2>3, TaskStepType
    <3> HIDE DEF event
    <3>5. TrailKept
      BY <1>1, <3>2, <3>3, RecordKeepsTrail, TrailTypes
    <3>6. CommitteesInv'
      BY <1>1, <3>3, <3>5, CommitteesUntouched, TrailTypes DEF CommitteesInv
    <3>7. QED
      BY <3>3, <3>4, <3>5, <3>6
  <2>4. QED
    BY <1>2, <2>1, <2>2, <2>3
<1>4. session' = session
  BY DEF OneStep
<1>5. QED
  BY <1>3, <1>4, SessionsKept DEF RequestsInv

\* A session that dies takes nothing with it.
LEMMA Crashed ==
  ASSUME RequestsInv, NEW w \in Worker, crash(w)
  PROVE  RequestsInv'
<1>1. UNCHANGED vars /\ session' = [session EXCEPT ![w] = Idle]
  BY DEF crash
<1>2. TypeOK' /\ TrailKept /\ created' = created
  BY <1>1 DEF RequestsInv, TypeOKReq, TypeOK, vars, TrailKept
<1>3. CommitteesInv'
  BY <1>1 DEF RequestsInv, CommitteesInv, CommitteesAt, EntriesBy, StageEvents,
              vars
<1>4. QED
  BY <1>1, <1>2, <1>3, SessionsKept DEF RequestsInv

-----------------------------------------------------------------------------
\* Every step of every worker keeps RequestsInv.
LEMMA RequestsStep == RequestsInv /\ [NextReq]_reqVars => RequestsInv'
<1> SUFFICES ASSUME RequestsInv, [NextReq]_reqVars PROVE RequestsInv'
  OBVIOUS
<1>1. CASE OneStep
  BY <1>1, OneStepKept
<1>2. ASSUME NEW w \in Worker, NEW o \in Opening, NEW request \in Request,
             NEW u \in User, load_opening(w, o, request, u)
      PROVE  RequestsInv'
  BY <1>2, LoadOpening
<1>3. ASSUME NEW w \in Worker, load_instances(w) PROVE RequestsInv'
  BY <1>3, LoadInstances
<1>4. ASSUME NEW w \in Worker, commit_transition(w) PROVE RequestsInv'
  BY <1>4, CommitTransition
<1>5. ASSUME NEW w \in Worker, commit_send_back(w) PROVE RequestsInv'
  BY <1>5, CommitSendBack
<1>6. ASSUME NEW w \in Worker, commit_set_status(w) PROVE RequestsInv'
  BY <1>6, CommitSetStatus
<1>7. ASSUME NEW w \in Worker, commit_assign(w) PROVE RequestsInv'
  BY <1>7, CommitAssign
<1>8. ASSUME NEW w \in Worker, crash(w) PROVE RequestsInv'
  BY <1>8, Crashed
<1>9. CASE UNCHANGED reqVars
  <2>1. UNCHANGED vars /\ session' = session
    BY <1>9 DEF reqVars
  <2>2. TypeOK' /\ TrailKept /\ created' = created
    BY <2>1 DEF RequestsInv, TypeOKReq, TypeOK, vars, TrailKept
  <2>3. CommitteesInv'
    BY <2>1 DEF RequestsInv, CommitteesInv, CommitteesAt, EntriesBy,
                StageEvents, vars
  <2>4. QED
    BY <2>1, <2>2, <2>3, SessionsKept DEF RequestsInv
<1>10. QED
  BY <1>1, <1>2, <1>3, <1>4, <1>5, <1>6, <1>7, <1>8, <1>9 DEF NextReq, Sessions

\* RequestsInv holds at first.
LEMMA RequestsStart == InitReq => RequestsInv
<1> SUFFICES ASSUME InitReq PROVE RequestsInv
  OBVIOUS
<1>1. TypeOK
  BY InitType DEF InitReq
<1>2. CommitteesInv
  BY DEF InitReq, Init, CommitteesInv
<1>3. QED
  BY <1>1, <1>2 DEF InitReq, RequestsInv, TypeOKReq

\* Rows and sessions stay well formed for any number of workers, whatever
\* they loaded and whenever they commit or die.
THEOREM RequestsTypeCorrect == SpecReq => []TypeOKReq
<1>1. RequestsInv => TypeOKReq
  BY DEF RequestsInv
<1>2. QED
  BY <1>1, RequestsStart, RequestsStep, PTL DEF SpecReq

\* No interleaving of stale reads and commits takes a case to PAYMENT past
\* either committee: what a session decided on was true when it was loaded,
\* and the trail forgets nothing.
THEOREM CommitteesBeforePaymentInRaces == SpecReq => []CommitteeBeforePayment
<1>1. RequestsInv => CommitteeBeforePayment
  BY DEF RequestsInv, CommitteesInv, CommitteesAt, CommitteeBeforePayment
<1>2. QED
  BY <1>1, RequestsStart, RequestsStep, PTL DEF SpecReq
-----------------------------------------------------------------------------
(* The end of the audit trail under concurrent requests: a case stands     *)
(* where its last stage event says, on a stage that was started.  The      *)
(* chain of the trail breaks in a race; its end does not.                  *)

(* A stage that was started when a session loaded it was started for good: *)
(* no commit writes PENDING.  That is why a stale transition, which leaves *)
(* alone a target it had found started, still ends on a started stage.     *)

Started(o, stage) == instance[o][stage] # "PENDING"

LoadedStarted(s) ==
  s.pc = "loaded" =>
    \A stage \in WorkflowStage :
      s.stages[stage] # "PENDING" => Started(s.opening, stage)

RaceTrailInv ==
  /\ TrailEndsAtCurrentStage
  /\ \A o \in Opening \ created : StageEvents(o) = {}
  /\ \A w \in Worker : LoadedStarted(session[w])

\* As long as no stage of a case is reset.
LEMMA StartedStays ==
  ASSUME RequestsInv, RaceTrailInv,
         \A o \in created, stage \in WorkflowStage :
           instance[o][stage] # "PENDING" => instance'[o][stage] # "PENDING",
         \/ session' = session
         \/ \E w \in Worker : session' = [session EXCEPT ![w] = Idle]
  PROVE  \A w \in Worker : LoadedStarted(session[w])'
<1> SUFFICES ASSUME NEW w \in Worker PROVE LoadedStarted(session[w])'
  OBVIOUS
<1>1. session \in [Worker -> {Idle} \cup BusySession]
  BY DEF RequestsInv, TypeOKReq, BusySession
<1>2. CASE session'[w] = Idle
  BY <1>2 DEF LoadedStarted, Idle
<1>3. CASE session'[w] # Idle
  <2>1. session'[w] = session[w] /\ session[w] # Idle
    BY <1>1, <1>3
  <2>2. session[w].opening \in created
    BY <2>1 DEF RequestsInv, SessionOK
  <2>3. LoadedStarted(session[w])
    BY DEF RaceTrailInv
  <2>4. QED
    BY <2>1, <2>2, <2>3 DEF LoadedStarted, Started
<1>4. QED
  BY <1>2, <1>3

\* A step that touches one case, starts stages and resets none.
LEMMA CaseTouched ==
  ASSUME RequestsInv, RaceTrailInv, NEW o \in created, UNCHANGED created,
         \A p \in Opening \ {o} : /\ audit'[p] = audit[p]
                                 /\ current_stage'[p] = current_stage[p]
                                 /\ instance'[p] = instance[p],
         \A stage \in WorkflowStage :
           instance[o][stage] # "PENDING" => instance'[o][stage] # "PENDING",
         TrailEnds(o)', instance'[o][current_stage'[o]] # "PENDING",
         \/ session' = session
         \/ \E w \in Worker : session' = [session EXCEPT ![w] = Idle]
  PROVE  RaceTrailInv'
<1>1. /\ created \subseteq Opening
      /\ session \in [Worker -> {Idle} \cup BusySession]
  BY DEF RequestsInv, TypeOKReq, TypeOK, BusySession
<1>2. ASSUME NEW p \in created'
      PROVE  (TrailEnds(p) /\ instance[p][current_stage[p]] # "PENDING")'
  <2>1. CASE p = o
    BY <2>1
  <2>2. CASE p # o
    <3>1. p \in Opening \ {o} /\ p \in created
      BY <1>1, <2>2
    <3>2. TrailEnds(p) /\ instance[p][current_stage[p]] # "PENDING"
      BY <3>1 DEF RaceTrailInv, TrailEndsAtCurrentStage
    <3>3. QED
      BY <3>1, <3>2 DEF TrailEnds, StageEvents
  <2>3. QED
    BY <2>1, <2>2
<1>3. ASSUME NEW p \in Opening \ created' PROVE StageEvents(p)' = {}
  <2>1. p \in Opening \ {o} /\ StageEvents(p) = {}
    BY <1>3 DEF RaceTrailInv
  <2>2. QED
    BY <2>1 DEF StageEvents
<1>4. \A w \in Worker : LoadedStarted(session[w])'
  <2>1. \A p \in created, stage \in WorkflowStage :
          instance[p][stage] # "PENDING" => instance'[p][stage] # "PENDING"
    BY <1>1
  <2>2. QED
    BY <2>1, StartedStays
<1>5. QED
  BY <1>2, <1>3, <1>4 DEF RaceTrailInv, TrailEndsAtCurrentStage

\* A session that resets no stage among those it loaded resets none in the
\* database, and the stages it left started are started there.
LEMMA StagesFlushed ==
  ASSUME TypeOK, NEW o \in Opening,
         NEW loaded \in [WorkflowStage -> WorkflowStageStatus],
         NEW new \in [WorkflowStage -> WorkflowStageStatus],
         FlushStages(o, loaded, new),
         \A stage \in WorkflowStage :
           new[stage] = "PENDING" => loaded[stage] = "PENDING"
  PROVE  /\ \A p \in Opening \ {o} : instance'[p] = instance[p]
         /\ \A stage \in WorkflowStage :
              /\ Started(o, stage) => instance'[o][stage] # "PENDING"
              /\ /\ new[stage] # "PENDING"
                 /\ loaded[stage] # "PENDING" => Started(o, stage)
                 => instance'[o][stage] # "PENDING"
<1>1. /\ instance'[o] = [stage \in WorkflowStage |->
                          Flush(instance[o][stage], loaded[stage], new[stage])]
      /\ \A p \in Opening \ {o} : instance'[p] = instance[p]
  BY DEF TypeOK, FlushStages
<1>2. QED
  BY <1>1 DEF Started, Flush

\* The commit of a move, forward or back.
LEMMA MoveCommitted ==
  ASSUME RequestsInv, RaceTrailInv, NEW w \in Worker,
         session' = [session EXCEPT ![w] = Idle],
         NEW o \in created, NEW event \in AuditEvent, Record(o, event),
         event.action \in {"STAGE_ADVANCED", "STAGE_SENT_BACK"},
         UNCHANGED created, event.new_value = current_stage'[o],
         \A p \in Opening \ {o} : /\ current_stage'[p] = current_stage[p]
                                 /\ instance'[p] = instance[p],
         \A stage \in WorkflowStage :
           Started(o, stage) => instance'[o][stage] # "PENDING",
         instance'[o][current_stage'[o]] # "PENDING"
  PROVE  RaceTrailInv'
<1>1. TypeOK /\ o \in Opening
  BY DEF RequestsInv, TypeOKReq, TypeOK
<1>2. \A p \in Opening \ {o} : /\ audit'[p] = audit[p]
                                /\ current_stage'[p] = current_stage[p]
                                /\ instance'[p] = instance[p]
  BY <1>1 DEF TypeOK, Record
<1>3. TrailEnds(o)'
  BY <1>1, MoveEndsTrail
<1>4. \E v \in Worker : session' = [session EXCEPT ![v] = Idle]
  OBVIOUS
<1>5. QED
  BY <1>2, <1>3, <1>4, CaseTouched DEF Started

\* A step that records an event that is no move, and moves no case.
LEMMA NoMoveCommitted ==
  ASSUME RequestsInv, RaceTrailInv, NEW o \in Opening,
         NEW event \in AuditEvent, Record(o, event),
         event.action \notin {"STAGE_ADVANCED", "STAGE_SENT_BACK"},
         UNCHANGED <<created, current_stage, instance>>,
         \/ session' = session
         \/ \E w \in Worker : session' = [session EXCEPT ![w] = Idle]
  PROVE  RaceTrailInv'
<1>1. TypeOK /\ created \subseteq Opening
  BY DEF RequestsInv, TypeOKReq, TypeOK
<1>2. ASSUME NEW p \in Opening
      PROVE  /\ StageEvents(p)' = StageEvents(p)
             /\ TrailEnds(p) => TrailEnds(p)'
  <2>1. CASE p = o
    <3>1. /\ StageEvents(o)' = StageEvents(o)
          /\ \A i \in StageEvents(o) : audit'[o][i] = audit[o][i]
      BY <1>1, TrailPrefix, TrailTypes
    <3>2. QED
      BY <2>1, <3>1 DEF TrailEnds
  <2>2. CASE p # o
    <3>1. audit'[p] = audit[p]
      BY <1>1, <2>2 DEF TypeOK, Record
    <3>2. StageEvents(p)' = StageEvents(p)
      BY <3>1 DEF StageEvents
    <3>3. QED
      BY <3>1, <3>2 DEF TrailEnds
  <2>3. QED
    BY <2>1, <2>2
<1>3. TrailEndsAtCurrentStage'
  BY <1>1, <1>2 DEF RaceTrailInv, TrailEndsAtCurrentStage
<1>4. ASSUME NEW p \in Opening \ created' PROVE StageEvents(p)' = {}
  BY <1>2, <1>4 DEF RaceTrailInv
<1>5. \A w \in Worker : LoadedStarted(session[w])'
  BY StartedStays
<1>6. QED
  BY <1>3, <1>4, <1>5 DEF RaceTrailInv

-----------------------------------------------------------------------------
(* Neither kind of move makes a stage PENDING that was not, or leaves its  *)
(* target PENDING.                                                         *)

\* The stage a transition enters is started afterwards.
LEMMA AdvanceStarts ==
  ASSUME NEW stages \in [WorkflowStage -> WorkflowStageStatus],
         NEW current \in WorkflowStage, NEW target \in WorkflowStage,
         NEW after, after = stages_advanced(stages, current, target)
  PROVE  /\ after \in [WorkflowStage -> WorkflowStageStatus]
         /\ after[target] # "PENDING"
         /\ \A stage \in WorkflowStage :
              after[stage] = "PENDING" => stages[stage] = "PENDING"
BY DEF stages_advanced, start_stage, close_stage, WorkflowStageStatus

\* The stage a case is sent back to is started afterwards.
LEMMA SendBackStarts ==
  ASSUME NEW stages \in [WorkflowStage -> WorkflowStageStatus],
         NEW current \in WorkflowStage, NEW previous \in WorkflowStage,
         NEW after, after = stages_sent_back(stages, current, previous)
  PROVE  /\ after \in [WorkflowStage -> WorkflowStageStatus]
         /\ after[previous] # "PENDING"
         /\ \A stage \in WorkflowStage :
              after[stage] = "PENDING" => stages[stage] = "PENDING"
BY DEF stages_sent_back, start_stage, close_stage, WorkflowStageStatus

\* The commit of transition leaves the trail ending where the case stands.
LEMMA TransitionEnds ==
  ASSUME RequestsInv, RaceTrailInv, NEW w \in Worker, commit_transition(w)
  PROVE  RaceTrailInv'
<1>1. /\ session[w].pc = "loaded"
      /\ session[w].request.op = "transition"
      /\ Commits(w, "transition")
  BY DEF commit_transition, Commits
<1>2. PICK o \in Opening, u \in User, current \in WorkflowStage,
           target \in WorkflowStage,
           loaded \in [WorkflowStage -> WorkflowStageStatus] :
        /\ o = session[w].opening /\ u = session[w].user
        /\ current = session[w].row.current_stage
        /\ target = session[w].request.arg
        /\ loaded = session[w].stages
  BY <1>1, LoadedType, BusyType, RequestType DEF RequestsInv
<1>3. o \in created /\ is_allowed(current, target)
  BY <1>1, <1>2, LoadedType DEF SessionOK
<1> DEFINE event == Event("STAGE_ADVANCED", current, u, current, target)
           new == stages_advanced(loaded, current, target)
<1>4. /\ event \in AuditEvent
      /\ event.action \in {"STAGE_ADVANCED", "STAGE_SENT_BACK"}
      /\ event.new_value = target
  BY EventType DEF AuditAction, Event
<1>5. /\ new \in [WorkflowStage -> WorkflowStageStatus]
      /\ new[target] # "PENDING"
      /\ \A stage \in WorkflowStage :
           new[stage] = "PENDING" => loaded[stage] = "PENDING"
  BY AdvanceStarts
<1>6. /\ Record(o, event)
      /\ UNCHANGED created
      /\ current_stage' = [current_stage EXCEPT ![o] = target]
      /\ FlushStages(o, loaded, new)
  BY <1>2 DEF commit_transition
<1> HIDE DEF event, new
<1>7. /\ TypeOK /\ o \in Opening /\ current_stage'[o] = target
      /\ \A p \in Opening \ {o} : current_stage'[p] = current_stage[p]
  BY <1>6 DEF RequestsInv, TypeOKReq, TypeOK
<1>8. loaded[target] # "PENDING" => Started(o, target)
  BY <1>1, <1>2 DEF RaceTrailInv, LoadedStarted
<1>9. /\ \A p \in Opening \ {o} : instance'[p] = instance[p]
      /\ \A stage \in WorkflowStage :
           Started(o, stage) => instance'[o][stage] # "PENDING"
      /\ instance'[o][target] # "PENDING"
  BY <1>5, <1>6, <1>7, <1>8, StagesFlushed
<1>10. session' = [session EXCEPT ![w] = Idle]
  BY <1>1 DEF Commits
<1>11. /\ event.new_value = current_stage'[o]
       /\ instance'[o][current_stage'[o]] # "PENDING"
       /\ \A p \in Opening \ {o} : /\ current_stage'[p] = current_stage[p]
                                  /\ instance'[p] = instance[p]
  BY <1>4, <1>7, <1>9
<1>12. QED
  BY <1>3, <1>4, <1>6, <1>9, <1>10, <1>11, MoveCommitted

\* The commit of send_back leaves the trail ending where the case stands.
LEMMA SendBackEnds ==
  ASSUME RequestsInv, RaceTrailInv, NEW w \in Worker, commit_send_back(w)
  PROVE  RaceTrailInv'
<1>1. /\ session[w].pc = "loaded"
      /\ session[w].request.op = "send_back"
      /\ Commits(w, "send_back")
  BY DEF commit_send_back, Commits
<1>2. PICK o \in Opening, u \in User, current \in WorkflowStage,
           loaded \in [WorkflowStage -> WorkflowStageStatus] :
        /\ o = session[w].opening /\ u = session[w].user
        /\ current = session[w].row.current_stage
        /\ loaded = session[w].stages
  BY <1>1, LoadedType, BusyType DEF RequestsInv
<1>3. o \in created /\ has_previous(current)
  BY <1>1, <1>2, LoadedType DEF SessionOK
<1>4. PICK previous \in WorkflowStage : previous = previous_stage(current)
  BY <1>3, PreviousStage
<1> DEFINE event == Event("STAGE_SENT_BACK", current, u, current, previous)
           new == stages_sent_back(loaded, current, previous)
<1>5. /\ event \in AuditEvent
      /\ event.action \in {"STAGE_ADVANCED", "STAGE_SENT_BACK"}
      /\ event.new_value = previous
  BY EventType DEF AuditAction, Event
<1>6. /\ new \in [WorkflowStage -> WorkflowStageStatus]
      /\ new[previous] # "PENDING"
      /\ \A stage \in WorkflowStage :
           new[stage] = "PENDING" => loaded[stage] = "PENDING"
  BY SendBackStarts
<1>7. /\ Record(o, event)
      /\ UNCHANGED created
      /\ current_stage' = [current_stage EXCEPT ![o] = previous]
      /\ FlushStages(o, loaded, new)
  BY <1>2, <1>4 DEF commit_send_back
<1> HIDE DEF event, new
<1>8. /\ TypeOK /\ o \in Opening /\ current_stage'[o] = previous
      /\ \A p \in Opening \ {o} : current_stage'[p] = current_stage[p]
  BY <1>7 DEF RequestsInv, TypeOKReq, TypeOK
<1>9. loaded[previous] # "PENDING" => Started(o, previous)
  BY <1>1, <1>2 DEF RaceTrailInv, LoadedStarted
<1>10. /\ \A p \in Opening \ {o} : instance'[p] = instance[p]
       /\ \A stage \in WorkflowStage :
            Started(o, stage) => instance'[o][stage] # "PENDING"
       /\ instance'[o][previous] # "PENDING"
  BY <1>6, <1>7, <1>8, <1>9, StagesFlushed
<1>11. session' = [session EXCEPT ![w] = Idle]
  BY <1>1 DEF Commits
<1>12. /\ event.new_value = current_stage'[o]
       /\ instance'[o][current_stage'[o]] # "PENDING"
       /\ \A p \in Opening \ {o} : /\ current_stage'[p] = current_stage[p]
                                  /\ instance'[p] = instance[p]
  BY <1>5, <1>8, <1>10
<1>13. QED
  BY <1>3, <1>5, <1>7, <1>10, <1>11, <1>12, MoveCommitted

\* set_status and assign.
LEMMA ColumnEnds ==
  ASSUME RequestsInv, RaceTrailInv, NEW w \in Worker,
         commit_set_status(w) \/ commit_assign(w)
  PROVE  RaceTrailInv'
<1>1. /\ session[w].pc = "loaded"
      /\ session' = [session EXCEPT ![w] = Idle]
      /\ UNCHANGED <<created, current_stage, instance>>
  BY DEF commit_set_status, commit_assign, Commits
<1>2. PICK o \in Opening, u \in User, stage \in WorkflowStage :
        /\ o = session[w].opening /\ u = session[w].user
        /\ stage = session[w].row.current_stage
  BY <1>1, LoadedType, BusyType DEF RequestsInv
<1>3. PICK event \in AuditEvent :
        /\ Record(o, event)
        /\ event.action \notin {"STAGE_ADVANCED", "STAGE_SENT_BACK"}
  <2>1. CASE commit_set_status(w)
    <3>1. PICK old \in CaseStatus, status \in CaseStatus :
            /\ old = session[w].row.case_status
            /\ status = session[w].request.arg
      BY <1>1, <2>1, LoadedType, BusyType, RequestType
      DEF commit_set_status, Commits, RequestsInv
    <3> DEFINE event == Event("CASE_STATUS_CHANGED", stage, u, old, status)
    <3>2. event \in AuditEvent /\ event.action = "CASE_STATUS_CHANGED"
      BY EventType DEF AuditAction, Event
    <3>3. Record(o, event)
      BY <1>2, <2>1, <3>1 DEF commit_set_status
    <3>4. QED
      BY <3>2, <3>3
  <2>2. CASE commit_assign(w)
    <3>1. PICK old \in User \cup {None}, assignee \in User :
            /\ old = session[w].row.assigned_to
            /\ assignee = session[w].request.arg
      BY <1>1, <2>2, LoadedType, BusyType, RequestType
      DEF commit_assign, Commits, RequestsInv
    <3> DEFINE event == Event("CASE_ASSIGNED", stage, u, old, assignee)
    <3>2. event \in AuditEvent /\ event.action = "CASE_ASSIGNED"
      BY EventType DEF AuditAction, Event
    <3>3. Record(o, event)
      BY <1>2, <2>2, <3>1 DEF commit_assign
    <3>4. QED
      BY <3>2, <3>3
  <2>3. QED
    BY <2>1, <2>2
<1>4. QED
  BY <1>1, <1>3, NoMoveCommitted

\* What changes no case, and loads at most.
LEMMA CasesUntouched ==
  ASSUME RequestsInv, RaceTrailInv, UNCHANGED vars,
         \A w \in Worker : LoadedStarted(session'[w])
  PROVE  RaceTrailInv'
<1>1. \A w \in Worker : LoadedStarted(session[w])'
  BY DEF LoadedStarted, Started, vars
<1>2. QED
  BY <1>1 DEF RaceTrailInv, TrailEndsAtCurrentStage, TrailEnds, StageEvents,
              vars

\* Reads, and sessions that die, leave the trail and its end.
LEMMA LoadEnds ==
  ASSUME RequestsInv, RaceTrailInv, NEW w \in Worker,
         \/ \E o \in Opening, request \in Request, u \in User :
              load_opening(w, o, request, u)
         \/ load_instances(w)
         \/ crash(w)
  PROVE  RaceTrailInv'
<1>1. UNCHANGED vars
  BY DEF load_opening, load_instances, crash
<1>2. session \in [Worker -> {Idle} \cup BusySession]
  BY DEF RequestsInv, TypeOKReq, BusySession
<1>3. \A v \in Worker \ {w} : session'[v] = session[v]
  BY <1>2 DEF load_opening, load_instances, crash
<1>4. LoadedStarted(session'[w])
  <2>1. CASE load_instances(w)
    <3>1. session[w] \in BusySession
      BY <1>2, <2>1 DEF load_instances, Idle
    <3>2. /\ session'[w].stages = instance[session[w].opening]
          /\ session'[w].opening = session[w].opening
      BY <1>2, <2>1, <3>1 DEF load_instances, BusySession, Loaded
    <3>3. QED
      BY <3>2 DEF LoadedStarted, Started
  <2>2. CASE \E o \in Opening, request \in Request, u \in User :
               load_opening(w, o, request, u)
    BY <1>2, <2>2 DEF load_opening, LoadedStarted
  <2>3. CASE crash(w)
    BY <1>2, <2>3 DEF crash, LoadedStarted, Idle
  <2>4. QED
    BY <2>1, <2>2, <2>3
<1>5. \A v \in Worker : LoadedStarted(session'[v])
  BY <1>3, <1>4 DEF RaceTrailInv
<1>6. QED
  BY <1>1, <1>5, CasesUntouched

\* The requests that are one step leave every trail ending where its case stands.
LEMMA OneStepEnds ==
  ASSUME RequestsInv, RaceTrailInv, OneStep
  PROVE  RaceTrailInv'
<1>1. TypeOK /\ session' = session
  BY DEF RequestsInv, TypeOKReq, OneStep
<1>2. ASSUME NEW o \in Opening, NEW u \in User, create(o, u)
      PROVE  RaceTrailInv'
  <2> DEFINE event == Event("CASE_CREATED", "REQUIREMENT", u, None, None)
  <2>1. event \in AuditEvent /\ event.action = "CASE_CREATED"
    BY Ends, EventType DEF AuditAction, Event
  <2> HIDE DEF event
  <2>2. /\ Record(o, event)
        /\ o \notin created
        /\ created' = created \cup {o}
        /\ created \subseteq Opening
        /\ current_stage'[o] = "REQUIREMENT"
        /\ instance'[o]["REQUIREMENT"] = "IN_PROGRESS"
        /\ \A p \in Opening \ {o} : /\ current_stage'[p] = current_stage[p]
                                   /\ audit'[p] = audit[p]
                                   /\ instance'[p] = instance[p]
    BY <1>1, <1>2, Ends DEF TypeOK, create, Record, SEQUENCE, event
  <2>3. StageEvents(o)' = {}
    <3>1. StageEvents(o) = {}
      BY <2>2 DEF RaceTrailInv
    <3>2. QED
      BY <1>1, <2>1, <2>2, <3>1, TrailPrefix, TrailTypes
  <2>4. ASSUME NEW p \in created'
        PROVE  (TrailEnds(p) /\ instance[p][current_stage[p]] # "PENDING")'
    <3>1. CASE p = o
      BY <2>2, <2>3, <3>1 DEF TrailEnds
    <3>2. CASE p # o
      <4>1. p \in Opening \ {o} /\ p \in created
        BY <2>2, <3>2
      <4>2. TrailEnds(p) /\ instance[p][current_stage[p]] # "PENDING"
        BY <4>1 DEF RaceTrailInv, TrailEndsAtCurrentStage
      <4>3. QED
        BY <2>2, <4>1, <4>2 DEF TrailEnds, StageEvents
    <3>3. QED
      BY <3>1, <3>2
  <2>5. ASSUME NEW p \in Opening \ created' PROVE StageEvents(p)' = {}
    <3>1. p \in Opening \ {o} /\ StageEvents(p) = {}
      BY <2>2, <2>5 DEF RaceTrailInv
    <3>2. QED
      BY <2>2, <3>1 DEF StageEvents
  <2>6. \A w \in Worker : LoadedStarted(session[w])'
    <3>1. \A p \in created : instance'[p] = instance[p]
      BY <2>2
    <3>2. QED
      BY <1>1, <3>1, StartedStays
  <2>7. QED
    BY <2>4, <2>5, <2>6 DEF RaceTrailInv, TrailEndsAtCurrentStage
<1>3. ASSUME NEW o \in Opening, NEW u \in User, NEW i \in DOMAIN tasks[o],
             start_task(o, i, u)
      PROVE  RaceTrailInv'
  <2>1. UNCHANGED <<created, current_stage, instance, audit>>
    BY <1>3 DEF start_task
  <2>2. \A w \in Worker : LoadedStarted(session[w])'
    BY <1>1, <2>1 DEF RaceTrailInv, LoadedStarted, Started
  <2>3. QED
    BY <2>1, <2>2 DEF RaceTrailInv, TrailEndsAtCurrentStage, TrailEnds,
                      StageEvents
<1>4. ASSUME NEW o \in Opening, NEW u \in User, NEW i \in DOMAIN tasks[o],
             complete_task(o, i, u)
      PROVE  RaceTrailInv'
  <2> DEFINE event == Event("TASK_COMPLETED", tasks[o][i].stage, u, None,
                            tasks[o][i].task_type)
  <2>1. tasks[o][i] \in WorkflowTask
    BY <1>1, <1>4 DEF TypeOK
  <2>2. event \in AuditEvent /\ event.action = "TASK_COMPLETED"
    BY <2>1, EventType DEF AuditAction, Event, WorkflowTask
  <2>3. Record(o, event) /\ UNCHANGED <<created, current_stage, instance>>
    BY <1>4 DEF complete_task
  <2> HIDE DEF event
  <2>4. QED
    BY <1>1, <2>2, <2>3, NoMoveCommitted
<1>5. QED
  BY <1>2, <1>3, <1>4 DEF OneStep

\* Whatever the interleaving, the last stage event of a case led to where it
\* stands, and it stands on a started stage: no commit moves a case without
\* its event, and no stale commit resets a stage.
THEOREM TrailAlwaysEndsAtCurrentStage == SpecReq => []TrailEndsAtCurrentStage
<1>1. InitReq => RaceTrailInv
  BY DEF InitReq, Init, Idle, RaceTrailInv, TrailEndsAtCurrentStage,
         StageEvents, LoadedStarted
<1>2. RequestsInv /\ RaceTrailInv /\ [NextReq]_reqVars => RaceTrailInv'
  <2> SUFFICES ASSUME RequestsInv, RaceTrailInv, [NextReq]_reqVars
               PROVE  RaceTrailInv'
    OBVIOUS
  <2>1. CASE OneStep
    BY <2>1, OneStepEnds
  <2>2. ASSUME NEW w \in Worker,
               \/ \E o \in Opening, request \in Request, u \in User :
                    load_opening(w, o, request, u)
               \/ load_instances(w)
               \/ crash(w)
        PROVE  RaceTrailInv'
    BY <2>2, LoadEnds
  <2>3. ASSUME NEW w \in Worker, commit_transition(w) PROVE RaceTrailInv'
    BY <2>3, TransitionEnds
  <2>4. ASSUME NEW w \in Worker, commit_send_back(w) PROVE RaceTrailInv'
    BY <2>4, SendBackEnds
  <2>5. ASSUME NEW w \in Worker, commit_set_status(w) \/ commit_assign(w)
        PROVE  RaceTrailInv'
    BY <2>5, ColumnEnds
  <2>6. CASE UNCHANGED reqVars
    BY <2>6, CasesUntouched DEF reqVars, RaceTrailInv
  <2>7. QED
    BY <2>1, <2>2, <2>3, <2>4, <2>5, <2>6 DEF NextReq, Sessions
<1>3. RaceTrailInv => TrailEndsAtCurrentStage
  BY DEF RaceTrailInv
<1>4. QED
  BY <1>1, <1>2, <1>3, RequestsStart, RequestsStep, PTL DEF SpecReq

-----------------------------------------------------------------------------
(* A single session at a time: the requests are the serial engine.         *)

Alone ==
  \A v, w \in Worker : session[v] # Idle /\ session[w] # Idle => v = w

\* What the session has loaded is what the database holds, and its request is
\* still admitted.
Fresh(s) ==
  /\ s.row = Row(s.opening)
  /\ s.pc = "loaded" => s.stages = instance[s.opening]
  /\ Admitted(s.opening, s.request, s.user)

AloneInv ==
  /\ RequestsInv
  /\ Alone
  /\ \A w \in Worker : session[w] # Idle => Fresh(session[w])

\* Requests whose sessions do not overlap.
SpecAlone == InitReq /\ [][NextReq /\ Alone']_reqVars

\* Whether a request is admitted depends on the stage, and on the stage events
\* and changes of status and assignee in the trail.
LEMMA FreshStays ==
  ASSUME NEW s, Fresh(s),
         current_stage'[s.opening] = current_stage[s.opening],
         case_status'[s.opening] = case_status[s.opening],
         assigned_to'[s.opening] = assigned_to[s.opening],
         instance'[s.opening] = instance[s.opening],
         StageEvents(s.opening)' = StageEvents(s.opening),
         BackMoves(s.opening)' = BackMoves(s.opening),
         EventsOf(s.opening, "CASE_STATUS_CHANGED")'
           = EventsOf(s.opening, "CASE_STATUS_CHANGED"),
         EventsOf(s.opening, "CASE_ASSIGNED")'
           = EventsOf(s.opening, "CASE_ASSIGNED")
  PROVE  Fresh(s)'
<1>1. Row(s.opening)' = Row(s.opening)
  BY DEF Row
<1>2. \A stage : MoveBound(s.opening, stage)' <=> MoveBound(s.opening, stage)
  BY DEF MoveBound
<1>3. Admitted(s.opening, s.request, s.user)'
  BY <1>2 DEF Fresh, Admitted
<1>. QED
  BY <1>1, <1>3 DEF Fresh

\* A loaded session writes back all of what it makes of the instances.
LEMMA FreshFlush ==
  ASSUME TypeOK, NEW o \in Opening,
         NEW new \in [WorkflowStage -> WorkflowStageStatus],
         FlushStages(o, instance[o], new)
  PROVE  instance' = [instance EXCEPT ![o] = new]
<1>1. \A s \in WorkflowStage : Flush(instance[o][s], instance[o][s], new[s]) = new[s]
  BY DEF Flush
<1>2. [s \in WorkflowStage |-> Flush(instance[o][s], instance[o][s], new[s])] = new
  BY <1>1
<1>. QED
  BY <1>2 DEF FlushStages

\* The commit of a fresh transition is the transition.
LEMMA FreshTransition ==
  ASSUME RequestsInv, NEW w \in Worker, Fresh(session[w]), commit_transition(w)
  PROVE  Next
<1>1. session[w].pc = "loaded" /\ session[w].request.op = "transition"
  BY DEF commit_transition, Commits
<1>2. PICK o \in Opening, u \in User, current \in WorkflowStage,
           target \in WorkflowStage :
        /\ o = session[w].opening /\ u = session[w].user
        /\ current = session[w].row.current_stage
        /\ target = session[w].request.arg
  BY <1>1, LoadedType, BusyType, RequestType DEF RequestsInv
<1>3. /\ o \in created
      /\ session[w].stages = instance[o]
      /\ session[w].row = Row(o)
      /\ Admitted(o, session[w].request, u)
  BY <1>1, <1>2, LoadedType DEF Fresh, SessionOK
<1>4. /\ current = current_stage[o]
      /\ session[w].row.case_status = case_status[o]
  BY <1>2, <1>3 DEF Row
<1>5. /\ is_allowed(current, target)
      /\ can_role_advance(RoleOf[u], target)
      /\ MoveBound(o, target)
  BY <1>1, <1>2, <1>3, <1>4 DEF Admitted
<1>. DEFINE new == stages_advanced(instance[o], current, target)
<1>6. TypeOK /\ new \in [WorkflowStage -> WorkflowStageStatus]
  BY StagesType DEF RequestsInv, TypeOKReq, TypeOK
<1>. HIDE DEF new
<1>7. instance' = [instance EXCEPT ![o] = new]
  <2>1. FlushStages(o, instance[o], new)
    BY <1>2, <1>3 DEF commit_transition, new
  <2>. QED
    BY <1>6, <2>1, FreshFlush
<1>8. instance' = [instance EXCEPT ![o] = stages_advanced(@, current, target)]
  BY <1>7 DEF new
<1>9. IF target = "COMPLETED"
        THEN /\ completed_at' = [completed_at EXCEPT ![o] = TRUE]
             /\ case_status' = [case_status EXCEPT ![o] = "COMPLETED"]
        ELSE UNCHANGED <<completed_at, case_status>>
  BY <1>2, <1>4 DEF commit_transition, Flush
<1>10. Advance(o, current, target, u)
  BY <1>2, <1>8, <1>9 DEF commit_transition, Advance
<1>11. transition(o, target, u)
  BY <1>3, <1>4, <1>5, <1>10 DEF transition
<1>. QED
  BY <1>11 DEF Next, Moves

\* The commit of a fresh send_back is the send_back.
LEMMA FreshSendBack ==
  ASSUME RequestsInv, NEW w \in Worker, Fresh(session[w]), commit_send_back(w)
  PROVE  Next
<1>1. session[w].pc = "loaded" /\ session[w].request.op = "send_back"
  BY DEF commit_send_back, Commits
<1>2. PICK o \in Opening, u \in User, current \in WorkflowStage :
        /\ o = session[w].opening /\ u = session[w].user
        /\ current = session[w].row.current_stage
  BY <1>1, LoadedType, BusyType DEF RequestsInv
<1>3. /\ o \in created
      /\ session[w].stages = instance[o]
      /\ session[w].row = Row(o)
      /\ Admitted(o, session[w].request, u)
  BY <1>1, <1>2, LoadedType DEF Fresh, SessionOK
<1>4. current = current_stage[o]
  BY <1>2, <1>3 DEF Row
<1>5. /\ has_previous(current)
      /\ can_role_send_back(RoleOf[u], current)
      /\ MoveBound(o, previous_stage(current))
  BY <1>1, <1>3, <1>4 DEF Admitted
<1>. DEFINE previous == previous_stage(current)
            new == stages_sent_back(instance[o], current, previous)
<1>6. TypeOK /\ new \in [WorkflowStage -> WorkflowStageStatus]
  <2>1. previous \in WorkflowStage
    BY <1>5, PreviousStage
  <2>. HIDE DEF previous
  <2>. QED
    BY <2>1, StagesType DEF RequestsInv, TypeOKReq, TypeOK
<1>. HIDE DEF new
<1>7. instance' = [instance EXCEPT ![o] = new]
  <2>1. FlushStages(o, instance[o], new)
    BY <1>2, <1>3 DEF commit_send_back, new
  <2>. QED
    BY <1>6, <2>1, FreshFlush
<1>8. instance' = [instance EXCEPT ![o] = stages_sent_back(@, current, previous)]
  BY <1>7 DEF new
<1>9. SendBack(o, current, u)
  BY <1>2, <1>8 DEF commit_send_back, SendBack
<1>10. send_back(o, u)
  BY <1>3, <1>4, <1>5, <1>9 DEF send_back
<1>. QED
  BY <1>10 DEF Next, Moves

\* So are those of set_status and assign.
LEMMA FreshStatus ==
  ASSUME RequestsInv, NEW w \in Worker, Fresh(session[w]), commit_set_status(w)
  PROVE  Next
<1>1. session[w].pc = "loaded" /\ session[w].request.op = "set_status"
  BY DEF commit_set_status, Commits
<1>2. PICK o \in Opening, u \in User, status \in CaseStatus :
        /\ o = session[w].opening /\ u = session[w].user
        /\ status = session[w].request.arg
  BY <1>1, LoadedType, BusyType, RequestType DEF RequestsInv
<1>3. /\ o \in created
      /\ session[w].row = Row(o)
      /\ Admitted(o, session[w].request, u)
  BY <1>1, <1>2, LoadedType DEF Fresh, SessionOK
<1>4. /\ session[w].row.current_stage = current_stage[o]
      /\ session[w].row.case_status = case_status[o]
  BY <1>3 DEF Row
<1>5. /\ RoleOf[u] \in APPROVERS
      /\ Cardinality(EventsOf(o, "CASE_STATUS_CHANGED")) < MaxStatusChanges
  BY <1>1, <1>3 DEF Admitted
<1>6. case_status' = [case_status EXCEPT ![o] = status]
  BY <1>2, <1>4 DEF commit_set_status, Flush
<1>7. set_status(o, status, u)
  BY <1>2, <1>3, <1>4, <1>5, <1>6 DEF commit_set_status, set_status
<1>. QED
  BY <1>7 DEF Next, DeskWork

\* The commit of a fresh assignment is the assignment.
LEMMA FreshAssign ==
  ASSUME RequestsInv, NEW w \in Worker, Fresh(session[w]), commit_assign(w)
  PROVE  Next
<1>1. session[w].pc = "loaded" /\ session[w].request.op = "assign"
  BY DEF commit_assign, Commits
<1>2. PICK o \in Opening, u \in User, assignee \in User :
        /\ o = session[w].opening /\ u = session[w].user
        /\ assignee = session[w].request.arg
  BY <1>1, LoadedType, BusyType, RequestType DEF RequestsInv
<1>3. /\ o \in created
      /\ session[w].row = Row(o)
      /\ Admitted(o, session[w].request, u)
  BY <1>1, <1>2, LoadedType DEF Fresh, SessionOK
<1>4. /\ session[w].row.current_stage = current_stage[o]
      /\ session[w].row.assigned_to = assigned_to[o]
  BY <1>3 DEF Row
<1>5. /\ RoleOf[u] \in APPROVERS
      /\ Cardinality(EventsOf(o, "CASE_ASSIGNED")) < MaxAssignments
  BY <1>1, <1>3 DEF Admitted
<1>6. assigned_to' = [assigned_to EXCEPT ![o] = assignee]
  BY <1>2, <1>4 DEF commit_assign, Flush
<1>7. assign(o, assignee, u)
  BY <1>2, <1>3, <1>4, <1>5, <1>6 DEF commit_assign, assign
<1>. QED
  BY <1>7 DEF Next, DeskWork

\* A step that is one request: the row and the stage events of another case,
\* or of a case whose tasks are worked on, stay as they are.
LEMMA OneStepFresh ==
  ASSUME TypeOK, OneStep, NEW s, s.opening \in created, s.opening \in Opening,
         Fresh(s)
  PROVE  Fresh(s)'
<1>1. PICK o \in Opening, u \in User :
        \/ create(o, u)
        \/ \E i \in DOMAIN tasks[o] : start_task(o, i, u)
        \/ \E i \in DOMAIN tasks[o] : complete_task(o, i, u)
  BY DEF OneStep
<1>. DEFINE p == s.opening
<1>2. CASE audit'[p] = audit[p]
  <2>1. /\ current_stage'[p] = current_stage[p] /\ case_status'[p] = case_status[p]
        /\ assigned_to'[p] = assigned_to[p] /\ instance'[p] = instance[p]
    BY <1>1 DEF TypeOK, create, start_task, complete_task
  <2>2. /\ StageEvents(p)' = StageEvents(p) /\ BackMoves(p)' = BackMoves(p)
        /\ \A action : EventsOf(p, action)' = EventsOf(p, action)
    BY <1>2 DEF StageEvents, BackMoves, EventsOf
  <2>. QED
    BY <2>1, <2>2, FreshStays
<1>3. CASE audit'[p] # audit[p]
  <2>1. PICK i \in DOMAIN tasks[o] : complete_task(o, i, u)
    BY <1>1, <1>3 DEF TypeOK, create, start_task, Record
  <2>. DEFINE event == Event("TASK_COMPLETED", tasks[o][i].stage, u, None,
                             tasks[o][i].task_type)
  <2>2. p = o /\ audit'[p] = Append(audit[p], event)
    BY <1>3, <2>1 DEF TypeOK, complete_task, Record
  <2>3. event.action = "TASK_COMPLETED" /\ audit[p] \in Seq(AuditEvent)
    BY DEF Event, TypeOK
  <2>. HIDE DEF event
  <2>4. PICK last \in Nat \ {0} :
          /\ DOMAIN audit[p] = 1..(last - 1)
          /\ DOMAIN audit'[p] = 1..last
          /\ audit'[p][last] = event
          /\ \A k \in DOMAIN audit[p] : audit'[p][k] = audit[p][k]
    <3>. DEFINE n == Len(audit[p])
    <3>1. n \in Nat /\ DOMAIN audit[p] = 1..n
      BY <2>3
    <3>2. /\ n + 1 \in Nat \ {0} /\ (n + 1) - 1 = n
          /\ DOMAIN audit'[p] = 1..(n + 1)
          /\ audit'[p][n + 1] = event
          /\ \A k \in DOMAIN audit[p] : audit'[p][k] = audit[p][k]
      BY <2>2, <2>3, <3>1
    <3>. QED
      BY <3>1, <3>2
  <2>5. /\ DOMAIN audit'[p] = DOMAIN audit[p] \cup {last}
        /\ last \notin DOMAIN audit[p]
        /\ audit'[p][last].action = "TASK_COMPLETED"
    BY <2>3, <2>4
  <2>6. /\ StageEvents(p)' = StageEvents(p) /\ BackMoves(p)' = BackMoves(p)
        /\ EventsOf(p, "CASE_STATUS_CHANGED")' = EventsOf(p, "CASE_STATUS_CHANGED")
        /\ EventsOf(p, "CASE_ASSIGNED")' = EventsOf(p, "CASE_ASSIGNED")
    BY <2>4, <2>5 DEF StageEvents, BackMoves, EventsOf
  <2>7. /\ current_stage'[p] = current_stage[p] /\ case_status'[p] = case_status[p]
        /\ assigned_to'[p] = assigned_to[p] /\ instance'[p] = instance[p]
    BY <2>1 DEF complete_task
  <2>. QED
    BY <2>6, <2>7, FreshStays
<1>. QED
  BY <1>2, <1>3

\* Without a change to the rows a session that was fresh is.
LEMMA FreshUnchanged ==
  ASSUME UNCHANGED vars, NEW s, Fresh(s)
  PROVE  Fresh(s)'
BY FreshStays DEF vars, StageEvents, BackMoves, EventsOf

\* Where the only session that is at work ends, none is left.
LEMMA NoneLeft ==
  ASSUME Alone, NEW w \in Worker, session[w] # Idle,
         session \in [Worker -> {Idle} \cup BusySession],
         session' = [session EXCEPT ![w] = Idle]
  PROVE  \A v \in Worker : session'[v] = Idle
BY DEF Alone

\* Every step keeps the session fresh, and is a step of the serial engine or
\* changes no row.
LEMMA AloneStep ==
  ASSUME AloneInv, [NextReq]_reqVars, Alone'
  PROVE  AloneInv' /\ [Next]_vars
<1>1. /\ RequestsInv /\ RequestsInv' /\ Alone /\ TypeOK
      /\ session \in [Worker -> {Idle} \cup BusySession]
  BY RequestsStep DEF AloneInv, RequestsInv, TypeOKReq, BusySession
<1>2. SUFFICES /\ \A w \in Worker : session'[w] # Idle => Fresh(session[w])'
               /\ [Next]_vars
  BY <1>1 DEF AloneInv
<1>3. CASE UNCHANGED reqVars
  <2>1. UNCHANGED vars /\ session' = session
    BY <1>3 DEF reqVars
  <2>2. ASSUME NEW w \in Worker, session'[w] # Idle
        PROVE  Fresh(session[w])'
    <3>1. PICK s : s = session[w]
      OBVIOUS
    <3>2. Fresh(s)'
      BY <2>1, <2>2, <3>1, FreshUnchanged DEF AloneInv
    <3>. QED
      BY <2>1, <3>1, <3>2
  <2>. QED
    BY <2>1, <2>2
<1>4. CASE OneStep
  <2>1. session' = session
    BY <1>4 DEF OneStep
  <2>2. ASSUME NEW w \in Worker, session'[w] # Idle
        PROVE  Fresh(session[w])'
    <3>1. PICK s : s = session[w]
      OBVIOUS
    <3>2. Fresh(s) /\ s.opening \in created /\ s.opening \in Opening
      BY <1>1, <2>1, <2>2, <3>1, BusyType DEF AloneInv, RequestsInv, SessionOK
    <3>3. Fresh(s)'
      BY <1>1, <1>4, <3>2, OneStepFresh
    <3>. QED
      BY <2>1, <3>1, <3>3
  <2>3. Next
    BY <1>4 DEF OneStep, Next, Moves, DeskWork
  <2>. QED
    BY <2>2, <2>3
<1>5. ASSUME NEW w \in Worker, session[w] # Idle,
             session' = [session EXCEPT ![w] = Idle], [Next]_vars
      PROVE  /\ \A v \in Worker : session'[v] # Idle => Fresh(session[v])'
             /\ [Next]_vars
  BY <1>1, <1>5, NoneLeft
<1>6. ASSUME NEW w \in Worker, UNCHANGED vars, NEW s, Fresh(s),
             session' = [session EXCEPT ![w] = s]
      PROVE  /\ \A v \in Worker : session'[v] # Idle => Fresh(session[v])'
             /\ [Next]_vars
  <2>1. ASSUME NEW v \in Worker, session'[v] # Idle
        PROVE  Fresh(session[v])'
    <3>1. CASE v = w
      <4>1. session'[v] = s
        BY <1>1, <1>6, <3>1
      <4>2. Fresh(s)'
        BY <1>6, FreshUnchanged
      <4>. QED
        BY <4>1, <4>2
    <3>2. CASE v # w
      <4>1. PICK r : r = session[v]
        OBVIOUS
      <4>2. session'[v] = r
        BY <1>1, <1>6, <3>2, <4>1
      <4>3. Fresh(r)'
        BY <1>6, <2>1, <4>1, <4>2, FreshUnchanged DEF AloneInv
      <4>. QED
        BY <4>2, <4>3
    <3>. QED
      BY <3>1, <3>2
  <2>. QED
    BY <1>6, <2>1
<1>7. ASSUME NEW w \in Worker, NEW o \in Opening, NEW request \in Request,
             NEW u \in User, load_opening(w, o, request, u)
      PROVE  /\ \A v \in Worker : session'[v] # Idle => Fresh(session[v])'
             /\ [Next]_vars
  <2>. DEFINE s == [pc |-> "row", request |-> request, opening |-> o,
                    user |-> u, row |-> Row(o), stages |-> None]
  <2>1. UNCHANGED vars /\ session' = [session EXCEPT ![w] = s]
    BY <1>7 DEF load_opening
  <2>2. Fresh(s)
    BY <1>7 DEF load_opening, Fresh
  <2>. HIDE DEF s
  <2>. QED
    BY <1>6, <2>1, <2>2
<1>8. ASSUME NEW w \in Worker, load_instances(w)
      PROVE  /\ \A v \in Worker : session'[v] # Idle => Fresh(session[v])'
             /\ [Next]_vars
  <2>. DEFINE r == session[w]
              s == [r EXCEPT !.pc = "loaded", !.stages = instance[r.opening]]
  <2>1. session[w] # Idle
    BY <1>8 DEF load_instances, Idle
  <2>2. r \in BusySession /\ Fresh(r)
    BY <1>1, <2>1, BusyType DEF AloneInv, RequestsInv
  <2>3. UNCHANGED vars /\ session' = [session EXCEPT ![w] = s]
    BY <1>1, <1>8 DEF load_instances
  <2>. HIDE DEF r
  <2>4. Fresh(s)
    BY <2>2 DEF Fresh, BusySession, Loaded
  <2>. HIDE DEF s
  <2>. QED
    BY <1>6, <2>3, <2>4
<1>9. ASSUME NEW w \in Worker,
             \/ commit_transition(w) \/ commit_send_back(w)
             \/ commit_set_status(w) \/ commit_assign(w)
      PROVE  /\ \A v \in Worker : session'[v] # Idle => Fresh(session[v])'
             /\ [Next]_vars
  <2>1. session[w] # Idle /\ session' = [session EXCEPT ![w] = Idle]
    <3>1. \E op : Commits(w, op)
      BY <1>9 DEF commit_transition, commit_send_back, commit_set_status,
                  commit_assign
    <3>. QED
      BY <3>1 DEF Commits, Idle
  <2>2. Fresh(session[w])
    BY <2>1 DEF AloneInv
  <2>3. Next
    BY <1>1, <1>9, <2>2, FreshTransition, FreshSendBack, FreshStatus, FreshAssign
  <2>. QED
    BY <1>5, <2>1, <2>3
<1>10. ASSUME NEW w \in Worker, crash(w)
       PROVE  /\ \A v \in Worker : session'[v] # Idle => Fresh(session[v])'
              /\ [Next]_vars
  BY <1>5, <1>10 DEF crash
<1>. QED
  BY <1>3, <1>4, <1>7, <1>8, <1>9, <1>10 DEF NextReq, Sessions

\* At first no session is at work.
LEMMA AloneStart == InitReq => AloneInv
BY RequestsStart DEF InitReq, AloneInv, Alone

\* Requests whose sessions do not overlap, whoever makes them, with crashes
\* between load and commit and with tasks worked on meanwhile, are the serial
\* engine: all that is proved of Workflow holds of them.
THEOREM SerialRequestsImplementWorkflow == SpecAlone => Spec
<1>1. InitReq => Init
  BY DEF InitReq
<1>2. AloneInv /\ [NextReq /\ Alone']_reqVars => AloneInv' /\ [Next]_vars
  <2>1. UNCHANGED reqVars /\ Alone => Alone'
    BY DEF reqVars, Alone
  <2>. QED
    BY <2>1, AloneStep DEF AloneInv
<1>. QED
  BY <1>1, <1>2, AloneStart, PTL DEF SpecAlone, Spec

\* So no stage is skipped as long as no two sessions overlap: what breaks
\* EarlierStagesCompleted is the race, not the sessions.
THEOREM NoStageSkippedAlone == SpecAlone => []EarlierStagesCompleted
BY SerialRequestsImplementWorkflow, EarlierStagesAlwaysCompleted, PTL

\* And no case moves along an undefined transition: each move starts where the
\* one before it led, and the engine has checked it from there.
THEOREM OnlyDefinedMovesAlone == SpecAlone => []OnlyDefinedMoves
<1>1. AuditReplaysCase => OnlyDefinedMoves
  BY DEF AuditReplaysCase, Replays, Consecutive, OnlyDefinedMoves
<1>. QED
  BY <1>1, SerialRequestsImplementWorkflow, AuditAlwaysReplaysCase, PTL

\* The instance that the model checker explores: with a single worker every
\* step is one of the serial engine, or changes no row.
THEOREM SerialEngineHolds == SpecMC => SerialEngine
<1>. DEFINE Inv == solo => AloneInv
<1>1. InitMC => Inv
  BY AloneStart DEF InitMC, InitReq
<1>2. Inv /\ [NextMC]_<<reqVars, solo>>
        => Inv' /\ [solo => [Next]_vars]_<<reqVars, solo>>
  <2>. SUFFICES ASSUME Inv, [NextMC]_<<reqVars, solo>>, solo
                PROVE  AloneInv' /\ [Next]_vars /\ solo' = solo
    BY DEF NextMC
  <2>1. solo' = solo /\ [NextReq]_reqVars
    BY DEF NextMC, NextReq
  <2>2. Alone'
    <3>1. CASE UNCHANGED reqVars
      BY <3>1 DEF AloneInv, Alone, reqVars
    <3>2. CASE Bounds'
      BY <2>1, <3>2 DEF Bounds, Busy, Alone
    <3>. QED
      BY <3>1, <3>2 DEF NextMC
  <2>. QED
    BY <2>1, <2>2, AloneStep
<1>. QED
  BY <1>1, <1>2, PTL DEF SpecMC, SerialEngine

=============================================================================

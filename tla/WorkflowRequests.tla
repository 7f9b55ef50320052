-------------------------- MODULE WorkflowRequests --------------------------
(***************************************************************************)
(* The workflow engine under concurrent requests.  An endpoint runs in a   *)
(* worker thread with a database session of its own: it loads the row of   *)
(* the opening, loads the stage instances, decides on what it loaded, and  *)
(* commits.  No row is locked and no version is compared, so the decision  *)
(* may be about a case that has moved on.  At the commit the session       *)
(* writes the attributes that differ from the ones it LOADED, and leaves   *)
(* the other columns as it finds them.                                     *)
(*                                                                         *)
(* Creating a case inserts rows only, and what overlapping calls of        *)
(* start_task and complete_task leave behind is what the same calls leave  *)
(* one after another in some order: those stay the one-step operations of  *)
(* Workflow.                                                               *)
(***************************************************************************)
EXTENDS Workflow

CONSTANTS
  Worker    \* worker threads of the server, one session each

VARIABLES
  session   \* what each worker's session has loaded and is about to do

reqVars == <<vars, session>>

Idle == [pc |-> "idle"]

\* The requests that update an opening, with the argument of each.
Request ==
  [op : {"transition"}, arg : WorkflowStage]
    \cup [op : {"send_back"}, arg : {None}]
    \cup [op : {"set_status"}, arg : CaseStatus]
    \cup [op : {"assign"}, arg : User]

\* The columns of the opening's row that the operations read.
Row(o) == [current_stage |-> current_stage[o], case_status |-> case_status[o],
           assigned_to |-> assigned_to[o]]

Loaded(pcs) ==
  [pc : pcs, request : Request, opening : Opening, user : User,
   row : [current_stage : WorkflowStage, case_status : CaseStatus,
          assigned_to : User \cup {None}],
   stages : [WorkflowStage -> WorkflowStageStatus] \cup {None}]

\* Faulty variant: what has not changed is written, what has is not.
Flush_inverted(stored, loaded, new) == IF new = loaded THEN new ELSE stored

\* What a session writes back: its own value where it changed what it had
\* loaded, and what the database holds by now everywhere else.
Flush(stored, loaded, new) == IF new = loaded THEN stored ELSE new

-----------------------------------------------------------------------------
InitReq == Init /\ session = [w \in Worker |-> Idle]

\* The guards of the four operations.  They read nothing but the row and the
\* caller's role; a request that fails them answers 409 or 403 and has no
\* effect, and is left out.
Admitted(o, request, u) ==
  LET role == RoleOf[u]
  IN  CASE request.op = "transition" ->
             /\ is_allowed(current_stage[o], request.arg)
             /\ can_role_advance(role, request.arg)
             /\ MoveBound(o, request.arg)
        [] request.op = "send_back" ->
             /\ has_previous(current_stage[o])
             /\ can_role_send_back(role, current_stage[o])
             /\ MoveBound(o, previous_stage(current_stage[o]))
        [] request.op = "set_status" ->
             /\ role \in APPROVERS
             /\ Cardinality(EventsOf(o, "CASE_STATUS_CHANGED"))
                  < MaxStatusChanges
        [] request.op = "assign" ->
             /\ role \in APPROVERS
             /\ Cardinality(EventsOf(o, "CASE_ASSIGNED")) < MaxAssignments

\* OpeningRepository.get, first statement: the row of the opening.
load_opening(w, o, request, u) ==
  /\ session[w] = Idle
  /\ o \in created
  /\ Admitted(o, request, u)
  /\ session' = [session EXCEPT ![w] =
                   [pc |-> "row", request |-> request, opening |-> o,
                    user |-> u, row |-> Row(o), stages |-> None]]
  /\ UNCHANGED vars

\* OpeningRepository.get, second statement (selectinload): the instances.
\* _instance_for_stage later returns these same loaded objects.
load_instances(w) ==
  /\ session[w].pc = "row"
  /\ session' = [session EXCEPT ![w].pc = "loaded",
                                ![w].stages = instance[session[w].opening]]
  /\ UNCHANGED vars

-----------------------------------------------------------------------------
(* The commits, one per operation.                                         *)

Commits(w, op) ==
  /\ session[w].pc = "loaded"
  /\ session[w].request.op = op
  /\ session' = [session EXCEPT ![w] = Idle]

FlushStages(o, loaded, new) ==
  instance' = [instance EXCEPT ![o] =
                 [s \in WorkflowStage |-> Flush(@[s], loaded[s], new[s])]]

\* Faulty variant: a case that has moved on is left where it is, and the
\* transition is recorded all the same.
commit_transition_skipping(w) ==
  LET s == session[w]  o == s.opening  target == s.request.arg
      current == s.row.current_stage
  IN  /\ Commits(w, "transition")
      /\ FlushStages(o, s.stages, stages_advanced(s.stages, current, target))
      /\ current_stage' = [current_stage EXCEPT ![o] =
                             IF @ = current THEN target ELSE @]
      /\ tasks' = [tasks EXCEPT ![o] = @ \o NewTasks(target, s.user)]
      /\ Record(o, Event("STAGE_ADVANCED", current, s.user, current, target))
      /\ UNCHANGED <<created, assigned_to, completed_at, case_status>>

commit_transition(w) ==
  LET s == session[w]  o == s.opening  target == s.request.arg
      current == s.row.current_stage
  IN  /\ Commits(w, "transition")
      /\ FlushStages(o, s.stages, stages_advanced(s.stages, current, target))
      /\ current_stage' = [current_stage EXCEPT ![o] = target]
      /\ tasks' = [tasks EXCEPT ![o] = @ \o NewTasks(target, s.user)]
      /\ IF target = "COMPLETED"
           THEN /\ completed_at' = [completed_at EXCEPT ![o] = TRUE]
                /\ case_status' = [case_status EXCEPT ![o] =
                                     Flush(@, s.row.case_status, "COMPLETED")]
           ELSE UNCHANGED <<completed_at, case_status>>
      /\ Record(o, Event("STAGE_ADVANCED", current, s.user, current, target))
      /\ UNCHANGED <<created, assigned_to>>

commit_send_back(w) ==
  LET s == session[w]  o == s.opening
      current == s.row.current_stage  previous == previous_stage(current)
  IN  /\ Commits(w, "send_back")
      /\ FlushStages(o, s.stages,
                     stages_sent_back(s.stages, current, previous))
      /\ current_stage' = [current_stage EXCEPT ![o] = previous]
      /\ tasks' = [tasks EXCEPT ![o] = @ \o NewTasks(previous, s.user)]
      /\ Record(o, Event("STAGE_SENT_BACK", current, s.user,
                         current, previous))
      /\ UNCHANGED <<created, case_status, completed_at, assigned_to>>

commit_set_status(w) ==
  LET s == session[w]  o == s.opening  status == s.request.arg
  IN  /\ Commits(w, "set_status")
      /\ case_status' = [case_status EXCEPT ![o] =
                           Flush(@, s.row.case_status, status)]
      /\ completed_at' = [completed_at EXCEPT ![o] =
                            @ \/ status = "COMPLETED"]
      /\ Record(o, Event("CASE_STATUS_CHANGED", s.row.current_stage, s.user,
                         s.row.case_status, status))
      /\ UNCHANGED <<created, current_stage, assigned_to, instance, tasks>>

commit_assign(w) ==
  LET s == session[w]  o == s.opening
  IN  /\ Commits(w, "assign")
      /\ assigned_to' = [assigned_to EXCEPT ![o] =
                           Flush(@, s.row.assigned_to, s.request.arg)]
      /\ Record(o, Event("CASE_ASSIGNED", s.row.current_stage, s.user,
                         s.row.assigned_to, s.request.arg))
      /\ UNCHANGED <<created, current_stage, case_status, completed_at,
                     instance, tasks>>

\* The server dies, or the connection does, before the commit: the database
\* keeps nothing of the session.
crash(w) ==
  /\ session[w] # Idle
  /\ session' = [session EXCEPT ![w] = Idle]
  /\ UNCHANGED vars

\* The operations of Workflow that stay one step.
OneStep ==
  /\ \E o \in Opening, u \in User :
       \/ create(o, u)
       \/ \E i \in DOMAIN tasks[o] : start_task(o, i, u)
       \/ \E i \in DOMAIN tasks[o] : complete_task(o, i, u)
  /\ UNCHANGED session

\* The requests that run in a session.
Sessions ==
  \E w \in Worker :
    \/ \E o \in Opening, request \in Request, u \in User :
         load_opening(w, o, request, u)
    \/ load_instances(w)
    \/ commit_transition(w)
    \/ commit_send_back(w)
    \/ commit_set_status(w)
    \/ commit_assign(w)
    \/ crash(w)

NextReq == OneStep \/ Sessions

SpecReq == InitReq /\ [][NextReq]_reqVars

-----------------------------------------------------------------------------
(* Properties.                                                             *)

\* The sessions are well formed, on top of the columns being so.
TypeOKReq ==
  /\ TypeOK
  /\ session \in [Worker -> {Idle} \cup Loaded({"row", "loaded"})]

\* Whatever the interleaving, the case stands where the last stage event of
\* its trail says, and on a stage that was started: no commit moves a case
\* without its event, and no stale commit resets a stage to PENDING.
TrailEndsAtCurrentStage ==
  \A o \in created :
    TrailEnds(o) /\ instance[o][current_stage[o]] # "PENDING"

\* docs/exception-cases.md, 7: a move that is not defined in the workflow
\* engine is answered with a conflict and does not move the case.  Violated
\* with two workers: the case moves from where the other session put it.
OnlyDefinedMoves ==
  \A o \in created : \A p \in Consecutive(o) :
    LET from == audit[o][p[1]].new_value  to == audit[o][p[2]].new_value
    IN  \/ is_allowed(from, to)
        \/ has_previous(from) /\ to = previous_stage(from)
=============================================================================

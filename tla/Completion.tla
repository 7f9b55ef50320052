----------------------------- MODULE Completion -----------------------------
(***************************************************************************)
(* The end of a case: fit-outs, the readiness checklist and the opening    *)
(* record.  Completing the last fit-out, or doing the last readiness item, *)
(* moves the case on; recording the opening completes it.  A request       *)
(* loads its row, flushes its change and looks for pending siblings, and   *)
(* commits row and move together: when the engine refuses the move, the    *)
(* change of the row is lost with it.  Meanwhile the case is moved, and    *)
(* its status set, through the endpoints of the opening itself.            *)
(*                                                                         *)
(* Extends Workflow (the openings).  Translated from                       *)
(* app/services/completion.py and app/api/completion.py.                   *)
(***************************************************************************)
EXTENDS Workflow

CONSTANTS
  Fitout,          \* ids of the fit-outs that may be created
  ReadinessItem,   \* ids of the readiness items that may be created
  Manager,         \* worker threads that handle completion requests
  StartStage,      \* the stage the openings stand on when the model starts
  UpdateStatus     \* bound: the statuses a row may be updated to

ASSUME CompletionConstants ==
  /\ Fitout \cap ReadinessItem = {}
  /\ None \notin Opening
  /\ StartStage \in WorkflowStage \ {"COMPLETED"}

VARIABLES
  rows,            \* the rows of fitouts and readiness_items
  opening_records, \* the openings that have an opening record
  finishing,       \* what each worker has loaded and flushed
  overlapped       \* history: the openings on which one request committed
                   \* while another had flushed and not committed

completionVars == <<vars, rows, opening_records, finishing, overlapped>>

FitoutStatus    == {"PLANNED", "IN_PROGRESS", "COMPLETED", "ON_HOLD"}
ReadinessStatus == {"PENDING", "DONE", "NOT_APPLICABLE"}

Table(r)    == IF r \in Fitout THEN Fitout ELSE ReadinessItem
StatusOf(r) == IF r \in Fitout THEN FitoutStatus ELSE ReadinessStatus

\* The status whose update may move the case, and where to.
Final(r)  == IF r \in Fitout THEN "COMPLETED" ELSE "DONE"
Target(r) == IF r \in Fitout THEN "OPERATIONAL_READINESS" ELSE "OPENING"

NoRow == [branch_opening_id |-> None, status |-> None]

NewRow(r, o) ==
  [branch_opening_id |-> o,
   status |-> IF r \in Fitout THEN "PLANNED" ELSE "PENDING"]

Rested == [pc |-> "rested"]

Doing(w, pc) == finishing[w].pc = pc

Become(w, session) == finishing' = [finishing EXCEPT ![w] = session]

\* Whether another request than w's has flushed a change of this opening.
FlushedByOther(w, o) ==
  \E v \in Manager \ {w} : /\ finishing[v].pc \in {"flushed", "inserted"}
                           /\ finishing[v].opening = o

NoteOverlap(w, o) ==
  overlapped' = IF FlushedByOther(w, o) THEN overlapped \cup {o} ELSE overlapped

\* What the engine asks before it moves a case from this stage.
Admits(stage, target, u) ==
  /\ is_allowed(stage, target)
  /\ can_role_advance(RoleOf[u], target)

-----------------------------------------------------------------------------
\* The openings have come to StartStage by an administrator's transitions.
InitCompletion ==
  /\ \E u \in {v \in User : RoleOf[v] = "ADMIN"} : InitAt(StartStage, u)
  /\ rows = [r \in Fitout \cup ReadinessItem |-> NoRow]
  /\ opening_records = {}
  /\ finishing = [w \in Manager |-> Rested]
  /\ overlapped = {}

\* create_fitout and create_readiness: at whatever stage the opening stands.
create_row(w, r, o, u) ==
  /\ finishing[w] = Rested
  /\ rows[r] = NoRow
  /\ o \in created
  /\ RoleOf[u] \in MANAGERS
  /\ rows' = [rows EXCEPT ![r] = NewRow(r, o)]
  /\ NoteOverlap(w, o)
  /\ UNCHANGED <<vars, opening_records, finishing>>

\* update_fitout and update_readiness load the row ...
load_row(w, r, status, u) ==
  /\ finishing[w] = Rested
  /\ rows[r] # NoRow
  /\ RoleOf[u] \in MANAGERS
  /\ Become(w, [pc |-> "loaded", opening |-> rows[r].branch_opening_id,
                row |-> r, status |-> status, loaded |-> rows[r].status,
                user |-> u, stage |-> None])
  /\ UNCHANGED <<vars, rows, opening_records, overlapped>>

\* The rows as session v sees them once it has flushed: its own change, if
\* there is one, on what others have committed.
Flushed(v) ==
  IF v.status = v.loaded THEN rows ELSE [rows EXCEPT ![v.row].status = v.status]

\* Faulty variant: a fit-out is pending only while it is planned.
Pending_unstarted(all, r) ==
  \E s \in Table(r) : /\ all[s].branch_opening_id = all[r].branch_opening_id
                      /\ all[s].status \in {"PLANNED", "PENDING"}

\* The query for pending siblings: fit-outs that are not COMPLETED, items that
\* are PENDING.
Pending(all, r) ==
  \E s \in Table(r) :
    /\ all[s].branch_opening_id = all[r].branch_opening_id
    /\ IF s \in Fitout THEN all[s].status # "COMPLETED"
                       ELSE all[s].status = "PENDING"

\* Faulty variant: a move the engine refuses is skipped, the row committed.
AfterFlush_skipping(v) ==
  IF /\ v.status = Final(v.row)
     /\ ~Pending(Flushed(v), v.row)
     /\ Admits(current_stage[v.opening], Target(v.row), v.user)
    THEN [v EXCEPT !.pc = "flushed", !.stage = current_stage[v.opening]]
    ELSE [v EXCEPT !.pc = "flushed"]

\* What becomes of session v when it has flushed and looked for pending rows.
\* If there is none, the opening is loaded and must be moved; if the engine
\* refuses, the session is closed and the database keeps the row as it was.
AfterFlush(v) ==
  IF v.status # Final(v.row) \/ Pending(Flushed(v), v.row)
    THEN [v EXCEPT !.pc = "flushed"]
  ELSE IF Admits(current_stage[v.opening], Target(v.row), v.user)
    THEN [v EXCEPT !.pc = "flushed", !.stage = current_stage[v.opening]]
  ELSE Rested

Changes(v) == v.status # v.loaded

\* ... flush, which waits while another session has changed the row ...
flush_row(w) ==
  /\ Doing(w, "loaded")
  /\ \A v \in Manager \ {w} :
       ~ /\ Doing(v, "flushed")
         /\ finishing[v].row = finishing[w].row
         /\ Changes(finishing[v]) /\ Changes(finishing[w])
  /\ LET v == finishing[w]  next == AfterFlush(v) IN
       /\ (next # Rested /\ next.stage # None)
            => MoveBound(v.opening, Target(v.row))
       /\ Become(w, next)
  /\ UNCHANGED <<vars, rows, opening_records, overlapped>>

\* ... and commit the row, and the move if there is one.
commit_row(w) ==
  /\ Doing(w, "flushed")
  /\ LET v == finishing[w] IN
       /\ rows' = Flushed(v)
       /\ IF v.stage = None
            THEN UNCHANGED vars
            ELSE Advance(v.opening, v.stage, Target(v.row), v.user)
       /\ NoteOverlap(w, v.opening)
  /\ Become(w, Rested)
  /\ UNCHANGED opening_records

-----------------------------------------------------------------------------
\* create_opening_record loads the opening and finds no record of it ...
load_opening(w, o, u) ==
  /\ finishing[w] = Rested
  /\ o \in created
  /\ RoleOf[u] \in MANAGERS
  /\ o \notin opening_records
  /\ Become(w, [pc |-> "recording", opening |-> o, user |-> u,
                stage |-> current_stage[o], case_status |-> case_status[o]])
  /\ UNCHANGED <<vars, rows, opening_records, overlapped>>

\* Faulty variant: the record is committed before the engine is asked.
insert_record_early(w) ==
  /\ Doing(w, "recording")
  /\ LET v == finishing[w] IN
       /\ opening_records' = opening_records \cup {v.opening}
       /\ Become(w, IF Admits(v.stage, "COMPLETED", v.user)
                      THEN [v EXCEPT !.pc = "inserted"] ELSE Rested)
  /\ UNCHANGED <<vars, rows, overlapped>>

\* ... inserts one, which waits for another session's insert and fails if that
\* one was committed, and has the engine check the move ...
insert_record(w) ==
  /\ Doing(w, "recording")
  /\ LET v == finishing[w]
         taken == /\ v.opening \notin opening_records
                  /\ Admits(v.stage, "COMPLETED", v.user)
     IN  /\ \A x \in Manager : ~(Doing(x, "inserted")
                                   /\ finishing[x].opening = v.opening)
         /\ taken => MoveBound(v.opening, "COMPLETED")
         /\ Become(w, IF taken THEN [v EXCEPT !.pc = "inserted"] ELSE Rested)
  /\ UNCHANGED <<vars, rows, opening_records, overlapped>>

\* What transition to COMPLETED writes for a case whose row was loaded with
\* this stage and status.  A status that was COMPLETED when it was loaded is
\* no change, and what the database holds by now stays.
Complete(o, stage, status, u) ==
  /\ instance' = [instance EXCEPT ![o] = stages_advanced(@, stage, "COMPLETED")]
  /\ current_stage' = [current_stage EXCEPT ![o] = "COMPLETED"]
  /\ tasks' = [tasks EXCEPT ![o] = @ \o NewTasks("COMPLETED", u)]
  /\ completed_at' = [completed_at EXCEPT ![o] = TRUE]
  /\ case_status' = [case_status EXCEPT ![o] =
                       IF status = "COMPLETED" THEN @ ELSE "COMPLETED"]
  /\ Record(o, Event("STAGE_ADVANCED", stage, u, stage, "COMPLETED"))
  /\ UNCHANGED <<created, assigned_to>>

\* ... and commits record and move.
commit_record(w) ==
  /\ Doing(w, "inserted")
  /\ LET v == finishing[w] IN
       /\ opening_records' = opening_records \cup {v.opening}
       /\ Complete(v.opening, v.stage, v.case_status, v.user)
       /\ NoteOverlap(w, v.opening)
  /\ Become(w, Rested)
  /\ UNCHANGED rows

\* The server dies before the commit.
crash(w) ==
  /\ finishing[w] # Rested
  /\ Become(w, Rested)
  /\ UNCHANGED <<vars, rows, opening_records, overlapped>>

\* Openings moved through the endpoints of the engine.
MoveByHand ==
  /\ \E o \in Opening, u \in User :
       send_back(o, u) \/ \E target \in WorkflowStage : transition(o, target, u)
  /\ UNCHANGED <<rows, opening_records, finishing, overlapped>>

\* The status of an opening set through its endpoint, with or without record.
SetStatusByHand ==
  /\ \E o \in Opening, u \in User, status \in CaseStatus :
       set_status(o, status, u)
  /\ UNCHANGED <<rows, opening_records, finishing, overlapped>>

\* The steps of the completion endpoints.
Handles(w) ==
  \/ \E r \in Fitout \cup ReadinessItem, u \in User :
       \/ \E o \in Opening : create_row(w, r, o, u)
       \/ \E status \in StatusOf(r) \cap UpdateStatus :
            load_row(w, r, status, u)
  \/ flush_row(w)
  \/ commit_row(w)
  \/ \E o \in Opening, u \in User : load_opening(w, o, u)
  \/ insert_record(w)
  \/ commit_record(w)
  \/ crash(w)

NextCompletion ==
  \/ \E w \in Manager : Handles(w)
  \/ MoveByHand
  \/ SetStatusByHand

SpecCompletion == InitCompletion /\ [][NextCompletion]_completionVars

-----------------------------------------------------------------------------
(* Properties.                                                             *)

\* Rows hold a status of their own table, and sessions are well formed.
TypeOKCompletion ==
  /\ TypeOK
  /\ \A r \in Fitout \cup ReadinessItem :
       rows[r] # NoRow => /\ rows[r].branch_opening_id \in Opening
                          /\ rows[r].status \in StatusOf(r)
  /\ opening_records \subseteq Opening
  /\ overlapped \subseteq Opening
  /\ \A w \in Manager :
       finishing[w].pc \in {"rested", "loaded", "flushed", "recording",
                            "inserted"}

RowsOf(o, table) == {r \in table : rows[r].branch_opening_id = o}

\* test_completion_api.py: completing the last fit-out, and doing the last
\* readiness item, moves the case on.  A case whose fit-outs are all COMPLETED
\* (whose items are all DONE) was therefore moved to the stage after, by a
\* request that could: an update the engine refused, out of turn or for the
\* role of the caller, is not left behind.  It holds where no two requests
\* overlapped on the case; two that do each see the other's row as pending.
LastRowMovesCase ==
  \A o \in Opening \ overlapped, table \in {Fitout, ReadinessItem} :
    LET mine == RowsOf(o, table) IN
      mine # {} /\ (\A r \in mine : rows[r].status = Final(r))
        => \E i \in StageEvents(o) :
             /\ audit[o][i].action = "STAGE_ADVANCED"
             /\ \A r \in mine : audit[o][i].new_value = Target(r)

\* A request moves a case to OPERATIONAL_READINESS only with every fit-out
\* COMPLETED, and to OPENING only with no item PENDING, at the very commit,
\* again where no two requests overlapped.
MovesOnlyWhenClosed ==
  [][\A w \in Manager :
       LET v == finishing[w]
           moving == v.pc = "flushed" /\ v.stage # None /\ audit' # audit
       IN  moving /\ finishing'[w] = Rested /\ v.opening \notin overlapped'
             => \A r \in Table(v.row) :
                  rows'[r].branch_opening_id = v.opening
                    => rows'[r].status
                         \in {"COMPLETED", "DONE", "NOT_APPLICABLE"}
    ]_completionVars

\* The events of the trail by which the case was completed: moves to COMPLETED,
\* and an administrator's setting of that status.
Completes(event) ==
  /\ event.action \in {"STAGE_ADVANCED", "CASE_STATUS_CHANGED"}
  /\ event.new_value = "COMPLETED"

Completions(o) == {i \in DOMAIN audit[o] : Completes(audit[o][i])}

\* After the case had been completed an administrator set the status it has.
TakenBack(o) ==
  \E i \in Completions(o), k \in EventsOf(o, "CASE_STATUS_CHANGED") :
    i < k /\ audit[o][k].new_value = case_status[o]

\* A recorded opening completed its case: record, move and timestamp are one
\* commit, and of two sessions that both found no record the one the database
\* refuses leaves nothing behind.  The status is COMPLETED with them, unless an
\* administrator changed it after the case had been completed, be it while the
\* record was being made of a case that was COMPLETED before.
RecordCompletesCase ==
  \A o \in opening_records :
    /\ completed_at[o]
    /\ \E i \in StageEvents(o) : audit[o][i].new_value = "COMPLETED"
    /\ case_status[o] = "COMPLETED" \/ TakenBack(o)

\* test_completion_api.py: with the last readiness item done the case has been
\* moved on to OPENING, once no request is running any more.  Violated
\* by two requests that do the last two items at the same time: each sees the
\* other's item as pending.
ReadinessAllDoneAdvances ==
  (\A w \in Manager : finishing[w] = Rested) =>
    \A o \in Opening :
      LET items == RowsOf(o, ReadinessItem) IN
        items # {} /\ (\A r \in items : rows[r].status = "DONE")
          => \E i \in StageEvents(o) : audit[o][i].new_value = "OPENING"
=============================================================================

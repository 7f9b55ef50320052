--------------------------- MODULE CompletionProofs ---------------------------
(***************************************************************************)
(* For any number of rows, openings and workers: a case whose last row is  *)
(* closed has been moved on, it is moved on only when its rows are closed, *)
(* where no two requests overlapped on it, and a recorded opening has      *)
(* completed its case, whatever statuses are set besides.                  *)
(***************************************************************************)
EXTENDS Completion, WorkflowProofs

Row == Fitout \cup ReadinessItem

RowStatus == FitoutStatus \cup ReadinessStatus

RowRecord == [branch_opening_id : Opening \cup {None},
              status : RowStatus \cup {None}]

\* What a worker may be doing.
UpdateJob ==
  [pc : {"loaded", "flushed"}, opening : Opening, row : Row,
   status : RowStatus, loaded : RowStatus, user : User,
   stage : WorkflowStage \cup {None}]

RecordJob ==
  [pc : {"recording", "inserted"}, opening : Opening, user : User,
   stage : WorkflowStage, case_status : CaseStatus]

Job == {Rested} \cup UpdateJob \cup RecordJob

MovedTo(o, s) == \E u \in User : AdvancedBy(o, s, u)

\* The rows with the change of a session.
FlushedOn(all, v) ==
  IF v.status = v.loaded THEN all ELSE [all EXCEPT ![v.row].status = v.status]

AllFinal(all, r) ==
  \A s \in Table(r) :
    all[s].branch_opening_id = all[r].branch_opening_id
      => all[s].status = Final(s)

RowTyped(r) ==
  \/ rows[r] = NoRow
  \/ rows[r].branch_opening_id \in Opening /\ rows[r].status \in StatusOf(r)

RowsTyped ==
  /\ rows \in [Row -> RowRecord]
  /\ \A r \in Row : RowTyped(r)

\* What a session that has flushed saw is still so, unless another request
\* has committed on its opening, which is an overlap.
SessionFits(v, all) ==
  /\ all[v.row].branch_opening_id = v.opening
  /\ v.status \in StatusOf(v.row)
  /\ v.pc = "loaded" => v.stage = None
  /\ v.pc = "flushed" /\ v.opening \notin overlapped =>
       IF v.stage = None
         THEN v.status # Final(v.row) \/ Pending(FlushedOn(all, v), v.row)
         ELSE ~Pending(FlushedOn(all, v), v.row)

\* What is recorded of a case that was COMPLETED before has been completed.
RecordFits(v) == v.case_status = "COMPLETED" => Completions(v.opening) # {}

SessionOK(w) ==
  /\ finishing[w].pc \in {"loaded", "flushed"}
       => SessionFits(finishing[w], rows)
  /\ finishing[w].pc \in {"recording", "inserted"}
       => RecordFits(finishing[w])

Settled ==
  \A r \in Row :
    LET o == rows[r].branch_opening_id
    IN  o # None /\ o \notin overlapped /\ AllFinal(rows, r)
          => MovedTo(o, Target(r))

Recorded ==
  \A o \in opening_records : /\ o \in Opening
                             /\ completed_at[o]
                             /\ MovedTo(o, "COMPLETED")

\* A case that is COMPLETED was completed by an event of its trail, and one
\* that is not any more was given the status it has afterwards.
StatusFits(o) ==
  /\ case_status[o] = "COMPLETED" => Completions(o) # {}
  /\ Completions(o) # {} => case_status[o] = "COMPLETED" \/ TakenBack(o)

CaseInv ==
  /\ TrailTypeOK
  /\ completed_at \in [Opening -> BOOLEAN]
  /\ case_status \in [Opening -> CaseStatus]
  /\ \A o \in Opening : StatusFits(o)

CompletionInv ==
  /\ CaseInv
  /\ RowsTyped
  /\ Settled
  /\ Recorded
  /\ finishing \in [Manager -> Job]
  /\ \A w \in Manager : SessionOK(w)

\* Cases only gain history.
Onward ==
  /\ CaseInv' /\ TrailKept
  /\ \A o \in Opening : completed_at[o] => completed_at'[o]

\* Rows change in one opening only; a row that gets an opening had none.
RowsMove(o) ==
  /\ RowsTyped'
  /\ \A r \in Row :
       rows'[r] # rows[r] => /\ rows'[r].branch_opening_id = o
                             /\ rows[r].branch_opening_id \in {o, None}

-----------------------------------------------------------------------------
(* Tables and rows.                                                        *)

\* The two tables are apart.
LEMMA Tables ==
  ASSUME NEW r \in Row
  PROVE  /\ Table(r) \subseteq Row /\ r \in Table(r)
         /\ \A s \in Table(r) : /\ Table(s) = Table(r)
                                /\ Target(s) = Target(r)
                                /\ Final(s) = Final(r)
                                /\ StatusOf(s) = StatusOf(r)
         /\ Final(r) \in StatusOf(r) /\ StatusOf(r) \subseteq RowStatus
         /\ Target(r) \in WorkflowStage
<1>1. {"OPERATIONAL_READINESS", "OPENING"} \subseteq WorkflowStage
  <2>1. SEQUENCE[13] = "OPERATIONAL_READINESS" /\ SEQUENCE[14] = "OPENING"
    BY DEF SEQUENCE
  <2>. QED
    BY <2>1, SequenceIndex
<1>. QED
  BY <1>1, CompletionConstants
  DEF Row, Table, Target, Final, StatusOf, FitoutStatus, ReadinessStatus,
      RowStatus

\* A session's view of the rows of its opening depends on these alone.
LEMMA SameView ==
  ASSUME NEW all \in [Row -> RowRecord], NEW other \in [Row -> RowRecord],
         NEW v \in UpdateJob,
         NEW o, o = all[v.row].branch_opening_id,
         \A s \in Row :
           \/ all[s].branch_opening_id = o
           \/ other[s].branch_opening_id = o
           => other[s] = all[s]
  PROVE  Pending(FlushedOn(other, v), v.row) <=> Pending(FlushedOn(all, v), v.row)
<1>. DEFINE a == FlushedOn(all, v)
            b == FlushedOn(other, v)
<1>1. v.row \in Row /\ v.status \in RowStatus
  BY DEF UpdateJob
<1>2. \A s \in Row :
        /\ a[s].branch_opening_id = all[s].branch_opening_id
        /\ b[s].branch_opening_id = other[s].branch_opening_id
        /\ a[s].status = IF s = v.row /\ v.status # v.loaded
                           THEN v.status ELSE all[s].status
        /\ b[s].status = IF s = v.row /\ v.status # v.loaded
                           THEN v.status ELSE other[s].status
  BY <1>1 DEF FlushedOn, RowRecord
<1>. HIDE DEF a, b
<1>3. a[v.row].branch_opening_id = o /\ b[v.row].branch_opening_id = o
  BY <1>1, <1>2
<1>4. \A s \in Row :
        /\ a[s].branch_opening_id = o <=> b[s].branch_opening_id = o
        /\ a[s].branch_opening_id = o => a[s].status = b[s].status
  BY <1>2
<1>5. Table(v.row) \subseteq Row
  BY <1>1, Tables
<1>6. Pending(b, v.row) <=> Pending(a, v.row)
  BY <1>3, <1>4, <1>5 DEF Pending
<1>. QED
  BY <1>6 DEF a, b

-----------------------------------------------------------------------------
(* Cases.                                                                  *)

\* Where a case has been moved, it stays moved.
LEMMA MovedToStays ==
  ASSUME CaseInv, Onward, NEW o \in Opening, NEW s, MovedTo(o, s)
  PROVE  MovedTo(o, s)'
<1>1. PICK u \in User : AdvancedBy(o, s, u)
  BY DEF MovedTo
<1>2. AdvancedBy(o, s, u)'
  BY <1>1, EntriesGrow DEF CaseInv, Onward
<1>. QED
  BY <1>2 DEF MovedTo

\* What completed a case stays on its trail.
LEMMA CompletionsStay ==
  ASSUME TrailKept, NEW o \in Opening
  PROVE  Completions(o) \subseteq Completions(o)'
BY DEF TrailKept, Completions

\* An event that explains the status it goes with.
LEMMA StatusKept ==
  ASSUME CaseInv, NEW o \in Opening, NEW event \in AuditEvent,
         Record(o, event),
         \A p \in Opening \ {o} : case_status'[p] = case_status[p],
         \/ case_status'[o] = "COMPLETED" /\ Completes(event)
         \/ /\ case_status'[o] = case_status[o]
            /\ Completes(event) => Completions(o) # {}
         \/ /\ event.action = "CASE_STATUS_CHANGED"
            /\ event.new_value = case_status'[o]
  PROVE  TrailKept /\ \A p \in Opening : StatusFits(p)'
<1>1. PICK n : n = Len(audit[o]) + 1
  OBVIOUS
<1>2. TrailKept /\ n \in DOMAIN audit'[o] /\ audit'[o][n] = event
  BY <1>1, RecordKeepsTrail DEF CaseInv
<1>3. \A i \in DOMAIN audit[o] : i < n
  BY <1>1 DEF CaseInv, TrailTypeOK
<1>4. \A i \in DOMAIN audit'[o] : i \in DOMAIN audit[o] \/ i = n
  BY <1>1 DEF CaseInv, TrailTypeOK, Record
<1>5. /\ Completions(o) \subseteq Completions(o)'
      /\ Completes(event) => n \in Completions(o)'
      /\ Completions(o)' # {} => Completions(o) # {} \/ Completes(event)
  BY <1>2, <1>4, CompletionsStay DEF Completions, TrailKept
<1>6. case_status'[o] = case_status[o] /\ TakenBack(o) => TakenBack(o)'
  BY <1>2, <1>5 DEF TakenBack, EventsOf, TrailKept
<1>7. StatusFits(o)
  BY DEF CaseInv
<1>8. StatusFits(o)'
  <2>1. CASE case_status'[o] = "COMPLETED" /\ Completes(event)
    BY <1>5, <2>1 DEF StatusFits
  <2>2. CASE /\ case_status'[o] = case_status[o]
             /\ Completes(event) => Completions(o) # {}
    BY <1>5, <1>6, <1>7, <2>2 DEF StatusFits
  <2>3. CASE /\ event.action = "CASE_STATUS_CHANGED"
             /\ event.new_value = case_status'[o]
    <3>1. case_status'[o] = "COMPLETED" <=> Completes(event)
      BY <2>3 DEF Completes
    <3>2. ASSUME NEW i \in Completions(o) PROVE TakenBack(o)'
      <4>1. i \in Completions(o)' /\ i < n
        BY <1>3, <1>5 DEF Completions
      <4>2. n \in EventsOf(o, "CASE_STATUS_CHANGED")'
        BY <1>2, <2>3 DEF EventsOf
      <4>. QED
        BY <1>2, <2>3, <4>1, <4>2 DEF TakenBack
    <3>. QED
      BY <1>5, <3>1, <3>2 DEF StatusFits
  <2>. QED
    BY <2>1, <2>2, <2>3
<1>9. ASSUME NEW p \in Opening \ {o} PROVE StatusFits(p)'
  <2>1. audit'[p] = audit[p] /\ case_status'[p] = case_status[p]
    BY DEF CaseInv, TrailTypeOK, Record
  <2>2. StatusFits(p)
    BY DEF CaseInv
  <2>. QED
    BY <2>1, <2>2 DEF StatusFits, TakenBack, Completions, EventsOf
<1>. QED
  BY <1>2, <1>8, <1>9

\* The event of a move to a stage is one of the trail's.
LEMMA MoveEvent ==
  ASSUME NEW current \in WorkflowStage, NEW target \in WorkflowStage,
         NEW u \in User, NEW action \in {"STAGE_ADVANCED", "STAGE_SENT_BACK"},
         NEW event, event = Event(action, current, u, current, target)
  PROVE  /\ event \in AuditEvent
         /\ event.action = action /\ event.new_value = target
BY EventType DEF AuditAction, Event

\* A move of the engine.
LEMMA AdvanceOnward ==
  ASSUME CaseInv, NEW o \in Opening, NEW current \in WorkflowStage,
         NEW target \in WorkflowStage, NEW u \in User,
         Advance(o, current, target, u)
  PROVE  Onward /\ MovedTo(o, target)'
<1>1. TrailTypeOK' /\ TrailKept /\ AdvancedBy(o, target, u)'
  BY AdvanceRecorded DEF CaseInv
<1>2. MovedTo(o, target)'
  BY <1>1 DEF MovedTo
<1>3. /\ completed_at' \in [Opening -> BOOLEAN]
      /\ case_status' \in [Opening -> CaseStatus]
      /\ \A p \in Opening : completed_at[p] => completed_at'[p]
      /\ \A p \in Opening \ {o} : case_status'[p] = case_status[p]
      /\ case_status'[o] = IF target = "COMPLETED"
                             THEN "COMPLETED" ELSE case_status[o]
  BY DEF Advance, CaseInv, CaseStatus
<1>4. PICK event : event = Event("STAGE_ADVANCED", current, u, current, target)
  OBVIOUS
<1>5. /\ event \in AuditEvent /\ Record(o, event)
      /\ Completes(event) <=> target = "COMPLETED"
  BY <1>4, MoveEvent DEF Advance, Completes
<1>6. \A p \in Opening : StatusFits(p)'
  BY <1>3, <1>5, StatusKept
<1>. QED
  BY <1>1, <1>2, <1>3, <1>6 DEF Onward, CaseInv

\* The commit that completes a case for an opening record.
LEMMA CompleteOnward ==
  ASSUME CaseInv, NEW o \in Opening, NEW stage \in WorkflowStage,
         NEW u \in User, NEW status,
         status = "COMPLETED" => Completions(o) # {},
         Complete(o, stage, status, u)
  PROVE  Onward /\ MovedTo(o, "COMPLETED")' /\ completed_at'[o]
<1>1. "COMPLETED" \in WorkflowStage
  <2>1. SEQUENCE[15] = "COMPLETED"
    BY DEF SEQUENCE
  <2>. QED
    BY <2>1, SequenceIndex
<1>2. PICK event : event = Event("STAGE_ADVANCED", stage, u, stage, "COMPLETED")
  OBVIOUS
<1>3. /\ event \in AuditEvent /\ Record(o, event) /\ Completes(event)
  BY <1>1, <1>2, MoveEvent DEF Complete, Completes
<1>4. TrailTypeOK' /\ TrailKept /\ AdvancedBy(o, "COMPLETED", u)'
  BY <1>1, <1>2, <1>3, MoveRecorded DEF Complete, CaseInv
<1>5. /\ completed_at' \in [Opening -> BOOLEAN] /\ completed_at'[o]
      /\ case_status' \in [Opening -> CaseStatus]
      /\ \A p \in Opening : completed_at[p] => completed_at'[p]
      /\ \A p \in Opening \ {o} : case_status'[p] = case_status[p]
      /\ case_status'[o] = IF status = "COMPLETED"
                             THEN case_status[o] ELSE "COMPLETED"
  BY DEF Complete, CaseInv, CaseStatus
<1>6. \A p \in Opening : StatusFits(p)'
  BY <1>3, <1>5, StatusKept
<1>. QED
  BY <1>4, <1>5, <1>6 DEF Onward, CaseInv, MovedTo

\* A move by hand.
LEMMA HandOnward ==
  ASSUME CaseInv, NEW o \in Opening, NEW u \in User,
         send_back(o, u) \/ \E target \in WorkflowStage : transition(o, target, u)
  PROVE  Onward
<1>1. current_stage[o] \in WorkflowStage
  BY DEF CaseInv, TrailTypeOK
<1>2. CASE send_back(o, u)
  <2>1. TrailTypeOK' /\ TrailKept
    BY <1>2, HandMoved DEF CaseInv
  <2>2. completed_at' = completed_at /\ case_status' = case_status
    BY <1>2 DEF send_back, SendBack
  <2>3. PICK current \in WorkflowStage : current = current_stage[o]
    BY <1>1
  <2>4. PICK previous \in WorkflowStage : previous = previous_stage(current)
    BY <1>2, <2>3, PreviousStage DEF send_back
  <2>5. PICK event :
          event = Event("STAGE_SENT_BACK", current, u, current, previous)
    OBVIOUS
  <2>6. event \in AuditEvent /\ Record(o, event) /\ ~Completes(event)
    BY <1>2, <2>3, <2>4, <2>5, MoveEvent DEF send_back, SendBack, Completes
  <2>7. \A p \in Opening : StatusFits(p)'
    BY <2>2, <2>6, StatusKept
  <2>. QED
    BY <2>1, <2>2, <2>7 DEF Onward, CaseInv
<1>3. ASSUME NEW target \in WorkflowStage, transition(o, target, u)
      PROVE  Onward
  BY <1>1, <1>3, AdvanceOnward DEF transition
<1>. QED
  BY <1>2, <1>3

\* A status set by hand.
LEMMA StatusOnward ==
  ASSUME CaseInv, NEW o \in Opening, NEW u \in User, NEW status \in CaseStatus,
         set_status(o, status, u)
  PROVE  Onward
<1>1. PICK event :
        event = Event("CASE_STATUS_CHANGED", current_stage[o], u,
                      case_status[o], status)
  OBVIOUS
<1>2. /\ current_stage[o] \in WorkflowStage /\ case_status[o] \in CaseStatus
      /\ "CASE_STATUS_CHANGED" \in AuditAction
  BY DEF CaseInv, TrailTypeOK, AuditAction
<1>3. /\ event \in AuditEvent /\ Record(o, event)
      /\ event.action = "CASE_STATUS_CHANGED" /\ event.new_value = status
  BY <1>1, <1>2, EventType DEF set_status, Event
<1>4. /\ completed_at' \in [Opening -> BOOLEAN]
      /\ case_status' \in [Opening -> CaseStatus]
      /\ \A p \in Opening : completed_at[p] => completed_at'[p]
      /\ \A p \in Opening \ {o} : case_status'[p] = case_status[p]
      /\ case_status'[o] = status
  BY DEF set_status, CaseInv
<1>5. TrailKept /\ \A p \in Opening : StatusFits(p)'
  BY <1>3, <1>4, StatusKept
<1>6. TrailTypeOK'
  BY <1>3, RecordType DEF set_status, CaseInv, TrailTypeOK
<1>. QED
  BY <1>4, <1>5, <1>6 DEF Onward, CaseInv

\* A step that moves no case.
LEMMA StillOnward ==
  ASSUME CaseInv, UNCHANGED vars
  PROVE  Onward
<1>1. TrailTypeOK' /\ TrailKept
  BY NothingMoved DEF CaseInv
<1>2. \A p \in Opening : StatusFits(p)'
  BY DEF CaseInv, vars, StatusFits, TakenBack, Completions, EventsOf
<1>. QED
  BY <1>1, <1>2 DEF Onward, CaseInv, vars

\* Recorded openings stay completed.
LEMMA RecordedStays ==
  ASSUME CompletionInv, Onward, opening_records' = opening_records
  PROVE  Recorded'
<1>. SUFFICES ASSUME NEW o \in opening_records
              PROVE  /\ o \in Opening
                     /\ completed_at'[o]
                     /\ MovedTo(o, "COMPLETED")'
  BY DEF Recorded
<1>1. o \in Opening /\ completed_at[o] /\ MovedTo(o, "COMPLETED")
  BY DEF CompletionInv, Recorded
<1>. QED
  BY <1>1, MovedToStays DEF Onward, CompletionInv

-----------------------------------------------------------------------------
(* Commits.                                                                *)

\* A session with a record to commit.
LEMMA Recording ==
  ASSUME CompletionInv, NEW w \in Manager,
         finishing[w].pc \in {"recording", "inserted"}
  PROVE  \E v \in RecordJob, o \in Opening :
           v = finishing[w] /\ o = v.opening /\ RecordFits(v)
<1>1. PICK v \in RecordJob : v = finishing[w]
  BY DEF CompletionInv, Job, UpdateJob, Rested
<1>. QED
  BY <1>1 DEF CompletionInv, SessionOK, RecordJob

\* What a record is made of stays completed, whatever the others do.
LEMMA RecordingStays ==
  ASSUME CompletionInv, TrailKept, NEW x \in Manager,
         finishing'[x] = finishing[x],
         finishing[x].pc \in {"recording", "inserted"}
  PROVE  RecordFits(finishing[x])'
<1>1. PICK v \in RecordJob, o \in Opening :
        v = finishing[x] /\ o = v.opening /\ RecordFits(v)
  BY Recording
<1>2. Completions(o) \subseteq Completions(o)'
  BY CompletionsStay
<1>. QED
  BY <1>1, <1>2 DEF RecordFits

\* The other sessions see the rows of their openings unchanged, or overlap.
LEMMA OtherSessions ==
  ASSUME CompletionInv, NEW w \in Manager, NEW o \in Opening, RowsMove(o),
         NoteOverlap(w, o), TrailKept, NEW x \in Manager \ {w},
         finishing'[x] = finishing[x]
  PROVE  SessionOK(x)'
<1>. SUFFICES ASSUME finishing[x].pc \in {"loaded", "flushed"}
              PROVE  SessionFits(finishing[x], rows)'
  BY RecordingStays DEF SessionOK
<1>1. PICK v \in UpdateJob : v = finishing[x]
  BY DEF CompletionInv, Job, RecordJob, Rested
<1>2. PICK all \in [Row -> RowRecord] : all = rows
  BY DEF CompletionInv, RowsTyped
<1>3. PICK other \in [Row -> RowRecord] : other = rows'
  BY DEF RowsMove, RowsTyped
<1>4. SessionFits(v, all)
  BY <1>1, <1>2 DEF CompletionInv, SessionOK
<1>5. PICK p \in Opening : p = v.opening
  BY DEF UpdateJob
<1>6. v.row \in Row /\ p # None
  BY CompletionConstants DEF UpdateJob
<1>7. other[v.row].branch_opening_id = p /\ all[v.row].branch_opening_id = p
  BY <1>2, <1>3, <1>4, <1>5, <1>6 DEF RowsMove, SessionFits
<1>8. overlapped \subseteq overlapped'
  BY DEF NoteOverlap
<1>9. ASSUME v.pc = "flushed", p \notin overlapped'
      PROVE  Pending(FlushedOn(other, v), v.row)
               <=> Pending(FlushedOn(all, v), v.row)
  <2>1. p # o
    BY <1>1, <1>5, <1>9 DEF NoteOverlap, FlushedByOther
  <2>2. \A s \in Row : \/ all[s].branch_opening_id = p
                       \/ other[s].branch_opening_id = p
                       => other[s] = all[s]
    BY <1>2, <1>3, <1>6, <2>1 DEF RowsMove
  <2>. QED
    BY <1>7, <2>2, SameView
<1>10. SessionFits(v, other)'
  BY <1>4, <1>5, <1>7, <1>8, <1>9 DEF SessionFits
<1>. QED
  BY <1>1, <1>3, <1>10

\* What is settled stays settled in the other openings.
LEMMA SettledElsewhere ==
  ASSUME CompletionInv, Onward, NEW o \in Opening, RowsMove(o),
         overlapped \subseteq overlapped',
         \A r \in Row : /\ rows'[r].branch_opening_id = o
                        /\ o \notin overlapped'
                        /\ AllFinal(rows, r)'
                        => MovedTo(o, Target(r))'
  PROVE  Settled'
<1>. SUFFICES ASSUME NEW r \in Row, NEW p, p = rows'[r].branch_opening_id,
                     p # None, p \notin overlapped', AllFinal(rows, r)'
              PROVE  MovedTo(p, Target(r))'
  BY DEF Settled
<1>1. CASE p = o
  BY <1>1
<1>2. CASE p # o
  <2>1. rows'[r] = rows[r]
    BY <1>2 DEF RowsMove
  <2>2. p \in Opening
    BY DEF RowsMove, RowsTyped, RowRecord
  <2>3. AllFinal(rows, r)
    <3>. SUFFICES ASSUME NEW s \in Table(r), rows[s].branch_opening_id = p
                  PROVE  rows[s].status = Final(s)
      BY <2>1 DEF AllFinal
    <3>1. s \in Row
      BY Tables
    <3>2. rows'[s] = rows[s]
      BY <1>2, <3>1 DEF RowsMove
    <3>. QED
      BY <3>2 DEF AllFinal
  <2>4. MovedTo(p, Target(r))
    BY <2>1, <2>3 DEF CompletionInv, Settled
  <2>. QED
    BY <2>2, <2>4, MovedToStays DEF CompletionInv
<1>. QED
  BY <1>1, <1>2

\* Nothing happens to the rows.
LEMMA SettledStays ==
  ASSUME CompletionInv, Onward, rows' = rows, overlapped' = overlapped
  PROVE  Settled'
<1>. SUFFICES ASSUME NEW r \in Row, NEW p, p = rows[r].branch_opening_id,
                     p # None, p \notin overlapped, AllFinal(rows, r)
              PROVE  MovedTo(p, Target(r))'
  BY DEF Settled, AllFinal
<1>1. p \in Opening
  BY DEF CompletionInv, RowsTyped, RowRecord
<1>2. MovedTo(p, Target(r))
  BY DEF CompletionInv, Settled
<1>. QED
  BY <1>1, <1>2, MovedToStays DEF CompletionInv

\* A step of one session that writes no row and commits nothing.
LEMMA SessionStep ==
  ASSUME CompletionInv, NEW w \in Manager, NEW v \in Job, Become(w, v),
         v.pc \in {"loaded", "flushed"} => SessionFits(v, rows),
         v.pc \in {"recording", "inserted"} => RecordFits(v),
         UNCHANGED <<vars, rows, opening_records, overlapped>>
  PROVE  CompletionInv'
<1>1. Onward
  BY StillOnward DEF CompletionInv
<1>2. Settled' /\ Recorded' /\ RowsTyped'
  BY <1>1, SettledStays, RecordedStays DEF CompletionInv, RowsTyped, RowTyped
<1>3. finishing \in [Manager -> Job]
  BY DEF CompletionInv
<1>4. /\ finishing' \in [Manager -> Job] /\ finishing'[w] = v
      /\ \A x \in Manager \ {w} : finishing'[x] = finishing[x]
  BY <1>3 DEF Become
<1>5. UNCHANGED <<rows, overlapped, audit>>
  BY DEF vars
<1>6. \A x \in Manager : SessionOK(x)'
  BY <1>4, <1>5
  DEF CompletionInv, SessionOK, SessionFits, RecordFits, Completions
<1>. QED
  BY <1>1, <1>2, <1>4, <1>6 DEF CompletionInv, Onward

\* A session leaves, with or without a commit.
LEMMA LeavingSession ==
  ASSUME CompletionInv, NEW w \in Manager, Become(w, Rested),
         \A x \in Manager \ {w} : finishing'[x] = finishing[x] => SessionOK(x)'
  PROVE  finishing' \in [Manager -> Job] /\ \A x \in Manager : SessionOK(x)'
<1>1. finishing \in [Manager -> Job] /\ Rested \in Job
  BY DEF CompletionInv, Job
<1>2. /\ finishing' \in [Manager -> Job] /\ finishing'[w] = Rested
      /\ \A x \in Manager \ {w} : finishing'[x] = finishing[x]
  BY <1>1 DEF Become
<1>3. SessionOK(w)'
  BY <1>2 DEF SessionOK, Rested
<1>. QED
  BY <1>2, <1>3

-----------------------------------------------------------------------------
(* The actions.                                                            *)

\* Initially there is no row, no record and no session.
LEMMA CompletionInit == InitCompletion => CompletionInv
<1>. SUFFICES ASSUME InitCompletion PROVE CompletionInv
  OBVIOUS
<1>1. CaseInv
  <2>1. PICK u \in User : InitAt(StartStage, u)
    BY DEF InitCompletion
  <2>2. StartStage \in WorkflowStage /\ TrailTypeOK
    BY <2>1, CompletionConstants, InitAtTrail
  <2>3. ASSUME NEW o \in Opening, NEW k \in DOMAIN audit[o]
        PROVE  ~Completes(audit[o][k])
    <3>1. PICK n \in 1..14 : n = SEQUENCE_INDEX[StartStage]
      <4>1. /\ SEQUENCE_INDEX[StartStage] \in 1..15
            /\ SEQUENCE[SEQUENCE_INDEX[StartStage]] = StartStage
        BY <2>2, IndexSequence
      <4>2. SEQUENCE[15] = "COMPLETED"
        BY DEF SEQUENCE
      <4>. QED
        BY <4>1, <4>2, CompletionConstants
    <3>2. k \in 1..n
      BY <2>1, <2>2, <3>1, JourneyTrail
    <3>3. CASE k = 1
      <4>1. audit[o][1] = Event("CASE_CREATED", "REQUIREMENT", u, None, None)
        BY <2>1, <2>2, JourneyTrail
      <4>. QED
        BY <3>3, <4>1 DEF Completes, Event
    <3>4. CASE k # 1
      <4>1. PICK i \in 1..13 :
              i = k - 1 /\ k = i + 1 /\ i \in 1..(SEQUENCE_INDEX[StartStage] - 1)
        BY <3>1, <3>2, <3>4
      <4>2. audit[o][i + 1] = Event("STAGE_ADVANCED", SEQUENCE[i], u,
                                    SEQUENCE[i], SEQUENCE[i + 1])
        <5>1. \A j \in 1..(SEQUENCE_INDEX[StartStage] - 1) :
                audit[o][j + 1] = Event("STAGE_ADVANCED", SEQUENCE[j], u,
                                        SEQUENCE[j], SEQUENCE[j + 1])
          BY <2>1, <2>2, JourneyTrail
        <5>. QED
          BY <4>1, <5>1
      <4>3. SEQUENCE[i + 1] # SEQUENCE[15]
        BY <4>1, SequenceIndex
      <4>4. SEQUENCE[15] = "COMPLETED"
        BY DEF SEQUENCE
      <4>5. audit[o][k].new_value = SEQUENCE[i + 1]
        BY <4>1, <4>2 DEF Event
      <4>. QED
        BY <4>3, <4>4, <4>5 DEF Completes
    <3>. QED
      BY <3>3, <3>4
  <2>4. \A o \in Opening : StatusFits(o)
    BY <2>1, <2>3 DEF StatusFits, Completions, InitAt
  <2>. QED
    BY <2>1, <2>2, <2>4 DEF InitAt, CaseInv, CaseStatus
<1>2. RowsTyped
  BY DEF InitCompletion, RowsTyped, RowTyped, Row, RowRecord, NoRow
<1>3. Settled
  BY DEF InitCompletion, Settled, Row, NoRow
<1>. QED
  BY <1>1, <1>2, <1>3
  DEF InitCompletion, CompletionInv, Recorded, SessionOK, Job, Rested

\* A row is created, of a status that keeps its table open.
LEMMA CreateStep ==
  ASSUME CompletionInv, NEW w \in Manager, NEW r \in Row, NEW o \in Opening,
         NEW u \in User, create_row(w, r, o, u)
  PROVE  CompletionInv'
<1>. DEFINE row == NewRow(r, o)
<1>1. /\ row \in RowRecord /\ row.branch_opening_id = o
      /\ row.status \in StatusOf(r) /\ row.status # Final(r)
  BY DEF NewRow, RowRecord, RowStatus, FitoutStatus, ReadinessStatus,
         StatusOf, Final
<1>2. /\ rows \in [Row -> RowRecord] /\ rows[r] = NoRow
      /\ rows' = [rows EXCEPT ![r] = row]
  BY DEF create_row, CompletionInv, RowsTyped
<1>. HIDE DEF row
<1>3. /\ rows' \in [Row -> RowRecord] /\ rows'[r] = row
      /\ \A s \in Row \ {r} : rows'[s] = rows[s]
  BY <1>1, <1>2
<1>4. RowsMove(o)
  <2>1. \A s \in Row : RowTyped(s)'
    BY <1>1, <1>3 DEF CompletionInv, RowsTyped, RowTyped
  <2>2. rows[r].branch_opening_id = None
    BY <1>2 DEF NoRow
  <2>. QED
    BY <1>1, <1>3, <2>1, <2>2 DEF RowsMove, RowsTyped
<1>5. Onward
  BY StillOnward DEF create_row, CompletionInv
<1>6. overlapped \subseteq overlapped' /\ NoteOverlap(w, o)
  BY DEF create_row, NoteOverlap
<1>7. Settled'
  <2>. SUFFICES ASSUME NEW s \in Row, rows'[s].branch_opening_id = o,
                       o \notin overlapped', AllFinal(rows, s)'
                PROVE  MovedTo(o, Target(s))'
    BY <1>4, <1>5, <1>6, SettledElsewhere
  <2>1. r \notin Table(s)
    BY <1>1, <1>3 DEF AllFinal
  <2>2. \A x \in Table(s) : x \in Row /\ rows'[x] = rows[x]
    BY <1>3, <2>1, Tables
  <2>3. rows'[s] = rows[s]
    BY <2>2, Tables
  <2>4. AllFinal(rows, s)
    BY <2>2, <2>3 DEF AllFinal
  <2>5. o # None /\ o \notin overlapped
    BY <1>6, CompletionConstants
  <2>6. MovedTo(o, Target(s))
    BY <2>3, <2>4, <2>5 DEF CompletionInv, Settled
  <2>. QED
    BY <1>5, <2>6, MovedToStays DEF CompletionInv
<1>8. Recorded'
  BY <1>5, RecordedStays DEF create_row
<1>9. finishing' = finishing /\ finishing[w] = Rested
  BY DEF create_row
<1>10. \A x \in Manager : SessionOK(x)'
  <2>. USE <1>5 DEF Onward
  <2>1. SessionOK(w)'
    BY <1>9 DEF SessionOK, Rested
  <2>2. \A x \in Manager \ {w} : SessionOK(x)'
    BY <1>4, <1>6, <1>9, OtherSessions
  <2>. QED
    BY <2>1, <2>2
<1>. QED
  BY <1>4, <1>5, <1>7, <1>8, <1>9, <1>10 DEF CompletionInv, Onward, RowsMove

\* A session loads a row.
LEMMA LoadStep ==
  ASSUME CompletionInv, NEW w \in Manager, NEW r \in Row,
         NEW status \in StatusOf(r), NEW u \in User,
         load_row(w, r, status, u)
  PROVE  CompletionInv'
<1>. DEFINE v == [pc |-> "loaded", opening |-> rows[r].branch_opening_id,
                  row |-> r, status |-> status, loaded |-> rows[r].status,
                  user |-> u, stage |-> None]
<1>1. rows[r].branch_opening_id \in Opening /\ rows[r].status \in StatusOf(r)
  BY DEF load_row, CompletionInv, RowsTyped, RowTyped
<1>2. StatusOf(r) \subseteq RowStatus
  BY Tables
<1>3. /\ v \in Job /\ v.pc = "loaded" /\ v.row = r /\ v.status = status
      /\ v.opening = rows[r].branch_opening_id /\ v.stage = None
  BY <1>1, <1>2 DEF Job, UpdateJob
<1>4. Become(w, v) /\ UNCHANGED <<vars, rows, opening_records, overlapped>>
  BY DEF load_row
<1>. HIDE DEF v
<1>5. SessionFits(v, rows)
  BY <1>3 DEF SessionFits
<1>. QED
  BY <1>3, <1>4, <1>5, SessionStep

\* A session in the middle of an update, and what it knows.
LEMMA Updating ==
  ASSUME CompletionInv, NEW w \in Manager,
         finishing[w].pc \in {"loaded", "flushed"}
  PROVE  \E v \in UpdateJob, o \in Opening, r \in Row :
           /\ v = finishing[w] /\ o = v.opening /\ r = v.row
           /\ SessionFits(v, rows)
<1>1. PICK v \in UpdateJob : v = finishing[w]
  BY DEF CompletionInv, Job, RecordJob, Rested
<1>2. v.opening \in Opening /\ v.row \in Row
  BY DEF UpdateJob
<1>. QED
  BY <1>1, <1>2 DEF CompletionInv, SessionOK

\* The flush, and what the session saw.
LEMMA FlushStep ==
  ASSUME CompletionInv, NEW w \in Manager, flush_row(w)
  PROVE  CompletionInv'
<1>1. PICK v \in UpdateJob, o \in Opening, r \in Row :
        /\ v = finishing[w] /\ o = v.opening /\ r = v.row
        /\ SessionFits(v, rows) /\ v.pc = "loaded"
  BY Updating DEF flush_row, Doing
<1>2. PICK next : next = AfterFlush(v)
  OBVIOUS
<1>3. v.stage = None /\ current_stage[o] \in WorkflowStage
      /\ None \notin WorkflowStage
  BY <1>1, WorkflowConstants
  DEF SessionFits, CompletionInv, CaseInv, TrailTypeOK
<1>4. Flushed(v) = FlushedOn(rows, v)
  BY DEF Flushed, FlushedOn
<1>. DEFINE still == [v EXCEPT !.pc = "flushed"]
            moving == [v EXCEPT !.pc = "flushed", !.stage = current_stage[o]]
<1>5. /\ still \in Job /\ moving \in Job
      /\ still.pc = "flushed" /\ still.stage = None
      /\ still.opening = o /\ still.row = r /\ still.status = v.status
      /\ still.loaded = v.loaded
      /\ moving.pc = "flushed" /\ moving.stage # None
      /\ moving.opening = o /\ moving.row = r /\ moving.status = v.status
      /\ moving.loaded = v.loaded
  BY <1>1, <1>3 DEF Job, UpdateJob
<1>6. \/ next = Rested
      \/ /\ next = still
         /\ v.status # Final(r) \/ Pending(FlushedOn(rows, v), r)
      \/ next = moving /\ ~Pending(FlushedOn(rows, v), r)
  BY <1>1, <1>2, <1>4 DEF AfterFlush
<1>. HIDE DEF still, moving
<1>7. /\ FlushedOn(rows, still) = FlushedOn(rows, v)
      /\ FlushedOn(rows, moving) = FlushedOn(rows, v)
  BY <1>1, <1>5 DEF FlushedOn
<1>8. next \in Job
  BY <1>5, <1>6 DEF Job
<1>9. next.pc \in {"loaded", "flushed"} => SessionFits(next, rows)
  BY <1>1, <1>5, <1>6, <1>7 DEF SessionFits, Rested
<1>10. next.pc \notin {"recording", "inserted"}
  BY <1>5, <1>6 DEF Rested
<1>11. Become(w, next) /\ UNCHANGED <<vars, rows, opening_records, overlapped>>
  BY <1>1, <1>2 DEF flush_row
<1>. QED
  BY <1>8, <1>9, <1>10, <1>11, SessionStep

\* The commit: rows of other openings stay, and in this one either something
\* is still open, or nothing changes, or the case is moved on.
LEMMA CommitStep ==
  ASSUME CompletionInv, NEW w \in Manager, commit_row(w)
  PROVE  CompletionInv'
<1>1. PICK v \in UpdateJob, o \in Opening, r \in Row :
        /\ v = finishing[w] /\ o = v.opening /\ r = v.row
        /\ SessionFits(v, rows) /\ v.pc = "flushed"
  BY Updating DEF commit_row, Doing
<1>2. PICK all \in [Row -> RowRecord] : all = rows
  BY DEF CompletionInv, RowsTyped
<1>3. rows' = FlushedOn(all, v)
  BY <1>1, <1>2 DEF commit_row, Flushed, FlushedOn
<1>4. /\ all[r].branch_opening_id = o /\ v.status \in StatusOf(r)
      /\ v.status \in RowStatus
  BY <1>1, <1>2 DEF SessionFits, UpdateJob
<1>5. /\ rows' \in [Row -> RowRecord]
      /\ \A s \in Row :
           /\ rows'[s].branch_opening_id = all[s].branch_opening_id
           /\ rows'[s].status = IF s = r /\ v.status # v.loaded
                                  THEN v.status ELSE all[s].status
      /\ \A s \in Row \ {r} : rows'[s] = all[s]
      /\ v.status = v.loaded => rows' = all
  BY <1>1, <1>3, <1>4 DEF FlushedOn, RowRecord
<1>6. o # None
  BY CompletionConstants
<1>7. RowsMove(o)
  <2>1. RowTyped(r)'
    <3>1. rows[r] # NoRow
      BY <1>2, <1>4, <1>6 DEF NoRow
    <3>2. RowTyped(r)
      BY DEF CompletionInv, RowsTyped
    <3>. QED
      BY <1>2, <1>4, <1>5, <3>1, <3>2 DEF RowTyped
  <2>2. \A s \in Row \ {r} : RowTyped(s)'
    BY <1>2, <1>5 DEF CompletionInv, RowsTyped, RowTyped
  <2>3. \A s \in Row : RowTyped(s)'
    BY <2>1, <2>2
  <2>. QED
    BY <1>2, <1>4, <1>5, <2>3 DEF RowsMove, RowsTyped
<1>8. NoteOverlap(w, o) /\ overlapped \subseteq overlapped'
  BY <1>1 DEF commit_row, NoteOverlap
<1>9. Onward /\ (v.stage # None => MovedTo(o, Target(r))')
  <2>1. CASE v.stage = None
    BY <1>1, <2>1, StillOnward DEF commit_row, CompletionInv
  <2>2. CASE v.stage # None
    <3>1. v.stage \in WorkflowStage /\ v.user \in User
      BY <2>2 DEF UpdateJob
    <3>2. Advance(o, v.stage, Target(r), v.user)
      BY <1>1, <2>2 DEF commit_row
    <3>3. Target(r) \in WorkflowStage
      BY Tables
    <3>. QED
      BY <3>1, <3>2, <3>3, AdvanceOnward DEF CompletionInv
  <2>. QED
    BY <2>1, <2>2
<1>10. Settled'
  <2>. SUFFICES ASSUME NEW s \in Row, rows'[s].branch_opening_id = o,
                       o \notin overlapped', AllFinal(rows, s)'
                PROVE  MovedTo(o, Target(s))'
    BY <1>7, <1>8, <1>9, SettledElsewhere
  <2>1. o \notin overlapped
    BY <1>8
  <2>2. AllFinal(rows, s) => MovedTo(o, Target(s))'
    <3>1. rows[s].branch_opening_id = o
      BY <1>2, <1>5
    <3>2. AllFinal(rows, s) => MovedTo(o, Target(s))
      BY <1>6, <2>1, <3>1 DEF CompletionInv, Settled
    <3>. QED
      BY <1>9, <3>2, MovedToStays DEF CompletionInv
  <2>3. CASE r \notin Table(s)
    <3>1. \A x \in Table(s) : x \in Row /\ rows'[x] = rows[x]
      BY <1>2, <1>5, <2>3, Tables
    <3>2. AllFinal(rows, s)
      BY <3>1, Tables DEF AllFinal
    <3>. QED
      BY <2>2, <3>2
  <2>4. CASE r \in Table(s)
    <3>1. Table(s) = Table(r) /\ Target(s) = Target(r) /\ Final(s) = Final(r)
          /\ Table(r) \subseteq Row
      BY <2>4, Tables
    <3>2. \A x \in Table(r) :
            rows'[x].branch_opening_id = o => rows'[x].status = Final(x)
      BY <3>1 DEF AllFinal
    <3>3. CASE v.stage # None
      BY <1>9, <3>1, <3>3
    <3>4. CASE v.stage = None
      <4>1. v.status # Final(r) \/ Pending(FlushedOn(all, v), r)
        BY <1>1, <1>2, <2>1, <3>4 DEF SessionFits
      <4>2. ~Pending(FlushedOn(all, v), r)
        <5>1. rows'[r].branch_opening_id = o
          BY <1>4, <1>5
        <5>2. \A x \in Table(r) :
                rows'[x].branch_opening_id = o
                  => IF x \in Fitout THEN rows'[x].status = "COMPLETED"
                                     ELSE rows'[x].status # "PENDING"
          BY <3>2 DEF Final
        <5>. QED
          BY <1>3, <5>1, <5>2 DEF Pending
      <4>3. v.status = v.loaded
        <5>1. rows'[r].status = Final(r)
          BY <1>4, <1>5, <2>4, <3>1, <3>2
        <5>. QED
          BY <1>5, <4>1, <4>2, <5>1
      <4>4. AllFinal(rows, s)
        BY <1>2, <1>5, <4>3 DEF AllFinal
      <4>. QED
        BY <2>2, <4>4
    <3>. QED
      BY <3>3, <3>4
  <2>. QED
    BY <2>3, <2>4
<1>11. Recorded'
  BY <1>9, RecordedStays DEF commit_row
<1>12. finishing' \in [Manager -> Job] /\ \A x \in Manager : SessionOK(x)'
  BY <1>7, <1>8, <1>9, OtherSessions, LeavingSession DEF commit_row, Onward
<1>. QED
  BY <1>7, <1>9, <1>10, <1>11, <1>12 DEF CompletionInv, Onward, RowsMove

\* A session finds no record of the opening.
LEMMA LoadOpeningStep ==
  ASSUME CompletionInv, NEW w \in Manager, NEW o \in Opening, NEW u \in User,
         load_opening(w, o, u)
  PROVE  CompletionInv'
<1>. DEFINE v == [pc |-> "recording", opening |-> o, user |-> u,
                  stage |-> current_stage[o], case_status |-> case_status[o]]
<1>1. current_stage[o] \in WorkflowStage /\ case_status[o] \in CaseStatus
  BY DEF CompletionInv, CaseInv, TrailTypeOK
<1>2. v \in Job /\ v.pc = "recording"
  BY <1>1 DEF Job, RecordJob
<1>3. RecordFits(v)
  BY DEF RecordFits, CompletionInv, CaseInv, StatusFits
<1>4. Become(w, v) /\ UNCHANGED <<vars, rows, opening_records, overlapped>>
  BY DEF load_opening
<1>. HIDE DEF v
<1>. QED
  BY <1>2, <1>3, <1>4, SessionStep

\* The opening record in its session: nothing is committed yet.
LEMMA InsertStep ==
  ASSUME CompletionInv, NEW w \in Manager, insert_record(w)
  PROVE  CompletionInv'
<1>1. PICK v \in RecordJob : v = finishing[w] /\ RecordFits(v)
  BY Recording DEF insert_record, Doing
<1>. DEFINE next == [v EXCEPT !.pc = "inserted"]
<1>2. next \in Job /\ next.pc = "inserted" /\ RecordFits(next)
  BY <1>1 DEF Job, RecordJob, RecordFits
<1>3. Rested \in Job /\ Rested.pc = "rested"
  BY DEF Job, Rested
<1>4. Become(w, next) \/ Become(w, Rested)
  BY <1>1 DEF insert_record
<1>5. UNCHANGED <<vars, rows, opening_records, overlapped>>
  BY DEF insert_record
<1>. HIDE DEF next
<1>. QED
  BY <1>2, <1>3, <1>4, <1>5, SessionStep

\* The record and the completion of its case are one commit.
LEMMA RecordStep ==
  ASSUME CompletionInv, NEW w \in Manager, commit_record(w)
  PROVE  CompletionInv'
<1>1. PICK v \in RecordJob, o \in Opening :
        v = finishing[w] /\ o = v.opening /\ RecordFits(v)
  BY Recording DEF commit_record, Doing
<1>2. PICK u \in User, stage \in WorkflowStage, status \in CaseStatus :
        u = v.user /\ stage = v.stage /\ status = v.case_status
  BY DEF RecordJob
<1>3. /\ opening_records' = opening_records \cup {o}
      /\ Complete(o, stage, status, u) /\ NoteOverlap(w, o)
      /\ Become(w, Rested) /\ rows' = rows
  BY <1>1, <1>2 DEF commit_record
<1>4. status = "COMPLETED" => Completions(o) # {}
  BY <1>1, <1>2 DEF RecordFits
<1>5. Onward /\ MovedTo(o, "COMPLETED")' /\ completed_at'[o]
  BY <1>3, <1>4, CompleteOnward DEF CompletionInv
<1>6. RowsMove(o) /\ overlapped \subseteq overlapped'
  BY <1>3 DEF RowsMove, CompletionInv, RowsTyped, RowTyped, NoteOverlap
<1>7. Settled'
  <2>. SUFFICES ASSUME NEW s \in Row, rows'[s].branch_opening_id = o,
                       o \notin overlapped', AllFinal(rows, s)'
                PROVE  MovedTo(o, Target(s))'
    BY <1>5, <1>6, SettledElsewhere
  <2>1. AllFinal(rows, s) /\ rows[s].branch_opening_id = o
        /\ o \notin overlapped /\ o # None
    BY <1>3, <1>6, CompletionConstants DEF AllFinal
  <2>2. MovedTo(o, Target(s))
    BY <2>1 DEF CompletionInv, Settled
  <2>. QED
    BY <1>5, <2>2, MovedToStays DEF CompletionInv
<1>8. Recorded'
  <2>. SUFFICES ASSUME NEW p \in opening_records'
                PROVE  /\ p \in Opening
                       /\ completed_at'[p]
                       /\ MovedTo(p, "COMPLETED")'
    BY DEF Recorded
  <2>1. CASE p = o
    BY <1>5, <2>1
  <2>2. CASE p \in opening_records
    <3>1. p \in Opening /\ completed_at[p] /\ MovedTo(p, "COMPLETED")
      BY <2>2 DEF CompletionInv, Recorded
    <3>. QED
      BY <1>5, <3>1, MovedToStays DEF Onward, CompletionInv
  <2>. QED
    BY <1>3, <2>1, <2>2
<1>9. finishing' \in [Manager -> Job] /\ \A x \in Manager : SessionOK(x)'
  BY <1>3, <1>5, <1>6, OtherSessions, LeavingSession DEF Onward
<1>. QED
  BY <1>5, <1>6, <1>7, <1>8, <1>9 DEF CompletionInv, Onward, RowsMove

\* A server that dies, a move by hand, and nothing at all.
LEMMA CrashStep ==
  ASSUME CompletionInv, NEW w \in Manager, crash(w)
  PROVE  CompletionInv'
<1>1. Rested \in Job /\ Rested.pc = "rested"
  BY DEF Job, Rested
<1>. QED
  BY <1>1, SessionStep DEF crash

\* A case moved, or its status set, through the endpoints of the opening.
LEMMA OutsideStep ==
  ASSUME CompletionInv, Onward,
         UNCHANGED <<rows, opening_records, finishing, overlapped>>
  PROVE  CompletionInv'
<1>1. Settled' /\ Recorded'
  BY SettledStays, RecordedStays
<1>2. RowsTyped'
  BY DEF CompletionInv, RowsTyped, RowTyped
<1>3. ASSUME NEW x \in Manager PROVE SessionOK(x)'
  <2>1. finishing[x].pc \in {"recording", "inserted"}
          => RecordFits(finishing[x])'
    BY RecordingStays DEF Onward
  <2>. QED
    BY <2>1 DEF CompletionInv, SessionOK, SessionFits
<1>. QED
  BY <1>1, <1>2, <1>3 DEF CompletionInv, Onward

\* Every step preserves the invariant.
LEMMA CompletionNext ==
  ASSUME CompletionInv, [NextCompletion]_completionVars
  PROVE  CompletionInv'
<1>1. ASSUME MoveByHand PROVE CompletionInv'
  BY <1>1, HandOnward, OutsideStep DEF MoveByHand, CompletionInv
<1>2. ASSUME SetStatusByHand PROVE CompletionInv'
  BY <1>2, StatusOnward, OutsideStep DEF SetStatusByHand, CompletionInv
<1>3. ASSUME UNCHANGED completionVars PROVE CompletionInv'
  BY <1>3, StillOnward, OutsideStep DEF completionVars, CompletionInv
<1>. QED
  BY <1>1, <1>2, <1>3, CreateStep, LoadStep, FlushStep, CommitStep, LoadOpeningStep,
     InsertStep, RecordStep, CrashStep
  DEF NextCompletion, Handles, Row

-----------------------------------------------------------------------------
\* A case all of whose fit-outs are completed, or all of whose readiness items
\* are done, has been moved on, unless two requests overlapped on it.
THEOREM LastRowAlwaysMovesCase == SpecCompletion => []LastRowMovesCase
<1>1. InitCompletion => CompletionInv
  BY CompletionInit
<1>2. CompletionInv /\ [NextCompletion]_completionVars => CompletionInv'
  BY CompletionNext
<1>3. CompletionInv => LastRowMovesCase
  <2>. SUFFICES ASSUME CompletionInv, NEW o \in Opening \ overlapped,
                       NEW table \in {Fitout, ReadinessItem},
                       NEW r \in RowsOf(o, table),
                       \A s \in RowsOf(o, table) : rows[s].status = Final(s)
                PROVE  \E i \in StageEvents(o) :
                         /\ audit[o][i].action = "STAGE_ADVANCED"
                         /\ \A s \in RowsOf(o, table) :
                              audit[o][i].new_value = Target(s)
    BY DEF LastRowMovesCase
  <2>1. r \in Row /\ Table(r) = table /\ rows[r].branch_opening_id = o
    BY CompletionConstants DEF RowsOf, Row, Table
  <2>2. AllFinal(rows, r)
    BY <2>1 DEF AllFinal, RowsOf
  <2>3. MovedTo(o, Target(r))
    BY <2>1, <2>2, CompletionConstants DEF CompletionInv, Settled
  <2>4. \A s \in RowsOf(o, table) : Target(s) = Target(r)
    BY <2>1, Tables DEF RowsOf
  <2>. QED
    BY <2>3, <2>4 DEF MovedTo, AdvancedBy
<1>. QED
  BY <1>1, <1>2, <1>3, PTL DEF SpecCompletion

\* An opening with a record has completed its case, by timestamp and on the
\* trail, and its status is COMPLETED unless it was set to another one after
\* the case had been completed.
THEOREM RecordAlwaysCompletesCase == SpecCompletion => []RecordCompletesCase
<1>1. InitCompletion => CompletionInv
  BY CompletionInit
<1>2. CompletionInv /\ [NextCompletion]_completionVars => CompletionInv'
  BY CompletionNext
<1>3. CompletionInv => RecordCompletesCase
  <2>. SUFFICES ASSUME CompletionInv, NEW o \in opening_records
                PROVE  /\ completed_at[o]
                       /\ \E i \in StageEvents(o) :
                            audit[o][i].new_value = "COMPLETED"
                       /\ case_status[o] = "COMPLETED" \/ TakenBack(o)
    BY DEF RecordCompletesCase
  <2>1. o \in Opening /\ completed_at[o] /\ MovedTo(o, "COMPLETED")
    BY DEF CompletionInv, Recorded
  <2>2. PICK i \in StageEvents(o) : /\ audit[o][i].action = "STAGE_ADVANCED"
                                    /\ audit[o][i].new_value = "COMPLETED"
    BY <2>1 DEF MovedTo, AdvancedBy
  <2>3. i \in Completions(o)
    BY <2>2 DEF StageEvents, Completions, Completes
  <2>. QED
    BY <2>1, <2>2, <2>3 DEF CompletionInv, CaseInv, StatusFits
<1>. QED
  BY <1>1, <1>2, <1>3, PTL DEF SpecCompletion

\* A commit that moves a case leaves no row of that table open, unless two
\* requests overlapped on the case.
THEOREM AlwaysMovesOnlyWhenClosed == SpecCompletion => MovesOnlyWhenClosed
<1>. DEFINE Closing(w) ==
       LET v == finishing[w]
           moving == v.pc = "flushed" /\ v.stage # None /\ audit' # audit
       IN  moving /\ finishing'[w] = Rested /\ v.opening \notin overlapped'
             => \A r \in Table(v.row) :
                  rows'[r].branch_opening_id = v.opening
                    => rows'[r].status
                         \in {"COMPLETED", "DONE", "NOT_APPLICABLE"}
<1>1. InitCompletion => CompletionInv
  BY CompletionInit
<1>2. CompletionInv /\ [NextCompletion]_completionVars => CompletionInv'
  BY CompletionNext
<1>3. CompletionInv /\ [NextCompletion]_completionVars
        => [\A w \in Manager : Closing(w)]_completionVars
  <2>. SUFFICES ASSUME CompletionInv, NextCompletion, NEW w \in Manager,
                       NEW v, v = finishing[w], v.pc = "flushed",
                       v.stage # None, audit' # audit,
                       finishing'[w] = Rested, v.opening \notin overlapped',
                       NEW r \in Table(v.row),
                       rows'[r].branch_opening_id = v.opening
                PROVE  rows'[r].status
                         \in {"COMPLETED", "DONE", "NOT_APPLICABLE"}
    OBVIOUS
  <2>1. commit_row(w)
    <3>1. v # Rested
      BY DEF Rested
    <3>2. finishing \in [Manager -> Job]
      BY DEF CompletionInv
    <3>3. ASSUME NEW x \in Manager \ {w}, NEW t, Become(x, t) PROVE FALSE
      BY <3>1, <3>2, <3>3 DEF Become
    <3>4. finishing' # finishing /\ ~UNCHANGED vars
      BY <3>1 DEF vars
    <3>5. ~commit_record(w)
      BY DEF commit_record, Doing
    <3>6. ASSUME NEW x \in Manager, commit_row(x) \/ commit_record(x)
          PROVE  commit_row(w)
      BY <3>3, <3>5, <3>6 DEF commit_row, commit_record
    <3>. QED
      BY <3>4, <3>6
      DEF NextCompletion, Handles, create_row, load_row, flush_row,
          load_opening, insert_record, crash, MoveByHand, SetStatusByHand
  <2>2. rows' = FlushedOn(rows, v) /\ v.opening \notin overlapped
    BY <2>1 DEF commit_row, Flushed, FlushedOn, NoteOverlap
  <2>3. /\ v \in UpdateJob /\ SessionFits(v, rows)
    BY Updating
  <2>4. ~Pending(FlushedOn(rows, v), v.row)
    BY <2>2, <2>3 DEF SessionFits
  <2>5. v.row \in Row /\ r \in Row
    BY <2>3, Tables DEF UpdateJob
  <2>6. CompletionInv'
    BY CompletionNext
  <2>7. rows'[v.row].branch_opening_id = v.opening
    BY <2>2, <2>3, <2>5
    DEF FlushedOn, SessionFits, CompletionInv, RowsTyped, RowRecord
  <2>8. IF r \in Fitout THEN rows'[r].status = "COMPLETED"
                        ELSE rows'[r].status # "PENDING"
    BY <2>2, <2>4, <2>7 DEF Pending
  <2>9. rows'[r].status \in StatusOf(r)
    <3>1. v.opening # None
      BY <2>3, CompletionConstants DEF UpdateJob
    <3>. QED
      BY <2>5, <2>6, <3>1 DEF CompletionInv, RowsTyped, RowTyped, NoRow
  <2>. QED
    BY <2>5, <2>8, <2>9 DEF StatusOf, ReadinessStatus, Row
<1>. QED
  BY <1>1, <1>2, <1>3, PTL DEF SpecCompletion, MovesOnlyWhenClosed
=============================================================================

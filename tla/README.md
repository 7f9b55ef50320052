# A verification of the branch opening process

The program (`src/backend/app`) is a FastAPI service over a relational
database. It takes a bank branch from a requirement to its opening through
fifteen stages, with approvals by Accounts, a cost committee (CC) and the
managing director (MD) on the way. This directory holds TLA+ modules of it, the
TLC configurations that check them on small instances, and theorems with
proofs that TLAPS checks for instances of any size.

To check a model: `tlc -config MCWorkflow.cfg MCWorkflow`. To check the proofs:
`tlapm WorkflowProofs.tla`, and the same for the other modules named `...Proofs`.

## 1. Inventory

One process serves requests in a pool of worker threads, behind a middleware
that runs on the event loop and limits the rate of each client. There is no
background job and no queue, and no row is locked for reading: components
interact by calls within a request and through rows of the shared database. A request has one database session
(`db/session.py`: no autoflush, objects survive the commit unrefreshed); a
session reads rows when it first needs them and writes, at a commit, the
attributes it changed. **Several services commit more than once in a request.**
That, and the reads that precede a commit without a lock, is where the
behaviour is hard.

| Component | State | Operations | Interacts with | What makes it correct |
|---|---|---|---|---|
| Stage tables (`workflow/`) | none: constants | `is_allowed`, `previous_stage`, `can_role_advance`, task templates | read by everything that moves a case | every route from REQUIREMENT to COMPLETED passes each stage; nobody but CC, then MD, or an administrator leads a case past its committee |
| Workflow engine (`services/workflow.py`) | `workflow_instances`, `workflow_tasks`, `current_stage` | `transition`, `send_back`, `start_task`, `complete_task` | called by CC, payments, accounts, completion; writes the audit trail | instances agree with `current_stage`; each entry generates its tasks once; a move and its event go together |
| Branch openings (`services/openings.py`) | `branch_openings` | `create`, `update`, `set_status`, `assign` | creates the fifteen instances | status, timestamp and trail tell one story |
| Audit trail (`models/audit.py`) | `audit_events`, append-only | written by every operation | | replays the case |
| Approvals (`services/approvals.py`) | `approvals` | `request`, `decide` | called by CC, payments, accounts, properties; open to anybody through its own endpoint | a row and its trail agree; a row is decided once |
| CC and MD review (`services/cc.py`) | `cc_requests` and items | `create`, `submit`, `cc_review`, `md_review` | a chain of commits through approvals and the engine, one per opening of the bundle | a verdict has a decision behind it; both committees before payment |
| Payments (`services/payment.py`) | `payment_requests`, `payments` | `create`, `submit`, `review`, `mark_paid` | approvals; `mark_paid` moves the case to INFRASTRUCTURE | verdicts backed by decisions; paid with the move of the case |
| Accounts (`services/accounts.py`) | reviews of quotation requests, `invoices` | `review_quotation_request`, `create_invoice`, `submit_invoice`, `review_invoice`, `revise_invoice`, `history` | approvals; moves the case or sends it back | amount and reopening come with their moves; a verdict was decided; revisions follow refusals; the history finds the whole family |
| Completion (`services/completion.py`) | fit-outs, readiness items, opening records | status changes, the opening record | moves the case on when the last item is done | the case moves on once, and when nothing is pending |
| Procurement (`services/procurement.py`) | vendors, requests, quotations | items, quotations, comparison, `select_vendor` | approvals; reviewed by Accounts | the selected vendor has an accepted quotation; the comparison brackets what was quoted |
| Deposits and LOA (`services/deposit.py`) | deposits, payees, payments, LOAs | `create`, `add_payee`, `record_payment`; LOA `update` | | statuses never claim more than was paid, and racing sums are wrong by a bounded amount; a letter goes through its statuses in order |
| Properties (`services/properties.py`) | property options | `create`, `update`, `set_status`, `cancel`, `request_approval`, `approve`, `rent_limit_check` | approvals; limits of the organization | options are numbered without a gap; the trail betrays lost changes; the most specific limit applies |
| Agreements (`services/agreements.py`) | `agreements` | `create`, `update`, `set_status` | | as for options, the trail betrays lost changes |
| Organization (`services/organization.py`) | regions, areas, branches | create, edit, guarded delete | read by properties and openings | every unit has its parent and a key of its own, whatever the order of checks and commits |
| Users (`services/users.py`) | `users` | create, edit, log in | roles are read by everything | |
| Rate limiter and middleware (`core/`) | `_hits`: timestamps by client | `check_rate_limit`, admission of a request | in front of every request | at most the limit in any window; a refused client gets in again |
| Case numbers (`utils/case_numbers.py`, `openings.create`) | the unique `opening_number` | count, flush, retry | `openings` | numbers without a gap; every call is answered; a refusal has a reason |

Hard behaviours, in the order of their weight:

1. **Reviews as chains of commits** (CC, payments, accounts): the decision is
   committed first, then each opening moved, then or meanwhile the request
   written. A conflict or a crash in between leaves a prefix of the chain.
2. **Decisions on stale reads** (engine, approvals, deposits, completion, units,
   documents): the check and the commit are two steps with nothing between them.
3. **Long legal histories** (engine): send-backs from any stage, ACCOUNTS back
   to QUOTATION, a finished case sent back and finished again.
4. **Rules that no single check enforces** (committees before payment): they
   follow from two tables in combination.

5. **Waiting and retrying** (case numbers): a flush waits for whoever holds the
   number, fails when it was committed, and is tried three times.

`PROJECT.json` lists these as hazards at their lines, with the properties that
cover them.

## 2. Order of the work

The most consequential behaviour came first:

1. `Stages`, `Workflow`: the engine, one step per request.
2. `WorkflowRequests`: the same operations split into reads and commits; the
   serial engine is its abstract specification.
3. `Approvals`, then `CCReview`, which composes it with the engine.
4. `Payments` and `Procurement` (with the review by Accounts), over the engine
   and the approvals; `Completion`, over the engine.
5. `CaseRegister`, `CaseNumbers`, `RateLimiter`, and `Intake`, which composes
   the last two.
6. The registers beside the workflow: `Invoices` and `PropertyOptions` over the
   approvals, `Deposits`, `Agreements`, `Organization`, `Comparison`.
7. The proof modules: `WorkflowProofs` and, on its lemmas,
   `WorkflowRequestsProofs`; `ApprovalsProofs`; on both, `CCReviewProofs`,
   `PaymentsProofs` and `ProcurementProofs`; `CompletionProofs`; `OfficeProofs`.

## 3. The modules

**`Stages`** is the tables: dictionaries as records, lists whose order does not
matter as sets. Positions count from 1.

**`Workflow`** is the engine without overlapping requests: one action per
service method, which ends in exactly one commit. Variables are columns
(`current_stage`, `case_status`, `completed_at`, `assigned_to`, `instance`) and
rows in id order (`tasks`, `audit`); `created` is the set of openings that
exist. `Advance` and `SendBack` are what `transition` and `send_back` write once
their checks pass, so that the CC review, which calls the same methods, uses the
same definitions. Left out: the case number, the description columns that
`update` edits and nothing reads, due dates and wording. A timestamp is whether
it is set.

**`WorkflowRequests`** adds `session`: what each worker has loaded. A request is
`load_opening` (the row, and the checks on it), `load_instances` (the second
SELECT of `OpeningRepository.get`), and a commit that applies `Flush`: a column
is written only if the session changed it from what it had loaded. `crash` drops
a session. `create`, `start_task` and `complete_task` stay single steps: the
first only inserts, and calls of the other two that overlap leave behind what
they would leave one after the other in some order. `Admitted` evaluates the engine's
guards on the row at the moment it is read, which is when its values are
fixed.

**`Approvals`** has rows (`approvals`), decision events (`decisions`) and what
each session is about to decide (`deciding`). `load` is the check of `decide`
on the row as read, `decide` its commit.

**`CCReview`** extends the two. `review` is the program counter of each worker
and the objects its session holds: the request as loaded, the approval row, the
stage of each opening as loaded (`stages`). The steps are the commits of
`cc_review` and `md_review`, and the reads between them that matter:
`begin_review` (with `_assert_no_decision`), `request_approval`,
`refresh_approval`, `decide_approval`, `load_openings`, one `move_opening` per
opening, of which the first also writes the request, or `commit_rejection`.
`conflict` is the 409 or 403 of the engine in the middle of the chain, `crash`
the end of the process between two commits. The opening that
`ApprovalService.request` looks up does not stay in the session, which holds
objects weakly, so the stages are read by `load_openings` alone. `MoveByHand` and
`DecideDirectly` are the other endpoints that reach the same rows. Restrictions:
POST `/approvals`, by which a row can be created without a review, is left out
here and in `Payments` and `Procurement` (it adds approval rows that no row
claims, and decisions on them), and so are the status, the assignee and the
tasks of the openings, which no property of these modules reads; a bundle lists an opening at most once; the amounts are
reduced to whether they are set; the code of a request is left out; the two
SELECTs of an opening are one read here, `WorkflowRequests` being where they
are apart; moves by hand are single steps.

**`Payments`** has the payment rows and, in `paying`, what each worker has
loaded. Its steps are again the commits: `create_payment`; `begin_submit` and
`commit_submit`; `begin_review` (with the look for a decision),
`request_approval`, `refresh_approval`, `decide_approval`, `commit_verdict`;
`begin_mark_paid` and `commit_mark_paid`, the commit of the engine that takes
the payment along. A refused `mark_paid` has committed nothing, so it is no
step. The payment and the query for its decision are one read: between the two
only a complete review could change the answer, and that answers 409 either
way. Left out: amount, mode, invoice, vendor and the PAYMENT_CREATED event.

**`Completion`** has fit-outs and readiness items in one function `rows`, since
their handlers differ only in statuses and in where they lead (`Final`,
`Target`, `Pending`). An update is `load_row`, `flush_row` and `commit_row`; the
flush is where siblings are looked at and where the move is refused
(`AfterFlush`), with what other sessions have committed and the session's own
change in view (`Flushed`), as READ COMMITTED of PostgreSQL has it. Flush and
query are one step: until its commit the flush shows only to its own session,
and the lock on the row keeps others off it. The lock is taken when the status
changes; that a change of remarks alone takes it too is left out, and only
removes interleavings. An opening record is `load_opening`, `insert_record`
(whose unique constraint waits for the other insert, or fails) and
`commit_record`. `Complete` writes what `transition` to COMPLETED writes, except
that a `case_status` which was COMPLETED when it was loaded is no change.
`MoveByHand` and `SetStatusByHand` are the endpoints of the opening that write its
stage, its status and its completion date, as single steps; an administrator may
set a status, ON_HOLD say, before the opening is recorded and after it.
`StartStage` is any stage but COMPLETED, so that every completion is on the
trail. `overlapped` is a history variable: the cases on which one
request committed while another had flushed. No step reads it.

**`Procurement`** has quotation requests, quotations by request and vendor, the
vendors that VENDOR_SELECTED events name, and in `buying` what each worker has
loaded. A selection is `begin_select`, `commit_selection` (the commit inside
`ApprovalService.request` takes it along) and `commit_selection_event`. The
review by Accounts is `begin_review`, `request_approval`, `refresh_approval`,
`decide_approval` (after which an approval without an amount is refused),
`move_or_conflict` and, for a request sent back, `commit_reopen`. Only two
decisions move the case (`ReviewTarget`); the others end with the decision.
Items are reduced to whether there are any, amounts to whether one is set.

**`Comparison`** is the ranking of quotations by total and the lowest and highest
amount, over every sequence of totals within the bounds. The sort compares totals
and is stable (`Cheaper`). `ranked` and `InOrder` (**`IdOrder`**, which `Invoices`
uses for `ORDER BY id` too) are choices of the one sequence that is in order, a
form about which the provers can reason, unlike a sort by a given operator.

**`Invoices`** has the rows of `invoices` and in `invoicing` what each worker
does: `begin_submit_invoice` and `commit_submit_invoice`; the review as a chain
of three commits; `begin_revise_invoice` and `commit_revision`. `history` is
translated as the loop runs, a chain that is also its own queue, by recursive
functions; the revisions of a row come in id order (`InOrder`). Left out: amounts, vendors, numbers and events of invoices.

**`Deposits`** has the status of one deposit, its payees and its payments.
`begin_payee` and `begin_payment` add up what is committed; `flush_payment` waits
for the lock on the payee's row that the autoflush-free session takes with its
explicit flush, loads the deposit and adds up again; `commit_payment` writes the
statuses computed from these sums.

**`Agreements`** has a letter of agreement and an agreement, each with its events:
a change is loaded and checked by `begin_loa` or `begin_agreement` and committed
later. `Overwritten` is the unit of work: a session that loaded the very status
it sets writes nothing.

**`PropertyOptions`** has the options of one opening with their events and approval
rows. `begin_change` stands for the five calls that change a status, which
differ in what they ask of the status and in whether they request an approval,
with the commit or after it (`asks`).

**`Organization`** has all units in one function, since the three services differ
only in parent and key; the commit succeeds or fails by the constraints of the
tables. An id may be used again after its unit was deleted, which adds behaviour
and leaves none out. `rent_limit_check` is here, where the limits are.

**`CaseNumbers`** is the allocation of numbers in `OpeningService.create`:
`next_opening_number` counts, `flush_case` waits, stands or fails, `fail_flush` is
the handler of the IntegrityError. A requester who does not exist violates a
foreign key in the same flush, with the same handler. **`CaseRegister`** is what
this promises, without counting or attempts: an asker gets the next number or is
refused, and a known one is refused only if three cases were registered
meanwhile. `since` is a history variable that says when a call began.

**`RateLimiter`** keeps ages instead of times: `tick` lets a second pass, and ages
beyond the window are as good as the window. `check_rate_limit` is one step, for
the middleware calls it on the event loop without an await, under a lock.
`served` is a history variable: how many requests of each age were admitted.
**`Intake`** composes the two: a request is refused with 429, refused with 413
after it was counted, or handed to a worker that begins to create a case.

**`MCOffice`** puts the registers of step 6 into one instance. They share no state
that two of them change, so each has behaviours of its own (`focus`).

**`MC...`** modules give roles to the users and start states to the runs:
`InitAt(stage, u)` is where every case stands after an administrator took it
there stage by stage, a reachable state of `Workflow`.

Definitions marked *Faulty variant* are no part of a specification: each is
what a plausible bug would make of the definition after it, and a property of
a run that this bug violates.

## 4. What is checked

| Run | Properties | What it shows | States |
|---|---|---|---|
| `workflow_moves` | `TypeOK`, `EarlierStagesCompleted`, `OnlyCurrentInProgress`, `FinishedCaseClosed`, `AuditReplaysCase`, `TasksMatchEntries`, `AuditExplainsStatus`, `CompletedTasksAudited`, `CommitteeBeforePayment` | every journey of a new case with two moves back by an administrator, Accounts, CC and MD, and (`late`) the end of a case with status changes, an assignment and tasks: stages, tasks, status and trail tell one story | 188 k |
| `requests` | `TrailEndsAtCurrentStage`, `SerialEngine` | two workers on stale reads from ACCOUNTS on: moves and events stay together; and (`solo`) one worker with sessions and crashes implements the serial engine (refinement) | 483 k |
| `cc` | `CommitteeBeforePayment`, `StatusBackedByDecision`, `ApprovalMovedFirstOpening` | bundles of one or two openings reviewed while they are moved by hand and reviews fail half way; and two overlapping reviews of one request, with (`beside`) its rows decided through the endpoint of the approvals or its opening moved on by hand | 1.8 M |
| `payments` | `RowShowsLastDecision`, `VerdictBackedByDecision`, `PaidMovesCase` | two workers on two payments of a case, rows decided through their own endpoint, the case moved by hand: verdicts have decisions behind them, every paid payment has its move | 2.1 M |
| `completion` | `LastRowMovesCase`, `MovesOnlyWhenClosed`, `RecordCompletesCase` | two workers on two fit-outs, an item and the opening record, the case moved and (`statuses`) its status set by hand: a refused update leaves nothing behind; without overlap the last row moves the case, and no earlier one; a record has completed its case, and only an administrator takes the status back | 2.5 M |
| `procurement` | `SelectionBacked`, `AmountMovesCase`, `ReopenedBySendBack` | quotations, selections and reviews by two workers, or by one who races with the approvals endpoint, the case moved by hand: no amount, reopening or selection without what it rests on | 1.6 M |
| `office` | `TypeOKOffice`, `InvoiceVerdictBacked`, `RevisionsFollowRefusals`, `HistoryIsFamily`, `SumsBounded`, `PaidIsCovered`, `LOAInOrder`, `TrailsShowLostChanges`, `OptionsNumbered`, `UnitsConsistent`, `MostSpecificLimitApplies`, `ComparisonBrackets` | the registers beside the workflow, each changed by two workers who check first and commit later | 1.2 M |
| `intake` | `NumbersGapless`, `WindowSlides`, `KeepsPromise`, `AnswersEveryCall`, `EventuallyAdmissible` | two workers create cases for a limited and a trusted client: the register is implemented, liveness included, and the window slides | 40 k |
| `v_undefined_move` | `OnlyDefinedMoves` | violated: two sessions move a case along no defined transition | |
| `v_decided_twice` | `DecidedOnce` | violated: two sessions decide one row | |
| `v_cc_lost` | `DecisionReachesRequest` | violated: the decision stands, the request never learns of it and cannot be reviewed again | |
| `v_second_payment` | `BalanceCanBePaid` | violated: after the first payment of a case the balance cannot be paid | |

The last four state what a document of the repository says; the findings in
`PROJECT.json` quote them.

Two things the models show that no property states, since nothing in the
repository says otherwise. A stage entered again keeps the status COMPLETED, so
that a case may stand on a stage the API lists as completed; and a finished case
that is sent back keeps `case_status` COMPLETED.

**Bounds.** Each is a constant and a guard. `MaxBackMoves` (moves to an earlier
stage, per case) is what makes the state space finite: the interesting events
are a first re-entry of a stage and a re-entry of a stage already re-entered,
so 2 where the journeys are the subject and 1 where something else is.
`MaxStageMoves` is above what the former allows, except in `requests`, where
races multiply the moves: there it caps the length of the trail, with both
committees and PAYMENT within reach. `MaxStatusChanges`,
`MaxAssignments`, `MaxTouchedTasks` and `MaxTaskCompletions` bound operations
that are independent of the route, and are 0 in the runs about something else.
In `completion` two status changes let a status be taken back and set again
around a record.
`MaxApprovals` bounds the rows: 2 lets two reviews of a request overlap, 3 lets
a review be repeated and MD follow. `DirectDecider` and `DirectDecision` limit who
decides what through the approvals endpoint in `cc`, `payments` and
`procurement`; it is enough that
somebody can take another decision than the review's. One case suffices in the
engine, whose operations touch one case each; bundles have up to two openings,
so that one is moved and the other is not.
Two payments are what racing or successive payments need, two fit-outs and an
item what a pending sibling and both tables need; `UpdateStatus` leaves out
ON_HOLD and PLANNED as new statuses, which count as IN_PROGRESS does. In `procurement` two vendors compete for one request. In `office` three
invoices make one row with two revisions, or two families: since nothing submits,
reviews or revises a REVISED row, a family is a refused row and its revisions, and
never longer. (The theorem about the history covers longer ones all the same.)
Three payees and payments with
amounts up to the total make every relation of sums, two areas and branches
make every clash of keys, four quotations with a total of zero among them every
shape of the list. In `intake` five cases let one worker lose three times, and a
limit and a window of two let hits expire one by one. Some MC modules state
further bounds in comments (`LateBounds`, `Bounds`, `MayBegin`, `AtWork`,
`TwoAtATime`, `LimitsOfOneLine`: a branch, its area and its region carry limits, and
no fourth unit): what one history variable (`late`, `solo`, `beside`, `two_workers`,
`statuses`, `focus`) keeps apart are cases studied side by side in one run.
In `procurement` there is a single request, so that what `AmountMovesCase` says of two
requests that claim one move is left to its theorem.
Two workers make every pairwise race; the theorems below say
that more change nothing for the properties they name.

**Type invariants.** `TypeOK` and `TypeOKOffice` are checked in runs and proved.
Those of the other modules hold too, as parts of the inductive invariants of their
proofs, but are no property of a run, which would say little beside the others.

**Deadlock** is checked in `intake`, where time always passes and waiting could
lock calls up. Every other run ends where its bounds are used up.

**Fairness and liveness.** Two things in the code must eventually happen: a call
that creates a case must end, and a client over its limit must be let in again.
`FairNumbers` assumes for each worker that a call that can go on goes on, since
every request has a thread of its own, and, strongly, that a flush which can
proceed again and again does proceed: PostgreSQL queues the sessions that wait for
a key, so none is passed over for ever, also when holders crash and new ones come.
(With weak fairness only, TLC finds the waiter starved by an endless sequence of
creates that take the number and die.) `WF(tick)` says that time passes. Nothing
is assumed of callers, of crashes, or of anything outside `Intake`: a case that
nobody moves stays where it is, which is what the program is meant to do.
`AnswersEveryCall` maps the liveness of `CaseRegister` to the code;
`EventuallyAdmissible` holds even of a client that keeps asking, because a refused
request is not recorded.

## 5. What is proved

For any sets of openings, users, workers, rows and units, any roles and any bounds,
from the assumptions on the constants that the modules state. These say that each
user has one of the roles or none, that NULL is neither a user nor a row nor a decision, that bounds
are natural numbers, and that the ids of two tables one function holds are apart
(`WorkflowConstants`, `ApprovalConstants`, `ProcurementConstants`, `CompletionConstants`,
`InvoiceConstants`, `PropertyConstants` and the others). TLC evaluates each of them.

| Theorem | Module |
|---|---|
| `TypeCorrect`: `Spec => []TypeOK` | `WorkflowProofs` |
| `StagesCorrect`, and from it `EarlierStagesAlwaysCompleted`, `OnlyCurrentEverInProgress`, `FinishedCaseStaysClosed` | `WorkflowProofs` |
| `CommitteesAlwaysBeforePayment`: `Spec => []CommitteeBeforePayment` | `WorkflowProofs` |
| `AuditAlwaysReplaysCase`: `Spec => []AuditReplaysCase` | `WorkflowProofs` |
| `AuditAlwaysExplainsStatus`: `Spec => []AuditExplainsStatus` | `WorkflowProofs` |
| `CompletedTasksAlwaysAudited`: `Spec => []CompletedTasksAudited` | `WorkflowProofs` |
| `TasksAlwaysMatchEntries`: `Spec => []TasksMatchEntries` | `WorkflowProofs` |
| `RequestsTypeCorrect`: `SpecReq => []TypeOKReq` | `WorkflowRequestsProofs` |
| `CommitteesBeforePaymentInRaces`: `SpecReq => []CommitteeBeforePayment` | `WorkflowRequestsProofs` |
| `TrailAlwaysEndsAtCurrentStage`: `SpecReq => []TrailEndsAtCurrentStage` | `WorkflowRequestsProofs` |
| `SerialRequestsImplementWorkflow`: `SpecAlone => Spec`, and from it `NoStageSkippedAlone`: `SpecAlone => []EarlierStagesCompleted`, `OnlyDefinedMovesAlone`: `SpecAlone => []OnlyDefinedMoves` | `WorkflowRequestsProofs` |
| `SerialEngineHolds`: `SpecMC => SerialEngine` | `WorkflowRequestsProofs` |
| `RowAlwaysShowsLastDecision`: `SpecApprovals => []RowShowsLastDecision` | `ApprovalsProofs` |
| `DecidedOnceApart`: `SpecApart => []DecidedOnce` | `ApprovalsProofs` |
| `StatusAlwaysBacked`: `SpecCC => []StatusBackedByDecision` | `CCReviewProofs` |
| `ApprovalAlwaysMovedFirst`: `SpecCC => []ApprovalMovedFirstOpening` | `CCReviewProofs` |
| `ReviewsAlwaysHeard`: `SpecCC => []CommitteeBeforePayment` | `CCReviewProofs` |
| `VerdictAlwaysBacked`: `SpecPay => []VerdictBackedByDecision` | `PaymentsProofs` |
| `PaidAlwaysMovesCase`: `SpecPay => []PaidMovesCase` | `PaymentsProofs` |
| `SelectionAlwaysBacked`: `SpecProcurement => []SelectionBacked` | `ProcurementProofs` |
| `AmountAlwaysMovesCase`: `SpecProcurement => []AmountMovesCase` | `ProcurementProofs` |
| `AlwaysReopenedBySendBack`: `SpecProcurement => []ReopenedBySendBack` | `ProcurementProofs` |
| `LastRowAlwaysMovesCase`: `SpecCompletion => []LastRowMovesCase` | `CompletionProofs` |
| `RecordAlwaysCompletesCase`: `SpecCompletion => []RecordCompletesCase` | `CompletionProofs` |
| `AlwaysMovesOnlyWhenClosed`: `SpecCompletion => MovesOnlyWhenClosed` (an action property) | `CompletionProofs` |
| `VerdictsAlwaysBacked`, `RevisionsAlwaysFollowRefusals`: of `SpecInvoices` | `OfficeProofs` |
| `HistoryAlwaysFamily`: `SpecInvoices => []HistoryIsFamily` | `OfficeProofs` |
| `ComparisonAlwaysBrackets`: `SpecComparison => []ComparisonBrackets` | `OfficeProofs` |
| `LettersAlwaysInOrder`, `AgreementTrailAlwaysShows`: of `SpecDocuments` | `OfficeProofs` |
| `OptionsAlwaysNumbered`, `OptionTrailAlwaysShows`: of `SpecProperties` | `OfficeProofs` |
| `UnitsAlwaysConsistent`, `MostSpecificAlwaysApplies`: of `SpecOrganization` | `OfficeProofs` |
| `SumsAlwaysBounded`, `PaidAlwaysCovered`: of `SpecDeposits` | `OfficeProofs` |
| `OfficeTypeCorrect`, `LostChangesAlwaysShow`: of `SpecOffice`, all registers together | `OfficeProofs` |
| `NumbersTypeCorrect`, `NumbersAreGapless`: `SpecNumbers => []NumbersGapless` | `OfficeProofs` |
| `CreatesKeepPromise`: `SpecNumbers => KeepsPromise`, the safety of `CaseRegister` | `OfficeProofs` |
| `WindowAlwaysSlides`: `SpecIntake => []WindowSlides` | `OfficeProofs` |
| `IntakeImplementsNumbers`: `SpecIntake => SpecNumbers`, and from it `IntakeNumbersGapless`, `IntakeKeepsPromise` | `OfficeProofs` |

The arguments:

- *Stages.* The lemmas about the tables show that a transition leads one position on, or
  from ACCOUNTS one back, and that `SEQUENCE_INDEX` inverts `SEQUENCE`.
  `StagesInv` is inductive only as the conjunction of its three parts: leaving
  COMPLETED backwards needs that the finished case had every stage COMPLETED,
  and moving on from a stage needs that it was the only one in progress.
- *Committees.* `CommitteeBeforePayment` speaks of PAYMENT alone and is not
  inductive: the step from MD_APPROVAL needs to know of the CC move. `CommitteesAt(o, stage)` says it one stage earlier as well, and by stage
  instead of for the current one. So it carries over to sessions:
  `SessionOK` says `CommitteesAt` of the stage a session loaded, however long
  ago, and `TrailKept` (the trail only grows) keeps it true until the commit.
- *Trail.* `TrailInv` adds to `AuditReplaysCase` that a case not yet created has no
  stage events. `MoveReplays` is the work: what a stage event appended to a
  chain does to its consecutive pairs and its last element.
- *The end of the trail in races.* The chain of the trail does break in a race
  (`v_undefined_move`), its end does not. `RaceTrailInv` needs that a stage a session
  found started is still started at its commit (`LoadedStarted`), since the
  session will not start it again; and that holds because no commit ever
  writes PENDING (`StagesFlushed`).

- *Numbers.* That numbers have no gap rests on a worker that holds a number
  holding the next one, for the count it took was of committed cases and can only
  be old. That a refusal has a reason rests on a sum: `Counted` says that the
  cases committed when a call began and the attempts it has made never exceed the
  number it has taken, so that at the third failure three cases have come in
  between. The refinement then is one case for each step (`PromiseStep`).
- *Decisions.* `Trail` says that rows and events belong together, and says
  nothing of sessions: a decision appends its event and overwrites the row in one
  commit, whatever was loaded. The lemmas about a request and about a decision
  are stated apart from `SpecApprovals`, for the components that use them.
- *What the races break, and without them.* `v_decided_twice` and `v_undefined_move`
  find the violations; `DecidedOnceApart` and `OnlyDefinedMovesAlone` show that the
  overlap alone causes them. `SpecApart` lets every call interleave with every other
  except that no two hold the same row, as a lock on the row would have it; the row a
  call holds is then still undecided when it commits (`HeldUndecided`), and an
  undecided row has no event. `SpecAlone` has one session at a time.
- *Verdicts.* `Grounded` carries what a worker knows from step to step: it holds
  an approval row of its own invoice, and from `verdict` on a decision to that
  effect is on record. `Grows` keeps it true while others go on, since events are
  appended only. A revision goes by a refusal that a row showed when it was
  loaded, and which `InvoiceVerdictBacked` turns into a decision that stays.

- *Status and tasks.* `StatusInv` needs that the status "at a position of the trail" is
  well defined (`HasStatusAt`), for a trail of any length; then an appended event either is the
  last one that wrote the status or changes nothing (`EarlierStatus`, `NewStatus`). `CountInv`
  counts: an entry appends one event and a whole template of tasks, and the indices
  it adds are disjoint from those that were there, which is what the theorems about
  cardinalities ask for.
- *Reviews of CC.* `CCInv` says what each request claims (`RequestOK`) and what each session
  knows (`ReviewerOK`). The status of a request will not do by itself, since reviews that
  loaded it earlier overwrite it; who reviewed it is on record, and since decisions and
  moves are only added (`Grows`, `TrailKept`) stays so. A session past its decision has it on
  record under its own user. The stages it loaded satisfy `CommitteesAt`, which the
  growing trail keeps: so a move from a stage that is out of date is as innocent as in
  `WorkflowRequestsProofs`. The first move writes the request in the same commit, so
  that no crash comes between the two.
- *Payments.* `PayInv` has the same for payments and clerks. `PaidMovesCase` compares two
  cardinalities: each `commit_mark_paid` adds one index to the entries into
  INFRASTRUCTURE and at most one payment to the paid ones. It is "at least" and no
  more, since a move by hand adds an entry and two sessions may pay the same row.
- *Procurement.* `RowFits` relates a request to its quotations and its history: an amount, or
  being open with quotations, needs a review on record whose user moved the case where that
  decision leads (`Moved`). The accepted quotations are counted against the approval rows,
  which come in the same commits, and the requests with an amount against the moves.
- *Completion.* `SessionFits` says what a session that has flushed may rely on: what it saw of
  the siblings is still so, unless another request has committed on its opening
  meanwhile, which makes the opening `overlapped`. Hence what it decided at the flush is right
  at the commit. `Settled` and `Recorded` are kept by moves of anybody, since the
  trail only grows. For the status after a record, `StatusFits` says of every case that
  a COMPLETED status has a completion on the trail, and a completed case with another
  status was taken back after it; `RecordFits` says the same of a session that loaded
  COMPLETED, which is the one whose commit leaves the status to the database.
- *Documents and options.* That a lost change always shows rests on a session's knowledge
  at one moment only: while there is no event yet, whoever loaded the row found the status
  it still has (`LoadedOnce`, `Informed`). From the first event on, an event that does not
  continue the last one is the break. `LOAInOrder` needs that a status a session loaded was
  reached before, however long ago.
- *Organization.* `OrganizationInv` needs of a session only that the parent it found is of
  the right table (`FoundParent`); whether it still exists, and whether the key is still free, is
  for the constraints at the commit. (The proof showed that an earlier form of `Clashes` took
  an area and its own region for rows of one table.)

- *Sessions that do not overlap.* `SpecAlone` is `SpecReq` with at most one session at a
  time, of whichever worker. `Fresh` says that such a session holds what the
  database holds, so that `Flush` writes what the serial operation writes; every
  load and every crash then is a stutter of `Workflow`, every commit one of its
  steps (`AloneStep`). What is proved of `Workflow` thereby holds of these sessions, and it is
  the overlap alone that breaks `EarlierStagesCompleted`.
- *Deposits.* The sums are folds over finite sets of rows of any size. `EveryNumber` is
  induction over the natural numbers, stated with a set instead of an operator and derived from
  the library's least element of a set of numbers; with it `SumAdd`, `SumMonotone` and `SumBound`
  say what a fold does when a row is added, taken off, or bounded. `Bounded` adds to
  `SumsBounded` that what each worker has in hand is within the limit: at a check the
  committed rows and the new amount fit the limit together, and every other worker has at most
  one limit in hand. `PaidInv` adds
  to `PaidIsCovered` what each session goes by (`PaidKnown`): what it computed at its flush is
  still covered at its commit, because payments are only added.

- *Rate limiter.* `RateInv` says that the queue is ordered by age and holds as many entries of each age
  as requests of that age were served, and no more young ones than the limit. Being
  ordered, its old entries are a first part (`OldInFront`), so that pruning takes off these and no
  others; and the sum over the ages of what was served counts the young entries
  (`ServedIsYoung`, an induction over the length of the window).

- *Sequences in order.* Both loops below put rows in order. `LastElement` and
  `OrderExists` show, by induction over the size of a finite set, that whatever a
  relation orders can be listed that way, and `AllListed` that a list without
  repetition as long as the set is leaves nothing out. So the choice in `InOrder`
  and in `ranked` is never empty, and what it gives lists every row once.
- *History.* `RevisionsFollowRefusals`, which is part of `InvoicesInv`, makes every
  parent an older row (`ParentsOlder`): the way up ends (`UpExists`) and is the same
  from a row and from its parent (`FirstVersionIs`). The invariant of the loop down is
  `Explored(s, n, r)`: no row twice, each after its parent, and the revisions of the
  first `n` rows found. A turn keeps it (`TurnExplores`). Without repetition
  the chain is no longer than the table (`ChainFits`), so that as many turns as
  there are rows look at all of it, and what is found is all that leads up to `r`
  (`ExploredIsFamily`).
- *Comparison.* `AmountsList` carries the order of the ranks over to the amounts that
  are left when the quotations without one are dropped; the ends of an ordered list
  are its bounds (`EndsBracket`).

**Only model-checked:** liveness (`AnswersEveryCall`, `EventuallyAdmissible`), which
with `ENABLED` is out of the prover's reach. Every safety property that a run checks
has its theorem. What the loops over rows compute (sums, histories, ranks) is proved by
induction over numbers of rows stated with sets (`EveryNumber`), since the library's
induction theorems take an operator. No module uses RECURSIVE.

## 6. Differences between documents and code met on the way

Besides the four findings:

- Two requests that complete the last two fit-outs, or do the last two readiness
  items, at once each see the other's row as pending; then all are done and nobody
  has moved the case, where `tests/test_completion_api.py` (line 65) has it moved on.
  `ReadinessAllDoneAdvances` (`Completion`) says so of the items, and TLC refutes it
  with two items, two workers and `StartStage` OPERATIONAL_READINESS. This race is
  what `overlapped` excludes from `LastRowMovesCase` and `MovesOnlyWhenClosed`, which
  say what the code gets right without it; no property that holds covers the race.

- A revised invoice cannot be reviewed: it is REVISED, and neither
  `submit_invoice` nor `review_invoice` takes that status, where
  `docs/exception-cases.md` (5) and `docs/approval-matrix.md` (10) have a revised
  invoice go to the accounts review and be approved. `RevisionsReviewable`
  (`Invoices`) says so, and TLC refutes it on the instance of `office`.
- Two payments to a payee recorded at once overpay it, where
  `docs/exception-cases.md` (4) rejects overpayment. `OverpaymentRejected`
  (`Deposits`) says so, and TLC refutes it on the same instance; `SumsBounded` says
  how far the sums can go.
- Two payments to two payees at once can leave a deposit that is paid in full
  PARTIALLY_PAID, since each counts without the other.
- `add_quotation` sets a request to SUBMITTED whatever its status is, APPROVED
  included; an approval by Accounts without an amount is refused after its
  decision was committed.
- A request code of the CC (`_next_request_code`) is made from the id of whichever
  request of the year the query returns first, not from their number; when that is the first
  request, the third create of a year repeats a code and fails.
- A client that is never heard of again keeps its empty or old queue in `_hits`
  until it asks again; nothing drops it.

- The first stage gets no task: `create` starts it without `_generate_tasks`,
  where `docs/business-workflow.md` has each stage generate tasks when entered.
  `TasksMatchEntries` counts entries by stage events, of which creation is none.
- An ON_HOLD or CANCELLED case moves like any other: no operation of the engine
  reads `case_status` (`docs/status-matrix.md` calls ON_HOLD paused).
- `mark_paid` and the endpoints of the completion admit a regional
  administrator, whom the engine refuses at the last row, the opening record
  and every payment (`can_role_advance`).
- An item that becomes NOT_APPLICABLE last does not move the case.
- A CC review moves the openings of a bundle one commit at a time; a refusal
  leaves the earlier ones moved.
- `md_review` does not ask for the CC decision on the request. That MD comes
  second rests on the stages of the openings; `CommitteeBeforePayment` shows
  that it holds there.
- `EarlierStagesCompleted` is a property of the serial engine only: two
  sessions can close and start stages on stale reads.

## 7. Not modelled

Reports and other reading endpoints change nothing. Vendors and users are
created, listed and edited by single writes; the models have them as constants.
The `update` calls of openings and agreements edit columns no other operation
reads. The request code of the CC is left out: it depends on the order in which
the database returns rows, and a create it refuses leaves no trace. Schemas
validate inputs, and the models take valid ones; migrations are the DDL of what
the models keep as variables. Passwords, tokens, logging and configuration are
library code or have no state. SQLAlchemy and the database are outside the
repository: `Flush`, `Written`, `Kept`, `Stored` and `Overwritten` model the unit
of work from how the code uses it, `Held` and `PayeeLocked` the locks of
PostgreSQL, and each commit is atomic.

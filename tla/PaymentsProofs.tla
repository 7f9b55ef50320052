---------------------------- MODULE PaymentsProofs ----------------------------
(***************************************************************************)
(* For any number of payments, workers, sessions and openings: a verdict   *)
(* on a payment has its decision on record, and every paid payment took    *)
(* its case from PAYMENT to INFRASTRUCTURE.                                *)
(***************************************************************************)
EXTENDS Payments, WorkflowProofs, ApprovalsProofs

PaymentRow ==
  [branch_opening_id : Opening \cup {None}, status : PaymentStatus,
   approved_by : User \cup {None}]

\* What a worker may be doing.
ReviewJob ==
  [pc : {"request", "refresh", "decide", "verdict"}, id : Payment,
   decision : {"APPROVED", "REJECTED"}, user : User, loaded : PaymentRow,
   approval : Nat]

PayJob ==
  {Free} \cup ReviewJob
    \cup [pc : {"submit"}, id : Payment]
    \cup [pc : {"pay"}, id : Payment, user : User, stage : WorkflowStage]

Backed(p, verdict, users) == OnRecord(p, {"PAYMENT"}, {verdict}, users)

\* Who approved a payment did so on record, whatever became of it later.  The
\* status alone would not do: an approved payment may be rejected, submitted
\* again or paid by workers that loaded it earlier.
PaymentOK(p) ==
  LET row == payments[p] IN
  /\ row = NoPayment \/ row.branch_opening_id \in Opening
  /\ row.approved_by # None => Backed(p, "APPROVED", {row.approved_by})
  /\ row.status \in {"APPROVED", "PAID"} => row.approved_by # None
  /\ row.status = "REJECTED" => Backed(p, "REJECTED", User)

\* A worker in a review holds an approval row of its payment, once decided
\* with its verdict; one that pays goes by an approval.
ClerkOK(w) ==
  LET t == paying[w] IN
  /\ t.pc # "free" => payments[t.id].branch_opening_id \in Opening
  /\ t.pc \in {"refresh", "decide", "verdict"} =>
       /\ t.approval \in DOMAIN approvals
       /\ approvals[t.approval].entity = t.id
       /\ approvals[t.approval].approval_type = "PAYMENT"
  /\ t.pc \in {"request", "refresh", "decide", "verdict"} =>
       (t.loaded.approved_by # None => payments[t.id].approved_by # None)
  /\ t.pc = "verdict" => Backed(t.id, t.decision, {t.user})
  /\ t.pc = "pay" => payments[t.id].approved_by # None

PaidOf(o) == {p \in Payment : /\ payments[p].branch_opening_id = o
                              /\ payments[p].status = "PAID"}

PaidInv ==
  \A o \in Opening :
    /\ IsFiniteSet(PaidOf(o))
    /\ Cardinality(PaidOf(o)) <= Cardinality(EntriesInto(o, "INFRASTRUCTURE"))

RowsOK ==
  /\ payments \in [Payment -> PaymentRow]
  /\ \A p \in Payment : PaymentOK(p)

PayInv ==
  /\ TrailTypeOK
  /\ ApprovalsInv
  /\ RowsOK
  /\ PaidInv
  /\ paying \in [Clerk -> PayJob]
  /\ \A w \in Clerk : ClerkOK(w)

\* A payment keeps its opening, and does not lose its approver.
PaymentsStay ==
  \A p \in Payment :
    /\ payments[p].branch_opening_id \in Opening
         => payments'[p].branch_opening_id \in Opening
    /\ payments[p].approved_by # None => payments'[p].approved_by # None

-----------------------------------------------------------------------------
(* Workers.                                                                *)

\* A worker that does nothing stays right.
LEMMA OtherClerks ==
  ASSUME PayInv, Grows, PaymentsStay, NEW w \in Clerk, paying'[w] = paying[w]
  PROVE  ClerkOK(w)'
<1>. PICK t \in PayJob : t = paying[w]
  BY DEF PayInv
<1>1. ClerkOK(w) /\ Trail
  BY DEF PayInv, ApprovalsInv
<1>2. t.pc # "free" => t.id \in Payment
  BY DEF PayJob, ReviewJob, Free
<1>3. t.pc = "verdict" => Backed(t.id, t.decision, {t.user})'
  BY <1>1, RecordStays DEF ClerkOK, Backed
<1>4. t.pc \in {"refresh", "decide", "verdict"} =>
        /\ t.approval \in DOMAIN approvals'
        /\ approvals'[t.approval].entity = t.id
        /\ approvals'[t.approval].approval_type = "PAYMENT"
  BY <1>1 DEF ClerkOK, Grows
<1>5. t.pc # "free" => payments'[t.id].branch_opening_id \in Opening
  BY <1>1, <1>2 DEF ClerkOK, PaymentsStay
<1>6. t.pc \in {"request", "refresh", "decide", "verdict"} =>
        (t.loaded.approved_by # None => payments'[t.id].approved_by # None)
  BY <1>1, <1>2 DEF ClerkOK, PaymentsStay
<1>7. t.pc = "pay" => payments'[t.id].approved_by # None
  BY <1>1, <1>2 DEF ClerkOK, PaymentsStay
<1>. QED
  BY <1>3, <1>4, <1>5, <1>6, <1>7 DEF ClerkOK

\* A step of one worker, from what it does to rows, approvals and cases.
LEMMA ClerkStep ==
  ASSUME PayInv, TrailTypeOK', ApprovalsInv', Grows, RowsOK', PaidInv',
         PaymentsStay,
         NEW w \in Clerk, NEW t \in PayJob,
         paying' = [paying EXCEPT ![w] = t], ClerkOK(w)'
  PROVE  PayInv'
<1>1. paying \in [Clerk -> PayJob]
  BY DEF PayInv
<1>2. paying' \in [Clerk -> PayJob]
      /\ \A v \in Clerk \ {w} : paying'[v] = paying[v]
  BY <1>1
<1>3. \A v \in Clerk : ClerkOK(v)'
  BY <1>2, OtherClerks
<1>. QED
  BY <1>2, <1>3 DEF PayInv

\* A step of a session, of the engine or of nobody.
LEMMA NoClerkStep ==
  ASSUME PayInv, TrailTypeOK', ApprovalsInv', Grows, RowsOK', PaidInv',
         PaymentsStay, paying' = paying
  PROVE  PayInv'
<1>1. \A v \in Clerk : ClerkOK(v)'
  BY OtherClerks
<1>. QED
  BY <1>1 DEF PayInv

-----------------------------------------------------------------------------
(* Rows.                                                                   *)

\* Rows that are left alone, while decisions are only added.
LEMMA RowStays ==
  ASSUME PayInv, Grows, NEW p \in Payment, payments'[p] = payments[p]
  PROVE  PaymentOK(p)'
<1>1. PaymentOK(p) /\ Trail
  BY DEF PayInv, RowsOK, ApprovalsInv
<1>2. payments[p].approved_by # None
        => Backed(p, "APPROVED", {payments[p].approved_by})'
  BY <1>1, RecordStays DEF PaymentOK, Backed
<1>3. payments[p].status = "REJECTED" => Backed(p, "REJECTED", User)'
  BY <1>1, RecordStays DEF PaymentOK, Backed
<1>. QED
  BY <1>1, <1>2, <1>3 DEF PaymentOK

\* Steps that leave the payments keep what is said of them.
LEMMA RowsKept ==
  ASSUME PayInv, Grows, payments' = payments
  PROVE  RowsOK' /\ PaymentsStay /\ \A o \in Opening : PaidOf(o)' = PaidOf(o)
<1>1. \A p \in Payment : PaymentOK(p)'
  BY RowStays
<1>. QED
  BY <1>1 DEF PayInv, RowsOK, PaymentsStay, PaidOf

\* One row is written.
LEMMA RowWritten ==
  ASSUME PayInv, Grows, NEW p \in Payment, NEW row \in PaymentRow,
         payments' = [payments EXCEPT ![p] = row],
         row.branch_opening_id \in Opening,
         row.approved_by # None => Backed(p, "APPROVED", {row.approved_by})',
         row.status \in {"APPROVED", "PAID"} => row.approved_by # None,
         row.status = "REJECTED" => Backed(p, "REJECTED", User)',
         payments[p].approved_by # None => row.approved_by # None
  PROVE  RowsOK' /\ PaymentsStay
<1>1. payments \in [Payment -> PaymentRow]
  BY DEF PayInv, RowsOK
<1>2. /\ payments' \in [Payment -> PaymentRow] /\ payments'[p] = row
      /\ \A q \in Payment \ {p} : payments'[q] = payments[q]
  BY <1>1
<1>3. PaymentOK(p)'
  BY <1>2 DEF PaymentOK
<1>4. \A q \in Payment : PaymentOK(q)'
  BY <1>2, <1>3, RowStays
<1>. QED
  BY <1>2, <1>4 DEF RowsOK, PaymentsStay

\* Payments that are no longer paid, and moves that are added.
LEMMA PaidShrinks ==
  ASSUME PayInv, TrailTypeOK', TrailKept,
         \A o \in Opening : PaidOf(o)' \subseteq PaidOf(o)
  PROVE  PaidInv'
<1>. SUFFICES ASSUME NEW o \in Opening
              PROVE  /\ IsFiniteSet(PaidOf(o)')
                     /\ Cardinality(PaidOf(o)')
                          <= Cardinality(EntriesInto(o, "INFRASTRUCTURE")')
  BY DEF PaidInv
<1>1. /\ IsFiniteSet(PaidOf(o))
      /\ Cardinality(PaidOf(o)) <= Cardinality(EntriesInto(o, "INFRASTRUCTURE"))
  BY DEF PayInv, PaidInv
<1>2. /\ IsFiniteSet(PaidOf(o)')
      /\ Cardinality(PaidOf(o)') <= Cardinality(PaidOf(o))
      /\ Cardinality(PaidOf(o)) \in Nat /\ Cardinality(PaidOf(o)') \in Nat
  BY <1>1, FS_Subset, FS_CardinalityType
<1>3. /\ Cardinality(EntriesInto(o, "INFRASTRUCTURE")) \in Nat
      /\ Cardinality(EntriesInto(o, "INFRASTRUCTURE")') \in Nat
      /\ Cardinality(EntriesInto(o, "INFRASTRUCTURE"))
           <= Cardinality(EntriesInto(o, "INFRASTRUCTURE")')
  BY EntriesGrow DEF PayInv
<1>. QED
  BY <1>1, <1>2, <1>3

-----------------------------------------------------------------------------
\* Initially nothing is paid, no payment exists and every worker is free.
LEMMA PayInit == InitPay => PayInv
<1>. SUFFICES ASSUME InitPay PROVE PayInv
  OBVIOUS
<1>1. ApprovalsInv
  BY ApprovalsInit DEF InitPay
<1>2. TrailTypeOK
  <2>1. "PAYMENT" \in WorkflowStage
    BY CommitteeStages, SequenceIndex
  <2>. QED
    BY <2>1, InitAtTrail DEF InitPay
<1>3. RowsOK
  BY DEF InitPay, RowsOK, PaymentRow, PaymentOK, NoPayment, PaymentStatus
<1>4. PaidInv
  <2>. SUFFICES ASSUME NEW o \in Opening
                PROVE  /\ IsFiniteSet(PaidOf(o))
                       /\ Cardinality(PaidOf(o))
                            <= Cardinality(EntriesInto(o, "INFRASTRUCTURE"))
    BY DEF PaidInv
  <2>1. PaidOf(o) = {}
    BY DEF InitPay, PaidOf, NoPayment
  <2>. QED
    BY <1>2, <2>1, FS_EmptySet, EntriesFinite
<1>. QED
  BY <1>1, <1>2, <1>3, <1>4 DEF InitPay, PayInv, PayJob, ClerkOK, Free

\* A step that touches neither cases nor approvals nor payments.
LEMMA OnlyClerkMoves ==
  ASSUME PayInv, NEW w \in Clerk, NEW t \in PayJob,
         paying' = [paying EXCEPT ![w] = t], ClerkOK(w)',
         UNCHANGED <<vars, approvalVars, payments>>
  PROVE  PayInv'
<1>1. TrailTypeOK' /\ TrailKept
  BY NothingMoved DEF PayInv
<1>2. ApprovalsInv' /\ Grows
  BY ApprovalsLeftAlone DEF PayInv
<1>3. RowsOK' /\ PaymentsStay /\ \A o \in Opening : PaidOf(o)' = PaidOf(o)
  BY <1>2, RowsKept
<1>4. PaidInv'
  BY <1>1, <1>3, PaidShrinks
<1>. QED
  BY <1>1, <1>2, <1>3, <1>4, ClerkStep

\* A call that ends without a commit.
LEMMA LeavingStep ==
  ASSUME PayInv, NEW w \in Clerk, Finish(w),
         UNCHANGED <<vars, approvalVars, payments>>
  PROVE  PayInv'
<1>1. Free \in PayJob
  BY DEF PayJob
<1>2. paying' = [paying EXCEPT ![w] = Free] /\ paying'[w] = Free
  BY DEF Finish, PayInv
<1>3. ClerkOK(w)'
  BY <1>2 DEF ClerkOK, Free
<1>. QED
  BY <1>1, <1>2, <1>3, OnlyClerkMoves

\* A commit of the payment alone, which pays nothing.
LEMMA CommitStep ==
  ASSUME PayInv, NEW w \in Clerk, Finish(w), UNCHANGED <<vars, approvalVars>>,
         RowsOK', PaymentsStay,
         \A o \in Opening : PaidOf(o)' \subseteq PaidOf(o)
  PROVE  PayInv'
<1>1. TrailTypeOK' /\ TrailKept
  BY NothingMoved DEF PayInv
<1>2. ApprovalsInv' /\ Grows
  BY ApprovalsLeftAlone DEF PayInv
<1>3. PaidInv'
  BY <1>1, PaidShrinks
<1>4. Free \in PayJob
  BY DEF PayJob
<1>5. paying' = [paying EXCEPT ![w] = Free] /\ paying'[w] = Free
  BY DEF Finish, PayInv
<1>6. ClerkOK(w)'
  BY <1>5 DEF ClerkOK, Free
<1>. QED
  BY <1>1, <1>2, <1>3, <1>4, <1>5, <1>6, ClerkStep

-----------------------------------------------------------------------------
(* The actions.                                                            *)

\* create_payment: the new row claims nothing.
LEMMA CreateStep ==
  ASSUME PayInv, NEW p \in Payment, NEW o \in Opening, NEW u \in User,
         create_payment(p, o, u)
  PROVE  PayInv'
<1>. DEFINE row == [NoPayment EXCEPT !.branch_opening_id = o]
<1>1. payments[p] = NoPayment /\ payments \in [Payment -> PaymentRow]
  BY DEF create_payment, Made, PayInv, RowsOK
<1>2. /\ row \in PaymentRow /\ row.branch_opening_id = o
      /\ row.status = "DRAFT" /\ row.approved_by = None
  BY DEF NoPayment, PaymentRow, PaymentStatus
<1>3. payments' = [payments EXCEPT ![p] = row]
  BY <1>1 DEF create_payment
<1>. HIDE DEF row
<1>4. TrailTypeOK' /\ TrailKept
  BY NothingMoved DEF PayInv, create_payment
<1>5. ApprovalsInv' /\ Grows
  BY ApprovalsLeftAlone DEF PayInv, create_payment
<1>6. payments[p].approved_by = None /\ payments[p].status = "DRAFT"
  BY <1>1 DEF NoPayment
<1>7. RowsOK' /\ PaymentsStay
  BY <1>2, <1>3, <1>5, <1>6, RowWritten
<1>8. \A q \in Opening : PaidOf(q)' \subseteq PaidOf(q)
  BY <1>1, <1>2, <1>3 DEF PaidOf
<1>9. PaidInv'
  BY <1>4, <1>8, PaidShrinks
<1>. QED
  BY <1>4, <1>5, <1>7, <1>9, NoClerkStep DEF create_payment

\* submit, the read.
LEMMA BeginSubmitStep ==
  ASSUME PayInv, NEW w \in Clerk, NEW p \in Payment, NEW u \in User,
         begin_submit(w, p, u)
  PROVE  PayInv'
<1>. DEFINE t == [pc |-> "submit", id |-> p]
<1>1. t \in PayJob /\ t.pc = "submit" /\ t.id = p
  BY DEF PayJob
<1>2. paying' = [paying EXCEPT ![w] = t] /\ payments' = payments
  BY DEF begin_submit
<1>. HIDE DEF t
<1>3. paying'[w] = t
  BY <1>2 DEF PayInv
<1>4. payments[p].branch_opening_id \in Opening
  BY DEF begin_submit, Made, PayInv, RowsOK, PaymentOK
<1>5. ClerkOK(w)'
  BY <1>1, <1>2, <1>3, <1>4 DEF ClerkOK
<1>. QED
  BY <1>1, <1>2, <1>5, OnlyClerkMoves DEF begin_submit

\* submit, the commit.
LEMMA CommitSubmitStep ==
  ASSUME PayInv, NEW w \in Clerk, commit_submit(w)
  PROVE  PayInv'
<1>1. PICK p \in Payment : p = paying[w].id
  BY DEF commit_submit, Doing, PayInv, PayJob, ReviewJob, Free
<1>2. PICK old \in PaymentRow : old = payments[p]
  BY DEF PayInv, RowsOK
<1>. DEFINE row == [old EXCEPT !.status = "SUBMITTED"]
<1>3. /\ payments \in [Payment -> PaymentRow] /\ PaymentOK(p)
      /\ old.branch_opening_id \in Opening /\ Trail
  BY <1>1, <1>2
  DEF PayInv, RowsOK, ClerkOK, commit_submit, Doing, ApprovalsInv
<1>4. /\ row \in PaymentRow /\ row.status = "SUBMITTED"
      /\ row.branch_opening_id = old.branch_opening_id
      /\ row.approved_by = old.approved_by
  BY DEF PaymentRow, PaymentStatus
<1>5. payments' = [payments EXCEPT ![p] = row]
  BY <1>1, <1>2, <1>3 DEF commit_submit
<1>. HIDE DEF row
<1>6. Grows
  BY ApprovalsLeftAlone DEF PayInv, commit_submit
<1>7. row.approved_by # None => Backed(p, "APPROVED", {row.approved_by})'
  BY <1>2, <1>3, <1>4, <1>6, RecordStays DEF PaymentOK, Backed
<1>8. RowsOK' /\ PaymentsStay
  BY <1>2, <1>3, <1>4, <1>5, <1>6, <1>7, RowWritten
<1>9. \A o \in Opening : PaidOf(o)' \subseteq PaidOf(o)
  BY <1>3, <1>4, <1>5 DEF PaidOf
<1>. QED
  BY <1>8, <1>9, CommitStep DEF commit_submit

\* The read of a review, with the look for a decision.
LEMMA BeginReviewStep ==
  ASSUME PayInv, NEW w \in Clerk, NEW p \in Payment, NEW u \in User,
         NEW d \in {"APPROVED", "REJECTED"}, begin_review(w, p, d, u)
  PROVE  PayInv'
<1>. DEFINE t == [pc |-> "request", id |-> p, decision |-> d, user |-> u,
                  loaded |-> payments[p], approval |-> 0]
<1>1. payments[p] \in PaymentRow
  BY DEF PayInv, RowsOK
<1>2. /\ t \in PayJob /\ t.pc = "request" /\ t.id = p
      /\ t.loaded = payments[p]
  BY <1>1 DEF PayJob, ReviewJob
<1>3. paying' = [paying EXCEPT ![w] = t] /\ payments' = payments
  BY DEF begin_review
<1>. HIDE DEF t
<1>4. paying'[w] = t
  BY <1>3 DEF PayInv
<1>5. payments[p].branch_opening_id \in Opening
  BY DEF begin_review, Made, PayInv, RowsOK, PaymentOK
<1>6. ClerkOK(w)'
  BY <1>2, <1>3, <1>4, <1>5 DEF ClerkOK
<1>. QED
  BY <1>2, <1>3, <1>6, OnlyClerkMoves DEF begin_review

\* A worker in a review, and what it knows.
LEMMA InReview ==
  ASSUME PayInv, NEW w \in Clerk,
         paying[w].pc \in {"request", "refresh", "decide", "verdict"}
  PROVE  \E v \in ReviewJob : v = paying[w] /\ ClerkOK(w)
BY DEF PayInv, PayJob, Free

\* The approval row a review inserts is one of its own payment.
LEMMA RequestStep ==
  ASSUME PayInv, NEW w \in Clerk, request_approval(w)
  PROVE  PayInv'
<1>1. PICK v \in ReviewJob : v = paying[w] /\ ClerkOK(w) /\ v.pc = "request"
  BY InReview DEF request_approval, Doing
<1>2. PICK id \in Nat : id = Len(approvals) + 1
  BY DEF PayInv, ApprovalsInv, Trail
<1>. DEFINE t == [v EXCEPT !.pc = "refresh", !.approval = id]
<1>3. /\ t \in PayJob /\ t.pc = "refresh" /\ t.id = v.id
      /\ t.approval = id /\ t.loaded = v.loaded
  BY DEF PayJob, ReviewJob
<1>4. /\ v.id \in Entity /\ "PAYMENT" \in ApprovalType
      /\ v.user \in Approver
      /\ request(v.id, "PAYMENT", v.user)
  BY <1>1, PaymentConstants DEF request_approval, ReviewJob
<1>5. ApprovalsInv' /\ Grows
  BY <1>4, ApprovalRequested DEF PayInv, request_approval
<1>6. /\ id \in DOMAIN approvals'
      /\ approvals'[id].entity = v.id
      /\ approvals'[id].approval_type = "PAYMENT"
  BY <1>2, <1>4, RequestPreserves DEF PayInv, ApprovalsInv
<1>7. TrailTypeOK' /\ TrailKept
  BY NothingMoved DEF PayInv, request_approval
<1>8. payments' = payments
  BY DEF request_approval
<1>9. RowsOK' /\ PaymentsStay /\ \A o \in Opening : PaidOf(o)' = PaidOf(o)
  BY <1>5, <1>8, RowsKept
<1>10. PaidInv'
  BY <1>7, <1>9, PaidShrinks
<1>11. paying' = [paying EXCEPT ![w] = t] /\ paying'[w] = t
  BY <1>1, <1>2 DEF request_approval, PayInv
<1>. HIDE DEF t
<1>12. ClerkOK(w)'
  BY <1>1, <1>3, <1>6, <1>8, <1>11 DEF ClerkOK
<1>. QED
  BY <1>3, <1>5, <1>7, <1>9, <1>10, <1>11, <1>12, ClerkStep

\* The approval row as loaded again.
LEMMA RefreshStep ==
  ASSUME PayInv, NEW w \in Clerk, refresh_approval(w)
  PROVE  PayInv'
<1>1. PICK v \in ReviewJob : v = paying[w] /\ ClerkOK(w) /\ v.pc = "refresh"
  BY InReview DEF refresh_approval, Doing
<1>2. CASE Finish(w)
  BY <1>2, LeavingStep DEF refresh_approval
<1>3. CASE Proceed(w, "decide")
  <2>. DEFINE t == [v EXCEPT !.pc = "decide"]
  <2>1. /\ t \in PayJob /\ t.pc = "decide" /\ t.id = v.id
        /\ t.approval = v.approval /\ t.loaded = v.loaded
    BY DEF PayJob, ReviewJob
  <2>2. /\ paying' = [paying EXCEPT ![w] = t] /\ paying'[w] = t
        /\ payments' = payments /\ approvals' = approvals
    BY <1>1, <1>3 DEF refresh_approval, Proceed, PayInv, approvalVars
  <2>. HIDE DEF t
  <2>3. ClerkOK(w)'
    BY <1>1, <2>1, <2>2 DEF ClerkOK
  <2>. QED
    BY <2>1, <2>2, <2>3, OnlyClerkMoves DEF refresh_approval
<1>. QED
  BY <1>2, <1>3 DEF refresh_approval

\* The decision of a review goes on record before the payment shows it.
LEMMA DecideStep ==
  ASSUME PayInv, NEW w \in Clerk, decide_approval(w)
  PROVE  PayInv'
<1>1. PICK v \in ReviewJob : v = paying[w] /\ ClerkOK(w) /\ v.pc = "decide"
  BY InReview DEF decide_approval, Doing
<1>. DEFINE t == [v EXCEPT !.pc = "verdict"]
<1>2. /\ t \in PayJob /\ t.pc = "verdict" /\ t.id = v.id
      /\ t.approval = v.approval /\ t.loaded = v.loaded
      /\ t.decision = v.decision /\ t.user = v.user
  BY DEF PayJob, ReviewJob
<1>3. PICK id \in DOMAIN approvals :
        /\ id = v.approval
        /\ approvals[id].entity = v.id
        /\ approvals[id].approval_type = "PAYMENT"
  BY <1>1 DEF ClerkOK
<1>4. /\ Decide(id, v.decision, v.user)
      /\ v.decision \in ApprovalDecision /\ v.user \in Approver
      /\ deciding' = deciding
  BY <1>1, <1>3, PaymentConstants
  DEF decide_approval, ApprovalDecision, ReviewJob
<1>5. ApprovalsInv' /\ Grows
  BY <1>4, ApprovalDecided DEF PayInv
<1>6. Backed(v.id, v.decision, {v.user})'
  <2>1. OnRecord(approvals[id].entity, {approvals[id].approval_type},
                 {v.decision}, {v.user})'
    BY <1>4, DecidingRecords DEF PayInv, ApprovalsInv
  <2>2. /\ approvals'[id].entity = approvals[id].entity
        /\ approvals'[id].approval_type = approvals[id].approval_type
    BY <1>5 DEF Grows
  <2>. QED
    BY <1>3, <2>1, <2>2 DEF OnRecord, Backed
<1>7. TrailTypeOK' /\ TrailKept
  BY NothingMoved DEF PayInv, decide_approval
<1>8. payments' = payments
  BY DEF decide_approval
<1>9. RowsOK' /\ PaymentsStay /\ \A o \in Opening : PaidOf(o)' = PaidOf(o)
  BY <1>5, <1>8, RowsKept
<1>10. PaidInv'
  BY <1>7, <1>9, PaidShrinks
<1>11. paying' = [paying EXCEPT ![w] = t] /\ paying'[w] = t
  BY <1>1 DEF decide_approval, Proceed, PayInv
<1>12. /\ id \in DOMAIN approvals' /\ approvals'[id].entity = v.id
       /\ approvals'[id].approval_type = "PAYMENT"
  BY <1>3, <1>5 DEF Grows
<1>. HIDE DEF t
<1>13. ClerkOK(w)'
  BY <1>1, <1>2, <1>3, <1>6, <1>8, <1>11, <1>12 DEF ClerkOK
<1>. QED
  BY <1>2, <1>5, <1>7, <1>9, <1>10, <1>11, <1>13, ClerkStep

\* What a review writes goes back to its decision, and what it leaves alone to
\* an earlier one.
LEMMA VerdictStep ==
  ASSUME PayInv, NEW w \in Clerk, commit_verdict(w)
  PROVE  PayInv'
<1>1. PICK v \in ReviewJob : v = paying[w] /\ ClerkOK(w) /\ v.pc = "verdict"
  BY InReview DEF commit_verdict, Doing
<1>2. PICK p \in Payment, u \in User, d \in {"APPROVED", "REJECTED"},
           loaded \in PaymentRow :
        p = v.id /\ u = v.user /\ d = v.decision /\ loaded = v.loaded
  BY DEF ReviewJob
<1>3. PICK old \in PaymentRow : old = payments[p]
  BY DEF PayInv, RowsOK
<1>. DEFINE status == Written(old.status, loaded.status, d)
            approved_by == IF d = "APPROVED"
                             THEN Written(old.approved_by,
                                          loaded.approved_by, u)
                             ELSE old.approved_by
            row == [old EXCEPT !.status = status, !.approved_by = approved_by]
<1>4. /\ payments \in [Payment -> PaymentRow] /\ PaymentOK(p) /\ Trail
      /\ old.branch_opening_id \in Opening
      /\ loaded.approved_by # None => old.approved_by # None
      /\ Backed(p, d, {u})
  BY <1>1, <1>2, <1>3 DEF PayInv, RowsOK, ClerkOK, ApprovalsInv
<1>5. Grows
  BY ApprovalsLeftAlone DEF PayInv, commit_verdict
<1>6. status \in {old.status, d} /\ status \in PaymentStatus
  BY DEF Written, PaymentRow, PaymentStatus
<1>7. u # None
  BY WorkflowConstants
<1>9. /\ approved_by \in {old.approved_by, u}
      /\ approved_by # old.approved_by => approved_by = u /\ d = "APPROVED"
      /\ old.approved_by # None => approved_by # None
      /\ d = "APPROVED" => approved_by # None
  BY <1>4, <1>7 DEF Written
<1>10. payments' = [payments EXCEPT ![p] = row]
  BY <1>1, <1>2, <1>3, <1>4 DEF commit_verdict, PaymentRow
<1>11. /\ row \in PaymentRow /\ row.status = status
       /\ row.approved_by = approved_by
       /\ row.branch_opening_id = old.branch_opening_id
  BY <1>6, <1>9 DEF PaymentRow
<1>. HIDE DEF row, status, approved_by
<1>12. Backed(p, d, {u})' /\ (d = "REJECTED" => Backed(p, "REJECTED", User)')
  <2>1. d = "REJECTED" => Backed(p, "REJECTED", User)
    BY <1>4 DEF Backed, OnRecord
  <2>. QED
    BY <1>4, <1>5, <2>1, RecordStays DEF Backed
<1>13. old.approved_by # None => Backed(p, "APPROVED", {old.approved_by})'
  BY <1>3, <1>4, <1>5, RecordStays DEF PaymentOK, Backed
<1>14. old.status = "REJECTED" => Backed(p, "REJECTED", User)'
  BY <1>3, <1>4, <1>5, RecordStays DEF PaymentOK, Backed
<1>15. row.approved_by # None => Backed(p, "APPROVED", {row.approved_by})'
  <2>1. CASE approved_by = old.approved_by
    BY <1>11, <1>13, <2>1
  <2>2. CASE approved_by # old.approved_by
    BY <1>9, <1>11, <1>12, <2>2
  <2>. QED
    BY <2>1, <2>2
<1>16. row.status \in {"APPROVED", "PAID"} => row.approved_by # None
  BY <1>3, <1>4, <1>6, <1>9, <1>11 DEF PaymentOK
<1>17. row.status = "REJECTED" => Backed(p, "REJECTED", User)'
  BY <1>6, <1>11, <1>12, <1>14
<1>18. payments[p].approved_by # None => row.approved_by # None
  BY <1>3, <1>9, <1>11
<1>19. RowsOK' /\ PaymentsStay
  BY <1>4, <1>5, <1>10, <1>11, <1>15, <1>16, <1>17, <1>18, RowWritten
<1>20. \A o \in Opening : PaidOf(o)' \subseteq PaidOf(o)
  BY <1>3, <1>4, <1>6, <1>10, <1>11 DEF PaidOf
<1>. QED
  BY <1>19, <1>20, CommitStep DEF commit_verdict

\* mark_paid, the reads: the payment found is one that was approved.
LEMMA BeginPayStep ==
  ASSUME PayInv, NEW w \in Clerk, NEW p \in Payment, NEW u \in User,
         begin_mark_paid(w, p, u)
  PROVE  PayInv'
<1>. DEFINE t == [pc |-> "pay", id |-> p, user |-> u,
                  stage |-> current_stage[payments[p].branch_opening_id]]
<1>1. /\ payments[p].branch_opening_id \in Opening
      /\ payments[p].approved_by # None
  BY DEF begin_mark_paid, Made, PayInv, RowsOK, PaymentOK
<1>2. current_stage[payments[p].branch_opening_id] \in WorkflowStage
  BY <1>1 DEF PayInv, TrailTypeOK
<1>3. t \in PayJob /\ t.pc = "pay" /\ t.id = p
  BY <1>2 DEF PayJob
<1>4. paying' = [paying EXCEPT ![w] = t] /\ payments' = payments
  BY DEF begin_mark_paid
<1>. HIDE DEF t
<1>5. paying'[w] = t
  BY <1>4 DEF PayInv
<1>6. ClerkOK(w)'
  BY <1>1, <1>3, <1>4, <1>5 DEF ClerkOK
<1>. QED
  BY <1>3, <1>4, <1>6, OnlyClerkMoves DEF begin_mark_paid

\* Paying writes one payment and one entry into INFRASTRUCTURE, of its case.
LEMMA PayStep ==
  ASSUME PayInv, NEW w \in Clerk, commit_mark_paid(w)
  PROVE  PayInv'
<1>1. PICK p \in Payment, u \in User, stage \in WorkflowStage :
        p = paying[w].id /\ u = paying[w].user /\ stage = paying[w].stage
  BY DEF commit_mark_paid, Doing, PayInv, PayJob, ReviewJob, Free
<1>2. PICK old \in PaymentRow : old = payments[p]
  BY DEF PayInv, RowsOK
<1>3. /\ payments \in [Payment -> PaymentRow] /\ PaymentOK(p) /\ Trail
      /\ old.approved_by # None
      /\ old.branch_opening_id \in Opening
  BY <1>1, <1>2
  DEF commit_mark_paid, Doing, PayInv, RowsOK, ClerkOK, ApprovalsInv
<1>. DEFINE row == [old EXCEPT !.status = "PAID"]
            o == old.branch_opening_id
<1>4. /\ row \in PaymentRow /\ row.status = "PAID"
      /\ row.branch_opening_id = o
      /\ row.approved_by = old.approved_by
  BY DEF PaymentRow, PaymentStatus
<1>5. payments' = [payments EXCEPT ![p] = row]
  BY <1>1, <1>2, <1>3 DEF commit_mark_paid
<1>. HIDE DEF row
<1>6. ApprovalsInv' /\ Grows
  BY ApprovalsLeftAlone DEF PayInv, commit_mark_paid
<1>7. row.approved_by # None => Backed(p, "APPROVED", {row.approved_by})'
  BY <1>2, <1>3, <1>4, <1>6, RecordStays DEF PaymentOK, Backed
<1>8. RowsOK' /\ PaymentsStay
  BY <1>2, <1>3, <1>4, <1>5, <1>6, <1>7, RowWritten
<1>9. /\ Advance(o, stage, "INFRASTRUCTURE", u)
      /\ "INFRASTRUCTURE" \in WorkflowStage
  <2>1. SEQUENCE[12] = "INFRASTRUCTURE"
    BY DEF SEQUENCE
  <2>. QED
    BY <1>1, <1>2, <2>1, SequenceIndex DEF commit_mark_paid
<1>10. /\ TrailTypeOK' /\ TrailKept
       /\ Cardinality(EntriesInto(o, "INFRASTRUCTURE")')
            = Cardinality(EntriesInto(o, "INFRASTRUCTURE")) + 1
       /\ \A q \in Opening \ {o} : EntriesInto(q, "INFRASTRUCTURE")'
                                     = EntriesInto(q, "INFRASTRUCTURE")
  BY <1>3, <1>9, AdvanceRecorded DEF PayInv
<1>11. PaidInv'
  <2>. SUFFICES ASSUME NEW q \in Opening
                PROVE  /\ IsFiniteSet(PaidOf(q)')
                       /\ Cardinality(PaidOf(q)')
                            <= Cardinality(EntriesInto(q, "INFRASTRUCTURE")')
    BY DEF PaidInv
  <2>1. /\ IsFiniteSet(PaidOf(q))
        /\ Cardinality(PaidOf(q))
             <= Cardinality(EntriesInto(q, "INFRASTRUCTURE"))
    BY DEF PayInv, PaidInv
  <2>2. /\ Cardinality(EntriesInto(q, "INFRASTRUCTURE")) \in Nat
        /\ Cardinality(PaidOf(q)) \in Nat
    BY <2>1, EntriesFinite, FS_CardinalityType DEF PayInv
  <2>3. CASE q = o
    <3>1. PaidOf(q)' = PaidOf(q) \cup {p}
      BY <1>2, <1>3, <1>4, <1>5, <2>3 DEF PaidOf
    <3>2. /\ IsFiniteSet(PaidOf(q)')
          /\ Cardinality(PaidOf(q)') \in {Cardinality(PaidOf(q)),
                                          Cardinality(PaidOf(q)) + 1}
      BY <2>1, <3>1, FS_AddElement
    <3>. QED
      BY <1>10, <2>1, <2>2, <2>3, <3>2
  <2>4. CASE q # o
    <3>1. PaidOf(q)' = PaidOf(q)
      BY <1>2, <1>3, <1>4, <1>5, <2>4 DEF PaidOf
    <3>. QED
      BY <1>10, <2>1, <2>4, <3>1
  <2>. QED
    BY <2>3, <2>4
<1>12. Free \in PayJob
  BY DEF PayJob
<1>13. paying' = [paying EXCEPT ![w] = Free] /\ paying'[w] = Free
  BY DEF commit_mark_paid, Finish, PayInv
<1>14. ClerkOK(w)'
  BY <1>13 DEF ClerkOK, Free
<1>. QED
  BY <1>6, <1>8, <1>10, <1>11, <1>12, <1>13, <1>14, ClerkStep

\* A step of the engine or of a session on the approvals.
LEMMA OutsideStep ==
  ASSUME PayInv, TrailTypeOK', TrailKept, ApprovalsInv', Grows,
         UNCHANGED <<payments, paying>>
  PROVE  PayInv'
<1>1. RowsOK' /\ PaymentsStay /\ \A o \in Opening : PaidOf(o)' = PaidOf(o)
  BY RowsKept
<1>2. PaidInv'
  BY <1>1, PaidShrinks
<1>. QED
  BY <1>1, <1>2, NoClerkStep

\* A case moved through the endpoint of the engine.
LEMMA HandStep ==
  ASSUME PayInv, MoveByHand
  PROVE  PayInv'
<1>1. PICK o \in Opening, u \in User :
        \/ send_back(o, u)
        \/ \E target \in {"PAYMENT", "INFRASTRUCTURE"} : transition(o, target, u)
  BY DEF MoveByHand
<1>2. {"PAYMENT", "INFRASTRUCTURE"} \subseteq WorkflowStage
  <2>1. SEQUENCE[11] = "PAYMENT" /\ SEQUENCE[12] = "INFRASTRUCTURE"
    BY DEF SEQUENCE
  <2>. QED
    BY <2>1, SequenceIndex
<1>3. TrailTypeOK' /\ TrailKept
  BY <1>1, <1>2, HandMoved DEF PayInv
<1>4. ApprovalsInv' /\ Grows
  BY ApprovalsLeftAlone DEF PayInv, MoveByHand
<1>. QED
  BY <1>3, <1>4, OutsideStep DEF MoveByHand

\* An approval row decided through its own endpoint.
LEMMA DirectStep ==
  ASSUME PayInv, DecideDirectly
  PROVE  PayInv'
<1>1. NextApprovals
  BY PaymentConstants DEF DecideDirectly, NextApprovals
<1>2. ApprovalsInv' /\ Grows
  BY <1>1, ApprovalsStep DEF PayInv
<1>3. TrailTypeOK' /\ TrailKept
  BY NothingMoved DEF PayInv, DecideDirectly
<1>. QED
  BY <1>2, <1>3, OutsideStep DEF DecideDirectly

\* Nothing happens.
LEMMA StutterStep ==
  ASSUME PayInv, UNCHANGED payVars
  PROVE  PayInv'
<1>1. ApprovalsInv' /\ Grows
  BY ApprovalsLeftAlone DEF PayInv, payVars
<1>2. TrailTypeOK' /\ TrailKept
  BY NothingMoved DEF PayInv, payVars
<1>. QED
  BY <1>1, <1>2, OutsideStep DEF payVars

\* Every step preserves the invariant.
LEMMA PayNext ==
  ASSUME PayInv, [NextPay]_payVars
  PROVE  PayInv'
<1>1. ASSUME NEW w \in Clerk, crash(w)
      PROVE  PayInv'
  BY <1>1, LeavingStep DEF crash
<1>. QED
  BY <1>1, CreateStep, BeginSubmitStep, CommitSubmitStep, BeginReviewStep,
     RequestStep, RefreshStep, DecideStep, VerdictStep, BeginPayStep, PayStep,
     HandStep, DirectStep, StutterStep
  DEF NextPay

-----------------------------------------------------------------------------
\* Whatever races, fails or dies: a payment that is approved or paid names
\* somebody whose approval of it is on record, and a rejected one was rejected
\* by somebody.
THEOREM VerdictAlwaysBacked == SpecPay => []VerdictBackedByDecision
<1>1. InitPay => PayInv
  BY PayInit
<1>2. PayInv /\ [NextPay]_payVars => PayInv'
  BY PayNext
<1>3. PayInv => VerdictBackedByDecision
  BY DEF PayInv, RowsOK, PaymentOK, Backed, OnRecord, DecisionOnRecord,
         VerdictBackedByDecision
<1>. QED
  BY <1>1, <1>2, <1>3, PTL DEF SpecPay

\* A case has been moved to INFRASTRUCTURE at least as often as payments of it
\* have been paid.
THEOREM PaidAlwaysMovesCase == SpecPay => []PaidMovesCase
<1>1. InitPay => PayInv
  BY PayInit
<1>2. PayInv /\ [NextPay]_payVars => PayInv'
  BY PayNext
<1>3. PayInv => PaidMovesCase
  BY DEF PayInv, PaidInv, PaidOf, EntriesInto, PaidMovesCase
<1>. QED
  BY <1>1, <1>2, <1>3, PTL DEF SpecPay
=============================================================================

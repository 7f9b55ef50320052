------------------------------ MODULE OfficeProofs ------------------------------
(***************************************************************************)
(* The components that do not move the stages of a case, for any number of *)
(* workers and rows:                                                       *)
(*  - a verdict on an invoice has its decision on record, revisions follow *)
(*    refusals, and a history is the whole family;                         *)
(*  - letters of agreement go through their statuses in order, and the     *)
(*    trails of agreements and options show every lost change;             *)
(*  - options are numbered without a gap;                                  *)
(*  - the sums of a deposit are bounded, and its statuses covered by what  *)
(*    was paid;                                                            *)
(*  - a comparison ranks every quotation and brackets the amounts;         *)
(*  - regions, areas and branches stay consistent, and the most specific   *)
(*    rent limit applies;                                                  *)
(*  - together they preserve one another's invariants;                     *)
(*  - the numbers of cases are gapless, and CaseNumbers implements the     *)
(*    safety part of CaseRegister;                                         *)
(*  - the window of the rate limiter slides, and what it lets through      *)
(*    behaves as CaseNumbers does.                                         *)
(***************************************************************************)
EXTENDS MCOffice, Intake, ApprovalsProofs, FiniteSetTheorems,
        WellFoundedInduction

-----------------------------------------------------------------------------
(* Invoices.                                                               *)

\* What a worker may be doing.
Errand ==
  {AtDesk}
    \cup [pc : {"submit"}, id : DOMAIN invoices]
    \cup [pc : {"request", "refresh", "decide", "verdict"},
          id : DOMAIN invoices, decision : Verdicts, user : Approver,
          approval : Nat]
    \cup [pc : {"revise"}, id : DOMAIN invoices, version : Nat]

Refusals == Verdicts \ {"APPROVED"}

\* A worker in a review holds an approval row of its invoice, once decided
\* with its verdict; one that revises goes by a refusal.
Grounded(w) ==
  LET t == invoicing[w] IN
  /\ t.pc \in {"refresh", "decide", "verdict"} =>
       t.approval \in DOMAIN approvals /\ approvals[t.approval].entity = t.id
  /\ t.pc = "verdict" => InvoiceDecided(t.id, {t.decision})
  /\ t.pc = "revise" =>
       t.version = invoices[t.id].version /\ InvoiceDecided(t.id, Refusals)

\* The invoices alone.
RowsOK ==
  /\ invoices \in Seq(Invoice)
  /\ DOMAIN invoices \subseteq 1..MaxInvoices
  /\ InvoiceVerdictBacked
  /\ RevisionsFollowRefusals

InvoicesInv ==
  /\ ApprovalsInv
  /\ RowsOK
  /\ invoicing \in [InvoiceWorker -> Errand]
  /\ \A w \in InvoiceWorker : Grounded(w)

\* No invoice is removed or changes its place in its family.
FamiliesStay ==
  \A i \in DOMAIN invoices :
    /\ i \in DOMAIN invoices'
    /\ invoices'[i].version = invoices[i].version
    /\ invoices'[i].parent_invoice_id = invoices[i].parent_invoice_id

-----------------------------------------------------------------------------
\* What has been decided stays decided.
LEMMA StaysDecided ==
  ASSUME Trail, Grows, NEW i, NEW V, InvoiceDecided(i, V)
  PROVE  InvoiceDecided(i, V)'
<1>1. PICK k \in DOMAIN decisions :
        /\ approvals[decisions[k].approval].entity = i
        /\ decisions[k].new_value \in V
  BY DEF InvoiceDecided
<1>2. decisions[k].approval \in DOMAIN approvals
  BY <1>1 DEF Trail
<1>3. k \in DOMAIN decisions' /\ decisions'[k] = decisions[k]
      /\ approvals'[decisions[k].approval].entity = i
  BY <1>1, <1>2 DEF Grows
<1>. QED
  BY <1>1, <1>3 DEF InvoiceDecided

\* A worker that does nothing stays grounded.
LEMMA OthersStayGrounded ==
  ASSUME InvoicesInv, Grows, FamiliesStay, NEW v \in InvoiceWorker,
         invoicing'[v] = invoicing[v]
  PROVE  invoicing'[v] \in Errand' /\ Grounded(v)'
<1>. DEFINE t == invoicing[v]
<1>1. t \in Errand /\ Grounded(v) /\ Trail
  BY DEF InvoicesInv, ApprovalsInv
<1>2. DOMAIN invoices \subseteq DOMAIN invoices'
  BY DEF FamiliesStay
<1>3. invoicing'[v] \in Errand'
  BY <1>1, <1>2 DEF Errand
<1>4. t.pc \in {"refresh", "decide", "verdict"} =>
        /\ t.approval \in DOMAIN approvals'
        /\ approvals'[t.approval].entity = t.id
  BY <1>1 DEF Grounded, Grows
<1>5. t.pc = "verdict" => InvoiceDecided(t.id, {t.decision})'
  BY <1>1, StaysDecided DEF Grounded
<1>6. t.pc = "revise" => InvoiceDecided(t.id, Refusals)'
  BY <1>1, StaysDecided DEF Grounded
<1>7. t.pc = "revise" => t.version = invoices'[t.id].version
  BY <1>1 DEF Grounded, FamiliesStay, Errand, AtDesk
<1>. QED
  BY <1>3, <1>4, <1>5, <1>6, <1>7 DEF Grounded

\* A step of one worker, from what it does to rows and approvals.
LEMMA WorkerStep ==
  ASSUME InvoicesInv, ApprovalsInv', Grows, RowsOK', FamiliesStay,
         NEW w \in InvoiceWorker, NEW t \in Errand',
         invoicing' = [invoicing EXCEPT ![w] = t], Grounded(w)'
  PROVE  InvoicesInv'
<1>1. invoicing \in [InvoiceWorker -> Errand]
  BY DEF InvoicesInv
<1>2. \A v \in InvoiceWorker \ {w} : invoicing'[v] = invoicing[v]
  BY <1>1
<1>3. invoicing'[w] = t
  BY <1>1
<1>4. \A v \in InvoiceWorker : invoicing'[v] \in Errand' /\ Grounded(v)'
  BY <1>2, <1>3, OthersStayGrounded
<1>5. invoicing' \in [InvoiceWorker -> Errand']
  BY <1>1, <1>4
<1>. QED
  BY <1>4, <1>5 DEF InvoicesInv

\* A step of a session or of nobody.
LEMMA NoWorkerStep ==
  ASSUME InvoicesInv, ApprovalsInv', Grows, RowsOK', FamiliesStay,
         invoicing' = invoicing
  PROVE  InvoicesInv'
<1>1. invoicing \in [InvoiceWorker -> Errand]
  BY DEF InvoicesInv
<1>2. \A v \in InvoiceWorker : invoicing'[v] \in Errand' /\ Grounded(v)'
  BY OthersStayGrounded
<1>3. invoicing' \in [InvoiceWorker -> Errand']
  BY <1>1, <1>2
<1>. QED
  BY <1>2, <1>3 DEF InvoicesInv

-----------------------------------------------------------------------------
(* What a step may do to the rows.                                         *)

\* Nothing.
LEMMA RowsKept ==
  ASSUME InvoicesInv, Grows, invoices' = invoices
  PROVE  RowsOK' /\ FamiliesStay
<1>1. Trail /\ RowsOK
  BY DEF InvoicesInv, ApprovalsInv
<1>2. InvoiceVerdictBacked'
  <2>. SUFFICES ASSUME NEW i \in DOMAIN invoices, NEW st \in Verdicts,
                       invoices[i].status = st
                PROVE  InvoiceDecided(i, {st})'
    BY DEF InvoiceVerdictBacked
  <2>1. InvoiceDecided(i, {st})
    BY <1>1 DEF RowsOK, InvoiceVerdictBacked
  <2>. QED
    BY <1>1, <2>1, StaysDecided
<1>3. RevisionsFollowRefusals'
  <2>. SUFFICES ASSUME NEW i \in DOMAIN invoices, NEW p,
                       p = invoices[i].parent_invoice_id, p # 0
                PROVE  InvoiceDecided(p, Refusals)'
    BY <1>1 DEF RowsOK, RevisionsFollowRefusals, Refusals
  <2>1. InvoiceDecided(p, Refusals)
    BY <1>1 DEF RowsOK, RevisionsFollowRefusals, Refusals
  <2>. QED
    BY <1>1, <2>1, StaysDecided
<1>. QED
  BY <1>1, <1>2, <1>3 DEF RowsOK, FamiliesStay

\* A status is written, a verdict only with its decision.
LEMMA StatusWritten ==
  ASSUME InvoicesInv, Grows, NEW id \in DOMAIN invoices,
         NEW st \in InvoiceStatus,
         invoices' = [invoices EXCEPT ![id].status = st],
         st \in Verdicts => InvoiceDecided(id, {st})'
  PROVE  RowsOK' /\ FamiliesStay
<1>. DEFINE row == [invoices[id] EXCEPT !.status = st]
<1>1. Trail /\ RowsOK
  BY DEF InvoicesInv, ApprovalsInv
<1>2. /\ invoices \in Seq(Invoice) /\ invoices[id] \in Invoice
      /\ id \in 1..Len(invoices)
  BY <1>1 DEF RowsOK
<1>3. invoices' = [invoices EXCEPT ![id] = row]
  BY <1>2
<1>4. /\ row \in Invoice /\ row.status = st
      /\ row.version = invoices[id].version
      /\ row.parent_invoice_id = invoices[id].parent_invoice_id
  BY <1>2 DEF Invoice
<1>. HIDE DEF row
<1>5. invoices' \in Seq(Invoice)
  BY <1>2, <1>3, <1>4, ExceptSeq
<1>6. /\ DOMAIN invoices' = DOMAIN invoices
      /\ invoices'[id] = row
      /\ \A i \in DOMAIN invoices \ {id} : invoices'[i] = invoices[i]
  BY <1>2, <1>3
<1>7. FamiliesStay
  BY <1>4, <1>6 DEF FamiliesStay
<1>8. InvoiceVerdictBacked'
  <2>. SUFFICES ASSUME NEW i \in DOMAIN invoices, NEW verdict \in Verdicts,
                       invoices'[i].status = verdict
                PROVE  InvoiceDecided(i, {verdict})'
    BY <1>6 DEF InvoiceVerdictBacked
  <2>1. CASE i = id
    BY <1>4, <1>6, <2>1
  <2>2. CASE i # id
    <3>1. InvoiceDecided(i, {verdict})
      BY <1>1, <1>6, <2>2 DEF RowsOK, InvoiceVerdictBacked
    <3>. QED
      BY <1>1, <3>1, StaysDecided
  <2>. QED
    BY <2>1, <2>2
<1>9. RevisionsFollowRefusals'
  <2>. SUFFICES ASSUME NEW i \in DOMAIN invoices, NEW p,
                       p = invoices'[i].parent_invoice_id
                PROVE  IF p = 0 THEN invoices'[i].version = 1
                       ELSE /\ p < i
                            /\ invoices'[i].version = invoices'[p].version + 1
                            /\ InvoiceDecided(p, Refusals)'
    BY <1>6 DEF RevisionsFollowRefusals, Refusals
  <2>1. /\ invoices[i].parent_invoice_id = p
        /\ invoices'[i].version = invoices[i].version
    BY <1>7 DEF FamiliesStay
  <2>2. CASE p = 0
    BY <1>1, <2>1, <2>2 DEF RowsOK, RevisionsFollowRefusals
  <2>3. CASE p # 0
    <3>1. /\ p < i /\ invoices[i].version = invoices[p].version + 1
          /\ InvoiceDecided(p, Refusals)
      BY <1>1, <2>1, <2>3 DEF RowsOK, RevisionsFollowRefusals, Refusals
    <3>2. p \in DOMAIN invoices
      <4>1. invoices[i] \in Invoice /\ i \in 1..Len(invoices)
        BY <1>2
      <4>2. p \in Nat
        BY <2>1, <4>1 DEF Invoice
      <4>. QED
        BY <1>2, <2>3, <3>1, <4>1, <4>2
    <3>3. invoices'[p].version = invoices[p].version
      BY <1>7, <3>2 DEF FamiliesStay
    <3>4. InvoiceDecided(p, Refusals)'
      BY <1>1, <3>1, StaysDecided
    <3>. QED
      BY <2>1, <2>3, <3>1, <3>3, <3>4
  <2>. QED
    BY <2>2, <2>3
<1>. QED
  BY <1>1, <1>5, <1>6, <1>7, <1>8, <1>9 DEF RowsOK

\* A row is added: a first version, or a revision of a refused invoice.
LEMMA RowAppended ==
  ASSUME InvoicesInv, Grows, NEW row \in Invoice,
         Len(invoices) < MaxInvoices, invoices' = Append(invoices, row),
         row.status \notin Verdicts,
         IF row.parent_invoice_id = 0 THEN row.version = 1
         ELSE /\ row.parent_invoice_id \in DOMAIN invoices
              /\ row.version = invoices[row.parent_invoice_id].version + 1
              /\ InvoiceDecided(row.parent_invoice_id, Refusals)
  PROVE  RowsOK' /\ FamiliesStay
<1>. DEFINE last == Len(invoices) + 1
<1>1. Trail /\ RowsOK
  BY DEF InvoicesInv, ApprovalsInv
<1>2. invoices \in Seq(Invoice) /\ Len(invoices) \in Nat
      /\ DOMAIN invoices = 1..Len(invoices)
  BY <1>1 DEF RowsOK
<1>3. /\ invoices' \in Seq(Invoice)
      /\ DOMAIN invoices' = 1..last
      /\ invoices'[last] = row
      /\ \A i \in DOMAIN invoices : invoices'[i] = invoices[i]
  BY <1>2
<1>4. DOMAIN invoices' \subseteq 1..MaxInvoices
  BY <1>2, <1>3, InvoiceConstants
<1>5. FamiliesStay
  BY <1>2, <1>3 DEF FamiliesStay
<1>6. InvoiceVerdictBacked'
  <2>. SUFFICES ASSUME NEW i \in DOMAIN invoices', NEW verdict \in Verdicts,
                       invoices'[i].status = verdict
                PROVE  InvoiceDecided(i, {verdict})'
    BY DEF InvoiceVerdictBacked
  <2>1. i \in DOMAIN invoices
    BY <1>2, <1>3
  <2>2. InvoiceDecided(i, {verdict})
    BY <1>1, <1>3, <2>1 DEF RowsOK, InvoiceVerdictBacked
  <2>. QED
    BY <1>1, <2>2, StaysDecided
<1>7. RevisionsFollowRefusals'
  <2>. SUFFICES ASSUME NEW i \in DOMAIN invoices', NEW p,
                       p = invoices'[i].parent_invoice_id
                PROVE  IF p = 0 THEN invoices'[i].version = 1
                       ELSE /\ p < i
                            /\ invoices'[i].version = invoices'[p].version + 1
                            /\ InvoiceDecided(p, Refusals)'
    BY DEF RevisionsFollowRefusals, Refusals
  <2>1. CASE i = last
    <3>1. row.parent_invoice_id = p /\ invoices'[i] = row
      BY <1>3, <2>1
    <3>2. CASE p # 0
      <4>1. p \in DOMAIN invoices /\ InvoiceDecided(p, Refusals)
            /\ row.version = invoices[p].version + 1
        BY <3>1, <3>2
      <4>2. InvoiceDecided(p, Refusals)'
        BY <1>1, <4>1, StaysDecided
      <4>. QED
        BY <1>2, <1>3, <2>1, <3>1, <3>2, <4>1, <4>2
    <3>. QED
      BY <3>1, <3>2
  <2>2. CASE i # last
    <3>1. i \in DOMAIN invoices /\ invoices'[i] = invoices[i]
          /\ invoices[i] \in Invoice
      BY <1>2, <1>3, <2>2
    <3>2. CASE p # 0
      <4>1. /\ p < i /\ invoices[i].version = invoices[p].version + 1
            /\ InvoiceDecided(p, Refusals)
        BY <1>1, <3>1, <3>2 DEF RowsOK, RevisionsFollowRefusals, Refusals
      <4>2. p \in DOMAIN invoices
        <5>1. p \in Nat
          BY <3>1 DEF Invoice
        <5>. QED
          BY <1>2, <3>1, <3>2, <4>1, <5>1
      <4>3. InvoiceDecided(p, Refusals)'
        BY <1>1, <4>1, StaysDecided
      <4>. QED
        BY <1>3, <3>1, <3>2, <4>1, <4>2, <4>3
    <3>. QED
      BY <1>1, <3>1, <3>2 DEF RowsOK, RevisionsFollowRefusals
  <2>. QED
    BY <2>1, <2>2
<1>. QED
  BY <1>3, <1>4, <1>5, <1>6, <1>7 DEF RowsOK

-----------------------------------------------------------------------------
\* Initially there are no invoices, and every worker is at its desk.
LEMMA InvoicesInit == InitInvoices => InvoicesInv
<1>. SUFFICES ASSUME InitInvoices PROVE InvoicesInv
  OBVIOUS
<1>1. ApprovalsInv
  BY ApprovalsInit DEF InitInvoices
<1>2. RowsOK
  BY DEF InitInvoices, RowsOK, InvoiceVerdictBacked, RevisionsFollowRefusals
<1>. QED
  BY <1>1, <1>2 DEF InitInvoices, InvoicesInv, Errand, Grounded, AtDesk

\* A worker that leaves for its desk.
LEMMA DeskIsTicket ==
  AtDesk \in Errand'
BY DEF Errand

\* A step that ends a call.
LEMMA DoneStep ==
  ASSUME InvoicesInv, ApprovalsInv', Grows, RowsOK', FamiliesStay,
         NEW w \in InvoiceWorker, InvoiceDone(w)
  PROVE  InvoicesInv'
<1>1. invoicing' = [invoicing EXCEPT ![w] = AtDesk]
  BY DEF InvoiceDone
<1>2. invoicing'[w] = AtDesk
  BY <1>1 DEF InvoicesInv
<1>3. Grounded(w)'
  BY <1>2 DEF Grounded, AtDesk
<1>. QED
  BY <1>1, <1>3, DeskIsTicket, WorkerStep

\* The ticket of a worker in a review, and what follows from its status.
LEMMA ReviewTicket ==
  ASSUME InvoicesInv, NEW w \in InvoiceWorker,
         invoicing[w].pc \in {"request", "refresh", "decide", "verdict"}
  PROVE  /\ invoicing[w] \in
              [pc : {"request", "refresh", "decide", "verdict"},
               id : DOMAIN invoices, decision : Verdicts, user : Approver,
               approval : Nat]
         /\ invoicing[w].id \in Entity
         /\ Grounded(w)
<1>1. invoicing[w] \in Errand /\ Grounded(w)
  BY DEF InvoicesInv
<1>2. invoicing[w].id \in DOMAIN invoices
  BY <1>1 DEF Errand, AtDesk
<1>3. invoicing[w].id \in Entity
  BY <1>2, InvoiceConstants DEF InvoicesInv, RowsOK
<1>. QED
  BY <1>1, <1>3 DEF Errand, AtDesk

\* Beginning a call: nothing but the ticket changes.
LEMMA BeginStep ==
  ASSUME InvoicesInv, NEW w \in InvoiceWorker, NEW t \in Errand,
         t.pc \in {"submit", "request"}
           \/ /\ t.pc = "revise"
              /\ t.version = invoices[t.id].version
              /\ InvoiceDecided(t.id, Refusals),
         invoicing' = [invoicing EXCEPT ![w] = t],
         UNCHANGED <<approvalVars, invoices>>
  PROVE  InvoicesInv'
<1>1. ApprovalsInv' /\ Grows
  BY ApprovalsLeftAlone DEF InvoicesInv
<1>2. RowsOK' /\ FamiliesStay
  BY <1>1, RowsKept
<1>3. t \in Errand'
  BY DEF Errand
<1>4. invoicing'[w] = t
  BY DEF InvoicesInv
<1>5. t.pc = "revise" => InvoiceDecided(t.id, Refusals)'
  BY <1>1, StaysDecided DEF InvoicesInv, ApprovalsInv
<1>6. Grounded(w)'
  BY <1>4, <1>5 DEF Grounded
<1>. QED
  BY <1>1, <1>2, <1>3, <1>6, WorkerStep

\* Submitting, from loading the draft to its commit.
LEMMA SubmitPreserves ==
  ASSUME InvoicesInv, NEW w \in InvoiceWorker,
         \/ \E i \in DOMAIN invoices : begin_submit_invoice(w, i)
         \/ commit_submit_invoice(w)
  PROVE  InvoicesInv'
<1>1. ASSUME NEW i \in DOMAIN invoices, begin_submit_invoice(w, i)
      PROVE  InvoicesInv'
  <2>. DEFINE t == [pc |-> "submit", id |-> i]
  <2>1. t \in Errand /\ t.pc = "submit"
    BY DEF Errand
  <2>. QED
    BY <1>1, <2>1, BeginStep DEF begin_submit_invoice
<1>2. ASSUME commit_submit_invoice(w)
      PROVE  InvoicesInv'
  <2>1. invoicing[w].id \in DOMAIN invoices
    BY <1>2 DEF commit_submit_invoice, InvoiceAt, InvoicesInv, Errand, AtDesk
  <2>2. ApprovalsInv' /\ Grows
    BY <1>2, ApprovalsLeftAlone DEF InvoicesInv, commit_submit_invoice
  <2>3. "SUBMITTED" \in InvoiceStatus /\ "SUBMITTED" \notin Verdicts
    BY DEF InvoiceStatus, Verdicts
  <2>4. RowsOK' /\ FamiliesStay
    BY <1>2, <2>1, <2>2, <2>3, StatusWritten DEF commit_submit_invoice
  <2>. QED
    BY <1>2, <2>2, <2>4, DoneStep DEF commit_submit_invoice
<1>. QED
  BY <1>1, <1>2

\* A review begins.
LEMMA BeginReviewPreserves ==
  ASSUME InvoicesInv, NEW w \in InvoiceWorker, NEW i \in DOMAIN invoices,
         NEW d \in InvoiceVerdict, NEW u \in Accountant,
         begin_review_invoice(w, i, d, u)
  PROVE  InvoicesInv'
<1>. DEFINE t == [pc |-> "request", id |-> i, decision |-> d, user |-> u,
                  approval |-> 0]
<1>1. t \in Errand /\ t.pc = "request"
  BY InvoiceConstants DEF Errand
<1>. QED
  BY <1>1, BeginStep DEF begin_review_invoice

\* The review commits its approval row and holds it from here on.
LEMMA RequestInvoicePreserves ==
  ASSUME InvoicesInv, NEW w \in InvoiceWorker, request_invoice_approval(w)
  PROVE  InvoicesInv'
<1>. DEFINE t == [invoicing[w] EXCEPT !.pc = "refresh",
                                      !.approval = Len(approvals) + 1]
<1>1. /\ invoicing[w].id \in Entity /\ invoicing[w].user \in Approver
      /\ invoicing[w] \in
           [pc : {"request", "refresh", "decide", "verdict"},
            id : DOMAIN invoices, decision : Verdicts, user : Approver,
            approval : Nat]
  BY ReviewTicket DEF request_invoice_approval, InvoiceAt
<1>2. /\ request(invoicing[w].id, "INVOICE", invoicing[w].user)
      /\ UNCHANGED deciding /\ invoices' = invoices
      /\ invoicing' = [invoicing EXCEPT ![w] = t]
  BY DEF request_invoice_approval, InvoicesInv
<1>3. ApprovalsInv' /\ Grows
  BY <1>1, <1>2, InvoiceConstants, ApprovalRequested DEF InvoicesInv
<1>4. /\ Len(approvals) + 1 \in DOMAIN approvals'
      /\ approvals'[Len(approvals) + 1].entity = invoicing[w].id
  BY <1>1, <1>2, InvoiceConstants, RequestPreserves
     DEF InvoicesInv, ApprovalsInv
<1>5. RowsOK' /\ FamiliesStay
  BY <1>2, <1>3, RowsKept
<1>6. /\ t \in Errand /\ t.pc = "refresh" /\ t.id = invoicing[w].id
      /\ t.approval = Len(approvals) + 1
  <2>1. Len(approvals) + 1 \in Nat
    BY DEF InvoicesInv, ApprovalsInv, Trail
  <2>. QED
    BY <1>1, <2>1 DEF Errand
<1>. HIDE DEF t
<1>7. t \in Errand'
  BY <1>2, <1>6 DEF Errand
<1>8. Grounded(w)'
  <2>1. invoicing'[w] = t
    BY <1>2 DEF InvoicesInv
  <2>. QED
    BY <1>4, <1>6, <2>1 DEF Grounded
<1>. QED
  BY <1>2, <1>3, <1>5, <1>7, <1>8, WorkerStep

\* The review goes on if its row is undecided, and ends if it is not.
LEMMA RefreshInvoicePreserves ==
  ASSUME InvoicesInv, NEW w \in InvoiceWorker, refresh_invoice_approval(w)
  PROVE  InvoicesInv'
<1>1. ApprovalsInv' /\ Grows /\ invoices' = invoices
  BY ApprovalsLeftAlone DEF InvoicesInv, refresh_invoice_approval
<1>2. RowsOK' /\ FamiliesStay
  BY <1>1, RowsKept
<1>3. CASE InvoiceTo(w, "decide")
  <2>. DEFINE t == [invoicing[w] EXCEPT !.pc = "decide"]
  <2>1. invoicing' = [invoicing EXCEPT ![w] = t]
    BY <1>3 DEF InvoiceTo, InvoicesInv
  <2>2. /\ invoicing[w].pc = "refresh" /\ Grounded(w)
        /\ invoicing[w] \in
             [pc : {"request", "refresh", "decide", "verdict"},
              id : DOMAIN invoices, decision : Verdicts, user : Approver,
              approval : Nat]
    BY ReviewTicket DEF refresh_invoice_approval, InvoiceAt
  <2>3. /\ t \in Errand /\ t.pc = "decide" /\ t.id = invoicing[w].id
        /\ t.approval = invoicing[w].approval
    BY <2>2 DEF Errand
  <2>. HIDE DEF t
  <2>4. t \in Errand'
    BY <1>1, <2>3 DEF Errand
  <2>5. Grounded(w)'
    <3>1. invoicing'[w] = t
      BY <2>1 DEF InvoicesInv
    <3>. QED
      BY <1>1, <2>2, <2>3, <3>1 DEF Grounded, Grows
  <2>. QED
    BY <1>1, <1>2, <2>1, <2>4, <2>5, WorkerStep
<1>4. CASE InvoiceDone(w)
  BY <1>1, <1>2, <1>4, DoneStep
<1>. QED
  BY <1>3, <1>4 DEF refresh_invoice_approval

\* The decision is on record before the verdict is written.
LEMMA DecideInvoicePreserves ==
  ASSUME InvoicesInv, NEW w \in InvoiceWorker, decide_invoice_approval(w)
  PROVE  InvoicesInv'
<1>. DEFINE v == invoicing[w]
            t == [v EXCEPT !.pc = "verdict"]
<1>1. /\ v.pc = "decide" /\ Grounded(w)
      /\ v \in [pc : {"request", "refresh", "decide", "verdict"},
                id : DOMAIN invoices, decision : Verdicts, user : Approver,
                approval : Nat]
  BY ReviewTicket DEF decide_invoice_approval, InvoiceAt
<1>2. /\ v.approval \in DOMAIN approvals /\ approvals[v.approval].entity = v.id
      /\ v.decision \in ApprovalDecision /\ v.decision \in Verdicts
      /\ v.user \in Approver
  BY <1>1 DEF Grounded, Verdicts, ApprovalDecision
<1>3. /\ Decide(v.approval, v.decision, v.user)
      /\ deciding' = deciding /\ invoices' = invoices
      /\ invoicing' = [invoicing EXCEPT ![w] = t]
  BY DEF decide_invoice_approval, InvoiceTo, InvoicesInv
<1>4. ApprovalsInv' /\ Grows
  BY <1>2, <1>3, ApprovalDecided DEF InvoicesInv
<1>5. PICK k \in DOMAIN decisions' :
        /\ decisions'[k].approval = v.approval
        /\ decisions'[k].new_value = v.decision
  BY <1>2, <1>3, DecidePreserves DEF InvoicesInv, ApprovalsInv
<1>6. RowsOK' /\ FamiliesStay
  BY <1>3, <1>4, RowsKept
<1>7. /\ v.approval \in DOMAIN approvals'
      /\ approvals'[v.approval].entity = v.id
  BY <1>2, <1>4 DEF Grows
<1>8. InvoiceDecided(v.id, {v.decision})'
  <2>. SUFFICES ASSUME NEW i, NEW d, i = v.id, d = v.decision
                PROVE  InvoiceDecided(i, {d})'
    BY <1>3 DEF InvoiceDecided
  <2>. QED
    BY <1>5, <1>7 DEF InvoiceDecided
<1>9. /\ t \in Errand /\ t.pc = "verdict" /\ t.id = v.id
      /\ t.approval = v.approval /\ t.decision = v.decision
  BY <1>1 DEF Errand
<1>. HIDE DEF t
<1>10. t \in Errand'
  BY <1>3, <1>9 DEF Errand
<1>11. Grounded(w)'
  <2>1. invoicing'[w] = t
    BY <1>3 DEF InvoicesInv
  <2>. QED
    BY <1>7, <1>8, <1>9, <2>1 DEF Grounded
<1>. QED
  BY <1>3, <1>4, <1>6, <1>10, <1>11, WorkerStep

\* The verdict is written with its decision on record.
LEMMA VerdictPreserves ==
  ASSUME InvoicesInv, NEW w \in InvoiceWorker, commit_invoice_verdict(w)
  PROVE  InvoicesInv'
<1>. DEFINE id == invoicing[w].id
            d == invoicing[w].decision
<1>1. id \in DOMAIN invoices /\ d \in Verdicts /\ InvoiceDecided(id, {d})
  BY ReviewTicket DEF commit_invoice_verdict, InvoiceAt, Grounded
<1>2. ApprovalsInv' /\ Grows
  BY ApprovalsLeftAlone DEF InvoicesInv, commit_invoice_verdict
<1>3. d \in InvoiceStatus
  BY <1>1 DEF InvoiceStatus, Verdicts
<1>4. invoices' = [invoices EXCEPT ![id].status = d] /\ InvoiceDone(w)
  BY DEF commit_invoice_verdict
<1>. HIDE DEF id, d
<1>5. RowsOK' /\ FamiliesStay
  <2>. SUFFICES ASSUME NEW i \in DOMAIN invoices, NEW st \in Verdicts,
                       i = id, st = d, InvoiceDecided(i, {st})
                PROVE  RowsOK' /\ FamiliesStay
    BY <1>1
  <2>1. InvoiceDecided(i, {st})'
    BY <1>2, StaysDecided DEF InvoicesInv, ApprovalsInv
  <2>. QED
    BY <1>2, <1>3, <1>4, <2>1, StatusWritten
<1>. QED
  BY <1>2, <1>4, <1>5, DoneStep

\* A revision begins on a refused invoice.
LEMMA BeginRevisePreserves ==
  ASSUME InvoicesInv, NEW w \in InvoiceWorker, NEW i \in DOMAIN invoices,
         begin_revise_invoice(w, i)
  PROVE  InvoicesInv'
<1>. DEFINE t == [pc |-> "revise", id |-> i, version |-> invoices[i].version]
<1>1. invoices[i].version \in Nat
  <2>1. invoices[i] \in Invoice
    BY DEF InvoicesInv, RowsOK
  <2>. QED
    BY <2>1 DEF Invoice
<1>2. t \in Errand
  BY <1>1 DEF Errand
<1>3. InvoiceDecided(i, Refusals)
  <2>1. invoices[i].status \in Refusals
    BY DEF begin_revise_invoice, Revisable, Refusals
  <2>2. InvoiceDecided(i, {invoices[i].status})
    BY <2>1 DEF InvoicesInv, RowsOK, InvoiceVerdictBacked, Refusals
  <2>. QED
    BY <2>1, <2>2 DEF InvoiceDecided
<1>. QED
  BY <1>2, <1>3, BeginStep DEF begin_revise_invoice

\* A revision is committed, whatever happened to its parent meanwhile.
LEMMA RevisionPreserves ==
  ASSUME InvoicesInv, NEW w \in InvoiceWorker, commit_revision(w)
  PROVE  InvoicesInv'
<1>. DEFINE t == invoicing[w]
            row == [status |-> "REVISED", version |-> t.version + 1,
                    parent_invoice_id |-> t.id]
<1>1. t.pc = "revise" /\ t \in Errand /\ Grounded(w)
  BY DEF commit_revision, InvoiceAt, InvoicesInv
<1>2. t.id \in DOMAIN invoices /\ t.version \in Nat
  BY <1>1 DEF Errand, AtDesk
<1>3. t.id \in Nat \ {0}
  BY <1>2 DEF InvoicesInv, RowsOK
<1>4. /\ row \in Invoice /\ row.status \notin Verdicts
      /\ row.parent_invoice_id = t.id /\ row.version = t.version + 1
  BY <1>2, <1>3 DEF Invoice, InvoiceStatus, Verdicts
<1>5. t.version = invoices[t.id].version /\ InvoiceDecided(t.id, Refusals)
  BY <1>1 DEF Grounded
<1>6. ApprovalsInv' /\ Grows
  BY ApprovalsLeftAlone DEF InvoicesInv, commit_revision
<1>7. /\ Len(invoices) < MaxInvoices /\ InvoiceDone(w)
      /\ invoices' = Append(invoices, row)
  BY DEF commit_revision
<1>. HIDE DEF row
<1>8. RowsOK' /\ FamiliesStay
  BY <1>2, <1>3, <1>4, <1>5, <1>6, <1>7, RowAppended
<1>. QED
  BY <1>6, <1>7, <1>8, DoneStep

\* A first version is committed.
LEMMA CreateInvoicePreserves ==
  ASSUME InvoicesInv, create_invoice
  PROVE  InvoicesInv'
<1>. DEFINE row == [status |-> "DRAFT", version |-> 1, parent_invoice_id |-> 0]
<1>1. /\ row \in Invoice /\ row.status \notin Verdicts
      /\ row.parent_invoice_id = 0 /\ row.version = 1
  BY DEF Invoice, InvoiceStatus, Verdicts
<1>2. ApprovalsInv' /\ Grows
  BY ApprovalsLeftAlone DEF InvoicesInv, create_invoice
<1>3. /\ Len(invoices) < MaxInvoices /\ invoicing' = invoicing
      /\ invoices' = Append(invoices, row)
  BY DEF create_invoice
<1>. HIDE DEF row
<1>4. RowsOK' /\ FamiliesStay
  BY <1>1, <1>2, <1>3, RowAppended
<1>. QED
  BY <1>2, <1>3, <1>4, NoWorkerStep

\* A crash, a step of the approvals endpoint, and a stutter.
LEMMA OtherStepsPreserve ==
  ASSUME InvoicesInv,
         \/ \E w \in InvoiceWorker : crash_invoice(w)
         \/ DecideInvoicesDirectly
         \/ UNCHANGED invoiceVars
  PROVE  InvoicesInv'
<1>1. ASSUME NEW w \in InvoiceWorker, crash_invoice(w)
      PROVE  InvoicesInv'
  <2>1. ApprovalsInv' /\ Grows /\ invoices' = invoices
    BY <1>1, ApprovalsLeftAlone DEF InvoicesInv, crash_invoice
  <2>. QED
    BY <1>1, <2>1, RowsKept, DoneStep DEF crash_invoice
<1>2. ASSUME DecideInvoicesDirectly
      PROVE  InvoicesInv'
  <2>1. NextApprovals
    BY <1>2, InvoiceConstants
       DEF DecideInvoicesDirectly, NextApprovals, Verdicts, ApprovalDecision
  <2>2. ApprovalsInv' /\ Grows
    BY <2>1, ApprovalsStep DEF InvoicesInv
  <2>3. invoices' = invoices /\ invoicing' = invoicing
    BY <1>2 DEF DecideInvoicesDirectly
  <2>. QED
    BY <2>2, <2>3, RowsKept, NoWorkerStep
<1>3. ASSUME UNCHANGED invoiceVars
      PROVE  InvoicesInv'
  <2>1. ApprovalsInv' /\ Grows
    BY <1>3, ApprovalsLeftAlone DEF InvoicesInv, invoiceVars
  <2>2. invoices' = invoices /\ invoicing' = invoicing
    BY <1>3 DEF invoiceVars
  <2>. QED
    BY <2>1, <2>2, RowsKept, NoWorkerStep
<1>. QED
  BY <1>1, <1>2, <1>3

\* Every step preserves the invariant.
LEMMA InvoicesStep ==
  ASSUME InvoicesInv, [NextInvoices]_invoiceVars
  PROVE  InvoicesInv'
BY CreateInvoicePreserves, SubmitPreserves, BeginReviewPreserves,
   RequestInvoicePreserves, RefreshInvoicePreserves, DecideInvoicePreserves,
   VerdictPreserves, BeginRevisePreserves, RevisionPreserves,
   OtherStepsPreserve DEF NextInvoices

-----------------------------------------------------------------------------
\* The invariant is one.
THEOREM InvoicesInvariant == SpecInvoices => []InvoicesInv
BY InvoicesInit, InvoicesStep, PTL DEF SpecInvoices

\* A verdict on an invoice always has a decision to that effect on record,
\* however many workers review it and whoever decides its approval rows.
THEOREM VerdictsAlwaysBacked == SpecInvoices => []InvoiceVerdictBacked
<1>1. InvoicesInv => InvoiceVerdictBacked
  BY DEF InvoicesInv, RowsOK
<1>. QED
  BY <1>1, InvoicesInvariant, PTL

\* Every revision continues the version of an older, refused row.
THEOREM RevisionsAlwaysFollowRefusals ==
  SpecInvoices => []RevisionsFollowRefusals
<1>1. InvoicesInv => RevisionsFollowRefusals
  BY DEF InvoicesInv, RowsOK
<1>. QED
  BY <1>1, InvoicesInvariant, PTL
-----------------------------------------------------------------------------
(* Letters and agreements.                                                 *)

\* The statuses the letter has had: the first one, and those of its events.
Reached == {"REQUESTED"} \cup {loa_events[k] : k \in DOMAIN loa_events}

\* What a worker may have loaded.
Draft ==
  {NotSigning}
    \cup [pc : {"loa"}, loaded : [status : LOAStatus, issued_date : BOOLEAN],
          new : LOAStatus, dated : BOOLEAN]
    \cup [pc : {"agreement"}, old : AgreementStatus, new : AgreementStatus]

\* However old the letter a worker has loaded: it may have the status asked
\* for next, its own status was reached, and a date it had is still there.
\* With no event yet, whoever loaded the agreement found a draft.
LoadedOnce(w) ==
  LET s == signing[w] IN
  /\ s.pc = "loa" =>
       /\ loa_allowed(s.loaded.status, s.new)
       /\ s.loaded.status \in Reached
       /\ s.loaded.status \in {"ISSUED", "EXECUTED"} => loa.issued_date
  /\ s.pc = "agreement" /\ agreement_events = <<>> => s.old = agreement

DocumentsInv ==
  /\ TypeOKDocuments
  /\ signing \in [Signer -> Draft]
  /\ LOAInOrder
  /\ AgreementTrailShowsLostChanges
  /\ \A w \in Signer : LoadedOnce(w)

-----------------------------------------------------------------------------
\* Initially both documents are new, and nobody has loaded them.
LEMMA DocumentsInit == InitDocuments => DocumentsInv
BY DEF InitDocuments, DocumentsInv, TypeOKDocuments, Draft, LOAInOrder,
       AgreementTrailShowsLostChanges, LoadedOnce, NotSigning, LOAStatus,
       AgreementStatus

\* A worker other than the one that moves has what it had.
LEMMA OthersSigning ==
  ASSUME signing \in [Signer -> Draft], NEW w \in Signer, NEW t \in Draft,
         signing' = [signing EXCEPT ![w] = t]
  PROVE  /\ signing' \in [Signer -> Draft]
         /\ signing'[w] = t
         /\ \A v \in Signer : v # w => signing'[v] = signing[v]
OBVIOUS

\* A step that leaves the rows and their events alone.
LEMMA SignerPreserves ==
  ASSUME DocumentsInv, NEW w \in Signer, NEW t \in Draft,
         signing' = [signing EXCEPT ![w] = t],
         UNCHANGED <<loa, loa_events, agreement, agreement_events>>,
         LoadedOnce(w)'
  PROVE  DocumentsInv'
<1>1. /\ signing' \in [Signer -> Draft]
      /\ \A v \in Signer : v # w => signing'[v] = signing[v]
  BY OthersSigning DEF DocumentsInv
<1>2. TypeOKDocuments' /\ LOAInOrder' /\ AgreementTrailShowsLostChanges'
  BY DEF DocumentsInv, TypeOKDocuments, LOAInOrder,
         AgreementTrailShowsLostChanges
<1>3. \A v \in Signer : LoadedOnce(v)'
  BY <1>1 DEF DocumentsInv, LoadedOnce, Reached
<1>. QED
  BY <1>1, <1>2, <1>3 DEF DocumentsInv

\* The letter is loaded.
LEMMA BeginLOAPreserves ==
  ASSUME DocumentsInv, NEW w \in Signer, NEW new \in LOAStatus,
         NEW dated \in BOOLEAN, begin_loa(w, new, dated)
  PROVE  DocumentsInv'
<1>. DEFINE t == [pc |-> "loa", loaded |-> loa, new |-> new, dated |-> dated]
<1>1. /\ signing' = [signing EXCEPT ![w] = t]
      /\ UNCHANGED <<loa, loa_events, agreement, agreement_events>>
      /\ loa_allowed(loa.status, new)
  BY DEF begin_loa
<1>2. t \in Draft
  BY DEF Draft, DocumentsInv, TypeOKDocuments
<1>3. signing'[w] = t
  BY <1>1, <1>2, OthersSigning DEF DocumentsInv
<1>4. /\ loa.status \in Reached
      /\ loa.status \in {"ISSUED", "EXECUTED"} => loa.issued_date
  BY DEF DocumentsInv, LOAInOrder, Reached
<1>5. LoadedOnce(w)'
  BY <1>1, <1>3, <1>4 DEF LoadedOnce, Reached, loa_allowed
<1>. QED
  BY <1>1, <1>2, <1>5, SignerPreserves

\* The agreement is loaded.
LEMMA BeginAgreementPreserves ==
  ASSUME DocumentsInv, NEW w \in Signer, NEW new \in AgreementStatus,
         begin_agreement(w, new)
  PROVE  DocumentsInv'
<1>. DEFINE t == [pc |-> "agreement", old |-> agreement, new |-> new]
<1>1. /\ signing' = [signing EXCEPT ![w] = t]
      /\ UNCHANGED <<loa, loa_events, agreement, agreement_events>>
  BY DEF begin_agreement
<1>2. t \in Draft
  BY DEF Draft, DocumentsInv, TypeOKDocuments
<1>3. signing'[w] = t
  BY <1>1, <1>2, OthersSigning DEF DocumentsInv
<1>4. LoadedOnce(w)'
  BY <1>1, <1>3 DEF LoadedOnce
<1>. QED
  BY <1>1, <1>2, <1>4, SignerPreserves

\* A worker dies.
LEMMA CrashSignerPreserves ==
  ASSUME DocumentsInv, NEW w \in Signer, crash_signer(w)
  PROVE  DocumentsInv'
<1>1. /\ signing' = [signing EXCEPT ![w] = NotSigning]
      /\ UNCHANGED <<loa, loa_events, agreement, agreement_events>>
  BY DEF crash_signer
<1>2. NotSigning \in Draft
  BY DEF Draft
<1>3. signing'[w] = NotSigning
  BY <1>1, <1>2, OthersSigning DEF DocumentsInv
<1>4. LoadedOnce(w)'
  BY <1>3 DEF LoadedOnce, NotSigning
<1>. QED
  BY <1>1, <1>2, <1>4, SignerPreserves

\* An update of the letter is committed: the status it records follows one
\* that was reached, and a status once reached stays so.
LEMMA CommitLOAPreserves ==
  ASSUME DocumentsInv, NEW w \in Signer, commit_loa(w)
  PROVE  DocumentsInv'
<1>. DEFINE s == signing[w]  last == Len(loa_events) + 1
<1>1. /\ s \in [pc : {"loa"}, loaded : [status : LOAStatus,
                issued_date : BOOLEAN], new : LOAStatus, dated : BOOLEAN]
      /\ LoadedOnce(w)
  BY DEF DocumentsInv, Draft, commit_loa, Signing, NotSigning
<1>2. /\ loa_allowed(s.loaded.status, s.new)
      /\ s.loaded.status \in Reached
      /\ s.loaded.status \in {"ISSUED", "EXECUTED"} => loa.issued_date
  BY <1>1 DEF LoadedOnce
<1>3. /\ loa' = [status |-> Overwritten(loa.status, s.loaded.status, s.new),
                 issued_date |-> loa.issued_date \/ s.dated \/ s.new = "ISSUED"]
      /\ loa_events' = Append(loa_events, s.new)
      /\ signing' = [signing EXCEPT ![w] = NotSigning]
      /\ UNCHANGED <<agreement, agreement_events>>
  BY DEF commit_loa
<1>4. /\ loa \in [status : LOAStatus, issued_date : BOOLEAN]
      /\ loa_events \in Seq(LOAStatus)
  BY DEF DocumentsInv, TypeOKDocuments
<1>5. /\ loa_events' \in Seq(LOAStatus)
      /\ DOMAIN loa_events = 1..(last - 1) /\ DOMAIN loa_events' = 1..last
      /\ last \in Nat \ {0} /\ loa_events'[last] = s.new
      /\ \A k \in DOMAIN loa_events : loa_events'[k] = loa_events[k]
  BY <1>1, <1>3, <1>4
<1>6. /\ loa'.status \in {loa.status, s.new} /\ loa' \in
           [status : LOAStatus, issued_date : BOOLEAN]
      /\ loa'.status = s.new \/ s.new = s.loaded.status
      /\ loa.issued_date \/ s.new = "ISSUED" => loa'.issued_date
  BY <1>1, <1>3, <1>4 DEF Overwritten
<1>. HIDE DEF s, last
<1>7. TypeOKDocuments' /\ AgreementTrailShowsLostChanges'
  BY <1>3, <1>5, <1>6 DEF DocumentsInv, TypeOKDocuments,
     AgreementTrailShowsLostChanges
<1>8. Reached \subseteq Reached'
  BY <1>5 DEF Reached
<1>9. LOAInOrder'
  <2>1. ASSUME NEW k \in DOMAIN loa_events', NEW z \in {"APPROVED", "ISSUED"},
               loa_events'[k] = LOA_NEXT[z]
        PROVE  \E j \in 1..(k - 1) : loa_events'[j] = z
    <3>1. \A i \in DOMAIN loa_events : loa_events[i] = LOA_NEXT[z] =>
            \E j \in 1..(i - 1) : loa_events[j] = z
      BY DEF DocumentsInv, LOAInOrder, LOA_NEXT
    <3>2. CASE k # last
      <4>1. k \in DOMAIN loa_events
        BY <1>5, <2>1, <3>2
      <4>. QED
        BY <1>5, <2>1, <3>1, <4>1
    <3>3. CASE k = last
      <4>1. s.new \in {"ISSUED", "EXECUTED"} /\ s.new = LOA_NEXT[z]
        BY <1>5, <2>1, <3>3 DEF LOA_NEXT
      <4>2. s.loaded.status \in {z, s.new}
        BY <1>2, <4>1, <2>1 DEF loa_allowed, LOA_NEXT
      <4>3. PICK j \in DOMAIN loa_events : loa_events[j] = s.loaded.status
        BY <1>2, <4>1, <4>2, <2>1 DEF Reached
      <4>4. CASE s.loaded.status = z
        BY <1>5, <3>3, <4>3, <4>4
      <4>5. CASE s.loaded.status = s.new
        <5>1. PICK i \in 1..(j - 1) : loa_events[i] = z
          BY <3>1, <4>1, <4>3, <4>5
        <5>. QED
          BY <1>5, <3>3, <4>3, <5>1
      <4>. QED
        BY <4>2, <4>4, <4>5
    <3>. QED
      BY <3>2, <3>3
  <2>2. loa'.status \in Reached'
    <3>1. loa.status \in Reached
      BY DEF DocumentsInv, LOAInOrder, Reached
    <3>2. s.new \in Reached'
      BY <1>5 DEF Reached
    <3>. QED
      BY <1>6, <1>8, <3>1, <3>2
  <2>3. loa'.status \in {"ISSUED", "EXECUTED"} => loa'.issued_date
    <3>1. loa.status \in {"ISSUED", "EXECUTED"} => loa.issued_date
      BY DEF DocumentsInv, LOAInOrder
    <3>2. s.new = "EXECUTED" => s.loaded.status \in {"ISSUED", "EXECUTED"}
      BY <1>1, <1>2 DEF loa_allowed, LOA_NEXT, LOAStatus
    <3>. QED
      BY <1>2, <1>6, <3>1, <3>2
  <2>. QED
    BY <2>1, <2>2, <2>3 DEF LOAInOrder, Reached, LOA_NEXT
<1>10. /\ signing' \in [Signer -> Draft] /\ signing'[w] = NotSigning
       /\ \A v \in Signer : v # w => signing'[v] = signing[v]
  BY <1>3, OthersSigning DEF DocumentsInv, Draft
<1>11. ASSUME NEW v \in Signer PROVE LoadedOnce(v)'
  <2>1. CASE v = w
    BY <1>10, <2>1 DEF LoadedOnce, NotSigning
  <2>2. CASE v # w
    <3>1. signing'[v] = signing[v] /\ LoadedOnce(v)
      BY <1>10, <2>2 DEF DocumentsInv
    <3>2. signing[v].pc = "loa" => signing[v].loaded.status \in Reached'
      BY <1>8, <3>1 DEF LoadedOnce
    <3>. QED
      BY <1>3, <1>6, <3>1, <3>2 DEF LoadedOnce, loa_allowed
  <2>. QED
    BY <2>1, <2>2
<1>. QED
  BY <1>7, <1>9, <1>10, <1>11 DEF DocumentsInv

\* A status of the agreement is committed.  If it is the one that was loaded
\* the row keeps what others wrote: either that shows in the trail, or the
\* status is the one loaded all the same.
LEMMA CommitAgreementPreserves ==
  ASSUME DocumentsInv, NEW w \in Signer, commit_agreement(w)
  PROVE  DocumentsInv'
<1>. DEFINE s == signing[w]  last == Len(agreement_events) + 1
            event == [old_value |-> s.old, new_value |-> s.new]
<1>1. /\ s \in [pc : {"agreement"}, old : AgreementStatus,
                new : AgreementStatus]
      /\ LoadedOnce(w)
  BY DEF DocumentsInv, Draft, commit_agreement, Signing, NotSigning
<1>2. agreement_events = <<>> => s.old = agreement
  BY <1>1 DEF LoadedOnce
<1>3. /\ agreement' = Overwritten(agreement, s.old, s.new)
      /\ agreement_events' = Append(agreement_events, event)
      /\ signing' = [signing EXCEPT ![w] = NotSigning]
      /\ UNCHANGED <<loa, loa_events>>
  BY DEF commit_agreement
<1>4. /\ agreement_events \in
           Seq([old_value : AgreementStatus, new_value : AgreementStatus])
      /\ agreement \in AgreementStatus
  BY DEF DocumentsInv, TypeOKDocuments
<1>5. event \in [old_value : AgreementStatus, new_value : AgreementStatus]
      /\ event.old_value = s.old /\ event.new_value = s.new
  BY <1>1
<1>. HIDE DEF event
<1>6. /\ agreement_events' \in
           Seq([old_value : AgreementStatus, new_value : AgreementStatus])
      /\ Len(agreement_events) = last - 1 /\ Len(agreement_events') = last
      /\ last \in Nat \ {0} /\ agreement_events'[last] = event
      /\ \A k \in 1..(last - 1) : agreement_events'[k] = agreement_events[k]
      /\ agreement_events' # <<>> /\ (last = 1 => agreement_events = <<>>)
  BY <1>3, <1>4, <1>5
<1>7. agreement' \in AgreementStatus
  BY <1>1, <1>3, <1>4 DEF Overwritten
<1>. HIDE DEF s, last
<1>8. TypeOKDocuments' /\ LOAInOrder'
  BY <1>3, <1>6, <1>7 DEF DocumentsInv, TypeOKDocuments, LOAInOrder
<1>9. AgreementTrailShowsLostChanges'
  <2>. SUFFICES ASSUME \A k \in 2..last : agreement_events'[k].old_value
                         = agreement_events'[k - 1].new_value
                PROVE  agreement' = s.new
    BY <1>5, <1>6 DEF AgreementTrailShowsLostChanges
  <2>1. CASE s.new # s.old
    BY <1>3, <2>1 DEF Overwritten
  <2>2. CASE s.new = s.old
    <3>1. agreement' = agreement
      BY <1>3, <2>2 DEF Overwritten
    <3>2. CASE last = 1
      BY <1>2, <1>6, <2>2, <3>1, <3>2
    <3>3. CASE last # 1
      <4>1. last - 1 \in 1..(last - 1) /\ last \in 2..last
        BY <1>6, <3>3
      <4>2. agreement_events[last - 1].new_value = s.old
        BY <1>5, <1>6, <4>1
      <4>3. \A k \in 2..(last - 1) : agreement_events[k].old_value
                                       = agreement_events[k - 1].new_value
        <5>. SUFFICES ASSUME NEW k \in 2..(last - 1)
                      PROVE  agreement_events[k].old_value
                               = agreement_events[k - 1].new_value
          OBVIOUS
        <5>1. k \in 2..last /\ k \in 1..(last - 1) /\ k - 1 \in 1..(last - 1)
          BY <1>6
        <5>. QED
          BY <1>6, <5>1
      <4>4. agreement = agreement_events[last - 1].new_value
        BY <1>6, <4>1, <4>3 DEF DocumentsInv, AgreementTrailShowsLostChanges
      <4>. QED
        BY <2>2, <3>1, <4>2, <4>4
    <3>. QED
      BY <3>2, <3>3
  <2>. QED
    BY <2>1, <2>2
<1>10. /\ signing' \in [Signer -> Draft] /\ signing'[w] = NotSigning
       /\ \A v \in Signer : v # w => signing'[v] = signing[v]
  BY <1>3, OthersSigning DEF DocumentsInv, Draft
<1>11. \A v \in Signer : LoadedOnce(v)'
  BY <1>3, <1>6, <1>10 DEF DocumentsInv, LoadedOnce, NotSigning, Reached,
     loa_allowed
<1>. QED
  BY <1>8, <1>9, <1>10, <1>11 DEF DocumentsInv

\* Every step of the two documents preserves the invariant.
LEMMA DocumentsStep ==
  ASSUME DocumentsInv, [NextDocuments]_documentVars
  PROVE  DocumentsInv'
<1>1. CASE UNCHANGED documentVars
  BY <1>1 DEF documentVars, DocumentsInv, TypeOKDocuments, LOAInOrder,
     AgreementTrailShowsLostChanges, LoadedOnce, Reached, loa_allowed
<1>2. CASE NextLOA
  BY <1>2, BeginLOAPreserves, CommitLOAPreserves, CrashSignerPreserves
     DEF NextLOA
<1>3. CASE NextAgreement
  BY <1>3, BeginAgreementPreserves, CommitAgreementPreserves,
     CrashSignerPreserves DEF NextAgreement
<1>. QED
  BY <1>1, <1>2, <1>3 DEF NextDocuments

\* The invariant is one.
THEOREM DocumentsInvariant == SpecDocuments => []DocumentsInv
BY DocumentsInit, DocumentsStep, PTL DEF SpecDocuments

\* LOAService.update: however many updates overlap, arrive late or overwrite
\* each other, no status is recorded before the one it follows, and a letter
\* issued or executed has its date.
THEOREM LettersAlwaysInOrder == SpecDocuments => []LOAInOrder
<1>1. DocumentsInv => LOAInOrder
  BY DEF DocumentsInv
<1>. QED
  BY <1>1, DocumentsInvariant, PTL

\* AgreementService.set_status: a status lost to another session shows as a
\* break in the trail of the agreement.
THEOREM AgreementTrailAlwaysShows ==
  SpecDocuments => []AgreementTrailShowsLostChanges
<1>1. DocumentsInv => AgreementTrailShowsLostChanges
  BY DEF DocumentsInv
<1>. QED
  BY <1>1, DocumentsInvariant, PTL

-----------------------------------------------------------------------------
(* Property options.                                                       *)

OptionRow == [option_sequence : Nat, status : PropertyStatus]
OptionEvent == [old_value : PropertyStatus, new_value : PropertyStatus]

\* What a worker may be doing.
Visit ==
  {Home}
    \cup [pc : {"create"}, option_sequence : 1..MaxOptions,
          status : PropertyStatus]
    \cup [pc : {"change", "request"}, id : DOMAIN options,
          old : PropertyStatus, new : PropertyStatus, user : PropertyManager,
          asks : {"along", "afterwards", "never"}]

\* The number a worker has taken is the next one or taken by now, and whoever
\* changes an option that has no event yet has loaded the status it has.
Informed(w) ==
  LET s == surveying[w] IN
  /\ s.pc = "create" => s.option_sequence <= Len(options) + 1
  /\ s.pc = "change" /\ option_events[s.id] = <<>> =>
       s.old = options[s.id].status

\* The options and their trails alone.
OptionsOK ==
  /\ options \in Seq(OptionRow)
  /\ option_events \in Seq(Seq(OptionEvent))
  /\ Len(option_events) = Len(options)
  /\ Len(options) <= MaxOptions
  /\ OptionsNumbered
  /\ OptionTrailShowsLostChanges

PropertiesInv ==
  /\ ApprovalsInv
  /\ OptionsOK
  /\ surveying \in [Surveyor -> Visit]
  /\ \A w \in Surveyor : Informed(w)

\* No option is removed, and its status changes with an event only.
OptionsStay ==
  /\ Len(options) <= Len(options')
  /\ \A i \in DOMAIN options :
       /\ i \in DOMAIN options'
       /\ option_events'[i] = <<>> =>
            option_events[i] = <<>> /\ options'[i].status = options[i].status

-----------------------------------------------------------------------------
\* Initially there are no options.
LEMMA PropertiesInit == InitProperties => PropertiesInv
<1>. SUFFICES ASSUME InitProperties PROVE PropertiesInv
  OBVIOUS
<1>1. ApprovalsInv
  BY ApprovalsInit DEF InitProperties
<1>2. options = <<>> /\ option_events = <<>>
  BY DEF InitProperties
<1>3. OptionsOK
  BY <1>2, PropertyConstants DEF OptionsOK, OptionsNumbered,
     OptionTrailShowsLostChanges
<1>. QED
  BY <1>1, <1>3 DEF InitProperties, PropertiesInv, Visit, Informed, Home

\* A step of one worker, from what it does to rows and approvals.
LEMMA SurveyorStep ==
  ASSUME PropertiesInv, ApprovalsInv', OptionsOK', OptionsStay,
         NEW w \in Surveyor, NEW t \in Visit',
         surveying' = [surveying EXCEPT ![w] = t], Informed(w)'
  PROVE  PropertiesInv'
<1>1. surveying \in [Surveyor -> Visit] /\ OptionsOK
  BY DEF PropertiesInv
<1>2. surveying'[w] = t /\ \A v \in Surveyor : v # w => surveying'[v] = surveying[v]
  BY <1>1
<1>3. ASSUME NEW v \in Surveyor, v # w
      PROVE  surveying'[v] \in Visit' /\ Informed(v)'
  <2>1. surveying'[v] = surveying[v] /\ surveying[v] \in Visit /\ Informed(v)
    BY <1>1, <1>2, <1>3 DEF PropertiesInv
  <2>2. DOMAIN options \subseteq DOMAIN options'
    BY DEF OptionsStay
  <2>3. surveying[v] \in Visit'
    BY <2>1, <2>2 DEF Visit
  <2>4. surveying[v].pc = "create" =>
          surveying[v].option_sequence <= Len(options') + 1
    <3>1. Len(options) \in Nat /\ Len(options') \in Nat
      BY <1>1 DEF OptionsOK
    <3>2. surveying[v].pc = "create" => surveying[v].option_sequence \in Nat
      BY <2>1 DEF Visit, Home
    <3>. QED
      BY <2>1, <3>1, <3>2 DEF Informed, OptionsStay
  <2>5. surveying[v].pc = "change" /\ option_events'[surveying[v].id] = <<>> =>
          surveying[v].old = options'[surveying[v].id].status
    <3>1. surveying[v].pc = "change" => surveying[v].id \in DOMAIN options
      BY <2>1 DEF Visit, Home
    <3>. QED
      BY <2>1, <3>1 DEF Informed, OptionsStay
  <2>. QED
    BY <2>1, <2>3, <2>4, <2>5 DEF Informed
<1>4. \A v \in Surveyor : surveying'[v] \in Visit' /\ Informed(v)'
  BY <1>2, <1>3
<1>5. surveying' \in [Surveyor -> Visit']
  BY <1>1, <1>4
<1>. QED
  BY <1>4, <1>5 DEF PropertiesInv

\* A worker that goes home.
LEMMA HomeStep ==
  ASSUME PropertiesInv, ApprovalsInv', OptionsOK', OptionsStay,
         NEW w \in Surveyor, GoHome(w)
  PROVE  PropertiesInv'
<1>1. surveying' = [surveying EXCEPT ![w] = Home]
  BY DEF GoHome
<1>2. surveying'[w] = Home /\ Home \in Visit'
  BY <1>1 DEF PropertiesInv, Visit
<1>3. Informed(w)'
  BY <1>2 DEF Informed, Home
<1>. QED
  BY <1>1, <1>2, <1>3, SurveyorStep

\* Options left alone.
LEMMA OptionsKept ==
  ASSUME OptionsOK, UNCHANGED <<options, option_events>>
  PROVE  OptionsOK' /\ OptionsStay
<1>1. OptionsOK'
  BY DEF OptionsOK, OptionsNumbered, OptionTrailShowsLostChanges
<1>2. Len(options) \in Nat
  BY DEF OptionsOK
<1>. QED
  BY <1>1, <1>2 DEF OptionsStay

\* The next number.
LEMMA NextSequence ==
  ASSUME OptionsOK
  PROVE  Sequences = 1..Len(options) /\ _next_sequence = Len(options) + 1
<1>1. /\ Len(options) \in Nat /\ DOMAIN options = 1..Len(options)
      /\ \A i \in DOMAIN options : options[i].option_sequence = i
  BY DEF OptionsOK, OptionsNumbered
<1>2. Sequences = 1..Len(options)
  BY <1>1 DEF Sequences
<1>3. CASE Len(options) = 0
  BY <1>2, <1>3 DEF _next_sequence
<1>4. CASE Len(options) # 0
  <2>1. Max(Sequences) = Len(options)
    BY <1>1, <1>2, <1>4 DEF Max
  <2>2. Sequences # {}
    BY <1>1, <1>2, <1>4
  <2>. QED
    BY <1>1, <1>2, <2>1, <2>2 DEF _next_sequence
<1>. QED
  BY <1>2, <1>3, <1>4

\* A worker takes the next number.
LEMMA BeginPropertyPreserves ==
  ASSUME PropertiesInv, NEW w \in Surveyor, NEW status \in StatusSet,
         begin_property(w, status)
  PROVE  PropertiesInv' /\ Grows
<1>1. ApprovalsInv' /\ Grows /\ OptionsOK' /\ OptionsStay
  BY ApprovalsLeftAlone, OptionsKept DEF PropertiesInv, begin_property
<1>2. PICK st \in PropertyStatus : surveying' = [surveying EXCEPT ![w] =
        [pc |-> "create", option_sequence |-> _next_sequence, status |-> st]]
  BY PropertyConstants DEF begin_property, PropertyStatus
<1>. DEFINE t == [pc |-> "create", option_sequence |-> Len(options) + 1,
                  status |-> st]
<1>3. surveying' = [surveying EXCEPT ![w] = t]
  BY <1>2, NextSequence DEF PropertiesInv
<1>4. Len(options) \in Nat /\ Len(options) < MaxOptions
      /\ options' = options
  BY DEF PropertiesInv, OptionsOK, begin_property
<1>5. t \in Visit'
  BY <1>4, PropertyConstants DEF Visit
<1>6. surveying'[w] = t
  BY <1>3 DEF PropertiesInv
<1>7. Informed(w)'
  BY <1>4, <1>6 DEF Informed
<1>. QED
  BY <1>1, <1>3, <1>5, <1>7, SurveyorStep

\* An option is committed with the number taken, or refused.
LEMMA CommitPropertyPreserves ==
  ASSUME PropertiesInv, NEW w \in Surveyor, commit_property(w)
  PROVE  PropertiesInv' /\ Grows
<1>. DEFINE s == surveying[w]  last == Len(options) + 1
            row == [option_sequence |-> s.option_sequence, status |-> s.status]
<1>1. ApprovalsInv' /\ Grows /\ GoHome(w)
  BY ApprovalsLeftAlone DEF PropertiesInv, commit_property
<1>2. /\ s \in [pc : {"create"}, option_sequence : 1..MaxOptions,
                status : PropertyStatus]
      /\ s.option_sequence <= last
  BY DEF PropertiesInv, Visit, Home, Informed, commit_property, Surveying
<1>3. /\ OptionsOK /\ options \in Seq(OptionRow)
      /\ option_events \in Seq(Seq(OptionEvent))
      /\ Len(options) \in Nat /\ DOMAIN options = 1..Len(options)
      /\ Len(option_events) = Len(options)
  BY DEF PropertiesInv, OptionsOK
<1>4. CASE UNCHANGED <<options, option_events>>
  BY <1>1, <1>3, <1>4, OptionsKept, HomeStep
<1>5. CASE /\ s.option_sequence \notin Sequences
           /\ options' = Append(options, row)
           /\ option_events' = Append(option_events, <<>>)
  <2>1. s.option_sequence = last /\ last <= MaxOptions
    BY <1>2, <1>3, <1>5, NextSequence, PropertyConstants
  <2>2. row \in OptionRow /\ row.option_sequence = last
    BY <1>2, <1>3, <2>1 DEF OptionRow
  <2>. HIDE DEF row
  <2>3. /\ options' \in Seq(OptionRow) /\ Len(options') = last
        /\ DOMAIN options' = 1..last /\ options'[last] = row
        /\ \A i \in DOMAIN options : options'[i] = options[i]
    BY <1>3, <1>5, <2>2
  <2>4. <<>> \in Seq(OptionEvent)
    OBVIOUS
  <2>5. /\ option_events' \in Seq(Seq(OptionEvent))
        /\ Len(option_events') = last /\ option_events'[last] = <<>>
        /\ \A i \in DOMAIN options : option_events'[i] = option_events[i]
    BY <1>3, <1>5, <2>4
  <2>6. OptionsNumbered'
    BY <1>3, <2>2, <2>3 DEF OptionsOK, OptionsNumbered
  <2>7. OptionTrailShowsLostChanges'
    <3>. SUFFICES ASSUME NEW i \in DOMAIN options', Len(option_events'[i]) > 0,
                         \A k \in 2..Len(option_events'[i]) :
                           option_events'[i][k].old_value
                             = option_events'[i][k - 1].new_value
                  PROVE  options'[i].status =
                           option_events'[i][Len(option_events'[i])].new_value
      BY DEF OptionTrailShowsLostChanges
    <3>1. i # last
      BY <2>5
    <3>2. i \in DOMAIN options
      BY <1>3, <2>3, <3>1
    <3>3. options'[i] = options[i] /\ option_events'[i] = option_events[i]
      BY <2>3, <2>5, <3>2
    <3>. QED
      BY <1>3, <3>2, <3>3 DEF OptionsOK, OptionTrailShowsLostChanges
  <2>8. OptionsOK'
    BY <2>1, <2>3, <2>5, <2>6, <2>7 DEF OptionsOK
  <2>9. OptionsStay
    <3>1. Len(options) <= Len(options') /\ DOMAIN options \subseteq DOMAIN options'
      BY <1>3, <2>3
    <3>2. \A i \in DOMAIN options :
            options'[i] = options[i] /\ option_events'[i] = option_events[i]
      BY <2>3, <2>5
    <3>. QED
      BY <3>1, <3>2 DEF OptionsStay
  <2>. QED
    BY <1>1, <2>8, <2>9, HomeStep
<1>. QED
  BY <1>4, <1>5 DEF commit_property

\* A worker loads an option.
LEMMA BeginChangePreserves ==
  ASSUME PropertiesInv, NEW w \in Surveyor, NEW i \in DOMAIN options,
         NEW op \in Operations, NEW u \in PropertyManager,
         NEW new \in StatusSet \cup {"CANCELLED", "UNDER_APPROVAL", "APPROVED"},
         begin_change(w, i, op, new, u)
  PROVE  PropertiesInv' /\ Grows
<1>. DEFINE old == options[i].status
            kind == IF op = "request_approval" /\ old = "APPROVED"
                      THEN "request" ELSE "change"
            asks == CASE op = "approve" -> "along"
                      [] op = "request_approval" -> "afterwards"
                      [] OTHER -> "never"
            t == [pc |-> kind, id |-> i, old |-> old, new |-> new, user |-> u,
                  asks |-> asks]
<1>1. ApprovalsInv' /\ Grows /\ OptionsOK' /\ OptionsStay
  BY ApprovalsLeftAlone, OptionsKept DEF PropertiesInv, begin_change
<1>2. /\ surveying' = [surveying EXCEPT ![w] = t]
      /\ UNCHANGED <<options, option_events>>
  BY DEF begin_change
<1>3. kind \in {"change", "request"} /\ asks \in {"along", "afterwards", "never"}
  OBVIOUS
<1>4. old \in PropertyStatus
  <2>1. options[i] \in OptionRow
    BY DEF PropertiesInv, OptionsOK
  <2>. QED
    BY <2>1 DEF OptionRow
<1>5. new \in PropertyStatus
  BY PropertyConstants DEF PropertyStatus
<1>. HIDE DEF kind, asks
<1>6. t \in Visit
  BY <1>3, <1>4, <1>5 DEF Visit
<1>7. surveying'[w] = t /\ t \in Visit'
  BY <1>2, <1>6 DEF PropertiesInv, Visit
<1>8. Informed(w)'
  BY <1>2, <1>3, <1>7 DEF Informed
<1>. QED
  BY <1>1, <1>2, <1>7, <1>8, SurveyorStep

\* A status is committed with its event.  If it is the one that was loaded the
\* row keeps what others wrote: either that shows in the trail, or the status
\* is the one loaded all the same.
LEMMA ChangeWritten ==
  ASSUME OptionsOK, NEW i \in DOMAIN options, NEW old \in PropertyStatus,
         NEW new \in PropertyStatus,
         option_events[i] = <<>> => old = options[i].status,
         options' = [options EXCEPT ![i].status = Stored(@, old, new)],
         option_events' = [option_events EXCEPT ![i] =
           Append(@, [old_value |-> old, new_value |-> new])]
  PROVE  OptionsOK' /\ OptionsStay
<1>. DEFINE trail == option_events[i]  last == Len(trail) + 1
            event == [old_value |-> old, new_value |-> new]
            longer == Append(trail, event)
            row == [options[i] EXCEPT
                      !.status = Stored(options[i].status, old, new)]
<1>1. /\ options \in Seq(OptionRow) /\ option_events \in Seq(Seq(OptionEvent))
      /\ Len(options) \in Nat /\ Len(option_events) = Len(options)
      /\ DOMAIN options = 1..Len(options) /\ DOMAIN option_events = DOMAIN options
      /\ i \in 1..Len(options) /\ options[i] \in OptionRow
  BY DEF OptionsOK
<1>2. trail \in Seq(OptionEvent) /\ Len(trail) \in Nat /\ last \in Nat \ {0}
  BY <1>1
<1>3. event \in OptionEvent /\ event.old_value = old /\ event.new_value = new
  BY DEF OptionEvent
<1>. HIDE DEF event
<1>4. /\ longer \in Seq(OptionEvent) /\ Len(longer) = last
      /\ longer[last] = event /\ longer # <<>>
      /\ \A k \in 1..(last - 1) : longer[k] = trail[k]
      /\ last = 1 => trail = <<>>
  BY <1>2, <1>3
<1>5. /\ row \in OptionRow
      /\ row.option_sequence = options[i].option_sequence
      /\ row.status = Stored(options[i].status, old, new)
  BY <1>1 DEF OptionRow, Stored
<1>6. /\ options' = [options EXCEPT ![i] = row]
      /\ option_events' = [option_events EXCEPT ![i] = longer]
  BY <1>1 DEF event
<1>. HIDE DEF row, longer
<1>7. options' \in Seq(OptionRow) /\ option_events' \in Seq(Seq(OptionEvent))
  <2>1. options' \in Seq(OptionRow)
    <3>1. options \in Seq(OptionRow) /\ i \in 1..Len(options) /\ row \in OptionRow
      BY <1>1, <1>5
    <3>. QED
      BY <1>6, <3>1, ExceptSeq
  <2>2. option_events' \in Seq(Seq(OptionEvent))
    <3>1. /\ option_events \in Seq(Seq(OptionEvent))
          /\ i \in 1..Len(option_events) /\ longer \in Seq(OptionEvent)
      BY <1>1, <1>4
    <3>. QED
      BY <1>6, <3>1, ExceptSeq
  <2>. QED
    BY <2>1, <2>2
<1>8. /\ DOMAIN options' = DOMAIN options /\ Len(options') = Len(options)
      /\ Len(option_events') = Len(option_events)
      /\ options'[i] = row /\ option_events'[i] = longer
      /\ \A j \in DOMAIN options : j # i =>
           options'[j] = options[j] /\ option_events'[j] = option_events[j]
  BY <1>1, <1>6
<1>9. OptionsNumbered'
  BY <1>5, <1>8 DEF OptionsOK, OptionsNumbered
<1>10. ASSUME \A k \in 2..last : longer[k].old_value = longer[k - 1].new_value
       PROVE  row.status = new
  <2>1. CASE new # old
    BY <1>5, <2>1 DEF Stored
  <2>2. CASE new = old
    <3>1. row.status = options[i].status
      BY <1>5, <2>2 DEF Stored
    <3>2. CASE last = 1
      BY <1>4, <2>2, <3>1, <3>2
    <3>3. CASE last # 1
      <4>1. last - 1 \in 1..(last - 1) /\ last \in 2..last
        BY <1>2, <3>3
      <4>2. trail[last - 1].new_value = old
        BY <1>3, <1>4, <1>10, <4>1
      <4>3. ASSUME NEW k \in 2..(last - 1)
            PROVE  trail[k].old_value = trail[k - 1].new_value
        <5>1. k \in 2..last /\ k \in 1..(last - 1) /\ k - 1 \in 1..(last - 1)
          BY <1>2
        <5>. QED
          BY <1>4, <1>10, <5>1
      <4>4. Len(trail) = last - 1 /\ last - 1 > 0
        BY <1>2, <3>3
      <4>5. Len(trail) > 0 /\ \A k \in 2..Len(trail) :
                                trail[k].old_value = trail[k - 1].new_value
        BY <4>3, <4>4
      <4>6. options[i].status = trail[Len(trail)].new_value
        BY <4>5 DEF OptionsOK, OptionTrailShowsLostChanges
      <4>. QED
        BY <2>2, <3>1, <4>2, <4>4, <4>6
    <3>. QED
      BY <3>2, <3>3
  <2>. QED
    BY <2>1, <2>2
<1>11. OptionTrailShowsLostChanges'
  <2>. SUFFICES ASSUME NEW j \in DOMAIN options', Len(option_events'[j]) > 0,
                       \A k \in 2..Len(option_events'[j]) :
                         option_events'[j][k].old_value
                           = option_events'[j][k - 1].new_value
                PROVE  options'[j].status =
                         option_events'[j][Len(option_events'[j])].new_value
    BY DEF OptionTrailShowsLostChanges
  <2>1. CASE j = i
    <3>1. option_events'[j] = longer /\ options'[j] = row
      BY <1>8, <2>1
    <3>2. Len(option_events'[j]) = last
      BY <1>4, <3>1
    <3>3. row.status = new
      BY <1>10, <3>1, <3>2
    <3>. QED
      BY <1>3, <1>4, <3>1, <3>2, <3>3
  <2>2. CASE j # i
    BY <1>8, <2>2 DEF OptionsOK, OptionTrailShowsLostChanges
  <2>. QED
    BY <2>1, <2>2
<1>12. OptionsOK'
  BY <1>7, <1>8, <1>9, <1>11 DEF OptionsOK
<1>13. OptionsStay
  <2>1. Len(options) <= Len(options')
    BY <1>8
  <2>2. longer # <<>>
    BY <1>4
  <2>3. ASSUME NEW j \in DOMAIN options
        PROVE  /\ j \in DOMAIN options'
               /\ option_events'[j] = <<>> =>
                    option_events[j] = <<>> /\ options'[j].status = options[j].status
    <3>1. CASE j = i
      BY <1>8, <2>2, <3>1
    <3>2. CASE j # i
      BY <1>8, <3>2
    <3>. QED
      BY <3>1, <3>2
  <2>. QED
    BY <2>1, <2>3 DEF OptionsStay
<1>. QED
  BY <1>12, <1>13

\* What a worker that changes an option holds.
LEMMA ChangeHeld ==
  ASSUME PropertiesInv, NEW w \in Surveyor,
         surveying[w].pc \in {"change", "request"}
  PROVE  /\ surveying[w] \in
              [pc : {"change", "request"}, id : DOMAIN options,
               old : PropertyStatus, new : PropertyStatus,
               user : PropertyManager, asks : {"along", "afterwards", "never"}]
         /\ surveying[w].id \in Entity /\ surveying[w].user \in Approver
         /\ Informed(w)
<1>1. surveying[w] \in Visit /\ Informed(w) /\ OptionsOK
  BY DEF PropertiesInv
<1>2. surveying[w] \in
        [pc : {"change", "request"}, id : DOMAIN options,
         old : PropertyStatus, new : PropertyStatus,
         user : PropertyManager, asks : {"along", "afterwards", "never"}]
  BY <1>1 DEF Visit, Home
<1>3. DOMAIN options \subseteq 1..MaxOptions
  BY <1>1, PropertyConstants DEF OptionsOK
<1>. QED
  BY <1>1, <1>2, <1>3, PropertyConstants

\* The commit of a change, with its approval row if there is one.
LEMMA CommitChangePreserves ==
  ASSUME PropertiesInv, NEW w \in Surveyor, commit_change(w)
  PROVE  PropertiesInv' /\ Grows
<1>. DEFINE s == surveying[w]
<1>1. /\ s \in [pc : {"change", "request"}, id : DOMAIN options,
               old : PropertyStatus, new : PropertyStatus,
               user : PropertyManager, asks : {"along", "afterwards", "never"}]
      /\ s.id \in Entity /\ s.user \in Approver /\ s.pc = "change"
      /\ Informed(w)
  BY ChangeHeld DEF commit_change, Surveying
<1>2. ApprovalsInv' /\ Grows
  BY <1>1, ApprovalRequested, ApprovalsLeftAlone, PropertyConstants
     DEF commit_change, PropertiesInv
<1>3. OptionsOK' /\ OptionsStay
  <2>1. option_events[s.id] = <<>> => s.old = options[s.id].status
    BY <1>1 DEF Informed
  <2>2. /\ options' = [options EXCEPT ![s.id].status = Stored(@, s.old, s.new)]
        /\ option_events' = [option_events EXCEPT ![s.id] =
             Append(@, [old_value |-> s.old, new_value |-> s.new])]
    BY DEF commit_change
  <2>3. OptionsOK /\ s.id \in DOMAIN options /\ s.old \in PropertyStatus
        /\ s.new \in PropertyStatus
    BY <1>1 DEF PropertiesInv
  <2>. HIDE DEF s
  <2>. QED
    BY <2>1, <2>2, <2>3, ChangeWritten
<1>4. CASE GoHome(w)
  BY <1>2, <1>3, <1>4, HomeStep
<1>5. CASE surveying' = [surveying EXCEPT ![w].pc = "request"]
  <2>. DEFINE t == [s EXCEPT !.pc = "request"]
  <2>1. t \in [pc : {"change", "request"}, id : DOMAIN options,
               old : PropertyStatus, new : PropertyStatus,
               user : PropertyManager, asks : {"along", "afterwards", "never"}]
        /\ t.pc = "request"
    BY <1>1
  <2>2. surveying' = [surveying EXCEPT ![w] = t]
    BY <1>5
  <2>. HIDE DEF t
  <2>3. DOMAIN options \subseteq DOMAIN options'
    BY <1>3 DEF OptionsStay
  <2>4. t \in Visit'
    BY <2>1, <2>3 DEF Visit
  <2>5. surveying'[w] = t
    BY <2>2 DEF PropertiesInv
  <2>6. Informed(w)'
    BY <2>1, <2>5 DEF Informed
  <2>. QED
    BY <1>2, <1>3, <2>2, <2>4, <2>6, SurveyorStep
<1>. QED
  BY <1>4, <1>5 DEF commit_change

\* request_approval asks.
LEMMA RequestOptionPreserves ==
  ASSUME PropertiesInv, NEW w \in Surveyor, commit_approval_request(w)
  PROVE  PropertiesInv' /\ Grows
<1>1. surveying[w].id \in Entity /\ surveying[w].user \in Approver
  BY ChangeHeld DEF commit_approval_request, Surveying
<1>2. ApprovalsInv' /\ Grows
  BY <1>1, ApprovalRequested, PropertyConstants
     DEF commit_approval_request, PropertiesInv
<1>3. OptionsOK' /\ OptionsStay
  BY OptionsKept DEF PropertiesInv, commit_approval_request
<1>. QED
  BY <1>2, <1>3, HomeStep DEF commit_approval_request

\* A worker dies.
LEMMA CrashSurveyorPreserves ==
  ASSUME PropertiesInv, NEW w \in Surveyor, crash_surveyor(w)
  PROVE  PropertiesInv' /\ Grows
<1>1. ApprovalsInv' /\ Grows /\ OptionsOK' /\ OptionsStay
  BY ApprovalsLeftAlone, OptionsKept DEF PropertiesInv, crash_surveyor
<1>. QED
  BY <1>1, HomeStep DEF crash_surveyor

\* Every step preserves the invariant, and keeps the history of approvals.
LEMMA PropertiesStep ==
  ASSUME PropertiesInv, [NextProperties]_propertyVars
  PROVE  PropertiesInv' /\ Grows
<1>1. CASE UNCHANGED propertyVars
  <2>1. ApprovalsInv' /\ Grows /\ OptionsOK' /\ surveying' = surveying
        /\ options' = options /\ option_events' = option_events
    BY <1>1, ApprovalsLeftAlone, OptionsKept DEF propertyVars, PropertiesInv
  <2>. QED
    BY <2>1 DEF PropertiesInv, Visit, Informed
<1>2. CASE NextProperties
  BY <1>2, BeginPropertyPreserves, CommitPropertyPreserves,
     BeginChangePreserves, CommitChangePreserves, RequestOptionPreserves,
     CrashSurveyorPreserves DEF NextProperties
<1>. QED
  BY <1>1, <1>2

\* The invariant is one.
THEOREM PropertiesInvariant == SpecProperties => []PropertiesInv
<1>1. PropertiesInv /\ [NextProperties]_propertyVars => PropertiesInv'
  BY PropertiesStep
<1>. QED
  BY <1>1, PropertiesInit, PTL DEF SpecProperties

\* PropertyService.create: however many calls take the same number, the
\* options are numbered from 1 without a gap, in the order of their commits.
THEOREM OptionsAlwaysNumbered == SpecProperties => []OptionsNumbered
<1>1. PropertiesInv => OptionsNumbered
  BY DEF PropertiesInv, OptionsOK
<1>. QED
  BY <1>1, PropertiesInvariant, PTL

\* Whatever sessions overwrite of one another: a status that is not the last
\* one of its trail shows as a break in the trail.
THEOREM OptionTrailAlwaysShows ==
  SpecProperties => []OptionTrailShowsLostChanges
<1>1. PropertiesInv => OptionTrailShowsLostChanges
  BY DEF PropertiesInv, OptionsOK
<1>. QED
  BY <1>1, PropertiesInvariant, PTL

-----------------------------------------------------------------------------
(* Regions, areas and branches.                                            *)

LimitOfUnit == RentLimit \cup {NoLimit}

\* A row, and what a worker may have found.
UnitRow == [parent : Unit, name : UnitName, rent_limit : LimitOfUnit]

Finding ==
  {Out}
    \cup [pc : {"create"}, id : Unit, parent : Unit, name : UnitName]
    \cup [pc : {"rename"}, id : Unit, name : UnitName]
    \cup [pc : {"delete"}, id : Unit]

\* A new row gets a parent from the table its key refers to.
FoundParent(w) ==
  planning[w].pc = "create" => planning[w].parent \in ParentsOf(planning[w].id)

OrganizationInv ==
  /\ TypeOKOrganization
  /\ UnitsConsistent
  /\ planning \in [Planner -> Finding]
  /\ \A w \in Planner : FoundParent(w)

-----------------------------------------------------------------------------
\* A row is not the absence of one.
LEMMA RowIsPresent == \A row \in UnitRow : row # Absent
<1>. SUFFICES ASSUME NEW row \in UnitRow, row = Absent PROVE FALSE
  OBVIOUS
<1>1. DOMAIN row = {"parent", "name", "rent_limit"}
  BY DEF UnitRow
<1>2. DOMAIN row = {"parent"}
  BY DEF Absent
<1>. QED
  BY <1>1, <1>2

\* The tables that keys refer to.
LEMMA ParentTables ==
  /\ \A x \in Region : ParentsOf(x) = {x}
  /\ \A x \in Area : ParentsOf(x) = Region
  /\ \A x \in Branch : ParentsOf(x) = Area
BY OrganizationConstants DEF ParentsOf

\* The type of the rows, in short.
LEMMA RowType ==
  ASSUME TypeOKOrganization
  PROVE  /\ units \in [Unit -> {Absent} \cup UnitRow]
         /\ \A x \in Present : units[x] \in UnitRow
BY DEF TypeOKOrganization, Present, UnitRow, LimitOfUnit

\* Writing a row whose parent is there and whose key is free.
LEMMA UnitWritten ==
  ASSUME TypeOKOrganization, UnitsConsistent, NEW x \in Unit,
         NEW row \in UnitRow, units' = [units EXCEPT ![x] = row],
         row.parent \in (Present \cup {x}) \cap ParentsOf(x),
         Clashes(x, row.parent, row.name) = {}
  PROVE  TypeOKOrganization' /\ UnitsConsistent'
<1>1. /\ units \in [Unit -> {Absent} \cup UnitRow]
      /\ \A y \in Present : units[y] \in UnitRow
  BY RowType
<1>2. /\ units'[x] = row /\ row # Absent
      /\ \A y \in Unit : y # x => units'[y] = units[y]
      /\ units' \in [Unit -> {Absent} \cup UnitRow]
  BY <1>1, RowIsPresent
<1>3. TypeOKOrganization'
  BY <1>2 DEF TypeOKOrganization, UnitRow, LimitOfUnit
<1>4. Present' = Present \cup {x}
  BY <1>1, <1>2 DEF Present
<1>5. ASSUME NEW y \in Present', NEW z \in Present', y # z,
             \E table \in {Region, Area, Branch} : {y, z} \subseteq table,
             units'[z].name = units'[y].name,
             y \in Area => units'[z].parent = units'[y].parent
      PROVE  FALSE
  <2>1. y \in Area <=> z \in Area
    BY <1>5, OrganizationConstants
  <2>2. CASE y = x
    <3>1. z \in Present \ {x} /\ units'[z] = units[z]
      BY <1>2, <1>4, <1>5, <2>2 DEF Present
    <3>2. z \in Clashes(x, row.parent, row.name)
      BY <1>2, <1>5, <2>2, <3>1 DEF Clashes
    <3>. QED
      BY <3>2
  <2>3. CASE z = x
    <3>1. y \in Present \ {x} /\ units'[y] = units[y]
      BY <1>2, <1>4, <1>5, <2>3 DEF Present
    <3>2. y \in Clashes(x, row.parent, row.name)
      BY <1>2, <1>5, <2>1, <2>3, <3>1 DEF Clashes
    <3>. QED
      BY <3>2
  <2>4. CASE y # x /\ z # x
    <3>1. /\ y \in Present /\ z \in Present \ {y}
          /\ units'[y] = units[y] /\ units'[z] = units[z]
      BY <1>2, <1>4, <1>5, <2>4 DEF Present
    <3>2. z \in Clashes(y, units[y].parent, units[y].name)
      BY <1>5, <3>1 DEF Clashes
    <3>. QED
      BY <3>1, <3>2 DEF UnitsConsistent
  <2>. QED
    BY <2>2, <2>3, <2>4
<1>6. ASSUME NEW y \in Present'
      PROVE  /\ units'[y].parent \in Present' \cap ParentsOf(y)
             /\ Clashes(y, units[y].parent, units[y].name)' = {}
  <2>1. units'[y].parent \in Present' \cap ParentsOf(y)
    <3>1. CASE y = x
      BY <1>2, <1>4, <3>1
    <3>2. CASE y # x
      <4>1. y \in Present /\ units'[y] = units[y]
        BY <1>2, <1>4, <1>6, <3>2 DEF Present
      <4>. QED
        BY <1>4, <4>1 DEF UnitsConsistent
    <3>. QED
      BY <3>1, <3>2
  <2>2. Clashes(y, units[y].parent, units[y].name)' = {}
    BY <1>5 DEF Clashes
  <2>. QED
    BY <2>1, <2>2
<1>7. UnitsConsistent'
  BY <1>6 DEF UnitsConsistent
<1>. QED
  BY <1>3, <1>7

\* Deleting a row without children.
LEMMA UnitRemoved ==
  ASSUME TypeOKOrganization, UnitsConsistent, NEW x \in Unit,
         units' = [units EXCEPT ![x] = Absent], UnitChildren(x) = {}
  PROVE  TypeOKOrganization' /\ UnitsConsistent'
<1>1. /\ units \in [Unit -> {Absent} \cup UnitRow]
      /\ \A y \in Present : units[y] \in UnitRow
  BY RowType
<1>2. /\ units'[x] = Absent
      /\ \A y \in Unit : y # x => units'[y] = units[y]
      /\ units' \in [Unit -> {Absent} \cup UnitRow]
  BY <1>1
<1>3. TypeOKOrganization'
  BY <1>2 DEF TypeOKOrganization, UnitRow, LimitOfUnit
<1>4. Present' = Present \ {x}
  BY <1>1, <1>2 DEF Present
<1>5. ASSUME NEW y \in Present'
      PROVE  /\ units'[y].parent \in Present' \cap ParentsOf(y)
             /\ Clashes(y, units[y].parent, units[y].name)' = {}
  <2>1. y \in Present \ {x} /\ units'[y] = units[y]
    BY <1>2, <1>4, <1>5 DEF Present
  <2>2. units[y].parent \in Present \cap ParentsOf(y)
    BY <2>1 DEF UnitsConsistent
  <2>3. units[y].parent # x
    BY <2>1 DEF UnitChildren
  <2>4. Clashes(y, units[y].parent, units[y].name) = {}
    BY <2>1 DEF UnitsConsistent
  <2>5. Clashes(y, units[y].parent, units[y].name)' = {}
    <3>1. \A z \in Present' : z \in Present /\ units'[z] = units[z]
      BY <1>2, <1>4 DEF Present
    <3>. QED
      BY <2>1, <2>4, <3>1 DEF Clashes
  <2>. QED
    BY <1>4, <2>1, <2>2, <2>3, <2>5
<1>6. UnitsConsistent'
  BY <1>5 DEF UnitsConsistent
<1>. QED
  BY <1>3, <1>6

-----------------------------------------------------------------------------
\* Initially there are no rows.
LEMMA OrganizationInit == InitOrganization => OrganizationInv
BY DEF InitOrganization, OrganizationInv, TypeOKOrganization, UnitsConsistent,
       Present, Finding, FoundParent, Out

\* A step that leaves the rows alone, and one that leaves a worker out.
LEMMA PlannerPreserves ==
  ASSUME OrganizationInv, NEW w \in Planner, NEW t \in Finding,
         planning' = [planning EXCEPT ![w] = t],
         t.pc = "create" => t.parent \in ParentsOf(t.id),
         TypeOKOrganization' /\ UnitsConsistent'
  PROVE  OrganizationInv'
<1>1. /\ planning' \in [Planner -> Finding] /\ planning'[w] = t
      /\ \A v \in Planner : v # w => planning'[v] = planning[v]
  BY DEF OrganizationInv
<1>2. \A v \in Planner : FoundParent(v)'
  BY <1>1 DEF OrganizationInv, FoundParent
<1>. QED
  BY <1>1, <1>2 DEF OrganizationInv

\* Rows left alone stay consistent.
LEMMA UnitsKept ==
  ASSUME OrganizationInv, units' = units
  PROVE  TypeOKOrganization' /\ UnitsConsistent'
BY DEF OrganizationInv, TypeOKOrganization, UnitsConsistent, Present, Clashes

\* A worker finds what it looked for.
LEMMA FindingPreserves ==
  ASSUME OrganizationInv, NEW w \in Planner, NEW x \in Unit,
         \/ \E name \in UnitName :
              \/ \E parent \in Unit : begin_create_unit(w, x, parent, name)
              \/ begin_rename_unit(w, x, name)
         \/ begin_delete_unit(w, x)
  PROVE  OrganizationInv'
<1>1. ASSUME NEW name \in UnitName, NEW parent \in Unit,
             begin_create_unit(w, x, parent, name)
      PROVE  OrganizationInv'
  <2>. DEFINE t == [pc |-> "create", id |-> x, parent |-> parent, name |-> name]
  <2>1. t \in Finding /\ t.parent \in ParentsOf(t.id)
        /\ planning' = [planning EXCEPT ![w] = t] /\ units' = units
    BY <1>1 DEF begin_create_unit, Finding
  <2>. QED
    BY <2>1, UnitsKept, PlannerPreserves
<1>2. ASSUME NEW name \in UnitName, begin_rename_unit(w, x, name)
      PROVE  OrganizationInv'
  <2>. DEFINE t == [pc |-> "rename", id |-> x, name |-> name]
  <2>1. t \in Finding /\ t.pc # "create"
        /\ planning' = [planning EXCEPT ![w] = t] /\ units' = units
    BY <1>2 DEF begin_rename_unit, Finding
  <2>. QED
    BY <2>1, UnitsKept, PlannerPreserves
<1>3. ASSUME begin_delete_unit(w, x)
      PROVE  OrganizationInv'
  <2>. DEFINE t == [pc |-> "delete", id |-> x]
  <2>1. t \in Finding /\ t.pc # "create"
        /\ planning' = [planning EXCEPT ![w] = t] /\ units' = units
    BY <1>3 DEF begin_delete_unit, Finding
  <2>. QED
    BY <2>1, UnitsKept, PlannerPreserves
<1>. QED
  BY <1>1, <1>2, <1>3

\* A worker that is done.
LEMMA OutPreserves ==
  ASSUME OrganizationInv, NEW w \in Planner, GoOut(w),
         TypeOKOrganization' /\ UnitsConsistent'
  PROVE  OrganizationInv'
<1>1. Out \in Finding /\ Out.pc # "create"
  BY DEF Finding, Out
<1>. QED
  BY <1>1, PlannerPreserves DEF GoOut

\* A row is inserted, or refused by a constraint.
LEMMA CreateUnitPreserves ==
  ASSUME OrganizationInv, NEW w \in Planner, NEW limit \in LimitOfUnit,
         commit_create_unit(w, limit)
  PROVE  OrganizationInv'
<1>. DEFINE p == planning[w]
            row == [parent |-> p.parent, name |-> p.name, rent_limit |-> limit]
<1>1. /\ p \in [pc : {"create"}, id : Unit, parent : Unit, name : UnitName]
      /\ p.parent \in ParentsOf(p.id)
  BY DEF OrganizationInv, Finding, Out, FoundParent, commit_create_unit,
         Planning
<1>2. row \in UnitRow /\ row.parent = p.parent /\ row.name = p.name
  BY <1>1 DEF UnitRow
<1>3. CASE /\ p.id \notin Present
           /\ p.id \notin Region => p.parent \in Present
           /\ Clashes(p.id, p.parent, p.name) = {}
  <2>1. units' = [units EXCEPT ![p.id] = row]
    BY <1>3 DEF commit_create_unit
  <2>2. row.parent \in (Present \cup {p.id}) \cap ParentsOf(p.id)
    BY <1>1, <1>2, <1>3, ParentTables
  <2>3. p.id \in Unit /\ Clashes(p.id, row.parent, row.name) = {}
    BY <1>1, <1>2, <1>3
  <2>. HIDE DEF p, row
  <2>4. TypeOKOrganization' /\ UnitsConsistent'
    BY <1>2, <2>1, <2>2, <2>3, UnitWritten DEF OrganizationInv
  <2>. QED
    BY <2>4, OutPreserves DEF commit_create_unit
<1>4. CASE units' = units
  BY <1>4, UnitsKept, OutPreserves DEF commit_create_unit
<1>. QED
  BY <1>3, <1>4 DEF commit_create_unit

\* A unit is renamed, unless it is gone or its new key is taken.
LEMMA RenameUnitPreserves ==
  ASSUME OrganizationInv, NEW w \in Planner, commit_rename_unit(w)
  PROVE  OrganizationInv'
<1>. DEFINE p == planning[w]  row == [units[p.id] EXCEPT !.name = p.name]
<1>1. p \in [pc : {"rename"}, id : Unit, name : UnitName]
  BY DEF OrganizationInv, Finding, Out, commit_rename_unit, Planning
<1>2. CASE /\ p.id \in Present
           /\ Clashes(p.id, units[p.id].parent, p.name) = {}
  <2>1. units[p.id] \in UnitRow /\ units \in [Unit -> {Absent} \cup UnitRow]
    BY <1>2, RowType DEF OrganizationInv
  <2>2. /\ row \in UnitRow /\ row.parent = units[p.id].parent
        /\ row.name = p.name
    BY <1>1, <2>1 DEF UnitRow
  <2>3. units' = [units EXCEPT ![p.id] = row]
    BY <1>2, <2>1 DEF commit_rename_unit
  <2>4. row.parent \in (Present \cup {p.id}) \cap ParentsOf(p.id)
    BY <1>2, <2>2 DEF OrganizationInv, UnitsConsistent
  <2>5. p.id \in Unit /\ Clashes(p.id, row.parent, row.name) = {}
    BY <1>1, <1>2, <2>2
  <2>. HIDE DEF p, row
  <2>6. TypeOKOrganization' /\ UnitsConsistent'
    BY <2>2, <2>3, <2>4, <2>5, UnitWritten DEF OrganizationInv
  <2>. QED
    BY <2>6, OutPreserves DEF commit_rename_unit
<1>3. CASE units' = units
  BY <1>3, UnitsKept, OutPreserves DEF commit_rename_unit
<1>. QED
  BY <1>2, <1>3 DEF commit_rename_unit

\* A unit is deleted, unless it has got children.
LEMMA DeleteUnitPreserves ==
  ASSUME OrganizationInv, NEW w \in Planner, commit_delete_unit(w)
  PROVE  OrganizationInv'
<1>1. planning[w].id \in Unit
  BY DEF OrganizationInv, Finding, Out, commit_delete_unit, Planning
<1>2. CASE UnitChildren(planning[w].id) = {}
  BY <1>1, <1>2, UnitRemoved, OutPreserves
     DEF OrganizationInv, commit_delete_unit
<1>3. CASE units' = units
  BY <1>3, UnitsKept, OutPreserves DEF commit_delete_unit
<1>. QED
  BY <1>2, <1>3 DEF commit_delete_unit

\* A limit is set.
LEMMA LimitPreserves ==
  ASSUME OrganizationInv, NEW x \in Unit, NEW limit \in RentLimit,
         set_rent_limit(x, limit)
  PROVE  OrganizationInv'
<1>. DEFINE row == [units[x] EXCEPT !.rent_limit = limit]
<1>1. units[x] \in UnitRow /\ units \in [Unit -> {Absent} \cup UnitRow]
  BY RowType DEF OrganizationInv, set_rent_limit
<1>2. /\ row \in UnitRow /\ row.parent = units[x].parent
      /\ row.name = units[x].name /\ units' = [units EXCEPT ![x] = row]
  BY <1>1 DEF UnitRow, LimitOfUnit, set_rent_limit
<1>3. /\ row.parent \in (Present \cup {x}) \cap ParentsOf(x)
      /\ Clashes(x, row.parent, row.name) = {}
  BY <1>2 DEF OrganizationInv, UnitsConsistent, set_rent_limit
<1>. HIDE DEF row
<1>4. TypeOKOrganization' /\ UnitsConsistent'
  BY <1>2, <1>3, UnitWritten DEF OrganizationInv
<1>5. planning' = planning
  BY DEF set_rent_limit
<1>. QED
  BY <1>4, <1>5 DEF OrganizationInv, FoundParent

\* Every step preserves the invariant.
LEMMA OrganizationStep ==
  ASSUME OrganizationInv, [NextOrganization]_organizationVars
  PROVE  OrganizationInv'
<1>1. CASE UNCHANGED organizationVars
  <2>1. units' = units /\ planning' = planning
    BY <1>1 DEF organizationVars
  <2>. QED
    BY <2>1, UnitsKept DEF OrganizationInv, FoundParent
<1>2. ASSUME NEW w \in Planner, crash_planner(w) PROVE OrganizationInv'
  BY <1>2, UnitsKept, OutPreserves DEF crash_planner
<1>3. CASE NextOrganization
  BY <1>2, <1>3, FindingPreserves, CreateUnitPreserves, RenameUnitPreserves,
     DeleteUnitPreserves, LimitPreserves DEF NextOrganization, LimitOfUnit
<1>. QED
  BY <1>1, <1>3

\* With rows that have their parents, the limit found for a branch is the one
\* of the first unit on the way up that has one.
LEMMA MostSpecificFirst == OrganizationInv => MostSpecificLimitApplies
<1>. SUFFICES ASSUME OrganizationInv, NEW b \in Branch \cap Present
              PROVE  LET area == units[b].parent
                         line == {b, area, units[area].parent}
                         limit == rent_limit_check(b)
                     IN  /\ \A x \in line :
                              /\ units[x].rent_limit \notin {NoLimit, 0}
                              /\ ~LimitedBelow(b, x)
                              => limit = units[x].rent_limit
                         /\ limit \in {NoLimit, 0}
                              => \A x \in line :
                                   units[x].rent_limit \in {NoLimit, 0}
  BY DEF MostSpecificLimitApplies
<1>. DEFINE area == units[b].parent  region == units[area].parent
<1>1. area \in Area \cap Present
  BY ParentTables DEF OrganizationInv, UnitsConsistent
<1>2. region \in Region
  BY <1>1, ParentTables DEF OrganizationInv, UnitsConsistent
<1>3. b # area /\ b # region /\ area # region
  BY <1>1, <1>2, OrganizationConstants
<1>4. rent_limit_check(b) =
        Or(units[b].rent_limit,
           Or(units[area].rent_limit, units[region].rent_limit))
  BY DEF rent_limit_check
<1>5. LimitedBelow(b, area) <=> units[b].rent_limit \notin {NoLimit, 0}
  BY <1>3 DEF LimitedBelow
<1>6. LimitedBelow(b, region) <=>
        \/ units[b].rent_limit \notin {NoLimit, 0}
        \/ units[area].rent_limit \notin {NoLimit, 0}
  BY <1>3 DEF LimitedBelow
<1>. HIDE DEF area, region
<1>7. /\ \A x \in {b, area, region} :
           /\ units[x].rent_limit \notin {NoLimit, 0}
           /\ ~LimitedBelow(b, x)
           => rent_limit_check(b) = units[x].rent_limit
      /\ rent_limit_check(b) \in {NoLimit, 0} =>
           \A x \in {b, area, region} : units[x].rent_limit \in {NoLimit, 0}
  BY <1>4, <1>5, <1>6 DEF Or
<1>. QED
  BY <1>7 DEF area, region

\* The invariant is one.
THEOREM OrganizationInvariant == SpecOrganization => []OrganizationInv
BY OrganizationInit, OrganizationStep, PTL DEF SpecOrganization

\* However checks and commits of regions, areas and branches interleave, the
\* constraints of the tables keep every row with its parent and keys unique.
THEOREM UnitsAlwaysConsistent == SpecOrganization => []UnitsConsistent
<1>1. OrganizationInv => UnitsConsistent
  BY DEF OrganizationInv
<1>. QED
  BY <1>1, OrganizationInvariant, PTL

\* PropertyService.rent_limit_check: the limit of the most specific unit that
\* has a positive one applies, and none only if no unit has one.
THEOREM MostSpecificAlwaysApplies ==
  SpecOrganization => []MostSpecificLimitApplies
BY MostSpecificFirst, OrganizationInvariant, PTL

-----------------------------------------------------------------------------
(* Sums over finite sets of rows.                                          *)

\* Induction over the natural numbers, for a set.
LEMMA EveryNumber ==
  ASSUME NEW A, 0 \in A, \A n \in Nat : n \in A => n + 1 \in A
  PROVE  \A n \in Nat : n \in A
<1>. SUFFICES ASSUME Nat \ A # {}
              PROVE  FALSE
  OBVIOUS
<1>1. PICK n \in Nat \ A : \A m \in Nat \ A : ~ (<<m, n>> \in OpToRel(<, Nat))
  BY NatLessThanWellFounded, WFMin, Zenon
<1>2. \A m \in Nat \ A : ~(m < n)
  BY <1>1 DEF OpToRel
<1>3. n # 0 /\ n - 1 \in Nat /\ n - 1 < n /\ (n - 1) + 1 = n
  OBVIOUS
<1>. QED
  BY <1>2, <1>3

Choice(T) == CHOOSE x \in T : TRUE

\* A function that adds up f over the subsets T of S with at most n elements.
Upto(S, n) == {T \in SUBSET S : Cardinality(T) <= n}

Adds(f, S, n, g) ==
  /\ g \in [Upto(S, n) -> Nat]
  /\ \A T \in Upto(S, n) :
       g[T] = IF T = {} THEN 0 ELSE f[Choice(T)] + g[T \ {Choice(T)}]

\* Every subset has at most as many elements as S; only one has none.
LEMMA AllUpto ==
  ASSUME NEW S, IsFiniteSet(S)
  PROVE  \A T \in SUBSET S : T \in Upto(S, Cardinality(S))
BY FS_Subset DEF Upto

\* Only the empty set has no element.
LEMMA OnlyEmpty ==
  ASSUME NEW S, IsFiniteSet(S), NEW T \in Upto(S, 0)
  PROVE  T = {}
<1>1. IsFiniteSet(T) /\ Cardinality(T) \in Nat /\ Cardinality(T) <= 0
  BY FS_Subset, FS_CardinalityType DEF Upto
<1>. QED
  BY <1>1, FS_EmptySet

\* Without one element a set is smaller by one.
LEMMA SmallerByOne ==
  ASSUME NEW S, IsFiniteSet(S), NEW n \in Nat, NEW T \in Upto(S, n + 1),
         NEW x \in T
  PROVE  T \ {x} \in Upto(S, n)
<1>1. IsFiniteSet(T) /\ Cardinality(T) \in Nat /\ Cardinality(T) <= n + 1
  BY FS_Subset, FS_CardinalityType DEF Upto
<1>2. Cardinality(T \ {x}) = Cardinality(T) - 1
  BY <1>1, FS_RemoveElement
<1>. QED
  BY <1>1, <1>2 DEF Upto

\* So is it without the element that the sum takes first.
LEMMA SmallerSet ==
  ASSUME NEW S, IsFiniteSet(S), NEW n \in Nat, NEW T \in Upto(S, n + 1), T # {}
  PROVE  /\ Choice(T) \in T /\ Choice(T) \in S
         /\ T \ {Choice(T)} \in Upto(S, n)
<1>1. Choice(T) \in T /\ T \subseteq S
  BY DEF Choice, Upto
<1>. QED
  BY <1>1, SmallerByOne

\* Over sets of any size there is a function that adds up f: over larger ones
\* it is defined from that over smaller ones.
LEMMA AddsExists ==
  ASSUME NEW S, IsFiniteSet(S), NEW f, \A x \in S : f[x] \in Nat
  PROVE  \A n \in Nat : \E g : Adds(f, S, n, g)
<1>. DEFINE A == {n \in Nat : \E g : Adds(f, S, n, g)}
<1>1. 0 \in A
  <2>. DEFINE g == [T \in Upto(S, 0) |-> 0]
  <2>1. \A T \in Upto(S, 0) : T = {}
    BY OnlyEmpty
  <2>2. Adds(f, S, 0, g)
    BY <2>1 DEF Adds
  <2>. QED
    BY <2>2
<1>2. ASSUME NEW n \in Nat, n \in A
      PROVE  n + 1 \in A
  <2>1. PICK g : Adds(f, S, n, g)
    BY <1>2
  <2>. DEFINE h == [T \in Upto(S, n + 1) |->
                     IF T = {} THEN 0 ELSE f[Choice(T)] + g[T \ {Choice(T)}]]
  <2>2. h \in [Upto(S, n + 1) -> Nat]
    <3>1. \A T \in Upto(S, n + 1) : T # {} =>
            f[Choice(T)] + g[T \ {Choice(T)}] \in Nat
      BY <2>1, SmallerSet DEF Adds
    <3>. QED
      BY <3>1
  <2>3. \A T \in Upto(S, n) : T \in Upto(S, n + 1) /\ h[T] = g[T]
    <3>. SUFFICES ASSUME NEW T \in Upto(S, n)
                  PROVE  T \in Upto(S, n + 1) /\ h[T] = g[T]
      OBVIOUS
    <3>1. T \in Upto(S, n + 1)
      <4>1. Cardinality(T) \in Nat /\ Cardinality(T) <= n
        BY FS_Subset, FS_CardinalityType DEF Upto
      <4>. QED
        BY <4>1 DEF Upto
    <3>. QED
      BY <2>1, <3>1 DEF Adds
  <2>4. \A T \in Upto(S, n + 1) : T # {} =>
          h[T \ {Choice(T)}] = g[T \ {Choice(T)}]
    BY <2>3, SmallerSet
  <2>5. Adds(f, S, n + 1, h)
    BY <2>2, <2>4 DEF Adds
  <2>. QED
    BY <2>5
<1>. HIDE DEF A
<1>3. \A n \in Nat : n \in A
  BY <1>1, <1>2, EveryNumber
<1>. QED
  BY <1>3 DEF A

\* The recursion of a sum over the subsets of S, and that it has one solution.
AddsUp(f, S, g) ==
  \A T \in SUBSET S :
    g[T] = IF T = {} THEN 0 ELSE f[Choice(T)] + g[T \ {Choice(T)}]

\* Only one function adds up f.
LEMMA OneSum ==
  ASSUME NEW S, IsFiniteSet(S), NEW f, NEW g, NEW h,
         AddsUp(f, S, g), AddsUp(f, S, h)
  PROVE  \A T \in SUBSET S : g[T] = h[T]
<1>. DEFINE A == {k \in Nat : \A T \in Upto(S, k) : g[T] = h[T]}
<1>1. 0 \in A
  <2>1. g[{}] = 0 /\ h[{}] = 0
    BY DEF AddsUp
  <2>. QED
    BY <2>1, OnlyEmpty
<1>2. ASSUME NEW k \in Nat, k \in A
      PROVE  k + 1 \in A
  <2>1. ASSUME NEW T \in Upto(S, k + 1)
        PROVE  g[T] = h[T]
    <3>1. T \in SUBSET S
      BY DEF Upto
    <3>2. CASE T = {}
      BY <3>1, <3>2 DEF AddsUp
    <3>3. CASE T # {}
      <4>1. T \ {Choice(T)} \in Upto(S, k)
        BY <3>3, SmallerSet
      <4>. QED
        BY <1>2, <3>1, <3>3, <4>1 DEF AddsUp
    <3>. QED
      BY <3>2, <3>3
  <2>. QED
    BY <2>1
<1>. HIDE DEF A
<1>3. Cardinality(S) \in A
  BY <1>1, <1>2, EveryNumber, FS_CardinalityType
<1>. QED
  BY <1>3, AllUpto DEF A

\* The function by which the sum over S is defined.
Adder(f, S) == CHOOSE g : g = [T \in SUBSET S |->
                IF T = {} THEN 0 ELSE f[Choice(T)] + g[T \ {Choice(T)}]]

\* The sum of the community module is that function.
LEMMA SumIsAdder ==
  ASSUME NEW S, NEW f
  PROVE  SumFunctionOnSet(f, S) = Adder(f, S)[S]
BY DEF SumFunctionOnSet, FoldFunctionOnSet, MapThenFoldSet, Adder, Choice

\* It exists, so the sum is what its recursive definition says.
LEMMA AdderAdds ==
  ASSUME NEW S, IsFiniteSet(S), NEW f, \A x \in S : f[x] \in Nat
  PROVE  Adder(f, S) \in [SUBSET S -> Nat] /\ AddsUp(f, S, Adder(f, S))
<1>1. PICK n \in Nat : n = Cardinality(S)
  BY FS_CardinalityType
<1>2. Upto(S, n) = SUBSET S
  BY <1>1, AllUpto DEF Upto
<1>3. PICK g : Adds(f, S, n, g)
  BY AddsExists
<1>4. g = [T \in SUBSET S |->
            IF T = {} THEN 0 ELSE f[Choice(T)] + g[T \ {Choice(T)}]]
  BY <1>2, <1>3 DEF Adds
<1>5. Adder(f, S) = [T \in SUBSET S |->
            IF T = {} THEN 0 ELSE f[Choice(T)] + Adder(f, S)[T \ {Choice(T)}]]
  BY <1>4 DEF Adder
<1>. DEFINE a == Adder(f, S)
<1>6. a = [T \in SUBSET S |->
            IF T = {} THEN 0 ELSE f[Choice(T)] + a[T \ {Choice(T)}]]
  BY <1>5
<1>. HIDE DEF a
<1>7. AddsUp(f, S, a) /\ AddsUp(f, S, g)
  BY <1>4, <1>6 DEF AddsUp
<1>8. \A T \in SUBSET S : a[T] = g[T]
  BY <1>7, OneSum
<1>9. a = g
  BY <1>4, <1>6, <1>8
<1>. QED
  BY <1>2, <1>3, <1>7, <1>9 DEF Adds, a

Summable(f, S) == IsFiniteSet(S) /\ \A x \in S : f[x] \in Nat

\* A sum of natural numbers is one.
LEMMA SumType ==
  ASSUME NEW S, NEW f, Summable(f, S)
  PROVE  SumFunctionOnSet(f, S) \in Nat
BY AdderAdds, SumIsAdder DEF Summable

\* The sum over the empty set.
LEMMA SumEmpty ==
  ASSUME NEW f
  PROVE  SumFunctionOnSet(f, {}) = 0
<1>1. AddsUp(f, {}, Adder(f, {}))
  BY AdderAdds, FS_EmptySet
<1>. QED
  BY <1>1, SumIsAdder DEF AddsUp

\* The sum over a set, by the element its definition chooses ...
LEMMA SumChoice ==
  ASSUME NEW S, NEW f, Summable(f, S), S # {}
  PROVE  SumFunctionOnSet(f, S)
           = f[Choice(S)] + SumFunctionOnSet(f, S \ {Choice(S)})
<1>. DEFINE T == S \ {Choice(S)}
<1>1. IsFiniteSet(T) /\ T \in SUBSET S
  BY FS_Subset DEF Summable
<1>2. AddsUp(f, S, Adder(f, S)) /\ AddsUp(f, T, Adder(f, T))
  BY <1>1, AdderAdds DEF Summable
<1>3. AddsUp(f, T, Adder(f, S))
  BY <1>1, <1>2 DEF AddsUp
<1>4. Adder(f, S)[T] = Adder(f, T)[T]
  BY <1>1, <1>2, <1>3, OneSum
<1>5. Adder(f, S)[S] = f[Choice(S)] + Adder(f, S)[T]
  BY <1>2 DEF AddsUp
<1>. QED
  BY <1>4, <1>5, SumIsAdder

\* ... and by any element.
LEMMA SumRemove ==
  ASSUME NEW S, NEW f, Summable(f, S), NEW x \in S
  PROVE  SumFunctionOnSet(f, S) = f[x] + SumFunctionOnSet(f, S \ {x})
<1>. DEFINE A == {k \in Nat : \A T \in Upto(S, k) : \A y \in T :
                    SumFunctionOnSet(f, T)
                      = f[y] + SumFunctionOnSet(f, T \ {y})}
<1>1. \A T \in SUBSET S : Summable(f, T)
  BY FS_Subset DEF Summable
<1>2. 0 \in A
  BY OnlyEmpty DEF Summable
<1>3. ASSUME NEW k \in Nat, k \in A
      PROVE  k + 1 \in A
  <2>1. ASSUME NEW T \in Upto(S, k + 1), NEW y \in T
        PROVE  SumFunctionOnSet(f, T) = f[y] + SumFunctionOnSet(f, T \ {y})
    <3>1. T \in SUBSET S /\ IsFiniteSet(T) /\ Summable(f, T)
      BY <1>1, FS_Subset DEF Upto, Summable
    <3>. DEFINE c == Choice(T)
    <3>2. /\ c \in T
          /\ SumFunctionOnSet(f, T) = f[c] + SumFunctionOnSet(f, T \ {c})
      BY <3>1, SumChoice DEF Choice
    <3>. HIDE DEF c
    <3>3. CASE y = c
      BY <3>2, <3>3
    <3>4. CASE y # c
      <4>1. T \ {y} \in Upto(S, k) /\ T \ {c} \in Upto(S, k)
        <5>1. IsFiniteSet(S) /\ c \in T /\ y \in T
          BY <3>2 DEF Summable
        <5>2. \A z \in T : T \ {z} \in Upto(S, k)
          BY <5>1, SmallerByOne
        <5>. QED
          BY <5>1, <5>2
      <4>2. SumFunctionOnSet(f, T \ {c})
              = f[y] + SumFunctionOnSet(f, (T \ {c}) \ {y})
        BY <1>3, <3>2, <3>4, <4>1
      <4>3. SumFunctionOnSet(f, T \ {y})
              = f[c] + SumFunctionOnSet(f, (T \ {y}) \ {c})
        BY <1>3, <3>2, <3>4, <4>1
      <4>4. (T \ {c}) \ {y} = (T \ {y}) \ {c}
        OBVIOUS
      <4>5. PICK s \in Nat : s = SumFunctionOnSet(f, (T \ {c}) \ {y})
        <5>1. Summable(f, (T \ {c}) \ {y})
          BY <1>1, <3>1
        <5>. QED
          BY <5>1, SumType
      <4>6. f[y] \in Nat /\ f[c] \in Nat
        BY <3>1, <3>2 DEF Summable
      <4>7. /\ SumFunctionOnSet(f, T) = f[c] + (f[y] + s)
            /\ f[y] + SumFunctionOnSet(f, T \ {y}) = f[y] + (f[c] + s)
        BY <3>2, <4>2, <4>3, <4>4, <4>5
      <4>8. f[c] + (f[y] + s) = f[y] + (f[c] + s)
        BY <4>6
      <4>. QED
        BY <4>7, <4>8
    <3>. QED
      BY <3>3, <3>4
  <2>. QED
    BY <2>1
<1>. HIDE DEF A
<1>4. Cardinality(S) \in A
  BY <1>2, <1>3, EveryNumber, FS_CardinalityType DEF Summable
<1>. QED
  BY <1>4, AllUpto DEF A, Summable

\* An element more.
LEMMA SumAdd ==
  ASSUME NEW S, NEW x, x \notin S, NEW f, Summable(f, S \cup {x})
  PROVE  SumFunctionOnSet(f, S \cup {x}) = f[x] + SumFunctionOnSet(f, S)
<1>. DEFINE T == S \cup {x}
<1>1. T \ {x} = S /\ x \in T /\ Summable(f, T)
  OBVIOUS
<1>. HIDE DEF T
<1>2. SumFunctionOnSet(f, T) = f[x] + SumFunctionOnSet(f, T \ {x})
  BY <1>1, SumRemove
<1>. QED
  BY <1>1, <1>2 DEF T

\* A sum depends on the values it adds up, and grows with them.
LEMMA SumMonotone ==
  ASSUME NEW S, NEW f, NEW g, Summable(f, S), Summable(g, S),
         \A x \in S : f[x] <= g[x]
  PROVE  SumFunctionOnSet(f, S) <= SumFunctionOnSet(g, S)
<1>. DEFINE A == {k \in Nat : \A T \in Upto(S, k) :
                    SumFunctionOnSet(f, T) <= SumFunctionOnSet(g, T)}
<1>1. \A T \in SUBSET S : Summable(f, T) /\ Summable(g, T)
  BY FS_Subset DEF Summable
<1>2. 0 \in A
  <2>1. \A T \in Upto(S, 0) : T = {}
    BY OnlyEmpty DEF Summable
  <2>2. SumFunctionOnSet(f, {}) = 0 /\ SumFunctionOnSet(g, {}) = 0
    BY SumEmpty
  <2>. QED
    BY <2>1, <2>2
<1>3. ASSUME NEW k \in Nat, k \in A
      PROVE  k + 1 \in A
  <2>1. ASSUME NEW T \in Upto(S, k + 1)
        PROVE  SumFunctionOnSet(f, T) <= SumFunctionOnSet(g, T)
    <3>1. T \in SUBSET S
      BY DEF Upto
    <3>2. CASE T = {}
      BY <3>2, SumEmpty
    <3>3. CASE T # {}
      <4>1. PICK c \in T : TRUE
        BY <3>3
      <4>2. T \ {c} \in Upto(S, k) /\ T \ {c} \in SUBSET S
        BY <3>1, SmallerByOne DEF Summable
      <4>3. /\ SumFunctionOnSet(f, T \ {c}) <= SumFunctionOnSet(g, T \ {c})
            /\ SumFunctionOnSet(f, T \ {c}) \in Nat
            /\ SumFunctionOnSet(g, T \ {c}) \in Nat
        BY <1>1, <1>3, <4>2, SumType
      <4>4. /\ SumFunctionOnSet(f, T) = f[c] + SumFunctionOnSet(f, T \ {c})
            /\ SumFunctionOnSet(g, T) = g[c] + SumFunctionOnSet(g, T \ {c})
        BY <1>1, <3>1, SumRemove
      <4>5. f[c] \in Nat /\ g[c] \in Nat /\ f[c] <= g[c]
        BY <3>1 DEF Summable
      <4>. QED
        BY <4>3, <4>4, <4>5
    <3>. QED
      BY <3>2, <3>3
  <2>. QED
    BY <2>1
<1>. HIDE DEF A
<1>4. Cardinality(S) \in A
  BY <1>2, <1>3, EveryNumber, FS_CardinalityType DEF Summable
<1>. QED
  BY <1>4, AllUpto DEF A, Summable

\* The same values give the same sum.
LEMMA SumSame ==
  ASSUME NEW S, NEW f, NEW g, Summable(f, S), \A x \in S : f[x] = g[x]
  PROVE  SumFunctionOnSet(f, S) = SumFunctionOnSet(g, S)
<1>1. /\ Summable(g, S)
      /\ \A x \in S : f[x] <= g[x] /\ g[x] <= f[x]
  BY DEF Summable
<1>2. /\ SumFunctionOnSet(f, S) <= SumFunctionOnSet(g, S)
      /\ SumFunctionOnSet(g, S) <= SumFunctionOnSet(f, S)
      /\ SumFunctionOnSet(f, S) \in Nat /\ SumFunctionOnSet(g, S) \in Nat
  BY <1>1, SumMonotone, SumType
<1>. QED
  BY <1>2

\* Values up to c add up to no more than c times their number.
LEMMA SumBound ==
  ASSUME NEW S, NEW f, Summable(f, S), NEW c \in Nat, \A x \in S : f[x] <= c
  PROVE  SumFunctionOnSet(f, S) <= Cardinality(S) * c
<1>. DEFINE A == {k \in Nat : \A T \in Upto(S, k) :
                    SumFunctionOnSet(f, T) <= Cardinality(T) * c}
<1>1. \A T \in SUBSET S : /\ Summable(f, T)
                          /\ IsFiniteSet(T)
                          /\ Cardinality(T) \in Nat
  BY FS_Subset, FS_CardinalityType DEF Summable
<1>2. SumFunctionOnSet(f, {}) = 0 /\ Cardinality({}) * c = 0
  BY SumEmpty, FS_EmptySet
<1>3. 0 \in A
  <2>1. \A T \in Upto(S, 0) : T = {}
    BY OnlyEmpty DEF Summable
  <2>. QED
    BY <1>2, <2>1
<1>4. ASSUME NEW k \in Nat, k \in A
      PROVE  k + 1 \in A
  <2>1. ASSUME NEW T \in Upto(S, k + 1)
        PROVE  SumFunctionOnSet(f, T) <= Cardinality(T) * c
    <3>1. T \in SUBSET S
      BY DEF Upto
    <3>2. CASE T = {}
      BY <1>2, <3>2
    <3>3. CASE T # {}
      <4>1. PICK x \in T : TRUE
        BY <3>3
      <4>2. T \ {x} \in Upto(S, k) /\ T \ {x} \in SUBSET S
        BY <3>1, SmallerByOne DEF Summable
      <4>3. PICK m \in Nat : m = Cardinality(T \ {x})
        BY <1>1, <4>2
      <4>4. Cardinality(T) = m + 1
        BY <1>1, <3>1, <4>3, FS_RemoveElement
      <4>5. PICK s \in Nat : s = SumFunctionOnSet(f, T \ {x})
        BY <1>1, <4>2, SumType
      <4>6. s <= m * c
        BY <1>4, <4>2, <4>3, <4>5
      <4>7. SumFunctionOnSet(f, T) = f[x] + s
        BY <1>1, <3>1, <4>5, SumRemove
      <4>8. f[x] \in Nat /\ f[x] <= c
        BY <3>1 DEF Summable
      <4>9. (m + 1) * c = m * c + c /\ m * c \in Nat
        OBVIOUS
      <4>. QED
        BY <4>4, <4>6, <4>7, <4>8, <4>9
    <3>. QED
      BY <3>2, <3>3
  <2>. QED
    BY <2>1
<1>. HIDE DEF A
<1>5. Cardinality(S) \in A
  BY <1>3, <1>4, EveryNumber, FS_CardinalityType DEF Summable
<1>. QED
  BY <1>5, AllUpto DEF A, Summable

-----------------------------------------------------------------------------
(* Deposits: that their rows are well formed.                              *)

Payee == [amount : Amount, status : PayeeStatus]
DepositPayment == [payee : DOMAIN payees, amount : Amount]

\* What a teller may be doing: a payment names a payee that is there.
Visitor ==
  {AtCounter}
    \cup [pc : {"payee"}, amount : Amount]
    \cup [pc : {"pay"}, payee : DOMAIN payees, amount : Amount,
          loaded : PayeeStatus, status : {"PAID", "APPROVED"}]
    \cup [pc : {"flushed"}, payee : DOMAIN payees, amount : Amount,
          loaded : PayeeStatus, status : {"PAID", "APPROVED"},
          deposit : DepositStatus \cup {"NULL"},
          new : {"PAID", "PARTIALLY_PAID"}]

DepositsInv == TypeOKDeposits /\ telling \in [Teller -> Visitor]

-----------------------------------------------------------------------------
\* The rows, with their types by name.
LEMMA DepositRows ==
  TypeOKDeposits <=> /\ deposit \in DepositStatus \cup {"NULL"}
                     /\ payees \in Seq(Payee)
                     /\ payments \in Seq(DepositPayment)
BY DEF TypeOKDeposits, Payee, DepositPayment

\* A sequence of some elements is one of more.
LEMMA SeqWidens ==
  ASSUME NEW S, NEW T, S \subseteq T, NEW seq \in Seq(S)
  PROVE  seq \in Seq(T)
OBVIOUS

\* Initially there is no deposit.
LEMMA DepositsInit == InitDeposits => DepositsInv
BY DEF InitDeposits, DepositsInv, TypeOKDeposits, Visitor, AtCounter

\* A step of one teller that removes no payee.
LEMMA TellerStep ==
  ASSUME DepositsInv, TypeOKDeposits', DOMAIN payees \subseteq DOMAIN payees',
         NEW w \in Teller, NEW t \in Visitor',
         telling' = [telling EXCEPT ![w] = t]
  PROVE  DepositsInv'
<1>1. telling \in [Teller -> Visitor]
  BY DEF DepositsInv
<1>2. Visitor \subseteq Visitor'
  BY DEF Visitor
<1>. QED
  BY <1>1, <1>2 DEF DepositsInv

\* A teller that is done.
LEMMA ServedStep ==
  ASSUME DepositsInv, TypeOKDeposits', DOMAIN payees \subseteq DOMAIN payees',
         NEW w \in Teller, Served(w)
  PROVE  DepositsInv'
<1>1. AtCounter \in Visitor'
  BY DEF Visitor
<1>. QED
  BY <1>1, TellerStep DEF Served

\* Steps that commit nothing.
LEMMA TellingPreserves ==
  ASSUME DepositsInv, NEW w \in Teller,
         \/ \E a \in Amount : begin_payee(w, a)
         \/ \E p \in DOMAIN payees, a \in Amount : begin_payment(w, p, a)
         \/ flush_payment(w)
         \/ crash_teller(w)
  PROVE  DepositsInv'
<1>0. UNCHANGED <<deposit, payees, payments>> => TypeOKDeposits' /\ Visitor' = Visitor
  BY DEF DepositsInv, TypeOKDeposits, Visitor
<1>1. ASSUME NEW a \in Amount, begin_payee(w, a) PROVE DepositsInv'
  <2>. DEFINE t == [pc |-> "payee", amount |-> a]
  <2>1. telling' = [telling EXCEPT ![w] = t] /\ t \in Visitor
        /\ UNCHANGED <<deposit, payees, payments>>
    BY <1>1 DEF begin_payee, Visitor
  <2>. QED
    BY <1>0, <2>1, TellerStep
<1>2. ASSUME NEW p \in DOMAIN payees, NEW a \in Amount, begin_payment(w, p, a)
      PROVE  DepositsInv'
  <2>. DEFINE status == IF PaidTo(p) + a >= payees[p].amount
                          THEN "PAID" ELSE "APPROVED"
              t == [pc |-> "pay", payee |-> p, amount |-> a,
                    loaded |-> payees[p].status, status |-> status]
  <2>1. telling' = [telling EXCEPT ![w] = t]
        /\ UNCHANGED <<deposit, payees, payments>>
    BY <1>2 DEF begin_payment
  <2>2. payees[p] \in Payee
    <3>1. payees \in Seq(Payee)
      BY DepositRows DEF DepositsInv
    <3>. QED
      BY <3>1
  <2>3. status \in {"PAID", "APPROVED"}
    OBVIOUS
  <2>. HIDE DEF status
  <2>4. t \in Visitor
    BY <2>2, <2>3 DEF Visitor, Payee
  <2>. QED
    BY <1>0, <2>1, <2>4, TellerStep
<1>3. ASSUME flush_payment(w) PROVE DepositsInv'
  <2>. DEFINE s == telling[w]
              new == IF Total <= deposit_paid_total + s.amount
                       THEN "PAID" ELSE "PARTIALLY_PAID"
              t == [pc |-> "flushed", payee |-> s.payee, amount |-> s.amount,
                    loaded |-> s.loaded, status |-> s.status,
                    deposit |-> deposit, new |-> new]
  <2>1. telling' = [telling EXCEPT ![w] = t]
        /\ UNCHANGED <<deposit, payees, payments>>
    BY <1>3 DEF flush_payment
  <2>2. s \in [pc : {"pay"}, payee : DOMAIN payees, amount : Amount,
               loaded : PayeeStatus, status : {"PAID", "APPROVED"}]
    BY <1>3 DEF DepositsInv, Visitor, AtCounter, flush_payment, Telling
  <2>3. new \in {"PAID", "PARTIALLY_PAID"}
    OBVIOUS
  <2>4. deposit \in DepositStatus \cup {"NULL"}
    BY DEF DepositsInv, TypeOKDeposits
  <2>. HIDE DEF s, new
  <2>5. t \in Visitor
    BY <2>2, <2>3, <2>4 DEF Visitor
  <2>. QED
    BY <1>0, <2>1, <2>5, TellerStep
<1>4. ASSUME crash_teller(w) PROVE DepositsInv'
  BY <1>0, <1>4, ServedStep DEF crash_teller
<1>. QED
  BY <1>1, <1>2, <1>3, <1>4

\* A payee is committed.
LEMMA CommitPayeePreserves ==
  ASSUME DepositsInv, NEW w \in Teller, commit_payee(w)
  PROVE  DepositsInv'
<1>. DEFINE row == [amount |-> telling[w].amount, status |-> "PENDING"]
<1>1. telling[w] \in [pc : {"payee"}, amount : Amount]
  BY DEF DepositsInv, Visitor, AtCounter, commit_payee, Telling
<1>2. row \in Payee
  BY <1>1 DEF Payee, PayeeStatus
<1>3. payees' = Append(payees, row) /\ UNCHANGED <<deposit, payments>>
      /\ Served(w)
  BY DEF commit_payee
<1>4. /\ payees \in Seq(Payee)
      /\ payments \in Seq(DepositPayment)
      /\ deposit \in DepositStatus \cup {"NULL"}
  BY DepositRows DEF DepositsInv
<1>. HIDE DEF row
<1>5. /\ payees' \in Seq(Payee)
      /\ DOMAIN payees \subseteq DOMAIN payees'
  BY <1>2, <1>3, <1>4
<1>6. payments \in Seq(DepositPayment')
  <2>1. DepositPayment \subseteq DepositPayment'
    BY <1>5 DEF DepositPayment
  <2>. QED
    BY <1>4, <2>1, SeqWidens
<1>7. TypeOKDeposits'
  <2>1. /\ deposit' \in DepositStatus \cup {"NULL"}
        /\ payees' \in Seq(Payee) /\ payments' \in Seq(DepositPayment')
    BY <1>3, <1>4, <1>5, <1>6
  <2>2. (TypeOKDeposits <=> /\ deposit \in DepositStatus \cup {"NULL"}
                            /\ payees \in Seq(Payee)
                            /\ payments \in Seq(DepositPayment))'
    BY DepositRows, PTL
  <2>. QED
    BY <2>1, <2>2
<1>. QED
  BY <1>3, <1>5, <1>7, ServedStep

\* A payment is committed, with the statuses of payee and deposit.
LEMMA CommitPaymentPreserves ==
  ASSUME DepositsInv, NEW w \in Teller, commit_payment(w)
  PROVE  DepositsInv'
<1>. DEFINE t == telling[w]
            payment == [payee |-> t.payee, amount |-> t.amount]
            row == [payees[t.payee] EXCEPT
                      !.status = Kept(payees[t.payee].status, t.loaded, t.status)]
<1>1. t \in [pc : {"flushed"}, payee : DOMAIN payees, amount : Amount,
             loaded : PayeeStatus, status : {"PAID", "APPROVED"},
             deposit : DepositStatus \cup {"NULL"},
             new : {"PAID", "PARTIALLY_PAID"}]
  BY DEF DepositsInv, Visitor, AtCounter, commit_payment, Telling
<1>2. /\ payees \in Seq(Payee)
      /\ payments \in Seq(DepositPayment)
      /\ deposit \in DepositStatus \cup {"NULL"}
      /\ t.payee \in 1..Len(payees)
  BY <1>1, DepositRows DEF DepositsInv
<1>3. row \in Payee
  <2>1. payees[t.payee] \in Payee
    BY <1>2
  <2>. QED
    BY <1>1, <2>1 DEF Kept, Payee, PayeeStatus
<1>4. payment \in DepositPayment
  BY <1>1 DEF DepositPayment
<1>5. /\ payments' = Append(payments, payment)
      /\ payees' = [payees EXCEPT ![t.payee] = row]
      /\ deposit' = Kept(deposit, t.deposit, t.new)
      /\ Served(w)
  BY <1>2 DEF commit_payment
<1>6. deposit' \in DepositStatus \cup {"NULL"}
  BY <1>1, <1>2, <1>5 DEF Kept, DepositStatus
<1>. HIDE DEF row, payment, t
<1>7. /\ payees' \in Seq(Payee)
      /\ DOMAIN payees' = DOMAIN payees
  BY <1>2, <1>3, <1>5, ExceptSeq
<1>8. payments' \in Seq(DepositPayment')
  <2>1. DepositPayment' = DepositPayment
    BY <1>7 DEF DepositPayment
  <2>. QED
    BY <1>2, <1>4, <1>5, <2>1
<1>9. TypeOKDeposits'
  <2>1. (TypeOKDeposits <=> /\ deposit \in DepositStatus \cup {"NULL"}
                            /\ payees \in Seq(Payee)
                            /\ payments \in Seq(DepositPayment))'
    BY DepositRows, PTL
  <2>. QED
    BY <1>6, <1>7, <1>8, <2>1
<1>. QED
  BY <1>5, <1>7, <1>9, ServedStep

\* Every step preserves the types.
LEMMA DepositsStep ==
  ASSUME DepositsInv, [NextDeposits]_depositVars
  PROVE  DepositsInv'
<1>1. CASE UNCHANGED depositVars
  BY <1>1 DEF depositVars, DepositsInv, TypeOKDeposits, Visitor
<1>2. CASE create_deposit
  BY <1>2 DEF create_deposit, DepositsInv, TypeOKDeposits, Visitor,
     DepositStatus
<1>3. CASE NextDeposits
  BY <1>2, <1>3, TellingPreserves, CommitPayeePreserves,
     CommitPaymentPreserves DEF NextDeposits
<1>. QED
  BY <1>1, <1>3

-----------------------------------------------------------------------------
(* Deposits: what is allocated and paid.                                   *)

\* The amounts of some of the rows of a table, or of some of the tellers.
SumBy(rows, R) == SumFunctionOnSet([r \in R |-> rows[r].amount], R)

HasAmounts(rows, R) == IsFiniteSet(R) /\ \A r \in R : rows[r].amount \in Nat

\* What one of them contributes.
Share(rows, R, r) == IF r \in R THEN rows[r].amount ELSE 0

\* Amounts can be added up.
LEMMA AmountsSummable ==
  ASSUME NEW rows, NEW R, HasAmounts(rows, R)
  PROVE  Summable([r \in R |-> rows[r].amount], R)
BY DEF HasAmounts, Summable

\* Their sum is a number.
LEMMA SumByType ==
  ASSUME NEW rows, NEW R, HasAmounts(rows, R)
  PROVE  SumBy(rows, R) \in Nat
BY AmountsSummable, SumType DEF SumBy

\* It depends on the amounts alone.
LEMMA SumBySame ==
  ASSUME NEW rows, NEW other, NEW R, HasAmounts(rows, R),
         \A r \in R : other[r].amount = rows[r].amount
  PROVE  SumBy(other, R) = SumBy(rows, R)
<1>1. [r \in R |-> rows[r].amount] = [r \in R |-> other[r].amount]
  OBVIOUS
<1>. QED
  BY <1>1 DEF SumBy

\* It is the share of one row and the sum over the others.
LEMMA SumByShare ==
  ASSUME NEW rows, NEW R, HasAmounts(rows, R), NEW r
  PROVE  /\ HasAmounts(rows, R \ {r})
         /\ Share(rows, R, r) \in Nat
         /\ SumBy(rows, R \ {r}) \in Nat
         /\ SumBy(rows, R) = Share(rows, R, r) + SumBy(rows, R \ {r})
<1>. DEFINE f == [x \in R |-> rows[x].amount]
            g == [x \in R \ {r} |-> rows[x].amount]
<1>1. HasAmounts(rows, R \ {r})
  BY FS_Subset DEF HasAmounts
<1>2. Share(rows, R, r) \in Nat /\ SumBy(rows, R \ {r}) \in Nat
  BY <1>1, SumByType DEF Share, HasAmounts
<1>3. CASE r \in R
  <2>1. Summable(f, R) /\ Summable(g, R \ {r})
    BY <1>1, AmountsSummable
  <2>2. \A x \in R \ {r} : g[x] = f[x]
    OBVIOUS
  <2>3. f[r] = rows[r].amount
    BY <1>3
  <2>4. SumBy(rows, R) = SumFunctionOnSet(f, R)
        /\ SumBy(rows, R \ {r}) = SumFunctionOnSet(g, R \ {r})
    BY DEF SumBy
  <2>. HIDE DEF f, g
  <2>5. SumFunctionOnSet(f, R) = f[r] + SumFunctionOnSet(f, R \ {r})
    BY <1>3, <2>1, SumRemove
  <2>6. SumFunctionOnSet(g, R \ {r}) = SumFunctionOnSet(f, R \ {r})
    BY <2>1, <2>2, SumSame
  <2>. QED
    BY <1>1, <1>2, <1>3, <2>3, <2>4, <2>5, <2>6 DEF Share
<1>4. CASE r \notin R
  <2>1. R \ {r} = R
    BY <1>4
  <2>. QED
    BY <1>1, <1>2, <1>4, <2>1 DEF Share
<1>. QED
  BY <1>3, <1>4

\* It is at most the number of rows times their largest amount.
LEMMA SumByBound ==
  ASSUME NEW rows, NEW R, HasAmounts(rows, R), NEW c \in Nat,
         \A r \in R : rows[r].amount <= c
  PROVE  SumBy(rows, R) <= Cardinality(R) * c
<1>. DEFINE f == [x \in R |-> rows[x].amount]
<1>1. Summable(f, R) /\ \A x \in R : f[x] <= c
  BY AmountsSummable
<1>2. SumBy(rows, R) = SumFunctionOnSet(f, R)
  BY DEF SumBy
<1>. HIDE DEF f
<1>. QED
  BY <1>1, <1>2, SumBound

\* The sums of the specification.
Paying(p) == {w \in Telling("pay") \cup Telling("flushed") :
                telling[w].payee = p}

\* The sums of the specification are of that kind.
LEMMA SumsByTable ==
  ASSUME DepositsInv
  PROVE  /\ HasAmounts(payees, DOMAIN payees)
         /\ HasAmounts(payments, DOMAIN payments)
         /\ \A p : HasAmounts(payments, PaymentsTo(p))
         /\ HasAmounts(telling, Telling("payee"))
         /\ \A p : HasAmounts(telling, Paying(p))
         /\ Allocated = SumBy(payees, DOMAIN payees)
         /\ deposit_paid_total = SumBy(payments, DOMAIN payments)
         /\ \A p : PaidTo(p) = SumBy(payments, PaymentsTo(p))
         /\ \A W : InFlight(W) = SumBy(telling, W)
<1>1. /\ payees \in Seq(Payee) /\ payments \in Seq(DepositPayment)
      /\ telling \in [Teller -> Visitor]
  BY DepositRows DEF DepositsInv
<1>2. /\ DOMAIN payees = 1..Len(payees) /\ Len(payees) \in Nat
      /\ DOMAIN payments = 1..Len(payments) /\ Len(payments) \in Nat
      /\ \A p \in DOMAIN payees : payees[p].amount \in Nat
      /\ \A k \in DOMAIN payments : payments[k].amount \in Nat
  <2>1. /\ DOMAIN payees = 1..Len(payees) /\ Len(payees) \in Nat
        /\ DOMAIN payments = 1..Len(payments) /\ Len(payments) \in Nat
        /\ \A p \in DOMAIN payees : payees[p] \in Payee
        /\ \A k \in DOMAIN payments : payments[k] \in DepositPayment
    BY <1>1
  <2>. QED
    BY <2>1, DepositConstants DEF Payee, DepositPayment
<1>3. IsFiniteSet(DOMAIN payees) /\ IsFiniteSet(DOMAIN payments)
  <2>1. \A n \in Nat : IsFiniteSet(1..n)
    BY FS_Interval
  <2>2. \E m, n \in Nat : DOMAIN payees = 1..m /\ DOMAIN payments = 1..n
    BY <1>2
  <2>. QED
    BY <2>1, <2>2
<1>4. HasAmounts(payees, DOMAIN payees) /\ HasAmounts(payments, DOMAIN payments)
  BY <1>2, <1>3 DEF HasAmounts
<1>5. \A p : PaymentsTo(p) \subseteq DOMAIN payments
             /\ HasAmounts(payments, PaymentsTo(p))
  BY <1>2, <1>3, FS_Subset DEF HasAmounts, PaymentsTo
<1>6. ASSUME NEW w \in Teller, telling[w].pc \in {"payee", "pay", "flushed"}
      PROVE  telling[w].amount \in Nat
  <2>1. telling[w] \in Visitor \ {AtCounter}
    BY <1>1, <1>6 DEF AtCounter
  <2>. QED
    BY <2>1, DepositConstants DEF Visitor
<1>7. /\ HasAmounts(telling, Telling("payee"))
      /\ \A p : HasAmounts(telling, Paying(p))
  <2>1. \A w \in Telling("payee") :
          w \in Teller /\ telling[w].pc \in {"payee", "pay", "flushed"}
    BY DEF Telling
  <2>2. \A p : \A w \in Paying(p) :
          w \in Teller /\ telling[w].pc \in {"payee", "pay", "flushed"}
    BY DEF Telling, Paying
  <2>. QED
    BY <1>6, <2>1, <2>2, FS_Subset, DepositConstants DEF HasAmounts
<1>8. Allocated = SumBy(payees, DOMAIN payees)
      /\ deposit_paid_total = SumBy(payments, DOMAIN payments)
  <2>1. DOMAIN Amounts(payees) = DOMAIN payees
        /\ DOMAIN Amounts(payments) = DOMAIN payments
    BY DEF Amounts
  <2>2. Allocated = SumFunctionOnSet(Amounts(payees), DOMAIN payees)
        /\ deposit_paid_total
             = SumFunctionOnSet(Amounts(payments), DOMAIN payments)
    BY <2>1 DEF Allocated, deposit_paid_total, SumFunction
  <2>. QED
    BY <2>2 DEF Amounts, SumBy
<1>9. \A W : InFlight(W) = SumBy(telling, W)
  BY DEF InFlight, SumFunction, SumBy
<1>10. ASSUME NEW p
       PROVE  PaidTo(p) = SumBy(payments, PaymentsTo(p))
  <2>. DEFINE R == PaymentsTo(p)
              f == [k \in R |-> payments[k].amount]
              g == Amounts(payments)
  <2>1. Summable(f, R)
    BY <1>5, AmountsSummable
  <2>2. \A k \in R : f[k] = g[k]
    BY <1>5 DEF Amounts
  <2>3. PaidTo(p) = SumFunctionOnSet(g, R)
        /\ SumBy(payments, R) = SumFunctionOnSet(f, R)
    BY DEF PaidTo, SumBy
  <2>. HIDE DEF f, g, R
  <2>4. SumFunctionOnSet(f, R) = SumFunctionOnSet(g, R)
    BY <2>1, <2>2, SumSame
  <2>. QED
    BY <2>3, <2>4 DEF R
<1>. QED
  BY <1>4, <1>5, <1>7, <1>8, <1>9, <1>10

-----------------------------------------------------------------------------
(* The bounds, of any rows and tellers. *)

\* The tellers that are about to commit a payee, or a payment to payee p, and
\* the payments to it.
Offering(all) == {w \in Teller : all[w].pc = "payee"}

Pays(t) == t.pc \in {"pay", "flushed"}

PayingTo(all, p) == {w \in Teller : Pays(all[w]) /\ all[w].payee = p}

To(rows, p) == {k \in DOMAIN rows : rows[k].payee = p}

BooksOK(pe, pm, all) ==
  /\ HasAmounts(pe, DOMAIN pe)
  /\ HasAmounts(pm, DOMAIN pm)
  /\ \A k \in DOMAIN pm : pm[k].payee \in DOMAIN pe
  /\ DOMAIN all = Teller
  /\ \A w \in Teller :
       /\ all[w].pc = "payee" => all[w].amount \in Nat
       /\ Pays(all[w]) => all[w].amount \in Nat /\ all[w].payee \in DOMAIN pe

\* Each teller has checked its amount against the limit, and so the sums are
\* bounded by the limit and the number of tellers.
Bounded(pe, pm, all) ==
  LET n == Cardinality(Teller)
  IN  /\ \A w \in Teller :
           /\ all[w].pc = "payee" => all[w].amount <= Total
           /\ Pays(all[w]) => all[w].amount <= pe[all[w].payee].amount
      /\ SumBy(pe, DOMAIN pe) + SumBy(all, Offering(all)) <= n * Total
      /\ \A p \in DOMAIN pe :
           SumBy(pm, To(pm, p)) + SumBy(all, PayingTo(all, p))
             <= n * pe[p].amount

\* So are the sums over some of the rows or tellers.
LEMMA SumsHaveAmounts ==
  ASSUME NEW pe, NEW pm, NEW all, BooksOK(pe, pm, all)
  PROVE  /\ HasAmounts(all, Offering(all))
         /\ \A p : HasAmounts(all, PayingTo(all, p)) /\ HasAmounts(pm, To(pm, p))
<1>1. Offering(all) \subseteq Teller
      /\ \A p : PayingTo(all, p) \subseteq Teller /\ To(pm, p) \subseteq DOMAIN pm
  BY DEF Offering, PayingTo, To
<1>2. IsFiniteSet(Teller) /\ IsFiniteSet(DOMAIN pm)
  BY DepositConstants DEF BooksOK, HasAmounts
<1>3. /\ \A w \in Offering(all) : all[w].amount \in Nat
      /\ \A p : \A w \in PayingTo(all, p) : all[w].amount \in Nat
      /\ \A p : \A k \in To(pm, p) : pm[k].amount \in Nat
  BY DEF BooksOK, HasAmounts, Offering, PayingTo, To
<1>. QED
  BY <1>1, <1>2, <1>3, FS_Subset DEF HasAmounts

\* The others leave room for one limit.
LEMMA RoomForOne ==
  ASSUME NEW all, NEW w \in Teller, NEW G \in SUBSET (Teller \ {w}),
         HasAmounts(all, G), NEW c \in Nat, \A v \in G : all[v].amount <= c
  PROVE  SumBy(all, G) + c <= Cardinality(Teller) * c
<1>1. IsFiniteSet(Teller \ {w}) /\ Cardinality(Teller) \in Nat
      /\ Cardinality(Teller \ {w}) = Cardinality(Teller) - 1
      /\ Cardinality(Teller \ {w}) \in Nat
  BY DepositConstants, FS_RemoveElement, FS_CardinalityType
<1>2. PICK m \in Nat : m = Cardinality(Teller \ {w}) /\ m + 1 = Cardinality(Teller)
  BY <1>1
<1>3. PICK k \in Nat : k = Cardinality(G) /\ k <= m
  BY <1>1, <1>2, FS_Subset, FS_CardinalityType
<1>4. PICK s \in Nat : s = SumBy(all, G) /\ s <= k * c
  BY <1>3, SumByBound, SumByType
<1>5. k * c <= m * c
  BY <1>3
<1>6. (m + 1) * c = m * c + c /\ k * c \in Nat /\ m * c \in Nat
  OBVIOUS
<1>7. s + c <= (m + 1) * c
  BY <1>4, <1>5, <1>6
<1>. QED
  BY <1>2, <1>4, <1>7

\* Teller w takes a step, and R are the others of G and of H, those that count
\* before and after it.
Others(all, next, w, R, G, H) ==
  /\ \A v \in R : next[v] = all[v]
  /\ \A v : v \in R <=> v \in G /\ v # w
  /\ \A v : v \in R <=> v \in H /\ v # w
  /\ HasAmounts(all, G)
  /\ HasAmounts(next, H)

\* What the step of one teller makes of the sum over some of them.
LEMMA TellerSum ==
  ASSUME NEW all, NEW next, NEW w, NEW R, NEW G, NEW H,
         Others(all, next, w, R, G, H)
  PROVE  /\ HasAmounts(all, R)
         /\ SumBy(all, R) \in Nat
         /\ Share(all, G, w) \in Nat /\ Share(next, H, w) \in Nat
         /\ SumBy(all, G) = Share(all, G, w) + SumBy(all, R)
         /\ SumBy(next, H) = Share(next, H, w) + SumBy(all, R)
<1>. /\ \A v \in R : next[v] = all[v]
     /\ \A v : v \in R <=> v \in G /\ v # w
     /\ \A v : v \in R <=> v \in H /\ v # w
     /\ HasAmounts(all, G) /\ HasAmounts(next, H)
  BY DEF Others
<1>0. R = G \ {w} /\ R = H \ {w}
  OBVIOUS
<1>1. /\ HasAmounts(all, R) /\ SumBy(all, R) \in Nat
      /\ Share(all, G, w) \in Nat
      /\ SumBy(all, G) = Share(all, G, w) + SumBy(all, R)
  BY <1>0, SumByShare
<1>2. /\ Share(next, H, w) \in Nat
      /\ SumBy(next, H) = Share(next, H, w) + SumBy(next, R)
  BY <1>0, SumByShare
<1>3. SumBy(next, R) = SumBy(all, R)
  BY <1>1, SumBySame
<1>. QED
  BY <1>1, <1>2, <1>3

\* Teller w takes a step that commits no row: what it takes on fits the rows,
\* or is what it had taken on before.
Moves(pe, pm, all, next, w) ==
  /\ BooksOK(pe, pm, all)
  /\ BooksOK(pe, pm, next)
  /\ \A v \in Teller \ {w} : next[v] = all[v]
  /\ next[w].pc = "payee" => SumBy(pe, DOMAIN pe) + next[w].amount <= Total
  /\ Pays(next[w]) =>
       \/ SumBy(pm, To(pm, next[w].payee)) + next[w].amount
            <= pe[next[w].payee].amount
       \/ /\ Pays(all[w])
          /\ next[w].payee = all[w].payee /\ next[w].amount = all[w].amount

\* Such a step keeps the bounds.
LEMMA TellingBounded ==
  ASSUME NEW pe, NEW pm, NEW all, NEW next, NEW w \in Teller,
         Moves(pe, pm, all, next, w), Bounded(pe, pm, all)
  PROVE  Bounded(pe, pm, next)
<1>. DEFINE n == Cardinality(Teller)
<1>0. /\ BooksOK(pe, pm, all) /\ BooksOK(pe, pm, next)
      /\ next[w].pc = "payee" => SumBy(pe, DOMAIN pe) + next[w].amount <= Total
      /\ Pays(next[w]) =>
           \/ SumBy(pm, To(pm, next[w].payee)) + next[w].amount
                <= pe[next[w].payee].amount
           \/ /\ Pays(all[w])
              /\ next[w].payee = all[w].payee /\ next[w].amount = all[w].amount
  BY DEF Moves
<1>1. /\ DOMAIN all = Teller 
      /\ \A v \in Teller \ {w} : next[v] = all[v]
      /\ HasAmounts(pe, DOMAIN pe)
      /\ next[w].pc = "payee" => next[w].amount \in Nat
      /\ Pays(next[w]) => next[w].amount \in Nat /\ next[w].payee \in DOMAIN pe
  BY DEF BooksOK, Moves
<1>2. n \in Nat /\ Total \in Nat
      /\ \A p \in DOMAIN pe : pe[p].amount \in Nat
  BY <1>1, DepositConstants, FS_CardinalityType DEF HasAmounts
<1>3. PICK a \in Nat : a = SumBy(pe, DOMAIN pe)
  BY <1>1, SumByType
<1>4. /\ next[w].pc = "payee" => next[w].amount <= Total
      /\ Pays(next[w]) => next[w].amount <= pe[next[w].payee].amount
  <2>1. CASE next[w].pc = "payee"
    <3>1. ~Pays(next[w])
      BY <2>1 DEF Pays
    <3>. QED
      BY <1>0, <1>1, <1>2, <1>3, <2>1, <3>1
  <2>2. CASE Pays(next[w])
    <3>1. SumBy(pm, To(pm, next[w].payee)) \in Nat
      BY <1>0, SumsHaveAmounts, SumByType
    <3>2. pe[next[w].payee].amount \in Nat /\ next[w].amount \in Nat
      BY <1>1, <1>2, <2>2
    <3>3. Pays(all[w]) => all[w].amount <= pe[all[w].payee].amount
      BY DEF Bounded
    <3>4. next[w].pc # "payee"
      BY <2>2 DEF Pays
    <3>. QED
      BY <1>0, <2>2, <3>1, <3>2, <3>3, <3>4
  <2>. QED
    BY <2>1, <2>2
<1>5. \A v \in Teller :
        /\ next[v].pc = "payee" => next[v].amount <= Total
        /\ Pays(next[v]) => next[v].amount <= pe[next[v].payee].amount
  BY <1>1, <1>4 DEF Bounded
<1>6. a + SumBy(next, Offering(next)) <= n * Total
  <2>. DEFINE G == Offering(all)
              H == Offering(next)
  <2>1. /\ \A v \in G \ {w} : next[v] = all[v]
        /\ G \ {w} = H \ {w} /\ G \ {w} \in SUBSET (Teller \ {w})
        /\ w \in H <=> next[w].pc = "payee"
        /\ \A v \in G \ {w} : all[v].amount <= Total
        /\ a + SumBy(all, G) <= n * Total
    BY <1>1, <1>3 DEF Offering, Bounded
  <2>2. HasAmounts(all, G) /\ HasAmounts(next, H)
    BY <1>0, SumsHaveAmounts
  <2>. DEFINE R == G \ {w}
  <2>a. /\ \A v : v \in R <=> v \in G /\ v # w
        /\ \A v : v \in R <=> v \in H /\ v # w
    BY <2>1
  <2>b. /\ R \in SUBSET (Teller \ {w})
        /\ \A v \in R : next[v] = all[v] /\ all[v].amount <= Total
    BY <2>1
  <2>. HIDE DEF G, H, R
  <2>c. /\ HasAmounts(all, R)
        /\ SumBy(all, R) \in Nat
        /\ Share(all, G, w) \in Nat /\ Share(next, H, w) \in Nat
        /\ SumBy(all, G) = Share(all, G, w) + SumBy(all, R)
        /\ SumBy(next, H) = Share(next, H, w) + SumBy(all, R)
    <3>1. Others(all, next, w, R, G, H)
      BY <2>2, <2>a, <2>b DEF Others
    <3>. QED
      BY <3>1, TellerSum
  <2>3. PICK s \in Nat, x \in Nat, y \in Nat :
          /\ s = SumBy(all, R)
          /\ x = Share(all, G, w) /\ y = Share(next, H, w)
          /\ SumBy(all, G) = x + s /\ SumBy(next, H) = y + s
    BY <2>c
  <2>4. CASE next[w].pc # "payee"
    <3>1. y = 0
      BY <2>1, <2>3, <2>4 DEF Share
    <3>2. n * Total \in Nat
      BY <1>2
    <3>. QED
      BY <1>3, <2>1, <2>3, <3>1, <3>2 DEF H
  <2>5. CASE next[w].pc = "payee"
    <3>1. y = next[w].amount
      BY <1>1, <2>1, <2>3, <2>5 DEF Share
    <3>3. s + Total <= n * Total
      BY <1>2, <2>b, <2>c, <2>3, RoomForOne
    <3>4. a + y <= Total /\ n * Total \in Nat
      BY <1>0, <1>2, <1>3, <2>5, <3>1
    <3>5. a + (y + s) <= n * Total
      BY <1>2, <1>3, <3>3, <3>4
    <3>. QED
      BY <2>3, <3>5 DEF H
  <2>. QED
    BY <2>4, <2>5
<1>7. ASSUME NEW p \in DOMAIN pe
      PROVE  SumBy(pm, To(pm, p)) + SumBy(next, PayingTo(next, p))
               <= n * pe[p].amount
  <2>. DEFINE G == PayingTo(all, p)
              H == PayingTo(next, p)
  <2>0. PICK c \in Nat : c = pe[p].amount
    BY <1>2
  <2>1. PICK b \in Nat : b = SumBy(pm, To(pm, p))
    BY <1>0, SumsHaveAmounts, SumByType
  <2>2. /\ \A v \in G \ {w} : next[v] = all[v]
        /\ G \ {w} = H \ {w} /\ G \ {w} \in SUBSET (Teller \ {w})
        /\ w \in H <=> Pays(next[w]) /\ next[w].payee = p
        /\ w \in G <=> Pays(all[w]) /\ all[w].payee = p
        /\ \A v \in G \ {w} : all[v].amount <= c
        /\ b + SumBy(all, G) <= n * c
    BY <1>1, <2>0, <2>1 DEF PayingTo, Bounded
  <2>3. HasAmounts(all, G) /\ HasAmounts(next, H)
    BY <1>0, SumsHaveAmounts
  <2>. DEFINE R == G \ {w}
  <2>a. /\ \A v : v \in R <=> v \in G /\ v # w
        /\ \A v : v \in R <=> v \in H /\ v # w
    BY <2>2
  <2>b. /\ R \in SUBSET (Teller \ {w})
        /\ \A v \in R : next[v] = all[v] /\ all[v].amount <= c
    BY <2>2
  <2>. HIDE DEF G, H, R
  <2>c. /\ HasAmounts(all, R)
        /\ SumBy(all, R) \in Nat
        /\ Share(all, G, w) \in Nat /\ Share(next, H, w) \in Nat
        /\ SumBy(all, G) = Share(all, G, w) + SumBy(all, R)
        /\ SumBy(next, H) = Share(next, H, w) + SumBy(all, R)
    <3>1. Others(all, next, w, R, G, H)
      BY <2>3, <2>a, <2>b DEF Others
    <3>. QED
      BY <3>1, TellerSum
  <2>4. PICK s \in Nat, x \in Nat, y \in Nat :
          /\ s = SumBy(all, R)
          /\ x = Share(all, G, w) /\ y = Share(next, H, w)
          /\ SumBy(all, G) = x + s /\ SumBy(next, H) = y + s
    BY <2>c
  <2>5. n * c \in Nat
    BY <1>2
  <2>6. CASE w \notin H
    <3>1. y = 0
      BY <2>4, <2>6 DEF Share
    <3>2. b + (y + s) <= n * c
      BY <2>2, <2>4, <2>5, <3>1
    <3>. QED
      BY <2>0, <2>1, <2>4, <3>2 DEF H
  <2>7. CASE w \in H /\ b + next[w].amount <= c
    <3>1. y = next[w].amount
      BY <1>1, <2>4, <2>7 DEF Share
    <3>3. s + c <= n * c
      BY <2>b, <2>c, <2>4, RoomForOne
    <3>4. b + y <= c
      BY <2>7, <3>1
    <3>5. b + (y + s) <= n * c
      BY <2>5, <3>3, <3>4
    <3>. QED
      BY <2>0, <2>1, <2>4, <3>5 DEF H
  <2>8. CASE w \in H /\ w \in G /\ next[w].amount = all[w].amount
    <3>1. y = x
      BY <1>1, <2>4, <2>8 DEF Share
    <3>2. b + (y + s) <= n * c
      BY <2>2, <2>4, <3>1
    <3>. QED
      BY <2>0, <2>1, <2>4, <3>2 DEF H
  <2>. QED
    BY <1>0, <2>0, <2>1, <2>2, <2>6, <2>7, <2>8
<1>. HIDE DEF n
<1>. QED
  BY <1>3, <1>5, <1>6, <1>7 DEF Bounded, n

\* No row, no sum.
LEMMA SumByEmpty ==
  ASSUME NEW rows
  PROVE  SumBy(rows, {}) = 0
BY SumEmpty DEF SumBy

\* Teller w commits the payee it has taken on.
PayeeRow(pe, pm, all, next, w, more) ==
  /\ BooksOK(pe, pm, all)
  /\ BooksOK(more, pm, next)
  /\ all[w].pc = "payee"
  /\ next[w].pc = "counter"
  /\ \A v \in Teller \ {w} : next[v] = all[v]
  /\ Len(pe) \in Nat
  /\ DOMAIN pe = 1..Len(pe)
  /\ DOMAIN more = 1..(Len(pe) + 1)
  /\ \A p \in DOMAIN pe : more[p] = pe[p]
  /\ more[Len(pe) + 1].amount = all[w].amount

\* That moves its amount from what is taken on to the rows.
LEMMA PayeeBounded ==
  ASSUME NEW pe, NEW pm, NEW all, NEW next, NEW w \in Teller, NEW more,
         PayeeRow(pe, pm, all, next, w, more), Bounded(pe, pm, all)
  PROVE  Bounded(more, pm, next)
<1>. DEFINE n == Cardinality(Teller)  last == Len(pe) + 1
<1>1. /\ BooksOK(pe, pm, all) /\ BooksOK(more, pm, next)
      /\ last \in Nat /\ last \notin DOMAIN pe
      /\ DOMAIN more = DOMAIN pe \cup {last}
      /\ \A p \in DOMAIN pe : more[p] = pe[p]
      /\ more[last].amount = all[w].amount
  BY DEF PayeeRow
<1>2. /\ all[w].pc = "payee" /\ next[w].pc = "counter"
      /\ \A v \in Teller \ {w} : next[v] = all[v]
      /\ ~Pays(all[w]) /\ ~Pays(next[w])
  BY DEF PayeeRow, Pays
<1>3. /\ n \in Nat /\ Total \in Nat
      /\ HasAmounts(pe, DOMAIN pe) /\ HasAmounts(more, DOMAIN more)
      /\ HasAmounts(all, Offering(all)) /\ HasAmounts(next, Offering(next))
  BY <1>1, DepositConstants, FS_CardinalityType, SumsHaveAmounts DEF BooksOK
<1>4. \A v \in Teller :
        /\ next[v].pc = "payee" => next[v].amount <= Total
        /\ Pays(next[v]) => next[v].amount <= more[next[v].payee].amount
  BY <1>1, <1>2 DEF Bounded, BooksOK
<1>5. SumBy(more, DOMAIN more) + SumBy(next, Offering(next)) <= n * Total
  <2>1. Others(pe, more, last, DOMAIN pe, DOMAIN pe, DOMAIN more)
    BY <1>1, <1>3 DEF Others
  <2>2. Others(all, next, w, Offering(next), Offering(all), Offering(next))
    BY <1>2, <1>3 DEF Others, Offering
  <2>3. PICK a \in Nat, s \in Nat, x \in Nat :
          /\ a = SumBy(pe, DOMAIN pe) /\ s = SumBy(next, Offering(next))
          /\ x = all[w].amount
          /\ SumBy(more, DOMAIN more) = x + a
          /\ SumBy(all, Offering(all)) = x + s
    <3>1. Share(more, DOMAIN more, last) = all[w].amount
          /\ Share(all, Offering(all), w) = all[w].amount
          /\ Share(next, Offering(next), w) = 0
          /\ Share(pe, DOMAIN pe, last) = 0
      BY <1>1, <1>2 DEF Share, Offering
    <3>2. /\ SumBy(pe, DOMAIN pe) \in Nat
          /\ SumBy(pe, DOMAIN pe) = Share(pe, DOMAIN pe, last) + SumBy(pe, DOMAIN pe)
          /\ Share(more, DOMAIN more, last) \in Nat
          /\ SumBy(more, DOMAIN more)
               = Share(more, DOMAIN more, last) + SumBy(pe, DOMAIN pe)
      BY <2>1, TellerSum
    <3>3. /\ SumBy(all, Offering(next)) \in Nat
          /\ SumBy(all, Offering(all))
               = Share(all, Offering(all), w) + SumBy(all, Offering(next))
          /\ SumBy(next, Offering(next))
               = Share(next, Offering(next), w) + SumBy(all, Offering(next))
      BY <2>2, TellerSum
    <3>. QED
      BY <3>1, <3>2, <3>3
  <2>4. SumBy(pe, DOMAIN pe) + SumBy(all, Offering(all)) <= n * Total
    BY DEF Bounded
  <2>. QED
    BY <2>3, <2>4
<1>6. ASSUME NEW p \in DOMAIN more
      PROVE  SumBy(pm, To(pm, p)) + SumBy(next, PayingTo(next, p))
               <= n * more[p].amount
  <2>1. PayingTo(next, p) = PayingTo(all, p)
    BY <1>2 DEF PayingTo
  <2>2. CASE p \in DOMAIN pe
    <3>1. HasAmounts(all, PayingTo(all, p))
      BY <1>1, SumsHaveAmounts
    <3>2. \A v \in PayingTo(all, p) : next[v].amount = all[v].amount
      BY <1>2 DEF PayingTo
    <3>3. SumBy(next, PayingTo(all, p)) = SumBy(all, PayingTo(all, p))
      BY <3>1, <3>2, SumBySame
    <3>4. SumBy(pm, To(pm, p)) + SumBy(all, PayingTo(all, p)) <= n * pe[p].amount
      BY <2>2 DEF Bounded
    <3>. QED
      BY <1>1, <2>1, <2>2, <3>3, <3>4
  <2>3. CASE p = last
    <3>1. To(pm, p) = {} /\ PayingTo(all, p) = {}
      BY <1>1, <2>3 DEF BooksOK, To, PayingTo
    <3>2. more[p].amount \in Nat
      BY <1>3 DEF HasAmounts
    <3>3. n * more[p].amount \in Nat
      BY <1>3, <3>2
    <3>4. SumBy(pm, {}) = 0 /\ SumBy(next, {}) = 0
      BY SumByEmpty
    <3>. QED
      BY <2>1, <3>1, <3>3, <3>4
  <2>. QED
    BY <1>1, <2>2, <2>3
<1>. HIDE DEF n
<1>. QED
  BY <1>4, <1>5, <1>6 DEF Bounded, n

\* Teller w commits the payment it has taken on, with the status of the payee.
PaymentRow(pe, pm, all, next, w, same, more) ==
  /\ BooksOK(pe, pm, all)
  /\ BooksOK(same, more, next)
  /\ Pays(all[w])
  /\ next[w].pc = "counter"
  /\ \A v \in Teller \ {w} : next[v] = all[v]
  /\ DOMAIN same = DOMAIN pe
  /\ \A p \in DOMAIN pe : same[p].amount = pe[p].amount
  /\ Len(pm) \in Nat
  /\ DOMAIN pm = 1..Len(pm)
  /\ DOMAIN more = 1..(Len(pm) + 1)
  /\ \A k \in DOMAIN pm : more[k] = pm[k]
  /\ more[Len(pm) + 1].payee = all[w].payee
  /\ more[Len(pm) + 1].amount = all[w].amount

\* That too moves its amount from what is taken on to the rows.
LEMMA PaymentBounded ==
  ASSUME NEW pe, NEW pm, NEW all, NEW next, NEW w \in Teller, NEW same, NEW more,
         PaymentRow(pe, pm, all, next, w, same, more), Bounded(pe, pm, all)
  PROVE  Bounded(same, more, next)
<1>. DEFINE n == Cardinality(Teller)  last == Len(pm) + 1
<1>1. /\ BooksOK(pe, pm, all) /\ BooksOK(same, more, next)
      /\ last \in Nat /\ last \notin DOMAIN pm
      /\ DOMAIN more = DOMAIN pm \cup {last}
      /\ \A k \in DOMAIN pm : more[k] = pm[k]
      /\ more[last].payee = all[w].payee /\ more[last].amount = all[w].amount
      /\ DOMAIN same = DOMAIN pe
      /\ \A p \in DOMAIN pe : same[p].amount = pe[p].amount
  BY DEF PaymentRow
<1>2. /\ Pays(all[w]) /\ next[w].pc = "counter"
      /\ \A v \in Teller \ {w} : next[v] = all[v]
      /\ all[w].pc # "payee" /\ ~Pays(next[w])
  BY DEF PaymentRow, Pays
<1>3. /\ n \in Nat /\ Total \in Nat
      /\ HasAmounts(pe, DOMAIN pe)
      /\ HasAmounts(all, Offering(all))
  BY <1>1, DepositConstants, FS_CardinalityType, SumsHaveAmounts DEF BooksOK
<1>4. \A v \in Teller :
        /\ next[v].pc = "payee" => next[v].amount <= Total
        /\ Pays(next[v]) => next[v].amount <= same[next[v].payee].amount
  BY <1>1, <1>2 DEF Bounded, BooksOK
<1>5. SumBy(same, DOMAIN same) + SumBy(next, Offering(next)) <= n * Total
  <2>1. Offering(next) = Offering(all)
    BY <1>2 DEF Offering
  <2>2. \A v \in Offering(all) : next[v].amount = all[v].amount
    BY <1>2 DEF Offering
  <2>3. SumBy(next, Offering(all)) = SumBy(all, Offering(all))
    BY <1>3, <2>2, SumBySame
  <2>4. SumBy(same, DOMAIN pe) = SumBy(pe, DOMAIN pe)
    BY <1>1, <1>3, SumBySame
  <2>5. SumBy(pe, DOMAIN pe) + SumBy(all, Offering(all)) <= n * Total
    BY DEF Bounded
  <2>. QED
    BY <1>1, <2>1, <2>3, <2>4, <2>5
<1>6. ASSUME NEW p \in DOMAIN same
      PROVE  SumBy(more, To(more, p)) + SumBy(next, PayingTo(next, p))
               <= n * same[p].amount
  <2>1. /\ HasAmounts(pm, To(pm, p)) /\ HasAmounts(more, To(more, p))
        /\ HasAmounts(all, PayingTo(all, p))
        /\ HasAmounts(next, PayingTo(next, p))
    BY <1>1, SumsHaveAmounts
  <2>2. Others(pm, more, last, To(pm, p), To(pm, p), To(more, p))
    BY <1>1, <2>1 DEF Others, To
  <2>3. Others(all, next, w, PayingTo(next, p), PayingTo(all, p), PayingTo(next, p))
    BY <1>2, <2>1 DEF Others, PayingTo
  <2>4. PICK b \in Nat, s \in Nat, x \in Nat :
          /\ SumBy(more, To(more, p)) = x + b
          /\ SumBy(pm, To(pm, p)) = b
          /\ SumBy(all, PayingTo(all, p)) = x + s
          /\ SumBy(next, PayingTo(next, p)) = s
    <3>1. Share(next, PayingTo(next, p), w) = 0
          /\ Share(more, To(more, p), last) = Share(all, PayingTo(all, p), w)
      <4>1. /\ w \notin PayingTo(next, p)
            /\ last \in To(more, p) <=> w \in PayingTo(all, p)
        BY <1>1, <1>2 DEF PayingTo, To
      <4>. QED
        BY <1>1, <4>1 DEF Share
    <3>2. /\ SumBy(pm, To(pm, p)) \in Nat
          /\ Share(more, To(more, p), last) \in Nat
          /\ SumBy(more, To(more, p))
               = Share(more, To(more, p), last) + SumBy(pm, To(pm, p))
      BY <2>2, TellerSum
    <3>3. /\ SumBy(all, PayingTo(next, p)) \in Nat
          /\ SumBy(all, PayingTo(all, p))
               = Share(all, PayingTo(all, p), w) + SumBy(all, PayingTo(next, p))
          /\ SumBy(next, PayingTo(next, p))
               = Share(next, PayingTo(next, p), w) + SumBy(all, PayingTo(next, p))
      BY <2>3, TellerSum
    <3>. QED
      BY <3>1, <3>2, <3>3
  <2>5. SumBy(pm, To(pm, p)) + SumBy(all, PayingTo(all, p)) <= n * pe[p].amount
    BY <1>1 DEF Bounded
  <2>6. same[p].amount = pe[p].amount
    BY <1>1
  <2>. QED
    BY <2>4, <2>5, <2>6
<1>. HIDE DEF n
<1>. QED
  BY <1>4, <1>5, <1>6 DEF Bounded, n

-----------------------------------------------------------------------------
\* The rows and tellers of the deposit are of that kind.
LEMMA BooksAreOK ==
  ASSUME DepositsInv
  PROVE  BooksOK(payees, payments, telling)
<1>1. HasAmounts(payees, DOMAIN payees) /\ HasAmounts(payments, DOMAIN payments)
  BY SumsByTable
<1>2. payments \in Seq(DepositPayment) /\ telling \in [Teller -> Visitor]
  BY DepositRows DEF DepositsInv
<1>3. \A k \in DOMAIN payments : payments[k].payee \in DOMAIN payees
  <2>1. \A k \in DOMAIN payments : payments[k] \in DepositPayment
    BY <1>2
  <2>. QED
    BY <2>1 DEF DepositPayment
<1>4. ASSUME NEW w \in Teller
      PROVE  /\ telling[w].pc = "payee" => telling[w].amount \in Nat
             /\ Pays(telling[w]) =>
                  telling[w].amount \in Nat /\ telling[w].payee \in DOMAIN payees
  <2>1. telling[w] \in Visitor /\ AtCounter.pc = "counter"
    BY <1>2 DEF AtCounter
  <2>2. ASSUME telling[w].pc # "counter"
        PROVE  /\ telling[w].amount \in Nat
               /\ telling[w].pc # "payee" => telling[w].payee \in DOMAIN payees
    <3>1. telling[w] \in Visitor \ {AtCounter}
      BY <2>1, <2>2
    <3>. QED
      BY <3>1, DepositConstants DEF Visitor
  <2>. QED
    BY <2>2 DEF Pays
<1>. QED
  BY <1>1, <1>2, <1>3, <1>4 DEF BooksOK

\* What the bounds say of them.
LEMMA BoundedSums ==
  ASSUME DepositsInv, Bounded(payees, payments, telling)
  PROVE  SumsBounded
<1>1. /\ Offering(telling) = Telling("payee")
      /\ \A p : To(payments, p) = PaymentsTo(p)
                /\ PayingTo(telling, p) = Paying(p)
  BY DEF Offering, Telling, To, PaymentsTo, PayingTo, Paying, Pays
<1>2. /\ Allocated = SumBy(payees, DOMAIN payees)
      /\ \A p : PaidTo(p) = SumBy(payments, PaymentsTo(p))
      /\ \A W : InFlight(W) = SumBy(telling, W)
  BY SumsByTable
<1>3. /\ Allocated + InFlight(Telling("payee")) <= Cardinality(Teller) * Total
      /\ \A p \in DOMAIN payees :
           PaidTo(p) + InFlight(Paying(p)) <= Cardinality(Teller) * payees[p].amount
  BY <1>1, <1>2 DEF Bounded
<1>. QED
  BY <1>3 DEF SumsBounded, Paying

\* A step of teller w that commits no row.
LEMMA MovesKeeps ==
  ASSUME DepositsInv, DepositsInv', Bounded(payees, payments, telling),
         UNCHANGED <<payees, payments>>,
         NEW w \in Teller, NEW t, telling' = [telling EXCEPT ![w] = t],
         t.pc = "payee" => Allocated + t.amount <= Total,
         Pays(t) =>
           \/ PaidTo(t.payee) + t.amount <= payees[t.payee].amount
           \/ /\ Pays(telling[w])
              /\ t.payee = telling[w].payee /\ t.amount = telling[w].amount
  PROVE  Bounded(payees, payments, telling)'
<1>1. BooksOK(payees, payments, telling)
  BY BooksAreOK
<1>2. BooksOK(payees, payments, telling)'
  <2>1. (DepositsInv => BooksOK(payees, payments, telling))'
    BY BooksAreOK, PTL
  <2>. QED
    BY <2>1
<1>3. BooksOK(payees, payments, telling')
  BY <1>2
<1>4. telling'[w] = t /\ \A v \in Teller \ {w} : telling'[v] = telling[v]
  BY DEF DepositsInv
<1>5. /\ Allocated = SumBy(payees, DOMAIN payees)
      /\ \A p : PaidTo(p) = SumBy(payments, To(payments, p))
  BY SumsByTable DEF To, PaymentsTo
<1>6. Moves(payees, payments, telling, telling', w)
  BY <1>1, <1>3, <1>4, <1>5 DEF Moves
<1>7. Bounded(payees, payments, telling')
  BY <1>6, TellingBounded
<1>. QED
  BY <1>7

\* Every step keeps the bounds.
LEMMA BoundsStep ==
  ASSUME DepositsInv, DepositsInv', Bounded(payees, payments, telling),
         [NextDeposits]_depositVars
  PROVE  Bounded(payees, payments, telling)'
<1>0. /\ payees \in Seq(Payee) /\ payments \in Seq(DepositPayment)
      /\ telling \in [Teller -> Visitor]
  BY DepositRows DEF DepositsInv
<1>1. CASE UNCHANGED <<payees, payments, telling>>
  BY <1>1
<1>2. ASSUME NEW w \in Teller, NEW a \in Amount, begin_payee(w, a)
      PROVE  Bounded(payees, payments, telling)'
  <2>. DEFINE t == [pc |-> "payee", amount |-> a]
  <2>1. /\ UNCHANGED <<payees, payments>>
        /\ telling' = [telling EXCEPT ![w] = t]
        /\ Allocated + t.amount <= Total
        /\ ~Pays(t)
    BY <1>2 DEF begin_payee, Pays
  <2>. QED
    BY <2>1, MovesKeeps
<1>3. ASSUME NEW w \in Teller, NEW p \in DOMAIN payees, NEW a \in Amount,
             begin_payment(w, p, a)
      PROVE  Bounded(payees, payments, telling)'
  <2>. DEFINE t == [pc |-> "pay", payee |-> p, amount |-> a,
                    loaded |-> payees[p].status,
                    status |-> IF PaidTo(p) + a >= payees[p].amount
                                 THEN "PAID" ELSE "APPROVED"]
  <2>1. /\ UNCHANGED <<payees, payments>>
        /\ telling' = [telling EXCEPT ![w] = t]
        /\ PaidTo(t.payee) + t.amount <= payees[t.payee].amount
        /\ t.pc # "payee"
    BY <1>3 DEF begin_payment
  <2>. QED
    BY <2>1, MovesKeeps
<1>4. ASSUME NEW w \in Teller, flush_payment(w)
      PROVE  Bounded(payees, payments, telling)'
  <2>. DEFINE s == telling[w]
              t == [pc |-> "flushed", payee |-> s.payee, amount |-> s.amount,
                    loaded |-> s.loaded, status |-> s.status,
                    deposit |-> deposit,
                    new |-> IF Total <= deposit_paid_total + s.amount
                              THEN "PAID" ELSE "PARTIALLY_PAID"]
  <2>1. /\ UNCHANGED <<payees, payments>>
        /\ telling' = [telling EXCEPT ![w] = t]
        /\ t.payee = telling[w].payee /\ t.amount = telling[w].amount
        /\ Pays(telling[w])
        /\ t.pc # "payee"
    BY <1>4 DEF flush_payment, Telling, Pays
  <2>. QED
    BY <2>1, MovesKeeps
<1>5. ASSUME NEW w \in Teller, crash_teller(w)
      PROVE  Bounded(payees, payments, telling)'
  <2>1. /\ UNCHANGED <<payees, payments>>
        /\ telling' = [telling EXCEPT ![w] = AtCounter]
        /\ AtCounter.pc # "payee" /\ ~Pays(AtCounter)
    BY <1>5 DEF crash_teller, Served, AtCounter, Pays
  <2>. QED
    BY <2>1, MovesKeeps
<1>6. BooksOK(payees, payments, telling)
      /\ BooksOK(payees', payments', telling')
  <2>1. (DepositsInv => BooksOK(payees, payments, telling))'
    BY BooksAreOK, PTL
  <2>. QED
    BY <2>1, BooksAreOK
<1>7. ASSUME NEW w \in Teller, commit_payee(w)
      PROVE  Bounded(payees, payments, telling)'
  <2>1. /\ payees' = Append(payees, [amount |-> telling[w].amount,
                                      status |-> "PENDING"])
        /\ payments' = payments
        /\ telling[w].pc = "payee" /\ telling' = [telling EXCEPT ![w] = AtCounter]
    BY <1>7 DEF commit_payee, Telling, Served
  <2>2. /\ Len(payees) \in Nat
        /\ DOMAIN payees = 1..Len(payees)
        /\ DOMAIN payees' = 1..(Len(payees) + 1)
        /\ \A p \in DOMAIN payees : payees'[p] = payees[p]
        /\ payees'[Len(payees) + 1].amount = telling[w].amount
    BY <1>0, <2>1
  <2>3. telling'[w].pc = "counter"
        /\ \A v \in Teller \ {w} : telling'[v] = telling[v]
    BY <1>0, <2>1 DEF AtCounter
  <2>4. BooksOK(payees', payments, telling')
    BY <1>6, <2>1
  <2>5. PayeeRow(payees, payments, telling, telling', w, payees')
    BY <1>6, <2>1, <2>2, <2>3, <2>4 DEF PayeeRow
  <2>6. Bounded(payees', payments, telling')
    BY <2>5, PayeeBounded
  <2>. QED
    BY <2>1, <2>6
<1>8. ASSUME NEW w \in Teller, commit_payment(w)
      PROVE  Bounded(payees, payments, telling)'
  <2>. DEFINE t == telling[w]
  <2>1. /\ payments' = Append(payments, [payee |-> t.payee, amount |-> t.amount])
        /\ payees' = [payees EXCEPT ![t.payee].status =
                        Kept(@, t.loaded, t.status)]
        /\ t.pc = "flushed" /\ telling' = [telling EXCEPT ![w] = AtCounter]
    BY <1>8 DEF commit_payment, Telling, Served
  <2>2. /\ Len(payments) \in Nat
        /\ DOMAIN payments = 1..Len(payments)
        /\ DOMAIN payments' = 1..(Len(payments) + 1)
        /\ \A k \in DOMAIN payments : payments'[k] = payments[k]
        /\ payments'[Len(payments) + 1].payee = t.payee
        /\ payments'[Len(payments) + 1].amount = t.amount
    BY <1>0, <2>1
  <2>3. /\ telling'[w].pc = "counter"
        /\ \A v \in Teller \ {w} : telling'[v] = telling[v]
        /\ Pays(t)
    BY <1>0, <2>1 DEF AtCounter, Pays
  <2>4. DOMAIN payees' = DOMAIN payees
        /\ \A p \in DOMAIN payees : payees'[p].amount = payees[p].amount
    <3>1. \A p \in DOMAIN payees : payees[p] \in Payee
      BY <1>0
    <3>. QED
      BY <2>1, <3>1 DEF Payee
  <2>5. PaymentRow(payees, payments, telling, telling', w, payees', payments')
    BY <1>6, <2>2, <2>3, <2>4 DEF PaymentRow
  <2>6. Bounded(payees', payments', telling')
    BY <2>5, PaymentBounded
  <2>. QED
    BY <2>6
<1>. QED
  BY <1>1, <1>2, <1>3, <1>4, <1>5, <1>7, <1>8
     DEF NextDeposits, depositVars, create_deposit

-----------------------------------------------------------------------------
(* What has been paid. *)

\* What a teller that takes a payment goes by: the total with its payment, and
\* what it read before.  Payments are only ever added, so it stays true.
PaidKnown(w) ==
  LET t == telling[w] IN
  /\ t.pc = "flushed" =>
       /\ t.new = "PAID" => Total <= deposit_paid_total + t.amount
       /\ t.deposit \notin {"NULL", "PENDING"} => payments # <<>>
  /\ Pays(t) =>
       /\ t.status = "PAID" => payees[t.payee].amount <= PaidTo(t.payee) + t.amount
       /\ t.loaded # "PENDING" => PaymentsTo(t.payee) # {}

PaidInv == PaidIsCovered /\ \A w \in Teller : PaidKnown(w)

\* The sums are numbers.
LEMMA PaidType ==
  ASSUME DepositsInv
  PROVE  /\ deposit_paid_total \in Nat
         /\ \A p : PaidTo(p) \in Nat
         /\ \A p \in DOMAIN payees : payees[p].amount \in Nat
         /\ \A w \in Teller : Pays(telling[w]) =>
              telling[w].amount \in Nat /\ telling[w].payee \in DOMAIN payees
BY SumsByTable, SumByType, BooksAreOK DEF HasAmounts, BooksOK

\* A payment adds to the sum of the deposit, and of its payee.
LEMMA PaymentAdds ==
  ASSUME DepositsInv, DepositsInv', NEW w \in Teller, commit_payment(w)
  PROVE  /\ deposit_paid_total' = deposit_paid_total + telling[w].amount
         /\ \A p : PaidTo(p)' = PaidTo(p) + IF p = telling[w].payee
                                             THEN telling[w].amount ELSE 0
         /\ payments' # <<>>
         /\ \A p : PaymentsTo(p)' # {} <=>
                     PaymentsTo(p) # {} \/ p = telling[w].payee
<1>. DEFINE last == Len(payments) + 1
            row == [payee |-> telling[w].payee, amount |-> telling[w].amount]
<1>1. payments \in Seq(DepositPayment) /\ payments' = Append(payments, row)
  BY DepositRows DEF DepositsInv, commit_payment
<1>2. /\ Len(payments) \in Nat
      /\ last \notin DOMAIN payments
      /\ DOMAIN payments' = DOMAIN payments \cup {last}
      /\ \A k \in DOMAIN payments : payments'[k] = payments[k]
      /\ payments'[last].payee = telling[w].payee
      /\ payments'[last].amount = telling[w].amount
      /\ payments' # <<>>
  BY <1>1
<1>. HIDE DEF last, row
<1>3. /\ HasAmounts(payments, DOMAIN payments)
      /\ \A p : HasAmounts(payments, To(payments, p))
      /\ deposit_paid_total = SumBy(payments, DOMAIN payments)
      /\ \A p : PaidTo(p) = SumBy(payments, To(payments, p))
  BY SumsByTable DEF PaymentsTo, To
<1>4. /\ HasAmounts(payments', DOMAIN payments')
      /\ \A p : HasAmounts(payments', To(payments', p))
      /\ deposit_paid_total' = SumBy(payments', DOMAIN payments')
      /\ \A p : PaidTo(p)' = SumBy(payments', To(payments', p))
  <2>1. (DepositsInv => /\ HasAmounts(payments, DOMAIN payments)
                        /\ \A p : HasAmounts(payments, PaymentsTo(p))
                        /\ deposit_paid_total = SumBy(payments, DOMAIN payments)
                        /\ \A p : PaidTo(p) = SumBy(payments, PaymentsTo(p)))'
    BY SumsByTable, PTL
  <2>. QED
    BY <2>1 DEF PaymentsTo, To
<1>5. deposit_paid_total' = deposit_paid_total + telling[w].amount
  <2>1. Others(payments, payments', last, DOMAIN payments, DOMAIN payments,
               DOMAIN payments')
    BY <1>2, <1>3, <1>4 DEF Others
  <2>2. /\ SumBy(payments, DOMAIN payments) \in Nat
        /\ Share(payments', DOMAIN payments', last) \in Nat
        /\ SumBy(payments', DOMAIN payments')
             = Share(payments', DOMAIN payments', last)
                 + SumBy(payments, DOMAIN payments)
    BY <2>1, TellerSum
  <2>3. Share(payments', DOMAIN payments', last) = telling[w].amount
    BY <1>2 DEF Share
  <2>. QED
    BY <1>3, <1>4, <2>2, <2>3
<1>6. ASSUME NEW p
      PROVE  /\ PaidTo(p)' = PaidTo(p) + IF p = telling[w].payee
                                           THEN telling[w].amount ELSE 0
             /\ PaymentsTo(p)' # {} <=>
                  PaymentsTo(p) # {} \/ p = telling[w].payee
  <2>1. Others(payments, payments', last, To(payments, p), To(payments, p),
               To(payments', p))
    BY <1>2, <1>3, <1>4 DEF Others, To
  <2>2. /\ SumBy(payments, To(payments, p)) \in Nat
        /\ Share(payments', To(payments', p), last) \in Nat
        /\ SumBy(payments', To(payments', p))
             = Share(payments', To(payments', p), last)
                 + SumBy(payments, To(payments, p))
    BY <2>1, TellerSum
  <2>3. Share(payments', To(payments', p), last)
          = IF p = telling[w].payee THEN telling[w].amount ELSE 0
    BY <1>2 DEF Share, To
  <2>4. PaymentsTo(p)' # {} <=> PaymentsTo(p) # {} \/ p = telling[w].payee
    BY <1>2 DEF PaymentsTo
  <2>. QED
    BY <1>3, <1>4, <2>2, <2>3, <2>4
<1>. QED
  BY <1>2, <1>5, <1>6

\* Without a payment the sums stay as they are.
LEMMA PaidStays ==
  ASSUME payments' = payments
  PROVE  /\ deposit_paid_total' = deposit_paid_total
         /\ \A p : PaidTo(p)' = PaidTo(p) /\ PaymentsTo(p)' = PaymentsTo(p)
BY DEF deposit_paid_total, PaidTo, PaymentsTo, Amounts

\* Initially nothing is paid.
LEMMA PaidInit == InitDeposits => PaidInv
BY DEF InitDeposits, PaidInv, PaidIsCovered, PaidKnown, AtCounter, Pays

\* A teller that does not pay knows nothing.
LEMMA NotPaying ==
  ASSUME NEW w \in Teller, telling[w].pc \notin {"pay", "flushed"}
  PROVE  PaidKnown(w)
BY DEF PaidKnown, Pays

\* A step of teller w that commits nothing.
LEMMA PaidTelling ==
  ASSUME DepositsInv, DepositsInv', PaidInv, NEW w \in Teller, NEW t,
         UNCHANGED <<deposit, payees, payments>>,
         telling' = [telling EXCEPT ![w] = t],
         PaidKnown(w)'
  PROVE  PaidInv'
<1>1. PaidIsCovered'
  <2>1. PaidIsCovered
    BY DEF PaidInv
  <2>. QED
    BY <2>1, PaidStays DEF PaidIsCovered
<1>2. ASSUME NEW v \in Teller, v # w PROVE PaidKnown(v)'
  <2>1. telling'[v] = telling[v] /\ PaidKnown(v)
    BY <1>2 DEF DepositsInv, PaidInv
  <2>. QED
    BY <2>1, PaidStays DEF PaidKnown
<1>. QED
  BY <1>1, <1>2 DEF PaidInv

\* Steps that commit nothing.
LEMMA PaidTellingPreserves ==
  ASSUME DepositsInv, DepositsInv', PaidInv, NEW w \in Teller,
         \/ \E a \in Amount : begin_payee(w, a)
         \/ \E p \in DOMAIN payees, a \in Amount : begin_payment(w, p, a)
         \/ flush_payment(w)
         \/ crash_teller(w)
  PROVE  PaidInv'
<1>0. telling \in [Teller -> Visitor]
  BY DEF DepositsInv
<1>1. ASSUME NEW a \in Amount, begin_payee(w, a) PROVE PaidInv'
  <2>. DEFINE t == [pc |-> "payee", amount |-> a]
  <2>1. telling' = [telling EXCEPT ![w] = t]
        /\ UNCHANGED <<deposit, payees, payments>>
    BY <1>1 DEF begin_payee
  <2>2. telling'[w].pc \notin {"pay", "flushed"}
    BY <1>0, <2>1
  <2>3. PaidKnown(w)'
    BY <2>2 DEF PaidKnown, Pays
  <2>. QED
    BY <2>1, <2>3, PaidTelling
<1>2. ASSUME NEW p \in DOMAIN payees, NEW a \in Amount, begin_payment(w, p, a)
      PROVE  PaidInv'
  <2>. DEFINE t == [pc |-> "pay", payee |-> p, amount |-> a,
                    loaded |-> payees[p].status,
                    status |-> IF PaidTo(p) + a >= payees[p].amount
                                 THEN "PAID" ELSE "APPROVED"]
  <2>1. telling' = [telling EXCEPT ![w] = t]
        /\ UNCHANGED <<deposit, payees, payments>>
    BY <1>2 DEF begin_payment
  <2>2. telling'[w] = t
    BY <1>0, <2>1
  <2>3. payees[p].status # "PENDING" => PaymentsTo(p) # {}
    BY DEF PaidInv, PaidIsCovered
  <2>4. t.status = "PAID" => payees[p].amount <= PaidTo(p) + a
    <3>1. PaidTo(p) \in Nat /\ payees[p].amount \in Nat /\ a \in Nat
      BY PaidType, DepositConstants
    <3>. QED
      BY <3>1
  <2>5. /\ t.pc = "pay" /\ t.payee = p /\ t.amount = a
        /\ t.loaded = payees[p].status
    OBVIOUS
  <2>. HIDE DEF t
  <2>6. PaidKnown(w)'
    BY <2>1, <2>2, <2>3, <2>4, <2>5, PaidStays DEF PaidKnown
  <2>. QED
    BY <2>1, <2>6, PaidTelling
<1>3. ASSUME flush_payment(w) PROVE PaidInv'
  <2>. DEFINE s == telling[w]
              t == [pc |-> "flushed", payee |-> s.payee, amount |-> s.amount,
                    loaded |-> s.loaded, status |-> s.status,
                    deposit |-> deposit,
                    new |-> IF Total <= deposit_paid_total + s.amount
                              THEN "PAID" ELSE "PARTIALLY_PAID"]
  <2>1. telling' = [telling EXCEPT ![w] = t] /\ s.pc = "pay"
        /\ UNCHANGED <<deposit, payees, payments>>
    BY <1>3 DEF flush_payment, Telling
  <2>2. telling'[w] = t
    BY <1>0, <2>1
  <2>3. /\ s.status = "PAID" => payees[s.payee].amount <= PaidTo(s.payee) + s.amount
        /\ s.loaded # "PENDING" => PaymentsTo(s.payee) # {}
    BY <2>1 DEF PaidInv, PaidKnown, Pays
  <2>4. deposit \notin {"NULL", "PENDING"} => payments # <<>>
    BY DEF PaidInv, PaidIsCovered
  <2>5. /\ t.pc = "flushed" /\ t.payee = s.payee /\ t.amount = s.amount
        /\ t.loaded = s.loaded /\ t.status = s.status /\ t.deposit = deposit
        /\ t.new = "PAID" => Total <= deposit_paid_total + s.amount
    OBVIOUS
  <2>. HIDE DEF s, t
  <2>6. PaidKnown(w)'
    BY <2>1, <2>2, <2>3, <2>4, <2>5, PaidStays DEF PaidKnown
  <2>. QED
    BY <2>1, <2>6, PaidTelling
<1>4. ASSUME crash_teller(w) PROVE PaidInv'
  <2>1. telling' = [telling EXCEPT ![w] = AtCounter]
        /\ UNCHANGED <<deposit, payees, payments>>
    BY <1>4 DEF crash_teller, Served
  <2>2. telling'[w].pc \notin {"pay", "flushed"}
    BY <1>0, <2>1 DEF AtCounter
  <2>3. PaidKnown(w)'
    BY <2>2 DEF PaidKnown, Pays
  <2>. QED
    BY <2>1, <2>3, PaidTelling
<1>. QED
  BY <1>1, <1>2, <1>3, <1>4

\* A payee is committed: no payment is to it.
LEMMA CommitPayeePaid ==
  ASSUME DepositsInv, DepositsInv', PaidInv, NEW w \in Teller, commit_payee(w)
  PROVE  PaidInv'
<1>. DEFINE last == Len(payees) + 1
            row == [amount |-> telling[w].amount, status |-> "PENDING"]
<1>1. /\ payees \in Seq(Payee) /\ payees' = Append(payees, row)
      /\ telling \in [Teller -> Visitor]
      /\ telling' = [telling EXCEPT ![w] = AtCounter]
      /\ UNCHANGED <<deposit, payments>>
  BY DepositRows DEF DepositsInv, commit_payee, Served
<1>2. /\ DOMAIN payees' = DOMAIN payees \cup {last}
      /\ last \notin DOMAIN payees
      /\ \A p \in DOMAIN payees : payees'[p] = payees[p]
      /\ payees'[last].status = "PENDING"
  BY <1>1
<1>. HIDE DEF last, row
<1>3. PaymentsTo(last) = {}
  BY <1>2, BooksAreOK DEF BooksOK, PaymentsTo
<1>4. PaidIsCovered'
  <2>1. PaidIsCovered
    BY DEF PaidInv
  <2>2. /\ deposit' = "PAID" => deposit_paid_total' >= Total
        /\ deposit' \in {"NULL", "PENDING"} <=> payments' = <<>>
    BY <1>1, <2>1, PaidStays DEF PaidIsCovered
  <2>3. ASSUME NEW p \in DOMAIN payees'
        PROVE  /\ payees'[p].status = "PAID" => PaidTo(p)' >= payees'[p].amount
               /\ payees'[p].status = "PENDING" <=> PaymentsTo(p)' = {}
    <3>1. CASE p \in DOMAIN payees
      BY <1>1, <1>2, <2>1, <3>1, PaidStays DEF PaidIsCovered
    <3>2. CASE p = last
      BY <1>1, <1>2, <1>3, <3>2, PaidStays
    <3>. QED
      BY <1>2, <3>1, <3>2
  <2>. QED
    BY <2>2, <2>3 DEF PaidIsCovered
<1>5. ASSUME NEW v \in Teller PROVE PaidKnown(v)'
  <2>1. CASE v = w
    <3>1. telling'[v].pc \notin {"pay", "flushed"}
      BY <1>1, <2>1 DEF AtCounter
    <3>. QED
      BY <3>1 DEF PaidKnown, Pays
  <2>2. CASE v # w
    <3>1. telling'[v] = telling[v] /\ PaidKnown(v)
      BY <1>1, <2>2 DEF PaidInv
    <3>2. Pays(telling[v]) => payees'[telling[v].payee] = payees[telling[v].payee]
      BY <1>2, PaidType
    <3>. QED
      BY <1>1, <3>1, <3>2, PaidStays DEF PaidKnown
  <2>. QED
    BY <2>1, <2>2
<1>. QED
  BY <1>4, <1>5 DEF PaidInv

\* A payment is committed: what it claims its own amount makes true.
LEMMA CommitPaymentPaid ==
  ASSUME DepositsInv, DepositsInv', PaidInv, NEW w \in Teller, commit_payment(w)
  PROVE  PaidInv'
<1>. DEFINE t == telling[w]
<1>1. /\ payees \in Seq(Payee) /\ telling \in [Teller -> Visitor]
      /\ deposit' = Kept(deposit, t.deposit, t.new)
      /\ payees' = [payees EXCEPT ![t.payee].status = Kept(@, t.loaded, t.status)]
      /\ telling' = [telling EXCEPT ![w] = AtCounter]
      /\ t.pc = "flushed" /\ Pays(t)
  BY DepositRows DEF DepositsInv, commit_payment, Served, Telling, Pays
<1>2. /\ t.payee \in DOMAIN payees
      /\ t.status \in {"PAID", "APPROVED"} /\ t.new \in {"PAID", "PARTIALLY_PAID"}
      /\ t.amount \in Nat
  <2>1. t \in [pc : {"flushed"}, payee : DOMAIN payees, amount : Amount,
                loaded : PayeeStatus, status : {"PAID", "APPROVED"},
                deposit : DepositStatus \cup {"NULL"},
                new : {"PAID", "PARTIALLY_PAID"}]
    BY <1>1 DEF Visitor, AtCounter
  <2>. QED
    BY <2>1, DepositConstants
<1>3. /\ DOMAIN payees' = DOMAIN payees
      /\ \A p \in DOMAIN payees :
           /\ payees'[p].amount = payees[p].amount
           /\ payees'[p].status = IF p = t.payee
                                    THEN Kept(payees[p].status, t.loaded, t.status)
                                    ELSE payees[p].status
  <2>1. \A p \in DOMAIN payees : payees[p] \in Payee
    BY <1>1
  <2>. QED
    BY <1>1, <2>1 DEF Payee
<1>4. /\ t.new = "PAID" => Total <= deposit_paid_total + t.amount
      /\ t.deposit \notin {"NULL", "PENDING"} => payments # <<>>
      /\ t.status = "PAID" => payees[t.payee].amount <= PaidTo(t.payee) + t.amount
      /\ t.loaded # "PENDING" => PaymentsTo(t.payee) # {}
  BY <1>1 DEF PaidInv, PaidKnown
<1>. HIDE DEF t
<1>5. /\ deposit_paid_total' = deposit_paid_total + t.amount
      /\ \A p : PaidTo(p)' = PaidTo(p) + IF p = t.payee THEN t.amount ELSE 0
      /\ payments' # <<>>
      /\ \A p : PaymentsTo(p)' # {} <=> PaymentsTo(p) # {} \/ p = t.payee
  BY PaymentAdds DEF t
<1>6. PaidIsCovered
  BY DEF PaidInv
<1>7. /\ deposit_paid_total \in Nat /\ Total \in Nat
      /\ \A p : PaidTo(p) \in Nat
      /\ \A p \in DOMAIN payees : payees[p].amount \in Nat
  BY PaidType, DepositConstants
<1>8. /\ deposit_paid_total' >= deposit_paid_total
      /\ \A p : PaidTo(p)' >= PaidTo(p) /\ PaidTo(p)' \in Nat
      /\ deposit_paid_total' \in Nat
  BY <1>2, <1>5, <1>7
<1>9. PaidIsCovered'
  <2>1. deposit' = "PAID" => deposit_paid_total' >= Total
    BY <1>1, <1>2, <1>4, <1>5, <1>6, <1>7, <1>8 DEF PaidIsCovered, Kept
  <2>2. deposit' \notin {"NULL", "PENDING"}
    BY <1>1, <1>2, <1>4, <1>6 DEF PaidIsCovered, Kept
  <2>3. ASSUME NEW p \in DOMAIN payees
        PROVE  /\ payees'[p].status = "PAID" => PaidTo(p)' >= payees'[p].amount
               /\ payees'[p].status = "PENDING" <=> PaymentsTo(p)' = {}
    <3>1. CASE p # t.payee
      BY <1>3, <1>5, <1>6, <1>7, <3>1 DEF PaidIsCovered
    <3>2. CASE p = t.payee
      <4>1. CASE payees'[p].status = t.status
        BY <1>2, <1>3, <1>4, <1>5, <1>7, <3>2, <4>1
      <4>2. CASE payees'[p].status # t.status
        <5>1. payees'[p].status = payees[p].status /\ t.status = t.loaded
          BY <1>3, <3>2, <4>2 DEF Kept
        <5>2. PaymentsTo(p) # {}
          BY <1>2, <1>4, <3>2, <5>1
        <5>3. /\ payees[p].status = "PAID" => PaidTo(p) >= payees[p].amount
              /\ payees[p].status = "PENDING" <=> PaymentsTo(p) = {}
          BY <1>6 DEF PaidIsCovered
        <5>. QED
          BY <1>3, <1>5, <1>7, <1>8, <5>1, <5>2, <5>3
      <4>. QED
        BY <4>1, <4>2
    <3>. QED
      BY <3>1, <3>2
  <2>. QED
    BY <1>3, <1>5, <2>1, <2>2, <2>3 DEF PaidIsCovered
<1>10. ASSUME NEW v \in Teller PROVE PaidKnown(v)'
  <2>1. CASE v = w
    <3>1. telling'[v].pc \notin {"pay", "flushed"}
      BY <1>1, <2>1 DEF AtCounter
    <3>. QED
      BY <3>1 DEF PaidKnown, Pays
  <2>2. CASE v # w
    <3>1. telling'[v] = telling[v] /\ PaidKnown(v)
      BY <1>1, <2>2 DEF PaidInv
    <3>2. Pays(telling[v]) =>
            /\ telling[v].amount \in Nat
            /\ telling[v].payee \in DOMAIN payees
      BY PaidType
    <3>3. telling[v].pc = "flushed" => Pays(telling[v])
      BY DEF Pays
    <3>4. telling[v].pc = "flushed" =>
            /\ telling[v].new = "PAID" =>
                 Total <= deposit_paid_total' + telling[v].amount
            /\ telling[v].deposit \notin {"NULL", "PENDING"} => payments' # <<>>
      BY <1>5, <1>7, <1>8, <3>1, <3>2, <3>3 DEF PaidKnown
    <3>5. Pays(telling[v]) =>
            /\ telling[v].status = "PAID" =>
                 payees'[telling[v].payee].amount
                   <= PaidTo(telling[v].payee)' + telling[v].amount
            /\ telling[v].loaded # "PENDING" => PaymentsTo(telling[v].payee)' # {}
      BY <1>3, <1>5, <1>7, <1>8, <3>1, <3>2 DEF PaidKnown
    <3>. QED
      BY <3>1, <3>4, <3>5 DEF PaidKnown
  <2>. QED
    BY <2>1, <2>2
<1>. QED
  BY <1>9, <1>10 DEF PaidInv

\* Every step preserves it.
LEMMA PaidStep ==
  ASSUME DepositsInv, DepositsInv', PaidInv, [NextDeposits]_depositVars
  PROVE  PaidInv'
<1>1. CASE UNCHANGED <<payees, payments, telling>>
             /\ (deposit' = deposit \/ create_deposit)
  <2>1. PaidIsCovered'
    BY <1>1, PaidStays DEF PaidInv, PaidIsCovered, create_deposit
  <2>2. ASSUME NEW v \in Teller PROVE PaidKnown(v)'
    BY <1>1, PaidStays DEF PaidInv, PaidKnown
  <2>. QED
    BY <2>1, <2>2 DEF PaidInv
<1>2. ASSUME NEW w \in Teller,
             \/ \E a \in Amount : begin_payee(w, a)
             \/ \E p \in DOMAIN payees, a \in Amount : begin_payment(w, p, a)
             \/ flush_payment(w)
             \/ crash_teller(w)
      PROVE  PaidInv'
  BY <1>2, PaidTellingPreserves
<1>. QED
  BY <1>1, <1>2, CommitPayeePaid, CommitPaymentPaid
     DEF NextDeposits, depositVars, create_deposit

\* What holds of the deposit, its rows and the tellers.
BooksInv ==
  DepositsInv /\ Bounded(payees, payments, telling) /\ PaidInv

\* Nothing is allocated or paid at first.
LEMMA BooksInit == InitDeposits => BooksInv
<1>. SUFFICES ASSUME InitDeposits
              PROVE  BooksInv
  OBVIOUS
<1>1. DepositsInv /\ PaidInv
  BY DepositsInit, PaidInit
<1>2. /\ DOMAIN payees = {} /\ Offering(telling) = {}
      /\ \A w \in Teller : telling[w].pc # "payee" /\ ~Pays(telling[w])
  BY DEF InitDeposits, AtCounter, Offering, Pays
<1>3. Cardinality(Teller) * Total \in Nat
  BY DepositConstants, FS_CardinalityType
<1>4. Bounded(payees, payments, telling)
  BY <1>2, <1>3, SumByEmpty DEF Bounded
<1>. QED
  BY <1>1, <1>4 DEF BooksInv

\* Every step preserves it.
LEMMA BooksStep ==
  ASSUME BooksInv, [NextDeposits]_depositVars
  PROVE  BooksInv'
BY DepositsStep, BoundsStep, PaidStep DEF BooksInv

\* However checks and commits of tellers interleave, the rows and what each
\* goes by fit together.
THEOREM DepositsInvariant == SpecDeposits => []BooksInv
BY BooksInit, BooksStep, PTL DEF SpecDeposits

\* DepositService.add_payee and record_payment check sums of committed rows: n
\* tellers allocate no more than n totals, and pay no payee more than n times
\* its amount.
THEOREM SumsAlwaysBounded == SpecDeposits => []SumsBounded
<1>1. BooksInv => SumsBounded
  BY BoundedSums DEF BooksInv
<1>. QED
  BY <1>1, DepositsInvariant, PTL

\* DepositService.record_payment: a deposit or payee that says PAID is paid in
\* full, and one with a payment does not say PENDING.
THEOREM PaidAlwaysCovered == SpecDeposits => []PaidIsCovered
<1>1. BooksInv => PaidIsCovered
  BY DEF BooksInv, PaidInv
<1>. QED
  BY <1>1, DepositsInvariant, PTL

-----------------------------------------------------------------------------
(* The components together.  Invoices and options are the two that write     *)
(* approval rows, and neither minds those of the other.                      *)

OfficeInv ==
  /\ InvoicesInv
  /\ PropertiesInv
  /\ DocumentsInv
  /\ OrganizationInv
  /\ BooksInv

\* Steps of invoices leave the options as they are, and the other way round.
LEMMA PropertiesLeftAlone ==
  ASSUME PropertiesInv, ApprovalsInv',
         UNCHANGED <<options, option_events, surveying>>
  PROVE  PropertiesInv'
<1>1. OptionsOK'
  BY OptionsKept DEF PropertiesInv
<1>. QED
  BY <1>1 DEF PropertiesInv, Visit, Informed

\* A step of another register keeps what is said of the invoices.
LEMMA InvoicesLeftAlone ==
  ASSUME InvoicesInv, ApprovalsInv', Grows, UNCHANGED <<invoices, invoicing>>
  PROVE  InvoicesInv'
BY RowsKept, NoWorkerStep

\* Initially every component is as it begins.
LEMMA OfficeInit == InitOffice => OfficeInv
BY InvoicesInit, PropertiesInit, DocumentsInit, OrganizationInit, BooksInit
   DEF InitOffice, OfficeInv

\* Every step of a component preserves the invariants of all.
LEMMA OfficeStep ==
  ASSUME OfficeInv, [NextOffice]_officeVars
  PROVE  OfficeInv'
<1>0. InvoicesInv /\ PropertiesInv /\ DocumentsInv /\ OrganizationInv
      /\ BooksInv
  BY DEF OfficeInv
<1>1. UNCHANGED invoiceVars => InvoicesInv'
  BY <1>0, InvoicesStep
<1>2. UNCHANGED propertyVars => PropertiesInv'
  BY <1>0, PropertiesStep
<1>3. UNCHANGED documentVars => DocumentsInv'
  BY <1>0, DocumentsStep
<1>4. UNCHANGED organizationVars => OrganizationInv'
  BY <1>0, OrganizationStep
<1>5. UNCHANGED depositVars => BooksInv'
  BY <1>0, BooksStep
<1>6. CASE UNCHANGED officeVars
  <2>1. UNCHANGED <<invoiceVars, propertyVars, documentVars, organizationVars,
                    depositVars>>
    BY <1>6 DEF officeVars
  <2>. QED
    BY <1>1, <1>2, <1>3, <1>4, <1>5, <2>1 DEF OfficeInv
<1>7. CASE NextInvoices /\ UNCHANGED BesideInvoices
  <2>1. /\ UNCHANGED <<documentVars, organizationVars, depositVars>>
        /\ UNCHANGED <<options, option_events, surveying>>
    BY <1>7 DEF BesideInvoices, BesideApprovals
  <2>2. InvoicesInv'
    BY <1>0, <1>7, InvoicesStep
  <2>3. PropertiesInv'
    BY <1>0, <2>1, <2>2, PropertiesLeftAlone DEF InvoicesInv
  <2>. QED
    BY <1>3, <1>4, <1>5, <2>1, <2>2, <2>3 DEF OfficeInv
<1>8. CASE NextProperties /\ UNCHANGED BesideProperties
  <2>1. /\ UNCHANGED <<documentVars, organizationVars, depositVars>>
        /\ UNCHANGED <<invoices, invoicing>>
    BY <1>8 DEF BesideProperties, BesideApprovals
  <2>2. PropertiesInv' /\ Grows
    BY <1>0, <1>8, PropertiesStep
  <2>3. InvoicesInv'
    BY <1>0, <2>1, <2>2, InvoicesLeftAlone DEF PropertiesInv
  <2>. QED
    BY <1>3, <1>4, <1>5, <2>1, <2>2, <2>3 DEF OfficeInv
<1>9. CASE NextDeposits /\ UNCHANGED BesideDeposits
  BY <1>0, <1>1, <1>2, <1>3, <1>4, <1>9, BooksStep
     DEF BesideDeposits, OfficeInv
<1>10. CASE (NextLOA \/ NextAgreement) /\ UNCHANGED BesideDocuments
  BY <1>0, <1>1, <1>2, <1>4, <1>5, <1>10, DocumentsStep
     DEF BesideDocuments, NextDocuments, OfficeInv
<1>11. CASE NextOrganization /\ UNCHANGED BesideOrganization
  BY <1>0, <1>1, <1>2, <1>3, <1>5, <1>11, OrganizationStep
     DEF BesideOrganization, OfficeInv
<1>12. CASE UNCHANGED BesideComparison
  BY <1>1, <1>2, <1>3, <1>4, <1>5, <1>12 DEF BesideComparison, OfficeInv
<1>. QED
  BY <1>6, <1>7, <1>8, <1>9, <1>10, <1>11, <1>12 DEF NextOffice

\* The invariant is one.
THEOREM OfficeInvariant == SpecOffice => []OfficeInv
BY OfficeInit, OfficeStep, PTL DEF SpecOffice

\* Rows, trails and approval rows of all components are well formed, also where
\* a worker writes rows it loaded long ago; a worker that decides on an invoice
\* holds an approval row of that invoice.
THEOREM OfficeTypeCorrect == SpecOffice => []TypeOKOffice
<1>1. InvoicesInv => TypeOKInvoices
  BY DEF InvoicesInv, RowsOK, ApprovalsInv, Grounded, TypeOKInvoices, InvoiceAt
<1>2. PropertiesInv => TypeOKProperties
  BY DEF PropertiesInv, OptionsOK, OptionRow, OptionEvent, ApprovalsInv,
         TypeOKProperties
<1>3. OfficeInv => TypeOKOffice
  BY <1>1, <1>2 DEF OfficeInv, DocumentsInv, OrganizationInv, BooksInv,
     DepositsInv, TypeOKOffice
<1>. QED
  BY <1>3, OfficeInvariant, PTL

\* Agreements and options: a change lost to another session always shows as a
\* break in the trail.
THEOREM LostChangesAlwaysShow == SpecOffice => []TrailsShowLostChanges
<1>1. OfficeInv => TrailsShowLostChanges
  BY DEF OfficeInv, PropertiesInv, OptionsOK, DocumentsInv,
         TrailsShowLostChanges
<1>. QED
  BY <1>1, OfficeInvariant, PTL

-----------------------------------------------------------------------------
(* The numbers of cases.                                                   *)

\* The cases committed.
filed == Cardinality(numbers)

\* A known requester has made one attempt more than cases have been committed
\* since, at most, and the number a worker has taken may be committed by now
\* but is never beyond the next one.
Counted(w) ==
  LET t == creating[w] IN
  /\ since[w] <= filed
  /\ t.pc = "count" /\ t.known => since[w] + t.attempt <= filed + 1
  /\ t.pc \in {"flush", "flushed"} =>
       /\ t.number \in 1..(filed + 1)
       /\ t.known => since[w] + t.attempt <= t.number
  /\ t.pc = "flushed" => t.number \notin numbers /\ t.known

NumbersInv ==
  /\ TypeOKNumbers
  /\ numbers = 1..filed
  /\ \A w \in Creator : Counted(w)
  /\ \A v, w \in Creating("flushed") : v = w

\* The number of elements of a set of first numbers.
LEMMA CardinalityOfFirst ==
  ASSUME NEW k \in Nat
  PROVE  Cardinality(1..k) = k /\ IsFiniteSet(1..k)
BY FS_Interval

\* It is a number.
LEMMA CountType == TypeOKNumbers => filed \in Nat
BY FS_CardinalityType DEF TypeOKNumbers, filed

\* A worker holding a number holds the next one.
LEMMA HeldIsNext ==
  ASSUME NumbersInv, NEW w \in Creating("flushed")
  PROVE  creating[w].number = filed + 1
<1>1. filed \in Nat
  BY CountType DEF NumbersInv
<1>2. Counted(w) /\ creating[w].pc = "flushed"
  BY DEF NumbersInv, Creating
<1>. QED
  BY <1>1, <1>2 DEF Counted, NumbersInv

\* The invariant has the property.
LEMMA InvGapless == NumbersInv => NumbersGapless
BY HeldIsNext DEF NumbersInv, NumbersGapless, filed

\* Initially nothing is committed.
LEMMA NumbersInit == InitNumbers => NumbersInv
<1>1. Cardinality({}) = 0 /\ IsFiniteSet({}) /\ {} = 1..0
  BY FS_EmptySet
<1>. QED
  BY <1>1 DEF InitNumbers, NumbersInv, TypeOKNumbers, Counted, filed, Creating,
              Rest, Ticket

-----------------------------------------------------------------------------
(* Every step preserves the invariant.                                     *)

\* A step that moves one worker, not to holding a number, and commits nothing.
LEMMA MovePreserves ==
  ASSUME NumbersInv, NEW w \in Creator, NEW t \in Ticket,
         t.pc # "flushed", numbers' = numbers,
         creating' = [creating EXCEPT ![w] = t],
         since' \in [Creator -> Nat],
         \A v \in Creator \ {w} : since'[v] = since[v],
         Counted(w)'
  PROVE  NumbersInv'
<1>1. filed' = filed /\ TypeOKNumbers'
  BY DEF filed, NumbersInv, TypeOKNumbers
<1>2. \A v \in Creator \ {w} : creating'[v] = creating[v]
  BY DEF NumbersInv, TypeOKNumbers
<1>3. \A v \in Creator : Counted(v)'
  <2>. SUFFICES ASSUME NEW v \in Creator, v # w PROVE Counted(v)'
    OBVIOUS
  <2>. QED
    BY <1>1, <1>2 DEF Counted, NumbersInv
<1>4. creating'[w] = t
  BY DEF NumbersInv, TypeOKNumbers
<1>5. Creating("flushed")' \subseteq Creating("flushed")
  BY <1>2, <1>4 DEF Creating
<1>. QED
  BY <1>1, <1>3, <1>5 DEF NumbersInv

\* A failed flush.
LEMMA FailedFlush ==
  ASSUME NumbersInv, NEW w \in Creating("flush"), fail_flush(w),
         creating[w].known => creating[w].number \in numbers,
         UNCHANGED <<numbers, since>>
  PROVE  NumbersInv'
<1>1. w \in Creator /\ Counted(w) /\ filed \in Nat /\ numbers = 1..filed
  BY CountType DEF NumbersInv, Creating
<1>2. /\ creating[w].pc = "flush" /\ creating[w].attempt \in 1..Attempts
      /\ creating[w].known \in BOOLEAN
  BY DEF NumbersInv, TypeOKNumbers, Creating, Ticket, Rest, Conflicted
<1>3. since' \in [Creator -> Nat] /\ since[w] \in Nat /\ since' = since
  BY <1>1 DEF NumbersInv, TypeOKNumbers
<1>4. CASE creating[w].attempt = Attempts
  <2>1. creating' = [creating EXCEPT ![w] = Conflicted]
    BY <1>4 DEF fail_flush, Conflict
  <2>2. creating'[w] = Conflicted
    BY <1>1, <2>1 DEF NumbersInv, TypeOKNumbers
  <2>3. Counted(w)'
    BY <1>1, <1>3, <2>2 DEF Counted, Conflicted, filed
  <2>. QED
    BY <1>1, <1>3, <2>1, <2>3, MovePreserves DEF Ticket, Conflicted
<1>5. CASE creating[w].attempt # Attempts
  <2>. DEFINE t == [pc |-> "count", attempt |-> creating[w].attempt + 1,
                    known |-> creating[w].known]
  <2>1. creating' = [creating EXCEPT ![w] = t]
    BY <1>5 DEF fail_flush
  <2>2. creating'[w] = t
    BY <1>1, <2>1 DEF NumbersInv, TypeOKNumbers
  <2>3. t \in Ticket
    BY <1>2, <1>5 DEF Ticket, Attempts
  <2>4. creating[w].known => since[w] + creating[w].attempt <= filed
    BY <1>1, <1>2, <1>3 DEF Counted, Attempts
  <2>5. Counted(w)'
    BY <1>1, <1>2, <1>3, <2>2, <2>4 DEF Counted, filed, Attempts
  <2>. QED
    BY <1>1, <1>3, <2>1, <2>3, <2>5, MovePreserves
<1>. QED
  BY <1>4, <1>5

\* A flush that stands: nobody else holds a number, for that would be the
\* next one, too.
LEMMA StandingFlush ==
  ASSUME NumbersInv, NEW w \in Creating("flush"),
         ~Held(creating[w].number), creating[w].known,
         creating[w].number \notin numbers,
         creating' = [creating EXCEPT ![w].pc = "flushed"],
         UNCHANGED <<numbers, since>>
  PROVE  NumbersInv'
<1>1. w \in Creator /\ Counted(w) /\ filed \in Nat /\ numbers = 1..filed /\ filed' = filed
  BY CountType DEF NumbersInv, Creating, filed
<1>2. creating[w] \in [pc : {"flush", "flushed"}, attempt : 1..Attempts,
                       known : BOOLEAN, number : Nat]
      /\ creating[w].pc = "flush"
  BY DEF NumbersInv, TypeOKNumbers, Creating, Ticket, Rest, Conflicted
<1>3. creating[w].number = filed + 1
  BY <1>1, <1>2 DEF Counted
<1>4. Creating("flushed") = {}
  BY <1>3, HeldIsNext DEF Held
<1>5. creating'[w] = [creating[w] EXCEPT !.pc = "flushed"]
      /\ \A v \in Creator \ {w} : creating'[v] = creating[v]
  BY <1>1 DEF NumbersInv, TypeOKNumbers
<1>6. TypeOKNumbers'
  BY <1>1, <1>2 DEF NumbersInv, TypeOKNumbers, Ticket
<1>7. \A v \in Creator : Counted(v)'
  <2>1. Counted(w)'
    BY <1>1, <1>2, <1>3, <1>5 DEF Counted, NumbersInv
  <2>2. ASSUME NEW v \in Creator \ {w} PROVE Counted(v)'
    BY <1>1, <1>5 DEF Counted, NumbersInv
  <2>. QED
    BY <2>1, <2>2
<1>8. Creating("flushed")' \subseteq {w}
  BY <1>4, <1>5 DEF Creating
<1>. QED
  BY <1>1, <1>6, <1>7, <1>8 DEF NumbersInv

\* A commit.
LEMMA CommitPreserves ==
  ASSUME NumbersInv, NEW w \in Creator, commit_case(w)
  PROVE  NumbersInv' /\ filed' = filed + 1
<1>1. w \in Creating("flushed") /\ filed \in Nat /\ numbers = 1..filed
  BY CountType DEF commit_case, NumbersInv
<1>2. creating[w].number = filed + 1
  BY <1>1, HeldIsNext
<1>3. numbers' = 1..(filed + 1)
  BY <1>1, <1>2 DEF commit_case
<1>4. filed' = filed + 1 /\ IsFiniteSet(numbers')
  BY <1>1, <1>3, CardinalityOfFirst, filed + 1 \in Nat DEF filed
<1>5. creating'[w] = Rest /\ since' = since
      /\ \A v \in Creator \ {w} : creating'[v] = creating[v]
  BY DEF commit_case, Rested, NumbersInv, TypeOKNumbers
<1>6. TypeOKNumbers'
  BY <1>1, <1>3, <1>4 DEF commit_case, Rested, NumbersInv, TypeOKNumbers, Ticket
<1>7. \A v \in Creator \ {w} : creating[v].pc # "flushed"
  BY <1>1 DEF NumbersInv, Creating
<1>8. ASSUME NEW v \in Creator PROVE Counted(v)'
  <2>1. since[v] \in Nat /\ creating[v] \in Ticket /\ Counted(v)
    BY DEF NumbersInv, TypeOKNumbers
  <2>2. CASE v = w
    BY <1>1, <1>4, <1>5, <2>1, <2>2 DEF Counted, Rest
  <2>3. CASE v # w
    <3>1. creating'[v] = creating[v] /\ creating[v].pc # "flushed"
      BY <1>5, <1>7, <2>3
    <3>2. creating[v].pc = "count" => creating[v].attempt \in Nat
      BY <2>1 DEF Ticket, Rest, Conflicted, Attempts
    <3>. QED
      BY <1>1, <1>4, <1>5, <2>1, <3>1, <3>2 DEF Counted
  <2>. QED
    BY <2>2, <2>3
<1>9. Creating("flushed")' = {}
  BY <1>5, <1>7 DEF Creating, Rest
<1>. QED
  BY <1>3, <1>4, <1>6, <1>8, <1>9 DEF NumbersInv

-----------------------------------------------------------------------------
(* The theorems.                                                           *)

\* Beginning a create.
LEMMA BeginPreserves ==
  ASSUME NumbersInv, NEW w \in Creator, NEW known \in BOOLEAN,
         begin_create(w, known)
  PROVE  NumbersInv'
<1>. DEFINE t == [pc |-> "count", attempt |-> 1, known |-> known]
<1>1. filed \in Nat /\ since \in [Creator -> Nat]
  BY CountType DEF NumbersInv, TypeOKNumbers
<1>2. /\ creating' = [creating EXCEPT ![w] = t]
      /\ since' = [since EXCEPT ![w] = filed] /\ numbers' = numbers
  BY DEF begin_create, filed
<1>3. t \in Ticket
  BY DEF Ticket, Attempts
<1>4. creating'[w] = t
  BY <1>2 DEF NumbersInv, TypeOKNumbers
<1>5. Counted(w)'
  BY <1>1, <1>2, <1>4 DEF Counted, filed
<1>. QED
  BY <1>1, <1>2, <1>3, <1>5, MovePreserves

\* Counting the cases.
LEMMA CountingPreserves ==
  ASSUME NumbersInv, NEW w \in Creator, next_opening_number(w)
  PROVE  NumbersInv'
<1>. DEFINE t == [pc |-> "flush", attempt |-> creating[w].attempt,
                  known |-> creating[w].known, number |-> filed + 1]
<1>1. filed \in Nat /\ since \in [Creator -> Nat] /\ Counted(w)
  BY CountType DEF NumbersInv, TypeOKNumbers
<1>2. /\ creating[w].pc = "count" /\ creating[w].attempt \in 1..Attempts
      /\ creating[w].known \in BOOLEAN
  BY DEF next_opening_number, NumbersInv, TypeOKNumbers, Creating, Ticket,
         Rest, Conflicted
<1>3. /\ creating' = [creating EXCEPT ![w] = t]
      /\ since' = since /\ numbers' = numbers
  BY DEF next_opening_number, filed
<1>4. t \in Ticket
  BY <1>1, <1>2 DEF Ticket
<1>5. creating'[w] = t
  BY <1>3 DEF NumbersInv, TypeOKNumbers
<1>6. Counted(w)'
  BY <1>1, <1>2, <1>3, <1>5 DEF Counted, filed, Attempts
<1>. QED
  BY <1>1, <1>3, <1>4, <1>6, MovePreserves

\* A crash.
LEMMA CrashPreserves ==
  ASSUME NumbersInv, NEW w \in Creator, crash_create(w)
  PROVE  NumbersInv'
<1>1. /\ creating' = [creating EXCEPT ![w] = Rest]
      /\ since' = since /\ numbers' = numbers /\ filed' = filed
      /\ since \in [Creator -> Nat] /\ Counted(w)
  BY DEF crash_create, Rested, filed, NumbersInv, TypeOKNumbers
<1>2. Counted(w)' /\ Rest \in Ticket
  BY <1>1 DEF Counted, Rest, Ticket, NumbersInv, TypeOKNumbers
<1>. QED
  BY <1>1, <1>2, MovePreserves DEF Rest

\* Flushing, which stands or fails.
LEMMA FlushPreserves ==
  ASSUME NumbersInv, NEW w \in Creator, flush_case(w)
  PROVE  NumbersInv'
<1>1. w \in Creating("flush") /\ UNCHANGED <<numbers, since>>
      /\ ~Held(creating[w].number)
  BY DEF flush_case
<1>2. CASE creating[w].known /\ creating[w].number \notin numbers
  BY <1>1, <1>2, StandingFlush DEF flush_case
<1>3. CASE ~(creating[w].known /\ creating[w].number \notin numbers)
  BY <1>1, <1>3, FailedFlush DEF flush_case
<1>. QED
  BY <1>2, <1>3

\* Every step preserves the invariant.
LEMMA NumbersStep == NumbersInv /\ [NextNumbers]_numberVars => NumbersInv'
<1>. SUFFICES ASSUME NumbersInv, [NextNumbers]_numberVars PROVE NumbersInv'
  OBVIOUS
<1>1. CASE UNCHANGED numberVars
  BY <1>1 DEF numberVars, NumbersInv, TypeOKNumbers, Counted, Creating, filed
<1>2. ASSUME NEW w \in Creator, NEW known \in BOOLEAN, begin_create(w, known)
      PROVE NumbersInv'
  BY <1>2, BeginPreserves
<1>3. ASSUME NEW w \in Creator, work(w) PROVE NumbersInv'
  BY <1>3, CountingPreserves, CommitPreserves DEF work
<1>4. ASSUME NEW w \in Creator, flush_case(w) PROVE NumbersInv'
  BY <1>4, FlushPreserves
<1>5. ASSUME NEW w \in Creator, crash_create(w) PROVE NumbersInv'
  BY <1>5, CrashPreserves
<1>. QED
  BY <1>1, <1>2, <1>3, <1>4, <1>5 DEF NextNumbers

\* The invariant holds.
THEOREM NumbersInvariant == SpecNumbers => []NumbersInv
BY NumbersInit, NumbersStep, PTL DEF SpecNumbers

\* OpeningService.create: rows, workers and counts keep their types.
THEOREM NumbersTypeCorrect == SpecNumbers => []TypeOKNumbers
<1>1. NumbersInv => TypeOKNumbers
  BY DEF NumbersInv
<1>. QED
  BY <1>1, NumbersInvariant, PTL

\* next_opening_number and the unique constraint: whatever calls race, fail or
\* die, the committed cases are numbered from 1 without a gap.
THEOREM NumbersAreGapless == SpecNumbers => []NumbersGapless
BY InvGapless, NumbersInvariant, PTL

-----------------------------------------------------------------------------
(* CaseNumbers implements CaseRegister.                                    *)

\* asks, as the refinement maps it.
asked == [w \in Creator |-> Asked(w)]

\* A step of w changes what w asks for at most.
LEMMA OthersAsk ==
  ASSUME NumbersInv, NEW w \in Creator, NEW t, NEW s,
         creating' = [creating EXCEPT ![w] = t],
         since' = [since EXCEPT ![w] = s]
  PROVE  asked' = [asked EXCEPT ![w] = Asked(w)']
<1>1. /\ creating \in [Creator -> Ticket] /\ since \in [Creator -> Nat]
  BY DEF NumbersInv, TypeOKNumbers
<1>2. ASSUME NEW v \in Creator, v # w PROVE Asked(v)' = Asked(v)
  <2>1. creating'[v] = creating[v] /\ since'[v] = since[v]
    BY <1>1, <1>2
  <2>2. v \in Idle' <=> v \in Idle
    BY <2>1 DEF Idle, Creating
  <2>. QED
    BY <2>1, <2>2 DEF Asked
<1>. QED
  BY <1>2 DEF asked

\* Being idle is having that pc.
LEMMA IdlePc ==
  \A w \in Creator : w \in Idle <=> creating[w].pc \in {"rest", "refused"}
BY DEF Idle, Creating

\* A worker at work asks.
LEMMA AtWorkAsks ==
  ASSUME NEW w \in Creator, creating[w].pc \notin {"rest", "refused"}
  PROVE  Asked(w) = [state |-> "asking", since |-> since[w],
                     known |-> creating[w].known]
BY IdlePc DEF Asked

\* The first state.
LEMMA PromiseInit == InitNumbers => Promise!Init
<1>. SUFFICES ASSUME InitNumbers PROVE Promise!Init
  OBVIOUS
<1>1. Cardinality(numbers) = 0
  BY FS_EmptySet DEF InitNumbers
<1>2. \A w \in Creator : Asked(w) = Promise!None
  BY IdlePc DEF InitNumbers, Asked, Rest, Promise!None
<1>. QED
  BY <1>1, <1>2 DEF Promise!Init

\* A step that leaves what everybody asks for.
LEMMA PromiseStutter ==
  ASSUME NumbersInv, NEW w \in Creator, NEW t,
         creating[w].pc \notin {"rest", "refused"},
         t.pc \notin {"rest", "refused"}, t.known = creating[w].known,
         creating' = [creating EXCEPT ![w] = t],
         UNCHANGED <<numbers, since>>
  PROVE  UNCHANGED Promise!registerVars
<1>1. creating'[w] = t /\ since' = [since EXCEPT ![w] = since[w]]
      /\ since'[w] = since[w]
  BY DEF NumbersInv, TypeOKNumbers
<1>2. Asked(w) = [state |-> "asking", since |-> since[w],
                  known |-> creating[w].known]
  BY AtWorkAsks
<1>3. creating'[w].pc \notin {"rest", "refused"}
  BY <1>1
<1>4. w \notin Idle'
  BY <1>3 DEF Idle, Creating
<1>5. Asked(w)' = Asked(w)
  BY <1>1, <1>2, <1>4 DEF Asked
<1>6. asked' = [asked EXCEPT ![w] = Asked(w)]
  BY <1>1, <1>5, OthersAsk
<1>7. asked' = asked
  BY <1>6 DEF asked
<1>. QED
  BY <1>7 DEF Promise!registerVars, asked

\* Each step of the code is a step of the register, or leaves it alone.
LEMMA PromiseStep ==
  ASSUME NumbersInv, NumbersInv', [NextNumbers]_numberVars
  PROVE  [Promise!Next]_(Promise!registerVars)
<1>. DEFINE R == [Promise!Next]_(Promise!registerVars)
<1>0. filed \in Nat /\ filed = Cardinality(numbers)
      /\ creating \in [Creator -> Ticket] /\ since \in [Creator -> Nat]
  BY CountType DEF NumbersInv, TypeOKNumbers, filed
<1>1. CASE UNCHANGED numberVars
  BY <1>1 DEF numberVars, Promise!registerVars, Asked, Idle, Creating
<1>2. ASSUME NEW w \in Creator, NEW known \in BOOLEAN, begin_create(w, known)
      PROVE R
  <2>. DEFINE t == [pc |-> "count", attempt |-> 1, known |-> known]
  <2>1. /\ creating' = [creating EXCEPT ![w] = t]
        /\ since' = [since EXCEPT ![w] = filed] /\ numbers' = numbers /\ w \in Idle
    BY <1>2 DEF begin_create, filed
  <2>2. creating'[w] = t /\ since'[w] = filed
    BY <1>0, <2>1
  <2>3. w \notin Idle'
    BY <2>2 DEF Idle, Creating
  <2>4. Asked(w)' = [state |-> "asking", known |-> known, since |-> filed]
    BY <2>2, <2>3 DEF Asked
  <2>5. asked' = [asked EXCEPT ![w] = Asked(w)']
    BY <2>1, OthersAsk
  <2>6. Asked(w).state # "asking"
    BY <2>1 DEF Asked
  <2>7. Promise!Ask(w)
    BY <1>0, <2>1, <2>4, <2>5, <2>6 DEF Promise!Ask, Promise!Asking, asked
  <2>. QED
    BY <2>7 DEF Promise!Next
<1>3. ASSUME NEW w \in Creator, next_opening_number(w) PROVE R
  <2>. DEFINE t == [pc |-> "flush", attempt |-> creating[w].attempt,
                    known |-> creating[w].known, number |-> filed + 1]
  <2>1. /\ creating' = [creating EXCEPT ![w] = t] /\ creating[w].pc = "count"
        /\ UNCHANGED <<numbers, since>>
    BY <1>3 DEF next_opening_number, filed, Creating
  <2>. QED
    BY <2>1, PromiseStutter
<1>4. ASSUME NEW w \in Creator, commit_case(w) PROVE R
  <2>1. /\ creating' = [creating EXCEPT ![w] = Rest]
        /\ since' = [since EXCEPT ![w] = since[w]] /\ filed' = filed + 1
        /\ creating[w].pc = "flushed"
    BY <1>0, <1>4, CommitPreserves DEF commit_case, Rested, Creating
  <2>2. creating'[w] = Rest
    BY <1>0, <2>1
  <2>3. w \in Idle' /\ Asked(w)' = Promise!None
    BY <2>2 DEF Idle, Creating, Rest, Asked, Promise!None
  <2>4. asked' = [asked EXCEPT ![w] = Asked(w)']
    BY <2>1, OthersAsk
  <2>5. Counted(w)
    BY DEF NumbersInv
  <2>6. Asked(w) = [state |-> "asking", since |-> since[w], known |-> TRUE]
    <3>1. creating[w].known = TRUE
      BY <1>0, <2>1, <2>5 DEF Counted, Ticket, Rest, Conflicted
    <3>. QED
      BY <2>1, <3>1, AtWorkAsks
  <2>7. Promise!Register(w)
    BY <2>1, <2>3, <2>4, <2>6 DEF Promise!Register, Promise!Asking, asked, filed
  <2>. QED
    BY <2>7 DEF Promise!Next
<1>5. ASSUME NEW w \in Creator, flush_case(w) PROVE R
  <2>1. /\ creating[w].pc = "flush" /\ w \in Creating("flush")
        /\ UNCHANGED <<numbers, since>>
    BY <1>5 DEF flush_case, Creating
  <2>2. CASE creating' = [creating EXCEPT ![w].pc = "flushed"]
    <3>. DEFINE t == [creating[w] EXCEPT !.pc = "flushed"]
    <3>1. creating[w] \in [pc : {"flush", "flushed"}, attempt : 1..Attempts,
                           known : BOOLEAN, number : Nat]
      BY <1>0, <2>1 DEF Ticket, Rest, Conflicted
    <3>2. t.pc = "flushed" /\ t.known = creating[w].known
      BY <3>1
    <3>3. creating' = [creating EXCEPT ![w] = t]
      BY <2>2
    <3>. QED
      BY <2>1, <3>2, <3>3, PromiseStutter
  <2>3. CASE fail_flush(w) /\ creating[w].attempt # Attempts
    <3>. DEFINE t == [pc |-> "count", attempt |-> creating[w].attempt + 1,
                      known |-> creating[w].known]
    <3>1. creating' = [creating EXCEPT ![w] = t]
      BY <2>3 DEF fail_flush
    <3>. QED
      BY <2>1, <3>1, PromiseStutter
  <2>4. CASE /\ fail_flush(w) /\ creating[w].attempt = Attempts
             /\ ~(creating[w].known /\ creating[w].number \notin numbers)
    <3>1. /\ creating' = [creating EXCEPT ![w] = Conflicted]
          /\ since' = [since EXCEPT ![w] = since[w]] /\ numbers' = numbers
      BY <1>0, <2>1, <2>4 DEF fail_flush, Conflict
    <3>2. creating'[w] = Conflicted
      BY <1>0, <3>1
    <3>3. w \in Idle' /\ Asked(w)' = Promise!Refused
      BY <3>2 DEF Idle, Creating, Conflicted, Asked, Promise!Refused
    <3>4. asked' = [asked EXCEPT ![w] = Asked(w)']
      BY <3>1, OthersAsk
    <3>5. Asked(w) = [state |-> "asking", since |-> since[w],
                      known |-> creating[w].known]
      BY <2>1, AtWorkAsks
    <3>6. creating[w].known => filed >= since[w] + Attempts
      <4>1. numbers = 1..filed /\ Counted(w)
        BY DEF NumbersInv
      <4>2. ASSUME creating[w].known PROVE creating[w].number \in 1..filed
        BY <2>4, <4>1, <4>2
      <4>3. since[w] \in Nat
        BY <1>0
      <4>4. ASSUME creating[w].known
            PROVE  since[w] + Attempts <= creating[w].number
        BY <2>1, <2>4, <4>1, <4>4 DEF Counted
      <4>. QED
        BY <1>0, <4>2, <4>3, <4>4 DEF Attempts
    <3>7. Promise!Refuse(w)
      BY <1>0, <3>1, <3>3, <3>4, <3>5, <3>6
      DEF Promise!Refuse, Promise!Asking, asked
    <3>. QED
      BY <3>7 DEF Promise!Next
  <2>. QED
    BY <1>5, <2>2, <2>3, <2>4 DEF flush_case
<1>6. ASSUME NEW w \in Creator, crash_create(w) PROVE R
  <2>1. /\ creating' = [creating EXCEPT ![w] = Rest] /\ w \notin Idle
        /\ since' = [since EXCEPT ![w] = since[w]] /\ numbers' = numbers
    BY <1>0, <1>6 DEF crash_create, Rested
  <2>2. creating'[w] = Rest
    BY <1>0, <2>1
  <2>3. w \in Idle' /\ Asked(w)' = Promise!None
    BY <2>2 DEF Idle, Creating, Rest, Asked, Promise!None
  <2>4. asked' = [asked EXCEPT ![w] = Asked(w)']
    BY <2>1, OthersAsk
  <2>5. Asked(w).state = "asking"
    BY <2>1 DEF Asked
  <2>6. Promise!Drop(w)
    BY <2>1, <2>3, <2>4, <2>5 DEF Promise!Drop, Promise!Asking, asked
  <2>. QED
    BY <2>6 DEF Promise!Next
<1>7. CASE NextNumbers
  <2>1. PICK w \in Creator :
          \/ \E known \in BOOLEAN : begin_create(w, known)
          \/ work(w) \/ flush_case(w) \/ crash_create(w)
    BY <1>7 DEF NextNumbers
  <2>2. CASE \E known \in BOOLEAN : begin_create(w, known)
    BY <1>2, <2>2
  <2>3. CASE work(w)
    BY <1>3, <1>4, <2>3 DEF work
  <2>. QED
    BY <1>5, <1>6, <2>1, <2>2, <2>3
<1>. QED
  BY <1>1, <1>7

\* OpeningService.create keeps the promise of CaseRegister: numbers one by one,
\* and no known requester is refused unless three other cases were committed
\* while its call ran.
THEOREM CreatesKeepPromise == SpecNumbers => KeepsPromise
BY PromiseInit, PromiseStep, NumbersInvariant, PTL
DEF SpecNumbers, KeepsPromise, Promise!Safety
-----------------------------------------------------------------------------
(* The rate limiter.                                                         *)

OldestFirst(h) == \A i, j \in DOMAIN h : i <= j => h[j] <= h[i]

\* The places of the entries younger than n, and of those that are a old.
Younger(h, n) == {k \in DOMAIN h : h[k] < n}

Aged(h, a) == {k \in DOMAIN h : h[k] = a}

Ages == 0..(Window - 1)

\* The queue holds the last requests by age, each as often as it was served.
QueueOK(h, s) ==
  /\ h \in Seq(0..Window)
  /\ OldestFirst(h)
  /\ s \in [Ages -> Nat]
  /\ \A a \in Ages : s[a] = Cardinality(Aged(h, a))
  /\ Unlimited \/ Cardinality(Younger(h, Window)) <= Limit

RateInv ==
  /\ DOMAIN hits = Client /\ DOMAIN served = Client
  /\ \A c \in Client : QueueOK(hits[c], served[c])

\* A set of numbers has a least one.
LEMMA LeastNumber ==
  ASSUME NEW A \in SUBSET Nat, A # {}
  PROVE  \E n \in A : \A m \in A : n <= m
<1>1. PICK n \in A : \A m \in A : ~ (<<m, n>> \in OpToRel(<, Nat))
  BY NatLessThanWellFounded, WFMin, Zenon
<1>2. \A m \in A : m \in Nat /\ n \in Nat /\ ~(m < n)
  BY <1>1 DEF OpToRel
<1>3. \A m \in A : n <= m
  BY <1>2
<1>. QED
  BY <1>3

\* The places of a queue are a finite set.
LEMMA PlacesFinite ==
  ASSUME NEW h \in Seq(0..Window), NEW S \in SUBSET DOMAIN h
  PROVE  IsFiniteSet(S) /\ Cardinality(S) \in Nat
<1>1. DOMAIN h = 1..Len(h) /\ Len(h) \in Nat
  OBVIOUS
<1>2. IsFiniteSet(DOMAIN h)
  BY <1>1, FS_Interval
<1>. QED
  BY <1>2, FS_Subset, FS_CardinalityType

\* Moving the places on does not change their number.
LEMMA MovedPlaces ==
  ASSUME NEW S, IsFiniteSet(S), NEW T, NEW m,
         S \subseteq Int, T \subseteq Int, m \in Int,
         \A k \in Int : k \in T <=> k + m \in S
  PROVE  Cardinality(T) = Cardinality(S)
<1>. DEFINE f == [k \in S |-> k - m]
<1>1. \A k \in S : f[k] \in T /\ f[k] = k - m /\ k \in Int
  <2>1. \A k \in S : k - m \in Int /\ (k - m) + m = k
    OBVIOUS
  <2>. QED
    BY <2>1
<1>2. \A t \in T : \E k \in S : f[k] = t
  <2>1. \A t \in T : t + m \in S /\ (t + m) - m = t
    OBVIOUS
  <2>. QED
    BY <2>1
<1>3. \A j, k \in S : f[j] = f[k] => j = k
  BY <1>1
<1>4. f \in [S -> T]
  BY <1>1
<1>. HIDE DEF f
<1>5. f \in Bijection(S, T)
  BY <1>2, <1>3, <1>4 DEF Bijection, Injection, Surjection, IsInjective
<1>. QED
  BY <1>5, FS_Bijection DEF ExistsBijection

\* The old entries are a first part of the queue.
LEMMA OldInFront ==
  ASSUME RateInv, NEW c \in Client
  PROVE  \E m \in 0..Len(hits[c]) :
           /\ Pruned(c) = SubSeq(hits[c], m + 1, Len(hits[c]))
           /\ Younger(hits[c], Window) = (m + 1)..Len(hits[c])
<1>. DEFINE h == hits[c]
<1>1. h \in Seq(0..Window) /\ OldestFirst(h)
  BY DEF RateInv, QueueOK
<1>2. Pruned(c) =
        LET old == {k \in DOMAIN h : \A j \in 1..k : h[j] >= Window}
        IN  SubSeq(h, Cardinality(old) + 1, Len(h))
  BY DEF Pruned
<1>3. hits[c] = h
  OBVIOUS
<1>. HIDE DEF h
<1>4. PICK m \in 0..Len(h) : Younger(h, Window) = (m + 1)..Len(h)
  <2>1. CASE Younger(h, Window) = {}
    <3>1. (Len(h) + 1)..Len(h) = {} /\ Len(h) \in 0..Len(h)
      BY <1>1
    <3>. QED
      BY <2>1, <3>1
  <2>2. CASE Younger(h, Window) # {}
    <3>1. Younger(h, Window) \in SUBSET Nat
      BY <1>1 DEF Younger
    <3>2. PICK l \in Younger(h, Window) :
            \A k \in Younger(h, Window) : l <= k
      BY <2>2, <3>1, LeastNumber
    <3>3. l \in 1..Len(h) /\ h[l] < Window
      BY <1>1, <3>2 DEF Younger
    <3>4. \A k \in l..Len(h) : k \in Younger(h, Window)
      BY <1>1, <3>3, RateConstants DEF Younger, OldestFirst
    <3>5. Younger(h, Window) = ((l - 1) + 1)..Len(h) /\ l - 1 \in 0..Len(h)
      BY <1>1, <3>2, <3>3, <3>4 DEF Younger
    <3>. QED
      BY <3>5
  <2>. QED
    BY <2>1, <2>2
<1>5. \A k \in DOMAIN h : k \in 1..Len(h) /\ h[k] \in 0..Window /\ Window \in Nat
  BY <1>1, RateConstants
<1>6. \A k \in 1..m : h[k] >= Window
  BY <1>1, <1>4, <1>5 DEF Younger
<1>7. \A k \in 1..Len(h) : k > m => k \in Younger(h, Window)
  BY <1>1, <1>4
<1>8. {k \in DOMAIN h : \A j \in 1..k : h[j] >= Window} = 1..m
  <2>1. \A k \in DOMAIN h : k > m => h[k] < Window
    BY <1>5, <1>7 DEF Younger
  <2>2. \A k \in DOMAIN h : (\A j \in 1..k : h[j] >= Window) => k <= m
    BY <1>4, <1>5, <2>1
  <2>3. \A k \in 1..m : k \in DOMAIN h /\ \A j \in 1..k : h[j] >= Window
    BY <1>1, <1>4, <1>6
  <2>4. \A k \in DOMAIN h : k <= m => k \in 1..m
    BY <1>4, <1>5
  <2>. QED
    BY <2>2, <2>3, <2>4
<1>9. Cardinality(1..m) = m
  BY <1>4, FS_Interval
<1>. QED
  BY <1>2, <1>3, <1>4, <1>8, <1>9

\* What pruning keeps: the young entries, in their order.
LEMMA PrunedQueue ==
  ASSUME RateInv, NEW c \in Client
  PROVE  /\ Pruned(c) \in Seq(0..Window)
         /\ OldestFirst(Pruned(c))
         /\ Younger(Pruned(c), Window) = DOMAIN Pruned(c)
         /\ Len(Pruned(c)) = Cardinality(Younger(hits[c], Window))
         /\ \A a \in Ages :
              Cardinality(Aged(Pruned(c), a)) = Cardinality(Aged(hits[c], a))
<1>1. PICK m \in 0..Len(hits[c]) :
        /\ Pruned(c) = SubSeq(hits[c], m + 1, Len(hits[c]))
        /\ Younger(hits[c], Window) = (m + 1)..Len(hits[c])
  BY OldInFront
<1>2. PICK h : h = hits[c]
  OBVIOUS
<1>3. PICK p : p = Pruned(c)
  OBVIOUS
<1>4. h \in Seq(0..Window) /\ OldestFirst(h)
  BY <1>2 DEF RateInv, QueueOK
<1>5. m \in 0..Len(h)
  BY <1>1, <1>2
<1>6. /\ p \in Seq(0..Window) /\ Len(p) = Len(h) - m
      /\ \A k \in 1..Len(p) : p[k] = h[m + k] /\ m + k \in DOMAIN h
  <2>1. Len(h) \in Nat /\ \A k \in 1..Len(h) : k \in DOMAIN h /\ h[k] \in 0..Window
    <3>1. Len(h) \in Nat /\ DOMAIN h = 1..Len(h)
      BY <1>4, LenProperties
    <3>2. \A k \in 1..Len(h) : h[k] \in 0..Window
      BY <1>4, ElementOfSeq, Zenon
    <3>. QED
      BY <3>1, <3>2, Zenon
  <2>2. m \in Nat /\ m <= Len(h)
    <3>1. Len(h) \in Nat
      BY <1>4
    <3>. QED
      BY <1>5, <3>1
  <2>3. /\ m + 1 \in Int /\ Len(h) \in Int
        /\ \A k \in (m + 1)..Len(h) : h[k] \in 0..Window
    BY <2>1, <2>2
  <2>4. p = SubSeq(h, m + 1, Len(h))
    BY <1>1, <1>2, <1>3, Zenon
  <2>5. /\ SubSeq(h, m + 1, Len(h)) \in Seq(0..Window)
        /\ Len(SubSeq(h, m + 1, Len(h)))
             = IF m + 1 <= Len(h) THEN Len(h) - (m + 1) + 1 ELSE 0
        /\ \A k \in 1..(Len(h) - (m + 1) + 1) :
             SubSeq(h, m + 1, Len(h))[k] = h[(m + 1) + k - 1]
    BY <2>3, SubSeqProperties
  <2>6. /\ p \in Seq(0..Window)
        /\ Len(p) = IF m + 1 <= Len(h) THEN Len(h) - (m + 1) + 1 ELSE 0
        /\ \A k \in 1..(Len(h) - (m + 1) + 1) : p[k] = h[(m + 1) + k - 1]
    BY <2>4, <2>5, Zenon
  <2>7. Len(p) = Len(h) - m /\ Len(h) - (m + 1) + 1 = Len(h) - m
    BY <2>1, <2>2, <2>6
  <2>8. ASSUME NEW k \in 1..Len(p)
        PROVE  p[k] = h[m + k] /\ m + k \in DOMAIN h
    <3>1. (m + 1) + k - 1 = m + k /\ m + k \in 1..Len(h)
      BY <2>1, <2>2, <2>7
    <3>. QED
      BY <2>1, <2>6, <2>7, <3>1
  <2>. QED
    BY <2>6, <2>7, <2>8
<1>7. \A k \in 1..Len(p) : m + k \in Younger(h, Window)
  BY <1>1, <1>2, <1>4, <1>5, <1>6
<1>8. \A k \in DOMAIN p : p[k] < Window
  BY <1>6, <1>7 DEF Younger
<1>9. OldestFirst(p)
  <2>. SUFFICES ASSUME NEW i \in DOMAIN p, NEW j \in DOMAIN p, i <= j
                PROVE  p[j] <= p[i]
    BY DEF OldestFirst
  <2>1. i \in 1..Len(p) /\ j \in 1..Len(p) /\ m \in Nat
    BY <1>4, <1>5, <1>6
  <2>2. /\ m + i \in DOMAIN h /\ m + j \in DOMAIN h
        /\ p[i] = h[m + i] /\ p[j] = h[m + j]
    BY <1>6, <2>1
  <2>3. m + i <= m + j
    BY <2>1
  <2>. QED
    BY <1>4, <2>2, <2>3 DEF OldestFirst
<1>10. Younger(p, Window) = DOMAIN p
  BY <1>8 DEF Younger
<1>11. Len(p) = Cardinality(Younger(h, Window))
  <2>1. /\ Younger(h, Window) = (m + 1)..Len(h) /\ m \in Nat /\ Len(h) \in Nat
        /\ m <= Len(h)
    BY <1>1, <1>2, <1>4
  <2>2. Cardinality((m + 1)..Len(h)) = Len(h) - m
    <3>1. /\ m + 1 \in Int /\ Len(h) \in Int
          /\ (IF m + 1 > Len(h) THEN 0 ELSE Len(h) - (m + 1) + 1) = Len(h) - m
      BY <2>1
    <3>. QED
      BY <3>1, FS_Interval
  <2>. QED
    BY <1>6, <2>1, <2>2
<1>12. ASSUME NEW a \in Ages
       PROVE  Cardinality(Aged(p, a)) = Cardinality(Aged(h, a))
  <2>1. /\ IsFiniteSet(Aged(h, a))
        /\ Aged(h, a) \subseteq Int /\ Aged(p, a) \subseteq Int
    BY <1>4, <1>6, PlacesFinite DEF Aged
  <2>2. ASSUME NEW k \in Int, k + m \in Aged(h, a)
        PROVE  k \in Aged(p, a)
    <3>1. k + m \in Younger(h, Window)
      BY <2>2, RateConstants DEF Aged, Younger, Ages
    <3>2. k \in 1..Len(p)
      BY <1>1, <1>2, <1>4, <1>6, <3>1
    <3>. QED
      BY <1>4, <1>6, <2>2, <3>2 DEF Aged
  <2>3. \A k \in Int : k \in Aged(p, a) => k + m \in Aged(h, a)
    BY <1>5, <1>6 DEF Aged
  <2>4. /\ m \in Int
        /\ \A k \in Int : k \in Aged(p, a) <=> k + m \in Aged(h, a)
    BY <1>5, <2>2, <2>3
  <2>. QED
    BY <2>1, <2>4, MovedPlaces
<1>. QED
  BY <1>2, <1>3, <1>6, <1>9, <1>10, <1>11, <1>12

\* What was served within the window is as much as the queue has young entries.
LEMMA ServedIsYoung ==
  ASSUME NEW h, NEW s, QueueOK(h, s)
  PROVE  SumFunctionOnSet(s, Ages) = Cardinality(Younger(h, Window))
<1>. DEFINE A == {n \in Nat : n <= Window =>
                    SumFunctionOnSet(s, 0..(n - 1)) = Cardinality(Younger(h, n))}
<1>1. /\ h \in Seq(0..Window) /\ DOMAIN h \subseteq Nat
      /\ \A k \in DOMAIN h : h[k] \in Nat
      /\ \A a \in Ages : s[a] \in Nat /\ s[a] = Cardinality(Aged(h, a))
  BY RateConstants DEF QueueOK
<1>2. 0 \in A
  <2>1. Younger(h, 0) = {} /\ 0..(0 - 1) = {}
    BY <1>1 DEF Younger
  <2>. QED
    BY <2>1, SumEmpty, FS_EmptySet
<1>3. ASSUME NEW n \in Nat, n \in A
      PROVE  n + 1 \in A
  <2>. SUFFICES ASSUME n + 1 <= Window
                PROVE  SumFunctionOnSet(s, 0..n) = Cardinality(Younger(h, n + 1))
    OBVIOUS
  <2>1. n <= Window /\ n \in Ages /\ 0..n \subseteq Ages
    BY RateConstants DEF Ages
  <2>2. 0..n = (0..(n - 1)) \cup {n} /\ n \notin 0..(n - 1)
    OBVIOUS
  <2>3. Summable(s, 0..n)
    <3>1. IsFiniteSet(0..n)
      BY FS_Interval
    <3>. QED
      BY <1>1, <2>1, <3>1 DEF Summable
  <2>4. SumFunctionOnSet(s, 0..n) = s[n] + SumFunctionOnSet(s, 0..(n - 1))
    BY <2>2, <2>3, SumAdd
  <2>5. /\ Younger(h, n + 1) = Younger(h, n) \cup Aged(h, n)
        /\ Younger(h, n) \cap Aged(h, n) = {}
    BY <1>1 DEF Younger, Aged
  <2>6. /\ IsFiniteSet(Younger(h, n)) /\ IsFiniteSet(Aged(h, n))
        /\ Cardinality(Younger(h, n)) \in Nat /\ Cardinality(Aged(h, n)) \in Nat
    BY <1>1, PlacesFinite DEF Younger, Aged
  <2>7. Cardinality(Younger(h, n + 1))
          = Cardinality(Younger(h, n)) + Cardinality(Aged(h, n))
    <3>1. Cardinality(Younger(h, n) \cup Aged(h, n))
            = Cardinality(Younger(h, n)) + Cardinality(Aged(h, n))
              - Cardinality(Younger(h, n) \cap Aged(h, n))
      BY <2>6, FS_Union
    <3>2. Cardinality(Younger(h, n) \cap Aged(h, n)) = 0
      BY <2>5, FS_EmptySet
    <3>3. Cardinality(Younger(h, n + 1))
            = Cardinality(Younger(h, n)) + Cardinality(Aged(h, n)) - 0
      BY <2>5, <3>1, <3>2
    <3>. QED
      BY <2>6, <3>3
  <2>8. SumFunctionOnSet(s, 0..(n - 1)) = Cardinality(Younger(h, n))
    BY <1>3, <2>1
  <2>. QED
    BY <1>1, <2>1, <2>4, <2>6, <2>7, <2>8
<1>. HIDE DEF A
<1>4. Window \in A
  BY <1>2, <1>3, EveryNumber, RateConstants
<1>. QED
  BY <1>4, RateConstants DEF A, Ages

\* A client is let in as long as it was served less than the limit.
LEMMA WindowFromQueue == RateInv => WindowSlides
<1>. SUFFICES ASSUME RateInv, ~Unlimited, NEW c \in Client
              PROVE  /\ Recent(c) <= Limit
                     /\ Admissible(c) <=> Recent(c) < Limit
  BY DEF WindowSlides
<1>1. QueueOK(hits[c], served[c])
  BY DEF RateInv
<1>2. DOMAIN served[c] = Ages
  BY <1>1 DEF QueueOK
<1>3. Recent(c) = SumFunctionOnSet(served[c], Ages)
  BY <1>2 DEF Recent, FoldFunction, FoldFunctionOnSet, MapThenFoldSet,
              SumFunctionOnSet
<1>4. Recent(c) = Cardinality(Younger(hits[c], Window))
  BY <1>1, <1>3, ServedIsYoung
<1>5. Recent(c) = Len(Pruned(c))
  BY <1>4, PrunedQueue
<1>. QED
  BY <1>1, <1>4, <1>5 DEF QueueOK, Admissible

\* A refused request leaves what it has pruned.
LEMMA RefusedQueue ==
  ASSUME RateInv, NEW c \in Client
  PROVE  QueueOK(Pruned(c), served[c])
<1>1. QueueOK(hits[c], served[c])
  BY DEF RateInv
<1>2. Cardinality(DOMAIN Pruned(c)) = Len(Pruned(c))
  BY PrunedQueue, FS_Interval
<1>. QED
  BY <1>1, <1>2, PrunedQueue DEF QueueOK

\* An admitted one is recorded at its end.
LEMMA AdmittedQueue ==
  ASSUME RateInv, NEW c \in Client, Admissible(c)
  PROVE  QueueOK(Append(Pruned(c), 0), [served[c] EXCEPT ![0] = @ + 1])
<1>1. PICK p : p = Pruned(c)
  OBVIOUS
<1>2. PICK s : s = served[c]
  OBVIOUS
<1>. DEFINE q == Append(p, 0)
            last == Len(p) + 1
            new == [s EXCEPT ![0] = @ + 1]
<1>3. QueueOK(p, s) /\ Younger(p, Window) = DOMAIN p
  BY <1>1, <1>2, RefusedQueue, PrunedQueue
<1>4. /\ p \in Seq(0..Window) /\ OldestFirst(p) /\ s \in [Ages -> Nat]
      /\ \A a \in Ages : s[a] = Cardinality(Aged(p, a))
  BY <1>3 DEF QueueOK
<1>5. Unlimited \/ Len(p) < Limit
  BY <1>1 DEF Admissible
<1>6. 0 \in Ages /\ 0 \in 0..Window /\ 0 < Window /\ Window \in Nat
  BY RateConstants DEF Ages
<1>7. /\ q \in Seq(0..Window) /\ Len(q) = last
      /\ q[last] = 0 /\ last \notin DOMAIN p
      /\ \A k \in DOMAIN p : q[k] = p[k] /\ p[k] \in 0..Window
      /\ DOMAIN q = (DOMAIN p) \cup {last}
      /\ \A k \in DOMAIN p : k < last
      /\ Len(p) \in Nat
  BY <1>4, <1>6
<1>. HIDE DEF q, last
<1>8. OldestFirst(q)
  <2>. SUFFICES ASSUME NEW i \in DOMAIN q, NEW j \in DOMAIN q, i <= j
                PROVE  q[j] <= q[i]
    BY DEF OldestFirst
  <2>1. \A k \in DOMAIN q : q[k] \in 0..Window /\ 0 <= q[k] /\ q[k] = q[k] + 0
    BY <1>6, <1>7
  <2>2. CASE j = last
    BY <1>7, <2>1, <2>2
  <2>3. CASE j # last
    <3>1. j \in DOMAIN p /\ j < last /\ j \in Nat /\ last \in Nat
      BY <1>4, <1>7, <2>3 DEF last
    <3>2. i # last
      BY <3>1
    <3>. QED
      BY <1>4, <1>7, <3>1, <3>2 DEF OldestFirst
  <2>. QED
    BY <2>2, <2>3
<1>9. Younger(q, Window) = DOMAIN q
  BY <1>3, <1>6, <1>7 DEF Younger
<1>10. Unlimited \/ Cardinality(Younger(q, Window)) <= Limit
  <2>1. DOMAIN q = 1..(Len(p) + 1)
    BY <1>7 DEF last
  <2>2. Cardinality(DOMAIN q) = Len(p) + 1
    BY <1>7, <2>1, FS_Interval
  <2>. QED
    BY <1>5, <1>7, <1>9, <2>2, RateConstants
<1>11. \A a \in Ages : a # 0 => Aged(q, a) = Aged(p, a)
  BY <1>7 DEF Aged
<1>12. Aged(q, 0) = Aged(p, 0) \cup {last} /\ last \notin Aged(p, 0)
  BY <1>7 DEF Aged
<1>13. IsFiniteSet(Aged(p, 0))
  BY <1>4, PlacesFinite DEF Aged
<1>14. Cardinality(Aged(q, 0)) = Cardinality(Aged(p, 0)) + 1
  BY <1>12, <1>13, FS_AddElement
<1>15. /\ new \in [Ages -> Nat] /\ new[0] = s[0] + 1
       /\ \A a \in Ages : a # 0 => new[a] = s[a]
  BY <1>4, <1>6
<1>. HIDE DEF new
<1>16. \A a \in Ages : new[a] = Cardinality(Aged(q, a))
  BY <1>4, <1>6, <1>11, <1>14, <1>15
<1>17. QueueOK(q, new)
  BY <1>7, <1>8, <1>10, <1>15, <1>16 DEF QueueOK
<1>. QED
  BY <1>1, <1>2, <1>17 DEF q, new

\* A second passes: each entry is a second older, and what leaves the window
\* stays at its edge.
LEMMA OlderQueue ==
  ASSUME NEW h, NEW s, QueueOK(h, s)
  PROVE  QueueOK([k \in DOMAIN h |->
                    IF h[k] < Window THEN h[k] + 1 ELSE Window],
                 [age \in 0..(Window - 1) |->
                    IF age = 0 THEN 0 ELSE s[age - 1]])
<1>. DEFINE q == [k \in DOMAIN h |-> IF h[k] < Window THEN h[k] + 1 ELSE Window]
            new == [age \in 0..(Window - 1) |->
                      IF age = 0 THEN 0 ELSE s[age - 1]]
<1>1. /\ h \in Seq(0..Window) /\ OldestFirst(h) /\ s \in [Ages -> Nat]
      /\ \A a \in Ages : s[a] = Cardinality(Aged(h, a))
  BY DEF QueueOK
<1>2. Window \in Nat /\ 0 < Window
  BY RateConstants
<1>3. Len(h) \in Nat /\ DOMAIN h = 1..Len(h)
  BY <1>1, LenProperties
<1>4. \A k \in DOMAIN h : h[k] \in 0..Window
  BY <1>1, <1>3, ElementOfSeq, Zenon
<1>5. \A k \in DOMAIN h :
        /\ q[k] \in 0..Window
        /\ h[k] < Window => q[k] = h[k] + 1
        /\ ~(h[k] < Window) => q[k] = Window
  BY <1>2, <1>4
<1>6. DOMAIN q = DOMAIN h
  OBVIOUS
<1>7. q \in Seq(0..Window)
  <2>1. PICK n \in Nat : n = Len(h)
    BY <1>3
  <2>2. q \in [1..n -> 0..Window]
    BY <1>3, <1>5, <2>1
  <2>. HIDE DEF q
  <2>. QED
    BY <2>2, SeqDef
<1>. HIDE DEF q
<1>8. OldestFirst(q)
  <2>. SUFFICES ASSUME NEW i \in DOMAIN h, NEW j \in DOMAIN h, i <= j
                PROVE  q[j] <= q[i]
    BY <1>6 DEF OldestFirst
  <2>1. h[j] <= h[i]
    BY <1>1 DEF OldestFirst
  <2>. QED
    BY <1>2, <1>4, <1>5, <2>1
<1>9. \A a \in Ages : a # 0 => a - 1 \in Ages /\ Aged(q, a) = Aged(h, a - 1)
  <2>. SUFFICES ASSUME NEW a \in Ages, a # 0
                PROVE  a - 1 \in Ages /\ Aged(q, a) = Aged(h, a - 1)
    OBVIOUS
  <2>1. a \in Nat /\ a < Window /\ a - 1 \in Ages /\ a - 1 \in Nat
    BY <1>2 DEF Ages
  <2>2. \A k \in DOMAIN h : q[k] = a <=> h[k] = a - 1
    BY <1>2, <1>4, <1>5, <2>1
  <2>. QED
    BY <1>6, <2>1, <2>2 DEF Aged
<1>10. Aged(q, 0) = {}
  BY <1>2, <1>4, <1>5, <1>6 DEF Aged
<1>11. /\ new \in [Ages -> Nat] /\ new[0] = 0
       /\ \A a \in Ages : a # 0 => new[a] = s[a - 1]
  BY <1>1, <1>2, <1>9 DEF Ages
<1>. HIDE DEF new
<1>12. \A a \in Ages : new[a] = Cardinality(Aged(q, a))
  BY <1>1, <1>9, <1>10, <1>11, FS_EmptySet
<1>13. Unlimited \/ Cardinality(Younger(q, Window)) <= Limit
  <2>1. Younger(q, Window) \subseteq Younger(h, Window)
    BY <1>2, <1>4, <1>5, <1>6 DEF Younger
  <2>2. /\ IsFiniteSet(Younger(h, Window))
        /\ Cardinality(Younger(h, Window)) \in Nat
    BY <1>1, PlacesFinite DEF Younger
  <2>3. /\ Cardinality(Younger(q, Window)) \in Nat
        /\ Cardinality(Younger(q, Window)) <= Cardinality(Younger(h, Window))
    BY <2>1, <2>2, FS_Subset, FS_CardinalityType
  <2>4. Unlimited \/ Cardinality(Younger(h, Window)) <= Limit
    BY DEF QueueOK
  <2>. QED
    BY <2>2, <2>3, <2>4, RateConstants
<1>14. QueueOK(q, new)
  BY <1>7, <1>8, <1>11, <1>12, <1>13 DEF QueueOK
<1>. QED
  BY <1>14 DEF q, new

\* Nobody was served at first.
LEMMA RateInit == InitRate => RateInv
<1>. SUFFICES ASSUME InitRate, NEW c \in Client
              PROVE  /\ DOMAIN hits = Client /\ DOMAIN served = Client
                     /\ QueueOK(hits[c], served[c])
  BY DEF RateInv, InitRate
<1>1. /\ DOMAIN hits = Client /\ DOMAIN served = Client
      /\ hits[c] = <<>> /\ served[c] = [age \in 0..(Window - 1) |-> 0]
  BY DEF InitRate
<1>2. /\ <<>> \in Seq(0..Window) /\ OldestFirst(<<>>)
      /\ Younger(<<>>, Window) = {} /\ \A a \in Ages : Aged(<<>>, a) = {}
  BY DEF OldestFirst, Younger, Aged
<1>3. served[c] \in [Ages -> Nat] /\ \A a \in Ages : served[c][a] = 0
  BY <1>1 DEF Ages
<1>4. Cardinality({}) = 0 /\ 0 <= Limit
  BY FS_EmptySet, RateConstants
<1>5. QueueOK(<<>>, served[c])
  BY <1>2, <1>3, <1>4 DEF QueueOK
<1>. QED
  BY <1>1, <1>5

\* What the middleware does with a request keeps the queues.
LEMMA RefusedPreserves ==
  ASSUME RateInv, NEW c \in Client, Refused(c)
  PROVE  RateInv'
<1>1. /\ hits' = [hits EXCEPT ![c] = Pruned(c)] /\ served' = served
      /\ DOMAIN hits = Client /\ DOMAIN served = Client
      /\ \A d \in Client : QueueOK(hits[d], served[d])
  BY DEF Refused, RateInv
<1>2. QueueOK(Pruned(c), served[c])
  BY RefusedQueue
<1>3. \A d \in Client : QueueOK(hits'[d], served'[d])
  BY <1>1, <1>2
<1>4. DOMAIN hits' = Client /\ DOMAIN served' = Client
  BY <1>1
<1>. QED
  BY <1>3, <1>4 DEF RateInv, QueueOK, Unlimited, Younger, Aged, OldestFirst, Ages

LEMMA AdmittedPreserves ==
  ASSUME RateInv, NEW c \in Client, Admissible(c), Admitted(c)
  PROVE  RateInv'
<1>1. /\ hits' = [hits EXCEPT ![c] = Append(Pruned(c), 0)]
      /\ served' = [served EXCEPT ![c] = [served[c] EXCEPT ![0] = @ + 1]]
      /\ DOMAIN hits = Client /\ DOMAIN served = Client
      /\ \A d \in Client : QueueOK(hits[d], served[d])
  BY DEF Admitted, RateInv
<1>2. QueueOK(Append(Pruned(c), 0), [served[c] EXCEPT ![0] = @ + 1])
  BY AdmittedQueue
<1>3. \A d \in Client : QueueOK(hits'[d], served'[d])
  BY <1>1, <1>2
<1>4. DOMAIN hits' = Client /\ DOMAIN served' = Client
  BY <1>1
<1>. QED
  BY <1>3, <1>4 DEF RateInv, QueueOK, Unlimited, Younger, Aged, OldestFirst, Ages

LEMMA TickPreserves ==
  ASSUME RateInv, tick
  PROVE  RateInv'
<1>1. \A d \in Client : QueueOK(hits[d], served[d])
  BY DEF RateInv
<1>2. \A d \in Client :
        /\ hits'[d] = [k \in DOMAIN hits[d] |->
             IF hits[d][k] < Window THEN hits[d][k] + 1 ELSE Window]
        /\ served'[d] = [age \in 0..(Window - 1) |->
             IF age = 0 THEN 0 ELSE served[d][age - 1]]
  BY DEF tick
<1>3. ASSUME NEW d \in Client
      PROVE  QueueOK(hits'[d], served'[d])
  <2>1. QueueOK([k \in DOMAIN hits[d] |->
                   IF hits[d][k] < Window THEN hits[d][k] + 1 ELSE Window],
                [age \in 0..(Window - 1) |->
                   IF age = 0 THEN 0 ELSE served[d][age - 1]])
    BY <1>1, OlderQueue, Zenon
  <2>. QED
    BY <1>2, <2>1, Zenon
<1>4. DOMAIN hits' = Client /\ DOMAIN served' = Client
  BY DEF tick
<1>. QED
  BY <1>3, <1>4 DEF RateInv, QueueOK, Unlimited, Younger, Aged, OldestFirst, Ages

\* Every step of the intake preserves what holds of the queues.
LEMMA RateStep ==
  ASSUME RateInv, [NextIntake]_intakeVars
  PROVE  RateInv'
<1>1. CASE UNCHANGED rateVars
  BY <1>1 DEF RateInv, rateVars, QueueOK, Unlimited, Younger, Aged, OldestFirst,
              Ages
<1>2. ASSUME NEW c \in Client, Passed(c)
      PROVE  RateInv'
  BY <1>1, <1>2, AdmittedPreserves DEF Passed
<1>3. ASSUME NEW c \in Client, reject_429(c)
      PROVE  RateInv'
  BY <1>3, RefusedPreserves DEF reject_429
<1>. QED
  BY <1>1, <1>2, <1>3, TickPreserves
     DEF NextIntake, intakeVars, reject_413, accept

\* check_rate_limit: whatever clients ask and however time passes, none is
\* served more than the limit within any window, and a client is refused only
\* while it has been served that much.
THEOREM WindowAlwaysSlides == SpecIntake => []WindowSlides
<1>1. InitIntake => RateInv
  BY RateInit DEF InitIntake
<1>. QED
  BY <1>1, RateStep, WindowFromQueue, PTL DEF SpecIntake

-----------------------------------------------------------------------------
(* Behind the middleware.                                                    *)

\* Each step of the intake is one of the creates, or is none of theirs.
LEMMA IntakeStep ==
  ASSUME [NextIntake]_intakeVars
  PROVE  [NextNumbers]_numberVars
BY DEF NextIntake, intakeVars, numberVars, NextNumbers, reject_429, reject_413,
       accept

\* Requests that the middleware lets through behave as creates do on their own.
THEOREM IntakeImplementsNumbers == SpecIntake => SpecNumbers
BY IntakeStep, PTL DEF SpecIntake, InitIntake, SpecNumbers

\* Numbers stay gapless for cases that come in through the middleware.
THEOREM IntakeNumbersGapless == SpecIntake => []NumbersGapless
BY IntakeImplementsNumbers, NumbersAreGapless, PTL

\* The register's promise holds of them too.
THEOREM IntakeKeepsPromise == SpecIntake => KeepsPromise
BY IntakeImplementsNumbers, CreatesKeepPromise, PTL
-----------------------------------------------------------------------------
(* Sequences in order.                                                       *)

\* A relation that orders any two elements of S.
Orders(R, S) ==
  /\ \A x, y \in S : x # y => <<x, y>> \in R \/ <<y, x>> \in R
  /\ \A x, y, z \in S : <<x, y>> \in R /\ <<y, z>> \in R => <<x, z>> \in R

Ordered(s, n, R) == \A j, k \in 1..n : j < k => <<s[j], s[k]>> \in R

\* A finite set that is ordered has a last element.
LEMMA LastElement ==
  ASSUME NEW R, NEW S, IsFiniteSet(S), Orders(R, S)
  PROVE  \A T \in SUBSET S : T # {} =>
           \E x \in T : \A y \in T : y # x => <<y, x>> \in R
<1>. DEFINE A == {n \in Nat : \A T \in Upto(S, n) : T # {} =>
                    \E x \in T : \A y \in T : y # x => <<y, x>> \in R}
<1>1. 0 \in A
  BY OnlyEmpty
<1>2. ASSUME NEW n \in Nat, n \in A
      PROVE  n + 1 \in A
  <2>1. ASSUME NEW T \in Upto(S, n + 1), T # {}
        PROVE  \E x \in T : \A y \in T : y # x => <<y, x>> \in R
    <3>1. PICK z \in T : TRUE
      BY <2>1
    <3>2. T \ {z} \in Upto(S, n) /\ T \subseteq S
      BY SmallerByOne DEF Upto
    <3>3. CASE T \ {z} = {}
      BY <3>1, <3>3
    <3>4. CASE T \ {z} # {}
      <4>1. PICK x \in T \ {z} : \A y \in T \ {z} : y # x => <<y, x>> \in R
        BY <1>2, <3>2, <3>4
      <4>2. CASE <<z, x>> \in R
        BY <4>1, <4>2
      <4>3. CASE <<x, z>> \in R
        <5>1. ASSUME NEW y \in T, y # z
              PROVE  <<y, z>> \in R
          <6>1. y = x \/ <<y, x>> \in R
            BY <4>1, <5>1
          <6>. QED
            BY <3>2, <4>1, <4>3, <6>1 DEF Orders
        <5>. QED
          BY <3>1, <5>1
      <4>. QED
        BY <3>1, <3>2, <4>1, <4>2, <4>3 DEF Orders
    <3>. QED
      BY <3>3, <3>4
  <2>. QED
    BY <2>1
<1>. HIDE DEF A
<1>3. Cardinality(S) \in A
  BY <1>1, <1>2, EveryNumber, FS_CardinalityType
<1>. QED
  BY <1>3, AllUpto DEF A

\* So it can be listed in order.
LEMMA OrderExists ==
  ASSUME NEW R, NEW S, IsFiniteSet(S), Orders(R, S)
  PROVE  \E s \in [1..Cardinality(S) -> S] : Ordered(s, Cardinality(S), R)
<1>. DEFINE A == {n \in Nat : \A T \in SUBSET S : Cardinality(T) = n =>
                    \E s \in [1..n -> T] : Ordered(s, n, R)}
<1>1. 0 \in A
  <2>1. ASSUME NEW T \in SUBSET S
        PROVE  \E s \in [1..0 -> T] : Ordered(s, 0, R)
    <3>. DEFINE s == [k \in 1..0 |-> {}]
    <3>1. s \in [1..0 -> T] /\ Ordered(s, 0, R)
      BY DEF Ordered
    <3>. QED
      BY <3>1
  <2>. QED
    BY <2>1
<1>2. ASSUME NEW n \in Nat, n \in A
      PROVE  n + 1 \in A
  <2>1. ASSUME NEW T \in SUBSET S, Cardinality(T) = n + 1
        PROVE  \E s \in [1..(n + 1) -> T] : Ordered(s, n + 1, R)
    <3>1. IsFiniteSet(T) /\ T # {}
      BY <2>1, FS_Subset, FS_EmptySet
    <3>2. PICK x \in T : \A y \in T : y # x => <<y, x>> \in R
      BY <3>1, LastElement
    <3>3. Cardinality(T \ {x}) = n /\ T \ {x} \in SUBSET S
      <4>1. Cardinality(T \ {x}) = (n + 1) - 1
        BY <2>1, <3>1, FS_RemoveElement
      <4>. QED
        BY <4>1
    <3>4. PICK s \in [1..n -> T \ {x}] : Ordered(s, n, R)
      BY <1>2, <3>3
    <3>. DEFINE t == [k \in 1..(n + 1) |-> IF k = n + 1 THEN x ELSE s[k]]
    <3>5. /\ \A k \in 1..(n + 1) : k = n + 1 \/ k \in 1..n
          /\ \A k \in 1..n : k # n + 1 /\ k \in 1..(n + 1)
      OBVIOUS
    <3>6. /\ \A k \in 1..n : t[k] = s[k] /\ s[k] \in T /\ s[k] # x
          /\ t[n + 1] = x /\ n + 1 \in 1..(n + 1)
      BY <3>4, <3>5
    <3>7. t \in [1..(n + 1) -> T]
      BY <3>4, <3>5
    <3>. HIDE DEF t
    <3>8. ASSUME NEW j \in 1..(n + 1), NEW k \in 1..(n + 1), j < k
          PROVE  <<t[j], t[k]>> \in R
      <4>1. j \in 1..n
        BY <3>8
      <4>2. CASE k = n + 1
        BY <3>2, <3>6, <4>1, <4>2
      <4>3. CASE k \in 1..n
        BY <3>4, <3>6, <3>8, <4>1, <4>3 DEF Ordered
      <4>. QED
        BY <3>5, <4>2, <4>3
    <3>. QED
      BY <3>7, <3>8 DEF Ordered
  <2>. QED
    BY <2>1
<1>. HIDE DEF A
<1>3. Cardinality(S) \in A
  BY <1>1, <1>2, EveryNumber, FS_CardinalityType
<1>. QED
  BY <1>3 DEF A

\* As many different elements as a finite set has are all of it.
LEMMA AllListed ==
  ASSUME NEW S, IsFiniteSet(S), NEW n \in Nat, Cardinality(S) = n,
         NEW s \in [1..n -> S], \A j, k \in 1..n : s[j] = s[k] => j = k
  PROVE  \A x \in S : \E k \in 1..n : s[k] = x
<1>1. IsFiniteSet(1..n) /\ Cardinality(1..n) = n
  BY FS_Interval
<1>2. s \in Injection(1..n, S)
  BY DEF Injection, IsInjective
<1>3. s \in Surjection(1..n, S)
  BY <1>1, <1>2, FS_Injection
<1>. QED
  BY <1>3 DEF Surjection

\* A finite set of numbers in order: ascending, each once.
LEMMA InOrderLists ==
  ASSUME NEW S \in SUBSET Nat, IsFiniteSet(S)
  PROVE  /\ InOrder(S) \in [1..Cardinality(S) -> S]
         /\ \A j, k \in 1..Cardinality(S) : j < k => InOrder(S)[j] < InOrder(S)[k]
         /\ \A j, k \in 1..Cardinality(S) : InOrder(S)[j] = InOrder(S)[k] => j = k
         /\ \A x \in S : \E k \in 1..Cardinality(S) : InOrder(S)[k] = x
<1>1. PICK n \in Nat : n = Cardinality(S)
  BY FS_CardinalityType
<1>. DEFINE R == {p \in S \X S : p[1] < p[2]}
<1>2. \A x, y \in S : <<x, y>> \in R <=> x < y
  OBVIOUS
<1>. HIDE DEF R
<1>3. Orders(R, S)
  BY <1>2 DEF Orders
<1>4. PICK s \in [1..n -> S] : Ordered(s, n, R)
  BY <1>1, <1>3, OrderExists
<1>5. \A j, k \in 1..n : j < k => s[j] < s[k]
  BY <1>2, <1>4 DEF Ordered
<1>6. /\ InOrder(S) \in [1..n -> S]
      /\ \A j, k \in 1..n : j < k => InOrder(S)[j] < InOrder(S)[k]
  BY <1>1, <1>4, <1>5 DEF InOrder
<1>7. PICK o : o = InOrder(S)
  OBVIOUS
<1>8. \A j, k \in 1..n : o[j] = o[k] => j = k
  <2>1. \A j \in 1..n : o[j] \in Nat /\ j \in Nat
    <3>1. o \in [1..n -> S]
      BY <1>6, <1>7, Zenon
    <3>2. \A j \in 1..n : o[j] \in S
      BY <3>1, Zenon
    <3>3. \A j \in 1..n : j \in Nat
      OBVIOUS
    <3>4. \A x \in S : x \in Nat
      OBVIOUS
    <3>. QED
      BY <3>2, <3>3, <3>4, Zenon
  <2>2. \A j, k \in 1..n : j < k => o[j] < o[k]
    BY <1>6, <1>7, Zenon
  <2>3. ASSUME NEW j \in 1..n, NEW k \in 1..n, j < k
        PROVE  o[j] # o[k]
    <3>1. o[j] \in Nat /\ o[k] \in Nat /\ o[j] < o[k]
      BY <2>1, <2>2, <2>3, Zenon
    <3>. QED
      BY <3>1
  <2>4. \A j, k \in 1..n : j < k \/ k < j \/ j = k
    BY <2>1
  <2>. QED
    BY <2>3, <2>4, Zenon
<1>9. \A x \in S : \E k \in 1..n : o[k] = x
  BY <1>1, <1>6, <1>7, <1>8, AllListed
<1>. QED
  BY <1>1, <1>6, <1>7, <1>8, <1>9

-----------------------------------------------------------------------------
(* The history of an invoice.                                                *)

Parent(i) == invoices[i].parent_invoice_id

\* A revision is younger than what it revises.
ParentsOlder ==
  /\ Len(invoices) \in Nat /\ DOMAIN invoices = 1..Len(invoices)
  /\ \A i \in 1..Len(invoices) : Parent(i) \in Nat /\ Parent(i) < i

LEMMA RevisionsYounger == InvoicesInv => ParentsOlder
<1>. SUFFICES ASSUME InvoicesInv
              PROVE  ParentsOlder
  OBVIOUS
<1>1. invoices \in Seq(Invoice) /\ RevisionsFollowRefusals
  BY DEF InvoicesInv, RowsOK
<1>2. Len(invoices) \in Nat /\ DOMAIN invoices = 1..Len(invoices)
  BY <1>1, LenProperties
<1>3. ASSUME NEW i \in 1..Len(invoices)
      PROVE  Parent(i) \in Nat /\ Parent(i) < i
  <2>1. invoices[i] \in Invoice
    BY <1>1, <1>3, ElementOfSeq, Zenon
  <2>2. Parent(i) \in Nat
    BY <2>1 DEF Invoice, Parent
  <2>3. Parent(i) = 0 \/ Parent(i) < i
    BY <1>1, <1>2, <1>3 DEF RevisionsFollowRefusals, Parent
  <2>. QED
    BY <2>2, <2>3
<1>. QED
  BY <1>2, <1>3 DEF ParentsOlder

\* The loop up to the first version, as a function of where it starts.
Up ==
  CHOOSE g : g = [j \in DOMAIN invoices |->
                    IF invoices[j].parent_invoice_id = 0
                      THEN j ELSE g[invoices[j].parent_invoice_id]]

\* g leads up from the first n rows.
LeadsUp(g, n) ==
  /\ g \in [1..Len(invoices) -> 1..Len(invoices)]
  /\ \A j \in 1..Len(invoices) : j <= n =>
       g[j] = IF Parent(j) = 0 THEN j ELSE g[Parent(j)]

\* It ends: from each row it goes on from an older one.
LEMMA UpExists ==
  ASSUME ParentsOlder
  PROVE  \E g : g = [j \in DOMAIN invoices |->
                       IF Parent(j) = 0 THEN j ELSE g[Parent(j)]]
<1>1. PICK N \in Nat : N = Len(invoices)
  BY DEF ParentsOlder
<1>. DEFINE A == {n \in Nat : \E g : LeadsUp(g, n)}
<1>2. 0 \in A
  <2>. DEFINE g == [j \in 1..N |-> j]
  <2>1. LeadsUp(g, 0)
    BY <1>1 DEF LeadsUp
  <2>. QED
    BY <2>1
<1>3. ASSUME NEW n \in Nat, n \in A
      PROVE  n + 1 \in A
  <2>5. PICK g : LeadsUp(g, n)
    BY <1>3
  <2>1. /\ g \in [1..N -> 1..N]
        /\ \A j \in 1..N : j <= n =>
             g[j] = IF Parent(j) = 0 THEN j ELSE g[Parent(j)]
    BY <1>1, <2>5 DEF LeadsUp
  <2>. DEFINE x == IF Parent(n + 1) = 0 THEN n + 1 ELSE g[Parent(n + 1)]
              h == [j \in 1..N |-> IF j = n + 1 THEN x ELSE g[j]]
  <2>2. ASSUME NEW j \in 1..N, j <= n + 1
        PROVE  h[j] = IF Parent(j) = 0 THEN j ELSE h[Parent(j)]
    <3>1. Parent(j) \in Nat /\ Parent(j) < j
      BY <1>1 DEF ParentsOlder
    <3>2. Parent(j) # 0 => Parent(j) \in 1..N /\ Parent(j) # n + 1
      BY <2>2, <3>1
    <3>3. Parent(j) # 0 => h[Parent(j)] = g[Parent(j)]
      BY <3>2
    <3>4. CASE j = n + 1
      BY <3>3, <3>4
    <3>5. CASE j # n + 1
      <4>1. j <= n /\ h[j] = g[j]
        BY <2>2, <3>5
      <4>. QED
        BY <2>1, <3>3, <4>1
    <3>. QED
      BY <3>4, <3>5
  <2>3. h \in [1..N -> 1..N]
    <3>1. n + 1 \in 1..N => x \in 1..N
      <4>1. n + 1 \in 1..N => /\ Parent(n + 1) \in Nat
                              /\ Parent(n + 1) < n + 1
        BY <1>1 DEF ParentsOlder
      <4>2. n + 1 \in 1..N /\ Parent(n + 1) # 0 => Parent(n + 1) \in 1..N
        BY <4>1
      <4>. QED
        BY <2>1, <4>2
    <3>. HIDE DEF x
    <3>. QED
      BY <2>1, <3>1
  <2>. HIDE DEF h
  <2>4. LeadsUp(h, n + 1)
    BY <1>1, <2>2, <2>3 DEF LeadsUp
  <2>. QED
    BY <2>4
<1>. HIDE DEF A
<1>4. N \in A
  BY <1>2, <1>3, EveryNumber
<1>5. PICK g : LeadsUp(g, N)
  BY <1>4 DEF A
<1>6. DOMAIN invoices = 1..N
  BY <1>1 DEF ParentsOlder
<1>7. /\ g \in [1..N -> 1..N]
      /\ \A j \in 1..N : g[j] = IF Parent(j) = 0 THEN j ELSE g[Parent(j)]
  BY <1>1, <1>5 DEF LeadsUp
<1>8. \A j \in 1..N : g[j] = IF Parent(j) = 0 THEN j ELSE g[Parent(j)]
  BY <1>7
<1>9. g = [j \in 1..N |-> IF Parent(j) = 0 THEN j ELSE g[Parent(j)]]
  BY <1>7, <1>8
<1>. QED
  BY <1>6, <1>9

\* It leads to a row without a parent, the same from a row and its parent.
LEMMA FirstVersionIs ==
  ASSUME ParentsOlder
  PROVE  \A i \in DOMAIN invoices :
           /\ FirstVersion(i) \in DOMAIN invoices
           /\ Parent(FirstVersion(i)) = 0
           /\ Parent(i) = 0 => FirstVersion(i) = i
           /\ Parent(i) # 0 => FirstVersion(i) = FirstVersion(Parent(i))
<1>1. PICK N \in Nat : N = Len(invoices)
  BY DEF ParentsOlder
<1>2. /\ DOMAIN invoices = 1..N
      /\ \A i \in 1..N : Parent(i) \in Nat /\ Parent(i) < i
  BY <1>1 DEF ParentsOlder
<1>3. Up = [j \in DOMAIN invoices |-> IF Parent(j) = 0 THEN j ELSE Up[Parent(j)]]
  BY UpExists DEF Up, Parent
<1>4. PICK up : up = Up
  OBVIOUS
<1>5. \A i \in 1..N : up[i] = IF Parent(i) = 0 THEN i ELSE up[Parent(i)]
  BY <1>2, <1>3, <1>4
<1>6. \A i : FirstVersion(i) = up[i]
  BY <1>4 DEF FirstVersion, Up
<1>. DEFINE A == {n \in Nat : \A i \in 1..N : i <= n =>
                    up[i] \in 1..N /\ Parent(up[i]) = 0}
<1>7. 0 \in A
  OBVIOUS
<1>8. ASSUME NEW n \in Nat, n \in A
      PROVE  n + 1 \in A
  <2>1. ASSUME NEW i \in 1..N, i <= n + 1
        PROVE  up[i] \in 1..N /\ Parent(up[i]) = 0
    <3>1. CASE Parent(i) = 0
      BY <1>5, <3>1
    <3>2. CASE Parent(i) # 0
      <4>1. Parent(i) \in 1..N /\ Parent(i) <= n
        BY <1>2, <2>1, <3>2
      <4>. QED
        BY <1>5, <1>8, <3>2, <4>1
    <3>. QED
      BY <3>1, <3>2
  <2>. QED
    BY <2>1
<1>. HIDE DEF A
<1>9. N \in A
  BY <1>7, <1>8, EveryNumber
<1>10. \A i \in 1..N : up[i] \in 1..N /\ Parent(up[i]) = 0
  BY <1>9 DEF A
<1>. QED
  BY <1>2, <1>5, <1>6, <1>10

Turn(s, n) ==
  IF n > Len(s) THEN s ELSE s \o InOrder(Children(s[n]) \ ToSet(s))

\* The chain of the rows found in n turns from first version r.
Chain(r) ==
  CHOOSE g : g = [n \in 0..Len(invoices) |->
                    IF n = 0 THEN <<r>>
                    ELSE LET found == g[n - 1]
                         IN  IF n > Len(found) THEN found
                             ELSE found \o InOrder(Children(found[n])
                                                     \ ToSet(found))]

\* What a turn adds: the revisions of the row it looks at that were not found
\* before, each once.
LEMMA TurnAdds ==
  ASSUME ParentsOlder, NEW s \in Seq(1..Len(invoices)), NEW n \in 1..Len(s)
  PROVE  \E c \in Nat, t \in Seq(1..Len(invoices)) :
           /\ Turn(s, n) = s \o t /\ Len(t) = c
           /\ \A k \in 1..c : Parent(t[k]) = s[n] /\ \A j \in 1..Len(s) : s[j] # t[k]
           /\ \A j, k \in 1..c : t[j] = t[k] => j = k
           /\ \A j \in 1..Len(invoices) : Parent(j) = s[n] =>
                \/ \E k \in 1..Len(s) : s[k] = j
                \/ \E k \in 1..c : t[k] = j
<1>1. PICK N \in Nat : N = Len(invoices) /\ DOMAIN invoices = 1..N
  BY DEF ParentsOlder
<1>2. PICK len \in Nat : len = Len(s) /\ DOMAIN s = 1..len
  BY LenProperties
<1>3. PICK T : T = Children(s[n]) \ ToSet(s)
  OBVIOUS
<1>4. \A j : j \in T <=> /\ j \in 1..N /\ Parent(j) = s[n]
                         /\ \A k \in 1..len : s[k] # j
  BY <1>1, <1>2, <1>3 DEF Children, ToSet, Parent
<1>5. T \in SUBSET (1..N) /\ T \in SUBSET Nat
  BY <1>4
<1>6. IsFiniteSet(T) /\ Cardinality(T) \in Nat
  <2>1. IsFiniteSet(1..N)
    BY FS_Interval
  <2>2. IsFiniteSet(T)
    BY <1>5, <2>1, FS_Subset
  <2>. QED
    BY <2>2, FS_CardinalityType
<1>7. PICK c \in Nat : c = Cardinality(T)
  BY <1>6
<1>8. PICK t : t = InOrder(T)
  OBVIOUS
<1>9. /\ t \in [1..c -> T]
      /\ \A j, k \in 1..c : t[j] = t[k] => j = k
      /\ \A x \in T : \E k \in 1..c : t[k] = x
  BY <1>5, <1>6, <1>7, <1>8, InOrderLists, Zenon
<1>10. t \in Seq(1..N)
  <2>1. t \in [1..c -> 1..N]
    BY <1>5, <1>9
  <2>. QED
    BY <2>1, SeqDef
<1>11. Len(t) = c
  BY <1>9, <1>10
<1>12. Turn(s, n) = s \o t
  BY <1>2, <1>3, <1>8 DEF Turn
<1>13. \A k \in 1..c : Parent(t[k]) = s[n] /\ \A j \in 1..len : s[j] # t[k]
  BY <1>4, <1>9
<1>14. \A j \in 1..N : Parent(j) = s[n] =>
         (\E k \in 1..len : s[k] = j) \/ (\E k \in 1..c : t[k] = j)
  BY <1>4, <1>9
<1>15. /\ t \in Seq(1..Len(invoices)) /\ Turn(s, n) = s \o t /\ Len(t) = c
       /\ \A k \in 1..c : Parent(t[k]) = s[n] /\ \A j \in 1..Len(s) : s[j] # t[k]
       /\ \A j, k \in 1..c : t[j] = t[k] => j = k
       /\ \A j \in 1..Len(invoices) : Parent(j) = s[n] =>
            \/ \E k \in 1..Len(s) : s[k] = j
            \/ \E k \in 1..c : t[k] = j
  BY <1>1, <1>2, <1>9, <1>10, <1>11, <1>12, <1>13, <1>14
<1>. QED
  BY <1>15

\* A turn keeps to the rows of the table.
LEMMA TurnType ==
  ASSUME ParentsOlder, NEW s \in Seq(1..Len(invoices)), NEW n \in Nat \ {0}
  PROVE  Turn(s, n) \in Seq(1..Len(invoices))
<1>1. CASE n > Len(s)
  BY <1>1 DEF Turn
<1>2. CASE ~(n > Len(s))
  <2>1. Len(s) \in Nat /\ n \in 1..Len(s)
    BY <1>2, LenProperties
  <2>2. PICK t \in Seq(1..Len(invoices)) : Turn(s, n) = s \o t
    BY <2>1, TurnAdds
  <2>. QED
    BY <2>2
<1>. QED
  BY <1>1, <1>2

\* The turns up to n are taken.
TurnsTo(g, n, r) ==
  /\ g \in [0..Len(invoices) -> Seq(1..Len(invoices))]
  /\ \A m \in 0..Len(invoices) : m <= n =>
       g[m] = IF m = 0 THEN <<r>> ELSE Turn(g[m - 1], m)

\* The chain is what its turns make of it.
LEMMA ChainTurns ==
  ASSUME ParentsOlder, NEW r \in 1..Len(invoices)
  PROVE  /\ Chain(r) \in [0..Len(invoices) -> Seq(1..Len(invoices))]
         /\ Chain(r)[0] = <<r>>
         /\ \A n \in 1..Len(invoices) :
              Chain(r)[n] = Turn(Chain(r)[n - 1], n)
<1>1. PICK N \in Nat : N = Len(invoices)
  BY DEF ParentsOlder
<1>. DEFINE A == {n \in Nat : \E g : TurnsTo(g, n, r)}
<1>2. 0 \in A
  <2>. DEFINE g == [m \in 0..N |-> <<r>>]
  <2>1. g \in [0..N -> Seq(1..N)]
    BY <1>1
  <2>2. \A m \in 0..N : m <= 0 => m = 0 /\ g[m] = <<r>>
    OBVIOUS
  <2>. HIDE DEF g
  <2>3. TurnsTo(g, 0, r)
    BY <1>1, <2>1, <2>2 DEF TurnsTo
  <2>. QED
    BY <2>3
<1>3. ASSUME NEW n \in Nat, n \in A
      PROVE  n + 1 \in A
  <2>0. PICK g : TurnsTo(g, n, r)
    BY <1>3
  <2>1. /\ g \in [0..N -> Seq(1..N)]
        /\ \A m \in 0..N : m <= n =>
             g[m] = IF m = 0 THEN <<r>> ELSE Turn(g[m - 1], m)
    BY <1>1, <2>0 DEF TurnsTo
  <2>. DEFINE x == Turn(g[n], n + 1)
              h == [m \in 0..N |-> IF m = n + 1 THEN x ELSE g[m]]
  <2>2. n + 1 \in 0..N => x \in Seq(1..N)
    <3>1. n + 1 \in 0..N => g[n] \in Seq(1..N) /\ n + 1 \in Nat \ {0}
      BY <2>1
    <3>. QED
      BY <1>1, <3>1, TurnType
  <2>3. \A m \in 0..N : m <= n + 1 =>
          h[m] = IF m = 0 THEN <<r>> ELSE Turn(h[m - 1], m)
    <3>. SUFFICES ASSUME NEW m \in 0..N, m <= n + 1
                  PROVE  h[m] = IF m = 0 THEN <<r>> ELSE Turn(h[m - 1], m)
      OBVIOUS
    <3>1. m # 0 => m - 1 \in 0..N /\ m - 1 # n + 1
      OBVIOUS
    <3>2. m # 0 => h[m - 1] = g[m - 1]
      BY <3>1
    <3>3. CASE m = n + 1
      <4>1. m # 0 /\ m - 1 = n /\ h[m] = x
        BY <3>3
      <4>. QED
        BY <3>2, <3>3, <4>1
    <3>4. CASE m # n + 1
      <4>1. m <= n /\ h[m] = g[m]
        BY <3>4
      <4>. QED
        BY <2>1, <3>2, <4>1
    <3>. QED
      BY <3>3, <3>4
  <2>4. h \in [0..N -> Seq(1..N)]
    <3>. HIDE DEF x
    <3>. QED
      BY <2>1, <2>2
  <2>. HIDE DEF h
  <2>5. TurnsTo(h, n + 1, r)
    BY <1>1, <2>3, <2>4 DEF TurnsTo
  <2>. QED
    BY <2>5
<1>. HIDE DEF A
<1>4. N \in A
  BY <1>2, <1>3, EveryNumber
<1>5. PICK g : TurnsTo(g, N, r)
  BY <1>4 DEF A
<1>6. /\ g \in [0..N -> Seq(1..N)]
      /\ \A m \in 0..N : g[m] = IF m = 0 THEN <<r>> ELSE Turn(g[m - 1], m)
  BY <1>1, <1>5 DEF TurnsTo
<1>7. g = [m \in 0..N |-> IF m = 0 THEN <<r>> ELSE Turn(g[m - 1], m)]
  BY <1>6
<1>8. Chain(r) = [m \in 0..N |-> IF m = 0 THEN <<r>> ELSE Turn(Chain(r)[m - 1], m)]
  BY <1>1, <1>7 DEF Chain, Turn
<1>9. PICK f : f = Chain(r)
  OBVIOUS
<1>10. f = [m \in 0..N |-> IF m = 0 THEN <<r>> ELSE Turn(f[m - 1], m)]
  BY <1>8, <1>9, Zenon
<1>11. f[0] = <<r>> /\ \A m \in 1..N : f[m] = Turn(f[m - 1], m)
  <2>1. 0 \in 0..N /\ \A m \in 1..N : m \in 0..N /\ m # 0
    OBVIOUS
  <2>2. \A m \in 0..N : f[m] = IF m = 0 THEN <<r>> ELSE Turn(f[m - 1], m)
    BY <1>10, Zenon
  <2>. QED
    BY <2>1, <2>2, Zenon
<1>. DEFINE B == {n \in Nat : n <= N => f[n] \in Seq(1..N)}
<1>12. 0 \in B
  <2>1. <<r>> \in Seq(1..N)
    BY <1>1
  <2>2. f[0] \in Seq(1..N)
    BY <1>11, <2>1, Zenon
  <2>. QED
    BY <2>2
<1>13. ASSUME NEW n \in Nat, n \in B
       PROVE  n + 1 \in B
  <2>1. n + 1 <= N => n + 1 \in 1..N /\ (n + 1) - 1 = n /\ n <= N
    OBVIOUS
  <2>. QED
    BY <1>1, <1>11, <1>13, <2>1, TurnType
<1>. HIDE DEF B
<1>14. \A n \in Nat : n \in B
  BY <1>12, <1>13, EveryNumber
<1>15. \A n \in 0..N : f[n] \in Seq(1..N)
  BY <1>14 DEF B
<1>16. f \in [0..N -> Seq(1..N)]
  <2>1. f = [m \in 0..N |-> f[m]]
    BY <1>10
  <2>. QED
    BY <1>15, <2>1
<1>. QED
  BY <1>1, <1>9, <1>11, <1>16

\* How far the chain s of the family of r is after n turns: it starts with r,
\* every other row comes after its parent, no row comes twice, and the
\* revisions of the first n rows are in it.
Explored(s, n, r) ==
  /\ s \in Seq(1..Len(invoices)) /\ Len(s) >= 1 /\ s[1] = r
  /\ \A j, k \in 1..Len(s) : s[j] = s[k] => j = k
  /\ \A k \in 2..Len(s) : \E l \in 1..(k - 1) : Parent(s[k]) = s[l]
  /\ \A l \in 1..Len(s) : l <= n =>
       \A j \in 1..Len(invoices) : Parent(j) = s[l] =>
         \E k \in 1..Len(s) : s[k] = j

LEMMA TurnExplores ==
  ASSUME ParentsOlder, NEW r \in 1..Len(invoices), NEW n \in Nat, NEW s,
         Explored(s, n, r)
  PROVE  Explored(Turn(s, n + 1), n + 1, r)
<1>1. PICK N \in Nat : N = Len(invoices)
  BY DEF ParentsOlder
<1>2. PICK m \in Nat : m = Len(s)
  BY LenProperties DEF Explored
<1>3. /\ s \in Seq(1..N) /\ m >= 1 /\ s[1] = r
      /\ \A j, k \in 1..m : s[j] = s[k] => j = k
      /\ \A k \in 2..m : \E l \in 1..(k - 1) : Parent(s[k]) = s[l]
      /\ \A l \in 1..m : l <= n =>
           \A j \in 1..N : Parent(j) = s[l] => \E k \in 1..m : s[k] = j
  BY <1>1, <1>2 DEF Explored
<1>4. CASE n + 1 > m
  <2>1. Turn(s, n + 1) = s
    BY <1>2, <1>4 DEF Turn
  <2>2. \A l \in 1..m : l <= n
    BY <1>4
  <2>. QED
    BY <1>1, <1>2, <1>3, <2>1, <2>2 DEF Explored
<1>5. CASE ~(n + 1 > m)
  <2>1. n + 1 \in 1..m
    BY <1>5
  <2>0. s \in Seq(1..Len(invoices)) /\ n + 1 \in 1..Len(s)
    BY <1>1, <1>2, <1>3, <2>1
  <2>15. PICK c \in Nat, t \in Seq(1..Len(invoices)) :
           /\ Turn(s, n + 1) = s \o t /\ Len(t) = c
           /\ \A k \in 1..c : /\ Parent(t[k]) = s[n + 1]
                              /\ \A j \in 1..Len(s) : s[j] # t[k]
           /\ \A j, k \in 1..c : t[j] = t[k] => j = k
           /\ \A j \in 1..Len(invoices) : Parent(j) = s[n + 1] =>
                \/ \E k \in 1..Len(s) : s[k] = j
                \/ \E k \in 1..c : t[k] = j
    BY <2>0, TurnAdds, Zenon
  <2>2. /\ t \in Seq(1..N) /\ Turn(s, n + 1) = s \o t /\ Len(t) = c
        /\ \A k \in 1..c : /\ Parent(t[k]) = s[n + 1]
                           /\ \A j \in 1..m : s[j] # t[k]
        /\ \A j, k \in 1..c : t[j] = t[k] => j = k
        /\ \A j \in 1..N : Parent(j) = s[n + 1] =>
             \/ \E k \in 1..m : s[k] = j
             \/ \E k \in 1..c : t[k] = j
    BY <1>1, <1>2, <2>15
  <2>3. PICK u : u = s \o t
    OBVIOUS
  <2>4. /\ u \in Seq(1..N) /\ Len(u) = m + c
        /\ \A k \in 1..m : u[k] = s[k]
        /\ \A k \in 1..c : u[m + k] = t[k]
    <3>1. \A k \in 1..m : k \in 1..(m + c) /\ k <= m
      OBVIOUS
    <3>2. \A k \in 1..c : m + k \in 1..(m + c) /\ ~(m + k <= m) /\ (m + k) - m = k
      OBVIOUS
    <3>4. PICK S : S = 1..N
      OBVIOUS
    <3>5. s \in Seq(S) /\ t \in Seq(S) /\ Len(s) = m /\ Len(t) = c
      BY <1>2, <1>3, <2>2, <3>4
    <3>6. /\ s \o t \in Seq(S) /\ Len(s \o t) = Len(s) + Len(t)
          /\ \A k \in 1..Len(s) + Len(t) :
               (s \o t)[k] = IF k <= Len(s) THEN s[k] ELSE t[k - Len(s)]
      BY <3>5, ConcatProperties, Zenon
    <3>3. /\ u \in Seq(1..N) /\ Len(u) = m + c
          /\ \A k \in 1..(m + c) : u[k] = IF k <= m THEN s[k] ELSE t[k - m]
      BY <2>3, <3>4, <3>5, <3>6
    <3>. QED
      BY <3>1, <3>2, <3>3, Zenon
  <2>5. \A k \in 1..(m + c) : k \in 1..m \/ (k - m \in 1..c /\ m + (k - m) = k)
    OBVIOUS
  <2>6. \A k \in 1..(m + c) : k \in 1..m \/ \E i \in 1..c : k = m + i /\ u[k] = t[i]
    BY <2>4, <2>5, Zenon
  <2>13. \A j \in 1..m, i \in 1..c : s[j] # t[i]
    BY <2>2, Zenon
  <2>7. ASSUME NEW j \in 1..(m + c), NEW k \in 1..(m + c), u[j] = u[k]
        PROVE  j = k
    <3>1. CASE j \in 1..m /\ k \in 1..m
      BY <1>3, <2>4, <2>7, <3>1, Zenon
    <3>2. CASE j \in 1..m /\ \E i \in 1..c : k = m + i /\ u[k] = t[i]
      BY <2>4, <2>7, <2>13, <3>2, Zenon
    <3>3. CASE k \in 1..m /\ \E i \in 1..c : j = m + i /\ u[j] = t[i]
      BY <2>4, <2>7, <2>13, <3>3, Zenon
    <3>4. CASE /\ \E i \in 1..c : j = m + i /\ u[j] = t[i]
               /\ \E i \in 1..c : k = m + i /\ u[k] = t[i]
      BY <2>2, <2>7, <3>4, Zenon
    <3>. QED
      BY <2>6, <3>1, <3>2, <3>3, <3>4, Zenon
  <2>8. ASSUME NEW k \in 2..(m + c)
        PROVE  \E l \in 1..(k - 1) : Parent(u[k]) = u[l]
    <3>1. CASE k \in 1..m
      <4>1. k \in 2..m /\ \A l \in 1..(k - 1) : l \in 1..m
        BY <2>8, <3>1
      <4>2. PICK l \in 1..(k - 1) : Parent(s[k]) = s[l]
        BY <1>3, <4>1, Zenon
      <4>. QED
        BY <2>4, <3>1, <4>1, <4>2, Zenon
    <3>2. CASE \E i \in 1..c : k = m + i /\ u[k] = t[i]
      <4>1. PICK i \in 1..c : k = m + i /\ u[k] = t[i]
        BY <3>2
      <4>2. n + 1 \in 1..(k - 1)
        BY <2>1, <4>1
      <4>3. Parent(u[k]) = u[n + 1]
        BY <2>1, <2>2, <2>4, <4>1, Zenon
      <4>. QED
        BY <4>2, <4>3
    <3>3. k \in 1..(m + c)
      BY <2>8
    <3>. QED
      BY <2>6, <3>1, <3>2, <3>3, Zenon
  <2>9. /\ \A k \in 1..m : k \in 1..(m + c)
        /\ \A k \in 1..c : m + k \in 1..(m + c)
    OBVIOUS
  <2>10. ASSUME NEW l \in 1..(m + c), l <= n + 1, NEW j \in 1..N, Parent(j) = u[l]
         PROVE  \E k \in 1..(m + c) : u[k] = j
    <3>1. l \in 1..m /\ u[l] = s[l]
      <4>1. l \in 1..m
        BY <1>5, <2>10
      <4>. QED
        BY <2>4, <4>1
    <3>2. (\E k \in 1..m : s[k] = j) \/ (\E k \in 1..c : t[k] = j)
      <4>1. CASE l = n + 1
        BY <2>2, <2>10, <3>1, <4>1, Zenon
      <4>2. CASE l # n + 1
        <5>1. l <= n
          BY <2>10, <4>2
        <5>. QED
          BY <1>3, <2>10, <3>1, <5>1, Zenon
      <4>. QED
        BY <4>1, <4>2
    <3>. QED
      BY <2>4, <2>9, <3>2, Zenon
  <2>11. m + c >= 1 /\ u[1] = r
    <3>1. 1 \in 1..m /\ m + c >= 1
      BY <1>3
    <3>. QED
      BY <1>3, <2>4, <3>1, Zenon
  <2>12. Explored(u, n + 1, r)
    BY <1>1, <2>4, <2>7, <2>8, <2>10, <2>11 DEF Explored
  <2>. QED
    BY <2>2, <2>3, <2>12
<1>. QED
  BY <1>4, <1>5

\* As many turns as there are rows explore the whole chain.
LEMMA ChainExplores ==
  ASSUME ParentsOlder, NEW r \in 1..Len(invoices)
  PROVE  Explored(Chain(r)[Len(invoices)], Len(invoices), r)
<1>1. PICK N \in Nat : N = Len(invoices)
  BY DEF ParentsOlder
<1>2. PICK f : f = Chain(r)
  OBVIOUS
<1>3. /\ f[0] = <<r>>
      /\ \A n \in 1..N : f[n] = Turn(f[n - 1], n)
  BY <1>1, <1>2, ChainTurns
<1>. DEFINE A == {n \in Nat : n <= N => Explored(f[n], n, r)}
<1>4. 0 \in A
  <2>1. PICK s : s = <<r>>
    OBVIOUS
  <2>2. s \in Seq(1..N) /\ Len(s) = 1 /\ s[1] = r
    BY <1>1, <2>1
  <2>3. /\ \A j, k \in 1..1 : j = k
        /\ \A k \in 2..1 : FALSE
        /\ \A l \in 1..1 : ~(l <= 0)
    OBVIOUS
  <2>4. Explored(s, 0, r)
    BY <1>1, <2>2, <2>3 DEF Explored
  <2>5. Explored(f[0], 0, r)
    BY <1>3, <2>1, <2>4, Zenon
  <2>. QED
    BY <2>5
<1>5. ASSUME NEW n \in Nat, n \in A
      PROVE  n + 1 \in A
  <2>1. n + 1 <= N => n + 1 \in 1..N /\ (n + 1) - 1 = n /\ n <= N
    OBVIOUS
  <2>2. n + 1 <= N => f[n + 1] = Turn(f[n], n + 1)
    BY <1>3, <2>1, Zenon
  <2>3. n + 1 <= N => Explored(f[n], n, r)
    BY <1>5, <2>1
  <2>4. n + 1 <= N => Explored(f[n + 1], n + 1, r)
    BY <2>2, <2>3, TurnExplores, Zenon
  <2>. QED
    BY <2>4
<1>. HIDE DEF A
<1>6. N \in A
  BY <1>4, <1>5, EveryNumber
<1>7. Explored(f[N], N, r)
  BY <1>6 DEF A
<1>. QED
  BY <1>1, <1>2, <1>7, Zenon

\* Numbers of a chain without repetition are not more than there are rows.
LEMMA ChainFits ==
  ASSUME NEW N \in Nat, NEW s \in Seq(1..N),
         \A j, k \in 1..Len(s) : s[j] = s[k] => j = k
  PROVE  Len(s) <= N
<1>1. PICK m \in Nat : m = Len(s)
  BY LenProperties
<1>2. s \in Injection(1..m, 1..N)
  <2>1. s \in [1..m -> 1..N]
    BY <1>1, LenProperties
  <2>. QED
    BY <1>1, <2>1 DEF Injection, IsInjective
<1>3. /\ IsFiniteSet(1..m) /\ Cardinality(1..m) = m
      /\ IsFiniteSet(1..N) /\ Cardinality(1..N) = N
  <2>1. 1 \in Int /\ m \in Int /\ N \in Int
    OBVIOUS
  <2>2. /\ IsFiniteSet(1..m)
        /\ Cardinality(1..m) = IF 1 > m THEN 0 ELSE m - 1 + 1
    BY <2>1, FS_Interval
  <2>3. /\ IsFiniteSet(1..N)
        /\ Cardinality(1..N) = IF 1 > N THEN 0 ELSE N - 1 + 1
    BY <2>1, FS_Interval
  <2>. QED
    BY <2>2, <2>3
<1>4. Cardinality(1..m) <= Cardinality(1..N)
  BY <1>2, <1>3, FS_Injection
<1>. QED
  BY <1>1, <1>3, <1>4

\* So an explored chain holds the revisions of all its rows, and the family
\* of its first version.
LEMMA ExploredIsFamily ==
  ASSUME ParentsOlder, NEW r \in 1..Len(invoices), NEW s,
         Explored(s, Len(invoices), r), Parent(r) = 0
  PROVE  /\ \A k \in 1..Len(s) : FirstVersion(s[k]) = r
         /\ \A i \in 1..Len(invoices) : FirstVersion(i) = r =>
              \E k \in 1..Len(s) : s[k] = i
<1>1. PICK N \in Nat : N = Len(invoices) /\ DOMAIN invoices = 1..N
  BY DEF ParentsOlder
<1>2. PICK m \in Nat : m = Len(s)
  BY LenProperties DEF Explored
<1>3. /\ s \in Seq(1..N) /\ m >= 1 /\ s[1] = r
      /\ \A j, k \in 1..m : s[j] = s[k] => j = k
      /\ \A k \in 2..m : \E l \in 1..(k - 1) : Parent(s[k]) = s[l]
      /\ \A l \in 1..m : l <= N =>
           \A j \in 1..N : Parent(j) = s[l] => \E k \in 1..m : s[k] = j
  BY <1>1, <1>2 DEF Explored
<1>4. m <= N
  BY <1>2, <1>3, ChainFits
<1>5. \A l \in 1..m : l <= N
  BY <1>4
<1>6. \A k \in 1..m : s[k] \in 1..N
  BY <1>2, <1>3, ElementOfSeq
<1>7. \A i \in 1..N :
        /\ Parent(i) \in Nat /\ Parent(i) < i
        /\ Parent(i) = 0 => FirstVersion(i) = i
        /\ Parent(i) # 0 => FirstVersion(i) = FirstVersion(Parent(i))
  BY <1>1, FirstVersionIs DEF ParentsOlder
<1>8. \A k \in 1..m : FirstVersion(s[k]) = r
  <2>. DEFINE A == {n \in Nat : \A k \in 1..m : k <= n => FirstVersion(s[k]) = r}
  <2>1. 0 \in A
    OBVIOUS
  <2>2. ASSUME NEW n \in Nat, n \in A
        PROVE  n + 1 \in A
    <3>1. ASSUME NEW k \in 1..m, k <= n + 1
          PROVE  FirstVersion(s[k]) = r
      <4>1. CASE k = 1
        <5>1. FirstVersion(r) = r
          BY <1>1, <1>7
        <5>. QED
          BY <1>3, <4>1, <5>1
      <4>2. CASE k # 1
        <5>1. k \in 2..m
          BY <3>1, <4>2
        <5>2. PICK l \in 1..(k - 1) : Parent(s[k]) = s[l]
          BY <1>3, <5>1
        <5>3. l \in 1..m /\ l <= n
          BY <3>1, <5>2
        <5>4. s[k] \in 1..N /\ s[l] \in 1..N
          BY <1>6, <3>1, <5>3
        <5>5. Parent(s[k]) # 0
          BY <5>2, <5>4
        <5>6. FirstVersion(s[k]) = FirstVersion(s[l])
          BY <1>7, <5>2, <5>4, <5>5, Zenon
        <5>7. FirstVersion(s[l]) = r
          BY <2>2, <5>3
        <5>. QED
          BY <5>6, <5>7
      <4>. QED
        BY <4>1, <4>2
    <3>. QED
      BY <3>1
  <2>. HIDE DEF A
  <2>3. m \in A
    BY <2>1, <2>2, EveryNumber
  <2>. QED
    BY <2>3 DEF A
<1>9. \A i \in 1..N : FirstVersion(i) = r => \E k \in 1..m : s[k] = i
  <2>. DEFINE A == {n \in Nat : \A i \in 1..N : i <= n =>
                      (FirstVersion(i) = r => \E k \in 1..m : s[k] = i)}
  <2>1. 0 \in A
    OBVIOUS
  <2>2. ASSUME NEW n \in Nat, n \in A
        PROVE  n + 1 \in A
    <3>1. ASSUME NEW i \in 1..N, i <= n + 1, FirstVersion(i) = r
          PROVE  \E k \in 1..m : s[k] = i
      <4>1. CASE Parent(i) = 0
        <5>1. i = r /\ 1 \in 1..m
          BY <1>3, <1>7, <3>1, <4>1
        <5>. QED
          BY <1>3, <5>1
      <4>2. CASE Parent(i) # 0
        <5>1. Parent(i) \in 1..N /\ Parent(i) <= n
          BY <1>7, <3>1, <4>2
        <5>2. FirstVersion(Parent(i)) = r
          BY <1>7, <3>1, <4>2, Zenon
        <5>3. PICK k \in 1..m : s[k] = Parent(i)
          BY <2>2, <5>1, <5>2
        <5>. QED
          BY <1>3, <1>5, <3>1, <5>3, Zenon
      <4>. QED
        BY <4>1, <4>2
    <3>. QED
      BY <3>1
  <2>. HIDE DEF A
  <2>3. N \in A
    BY <2>1, <2>2, EveryNumber
  <2>. QED
    BY <2>3 DEF A
<1>. QED
  BY <1>1, <1>2, <1>8, <1>9

\* The history of a row is the explored chain of its first version.
LEMMA HistoryExplored ==
  ASSUME ParentsOlder
  PROVE  \A i \in 1..Len(invoices) :
           Explored(history(i), Len(invoices), FirstVersion(i))
<1>1. ASSUME NEW i \in 1..Len(invoices)
      PROVE  Explored(history(i), Len(invoices), FirstVersion(i))
  <2>1. FirstVersion(i) \in 1..Len(invoices)
    BY FirstVersionIs DEF ParentsOlder
  <2>2. history(i) = Chain(FirstVersion(i))[Len(invoices)]
    BY DEF history, Chain
  <2>3. Explored(Chain(FirstVersion(i))[Len(invoices)], Len(invoices), FirstVersion(i))
    BY <2>1, ChainExplores
  <2>. QED
    BY <2>2, <2>3
<1>. QED
  BY <1>1

\* Where each row has a parent that is older, the history is the family.
LEMMA HistoryOfTree == ParentsOlder => HistoryIsFamily
<1>. SUFFICES ASSUME ParentsOlder, NEW i \in DOMAIN invoices
              PROVE  LET h == history(i)
                         Position(j) == CHOOSE n \in DOMAIN h : h[n] = j
                     IN  /\ i \in ToSet(h)
                         /\ IsInjective(h)
                         /\ \A j \in DOMAIN invoices :
                              LET p == invoices[j].parent_invoice_id
                              IN  p # 0 => /\ j \in ToSet(h) <=> p \in ToSet(h)
                                           /\ j \in ToSet(h) => Position(p) < Position(j)
  BY DEF HistoryIsFamily
<1>1. PICK N \in Nat : N = Len(invoices) /\ DOMAIN invoices = 1..N
  BY DEF ParentsOlder
<1>2. PICK r : r = FirstVersion(i)
  OBVIOUS
<1>3. PICK h : h = history(i)
  OBVIOUS
<1>4. /\ r \in 1..N /\ Parent(r) = 0
      /\ \A j \in 1..N : /\ Parent(j) \in Nat /\ Parent(j) < j
                         /\ Parent(j) # 0 => FirstVersion(j) = FirstVersion(Parent(j))
  BY <1>1, <1>2, FirstVersionIs DEF ParentsOlder
<1>5. Explored(h, N, r)
  BY <1>1, <1>2, <1>3, HistoryExplored
<1>6. PICK m \in Nat : m = Len(h) /\ DOMAIN h = 1..m
  BY <1>5, LenProperties DEF Explored
<1>7. /\ h \in Seq(1..N) /\ h[1] = r
      /\ \A j, k \in 1..m : h[j] = h[k] => j = k
      /\ \A k \in 2..m : \E l \in 1..(k - 1) : Parent(h[k]) = h[l]
  BY <1>1, <1>5, <1>6 DEF Explored
<1>8. /\ \A k \in 1..m : FirstVersion(h[k]) = r
      /\ \A j \in 1..N : FirstVersion(j) = r => \E k \in 1..m : h[k] = j
  BY <1>1, <1>4, <1>5, <1>6, ExploredIsFamily
<1>9. \A j : j \in ToSet(h) <=> \E k \in 1..m : h[k] = j
  BY <1>6 DEF ToSet
<1>10. \A j \in 1..N : j \in ToSet(h) <=> FirstVersion(j) = r
  BY <1>8, <1>9, Zenon
<1>11. i \in ToSet(h)
  BY <1>1, <1>2, <1>10
<1>12. IsInjective(h)
  BY <1>6, <1>7 DEF IsInjective
<1>13. ASSUME NEW j \in 1..N, Parent(j) # 0
       PROVE  /\ j \in ToSet(h) <=> Parent(j) \in ToSet(h)
              /\ j \in ToSet(h) =>
                   (CHOOSE n \in DOMAIN h : h[n] = Parent(j))
                     < (CHOOSE n \in DOMAIN h : h[n] = j)
  <2>1. Parent(j) \in 1..N
    BY <1>4, <1>13
  <2>2. j \in ToSet(h) <=> Parent(j) \in ToSet(h)
    BY <1>4, <1>10, <1>13, <2>1, Zenon
  <2>3. ASSUME j \in ToSet(h)
        PROVE  (CHOOSE n \in DOMAIN h : h[n] = Parent(j))
                 < (CHOOSE n \in DOMAIN h : h[n] = j)
    <3>1. PICK k \in 1..m : h[k] = j
      BY <1>9, <2>3
    <3>2. k # 1
      BY <1>4, <1>7, <1>13, <3>1
    <3>3. k \in 2..m
      BY <3>1, <3>2
    <3>4. PICK l \in 1..(k - 1) : Parent(h[k]) = h[l]
      BY <1>7, <3>3, Zenon
    <3>5. l \in 1..m /\ l < k /\ h[l] = Parent(j)
      BY <3>1, <3>3, <3>4
    <3>6. (CHOOSE n \in DOMAIN h : h[n] = j) = k
      <4>1. \A n \in DOMAIN h : h[n] = j => n = k
        BY <1>6, <1>7, <3>1
      <4>2. k \in DOMAIN h
        BY <1>6, <3>1
      <4>. QED
        BY <3>1, <4>1, <4>2
    <3>7. (CHOOSE n \in DOMAIN h : h[n] = Parent(j)) = l
      <4>1. \A n \in DOMAIN h : h[n] = Parent(j) => n = l
        BY <1>6, <1>7, <3>5
      <4>2. l \in DOMAIN h
        BY <1>6, <3>5
      <4>. QED
        BY <3>5, <4>1, <4>2
    <3>. QED
      BY <3>5, <3>6, <3>7
  <2>. QED
    BY <2>2, <2>3
<1>. QED
  BY <1>1, <1>3, <1>11, <1>12, <1>13 DEF Parent

\* The history of an invoice, asked from any version, is the whole family of
\* its first version: each row once, and after its parent.
THEOREM HistoryAlwaysFamily == SpecInvoices => []HistoryIsFamily
<1>1. InvoicesInv => HistoryIsFamily
  BY RevisionsYounger, HistoryOfTree
<1>. QED
  BY <1>1, InvoicesInvariant, PTL

-----------------------------------------------------------------------------
(* The comparison of quotations.                                             *)

\* Quotations have totals.
Quoted == totals \in Seq(QuotedTotal)

\* The ranks list every quotation once, cheapest first.
LEMMA RankedLists ==
  ASSUME Quoted
  PROVE  LET n == Len(totals)
         IN  /\ n \in Nat /\ DOMAIN totals = 1..n
             /\ \A k \in 1..n : totals[k] \in Nat
             /\ ranked \in [1..n -> 1..n]
             /\ \A j, k \in 1..n :
                  j < k => totals[ranked[j]] <= totals[ranked[k]]
             /\ \A j, k \in 1..n : ranked[j] = ranked[k] => j = k
             /\ \A i \in 1..n : \E k \in 1..n : ranked[k] = i
<1>1. PICK n \in Nat : n = Len(totals) /\ DOMAIN totals = 1..n
  BY LenProperties DEF Quoted
<1>2. \A k \in 1..n : totals[k] \in Nat
  BY <1>1, ElementOfSeq, ComparisonConstants DEF Quoted
<1>3. Cardinality(1..n) = n /\ IsFiniteSet(1..n)
  BY FS_Interval
<1>. DEFINE R == {p \in (1..n) \X (1..n) : Cheaper(p[1], p[2])}
<1>4. \A x, y \in 1..n : <<x, y>> \in R <=> Cheaper(x, y)
  OBVIOUS
<1>. HIDE DEF R
<1>5. Orders(R, 1..n)
  <2>1. ASSUME NEW x \in 1..n, NEW y \in 1..n, x # y
        PROVE  Cheaper(x, y) \/ Cheaper(y, x)
    BY <1>2, <2>1 DEF Cheaper
  <2>2. ASSUME NEW x \in 1..n, NEW y \in 1..n, NEW z \in 1..n,
               Cheaper(x, y), Cheaper(y, z)
        PROVE  Cheaper(x, z)
    BY <1>2, <2>2 DEF Cheaper
  <2>. QED
    BY <1>4, <2>1, <2>2 DEF Orders
<1>6. PICK s \in [1..n -> 1..n] : Ordered(s, n, R)
  <2>1. \E s \in [1..Cardinality(1..n) -> 1..n] : Ordered(s, Cardinality(1..n), R)
    BY <1>3, <1>5, OrderExists
  <2>. QED
    BY <1>3, <2>1
<1>7. \A j, k \in 1..n : j < k => Cheaper(s[j], s[k])
  BY <1>4, <1>6 DEF Ordered
<1>8. /\ ranked \in [1..n -> 1..n]
      /\ \A j, k \in 1..n : j < k => Cheaper(ranked[j], ranked[k])
  BY <1>1, <1>6, <1>7 DEF ranked
<1>9. PICK r : r = ranked
  OBVIOUS
<1>10. /\ r \in [1..n -> 1..n]
       /\ \A j, k \in 1..n : j < k => Cheaper(r[j], r[k])
  BY <1>8, <1>9, Zenon
<1>11. ASSUME NEW j \in 1..n, NEW k \in 1..n, j < k
       PROVE  totals[r[j]] <= totals[r[k]] /\ r[j] # r[k]
  <2>1. PICK x \in 1..n, y \in 1..n : x = r[j] /\ y = r[k]
    <3>1. \A i \in 1..n : r[i] \in 1..n
      BY <1>10, Zenon
    <3>. QED
      BY <3>1, Zenon
  <2>2. Cheaper(x, y)
    BY <1>10, <1>11, <2>1, Zenon
  <2>3. totals[x] \in Nat /\ totals[y] \in Nat /\ x \in Nat /\ y \in Nat
    BY <1>2
  <2>4. totals[x] <= totals[y] /\ x # y
    <3>1. CASE totals[x] < totals[y]
      BY <2>3, <3>1
    <3>2. CASE totals[x] = totals[y] /\ x < y
      BY <2>3, <3>2
    <3>. QED
      BY <2>2, <3>1, <3>2 DEF Cheaper
  <2>. QED
    BY <2>1, <2>4, Zenon
<1>12. \A j, k \in 1..n : r[j] = r[k] => j = k
  <2>1. \A j, k \in 1..n : j < k \/ k < j \/ j = k
    OBVIOUS
  <2>2. \A j, k \in 1..n : j < k => r[j] # r[k]
    BY <1>11, Zenon
  <2>. QED
    BY <2>1, <2>2, Zenon
<1>13. \A i \in 1..n : \E k \in 1..n : r[k] = i
  <2>1. PICK S : S = 1..n
    OBVIOUS
  <2>2. r \in [1..n -> S] /\ IsFiniteSet(S) /\ Cardinality(S) = n
    BY <1>3, <1>10, <2>1, Zenon
  <2>3. \A i \in S : \E k \in 1..n : r[k] = i
    BY <1>12, <2>2, AllListed
  <2>. QED
    BY <2>1, <2>3, Zenon
<1>. QED
  BY <1>1, <1>2, <1>9, <1>10, <1>11, <1>12, <1>13, Zenon

\* The amounts are those of the quotations that have one, lowest first.
LEMMA AmountsList ==
  ASSUME Quoted
  PROVE  LET positive == ToSet(totals) \ {0}
         IN  /\ amounts \in Seq(positive)
             /\ \A a \in positive : \E k \in DOMAIN amounts : amounts[k] = a
             /\ \A j, k \in DOMAIN amounts : j < k => amounts[j] <= amounts[k]
<1>1. PICK n \in Nat : n = Len(totals)
  BY LenProperties DEF Quoted
<1>2. PICK r : r = ranked
  OBVIOUS
<1>3. /\ DOMAIN totals = 1..n
      /\ \A k \in 1..n : totals[k] \in Nat
      /\ r \in [1..n -> 1..n]
      /\ \A j, k \in 1..n : j < k => totals[r[j]] <= totals[r[k]]
      /\ \A i \in 1..n : \E k \in 1..n : r[k] = i
  BY <1>1, <1>2, RankedLists, Zenon
<1>. DEFINE priced == {k \in DOMAIN r : totals[r[k]] > 0}
            positive == ToSet(totals) \ {0}
            c == Cardinality(priced)
            o == InOrder(priced)
            am == [k \in 1..c |-> totals[r[o[k]]]]
<1>4. amounts = am
  BY <1>2 DEF amounts
<1>5. priced \in SUBSET (1..n) /\ priced \in SUBSET Nat
  BY <1>3
<1>6. IsFiniteSet(priced) /\ c \in Nat
  <2>1. IsFiniteSet(1..n)
    BY FS_Interval
  <2>2. IsFiniteSet(priced)
    BY <1>5, <2>1, FS_Subset
  <2>. QED
    BY <2>2, FS_CardinalityType
<1>7. /\ \A k \in priced : k \in 1..n /\ r[k] \in 1..n /\ totals[r[k]] > 0
      /\ \A k \in 1..n : totals[r[k]] > 0 => k \in priced
  BY <1>3
<1>8. \A a : a \in positive <=> \E k \in 1..n : a = totals[k] /\ totals[k] > 0
  <2>1. \A a : a \in ToSet(totals) <=> \E k \in 1..n : a = totals[k]
    BY <1>3 DEF ToSet
  <2>2. \A k \in 1..n : totals[k] > 0 <=> totals[k] # 0
    <3>1. \A k \in 1..n : totals[k] \in Nat
      BY <1>3, Zenon
    <3>. QED
      BY <3>1
  <2>. QED
    BY <2>1, <2>2
<1>. HIDE DEF priced, positive
<1>9. /\ \A k \in 1..c : o[k] \in priced
      /\ \A j, k \in 1..c : j < k => o[j] < o[k]
      /\ \A x \in priced : \E k \in 1..c : o[k] = x
  BY <1>5, <1>6, InOrderLists
<1>. HIDE DEF c, o
<1>10. \A k \in 1..c : am[k] = totals[r[o[k]]]
  OBVIOUS
<1>11. am \in [1..c -> positive]
  BY <1>7, <1>8, <1>9
<1>12. DOMAIN am = 1..c
  OBVIOUS
<1>. HIDE DEF am
<1>13. am \in Seq(positive)
  BY <1>6, <1>11, SeqDef
<1>14. ASSUME NEW a \in positive
       PROVE  \E k \in 1..c : am[k] = a
  <2>1. PICK i \in 1..n : a = totals[i] /\ totals[i] > 0
    BY <1>8
  <2>2. PICK k \in 1..n : r[k] = i
    BY <1>3
  <2>3. PICK l \in 1..c : o[l] = k
    BY <1>7, <1>9, <2>1, <2>2
  <2>. QED
    BY <1>10, <2>1, <2>2, <2>3
<1>15. \A j, k \in 1..c : j < k => am[j] <= am[k]
  <2>. SUFFICES ASSUME NEW j \in 1..c, NEW k \in 1..c, j < k
                PROVE  am[j] <= am[k]
    OBVIOUS
  <2>1. o[j] \in 1..n /\ o[k] \in 1..n /\ o[j] < o[k]
    BY <1>7, <1>9
  <2>2. totals[r[o[j]]] <= totals[r[o[k]]]
    BY <1>3, <2>1, Zenon
  <2>. QED
    BY <1>10, <2>2
<1>16. amounts = am /\ positive = ToSet(totals) \ {0}
  BY <1>4 DEF positive
<1>. QED
  BY <1>12, <1>13, <1>14, <1>15, <1>16, Zenon

\* So the ends of the list are what their names say.
LEMMA EndsBracket ==
  ASSUME Quoted
  PROVE  ComparisonBrackets
<1>1. PICK am : am = amounts
  OBVIOUS
<1>2. PICK positive : positive = ToSet(totals) \ {0}
  OBVIOUS
<1>3. /\ am \in Seq(positive)
      /\ \A a \in positive : \E k \in DOMAIN am : am[k] = a
      /\ \A j, k \in DOMAIN am : j < k => am[j] <= am[k]
  BY <1>1, <1>2, AmountsList, Zenon
<1>4. PICK c \in Nat : c = Len(am) /\ DOMAIN am = 1..c
  BY <1>3, LenProperties
<1>5. \A k \in 1..c : am[k] \in positive
  BY <1>3, <1>4, ElementOfSeq, Zenon
<1>6. positive \subseteq Nat
  BY <1>2, RankedLists DEF ToSet
<1>7. /\ IsInjective(ranked) /\ ToSet(ranked) = DOMAIN totals
      /\ \A j, k \in DOMAIN ranked :
           j < k => totals[ranked[j]] <= totals[ranked[k]]
  <2>1. PICK n : n = Len(totals)
    OBVIOUS
  <2>2. PICK r : r = ranked
    OBVIOUS
  <2>3. /\ DOMAIN totals = 1..n /\ r \in [1..n -> 1..n]
        /\ \A j, k \in 1..n : j < k => totals[r[j]] <= totals[r[k]]
        /\ \A j, k \in 1..n : r[j] = r[k] => j = k
        /\ \A i \in 1..n : \E k \in 1..n : r[k] = i
    BY <2>1, <2>2, RankedLists, Zenon
  <2>4. ToSet(r) = 1..n
    BY <2>3 DEF ToSet
  <2>. QED
    BY <2>2, <2>3, <2>4 DEF IsInjective
<1>8. CASE positive = {}
  <2>1. am = <<>>
    BY <1>3, <1>4, <1>5, <1>8
  <2>. QED
    BY <1>1, <1>2, <1>8, <1>7, <2>1 DEF ComparisonBrackets
<1>9. CASE positive # {}
  <2>1. 1 \in 1..c /\ c \in 1..c
    BY <1>3, <1>4, <1>9
  <2>. DEFINE low == am[1]  high == am[c]
  <2>2. low \in positive /\ high \in positive /\ low \in Nat /\ high \in Nat
    BY <1>5, <1>6, <2>1
  <2>3. ASSUME NEW a \in positive
        PROVE  low <= a /\ a <= high
    <3>1. PICK k \in 1..c : am[k] = a
      BY <1>3, <1>4
    <3>2. a \in Nat /\ (k = 1 \/ 1 < k) /\ (k = c \/ k < c)
      BY <1>6
    <3>3. low <= a
      BY <1>3, <1>4, <2>1, <2>2, <3>1, <3>2
    <3>4. a <= high
      BY <1>3, <1>4, <2>1, <2>2, <3>1, <3>2
    <3>. QED
      BY <3>3, <3>4
  <2>. HIDE DEF low, high
  <2>4. high - low = 0 <=> Cardinality(positive) = 1
    <3>1. ASSUME high - low = 0
          PROVE  Cardinality(positive) = 1
      <4>1. positive = {low}
        <5>1. high = low
          BY <2>2, <3>1
        <5>2. \A a \in positive : a = low
          <6>1. ASSUME NEW a \in positive
                PROVE  a = low
            <7>1. a \in Nat /\ low <= a /\ a <= low
              BY <1>6, <2>3, <5>1
            <7>. QED
              BY <2>2, <7>1
          <6>. QED
            BY <6>1
        <5>. QED
          BY <2>2, <5>2
      <4>. QED
        BY <4>1, FS_Singleton
    <3>2. ASSUME Cardinality(positive) = 1
          PROVE  high - low = 0
      <4>1. IsFiniteSet(positive)
        BY <1>6, <2>2, <2>3, FS_BoundedSetOfNaturals
      <4>2. \E x : positive = {x}
        BY <3>2, <4>1, FS_Singleton
      <4>3. high = low
        BY <2>2, <4>2
      <4>. QED
        BY <2>2, <4>3
    <3>. QED
      BY <3>1, <3>2
  <2>5. lowest_amount = low /\ highest_amount = high /\ difference = high - low
    BY <1>1, <1>4 DEF lowest_amount, highest_amount, difference, low, high
  <2>. QED
    BY <1>2, <1>7, <1>9, <2>2, <2>3, <2>4, <2>5 DEF ComparisonBrackets
<1>. QED
  BY <1>8, <1>9

\* QuotationRequestService.comparison: for any quotations, the ranks are those
\* of the totals and the amounts lie between the lowest and the highest one.
THEOREM ComparisonAlwaysBrackets == SpecComparison => []ComparisonBrackets
<1>1. InitComparison => Quoted
  BY DEF InitComparison, Quoted
<1>2. Quoted /\ [NextComparison]_totals => Quoted'
  BY DEF Quoted, NextComparison, quote
<1>. QED
  BY <1>1, <1>2, EndsBracket, PTL DEF SpecComparison
=============================================================================

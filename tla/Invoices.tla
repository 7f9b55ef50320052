------------------------------- MODULE Invoices -------------------------------
(***************************************************************************)
(* Invoices of an opening: drafted, submitted, reviewed by ACCOUNTS, and   *)
(* revised by a new row that names its parent.  A review is a chain of     *)
(* three commits (the approval row, its decision, the invoice), and every  *)
(* call decides on the invoice as it first loaded it.                      *)
(*                                                                         *)
(* Uses Approvals (the approval rows).                                     *)
(* Translated from app/services/accounts.py and app/api/accounts.py.       *)
(***************************************************************************)
EXTENDS Approvals, IdOrder, SequencesExt

CONSTANTS
  Manager,        \* users the endpoints of invoices admit
  Accountant,     \* users the review endpoint admits
  InvoiceWorker,  \* worker threads that handle invoices
  InvoiceVerdict, \* bound: decisions reviewers take
  MaxInvoices     \* bound: invoice rows

Verdicts == {"APPROVED", "MISMATCH", "REVISION_REQUIRED", "REJECTED"}

ASSUME InvoiceConstants ==
  /\ Manager \cup Accountant \subseteq Approver
  /\ 1..MaxInvoices \subseteq Entity
  /\ "INVOICE" \in ApprovalType
  /\ InvoiceVerdict \subseteq Verdicts
  /\ MaxInvoices \in Nat

VARIABLES
  invoices,     \* the rows of invoices, in id order
  invoicing     \* what each worker is doing

invoiceVars == <<approvalVars, invoices, invoicing>>

InvoiceStatus ==
  {"DRAFT", "SUBMITTED", "UNDER_REVIEW", "MISMATCH", "REVISION_REQUIRED",
   "REVISED", "APPROVED", "REJECTED", "PAID"}

\* A parent of 0 is a NULL parent_invoice_id.
Invoice ==
  [status : InvoiceStatus, version : Nat, parent_invoice_id : Nat]

AtDesk == [pc |-> "desk"]

InvoiceAt(w, pc) == invoicing[w].pc = pc

InvoiceTo(w, pc) == invoicing' = [invoicing EXCEPT ![w].pc = pc]

InvoiceDone(w) == invoicing' = [invoicing EXCEPT ![w] = AtDesk]

-----------------------------------------------------------------------------
InitInvoices ==
  /\ InitApprovals
  /\ invoices = <<>>
  /\ invoicing = [w \in InvoiceWorker |-> AtDesk]

\* AccountsService.create_invoice.  Amounts, vendor and event are left out.
create_invoice ==
  /\ Manager # {}
  /\ Len(invoices) < MaxInvoices
  /\ invoices' = Append(invoices,
       [status |-> "DRAFT", version |-> 1, parent_invoice_id |-> 0])
  /\ UNCHANGED <<approvalVars, invoicing>>

\* What each operation asks of the status it loads.
Submittable(i) == invoices[i].status = "DRAFT"
Reviewable(i)  == invoices[i].status \in {"SUBMITTED", "UNDER_REVIEW"}
Revisable(i)   == invoices[i].status \in Verdicts \ {"APPROVED"}

\* submit_invoice loads the draft ...
begin_submit_invoice(w, i) ==
  /\ InvoiceAt(w, "desk") /\ Manager # {}
  /\ Submittable(i)
  /\ invoicing' = [invoicing EXCEPT ![w] = [pc |-> "submit", id |-> i]]
  /\ UNCHANGED <<approvalVars, invoices>>

\* ... and commits, without looking again.
commit_submit_invoice(w) ==
  /\ InvoiceAt(w, "submit")
  /\ invoices' = [invoices EXCEPT ![invoicing[w].id].status = "SUBMITTED"]
  /\ InvoiceDone(w)
  /\ UNCHANGED approvalVars

\* review_invoice loads the invoice; earlier decisions are not looked at.
begin_review_invoice(w, i, decision, u) ==
  /\ InvoiceAt(w, "desk")
  /\ Reviewable(i)
  /\ u \in Accountant
  /\ invoicing' = [invoicing EXCEPT ![w] =
       [pc |-> "request", id |-> i, decision |-> decision, user |-> u,
        approval |-> 0]]
  /\ UNCHANGED <<approvalVars, invoices>>

request_invoice_approval(w) ==
  /\ InvoiceAt(w, "request")
  /\ request(invoicing[w].id, "INVOICE", invoicing[w].user)
  /\ invoicing' = [invoicing EXCEPT ![w].pc = "refresh",
                                    ![w].approval = Len(approvals) + 1]
  /\ UNCHANGED <<deciding, invoices>>

\* Faulty variant: a row decided by somebody else counts as decided.
refresh_invoice_approval_trusting(w) ==
  /\ InvoiceAt(w, "refresh")
  /\ InvoiceTo(w, IF approvals[invoicing[w].approval].decision = NoDecision
                    THEN "decide" ELSE "verdict")
  /\ UNCHANGED <<approvalVars, invoices>>

\* Faulty variant: the row is taken to be the latest one.
refresh_invoice_approval_latest(w) ==
  /\ InvoiceAt(w, "refresh")
  /\ invoicing' = [invoicing EXCEPT ![w].pc = "decide",
                                    ![w].approval = Len(approvals)]
  /\ UNCHANGED <<approvalVars, invoices>>

\* The refresh at the end of request: a row somebody has decided by now is
\* answered with a conflict.
refresh_invoice_approval(w) ==
  /\ InvoiceAt(w, "refresh")
  /\ IF approvals[invoicing[w].approval].decision = NoDecision
       THEN InvoiceTo(w, "decide") ELSE InvoiceDone(w)
  /\ UNCHANGED <<approvalVars, invoices>>

decide_invoice_approval(w) ==
  /\ InvoiceAt(w, "decide")
  /\ Decide(invoicing[w].approval, invoicing[w].decision, invoicing[w].user)
  /\ InvoiceTo(w, "verdict")
  /\ UNCHANGED <<deciding, invoices>>

\* The verdict differs from the status that was loaded, and is written.
commit_invoice_verdict(w) ==
  /\ InvoiceAt(w, "verdict")
  /\ invoices' = [invoices EXCEPT
                    ![invoicing[w].id].status = invoicing[w].decision]
  /\ InvoiceDone(w)
  /\ UNCHANGED approvalVars

\* revise_invoice loads a refused invoice ...
begin_revise_invoice(w, i) ==
  /\ InvoiceAt(w, "desk") /\ Manager # {}
  /\ Revisable(i)
  /\ invoicing' = [invoicing EXCEPT ![w] =
       [pc |-> "revise", id |-> i, version |-> invoices[i].version]]
  /\ UNCHANGED <<approvalVars, invoices>>

\* Faulty variant: the version counts the rows.
commit_revision_counting(w) ==
  /\ InvoiceAt(w, "revise")
  /\ Len(invoices) < MaxInvoices
  /\ invoices' = Append(invoices,
       [status |-> "REVISED", version |-> Len(invoices) + 1,
        parent_invoice_id |-> invoicing[w].id])
  /\ InvoiceDone(w)
  /\ UNCHANGED approvalVars

\* ... and commits a new row; the old one stays as it is, and may be revised
\* again.
commit_revision(w) ==
  /\ InvoiceAt(w, "revise")
  /\ Len(invoices) < MaxInvoices
  /\ invoices' = Append(invoices,
       [status |-> "REVISED", version |-> invoicing[w].version + 1,
        parent_invoice_id |-> invoicing[w].id])
  /\ InvoiceDone(w)
  /\ UNCHANGED approvalVars

crash_invoice(w) ==
  /\ invoicing[w] # AtDesk
  /\ InvoiceDone(w)
  /\ UNCHANGED <<approvalVars, invoices>>

\* Approval rows decided through the endpoint of the approvals.
DecideInvoicesDirectly ==
  /\ \E s \in Session :
       \/ \E id \in DOMAIN approvals, d \in InvoiceVerdict, u \in Accountant :
            load(s, id, d, u)
       \/ decide(s)
       \/ abandon(s)
  /\ UNCHANGED <<invoices, invoicing>>

NextInvoices ==
  \/ create_invoice
  \/ \E w \in InvoiceWorker :
       \/ \E i \in DOMAIN invoices :
            \/ begin_submit_invoice(w, i)
            \/ \E d \in InvoiceVerdict, u \in Accountant :
                 begin_review_invoice(w, i, d, u)
            \/ begin_revise_invoice(w, i)
       \/ commit_submit_invoice(w)
       \/ request_invoice_approval(w)
       \/ refresh_invoice_approval(w)
       \/ decide_invoice_approval(w)
       \/ commit_invoice_verdict(w)
       \/ commit_revision(w)
       \/ crash_invoice(w)
  \/ DecideInvoicesDirectly

SpecInvoices == InitInvoices /\ [][NextInvoices]_invoiceVars

-----------------------------------------------------------------------------
(* AccountsService.history: from an invoice up to the first version of its *)
(* family, then down again breadth first.                                  *)

\* Faulty variant: the invoice asked for counts as the first version.
FirstVersion_asked(i) == i

FirstVersion(i) ==
  LET root[j \in DOMAIN invoices] ==
        IF invoices[j].parent_invoice_id = 0
          THEN j ELSE root[invoices[j].parent_invoice_id]
  IN  root[i]

\* The revisions of an invoice, in id order.
Children(i) == {j \in DOMAIN invoices : invoices[j].parent_invoice_id = i}

\* The chain after n turns of the loop: each turn takes the next invoice off
\* the queue, which is the part of the chain not looked at yet.
history(i) ==
  LET chain[n \in 0..Len(invoices)] ==
        IF n = 0 THEN <<FirstVersion(i)>>
        ELSE LET found == chain[n - 1]
             IN  IF n > Len(found) THEN found
                 ELSE found \o InOrder(Children(found[n]) \ ToSet(found))
  IN  chain[Len(invoices)]

-----------------------------------------------------------------------------
(* Properties.                                                             *)

\* The rows are well formed, and a worker holds an approval row of its own
\* invoice.
TypeOKInvoices ==
  /\ TypeOKApprovals
  /\ invoices \in Seq(Invoice)
  /\ \A w \in InvoiceWorker : InvoiceAt(w, "decide") =>
       approvals[invoicing[w].approval].entity = invoicing[w].id

\* The decisions of this kind on record for invoice i.
InvoiceDecided(i, verdicts) ==
  \E k \in DOMAIN decisions :
    /\ approvals[decisions[k].approval].entity = i
    /\ decisions[k].new_value \in verdicts

\* Whatever races or dies: an invoice carries a verdict only if a decision to
\* that effect is on record.
InvoiceVerdictBacked ==
  \A i \in DOMAIN invoices :
    invoices[i].status \in Verdicts => InvoiceDecided(i, {invoices[i].status})

\* Every revision continues the version of an older row on which a refusal is
\* on record, also if that row was approved or revised meanwhile; the first
\* version has no parent.
RevisionsFollowRefusals ==
  \A i \in DOMAIN invoices :
    LET p == invoices[i].parent_invoice_id
    IN  IF p = 0 THEN invoices[i].version = 1
        ELSE /\ p < i
             /\ invoices[i].version = invoices[p].version + 1
             /\ InvoiceDecided(p, Verdicts \ {"APPROVED"})

\* The history of an invoice is the whole family, asked from any member: it
\* holds the invoice, with every row its parent and its revisions, no row
\* twice and no row before its parent.
HistoryIsFamily ==
  \A i \in DOMAIN invoices :
    LET h == history(i)
        Position(j) == CHOOSE n \in DOMAIN h : h[n] = j
    IN  /\ i \in ToSet(h)
        /\ IsInjective(h)
        /\ \A j \in DOMAIN invoices :
             LET p == invoices[j].parent_invoice_id
             IN  p # 0 => /\ j \in ToSet(h) <=> p \in ToSet(h)
                          /\ j \in ToSet(h) => Position(p) < Position(j)

\* docs/exception-cases.md, 5: a revised invoice goes to accounts review.
\* Violated: neither submit nor review takes a REVISED row.
RevisionsReviewable ==
  \A i \in DOMAIN invoices :
    invoices[i].status = "REVISED" => Submittable(i) \/ Reviewable(i)
=============================================================================

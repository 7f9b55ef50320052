--------------------------- MODULE ProcurementProofs ---------------------------
(***************************************************************************)
(* For any number of requests, vendors, workers, sessions and openings: a  *)
(* selection is backed by accepted quotations, an amount by a review that  *)
(* moved the case on, and a request opened again by one that moved it back.*)
(***************************************************************************)
EXTENDS Procurement, WorkflowProofs, ApprovalsProofs

RequestRow ==
  [branch_opening_id : Opening \cup {None}, items : BOOLEAN,
   status : QuotationRequestStatus, selected_vendor_id : Vendor \cup {None},
   approved_amount : BOOLEAN]

QuotationRow == [Vendor -> QuotationStatus \cup {None}]

\* What a worker may be doing.
QuoteJob ==
  [pc : {"quote"}, id : QuotationRequest, vendor : Vendor,
   status : QuotationRequestStatus]

SelectJob ==
  [pc : {"select", "event"}, id : QuotationRequest, vendor : Vendor,
   user : User, status : QuotationRequestStatus,
   quotation : QuotationStatus \cup {None}, selected : Vendor \cup {None}]

ReviewJob ==
  [pc : {"request", "refresh", "decide", "move", "reopen"},
   id : QuotationRequest, decision : ReviewDecision, amount : BOOLEAN,
   user : User, status : QuotationRequestStatus, approval : Nat,
   stage : WorkflowStage]

Job == {Idle} \cup QuoteJob \cup SelectJob \cup ReviewJob

HasQuotation(q) == \E v \in Vendor : q[v] # None

AcceptedIn(q) == {v \in Vendor : q[v] = "ACCEPTED"}

\* A review of the request with this decision is on record, of a user who
\* moved the case where the decision takes it.
Moved(r, o, d) ==
  \E u \in User : /\ OnRecord(r, {"ACCOUNTS"}, {d}, {u})
                  /\ AdvancedBy(o, ReviewTarget[d], u)

\* What holds of a request, its quotations and its events.  The amount and the
\* status need the history behind them: a request with an amount may be opened
\* again, quoted again and reviewed by workers that loaded it earlier.
RowFits(r, row, q, sel) ==
  /\ row.branch_opening_id = None => row = NoRequest /\ ~HasQuotation(q)
  /\ row.selected_vendor_id \in AcceptedIn(q) \cup {None}
  /\ row.status = "APPROVED" => row.selected_vendor_id # None
  /\ row.status # "OPEN" => HasQuotation(q)
  /\ row.approved_amount => Moved(r, row.branch_opening_id, "APPROVED")
  /\ row.status = "OPEN" /\ HasQuotation(q)
       => Moved(r, row.branch_opening_id, "SENT_BACK")
  /\ sel \subseteq AcceptedIn(q)
  /\ IsFiniteSet(AcceptedIn(q))
  /\ Cardinality(AcceptedIn(q)) <= Cardinality(ApprovalRows(r, "QUOTATION"))

RowOK(r) == RowFits(r, requests[r], quotations[r], selections[r])

RowsOK ==
  /\ requests \in [QuotationRequest -> RequestRow]
  /\ quotations \in [QuotationRequest -> QuotationRow]
  /\ selections \in [QuotationRequest -> SUBSET Vendor]
  /\ \A r \in QuotationRequest : RowOK(r)

\* What a worker knows of the request it loaded, and of its own decision.
JobFits(t, row, q) ==
  /\ row.branch_opening_id # None
  /\ t.pc = "quote" /\ t.status # "OPEN" => HasQuotation(q)
  /\ t.pc = "select" =>
       /\ q[t.vendor] # None
       /\ t.quotation = "ACCEPTED" => q[t.vendor] = "ACCEPTED"
       /\ t.selected # None => row.selected_vendor_id # None
  /\ t.pc = "event" => q[t.vendor] = "ACCEPTED"
  /\ t.pc \in {"refresh", "decide"} =>
       /\ t.approval \in DOMAIN approvals
       /\ approvals[t.approval].entity = t.id
       /\ approvals[t.approval].approval_type = "ACCOUNTS"
  /\ t.pc = "move" =>
       /\ t.decision \in DOMAIN ReviewTarget
       /\ OnRecord(t.id, {"ACCOUNTS"}, {t.decision}, {t.user})
  /\ t.pc = "reopen" => Moved(t.id, row.branch_opening_id, "SENT_BACK")

JobOK(w) ==
  LET t == buying[w]
  IN  t.pc # "idle" => JobFits(t, requests[t.id], quotations[t.id])

WithAmount(o) == {r \in QuotationRequest : /\ requests[r].branch_opening_id = o
                                           /\ requests[r].approved_amount}

AmountInv ==
  \A o \in Opening :
    /\ IsFiniteSet(WithAmount(o))
    /\ Cardinality(WithAmount(o)) <= Cardinality(EntriesInto(o, "CC_APPROVAL"))

ProcurementInv ==
  /\ TrailTypeOK
  /\ ApprovalsInv
  /\ RowsOK
  /\ AmountInv
  /\ buying \in [Buyer -> Job]
  /\ \A w \in Buyer : JobOK(w)

\* Cases and approvals only gain history.
Onward == TrailTypeOK' /\ TrailKept /\ ApprovalsInv' /\ Grows

\* A request keeps its opening, its quotations, its acceptances and the fact
\* that a vendor is selected.
RowsStay ==
  \A r \in QuotationRequest :
    /\ requests[r].branch_opening_id # None
         => requests'[r].branch_opening_id = requests[r].branch_opening_id
    /\ requests[r].selected_vendor_id # None
         => requests'[r].selected_vendor_id # None
    /\ \A v \in Vendor :
         /\ quotations[r][v] # None => quotations'[r][v] # None
         /\ quotations[r][v] = "ACCEPTED" => quotations'[r][v] = "ACCEPTED"

-----------------------------------------------------------------------------
(* History.                                                                *)

\* A review on record stays on record, and its move too.
LEMMA MovedStays ==
  ASSUME ProcurementInv, Onward, NEW r, NEW o \in Opening, NEW d,
         Moved(r, o, d)
  PROVE  Moved(r, o, d)'
<1>1. PICK u \in User : /\ OnRecord(r, {"ACCOUNTS"}, {d}, {u})
                        /\ AdvancedBy(o, ReviewTarget[d], u)
  BY DEF Moved
<1>2. PICK s : s = ReviewTarget[d]
  OBVIOUS
<1>3. OnRecord(r, {"ACCOUNTS"}, {d}, {u})'
  BY <1>1, RecordStays DEF ProcurementInv, ApprovalsInv, Onward
<1>4. AdvancedBy(o, s, u)'
  BY <1>1, <1>2, EntriesGrow DEF ProcurementInv, Onward
<1>. QED
  BY <1>2, <1>3, <1>4 DEF Moved

\* The approval rows of a request are finitely many, and stay.
LEMMA ApprovalRowsFinite ==
  ASSUME Trail, NEW r, NEW type
  PROVE  /\ IsFiniteSet(ApprovalRows(r, type))
         /\ Cardinality(ApprovalRows(r, type)) \in Nat
<1>1. ApprovalRows(r, type) \subseteq 1..Len(approvals) /\ Len(approvals) \in Nat
  BY DEF ApprovalRows, Trail
<1>2. IsFiniteSet(1..Len(approvals))
  BY <1>1, FS_Interval
<1>. QED
  BY <1>1, <1>2, FS_Subset, FS_CardinalityType

\* No step takes an approval row away from its owner: they are counted.
LEMMA ApprovalRowsGrow ==
  ASSUME ProcurementInv, Onward, NEW r, NEW type
  PROVE  /\ IsFiniteSet(ApprovalRows(r, type)')
         /\ Cardinality(ApprovalRows(r, type)) \in Nat
         /\ Cardinality(ApprovalRows(r, type)') \in Nat
         /\ Cardinality(ApprovalRows(r, type))
              <= Cardinality(ApprovalRows(r, type)')
<1>1. IsFiniteSet(ApprovalRows(r, type))
      /\ Cardinality(ApprovalRows(r, type)) \in Nat
  BY ApprovalRowsFinite DEF ProcurementInv, ApprovalsInv
<1>2. Trail'
  BY DEF Onward, ApprovalsInv
<1>3. (Trail => /\ IsFiniteSet(ApprovalRows(r, type))
                /\ Cardinality(ApprovalRows(r, type)) \in Nat)'
  BY ApprovalRowsFinite, PTL
<1>4. ApprovalRows(r, type) \subseteq ApprovalRows(r, type)'
  BY DEF ApprovalRows, Onward, Grows
<1>. QED
  BY <1>1, <1>2, <1>3, <1>4, FS_Subset

\* A row that fits goes on to fit.
LEMMA RowFitsStays ==
  ASSUME ProcurementInv, Onward, NEW r \in QuotationRequest,
         NEW row \in RequestRow, NEW q \in QuotationRow, NEW sel,
         RowFits(r, row, q, sel)
  PROVE  RowFits(r, row, q, sel)'
<1>1. row.branch_opening_id # None => row.branch_opening_id \in Opening
  BY DEF RequestRow
<1>2. row.approved_amount => Moved(r, row.branch_opening_id, "APPROVED")'
  <2>1. row.approved_amount => row.branch_opening_id # None
    BY DEF RowFits, NoRequest
  <2>. QED
    BY <1>1, <2>1, MovedStays DEF RowFits
<1>3. row.status = "OPEN" /\ HasQuotation(q)
        => Moved(r, row.branch_opening_id, "SENT_BACK")'
  BY <1>1, MovedStays DEF RowFits
<1>4. Cardinality(AcceptedIn(q)) <= Cardinality(ApprovalRows(r, "QUOTATION")')
  <2>1. Cardinality(AcceptedIn(q)) \in Nat
    BY FS_CardinalityType DEF RowFits
  <2>. QED
    BY <2>1, ApprovalRowsGrow DEF RowFits
<1>. QED
  BY <1>2, <1>3, <1>4 DEF RowFits

-----------------------------------------------------------------------------
(* Workers.                                                                *)

\* A worker that does nothing stays right.
LEMMA OtherWorkers ==
  ASSUME ProcurementInv, Onward, RowsStay, NEW w \in Buyer,
         buying'[w] = buying[w]
  PROVE  JobOK(w)'
<1>. PICK t \in Job : t = buying[w]
  BY DEF ProcurementInv
<1>. SUFFICES ASSUME t.pc # "idle"
              PROVE  JobFits(t, requests[t.id], quotations[t.id])'
  BY DEF JobOK
<1>1. t.id \in QuotationRequest
  BY DEF Job, QuoteJob, SelectJob, ReviewJob, Idle
<1>2. PICK r \in QuotationRequest : r = t.id
  BY <1>1
<1>3. PICK row \in RequestRow, q \in QuotationRow :
        row = requests[r] /\ q = quotations[r]
  BY DEF ProcurementInv, RowsOK
<1>4. JobFits(t, row, q) /\ Trail
  BY <1>2, <1>3 DEF ProcurementInv, JobOK, ApprovalsInv
<1>5. /\ row.branch_opening_id \in Opening
      /\ requests'[r].branch_opening_id = row.branch_opening_id
      /\ row.selected_vendor_id # None => requests'[r].selected_vendor_id # None
      /\ \A v \in Vendor :
           /\ q[v] # None => quotations'[r][v] # None
           /\ q[v] = "ACCEPTED" => quotations'[r][v] = "ACCEPTED"
  BY <1>3, <1>4 DEF RowsStay, JobFits, RequestRow
<1>6. HasQuotation(q) => HasQuotation(quotations'[r])
  BY <1>5 DEF HasQuotation
<1>7. t.pc = "select" =>
        /\ quotations'[r][t.vendor] # None
        /\ t.quotation = "ACCEPTED" => quotations'[r][t.vendor] = "ACCEPTED"
        /\ t.selected # None => requests'[r].selected_vendor_id # None
  <2>1. t.pc = "select" => t.vendor \in Vendor
    BY DEF Job, SelectJob, QuoteJob, ReviewJob, Idle
  <2>. QED
    BY <1>4, <1>5, <2>1 DEF JobFits
<1>8. t.pc = "event" => quotations'[r][t.vendor] = "ACCEPTED"
  <2>1. t.pc = "event" => t.vendor \in Vendor
    BY DEF Job, SelectJob, QuoteJob, ReviewJob, Idle
  <2>. QED
    BY <1>4, <1>5, <2>1 DEF JobFits
<1>9. t.pc \in {"refresh", "decide"} =>
        /\ t.approval \in DOMAIN approvals'
        /\ approvals'[t.approval].entity = t.id
        /\ approvals'[t.approval].approval_type = "ACCOUNTS"
  BY <1>4 DEF JobFits, Onward, Grows
<1>10. t.pc = "move" =>
         /\ t.decision \in DOMAIN ReviewTarget
         /\ OnRecord(t.id, {"ACCOUNTS"}, {t.decision}, {t.user})'
  BY <1>4, RecordStays DEF JobFits, Onward
<1>11. t.pc = "reopen" => Moved(t.id, row.branch_opening_id, "SENT_BACK")'
  BY <1>4, <1>5, MovedStays DEF JobFits
<1>12. row.branch_opening_id # None
  BY <1>4 DEF JobFits
<1>13. t.pc = "quote" /\ t.status # "OPEN" => HasQuotation(quotations'[r])
  BY <1>4, <1>6 DEF JobFits
<1>. QED
  BY <1>2, <1>5, <1>7, <1>8, <1>9, <1>10, <1>11, <1>12, <1>13 DEF JobFits

\* A step of one worker, from what it does to rows, approvals and cases.
LEMMA WorkerStep ==
  ASSUME ProcurementInv, Onward, RowsOK', AmountInv', RowsStay,
         NEW w \in Buyer, NEW t \in Job,
         buying' = [buying EXCEPT ![w] = t],
         t.pc # "idle" => JobFits(t, requests[t.id], quotations[t.id])'
  PROVE  ProcurementInv'
<1>1. buying \in [Buyer -> Job]
  BY DEF ProcurementInv
<1>2. /\ buying' \in [Buyer -> Job] /\ buying'[w] = t
      /\ \A v \in Buyer \ {w} : buying'[v] = buying[v]
  BY <1>1
<1>3. JobOK(w)'
  BY <1>2 DEF JobOK
<1>4. \A v \in Buyer : JobOK(v)'
  BY <1>2, <1>3, OtherWorkers
<1>. QED
  BY <1>2, <1>4 DEF ProcurementInv, Onward

\* A step of a session, of the engine or of nobody.
LEMMA NoWorkerStep ==
  ASSUME ProcurementInv, Onward, RowsOK', AmountInv', RowsStay,
         buying' = buying
  PROVE  ProcurementInv'
<1>1. \A v \in Buyer : JobOK(v)'
  BY OtherWorkers
<1>. QED
  BY <1>1 DEF ProcurementInv, Onward

-----------------------------------------------------------------------------
(* Rows.                                                                   *)

\* A row that is left alone goes on to fit.
LEMMA RowStays ==
  ASSUME ProcurementInv, Onward, NEW r \in QuotationRequest,
         requests'[r] = requests[r], quotations'[r] = quotations[r],
         selections'[r] = selections[r]
  PROVE  RowOK(r)'
<1>1. PICK row \in RequestRow, q \in QuotationRow, sel \in SUBSET Vendor :
        row = requests[r] /\ q = quotations[r] /\ sel = selections[r]
  BY DEF ProcurementInv, RowsOK
<1>2. RowFits(r, row, q, sel)
  BY <1>1 DEF ProcurementInv, RowsOK, RowOK
<1>3. RowFits(r, row, q, sel)'
  BY <1>2, RowFitsStays
<1>. QED
  BY <1>1, <1>3 DEF RowOK

\* No row is written.
LEMMA RowsKept ==
  ASSUME ProcurementInv, Onward, UNCHANGED <<requests, quotations, selections>>
  PROVE  RowsOK' /\ RowsStay /\ \A o \in Opening : WithAmount(o)' = WithAmount(o)
<1>1. \A r \in QuotationRequest : RowOK(r)'
  BY RowStays
<1>2. RowsOK'
  BY <1>1 DEF ProcurementInv, RowsOK
<1>. QED
  BY <1>2 DEF RowsStay, WithAmount

\* One request is written, with its quotations and events.
LEMMA RowWritten ==
  ASSUME ProcurementInv, Onward, NEW r \in QuotationRequest,
         NEW row \in RequestRow, NEW q \in QuotationRow,
         NEW sel \in SUBSET Vendor,
         requests' = [requests EXCEPT ![r] = row],
         quotations' = [quotations EXCEPT ![r] = q],
         selections' = [selections EXCEPT ![r] = sel],
         RowFits(r, row, q, sel)',
         requests[r].branch_opening_id # None
           => row.branch_opening_id = requests[r].branch_opening_id,
         requests[r].selected_vendor_id # None => row.selected_vendor_id # None,
         \A v \in Vendor : /\ quotations[r][v] # None => q[v] # None
                           /\ quotations[r][v] = "ACCEPTED" => q[v] = "ACCEPTED"
  PROVE  RowsOK' /\ RowsStay
<1>1. /\ requests \in [QuotationRequest -> RequestRow]
      /\ quotations \in [QuotationRequest -> QuotationRow]
      /\ selections \in [QuotationRequest -> SUBSET Vendor]
  BY DEF ProcurementInv, RowsOK
<1>2. /\ requests' \in [QuotationRequest -> RequestRow] /\ requests'[r] = row
      /\ quotations' \in [QuotationRequest -> QuotationRow]
      /\ quotations'[r] = q
      /\ selections' \in [QuotationRequest -> SUBSET Vendor]
      /\ selections'[r] = sel
      /\ \A s \in QuotationRequest \ {r} : /\ requests'[s] = requests[s]
                                           /\ quotations'[s] = quotations[s]
                                           /\ selections'[s] = selections[s]
  BY <1>1
<1>3. RowOK(r)'
  BY <1>2 DEF RowOK
<1>4. \A s \in QuotationRequest : RowOK(s)'
  BY <1>2, <1>3, RowStays
<1>5. RowsOK'
  BY <1>2, <1>4 DEF RowsOK
<1>6. RowsStay
  BY <1>2 DEF RowsStay
<1>. QED
  BY <1>5, <1>6

\* A row is written without the others, whose sets of requests with an amount
\* stay what they are.
LEMMA AmountWritten ==
  ASSUME ProcurementInv, NEW r \in QuotationRequest, NEW row \in RequestRow,
         requests' = [requests EXCEPT ![r] = row],
         row.approved_amount => /\ requests[r].approved_amount
                                /\ row.branch_opening_id
                                     = requests[r].branch_opening_id
  PROVE  \A o \in Opening : WithAmount(o)' \subseteq WithAmount(o)
<1>1. requests \in [QuotationRequest -> RequestRow]
  BY DEF ProcurementInv, RowsOK
<1>. QED
  BY <1>1 DEF WithAmount

\* No further amounts, and moves that are only added.
LEMMA AmountShrinks ==
  ASSUME ProcurementInv, Onward,
         \A o \in Opening : WithAmount(o)' \subseteq WithAmount(o)
  PROVE  AmountInv'
<1>. SUFFICES ASSUME NEW o \in Opening
              PROVE  /\ IsFiniteSet(WithAmount(o)')
                     /\ Cardinality(WithAmount(o)')
                          <= Cardinality(EntriesInto(o, "CC_APPROVAL")')
  BY DEF AmountInv
<1>1. /\ IsFiniteSet(WithAmount(o))
      /\ Cardinality(WithAmount(o))
           <= Cardinality(EntriesInto(o, "CC_APPROVAL"))
  BY DEF ProcurementInv, AmountInv
<1>2. /\ IsFiniteSet(WithAmount(o)')
      /\ Cardinality(WithAmount(o)') <= Cardinality(WithAmount(o))
      /\ Cardinality(WithAmount(o)) \in Nat /\ Cardinality(WithAmount(o)') \in Nat
  BY <1>1, FS_Subset, FS_CardinalityType
<1>3. /\ Cardinality(EntriesInto(o, "CC_APPROVAL")) \in Nat
      /\ Cardinality(EntriesInto(o, "CC_APPROVAL")') \in Nat
      /\ Cardinality(EntriesInto(o, "CC_APPROVAL"))
           <= Cardinality(EntriesInto(o, "CC_APPROVAL")')
  BY EntriesGrow DEF ProcurementInv, Onward
<1>. QED
  BY <1>1, <1>2, <1>3

-----------------------------------------------------------------------------
\* Initially there is no request, and every worker is idle.
LEMMA ProcurementInit == InitProcurement => ProcurementInv
<1>. SUFFICES ASSUME InitProcurement PROVE ProcurementInv
  OBVIOUS
<1>1. ApprovalsInv
  BY ApprovalsInit DEF InitProcurement
<1>2. TrailTypeOK
  BY InitAtTrail, ProcurementConstants DEF InitProcurement
<1>3. RowsOK
  <2>1. NoRequest \in RequestRow
    BY DEF NoRequest, RequestRow, QuotationRequestStatus
  <2>. SUFFICES ASSUME NEW r \in QuotationRequest PROVE RowOK(r)
    BY <2>1 DEF InitProcurement, RowsOK, QuotationRow
  <2>2. PICK q \in QuotationRow : q = quotations[r] /\ q = [v \in Vendor |-> None]
    BY DEF InitProcurement, QuotationRow
  <2>3. None # "ACCEPTED"
    BY ProcurementConstants DEF QuotationStatus
  <2>4. ~HasQuotation(q) /\ AcceptedIn(q) = {}
    BY <2>2, <2>3 DEF HasQuotation, AcceptedIn
  <2>5. /\ IsFiniteSet(AcceptedIn(q))
        /\ Cardinality(AcceptedIn(q)) <= Cardinality(ApprovalRows(r, "QUOTATION"))
    <3>1. Cardinality(ApprovalRows(r, "QUOTATION")) \in Nat
      BY <1>1, ApprovalRowsFinite DEF ApprovalsInv
    <3>. QED
      BY <2>4, <3>1, FS_EmptySet
  <2>6. requests[r] = NoRequest /\ selections[r] = {}
    BY DEF InitProcurement
  <2>. QED
    BY <2>2, <2>4, <2>5, <2>6 DEF RowOK, RowFits, NoRequest
<1>4. AmountInv
  <2>. SUFFICES ASSUME NEW o \in Opening
                PROVE  /\ IsFiniteSet(WithAmount(o))
                       /\ Cardinality(WithAmount(o))
                            <= Cardinality(EntriesInto(o, "CC_APPROVAL"))
    BY DEF AmountInv
  <2>1. WithAmount(o) = {}
    BY DEF InitProcurement, WithAmount, NoRequest
  <2>. QED
    BY <1>2, <2>1, FS_EmptySet, EntriesFinite
<1>. QED
  BY <1>1, <1>2, <1>3, <1>4 DEF InitProcurement, ProcurementInv, Job, JobOK, Idle

\* A step that touches neither cases nor approvals.
LEMMA NothingElse ==
  ASSUME ProcurementInv, UNCHANGED <<vars, approvalVars>>
  PROVE  Onward
<1>1. TrailTypeOK' /\ TrailKept
  BY NothingMoved DEF ProcurementInv
<1>2. ApprovalsInv' /\ Grows
  BY ApprovalsLeftAlone DEF ProcurementInv
<1>. QED
  BY <1>1, <1>2 DEF Onward

\* A step of one worker that writes no row.
LEMMA OnlyWorkerMoves ==
  ASSUME ProcurementInv, Onward, NEW w \in Buyer, NEW t \in Job,
         buying' = [buying EXCEPT ![w] = t],
         t.pc # "idle" => JobFits(t, requests[t.id], quotations[t.id])',
         UNCHANGED <<requests, quotations, selections>>
  PROVE  ProcurementInv'
<1>1. RowsOK' /\ RowsStay /\ \A o \in Opening : WithAmount(o)' = WithAmount(o)
  BY RowsKept
<1>2. AmountInv'
  BY <1>1, AmountShrinks
<1>. QED
  BY <1>1, <1>2, WorkerStep

\* A call that ends without a commit.
LEMMA LeavingStep ==
  ASSUME ProcurementInv, Onward, NEW w \in Buyer, Leave(w),
         UNCHANGED <<requests, quotations, selections>>
  PROVE  ProcurementInv'
<1>1. Idle \in Job /\ Idle.pc = "idle"
  BY DEF Job, Idle
<1>. QED
  BY <1>1, OnlyWorkerMoves DEF Leave

\* A call that ends with a commit of its request that writes no amount.
LEMMA CommitStep ==
  ASSUME ProcurementInv, Onward, NEW w \in Buyer, Leave(w), RowsOK', RowsStay,
         \A o \in Opening : WithAmount(o)' \subseteq WithAmount(o)
  PROVE  ProcurementInv'
<1>1. Idle \in Job /\ Idle.pc = "idle"
  BY DEF Job, Idle
<1>2. AmountInv'
  BY AmountShrinks
<1>. QED
  BY <1>1, <1>2, WorkerStep DEF Leave

\* The rows a worker goes by.
LEMMA RowsOf ==
  ASSUME ProcurementInv, NEW r \in QuotationRequest
  PROVE  \E row \in RequestRow, q \in QuotationRow, sel \in SUBSET Vendor :
           /\ row = requests[r] /\ q = quotations[r] /\ sel = selections[r]
           /\ RowFits(r, row, q, sel)
BY DEF ProcurementInv, RowsOK, RowOK

\* Writing back what is there.
LEMMA SameRows ==
  ASSUME ProcurementInv, NEW r \in QuotationRequest
  PROVE  /\ requests = [requests EXCEPT ![r] = requests[r]]
         /\ quotations = [quotations EXCEPT ![r] = quotations[r]]
         /\ selections = [selections EXCEPT ![r] = selections[r]]
BY DEF ProcurementInv, RowsOK

-----------------------------------------------------------------------------
(* The actions.                                                            *)

\* A request is created for a case, without quotations or amount.
LEMMA CreateStep ==
  ASSUME ProcurementInv, NEW r \in QuotationRequest, NEW o \in Opening,
         NEW items \in BOOLEAN, NEW u \in User, create_request(r, o, items, u)
  PROVE  ProcurementInv'
<1>. DEFINE row == [NoRequest EXCEPT !.branch_opening_id = o, !.items = items]
<1>1. PICK q \in QuotationRow, sel \in SUBSET Vendor :
        /\ q = quotations[r] /\ sel = selections[r]
        /\ RowFits(r, requests[r], q, sel)
  BY RowsOf
<1>2. requests[r] = NoRequest /\ ~HasQuotation(q)
  BY <1>1 DEF create_request, Made, RowFits
<1>3. /\ row \in RequestRow /\ row.branch_opening_id = o /\ row.status = "OPEN"
      /\ row.selected_vendor_id = None /\ row.approved_amount = FALSE
  BY DEF NoRequest, RequestRow, QuotationRequestStatus
<1>4. /\ requests' = [requests EXCEPT ![r] = row]
      /\ quotations' = [quotations EXCEPT ![r] = q]
      /\ selections' = [selections EXCEPT ![r] = sel]
  BY <1>1, <1>2, SameRows DEF create_request, ProcurementInv, RowsOK
<1>5. requests[r].branch_opening_id = None /\ requests[r].selected_vendor_id = None
  BY <1>2 DEF NoRequest
<1>. HIDE DEF row
<1>6. Onward
  BY NothingElse DEF create_request
<1>7. o # None
  BY ProcurementConstants
<1>8. RowFits(r, row, q, sel)
  BY <1>1, <1>2, <1>3, <1>7 DEF RowFits
<1>9. RowFits(r, row, q, sel)'
  BY <1>3, <1>6, <1>8, RowFitsStays
<1>10. RowsOK' /\ RowsStay
  BY <1>1, <1>3, <1>4, <1>5, <1>6, <1>9, RowWritten
<1>11. AmountInv'
  BY <1>3, <1>4, <1>6, AmountWritten, AmountShrinks
<1>. QED
  BY <1>6, <1>10, <1>11, NoWorkerStep DEF create_request

\* Items are added to a request.
LEMMA AddItemStep ==
  ASSUME ProcurementInv, NEW r \in QuotationRequest, NEW u \in User,
         add_item(r, u)
  PROVE  ProcurementInv'
<1>1. PICK old \in RequestRow, q \in QuotationRow, sel \in SUBSET Vendor :
        /\ old = requests[r] /\ q = quotations[r] /\ sel = selections[r]
        /\ RowFits(r, old, q, sel)
  BY RowsOf
<1>. DEFINE row == [old EXCEPT !.items = TRUE]
<1>2. /\ row \in RequestRow /\ row.branch_opening_id = old.branch_opening_id
      /\ row.status = old.status
      /\ row.selected_vendor_id = old.selected_vendor_id
      /\ row.approved_amount = old.approved_amount
  BY DEF RequestRow
<1>3. /\ requests' = [requests EXCEPT ![r] = row]
      /\ quotations' = [quotations EXCEPT ![r] = q]
      /\ selections' = [selections EXCEPT ![r] = sel]
  BY <1>1, SameRows DEF add_item, ProcurementInv, RowsOK
<1>4. old.branch_opening_id # None
  BY <1>1 DEF add_item, Made
<1>. HIDE DEF row
<1>5. Onward
  BY NothingElse DEF add_item
<1>6. RowFits(r, row, q, sel)
  BY <1>1, <1>2, <1>4 DEF RowFits
<1>7. RowFits(r, row, q, sel)'
  BY <1>2, <1>5, <1>6, RowFitsStays
<1>8. RowsOK' /\ RowsStay
  BY <1>1, <1>2, <1>3, <1>5, <1>7, RowWritten
<1>9. AmountInv'
  BY <1>1, <1>2, <1>3, <1>5, AmountWritten, AmountShrinks
<1>. QED
  BY <1>5, <1>8, <1>9, NoWorkerStep DEF add_item

\* A worker finds items and no quotation of the vendor.
LEMMA BeginQuotationStep ==
  ASSUME ProcurementInv, NEW w \in Buyer, NEW r \in QuotationRequest,
         NEW v \in Vendor, NEW u \in User, begin_quotation(w, r, v, u)
  PROVE  ProcurementInv'
<1>1. PICK row \in RequestRow, q \in QuotationRow, sel \in SUBSET Vendor :
        /\ row = requests[r] /\ q = quotations[r] /\ sel = selections[r]
        /\ RowFits(r, row, q, sel)
  BY RowsOf
<1>. DEFINE t == [pc |-> "quote", id |-> r, vendor |-> v, status |-> row.status]
<1>2. /\ t \in Job /\ t.pc = "quote" /\ t.id = r /\ t.status = row.status
  BY DEF Job, QuoteJob, RequestRow
<1>3. buying' = [buying EXCEPT ![w] = t]
      /\ UNCHANGED <<requests, quotations, selections>>
  BY <1>1 DEF begin_quotation
<1>. HIDE DEF t
<1>4. row.branch_opening_id # None
  BY <1>1 DEF begin_quotation, RowFits, NoRequest
<1>5. Onward
  BY NothingElse DEF begin_quotation
<1>6. JobFits(t, row, q)'
  BY <1>1, <1>2, <1>4 DEF JobFits, RowFits
<1>7. JobFits(t, requests[t.id], quotations[t.id])'
  BY <1>1, <1>2, <1>3, <1>6
<1>. QED
  BY <1>2, <1>3, <1>5, <1>7, OnlyWorkerMoves

\* A worker in the middle of a call, and what it knows.
LEMMA Working ==
  ASSUME ProcurementInv, NEW w \in Buyer, buying[w].pc # "idle"
  PROVE  \E t \in QuoteJob \cup SelectJob \cup ReviewJob,
            row \in RequestRow, q \in QuotationRow, sel \in SUBSET Vendor :
           /\ t = buying[w] /\ t.id \in QuotationRequest
           /\ row = requests[t.id] /\ q = quotations[t.id]
           /\ sel = selections[t.id]
           /\ JobFits(t, row, q) /\ RowFits(t.id, row, q, sel)
<1>1. PICK t \in QuoteJob \cup SelectJob \cup ReviewJob : t = buying[w]
  BY DEF ProcurementInv, Job, Idle
<1>2. t.id \in QuotationRequest
  BY DEF QuoteJob, SelectJob, ReviewJob
<1>3. JobFits(t, requests[t.id], quotations[t.id])
  BY <1>1 DEF ProcurementInv, JobOK
<1>. QED
  BY <1>1, <1>2, <1>3, RowsOf

\* A quotation of one more vendor.
LEMMA CommitQuotationStep ==
  ASSUME ProcurementInv, NEW w \in Buyer, commit_quotation(w)
  PROVE  ProcurementInv'
<1>1. buying[w].pc = "quote"
  BY DEF commit_quotation, Step
<1>2. PICK t \in QuoteJob, old \in RequestRow, p \in QuotationRow,
           sel \in SUBSET Vendor :
        /\ t = buying[w] /\ t.id \in QuotationRequest
        /\ old = requests[t.id] /\ p = quotations[t.id]
        /\ sel = selections[t.id]
        /\ JobFits(t, old, p) /\ RowFits(t.id, old, p, sel)
  BY <1>1, Working DEF QuoteJob, SelectJob, ReviewJob
<1>3. PICK r \in QuotationRequest, v \in Vendor,
           loaded \in QuotationRequestStatus :
        /\ r = t.id /\ v = t.vendor /\ loaded = t.status /\ t.pc = "quote"
        /\ old = requests[r] /\ p = quotations[r]
  BY <1>2 DEF QuoteJob
<1>4. Onward
  BY NothingElse DEF commit_quotation
<1>5. CASE p[v] # None
  <2>1. UNCHANGED <<requests, quotations, selections>> /\ Leave(w)
    BY <1>2, <1>3, <1>5 DEF commit_quotation
  <2>. QED
    BY <1>4, <2>1, LeavingStep
<1>6. CASE p[v] = None
  <2>. DEFINE status == Written(old.status, loaded, "SUBMITTED")
              row == [old EXCEPT !.status = status]
              q == [p EXCEPT ![v] = "SUBMITTED"]
  <2>1. status \in QuotationRequestStatus
    BY DEF Written, RequestRow, QuotationRequestStatus
  <2>2. /\ row \in RequestRow /\ row.status = status
        /\ row.branch_opening_id = old.branch_opening_id
        /\ row.selected_vendor_id = old.selected_vendor_id
        /\ row.approved_amount = old.approved_amount
    BY <2>1 DEF RequestRow
  <2>3. /\ q \in QuotationRow /\ q[v] = "SUBMITTED"
        /\ \A x \in Vendor \ {v} : q[x] = p[x]
    BY DEF QuotationRow, QuotationStatus
  <2>4. /\ requests' = [requests EXCEPT ![r] = row]
        /\ quotations' = [quotations EXCEPT ![r] = q]
    BY <1>2, <1>3, <1>6 DEF commit_quotation, ProcurementInv, RowsOK
  <2>5. selections' = [selections EXCEPT ![r] = sel] /\ Leave(w)
    BY <1>2, <1>3, SameRows DEF commit_quotation
  <2>6. None \notin QuotationStatus /\ old.branch_opening_id # None
    BY <1>2, ProcurementConstants DEF JobFits
  <2>7. /\ HasQuotation(q) /\ AcceptedIn(q) = AcceptedIn(p)
        /\ \A x \in Vendor : /\ p[x] # None => q[x] # None
                             /\ p[x] = "ACCEPTED" => q[x] = "ACCEPTED"
    BY <1>6, <2>3, <2>6 DEF HasQuotation, AcceptedIn, QuotationStatus
  <2>8. status # "OPEN" \/ (old.status = "OPEN" /\ HasQuotation(p))
    <3>1. loaded = "SUBMITTED" => HasQuotation(p)
      BY <1>2, <1>3 DEF JobFits
    <3>. QED
      BY <3>1 DEF Written
  <2>9. status = "APPROVED" => old.status = "APPROVED"
    BY DEF Written
  <2>. HIDE DEF row, q, status
  <2>10. RowFits(r, row, q, sel)
    BY <1>2, <1>3, <2>2, <2>6, <2>7, <2>8, <2>9 DEF RowFits
  <2>11. RowFits(r, row, q, sel)'
    BY <1>4, <2>2, <2>3, <2>10, RowFitsStays
  <2>12. RowsOK' /\ RowsStay
    <3>1. /\ requests[r].branch_opening_id # None
               => row.branch_opening_id = requests[r].branch_opening_id
          /\ requests[r].selected_vendor_id # None
               => row.selected_vendor_id # None
          /\ \A x \in Vendor :
               /\ quotations[r][x] # None => q[x] # None
               /\ quotations[r][x] = "ACCEPTED" => q[x] = "ACCEPTED"
      BY <1>3, <2>2, <2>7
    <3>. QED
      BY <1>4, <2>2, <2>3, <2>4, <2>5, <2>11, <3>1, RowWritten
  <2>13. \A o \in Opening : WithAmount(o)' \subseteq WithAmount(o)
    BY <1>2, <1>3, <2>2, <2>4, AmountWritten
  <2>. QED
    BY <1>4, <2>5, <2>12, <2>13, CommitStep
<1>. QED
  BY <1>5, <1>6

\* A worker finds a quotation of the vendor.
LEMMA BeginSelectStep ==
  ASSUME ProcurementInv, NEW w \in Buyer, NEW r \in QuotationRequest,
         NEW v \in Vendor, NEW u \in User, begin_select(w, r, v, u)
  PROVE  ProcurementInv'
<1>1. PICK row \in RequestRow, q \in QuotationRow, sel \in SUBSET Vendor :
        /\ row = requests[r] /\ q = quotations[r] /\ sel = selections[r]
        /\ RowFits(r, row, q, sel)
  BY RowsOf
<1>. DEFINE t == [pc |-> "select", id |-> r, vendor |-> v, user |-> u,
                  status |-> row.status, quotation |-> q[v],
                  selected |-> row.selected_vendor_id]
<1>2. /\ t \in Job /\ t.pc = "select" /\ t.id = r /\ t.vendor = v
      /\ t.quotation = q[v] /\ t.selected = row.selected_vendor_id
  BY DEF Job, SelectJob, RequestRow, QuotationRow
<1>3. buying' = [buying EXCEPT ![w] = t]
      /\ UNCHANGED <<requests, quotations, selections>>
  BY <1>1 DEF begin_select
<1>. HIDE DEF t
<1>4. row.branch_opening_id # None /\ q[v] # None
  BY <1>1 DEF begin_select, Made, Quoted
<1>5. Onward
  BY NothingElse DEF begin_select
<1>6. JobFits(t, row, q)'
  BY <1>2, <1>4 DEF JobFits
<1>7. JobFits(t, requests[t.id], quotations[t.id])'
  BY <1>1, <1>2, <1>3, <1>6
<1>. QED
  BY <1>2, <1>3, <1>5, <1>7, OnlyWorkerMoves

\* A selection accepts one quotation at most, with one more approval request.
LEMMA CommitSelectionStep ==
  ASSUME ProcurementInv, NEW w \in Buyer, commit_selection(w)
  PROVE  ProcurementInv'
<1>1. buying[w].pc = "select"
  BY DEF commit_selection, Step
<1>2. PICK t \in SelectJob, old \in RequestRow, p \in QuotationRow,
           sel \in SUBSET Vendor :
        /\ t = buying[w] /\ t.id \in QuotationRequest
        /\ old = requests[t.id] /\ p = quotations[t.id]
        /\ sel = selections[t.id]
        /\ JobFits(t, old, p) /\ RowFits(t.id, old, p, sel)
  BY <1>1, Working DEF QuoteJob, SelectJob, ReviewJob
<1>3. PICK r \in QuotationRequest, v \in Vendor, u \in User :
        /\ r = t.id /\ v = t.vendor /\ u = t.user /\ t.pc = "select"
        /\ old = requests[r] /\ p = quotations[r]
  BY <1>1, <1>2 DEF SelectJob
<1>. DEFINE status == Written(old.status, t.status, "APPROVED")
            selected == Written(old.selected_vendor_id, t.selected, v)
            quotation == Written(p[v], t.quotation, "ACCEPTED")
            row == [old EXCEPT !.status = status,
                               !.selected_vendor_id = selected]
            q == [p EXCEPT ![v] = quotation]
            s == [t EXCEPT !.pc = "event"]
<1>4. /\ request(r, "QUOTATION", u) /\ UNCHANGED <<vars, deciding>>
      /\ r \in Entity /\ "QUOTATION" \in ApprovalType /\ u \in Approver
  BY <1>2, <1>3, ProcurementConstants DEF commit_selection
<1>5. Onward
  <2>1. ApprovalsInv' /\ Grows
    BY <1>4, ApprovalRequested DEF ProcurementInv
  <2>2. TrailTypeOK' /\ TrailKept
    BY <1>4, NothingMoved DEF ProcurementInv
  <2>. QED
    BY <2>1, <2>2 DEF Onward
<1>6. /\ p[v] # None /\ old.branch_opening_id # None
      /\ t.quotation = "ACCEPTED" => p[v] = "ACCEPTED"
      /\ t.selected # None => old.selected_vendor_id # None
  BY <1>2, <1>3 DEF JobFits
<1>7. v # None
  BY ProcurementConstants
<1>8. /\ status \in QuotationRequestStatus /\ quotation = "ACCEPTED"
      /\ selected \in {old.selected_vendor_id, v} /\ selected # None
      /\ status \in {old.status, "APPROVED"}
  BY <1>6, <1>7 DEF Written, RequestRow, QuotationRequestStatus
<1>9. /\ row \in RequestRow /\ row.status = status
      /\ row.selected_vendor_id = selected
      /\ row.branch_opening_id = old.branch_opening_id
      /\ row.approved_amount = old.approved_amount
  BY <1>8 DEF RequestRow
<1>10. /\ q \in QuotationRow /\ q[v] = "ACCEPTED"
       /\ \A x \in Vendor \ {v} : q[x] = p[x]
  BY <1>8 DEF QuotationRow, QuotationStatus
<1>11. /\ s \in Job /\ s.pc = "event" /\ s.id = r /\ s.vendor = v
  BY <1>3 DEF Job, SelectJob
<1>12. requests' = [requests EXCEPT ![r] = row]
  BY <1>2, <1>3 DEF commit_selection, ProcurementInv, RowsOK
<1>13. quotations' = [quotations EXCEPT ![r] = q]
  BY <1>2, <1>3 DEF commit_selection, ProcurementInv, RowsOK
<1>14. selections' = [selections EXCEPT ![r] = sel]
  BY <1>2, <1>3, SameRows DEF commit_selection
<1>15. buying' = [buying EXCEPT ![w] = s]
  BY <1>2 DEF commit_selection, Turn, ProcurementInv
<1>. HIDE DEF row, q, s, status, selected, quotation
<1>16. /\ HasQuotation(p) /\ HasQuotation(q)
       /\ AcceptedIn(q) = AcceptedIn(p) \cup {v}
       /\ \A x \in Vendor : /\ p[x] # None => q[x] # None
                            /\ p[x] = "ACCEPTED" => q[x] = "ACCEPTED"
  <2>1. None # "ACCEPTED"
    BY ProcurementConstants DEF QuotationStatus
  <2>. QED
    BY <1>6, <1>10, <2>1 DEF HasQuotation, AcceptedIn
<1>17. RowFits(r, old, p, sel)'
  BY <1>2, <1>3, <1>5, RowFitsStays
<1>18. /\ IsFiniteSet(AcceptedIn(q))
       /\ Cardinality(AcceptedIn(q))
            <= Cardinality(ApprovalRows(r, "QUOTATION")')
  <2>. DEFINE rows == ApprovalRows(r, "QUOTATION")
              id == Len(approvals) + 1
  <2>1. IsFiniteSet(rows) /\ Cardinality(rows) \in Nat
    BY ApprovalRowsFinite DEF ProcurementInv, ApprovalsInv
  <2>2. id \notin rows
    BY DEF ApprovalRows, ProcurementInv, ApprovalsInv, Trail
  <2>3. rows \cup {id} \subseteq ApprovalRows(r, "QUOTATION")'
    <3>1. /\ id \in DOMAIN approvals' /\ approvals'[id].entity = r
          /\ approvals'[id].approval_type = "QUOTATION"
      BY <1>4, RequestPreserves DEF ProcurementInv, ApprovalsInv
    <3>. QED
      BY <1>5, <3>1 DEF ApprovalRows, Onward, Grows
  <2>4. Cardinality(rows \cup {id}) = Cardinality(rows) + 1
    BY <2>1, <2>2, FS_AddElement
  <2>5. /\ IsFiniteSet(ApprovalRows(r, "QUOTATION")')
        /\ Cardinality(ApprovalRows(r, "QUOTATION")') \in Nat
    BY <1>5, ApprovalRowsGrow
  <2>7. Cardinality(rows) + 1 <= Cardinality(ApprovalRows(r, "QUOTATION")')
    BY <2>3, <2>4, <2>5, FS_Subset
  <2>8. /\ IsFiniteSet(AcceptedIn(p)) /\ Cardinality(AcceptedIn(p)) \in Nat
        /\ Cardinality(AcceptedIn(p)) <= Cardinality(rows)
    BY <1>2, <1>3, FS_CardinalityType DEF RowFits
  <2>9. /\ IsFiniteSet(AcceptedIn(q))
        /\ Cardinality(AcceptedIn(q)) \in {Cardinality(AcceptedIn(p)),
                                           Cardinality(AcceptedIn(p)) + 1}
    BY <1>16, <2>8, FS_AddElement
  <2>. HIDE DEF rows, id
  <2>. QED
    BY <2>1, <2>5, <2>7, <2>8, <2>9
<1>19. RowFits(r, row, q, sel)'
  BY <1>6, <1>8, <1>9, <1>10, <1>16, <1>17, <1>18 DEF RowFits, AcceptedIn
<1>20. RowsOK' /\ RowsStay
  BY <1>3, <1>5, <1>8, <1>9, <1>10, <1>12, <1>13, <1>14, <1>16, <1>19,
     RowWritten
<1>21. AmountInv'
  BY <1>2, <1>3, <1>5, <1>9, <1>12, AmountWritten, AmountShrinks
<1>22. JobFits(s, row, q)'
  BY <1>6, <1>9, <1>10, <1>11 DEF JobFits
<1>23. JobFits(s, requests[s.id], quotations[s.id])'
  <2>1. requests'[r] = row /\ quotations'[r] = q
    BY <1>12, <1>13 DEF ProcurementInv, RowsOK
  <2>. QED
    BY <1>11, <1>22, <2>1
<1>. QED
  BY <1>5, <1>11, <1>15, <1>20, <1>21, <1>23, WorkerStep

\* The event names the vendor whose quotation was accepted.
LEMMA EventStep ==
  ASSUME ProcurementInv, NEW w \in Buyer, commit_selection_event(w)
  PROVE  ProcurementInv'
<1>1. buying[w].pc = "event"
  BY DEF commit_selection_event, Step
<1>2. PICK t \in SelectJob, row \in RequestRow, q \in QuotationRow,
           old \in SUBSET Vendor :
        /\ t = buying[w] /\ t.id \in QuotationRequest
        /\ row = requests[t.id] /\ q = quotations[t.id]
        /\ old = selections[t.id]
        /\ JobFits(t, row, q) /\ RowFits(t.id, row, q, old)
  BY <1>1, Working DEF QuoteJob, SelectJob, ReviewJob
<1>3. PICK r \in QuotationRequest, v \in Vendor :
        /\ r = t.id /\ v = t.vendor /\ t.pc = "event"
        /\ row = requests[r] /\ q = quotations[r]
  BY <1>1, <1>2 DEF SelectJob
<1>. DEFINE sel == old \cup {v}
<1>4. Onward
  BY NothingElse DEF commit_selection_event
<1>5. v \in AcceptedIn(q)
  BY <1>2, <1>3 DEF JobFits, AcceptedIn
<1>6. RowFits(r, row, q, sel)'
  <2>1. RowFits(r, row, q, old)'
    BY <1>2, <1>3, <1>4, RowFitsStays
  <2>. QED
    BY <1>5, <2>1 DEF RowFits
<1>7. /\ requests' = [requests EXCEPT ![r] = row]
      /\ quotations' = [quotations EXCEPT ![r] = q]
  BY <1>3, SameRows DEF commit_selection_event
<1>8. selections' = [selections EXCEPT ![r] = sel] /\ sel \in SUBSET Vendor
  BY <1>2, <1>3 DEF commit_selection_event, ProcurementInv, RowsOK
<1>. HIDE DEF sel
<1>9. RowsOK' /\ RowsStay
  BY <1>3, <1>4, <1>6, <1>7, <1>8, RowWritten
<1>10. \A o \in Opening : WithAmount(o)' \subseteq WithAmount(o)
  BY DEF commit_selection_event, WithAmount
<1>. QED
  BY <1>4, <1>9, <1>10, CommitStep DEF commit_selection_event

\* A review loads the request and the stage of its case.
LEMMA BeginReviewStep ==
  ASSUME ProcurementInv, NEW w \in Buyer, NEW r \in QuotationRequest,
         NEW d \in ReviewDecision, NEW amount \in BOOLEAN, NEW u \in User,
         begin_review(w, r, d, amount, u)
  PROVE  ProcurementInv'
<1>1. PICK row \in RequestRow, q \in QuotationRow :
        row = requests[r] /\ q = quotations[r]
  BY RowsOf
<1>2. row.branch_opening_id \in Opening /\ row.branch_opening_id # None
  BY <1>1 DEF begin_review, Made, RequestRow
<1>3. PICK stage \in WorkflowStage : stage = current_stage[row.branch_opening_id]
  BY <1>2 DEF ProcurementInv, TrailTypeOK
<1>. DEFINE t == [pc |-> "request", id |-> r, decision |-> d,
                  amount |-> amount, user |-> u, status |-> row.status,
                  approval |-> 0, stage |-> stage]
<1>4. t \in Job /\ t.pc = "request" /\ t.id = r
  BY DEF Job, ReviewJob, RequestRow
<1>5. buying' = [buying EXCEPT ![w] = t]
      /\ UNCHANGED <<requests, quotations, selections>>
  BY <1>1, <1>3 DEF begin_review
<1>. HIDE DEF t
<1>6. Onward
  BY NothingElse DEF begin_review
<1>7. JobFits(t, row, q)'
  BY <1>2, <1>4 DEF JobFits
<1>8. JobFits(t, requests[t.id], quotations[t.id])'
  BY <1>1, <1>4, <1>5, <1>7
<1>. QED
  BY <1>4, <1>5, <1>6, <1>8, OnlyWorkerMoves

\* A worker in the middle of a review, and what it knows.
LEMMA Reviewing ==
  ASSUME ProcurementInv, NEW w \in Buyer,
         buying[w].pc \in {"request", "refresh", "decide", "move", "reopen"}
  PROVE  \E t \in ReviewJob, row \in RequestRow, q \in QuotationRow,
            sel \in SUBSET Vendor, r \in QuotationRequest :
           /\ t = buying[w] /\ t.id = r
           /\ row = requests[r] /\ q = quotations[r] /\ sel = selections[r]
           /\ JobFits(t, row, q) /\ RowFits(r, row, q, sel)
           /\ row.branch_opening_id \in Opening
<1>1. PICK t \in QuoteJob \cup SelectJob \cup ReviewJob,
           row \in RequestRow, q \in QuotationRow, sel \in SUBSET Vendor :
        /\ t = buying[w] /\ t.id \in QuotationRequest
        /\ row = requests[t.id] /\ q = quotations[t.id]
        /\ sel = selections[t.id]
        /\ JobFits(t, row, q) /\ RowFits(t.id, row, q, sel)
  BY Working
<1>2. t \in ReviewJob
  BY <1>1 DEF QuoteJob, SelectJob, ReviewJob
<1>3. row.branch_opening_id \in Opening
  BY <1>1 DEF JobFits, RequestRow
<1>. QED
  BY <1>1, <1>2, <1>3

\* The review asks for an approval and remembers its row.
LEMMA RequestStep ==
  ASSUME ProcurementInv, NEW w \in Buyer, request_approval(w)
  PROVE  ProcurementInv'
<1>1. buying[w].pc = "request"
  BY DEF request_approval, Step
<1>2. PICK t \in ReviewJob, row \in RequestRow, q \in QuotationRow,
           r \in QuotationRequest :
        /\ t = buying[w] /\ t.id = r /\ row = requests[r] /\ q = quotations[r]
        /\ row.branch_opening_id \in Opening
  BY <1>1, Reviewing
<1>3. PICK id \in Nat : id = Len(approvals) + 1
  BY DEF ProcurementInv, ApprovalsInv, Trail
<1>. DEFINE s == [t EXCEPT !.pc = "refresh", !.approval = id]
<1>4. /\ s \in Job /\ s.pc = "refresh" /\ s.id = r /\ s.approval = id
  BY <1>2 DEF Job, ReviewJob
<1>5. /\ request(r, "ACCOUNTS", t.user) /\ UNCHANGED <<vars, deciding>>
      /\ r \in Entity /\ "ACCOUNTS" \in ApprovalType /\ t.user \in Approver
  BY <1>2, ProcurementConstants DEF request_approval, ReviewJob
<1>6. Onward
  <2>1. ApprovalsInv' /\ Grows
    BY <1>5, ApprovalRequested DEF ProcurementInv
  <2>2. TrailTypeOK' /\ TrailKept
    BY <1>5, NothingMoved DEF ProcurementInv
  <2>. QED
    BY <2>1, <2>2 DEF Onward
<1>7. /\ id \in DOMAIN approvals' /\ approvals'[id].entity = r
      /\ approvals'[id].approval_type = "ACCOUNTS"
  BY <1>3, <1>5, RequestPreserves DEF ProcurementInv, ApprovalsInv
<1>8. /\ buying' = [buying EXCEPT ![w] = s]
      /\ UNCHANGED <<requests, quotations, selections>>
  BY <1>2, <1>3 DEF request_approval, ProcurementInv
<1>. HIDE DEF s
<1>9. row.branch_opening_id # None
  BY <1>2, ProcurementConstants
<1>10. JobFits(s, row, q)'
  BY <1>4, <1>7, <1>9 DEF JobFits
<1>11. JobFits(s, requests[s.id], quotations[s.id])'
  BY <1>2, <1>4, <1>8, <1>10
<1>. QED
  BY <1>4, <1>6, <1>8, <1>11, OnlyWorkerMoves

\* The review goes on if nobody has decided the row meanwhile.
LEMMA RefreshStep ==
  ASSUME ProcurementInv, NEW w \in Buyer, refresh_approval(w)
  PROVE  ProcurementInv'
<1>1. buying[w].pc = "refresh"
  BY DEF refresh_approval, Step
<1>2. PICK t \in ReviewJob, row \in RequestRow, q \in QuotationRow,
           r \in QuotationRequest :
        /\ t = buying[w] /\ t.id = r /\ row = requests[r] /\ q = quotations[r]
        /\ JobFits(t, row, q)
  BY <1>1, Reviewing
<1>3. Onward /\ UNCHANGED <<requests, quotations, selections>>
  BY NothingElse DEF refresh_approval
<1>4. CASE Leave(w)
  BY <1>3, <1>4, LeavingStep
<1>5. CASE Turn(w, "decide")
  <2>. DEFINE s == [t EXCEPT !.pc = "decide"]
  <2>1. s \in Job /\ s.pc = "decide" /\ s.id = r /\ s.approval = t.approval
    BY <1>2 DEF Job, ReviewJob
  <2>2. buying' = [buying EXCEPT ![w] = s]
    BY <1>2, <1>5 DEF Turn, ProcurementInv
  <2>. HIDE DEF s
  <2>3. JobFits(s, row, q)'
    <3>1. /\ t.approval \in DOMAIN approvals
          /\ approvals[t.approval].entity = r
          /\ approvals[t.approval].approval_type = "ACCOUNTS"
          /\ row.branch_opening_id # None
      BY <1>1, <1>2 DEF JobFits
    <3>2. /\ t.approval \in DOMAIN approvals'
          /\ approvals'[t.approval].entity = r
          /\ approvals'[t.approval].approval_type = "ACCOUNTS"
      BY <1>3, <3>1 DEF Onward, Grows
    <3>. QED
      BY <2>1, <3>1, <3>2 DEF JobFits
  <2>4. JobFits(s, requests[s.id], quotations[s.id])'
    BY <1>2, <1>3, <2>1, <2>3
  <2>. QED
    BY <1>3, <2>1, <2>2, <2>4, OnlyWorkerMoves
<1>. QED
  BY <1>4, <1>5 DEF refresh_approval

\* The decision goes on record before anything moves.
LEMMA DecideStep ==
  ASSUME ProcurementInv, NEW w \in Buyer, decide_approval(w)
  PROVE  ProcurementInv'
<1>1. buying[w].pc = "decide"
  BY DEF decide_approval, Step
<1>2. PICK t \in ReviewJob, row \in RequestRow, q \in QuotationRow,
           r \in QuotationRequest :
        /\ t = buying[w] /\ t.id = r /\ row = requests[r] /\ q = quotations[r]
        /\ JobFits(t, row, q)
  BY <1>1, Reviewing
<1>3. PICK id \in DOMAIN approvals :
        /\ id = t.approval
        /\ approvals[id].entity = r /\ approvals[id].approval_type = "ACCOUNTS"
  BY <1>1, <1>2 DEF JobFits
<1>4. /\ Decide(id, t.decision, t.user) /\ UNCHANGED <<vars, deciding>>
      /\ t.decision \in ApprovalDecision /\ t.user \in Approver
  BY <1>2, <1>3, ProcurementConstants DEF decide_approval, ReviewJob
<1>5. ApprovalsInv' /\ Grows
  BY <1>4, ApprovalDecided DEF ProcurementInv
<1>6. Onward /\ UNCHANGED <<requests, quotations, selections>>
  <2>1. TrailTypeOK' /\ TrailKept
    BY <1>4, NothingMoved DEF ProcurementInv
  <2>. QED
    BY <1>5, <2>1 DEF Onward, decide_approval
<1>7. CASE Leave(w)
  BY <1>6, <1>7, LeavingStep
<1>8. CASE Turn(w, "move") /\ t.decision \in DOMAIN ReviewTarget
  <2>. DEFINE s == [t EXCEPT !.pc = "move"]
  <2>1. /\ s \in Job /\ s.pc = "move" /\ s.id = r /\ s.decision = t.decision
        /\ s.user = t.user
    BY <1>2 DEF Job, ReviewJob
  <2>2. buying' = [buying EXCEPT ![w] = s]
    BY <1>2, <1>8 DEF Turn, ProcurementInv
  <2>. HIDE DEF s
  <2>3. OnRecord(r, {"ACCOUNTS"}, {t.decision}, {t.user})'
    <3>1. OnRecord(approvals[id].entity, {approvals[id].approval_type},
                   {t.decision}, {t.user})'
      BY <1>4, DecidingRecords DEF ProcurementInv, ApprovalsInv
    <3>2. /\ approvals'[id].entity = approvals[id].entity
          /\ approvals'[id].approval_type = approvals[id].approval_type
      BY <1>5 DEF Grows
    <3>. QED
      BY <1>3, <3>1, <3>2 DEF OnRecord
  <2>4. JobFits(s, row, q)'
    BY <1>2, <1>8, <2>1, <2>3 DEF JobFits
  <2>5. JobFits(s, requests[s.id], quotations[s.id])'
    BY <1>2, <1>6, <2>1, <2>4
  <2>. QED
    BY <1>6, <2>1, <2>2, <2>5, OnlyWorkerMoves
<1>. QED
  BY <1>2, <1>7, <1>8 DEF decide_approval

\* The engine moves the case where the decision takes it: an approval writes
\* one amount behind one entry into CC_APPROVAL, of its case.
LEMMA MoveStep ==
  ASSUME ProcurementInv, NEW w \in Buyer, move_or_conflict(w)
  PROVE  ProcurementInv'
<1>1. buying[w].pc = "move"
  BY DEF move_or_conflict, Step
<1>2. PICK t \in ReviewJob, old \in RequestRow, q \in QuotationRow,
           sel \in SUBSET Vendor, r \in QuotationRequest :
        /\ t = buying[w] /\ t.id = r
        /\ old = requests[r] /\ q = quotations[r] /\ sel = selections[r]
        /\ JobFits(t, old, q) /\ RowFits(r, old, q, sel)
        /\ old.branch_opening_id \in Opening
  BY <1>1, Reviewing
<1>3. PICK o \in Opening, d \in DOMAIN ReviewTarget, u \in User,
           stage \in WorkflowStage :
        /\ o = old.branch_opening_id /\ d = t.decision /\ u = t.user
        /\ stage = t.stage
  BY <1>1, <1>2 DEF JobFits, ReviewJob
<1>4. OnRecord(r, {"ACCOUNTS"}, {d}, {u}) /\ o # None
  BY <1>1, <1>2, <1>3, ProcurementConstants DEF JobFits
<1>5. CASE ~Movable(t)
  <2>1. UNCHANGED <<vars, approvalVars, requests, quotations, selections>>
        /\ Leave(w)
    BY <1>2, <1>5 DEF move_or_conflict
  <2>. QED
    BY <2>1, NothingElse, LeavingStep
<1>6. CASE Movable(t)
  <2>1. PICK target \in {"QUOTATION", "CC_APPROVAL"} :
          /\ target = ReviewTarget[d]
          /\ target = "CC_APPROVAL" <=> d = "APPROVED"
          /\ target = "QUOTATION" <=> d = "SENT_BACK"
    BY DEF ReviewTarget
  <2>2. target \in WorkflowStage
    <3>1. SEQUENCE[7] = "QUOTATION" /\ SEQUENCE[9] = "CC_APPROVAL"
      BY DEF SEQUENCE
    <3>. QED
      BY <3>1, SequenceIndex
  <2>3. Advance(o, stage, target, u)
    BY <1>2, <1>3, <1>6, <2>1 DEF move_or_conflict
  <2>4. /\ TrailTypeOK' /\ TrailKept /\ AdvancedBy(o, target, u)'
        /\ Cardinality(EntriesInto(o, target)')
             = Cardinality(EntriesInto(o, target)) + 1
        /\ \A p \in Opening, s \in WorkflowStage :
             p # o \/ s # target => EntriesInto(p, s)' = EntriesInto(p, s)
    BY <2>2, <2>3, AdvanceRecorded DEF ProcurementInv
  <2>5. Onward
    <3>1. ApprovalsInv' /\ Grows
      BY ApprovalsLeftAlone DEF ProcurementInv, move_or_conflict
    <3>. QED
      BY <2>4, <3>1 DEF Onward
  <2>6. Moved(r, o, d)'
    <3>1. OnRecord(r, {"ACCOUNTS"}, {d}, {u})'
      BY <1>4, <2>5, RecordStays DEF ProcurementInv, ApprovalsInv, Onward
    <3>. QED
      BY <2>1, <2>4, <3>1 DEF Moved
  <2>7. /\ quotations' = [quotations EXCEPT ![r] = q]
        /\ selections' = [selections EXCEPT ![r] = sel]
    BY <1>2, SameRows DEF move_or_conflict
  <2>8. CASE d = "APPROVED"
    <3>. DEFINE row == [old EXCEPT !.approved_amount = TRUE]
    <3>1. /\ row \in RequestRow /\ row.approved_amount = TRUE
          /\ row.branch_opening_id = o /\ row.status = old.status
          /\ row.selected_vendor_id = old.selected_vendor_id
      BY <1>3 DEF RequestRow
    <3>2. requests' = [requests EXCEPT ![r] = row] /\ Leave(w)
      BY <1>2, <1>3, <1>6, <2>8
      DEF move_or_conflict, ProcurementInv, RowsOK
    <3>. HIDE DEF row
    <3>3. RowFits(r, old, q, sel)'
      BY <1>2, <2>5, RowFitsStays
    <3>4. RowFits(r, row, q, sel)'
      BY <1>3, <1>4, <2>6, <2>8, <3>1, <3>3 DEF RowFits
    <3>5. /\ requests[r].branch_opening_id # None
               => row.branch_opening_id = requests[r].branch_opening_id
          /\ requests[r].selected_vendor_id # None
               => row.selected_vendor_id # None
          /\ \A x \in Vendor :
               /\ quotations[r][x] # None => q[x] # None
               /\ quotations[r][x] = "ACCEPTED" => q[x] = "ACCEPTED"
      BY <1>2, <1>3, <3>1
    <3>6. RowsOK' /\ RowsStay
      BY <2>5, <2>7, <3>1, <3>2, <3>4, <3>5, RowWritten
    <3>7. AmountInv'
      <4>. SUFFICES ASSUME NEW p \in Opening
                    PROVE  /\ IsFiniteSet(WithAmount(p)')
                           /\ Cardinality(WithAmount(p)')
                                <= Cardinality(EntriesInto(p, "CC_APPROVAL")')
        BY DEF AmountInv
      <4>1. /\ IsFiniteSet(WithAmount(p))
            /\ Cardinality(WithAmount(p))
                 <= Cardinality(EntriesInto(p, "CC_APPROVAL"))
        BY DEF ProcurementInv, AmountInv
      <4>2. /\ Cardinality(EntriesInto(p, "CC_APPROVAL")) \in Nat
            /\ Cardinality(WithAmount(p)) \in Nat
        BY <4>1, EntriesFinite, FS_CardinalityType DEF ProcurementInv
      <4>3. requests \in [QuotationRequest -> RequestRow]
        BY DEF ProcurementInv, RowsOK
      <4>4. CASE p = o
        <5>1. WithAmount(p)' = WithAmount(p) \cup {r}
          BY <1>2, <1>3, <3>1, <3>2, <4>3, <4>4 DEF WithAmount
        <5>2. /\ IsFiniteSet(WithAmount(p)')
              /\ Cardinality(WithAmount(p)') \in {Cardinality(WithAmount(p)),
                                                  Cardinality(WithAmount(p)) + 1}
          BY <4>1, <5>1, FS_AddElement
        <5>3. Cardinality(EntriesInto(p, "CC_APPROVAL")')
                = Cardinality(EntriesInto(p, "CC_APPROVAL")) + 1
          BY <2>1, <2>4, <2>8, <4>4
        <5>. QED
          BY <4>1, <4>2, <5>2, <5>3
      <4>5. CASE p # o
        <5>1. WithAmount(p)' = WithAmount(p)
          BY <1>2, <1>3, <3>1, <3>2, <4>3, <4>5 DEF WithAmount
        <5>2. EntriesInto(p, "CC_APPROVAL")' = EntriesInto(p, "CC_APPROVAL")
          BY <2>1, <2>2, <2>4, <2>8, <4>5
        <5>. QED
          BY <4>1, <5>1, <5>2
      <4>. QED
        BY <4>4, <4>5
    <3>8. Idle \in Job /\ Idle.pc = "idle"
      BY DEF Job, Idle
    <3>. QED
      BY <2>5, <3>2, <3>6, <3>7, <3>8, WorkerStep DEF Leave
  <2>9. CASE d = "SENT_BACK"
    <3>. DEFINE s == [t EXCEPT !.pc = "reopen"]
    <3>1. s \in Job /\ s.pc = "reopen" /\ s.id = r
      BY <1>2 DEF Job, ReviewJob
    <3>2. UNCHANGED requests /\ Turn(w, "reopen")
      BY <1>2, <1>3, <1>6, <2>9 DEF move_or_conflict
    <3>3. buying' = [buying EXCEPT ![w] = s]
      BY <1>2, <3>2 DEF Turn, ProcurementInv
    <3>4. UNCHANGED <<requests, quotations, selections>>
      BY <3>2 DEF move_or_conflict
    <3>. HIDE DEF s
    <3>5. JobFits(s, old, q)'
      BY <1>3, <1>4, <2>6, <2>9, <3>1 DEF JobFits
    <3>6. JobFits(s, requests[s.id], quotations[s.id])'
      BY <1>2, <3>1, <3>4, <3>5
    <3>. QED
      BY <2>5, <3>1, <3>3, <3>4, <3>6, OnlyWorkerMoves
  <2>. QED
    BY <2>1, <2>8, <2>9
<1>. QED
  BY <1>5, <1>6

\* A request is opened again by a review that moved its case back.
LEMMA ReopenStep ==
  ASSUME ProcurementInv, NEW w \in Buyer, commit_reopen(w)
  PROVE  ProcurementInv'
<1>1. buying[w].pc = "reopen"
  BY DEF commit_reopen, Step
<1>2. PICK t \in ReviewJob, old \in RequestRow, q \in QuotationRow,
           sel \in SUBSET Vendor, r \in QuotationRequest :
        /\ t = buying[w] /\ t.id = r
        /\ old = requests[r] /\ q = quotations[r] /\ sel = selections[r]
        /\ JobFits(t, old, q) /\ RowFits(r, old, q, sel)
        /\ old.branch_opening_id \in Opening
  BY <1>1, Reviewing
<1>. DEFINE status == Written(old.status, t.status, "OPEN")
            row == [old EXCEPT !.status = status]
<1>3. status \in {old.status, "OPEN"} /\ status \in QuotationRequestStatus
  BY DEF Written, RequestRow, QuotationRequestStatus
<1>4. /\ row \in RequestRow /\ row.status = status
      /\ row.branch_opening_id = old.branch_opening_id
      /\ row.selected_vendor_id = old.selected_vendor_id
      /\ row.approved_amount = old.approved_amount
  BY <1>3 DEF RequestRow
<1>5. requests' = [requests EXCEPT ![r] = row] /\ Leave(w)
  BY <1>2 DEF commit_reopen, ProcurementInv, RowsOK
<1>6. /\ quotations' = [quotations EXCEPT ![r] = q]
      /\ selections' = [selections EXCEPT ![r] = sel]
  BY <1>2, SameRows DEF commit_reopen
<1>. HIDE DEF row, status
<1>7. Onward
  BY NothingElse DEF commit_reopen
<1>8. Moved(r, old.branch_opening_id, "SENT_BACK") /\ old.branch_opening_id # None
  BY <1>1, <1>2 DEF JobFits
<1>9. RowFits(r, row, q, sel)
  BY <1>2, <1>3, <1>4, <1>8 DEF RowFits
<1>10. RowFits(r, row, q, sel)'
  BY <1>4, <1>7, <1>9, RowFitsStays
<1>11. /\ requests[r].branch_opening_id # None
            => row.branch_opening_id = requests[r].branch_opening_id
       /\ requests[r].selected_vendor_id # None
            => row.selected_vendor_id # None
       /\ \A x \in Vendor :
            /\ quotations[r][x] # None => q[x] # None
            /\ quotations[r][x] = "ACCEPTED" => q[x] = "ACCEPTED"
  BY <1>2, <1>4
<1>12. RowsOK' /\ RowsStay
  BY <1>4, <1>5, <1>6, <1>7, <1>10, <1>11, RowWritten
<1>13. \A o \in Opening : WithAmount(o)' \subseteq WithAmount(o)
  BY <1>2, <1>4, <1>5, AmountWritten
<1>. QED
  BY <1>5, <1>7, <1>12, <1>13, CommitStep

\* A step of the engine, of a session on the approvals, or of nobody.
LEMMA OutsideStep ==
  ASSUME ProcurementInv, Onward,
         UNCHANGED <<requests, quotations, selections, buying>>
  PROVE  ProcurementInv'
<1>1. RowsOK' /\ RowsStay /\ \A o \in Opening : WithAmount(o)' = WithAmount(o)
  BY RowsKept
<1>2. AmountInv'
  BY <1>1, AmountShrinks
<1>. QED
  BY <1>1, <1>2, NoWorkerStep

\* Openings are moved by hand.
LEMMA HandStep ==
  ASSUME ProcurementInv, MoveByHand
  PROVE  ProcurementInv'
<1>1. PICK o \in Opening, u \in User :
        send_back(o, u) \/ \E target \in WorkflowStage : transition(o, target, u)
  BY ProcurementConstants DEF MoveByHand
<1>2. TrailTypeOK' /\ TrailKept
  BY <1>1, HandMoved DEF ProcurementInv
<1>3. ApprovalsInv' /\ Grows
  BY ApprovalsLeftAlone DEF ProcurementInv, MoveByHand
<1>. QED
  BY <1>2, <1>3, OutsideStep DEF MoveByHand, Onward

\* Approvals are decided directly.
LEMMA DirectStep ==
  ASSUME ProcurementInv, DecideDirectly
  PROVE  ProcurementInv'
<1>1. NextApprovals
  BY ProcurementConstants DEF DecideDirectly, NextApprovals
<1>2. ApprovalsInv' /\ Grows
  BY <1>1, ApprovalsStep DEF ProcurementInv
<1>3. TrailTypeOK' /\ TrailKept
  BY NothingMoved DEF ProcurementInv, DecideDirectly
<1>. QED
  BY <1>2, <1>3, OutsideStep DEF DecideDirectly, Onward

\* Every step preserves the invariant.
LEMMA ProcurementNext ==
  ASSUME ProcurementInv, [NextProcurement]_procurementVars
  PROVE  ProcurementInv'
<1>1. ASSUME UNCHANGED procurementVars PROVE ProcurementInv'
  BY <1>1, NothingElse, OutsideStep DEF procurementVars
<1>2. ASSUME NEW w \in Buyer, crash(w) PROVE ProcurementInv'
  BY <1>2, NothingElse, LeavingStep DEF crash
<1>. QED
  BY <1>1, <1>2, CreateStep, AddItemStep, BeginQuotationStep,
     CommitQuotationStep, BeginSelectStep, CommitSelectionStep, EventStep,
     BeginReviewStep, RequestStep, RefreshStep, DecideStep, MoveStep,
     ReopenStep, HandStep, DirectStep
  DEF NextProcurement

\* Two shapes of the same review.
LEMMA MovedIsReviewMoved ==
  ASSUME ProcurementInv, NEW r \in QuotationRequest, NEW d,
         Moved(r, requests[r].branch_opening_id, d)
  PROVE  ReviewMoved(r, d)
<1>1. PICK u \in User :
        /\ OnRecord(r, {"ACCOUNTS"}, {d}, {u})
        /\ AdvancedBy(requests[r].branch_opening_id, ReviewTarget[d], u)
  BY DEF Moved
<1>2. PICK k \in DOMAIN decisions :
        /\ approvals[decisions[k].approval].entity = r
        /\ approvals[decisions[k].approval].approval_type = "ACCOUNTS"
        /\ decisions[k].new_value = d /\ decisions[k].user_id = u
  BY <1>1 DEF OnRecord
<1>3. decisions[k].approval \in ApprovalRows(r, "ACCOUNTS")
  BY <1>2 DEF ApprovalRows, ProcurementInv, ApprovalsInv, Trail
<1>. QED
  BY <1>1, <1>2, <1>3 DEF ReviewMoved, AdvancedBy

-----------------------------------------------------------------------------
\* However selections and quotations race or die: the vendor selected and the
\* vendors of the events have accepted quotations, no more of them than
\* approvals were asked for, and an approved request names a vendor.
THEOREM SelectionAlwaysBacked == SpecProcurement => []SelectionBacked
<1>1. InitProcurement => ProcurementInv
  BY ProcurementInit
<1>2. ProcurementInv /\ [NextProcurement]_procurementVars => ProcurementInv'
  BY ProcurementNext
<1>3. ProcurementInv => SelectionBacked
  BY DEF ProcurementInv, RowsOK, RowOK, RowFits, AcceptedIn, Accepted,
         SelectionBacked
<1>. QED
  BY <1>1, <1>2, <1>3, PTL DEF SpecProcurement

\* An amount stands behind an approval on record whose approver moved the
\* case to CC_APPROVAL, and no two requests share such a move.
THEOREM AmountAlwaysMovesCase == SpecProcurement => []AmountMovesCase
<1>1. InitProcurement => ProcurementInv
  BY ProcurementInit
<1>2. ProcurementInv /\ [NextProcurement]_procurementVars => ProcurementInv'
  BY ProcurementNext
<1>3. ProcurementInv => AmountMovesCase
  <2>. SUFFICES ASSUME ProcurementInv PROVE AmountMovesCase
    OBVIOUS
  <2>1. \A r \in QuotationRequest :
          requests[r].approved_amount => ReviewMoved(r, "APPROVED")
    BY MovedIsReviewMoved DEF ProcurementInv, RowsOK, RowOK, RowFits
  <2>. QED
    BY <2>1
    DEF ProcurementInv, AmountInv, WithAmount, EntriesInto, AmountMovesCase
<1>. QED
  BY <1>1, <1>2, <1>3, PTL DEF SpecProcurement

\* A request with quotations is open only after a review on record sent it
\* back, whose approver moved the case to QUOTATION.
THEOREM AlwaysReopenedBySendBack == SpecProcurement => []ReopenedBySendBack
<1>1. InitProcurement => ProcurementInv
  BY ProcurementInit
<1>2. ProcurementInv /\ [NextProcurement]_procurementVars => ProcurementInv'
  BY ProcurementNext
<1>3. ProcurementInv => ReopenedBySendBack
  <2>. SUFFICES ASSUME ProcurementInv, NEW r \in QuotationRequest,
                       requests[r].status = "OPEN", Quoted(r) # {}
                PROVE  ReviewMoved(r, "SENT_BACK")
    BY DEF ReopenedBySendBack
  <2>1. HasQuotation(quotations[r])
    BY DEF Quoted, HasQuotation
  <2>2. Moved(r, requests[r].branch_opening_id, "SENT_BACK")
    BY <2>1 DEF ProcurementInv, RowsOK, RowOK, RowFits
  <2>. QED
    BY <2>2, MovedIsReviewMoved
<1>. QED
  BY <1>1, <1>2, <1>3, PTL DEF SpecProcurement
=============================================================================

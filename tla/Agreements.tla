------------------------------ MODULE Agreements ------------------------------
(***************************************************************************)
(* The two documents a case executes: the letter of agreement, whose       *)
(* status moves along LOA_NEXT, and the agreement, whose status may be set *)
(* to anything.  Every change is loaded, checked and committed with an     *)
(* event of its own; nothing locks the row in between.                     *)
(*                                                                         *)
(* Translated from app/services/deposit.py (LOAService) and                *)
(* app/services/agreements.py.                                             *)
(***************************************************************************)
EXTENDS Naturals, Sequences, FiniteSets

CONSTANTS
  Signer,              \* worker threads that handle the documents
  MaxLOAEvents,        \* bound: LOA updates
  MaxAgreementEvents   \* bound: status changes of the agreement

VARIABLES
  loa,                 \* the row of loa_requests
  loa_events,          \* new_value of its LOA_<status> events, in id order
  agreement,           \* Agreement.status
  agreement_events,    \* its AGREEMENT_<status> events, in id order
  signing              \* what each worker has loaded and is about to commit

documentVars == <<loa, loa_events, agreement, agreement_events, signing>>

LOAStatus == {"REQUESTED", "APPROVED", "ISSUED", "EXECUTED", "REJECTED"}

AgreementStatus == {"DRAFT", "UNDER_EXECUTION", "EXECUTED", "CANCELLED"}

LOA_NEXT ==
  [REQUESTED |-> "APPROVED", APPROVED |-> "ISSUED", ISSUED |-> "EXECUTED"]

NotSigning == [pc |-> "away"]

Signing(w, pc) == signing[w].pc = pc

\* A column is written if the session changed it from what it had loaded.
Overwritten(stored, loaded, new) == IF new = loaded THEN stored ELSE new

-----------------------------------------------------------------------------
\* A letter as LOAService.create leaves it, an agreement as
\* AgreementService.create does.
InitDocuments ==
  /\ loa = [status |-> "REQUESTED", issued_date |-> FALSE]
  /\ loa_events = <<>>
  /\ agreement = "DRAFT"
  /\ agreement_events = <<>>
  /\ signing = [w \in Signer |-> NotSigning]

\* Faulty variant: a letter may be executed once it is approved.
loa_allowed_skipping(current, new) ==
  \/ new \in {"REJECTED", current}
  \/ current = "APPROVED" /\ new = "EXECUTED"
  \/ current \in DOMAIN LOA_NEXT /\ LOA_NEXT[current] = new

\* The test in LOAService.update: rejecting and repeating are always allowed,
\* nothing else leads out of REJECTED or EXECUTED.
loa_allowed(current, new) ==
  \/ new \in {"REJECTED", current}
  \/ current \in DOMAIN LOA_NEXT /\ LOA_NEXT[current] = new

\* LOAService.update loads the row and checks the change; the caller may
\* bring an issued_date.
begin_loa(w, new, dated) ==
  /\ Signing(w, "away")
  /\ Len(loa_events) < MaxLOAEvents
  /\ loa_allowed(loa.status, new)
  /\ signing' = [signing EXCEPT ![w] =
       [pc |-> "loa", loaded |-> loa, new |-> new, dated |-> dated]]
  /\ UNCHANGED <<loa, loa_events, agreement, agreement_events>>

commit_loa(w) ==
  LET s == signing[w] IN
  /\ Signing(w, "loa")
  /\ loa' = [status |-> Overwritten(loa.status, s.loaded.status, s.new),
             issued_date |-> loa.issued_date \/ s.dated \/ s.new = "ISSUED"]
  /\ loa_events' = Append(loa_events, s.new)
  /\ signing' = [signing EXCEPT ![w] = NotSigning]
  /\ UNCHANGED <<agreement, agreement_events>>

\* AgreementService.set_status.
begin_agreement(w, new) ==
  /\ Signing(w, "away")
  /\ Len(agreement_events) < MaxAgreementEvents
  /\ signing' = [signing EXCEPT ![w] =
       [pc |-> "agreement", old |-> agreement, new |-> new]]
  /\ UNCHANGED <<loa, loa_events, agreement, agreement_events>>

\* Faulty variant: the old status is read after it was overwritten.
commit_agreement_recorded_late(w) ==
  LET s == signing[w] IN
  /\ Signing(w, "agreement")
  /\ agreement' = Overwritten(agreement, s.old, s.new)
  /\ agreement_events' =
       Append(agreement_events, [old_value |-> agreement, new_value |-> s.new])
  /\ signing' = [signing EXCEPT ![w] = NotSigning]
  /\ UNCHANGED <<loa, loa_events>>

commit_agreement(w) ==
  LET s == signing[w] IN
  /\ Signing(w, "agreement")
  /\ agreement' = Overwritten(agreement, s.old, s.new)
  /\ agreement_events' =
       Append(agreement_events, [old_value |-> s.old, new_value |-> s.new])
  /\ signing' = [signing EXCEPT ![w] = NotSigning]
  /\ UNCHANGED <<loa, loa_events>>

crash_signer(w) ==
  /\ signing[w] # NotSigning
  /\ signing' = [signing EXCEPT ![w] = NotSigning]
  /\ UNCHANGED <<loa, loa_events, agreement, agreement_events>>

NextLOA ==
  \E w \in Signer :
    \/ \E new \in LOAStatus, dated \in BOOLEAN : begin_loa(w, new, dated)
    \/ commit_loa(w)
    \/ crash_signer(w)

NextAgreement ==
  \E w \in Signer :
    \/ \E new \in AgreementStatus : begin_agreement(w, new)
    \/ commit_agreement(w)
    \/ crash_signer(w)

NextDocuments == NextLOA \/ NextAgreement

SpecDocuments == InitDocuments /\ [][NextDocuments]_documentVars

-----------------------------------------------------------------------------
(* Properties.                                                             *)

TypeOKDocuments ==
  /\ loa \in [status : LOAStatus, issued_date : BOOLEAN]
  /\ loa_events \in Seq(LOAStatus)
  /\ agreement \in AgreementStatus
  /\ agreement_events \in
       Seq([old_value : AgreementStatus, new_value : AgreementStatus])

\* No shortcut to an executed letter, also when updates overlap, overwrite
\* each other or arrive late: a status was recorded only after the one before
\* it had been, the letter carries a recorded status, and a letter issued or
\* executed has its date.
LOAInOrder ==
  /\ \A k \in DOMAIN loa_events, s \in DOMAIN LOA_NEXT \ {"REQUESTED"} :
       loa_events[k] = LOA_NEXT[s] => \E j \in 1..(k - 1) : loa_events[j] = s
  /\ loa.status # "REQUESTED" =>
       \E k \in DOMAIN loa_events : loa_events[k] = loa.status
  /\ loa.status \in {"ISSUED", "EXECUTED"} => loa.issued_date

\* A trail in which every event starts from the status the one before it left
\* tells the status of the agreement: a change lost to another session always
\* shows as a break in the trail.
AgreementTrailShowsLostChanges ==
  LET n == Len(agreement_events)
      Unbroken == \A k \in 2..n :
        agreement_events[k].old_value = agreement_events[k - 1].new_value
  IN  n > 0 /\ Unbroken => agreement = agreement_events[n].new_value
=============================================================================

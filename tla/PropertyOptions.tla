---------------------------- MODULE PropertyOptions ----------------------------
(***************************************************************************)
(* The property options of an opening: numbered in the order they are      *)
(* added, with a status that any manager may set, cancel, send to approval *)
(* or approve.  The next number is the largest one committed plus one; a   *)
(* unique constraint refuses the second of two options that took the same  *)
(* number, and the call is not tried again.                                *)
(*                                                                         *)
(* Uses Approvals (the approval rows).                                     *)
(* Translated from app/services/properties.py and app/models/property.py.  *)
(***************************************************************************)
EXTENDS Approvals, SequencesExt

CONSTANTS
  Surveyor,         \* worker threads that handle options
  PropertyManager,  \* users the endpoints admit
  StatusSet,        \* bound: statuses callers ask for
  MaxOptions,       \* bound: options
  MaxOptionEvents   \* bound: status events of all options

PropertyStatus ==
  {"UNDER_REVIEW", "UNDER_APPROVAL", "SELECTED", "APPROVED", "REJECTED",
   "NOT_SELECTED", "CANCELLED", "REPLACEMENT"}

ASSUME PropertyConstants ==
  /\ PropertyManager \subseteq Approver
  /\ 1..MaxOptions \subseteq Entity
  /\ "PROPERTY" \in ApprovalType
  /\ StatusSet \subseteq PropertyStatus
  /\ MaxOptions \in Nat

VARIABLES
  options,         \* the rows of property_options, in id order
  option_events,   \* the PROPERTY_STATUS_CHANGED events of each, in id order
  surveying        \* what each worker is doing

propertyVars == <<approvalVars, options, option_events, surveying>>

Home == [pc |-> "home"]

Surveying(w, pc) == surveying[w].pc = pc

GoHome(w) == surveying' = [surveying EXCEPT ![w] = Home]

\* A column is written if the session changed it from what it had loaded.
Stored(stored, loaded, new) == IF new = loaded THEN stored ELSE new

Sequences == {options[i].option_sequence : i \in DOMAIN options}

-----------------------------------------------------------------------------
InitProperties ==
  /\ InitApprovals
  /\ options = <<>>
  /\ option_events = <<>>
  /\ surveying = [w \in Surveyor |-> Home]

_next_sequence == IF Sequences = {} THEN 1 ELSE 1 + Max(Sequences)

\* PropertyService.create reads the largest number and whether an option has
\* been cancelled ...
begin_property(w, status) ==
  /\ Surveying(w, "home")
  /\ Len(options) < MaxOptions
  /\ LET cancelled == \E i \in DOMAIN options : options[i].status = "CANCELLED"
     IN  surveying' = [surveying EXCEPT ![w] =
           [pc |-> "create", option_sequence |-> _next_sequence,
            status |-> IF cancelled /\ status = "UNDER_REVIEW"
                         THEN "REPLACEMENT" ELSE status]]
  /\ UNCHANGED <<approvalVars, options, option_events>>

\* Faulty variant: no unique constraint.
commit_property_unconstrained(w) ==
  LET s == surveying[w] IN
  /\ Surveying(w, "create")
  /\ options' = Append(options, [option_sequence |-> s.option_sequence,
                                 status |-> s.status])
  /\ option_events' = Append(option_events, <<>>)
  /\ GoHome(w)
  /\ UNCHANGED approvalVars

\* ... and commits the option, unless its number has been taken meanwhile.
commit_property(w) ==
  LET s == surveying[w] IN
  /\ Surveying(w, "create")
  /\ IF s.option_sequence \in Sequences
       THEN UNCHANGED <<options, option_events>>
       ELSE /\ options' = Append(options,
                 [option_sequence |-> s.option_sequence, status |-> s.status])
            /\ option_events' = Append(option_events, <<>>)
  /\ GoHome(w)
  /\ UNCHANGED approvalVars

\* The calls that change the status of an option as they loaded it.  update
\* and cancel do nothing when it has that status already, set_status records
\* the change all the same; approve and request_approval ask for an approval.
begin_change(w, i, op, new, u) ==
  LET old == options[i].status IN
  /\ Surveying(w, "home")
  /\ Len(FlattenSeq(option_events)) < MaxOptionEvents
  /\ CASE op = "set_status" -> TRUE
       [] op = "update" -> new # old
       [] op = "cancel" -> new = "CANCELLED" /\ new # old
       [] op = "request_approval" -> new = "UNDER_APPROVAL" /\ old # "CANCELLED"
       [] op = "approve" -> new = "APPROVED"
  /\ surveying' = [surveying EXCEPT ![w] =
       [pc |-> IF op = "request_approval" /\ old = "APPROVED"
                 THEN "request" ELSE "change",
        id |-> i, old |-> old, new |-> new, user |-> u,
        asks |-> CASE op = "approve" -> "along"
                   [] op = "request_approval" -> "afterwards"
                   [] OTHER -> "never"]]
  /\ UNCHANGED <<approvalVars, options, option_events>>

\* The commit: the status with its event, for approve the approval row too.
commit_change(w) ==
  LET s == surveying[w] IN
  /\ Surveying(w, "change")
  /\ options' = [options EXCEPT ![s.id].status = Stored(@, s.old, s.new)]
  /\ option_events' = [option_events EXCEPT ![s.id] =
       Append(@, [old_value |-> s.old, new_value |-> s.new])]
  /\ IF s.asks = "along"
       THEN request(s.id, "PROPERTY", s.user) /\ UNCHANGED deciding
       ELSE UNCHANGED approvalVars
  /\ IF s.asks = "afterwards"
       THEN surveying' = [surveying EXCEPT ![w].pc = "request"] ELSE GoHome(w)

\* request_approval asks in a commit of its own.
commit_approval_request(w) ==
  /\ Surveying(w, "request")
  /\ request(surveying[w].id, "PROPERTY", surveying[w].user)
  /\ GoHome(w)
  /\ UNCHANGED <<deciding, options, option_events>>

crash_surveyor(w) ==
  /\ surveying[w] # Home
  /\ GoHome(w)
  /\ UNCHANGED <<approvalVars, options, option_events>>

Operations ==
  {"set_status", "update", "cancel", "request_approval", "approve"}

NextProperties ==
  \E w \in Surveyor :
    \/ \E status \in StatusSet : begin_property(w, status)
    \/ commit_property(w)
    \/ \E i \in DOMAIN options, op \in Operations, u \in PropertyManager,
          new \in StatusSet \cup {"CANCELLED", "UNDER_APPROVAL", "APPROVED"} :
         begin_change(w, i, op, new, u)
    \/ commit_change(w)
    \/ commit_approval_request(w)
    \/ crash_surveyor(w)

SpecProperties == InitProperties /\ [][NextProperties]_propertyVars

-----------------------------------------------------------------------------
(* Properties.                                                             *)

TypeOKProperties ==
  /\ TypeOKApprovals
  /\ options \in Seq([option_sequence : Nat, status : PropertyStatus])
  /\ option_events \in
       Seq(Seq([old_value : PropertyStatus, new_value : PropertyStatus]))
  /\ Len(option_events) = Len(options)

\* However many calls take the same number, the options are numbered 1, 2, 3
\* and so on, without a gap, in the order they were committed.
OptionsNumbered ==
  \A i \in DOMAIN options : options[i].option_sequence = i

\* A trail in which every event starts from the status the one before it left
\* tells the status of its option: a change lost to another session always
\* shows as a break in the trail.
OptionTrailShowsLostChanges ==
  \A i \in DOMAIN options :
    LET trail == option_events[i]  n == Len(trail)
        Unbroken == \A k \in 2..n : trail[k].old_value = trail[k - 1].new_value
    IN  n > 0 /\ Unbroken => options[i].status = trail[n].new_value
=============================================================================

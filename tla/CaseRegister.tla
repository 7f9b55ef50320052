----------------------------- MODULE CaseRegister -----------------------------
(***************************************************************************)
(* What creating a case promises its caller, without saying how: each      *)
(* asker in the end gets the next number or is refused, and a refusal has  *)
(* a reason, an unknown requester or three cases that others have          *)
(* registered while this one was asking.  CaseNumbers implements it.       *)
(***************************************************************************)
EXTENDS Naturals

CONSTANTS
  Creator,    \* who may be asking
  Patience    \* cases of others that justify a refusal

VARIABLES
  count,      \* cases registered, numbered 1..count
  asks        \* what each creator is asking for

registerVars == <<count, asks>>

None    == [state |-> "none", known |-> FALSE, since |-> 0]
Refused == [state |-> "refused", known |-> FALSE, since |-> 0]

Asking(w) == asks[w].state = "asking"

Init ==
  /\ count = 0
  /\ asks = [w \in Creator |-> None]

Ask(w) ==
  /\ ~Asking(w)
  /\ \E known \in BOOLEAN :
       asks' = [asks EXCEPT ![w] = [state |-> "asking", known |-> known,
                                    since |-> count]]
  /\ UNCHANGED count

Register(w) ==
  /\ Asking(w)
  /\ asks[w].known
  /\ count' = count + 1
  /\ asks' = [asks EXCEPT ![w] = None]

Refuse(w) ==
  /\ Asking(w)
  /\ asks[w].known => count >= asks[w].since + Patience
  /\ asks' = [asks EXCEPT ![w] = Refused]
  /\ UNCHANGED count

\* The call dies.
Drop(w) ==
  /\ Asking(w)
  /\ asks' = [asks EXCEPT ![w] = None]
  /\ UNCHANGED count

Next == \E w \in Creator : Ask(w) \/ Register(w) \/ Refuse(w) \/ Drop(w)

Safety == Init /\ [][Next]_registerVars

Fairness ==
  \A w \in Creator : WF_registerVars(Register(w) \/ Refuse(w))

Spec == Safety /\ Fairness
=============================================================================

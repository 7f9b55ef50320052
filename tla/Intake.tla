-------------------------------- MODULE Intake --------------------------------
(***************************************************************************)
(* Requests to create cases on their way in: the middleware refuses those  *)
(* of a client over its rate limit, then those with a body that is too     *)
(* large, and hands the rest to a worker thread.  A client of a trusted    *)
(* host is not counted.                                                    *)
(*                                                                         *)
(* Uses RateLimiter and CaseNumbers.                                       *)
(* Translated from app/core/middleware.py.                                 *)
(***************************************************************************)
EXTENDS RateLimiter, CaseNumbers

CONSTANT TrustedHost    \* rate_limit_trusted_hosts

ASSUME IntakeConstants == TrustedHost \subseteq Client

intakeVars == <<rateVars, numberVars>>

InitIntake == InitRate /\ InitNumbers

\* _rate_limited, with the limiter enabled and outside debug.
counted(c) == c \notin TrustedHost /\ ~Unlimited

\* __call__ answers 429 ...
reject_429(c) ==
  /\ counted(c) /\ ~Admissible(c)
  /\ Refused(c)
  /\ UNCHANGED numberVars

\* ... or passes the request; one that is counted is recorded.
Passed(c) ==
  IF counted(c) THEN Admissible(c) /\ Admitted(c) ELSE UNCHANGED rateVars

\* The body is too large: 413, after the request was counted.
reject_413(c) == Passed(c) /\ UNCHANGED numberVars

accept(c, w, known) == Passed(c) /\ begin_create(w, known)

NextIntake ==
  \/ \E c \in Client :
       \/ reject_429(c)
       \/ reject_413(c)
       \/ \E w \in Creator, known \in BOOLEAN : accept(c, w, known)
  \/ tick /\ UNCHANGED numberVars
  \/ \E w \in Creator :
       /\ work(w) \/ flush_case(w) \/ crash_create(w)
       /\ UNCHANGED rateVars

FairIntake == FairNumbers /\ WF_rateVars(tick)

SpecIntake == InitIntake /\ [][NextIntake]_intakeVars /\ FairIntake

-----------------------------------------------------------------------------
(* Properties.                                                             *)

\* A client over its limit is let in again as time passes, even if it keeps
\* asking all the while.
EventuallyAdmissible == \A c \in Client : []<>Admissible(c)
=============================================================================

------------------------------ MODULE CaseNumbers ------------------------------
(***************************************************************************)
(* The numbers of cases.  Creating a case counts the committed ones, takes *)
(* the next number and flushes a row with it.  A flush waits while another *)
(* transaction has inserted that number, fails when the number has been    *)
(* committed, and then the call counts again, three attempts in all.       *)
(*                                                                         *)
(* Translated from app/utils/case_numbers.py and OpeningService.create of  *)
(* app/services/openings.py.  The numbers are those of one year.           *)
(***************************************************************************)
EXTENDS Naturals, FiniteSets

CONSTANTS
  Creator,    \* worker threads that create cases
  MaxCases    \* bound: cases created or being created

Attempts == 3

VARIABLES
  numbers,    \* opening_number of the committed cases
  creating,   \* what each worker is doing
  since       \* history: the cases committed when the worker began

numberVars == <<numbers, creating, since>>

Rest == [pc |-> "rest"]
Conflicted == [pc |-> "refused"]

Creating(pc) == {w \in Creator : creating[w].pc = pc}

Idle == Creating("rest") \cup Creating("refused")

Rested(w) == creating' = [creating EXCEPT ![w] = Rest]

\* "Could not allocate case number".
Conflict(w) == creating' = [creating EXCEPT ![w] = Conflicted]

-----------------------------------------------------------------------------
InitNumbers ==
  /\ numbers = {}
  /\ creating = [w \in Creator |-> Rest]
  /\ since = [w \in Creator |-> 0]

\* OpeningService.create finds the branch.  known: requested_by is a user.
begin_create(w, known) ==
  /\ w \in Idle
  /\ Cardinality(numbers) + Cardinality(Creator \ Idle) < MaxCases
  /\ creating' = [creating EXCEPT ![w] =
                    [pc |-> "count", attempt |-> 1, known |-> known]]
  /\ since' = [since EXCEPT ![w] = Cardinality(numbers)]
  /\ UNCHANGED numbers

\* Faulty variant: the count is taken for the next number.
next_opening_number_zero_based(w) ==
  /\ w \in Creating("count")
  /\ creating' = [creating EXCEPT ![w] =
       [pc |-> "flush", attempt |-> creating[w].attempt,
        known |-> creating[w].known, number |-> Cardinality(numbers)]]
  /\ UNCHANGED <<numbers, since>>

\* next_opening_number counts what is committed.
next_opening_number(w) ==
  /\ w \in Creating("count")
  /\ creating' = [creating EXCEPT ![w] =
       [pc |-> "flush", attempt |-> creating[w].attempt,
        known |-> creating[w].known, number |-> Cardinality(numbers) + 1]]
  /\ UNCHANGED <<numbers, since>>

\* Another transaction has inserted the number and not committed.
Held(number) == \E v \in Creating("flushed") : creating[v].number = number

\* Faulty variant: an attempt too few.
fail_flush_early(w) ==
  IF creating[w].attempt >= Attempts - 1
    THEN Conflict(w)
    ELSE creating' = [creating EXCEPT ![w] =
           [pc |-> "count", attempt |-> creating[w].attempt + 1,
            known |-> creating[w].known]]

\* Faulty variant: attempts are not counted.
fail_flush_forever(w) ==
  creating' = [creating EXCEPT ![w] =
    [pc |-> "count", attempt |-> creating[w].attempt,
     known |-> creating[w].known]]

\* The IntegrityError is rolled back; after the last attempt it is a conflict.
fail_flush(w) ==
  IF creating[w].attempt = Attempts
    THEN Conflict(w)
    ELSE creating' = [creating EXCEPT ![w] =
           [pc |-> "count", attempt |-> creating[w].attempt + 1,
            known |-> creating[w].known]]

\* The flush waits for the holder of its number; then the unique constraint
\* or the foreign key of requested_by refuses the row, or it stands.
flush_case(w) ==
  /\ w \in Creating("flush")
  /\ ~Held(creating[w].number)
  /\ IF creating[w].known /\ creating[w].number \notin numbers
       THEN creating' = [creating EXCEPT ![w].pc = "flushed"]
       ELSE fail_flush(w)
  /\ UNCHANGED <<numbers, since>>

\* The case is committed, with its stage instances and CASE_CREATED.
commit_case(w) ==
  /\ w \in Creating("flushed")
  /\ numbers' = numbers \cup {creating[w].number}
  /\ Rested(w)
  /\ UNCHANGED since

\* The call dies; the database rolls back.
crash_create(w) ==
  /\ w \in Creator \ Idle
  /\ Rested(w)
  /\ UNCHANGED <<numbers, since>>

work(w) == next_opening_number(w) \/ commit_case(w)

NextNumbers ==
  \E w \in Creator :
    \/ \E known \in BOOLEAN : begin_create(w, known)
    \/ work(w)
    \/ flush_case(w)
    \/ crash_create(w)

\* A call that can go on goes on; the database lets a session that waits for
\* a number have its turn, however often the number is taken and given up.
FairNumbers ==
  \A w \in Creator : WF_numberVars(work(w)) /\ SF_numberVars(flush_case(w))

SpecNumbers == InitNumbers /\ [][NextNumbers]_numberVars

-----------------------------------------------------------------------------
(* Properties.                                                             *)

\* The number a worker has taken and the attempts it has made.
Ticket ==
  {Rest, Conflicted}
    \cup [pc : {"count"}, attempt : 1..Attempts, known : BOOLEAN]
    \cup [pc : {"flush", "flushed"}, attempt : 1..Attempts, known : BOOLEAN,
          number : Nat]

TypeOKNumbers ==
  /\ numbers \subseteq Nat /\ IsFiniteSet(numbers)
  /\ creating \in [Creator -> Ticket]
  /\ since \in [Creator -> Nat]

\* However many creates count the same cases, fail or die: the committed
\* cases are numbered from 1 without a gap, and at most one transaction holds
\* a number, the next one.
NumbersGapless ==
  /\ numbers = 1..Cardinality(numbers)
  /\ \A v, w \in Creating("flushed") :
       v = w /\ creating[w].number = Cardinality(numbers) + 1

\* What the caller has asked for, as the register sees it.
Asked(w) ==
  IF w \in Idle
    THEN [state |-> IF creating[w].pc = "rest" THEN "none" ELSE "refused",
          known |-> FALSE, since |-> 0]
    ELSE [state |-> "asking", known |-> creating[w].known, since |-> since[w]]

Promise == INSTANCE CaseRegister WITH
  Patience <- Attempts,
  count    <- Cardinality(numbers),
  asks     <- [w \in Creator |-> Asked(w)]

\* The promise to the caller: cases are numbered one by one, and a known
\* requester is refused only if three other cases were committed while the
\* call ran.
KeepsPromise == Promise!Safety

\* Under FairNumbers every call that does not die is answered, with a case or
\* a refusal; it neither waits nor tries for ever.
AnswersEveryCall == Promise!Fairness
=============================================================================

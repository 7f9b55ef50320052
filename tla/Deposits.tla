------------------------------- MODULE Deposits -------------------------------
(***************************************************************************)
(* A security deposit, the payees its total is allocated to, and the       *)
(* payments to them.  Each call adds up what is committed when it asks,    *)
(* and commits its own row later: calls of several tellers each go by a    *)
(* sum without the other's row.                                            *)
(*                                                                         *)
(* Translated from app/services/deposit.py (DepositService).               *)
(***************************************************************************)
EXTENDS Naturals, Sequences, FiniteSets, Functions

CONSTANTS
  Teller,       \* worker threads that handle deposits
  Total,        \* total_amount of the deposit
  Amount,       \* bound: amounts of payees and payments
  MaxPayees,    \* bound: payees
  MaxPayments   \* bound: payments

ASSUME DepositConstants ==
  /\ IsFiniteSet(Teller)
  /\ Total \in Nat \ {0}
  /\ Amount \subseteq Nat \ {0}

VARIABLES
  deposit,      \* SecurityDeposit.status, NULL before it is created
  payees,       \* the rows of deposit_payees, in id order
  payments,     \* the rows of deposit_payments, in id order
  telling       \* what each worker is doing

depositVars == <<deposit, payees, payments, telling>>

DepositStatus ==
  {"PENDING", "PARTIALLY_PAID", "PAID", "CANCELLED"}

PayeeStatus == {"PENDING", "APPROVED", "PAID", "REJECTED"}

AtCounter == [pc |-> "counter"]

Telling(pc) == {w \in Teller : telling[w].pc = pc}

Served(w) == telling' = [telling EXCEPT ![w] = AtCounter]

\* A column is written if the session changed it from what it had loaded.
Kept(stored, loaded, new) == IF new = loaded THEN stored ELSE new

\* The sums the database computes over committed rows.
Amounts(rows) == [k \in DOMAIN rows |-> rows[k].amount]

Allocated == SumFunction(Amounts(payees))

PaymentsTo(p) == {k \in DOMAIN payments : payments[k].payee = p}

PaidTo(p) == SumFunctionOnSet(Amounts(payments), PaymentsTo(p))

deposit_paid_total == SumFunction(Amounts(payments))

-----------------------------------------------------------------------------
InitDeposits ==
  /\ deposit = "NULL"
  /\ payees = <<>>
  /\ payments = <<>>
  /\ telling = [w \in Teller |-> AtCounter]

\* DepositService.create.
create_deposit ==
  /\ deposit = "NULL"
  /\ deposit' = "PENDING"
  /\ UNCHANGED <<payees, payments, telling>>

\* Faulty variant: the total is compared with the new amount alone.
begin_payee_without_sum(w, a) ==
  /\ w \in Telling("counter")
  /\ deposit \notin {"NULL", "CANCELLED"}
  /\ Len(payees) < MaxPayees
  /\ a <= Total
  /\ telling' = [telling EXCEPT ![w] = [pc |-> "payee", amount |-> a]]
  /\ UNCHANGED <<deposit, payees, payments>>

\* add_payee: the allocation fits the sum of the committed payees ...
begin_payee(w, a) ==
  /\ w \in Telling("counter")
  /\ deposit \notin {"NULL", "CANCELLED"}
  /\ Len(payees) < MaxPayees
  /\ Allocated + a <= Total
  /\ telling' = [telling EXCEPT ![w] = [pc |-> "payee", amount |-> a]]
  /\ UNCHANGED <<deposit, payees, payments>>

\* ... and the payee is committed.
commit_payee(w) ==
  /\ w \in Telling("payee")
  /\ payees' = Append(payees,
                      [amount |-> telling[w].amount, status |-> "PENDING"])
  /\ Served(w)
  /\ UNCHANGED <<deposit, payments>>

\* record_payment: the payee is loaded, and the payment fits the sum of its
\* committed payments.
begin_payment(w, p, a) ==
  /\ w \in Telling("counter")
  /\ Len(payments) < MaxPayments
  /\ PaidTo(p) + a <= payees[p].amount
  /\ telling' = [telling EXCEPT ![w] =
       [pc |-> "pay", payee |-> p, amount |-> a, loaded |-> payees[p].status,
        status |-> IF PaidTo(p) + a >= payees[p].amount
                     THEN "PAID" ELSE "APPROVED"]]
  /\ UNCHANGED <<deposit, payees, payments>>

\* Another session has written the row of the same payee and not committed.
PayeeLocked(p) ==
  \E w \in Telling("flushed") :
    telling[w].payee = p /\ telling[w].status # telling[w].loaded

\* Faulty variant: the payments are compared with what is allocated.
flush_payment_alone(w) ==
  LET t == telling[w] IN
  /\ w \in Telling("pay")
  /\ t.status # t.loaded => ~PayeeLocked(t.payee)
  /\ telling' = [telling EXCEPT ![w] =
       [pc |-> "flushed", payee |-> t.payee, amount |-> t.amount,
        loaded |-> t.loaded, status |-> t.status, deposit |-> deposit,
        new |-> IF Allocated <= deposit_paid_total + t.amount
                  THEN "PAID" ELSE "PARTIALLY_PAID"]]
  /\ UNCHANGED <<deposit, payees, payments>>

\* The flush waits for whoever holds the payee's row.  Then the deposit is
\* loaded, and the session adds its own row to the committed ones.
flush_payment(w) ==
  LET t == telling[w] IN
  /\ w \in Telling("pay")
  /\ t.status # t.loaded => ~PayeeLocked(t.payee)
  /\ telling' = [telling EXCEPT ![w] =
       [pc |-> "flushed", payee |-> t.payee, amount |-> t.amount,
        loaded |-> t.loaded, status |-> t.status, deposit |-> deposit,
        new |-> IF Total <= deposit_paid_total + t.amount
                  THEN "PAID" ELSE "PARTIALLY_PAID"]]
  /\ UNCHANGED <<deposit, payees, payments>>

commit_payment(w) ==
  LET t == telling[w] IN
  /\ w \in Telling("flushed")
  /\ payments' = Append(payments, [payee |-> t.payee, amount |-> t.amount])
  /\ payees' = [payees EXCEPT ![t.payee].status = Kept(@, t.loaded, t.status)]
  /\ deposit' = Kept(deposit, t.deposit, t.new)
  /\ Served(w)

crash_teller(w) ==
  /\ w \notin Telling("counter")
  /\ Served(w)
  /\ UNCHANGED <<deposit, payees, payments>>

NextDeposits ==
  \/ create_deposit
  \/ \E w \in Teller :
       \/ \E a \in Amount : begin_payee(w, a)
       \/ commit_payee(w)
       \/ \E p \in DOMAIN payees, a \in Amount : begin_payment(w, p, a)
       \/ flush_payment(w)
       \/ commit_payment(w)
       \/ crash_teller(w)

SpecDeposits == InitDeposits /\ [][NextDeposits]_depositVars

-----------------------------------------------------------------------------
(* Properties.                                                             *)

\* The rows are well formed.
TypeOKDeposits ==
  /\ deposit \in DepositStatus \cup {"NULL"}
  /\ payees \in Seq([amount : Amount, status : PayeeStatus])
  /\ payments \in Seq([payee : DOMAIN payees, amount : Amount])

\* What workers have checked and not committed.
InFlight(workers) ==
  SumFunction([w \in workers |-> telling[w].amount])

\* However stale the sums, each worker can be wrong by one limit at most: with
\* n workers no more than n totals are allocated, and no payee gets more than
\* n times its amount.  A single worker never exceeds either limit.
SumsBounded ==
  LET n == Cardinality(Teller)
  IN  /\ Allocated + InFlight(Telling("payee")) <= n * Total
      /\ \A p \in DOMAIN payees :
           PaidTo(p) + InFlight({w \in Telling("pay") \cup Telling("flushed") :
                                   telling[w].payee = p})
             <= n * payees[p].amount

\* A status never claims more than the payments committed: PAID on a deposit
\* or a payee means its amount has been paid, and anything but PENDING that
\* something has.  (The converse fails: payments to two payees at the same
\* time leave a deposit paid in full PARTIALLY_PAID.)
PaidIsCovered ==
  /\ deposit = "PAID" => deposit_paid_total >= Total
  /\ deposit \in {"NULL", "PENDING"} <=> payments = <<>>
  /\ \A p \in DOMAIN payees :
       /\ payees[p].status = "PAID" => PaidTo(p) >= payees[p].amount
       /\ payees[p].status = "PENDING" <=> PaymentsTo(p) = {}

\* docs/exception-cases.md, 4: overpayment is rejected.  Violated by two
\* workers who both add up before either commits.
OverpaymentRejected ==
  \A p \in DOMAIN payees : PaidTo(p) <= payees[p].amount
=============================================================================

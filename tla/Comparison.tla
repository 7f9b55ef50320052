------------------------------ MODULE Comparison ------------------------------
(***************************************************************************)
(* The comparison of the quotations of a request: rows ranked by total,    *)
(* and the lowest and highest amount of the quotations that have one.      *)
(*                                                                         *)
(* Translated from QuotationRequestService.comparison of                   *)
(* app/services/procurement.py.                                            *)
(***************************************************************************)
EXTENDS Integers, IdOrder, SequencesExt

CONSTANTS
  QuotedTotal,     \* bound: totals of quotations
  MaxQuotations    \* bound: quotations of the request

ASSUME ComparisonConstants == QuotedTotal \subseteq Nat

VARIABLE totals    \* total_amount of the quotations, in id order

\* add_quotation, as far as the comparison is concerned.
quote(total) ==
  /\ Len(totals) < MaxQuotations
  /\ totals' = Append(totals, total)

InitComparison == totals = <<>>

NextComparison == \E total \in QuotedTotal : quote(total)

SpecComparison == InitComparison /\ [][NextComparison]_totals

-----------------------------------------------------------------------------
\* What the sort compares: the totals; it is stable, so quotations of the same
\* total stay in id order.
Cheaper(i, j) ==
  \/ totals[i] < totals[j]
  \/ totals[i] = totals[j] /\ i < j

\* The quotations in the order of their ranks.
ranked ==
  CHOOSE s \in [DOMAIN totals -> DOMAIN totals] :
    \A j, k \in DOMAIN totals : j < k => Cheaper(s[j], s[k])

\* Faulty variant: quotations without an amount are kept.
amounts_all == [k \in DOMAIN ranked |-> totals[ranked[k]]]

\* The amounts of the quotations that have one, in the order of the ranks.
amounts ==
  LET rows   == ranked
      priced == {k \in DOMAIN rows : totals[rows[k]] > 0}
      places == InOrder(priced)
  IN  [n \in 1..Cardinality(priced) |-> totals[rows[places[n]]]]

lowest_amount  == amounts[1]
highest_amount == amounts[Len(amounts)]
difference     == highest_amount - lowest_amount

-----------------------------------------------------------------------------
(* Properties.                                                             *)

\* The ends of the list are what their names say: no quotation with an amount
\* lies outside them, both are quoted, and there are none only if no quotation
\* has an amount; the ranks list every quotation once, cheapest first.
ComparisonBrackets ==
  /\ IsInjective(ranked) /\ ToSet(ranked) = DOMAIN totals
  /\ \A j, k \in DOMAIN ranked :
       j < k => totals[ranked[j]] <= totals[ranked[k]]
  /\ LET positive == ToSet(totals) \ {0}
     IN  IF positive = {} THEN amounts = <<>>
         ELSE /\ {lowest_amount, highest_amount} \subseteq positive
              /\ \A a \in positive : lowest_amount <= a /\ a <= highest_amount
              /\ difference = 0 <=> Cardinality(positive) = 1
=============================================================================

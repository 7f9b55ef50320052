----------------------------- MODULE MCCCReview -----------------------------
(* Instance of CCReview for TLC: an administrator who moves cases by hand    *)
(* and one member of each committee.  What goes wrong inside a review of     *)
(* several openings, what between reviews of one opening and direct          *)
(* decisions, and what between reviews of one opening and moves by hand are  *)
(* studied in behaviours of their own.                                       *)
EXTENDS CCReview

CONSTANTS admin, cc, md, first

MCRoleOf ==
  [u \in User |-> CASE u = admin -> "ADMIN" [] u = cc -> "CC" [] OTHER -> "MD"]

VARIABLE beside   \* what happens beside the reviews of the first opening,
                  \* "nothing" if reviews do not overlap

racing == beside # "nothing"

\* Who reviews, and what: MD bundles of any openings one review at a time, or
\* CC the first opening in overlapping reviews.
Acting == IF racing THEN {admin, cc} ELSE {admin, md}
Bundled == IF racing THEN {<<first>>} ELSE Bundles
MayBegin == racing \/ \A w \in Reviewer : review[w] = Away

\* Bounds on races: two approvals, and by hand one move on at the stage where
\* the openings start.
MayMoveByHand(o) ==
  racing => /\ beside = "moves"
            /\ o = first
            /\ Cardinality(StageEvents(o)) < SEQUENCE_INDEX[StartStage]

InitMC == InitCC /\ beside \in {"nothing", "decisions", "moves"}

NextMC ==
  /\ UNCHANGED beside
  /\ \/ \E r \in CCRequest, items \in Bundled, u \in Acting :
          create_request(r, items, u)
     \/ \E w \in Reviewer : Continues(w)
     \/ \E w \in Reviewer, u \in Acting : MayBegin /\ Begins(w, u)
     \/ \E o \in Opening, u \in Acting :
          /\ MayMoveByHand(o)
          /\ MoveByHand(o, u)
          /\ racing => BackMoves(o)' = BackMoves(o)
     \/ beside = "decisions" /\ DecideDirectly
  /\ racing => Len(approvals') <= 2

SpecMC == InitMC /\ [][NextMC]_<<ccVars, beside>>

Symmetry == Permutations(Reviewer)
=============================================================================

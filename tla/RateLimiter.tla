------------------------------ MODULE RateLimiter ------------------------------
(***************************************************************************)
(* The sliding window of the rate limiter: per client a queue of the times *)
(* of admitted requests, oldest first, pruned when the client asks.  A     *)
(* request that is refused is not recorded.  Times are kept as ages, and   *)
(* an age of a whole window or more is as good as any other.               *)
(*                                                                         *)
(* Translated from app/core/ratelimit.py; the middleware calls it from the *)
(* event loop, one request at a time.                                      *)
(***************************************************************************)
EXTENDS Naturals, SequencesExt

CONSTANTS
  Client,     \* client addresses
  Limit,      \* rate_limit_requests
  Window      \* rate_limit_window_seconds

ASSUME RateConstants == Limit \in Nat /\ Window \in Nat \ {0}

VARIABLES
  hits,       \* _hits: the ages of the recorded requests of each client
  served      \* history: how many requests of each age were admitted

rateVars == <<hits, served>>

InitRate ==
  /\ hits = [c \in Client |-> <<>>]
  /\ served = [c \in Client |-> [age \in 0..(Window - 1) |-> 0]]

\* Faulty variant: the window starts afresh instead of sliding.
Pruned_afresh(c) ==
  IF hits[c] # <<>> /\ Head(hits[c]) >= Window THEN <<>> ELSE hits[c]

\* The queue once its old entries have been taken off the front.
Pruned(c) ==
  LET old == {k \in DOMAIN hits[c] : \A j \in 1..k : hits[c][j] >= Window}
  IN  SubSeq(hits[c], Cardinality(old) + 1, Len(hits[c]))

\* Faulty variant: a refused request is recorded.
Refused_recorded(c) ==
  /\ hits' = [hits EXCEPT ![c] = Append(Pruned(c), 0)]
  /\ UNCHANGED served

\* check_rate_limit raises: nothing but the pruning is kept ...
Refused(c) ==
  /\ hits' = [hits EXCEPT ![c] = Pruned(c)]
  /\ UNCHANGED served

\* ... or admits and records the request.
Admitted(c) ==
  /\ hits' = [hits EXCEPT ![c] = Append(Pruned(c), 0)]
  /\ served' = [served EXCEPT ![c][0] = @ + 1]

\* A limit of zero switches the check off.
Unlimited == Limit = 0

Admissible(c) == Unlimited \/ Len(Pruned(c)) < Limit

\* A second passes.
tick ==
  /\ hits' = [c \in Client |->
       [k \in DOMAIN hits[c] |-> IF hits[c][k] < Window
                                   THEN hits[c][k] + 1 ELSE Window]]
  /\ served' = [c \in Client |-> [age \in 0..(Window - 1) |->
                  IF age = 0 THEN 0 ELSE served[c][age - 1]]]

-----------------------------------------------------------------------------
(* Properties.                                                             *)

Recent(c) == FoldFunction(+, 0, served[c])

\* The window slides: a client is never served more than the limit within any
\* window, and is refused only while it has been served that much.
WindowSlides ==
  Unlimited \/ \A c \in Client :
    /\ Recent(c) <= Limit
    /\ Admissible(c) <=> Recent(c) < Limit
=============================================================================

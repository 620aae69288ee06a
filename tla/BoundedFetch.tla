---------------------------- MODULE BoundedFetch ----------------------------
(***************************************************************************)
(* What a caller of the HTTP client relies on: a call sends at most        *)
(* MaxRequests requests, is answered only from a request that was sent,    *)
(* and ends, either answered or failed, whatever the origins do.           *)
(***************************************************************************)
EXTENDS Naturals

CONSTANT MaxRequests

VARIABLES state,     \* "working", "answered" or "failed"
          requests   \* requests sent so far

vars == <<state, requests>>

Init == state = "working" /\ requests = 0

Request ==
    /\ state = "working"
    /\ requests < MaxRequests
    /\ requests' = requests + 1
    /\ UNCHANGED state

Answer == state = "working" /\ requests > 0 /\ state' = "answered" /\ UNCHANGED requests

Fail == state = "working" /\ state' = "failed" /\ UNCHANGED requests

Next == Request \/ Answer \/ Fail

\* A call cannot stay at work for ever.
Spec == Init /\ [][Next]_vars /\ WF_vars(Next)
=============================================================================

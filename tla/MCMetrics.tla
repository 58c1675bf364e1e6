------------------------------ MODULE MCMetrics ------------------------------
(* A small instance of Metrics for TLC.                                     *)
EXTENDS Metrics

CONSTANTS q1, q2

SmallBuckets == <<1, 2>>

SmallResolveKeys ==
    {[outcome |-> "success", error_kind |-> "none", status |-> 200],
     [outcome |-> "error", error_kind |-> "not_found", status |-> 404]}

\* A wrong method reaches no handler.
SmallOtherKeys == {[method |-> "GET", route |-> "/v1/resolve", status |-> 405]}

\* Before and after the epoch.
SmallWallClock == {-1, 2}

\* Permuting requests maps behaviours to behaviours.
ReqSymmetry == Permutations(Req)
=============================================================================

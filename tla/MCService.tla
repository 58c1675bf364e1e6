------------------------------ MODULE MCService ------------------------------
(* A small instance of Service for TLC.                                     *)
EXTENDS Service, TLC

CONSTANTS q1, q2, q3

ReqSymmetry == Permutations(Req)

Good == [token |-> "t", json |-> TRUE, body |-> "selector",
         selector_error |-> None, key |-> "k1"]

\* One that reaches the provider, one that the policy denies.
TwoRequests == {Good, [Good EXCEPT !.key = "k2"]}
=============================================================================

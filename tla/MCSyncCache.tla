----------------------------- MODULE MCSyncCache -----------------------------
(* A small instance of SyncCache for TLC.                                   *)
EXTENDS SyncCache

CONSTANTS r1, r2

TwoCalls == {r1, r2}

\* No expiry, one inside the skew, one that ends a vault before its TTL, and
\* one past InstantMax.
Expiries == {None, 1, 3, 100}
=============================================================================

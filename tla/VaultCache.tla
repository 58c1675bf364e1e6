------------------------------ MODULE VaultCache ------------------------------
(***************************************************************************)
(* What the sync cache promises its callers, without locks, upstream        *)
(* requests or cancellation points: one slot that holds the latest vault, a *)
(* clock, and calls that end with an answer computed from the slot or with  *)
(* an error.                                                                *)
(*                                                                          *)
(*  - the slot is only ever replaced when its vault is no longer usable,    *)
(*    by a vault read from the server after the old one was fetched;        *)
(*  - a call is answered from a vault that was usable when the call began   *)
(*    or that was fetched later;                                            *)
(*  - once it holds a vault the slot is never emptied.                      *)
(***************************************************************************)
EXTENDS Integers

CONSTANTS Req, Ttls, Skew, RequestTimeout, None

VARIABLES
    now,        \* the clock
    ttl,        \* how long a vault is usable, fixed
    slot,       \* the latest vault, or None
    status,     \* status[r]: idle, running, answered or failed
    startedAt,  \* startedAt[r]: when call r began
    served      \* served[r]: the vault that answered call r

vars == <<now, ttl, slot, status, startedAt, served>>

Vault == [snapshotAt : Nat, fetched_at : Nat, expires_at : Nat \cup {None}]

Usable(vault, t) ==
    /\ t < vault.fetched_at + ttl
    /\ vault.expires_at # None => t + Skew < vault.expires_at

Init ==
    /\ now = 0
    /\ ttl \in Ttls
    /\ slot = None
    /\ status = [r \in Req |-> "idle"]
    /\ startedAt = [r \in Req |-> 0]
    /\ served = [r \in Req |-> None]

Begin(r) ==
    /\ status[r] = "idle"
    /\ status' = [status EXCEPT ![r] = "running"]
    /\ startedAt' = [startedAt EXCEPT ![r] = now]
    /\ UNCHANGED <<now, ttl, slot, served>>

Refresh ==
    /\ slot # None => ~Usable(slot, now)
    /\ slot' \in Vault
    /\ slot'.fetched_at <= now
    /\ slot'.snapshotAt <= slot'.fetched_at
    /\ slot'.fetched_at <= slot'.snapshotAt + RequestTimeout
    /\ slot # None => slot.fetched_at <= slot'.snapshotAt
    /\ UNCHANGED <<now, ttl, status, startedAt, served>>

Answer(r) ==
    /\ status[r] = "running"
    /\ slot # None
    /\ slot.fetched_at >= startedAt[r] \/ Usable(slot, startedAt[r])
    /\ status' = [status EXCEPT ![r] = "answered"]
    /\ served' = [served EXCEPT ![r] = slot]
    /\ UNCHANGED <<now, ttl, slot, startedAt>>

Fail(r) ==
    /\ status[r] = "running"
    /\ status' = [status EXCEPT ![r] = "failed"]
    /\ UNCHANGED <<now, ttl, slot, startedAt, served>>

Tick ==
    /\ now' = now + 1
    /\ UNCHANGED <<ttl, slot, status, startedAt, served>>

Next ==
    \/ \E r \in Req : Begin(r) \/ Answer(r) \/ Fail(r)
    \/ Refresh
    \/ Tick

Spec == Init /\ [][Next]_vars

\* Every call that began ends.
FairSpec == Spec /\ \A r \in Req : WF_vars(Answer(r) \/ Fail(r))
=============================================================================

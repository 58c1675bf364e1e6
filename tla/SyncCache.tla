------------------------------ MODULE SyncCache ------------------------------
(***************************************************************************)
(* The vault sync cache of BitwardenApiClient: `cache`, an async mutex      *)
(* around Option<CachedVault>, and `refresh_lock`, the async mutex that     *)
(* lets one caller at a time log in and sync.  Every element of Req is one  *)
(* call of BitwardenProvider::resolve; it runs                              *)
(*                                                                          *)
(*   resolve_with_cached_sync                                               *)
(*     ensure_fresh_cached_sync                                             *)
(*       has_fresh_cache           first check, no refresh lock             *)
(*       refresh_lock.lock()       queue behind the other callers           *)
(*       has_fresh_cache           second check, refresh lock held          *)
(*       fetch_vault               login, unlock the user key, sync         *)
(*       *cache = Some(refreshed)                                           *)
(*     read the cache and look the item up                                  *)
(*                                                                          *)
(* A section under the `cache` mutex contains no await, so it is one        *)
(* action; every await is a point where other calls run, time passes, or    *)
(* the caller goes away and the future is dropped (Cancel).  The item       *)
(* lookup itself is in module ItemLookup: here it is the step that picks    *)
(* the vault the answer is computed from.  The contents of a vault are      *)
(* abstracted to snapshotAt, the time at which the server read them.        *)
(***************************************************************************)
EXTENDS Integers, Sequences, FiniteSets, SequencesExt

CONSTANTS
    Req,             \* calls of resolve
    Ttls,            \* what cache_config.ttl may be; 0 disables reuse
    Skew,            \* TOKEN_EXPIRY_REFRESH_SKEW
    RequestTimeout,  \* http_config.request_timeout, per upstream request
    ExpiresIn,       \* what a token response may say in expires_in
    InstantMax,      \* largest representable Instant
    MaxTime,         \* bound of the model: the clock stops here
    None             \* Rust's Option::None

ASSUME TimeAssumption ==
    /\ Ttls \subseteq Nat /\ Skew \in Nat /\ RequestTimeout \in Nat
    /\ InstantMax \in Nat /\ MaxTime \in Nat /\ MaxTime <= InstantMax
ASSUME ExpiresInAssumption == ExpiresIn \subseteq Nat \cup {None}
ASSUME NoneAssumption == None \notin Nat

(***************************************************************************)
(* CachedVault, without the decryption key and the items.                   *)
(***************************************************************************)
CachedVault ==
    [snapshotAt : Nat, fetched_at : Nat, expires_at : Nat \cup {None}]

ASSUME NoneIsNoVault == None \notin CachedVault

VARIABLES
    now,           \* Instant::now()
    ttl,           \* cache_config.ttl, fixed when the client is built
    pc,            \* pc[r]: the await or the step call r is at
    refresh_lock,  \* queue of the refresh mutex; its head holds the lock
    cache,         \* the cached vault, or None
    startedAt,     \* startedAt[r]: when call r began (history)
    sentAt,        \* sentAt[r]: when r sent the upstream request it waits for
    session,       \* session[r]: expires_in of the session r logged in with
    fetched,       \* fetched[r]: r's local `refreshed`
    served,        \* served[r]: the vault that answered r (history)
    cache_hits, refresh_successes, refresh_failures,
    last_success   \* CacheMetricState; last_success is None before a refresh

metrics == <<cache_hits, refresh_successes, refresh_failures, last_success>>

vars == <<now, ttl, pc, refresh_lock, cache, startedAt, sentAt, session,
          fetched, served, metrics>>

Active == {"check", "lock", "wait", "login", "unlock", "sync", "store", "read"}
Final == {"answered", "refresh_error", "missing_cached_sync", "cancelled"}

Init ==
    /\ now = 0
    /\ ttl \in Ttls
    /\ pc = [r \in Req |-> "idle"]
    /\ refresh_lock = <<>>
    /\ cache = None
    /\ startedAt = [r \in Req |-> 0]
    /\ sentAt = [r \in Req |-> 0]
    /\ session = [r \in Req |-> None]
    /\ fetched = [r \in Req |-> None]
    /\ served = [r \in Req |-> None]
    /\ cache_hits = 0 /\ refresh_successes = 0 /\ refresh_failures = 0
    /\ last_success = None

-----------------------------------------------------------------------------
(* The freshness rule.                                                      *)

\* Mutant: the refresh deadline is computed eagerly, without checked_sub.
ExpiresAtMinusSkew(expires_in, fetched_at) ==
    IF expires_in = None \/ fetched_at + expires_in > InstantMax
    THEN None
    ELSE fetched_at + expires_in - Skew

\* checked_add: an expiry past the last representable instant is dropped.
ExpiresAt(expires_in, fetched_at) ==
    IF expires_in = None \/ fetched_at + expires_in > InstantMax
    THEN None
    ELSE fetched_at + expires_in

NewCachedVault(expires_in, snapshotAt, fetched_at) ==
    [snapshotAt |-> snapshotAt,
     fetched_at |-> fetched_at,
     expires_at |-> ExpiresAt(expires_in, fetched_at)]

\* Mutants: the age test off by one, and no age test at all.
IsFreshAtInclusive(vault, t) ==
    /\ ttl # 0
    /\ t - vault.fetched_at <= ttl
    /\ vault.expires_at # None => t + Skew < vault.expires_at

IsFreshAtExpiryOnly(vault, t) ==
    vault.expires_at # None => t + Skew < vault.expires_at

\* The deadline comparison also covers checked_sub: when expires_at - Skew
\* would precede time 0 the test below is false at every t.
IsFreshAt(vault, t) ==
    /\ ttl # 0
    /\ t - vault.fetched_at < ttl
    /\ vault.expires_at # None => t + Skew < vault.expires_at

HasFreshCache == cache # None /\ IsFreshAt(cache, now)

-----------------------------------------------------------------------------
(* The steps of a call.                                                     *)

Goto(r, label) == pc' = [pc EXCEPT ![r] = label]

\* Mutant: a semaphore with two permits in place of the mutex.
HoldsOneOfTwo(r) ==
    \E i \in 1 .. 2 : i <= Len(refresh_lock) /\ refresh_lock[i] = r

Holds(r) == refresh_lock # <<>> /\ Head(refresh_lock) = r

\* Dropping the guard hands the lock to the first waiter.
ReleaseRefreshLock == refresh_lock' = Tail(refresh_lock)

Resolve(r) ==
    /\ pc[r] = "idle"
    /\ Goto(r, "check")
    /\ startedAt' = [startedAt EXCEPT ![r] = now]
    /\ UNCHANGED <<now, ttl, refresh_lock, cache, sentAt, session, fetched,
                   served, metrics>>

CheckHit(r) ==
    /\ pc[r] = "check"
    /\ HasFreshCache
    /\ Goto(r, "read")
    /\ cache_hits' = cache_hits + 1
    /\ UNCHANGED <<now, ttl, refresh_lock, cache, startedAt, sentAt, session,
                   fetched, served, refresh_successes, refresh_failures,
                   last_success>>

CheckMiss(r) ==
    /\ pc[r] = "check"
    /\ ~HasFreshCache
    /\ Goto(r, "lock")
    /\ UNCHANGED <<now, ttl, refresh_lock, cache, startedAt, sentAt, session,
                   fetched, served, metrics>>

Enqueue(r) ==
    /\ pc[r] = "lock"
    /\ Goto(r, "wait")
    /\ refresh_lock' = Append(refresh_lock, r)
    /\ UNCHANGED <<now, ttl, cache, startedAt, sentAt, session, fetched, served,
                   metrics>>

\* Mutant: the hit found under the lock is not counted.
RecheckHitUncounted(r) ==
    /\ pc[r] = "wait"
    /\ Holds(r)
    /\ HasFreshCache
    /\ Goto(r, "read")
    /\ ReleaseRefreshLock
    /\ UNCHANGED <<now, ttl, cache, startedAt, sentAt, session, fetched, served,
                   metrics>>

RecheckHit(r) ==
    /\ pc[r] = "wait"
    /\ Holds(r)
    /\ HasFreshCache
    /\ Goto(r, "read")
    /\ ReleaseRefreshLock
    /\ cache_hits' = cache_hits + 1
    /\ UNCHANGED <<now, ttl, cache, startedAt, sentAt, session, fetched, served,
                   refresh_successes, refresh_failures, last_success>>

\* Mutant: no second check once the lock is held.
RecheckMissAlways(r) ==
    /\ pc[r] = "wait"
    /\ Holds(r)
    /\ Goto(r, "login")
    /\ sentAt' = [sentAt EXCEPT ![r] = now]
    /\ UNCHANGED <<now, ttl, refresh_lock, cache, startedAt, session, fetched,
                   served, metrics>>

RecheckMiss(r) ==
    /\ pc[r] = "wait"
    /\ Holds(r)
    /\ ~HasFreshCache
    /\ Goto(r, "login")
    /\ sentAt' = [sentAt EXCEPT ![r] = now]
    /\ UNCHANGED <<now, ttl, refresh_lock, cache, startedAt, session, fetched,
                   served, metrics>>

LoginReply(r) ==
    /\ pc[r] = "login"
    /\ \E expires_in \in ExpiresIn :
          session' = [session EXCEPT ![r] = expires_in]
    /\ Goto(r, "unlock")
    /\ UNCHANGED <<now, ttl, refresh_lock, cache, startedAt, sentAt, fetched,
                   served, metrics>>

\* unlock_session has no await; the sync request is sent when it returns.
Unlock(r) ==
    /\ pc[r] = "unlock"
    /\ Goto(r, "sync")
    /\ sentAt' = [sentAt EXCEPT ![r] = now]
    /\ UNCHANGED <<now, ttl, refresh_lock, cache, startedAt, session, fetched,
                   served, metrics>>

\* The server read the vault at some moment between the request and the
\* reply.  The counters move here, before the store and its await.
SyncReply(r) ==
    /\ pc[r] = "sync"
    /\ \E snapshotAt \in sentAt[r] .. now :
          fetched' = [fetched EXCEPT
                        ![r] = NewCachedVault(session[r], snapshotAt, now)]
    /\ session' = [session EXCEPT ![r] = None]
    /\ Goto(r, "store")
    /\ refresh_successes' = refresh_successes + 1
    /\ last_success' = now
    /\ sentAt' = [sentAt EXCEPT ![r] = 0]
    /\ UNCHANGED <<now, ttl, refresh_lock, cache, startedAt, served, cache_hits,
                   refresh_failures>>

\* Mutant: a failed refresh also empties the cache.
FetchFailsClearing(r) ==
    /\ pc[r] \in {"login", "unlock", "sync"}
    /\ Goto(r, "refresh_error")
    /\ ReleaseRefreshLock
    /\ cache' = None
    /\ session' = [session EXCEPT ![r] = None]
    /\ refresh_failures' = refresh_failures + 1
    /\ sentAt' = [sentAt EXCEPT ![r] = 0]
    /\ UNCHANGED <<now, ttl, startedAt, fetched, served, cache_hits,
                   refresh_successes, last_success>>

\* A transport error, a timeout, a bad status or body at login or sync, or a
\* failed unlock: the error goes to this caller alone, the old cache stays.
FetchFails(r) ==
    /\ pc[r] \in {"login", "unlock", "sync"}
    /\ Goto(r, "refresh_error")
    /\ ReleaseRefreshLock
    /\ session' = [session EXCEPT ![r] = None]
    /\ refresh_failures' = refresh_failures + 1
    /\ sentAt' = [sentAt EXCEPT ![r] = 0]
    /\ UNCHANGED <<now, ttl, cache, startedAt, fetched, served, cache_hits,
                   refresh_successes, last_success>>

\* Mutant: the store restamps the vault with the time of the store.
StoreRestamped(r) ==
    /\ pc[r] = "store"
    /\ cache' = [fetched[r] EXCEPT !.fetched_at = now]
    /\ fetched' = [fetched EXCEPT ![r] = None]
    /\ ReleaseRefreshLock
    /\ Goto(r, "read")
    /\ UNCHANGED <<now, ttl, startedAt, sentAt, session, served, metrics>>

Store(r) ==
    /\ pc[r] = "store"
    /\ cache' = fetched[r]
    /\ fetched' = [fetched EXCEPT ![r] = None]
    /\ ReleaseRefreshLock
    /\ Goto(r, "read")
    /\ UNCHANGED <<now, ttl, startedAt, sentAt, session, served, metrics>>

\* `cache.as_ref().ok_or(MissingCachedSync)`, then the lookup in that vault.
ReadCache(r) ==
    /\ pc[r] = "read"
    /\ Goto(r, IF cache = None THEN "missing_cached_sync" ELSE "answered")
    /\ served' = [served EXCEPT ![r] = cache]
    /\ UNCHANGED <<now, ttl, refresh_lock, cache, startedAt, sentAt, session,
                   fetched, metrics>>

\* The caller disconnects while the call is suspended at an await: the future
\* is dropped with its locals, and the guard it holds is released.
CancelUnqueued(r) ==
    /\ pc[r] \in {"check", "read"}
    /\ Goto(r, "cancelled")
    /\ UNCHANGED <<now, ttl, refresh_lock, cache, startedAt, sentAt, session,
                   fetched, served, metrics>>

CancelWaiting(r) ==
    /\ pc[r] = "wait"
    /\ \E i \in 1 .. Len(refresh_lock) :
          /\ refresh_lock[i] = r
          /\ refresh_lock' = RemoveAt(refresh_lock, i)
    /\ Goto(r, "cancelled")
    /\ UNCHANGED <<now, ttl, cache, startedAt, sentAt, session, fetched, served,
                   metrics>>

\* Mutant: the guard leaks when the future is dropped.
CancelRefreshingLeaky(r) ==
    /\ pc[r] \in {"login", "sync", "store"}
    /\ Goto(r, "cancelled")
    /\ session' = [session EXCEPT ![r] = None]
    /\ fetched' = [fetched EXCEPT ![r] = None]
    /\ sentAt' = [sentAt EXCEPT ![r] = 0]
    /\ UNCHANGED <<now, ttl, refresh_lock, cache, startedAt, served,
                   metrics>>

CancelRefreshing(r) ==
    /\ pc[r] \in {"login", "sync", "store"}
    /\ Goto(r, "cancelled")
    /\ ReleaseRefreshLock
    /\ session' = [session EXCEPT ![r] = None]
    /\ fetched' = [fetched EXCEPT ![r] = None]
    /\ sentAt' = [sentAt EXCEPT ![r] = 0]
    /\ UNCHANGED <<now, ttl, cache, startedAt, served, metrics>>

\* Mutant: the HTTP client is built without a request timeout.
TickNoTimeout ==
    /\ now < MaxTime
    /\ now' = now + 1
    /\ UNCHANGED <<ttl, pc, refresh_lock, cache, startedAt, sentAt, session,
                   fetched, served, metrics>>

\* Timers are prompt: an upstream request does not outlive its timeout.
Tick ==
    /\ now < MaxTime
    /\ \A r \in Req : pc[r] \in {"login", "sync"} =>
                         now - sentAt[r] < RequestTimeout
    /\ now' = now + 1
    /\ UNCHANGED <<ttl, pc, refresh_lock, cache, startedAt, sentAt, session,
                   fetched, served, metrics>>

\* All the calls of the instance are over and its clock has stopped.
Quiescent ==
    /\ now = MaxTime
    /\ \A r \in Req : pc[r] \in Final
    /\ UNCHANGED vars

Progress(r) ==
    \/ CheckHit(r) \/ CheckMiss(r) \/ Enqueue(r)
    \/ RecheckHit(r) \/ RecheckMiss(r)
    \/ LoginReply(r) \/ Unlock(r) \/ SyncReply(r) \/ FetchFails(r)
    \/ Store(r) \/ ReadCache(r)

Cancel(r) == CancelUnqueued(r) \/ CancelWaiting(r) \/ CancelRefreshing(r)

Next ==
    \/ \E r \in Req : Resolve(r) \/ Progress(r) \/ Cancel(r)
    \/ Tick
    \/ Quiescent

Spec == Init /\ [][Next]_vars

(***************************************************************************)
(* Fairness: the runtime polls a call whose await is ready, the locks are   *)
(* FIFO, and every upstream request ends within its timeout.  Nothing makes *)
(* callers arrive, disconnect or stay.                                      *)
(***************************************************************************)
FairSpec == Spec /\ \A r \in Req : WF_vars(Progress(r))
-----------------------------------------------------------------------------
(* Properties.                                                              *)

\* Type correctness of the client's state.
TypeOK ==
    /\ now \in Nat /\ ttl \in Nat
    /\ pc \in [Req -> {"idle"} \cup Active \cup Final]
    /\ refresh_lock \in Seq(Req)
    /\ cache \in CachedVault \cup {None}
    /\ startedAt \in [Req -> Nat]
    /\ sentAt \in [Req -> Nat]
    /\ session \in [Req -> Nat \cup {None}]
    /\ fetched \in [Req -> CachedVault \cup {None}]
    /\ served \in [Req -> CachedVault \cup {None}]
    /\ cache_hits \in Nat /\ refresh_successes \in Nat
    /\ refresh_failures \in Nat /\ last_success \in Nat \cup {None}

\* A call that has passed the second check and not yet dropped its guard.
Refreshing(r) == pc[r] \in {"login", "unlock", "sync", "store"}

\* Single flight: whatever the interleaving and whoever disconnects, at most
\* one call is between the second check of ensure_fresh_cached_sync and the
\* store, so at most one login or sync is outstanding.
SingleFlight ==
    \A r, q \in Req : Refreshing(r) /\ Refreshing(q) => r = q

\* No stampede: while a call logs in, syncs or is about to store, the cache
\* is stale.  A waiter that finds the vault its predecessor stored does not
\* fetch again, and no call that could be answered now is made to wait.
NoRedundantRefresh ==
    \A r \in Req : Refreshing(r) => ~HasFreshCache

\* resolve_with_cached_sync reads the cache after ensure_fresh_cached_sync
\* returned and both locks were dropped; the cache is never found empty.
NeverMissingCachedSync ==
    \A r \in Req : pc[r] # "missing_cached_sync"

\* The time between the freshness check and the read of the cache is not
\* bounded, and the cache can be replaced in between; still the vault that
\* answers a call either was within its TTL and token expiry when the call
\* began or was fetched after that.
ServedFresh ==
    \A r \in Req : served[r] # None =>
        \/ served[r].fetched_at >= startedAt[r]
        \/ /\ startedAt[r] < served[r].fetched_at + ttl
           /\ \/ served[r].expires_at = None
              \/ startedAt[r] + Skew < served[r].expires_at

\* "A zero duration disables reuse across requests": with ttl zero the
\* contents that answer a call were read from the server after it began,
\* although calls share the cache slot and may read each other's vaults.
NoReuseWhenDisabled ==
    ttl = 0 => \A r \in Req : served[r] # None =>
                  served[r].snapshotAt >= startedAt[r]

\* How old the contents of an answer can be: the server read them at most
\* one request timeout plus one TTL before the call began.
BoundedStaleness ==
    \A r \in Req : served[r] # None =>
        startedAt[r] <= served[r].snapshotAt + RequestTimeout + ttl

\* The counters account for the calls: each call that ended, or is past the
\* decision of ensure_fresh_cached_sync, moved exactly one of them, and only
\* a cancelled call may have moved none.
MetricsAccount ==
    LET counted == cache_hits + refresh_successes
                     + refresh_failures
        decided == {r \in Req : pc[r] \in {"store", "read", "answered",
                                   "refresh_error", "missing_cached_sync"}}
        dropped == {r \in Req : pc[r] = "cancelled"}
    IN  /\ Cardinality(decided) <= counted
        /\ counted <= Cardinality(decided) + Cardinality(dropped)

\* The cache never goes back: it is never emptied, and a vault is replaced
\* only by contents the server read after the old vault had been fetched.
CacheNeverRegresses ==
    [][cache # None /\ cache' # cache =>
          cache' # None /\ cache'.snapshotAt >= cache.fetched_at]_vars

\* Every call ends, also when the call that holds the refresh lock fails or
\* is dropped at any await.
EveryCallEnds ==
    \A r \in Req : pc[r] = "check" ~> pc[r] \in Final

\* The client implements the cache its callers rely on.
AbstractStatus(label) ==
    CASE label = "idle" -> "idle"
      [] label \in Active -> "running"
      [] label = "answered" -> "answered"
      [] OTHER -> "failed"

Abstract == INSTANCE VaultCache WITH
    slot <- cache,
    status <- [r \in Req |-> AbstractStatus(pc[r])]

\* Safety and termination of VaultCache hold of every run of the client.
ImplementsVaultCache == Abstract!FairSpec
=============================================================================

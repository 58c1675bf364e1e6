------------------------------- MODULE Service -------------------------------
(***************************************************************************)
(* The running provider: the handlers of module Webhook around the client   *)
(* of module SyncCache.  A request that passes the policy becomes a call of *)
(* BitwardenProvider::resolve; the handler is suspended until the call ends *)
(* and turns what it returns into the reply.  Both are one future: a client *)
(* that goes away drops the handler and the call together, at an await of   *)
(* the call.                                                                *)
(*                                                                          *)
(* The calls share the refresh lock, and an error is not shared: during an  *)
(* outage each queued call tries again.  How long a request can be held up  *)
(* by the others is therefore decided by both components, the cap on        *)
(* concurrent requests and the timeouts of the upstream requests.           *)
(***************************************************************************)
EXTENDS Webhook, Sequences

CONSTANTS
    Ttls, Skew, RequestTimeout, ExpiresIn, InstantMax, MaxTime,  \* SyncCache
    DerivationTime,  \* longest time unlock_session computes
    FetchErrors,     \* what fetch_vault may fail with
    LookupResults    \* what the lookup in a vault may return

ASSUME DerivationAssumption == DerivationTime \in Nat
ASSUME ResultsAssumption ==
    /\ FetchErrors \cup LookupResults \cup {"MissingCachedSync"} \subseteq Results
    /\ "ok" \notin FetchErrors

VARIABLES
    now, ttl, call, refresh_lock, cache, startedAt, sentAt, session, fetched,
    served, cache_hits, refresh_successes, refresh_failures, last_success

client == <<now, ttl, call, refresh_lock, cache, startedAt, sentAt, session,
            fetched, served, cache_hits, refresh_successes, refresh_failures,
            last_success>>

C == INSTANCE SyncCache WITH pc <- call

ASSUME ClientAssumption ==
    /\ C!TimeAssumption /\ C!ExpiresInAssumption
    /\ C!NoneAssumption /\ C!NoneIsNoVault

serviceVars == <<vars, client>>

ServiceInit == Init /\ C!Init

-----------------------------------------------------------------------------
(* Steps of one component, and steps of both.                               *)

\* The handler's own steps, before and after the provider call.
HandlerStep(q) ==
    /\ \/ Arrive(q)
       \/ RejectAuth(q) \/ Admit(q) \/ Shed(q)
       \/ RejectContentType(q) \/ BodyFails(q) \/ RejectBody(q)
       \/ RejectSelector(q) \/ Decode(q)
       \/ Deny(q) \/ Release(q) \/ RecordHttp(q)
       \/ pc[q] = "decode" /\ Disconnect(q)
    /\ UNCHANGED client

\* state.provider.resolve(selector).await: the call begins ...
CallProvider(q) == Allow(q) /\ C!Resolve(q)

\* ... runs while the handler waits ...
CallStep(q) == C!Progress(q) /\ UNCHANGED vars

\* Mutant: after a failed refresh the call falls back to the old vault.
CallResultsStale(q) ==
    CASE call[q] = "answered" -> LookupResults
      [] call[q] = "refresh_error" ->
            IF cache = None THEN FetchErrors ELSE LookupResults
      [] call[q] = "missing_cached_sync" -> {"MissingCachedSync"}
      [] OTHER -> {}

\* ... and ends; after that there is no await before the reply.
CallResults(q) ==
    CASE call[q] = "answered" -> LookupResults
      [] call[q] = "refresh_error" -> FetchErrors
      [] call[q] = "missing_cached_sync" -> {"MissingCachedSync"}
      [] OTHER -> {}

CallReturns(q) ==
    /\ ProviderReturns(q)
    /\ reply'[q] \in {ProviderReply(result) : result \in CallResults(q)}
    /\ UNCHANGED client

\* Mutant: the call is spawned, and goes on when the handler is dropped.
DropDetached(q) ==
    /\ pc[q] = "provider"
    /\ Disconnect(q)
    /\ call[q] \notin C!Final
    /\ UNCHANGED client

\* The handler is dropped with the call it waits for.
Drop(q) ==
    /\ pc[q] = "provider"
    /\ Disconnect(q)
    /\ C!Cancel(q)

-----------------------------------------------------------------------------
(* Time.                                                                    *)

\* Request q waits for nothing but a thread of the runtime.
Runnable(q) ==
    \/ pc[q] \in {"auth", "policy", "release", "respond"}
    \/ pc[q] = "decode" /\ ~request[q].json
    \/ pc[q] = "provider" /\ \/ call[q] \in {"check", "lock", "store", "read"}
                             \/ call[q] = "wait" /\ C!Holds(q)
                             \/ call[q] \in C!Final

\* A thread is free whenever a request is runnable, so time passes only in
\* upstream requests, in clients and in the key derivation.  The login reply
\* and the derivation that follows it share the bound of both.
Pass ==
    /\ C!Tick
    /\ \A q \in Req :
          /\ ~Runnable(q)
          /\ call[q] = "unlock" =>
                now - sentAt[q] < RequestTimeout + DerivationTime
    /\ UNCHANGED vars

ProcessStep ==
    /\ ReloadPolicy \/ MarkShuttingDown \/ StopAccepting \/ Exit
    /\ UNCHANGED client

\* The clock of the instance has stopped.
Stopped == now = MaxTime /\ UNCHANGED serviceVars

ServiceNext ==
    \/ \E q \in Req :
          \/ HandlerStep(q)
          \/ CallProvider(q) \/ CallStep(q) \/ CallReturns(q) \/ Drop(q)
    \/ Pass \/ ProcessStep \/ Stopped

ServiceSpec == ServiceInit /\ [][ServiceNext]_serviceVars
-----------------------------------------------------------------------------
(* Properties.                                                              *)

\* The longest a refresh takes: login, derivation and sync.
RefreshTime == 2 * RequestTimeout + DerivationTime

\* A failed refresh is retried by every queued call, one after the other;
\* still, with a cap on concurrent requests no call lasts longer than one
\* refresh for each permit, however requests arrive, fail or are dropped.
BoundedWait ==
    Limit # 0 => \A q \in Req :
        call[q] \in C!Active => now - startedAt[q] <= Limit * RefreshTime

\* The upstream server is only ever contacted, and the refresh lock only
\* ever queued for, by a request that is authorized, whose key the policy
\* allowed, that holds a permit and whose client is still there; nothing is
\* left of a request that is over, so at exit the lock is free.
LockOnlyForAdmitted ==
    /\ \A q \in Req : call[q] \in C!Active =>
          /\ pc[q] = "provider"
          /\ IsAuthorized(q)
          /\ everAllowed[q]
    /\ \A i \in DOMAIN refresh_lock : call[refresh_lock[i]] \in C!Active
    /\ Limit # 0 => Len(refresh_lock) <= Limit

\* The cache counters agree with the replies: a request is answered with an
\* error of fetch_vault exactly when its own refresh failed and was counted,
\* and every answer computed from a vault was counted as a hit or a refresh.
RepliesMatchCalls ==
    LET failed == {q \in Req : call[q] = "refresh_error"}
        answered == {q \in Req : reply[q] # None /\ reply[q].status = 200}
    IN  /\ refresh_failures = Cardinality(failed)
        /\ \A q \in failed : reply[q] # None =>
              reply[q] \in {ProviderReply(e) : e \in FetchErrors}
        /\ \A q \in answered : served[q] # None
        /\ Cardinality(answered) <= cache_hits + refresh_successes
=============================================================================

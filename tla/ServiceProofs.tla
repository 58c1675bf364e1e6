---------------------------- MODULE ServiceProofs ----------------------------
(***************************************************************************)
(* Proofs about the running provider, for every number of requests, cap,   *)
(* policy and timeout: the composition adds no behaviour to either of its  *)
(* components, so what is proved of them holds of it.                      *)
(***************************************************************************)
EXTENDS Service, WebhookProofs

\* A step of the composition is a step of the handlers, or leaves them alone.
LEMMA HandlersStep == [ServiceNext]_serviceVars => [Next]_vars
<1> SUFFICES ASSUME [ServiceNext]_serviceVars PROVE [Next]_vars
  OBVIOUS
<1>1. ASSUME NEW q \in Req, HandlerStep(q) PROVE [Next]_vars
  BY <1>1 DEF HandlerStep, Next, ServerStep, ClientStep
<1>2. ASSUME NEW q \in Req, CallProvider(q) PROVE [Next]_vars
  BY <1>2 DEF CallProvider, Next, ServerStep
<1>3. ASSUME NEW q \in Req, CallStep(q) PROVE [Next]_vars
  BY <1>3 DEF CallStep
<1>4. ASSUME NEW q \in Req, CallReturns(q) PROVE [Next]_vars
  BY <1>4 DEF CallReturns, Next, ServerStep
<1>5. ASSUME NEW q \in Req, Drop(q) PROVE [Next]_vars
  BY <1>5 DEF Drop, Next, ClientStep
<1>6. CASE Pass
  BY <1>6 DEF Pass
<1>7. CASE ProcessStep
  BY <1>7 DEF ProcessStep, Next
<1>8. CASE Stopped \/ UNCHANGED serviceVars
  BY <1>8 DEF Stopped, serviceVars
<1> QED
  BY <1>1, <1>2, <1>3, <1>4, <1>5, <1>6, <1>7, <1>8 DEF ServiceNext

\* A step of the composition is a step of the client, or leaves it alone.
LEMMA ClientSteps == [ServiceNext]_serviceVars => [C!Next]_(C!vars)
<1> SUFFICES ASSUME [ServiceNext]_serviceVars PROVE [C!Next]_(C!vars)
  OBVIOUS
<1>0. UNCHANGED client => UNCHANGED C!vars
  BY DEF client, C!vars, C!metrics
<1>1. ASSUME NEW q \in Req, HandlerStep(q) \/ CallReturns(q)
      PROVE  [C!Next]_(C!vars)
  BY <1>0, <1>1 DEF HandlerStep, CallReturns
<1>2. ASSUME NEW q \in Req, CallProvider(q) PROVE [C!Next]_(C!vars)
  BY <1>2 DEF CallProvider, C!Next
<1>3. ASSUME NEW q \in Req, CallStep(q) PROVE [C!Next]_(C!vars)
  BY <1>3 DEF CallStep, C!Next
<1>4. ASSUME NEW q \in Req, Drop(q) PROVE [C!Next]_(C!vars)
  BY <1>4 DEF Drop, C!Next
<1>5. CASE Pass
  BY <1>5 DEF Pass, C!Next
<1>6. CASE ProcessStep \/ Stopped \/ UNCHANGED serviceVars
  BY <1>0, <1>6 DEF ProcessStep, Stopped, serviceVars
<1> QED
  BY <1>1, <1>2, <1>3, <1>4, <1>5, <1>6 DEF ServiceNext

\* The running provider implements the endpoint: its handlers do nothing
\* that module Webhook does not allow them.
THEOREM ServiceImplementsWebhook == ServiceSpec => Spec
<1>1. ServiceInit => Init
  BY DEF ServiceInit
<1> QED
  BY <1>1, HandlersStep, PTL DEF ServiceSpec, Spec

\* The running provider implements the client: its calls do nothing that
\* module SyncCache does not allow them.
THEOREM ServiceImplementsSyncCache == ServiceSpec => C!Spec
<1>1. ServiceInit => C!Init
  BY DEF ServiceInit
<1> QED
  BY <1>1, ClientSteps, PTL DEF ServiceSpec, C!Spec

\* The cap is exact and the policy respected with the real client behind the
\* handlers.
THEOREM ServiceKeepsCapAndPolicy ==
    ServiceSpec => [](PermitsConserved /\ PolicyRespected)
  BY ServiceImplementsWebhook, CapIsExact, PolicyIsRespected, PTL

-----------------------------------------------------------------------------
(* What is proved of the client, for the client in the service.             *)

P == INSTANCE SyncCacheProofs WITH pc <- call

\* The theorems' assumptions on the client's constants.
LEMMA ClientAssumed ==
    /\ P!TimeAssumption /\ P!ExpiresInAssumption
    /\ P!NoneAssumption /\ P!NoneIsNoVault
BY ClientAssumption
   DEF C!TimeAssumption, P!TimeAssumption,
       C!ExpiresInAssumption, P!ExpiresInAssumption,
       C!NoneAssumption, P!NoneAssumption, C!NoneIsNoVault, P!NoneIsNoVault,
       C!CachedVault, P!CachedVault

\* The client counts as the service does.
LEMMA SameCardinality == ASSUME NEW S PROVE P!Cardinality(S) = Cardinality(S)
BY DEF P!Cardinality, Cardinality

\* Both instances of the client take the same steps.
LEMMA SameSteps == [C!Next]_(C!vars) => [P!Next]_(P!vars)
<1> SUFFICES ASSUME [C!Next]_(C!vars) PROVE [P!Next]_(P!vars)
  OBVIOUS
<1> USE DEF C!Goto, P!Goto, C!Holds, P!Holds,
            C!ReleaseRefreshLock, P!ReleaseRefreshLock,
            C!metrics, P!metrics, C!HasFreshCache, P!HasFreshCache,
            C!IsFreshAt, P!IsFreshAt
<1>1. ASSUME NEW q \in Req, C!Resolve(q) \/ C!Cancel(q) PROVE P!Next
  <2>1. C!Resolve(q) => P!Resolve(q)
    BY DEF C!Resolve, P!Resolve
  <2>2. C!CancelUnqueued(q) => P!CancelUnqueued(q)
    BY DEF C!CancelUnqueued, P!CancelUnqueued
  <2>3. C!CancelWaiting(q) => P!CancelWaiting(q)
    BY DEF C!CancelWaiting, P!CancelWaiting, C!RemoveAt, P!RemoveAt
  <2>4. C!CancelRefreshing(q) => P!CancelRefreshing(q)
    BY DEF C!CancelRefreshing, P!CancelRefreshing
  <2> QED  BY <1>1, <2>1, <2>2, <2>3, <2>4 DEF C!Cancel, P!Cancel, P!Next
<1>2. ASSUME NEW q \in Req, C!Progress(q) PROVE P!Next
  <2>1. C!CheckHit(q) => P!CheckHit(q)
    BY DEF C!CheckHit, P!CheckHit
  <2>2. C!CheckMiss(q) => P!CheckMiss(q)
    BY DEF C!CheckMiss, P!CheckMiss
  <2>3. C!Enqueue(q) => P!Enqueue(q)
    BY DEF C!Enqueue, P!Enqueue
  <2>4. C!RecheckHit(q) => P!RecheckHit(q)
    BY DEF C!RecheckHit, P!RecheckHit
  <2>5. C!RecheckMiss(q) => P!RecheckMiss(q)
    BY DEF C!RecheckMiss, P!RecheckMiss
  <2>6. C!LoginReply(q) => P!LoginReply(q)
    BY DEF C!LoginReply, P!LoginReply
  <2>7. C!Unlock(q) => P!Unlock(q)
    BY DEF C!Unlock, P!Unlock
  <2>8. C!SyncReply(q) => P!SyncReply(q)
    BY DEF C!SyncReply, P!SyncReply,
           C!NewCachedVault, P!NewCachedVault, C!ExpiresAt, P!ExpiresAt
  <2>9. C!FetchFails(q) => P!FetchFails(q)
    BY DEF C!FetchFails, P!FetchFails
  <2>10. C!Store(q) => P!Store(q)
    BY DEF C!Store, P!Store
  <2>11. C!ReadCache(q) => P!ReadCache(q)
    BY DEF C!ReadCache, P!ReadCache
  <2> QED
    BY <1>2, <2>1, <2>2, <2>3, <2>4, <2>5, <2>6, <2>7, <2>8, <2>9, <2>10, <2>11
       DEF C!Progress, P!Progress, P!Next
<1>3. C!Tick => P!Tick
  BY DEF C!Tick, P!Tick
<1>4. UNCHANGED C!vars => UNCHANGED P!vars
  BY DEF C!vars, P!vars
<1> QED  BY <1>1, <1>2, <1>3, <1>4 DEF C!Next, P!Next, C!Quiescent

\* What SyncCacheProofs shows of the client holds in the service.
LEMMA ClientInvariance ==
    ServiceSpec => [](P!Inv /\ P!QueueInv /\ P!CountInv /\ P!OutcomeInv)
<1>1. C!Init => P!Init
  BY DEF C!Init, P!Init
<1>2. C!Spec => P!Spec
  BY <1>1, SameSteps, PTL DEF C!Spec, P!Spec
<1>3. /\ P!Spec => []P!Inv
      /\ P!Spec => []P!QueueInv
      /\ P!Spec => []P!CountInv
      /\ P!Spec => []P!OutcomeInv
  BY ClientAssumed, P!Invariance, P!QueueInvariance, P!CountInvariance,
     P!OutcomeInvariance
<1> QED  BY <1>2, <1>3, ServiceImplementsSyncCache, PTL
-----------------------------------------------------------------------------
(* Handlers and calls.                                                      *)

\* What a request was told agrees with how its call ended; one that was
\* turned away made no call and was not told 200.
Explained(q) ==
    \/ call[q] = "idle" /\ reply[q].status # 200
    \/ call[q] = "answered"
    \/ call[q] = "refresh_error"
         /\ reply[q] \in {ProviderReply(e) : e \in FetchErrors}
    \/ call[q] = "missing_cached_sync"
         /\ reply[q] = ProviderReply("MissingCachedSync")

\* A call lives inside the handler of an authorized request.
Attached(q) ==
    /\ pc[q] \in HoldingLabels => IsAuthorized(q)
    /\ pc[q] \in {"idle", "auth", "decode", "policy"} => call[q] = "idle"
    /\ call[q] \in C!Active => pc[q] = "provider"
    /\ reply[q] # None => Explained(q)

AttachedInv == \A q \in Req : Attached(q)

\* What the components' invariants say of the handlers and of the calls.
ComponentInv ==
    /\ TypeOK /\ ReplyInv /\ PolicyInv /\ PermitInv
    /\ P!Inv /\ P!QueueInv /\ P!CountInv /\ P!OutcomeInv

\* The components' invariants hold in the service.
LEMMA ComponentInvariance == ServiceSpec => []ComponentInv
BY ServiceImplementsWebhook, TypeCorrect, ReplyInvariance, PolicyInvariance,
   PermitInvariance, ClientInvariance, PTL DEF ComponentInv

\* A step of a call moves it from an active label to another that is not idle.
LEMMA CallMoves ==
    ASSUME NEW q \in Req, C!Progress(q) \/ C!Cancel(q)
    PROVE  /\ call[q] \in C!Active
           /\ \E l \in C!Active \cup C!Final : call' = [call EXCEPT ![q] = l]
BY DEF C!Progress, C!Cancel, C!Goto, C!Active, C!Final, C!CheckHit, C!CheckMiss,
       C!Enqueue, C!RecheckHit, C!RecheckMiss, C!LoginReply, C!Unlock,
       C!SyncReply, C!FetchFails, C!Store, C!ReadCache, C!CancelUnqueued,
       C!CancelWaiting, C!CancelRefreshing

\* Every step of the service keeps calls inside their handlers.
LEMMA AttachedStep ==
    ComponentInv /\ AttachedInv /\ [ServiceNext]_serviceVars => AttachedInv'
<1> SUFFICES ASSUME ComponentInv, AttachedInv, [ServiceNext]_serviceVars
             PROVE  AttachedInv'
  OBVIOUS
<1>0. /\ pc \in [Req -> Labels] /\ reply \in [Req -> Replies \cup {None}]
      /\ request \in [Req -> Requests \cup {None}]
      /\ call \in [Req -> {"idle"} \cup C!Active \cup C!Final]
      /\ \A q \in Req : NoReplyYet(q) /\ Attached(q)
  BY DEF ComponentInv, TypeOK, Labels, ReplyInv, AttachedInv, P!Inv, P!TypeOK,
         P!Active, P!Final, C!Active, C!Final
\* Only the request that moved has to be looked at.
<1>a. ASSUME NEW q \in Req, Attached(q)',
             \A p \in Req \ {q} : /\ pc'[p] = pc[p] /\ call'[p] = call[p]
                                  /\ reply'[p] = reply[p]
                                  /\ request'[p] = request[p]
      PROVE  AttachedInv'
  BY <1>0, <1>a DEF AttachedInv, Attached, Explained, IsAuthorized
\* Steps of a handler that return no reply.
<1>b. ASSUME NEW q \in Req, NEW l \in Labels, Goto(q, l),
             UNCHANGED <<request, reply, call>>,
             l \in HoldingLabels => IsAuthorized(q),
             l \in {"idle", "auth", "decode", "policy"} => call[q] = "idle",
             call[q] \in C!Active => l = "provider"
      PROVE  AttachedInv'
  <2>1. pc' = [pc EXCEPT ![q] = l]
    BY <1>b DEF Goto
  <2>2. Attached(q)'
    BY <1>0, <1>b, <2>1 DEF Attached, Explained, IsAuthorized
  <2> QED  BY <1>0, <1>a, <1>b, <2>1, <2>2
\* Steps of a handler that return a reply without a call.
<1>c. ASSUME NEW q \in Req, NEW l \in {"release", "respond"}, NEW r \in Replies,
             Return(q, r, l), UNCHANGED <<request, call>>, r.status # 200,
             pc[q] \in {"auth", "decode", "policy"},
             l = "release" => IsAuthorized(q)
      PROVE  AttachedInv'
  <2>1. pc' = [pc EXCEPT ![q] = l] /\ reply' = [reply EXCEPT ![q] = r]
    BY <1>c DEF Return, Goto
  <2>2. call[q] = "idle"
    BY <1>0, <1>c DEF Attached
  <2>3. Attached(q)'
    BY <1>0, <1>c, <2>1, <2>2
       DEF Attached, Explained, IsAuthorized, HoldingLabels, C!Active
  <2> QED  BY <1>0, <1>a, <1>c, <2>1, <2>3
<1>1. ASSUME NEW q \in Req, HandlerStep(q) PROVE AttachedInv'
  <2>0. call' = call
    BY <1>1 DEF HandlerStep, client
  <2>1. CASE Arrive(q)
    <3>1. /\ pc' = [pc EXCEPT ![q] = "auth"] /\ pc[q] = "idle" /\ reply' = reply
          /\ \A p \in Req \ {q} : request'[p] = request[p]
      BY <1>0, <2>1 DEF Arrive, Goto
    <3>2. Attached(q)'
      BY <1>0, <2>0, <3>1 DEF Attached, Explained, HoldingLabels, C!Active
    <3> QED  BY <1>0, <1>a, <2>0, <3>1, <3>2
  <2>2. CASE \/ Admit(q) \/ Decode(q) \/ Release(q) \/ RecordHttp(q)
             \/ pc[q] = "decode" /\ Disconnect(q)
    <3>1. call[q] \notin C!Active
      BY <1>0, <2>2 DEF Attached, Admit, Decode, Release, RecordHttp
    <3> QED
      BY <1>0, <1>b, <2>0, <2>2, <3>1
         DEF Attached, Admit, Decode, Release, RecordHttp, Disconnect,
             HoldingLabels, Labels, Final, C!Active
  <2>3. CASE \/ RejectAuth(q) \/ Shed(q) \/ RejectContentType(q)
             \/ BodyFails(q) \/ RejectBody(q) \/ Deny(q)
    <3>1. /\ UNCHANGED <<request, call>>
          /\ pc[q] \in {"auth", "decode", "policy"}
          /\ \E l \in {"release", "respond"} :
                /\ l = "release" => pc[q] \in HoldingLabels
                /\ \E status \in {401, 503, 415, 413, 400, 403},
                      kind \in {"auth", "overloaded", "validation",
                                "policy_denied"} :
                      Return(q, ReplyOf(status, kind), l)
      BY <2>0, <2>3 DEF RejectAuth, Shed, RejectContentType, BodyFails,
                        RejectBody, Deny, HoldingLabels
    <3>2. \A status \in {401, 503, 415, 413, 400, 403},
             kind \in {"auth", "overloaded", "validation", "policy_denied"} :
                /\ ReplyOf(status, kind) \in Replies
                /\ ReplyOf(status, kind).status # 200
      BY DEF ReplyOf, Replies, ErrorKinds
    <3>3. pc[q] \in HoldingLabels => IsAuthorized(q)
      BY <1>0 DEF Attached
    <3> QED  BY <1>c, <3>1, <3>2, <3>3
  <2>4. CASE RejectSelector(q)
    <3> DEFINE r == ProviderReply(request[q].selector_error)
    <3>1. request[q] \in Requests
      BY <2>4 DEF ComponentInv, PolicyInv, Witnessed, InProgress, RejectSelector,
                  Final
    <3>2. request[q].selector_error # "ok"
      BY <3>1, <2>4, RequestsAssumption DEF RejectSelector, SelectorErrors
    <3>3. r.status # 200 /\ r \in Replies
      BY <3>2, ProviderReplyFacts, ProviderReplyType
    <3>4. IsAuthorized(q)
      BY <1>0, <2>4 DEF Attached, RejectSelector, HoldingLabels
    <3> QED  BY <1>c, <2>0, <2>4, <3>3, <3>4 DEF RejectSelector
  <2> QED  BY <1>1, <2>1, <2>2, <2>3, <2>4 DEF HandlerStep
<1>2. ASSUME NEW q \in Req, CallProvider(q) PROVE AttachedInv'
  <2>1. /\ pc[q] = "policy" /\ pc' = [pc EXCEPT ![q] = "provider"]
        /\ call' = [call EXCEPT ![q] = "check"]
        /\ UNCHANGED <<request, reply>>
    BY <1>2 DEF CallProvider, Allow, Goto, C!Resolve, C!Goto
  <2>2. IsAuthorized(q) /\ reply[q] = None
    BY <1>0, <2>1 DEF Attached, HoldingLabels, NoReplyYet
  <2>3. Attached(q)'
    BY <1>0, <2>1, <2>2 DEF Attached, IsAuthorized
  <2> QED  BY <1>0, <1>a, <2>1, <2>3
<1>3. ASSUME NEW q \in Req, CallStep(q) PROVE AttachedInv'
  <2>1. UNCHANGED <<pc, request, reply>> /\ call[q] \in C!Active
    BY <1>3, CallMoves DEF CallStep, vars
  <2>2. PICK l : call' = [call EXCEPT ![q] = l]
    BY <1>3, CallMoves DEF CallStep
  <2>3. pc[q] = "provider" /\ reply[q] = None
    BY <1>0, <2>1 DEF Attached, NoReplyYet
  <2>4. Attached(q)'
    BY <1>0, <2>1, <2>2, <2>3 DEF Attached, IsAuthorized
  <2> QED  BY <1>0, <1>a, <2>1, <2>2, <2>4
<1>4. ASSUME NEW q \in Req, CallReturns(q) PROVE AttachedInv'
  <2>1. PICK result \in Results : Return(q, ProviderReply(result), "release")
    BY <1>4 DEF CallReturns, ProviderReturns
  <2>2. /\ pc[q] = "provider" /\ pc' = [pc EXCEPT ![q] = "release"]
        /\ reply' = [reply EXCEPT ![q] = ProviderReply(result)]
        /\ UNCHANGED <<request, call>>
    BY <1>4, <2>1 DEF CallReturns, ProviderReturns, Return, Goto, client
  <2>3. reply'[q] \in {ProviderReply(e) : e \in CallResults(q)}
    BY <1>4 DEF CallReturns
  <2>4. call[q] \in {"answered", "refresh_error", "missing_cached_sync"}
    BY <2>3 DEF CallResults
  <2>5. Explained(q)'
    BY <2>2, <2>3, <2>4 DEF CallResults, Explained
  <2>6. Attached(q)'
    BY <1>0, <2>2, <2>4, <2>5 DEF Attached, IsAuthorized, HoldingLabels, C!Active
  <2> QED  BY <1>0, <1>a, <2>2, <2>6
<1>5. ASSUME NEW q \in Req, Drop(q) PROVE AttachedInv'
  <2>1. /\ pc[q] = "provider" /\ pc' = [pc EXCEPT ![q] = "cancelled"]
        /\ UNCHANGED <<request, reply>>
    BY <1>5 DEF Drop, Disconnect, Goto
  <2>2. call' = [call EXCEPT ![q] = "cancelled"]
    BY <1>5 DEF Drop, C!Cancel, C!CancelUnqueued, C!CancelWaiting,
                C!CancelRefreshing, C!Goto
  <2>3. reply[q] = None
    BY <1>0, <2>1 DEF NoReplyYet
  <2>4. Attached(q)'
    BY <1>0, <2>1, <2>2, <2>3 DEF Attached, HoldingLabels, C!Active
  <2> QED  BY <1>0, <1>a, <2>1, <2>2, <2>4
<1>6. CASE Pass \/ ProcessStep \/ Stopped \/ UNCHANGED serviceVars
  <2>1. UNCHANGED <<pc, request, reply, call>>
    BY <1>6 DEF Pass, ProcessStep, Stopped, serviceVars, vars, client, C!Tick,
                ReloadPolicy, MarkShuttingDown, StopAccepting, Exit
  <2> QED  BY <2>1 DEF AttachedInv, Attached, Explained, IsAuthorized
<1> QED
  BY <1>1, <1>2, <1>3, <1>4, <1>5, <1>6 DEF ServiceNext

\* Calls live inside their handlers in every reachable state.
LEMMA AttachedInvariance == ServiceSpec => []AttachedInv
<1>1. ServiceInit => AttachedInv
  BY DEF ServiceInit, Init, C!Init, AttachedInv, Attached, HoldingLabels, C!Active
<1> QED  BY <1>1, AttachedStep, ComponentInvariance, PTL DEF ServiceSpec

\* Everyone in the queue of the refresh lock holds a permit, so the cap bounds
\* the queue.
LEMMA QueueWithinCap ==
    ASSUME ComponentInv, AttachedInv, Limit # 0
    PROVE  Len(refresh_lock) <= Limit
<1>1. refresh_lock \in Seq(Req) /\ Len(refresh_lock) \in Nat
  BY DEF ComponentInv, P!Inv, P!TypeOK
<1>2. \A i \in 1 .. Len(refresh_lock) : refresh_lock[i] \in Holders
  BY <1>1 DEF ComponentInv, AttachedInv, Attached, P!QueueInv, P!QueueLabels,
              C!Active, Holders
<1>3. refresh_lock \in [1 .. Len(refresh_lock) -> Holders]
  BY <1>1, <1>2
<1>4. IsFiniteSet(Holders)
  BY ReqAssumption, FS_Subset DEF Holders
<1>5. /\ IsFiniteSet(1 .. Len(refresh_lock))
      /\ Cardinality(1 .. Len(refresh_lock)) = Len(refresh_lock)
  BY <1>1, FS_Interval
<1>6. ~(Cardinality(Holders) < Cardinality(1 .. Len(refresh_lock)))
  BY <1>3, <1>4, <1>5, FS_PigeonHole DEF ComponentInv, P!QueueInv
<1>7. Cardinality(Holders) \in Nat
  BY <1>4, FS_CardinalityType
<1>8. Cardinality(Holders) <= Limit
  BY <1>7, LimitAssumption DEF ComponentInv, TypeOK, PermitInv, PermitsConserved
<1> QED  BY <1>1, <1>5, <1>6, <1>7, <1>8, LimitAssumption

\* For every cap, policy and number of requests: the upstream is contacted,
\* and the refresh lock queued for, only on behalf of an authorized request
\* that the policy allowed, that holds a permit and whose client is there.
THEOREM OnlyAdmittedLock == ServiceSpec => []LockOnlyForAdmitted
<1>1. ComponentInv /\ AttachedInv => LockOnlyForAdmitted
  <2> SUFFICES ASSUME ComponentInv, AttachedInv PROVE LockOnlyForAdmitted
    OBVIOUS
  <2>1. ASSUME NEW q \in Req, call[q] \in C!Active
        PROVE  pc[q] = "provider" /\ IsAuthorized(q) /\ everAllowed[q]
    BY <2>1 DEF AttachedInv, Attached, HoldingLabels, ComponentInv, PolicyInv,
                PolicyRespected
  <2>2. \A i \in DOMAIN refresh_lock : call[refresh_lock[i]] \in C!Active
    <3>1. DOMAIN refresh_lock = 1 .. Len(refresh_lock)
      BY DEF ComponentInv, P!Inv, P!TypeOK
    <3> QED  BY <3>1 DEF ComponentInv, P!QueueInv, P!QueueLabels, C!Active
  <2>3. Limit # 0 => Len(refresh_lock) <= Limit
    BY QueueWithinCap
  <2> QED  BY <2>1, <2>2, <2>3 DEF LockOnlyForAdmitted
<1> QED  BY <1>1, ComponentInvariance, AttachedInvariance, PTL

\* For every number of requests: refresh_failures counts the requests that
\* were told of a failed refresh, an answer comes from a vault, and every
\* answer was counted as a hit or a refresh.
THEOREM CountersMatchReplies == ServiceSpec => []RepliesMatchCalls
<1>1. ComponentInv /\ AttachedInv => RepliesMatchCalls
  <2> SUFFICES ASSUME ComponentInv, AttachedInv PROVE RepliesMatchCalls
    OBVIOUS
  <2> DEFINE failed == {q \in Req : call[q] = "refresh_error"}
             answered == {q \in Req : reply[q] # None /\ reply[q].status = 200}
             decided == {q \in Req : call[q] \in {"store", "read", "answered",
                                   "refresh_error", "missing_cached_sync"}}
  <2>1. refresh_failures = Cardinality(failed)
    <3>1. P!At({"refresh_error"}) = failed
      BY DEF P!At
    <3> QED  BY <3>1, SameCardinality DEF ComponentInv, P!OutcomeInv
  <2>2. \A q \in failed : reply[q] # None =>
           reply[q] \in {ProviderReply(e) : e \in FetchErrors}
    BY DEF AttachedInv, Attached, Explained
  <2>3. \A q \in answered : call[q] = "answered"
    <3> SUFFICES ASSUME NEW q \in answered PROVE call[q] = "answered"
      OBVIOUS
    <3>1. Explained(q)
      BY DEF AttachedInv, Attached
    <3>2. \A e \in FetchErrors \cup {"MissingCachedSync"} :
             ProviderReply(e).status # 200
      BY ResultsAssumption, ProviderReplyFacts
    <3> QED  BY <3>1, <3>2 DEF Explained
  <2>4. \A q \in answered : served[q] # None
    BY <2>3 DEF ComponentInv, P!OutcomeInv
  <2>5. Cardinality(answered) <= cache_hits + refresh_successes
    <3>1. /\ IsFiniteSet(failed) /\ IsFiniteSet(answered)
          /\ IsFiniteSet(decided) /\ IsFiniteSet(answered \cup failed)
      BY ReqAssumption, FS_Subset
    <3>2. answered \cap failed = {} /\ answered \cup failed \subseteq decided
      BY <2>3
    <3> HIDE DEF answered, failed, decided
    <3>3. Cardinality(answered \cup failed)
            = Cardinality(answered) + Cardinality(failed)
      <4>1. Cardinality(answered \cap failed) = 0
        BY <3>2, FS_EmptySet
      <4>2. Cardinality(answered) \in Nat /\ Cardinality(failed) \in Nat
        BY <3>1, FS_CardinalityType
      <4>3. Cardinality(answered \cup failed)
              = Cardinality(answered) + Cardinality(failed)
                  - Cardinality(answered \cap failed)
        BY <3>1, FS_Union
      <4> QED  BY <4>1, <4>2, <4>3
    <3>4. Cardinality(answered \cup failed) <= Cardinality(decided)
      BY <3>1, <3>2, FS_Subset
    <3>5. Cardinality(decided) <= cache_hits + refresh_successes + refresh_failures
      BY SameCardinality DEF decided, ComponentInv, P!CountInv, P!MetricsAccount
    <3>6. /\ Cardinality(answered) \in Nat /\ Cardinality(failed) \in Nat
          /\ Cardinality(decided) \in Nat
      BY <3>1, FS_CardinalityType
    <3>7. cache_hits \in Nat /\ refresh_successes \in Nat
      BY DEF ComponentInv, P!Inv, P!TypeOK
    <3> QED  BY <2>1, <3>3, <3>4, <3>5, <3>6, <3>7
  <2> QED  BY <2>1, <2>2, <2>4, <2>5 DEF RepliesMatchCalls
<1> QED  BY <1>1, ComponentInvariance, AttachedInvariance, PTL
-----------------------------------------------------------------------------
(* How long a call lasts.                                                   *)

\* The longest time the holder of the refresh lock can have had it.
Elapsed ==
    IF refresh_lock = <<>> THEN 0
    ELSE LET h == Head(refresh_lock) IN
         CASE call[h] \in {"login", "unlock"} -> now - sentAt[h]
           [] call[h] = "sync" ->
                 RequestTimeout + DerivationTime + (now - sentAt[h])
           [] call[h] = "store" -> RefreshTime
           [] OTHER -> 0

\* One refresh for each permit but the first i.
Budget(i) == (Limit - i) * RefreshTime

\* A call has no age before it queues.  In place i of the queue it has seen
\* the holder's refresh and at most one for each permit not behind it.
Waits(q) ==
    /\ call[q] \in {"check", "lock"} => startedAt[q] = now
    /\ call[q] = "unlock" =>
          /\ sentAt[q] <= now
          /\ now <= sentAt[q] + RequestTimeout + DerivationTime
    /\ call[q] = "read" => now - startedAt[q] <= Budget(0)
    /\ call[q] \in P!QueueLabels =>
          \E i \in 1 .. Len(refresh_lock) :
             /\ refresh_lock[i] = q
             /\ now - startedAt[q] <= Budget(i) + Elapsed

WaitInv == \A q \in Req : Waits(q)

\* Moving up one place in the queue adds the time of one refresh.
LEMMA Budgets ==
    /\ RefreshTime \in Nat
    /\ \A i \in Int : Budget(i) \in Int /\ Budget(i - 1) = Budget(i) + RefreshTime
    /\ \A i \in Int : i <= Limit => Budget(i) >= 0
<1>1. RequestTimeout \in Nat /\ DerivationTime \in Nat /\ Limit \in Nat
  BY ClientAssumed, DerivationAssumption, LimitAssumption DEF P!TimeAssumption
<1>2. RefreshTime \in Nat
  BY <1>1 DEF RefreshTime
<1>3. \A m \in Int, r \in Nat :
         m * r \in Int /\ (m + 1) * r = m * r + r /\ (m >= 0 => m * r >= 0)
  OBVIOUS
<1>4. \A i \in Int : Limit - i \in Int /\ Limit - (i - 1) = (Limit - i) + 1
  BY <1>1
<1> QED  BY <1>1, <1>2, <1>3, <1>4 DEF Budget

\* The time of the holder, by what it is doing.
LEMMA HolderTime ==
    ASSUME NEW q, C!Holds(q)
    PROVE  /\ call[q] = "wait" => Elapsed = 0
           /\ call[q] \in {"login", "unlock"} => Elapsed = now - sentAt[q]
           /\ call[q] = "sync" =>
                 Elapsed = RequestTimeout + DerivationTime + (now - sentAt[q])
           /\ call[q] = "store" => Elapsed = RefreshTime
BY DEF C!Holds, Elapsed

\* What the other invariants say of the queue and of the clock.
LEMMA QueueFacts ==
    ASSUME ComponentInv
    PROVE  /\ now \in Nat /\ startedAt \in [Req -> Nat] /\ sentAt \in [Req -> Nat]
           /\ call \in [Req -> {"idle"} \cup C!Active \cup C!Final]
           /\ refresh_lock \in Seq(Req) /\ Len(refresh_lock) \in Nat
           /\ \A i \in 1 .. Len(refresh_lock) :
                 call[refresh_lock[i]] \in P!QueueLabels
           /\ \A i, j \in 1 .. Len(refresh_lock) :
                 refresh_lock[i] = refresh_lock[j] => i = j
           /\ \A q \in Req : call[q] \in P!QueueLabels \ {"wait"} => C!Holds(q)
           /\ \A q \in Req : startedAt[q] <= now
           /\ \A q \in Req : call[q] \in {"login", "sync"} =>
                 sentAt[q] <= now /\ now <= sentAt[q] + RequestTimeout
BY DEF ComponentInv, P!Inv, P!TypeOK, P!QueueInv, P!LockInv, P!Refreshing,
       P!Holds, C!Holds, P!ClockInv, P!FlightInv, P!QueueLabels, P!Active,
       P!Final, C!Active, C!Final

\* A refresh takes no longer than the timeouts and the derivation allow.
LEMMA ElapsedBounds ==
    ASSUME ComponentInv, WaitInv
    PROVE  Elapsed \in Int /\ 0 <= Elapsed /\ Elapsed <= RefreshTime
<1>1. RequestTimeout \in Nat /\ DerivationTime \in Nat
  BY ClientAssumed, DerivationAssumption DEF P!TimeAssumption
<1>2. CASE refresh_lock = <<>>
  BY <1>1, <1>2 DEF Elapsed, RefreshTime
<1>3. CASE refresh_lock # <<>>
  <2> DEFINE h == Head(refresh_lock)
  <2>1. h \in Req /\ C!Holds(h) /\ call[h] \in P!QueueLabels
    <3>1. 1 \in 1 .. Len(refresh_lock) /\ h = refresh_lock[1]
      BY <1>3, QueueFacts
    <3> QED  BY <1>3, <3>1, QueueFacts DEF C!Holds
  <2> HIDE DEF h
  <2>2. /\ now \in Nat /\ sentAt[h] \in Nat
        /\ call[h] \in {"login", "sync"} =>
              sentAt[h] <= now /\ now <= sentAt[h] + RequestTimeout
        /\ call[h] = "unlock" =>
              /\ sentAt[h] <= now
              /\ now <= sentAt[h] + RequestTimeout + DerivationTime
    BY <2>1, QueueFacts DEF WaitInv, Waits
  <2> QED  BY <1>1, <2>1, <2>2, HolderTime DEF P!QueueLabels, RefreshTime
<1> QED  BY <1>2, <1>3

\* A step of one call that leaves the queue and the clock alone.
LEMMA WaitKept ==
    ASSUME ComponentInv, WaitInv, NEW q \in Req, Waits(q)',
           now' = now, refresh_lock' = refresh_lock,
           \A p \in Req \ {q} : /\ call'[p] = call[p] /\ sentAt'[p] = sentAt[p]
                                /\ startedAt'[p] = startedAt[p],
           Elapsed' \in Int, Elapsed <= Elapsed'
    PROVE  WaitInv'
<1> SUFFICES ASSUME NEW p \in Req, p # q PROVE Waits(p)'
  BY DEF WaitInv
<1>1. Waits(p) /\ now \in Nat /\ startedAt[p] \in Nat /\ Len(refresh_lock) \in Nat
  BY QueueFacts DEF WaitInv
<1>2. Elapsed \in Int
  BY ElapsedBounds
<1>3. /\ call'[p] \in {"check", "lock"} => startedAt'[p] = now'
      /\ call'[p] = "unlock" =>
            /\ sentAt'[p] <= now'
            /\ now' <= sentAt'[p] + RequestTimeout + DerivationTime
      /\ call'[p] = "read" => now' - startedAt'[p] <= Budget(0)
  BY <1>1 DEF Waits
<1>4. ASSUME call'[p] \in P!QueueLabels
      PROVE  \E i \in 1 .. Len(refresh_lock') :
                /\ refresh_lock'[i] = p
                /\ now' - startedAt'[p] <= Budget(i) + Elapsed'
  <2>1. PICK i \in 1 .. Len(refresh_lock) :
           refresh_lock[i] = p /\ now - startedAt[p] <= Budget(i) + Elapsed
    BY <1>1, <1>4 DEF Waits
  <2>2. Budget(i) \in Int
    BY <1>1, <2>1, Budgets
  <2>3. now' - startedAt'[p] <= Budget(i) + Elapsed'
    BY <1>1, <1>2, <2>1, <2>2
  <2> QED  BY <2>1, <2>3
<1> QED  BY <1>3, <1>4 DEF Waits

\* The time of the holder does not change with a step of another call.
LEMMA OthersHold ==
    ASSUME ComponentInv, NEW q \in Req, ~C!Holds(q), now' = now,
           refresh_lock' = refresh_lock,
           \A p \in Req \ {q} : call'[p] = call[p] /\ sentAt'[p] = sentAt[p]
    PROVE  Elapsed' = Elapsed
<1>1. CASE refresh_lock = <<>>
  BY <1>1 DEF Elapsed
<1>2. CASE refresh_lock # <<>>
  <2>1. Head(refresh_lock) \in Req \ {q}
    BY <1>2, QueueFacts DEF C!Holds
  <2> QED  BY <1>2, <2>1 DEF Elapsed
<1> QED  BY <1>1, <1>2

\* The holder leaves, and everyone moves up one place.
LEMMA WaitPopped ==
    ASSUME ComponentInv, ComponentInv', WaitInv, NEW q \in Req, NEW l,
           C!Holds(q), C!ReleaseRefreshLock, call' = [call EXCEPT ![q] = l],
           call[q] \in P!QueueLabels,
           l \notin P!QueueLabels \cup {"check", "lock"},
           UNCHANGED <<now, startedAt>>,
           \A p \in Req \ {q} : sentAt'[p] = sentAt[p]
    PROVE  WaitInv'
<1>1. /\ now \in Nat /\ startedAt \in [Req -> Nat]
      /\ call \in [Req -> {"idle"} \cup C!Active \cup C!Final]
      /\ refresh_lock \in Seq(Req) /\ Len(refresh_lock) \in Nat
      /\ refresh_lock # <<>> /\ refresh_lock[1] = q
  BY QueueFacts DEF C!Holds
<1>2. /\ refresh_lock' = Tail(refresh_lock)
      /\ Len(refresh_lock') = Len(refresh_lock) - 1
      /\ \A i \in 1 .. Len(refresh_lock) - 1 :
            refresh_lock'[i] = refresh_lock[i + 1]
  BY <1>1 DEF C!ReleaseRefreshLock
<1>3. Elapsed \in Int /\ Elapsed <= RefreshTime /\ RefreshTime \in Nat
  BY ElapsedBounds, Budgets
<1>4. Elapsed' = 0
  <2>1. CASE refresh_lock' = <<>>
    BY <2>1 DEF Elapsed
  <2>2. CASE refresh_lock' # <<>>
    <3>1. Len(refresh_lock) > 1 /\ Head(refresh_lock') = refresh_lock[2]
      BY <1>1, <1>2, <2>2
    <3>2. refresh_lock[2] \in Req \ {q} /\ call[refresh_lock[2]] \in P!QueueLabels
      <4>1. 1 \in 1 .. Len(refresh_lock) /\ 2 \in 1 .. Len(refresh_lock)
        BY <1>1, <3>1
      <4> QED  BY <1>1, <4>1, QueueFacts
    <3>3. ~C!Holds(refresh_lock[2])
      BY <1>1, <3>2 DEF C!Holds
    <3>4. call[refresh_lock[2]] = "wait"
      BY <3>2, <3>3, QueueFacts
    <3>5. call'[Head(refresh_lock')] = "wait"
      BY <1>1, <3>1, <3>2, <3>4
    <3> QED  BY <2>2, <3>5 DEF Elapsed
  <2> QED  BY <2>1, <2>2
<1>5. ASSUME NEW p \in Req, p # q PROVE Waits(p)'
  <2>1. Waits(p) /\ call'[p] = call[p] /\ sentAt'[p] = sentAt[p]
    BY <1>1, <1>5 DEF WaitInv
  <2>2. ASSUME call[p] \in P!QueueLabels
        PROVE  \E i \in 1 .. Len(refresh_lock') :
                  /\ refresh_lock'[i] = p
                  /\ now' - startedAt'[p] <= Budget(i) + Elapsed'
    <3>1. PICK i \in 1 .. Len(refresh_lock) :
             refresh_lock[i] = p /\ now - startedAt[p] <= Budget(i) + Elapsed
      BY <2>1, <2>2 DEF Waits
    <3>2. i # 1 /\ i - 1 \in 1 .. Len(refresh_lock')
      BY <1>1, <1>2, <1>5, <3>1
    <3>3. refresh_lock'[i - 1] = p
      BY <1>1, <1>2, <3>1, <3>2
    <3>4. Budget(i) \in Int /\ Budget(i - 1) = Budget(i) + RefreshTime
      BY <3>1, Budgets
    <3>5. now' - startedAt'[p] <= Budget(i - 1) + Elapsed'
      BY <1>1, <1>3, <1>4, <3>1, <3>4
    <3> QED  BY <3>2, <3>3, <3>5
  <2> QED  BY <2>1, <2>2 DEF Waits
<1>6. Waits(q)'
  <2>1. PICK i \in 1 .. Len(refresh_lock) :
           refresh_lock[i] = q /\ now - startedAt[q] <= Budget(i) + Elapsed
    BY DEF WaitInv, Waits
  <2>2. i = 1
    <3>1. 1 \in 1 .. Len(refresh_lock)
      BY <1>1
    <3> QED  BY <1>1, <2>1, <3>1, QueueFacts
  <2>3. Budget(1) \in Int /\ Budget(0) = Budget(1) + RefreshTime
    BY Budgets
  <2>4. now' - startedAt'[q] <= Budget(0)
    BY <1>1, <1>3, <2>1, <2>2, <2>3
  <2> QED  BY <1>1, <2>4 DEF Waits, P!QueueLabels
<1> QED  BY <1>5, <1>6 DEF WaitInv

\* A caller goes away while it waits, and those behind it move up.
LEMMA WaitRemoved ==
    ASSUME ComponentInv, ComponentInv', WaitInv, NEW q \in Req, C!CancelWaiting(q)
    PROVE  WaitInv'
<1>1. /\ now \in Nat /\ startedAt \in [Req -> Nat]
      /\ call \in [Req -> {"idle"} \cup C!Active \cup C!Final]
      /\ refresh_lock \in Seq(Req) /\ Len(refresh_lock) \in Nat
  BY QueueFacts
<1>2. /\ call[q] = "wait" /\ call' = [call EXCEPT ![q] = "cancelled"]
      /\ UNCHANGED <<now, startedAt, sentAt>>
  BY DEF C!CancelWaiting, C!Goto
<1>3. PICK k \in 1 .. Len(refresh_lock) :
         refresh_lock[k] = q /\ refresh_lock' = P!RemoveAt(refresh_lock, k)
  BY DEF C!CancelWaiting, C!RemoveAt, P!RemoveAt
<1>4. /\ Len(refresh_lock') = Len(refresh_lock) - 1
      /\ \A j \in 1 .. Len(refresh_lock) - 1 :
            refresh_lock'[j] = IF j < k THEN refresh_lock[j]
                               ELSE refresh_lock[j + 1]
  BY <1>1, <1>3, ClientAssumed, P!RemoveAtElements
<1>5. refresh_lock' \in Seq(Req)
  BY QueueFacts DEF ComponentInv, P!Inv, P!TypeOK
<1>6. \A i \in 2 .. Len(refresh_lock) :
         C!Holds(refresh_lock[i]) => FALSE
  BY <1>1, QueueFacts DEF C!Holds
<1>7. \A i \in 2 .. Len(refresh_lock) : call[refresh_lock[i]] = "wait"
  BY <1>1, <1>6, QueueFacts
<1>8. Elapsed \in Int /\ RefreshTime \in Nat
  BY ElapsedBounds, Budgets
<1>9. Elapsed' = Elapsed
  <2>1. CASE k # 1
    <3>1. Len(refresh_lock) > 1 /\ refresh_lock'[1] = refresh_lock[1]
      <4>1. 1 < k /\ 1 \in 1 .. Len(refresh_lock) - 1
        BY <1>1, <2>1
      <4> QED  BY <1>1, <1>4, <4>1
    <3>2. refresh_lock # <<>> /\ refresh_lock' # <<>>
      BY <1>1, <1>4, <1>5, <3>1
    <3>3. Head(refresh_lock') = Head(refresh_lock)
      BY <1>1, <1>5, <3>1, <3>2
    <3>4. Head(refresh_lock) \in Req \ {q}
      <4>1. 1 \in 1 .. Len(refresh_lock)
        BY <1>1, <3>1
      <4> QED  BY <1>1, <1>3, <2>1, <3>2, <4>1, QueueFacts
    <3>5. call'[Head(refresh_lock)] = call[Head(refresh_lock)]
      BY <1>1, <1>2, <3>4
    <3> QED  BY <1>2, <3>2, <3>3, <3>5 DEF Elapsed
  <2>2. CASE k = 1
    <3>1. C!Holds(q)
      BY <1>1, <1>3, <2>2 DEF C!Holds
    <3>2. Elapsed = 0
      BY <1>2, <3>1, HolderTime
    <3>3. CASE refresh_lock' = <<>>
      BY <3>2, <3>3 DEF Elapsed
    <3>4. CASE refresh_lock' # <<>>
      <4>1. Len(refresh_lock) > 1 /\ Head(refresh_lock') = refresh_lock[2]
        BY <1>1, <1>4, <1>5, <2>2, <3>4
      <4>2. call[refresh_lock[2]] = "wait" /\ refresh_lock[2] \in Req \ {q}
        <5>1. 1 \in 1 .. Len(refresh_lock) /\ 2 \in 2 .. Len(refresh_lock)
              /\ 2 \in 1 .. Len(refresh_lock)
          BY <1>1, <4>1
        <5> QED  BY <1>1, <1>3, <1>7, <2>2, <5>1, QueueFacts
      <4>3. call'[Head(refresh_lock')] = "wait"
        BY <1>1, <1>2, <4>1, <4>2
      <4> QED  BY <3>2, <3>4, <4>3 DEF Elapsed
    <3> QED  BY <3>3, <3>4
  <2> QED  BY <2>1, <2>2
<1>10. ASSUME NEW p \in Req, p # q PROVE Waits(p)'
  <2>1. Waits(p) /\ call'[p] = call[p]
    BY <1>1, <1>2, <1>10 DEF WaitInv
  <2>2. ASSUME call[p] \in P!QueueLabels
        PROVE  \E j \in 1 .. Len(refresh_lock') :
                  /\ refresh_lock'[j] = p
                  /\ now' - startedAt'[p] <= Budget(j) + Elapsed'
    <3>1. PICK i \in 1 .. Len(refresh_lock) :
             refresh_lock[i] = p /\ now - startedAt[p] <= Budget(i) + Elapsed
      BY <2>1, <2>2 DEF Waits
    <3>2. Budget(i) \in Int /\ Budget(i - 1) = Budget(i) + RefreshTime
      BY <3>1, Budgets
    <3>3. CASE i < k
      <4>1. i \in 1 .. Len(refresh_lock') /\ refresh_lock'[i] = p
        BY <1>1, <1>3, <1>4, <3>1, <3>3
      <4>2. now' - startedAt'[p] <= Budget(i) + Elapsed'
        BY <1>2, <1>9, <3>1
      <4> QED  BY <4>1, <4>2
    <3>4. CASE i > k
      <4>0. /\ i - 1 \in 1 .. Len(refresh_lock) - 1
            /\ ~(i - 1 < k) /\ (i - 1) + 1 = i
        BY <1>1, <3>4
      <4>1. i - 1 \in 1 .. Len(refresh_lock') /\ refresh_lock'[i - 1] = p
        BY <1>4, <3>1, <4>0
      <4>2. now' - startedAt'[p] <= Budget(i - 1) + Elapsed'
        BY <1>1, <1>2, <1>8, <1>9, <3>1, <3>2
      <4> QED  BY <4>1, <4>2
    <3>5. i # k
      BY <1>3, <1>10, <3>1
    <3> QED  BY <3>1, <3>3, <3>4, <3>5
  <2> QED  BY <1>2, <2>1, <2>2 DEF Waits
<1>11. Waits(q)'
  BY <1>1, <1>2 DEF Waits, P!QueueLabels
<1> QED  BY <1>10, <1>11 DEF WaitInv

\* A caller joins the queue; the cap leaves it a place.
LEMMA WaitAppended ==
    ASSUME ComponentInv, ComponentInv', AttachedInv', WaitInv, Limit # 0,
           NEW q \in Req, C!Enqueue(q)
    PROVE  WaitInv'
<1>1. /\ now \in Nat /\ startedAt \in [Req -> Nat]
      /\ call \in [Req -> {"idle"} \cup C!Active \cup C!Final]
      /\ refresh_lock \in Seq(Req) /\ Len(refresh_lock) \in Nat
  BY QueueFacts
<1>2. /\ call[q] = "lock" /\ call' = [call EXCEPT ![q] = "wait"]
      /\ refresh_lock' = Append(refresh_lock, q)
      /\ UNCHANGED <<now, startedAt, sentAt>>
  BY DEF C!Enqueue, C!Goto
<1>3. /\ refresh_lock' \in Seq(Req) /\ Len(refresh_lock') = Len(refresh_lock) + 1
      /\ refresh_lock'[Len(refresh_lock) + 1] = q
      /\ \A i \in 1 .. Len(refresh_lock) : refresh_lock'[i] = refresh_lock[i]
  BY <1>1, <1>2
<1>4. Len(refresh_lock') <= Limit
  <2>1. (ComponentInv /\ AttachedInv /\ Limit # 0 => Len(refresh_lock) <= Limit)'
    BY QueueWithinCap, PTL
  <2> QED  BY <2>1
<1>5. Elapsed' = Elapsed
  <2>1. CASE refresh_lock = <<>>
    <3>1. refresh_lock' # <<>> /\ Head(refresh_lock') = q
      BY <1>1, <1>2, <2>1
    <3> QED  BY <1>1, <1>2, <2>1, <3>1 DEF Elapsed
  <2>2. CASE refresh_lock # <<>>
    <3>1. refresh_lock' # <<>> /\ Head(refresh_lock') = Head(refresh_lock)
      BY <1>1, <1>2, <2>2
    <3>2. Head(refresh_lock) \in Req /\ call[Head(refresh_lock)] \in P!QueueLabels
      <4>1. 1 \in 1 .. Len(refresh_lock) /\ Head(refresh_lock) = refresh_lock[1]
        BY <1>1, <2>2
      <4> QED  BY <1>1, <4>1, QueueFacts
    <3>3. call'[Head(refresh_lock)] = call[Head(refresh_lock)]
      BY <1>1, <1>2, <3>2 DEF P!QueueLabels
    <3> QED  BY <1>2, <2>2, <3>1, <3>3 DEF Elapsed
  <2> QED  BY <2>1, <2>2
<1>6. ASSUME NEW p \in Req, p # q PROVE Waits(p)'
  <2>1. Waits(p) /\ call'[p] = call[p]
    BY <1>1, <1>2, <1>6 DEF WaitInv
  <2>2. ASSUME call[p] \in P!QueueLabels
        PROVE  \E i \in 1 .. Len(refresh_lock') :
                  /\ refresh_lock'[i] = p
                  /\ now' - startedAt'[p] <= Budget(i) + Elapsed'
    <3>1. PICK i \in 1 .. Len(refresh_lock) :
             refresh_lock[i] = p /\ now - startedAt[p] <= Budget(i) + Elapsed
      BY <2>1, <2>2 DEF Waits
    <3>2. i \in 1 .. Len(refresh_lock') /\ refresh_lock'[i] = p
      BY <1>1, <1>3, <3>1
    <3>3. now' - startedAt'[p] <= Budget(i) + Elapsed'
      BY <1>2, <1>5, <3>1
    <3> QED  BY <3>2, <3>3
  <2> QED  BY <1>2, <2>1, <2>2 DEF Waits
<1>7. Waits(q)'
  <2> DEFINE i == Len(refresh_lock) + 1
  <2>1. i \in 1 .. Len(refresh_lock') /\ refresh_lock'[i] = q /\ i \in Int
    BY <1>1, <1>3
  <2>2. Budget(i) \in Int /\ Budget(i) >= 0
    BY <1>1, <1>3, <1>4, <2>1, Budgets
  <2>3. Elapsed \in Int /\ Elapsed >= 0
    BY ElapsedBounds
  <2>4. startedAt[q] = now
    BY <1>2 DEF WaitInv, Waits
  <2> HIDE DEF i
  <2>5. now' - startedAt'[q] <= Budget(i) + Elapsed'
    BY <1>1, <1>2, <1>5, <2>2, <2>3, <2>4
  <2> QED  BY <1>1, <1>2, <2>1, <2>5 DEF Waits
<1> QED  BY <1>6, <1>7 DEF WaitInv

\* Time passes only while the holder waits for the upstream or computes.
LEMMA WaitPasses ==
    ASSUME ComponentInv, AttachedInv, WaitInv, Pass
    PROVE  WaitInv'
<1>1. /\ now \in Nat /\ startedAt \in [Req -> Nat] /\ sentAt \in [Req -> Nat]
      /\ refresh_lock \in Seq(Req) /\ Len(refresh_lock) \in Nat
      /\ RequestTimeout \in Nat /\ DerivationTime \in Nat
  BY QueueFacts, ClientAssumed, DerivationAssumption DEF P!TimeAssumption
<1>2. /\ now' = now + 1
      /\ UNCHANGED <<call, refresh_lock, startedAt, sentAt>>
      /\ \A q \in Req :
            /\ ~Runnable(q)
            /\ call[q] = "unlock" =>
                  now - sentAt[q] < RequestTimeout + DerivationTime
  BY DEF Pass, C!Tick
<1>3. \A q \in Req : /\ call[q] \notin {"check", "lock", "store", "read"}
                     /\ call[q] = "wait" => ~C!Holds(q)
  BY <1>2 DEF Runnable, AttachedInv, Attached, C!Active
<1>4. ASSUME refresh_lock # <<>>
      PROVE  Elapsed \in Int /\ Elapsed' = Elapsed + 1
  <2> DEFINE h == Head(refresh_lock)
  <2>1. h \in Req /\ C!Holds(h) /\ call[h] \in P!QueueLabels
    <3>1. 1 \in 1 .. Len(refresh_lock) /\ h = refresh_lock[1]
      BY <1>1, <1>4
    <3> QED  BY <1>4, <3>1, QueueFacts DEF C!Holds
  <2>2. call[h] \in {"login", "unlock", "sync"}
    BY <1>3, <2>1 DEF P!QueueLabels
  <2>3. sentAt[h] \in Nat
    BY <1>1, <2>1
  <2>4. /\ Elapsed = IF call[h] = "sync"
                      THEN RequestTimeout + DerivationTime + (now - sentAt[h])
                      ELSE now - sentAt[h]
        /\ Elapsed' = IF call[h] = "sync"
                       THEN RequestTimeout + DerivationTime + (now' - sentAt[h])
                       ELSE now' - sentAt[h]
    BY <1>2, <1>4, <2>2 DEF Elapsed
  <2> HIDE DEF h
  <2>5. now \in Nat /\ now' = now + 1
    BY <1>1, <1>2
  <2>6. RequestTimeout \in Nat /\ DerivationTime \in Nat
    BY <1>1
  <2> QED  BY <2>3, <2>4, <2>5, <2>6
<1>5. ASSUME NEW q \in Req PROVE Waits(q)'
  <2>1. Waits(q) /\ startedAt[q] \in Nat /\ sentAt[q] \in Nat
    BY <1>1 DEF WaitInv
  <2>2. call'[q] = "unlock" =>
           /\ sentAt'[q] <= now'
           /\ now' <= sentAt'[q] + RequestTimeout + DerivationTime
    BY <1>1, <1>2, <2>1 DEF Waits
  <2>3. ASSUME call[q] \in P!QueueLabels
        PROVE  \E i \in 1 .. Len(refresh_lock') :
                  /\ refresh_lock'[i] = q
                  /\ now' - startedAt'[q] <= Budget(i) + Elapsed'
    <3>1. PICK i \in 1 .. Len(refresh_lock) :
             refresh_lock[i] = q /\ now - startedAt[q] <= Budget(i) + Elapsed
      BY <2>1, <2>3 DEF Waits
    <3>2. refresh_lock # <<>>
      BY <1>1, <3>1
    <3>3. Budget(i) \in Int
      BY <3>1, Budgets
    <3>4. now' - startedAt'[q] <= Budget(i) + Elapsed'
      BY <1>1, <1>2, <1>4, <2>1, <3>1, <3>2, <3>3
    <3> QED  BY <1>2, <3>1, <3>4
  <2> QED  BY <1>2, <1>3, <2>2, <2>3 DEF Waits
<1> QED  BY <1>5 DEF WaitInv

\* Every step of the service keeps the ages within the budgets.
LEMMA WaitStep ==
    ASSUME ComponentInv, ComponentInv', AttachedInv, AttachedInv', WaitInv,
           Limit # 0, [ServiceNext]_serviceVars
    PROVE  WaitInv'
<1>0. /\ now \in Nat /\ startedAt \in [Req -> Nat] /\ sentAt \in [Req -> Nat]
      /\ call \in [Req -> {"idle"} \cup C!Active \cup C!Final]
      /\ RequestTimeout \in Nat /\ DerivationTime \in Nat /\ Limit \in Nat
      /\ Elapsed \in Int /\ 0 <= Elapsed /\ Elapsed <= RefreshTime
      /\ RefreshTime \in Nat /\ Budget(0) \in Int /\ 0 <= Budget(0)
  <2>1. RequestTimeout \in Nat /\ DerivationTime \in Nat /\ Limit \in Nat
    BY ClientAssumed, DerivationAssumption, LimitAssumption DEF P!TimeAssumption
  <2>2. RefreshTime \in Nat /\ Budget(0) \in Int /\ 0 <= Budget(0)
    BY <2>1, Budgets
  <2>3. Elapsed \in Int /\ 0 <= Elapsed /\ Elapsed <= RefreshTime
    BY ElapsedBounds
  <2> QED  BY <2>1, <2>2, <2>3, QueueFacts
\* A step of a call outside the queue.
<1>a. ASSUME NEW q \in Req, NEW l, call' = [call EXCEPT ![q] = l],
             call[q] \notin P!QueueLabels,
             l \notin P!QueueLabels,
             UNCHANGED <<now, refresh_lock, sentAt>>,
             \A p \in Req \ {q} : startedAt'[p] = startedAt[p],
             l \in {"check", "lock"} => startedAt'[q] = now,
             l = "read" => startedAt'[q] = now
      PROVE  WaitInv'
  <2>1. ~C!Holds(q)
    <3> SUFFICES ASSUME C!Holds(q) PROVE FALSE
      OBVIOUS
    <3>1. 1 \in 1 .. Len(refresh_lock) /\ refresh_lock[1] = q
      BY QueueFacts DEF C!Holds
    <3> QED  BY <1>a, <3>1, QueueFacts
  <2>2. Elapsed' = Elapsed
    BY <1>0, <1>a, <2>1, OthersHold
  <2>3. Waits(q)'
    <3>1. l = "read" => now - startedAt'[q] = 0
      BY <1>0, <1>a
    <3> QED  BY <1>0, <1>a, <3>1 DEF Waits, P!QueueLabels
  <2> QED  BY <1>0, <1>a, <2>2, <2>3, WaitKept
\* A step of the holder that keeps the lock.
<1>b. ASSUME NEW q \in Req, NEW l, call' = [call EXCEPT ![q] = l], C!Holds(q),
             call[q] \in P!QueueLabels, l \in P!QueueLabels,
             UNCHANGED <<now, refresh_lock, startedAt>>,
             \A p \in Req \ {q} : sentAt'[p] = sentAt[p],
             Elapsed' \in Int, Elapsed <= Elapsed',
             l = "unlock" => sentAt'[q] <= now
                               /\ now <= sentAt'[q] + RequestTimeout + DerivationTime
      PROVE  WaitInv'
  <2>1. PICK i \in 1 .. Len(refresh_lock) :
           refresh_lock[i] = q /\ now - startedAt[q] <= Budget(i) + Elapsed
    BY <1>b DEF WaitInv, Waits
  <2>2. Budget(i) \in Int /\ startedAt[q] \in Nat
    BY <1>0, <2>1, Budgets
  <2>3. now' - startedAt'[q] <= Budget(i) + Elapsed'
    BY <1>0, <1>b, <2>1, <2>2
  <2>4. Waits(q)'
    BY <1>0, <1>b, <2>1, <2>3 DEF Waits, P!QueueLabels
  <2> QED  BY <1>0, <1>b, <2>4, WaitKept
<1>1. ASSUME UNCHANGED client PROVE WaitInv'
  BY <1>1 DEF client, WaitInv, Waits, Elapsed
<1>2. ASSUME NEW q \in Req, C!Resolve(q) PROVE WaitInv'
  BY <1>0, <1>2, <1>a DEF C!Resolve, C!Goto, P!QueueLabels
<1>3. ASSUME NEW q \in Req, C!CheckHit(q) \/ C!CheckMiss(q) PROVE WaitInv'
  <2>1. startedAt[q] = now
    BY <1>3 DEF C!CheckHit, C!CheckMiss, WaitInv, Waits
  <2> QED  BY <1>3, <1>a, <2>1 DEF C!CheckHit, C!CheckMiss, C!Goto, P!QueueLabels
<1>4. ASSUME NEW q \in Req, C!ReadCache(q) \/ C!CancelUnqueued(q) PROVE WaitInv'
  BY <1>4, <1>a DEF C!ReadCache, C!CancelUnqueued, C!Goto, P!QueueLabels
<1>5. ASSUME NEW q \in Req, C!Enqueue(q) PROVE WaitInv'
  BY <1>5, WaitAppended
<1>6. ASSUME NEW q \in Req, C!CancelWaiting(q) PROVE WaitInv'
  BY <1>6, WaitRemoved
<1>7. ASSUME NEW q \in Req,
             \/ C!RecheckHit(q) \/ C!FetchFails(q) \/ C!Store(q)
             \/ C!CancelRefreshing(q)
      PROVE  WaitInv'
  <2>1. call[q] \in P!QueueLabels /\ C!Holds(q) /\ C!ReleaseRefreshLock
    BY <1>7, QueueFacts DEF C!RecheckHit, C!FetchFails, C!Store,
                            C!CancelRefreshing, P!QueueLabels
  <2>2. /\ UNCHANGED <<now, startedAt>>
        /\ \E l \in {"read", "refresh_error", "cancelled"} :
              call' = [call EXCEPT ![q] = l]
    BY <1>7 DEF C!RecheckHit, C!FetchFails, C!Store, C!CancelRefreshing, C!Goto
  <2>3. \A p \in Req \ {q} : sentAt'[p] = sentAt[p]
    BY <1>0, <1>7 DEF C!RecheckHit, C!FetchFails, C!Store, C!CancelRefreshing
  <2> QED  BY <2>1, <2>2, <2>3, WaitPopped DEF P!QueueLabels
<1>8. ASSUME NEW q \in Req, C!RecheckMiss(q) PROVE WaitInv'
  <2>1. /\ call[q] = "wait" /\ call' = [call EXCEPT ![q] = "login"]
        /\ C!Holds(q) /\ sentAt' = [sentAt EXCEPT ![q] = now]
        /\ UNCHANGED <<now, refresh_lock, startedAt>>
    BY <1>8 DEF C!RecheckMiss, C!Goto
  <2>2. Elapsed = 0 /\ Elapsed' = 0
    <3>1. C!Holds(q)'
      BY <2>1 DEF C!Holds
    <3>2. Elapsed' = now' - sentAt'[q]
      BY <1>0, <2>1 DEF Elapsed, C!Holds
    <3> QED  BY <1>0, <2>1, <3>2, HolderTime
  <2> QED  BY <1>0, <1>b, <2>1, <2>2 DEF P!QueueLabels
<1>9. ASSUME NEW q \in Req, C!LoginReply(q) PROVE WaitInv'
  <2>1. /\ call[q] = "login" /\ call' = [call EXCEPT ![q] = "unlock"]
        /\ UNCHANGED <<now, refresh_lock, startedAt, sentAt>>
    BY <1>9 DEF C!LoginReply, C!Goto
  <2>2. /\ C!Holds(q)
        /\ sentAt[q] <= now /\ now <= sentAt[q] + RequestTimeout
    BY <2>1, QueueFacts DEF P!QueueLabels
  <2>3. Elapsed' = Elapsed
    BY <1>0, <2>1, <2>2 DEF Elapsed, C!Holds
  <2>4. now <= sentAt'[q] + RequestTimeout + DerivationTime
    <3>1. sentAt[q] \in Nat
      BY <1>0
    <3> QED  BY <1>0, <2>1, <2>2, <3>1
  <2>5. Elapsed' \in Int /\ Elapsed <= Elapsed'
    BY <1>0, <2>3
  <2>6. \A p \in Req \ {q} : sentAt'[p] = sentAt[p]
    BY <2>1
  <2> QED  BY <1>b, <2>1, <2>2, <2>4, <2>5, <2>6 DEF P!QueueLabels
<1>10. ASSUME NEW q \in Req, C!Unlock(q) PROVE WaitInv'
  <2>1. /\ call[q] = "unlock" /\ call' = [call EXCEPT ![q] = "sync"]
        /\ sentAt' = [sentAt EXCEPT ![q] = now]
        /\ UNCHANGED <<now, refresh_lock, startedAt>>
    BY <1>10 DEF C!Unlock, C!Goto
  <2>2. C!Holds(q)
    BY <2>1, QueueFacts DEF P!QueueLabels
  <2>3. Elapsed' = RequestTimeout + DerivationTime
    <3>1. Elapsed' = RequestTimeout + DerivationTime + (now' - sentAt'[q])
      BY <1>0, <2>1, <2>2 DEF Elapsed, C!Holds
    <3> QED  BY <1>0, <2>1, <3>1
  <2>4. Elapsed <= RequestTimeout + DerivationTime
    <3>1. now <= sentAt[q] + RequestTimeout + DerivationTime
      BY <2>1 DEF WaitInv, Waits
    <3> QED  BY <1>0, <2>1, <2>2, <3>1, HolderTime
  <2>5. Elapsed' \in Int /\ Elapsed <= Elapsed'
    BY <1>0, <2>3, <2>4
  <2>6. \A p \in Req \ {q} : sentAt'[p] = sentAt[p]
    BY <1>0, <2>1
  <2> QED  BY <1>b, <2>1, <2>2, <2>5, <2>6 DEF P!QueueLabels
<1>11. ASSUME NEW q \in Req, C!SyncReply(q) PROVE WaitInv'
  <2>1. /\ call[q] = "sync" /\ call' = [call EXCEPT ![q] = "store"]
        /\ sentAt' = [sentAt EXCEPT ![q] = 0]
        /\ UNCHANGED <<now, refresh_lock, startedAt>>
    BY <1>11 DEF C!SyncReply, C!Goto
  <2>2. C!Holds(q)
    BY <2>1, QueueFacts DEF P!QueueLabels
  <2>3. Elapsed' = RefreshTime
    BY <1>0, <2>1, <2>2 DEF Elapsed, C!Holds
  <2>4. Elapsed' \in Int /\ Elapsed <= Elapsed'
    BY <1>0, <2>3
  <2>5. \A p \in Req \ {q} : sentAt'[p] = sentAt[p]
    BY <1>0, <2>1
  <2> QED  BY <1>b, <2>1, <2>2, <2>4, <2>5 DEF P!QueueLabels
<1>12. CASE Pass
  BY <1>12, WaitPasses
<1>13. ASSUME NEW q \in Req, CallStep(q) \/ Drop(q) PROVE WaitInv'
  BY <1>3, <1>4, <1>5, <1>6, <1>7, <1>8, <1>9, <1>10, <1>11, <1>13
     DEF CallStep, Drop, C!Progress, C!Cancel
<1>14. ASSUME NEW q \in Req, HandlerStep(q) \/ CallProvider(q) \/ CallReturns(q)
       PROVE  WaitInv'
  BY <1>1, <1>2, <1>14 DEF HandlerStep, CallProvider, CallReturns
<1>15. CASE ProcessStep \/ Stopped \/ UNCHANGED serviceVars
  BY <1>1, <1>15 DEF ProcessStep, Stopped, serviceVars
<1> QED
  BY <1>12, <1>13, <1>14, <1>15 DEF ServiceNext

\* A failed refresh is retried by every queued call.  Still, for every cap
\* but none and for every timeout, no call lasts longer than one refresh for
\* each permit.
THEOREM WaitIsBounded == ServiceSpec => []BoundedWait
<1>1. CASE Limit = 0
  <2>1. BoundedWait
    BY <1>1 DEF BoundedWait
  <2> QED  BY <2>1, PTL
<1>2. CASE Limit # 0
  <2>1. ServiceInit => WaitInv
    BY DEF ServiceInit, C!Init, WaitInv, Waits, P!QueueLabels
  <2>2. /\ ComponentInv /\ ComponentInv' /\ AttachedInv /\ AttachedInv' /\ WaitInv
        /\ [ServiceNext]_serviceVars
        => WaitInv'
    BY <1>2, WaitStep
  <2>3. ComponentInv /\ WaitInv => BoundedWait
    <3> SUFFICES ASSUME ComponentInv, WaitInv, NEW q \in Req,
                        call[q] \in C!Active
                 PROVE  now - startedAt[q] <= Limit * RefreshTime
      BY DEF BoundedWait
    <3>1. /\ now \in Nat /\ startedAt[q] \in Nat /\ Limit \in Nat
          /\ RefreshTime \in Nat
      BY QueueFacts, Budgets, LimitAssumption
    <3>2. Budget(0) = Limit * RefreshTime /\ Budget(0) \in Int /\ Budget(0) >= 0
      BY <3>1, Budgets DEF Budget
    <3>3. CASE call[q] \in {"check", "lock", "read"}
      BY <3>1, <3>2, <3>3 DEF WaitInv, Waits
    <3>4. CASE call[q] \in P!QueueLabels
      <4>1. PICK i \in 1 .. Len(refresh_lock) :
               refresh_lock[i] = q /\ now - startedAt[q] <= Budget(i) + Elapsed
        BY <3>4 DEF WaitInv, Waits
      <4>2. Elapsed \in Int /\ Elapsed <= RefreshTime
        BY ElapsedBounds
      <4>3. Budget(i) + RefreshTime <= Budget(0) /\ Budget(i) \in Int
        <5>1. i \in Nat /\ i >= 1
          OBVIOUS
        <5> QED  BY <3>1, <5>1 DEF Budget
      <4> QED  BY <3>1, <3>2, <4>1, <4>2, <4>3
    <3> QED  BY <3>3, <3>4 DEF C!Active, P!QueueLabels
  <2> QED
    BY <2>1, <2>2, <2>3, ComponentInvariance, AttachedInvariance, PTL
       DEF ServiceSpec
<1> QED  BY <1>1, <1>2
=============================================================================

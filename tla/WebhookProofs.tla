---------------------------- MODULE WebhookProofs ----------------------------
(* Proofs about the endpoint, for every number of requests and every cap.   *)
EXTENDS Webhook, FiniteSetTheorems, TLAPS

Labels == {"idle", "auth", "decode", "policy", "provider", "release",
           "respond"} \cup Final

-----------------------------------------------------------------------------
(* The concurrency cap.                                                     *)

PermitInv ==
    /\ pc \in [Req -> Labels]
    /\ permits \in Int
    /\ PermitsConserved

HoldingLabels == {"decode", "policy", "provider", "release"}

\* The handler entered by one request.
LEMMA HolderEnters ==
    ASSUME NEW q \in Req, pc \in [Req -> Labels], NEW l \in HoldingLabels,
           pc[q] \notin HoldingLabels, Goto(q, l)
    PROVE  Cardinality(Holders') = Cardinality(Holders) + 1
<1>1. Holders' = Holders \cup {q} /\ q \notin Holders
  BY DEF Holders, Goto, HoldingLabels
<1>2. IsFiniteSet(Holders)
  BY ReqAssumption, FS_Subset DEF Holders
<1> QED BY <1>1, <1>2, FS_AddElement

\* The handler left by one request.
LEMMA HolderLeaves ==
    ASSUME NEW q \in Req, pc \in [Req -> Labels],
           NEW l \in Labels \ HoldingLabels,
           pc[q] \in HoldingLabels, Goto(q, l)
    PROVE  Cardinality(Holders') = Cardinality(Holders) - 1
<1>1. Holders' = Holders \ {q} /\ q \in Holders
  BY DEF Holders, Goto, HoldingLabels
<1>2. IsFiniteSet(Holders)
  BY ReqAssumption, FS_Subset DEF Holders
<1> QED BY <1>1, <1>2, FS_RemoveElement

\* A step inside the handler, or outside it, moves no permit.
LEMMA HoldersUnmoved ==
    ASSUME NEW q \in Req, pc \in [Req -> Labels], NEW l \in Labels,
           pc[q] \in HoldingLabels <=> l \in HoldingLabels, Goto(q, l)
    PROVE  Holders' = Holders
BY DEF Holders, Goto, HoldingLabels

\* Finitely many requests are in the handler.
LEMMA HoldersCountable == Cardinality(Holders) \in Nat
BY ReqAssumption, FS_Subset, FS_CardinalityType DEF Holders

\* Every step keeps the semaphore and the handler's requests in balance.
LEMMA PermitStep == PermitInv /\ [Next]_vars => PermitInv'
<1> SUFFICES ASSUME PermitInv, [Next]_vars
             PROVE  PermitInv'
  OBVIOUS
<1> USE DEF PermitInv, Labels, Final, HoldingLabels
<1>0. Cardinality(Holders) \in Nat /\ Limit \in Nat
  BY HoldersCountable, LimitAssumption
<1>a. ASSUME NEW q \in Req, NEW l \in Labels, Goto(q, l)
      PROVE  pc' \in [Req -> Labels]
  BY <1>a DEF Goto
<1>b. ASSUME NEW q \in Req, NEW l \in Labels, Goto(q, l), permits' = permits,
             pc[q] \in HoldingLabels <=> l \in HoldingLabels
      PROVE  PermitInv'
  <2>1. Holders' = Holders
    BY <1>b, HoldersUnmoved
  <2> QED BY <2>1, <1>a, <1>b DEF PermitsConserved
<1>c. ASSUME NEW q \in Req, pc[q] \in HoldingLabels, DropPermit,
             NEW l \in Labels \ HoldingLabels, Goto(q, l)
      PROVE  PermitInv'
  <2>1. Cardinality(Holders') = Cardinality(Holders) - 1
    BY <1>c, HolderLeaves
  <2>2. permits' \in Int /\ PermitsConserved'
    BY <2>1, <1>c, <1>0 DEF PermitsConserved, DropPermit
  <2> QED BY <2>2, <1>a, <1>c
<1>1. ASSUME NEW q \in Req, Arrive(q) PROVE PermitInv'
  BY <1>1, <1>b DEF Arrive
<1>2. ASSUME NEW q \in Req, RejectAuth(q) PROVE PermitInv'
  BY <1>2, <1>b DEF RejectAuth, Return
<1>3. ASSUME NEW q \in Req, Admit(q) PROVE PermitInv'
  <2>1. Cardinality(Holders') = Cardinality(Holders) + 1
    BY <1>3, HolderEnters DEF Admit
  <2>2. permits' \in Int /\ PermitsConserved'
    BY <2>1, <1>3, <1>0 DEF PermitsConserved, Admit, TakePermit
  <2> QED BY <2>2, <1>a, <1>3 DEF Admit
<1>4. ASSUME NEW q \in Req, Shed(q) PROVE PermitInv'
  BY <1>4, <1>b DEF Shed, Return
<1>5. ASSUME NEW q \in Req, RejectContentType(q) PROVE PermitInv'
  BY <1>5, <1>b DEF RejectContentType, Return
<1>6. ASSUME NEW q \in Req, Allow(q) PROVE PermitInv'
  BY <1>6, <1>b DEF Allow
<1>7. ASSUME NEW q \in Req, Deny(q) PROVE PermitInv'
  BY <1>7, <1>b DEF Deny, Return
<1>8. ASSUME NEW q \in Req, ProviderReturns(q) PROVE PermitInv'
  BY <1>8, <1>b DEF ProviderReturns, Return
<1>9. ASSUME NEW q \in Req, Release(q) PROVE PermitInv'
  BY <1>9, <1>c DEF Release
<1>10. ASSUME NEW q \in Req, RecordHttp(q) PROVE PermitInv'
  BY <1>10, <1>b DEF RecordHttp
<1>11. ASSUME NEW q \in Req, BodyFails(q) PROVE PermitInv'
  BY <1>11, <1>b DEF BodyFails, Return
<1>12. ASSUME NEW q \in Req, RejectBody(q) PROVE PermitInv'
  BY <1>12, <1>b DEF RejectBody, Return
<1>13. ASSUME NEW q \in Req, RejectSelector(q) PROVE PermitInv'
  BY <1>13, <1>b DEF RejectSelector, Return
<1>14. ASSUME NEW q \in Req, Decode(q) PROVE PermitInv'
  BY <1>14, <1>b DEF Decode
<1>15. ASSUME NEW q \in Req, Disconnect(q) PROVE PermitInv'
  BY <1>15, <1>c DEF Disconnect
<1>16. ASSUME \/ ReloadPolicy \/ MarkShuttingDown \/ StopAccepting
              \/ Exit \/ UNCHANGED vars
       PROVE  PermitInv'
  <2>1. pc' = pc /\ permits' = permits
    BY <1>16 DEF ReloadPolicy, MarkShuttingDown, StopAccepting, Exit, vars
  <2> QED BY <2>1 DEF PermitsConserved, Holders
<1> QED
  BY <1>1, <1>2, <1>3, <1>4, <1>5, <1>6, <1>7, <1>8, <1>9, <1>10, <1>11,
     <1>12, <1>13, <1>14, <1>15, <1>16
  DEF Next, ServerStep, ClientStep, Exited

\* The permit count is balanced in every reachable state.
LEMMA PermitInvariance == Spec => []PermitInv
<1>1. Init => PermitInv
  <2> SUFFICES ASSUME Init PROVE PermitInv
    OBVIOUS
  <2>1. Holders = {}
    BY DEF Init, Holders
  <2>2. Cardinality(Holders) = 0
    BY <2>1, FS_EmptySet
  <2> QED BY <2>2, LimitAssumption
      DEF Init, PermitInv, PermitsConserved, Labels, Final
<1> QED BY <1>1, PermitStep, PTL DEF Spec

\* No way a request ends leaks a permit or returns one too many: for every
\* cap and every set of requests the resolve semaphore and the requests in
\* the handler account for all Limit permits.
THEOREM CapIsExact == Spec => []PermitsConserved
<1>1. PermitInv => PermitsConserved
  BY DEF PermitInv
<1> QED BY <1>1, PermitInvariance, PTL

-----------------------------------------------------------------------------
(* The policy check.                                                        *)

\* The history variables see the rules of every moment of a request.
Witnessed(q) ==
    InProgress(q) =>
        /\ request[q] \in Requests
        /\ request[q].key \in rules => everAllowed[q]
        /\ request[q].key \notin rules => everDenied[q]

\* Nothing is replied before the handler returns.
NoReplyYet(q) ==
    pc[q] \in {"idle", "auth", "decode", "policy", "provider"} =>
        reply[q] = None

PolicyInv ==
    /\ pc \in [Req -> Labels]
    /\ request \in [Req -> Requests \cup {None}]
    /\ DOMAIN reply = Req
    /\ reply = [q \in Req |-> reply[q]]
    /\ everAllowed \in [Req -> BOOLEAN]
    /\ everDenied \in [Req -> BOOLEAN]
    /\ \A q \in Req : Witnessed(q) /\ NoReplyYet(q)
    /\ PolicyRespected

\* provider_status_and_kind maps no error to 200 or to policy_denied.
LEMMA ProviderReplyFacts ==
    ASSUME NEW result
    PROVE  /\ ProviderReply(result).status = 200 => result = "ok"
           /\ ProviderReply(result).error_kind # "policy_denied"
BY DEF ProviderReply, ReplyOf

\* A flag per request stays one when it is set for a request.
LEMMA FlagUpdated ==
    ASSUME NEW f \in [Req -> BOOLEAN], NEW q \in Req, NEW b \in BOOLEAN
    PROVE  [f EXCEPT ![q] = b] \in [Req -> BOOLEAN]
OBVIOUS

\* Every step keeps replies justified by the rules their requests saw.
LEMMA PolicyStep == PolicyInv /\ [Next]_vars => PolicyInv'
<1> SUFFICES ASSUME PolicyInv, [Next]_vars
             PROVE  PolicyInv'
  OBVIOUS
<1> USE DEF PolicyInv, Labels, Final
\* Steps that only move a request on, other than into the provider.
<1>a. ASSUME NEW q \in Req, NEW l \in Labels \ {"idle", "auth"}, Goto(q, l),
             InProgress(q),
             l = "provider" => pc[q] = "policy" /\ request[q].key \in rules,
             l \in {"decode", "policy"} => reply[q] = None,
             UNCHANGED <<request, rules, reply, everAllowed, everDenied>>
      PROVE  PolicyInv'
  <2>1. pc' \in [Req -> Labels] /\ pc'[q] = l
    BY <1>a DEF Goto
  <2>2. \A p \in Req \ {q} : pc'[p] = pc[p]
    BY <1>a DEF Goto
  <2>3. \A p \in Req : Witnessed(p)'
    BY <2>1, <2>2, <1>a DEF InProgress, Witnessed
  <2>4. l = "provider" => everAllowed[q] /\ reply[q] = None
    BY <1>a DEF InProgress, Witnessed, NoReplyYet
  <2>5. \A p \in Req : NoReplyYet(p)'
    BY <2>1, <2>2, <2>4, <1>a DEF NoReplyYet
  <2>6. PolicyRespected'
    BY <2>1, <2>2, <2>4, <1>a DEF PolicyRespected
  <2> QED BY <2>1, <2>3, <2>5, <2>6, <1>a
\* Steps that return a reply.
<1>b. ASSUME NEW q \in Req, NEW l \in {"release", "respond"}, NEW r,
             Return(q, r, l), InProgress(q),
             r.status = 200 => everAllowed[q],
             r.error_kind = "policy_denied" => everDenied[q],
             UNCHANGED <<request, rules, history>>
      PROVE  PolicyInv'
  BY <1>b DEF Return, Goto, InProgress, Witnessed, NoReplyYet,
              PolicyRespected, history
<1>1. ASSUME NEW q \in Req, Arrive(q) PROVE PolicyInv'
  <2>1. PICK body \in Requests :
          /\ request' = [request EXCEPT ![q] = body]
          /\ everAllowed' = [everAllowed EXCEPT ![q] = body.key \in rules]
          /\ everDenied' = [everDenied EXCEPT ![q] = body.key \notin rules]
    BY <1>1 DEF Arrive
  <2>2. /\ pc' = [pc EXCEPT ![q] = "auth"] /\ pc[q] = "idle"
        /\ rules' = rules /\ reply' = reply
    BY <1>1 DEF Arrive, Goto
  <2>3. \A p \in Req \ {q} :
          /\ pc'[p] = pc[p] /\ request'[p] = request[p]
          /\ everAllowed'[p] = everAllowed[p]
          /\ everDenied'[p] = everDenied[p]
    BY <2>1, <2>2
  <2>4. /\ request'[q] = body
        /\ everAllowed'[q] = (body.key \in rules)
        /\ everDenied'[q] = (body.key \notin rules)
    BY <2>1
  <2>5. reply[q] = None /\ pc'[q] = "auth"
    BY <2>2 DEF NoReplyYet
  <2>6. \A p \in Req : Witnessed(p)'
    <3>1. Witnessed(q)'
      BY <2>2, <2>4 DEF Witnessed
    <3>2. \A p \in Req \ {q} : Witnessed(p)'
      BY <2>2, <2>3 DEF Witnessed, InProgress
    <3> QED BY <3>1, <3>2
  <2>7. \A p \in Req : NoReplyYet(p)'
    BY <2>2, <2>3, <2>5 DEF NoReplyYet
  <2>8. PolicyRespected'
    <3> SUFFICES ASSUME NEW p \in Req
                 PROVE  /\ pc'[p] = "provider"
                             \/ (reply'[p] # None /\ reply'[p].status = 200)
                           => everAllowed'[p]
                        /\ reply'[p] # None
                             /\ reply'[p].error_kind = "policy_denied"
                           => everDenied'[p]
      BY DEF PolicyRespected
    <3>1. CASE p = q
      BY <3>1, <2>2, <2>5
    <3>2. CASE p # q
      BY <3>2, <2>2, <2>3 DEF PolicyRespected
    <3> QED BY <3>1, <3>2
  <2>9. /\ pc' \in [Req -> Labels]
        /\ request' \in [Req -> Requests \cup {None}]
    BY <2>1, <2>2
  <2>10. everAllowed' \in [Req -> BOOLEAN] /\ everDenied' \in [Req -> BOOLEAN]
    <3>1. (body.key \in rules) \in BOOLEAN /\ (body.key \notin rules) \in BOOLEAN
      OBVIOUS
    <3> QED BY <3>1, <2>1, FlagUpdated
  <2> QED BY <2>2, <2>6, <2>7, <2>8, <2>9, <2>10
<1>2. ASSUME NEW q \in Req, RejectAuth(q) PROVE PolicyInv'
  BY <1>2, <1>b DEF RejectAuth, ReplyOf, InProgress
<1>3. ASSUME NEW q \in Req, Admit(q) PROVE PolicyInv'
  BY <1>3, <1>a DEF history, Admit, InProgress, NoReplyYet
<1>4. ASSUME NEW q \in Req, Shed(q) PROVE PolicyInv'
  BY <1>4, <1>b DEF Shed, ReplyOf, InProgress
<1>5. ASSUME NEW q \in Req, RejectContentType(q) PROVE PolicyInv'
  BY <1>5, <1>b DEF RejectContentType, ReplyOf, InProgress
<1>6. ASSUME NEW q \in Req, Allow(q) PROVE PolicyInv'
  BY <1>6, <1>a DEF history, Allow, InProgress
<1>7. ASSUME NEW q \in Req, Deny(q) PROVE PolicyInv'
  <2>1. everDenied[q]
    BY <1>7 DEF Deny, InProgress, Witnessed
  <2> QED BY <2>1, <1>7, <1>b DEF Deny, ReplyOf, InProgress
<1>8. ASSUME NEW q \in Req, ProviderReturns(q) PROVE PolicyInv'
  <2>1. everAllowed[q] /\ InProgress(q)
    BY <1>8 DEF ProviderReturns, PolicyRespected, InProgress
  <2>2. PICK result \in Results : Return(q, ProviderReply(result), "release")
    BY <1>8 DEF ProviderReturns
  <2>3. ProviderReply(result).error_kind # "policy_denied"
    BY ProviderReplyFacts
  <2> QED BY <2>1, <2>2, <2>3, <1>8, <1>b DEF ProviderReturns
<1>9. ASSUME NEW q \in Req, Release(q) PROVE PolicyInv'
  BY <1>9, <1>a DEF history, Release, InProgress
<1>10. ASSUME NEW q \in Req, RecordHttp(q) PROVE PolicyInv'
  BY <1>10, <1>a DEF history, RecordHttp, InProgress
<1>11. ASSUME NEW q \in Req, BodyFails(q) PROVE PolicyInv'
  BY <1>11, <1>b DEF BodyFails, ReplyOf, InProgress
<1>12. ASSUME NEW q \in Req, RejectBody(q) PROVE PolicyInv'
  BY <1>12, <1>b DEF RejectBody, ReplyOf, InProgress
<1>13. ASSUME NEW q \in Req, RejectSelector(q) PROVE PolicyInv'
  <2> DEFINE r == ProviderReply(request[q].selector_error)
  <2>1. InProgress(q) /\ request[q] \in Requests
    BY <1>13 DEF RejectSelector, InProgress, Witnessed
  <2>2. request[q].selector_error # "ok"
    BY <2>1, <1>13, RequestsAssumption DEF RejectSelector, SelectorErrors
  <2>3. r.status # 200 /\ r.error_kind # "policy_denied"
    BY <2>2, ProviderReplyFacts
  <2> QED BY <2>1, <2>3, <1>13, <1>b DEF RejectSelector
<1>14. ASSUME NEW q \in Req, Decode(q) PROVE PolicyInv'
  BY <1>14, <1>a DEF history, Decode, InProgress, NoReplyYet
<1>15. ASSUME NEW q \in Req, Disconnect(q) PROVE PolicyInv'
  BY <1>15, <1>a DEF history, Disconnect, InProgress
<1>16. ASSUME ReloadPolicy PROVE PolicyInv'
  BY <1>16 DEF ReloadPolicy, InProgress, Witnessed, NoReplyYet,
               PolicyRespected
<1>17. ASSUME MarkShuttingDown \/ StopAccepting \/ Exit \/ UNCHANGED vars
       PROVE  PolicyInv'
  <2>1. UNCHANGED <<pc, request, rules, reply, everAllowed, everDenied>>
    BY <1>17 DEF MarkShuttingDown, StopAccepting, Exit, vars, history
  <2> QED BY <2>1 DEF InProgress, Witnessed, NoReplyYet, PolicyRespected
<1> QED
  BY <1>1, <1>2, <1>3, <1>4, <1>5, <1>6, <1>7, <1>8, <1>9, <1>10, <1>11,
     <1>12, <1>13, <1>14, <1>15, <1>16, <1>17
  DEF Next, ServerStep, ClientStep, Exited

\* The policy's invariant holds in every reachable state.
LEMMA PolicyInvariance == Spec => []PolicyInv
<1>1. Init => PolicyInv
  BY DEF Init, PolicyInv, PolicyRespected, Witnessed, NoReplyYet, InProgress,
         Labels, Final
<1> QED BY <1>1, PolicyStep, PTL DEF Spec

\* For every set of policies and every interleaving of reloads: an answer is
\* given only under rules that allowed the key while the request ran, and a
\* policy_denied only under rules that did not.
THEOREM PolicyIsRespected == Spec => []PolicyRespected
<1>1. PolicyInv => PolicyRespected
  BY DEF PolicyInv
<1> QED BY <1>1, PolicyInvariance, PTL
-----------------------------------------------------------------------------
(* Type correctness.                                                        *)

\* Every status and kind of provider_status_and_kind is a reply.
LEMMA ProviderReplyType == \A result : ProviderReply(result) \in Replies
BY DEF ProviderReply, ReplyOf, Replies, ErrorKinds

\* Bag C is bag B with one more e.
OneMore(B, e, C) ==
    /\ IsABag(C)
    /\ DOMAIN C = DOMAIN B \cup {e}
    /\ C[e] = (IF e \in DOMAIN B THEN B[e] ELSE 0) + 1
    /\ \A x \in DOMAIN B : x # e => C[x] = B[x]

\* One more e, element by element.
LEMMA BagGrows ==
    ASSUME NEW B, IsABag(B), NEW e, NEW C,
           C = [x \in DOMAIN B \cup {e} |->
                  (IF x \in DOMAIN B THEN B[x] ELSE 0) + (IF x = e THEN 1 ELSE 0)]
    PROVE  OneMore(B, e, C)
<1>1. \A x \in DOMAIN B : B[x] \in Nat /\ B[x] > 0
  BY DEF IsABag
<1>2. C \in [DOMAIN C -> {n \in Nat : n > 0}]
  BY <1>1
<1> QED  BY <1>1, <1>2 DEF IsABag, OneMore

\* What recording an element does to a bag.
LEMMA BagRecords ==
    ASSUME NEW B, IsABag(B), NEW e, NEW C, C = B (+) SetToBag({e})
    PROVE  OneMore(B, e, C)
<1>1. C = [x \in DOMAIN B \cup {e} |->
             (IF x \in DOMAIN B THEN B[x] ELSE 0) + (IF x = e THEN 1 ELSE 0)]
  BY DEF (+), SetToBag
<1> QED  BY <1>1, BagGrows

\* The semaphore never goes below zero, so never above the cap either.
LEMMA PermitBounds ==
    ASSUME PermitInv, permits \in 0 .. Limit, [Next]_vars
    PROVE  permits' \in 0 .. Limit
<1>1. permits' \in Int /\ permits' >= 0 /\ (Limit = 0 => permits' = permits)
  <2>0. permits \in Int /\ permits >= 0 /\ Limit \in Nat
    BY LimitAssumption
  <2>1. ASSUME NEW q \in Req, Admit(q)
        PROVE  permits' = permits \/ (permits > 0 /\ permits' = permits - 1)
    BY <2>1 DEF Admit, HasPermit, TakePermit
  <2>2. ASSUME NEW q \in Req, Release(q) \/ Disconnect(q)
        PROVE  permits' = IF Limit = 0 THEN permits ELSE permits + 1
    BY <2>2 DEF Release, Disconnect, DropPermit
  <2>3. ASSUME NEW q \in Req,
               \/ Arrive(q) \/ RejectAuth(q) \/ Shed(q) \/ RejectContentType(q)
               \/ Allow(q) \/ Deny(q) \/ ProviderReturns(q) \/ RecordHttp(q)
               \/ BodyFails(q) \/ RejectBody(q) \/ RejectSelector(q) \/ Decode(q)
        PROVE  permits' = permits
    BY <2>3 DEF Arrive, RejectAuth, Shed, RejectContentType, Allow, Deny,
                ProviderReturns, RecordHttp, BodyFails, RejectBody,
                RejectSelector, Decode
  <2>4. CASE \/ ReloadPolicy \/ MarkShuttingDown \/ StopAccepting \/ Exit
             \/ UNCHANGED vars
    BY <2>0, <2>4 DEF ReloadPolicy, MarkShuttingDown, StopAccepting, Exit, vars
  <2>5. ASSUME NEW q \in Req, Admit(q), Limit = 0 PROVE permits' = permits
    BY <2>5 DEF Admit, TakePermit
  <2> QED  BY <2>0, <2>1, <2>2, <2>3, <2>4, <2>5
              DEF Next, ServerStep, ClientStep, Exited
<1>2. PermitInv'
  BY PermitStep
<1>3. Cardinality(Holders') \in Nat
  <2>1. Holders' \subseteq Req
    BY DEF Holders
  <2> QED  BY <2>1, ReqAssumption, FS_Subset, FS_CardinalityType
<1> QED  BY <1>1, <1>2, <1>3, LimitAssumption DEF PermitInv, PermitsConserved

\* Every step keeps the types of the endpoint's state.
LEMMA TypeStep == TypeOK /\ PermitInv /\ [Next]_vars => TypeOK'
<1> SUFFICES ASSUME TypeOK, PermitInv, [Next]_vars PROVE TypeOK'
  OBVIOUS
<1>0. permits' \in 0 .. Limit /\ pc' \in [Req -> Labels]
  BY PermitBounds, PermitStep DEF TypeOK, PermitInv
\* Steps that move a request on.
<1>a. ASSUME UNCHANGED <<request, rules, reply, phase, history>>,
             UNCHANGED resolve_requests, IsABag(http_requests')
      PROVE  TypeOK'
  BY <1>0, <1>a DEF TypeOK, Labels, history
\* Steps that return a reply.
<1>b. ASSUME NEW q \in Req, NEW l, NEW r \in Replies, Return(q, r, l),
             UNCHANGED <<request, rules, http_requests, phase, history>>
      PROVE  TypeOK'
  <2>1. IsABag(resolve_requests')
    <3>1. /\ IsABag(resolve_requests)
          /\ resolve_requests' = resolve_requests (+) SetToBag({r})
      BY <1>b DEF Return, TypeOK
    <3> QED  BY <3>1, BagRecords DEF OneMore
  <2>2. reply' \in [Req -> Replies \cup {None}]
    BY <1>b DEF Return, TypeOK
  <2> QED  BY <1>0, <1>b, <2>1, <2>2 DEF TypeOK, Labels, history
<1>1. ASSUME NEW q \in Req, Arrive(q) PROVE TypeOK'
  <2>1. PICK body \in Requests :
          /\ request' = [request EXCEPT ![q] = body]
          /\ everAllowed' = [everAllowed EXCEPT ![q] = body.key \in rules]
          /\ everDenied' = [everDenied EXCEPT ![q] = body.key \notin rules]
    BY <1>1 DEF Arrive
  <2>2. (body.key \in rules) \in BOOLEAN /\ (body.key \notin rules) \in BOOLEAN
    OBVIOUS
  <2>3. everAllowed' \in [Req -> BOOLEAN] /\ everDenied' \in [Req -> BOOLEAN]
    BY <2>1, <2>2, FlagUpdated DEF TypeOK
  <2>4. request' \in [Req -> Requests \cup {None}]
    BY <2>1 DEF TypeOK
  <2> QED  BY <1>0, <1>1, <2>3, <2>4 DEF TypeOK, Labels, Arrive, metrics
<1>2. ASSUME NEW q \in Req, Admit(q) \/ Decode(q) \/ Allow(q) \/ Release(q)
                              \/ Disconnect(q)
      PROVE  TypeOK'
  BY <1>2, <1>a DEF Admit, Decode, Allow, Release, Disconnect, metrics, TypeOK
<1>3. ASSUME NEW q \in Req, RecordHttp(q) PROVE TypeOK'
  <2>1. IsABag(http_requests')
    <3>1. /\ IsABag(http_requests)
          /\ http_requests' = http_requests (+) SetToBag({reply[q].status})
      BY <1>3 DEF RecordHttp, TypeOK
    <3> QED  BY <3>1, BagRecords DEF OneMore
  <2> QED  BY <1>3, <1>a, <2>1 DEF RecordHttp
<1>4. ASSUME NEW q \in Req,
             \/ RejectAuth(q) \/ Shed(q) \/ RejectContentType(q)
             \/ BodyFails(q) \/ RejectBody(q) \/ Deny(q)
      PROVE  TypeOK'
  <2>1. /\ UNCHANGED <<request, rules, http_requests, phase, history>>
        /\ \E l : \E status \in {401, 503, 415, 413, 400, 403},
                     kind \in {"auth", "overloaded", "validation",
                               "policy_denied"} :
              Return(q, ReplyOf(status, kind), l)
    BY <1>4 DEF RejectAuth, Shed, RejectContentType, BodyFails, RejectBody, Deny
  <2>2. \A status \in {401, 503, 415, 413, 400, 403},
           kind \in {"auth", "overloaded", "validation", "policy_denied"} :
              ReplyOf(status, kind) \in Replies
    BY DEF ReplyOf, Replies, ErrorKinds
  <2> QED  BY <1>b, <2>1, <2>2
<1>5. ASSUME NEW q \in Req, RejectSelector(q) \/ ProviderReturns(q)
      PROVE  TypeOK'
  <2>1. /\ UNCHANGED <<request, rules, http_requests, phase, history>>
        /\ \E result : Return(q, ProviderReply(result), "release")
    BY <1>5 DEF RejectSelector, ProviderReturns
  <2> QED  BY <1>b, <2>1, ProviderReplyType
<1>6. CASE ReloadPolicy
  <2>1. everAllowed' \in [Req -> BOOLEAN] /\ everDenied' \in [Req -> BOOLEAN]
    BY <1>6, Zenon DEF ReloadPolicy, TypeOK
  <2> QED  BY <1>0, <1>6, <2>1 DEF ReloadPolicy, TypeOK, Labels, metrics
<1>7. CASE MarkShuttingDown \/ StopAccepting \/ Exit
  BY <1>0, <1>7
     DEF MarkShuttingDown, StopAccepting, Exit, TypeOK, Labels, metrics, history
<1>8. CASE UNCHANGED vars
  BY <1>8, <1>a DEF vars, history, TypeOK
<1> QED
  BY <1>1, <1>2, <1>3, <1>4, <1>5, <1>6, <1>7, <1>8
     DEF Next, ServerStep, ClientStep, Exited

\* Type correctness of the endpoint, for every cap: in particular the count
\* of the semaphore stays between zero and the cap.
THEOREM TypeCorrect == Spec => []TypeOK
<1>1. Init => TypeOK
  <2> SUFFICES ASSUME Init PROVE TypeOK
    OBVIOUS
  <2>1. IsABag(EmptyBag)
    BY DEF EmptyBag, SetToBag, IsABag
  <2> QED  BY <2>1, LimitAssumption DEF Init, TypeOK, Final
<1> QED  BY <1>1, TypeStep, PermitInvariance, PTL DEF Spec
-----------------------------------------------------------------------------
(* The counters of the endpoint.                                            *)

\* Bag B counts the values of f over the set S.
Tally(B, f, S) ==
    /\ DOMAIN B = {f[q] : q \in S}
    /\ \A k \in DOMAIN B : B[k] = Cardinality({q \in S : f[q] = k})

\* Recording the value of one more element keeps the count.
LEMMA TallyRecords ==
    ASSUME NEW S, IsFiniteSet(S), NEW f, NEW g, NEW q, q \notin S,
           \A p \in S : g[p] = f[p],
           NEW B, IsABag(B), Tally(B, f, S),
           NEW e, e = g[q], NEW C, C = B (+) SetToBag({e})
    PROVE  Tally(C, g, S \cup {q})
<1>0. OneMore(B, e, C)
  BY BagRecords
<1>1. /\ DOMAIN C = DOMAIN B \cup {e}
      /\ C[e] = (IF e \in DOMAIN B THEN B[e] ELSE 0) + 1
      /\ \A x \in DOMAIN B : x # e => C[x] = B[x]
  BY <1>0 DEF OneMore
<1>2. DOMAIN C = {g[p] : p \in S \cup {q}}
  <2>1. {g[p] : p \in S} = {f[p] : p \in S}
    OBVIOUS
  <2> QED  BY <1>1, <2>1 DEF Tally
<1>3. ASSUME NEW k \in DOMAIN C
      PROVE  C[k] = Cardinality({p \in S \cup {q} : g[p] = k})
  <2> DEFINE Before == {p \in S : f[p] = k}
             After == {p \in S \cup {q} : g[p] = k}
  <2>1. IsFiniteSet(Before) /\ q \notin Before
    BY FS_Subset
  <2>2. CASE k = g[q]
    <3>1. After = Before \cup {q}
      BY <2>2
    <3>2. Cardinality(After) = Cardinality(Before) + 1
      BY <3>1, <2>1, FS_AddElement
    <3>3. Cardinality(Before) = IF k \in DOMAIN B THEN B[k] ELSE 0
      <4>1. CASE k \in DOMAIN B
        BY <4>1 DEF Tally
      <4>2. CASE k \notin DOMAIN B
        <5>1. Before = {}
          BY <4>2 DEF Tally
        <5> QED  BY <4>2, <5>1, FS_EmptySet
      <4> QED  BY <4>1, <4>2
    <3> QED  BY <1>1, <2>2, <3>2, <3>3
  <2>3. CASE k # g[q]
    <3>1. After = Before
      BY <2>3
    <3>2. k \in DOMAIN B
      BY <1>1, <2>3
    <3> QED  BY <1>1, <2>3, <3>1, <3>2 DEF Tally
  <2> QED  BY <2>2, <2>3
<1> QED  BY <1>2, <1>3 DEF Tally

Replied == {q \in Req : reply[q] # None}
Finished == {q \in Req : pc[q] = "done"}
Statuses == [q \in Req |-> reply[q].status]

\* Each counter tallies what was replied, and a handler that is through has
\* replied.
ReplyInv ==
    /\ Tally(resolve_requests, reply, Replied)
    /\ Tally(http_requests, Statuses, Finished)
    /\ \A q \in Req : /\ NoReplyYet(q)
                      /\ pc[q] \in {"release", "respond", "done"} =>
                            reply[q] # None

\* Every step keeps the counters in agreement with the replies.
LEMMA ReplyStep == TypeOK /\ ReplyInv /\ [Next]_vars => ReplyInv'
<1> SUFFICES ASSUME TypeOK, ReplyInv, [Next]_vars PROVE ReplyInv'
  OBVIOUS
<1>0. /\ pc \in [Req -> Labels] /\ reply \in [Req -> Replies \cup {None}]
      /\ IsABag(resolve_requests) /\ IsABag(http_requests)
      /\ IsFiniteSet(Replied) /\ IsFiniteSet(Finished)
  BY ReqAssumption, FS_Subset DEF TypeOK, Labels, Replied, Finished
\* Steps that neither reply nor record.
<1>a. ASSUME NEW q \in Req, NEW l \in Labels \ {"idle", "done"}, Goto(q, l),
             pc[q] # "done", UNCHANGED <<reply, metrics>>,
             l \in {"release", "respond"} => reply[q] # None,
             l \in {"auth", "decode", "policy", "provider"} => reply[q] = None
      PROVE  ReplyInv'
  <2>1. Replied' = Replied /\ Finished' = Finished /\ Statuses' = Statuses
    BY <1>0, <1>a DEF Replied, Finished, Statuses, Goto
  <2>2. \A p \in Req :
           /\ NoReplyYet(p)'
           /\ pc'[p] \in {"release", "respond", "done"} => reply'[p] # None
    BY <1>0, <1>a DEF Goto, NoReplyYet, ReplyInv
  <2> QED  BY <1>a, <2>1, <2>2 DEF ReplyInv, metrics
\* Steps that return a reply.
<1>b. ASSUME NEW q \in Req, NEW l \in {"release", "respond"}, NEW r \in Replies,
             Return(q, r, l), http_requests' = http_requests,
             pc[q] \in {"auth", "decode", "policy", "provider"}
      PROVE  ReplyInv'
  <2>1. /\ reply[q] = None /\ r # None
        /\ reply' = [reply EXCEPT ![q] = r] /\ pc' = [pc EXCEPT ![q] = l]
        /\ resolve_requests' = resolve_requests (+) SetToBag({r})
    BY <1>b, NoneIsNoReply DEF Return, Goto, ReplyInv, NoReplyYet
  <2>2. Replied' = Replied \cup {q} /\ q \notin Replied /\ r = reply'[q]
    BY <1>0, <2>1 DEF Replied
  <2>3. \A p \in Replied : reply'[p] = reply[p]
    BY <1>0, <2>1, <2>2 DEF Replied
  <2>4. Tally(resolve_requests', reply', Replied')
    <3>1. Tally(resolve_requests, reply, Replied)
      BY DEF ReplyInv
    <3>2. Tally(resolve_requests', reply', Replied \cup {q})
      BY <1>0, <2>1, <2>2, <2>3, <3>1, TallyRecords
    <3> QED  BY <2>2, <3>2
  <2>5. Finished' = Finished /\ q \notin Finished
    BY <1>0, <1>b, <2>1 DEF Finished
  <2>6. Tally(http_requests', Statuses', Finished')
    <3>1. \A p \in Finished : Statuses'[p] = Statuses[p]
      BY <1>0, <2>1, <2>5 DEF Statuses, Finished
    <3>2. {Statuses'[p] : p \in Finished} = {Statuses[p] : p \in Finished}
      BY <3>1
    <3>3. \A k : {p \in Finished : Statuses'[p] = k}
                    = {p \in Finished : Statuses[p] = k}
      BY <3>1
    <3> QED  BY <1>b, <2>5, <3>2, <3>3 DEF ReplyInv, Tally
  <2>7. \A p \in Req :
           /\ NoReplyYet(p)'
           /\ pc'[p] \in {"release", "respond", "done"} => reply'[p] # None
    BY <1>0, <1>b, <2>1 DEF NoReplyYet, ReplyInv
  <2> QED  BY <2>4, <2>6, <2>7 DEF ReplyInv
<1>1. ASSUME NEW q \in Req, Arrive(q) PROVE ReplyInv'
  BY <1>1, <1>a DEF Arrive, Labels, Final, ReplyInv, NoReplyYet
<1>2. ASSUME NEW q \in Req, Admit(q) \/ Decode(q) \/ Allow(q)
      PROVE  ReplyInv'
  BY <1>2, <1>a DEF Admit, Decode, Allow, Labels, Final, ReplyInv, NoReplyYet
<1>3. ASSUME NEW q \in Req, Release(q) \/ Disconnect(q) PROVE ReplyInv'
  BY <1>3, <1>a DEF Release, Disconnect, Labels, Final, ReplyInv
<1>4. ASSUME NEW q \in Req, RecordHttp(q) PROVE ReplyInv'
  <2>1. /\ pc[q] = "respond" /\ pc' = [pc EXCEPT ![q] = "done"]
        /\ reply' = reply /\ resolve_requests' = resolve_requests
        /\ http_requests' = http_requests (+) SetToBag({Statuses[q]})
    BY <1>4 DEF RecordHttp, Goto, Statuses
  <2>2. Finished' = Finished \cup {q} /\ q \notin Finished
    BY <1>0, <2>1 DEF Finished
  <2>3. Statuses' = Statuses /\ Replied' = Replied
    BY <2>1 DEF Statuses, Replied
  <2>4. Tally(http_requests', Statuses', Finished')
    <3>1. Tally(http_requests, Statuses, Finished)
      BY DEF ReplyInv
    <3>2. Tally(http_requests', Statuses, Finished \cup {q})
      BY <1>0, <2>1, <2>2, <3>1, TallyRecords
    <3> QED  BY <2>2, <2>3, <3>2
  <2>5. \A p \in Req :
           /\ NoReplyYet(p)'
           /\ pc'[p] \in {"release", "respond", "done"} => reply'[p] # None
    BY <1>0, <2>1 DEF NoReplyYet, ReplyInv
  <2> QED  BY <2>1, <2>3, <2>4, <2>5 DEF ReplyInv
<1>5. ASSUME NEW q \in Req,
             \/ RejectAuth(q) \/ Shed(q) \/ RejectContentType(q)
             \/ BodyFails(q) \/ RejectBody(q) \/ Deny(q)
      PROVE  ReplyInv'
  <2>1. /\ pc[q] \in {"auth", "decode", "policy", "provider"}
        /\ http_requests' = http_requests
        /\ \E l \in {"release", "respond"} :
              \E status \in {401, 503, 415, 413, 400, 403},
                 kind \in {"auth", "overloaded", "validation",
                           "policy_denied"} :
                 Return(q, ReplyOf(status, kind), l)
    BY <1>5 DEF RejectAuth, Shed, RejectContentType, BodyFails, RejectBody, Deny
  <2>2. \A status \in {401, 503, 415, 413, 400, 403},
           kind \in {"auth", "overloaded", "validation", "policy_denied"} :
              ReplyOf(status, kind) \in Replies
    BY DEF ReplyOf, Replies, ErrorKinds
  <2> QED  BY <1>b, <2>1, <2>2
<1>6. ASSUME NEW q \in Req, RejectSelector(q) \/ ProviderReturns(q)
      PROVE  ReplyInv'
  <2>1. /\ pc[q] \in {"auth", "decode", "policy", "provider"}
        /\ http_requests' = http_requests
        /\ \E result : Return(q, ProviderReply(result), "release")
    BY <1>6 DEF RejectSelector, ProviderReturns
  <2> QED  BY <1>b, <2>1, ProviderReplyType
<1>7. CASE \/ ReloadPolicy \/ MarkShuttingDown \/ StopAccepting \/ Exit
           \/ UNCHANGED vars
  <2>1. UNCHANGED <<pc, reply, resolve_requests, http_requests>>
    BY <1>7 DEF ReloadPolicy, MarkShuttingDown, StopAccepting, Exit, metrics, vars
  <2> QED  BY <2>1 DEF ReplyInv, Replied, Finished, Statuses, NoReplyYet
<1> QED
  BY <1>1, <1>2, <1>3, <1>4, <1>5, <1>6, <1>7
     DEF Next, ServerStep, ClientStep, Exited

\* The replies' invariant holds in every reachable state.
LEMMA ReplyInvariance == Spec => []ReplyInv
<1>1. Init => ReplyInv
  <2> SUFFICES ASSUME Init PROVE ReplyInv
    OBVIOUS
  <2>1. Replied = {} /\ Finished = {}
    BY DEF Init, Replied, Finished
  <2>2. DOMAIN resolve_requests = {} /\ DOMAIN http_requests = {}
    BY DEF Init, EmptyBag, SetToBag
  <2> QED  BY <2>1, <2>2 DEF Init, ReplyInv, Tally, NoReplyYet
<1> QED  BY <1>1, ReplyStep, TypeCorrect, PTL DEF Spec

\* record_resolve_request and record_http_metrics agree with what clients were
\* told, for every number of requests and however they end: each reply is
\* counted once by either, and a dropped request by neither.
THEOREM RecordsAreExact == Spec => []RepliesRecorded
<1>1. TypeOK /\ ReplyInv => RepliesRecorded
  <2> SUFFICES ASSUME TypeOK, ReplyInv PROVE RepliesRecorded
    OBVIOUS
  <2> DEFINE finished == {q \in Req : pc[q] = "done"}
  <2>1. BagToSet(resolve_requests) = DOMAIN resolve_requests
        /\ BagToSet(http_requests) = DOMAIN http_requests
    BY DEF BagToSet
  <2>2. {reply[q] : q \in Req} \ {None} = {reply[q] : q \in Replied}
    BY DEF Replied
  <2>3. \A k \in DOMAIN resolve_requests :
           {q \in Req : reply[q] = k} = {q \in Replied : reply[q] = k}
    BY <2>2 DEF Replied, ReplyInv, Tally
  <2>4. {Statuses[q] : q \in Finished} = {reply[q].status : q \in finished}
    BY DEF Statuses, Finished
  <2>5. \A s : {q \in Finished : Statuses[q] = s}
                 = {q \in finished : reply[q].status = s}
    BY DEF Statuses, Finished
  <2> QED  BY <2>1, <2>2, <2>3, <2>4, <2>5 DEF RepliesRecorded, ReplyInv, Tally
<1> QED  BY <1>1, TypeCorrect, ReplyInvariance, PTL
=============================================================================

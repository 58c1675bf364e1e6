------------------------------- MODULE Webhook -------------------------------
(***************************************************************************)
(* The /v1/resolve endpoint: authentication, the concurrency cap, body and  *)
(* selector validation, the policy check, the provider call, and the two    *)
(* metric records of a request, while the policy is reloaded, clients go    *)
(* away and the server shuts down.                                          *)
(*                                                                          *)
(* A request is handled by one task.  It is suspended, and can be dropped,  *)
(* only while it reads the body and while the provider works; its other     *)
(* steps interleave with those of other tasks because the runtime has       *)
(* several threads.  The provider call is the calls of SyncCache followed   *)
(* by the lookup of ItemLookup: here it ends with any of their results.     *)
(***************************************************************************)
EXTENDS Integers, FiniteSets, Bags

CONSTANTS
    Req,       \* requests that may arrive
    Requests,  \* what a request may contain
    Limit,     \* resolve_concurrency_limit; 0 is no cap
    Token,     \* the configured bearer token, or None when auth is disabled
    Policies,  \* sets of selector keys that evaluated policies allow
    Results,   \* what the provider may return: "ok" or an error
    None

ASSUME LimitAssumption == Limit \in Nat
ASSUME ReqAssumption == IsFiniteSet(Req)

\* What BitwardenSelector::try_from may return as its error.
SelectorErrors ==
    {"Validation", "UnsupportedVersionSelector", "UnprefixedSelectorKey"}

ASSUME RequestsAssumption ==
    \A body \in Requests :
        body.body = "bad_selector" => body.selector_error \in SelectorErrors

VARIABLES
    pc,                 \* pc[q]: the await or the step request q is at
    request,            \* request[q]: headers, body and selector of q
    permits,            \* permits left in resolve_semaphore
    rules,              \* the keys the policy in force allows
    reply,              \* reply[q]: status, outcome and error_kind, or None
    resolve_requests,   \* bag of the replies resolve() recorded
    http_requests,      \* bag of the statuses the middleware recorded
    phase,              \* what the server is doing
    everAllowed,        \* q's key was allowed at a moment since q arrived
    everDenied          \* and was denied at one (history)

vars == <<pc, request, permits, rules, reply, resolve_requests, http_requests,
          phase, everAllowed, everDenied>>

metrics == <<resolve_requests, http_requests>>
history == <<everAllowed, everDenied>>

Final == {"done", "cancelled"}

-----------------------------------------------------------------------------
(* Replies.                                                                 *)

ReplyOf(status, error_kind) ==
    [status |-> status,
     outcome |-> IF status = 200 THEN "success" ELSE "error",
     error_kind |-> error_kind]

\* The values the error_kind label can take.
ErrorKinds ==
    {"none", "auth", "overloaded", "validation", "unsupported_version",
     "policy_denied", "not_found", "ambiguous_selector",
     "unsupported_attachment", "unsupported_shared_item", "upstream_http",
     "upstream_status", "crypto", "key_derivation", "kdf_parameters",
     "sync_payload", "endpoint"}

Replies == [status : 200 .. 503, outcome : {"success", "error"},
            error_kind : ErrorKinds]

ASSUME NoneIsNoReply == None \notin Replies

\* provider_status_and_kind, for the errors of the selector and the provider.
ProviderReply(result) ==
    CASE result = "ok" -> ReplyOf(200, "none")
      [] result \in {"Validation", "BlankProperty", "UnprefixedSelectorKey"} ->
            ReplyOf(400, "validation")
      [] result = "UnsupportedVersionSelector" ->
            ReplyOf(400, "unsupported_version")
      [] result \in {"MissingProperty", "CipherNotFound"} ->
            ReplyOf(404, "not_found")
      [] result = "UnsupportedAttachment" ->
            ReplyOf(422, "unsupported_attachment")
      [] result = "AmbiguousCipherName" -> ReplyOf(409, "ambiguous_selector")
      [] result = "UnsupportedSharedItem" ->
            ReplyOf(422, "unsupported_shared_item")
      [] result = "Http" -> ReplyOf(502, "upstream_http")
      [] result = "HttpStatus" -> ReplyOf(502, "upstream_status")
      [] result \in {"Crypto", "NoExtractableFields"} -> ReplyOf(500, "crypto")
      [] result = "KeyDerivation" -> ReplyOf(500, "key_derivation")
      [] result \in {"UnsupportedKdfType", "MissingKdfParameter"} ->
            ReplyOf(500, "kdf_parameters")
      [] result \in {"MissingMasterPasswordUnlock",
                     "MissingMasterKeyWrappedUserKey", "MissingCachedSync"} ->
            ReplyOf(500, "sync_payload")
      [] OTHER -> ReplyOf(500, "endpoint")

Init ==
    /\ pc = [q \in Req |-> "idle"]
    /\ request = [q \in Req |-> None]
    /\ permits = Limit
    /\ rules \in Policies
    /\ reply = [q \in Req |-> None]
    /\ resolve_requests = EmptyBag
    /\ http_requests = EmptyBag
    /\ phase = "serving"
    /\ everAllowed = [q \in Req |-> FALSE]
    /\ everDenied = [q \in Req |-> FALSE]

-----------------------------------------------------------------------------
(* The handler.                                                             *)

InProgress(q) == pc[q] \notin Final \cup {"idle"}

Goto(q, label) == pc' = [pc EXCEPT ![q] = label]

\* record_resolve_request, then the handler returns that reply.
Return(q, r, label) ==
    /\ reply' = [reply EXCEPT ![q] = r]
    /\ resolve_requests' = resolve_requests (+) SetToBag({r})
    /\ Goto(q, label)

HasPermit == Limit = 0 \/ permits > 0
TakePermit == permits' = IF Limit = 0 THEN permits ELSE permits - 1
DropPermit == permits' = IF Limit = 0 THEN permits ELSE permits + 1

\* An absent, malformed or wrong Authorization header is no token of ours.
IsAuthorized(q) == Token = None \/ request[q].token = Token

\* The server hands a request to the router and the middleware to resolve().
Arrive(q) ==
    /\ pc[q] = "idle"
    /\ phase \in {"serving", "shutting_down"}
    /\ \E body \in Requests :
          /\ request' = [request EXCEPT ![q] = body]
          /\ everAllowed' = [everAllowed EXCEPT ![q] = body.key \in rules]
          /\ everDenied' = [everDenied EXCEPT ![q] = body.key \notin rules]
    /\ Goto(q, "auth")
    /\ UNCHANGED <<permits, rules, reply, metrics, phase>>

RejectAuth(q) ==
    /\ pc[q] = "auth"
    /\ ~IsAuthorized(q)
    /\ Return(q, ReplyOf(401, "auth"), "respond")
    /\ UNCHANGED <<request, permits, rules, http_requests, phase, history>>

Admit(q) ==
    /\ pc[q] = "auth"
    /\ IsAuthorized(q)
    /\ HasPermit
    /\ TakePermit
    /\ Goto(q, "decode")
    /\ UNCHANGED <<request, rules, reply, metrics, phase, history>>

\* Mutants: the shed reply is not recorded, and the request waits for a permit.
ShedUnrecorded(q) ==
    /\ pc[q] = "auth"
    /\ IsAuthorized(q)
    /\ ~HasPermit
    /\ reply' = [reply EXCEPT ![q] = ReplyOf(503, "overloaded")]
    /\ Goto(q, "respond")
    /\ UNCHANGED <<request, permits, rules, metrics, phase, history>>

ShedNever(q) == FALSE /\ UNCHANGED <<vars, q>>

Shed(q) ==
    /\ pc[q] = "auth"
    /\ IsAuthorized(q)
    /\ ~HasPermit
    /\ Return(q, ReplyOf(503, "overloaded"), "respond")
    /\ UNCHANGED <<request, permits, rules, http_requests, phase, history>>

RejectContentType(q) ==
    /\ pc[q] = "decode"
    /\ ~request[q].json
    /\ Return(q, ReplyOf(415, "validation"), "release")
    /\ UNCHANGED <<request, permits, rules, http_requests, phase, history>>

\* to_bytes fails: the body exceeds the limit, or it breaks off.
BodyFails(q) ==
    /\ pc[q] = "decode"
    /\ request[q].json
    /\ Return(q, ReplyOf(413, "validation"), "release")
    /\ UNCHANGED <<request, permits, rules, http_requests, phase, history>>

\* The whole body is there, but it is no ResolveRequest.
RejectBody(q) ==
    /\ pc[q] = "decode"
    /\ request[q].json
    /\ request[q].body = "malformed"
    /\ Return(q, ReplyOf(400, "validation"), "release")
    /\ UNCHANGED <<request, permits, rules, http_requests, phase, history>>

RejectSelector(q) ==
    /\ pc[q] = "decode"
    /\ request[q].json
    /\ request[q].body = "bad_selector"
    /\ Return(q, ProviderReply(request[q].selector_error), "release")
    /\ UNCHANGED <<request, permits, rules, http_requests, phase, history>>

Decode(q) ==
    /\ pc[q] = "decode"
    /\ request[q].json
    /\ request[q].body = "selector"
    /\ Goto(q, "policy")
    /\ UNCHANGED <<request, permits, rules, reply, metrics, phase, history>>

\* Mutant: rules that have been replaced still count.
AllowReplacedRules(q) ==
    /\ pc[q] = "policy"
    /\ request[q].key \in UNION Policies
    /\ Goto(q, "provider")
    /\ UNCHANGED <<request, permits, rules, reply, metrics, phase, history>>

\* allows() on the rules in force at this moment; no lock is kept.
Allow(q) ==
    /\ pc[q] = "policy"
    /\ request[q].key \in rules
    /\ Goto(q, "provider")
    /\ UNCHANGED <<request, permits, rules, reply, metrics, phase, history>>

Deny(q) ==
    /\ pc[q] = "policy"
    /\ request[q].key \notin rules
    /\ Return(q, ReplyOf(403, "policy_denied"), "release")
    /\ UNCHANGED <<request, permits, rules, http_requests, phase, history>>

ProviderReturns(q) ==
    /\ pc[q] = "provider"
    /\ \E result \in Results : Return(q, ProviderReply(result), "release")
    /\ UNCHANGED <<request, permits, rules, http_requests, phase, history>>

\* Mutant: the permit is given back twice.
ReleaseTwice(q) ==
    /\ pc[q] = "release"
    /\ permits' = IF Limit = 0 THEN permits ELSE permits + 2
    /\ Goto(q, "respond")
    /\ UNCHANGED <<request, rules, reply, metrics, phase, history>>

\* The handler's locals are dropped, _permit with them.
Release(q) ==
    /\ pc[q] = "release"
    /\ DropPermit
    /\ Goto(q, "respond")
    /\ UNCHANGED <<request, rules, reply, metrics, phase, history>>

\* record_http_metrics, after next.run(request).
RecordHttp(q) ==
    /\ pc[q] = "respond"
    /\ http_requests' = http_requests (+) SetToBag({reply[q].status})
    /\ Goto(q, "done")
    /\ UNCHANGED <<request, permits, rules, reply, resolve_requests, phase,
                   history>>

\* Mutant: the permit is not given back when the future is dropped.
DisconnectLeaky(q) ==
    /\ \/ pc[q] = "decode" /\ request[q].json
       \/ pc[q] = "provider"
    /\ Goto(q, "cancelled")
    /\ UNCHANGED <<request, permits, rules, reply, metrics, phase, history>>

\* The client goes away at an await: the handler and the middleware are
\* dropped, and nothing is recorded.
Disconnect(q) ==
    /\ \/ pc[q] = "decode" /\ request[q].json
       \/ pc[q] = "provider"
    /\ DropPermit
    /\ Goto(q, "cancelled")
    /\ UNCHANGED <<request, rules, reply, metrics, phase, history>>

-----------------------------------------------------------------------------
(* The rest of the process.                                                 *)

\* SelectorPolicy::reload swaps the rules under the handlers' feet.
ReloadPolicy ==
    /\ phase = "serving"
    /\ rules' \in Policies \ {rules}
    /\ everAllowed' = [q \in Req |->
          everAllowed[q] \/ (InProgress(q) /\ request[q].key \in rules')]
    /\ everDenied' = [q \in Req |->
          everDenied[q] \/ (InProgress(q) /\ request[q].key \notin rules')]
    /\ UNCHANGED <<pc, request, permits, reply, metrics, phase>>

\* shutdown_signal marks the lifecycle, then the server stops accepting,
\* then it ends once the requests it has accepted are over.
MarkShuttingDown ==
    /\ phase = "serving"
    /\ phase' = "shutting_down"
    /\ UNCHANGED <<pc, request, permits, rules, reply, metrics, history>>

StopAccepting ==
    /\ phase = "shutting_down"
    /\ phase' = "draining"
    /\ UNCHANGED <<pc, request, permits, rules, reply, metrics, history>>

\* Mutant: connections that are idle are waited for as well.
ExitWhenAllClosed ==
    /\ phase = "draining"
    /\ \A q \in Req : pc[q] \in Final
    /\ phase' = "exited"
    /\ UNCHANGED <<pc, request, permits, rules, reply, metrics, history>>

Exit ==
    /\ phase = "draining"
    /\ \A q \in Req : pc[q] \in Final \cup {"idle"}
    /\ phase' = "exited"
    /\ UNCHANGED <<pc, request, permits, rules, reply, metrics, history>>

Exited == phase = "exited" /\ UNCHANGED vars

\* Steps that need nothing from the client.
ServerStep(q) ==
    \/ RejectAuth(q) \/ Admit(q) \/ Shed(q)
    \/ RejectContentType(q)
    \/ Allow(q) \/ Deny(q) \/ ProviderReturns(q)
    \/ Release(q) \/ RecordHttp(q)

\* Steps that happen when the client sends its body or goes away.
ClientStep(q) ==
    \/ BodyFails(q) \/ RejectBody(q) \/ RejectSelector(q) \/ Decode(q)
    \/ Disconnect(q)

Next ==
    \/ \E q \in Req : Arrive(q) \/ ServerStep(q) \/ ClientStep(q)
    \/ ReloadPolicy
    \/ MarkShuttingDown \/ StopAccepting \/ Exit \/ Exited

Spec == Init /\ [][Next]_vars

(***************************************************************************)
(* Fairness: the runtime polls a handler that can run, and a provider call  *)
(* ends (SyncCache!EveryCallEnds).  Clients may withhold a body forever:    *)
(* to_bytes has no timeout.                                                 *)
(***************************************************************************)
FairSpec ==
    /\ Spec
    /\ \A q \in Req : WF_vars(ServerStep(q))
    /\ WF_vars(StopAccepting) /\ WF_vars(Exit)
-----------------------------------------------------------------------------
(* Properties.                                                              *)

\* Type correctness of the endpoint's state.
TypeOK ==
    /\ pc \in [Req -> {"idle", "auth", "decode", "policy", "provider",
                       "release", "respond"} \cup Final]
    /\ request \in [Req -> Requests \cup {None}]
    /\ permits \in 0 .. Limit
    /\ rules \in Policies
    /\ reply \in [Req -> Replies \cup {None}]
    /\ IsABag(resolve_requests) /\ IsABag(http_requests)
    /\ phase \in {"serving", "shutting_down", "draining", "exited"}
    /\ everAllowed \in [Req -> BOOLEAN] /\ everDenied \in [Req -> BOOLEAN]

\* Requests that are between try_acquire_owned and the drop of _permit.
Holders == {q \in Req : pc[q] \in {"decode", "policy", "provider", "release"}}

\* The cap neither leaks nor overshoots: however requests end, by a reply, an
\* error or a dropped future, the permits that are not in the semaphore are
\* exactly those of the requests being handled, so at most Limit are.
PermitsConserved ==
    Limit # 0 => permits + Cardinality(Holders) = Limit

\* A request is answered from the vault only if the policy allowed its key at
\* some moment of the request, and is refused only if it denied it at some
\* moment: a reload takes effect for every request that arrives after it.
PolicyRespected ==
    \A q \in Req :
        /\ pc[q] = "provider" \/ (reply[q] # None /\ reply[q].status = 200) =>
              everAllowed[q]
        /\ reply[q] # None /\ reply[q].error_kind = "policy_denied" =>
              everDenied[q]

\* Both counters agree with what clients were told: each reply is counted
\* once as a resolution, and once as an HTTP request when the middleware is
\* through; a request whose client went away is counted in neither.
RepliesRecorded ==
    LET finished == {q \in Req : pc[q] = "done"} IN
    /\ BagToSet(resolve_requests) = {reply[q] : q \in Req} \ {None}
    /\ \A k \in BagToSet(resolve_requests) :
          resolve_requests[k] = Cardinality({q \in Req : reply[q] = k})
    /\ BagToSet(http_requests) = {reply[q].status : q \in finished}
    /\ \A s \in BagToSet(http_requests) :
          http_requests[s] =
              Cardinality({q \in finished : reply[q].status = s})

\* Load is shed, not queued: whatever other clients do, also those that hold
\* permits and never send their body, a request comes to its end or waits
\* for its own client.
NeverBlocked ==
    \A q \in Req :
        pc[q] \in {"auth", "policy"} ~> pc[q] \in Final \cup {"decode"}

\* Only a client that withholds its body can hold up the shutdown.
Drains ==
    phase = "shutting_down" ~>
        phase = "exited" \/ \E q \in Req : pc[q] = "decode"
=============================================================================

---------------------------- MODULE StartupProofs ----------------------------
(***************************************************************************)
(* Proofs about main(), for every configuration and every header: the      *)
(* process serves exactly the acceptable configurations, authorizes        *)
(* exactly the requests that present the configured token, and sends its   *)
(* requests exactly to the configured URLs.                                *)
(***************************************************************************)
EXTENDS Startup, SequenceTheorems, WellFoundedInduction, TLAPS

-----------------------------------------------------------------------------
(* Reading options.                                                         *)

OptionSources ==
    [inline : Texts \cup {None},
     file : [readable : BOOLEAN, text : Texts] \cup {None}]

\* The text of a usable source.
Given(source) ==
    IF source.inline # None THEN source.inline
    ELSE TrimEndNewlines(source.file.text)

\* A result is an error or a value.
LEMMA ErrorFails == ASSUME NEW e PROVE Failed([error |-> e])
BY DEF Failed

LEMMA ValueSucceeds ==
    ASSUME NEW v PROVE ~Failed([value |-> v]) /\ [value |-> v].value = v
BY DEF Failed

\* Trimming newlines gives a text with the same core.
LEMMA TrimmedText ==
    ASSUME NEW text \in Texts
    PROVE  /\ TrimEndNewlines(text) \in Texts
           /\ TrimEndNewlines(text).core = text.core
           /\ TrimEndNewlines(text).lead = text.lead
           /\ TrimEndNewlines(text).trail \in {"", "sp", "nl sp"}
           /\ TrimEndNewlines(text).trail = "" <=> text.trail \in {"", "nl"}
BY DEF TrimEndNewlines, Texts

\* read_optional_sensitive_arg gives the text of a usable source, nothing when
\* neither option is there, and an error otherwise.
LEMMA ReadOptional ==
    ASSUME NEW s \in OptionSources
    PROVE  /\ Usable(s) => /\ ReadOptionalSensitiveArg(s) = [value |-> Given(s)]
                           /\ Given(s) \in Texts
           /\ s.inline = None /\ s.file = None =>
                 ReadOptionalSensitiveArg(s) = [value |-> None]
           /\ ~Usable(s) /\ ~(s.inline = None /\ s.file = None) =>
                 \E e : ReadOptionalSensitiveArg(s) = [error |-> e]
<1>1. CASE s.inline # None /\ s.file # None
  <2>1. ReadOptionalSensitiveArg(s) = [error |-> "both"]
    BY <1>1 DEF ReadOptionalSensitiveArg
  <2> QED  BY <1>1, <2>1 DEF Usable
<1>2. CASE s.inline # None /\ s.file = None
  <2>1. IsBlank(s.inline) => ReadOptionalSensitiveArg(s) = [error |-> "blank"]
    BY <1>2 DEF ReadOptionalSensitiveArg
  <2>2. ~IsBlank(s.inline) => ReadOptionalSensitiveArg(s) = [value |-> s.inline]
    BY <1>2 DEF ReadOptionalSensitiveArg
  <2>3. Given(s) = s.inline /\ s.inline \in Texts
    BY <1>2 DEF Given, OptionSources
  <2>4. Usable(s) <=> ~IsBlank(s.inline)
    BY <1>2 DEF Usable, IsBlank
  <2> QED  BY <1>2, <2>1, <2>2, <2>3, <2>4
<1>3. CASE s.inline = None /\ s.file # None
  <2>1. ~s.file.readable =>
           ReadOptionalSensitiveArg(s) = [error |-> "unreadable"]
    BY <1>3 DEF ReadOptionalSensitiveArg
  <2>2. s.file.readable /\ IsBlank(s.file.text) =>
           ReadOptionalSensitiveArg(s) = [error |-> "blank"]
    BY <1>3 DEF ReadOptionalSensitiveArg
  <2>3. s.file.readable /\ ~IsBlank(s.file.text) =>
           ReadOptionalSensitiveArg(s)
             = [value |-> TrimEndNewlines(s.file.text)]
    BY <1>3 DEF ReadOptionalSensitiveArg
  <2>4. Given(s) = TrimEndNewlines(s.file.text) /\ s.file.text \in Texts
    BY <1>3 DEF Given, OptionSources
  <2>5. Given(s) \in Texts
    BY <2>4, TrimmedText
  <2>6. Usable(s) <=> s.file.readable /\ ~IsBlank(s.file.text)
    BY <1>3 DEF Usable, IsBlank
  <2> QED  BY <1>3, <2>1, <2>2, <2>3, <2>4, <2>5, <2>6
<1>4. CASE s.inline = None /\ s.file = None
  <2>1. ReadOptionalSensitiveArg(s) = [value |-> None]
    BY <1>4 DEF ReadOptionalSensitiveArg
  <2> QED  BY <1>4, <2>1 DEF Usable
<1> QED  BY <1>1, <1>2, <1>3, <1>4

\* read_sensitive_arg accepts exactly the usable sources.
LEMMA ReadRequired ==
    ASSUME NEW s \in OptionSources
    PROVE  /\ Failed(ReadSensitiveArg(s)) <=> ~Usable(s)
           /\ Usable(s) => ReadSensitiveArg(s).value = Given(s)
<1> DEFINE r == ReadOptionalSensitiveArg(s)
<1>0. ReadSensitiveArg(s) = IF ~Failed(r) /\ r.value = None
                            THEN [error |-> "missing"] ELSE r
  BY DEF ReadSensitiveArg
<1> HIDE DEF r
<1>1. CASE Usable(s)
  <2>1. r = [value |-> Given(s)] /\ Given(s) # None
    BY <1>1, ReadOptional, NoneIsNoText DEF r
  <2>2. ~Failed(r) /\ r.value = Given(s)
    BY <2>1, ValueSucceeds
  <2> QED  BY <1>0, <1>1, <2>1, <2>2
<1>2. CASE s.inline = None /\ s.file = None
  <2>1. r = [value |-> None]
    BY <1>2, ReadOptional DEF r
  <2>2. ReadSensitiveArg(s) = [error |-> "missing"]
    BY <1>0, <2>1, ValueSucceeds
  <2> QED  BY <1>2, <2>2, ErrorFails DEF Usable
<1>3. CASE ~Usable(s) /\ ~(s.inline = None /\ s.file = None)
  <2>1. PICK e : r = [error |-> e]
    BY <1>3, ReadOptional DEF r
  <2>2. Failed(r)
    BY <2>1, ErrorFails
  <2> QED  BY <1>0, <1>3, <2>2
<1> QED  BY <1>1, <1>2, <1>3

\* The webhook authentication of a configuration.
AuthChosen(c) ==
    \/ Usable(c.webhook_auth_token) /\ ~c.insecure_allow_unauthenticated
    \/ /\ c.webhook_auth_token = [inline |-> None, file |-> None]
       /\ c.insecure_allow_unauthenticated

AuthOf(c) ==
    IF c.insecure_allow_unauthenticated THEN [mode |-> "DisabledInsecure"]
    ELSE [mode |-> "Required", token |-> Given(c.webhook_auth_token)]

\* WebhookAuth::from_args wants a token or an explicit waiver, not both.
LEMMA AuthAccepted ==
    ASSUME args.webhook_auth_token \in OptionSources,
           args.insecure_allow_unauthenticated \in BOOLEAN
    PROVE  /\ Failed(WebhookAuthFromArgs) <=> ~AuthChosen(args)
           /\ AuthChosen(args) => WebhookAuthFromArgs = AuthOf(args)
<1> DEFINE s == args.webhook_auth_token
           insecure == args.insecure_allow_unauthenticated
           token == ReadOptionalSensitiveArg(s)
<1>0. s \in OptionSources /\ insecure \in BOOLEAN
  OBVIOUS
<1>1. CASE Usable(s)
  <2>1. token = [value |-> Given(s)] /\ Given(s) # None
    BY <1>0, <1>1, ReadOptional, NoneIsNoText
  <2>2. ~Failed(token) /\ token.value = Given(s)
    BY <2>1, ValueSucceeds
  <2>3. s # [inline |-> None, file |-> None]
    <3>1. s.inline # None \/ s.file # None
      BY <1>1 DEF Usable
    <3> HIDE DEF s
    <3> QED  BY <3>1
  <2>4. CASE insecure
    <3>1. WebhookAuthFromArgs = [error |-> "both"]
      BY <2>1, <2>2, <2>4 DEF WebhookAuthFromArgs
    <3> QED  BY <2>3, <2>4, <3>1, ErrorFails DEF AuthChosen
  <2>5. CASE ~insecure
    <3>1. WebhookAuthFromArgs = [mode |-> "Required", token |-> Given(s)]
      BY <2>1, <2>2, <2>5 DEF WebhookAuthFromArgs
    <3>2. ~Failed(WebhookAuthFromArgs)
      BY <3>1 DEF Failed
    <3> QED  BY <1>1, <2>5, <3>1, <3>2 DEF AuthChosen, AuthOf
  <2> QED  BY <2>4, <2>5
<1>2. CASE s.inline = None /\ s.file = None
  <2>1. token = [value |-> None]
    BY <1>0, <1>2, ReadOptional
  <2>2. ~Failed(token) /\ token.value = None
    BY <2>1, ValueSucceeds
  <2>3. s = [inline |-> None, file |-> None] /\ ~Usable(s)
    BY <1>0, <1>2 DEF Usable, OptionSources
  <2>4. CASE insecure
    <3>1. WebhookAuthFromArgs = [mode |-> "DisabledInsecure"]
      BY <2>1, <2>2, <2>4 DEF WebhookAuthFromArgs
    <3>2. ~Failed(WebhookAuthFromArgs)
      BY <3>1 DEF Failed
    <3> QED  BY <2>3, <2>4, <3>1, <3>2 DEF AuthChosen, AuthOf
  <2>5. CASE ~insecure
    <3>1. WebhookAuthFromArgs = [error |-> "no authentication"]
      BY <2>1, <2>2, <2>5 DEF WebhookAuthFromArgs
    <3> QED  BY <2>3, <2>5, <3>1, ErrorFails DEF AuthChosen
  <2> QED  BY <2>4, <2>5
<1>3. CASE ~Usable(s) /\ ~(s.inline = None /\ s.file = None)
  <2>1. PICK e : token = [error |-> e]
    BY <1>0, <1>3, ReadOptional
  <2>2. Failed(token)
    BY <2>1, ErrorFails
  <2>3. WebhookAuthFromArgs = token
    BY <2>2 DEF WebhookAuthFromArgs
  <2>4. ~AuthChosen(args)
    BY <1>3 DEF AuthChosen
  <2> QED  BY <2>2, <2>3, <2>4
<1> QED  BY <1>1, <1>2, <1>3

-----------------------------------------------------------------------------
(* The upstream bases.                                                      *)

\* The clause of Acceptable about the URL options.
UrlsChosen(c) ==
    LET given == {u \in {"single_origin_url", "identity_url", "api_url"} :
                    c[u] # None}
    IN  /\ given \in {{"single_origin_url"}, {"identity_url", "api_url"}}
        /\ \A u \in given : Secure(c[u])

\* It, option by option.
LEMMA UrlOptions ==
    ASSUME NEW c
    PROVE  UrlsChosen(c) <=>
              \/ /\ c.single_origin_url # None /\ Secure(c.single_origin_url)
                 /\ c.identity_url = None /\ c.api_url = None
              \/ /\ c.single_origin_url = None
                 /\ c.identity_url # None /\ Secure(c.identity_url)
                 /\ c.api_url # None /\ Secure(c.api_url)
<1> DEFINE given == {u \in {"single_origin_url", "identity_url", "api_url"} :
                       c[u] # None}
<1>1. given = {"single_origin_url"} <=>
         /\ c.single_origin_url # None
         /\ c.identity_url = None /\ c.api_url = None
  OBVIOUS
<1>2. given = {"identity_url", "api_url"} <=>
         /\ c.single_origin_url = None
         /\ c.identity_url # None /\ c.api_url # None
  OBVIOUS
<1>3. UrlsChosen(c) <=>
         /\ given = {"single_origin_url"} \/ given = {"identity_url", "api_url"}
         /\ \A u \in given : Secure(c[u])
  BY DEF UrlsChosen
<1> HIDE DEF given
<1>4. given = {"single_origin_url"} =>
         ((\A u \in given : Secure(c[u])) <=> Secure(c.single_origin_url))
  OBVIOUS
<1>5. given = {"identity_url", "api_url"} =>
         ((\A u \in given : Secure(c[u])) <=>
            Secure(c.identity_url) /\ Secure(c.api_url))
  OBVIOUS
<1> QED  BY <1>1, <1>2, <1>3, <1>4, <1>5

\* parse_named accepts exactly HTTPS, and HTTP to this machine.
LEMMA ParseAccepts ==
    ASSUME NEW raw, IsConfiguredUrl(raw)
    PROVE  /\ Failed(ParseNamed(raw)) <=> ~Secure(raw)
           /\ Secure(raw) => ParseNamed(raw) = [url |-> raw.url]
<1>1. CASE raw.text \in {"blank", "malformed"}
  <2>1. \E e : ParseNamed(raw) = [error |-> e]
    BY <1>1 DEF ParseNamed
  <2> QED  BY <1>1, <2>1, ErrorFails DEF Secure
<1>2. CASE raw.text = "url"
  <2>1. HostStr(raw.url) \in {"localhost", "127.0.0.1", "::1"} <=>
           raw.url.host \in {"localhost", "127.0.0.1"}
    BY DEF HostStr
  <2>2. Secure(raw) <=>
           \/ raw.url.scheme = "https"
           \/ /\ raw.url.scheme = "http"
              /\ HostStr(raw.url) \in {"localhost", "127.0.0.1", "::1"}
    BY <1>2, <2>1 DEF Secure
  <2>3. ParseNamed(raw) = IF Secure(raw) THEN [url |-> raw.url]
                          ELSE [error |-> "InsecureEndpoint"]
    BY <1>2, <2>2 DEF ParseNamed
  <2> QED  BY <2>3, ErrorFails DEF Failed
<1> QED  BY <1>1, <1>2 DEF IsConfiguredUrl

EndpointsOf(c) ==
    IF c.single_origin_url # None THEN FromSingleOrigin(c.single_origin_url.url)
    ELSE [identity_url |-> NormalizeEndpointBase(c.identity_url.url),
          api_url |-> NormalizeEndpointBase(c.api_url.url)]

\* Two bases are no error.
LEMMA BasesSucceed ==
    ASSUME NEW a, NEW b PROVE ~Failed([identity_url |-> a, api_url |-> b])
BY DEF Failed

\* The endpoints are built exactly for one origin or for a pair of bases.
LEMMA EndpointsAccepted ==
    ASSUME \A name \in {"single_origin_url", "identity_url", "api_url"} :
              args[name] = None \/ IsConfiguredUrl(args[name])
    PROVE  /\ Failed(EndpointsFromArgs) <=> ~UrlsChosen(args)
           /\ UrlsChosen(args) => EndpointsFromArgs = EndpointsOf(args)
<1>0. /\ args.single_origin_url # None => IsConfiguredUrl(args.single_origin_url)
      /\ args.identity_url # None => IsConfiguredUrl(args.identity_url)
      /\ args.api_url # None => IsConfiguredUrl(args.api_url)
  OBVIOUS
<1>1. CASE /\ args.single_origin_url # None
           /\ args.identity_url = None /\ args.api_url = None
  <2> DEFINE p == ParseNamed(args.single_origin_url)
  <2>1. EndpointsFromArgs = IF Failed(p) THEN p ELSE FromSingleOrigin(p.url)
    BY <1>1 DEF EndpointsFromArgs
  <2>2. UrlsChosen(args) <=> Secure(args.single_origin_url)
    BY <1>1, UrlOptions
  <2>3. /\ Failed(p) <=> ~Secure(args.single_origin_url)
        /\ Secure(args.single_origin_url) => p.url = args.single_origin_url.url
    BY <1>0, <1>1, ParseAccepts
  <2>4. ~Failed(FromSingleOrigin(p.url))
    BY BasesSucceed DEF FromSingleOrigin
  <2> QED  BY <1>1, <2>1, <2>2, <2>3, <2>4 DEF EndpointsOf
<1>2. CASE /\ args.single_origin_url = None
           /\ args.identity_url # None /\ args.api_url # None
  <2> DEFINE i == ParseNamed(args.identity_url)
             a == ParseNamed(args.api_url)
  <2>1. EndpointsFromArgs =
           IF Failed(i) THEN i ELSE IF Failed(a) THEN a
           ELSE [identity_url |-> NormalizeEndpointBase(i.url),
                 api_url |-> NormalizeEndpointBase(a.url)]
    BY <1>2 DEF EndpointsFromArgs, ParseSplit
  <2>2. UrlsChosen(args) <=> Secure(args.identity_url) /\ Secure(args.api_url)
    BY <1>2, UrlOptions
  <2>3. /\ Failed(i) <=> ~Secure(args.identity_url)
        /\ Secure(args.identity_url) => i.url = args.identity_url.url
        /\ Failed(a) <=> ~Secure(args.api_url)
        /\ Secure(args.api_url) => a.url = args.api_url.url
    BY <1>0, <1>2, ParseAccepts
  <2> QED  BY <1>2, <2>1, <2>2, <2>3, BasesSucceed DEF EndpointsOf
<1>3. CASE /\ ~(/\ args.single_origin_url # None
                /\ args.identity_url = None /\ args.api_url = None)
           /\ ~(/\ args.single_origin_url = None
                /\ args.identity_url # None /\ args.api_url # None)
  <2>1. EndpointsFromArgs = [error |-> "endpoint_mode"]
    BY <1>3 DEF EndpointsFromArgs
  <2>2. ~UrlsChosen(args)
    BY <1>3, UrlOptions
  <2> QED  BY <2>1, <2>2, ErrorFails
<1> QED  BY <1>1, <1>2, <1>3
-----------------------------------------------------------------------------
(* The steps of main().                                                     *)

\* The steps after each check.
PastReload == {"bind", "serving"}
PastZeroize == {"baseline"} \cup PastReload
PastAuth == {"zeroize"} \cup PastZeroize
PastPolicy == {"auth"} \cup PastAuth
PastClient == {"policy"} \cup PastPolicy
PastEndpoints == {"ca_bundle"} \cup PastClient
PastLimits == {"endpoints"} \cup PastEndpoints
PastPassword == {"limits"} \cup PastLimits
PastSecret == {"master_password"} \cup PastPassword
PastId == {"client_secret"} \cup PastSecret
Starting == {"client_id"} \cup PastId

LimitsChosen(c) ==
    /\ c.device_identifier.core # "" /\ c.device_name.core # ""
    /\ c.http_connect_timeout_seconds > 0 /\ c.http_request_timeout_seconds > 0

ClientChosen(c) == c.ca_bundle_file \in {None, "certificates"} /\ c.client_builds

\* A credential was usable, and the client has its text.
Kept(name) == Usable(config[name]) /\ held[name] = Given(config[name])

Reloads(c) == c.policy = "file" /\ c.policy_reload_interval_seconds > 0

\* What main() knows of the configuration at each step.
StartInv ==
    /\ config \in Configs
    /\ pc \in Starting \cup {"parsed", "connect", "read", "failed", "healthy"}
    /\ DOMAIN held = Credentials
    /\ pc \notin PastZeroize \cup {"failed", "healthy"} => args = config
    /\ pc \in PastZeroize =>
          /\ args.policy = config.policy
          /\ args.policy_reload_interval_seconds
               = config.policy_reload_interval_seconds
          /\ \A name \in Credentials \cup {"webhook_auth_token"} :
                args[name].inline = None
    /\ pc \in Starting => config.healthcheck_url = None
    /\ pc \in PastId => Kept("client_id")
    /\ pc \in PastSecret => Kept("client_secret")
    /\ pc \in PastPassword => Kept("master_password")
    /\ pc \in PastLimits => LimitsChosen(config)
    /\ pc \in PastEndpoints =>
          UrlsChosen(config) /\ endpoints = EndpointsOf(config)
    /\ pc \in PastClient => ClientChosen(config)
    /\ pc \in PastPolicy => config.policy # "invalid"
    /\ pc \in PastAuth => AuthChosen(config) /\ auth = AuthOf(config)
    /\ pc \in PastReload =>
          /\ baseline <=> config.policy = "file"
          /\ reloading <=> Reloads(config)
    /\ pc \notin PastReload => ~reloading
    /\ pc = "serving" => config.address_free
    /\ pc \in {"connect", "read"} =>
          /\ config.healthcheck_url # None
          /\ config.healthcheck_url.text = "url"
          /\ config.healthcheck_url.url.scheme = "http"
    /\ pc = "read" =>
          config.response # None /\ config.healthcheck_url.url.host # "::1"
    /\ pc = "failed" => ~Acceptable(config) /\ ~Healthy(config)
    /\ pc = "healthy" => Healthy(config)
    /\ config.healthcheck_url # None => endpoints = None
    /\ request # None =>
          /\ pc = "serving"
          /\ \E header \in Headers :
                request = [header |-> header, authorized |-> IsAuthorized(header)]
    /\ sent # None =>
          /\ pc = "serving"
          /\ \/ sent = [what |-> "login", url |-> LoginUrl(endpoints),
                        scope |-> Scope]
             \/ sent = [what |-> "sync", url |-> SyncUrl(endpoints)]

\* Acceptable, check by check.
LEMMA AcceptableParts ==
    ASSUME NEW c
    PROVE  Acceptable(c) <=>
              /\ c.healthcheck_url = None
              /\ \A name \in Credentials : Usable(c[name])
              /\ LimitsChosen(c) /\ UrlsChosen(c) /\ ClientChosen(c)
              /\ c.policy # "invalid" /\ AuthChosen(c) /\ c.address_free
BY DEF Acceptable, LimitsChosen, UrlsChosen, ClientChosen, AuthChosen

\* The types of a configuration's options.
LEMMA ConfigFacts ==
    ASSUME NEW c \in Configs
    PROVE  /\ \A name \in Credentials \cup {"webhook_auth_token"} :
                 name \in DOMAIN c /\ c[name] \in OptionSources
           /\ {"policy", "policy_reload_interval_seconds"} \subseteq DOMAIN c
           /\ c.policy_reload_interval_seconds \in Nat
           /\ c.http_connect_timeout_seconds \in Nat
           /\ c.http_request_timeout_seconds \in Nat
           /\ c.ca_bundle_file \in {None, "unreadable", "garbled", "empty",
                                    "certificates"}
           /\ c.insecure_allow_unauthenticated \in BOOLEAN
           /\ c.client_builds \in BOOLEAN /\ c.address_free \in BOOLEAN
           /\ \A name \in {"single_origin_url", "identity_url", "api_url"} :
                 c[name] = None \/ IsConfiguredUrl(c[name])
           /\ c.healthcheck_url # None /\ c.healthcheck_url.text = "url" =>
                 c.healthcheck_url.url.host # "[::1]"
<1>1. c.healthcheck_url = None \/ IsConfiguredUrl(c.healthcheck_url)
  BY ConfigsAssumption
<1>2. c.healthcheck_url # None /\ c.healthcheck_url.text = "url" =>
         IsUrl(c.healthcheck_url.url)
  BY <1>1 DEF IsConfiguredUrl
<1>3. c.healthcheck_url # None /\ c.healthcheck_url.text = "url" =>
         c.healthcheck_url.url.host # "[::1]"
  BY <1>2 DEF IsUrl
<1> QED  BY <1>3, ConfigsAssumption DEF OptionSources

\* The label sets are expanded in every proof below.
USE DEF Starting, PastId, PastSecret, PastPassword, PastLimits, PastEndpoints,
        PastClient, PastPolicy, PastAuth, PastZeroize, PastReload

LEMMA InitStep == Init => StartInv
<1> SUFFICES ASSUME Init PROVE StartInv
  OBVIOUS
<1>1. pc = "parsed" /\ config \in Configs /\ args = config
  BY DEF Init
<1>2. DOMAIN held = Credentials /\ endpoints = None /\ ~reloading
  BY DEF Init
<1>3. request = None /\ sent = None
  BY DEF Init
<1> QED  BY <1>1, <1>2, <1>3 DEF StartInv

\* Before it serves, the process has neither answered nor sent anything.
LEMMA Unserved == StartInv /\ pc # "serving" => request = None /\ sent = None
BY DEF StartInv

\* A check that refuses the configuration keeps the invariant.
LEMMA RefuseStep ==
    ASSUME StartInv, pc # "serving", pc' = "failed",
           DOMAIN held' = Credentials,
           config.healthcheck_url # None => endpoints' = None,
           ~reloading', UNCHANGED <<config, request, sent>>,
           ~Acceptable(config), ~Healthy(config)
    PROVE  StartInv'
<1>1. request' = None /\ sent' = None
  BY Unserved
<1> QED  BY <1>1 DEF StartInv

\* A process that starts serving is no healthcheck.
LEMMA NoHealthcheck == StartInv /\ pc \in Starting => ~Healthy(config)
BY DEF StartInv, Healthy

LEMMA ServeStep == StartInv /\ Serve => StartInv'
<1> SUFFICES ASSUME StartInv, Serve PROVE StartInv'
  OBVIOUS
<1>1. pc = "parsed" /\ pc' = "client_id" /\ args = config
  BY DEF Serve, Goto, StartInv
<1>2. /\ UNCHANGED <<config, args, held, endpoints, reloading>>
      /\ request' = None /\ sent' = None /\ config.healthcheck_url = None
  BY <1>1, Unserved DEF Serve, built
<1> QED  BY <1>1, <1>2 DEF StartInv

\* Reading a credential: the client has its text, or the process ends.
LEMMA CredentialRead ==
    ASSUME StartInv, NEW name \in Credentials, NEW next,
           pc = name, ReadCredential(name, next)
    PROVE  \/ /\ pc' = next /\ Kept(name)'
              /\ \A other \in Credentials \ {name} : held'[other] = held[other]
              /\ DOMAIN held' = Credentials
           \/ pc' = "failed" /\ held' = held /\ ~Usable(config[name])
<1>1. args = config /\ config \in Configs /\ DOMAIN held = Credentials
  BY DEF StartInv, Credentials
<1>2. config[name] \in OptionSources
  BY <1>1, ConfigFacts
<1> DEFINE result == ReadSensitiveArg(config[name])
<1>3. /\ Failed(result) <=> ~Usable(config[name])
      /\ Usable(config[name]) => result.value = Given(config[name])
  BY <1>2, ReadRequired
<1>4. /\ pc' = IF Failed(result) THEN "failed" ELSE next
      /\ held' = IF Failed(result) THEN held
                 ELSE [held EXCEPT ![name] = result.value]
      /\ config' = config
  BY <1>1 DEF ReadCredential, Check, Goto
<1> HIDE DEF result
<1>5. CASE Failed(result)
  BY <1>3, <1>4, <1>5
<1>6. CASE ~Failed(result)
  <2>1. held' = [held EXCEPT ![name] = Given(config[name])]
    BY <1>3, <1>4, <1>6
  <2>2. held'[name] = Given(config[name]) /\ DOMAIN held' = Credentials
    BY <1>1, <2>1
  <2>3. Kept(name)'
    BY <1>3, <1>4, <1>6, <2>2 DEF Kept
  <2>4. \A other \in Credentials \ {name} : held'[other] = held[other]
    BY <1>1, <2>1
  <2> QED  BY <1>4, <1>6, <2>2, <2>3, <2>4
<1> QED  BY <1>5, <1>6

LEMMA ReadCredentialsStep == StartInv /\ ReadCredentials => StartInv'
<1> SUFFICES ASSUME StartInv, ReadCredentials PROVE StartInv'
  OBVIOUS
<1>1. /\ pc \in {"client_id", "client_secret", "master_password"}
      /\ UNCHANGED <<config, args, endpoints, reloading, request, sent>>
  BY DEF ReadCredentials, ReadCredential
<1>2. PICK name \in Credentials,
           next \in {"client_secret", "master_password", "limits"} :
         /\ pc = name /\ ReadCredential(name, next)
         /\ <<name, next>> \in {<<"client_id", "client_secret">>,
                                <<"client_secret", "master_password">>,
                                <<"master_password", "limits">>}
  BY DEF ReadCredentials, ReadCredential, Credentials
<1>3. CASE pc' = "failed" /\ held' = held /\ ~Usable(config[name])
  <2>1. ~Acceptable(config) /\ ~Healthy(config)
    BY <1>1, <1>3, AcceptableParts, NoHealthcheck
  <2> QED  BY <1>1, <1>3, <2>1, RefuseStep DEF StartInv
<1>4. CASE /\ pc' = next /\ Kept(name)'
           /\ \A other \in Credentials \ {name} : held'[other] = held[other]
           /\ DOMAIN held' = Credentials
  <2>1. \A other \in Credentials : Kept(other) => Kept(other)'
    BY <1>1, <1>4 DEF Kept
  <2>2. request' = None /\ sent' = None
    BY <1>1, Unserved
  <2>3. CASE name = "client_id" /\ next = "client_secret"
    BY <1>1, <1>2, <1>4, <2>1, <2>2, <2>3 DEF StartInv, Credentials
  <2>4. CASE name = "client_secret" /\ next = "master_password"
    BY <1>1, <1>2, <1>4, <2>1, <2>2, <2>4 DEF StartInv, Credentials
  <2>5. CASE name = "master_password" /\ next = "limits"
    BY <1>1, <1>2, <1>4, <2>1, <2>2, <2>5 DEF StartInv, Credentials
  <2> QED  BY <1>2, <2>3, <2>4, <2>5
<1> QED  BY <1>2, <1>3, <1>4, CredentialRead

\* What holds of the credentials stays so while they are not touched.
LEMMA CredentialsKept ==
    ASSUME UNCHANGED <<config, held>>
    PROVE  \A name \in Credentials : Kept(name) => Kept(name)'
BY DEF Kept

LEMMA CheckLimitsStep == StartInv /\ CheckLimits => StartInv'
<1> SUFFICES ASSUME StartInv, CheckLimits PROVE StartInv'
  OBVIOUS
<1>1. pc = "limits" /\ args = config /\ config \in Configs
  BY DEF CheckLimits, StartInv
<1>2. /\ UNCHANGED <<config, args, held, endpoints, reloading, request, sent>>
      /\ request = None /\ sent = None
  BY <1>1, Unserved DEF CheckLimits, built
<1>3. pc' = IF LimitsChosen(config) THEN "endpoints" ELSE "failed"
  <2>1. /\ config.http_connect_timeout_seconds \in Nat
        /\ config.http_request_timeout_seconds \in Nat
    BY <1>1, ConfigFacts
  <2>2. /\ config.http_connect_timeout_seconds > 0 <=>
             config.http_connect_timeout_seconds # 0
        /\ config.http_request_timeout_seconds > 0 <=>
             config.http_request_timeout_seconds # 0
    BY <2>1
  <2>3. LimitsChosen(config) <=>
           /\ ~IsBlank(config.device_identifier)
           /\ ~IsBlank(config.device_name)
           /\ config.http_connect_timeout_seconds # 0
           /\ config.http_request_timeout_seconds # 0
    BY <2>2 DEF LimitsChosen, IsBlank
  <2> QED  BY <1>1, <2>3 DEF CheckLimits, Check, Goto
<1>4. CASE LimitsChosen(config)
  BY <1>1, <1>2, <1>3, <1>4, CredentialsKept DEF StartInv, Credentials
<1>5. CASE ~LimitsChosen(config)
  <2>1. ~Acceptable(config) /\ ~Healthy(config)
    BY <1>1, <1>5, AcceptableParts, NoHealthcheck
  <2> QED  BY <1>1, <1>2, <1>3, <1>5, <2>1, RefuseStep DEF StartInv
<1> QED  BY <1>4, <1>5

LEMMA BuildEndpointsStep == StartInv /\ BuildEndpoints => StartInv'
<1> SUFFICES ASSUME StartInv, BuildEndpoints PROVE StartInv'
  OBVIOUS
<1>1. /\ pc = "endpoints" /\ args = config /\ config \in Configs
      /\ config.healthcheck_url = None
  BY DEF BuildEndpoints, StartInv
<1>2. /\ UNCHANGED <<config, args, held, reloading, request, sent>>
      /\ request = None /\ sent = None
  BY <1>1, Unserved DEF BuildEndpoints
<1>3. /\ Failed(EndpointsFromArgs) <=> ~UrlsChosen(config)
      /\ UrlsChosen(config) => EndpointsFromArgs = EndpointsOf(config)
  BY <1>1, ConfigFacts, EndpointsAccepted
<1>4. /\ pc' = IF UrlsChosen(config) THEN "ca_bundle" ELSE "failed"
      /\ UrlsChosen(config) => endpoints' = EndpointsOf(config)
  BY <1>3 DEF BuildEndpoints, Check, Goto
<1>5. CASE UrlsChosen(config)
  BY <1>1, <1>2, <1>4, <1>5, CredentialsKept DEF StartInv, Credentials
<1>6. CASE ~UrlsChosen(config)
  <2>1. ~Acceptable(config) /\ ~Healthy(config)
    BY <1>1, <1>6, AcceptableParts, NoHealthcheck
  <2> QED  BY <1>1, <1>2, <1>4, <1>6, <2>1, RefuseStep DEF StartInv
<1> QED  BY <1>5, <1>6

LEMMA BuildClientStep == StartInv /\ BuildClient => StartInv'
<1> SUFFICES ASSUME StartInv, BuildClient PROVE StartInv'
  OBVIOUS
<1>1. pc = "ca_bundle" /\ args = config /\ config \in Configs
  BY DEF BuildClient, StartInv
<1>2. /\ UNCHANGED <<config, args, held, endpoints, reloading, request, sent>>
      /\ request = None /\ sent = None
  BY <1>1, Unserved DEF BuildClient
<1>3. Failed(LoadExtraRootCertificates) <=>
         config.ca_bundle_file \notin {None, "certificates"}
  <2>1. CASE config.ca_bundle_file \in {None, "certificates"}
    <3>1. \E n : LoadExtraRootCertificates = [certificates |-> n]
      BY <1>1, <2>1, NoneIsNoText DEF LoadExtraRootCertificates
    <3> QED  BY <2>1, <3>1 DEF Failed
  <2>2. CASE config.ca_bundle_file \notin {None, "certificates"}
    <3>1. \E e : LoadExtraRootCertificates = [error |-> e]
      BY <1>1, <2>2, ConfigFacts DEF LoadExtraRootCertificates
    <3> QED  BY <2>2, <3>1, ErrorFails
  <2> QED  BY <2>1, <2>2
<1>4. pc' = IF ClientChosen(config) THEN "policy" ELSE "failed"
  BY <1>3 DEF BuildClient, Check, Goto, ClientChosen
<1>5. CASE ClientChosen(config)
  BY <1>1, <1>2, <1>4, <1>5, CredentialsKept DEF StartInv, Credentials
<1>6. CASE ~ClientChosen(config)
  <2>1. ~Acceptable(config) /\ ~Healthy(config)
    BY <1>1, <1>6, AcceptableParts, NoHealthcheck
  <2> QED  BY <1>1, <1>2, <1>4, <1>6, <2>1, RefuseStep DEF StartInv
<1> QED  BY <1>5, <1>6

LEMMA EvaluatePolicyStep == StartInv /\ EvaluatePolicy => StartInv'
<1> SUFFICES ASSUME StartInv, EvaluatePolicy PROVE StartInv'
  OBVIOUS
<1>1. pc = "policy" /\ args = config
  BY DEF EvaluatePolicy, StartInv
<1>2. /\ UNCHANGED <<config, args, held, endpoints, reloading, request, sent>>
      /\ request = None /\ sent = None
  BY <1>1, Unserved DEF EvaluatePolicy, built
<1>3. pc' = IF config.policy # "invalid" THEN "auth" ELSE "failed"
  BY <1>1 DEF EvaluatePolicy, Check, Goto
<1>4. CASE config.policy # "invalid"
  BY <1>1, <1>2, <1>3, <1>4, CredentialsKept DEF StartInv, Credentials
<1>5. CASE config.policy = "invalid"
  <2>1. ~Acceptable(config) /\ ~Healthy(config)
    BY <1>1, <1>5, AcceptableParts, NoHealthcheck
  <2> QED  BY <1>1, <1>2, <1>3, <1>5, <2>1, RefuseStep DEF StartInv
<1> QED  BY <1>4, <1>5

LEMMA ConfigureAuthStep == StartInv /\ ConfigureAuth => StartInv'
<1> SUFFICES ASSUME StartInv, ConfigureAuth PROVE StartInv'
  OBVIOUS
<1>1. pc = "auth" /\ args = config /\ config \in Configs
  BY DEF ConfigureAuth, StartInv
<1>2. /\ UNCHANGED <<config, args, held, endpoints, reloading, request, sent>>
      /\ request = None /\ sent = None
  BY <1>1, Unserved DEF ConfigureAuth
<1>3. /\ Failed(WebhookAuthFromArgs) <=> ~AuthChosen(config)
      /\ AuthChosen(config) => WebhookAuthFromArgs = AuthOf(config)
  BY <1>1, ConfigFacts, AuthAccepted
<1>4. /\ pc' = IF AuthChosen(config) THEN "zeroize" ELSE "failed"
      /\ AuthChosen(config) => auth' = AuthOf(config)
  BY <1>3 DEF ConfigureAuth, Check, Goto
<1>5. CASE AuthChosen(config)
  BY <1>1, <1>2, <1>4, <1>5, CredentialsKept DEF StartInv, Credentials
<1>6. CASE ~AuthChosen(config)
  <2>1. ~Acceptable(config) /\ ~Healthy(config)
    BY <1>1, <1>6, AcceptableParts, NoHealthcheck
  <2> QED  BY <1>1, <1>2, <1>4, <1>6, <2>1, RefuseStep DEF StartInv
<1> QED  BY <1>5, <1>6

LEMMA ZeroizeStep == StartInv /\ ZeroizeSensitive => StartInv'
<1> SUFFICES ASSUME StartInv, ZeroizeSensitive PROVE StartInv'
  OBVIOUS
<1>1. pc = "zeroize" /\ pc' = "baseline" /\ args = config /\ config \in Configs
  BY DEF ZeroizeSensitive, Goto, StartInv
<1>2. /\ UNCHANGED <<config, held, endpoints, auth, reloading, request, sent>>
      /\ request = None /\ sent = None
  BY <1>1, Unserved DEF ZeroizeSensitive, built
<1>3. \A name \in Credentials \cup {"webhook_auth_token"} :
         args'[name].inline = None
  <2> TAKE name \in Credentials \cup {"webhook_auth_token"}
  <2>1. name \in DOMAIN config /\ config[name] \in OptionSources
    BY <1>1, ConfigFacts
  <2>2. args'[name] = [config[name] EXCEPT !.inline = None]
    BY <1>1, <2>1 DEF ZeroizeSensitive
  <2> QED  BY <2>1, <2>2 DEF OptionSources
<1>4. /\ args'.policy = config.policy
      /\ args'.policy_reload_interval_seconds
           = config.policy_reload_interval_seconds
  <2>1. {"policy", "policy_reload_interval_seconds"} \subseteq DOMAIN config
    BY <1>1, ConfigFacts
  <2> QED  BY <1>1, <2>1 DEF ZeroizeSensitive, Credentials
<1> QED
  BY <1>1, <1>2, <1>3, <1>4, CredentialsKept DEF StartInv, Credentials

LEMMA StartPolicyReloadStep == StartInv /\ StartPolicyReload => StartInv'
<1> SUFFICES ASSUME StartInv, StartPolicyReload PROVE StartInv'
  OBVIOUS
<1>1. pc = "baseline" /\ pc' = "bind" /\ config \in Configs
  BY DEF StartPolicyReload, Goto, StartInv
<1>2. /\ UNCHANGED <<config, args, held, endpoints, auth, request, sent>>
      /\ request = None /\ sent = None
  BY <1>1, Unserved DEF StartPolicyReload, built
<1>3. /\ baseline' <=> config.policy = "file"
      /\ reloading' <=> Reloads(config)
  <2>1. config.policy_reload_interval_seconds \in Nat
    BY <1>1, ConfigFacts
  <2>2. /\ args.policy = config.policy
        /\ args.policy_reload_interval_seconds
             = config.policy_reload_interval_seconds
    BY <1>1 DEF StartInv
  <2>3. config.policy_reload_interval_seconds # 0 <=>
           config.policy_reload_interval_seconds > 0
    BY <2>1
  <2> QED  BY <2>2, <2>3 DEF StartPolicyReload, Reloads
<1> QED  BY <1>1, <1>2, <1>3, CredentialsKept DEF StartInv, Credentials

LEMMA BindStep == StartInv /\ Bind => StartInv'
<1> SUFFICES ASSUME StartInv, Bind PROVE StartInv'
  OBVIOUS
<1>1. pc = "bind"
  BY DEF Bind
<1>2. /\ UNCHANGED <<config, args, held, endpoints, auth, baseline, request, sent>>
      /\ request = None /\ sent = None
  BY <1>1, Unserved DEF Bind, built
<1>3. /\ pc' = IF config.address_free THEN "serving" ELSE "failed"
      /\ reloading' <=> reloading /\ pc' = "serving"
  BY DEF Bind, Check, Goto
<1>4. CASE config.address_free
  BY <1>1, <1>2, <1>3, <1>4, CredentialsKept DEF StartInv, Credentials
<1>5. CASE ~config.address_free
  <2>1. ~Acceptable(config) /\ ~Healthy(config)
    BY <1>1, <1>5, AcceptableParts, NoHealthcheck
  <2> QED  BY <1>1, <1>2, <1>3, <1>5, <2>1, RefuseStep DEF StartInv
<1> QED  BY <1>4, <1>5

\* What a request meets, and what the client sends, depends on what main()
\* built and on nothing else.
Answered(header) == [header |-> header, authorized |-> IsAuthorized(header)]
Login == [what |-> "login", url |-> LoginUrl(endpoints), scope |-> Scope]
Synced == [what |-> "sync", url |-> SyncUrl(endpoints)]

LEMMA ServingKept ==
    ASSUME StartInv, pc = "serving",
           UNCHANGED <<pc, config, args, built, baseline, reloading>>,
           request' = request \/ \E header \in Headers : request' = Answered(header),
           sent' \in {sent, Login, Synced}
    PROVE  StartInv'
<1>1. UNCHANGED <<held, endpoints, certs, auth>>
  BY DEF built
<1>2. \A header \in Headers : Answered(header)' = Answered(header)
  BY <1>1 DEF Answered, IsAuthorized
<1>3. Login' = Login /\ Synced' = Synced
  BY <1>1 DEF Login, Synced, Scope
<1>4. /\ request # None => \E header \in Headers : request = Answered(header)
      /\ sent # None => sent \in {Login, Synced}
  BY DEF StartInv, Answered, Login, Synced
<1>5. /\ request' # None =>
            \E header \in Headers : request' = Answered(header)'
      /\ sent' # None => sent' = Login' \/ sent' = Synced'
  BY <1>2, <1>3, <1>4
<1>6. /\ request' # None =>
            \E header \in Headers :
               request' = [header |-> header, authorized |-> IsAuthorized(header)']
      /\ sent' # None =>
            \/ sent' = [what |-> "login", url |-> LoginUrl(endpoints)',
                        scope |-> Scope']
            \/ sent' = [what |-> "sync", url |-> SyncUrl(endpoints)']
  BY <1>5 DEF Answered, Login, Synced
<1>7. \A name \in Credentials : Kept(name) => Kept(name)'
  BY <1>1, CredentialsKept
<1> QED  BY <1>1, <1>6, <1>7 DEF StartInv, Credentials

LEMMA RequestStep ==
    StartInv /\ (Resolve \/ LoginWithApiKey \/ Sync) => StartInv'
<1> SUFFICES ASSUME StartInv, Resolve \/ LoginWithApiKey \/ Sync
             PROVE  StartInv'
  OBVIOUS
<1>1. CASE Resolve
  BY <1>1, ServingKept DEF Resolve, Answered
<1>2. CASE LoginWithApiKey
  BY <1>2, ServingKept DEF LoginWithApiKey, Login
<1>3. CASE Sync
  BY <1>3, ServingKept DEF Sync, Synced
<1> QED  BY <1>1, <1>2, <1>3

LEMMA HealthcheckStep ==
    StartInv /\ (ParseHealthcheckTarget \/ Connect \/ ReadResponse) => StartInv'
<1> SUFFICES ASSUME StartInv,
                    ParseHealthcheckTarget \/ Connect \/ ReadResponse
             PROVE  StartInv'
  OBVIOUS
<1>1. /\ pc \in {"parsed", "connect", "read"} /\ args = config
      /\ config.healthcheck_url # None
  BY DEF ParseHealthcheckTarget, Connect, ReadResponse, StartInv
<1>2. /\ UNCHANGED <<config, args, held, endpoints, reloading, request, sent>>
      /\ request = None /\ sent = None /\ ~reloading
  BY <1>1, Unserved
  DEF ParseHealthcheckTarget, Connect, ReadResponse, built, StartInv
<1>3. ~Acceptable(config)
  BY <1>1 DEF Acceptable
<1>4. pc' \in {"failed", "connect", "read", "healthy"}
  BY DEF ParseHealthcheckTarget, Connect, ReadResponse, Check, Goto
<1>5. CASE pc' = "failed"
  <2> SUFFICES ~Healthy(config)
    BY <1>1, <1>2, <1>3, <1>5, RefuseStep DEF StartInv
  <2>1. CASE ParseHealthcheckTarget
    BY <1>1, <1>5, <2>1 DEF ParseHealthcheckTarget, Check, Goto, Healthy
  <2>2. CASE Connect
    <3>1. config.healthcheck_url.url.host # "[::1]"
      BY <1>1, <2>2, ConfigFacts DEF Connect, StartInv
    <3> QED  BY <1>1, <1>5, <2>2, <3>1 DEF Connect, Check, Goto, HostStr, Healthy
  <2>3. CASE ReadResponse
    BY <1>1, <1>5, <2>3
    DEF ReadResponse, Check, Goto, Healthy, EnsureSuccessfulHealthcheckResponse
  <2> QED  BY <2>1, <2>2, <2>3
<1>6. CASE pc' = "connect"
  <2>1. /\ config.healthcheck_url.text = "url"
        /\ config.healthcheck_url.url.scheme = "http"
    BY <1>1, <1>6
    DEF ParseHealthcheckTarget, Connect, ReadResponse, Check, Goto
  <2> QED  BY <1>1, <1>2, <1>6, <2>1 DEF StartInv
<1>7. CASE pc' = "read"
  <2>1. pc = "connect" /\ config.response # None
    BY <1>1, <1>7
    DEF ParseHealthcheckTarget, Connect, ReadResponse, Check, Goto
  <2>2. config.healthcheck_url.url.host # "::1"
    BY <1>1, <1>7
    DEF ParseHealthcheckTarget, Connect, ReadResponse, Check, Goto, HostStr
  <2> QED  BY <1>1, <1>2, <1>7, <2>1, <2>2 DEF StartInv
<1>8. CASE pc' = "healthy"
  <2>1. /\ pc = "read" /\ config.response.closes
        /\ EnsureSuccessfulHealthcheckResponse(config.response)
    BY <1>1, <1>8
    DEF ParseHealthcheckTarget, Connect, ReadResponse, Check, Goto
  <2>2. Healthy(config)
    BY <2>1 DEF StartInv, Healthy, EnsureSuccessfulHealthcheckResponse
  <2> QED  BY <1>1, <1>2, <1>8, <2>2 DEF StartInv
<1> QED  BY <1>4, <1>5, <1>6, <1>7, <1>8

LEMMA StutterStep == StartInv /\ UNCHANGED vars => StartInv'
<1> SUFFICES ASSUME StartInv, UNCHANGED vars PROVE StartInv'
  OBVIOUS
<1>1. /\ UNCHANGED <<pc, config, args, held, endpoints, auth, baseline>>
      /\ UNCHANGED <<built, reloading, request, sent>>
  BY DEF vars, built
<1>2. CASE pc = "serving"
  BY <1>1, <1>2, ServingKept
<1>3. CASE pc # "serving"
  <2>1. request = None /\ sent = None
    BY <1>3, Unserved
  <2> QED  BY <1>1, <1>3, <2>1, CredentialsKept DEF StartInv, Credentials
<1> QED  BY <1>2, <1>3

\* Every step keeps the invariant.
LEMMA StartStep == StartInv /\ [Next]_vars => StartInv'
<1> SUFFICES ASSUME StartInv, [Next]_vars PROVE StartInv'
  OBVIOUS
<1>1. CASE Serve  BY <1>1, ServeStep
<1>2. CASE ReadCredentials  BY <1>2, ReadCredentialsStep
<1>3. CASE CheckLimits  BY <1>3, CheckLimitsStep
<1>4. CASE BuildEndpoints  BY <1>4, BuildEndpointsStep
<1>5. CASE BuildClient  BY <1>5, BuildClientStep
<1>6. CASE EvaluatePolicy  BY <1>6, EvaluatePolicyStep
<1>7. CASE ConfigureAuth  BY <1>7, ConfigureAuthStep
<1>8. CASE ZeroizeSensitive  BY <1>8, ZeroizeStep
<1>9. CASE StartPolicyReload  BY <1>9, StartPolicyReloadStep
<1>10. CASE Bind  BY <1>10, BindStep
<1>11. CASE Resolve \/ LoginWithApiKey \/ Sync  BY <1>11, RequestStep
<1>12. CASE ParseHealthcheckTarget \/ Connect \/ ReadResponse
  BY <1>12, HealthcheckStep
<1>13. CASE Ended \/ UNCHANGED vars  BY <1>13, StutterStep DEF Ended
<1> QED
  BY <1>1, <1>2, <1>3, <1>4, <1>5, <1>6, <1>7, <1>8, <1>9, <1>10, <1>11,
     <1>12, <1>13 DEF Next

\* At every step main() knows exactly what its checks have accepted.
THEOREM Invariance == Spec => []StartInv
BY InitStep, StartStep, PTL DEF Spec

\* A secret of the client is what was configured, but for a file's newlines.
LEMMA KeptText ==
    ASSUME NEW name, config[name] \in OptionSources, Kept(name)
    PROVE  LET source == config[name] IN
           \/ held[name] = source.inline
           \/ /\ source.file # None
              /\ held[name].core = source.file.text.core
              /\ held[name].lead = source.file.text.lead
              /\ held[name].trail \in {"", "sp", "nl sp"}
<1>1. CASE config[name].inline # None
  BY <1>1 DEF Kept, Given
<1>2. CASE config[name].inline = None
  <2>1. config[name].file # None /\ config[name].file.text \in Texts
    BY <1>2 DEF Kept, Usable, OptionSources
  <2>2. held[name] = TrimEndNewlines(config[name].file.text)
    BY <1>2 DEF Kept, Given
  <2> QED  BY <2>1, <2>2, TrimmedText
<1> QED  BY <1>1, <1>2

\* Whatever the configuration, the process serves it exactly when every option
\* is acceptable, and then holds the configured secrets, with none left in its
\* arguments; a healthcheck succeeds exactly on a complete 2xx response.
THEOREM ServesExactly == Spec => []StartsExactly
<1>1. StartInv => StartsExactly
  <2> SUFFICES ASSUME StartInv PROVE StartsExactly
    OBVIOUS
  <2>0. config \in Configs
    BY DEF StartInv
  <2>1. ASSUME pc = "serving" PROVE Acceptable(config)
    BY <2>1, AcceptableParts DEF StartInv, Kept, Credentials
  <2>2. ASSUME pc = "serving", NEW name \in Credentials PROVE Kept(name)
    BY <2>2 DEF StartInv, Credentials
  <2>3. ASSUME pc = "serving", NEW name \in Credentials
        PROVE  LET source == config[name] IN
               \/ held[name] = source.inline
               \/ /\ source.file # None
                  /\ held[name].core = source.file.text.core
                  /\ held[name].lead = source.file.text.lead
                  /\ held[name].trail \in {"", "sp", "nl sp"}
    BY <2>0, <2>2, <2>3, ConfigFacts, KeptText
  <2>4. ASSUME pc = "serving"
        PROVE  /\ \A name \in Credentials \cup {"webhook_auth_token"} :
                     args[name].inline = None
               /\ baseline <=> config.policy = "file"
               /\ reloading <=>
                     baseline /\ config.policy_reload_interval_seconds > 0
    BY <2>4 DEF StartInv, Reloads
  <2>5. /\ pc = "failed" =>
              ~Acceptable(config) /\ ~Healthy(config) /\ ~reloading
        /\ pc = "healthy" => Healthy(config)
        /\ config.healthcheck_url # None => endpoints = None
    BY DEF StartInv
  <2> QED  BY <2>1, <2>3, <2>4, <2>5 DEF StartsExactly
<1> QED  BY <1>1, Invariance, PTL

\* The token that a header can carry.
Presentable ==
    /\ Expected.lead = ""
    /\ \/ Expected.trail = ""
       \/ Expected.trail = "nl" /\ config.webhook_auth_token.inline = None
    /\ Expected.core # "non-ascii"

\* The text the process compares is presentable exactly when it is clean.
LEMMA PresentableText ==
    ASSUME config.webhook_auth_token \in OptionSources,
           Usable(config.webhook_auth_token)
    PROVE  LET token == Given(config.webhook_auth_token) IN
           /\ token \in Texts /\ token.core # "" /\ token.core = Expected.core
           /\ Presentable <=> Clean(token) /\ token.core # "non-ascii"
<1> DEFINE s == config.webhook_auth_token
<1>1. CASE s.inline # None
  <2>1. Given(s) = s.inline /\ Expected = s.inline
    BY <1>1 DEF Given, Expected
  <2>2. s.inline \in Texts /\ s.inline.core # ""
    BY <1>1 DEF OptionSources, Usable
  <2> QED  BY <1>1, <2>1, <2>2 DEF Presentable, Clean
<1>2. CASE s.inline = None
  <2>1. Given(s) = TrimEndNewlines(s.file.text) /\ Expected = s.file.text
    BY <1>2 DEF Given, Expected
  <2>2. s.file.text \in Texts /\ s.file.text.core # ""
    BY <1>2 DEF OptionSources, Usable
  <2> QED  BY <1>2, <2>1, <2>2, TrimmedText DEF Presentable, Clean
<1> QED  BY <1>1, <1>2

\* The comparison, when a token is required.
LEMMA Authorizes ==
    ASSUME NEW header, NEW token, auth = [mode |-> "Required", token |-> token]
    PROVE  IsAuthorized(header) <=>
              /\ header.form = "scheme and token"
              /\ header.scheme \in {"Bearer", "bearer"}
              /\ ~IsBlank(header.token) /\ Clean(header.token)
              /\ header.token = token
BY DEF IsAuthorized

\* A clean text is its core.
LEMMA CleanText ==
    ASSUME NEW text \in Texts, Clean(text)
    PROVE  text = [core |-> text.core, lead |-> "", trail |-> ""]
BY DEF Clean, Texts

\* Whatever the configuration and the requests, a request is authorized
\* exactly when authentication is waived or it presents the configured token,
\* and some request can present it exactly when a header can carry it.
THEOREM AuthorizesExactly == Spec => []AuthExact
<1>1. StartInv => AuthExact
  <2> SUFFICES ASSUME StartInv, pc = "serving" PROVE AuthExact
    BY DEF AuthExact
  <2> DEFINE token == Given(config.webhook_auth_token)
  <2>1. /\ config.webhook_auth_token \in OptionSources
        /\ AuthChosen(config) /\ auth = AuthOf(config)
    BY ConfigFacts DEF StartInv
  <2>2. request # None =>
           /\ request.header \in Headers
           /\ request.authorized = IsAuthorized(request.header)
    BY DEF StartInv
  <2>3. CASE config.insecure_allow_unauthenticated
    <3>1. auth.mode = "DisabledInsecure"
      BY <2>1, <2>3 DEF AuthOf
    <3> QED  BY <2>2, <2>3, <3>1 DEF AuthExact, IsAuthorized
  <2>4. CASE ~config.insecure_allow_unauthenticated
    <3>1. auth = [mode |-> "Required", token |-> token]
      BY <2>1, <2>4 DEF AuthOf
    <3>2. /\ token \in Texts /\ token.core # "" /\ token.core = Expected.core
          /\ Presentable <=> Clean(token) /\ token.core # "non-ascii"
      BY <2>1, <2>4, PresentableText DEF AuthChosen
    <3> HIDE DEF token
    <3>3. ASSUME NEW header \in Headers
          PROVE  IsAuthorized(header) <=>
                    /\ Presentable
                    /\ header.form = "scheme and token"
                    /\ header.scheme \notin {"", "Basic"}
                    /\ header.token.core = Expected.core
                    /\ Clean(header.token)
      <4>1. /\ header.scheme \in {"", "Basic", "Bearer", "bearer"}
            /\ header.token \in Texts /\ header.token.core # "non-ascii"
        BY HeadersAssumption
      <4>2. Clean(header.token) /\ Clean(token) =>
               (header.token = token <=> header.token.core = token.core)
        BY <3>2, <4>1, CleanText
      <4> QED  BY <3>1, <3>2, <4>1, <4>2, Authorizes DEF IsBlank
    <3>4. ASSUME Presentable PROVE \E header \in Headers : IsAuthorized(header)
      <4> DEFINE header ==
             [form |-> "scheme and token", scheme |-> "Bearer",
              token |-> [core |-> token.core, lead |-> "", trail |-> ""]]
      <4>1. token.core \in Cores \ {"", "non-ascii"}
        BY <3>2, <3>4 DEF Texts
      <4>2. header \in Headers
        BY <4>1, HeadersAssumption
      <4>3. Clean(header.token)
        BY DEF Clean
      <4>4. IsAuthorized(header)
        BY <3>2, <3>3, <3>4, <4>2, <4>3
      <4> QED  BY <4>2, <4>4
    <3>5. Presentable <=> \E header \in Headers : IsAuthorized(header)
      BY <3>3, <3>4
    <3>6. request # None =>
             (request.authorized <=>
                 /\ Presentable
                 /\ request.header.form = "scheme and token"
                 /\ request.header.scheme \notin {"", "Basic"}
                 /\ request.header.token.core = Expected.core
                 /\ Clean(request.header.token))
      BY <2>2, <3>3
    <3> QED  BY <2>4, <3>5, <3>6 DEF AuthExact, Presentable
  <2> QED  BY <2>3, <2>4
<1> QED  BY <1>1, Invariance, PTL
-----------------------------------------------------------------------------
(* Paths.                                                                   *)

\* A set of naturals has a least element.
LEMMA LeastOf ==
    ASSUME NEW T, T \subseteq Nat, T # {}
    PROVE  \E m \in T : \A k \in T : m <= k
<1> DEFINE R == OpToRel(<, Nat)
<1>1. \E m \in T : \A k \in T : <<k, m>> \notin R
  <2>1. IsWellFoundedOn(R, Nat)
    BY NatLessThanWellFounded
  <2> HIDE DEF R
  <2> QED  BY <2>1, WFMin
<1>2. \A k, m \in Nat : k < m => <<k, m>> \in R
  BY DEF OpToRel
<1> HIDE DEF R
<1>3. PICK m \in T : \A k \in T : <<k, m>> \notin R
  BY <1>1
<1>4. ASSUME NEW k \in T PROVE m <= k
  <2>1. m \in Nat /\ k \in Nat
    OBVIOUS
  <2>2. ~(k < m)
    BY <1>2, <1>3, <2>1
  <2> QED  BY <2>1, <2>2
<1> QED  BY <1>4

\* A bounded one has a greatest, which Max chooses.
LEMMA GreatestOf ==
    ASSUME NEW n \in Nat, NEW S, S \subseteq 0 .. n, S # {}
    PROVE  /\ Max(S) \in S
           /\ \A i \in S : i <= Max(S)
<1> DEFINE T == {n - i : i \in S}
<1>0. \A i \in S : i \in 0 .. n
  OBVIOUS
<1>1. T \subseteq Nat /\ T # {}
  <2>1. \A i \in S : n - i \in Nat
    BY <1>0
  <2>2. T # {}
    OBVIOUS
  <2> QED  BY <2>1, <2>2
<1>2. PICK m \in T : \A k \in T : m <= k
  BY <1>1, LeastOf
<1>3. PICK top \in S : m = n - top
  OBVIOUS
<1>4. \A i \in S : n - i \in T
  OBVIOUS
<1> HIDE DEF T
<1>5. \A i \in S : top >= i
  <2> TAKE i \in S
  <2>1. m <= n - i
    BY <1>2, <1>4
  <2>2. i \in 0 .. n /\ top \in 0 .. n
    OBVIOUS
  <2> QED  BY <1>3, <2>1, <2>2
<1>6. \E x \in S : \A y \in S : x >= y
  BY <1>5
<1>7. Max(S) \in S /\ \A y \in S : Max(S) >= y
  BY <1>6 DEF Max
<1>8. \A y \in S : y <= Max(S)
  <2> TAKE y \in S
  <2>1. y \in 0 .. n /\ Max(S) \in 0 .. n
    BY <1>0, <1>7
  <2>2. Max(S) >= y
    BY <1>7
  <2> QED  BY <2>1, <2>2
<1> QED  BY <1>7, <1>8

\* What SubSeq keeps of a prefix.
LEMMA PrefixFacts ==
    ASSUME NEW S, NEW path \in Seq(S), NEW k \in 0 .. Len(path)
    PROVE  /\ SubSeq(path, 1, k) \in Seq(S)
           /\ Len(SubSeq(path, 1, k)) = k
           /\ \A i \in 1 .. k : SubSeq(path, 1, k)[i] = path[i]
<1>1. Len(path) \in Nat
  BY LenProperties
<1>2. k \in Nat /\ k <= Len(path)
  BY <1>1
<1>3. \A i \in 1 .. k : path[i] \in S
  <2> TAKE i \in 1 .. k
  <2>1. i \in 1 .. Len(path)
    BY <1>1, <1>2
  <2> QED  BY <2>1, ElementOfSeq
<1>4. /\ SubSeq(path, 1, k) \in Seq(S)
      /\ Len(SubSeq(path, 1, k)) = IF 1 <= k THEN k - 1 + 1 ELSE 0
      /\ \A i \in 1 .. k - 1 + 1 : SubSeq(path, 1, k)[i] = path[1 + i - 1]
  BY <1>2, <1>3, SubSeqProperties
<1>5. k - 1 + 1 = k /\ (~(1 <= k) => k = 0)
  BY <1>2
<1>6. \A i \in 1 .. k : 1 + i - 1 = i
  OBVIOUS
<1> QED  BY <1>4, <1>5, <1>6

\* The greatest number below n that is in a set, or 0.
LEMMA LastOf ==
    ASSUME NEW n \in Nat, NEW full \in SUBSET (1 .. n)
    PROVE  LET k == Max({0} \cup full) IN
           /\ k \in 0 .. n
           /\ k > 0 => k \in full
           /\ \A i \in (k + 1) .. n : i \in 1 .. n /\ i \notin full
<1> DEFINE k == Max({0} \cup full)
<1>1. {0} \cup full \subseteq 0 .. n /\ {0} \cup full # {}
  OBVIOUS
<1>2. k \in {0} \cup full /\ \A i \in {0} \cup full : i <= k
  BY <1>1, GreatestOf
<1> HIDE DEF k
<1>3. k \in 0 .. n
  BY <1>1, <1>2
<1>4. k > 0 => k \in full
  BY <1>2, <1>3
<1>5. \A i \in (k + 1) .. n : i \in 1 .. n /\ i \notin full
  <2> TAKE i \in (k + 1) .. n
  <2>1. i \in 1 .. n /\ ~(i <= k)
    BY <1>3
  <2> QED  BY <1>2, <2>1
<1> QED  BY <1>3, <1>4, <1>5 DEF k

\* The last segment of a path that is not empty, or 0.
LastFull(path) == Max({0} \cup {i \in DOMAIN path : path[i] # ""})

LEMMA LastFacts ==
    ASSUME NEW n \in Nat, NEW path, DOMAIN path = 1 .. n
    PROVE  /\ LastFull(path) \in 0 .. n
           /\ LastFull(path) > 0 => path[LastFull(path)] # ""
           /\ \A i \in (LastFull(path) + 1) .. n : path[i] = ""
<1> DEFINE full == {i \in DOMAIN path : path[i] # ""}
<1>1. full \in SUBSET (1 .. n) /\ LastFull(path) = Max({0} \cup full)
  BY DEF LastFull
<1>2. \A i \in 1 .. n : i \in full <=> path[i] # ""
  OBVIOUS
<1>3. \A i \in full : path[i] # ""
  OBVIOUS
<1> HIDE DEF full
<1>4. /\ LastFull(path) \in 0 .. n
      /\ LastFull(path) > 0 => LastFull(path) \in full
      /\ \A i \in (LastFull(path) + 1) .. n : i \in 1 .. n /\ i \notin full
  BY <1>1, LastOf
<1> QED  BY <1>2, <1>3, <1>4

\* trim_end_matches keeps the path up to it.
LEMMA TrimFacts ==
    ASSUME NEW S, NEW path \in Seq(S)
    PROVE  /\ TrimEndSlashes(path) \in Seq(S)
           /\ TrimEndSlashes(path) = SubSeq(path, 1, LastFull(path))
           /\ Len(TrimEndSlashes(path)) = LastFull(path)
           /\ LastFull(path) \in 0 .. Len(path)
           /\ LastFull(path) > 0 => /\ path[LastFull(path)] # ""
                                /\ TrimEndSlashes(path)[LastFull(path)] # ""
           /\ \A i \in (LastFull(path) + 1) .. Len(path) : path[i] = ""
<1>1. Len(path) \in Nat /\ DOMAIN path = 1 .. Len(path)
  BY LenProperties
<1>2. /\ LastFull(path) \in 0 .. Len(path)
      /\ LastFull(path) > 0 => path[LastFull(path)] # ""
      /\ \A i \in (LastFull(path) + 1) .. Len(path) : path[i] = ""
  BY <1>1, LastFacts
<1>3. TrimEndSlashes(path) = SubSeq(path, 1, LastFull(path))
  BY DEF TrimEndSlashes, LastFull
<1>4. /\ SubSeq(path, 1, LastFull(path)) \in Seq(S)
      /\ Len(SubSeq(path, 1, LastFull(path))) = LastFull(path)
      /\ \A i \in 1 .. LastFull(path) : SubSeq(path, 1, LastFull(path))[i] = path[i]
  BY <1>2, PrefixFacts
<1>5. LastFull(path) > 0 => LastFull(path) \in 1 .. LastFull(path)
  <2>1. PICK n \in Nat : n = Len(path)
    BY <1>1
  <2>2. LastFull(path) \in 0 .. n
    BY <1>2, <2>1
  <2> QED  BY <2>2
<1> QED  BY <1>2, <1>3, <1>4, <1>5

\* The parts of a URL, one by one.
Parts(scheme, host, path, query, fragment) ==
    [scheme |-> scheme, host |-> host, path |-> path, query |-> query,
     fragment |-> fragment]

LEMMA PathReplaced ==
    ASSUME NEW a, NEW b, NEW c, NEW d, NEW e, NEW path
    PROVE  [Parts(a, b, c, d, e) EXCEPT !.path = path] = Parts(a, b, path, d, e)
BY DEF Parts

LEMMA QueryReplaced ==
    ASSUME NEW a, NEW b, NEW c, NEW d, NEW e, NEW query
    PROVE  [Parts(a, b, c, d, e) EXCEPT !.query = query]
              = Parts(a, b, c, query, e)
BY DEF Parts

LEMMA QueryDropped ==
    ASSUME NEW a, NEW b, NEW c, NEW d, NEW e
    PROVE  WithoutQuery(Parts(a, b, c, d, e)) = Parts(a, b, c, None, FALSE)
<1>1. PICK no : no = FALSE
  OBVIOUS
<1>2. Parts(a, b, c, d, e)
         \in [{"scheme", "host", "path", "query", "fragment"} -> {a, b, c, d, e}]
  BY DEF Parts
<1>3. [Parts(a, b, c, d, e) EXCEPT !.query = None, !.fragment = no]
         = [[Parts(a, b, c, d, e) EXCEPT !.query = None] EXCEPT !.fragment = no]
  BY <1>2
<1>4. [Parts(a, b, c, d, e) EXCEPT !.query = None] = Parts(a, b, c, None, e)
  BY QueryReplaced
<1>5. [Parts(a, b, c, None, e) EXCEPT !.fragment = no] = Parts(a, b, c, None, no)
  BY DEF Parts
<1>6. WithoutQuery(Parts(a, b, c, d, e))
         = [Parts(a, b, c, d, e) EXCEPT !.query = None, !.fragment = no]
  BY <1>1 DEF WithoutQuery
<1> QED  BY <1>1, <1>3, <1>4, <1>5, <1>6

\* A URL with another path, and no query.
Rebuilt(url, path) == Parts(url.scheme, url.host, path, None, FALSE)

LEMMA PathSet ==
    ASSUME NEW url, NEW path, NEW whole, whole # <<>>
    PROVE  SetPath(Rebuilt(url, path), whole) = Rebuilt(url, whole)
<1>1. PICK no : no = FALSE
  OBVIOUS
<1>2. \A p : Rebuilt(url, p) = Parts(url.scheme, url.host, p, None, no)
  BY <1>1 DEF Rebuilt
<1>3. SetPath(Rebuilt(url, path), whole)
         = [Rebuilt(url, path) EXCEPT !.path = whole]
  BY DEF SetPath
<1> QED  BY <1>2, <1>3, PathReplaced

LEMMA Rebuild ==
    ASSUME NEW url, IsUrl(url), NEW path, path # <<>>
    PROVE  SetPath(WithoutQuery(url), path) = Rebuilt(url, path)
<1>1. url = Parts(url.scheme, url.host, url.path, url.query, url.fragment)
  BY DEF IsUrl, Parts
<1>2. WithoutQuery(Parts(url.scheme, url.host, url.path, url.query, url.fragment))
         = Rebuilt(url, url.path)
  BY QueryDropped DEF Rebuilt
<1>3. WithoutQuery(url) = Rebuilt(url, url.path)
  BY <1>1, <1>2
<1> QED  BY <1>3, PathSet

\* path_segments_mut on a base that main() built.
Front(path) == IF path[Len(path)] = "" THEN SubSeq(path, 1, Len(path) - 1)
               ELSE path

LEMMA EndpointOf ==
    ASSUME NEW url, NEW path, NEW segments,
           NEW whole, whole = Front(path) \o segments, whole # <<>>
    PROVE  EndpointUrl(Rebuilt(url, path), segments) = Rebuilt(url, whole)
<1>1. Rebuilt(url, path).path = path
  BY DEF Rebuilt, Parts
<1>2. EndpointUrl(Rebuilt(url, path), segments)
         = SetPath(WithoutQuery(Rebuilt(url, path)), Front(path) \o segments)
  BY <1>1 DEF EndpointUrl, Front
<1>3. WithoutQuery(Rebuilt(url, path)) = Rebuilt(url, path)
  BY QueryDropped DEF Rebuilt
<1> QED  BY <1>2, <1>3, PathSet

\* What one segment more does to a path.
LEMMA OneSegment ==
    ASSUME NEW S, NEW t \in Seq(S), NEW s \in S
    PROVE  /\ t \o <<s>> \in Seq(S) /\ t \o <<s>> # <<>>
           /\ (t \o <<s>>)[Len(t \o <<s>>)] = s
<1>1. <<s>> \in Seq(S) /\ Len(<<s>>) = 1
  OBVIOUS
<1>2. <<s>>[1] = s
  OBVIOUS
<1>3. PICK last : last = <<s>>
  OBVIOUS
<1>4. PICK n : n = Len(t) /\ n \in Nat
  BY LenProperties
<1>5. last \in Seq(S) /\ Len(last) = 1 /\ last[1] = s
  BY <1>1, <1>2, <1>3
<1>6. /\ t \o last \in Seq(S) /\ Len(t \o last) = Len(t) + Len(last)
      /\ \A i \in 1 .. Len(t) + Len(last) :
            (t \o last)[i] = IF i <= Len(t) THEN t[i] ELSE last[i - Len(t)]
  BY <1>5, ConcatProperties
<1>7. PICK m : m = Len(t) + 1
  OBVIOUS
<1>8. m \in 1 .. m /\ ~(m <= Len(t)) /\ m - Len(t) = 1 /\ m # 0
  <2>1. \A k \in Nat : k + 1 \in 1 .. k + 1 /\ ~(k + 1 <= k)
                       /\ k + 1 - k = 1 /\ k + 1 # 0
    OBVIOUS
  <2> QED  BY ONLY <1>4, <1>7, <2>1
<1>9. Len(t \o last) = m /\ (t \o last)[m] = last[m - Len(t)]
  <2>1. Len(t) + Len(last) = m
    BY ONLY <1>5, <1>7
  <2> QED  BY ONLY <1>6, <1>8, <2>1
<1>10. t \o last # <<>>
  <2>1. Len(<<>>) = 0
    OBVIOUS
  <2> QED  BY <1>8, <1>9, <2>1
<1> QED  BY ONLY <1>3, <1>5, <1>6, <1>8, <1>9, <1>10

\* pop_if_empty keeps a path that ends with a segment,
LEMMA SegmentStays ==
    ASSUME NEW S, NEW t \in Seq(S), NEW s \in S, s # ""
    PROVE  /\ t \o <<s>> \in Seq(S) /\ t \o <<s>> # <<>>
           /\ Front(t \o <<s>>) = t \o <<s>>
BY OneSegment DEF Front

\* and drops the empty segment of a base that has no path.
LEMMA BareFront == Front(<<"">>) = <<>>
<1>1. Len(<<"">>) = 1 /\ <<"">>[1] = ""
  OBVIOUS
<1>2. SubSeq(<<"">>, 1, 0) = <<>>
  BY SubSeqEmpty
<1> QED  BY <1>1, <1>2 DEF Front

LEMMA TrimmedFront ==
    ASSUME NEW S, NEW path \in Seq(S), TrimEndSlashes(path) # <<>>
    PROVE  Front(TrimEndSlashes(path)) = TrimEndSlashes(path)
<1> DEFINE t == TrimEndSlashes(path)
<1>1. /\ t \in Seq(S) /\ Len(t) = LastFull(path)
      /\ LastFull(path) \in 0 .. Len(path)
      /\ LastFull(path) > 0 => t[LastFull(path)] # ""
  BY TrimFacts
<1>2. PICK n \in Nat : n = Len(path)
  BY LenProperties
<1>3. LastFull(path) # 0
  BY <1>1, EmptySeq
<1>4. LastFull(path) \in 0 .. n
  BY <1>1, <1>2
<1>5. LastFull(path) > 0
  BY <1>3, <1>4
<1> HIDE DEF t
<1> QED  BY <1>1, <1>5 DEF Front, t

\* The segments a request to a base may have.
Segments(url) ==
    {url.path[i] : i \in DOMAIN url.path}
    \cup {"", "identity", "api", "connect", "token", "sync"}

LEMMA PathSegments ==
    ASSUME NEW url, IsUrl(url)
    PROVE  /\ url.path \in Seq(Segments(url))
           /\ TrimEndSlashes(url.path) \in Seq(Segments(url))
<1>1. url.path \in Seq({url.path[i] : i \in DOMAIN url.path})
  BY DEF IsUrl
<1>2. {url.path[i] : i \in DOMAIN url.path} \subseteq Segments(url)
  BY DEF Segments
<1>3. url.path \in Seq(Segments(url))
  BY <1>1, <1>2, SeqMonotonic
<1> QED  BY <1>3, TrimFacts

\* Segments appended one after the other.
Follows(p, t, one, more) ==
    p \o more = t \o (one \o more) /\ p \o more # <<>>

LEMMA Joined ==
    ASSUME NEW S, NEW t \in Seq(S), NEW one \in Seq(S), NEW more \in Seq(S),
           NEW p, p = t \o one, p # <<>>
    PROVE  Follows(p, t, one, more)
<1>1. p \o more = t \o (one \o more)
  OBVIOUS
<1>2. p \in Seq(S)
  OBVIOUS
<1> QED  BY <1>1, <1>2, ConcatEqualIffEmpty DEF Follows

\* The URL of a request, when one origin is configured,
LEMMA SingleUrl ==
    ASSUME NEW url, IsUrl(url), NEW s \in {"identity", "api"},
           NEW segments \in Seq(Segments(url))
    PROVE  EndpointUrl(AppendPathSegments(url, <<s>>), segments)
              = Rebuilt(url, TrimEndSlashes(url.path) \o (<<s>> \o segments))
<1> DEFINE S == Segments(url)
           t == TrimEndSlashes(url.path)
<1>1. t \in Seq(S) /\ s \in S /\ s # ""
  BY PathSegments DEF Segments
<1>2. <<s>> \in Seq(S)
  <2>1. ASSUME NEW a \in S PROVE <<a>> \in Seq(S)
    OBVIOUS
  <2> QED  BY <1>1, <2>1
<1> HIDE DEF S, t
<1>3. PICK one : one = <<s>>
  OBVIOUS
<1>4. PICK p : p = t \o one
  OBVIOUS
<1>5. p \in Seq(S) /\ p # <<>> /\ Front(p) = p
  BY <1>1, <1>3, <1>4, SegmentStays
<1>6. AppendPathSegments(url, <<s>>) = Rebuilt(url, p)
  BY <1>3, <1>4, <1>5, Rebuild DEF AppendPathSegments, t
<1>7. segments \in Seq(S) /\ one \in Seq(S)
  BY <1>2, <1>3 DEF S
<1>8. p \o segments = t \o (one \o segments) /\ p \o segments # <<>>
  <2>1. Follows(p, t, one, segments)
    BY <1>1, <1>4, <1>5, <1>7, Joined
  <2> QED  BY ONLY <2>1 DEF Follows
<1>9. PICK whole : whole = p \o segments
  OBVIOUS
<1>10. whole = Front(p) \o segments /\ whole # <<>>
  BY <1>5, <1>8, <1>9
<1>11. EndpointUrl(Rebuilt(url, p), segments) = Rebuilt(url, whole)
  BY <1>10, EndpointOf
<1> QED  BY <1>3, <1>6, <1>8, <1>9, <1>11 DEF t

\* and when its base is configured.
LEMMA SplitUrl ==
    ASSUME NEW url, IsUrl(url),
           NEW segments \in Seq(Segments(url)), segments # <<>>
    PROVE  EndpointUrl(NormalizeEndpointBase(url), segments)
              = Rebuilt(url, TrimEndSlashes(url.path) \o segments)
<1> DEFINE S == Segments(url)
           t == TrimEndSlashes(url.path)
           p == IF t = <<>> THEN <<"">> ELSE t
<1>1. t \in Seq(S) /\ url.path \in Seq(S)
  BY PathSegments
<1>2. t \o <<>> = t
  BY <1>1, ConcatEmptySeq
<1>3. <<"">> # <<>>
  OBVIOUS
<1>4. SetPath(WithoutQuery(url), t) = SetPath(WithoutQuery(url), p)
  BY <1>3 DEF SetPath
<1>5. NormalizeEndpointBase(url) = SetPath(WithoutQuery(url), t)
  BY <1>2 DEF NormalizeEndpointBase, AppendPathSegments
<1>6. Front(p) = t
  BY <1>1, BareFront, TrimmedFront
<1>7. p # <<>>
  BY <1>3
<1> HIDE DEF S, t, p
<1>8. NormalizeEndpointBase(url) = Rebuilt(url, p)
  BY <1>4, <1>5, <1>7, Rebuild
<1>9. t \o segments # <<>>
  BY <1>1, ConcatEqualIffEmpty DEF S
<1> QED  BY <1>6, <1>8, <1>9, EndpointOf DEF t

\* A path is what is left of the configured one, and the tail.
Built(path, base, tail) ==
    LET kept == Len(path) - Len(tail) IN
    /\ kept >= 0
    /\ path = SubSeq(base, 1, kept) \o tail
    /\ \A i \in (kept + 1) .. Len(base) : base[i] = ""
    /\ kept > 0 => base[kept] # ""

LEMMA PathBuilt ==
    ASSUME NEW S, NEW base \in Seq(S), NEW tail \in Seq(S)
    PROVE  Built(TrimEndSlashes(base) \o tail, base, tail)
<1> DEFINE t == TrimEndSlashes(base)
           path == t \o tail
<1>1. /\ t \in Seq(S) /\ t = SubSeq(base, 1, LastFull(base))
      /\ Len(t) = LastFull(base) /\ LastFull(base) \in 0 .. Len(base)
      /\ LastFull(base) > 0 => base[LastFull(base)] # ""
      /\ \A i \in (LastFull(base) + 1) .. Len(base) : base[i] = ""
  BY TrimFacts
<1>2. Len(path) = Len(t) + Len(tail)
  BY <1>1, ConcatProperties
<1>3. Len(t) \in Nat /\ Len(tail) \in Nat
  BY <1>1, LenProperties
<1>4. \A m, n \in Nat : m + n - n = m /\ m >= 0
  OBVIOUS
<1> HIDE DEF t, path
<1>5. Len(path) - Len(tail) = Len(t) /\ Len(t) >= 0
  BY ONLY <1>2, <1>3, <1>4
<1>6. Len(path) - Len(tail) = LastFull(base) /\ LastFull(base) >= 0
  BY ONLY <1>1, <1>5
<1>7. path = SubSeq(base, 1, LastFull(base)) \o tail
  BY <1>1 DEF path
<1>8. Built(path, base, tail)
  BY ONLY <1>1, <1>6, <1>7 DEF Built
<1> QED  BY <1>8 DEF path, t

\* A configured URL that is secure is a URL over HTTPS or to this machine.
SecureUrl(url) ==
    /\ IsUrl(url)
    /\ url.scheme = "https" \/ url.host \in {"localhost", "127.0.0.1"}

LEMMA SecureUrls ==
    ASSUME NEW raw, IsConfiguredUrl(raw), Secure(raw)
    PROVE  SecureUrl(raw.url)
BY DEF IsConfiguredUrl, Secure, SecureUrl

\* The bases main() built, for a configuration whose URLs it accepted.
LEMMA ConfiguredBases ==
    ASSUME NEW c \in Configs, UrlsChosen(c)
    PROVE  IF c.single_origin_url # None
           THEN /\ SecureUrl(c.single_origin_url.url)
                /\ EndpointsOf(c) =
                      [identity_url |-> AppendPathSegments(
                          c.single_origin_url.url, <<"identity">>),
                       api_url |-> AppendPathSegments(
                          c.single_origin_url.url, <<"api">>)]
           ELSE /\ SecureUrl(c.identity_url.url) /\ SecureUrl(c.api_url.url)
                /\ EndpointsOf(c) =
                      [identity_url |-> NormalizeEndpointBase(c.identity_url.url),
                       api_url |-> NormalizeEndpointBase(c.api_url.url)]
<1>1. CASE c.single_origin_url # None
  <2>1. Secure(c.single_origin_url) /\ IsConfiguredUrl(c.single_origin_url)
    BY <1>1, UrlOptions, ConfigFacts
  <2> QED  BY <1>1, <2>1, SecureUrls DEF EndpointsOf, FromSingleOrigin
<1>2. CASE c.single_origin_url = None
  <2>1. /\ Secure(c.identity_url) /\ IsConfiguredUrl(c.identity_url)
        /\ Secure(c.api_url) /\ IsConfiguredUrl(c.api_url)
    BY <1>2, UrlOptions, ConfigFacts
  <2> QED  BY <1>2, <2>1, SecureUrls DEF EndpointsOf
<1> QED  BY <1>1, <1>2

\* What UrlsExact says of a request to a base.
Exact(url, base, tail, query) ==
    /\ url.host = base.host /\ url.scheme = base.scheme
    /\ base.scheme = "https" \/ base.host \in {"localhost", "127.0.0.1"}
    /\ Built(url.path, base.path, tail)
    /\ url.query = query /\ ~url.fragment

LEMMA RequestExact ==
    ASSUME NEW base, SecureUrl(base), NEW tail \in Seq(Segments(base)),
           NEW query
    PROVE  Exact(Parts(base.scheme, base.host,
                       TrimEndSlashes(base.path) \o tail, query, FALSE),
                 base, tail, query)
<1> DEFINE path == TrimEndSlashes(base.path) \o tail
           url == Parts(base.scheme, base.host, path, query, FALSE)
<1>1. Built(path, base.path, tail)
  BY PathSegments, PathBuilt DEF SecureUrl
<1> HIDE DEF path
<1>2. /\ url.host = base.host /\ url.scheme = base.scheme
      /\ url.path = path /\ url.query = query /\ ~url.fragment
  BY DEF Parts
<1> HIDE DEF url
<1> QED  BY <1>1, <1>2 DEF Exact, SecureUrl, url, path

\* The segments of the protocol.
LEMMA ProtocolSegments ==
    ASSUME NEW url
    PROVE  /\ <<"connect", "token">> \in Seq(Segments(url))
           /\ <<"sync">> \in Seq(Segments(url))
           /\ <<"identity">> \in Seq(Segments(url))
           /\ <<"api">> \in Seq(Segments(url))
           /\ <<"connect", "token">> # <<>> /\ <<"sync">> # <<>>
<1>1. /\ "connect" \in Segments(url) /\ "token" \in Segments(url)
      /\ "sync" \in Segments(url) /\ "identity" \in Segments(url)
      /\ "api" \in Segments(url)
  BY DEF Segments
<1>2. ASSUME NEW S, NEW a \in S, NEW b \in S
      PROVE  <<a, b>> \in Seq(S) /\ <<a>> \in Seq(S)
  OBVIOUS
<1>3. <<"connect", "token">> # <<>> /\ <<"sync">> # <<>>
  OBVIOUS
<1> QED  BY <1>1, <1>2, <1>3

\* A request to one origin, with its query,
LEMMA SingleExact ==
    ASSUME NEW base, SecureUrl(base), NEW s \in {"identity", "api"},
           NEW segments \in Seq(Segments(base))
    PROVE  LET url == EndpointUrl(AppendPathSegments(base, <<s>>), segments) IN
           /\ Exact(url, base, <<s>> \o segments, None)
           /\ \A query : Exact([url EXCEPT !.query = query], base,
                               <<s>> \o segments, query)
<1> DEFINE tail == <<s>> \o segments
           path == TrimEndSlashes(base.path) \o tail
           url == EndpointUrl(AppendPathSegments(base, <<s>>), segments)
<1>1. <<s>> \in Seq(Segments(base))
  BY ProtocolSegments
<1>2. tail \in Seq(Segments(base))
  BY <1>1, ConcatProperties
<1>3. url = Parts(base.scheme, base.host, path, None, FALSE)
  BY SingleUrl DEF SecureUrl, Rebuilt
<1> HIDE DEF tail, url
<1>4. \A query : Exact(Parts(base.scheme, base.host, path, query, FALSE),
                       base, tail, query)
  BY <1>2, RequestExact
<1> HIDE DEF path
<1>5. PICK no : no = FALSE
  OBVIOUS
<1>6. \A query : [url EXCEPT !.query = query]
                    = Parts(base.scheme, base.host, path, query, no)
  <2> TAKE query
  <2>1. url = Parts(base.scheme, base.host, path, None, no)
    BY <1>3, <1>5
  <2>2. [Parts(base.scheme, base.host, path, None, no) EXCEPT !.query = query]
           = Parts(base.scheme, base.host, path, query, no)
    BY QueryReplaced
  <2> QED  BY <2>1, <2>2
<1>7. /\ Exact(url, base, tail, None)
      /\ \A query : Exact([url EXCEPT !.query = query], base, tail, query)
  BY <1>3, <1>4, <1>5, <1>6
<1> QED  BY <1>7 DEF tail, url

\* and to a base of its own.
LEMMA SplitExact ==
    ASSUME NEW base, SecureUrl(base),
           NEW segments \in Seq(Segments(base)), segments # <<>>
    PROVE  LET url == EndpointUrl(NormalizeEndpointBase(base), segments) IN
           /\ Exact(url, base, segments, None)
           /\ \A query : Exact([url EXCEPT !.query = query], base, segments, query)
<1> DEFINE path == TrimEndSlashes(base.path) \o segments
           url == EndpointUrl(NormalizeEndpointBase(base), segments)
<1>1. url = Parts(base.scheme, base.host, path, None, FALSE)
  BY SplitUrl DEF SecureUrl, Rebuilt
<1> HIDE DEF url
<1>2. \A query : Exact(Parts(base.scheme, base.host, path, query, FALSE),
                       base, segments, query)
  BY RequestExact
<1> HIDE DEF path
<1>3. PICK no : no = FALSE
  OBVIOUS
<1>4. \A query : [url EXCEPT !.query = query]
                    = Parts(base.scheme, base.host, path, query, no)
  <2> TAKE query
  <2>1. url = Parts(base.scheme, base.host, path, None, no)
    BY <1>1, <1>3
  <2>2. [Parts(base.scheme, base.host, path, None, no) EXCEPT !.query = query]
           = Parts(base.scheme, base.host, path, query, no)
    BY QueryReplaced
  <2> QED  BY <2>1, <2>2
<1>5. /\ Exact(url, base, segments, None)
      /\ \A query : Exact([url EXCEPT !.query = query], base, segments, query)
  BY <1>1, <1>2, <1>3, <1>4
<1> QED  BY <1>5 DEF url

\* UrlsExact, in these terms.
LEMMA UrlsExactParts ==
    ASSUME sent # None =>
              LET single == config.single_origin_url # None IN
              IF sent.what = "login"
              THEN IF single
                   THEN Exact(sent.url, config.single_origin_url.url,
                              <<"identity">> \o <<"connect", "token">>, None)
                   ELSE Exact(sent.url, config.identity_url.url,
                              <<>> \o <<"connect", "token">>, None)
              ELSE IF single
                   THEN Exact(sent.url, config.single_origin_url.url,
                              <<"api">> \o <<"sync">>, "excludeDomains=true")
                   ELSE Exact(sent.url, config.api_url.url,
                              <<>> \o <<"sync">>, "excludeDomains=true")
    PROVE  UrlsExact
<1> SUFFICES ASSUME sent # None PROVE UrlsExact
  BY DEF UrlsExact
<1>1. CASE sent.what = "login"
  <2>1. CASE config.single_origin_url # None
    BY <1>1, <2>1 DEF UrlsExact, Exact, Built
  <2>2. CASE config.single_origin_url = None
    BY <1>1, <2>2 DEF UrlsExact, Exact, Built
  <2> QED  BY <2>1, <2>2
<1>2. CASE sent.what # "login"
  <2>1. CASE config.single_origin_url # None
    BY <1>2, <2>1 DEF UrlsExact, Exact, Built
  <2>2. CASE config.single_origin_url = None
    BY <1>2, <2>2 DEF UrlsExact, Exact, Built
  <2> QED  BY <2>1, <2>2
<1> QED  BY <1>1, <1>2

\* Whatever is configured, every upstream request goes to the configured host,
\* over HTTPS or to this machine, at the configured path without the slashes
\* that end it, followed by the segments of the protocol.
THEOREM SendsExactly == Spec => []UrlsExact
<1>1. StartInv => UrlsExact
  <2> SUFFICES ASSUME StartInv PROVE UrlsExact
    OBVIOUS
  <2> DEFINE login == <<"connect", "token">>
             sync == <<"sync">>
             excluded == "excludeDomains=true"
  <2>1. ASSUME sent # None
        PROVE  LET single == config.single_origin_url # None IN
               IF sent.what = "login"
               THEN IF single
                    THEN Exact(sent.url, config.single_origin_url.url,
                               <<"identity">> \o login, None)
                    ELSE Exact(sent.url, config.identity_url.url,
                               <<>> \o login, None)
               ELSE IF single
                    THEN Exact(sent.url, config.single_origin_url.url,
                               <<"api">> \o sync, excluded)
                    ELSE Exact(sent.url, config.api_url.url,
                               <<>> \o sync, excluded)
    <3>1. /\ config \in Configs /\ UrlsChosen(config)
          /\ endpoints = EndpointsOf(config)
      BY <2>1 DEF StartInv
    <3>2. \/ /\ sent.what = "login"
             /\ sent.url = EndpointUrl(endpoints.identity_url, login)
          \/ /\ sent.what = "sync"
             /\ sent.url = [EndpointUrl(endpoints.api_url, sync)
                               EXCEPT !.query = excluded]
      <4>1. \/ sent = [what |-> "login", url |-> LoginUrl(endpoints),
                       scope |-> Scope]
            \/ sent = [what |-> "sync", url |-> SyncUrl(endpoints)]
        BY <2>1 DEF StartInv
      <4>2. \/ sent.what = "login" /\ sent.url = LoginUrl(endpoints)
            \/ sent.what = "sync" /\ sent.url = SyncUrl(endpoints)
        BY <4>1
      <4> QED  BY <4>2 DEF LoginUrl, SyncUrl
    <3>3. \A url : /\ login \in Seq(Segments(url)) /\ sync \in Seq(Segments(url))
                   /\ login # <<>> /\ sync # <<>>
                   /\ <<>> \o login = login /\ <<>> \o sync = sync
      BY ProtocolSegments, ConcatEmptySeq
    <3> HIDE DEF login, sync, excluded
    <3>4. CASE config.single_origin_url # None
      <4> DEFINE base == config.single_origin_url.url
      <4>1. /\ SecureUrl(base)
            /\ endpoints.identity_url = AppendPathSegments(base, <<"identity">>)
            /\ endpoints.api_url = AppendPathSegments(base, <<"api">>)
        BY <3>1, <3>4, ConfiguredBases
      <4> HIDE DEF base
      <4>2. CASE sent.what = "login"
        <5>1. sent.url
                 = EndpointUrl(AppendPathSegments(base, <<"identity">>), login)
          BY <3>2, <4>1, <4>2
        <5>2. Exact(sent.url, base, <<"identity">> \o login, None)
          BY <3>3, <4>1, <5>1, SingleExact
        <5> QED  BY <3>4, <4>2, <5>2 DEF base
      <4>3. CASE sent.what # "login"
        <5>1. sent.url
                 = [EndpointUrl(AppendPathSegments(base, <<"api">>), sync)
                       EXCEPT !.query = excluded]
          BY <3>2, <4>1, <4>3
        <5>2. Exact(sent.url, base, <<"api">> \o sync, excluded)
          BY <3>3, <4>1, <5>1, SingleExact
        <5> QED  BY <3>4, <4>3, <5>2 DEF base
      <4> QED  BY <4>2, <4>3
    <3>5. CASE config.single_origin_url = None
      <4> DEFINE identity == config.identity_url.url
                 api == config.api_url.url
      <4>1. /\ SecureUrl(identity) /\ SecureUrl(api)
            /\ endpoints.identity_url = NormalizeEndpointBase(identity)
            /\ endpoints.api_url = NormalizeEndpointBase(api)
        BY <3>1, <3>5, ConfiguredBases
      <4> HIDE DEF identity, api
      <4>2. CASE sent.what = "login"
        <5>1. sent.url = EndpointUrl(NormalizeEndpointBase(identity), login)
          BY <3>2, <4>1, <4>2
        <5>2. Exact(sent.url, identity, login, None)
          BY <3>3, <4>1, <5>1, SplitExact
        <5> QED  BY <3>3, <3>5, <4>2, <5>2 DEF identity
      <4>3. CASE sent.what # "login"
        <5>1. sent.url = [EndpointUrl(NormalizeEndpointBase(api), sync)
                             EXCEPT !.query = excluded]
          BY <3>2, <4>1, <4>3
        <5>2. Exact(sent.url, api, sync, excluded)
          BY <3>3, <4>1, <5>1, SplitExact
        <5> QED  BY <3>3, <3>5, <4>3, <5>2 DEF api
      <4> QED  BY <4>2, <4>3
    <3> QED  BY <3>4, <3>5
  <2> QED  BY <2>1, UrlsExactParts
<1> QED  BY <1>1, Invariance, PTL
=============================================================================

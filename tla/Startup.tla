------------------------------- MODULE Startup -------------------------------
(***************************************************************************)
(* main() from the parsed arguments to the served requests: the healthcheck *)
(* command, the steps that validate the configuration and build the         *)
(* provider, the webhook authentication, and the authorization of requests. *)
(* Every step can end the process with an error, and the steps are ordered: *)
(* nothing is spawned or bound before the whole configuration is accepted.  *)
(*                                                                          *)
(* A text is its core and the whitespace around it: `lead` is "" or "sp",   *)
(* `trail` one of "", "sp", "nl", "sp nl" and "nl sp"; a core of "" is a    *)
(* blank text.  A source is what an option and its _file twin hold: a text  *)
(* and a file, each possibly None.  The selector policy is module           *)
(* PolicyReload: here it is accepted or not, and has a file or not.  A      *)
(* configuration also says what the process finds outside: whether the HTTP *)
(* client builds and the address is free, and what a healthcheck meets.     *)
(***************************************************************************)
EXTENDS Endpoints

CONSTANTS
    Cores,      \* what texts may hold between their whitespace
    Configs,    \* the arguments, and what the process finds outside
    Headers     \* Authorization headers a request may carry

Credentials == {"client_id", "client_secret", "master_password"}

Texts == [core : Cores, lead : {"", "sp"},
          trail : {"", "sp", "nl", "sp nl", "nl sp"}]

ASSUME NoneIsNoText ==
    None \notin Texts /\ None \notin {"unreadable", "garbled", "empty"}

\* What clap guarantees of the arguments, and what Url::parse keeps.
ASSUME ConfigsAssumption ==
    \A c \in Configs :
        /\ {"policy", "policy_reload_interval_seconds"} \subseteq DOMAIN c
        /\ \A name \in Credentials \cup {"webhook_auth_token"} :
              /\ name \in DOMAIN c
              /\ c[name] \in [inline : Texts \cup {None},
                             file : [readable : BOOLEAN, text : Texts]
                                       \cup {None}]
        /\ c.policy_reload_interval_seconds \in Nat
        /\ c.http_connect_timeout_seconds \in Nat
        /\ c.http_request_timeout_seconds \in Nat
        /\ c.ca_bundle_file \in {None, "unreadable", "garbled", "empty",
                                 "certificates"}
        /\ c.insecure_allow_unauthenticated \in BOOLEAN
        /\ c.client_builds \in BOOLEAN /\ c.address_free \in BOOLEAN
        /\ \A name \in {"single_origin_url", "identity_url", "api_url",
                         "healthcheck_url"} :
              c[name] = None \/ IsConfiguredUrl(c[name])

\* A client can present every text that a header can carry, and no other.
ASSUME HeadersAssumption ==
    /\ \A core \in Cores \ {"", "non-ascii"} :
          [form |-> "scheme and token", scheme |-> "Bearer",
           token |-> [core |-> core, lead |-> "", trail |-> ""]] \in Headers
    /\ \A header \in Headers :
          /\ header.form \in {"absent", "not ascii", "no space",
                             "scheme and token"}
          /\ header.scheme \in {"", "Basic", "Bearer", "bearer"}
          /\ header.token \in Texts /\ header.token.core # "non-ascii"

VARIABLES
    pc,        \* the step main() is at
    config,    \* the arguments as they were given (history)
    args,      \* the arguments in memory
    held,      \* held[c]: the credential c as the client uses it
    endpoints, \* the bases of the upstream server, or None
    certs,     \* extra root certificates of the HTTP client
    auth,      \* WebhookAuth, or None
    baseline,  \* the policy gauges were seeded
    reloading, \* the reload task runs
    request,   \* the last request: its header and is_authorized, or None
    sent       \* the last upstream request, or None

built == <<held, endpoints, certs, auth>>
vars == <<pc, config, args, built, baseline, reloading, request, sent>>

Init ==
    /\ pc = "parsed"
    /\ config \in Configs
    /\ args = config
    /\ held = [c \in Credentials |-> None]
    /\ endpoints = None
    /\ certs = 0
    /\ auth = None
    /\ baseline = FALSE
    /\ reloading = FALSE
    /\ request = None
    /\ sent = None

-----------------------------------------------------------------------------
(* Reading options.                                                         *)

IsBlank(text) == text.core = ""

\* trim_end_matches(['\r', '\n'])
TrimEndNewlines(text) ==
    [text EXCEPT !.trail = CASE @ = "nl" -> ""
                             [] @ = "sp nl" -> "sp"
                             [] OTHER -> @]

ReadOptionalSensitiveArg(source) ==
    CASE source.inline # None /\ source.file # None -> [error |-> "both"]
      [] source.inline # None /\ source.file = None ->
            IF IsBlank(source.inline) THEN [error |-> "blank"]
            ELSE [value |-> source.inline]
      [] source.inline = None /\ source.file # None ->
            IF ~source.file.readable THEN [error |-> "unreadable"]
            ELSE IF IsBlank(source.file.text) THEN [error |-> "blank"]
            ELSE [value |-> TrimEndNewlines(source.file.text)]
      [] OTHER -> [value |-> None]

ReadSensitiveArg(source) ==
    LET result == ReadOptionalSensitiveArg(source) IN
    IF ~Failed(result) /\ result.value = None THEN [error |-> "missing"]
    ELSE result

EndpointsFromArgs ==
    CASE args.single_origin_url # None
           /\ args.identity_url = None /\ args.api_url = None ->
            LET endpoint == ParseNamed(args.single_origin_url) IN
            IF Failed(endpoint) THEN endpoint
            ELSE FromSingleOrigin(endpoint.url)
      [] args.single_origin_url = None
           /\ args.identity_url # None /\ args.api_url # None ->
            ParseSplit(args.identity_url, args.api_url)
      [] OTHER -> [error |-> "endpoint_mode"]

LoadExtraRootCertificates ==
    CASE args.ca_bundle_file = None -> [certificates |-> 0]
      [] args.ca_bundle_file \in {"unreadable", "garbled"} ->
            [error |-> args.ca_bundle_file]
      [] args.ca_bundle_file = "empty" -> [error |-> "no certificates"]
      [] OTHER -> [certificates |-> 1]

WebhookAuthFromArgs ==
    LET token == ReadOptionalSensitiveArg(args.webhook_auth_token) IN
    CASE Failed(token) -> token
      [] ~Failed(token) /\ token.value # None
           /\ args.insecure_allow_unauthenticated -> [error |-> "both"]
      [] ~Failed(token) /\ token.value # None
           /\ ~args.insecure_allow_unauthenticated ->
            [mode |-> "Required", token |-> token.value]
      [] ~Failed(token) /\ token.value = None
           /\ args.insecure_allow_unauthenticated ->
            [mode |-> "DisabledInsecure"]
      [] OTHER -> [error |-> "no authentication"]

-----------------------------------------------------------------------------
(* The steps of main().                                                     *)

Goto(label) == pc' = label

\* `?`: an error ends the process.
Check(ok, next) == Goto(IF ok THEN next ELSE "failed")

Serve ==
    /\ pc = "parsed"
    /\ args.healthcheck_url = None
    /\ Goto("client_id")
    /\ UNCHANGED <<config, args, built, baseline, reloading, request, sent>>

ReadCredential(name, next) ==
    LET result == ReadSensitiveArg(args[name]) IN
    /\ pc = name
    /\ Check(~Failed(result), next)
    /\ held' = IF Failed(result) THEN held
               ELSE [held EXCEPT ![name] = result.value]
    /\ UNCHANGED <<config, args, endpoints, certs, auth, baseline, reloading,
                   request, sent>>

ReadCredentials ==
    \/ ReadCredential("client_id", "client_secret")
    \/ ReadCredential("client_secret", "master_password")
    \/ ReadCredential("master_password", "limits")

CheckLimits ==
    /\ pc = "limits"
    /\ Check(/\ ~IsBlank(args.device_identifier)
             /\ ~IsBlank(args.device_name)
             /\ args.http_connect_timeout_seconds # 0
             /\ args.http_request_timeout_seconds # 0, "endpoints")
    /\ UNCHANGED <<config, args, built, baseline, reloading, request, sent>>

BuildEndpoints ==
    /\ pc = "endpoints"
    /\ Check(~Failed(EndpointsFromArgs), "ca_bundle")
    /\ endpoints' = IF Failed(EndpointsFromArgs) THEN None
                    ELSE EndpointsFromArgs
    /\ UNCHANGED <<config, args, held, certs, auth, baseline, reloading,
                   request, sent>>

\* The HTTP client is built with these certificates, or fails to build.
BuildClient ==
    /\ pc = "ca_bundle"
    /\ Check(/\ ~Failed(LoadExtraRootCertificates)
             /\ config.client_builds, "policy")
    /\ certs' = IF Failed(LoadExtraRootCertificates) THEN 0
                ELSE LoadExtraRootCertificates.certificates
    /\ UNCHANGED <<config, args, held, endpoints, auth, baseline, reloading,
                   request, sent>>

EvaluatePolicy ==
    /\ pc = "policy"
    /\ Check(args.policy # "invalid", "auth")
    /\ UNCHANGED <<config, args, built, baseline, reloading, request, sent>>

ConfigureAuth ==
    /\ pc = "auth"
    /\ Check(~Failed(WebhookAuthFromArgs), "zeroize")
    /\ auth' = IF Failed(WebhookAuthFromArgs) THEN None
               ELSE WebhookAuthFromArgs
    /\ UNCHANGED <<config, args, held, endpoints, certs, baseline, reloading,
                   request, sent>>

\* Mutant: the token is forgotten.
ZeroizeCredentialsOnly ==
    /\ pc = "zeroize"
    /\ args' = [name \in DOMAIN args |->
          IF name \in Credentials THEN [args[name] EXCEPT !.inline = None]
          ELSE args[name]]
    /\ Goto("baseline")
    /\ UNCHANGED <<config, built, baseline, reloading, request, sent>>

ZeroizeSensitive ==
    /\ pc = "zeroize"
    /\ args' = [name \in DOMAIN args |->
          IF name \in Credentials \cup {"webhook_auth_token"}
          THEN [args[name] EXCEPT !.inline = None]
          ELSE args[name]]
    /\ Goto("baseline")
    /\ UNCHANGED <<config, built, baseline, reloading, request, sent>>

\* record_policy_baseline, then spawn_policy_reload.
StartPolicyReload ==
    /\ pc = "baseline"
    /\ baseline' = (args.policy = "file")
    /\ reloading' = (args.policy = "file"
                       /\ args.policy_reload_interval_seconds # 0)
    /\ Goto("bind")
    /\ UNCHANGED <<config, args, built, request, sent>>

Bind ==
    /\ pc = "bind"
    /\ Check(config.address_free, "serving")
    /\ reloading' = (reloading /\ pc' = "serving")
    /\ UNCHANGED <<config, args, built, baseline, request, sent>>

-----------------------------------------------------------------------------
(* Authorization of requests.                                               *)

Clean(text) == text.lead = "" /\ text.trail = ""

\* Mutant: the presented token is trimmed before the comparison.
IsAuthorizedTrimmed(header) ==
    \/ auth.mode = "DisabledInsecure"
    \/ /\ auth.mode = "Required"
       /\ header.form = "scheme and token"
       /\ header.scheme \in {"Bearer", "bearer"}
       /\ header.token.core = auth.token.core

\* A header that is absent, not visible ASCII, or without a space is refused;
\* the scheme is compared without case, the token byte by byte.
IsAuthorized(header) ==
    \/ auth.mode = "DisabledInsecure"
    \/ /\ auth.mode = "Required"
       /\ header.form = "scheme and token"
       /\ header.scheme \in {"Bearer", "bearer"}
       /\ ~IsBlank(header.token)
       /\ Clean(header.token)
       /\ header.token = auth.token

Resolve ==
    /\ pc = "serving"
    /\ \E header \in Headers :
          request' = [header |-> header, authorized |-> IsAuthorized(header)]
    /\ UNCHANGED <<pc, config, args, built, baseline, reloading, sent>>

-----------------------------------------------------------------------------
(* Upstream requests.                                                       *)

\* starts_with on the text as it was read.
Scope ==
    IF held["client_id"].lead = "" /\ held["client_id"].core = "organization.id"
    THEN "api.organization" ELSE "api"

LoginWithApiKey ==
    /\ pc = "serving"
    /\ sent' = [what |-> "login", url |-> LoginUrl(endpoints), scope |-> Scope]
    /\ UNCHANGED <<pc, config, args, built, baseline, reloading, request>>

Sync ==
    /\ pc = "serving"
    /\ sent' = [what |-> "sync", url |-> SyncUrl(endpoints)]
    /\ UNCHANGED <<pc, config, args, built, baseline, reloading, request>>

-----------------------------------------------------------------------------
(* The healthcheck command.                                                 *)

ParseHealthcheckTarget ==
    /\ pc = "parsed"
    /\ args.healthcheck_url # None
    /\ Check(/\ args.healthcheck_url.text = "url"
             /\ args.healthcheck_url.url.scheme = "http", "connect")
    /\ UNCHANGED <<config, args, built, baseline, reloading, request, sent>>

\* TcpStream::connect takes the text of host_str: brackets do not resolve.
Connect ==
    /\ pc = "connect"
    /\ Check(/\ config.response # None
             /\ HostStr(args.healthcheck_url.url) # "[::1]", "read")
    /\ UNCHANGED <<config, args, built, baseline, reloading, request, sent>>

EnsureSuccessfulHealthcheckResponse(response) ==
    response.lines /\ response.version \in {"1.0", "1.1"} /\ response.class = 2

\* read_to_string ends when the server closes the connection, or fails when
\* nothing is read for two seconds.
ReadResponse ==
    /\ pc = "read"
    /\ Check(/\ config.response.closes
             /\ EnsureSuccessfulHealthcheckResponse(config.response), "healthy")
    /\ UNCHANGED <<config, args, built, baseline, reloading, request, sent>>

\* The process has exited.
Ended == pc \in {"failed", "healthy"} /\ UNCHANGED vars

Next ==
    \/ Serve \/ ReadCredentials \/ CheckLimits \/ BuildEndpoints
    \/ BuildClient \/ EvaluatePolicy \/ ConfigureAuth
    \/ ZeroizeSensitive \/ StartPolicyReload \/ Bind
    \/ Resolve \/ LoginWithApiKey \/ Sync
    \/ ParseHealthcheckTarget \/ Connect \/ ReadResponse
    \/ Ended

Spec == Init /\ [][Next]_vars
-----------------------------------------------------------------------------
(* Properties.                                                              *)

\* A source with exactly one text, which can be read and is not blank.
Usable(source) ==
    \/ /\ source.file = None
       /\ source.inline # None /\ source.inline.core # ""
    \/ /\ source.inline = None
       /\ source.file # None /\ source.file.readable
       /\ source.file.text.core # ""

Secure(raw) ==
    /\ raw.text = "url"
    /\ \/ raw.url.scheme = "https"
       \/ raw.url.scheme = "http" /\ raw.url.host \in {"localhost", "127.0.0.1"}

Acceptable(c) ==
    /\ c.healthcheck_url = None
    /\ \A name \in Credentials : Usable(c[name])
    /\ c.device_identifier.core # "" /\ c.device_name.core # ""
    /\ c.http_connect_timeout_seconds > 0 /\ c.http_request_timeout_seconds > 0
    /\ LET given == {u \in {"single_origin_url", "identity_url", "api_url"} :
                       c[u] # None}
       IN  /\ given \in {{"single_origin_url"}, {"identity_url", "api_url"}}
           /\ \A u \in given : Secure(c[u])
    /\ c.ca_bundle_file \in {None, "certificates"}
    /\ c.policy # "invalid"
    /\ \/ Usable(c.webhook_auth_token) /\ ~c.insecure_allow_unauthenticated
       \/ /\ c.webhook_auth_token = [inline |-> None, file |-> None]
          /\ c.insecure_allow_unauthenticated
    /\ c.client_builds /\ c.address_free

Healthy(c) ==
    /\ c.healthcheck_url # None /\ c.healthcheck_url.text = "url"
    /\ c.healthcheck_url.url.scheme = "http" /\ c.healthcheck_url.url.host # "::1"
    /\ c.response # None /\ c.response.lines /\ c.response.closes
    /\ c.response.version \in {"1.0", "1.1"} /\ c.response.class = 2

\* What a process that serves or fails says of its configuration, whatever
\* the order of the steps: it serves only an acceptable configuration and
\* refuses only others; when it serves, no inline secret is left in the
\* arguments, a secret is what was configured but for the newlines that end
\* a file, and the reload task runs exactly for a policy file with an
\* interval.  A healthcheck never builds a provider, and succeeds exactly on
\* a complete 2xx response.
StartsExactly ==
    /\ pc = "serving" =>
          /\ Acceptable(config)
          /\ \A name \in Credentials \cup {"webhook_auth_token"} :
                args[name].inline = None
          /\ \A name \in Credentials :
                LET source == config[name] IN
                \/ held[name] = source.inline
                \/ /\ source.file # None
                   /\ held[name].core = source.file.text.core
                   /\ held[name].lead = source.file.text.lead
                   /\ held[name].trail \in {"", "sp", "nl sp"}
          /\ baseline <=> config.policy = "file"
          /\ reloading <=>
                baseline /\ config.policy_reload_interval_seconds > 0
    /\ pc = "failed" =>
          ~Acceptable(config) /\ ~Healthy(config) /\ ~reloading
    /\ pc = "healthy" => Healthy(config)
    /\ config.healthcheck_url # None => endpoints = None

\* Every upstream request goes to a configured host over HTTPS, or to this
\* machine, at the configured path with the segments of the protocol after
\* it: slashes that end a configured base and its query never reach it.
UrlsExact ==
    sent # None =>
        LET single == config.single_origin_url # None
            base == IF single THEN config.single_origin_url.url
                    ELSE IF sent.what = "login" THEN config.identity_url.url
                    ELSE config.api_url.url
            tail == (IF ~single THEN <<>>
                     ELSE IF sent.what = "login" THEN <<"identity">>
                     ELSE <<"api">>)
                    \o (IF sent.what = "login" THEN <<"connect", "token">>
                        ELSE <<"sync">>)
            kept == Len(sent.url.path) - Len(tail)
        IN  /\ sent.url.host = base.host /\ sent.url.scheme = base.scheme
            /\ \/ base.scheme = "https"
               \/ base.host \in {"localhost", "127.0.0.1"}
            /\ kept >= 0
            /\ sent.url.path = SubSeq(base.path, 1, kept) \o tail
            /\ \A i \in (kept + 1) .. Len(base.path) : base.path[i] = ""
            /\ kept > 0 => base.path[kept] # ""
            /\ sent.url.query =
                  IF sent.what = "login" THEN None ELSE "excludeDomains=true"
            /\ ~sent.url.fragment

\* The token text a client must present.
Expected == IF config.webhook_auth_token.inline # None
            THEN config.webhook_auth_token.inline
            ELSE config.webhook_auth_token.file.text

\* A request is accepted exactly when authentication is disabled or it
\* presents the configured token and nothing else.  A token with whitespace
\* around it, a file's last newlines aside, or with a character no header
\* can carry, is accepted at startup and can never be presented.
AuthExact ==
    pc = "serving" =>
        IF config.insecure_allow_unauthenticated
        THEN request # None => request.authorized
        ELSE LET presentable ==
                    /\ Expected.lead = ""
                    /\ \/ Expected.trail = ""
                       \/ Expected.trail = "nl"
                            /\ config.webhook_auth_token.inline = None
                    /\ Expected.core # "non-ascii"
             IN  /\ presentable <=> \E header \in Headers : IsAuthorized(header)
                 /\ request # None =>
                       (request.authorized <=>
                           /\ presentable
                           /\ request.header.form = "scheme and token"
                           /\ request.header.scheme \notin {"", "Basic"}
                           /\ request.header.token.core = Expected.core
                           /\ Clean(request.header.token))
=============================================================================

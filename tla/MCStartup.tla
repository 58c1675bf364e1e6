------------------------------ MODULE MCStartup ------------------------------
(* A small instance of Startup for TLC: configurations that differ from a   *)
(* good one in at most two options.                                         *)
EXTENDS Startup

Text(core, lead, trail) == [core |-> core, lead |-> lead, trail |-> trail]
Inline(text) == [inline |-> text, file |-> None]
File(text) == [inline |-> None, file |-> [readable |-> TRUE, text |-> text]]
Unreadable ==
    [inline |-> None, file |-> [readable |-> FALSE, text |-> Text("", "", "")]]
Both == [inline |-> Text("s", "", ""),
         file |-> [readable |-> TRUE, text |-> Text("t", "", "")]]

UrlOf(scheme, host, path, query) ==
    [text |-> "url",
     url |-> [scheme |-> scheme, host |-> host, path |-> path,
              query |-> query, fragment |-> query # None]]

Base ==
    [healthcheck_url |-> None,
     client_id |-> Inline(Text("user.id", "", "")),
     client_secret |-> Inline(Text("s", "", "")),
     master_password |-> File(Text("p", "", "nl")),
     device_identifier |-> Text("s", "", ""),
     device_name |-> Text("s", "", ""),
     http_connect_timeout_seconds |-> 5,
     http_request_timeout_seconds |-> 25,
     single_origin_url |-> UrlOf("https", "vault", <<"">>, None),
     identity_url |-> None,
     api_url |-> None,
     ca_bundle_file |-> None,
     policy |-> "inline",
     policy_reload_interval_seconds |-> 30,
     webhook_auth_token |-> Inline(Text("t", "", "")),
     insecure_allow_unauthenticated |-> FALSE,
     client_builds |-> TRUE,
     address_free |-> TRUE,
     response |-> None]

Sources ==
    {Inline(None), Inline(Text("", "", "")), Inline(Text("", "sp", "")),
     Inline(Text("s", "sp", "nl")), File(Text("s", "", "nl")),
     File(Text("s", "", "sp nl")), File(Text("s", "", "nl sp")),
     File(Text("", "", "nl")), Unreadable, Both}

BadUrls ==
    {None, [text |-> "blank"], [text |-> "malformed"],
     UrlOf("ftp", "vault", <<"">>, None), UrlOf("http", "vault", <<"">>, None),
     UrlOf("http", "::1", <<"">>, None)}

Urls ==
    BadUrls \cup
    {UrlOf("http", "localhost", <<"">>, None),
     UrlOf("https", "vault", <<"base">>, "q"),
     UrlOf("https", "vault", <<"base", "">>, None),
     UrlOf("https", "::1", <<"a", "", "b", "", "">>, None)}

Response(lines, closes, version, class) ==
    [lines |-> lines, closes |-> closes, version |-> version, class |-> class]

\* What each option may say instead.
Other ==
    [client_id : Sources \cup {File(Text("organization.id", "", "nl"))}]
    \cup [client_secret : Sources] \cup [master_password : Sources]
    \cup [device_identifier : {Text("", "sp", "")}]
    \cup [device_name : {Text("", "", "")}]
    \cup [http_connect_timeout_seconds : {0}]
    \cup [http_request_timeout_seconds : {0}]
    \cup [single_origin_url : Urls]
    \cup [single_origin_url : {None},
          identity_url : Urls \cup {UrlOf("https", "identity", <<"">>, None)},
          api_url : BadUrls \cup {UrlOf("https", "vault", <<"api", "">>, None)}]
    \cup [identity_url : {UrlOf("https", "identity", <<"">>, None)}]
    \cup [ca_bundle_file : {"unreadable", "garbled", "empty", "certificates"}]
    \cup [policy : {"file", "invalid"}]
    \cup [policy_reload_interval_seconds : {0}]
    \cup [webhook_auth_token : Sources \cup {Inline(Text("non-ascii", "", ""))}]
    \cup [insecure_allow_unauthenticated : {TRUE}]
    \cup [client_builds : {FALSE}] \cup [address_free : {FALSE}]

With(c, options) ==
    [name \in DOMAIN c |->
        IF name \in DOMAIN options THEN options[name] ELSE c[name]]

Healthchecks ==
    [healthcheck_url : {UrlOf("http", "127.0.0.1", <<"readyz">>, None),
                        UrlOf("http", "::1", <<"readyz">>, None),
                        UrlOf("https", "localhost", <<"readyz">>, None),
                        [text |-> "malformed"]},
     response : {None, Response(TRUE, TRUE, "1.1", 2),
                 Response(TRUE, TRUE, "1.0", 2), Response(TRUE, TRUE, "1.1", 5),
                 Response(TRUE, TRUE, "2", 2), Response(TRUE, FALSE, "1.1", 2),
                 Response(FALSE, TRUE, "1.1", 2)}]

SmallConfigs ==
    {Base} \cup {With(With(Base, a), b) : a, b \in Other}
           \cup {With(Base, h) : h \in Healthchecks}

Form(form) == [form |-> form, scheme |-> "", token |-> Text("", "", "")]
Present(scheme, text) ==
    [form |-> "scheme and token", scheme |-> scheme, token |-> text]

SmallHeaders ==
    {Form("absent"), Form("not ascii"), Form("no space"),
     Present("Bearer", Text("", "", "")), Present("Basic", Text("t", "", "")),
     Present("Bearer", Text("t", "sp", ""))}
    \cup {Present(scheme, Text(core, "", "")) :
             scheme \in {"Bearer", "bearer"},
             core \in Cores \ {"", "non-ascii"}}
=============================================================================

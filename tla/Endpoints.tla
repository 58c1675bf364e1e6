------------------------------ MODULE Endpoints ------------------------------
(***************************************************************************)
(* The URLs of the upstream server: how the configured bases are validated  *)
(* and normalised, and how the URL of every request is built from them.     *)
(*                                                                          *)
(* A URL is a record of what Url::parse keeps.  `path` is the sequence of   *)
(* the segments between its slashes: "/" is <<"">> and "/a/" is             *)
(* <<"a", "">>.  A host is named by its address; what host_str returns for  *)
(* it is HostStr.  A configured text is [text |-> "url", url |-> ...], or   *)
(* has the text "malformed", or "blank" when it is only whitespace.         *)
(***************************************************************************)
EXTENDS Integers, Sequences, FiniteSetsExt

CONSTANT None

\* What Url::parse returns, and what a URL option may hold.  The brackets of
\* an IPv6 address are not part of the host.
IsUrl(url) ==
    /\ url = [scheme |-> url.scheme, host |-> url.host, path |-> url.path,
              query |-> url.query, fragment |-> url.fragment]
    /\ url.host # "[::1]"
    /\ url.path # <<>>
    /\ url.path \in Seq({url.path[i] : i \in DOMAIN url.path})

IsConfiguredUrl(raw) ==
    \/ raw.text \in {"blank", "malformed"}
    \/ raw.text = "url" /\ IsUrl(raw.url)

\* host_str brackets an IPv6 address.
HostStr(url) == IF url.host = "::1" THEN "[::1]" ELSE url.host

ParseNamed(raw) ==
    CASE raw.text = "blank" -> [error |-> "EmptyField"]
      [] raw.text = "malformed" -> [error |-> "InvalidEndpoint"]
      [] OTHER ->
            IF \/ raw.url.scheme = "https"
               \/ /\ raw.url.scheme = "http"
                  /\ HostStr(raw.url) \in {"localhost", "127.0.0.1", "::1"}
            THEN [url |-> raw.url]
            ELSE [error |-> "InsecureEndpoint"]

Failed(result) == "error" \in DOMAIN result

\* trim_end_matches('/') drops every trailing empty segment.
TrimEndSlashes(path) ==
    SubSeq(path, 1, Max({0} \cup {i \in DOMAIN path : path[i] # ""}))

\* A URL with an authority has at least the path "/".
SetPath(url, path) == [url EXCEPT !.path = IF path = <<>> THEN <<"">> ELSE path]

WithoutQuery(url) == [url EXCEPT !.query = None, !.fragment = FALSE]

\* Mutant: the segments follow whatever the configured path ends with.
AppendPathSegmentsUntrimmed(base_url, segments) ==
    SetPath(WithoutQuery(base_url), base_url.path \o segments)

AppendPathSegments(base_url, segments) ==
    SetPath(WithoutQuery(base_url), TrimEndSlashes(base_url.path) \o segments)

FromSingleOrigin(base_url) ==
    [identity_url |-> AppendPathSegments(base_url, <<"identity">>),
     api_url |-> AppendPathSegments(base_url, <<"api">>)]

NormalizeEndpointBase(base_url) == AppendPathSegments(base_url, <<>>)

ParseSplit(identity_url, api_url) ==
    LET identity == ParseNamed(identity_url)
        api == ParseNamed(api_url)
    IN  IF Failed(identity) THEN identity
        ELSE IF Failed(api) THEN api
        ELSE [identity_url |-> NormalizeEndpointBase(identity.url),
              api_url |-> NormalizeEndpointBase(api.url)]

\* path_segments_mut, pop_if_empty, then a push for each segment.
EndpointUrl(base_url, segments) ==
    LET n == Len(base_url.path)
        front == IF base_url.path[n] = "" THEN SubSeq(base_url.path, 1, n - 1)
                 ELSE base_url.path
    IN  SetPath(WithoutQuery(base_url), front \o segments)

-----------------------------------------------------------------------------
(* The requests the client makes.                                           *)

LoginUrl(endpoints) ==
    EndpointUrl(endpoints.identity_url, <<"connect", "token">>)

SyncUrl(endpoints) ==
    [EndpointUrl(endpoints.api_url, <<"sync">>)
        EXCEPT !.query = "excludeDomains=true"]
=============================================================================

------------------------------- MODULE Metrics -------------------------------
(***************************************************************************)
(* The metrics of the provider and the /metrics page.                       *)
(*                                                                          *)
(* AppMetrics is a registry behind one mutex; every record and the snapshot *)
(* of a page is one section under it, so one action.  No section panics, so *)
(* the mutex is never poisoned.  The cache counters are atomics written and *)
(* loaded with Relaxed order: the two writes of a refresh, and the loads of *)
(* a page, happen in any order.  Timestamps come from the wall clock, which *)
(* may step in both directions and may stand before the Unix epoch.         *)
(*                                                                          *)
(* Requests are reduced to what they record: POST /v1/resolve records a     *)
(* resolution in the handler and then an HTTP request in the middleware,    *)
(* every other request only the latter, the scrape itself after its page is *)
(* rendered.  The text of the page is abstracted to the values it shows.    *)
(***************************************************************************)
EXTENDS Integers, Sequences, FiniteSets, TLC

CONSTANTS
    Req,          \* requests other than scrapes
    Buckets,      \* HISTOGRAM_BUCKETS, ascending
    Durations,    \* how long a request may take
    ResolveKeys,  \* outcome, error_kind and status of a resolution
    OtherKeys,    \* method, route and status of the other requests
    WallClock,    \* what SystemTime::now() may return; 0 is the epoch
    MaxEvents,    \* bound of the model: events that are recorded
    MaxScrapes,   \* bound of the model: pages that are rendered
    None

Outcomes == {"success", "unchanged", "failure"}

\* What a page shows of a policy file; a gauge that is None has no line.
PolicyFamilies ==
    [reloads : [Outcomes -> Nat], active_keys : Nat,
     timestamp : Int \cup {None}, age : Int \cup {None}]

\* The key of a request that the resolve handler answers.
IsResolve(key) == key.method = "POST" /\ key.route = "/v1/resolve"

ASSUME BucketsAssumption == Buckets \in Seq(Nat)
ASSUME DurationsAssumption == Durations \subseteq Nat
ASSUME ClockAssumption == WallClock \subseteq Int
ASSUME KeysAssumption == \A key \in OtherKeys : ~IsResolve(key)
ASSUME NoneAssumption == None \notin Int \cup PolicyFamilies

VARIABLES
    wall,       \* SystemTime::now()
    file,       \* the policy has a file
    started,    \* main() has seeded the policy gauges
    inner,      \* MetricsInner
    atomics,    \* CacheMetricState
    writes,     \* writes of a successful refresh that are not visible yet
    pc,         \* pc[q]: what request q has recorded
    resolved,   \* resolved[q]: status and duration of q's resolution
    scrape,     \* the step of the scrape
    loaded,     \* cache metrics the scrape has loaded
    snapshot,   \* the registry as the scrape cloned it
    page,       \* the last page, or None
    log         \* every record made in the registry (history)

vars == <<wall, file, started, inner, atomics, writes, pc, resolved, scrape,
          loaded, snapshot, page, log>>

registry == <<inner, log>>
requests == <<pc, resolved>>
scraper == <<scrape, loaded, snapshot, page>>
cacheState == <<atomics, writes>>

Empty == [key \in {} |-> None]
NotLoaded == [stamp |-> None, counts |-> None]

Init ==
    /\ wall \in WallClock
    /\ file \in BOOLEAN
    /\ started = FALSE
    /\ inner = [http_requests |-> Empty, resolve_requests |-> Empty,
                policy_reloads |-> [o \in Outcomes |-> 0],
                policy_active_keys |-> 0, policy_last_success |-> None]
    /\ atomics = [cache_hits |-> 0, refresh_successes |-> 0,
                  refresh_failures |-> 0, last_success_unix_seconds |-> 0]
    /\ writes = {}
    /\ pc = [q \in Req |-> "idle"]
    /\ resolved = [q \in Req |-> None]
    /\ scrape = [step |-> "idle", pages |-> 0]
    /\ loaded = NotLoaded
    /\ snapshot = None
    /\ page = None
    /\ log = <<>>

\* The bound on what happens in one run of the model.
Room ==
    Len(log) + atomics.cache_hits + atomics.refresh_successes
      + atomics.refresh_failures + Cardinality(writes \ {"stamp"}) < MaxEvents

-----------------------------------------------------------------------------
(* The registry.                                                            *)

NoHistogram == [count |-> 0, sum |-> 0, buckets |-> [i \in DOMAIN Buckets |-> 0]]

\* Mutant: an observation is counted in the first bucket that holds it only.
ObserveOnce(histogram, duration) ==
    [count |-> histogram.count + 1,
     sum |-> histogram.sum + duration,
     buckets |-> [i \in DOMAIN Buckets |->
        IF duration <= Buckets[i] /\ \A j \in 1 .. (i - 1) : duration > Buckets[j]
        THEN histogram.buckets[i] + 1 ELSE histogram.buckets[i]]]

Observe(histogram, duration) ==
    [count |-> histogram.count + 1,
     sum |-> histogram.sum + duration,
     buckets |-> [i \in DOMAIN Buckets |->
        IF duration <= Buckets[i] THEN histogram.buckets[i] + 1
        ELSE histogram.buckets[i]]]

\* entry(key).or_default().observe(duration)
ObserveKey(family, key, duration) ==
    LET old == IF key \in DOMAIN family THEN family[key] ELSE NoHistogram
    IN  [k \in DOMAIN family \cup {key} |->
            IF k = key THEN Observe(old, duration) ELSE family[k]]

RecordHttpRequest(key, duration) ==
    /\ inner' = [inner EXCEPT !.http_requests = ObserveKey(@, key, duration)]
    /\ log' = Append(log, [family |-> "http", key |-> key,
                           duration |-> duration])

RecordResolveRequest(key, duration) ==
    /\ inner' = [inner EXCEPT !.resolve_requests = ObserveKey(@, key, duration)]
    /\ log' = Append(log, [family |-> "resolve", key |-> key,
                           duration |-> duration])

RecordPolicyReload(outcome, active) ==
    /\ inner' = [inner EXCEPT
          !.policy_reloads[outcome] = @ + 1,
          !.policy_active_keys = active,
          !.policy_last_success = IF outcome = "failure" THEN @ ELSE wall]
    /\ log' = Append(log, [family |-> "policy", outcome |-> outcome,
                           active |-> active, at |-> wall])

RecordPolicyBaseline(active) ==
    /\ inner' = [inner EXCEPT
          !.policy_active_keys = active,
          !.policy_last_success = IF @ = None THEN wall ELSE @]
    /\ log' = Append(log, [family |-> "policy", outcome |-> "baseline",
                           active |-> active, at |-> wall])

-----------------------------------------------------------------------------
(* What is recorded, and by whom.                                           *)

\* main(), before the listener is bound.
Start ==
    /\ ~started
    /\ started' = TRUE
    /\ IF file THEN RecordPolicyBaseline(1) ELSE UNCHANGED registry
    /\ UNCHANGED <<wall, file, cacheState, requests, scraper>>

\* One cycle of the reload task; a failure leaves the active count alone.
Reload ==
    /\ started /\ file /\ Room
    /\ \/ RecordPolicyReload("success", 2)
       \/ \E outcome \in {"unchanged", "failure"} :
             RecordPolicyReload(outcome, inner.policy_active_keys)
    /\ UNCHANGED <<wall, file, started, cacheState, requests, scraper>>

ResolveHandler(q) ==
    /\ started /\ Room
    /\ pc[q] = "idle"
    /\ \E key \in ResolveKeys, duration \in Durations :
          /\ RecordResolveRequest(key, duration)
          /\ resolved' = [resolved EXCEPT ![q] =
                            [status |-> key.status, duration |-> duration]]
    /\ pc' = [pc EXCEPT ![q] = "resolved"]
    /\ UNCHANGED <<wall, file, started, cacheState, scraper>>

\* record_http_metrics after resolve(): the same status, no shorter.
HttpMiddleware(q) ==
    /\ pc[q] = "resolved"
    /\ \E duration \in {d \in Durations : d >= resolved[q].duration} :
          RecordHttpRequest([method |-> "POST", route |-> "/v1/resolve",
                             status |-> resolved[q].status], duration)
    /\ pc' = [pc EXCEPT ![q] = "done"]
    /\ UNCHANGED <<wall, file, started, cacheState, resolved, scraper>>

\* A probe, a request for another route, or one with another method.
OtherRequest(q) ==
    /\ started /\ Room
    /\ pc[q] = "idle"
    /\ \E key \in OtherKeys, duration \in Durations :
          RecordHttpRequest(key, duration)
    /\ pc' = [pc EXCEPT ![q] = "done"]
    /\ UNCHANGED <<wall, file, started, cacheState, resolved, scraper>>

\* ensure_fresh_cached_sync: a hit, or the end of a failed refresh.
CacheCount ==
    /\ started /\ Room
    /\ \E counter \in {"cache_hits", "refresh_failures"} :
          atomics' = [atomics EXCEPT ![counter] = @ + 1]
    /\ UNCHANGED <<wall, file, started, registry, writes, requests, scraper>>

\* The end of a successful refresh; the next one waits for the refresh lock.
RefreshSucceeds ==
    /\ started /\ Room
    /\ writes = {}
    /\ writes' = {"count", "stamp"}
    /\ UNCHANGED <<wall, file, started, registry, atomics, requests, scraper>>

\* unix_now_seconds(): a clock before the epoch reads 0.
UnixNowSeconds == IF wall < 0 THEN 0 ELSE wall

WriteCount ==
    /\ "count" \in writes
    /\ writes' = writes \ {"count"}
    /\ atomics' = [atomics EXCEPT !.refresh_successes = @ + 1]
    /\ UNCHANGED <<wall, file, started, registry, requests, scraper>>

WriteStamp ==
    /\ "stamp" \in writes
    /\ writes' = writes \ {"stamp"}
    /\ atomics' = [atomics EXCEPT !.last_success_unix_seconds = UnixNowSeconds]
    /\ UNCHANGED <<wall, file, started, registry, requests, scraper>>

\* The wall clock moves, or is set.
StepClock ==
    /\ wall' \in WallClock \ {wall}
    /\ UNCHANGED <<file, started, registry, cacheState, requests, scraper>>

-----------------------------------------------------------------------------
(* The page.                                                                *)

BeginScrape ==
    /\ started
    /\ scrape.step = "idle" /\ scrape.pages < MaxScrapes
    /\ scrape' = [scrape EXCEPT !.step = "load"]
    /\ UNCHANGED <<wall, file, started, registry, cacheState, requests, loaded,
                   snapshot, page>>

\* CacheMetricState::snapshot: the timestamp and its age ...
LoadStamp ==
    /\ scrape.step = "load" /\ loaded.stamp = None
    /\ LET stamp == atomics.last_success_unix_seconds
           age == UnixNowSeconds - stamp
       IN  loaded' = [loaded EXCEPT !.stamp =
             IF stamp = 0 THEN [timestamp |-> None, age |-> None]
             ELSE [timestamp |-> stamp, age |-> IF age < 0 THEN 0 ELSE age]]
    /\ UNCHANGED <<wall, file, started, registry, cacheState, requests, scrape,
                   snapshot, page>>

\* ... and the counters.
LoadCounts ==
    /\ scrape.step = "load" /\ loaded.counts = None
    /\ loaded' = [loaded EXCEPT !.counts =
          [hits |-> atomics.cache_hits,
           successes |-> atomics.refresh_successes,
           failures |-> atomics.refresh_failures]]
    /\ UNCHANGED <<wall, file, started, registry, cacheState, requests, scrape,
                   snapshot, page>>

Loaded == loaded.stamp # None /\ loaded.counts # None

\* Mutant: the counts are taken out of the registry, not cloned.
TakeSnapshotDraining ==
    /\ scrape.step = "load" /\ Loaded
    /\ scrape' = [scrape EXCEPT !.step = "render"]
    /\ snapshot' = [inner |-> inner, seen |-> Len(log)]
    /\ inner' = [inner EXCEPT !.http_requests = Empty,
                              !.resolve_requests = Empty]
    /\ UNCHANGED <<wall, file, started, log, cacheState, requests, loaded,
                   page>>

TakeSnapshot ==
    /\ scrape.step = "load" /\ Loaded
    /\ scrape' = [scrape EXCEPT !.step = "render"]
    /\ snapshot' = [inner |-> inner, seen |-> Len(log)]
    /\ UNCHANGED <<wall, file, started, registry, cacheState, requests, loaded,
                   page>>

\* Nothing without a file-backed policy; a timestamp before the epoch and an
\* age that would be negative are left out.
RenderPolicyMetrics(metrics) ==
    LET last == metrics.policy_last_success IN
    IF last = None /\ \A o \in Outcomes : metrics.policy_reloads[o] = 0
    THEN None
    ELSE [reloads |-> metrics.policy_reloads,
          active_keys |-> metrics.policy_active_keys,
          timestamp |-> IF last = None \/ last < 0 THEN None ELSE last,
          age |-> IF last = None \/ wall < last THEN None ELSE wall - last]

\* The bucket "+Inf" is not kept: it is written from the count.
AppendHistogram(histogram) ==
    [count |-> histogram.count, sum |-> histogram.sum,
     buckets |-> Append(histogram.buckets, histogram.count)]

RenderHttpMetrics(values) ==
    [key \in DOMAIN values |-> AppendHistogram(values[key])]

RenderResolveMetrics(values) ==
    [key \in DOMAIN values |-> AppendHistogram(values[key])]

\* A timestamp or an age that is None has no line.
RenderCacheMetrics(metrics) ==
    [hits |-> metrics.counts.hits, successes |-> metrics.counts.successes,
     failures |-> metrics.counts.failures,
     gauges |-> [name \in {n \in {"timestamp", "age"} : metrics.stamp[n] # None}
                   |-> metrics.stamp[name]]]

Render ==
    /\ scrape.step = "render"
    /\ page' = [http |-> RenderHttpMetrics(snapshot.inner.http_requests),
                resolve |-> RenderResolveMetrics(snapshot.inner.resolve_requests),
                cache |-> RenderCacheMetrics(loaded),
                policy |-> RenderPolicyMetrics(snapshot.inner),
                seen |-> snapshot.seen, renderedAt |-> wall]
    /\ scrape' = [scrape EXCEPT !.step = "respond", !.pages = @ + 1]
    /\ loaded' = NotLoaded
    /\ snapshot' = None
    /\ UNCHANGED <<wall, file, started, registry, cacheState, requests>>

\* The middleware records the scrape once its page is there.
RecordScrape ==
    /\ scrape.step = "respond"
    /\ scrape' = [scrape EXCEPT !.step = "idle"]
    /\ \E duration \in Durations :
          RecordHttpRequest([method |-> "GET", route |-> "/metrics",
                             status |-> 200], duration)
    /\ UNCHANGED <<wall, file, started, cacheState, requests, loaded, snapshot,
                   page>>

Next ==
    \/ Start \/ Reload \/ StepClock
    \/ \E q \in Req : ResolveHandler(q) \/ HttpMiddleware(q) \/ OtherRequest(q)
    \/ CacheCount \/ RefreshSucceeds \/ WriteCount \/ WriteStamp
    \/ BeginScrape \/ LoadStamp \/ LoadCounts \/ TakeSnapshot \/ Render
    \/ RecordScrape

Spec == Init /\ [][Next]_vars
-----------------------------------------------------------------------------
(* Properties.                                                              *)

\* The records of a family, and those of one of its keys.
Of(records, family) == {i \in DOMAIN records : records[i].family = family}
Mine(records, family, key) ==
    {i \in Of(records, family) : records[i].key = key}

\* The durations of a key's records, added up from the first to the last.
Spent(records, family, key) ==
    LET spent[n \in 0 .. Len(records)] ==
          IF n = 0 THEN 0
          ELSE spent[n - 1] + IF n \in Mine(records, family, key)
                              THEN records[n].duration ELSE 0
    IN  spent[Len(records)]

\* A series of the page against the records themselves.
SeriesExact(series, records, family) ==
    /\ DOMAIN series = {records[i].key : i \in Of(records, family)}
    /\ \A key \in DOMAIN series :
          LET mine == Mine(records, family, key) IN
          /\ series[key].count = Cardinality(mine)
          /\ series[key].sum = Spent(records, family, key)
          /\ \A b \in DOMAIN Buckets :
                series[key].buckets[b] =
                    Cardinality({i \in mine : records[i].duration <= Buckets[b]})
          /\ series[key].buckets[Len(Buckets) + 1] = series[key].count

\* The policy family against the records: i is the last evaluation or seed,
\* j the last one that did not fail.
PolicyExact(policy, records, renderedAt) ==
    LET evaluations == Of(records, "policy")
        good == {i \in evaluations : records[i].outcome # "failure"}
    IN  \E i \in evaluations, j \in good :
          LET last == records[j].at IN
          /\ \A h \in evaluations : h <= i
          /\ \A h \in good : h <= j
          /\ \A o \in Outcomes : policy.reloads[o] =
                Cardinality({h \in evaluations : records[h].outcome = o})
          /\ policy.active_keys = records[i].active
          /\ IF last < 0 THEN policy.timestamp = None
                         ELSE policy.timestamp = last
          /\ IF renderedAt < last THEN policy.age = None
                                  ELSE renderedAt = last + policy.age

\* Every page tells the truth about one moment, between the arrival of the
\* scrape and its reply: its series are exactly the records made until then,
\* each in every bucket that is not below it; no resolution is missing that
\* the HTTP series show; the policy family is there exactly when the policy
\* has a file, from the first page on, counts the reload cycles, and dates
\* the last evaluation that did not fail by the clock of that moment.
PagesExact ==
    page # None =>
        LET seen == SubSeq(log, 1, page.seen) IN
        /\ SeriesExact(page.http, seen, "http")
        /\ SeriesExact(page.resolve, seen, "resolve")
        /\ Cardinality({i \in Of(seen, "http") : IsResolve(seen[i].key)})
             <= Cardinality(Of(seen, "resolve"))
        /\ page.policy = None <=> ~file
        /\ file => PolicyExact(page.policy, seen, page.renderedAt)

\* From page to page counters only grow and series never disappear, although
\* the cache counters are loaded one by one outside the registry's lock.
Grows(before, after) ==
    \A key \in DOMAIN before :
        /\ key \in DOMAIN after
        /\ before[key].count <= after[key].count
        /\ before[key].sum <= after[key].sum
        /\ \A b \in DOMAIN before[key].buckets :
              before[key].buckets[b] <= after[key].buckets[b]

\* A scraper computes rates from consecutive pages: no counter of any family
\* goes back, whatever the clock does and whichever writes are visible.
CountersMonotone ==
    [][page # None /\ page' # page =>
          /\ Grows(page.http, page'.http)
          /\ Grows(page.resolve, page'.resolve)
          /\ page.cache.hits <= page'.cache.hits
          /\ page.cache.successes <= page'.cache.successes
          /\ page.cache.failures <= page'.cache.failures
          /\ file => \A o \in Outcomes :
                page.policy.reloads[o] <= page'.policy.reloads[o]]_vars
=============================================================================

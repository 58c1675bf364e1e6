# Verification of the Vaultwarden ESO provider

TLA+ models of `vaultwarden-eso-provider` and its `bweso-bitwarden` client
crate, TLC configurations that check them on small instances, and TLAPS proofs
that hold for every instance. Paths below are relative to the repository;
`api.rs`, `cipher.rs`, `crypto.rs`, `keys.rs` and `lib.rs` are in
`crates/bweso-bitwarden/src`, `main.rs`, `lifecycle.rs` and `metrics.rs` in
`crates/vaultwarden-eso-provider/src`. `PROJECT.json` maps every definition to
the lines it models.

## The system

The provider is an HTTP server that External Secrets Operator (ESO) calls as a
webhook. A request to `POST /v1/resolve` names a vault item and, optionally, a
property; the provider logs in to a Bitwarden-compatible server, fetches the
whole vault, caches it, finds the item, decrypts it and answers with a small
JSON document. Everything runs on a multi-threaded tokio runtime.

| component | state | operations | interacts with |
|---|---|---|---|
| webhook endpoint (`main.rs`) | permits of `resolve_semaphore`, one future per request | authenticate, admit or shed, decode, check the policy, call the provider, record metrics | policy (snapshot), provider (await), metrics, lifecycle |
| webhook authentication (`main.rs`) | the configured token | `from_args`, `is_authorized` | endpoint |
| selector policy (`main.rs`) | `RwLock<Arc<PolicyRules>>`, sources | `from_args`, `evaluate`, `reload`, `allows` | the mounted ConfigMap, the reload task, the endpoint |
| reload task (`main.rs`) | the position in its `select!` loop | tick, reload, record, exit | policy, lifecycle, metrics |
| lifecycle (`lifecycle.rs`) | an atomic flag and a `Notify` | `mark_shutting_down`, `shutdown_requested`, `is_ready` | signal handler, reload task, `/readyz` |
| sync cache (`api.rs`) | `cache: Mutex<Option<CachedVault>>`, `refresh_lock: Mutex<()>`, cache counters | `ensure_fresh_cached_sync`, `fetch_vault`, `resolve_with_cached_sync` | upstream server, key unlock, item lookup |
| key unlock (`keys.rs`, `crypto.rs`, `api.rs`) | none | `unlock_session`, `validate_for_prelogin`, `derive_master_key`, `unwrap_user_key_with_master_key`, `prelogin` | a refresh of the cache |
| item lookup (`lib.rs`, `api.rs`) | none | `BitwardenSelector::try_from`, lookup by id and by name | a cached vault |
| decryption and extraction (`cipher.rs`, `crypto.rs`) | none | `EncryptedCipher::decrypt`, `extract_property`, `to_secret_document` | item lookup |
| metrics (`metrics.rs`) | counters, gauges, histograms | `record_*`, `render` | all of the above |
| startup (`main.rs`) | the parsed arguments | `provider_from_args`, `endpoints_from_args`, `WebhookAuth::from_args`, `zeroize_sensitive` | everything, once |
| endpoint URLs (`lib.rs`, `api.rs`) | the two base URLs | `parse_named`, `from_single_origin`, `append_path_segments`, `endpoint_url` | startup, every upstream request |
| healthcheck command (`main.rs`) | none of the server's | `run_healthcheck`, `ensure_successful_healthcheck_response` | a server's `/livez`, over TCP |
| Helm chart, scripts, fuzz target | none of the server's | | |

What is hard to get right, and hard to test:

* **Concurrency.** Calls share the cache slot and the refresh lock, and lock
  the cache several times without holding it in between: every check is stale
  by the time it is used.
* **Cancellation.** hyper drops the handler's future when its client goes away.
  That can happen at every await: waiting for a lock, in the middle of a
  refresh, between the metrics record and the store, while a permit is held.
* **Time.** TTL, token expiry with a refresh skew, request timeouts, and
  arithmetic on `Instant` that can fail (`checked_add`, `checked_sub`).
* **Files that change while they are read.** A policy reload stats and reads
  two files one after the other while the kubelet swaps the ConfigMap.
* **Lost wake-ups.** Shutdown is a flag plus a `Notify`, consumed by a task that
  may be in a reload, about to register, or at its timer.
* **Order dependence.** An early-exit loop over the vault decides between
  found, ambiguous, shared and absent; custom fields share one map with the
  conventional ones.
* **Numbers chosen by the server.** KDF parameters decide how much memory and
  time the provider spends.
* **Outages.** A failed refresh is not shared: every call in the queue tries
  again, one after the other, each for as long as the timeouts allow.
* **Pages of metrics.** A scrape loads atomics one by one, then clones a
  registry, while handlers, the reload task and refreshes write; the wall clock
  it dates things with may be set back.
* **The order of startup.** Secrets are read by several constructors and erased
  after them; a task is spawned before the listener is bound.

The properties that make each component correct are those of the runs below;
`PROJECT.json` lists every hazard with its line and the properties aimed at it.

## Modules

| module | models | runs |
|---|---|---|
| `SyncCache` | the cache, the refresh lock, login/unlock/sync, cancellation, cache metrics | `sync_cache` |
| `VaultCache` | the abstract cache that `SyncCache` implements | (property of `sync_cache`) |
| `PolicyReload` | startup evaluation, the reload task, the ConfigMap, the shutdown latch | `policy_reload`, `policy_reload_torn` |
| `Webhook` | `/v1/resolve`, permits, policy snapshot, metric records, graceful shutdown | `webhook` |
| `Service` | the composition of `Webhook` and `SyncCache` | `service` |
| `ItemLookup` | selector parsing, lookup, decryption, extraction | `item_lookup_safety`, `item_lookup_shared`, `item_lookup_whole` |
| `Unlock` | from a token response to the user key, and `prelogin` | `unlock`, `unlock_prelogin` |
| `Endpoints` | validation, normalisation and joining of URLs, as operators | (used by `Startup`) |
| `Startup` | `main()` up to the served requests, authorization, the healthcheck command | `startup` |
| `Metrics` | the registry, the cache atomics, a scrape and its page | `metrics` |

`MC<module>` gives the constants of a module their small values for TLC;
`<module>Proofs` holds its theorems. `Service` composes the endpoint and the
client: its handlers are the actions of `Webhook`, its calls those of
`SyncCache`. The other models meet at one step each: `SyncCache!Unlock` is one
run of `Unlock`; `SyncCache!ReadCache` hands its vault to one run of
`ItemLookup`; `Webhook!ReloadPolicy` is `PolicyReload`'s swap of the rules;
`Startup!EvaluatePolicy` is the startup evaluation of `PolicyReload`; the
records of `Metrics` are those of the handlers, the reload task and the cache.
The results `Webhook` lets the provider return are those of the other modules,
and its fairness of the provider is what `SyncCache!EveryCallEnds` establishes.

### SyncCache

One process per call of `BitwardenProvider::resolve`. A section under the
`cache` mutex contains no await, so it is one action: `CheckHit` and
`CheckMiss` are the first `has_fresh_cache`, `RecheckHit` and `RecheckMiss` the
second, under `refresh_lock`, whose FIFO queue is the sequence `refresh_lock`
with the holder at its head. `LoginReply`, `Unlock`, `SyncReply` and
`FetchFails` are `fetch_vault`; `SyncReply` counts the success and stamps the
gauge, `Store` stores the vault after one more await. `Cancel...` drops the
future at an await with its locals and its guard. A vault is abstracted to
three times: when the server read it (`snapshotAt`), when its sync reply had
been read (`fetched_at`) and when its token expires. `startedAt` and `served`
are history.

### PolicyReload

One process: the startup evaluation and then the reload task, since they never
overlap. `StatKeys`, `ReadKeys`, `StatPrefixes` and `ReadPrefixes` are the four
file accesses of `evaluate`, and `SwapConfigMap` may come between any two.
`DecideEmpty`, `DecideStartup` and `DecideReload` are its ends, `Record` the
gauges. `Entries` is the loop of `read_policy_file` over the lines of a file,
`PushLine` the one over the pieces of a line, `PushEntry` its body. `PollShutdown`, `Register`, `Wake`, `TickFires`, `BackstopExit` and
`BackstopReload` are one round of the `select!`; `SetFlag` and `NotifyOne` the
two halves of `mark_shutting_down`. `rules` is the active `PolicyRules`;
`keysGen`, `prefixesGen` and `inForce` record which generations were read.

### Webhook

One process per request, at `auth`, `decode`, `policy`, `provider`, `release`
and `respond`. It can be dropped only where the handler awaits: reading the
body, and in the provider. `Return` is the handler's metrics record and return
value, `RecordHttp` the middleware's. `ReloadPolicy` replaces the rules at any
time; `MarkShuttingDown`, `StopAccepting` and `Exit` are the graceful shutdown
of axum. `everAllowed` and `everDenied` record what the policy said of a
request's key since it arrived.

### Service

`CallProvider` is `state.provider.resolve(selector).await`: the handler allows
the request and the call begins. `CallStep` is a step of the call while the
handler is suspended, `CallReturns` the end of both, `Drop` the loss of the
client, which drops handler and call together: they are one future. `Pass` lets
time go by only while no request is `Runnable`, so that the wait a request
suffers comes from upstream requests, from the key derivation and from the
queue for the lock, never from the model. That is an assumption on the runtime:
a thread is free whenever a future is ready.

### ItemLookup

One request against one vault. The name lookup is the loop of
`resolve_synced_cipher_by_name`, one cipher per step with its four ways to go
on; an encrypted string opens under the key it was sealed with, and a cipher
decrypts as a whole or not at all. `SlotOf`, `CustomValue`, `ExtractProperty`,
`ConventionalDocument`, `InsertField` and `ToSecretDocument` are the extraction
functions; the loop over the custom fields is the recursive function `Inserted`.

### Unlock

One call of `unlock_session` or `prelogin`. Every early return between the
token response and the user key is an action with the error it returns; keys
are symbolic (a key is the record of what it was derived from), encrypted
strings carry what the parser looks at. The limits are those of `keys.rs`; the
limit of the KiB conversion is written as a quotient because TLC's integers end
below `u32::MAX`. Argon2's own limits are external: at least one pass and one
lane, 8 KiB per lane, 8 bytes of salt.

### Startup and Endpoints

One run of the process. The value of `pc` is the step of `main()`: the three
credentials in the order they are read, the limits, the endpoints, the
certificates and the HTTP client, the policy, the authentication, the erasure of
the secrets, the baseline and the reload task, the listener. `Check` is the `?`
operator. `args` are the arguments in memory, which `ZeroizeSensitive` changes,
`config` the arguments as they were given. Texts are a core with the whitespace
around it, because trimming is what the options differ in: a file loses its last
newlines, an inline value nothing, a header cannot carry either. `Cores` are the
cores and `Texts` all texts made of them; `IsUrl` is what `Url::parse` may
return. `Resolve`
authorizes one request, `LoginWithApiKey` and `Sync` send one upstream request.
`ParseHealthcheckTarget`, `Connect` and `ReadResponse` are the healthcheck. A URL
is a record of what `Url::parse` returns, with the path as the sequence of its
segments; `Endpoints` holds the functions of `lib.rs` and `api.rs` on it.

### Metrics

A section under the registry's mutex is one action: `ResolveHandler`,
`HttpMiddleware`, `OtherRequest`, `Reload` and `Start` (the baseline) write it,
`TakeSnapshot` clones it. A refresh makes its two Relaxed writes in either order
(`WriteCount`, `WriteStamp`), a scrape its loads in either order (`LoadCounts`,
`LoadStamp`); `Render` computes the page and `RecordScrape` is the middleware's
record of the scrape itself. `StepClock` sets the wall clock. `log` is history:
every record ever made, against which a page is judged: `PagesExact` compares a
page with the records before its snapshot by counting and adding them
(`SeriesExact`, `Spent`, `PolicyExact`), with none of the registry's operations.

## Runs

| run | shows | instance | distinct states |
|---|---|---|---|
| `sync_cache` | single flight, no redundant refresh, no `MissingCachedSync`, freshness and age of answers, no reuse with TTL 0, counters, the cache never goes back, every call ends, refinement of `VaultCache` with its termination | 2 calls, TTL 0 or 2, skew 2, timeout 1, expiries before and after the TTL and beyond `Instant`, clock to 4 | 285 thousand |
| `policy_reload` | provenance of the rules, no widening, gauges, prompt exit, convergence | 6 generations, 10 configurations | 18 thousand |
| `policy_reload_torn` | **violation**: a mixed read denies a key that every generation allows | 2 generations | |
| `webhook` | permits, policy, both counters, no request waits for another, the shutdown completes | 2 requests, 1 permit, 2 policies, every provider result | 157 thousand |
| `service` | the longest wait of a call, nothing left of a dropped request, replies against cache counters | 3 requests, 2 permits, timeout 1, derivation 1, clock to 7 | 3.6 million |
| `item_lookup_safety` | name lookup, shared items, agreement of whole-item and single-property answers | all vaults of up to 3 of 8 ciphers, 26 requests | 66 thousand |
| `item_lookup_shared` | **violation**: a shared item is `not_found` by name | same | |
| `item_lookup_whole` | **violation**: a custom field replaces a conventional one | same | |
| `unlock` | bounded derivation, MAC first, exact success condition | 19 thousand responses and passwords | 128 thousand |
| `unlock_prelogin` | **violation**: `prelogin` returns unvalidated parameters | same | |
| `startup` | serves exactly the acceptable configurations, upstream URLs, authorization | every defect of every option, and every two of them | 59 thousand |
| `metrics` | every page is the truth of one moment, counters never go back | 2 requests, 3 events, 2 pages, clock before and after the epoch | 2.8 million |

### Bounds and why they are enough

* **SyncCache.** Two calls are the holder of the lock and one that waits behind
  it, is dropped or arrives later; a third, which arrives while both are there,
  occurs in `service`, and the theorems are about any number. The clock needs
  to pass TTL plus timeout, so that a vault can be fetched, go stale and be
  replaced; token expiries are below the skew, between skew and TTL, absent,
  and past `InstantMax`. There is no symmetry, since the run checks liveness.
  The proofs remove all of these bounds except the clock bound, which is a
  parameter of them.
* **Service.** Three requests and two permits make the cap bind while one call
  holds the lock, one waits for it and one is shed or comes after. One refresh
  lasts at most 2 x 1 + 1 units, so two permits give a bound of 6 and the clock
  runs to 7: a call that waited longer would be seen. Symmetry is sound, since
  the run checks invariants only.
* **PolicyReload.** The six generations are two that move a key between the
  files, one with an oversized and an unreadable file, one without entries,
  one with a missing file, and a good one at the end. The configurations cover
  both files, either, none, inline entries, blank inline entries, allow-all,
  allow-all with a file (refused), reload disabled, and nothing at all.
* **Webhook.** With one permit and two requests the cap binds, and a permit can
  come back from every return and from a drop while the other request arrives;
  the requests fail at each of the handler's returns. `service` adds a second
  permit and a third request.
* **ItemLookup.** Two matches are ambiguous and a third cipher can come before,
  between or after them. The eight ciphers cover own keys, damaged strings,
  colliding, duplicate, blank and valueless fields, nothing to extract, shared
  items under the organization's key and one the user key opens.
* **Unlock.** Each KDF number takes the values around both limits, plus the
  first memory cost that overflows and zero lanes; each defect of a string
  occurs alone and with a wrong MAC.
* **Startup.** A good configuration is varied in every option, and in every two
  options together, so that each error meets each other one and each pair that
  is checked together (an option and its file, the three URLs, token and
  opt-out, policy file and interval) takes all its values. A third defect would
  only come after the first two.
* **Metrics.** A page differs from the next by at least one record and at most
  by all three events; two requests interleave their two records each, and the
  clock is before the epoch, or not, at each of reload, write and page.

`CHECK_DEADLOCK` is never disabled: the end of an instance is an explicit
stuttering action (`Quiescent`, `Stopped`, `Returned`).

### Fairness

`Service`, `Startup` and `Metrics` state safety only and assume none:
`BoundedWait` bounds time instead, with the assumption that time passes only
when nothing is runnable.

* `SyncCache!FairSpec`: weak fairness of `Progress(r)` for every call. tokio
  polls a future whose await is ready, its mutex is FIFO, and reqwest ends
  every upstream request within its timeout. Callers need not arrive or stay.
* `PolicyReload!PromptSpec`: weak fairness of the task's own steps and of the
  second half of `mark_shutting_down`. The timer is *not* fair: `PromptExit`
  holds without it. `Converges` assumes it (`TimerRuns`), because reloading
  needs it.
* `Webhook!FairSpec`: weak fairness of the handler's own steps, of the end of
  a provider call, of the listener's closing and of the exit. A client's body
  is not fair, since `to_bytes` has no timeout; that is why `Drains` allows a
  request stuck in `"decode"`.

### Mutants

Each module defines, just before the definition it changes, the plausible bugs
that its properties must catch: a lock with two permits, a missing second
check, an off-by-one in the age, a leaked guard, `notify_waiters` in place of
`notify_one`, an evaluation that widens when empty, a scan that keeps the first
match, a permit dropped twice, limits without maximum, decryption before the
MAC, a provider call that survives its handler, a stale answer after a failed
refresh, a secret that is not erased, a base that is not trimmed, a token that
is, a snapshot that drains the registry, and so on. `PROJECT.json` names the property each must break.

## What is proved

Every safety property of a passing run is also a theorem: for every number of
calls, requests and ciphers, every configuration, cap, timeout, bucket and
clock, under the named `ASSUME`s of the modules. These say of the constants what
the code's types say (numbers are natural, a vault is a sequence, a header is
any token a client may send), that the requests of `Webhook` are finitely many,
and that `None` is none of the values it stands beside; TLC
evaluates them on every run. The theorems say nothing of fairness.

* **SyncCacheProofs.** `Inv` conjoins `TypeOK` with `LockInv` (who refreshes is
  at the head of the queue, which carries each caller once), the stated
  `NoRedundantRefresh` (the cache can only get staler while the lock is held,
  which needs the clock to be monotone: `ClockInv`), `FlightInv` (what a
  refresh knows: its request began after the cached vault was fetched, and
  within the timeout), `ReadInv` (a call past the check finds a vault that was
  fresh when it began or was fetched since) and `ServedInv`. None of the single
  properties is inductive: freshness of an answer rests on what was true at the
  check, two awaits earlier, and `CacheNeverRegresses` on what the holder of
  the lock knows about the vault it will replace. From `Inv` follow type
  correctness, single flight, no redundant refresh, no missing cache, freshness,
  no reuse with TTL 0, bounded staleness, the action property that the cache
  never goes back, and `Spec => Abstract!Spec`: each step is a step of
  `VaultCache` or a stutter. `QueueInv` (the queue holds exactly calls that wait
  or refresh, each once), `CountInv` and `OutcomeInv` add what counts:
  `MetricsAccount`, and that each failed refresh is one failed call.
* **PolicyReloadProofs.** `Inv` adds to the three properties what the locals of
  `evaluate` hold at each of its steps (`EvaluationInv`), which generations
  they came from (`GenerationInv`), and which configurations reach which phase
  (`PhaseInv`). `TypeCorrect` goes into the nested loops of `read_policy_file`:
  for a file of any length they return a sequence of entries, so a blank piece
  of a line never becomes a rule.
* **ItemLookupProofs.** `ScanInv` says what the scanned prefix of the vault
  contains: no match, or exactly `name_match`, which is personal. The
  order-independent statement follows when the scan ends. `LoopInv` is the
  invariant of the loop over the custom fields in `to_secret_document`: after i
  fields the document holds, under each name, the value of the last of them
  with that name, or else the conventional one. `WholeItemAgrees` follows from
  it for any number of fields.
* **WebhookProofs.** `PermitInv` counts the holders; `PolicyInv` says that the
  history variables witness the policy of the moment for requests in flight;
  `ReplyInv` says which requests have a reply, so that the two bags of metrics
  can be compared with the replies, one added reply at a time.
* **ServiceProofs.** Two lemmas show that every step of the composition is a step
  of the handlers or leaves them alone, and a step of the client or leaves it
  alone. So the composition implements both components, `ServiceSpec =>
  Webhook's Spec` and `ServiceSpec => SyncCache's Spec`, and what is proved of
  each holds of the running provider (`ComponentInv`). `AttachedInv` ties the
  two together: a call is active exactly while its handler is in the provider,
  and a reply is explained by how its call ended; `LockOnlyForAdmitted` and
  `RepliesMatchCalls` follow. `BoundedWait` needs `WaitInv`: the call at place
  i of the lock's queue is no older than `(Limit - i) * RefreshTime` plus the
  elapsed part of the refresh under way, so moving up one place, and letting
  time pass only while somebody waits for upstream, both keep the bound.
* **StartupProofs.** `StartInv` says at each step of `main()` which checks are
  behind it, what they have built, and what the arguments still hold; an error
  is false of `Acceptable`. For the URLs, that trimming and joining keep the
  path: the segments before the slashes that end a base are found as the least
  number of a set, by well-foundedness of `<`.
* **UnlockProofs.** `StageInv` sums up the checks each stage has behind it and
  `ResultInv` what each result says about the response; two lemmas show that
  the sequences of checks in `validate_for_prelogin` and `from_str` decide the
  order-independent definitions. Type correctness adds that every number and
  every key that reaches a stage is one of its kind.
* **MetricsProofs.** `Account(inner, log, ...)` says that the registry is the
  account of the log: each histogram counts, adds up and sorts into buckets
  exactly the records of its key, the reload counters count the cycles, the
  gauges show the last record and the last good one. Each record extends the
  account by itself. A snapshot and a page show the account of a prefix of the
  log (`Shows`), which later records do not change, so `PagesExact` holds for
  as long as a page is looked at. `RequestInv` adds that the HTTP records of
  resolutions and the requests between handler and middleware make up the
  resolutions. `CountersMonotone` follows because a later page shows a longer
  prefix, and for the cache counters from the chain page, loaded values, atomics
  (`CacheInv`).

The loops the models contain (the pieces of a policy line, the fields of an
item, the durations of a key) are recursive functions. The induction theorems of
the library take an operator, which these provers do not instantiate; the proofs
use a lemma that states induction for a set of numbers (`UpTo`), and one that
says that such a loop defines a function (`LoopExists`), both proved from the
well-foundedness of `<` on the naturals.

Only model-checked: everything that needs fairness (`EveryCallEnds`, the
termination part of `ImplementsVaultCache`, `PromptExit`, `Converges`,
`NeverBlocked`, `Drains`), since TLAPS does not reason about `ENABLED`.

## Findings

1. `prelogin` does not validate (`unlock_prelogin`). Its comment promises "KDF
   downgrade/resource validation failures"; only `derive_master_key` validates.
   The provider itself never calls `prelogin`.
2. A policy reload can mix two generations (`policy_reload_torn`). ADR 0004
   says "no torn read", which holds for each file but not for the pair. The
   mixture lasts until the next reload; `RulesProvenance` and `Converges` bound
   the damage.
3. A shared item is `not_found` by name (`item_lookup_shared`). The README says
   shared items "fail explicitly with `unsupported_shared_item`"; the scan
   looks at `organization_id` only after the user key has decrypted the item.
4. A custom field can hide a conventional one in a whole-item document
   (`item_lookup_whole`), which the documentation says exposes every one.

Observations that no document contradicts:

* When a caller disconnects between the success record and the store,
  `bweso_cache_last_success_timestamp_seconds` is stamped for a vault that is
  never cached; `MetricsAccount` states what the counters do guarantee. Under
  Relaxed order a page may also show the timestamp of a refresh that its counter
  does not yet show.
* `derive_master_key` gives Argon2 the email itself as salt: an account whose
  normalised email has fewer than eight bytes fails with `Argon2Failed`, and the
  repository has no test of this derivation against a server's.
* The longest wait of a call in an outage is the cap times one refresh
  (`BoundedWait`): with the default timeout of 25 seconds and cap of 16 that is
  sixteen times 50 seconds and a derivation. With a cap of 0 there is no bound.
* A token with whitespace around it, or with characters a header cannot carry,
  is accepted at startup and can never be presented (`AuthExact`).
* `http://[::1]` is refused as an upstream although `lib.rs` lists `::1` among
  the loopback hosts, because `host_str` keeps the brackets; for the same reason
  a healthcheck of `http://[::1]` cannot connect.
* The `method` label is what the client sent, so the number of series is up to
  clients that send extension methods.

## Not modelled

* Real cryptography, JSON, PEM and URL syntax: keys, strings, certificates and
  URLs are symbolic, and `Url::parse`, reqwest, axum and tokio appear only as
  the code uses them.
* The text of error messages (`public_error_message` and the logs) and of the
  metrics page: labels and values are modelled, formatting is not. The build,
  uptime and readiness gauges are left out of the page.
* `/livez` and `/readyz` beyond the HTTP request they record: they change no
  state, and the flag `/readyz` reads is in `PolicyReload`.
* `master_password_authentication_hash`, which has no caller.
* Worker threads: that key derivation occupies one is not modelled, a thread is
  assumed free for other tasks. Poisoned locks: no section that holds one
  panics.
* A limit on the number of series: the registry has none.
* The Helm chart, the scripts and the fuzz target.

## Plan

Order of work, most important behaviour first; items 1 to 11 are done.

1. `SyncCache` with `VaultCache`, and their proofs.
2. `PolicyReload` with the shutdown latch, and its proofs.
3. `ItemLookup`, and its proofs.
4. `Webhook`, and the proofs of the cap, of the policy and of the records.
5. `Unlock`, and its proofs.
6. `Startup` with `Endpoints`, and the proof that the ladder of checks decides
   `Acceptable`.
7. `Metrics`: the histograms, the reload counter by outcome and the pages.
8. `Service`, the composition of `Webhook` and `SyncCache`, and the proof that it
   implements both.
9. Proofs about `Service`: who may hold the lock, what the counters say of the
   replies, and the longest wait.
10. Type correctness of every module, and the counters of `SyncCache`.
11. Proofs about `Metrics`: pages are exact, counters never fall.
12. Theorems that go beyond the runs: `Webhook` over `PolicyReload`'s rules, and
    the lookup of `ItemLookup` as the result of a `SyncCache` call.

# A TLA+ model of SmartDNSSort

SmartDNSSort is a caching DNS server. It answers from its caches, asks upstream
servers under one of several strategies, measures the round-trip times of the
addresses it learns, and hands them to clients fastest first. What makes it hard
is not any one of these steps but that all of them run as goroutines that share
caches, queues, pools and locks: a client query, the background completion of an
earlier one, a refresh, a sort, the cleaner, a save and shutdown meet at the same
key, lock or connection.

This project models those meetings. Modules are translated from the Go code;
every definition that models code is listed with its lines in `PROJECT.json`.

## Inventory

| Component | State it keeps | Operations | Hard behaviour | Correct when |
|---|---|---|---|---|
| Query handlers (`dnsserver/handler_*.go`) | none of their own | local rules, filter, error hit, sorted hit, raw hit, miss, generic query, CNAME resolution | every query reads several caches one after the other, and starts goroutines | one reply per query, but for a block mode nobody knows; TTLs promise no more than what is stored or was sent |
| IP sort pipeline (`dnsserver/sorting.go`, `cache/cache_sorted.go`, `cache/sortqueue.go`) | `SortingState` per key, `sortSemaphore`, task queue, workers | start, skip, submit, sort, finish, cancel, stop | finish races with cancel, clear, clean and stop | a key has one live sort; `Done` is closed once; whoever blocks a key will unblock it |
| Background completion (`dnsserver/server_callbacks.go`) | none | compare, store, cancel the sort, sort again | reads, decides and writes in separate steps | an older answer never replaces a newer one |
| Raw cache and its expiry index (`cache/cache_raw.go`, `cache_heap.go`, `cache_cleanup.go`) | entries with a version, a channel, a heap | set, index, clean in two phases, count, clear | writes do not take the lock the cleaner holds | every entry can be cleaned |
| LRU shards (`cache/sharded_*.go`, `lru_cache.go`) | map, linked list, channel of accesses | get, set, delete, evict, clear | accesses are applied later by another goroutine | list and map agree; clients see a bounded map |
| Error, DNSSEC and block caches (`cache/*.go`) | maps with ages | get, set, expire | verdicts outlive the rules they come from | nothing is served beyond its lifetime |
| Cache lock (`c.mu`) | an RWMutex | taken by nearly everything | taken twice in one goroutine, held while waiting | nobody waits for ever |
| Persistence (`cache/cache_persistence.go`) | two files, a dirty counter | save, load | the cache changes during a save; crash between any two steps | a file is one save; a skipped save loses no key |
| Refresh queue (`dnsserver/refresh_queue.go`) | a channel, workers, a singleflight group | submit, run, stop | submitters race with each other and with stop | an accepted refresh runs once |
| Upstream manager (`upstream/manager*.go`) | strategy, servers, statistics | sequential, parallel, racing, random, auto; deduplication | late answers, cancelled requests, shared contexts | every usable server gets its chance, every query ends |
| Circuit breaker (`upstream/health.go`) | status, counters, backoff | success, failure, timeout, skip? | outcomes of concurrent queries arrive in any order | status and counters agree; a skip is temporary |
| Connection pools (`upstream/transport`) | idle channel, counters, limits | take, dial, wait, exchange, retry, clean, close | a place is reserved before dialling and given back on many ways out; late replies | every place is accounted for; a request gets its own reply; `Close` returns |
| Connectivity checker (`connectivity/checker.go`) | healthy or not, failures in a row | probe round, stop | overtaken probes, its answer changes between two looks | it fails only in silence and notices the network again |
| Pinger, IP pool, IP monitor (`ping/`) | RTT cache, reference counts, failure weights | probe, revalidate, monitor | one probe per address, stale values, outages, a quota of probes, a pool that changes | an address that answers and is asked is forgiven; at rest, the patrol leaves out none |
| Recursor manager (`recursor/`) | a child process, contexts, channels | start, stop, health loop, restart | restart against stop, fields used without their lock | one process at a time; calls return |
| Ad blocking (`adblock/`, `dnsserver/handler_adblock.go`) | sources, files, engine, cached verdicts | update, load, match, switch | download against crash and against another update, match against update | no half list from a broken download; verdicts are recent |
| Prefetcher, bootstrap, statistics, web API, configuration, installer, logger, main | scores, counters, files | | mostly I/O and arithmetic | |

How they interact: a miss calls the upstream manager, which shares the flight of an
equal query, asks servers under a strategy through their breakers and pools, and
stores the answer in the raw cache and starts a sort; a hit may start a sort or
submit a refresh; the parallel strategy calls back with more addresses, which
cancels the sort and starts another; a sort asks the pinger, and its result goes to
the sorted cache and the reference counts of the IP pool; the cleaner removes what
has expired, finished sorting states included; a save walks the shards while all of
this goes on; the checker decides whether breakers and failure weights count; the
web API clears everything; shutdown stops the queues one after the other while
goroutines of queries may still run.

## Modules

| Module | Models | Built on |
|---|---|---|
| `SortPipeline` | the sort pipeline, the writers of the raw cache, background completion, eviction, clean, clear, `SortQueue.Stop` | |
| `ServeQuery` | the handlers of a query with the four caches, TTLs, sort and refresh behind a reply | |
| `BlockCheck` | the filter on the way of a query and its cached verdicts | |
| `ExpireHeap`, `ExpiryIndex` | the heap as operators; raw cache, index channel, heap worker, `CleanExpired`, `Clear` | |
| `BoundedMap` | what a cache promises its users | |
| `ShardedCache` | the three LRU caches with their pointers | implements `BoundedMap` |
| `DurableStore` | what saving promises | |
| `Persistence` | `SaveToDisk`, `LoadFromDisk`, periodic save, shutdown, crash | implements `DurableStore` |
| `CacheLock` | `c.mu` and who waits at it | |
| `RefreshQueue` | `Submit`, workers, `Stop` | |
| `ServerHealth` | the circuit breaker as operators | |
| `SequentialQuery`, `RacingQuery`, `ParallelQuery`, `RandomQuery` | the strategies | `ServerHealth` (parallel: none) |
| `UpstreamManager` | deduplication, choice of a strategy, its statistics | |
| `ConnPool`, `TLSPool` | the UDP and TCP pool; the DoT pool as `ConnPool` with fewer and other steps | |
| `Checker`, `Pinger`, `RuleUpdate`, `Recursor` | the services in the background | |
| `IPMonitor` | the pool of addresses and the monitor that patrols it | |
| `Caches` | the raw cache of `Persistence`, the LRU caches and the expiry index side by side | `Persistence`, `ShardedCache`, `ExpiryIndex` |
| `Server` | a query in the server: handlers, filter, recursor | `ServeQuery`, `BlockCheck`, `Recursor` |
| `Services` | the update of the block lists and the connectivity checker | `RuleUpdate`, `Checker` |
| `Upkeep` | the refresh queue and the cache lock | `RefreshQueue`, `CacheLock` |
| `Upstream` | parallel and random strategy, and the manager above the strategies | `ParallelQuery`, `RandomQuery`, `UpstreamManager` |
| `*Proofs` | theorems about all of these but `Pinger` and `IPMonitor`; see *Proofs* for which module is about what | TLAPS |
| `MC*` | instances for TLC | |

Conventions. An action is one critical section, one channel operation or one stretch
of code that nobody else can observe. Mutated forms (`Name_How`) stand before the
definition they mutate; each shows that some property notices the mistake. A
variable marked *history* is read by properties only. Properties that a comment of
the code suggests and TLC refutes stand at the end of their module.

### SortPipeline

A *job* is one `go s.sortIPsAsync(...)` with the `SortingState` it creates and
the task it submits; `pc[j]` says where it is, and `sortingState[k]` names the
job whose state is in the map.

* `sortFunc` may return fewer addresses than it got (`PingAndSort` honours
  `max_test_ips`, and offline it knows only cached addresses), so `SortOk` keeps
  any non-empty part of them.
* `Submit` and the deferred release of the semaphore slot are one step: between
  them the goroutine does nothing else.
* `Clear` and `CleanExpired` are atomic. What other goroutines do to the raw and
  the sorted cache in the meantime commutes with their steps; the sorting states
  are under `c.mu`. `ExpiryIndex` has the finer steps where they matter.
* Versions are `UnixNano` times in the code and a counter here. A sorted entry
  remembers, as history, the version of the answer it was sorted from; the code has
  a field for it and leaves it zero.

### ServeQuery and BlockCheck

`ServeQuery` is about one name and type. `env` is the configuration of a behaviour:
type of the query, IPv6, DNSSEC, serving of expired entries, filter, local rules,
pinging, and the TTLs upstreams give. `at[q]` is where the handler of a query is;
each cache look-up is a step of its own, because sort, refresh, eviction and the
other query come between them. Entries carry their age; a tick ages all of them.
TTL arithmetic (`calculateUserTTL`, clamping, the recomputed TTL of a late sort, the
different boundary of `IsExpired` and `GetState`) is translated as it stands, with
small constants. `life` is history: how long the longest-lived stored answer is
still good for; `sent` is the same of the answers that are passed on as they came:
DNSSEC messages, whose records keep their own TTLs (`adjustTTL`), and fresh answers of
other types, which go out with the TTL of the result (`handler_query.go:489`). The local
limits `MinTTL` and `MaxTTL` apply to neither. `extractTTL` has the default for a TTL of 0,
`MessageTTLs` how long a message is kept.

Two ends of a query have no reply. `sendAdBlockResponse` writes nothing in a mode it does
not know (`env.known`), whether the name asked for or its alias is blocked: the query is
*dropped*. And a strategy may return neither result nor error (see `NoNilResult` and
`ResultOrError` below): the handler, `resolveCNAME` or the refresh uses the nil result, the
goroutine panics, nothing recovers, and the process ends (`NilResult`, `serving`).

`BlockCheck` has the filter's part of a query: allowed cache, blocked cache, engine,
the list of recently blocked names, the reply by mode, and the check of CNAME targets.
The engine's verdict (`rule`, `alias`) changes at any time, as `RuleUpdate` swaps it.

### ExpiryIndex and ExpireHeap

`CleanExpired` holds `c.mu`, but `SetRaw` does not take it, so the bodies of both
cleaning loops are actions of their own, and so are the store of `SetRaw`, the
send of its index and the push by the heap worker. `heap.Pop` is written without
recursion: the elements on the sift-down path move up by one, the last element
takes the place where the path ends. The path is the least set of places that has the root
and goes on to the smaller child. `PopAssumption` in `MCCaches` compares it with
what `container/heap` promises on every array of up to five entries, and `PopKeepsHeap`
proves that it turns a heap of any size into a heap.

### ShardedCache and BoundedMap

Each shard is a map and a doubly linked list whose `prev`, `next`, `head` and `tail`
are variables; `remove`, `addToFront`, `moveToFront` and the eviction assign them as
the code does. A read sends its key to `accessChan` (or drops it when full) and the
access worker moves the node later, when it may be gone, replaced or already first.
`kind` chooses between the three implementations. `IsBoundedMap` hides the lists:
`map <- value` refines `BoundedMap`, in which a set drops another key only when the
shard is full and its own key is new. The capacity is at least 1: a capacity of 0,
which a negative `MaxMemoryMB` gives and which means no limit, is left out.

### Persistence and DurableStore

A save reads `dirty`, streams one shard after the other into a temporary file,
renames it and notes the counter. The periodic save writes `dns_cache.bin`, shutdown
writes `dns_cache.json`, start-up reads the first; so what the second holds is not kept,
only the steps of its save, which share the counters. A write may fail and the process may
die between any two steps. If an entry cannot be encoded, in the middle of a shard or
before it, the rest of this shard and all later shards are left out, and the footer and
the rename follow all the same (`EncodeFails`). A file is its entries per shard, a format
and whether it is short. `Clear` (the web API) empties one shard after the other and moves
the counter only after the last (`ClearBegin`, `ClearShard`, `ClearEnd`). `AtomicSaves`
refines `DurableStore`: the durable content changes in one step to what is, shard by shard,
a content the cache had or nothing, and for one shard a part of such a content.

### CacheLock and RefreshQueue

`sync.RWMutex` with its announced writer, which keeps out new readers. Data is
reduced to the length of the index channel and whether a DNSSEC message has expired,
since that decides whether `cleanExpiredMsgCache` locks again. In `RefreshQueue`,
`flight[k]` holds the callers inside `sfGroup.Do` for the key; `accepted` and `done`
are history; running the work function is one step.

### The strategies

In `SequentialQuery` time is counted in units of 10 s, the unit of the backoff;
`usable` is history: the servers that were not to be skipped at any time since the
query began; latencies only order the healthy servers, so any order is possible.

`RacingQuery` is one call of `queryRacing` with all its goroutines: the query at its
select, the starter, one `doQuery` per server and the closer of `errorChan`. Go's
select is modelled by when it is reached: a parked goroutine is woken by the first
case that becomes ready, one that arrives when two are ready takes either. Delays are
arbitrary, so the network error of the first server, which only cuts the delay
short, adds nothing.

`ParallelQuery` is one call of `queryParallel`: the first tier, the goroutine of the
background tiers with its batches, the fast response (`fastOnce`), the two selects of
the query, the closer behind `wg.Wait`, and the collector that merges answers for the
cache after the query has returned. Servers are numbered in the order of their health.

`RandomQuery` takes any server not tried yet as the next. `UpstreamManager` is
`Query`: equal queries share a flight under the context of the first; a strategy is
taken by its outcome, including the outcome *neither result nor error*, which the
racing and the random strategy have. The adaptive branch of `manager_auto.go` is dead
code, since `NewManager` replaces the strategy `auto`.

### ConnPool and TLSPool

Connections are numbered as they are dialled and are somewhere (`where`): idle, with a
request, with the cleaner or closed. `owed[c]` are the replies still to come on a
connection, in order; a reply that comes after its request timed out is there for
the next one, and UDP may repeat it. `activeCount` is reserved before dialling. The
warm-up goroutine, the cleaner, the tuning of `maxConnections` and `Close` are actors
of their own. `isTemporaryError` is always false in the code, because the errors it
looks at are wrapped by then: that is why a connection is never reused after a
timeout, and why the mutant that unwraps them lets one request read another's reply.

### The services

`Checker` has a goroutine per address, the first success ends the round, and `Stop`
waits for the loop. Overtaken goroutines end by themselves, within less time than
the next round is away. `Pinger` is about one address: cached, stale and renewed, shared
probes, failure weights, and the monitor, whose probe and its recording are two steps, so
that an outage may come between. `RuleUpdate` downloads lists with retries
into temporary files, renames them, builds an engine and swaps it; crashes and the
switching of sources come between. Any number of updates run at once (the one of `Start`,
the ticker's, the web API's) and they open the same temporary file: one that several had in
hand is `shared`, and may hold a mixture or a part. An update goes on writing into a file
that another one has renamed (`Copied`). `Recursor` numbers the contexts, stop channels and
processes by the `Start` that made them; `Start` has a step for each of its locked parts,
`Stop` works on `cmd` and `exitCh` without the lock, and each successful `Start` leaves a
health loop that may start the process again.

### IPMonitor

Time is counted in ticks of the first window (2 minutes). `age` and `fresh` are the
ticks since an address was probed and for which its RTT stays fresh, `due` the
windows whose ticker has fired. Every tick fires the first window; whether the second
and third fire too is open, and a select takes them in any order, so the patrol may
not rely on them. Weights are in halves, ties are in any order, and what is weighed
are the defaults (1 for a reference, 0.5 for an access). `batch` are the addresses the
workers still have to probe; its order does not matter. What clients do to the pool and
the RTTs (`ClientStep`) and the changes of the network are bounded by `MaxChanges`; the
steps of the monitor, of its cleaning and of time are not. `age` is cut off at
`MaxAge`, which must be larger than any ratio of two weights the run can reach times
the ticks the quota can cost: a smaller value makes the property fail.

`ComesRound` therefore says what the code does: *once clients are at rest* every probed
address gets its turn. While they are at work it may not. Every hit of the sorted cache
adds to the heat of the first address (`cache_sorted.go:31`) and nothing takes heat back
(`ip_pool.go:131`), so that in a pool larger than the windows the weights of busy addresses
can keep ahead of the time factor of an idle one; and the probes of sorts keep the busy ones
fresh, so that the windows they fill probe nobody. No bounded run can show this, since with
`MaxChanges` steps the heat stays finite: it is an argument, not a check.

## Runs

Modules that share no state that matters to their properties are checked in one run:
the variable `subject`, chosen in the first state, says which of them moves, the others
keep their initial state. The reachable states are the union of those of the single
modules, so an invariant of one holds in the run exactly if it holds in the module,
and a temporal property is asked of the behaviours with its subject only.

| Run | Question | Bounds | States |
|---|---|---|---|
| `SortPipeline` | `Done` closed once, one live sort per key, every blocking state has an executor, slots are exact, every sort ends | 1 key, 2 addresses, 2 jobs, 1 completion, 1 worker, 1 version, with `Stop` | 74 k |
| `Server` | one reply per query but for an unknown block mode, honest TTLs, recent verdicts, one recursor process | 8 configurations, 2 clients, TTLs 0 and 3 against limits 1 and 2; 2 queries at the filter, verdicts living 1 and 2; 2 callers of Start and Stop, 2 processes, 1 restart | 2.6 M |
| `Caches` | lists are linked, caches are bounded maps, saves are atomic, skips lose no key, entries stay indexed, the count is right | 3 keys at capacity 2, 2 values, channel of 2; 3 keys in 2 shards on disk, 2 changes counted when another begins, `Clear` included; 2 keys, 3 versions, 2 time units, heap channel of 1 | 1.4 M |
| `Upkeep` | which hangs exist at `c.mu`; refreshes are conserved, run, and `Stop` returns | 2 handlers, DNSSEC and shutdown; 2 keys, 2 callers, 2 workers | 31 k |
| `SequentialQuery` | breakers consistent, no usable server left out | 2 servers, 2 queries, thresholds 1, 2, 2 | 2.0 M |
| `RacingQuery` | no request blocks or outlives the race, early failures | 5 servers, 4 at once, batches of 2 | 184 k |
| `Upstream` | parallel: channels, outcome, end; random: everybody asked; manager: counts, sharers; sequential: queries end, skips are temporary | 3 servers, tiers of 1; 3 servers in any breaker state; 2 callers, halving at 2; 2 servers | 109 k |
| `Pools` | connections: every place accounted for, own replies, `Close` returns; addresses: the patrol comes round to each, once clients are at rest | UDP, TCP and TLS, 2 requests, 2 connections ever, channel of 1; 2 addresses in windows of 1, 2 probes in 2 ticks, an RTT fresh for a tick, 2 client steps or network changes, no failure weights | 354 k |
| `Services` | no half list, only silence fails, calls return, addresses are forgiven, the network is noticed | 2 updates of 1 list, and for `CallsReturn` 1 update of 2 lists, 2 attempts, bad after 1 failure; 1 caller and renewal, 2 failures; 2 addresses, threshold 2; 1 caller, 2 processes | 158 k |

Why the bounds are enough: the races found and excluded are between two actors
at one key, server, connection or lock, with at most one more (cleaner, stop,
completion, crash) interfering; each bound leaves room for these, and every action
and every disjunct of each next-state relation fires. Capacities of 1 and 2 make
*full* and *empty* both easy to reach. `SortPipeline` has one version only, which
its liveness needs to be small; its safety is proved for every number of versions,
keys and jobs. `Pools` leaves the failure weights of the
monitor out, and an RTT that stays fresh for several ticks.

`Caches` takes the two keys of a shard for interchangeable (`SYMMETRY`), which no step and
no property tells apart; its properties are safety only.

Deadlock is checked in `SortPipeline` and `SequentialQuery`. The others contain
modules that come to an end (a race, a query, a closed pool) or that are about hangs,
which their properties name.

Runs that expect a violation, each with an entry under `findings`:

| Run | Property | What a line of the code says | What happens |
|---|---|---|---|
| `CleanDeadlock` | `CleanEnds` | cleaning does not block queries | `c.mu` is locked twice once a DNSSEC message expires |
| `BlockedReply` | `EveryQueryIsAnswered` | the mode may be `refused` | a blocked query gets no reply in that mode: the handler knows `refuse` |
| `RecursorRestart` | `RestartsAfterExit` | a process that exits is restarted, with retries | `Start` refuses because `enabled` is still set |

### Other properties that TLC refutes

They are defined at the end of their modules, and are refuted when they are put into
the configuration of a run that has the module (through its instance, as the `MC`
modules do for the others). Each counterexample is a behaviour of the code.

| Module | Property | What the code says | What happens |
|---|---|---|---|
| `SortPipeline` | `StaleSortNeverOverwrites` | `entries.go:102`: versions keep an old sort from replacing a newer one | `handleSortComplete` never compares them (needs `MaxClock = 2`) |
| | `SkipOnlyWhileInProgress` | `sorting.go:196`: a sort is skipped while one is in progress | a finished state blocks too, until the next cleaning |
| | `RawVersionNeverRegresses` | `server_callbacks.go:27`: only a newer version updates the raw cache | check and write are separate (needs `MaxClock = 2`) |
| | `RefCountExact` | `ip_pool.go:12`: the count is the number of domains | `CancelSort`, cleaning and `Clear` do not release |
| | `NoTaskLostAtStop` | `sortqueue.go:203`: `Stop` drains so that every callback runs | a submit after the drain is lost |
| | `NoSendOnClosed` | `server_lifecycle.go:66`: shutdown is graceful | a submit after the close panics |
| `ExpiryIndex` | `StopsAtRightPlace` | `cache_cleanup.go:149`: the heap is ordered by expiry | the worker appends, and does not sift |
| | `NeverDeletesNewData` | `cache_cleanup.go:48`: versions keep an old index from deleting new data | check and delete are separate |
| `CacheLock` | `CloseEnds` | `server_lifecycle.go:66`: shutdown is graceful | `Close` waits, locked, for a worker that needs the lock |
| `RefreshQueue` | `OneRefreshPerKey` | `refresh_queue.go:32`: one refresh per domain | singleflight covers the enqueue only |
| | `StopCompletesTasks` | `refresh_queue.go:114`: `Stop` waits for all tasks | queued tasks are left |
| `SequentialQuery` | `BacksOffAgain` | `health.go:226`: backoff doubles | failures at an open breaker restart nothing |
| | `OfflineNotCounted` | `health.go:164`: counts are frozen offline | the network is looked at twice |
| `RacingQuery` | `NoNilResult` | `manager_dedup.go:35`: a nil result is checked for | the race can return nil without an error, and the check looks at an interface that holds a nil pointer, which `handler_query.go:89` then uses |
| | `NoPanic` | `manager_racing.go:208`: the errors are collected | a request started after the close of `errorChan` may send on it |
| `ParallelQuery` | `Complete` | background completion is for completeness | the query's return cancels the requests it waits for |
| | `NoSendOnClosed` | the context is checked to avoid a closed channel | a later tier sends after the close |
| `RandomQuery` | `EmptyIsReturned` | an empty result is returned rather than nil | it comes with an error, for which `Query` drops it |
| | `ResultOrError` | `manager_dedup.go:35` | with every breaker open there is neither |
| `UpstreamManager` | `OwnContext` | | who shares a flight fails with its leader's context |
| `ConnPool` | `ChannelNeverFull` | a full channel "should not happen" | it does: the limit may exceed the capacity, and warm-up adds connections |
| | `WithinMaximum`, `ClosedMeansClosed` | | more connections are open than the maximum; a request that ends after `Close` puts its connection back |
| `Persistence` | `StartRecovers` | what was saved is loaded | the footer is decoded as an entry, and the file is discarded |
| | `NoSkipLosesKeys` | `cache_persistence.go:41`: nothing is saved while nothing has changed | a save due while `Clear` is under way is skipped: the shards are empty, the counter has not moved |
| `ServeQuery` | `NobodyIsDropped` | | a name blocked in an unknown mode gets no reply; a nil result ends the process |
| | `LimitHolds` | the configured `max_ttl_seconds` | DNSSEC messages and fresh answers of other types keep the TTL of the upstream (`handler_query.go:489`) |
| | `QuestionEchoed`, `AddressesComeAlong`, `DeadMeansMeasured` | | `handler_query.go:229` replies to another question; positive answers without addresses; unmeasured counts as dead |
| `BlockCheck` | `BlocksAtOnce` | | cached verdicts survive a reload |
| `RuleUpdate` | `EngineFollowsSources`, `OffStaysOff` | | an older rebuild may be swapped in last; a restart enables what was switched off |
| | `CacheIsWhole` | `rule_loader.go:137`: a temporary file first | several updates share it, and one renames what another has begun |
| `Pinger` | `DeadStaysBlamed`, `CacheIsNotPoisoned` | | cached results are counted as successes (`ping.go:79`, `91`); a probe that began before an outage is stored during it |
| `Recursor` | `EnabledIsWatched`, `StaysStopped`, `ExitIsOwn` | | with two callers `Start` may cancel the loop of the running process; the loop may start it again after `Stop`; a loop may read the exit of another process |
| `Checker` | `StopIsNoFailure` | | a probe that `Stop` cuts short counts as a failure |

### Observations

Met while translating, and visible without a model: `sorting.go:245` announces a
synchronous sort when the queue is full, and the code reports an error instead.
Shutdown saves to a file nobody reads (`dns_cache.json`), and so loses what was learned since
the last periodic save. Entries loaded from disk get no expiry index
(`cache_persistence.go:154`). An expired raw entry counts as a hit and as a miss. An
error entry hides a newer raw entry. `factory.go:31` passes `tls://host:port` unparsed to
the DoT transport. The DoT pool does not compare the id of a reply; that its
connections are closed after every error is what keeps replies apart. The fast-fail
mode of a pool is never switched on. The parallel strategy's text for NXDOMAIN is not
the one the handler parses, so the client gets SERVFAIL. `SuffixMatcher` compares bytes,
not labels. `handleRecursorInstallStatus` shows the state *installed* as an error.
`ip_monitor.enabled: false` has no effect, since
`server_init.go:146` copies only the value true over a default that is true already. An
address that was never probed has the constant time factor 10
(`ip_monitor_selector.go:48`), which is not the largest: in a pool larger than the three
windows together, old addresses of equal weight pass it. The quota of the monitor is
checked before a window and not before a probe, so that it can be exceeded by a window.
The OPT record of a cached DNSSEC message takes part in the smallest TTL and in
`adjustTTL`, although the field holds the extended code and flags there
(`cache_dnssec.go:80`, `handler_query.go:355`). A smallest TTL of 0 becomes 60
(`manager_utils.go:38`). The checker takes an answer on port 53 that comes in less than 2 ms
for an interception (`checker.go:420`), which `Checker` counts as silence of the address.
`ApplyConfig` holds `s.mu` while it stops and starts the recursor.

## Fairness

* `SortPipeline`: the steps of a goroutine that can run, of a worker that has a
  task, and of `Stop` once begun. A sort ends because its context has a timeout.
  Queries, evictions and cleaning need not happen.
* `CacheLock`: strong fairness for acquiring the mutex, since Go's mutex turns to
  hand-off after 1 ms of starvation; weak fairness for the steps under the lock.
  Handlers need not come.
* `RefreshQueue`: weak fairness for workers, strong for leaving on `quit`,
  since a select chooses among ready cases at random.
* `SequentialQuery`: every attempt has a timeout, and time passes.
* `RacingQuery`, `ParallelQuery`: goroutines run, timers fire, and the context ends:
  every caller of `Query` sets a deadline (`handler_query.go:46`, `refresh.go:27`).
* `UpstreamManager`: the flight ends, as the strategies do.
* `ConnPool`: requests have timeouts; the cleaner and `Close` run.
* `IPMonitor`: the loop goes on, probes end, and the first ticker ticks. Clients need do
  nothing, and `ComesRound` asks that from some time on they do nothing. The quota is
  at least the number of windows: with less, a window that comes first can use it up.
* `RuleUpdate`: a download has a timeout.
* `Pinger`: probes that were started end, and their results are recorded. Nobody need ask:
  neither clients nor the monitor, which may leave an address out while clients are at
  work. That the address is asked again and again, stays alive and the network up is the
  hypothesis of `Forgiven`.
* `Checker`: a probe of a reachable address succeeds, one of an unreachable one times
  out, the ticker ticks, and the select notices a cancelled context (strong, for
  the choice among ready cases).
* `Recursor`: goroutines run, and a killed process dies. A process that was only
  signalled need not.

## Proofs

TLAPS proves every invariant and every action property that a passing run checks,
and both refinements, for all values of the constants that the named assumptions allow.
A module of proofs extends the module that composes the components it is about, which
the `MC` module of the run extends too: theorem and run state the same definition. Where a
theorem is about an instance, the assumption on the constants is a
hypothesis (`LRU!CacheAssumption /\ LRU!Spec => ...`), and the `MC` module of its run has
TLC evaluate it.

The assumptions ask for finite sets where something is counted, positive capacities and
thresholds, and special values (`None`, `NoServer`) that are nothing else. Two say more
and are justified by the code: `DecayAt` of `UpstreamManager` is even (200 in the code), and
the configuration names no server twice.

Few of the properties are inductive. What each needs in addition:

* `SortPipelineProofs` (`ClosedOnce`, `SingleFlight`, `HasExecutor`, `SemaphoreExact`):
  a live job (owning, `Done` open) is the one in
  the map under its key and is in progress; a state in the map that is in
  progress belongs to a live job of that key; a job that has not started has no
  state; the queue holds exactly the queued jobs, each once; a worker's job is
  being processed, and a worker leaves only between tasks; the slots in use are
  the goroutines between send and receive. `ClosedOnce` needs the second: it is
  why the unguarded `close` of `Clear` never meets a closed channel.
* `ServerHealthProofs`, `SequentialQueryProofs` (`BreakerConsistent`, `NoServerLeftOut`):
  consistency is about
  one breaker, so each operator of `ServerHealth` is shown to keep it, and every
  action touches breakers only through these operators. For `NoServerLeftOut`: a server
  that was usable all along has been asked or is still to come in the order the query
  was given, that order has every server (it is an injection between sets of the same
  size), and the steps of other queries only take servers out of `usable`.
* `UpstreamProofs`, racing (`NoReportBlocks`, `CountedMeetsOpenChannel`,
  `NoAnswerNoEarlyEnd`): only servers up to the
  starter's place have been started, which is at most `MaxConcurrent`; every
  buffered error comes from a request that has returned, so that errors and
  requests under way together are at most the servers started; whatever
  wakes the query before its deadline comes from an answer.
* `UpstreamProofs`, parallel (`ClosedBehindCounted`, `ParallelOutcome`): what is in the
  channel or collected was sent and is no error; the fast response, once offered, is an
  answer with addresses and does not change; the collector runs only for a query that
  leaves with it; a query that waits for the errors has timed out.
* `UpstreamProofs`, random (`RandomAsksEverybody`): whom the loop has left behind has
  failed in this query or is in its backoff, and no later step touches its breaker.
* `UpstreamProofs`, manager (`CountsAgree`): inductive with its types. Counts are halved
  at `DecayAt + 1` requests, an odd number, so that exactly one of successes and errors
  is odd and what the rounding takes from it, it takes from the requests too. Halving one
  request earlier (`Decayed_Early`) breaks this.
* `ConnPoolProofs` (`OwnReply`, `Accounted`; both again for the TLS pool): a connection is
  in the hands of one request, of the cleaner or of nobody. Over TCP and TLS a
  connection nobody uses owes no reply, and one in use owes at most its user's: this is
  what fails when a connection is put back after an error. The steps of the TLS pool
  are shown to be steps of `ConnPool` with `network = "tls"`.
* `CacheProofs`, persistence (`AtomicSaves`, `SkipLosesNoKey`): a temporary file holds
  for every shard nothing yet or something the shard has held since the start, or a part of
  it in the one shard that could not be encoded to its end; so the
  rename is the only step in which `DurableStore` moves, and what it moves to is a save.
  For the skip: as long as the counter is what a save read at its begin, no key has come or
  gone except by a `Clear` that is not over, and such a `Clear` will move it.
* `CacheProofs`, LRU caches (`WellLinked`, `IsBoundedMap`): every shard's nodes form one
  chain between `head` and `tail`, and what waits in a shard's `accessChan` belongs to that
  shard. That the chain has no cycle is said without counting along it: a set of nodes
  that has the head and with every node its successor is the whole shard (`Reached`).
  `remove`, `addToFront` and `moveToFront` are shown to keep it, as operators on lists.
* `CacheProofs`, expiry (`Indexed`, `CountNeverExceeds`): the index of a version is in one
  place (pending, channel, worker or heap); versions in use have been handed out; an
  index sent now does not expire before its entry; between the two halves of `Clear`
  the heap has ghosts only. Below it are facts about `heap.Pop` on any array, in
  heap order or not, since the worker only appends: the elements on the path move
  to where their parent was, no two to the same place, so that all but the first are
  kept. The count is bounded because valid indexes of distinct versions have distinct keys.
* `ServerProofs`, handlers (`AnsweredOnce`, `TTLsAreHonest`): what a cache entry has left
  is at most `life`, and what the records of a message have left is at most `sent`; a sorted
  entry stored while the raw one was missing has `MinTTL` of
  its own, and only until an answer is stored. The TTL functions are bounded by lemmas.
* `ServerProofs`, filter (`VerdictsAreRecent`): a cached verdict is at least as old as the
  last time the rules said it, and noting a verdict takes no time.
* `ServerProofs`, recursor (`OneProcess`): a thread in the second half of `Start` has
  `m.mu`, only the process it waits for can be starting, and then no other lives; the
  `Stop` that is going to close a stop channel is the only one, and a recursor that can be
  stopped has an open one.
* `ServerProofs`, lists (`FilesAreWhole`): only an update downloads and waits for its
  downloads, and takes slots of its own; a temporary file that nobody else has in hand is
  whole between its last byte and its renaming, and one that somebody else has is `shared`.
* `ServerProofs`, checker (`OnlySilenceFails`): until the loop has taken it, an answer is
  at its goroutine or in `resultCh`, and a probe that has failed has no goroutine left.
* `RefreshQueueProofs` (`UpkeepConsistent`): a flight is the callers with its key, exactly
  one of them leads; the queue's, the workers' and the finished tasks of a key add up to
  the accepted ones (`QueueIsConsistent`). For the lock, whoever holds `c.mu` is at a place
  in its code that holds it (`OneWriterOrReaders`).

Only model-checked is the liveness, which is out of the prover's reach: `SortEnds`,
`OnlyTwoWaysToHang`, `TasksAreDone`, `GoroutinesEnd`, `AllEnds`, `SkipIsTemporary`,
`SharersAreAnswered`, `CloseEnds`, `ComesRound`, `CallsReturn`, `Forgiven` and
`NetworkIsNoticed`; with it `Pinger` and `IPMonitor`, whose properties are all of this kind.

## Not modelled

* Installer, logger, flag parsing, web pages, most of the web API, configuration
  parsing, wire formats, ICMP: I/O and presentation.
* Statistics: no other part reads them.
* Prefetcher: its scores are floating-point heuristics; what it does to the rest is a
  `Submit`, which `RefreshQueue` allows at any time.
* The smoothed RTT and the representative domain in the IP pool: values on which no
  step of the models depends.
* Start-up and `ApplyConfig`, which replaces pointers under `s.mu`; the bootstrap
  resolver, a cached look-up under one mutex.
* Matching a name against the rules: a verdict that changes at any time.

Worth proving next: the safety that belongs to the liveness properties (nobody at
`c.mu` waits behind a third party, `IPMonitor` and `Pinger` keep their types and counts),
and the refuted properties that hold under a hypothesis, with that hypothesis.

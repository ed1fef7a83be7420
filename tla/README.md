# A TLA+ model of pypowsybl-mcp

pypowsybl-mcp is an MCP server that lets language-model clients load electrical
networks, change them and run pypowsybl's analyses on them. It is stateful: each
session owns a *proxy* holding its networks, and several caches and counters are
kept in step with it. Little of the program is algorithmic. What is hard in it is
the state: two caches with a time to live and a capacity, a registry that must
follow one of them from the outside, ids bound to connections, calls that await
in the middle, and analysis results that must describe a network that keeps
changing. That state is what these modules model.

Paths below are relative to `src/pypowsybl_mcp/` unless they start with `docs/`.

## 1. Inventory

| Component | State it keeps | Operations | What is hard | What makes it correct |
|---|---|---|---|---|
| TTL cache, `utils/cachetools.py` | entries with a value, an insertion time, an order of use; an RLock | the mapping protocol, `get`, `pop`, `popitem`, `setdefault`, `expire`, scans | entries die by time but are removed only on access; reads reorder; storing in a full cache evicts | bounded; never serves a dead or overwritten value; loses live entries only for room; keeps what was used last |
| Session cache and `get_proxy`, `server.py`, `tools/__init__.py` | `pypowsybl_proxies`, a TTL cache of proxies by session id | look up or build a proxy; the temporary-resource route | the 101st session evicts another one in the middle of what it does; expiry does not depend on activity | a proxy belongs to one session |
| Session identity, `utils/user_session_management.py` | the id in the state of each connection | assign on first use, read, rebind | the binding changes while a call awaits; it is lost with the connection | a call works for the session it began in |
| Session tools, `tools/utils/session.py` | none | `set_session_id`, `duplicate_session` | a fork is stored in one place and tracked in another; it may overwrite a session in use | a fork shares nothing; a fork is tracked |
| Session registry, `utils/session_registry.py` | creation and last-use time of each tracked session, totals of expired and evicted ones | `touch`, `record_call`, `reconcile` | it learns of a loss only at the next poll, and guesses its cause from an age kept on another clock than the cache's, from a later stamp | no alarm for a session that merely expired, but for what the clocks have parted; no session outlives the cache in it |
| Call instrumentation, `utils/instrumentation.py` | none | wrap every tool, record its call when it ended | the session is looked up after the tool ran | each call counts for the session it ran in |
| Admin API, `admin.py` | none | `/admin/health`, `/admin/sessions` | it drives `reconcile` and the reaping of the cache; reading a session counts as a use | observing changes nothing a client can tell |
| Session proxy, `proxy.py` | two TTL caches (networks, load-flow results), the security notes, the current network, settings, resources | register, invalidate, copy | the caches lose entries independently; copies reset ages | a cached result describes its network as it stands |
| Load-flow settings, `proxy.py`, `tools/loadflow_tools.py` | a provider and a mutable parameter object in each proxy | set, update in place, restore from the file, copy with the session | objects are shared by reference; what `copy()` does not copy is reset in silence; so is all of it when the session is lost and created again | a run takes what its client asked for, and no other session's settings |
| Network tools, `tools/network_tools.py` | none of their own: they work on the proxy and on the variants inside the networks | load, switch, remove; change elements; clone, switch, remove variants; read another variant and come back | each must drop or keep the cached result rightly, on every path out | the same; the current network is loaded |
| Load-flow, security, sensitivity tools, `tools/loadflow_tools.py`, `tools/security_tools.py`, `tools/sensitivity_tools.py` | none of their own | run an analysis, reuse the last one, record its outcome | a load flow that does not converge overwrites the values all the same | a study that asks for a solved network gets one |
| Online documentation, `tools/utils/resources.py`; input and output, `tools/utils/io.py` | pages in the proxy; networks | fetch and save; download and register | both await between resolving the proxy and writing into it | what is written late reaches its own session or nobody |
| Artifacts and downloads, `utils/artifact_utils.py`, `utils/download_utils.py` | a dictionary of links with their expiry, a file for each | write a file, serve it, remove the expired ones | any request cleans up for all; the clock moves between the clean-up and the next look at it; removals and writes fail | a link answers with its file until the expiry the client was told; no file is left without an owner |
| Pagination, `utils/pagination.py` | none | cut a page, say where the next one starts | limits and cursors at their boundaries | following the cursors yields every row once |
| Element data filter, `utils/element_data_filter.py`, `utils/element_types.py` | none | filter and rank the rows of a table by a metric | rows without a metric, limits of zero, ranking before cutting | what is listed is the worst there is, and what is left out is told |
| Visualisation and code export, `tools/visualization_tools.py`, `llm_utils/` | a dictionary of settings | render; ask a language model for a script, and write it to a file | the model may fail, answer late or with what does not parse | a failed call leaves no file |
| Plugins, refusal of stateless clients, introspection | none | import, refuse, look up | nothing the state of the server depends on | – |

How they interact. A tool call goes through the instrumentation wrapper, asks
the identity for the id of its connection, and `get_proxy` for that id's proxy:
this reads or stores in the session cache and touches the registry. The tool
then works on the proxy, and when it has ended the wrapper records the call in
the registry against the id the connection is bound to *by then*. The registry
never hears from the cache; `reconcile`, called by the admin routes only,
compares the two. The tools are coroutines on one event loop, and most of them
run to their end without an await. Four await in the middle:
`get_online_resource` and `load_network_from_url`, which write into the session
afterwards; `generate_python_script`, which asks a language model; and
`export_network`, which reads a file back in a thread. The last two end in a
download link. The download endpoint, on the same loop, awaits the thread that
reads the file it serves. Plugins inherit `get_proxy` and may call it from worker
threads (`server.py:57` builds the cache for them).

## 2. Modules

| Module | What it is | Code |
|---|---|---|
| `TTLCache` | pure operators on a cache value: `Get`, `Put`, `Remove`, `Expire`, `Scan`, `Elapse` | `utils/cachetools.py` and what it uses of the cachetools library |
| `ThreadSafeTTLCache` | one cache and its callers: one action per method, with history variables for its properties | `utils/cachetools.py` |
| `Sessions` | the session server on its event loop | `server.py`, `tools/__init__.py`, `user_session_management.py`, `session_registry.py`, `session.py`, `instrumentation.py`, `admin.py`, and the awaiting calls of `resources.py` and `io.py` |
| `AbstractSessions` | what a client is promised: a private store per id | – |
| `Lookups` | `get_proxy` and `reconcile` lock by lock, in threads | `tools/__init__.py`, `session_registry.py`, `server.py` |
| `Workspace` | one session's networks and results, and every tool that changes them | `proxy.py`, `network_tools.py`, `loadflow_tools.py`, `security_tools.py` |
| `LoadflowSettings` | the provider and parameters of the sessions, and what each solving tool takes of them | `proxy.py`, `loadflow_tools.py`, the solving calls of `security_tools.py` and `network_tools.py` |
| `Downloads` | links, files, scratch files, and the calls and requests that write, serve and remove them | `download_utils.py`, `io.py`, `code_generation.py` |
| `Pagination` | pure operators: limits, cursors, pages | `utils/pagination.py` |
| `Answers` | the long answers built on it: filtered, ranked, cut and walked page by page | `element_data_filter.py`, `security_tools.py`, `sensitivity_tools.py`, `network_tools.py` |
| `TTLCacheTheorems` | lemmas on the operators of `TTLCache` | – |
| `CacheProofs`, `SessionsProofs`, `LookupsProofs`, `WorkspaceProofs`, `LoadflowSettingsProofs`, `DownloadsProofs`, `AnswersProofs` | the theorems of each module | – |
| `MC...` | symmetry sets and input sets for TLC | – |

`ThreadSafeTTLCache`, `Sessions`, `Lookups` and `Workspace` are all built on the
operators of `TTLCache`: the same `Put` that evicts a session evicts a network.
`Answers` is built on `Pagination`. `Sessions` composes the cache, the registry, the
identities and the awaiting calls, and implements `AbstractSessions`.

### The cache value

A cache is a record: `val`, the value of each stored key; `left`, the ticks
before each key expires, 0 for an entry that is dead and not reaped; `lru`, the
order of use as a set of pairs. The methods of `cachetools.TTLCache` and
`LRUCache` are external: modelled from how `ThreadSafeTTLCache` uses them. Those
that matter: a `get` of a live key moves it to the end of the order and does not
renew it; storing first drops the dead entries, then evicts the least recently
used one if there is still no room; `values()` and `items()` are the mixin's, so
they read, and thereby reorder, every entry.

### Sessions

| Variable | Code |
|---|---|
| `cache` | `server.pypowsybl_proxies`, values being identities of proxies |
| `data[p]` | the sessions whose calls wrote into proxy `p`; `{}` once nothing refers to it |
| `registry` | `SESSIONS`: the age of each tracked session, saturated at the TTL because only `age >= ttl` is tested, and the order of the last-seen times |
| `bound[n]` | the session id in the state of connection `n` |
| `call[c]` | an awaiting call: its connection, the id it read and the proxy it resolved |
| `fate[k]` | history: how the last proxy of `k` was lost, until a poll counts it |
| `lag[k]` | history: the ticks by which the wall clock has fallen behind the cache's since `k` was last stored; never negative |

A stretch of code between two awaits is one action: `UseSession` is a tool from
its wrapper to the record of its call, `BeginFetch` and `EndFetch`/`FailFetch`
are the two halves of a call that awaits.

There are two clocks. `cachetools` times an entry from its insertion on
`time.monotonic()`; the registry stamps `created_at` a few lines later and compares it
with `time.time()`, which can be set. `Tick` advances both, `CacheTick` and `WallTick`
one of them, in any order. No time passes inside an action, and none need: a tick
between the insertion and the stamp of a new session takes from the life of every entry,
the new one included, and adds to the age of every tracked session but the new one, which
is what a `WallTick` before the action and a `CacheTick` after it do. `lag` says how far
the two have parted for each session, whatever the cause.

`Reconnect` forgets a binding only when the connection has no
call in flight, since the call still holds its context.

### Lookups

Here one stretch of `Sessions` is taken apart, as it is when it runs in a worker
thread: each operation of the cache and of the registry takes its lock, and
anything may come between two of them.

| Variable | Code |
|---|---|
| `cache`, `age` | `pypowsybl_proxies`; the time since `created_at` in `SESSIONS` |
| `call[w]` | where the call of thread `w` stands in `get_proxy`: `asked`, `missing` or `present` (the test), `touched`, then `holding` its proxy or `failed` with a `KeyError` |
| `probe` | where `reconcile` stands, and the sessions it listed as live |
| `stored` | history: the sessions stored since then |

A call is *disturbed* once the clock has ticked or another call has stored a
proxy since it began. `UndisturbedCallsKeepTheProxy` says that nothing else can
take its proxy from it; a disturbed one may hold a proxy that has been replaced
or fail, and the code does so (two threads that find a new session missing both
store a proxy). On the event loop only the clock can come between two of the steps: a
session that ends between the test and the read is the `KeyError` of `Lookups`, and
leaves what the tick followed by `CallWithoutProxy` leaves in `Sessions`, where
`get_proxy` is one step.

### Workspace

| Variable | Code |
|---|---|
| `networks` | `proxy.networks` |
| `loadflow` | `proxy.loadflow_results`, each seen as its outcome: `ac`, `dc` or `failed` |
| `security` | the keys of `proxy.security_results` |
| `current` | `proxy.current_network_id` |
| `excused` | history: networks evicted, replaced, or robbed of their working variant since their last load flow |

A network is the pair of its working variant and, for each variant, what its
flow values stand for: none; those of a converged AC or DC load flow of the
variant as it is; those a failed load flow left; older ones. That is all the
properties tell apart. A tool may fail at each point where the code can: after
resolving the network, after dropping the result, when the element is not found
or refuses the value, when pypowsybl raises.

Assumed of pypowsybl, which is not in the repository: a deep copy is faithful; cloning
into a variant that exists is refused; removing the working variant leaves none
set; a solved network has a flow on at least one line (so
`get_top_active_power_transit_lines` does not solve it again).

No clock runs in `Workspace`. A session's networks are stored after the session,
and `GRID_TTL` equals `CLIENT_SESSION_TTL`, so by default none expires before
its session does. `Fork` and `ForkedFrom` are `copy()` seen from the two sides.

### LoadflowSettings

| Variable | Code |
|---|---|
| `provider[k]` | `proxy.lf_provider` of session `k` |
| `params[k]`, `heap[o]` | the object `proxy.lf_params` refers to, and what it holds: a shared reference would be visible |
| `chosen[k]`, `asked[k]` | history: the provider last chosen and the parameters asked for, by the client of `k` or, before it was forked, of its source. `asked` is worked out from the requests by what the names stand for, not by the code's order of tests |
| `lost[k]` | history: which of the two were reset since, without the client being told |
| `ran` | history: the solver run of this step, its provider and parameters |

Of the parameters two are kept. `voltage_init_mode` stands for those that are
set as they come. `component_mode` is also set by its deprecated name
`connected_component_mode`. The enumerations are converted with `dict.get`, so
that an unknown name becomes `None`.

`NewProxy` is a session that was evicted or expired and is created again by its next
call. The client is told nothing, so `chosen` and `asked` stay and `lost` records it;
`restore_default_loadflow_param` does the same to the provider, which its answer does not
show. The properties that hold make these two exceptions and no other; that the
exceptions happen is among the divergences of section 3.

### Downloads

| Variable | Code |
|---|---|
| `links` | `download_links`: for each listed token the ticks before `expires_at`, -1 once past |
| `disk[t]`, `scratch[c]` | the temporary directory of token `t`; the scratch file or directory of the tool call in slot `c` |
| `call[c]` | where a tool call or a request stands, its token and the time it read from the link |
| `loop` | who holds the event loop within a stretch |
| `told`, `answer`, `stuck` | history: the expiry the client was told, the HTTP answer of this step, the removals that failed |
| `dangling` | history: the listed tokens whose `generate_download_link` failed after it had listed them |

The code looks at the clock more than once within a stretch without an await (a
request cleans up, then tests its own link; a writer computes the expiry, lists the
link, then answers). A stretch is cut there, `loop` keeps every other coroutine out,
and the clock and the threads go on. That is what lets a link expire between the
clean-up and the test of one request, and a cancelled `load_network_from_url`
remove its directory while the thread it no longer waits for creates its file. The
`try` of `generate_download_link` covers its listing and what follows it, so that a call
may fail before the listing (`WriteFails`) or after it (`ListedButFails`); the same
branch removes the file in both cases, and the link in neither.

### Answers

`lines` and `elements` are a network as far as the answers see it: a current and
two limits; the voltages of an element and the violations its loss leads to.
`walk` is a client that follows `nextCursor`, with what it got so far; `Change`
is another call that alters the network between two pages. `answer` is the last
answer that is no page: an inline one, cut and told to be cut, or an artifact. No
answer is made of both tables, so only one of them varies in a behaviour.

## 3. What the runs check

Properties that hold:

| Run | Bounds | Shows |
|---|---|---|
| `cache` | 3 keys, 2 values, 2 places, TTL 2 | `TypeOK`; `Bounded`; `ReadsLatest`: no read serves a dead or overwritten value; `LosesOnlyForRoom`: a live entry goes only when removed, or when a new key is stored in a full cache of live ones; `LastUsedSurvives` |
| `sessions_isolation` | 3 ids, 1 connection, 1 call in flight, 4 proxies, 2 places, TTL 1 | `TypeOK`; `PrivateProxies`: no proxy is shared, and a call in flight holds its own session's or nobody's; `StoresArePrivate`: the server implements `AbstractSessions` |
| `sessions_liveness` | 2 ids, 1 connection, 2 proxies, 1 place, TTL 2, no call that awaits | `CachedAreTracked`; `LifeNotOverstated`: the life that the admin API reports exceeds the real one by no more than the clocks have parted; `ExpiryRaisesNoAlarm`: a session that expired is counted as evicted only while its wall-clock age is short of the TTL, by no more than that; `LostIsReaped`, `ExpiredIsReleased`, `BusySessionsEnd` |
| `lookups` | 2 ids, 2 threads, 3 proxies, 1 place, TTL 2 | `TypeOK`; `UndisturbedCallsKeepTheProxy`; `ReconcileSparesTheLiving`: only a session stored after the live ones were listed is counted out alive; `TrackedAgain`: and it is tracked again |
| `workspace` | 2 networks, 2 variants, 1 place | `TypeOK`; `ConvergedResultsHold`: a converged result stays that of the working variant as it stands, whatever was changed, switched, cloned, forked or read elsewhere |
| `workspace_room` | 3 networks, the initial variant, 2 places | `CurrentLostOnlyToRoom`: the current network stays loaded unless another one is stored in a full cache or none is left |
| `loadflow_settings` | 2 sessions, 2 objects, 2 providers | `TypeOK`; `RunsAsAsked`: a load flow runs with the parameters asked for, unless the session was lost since; `RunsWithChosenProvider`: and with the provider chosen last, unless it was lost or restored since; `SettingsArePrivate`: no step changes the settings of two sessions |
| `downloads` | 3 calls or requests at a time, 2 tokens, a life of 2 ticks | `TypeOK`; `ListedHasFile`: every listed link has its whole file, but for those whose call failed after listing them; `FoundStaysListed`: what a request has found is there when it drops it; `ServedUntilExpiry`; `FilesHaveOwners` |
| `answers` | 3 rows, pages of 1 by default and 2 at most, 4 kinds of lines and of elements | `TypeOK`; `WalkIsExact`; `WalksEnd`: also while the table changes under the cursor; `OverloadsAreCounted`; `WorstAreListed` |

Why the bounds are enough. Each cache has one key more than it has places, so
that storing evicts, and a place more than one wherever a property is about
*which* entry goes. A TTL of two lets entries of different ages live together,
which is what the accounting depends on, and is a poll before, at and after the end of a
session on either clock; isolation does not depend on ages, and a TTL of one keeps it
small. `sessions_liveness` has no call that awaits: the late end of one touches the registry
or writes into a proxy, as a call that does not await does too, and the theorems on its
properties hold for any number of calls. One call in flight meets every eviction, expiry,
fork and rebinding of its session; calls in flight do not interact with each
other but through the cache. In `workspace` the properties are about one network
at a time and two variants are enough to be on the wrong one; a second network in a
single place makes eviction happen at every load. Two threads are enough for one to come
between any two locks of another, and three proxies let one be free when two are
held. Three calls in `downloads` are one that writes, one that reads and one that
cleans up for both; two tokens are one listed and one written, and a life of two ticks
has links before, at and past their expiry that expire apart.
Three rows with pages of one and two give a walk a first, a middle and a last page,
and the kinds of lines and elements give it missing currents, limits of zero and
of "none", equal loadings, and elements with no, one and several violations. The theorems of section 5 lift these
bounds for most of the properties.

Symmetry is used in the safety runs only: ids, connections, proxies and
call slots are interchangeable (in `Workspace`, the networks and the variants
but the initial one). No run has a state constraint, and the models are finite
without one: ages saturate at the TTL. Deadlock is checked everywhere but in
`answers`, where a client that has its answer stops.

Fairness. `sessions_liveness` assumes that the monotonic clock ticks (the wall clock
need not) and that something polls `/admin/health`, which needs no token and exists for that (`admin.py`: "it
can back a container health check or an uptime probe"). Clients
owe the server nothing. `lookups` assumes of the probe only that it goes on.
Without the poll nothing reaps an idle server: the liveness of `LostIsReaped` and `ExpiredIsReleased` is that of the
deployment's probe. Nothing is stated about the end of downloads: links are
removed by requests only, no timer exists, and nobody has to ask.

### Where the program and its documentation part

Each of these runs checks one sentence of the documentation, and TLC finds a
behaviour of the code that contradicts it.

| Run | What happens |
|---|---|
| `reused_is_solution` | `check_voltage_violations` reuses a load flow that failed |
| `security_uses_session_provider` | `run_security_analysis` runs with pypowsybl's own provider and parameters, whatever the session chose |
| `sensitivity_walk_is_whole` | the two matrices of a sensitivity analysis are cut by one cursor, and the shorter one's pagination block is returned: the walk ends after one page |

The models show more of the kind, which have no run of their own, being either
consequences of the same code or plain to see in one action:

- the read-only `/admin/sessions` reads the sessions from the most to the least
  recent, reversing the order in which they are evicted (`AdminSessions`), although
  `docs/monitoring.md:29` calls it read-only;
- a session that was bound but never had a proxy is tracked, missed at the next
  poll, and counted as evicted for capacity (`CountedEvicted`,
  `docs/monitoring.md:127`);
- a page fetched while its session was evicted and created again lands in the old
  proxy, although the answer gives its address (`EndFetch`, `resources.py:169`);
- a session ends a TTL after its creation (`Get` does not renew), not after
  "24 h of inactivity" as `docs/architecture.md` has it; `docs/monitoring.md`
  has it right, and `BusySessionsEnd` checks it;
- a session made by `duplicate_session` is tracked at once, with its real creation time
  (`session.py:99-101`, `DuplicateSession`): `CachedAreTracked` holds, and on the event loop
  `reconcile` never adopts one. `docs/monitoring.md:133-135` and the comment at
  `session_registry.py:46-49` say the opposite, that a fork is adopted with an estimated
  creation time, and name it as the example of a session whose expiry "may be counted as a
  capacity eviction". `Lookups` shows the one way to be adopted: a store by a thread
  while `reconcile` runs;
- those are not the only sessions so miscounted, as `docs/monitoring.md:131-135` and
  `session_registry.py:150-152` have it. The registry stamps a session after the insertion
  from which the cache times it (`tools/__init__.py:61` and `65`, `session.py:98` and `101`), and on a
  clock that can be set back: any session that a poll finds gone between the two
  deadlines has expired and is counted as evicted (`CountedEvicted`).
  `ExpiryRaisesNoAlarm` says that this is as far as it goes;
- conversely, a session evicted for capacity and noticed by a poll a TTL after its
  creation is counted as expired, although `docs/monitoring.md:127-128` says that
  `evictions.capacity` counts the sessions pushed out before reaching it
  (`CountedExpired`);
- the countdown `expires_in_s` is TTL minus the wall-clock age (`admin.py:121-125`): it
  exceeds the life left by what passed between insertion and stamp, and by what the
  wall clock was set back (`LifeNotOverstated` bounds it by `lag`);
- a session that expires and is used again before the next poll is not counted
  (`Reconcile`);
- a call in flight while its connection is rebound counts for the new session
  (`EndFetch`);
- `list_networks` marks a network whose load flow did not converge, or that was
  loaded under the id of one with a result (`RunLoadflow`, `RegisterNetwork`);
- `get_overloaded_elements(study="n")` reads the initial variant whatever the
  working one is (`security_tools.py:959`);
- `remove_variant` switches to the fallback and keeps the cached result; with the removed
  variant itself, or an absent one, as the fallback it leaves no working variant
  (`RemoveVariant`, `WithoutVariant`);
- `remove_network` leaves the security note of the network (`RemoveNetwork`);
- `clone_variant` clones the initial variant by default where
  `docs/tools_reference.md` says the current one;
- "the updated parameters will be used in subsequent run_loadflow calls"
  (`loadflow_tools.py:238`, and `116-122` for the provider): not when other clients made the session
  go, or its TTL ended. `get_proxy` builds a new proxy with the configured settings and tells nobody
  (`NewProxy`). `RunsAsAsked` and `RunsWithChosenProvider` make this exception and no
  other;
- `restore_default_loadflow_param` also resets the provider, which its answer
  (`loadflow_tools.py:199-207`) and `docs/tools_reference.md:77` do not show: "Reset load
  flow parameters"; and an unknown name of an enumeration is set as `None` without a word
  (`RestoreDefaultLoadflowParam`, `Converted`);
- a call that fails after it has listed its link removes the file and leaves the link,
  which answers 404 until it is cleaned up (`ListedButFails`);
  `tests/utils/test_download_utils.py:317-322` knows it, "noted as a minor real edge
  case". No client was told of such a link, so `ServedUntilExpiry` holds;
- a file whose removal failed is forgotten with its link and never tried again,
  and the branch that answers 410 leaves the empty directory (`NotCleaned`,
  `Gone`);
- a `load_network_from_url` that is cancelled before its thread has opened the
  file may leave the directory and the file (`CancelLoad`, `FetchOpens`,
  `RemoveDirectory`).

### Slips

Each module holds a few definitions commented "A slip": a function of the code
as a plausible mistake would make it (a fork that shares its source's proxy, a
variant switch that keeps the cached result, a link listed although its file
could not be written). They are not part of the specifications. Put in the place of the
definition they follow from, each makes one property fail under its run, which
shows that the property depends on that code. `PROJECT.json` pairs them.

## 4. Hazards

`PROJECT.json` lists them at their lines with the properties that cover each.
Three have none. The session a call that awaits is counted for
(`instrumentation.py:71`) is modelled as it is, but only counters depend on it.
That displaying the sessions reorders them (`admin.py:207`) is modelled too, and
every property holds with it: which session goes first is promised to nobody.
That `get_top_active_power_transit_lines` solves a network again
(`network_tools.py:2077`) needs a solved network without a flow on any line,
which the model assumes not to exist.

## 5. What is proved

All theorems hold for every value of the constants; the sets of ids,
connections, calls, proxies, threads, networks, variants, tokens, objects and
providers may be of any size. Assumed, each by name in the module that declares
the constant: the TTL and the capacities are positive naturals, the life of a link
a natural; the absent id, variant, network, token, holder of the loop, session
and provider are not members of their sets; the initial variant is a variant,
the configured provider a provider; the default page size is positive and at most
the ceiling; a table has at least one row, lines and elements are some of the records
`Answers` describes, and asking for no limit type is not asking for the currents.
Theorems that assume more say so in their statement: the two that count rows, and
those of liveness.

`TTLCacheTheorems` says once what each cache operator does to the keys, the
values, the times left, the live entries and the order of use; everything else
cites it and never opens the record. That the order of use is total is stated
as "every nonempty set of keys has a first": it gives the least recently used
key without induction over finite sets.

**`CacheProofs`**: all five properties of the `cache` run, from one invariant,
`CSafe`. Its parts: the cache stays a cache and its order total (`Typed`), it
never exceeds its room (`Sized`), what is stored is what was last written and
not older than its TTL (`Faithful`), the last read was right (`ReadsLatest`),
and the key used last is the last of the order (`Recent`). `LosesOnlyForRoom`
and `LastUsedSurvives` are action properties drawn from it: an eviction happens
only in a full cache without dead entries, and takes the first of the order.

**`SessionsProofs`**, in this order:

1. `TypeCorrect`: `TypeOK` is inductive by itself.
2. `SessionsAreIsolated`: `PrivateProxies` is inductive on top of `TypeOK`. The
   argument is one lemma for the steps that store a *new* proxy (nothing refers
   to it, in the cache or in a call) and one for the steps that only shed.
3. `NoSessionIsAdopted` and `ReportedLifeIsSafe`. Neither is inductive alone: a
   life is only compared for the keys that are tracked, so both are drawn from
   `Accounted`, which says of each cached key that it is tracked and that its age, the
   time it has left and the lag of the wall clock add up to at least the TTL. Each tool
   keeps it because `get_proxy` and the fork touch what they store, each clock because
   `lag` counts what the other does not.
4. `ExpiryNeverAlarms`, an action property. `ExpiredAreOld` carries through the
   steps what `reconcile` relies on: a tracked session whose fate is "expired"
   has an age that, with its lag, is at least the TTL. It needs `Accounted` at the tick in which the
   entry dies.
5. `StoresAreRefined`: the server implements `AbstractSessions`. The initial
   states map, and every step maps to a use, a fork or a loss of stores, or to a
   stutter. Besides isolation it needs `Freed`: a proxy that nothing refers to
   holds nothing, so that a store begins empty. A late write into a proxy that is
   no longer cached is a stutter, by `PrivateProxies`.

**`LookupsProofs`**: `LookupsTypeCorrect`; `UndisturbedCallsHold`, where
`Undisturbed` adds to the property that a call past the test which nothing has
disturbed has its session live in the cache; and `TheLivingAreSpared`, from
`Listed`: between the listing and the alignment, what is live and was not listed
has been stored since.

**`WorkspaceProofs`**: `WorkspaceTypeCorrect`, and `ResultsHold` for
`ConvergedResultsHold`. The latter is not inductive: an entry of the result
cache may outlive its network, which may be loaded again under the same id. The
strengthening, `AllFine`, adds that a result whose network is not loaded is
excused, and so cannot become a claim about a new network. One lemma for each
kind of step (a read, an update that keeps the working variant's flows, an
invalidation followed by a change, a recorded solution) does the work and each
tool cites the one it is made of. `CurrentStaysLoaded` proves
`CurrentLostOnlyToRoom`; it adds `Roomy` (the networks' order of use is total and
their number within the room), from which storing in a cache with room loses none.

**`LoadflowSettingsProofs`**: four theorems from `Sound`, whose heart is `Apart`:
two sessions never refer to one object. With it an update in place reaches its own
session only. `Heeded` and `Chosen` say of every session, run or not, that its object and
its provider are what was asked for and chosen, or the configuration's when that was lost
(`KeptParams`, `KeptProvider`). That `Updated`, the code's tests of two names in order,
does what `AskedFor` says a request asks for is part of it.

**`DownloadsProofs`**: five theorems from `Safe`. `Ordered` says that whoever is
in the middle of a stretch holds the loop, that a token being written is nobody
else's, and that the time a request or a writer holds is that of its link; `Kept`
that a link is listed at least until the expiry its client was told, also while a
thread reads its file, and that no client was told of a link that its call left behind
(`Untold`); `Owned` who is to remove each file.

**`AnswersProofs`**: seven theorems, in three layers.

1. *Pages.* `PageIsExact`: a page is the part of its list from its cursor to the
   next one, which lies further on. `PagesJoin`: two pages in a row miss and
   repeat nothing.
2. *Lists.* A list is a set of rows and a strict order of them, and `InOrder` puts
   each row at the number of rows before it. `InOrderLemma` shows by counting that
   those places are distinct and fill the list, for any strict order on a finite set;
   so nothing is said of a sorting algorithm, and no induction is needed. `WorstLemma`
   says what a cut of such a list leaves out.
3. *Behaviours.* `WalkInv` says of a client under way that it has turned at most as
   many pages as its cursor has passed rows, and that it has the rows from where it
   began to its cursor while the network stays as it is. It gives
   `AnswersTypeCorrect`, `WalksAreExact` and `WalksComeToAnEnd`. For an answer that is
   no page, the tool that makes it establishes `RightAnswer`, and a step that makes
   none forgets the last; that gives `OverloadsCounted` and `WorstListed`.

The loop over all pages (`WalkPages`) is a function defined by what it is at a later
cursor. `AllPagesLemma` shows that the function with the whole rest of the
list at each cursor is a solution, and that there is no other: take the last cursor
at which another one differed; its next page lies further on, where they agree.

`OverloadsCounted` and `WorstListed` assume a table of at most 1,000,000 rows. It is
the `detail_limit` with which study n1 asks for the contingencies so that "no
overloaded contingency is left out" (`security_tools.py:1175-1183`); beyond it the
code lists and counts the contingencies it was given, and the properties fail.

**Liveness.** The prover cannot reason about ENABLED, nor do an induction over a
number whose steps are temporal formulas. The rest of each liveness argument is
proved, from the fairness the specification states and one hypothesis on what is
enabled, written out in the theorem:

- `LossesAreReaped` and `ProxiesAreReleased` (`SessionsProofs`), for `LostIsReaped`
  and `ExpiredIsReleased`: a poll leaves a registry of the live sessions and a cache
  without dead entries. Hypothesis: `Health` can change something while the
  registry counts a lost session, or the cache holds a dead entry.
- `CountedOutAreFoundAgain` (`LookupsProofs`), for `TrackedAgain`: if a session
  stayed untracked, reconcile would end what it has under way, list it, and adopt
  it, whatever comes between its steps. Hypothesis: some step of `Probe` is possible.
- `BusySessionsGrowOld` (`SessionsProofs`), each stage of `BusySessionsEnd`: a life
  of `n` ticks ends or becomes one of fewer. Its heart is `OnlyTicksTakeLife`: no
  tool stores a session again with the proxy it had, so none renews it.
  Hypothesis: a tick of the cache's clock can change something while a session lives. That the stages
  come to an end after at most `TTL` of them is the induction that is left.

The hypotheses can be read off the guards: one of the three steps of `Probe` is enabled
at each value of `probe.at`, and neither `Health` nor the ticks have a guard (`Reconcile`
takes an order of the sessions it adopts, a finite set). A hypothesis that failed
would make the run of the property fail as well.

Only model-checked: `BusySessionsEnd` as a whole, and those hypotheses. The runs that
expect a violation have nothing to prove.

## 6. Plan

The plan of this project is carried out: the cache, the sessions on top of it,
the workspace; then the downloads, the load-flow settings, the worker threads,
pagination and the filters; and the proofs of each. What could follow:

1. The restriction to the main area and the join of tap changers in
   `element_data_filter.py`, as selections of rows by data pypowsybl computed.
2. The resources of a session and the plugin results, if tools of the
   repository come to depend on them; today they are written and read back.
3. Two calls in flight in `sessions_isolation`, a larger instance of what
   `SessionsAreIsolated` and `StoresAreRefined` prove for any number.

## 7. Not modelled

- What tools compute for display (tables, units, wording, counts by type and
  status), the JSON and CSV forms of rows, the conversion of HTML pages, the
  drawing of diagrams and their settings, the prompts of the code generator.
- pypowsybl's own computations, of which only the outcome matters; the data-frame
  joins over what it computed.
- Admin and download tokens as text: an admin token is valid or not, a download token is
  new or not.
- Call counts and durations, and `forget`, which nothing calls.
- Plugins, third-party entry points imported at start-up: their tools are not in
  the repository. `Lookups` models the `get_proxy` they inherit.
- The refusal of stateless clients, one test on a protocol version, and the
  introspection of tool names.
- A crash of the process: everything it keeps is in memory, except the files in
  temporary directories, which nothing reads after a restart.

Each is listed in `PROJECT.json` with its reason.

# Verification of the Traefik Proxy integration for Home Assistant

TLA+ modules for `custom_components/traefik_proxy`, the TLC configurations that check them on small
instances, and proofs checked by TLAPS. The integration polls the HTTP API of a Traefik reverse proxy,
shows its routers, services and entrypoints as Home Assistant entities, reads the TLS certificates of
the hosts those routers serve, and offers a service that asks Traefik to reload its routers.

All source paths below are relative to `src/custom_components/traefik_proxy/`. Home Assistant itself
(`DataUpdateCoordinator`, `Debouncer`, `CoordinatorEntity`, the registries of entities and of config
entries with their set-up lock, retries and flows), asyncio, Python's
thread pool and the probed hosts are not in the repository; they are modelled from how the code uses
them, and marked external in `PROJECT.json`.

## 1. Inventory

| Component | Source | State | Operations | Modules |
|---|---|---|---|---|
| Traefik API client | `api.py` | none | `_get`, `fetch_all`, `reload_routers`, `filter_internal_items` | `TraefikApi`, `ReloadRouters`, `CertHosts` |
| Main coordinator | `coordinator.py` | `data`, `last_update_success`, poll timer, debouncer | refresh by timer, refresh on request, first refresh | `MainCoordinator` |
| Certificate coordinator | `cert_coordinator.py` | cache `data`, `threshold_days`, semaphore | collect hosts, `_probe`, cycle, `async_set_threshold` | `CertHosts`, `CertCoordinator`, `CertCache`, `CertEntities` |
| TLS probe | `tls.py` | parse-log throttle | handshake, classification of errors, days until expiry | `TlsProbe` |
| Certificate entities | `sensor.py`, `binary_sensor.py`, `entity.py` | live entities, registry rows, what is shown | create, remove, render | `CertEntities`, `TlsProbe` |
| Router, service, entrypoint entities; aggregates | `sensor.py`, `binary_sensor.py` | the item each entity holds, registry rows | set up, render, remove | `RouterEntities` |
| `reload_routers` service | `__init__.py:43-129` | local: snapshot, attempts, backoff, clock | the polling loop | `ReloadRouters` |
| Config entry lifecycle | `__init__.py:160-267` | per entry: state, client, update interval, listener | set up, options update, reload, unload | `EntryLifecycle`, and `Setup`, `Unload`, `SetOptions` of each component |
| Flows | `config_flow.py` | open dialogs, reauthentication per entry; `entry.data`, `entry.options`, unique ids | user, reconfigure, reauth, options | `ConfigFlow`, `EntryLifecycle` |
| Reload button | `button.py` | none | a press calls the service and waits for it | `ReloadRouters` (its `Call`) |
| Device info, constants, strings | `entity.py`, `const.py`, ... | none | | not modelled, but for the constants that bound behaviour |

**How they interact.** One event loop runs everything except the TLS handshakes, which block worker
threads of the default executor. The main coordinator refreshes every 15 s or more, and whenever
somebody calls `async_request_refresh`. Entities read both coordinators but *subscribe* to the main one
only (`entity.py:60`). The certificate coordinator, every six hours, reads the router list the main one
last fetched and probes the hosts named there. Platform set-up registers listeners on both coordinators
which create and delete entities. The service takes a snapshot of `coordinator.data`, sends a POST and
polls through the same debouncer every other caller uses. Flows write the connection and the options of an
entry; a set-up constructs client and coordinator from what is stored then, and a refused token makes Home
Assistant open a flow, which ends by reloading the entry.

**What is hard.** The coroutines of a certificate cycle share a semaphore and give up on threads that go
on; refreshes overlap, because nothing locks them; a debounced call returns without having refreshed;
entities show what was true when they were last notified; removal listeners run after failures too;
flows, set-ups, retries and reloads of one entry suspend and go on with an entry that others have changed.
`PROJECT.json` lists these hazards with their lines.

**What makes each component correct.**

- API client and main coordinator: a payload is published whole or not at all; a refused token asks for
  a new one whatever else failed; polling never dies silently; the data converges.
- Certificate coordinator: slots of the semaphore are neither lost nor made up; every cycle ends; the
  cache is replaced as a whole by the rows of one cycle; a late answer reaches nobody.
- Certificate entities: the entities are those of the hosts probed, rows outlive failures, and what is
  shown catches up.
- TLS probe and alarm: on in time, less than a day early, and the tag of an error names what failed
  unless the probe was given up.
- Router entities: none without its item and its row; no row deleted by an outage.
- Service: it ends, stays within its attempts, does not give up early, and reports
  a change only if there was one, even if its entry is reloaded.
- Aggregates: alarm, count, status breakdown and success rate never contradict each other.
- Entries and flows: what runs follows what is stored; no flow undoes what another stored or changes an
  entry that is not its own; every set-up ends, and every accepted reauthentication does.

## 2. Modules

A module's comment says what it abstracts; `PROJECT.json` maps each definition to its lines. Definitions
marked *broken variant* are not part of a specification: they are plausible mistakes in the definition
below them, kept to show that a property notices them.

- **`TraefikApi`** (no state). `Get` is the classification of a reply in `_get`, `FetchAll` the precedence
  in `fetch_all`, `UpdateData` the translation in `_async_update_data`.
- **`MainCoordinator`**, EXTENDS `TraefikApi`. A refresh is in flight (`flight`) per source, timer or
  request; its requests are answered one at a time (`Respond`), and `FinishRefresh` is the return of
  `gather` with all that `_async_refresh` does then. `StartRefresh` is its head: it cancels the poll timer
  and the debouncer. Traefik is a version number and the way it answers.
- **`ReloadRouters`**, EXTENDS `MainCoordinator`. The handler's program counter, snapshot, attempts,
  backoff and clock; `Surroundings` is a step of the coordinator, of Traefik or of another caller. The
  handler is suspended (`pc = "await"`) only when its call started the refresh; otherwise
  `Debouncer.async_call` returned at once. `Retire` is a reload of the entry during the call: the handler
  keeps its coordinator, which is shut down, finishes at most the refresh in progress, and ignores every
  further request. `since` remembers the configuration at the start of the call when it was known for certain.
- **`CertHosts`** (no state). `CollectHosts`: which names of which routers become keys of the cache.
- **`CertCoordinator`**, EXTENDS `CertHosts`. `probe[h]` is where `_probe(h)` stands; `sem` and `waiters`
  are `asyncio.Semaphore`, whose release hands the slot to the head of the queue; `queued` and `running`
  are the executor's jobs. `Timeout` cancels a queued job but not a running one. A row carries the cycle of the
  job it is the answer of, so an answer delivered to another cycle would be seen.
- **`CertCache`**. The abstract specification of that coordinator: begin a cycle with a set of hosts,
  commit exactly one row of that cycle per host, or discard everything.
- **`CertEntities`**. The timestamp sensor and the alarm of each host: the add tasks, the registry, and
  what was last written (`stamp`, `alarm`) as opposed to what the properties would return now.
- **`TlsProbe`**. One host over time: certificate, network, the row of the last probe; `Handlers` is the
  list of `except` clauses of `_fetch_cert_raw` in order and `Ancestors` Python's exception classes, so the
  first clause that catches decides. The cached row is what the coroutine `_probe` returns (`ProbeRows`): that
  of the handshake, or, whatever the host does, `timeout` when its own deadline passes (which includes the
  wait for a thread and the name lookup) or `unreachable` when the job cannot be run.
- **`RouterEntities`**. `held` is the item an entity was constructed with, in contrast to the aggregates,
  which read the payload each time: alarm (`AlarmOf`), count (`CountOf`) and the attributes
  `status_breakdown` (`CountByStatus`) and `success_pct` (`SuccessPct`). The any-X-failing
  alarms are disabled by default in the registry;
  the model shows one a user has enabled. An item reported without a status (or, for an entrypoint, an
  address) has the status `unknown`: its entity shows just that, alarms take it for failing, no bucket
  counts it. A service's status is that of its load balancer where it has one; the model has one status.
- **`EntryLifecycle`**, EXTENDS `TraefikApi`. Per entry, `data` and `options` are what is stored, `client`,
  `interval` and `polling` what the last set-up constructed and what became of it. `BeginSetup` is the head of
  `async_setup_entry` up to its first `await`; the three `FirstRefresh...` actions are the ways that one
  ends, `EndSetup` the rest (a failure of the certificates' first refresh is swallowed). `scheduled` and a
  waiting reauthentication are reloads behind the set-up lock. `SetOptions` is the options flow with
  the listener `_async_options_updated` it sets off (`Pushed`).
- **`ConfigFlow`**, EXTENDS `EntryLifecycle`. A dialog is a form or is being validated (`"probing"`); the
  steps after the `await` of `_validate_input` are one action each: `CreateEntry`, `AbortConfigured`,
  `Reconfigure` for dialogs and `TokenAccepted` for the reauthentication, which writes the token next to the
  URL stored *now* and then waits for its reload. `ValidateInput` is the mapping of errors as the code does it.
- **`CertCoordinatorProofs`, `CertEntitiesProofs`, `TlsProbeProofs`, `MainCoordinatorProofs`,
  `ReloadRoutersProofs`, `RouterEntitiesProofs`, `ConfigFlowProofs`**: theorems (section 5).
- **`MC...`** modules give the constants their small values.

## 3. Runs

| Run | Checks | Bounds and why they are enough |
|---|---|---|
| `cert_cycle` | semaphore, no abandoned handshake is started, late answers reach nobody, every cycle ends, refinement of `CertCache` with its liveness | three hosts, two slots and two threads: one host always queues for the semaphore, and a hung thread of the first cycle meets the second one. Two cycles, so that late answers and a smaller set of hosts occur. Names in two spellings, an internal router and one without tls |
| `cert_handshakes` | finding | one slot, two threads |
| `cert_entities` | the entities against the cache, no stale alarm beside an unavailable stamp, rows survive failures, views catch up | two hosts and three certificate cycles: appear, fail, vanish, return; one certificate that one threshold calls expiring and the other does not |
| `main_refresh` | polling alive, all or nothing, authentication wins, convergence | two requests per refresh: any pair of outcomes in any order. Both sources can be in flight. One configuration change is enough for an old and a new payload. Traefik changes its mode without bound |
| `reload_service` | at most five attempts, no early end, the overrun of the budget, no change reported that did not happen, termination, with a reload of the entry at any point | the one request that matters, two router sets, delays of 0 and 4.9 s: with 0 the loop is as long as it can be, with 4.9 s one delay nearly uses the budget |
| `reload_refreshed` | finding | the same without delay |
| `tls_probe` | warned in time, no alarm a day or more early, network errors told apart unless the probe gave up | units of three hours, a probe every two, a threshold of a day and lives of two and a half days: before, inside and after the window, with renewals |
| `tls_expired` | finding | the same |
| `router_entities` | entities are items, rows go with their item, all unavailable together, aggregates never at odds | one item of each of the kinds that the filters treat differently, and two ordinary middlewares beside the internal one, so that a kind has several statuses at once: enabled, disabled, warning, `paused`, which the code does not know, and none |
| `router_status` | finding | the same |
| `config_entries` | client, interval, URLs and entries kept by the flows; set-ups and reauthentications end | two entries of which one exists at the start, two hosts, two tokens and a malformed URL, two dialogs: each dialog can meet another for the same entry, the same host or the same token. Three outside events (`MaxEvents`): enough for a reconfiguration that overlaps a reauthentication after a token was replaced. Intervals inside and just outside the range. The stored entry has the right token or the wrong one, and its own host as unique id or, after an earlier reconfiguration, another |
| `entries_reauth` | finding | one entry, no dialogs, one event |

`MaxCycles`, `MaxVersion`, `MaxTime` and `MaxEvents` are the bounds in guards; the rest are sizes of sets.
`MaxEvents` counts what people do: opening dialogs, changing options, asking for a reload or a restart,
replacing a token. Entering something in a dialog that is open is not counted. Deadlock is
checked in every run but one; `CertCoordinator` can always unload, `MainCoordinator` can always change mode,
`TlsProbe` can always renew, and the others likewise. `config_entries` says `CHECK_DEADLOCK FALSE`: there the
system may really stop, when the only entry was refused its token, its flow is gone (see
`entries_reauth`), and nobody does anything any more.

**Fairness.** The event loop runs whatever is due, so its steps are weakly fair: acquiring, submitting,
the answer or the deadline of a probe, the end of a cycle; timers and the end of a refresh in the main
coordinator, with every request answered if only by its ten second timeout; the handler's own steps.
Nothing is assumed of worker threads, the user, Traefik or callers of the debouncer, with two exceptions
that are stated where they are used: `Converges` has the premise that Traefik stays up and no
reauthentication is open, and `ViewsCatchUp` needs main cycles that succeed again and again
(`WF_vars(MainCycle(TRUE))`), since the entities follow the main coordinator's notifications.
In `ConfigFlow`, the end of an awaited refresh, the rest of a set-up, the retry timer and reloads are weakly
fair. A first refresh asked for again and again is answered some time, well or with a refusal (the one strong
fairness, on `FirstRefreshOk \/ FirstRefreshRefused`): without it a Traefik that is down for ever keeps the
entry in its retries for ever, as it should. Users, polls and the replacement of tokens have none.

## 4. Where code and text disagree

Five runs end in a violation; each states what a comment or document says and shows the code do otherwise.

1. `cert_handshakes`: `const.py:33` says the semaphore bounds concurrent handshakes. `asyncio.timeout`
   releases the slot, the thread goes on; more handshakes run than slots exist.
2. `reload_refreshed`: `__init__.py:92` says `async_request_refresh` returns when the refresh is complete.
   During the debouncer's cool-down, and while a debounced refresh runs, it returns at once.
3. `tls_expired`: `binary_sensor.py:414` says certificates already expired surface as on. The handshake
   verifies the peer and fails, so the alarm is unavailable. (The property leaves out probes that were given
   up, which read no certificate whatever its date.)
4. `router_status`: `README.md:4` of the repository promises to show which routers are failing. A router's
   entity shows the status it was constructed with.
5. `entries_reauth`: `config_flow.py:314` says the reauthentication is triggered when the coordinator raises
   `ConfigEntryAuthFailed`. One raised by the very reload a reauthentication awaits opens no flow, since that
   one is still open; it then ends with "reauth_successful" and the entry stays in its error.

Others were met while modelling and have no run of their own: the cache does not keep the row of the
previous cycle on an error (`cert_coordinator.py:15-17` against `:133`); names with a wildcard are
collected (`:200-202` against `:229-231`); the two certificate entities of a host can disagree on
availability for a moment (`binary_sensor.py:441-444` against `entity.py:60`); the clause for
`ssl.SSLError` is behind the one for its parent `OSError` and never taken (`tls.py:76` against `:355-358`; proved, see
`ExpiredNeverOn`);
the reload service's snapshot may be older than a change it then reports as its effect, and a poll that
began before the call may bring an older configuration back, which then looks like a change (`__init__.py:86`;
`ChangeIsReal` says when neither can happen);
its last sleep may begin at 3 s of the budget of 5 s and lasts 3.2 s (`__init__.py:52` against `:102-109`;
`OverrunBounded` says how late that makes a call);
an options change does not rewrite an alarm at once, as the listeners it calls are the closures that create
and remove entities (`cert_coordinator.py:80` against `entity.py:60`).

Of the flows: `verify_ssl` is read from the options only, so what a dialog stored in `entry.data` is never
used, and a changed option waits for a reload nobody asks for (`config_flow.py:178` against
`coordinator.py:93`). A reconfiguration leaves the unique id at the old host, so the same Traefik can be added
again (`config_flow.py:267` against `:401`), and one whose host stays the same aborts on the entry itself
(`:395-400`). The clauses for `ClientResponseError` and for aiohttp's invalid URL cannot be reached, since the
client has translated both (`config_flow.py:145-146` against `api.py:99-109`): a 404 reads "cannot connect", and
what the client lets through (a body that is not JSON) escapes every clause. The token a reauthentication
validated on one URL may be stored next to another (`config_flow.py:336` against `:353`). An interval
changed during set-up is not applied until the next one (`config_flow.py:175`; the exception in
`IntervalLive`). The update listener is registered at every set-up and never removed (`__init__.py:264` against
`:251`). `async_step_yaml` is started by nothing (`config_flow.py:282`). With several entries loaded, the service
and every reload button act on the first one (`__init__.py:69-76`).

## 5. Proofs

`tlapm` checks every theorem and lemma for all values of the constants that satisfy the named assumptions.

**`CertCoordinatorProofs`**, on `CertCoordinator!SafeSpec`: `TypeCorrect`, `SemaphoreConserved`,
`SemaphoreLive`, `AwaitedWithinLimit`, `QueueAwaited`, `LateAnswersLost`, and `CacheRefined`: every step is a step of
`CertCache` or a stutter. None of the invariants is inductive alone. That free slots and holders add up to
`Limit` needs to know who is in the semaphore's queue: `waiters` holds each coroutine at most once and
exactly those whose program counter says so, and there are none while a slot is free; otherwise a
hand-over could grant a slot to a coroutine that already has one. `LateAnswersLost` and `CacheRefined` need
every row in `result` to be of the cycle in progress (`Stamped`). A row carries the cycle of its job, so this
is where a thread's answer must be delivered only to the coroutine that asked (`Awaited`). That such a
coroutine keeps its timeout while its thread goes on is inductive beside `JobsSound` below (`GivenUpOn`): no
coroutine submits a second job in a cycle, and one that has its answer has no job left. That awaited handshakes are bounded then follows from
the first: an awaited job has a holder, and different jobs have different holders. What the finding
`cert_handshakes` leaves of the bound is `QueueAwaited`: handshakes given up on occupy threads, but never the
executor's queue, which holds at most `Limit` of them. It needs one fact more (`JobsSound`): there is one job
of a host and cycle, queued or running but not both, so that cancelling it leaves nothing behind. The assumptions are
that the set of hosts is finite and that `Limit` and `Workers` are positive.

**`CertEntitiesProofs`**, on `CertEntities!Spec`: `TypeCorrect`, `EntitiesFollowCache`, `AlarmNeverStale`,
`RowsSurvive`, `StaleOnlyAfterChange`. `EntitiesMatchCache` speaks of the moment when the add tasks have run; the
inductive form (`Pending`, `Idle`) says at every moment that what is alive and what is about to be added
make up the entities of the cache, and that an entry not set up has neither. `NoStaleAlarm` is not
inductive because the two entities of a host are added apart: a stamp may have gone unavailable
before its alarm is there, so `AlarmFollows` keeps that the row is then still unavailable when the alarm is
rendered for the first time. `StaleOnlyAfterChange` is the safety half of `ViewsCatchUp`: a main cycle that
notifies brings everything shown in line, and only a new cache or threshold takes it out of line again.

**`TlsProbeProofs`**, on `TlsProbe!Spec`: `TypeCorrect`, `AlertedInWindow`, `AlarmRight`, `TagsRight`,
`ExpiredNeverOn`. The strengthening of `WarnedInTime`: the row is no older than an interval (`RowFresh`) and
its whole days are no more than what the certificate had left when it was read (`DaysLeft`). That
the alarm is in time for every interval shorter than a day (`TimeAssumption`; the code's is six hours)
is then arithmetic: rounding down takes less than a day, and the row's age adds less than one. The tags rest
on `FirstClause`, that the
least clause which catches decides, applied to each exception in the list of `_fetch_cert_raw` (`Tags`) and in
that of `_probe` (`ProbeTags`). `TagsRight` says that nothing but the deadline of `_probe` or a refused job
comes between a failure of the network and its tag; it follows that no probe is ever
tagged `ssl`, and that an expired certificate makes the alarm unavailable in every state, where the finding
`tls_expired` shows one.

**`ReloadRoutersProofs`**, on `SafeSpecAll`: `FiveAttempts`, `BudgetUsed`, `OverrunLimited`, `ReportedChangeReal`,
`ServiceTypeCorrect`. For the first two the inductive invariant is a table, by the number of sleeps: the
backoff and a lower bound of the time used (200, 600, 1400, 3000, 6200 ms). The loop enters an attempt only
before 5000 ms, hence at most after the fourth sleep. It holds for every set of delays, however the
coordinator behaves. `OverrunLimited` is the table from above: with delays up to `D`, the time used after each
sleep and within each attempt. For `ReportedChangeReal` the invariant (`Real`) says that, as long as Traefik
has the configuration
known at the start of the call, the data and every good reply in flight are of that one, whichever of two
refreshes ends last; it rests on the coordinator's type and on `ResultOfReplies` of the next module.

**`MainCoordinatorProofs`**, on `MainCoordinator!SafeSpec`: `TypeCorrect`, `PollingGoesOn`, `DataWhole`,
`RefusalWins`, `OldDataDiesOut`, for any number of requests per refresh. They rest on `FetchAllPrecedence`:
`fetch_all` yields
a payload exactly when every request succeeded and an authentication error exactly when some token was
refused. Its `CHOOSE` of the first failed request needs the least element of a set of numbers, taken from
the well-foundedness of `<`. Type correctness is the strengthening: the replies combined are replies.
`OldDataDiesOut` is the safety half of `Converges`: while the configuration stands still, a source whose
refresh ended, or had not begun, can bring only the present one (`Current`, which no step but a change
takes away), so an older one comes back at most from a refresh that was under way when Traefik changed.

**`RouterEntitiesProofs`**, on `RouterEntities!Spec`: `TypeCorrect`, `EntitiesSound`, `AvailabilityShared`,
`RowsSurvive`, `AggregatesAgree`. The strengthening is
`Sound` (no registry row of an internal router or service exists, so
the filter that only the service listener applies deletes nothing) and `Rendered` (what is shown is what
the entities would write now: the second failure of a row is not rendered, but changes nothing).
That the aggregates agree is a fact about the payload: the buckets are disjoint subsets of the items counted
(`BucketSum`), and a success rate of 100 % means that no item has another status of a bucket (`PctFull`).
The assumptions: finitely many items, payloads made of statuses.

**`ConfigFlowProofs`**, on `ConfigFlow!SafeSpec`: `TypeCorrect`, `ClientFollowsData`, `IntervalApplied`,
`FlowsWoken`, `AddingAddsOnly`, `UrlReconfigured`, for any entries, dialogs, URLs, tokens, Traefiks and number of events. The
strengthening of `ClientCurrent` and `IntervalLive`: an entry has a connection exactly when it has a unique
id, and flows, reloads and running set-ups refer to entries that have one (`EntriesWhole`, `FlowsWhole`), a
loaded entry has its listener, and the interval is known to be current, or the change to have come late, from
the beginning of a set-up on (`IntervalKnown`). That a reauthentication never changes the URL needs no
more than types: the URL is read when the token is stored, not when it was asked for. `FlowsWoken` is the safety half of
`ReauthEnds`: the set-up a reauthentication awaits is under way as long as it waits. The assumptions: `None` is
none of the values, stored connections are well-formed, intervals are integers.

**Model-checked only**: liveness, which needs `ENABLED`: `CycleEnds`, `Converges`, `ServiceEnds`, `ViewsCatchUp`,
`SetupSettles`, `ReauthEnds`, and the fairness of `CertCache` in `CacheSpec`. For three of them the safety
half is proved, as said above. Every other property of the passing runs is stated by a theorem.

## 6. Not modelled, and the plan

In this order:

1. The parse-log throttle of `tls.py:219-261`, shared by threads without a lock; `parse_not_after` and the
   SAN match as pure functions against a reference; `CollectHosts` against a reference definition.
2. The service with several entries loaded, and `verify_ssl` with a Traefik that tells the two settings apart.
3. The certificate entities composed with `CertCoordinator` in place of the abstract cache they now use.

Left out for good: device information, entity names, attributes other than the status breakdown, translations
(formatting); HTTP headers and URLs; the dead step `async_step_yaml`; tests, scripts and planning documents.

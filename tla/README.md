# Kubric-UiDR: TLA+ models, checks and proofs

Kubric-UiDR is a security platform for service providers: Rust agents on the
endpoints publish events to NATS, Go services correlate, store and serve them,
and Python workers (KAI) triage and remediate. This directory holds TLA+
modules translated from the code under `src/`, the TLC configurations that
check them on small instances, and TLAPS proofs of the properties that matter
most. `PROJECT.json` lists components, runs, mutants, hazards and theorems, and
maps every definition to the lines it stands for.

## The system

| Part | State it keeps | Operations | What is hard about it | What makes it correct |
|---|---|---|---|---|
| Correlation engine (`internal/correlation`, `cmd/correlation`) | event buffer per tenant and type, incident map, dedup cache, incident channel | ingest, evaluate rules, dispatch, re-dispatch, change status, prune, clean, shut down | five goroutines and HTTP handlers on shared state; bounded buffer and channel; TheHive calls that fail halfway | a detection is raised once per quiet period and never silently lost; evidence belongs to the incident; triage and TheHive links survive concurrent dispatches |
| ClickHouse bridge (`cmd/nats-clickhouse-bridge`) | event channel, batch buffer | receive, flush by size or by timer, shut down, restart | full channel, failing insert, flush under a cancelled context | at most one row per message; nothing accepted is forgotten while the process runs |
| CoreSec process monitor (`agents/coresec`) | `seen_pids`, copy of the process table | baseline, poll, publish, inspect, shut down | the process table changes at any moment and reuses pids | each new process inspected once, the baseline never |
| Event ingestion (`internal/correlation/ingestor.go`, `internal/falco`, `internal/suricata`) | event buffer, list of webhook handlers | parse a message of one of eight subjects, serve a webhook, read a stream, register a handler | eight subscriptions and HTTP requests on one buffer; five severity scales; a request that fails halfway | each counted event is in the buffer once and in order; severities keep their order; a refused request left nothing behind |
| Built-in rules (`internal/correlation/rules.go`) | none | eight rules | a condition on a field no parser produces never fires | every rule can fire |
| NOC integrations API and its clients (`internal/noc/handler_integrations.go`, `internal/wazuh`, `velociraptor`, `thehive`, `cortex`, `osquery`, `bloodhound`, `shuffle`, `itdr`) | the configured clients; the Wazuh token with its mutex | 42 routes and the aggregated health check, one call of a tool each | shared token, a mutex held over a login, deadlines, retries of net/http, failures inside a 200 | answers agree with what the tool did; nothing is done twice; everyone is answered |
| NOC, VDR, KIC, K-SVC (`internal/noc`, `internal/vdr`, `internal/kic`, `internal/ksvc`, `internal/db`) | Postgres rows per tenant | create, read, update, delete, heartbeat, then publish an event | commit without an answer, crash before the event, two-step read and write | changes and events are those of a change feed; an agent keeps its id |
| Rate limiter (`internal/middleware/ratelimit.go`) | a token bucket per client, last use | get, allow, evict | used after it was unlocked, evicted state | a client never exceeds its rate |
| Agent updater (`agents/watchdog`) | staging and install directories | check, download, apply, verify | crash or failure between two files, delta applied twice, verification of what was not installed | what is installed is one version, and verified |
| Watchdog orchestrator, provisioning (`agents/watchdog/src/orchestrator.rs`, `agents/provisioning`) | last heartbeat per agent; list of registrations | heartbeat, status tick; register | health is a timeout; a lost reply | a live agent is not reported dead; an agent is registered once |
| Remediation (`cmd/temporal`, `kai/workflows/remediation.py`, `kai/agents/keeper.py`) | Temporal workflow, finding status in VDR | validate, run playbook, verify, close | duplicate triggers, retries, fallback beside a running workflow | a playbook runs once per finding; only a verified finding is closed |
| Billing (`kai/workflows/billing.py`, `services/k-svc/billing`) | Stripe items and invoices, usage records, Merkle roots | aggregate, invoice, record; meter, root, store | retry after partial success, fallback beside a running workflow, ties in the sort | one invoice per tenant and period; one root per set of records |
| Authentication and roles (`internal/middleware`) | none | JWT, tenant context, role | | who is turned away gets nothing done |
| NetGuard, PerfTrace and the rest of CoreSec (`agents/`) | file baseline, token buckets | capture, sample, hash, publish | deleted files, dropped events | |
| KAI (`kai/`) | NATS subscriptions, LLM clients | route, triage, plan | messages lost on error | each message reaches its persona |
| Other clients and services (`internal/zeek`, `internal/ndr`, `internal/analytics`, `internal/neo4j`, `internal/psa`, ...) | none | one call per method | failures, seen by their callers | |

The parts talk over NATS subjects `kubric.{tenant}.{category}.{class}.v1`
(core subscriptions, at most once), over HTTP, and through Postgres and
ClickHouse. CoreSec publishes process events; the bridge stores them and the
correlation engine matches them against its rules; incidents go to TheHive and
Shuffle; KAI routes alerts to personas, whose remediation plans run in Temporal
and close findings in VDR.

## Modules

| Module | What it is | Used by |
|---|---|---|
| `CorrelationRules` | pure rule matching | `CorrelationEngine` (EXTENDS) |
| `CorrelationEngine` | one `Engine` with its goroutines | `MCCorrelationEngine`, `CorrelationEngineProofs`, `CorrelationEvidenceProofs` |
| `IncidentPipeline` | abstract: what the engine promises about incidents | `CorrelationEngine` (INSTANCE) |
| `IncidentViews` | pure: what the detection API answers and what a dispatch sends | `MCCorrelationEngine` (EXTENDS) |
| `EventParsers` | pure: from a message to a `NormalizedEvent` | `EventIngest` (EXTENDS) |
| `DefaultRules` | pure: the built-in rules against the fields the parsers produce | `MCEventIngest` (EXTENDS) |
| `EventIngest` | subscriptions, webhook receivers and streams in front of the buffer | `MCEventIngest`, `EventIngestProofs` |
| `IntegrationRoutes` | tables: client methods and HTTP routes of the integrations API | `IntegrationGateway` (EXTENDS) |
| `IntegrationGateway` | concurrent requests, shared clients, tools and the Wazuh token | `MCIntegrationGateway`, `IntegrationGatewayProofs` |
| `RegistryRoutes` | tables: store methods, handlers and routes of the four services | `ServiceRegistry`, `ChangeFeed` (EXTENDS) |
| `ServiceRegistry` | one service: requests, transactions, events, shutdown, crash | `MCServiceRegistry`, `ServiceRegistryProofs` |
| `ChangeFeed` | abstract: what rows and events promise | `ServiceRegistry` (INSTANCE) |
| `RateLimiter` | the limiter map, its users and its evictor | `MCRateLimiter`, `RateLimiterProofs` |
| `TokenBuckets` | abstract: one bucket per client, never forgotten | `RateLimiter` (INSTANCE) |
| `ClickHouseBridge` | the bridge process and its restarts | `MCClickHouseBridge`, `ClickHouseBridgeProofs` |
| `AtMostOnceSink` | abstract: what the bridge promises to readers of the table | `ClickHouseBridge` (INSTANCE) |
| `ProcessMonitor` | CoreSec's polling loop against an operating system | `MCProcessMonitor`, `ProcessMonitorProofs` |
| `MC...` | the small instances TLC checks | |
| `...Proofs` | theorems | |

Definitions whose name is another definition's name with a suffix
(`Suppressed_OneWindow`) are mutants: a plausible bug of the code, used only to
show that a property would notice it.

### Correlation engine

`CorrelationRules` has `matchCondition`, `matchRule` and `fingerprint`.
`FieldMatch` is abstracted to the set of titles whose fields satisfy it; the
hash of the fingerprint is the tuple that is hashed. Hits are counted before
duplicates are removed, as in the code. Nothing is assumed of event ids: the
sensors make them from a flow and a time (`ingestor.go:556`), a pid and a second
(`agent.rs:204`) or an address pair and a second (`capture.rs:641`), so several
messages may share one, and of one id `matchRule` keeps the first hit of the
first condition that has one, in the order in which the buffer's map was
iterated (`Earlier`). A buffer key is `tenant:type` and the evaluator cuts it at
its first colon: `UpToColon` is that cut, and `KeysOf` the keys whose events are
evaluated together for a tenant.

`CorrelationEngine`: one action is one critical section (`mu`, `dedupMu`) or
one external call.

| State | Code |
|---|---|
| `eventBuffer` | `e.eventBuffer`; `seq` orders a key's events by arrival |
| `incidentMap` | `e.incidents`; an incident's uuid is its position |
| `dedupCache`, `incidentCh` | the fields of that name |
| `evalPc`, `evalNow`, `snapshot`, `evalRule`, `evalTenants`, `triggered` | locals of the evaluator goroutine and of `evaluateRules` |
| `keyOrder` | the order in which Go iterates over the copied map, chosen anew in each evaluation |
| `disp` | each goroutine inside `dispatchIncident`: the dispatcher and the HTTP requests in `DispatchByID` |
| `alerts` | TheHive (external): its alerts and which are cases |
| `ctxDone`, `subscribed`, `running` | the context, the subscriptions, the process |
| `taken`, `dropped` | history: what left the channel, what found it full |

`processEvent` and `IngestFalcoAlert` are the inputs; `EvalBegin` reads the
clock, `EvalSnapshot` copies the buffer, `EvalRule` is one turn of the inner
loop, `EvalSend` the non-blocking send; `Dequeue`, `CreateAlert`, `RecordAlert`,
`PromoteAlert` and `Shuffle` are a dispatch, where a call that fails may or may
not have had its effect; `cleanDedupCache`, `pruneBuffer`,
`UpdateIncidentStatus`, `DispatchByID`, `Cancel`, `EvalStop`, `DispatcherStop`,
`StartReturns` and `MainExits` are the rest. `Tick` moves the clock, but an
evaluation does not last longer than `MaxEval`. The dedup test and the store of
the incident are two critical sections in the code and one step here: only the
evaluator adds to either map.

`IncidentPipeline` is the abstract specification: a detection is not raised
again before its quiet period is over; an incident waits, and is then handed
over, in order and once, or dropped.

### ClickHouse bridge

The NATS callback (`OnMessage`, `OnBadMessage`, `OnMessageFull`) interleaves
with the main loop (`SelectDone`, `SelectEvent`, `SelectTick`), also while an
insert is under way (`pc = "flush"`). `FlushOK` and `FlushError` are the two
ends of `flushBatch`; an error says nothing about which rows were stored, so
`FlushError` stores any subset. `fatalf` ends the process, `Restart` is the
supervisor. `AtMostOnceSink` is what the table's readers may rely on: a message
is taken in or missed, and what is taken in becomes one row or is lost with the
process that held it.

### CoreSec process monitor

A process is a pid and a generation. `Spawn` and `Exit` (external) change the
process table at any moment. `CaptureBaseline` is the first refresh, `Poll` one
tick up to the loop over `new_pids`, `Report` one turn of that loop (publish,
which may fail, then `detect`, whose verdict is nondeterministic), `Shutdown`
the `ctrl_c` branch. `inherited` records the processes first polled under a pid
that `seen_pids` still held for another process: the code cannot tell them from
their predecessor.

### Event ingestion and the built-in rules

`EventParsers` translates the eight parsers: which field becomes tenant, agent,
id, time, severity and indicators, with the defaults for absent or unreadable
ones. An address is the sequence of its bytes and, for IPv6, how its text is
written, so `isPrivateIP`, which compares text prefixes, is a statement about
numbers. `Normalised` says which internal addresses still become indicators:
what a client asked for by name (the HTTP host and DNS queries of a Suricata
alert), which the parser does not check, and what `isPrivateIP` overlooks
(`Overlooked`: `fe80::/10`, `::1` written in full, `fc00::/7` in capitals),
against its comment. Milliseconds from `MsLimit` (2^63) on become negative, as
in `int64(unixMS)`.

`EventIngest` has one queue per
subscription (`Publish` is external and drops what finds it full),
`processEvent` for its callback, `ServeHTTP`, `Snapshot`, `Dispatch` and
`Respond` for a webhook request (parse what is read of the body, copy the
handlers, call each for each event, answer), `OnEvent` for a registration at any
moment, and `ParseEveStream` with `ReadLine` for a reader that calls its handler
line by line. A receiver reads at most 2 MiB (Falco) or 10 MiB (Suricata) of a
body (`Read`): a limit inside a JSON value makes the body malformed (`torn`), but
an NDJSON body may be cut between two lines, and then what lies behind the cut is
lost although the answer is 200. `AllOrNothing` is therefore about the events
within the limit, and says of Falco, whose bodies are one JSON value, that these
are all. `IngestFalcoAlert` counts and appends in one step, where the code has
an atomic counter and then a critical section; nothing reads the counter in
between. `pruneBuffer`, which takes old events out of the same buffer, is in
`CorrelationEngine`; "the most recent events" of `IngestedOnce` are those before
it ran.

`DefaultRules` has the eight rules and the fields the parsers put into
`RawData`; its assumption `RulesCanFire` ties the two together and to the
buffer's window and capacity.

`IncidentViews` compares pure operators with reference definitions over bounded
inputs: pages of `listIncidents` tile the listing when creation times differ
(`PagesTile`) and may repeat one incident and skip another when they do not
(`TiedPagesMayRepeat`); a cut timeline keeps what happened first; severities
keep their order in TheHive; observables are complete; the workflow Shuffle runs
is the one the documented priority asks for.

### Integrations API

`IntegrationRoutes` has a definition per client method (which tool, which HTTP
method, whether the tool acts), per client what it takes for a success, and per
handler what it refuses before it calls the client. `IntegrationGateway` serves
the routes: a request is refused (`NotConfigured`, `BadRequest`, `NoUpstream`),
answered locally (`ListLocal`), or becomes a call with a deadline. A Wazuh call
first passes `authenticate`: `AuthCached`, or `AuthLogin`, `ManagerLogin`,
`AuthFails` and `AuthStores` with the mutex held; then `Send` reads the token
without the mutex, the tool acts or refuses whether or not anybody still waits,
`Resend` is net/http's repetition of a GET, and `Receive` or `CallFails` ends
the call. `healthAll`, `HealthCheck` and `HealthJoin` are the fan-out of the
health route. `NewestToken` is about the mutex: it is held over the login, so the
cached token is only ever replaced by one issued later, however long the
manager's answers take. A call that runs a command (ITDR) is taken to end at its
deadline; the code sets no `WaitDelay` (`itdr/service.go:265`), so a grandchild
that keeps the pipe open could hold it longer, and `EveryCallAnswered` does not
cover that.

### Registry services

The four services have one shape, so `ServiceRegistry` is one of them, for one
of five tables chosen in `Init`; `RegistryRoutes` says which table has which
routes, roles, store methods and subjects. A request is turned away, refused or
accepted; `ReadRow` and `GetFirst` read; `Insert`, `Claim`, `Upsert`, `Update`,
`Delete` and `NoRows` are the statements of one transaction of `RunWithTenant`
up to the COMMIT it sends, and `RolledBack` its failure. A transaction whose
COMMIT was sent is in `pending`, with the lock on its row (`Locked`), until the
database takes it over (`Commit`) or not (`Discard`); both are steps of Postgres
and come at any time, also after the handler has given up (`CommitFails`: the
deadline or a lost connection) and answered 500, or 409 for a tenant, or after a
crash. `Publish` and `Respond` follow a commit that was confirmed. `RealTimeOrder`
says what is left of the order of requests then: events always keep it, and of
the changes only one that was answered with an error may come late, never on a
row that a later request has changed. `Signal`, `Stop` and `Crash` end the process, `NewServer` starts it
again with or without a publisher. `ChangeFeed` is the abstract specification: a
request changes at most one row, once, as the row allows, and is announced at
most once, after the change, to the row's own tenant.

### Rate limiter

`heap` has the limiters, `limiters` the map. `get` runs under the mutex, `Allow`
after it, `EvictBegin`, `Evict` and `EvictEnd` are the scan, during which `get`
waits. `level` and `admitted` are history: the bucket that is never forgotten,
and the times of admission. A goroutine takes at most `MaxPause` from `get` to
`Allow`: without such a bound a request stopped for ten minutes would use a
limiter that is no longer in the map.

## What the runs check

| Run | Bounds | Checks | Shows |
|---|---|---|---|
| `engine_detect` | 2 rules of different windows, 3 messages, 3 events, clock to 6, TTL 5, buffer 2, channel 1 | `TypeOK`, `DedupWindow`, `EveryMatchHasIncident` | incidents of one fingerprint keep their distance; no match is lost to suppression, also around the moment the cleaner forgets a fingerprint |
| `engine_evidence` | 3 tenants, one with a colon in its id, ids shared by several messages, both orders of the keys, timestamps up to one unit early or late, buffer 2 | `IncidentJustified`, `BufferLoss` | evidence is of the incident's tenant, up to the colon, and window, and every condition has its witness or the event of the same id that displaced it; only stale or first-arrived events leave the buffer |
| `engine_dispatch` | one event that two rules match, channel 1, one re-dispatch, status changes, shutdown; `FairSpec` | `LinksAreReal`, `TriageNotReset`, `ImplementsPipeline`, `IncidentResolved` | links and triage survive every interleaving; the engine implements `IncidentPipeline`; every incident is taken or dropped unless the engine is shut down |
| `bridge` | batch 2, so channel 4; 7 messages; `FairSpec` | `TypeOK`, `StoredOnce`, `NothingForgotten`, `CleanExitStored`, `ImplementsSink`, `EventuallyStored` | no row twice, nothing forgotten, a clean exit has stored its batch, and every accepted event is stored or the process ends |
| `monitor` | 2 pids, 2 processes per pid; `FairSpec` | `TypeOK`, `SeenIsLive`, `ReportedOnce`, `BaselineSilent`, `PolledIsInspected`, `EventuallyInspected` | see the theorems; and every process that goes on running is inspected unless it took over a pid between two polls |
| `engine_same_agent` | violation | `LateralOnSameAgent` | finding 1 |
| `engine_threshold` | violation | `ThresholdOfDistinctEvents` | finding 2 |
| `gateway` | 2 requests over all routes and the health check, each tool in turn, token life 3, cache 1, deadline 1, clock to 3; `FairSpec` | `TypeOK`, `AnswersMatchTool`, `NeverTwice`, `SendsLiveToken`, `NewestToken`, `EveryCallAnswered` | a success means the tool acted, a refusal that it did not; nothing that acts is repeated; no expired token is sent and no newer one overwritten; the mutex is always given back |
| `gateway_token` | violation; 3 requests for one Wazuh route | `NoTornToken` | finding 3 |
| `registry` | 3 requests, 2 keys, one tenant and name, each table in turn | `TypeOK`, `RealTimeOrder`, `StableAgentId`, `AnswersTrue`, `ImplementsChangeFeed` | see the section above; events of requests that do not overlap keep their order, and so do changes but for those answered with an error |
| `ratelimit` | 2 clients, 2 goroutines, rate 1, burst 1, idle 2, pause 1, clock to 4 | `TypeOK`, `BurstBound`, `ImplementsBuckets` | eviction cannot be noticed |
| `ingest` | 3 inputs of which 2 messages, buffer 2, queue 1, one more handler, 2 concurrent requests; bodies within the limit, cut between lines and cut inside a value; IPv4 and IPv6 addresses; times around `MsLimit` | `TypeOK`, `IngestedOnce`, `Normalised`, `AllOrNothing` | see the section above |

Why the bounds are enough. *Engine:* the clock of `engine_detect` runs past
`DedupTTL`, so a fingerprint is raised, suppressed, forgotten and raised again;
three events overfill a buffer of two; two rules that match at once overfill a
channel of one; in `engine_evidence` two conditions share an id across the two
tenants that have one name up to the colon, in both orders. The proofs lift what depends on the clock and on the number of
events to every value. *Bridge:* two events in an insert, four in the channel
and one more is the smallest case in which a full channel meets a slow insert
of a full batch. *Monitor:* two processes per pid give a reuse of a baseline
pid and of a reported pid; two pids let one process exit or start while the
other is being reported. *Gateway:* the tools share nothing, so one at a time
beside the always present ITDR service is enough; two requests contend for the
token, three are needed for one to read while another writes and a third has
authenticated. *Registry:* three writers meet at one row; a second key tells an
update of one row from one of another, so a late commit can come after another
request's change of the other row and not of its own. *Limiter:* the clock runs past the idle
time, so an entry is used, evicted and made again; the proofs lift it to every
value. *Ingestion:* two messages of one key and a webhook event overflow a
buffer of two. Symmetry (requests, keys) is used where no liveness is checked.

`CHECK_DEADLOCK FALSE` is set where nothing is left to happen once the inputs
are used up: the monitor, the gateway, the registry, the limiter at the end of
its clock, and ingestion. The engine has an explicit `Exited` step, the bridge
is always restarted or ticks.

### Fairness

* Engine: weak fairness of the evaluator and of the dispatcher. The Go
  scheduler runs every ready goroutine, the evaluation ticker keeps firing, and
  every call to TheHive and Shuffle ends (30 s client timeouts). Nothing is
  assumed of inputs, of the cleaner, or of how a call ends.
* Bridge: strong fairness of the three `select` cases, since Go picks among
  ready cases at random; weak fairness of the ticker, the supervisor and the
  end of an insert (the client's read timeout). Nothing is assumed of how an
  insert ends.
* Monitor: weak fairness of the agent's own steps: the interval keeps ticking
  and an awaited publish returns. Nothing is assumed of the operating system
  or of `ctrl_c`.
* Gateway: weak fairness of each request's own steps. A goroutine that can go on
  does, and what waits for the network is ended by the deadline of the Timeout
  middleware. Nothing is assumed of the tools. The mutex needs no strong
  fairness with two requests; Go's mutex hands over to a waiter after a
  millisecond in any case.

## What is proved

TLAPS checks these for every value of the constants that satisfies the named
assumptions.

| Module | Theorem | States | Inductive invariant |
|---|---|---|---|
| `CorrelationEngineProofs` | `TypeCorrect` | `Spec => []TypeOK` | `TypeOK` itself, because it ties every id in flight to a stored incident or alert |
| | `DedupCorrect` | `Spec => []DedupWindow` | `TypeOK /\ DedupInv` |
| | `MatchesReported` | `Spec => []EveryMatchHasIncident` | `TypeOK /\ DedupInv /\ MatchInv` |
| | `TriageKept` | `Spec => TriageNotReset` | `TypeOK` |
| `CorrelationEvidenceProofs` | `BufferKeepsEvents` | `Spec => BufferLoss` | `TypeOK /\ BufferInv` |
| | `IncidentsHaveEvidence` | `Spec => []IncidentJustified` | the same with `IncidentJustified` |
| | `LinksStayReal` | `Spec => []LinksAreReal` | `TypeOK /\ LinksInv` |
| | `EngineImplementsPipeline` | `Spec => ImplementsPipeline` | `TypeOK /\ DedupInv` |
| `ClickHouseBridgeProofs` | `BridgeTyped`, `BridgeStoresOnce`, `BridgeForgetsNothing`, `BridgeExitsClean` | `Spec => []` of `TypeOK`, `StoredOnce`, `NothingForgotten`, `CleanExitStored` | `SinkInv` |
| | `BridgeRefinesSink` | `Spec => ImplementsSink` | `SinkInv` |
| `ProcessMonitorProofs` | `MonitorTyped`, `SeenBounded`, `NeverReportedTwice`, `BaselineNeverReported`, `NoPolledSkipped` | `Spec => []` of `TypeOK`, `SeenIsLive`, `ReportedOnce`, `BaselineSilent`, `PolledIsInspected` | `MonitorInv` |
| `RateLimiterProofs` | `LimiterTyped` | `Spec => []TypeOK` | `LimiterInv` |
| | `LimiterImplementsBuckets` | `Spec => ImplementsBuckets` | `LimiterInv` |
| | `LimiterKeepsRate` | `Spec => []BurstBound` | `LimiterInv /\ BoundInv` |
| `IntegrationGatewayProofs` | `GatewayTyped`, `AnswersAreTrue`, `ActsOnce` | `Spec => []` of `TypeOK`, `AnswersMatchTool`, `NeverTwice` | `GatewayInv` |
| | `TokenSentAlive` | `Spec => SendsLiveToken` | `GatewayInv` |
| | `TokenOnlyRenewed` | `Spec => NewestToken` | `GatewayInv`, its part `LockInv` |
| `ServiceRegistryProofs` | `RegistryTyped`, `OrderIsReal`, `AnswersAreTrue`, `AgentIdStable` | `Spec => []` of `TypeOK`, `RealTimeOrder`, `AnswersTrue`, `StableAgentId` | `RegistryInv` |
| | `RegistryImplementsFeed` | `Spec => ImplementsChangeFeed` | `RegistryInv` |
| `EventIngestProofs` | `IngestTyped`, `StoredOnceInOrder`, `SeveritiesKept`, `RequestsAllOrNothing` | `Spec => []` of `TypeOK`, `IngestedOnce`, `Normalised`, `AllOrNothing` | `IngestInv` |

Why the invariants are needed.

* `DedupWindow` speaks of incidents only, but what keeps two of them apart is
  the cache, and the cleaner empties the cache. `DedupInv` says of every
  incident that its fingerprint is either remembered with a time that is not
  earlier, or was forgotten when its quiet period was already over for every
  evaluation that can still compare with it (`CheckTime`). The second half is
  where `DedupTTLAssumption` enters: twice a rule's window plus the longest
  evaluation must not exceed the TTL. The code's values are ten minutes against
  one hour; a custom rule with a window above half an hour would break it.
* `MatchInv` adds the converse, that every remembered fingerprint is that of an
  incident with that time, and carries the claim through the two nested loops
  (`Visited`).
* `BufferInv` says of the buffer and of the evaluator's copy that each event is
  under its own key (`Filed`), that no two have one arrival number, and that an
  event that came with a message carries the message's id, source, type and
  title. With the first, the evidence of a tenant comes from the keys that begin
  with its name; with the last, the event that `matchRule` keeps in place of a
  witness with the same id is known to bear the id of a message that satisfies
  the condition, and ids may be shared by any messages. The refinement to `IncidentPipeline` needs
  no invariant beyond `DedupInv`; its length is in the lemmas that move an
  incident between `triggered`, the channel and the dispatcher without changing
  the queue that both make together.
* `LinksInv` adds to `LinksAreReal` what a dispatch holds between two calls of
  TheHive: the alert it was answered with is of its own incident's detection,
  and it goes on to promote only what its rule rates high or critical.
* `SinkInv` adds to the three properties that a message is in at most one of
  channel, buffer and table, at one place there, and that numbers above
  `published` are nowhere. Without it an insert could store a message that the
  table already has.
* `MonitorInv` adds that a process which was reported, or is of the baseline,
  and still runs is in the last refresh under its own pid. Without it a poll
  could take such a process for a new one.
* `LimiterInv` adds to the types that a goroutine between `get` and `Allow` holds
  the limiter of its client's entry (`Held`) and that an entry's limiter is its
  own and was last used at most `MaxPause` after `lastSeen` (`Owned`). So an
  entry old enough to be evicted has no user and, by `IdleAssumption`, a full
  bucket, which is what makes the new limiter indistinguishable from it.
* `BoundInv` adds to the bound between any two admissions that the tokens left
  plus the admissions since the i-th are at most what was earned since then.
  The bound alone says nothing about the next admission.
* `GatewayInv` says by the place of a call what its tool has done: nothing
  before it is on the wire, nothing while it is on the wire or when it only
  reads, at most one act after (`CallInv`). A repeated GET can then only repeat
  a read. Lemmas over the 42 routes show that each one's success code and
  validation agree with what its client takes for a success (`AllRoutes`,
  `RefusalIsSeen`). `LockInv` says who holds the mutex and that the token
  received under it is the last one issued. `TimeInv` and `TokenInv` bound a request's
  deadline by the expiry of the token it has authenticated with, across logins
  of others; `TimesAssumption` enters there.
* `RegistryInv` ties each request to what is in the log, on the bus and pending
  by its place in the handler (`RequestInv`), to what it knows of its row
  (`RowInv`: the tenant read before a delete is still the row's tenant, unless
  the row is gone), and says of the table that no id is handed out twice and an
  agent has one row (`TableInv`). `PendingInv` says of every transaction whose
  COMMIT was sent that it is still a change the feed allows (`Legal`), however
  long ago its request was answered, and `LocksInv` that no two of them are on
  one row: that is what makes a commit legal in the state in which the database
  performs it and not only in the one the handler read, and what keeps a late
  one from overtaking a later request on its row.
* `IngestInv` says of every entry of the log that it is what a parser made of a
  message or of an item of a request, filed under its own key (`EntryInv`); of
  every subscription that what is logged, in its callback and waiting is in the
  order of publication (`SubscriptionInv`); of every webhook request that it has
  made exactly the first calls of its two nested loops, over a copy that is a
  prefix of the registered handlers, with one entry for each call of the
  engine's handler, and of Falco's that its items are all that were sent
  (`RequestInv`). The loops are flattened: the n-th call is for
  item n div h and handler n mod h (`CallAt`), and lemmas about division give
  that the engine is called for the items in their order.

Assumptions on the constants: `RulesAssumption` and `NamesAssumption` (types;
nothing about ids), `BoundsAssumption`,
`DedupTTLAssumption`, `BridgeAssumption` (a positive batch size: `getenvInt`
falls back to its default otherwise), `MonitorAssumption`, `LimiterAssumption`,
`IdleAssumption` (a bucket fills up within the idle time less the longest pause:
100 tokens a second and ten minutes against a burst of 200), `RoutesAssumption`
and `ConfigsAssumption` (routes are those of the server; the ITDR service is
always there), `FreeAssumption`, `TimesAssumption` (the manager's 60 minutes
cover the cached 55 and two deadlines), `NoRowAssumption`, and for ingestion
`IngestAssumption`, `OctetsAssumption` (an address has bytes and a spelling),
`MessagesAssumption`, `PostsAssumption` (only NDJSON can be cut outside a JSON
value), `StreamsAssumption` and `RequestsAssumption` (what may arrive, and
types). Where these speak of
`SelectSeq`, they say of the inputs what holds for every sequence: the prover has
no definition of that operator. TLC evaluates all of them in the runs, and those of the modules without proofs:
`RulesCanFire` and the comparisons of `IncidentViews`.

Only model-checked: liveness (`IncidentResolved`, `EventuallyStored`,
`EventuallyInspected`, `EveryCallAnswered`), which needs `ENABLED` and is out of
the prover's reach. What a recursive definition computes for every input
would need induction over data, which the prover cannot do; the modules have no
recursive definition so far.

## Findings

1. `engine_same_agent`: R001 is described as correlating events "on the same
   agent"; `matchRule` compares no agents.
2. `engine_threshold`: a threshold counts deliveries, not events; duplicates
   are removed only after the count.
3. `gateway_token`: the Wazuh client is documented as "thread-safe"; `doGet`,
   `doPost` and `doPut` read `c.token` after `authenticate` has released the
   mutex, while another goroutine may be writing it.

Differences between code and documents that were met while modelling and have
no run of their own:

* `engine.go`: `Start` "drains cleanly" according to its comment; the
  dispatcher may return with incidents in the channel, and `main` waits for no
  goroutine.
* The bus is documented as giving guaranteed delivery through JetStream
  (`docs/KUBRIC Orchestration.docx.md:329`); the bridge uses a core subscription
  and loses its batch when an insert fails.
* CoreSec "Publishes on every `execve`" (`K-MB-SUB-001_edr.process.v1.md:19`);
  it polls every five seconds and misses what starts and ends, or takes over a
  pid, in between.
* `ingestor.go:120` says of Wazuh's levels "≥10 = high"; level 10 becomes 3,
  medium. The comment above `suricataSeverityToKubric` maps Suricata's 1 to 5,
  the code to 4. The severities of process events and threshold alerts are
  copied as they come, also outside 1 to 5.
* `isPrivateIP` claims "RFC1918 / loopback / link-local" (`ingestor.go:711`) and
  takes `fe80::/10`, `::1` written in full and `FC00::` for public, so they become
  indicators; it takes everything that starts with `172.2`, also 172.2.0.0 and
  172.200.0.0, or with `fc`, also `fc::`, for private. The address of a Wazuh
  agent, and the HTTP host or DNS query of a Suricata alert, is an indicator even
  when it is private (`ingestor.go:568`). The comment at `ingestor.go:360` says
  "both src and dst"; the code takes the destination only.
* `suricata/client.go:176` cuts a body at 10 MiB without a word: an NDJSON body
  cut between two lines is answered 200, with the number of events it accepted,
  and a sender that does not compare numbers loses the rest.
* `ingestor.go:611` converts an unsigned number of milliseconds to `int64`; from
  2^63 on the event's time lies before 1970 and outside of every window.
* The evaluator and the timeline cut a buffer key at its first colon; the events
  of a tenant id that contains one (a Falco webhook takes the host name for it)
  are evaluated, together with the other tenant's, under the part before.
* Event ids are not unique. Two Suricata alerts of one packet, two CoreSec
  events of one pid and second, two NetGuard events of one address pair and
  second share an id, and `matchRule` then drops all but one from the evidence.
* `tenant_tx.go:29` binds `$1` in `SET LOCAL`, which PostgreSQL refuses under
  pgx's default protocol: with the DSN as documented every transaction of a store
  would fail. The model takes the statement to be accepted (as under
  `default_query_exec_mode=simple_protocol`); where it is refused only
  `RolledBack` happens.
* `ksvc/server.go:140` mounts `/tenants/{tenantID}` a second time; in chi v5.1.0
  the mount hides GET, PATCH and DELETE of `/tenants/{id}`, although the comment
  above (`:136`) says otherwise. The model keeps these handlers reachable, which
  adds behaviours and hides none.
* The rate limiter's client is the `X-Real-IP` header when there is one, so its
  bound is per claimed address.
* The payload sent to Shuffle is made from a copy that does not have the TheHive
  id yet. A timeline above its limit loses its latest events.
* The tenant handlers answer a failed create with 409 whatever the database's
  error was; of two concurrent deletes of one cluster the later answers 500;
  nothing stores a Stripe customer, so the two billing routes answer 409 for
  every tenant.
* `kai/workflows/remediation.py` calls remediation "idempotent (workflow_id =
  finding_id)"; the id is made from the plan. It starts the workflow with two
  arguments, the Go worker registers one with a single `RemediationInput`.

## Not modelled, and the plan

`PROJECT.json` gives the reason for each part that has no module. Pure
input/output (packet capture, metric sampling, feed conversion, read-only
endpoints that ask another service, frontend, deployment) stays out, and so do
client methods that no code calls. What remains, in the order of its weight,
with what is hard about it:

1. `Remediation`: the keeper's plan, the Temporal workflow and the direct
   fallback, the VDR finding they close; abstract specification: a finding is
   closed only after a verified run. A message delivered twice
   (`remediation.py:226`), a start that times out after it succeeded (`:231`), a
   finding reopened between verification and closing (`:154`).
2. `AgentUpdater`: staging and install directories over a crash between any two
   files (`tuf_updater.rs:206`); deltas applied twice (`:197`); a final
   verification of a name that was never installed (`:217`).
3. `AgentHealth`: heartbeats and staleness (`orchestrator.rs:77`), registration
   with a lost reply (`registration.rs:179`).
4. `Billing` and `MerkleRoot`: a run already under way (`billing.py:203`),
   retries after partial success (`:118`), a failed aggregation billed as zero
   (`:89`); the root as a function of the set of records (`metering.go:80`).
5. `KaiRouting`: routing of messages to personas (`subscriber.py:87`).

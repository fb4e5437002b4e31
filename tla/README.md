# KiwiGuard: TLA+ specifications

KiwiGuard is a gateway between applications and OpenAI-compatible model
providers. It authenticates and limits its clients, evaluates policy on requests
and responses (streamed ones too), redacts or blocks what policy finds, records
every exchange as a traffic event, and takes its configuration from numbered
revisions in PostgreSQL that operators edit and activate through a control API.

This directory holds TLA+ models of its core, TLC configurations that check them
on small instances, and TLAPS proofs of what they check, for every instance.
`PROJECT.json` maps every definition to the lines it models and lists the runs, the
mutants, the hazards, the findings and the theorems.

    tlc -workers 2 -config EventSpool.cfg MCEventSpool     # one run
    tlapm EventSpoolProofs.tla                             # one proof module

Paths below are relative to `src/`; `events/` is
`internal/contexts/traffic/adapters/events/`, `openai/` is
`internal/contexts/gateway/adapters/http/openai/`, `application/` is
`internal/contexts/gateway/application/`, `control/` is
`internal/contexts/control/`.

## 1. Inventory

| Component | State it keeps | Operations | Interacts with | What is hard, and what makes it correct |
|---|---|---|---|---|
| Durable spool, `events/spool*.go` | a directory of record files, committed or claimed; sequence and overflow counters | Append, NextBatch, Ack, RecordFailure, Stats, recovery, purge | the durable sink appends, the replay worker drains; several processes share the directory | crashes between claim and Ack, recovery racing a worker, half-done loops. No record is lost; a claim is exclusive for a while; the spool respects its limit; records get delivered |
| Replay worker, `events/durable_sink.go` | the batch it is writing | ReplayOnce | spool, primary sink | a write that was accepted and still reports an error |
| Event pipeline, `events/pipeline.go`, `health.go` | bounded channel, closed flag, drop counter, last error, health gate (two atomics) | Enqueue, Flush, Run, Close | handlers enqueue, the flusher drains into the durable sink, the ClickHouse monitor also writes the gate, admission reads it | handlers against flusher against monitor against shutdown. Every event is accounted for; the gate tells failures and recovers |
| Configuration revisions, `internal/adapters/postgres/revisionstore`, `configstore`, the `clone.go` of each context | revision rows, a dozen tables of records per revision, the client generation | edit (into the latest draft, cloned when missing), activate, notify | control API writes, watchers read | READ COMMITTED transactions that overlap; references that have to be remapped. There is an active revision; edits stay; a clone serves what its source served; the token changes with the content |
| Runtime watcher, `internal/contexts/runtime` | served configuration, readiness, subscription | boot, subscribe, check, load, compile, swap | store notifications and polling; the gateway reads the served configuration | lost notifications, failed reloads, restarts. Stale state is noticed; the active configuration is served in the end |
| Runtime compiler, `runtimecompiler/compiler.go`, `openai/gateway_config.go` | none | convert rows, build the configuration, refuse what is inconsistent | watcher, gateway | a dozen checks over references. A limit that is stored is served, or the revision is refused |
| Policy snapshot, `internal/contexts/policy/domain/snapshot.go` | compiled rules (immutable) | compile, evaluate | exchange, streaming, detectors, verdict providers | rule index, scopes with wildcards, the detector cache, escalation by verdicts. The decision is the strictest that applies |
| Redaction, `application/redaction.go`, `openai/openai_text.go` | none | join texts, map spans back, merge, replace | exchange | spans that overlap, cross texts or cut a character. Exactly what was found is gone |
| Verdict providers, `internal/contexts/verdict`, `application/traffic_evaluation.go` | none | call, fall back, shadow | policy | timeouts. A failure never weakens the decision |
| Routing, `internal/contexts/routing` | none of its own | choose route, provider and model | compiler, exchange | one active mapping per route, disabled rows |
| Control API, `control/` | none of its own, or the in-memory repository | upserts, activations, client create, patch, revoke | store | read-modify-write of clients, names resolved before the draft exists. The database does what the in-memory repository does but in two named cases; revocations and keys last |
| Gateway admission, `openai/server_builder.go`, `limits.go`, `client_auth.go`, `application/usecases.go` | the cached server, rate windows, concurrency reservations | pick server, authenticate, audit gate, rate, reserve, release | runtime state, health gate | concurrent requests and reloads, instants out of order. Counters equal the reservations held and respect the limit |
| Gateway exchange, `openai/openai_exchange.go` and others | the handler's progress | decode, input policy, forward, output policy, emit | upstream, policy, pipeline | two dozen ways out. The event agrees with the client's answer; nothing crosses before an event that permits it is emitted; reservations are released |
| Streaming output, `openai/streaming_handler.go`, `application/stream_buffer.go` | sliding window, collector, held frame | read frame, evaluate, emit, finish | upstream, client | a secret spread over frames. It is not delivered whole; what was delivered is on record |
| Process lifecycle, `internal/app/app.go`, `internal/bootstrap`, `internal/contexts/runtime/worker.go` | goroutines, servers, contexts, connections | build, serve, signal, shutdown, clean up | everything | failures halfway through startup, requests that outlive shutdown, one child of three that fails. Connections outlive the goroutines that use them; a clean stop leaves no event; serve returns |
| Detection, CLI, configuration files, metrics, traffic sinks, web console | static or I/O | matching, parsing, database and HTTP calls | | no concurrent logic of their own; see section 6 |

## 2. Modules

    DurableQueue                          abstract: what a spool promises
    EventSpool        -> EventSpoolProofs         implements DurableQueue

    EventPipeline
    ProcessLifecycle  -> ProcessLifecycleProofs    EXTENDS EventPipeline

    ControlMemory                         abstract: the in-memory repository
    RevisionStore     -> RevisionStoreProofs
    RuntimeReload     -> RuntimeReloadProofs       EXTENDS RevisionStore
    ControlRequests   -> ControlRequestsProofs     EXTENDS RevisionStore,
                                                   implements ControlMemory

    RevisionContents                      rows, clones, upserts, loads
    PolicyEvaluation                      snapshot, verdicts
    TextRedaction                         spans
    GatewayConfig     EXTENDS RevisionContents, PolicyEvaluation
    ConfiguredTraffic -> ConfiguredTrafficProofs   EXTENDS GatewayConfig,
                                                   TextRedaction,
                                                   implements ControlMemory

    GatewayReasons                        the error tables
    GatewayAdmission                      EXTENDS GatewayReasons
    GatewayExchange   -> GatewayExchangeProofs     EXTENDS GatewayAdmission
    StreamingOutput   -> StreamingOutputProofs

Each `MC...` module gives the constants of its module values that a `.cfg` file
cannot write. A definition marked "Mutant" is a deliberately wrong variant of
the one after it; no specification uses it. For every property one of them is
put in place of the definition it varies, and TLC finds the property violated.
RuntimeReloadProofs and ControlRequestsProofs extend RevisionStoreProofs and use
its lemmas; GatewayExchangeProofs is about both modules of the gateway.

### EventSpool

`disk` is the directory: committed files `<id>.json` and claimed files
`<id>.inflight.<pid>.<seq>`, each with the age of its ModTime. `worker` is where
each replay worker is and the batch it holds, `seq` and `overflowCount` are the
fields of each FileSpool, `overflow` is the overflow-count file. `delivered`,
`rejected`, `spoiled` and the age of a batch are history.

Every spool operation runs under a mutex and the directory's flock, so it is one
action; its loops go in file-name order and may stop after any prefix, because a
context is canceled, a system call fails or the process dies. Append
(`AppendStored`, `AppendRejected`, `MaintenanceFailed`), `Stats`, `NextBatch`,
`ReplaySucceeded`, `ReplayFailed`, `Ack`, `RecordFailure` and `Restart` are the
operations; `Tick` lets time pass. Append takes the size of the spool from the files
it can size (all but `m` of them, `spool_stats.go:10-13` and `:22-25`), and the
overflow count from the file if it can read it (`readable`,
`spool_overflow.go:23-26`). The code compares ages with ClaimTimeout and
MaxAge only, so ages stop growing at `AgeCap`. Records have size 1.

`DurableQueue` says what users of a spool rely on: a written record stays present
until it has been accepted or is old. The refinement mapping takes records
written, held in a file of either kind, delivered and expired.

### EventPipeline and ProcessLifecycle

Every atomic load and store and every channel operation of the pipeline is a step
of its own: `EnqueueStart` reads `closed`, `EnqueueSend` or the drop path follows
later; the flusher collects, writes to the primary, spools what the primary
refused, and stores reason and flag of the gate one after the other. Left out are
`discardQueued` (no sink configured) and the text of the last error, which nothing
reads.
`CancelPipeline` and `DrainExpires` cancel the contexts the writes run under.

ProcessLifecycle is a process in serve mode around that pipeline. `serve` walks
through runServe: it builds gateway, control and worker (`BuildOpens`,
`BuildSucceeds`, `BuildFails`, `LoadFails`), runs them as three children
(`child`), and cleans up in reverse order (`CleanupStop`, `CloseConnections`).
`canceled` is the children's context, done after a signal or the first error.
`arrived` holds the requests of the gateway and, while they are in flight, those of
the control API (`QueryArrives`, `QueryEnds`), which use the control part's pool and
ClickHouse connection.
A server leaves when none of its requests is in flight or when its timeout passes and
those in flight go on, the
worker when its loops have ended. `background` holds the replay worker, watcher
and monitors of each part, `connections` whether its pool is open. Requests arrive
while the gateway listens and enqueue their event later, or never; shadow
verdicts may enqueue whenever they like. The monitor of ClickHouse marks the gate
as handlers and flusher do.

Taken as one step: a child's send of its result and runServe's receive (runServe
does nothing else); the monitor's two stores to the gate (they leave the pair the
last writer would leave); the closing of ClickHouse and of the pool.

### RevisionStore

A row is a status and the edits the revision holds. A transaction is one step
per read whose result it uses later and a commit that makes its writes visible:
this is what READ COMMITTED allows. An edit first resolves route names
(`CreatePolicyBundle`), then looks for a draft, inserts and clones one if there
is none, and writes; an activation selects the latest draft, deactivates the
rows it saw active, activates, and notifies. A scoped edit keeps the revision its
route ID points into, which is what cloning remaps. `ActiveRevisionNumber` is
the token: revision number plus client generation. `history` is for the properties:
whether requests that overlapped may have left an edit behind (`forked`), and up to
which token they may have given one to two configurations (`ambiguous`). Three
commits write it: an edit into a draft that was activated since (`LateEdit`), an edit
that makes a second draft or one of a superseded revision (`ForkedDraft`), and the
activation of a revision older than the active one (`OlderRevision`).

### RuntimeReload

RevisionStore with the watchers of one process: boot, subscribe (or fail to),
receive a notification, tick, check the token, load, compile, publish. Each
watcher owns the configuration it serves; all share `ready`. Connections break,
loads fail, content may not compile, the process restarts.

### ControlMemory and ControlRequests

ControlMemory is the repository the program itself keeps in memory
(`control/application/memory.go`): each request is one step behind one mutex.
It is an implementation in the code and the abstract specification here.

ControlRequests has the requests about gateway clients as they run against
PostgreSQL, together with RevisionStore's edits and activations: `Find` looks the
client up, `Create`, `Patch` or `Revoke` writes it with the client generation in
one transaction, `Reread` reads it again for the answer; no lock spans the three.
A patch writes back the row it read, but a client that was revoked in between
stays revoked. A request that fails or is canceled stays where it is. The key of a
client is the call that created it.

### RevisionContents, GatewayConfig and PolicyEvaluation

RevisionContents is a revision as a record of tables, one set of rows each.
Names are unique in a revision and a copied row gets a new ID, so an ID is
`<<revision, name>>` (`<<revision, bundle, name>>` for rules and detectors), NoID
is NULL, and Missing is the error of a remap; a clone with a Missing reference is
refused (`Whole`). Columns that only travel are left out. `Contents`, `ForeignKeys`
and `UniqueNames` are the column types, the references and the unique constraints of
the migrations; the schema lets a reference name a row of any revision, so that the
references of a revision stay inside it is the work of the requests.

GatewayConfig takes such a revision through the conversion (references become
names, an unknown one becomes empty), the compiler and BuildConfig with all its
refusals. Bindings of equal priority come in the order of random row IDs:
`CompileGatewayRuntime` yields one configuration per order.

PolicyEvaluation compiles bundles and evaluates a request: candidate rules per
combination of value and wildcard, scopes, the detector cache with its joined
key, the strictest action, and the verdict with its fallback, inline or as a
shadow. What a detector finds is an input (`FoundIn`; one that is not listed finds
nothing).

### TextRedaction

The texts of a body are joined by a one-byte separator; a finding is a byte range
of the joined text and is mapped back, clipped, merged and replaced. A byte is its
position, so it can be followed; `Runes` says which bytes start a character. Each
loop over a list is a recursive function of how far it has come.

### ConfiguredTraffic

All of these together: a control request changes the draft (cloning the active
revision if there is none), `ActivatePolicyBundles` activates it, `Reload`
compiles the active revision and `EvaluateExchange` takes one direction of an
exchange through policy, verdict and redaction. `TrafficAssumption` says what
an installation starts with: rows that the schema admits and that refer to each
other, and requests that `Validate` and the decoders let through; `TextAssumption`
says that what is found is byte ranges, of any kind. Requests come one
at a time and a transaction is one step, because RevisionStore and ControlRequests
have them overlap; a reload is one step, because RuntimeReload has it race.

### GatewayAdmission and GatewayExchange

`active` is the revision of the runtime state, `built` the servers built so far
and `current` the cached one. Each server has its own rate windows and
concurrency counters. A handler reads the configuration, takes the server under
the mutex, authenticates, looks at the audit gate, reads the clock, counts
against the window and reserves; every one of these is a step. `holds` is the
reservation a handler has still to release; a shadow evaluation has none.

GatewayExchange replaces the single step `Serve` by the stages of the handler:
body, infrastructure, decoding, input policy, projection, upstream call, output
policy or stream. Bodies, policy decisions and upstream answers are inputs.
`End` is an early return: it writes the client's error (`ErrorCode`,
`ErrorStatus`) and emits the event (`trafficEventGatewayStatus` and the tables
of GatewayReasons). A shadow verdict runs after its handler and emits an event
of its own.

### StreamingOutput

One stream. Text is a sequence of runes; policy looks for `Secret`, on which it
acts, and `Noted`, which it logs. `window` and `collected` are the two buffers,
`pending` the frame held back. A frame is refused by policy or by the collector,
or passes and lets the held one out; the stream ends by EOF, an upstream or
parse error, or a failed write to the client; the whole text is evaluated then.

## 3. Runs

All bounds are in the `.cfg` files. `CHECK_DEADLOCK FALSE` is set throughout:
every model stops when its bounded supply of records, events, requests or
edits is used up, and a stopped process is a legal end.

### Runs that pass

| Run | Properties | Bounds, and why they are enough |
|---|---|---|
| `spool` | NothingLost, ImplementsQueue | two processes with the same pid (containers), two records in batches of up to two, a sequence that wraps at two, ages past both timeouts: claimed names collide, batches stop half-way, recovery meets a live worker. The theorems lift the bounds |
| `spool_full` | YoungClaimExclusive, AppendWithinLimit, OverflowCountSound | two processes with the same pid and claims of the same name, room for one record of two, files that cannot be sized or read, three rejections and restarts: claimed records come back into a full spool, and a counter kept in one process is behind by more than one. The theorems lift the bounds |
| `spool_live` | EventuallyDelivered | one worker, two records, batches of one, so the second waits for the first |
| `lifecycle` | Accounted, FailureShows, UsersGoneBeforeClose, CleanStopDrains, QueuedIsFlushed, ServeReturns, GateRecovers | one request, one shadow verdict and one control request for a channel of one and batches of up to two, a sink that may fail, a worker with a loop that may fail and one that may not: the channel fills, handlers race the drain, a Flush has more than one batch, each part fails in startup and in service. The theorems lift the bounds of the invariants |
| `control` | ActiveExists, EditsKept, TokenAdvances, RevokedForever, CreatedKeyWorks, ClientsImplementMemory | two edits and two activations that overlap, and two creates, a patch and a revocation of one client: two drafts, two activations that see the same rows active, a patch that read the client before it was revoked, an edit into a revision activated meanwhile, a draft that is reused, cloned, and cloned again. The theorems lift the bounds |
| `traffic` | TypeOK, CloneServesTheSame, DecisionIsStrictest, RedactsExactly, LimitsAreServed, ImplementsMemory | an installation with three routes (inline, shadow, disabled), two providers, a verdict provider and a bundle with two detectors and two scopes, so that every table has rows that refer to each other; two control requests with activations between them: edit, activate, clone, edit again; findings that overlap, touch, cross the separator or cut a character of two bytes; verdicts that allow, redact, fall back and fail. The theorems lift the bounds of all of them |
| `reload` | TokenTellsStale, NoMissedWakeup, ServesActive | one watcher, two edits of which one does not compile, an activation, a client change, a restart, in any overlap: an edit commits into the revision just activated and puts its token in doubt, the client change raises it again. The theorems lift the bounds of all but ServesActive, to several activations above all |
| `admission` | ReservationsWithinLimit, RateWithinWindow | three requests for two reservations and two tokens, three revisions of which one is not compiled, a clock of three instants: one request more than the limit, a window that ends. The theorems lift the bounds |
| `exchange` | TypeOK, AnswerRecorded, CrossingIsRecorded, ReservationReleased | one request; every client status, every kind of route, every decision, every outcome, upstream statuses 200, 202 and 429. The properties are about one handler, so one suffices. The theorems lift the bounds of all but ReservationReleased |
| `streaming` | TypeOK, SecretNotDelivered, DeliveredIsCollected, PartialIsTold, EventReflectsText | a secret of two runes, deltas of at most two and one of four, a window of three, five frames, a collector of five runes: the secret falls across frames, the window slides or loses the head of a delta, the collector overflows. The theorems lift the bounds |

The type invariants of the other modules are proved (section 5) and not run again;
those of `traffic`, `exchange` and `streaming` say more than types (what may be
enforced or be left over, the limits of the buffers).

What they show:

- **Spool.** Wherever operations stop, a record written is in a file, was accepted
  by the primary, or has outlived MaxAge. It may be delivered twice. Two
  processes do not write the same record at once unless its file is older than
  ClaimTimeout, or RecordFailure wrote it back too late or without removing the
  claim. Append never itself leaves more than MaxBytes committed, but for files it
  could not size. A rejection that can read the overflow count never takes it back,
  and the count never exceeds the rejections. Every record is delivered in the end, if every
  record can be replayed at all.
- **Pipeline and process.** Exactly the events that entered the channel are in it, in
  the batch being written, in a sink, or in a batch that was reported as failed, from
  startup to the end of cleanup, and the drop counter is the number of those that a
  full or closed channel turned away. An event refused because its request's context
  was done is in no counter (see the limits below). After a Flush that failed the gate is
  unhealthy until a later
  Flush or a probe succeeds, whatever handlers did to it and however many batches
  after the failed one were written; and an unhealthy gate is opened again although
  no admitted request can cause a flush. The connections of a part are closed after
  its goroutines, loops, pipeline and monitor have ended, on every path, and, as long
  as nothing has failed, after the control API's requests. When serve returns without
  an error
  every event a request sent to the channel was written or reported lost, and once a
  signal came or a child failed serve does return, whatever requests hang.
- **Control requests.** There is an active revision however requests overlap. A
  client whose revocation was answered stays revoked, a key that was handed out is
  the stored one, and the client table changes as if each request were one step of
  the in-memory repository.
- **Configured traffic.** A clone that is activated at once serves what its
  source did, and only a reference into another revision can prevent a clone.
  Drafts, clones and activations do what the in-memory repository does, with two
  exceptions that `ImplementsMemory` names: a bundle that makes the draft is stored
  without the routes and providers of its scopes (`ScopeForgotten`), and a verdict
  provider replaces the one of its name, where the in-memory repository replaces the
  one of its ID (`FiledByName`). No other record is changed or lost on the way. The action of an exchange is the strictest
  of the active bundles' defaults, the enabled rules that match, and the verdict
  or its fallback, in a revision that tells its detectors and routes apart
  (`ToldApart`, below). A redacted text lacks exactly the bytes that were found. An
  enabled limit is served, on a route that demands a client.
- **Reload.** A committed edit stays in the current revision, and every change of
  the active configuration raises the token, except for the commits named under
  RevisionStore above, which only requests that overlap can make. A watcher whose
  token is the store's serves the store's configuration, no activation is missed by
  a listening watcher, and every watcher comes to serve the active configuration if
  it compiles; all three but for tokens that such a commit has put in doubt, and
  again from the next higher token on.
- **Admission and exchange.** Counters equal the reservations held and respect
  the limit of their server; no window admits more than its budget although
  instants arrive out of order; reservations are given back on every way out.
  The last event of a handler names the error the client got and its status (two
  cases excepted, below), and no body crosses before an event that permits it was
  emitted; whether the pipeline took that event is the pipeline's matter.
- **Streaming.** However a secret is spread over frames, the frame that completes
  it reaches the client only if its own text is too long for the window (below); what
  the client got is in the collector; a stream that was cut is marked partial; the
  event records allow only if policy allows the whole text.

### Runs that TLC refutes

Each states what a comment of the repository says, and TLC gives a behaviour of
the code that disagrees. The quotations are in `PROJECT.json` under `findings`.

| Run | Property | What happens |
|---|---|---|
| `reload_stuck` | ReadinessRecovers | a failed check followed by "unchanged" leaves the process degraded although it serves the active configuration |
| `traffic_scope` | ScopeKept | a bundle created for one route while there is no draft keeps the route ID of the revision the draft is cloned from; the loader does not find it, the scope becomes a wildcard, and the rule is served for every route. The next clone of that revision fails |

### Limits of the design

Behaviours of the code that the models have and that the properties above are
stated around. No run is kept for them.

- A claim is a rename and keeps the record's ModTime, so a record that waited
  longer than ClaimTimeout is stale the moment it is claimed, and a second worker
  may write it too (`events/spool_claims.go:96`). `YoungClaimExclusive` is about
  files younger than that. It also excepts the records of `spoiled`: when the first
  of two workers on an old record fails, RecordFailure writes a new young file while
  the second still holds the record, and with equal pids a restarted worker may claim
  it under the second one's name; and a claimed file that cannot be removed
  (`events/spool.go:312`) stays beside the rewritten record.
- Append admits a batch by the files it can size: when the directory cannot be read
  the spool looks empty and takes records beyond its limit
  (`events/spool_stats.go:10`). A process that cannot read the overflow count writes
  its own over it, which may be smaller (`events/spool_overflow.go:23`).
  `AppendWithinLimit` and `OverflowCountSound` name both cases.
- A record that cannot be replayed (its claimed file does not decode, or the primary
  refuses its batch for ever) is claimed again and again in front of those behind it
  (`events/spool.go:230`). `EventuallyDelivered` assumes there is none.
- Claimed records are not counted against MaxBytes; when they come back the
  spool holds more (`events/spool.go:173`). `AppendWithinLimit` is about appends.
- MarkHealthy and MarkUnhealthy each make two atomic stores; a drop and a success
  can interleave into a healthy gate with a reason (`events/health.go:47`).
- An Enqueue that read `closed` before Close may send after the final drain; the
  event stays in the channel (`events/pipeline.go:84`), where `Accounted` finds it and
  which `QueuedIsFlushed` excepts. With a clean stop this can only be the
  event of a shadow verdict, which outlives its request.
- An event is refused when its request's context is done (`events/pipeline.go:82`).
  No counter tells, and `emit` ignores the error (`openai/event_emission.go:82`). The
  context descends from the one a signal cancels (`internal/app/app.go:277`), so
  requests in flight at a shutdown may lose their events this way, as may those whose
  client has gone.
- A server whose listener fails, or whose Shutdown times out, leaves its requests in
  flight (`internal/app/app.go:258`). Those of the control API then find the pool and
  the ClickHouse connection closed (`internal/bootstrap/resources_cleanup.go:28`).
- A context canceled during a flush fails the primary and the spool alike, so
  the batch is reported as failed although the spool works
  (`events/durable_sink.go:55`).
- When closing ClickHouse fails, cleanup returns at once and leaves the pool to
  the end of the process (`internal/bootstrap/resources_cleanup.go:19`).
- An edit looks for its draft without locking the row; when an activation comes
  in between, the edit changes the active revision and not the token
  (`revisionstore/unit_of_work.go:121`). Two edits that find no draft create two;
  the older one and its edit wait for an activation that never selects them first,
  and when it is activated last the token goes back. These are the exceptions of
  `TokenAdvances` and `EditsKept` and what `history` records for `TokenTellsStale`,
  `NoMissedWakeup` and `ServesActive`.
- The snapshot hash recorded with an activation is computed from a listing made
  before the transaction (`control/application/usecases.go:101`). Nothing decides
  by it; it is not modelled.
- A request puts a verdict provider under an ID, and its body may name another
  (`policy_verdict_providers_http.go:25`). The in-memory repository stores it under the
  ID (`memory.go:129`), the database under the name and reads it back with that name as
  its ID (`postgres_verdict_adapter.go:38`), so a request for one ID can replace the
  provider of another. `Filed` models it; `ImplementsMemory` excepts it (`FiledByName`).
- A create compares the client it reads back with the one it asked for; when the
  client was patched or revoked in between it answers "already exists", and the key
  it generated is never shown (`ControlRequests`, `Reread`).
- The detector cache joins bundle and detector key with a slash, so keys that hold
  one may share an entry (`policy/domain/snapshot.go:173`). `CacheKey` models it;
  `DecisionIsStrictest` and `RedactsExactly` are stated for revisions that are
  `ToldApart`: no two detectors share an entry, and no route or provider has the
  empty name, which references that resolve to nothing are given.
- The gateway and the worker of one process share a readiness state, so the
  success of one hides the failure of the other
  (`internal/bootstrap/assembly_runtime.go:44`): a process may report ready while the
  last reload of one of its watchers failed. No property denies it.
- A reload starts with an empty limit state while the requests of the previous
  server run, and a request that read the previous configuration puts the previous
  server back (`openai/server_builder.go:35`, `:88`). The bounds are per server.
- A request refused for concurrency has used a rate token
  (`application/usecases.go:70`).
- A failed redaction is answered 502 and recorded 200
  (`openai/event_emission.go:85`), and so is a buffered response that the upstream
  answered with another success status and that is passed on with it: the status is
  noted for streams only (`openai/streaming_handler.go:23`, `event_emission.go:50`).
  `AnswerRecorded` excepts both.
- The head of a delta longer than the window is dropped before policy sees it
  (`application/stream_buffer.go:118`), and nothing keeps deltas short: a frame may
  have 1 MiB (`openai/sse.go:11`). A secret at that head is delivered, and without
  the exception for it in `SecretNotDelivered` (`FitsWindow`) TLC finds the stream. The
  event still does not record `allow` for it (`EventReflectsText`).

## 4. Fairness

- **EventSpool.** Time passes; the replay worker's ticker fires and its
  statements run (weak). NextBatch succeeds, the primary accepts a batch whose
  files are still there, and Ack of such a batch completes, if each is possible
  again and again (strong): the primary and the file system are not down for
  ever, and no record is one that can never be replayed. RecordFailure fails to remove
  a claimed file finitely often. `EventuallyDelivered` is about exactly that situation.
- **ProcessLifecycle.** Whatever may end does end: startup and cleanup steps,
  servers and loops told to stop, canceled goroutines (weak, one condition,
  `Winding`: none of these steps repeats, so together they cannot starve one
  another); timeouts fire with them. The flusher runs (weak), and its `select` with
  several ready cases picks "done" sooner or later (strong for `RunDone`), which
  Go's uniform choice gives with probability one. An Enqueue that has begun goes on
  (weak). A control request may hang for ever. The monitor's probes do not fail for ever (weak for `MonitorChecks(TRUE)`),
  which only `GateRecovers` needs. No signal need come, and a request or shadow
  verdict may hang before it enqueues.
- **RuntimeReload.** The poll ticker goes on and goroutines run (weak); checks
  and loads do not fail every time (strong). Control requests have no fairness:
  operators may stop.
- **GatewayExchange.** A running handler is scheduled, and its calls are bounded
  by the upstream and verdict timeouts (weak). Requests need not arrive.

## 5. Proofs

**EventSpoolProofs** uses `SpoolAssumption` only: any set of processes,
colliding pids included, any number of records, any limits.

- `TypeCorrect`: `Spec => []TypeOK`.
- `NoRecordLost`: `Spec => []NothingLost`. NothingLost is not inductive: Ack
  removes claimed files, and nothing in NothingLost says that they were
  accepted. The invariant `SpoolInv` adds `AckedAreDelivered` (a worker that is
  about to acknowledge holds accepted records only) and `OnlyStored` (files and
  batches are of records written). The argument goes through `Shrinks`: each
  building block (recovering a prefix of the stale claims, purging a prefix of
  the expired records, claiming, recommitting) gives up no record except those
  it names, blocks compose, and `DiskStep` is what every action amounts to. A
  rename that replaces a claim of the same path is covered because both files
  are of the same record.
- `SpoolImplementsQueue`: `Spec => ImplementsQueue`, from `SpoolInv` and
  `DiskStep`: each step is a step of DurableQueue or a stutter.

Its second part is what the processes on one directory may rely on.

- `OverflowCounted`: `Spec => OverflowCountSound`. A process that rejects takes the
  larger of memory and the file it can read, so `CountsInv` (no counter is ahead of
  the rejections) is all it needs.
- `AppendsFit`: `Spec => AppendWithinLimit`, from the cardinality of the files after
  recovery and the one file per record that a batch adds.
- `YoungClaimsExclude`: `Spec => []YoungClaimExclusive`, whatever the pids and
  whichever removals fail. The invariant `ExclusionInv` is per record: one that is not
  spoiled has one file, committed or claimed (`One`), and if a worker's claim on it is
  young, that file is the claim and nobody else holds the record (`HeldOnce`). Recovery
  takes stale claims only and brings no young file back (`Gentle`), a claim takes the
  record's only file, and Ack and RecordFailure touch no file of a record they do not
  hold.

**GatewayExchangeProofs** uses `AdmissionAssumption`: any requests (finitely
many), clients, routes, revisions and configurations. The first part is about the
admission alone.

- `AdmissionTypeCorrect`: `AdmissionSpec => []AdmissionTypeOK`.
- `ReservationsBounded`: `AdmissionSpec => []ReservationsWithinLimit`. The
  invariant adds `HandlersInv` (which reservation a handler at each step holds
  and that its server was built) and `CountersInv` (every counter is the
  cardinality of its holders, and within the limit of the revision its server
  was built for). It needs both: a reservation is compared with a counter, and
  released with a decrement, and only the equality of counter and holders makes
  the decrement exact.
- `WindowsBounded`: `AdmissionSpec => []RateWithinWindow`. Requests reach the mutex
  with instants in any order, so a late one may carry an instant before the window
  it is counted in. `WindowInv` says that every admitted instant lies before the
  end of the current window, so the next window starts after all of them, and that
  the requests admitted at or after its start are no more than its count.

The second part is about the whole handler; its actions are those of the admission,
with the exchange in the place of `Serve`.

- `ExchangeTypeCorrect`, `AnswersRecorded`, `CrossingsRecorded`: `Spec => []TypeOK`,
  `[]AnswerRecorded` and `[]CrossingIsRecorded`. `ExchangeInv` adds `Sound`, which
  says of every handler what has happened by the step it is at: nothing crosses to the
  upstream before the input decision, nothing is answered before the end, between the
  two the decision that permits the body has been recorded (`InputPermitted`), and at
  most two verdicts run in the background (`ShadowBound`, a decision starts one at
  most). A background verdict may append its event after the handler's last one, so
  the invariant speaks of the last event that is not a shadow's (`Appended`,
  `StaysRecorded`). That the two error tables, the client's and the event's, agree on
  every refusal is the lemma `RefusalRecorded`.
- `ExchangeLimits`: `Spec => [](ReservationsWithinLimit /\ RateWithinWindow)`. A step
  of the exchange keeps the server, the key and the grant of its request, so the
  invariants of the first part carry over (`SameRequest`).

**ProcessLifecycleProofs** uses `PipelineAssumption` and `LifecycleAssumption`:
any events (finitely many), channel and batch sizes, shadow verdicts, loops and
control requests.

- `PipelineTypeCorrect`, `PipelineAccounts`: `Spec => []TypeOK` and
  `Spec => []Accounted` for the pipeline alone. `Accounted` equates the
  places an event may be in (`Held`) with the events sent; a write moves the batch
  into `sunk` or `lost`, so the invariant `AccountedInv` adds `BatchRecorded`, which says at which steps of
  the flusher the batch is already there.
- `ProcessRunsPipeline`: `LifecycleSpec => Spec`, every step of a process is one of
  its pipeline or none. `EventsAccounted` and `LifecycleTypeCorrect` follow for the
  whole process.
- `ConnectionsClosedLast`: `UsersGoneBeforeClose`. `CloseInv` adds that no
  connection is closed before cleanup (`NothingClosedYet`) and that the worker's
  loops have ended when its child returned or was never started (`LoopsEnded`):
  cleanup waits for goroutines, but for the loops only the receipt of the worker's
  result does. `QueryInv` adds that without an error only a running control server has
  requests in flight, and that cleanup follows its return.
- `CleanStopLeavesNothing`: `CleanStopDrains`. `DrainInv` follows an event from the
  server to the drain: only arrived requests have handlers past their start
  (`HandledArrived`), a server that returned without an error has none in flight
  (`ServerDrained`), cleanup of the gateway follows the return of its server
  (`CleanupAfterServer`), the pipeline's context is canceled only in cleanup
  (`CanceledByCleanup`), a flusher outside Flush has an empty batch (`BatchEmpty`), it
  closes with the queue drained (`QueueDrained`), and it has stopped when serve
  returned (`FlusherStopped`).
- `FailedFlushShows`: `FailureShows`, inductive with the types.

**RevisionStoreProofs** uses `StoreAssumption`: any edits and activations (finitely
many), any number of revisions and generations.

- `StoreKeepsActive`: `StoreSpec => []ActiveExists`, requests overlapping at will.
  That some revision is active is not inductive. An activation deactivates the rows
  it saw active and makes the draft it selected active in the same commit, which
  needs that draft to be a row; and an edit's commit sets the status of the row it
  has inserted, which must not be one an activation has made active. `DraftsApart`
  says so: inserted rows that are not committed are distinct and not visible, and
  what a transaction has selected exists.
- `TokenRises`: `StoreSpec => TokenAdvances`, from the same invariant: an edit that is
  not late leaves the active rows alone, and an activation of a revision that is not
  older makes it the latest active one.
- `EditsStay`: `StoreSpec => []EditsKept`. The invariant `EditInv` adds, for every
  state, that a draft is cloned from a revision that was active and is older than it,
  and that two activations do not deactivate for one revision at a time
  (`ClonesApart`); and while no commit has forked the line of revisions, `Straight`:
  one draft at most, newer than the one active revision, which is newer than the
  rejected ones (`OneLine`), an activation of the draft deactivates what is active
  (`DeactivatesActive`), a clone has the edits of its source (`ClonesHold`), and the
  edits done are in the draft, or in the active revision when there is none
  (`EditsHeld`).

**RuntimeReloadProofs** adds `ReloadAssumption`: any watchers, restarts and
configurations that do not compile.

- `ReloadTypeCorrect`: `Spec => []TypeOK`, with overlapping requests.
- `TokenIsEnough` and `WakeupsSuffice`: `Spec => []TokenTellsStale` and
  `Spec => []NoMissedWakeup`, requests overlapping at will. `ReloadInv` follows each
  watcher (`Follows`): what it has loaded or serves has a token no larger than any
  that was used and is the active configuration when its token is the active one and
  not in doubt (`Current`), which `StoreTokens` keeps true: a step of the store keeps
  the active configuration, or raises its token, or puts all tokens used so far in
  doubt. And as long as nothing has told the watcher of a change, nothing is about to
  and the token is not in doubt (`Undisturbed`), it has loaded, or serves, the active
  configuration.

**ControlRequestsProofs** uses `StoreAssumption` and `ControlAssumption`: any edits,
activations and calls (finitely many), any clients and names.

- `ControlRunsStore`: `ControlSpec => StoreSpec`, so what holds of the revisions holds
  with client requests in between. `ControlTypeCorrect` is
  `ControlSpec => []ControlTypeOK`.
- `RevocationLasts` and `HandedOutKeyWorks`: `RevokedForever` and `CreatedKeyWorks`.
  `ClientInv` adds that a row read earlier has the key of the row now stored
  (`KeysKept`: keys never change, so writing back a stale row is harmless), and that
  the write of a revoke or create is already in the table when the client is read
  again (`RevokeWritten`, `CreateWritten`).
- `ClientsRefineMemory`: `ControlSpec => ClientsImplementMemory`, each write is a step
  of ControlMemory and every other step a stutter.

**StreamingOutputProofs** uses `StreamAssumption`: any runes, deltas, limits and
number of frames, and policy patterns that are not empty.

- `StreamTypeCorrect`, `DeliveredIsOnRecord`, `TruncationIsTold` and
  `WholeTextCounts`: `Spec => []TypeOK`, `[]DeliveredIsCollected`, `[]PartialIsTold`
  and `[]EventReflectsText`. `StreamInv` says where everything read is: until the
  stream is cut, the text of the written frames and the held one is the collected
  text, so what was written is a prefix of it. The text of a sequence of frames is a
  recursive function; that it exists, is typed and grows by one frame's text is shown
  by a least counterexample (`UpTo`, from the well-foundedness of the naturals).
- `SecretStays`: `Spec => []SecretNotDelivered`, for deltas of any length. `SecretInv`
  adds that the window is the newest runes of the collected text (`WindowIsNewest`) and
  that the frames that passed, the held one included, are `Secretless`: a secret ends
  only in one too long for the window. A secret that ends in a delta that fits lies in
  the window policy looks at (`EndInNewest`), so that delta did not pass.

**ConfiguredTrafficProofs** uses `TrafficAssumption` and `TextAssumption`: any
installation that the schema admits, any requests, any findings and verdicts (their
byte ranges may be empty, reversed or out of the text), any body, any characters, any
number of edits.

- `RowsConsistent`: `RowsInv`, every revision is `Consistent`: it has the column
  types, its references name rows of its own (`ForeignKeys`), and its names are unique.
  One lemma per request; that of `CreatePolicyBundle` is the long one, because the
  upsert deletes the detectors and rules of the bundle and inserts new ones, and no
  rule detector and no scope may be left over.
- `CloneServes`: `Spec => []CloneServesTheSame`. A clone is followed table by table
  (`Cloned`): if nothing is missing from it, or if no reference leaves the revision,
  every row of the clone is a row of the source with its IDs moved. Moving keeps IDs
  apart and their names, so references in the clone resolve to the names they had
  (`MovedApart`, `NameKept`); each table loads as it did (`ClonedRoutes`, `ClonedBundles` ...), and
  the clone compiles to the same configurations (`ClonedRuntime`). The first half of
  the property, that only a scope can keep a clone from being made, is
  `ContentsWhole` with the foreign keys.
- `LimitsServed`: `Spec => []LimitsAreServed`, from `ServedIsCompiled` and the refusals
  of BuildConfig: the configuration is compiled before it is served, and what compiled
  has every enabled limit.
- `TypeCorrect`: `Spec => []TypeOK`, with the actions that evaluation may yield.
- `DecisionStrictest`: `Spec => []DecisionIsStrictest`. The property tells the decision
  from the rows, the code from an index of compiled rules. The proof needs that an
  exchange was decided by the configuration that is served beside its rows
  (`DecidedInv`: whatever changes what is served ends the exchange) and that those rows
  are consistent (`ServedInv`), unique names included: the verdict's fallback is found
  by the name of the route (`RoutesToldApart`). Then: the snapshot's rules are the enabled rules of the
  active bundles, one per scope (`ServedRules`); the detector cache gives each detector
  what it finds itself (`FoundTheSame`, where `ToldApart`); index and scope admit the
  traffic that the stored scope covers (`ScopeServed`); the signal asks for what the
  verdict or its fallback does (`SignalAsks`); and taking the strictest in two steps
  yields the strictest of all (`StrictestFirst`).
- `RedactionExact`: `Spec => []RedactsExactly`. The same invariants say which spans were
  redacted, and `HitActions` that they are those of the rows (`DecidedSpans`). What is
  left is about the loops of TextRedaction, and each of their functions is shown to be
  typed and to obey its recursion (`FoldExists`, over `UpTo`). Three facts are carried
  through them: a segment holds its own bytes of the joined text, and its clipped spans
  cover those of its bytes that the body's spans do (`SpansInSegment`); merging sorted
  spans keeps the bytes that are covered and leaves a gap between neighbours
  (`SpansMerged`, from `SpanMerged`, which needs that the next span starts no earlier than the
  last merged one); and the text built so far, tokens aside, is the original up to the
  offset without the covered bytes (`Replaced`), which needs that the spans are in order and
  apart. The segments that RedactText refuses fail the whole redaction
  (`RedactionEnforced`), so a redacted body has none.
- `RevisionsRefineMemory`: `Spec => ImplementsMemory`. What ControlMemory keeps is told
  from the rows of the draft (or, if there is none, of the active revision) with their
  references turned into names (`StoredTold`). A clone tells the same
  (`ClonedMemory`), so an edit begins with the records the active revision had
  (`DraftMemory`). Each upsert then replaces the record of its key and keeps all others
  (`UpsertedMapping`, `UpsertedVerdictProvider`, `UpsertedLimit`, `UpsertedOverride`,
  `DeletedOverride`, `UpsertedBundle` with `OtherBundles`). A bundle stored in a draft
  that was there is the one submitted, because the names of its scopes were looked up in
  that draft and its directions survive both conversions (`ScopeKeptNames`,
  `SubmittedKept`); stored in a draft that its own request made, it has lost the routes
  and providers of its scopes, because no ID of one revision is an ID of another
  (`LookedUpNext`, `ScopeLosesNames`, `ForgottenKept`). An activation changes no record (`ActivatedMemory`), and what
  the gateway does is a stutter. `RowsConsistent` and the unique names it holds are
  what makes a name stand for one row throughout.

Only model-checked: liveness (`EventuallyDelivered`, `QueuedIsFlushed`, `ServeReturns`,
`GateRecovers`, `ServesActive`, `ReservationReleased`), because fairness and `ENABLED`
are out of the prover's reach.

## 6. Not modelled, and the plan

Not modelled:

- **Detection**: regular expressions and keyword matching are library calls on
  strings; what a detector finds is an input of ConfiguredTraffic and
  StreamingOutput.
- **Database and HTTP**: transactions are modelled, their SQL and the connection
  pool are not; upstream and verdict calls are their outcomes. The ClickHouse writer
  and the retention statement are such I/O.
- **CLI, configuration files, metrics, logging**: pure input and output. The
  single-part modes of the process run one of the children of serve mode.
- **Read-only control requests** and the decoding of bodies: they change nothing.
- **Web console**: a separate application over the control API.

What further work would take up: raw capture and the extraction of texts in
GatewayExchange, as far as they decide what an event holds.

# Formal models of ProxyAi

ProxyAi is a gateway between the users of an organisation and language-model
providers. A chat request is rate limited, checked for personal data and
against the organisation's policy, executed by a provider with retries and
fallback, streamed to the browser, logged, and accounted by asynchronous
billing and analytics jobs. The code is a Node.js/TypeScript back end
(Express, MongoDB, Redis, BullMQ) and a React front end.

This directory holds TLA+ modules translated from the source, TLC
configurations that check them on small instances, and TLAPS proofs. Paths
below are relative to `backend/src/` unless they start with `frontend/`,
`docs/` or `backend/`. `PROJECT.json` maps every definition to the lines it
models and lists the hazards the properties were written for.

## 1. Inventory

| Component | State | Operations | Made correct by |
|---|---|---|---|
| Idempotency service (`shared/idempotency`) | one Redis record per key: PROCESSING (300 s) or COMPLETED (3600 s), with the owner's request id | reserve, markProviderExecutionStarted, markCompleted, releaseBeforeExecution | one execution per key and record lifetime; nobody touches another request's record |
| Chat pipeline (`features/chat`) | handler control state, disconnect and shutdown flags, RequestLog, messages, queue jobs | POST `/chat/stream` from reservation to the last event | what ran is accounted exactly once; a tombstone implies a log row; `done` implies everything is stored; no path forgets its reservation; the handler ends, unless its client keeps a connection it does not read |
| Rate limits (`features/chat/chat-control.service.ts`, `features/auth/login-rate-limit.service.ts`) | Redis counters with expiry | count, reject, lose a reply | no more than a bounded burst passes; a lock-out ends |
| PII and policy (`features/pii`, `features/policy`) | none (pure) | detect, resolve overlaps, score, mask, decide | the text sent is masked exactly where it was reported |
| Provider health (`features/providers/provider-health.*`) | verdict in Redis with TTL | scheduled check, write, read, select | a provider is not refused for ever because of an old verdict |
| Circuit breaker (`features/providers/provider-circuit-breaker.ts`) | per provider: state, failure count, opening time, half-open trial count | execute (admit, record, give back), isOpen, reset | no leaked slot, no provider shut out for ever |
| Fallback, retry, Groq adapter (`features/providers`) | per request: candidate, attempt | ordered fallback, bounded retry, error classification | bounded calls, no call after an abort, no switch inside an answer |
| Job workers and ledgers (`features/billing`, `features/analytics`, `shared/async/bullmq.ts`) | BullMQ job state and lock, ledger document per scope | publish, deliver, acquire, apply, complete, release | COMPLETED is final and true; analytics work is exclusive |
| Aggregates, budget, anomalies (`features/billing`, `features/analytics`, `features/anomaly`) | RequestLog, rollup, daily documents with a watermark, alerts | aggregate, upsert, judge, budget gate | a rollup is a total of one moment; a day never goes back; alerts have a reason |
| Enqueue recovery (`features/recovery`) | recovery row per scope: state, attempts, next attempt | discover, list, read ledger, read queue, claim, publish, mark | nothing lost is written off; bounded publications; a request is eventually accounted or shown FAILED, or it is in one of two dead ends that are named |
| Messages and conversations (`features/messages`, `features/conversations`) | message pairs, conversation counters and titles | transactional append, list, rename, history | counts are right, pages neither skip nor repeat, history obeys the thresholds its request has loaded |
| Sessions (`features/auth`) | refresh tokens of a family, browser cookie | login, refresh, logout, revocation, public demo | one usable token per family, revocation is final, tabs do not end each other's session |
| Administration and audit (`features/admin`, `features/audit`, `features/users`) | users, settings, alerts, audit records | role, team, status, sessions, policy, retention, alert, export | an active administrator remains, settings in order, the audit log explains the state |
| API and worker lifecycle, health (`server.ts`, `worker.ts`, `shared/runtime`, `shared/async`, `features/health`) | startup stage, readiness, connections, streams, heartbeats | start, fail, signal, drain, force, disconnect, probe | no registered stream is left untold when the stores go, nothing silent or stopping is reported fit, shutdown ends if the dependencies answer |
| Browser session (`frontend/src/features/auth`) | status of each tab, shared cookie | bootstrap, timed refresh, retry, logout, demo | an outage is not a sign-out |
| Chat page (`frontend/src/features/chat`, `frontend/src/lib/streaming`) | mounted page, thread, running request, pending route | send, retry, create, navigate, log out, parse events | answers settle under their questions; the first answer survives its own navigation; chunking is invisible |
| Administration pages (`frontend/src/features/admin`) | rows, cursor, requests under way, mutation control | reload, load more, confirm, run, refresh | nothing shown twice; a change is sent once and called verified only when read back |
| Metrics, encryption, scripts, landing pages | - | - | - |

How they interact. The chat handler calls the idempotency service before and
after everything else, the admission controls and the fallback loop in the
middle, and the two queues at the end. Fallback loops of different requests
meet only in the breaker's records. Workers meet in the BullMQ lock, in the
ledger document and in the aggregate documents, which the API's budget gate
writes too. The recovery scan reads the RequestLog, the ledger and the queue,
and writes its own row and the queue. Administrators meet in MongoDB
transactions; what they change is read by chats under way, and the sessions
they revoke may be rotating. Tabs of one browser meet in the refresh-token
documents and in the cookie. A signal meets startup, streams and jobs.

What is hard. All coordination is by conditional updates of single documents
or keys, or by transactions that are retried; every step between two of them is
an await. A record may expire, a lock may be lost, a client may leave and a
process may die between any two steps, and each call may fail with or without
having taken effect. None of these orders is reached by the unit tests, which
run one handler at a time.

## 2. Modules

Each action is the code between two awaits of one handler. A failing call is a
disjunct of the action that makes it, with both outcomes (no effect, effect
with the answer lost). `Mutant:` definitions are plausible wrong versions of
the definition that follows them; no specification uses them.

**Idempotency** (`shared/idempotency/idempotency.service.ts`). `store` is the
Redis keyspace, `handle` the reservation object each caller holds. The three
Lua scripts are atomic; `Expire` is the TTL. `era[k]` counts the expiries of a
key, which lets properties speak of "between two expiries". Key derivation and
the fingerprint are the constants `KeyOf` and `FingerprintOf`.

**ChatRequest** (`features/chat/chat.service.ts`, `chat.controller.ts`) EXTENDS
Idempotency. `req[r].stage` names the await at which the handler of `r` is
suspended. `recordUsageAndComplete` is the five stages usage, messages,
billing, analytics, complete; its five call sites are `site`.
`accountingStarted` is `attempts > 0`. The admission controls are one
nondeterministic decision here, since no property of this module depends on
which of them refused (the inside is Admission); providers are the outcomes a
provider stream can have (the inside is ProviderFallback). An event the socket
does not take at once (`Writing`) is awaited until the client reads on or the
connection closes, as `writeSseEvent` does, with no timeout. `lost` is history:
the calls that threw.

**RateLimits, PromptPolicy, ProviderHealth, Admission**. RateLimits has the
counters of both services with their Lua scripts; time is a tick and a key
lives one tick longer than its window, as in Redis. `passed[k][n]` is history:
the requests let through by key `k` in the last `n` ticks. PromptPolicy is pure (its
loops and sorts are the operators of **Folding**, whose steps are functions):
a prompt is its length and the matches its text gives the six expressions, any
set of them; overlap resolution, offsets of masked ranges, score and decision
are the code's. ProviderHealth is the stored verdict and the jobs that write
it. Admission composes the three along `prepareChatStream` while an
administrator changes the thresholds.

**CircuitBreaker** (`features/providers/provider-circuit-breaker.ts`). A call
is admitted in one step and recorded in a later one, on the record it was
admitted with. Time is relative (`openFor`) and capped at the cooldown.
`trials` is history: who really is a trial of the present half-open period.

**ProviderFallback** (`provider-fallback.ts`, `provider-retry.policy.ts`,
`groq-provider.adapter.ts`) EXTENDS CircuitBreaker. `NormalizeGroqError` and
`ShouldRetry` are the classification tables; `atFault` is history: whom a
recorded failure speaks against.

**JobLedger** (`billing.worker.ts`, `analytics.worker.ts`, the repositories,
`shared/async/bullmq.ts`). BullMQ is external and modelled by what the workers
rely on: at-least-once delivery under a lock, attempts, redelivery of a stalled
job with `attemptsMade` unchanged, eviction of finished jobs. Losing the lock
does not stop the worker. Billing and analytics differ in `MayTakeOver`. It is
the abstract specification of the workers: the work itself is one step.

**Aggregates** (`features/billing`, `features/analytics`, `features/anomaly`)
EXTENDS JobLedger and takes that step apart: reading the log, upserting the
rollup, reading and writing one daily document per scope, telling the anomaly
queue, judging. The API's budget gate does the same beside the workers.
`LedgerProtocol` says the detailed workers implement JobLedger under the map
that calls every inner stage "apply".

**EnqueueRecovery** (`features/recovery`) EXTENDS JobLedger, so the rows are
recovered against a queue and workers that really move. The API side is
`LogRequest` and `ApiPublish`. A scan lists at most `RecoveryBatchSize` due rows,
and works through them one await at a time.

**Conversations** (`features/messages`, `features/conversations`,
`chat-context.ts`, the request-log list of `features/admin`) EXTENDS
PromptPolicy. Records take their time when they are built and appear when they
are committed; a commit whose outcome is unknown is tried again, and the unique
index on organisation, request and role refuses a second pair. Readers page
through the three lists meanwhile. A chat loads its settings in one step and
takes its history in a later one, with commits and changes of settings in
between.

**Administration** (`features/admin/admin.mutation.service.ts`,
`features/audit`, the models' validators, `auth.service.ts`). A mutation is a
transaction: snapshot, checks, effect, audit record, commit or conflict and
retry. Logins and rotations run outside it.

**Lifecycle** (`server.ts`, `worker.ts`, `shared/runtime`, `shared/async`,
`features/health`). One process, API or worker: the chain of startup stages, and
`shutdown()` beside whatever is left of it. A request of the API is *admitted* by
the readiness check (`app.ts:29`) and *registers* its stream some awaits later
(`chat.controller.ts:49`), whatever has happened to the process meanwhile; one
whose client has left by then is a `stray`. `held` are the clients a closing
HTTP server waits for, those of the worker's metrics server included. ioredis,
mongoose, BullMQ and node:http are external: their calls end at any time, either
way, or not at all.

**RefreshSession** (`features/auth`) models one token family: rotation, logout,
administrative revocation, the cookie of the browser, grace and expiry.
**ClientSession** (`frontend/src/features/auth`) EXTENDS it with the status of
each tab and the requests whose answers it waits for.

**ChatWorkspace, AdminPages, SseReader** (`frontend/src`). ChatWorkspace is the
chat page as React runs it: every route change mounts a new instance, handlers
of the old one live on. AdminPages is a paged list and the control that changes
one of its records. SseReader is the parser, fed in chunks; its reference
definition reads the same text in one piece, character by character.

**MC modules** give the constants values and, where one run covers several
parts that share no state, choose one of them at the start (`focus`), so that
the state spaces add instead of multiplying. **...Proofs modules** hold
theorems; one of them may be about several modules that share no state.

Composition is by EXTENDS. ChatRequest and ProviderFallback drive Idempotency and
CircuitBreaker by conjoining the lower module's actions, so they keep its
protocol by construction, and nothing is claimed about that beyond the invariants
that are checked and proved of the composition. Aggregates takes the steps of
JobLedger apart; that it still implements it, under a refinement mapping, is the
property `LedgerProtocol`.

## 3. Runs

A property that is a conjunction of named parts is listed with its parts; TLC
checks them together.

| Run | Instance | Shows |
|---|---|---|
| `chat` | an original and a duplicate of one key, 2 faults, 1 expiry, clients that stop reading | `AccountingExact`: every execution is accounted, once, with one row per era; the one exception it allows is a second BLOCKED row when the key was released after a failed `markCompleted`. `SettledInOrder`: a tombstone, a job or a `done` only after what it stands for. `ReservationSound`: one execution per era, and no late call on another request's record. `NoKeyLeftBehind`: a handler that has ended owns a PROCESSING record only if one of its own calls failed |
| `fallback` | 2 requests, 2 candidates, 2 attempts, every error kind; or 4 calls of one circuit with resets, threshold 2, cooldown 2, 2 trials | `FallbackSound`: at most attempts x candidates calls, and only availability errors or aborts open a circuit. `CircuitSound`: counters, timestamps and slots. `CallsStayInOrder`: no call after an abort, no switch inside an answer. `FallbackEnds`, `NeverWedged`: if the providers' calls settle |
| `aggregates` | 2 requests with known, unknown or no usage, 2 workers, billing, analytics or both, 1 to 2 faults | `TotalsExact`: the rollup is the total of a prefix of the log whose usage is known, and the budget gate reserves for the rest. `DailyNeverGoesBack`: a day's document never loses a request. `AlertsExact`: a completed job has told the anomaly queue, and an alert is deserved. `LedgerSound`, `CompletedIsFinal`, `LedgerProtocol`: the claims, with crashes and stalls |
| `operations` | 2 administrators and a team lead, 2 transactions at once, 3 audit records, 1 audit fault; or 1 billing scope, 2 overlapping scans, 2 workers, 2 faults | `ActiveAdminRemains`, `ConfigurationConsistent` (thresholds in order, no active team lead without a team), `AuditExplainsState`: replaying the audit log gives the state. `RecoverySound`: a COMPLETED row is never wrong, at most three publications, however the scans overlap |
| `recovery_live` | 1 analytics scope, 1 scan, 1 worker, 3 faults of all eight kinds | `PublicationRecovered`: a logged request is eventually accounted or shown FAILED, or it stays in one of two dead ends: an abandoned claim (the ledger says PROCESSING and no worker works under it, `AbandonedClaim`) or a row with no attempt left (`AttemptsSpent`) |
| `client` | 3 requests of one browser; or 2 tabs with 2 requests; 3 records in pages of one; streams of up to 7 characters in every chunking | `RotationSound`: one usable token, revocation is final. `TabsKeepSession`, `OutageIsNotSignOut`: neither a lost race nor an outage ends a session. `DisplayedOnce`. `ControlHonest`: a control that asks for confirmation sends a change once for each confirmation (one without sends with every click, and nothing is said of it), and both call it verified only after a later read. `FramesSurviveChunking`: the parser finds the events of the reference reader |
| `admission` | one address, account and user or two users, windows of 2 ticks, 2 checks, every prompt of 4 characters with up to 3 matches | `BurstBounded`: no window of time lets through more than a fixed-window counter may. `LockoutEnds`. `MaskingExact`: what is masked is what was reported, and ranges do not overlap. `OutageVerdictExpires`: an UNHEALTHY verdict does not outlive the outage for ever |
| `conversations` | 3 requests, 2 conversations, 1 reader, pages of 1; or the chat page with 3 sends, 2 mounts, 2 conversations | `PagesExact`: a record that was there all the time is shown exactly once. `CountsMatchMessages`: also after a commit of unknown outcome. `HistoryHonoursPolicy`: nothing goes to the provider in history that the thresholds loaded by this request would block or mask (a change made after they were loaded takes effect with the next request). `WorkspaceSound`: answers settle under their questions, and the navigation a send asks for does not abort it |
| `lifecycle` | API or worker, 2 managed workers, 2 clients, freshness 2; or 1 chat request with 4 faults | `OrderlyShutdown`: when the stores go, every stream that registered with its client there has ended or been told and no request of the API has a client any more; a completed shutdown has disconnected everything or says so in its exit code. `HealthHonest`. `ShutdownCompletes`: if the dependencies settle, and but for a client that holds the worker's metrics server. `HandlerEnds`: if the calls settle, and but for a client that keeps an unread connection |

Three runs end in a violation: there the code does not do what the repository
says of it.

| Run | The repository says | The code does |
|---|---|---|
| `daily_collision` | backend/tests/analytics.worker.test.mjs:128, "distinct jobs update aggregates while duplicates have no extra effect" | two workers find no daily document; the later create collides, the error is swallowed (`analytics.repository.ts:321`), the job completes and its request is missing from the day until the scope is computed again |
| `recovery_replay` | docs/03_TDD.md:1681, a terminal failure "becomes `FAILED` and is not automatically replayed" | the marks update a row in whatever state it is (`enqueue-recovery.repository.ts:202`): with two scans, of a deployment or a stalled scan job, the slower one writes ENQUEUED over FAILED, and a later scan claims an attempt again |
| `session_revocation` | docs/05_OPENAPI_SPEC.md:1428, the endpoint "revokes every active refresh session" | a rotation that has used up the old token inserts the new one after the revocation has looked for tokens (`auth.repository.ts:131`, `auth.service.ts:749`) |

### Further configurations

These are smaller questions about the same modules. Each configuration checks
one statement of the repository and TLC finds it violated; run it with the
module named.

| Configuration, module | The repository says | The code does |
|---|---|---|
| `MCChatDisconnect`, MCChatRequest | docs/05_OPENAPI_SPEC.md:1103, "Finalize a safe `INTERRUPTED` request log." | a client that leaves while the first chunk is awaited is logged FAILED (`chat.service.ts:400`) |
| `MCCircuitTrials`, MCProviderFallback | backend/tests/provider-circuit-breaker.test.mjs:160, "HALF_OPEN allows only the configured concurrent trial" | a call from before the opening that fails uncounted gives the running trial's slot away |
| `MCFallbackCancel`, MCProviderFallback | docs/05_OPENAPI_SPEC.md:1105, "Do not treat client cancellation as a provider failure for circuit-breaker purposes." | APIUserAbortError is classified as a retryable timeout and counted |
| `MCRecoveryCrash`, EnqueueRecovery | docs/08_TESTING_STRATEGY.md:1062, "Job retries or becomes visible as failed" | the redelivery skips the dead worker's PROCESSING document; job completed, work undone |
| `MCRecoveryExhausted`, EnqueueRecovery | docs/03_TDD.md:1681, "three failed publication attempts becomes `FAILED`" | if the mark itself fails the row has no attempt left and stays open |
| `MCRollupOverwritten`, MCAggregates | docs/04_DATABASE_DESIGN.md:674, the billing worker "aggregates all trusted `RequestLog` records" and upserts the totals | a budget check that read the log before a request was billed writes its older sum after the worker's (`billing.repository.ts:185`, `billing.service.ts:45`); the rollup lacks the request until it is computed again |
| `MCListenerLeak`, Lifecycle | PROJECT_MEMORY.md:457, "Graceful shutdown closes HTTP traffic before disconnecting MongoDB." | a listener still opening when the signal comes is not closed |
| `MCConcurrentRefresh`, MCClient | additional docs/PROXIAI_FULL_REPOSITORY_AUDIT_AND_FIX_PLAN.md:196, "A dedicated concurrency error is not treated like a terminal invalid-token error." | the browser treats every 401 of a refresh alike; the tab that lost the race shows the login screen, although the session lives |
| `MCRouteChange`, ChatWorkspace | docs/15_PHASE.md:572, "route changes abort the active stream" | a send that still waits for its new conversation has nothing to abort, and streams after the page is gone |

Limits met while modelling that no run is about:

- A client that holds a request of the worker's metrics server keeps the worker
  from shutting down: `closeWorkerMetricsServer` waits without grace period or
  deadline (`worker-metrics-server.ts:98`). A client that keeps its stream open
  and unread keeps the handler waiting, deaf to the abort of a shutdown, until
  the connection is closed (`chat.sse.ts:38`).
- A request whose client leaves between the readiness check and the registration
  of its stream is told by nobody, and may run while the stores are being
  disconnected (`app.ts:29`, `chat.controller.ts:49`).
- A reserve script that ran although its answer was lost leaves a record nobody
  owns; retries of the client are refused until it expires, 300 s later.
- Rows whose third attempt died with its scan stay open and due. A hundred of
  them are a whole batch (`enqueue-recovery.service.ts:34`), and no other row of
  the organisation is listed while they are the longest due.
- Chat counters admit every request in the one tick in which PTTL is 0
  (`chat-control.service.ts:118`); a login whose second counter fails has still
  counted on the first.
- A detection dropped for an overlapping one of higher precedence is not masked
  where it reaches beyond that one (`pii-detector.ts:169`).
- A commit that arrives late sets `lastMessageAt` back
  (`message.repository.ts:108`), and a message built before but committed after
  a reader has passed its place is not on any page it reads.
- docs/04_DATABASE_DESIGN.md:282 says role changes revoke refresh-token
  families; `changeUserRole` does not. A policy patch that leaves the thresholds
  out of order is refused by the model's validator and answered as 503
  AUDIT_UNAVAILABLE.
- A startup that fails after shutdown began reports FAILED over STOPPING, and
  the worker's startup does not look at `shutdownStarted` (`bullmq.ts:363`).
- A refresh answered after a logout sets the tab to authenticated again, and
  starting the public demo clears the refresh cookie all tabs share
  (`demo-admin.controller.ts:62`).
- A `done` event followed by a broken body or an abort marks a completed answer
  as failed and retryable. A prompt is lost when its conversation cannot be
  created. A prompt sent before the pending `router.replace` of the one before
  takes effect is aborted by it.
- A page that answers after a reload leaves a gap in the list
  (`admin-dashboard.tsx:236`), and a reload of the effect that answers late shows
  older rows under "Change saved and verified."

### Bounds

- Two requests of one key make every two-party race on a record; the expiry
  lets the first one's late calls meet the second one's record. More requests
  are covered by the proofs.
- `MaxFaults` bounds failing calls, disconnects, aborts, stalls and crashes.
  Two reach a failure and a failure of its handling; three (`recovery_live`, of
  every kind, failing acquires, releases and scans included) a lost claim or a
  lost mark after a failed publication; four (the handler in `lifecycle`) a
  failure at each level of error handling. `MaxAuditFaults` is one failing audit
  write or lost commit reply per behaviour.
- Four calls of a circuit are two trials, a call left over from before the
  opening and a newcomer. The thresholds are smaller than the code's 5 failures
  and 30 s, which only shortens the way to a state; the proofs hold for every
  policy. Two attempts instead of three leave one retry and one last attempt.
- Two requests and two workers let a read be overtaken by a write of either
  kind; outcomes are one of each sort the queries tell apart. Rollup and daily
  documents share nothing but the log, so a behaviour follows one of them.
- `JobAttempts`, `MaxPublications` and `MaxStalls` have the code's values
  (3, 3, BullMQ's default 1), except two attempts in `aggregates`.
  `RecoveryBatchSize` is 1, the smallest batch; with one scope it never leaves a
  row out, and what a full batch does is a limit named above, not a run.
- Two transactions at once are all that a write conflict needs. Each behaviour of
  `operations` is about recovery or takes its mutations from one group (users, settings, sessions, alerts),
  whose documents the others do not touch.
- Prompts of four characters hold every way in which three ranges can overlap,
  touch or nest. Bodies of seven characters hold two frames with either kind of
  line break, and a chunk border at every place.
- Three sends are a question, a second one that fails, and its retry. One page
  per record makes every change of place cross a page border.
- Symmetry is used only in runs without liveness, over workers, scans,
  transactions or browser requests, which no definition tells apart.
- Deadlock checking is off where a finite set of requests or faults is used up
  and the system may stop.

### Fairness

The code does not bound the calls it awaits: `redis.ts:21` sets no command
timeout, `mongo.ts:60` no socket timeout, and the provider's timeout covers the
head of a response, not its stream. So that these calls settle is not part of
the specifications but the premise of each property that needs it, by name:
`CallsSettle` in `HandlerEnds` and `NeverWedged`, `CallsSettle` and `StreamsEnd`
in `FallbackEnds`, `DependenciesSettle` (QUIT, disconnect, queue and worker
closes, running jobs, probes) in `ShutdownCompletes`. What remains in `Fairness`
and `LifeFairness` are steps the process takes by itself: going on after an
answer, its own timers, the close event of a connection that is gone, MongoDB's
server selection, which does time out; in the breaker, that time passes. Nothing
is assumed of clients: that they read, leave or send anything; the API's shutdown
forces their connections closed, the worker's does not, and `ShutdownCompletes`
and `HandlerEnds` say so.

`recovery_live` and `admission` ask for liveness across many jobs and do assume
that workers' and scans' calls settle (weak fairness on their steps), that time
passes (ticks, `BecomeDue`), that a waiting job is taken when a worker keeps
becoming free (strong fairness on delivery), and that BullMQ runs its stalled
check and evicts finished jobs under later traffic. Their promises are as good
as these assumptions. There is no fairness on expiry, faults, aborts,
disconnects or signals.

## 4. Proofs

All theorems hold for every value of the constants that satisfies the named
assumptions of the modules (sets of any size, positive limits).

- **ChatRequestProofs**. *The reservations*: `ReservationIsSound`, from
  `AtMostOneExecution`, `ReservationKept` and `IdempotencyTypes`. That two
  requests are never admitted in one era is not inductive: one needs to know that
  the record of an admitted request, in its own era, is its own
  (`ReservationNotStolen`), so a second `SET NX` fails, and that no reservation is
  from a future era, so an expiry separates. `IInv` is the conjunction. *The
  pipeline*: `PipelineReservationIsSound` carries this over, by the lemma that a step
  of the pipeline is one of the reservations or leaves them alone.
  `NoKeyIsLeftBehind` needs to know, stage by stage, that a handler none of whose
  calls has failed still holds its reservation where it will release or complete
  it (`KeysHeld`, `RecordHeld`). `AccountingIsExact` and `SettlesInOrder` rest on `PipelineInv`, which says stage
  by stage what a handler has done so far (`HandlerOK`) and what stays true when
  it has died (`LogKept`, `SettledHolds`).
- **ProviderProofs**. *The breaker*: `CircuitIsSound`, from `SlotsNeverLeak`,
  `OpenCircuitsCool` and `ClosedIffBelowThreshold`. `CInv` adds that trials are in
  flight on this very record, which makes giving a slot back remove a trial from
  the history; the cardinality steps rest on finite `Calls`. *The loop*:
  `FallbackCircuitsSound` states it of the loop's specification. `FallbackIsSound` bounds the calls by a budget that
  every stage keeps (`FInv`): maxAttempts calls for each candidate given up and
  one for each attempt at the present one. `FallbackCallsInOrder` is the action
  property.
- **JobLedgerProofs**: `LedgerIsSound`, from `AnalyticsIsExclusive` and
  `CompletedImpliesApplied`, and `CompletedNeverUndone` (an action property).
  `LInv` adds `ClaimsOK`: an analytics claim is held under a document nobody
  deletes, and a worker at `complete` has applied; and `QueueOK` for the lock and
  the attempts.
- **AggregatesProofs**: `AggregatesRefineLedger` is the refinement
  `LedgerProtocol`; `AggregatesLedgerSound` and `AggregatesCompletedIsFinal`
  follow from it and the module above. `TotalsAreExact`, `AlertsAreExact` and
  `DailyOnlyGrows` rest on `AInv`: what holds of the stored total (it is that of a
  prefix of the log, and a prefix keeps its answers when the log grows) holds of
  every value on its way into a document as well, in the workers, the budget gate
  and the pending verdict. The sums are folds; what the proof needs of them (a
  union of disjoint sets, a pointwise larger function) is proved by considering a
  smallest set for which it fails. The proofs use that a reservation is positive
  and that the markers for no value and for the organisation's own scope are no
  value and no user.
- **OperationProofs** holds three parts that share no step. *Recovery*:
  `RecoveryIsSound` and `RecoveryLedgerSound`, for any number of scans. A scan acts on
  what it read some awaits ago: a document it saw COMPLETED still is, by the
  ledger's theorem. That all scans together publish a scope three times needs the
  publications still to come to be counted (`PublicationsClaimed`). *Mutations*: `AdminRemains`, `ConfigurationIsConsistent`,
  `AuditIsComplete`. Each mutation is sound on its snapshot (`EffectSound`), and one
  that changes a user or a setting writes the organisation's document, so at its
  commit the snapshot is still the database or the commit conflicts
  (`SnapshotSound`). *Pages*: `RecordsShownOnce` and `ControlIsHonest`. A page is cut
  by rank, and in a finite set with a strict order every rank is taken once
  (`EveryRank`); the control's verdict needs that the read it waited for began
  after the change was saved (`PagesInv`). *Processes*: `ShutdownIsOrderly` and
  `HealthIsHonest`. Not inductive: that no registered stream is live and untold
  once the stores go needs that a live stream has its client, that only the API
  has clients after the worker's stages, and that nobody waits at a closed or
  forced server (`StreamsHaveListener`); and that the stores
  stay gone, once the last step of the shutdown is under way, is `ConnectsBeforeExit`.
  `SilenceIsCounted` ties the age of an answer to the silence of the connection.
- **ClientProofs**. *Rotation*: `RotationIsSound`, from `RotationHasOneWinner` and
  `RevokedForGood`. Between the claim and the insert no token is usable, and two
  such rotations would insert two tokens; `RotationHoldsPlace` says that a rotation
  under way takes the place of the usable token. `TabsKeepTheirSession`: as long
  as nothing has ended the session, the usable token is in the cookie, on its way
  to it, or about to be stored (`TabsInv`). *Tabs*: `ClientRotationSound` and
  `OutagesKeepTabs`; a tab whose session is intact still holds a document that
  would be believed (`ClientInv`). *Chat page*: `WorkspaceIsSound`, from
  `WorkspaceInv`: a turn stands at one place of one thread, and a pending
  navigation belongs to the mounted page.
- **AdmissionProofs**. *Loops and sorts*: the pure functions are loops over sorted
  lists, written with the folds of Folding. `FoldRuns` and `FoldBackRuns` give the
  values a loop has after each element, `SortedList` what a sort returns. They need
  an induction, and the library's theorems for one take an operator as a parameter;
  here it is a fact about sets of numbers (`CountUp`, `CountDown`), from the
  library's theorem that `<` on the naturals is well founded, whose parameter is a
  set of pairs. *Windows*: `WindowsBounded`. `KeyInv` splits what passed a key at the
  beginning of the present window: what passed since is part of the count, and what
  passed before, within one window length, is what one earlier window let through;
  each is at most the limit. *Prompts*: `MaskingIsExact`. The greedy selection keeps
  spans that do not overlap and drops one only for a span it overlaps that takes
  precedence (`Greedy`); in the order of their positions they are apart, so no two
  ranges merge (`NothingMerged`). Replacing from the last range leaves what stands
  before a range where it was, and the lengths of the earlier placeholders add up to
  the offset that is reported (`OffsetsReported`, `TextMasked`). It assumes of
  a prompt finitely many matches inside its text and none empty
  (`PromptAssumption`), and of the placeholders lengths (`PlaceholderAssumption`).
- **ConversationProofs**. *Store*: `CountsAreExact` and `PagesAreExact`. A pair is
  added only to a request without messages, and two items of a list never share an
  id (`StoreInv`). What a traversal has shown ascends, the cursor is the last of it,
  and an item of the beginning has moved, was shown or is behind the cursor
  (`Traversal`); a fetch returns the first items behind the cursor and leaves none
  out (`FetchedFirst`). *History*: `HistoryIsHonoured`. An answer is later than its
  question, in the same conversation and kept alike (`PairsShaped`), so a pair among
  the selected messages is a request's own two records (`PairRecords`); the loop
  takes the last approved pairs, in order, and counts their tokens as the property
  does (`TakenFrom`); and what was taken stays as it was while the answer streams,
  because the store never adds to a pair (`HistoryKept`). *Stream*: `FramesSurvive`.
  Normalising and splitting is one pass over the characters, in which a line feed
  takes back the carriage return before it (`FramedRuns`), and what the buffer holds
  is left alone by another pass (`Settled`), so chunk by chunk gives what one pass
  over the body gives. The pass goes along with the reference: the lines of the open
  frame are the lines of the reference's event (`CharacterRead`).

Every safety property the passing runs check is a theorem, the action
properties and the refinement included.

Model-checked only:

- everything under fairness, premises included, which the prover does not do: `HandlerEnds`,
  `NeverWedged`, `FallbackEnds`, `PublicationRecovered`, `LockoutEnds`,
  `OutageVerdictExpires`, `ShutdownCompletes`;
- the properties of the three runs that end in a violation and of the further
  configurations, which are false.

## 5. Not modelled

- Metrics, logging, landing pages and markup: nothing in the system reads them.
- Encryption, password hashing and access-token signatures: cryptographic
  primitives. Their calls appear as outcomes (a mismatch, a failing signature).
- Scripts: one-shot commands outside the running system.
- The text matching of the PII detectors and their validators is out of TLC's
  reach; what they find is an input.
- Non-streaming completion repeats the streaming loop with another call.
- The administration's summary and billing views, metrics of latency and cost,
  and the capability table of the providers: reads and static data.
- In the front end: renaming a conversation, scrolling, copying, the routing
  panel and all wording.

## 6. Plan

Order so far: duplicate protection and the chat pipeline first, because a
mistake there bills twice or not at all; then the provider side, accounting,
administration, the processes and the browser; then the proofs, in the same
order.

| Step | Modules | Aim |
|---|---|---|
| done | Idempotency, ChatRequest, CircuitBreaker, ProviderFallback, JobLedger, EnqueueRecovery, RefreshSession | section 3 |
| done | Aggregates (refines JobLedger), Admission with RateLimits, PromptPolicy and ProviderHealth, Conversations, Administration, Lifecycle, ClientSession, ChatWorkspace, AdminPages, SseReader | section 3 |
| done | ChatRequestProofs, ProviderProofs, JobLedgerProofs, AggregatesProofs, ClientProofs, OperationProofs, AdmissionProofs, ConversationProofs | section 4: every safety property and the refinement |
| later | Aggregates, EnqueueRecovery | an abstract specification of the accounting of one request, above recovery and workers |

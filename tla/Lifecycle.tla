----------------------------- MODULE Lifecycle -----------------------------
(***************************************************************************)
(* Starting and stopping of the two processes of the backend: the API      *)
(* (server.ts, api-startup.ts, http-server-shutdown.ts) and the worker     *)
(* (worker.ts, async/runtime.ts, the managed workers of bullmq.ts and      *)
(* their heartbeat).  Start-up is a chain of awaited stages; a signal may  *)
(* arrive at any await and then shutdown() runs beside the rest of the     *)
(* chain.  Both processes end in the same disconnectInfrastructure().      *)
(*                                                                         *)
(* `listener' is the HTTP server of the API and the metrics server of the  *)
(* worker.  BullMQ, ioredis, mongoose and node:http are external: an       *)
(* awaited call of theirs ends at any time, with any of its outcomes.      *)
(***************************************************************************)
EXTENDS Naturals, FiniteSets

CONSTANTS Worker,     \* the managed BullMQ workers of the worker process
          Client,     \* clients of the listener, each with one request at a time
          Freshness   \* freshnessMs, in heartbeat intervals

ASSUME LifecycleAssumption == /\ IsFiniteSet(Worker) /\ IsFiniteSet(Client)
                              /\ Freshness \in Nat \ {0}

VARIABLES
  kind,      \* which process this is: "api" or "worker"
  start,     \* the stage startApi()/startWorker() awaits, or how it ended
  runtime,   \* runtimeState of api-runtime-state.ts
  exiting,   \* shutdownStarted
  down,      \* the await of shutdown(): "idle", "http", ..., "done"
  listener,  \* "none", "opening", "open", "closing", "closed"
  mongo,     \* "off", "connecting", "up"
  redis,     \* status of the shared client
  worker,    \* state of every managed worker
  job,       \* the workers whose processor is running
  held,      \* clients whose request still holds a connection of the listener
  streams,   \* the chat request of every client: "none", "entering" between
             \* requireApiRuntimeReady and the handler, then "live", "aborted" once
             \* its controller was told, "stray" if its client had left before
  forced,    \* the grace period of closeHttpServerWithinGrace is over
  clean,     \* no close or disconnect failed so far
  exitCode,
  beat       \* the heartbeat of every managed worker

processVars == <<kind, start, runtime, exiting, exitCode>>
resourceVars == <<listener, mongo, redis, held, streams, forced, clean>>
workVars == <<worker, job, beat>>
lifeVars == <<processVars, resourceVars, workVars, down>>

StartEnded == {"started", "returned", "failed"}
IsApi == kind = "api"

\* A heartbeat: was it ever started, is it running, did its last probe fail, how
\* many intervals ago did a probe succeed (Freshness + 1 stands for "longer, or
\* never"), is a probe in flight; and, of the worker's own Redis connection, does
\* it answer at present and for how many intervals has it not.
NewBeat == [started |-> FALSE, running |-> FALSE, failed |-> FALSE,
            age |-> Freshness + 1, probing |-> FALSE, link |-> TRUE, quiet |-> 0]

\* Mutant: getHealth() trusts the last outcome and forgets its age.
Healthy_Ageless(b) == b.running /\ ~b.failed /\ b.age <= Freshness + 1

Healthy(b) == b.running /\ ~b.failed /\ b.age <= Freshness

\* getManagedWorkerHealthSummary: what /healthz of the worker answers.
ManagedHealthy == LET managed == {w \in Worker : worker[w] \in {"starting", "running"}}
                  IN  managed # {} /\ \A w \in managed : Healthy(beat[w])

\* getReadiness: what /health/ready of the API answers.
Readiness == mongo = "up" /\ redis = "ready" /\ runtime = "READY"

LifeInit ==
  /\ kind \in {"api", "worker"}
  /\ start = "encryption" /\ runtime = "STARTING" /\ exitCode = 0
  /\ exiting = FALSE /\ down = "idle"
  /\ listener = "none" /\ mongo = "off" /\ redis = "wait"
  /\ worker = [w \in Worker |-> "none"] /\ job = {}
  /\ held = {} /\ streams = [c \in Client |-> "none"] /\ forced = FALSE /\ clean = TRUE
  /\ beat = [w \in Worker |-> NewBeat]

----------------------------------------------------------------------------
(* shutdown() and disconnectInfrastructure(), up to their first await.     *)

\* disconnectBullMq takes its snapshot of the managed workers, and close() of
\* each stops the heartbeat before its first await.
CloseBullMq ==
  /\ down' = "bullmq"
  /\ worker' = [w \in Worker |-> IF worker[w] \in {"starting", "running"}
                                 THEN "closing" ELSE worker[w]]
  /\ beat' = [w \in Worker |-> IF worker[w] \in {"starting", "running"}
                               THEN [beat[w] EXCEPT !.running = FALSE] ELSE beat[w]]

\* closeHttpServer()/closeWorkerMetricsServer(): a listener that is not yet open
\* is not known to the module variable and is passed over.
CloseListener ==
  IF listener = "open"
  THEN /\ listener' = "closing" /\ down' = "http"
       /\ UNCHANGED <<worker, beat>>
  ELSE /\ UNCHANGED listener
       /\ CloseBullMq

BeginShutdown ==
  /\ exiting' = TRUE
  /\ runtime' = IF IsApi THEN "STOPPING" ELSE runtime
  /\ CloseListener

\* process.once("SIGTERM" | "SIGINT").
Signal ==
  /\ ~exiting
  /\ start # "encryption"
  /\ BeginShutdown
  /\ UNCHANGED <<kind, start, exitCode, mongo, redis, held, streams, forced, clean, job>>

\* A stage rejects: markApiRuntimeFailed, exitCode 1, and shutdown() unless it
\* is already running.
StartupFails ==
  /\ start' = "failed" /\ exitCode' = 1
  /\ IF exiting
     THEN /\ runtime' = IF IsApi THEN "FAILED" ELSE runtime
          /\ UNCHANGED <<exiting, listener, down, worker, beat>>
     ELSE BeginShutdown

----------------------------------------------------------------------------
(* startApi() and startWorker().                                           *)

BeginConnecting == /\ start' = "connecting"
                   /\ mongo' = "connecting" /\ redis' = "connecting"

InitializeEncryption ==
  /\ start = "encryption"
  /\ IF IsApi
     THEN start' = "listener" /\ listener' = "opening" /\ UNCHANGED <<mongo, redis>>
     ELSE BeginConnecting /\ UNCHANGED listener
  /\ UNCHANGED <<kind, runtime, exiting, exitCode, held, streams, forced, clean, workVars, down>>

EncryptionFails ==
  /\ start = "encryption"
  /\ StartupFails
  /\ UNCHANGED <<kind, mongo, redis, held, streams, forced, clean, job>>

\* The API asks isShutdownRequested() once the listener is open; the calls of
\* connectMongo and connectRedis follow without an await in between.
ListenerOpens ==
  /\ start = "listener"
  /\ listener' = "open"
  /\ IF exiting THEN start' = "returned" /\ UNCHANGED <<mongo, redis>>
                ELSE BeginConnecting
  /\ UNCHANGED <<kind, runtime, exiting, exitCode, held, streams, forced, clean, workVars, down>>

\* Promise.all of the two connections resolves with the later one.
Joined(ready) == IF start = "connecting" /\ ready THEN "readiness" ELSE start

MongoConnects ==
  /\ mongo = "connecting"
  /\ mongo' = "up" /\ start' = Joined(redis = "ready")
  /\ UNCHANGED <<kind, runtime, exiting, exitCode, listener, redis, held, streams,
                 forced, clean, workVars, down>>

\* Promise.all rejects with the first failure; a later one goes unnoticed.
MongoRefuses ==
  /\ mongo = "connecting"
  /\ mongo' = "off"
  /\ IF start = "connecting" THEN StartupFails
     ELSE UNCHANGED <<start, exitCode, runtime, exiting, listener, down, worker, beat>>
  /\ UNCHANGED <<kind, redis, held, streams, forced, clean, job>>

RedisConnects ==
  /\ redis = "connecting"
  /\ redis' = "ready" /\ start' = Joined(mongo = "up")
  /\ UNCHANGED <<kind, runtime, exiting, exitCode, listener, mongo, held, streams,
                 forced, clean, workVars, down>>

\* connect() rejects while retryStrategy goes on trying in the background.
RedisRefuses ==
  /\ redis = "connecting"
  /\ redis' = "retrying"
  /\ IF start = "connecting" THEN StartupFails
     ELSE UNCHANGED <<start, exitCode, runtime, exiting, listener, down, worker, beat>>
  /\ UNCHANGED <<kind, mongo, held, streams, forced, clean, job>>

\* getRedisReconnectDelay: a later attempt succeeds, or the attempts run out.
RedisRetries ==
  /\ redis = "retrying"
  /\ redis' \in {"ready", "end"}
  /\ UNCHANGED <<processVars, listener, mongo, held, streams, forced, clean, workVars, down>>

\* assertEncryptionStorageReady reads MongoDB.  Its success creates the queues.
StorageReady ==
  /\ start = "readiness" /\ mongo = "up"
  /\ start' = "queues"
  /\ UNCHANGED <<kind, runtime, exiting, exitCode, resourceVars, workVars, down>>

\* The API asks isShutdownRequested() again before it is READY; the worker goes
\* on to its schedulers and never asks.
QueuesReady ==
  /\ start = "queues" /\ redis = "ready"
  /\ IF IsApi
     THEN IF exiting THEN start' = "returned" /\ UNCHANGED runtime
                     ELSE start' = "started" /\ runtime' = "READY"
     ELSE start' = "schedule" /\ UNCHANGED runtime
  /\ UNCHANGED <<kind, exiting, exitCode, resourceVars, workVars, down>>

\* A stage that awaits a port, MongoDB or Redis rejects.
StageFails ==
  /\ start \in {"listener", "readiness", "queues", "schedule", "metrics"}
  /\ StartupFails
  /\ UNCHANGED <<kind, mongo, redis, held, streams, forced, clean, job>>

\* The job schedulers are stored; every managed worker is created and run.
SchedulesReady ==
  /\ start = "schedule" /\ redis = "ready"
  /\ start' = "workers"
  /\ worker' = [w \in Worker |-> "starting"]
  /\ UNCHANGED <<kind, runtime, exiting, exitCode, resourceVars, job, beat, down>>

\* waitUntilReady resolves and start() starts the heartbeat, whose first probe
\* is sent at once; close() may be under way.
WorkerReady(w) ==
  /\ worker[w] \in {"starting", "closing"} /\ ~beat[w].started
  /\ beat' = [beat EXCEPT ![w].started = TRUE, ![w].running = TRUE,
                          ![w].probing = TRUE]
  /\ worker' = [worker EXCEPT ![w] = IF @ = "starting" THEN "running" ELSE @]
  /\ IF start = "workers" /\ \A v \in Worker : beat'[v].started
     THEN start' = "metrics" /\ listener' = "opening"
     ELSE UNCHANGED <<start, listener>>
  /\ UNCHANGED <<kind, runtime, exiting, exitCode, mongo, redis, held, streams, forced,
                 clean, job, down>>

\* waitUntilReady rejects: the worker closes itself and start() throws.
WorkerFails(w) ==
  /\ worker[w] \in {"starting", "closing", "closed"} /\ ~beat[w].started
  /\ start = "workers" \/ worker[w] = "starting"
  /\ IF start = "workers" /\ ~exiting
     THEN StartupFails
     ELSE /\ worker' = [worker EXCEPT ![w] = IF @ = "starting" THEN "closing" ELSE @]
          /\ start' = "failed" /\ exitCode' = 1
          /\ UNCHANGED <<runtime, exiting, listener, down, beat>>
  /\ UNCHANGED <<kind, mongo, redis, held, streams, forced, clean, job>>

\* The metrics server listens; only now does closeWorkerMetricsServer know it.
MetricsOpens ==
  /\ start = "metrics"
  /\ start' = "started" /\ listener' = "open"
  /\ UNCHANGED <<kind, runtime, exiting, exitCode, mongo, redis, held, streams, forced,
                 clean, workVars, down>>

----------------------------------------------------------------------------
(* shutdown() from its first await on.                                     *)

\* server.close() calls back once no request holds a connection.  The metrics
\* server of the worker waits for that alone; the API has two timers beside it.
HttpCloses ==
  /\ down = "http" /\ held = {}
  /\ listener' = "closed"
  /\ CloseBullMq
  /\ clean' \in {clean, FALSE}
  /\ UNCHANGED <<processVars, mongo, redis, held, streams, forced, job>>

\* Mutant: server.close() alone, with no timer beside it.
ForceClose_Unarmed == FALSE /\ UNCHANGED lifeVars

\* forceTimer: abortActiveChatStreams tells the streams registered so far, and
\* closeAllConnections cuts off every client.
ForceClose ==
  /\ down = "http" /\ IsApi /\ ~forced
  /\ forced' = TRUE /\ held' = {}
  /\ streams' = [c \in Client |-> IF streams[c] = "live" THEN "aborted" ELSE streams[c]]
  /\ UNCHANGED <<processVars, listener, mongo, redis, clean, workVars, down>>

GiveUpOnHttp ==
  /\ clean' = FALSE
  /\ CloseBullMq
  /\ UNCHANGED <<processVars, listener, mongo, redis, held, streams, forced, job>>

\* Mutant: the deadline is armed with the grace period alone.
Deadline_NoGrace == down = "http" /\ IsApi /\ GiveUpOnHttp

\* deadlineTimer: finish(false).
Deadline == down = "http" /\ forced /\ GiveUpOnHttp

\* close() of a managed worker awaits the probe its stop() of the heartbeat found
\* in flight, and the running job.
WorkerCloses(w) ==
  /\ worker[w] = "closing" /\ w \notin job
  /\ beat[w].probing => beat[w].running
  /\ worker' = [worker EXCEPT ![w] = "closed"]
  /\ UNCHANGED <<processVars, resourceVars, job, beat, down>>

BullMqCloses ==
  /\ down = "bullmq"
  /\ \A w \in Worker : worker[w] # "closing"
  /\ down' = "redis"
  /\ clean' \in {clean, FALSE}
  /\ UNCHANGED <<processVars, listener, mongo, redis, held, streams, forced, workVars>>

\* disconnectRedis: a connection attempt in flight is cut off, which rejects
\* it for the start-up that awaits it.
DisconnectRedis ==
  /\ down = "redis"
  /\ redis' = "end" /\ down' = "mongo"
  /\ clean' \in {clean, FALSE}
  /\ IF redis = "connecting" /\ start = "connecting"
     THEN start' = "failed" /\ exitCode' = 1 /\ runtime' = IF IsApi THEN "FAILED" ELSE runtime
     ELSE UNCHANGED <<start, exitCode, runtime>>
  /\ UNCHANGED <<kind, exiting, listener, mongo, held, streams, forced, workVars>>

\* mongoose.disconnect() succeeds, or rejects, and then the connection may
\* outlive the shutdown.
MongoLetsGo == \/ mongo' = "off" /\ UNCHANGED clean
               \/ mongo = "up" /\ mongo' \in {"up", "off"} /\ clean' = FALSE

EndShutdown ==
  /\ down' = "done"
  /\ exitCode' = IF clean' THEN exitCode ELSE 1
  /\ UNCHANGED <<kind, start, runtime, exiting, listener, redis, held, streams, forced, workVars>>

\* Mutant: an attempt in flight counts as not connected.
DisconnectMongo_Eager ==
  /\ down = "mongo"
  /\ (MongoLetsGo /\ mongo = "up") \/ (mongo # "up" /\ UNCHANGED <<mongo, clean>>)
  /\ EndShutdown

\* disconnectMongo awaits an attempt in flight before it looks at readyState.
DisconnectMongo ==
  /\ down = "mongo" /\ mongo # "connecting"
  /\ MongoLetsGo
  /\ EndShutdown

----------------------------------------------------------------------------
(* What the processes do while they run.                                   *)

OnlyRequests == UNCHANGED <<processVars, listener, mongo, redis, forced, clean, workVars, down>>

\* requireApiRuntimeReady lets a request pass, whose body and token are read next.
RequestAdmitted(c) ==
  /\ listener \in {"open", "closing"} /\ runtime = "READY" /\ IsApi
  /\ streams[c] = "none" /\ c \notin held
  /\ streams' = [streams EXCEPT ![c] = "entering"] /\ held' = held \union {c}
  /\ OnlyRequests

\* authenticateRequest has read MongoDB twice and the handler registers its
\* controller.  It asks neither for the runtime state nor for its client again:
\* for one that has left, no "aborted" or "close" event is still to come.
StreamRegisters(c) ==
  /\ streams[c] = "entering" /\ mongo = "up"
  /\ streams' = [streams EXCEPT ![c] = IF c \in held THEN "live" ELSE "stray"]
  /\ UNCHANGED held
  /\ OnlyRequests

\* The request is answered: refused on its way in, or its stream is over.
RequestEnds(c) ==
  /\ streams[c] # "none"
  /\ streams' = [streams EXCEPT ![c] = "none"] /\ held' = held \ {c}
  /\ OnlyRequests

\* A request for /metrics or /healthz of the worker.
MetricsRequest(c) ==
  /\ ~IsApi /\ listener = "open" /\ c \notin held
  /\ held' = held \union {c} /\ UNCHANGED streams
  /\ OnlyRequests

\* The client has gone, or has read its answer; handleDisconnect aborts a
\* registered stream.
ClientLeaves(c) ==
  /\ c \in held
  /\ held' = held \ {c}
  /\ streams' = [streams EXCEPT ![c] = IF @ = "live" THEN "aborted" ELSE @]
  /\ OnlyRequests

JobStarts(w) ==
  /\ worker[w] \in {"starting", "running"} /\ w \notin job
  /\ job' = job \union {w}
  /\ UNCHANGED <<processVars, resourceVars, worker, beat, down>>

JobEnds(w) ==
  /\ w \in job
  /\ job' = job \ {w}
  /\ UNCHANGED <<processVars, resourceVars, worker, beat, down>>

BeatStep(w, b) == /\ beat' = [beat EXCEPT ![w] = b]
                  /\ UNCHANGED <<processVars, resourceVars, worker, job, down>>

\* The interval of the heartbeat: a probe in flight keeps its place.
BeatInterval(w) ==
  /\ beat[w].running /\ start = "started"
  /\ BeatStep(w, [beat[w] EXCEPT !.age = IF @ <= Freshness THEN @ + 1 ELSE @,
                                 !.probing = TRUE,
                                 !.quiet = IF beat[w].link THEN 0
                                           ELSE IF @ <= Freshness THEN @ + 1 ELSE @])

\* PING is answered.  Without a connection the command waits in ioredis's
\* offline queue (maxRetriesPerRequest null).
ProbeAnswers(w) ==
  /\ beat[w].probing /\ beat[w].link
  /\ BeatStep(w, IF beat[w].running
                 THEN [beat[w] EXCEPT !.probing = FALSE, !.failed = FALSE, !.age = 0]
                 ELSE [beat[w] EXCEPT !.probing = FALSE])

ProbeFails(w) ==
  /\ beat[w].probing
  /\ BeatStep(w, [beat[w] EXCEPT !.probing = FALSE, !.failed = @ \/ beat[w].running])

LinkChanges(w) ==
  /\ beat[w].running /\ start = "started"
  /\ BeatStep(w, [beat[w] EXCEPT !.link = ~@, !.quiet = 0])

----------------------------------------------------------------------------
StartStep ==
  \/ InitializeEncryption \/ EncryptionFails \/ ListenerOpens
  \/ MongoConnects \/ MongoRefuses \/ RedisConnects \/ RedisRefuses \/ RedisRetries
  \/ StorageReady \/ QueuesReady \/ SchedulesReady \/ StageFails \/ MetricsOpens
  \/ \E w \in Worker : WorkerReady(w) \/ WorkerFails(w)

StopStep ==
  \/ Signal \/ HttpCloses \/ ForceClose \/ Deadline \/ BullMqCloses
  \/ DisconnectRedis \/ DisconnectMongo
  \/ \E w \in Worker : WorkerCloses(w)

WorkStep ==
  \/ \E c \in Client : \/ RequestAdmitted(c) \/ StreamRegisters(c) \/ RequestEnds(c)
                       \/ MetricsRequest(c) \/ ClientLeaves(c)
  \/ \E w \in Worker : \/ JobStarts(w) \/ JobEnds(w) \/ BeatInterval(w)
                       \/ ProbeAnswers(w) \/ ProbeFails(w) \/ LinkChanges(w)

LifeNext == StartStep \/ StopStep \/ WorkStep

\* Timers fire, node calls back for a listener without connections, MongoDB's
\* server selection times out.  Nothing is assumed of a client that holds its
\* connection, nor of Redis, MongoDB and the jobs.
LifeFairness ==
  /\ WF_lifeVars(ForceClose) /\ WF_lifeVars(Deadline) /\ WF_lifeVars(HttpCloses)
  /\ WF_lifeVars(MongoConnects \/ MongoRefuses)

\* What the code bounds by no timeout (redis.ts:21-28, mongo.ts:60-63): QUIT and
\* disconnect() are answered or their connection breaks, a running job ends, a
\* probe is answered or fails.
DependenciesSettle ==
  /\ WF_lifeVars(BullMqCloses) /\ WF_lifeVars(DisconnectRedis) /\ WF_lifeVars(DisconnectMongo)
  /\ \A w \in Worker : /\ WF_lifeVars(WorkerCloses(w)) /\ WF_lifeVars(JobEnds(w))
                       /\ WF_lifeVars(ProbeAnswers(w) \/ ProbeFails(w))

LifeSpec == LifeInit /\ [][LifeNext]_lifeVars /\ LifeFairness

----------------------------------------------------------------------------
\* A process that shuts down is never READY again, whatever stage of its
\* start-up was still running when the signal came (api-startup.ts:62).
StoppingIsNotReady == exiting => runtime # "READY"

\* disconnectInfrastructure() begins only when no request of the API has a client
\* any more and every stream that registered while its client was there has ended
\* or was told to abort (api-startup.ts:81-82, http-server-shutdown.ts:47-51).
\* A request whose client left before its handler registered is told by nobody.
StreamsToldFirst ==
  down \in {"bullmq", "redis", "mongo", "done"} =>
    \A c \in Client : streams[c] # "live" /\ (IsApi => c \notin held)

\* When shutdown() completes, Redis is disconnected for good and no attempt to
\* reach MongoDB is under way, also when it overtook the start-up; a connection
\* that outlives it is in the exit code (mongo.ts:33, redis.ts:130, worker.ts:58).
DoneMeansDisconnected ==
  down = "done" => /\ redis = "end" /\ mongo # "connecting"
                   /\ mongo = "up" => exitCode = 1

\* Provided Redis, MongoDB and the jobs settle, every shutdown of the API
\* completes, whatever its clients do with their connections
\* (http-server-shutdown.ts:52-54), and a worker's unless a client holds a request
\* to its metrics server for ever (worker-metrics-server.ts:98-107).
ShutdownCompletes ==
  DependenciesSettle => (exiting ~> (down = "done" \/ (~IsApi /\ [](held # {}))))

\* A worker whose Redis connection has been silent for longer than the freshness
\* is not reported healthy, nor is its process, although its probe, kept in the
\* offline queue, neither succeeds nor fails (worker-heartbeat.ts:142-153).
SilentWorkerUnhealthy ==
  \A w \in Worker : beat[w].quiet > Freshness =>
    /\ ~Healthy(beat[w])
    /\ worker[w] \in {"starting", "running"} => ~ManagedHealthy

\* PROJECT_MEMORY.md: the worker listener "closes before dependency shutdown".
\* Not so for a signal that finds the listener still opening.
ListenerClosesFirst == down = "done" => listener # "open"

\* Shutdown keeps its order: streams first, then the stores, and all of them.
OrderlyShutdown == StreamsToldFirst /\ DoneMeansDisconnected

\* The health endpoints do not flatter: neither a stopping process nor a worker
\* with a silent Redis connection is reported fit.
HealthHonest == StoppingIsNotReady /\ SilentWorkerUnhealthy
=============================================================================

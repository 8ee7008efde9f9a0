---------------------------- MODULE ProviderHealth ----------------------------
(* The health verdict of the provider in Redis: provider-health.queue.ts       *)
(* schedules a check a minute, provider-health.worker.ts runs the adapter's    *)
(* checkHealth and writes the verdict with a TTL of two schedule periods       *)
(* (provider-health.store.ts), and selectProductionCandidate of chat.service   *)
(* refuses a chat while the verdict reads UNHEALTHY.                           *)
EXTENDS Integers

CONSTANTS
    Checks,         \* health jobs that may run at once (two worker processes)
    HealthTtl       \* PROVIDER_HEALTH_TTL_SECONDS, in ticks

VARIABLES
    provider,       \* "up", "flaky" (retryable errors) or "down"
    verdict,        \* [state, ttl] in Redis; ttl 0 means that the key is gone
    probe           \* [Checks -> "idle" or the state a job is about to write]

healthVars == <<provider, verdict, probe>>

ProviderStates == {"up", "flaky", "down"}
NoVerdict      == [state |-> "UNKNOWN", ttl |-> 0]

\* Groq's checkHealth: a retryable error is "degraded", any other "unhealthy".
CheckHealth(p) == CASE p = "up" -> "healthy" [] p = "flaky" -> "degraded"
                    [] OTHER -> "unhealthy"

\* mapProviderHealthStatus.
MapProviderHealthStatus(s) == CASE s = "healthy" -> "HEALTHY" [] s = "degraded" -> "UNKNOWN"
                                [] OTHER -> "UNHEALTHY"

ProviderChanges(p) == provider # p /\ provider' = p /\ UNCHANGED <<verdict, probe>>

\* processProviderHealthCheckJob up to the write; an exception is UNKNOWN.
RunCheck(j) ==
    /\ probe[j] = "idle"
    /\ probe' = [probe EXCEPT ![j] = MapProviderHealthStatus(CheckHealth(provider))]
    /\ UNCHANGED <<provider, verdict>>

CheckThrows(j) ==
    /\ probe[j] = "idle"
    /\ probe' = [probe EXCEPT ![j] = "UNKNOWN"]
    /\ UNCHANGED <<provider, verdict>>

\* Mutant: the record is written without an expiry.
WriteHealth_Forever(j) ==
    /\ probe[j] # "idle"
    /\ verdict' = [state |-> probe[j], ttl |-> -1]
    /\ probe' = [probe EXCEPT ![j] = "idle"]
    /\ UNCHANGED provider

\* writeProviderHealth: SET ... EX, last writer wins.
WriteHealth(j) ==
    /\ probe[j] # "idle"
    /\ verdict' = [state |-> probe[j], ttl |-> HealthTtl]
    /\ probe' = [probe EXCEPT ![j] = "idle"]
    /\ UNCHANGED provider

\* The SET fails: the job fails and the verdict stays.
WriteFails(j) ==
    /\ probe[j] # "idle"
    /\ probe' = [probe EXCEPT ![j] = "idle"]
    /\ UNCHANGED <<provider, verdict>>

\* readProviderHealth: no record, an unreadable one or an unreachable Redis is UNKNOWN.
ReadHealth == {verdict.state, "UNKNOWN"}

HealthTick ==
    /\ verdict' = IF verdict.ttl > 1 THEN [verdict EXCEPT !.ttl = @ - 1]
                  ELSE IF verdict.ttl = 1 THEN NoVerdict ELSE verdict
    /\ UNCHANGED <<provider, probe>>

HealthInit ==
    /\ provider = "up"
    /\ verdict = NoVerdict
    /\ probe = [j \in Checks |-> "idle"]
===============================================================================

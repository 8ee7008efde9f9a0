-------------------------- MODULE ProviderFallback --------------------------
(***************************************************************************)
(* Starting a provider stream: ordered fallback over candidates            *)
(* (provider-fallback.ts), bounded retries of one candidate                *)
(* (provider-retry.policy.ts) and the error classification of the Groq     *)
(* adapter (groq-provider.adapter.ts), all through the shared circuit      *)
(* breaker.                                                                *)
(*                                                                         *)
(* Each request runs this loop on its own; requests meet only in the       *)
(* breaker.  An action is the code between two awaits.  Delays carry no    *)
(* length: a backoff ends at any later time.                               *)
(***************************************************************************)
EXTENDS CircuitBreaker, Sequences

CONSTANTS
    Candidates,     \* the ordered candidates: a sequence of providers
    MaxAttempts     \* retry policy.maxAttempts

ASSUME CandidatesAssumption == Candidates \in Seq(Providers) /\ Candidates # <<>>
ASSUME AttemptsAssumption == MaxAttempts \in Nat \ {0}

VARIABLES
    fb,         \* fb[r]: control state of r's fallback loop
    aborted,    \* requests whose AbortSignal has fired
    atFault     \* history: <<provider, who was to blame for a failure>>

fallbackVars == <<breakerVars, fb, aborted, atFault>>

Requests == Calls

Stages == {"idle", "candidate", "calling", "backoff", "streaming", "ended",
           "failed", "unavailable"}

-----------------------------------------------------------------------------
(***************************************************************************)
(* normalizeGroqError and shouldRetryProviderError                         *)
(***************************************************************************)
\* What the SDK, or the adapter's own checks, may throw.
ErrorKinds == {"APIConnectionTimeoutError", "APIUserAbortError", "RateLimitError",
               "AuthenticationError", "BadRequestError", "APIConnectionError",
               "APIError501", "APIError502", "APIError503", "StreamStopped",
               "UnsupportedRequest", "Other"}

AvailabilityErrors == {"APIConnectionTimeoutError", "RateLimitError",
                       "APIConnectionError", "APIError502", "APIError503"}

\* History: whom a failure speaks against.
Blames == {"provider", "client"}
Blame(kind) == IF kind = "APIUserAbortError" THEN {"client"}
               ELSE IF kind \in AvailabilityErrors THEN {"provider"}
               ELSE {}

ProviderError(category, retryable, statusCode) ==
    [category |-> category, retryable |-> retryable, statusCode |-> statusCode]

NormalizeGroqError(kind) ==
    CASE kind \in {"APIConnectionTimeoutError", "APIUserAbortError"} ->
           ProviderError("timeout", TRUE, 0)
      [] kind = "RateLimitError" -> ProviderError("rate_limit", TRUE, 429)
      [] kind = "AuthenticationError" -> ProviderError("authentication", FALSE, 401)
      [] kind \in {"BadRequestError", "UnsupportedRequest"} ->
           ProviderError("invalid_request", FALSE, 400)
      [] kind = "APIConnectionError" -> ProviderError("unavailable", TRUE, 0)
      [] kind = "APIError503" -> ProviderError("unavailable", TRUE, 503)
      [] kind = "APIError501" -> ProviderError("provider_error", TRUE, 501)
      [] kind = "APIError502" -> ProviderError("provider_error", TRUE, 502)
      [] kind = "StreamStopped" -> ProviderError("provider_error", TRUE, 0)
      [] kind = "Other" -> ProviderError("provider_error", FALSE, 0)

TransientStatusCodes == {500, 502, 503, 504}

ShouldRetry(error) ==
    /\ error.retryable
    /\ error.category \notin {"authentication", "invalid_request"}
    /\ \/ error.category \in {"timeout", "rate_limit", "unavailable"}
       \/ error.statusCode = 429
       \/ error.category = "provider_error" /\ error.statusCode \in TransientStatusCodes

-----------------------------------------------------------------------------
FallbackTypeOK ==
    /\ BreakerTypeOK
    /\ fb \in [Requests -> [stage : Stages, index : 1..(Len(Candidates) + 1),
                            attempt : 0..MaxAttempts, calls : Nat]]
    /\ aborted \subseteq Requests
    /\ atFault \subseteq Providers \X Blames

FallbackInit ==
    /\ BreakerInit
    /\ fb = [r \in Requests |->
                [stage |-> "idle", index |-> 1, attempt |-> 0, calls |-> 0]]
    /\ aborted = {}
    /\ atFault = {}

At(r, stage) == fb[r].stage = stage

Candidate(r) == Candidates[fb[r].index]

Goto(r, stage) == fb' = [fb EXCEPT ![r].stage = stage]

\* recordFailedAttempt or skipOpenCircuitCandidate, then continue.
NextCandidate(r) ==
    fb' = [fb EXCEPT ![r].stage = "candidate", ![r].index = @ + 1, ![r].attempt = 0]

\* Mutant: one attempt too many.
AfterRetryableError_OffByOne(r, attempt) ==
    IF attempt > MaxAttempts
    THEN NextCandidate(r)
    ELSE fb' = [fb EXCEPT ![r].stage = "backoff", ![r].attempt = attempt]

\* The catch block of retryProviderOperation for an error it may retry.
AfterRetryableError(r, attempt) ==
    IF attempt >= MaxAttempts
    THEN NextCandidate(r)
    ELSE fb' = [fb EXCEPT ![r].stage = "backoff", ![r].attempt = attempt]

\* One turn of the retry loop up to its await: an aborted signal ends the
\* candidate; an open circuit's refusal is itself an error worth a retry.
Attempt(r, attempt) ==
    \/ r \in aborted /\ NextCandidate(r) /\ UNCHANGED breakerVars
    \/ /\ r \notin aborted
       /\ Rejects(Candidate(r))
       /\ AfterRetryableError(r, attempt)
       /\ UNCHANGED breakerVars
    \/ /\ r \notin aborted
       /\ Admit(r, Candidate(r))
       /\ fb' = [fb EXCEPT ![r].stage = "calling", ![r].attempt = attempt,
                           ![r].calls = @ + 1]

-----------------------------------------------------------------------------
(***************************************************************************)
(* createFallbackStream                                                    *)
(***************************************************************************)
StartFallback(r) ==
    /\ At(r, "idle")
    /\ Goto(r, "candidate")
    /\ UNCHANGED <<breakerVars, aborted, atFault>>

SkipOpenCandidate(r) ==
    /\ At(r, "candidate") /\ fb[r].index <= Len(Candidates)
    /\ IsOpen(Candidate(r))
    /\ NextCandidate(r)
    /\ UNCHANGED <<breakerVars, aborted, atFault>>

TryCandidate(r) ==
    /\ At(r, "candidate") /\ fb[r].index <= Len(Candidates)
    /\ ~IsOpen(Candidate(r))
    /\ Attempt(r, 1)
    /\ UNCHANGED <<aborted, atFault>>

\* Mutant: the abort listener of sleep clears the timer and rejects nothing.
BackoffEnds_AbortHangs(r) ==
    /\ At(r, "backoff") /\ r \notin aborted
    /\ Attempt(r, fb[r].attempt + 1)
    /\ UNCHANGED <<aborted, atFault>>

\* The delay is over, or the signal fired during it.
BackoffEnds(r) ==
    /\ At(r, "backoff")
    /\ Attempt(r, fb[r].attempt + 1)
    /\ UNCHANGED <<aborted, atFault>>

\* AllProvidersUnavailableError
AllUnavailable(r) ==
    /\ At(r, "candidate") /\ fb[r].index > Len(Candidates)
    /\ Goto(r, "unavailable")
    /\ UNCHANGED <<breakerVars, aborted, atFault>>

\* The first result of the candidate's stream arrived.
CallSucceeds(r) ==
    /\ At(r, "calling")
    /\ Succeed(r, Candidate(r))
    /\ Goto(r, "streaming")
    /\ UNCHANGED <<aborted, atFault>>

CallFails(r, kind) ==
    /\ At(r, "calling")
    /\ kind = "APIUserAbortError" => r \in aborted
    /\ IF ShouldRetry(NormalizeGroqError(kind))
       THEN /\ FailCounted(r, Candidate(r))
            /\ AfterRetryableError(r, fb[r].attempt)
       ELSE /\ FailUncounted(r, Candidate(r))
            /\ NextCandidate(r)
    /\ atFault' = atFault \cup ({Candidate(r)} \X Blame(kind))
    /\ UNCHANGED aborted

\* The rest of the stream: it ends, or its error is passed to the caller.
StreamEnds(r) ==
    /\ At(r, "streaming")
    /\ Goto(r, "ended")
    /\ UNCHANGED <<breakerVars, aborted, atFault>>

\* Mutant: an error after the first chunk tries the next candidate.
StreamFails_FallsBack(r) ==
    /\ At(r, "streaming")
    /\ NextCandidate(r)
    /\ UNCHANGED <<breakerVars, aborted, atFault>>

StreamFails(r) ==
    /\ At(r, "streaming")
    /\ Goto(r, "failed")
    /\ UNCHANGED <<breakerVars, aborted, atFault>>

\* The client disconnects or the server shuts down.
Abort(r) ==
    /\ fb[r].stage \notin {"idle", "ended", "failed", "unavailable"}
    /\ r \notin aborted
    /\ aborted' = aborted \cup {r}
    /\ UNCHANGED <<breakerVars, fb, atFault>>

TimePasses == Tick /\ UNCHANGED <<fb, aborted, atFault>>

FallbackStep(r) ==
    \/ SkipOpenCandidate(r) \/ TryCandidate(r) \/ BackoffEnds(r) \/ AllUnavailable(r)
    \/ CallSucceeds(r) \/ (\E kind \in ErrorKinds : CallFails(r, kind))
    \/ StreamEnds(r) \/ StreamFails(r)

FallbackNext ==
    \/ \E r \in Requests : StartFallback(r) \/ FallbackStep(r) \/ Abort(r)
    \/ TimePasses

FallbackSpec == FallbackInit /\ [][FallbackNext]_fallbackVars

\* What needs no answer of a provider: backoffs are finite, and the event loop
\* runs every continuation.
LoopStep(r) ==
    SkipOpenCandidate(r) \/ TryCandidate(r) \/ BackoffEnds(r) \/ AllUnavailable(r)

FallbackLiveSpec ==
    FallbackSpec /\ \A r \in Requests : WF_fallbackVars(LoopStep(r))

-----------------------------------------------------------------------------
(***************************************************************************)
(* Properties                                                              *)
(***************************************************************************)
\* One client request costs at most maxAttempts calls per candidate, however
\* the circuit opens and half-opens under it.
CallsBounded == \A r \in Requests : fb[r].calls <= MaxAttempts * Len(Candidates)

\* PROJECT_MEMORY.md: "Circuit failures count only normalized retryable
\* provider availability errors".  A circuit opens only after a timeout, a
\* rate limit, an unreachable provider or a transient status, or an abort.
OnlyAvailabilityOpens ==
    \A p \in Providers : state[p] = "OPEN" => atFault \cap ({p} \X Blames) # {}

\* After the signal has fired no further provider call is started, neither a
\* retry nor one to the next candidate.
NoCallAfterAbort ==
    [][\A r \in aborted : inflight[r] = NoProvider => inflight'[r] = NoProvider]_fallbackVars

\* A request that has received a chunk stays with the provider it came from
\* and calls nobody any more: an answer is never stitched together from two
\* models.
NoSwitchMidStream ==
    [][\A r \in Requests :
          fb[r].stage \in {"streaming", "ended", "failed"} =>
              /\ fb'[r].stage \in {"streaming", "ended", "failed"}
              /\ fb'[r].index = fb[r].index
              /\ inflight'[r] = NoProvider]_fallbackVars

\* The rest of an answer arrives, or its error: no timeout of the adapter
\* covers the body (createRequestOptions).
StreamsEnd == \A r \in Requests : WF_fallbackVars(StreamEnds(r) \/ StreamFails(r))

\* If the providers answer, every request gets a stream or an error; retries,
\* backoffs and circuits that open and half-open meanwhile cannot keep it
\* waiting for ever.
FallbackEnds ==
    CallsSettle /\ StreamsEnd =>
        \A r \in Requests :
            At(r, "candidate") ~> fb[r].stage \in {"ended", "failed", "unavailable"}

\* docs/05_OPENAPI_SPEC.md, 16.7: "Do not treat client cancellation as a
\* provider failure for circuit-breaker purposes."  A circuit is open only if
\* its provider failed at least once.
CancellationNeverOpens == \A p \in Providers : state[p] = "OPEN" => <<p, "provider">> \in atFault

\* What a client request may cost and cause: at most maxAttempts calls per
\* candidate, and an open circuit only after a failure that counts.
FallbackSound == FallbackTypeOK /\ CallsBounded /\ OnlyAvailabilityOpens

\* Nobody is called any more once the client is gone or the answer has begun
\* (executeProviderRetry, streamWithOrderedFallback).
CallsStayInOrder == NoCallAfterAbort /\ NoSwitchMidStream
=============================================================================

--------------------------- MODULE CircuitBreaker ---------------------------
(***************************************************************************)
(* The in-process provider circuit breaker                                 *)
(* (backend/src/features/providers/provider-circuit-breaker.ts).           *)
(*                                                                         *)
(* One record per provider is shared by all calls in flight.  A call is    *)
(* admitted before an await and recorded after it, so the record may have  *)
(* changed state, several times, between the two halves of one call.  Each *)
(* half runs without an await: prepareRequest is one step, and recording   *)
(* the result together with the finally block is another.                  *)
(*                                                                         *)
(* Time is counted in ticks and kept relative: openFor is now - openedAt,  *)
(* capped at the cooldown, beyond which no test tells two values apart;    *)
(* failureCount is capped at the threshold for the same reason.            *)
(* lastFailureAt is only reported, never read, and is left out.            *)
(***************************************************************************)
EXTENDS Integers, FiniteSets

CONSTANTS
    Providers,          \* provider ids
    Calls,              \* concurrent invocations of execute
    FailureThreshold,   \* policy.failureThreshold
    Cooldown,           \* policy.cooldownMs, in ticks
    HalfOpenMaxTrials,  \* policy.halfOpenMaxTrials
    NoProvider,         \* the call is not in execute
    Detached            \* the call holds a record that reset has dropped

ASSUME PolicyAssumption ==
    /\ FailureThreshold \in Nat \ {0}
    /\ Cooldown \in Nat \ {0}
    /\ HalfOpenMaxTrials \in Nat \ {0}
ASSUME ProviderAssumption ==
    NoProvider \notin Providers /\ Detached \notin Providers /\ NoProvider # Detached
ASSUME CallAssumption == IsFiniteSet(Calls)

VARIABLES
    state,          \* state[p]: "CLOSED", "OPEN" or "HALF_OPEN"
    failureCount,   \* failureCount[p], capped at FailureThreshold
    openFor,        \* ticks since openedAt, or NotOpened
    trialCount,     \* halfOpenTrialCount[p]
    inflight,       \* inflight[c]: the provider whose record c holds
    trials          \* history: calls in flight that were admitted as trials
                    \* of p's present half-open period

circuitVars == <<state, failureCount, openFor, trialCount, trials>>
breakerVars == <<circuitVars, inflight>>

States == {"CLOSED", "OPEN", "HALF_OPEN"}
NotOpened == -1

BreakerTypeOK ==
    /\ state \in [Providers -> States]
    /\ failureCount \in [Providers -> 0..FailureThreshold]
    /\ openFor \in [Providers -> {NotOpened} \cup 0..Cooldown]
    /\ trialCount \in [Providers -> 0..HalfOpenMaxTrials]
    /\ inflight \in [Calls -> Providers \cup {NoProvider, Detached}]
    /\ trials \in [Providers -> SUBSET Calls]

\* getRecord creates a CLOSED record on first use.
BreakerInit ==
    /\ state = [p \in Providers |-> "CLOSED"]
    /\ failureCount = [p \in Providers |-> 0]
    /\ openFor = [p \in Providers |-> NotOpened]
    /\ trialCount = [p \in Providers |-> 0]
    /\ inflight = [c \in Calls |-> NoProvider]
    /\ trials = [p \in Providers |-> {}]

-----------------------------------------------------------------------------
HasCooldownElapsed(p) == openFor[p] # NotOpened /\ openFor[p] >= Cooldown

\* The public isOpen, used to skip a fallback candidate.
IsOpen(p) == state[p] = "OPEN" /\ ~HasCooldownElapsed(p)

\* prepareRequest throws ProviderCircuitOpenError.
Rejects(p) ==
    \/ IsOpen(p)
    \/ state[p] = "HALF_OPEN" /\ trialCount[p] >= HalfOpenMaxTrials

(***************************************************************************)
(* prepareRequest                                                          *)
(***************************************************************************)
AdmitClosed(c, p) ==
    /\ inflight[c] = NoProvider
    /\ state[p] = "CLOSED"
    /\ inflight' = [inflight EXCEPT ![c] = p]
    /\ UNCHANGED circuitVars

\* The first request after the cooldown turns the circuit half open.
AdmitFirstTrial(c, p) ==
    /\ inflight[c] = NoProvider
    /\ state[p] = "OPEN" /\ HasCooldownElapsed(p)
    /\ state' = [state EXCEPT ![p] = "HALF_OPEN"]
    /\ trialCount' = [trialCount EXCEPT ![p] = 1]
    /\ trials' = [trials EXCEPT ![p] = {c}]
    /\ inflight' = [inflight EXCEPT ![c] = p]
    /\ UNCHANGED <<failureCount, openFor>>

AdmitTrial(c, p) ==
    /\ inflight[c] = NoProvider
    /\ state[p] = "HALF_OPEN"
    /\ trialCount[p] < HalfOpenMaxTrials
    /\ trialCount' = [trialCount EXCEPT ![p] = @ + 1]
    /\ trials' = [trials EXCEPT ![p] = @ \cup {c}]
    /\ inflight' = [inflight EXCEPT ![c] = p]
    /\ UNCHANGED <<state, failureCount, openFor>>

Admit(c, p) == AdmitClosed(c, p) \/ AdmitFirstTrial(c, p) \/ AdmitTrial(c, p)

(***************************************************************************)
(* recordSuccess, recordFailure and the finally block of execute, applied  *)
(* to the record the call was admitted with, whatever its state is now.    *)
(***************************************************************************)
Return(c) == inflight' = [inflight EXCEPT ![c] = NoProvider]

RecordSuccess(p) ==
    /\ state' = [state EXCEPT ![p] = "CLOSED"]
    /\ failureCount' = [failureCount EXCEPT ![p] = 0]
    /\ openFor' = [openFor EXCEPT ![p] = NotOpened]
    /\ trialCount' = [trialCount EXCEPT ![p] = 0]
    /\ trials' = [trials EXCEPT ![p] = {}]

OpenCircuit(p) ==
    /\ state' = [state EXCEPT ![p] = "OPEN"]
    /\ openFor' = [openFor EXCEPT ![p] = 0]
    /\ trialCount' = [trialCount EXCEPT ![p] = 0]
    /\ trials' = [trials EXCEPT ![p] = {}]

CountFailure(p) ==
    failureCount' = [failureCount EXCEPT ![p] =
                        IF @ < FailureThreshold THEN @ + 1 ELSE @]

\* Mutant: one failure more than the threshold is needed to open.
RecordFailure_OffByOne(p) ==
    IF state[p] = "HALF_OPEN"
    THEN OpenCircuit(p) /\ UNCHANGED failureCount
    ELSE /\ CountFailure(p)
         /\ IF failureCount[p] + 1 > FailureThreshold
            THEN OpenCircuit(p)
            ELSE UNCHANGED <<state, openFor, trialCount, trials>>

\* A failure that counts.  In the half-open state it opens the circuit; a
\* call left over from before the circuit opened extends the cooldown.
RecordFailure(p) ==
    IF state[p] = "HALF_OPEN"
    THEN OpenCircuit(p) /\ UNCHANGED failureCount
    ELSE /\ CountFailure(p)
         /\ IF failureCount[p] + 1 >= FailureThreshold
            THEN OpenCircuit(p)
            ELSE UNCHANGED <<state, openFor, trialCount, trials>>

\* Mutant: the finally block is missing.
GiveBackTrial_Missing(c, p) ==
    /\ trials' = [trials EXCEPT ![p] = @ \ {c}]
    /\ UNCHANGED <<state, failureCount, openFor, trialCount>>

\* The finally block after a failure that does not count.
GiveBackTrial(c, p) ==
    /\ trialCount' = [trialCount EXCEPT ![p] =
                         IF state[p] = "HALF_OPEN" /\ @ > 0 THEN @ - 1 ELSE @]
    /\ trials' = [trials EXCEPT ![p] = @ \ {c}]
    /\ UNCHANGED <<state, failureCount, openFor>>

Succeed(c, p) == inflight[c] = p /\ RecordSuccess(p) /\ Return(c)

FailCounted(c, p) == inflight[c] = p /\ RecordFailure(p) /\ Return(c)

FailUncounted(c, p) == inflight[c] = p /\ GiveBackTrial(c, p) /\ Return(c)

\* The record of a call that reset dropped is nobody's any more.
FinishDetached(c) == inflight[c] = Detached /\ Return(c) /\ UNCHANGED circuitVars

(***************************************************************************)
(* reset(providerId), and the passing of time.                             *)
(***************************************************************************)
Reset(p) ==
    /\ RecordSuccess(p)
    /\ inflight' = [c \in Calls |-> IF inflight[c] = p THEN Detached ELSE inflight[c]]

Cooling(p) == openFor[p] # NotOpened /\ openFor[p] < Cooldown

Tick ==
    /\ \E p \in Providers : Cooling(p)
    /\ openFor' = [p \in Providers |->
                      IF Cooling(p) THEN openFor[p] + 1 ELSE openFor[p]]
    /\ UNCHANGED <<state, failureCount, trialCount, trials, inflight>>

Finish(c) ==
    \/ \E p \in Providers : Succeed(c, p) \/ FailCounted(c, p) \/ FailUncounted(c, p)
    \/ FinishDetached(c)

BreakerNext ==
    \/ \E c \in Calls : (\E p \in Providers : Admit(c, p)) \/ Finish(c)
    \/ \E p \in Providers : Reset(p)
    \/ Tick

BreakerSpec == BreakerInit /\ [][BreakerNext]_breakerVars

\* Time passes.
BreakerLiveSpec == BreakerSpec /\ WF_breakerVars(Tick)

\* Every provider call settles.  The timeout given to the SDK sees to that only
\* until the head of the answer is there, not for the first chunk after it.
CallsSettle == \A c \in Calls : WF_breakerVars(Finish(c))

-----------------------------------------------------------------------------
(***************************************************************************)
(* Properties                                                              *)
(***************************************************************************)
\* A circuit that is not closed knows since when: without openedAt the
\* cooldown would never elapse and the provider would be shut out for good.
OpenHasTimestamp == \A p \in Providers : state[p] # "CLOSED" <=> openFor[p] # NotOpened

\* The circuit is closed exactly while fewer than failureThreshold failures
\* have been counted, also when calls admitted before the circuit opened
\* report their results after it has moved on.
ClosedBelowThreshold ==
    \A p \in Providers : state[p] = "CLOSED" <=> failureCount[p] < FailureThreshold

\* A half-open slot is never held by nobody: halfOpenTrialCount is at most
\* the number of trials in flight, so a half-open circuit refuses a request
\* only while a trial may still decide it.
NoSlotLeak == \A p \in Providers : trialCount[p] <= Cardinality(trials[p])

\* No provider is shut out for ever: time and the return of the calls in
\* flight always bring the breaker back to admitting a request.
NeverWedged == CallsSettle => \A p \in Providers : []<>(~Rejects(p))

\* PROJECT_MEMORY.md: "after cooldown, one HALF_OPEN trial is allowed"; the
\* test "HALF_OPEN allows only the configured concurrent trial".  No more
\* trials than halfOpenMaxTrials run at once.
AtMostMaxTrials == \A p \in Providers : Cardinality(trials[p]) <= HalfOpenMaxTrials

\* The record stays coherent under calls that return to a state they were not
\* admitted in: it can cool down while it is not closed, is closed exactly below
\* the threshold, and loses no half-open slot (prepareRequest, recordSuccess,
\* recordFailure, execute).
CircuitSound == BreakerTypeOK /\ OpenHasTimestamp /\ ClosedBelowThreshold /\ NoSlotLeak
=============================================================================

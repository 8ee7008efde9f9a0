--------------------------- MODULE ProviderProofs ---------------------------
(***************************************************************************)
(* The circuit breaker and the fallback loop that drives it, for any       *)
(* number of providers, candidates and concurrent calls and any valid      *)
(* circuit and retry policy.                                               *)
(*                                                                         *)
(* The breaker: NoSlotLeak is not inductive alone.  That a finishing call  *)
(* gives back at most its own slot needs to know that the trials of a      *)
(* provider are among the calls in flight, and that there are none outside *)
(* the half-open state.                                                    *)
(*                                                                         *)
(* The loop: each of its steps is a step of the breaker or leaves it alone *)
(* (LoopDrivesBreaker), so the breaker's invariant holds under it.  The    *)
(* bound on calls follows from a budget that every stage keeps (LoopSound):*)
(* maxAttempts calls for each candidate given up, and one for each attempt *)
(* at the present one.                                                     *)
(***************************************************************************)
EXTENDS ProviderFallback, FiniteSetTheorems, TLAPS

\* Every trial is in flight, and only a half-open circuit has trials.
TrialsInFlight ==
    \A p \in Providers :
        /\ \A c \in trials[p] : inflight[c] = p
        /\ state[p] # "HALF_OPEN" => trialCount[p] = 0 /\ trials[p] = {}

CInv ==
    /\ BreakerTypeOK
    /\ OpenHasTimestamp
    /\ ClosedBelowThreshold
    /\ TrialsInFlight
    /\ NoSlotLeak

\* A set of calls is finite, and its cardinality follows one element.
LEMMA TrialCardinality ==
    ASSUME NEW S \in SUBSET Calls, NEW c \in Calls
    PROVE  /\ Cardinality(S) \in Nat
           /\ Cardinality({}) = 0
           /\ Cardinality({c}) = 1
           /\ c \notin S => Cardinality(S \cup {c}) = Cardinality(S) + 1
           /\ Cardinality(S \ {c}) = IF c \in S THEN Cardinality(S) - 1
                                     ELSE Cardinality(S)
           /\ (c \in S) => Cardinality(S) > 0
<1>1. IsFiniteSet(S)
  BY FS_Subset, CallAssumption
<1>2. Cardinality(S) \in Nat
  BY <1>1, FS_CardinalityType
<1>3. Cardinality({}) = 0
  BY FS_EmptySet
<1>4. Cardinality({c}) = 1
  BY FS_Singleton
<1>5. c \notin S => Cardinality(S \cup {c}) = Cardinality(S) + 1
  BY <1>1, FS_AddElement
<1>6. Cardinality(S \ {c}) = IF c \in S THEN Cardinality(S) - 1 ELSE Cardinality(S)
  BY <1>1, FS_RemoveElement
<1>7. (c \in S) => Cardinality(S) > 0
  <2>1. Cardinality(S \ {c}) \in Nat
    BY <1>1, FS_Subset, FS_CardinalityType
  <2>2. QED  BY <2>1, <1>2, <1>6
<1>8. QED  BY <1>2, <1>3, <1>4, <1>5, <1>6, <1>7

\* The invariant holds when every circuit is closed.
LEMMA InitCInv == BreakerInit => CInv
  BY PolicyAssumption, ProviderAssumption, FS_EmptySet
  DEF BreakerInit, CInv, BreakerTypeOK, OpenHasTimestamp, ClosedBelowThreshold,
      TrialsInFlight, NoSlotLeak, States, NotOpened

\* A call in flight for p is a trial of p or of no provider.
LEMMA AdmitStep ==
    ASSUME CInv, NEW c \in Calls, NEW p \in Providers, Admit(c, p)
    PROVE  CInv'
<1> USE PolicyAssumption, ProviderAssumption
<1>1. CASE AdmitClosed(c, p)
  BY <1>1 DEF CInv, BreakerTypeOK, OpenHasTimestamp, ClosedBelowThreshold,
      TrialsInFlight, NoSlotLeak, AdmitClosed, circuitVars
<1>2. CASE AdmitFirstTrial(c, p)
  <2>1. BreakerTypeOK'
    BY <1>2 DEF CInv, BreakerTypeOK, AdmitFirstTrial, States
  <2>2. OpenHasTimestamp' /\ ClosedBelowThreshold' /\ TrialsInFlight'
    BY <1>2 DEF CInv, BreakerTypeOK, OpenHasTimestamp, ClosedBelowThreshold,
        TrialsInFlight, AdmitFirstTrial
  <2>3. NoSlotLeak'
    <3>1. Cardinality({c}) = 1
      BY TrialCardinality
    <3>2. QED  BY <3>1, <1>2 DEF CInv, BreakerTypeOK, NoSlotLeak, AdmitFirstTrial
  <2>4. QED  BY <2>1, <2>2, <2>3 DEF CInv
<1>3. CASE AdmitTrial(c, p)
  <2>1. BreakerTypeOK'
    BY <1>3 DEF CInv, BreakerTypeOK, AdmitTrial, States
  <2>2. OpenHasTimestamp' /\ ClosedBelowThreshold' /\ TrialsInFlight'
    BY <1>3 DEF CInv, BreakerTypeOK, OpenHasTimestamp, ClosedBelowThreshold,
        TrialsInFlight, AdmitTrial
  <2>3. NoSlotLeak'
    <3>1. c \notin trials[p] /\ trials[p] \in SUBSET Calls
      BY <1>3 DEF CInv, BreakerTypeOK, TrialsInFlight, AdmitTrial
    <3>2. Cardinality(trials[p] \cup {c}) = Cardinality(trials[p]) + 1
      BY <3>1, TrialCardinality
    <3>3. Cardinality(trials[p]) \in Nat
      BY <3>1, TrialCardinality
    <3>4. QED  BY <3>2, <3>3, <1>3 DEF CInv, BreakerTypeOK, NoSlotLeak, AdmitTrial
  <2>4. QED  BY <2>1, <2>2, <2>3 DEF CInv
<1>4. QED  BY <1>1, <1>2, <1>3 DEF Admit

\* A success, also of a call admitted long ago, closes the circuit and
\* forgets its trials.
LEMMA SucceedStep ==
    ASSUME CInv, NEW c \in Calls, NEW p \in Providers, Succeed(c, p)
    PROVE  CInv'
<1> USE PolicyAssumption, ProviderAssumption
<1>1. BreakerTypeOK'
  BY DEF CInv, BreakerTypeOK, Succeed, RecordSuccess, Return, States, NotOpened
<1>2. OpenHasTimestamp' /\ ClosedBelowThreshold' /\ TrialsInFlight'
  BY DEF CInv, BreakerTypeOK, OpenHasTimestamp, ClosedBelowThreshold,
      TrialsInFlight, Succeed, RecordSuccess, Return, NotOpened
<1>3. NoSlotLeak'
  BY FS_EmptySet DEF CInv, BreakerTypeOK, NoSlotLeak, Succeed, RecordSuccess
<1>4. QED  BY <1>1, <1>2, <1>3 DEF CInv

\* A counted failure keeps the invariant, whether or not it opens the circuit.
LEMMA FailCountedStep ==
    ASSUME CInv, NEW c \in Calls, NEW p \in Providers, FailCounted(c, p)
    PROVE  CInv'
<1> USE PolicyAssumption, ProviderAssumption
<1>1. CASE /\ OpenCircuit(p) /\ inflight[c] = p /\ Return(c)
           /\ failureCount' = [failureCount EXCEPT ![p] = FailureThreshold]
  <2>1. BreakerTypeOK'
    BY <1>1 DEF CInv, BreakerTypeOK, OpenCircuit, Return, States
  <2>2. OpenHasTimestamp' /\ ClosedBelowThreshold' /\ TrialsInFlight'
    BY <1>1 DEF CInv, BreakerTypeOK, OpenHasTimestamp, ClosedBelowThreshold,
        TrialsInFlight, OpenCircuit, Return, NotOpened
  <2>3. NoSlotLeak'
    BY <1>1, FS_EmptySet DEF CInv, BreakerTypeOK, NoSlotLeak, OpenCircuit
  <2>4. QED  BY <2>1, <2>2, <2>3 DEF CInv
<1>2. CASE /\ state[p] # "HALF_OPEN" /\ CountFailure(p) /\ inflight[c] = p
           /\ failureCount[p] + 1 < FailureThreshold
           /\ UNCHANGED <<state, openFor, trialCount, trials>> /\ Return(c)
  <2>1. BreakerTypeOK'
    BY <1>2 DEF CInv, BreakerTypeOK, CountFailure, Return
  <2>2. OpenHasTimestamp' /\ ClosedBelowThreshold' /\ TrialsInFlight' /\ NoSlotLeak'
    BY <1>2 DEF CInv, BreakerTypeOK, OpenHasTimestamp, ClosedBelowThreshold,
        TrialsInFlight, NoSlotLeak, CountFailure, Return
  <2>3. QED  BY <2>1, <2>2 DEF CInv
<1>3. failureCount[p] \in 0..FailureThreshold
  BY DEF CInv, BreakerTypeOK
<1>4. CASE state[p] = "HALF_OPEN"
  <2>1. failureCount[p] = FailureThreshold
    BY <1>3, <1>4 DEF CInv, ClosedBelowThreshold
  <2>2. failureCount' = [failureCount EXCEPT ![p] = FailureThreshold]
    BY <1>4, <2>1 DEF CInv, BreakerTypeOK, FailCounted, RecordFailure
  <2>3. QED  BY <1>1, <1>4, <2>2 DEF FailCounted, RecordFailure
<1>5. CASE state[p] # "HALF_OPEN" /\ failureCount[p] + 1 >= FailureThreshold
  <2>1. failureCount' = [failureCount EXCEPT ![p] = FailureThreshold]
    BY <1>3, <1>5 DEF FailCounted, RecordFailure, CountFailure
  <2>2. QED  BY <1>1, <1>5, <2>1 DEF FailCounted, RecordFailure
<1>6. CASE state[p] # "HALF_OPEN" /\ ~(failureCount[p] + 1 >= FailureThreshold)
  BY <1>2, <1>3, <1>6 DEF FailCounted, RecordFailure
<1>7. QED  BY <1>4, <1>5, <1>6

\* A failure that does not count gives a slot back; a leftover call may give
\* back somebody else's, which lowers the count but never raises it.
LEMMA FailUncountedStep ==
    ASSUME CInv, NEW c \in Calls, NEW p \in Providers, FailUncounted(c, p)
    PROVE  CInv'
<1> USE PolicyAssumption, ProviderAssumption
<1>1. BreakerTypeOK'
  BY DEF CInv, BreakerTypeOK, FailUncounted, GiveBackTrial, Return
<1>2. OpenHasTimestamp' /\ ClosedBelowThreshold'
  BY DEF CInv, OpenHasTimestamp, ClosedBelowThreshold, FailUncounted, GiveBackTrial
<1>3. TrialsInFlight'
  BY DEF CInv, BreakerTypeOK, TrialsInFlight, FailUncounted, GiveBackTrial, Return
<1>4. NoSlotLeak'
  <2>1. trials[p] \in SUBSET Calls /\ trialCount[p] \in Nat
    BY DEF CInv, BreakerTypeOK
  <2>2. /\ Cardinality(trials[p]) \in Nat
        /\ Cardinality(trials[p] \ {c}) = IF c \in trials[p]
                                          THEN Cardinality(trials[p]) - 1
                                          ELSE Cardinality(trials[p])
        /\ c \in trials[p] => Cardinality(trials[p]) > 0
    BY <2>1, TrialCardinality
  <2>3. trialCount'[p] <= Cardinality(trials'[p])
    <3>1. trials'[p] = trials[p] \ {c}
      BY DEF CInv, BreakerTypeOK, FailUncounted, GiveBackTrial
    <3>2. trialCount'[p] = IF state[p] = "HALF_OPEN" /\ trialCount[p] > 0
                           THEN trialCount[p] - 1 ELSE trialCount[p]
      BY DEF CInv, BreakerTypeOK, FailUncounted, GiveBackTrial
    <3>3. state[p] # "HALF_OPEN" => trialCount[p] = 0 /\ trials[p] = {}
      BY DEF CInv, TrialsInFlight
    <3>4. trialCount[p] <= Cardinality(trials[p])
      BY DEF CInv, NoSlotLeak
    <3>5. QED  BY <2>1, <2>2, <3>1, <3>2, <3>3, <3>4
  <2>4. ASSUME NEW q \in Providers, q # p
        PROVE  trialCount'[q] <= Cardinality(trials'[q])
    BY <2>4 DEF CInv, BreakerTypeOK, NoSlotLeak, FailUncounted, GiveBackTrial
  <2>5. QED  BY <2>3, <2>4 DEF NoSlotLeak
<1>5. QED  BY <1>1, <1>2, <1>3, <1>4 DEF CInv

\* reset detaches the calls in flight and leaves a closed record.
LEMMA ResetStep ==
    ASSUME CInv, NEW p \in Providers, Reset(p)
    PROVE  CInv'
<1> USE PolicyAssumption, ProviderAssumption
<1>1. BreakerTypeOK'
  BY DEF CInv, BreakerTypeOK, Reset, RecordSuccess, States, NotOpened
<1>2. OpenHasTimestamp' /\ ClosedBelowThreshold' /\ TrialsInFlight'
  BY DEF CInv, BreakerTypeOK, OpenHasTimestamp, ClosedBelowThreshold,
      TrialsInFlight, Reset, RecordSuccess, NotOpened
<1>3. NoSlotLeak'
  BY FS_EmptySet DEF CInv, BreakerTypeOK, NoSlotLeak, Reset, RecordSuccess
<1>4. QED  BY <1>1, <1>2, <1>3 DEF CInv

\* Time only moves openFor.
LEMMA TickStep == CInv /\ Tick => CInv'
  BY PolicyAssumption
  DEF CInv, BreakerTypeOK, OpenHasTimestamp, ClosedBelowThreshold, TrialsInFlight,
      NoSlotLeak, Tick, Cooling, NotOpened

\* Every step keeps the invariant.
LEMMA CInvStep == CInv /\ [BreakerNext]_breakerVars => CInv'
<1> SUFFICES ASSUME CInv, [BreakerNext]_breakerVars PROVE CInv'
  OBVIOUS
<1>1. ASSUME NEW c \in Calls, FinishDetached(c) PROVE CInv'
  BY <1>1, ProviderAssumption DEF CInv, BreakerTypeOK, OpenHasTimestamp,
      ClosedBelowThreshold, TrialsInFlight, NoSlotLeak, FinishDetached, Return,
      circuitVars
<1>2. CASE UNCHANGED breakerVars
  BY <1>2 DEF CInv, BreakerTypeOK, OpenHasTimestamp, ClosedBelowThreshold,
      TrialsInFlight, NoSlotLeak, breakerVars, circuitVars
<1>3. ASSUME NEW c \in Calls, Finish(c) PROVE CInv'
  BY <1>1, <1>3, SucceedStep, FailCountedStep, FailUncountedStep DEF Finish
<1>4. QED  BY <1>2, <1>3, AdmitStep, ResetStep, TickStep DEF BreakerNext

\* The breaker's inductive invariant holds in every state.
THEOREM BreakerInvariant == BreakerSpec => []CInv
  BY InitCInv, CInvStep, PTL DEF BreakerSpec

\* For any policy and any number of concurrent calls, a half-open slot is
\* never held by nobody.
THEOREM SlotsNeverLeak == BreakerSpec => []NoSlotLeak
<1>1. CInv => NoSlotLeak  BY DEF CInv
<1>2. QED  BY <1>1, BreakerInvariant, PTL

\* A circuit that is not closed can always cool down.
THEOREM OpenCircuitsCool == BreakerSpec => []OpenHasTimestamp
<1>1. CInv => OpenHasTimestamp  BY DEF CInv
<1>2. QED  BY <1>1, BreakerInvariant, PTL

\* The circuit is closed exactly below the threshold, whatever results
\* leftover calls report.
THEOREM ClosedIffBelowThreshold == BreakerSpec => []ClosedBelowThreshold
<1>1. CInv => ClosedBelowThreshold  BY DEF CInv
<1>2. QED  BY <1>1, BreakerInvariant, PTL

\* The breaker's record as a whole, for every policy and any number of calls.
THEOREM CircuitIsSound == BreakerSpec => []CircuitSound
<1>1. CInv => CircuitSound  BY DEF CInv, CircuitSound
<1>2. QED  BY <1>1, BreakerInvariant, PTL

-----------------------------------------------------------------------------
(***************************************************************************)
(* The fallback loop                                                       *)
(***************************************************************************)
Loops == [stage : Stages, index : 1..(Len(Candidates) + 1),
          attempt : 0..MaxAttempts, calls : Nat]

\* One request's loop t, and the provider whose circuit its call holds.
LoopSound(t, holds) ==
    /\ t.calls <= MaxAttempts * (t.index - 1) + t.attempt
    /\ t.index <= Len(Candidates) \/ t.stage \in {"candidate", "unavailable"}
    /\ t.stage \in {"idle", "candidate", "unavailable"} => t.attempt = 0
    /\ t.stage = "backoff" => t.attempt < MaxAttempts
    /\ holds = IF t.stage = "calling" THEN Candidates[t.index] ELSE NoProvider

\* The inductive invariant of the loop.
FInv ==
    /\ CInv
    /\ fb \in [Requests -> Loops]
    /\ aborted \subseteq Requests
    /\ atFault \subseteq Providers \X Blames
    /\ \A r \in Requests : LoopSound(fb[r], inflight[r])
    /\ OnlyAvailabilityOpens

\* shouldRetryProviderError accepts only errors that speak against somebody.
LEMMA RetryableHasBlame ==
    ASSUME NEW kind \in ErrorKinds, ShouldRetry(NormalizeGroqError(kind))
    PROVE  Blame(kind) # {}
<1>1. CASE kind \in AvailabilityErrors \cup {"APIUserAbortError"}
  BY <1>1 DEF Blame
<1>2. CASE kind \in {"AuthenticationError", "BadRequestError", "UnsupportedRequest"}
  BY <1>2 DEF ShouldRetry, NormalizeGroqError, ProviderError
<1>3. CASE kind = "APIError501"
  BY <1>3 DEF ShouldRetry, NormalizeGroqError, ProviderError, TransientStatusCodes
<1>4. CASE kind = "StreamStopped"
  BY <1>4 DEF ShouldRetry, NormalizeGroqError, ProviderError, TransientStatusCodes
<1>5. CASE kind = "Other"
  BY <1>5 DEF ShouldRetry, NormalizeGroqError, ProviderError
<1> QED  BY <1>1, <1>2, <1>3, <1>4, <1>5 DEF ErrorKinds, AvailabilityErrors

\* The budget of i candidates grows by maxAttempts with each.
LEMMA Budget ==
    /\ \A i \in Nat : MaxAttempts * i \in Nat
    /\ \A i \in Nat \ {0} : MaxAttempts * i = MaxAttempts * (i - 1) + MaxAttempts
    /\ \A i, j \in Nat : i <= j => MaxAttempts * i <= MaxAttempts * j
<1> USE AttemptsAssumption
<1>1. \A i \in Nat : MaxAttempts * i \in Nat  OBVIOUS
<1>2. \A i \in Nat \ {0} : MaxAttempts * i = MaxAttempts * (i - 1) + MaxAttempts
  OBVIOUS
<1>3. ASSUME NEW i \in Nat, NEW j \in Nat, i <= j
      PROVE  MaxAttempts * i <= MaxAttempts * j
  <2>1. MaxAttempts * (j - i) >= 0 /\ MaxAttempts * j = MaxAttempts * i + MaxAttempts * (j - i)
    BY <1>3
  <2> QED  BY <1>1, <2>1
<1> QED  BY <1>1, <1>2, <1>3

\* The loop's invariant, at the start.
LEMMA InitFInv == FallbackInit => FInv
<1> SUFFICES ASSUME FallbackInit PROVE FInv
  OBVIOUS
<1>1. CInv  BY InitCInv DEF FallbackInit
<1>2. Len(Candidates) \in Nat \ {0}  BY CandidatesAssumption
<1>3. /\ fb \in [Requests -> Loops]
      /\ \A r \in Requests : LoopSound(fb[r], inflight[r])
  BY <1>2, AttemptsAssumption DEF FallbackInit, BreakerInit, Loops, LoopSound, Stages, Requests
<1>4. OnlyAvailabilityOpens
  BY DEF FallbackInit, BreakerInit, OnlyAvailabilityOpens
<1>5. aborted \subseteq Requests /\ atFault \subseteq Providers \X Blames
  BY DEF FallbackInit
<1> QED  BY <1>1, <1>3, <1>4, <1>5 DEF FInv

\* The candidate of a request that has not run out of them.
LEMMA CandidateType ==
    ASSUME FInv, NEW r \in Requests, fb[r].index <= Len(Candidates)
    PROVE  Candidate(r) \in Providers
BY CandidatesAssumption DEF FInv, Loops, Candidate

\* A request's move to t with its call at x keeps the loops sound.
LEMMA OneLoop ==
    ASSUME FInv, NEW r \in Requests, NEW t \in Loops, NEW x,
           fb' = [fb EXCEPT ![r] = t],
           inflight' = [inflight EXCEPT ![r] = x], LoopSound(t, x)
    PROVE  /\ fb' \in [Requests -> Loops]
           /\ \A s \in Requests : LoopSound(fb'[s], inflight'[s])
<1>1. fb \in [Requests -> Loops] /\ \A s \in Requests : LoopSound(fb[s], inflight[s])
  BY DEF FInv
<1>2. inflight = [s \in Requests |-> inflight[s]]
  BY DEF FInv, CInv, BreakerTypeOK, Requests
<1>3. fb'[r] = t /\ inflight'[r] = x
  BY <1>1, <1>2
<1>4. \A s \in Requests \ {r} : fb'[s] = fb[s] /\ inflight'[s] = inflight[s]
  BY <1>1, <1>2
<1>5. fb' \in [Requests -> Loops]  BY <1>1
<1> QED  BY <1>1, <1>3, <1>4, <1>5

\* recordFailedAttempt and skipOpenCircuitCandidate leave the budget in order.
LEMMA NextCandidateSound ==
    ASSUME FInv, NEW r \in Requests, NextCandidate(r), fb[r].index <= Len(Candidates)
    PROVE  \E t \in Loops : fb' = [fb EXCEPT ![r] = t] /\ LoopSound(t, NoProvider)
                            /\ t.stage = "candidate"
<1> DEFINE t == [fb[r] EXCEPT !.stage = "candidate", !.index = @ + 1, !.attempt = 0]
<1>1. fb \in [Requests -> Loops] /\ fb[r] \in Loops /\ LoopSound(fb[r], inflight[r])
  BY DEF FInv
<1>2. Len(Candidates) \in Nat  BY CandidatesAssumption
<1>3. /\ fb[r].index \in 1..Len(Candidates) /\ fb[r].attempt \in 0..MaxAttempts
      /\ fb[r].calls \in Nat /\ fb[r].calls <= MaxAttempts * (fb[r].index - 1) + fb[r].attempt
  BY <1>1, <1>2 DEF Loops, LoopSound
<1>4. /\ t \in Loops /\ t.stage = "candidate" /\ t.index = fb[r].index + 1
      /\ t.attempt = 0 /\ t.calls = fb[r].calls
  <2>1. fb[r].index + 1 \in 1..(Len(Candidates) + 1) /\ 0 \in 0..MaxAttempts
    BY <1>2, <1>3, AttemptsAssumption
  <2>2. "candidate" \in Stages  BY DEF Stages
  <2> QED  BY <1>1, <2>1, <2>2 DEF Loops
<1>5. fb' = [fb EXCEPT ![r] = t]  BY <1>1 DEF NextCandidate
<1> HIDE DEF t
<1>6. PICK i \in Nat \ {0}, a \in 0..MaxAttempts, n \in Nat :
         i = fb[r].index /\ a = fb[r].attempt /\ n = fb[r].calls
  BY <1>2, <1>3
<1>7. n <= MaxAttempts * i
  <2>1. MaxAttempts * i = MaxAttempts * (i - 1) + MaxAttempts  BY Budget
  <2>2. MaxAttempts * (i - 1) \in Nat /\ MaxAttempts * i \in Nat  BY Budget
  <2>3. n <= MaxAttempts * (i - 1) + a  BY <1>3, <1>6
  <2> QED  BY <2>1, <2>2, <2>3, AttemptsAssumption
<1>8. t.calls <= MaxAttempts * (t.index - 1) + t.attempt
  <2>1. t.index - 1 = i /\ t.calls = n /\ t.attempt = 0  BY <1>4, <1>6
  <2>2. MaxAttempts * i \in Nat  BY Budget
  <2> QED  BY <1>7, <2>1, <2>2
<1> QED  BY <1>4, <1>5, <1>8 DEF LoopSound

Answered == {"streaming", "ended", "failed"}

\* What a step of request r does to its loop and its call.
Moves(r, t, x) ==
    /\ fb' = [fb EXCEPT ![r] = t]
    /\ inflight' = [inflight EXCEPT ![r] = x]
    /\ LoopSound(t, x)
    /\ x # NoProvider => r \notin aborted
    /\ fb[r].stage \in Answered => t.stage \in Answered /\ t.index = fb[r].index

\* A call that is not in flight stays so when inflight is unchanged.
LEMMA NoCallKept ==
    ASSUME FInv, NEW r \in Requests, fb[r].stage # "calling", UNCHANGED inflight
    PROVE  inflight' = [inflight EXCEPT ![r] = NoProvider]
BY DEF FInv, LoopSound, CInv, BreakerTypeOK, Requests

\* Goto keeps the index, the attempt and the calls.
LEMMA GotoSound ==
    ASSUME FInv, NEW r \in Requests, NEW stage \in Stages, Goto(r, stage),
           inflight' = [inflight EXCEPT ![r] = NoProvider],
           stage \notin {"backoff", "calling"},
           fb[r].index <= Len(Candidates) \/ stage \in {"candidate", "unavailable"},
           stage \in {"candidate", "unavailable", "idle"} => fb[r].attempt = 0,
           fb[r].stage \in Answered => stage \in Answered
    PROVE  \E t \in Loops, x \in Providers \cup {NoProvider} : Moves(r, t, x)
<1> DEFINE t == [fb[r] EXCEPT !.stage = stage]
<1>1. fb \in [Requests -> Loops] /\ fb[r] \in Loops /\ LoopSound(fb[r], inflight[r])
  BY DEF FInv
<1>2. /\ t \in Loops /\ t.stage = stage /\ t.index = fb[r].index
      /\ t.attempt = fb[r].attempt /\ t.calls = fb[r].calls
  BY <1>1 DEF Loops
<1>3. fb' = [fb EXCEPT ![r] = t]  BY <1>1 DEF Goto
<1> HIDE DEF t
<1>4. LoopSound(t, NoProvider)
  BY <1>1, <1>2 DEF LoopSound
<1> QED  BY <1>2, <1>3, <1>4 DEF Moves

\* Giving up a candidate, its call returned.
LEMMA GiveUpSound ==
    ASSUME FInv, NEW r \in Requests, NextCandidate(r), fb[r].index <= Len(Candidates),
           inflight' = [inflight EXCEPT ![r] = NoProvider], fb[r].stage \notin Answered
    PROVE  \E t \in Loops, x \in Providers \cup {NoProvider} : Moves(r, t, x)
BY NextCandidateSound DEF Moves

\* An error that may be retried: a backoff while attempts are left.
LEMMA RetrySound ==
    ASSUME FInv, NEW r \in Requests, NEW attempt \in 0..MaxAttempts,
           AfterRetryableError(r, attempt), fb[r].index <= Len(Candidates),
           fb[r].attempt <= attempt,
           inflight' = [inflight EXCEPT ![r] = NoProvider], fb[r].stage \notin Answered
    PROVE  \E t \in Loops, x \in Providers \cup {NoProvider} : Moves(r, t, x)
<1>1. CASE attempt >= MaxAttempts
  BY <1>1, GiveUpSound DEF AfterRetryableError
<1>2. CASE ~(attempt >= MaxAttempts)
  <2> DEFINE t == [fb[r] EXCEPT !.stage = "backoff", !.attempt = attempt]
  <2>1. fb \in [Requests -> Loops] /\ fb[r] \in Loops /\ LoopSound(fb[r], inflight[r])
    BY DEF FInv
  <2>2. attempt \in 0..MaxAttempts /\ attempt < MaxAttempts /\ "backoff" \in Stages
    BY <1>2, AttemptsAssumption DEF Stages
  <2>3. /\ t \in Loops /\ t.stage = "backoff" /\ t.index = fb[r].index
        /\ t.attempt = attempt /\ t.calls = fb[r].calls
    BY <2>1, <2>2 DEF Loops
  <2>4. fb' = [fb EXCEPT ![r] = t]  BY <1>2, <2>1 DEF AfterRetryableError
  <2> HIDE DEF t
  <2>5. PICK k, a, n : k = MaxAttempts * (fb[r].index - 1) /\ a = fb[r].attempt /\ n = fb[r].calls
    OBVIOUS
  <2>6. fb[r].index - 1 \in Nat /\ a \in Nat /\ n \in Nat
    BY <2>1, <2>5, CandidatesAssumption DEF Loops
  <2>7. k \in Nat /\ n <= k + a
    BY <2>1, <2>5, <2>6, Budget DEF LoopSound
  <2>8. n <= k + attempt  BY <2>2, <2>5, <2>6, <2>7
  <2>9. LoopSound(t, NoProvider)
    BY <2>2, <2>3, <2>5, <2>8 DEF LoopSound
  <2> QED  BY <2>3, <2>4, <2>9 DEF Moves
<1> QED  BY <1>1, <1>2

\* One turn of the retry loop.
LEMMA AttemptSound ==
    ASSUME FInv, NEW r \in Requests, Attempt(r, fb[r].attempt + 1),
           fb[r].stage \in {"candidate", "backoff"}, fb[r].index <= Len(Candidates)
    PROVE  \E t \in Loops, x \in Providers \cup {NoProvider} : Moves(r, t, x)
<1>1. fb \in [Requests -> Loops] /\ fb[r] \in Loops /\ LoopSound(fb[r], inflight[r])
  BY DEF FInv
<1>2. PICK attempt : attempt = fb[r].attempt + 1  OBVIOUS
<1>3. attempt \in 1..MaxAttempts /\ fb[r].attempt <= attempt /\ fb[r].attempt \in Nat
  BY <1>1, <1>2, AttemptsAssumption DEF LoopSound, Loops
<1>4. fb[r].stage \notin Answered /\ fb[r].stage # "calling"  BY DEF Answered
<1>5. CASE NextCandidate(r) /\ UNCHANGED breakerVars
  BY <1>4, <1>5, NoCallKept, GiveUpSound DEF breakerVars
<1>6. CASE AfterRetryableError(r, attempt) /\ UNCHANGED breakerVars
  <2>1. attempt \in 0..MaxAttempts  BY <1>3
  <2> QED  BY <1>3, <1>4, <1>6, <2>1, NoCallKept, RetrySound DEF breakerVars
<1>7. CASE /\ r \notin aborted /\ Admit(r, Candidate(r))
           /\ fb' = [fb EXCEPT ![r].stage = "calling", ![r].attempt = attempt,
                               ![r].calls = @ + 1]
  <2> DEFINE t == [fb[r] EXCEPT !.stage = "calling", !.attempt = attempt, !.calls = @ + 1]
  <2>1. attempt \in 0..MaxAttempts /\ fb[r].calls + 1 \in Nat /\ "calling" \in Stages
    BY <1>1, <1>3, AttemptsAssumption DEF Stages, Loops
  <2>2. /\ t \in Loops /\ t.stage = "calling" /\ t.index = fb[r].index
        /\ t.attempt = attempt /\ t.calls = fb[r].calls + 1
    BY <1>1, <2>1 DEF Loops
  <2>3. fb' = [fb EXCEPT ![r] = t]  BY <1>1, <1>7
  <2>4. inflight' = [inflight EXCEPT ![r] = Candidate(r)]
    BY <1>7 DEF Admit, AdmitClosed, AdmitFirstTrial, AdmitTrial
  <2>5. PICK p \in Providers : p = Candidate(r)  BY CandidateType
  <2> HIDE DEF t
  <2>6. PICK k, n : k = MaxAttempts * (fb[r].index - 1) /\ n = fb[r].calls
    OBVIOUS
  <2>7. fb[r].index - 1 \in Nat /\ n \in Nat
    BY <1>1, <2>6, CandidatesAssumption DEF Loops
  <2>8. k \in Nat /\ n <= k + fb[r].attempt
    BY <1>1, <2>6, <2>7, Budget DEF LoopSound
  <2>9. n + 1 <= k + attempt  BY <1>2, <1>3, <2>7, <2>8
  <2>10. LoopSound(t, p)
    BY <2>2, <2>5, <2>6, <2>9 DEF LoopSound, Candidate
  <2>11. Moves(r, t, p)
    BY <1>4, <1>7, <2>3, <2>4, <2>5, <2>10 DEF Moves
  <2> QED  BY <2>2, <2>11
<1> QED  BY <1>2, <1>5, <1>6, <1>7 DEF Attempt

\* Every step of a request moves its loop to a sound state.
LEMMA LoopMoves ==
    ASSUME FInv, NEW r \in Requests, StartFallback(r) \/ FallbackStep(r)
    PROVE  \E t \in Loops, x \in Providers \cup {NoProvider} : Moves(r, t, x)
<1> DEFINE Goal == \E t \in Loops, x \in Providers \cup {NoProvider} : Moves(r, t, x)
<1>1. fb[r] \in Loops /\ LoopSound(fb[r], inflight[r])
  BY DEF FInv
<1>2. fb[r].stage \in Stages /\ fb[r].index \in Nat /\ fb[r].attempt \in 0..MaxAttempts
  BY <1>1, CandidatesAssumption DEF Loops
<1>3. /\ fb[r].stage \notin {"candidate", "unavailable"} => fb[r].index <= Len(Candidates)
      /\ fb[r].stage \in {"idle", "candidate", "unavailable"} => fb[r].attempt = 0
  BY <1>1 DEF LoopSound
<1>4. ASSUME StartFallback(r) PROVE Goal
  BY <1>3, <1>4, NoCallKept, GotoSound DEF StartFallback, At, Answered, Stages, breakerVars
<1>5. ASSUME SkipOpenCandidate(r) PROVE Goal
  BY <1>5, NoCallKept, GiveUpSound DEF SkipOpenCandidate, At, Answered, breakerVars
<1>6. ASSUME TryCandidate(r) PROVE Goal
  <2>1. fb[r].attempt + 1 = 1  BY <1>3, <1>6 DEF TryCandidate, At
  <2>2. Attempt(r, fb[r].attempt + 1)
    BY <1>6, <2>1 DEF TryCandidate, Attempt, AfterRetryableError
  <2> QED  BY <1>6, <2>2, AttemptSound DEF TryCandidate, At
<1>7. ASSUME BackoffEnds(r) PROVE Goal
  BY <1>3, <1>7, AttemptSound DEF BackoffEnds, At
<1>8. ASSUME AllUnavailable(r) PROVE Goal
  BY <1>3, <1>8, NoCallKept, GotoSound DEF AllUnavailable, At, Answered, Stages, breakerVars
<1>9. ASSUME CallSucceeds(r) PROVE Goal
  BY <1>3, <1>9, GotoSound DEF CallSucceeds, At, Answered, Stages, Succeed, Return
<1>10. ASSUME NEW kind \in ErrorKinds, CallFails(r, kind) PROVE Goal
  <2>1. /\ fb[r].stage = "calling" /\ fb[r].index <= Len(Candidates)
        /\ fb[r].stage \notin Answered
    BY <1>3, <1>10 DEF CallFails, At, Answered
  <2>2. inflight' = [inflight EXCEPT ![r] = NoProvider]
    BY <1>10 DEF CallFails, FailCounted, FailUncounted, Return
  <2>3. PICK a : a = fb[r].attempt  OBVIOUS
  <2>4. a \in 0..MaxAttempts  BY <1>2, <2>3
  <2>5. CASE NextCandidate(r)  BY <2>1, <2>2, <2>5, GiveUpSound
  <2>6. CASE AfterRetryableError(r, fb[r].attempt)
    <3>1. AfterRetryableError(r, a) /\ fb[r].attempt <= a
      BY <1>2, <2>3, <2>6 DEF AfterRetryableError
    <3> QED  BY <2>1, <2>2, <2>4, <3>1, RetrySound
  <2> QED  BY <1>10, <2>5, <2>6 DEF CallFails
<1>11. ASSUME StreamEnds(r) \/ StreamFails(r) PROVE Goal
  BY <1>3, <1>11, NoCallKept, GotoSound
  DEF StreamEnds, StreamFails, At, Answered, Stages, breakerVars
<1> QED  BY <1>4, <1>5, <1>6, <1>7, <1>8, <1>9, <1>10, <1>11 DEF FallbackStep

\* The loop drives the breaker only through execute.
LEMMA LoopDrivesBreaker ==
    ASSUME FInv, FallbackNext
    PROVE  [BreakerNext]_breakerVars
<1>1. ASSUME NEW r \in Requests, Attempt(r, 1) \/ Attempt(r, fb[r].attempt + 1),
             fb[r].index <= Len(Candidates)
      PROVE  [BreakerNext]_breakerVars
  <2>1. UNCHANGED breakerVars \/ Admit(r, Candidate(r))  BY <1>1 DEF Attempt
  <2>2. PICK p \in Providers : p = Candidate(r)  BY <1>1, CandidateType
  <2>3. CASE Admit(r, Candidate(r))
    <3>1. Admit(r, p)
      BY <2>2, <2>3 DEF Admit, AdmitClosed, AdmitFirstTrial, AdmitTrial, HasCooldownElapsed
    <3> QED  BY <3>1 DEF BreakerNext, Requests
  <2> QED  BY <2>1, <2>3
<1>2. ASSUME NEW r \in Requests, fb[r].stage = "calling",
             \/ Succeed(r, Candidate(r)) \/ FailCounted(r, Candidate(r))
             \/ FailUncounted(r, Candidate(r))
      PROVE  [BreakerNext]_breakerVars
  <2>1. fb[r].index <= Len(Candidates)  BY <1>2 DEF FInv, LoopSound
  <2>2. PICK p \in Providers : p = Candidate(r)  BY <2>1, CandidateType
  <2>3. Succeed(r, p) \/ FailCounted(r, p) \/ FailUncounted(r, p)
    BY <1>2, <2>2 DEF Succeed, FailCounted, FailUncounted, RecordSuccess, RecordFailure,
                      OpenCircuit, CountFailure, GiveBackTrial
  <2> QED  BY <2>2, <2>3 DEF BreakerNext, Finish, Requests
<1>3. ASSUME NEW r \in Requests, FallbackStep(r)
      PROVE  [BreakerNext]_breakerVars
  <2>1. CASE SkipOpenCandidate(r) \/ AllUnavailable(r) \/ StreamEnds(r) \/ StreamFails(r)
    BY <2>1 DEF SkipOpenCandidate, AllUnavailable, StreamEnds, StreamFails
  <2>2. CASE TryCandidate(r)  BY <1>1, <2>2 DEF TryCandidate
  <2>3. CASE BackoffEnds(r)
    <3>1. fb[r].index <= Len(Candidates)  BY <2>3 DEF BackoffEnds, At, FInv, LoopSound
    <3> QED  BY <1>1, <2>3, <3>1 DEF BackoffEnds
  <2>4. CASE CallSucceeds(r)  BY <1>2, <2>4 DEF CallSucceeds, At
  <2>5. CASE \E kind \in ErrorKinds : CallFails(r, kind)
    BY <1>2, <2>5 DEF CallFails, At
  <2> QED  BY <1>3, <2>1, <2>2, <2>3, <2>4, <2>5 DEF FallbackStep
<1>4. ASSUME NEW r \in Requests, StartFallback(r) \/ Abort(r)
      PROVE  [BreakerNext]_breakerVars
  BY <1>4 DEF StartFallback, Abort
<1>5. ASSUME TimePasses
      PROVE  [BreakerNext]_breakerVars
  BY <1>5 DEF TimePasses, BreakerNext
<1> QED  BY <1>3, <1>4, <1>5 DEF FallbackNext

\* A circuit is opened only by an error that speaks against its provider or
\* its caller.
LEMMA OpensForCause ==
    ASSUME FInv, FallbackNext
    PROVE  OnlyAvailabilityOpens' /\ atFault' \subseteq Providers \X Blames
<1>1. /\ OnlyAvailabilityOpens /\ atFault \subseteq Providers \X Blames
      /\ state \in [Providers -> States]
  BY DEF FInv, CInv, BreakerTypeOK
<1>2. ASSUME atFault' = atFault,
             \A p \in Providers : state'[p] = "OPEN" => state[p] = "OPEN"
      PROVE  OnlyAvailabilityOpens' /\ atFault' \subseteq Providers \X Blames
  BY <1>1, <1>2 DEF OnlyAvailabilityOpens
<1>3. ASSUME NEW r \in Requests, Attempt(r, 1) \/ Attempt(r, fb[r].attempt + 1)
      PROVE  \A p \in Providers : state'[p] = "OPEN" => state[p] = "OPEN"
  BY <1>1, <1>3 DEF Attempt, Admit, AdmitClosed, AdmitFirstTrial, AdmitTrial, breakerVars,
                    circuitVars
<1>4. ASSUME NEW r \in Requests, NEW kind \in ErrorKinds, CallFails(r, kind)
      PROVE  OnlyAvailabilityOpens' /\ atFault' \subseteq Providers \X Blames
  <2>1. fb[r].index <= Len(Candidates)  BY <1>4 DEF CallFails, At, FInv, LoopSound
  <2>2. PICK p \in Providers : p = Candidate(r)  BY <2>1, CandidateType
  <2>3. atFault' = atFault \cup ({p} \X Blame(kind))  BY <1>4, <2>2 DEF CallFails
  <2>4. Blame(kind) \subseteq Blames  BY DEF Blame, Blames
  <2>5. atFault' \subseteq Providers \X Blames  BY <1>1, <2>3, <2>4
  <2>6. \A o \in Providers : atFault \cap ({o} \X Blames) # {}
                                => atFault' \cap ({o} \X Blames) # {}
    BY <2>3
  <2>7. CASE ShouldRetry(NormalizeGroqError(kind))
    <3>1. \A o \in Providers \ {p} : state'[o] = state[o]
      BY <1>1, <1>4, <2>2, <2>7 DEF CallFails, FailCounted, RecordFailure, OpenCircuit
    <3>2. PICK b \in Blames : b \in Blame(kind)  BY <2>4, <2>7, RetryableHasBlame
    <3>3. <<p, b>> \in atFault' \cap ({p} \X Blames)  BY <2>3, <3>2
    <3> QED  BY <1>1, <2>5, <2>6, <3>1, <3>3 DEF OnlyAvailabilityOpens
  <2>8. CASE ~ShouldRetry(NormalizeGroqError(kind))
    <3>1. state' = state
      BY <1>4, <2>8 DEF CallFails, FailUncounted, GiveBackTrial
    <3> QED  BY <1>1, <2>5, <2>6, <3>1 DEF OnlyAvailabilityOpens
  <2> QED  BY <2>7, <2>8
<1>5. ASSUME NEW r \in Requests, FallbackStep(r)
      PROVE  OnlyAvailabilityOpens' /\ atFault' \subseteq Providers \X Blames
  <2>1. CASE SkipOpenCandidate(r) \/ AllUnavailable(r) \/ StreamEnds(r) \/ StreamFails(r)
    BY <1>2, <2>1 DEF SkipOpenCandidate, AllUnavailable, StreamEnds, StreamFails,
                      breakerVars, circuitVars
  <2>2. CASE TryCandidate(r)  BY <1>2, <1>3, <2>2 DEF TryCandidate
  <2>3. CASE BackoffEnds(r)  BY <1>2, <1>3, <2>3 DEF BackoffEnds
  <2>4. CASE CallSucceeds(r)
    <3>1. \A p \in Providers : state'[p] = "OPEN" => state[p] = "OPEN"
      BY <1>1, <2>4 DEF CallSucceeds, Succeed, RecordSuccess
    <3> QED  BY <1>2, <2>4, <3>1 DEF CallSucceeds
  <2> QED  BY <1>4, <1>5, <2>1, <2>2, <2>3, <2>4 DEF FallbackStep
<1>6. ASSUME NEW r \in Requests, StartFallback(r) \/ Abort(r)
      PROVE  OnlyAvailabilityOpens' /\ atFault' \subseteq Providers \X Blames
  BY <1>2, <1>6 DEF StartFallback, Abort, breakerVars, circuitVars
<1>7. ASSUME TimePasses
      PROVE  OnlyAvailabilityOpens' /\ atFault' \subseteq Providers \X Blames
  BY <1>2, <1>7 DEF TimePasses, Tick
<1> QED  BY <1>5, <1>6, <1>7 DEF FallbackNext

\* Nobody but r moves in a step of r.
LEMMA OthersStay ==
    ASSUME FInv, NEW r \in Requests, NEW t, NEW x, Moves(r, t, x)
    PROVE  /\ fb'[r] = t /\ inflight'[r] = x
           /\ \A s \in Requests \ {r} : fb'[s] = fb[s] /\ inflight'[s] = inflight[s]
BY DEF FInv, CInv, BreakerTypeOK, Requests, Moves

\* Every step of the loop keeps its invariant.
LEMMA FInvStep == FInv /\ [FallbackNext]_fallbackVars => FInv'
<1> SUFFICES ASSUME FInv, [FallbackNext]_fallbackVars PROVE FInv'
  OBVIOUS
<1>1. CASE UNCHANGED fallbackVars
  <2>1. CInv'  BY <1>1, CInvStep DEF FInv, fallbackVars
  <2> QED
    BY <1>1, <2>1 DEF FInv, fallbackVars, breakerVars, circuitVars, OnlyAvailabilityOpens
<1>2. CASE FallbackNext
  <2>1. CInv'  BY <1>2, LoopDrivesBreaker, CInvStep DEF FInv
  <2>2. OnlyAvailabilityOpens' /\ atFault' \subseteq Providers \X Blames
    BY <1>2, OpensForCause
  <2>3. ASSUME fb' = fb, inflight' = inflight
        PROVE  /\ fb' \in [Requests -> Loops]
               /\ \A s \in Requests : LoopSound(fb'[s], inflight'[s])
    BY <2>3 DEF FInv
  <2>4. ASSUME NEW r \in Requests, StartFallback(r) \/ FallbackStep(r)
        PROVE  FInv'
    <3>1. PICK t \in Loops, x \in Providers \cup {NoProvider} : Moves(r, t, x)
      BY <2>4, LoopMoves
    <3>2. /\ fb' \in [Requests -> Loops]
          /\ \A s \in Requests : LoopSound(fb'[s], inflight'[s])
      BY <3>1, OneLoop DEF Moves
    <3>3. aborted' = aborted
      BY <2>4 DEF StartFallback, FallbackStep, SkipOpenCandidate, TryCandidate, BackoffEnds,
                  AllUnavailable, CallSucceeds, CallFails, StreamEnds, StreamFails
    <3> QED  BY <2>1, <2>2, <3>2, <3>3 DEF FInv
  <2>5. ASSUME NEW r \in Requests, Abort(r)
        PROVE  FInv'
    <3>1. fb' = fb /\ inflight' = inflight /\ aborted' = aborted \cup {r}
      BY <2>5 DEF Abort, breakerVars
    <3> QED  BY <2>1, <2>2, <2>3, <3>1 DEF FInv
  <2>6. ASSUME TimePasses
        PROVE  FInv'
    <3>1. fb' = fb /\ inflight' = inflight /\ aborted' = aborted
      BY <2>6 DEF TimePasses, Tick
    <3> QED  BY <2>1, <2>2, <2>3, <3>1 DEF FInv
  <2> QED  BY <1>2, <2>4, <2>5, <2>6 DEF FallbackNext
<1> QED  BY <1>1, <1>2

\* The loop's inductive invariant holds in every state.
THEOREM FallbackInvariant == FallbackSpec => []FInv
  BY InitFInv, FInvStep, PTL DEF FallbackSpec

\* The circuits stay sound under the loop.
THEOREM FallbackCircuitsSound == FallbackSpec => []CircuitSound
<1>1. FInv => CircuitSound  BY DEF FInv, CInv, CircuitSound
<1> QED  BY <1>1, FallbackInvariant, PTL

\* One client request costs at most maxAttempts calls per candidate, and a
\* circuit opens only after a failure that counts (retryProviderOperation,
\* shouldRetryProviderError).
THEOREM FallbackIsSound == FallbackSpec => []FallbackSound
<1>1. ASSUME FInv PROVE FallbackSound
  <2>1. FallbackTypeOK  BY <1>1 DEF FInv, CInv, FallbackTypeOK, Loops
  <2>2. CallsBounded
    <3> SUFFICES ASSUME NEW r \in Requests
                 PROVE  fb[r].calls <= MaxAttempts * Len(Candidates)
      BY DEF CallsBounded
    <3>1. fb[r] \in Loops /\ LoopSound(fb[r], inflight[r])  BY <1>1 DEF FInv
    <3>2. PICK i, a, n : i = fb[r].index /\ a = fb[r].attempt /\ n = fb[r].calls
      OBVIOUS
    <3>3. Len(Candidates) \in Nat  BY CandidatesAssumption
    <3>4. /\ i \in Nat \ {0} /\ i <= Len(Candidates) + 1 /\ a \in 0..MaxAttempts /\ n \in Nat
          /\ n <= MaxAttempts * (i - 1) + a
          /\ i <= Len(Candidates) \/ a = 0
      BY <3>1, <3>2, <3>3 DEF Loops, LoopSound
    <3>5. PICK k \in Nat : k = MaxAttempts * (i - 1)  BY <3>4, Budget
    <3>6. PICK full \in Nat : full = MaxAttempts * Len(Candidates)  BY <3>3, Budget
    <3>7. CASE i <= Len(Candidates)
      <4>1. MaxAttempts * i = k + MaxAttempts  BY <3>4, <3>5, Budget
      <4>2. MaxAttempts * i <= full  BY <3>3, <3>4, <3>6, <3>7, Budget
      <4>3. n <= k + a /\ a <= MaxAttempts  BY <3>4, <3>5
      <4>4. k + MaxAttempts <= full  BY <4>1, <4>2
      <4>5. n <= full  BY <3>4, <4>3, <4>4, AttemptsAssumption
      <4> QED  BY <3>2, <3>6, <4>5
    <3>8. CASE a = 0
      <4>1. k <= full  BY <3>3, <3>4, <3>5, <3>6, Budget
      <4> QED  BY <3>2, <3>4, <3>5, <3>6, <3>8, <4>1
    <3> QED  BY <3>4, <3>7, <3>8
  <2> QED  BY <1>1, <2>1, <2>2 DEF FInv, FallbackSound
<1> QED  BY <1>1, FallbackInvariant, PTL

\* Once the signal has fired no call is started, and a request that has
\* received a chunk stays with its provider and calls nobody any more
\* (executeProviderRetry, streamWithOrderedFallback).
THEOREM FallbackCallsInOrder == FallbackSpec => CallsStayInOrder
<1> DEFINE Quiet == \A r \in aborted : inflight[r] = NoProvider => inflight'[r] = NoProvider
           Stays == \A r \in Requests :
                       fb[r].stage \in {"streaming", "ended", "failed"} =>
                           /\ fb'[r].stage \in {"streaming", "ended", "failed"}
                           /\ fb'[r].index = fb[r].index
                           /\ inflight'[r] = NoProvider
<1>1. ASSUME FInv, [FallbackNext]_fallbackVars
      PROVE  Quiet /\ Stays
  <2>1. aborted \subseteq Requests  BY <1>1 DEF FInv
  <2>2. \A r \in Requests : fb[r].stage \in Answered => inflight[r] = NoProvider
    BY <1>1 DEF FInv, LoopSound, Answered
  <2>3. ASSUME NEW r \in Requests, StartFallback(r) \/ FallbackStep(r)
        PROVE  Quiet /\ Stays
    <3>1. PICK t \in Loops, x \in Providers \cup {NoProvider} : Moves(r, t, x)
      BY <1>1, <2>3, LoopMoves
    <3>2. /\ fb'[r] = t /\ inflight'[r] = x
          /\ \A s \in Requests \ {r} : fb'[s] = fb[s] /\ inflight'[s] = inflight[s]
      BY <1>1, <3>1, OthersStay
    <3>3. Quiet  BY <2>1, <3>1, <3>2 DEF Moves
    <3>4. t.stage \in Answered => x = NoProvider
      BY <3>1 DEF Moves, LoopSound, Answered
    <3>5. Stays  BY <2>2, <3>1, <3>2, <3>4 DEF Moves, Answered
    <3> QED  BY <3>3, <3>5
  <2>4. ASSUME fb' = fb, inflight' = inflight
        PROVE  Quiet /\ Stays
    BY <2>2, <2>4 DEF Answered
  <2>5. CASE TimePasses \/ \E r \in Requests : Abort(r)
    <3>1. fb' = fb /\ inflight' = inflight
      BY <2>5 DEF TimePasses, Tick, Abort, breakerVars
    <3> QED  BY <2>4, <3>1
  <2>6. CASE UNCHANGED fallbackVars
    <3>1. fb' = fb /\ inflight' = inflight  BY <2>6 DEF fallbackVars, breakerVars
    <3> QED  BY <2>4, <3>1
  <2> QED  BY <1>1, <2>3, <2>5, <2>6 DEF FallbackNext
<1>2. FInv /\ [FallbackNext]_fallbackVars => [Quiet]_fallbackVars /\ [Stays]_fallbackVars
  BY <1>1
<1>3. FallbackSpec => [][Quiet]_fallbackVars /\ [][Stays]_fallbackVars
  <2> HIDE DEF Quiet, Stays
  <2> QED  BY <1>2, FallbackInvariant, PTL DEF FallbackSpec
<1> QED  BY <1>3 DEF CallsStayInOrder, NoCallAfterAbort, NoSwitchMidStream
=============================================================================

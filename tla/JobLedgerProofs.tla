-------------------------- MODULE JobLedgerProofs --------------------------
(***************************************************************************)
(* Safety of the job ledger for any number of jobs, workers, stalls and    *)
(* faults of every kind.                                                   *)
(*                                                                         *)
(* AnalyticsExclusive is not inductive: that a new claim finds no other    *)
(* claimant needs to know that the document of an analytics claimant is    *)
(* not deleted under it.  CompletedMeansApplied needs that the worker      *)
(* about to complete has applied.  Both are parts of ClaimsOK; the bounds  *)
(* on attempts and stalls need QueueOK.                                    *)
(***************************************************************************)
EXTENDS JobLedger, TLAPS

\* The facts about claims and the ledger that the theorems rest on.
ClaimsOK ==
    /\ CompletedMeansApplied
    /\ \A w \in Workers : stage[w] = "complete" => runJob[w] \in applied
    /\ \A w \in Workers :
           Claiming(w) /\ runJob[w] \notin BillingJobs => ledger[runJob[w]] # "NONE"
    /\ AnalyticsExclusive

\* A job that may still run has attempts and stalls left, and only an active
\* job is locked.
QueueOK ==
    \A j \in Jobs :
        /\ jobState[j] \in {"waiting", "active"} =>
               attemptsMade[j] < JobAttempts /\ stalls[j] <= MaxStalls
        /\ holder[j] # Nobody => jobState[j] = "active"

LInv == LedgerTypeOK /\ QueueOK /\ ClaimsOK

\* The invariant holds before anything is published.
LEMMA InitLInv == LedgerInit => LInv
  BY JobAssumption, LimitAssumption
  DEF LedgerInit, LInv, LedgerTypeOK, QueueOK, ClaimsOK, CompletedMeansApplied,
      AnalyticsExclusive, Claiming, JobStates, WorkerStages, LedgerStates

-----------------------------------------------------------------------------
(***************************************************************************)
(* Types and the queue.                                                    *)
(***************************************************************************)
\* A worker's own steps move it between stages and leave the queue alone.
StageEffect(w) ==
    /\ \E next \in WorkerStages : stage' = [stage EXCEPT ![w] = next]
    /\ ledger' \in [Jobs -> LedgerStates]
    /\ applied' \subseteq Jobs
    /\ faults' \in Nat
    /\ UNCHANGED <<queueVars, runJob, runAttempts>>
    /\ stage[w] # "idle"

\* A worker's move keeps the types of the worker variables.
LEMMA StageEffectStep ==
    ASSUME LedgerTypeOK, QueueOK, NEW w \in Workers, StageEffect(w)
    PROVE  LedgerTypeOK' /\ QueueOK'
  BY DEF LedgerTypeOK, QueueOK, StageEffect, queueVars

\* Every step of a processor, before it returns, is such a move.
LEMMA WorkerStageEffect ==
    ASSUME LedgerTypeOK, NEW w \in Workers,
           \/ Acquire(w) \/ Lookup(w) \/ Apply(w) \/ Complete(w) \/ ReleaseClaim(w)
    PROVE  StageEffect(w)
<1>1. CASE Acquire(w)
  BY <1>1 DEF StageEffect, LedgerTypeOK, Acquire, Goto, Fault, WorkerStages, LedgerStates
<1>2. CASE Lookup(w)
  BY <1>2 DEF StageEffect, LedgerTypeOK, Lookup, Goto, Fault, WorkerStages
<1>3. CASE Apply(w)
  BY <1>3 DEF StageEffect, LedgerTypeOK, Apply, Goto, Fault, WorkerStages
<1>4. CASE Complete(w)
  BY <1>4 DEF StageEffect, LedgerTypeOK, Complete, Goto, Fault, WorkerStages, LedgerStates
<1>5. CASE ReleaseClaim(w)
  BY <1>5 DEF StageEffect, LedgerTypeOK, ReleaseClaim, DeleteProcessing, Goto, Fault,
      WorkerStages, LedgerStates
<1>6. QED  BY <1>1, <1>2, <1>3, <1>4, <1>5

\* Every step preserves the type invariant.
LEMMA TypeStep ==
    ASSUME LedgerTypeOK, QueueOK, [LedgerNext]_ledgerVars
    PROVE  LedgerTypeOK' /\ QueueOK'
<1> USE JobAssumption, LimitAssumption
<1>1. ASSUME NEW w \in Workers, WorkerStep(w) PROVE LedgerTypeOK' /\ QueueOK'
  <2>1. CASE JobReturns(w)
    BY <2>1 DEF LedgerTypeOK, QueueOK, JobReturns, Idle, HoldsLock, Goto, WorkerStages, JobStates
  <2>2. CASE JobThrows(w)
    BY <2>2 DEF LedgerTypeOK, QueueOK, JobThrows, Idle, HoldsLock, Goto, WorkerStages, JobStates
  <2>3. QED  BY <1>1, <2>1, <2>2, StageEffectStep, WorkerStageEffect DEF WorkerStep
<1>2. ASSUME NEW w \in Workers, Crash(w) PROVE LedgerTypeOK' /\ QueueOK'
  BY <1>2 DEF LedgerTypeOK, QueueOK, Crash, Idle, HoldsLock, Goto, Fault, WorkerStages
<1>3. ASSUME NEW w \in Workers, NEW j \in Jobs, Deliver(w, j)
      PROVE  LedgerTypeOK' /\ QueueOK'
  BY <1>3 DEF LedgerTypeOK, QueueOK, Deliver, Goto, WorkerStages, JobStates
<1>4. ASSUME NEW j \in Jobs, PublishJob(j) PROVE LedgerTypeOK' /\ QueueOK'
  BY <1>4 DEF LedgerTypeOK, QueueOK, PublishJob, Publish, workerVars, JobStates
<1>5. ASSUME NEW j \in Jobs, Stall(j) PROVE LedgerTypeOK' /\ QueueOK'
  BY <1>5 DEF LedgerTypeOK, QueueOK, Stall, StalledTooOften, Fault, workerVars, JobStates
<1>6. ASSUME NEW j \in Jobs, Evict(j) PROVE LedgerTypeOK' /\ QueueOK'
  BY <1>6 DEF LedgerTypeOK, QueueOK, Evict, workerVars, JobStates
<1>7. CASE UNCHANGED ledgerVars
  BY <1>7 DEF LedgerTypeOK, QueueOK, ledgerVars, queueVars, workerVars
<1>8. QED  BY <1>1, <1>2, <1>3, <1>4, <1>5, <1>6, <1>7 DEF LedgerNext

-----------------------------------------------------------------------------
(***************************************************************************)
(* Claims.                                                                 *)
(***************************************************************************)
\* A step that leaves ledger and aggregates alone and lets no worker enter
\* the part of the processor that holds a claim.
NoNewClaim ==
    /\ UNCHANGED <<ledger, applied>>
    /\ \A w \in Workers :
           Claiming(w)' => stage'[w] = stage[w] /\ runJob'[w] = runJob[w]

\* A step that claims nothing keeps the claims in order.
LEMMA NoNewClaimStep == ASSUME ClaimsOK, NoNewClaim PROVE ClaimsOK'
  BY DEF ClaimsOK, NoNewClaim, CompletedMeansApplied, AnalyticsExclusive, Claiming

\* What BullMQ does on its own claims nothing.
LEMMA QueueStepClaims ==
    ASSUME LInv,
           \/ \E w \in Workers : Crash(w) \/ JobReturns(w) \/ JobThrows(w)
           \/ \E w \in Workers, j \in Jobs : Deliver(w, j)
           \/ \E j \in Jobs : PublishJob(j) \/ Stall(j) \/ Evict(j)
    PROVE  NoNewClaim
<1>1. ASSUME NEW w \in Workers, Crash(w) PROVE NoNewClaim
  BY <1>1 DEF LInv, LedgerTypeOK, NoNewClaim, Claiming, Crash, Idle, Goto
<1>2. ASSUME NEW w \in Workers, JobReturns(w) PROVE NoNewClaim
  BY <1>2 DEF LInv, LedgerTypeOK, NoNewClaim, Claiming, JobReturns, Idle, Goto
<1>3. ASSUME NEW w \in Workers, JobThrows(w) PROVE NoNewClaim
  BY <1>3 DEF LInv, LedgerTypeOK, NoNewClaim, Claiming, JobThrows, Idle, Goto
<1>4. ASSUME NEW w \in Workers, NEW j \in Jobs, Deliver(w, j) PROVE NoNewClaim
  BY <1>4 DEF LInv, LedgerTypeOK, NoNewClaim, Claiming, Deliver, Goto
<1>5. ASSUME NEW j \in Jobs, PublishJob(j) \/ Stall(j) \/ Evict(j) PROVE NoNewClaim
  BY <1>5 DEF NoNewClaim, Claiming, PublishJob, Stall, Evict, workerVars
<1>6. QED  BY <1>1, <1>2, <1>3, <1>4, <1>5

\* The five steps inside the processor.
LEMMA WorkerClaims ==
    ASSUME LInv, LedgerTypeOK', NEW w \in Workers,
           \/ Acquire(w) \/ Lookup(w) \/ Apply(w) \/ Complete(w) \/ ReleaseClaim(w)
    PROVE  ClaimsOK'
<1> DEFINE j == runJob[w]
<1>0. j \in Jobs
  BY DEF LInv, LedgerTypeOK, Acquire, Lookup, Apply, Complete, ReleaseClaim
<1>1. CASE Acquire(w)
  BY <1>0, <1>1 DEF LInv, LedgerTypeOK, LedgerStates, ClaimsOK, CompletedMeansApplied,
      AnalyticsExclusive, Claiming, Acquire, Goto
<1>2. CASE Lookup(w)
  BY <1>0, <1>2 DEF LInv, LedgerTypeOK, ClaimsOK, CompletedMeansApplied,
      AnalyticsExclusive, Claiming, Lookup, MayTakeOver, Goto
<1>3. CASE Apply(w)
  BY <1>0, <1>3 DEF LInv, LedgerTypeOK, ClaimsOK, CompletedMeansApplied,
      AnalyticsExclusive, Claiming, Apply, Goto
<1>4. CASE Complete(w)
  BY <1>0, <1>4 DEF LInv, LedgerTypeOK, ClaimsOK, CompletedMeansApplied,
      AnalyticsExclusive, Claiming, Complete, Goto
<1>5. CASE ReleaseClaim(w)
  BY <1>0, <1>5 DEF LInv, LedgerTypeOK, ClaimsOK, CompletedMeansApplied,
      AnalyticsExclusive, Claiming, ReleaseClaim, DeleteProcessing, Goto
<1>6. QED  BY <1>1, <1>2, <1>3, <1>4, <1>5

\* Every step keeps the invariant.
LEMMA LInvStep == LInv /\ [LedgerNext]_ledgerVars => LInv'
<1> SUFFICES ASSUME LInv, [LedgerNext]_ledgerVars PROVE LInv'
  OBVIOUS
<1>1. LedgerTypeOK' /\ QueueOK'
  BY TypeStep DEF LInv
<1>2. CASE UNCHANGED ledgerVars
  <2>1. NoNewClaim
    BY <1>2 DEF NoNewClaim, ledgerVars, workerVars
  <2>2. QED  BY <1>1, <2>1, NoNewClaimStep DEF LInv
<1>3. CASE LedgerNext
  <2>1. CASE \E w \in Workers : \/ Acquire(w) \/ Lookup(w) \/ Apply(w) \/ Complete(w)
                                 \/ ReleaseClaim(w)
    BY <1>1, <2>1, WorkerClaims DEF LInv
  <2>2. CASE \/ \E w \in Workers : Crash(w) \/ JobReturns(w) \/ JobThrows(w)
             \/ \E w \in Workers, k \in Jobs : Deliver(w, k)
             \/ \E k \in Jobs : PublishJob(k) \/ Stall(k) \/ Evict(k)
    BY <1>1, <2>2, QueueStepClaims, NoNewClaimStep DEF LInv
  <2>3. QED  BY <1>3, <2>1, <2>2 DEF LedgerNext, WorkerStep
<1>4. QED  BY <1>2, <1>3

-----------------------------------------------------------------------------
(***************************************************************************)
(* Theorems.                                                               *)
(***************************************************************************)
\* The inductive invariant of the job ledger.
THEOREM LedgerInvariant == LedgerSpec => []LInv
  BY InitLInv, LInvStep, PTL DEF LedgerSpec

\* No two workers process the same analytics scope at once, whatever locks
\* are lost and whatever writes fail.
THEOREM AnalyticsIsExclusive == LedgerSpec => []AnalyticsExclusive
<1>1. LInv => AnalyticsExclusive  BY DEF LInv, ClaimsOK
<1>2. QED  BY <1>1, LedgerInvariant, PTL

\* A COMPLETED document means that the aggregates were written.
THEOREM CompletedImpliesApplied == LedgerSpec => []CompletedMeansApplied
<1>1. LInv => CompletedMeansApplied  BY DEF LInv, ClaimsOK
<1>2. QED  BY <1>1, LedgerInvariant, PTL

CompletedKept == \A j \in Jobs : ledger[j] = "COMPLETED" => ledger'[j] = "COMPLETED"

\* No step of any worker or of the queue undoes a COMPLETED document.
LEMMA CompletedStep ==
    ASSUME LInv, [LedgerNext]_ledgerVars
    PROVE  CompletedKept
<1> USE DEF CompletedKept
<1>1. CASE UNCHANGED ledgerVars
  BY <1>1 DEF ledgerVars
<1>2. ASSUME NEW w \in Workers,
             \/ Acquire(w) \/ Lookup(w) \/ Apply(w) \/ Complete(w) \/ ReleaseClaim(w)
      PROVE  CompletedKept
  <2>1. runJob[w] \in Jobs
    BY <1>2 DEF LInv, LedgerTypeOK, Acquire, Lookup, Apply, Complete, ReleaseClaim
  <2>2. QED
    BY <1>2, <2>1 DEF LInv, LedgerTypeOK, Acquire, Lookup, Apply, Complete,
        ReleaseClaim, DeleteProcessing
<1>3. CASE \/ \E w \in Workers : Crash(w) \/ JobReturns(w) \/ JobThrows(w)
           \/ \E w \in Workers, k \in Jobs : Deliver(w, k)
           \/ \E k \in Jobs : PublishJob(k) \/ Stall(k) \/ Evict(k)
  BY <1>3, QueueStepClaims DEF NoNewClaim
<1>4. QED  BY <1>1, <1>2, <1>3 DEF LedgerNext, WorkerStep

\* COMPLETED is final: no step of any worker or of the queue undoes it.
THEOREM CompletedNeverUndone == LedgerSpec => CompletedIsFinal
<1>1. LInv /\ [LedgerNext]_ledgerVars => [CompletedKept]_ledgerVars
  BY CompletedStep
<1>2. LedgerSpec => [][CompletedKept]_ledgerVars
  BY <1>1, LedgerInvariant, PTL DEF LedgerSpec
<1>3. QED  BY <1>2 DEF CompletedKept, CompletedIsFinal

\* The claim protocol as a whole, for any number of jobs, workers and faults.
THEOREM LedgerIsSound == LedgerSpec => []LedgerSound
<1>1. LInv => LedgerSound  BY DEF LInv, ClaimsOK, LedgerSound
<1>2. QED  BY <1>1, LedgerInvariant, PTL
=============================================================================

----------------------------- MODULE JobLedger -----------------------------
(***************************************************************************)
(* Delivery of billing and analytics jobs to workers and the ledger that   *)
(* makes them idempotent (backend/src/features/billing/billing.worker.ts,  *)
(* analytics/analytics.worker.ts, their repositories, and                  *)
(* shared/async/bullmq.ts).                                                *)
(*                                                                         *)
(* A job is one (request, queue) scope: BullMQ deduplicates it by its job  *)
(* id, and the ledger holds one document per scope.  BullMQ itself is      *)
(* external and modelled by what the workers rely on: at-least-once        *)
(* delivery under a lock, three attempts, redelivery of a stalled job with *)
(* its attempt count unchanged, and removal of old finished jobs.  Losing  *)
(* the lock does not stop the worker that lost it.                         *)
(***************************************************************************)
EXTENDS Naturals, FiniteSets

CONSTANTS
    Jobs,           \* the scopes
    BillingJobs,    \* those of the billing queue; the others are analytics
    Workers,        \* processors that may run at the same time
    JobAttempts,    \* BULLMQ_JOB_ATTEMPTS
    MaxStalls,      \* BullMQ's maxStalledCount
    Faults,         \* which faults are explored
    MaxFaults,      \* bound: how many of them happen
    Nobody          \* no worker, no job

FaultKinds == {"acquire", "apply", "complete", "release", "stall", "crash",
               "publish", "scan"}

ASSUME JobAssumption == BillingJobs \subseteq Jobs /\ Nobody \notin Jobs \cup Workers
ASSUME LimitAssumption ==
    JobAttempts \in Nat \ {0} /\ MaxStalls \in Nat /\ MaxFaults \in Nat
ASSUME FaultsAssumption == Faults \subseteq FaultKinds

VARIABLES
    jobState,       \* jobState[j]: where BullMQ keeps the job
    attemptsMade,   \* attemptsMade[j]: failed attempts
    stalls,         \* stalls[j]: how often it was found stalled
    holder,         \* holder[j]: the worker that holds the job's lock
    ledger,         \* ledger[j]: "NONE", "PROCESSING" or "COMPLETED"
    applied,        \* history: jobs whose aggregates were written
    stage,          \* stage[w]: where worker w is in its processor
    runJob,         \* runJob[w]: the job it processes
    runAttempts,    \* runAttempts[w]: attemptsMade when it was delivered
    faults          \* faults so far

queueVars == <<jobState, attemptsMade, stalls, holder>>
workerVars == <<stage, runJob, runAttempts>>
ledgerVars == <<queueVars, ledger, applied, workerVars, faults>>

JobStates == {"missing", "waiting", "active", "completed", "failed"}
WorkerStages == {"idle", "acquire", "lookup", "apply", "complete", "release",
                 "return", "throw"}
LedgerStates == {"NONE", "PROCESSING", "COMPLETED"}

LedgerTypeOK ==
    /\ jobState \in [Jobs -> JobStates]
    /\ attemptsMade \in [Jobs -> 0..JobAttempts]
    /\ stalls \in [Jobs -> 0..(MaxStalls + 1)]
    /\ holder \in [Jobs -> Workers \cup {Nobody}]
    /\ ledger \in [Jobs -> LedgerStates]
    /\ applied \subseteq Jobs
    /\ stage \in [Workers -> WorkerStages]
    /\ runJob \in [Workers -> Jobs \cup {Nobody}]
    /\ runAttempts \in [Workers -> 0..JobAttempts]
    /\ faults \in Nat
    /\ \A w \in Workers : stage[w] # "idle" => runJob[w] \in Jobs

LedgerInit ==
    /\ jobState = [j \in Jobs |-> "missing"]
    /\ attemptsMade = [j \in Jobs |-> 0]
    /\ stalls = [j \in Jobs |-> 0]
    /\ holder = [j \in Jobs |-> Nobody]
    /\ ledger = [j \in Jobs |-> "NONE"]
    /\ applied = {}
    /\ stage = [w \in Workers |-> "idle"]
    /\ runJob = [w \in Workers |-> Nobody]
    /\ runAttempts = [w \in Workers |-> 0]
    /\ faults = 0

Fault(kind) == kind \in Faults /\ faults < MaxFaults /\ faults' = faults + 1

Goto(w, next) == stage' = [stage EXCEPT ![w] = next]

-----------------------------------------------------------------------------
(***************************************************************************)
(* BullMQ                                                                  *)
(***************************************************************************)
\* queue.add with a deterministic job id: a no-op while the job is kept.
Publish(j) ==
    IF jobState[j] = "missing"
    THEN /\ jobState' = [jobState EXCEPT ![j] = "waiting"]
         /\ attemptsMade' = [attemptsMade EXCEPT ![j] = 0]
         /\ stalls' = [stalls EXCEPT ![j] = 0]
         /\ UNCHANGED holder
    ELSE UNCHANGED queueVars

Deliver(w, j) ==
    /\ stage[w] = "idle" /\ jobState[j] = "waiting"
    /\ jobState' = [jobState EXCEPT ![j] = "active"]
    /\ holder' = [holder EXCEPT ![j] = w]
    /\ Goto(w, "acquire")
    /\ runJob' = [runJob EXCEPT ![w] = j]
    /\ runAttempts' = [runAttempts EXCEPT ![w] = attemptsMade[j]]
    /\ UNCHANGED <<attemptsMade, stalls, ledger, applied, faults>>

StalledTooOften(j) == stalls[j] >= MaxStalls

\* The lock of a job ran out: its worker died, or is too slow to renew it.
Stall(j) ==
    /\ jobState[j] = "active"
    /\ IF holder[j] = Nobody THEN UNCHANGED faults ELSE Fault("stall")
    /\ stalls' = [stalls EXCEPT ![j] = @ + 1]
    /\ jobState' = [jobState EXCEPT ![j] =
                       IF StalledTooOften(j) THEN "failed" ELSE "waiting"]
    /\ holder' = [holder EXCEPT ![j] = Nobody]
    /\ UNCHANGED <<attemptsMade, ledger, applied, workerVars>>

\* Finished jobs beyond the retention count are removed.
Evict(j) ==
    /\ jobState[j] \in {"completed", "failed"}
    /\ jobState' = [jobState EXCEPT ![j] = "missing"]
    /\ UNCHANGED <<attemptsMade, stalls, holder, ledger, applied, workerVars, faults>>

HoldsLock(w) == holder[runJob[w]] = w

Idle(w) ==
    /\ Goto(w, "idle")
    /\ runJob' = [runJob EXCEPT ![w] = Nobody]
    /\ runAttempts' = [runAttempts EXCEPT ![w] = 0]

\* The processor returned: the job is completed if the lock is still ours.
JobReturns(w) ==
    LET j == runJob[w] IN
    /\ stage[w] = "return"
    /\ IF HoldsLock(w)
       THEN /\ jobState' = [jobState EXCEPT ![j] = "completed"]
            /\ holder' = [holder EXCEPT ![j] = Nobody]
       ELSE UNCHANGED <<jobState, holder>>
    /\ Idle(w)
    /\ UNCHANGED <<attemptsMade, stalls, ledger, applied, faults>>

\* The processor threw: retried after a backoff until the attempts are used.
JobThrows(w) ==
    LET j == runJob[w] IN
    /\ stage[w] = "throw"
    /\ IF HoldsLock(w)
       THEN /\ attemptsMade' = [attemptsMade EXCEPT ![j] = @ + 1]
            /\ jobState' = [jobState EXCEPT ![j] =
                   IF attemptsMade[j] + 1 >= JobAttempts THEN "failed" ELSE "waiting"]
            /\ holder' = [holder EXCEPT ![j] = Nobody]
       ELSE UNCHANGED <<jobState, attemptsMade, holder>>
    /\ Idle(w)
    /\ UNCHANGED <<stalls, ledger, applied, faults>>

\* The worker process dies; the lock of its job runs out later.
Crash(w) ==
    /\ stage[w] # "idle"
    /\ Fault("crash")
    /\ holder' = IF HoldsLock(w) THEN [holder EXCEPT ![runJob[w]] = Nobody] ELSE holder
    /\ Idle(w)
    /\ UNCHANGED <<jobState, attemptsMade, stalls, ledger, applied>>

-----------------------------------------------------------------------------
(***************************************************************************)
(* processRequestCompletedBillingJob, processAnalyticsRequestOutcomeJob    *)
(***************************************************************************)
\* acquireJobProcessing, first half: create the PROCESSING document.
Acquire(w) ==
    LET j == runJob[w] IN
    /\ stage[w] = "acquire"
    /\ \/ /\ ledger[j] = "NONE"
          /\ ledger' = [ledger EXCEPT ![j] = "PROCESSING"]
          /\ Goto(w, "apply")
          /\ UNCHANGED faults
       \/ /\ ledger[j] # "NONE"
          /\ Goto(w, "lookup")
          /\ UNCHANGED <<ledger, faults>>
       \/ /\ ledger' \in IF ledger[j] = "NONE"
                         THEN {ledger, [ledger EXCEPT ![j] = "PROCESSING"]}
                         ELSE {ledger}
          /\ Goto(w, "throw")
          /\ Fault("acquire")
    /\ UNCHANGED <<queueVars, applied, runJob, runAttempts>>

\* Mutant: analytics takes over a PROCESSING claim on a retry, as billing does.
MayTakeOver_Always(w) == runAttempts[w] > 0

\* A PROCESSING claim found on delivery is taken over only by a billing retry.
MayTakeOver(w) == runJob[w] \in BillingJobs /\ runAttempts[w] > 0

\* Second half: the document existed; it may have been released meanwhile.
Lookup(w) ==
    LET found == ledger[runJob[w]] IN
    /\ stage[w] = "lookup"
    /\ \/ found = "NONE" /\ Goto(w, "throw") /\ UNCHANGED faults
       \/ found = "COMPLETED" /\ Goto(w, "return") /\ UNCHANGED faults
       \/ /\ found = "PROCESSING"
          /\ Goto(w, IF MayTakeOver(w) THEN "apply" ELSE "return")
          /\ UNCHANGED faults
       \/ Goto(w, "throw") /\ Fault("acquire")
    /\ UNCHANGED <<queueVars, ledger, applied, runJob, runAttempts>>

\* Read the authoritative log, recompute and write the aggregates (nothing to
\* write for a billing job without usage).  The log row exists and agrees with
\* the job, so the UnrecoverableError branches cannot happen.
Apply(w) ==
    /\ stage[w] = "apply"
    /\ \/ /\ applied' = applied \cup {runJob[w]}
          /\ Goto(w, "complete")
          /\ UNCHANGED faults
       \/ /\ applied' \in {applied, applied \cup {runJob[w]}}
          /\ Goto(w, "release")
          /\ Fault("apply")
    /\ UNCHANGED <<queueVars, ledger, runJob, runAttempts>>

\* completeJobProcessing: throws when the claim was lost.
Complete(w) ==
    LET j == runJob[w]
        done == [ledger EXCEPT ![j] = "COMPLETED"] IN
    /\ stage[w] = "complete"
    /\ \/ ledger[j] = "PROCESSING" /\ ledger' = done /\ Goto(w, "return") /\ UNCHANGED faults
       \/ ledger[j] # "PROCESSING" /\ Goto(w, "release") /\ UNCHANGED <<ledger, faults>>
       \/ /\ ledger' \in IF ledger[j] = "PROCESSING" THEN {ledger, done} ELSE {ledger}
          /\ Goto(w, "release")
          /\ Fault("complete")
    /\ UNCHANGED <<queueVars, applied, runJob, runAttempts>>

\* Mutant: the document is deleted whatever its state.
DeleteProcessing_AnyState(j) == [ledger EXCEPT ![j] = "NONE"]

DeleteProcessing(j) ==
    IF ledger[j] = "PROCESSING" THEN [ledger EXCEPT ![j] = "NONE"] ELSE ledger

\* releaseProcessingClaim: a failure is logged and the job fails regardless.
ReleaseClaim(w) ==
    LET j == runJob[w] IN
    /\ stage[w] = "release"
    /\ \/ ledger' = DeleteProcessing(j) /\ UNCHANGED faults
       \/ ledger' \in {ledger, DeleteProcessing(j)} /\ Fault("release")
    /\ Goto(w, "throw")
    /\ UNCHANGED <<queueVars, applied, runJob, runAttempts>>

WorkerStep(w) ==
    \/ Acquire(w) \/ Lookup(w) \/ Apply(w) \/ Complete(w) \/ ReleaseClaim(w)
    \/ JobReturns(w) \/ JobThrows(w)

PublishJob(j) ==
    /\ jobState[j] = "missing"
    /\ Publish(j)
    /\ UNCHANGED <<ledger, applied, workerVars, faults>>

LedgerNext ==
    \/ \E w \in Workers : WorkerStep(w) \/ Crash(w) \/ \E j \in Jobs : Deliver(w, j)
    \/ \E j \in Jobs : PublishJob(j) \/ Stall(j) \/ Evict(j)

LedgerSpec == LedgerInit /\ [][LedgerNext]_ledgerVars

-----------------------------------------------------------------------------
(***************************************************************************)
(* Properties                                                              *)
(***************************************************************************)
\* A COMPLETED ledger document is final: a worker that lost its lock and
\* fails after another one finished cannot take the job back, so no amount
\* of redelivery processes a completed scope again.
CompletedIsFinal ==
    [][\A j \in Jobs : ledger[j] = "COMPLETED" => ledger'[j] = "COMPLETED"]_ledgerVars

\* The ledger says COMPLETED only if the aggregates have been written.
CompletedMeansApplied == \A j \in Jobs : ledger[j] = "COMPLETED" => j \in applied

Claiming(w) == stage[w] \notin {"idle", "acquire", "lookup", "return", "throw"}

\* Analytics processing is exclusive: no two workers recompute the same
\* scope at once, even when the first lost its lock and the job was
\* delivered again.  (A billing retry may overlap; its rollup is recomputed
\* from scratch.)
AnalyticsExclusive ==
    \A w1, w2 \in Workers :
        /\ Claiming(w1) /\ Claiming(w2)
        /\ runJob[w1] = runJob[w2]
        /\ runJob[w1] \notin BillingJobs
        => w1 = w2

\* What a ledger document is worth: COMPLETED means applied, and analytics work
\* is never done by two workers at once (acquire, release, markCompleted).
LedgerSound == CompletedMeansApplied /\ AnalyticsExclusive
=============================================================================

-------------------------- MODULE EnqueueRecovery --------------------------
(***************************************************************************)
(* Recovery of lost job publications                                       *)
(* (backend/src/features/recovery/enqueue-recovery.service.ts and its      *)
(* repository), over the job ledger and queue of JobLedger.                *)
(*                                                                         *)
(* After a RequestLog row is written the API publishes its jobs; when that *)
(* fails it records a PENDING recovery row, and when the process dies in   *)
(* between it records nothing.  A periodic scan rediscovers every logged   *)
(* scope and walks the open rows: read the ledger, read the queue, claim,  *)
(* publish, mark.  Every arrow is an await, and two scans may overlap (two *)
(* worker processes during a deployment, or a stalled scan job).           *)
(*                                                                         *)
(* nextAttemptAt <= now is the flag due: an update that moves              *)
(* nextAttemptAt into the future clears it, time sets it again.  RequestLog*)
(* rows are never deleted, so the SOURCE_UNAVAILABLE branch cannot happen. *)
(***************************************************************************)
EXTENDS JobLedger

CONSTANTS
    Scanners,           \* recovery scans that may overlap
    RecoveryBatchSize   \* RECOVERY_BATCH_SIZE

ASSUME ScannerAssumption == IsFiniteSet(Scanners) /\ RecoveryBatchSize \in Nat \ {0}

VARIABLES
    logged,     \* scopes whose RequestLog row is written
    apiDone,    \* scopes whose API-side publication was attempted
    rec,        \* rec[j]: the recovery row
    scan,       \* scan[s]: [stage, batch, job, count] of one scan
    published   \* published[j]: how often a scan tried to publish j

recoveryVars == <<ledgerVars, logged, apiDone, rec, scan, published>>
workersAndLedger == <<ledger, applied, workerVars>>

MaxPublications == 3    \* attemptCount < 3 in claimAttempt

RecStates == {"NONE", "PENDING", "ENQUEUED", "COMPLETED", "FAILED"}
Open == {"PENDING", "ENQUEUED"}
ScanStages == {"idle", "list", "record", "ledger", "queue", "claim", "publish",
               "markEnqueued", "markPublished", "markPendingRetry",
               "markCompleted", "markFailed"}

RecoveryTypeOK ==
    /\ LedgerTypeOK
    /\ logged \subseteq Jobs
    /\ apiDone \subseteq logged
    /\ rec \in [Jobs -> [state : RecStates, attemptCount : 0..MaxPublications,
                         due : BOOLEAN]]
    /\ scan \in [Scanners -> [stage : ScanStages, batch : SUBSET Jobs,
                              job : Jobs \cup {Nobody}, count : 0..MaxPublications]]
    /\ published \in [Jobs -> Nat]

RecoveryInit ==
    /\ LedgerInit
    /\ logged = {}
    /\ apiDone = {}
    /\ rec = [j \in Jobs |-> [state |-> "NONE", attemptCount |-> 0, due |-> FALSE]]
    /\ scan = [s \in Scanners |->
                  [stage |-> "idle", batch |-> {}, job |-> Nobody, count |-> 0]]
    /\ published = [j \in Jobs |-> 0]

-----------------------------------------------------------------------------
(***************************************************************************)
(* The API side (recordUsageAndComplete, recordFailedEnqueue)              *)
(***************************************************************************)
\* $setOnInsert: creates the row, never changes an existing one.
EnsurePending(js) ==
    [j \in Jobs |-> IF j \in js /\ rec[j].state = "NONE"
                    THEN [state |-> "PENDING", attemptCount |-> 0, due |-> TRUE]
                    ELSE rec[j]]

LogRequest(j) ==
    /\ j \notin logged
    /\ logged' = logged \cup {j}
    /\ UNCHANGED <<ledgerVars, apiDone, rec, scan, published>>

\* Publish; on failure record PENDING; a failure of that too is only logged,
\* and a crash before either leaves the same state.
ApiPublish(j) ==
    /\ j \in logged \ apiDone
    /\ apiDone' = apiDone \cup {j}
    /\ \/ Publish(j) /\ UNCHANGED <<rec, faults>>
       \/ /\ Publish(j) \/ UNCHANGED queueVars
          /\ rec' \in {rec, EnsurePending({j})}
          /\ Fault("publish")
    /\ UNCHANGED <<workersAndLedger, logged, scan, published>>

-----------------------------------------------------------------------------
(***************************************************************************)
(* runEnqueueRecoveryScan                                                  *)
(***************************************************************************)
InScan(s, next) == scan[s].stage = next
ScanGoto(s, next) == scan' = [scan EXCEPT ![s].stage = next]

\* Mutant: only rows recorded by the API are recovered.
Discover_Nothing(s) ==
    /\ InScan(s, "idle")
    /\ ScanGoto(s, "list")
    /\ UNCHANGED <<ledgerVars, logged, apiDone, rec, published>>

\* discoverMissingRecoveryRecords
Discover(s) ==
    /\ InScan(s, "idle")
    /\ rec' = EnsurePending(logged)
    /\ ScanGoto(s, "list")
    /\ UNCHANGED <<ledgerVars, logged, apiDone, published>>

DueRows == {j \in Jobs : rec[j].state \in Open /\ rec[j].due}

\* listOpen: a snapshot of the rows longest due, at most a batch, walked
\* afterwards.  How long each has been due is not kept, so any of them may be
\* among the first.
ListOpen(s) ==
    /\ InScan(s, "list")
    /\ \E rows \in SUBSET DueRows :
          /\ IF Cardinality(DueRows) <= RecoveryBatchSize THEN rows = DueRows
             ELSE Cardinality(rows) = RecoveryBatchSize
          /\ scan' = [scan EXCEPT ![s].stage = "record", ![s].batch = rows]
    /\ UNCHANGED <<ledgerVars, logged, apiDone, rec, published>>

NextRecord(s) ==
    /\ InScan(s, "record")
    /\ \/ \E j \in scan[s].batch :
              scan' = [scan EXCEPT ![s].stage = "ledger", ![s].job = j,
                                   ![s].batch = @ \ {j}]
       \/ scan[s].batch = {} /\ scan' = [scan EXCEPT ![s].stage = "idle"]
    /\ UNCHANGED <<ledgerVars, logged, apiDone, rec, published>>

(***************************************************************************)
(* recoverRecord                                                           *)
(***************************************************************************)
\* findBusinessLedgerState
ReadLedger(s) ==
    LET found == ledger[scan[s].job] IN
    /\ InScan(s, "ledger")
    /\ ScanGoto(s, CASE found = "COMPLETED" -> "markCompleted"
                     [] found = "PROCESSING" -> "markEnqueued"
                     [] found = "NONE" -> "queue")
    /\ UNCHANGED <<ledgerVars, logged, apiDone, rec, published>>

\* Mutant: a job that BullMQ completed is taken for completed work.
ReadQueue_TrustsCompleted(s) ==
    LET found == jobState[scan[s].job] IN
    /\ InScan(s, "queue")
    /\ ScanGoto(s, CASE found = "failed" -> "markFailed"
                     [] found = "completed" -> "markCompleted"
                     [] found = "missing" -> "claim"
                     [] OTHER -> "markEnqueued")
    /\ UNCHANGED <<ledgerVars, logged, apiDone, rec, published>>

\* readExistingQueueJobState
ReadQueue(s) ==
    LET found == jobState[scan[s].job] IN
    /\ InScan(s, "queue")
    /\ ScanGoto(s, CASE found = "failed" -> "markFailed"
                     [] found = "missing" -> "claim"
                     [] OTHER -> "markEnqueued")
    /\ UNCHANGED <<ledgerVars, logged, apiDone, rec, published>>

\* The filter of claimAttempt.
MayClaim(j) ==
    /\ rec[j].state \in Open
    /\ rec[j].attemptCount < MaxPublications
    /\ rec[j].due

\* claimAttempt: a conditional update, so overlapping scans claim once.
Claim(s) ==
    LET j == scan[s].job
        n == rec[j].attemptCount + 1 IN
    /\ InScan(s, "claim")
    /\ \/ /\ MayClaim(j)
          /\ rec' = [rec EXCEPT ![j] = [state |-> "PENDING", attemptCount |-> n, due |-> FALSE]]
          /\ scan' = [scan EXCEPT ![s].stage = "publish", ![s].count = n]
       \/ ~MayClaim(j) /\ ScanGoto(s, "record") /\ UNCHANGED rec
    /\ UNCHANGED <<ledgerVars, logged, apiDone, published>>

\* The catch block: give up after the third attempt.
AfterFailure(s) ==
    ScanGoto(s, IF scan[s].count >= MaxPublications THEN "markFailed"
                ELSE "markPendingRetry")

\* enqueueRecoveredJob
Republish(s) ==
    /\ InScan(s, "publish")
    /\ published' = [published EXCEPT ![scan[s].job] = @ + 1]
    /\ \/ Publish(scan[s].job) /\ ScanGoto(s, "markPublished") /\ UNCHANGED faults
       \/ /\ Publish(scan[s].job) \/ UNCHANGED queueVars
          /\ AfterFailure(s)
          /\ Fault("publish")
    /\ UNCHANGED <<workersAndLedger, logged, apiDone, rec>>

\* markEnqueued, markPendingRetry, markCompleted and markFailed update the row
\* whatever its state; the first two move nextAttemptAt into the future.
WriteMark(j, next) == rec' = [rec EXCEPT ![j].state = next, ![j].due = FALSE]

MarkOf == [markEnqueued |-> "ENQUEUED", markPublished |-> "ENQUEUED",
           markPendingRetry |-> "PENDING", markCompleted |-> "COMPLETED",
           markFailed |-> "FAILED"]

Mark(s) ==
    /\ scan[s].stage \in DOMAIN MarkOf
    /\ WriteMark(scan[s].job, MarkOf[scan[s].stage])
    /\ ScanGoto(s, "record")
    /\ UNCHANGED <<ledgerVars, logged, apiDone, published>>

\* markEnqueued after a publication is inside the try block: when it throws
\* the attempt counts as failed although the job was published.
MarkPublishedThrows(s) ==
    /\ InScan(s, "markPublished")
    /\ rec' \in {rec, [rec EXCEPT ![scan[s].job].state = "ENQUEUED",
                                  ![scan[s].job].due = FALSE]}
    /\ AfterFailure(s)
    /\ Fault("scan")
    /\ UNCHANGED <<queueVars, workersAndLedger, logged, apiDone, published>>

\* Any other failing call, or the death of the worker, ends the scan.
AbortScan(s) ==
    /\ ~InScan(s, "idle")
    /\ scan' = [scan EXCEPT ![s].stage = "idle", ![s].batch = {}]
    /\ Fault("scan")
    /\ UNCHANGED <<queueVars, workersAndLedger, logged, apiDone, rec, published>>

\* Time passes nextAttemptAt.
BecomeDue(j) ==
    /\ rec[j].state \in Open /\ ~rec[j].due
    /\ rec' = [rec EXCEPT ![j].due = TRUE]
    /\ UNCHANGED <<ledgerVars, logged, apiDone, scan, published>>

ScanStep(s) ==
    \/ Discover(s) \/ ListOpen(s) \/ NextRecord(s) \/ ReadLedger(s) \/ ReadQueue(s)
    \/ Claim(s) \/ Republish(s) \/ Mark(s)

\* The workers and the queue, for jobs somebody published.
WorkerSide ==
    /\ \/ \E w \in Workers : WorkerStep(w) \/ Crash(w) \/ \E j \in Jobs : Deliver(w, j)
       \/ \E j \in Jobs : Stall(j) \/ Evict(j)
    /\ UNCHANGED <<logged, apiDone, rec, scan, published>>

RecoveryNext ==
    \/ \E j \in Jobs : LogRequest(j) \/ ApiPublish(j) \/ BecomeDue(j)
    \/ \E s \in Scanners : ScanStep(s) \/ MarkPublishedThrows(s) \/ AbortScan(s)
    \/ WorkerSide

RecoverySpec == RecoveryInit /\ [][RecoveryNext]_recoveryVars

(***************************************************************************)
(* Scans run every minute, nextAttemptAt passes, the API handler goes on   *)
(* after writing the row, finished jobs are evicted by later traffic,      *)
(* workers run, waiting jobs are delivered, and the stalled check finds    *)
(* the jobs of dead workers.                                               *)
(***************************************************************************)
Frame == UNCHANGED <<logged, apiDone, rec, scan, published>>

RecoveryFairness ==
    /\ \A s \in Scanners : WF_recoveryVars(ScanStep(s))
    /\ \A j \in Jobs :
        /\ WF_recoveryVars(ApiPublish(j))
        /\ WF_recoveryVars(BecomeDue(j))
        /\ WF_recoveryVars(Evict(j) /\ Frame)
        /\ WF_recoveryVars(holder[j] = Nobody /\ Stall(j) /\ Frame)
        /\ SF_recoveryVars(\E w \in Workers : Deliver(w, j) /\ Frame)
    /\ \A w \in Workers : WF_recoveryVars(WorkerStep(w) /\ Frame)

RecoveryLiveSpec == RecoverySpec /\ RecoveryFairness

-----------------------------------------------------------------------------
(***************************************************************************)
(* Properties                                                              *)
(***************************************************************************)
\* A recovery row says COMPLETED only when the business ledger does, also
\* when the state was read by a scan that has been overtaken since: a lost
\* publication is never written off as done.
RecoveryCompletedSound ==
    \A j \in Jobs : rec[j].state = "COMPLETED" => ledger[j] = "COMPLETED"

\* Overlapping scans together publish a scope at most three times.
PublicationsBounded == \A j \in Jobs : published[j] <= MaxPublications

\* docs/03_TDD.md: a terminal failure "becomes FAILED and is not
\* automatically replayed".  Not so when scans overlap: no attempt is claimed for
\* a row that has been FAILED.
FailedIsFinal ==
    \A j \in Jobs : \A n \in 0..MaxPublications :
        [](rec[j].state = "FAILED" /\ rec[j].attemptCount = n
              => [](rec[j].attemptCount = n))

\* The two dead ends.  A worker's claim nobody works under: its owner died, or
\* the answer of the call that made or should have deleted it was lost, and every
\* later delivery passes it over.  A row whose third attempt a scan claimed and
\* did not live to settle.
AbandonedClaim(j) ==
    ledger[j] = "PROCESSING" /\ \A w \in Workers : runJob[w] = j => ~Claiming(w)
AttemptsSpent(j) ==
    rec[j].state \in Open /\ rec[j].attemptCount = MaxPublications

\* Every logged request is eventually accounted, or its recovery row says
\* FAILED, or it is in one of the two dead ends for good, whichever calls of the
\* API, the workers and the scan fail and whoever dies.
PublicationRecovered ==
    \A j \in Jobs :
        j \in logged ~> \/ ledger[j] = "COMPLETED" \/ rec[j].state = "FAILED"
                        \/ []AbandonedClaim(j) \/ []AttemptsSpent(j)

\* docs/08_TESTING_STRATEGY.md: "Worker | Crashes during job | Job retries or
\* becomes visible as failed".  The work of a job whose worker died is done
\* by another delivery, or the queue or the recovery row shows a failure.
CrashIsRetried ==
    \A j \in Jobs :
        jobState[j] = "active" /\ holder[j] = Nobody
            ~> \/ ledger[j] = "COMPLETED"
               \/ jobState[j] = "failed" \/ rec[j].state = "FAILED"

\* docs/03_TDD.md: "three failed publication attempts becomes FAILED".  A
\* scope whose three publications failed does not stay open for ever.
ExhaustedBecomesFailed ==
    \A j \in Jobs :
        published[j] = MaxPublications /\ jobState[j] = "missing"
            ~> \/ rec[j].state = "FAILED"
               \/ ledger[j] = "COMPLETED" \/ jobState[j] # "missing"

\* What a recovery row is worth while scans overlap: COMPLETED is never written
\* off a stale read, and the scans share three publications.
RecoverySound == RecoveryTypeOK /\ RecoveryCompletedSound /\ PublicationsBounded
=============================================================================

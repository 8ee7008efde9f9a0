----------------------------- MODULE Aggregates -----------------------------
(***************************************************************************)
(* What the billing, analytics and anomaly workers write: the monthly      *)
(* BillingRollup, the daily analytics aggregates and the anomaly alert     *)
(* (backend/src/features/billing, analytics and anomaly), recomputed from  *)
(* the append-only RequestLog.                                             *)
(*                                                                         *)
(* The claim on a job is that of JobLedger; here its step "apply" is taken *)
(* apart.  A worker reads the log in one await and writes the document in  *)
(* a later one, so other workers, the API's budget check and new log rows  *)
(* come in between.  One organisation and one day (and month) stand for    *)
(* all: every query is scoped to them.  Token counts stay far below 2^53,  *)
(* where the code's safe-integer checks would throw.                       *)
(***************************************************************************)
EXTENDS JobLedger, Sequences, FiniteSetsExt

CONSTANTS
    Outcomes,       \* what a request can log: [user, status, known, tokens]
    Users,          \* users of the organisation
    Budget,         \* monthlyTokenBudget
    ReservedTokens, \* maxInputTokens + maxOutputTokens of the model
    BaselineDays,   \* prior active days in the baseline window
    BaselineTokens, \* the tokens of those days
    NoDocument      \* nothing is stored or read

MinimumActiveDays == 3      \* ANOMALY_MINIMUM_ACTIVE_DAYS
ThresholdMultiplier == 2    \* ANOMALY_THRESHOLD_MULTIPLIER
Organisation == "ORGANISATION"
Scopes == {Organisation} \cup Users

ASSUME OutcomeAssumption ==
    /\ \A o \in Outcomes : /\ o.user \in Users /\ o.known \in BOOLEAN
                           /\ o.tokens \in 0..ReservedTokens
                           /\ o.status = "BLOCKED" => ~o.known /\ o.tokens = 0
    /\ Organisation \notin Users
    /\ Budget \in Nat /\ ReservedTokens \in Nat \ {0}
    /\ BaselineDays \in Nat /\ BaselineTokens \in Nat
\* The fields of an analytics document that carry counts.
DailyDocuments == [totalRequests : Nat, knownUsage : Nat, unknownUsage : Nat,
                   totalTokens : Nat, providerRequests : Nat]
ASSUME NullAssumption == NoDocument \notin DailyDocuments
ASSUME JobShapeAssumption == \A j \in Jobs : DOMAIN j = 1..2

VARIABLES
    log,        \* the RequestLog rows in the order they were appended
    rollup,     \* the BillingRollup document
    daily,      \* daily[s]: the AnalyticsDailyAggregate of scope s
    work,       \* work[w]: what worker w has read, and the scope it writes
    check,      \* the API's budget check: what it has read
    events,     \* requests whose usage.updated job was published
    verdict,    \* the anomaly worker: the usage it has read
    alerts      \* alerts[u]: the day's anomaly alert of user u

writeVars == <<log, rollup, daily, work, check, events, verdict, alerts>>
aggregateVars == <<ledgerVars, writeVars>>

RequestOf(j) == j[1]
Logged == {log[i].request : i \in 1..Len(log)}
EntryOf(j) == CHOOSE e \in {log[i] : i \in 1..Len(log)} : e.request = RequestOf(j)

NoWork == [scope |-> Organisation, used |-> NoDocument,
           values |-> [s \in Scopes |-> NoDocument]]

AggregateInit ==
    /\ LedgerInit
    /\ log = <<>>
    /\ rollup = NoDocument
    /\ daily = [s \in Scopes |-> NoDocument]
    /\ work = [w \in Workers |-> NoWork]
    /\ check = NoDocument
    /\ events = {}
    /\ verdict = NoDocument
    /\ alerts = [u \in Users |-> NoDocument]

-----------------------------------------------------------------------------
(***************************************************************************)
(* The aggregation queries, over the first n rows                          *)
(***************************************************************************)
InScope(s, n) == {i \in 1..n : s = Organisation \/ log[i].user = s}
Billable(n) == {i \in 1..n : log[i].status # "BLOCKED"}
Recorded(i) == IF log[i].known THEN log[i].tokens ELSE 0
TokensOf(rows) == SumFunction([i \in rows |-> Recorded(i)])
KnownOf(rows) == {i \in rows : log[i].known}

\* aggregatePeriodUsage
PeriodUsage(n) ==
    [usedTokens |-> TokensOf(Billable(n)),
     sourceRequestCount |-> Cardinality(Billable(n)),
     unresolved |-> Cardinality(Billable(n) \ KnownOf(Billable(n)))]

\* The two queries of aggregateDaily.
DailySummary(s, n) ==
    [totalRequests |-> Cardinality(InScope(s, n)),
     knownUsage |-> Cardinality(KnownOf(InScope(s, n))),
     unknownUsage |-> Cardinality((InScope(s, n) \cap Billable(n)) \ KnownOf(1..n)),
     totalTokens |-> TokensOf(InScope(s, n)),
     providerRequests |-> 0]
ProviderRequests(s, n) == Cardinality(InScope(s, n) \cap Billable(n))

\* calculateUnresolvedUsageReservation
Reservation(usage) == ReservedTokens * usage.unresolved

\* createBudgetStatus
BudgetStatus(usage) ==
    LET budgeted == usage.usedTokens + Reservation(usage) IN
    [budgetedTokens |-> budgeted, exceeded |-> budgeted >= Budget]

-----------------------------------------------------------------------------
(***************************************************************************)
(* The log, and the budget check in front of every chat request            *)
(***************************************************************************)
\* appendUsage: the schema refuses every later change to a row.
AppendUsage(r, o) ==
    /\ r \notin Logged
    /\ log' = Append(log, [request |-> r, user |-> o.user, status |-> o.status,
                           known |-> o.known, tokens |-> o.tokens])
    /\ UNCHANGED <<ledgerVars, rollup, daily, work, check, events, verdict, alerts>>

\* A billing job only for a request that reached a provider.
PublishLogged(j) ==
    /\ RequestOf(j) \in Logged
    /\ j \in BillingJobs => EntryOf(j).status # "BLOCKED"
    /\ PublishJob(j)
    /\ UNCHANGED writeVars

\* readAuthoritativeBudgetStatus: read, then write the rollup if nothing is
\* unresolved.  The status itself comes from the log, never from the rollup.
BudgetRead ==
    /\ check = NoDocument
    /\ check' = PeriodUsage(Len(log))
    /\ UNCHANGED <<ledgerVars, log, rollup, daily, work, events, verdict, alerts>>

RollupOf(usage) == [usedTokens |-> usage.usedTokens,
                    sourceRequestCount |-> usage.sourceRequestCount]

BudgetWrite ==
    /\ check # NoDocument
    /\ rollup' = IF Reservation(check) = 0 THEN RollupOf(check) ELSE rollup
    /\ check' = NoDocument
    /\ UNCHANGED <<ledgerVars, log, daily, work, events, verdict, alerts>>

-----------------------------------------------------------------------------
(***************************************************************************)
(* Inside JobLedger's "apply"                                              *)
(***************************************************************************)
FineStages == {"apply", "summary", "providers", "upsert", "update", "find",
               "create", "event"}
IsBilling(w) == runJob[w] \in BillingJobs

\* A step inside the claim: nothing of the ledger moves.
Inside(w, from, to) ==
    /\ stage[w] = from
    /\ Goto(w, to)
    /\ UNCHANGED <<queueVars, ledger, applied, runJob, runAttempts, faults, log>>

\* The last step: the aggregates of the job are written.
Applied(w, from) ==
    /\ stage[w] = from
    /\ Goto(w, "complete")
    /\ applied' = applied \cup {runJob[w]}
    /\ work' = [work EXCEPT ![w] = NoWork]
    /\ UNCHANGED <<queueVars, ledger, runJob, runAttempts, faults, log>>

ForgetWork(w) ==
    /\ work' = [work EXCEPT ![w] = NoWork]
    /\ UNCHANGED <<log, rollup, daily, check, events, verdict, alerts>>

\* Any call may fail, its write done or not (the write is another behaviour).
ApplyFails(w) ==
    /\ stage[w] \in FineStages
    /\ Goto(w, "release")
    /\ Fault("apply")
    /\ ForgetWork(w)
    /\ UNCHANGED <<queueVars, ledger, applied, runJob, runAttempts>>

\* Mutant: without usage the processor returns and leaves its claim behind.
FindLog_LeavesClaim(w) ==
    /\ stage[w] = "apply"
    /\ Inside(w, "apply", IF IsBilling(w) /\ ~EntryOf(runJob[w]).known
                          THEN "return" ELSE "summary")
    /\ UNCHANGED <<rollup, daily, work, check, events, verdict, alerts>>

\* findRequestUsage, findRequestOutcome
FindLog(w) ==
    /\ stage[w] = "apply"
    /\ IF IsBilling(w) /\ ~EntryOf(runJob[w]).known
       THEN Applied(w, "apply")
       ELSE Inside(w, "apply", "summary") /\ UNCHANGED work
    /\ UNCHANGED <<rollup, daily, check, events, verdict, alerts>>

\* Mutant: the rollup is written although some usage is unknown.
ReadUsage_IgnoresUnknown(w) ==
    LET usage == PeriodUsage(Len(log)) IN
    /\ stage[w] = "summary" /\ IsBilling(w)
    /\ work' = [work EXCEPT ![w].used = usage]
    /\ Inside(w, "summary", "upsert")
    /\ UNCHANGED <<rollup, daily, check, events, verdict, alerts>>

\* reconcileAuthoritativeTokenRollup
ReadUsage(w) ==
    LET usage == PeriodUsage(Len(log)) IN
    /\ stage[w] = "summary" /\ IsBilling(w)
    /\ IF usage.unresolved # 0
       THEN Applied(w, "summary")
       ELSE /\ Inside(w, "summary", "upsert")
            /\ work' = [work EXCEPT ![w].used = usage]
    /\ UNCHANGED <<rollup, daily, check, events, verdict, alerts>>

UpsertRollup(w) ==
    /\ Applied(w, "upsert")
    /\ rollup' = RollupOf(work[w].used)
    /\ UNCHANGED <<daily, check, events, verdict, alerts>>

ScopeOf(w) == IF work[w].scope = Organisation THEN Organisation
              ELSE EntryOf(runJob[w]).user
ValuesOf(w) == work[w].values[ScopeOf(w)]

\* aggregateDaily, for the organisation and then for the user.
ReadSummary(w) ==
    /\ stage[w] = "summary" /\ ~IsBilling(w)
    /\ Inside(w, "summary", "providers")
    /\ work' = [work EXCEPT ![w].values[ScopeOf(w)] = DailySummary(ScopeOf(w), Len(log))]
    /\ UNCHANGED <<rollup, daily, check, events, verdict, alerts>>

ReadProviders(w) ==
    LET read == [ValuesOf(w) EXCEPT !.providerRequests = ProviderRequests(ScopeOf(w), Len(log))]
    IN
    /\ Inside(w, "providers", IF work[w].scope = Organisation THEN "summary" ELSE "update")
    /\ work' = [work EXCEPT ![w].values[ScopeOf(w)] = read,
                            ![w].scope = IF @ = Organisation THEN "USER" ELSE Organisation]
    /\ UNCHANGED <<rollup, daily, check, events, verdict, alerts>>

\* The organisation's document is done: the user's is next, then the event.
ScopeDone(w, from) ==
    /\ work' = [work EXCEPT ![w].scope = "USER"]
    /\ Inside(w, from, IF work[w].scope = Organisation THEN "update" ELSE "event")

\* Mutant: the update does not compare totalRequests.
NotNewer_Always(w) == daily[ScopeOf(w)] # NoDocument

\* The filter of the guarded update: totalRequests $lte the value read.
NotNewer(w) ==
    LET doc == daily[ScopeOf(w)] IN
    doc # NoDocument /\ doc.totalRequests <= ValuesOf(w).totalRequests

\* upsertDailyAggregate: update, find, create.
UpdateDaily(w) ==
    /\ stage[w] = "update"
    /\ \/ /\ NotNewer(w)
          /\ daily' = [daily EXCEPT ![ScopeOf(w)] = ValuesOf(w)]
          /\ ScopeDone(w, "update")
       \/ ~NotNewer(w) /\ Inside(w, "update", "find") /\ UNCHANGED <<daily, work>>
    /\ UNCHANGED <<rollup, check, events, verdict, alerts>>

FindDaily(w) ==
    /\ stage[w] = "find"
    /\ \/ daily[ScopeOf(w)] # NoDocument /\ ScopeDone(w, "find")
       \/ daily[ScopeOf(w)] = NoDocument /\ Inside(w, "find", "create") /\ UNCHANGED work
    /\ UNCHANGED <<rollup, daily, check, events, verdict, alerts>>

\* A duplicate key means another worker has created it: that one is kept.
CreateDaily(w) ==
    /\ stage[w] = "create"
    /\ daily' = IF daily[ScopeOf(w)] = NoDocument
                THEN [daily EXCEPT ![ScopeOf(w)] = ValuesOf(w)] ELSE daily
    /\ ScopeDone(w, "create")
    /\ UNCHANGED <<rollup, check, events, verdict, alerts>>

\* enqueueUsageUpdatedJob: before the ledger says COMPLETED.
EnqueueUsageUpdated(w) ==
    /\ Applied(w, "event")
    /\ events' = events \cup {RequestOf(runJob[w])}
    /\ UNCHANGED <<rollup, daily, check, verdict, alerts>>

ApplyStep(w) ==
    \/ FindLog(w) \/ ReadUsage(w) \/ UpsertRollup(w) \/ ReadSummary(w) \/ ReadProviders(w)
    \/ UpdateDaily(w) \/ FindDaily(w) \/ CreateDaily(w) \/ EnqueueUsageUpdated(w)

-----------------------------------------------------------------------------
(***************************************************************************)
(* processUsageUpdatedAnomalyJob, delivered any number of times            *)
(***************************************************************************)
\* Mutant: a day with unknown usage is judged by what is known of it.
HasCompleteUsage_Partial(doc) == doc.knownUsage > 0

\* hasCompleteCurrentUsage
HasCompleteUsage(doc) == doc.knownUsage > 0 /\ doc.unknownUsage = 0

\* observedWeighted > approvedThreshold
ExceedsBaseline(tokens) ==
    tokens * BaselineDays > ThresholdMultiplier * BaselineTokens

\* findDailyUsage and the tests on it; every other outcome writes nothing.
JudgeUsage(r) ==
    LET u == EntryOf(<<r>>).user
        doc == daily[u] IN
    /\ verdict = NoDocument
    /\ r \in events
    /\ doc # NoDocument /\ HasCompleteUsage(doc)
    /\ BaselineDays >= MinimumActiveDays
    /\ ExceedsBaseline(doc.totalTokens)
    /\ verdict' = [user |-> u, observedTokens |-> doc.totalTokens]
    /\ UNCHANGED <<ledgerVars, log, rollup, daily, work, check, events, alerts>>

\* upsertDailyAnomalyAlert: one open document per day and user.
RecordAlert ==
    /\ verdict # NoDocument
    /\ alerts' = [alerts EXCEPT ![verdict.user] = verdict]
    /\ verdict' = NoDocument
    /\ UNCHANGED <<ledgerVars, log, rollup, daily, work, check, events>>

-----------------------------------------------------------------------------
\* The steps of JobLedger around "apply", unchanged.
ClaimStep(w) ==
    \/ Acquire(w) \/ Lookup(w) \/ Complete(w) \/ ReleaseClaim(w)
    \/ JobReturns(w) \/ JobThrows(w) \/ \E j \in Jobs : Deliver(w, j)

AggregateNext ==
    \/ \E r \in {RequestOf(j) : j \in Jobs} :
          JudgeUsage(r) \/ \E o \in Outcomes : AppendUsage(r, o)
    \/ \E j \in Jobs : PublishLogged(j) \/ ((Stall(j) \/ Evict(j)) /\ UNCHANGED writeVars)
    \/ BudgetRead \/ BudgetWrite \/ RecordAlert
    \/ \E w \in Workers :
          \/ ApplyStep(w) \/ ApplyFails(w) \/ (ClaimStep(w) /\ UNCHANGED writeVars)
          \/ Crash(w) /\ ForgetWork(w)

AggregateSpec == AggregateInit /\ [][AggregateNext]_aggregateVars

-----------------------------------------------------------------------------
(***************************************************************************)
(* Properties                                                              *)
(***************************************************************************)
\* The workers, awaits and all, implement the claim protocol of JobLedger:
\* everything between the claim and its completion is one "apply" to it.
Ledger == INSTANCE JobLedger
            WITH stage <- [w \in Workers |->
                              IF stage[w] \in FineStages THEN "apply" ELSE stage[w]]
LedgerProtocol == Ledger!LedgerSpec

\* The rollup is always a true total: that of a prefix of the log in which
\* every usage is known, whoever wrote last and however stale its read was.
\* Nothing is counted twice and unknown usage is never taken for zero.  The
\* prefix may be an older one than the rollup had before (see RollupSettles).
RollupIsATotal ==
    rollup # NoDocument =>
        \E n \in 0..Len(log) :
            PeriodUsage(n).unresolved = 0 /\ rollup = RollupOf(PeriodUsage(n))

\* A daily aggregate never loses requests: a worker that read the log early
\* and writes late does not undo a newer aggregate.
DailyNeverGoesBack ==
    [][\A s \in Scopes : daily[s] # NoDocument =>
          /\ daily'[s] # NoDocument
          /\ daily'[s].totalRequests >= daily[s].totalRequests]_aggregateVars

\* A completed analytics job has told the anomaly worker: a crash between
\* the writes and the completion repeats the event, it never drops it.
CompletedMeansTold ==
    \A j \in Jobs \ BillingJobs : ledger[j] = "COMPLETED" => RequestOf(j) \in events

\* An alert is deserved: the tokens it names were the user's total at some
\* point of the day at which all of the user's usage was known, and they
\* are more than twice the average of the baseline days.
AlertDeserved ==
    \A u \in Users : alerts[u] # NoDocument =>
        \E n \in 0..Len(log) :
            /\ DailySummary(u, n).unknownUsage = 0
            /\ DailySummary(u, n).totalTokens = alerts[u].observedTokens
            /\ alerts[u].observedTokens * BaselineDays > 2 * BaselineTokens

\* The budget check never understates what was consumed: reported usage plus
\* the reservation for unreported usage covers the tokens really used by the
\* requests it has seen.
BudgetCoversConsumption ==
    \A n \in 0..Len(log) :
        BudgetStatus(PeriodUsage(n)).budgetedTokens
            >= SumFunction([i \in Billable(n) |-> log[i].tokens])

\* backend/tests/analytics.worker.test.mjs: "distinct jobs update aggregates
\* while duplicates have no extra effect".  The request of a completed
\* analytics job is counted in the organisation's daily aggregate.
CompletedJobIsCounted ==
    \A j \in Jobs \ BillingJobs : ledger[j] = "COMPLETED" =>
        \E n \in 1..Len(log) :
            /\ log[n].request = RequestOf(j)
            /\ daily[Organisation].totalRequests >= n

\* docs/04_DATABASE_DESIGN.md:674: the billing worker "aggregates all trusted
\* `RequestLog` records for `{ orgId, period }` and upserts" the totals.  Once
\* every provider request of the log has its billing job completed, all usage
\* is known and no worker or budget check is under way, the rollup is the
\* total of the whole log.
BillingSettled ==
    /\ \A i \in 1..Len(log) : log[i].status # "BLOCKED" =>
          log[i].known /\ \E j \in BillingJobs : RequestOf(j) = log[i].request
                                              /\ ledger[j] = "COMPLETED"
    /\ \A w \in Workers : stage[w] = "idle"
    /\ check = NoDocument
RollupSettles ==
    BillingSettled /\ Billable(Len(log)) # {} =>
        rollup = RollupOf(PeriodUsage(Len(log)))

\* The totals the budget is judged by are exact or on the safe side, however
\* the workers' reads and writes overlap.
TotalsExact == RollupIsATotal /\ BudgetCoversConsumption

\* The anomaly worker hears of every completed job and alerts only with reason.
AlertsExact == CompletedMeansTold /\ AlertDeserved
=============================================================================

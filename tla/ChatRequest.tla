---------------------------- MODULE ChatRequest ----------------------------
(***************************************************************************)
(* The chat request pipeline: POST /chat/stream from arrival to its last   *)
(* event (backend/src/features/chat/chat.controller.ts and                 *)
(* chat.service.ts), over the reservation protocol of Idempotency.         *)
(*                                                                         *)
(* Every action is the code between two awaits of one HTTP request.        *)
(* Requests interleave freely; clients disconnect or stop reading, the     *)
(* server shuts down or crashes, records expire, and each Redis, MongoDB   *)
(* or BullMQ call may fail, with or without having taken effect.           *)
(***************************************************************************)
EXTENDS Idempotency

CONSTANT MaxFaults  \* bound: failing calls, disconnects, aborts and crashes

ASSUME FaultAssumption == MaxFaults \in Nat

VARIABLES
    req,            \* req[r]: control state of the handler of r
    disconnected,   \* requests whose client went away (controller flag)
    shutdown,       \* requests aborted with reason SERVER_SHUTDOWN
    logs,           \* RequestLog: logs[r] is the status of r's row or "NONE"
    messages,       \* requests whose message pair is persisted
    jobs,           \* <<request, queue>> jobs accepted by BullMQ
    recovery,       \* <<request, queue>> durable enqueue-recovery records
    lost,           \* history: <<request, call>> pairs whose call threw
    faults          \* how many faults have happened

vars == <<idemVars, req, disconnected, shutdown, logs, messages, jobs,
          recovery, lost, faults>>

Queues == {"billing", "analytics"}
Outcomes == {"NONE", "BLOCKED", "FAILED", "INTERRUPTED", "COMPLETED"}

\* Where the handler is suspended.
Stages == {"idle", "reserve", "controls", "blockLog", "blockJobs",
           "blockComplete", "select", "firstChunk", "opening", "stream",
           "token", "usage", "messages", "billing", "analytics", "complete",
           "respond", "lastEvent", "release", "end", "crashed"}

\* In writeSseEvent, for "drain" or "close": with one of the three events that
\* open the stream, with a token, with "done" or "error".
Writing == {"opening", "token", "lastEvent"}

\* Which call site of recordUsageAndComplete is waiting for it.
CallSites == {"none", "prepare", "early", "done", "loop", "catch"}

Replies == {"NONE", "REJECTED", "IDEMPOTENCY_UNAVAILABLE",
            "REQUEST_IN_PROGRESS", "DUPLICATE_REQUEST", "POLICY_BLOCKED",
            "PRE_STREAM_ERROR", "done", "error", "GONE"}

\* The calls whose failure the accounting of a request or its key depends on.
Calls == {"reserve", "release", "usage", "completion"}

Handler == [stage : Stages, outcome : Outcomes, site : CallSites,
            attempts : 0..2, error : BOOLEAN, reply : Replies]

TypeOK ==
    /\ IdemTypeOK
    /\ req \in [Requests -> Handler]
    /\ disconnected \subseteq Requests
    /\ shutdown \subseteq Requests
    /\ logs \in [Requests -> Outcomes]
    /\ messages \subseteq Requests
    /\ jobs \subseteq Requests \X Queues
    /\ recovery \subseteq Requests \X Queues
    /\ lost \subseteq Requests \X Calls
    /\ faults \in 0..MaxFaults

Init ==
    /\ IdemInit
    /\ req = [r \in Requests |->
                 [stage |-> "idle", outcome |-> "NONE", site |-> "none",
                  attempts |-> 0, error |-> FALSE, reply |-> "NONE"]]
    /\ disconnected = {}
    /\ shutdown = {}
    /\ logs = [r \in Requests |-> "NONE"]
    /\ messages = {}
    /\ jobs = {}
    /\ recovery = {}
    /\ lost = {}
    /\ faults = 0

dbVars == <<logs, messages, jobs, recovery>>
abortVars == <<disconnected, shutdown>>
faultVars == <<lost, faults>>

NoFault == UNCHANGED faultVars

\* One more fault of the environment, and one that makes one of the Calls of r
\* throw.
Fault == faults < MaxFaults /\ faults' = faults + 1 /\ UNCHANGED lost

FaultLoses(r, call) ==
    /\ faults < MaxFaults
    /\ faults' = faults + 1
    /\ lost' = lost \cup {<<r, call>>}

-----------------------------------------------------------------------------
(***************************************************************************)
(* Control moves of one handler.                                           *)
(***************************************************************************)
At(r, stage) == req[r].stage = stage

Active(r) == req[r].stage \notin {"idle", "end", "crashed"}

Goto(r, stage) == req' = [req EXCEPT ![r].stage = stage]

Finish(r, code) ==
    req' = [req EXCEPT ![r].stage = "end", ![r].reply = code]

\* Call recordUsageAndComplete with the given outcome.
BeginAccounting(r, outcome, site) ==
    req' = [req EXCEPT ![r].stage = "usage", ![r].outcome = outcome,
                       ![r].site = site, ![r].attempts = @ + 1]

\* The error leaves recordUsageAndComplete for its call site.
FailAccounting(r) ==
    req' = [req EXCEPT ![r].stage = "respond", ![r].error = TRUE]

-----------------------------------------------------------------------------
(***************************************************************************)
(* prepareChatStream                                                       *)
(***************************************************************************)
\* Authentication, validation, conversation ownership, organisation context
\* and routing mode; nothing has been reserved yet when one of them rejects.
Arrive(r) ==
    /\ At(r, "idle")
    /\ Goto(r, "reserve") \/ Finish(r, "REJECTED")
    /\ UNCHANGED <<idemVars, abortVars, dbVars, faultVars>>

ReserveKey(r) ==
    /\ At(r, "reserve")
    /\ \/ Reserve(r) /\ Goto(r, "controls") /\ NoFault
       \/ ReserveConflict(r) /\ Finish(r, ConflictCode(r)) /\ NoFault
       \/ ReserveUnavailable(r) /\ Finish(r, "IDEMPOTENCY_UNAVAILABLE") /\ Fault
       \/ /\ ReserveUnanswered(r)
          /\ \E code \in {"IDEMPOTENCY_UNAVAILABLE", "REQUEST_IN_PROGRESS"} :
                 Finish(r, code)
          /\ FaultLoses(r, "reserve")
    /\ UNCHANGED <<abortVars, dbVars>>

\* Mutant: a refusal by the rate limit leaves before the try block.
ControlsAndPolicy_NoRelease(r) ==
    /\ At(r, "controls")
    /\ \/ \E next \in {"select", "blockLog"} : Goto(r, next)
       \/ Finish(r, "REJECTED")
    /\ UNCHANGED <<idemVars, abortVars, dbVars, faultVars>>

\* Rate limit, budget, PII, policy decision and the audit append: any failure
\* is caught and releases the reservation.
ControlsAndPolicy(r) ==
    /\ At(r, "controls")
    /\ \E next \in {"select", "blockLog", "release"} : Goto(r, next)
    /\ UNCHANGED <<idemVars, abortVars, dbVars, faultVars>>

\* appendUsage of a BLOCKED request.
BlockLog(r) ==
    /\ At(r, "blockLog")
    /\ \/ /\ logs' = [logs EXCEPT ![r] = "BLOCKED"]
          /\ Goto(r, "blockJobs")
          /\ NoFault
       \/ /\ logs' \in {logs, [logs EXCEPT ![r] = "BLOCKED"]}
          /\ Goto(r, "release")
          /\ FaultLoses(r, "usage")
    /\ UNCHANGED <<idemVars, abortVars, messages, jobs, recovery>>

\* An enqueue; when it throws, the failure is recorded for recovery, and when
\* that throws too the request goes on regardless.
Enqueue(r, q) ==
    \/ jobs' = jobs \cup {<<r, q>>} /\ UNCHANGED recovery /\ NoFault
    \/ /\ jobs' \in {jobs, jobs \cup {<<r, q>>}}
       /\ recovery' \in {recovery, recovery \cup {<<r, q>>}}
       /\ Fault

BlockJobs(r) ==
    /\ At(r, "blockJobs")
    /\ Enqueue(r, "analytics")
    /\ Goto(r, "blockComplete")
    /\ UNCHANGED <<idemVars, abortVars, logs, messages>>

\* markCompleted throws: the record is not ours any more, or Redis failed.
CompletionThrows(r) ==
    \/ /\ MarkCompletedFails(r) /\ ~OwnsProcessing(r)
       /\ lost' = lost \cup {<<r, "completion">>}
       /\ UNCHANGED faults
    \/ /\ MarkCompletedFails(r) \/ MarkCompletedUnanswered(r)
       /\ FaultLoses(r, "completion")

\* markCompleted, then 403 POLICY_BLOCKED; when markCompleted throws the
\* reservation is not finalized and the catch block releases it.
BlockComplete(r) ==
    /\ At(r, "blockComplete")
    /\ \/ MarkCompleted(r) /\ Finish(r, "POLICY_BLOCKED") /\ NoFault
       \/ CompletionThrows(r) /\ Goto(r, "release")
    /\ UNCHANGED <<abortVars, dbVars>>

\* Candidate selection, provider health and history; then the provider is
\* started in the same synchronous stretch as the first iterator.next().
SelectAndStart(r) ==
    /\ At(r, "select")
    /\ \/ MarkStarted(r) /\ Goto(r, "firstChunk")
       \/ Goto(r, "release") /\ UNCHANGED idemVars
    /\ UNCHANGED <<abortVars, dbVars, faultVars>>

\* The first result of the provider.  A failed or empty stream is accounted
\* as FAILED by prepareChatStream; otherwise the controller either finds the
\* client gone or opens the event stream, which the client may not take.
FirstChunk(r) ==
    /\ At(r, "firstChunk")
    /\ \/ BeginAccounting(r, "FAILED", "prepare")
       \/ r \in disconnected /\ BeginAccounting(r, "INTERRUPTED", "early")
       \/ r \notin disconnected /\ \E next \in {"stream", "opening"} : Goto(r, next)
    /\ UNCHANGED <<idemVars, abortVars, dbVars, faultVars>>

\* releaseBeforeExecution in the catch block, then the error response.
ReleaseKey(r) ==
    /\ At(r, "release")
    /\ \/ Release(r) /\ Finish(r, "REJECTED") /\ NoFault
       \/ /\ ReleaseFails(r) /\ ~OwnsProcessing(r)
          /\ Finish(r, "IDEMPOTENCY_UNAVAILABLE")
          /\ NoFault
       \/ /\ ReleaseFails(r) \/ Release(r)
          /\ Finish(r, "IDEMPOTENCY_UNAVAILABLE")
          /\ FaultLoses(r, "release")
    /\ UNCHANGED <<abortVars, dbVars>>

-----------------------------------------------------------------------------
(***************************************************************************)
(* The streaming loop of the controller.                                   *)
(***************************************************************************)
Interrupted(r) == r \in disconnected \cup shutdown

\* The last event, which the client may not take, and the end of the response.
LastEvent(r, code) ==
    \/ Finish(r, code)
    \/ /\ code # "GONE"
       /\ req' = [req EXCEPT ![r].stage = "lastEvent", ![r].reply = code]

\* An error event is written only when somebody may still read it.
ErrorReply(r) == IF Interrupted(r) THEN "GONE" ELSE "error"

\* Mutant: the catch block accounts whether or not accounting was started.
HandleStreamError_Again(r) ==
    BeginAccounting(r, IF Interrupted(r) THEN "INTERRUPTED" ELSE "FAILED", "catch")

\* The catch block once the headers are sent: account unless some accounting
\* was already started, then report.
HandleStreamError(r) ==
    IF req[r].attempts = 0
    THEN BeginAccounting(r, IF Interrupted(r) THEN "INTERRUPTED" ELSE "FAILED",
                         "catch")
    ELSE LastEvent(r, ErrorReply(r))

\* The provider's done chunk.
StreamDone(r) ==
    /\ At(r, "stream")
    /\ BeginAccounting(r, "COMPLETED", "done")
    /\ UNCHANGED <<idemVars, abortVars, dbVars, faultVars>>

\* A token that the socket takes leaves everything as it is.  One that finds
\* the response destroyed is not written, and the controller sets the flag.
StreamWriteFails(r) ==
    /\ At(r, "stream")
    /\ disconnected' = disconnected \cup {r}
    /\ BeginAccounting(r, "INTERRUPTED", "loop")
    /\ IF r \in disconnected THEN NoFault ELSE Fault
    /\ UNCHANGED <<idemVars, shutdown, dbVars>>

\* One that fills the buffer makes the handler wait, with no timeout and
\* deaf to the abort signal.
TokenStalls(r) ==
    /\ At(r, "stream")
    /\ r \notin disconnected
    /\ Goto(r, "token")
    /\ UNCHANGED <<idemVars, abortVars, dbVars, faultVars>>

\* "drain": the client has read on.
ClientReads(r) ==
    /\ \/ req[r].stage \in {"opening", "token"} /\ Goto(r, "stream")
       \/ At(r, "lastEvent") /\ Goto(r, "end")
    /\ UNCHANGED <<idemVars, abortVars, dbVars, faultVars>>

\* Mutant: only "drain" is waited for.
WriteCloses_Never(r) ==
    /\ r \in disconnected
    /\ At(r, "lastEvent") /\ Goto(r, "end")
    /\ UNCHANGED <<idemVars, abortVars, dbVars, faultVars>>

\* "close": writeSseEvent returns false, which only the token loop looks at.
WriteCloses(r) ==
    /\ r \in disconnected
    /\ \/ At(r, "opening") /\ Goto(r, "stream")
       \/ At(r, "token") /\ BeginAccounting(r, "INTERRUPTED", "loop")
       \/ At(r, "lastEvent") /\ Goto(r, "end")
    /\ UNCHANGED <<idemVars, abortVars, dbVars, faultVars>>

\* The provider stream ends without a done chunk.
StreamEnds(r) ==
    /\ At(r, "stream")
    /\ BeginAccounting(r, IF r \in disconnected THEN "INTERRUPTED" ELSE "FAILED",
                       "loop")
    /\ UNCHANGED <<idemVars, abortVars, dbVars, faultVars>>

\* iterator.next() throws: a provider error or the aborted signal.
StreamThrows(r) ==
    /\ At(r, "stream")
    /\ HandleStreamError(r)
    /\ UNCHANGED <<idemVars, abortVars, dbVars, faultVars>>

-----------------------------------------------------------------------------
(***************************************************************************)
(* recordUsageAndComplete                                                  *)
(***************************************************************************)
\* Mutant: the finally block completes the key even if appendUsage threw.
AppendUsage_CompletesAnyway(r) ==
    /\ At(r, "usage")
    /\ \/ /\ logs[r] = "NONE"
          /\ logs' = [logs EXCEPT ![r] = req[r].outcome]
          /\ Goto(r, IF req[r].outcome = "COMPLETED" THEN "messages" ELSE "billing")
          /\ NoFault
       \/ /\ Goto(r, "complete")
          /\ FaultLoses(r, "usage")
          /\ UNCHANGED logs
    /\ UNCHANGED <<idemVars, abortVars, messages, jobs, recovery>>

\* appendUsage.  The row is unique per requestId; nothing after it runs when
\* it throws, not even markCompleted.
AppendUsage(r) ==
    LET row == [logs EXCEPT ![r] = req[r].outcome] IN
    /\ At(r, "usage")
    /\ \/ /\ logs[r] = "NONE"
          /\ logs' = row
          /\ Goto(r, IF req[r].outcome = "COMPLETED" THEN "messages" ELSE "billing")
          /\ NoFault
       \/ /\ logs' \in IF logs[r] = "NONE" THEN {logs, row} ELSE {logs}
          /\ FailAccounting(r)
          /\ FaultLoses(r, "usage")
    /\ UNCHANGED <<idemVars, abortVars, messages, jobs, recovery>>

\* persistMessages of a COMPLETED stream: one transaction; an error is kept
\* and rethrown at the end.
PersistMessages(r) ==
    /\ At(r, "messages")
    /\ \/ /\ messages' = messages \cup {r}
          /\ Goto(r, "billing")
          /\ NoFault
       \/ /\ messages' \in {messages, messages \cup {r}}
          /\ req' = [req EXCEPT ![r].stage = "billing", ![r].error = TRUE]
          /\ Fault
    /\ UNCHANGED <<idemVars, abortVars, logs, jobs, recovery>>

EnqueueBilling(r) ==
    /\ At(r, "billing")
    /\ Enqueue(r, "billing")
    /\ Goto(r, "analytics")
    /\ UNCHANGED <<idemVars, abortVars, logs, messages>>

EnqueueAnalytics(r) ==
    /\ At(r, "analytics")
    /\ Enqueue(r, "analytics")
    /\ Goto(r, "complete")
    /\ UNCHANGED <<idemVars, abortVars, logs, messages>>

\* The finally block.
CompleteKey(r) ==
    /\ At(r, "complete")
    /\ \/ MarkCompleted(r) /\ Goto(r, "respond") /\ NoFault
       \/ CompletionThrows(r) /\ FailAccounting(r)
    /\ UNCHANGED <<abortVars, dbVars>>

\* Back at the call site.
Respond(r) ==
    /\ At(r, "respond")
    /\ CASE req[r].site = "prepare" -> Finish(r, "PRE_STREAM_ERROR")
         [] req[r].site = "early" -> Finish(r, "GONE")
         [] req[r].site = "catch" -> LastEvent(r, ErrorReply(r))
         [] req[r].error /\ req[r].site \in {"done", "loop"} -> HandleStreamError(r)
         [] ~req[r].error /\ req[r].site = "done" ->
              LastEvent(r, IF r \in disconnected THEN "GONE" ELSE "done")
         [] ~req[r].error /\ req[r].site = "loop" ->
              LastEvent(r, IF r \in disconnected THEN "GONE" ELSE "error")
    /\ UNCHANGED <<idemVars, abortVars, dbVars, faultVars>>

-----------------------------------------------------------------------------
(***************************************************************************)
(* The environment: the client, the process and Redis expiry.              *)
(***************************************************************************)
\* "aborted" or "close" of the connection before the response ended.
Disconnect(r) ==
    /\ Active(r)
    /\ r \notin disconnected
    /\ disconnected' = disconnected \cup {r}
    /\ Fault
    /\ UNCHANGED <<idemVars, req, shutdown, dbVars>>

\* abortActiveChatStreams, when the shutdown grace period is over.
ShutdownAbort(r) ==
    /\ Active(r)
    /\ r \notin shutdown
    /\ shutdown' = shutdown \cup {r}
    /\ Fault
    /\ UNCHANGED <<idemVars, req, disconnected, dbVars>>

\* The process serving r dies; what it wrote stays.
Crash(r) ==
    /\ Active(r)
    /\ Goto(r, "crashed")
    /\ Fault
    /\ UNCHANGED <<idemVars, abortVars, dbVars>>

ExpireKey(k) ==
    /\ Expire(k)
    /\ UNCHANGED <<req, abortVars, dbVars, faultVars>>

\* The handler goes on after a call to Redis, MongoDB or BullMQ, or after
\* the provider gave its next result.
CallReturns(r) ==
    \/ ReserveKey(r) \/ ControlsAndPolicy(r)
    \/ BlockLog(r) \/ BlockJobs(r) \/ BlockComplete(r)
    \/ SelectAndStart(r) \/ FirstChunk(r) \/ ReleaseKey(r)
    \/ StreamDone(r) \/ StreamWriteFails(r) \/ StreamEnds(r) \/ StreamThrows(r)
    \/ AppendUsage(r) \/ PersistMessages(r)
    \/ EnqueueBilling(r) \/ EnqueueAnalytics(r) \/ CompleteKey(r)

Step(r) ==
    \/ CallReturns(r) \/ Respond(r)
    \/ TokenStalls(r) \/ ClientReads(r) \/ WriteCloses(r)

Next ==
    \/ \E r \in Requests : \/ Arrive(r) \/ Step(r)
                           \/ Disconnect(r) \/ ShutdownAbort(r) \/ Crash(r)
    \/ \E k \in Keys : ExpireKey(k)

\* The event loop runs what it may: a handler goes on from its own settled
\* promises and from the close of its connection.
Fairness == \A r \in Requests : WF_vars(Respond(r) \/ WriteCloses(r))

Spec == Init /\ [][Next]_vars

LiveSpec == Spec /\ Fairness

-----------------------------------------------------------------------------
(***************************************************************************)
(* Properties                                                              *)
(***************************************************************************)
Started(r) == handle[r] = "started" \/ (handle[r] = "settled" /\ req[r].attempts > 0)

\* A COMPLETED tombstone exists only for a request whose RequestLog row is
\* durable: a duplicate is refused for good only when the original has been
\* accounted (recordUsageAndComplete, the usagePersisted guard).
TombstoneOnlyAfterLog ==
    \A k \in Keys :
        store[k] # NoRecord /\ store[k].status = "COMPLETED"
            => logs[store[k].req] # "NONE"

\* Once the handler of a started request has returned, the execution is in
\* the RequestLog and its reservation completed, unless the very call that
\* should have done so failed.
EveryExecutionAccounted ==
    \A r \in Requests :
        req[r].stage \in {"lastEvent", "end"} /\ Started(r)
            => \/ <<r, "usage">> \in lost
               \/ /\ logs[r] # "NONE"
                  /\ handle[r] = "settled" \/ <<r, "completion">> \in lost

\* No request enters accounting twice, whichever of the five call sites it
\* reaches and however the first attempt fails (accountingStarted).
AccountedOnce == \A r \in Requests : req[r].attempts <= 1

\* One client request leaves at most one row per era of its key, except that
\* a BLOCKED request whose completion or row append failed may be released
\* and run again by a duplicate.
OneLogPerEra ==
    \A r1, r2 \in Requests :
        /\ r1 # r2 /\ KeyOf[r1] = KeyOf[r2]
        /\ logs[r1] # "NONE" /\ logs[r2] # "NONE"
        /\ resEra[r1] = resEra[r2]
        => \E r \in {r1, r2} :
               /\ logs[r] = "BLOCKED"
               /\ \E call \in {"usage", "completion"} : <<r, call>> \in lost

\* The client sees "done" only for a stream that is logged COMPLETED, whose
\* messages are stored, and whose key is a tombstone until it expires.
DoneMeansSettled ==
    \A r \in Requests :
        req[r].reply = "done"
            => /\ logs[r] = "COMPLETED"
               /\ r \in messages
               /\ resEra[r] = era[KeyOf[r]]
                    => store[KeyOf[r]] = [status |-> "COMPLETED", req |-> r]

\* A queue never holds a job whose RequestLog row does not exist, and the
\* billing queue never one for a blocked request: a worker treats such a job
\* as unrecoverable.
NoJobBeforeLog ==
    \A r \in Requests, q \in Queues :
        <<r, q>> \in jobs => logs[r] # "NONE" /\ (q = "billing" => logs[r] # "BLOCKED")

\* A key is not left PROCESSING, refusing every retry until it expires, by a
\* handler that has ended, unless one of the handler's own calls failed
\* (the catch block of prepareChatStream, recordUsageAndComplete).
NoKeyLeftBehind ==
    \A r \in Requests :
        req[r].stage \in {"lastEvent", "end"} /\ OwnsProcessing(r)
            => \E call \in Calls : <<r, call>> \in lost

\* What the code does not see to: Redis has no commandTimeout, MongoDB no
\* socketTimeoutMS, and the provider's timeout ends with the head of its
\* answer.  An answer has finitely many tokens.
CallsSettle ==
    \A r \in Requests :
        WF_vars(CallReturns(r)) /\ SF_vars(At(r, "stream") /\ CallReturns(r))

\* If the calls of the handlers settle, every handler that got past its checks
\* returns or dies with its process; no failing dependency makes it wait or
\* retry for ever.  Only a client can, by keeping a connection it does not
\* read.
HandlerEnds ==
    CallsSettle =>
        \A r \in Requests :
            At(r, "reserve") ~>
                \/ req[r].stage \in {"end", "crashed"}
                \/ [](req[r].stage \in Writing /\ r \notin disconnected)

\* docs/05_OPENAPI_SPEC.md, 16.7: when the client disconnects, "Finalize a
\* safe INTERRUPTED request log", and do not treat it as a provider failure.
\* A client already known to be gone when accounting begins is not FAILED.
DisconnectNotLoggedFailed ==
    [][\A r \in disconnected :
          req[r].outcome = "NONE" => req'[r].outcome # "FAILED"]_vars

\* An execution is accounted exactly once: never left out, never entered twice
\* by one handler, never logged twice by duplicates of one key.
AccountingExact == TypeOK /\ EveryExecutionAccounted /\ AccountedOnce /\ OneLogPerEra

\* The durable row comes first: no tombstone, no job and no "done" is ever
\* visible without what it stands for (recordUsageAndComplete).
SettledInOrder == TombstoneOnlyAfterLog /\ NoJobBeforeLog /\ DoneMeansSettled
=============================================================================

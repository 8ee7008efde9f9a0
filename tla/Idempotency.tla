---------------------------- MODULE Idempotency ----------------------------
(***************************************************************************)
(* Duplicate protection of billable chat requests                          *)
(* (backend/src/shared/idempotency/idempotency.service.ts).                *)
(*                                                                         *)
(* One Redis record per idempotency key serialises the HTTP requests that  *)
(* carry the same organisation, user and client request id.  A request     *)
(* reserves the record, may start the provider, and finally completes or   *)
(* releases it; three Lua scripts make each of these one atomic step of    *)
(* Redis.  Both record kinds carry a TTL, so a record may also vanish      *)
(* between any two steps.                                                  *)
(*                                                                         *)
(* A script may be executed and its answer lost (the connection drops, or  *)
(* ioredis re-sends the unanswered script and gets the second answer), in  *)
(* which case the caller sees a failure although Redis changed.            *)
(***************************************************************************)
EXTENDS Naturals

CONSTANTS
    Requests,       \* HTTP requests; a request is named by its requestId
    Keys,           \* derived idempotency keys
    KeyOf,          \* the key a request derives from (org, user, client id)
    FingerprintOf,  \* the fingerprint of a request's canonical body
    NoRecord,       \* the absence of a Redis record
    MaxExpiries     \* bound: how many TTL expiries of one key are explored

ASSUME KeyAssumption == KeyOf \in [Requests -> Keys]
ASSUME NoRecordAssumption ==
    NoRecord \notin [status : {"PROCESSING", "COMPLETED"}, req : Requests]
ASSUME BoundAssumption == MaxExpiries \in Nat

VARIABLES
    store,    \* store[k]: the Redis record of key k, or NoRecord
    era,      \* era[k]: how many records of k have expired so far
    handle,   \* handle[r]: where r's reservation object stands
    resEra    \* resEra[r]: the era of its key in which r reserved

idemVars == <<store, era, handle, resEra>>

Record == [status : {"PROCESSING", "COMPLETED"}, req : Requests]

\* "none": reserve not called; "held": reservation returned;
\* "started": markProviderExecutionStarted called; "settled": completed;
\* "closed": released, refused or never granted.
HandleStates == {"none", "held", "started", "settled", "closed"}

IdemTypeOK ==
    /\ store \in [Keys -> Record \cup {NoRecord}]
    /\ era \in [Keys -> Nat]
    /\ handle \in [Requests -> HandleStates]
    /\ resEra \in [Requests -> Nat]

IdemInit ==
    /\ store = [k \in Keys |-> NoRecord]
    /\ era = [k \in Keys |-> 0]
    /\ handle = [r \in Requests |-> "none"]
    /\ resEra = [r \in Requests |-> 0]

-----------------------------------------------------------------------------
(***************************************************************************)
(* What the three scripts test and write.                                  *)
(***************************************************************************)
\* Mutant: the scripts test the status but not whose record it is.
OwnsProcessing_AnyRequest(r) ==
    store[KeyOf[r]] # NoRecord /\ store[KeyOf[r]].status = "PROCESSING"

\* COMPLETE_SCRIPT and RELEASE_SCRIPT act only on the caller's own
\* PROCESSING record.
OwnsProcessing(r) == store[KeyOf[r]] = [status |-> "PROCESSING", req |-> r]

WriteProcessing(r) ==
    store' = [store EXCEPT ![KeyOf[r]] = [status |-> "PROCESSING", req |-> r]]

WriteCompleted(r) ==
    store' = [store EXCEPT ![KeyOf[r]] = [status |-> "COMPLETED", req |-> r]]

DeleteRecord(r) == store' = [store EXCEPT ![KeyOf[r]] = NoRecord]

-----------------------------------------------------------------------------
(***************************************************************************)
(* reserve                                                                 *)
(***************************************************************************)
\* SET NX succeeded: the caller gets a reservation object.
Reserve(r) ==
    /\ handle[r] = "none"
    /\ store[KeyOf[r]] = NoRecord
    /\ WriteProcessing(r)
    /\ handle' = [handle EXCEPT ![r] = "held"]
    /\ resEra' = [resEra EXCEPT ![r] = era[KeyOf[r]]]
    /\ UNCHANGED era

\* The error a request gets for a record that already exists.
ConflictCode(r) ==
    LET record == store[KeyOf[r]] IN
    IF FingerprintOf[record.req] = FingerprintOf[r] /\ record.status = "PROCESSING"
    THEN "REQUEST_IN_PROGRESS"
    ELSE "DUPLICATE_REQUEST"

ReserveConflict(r) ==
    /\ handle[r] = "none"
    /\ store[KeyOf[r]] # NoRecord
    /\ handle' = [handle EXCEPT ![r] = "closed"]
    /\ UNCHANGED <<store, era, resEra>>

\* Redis could not be reached: fail closed, nothing was written.
ReserveUnavailable(r) ==
    /\ handle[r] = "none"
    /\ handle' = [handle EXCEPT ![r] = "closed"]
    /\ UNCHANGED <<store, era, resEra>>

\* The script ran but its answer was lost; the caller never gets a
\* reservation object, so nobody completes or releases this record.
ReserveUnanswered(r) ==
    /\ handle[r] = "none"
    /\ store[KeyOf[r]] = NoRecord
    /\ WriteProcessing(r)
    /\ handle' = [handle EXCEPT ![r] = "closed"]
    /\ UNCHANGED <<era, resEra>>

(***************************************************************************)
(* markProviderExecutionStarted                                            *)
(***************************************************************************)
MarkStarted(r) ==
    /\ handle[r] = "held"
    /\ handle' = [handle EXCEPT ![r] = "started"]
    /\ UNCHANGED <<store, era, resEra>>

(***************************************************************************)
(* markCompleted: called by the accounting of a started request, and by    *)
(* the BLOCK path of one that never starts.                                *)
(***************************************************************************)
MarkCompleted(r) ==
    /\ handle[r] \in {"held", "started"}
    /\ OwnsProcessing(r)
    /\ WriteCompleted(r)
    /\ handle' = [handle EXCEPT ![r] = "settled"]
    /\ UNCHANGED <<era, resEra>>

\* The record is gone or is another request's, or Redis is unreachable: the
\* caller gets IDEMPOTENCY_UNAVAILABLE.
MarkCompletedFails(r) ==
    /\ handle[r] \in {"held", "started"}
    /\ UNCHANGED idemVars

MarkCompletedUnanswered(r) ==
    /\ handle[r] \in {"held", "started"}
    /\ OwnsProcessing(r)
    /\ WriteCompleted(r)
    /\ UNCHANGED <<era, handle, resEra>>

(***************************************************************************)
(* releaseBeforeExecution: refused once the provider may have started.     *)
(***************************************************************************)
Release(r) ==
    /\ handle[r] = "held"
    /\ OwnsProcessing(r)
    /\ DeleteRecord(r)
    /\ handle' = [handle EXCEPT ![r] = "closed"]
    /\ UNCHANGED <<era, resEra>>

ReleaseFails(r) ==
    /\ handle[r] = "held"
    /\ handle' = [handle EXCEPT ![r] = "closed"]
    /\ UNCHANGED <<store, era, resEra>>

(***************************************************************************)
(* Redis drops a record whose TTL (300 s PROCESSING, 3600 s COMPLETED) ran *)
(* out, whatever its owner is doing.                                       *)
(***************************************************************************)
Expire(k) ==
    /\ store[k] # NoRecord
    /\ era[k] < MaxExpiries
    /\ store' = [store EXCEPT ![k] = NoRecord]
    /\ era' = [era EXCEPT ![k] = @ + 1]
    /\ UNCHANGED <<handle, resEra>>

\* The calls one request may make on its reservation.
IdemCall(r) ==
    \/ Reserve(r) \/ ReserveConflict(r) \/ ReserveUnavailable(r)
    \/ ReserveUnanswered(r)
    \/ MarkStarted(r)
    \/ MarkCompleted(r) \/ MarkCompletedFails(r) \/ MarkCompletedUnanswered(r)
    \/ Release(r) \/ ReleaseFails(r)

IdemNext == (\E r \in Requests : IdemCall(r)) \/ (\E k \in Keys : Expire(k))

IdemSpec == IdemInit /\ [][IdemNext]_idemVars

-----------------------------------------------------------------------------
\* r obtained a reservation object and has not given it back.
Admitted(r) == handle[r] \in {"held", "started", "settled"}

\* No request reserved in an era that has not begun.
NoFutureEra == \A r \in Requests : resEra[r] <= era[KeyOf[r]]

\* A record that is still in its reservation's era belongs to the request
\* that reserved it, whatever late calls other requests of the key make.
ReservationNotStolen ==
    \A r \in Requests :
        Admitted(r) /\ resEra[r] = era[KeyOf[r]]
            => store[KeyOf[r]] \in [status : {"PROCESSING", "COMPLETED"}, req : {r}]

\* Two requests of one key are admitted in the same era only if they are the
\* same request.  Between two TTL expiries at most one HTTP request of a key
\* can reach the provider, so a duplicate of a live or completed request is
\* never executed and never billed.
OneExecutionPerEra ==
    \A r1, r2 \in Requests :
        /\ Admitted(r1) /\ Admitted(r2)
        /\ KeyOf[r1] = KeyOf[r2]
        /\ resEra[r1] = resEra[r2]
        => r1 = r2

\* What a reservation is worth, in one invariant: the records are well formed,
\* no late call of another request takes a live one away, and a key admits one
\* request per era (reserve, markCompleted, releaseBeforeExecution).
ReservationSound == IdemTypeOK /\ ReservationNotStolen /\ OneExecutionPerEra
=============================================================================

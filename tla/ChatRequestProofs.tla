-------------------------- MODULE ChatRequestProofs --------------------------
(***************************************************************************)
(* The accounting of chat requests, for any number of requests, keys,      *)
(* faults and expiries.                                                    *)
(*                                                                         *)
(* None of the promises is inductive: that a handler accounts only once,   *)
(* and finds its row free when it does, needs to know at every await what  *)
(* the handler has done so far.  HandlerOK says so, stage by stage, for    *)
(* the reservation, the accounting and the row of one request.  LogKept    *)
(* and SettledHolds are what remains true when the handler has died.       *)
(* About the records themselves the pipeline adds that a handler holds its *)
(* PROCESSING record or has lost a call (KeysHeld); that it makes only the *)
(* calls of Idempotency lets the invariant proved of the protocol hold of  *)
(* the pipeline.                                                           *)
(***************************************************************************)
EXTENDS ChatRequest, TLAPS

-----------------------------------------------------------------------------
(***************************************************************************)
(* The reservation protocol, for any number of requests, keys and expiries *)
(* and whatever answers of Redis are lost.                                 *)
(*                                                                         *)
(* OneExecutionPerEra is not inductive: a fresh Reserve would break it     *)
(* unless an admitted request of the current era still owned the record.   *)
(* ReservationNotStolen says that it does, and needs the ownership test of *)
(* the scripts; NoFutureEra makes the step over an expiry go through.      *)
(***************************************************************************)
IInv == IdemTypeOK /\ NoFutureEra /\ ReservationNotStolen /\ OneExecutionPerEra

\* The initial state has no record and nobody admitted.
LEMMA InitIInv == IdemInit => IInv
BY KeyAssumption
DEF IdemInit, IInv, IdemTypeOK, NoFutureEra, ReservationNotStolen,
    OneExecutionPerEra, Admitted, HandleStates

\* The owner test of the scripts, spelled out over the record set.
LEMMA RecordShape ==
    ASSUME NEW r \in Requests, NEW s \in {"PROCESSING", "COMPLETED"}
    PROVE  /\ [status |-> s, req |-> r] \in Record
           /\ [status |-> s, req |-> r] # NoRecord
BY NoRecordAssumption DEF Record

\* Type correctness is preserved by every step.
LEMMA TypeStep == IdemTypeOK /\ [IdemNext]_idemVars => IdemTypeOK'
<1> SUFFICES ASSUME IdemTypeOK, [IdemNext]_idemVars
             PROVE  IdemTypeOK'
    OBVIOUS
<1> USE DEF IdemTypeOK, HandleStates
<1>1. ASSUME NEW r \in Requests, IdemCall(r)
      PROVE  IdemTypeOK'
  <2>1. KeyOf[r] \in Keys
        BY KeyAssumption
  <2>2. [status |-> "PROCESSING", req |-> r] \in Record
        BY RecordShape
  <2>3. [status |-> "COMPLETED", req |-> r] \in Record
        BY RecordShape
  <2>4. CASE Reserve(r)
        BY <2>1, <2>2, <2>4 DEF Reserve, WriteProcessing
  <2>5. CASE ReserveConflict(r) \/ ReserveUnavailable(r)
        BY <2>5 DEF ReserveConflict, ReserveUnavailable
  <2>6. CASE ReserveUnanswered(r)
        BY <2>1, <2>2, <2>6 DEF ReserveUnanswered, WriteProcessing
  <2>7. CASE MarkStarted(r) \/ MarkCompletedFails(r)
        BY <2>7 DEF MarkStarted, MarkCompletedFails, idemVars
  <2>8. CASE MarkCompleted(r) \/ MarkCompletedUnanswered(r)
        BY <2>1, <2>3, <2>8 DEF MarkCompleted, MarkCompletedUnanswered, WriteCompleted
  <2>9. CASE Release(r) \/ ReleaseFails(r)
        BY <2>1, <2>9 DEF Release, ReleaseFails, DeleteRecord
  <2> QED BY <1>1, <2>4, <2>5, <2>6, <2>7, <2>8, <2>9 DEF IdemCall
<1>2. ASSUME NEW k \in Keys, Expire(k)
      PROVE  IdemTypeOK'
      BY <1>2 DEF Expire
<1>3. CASE UNCHANGED idemVars
      BY <1>3 DEF idemVars
<1> QED BY <1>1, <1>2, <1>3 DEF IdemNext

\* What a call of request r does, as far as the ownership argument is
\* concerned: it leaves the record of its key alone, replaces it by one of
\* its own, or deletes one of its own; and it touches nobody else's handle.
CallEffect(r) ==
    /\ era' = era
    /\ \A o \in Requests \ {r} : handle'[o] = handle[o] /\ resEra'[o] = resEra[o]
    /\ \A k \in Keys \ {KeyOf[r]} : store'[k] = store[k]
    /\ \/ store' = store
       \/ /\ store[KeyOf[r]] = NoRecord
          /\ store'[KeyOf[r]] = [status |-> "PROCESSING", req |-> r]
       \/ /\ store[KeyOf[r]] = [status |-> "PROCESSING", req |-> r]
          /\ \/ store'[KeyOf[r]] = [status |-> "COMPLETED", req |-> r]
             \/ store'[KeyOf[r]] = NoRecord /\ handle'[r] = "closed"
    /\ \/ Admitted(r) /\ resEra'[r] = resEra[r]
       \/ ~Admitted(r)'
       \/ /\ store[KeyOf[r]] = NoRecord
          /\ resEra'[r] = era[KeyOf[r]]
          /\ store'[KeyOf[r]] = [status |-> "PROCESSING", req |-> r]
    /\ resEra'[r] \in {resEra[r], era[KeyOf[r]]}

\* Every call of the protocol has that shape.
LEMMA CallShape ==
    ASSUME IInv, NEW r \in Requests, IdemCall(r)
    PROVE  CallEffect(r)
<1> USE DEF IInv, IdemTypeOK, Admitted, CallEffect
<1>1. KeyOf[r] \in Keys
      BY KeyAssumption
<1>2. CASE Reserve(r)
      BY <1>1, <1>2 DEF Reserve, WriteProcessing
<1>3. CASE ReserveConflict(r) \/ ReserveUnavailable(r)
      BY <1>1, <1>3 DEF ReserveConflict, ReserveUnavailable
<1>4. CASE ReserveUnanswered(r)
      BY <1>1, <1>4 DEF ReserveUnanswered, WriteProcessing
<1>5. CASE MarkStarted(r) \/ MarkCompletedFails(r)
      BY <1>1, <1>5 DEF MarkStarted, MarkCompletedFails, idemVars
<1>6. CASE MarkCompleted(r) \/ MarkCompletedUnanswered(r)
      BY <1>1, <1>6 DEF MarkCompleted, MarkCompletedUnanswered, WriteCompleted,
                        OwnsProcessing
<1>7. CASE Release(r)
      BY <1>1, <1>7 DEF Release, DeleteRecord, OwnsProcessing
<1>8. CASE ReleaseFails(r)
      BY <1>1, <1>8 DEF ReleaseFails
<1> QED BY <1>2, <1>3, <1>4, <1>5, <1>6, <1>7, <1>8 DEF IdemCall

\* A call of one request keeps every part of the invariant.
LEMMA CallStep ==
    ASSUME IInv, NEW r \in Requests, IdemCall(r)
    PROVE  NoFutureEra' /\ ReservationNotStolen' /\ OneExecutionPerEra'
<1> DEFINE Own(q) == [status : {"PROCESSING", "COMPLETED"}, req : {q}]
<1>0. CallEffect(r)
      BY CallShape
<1>1. KeyOf[r] \in Keys /\ \A o \in Requests : KeyOf[o] \in Keys
      BY KeyAssumption
<1>2. \A q \in Requests : NoRecord \notin Own(q)
      BY NoRecordAssumption
<1>3. NoFutureEra'
      BY <1>1, <1>0 DEF CallEffect, IInv, IdemTypeOK, NoFutureEra
<1>4. ReservationNotStolen'
  <2> SUFFICES ASSUME NEW o \in Requests, Admitted(o)', resEra'[o] = era'[KeyOf[o]]
               PROVE  store'[KeyOf[o]] \in Own(o)
      BY DEF ReservationNotStolen
  <2>1. CASE o = r
        BY <1>1, <1>2, <2>1, <1>0 DEF CallEffect, IInv, ReservationNotStolen, Admitted
  <2>2. CASE o # r
    <3>1. Admitted(o) /\ resEra[o] = era[KeyOf[o]]
          BY <2>2, <1>0 DEF CallEffect, Admitted
    <3>2. store[KeyOf[o]] \in Own(o)
          BY <3>1 DEF IInv, ReservationNotStolen
    <3>3. CASE KeyOf[o] # KeyOf[r]
          BY <1>1, <3>2, <3>3, <1>0 DEF CallEffect
    <3>4. CASE KeyOf[o] = KeyOf[r]
      <4>1. store[KeyOf[r]] # NoRecord
            BY <1>2, <3>2, <3>4
      <4>2. store[KeyOf[r]] # [status |-> "PROCESSING", req |-> r]
            BY <2>2, <3>2, <3>4
      <4>3. store' = store
            BY <4>1, <4>2, <1>0 DEF CallEffect
      <4> QED BY <3>2, <4>3
    <3> QED BY <3>3, <3>4
  <2> QED BY <2>1, <2>2
<1>5. OneExecutionPerEra'
  <2> SUFFICES ASSUME NEW o \in Requests, o # r, Admitted(r)', Admitted(o)',
                      KeyOf[r] = KeyOf[o], resEra'[r] = resEra'[o]
               PROVE  FALSE
    <3>1. ASSUME NEW r1 \in Requests, NEW r2 \in Requests, r1 # r, r2 # r,
                 Admitted(r1)', Admitted(r2)', KeyOf[r1] = KeyOf[r2],
                 resEra'[r1] = resEra'[r2]
          PROVE  r1 = r2
          BY <3>1, <1>0 DEF CallEffect, IInv, OneExecutionPerEra, Admitted
    <3> QED BY <3>1 DEF OneExecutionPerEra
  <2>1. Admitted(o) /\ resEra'[o] = resEra[o]
        BY <1>0 DEF CallEffect, Admitted
  <2>2. CASE Admitted(r) /\ resEra'[r] = resEra[r]
        BY <2>1, <2>2 DEF IInv, OneExecutionPerEra
  <2>3. CASE store[KeyOf[r]] = NoRecord /\ resEra'[r] = era[KeyOf[r]]
    <3>1. resEra[o] = era[KeyOf[o]]
          BY <2>1, <2>3
    <3>2. store[KeyOf[o]] \in Own(o)
          BY <2>1, <3>1 DEF IInv, ReservationNotStolen
    <3> QED BY <1>2, <2>3, <3>2
  <2> QED BY <2>2, <2>3, <1>0 DEF CallEffect
<1> QED BY <1>3, <1>4, <1>5

\* A TTL expiry begins an era in which nobody is admitted yet.
LEMMA ExpireStep ==
    ASSUME IInv, NEW k \in Keys, Expire(k)
    PROVE  NoFutureEra' /\ ReservationNotStolen' /\ OneExecutionPerEra'
<1> USE KeyAssumption
<1>1. NoFutureEra'
      BY DEF IInv, IdemTypeOK, NoFutureEra, Expire
<1>2. ReservationNotStolen'
  <2> SUFFICES ASSUME NEW o \in Requests, Admitted(o)', resEra'[o] = era'[KeyOf[o]]
               PROVE  store'[KeyOf[o]] \in
                          [status : {"PROCESSING", "COMPLETED"}, req : {o}]
      BY DEF ReservationNotStolen
  <2>1. KeyOf[o] # k
        BY DEF IInv, IdemTypeOK, NoFutureEra, Expire
  <2>2. store'[KeyOf[o]] = store[KeyOf[o]] /\ era'[KeyOf[o]] = era[KeyOf[o]]
        BY <2>1 DEF IInv, IdemTypeOK, Expire
  <2> QED BY <2>2 DEF IInv, ReservationNotStolen, Expire, Admitted
<1>3. OneExecutionPerEra'
      BY DEF IInv, OneExecutionPerEra, Expire, Admitted
<1> QED BY <1>1, <1>2, <1>3

\* The strengthened invariant is inductive.
LEMMA IInvStep == IInv /\ [IdemNext]_idemVars => IInv'
<1> SUFFICES ASSUME IInv, [IdemNext]_idemVars
             PROVE  IInv'
    OBVIOUS
<1>1. IdemTypeOK'
      BY TypeStep DEF IInv
<1>2. ASSUME NEW r \in Requests, IdemCall(r)
      PROVE  NoFutureEra' /\ ReservationNotStolen' /\ OneExecutionPerEra'
      BY <1>2, CallStep
<1>3. ASSUME NEW k \in Keys, Expire(k)
      PROVE  NoFutureEra' /\ ReservationNotStolen' /\ OneExecutionPerEra'
      BY <1>3, ExpireStep
<1>4. ASSUME UNCHANGED idemVars
      PROVE  NoFutureEra' /\ ReservationNotStolen' /\ OneExecutionPerEra'
      BY <1>4 DEF idemVars, IInv, NoFutureEra, ReservationNotStolen,
                  OneExecutionPerEra, Admitted
<1>5. NoFutureEra' /\ ReservationNotStolen' /\ OneExecutionPerEra'
      BY <1>2, <1>3, <1>4 DEF IdemNext
<1> QED BY <1>1, <1>5 DEF IInv

\* Every reachable state of the reservation protocol satisfies the
\* strengthened invariant.
THEOREM IdempotencyInvariant == IdemSpec => []IInv
<1>1. IdemInit => IInv
      BY InitIInv
<1>2. IInv /\ [IdemNext]_idemVars => IInv'
      BY IInvStep
<1> QED BY <1>1, <1>2, PTL DEF IdemSpec

\* Type correctness of the Redis records and of the reservation objects.
THEOREM IdempotencyTypes == IdemSpec => []IdemTypeOK
<1>1. IInv => IdemTypeOK
      BY DEF IInv
<1> QED BY <1>1, IdempotencyInvariant, PTL

\* For any number of requests, keys, expiries and lost answers, at most one
\* request of a key is admitted, and so may reach the provider, between two
\* expiries of its record (reserve and the two ownership-tested scripts).
THEOREM AtMostOneExecution == IdemSpec => []OneExecutionPerEra
<1>1. IInv => OneExecutionPerEra
      BY DEF IInv
<1> QED BY <1>1, IdempotencyInvariant, PTL

\* No late markCompleted or releaseBeforeExecution of another request takes
\* a live reservation away.
THEOREM ReservationKept == IdemSpec => []ReservationNotStolen
<1>1. IInv => ReservationNotStolen
      BY DEF IInv
<1> QED BY <1>1, IdempotencyInvariant, PTL

\* The reservation protocol as a whole, for every set of requests and keys.
THEOREM ReservationIsSound == IdemSpec => []ReservationSound
<1>1. IInv => ReservationSound
      BY DEF IInv, ReservationSound
<1> QED BY <1>1, IdempotencyInvariant, PTL

-----------------------------------------------------------------------------
(***************************************************************************)
(* The inductive invariant                                                 *)
(***************************************************************************)
\* Nothing has been accounted yet.
Unaccounted(r) == req[r].attempts = 0 /\ logs[r] = "NONE"

\* Accounting was entered, once, with an outcome that fits its call site.
Accounting(r) ==
    /\ req[r].attempts = 1
    /\ req[r].outcome \in {"FAILED", "INTERRUPTED", "COMPLETED"}
    /\ req[r].site # "none"
    /\ req[r].site = "done" => req[r].outcome = "COMPLETED"

\* The row of a blocked request whose key may be given back.
BlockedLost(r) ==
    logs[r] = "BLOCKED" /\ \E call \in {"usage", "completion"} : <<r, call>> \in lost

\* The accounting is complete, or the call that failed is known.
Accounted(r) ==
    \/ <<r, "usage">> \in lost
    \/ /\ logs[r] = req[r].outcome
       /\ handle[r] = "settled" \/ <<r, "completion">> \in lost

\* The messages of a completed stream are stored, or an error is kept.
Stored(r) == req[r].outcome = "COMPLETED" => req[r].error \/ r \in messages

\* What the handler of r has done by the time it waits at its stage.
HandlerOK(r) ==
    /\ req[r].stage \in {"idle", "reserve"} => handle[r] = "none" /\ Unaccounted(r)
    /\ req[r].stage \in {"controls", "blockLog", "select"} =>
           handle[r] = "held" /\ Unaccounted(r)
    /\ req[r].stage \in {"blockJobs", "blockComplete"} =>
           handle[r] = "held" /\ req[r].attempts = 0 /\ logs[r] = "BLOCKED"
    /\ req[r].stage = "release" =>
           handle[r] = "held" /\ req[r].attempts = 0 /\ (logs[r] = "NONE" \/ BlockedLost(r))
    /\ req[r].stage \in {"firstChunk", "opening", "stream", "token"} =>
           handle[r] = "started" /\ Unaccounted(r)
    /\ req[r].stage = "usage" =>
           handle[r] = "started" /\ logs[r] = "NONE" /\ Accounting(r)
    /\ req[r].stage \in {"messages", "billing", "analytics", "complete"} =>
           /\ handle[r] = "started" /\ logs[r] = req[r].outcome /\ Accounting(r)
           /\ req[r].stage # "messages" => Stored(r)
    /\ req[r].stage = "respond" =>
           /\ Accounting(r) /\ Accounted(r)
           /\ ~req[r].error => /\ logs[r] = req[r].outcome /\ handle[r] = "settled"
                               /\ Stored(r)
    /\ req[r].stage \in {"lastEvent", "end"} =>
           IF req[r].attempts = 0 THEN handle[r] \notin {"held", "started"}
                                  ELSE Accounting(r) /\ Accounted(r)
    /\ req[r].reply = "done" =>
           logs[r] = "COMPLETED" /\ r \in messages /\ handle[r] = "settled"
    /\ req[r].stage \notin {"lastEvent", "end", "crashed"} => req[r].reply = "NONE"
    /\ req[r].attempts <= 1

\* A row keeps its reservation from being given back, even that of a handler
\* that has died.
RowKept(r) == logs[r] # "NONE" => Admitted(r) \/ BlockedLost(r)
LogKept == \A r \in Requests : RowKept(r)

\* Whoever has a PROCESSING record holds it, or lost the call that would have
\* told it, or that would have given it back.
RecordHeld(r) ==
    OwnsProcessing(r) =>
        \/ handle[r] \in {"held", "started"}
        \/ handle[r] = "closed" /\ \E call \in {"reserve", "release"} : <<r, call>> \in lost
KeysHeld == \A r \in Requests : RecordHeld(r)

\* A settled reservation is a tombstone for the rest of its era.
SettledHolds ==
    \A r \in Requests :
        handle[r] = "settled" /\ resEra[r] = era[KeyOf[r]]
            => store[KeyOf[r]] = [status |-> "COMPLETED", req |-> r]

HandlersOK == \A r \in Requests : HandlerOK(r)

PipelineInv ==
    /\ TypeOK /\ IInv
    /\ HandlersOK /\ LogKept /\ KeysHeld /\ SettledHolds
    /\ TombstoneOnlyAfterLog /\ NoJobBeforeLog

-----------------------------------------------------------------------------
(***************************************************************************)
(* The moves of a handler                                                  *)
(***************************************************************************)
\* Only the handler of r has moved, and it stands at stage s now.
Moved(r, s) ==
    /\ req' \in [Requests -> Handler]
    /\ \A o \in Requests \ {r} : req'[o] = req[o]
    /\ req'[r].stage = s

SameAccount(r) ==
    /\ req'[r].attempts = req[r].attempts
    /\ req'[r].outcome = req[r].outcome
    /\ req'[r].site = req[r].site

\* The shape every move has, and what follows from it about the types.
LEMMA MoveRecord ==
    ASSUME req \in [Requests -> Handler], NEW r \in Requests,
           NEW h \in Handler, req' = [req EXCEPT ![r] = h]
    PROVE  Moved(r, h.stage) /\ req'[r] = h
BY DEF Moved

\* The fields of the record that describes a handler.
LEMMA HandlerFields ==
    ASSUME NEW h \in Handler
    PROVE  /\ h = [stage |-> h.stage, outcome |-> h.outcome, site |-> h.site,
                   attempts |-> h.attempts, error |-> h.error, reply |-> h.reply]
           /\ h.stage \in Stages /\ h.outcome \in Outcomes /\ h.site \in CallSites
           /\ h.attempts \in 0..2 /\ h.error \in BOOLEAN /\ h.reply \in Replies
BY DEF Handler

\* A plain move changes the stage alone.
LEMMA GotoMoves ==
    ASSUME req \in [Requests -> Handler], NEW r \in Requests, NEW s \in Stages, Goto(r, s)
    PROVE  /\ Moved(r, s) /\ SameAccount(r)
           /\ req'[r].error = req[r].error /\ req'[r].reply = req[r].reply
<1> DEFINE h == [req[r] EXCEPT !.stage = s]
<1>1. h \in Handler
  BY DEF Handler
<1>2. req' = [req EXCEPT ![r] = h]
  BY DEF Goto
<1>3. /\ h.stage = s /\ h.attempts = req[r].attempts /\ h.outcome = req[r].outcome
      /\ h.site = req[r].site /\ h.error = req[r].error /\ h.reply = req[r].reply
  BY DEF Handler
<1> HIDE DEF h
<1> QED
  BY <1>1, <1>2, <1>3, MoveRecord DEF SameAccount

\* The handler returns with a reply.
LEMMA FinishMoves ==
    ASSUME req \in [Requests -> Handler], NEW r \in Requests, NEW code \in Replies,
           Finish(r, code)
    PROVE  /\ Moved(r, "end") /\ SameAccount(r)
           /\ req'[r].error = req[r].error /\ req'[r].reply = code
<1> DEFINE h == [req[r] EXCEPT !.stage = "end", !.reply = code]
<1>1. h \in Handler
  BY DEF Handler, Stages
<1>2. req' = [req EXCEPT ![r] = h]
  BY DEF Finish
<1>3. /\ h.stage = "end" /\ h.attempts = req[r].attempts /\ h.outcome = req[r].outcome
      /\ h.site = req[r].site /\ h.error = req[r].error /\ h.reply = code
  BY DEF Handler
<1> HIDE DEF h
<1> QED
  BY <1>1, <1>2, <1>3, MoveRecord DEF SameAccount

\* The handler writes its last event, and may have to wait.
LEMMA LastEventMoves ==
    ASSUME req \in [Requests -> Handler], NEW r \in Requests, NEW code \in Replies,
           LastEvent(r, code)
    PROVE  \E s \in {"lastEvent", "end"} :
               /\ Moved(r, s) /\ SameAccount(r)
               /\ req'[r].error = req[r].error /\ req'[r].reply = code
<1>1. CASE Finish(r, code)
  BY <1>1, FinishMoves
<1>2. CASE req' = [req EXCEPT ![r].stage = "lastEvent", ![r].reply = code]
  <2> DEFINE h == [req[r] EXCEPT !.stage = "lastEvent", !.reply = code]
  <2>1. h \in Handler
    BY DEF Handler, Stages
  <2>2. req' = [req EXCEPT ![r] = h]
    BY <1>2
  <2>3. /\ h.stage = "lastEvent" /\ h.attempts = req[r].attempts /\ h.outcome = req[r].outcome
        /\ h.site = req[r].site /\ h.error = req[r].error /\ h.reply = code
    BY DEF Handler
  <2> HIDE DEF h
  <2> QED
    BY <2>1, <2>2, <2>3, MoveRecord DEF SameAccount
<1> QED
  BY <1>1, <1>2 DEF LastEvent

\* A first call of recordUsageAndComplete.
LEMMA AccountingMoves ==
    ASSUME req \in [Requests -> Handler], NEW r \in Requests, req[r].attempts = 0,
           NEW outcome \in Outcomes, NEW site \in CallSites,
           BeginAccounting(r, outcome, site)
    PROVE  /\ Moved(r, "usage")
           /\ req'[r].attempts = 1 /\ req'[r].outcome = outcome /\ req'[r].site = site
           /\ req'[r].error = req[r].error /\ req'[r].reply = req[r].reply
<1> DEFINE h == [stage |-> "usage", outcome |-> outcome, site |-> site,
                 attempts |-> 1, error |-> req[r].error, reply |-> req[r].reply]
<1>1. h \in Handler
  BY HandlerFields DEF Handler, Stages
<1>2. req' = [req EXCEPT ![r] = h]
  BY HandlerFields DEF BeginAccounting
<1>3. /\ h.stage = "usage" /\ h.attempts = 1 /\ h.outcome = outcome
      /\ h.site = site /\ h.error = req[r].error /\ h.reply = req[r].reply
  BY DEF Handler
<1> HIDE DEF h
<1> QED
  BY <1>1, <1>2, <1>3, MoveRecord

\* A move that keeps an error for the call site.
LEMMA ErrorMoves ==
    ASSUME req \in [Requests -> Handler], NEW r \in Requests, NEW s \in Stages,
           req' = [req EXCEPT ![r].stage = s, ![r].error = TRUE]
    PROVE  /\ Moved(r, s) /\ SameAccount(r)
           /\ req'[r].error = TRUE /\ req'[r].reply = req[r].reply
<1> DEFINE h == [req[r] EXCEPT !.stage = s, !.error = TRUE]
<1>1. h \in Handler
  BY DEF Handler
<1>2. req' = [req EXCEPT ![r] = h]
  OBVIOUS
<1>3. /\ h.stage = s /\ h.attempts = req[r].attempts /\ h.outcome = req[r].outcome
      /\ h.site = req[r].site /\ h.error = TRUE /\ h.reply = req[r].reply
  BY DEF Handler
<1> HIDE DEF h
<1> QED
  BY <1>1, <1>2, <1>3, MoveRecord DEF SameAccount

-----------------------------------------------------------------------------
(***************************************************************************)
(* Types                                                                   *)
(***************************************************************************)
\* The part of the state a handler's moves do not describe.
RestTypeOK ==
    /\ disconnected \subseteq Requests
    /\ shutdown \subseteq Requests
    /\ logs \in [Requests -> Outcomes]
    /\ messages \subseteq Requests
    /\ jobs \subseteq Requests \X Queues
    /\ recovery \subseteq Requests \X Queues
    /\ lost \subseteq Requests \X Calls
    /\ faults \in 0..MaxFaults

\* A fault stays within the bound and names a call of its own handler.
LEMMA FaultType ==
    ASSUME RestTypeOK, NEW r \in Requests,
           \/ NoFault \/ Fault
           \/ \E call \in Calls : FaultLoses(r, call)
    PROVE  (lost \subseteq Requests \X Calls /\ faults \in 0..MaxFaults)'
BY FaultAssumption DEF RestTypeOK, NoFault, Fault, FaultLoses, faultVars

\* What the accounting of request o is judged by does not change.
Framed(o) ==
    /\ req'[o] = req[o] /\ handle'[o] = handle[o] /\ resEra'[o] = resEra[o]
    /\ logs'[o] = logs[o]
    /\ o \in messages' <=> o \in messages
    /\ \A call \in Calls : <<o, call>> \in lost' <=> <<o, call>> \in lost

\* A step of the handler of r, or of its environment, touches nobody else.
OnlyOwn(r) == \A o \in Requests \ {r} : Framed(o)

\* A row is written once, and a job only for a request that has its row.
RowOnce(r) == logs[r] # "NONE" => logs'[r] = logs[r]
JobHasRow(r) ==
    \A q \in Queues :
        <<r, q>> \in jobs' =>
            \/ <<r, q>> \in jobs
            \/ logs[r] # "NONE" /\ (q = "billing" => logs[r] # "BLOCKED")
JobsOfOthersKept(r) ==
    \A o \in Requests \ {r}, q \in Queues : <<o, q>> \in jobs' => <<o, q>> \in jobs

\* A record that becomes a tombstone is that of r, whose row is there.
TombstoneHasRow(r) ==
    \A k \in Keys :
        store'[k] # store[k] /\ store'[k] # NoRecord /\ store'[k].status = "COMPLETED"
            => store'[k].req = r /\ logs[r] # "NONE"

\* A step of the pipeline for request r, as the invariant sees it.
StepShape(r) ==
    /\ RestTypeOK' /\ req' \in [Requests -> Handler]
    /\ OnlyOwn(r)
    /\ RowOnce(r) /\ JobHasRow(r) /\ JobsOfOthersKept(r) /\ TombstoneHasRow(r)
    /\ UNCHANGED idemVars \/ IdemCall(r)
    /\ HandlerOK(r)' /\ RowKept(r)' /\ RecordHeld(r)'

\* HandlerOK speaks of one request alone.
LEMMA FramedKeeps ==
    ASSUME NEW o \in Requests, HandlerOK(o), Framed(o)
    PROVE  HandlerOK(o)'
BY DEF HandlerOK, Framed, Unaccounted, Accounting, BlockedLost, Accounted, Stored, Calls

\* How a call of the protocol becomes settled, and stays so.
LEMMA SettleShape ==
    ASSUME IInv, NEW r \in Requests, IdemCall(r), handle'[r] = "settled"
    PROVE  \/ handle[r] = "settled" /\ resEra'[r] = resEra[r] /\ store' = store
           \/ store'[KeyOf[r]] = [status |-> "COMPLETED", req |-> r]
<1> USE KeyAssumption DEF IInv, IdemTypeOK
<1>1. CASE MarkCompleted(r)
  BY <1>1 DEF MarkCompleted, WriteCompleted
<1>2. CASE ~MarkCompleted(r)
  BY <1>2 DEF IdemCall, Reserve, ReserveConflict, ReserveUnavailable, ReserveUnanswered,
              MarkStarted, MarkCompletedFails, MarkCompletedUnanswered, Release,
              ReleaseFails, idemVars
<1> QED
  BY <1>1, <1>2

\* Tombstones stay while their era lasts, whatever one request calls.
LEMMA SettledStep ==
    ASSUME IInv, SettledHolds, NEW r \in Requests, IdemCall(r)
    PROVE  SettledHolds'
<1> SUFFICES ASSUME NEW o \in Requests, handle'[o] = "settled", resEra'[o] = era'[KeyOf[o]]
             PROVE  store'[KeyOf[o]] = [status |-> "COMPLETED", req |-> o]
  BY DEF SettledHolds
<1>0. CallEffect(r) /\ KeyOf[o] \in Keys
  BY CallShape, KeyAssumption
<1>1. CASE o = r
  BY <1>0, <1>1, SettleShape DEF SettledHolds, CallEffect
<1>2. CASE o # r
  <2>1. store[KeyOf[o]] = [status |-> "COMPLETED", req |-> o]
    BY <1>0, <1>2 DEF SettledHolds, CallEffect
  <2>2. store[KeyOf[o]] # NoRecord
    BY <2>1, RecordShape
  <2>3. store[KeyOf[o]] # [status |-> "PROCESSING", req |-> r]
    <3>1. store[KeyOf[o]].status = "COMPLETED"
      BY <2>1
    <3> QED
      BY <3>1
  <2> QED
    BY <1>0, <2>1, <2>2, <2>3 DEF CallEffect
<1> QED
  BY <1>1, <1>2

\* No call of one request makes or keeps another's record.
LEMMA OthersHold ==
    ASSUME IInv, KeysHeld, NEW r \in Requests, UNCHANGED idemVars \/ IdemCall(r),
           NEW o \in Requests \ {r}, Framed(o)
    PROVE  RecordHeld(o)'
<1> SUFFICES ASSUME OwnsProcessing(o)' PROVE OwnsProcessing(o)
  BY DEF KeysHeld, RecordHeld, Framed, Calls
<1>1. CASE UNCHANGED idemVars
  BY <1>1 DEF OwnsProcessing, idemVars
<1>2. CASE IdemCall(r)
  <2>1. CallEffect(r) /\ KeyOf[o] \in Keys /\ KeyOf[r] \in Keys
    BY <1>2, CallShape, KeyAssumption
  <2>2. store'[KeyOf[o]].status = "PROCESSING" /\ store'[KeyOf[o]].req = o
    BY DEF OwnsProcessing
  <2>3. store'[KeyOf[o]] # NoRecord
    BY RecordShape DEF OwnsProcessing
  <2>4. store'[KeyOf[o]] # [status |-> "PROCESSING", req |-> r]
    <3> SUFFICES ASSUME store'[KeyOf[o]] = [status |-> "PROCESSING", req |-> r] PROVE FALSE
      OBVIOUS
    <3>1. store'[KeyOf[o]].req = r
      OBVIOUS
    <3> QED
      BY <2>2, <3>1
  <2>5. store'[KeyOf[o]] # [status |-> "COMPLETED", req |-> r]
    <3> SUFFICES ASSUME store'[KeyOf[o]] = [status |-> "COMPLETED", req |-> r] PROVE FALSE
      OBVIOUS
    <3>1. store'[KeyOf[o]].status = "COMPLETED"
      OBVIOUS
    <3> QED
      BY <2>2, <3>1
  <2>6. store'[KeyOf[o]] = store[KeyOf[o]]
    BY <2>1, <2>3, <2>4, <2>5 DEF CallEffect
  <2> QED
    BY <2>6 DEF OwnsProcessing
<1> QED
  BY <1>1, <1>2

\* A request's own calls: it takes its record up, gives it back, or has lost
\* the answer.
LEMMA OwnHold ==
    ASSUME IdemTypeOK, NEW r \in Requests, RecordHeld(r), lost \subseteq lost',
           UNCHANGED idemVars \/ IdemCall(r),
           ReserveUnanswered(r) => <<r, "reserve">> \in lost',
           ReleaseFails(r) => ~OwnsProcessing(r) \/ <<r, "release">> \in lost'
    PROVE  RecordHeld(r)'
<1> USE DEF RecordHeld
<1>0. KeyOf[r] \in Keys
  BY KeyAssumption
<1>1. CASE UNCHANGED idemVars
  BY <1>1 DEF idemVars, OwnsProcessing
<1>2. CASE Reserve(r) \/ ReserveUnanswered(r) \/ MarkStarted(r)
  BY <1>2 DEF Reserve, ReserveUnanswered, MarkStarted, OwnsProcessing, IdemTypeOK
<1>3. CASE ReserveConflict(r) \/ ReserveUnavailable(r) \/ ReleaseFails(r)
  BY <1>3 DEF ReserveConflict, ReserveUnavailable, ReleaseFails, OwnsProcessing, IdemTypeOK
<1>4. CASE MarkCompleted(r) \/ MarkCompletedUnanswered(r)
  <2>1. store'[KeyOf[r]].status = "COMPLETED"
    BY <1>0, <1>4 DEF MarkCompleted, MarkCompletedUnanswered, WriteCompleted, IdemTypeOK
  <2>2. ~OwnsProcessing(r)'
    BY <2>1 DEF OwnsProcessing
  <2> QED
    BY <2>2
<1>5. CASE MarkCompletedFails(r)
  BY <1>1, <1>5 DEF MarkCompletedFails
<1>6. CASE Release(r)
  <2>1. store'[KeyOf[r]] = NoRecord
    BY <1>0, <1>6 DEF Release, DeleteRecord, IdemTypeOK
  <2>2. ~OwnsProcessing(r)'
    BY <2>1, RecordShape DEF OwnsProcessing
  <2> QED
    BY <2>2
<1> QED
  BY <1>1, <1>2, <1>3, <1>4, <1>5, <1>6 DEF IdemCall

\* A step that has that shape keeps the invariant.
LEMMA ShapeStep ==
    ASSUME PipelineInv, NEW r \in Requests, StepShape(r)
    PROVE  PipelineInv'
<1> USE DEF StepShape
<1>1. IInv'
  BY IInvStep DEF PipelineInv, IdemNext
<1>2. TypeOK'
  BY <1>1 DEF TypeOK, RestTypeOK, IInv
<1>3. HandlersOK'
  BY FramedKeeps DEF PipelineInv, HandlersOK, OnlyOwn
<1>4. LogKept'
  BY DEF PipelineInv, LogKept, RowKept, OnlyOwn, Framed, Admitted, BlockedLost, Calls
<1>8. KeysHeld'
  BY OthersHold DEF PipelineInv, KeysHeld, OnlyOwn
<1>5. SettledHolds'
  BY SettledStep DEF PipelineInv, OnlyOwn, Framed, SettledHolds, idemVars
<1>6. TombstoneOnlyAfterLog'
  <2> SUFFICES ASSUME NEW k \in Keys, store'[k] # NoRecord, store'[k].status = "COMPLETED"
               PROVE  logs'[store'[k].req] # "NONE"
    BY DEF TombstoneOnlyAfterLog
  <2>1. CASE store'[k] # store[k]
    BY <2>1 DEF TombstoneHasRow, RowOnce
  <2>2. CASE store'[k] = store[k]
    <3>1. logs[store[k].req] # "NONE" /\ store[k].req \in Requests
      BY <2>2 DEF PipelineInv, TombstoneOnlyAfterLog, IInv, IdemTypeOK, Record
    <3> QED
      BY <2>2, <3>1 DEF RowOnce, OnlyOwn, Framed
  <2> QED
    BY <2>1, <2>2
<1>7. NoJobBeforeLog'
  <2> SUFFICES ASSUME NEW o \in Requests, NEW q \in Queues, <<o, q>> \in jobs'
               PROVE  logs'[o] # "NONE" /\ (q = "billing" => logs'[o] # "BLOCKED")
    BY DEF NoJobBeforeLog
  <2>1. CASE o = r
    BY <2>1 DEF RowOnce, JobHasRow, PipelineInv, NoJobBeforeLog
  <2>2. CASE o # r
    BY <2>2 DEF OnlyOwn, Framed, JobsOfOthersKept, PipelineInv, NoJobBeforeLog
  <2> QED
    BY <2>1, <2>2
<1> QED
  BY <1>1, <1>2, <1>3, <1>4, <1>5, <1>6, <1>7, <1>8 DEF PipelineInv

-----------------------------------------------------------------------------
(***************************************************************************)
(* The actions have that shape                                             *)
(***************************************************************************)
\* What the step writes to the databases and the history is about r.
OwnWrites(r) ==
    /\ \A o \in Requests \ {r} : logs'[o] = logs[o]
    /\ messages' \in {messages, messages \cup {r}}
    /\ \A o \in Requests \ {r}, q \in Queues : <<o, q>> \in jobs' => <<o, q>> \in jobs
    /\ \A o \in Requests \ {r}, call \in Calls :
           <<o, call>> \in lost' <=> <<o, call>> \in lost

\* With a move of its handler and a call on its reservation, that is all.
LEMMA OwnStep ==
    ASSUME PipelineInv, NEW r \in Requests, NEW s, Moved(r, s), OwnWrites(r),
           UNCHANGED idemVars \/ IdemCall(r)
    PROVE  OnlyOwn(r) /\ JobsOfOthersKept(r)
<1>1. \A o \in Requests \ {r} : handle'[o] = handle[o] /\ resEra'[o] = resEra[o]
  BY CallShape DEF PipelineInv, CallEffect, idemVars
<1> QED
  BY <1>1 DEF OnlyOwn, Framed, Moved, OwnWrites, JobsOfOthersKept

\* A step that moves the handler of r and at most reads: the request's row,
\* jobs and reservation are as before.
LEMMA ControlStep ==
    ASSUME PipelineInv, NEW r \in Requests, NEW s, Moved(r, s),
           UNCHANGED <<idemVars, dbVars, lost>>,
           RestTypeOK', HandlerOK(r)'
    PROVE  StepShape(r)
<1>1. OwnWrites(r)
  BY DEF OwnWrites, dbVars
<1>2. OnlyOwn(r) /\ JobsOfOthersKept(r)
  BY <1>1, OwnStep
<1>3. RowOnce(r) /\ JobHasRow(r) /\ TombstoneHasRow(r)
  <2>1. logs' = logs /\ jobs' = jobs /\ store' = store
    BY DEF dbVars, idemVars
  <2> QED
    BY <2>1 DEF RowOnce, JobHasRow, TombstoneHasRow
<1>4. RowKept(r)'
  BY DEF PipelineInv, LogKept, RowKept, Admitted, BlockedLost, dbVars, idemVars
<1>5. RecordHeld(r)'
  BY DEF PipelineInv, KeysHeld, RecordHeld, OwnsProcessing, idemVars
<1> QED
  BY <1>2, <1>3, <1>4, <1>5 DEF StepShape, Moved

\* Nothing but the handler's record and perhaps the fault counters changes.
LEMMA QuietType ==
    ASSUME RestTypeOK, UNCHANGED dbVars, UNCHANGED abortVars, NoFault \/ Fault
    PROVE  RestTypeOK' /\ lost' = lost
BY FaultAssumption DEF RestTypeOK, dbVars, abortVars, NoFault, Fault, faultVars

\* The invariant, in the pieces the steps use.
LEMMA InvParts ==
    ASSUME PipelineInv, NEW r \in Requests
    PROVE  /\ RestTypeOK /\ IInv /\ IdemTypeOK
           /\ req \in [Requests -> Handler] /\ req[r] \in Handler
           /\ HandlerOK(r) /\ RowKept(r) /\ RecordHeld(r)
BY DEF PipelineInv, TypeOK, RestTypeOK, IInv, HandlersOK, LogKept, KeysHeld

\* Requests that only move, before and during the stream.
LEMMA PrepareShape ==
    ASSUME PipelineInv, NEW r \in Requests, Arrive(r) \/ ControlsAndPolicy(r)
    PROVE  StepShape(r)
<1> USE InvParts
<1>1. RestTypeOK' /\ UNCHANGED <<idemVars, dbVars, lost>>
  BY QuietType DEF Arrive, ControlsAndPolicy, NoFault, faultVars
<1>2. CASE Arrive(r)
  <2>1. CASE Goto(r, "reserve")
    <3>1. Moved(r, "reserve") /\ SameAccount(r) /\ req'[r].reply = req[r].reply
      BY <2>1, GotoMoves DEF Stages
    <3>2. HandlerOK(r)'
      BY <1>1, <1>2, <3>1 DEF Arrive, At, HandlerOK, Moved, SameAccount, Unaccounted,
                             idemVars, dbVars
    <3> QED
      BY <1>1, <3>1, <3>2, ControlStep
  <2>2. CASE Finish(r, "REJECTED")
    <3>1. Moved(r, "end") /\ SameAccount(r) /\ req'[r].reply = "REJECTED"
      BY <2>2, FinishMoves DEF Replies
    <3>2. HandlerOK(r)'
      BY <1>1, <1>2, <3>1 DEF Arrive, At, HandlerOK, Moved, SameAccount, Unaccounted,
                             idemVars, dbVars
    <3> QED
      BY <1>1, <3>1, <3>2, ControlStep
  <2> QED
    BY <1>2, <2>1, <2>2 DEF Arrive
<1>3. CASE ControlsAndPolicy(r)
  <2> PICK next \in {"select", "blockLog", "release"} : Goto(r, next)
    BY <1>3 DEF ControlsAndPolicy
  <2>1. Moved(r, next) /\ SameAccount(r) /\ req'[r].reply = req[r].reply
    BY GotoMoves DEF Stages
  <2>2. HandlerOK(r)'
    BY <1>1, <1>3, <2>1 DEF ControlsAndPolicy, At, HandlerOK, Moved, SameAccount,
                           Unaccounted, idemVars, dbVars
  <2> QED
    BY <1>1, <2>1, <2>2, ControlStep
<1> QED
  BY <1>2, <1>3

\* A call may make a tombstone only when the row is there.
LEMMA TombstoneStep ==
    ASSUME IInv, NEW r \in Requests, IdemCall(r),
           \/ logs[r] # "NONE" \/ store' = store
           \/ store'[KeyOf[r]] # [status |-> "COMPLETED", req |-> r]
    PROVE  TombstoneHasRow(r)
<1>1. CallEffect(r) /\ KeyOf[r] \in Keys
  BY CallShape, KeyAssumption
<1>2. SUFFICES ASSUME NEW k \in Keys, store'[k] # store[k], store'[k] # NoRecord,
                      store'[k].status = "COMPLETED"
               PROVE  store'[k].req = r /\ logs[r] # "NONE"
  BY DEF TombstoneHasRow
<1>3. k = KeyOf[r]
  BY <1>1, <1>2 DEF CallEffect
<1>4. store'[k] = [status |-> "COMPLETED", req |-> r]
  <2>1. store'[k] # [status |-> "PROCESSING", req |-> r]
    <3> SUFFICES ASSUME store'[k] = [status |-> "PROCESSING", req |-> r] PROVE FALSE
      OBVIOUS
    <3>1. store'[k].status = "PROCESSING"
      OBVIOUS
    <3> QED
      BY <1>2, <3>1
  <2> QED
    BY <1>1, <1>2, <1>3, <2>1 DEF CallEffect
<1>5. store'[k].req = r
  BY <1>4
<1> QED
  BY <1>2, <1>3, <1>4, <1>5

LostOwn(r) ==
    \A o \in Requests \ {r}, call \in Calls :
        <<o, call>> \in lost' <=> <<o, call>> \in lost

\* A step that calls the reservation and leaves the databases alone.
LEMMA CallingStep ==
    ASSUME PipelineInv, NEW r \in Requests, NEW s, Moved(r, s),
           UNCHANGED idemVars \/ IdemCall(r), UNCHANGED dbVars, LostOwn(r),
           RestTypeOK', HandlerOK(r)', RowKept(r)', TombstoneHasRow(r), lost \subseteq lost',
           ReserveUnanswered(r) => <<r, "reserve">> \in lost',
           ReleaseFails(r) => ~OwnsProcessing(r) \/ <<r, "release">> \in lost'
    PROVE  StepShape(r)
<1>0. RecordHeld(r)'
  BY OwnHold, InvParts
<1>1. OwnWrites(r)
  BY DEF OwnWrites, LostOwn, dbVars
<1>2. OnlyOwn(r) /\ JobsOfOthersKept(r)
  BY <1>1, OwnStep
<1>3. RowOnce(r) /\ JobHasRow(r)
  BY DEF RowOnce, JobHasRow, dbVars
<1> QED
  BY <1>0, <1>2, <1>3 DEF StepShape, Moved

\* Failing calls are charged to the handler that made them.
LEMMA FaultOwn ==
    ASSUME RestTypeOK, NEW r \in Requests, UNCHANGED dbVars, UNCHANGED abortVars,
           \/ NoFault \/ Fault
           \/ \E call \in Calls : FaultLoses(r, call)
    PROVE  RestTypeOK' /\ LostOwn(r)
<1>1. LostOwn(r)
  BY DEF LostOwn, NoFault, Fault, FaultLoses, faultVars
<1> QED
  BY <1>1, FaultType DEF RestTypeOK, dbVars, abortVars

\* reserve: granted, refused, failed, or granted with its answer lost.
LEMMA ReserveShape ==
    ASSUME PipelineInv, NEW r \in Requests, ReserveKey(r)
    PROVE  StepShape(r)
<1> USE InvParts
<1>1. /\ RestTypeOK' /\ LostOwn(r) /\ lost \subseteq lost' /\ UNCHANGED dbVars
      /\ ReserveUnanswered(r) => <<r, "reserve">> \in lost'
      /\ ~ReleaseFails(r)
  <2>1. UNCHANGED dbVars /\ UNCHANGED abortVars /\ "reserve" \in Calls
    BY DEF ReserveKey, Calls
  <2>2. NoFault \/ Fault \/ FaultLoses(r, "reserve")
    BY DEF ReserveKey
  <2>3. RestTypeOK' /\ LostOwn(r)
    BY <2>1, <2>2, FaultOwn
  <2>4. lost \subseteq lost' /\ ~ReleaseFails(r)
    BY <2>2 DEF ReserveKey, NoFault, Fault, FaultLoses, faultVars, At, HandlerOK, ReleaseFails
  <2>5. ASSUME ReserveUnanswered(r) PROVE <<r, "reserve">> \in lost'
    <3>1. store[KeyOf[r]] = NoRecord /\ store'[KeyOf[r]] # NoRecord /\ handle'[r] = "closed"
      BY <2>5, KeyAssumption, RecordShape DEF ReserveUnanswered, WriteProcessing, IdemTypeOK
    <3>2. ~Reserve(r) /\ ~ReserveConflict(r) /\ ~ReserveUnavailable(r)
      BY <3>1 DEF Reserve, ReserveConflict, ReserveUnavailable, IdemTypeOK
    <3> QED
      BY <3>2 DEF ReserveKey, FaultLoses
  <2> QED
    BY <2>1, <2>3, <2>4, <2>5
<1>2. IdemCall(r)
  BY DEF ReserveKey, IdemCall
<1>3. TombstoneHasRow(r)
  <2>1. CASE store' = store
    BY <1>2, <2>1, TombstoneStep
  <2>2. CASE WriteProcessing(r)
    <3>1. store'[KeyOf[r]].status = "PROCESSING"
      BY <2>2, KeyAssumption DEF WriteProcessing, IdemTypeOK
    <3>2. store'[KeyOf[r]] # [status |-> "COMPLETED", req |-> r]
      BY <3>1
    <3> QED
      BY <1>2, <3>2, TombstoneStep
  <2> QED
    BY <2>1, <2>2 DEF ReserveKey, Reserve, ReserveConflict, ReserveUnavailable,
                      ReserveUnanswered
<1>4. handle[r] = "none" /\ Unaccounted(r) /\ logs[r] = "NONE" /\ logs' = logs
  BY <1>1 DEF ReserveKey, At, HandlerOK, Unaccounted, dbVars
<1>5. CASE Reserve(r) /\ Goto(r, "controls")
  <2>1. Moved(r, "controls") /\ SameAccount(r) /\ req'[r].reply = req[r].reply
    BY <1>5, GotoMoves DEF Stages
  <2>2. HandlerOK(r)' /\ RowKept(r)'
    BY <1>4, <1>5, <2>1 DEF Reserve, ReserveKey, At, HandlerOK, RowKept, Moved, SameAccount,
                            Unaccounted, IdemTypeOK
  <2> QED
    BY <1>1, <1>2, <1>3, <2>1, <2>2, CallingStep
<1>6. CASE /\ ReserveConflict(r) \/ ReserveUnavailable(r) \/ ReserveUnanswered(r)
           /\ \E code \in Replies \ {"done"} : Finish(r, code)
  <2> PICK code \in Replies \ {"done"} : Finish(r, code)
    BY <1>6
  <2>1. Moved(r, "end") /\ SameAccount(r) /\ req'[r].reply = code
    BY FinishMoves
  <2>2. HandlerOK(r)' /\ RowKept(r)'
    BY <1>4, <1>6, <2>1 DEF ReserveConflict, ReserveUnavailable, ReserveUnanswered, HandlerOK,
                            RowKept, Moved, SameAccount, Unaccounted, IdemTypeOK
  <2> QED
    BY <1>1, <1>2, <1>3, <2>1, <2>2, CallingStep
<1> QED
  BY <1>5, <1>6 DEF ReserveKey, ConflictCode, Replies

\* appendUsage and the analytics job of a blocked request.
LEMMA BlockShape ==
    ASSUME PipelineInv, NEW r \in Requests, BlockLog(r) \/ BlockJobs(r)
    PROVE  StepShape(r)
<1> USE InvParts
<1>1. CASE BlockLog(r)
  <2>1. PICK s \in {"blockJobs", "release"} : Goto(r, s)
    BY <1>1 DEF BlockLog
  <2>2. Moved(r, s) /\ SameAccount(r) /\ req'[r].reply = req[r].reply
    BY <2>1, GotoMoves DEF Stages
  <2>3. RestTypeOK'
    BY <1>1, FaultType DEF BlockLog, RestTypeOK, Outcomes, Calls, abortVars
  <2>4. OwnWrites(r)
    BY <1>1 DEF BlockLog, OwnWrites, FaultLoses, NoFault, faultVars, RestTypeOK
  <2>5. handle[r] = "held" /\ Unaccounted(r) /\ UNCHANGED idemVars /\ jobs' = jobs
    BY <1>1 DEF BlockLog, At, HandlerOK
  <2>6. HandlerOK(r)'
    <3>1. CASE logs' = [logs EXCEPT ![r] = "BLOCKED"] /\ Goto(r, "blockJobs")
      <4>1. Moved(r, "blockJobs") /\ SameAccount(r) /\ req'[r].reply = req[r].reply
        BY <3>1, GotoMoves DEF Stages
      <4> QED
        BY <1>1, <2>5, <3>1, <4>1 DEF BlockLog, At, HandlerOK, Moved, SameAccount,
           Unaccounted, idemVars, RestTypeOK
    <3>2. CASE /\ logs' \in {logs, [logs EXCEPT ![r] = "BLOCKED"]}
               /\ Goto(r, "release") /\ FaultLoses(r, "usage")
      <4>1. Moved(r, "release") /\ SameAccount(r) /\ req'[r].reply = req[r].reply
        BY <3>2, GotoMoves DEF Stages
      <4>2. logs'[r] = "NONE" \/ BlockedLost(r)'
        BY <2>5, <3>2 DEF Unaccounted, BlockedLost, FaultLoses, RestTypeOK
      <4> QED
        BY <1>1, <2>5, <4>1, <4>2 DEF BlockLog, At, HandlerOK, Moved, SameAccount,
           Unaccounted, idemVars
    <3> QED
      BY <1>1, <3>1, <3>2 DEF BlockLog
  <2>7. RowKept(r)'
    BY <2>5 DEF RowKept, Admitted, idemVars
  <2>8. RowOnce(r) /\ JobHasRow(r) /\ TombstoneHasRow(r)
    BY <2>5 DEF Unaccounted, RowOnce, JobHasRow, TombstoneHasRow, idemVars
  <2>9. RecordHeld(r)'
    BY <2>5 DEF RecordHeld, OwnsProcessing, idemVars
  <2> QED
    BY <2>2, <2>3, <2>4, <2>5, <2>6, <2>7, <2>8, <2>9, OwnStep DEF StepShape, Moved
<1>2. CASE BlockJobs(r)
  <2>2. Moved(r, "blockComplete") /\ SameAccount(r) /\ req'[r].reply = req[r].reply
    BY <1>2, GotoMoves DEF BlockJobs, Stages
  <2>3. RestTypeOK'
    BY <1>2, FaultType DEF BlockJobs, Enqueue, RestTypeOK, Queues, abortVars
  <2>4. OwnWrites(r)
    BY <1>2 DEF BlockJobs, Enqueue, OwnWrites, Fault, NoFault, faultVars
  <2>5. /\ handle[r] = "held" /\ req[r].attempts = 0 /\ logs[r] = "BLOCKED"
        /\ UNCHANGED <<idemVars, logs>>
    BY <1>2 DEF BlockJobs, At, HandlerOK
  <2>6. HandlerOK(r)' /\ RowKept(r)'
    BY <2>2, <2>5, <1>2 DEF BlockJobs, At, HandlerOK, Moved, SameAccount, RowKept, Admitted, idemVars
  <2>7. RowOnce(r) /\ TombstoneHasRow(r)
    BY <2>5 DEF RowOnce, TombstoneHasRow, idemVars
  <2>8. JobHasRow(r)
    BY <1>2, <2>5 DEF BlockJobs, Enqueue, JobHasRow
  <2>9. RecordHeld(r)'
    BY <2>5 DEF RecordHeld, OwnsProcessing, idemVars
  <2> QED
    BY <2>2, <2>3, <2>4, <2>5, <2>6, <2>7, <2>8, <2>9, OwnStep DEF StepShape, Moved
<1> QED
  BY <1>1, <1>2

\* markCompleted on one's own record, with or without its answer.
LEMMA CompletesOrThrows ==
    ASSUME PipelineInv, NEW r \in Requests, logs[r] # "NONE",
           MarkCompleted(r) \/ CompletionThrows(r)
    PROVE  (UNCHANGED idemVars \/ IdemCall(r)) /\ TombstoneHasRow(r)
<1>1. UNCHANGED idemVars \/ IdemCall(r)
  BY DEF CompletionThrows, IdemCall
<1>2. CASE IdemCall(r)
  BY <1>1, <1>2, InvParts, TombstoneStep
<1>3. CASE UNCHANGED idemVars
  BY <1>3 DEF TombstoneHasRow, idemVars
<1> QED
  BY <1>1, <1>2, <1>3

\* It is no other call.
LEMMA CompletingOnly ==
    ASSUME NEW r \in Requests, IdemTypeOK, handle[r] \in {"held", "started"},
           (MarkCompleted(r) /\ NoFault) \/ CompletionThrows(r)
    PROVE  lost \subseteq lost' /\ ~ReserveUnanswered(r) /\ ~ReleaseFails(r)
<1>1. handle'[r] # "closed"
  BY DEF MarkCompleted, CompletionThrows, MarkCompletedFails, MarkCompletedUnanswered,
         IdemTypeOK, idemVars
<1>2. handle[r] \in HandleStates /\ ~ReserveUnanswered(r) /\ ~ReleaseFails(r)
  BY <1>1 DEF ReserveUnanswered, ReleaseFails, IdemTypeOK
<1> QED
  BY <1>2 DEF CompletionThrows, FaultLoses, NoFault, faultVars

\* markCompleted of a blocked request.
LEMMA BlockCompleteShape ==
    ASSUME PipelineInv, NEW r \in Requests, BlockComplete(r)
    PROVE  StepShape(r)
<1> USE InvParts
<1>1. /\ handle[r] = "held" /\ req[r].attempts = 0 /\ logs[r] = "BLOCKED"
      /\ UNCHANGED dbVars /\ logs' = logs /\ UNCHANGED abortVars
  BY DEF BlockComplete, At, HandlerOK, dbVars
<1>2. RestTypeOK' /\ LostOwn(r)
  <2>1. CASE NoFault \/ \E call \in Calls : FaultLoses(r, call)
    BY <1>1, <2>1, FaultOwn
  <2>2. CASE lost' = lost \cup {<<r, "completion">>} /\ UNCHANGED faults
    <3>1. LostOwn(r)
      BY <2>2 DEF LostOwn
    <3> QED
      BY <1>1, <2>2, <3>1 DEF RestTypeOK, dbVars, abortVars, Calls
  <2> QED
    BY <2>1, <2>2 DEF BlockComplete, CompletionThrows, Calls
<1>3. (UNCHANGED idemVars \/ IdemCall(r)) /\ TombstoneHasRow(r)
  BY <1>1, CompletesOrThrows DEF BlockComplete
<1>6. lost \subseteq lost' /\ ~ReserveUnanswered(r) /\ ~ReleaseFails(r)
  BY <1>1, CompletingOnly DEF BlockComplete
<1>4. CASE MarkCompleted(r) /\ Finish(r, "POLICY_BLOCKED") /\ NoFault
  <2>1. Moved(r, "end") /\ SameAccount(r) /\ req'[r].reply = "POLICY_BLOCKED"
    BY <1>4, FinishMoves DEF Replies
  <2>2. handle'[r] = "settled"
    BY <1>4 DEF MarkCompleted, IdemTypeOK
  <2>3. HandlerOK(r)' /\ RowKept(r)'
    BY <1>1, <2>1, <2>2 DEF HandlerOK, RowKept, Admitted, Moved, SameAccount
  <2> QED
    BY <1>1, <1>2, <1>3, <1>6, <2>1, <2>3, CallingStep
<1>5. CASE CompletionThrows(r) /\ Goto(r, "release")
  <2>1. Moved(r, "release") /\ SameAccount(r) /\ req'[r].reply = req[r].reply
    BY <1>5, GotoMoves DEF Stages
  <2>2. handle'[r] = "held" /\ <<r, "completion">> \in lost'
    BY <1>1, <1>5 DEF CompletionThrows, MarkCompletedFails, MarkCompletedUnanswered,
                      FaultLoses, idemVars
  <2>3. BlockedLost(r)'
    BY <1>1, <2>2 DEF BlockedLost
  <2>4. HandlerOK(r)' /\ RowKept(r)'
    BY <1>1, <2>1, <2>2, <2>3 DEF BlockComplete, At, HandlerOK, RowKept, Moved, SameAccount
  <2> QED
    BY <1>1, <1>2, <1>3, <1>6, <2>1, <2>4, CallingStep
<1> QED
  BY <1>4, <1>5 DEF BlockComplete

\* releaseBeforeExecution: only a request that never started is released.
LEMMA ReleaseShape ==
    ASSUME PipelineInv, NEW r \in Requests, ReleaseKey(r)
    PROVE  StepShape(r)
<1> USE InvParts
<1>1. /\ handle[r] = "held" /\ req[r].attempts = 0 /\ (logs[r] = "NONE" \/ BlockedLost(r))
      /\ UNCHANGED dbVars /\ logs' = logs /\ UNCHANGED abortVars
  BY DEF ReleaseKey, At, HandlerOK, dbVars
<1>2. RestTypeOK' /\ LostOwn(r) /\ lost \subseteq lost'
  <2>1. NoFault \/ FaultLoses(r, "release")
    BY DEF ReleaseKey
  <2>2. "release" \in Calls
    BY DEF Calls
  <2> QED
    BY <1>1, <2>1, <2>2, FaultOwn DEF NoFault, FaultLoses, faultVars
<1>9. ~ReserveUnanswered(r) /\ (ReleaseFails(r) => ~OwnsProcessing(r) \/ <<r, "release">> \in lost')
  <2>1. ~ReserveUnanswered(r)
    BY <1>1 DEF ReserveUnanswered
  <2>2. ASSUME ReleaseFails(r), OwnsProcessing(r) PROVE <<r, "release">> \in lost'
    <3>1. ~Release(r)
      BY <2>2, KeyAssumption, RecordShape
         DEF Release, ReleaseFails, DeleteRecord, OwnsProcessing, IdemTypeOK
    <3> QED
      BY <2>2, <3>1 DEF ReleaseKey, FaultLoses
  <2> QED
    BY <2>1, <2>2
<1>3. Release(r) \/ ReleaseFails(r)
  BY DEF ReleaseKey
<1>4. IdemCall(r) /\ handle'[r] = "closed"
  BY <1>3 DEF IdemCall, Release, ReleaseFails, IdemTypeOK
<1>5. TombstoneHasRow(r)
  <2>1. CASE store' = store
    BY <1>4, <2>1, TombstoneStep
  <2>2. CASE DeleteRecord(r)
    <3>1. store'[KeyOf[r]] = NoRecord
      BY <2>2, KeyAssumption DEF DeleteRecord, IdemTypeOK
    <3>2. store'[KeyOf[r]] # [status |-> "COMPLETED", req |-> r]
      BY <3>1, RecordShape
    <3> QED
      BY <1>4, <3>2, TombstoneStep
  <2> QED
    BY <1>3, <2>1, <2>2 DEF Release, ReleaseFails
<1>6. PICK code \in {"REJECTED", "IDEMPOTENCY_UNAVAILABLE"} : Finish(r, code)
  BY DEF ReleaseKey
<1>7. Moved(r, "end") /\ SameAccount(r) /\ req'[r].reply = code
  BY <1>6, FinishMoves DEF Replies
<1>8. HandlerOK(r)' /\ RowKept(r)'
  BY <1>1, <1>2, <1>4, <1>7 DEF HandlerOK, RowKept, BlockedLost, Moved, SameAccount
<1> QED
  BY <1>1, <1>2, <1>4, <1>5, <1>7, <1>8, <1>9, CallingStep

\* The provider is started once the reservation is marked.
LEMMA StartShape ==
    ASSUME PipelineInv, NEW r \in Requests, SelectAndStart(r)
    PROVE  StepShape(r)
<1> USE InvParts
<1>1. /\ handle[r] = "held" /\ Unaccounted(r)
      /\ UNCHANGED <<dbVars, abortVars, faultVars>> /\ logs' = logs /\ lost' = lost
  BY DEF SelectAndStart, At, HandlerOK, dbVars, faultVars
<1>2. RestTypeOK' /\ LostOwn(r)
  BY <1>1, FaultOwn DEF NoFault
<1>3. CASE MarkStarted(r) /\ Goto(r, "firstChunk")
  <2>1. Moved(r, "firstChunk") /\ SameAccount(r) /\ req'[r].reply = req[r].reply
    BY <1>3, GotoMoves DEF Stages
  <2>2. handle'[r] = "started" /\ IdemCall(r) /\ store' = store
    BY <1>3 DEF MarkStarted, IdemCall, IdemTypeOK
  <2>3. HandlerOK(r)' /\ RowKept(r)'
    BY <1>1, <2>1, <2>2 DEF SelectAndStart, At, HandlerOK, RowKept, Unaccounted, Moved,
                            SameAccount
  <2>4. lost \subseteq lost' /\ ~ReserveUnanswered(r) /\ ~ReleaseFails(r)
    BY <1>1, <2>2 DEF ReserveUnanswered, ReleaseFails, IdemTypeOK
  <2> QED
    BY <1>1, <1>2, <2>1, <2>2, <2>3, <2>4, TombstoneStep, CallingStep
<1>4. CASE Goto(r, "release") /\ UNCHANGED idemVars
  <2>1. Moved(r, "release") /\ SameAccount(r) /\ req'[r].reply = req[r].reply
    BY <1>4, GotoMoves DEF Stages
  <2>2. HandlerOK(r)'
    BY <1>1, <1>4, <2>1 DEF SelectAndStart, At, HandlerOK, Unaccounted, Moved, SameAccount,
                            idemVars
  <2> QED
    BY <1>1, <1>2, <1>4, <2>1, <2>2, ControlStep
<1> QED
  BY <1>3, <1>4 DEF SelectAndStart

\* A started request enters accounting, for the first time.
LEMMA BeginStep ==
    ASSUME PipelineInv, NEW r \in Requests,
           req[r].stage \in {"firstChunk", "stream", "token"},
           NEW outcome \in {"FAILED", "INTERRUPTED", "COMPLETED"}, NEW site \in CallSites \ {"none"},
           site = "done" => outcome = "COMPLETED",
           BeginAccounting(r, outcome, site),
           UNCHANGED <<idemVars, dbVars, lost>>, RestTypeOK'
    PROVE  StepShape(r)
<1> USE InvParts
<1>1. handle[r] = "started" /\ Unaccounted(r) /\ req[r].reply = "NONE"
  BY DEF HandlerOK
<1>2. /\ Moved(r, "usage")
      /\ req'[r].attempts = 1 /\ req'[r].outcome = outcome /\ req'[r].site = site
      /\ req'[r].reply = "NONE"
  BY <1>1, AccountingMoves DEF Unaccounted, Outcomes
<1>3. HandlerOK(r)'
  BY <1>1, <1>2 DEF HandlerOK, Moved, Unaccounted, Accounting, idemVars, dbVars
<1> QED
  BY <1>2, <1>3, ControlStep

\* The first result, and the loop of the controller with its writes.
LEMMA StreamShape ==
    ASSUME PipelineInv, NEW r \in Requests,
           \/ FirstChunk(r) \/ StreamDone(r) \/ StreamWriteFails(r)
           \/ StreamEnds(r) \/ StreamThrows(r) \/ TokenStalls(r)
           \/ (ClientReads(r) \/ WriteCloses(r)) /\ ~At(r, "lastEvent")
    PROVE  StepShape(r)
<1> USE InvParts
<1>1. /\ req[r].stage \in {"firstChunk", "opening", "stream", "token"}
      /\ UNCHANGED <<idemVars, dbVars, lost>>
  BY DEF FirstChunk, StreamDone, StreamWriteFails, StreamEnds, StreamThrows, TokenStalls,
         ClientReads, WriteCloses, At, Fault, NoFault, faultVars
<1>2. RestTypeOK'
  BY <1>1, QuietType, FaultAssumption
     DEF FirstChunk, StreamDone, StreamWriteFails, StreamEnds, StreamThrows, TokenStalls,
         ClientReads, WriteCloses, RestTypeOK, Fault, NoFault, faultVars, abortVars, dbVars
<1>3. ASSUME NEW s \in {"opening", "stream", "token"}, Goto(r, s) PROVE StepShape(r)
  <2>1. Moved(r, s) /\ SameAccount(r) /\ req'[r].reply = req[r].reply
    BY <1>3, GotoMoves DEF Stages
  <2>2. handle[r] = "started" /\ Unaccounted(r) /\ req[r].reply = "NONE"
    BY <1>1 DEF HandlerOK
  <2>3. HandlerOK(r)'
    BY <1>1, <2>1, <2>2 DEF HandlerOK, Unaccounted, Moved, SameAccount, idemVars, dbVars
  <2> QED
    BY <1>1, <1>2, <2>1, <2>3, ControlStep
<1>4. ASSUME NEW outcome \in {"FAILED", "INTERRUPTED", "COMPLETED"},
             NEW site \in CallSites \ {"none"}, site = "done" => outcome = "COMPLETED",
             BeginAccounting(r, outcome, site), req[r].stage # "opening"
      PROVE  StepShape(r)
  BY <1>1, <1>2, <1>4, BeginStep
<1>5. req[r].attempts = 0
  BY <1>1 DEF HandlerOK, Unaccounted
<1>6. CASE FirstChunk(r) \/ StreamDone(r) \/ StreamWriteFails(r) \/ StreamEnds(r) \/ StreamThrows(r)
  BY <1>3, <1>4, <1>5, <1>6
     DEF FirstChunk, StreamDone, StreamWriteFails, StreamEnds, StreamThrows, HandleStreamError,
         CallSites, At
<1>7. CASE TokenStalls(r) \/ ((ClientReads(r) \/ WriteCloses(r)) /\ ~At(r, "lastEvent"))
  BY <1>3, <1>4, <1>7 DEF TokenStalls, ClientReads, WriteCloses, CallSites, At
<1> QED
  BY <1>6, <1>7

\* The client reads the last event, or goes.
LEMMA LastEventShape ==
    ASSUME PipelineInv, NEW r \in Requests, ClientReads(r) \/ WriteCloses(r), At(r, "lastEvent")
    PROVE  StepShape(r)
<1> USE InvParts
<1>1. Goto(r, "end") /\ UNCHANGED <<idemVars, abortVars, dbVars, faultVars>>
  BY DEF ClientReads, WriteCloses, At
<1>2. RestTypeOK' /\ lost' = lost
  BY <1>1, QuietType DEF NoFault
<1>3. Moved(r, "end") /\ SameAccount(r) /\ req'[r].reply = req[r].reply
  BY <1>1, GotoMoves DEF Stages
<1>4. HandlerOK(r)'
  BY <1>1, <1>2, <1>3 DEF At, HandlerOK, Accounting, Accounted, Moved, SameAccount, idemVars, dbVars
<1> QED
  BY <1>1, <1>2, <1>3, <1>4, ControlStep

\* appendUsage: the row is free, so it is written now or the error is known.
LEMMA AppendShape ==
    ASSUME PipelineInv, NEW r \in Requests, AppendUsage(r)
    PROVE  StepShape(r)
<1> USE InvParts
<1> DEFINE row == [logs EXCEPT ![r] = req[r].outcome]
<1>1. handle[r] = "started" /\ logs[r] = "NONE" /\ Accounting(r) /\ req[r].reply = "NONE"
  BY DEF AppendUsage, At, HandlerOK
<1>2. UNCHANGED <<idemVars, messages, jobs, recovery>> /\ logs' \in {logs, row}
  BY DEF AppendUsage
<1>3. RestTypeOK'
  <2>1. logs' \in [Requests -> Outcomes]
    BY <1>2 DEF RestTypeOK, Handler
  <2> QED
    BY <2>1, FaultType DEF AppendUsage, RestTypeOK, abortVars, Calls
<1>4. OwnWrites(r)
  BY <1>2 DEF AppendUsage, OwnWrites, FaultLoses, NoFault, faultVars, RestTypeOK
<1>5. RowKept(r)' /\ RecordHeld(r)' /\ RowOnce(r) /\ JobHasRow(r) /\ TombstoneHasRow(r)
  BY <1>1, <1>2 DEF RecordHeld, OwnsProcessing, RowKept, Admitted, RowOnce, JobHasRow, TombstoneHasRow, idemVars
<1>6. CASE logs' = row /\ \E s \in {"messages", "billing"} :
                              /\ Goto(r, s)
                              /\ s = "billing" => req[r].outcome # "COMPLETED"
  <2> PICK s \in {"messages", "billing"} :
               Goto(r, s) /\ (s = "billing" => req[r].outcome # "COMPLETED")
    BY <1>6
  <2>1. Moved(r, s) /\ SameAccount(r) /\ req'[r].reply = req[r].reply
    BY GotoMoves DEF Stages
  <2>2. logs'[r] = req[r].outcome
    BY <1>6 DEF RestTypeOK
  <2>3. HandlerOK(r)'
    BY <1>1, <1>2, <2>1, <2>2 DEF HandlerOK, Accounting, Stored, Moved, SameAccount, idemVars
  <2> QED
    BY <1>2, <1>3, <1>4, <1>5, <2>1, <2>3, OwnStep DEF StepShape, Moved
<1>7. CASE FailAccounting(r) /\ FaultLoses(r, "usage")
  <2>1. Moved(r, "respond") /\ SameAccount(r) /\ req'[r].error /\ req'[r].reply = req[r].reply
    BY <1>7, ErrorMoves DEF FailAccounting, Stages
  <2>2. HandlerOK(r)'
    BY <1>1, <1>7, <2>1 DEF HandlerOK, Accounting, Accounted, FaultLoses, Moved, SameAccount
  <2> QED
    BY <1>2, <1>3, <1>4, <1>5, <2>1, <2>2, OwnStep DEF StepShape, Moved
<1> QED
  BY <1>6, <1>7 DEF AppendUsage

\* Messages and jobs, of a request whose row is written.
LEMMA PublishShape ==
    ASSUME PipelineInv, NEW r \in Requests,
           PersistMessages(r) \/ EnqueueBilling(r) \/ EnqueueAnalytics(r)
    PROVE  StepShape(r)
<1> USE InvParts
<1>1. /\ handle[r] = "started" /\ logs[r] = req[r].outcome /\ Accounting(r)
      /\ req[r].reply = "NONE" /\ UNCHANGED <<idemVars, logs>>
      /\ ~At(r, "messages") => Stored(r)
  BY DEF PersistMessages, EnqueueBilling, EnqueueAnalytics, At, HandlerOK
<1>2. RestTypeOK'
  BY FaultType DEF PersistMessages, EnqueueBilling, EnqueueAnalytics, Enqueue, RestTypeOK,
                   Queues, abortVars
<1>3. OwnWrites(r) /\ RowKept(r)' /\ RecordHeld(r)' /\ RowOnce(r) /\ TombstoneHasRow(r) /\ lost' = lost
  BY <1>1 DEF PersistMessages, EnqueueBilling, EnqueueAnalytics, Enqueue, OwnWrites, NoFault,
              Fault, faultVars, RecordHeld, OwnsProcessing, RowKept, Admitted, RowOnce, TombstoneHasRow, idemVars
<1>4. JobHasRow(r)
  BY <1>1 DEF PersistMessages, EnqueueBilling, EnqueueAnalytics, Enqueue, JobHasRow, Accounting
<1>5. \E s \in {"billing", "analytics", "complete"} :
          /\ Moved(r, s) /\ SameAccount(r) /\ req'[r].reply = req[r].reply
          /\ Stored(r)'
  <2>1. CASE messages' = messages \cup {r} /\ Goto(r, "billing")
    BY <2>1, GotoMoves DEF Stages, Stored
  <2>2. CASE req' = [req EXCEPT ![r].stage = "billing", ![r].error = TRUE]
    BY <2>2, ErrorMoves DEF Stages, Stored
  <2>3. CASE EnqueueBilling(r) \/ EnqueueAnalytics(r)
    <3>1. \E s \in {"analytics", "complete"} : Goto(r, s)
      BY <2>3 DEF EnqueueBilling, EnqueueAnalytics
    <3>2. Stored(r) /\ messages' = messages
      BY <1>1, <2>3 DEF EnqueueBilling, EnqueueAnalytics, At
    <3> QED
      BY <3>1, <3>2, GotoMoves DEF Stages, Stored, SameAccount
  <2> QED
    BY <2>1, <2>2, <2>3 DEF PersistMessages
<1>6. HandlerOK(r)'
  BY <1>1, <1>5 DEF HandlerOK, Accounting, Moved, SameAccount, idemVars
<1> QED
  BY <1>1, <1>2, <1>3, <1>4, <1>5, <1>6, OwnStep DEF StepShape, Moved

\* markCompleted in the finally block.
LEMMA CompleteShape ==
    ASSUME PipelineInv, NEW r \in Requests, CompleteKey(r)
    PROVE  StepShape(r)
<1> USE InvParts
<1>1. /\ handle[r] = "started" /\ logs[r] = req[r].outcome /\ Accounting(r) /\ Stored(r)
      /\ req[r].reply = "NONE" /\ UNCHANGED dbVars /\ UNCHANGED abortVars
      /\ logs' = logs /\ messages' = messages /\ logs[r] # "NONE"
  BY DEF CompleteKey, At, HandlerOK, Accounting, dbVars
<1>2. RestTypeOK' /\ LostOwn(r)
  <2>1. CASE NoFault \/ \E call \in Calls : FaultLoses(r, call)
    BY <1>1, <2>1, FaultOwn
  <2>2. CASE lost' = lost \cup {<<r, "completion">>} /\ UNCHANGED faults
    <3>1. LostOwn(r)
      BY <2>2 DEF LostOwn
    <3> QED
      BY <1>1, <2>2, <3>1 DEF RestTypeOK, dbVars, abortVars, Calls
  <2> QED
    BY <2>1, <2>2 DEF CompleteKey, CompletionThrows, Calls
<1>3. (UNCHANGED idemVars \/ IdemCall(r)) /\ TombstoneHasRow(r)
  BY <1>1, CompletesOrThrows DEF CompleteKey
<1>6. lost \subseteq lost' /\ ~ReserveUnanswered(r) /\ ~ReleaseFails(r)
  BY <1>1, CompletingOnly DEF CompleteKey
<1>4. CASE MarkCompleted(r) /\ Goto(r, "respond")
  <2>1. /\ Moved(r, "respond") /\ SameAccount(r) /\ req'[r].reply = req[r].reply
        /\ req'[r].error = req[r].error
    BY <1>4, GotoMoves DEF Stages
  <2>2. handle'[r] = "settled"
    BY <1>4 DEF MarkCompleted, IdemTypeOK
  <2>3. HandlerOK(r)' /\ RowKept(r)'
    BY <1>1, <2>1, <2>2 DEF HandlerOK, RowKept, Admitted, Accounting, Accounted, Stored, Moved,
                            SameAccount
  <2> QED
    BY <1>1, <1>2, <1>3, <1>6, <2>1, <2>3, CallingStep
<1>5. CASE CompletionThrows(r) /\ FailAccounting(r)
  <2>1. /\ Moved(r, "respond") /\ SameAccount(r) /\ req'[r].reply = req[r].reply
        /\ req'[r].error
    BY <1>5, ErrorMoves DEF FailAccounting, Stages
  <2>2. handle'[r] = "started" /\ <<r, "completion">> \in lost'
    BY <1>1, <1>5 DEF CompletionThrows, MarkCompletedFails, MarkCompletedUnanswered,
                      FaultLoses, idemVars
  <2>3. HandlerOK(r)' /\ RowKept(r)'
    BY <1>1, <2>1, <2>2 DEF HandlerOK, RowKept, Admitted, Accounting, Accounted, Moved,
                            SameAccount
  <2> QED
    BY <1>1, <1>2, <1>3, <1>6, <2>1, <2>3, CallingStep
<1> QED
  BY <1>4, <1>5 DEF CompleteKey

\* Back at the call site: the error of an accounting is never accounted again.
LEMMA RespondShape ==
    ASSUME PipelineInv, NEW r \in Requests, Respond(r)
    PROVE  StepShape(r)
<1> USE InvParts
<1>1. /\ Accounting(r) /\ Accounted(r)
      /\ ~req[r].error => logs[r] = req[r].outcome /\ handle[r] = "settled" /\ Stored(r)
  BY DEF Respond, At, HandlerOK
<1>2. UNCHANGED <<idemVars, abortVars, dbVars, faultVars>>
  BY DEF Respond
<1>3. RestTypeOK' /\ lost' = lost
  BY <1>2, QuietType DEF NoFault
<1>4. \E code \in Replies :
          /\ LastEvent(r, code)
          /\ code = "done" => ~req[r].error /\ req[r].site = "done"
  <2>1. req[r].attempts # 0 /\ req[r].error \in BOOLEAN
    BY <1>1, HandlerFields DEF Accounting
  <2>2. CASE req[r].site = "prepare"
    BY <2>2 DEF Respond, Replies, LastEvent
  <2>3. CASE req[r].site = "early"
    BY <2>3 DEF Respond, Replies, LastEvent
  <2>4. CASE req[r].site = "catch"
    BY <2>4 DEF Respond, Replies, ErrorReply, LastEvent
  <2>5. CASE req[r].site \in {"done", "loop"} /\ req[r].error
    BY <2>1, <2>5 DEF Respond, Replies, HandleStreamError, ErrorReply
  <2>6. CASE req[r].site = "done" /\ ~req[r].error
    BY <2>1, <2>6 DEF Respond, Replies, LastEvent
  <2>7. CASE req[r].site = "loop" /\ ~req[r].error
    BY <2>1, <2>7 DEF Respond, Replies, LastEvent
  <2> QED
    BY <1>1, <2>1, <2>2, <2>3, <2>4, <2>5, <2>6, <2>7, HandlerFields DEF Accounting, CallSites
<1>5. PICK code \in Replies :
          LastEvent(r, code) /\ (code = "done" => ~req[r].error /\ req[r].site = "done")
  BY <1>4
<1>6. PICK s \in {"lastEvent", "end"} : Moved(r, s) /\ SameAccount(r) /\ req'[r].reply = code
  BY <1>5, LastEventMoves
<1>7. HandlerOK(r)'
  BY <1>1, <1>2, <1>3, <1>5, <1>6 DEF HandlerOK, Accounting, Accounted, Stored, Moved,
                                      SameAccount, idemVars, dbVars
<1> QED
  BY <1>2, <1>3, <1>6, <1>7, ControlStep

\* The environment: a client that goes, a shutdown, a crash.
LEMMA EnvironmentShape ==
    ASSUME PipelineInv, NEW r \in Requests, Disconnect(r) \/ ShutdownAbort(r) \/ Crash(r)
    PROVE  StepShape(r)
<1> USE InvParts
<1>1. UNCHANGED <<idemVars, dbVars, lost>> /\ Active(r)
  BY DEF Disconnect, ShutdownAbort, Crash, Fault, Active
<1>2. RestTypeOK'
  BY FaultAssumption DEF Disconnect, ShutdownAbort, Crash, Fault, RestTypeOK, dbVars, abortVars
<1>3. CASE Crash(r)
  <2>1. Moved(r, "crashed") /\ SameAccount(r) /\ req'[r].reply = req[r].reply
    BY <1>3, GotoMoves DEF Crash, Stages
  <2>2. HandlerOK(r)'
    <3>1. req'[r].stage = "crashed" /\ req'[r].reply = req[r].reply /\ req'[r].attempts = req[r].attempts
      BY <2>1 DEF Moved, SameAccount
    <3>2. req'[r].reply = "done" =>
              logs'[r] = "COMPLETED" /\ r \in messages' /\ handle'[r] = "settled"
      BY <1>1, <3>1 DEF HandlerOK, idemVars, dbVars
    <3> QED
      BY <3>1, <3>2 DEF HandlerOK
  <2> QED
    BY <1>1, <1>2, <2>1, <2>2, ControlStep
<1>4. CASE Disconnect(r) \/ ShutdownAbort(r)
  <2>1. Moved(r, req[r].stage) /\ req' = req
    BY <1>4 DEF Disconnect, ShutdownAbort, Moved
  <2>2. HandlerOK(r)'
    BY <1>1, <2>1 DEF HandlerOK, Unaccounted, Accounting, Accounted, BlockedLost, Stored,
                      idemVars, dbVars
  <2> QED
    BY <1>1, <1>2, <2>1, <2>2, ControlStep
<1> QED
  BY <1>3, <1>4

-----------------------------------------------------------------------------
(***************************************************************************)
(* The invariant is inductive                                              *)
(***************************************************************************)
\* Every step of a handler and of its environment.
LEMMA RequestShape ==
    ASSUME PipelineInv, NEW r \in Requests,
           Arrive(r) \/ Step(r) \/ Disconnect(r) \/ ShutdownAbort(r) \/ Crash(r)
    PROVE  StepShape(r)
BY PrepareShape, ReserveShape, BlockShape, BlockCompleteShape, ReleaseShape, StartShape,
   StreamShape, LastEventShape, AppendShape, PublishShape, CompleteShape, RespondShape,
   EnvironmentShape
   DEF Step, CallReturns

\* A record expires: nobody is admitted in the new era, and nothing else moves.
LEMMA ExpiryStep ==
    ASSUME PipelineInv, NEW k \in Keys, ExpireKey(k)
    PROVE  PipelineInv'
<1>1. IInv'
  BY IInvStep DEF PipelineInv, ExpireKey, IdemNext
<1>2. UNCHANGED <<req, disconnected, shutdown, logs, messages, jobs, recovery, lost, faults,
                  handle, resEra>>
  BY DEF ExpireKey, Expire, abortVars, dbVars, faultVars
<1>3. TypeOK'
  BY <1>1, <1>2 DEF PipelineInv, TypeOK, IInv
<1>4. HandlersOK' /\ LogKept' /\ NoJobBeforeLog'
  BY <1>2 DEF PipelineInv, HandlersOK, HandlerOK, Unaccounted, Accounting, BlockedLost,
              Accounted, Stored, LogKept, RowKept, Admitted, NoJobBeforeLog
<1>5. SettledHolds'
  <2> SUFFICES ASSUME NEW o \in Requests, handle[o] = "settled", resEra[o] = era'[KeyOf[o]]
               PROVE  store'[KeyOf[o]] = [status |-> "COMPLETED", req |-> o]
    BY <1>2 DEF SettledHolds
  <2>1. KeyOf[o] # k /\ KeyOf[o] \in Keys
    BY KeyAssumption DEF PipelineInv, IInv, IdemTypeOK, NoFutureEra, ExpireKey, Expire
  <2>2. store'[KeyOf[o]] = store[KeyOf[o]] /\ era'[KeyOf[o]] = era[KeyOf[o]]
    BY <2>1 DEF PipelineInv, IInv, IdemTypeOK, ExpireKey, Expire
  <2> QED
    BY <2>2 DEF PipelineInv, SettledHolds
<1>6. TombstoneOnlyAfterLog'
  BY <1>2 DEF PipelineInv, IInv, IdemTypeOK, TombstoneOnlyAfterLog, ExpireKey, Expire
<1>7. KeysHeld'
  <2> SUFFICES ASSUME NEW o \in Requests, OwnsProcessing(o)' PROVE OwnsProcessing(o)
    BY <1>2 DEF PipelineInv, KeysHeld, RecordHeld
  <2>1. KeyOf[o] \in Keys /\ store'[KeyOf[o]] # NoRecord
    BY KeyAssumption, RecordShape DEF OwnsProcessing
  <2>2. store'[KeyOf[o]] = store[KeyOf[o]]
    BY <2>1 DEF PipelineInv, IInv, IdemTypeOK, ExpireKey, Expire
  <2> QED
    BY <2>2 DEF OwnsProcessing
<1> QED
  BY <1>1, <1>3, <1>4, <1>5, <1>6, <1>7 DEF PipelineInv

\* The invariant holds before the first request arrives.
LEMMA PipelineInit == Init => PipelineInv
<1> SUFFICES ASSUME Init PROVE PipelineInv
  OBVIOUS
<1>1. IInv
  BY InitIInv DEF Init
<1>2. TypeOK
  <2>1. req \in [Requests -> Handler]
    BY DEF Init, Handler, Stages, Outcomes, CallSites, Replies
  <2> QED
    BY <1>1, <2>1, FaultAssumption DEF Init, TypeOK, IInv, Outcomes
<1>3. HandlersOK
  <2> SUFFICES ASSUME NEW r \in Requests PROVE HandlerOK(r)
    BY DEF HandlersOK
  <2>1. req[r].stage = "idle" /\ req[r].attempts = 0 /\ req[r].reply = "NONE"
    BY DEF Init
  <2>2. handle[r] = "none" /\ logs[r] = "NONE"
    BY DEF Init, IdemInit
  <2> QED
    BY <2>1, <2>2 DEF HandlerOK, Unaccounted
<1>4. KeysHeld
  <2>1. \A r \in Requests : store[KeyOf[r]] = NoRecord
    BY KeyAssumption DEF Init, IdemInit
  <2> QED
    BY <2>1, RecordShape DEF KeysHeld, RecordHeld, OwnsProcessing
<1> QED
  BY <1>1, <1>2, <1>3, <1>4, KeyAssumption
     DEF Init, IdemInit, PipelineInv, LogKept, RowKept, SettledHolds, TombstoneOnlyAfterLog,
         NoJobBeforeLog

\* Every step of the pipeline keeps it.
LEMMA PipelineStep ==
    ASSUME PipelineInv, [Next]_vars
    PROVE  PipelineInv'
<1>1. ASSUME NEW r \in Requests,
             Arrive(r) \/ Step(r) \/ Disconnect(r) \/ ShutdownAbort(r) \/ Crash(r)
      PROVE  PipelineInv'
  BY <1>1, RequestShape, ShapeStep
<1>2. ASSUME NEW k \in Keys, ExpireKey(k) PROVE PipelineInv'
  BY <1>2, ExpiryStep
<1>3. CASE UNCHANGED vars
  <2>1. IInv'
    BY <1>3, IInvStep DEF PipelineInv, vars
  <2>2. TypeOK'
    BY <1>3, <2>1 DEF PipelineInv, TypeOK, IInv, vars
  <2>3. HandlersOK' /\ LogKept' /\ SettledHolds' /\ TombstoneOnlyAfterLog' /\ NoJobBeforeLog'
    BY <1>3 DEF PipelineInv, vars, idemVars, HandlersOK, HandlerOK, Unaccounted, Accounting,
                BlockedLost, Accounted, Stored, LogKept, RowKept, Admitted, SettledHolds,
                TombstoneOnlyAfterLog, NoJobBeforeLog
  <2>4. KeysHeld'
    BY <1>3 DEF PipelineInv, vars, idemVars, KeysHeld, RecordHeld, OwnsProcessing
  <2> QED
    BY <2>1, <2>2, <2>3, <2>4 DEF PipelineInv
<1> QED
  BY <1>1, <1>2, <1>3 DEF Next

-----------------------------------------------------------------------------
(***************************************************************************)
(* Theorems                                                                *)
(***************************************************************************)
\* Every step of a handler makes a call Idempotency has, or none.
LEMMA PipelineReserves == Spec => IdemSpec
<1>1. Init => IdemInit
  BY DEF Init
<1>2. [Next]_vars => [IdemNext]_idemVars
  <2> SUFFICES ASSUME [Next]_vars PROVE [IdemNext]_idemVars
    OBVIOUS
  <2>1. ASSUME NEW r \in Requests,
               Arrive(r) \/ Step(r) \/ Disconnect(r) \/ ShutdownAbort(r) \/ Crash(r)
        PROVE  UNCHANGED idemVars \/ IdemCall(r)
    BY <2>1 DEF Arrive, Step, CallReturns, Disconnect, ShutdownAbort, Crash, ReserveKey, ControlsAndPolicy,
        BlockLog, BlockJobs, BlockComplete, SelectAndStart, FirstChunk, ReleaseKey, StreamDone,
        StreamWriteFails, StreamEnds, StreamThrows, TokenStalls, ClientReads, WriteCloses,
        AppendUsage, PersistMessages, EnqueueBilling, EnqueueAnalytics, CompleteKey,
        CompletionThrows, Respond, IdemCall
  <2>2. ASSUME NEW k \in Keys, ExpireKey(k) PROVE Expire(k)
    BY <2>2 DEF ExpireKey
  <2>3. CASE UNCHANGED vars
    BY <2>3 DEF vars
  <2> QED
    BY <2>1, <2>2, <2>3 DEF Next, IdemNext
<1> QED
  BY <1>1, <1>2, PTL DEF Spec, IdemSpec

\* What is proved of the protocol holds of the pipeline.
THEOREM PipelineReservationIsSound == Spec => []ReservationSound
BY PipelineReserves, ReservationIsSound, PTL

\* The inductive invariant holds in every reachable state.
THEOREM PipelineInvariant == Spec => []PipelineInv
BY PipelineInit, PipelineStep, PTL DEF Spec

\* Every started execution is accounted exactly once, or the very call that
\* failed is known, and duplicates of a key leave no second row in an era.
THEOREM AccountingIsExact == Spec => []AccountingExact
<1>1. PipelineInv => AccountingExact
  <2> SUFFICES ASSUME PipelineInv PROVE AccountingExact
    OBVIOUS
  <2>1. TypeOK /\ \A r \in Requests : HandlerOK(r) /\ RowKept(r)
    BY DEF PipelineInv, HandlersOK, LogKept
  <2>2. AccountedOnce
    BY <2>1 DEF AccountedOnce, HandlerOK
  <2>3. EveryExecutionAccounted
    BY <2>1 DEF EveryExecutionAccounted, At, Started, HandlerOK, Accounting, Accounted
  <2>4. OneLogPerEra
    BY <2>1 DEF OneLogPerEra, PipelineInv, IInv, OneExecutionPerEra, RowKept, BlockedLost
  <2> QED
    BY <2>1, <2>2, <2>3, <2>4 DEF AccountingExact
<1> QED
  BY <1>1, PipelineInvariant, PTL

\* A handler that has ended has left no PROCESSING record behind, unless one of
\* its own calls failed: duplicates are not refused for want of a release.
THEOREM NoKeyIsLeftBehind == Spec => []NoKeyLeftBehind
<1>1. PipelineInv => NoKeyLeftBehind
  <2> SUFFICES ASSUME PipelineInv, NEW r \in Requests,
                      req[r].stage \in {"lastEvent", "end"}, OwnsProcessing(r)
               PROVE  \E call \in Calls : <<r, call>> \in lost
    BY DEF NoKeyLeftBehind
  <2>1. HandlerOK(r) /\ RecordHeld(r)
    BY DEF PipelineInv, HandlersOK, KeysHeld
  <2>2. CASE req[r].attempts = 0
    BY <2>1, <2>2 DEF HandlerOK, RecordHeld, Calls
  <2>3. CASE req[r].attempts # 0
    BY <2>1, <2>3 DEF HandlerOK, Accounted, RecordHeld, Calls
  <2> QED
    BY <2>2, <2>3
<1> QED
  BY <1>1, PipelineInvariant, PTL

\* The durable row comes first, whatever fails or expires: no tombstone, no
\* job and no "done" is visible without what it stands for.
THEOREM SettlesInOrder == Spec => []SettledInOrder
<1>1. PipelineInv => SettledInOrder
  <2> SUFFICES ASSUME PipelineInv PROVE SettledInOrder
    OBVIOUS
  <2>1. \A r \in Requests : HandlerOK(r)
    BY DEF PipelineInv, HandlersOK
  <2>2. DoneMeansSettled
    BY <2>1 DEF DoneMeansSettled, HandlerOK, PipelineInv, SettledHolds
  <2> QED
    BY <2>2 DEF PipelineInv, SettledInOrder
<1> QED
  BY <1>1, PipelineInvariant, PTL
=============================================================================

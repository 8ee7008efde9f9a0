--------------------------- MODULE RefreshSession ---------------------------
(***************************************************************************)
(* Rotation of refresh tokens within one token family: refreshSession and  *)
(* logoutSession (backend/src/features/auth/auth.service.ts), the updates  *)
(* they make (auth.repository.ts), the cookie handling around them         *)
(* (auth.controller.ts) and an administrator's revocation of the sessions  *)
(* (admin.mutation.service.ts).                                            *)
(*                                                                         *)
(* The tabs of one browser share the cookie and may send requests at the   *)
(* same time; each handler reads the token, decides, and updates it after  *)
(* further awaits.  The replacement created by request r is named r.  An   *)
(* updateMany over the family is one step.  Families never touch each      *)
(* other, so one family, begun by a login, stands for all.                 *)
(***************************************************************************)
EXTENDS Naturals

CONSTANTS
    Requests,   \* refresh and logout requests of one browser
    Root,       \* the token issued at login
    NoToken,    \* no refresh cookie
    MaxFaults   \* bound: failing calls and lost responses

ASSUME TokenAssumption ==
    Root \notin Requests /\ NoToken \notin Requests /\ Root # NoToken
ASSUME RefreshFaultAssumption == MaxFaults \in Nat

VARIABLES
    stored,     \* tokens that have a document
    used,       \* tokens with usedAt (and replacedByTokenId)
    inGrace,    \* used tokens for which the concurrency grace still runs
    revoked,    \* tokens with revokedAt
    expired,    \* tokens whose expiresAt has passed
    req,        \* req[r]: stage, kind, token sent and reply of request r
    cookie,     \* the refresh cookie of the browser
    closed,     \* history: the family was revoked with no rotation under way
    causes,     \* history: what may legitimately end the session
    faults      \* faults so far

tokenVars == <<stored, used, inGrace, revoked, expired>>
historyVars == <<closed, causes, faults>>
refreshVars == <<tokenVars, req, cookie, historyVars>>

Tokens == Requests \cup {Root}
Stages == {"idle", "find", "claim", "load", "persist", "sign", "revoke", "reply", "done"}
Replies == {"NONE", "ROTATED", "INVALID_REFRESH_TOKEN", "CONCURRENT",
            "AUTH_TEMPORARILY_UNAVAILABLE", "LOGGED_OUT", "ANONYMOUS"}
Causes == {"logout", "admin", "reuse", "inactive", "fault", "expiry", "demo"}

Exchange == [stage : Stages, kind : {"refresh", "logout"},
             sent : Tokens \cup {NoToken}, reply : Replies]

RefreshTypeOK ==
    /\ stored \subseteq Tokens /\ used \subseteq Tokens
    /\ inGrace \subseteq used /\ revoked \subseteq Tokens
    /\ expired \subseteq Tokens
    /\ req \in [Requests -> Exchange]
    /\ cookie \in Tokens \cup {NoToken}
    /\ closed \in BOOLEAN
    /\ causes \subseteq Causes
    /\ faults \in 0..MaxFaults

\* After a login: one live token, and the browser holds it.
RefreshInit ==
    /\ stored = {Root} /\ used = {} /\ inGrace = {} /\ revoked = {} /\ expired = {}
    /\ req = [r \in Requests |-> [stage |-> "idle", kind |-> "refresh",
                                  sent |-> NoToken, reply |-> "NONE"]]
    /\ cookie = Root
    /\ closed = FALSE
    /\ causes = {}
    /\ faults = 0

At(r, kind, stage) == req[r].kind = kind /\ req[r].stage = stage

Goto(r, stage) == req' = [req EXCEPT ![r].stage = stage]

Reply(r, code) == req' = [req EXCEPT ![r].stage = "reply", ![r].reply = code]

\* Revoke the family, then reply.
RevokeThen(r, code) == req' = [req EXCEPT ![r].stage = "revoke", ![r].reply = code]

Because(cause) == causes' = causes \cup {cause} /\ UNCHANGED <<closed, faults>>

\* A call fails or a response is lost.
Failure ==
    /\ faults < MaxFaults
    /\ faults' = faults + 1
    /\ causes' = causes \cup {"fault"}

Fault == Failure /\ UNCHANGED closed

Live == stored \ (used \cup revoked \cup expired)

\* r has claimed its token and not yet stored the replacement.
Rotating(r) == req[r].stage \in {"load", "persist"}

-----------------------------------------------------------------------------
(***************************************************************************)
(* refreshSession                                                          *)
(***************************************************************************)
\* A tab sends a request; without a cookie a refresh ends at the controller.
Send(r, kind) ==
    /\ req[r].stage = "idle"
    /\ req' = [req EXCEPT ![r] =
                  IF cookie = NoToken
                  THEN [stage |-> "reply", kind |-> kind, sent |-> cookie,
                        reply |-> IF kind = "refresh" THEN "ANONYMOUS" ELSE "LOGGED_OUT"]
                  ELSE [stage |-> "find", kind |-> kind, sent |-> cookie, reply |-> "NONE"]]
    /\ UNCHANGED <<tokenVars, cookie, historyVars>>

\* findRefreshTokenByHash and the checks on the document it returned.
Find(r) ==
    LET t == req[r].sent IN
    /\ At(r, "refresh", "find")
    /\ \/ t \notin stored /\ Reply(r, "INVALID_REFRESH_TOKEN") /\ UNCHANGED historyVars
       \/ t \in stored \cap inGrace /\ Reply(r, "CONCURRENT") /\ UNCHANGED historyVars
       \/ /\ t \in (stored \cap used) \ inGrace
          /\ RevokeThen(r, "INVALID_REFRESH_TOKEN")
          /\ Because("reuse")
       \/ /\ t \in (stored \ used) \cap (revoked \cup expired)
          /\ Reply(r, "INVALID_REFRESH_TOKEN")
          /\ UNCHANGED historyVars
       \/ t \in Live /\ Goto(r, "claim") /\ UNCHANGED historyVars
       \/ Reply(r, "AUTH_TEMPORARILY_UNAVAILABLE") /\ Fault
    /\ UNCHANGED <<tokenVars, cookie>>

\* Mutant: the claim does not test usedAt again.
MayClaim_UsedToo(t) == t \in stored \ revoked

\* The filter of claimRefreshTokenForRotation; expiresAt is compared with the
\* time of the read, so it cannot fail here.
MayClaim(t) == t \in stored \ (used \cup revoked)

MarkUsed(t) == used' = used \cup {t} /\ inGrace' = inGrace \cup {t}

Claim(r) ==
    LET t == req[r].sent IN
    /\ At(r, "refresh", "claim")
    /\ \/ MayClaim(t) /\ MarkUsed(t) /\ Goto(r, "load") /\ UNCHANGED historyVars
       \/ /\ ~MayClaim(t)
          /\ Reply(r, "CONCURRENT")
          /\ UNCHANGED <<used, inGrace, historyVars>>
       \/ /\ (MayClaim(t) /\ MarkUsed(t)) \/ UNCHANGED <<used, inGrace>>
          /\ Reply(r, "AUTH_TEMPORARILY_UNAVAILABLE")
          /\ Fault
    /\ UNCHANGED <<stored, revoked, expired, cookie>>

\* The organisation and the user, both of which must be ACTIVE.
Load(r) ==
    /\ At(r, "refresh", "load")
    /\ \/ Goto(r, "persist") /\ UNCHANGED historyVars
       \/ RevokeThen(r, "INVALID_REFRESH_TOKEN") /\ Because("inactive")
       \/ RevokeThen(r, "AUTH_TEMPORARILY_UNAVAILABLE") /\ Fault
    /\ UNCHANGED <<tokenVars, cookie>>

\* persistReplacementRefreshToken
Persist(r) ==
    /\ At(r, "refresh", "persist")
    /\ \/ /\ stored' = stored \cup {r}
          /\ Goto(r, "sign")
          /\ UNCHANGED historyVars
       \/ /\ stored' \in {stored, stored \cup {r}}
          /\ RevokeThen(r, "AUTH_TEMPORARILY_UNAVAILABLE")
          /\ Fault
    /\ UNCHANGED <<used, inGrace, revoked, expired, cookie>>

Sign(r) ==
    /\ At(r, "refresh", "sign")
    /\ \/ Reply(r, "ROTATED") /\ UNCHANGED historyVars
       \/ RevokeThen(r, "AUTH_TEMPORARILY_UNAVAILABLE") /\ Fault
    /\ UNCHANGED <<tokenVars, cookie>>

\* revokeRefreshTokenFamily: every document there is now.
RevokeFamily ==
    /\ revoked' = revoked \cup stored
    /\ closed' = (closed \/ \A r \in Requests : ~Rotating(r))
    /\ UNCHANGED <<stored, used, inGrace, expired>>

\* revokeFamilyBestEffort: a failure is logged, the reply is the same.
RevokeBestEffort(r) ==
    /\ At(r, "refresh", "revoke")
    /\ Goto(r, "reply")
    /\ \/ RevokeFamily /\ UNCHANGED <<causes, faults>>
       \/ (RevokeFamily \/ UNCHANGED <<tokenVars, closed>>) /\ Failure
    /\ UNCHANGED cookie

-----------------------------------------------------------------------------
(***************************************************************************)
(* logoutSession                                                           *)
(***************************************************************************)
FindForLogout(r) ==
    /\ At(r, "logout", "find")
    /\ \/ req[r].sent \notin stored /\ Reply(r, "LOGGED_OUT") /\ UNCHANGED historyVars
       \/ req[r].sent \in stored /\ Goto(r, "revoke") /\ UNCHANGED historyVars
       \/ Reply(r, "AUTH_TEMPORARILY_UNAVAILABLE") /\ Fault
    /\ UNCHANGED <<tokenVars, cookie>>

LogoutRevoke(r) ==
    /\ At(r, "logout", "revoke")
    /\ \/ RevokeFamily /\ Reply(r, "LOGGED_OUT") /\ UNCHANGED <<causes, faults>>
       \/ /\ RevokeFamily \/ UNCHANGED <<tokenVars, closed>>
          /\ Reply(r, "AUTH_TEMPORARILY_UNAVAILABLE")
          /\ Failure
    /\ UNCHANGED cookie

\* revokeSessions of an administrator's mutation.
AdminRevoke ==
    /\ "admin" \notin causes
    /\ RevokeFamily
    /\ causes' = causes \cup {"admin"}
    /\ UNCHANGED <<req, cookie, faults>>

-----------------------------------------------------------------------------
(***************************************************************************)
(* The cookie, the network and time                                        *)
(***************************************************************************)
\* Mutant: every refresh failure clears the cookie.
CookieAfter_ClearsAlways(r) ==
    IF req[r].reply = "ROTATED" THEN r ELSE NoToken

\* The Set-Cookie header of the response: logout and an invalid token clear
\* the cookie, a concurrent loser and an operational failure leave it alone.
CookieAfter(r) ==
    CASE req[r].reply = "ROTATED" -> r
      [] req[r].kind = "logout" \/ req[r].reply \in {"INVALID_REFRESH_TOKEN", "ANONYMOUS"} ->
           NoToken
      [] OTHER -> cookie

Receive(r) ==
    /\ req[r].stage = "reply"
    /\ Goto(r, "done")
    /\ cookie' = CookieAfter(r)
    /\ causes' = IF req[r].kind = "logout" THEN causes \cup {"logout"} ELSE causes
    /\ UNCHANGED <<tokenVars, closed, faults>>

LoseReply(r) ==
    /\ req[r].stage = "reply"
    /\ Goto(r, "done")
    /\ Fault
    /\ UNCHANGED <<tokenVars, cookie>>

\* Five seconds after usedAt.
GraceEnds(t) ==
    /\ t \in inGrace
    /\ inGrace' = inGrace \ {t}
    /\ UNCHANGED <<stored, used, revoked, expired, req, cookie, historyVars>>

ExpireToken(t) ==
    /\ t \in stored \ expired
    /\ expired' = expired \cup {t}
    /\ Because("expiry")
    /\ UNCHANGED <<stored, used, inGrace, revoked, req, cookie>>

\* The TTL index on expiresAt.
RemoveExpired(t) ==
    /\ t \in stored \cap expired
    /\ stored' = stored \ {t}
    /\ UNCHANGED <<used, inGrace, revoked, expired, req, cookie, historyVars>>

HandlerStep(r) ==
    \/ Find(r) \/ Claim(r) \/ Load(r) \/ Persist(r) \/ Sign(r) \/ RevokeBestEffort(r)
    \/ FindForLogout(r) \/ LogoutRevoke(r)

RefreshNext ==
    \/ \E r \in Requests :
          \/ \E kind \in {"refresh", "logout"} : Send(r, kind)
          \/ HandlerStep(r) \/ Receive(r) \/ LoseReply(r)
    \/ \E t \in Tokens : GraceEnds(t) \/ ExpireToken(t) \/ RemoveExpired(t)
    \/ AdminRevoke

RefreshSpec == RefreshInit /\ [][RefreshNext]_refreshVars

-----------------------------------------------------------------------------
(***************************************************************************)
(* Properties                                                              *)
(***************************************************************************)
\* docs/08_TESTING_STRATEGY.md, 35.3: "Rotation has one usable winner".  A
\* family never has two tokens that could be rotated, however many tabs
\* refresh at once and whichever of their steps fail.
OneLiveToken == \A t1, t2 \in Live : t1 = t2

\* A family that was revoked while no rotation was under way has no usable
\* token ever again: a refresh that had read its token before the revocation
\* finds out at its claim.
RevocationIsFinal == closed => Live = {}

\* Concurrent tabs do not log each other out.  Once all responses are in, the
\* browser holds the family's live token, unless somebody logged out, a used
\* token came back after its grace, the account was inactive, the token
\* expired or a call failed.
TabsKeepSession ==
    /\ causes = {}
    /\ \A r \in Requests : req[r].stage \in {"idle", "done"}
    => cookie \in Live

\* What rotation promises whatever the tabs do: one usable token at most, and
\* none after a revocation that no rotation was racing with.
RotationSound == RefreshTypeOK /\ OneLiveToken /\ RevocationIsFinal
=============================================================================

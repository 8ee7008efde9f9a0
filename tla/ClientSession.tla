---------------------------- MODULE ClientSession ----------------------------
(***************************************************************************)
(* The session as the browser sees it: AuthProvider of every open tab      *)
(* (frontend/src/features/auth/auth-provider.tsx) over the token rotation  *)
(* of RefreshSession.  The tabs share the refresh cookie and nothing else: *)
(* each keeps its own status, and an answer is applied to the status its   *)
(* tab has when the answer arrives, with the status captured at the call   *)
(* as the fallback.                                                        *)
(*                                                                         *)
(* Login starts another family and is not repeated here; the public demo   *)
(* is present for what it does to the shared cookie.                       *)
(***************************************************************************)
EXTENDS RefreshSession

CONSTANT Tabs

VARIABLES
    auth,   \* auth[t]: the status of tab t
    call    \* call[r]: the tab behind request r, the status it captured, its progress

clientVars == <<refreshVars, auth, call>>

Statuses == {"loading", "authenticated", "anonymous", "unavailable", "demo"}

\* A tab has just logged in, or is opened while the cookie is there.
ClientInit ==
    /\ RefreshInit
    /\ auth \in [Tabs -> {"loading", "authenticated"}]
    /\ call = [r \in Requests |->
                  [tab |-> "none", seen |-> "loading", stage |-> "none"]]

SignedIn(status) == status \in {"authenticated", "demo"}

Calls(t, r) ==
    call' = [call EXCEPT ![r] = [tab |-> t, seen |-> auth[t], stage |-> "sent"]]

\* The answer to r settles the status of its tab.
Becomes(r, status) ==
    /\ auth' = [auth EXCEPT ![call[r].tab] = status]
    /\ call' = [call EXCEPT ![r].stage = "over"]

\* resolveRefreshFailure for anything but a 401.
Captured(r) == IF SignedIn(call[r].seen) THEN call[r].seen ELSE "unavailable"

-----------------------------------------------------------------------------
\* bootstrapSession: once for a loading tab, whose promise is shared; again by
\* the timer before expiry, by retrySession after an outage or an unauthorised
\* answer, with nothing to keep two of them apart.
BootstrapSession(t, r) ==
    /\ auth[t] # "anonymous"
    /\ auth[t] = "loading" =>
          \A q \in Requests : call[q].tab # t
    /\ Send(r, "refresh")
    /\ Calls(t, r)
    /\ UNCHANGED auth

\* Mutant: a failed refresh that is no 401 signs the tab out as well.
RefreshRefused_AnyFailure(r) == req[r].reply # "ROTATED"

\* 204 without a cookie; 401 for an invalid token and for the loser of a
\* concurrent rotation alike.
RefreshRefused(r) ==
    req[r].reply \in {"ANONYMOUS", "INVALID_REFRESH_TOKEN", "CONCURRENT"}

AnswerRefresh(r) ==
    /\ req[r].kind = "refresh"
    /\ Receive(r)
    /\ \/ /\ req[r].reply = "ROTATED"
          /\ call' = [call EXCEPT ![r].stage = "me"]
          /\ UNCHANGED auth
       \/ RefreshRefused(r) /\ Becomes(r, "anonymous")
       \/ /\ req[r].reply # "ROTATED"
          /\ ~RefreshRefused(r)
          /\ Becomes(r, Captured(r))

\* meRequest with the access token just received; authenticateRequest rejects
\* a user or an organisation that is no longer active.
AnswerMe(r) ==
    /\ call[r].stage = "me"
    /\ \/ Becomes(r, "authenticated") /\ UNCHANGED historyVars
       \/ Becomes(r, "anonymous") /\ Because("inactive")
       \/ Becomes(r, Captured(r)) /\ Fault
    /\ UNCHANGED <<tokenVars, req, cookie>>

Logout(t, r) ==
    /\ SignedIn(auth[t])
    /\ Send(r, "logout")
    /\ Calls(t, r)
    /\ UNCHANGED auth

\* The tab is signed out whatever the answer is.
AnswerLogout(r) ==
    /\ req[r].kind = "logout"
    /\ Receive(r)
    /\ Becomes(r, "anonymous")

LoseAnswer(r) ==
    /\ LoseReply(r)
    /\ Becomes(r, IF req[r].kind = "logout" THEN "anonymous" ELSE Captured(r))

\* startPublicAdminDemo, once the backend answered the bounded health checks:
\* the response clears the refresh cookie; meRequest may still fail.
StartDemo(t) ==
    /\ "demo" \notin causes
    /\ cookie' = NoToken
    /\ Because("demo")
    /\ auth' \in {auth, [auth EXCEPT ![t] = "demo"]}
    /\ UNCHANGED <<tokenVars, req, call>>

ExpirePublicDemo(t) ==
    /\ auth[t] = "demo"
    /\ auth' = [auth EXCEPT ![t] = "anonymous"]
    /\ UNCHANGED <<refreshVars, call>>

\* The handlers and the passing of time, as in RefreshSession.
ServerStep ==
    /\ \/ \E r \in Requests : HandlerStep(r)
       \/ \E t \in Tokens : GraceEnds(t) \/ ExpireToken(t) \/ RemoveExpired(t)
       \/ AdminRevoke
    /\ UNCHANGED <<auth, call>>

ClientNext ==
    \/ \E t \in Tabs, r \in Requests : BootstrapSession(t, r) \/ Logout(t, r)
    \/ \E r \in Requests :
          AnswerRefresh(r) \/ AnswerMe(r) \/ AnswerLogout(r) \/ LoseAnswer(r)
    \/ \E t \in Tabs : StartDemo(t) \/ ExpirePublicDemo(t)
    \/ ServerStep

ClientSpec == ClientInit /\ [][ClientNext]_clientVars

-----------------------------------------------------------------------------
(***************************************************************************)
(* Properties                                                              *)
(***************************************************************************)
\* An outage is not a sign-out: a tab shows the login screen only when the
\* session was ended somewhere, when the tab itself asked to log out, or when a
\* request of that tab lost the race for a rotation.  A server that failed,
\* however late its answer, is no reason by itself.
OutageIsNotSignOut ==
    \A t \in Tabs :
        auth[t] = "anonymous" =>
            \/ causes \ {"fault"} # {}
            \/ revoked # {}
            \/ \E r \in Requests :
                  /\ call[r].tab = t
                  /\ req[r].reply = "CONCURRENT" \/ req[r].kind = "logout"

\* What "additional docs/PROXIAI_FULL_REPOSITORY_AUDIT_AND_FIX_PLAN.md" says of
\* refreshing in two tabs: "A dedicated concurrency error is not treated like a
\* terminal invalid-token error."  While nothing ended the session, no tab that
\* shares it is sent to the login screen.
ConcurrentRefreshKeepsTabs ==
    causes = {} => \A t \in Tabs : auth[t] # "anonymous"
=============================================================================

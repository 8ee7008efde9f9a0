---------------------------- MODULE ClientProofs ----------------------------
(***************************************************************************)
(* The browser's side, for any number of requests, tabs, sends and         *)
(* failures: rotation has one usable winner, a revocation is final, tabs   *)
(* keep their session, and answers settle under their questions.           *)
(*                                                                         *)
(* OneLiveToken is not inductive: between its claim and its insert a       *)
(* rotation has used up the old token and not yet stored the new one.  The *)
(* strengthening treats that rotation as the holder of the family's one    *)
(* place: while it runs nothing is usable, and no second one can start.    *)
(* The second part is about the tabs' own status (ClientSession), the last *)
(* about the chat page (ChatWorkspace).                                    *)
(***************************************************************************)
EXTENDS ClientSession, ChatWorkspace, TLAPS

Usable == stored \ (used \cup revoked)

OneUsable == \A t1, t2 \in Usable : t1 = t2

RotationHoldsPlace ==
    \A r \in Requests :
        Rotating(r) => /\ Usable = {}
                       /\ \A q \in Requests : Rotating(q) => q = r

ClosedForGood == closed => Usable = {} /\ \A r \in Requests : ~Rotating(r)

RotationInv == RefreshTypeOK /\ OneUsable /\ RotationHoldsPlace /\ ClosedForGood

-----------------------------------------------------------------------------
\* A move of a handler keeps the type of req.
LEMMA MoveType ==
    ASSUME req \in [Requests -> Exchange],
           NEW r \in Requests, NEW stage \in Stages, NEW code \in Replies,
           Goto(r, stage) \/ Reply(r, code) \/ RevokeThen(r, code)
    PROVE  req' \in [Requests -> Exchange]
<1> DEFINE moved == [req[r] EXCEPT !.stage = stage]
           replied == [req[r] EXCEPT !.stage = "reply", !.reply = code]
           revoking == [req[r] EXCEPT !.stage = "revoke", !.reply = code]
<1>1. {moved, replied, revoking} \subseteq Exchange
  BY DEF Exchange, Stages
<1>2. CASE Goto(r, stage)
  BY <1>1, <1>2 DEF Goto
<1>3. CASE Reply(r, code)
  <2>1. req' = [req EXCEPT ![r] = replied]
    BY <1>3 DEF Reply
  <2> HIDE DEF replied
  <2> QED
    BY <1>1, <2>1
<1>4. CASE RevokeThen(r, code)
  <2>1. req' = [req EXCEPT ![r] = revoking]
    BY <1>4 DEF RevokeThen
  <2> HIDE DEF revoking
  <2> QED
    BY <1>1, <2>1
<1> QED
  BY <1>2, <1>3, <1>4

\* What a step does to the rest of the state.
RestTypeOK ==
    /\ stored \subseteq Tokens /\ used \subseteq Tokens
    /\ inGrace \subseteq used /\ revoked \subseteq Tokens
    /\ expired \subseteq Tokens
    /\ cookie \in Tokens \cup {NoToken}
    /\ closed \in BOOLEAN
    /\ causes \subseteq Causes
    /\ faults \in 0..MaxFaults

\* A failing call stays within the bound.
LEMMA FailureType ==
    ASSUME RestTypeOK, Failure
    PROVE  causes' \subseteq Causes /\ faults' \in 0..MaxFaults
BY RefreshFaultAssumption DEF RestTypeOK, Failure, Causes

\* A revocation keeps the types of what it touches.
LEMMA RevokeType ==
    ASSUME RestTypeOK, RevokeFamily
    PROVE  /\ (stored \subseteq Tokens /\ used \subseteq Tokens)'
           /\ (inGrace \subseteq used /\ revoked \subseteq Tokens)'
           /\ (expired \subseteq Tokens /\ closed \in BOOLEAN)'
BY DEF RestTypeOK, RevokeFamily, Tokens

\* Every step of a handler preserves the type invariant.
LEMMA HandlerType ==
    ASSUME RefreshTypeOK, NEW r \in Requests, HandlerStep(r)
    PROVE  RefreshTypeOK'
<1>0. RestTypeOK /\ req \in [Requests -> Exchange] /\ req[r].sent \in Tokens \cup {NoToken}
  BY DEF RefreshTypeOK, RestTypeOK, Exchange
<1>1. \E stage \in Stages, code \in Replies :
          Goto(r, stage) \/ Reply(r, code) \/ RevokeThen(r, code)
  <2> /\ {"claim", "load", "persist", "sign", "revoke", "reply"} \subseteq Stages
      /\ {"ROTATED", "INVALID_REFRESH_TOKEN", "CONCURRENT",
          "AUTH_TEMPORARILY_UNAVAILABLE", "LOGGED_OUT"} \subseteq Replies
    BY DEF Stages, Replies
  <2> QED
    BY DEF HandlerStep, Find, Claim, Load, Persist, Sign, RevokeBestEffort, FindForLogout,
           LogoutRevoke
<1>2. req' \in [Requests -> Exchange]
  BY <1>0, <1>1, MoveType
<1>3. RestTypeOK'
  <2> USE <1>0
  <2>1. CASE Find(r)
    BY <2>1, FailureType DEF Find, Because, Fault, RestTypeOK, Causes, tokenVars, historyVars
  <2>2. CASE Claim(r)
    <3>1. /\ (stored \subseteq Tokens /\ used \subseteq Tokens /\ inGrace \subseteq used)'
          /\ UNCHANGED <<revoked, expired, cookie>>
      BY <2>2 DEF Claim, MayClaim, MarkUsed, RestTypeOK
    <3>2. (closed \in BOOLEAN /\ causes \subseteq Causes /\ faults \in 0..MaxFaults)'
      BY <2>2, FailureType DEF Claim, Fault, RestTypeOK, historyVars
    <3> QED
      BY <3>1, <3>2 DEF RestTypeOK
  <2>3. CASE Load(r)
    BY <2>3, FailureType DEF Load, Because, Fault, RestTypeOK, Causes, tokenVars, historyVars
  <2>4. CASE Persist(r)
    BY <2>4, FailureType DEF Persist, Fault, RestTypeOK, Tokens, historyVars
  <2>5. CASE Sign(r)
    BY <2>5, FailureType DEF Sign, Fault, RestTypeOK, tokenVars, historyVars
  <2>6. CASE RevokeBestEffort(r)
    BY <2>6, FailureType, RevokeType DEF RevokeBestEffort, RestTypeOK, tokenVars
  <2>7. CASE FindForLogout(r)
    BY <2>7, FailureType DEF FindForLogout, Fault, RestTypeOK, tokenVars, historyVars
  <2>8. CASE LogoutRevoke(r)
    BY <2>8, FailureType, RevokeType DEF LogoutRevoke, RestTypeOK, tokenVars
  <2> QED
    BY <2>1, <2>2, <2>3, <2>4, <2>5, <2>6, <2>7, <2>8 DEF HandlerStep
<1> QED
  BY <1>2, <1>3 DEF RefreshTypeOK, RestTypeOK

\* Every step preserves the type invariant.
LEMMA TypeStep ==
    ASSUME RefreshTypeOK, [RefreshNext]_refreshVars
    PROVE  RefreshTypeOK'
<1>0. RestTypeOK /\ req \in [Requests -> Exchange]
  BY DEF RefreshTypeOK, RestTypeOK
<1>1. ASSUME NEW r \in Requests, NEW kind \in {"refresh", "logout"}, Send(r, kind)
      PROVE RefreshTypeOK'
  BY <1>1 DEF Send, Exchange, Stages, Replies, RefreshTypeOK, tokenVars, historyVars
<1>2. ASSUME NEW r \in Requests, Receive(r) \/ LoseReply(r) PROVE RefreshTypeOK'
  <2>1. Goto(r, "done") /\ "done" \in Stages /\ "NONE" \in Replies
    BY <1>2 DEF Receive, LoseReply, Stages, Replies
  <2>2. req' \in [Requests -> Exchange]
    BY <1>0, <2>1, MoveType
  <2>3. RestTypeOK'
    BY <1>0, <1>2, FailureType
       DEF Receive, LoseReply, CookieAfter, Fault, RestTypeOK, Tokens, Causes, tokenVars
  <2> QED
    BY <2>2, <2>3 DEF RefreshTypeOK, RestTypeOK
<1>3. ASSUME NEW t \in Tokens, GraceEnds(t) \/ ExpireToken(t) \/ RemoveExpired(t)
      PROVE RefreshTypeOK'
  BY <1>3 DEF GraceEnds, ExpireToken, RemoveExpired, Because, Causes, RefreshTypeOK, historyVars
<1>4. ASSUME AdminRevoke PROVE RefreshTypeOK'
  BY <1>0, <1>4, RevokeType DEF AdminRevoke, Causes, RefreshTypeOK
<1>5. ASSUME UNCHANGED refreshVars PROVE RefreshTypeOK'
  BY <1>5 DEF RefreshTypeOK, refreshVars, tokenVars, historyVars
<1> QED
  BY <1>1, <1>2, <1>3, <1>4, <1>5, HandlerType DEF RefreshNext

-----------------------------------------------------------------------------
\* Most steps neither make a token usable nor begin a rotation.
Harmless ==
    /\ Usable' \subseteq Usable
    /\ \A r \in Requests : Rotating(r)' => Rotating(r)
    /\ closed' = closed

\* Such a step keeps the invariant.
LEMMA HarmlessStep ==
    ASSUME RotationInv, Harmless
    PROVE  (OneUsable /\ RotationHoldsPlace /\ ClosedForGood)'
BY DEF RotationInv, Harmless, OneUsable, RotationHoldsPlace, ClosedForGood

\* A handler starts or stops rotating only by its own move.
LEMMA MoveRotates ==
    ASSUME RefreshTypeOK, NEW r \in Requests, NEW stage \in Stages, NEW code,
           Goto(r, stage) \/ Reply(r, code) \/ RevokeThen(r, code),
           NEW q \in Requests, Rotating(q)'
    PROVE  \/ q # r /\ Rotating(q)
           \/ q = r /\ Goto(r, stage) /\ stage \in {"load", "persist"}
<1>1. req \in [Requests -> [stage : Stages, kind : {"refresh", "logout"},
                            sent : Tokens \cup {NoToken}, reply : Replies]]
  BY DEF RefreshTypeOK, Exchange
<1>2. CASE q # r
  BY <1>1, <1>2 DEF Goto, Reply, RevokeThen, Rotating
<1>3. CASE q = r /\ Goto(r, stage)
  BY <1>1, <1>3 DEF Goto, Rotating
<1>4. CASE q = r /\ Reply(r, code)
  BY <1>1, <1>4 DEF Reply, Rotating
<1>5. CASE q = r /\ RevokeThen(r, code)
  BY <1>1, <1>5 DEF RevokeThen, Rotating
<1> QED
  BY <1>2, <1>3, <1>4, <1>5

\* A handler that moves out of its rotation, or never was in one.
Leaves(r) ==
    \/ \E stage \in Stages \ {"load", "persist"} : Goto(r, stage)
    \/ \E code \in Replies : Reply(r, code) \/ RevokeThen(r, code)

\* Such a move leaves only the rotations of other handlers.
LEMMA LeavesStep ==
    ASSUME RefreshTypeOK, NEW r \in Requests, Leaves(r)
    PROVE  \A q \in Requests : Rotating(q)' => q # r /\ Rotating(q)
<1>1. "idle" \in Stages
  BY DEF Stages
<1>2. CASE \E stage \in Stages \ {"load", "persist"} : Goto(r, stage)
  BY <1>2, MoveRotates
<1>3. CASE \E code \in Replies : Reply(r, code) \/ RevokeThen(r, code)
  <2> PICK code \in Replies : Reply(r, code) \/ RevokeThen(r, code)
    BY <1>3
  <2> SUFFICES ASSUME NEW q \in Requests, Rotating(q)' PROVE q # r /\ Rotating(q)
    OBVIOUS
  <2> QED
    BY <1>1, MoveRotates
<1> QED
  BY <1>2, <1>3 DEF Leaves

\* A revocation leaves nothing usable, and closes the family if no rotation
\* can still store a token.
LEMMA RevokeStep ==
    ASSUME RotationInv, RevokeFamily,
           \A r \in Requests : Rotating(r)' => Rotating(r)
    PROVE  (OneUsable /\ RotationHoldsPlace /\ ClosedForGood)'
<1>1. Usable' = {}
  BY DEF RevokeFamily, Usable
<1>2. closed' => \A r \in Requests : ~Rotating(r)
  BY DEF RevokeFamily, RotationInv, ClosedForGood
<1> QED
  BY <1>1, <1>2 DEF RotationInv, OneUsable, RotationHoldsPlace, ClosedForGood

\* A claim uses up the usable token and takes the family's place.
LEMMA ClaimStep ==
    ASSUME RotationInv, NEW r \in Requests, Claim(r)
    PROVE  (OneUsable /\ RotationHoldsPlace /\ ClosedForGood)'
<1> DEFINE t == req[r].sent
<1> USE DEF RotationInv
<1>1. CASE MayClaim(t) /\ MarkUsed(t) /\ Goto(r, "load") /\ UNCHANGED historyVars
  <2>1. t \in Usable
    BY <1>1 DEF MayClaim, Usable
  <2>2. Usable' = {}
    BY <1>1, <2>1 DEF Claim, MarkUsed, Usable, OneUsable
  <2>3. ~closed' /\ \A q \in Requests : ~Rotating(q)
    BY <1>1, <2>1 DEF RotationHoldsPlace, ClosedForGood, historyVars
  <2>4. \A q \in Requests : Rotating(q)' => q = r
    BY <1>1, <2>3 DEF Goto, Rotating, RefreshTypeOK
  <2> QED
    BY <2>2, <2>3, <2>4 DEF OneUsable, RotationHoldsPlace, ClosedForGood
<1>2. CASE ~(MayClaim(t) /\ MarkUsed(t) /\ Goto(r, "load") /\ UNCHANGED historyVars)
  <2>1. Usable' \subseteq Usable
    BY <1>2 DEF Claim, MarkUsed, Usable
  <2>2. closed' = closed
    BY <1>2 DEF Claim, Fault, historyVars
  <2>3. \A q \in Requests : Rotating(q)' => Rotating(q)
    <3>1. Leaves(r)
      BY <1>2 DEF Claim, Leaves, Replies
    <3> QED
      BY <3>1, LeavesStep
  <2> QED
    BY <2>1, <2>2, <2>3, HarmlessStep DEF Harmless
<1> QED
  BY <1>1, <1>2

\* The insert turns the rotation's place into the one usable token.
LEMMA PersistStep ==
    ASSUME RotationInv, NEW r \in Requests, Persist(r)
    PROVE  (OneUsable /\ RotationHoldsPlace /\ ClosedForGood)'
<1> USE DEF RotationInv
<1>1. Rotating(r)
  BY DEF Persist, At, Rotating
<1>2. Usable = {} /\ ~closed /\ \A q \in Requests : Rotating(q) => q = r
  BY <1>1 DEF RotationHoldsPlace, ClosedForGood
<1>3. Usable' \subseteq {r}
  BY <1>2 DEF Persist, Usable
<1>4. \A q \in Requests : ~Rotating(q)'
  <2>1. Leaves(r)
    BY DEF Persist, Leaves, Stages, Replies
  <2> QED
    BY <1>2, <2>1, LeavesStep
<1>5. ~closed'
  BY <1>2 DEF Persist, Fault, historyVars
<1> QED
  BY <1>3, <1>4, <1>5 DEF OneUsable, RotationHoldsPlace, ClosedForGood

\* Every step of a handler keeps the rotation invariant.
LEMMA HandlerStepPreserves ==
    ASSUME RotationInv, NEW r \in Requests, HandlerStep(r)
    PROVE  (OneUsable /\ RotationHoldsPlace /\ ClosedForGood)'
<1> USE DEF RotationInv
<1>1. CASE Find(r)
  <2>1. Leaves(r)
    BY <1>1 DEF Find, Leaves, Stages, Replies
  <2>2. UNCHANGED <<tokenVars, closed>>
    BY <1>1 DEF Find, Because, Fault, tokenVars, historyVars
  <2> QED
    BY <2>1, <2>2, LeavesStep, HarmlessStep DEF Harmless, Usable, tokenVars
<1>2. CASE Claim(r)
  BY <1>2, ClaimStep
<1>3. CASE Load(r)
  BY <1>3, HarmlessStep
     DEF Load, Harmless, Usable, Rotating, RefreshTypeOK, At, Goto, RevokeThen,
         Because, Fault, tokenVars, historyVars
<1>4. CASE Persist(r)
  BY <1>4, PersistStep
<1>5. CASE Sign(r)
  <2>1. Leaves(r)
    BY <1>5 DEF Sign, Leaves, Stages, Replies
  <2>2. UNCHANGED <<tokenVars, closed>>
    BY <1>5 DEF Sign, Fault, tokenVars, historyVars
  <2> QED
    BY <2>1, <2>2, LeavesStep, HarmlessStep DEF Harmless, Usable, tokenVars
<1>6. CASE RevokeBestEffort(r)
  <2>1. \A q \in Requests : Rotating(q)' => Rotating(q)
    BY <1>6 DEF RevokeBestEffort, Goto, Rotating, RefreshTypeOK
  <2>2. CASE RevokeFamily
    BY <2>1, <2>2, RevokeStep
  <2>3. CASE UNCHANGED <<tokenVars, closed>>
    BY <2>1, <2>3, HarmlessStep DEF Harmless, Usable, tokenVars
  <2> QED
    BY <1>6, <2>2, <2>3 DEF RevokeBestEffort
<1>7. CASE FindForLogout(r)
  <2>1. Leaves(r)
    BY <1>7 DEF FindForLogout, Leaves, Stages, Replies
  <2>2. UNCHANGED <<tokenVars, closed>>
    BY <1>7 DEF FindForLogout, Fault, tokenVars, historyVars
  <2> QED
    BY <2>1, <2>2, LeavesStep, HarmlessStep DEF Harmless, Usable, tokenVars
<1>8. CASE LogoutRevoke(r)
  <2>1. \A q \in Requests : Rotating(q)' => Rotating(q)
    <3>1. Leaves(r)
      BY <1>8 DEF LogoutRevoke, Leaves, Replies
    <3> QED
      BY <3>1, LeavesStep
  <2>2. CASE RevokeFamily
    BY <2>1, <2>2, RevokeStep
  <2>3. CASE UNCHANGED <<tokenVars, closed>>
    BY <2>1, <2>3, HarmlessStep DEF Harmless, Usable, tokenVars
  <2> QED
    BY <1>8, <2>2, <2>3 DEF LogoutRevoke
<1> QED
  BY <1>1, <1>2, <1>3, <1>4, <1>5, <1>6, <1>7, <1>8 DEF HandlerStep

\* Every step of the system keeps it.
LEMMA RotationStep ==
    ASSUME RotationInv, [RefreshNext]_refreshVars
    PROVE  (OneUsable /\ RotationHoldsPlace /\ ClosedForGood)'
<1> USE DEF RotationInv
<1>1. ASSUME NEW r \in Requests, NEW kind \in {"refresh", "logout"}, Send(r, kind)
      PROVE Harmless
  BY <1>1 DEF Send, Harmless, Usable, Rotating, RefreshTypeOK, tokenVars, historyVars
<1>2. ASSUME NEW r \in Requests, Receive(r) \/ LoseReply(r) PROVE Harmless
  <2>1. Leaves(r)
    BY <1>2 DEF Receive, LoseReply, Leaves, Stages
  <2> QED
    BY <1>2, <2>1, LeavesStep DEF Receive, LoseReply, Fault, Harmless, Usable, tokenVars
<1>3. ASSUME NEW t \in Tokens, GraceEnds(t) \/ ExpireToken(t) \/ RemoveExpired(t)
      PROVE Harmless
  BY <1>3 DEF GraceEnds, ExpireToken, RemoveExpired, Because, Harmless, Usable, Rotating,
              historyVars
<1>4. ASSUME AdminRevoke PROVE (OneUsable /\ RotationHoldsPlace /\ ClosedForGood)'
  <2>1. \A q \in Requests : Rotating(q)' => Rotating(q)
    BY <1>4 DEF AdminRevoke, Rotating
  <2> QED
    BY <1>4, <2>1, RevokeStep DEF AdminRevoke
<1>5. ASSUME UNCHANGED refreshVars PROVE Harmless
  BY <1>5 DEF refreshVars, Harmless, Usable, Rotating, tokenVars, historyVars
<1> QED
  BY <1>1, <1>2, <1>3, <1>4, <1>5, HarmlessStep, HandlerStepPreserves DEF RefreshNext

\* Right after a login nothing is rotating and one token is usable.
LEMMA RotationInitial == ASSUME RefreshInit PROVE RotationInv
<1>1. RefreshTypeOK
  <2>1. req \in [Requests -> Exchange]
    BY DEF RefreshInit, Exchange, Stages, Replies
  <2>2. stored \subseteq Tokens /\ cookie \in Tokens
    BY DEF RefreshInit, Tokens
  <2>3. faults \in 0..MaxFaults
    BY RefreshFaultAssumption DEF RefreshInit
  <2> QED
    BY <2>1, <2>2, <2>3 DEF RefreshInit, RefreshTypeOK
<1>2. OneUsable
  BY DEF RefreshInit, OneUsable, Usable
<1>3. \A r \in Requests : ~Rotating(r)
  BY DEF RefreshInit, Rotating
<1> QED
  BY <1>1, <1>2, <1>3 DEF RefreshInit, RotationInv, RotationHoldsPlace, ClosedForGood

\* The inductive invariant holds in every reachable state.
THEOREM RotationInvariant == RefreshSpec => []RotationInv
<1>1. RotationInv /\ [RefreshNext]_refreshVars => RotationInv'
  BY TypeStep, RotationStep DEF RotationInv
<1>2. RefreshInit => RotationInv
  BY RotationInitial
<1> QED
  BY <1>1, <1>2, PTL DEF RefreshSpec

\* A family never has two usable tokens, whatever requests run at once.
THEOREM RotationHasOneWinner == RefreshSpec => []OneLiveToken
<1>1. RotationInv => OneLiveToken
  BY DEF RotationInv, OneUsable, Usable, OneLiveToken, Live
<1> QED
  BY <1>1, RotationInvariant, PTL

\* No token of a family revoked outside a rotation is ever usable again.
THEOREM RevokedForGood == RefreshSpec => []RevocationIsFinal
<1>1. RotationInv => RevocationIsFinal
  BY DEF RotationInv, ClosedForGood, Usable, RevocationIsFinal, Live
<1> QED
  BY <1>1, RotationInvariant, PTL

\* The invariant contains what RotationSound promises.
LEMMA RotationImplies == RotationInv => RotationSound
BY DEF RotationInv, OneUsable, ClosedForGood, Usable, RotationSound, OneLiveToken,
       RevocationIsFinal, Live

\* The rotation protocol as a whole, for any number of requests and faults.
THEOREM RotationIsSound == RefreshSpec => []RotationSound
BY RotationImplies, RotationInvariant, PTL

-----------------------------------------------------------------------------
(***************************************************************************)
(* TabsKeepSession.  While nothing has happened that may end the session,  *)
(* every request is a refresh of a token that has a document, and nothing  *)
(* is revoked.  The usable token is then the cookie, or it is in a         *)
(* response that is still to come and that no other tab can have used, or  *)
(* a rotation is about to store it.                                        *)
(***************************************************************************)
Quiet == causes = {} /\ \A r \in Requests : req[r].kind = "refresh"

\* The replacement of r is stored and its response has not arrived.
Undelivered(r) ==
    \/ req[r].stage = "sign"
    \/ req[r].stage = "reply" /\ req[r].reply = "ROTATED"

QuietTokens ==
    /\ revoked = {} /\ expired = {}
    /\ used \subseteq stored
    /\ cookie \in stored

QuietRequest(r) ==
    /\ req[r].stage # "revoke"
    /\ \/ req[r].sent \in stored
       \/ req[r].stage = "idle" /\ req[r].sent = NoToken
    /\ req[r].stage \in {"reply", "done"} => req[r].reply \in {"ROTATED", "CONCURRENT"}
    /\ r \in stored => Undelivered(r) \/ req[r].stage = "done"
    /\ Undelivered(r) => /\ r \in stored \ used
                         /\ cookie # r
                         /\ \A q \in Requests : req[q].sent # r

SessionGoesOn ==
    \/ \E r \in Requests : Rotating(r)
    \/ cookie \in stored \ used
    \/ \E r \in Requests : Undelivered(r)

\* A logout is known by its kind, and has its cause once it is done.
KindsInv ==
    \A r \in Requests :
        /\ req[r].stage = "idle" => req[r].kind = "refresh"
        /\ req[r].kind = "logout" /\ req[r].stage = "done" => causes # {}

QuietSession == QuietTokens /\ (\A r \in Requests : QuietRequest(r)) /\ SessionGoesOn

TabsInv == KindsInv /\ (Quiet => QuietSession)

\* A handler's move in the terms of the record it leaves behind.
Moves(r, stage, code) ==
    /\ req'[r] = [stage |-> stage, kind |-> req[r].kind, sent |-> req[r].sent, reply |-> code]
    /\ \A q \in Requests : q # r => req'[q] = req[q]

\* What the three ways to move do to the records.
LEMMA MoveRecords ==
    ASSUME RefreshTypeOK, NEW r \in Requests, NEW stage, NEW code
    PROVE  /\ Goto(r, stage) => Moves(r, stage, req[r].reply)
           /\ Reply(r, code) => Moves(r, "reply", code)
           /\ RevokeThen(r, code) => Moves(r, "revoke", code)
<1>1. req \in [Requests -> [stage : Stages, kind : {"refresh", "logout"},
                            sent : Tokens \cup {NoToken}, reply : Replies]]
  BY DEF RefreshTypeOK, Exchange
<1>2. req[r] = [stage |-> req[r].stage, kind |-> req[r].kind, sent |-> req[r].sent,
                reply |-> req[r].reply]
  BY <1>1
<1>3. ASSUME Goto(r, stage) PROVE Moves(r, stage, req[r].reply)
  BY <1>1, <1>2, <1>3 DEF Goto, Moves
<1>4. ASSUME Reply(r, code) PROVE Moves(r, "reply", code)
  BY <1>1, <1>2, <1>4 DEF Reply, Moves
<1>5. ASSUME RevokeThen(r, code) PROVE Moves(r, "revoke", code)
  BY <1>1, <1>2, <1>5 DEF RevokeThen, Moves
<1> QED
  BY <1>3, <1>4, <1>5

\* A move that changes no token keeps a quiet session, provided the response
\* it prepares is that of a rotation or of a concurrent loser and a rotation
\* goes on to its signature.
LEMMA QuietMove ==
    ASSUME RefreshTypeOK, QuietSession, NEW r \in Requests, NEW stage, NEW code,
           Moves(r, stage, code), UNCHANGED <<tokenVars, cookie>>,
           \/ /\ req[r].stage \in {"find", "claim"}
              /\ stage = "claim" \/ (stage = "reply" /\ code = "CONCURRENT")
           \/ req[r].stage = "load" /\ stage = "persist"
           \/ req[r].stage = "sign" /\ stage = "reply" /\ code = "ROTATED"
    PROVE  QuietSession'
<1> USE DEF QuietSession
<1>1. UNCHANGED <<stored, used, inGrace, revoked, expired, cookie>>
  BY DEF tokenVars
<1>2. QuietTokens'
  BY <1>1 DEF QuietTokens
<1>3. /\ req'[r].stage = stage /\ req'[r].reply = code /\ req'[r].sent = req[r].sent
      /\ \A q \in Requests : q # r => req'[q] = req[q]
  BY DEF Moves
<1>4. \A q \in Requests : req'[q].sent = req[q].sent
  BY <1>3
<1>5. ASSUME NEW q \in Requests PROVE Undelivered(q)' <=> Undelivered(q)
  BY <1>3 DEF Undelivered
<1>6. ASSUME NEW q \in Requests PROVE QuietRequest(q)'
  <2>1. QuietRequest(q)
    OBVIOUS
  <2> QED
    BY <1>1, <1>3, <1>4, <1>5, <2>1 DEF QuietRequest, Undelivered
<1>7. SessionGoesOn'
  BY <1>1, <1>3, <1>5 DEF SessionGoesOn, Rotating
<1> QED
  BY <1>2, <1>6, <1>7

\* A tab sends the cookie, which no undelivered response has replaced yet.
LEMMA QuietSend ==
    ASSUME RefreshTypeOK, QuietSession, NEW r \in Requests, Send(r, "refresh")
    PROVE  QuietSession'
<1> USE DEF QuietSession
<1>1. cookie # NoToken
  BY TokenAssumption DEF QuietTokens, RefreshTypeOK, Tokens
<1>2. /\ req'[r] = [stage |-> "find", kind |-> "refresh", sent |-> cookie, reply |-> "NONE"]
      /\ \A q \in Requests : q # r => req'[q] = req[q]
      /\ req[r].stage = "idle"
  BY <1>1 DEF Send, RefreshTypeOK
<1>3. UNCHANGED <<stored, used, inGrace, revoked, expired, cookie>>
  BY DEF Send, tokenVars
<1>4. ASSUME NEW q \in Requests PROVE Undelivered(q)' <=> Undelivered(q)
  BY <1>2 DEF Undelivered
<1>5. ASSUME NEW q \in Requests PROVE QuietRequest(q)'
  <2>1. QuietRequest(q) /\ cookie \in stored
    BY DEF QuietTokens
  <2> QED
    BY <1>2, <1>3, <1>4, <2>1 DEF QuietRequest, Undelivered
<1>6. SessionGoesOn'
  BY <1>2, <1>3, <1>4 DEF SessionGoesOn, Rotating
<1> QED
  BY <1>3, <1>5, <1>6 DEF QuietTokens

\* A claim takes a token that no undelivered response holds, and its rotation
\* carries the session from then on.
LEMMA QuietClaim ==
    ASSUME RefreshTypeOK, QuietSession, NEW r \in Requests,
           MarkUsed(req[r].sent), Goto(r, "load"), At(r, "refresh", "claim"),
           UNCHANGED <<stored, revoked, expired, cookie>>
    PROVE  QuietSession'
<1> USE DEF QuietSession
<1>1. /\ req'[r].stage = "load" /\ req'[r].sent = req[r].sent
      /\ \A q \in Requests : q # r => req'[q] = req[q]
  <2>1. Moves(r, "load", req[r].reply)
    BY MoveRecords
  <2> QED
    BY <2>1 DEF Moves
<1>2. req[r].stage = "claim" /\ QuietRequest(r)
  BY DEF At
<1>3. req[r].sent \in stored /\ r \notin stored
  BY <1>2 DEF QuietRequest, Undelivered
<1>4. used' = used \cup {req[r].sent}
  BY DEF MarkUsed
<1>5. ASSUME NEW q \in Requests PROVE Undelivered(q)' <=> Undelivered(q)
  BY <1>1, <1>2 DEF Undelivered
<1>6. \A q \in Requests : req'[q].sent = req[q].sent
  BY <1>1
<1>7. ASSUME NEW q \in Requests PROVE QuietRequest(q)'
  <2>1. QuietRequest(q)
    OBVIOUS
  <2> QED
    BY <1>1, <1>2, <1>3, <1>4, <1>5, <1>6, <2>1 DEF QuietRequest, Undelivered
<1>8. SessionGoesOn'
  BY <1>1 DEF SessionGoesOn, Rotating
<1> QED
  BY <1>3, <1>4, <1>7, <1>8 DEF QuietTokens

\* The replacement is new: no tab has sent it and it is not the cookie.
LEMMA QuietPersist ==
    ASSUME RefreshTypeOK, QuietSession, NEW r \in Requests, At(r, "refresh", "persist"),
           stored' = stored \cup {r}, Goto(r, "sign"),
           UNCHANGED <<used, inGrace, revoked, expired, cookie>>
    PROVE  QuietSession'
<1> USE DEF QuietSession
<1>1. /\ req'[r].stage = "sign" /\ req'[r].sent = req[r].sent
      /\ \A q \in Requests : q # r => req'[q] = req[q]
  <2>1. Moves(r, "sign", req[r].reply)
    BY MoveRecords
  <2> QED
    BY <2>1 DEF Moves
<1>2. req[r].stage = "persist" /\ QuietRequest(r)
  BY DEF At
<1>3. r \notin stored /\ r \notin used /\ cookie # r
  BY <1>2 DEF QuietRequest, QuietTokens, Undelivered
<1>4. \A q \in Requests : req[q].sent # r
  <2> SUFFICES ASSUME NEW q \in Requests, req[q].sent = r PROVE FALSE
    OBVIOUS
  <2>1. QuietRequest(q) /\ r # NoToken
    BY TokenAssumption
  <2> QED
    BY <1>3, <2>1 DEF QuietRequest
<1>5. \A q \in Requests : req'[q].sent = req[q].sent
  BY <1>1
<1>6. ASSUME NEW q \in Requests PROVE QuietRequest(q)'
  <2>1. QuietRequest(q)
    OBVIOUS
  <2> QED
    BY <1>1, <1>2, <1>3, <1>4, <1>5, <2>1 DEF QuietRequest, Undelivered
<1>7. SessionGoesOn'
  BY <1>1 DEF SessionGoesOn, Undelivered
<1> QED
  BY <1>6, <1>7 DEF QuietTokens

\* A rotated response brings the usable token, the loser's changes nothing.
LEMMA QuietReceive ==
    ASSUME RefreshTypeOK, QuietSession, NEW r \in Requests, Receive(r),
           req[r].kind = "refresh"
    PROVE  QuietSession'
<1> USE DEF QuietSession
<1>1. /\ req'[r].stage = "done" /\ req'[r].sent = req[r].sent /\ req'[r].reply = req[r].reply
      /\ \A q \in Requests : q # r => req'[q] = req[q]
  <2>1. Moves(r, "done", req[r].reply)
    BY MoveRecords DEF Receive
  <2> QED
    BY <2>1 DEF Moves
<1>2. req[r].stage = "reply" /\ QuietRequest(r)
  BY DEF Receive
<1>3. req[r].reply \in {"ROTATED", "CONCURRENT"}
  BY <1>2 DEF QuietRequest
<1>4. UNCHANGED <<stored, used, inGrace, revoked, expired>>
  BY DEF Receive, tokenVars
<1>5. cookie' = IF req[r].reply = "ROTATED" THEN r ELSE cookie
  BY <1>3 DEF Receive, CookieAfter
<1>6. Undelivered(r) <=> req[r].reply = "ROTATED"
  BY <1>2 DEF Undelivered
<1>7. \A q \in Requests : req'[q].sent = req[q].sent
  BY <1>1
<1>8. cookie' \in stored
  BY <1>2, <1>5, <1>6 DEF QuietRequest, QuietTokens
<1>9. ASSUME NEW q \in Requests PROVE QuietRequest(q)'
  <2>1. QuietRequest(q)
    OBVIOUS
  <2> QED
    BY <1>1, <1>2, <1>3, <1>4, <1>5, <1>6, <1>7, <2>1 DEF QuietRequest, Undelivered
<1>10. SessionGoesOn'
  <2>1. CASE req[r].reply = "ROTATED"
    BY <1>2, <1>4, <1>5, <1>6, <2>1 DEF QuietRequest, SessionGoesOn
  <2>2. CASE req[r].reply = "CONCURRENT"
    <3>1. ASSUME NEW q \in Requests, Undelivered(q) PROVE Undelivered(q)'
      BY <1>1, <1>6, <2>2, <3>1 DEF Undelivered
    <3>2. ASSUME NEW q \in Requests, Rotating(q) PROVE Rotating(q)'
      BY <1>1, <1>2, <3>2 DEF Rotating
    <3>3. cookie' = cookie
      BY <1>5, <2>2
    <3> QED
      BY <1>4, <3>1, <3>2, <3>3 DEF SessionGoesOn
  <2> QED
    BY <1>3, <2>1, <2>2
<1> QED
  BY <1>4, <1>8, <1>9, <1>10 DEF QuietTokens

\* Every step of a handler that gives no cause keeps a quiet session.
LEMMA QuietHandler ==
    ASSUME RefreshTypeOK, QuietSession, Quiet, NEW r \in Requests, HandlerStep(r),
           causes' = {}
    PROVE  QuietSession'
<1> USE DEF QuietSession
<1>1. QuietRequest(r) /\ req[r].kind = "refresh" /\ ~Failure
  BY DEF Quiet, Failure
<1>2. ~Fault /\ \A cause : ~Because(cause)
  BY <1>1 DEF Fault, Because
<1>3. CASE Find(r)
  <2>1. \/ Reply(r, "CONCURRENT") \/ Goto(r, "claim")
    <3>1. req[r].sent \in stored /\ revoked = {} /\ expired = {}
      BY <1>1, <1>3 DEF Find, At, QuietRequest, QuietTokens
    <3> QED
      BY <1>2, <1>3, <3>1 DEF Find
  <2> QED
    BY <1>3, <2>1, MoveRecords, QuietMove DEF Find, At
<1>4. CASE Claim(r)
  <2>1. CASE Reply(r, "CONCURRENT") /\ UNCHANGED <<used, inGrace>>
    <3>1. Moves(r, "reply", "CONCURRENT") /\ UNCHANGED <<tokenVars, cookie>>
      BY <1>4, <2>1, MoveRecords DEF Claim, tokenVars
    <3> QED
      BY <1>4, <3>1, QuietMove DEF Claim, At
  <2>2. CASE MarkUsed(req[r].sent) /\ Goto(r, "load")
    BY <1>4, <2>2, QuietClaim DEF Claim
  <2> QED
    BY <1>2, <1>4, <2>1, <2>2 DEF Claim
<1>5. CASE Load(r)
  <2>1. Goto(r, "persist")
    BY <1>2, <1>5 DEF Load
  <2> QED
    BY <1>5, <2>1, MoveRecords, QuietMove DEF Load, At
<1>6. CASE Persist(r)
  BY <1>2, <1>6, QuietPersist DEF Persist
<1>7. CASE Sign(r)
  <2>1. Reply(r, "ROTATED")
    BY <1>2, <1>7 DEF Sign
  <2> QED
    BY <1>7, <2>1, MoveRecords, QuietMove DEF Sign, At
<1>8. CASE RevokeBestEffort(r)
  BY <1>1, <1>8 DEF RevokeBestEffort, At, QuietRequest
<1>9. CASE FindForLogout(r)
  BY <1>1, <1>9 DEF FindForLogout, At
<1>10. CASE LogoutRevoke(r)
  BY <1>1, <1>10 DEF LogoutRevoke, At
<1> QED
  BY <1>3, <1>4, <1>5, <1>6, <1>7, <1>8, <1>9, <1>10 DEF HandlerStep

\* What has not happened now had not happened before, and a logout keeps its
\* kind to the end.
LEMMA KindsStep ==
    ASSUME RefreshTypeOK, KindsInv, [RefreshNext]_refreshVars
    PROVE  KindsInv' /\ (Quiet' => Quiet)
<1>1. ASSUME NEW r \in Requests, NEW kind \in {"refresh", "logout"}, Send(r, kind)
      PROVE KindsInv' /\ (Quiet' => Quiet)
  <2>1. /\ req'[r].kind = kind /\ req'[r].stage \in {"find", "reply"}
        /\ \A q \in Requests : q # r => req'[q] = req[q]
        /\ req[r].stage = "idle" /\ causes' = causes
    BY <1>1 DEF Send, RefreshTypeOK, historyVars
  <2> QED
    BY <2>1 DEF KindsInv, Quiet
<1>2. ASSUME NEW r \in Requests, NEW stage, NEW code, Moves(r, stage, code),
             stage # "idle", causes \subseteq causes',
             req[r].kind = "logout" /\ stage = "done" => causes' # {}
      PROVE KindsInv' /\ (Quiet' => Quiet)
  <2>1. /\ req'[r].kind = req[r].kind /\ req'[r].stage = stage
        /\ \A q \in Requests : q # r => req'[q] = req[q]
    BY <1>2 DEF Moves
  <2> QED
    BY <1>2, <2>1 DEF KindsInv, Quiet
<1>3. ASSUME NEW r \in Requests, HandlerStep(r) PROVE KindsInv' /\ (Quiet' => Quiet)
  <2>1. \E stage \in {"claim", "load", "persist", "sign", "revoke", "reply"},
           code \in Replies \cup {req[r].reply} : Moves(r, stage, code)
    <3>1. \E stage \in {"claim", "load", "persist", "sign", "reply"}, code \in Replies :
              Goto(r, stage) \/ Reply(r, code) \/ RevokeThen(r, code) \/ Goto(r, "revoke")
      BY <1>3 DEF HandlerStep, Find, Claim, Load, Persist, Sign, RevokeBestEffort,
                  FindForLogout, LogoutRevoke, Replies
    <3> QED
      BY <3>1, MoveRecords
  <2>2. causes \subseteq causes'
    BY <1>3 DEF HandlerStep, Find, Claim, Load, Persist, Sign, RevokeBestEffort,
                FindForLogout, LogoutRevoke, Because, Fault, Failure, historyVars
  <2> QED
    BY <1>2, <2>1, <2>2
<1>4. ASSUME NEW r \in Requests, Receive(r) \/ LoseReply(r) PROVE KindsInv' /\ (Quiet' => Quiet)
  <2>1. Moves(r, "done", req[r].reply)
    BY <1>4, MoveRecords DEF Receive, LoseReply
  <2>2. causes \subseteq causes' /\ (req[r].kind = "logout" => causes' # {})
    BY <1>4 DEF Receive, LoseReply, Fault, Failure
  <2> QED
    BY <1>2, <2>1, <2>2
<1>5. ASSUME UNCHANGED req, causes \subseteq causes' PROVE KindsInv' /\ (Quiet' => Quiet)
  BY <1>5 DEF KindsInv, Quiet
<1>6. ASSUME NEW t \in Tokens, GraceEnds(t) \/ ExpireToken(t) \/ RemoveExpired(t)
      PROVE KindsInv' /\ (Quiet' => Quiet)
  BY <1>5, <1>6 DEF GraceEnds, ExpireToken, RemoveExpired, Because, historyVars
<1>7. ASSUME AdminRevoke PROVE KindsInv' /\ (Quiet' => Quiet)
  BY <1>5, <1>7 DEF AdminRevoke
<1>8. ASSUME UNCHANGED refreshVars PROVE KindsInv' /\ (Quiet' => Quiet)
  BY <1>5, <1>8 DEF refreshVars, historyVars
<1> QED
  BY <1>1, <1>3, <1>4, <1>6, <1>7, <1>8 DEF RefreshNext

\* Every step keeps a quiet session as long as nothing ends it.
LEMMA QuietStep ==
    ASSUME RefreshTypeOK, QuietSession, Quiet, [RefreshNext]_refreshVars, Quiet'
    PROVE  QuietSession'
<1> USE DEF QuietSession
<1>1. causes' = {} /\ \A r \in Requests : req[r].kind = "refresh" /\ req'[r].kind = "refresh"
  BY DEF Quiet
<1>2. ASSUME NEW r \in Requests, NEW kind \in {"refresh", "logout"}, Send(r, kind)
      PROVE QuietSession'
  <2>1. req'[r].kind = kind
    BY <1>2 DEF Send, RefreshTypeOK
  <2> QED
    BY <1>1, <1>2, <2>1, QuietSend
<1>3. ASSUME NEW r \in Requests, HandlerStep(r) PROVE QuietSession'
  BY <1>1, <1>3, QuietHandler
<1>4. ASSUME NEW r \in Requests, Receive(r) PROVE QuietSession'
  BY <1>1, <1>4, QuietReceive
<1>5. ASSUME NEW r \in Requests, LoseReply(r) PROVE QuietSession'
  BY <1>1, <1>5 DEF LoseReply, Fault, Failure
<1>6. ASSUME UNCHANGED <<stored, used, revoked, expired, req, cookie>> PROVE QuietSession'
  BY <1>6 DEF QuietTokens, QuietRequest, SessionGoesOn, Undelivered, Rotating
<1>7. ASSUME NEW t \in Tokens, GraceEnds(t) PROVE QuietSession'
  BY <1>6, <1>7 DEF GraceEnds
<1>8. ASSUME NEW t \in Tokens, ExpireToken(t) PROVE QuietSession'
  BY <1>1, <1>8 DEF ExpireToken, Because
<1>9. ASSUME NEW t \in Tokens, RemoveExpired(t) PROVE QuietSession'
  BY <1>9 DEF RemoveExpired, QuietTokens
<1>10. ASSUME AdminRevoke PROVE QuietSession'
  BY <1>1, <1>10 DEF AdminRevoke
<1>11. ASSUME UNCHANGED refreshVars PROVE QuietSession'
  BY <1>6, <1>11 DEF refreshVars, tokenVars
<1> QED
  BY <1>2, <1>3, <1>4, <1>5, <1>7, <1>8, <1>9, <1>10, <1>11 DEF RefreshNext

\* Right after a login the cookie is the usable token.
LEMMA TabsInitial == ASSUME RefreshInit PROVE TabsInv
<1>1. \A r \in Requests : req[r] = [stage |-> "idle", kind |-> "refresh",
                                    sent |-> NoToken, reply |-> "NONE"]
  BY DEF RefreshInit
<1>2. KindsInv /\ \A r \in Requests : QuietRequest(r)
  BY <1>1, TokenAssumption DEF RefreshInit, KindsInv, QuietRequest, Undelivered
<1>3. QuietTokens /\ SessionGoesOn
  BY DEF RefreshInit, QuietTokens, SessionGoesOn
<1> QED
  BY <1>2, <1>3 DEF TabsInv, QuietSession

\* The invariant behind TabsKeepSession holds in every reachable state.
THEOREM TabsInvariant == RefreshSpec => []TabsInv
<1>1. RefreshInit => TabsInv
  BY TabsInitial
<1>2. RotationInv /\ TabsInv /\ [RefreshNext]_refreshVars => TabsInv'
  BY KindsStep, QuietStep DEF TabsInv, RotationInv
<1> QED
  BY <1>1, <1>2, RotationInvariant, PTL DEF RefreshSpec

\* With every answer in, the usable token is nowhere but in the cookie.
LEMMA TabsImply ==
    ASSUME TabsInv, RotationInv
    PROVE  TabsKeepSession
<1> SUFFICES ASSUME causes = {}, \A r \in Requests : req[r].stage \in {"idle", "done"}
             PROVE  cookie \in Live
  BY DEF TabsKeepSession
<1>1. \A r \in Requests : req[r].stage \in {"idle", "done"} /\ ~Rotating(r) /\ ~Undelivered(r)
  BY DEF Rotating, Undelivered
<1>2. SessionGoesOn /\ QuietTokens
  <2>1. KindsInv
    BY DEF TabsInv
  <2>2. \A r \in Requests : req[r].kind # "logout"
    BY <1>1, <2>1 DEF KindsInv
  <2>3. \A r \in Requests : req[r].kind \in {"refresh", "logout"}
    BY DEF RotationInv, RefreshTypeOK, Exchange
  <2> QED
    BY <2>2, <2>3 DEF TabsInv, Quiet, QuietSession
<1> QED
  BY <1>1, <1>2 DEF SessionGoesOn, QuietTokens, Live

\* Any number of tabs that refresh at once leave the browser with the usable
\* token, unless one of the causes the model records ended the session.
THEOREM TabsKeepTheirSession == RefreshSpec => []TabsKeepSession
<1>1. TabsInv /\ RotationInv => TabsKeepSession
  BY TabsImply
<1> QED
  BY <1>1, TabsInvariant, RotationInvariant, PTL


-----------------------------------------------------------------------------
(***************************************************************************)
(* The status of the tabs.  The same invariants hold when tabs start the   *)
(* requests and read their answers.  As long as nothing but failures has   *)
(* happened, the cookie has a document, so no request of a tab finds an    *)
(* invalid token: what remains for a sign-out is a lost race or a logout.  *)
(***************************************************************************)
ClientTypeOK ==
    /\ auth \in [Tabs -> Statuses]
    /\ call \in [Requests -> [tab : Tabs \cup {"none"}, seen : Statuses,
                              stage : {"none", "sent", "me", "over"}]]

\* Whatever ended the session: a demo has its cause before a tab shows it, and
\* a request that has not been sent is no reason for anything.
ClientKinds ==
    /\ \A t \in Tabs : auth[t] = "demo" => "demo" \in causes
    /\ \A r \in Requests :
        /\ call[r].seen = "demo" => "demo" \in causes
        /\ req[r].stage = "idle" => req[r].reply = "NONE"
        /\ req[r].reply = "CONCURRENT" => req[r].stage \in {"reply", "done"}

Intact == causes \subseteq {"fault"} /\ revoked = {}

IntactTokens == expired = {} /\ cookie \in stored

IntactRequest(r) ==
    /\ req[r].stage # "idle" => req[r].sent \in stored
    /\ req[r].kind = "refresh" =>
          /\ req[r].reply \notin {"INVALID_REFRESH_TOKEN", "ANONYMOUS"}
          /\ req[r].stage = "revoke" => req[r].reply # "ROTATED"
          /\ Undelivered(r) => r \in stored

IntactSession == IntactTokens /\ \A r \in Requests : IntactRequest(r)

ClientInv ==
    /\ RotationInv /\ TabsInv
    /\ ClientTypeOK /\ ClientKinds
    /\ Intact => IntactSession
    /\ OutageIsNotSignOut

\* A step of a tab that is no step of the token protocol: it leaves tokens and
\* requests alone and gives a cause.
Aside ==
    /\ UNCHANGED <<tokenVars, req, closed>>
    /\ cookie' \in {cookie, NoToken}
    /\ causes \subseteq causes' /\ causes' \subseteq Causes /\ causes' # {}
    /\ faults' \in 0..MaxFaults
    /\ causes' \subseteq {"fault"} => cookie' = cookie

\* To the token protocol a tab's step is a step, a stutter or an aside.
LEMMA ClientMoves ==
    ASSUME RefreshTypeOK, ClientNext
    PROVE  [RefreshNext]_refreshVars \/ Aside
<1>0. RestTypeOK
  BY DEF RefreshTypeOK, RestTypeOK
<1>1. ASSUME NEW t \in Tabs, NEW r \in Requests, BootstrapSession(t, r) \/ Logout(t, r)
      PROVE RefreshNext
  BY <1>1 DEF BootstrapSession, Logout, RefreshNext
<1>2. ASSUME NEW r \in Requests, AnswerRefresh(r) \/ AnswerLogout(r) \/ LoseAnswer(r)
      PROVE RefreshNext
  BY <1>2 DEF AnswerRefresh, AnswerLogout, LoseAnswer, RefreshNext
<1>3. ASSUME NEW r \in Requests, AnswerMe(r) PROVE UNCHANGED refreshVars \/ Aside
  <2>1. UNCHANGED <<tokenVars, req, cookie>>
    BY <1>3 DEF AnswerMe
  <2>2. CASE UNCHANGED historyVars
    BY <2>1, <2>2 DEF refreshVars
  <2>3. CASE Because("inactive")
    BY <1>0, <2>1, <2>3 DEF Because, Aside, RestTypeOK, Causes
  <2>4. CASE Fault
    BY <1>0, <2>1, <2>4, FailureType DEF Fault, Failure, Aside
  <2> QED
    BY <1>3, <2>2, <2>3, <2>4 DEF AnswerMe
<1>4. ASSUME NEW t \in Tabs, StartDemo(t) PROVE Aside
  BY <1>0, <1>4 DEF StartDemo, Because, Aside, RestTypeOK, Causes
<1>5. ASSUME NEW t \in Tabs, ExpirePublicDemo(t) PROVE UNCHANGED refreshVars
  BY <1>5 DEF ExpirePublicDemo
<1>6. ASSUME ServerStep PROVE RefreshNext
  BY <1>6 DEF ServerStep, RefreshNext
<1> QED
  BY <1>1, <1>2, <1>3, <1>4, <1>5, <1>6 DEF ClientNext

\* What holds of the tokens holds whatever the tabs do.
LEMMA ClientTokens ==
    ASSUME RotationInv, TabsInv, [ClientNext]_clientVars
    PROVE  RotationInv' /\ TabsInv'
<1>1. RefreshTypeOK
  BY DEF RotationInv
<1>2. CASE [RefreshNext]_refreshVars
  BY <1>1, <1>2, TypeStep, RotationStep, KindsStep, QuietStep DEF RotationInv, TabsInv
<1>3. CASE Aside
  <2>1. UNCHANGED <<stored, used, inGrace, revoked, expired, req, closed>>
    BY <1>3 DEF Aside, tokenVars
  <2>2. RefreshTypeOK'
    BY <1>1, <1>3, <2>1 DEF Aside, RefreshTypeOK, Tokens
  <2>3. Harmless
    BY <2>1 DEF Harmless, Usable, Rotating
  <2>4. TabsInv'
    BY <1>3, <2>1 DEF Aside, TabsInv, KindsInv, Quiet
  <2> QED
    BY <2>2, <2>3, <2>4, HarmlessStep DEF RotationInv
<1>4. CASE UNCHANGED clientVars
  BY <1>2, <1>4 DEF clientVars
<1> QED
  BY <1>1, <1>2, <1>3, <1>4, ClientMoves

\* A request that is sent remembers its tab and the tab's status.
LEMMA CallSent ==
    ASSUME ClientTypeOK, NEW r \in Requests, NEW t \in Tabs, Calls(t, r), UNCHANGED auth
    PROVE  /\ ClientTypeOK'
           /\ \A q \in Requests : q # r => call'[q] = call[q]
           /\ call'[r].tab = t /\ call'[r].seen = auth[t]
BY DEF ClientTypeOK, Calls

\* An answer settles the status of the tab behind the request.
LEMMA CallEnds ==
    ASSUME ClientTypeOK, NEW r \in Requests, NEW status \in Statuses, Becomes(r, status)
    PROVE  /\ ClientTypeOK'
           /\ \A q \in Requests : call'[q].tab = call[q].tab /\ call'[q].seen = call[q].seen
           /\ \A u \in Tabs : \/ auth'[u] = auth[u]
                              \/ u = call[r].tab /\ auth'[u] = status
BY DEF ClientTypeOK, Becomes

\* A failure brings the tab back to the status it had, or to "unavailable".
LEMMA CapturedStatus ==
    ASSUME ClientTypeOK, ClientKinds, NEW r \in Requests
    PROVE  /\ Captured(r) \in Statuses \ {"anonymous"}
           /\ Captured(r) = "demo" => "demo" \in causes
BY DEF ClientTypeOK, ClientKinds, Captured, SignedIn, Statuses

-----------------------------------------------------------------------------
\* The fields of the requests that the tabs' invariant speaks of, after a move
\* of a handler.
HandlerMove(r) ==
    \E stage \in {"claim", "load", "persist", "sign", "revoke", "reply"},
       code \in Replies :
        /\ Moves(r, stage, code)
        /\ req[r].stage \notin {"idle", "reply", "done"}
        /\ code = req[r].reply \/ stage \in {"revoke", "reply"}
        /\ code = "CONCURRENT" => stage = "reply" \/ code = req[r].reply

\* Every step of a handler is such a move and takes no cause back.
LEMMA HandlerMoves ==
    ASSUME RefreshTypeOK, NEW r \in Requests, HandlerStep(r)
    PROVE  /\ HandlerMove(r)
           /\ causes \subseteq causes'
           /\ revoked \subseteq revoked'
<1>1. \A stage, code : /\ Goto(r, stage) => Moves(r, stage, req[r].reply)
                       /\ Reply(r, code) => Moves(r, "reply", code)
                       /\ RevokeThen(r, code) => Moves(r, "revoke", code)
  BY MoveRecords
<1>2. HandlerMove(r)
  <2>0. /\ req[r].reply \in Replies
        /\ {"INVALID_REFRESH_TOKEN", "AUTH_TEMPORARILY_UNAVAILABLE", "CONCURRENT", "ROTATED",
            "LOGGED_OUT"} \subseteq Replies
    BY DEF RefreshTypeOK, Exchange, Replies
  <2>1. req[r].stage \notin {"idle", "reply", "done"}
    BY DEF HandlerStep, Find, Claim, Load, Persist, Sign, RevokeBestEffort, FindForLogout,
           LogoutRevoke, At
  <2>2. CASE \E stage \in {"claim", "load", "persist", "sign", "revoke", "reply"} : Goto(r, stage)
    BY <1>1, <2>0, <2>1, <2>2 DEF HandlerMove
  <2>3. CASE \E code \in {"INVALID_REFRESH_TOKEN", "AUTH_TEMPORARILY_UNAVAILABLE",
                          "CONCURRENT", "ROTATED", "LOGGED_OUT"} : Reply(r, code)
    BY <1>1, <2>0, <2>1, <2>3 DEF HandlerMove
  <2>4. CASE \E code \in {"INVALID_REFRESH_TOKEN", "AUTH_TEMPORARILY_UNAVAILABLE"} :
                 RevokeThen(r, code)
    BY <1>1, <2>0, <2>1, <2>4 DEF HandlerMove
  <2> QED
    BY <2>2, <2>3, <2>4
       DEF HandlerStep, Find, Claim, Load, Persist, Sign, RevokeBestEffort, FindForLogout,
           LogoutRevoke
<1>3. causes \subseteq causes' /\ revoked \subseteq revoked'
  BY DEF HandlerStep, Find, Claim, Load, Persist, Sign, RevokeBestEffort, FindForLogout,
         LogoutRevoke, Because, Fault, Failure, RevokeFamily, historyVars, tokenVars
<1> QED
  BY <1>2, <1>3

\* A handler's step keeps what ClientKinds and OutageIsNotSignOut say.
LEMMA HandlerKinds ==
    ASSUME ClientInv, NEW r \in Requests, HandlerStep(r), UNCHANGED <<auth, call>>
    PROVE  ClientKinds' /\ OutageIsNotSignOut'
<1> USE DEF ClientInv
<1>1. RefreshTypeOK
  BY DEF RotationInv
<1>2. HandlerMove(r) /\ causes \subseteq causes' /\ revoked \subseteq revoked'
  BY <1>1, HandlerMoves
<1>3. PICK stage \in {"claim", "load", "persist", "sign", "revoke", "reply"}, code \in Replies :
          /\ Moves(r, stage, code)
          /\ req[r].stage \notin {"idle", "reply", "done"}
          /\ code = req[r].reply \/ stage \in {"revoke", "reply"}
          /\ code = "CONCURRENT" => stage = "reply" \/ code = req[r].reply
  BY <1>2 DEF HandlerMove
<1>4. /\ req'[r].stage = stage /\ req'[r].reply = code /\ req'[r].kind = req[r].kind
      /\ \A q \in Requests : q # r => req'[q] = req[q]
  BY <1>3 DEF Moves
<1>5. req[r].reply # "CONCURRENT"
  BY <1>3 DEF ClientKinds
<1>6. ClientKinds'
  BY <1>2, <1>3, <1>4, <1>5 DEF ClientKinds
<1>7. OutageIsNotSignOut'
  <2> SUFFICES ASSUME NEW t \in Tabs, auth[t] = "anonymous",
                      causes \ {"fault"} = {}, revoked = {}
               PROVE  \E q \in Requests : /\ call[q].tab = t
                                          /\ (req[q].reply = "CONCURRENT" \/ req[q].kind = "logout")'
    BY <1>2 DEF OutageIsNotSignOut
  <2>1. PICK q \in Requests : /\ call[q].tab = t
                              /\ req[q].reply = "CONCURRENT" \/ req[q].kind = "logout"
    BY DEF OutageIsNotSignOut
  <2> QED
    BY <1>4, <1>5, <2>1
<1> QED
  BY <1>6, <1>7

-----------------------------------------------------------------------------
\* A move of a handler that keeps an intact session: the cookie stays what it
\* is, no document goes away, and no response ends the session.
LEMMA IntactMove ==
    ASSUME RefreshTypeOK, IntactSession, NEW r \in Requests, NEW stage, NEW code,
           Moves(r, stage, code), stage # "idle", req[r].stage # "idle",
           stored \subseteq stored', UNCHANGED <<expired, cookie>>,
           req[r].kind = "refresh" =>
              /\ code \notin {"INVALID_REFRESH_TOKEN", "ANONYMOUS"}
              /\ stage = "revoke" => code # "ROTATED"
              /\ (stage = "sign" \/ (stage = "reply" /\ code = "ROTATED")) => r \in stored'
    PROVE  IntactSession'
<1>1. /\ req'[r].stage = stage /\ req'[r].reply = code
      /\ req'[r].sent = req[r].sent /\ req'[r].kind = req[r].kind
      /\ \A q \in Requests : q # r => req'[q] = req[q]
  BY DEF Moves
<1>2. ASSUME NEW q \in Requests PROVE IntactRequest(q)'
  <2>1. IntactRequest(q)
    BY DEF IntactSession
  <2>2. CASE q = r
    BY <1>1, <2>1, <2>2 DEF IntactRequest, Undelivered
  <2>3. CASE q # r
    BY <1>1, <2>1, <2>3 DEF IntactRequest, Undelivered
  <2> QED
    BY <2>2, <2>3
<1> QED
  BY <1>2 DEF IntactSession, IntactTokens

\* Every step of a handler that only fails, or does not, keeps it.
LEMMA IntactHandler ==
    ASSUME RefreshTypeOK, Intact, IntactSession, NEW r \in Requests, HandlerStep(r), Intact'
    PROVE  IntactSession'
<1>1. /\ IntactRequest(r) /\ revoked = {} /\ expired = {} /\ cookie \in stored
      /\ causes' \subseteq {"fault"} /\ revoked' = {}
  BY DEF Intact, IntactSession, IntactTokens
<1>2. ~Because("reuse") /\ ~Because("inactive") /\ ~RevokeFamily
  BY <1>1 DEF Because, RevokeFamily
<1>3. \A stage, code : /\ Goto(r, stage) => Moves(r, stage, req[r].reply)
                       /\ Reply(r, code) => Moves(r, "reply", code)
                       /\ RevokeThen(r, code) => Moves(r, "revoke", code)
  BY MoveRecords
<1>4. CASE Find(r)
  <2>1. req[r].stage = "find" /\ req[r].kind = "refresh" /\ req[r].sent \in stored
    BY <1>1, <1>4 DEF Find, At, IntactRequest
  <2>2. \/ Reply(r, "CONCURRENT") \/ Goto(r, "claim") \/ Reply(r, "AUTH_TEMPORARILY_UNAVAILABLE")
    BY <1>1, <1>2, <1>4, <2>1 DEF Find
  <2>3. UNCHANGED <<stored, expired, cookie>>
    BY <1>4 DEF Find, tokenVars
  <2>4. req[r].reply \notin {"INVALID_REFRESH_TOKEN", "ANONYMOUS"}
    BY <1>1, <2>1 DEF IntactRequest
  <2> QED
    BY <1>3, <2>1, <2>2, <2>3, <2>4, IntactMove
<1>5. CASE Claim(r)
  <2>1. req[r].stage = "claim" /\ req[r].kind = "refresh"
    BY <1>5 DEF Claim, At
  <2>2. \/ Reply(r, "CONCURRENT") \/ Goto(r, "load") \/ Reply(r, "AUTH_TEMPORARILY_UNAVAILABLE")
    BY <1>5 DEF Claim
  <2>3. UNCHANGED <<stored, expired, cookie>>
    BY <1>5 DEF Claim
  <2>4. req[r].reply \notin {"INVALID_REFRESH_TOKEN", "ANONYMOUS"}
    BY <1>1, <2>1 DEF IntactRequest
  <2> QED
    BY <1>3, <2>1, <2>2, <2>3, <2>4, IntactMove
<1>6. CASE Load(r)
  <2>1. req[r].stage = "load" /\ req[r].kind = "refresh"
    BY <1>6 DEF Load, At
  <2>2. Goto(r, "persist") \/ RevokeThen(r, "AUTH_TEMPORARILY_UNAVAILABLE")
    BY <1>2, <1>6 DEF Load
  <2>3. UNCHANGED <<stored, expired, cookie>>
    BY <1>6 DEF Load, tokenVars
  <2>4. req[r].reply \notin {"INVALID_REFRESH_TOKEN", "ANONYMOUS"}
    BY <1>1, <2>1 DEF IntactRequest
  <2> QED
    BY <1>3, <2>1, <2>2, <2>3, <2>4, IntactMove
<1>7. CASE Persist(r)
  <2>1. req[r].stage = "persist" /\ req[r].kind = "refresh"
    BY <1>7 DEF Persist, At
  <2>2. \/ Goto(r, "sign") /\ r \in stored'
        \/ RevokeThen(r, "AUTH_TEMPORARILY_UNAVAILABLE")
    BY <1>7 DEF Persist
  <2>3. stored \subseteq stored' /\ UNCHANGED <<expired, cookie>>
    BY <1>7 DEF Persist
  <2>4. req[r].reply \notin {"INVALID_REFRESH_TOKEN", "ANONYMOUS"}
    BY <1>1, <2>1 DEF IntactRequest
  <2>5. CASE Goto(r, "sign") /\ r \in stored'
    BY <1>3, <2>1, <2>3, <2>4, <2>5, IntactMove
  <2>6. CASE RevokeThen(r, "AUTH_TEMPORARILY_UNAVAILABLE")
    BY <1>3, <2>1, <2>3, <2>6, IntactMove
  <2> QED
    BY <2>2, <2>5, <2>6
<1>8. CASE Sign(r)
  <2>1. req[r].stage = "sign" /\ req[r].kind = "refresh" /\ r \in stored
    BY <1>1, <1>8 DEF Sign, At, IntactRequest, Undelivered
  <2>2. Reply(r, "ROTATED") \/ RevokeThen(r, "AUTH_TEMPORARILY_UNAVAILABLE")
    BY <1>8 DEF Sign
  <2>3. UNCHANGED <<stored, expired, cookie>>
    BY <1>8 DEF Sign, tokenVars
  <2> QED
    BY <1>3, <2>1, <2>2, <2>3, IntactMove
<1>9. CASE RevokeBestEffort(r)
  <2>1. req[r].stage = "revoke" /\ req[r].kind = "refresh" /\ Goto(r, "reply")
    BY <1>9 DEF RevokeBestEffort, At
  <2>2. UNCHANGED <<stored, expired, cookie>>
    BY <1>2, <1>9 DEF RevokeBestEffort, tokenVars
  <2>3. req[r].reply \notin {"INVALID_REFRESH_TOKEN", "ANONYMOUS", "ROTATED"}
    BY <1>1, <2>1 DEF IntactRequest
  <2> QED
    BY <1>3, <2>1, <2>2, <2>3, IntactMove
<1>10. CASE FindForLogout(r)
  <2>1. req[r].stage = "find" /\ req[r].kind = "logout"
    BY <1>10 DEF FindForLogout, At
  <2>2. \/ Reply(r, "LOGGED_OUT") \/ Goto(r, "revoke") \/ Reply(r, "AUTH_TEMPORARILY_UNAVAILABLE")
    BY <1>10 DEF FindForLogout
  <2>3. UNCHANGED <<stored, expired, cookie>>
    BY <1>10 DEF FindForLogout, tokenVars
  <2> QED
    BY <1>3, <2>1, <2>2, <2>3, IntactMove
<1>11. CASE LogoutRevoke(r)
  <2>1. req[r].stage = "revoke" /\ req[r].kind = "logout"
    BY <1>11 DEF LogoutRevoke, At
  <2>2. Reply(r, "AUTH_TEMPORARILY_UNAVAILABLE") /\ UNCHANGED <<stored, expired, cookie>>
    BY <1>2, <1>11 DEF LogoutRevoke, tokenVars
  <2> QED
    BY <1>3, <2>1, <2>2, IntactMove
<1> QED
  BY <1>4, <1>5, <1>6, <1>7, <1>8, <1>9, <1>10, <1>11 DEF HandlerStep

\* A failure, or a step that is no handler's, does not hurt the cookie either.
LEMMA IntactStep ==
    ASSUME RefreshTypeOK, KindsInv, ClientKinds, ClientTypeOK, IntactSession, Intact, ClientNext,
           Intact'
    PROVE  IntactSession'
<1>1. causes' \subseteq {"fault"} /\ revoked' = {} /\ cookie \in stored /\ expired = {}
  BY DEF Intact, IntactSession, IntactTokens
<1>2. cookie # NoToken
  BY <1>1, TokenAssumption DEF RefreshTypeOK, Tokens
<1>3. ASSUME NEW t \in Tabs, NEW r \in Requests, NEW kind \in {"refresh", "logout"}, Send(r, kind)
      PROVE IntactSession'
  <2>1. /\ req'[r] = [stage |-> "find", kind |-> kind, sent |-> cookie, reply |-> "NONE"]
        /\ \A q \in Requests : q # r => req'[q] = req[q]
        /\ UNCHANGED <<stored, expired, cookie>>
    BY <1>2, <1>3 DEF Send, RefreshTypeOK, tokenVars
  <2>2. ASSUME NEW q \in Requests PROVE IntactRequest(q)'
    <3>1. IntactRequest(q)
      BY DEF IntactSession
    <3> QED
      BY <1>1, <2>1, <3>1 DEF IntactRequest, Undelivered
  <2> QED
    BY <1>1, <2>1, <2>2 DEF IntactSession, IntactTokens
<1>4. ASSUME NEW r \in Requests, Receive(r), req[r].kind = "refresh" PROVE IntactSession'
  <2>1. Moves(r, "done", req[r].reply)
    BY <1>4, MoveRecords DEF Receive
  <2>2. UNCHANGED <<stored, expired>> /\ req[r].stage = "reply"
    BY <1>4 DEF Receive, tokenVars
  <2>3. IntactRequest(r)
    BY DEF IntactSession
  <2>4. cookie' \in stored
    BY <1>1, <1>4, <2>2, <2>3 DEF Receive, CookieAfter, IntactRequest, Undelivered
  <2>5. ASSUME NEW q \in Requests PROVE IntactRequest(q)'
    <3>1. IntactRequest(q)
      BY DEF IntactSession
    <3>2. CASE q = r
      BY <2>1, <2>2, <3>1, <3>2 DEF IntactRequest, Undelivered, Moves
    <3>3. CASE q # r
      <4>1. req'[q] = req[q]
        BY <2>1, <3>3 DEF Moves
      <4> QED
        BY <2>2, <3>1, <4>1 DEF IntactRequest, Undelivered
    <3> QED
      BY <3>2, <3>3
  <2> QED
    BY <1>1, <2>2, <2>4, <2>5 DEF IntactSession, IntactTokens
<1>5. ASSUME NEW r \in Requests, Receive(r), req[r].kind = "logout" PROVE IntactSession'
  BY <1>1, <1>5 DEF Receive
<1>6. ASSUME NEW r \in Requests, LoseReply(r) PROVE IntactSession'
  <2>1. Moves(r, "done", req[r].reply)
    BY <1>6, MoveRecords DEF LoseReply
  <2>2. UNCHANGED <<stored, expired, cookie>> /\ req[r].stage = "reply"
    BY <1>6 DEF LoseReply, tokenVars
  <2>3. IntactRequest(r)
    BY DEF IntactSession
  <2> QED
    BY <2>1, <2>2, <2>3, IntactMove DEF IntactRequest
<1>7. ASSUME UNCHANGED <<stored, expired, req, cookie>> PROVE IntactSession'
  BY <1>7 DEF IntactSession, IntactTokens, IntactRequest, Undelivered
<1>8. ASSUME ServerStep PROVE IntactSession'
  <2>1. ASSUME NEW r \in Requests, HandlerStep(r) PROVE IntactSession'
    BY <2>1, IntactHandler
  <2>2. ASSUME NEW t \in Tokens, GraceEnds(t) PROVE IntactSession'
    BY <1>7, <2>2 DEF GraceEnds
  <2>3. ASSUME NEW t \in Tokens, ExpireToken(t) \/ RemoveExpired(t) PROVE IntactSession'
    BY <1>1, <2>3 DEF ExpireToken, RemoveExpired, Because
  <2>4. ASSUME AdminRevoke PROVE IntactSession'
    BY <1>1, <2>4 DEF AdminRevoke
  <2> QED
    BY <1>8, <2>1, <2>2, <2>3, <2>4 DEF ServerStep
<1>9. ASSUME NEW r \in Requests, AnswerMe(r) PROVE IntactSession'
  BY <1>7, <1>9 DEF AnswerMe, tokenVars
<1>10. ASSUME NEW t \in Tabs, StartDemo(t) PROVE IntactSession'
  BY <1>1, <1>10 DEF StartDemo, Because
<1>11. ASSUME NEW t \in Tabs, ExpirePublicDemo(t) PROVE IntactSession'
  BY <1>7, <1>11 DEF ExpirePublicDemo, refreshVars, tokenVars
<1> QED
  BY <1>3, <1>4, <1>5, <1>6, <1>8, <1>9, <1>10, <1>11
     DEF ClientNext, BootstrapSession, Logout, AnswerRefresh, AnswerLogout, LoseAnswer

-----------------------------------------------------------------------------
\* What may excuse the login screen in tab t.
Excused(t) ==
    \/ causes \ {"fault"} # {}
    \/ revoked # {}
    \/ \E r \in Requests :
          call[r].tab = t /\ (req[r].reply = "CONCURRENT" \/ req[r].kind = "logout")

\* Records that keep their kind and reply go on excusing what they excused.
LEMMA ExcuseKept ==
    ASSUME OutageIsNotSignOut, NEW t \in Tabs, auth[t] = "anonymous",
           causes \subseteq causes', revoked \subseteq revoked',
           \A q \in Requests :
               (req[q].reply = "CONCURRENT" \/ req[q].kind = "logout") =>
                   /\ call'[q].tab = call[q].tab
                   /\ req'[q].reply = req[q].reply /\ req'[q].kind = req[q].kind
    PROVE  Excused(t)'
BY DEF OutageIsNotSignOut, Excused

\* A tab that sends a request has no answer to it yet.
LEMMA SendStatus ==
    ASSUME ClientInv, NEW t \in Tabs, NEW r \in Requests, NEW kind \in {"refresh", "logout"},
           Send(r, kind), Calls(t, r), UNCHANGED auth
    PROVE  ClientTypeOK' /\ ClientKinds' /\ OutageIsNotSignOut'
<1> USE DEF ClientInv
<1>1. RefreshTypeOK /\ KindsInv
  BY DEF RotationInv, TabsInv
<1>2. /\ ClientTypeOK'
      /\ \A q \in Requests : q # r => call'[q] = call[q]
      /\ call'[r].tab = t /\ call'[r].seen = auth[t]
  BY CallSent
<1>3. /\ req'[r].reply # "CONCURRENT" /\ req'[r].stage # "idle"
      /\ \A q \in Requests : q # r => req'[q] = req[q]
      /\ req[r].stage = "idle" /\ causes' = causes /\ revoked' = revoked
  BY <1>1 DEF Send, RefreshTypeOK, tokenVars, historyVars
<1>4. req[r].kind = "refresh" /\ req[r].reply = "NONE"
  BY <1>1, <1>3 DEF KindsInv, ClientKinds
<1>5. ClientKinds'
  BY <1>2, <1>3 DEF ClientKinds
<1>6. ASSUME NEW u \in Tabs, auth'[u] = "anonymous" PROVE Excused(u)'
  BY <1>2, <1>3, <1>4, <1>6, ExcuseKept
<1> QED
  BY <1>2, <1>5, <1>6 DEF OutageIsNotSignOut, Excused

\* An answer settles its tab; the login screen needs a reason.
LEMMA AnswerStatus ==
    ASSUME ClientInv, NEW r \in Requests, NEW status \in Statuses, Becomes(r, status),
           Moves(r, "done", req[r].reply) \/ UNCHANGED req,
           causes \subseteq causes', revoked \subseteq revoked',
           status = "demo" => "demo" \in causes,
           status = "anonymous" => \/ causes' \ {"fault"} # {} \/ revoked' # {}
                                   \/ req[r].reply = "CONCURRENT" \/ req[r].kind = "logout"
    PROVE  ClientTypeOK' /\ ClientKinds' /\ OutageIsNotSignOut'
<1> USE DEF ClientInv
<1>1. /\ ClientTypeOK'
      /\ \A q \in Requests : call'[q].tab = call[q].tab /\ call'[q].seen = call[q].seen
      /\ \A u \in Tabs : auth'[u] = auth[u] \/ (u = call[r].tab /\ auth'[u] = status)
  BY CallEnds
<1>2. \A q \in Requests : /\ req'[q].reply = req[q].reply /\ req'[q].kind = req[q].kind
                          /\ req'[q].stage = req[q].stage \/ req'[q].stage = "done"
  BY DEF Moves
<1>3. ClientKinds'
  BY <1>1, <1>2 DEF ClientKinds
<1>4. ASSUME NEW u \in Tabs, auth'[u] = "anonymous" PROVE Excused(u)'
  <2>1. CASE auth[u] = "anonymous"
    BY <1>1, <1>2, <2>1, ExcuseKept
  <2>2. CASE u = call[r].tab /\ status = "anonymous"
    BY <1>1, <1>2, <2>2 DEF Excused
  <2> QED
    BY <1>1, <1>4, <2>1, <2>2
<1> QED
  BY <1>1, <1>3, <1>4 DEF OutageIsNotSignOut, Excused

\* Every step keeps the statuses and their reasons.
LEMMA StatusStep ==
    ASSUME ClientInv, ClientNext
    PROVE  ClientTypeOK' /\ ClientKinds' /\ OutageIsNotSignOut'
<1> USE DEF ClientInv
<1>1. RefreshTypeOK /\ RestTypeOK
  BY DEF RotationInv, RefreshTypeOK, RestTypeOK
<1>2. ASSUME NEW t \in Tabs, NEW r \in Requests, BootstrapSession(t, r) \/ Logout(t, r)
      PROVE ClientTypeOK' /\ ClientKinds' /\ OutageIsNotSignOut'
  BY <1>2, SendStatus DEF BootstrapSession, Logout
<1>3. ASSUME NEW r \in Requests, AnswerRefresh(r)
      PROVE ClientTypeOK' /\ ClientKinds' /\ OutageIsNotSignOut'
  <2>1. Moves(r, "done", req[r].reply)
    BY <1>1, <1>3, MoveRecords DEF AnswerRefresh, Receive
  <2>2. causes' = causes /\ revoked' = revoked
    BY <1>3 DEF AnswerRefresh, Receive, tokenVars
  <2>3. CASE call' = [call EXCEPT ![r].stage = "me"] /\ UNCHANGED auth
    <3>1. /\ ClientTypeOK'
          /\ \A q \in Requests : call'[q].tab = call[q].tab /\ call'[q].seen = call[q].seen
      BY <2>3 DEF ClientTypeOK
    <3>2. \A q \in Requests : /\ req'[q].reply = req[q].reply /\ req'[q].kind = req[q].kind
                              /\ req'[q].stage = req[q].stage \/ req'[q].stage = "done"
      BY <2>1 DEF Moves
    <3>3. ClientKinds'
      BY <2>2, <2>3, <3>1, <3>2 DEF ClientKinds
    <3>4. ASSUME NEW u \in Tabs, auth'[u] = "anonymous" PROVE Excused(u)'
      BY <2>2, <2>3, <3>1, <3>2, <3>4, ExcuseKept
    <3> QED
      BY <3>1, <3>3, <3>4 DEF OutageIsNotSignOut, Excused
  <2>4. CASE RefreshRefused(r) /\ Becomes(r, "anonymous")
    <3>1. req[r].reply = "CONCURRENT" \/ ~Intact
      BY <1>3, <2>4 DEF AnswerRefresh, RefreshRefused, IntactSession, IntactRequest
    <3>2. ~Intact => causes' \ {"fault"} # {} \/ revoked' # {}
      BY <2>2 DEF Intact
    <3> QED
      BY <2>1, <2>2, <2>4, <3>1, <3>2, AnswerStatus DEF Statuses
  <2>5. CASE Becomes(r, Captured(r))
    BY <2>1, <2>2, <2>5, AnswerStatus, CapturedStatus
  <2> QED
    BY <1>3, <2>3, <2>4, <2>5 DEF AnswerRefresh
<1>4. ASSUME NEW r \in Requests, AnswerMe(r)
      PROVE ClientTypeOK' /\ ClientKinds' /\ OutageIsNotSignOut'
  <2>1. UNCHANGED req /\ revoked' = revoked
    BY <1>4 DEF AnswerMe, tokenVars
  <2>2. CASE Becomes(r, "authenticated") /\ UNCHANGED historyVars
    BY <2>1, <2>2, AnswerStatus DEF Statuses, historyVars
  <2>3. CASE Becomes(r, "anonymous") /\ Because("inactive")
    <3>1. causes \subseteq causes' /\ "inactive" \in causes'
      BY <2>3 DEF Because
    <3> QED
      BY <2>1, <2>3, <3>1, AnswerStatus DEF Statuses
  <2>4. CASE Becomes(r, Captured(r)) /\ Fault
    BY <2>1, <2>4, AnswerStatus, CapturedStatus DEF Fault, Failure
  <2> QED
    BY <1>4, <2>2, <2>3, <2>4 DEF AnswerMe
<1>5. ASSUME NEW r \in Requests, AnswerLogout(r)
      PROVE ClientTypeOK' /\ ClientKinds' /\ OutageIsNotSignOut'
  <2>1. Moves(r, "done", req[r].reply)
    BY <1>1, <1>5, MoveRecords DEF AnswerLogout, Receive
  <2>2. causes \subseteq causes' /\ revoked' = revoked
    BY <1>5 DEF AnswerLogout, Receive, tokenVars
  <2> QED
    BY <1>5, <2>1, <2>2, AnswerStatus DEF AnswerLogout, Statuses
<1>6. ASSUME NEW r \in Requests, LoseAnswer(r)
      PROVE ClientTypeOK' /\ ClientKinds' /\ OutageIsNotSignOut'
  <2>1. Moves(r, "done", req[r].reply)
    BY <1>1, <1>6, MoveRecords DEF LoseAnswer, LoseReply
  <2>2. causes \subseteq causes' /\ revoked' = revoked
    BY <1>6 DEF LoseAnswer, LoseReply, Fault, Failure, tokenVars
  <2>3. CASE req[r].kind = "logout" /\ Becomes(r, "anonymous")
    BY <2>1, <2>2, <2>3, AnswerStatus DEF Statuses
  <2>4. CASE Becomes(r, Captured(r))
    BY <2>1, <2>2, <2>4, AnswerStatus, CapturedStatus
  <2> QED
    BY <1>6, <2>3, <2>4 DEF LoseAnswer
<1>7. ASSUME NEW t \in Tabs, StartDemo(t)
      PROVE ClientTypeOK' /\ ClientKinds' /\ OutageIsNotSignOut'
  <2>1. /\ UNCHANGED <<req, call>> /\ "demo" \in causes' /\ causes \subseteq causes'
        /\ auth' \in {auth, [auth EXCEPT ![t] = "demo"]}
    BY <1>7 DEF StartDemo, Because
  <2> QED
    BY <2>1 DEF ClientTypeOK, ClientKinds, OutageIsNotSignOut, Statuses
<1>8. ASSUME NEW t \in Tabs, ExpirePublicDemo(t)
      PROVE ClientTypeOK' /\ ClientKinds' /\ OutageIsNotSignOut'
  <2>1. /\ UNCHANGED <<req, call, causes, revoked>> /\ "demo" \in causes
        /\ auth' = [auth EXCEPT ![t] = "anonymous"]
    BY <1>8 DEF ExpirePublicDemo, refreshVars, tokenVars, historyVars, ClientKinds
  <2> QED
    BY <2>1 DEF ClientTypeOK, ClientKinds, OutageIsNotSignOut, Statuses
<1>9. ASSUME ServerStep PROVE ClientTypeOK' /\ ClientKinds' /\ OutageIsNotSignOut'
  <2>1. UNCHANGED <<auth, call>> /\ ClientTypeOK'
    BY <1>9 DEF ServerStep, ClientTypeOK
  <2>2. ASSUME NEW r \in Requests, HandlerStep(r) PROVE ClientKinds' /\ OutageIsNotSignOut'
    BY <2>1, <2>2, HandlerKinds
  <2>3. ASSUME UNCHANGED req, causes \subseteq causes', revoked \subseteq revoked'
        PROVE  ClientKinds' /\ OutageIsNotSignOut'
    BY <2>1, <2>3 DEF ClientKinds, OutageIsNotSignOut
  <2>4. ASSUME NEW t \in Tokens, GraceEnds(t) \/ ExpireToken(t) \/ RemoveExpired(t)
        PROVE  ClientKinds' /\ OutageIsNotSignOut'
    BY <2>3, <2>4 DEF GraceEnds, ExpireToken, RemoveExpired, Because, historyVars
  <2>5. ASSUME AdminRevoke PROVE ClientKinds' /\ OutageIsNotSignOut'
    BY <2>3, <2>5 DEF AdminRevoke, RevokeFamily
  <2> QED
    BY <1>9, <2>1, <2>2, <2>4, <2>5 DEF ServerStep
<1> QED
  BY <1>2, <1>3, <1>4, <1>5, <1>6, <1>7, <1>8, <1>9 DEF ClientNext

\* A session that is intact was so before.
LEMMA IntactBefore ==
    ASSUME RefreshTypeOK, ClientNext, Intact'
    PROVE  Intact
<1>1. ASSUME NEW r \in Requests, HandlerStep(r) PROVE Intact
  BY <1>1, HandlerMoves DEF Intact
<1>2. CASE ServerStep
  BY <1>1, <1>2 DEF ServerStep, GraceEnds, ExpireToken, RemoveExpired, AdminRevoke, RevokeFamily,
                    Because, historyVars, Intact
<1>3. CASE ~ServerStep
  BY <1>3 DEF ClientNext, BootstrapSession, Logout, AnswerRefresh, AnswerMe, AnswerLogout,
              LoseAnswer, StartDemo, ExpirePublicDemo, Send, Receive, LoseReply, Because, Fault,
              Failure, Intact, refreshVars, tokenVars, historyVars
<1> QED
  BY <1>2, <1>3

\* The tabs' invariant holds in every reachable state.
THEOREM ClientInvariant == ClientSpec => []ClientInv
<1>1. ClientInit => ClientInv
  <2> SUFFICES ASSUME ClientInit PROVE ClientInv
    OBVIOUS
  <2>1. RefreshInit
    BY DEF ClientInit
  <2>2. RotationInv /\ TabsInv
    BY <2>1, RotationInitial, TabsInitial
  <2>3. /\ \A r \in Requests : /\ req[r] = [stage |-> "idle", kind |-> "refresh",
                                            sent |-> NoToken, reply |-> "NONE"]
                               /\ call[r] = [tab |-> "none", seen |-> "loading", stage |-> "none"]
        /\ auth \in [Tabs -> {"loading", "authenticated"}]
    BY <2>1 DEF ClientInit, RefreshInit
  <2>4. ClientTypeOK
    BY DEF ClientInit, ClientTypeOK, Statuses
  <2>5. ClientKinds /\ OutageIsNotSignOut
    BY <2>3 DEF ClientKinds, OutageIsNotSignOut
  <2>6. IntactSession
    BY <2>1, <2>3 DEF RefreshInit, IntactSession, IntactTokens, IntactRequest, Undelivered
  <2> QED
    BY <2>2, <2>4, <2>5, <2>6 DEF ClientInv
<1>2. ClientInv /\ [ClientNext]_clientVars => ClientInv'
  <2> SUFFICES ASSUME ClientInv, [ClientNext]_clientVars PROVE ClientInv'
    OBVIOUS
  <2> USE DEF ClientInv
  <2>1. RotationInv' /\ TabsInv'
    BY ClientTokens
  <2>2. CASE ClientNext
    <3>1. RefreshTypeOK /\ KindsInv
      BY DEF RotationInv, TabsInv
    <3>2. Intact' => IntactSession'
      BY <2>2, <3>1, IntactBefore, IntactStep
    <3> QED
      BY <2>1, <2>2, <3>2, StatusStep
  <2>3. CASE UNCHANGED clientVars
    BY <2>1, <2>3 DEF clientVars, refreshVars, tokenVars, historyVars, ClientTypeOK, ClientKinds,
       Intact, IntactSession, IntactTokens, IntactRequest, Undelivered, OutageIsNotSignOut
  <2> QED
    BY <2>2, <2>3
<1> QED
  BY <1>1, <1>2, PTL DEF ClientSpec

\* AuthProvider, resolveRefreshFailure: a server that fails, however often and
\* however late its answer, does not send a tab to the login screen, for any
\* number of tabs, requests and failures.
THEOREM OutagesKeepTabs == ClientSpec => []OutageIsNotSignOut
<1>1. ClientInv => OutageIsNotSignOut
  BY DEF ClientInv
<1> QED
  BY <1>1, ClientInvariant, PTL

\* What is promised of the tokens holds when tabs send the requests, read
\* /auth/me and start the public demo.
THEOREM ClientRotationSound == ClientSpec => [](RotationSound /\ TabsKeepSession)
<1>1. ClientInv => RotationSound /\ TabsKeepSession
  BY RotationImplies, TabsImply DEF ClientInv
<1> QED
  BY <1>1, ClientInvariant, PTL

-----------------------------------------------------------------------------
(***************************************************************************)
(* The chat page.  A retry takes the place of the answer it repeats, so    *)
(* the thread stays in order only because turns name answers uniquely, in  *)
(* the thread, among the mounted instances and in the router call under    *)
(* way, and because a send keeps its question while it waits for a new     *)
(* conversation.                                                           *)
(***************************************************************************)
Mounts == 1..MaxMounts
Texts == Prompts \cup {"none"}
Message == [role : {"user", "assistant"}, turn : Nat, prompt : Texts,
            state : {"streaming", "complete", "error", "aborted"}, retryable : BOOLEAN]
Instance ==
    [route : Nat, status : {"idle", "loading", "ready", "error"}, conv : Nat,
     thread : Seq(Message), creating : BOOLEAN, stage : {"idle", "create", "stream"},
     prompt : Texts, turn : Nat, retryOf : Nat, opened : Nat,
     terminal : {"none", "done", "error"}, aborted : BOOLEAN]
NavType == [kind : {"none", "route", "login"}, to : Nat, turn : Nat]

WorkspaceTypeOK ==
    /\ here \in 0..MaxMounts
    /\ work \in [Mounts -> Instance]
    /\ nav \in NavType
    /\ turns \in Nat
    /\ conversations \in Nat

Answers(thread) == {k \in DOMAIN thread : thread[k].role = "assistant"}

\* Every answer stands under its question and has a turn of its own.
Ordered(thread, n) ==
    /\ \A k \in Answers(thread) :
          /\ k - 1 \in DOMAIN thread
          /\ thread[k - 1].role = "user" /\ thread[k - 1].prompt = thread[k].prompt
          /\ thread[k].turn \in 1..n
    /\ \A k, l \in Answers(thread) : thread[k].turn = thread[l].turn => k = l

\* Only the answer of this turn is being streamed.
OnlyStreams(thread, turn) ==
    \A k \in Answers(thread) : thread[k].state = "streaming" => thread[k].turn = turn

NoStream(thread) == \A k \in Answers(thread) : thread[k].state # "streaming"

\* A send that waits for its conversation has a new turn, and repeats the
\* question of the answer it will replace.
NewTurn(thread, turn) == \A k \in Answers(thread) : thread[k].turn # turn
SameQuestion(thread, retryOf, prompt) ==
    \A k \in Answers(thread) : thread[k].turn = retryOf => thread[k].prompt = prompt

InstanceOK(v, n) ==
    /\ Ordered(v.thread, n)
    /\ v.turn <= n
    /\ v.stage = "idle" <=> v.turn = 0
    /\ v.stage # "stream" => v.terminal = "none"
    /\ IF v.stage = "stream" /\ v.terminal = "none" THEN OnlyStreams(v.thread, v.turn)
                                                     ELSE NoStream(v.thread)
    /\ v.stage = "create" => /\ NewTurn(v.thread, v.turn)
                             /\ SameQuestion(v.thread, v.retryOf, v.prompt)

WorkspaceInv ==
    /\ WorkspaceTypeOK
    /\ \A m \in Mounts : InstanceOK(work[m], turns)
    /\ \A m, n \in Mounts : work[m].turn = work[n].turn => m = n \/ work[m].turn = 0
    /\ nav.turn <= turns
    /\ \A m \in Mounts : work[m].turn = nav.turn => nav.turn = 0

\* The fields of an instance, and what changing some of them gives.
LEMMA InstanceFields ==
    ASSUME NEW v \in Instance
    PROVE  /\ v.thread \in Seq(Message) /\ v.turn \in Nat /\ v.retryOf \in Nat
           /\ v.prompt \in Texts /\ v.stage \in {"idle", "create", "stream"}
           /\ v.terminal \in {"none", "done", "error"} /\ v.conv \in Nat /\ v.opened \in Nat
           /\ v.route \in Nat
BY DEF Instance

\* An empty thread is in order.
LEMMA EmptyThread ==
    ASSUME NEW n, NEW t, NEW r, NEW p
    PROVE  /\ <<>> \in Seq(Message) /\ Ordered(<<>>, n) /\ NoStream(<<>>)
           /\ OnlyStreams(<<>>, t) /\ NewTurn(<<>>, t) /\ SameQuestion(<<>>, r, p)
<1>1. Answers(<<>>) = {}
  BY DEF Answers
<1> QED
  BY <1>1 DEF Ordered, NoStream, OnlyStreams, NewTurn, SameQuestion

\* updateAssistantMessage: the answer of the turn has another state, the thread
\* is in order as before, and nothing is streamed once that answer is settled.
LEMMA MarkedThread ==
    ASSUME NEW v \in Instance, NEW n \in Nat, Ordered(v.thread, n),
           OnlyStreams(v.thread, v.turn),
           NEW state \in {"complete", "error", "aborted"}, NEW retryable \in BOOLEAN
    PROVE  /\ Marked(v, state, retryable) \in Seq(Message)
           /\ Ordered(Marked(v, state, retryable), n)
           /\ NoStream(Marked(v, state, retryable))
<1> DEFINE old == v.thread
           new == Marked(v, state, retryable)
<1>1. old \in Seq(Message) /\ Len(old) \in Nat /\ DOMAIN old = 1..Len(old)
  BY InstanceFields
<1>2. \A k \in 1..Len(old) :
        new[k] = IF old[k].role = "assistant" /\ old[k].turn = v.turn
                 THEN [old[k] EXCEPT !.state = state, !.retryable = retryable]
                 ELSE old[k]
  BY <1>1 DEF Marked
<1>3. \A k \in 1..Len(old) :
        /\ old[k] \in Message /\ new[k] \in Message
        /\ new[k].role = old[k].role /\ new[k].turn = old[k].turn
        /\ new[k].prompt = old[k].prompt
        /\ new[k].state = IF old[k].role = "assistant" /\ old[k].turn = v.turn
                          THEN state ELSE old[k].state
  <2>1. \A k \in 1..Len(old) : old[k] \in Message
    BY <1>1
  <2> HIDE DEF old, new
  <2> QED
    BY <1>2, <2>1 DEF Message
<1>4. new \in [1..Len(old) -> Message] /\ DOMAIN new = 1..Len(old)
  BY <1>1, <1>3 DEF Marked
<1>5. new \in Seq(Message)
  BY <1>1, <1>4
<1>6. Answers(new) = Answers(old)
  BY <1>1, <1>3, <1>4 DEF Answers
<1>7. Answers(old) \subseteq 1..Len(old)
  BY <1>1 DEF Answers
<1> HIDE DEF new, old
<1>8. Ordered(new, n)
  <2>1. Ordered(old, n)
    BY DEF old
  <2> QED
    BY <1>1, <1>3, <1>4, <1>6, <1>7, <2>1 DEF Ordered
<1>9. NoStream(new)
  <2>1. OnlyStreams(old, v.turn)
    BY DEF old
  <2> QED
    BY <1>3, <1>6, <1>7, <2>1 DEF NoStream, OnlyStreams, Answers
<1> QED
  BY <1>5, <1>8, <1>9 DEF new

\* setMessages of handleSend: the new answer stands under its question, at the
\* end or in the place of the one it repeats.
LEMMA ThreadWithTurn ==
    ASSUME NEW v \in Instance, NEW n \in Nat, Ordered(v.thread, n), NoStream(v.thread),
           v.turn \in 1..n, NewTurn(v.thread, v.turn),
           SameQuestion(v.thread, v.retryOf, v.prompt)
    PROVE  /\ WithTurn(v) \in Seq(Message)
           /\ Ordered(WithTurn(v), n)
           /\ OnlyStreams(WithTurn(v), v.turn)
<1> DEFINE old == v.thread
           new == WithTurn(v)
           answer == Answer(v.turn, v.prompt)
           question == Question(v.turn, v.prompt)
<1>1. old \in Seq(Message) /\ Len(old) \in Nat /\ DOMAIN old = 1..Len(old)
  BY InstanceFields
<1>2. /\ answer \in Message /\ answer.role = "assistant" /\ answer.turn = v.turn
      /\ answer.prompt = v.prompt
      /\ question \in Message /\ question.role = "user" /\ question.prompt = v.prompt
  BY InstanceFields DEF Message, Answer, Question
<1>3. \A k \in 1..Len(old) : old[k] \in Message
  BY <1>1
<1>4. Answers(old) \subseteq 1..Len(old)
  BY <1>1 DEF Answers
<1>5. CASE v.retryOf # 0
  <2> DEFINE Placed == {k \in Answers(old) : old[k].turn = v.retryOf}
  <2>1. /\ DOMAIN new = 1..Len(old)
        /\ \A k \in 1..Len(old) : new[k] = IF k \in Placed THEN answer ELSE old[k]
    BY <1>1, <1>5 DEF WithTurn, Replace, Answers
  <2>2. new \in [1..Len(old) -> Message]
    BY <1>1, <1>2, <1>3, <1>5, <2>1 DEF WithTurn, Replace
  <2>3. new \in Seq(Message)
    BY <1>1, <2>2
  <2> HIDE DEF new, answer
  <2>4. Answers(new) = Answers(old)
    BY <1>1, <1>2, <1>4, <2>1 DEF Answers
  <2>5. /\ \A k \in Placed : k \in Answers(old) /\ old[k].prompt = v.prompt
        /\ \A k, l \in Placed : k = l
    BY DEF SameQuestion, Ordered
  <2>6. \A k \in Answers(old) : old[k].turn # v.turn /\ old[k].state # "streaming"
    BY DEF NewTurn, NoStream
  <2> HIDE DEF Placed
  <2>7. Ordered(new, n)
    <3>1. \A k \in Answers(old) :
            /\ k - 1 \in 1..Len(old) /\ k \in 1..Len(old)
            /\ k - 1 \notin Answers(old)
            /\ old[k - 1].role = "user" /\ old[k - 1].prompt = old[k].prompt
            /\ old[k].turn \in 1..n
      BY <1>1, <1>4 DEF Ordered, Answers
    <3>2. \A k \in Answers(old) : new[k - 1] = old[k - 1]
      BY <2>1, <2>5, <3>1
    <3>3. \A k \in Answers(new) :
            /\ k - 1 \in DOMAIN new
            /\ new[k - 1].role = "user" /\ new[k - 1].prompt = new[k].prompt
            /\ new[k].turn \in 1..n
      BY <1>2, <2>1, <2>4, <2>5, <3>1, <3>2
    <3>4. \A k, l \in Answers(old) : old[k].turn = old[l].turn => k = l
      BY DEF Ordered
    <3>5. \A k, l \in Answers(new) : new[k].turn = new[l].turn => k = l
      BY <1>2, <1>4, <2>1, <2>4, <2>5, <2>6, <3>4
    <3> QED
      BY <3>3, <3>5 DEF Ordered
  <2>8. OnlyStreams(new, v.turn)
    BY <1>2, <1>4, <2>1, <2>4, <2>6 DEF OnlyStreams
  <2> QED
    BY <2>3, <2>7, <2>8 DEF new
<1>6. CASE v.retryOf = 0
  <2>1. new = old \o <<question, answer>>
    BY <1>6 DEF WithTurn
  <2> HIDE DEF new, answer, question
  <2>2. new \in Seq(Message) /\ DOMAIN new = 1..(Len(old) + 2)
    BY <1>1, <1>2, <2>1
  <2>3. /\ \A k \in 1..Len(old) : new[k] = old[k]
        /\ new[Len(old) + 1] = question /\ new[Len(old) + 2] = answer
    BY <1>1, <1>2, <2>1
  <2>4. Answers(new) = Answers(old) \cup {Len(old) + 2}
    <3>1. DOMAIN new = DOMAIN old \cup {Len(old) + 1, Len(old) + 2}
      BY <1>1, <2>2
    <3>2. \A k \in DOMAIN old : new[k] = old[k]
      BY <1>1, <2>3
    <3>3. new[Len(old) + 1].role # "assistant" /\ new[Len(old) + 2].role = "assistant"
      BY <1>2, <2>3
    <3> QED
      BY <3>1, <3>2, <3>3 DEF Answers
  <2>5. \A k \in Answers(old) : old[k].turn # v.turn /\ old[k].state # "streaming"
    BY DEF NewTurn, NoStream
  <2>6. Ordered(new, n)
    <3>1. \A k \in Answers(old) :
            /\ k - 1 \in 1..Len(old) /\ k \in 1..Len(old)
            /\ old[k - 1].role = "user" /\ old[k - 1].prompt = old[k].prompt
            /\ old[k].turn \in 1..n
      BY <1>1, <1>4 DEF Ordered
    <3>2. Len(old) + 2 - 1 = Len(old) + 1
      BY <1>1
    <3>3. \A k \in Answers(new) :
            /\ k - 1 \in DOMAIN new
            /\ new[k - 1].role = "user" /\ new[k - 1].prompt = new[k].prompt
            /\ new[k].turn \in 1..n
      <4>1. ASSUME NEW k \in Answers(old)
            PROVE  /\ k - 1 \in DOMAIN new
                   /\ new[k - 1].role = "user" /\ new[k - 1].prompt = new[k].prompt
                   /\ new[k].turn \in 1..n
        BY <1>1, <2>2, <2>3, <3>1
      <4> QED
        BY <1>1, <1>2, <2>2, <2>3, <2>4, <3>2, <4>1
    <3>4. \A k, l \in Answers(old) : old[k].turn = old[l].turn => k = l
      BY DEF Ordered
    <3>5. \A k, l \in Answers(new) : new[k].turn = new[l].turn => k = l
      BY <1>2, <1>4, <2>3, <2>4, <2>5, <3>4
    <3> QED
      BY <3>3, <3>5 DEF Ordered
  <2>7. OnlyStreams(new, v.turn)
    BY <1>2, <1>4, <2>3, <2>4, <2>5 DEF OnlyStreams
  <2> QED
    BY <2>2, <2>6, <2>7 DEF new
<1> QED
  BY <1>5, <1>6

\* findRetryPrompt finds the question of the answer that is retried.
LEMMA RetryFindsQuestion ==
    ASSUME NEW thread \in Seq(Message), NEW n, Ordered(thread, n),
           NEW k \in Answers(thread)
    PROVE  RetryPrompt(thread, k) = thread[k].prompt
<1> DEFINE above == {j \in 1..(k - 1) : thread[j].role = "user"}
<1>1. k \in Nat /\ k - 1 \in 1..(k - 1) /\ thread[k - 1].role = "user"
      /\ thread[k - 1].prompt = thread[k].prompt
  BY DEF Ordered, Answers
<1>2. k - 1 \in above /\ \A i \in above : i <= k - 1
  BY <1>1
<1>3. \A j \in above : (\A i \in above : i <= j) => j = k - 1
  BY <1>1, <1>2
<1>4. (CHOOSE j \in above : \A i \in above : i <= j) = k - 1
  <2> HIDE DEF above
  <2> QED  BY <1>2, <1>3
<1> QED
  BY <1>1, <1>4 DEF RetryPrompt

\* One instance is replaced by one in order, under a turn of its own.
LEMMA InstanceReplaced ==
    ASSUME WorkspaceInv, NEW m \in Mounts, NEW w \in Instance, Set(m, w),
           turns' \in {turns, turns + 1}, InstanceOK(w, turns'),
           w.turn \in {0, work[m].turn} \/ (w.turn = turns + 1 /\ turns' = turns + 1),
           here' = here, conversations' \in Nat, nav' \in NavType,
           \/ nav'.turn \in {0, nav.turn}
           \/ nav'.turn = work[m].turn /\ w.turn = 0
    PROVE  WorkspaceInv'
<1>1. /\ work \in [Mounts -> Instance] /\ turns \in Nat /\ here \in 0..MaxMounts
      /\ nav \in NavType
      /\ \A n \in Mounts : InstanceOK(work[n], turns) /\ work[n].turn \in Nat
      /\ \A n \in Mounts : work[n].turn <= turns
      /\ nav.turn \in Nat /\ nav.turn <= turns
  BY DEF WorkspaceInv, WorkspaceTypeOK, Instance, NavType, InstanceOK
<1>2. work' \in [Mounts -> Instance] /\ work'[m] = w
      /\ \A n \in Mounts : n # m => work'[n] = work[n]
  BY <1>1 DEF Set
<1>3. WorkspaceTypeOK'
  BY <1>1, <1>2 DEF WorkspaceTypeOK, Mounts
<1>4. ASSUME NEW n \in Mounts PROVE InstanceOK(work[n], turns + 1)
  BY <1>1 DEF InstanceOK, Ordered
<1>5. \A n \in Mounts : InstanceOK(work'[n], turns')
  BY <1>1, <1>2, <1>4
<1>6. w.turn \in Nat /\ w.turn <= turns'
  BY DEF Instance, InstanceOK
<1>7. \A n, l \in Mounts : work'[n].turn = work'[l].turn => n = l \/ work'[n].turn = 0
  <2>1. \A n, l \in Mounts : work[n].turn = work[l].turn => n = l \/ work[n].turn = 0
    BY DEF WorkspaceInv
  <2>2. ASSUME NEW n \in Mounts, n # m, work[n].turn = w.turn PROVE w.turn = 0
    BY <1>1, <2>1, <2>2
  <2> QED
    BY <1>2, <2>1, <2>2
<1>8. nav'.turn <= turns' /\ \A n \in Mounts : work'[n].turn = nav'.turn => nav'.turn = 0
  <2>1. /\ \A n, l \in Mounts : work[n].turn = work[l].turn => n = l \/ work[n].turn = 0
        /\ \A n \in Mounts : work[n].turn = nav.turn => nav.turn = 0
    BY DEF WorkspaceInv
  <2>2. CASE nav'.turn = 0
    BY <1>1, <2>2
  <2>3. CASE nav'.turn = nav.turn
    <3>1. \A n \in Mounts : n # m /\ work'[n].turn = nav'.turn => nav'.turn = 0
      BY <1>2, <2>1, <2>3
    <3>2. w.turn = nav'.turn => nav'.turn = 0
      BY <1>1, <2>1, <2>3
    <3> QED
      BY <1>1, <1>2, <2>3, <3>1, <3>2
  <2>4. CASE nav'.turn = work[m].turn /\ w.turn = 0
    <3>1. \A n \in Mounts : n # m /\ work'[n].turn = nav'.turn => nav'.turn = 0
      BY <1>2, <2>1, <2>4
    <3> QED
      BY <1>1, <1>2, <2>4, <3>1
  <2> QED
    BY <2>2, <2>3, <2>4
<1> QED
  BY <1>3, <1>5, <1>7, <1>8 DEF WorkspaceInv

\* Facts about the instance a step starts from.
LEMMA InstanceBefore ==
    ASSUME WorkspaceInv, NEW m \in Mounts
    PROVE  /\ work[m] \in Instance /\ InstanceOK(work[m], turns)
           /\ turns \in Nat /\ conversations \in Nat /\ nav \in NavType
           /\ work[m].turn \in Nat /\ work[m].thread \in Seq(Message)
           /\ Ordered(work[m].thread, turns)
BY DEF WorkspaceInv, WorkspaceTypeOK, InstanceOK, Instance

\* The step of a send or a retry.
LEMMA BeginSendStep ==
    ASSUME WorkspaceInv, NEW m \in Mounts, NEW prompt \in Texts, NEW retryOf \in Nat,
           SameQuestion(work[m].thread, retryOf, prompt), BeginSend(m, prompt, retryOf)
    PROVE  WorkspaceInv'
<1> DEFINE v == work[m]
           begun == [v EXCEPT !.prompt = prompt, !.turn = turns + 1, !.retryOf = retryOf]
           created == [begun EXCEPT !.stage = "create"]
           streamed == [begun EXCEPT !.stage = "stream", !.thread = WithTurn(begun)]
<1>1. /\ v \in Instance /\ InstanceOK(v, turns) /\ turns \in Nat /\ conversations \in Nat
      /\ nav \in NavType
  BY InstanceBefore
<1>2. v.stage = "idle" /\ v.terminal = "none" /\ NoStream(v.thread) /\ Ordered(v.thread, turns)
  BY <1>1 DEF BeginSend, InstanceOK
<1>3. /\ begun \in Instance /\ begun.thread = v.thread /\ begun.turn = turns + 1
      /\ begun.prompt = prompt /\ begun.retryOf = retryOf /\ begun.terminal = "none"
      /\ begun.stage = "idle"
  <2>1. turns + 1 \in Nat
    BY <1>1
  <2> QED
    BY <1>1, <1>2, <2>1 DEF Instance
<1>4. /\ Ordered(v.thread, turns + 1) /\ NewTurn(v.thread, turns + 1)
  BY <1>1, <1>2 DEF Ordered, NewTurn
<1> HIDE DEF begun
<1>5. /\ WithTurn(begun) \in Seq(Message) /\ Ordered(WithTurn(begun), turns + 1)
      /\ OnlyStreams(WithTurn(begun), turns + 1)
  <2>1. turns + 1 \in Nat /\ turns + 1 \in 1..(turns + 1)
    BY <1>1
  <2> QED
    BY <1>2, <1>3, <1>4, <2>1, ThreadWithTurn
<1>6. /\ created \in Instance /\ created.thread = v.thread /\ created.turn = turns + 1
      /\ created.prompt = prompt /\ created.retryOf = retryOf /\ created.terminal = "none"
      /\ created.stage = "create"
  BY <1>3 DEF Instance
<1>7. InstanceOK(created, turns + 1)
  <2>1. turns + 1 # 0 /\ turns + 1 <= turns + 1
    BY <1>1
  <2> HIDE DEF created
  <2> QED
    BY <1>2, <1>4, <1>6, <2>1 DEF InstanceOK
<1>8. /\ streamed \in Instance /\ streamed.thread = WithTurn(begun)
      /\ streamed.turn = turns + 1 /\ streamed.terminal = "none" /\ streamed.stage = "stream"
  BY <1>3, <1>5 DEF Instance
<1>9. InstanceOK(streamed, turns + 1)
  <2>1. turns + 1 # 0 /\ turns + 1 <= turns + 1
    BY <1>1
  <2> HIDE DEF streamed
  <2> QED
    BY <1>5, <1>8, <2>1 DEF InstanceOK
<1>10. /\ turns' = turns + 1 /\ UNCHANGED <<here, nav, conversations>>
       /\ Set(m, created) \/ Set(m, streamed)
  BY DEF BeginSend, begun
<1> HIDE DEF created, streamed
<1> QED
  BY <1>1, <1>6, <1>7, <1>8, <1>9, <1>10, InstanceReplaced

\* A handler that returns leaves nothing under way.
LEMMA ReturnedInstance ==
    ASSUME NEW v \in Instance
    PROVE  /\ Returned(v) \in Instance /\ Returned(v).thread = v.thread
           /\ Returned(v).turn = 0 /\ Returned(v).stage = "idle"
           /\ Returned(v).terminal = "none"
BY DEF Returned, Instance, Texts, NoConversation

\* A handler that returns with a thread in which nothing is streamed.
LEMMA ReturnStep ==
    ASSUME WorkspaceInv, NEW m \in Mounts, NEW w \in Instance, Set(m, w),
           w.turn = 0, w.stage = "idle", w.terminal = "none",
           Ordered(w.thread, turns), NoStream(w.thread),
           UNCHANGED <<here, turns>>, conversations' \in Nat, nav' \in NavType,
           nav'.turn \in {0, nav.turn, work[m].turn}
    PROVE  WorkspaceInv'
<1>1. turns \in Nat
  BY InstanceBefore
<1>2. InstanceOK(w, turns)
  BY <1>1 DEF InstanceOK
<1> QED
  BY <1>1, <1>2, InstanceReplaced

\* createConversation for the first message.
LEMMA OpenForSendStep ==
    ASSUME WorkspaceInv, NEW m \in Mounts, OpenForSend(m)
    PROVE  WorkspaceInv'
<1> DEFINE v == work[m]
           c == conversations + 1
           open == [v EXCEPT !.conv = c, !.status = "ready", !.opened = c, !.stage = "stream"]
           shown == [open EXCEPT !.thread = Shown(m, WithTurn(open))]
<1>1. /\ v \in Instance /\ InstanceOK(v, turns) /\ turns \in Nat /\ conversations \in Nat
      /\ nav \in NavType
  BY InstanceBefore
<1>2. /\ v.stage = "create" /\ v.terminal = "none" /\ NoStream(v.thread)
      /\ Ordered(v.thread, turns) /\ v.turn # 0 /\ v.turn \in 1..turns
      /\ NewTurn(v.thread, v.turn) /\ SameQuestion(v.thread, v.retryOf, v.prompt)
  BY <1>1, InstanceFields DEF OpenForSend, InstanceOK
<1>3. CASE /\ conversations' = c /\ Set(m, shown) /\ UNCHANGED nav
  <2>1. /\ open \in Instance /\ open.thread = v.thread /\ open.turn = v.turn
        /\ open.prompt = v.prompt /\ open.retryOf = v.retryOf /\ open.terminal = "none"
        /\ open.stage = "stream"
    <3>1. c \in Nat
      BY <1>1
    <3> QED
      BY <1>1, <1>2, <3>1 DEF Instance
  <2> HIDE DEF open
  <2>2. /\ WithTurn(open) \in Seq(Message) /\ Ordered(WithTurn(open), turns)
        /\ OnlyStreams(WithTurn(open), v.turn)
    BY <1>1, <1>2, <2>1, ThreadWithTurn
  <2>3. LET thread == Shown(m, WithTurn(open))
        IN  thread \in Seq(Message) /\ Ordered(thread, turns) /\ OnlyStreams(thread, v.turn)
    BY <2>2, EmptyThread DEF Shown
  <2>4. /\ shown \in Instance /\ shown.turn = v.turn /\ shown.stage = "stream"
        /\ shown.terminal = "none" /\ shown.thread = Shown(m, WithTurn(open))
    BY <2>1, <2>3 DEF Instance
  <2> HIDE DEF shown
  <2>5. InstanceOK(shown, turns)
    BY <1>1, <1>2, <2>3, <2>4 DEF InstanceOK
  <2> QED
    BY <1>1, <1>3, <2>4, <2>5, InstanceReplaced DEF OpenForSend
<1>4. CASE Set(m, Returned(v)) /\ UNCHANGED <<nav, conversations>>
  BY <1>1, <1>2, <1>4, ReturnedInstance, ReturnStep DEF OpenForSend
<1> QED
  BY <1>3, <1>4 DEF OpenForSend, NavOnOpen

\* A done or an error event settles the answer.
LEMMA TerminalEventStep ==
    ASSUME WorkspaceInv, NEW m \in Mounts, TerminalEvent(m)
    PROVE  WorkspaceInv'
<1> DEFINE v == work[m]
<1>1. /\ v \in Instance /\ InstanceOK(v, turns) /\ turns \in Nat /\ conversations \in Nat
      /\ nav \in NavType
  BY InstanceBefore
<1>2. /\ v.stage = "stream" /\ OnlyStreams(v.thread, v.turn) /\ Ordered(v.thread, turns)
      /\ v.turn \in 1..turns
  <2>1. v.stage = "stream" /\ v.terminal = "none"
    BY DEF TerminalEvent, Streaming
  <2>2. v.turn \in Nat
    BY <1>1, InstanceFields
  <2> QED
    BY <1>1, <2>1, <2>2 DEF InstanceOK
<1>3. PICK state \in {"complete", "error"}, retryable \in BOOLEAN, terminal \in {"done", "error"} :
         Set(m, [v EXCEPT !.terminal = terminal, !.thread = Marked(v, state, retryable)])
  BY DEF TerminalEvent
<1> DEFINE w == [v EXCEPT !.terminal = terminal, !.thread = Marked(v, state, retryable)]
<1>4. /\ Marked(v, state, retryable) \in Seq(Message)
      /\ Ordered(Marked(v, state, retryable), turns)
      /\ NoStream(Marked(v, state, retryable))
  BY <1>1, <1>2, MarkedThread
<1>5. /\ w \in Instance /\ w.thread = Marked(v, state, retryable) /\ w.turn = v.turn
      /\ w.stage = "stream" /\ w.terminal # "none"
  BY <1>1, <1>2, <1>4 DEF Instance
<1>6. Set(m, w) /\ UNCHANGED <<here, nav, turns, conversations>>
  BY <1>3 DEF TerminalEvent
<1> HIDE DEF w
<1>7. InstanceOK(w, turns)
  BY <1>1, <1>2, <1>4, <1>5 DEF InstanceOK
<1> QED
  BY <1>1, <1>5, <1>6, <1>7, InstanceReplaced

\* The end of the body after a terminal event, and the route it opens.
LEMMA StreamEndsStep ==
    ASSUME WorkspaceInv, NEW m \in Mounts, StreamEnds(m)
    PROVE  WorkspaceInv'
<1> DEFINE v == work[m]
<1>1. /\ v \in Instance /\ InstanceOK(v, turns) /\ turns \in Nat /\ conversations \in Nat
      /\ nav \in NavType
  BY InstanceBefore
<1>2. NoStream(v.thread) /\ Ordered(v.thread, turns)
  BY <1>1 DEF StreamEnds, Streaming, InstanceOK
<1>3. /\ Route(v.opened, v.turn) \in NavType /\ Route(v.opened, v.turn).turn = v.turn
  BY <1>1, InstanceFields DEF Route, NavType
<1>4. nav' \in NavType /\ nav'.turn \in {nav.turn, v.turn}
  BY <1>1, <1>3 DEF StreamEnds
<1> QED
  BY <1>1, <1>2, <1>4, ReturnedInstance, ReturnStep DEF StreamEnds

\* The catch clause.
LEMMA StreamFailsStep ==
    ASSUME WorkspaceInv, NEW m \in Mounts, StreamFails(m)
    PROVE  WorkspaceInv'
<1> DEFINE v == work[m]
<1>1. /\ v \in Instance /\ InstanceOK(v, turns) /\ turns \in Nat /\ conversations \in Nat
      /\ nav \in NavType
  BY InstanceBefore
<1>2. OnlyStreams(v.thread, v.turn) /\ Ordered(v.thread, turns)
  BY <1>1 DEF StreamFails, InstanceOK, NoStream, OnlyStreams
<1>3. PICK state \in {"aborted", "error"}, retryable \in BOOLEAN :
         Set(m, [Returned(v) EXCEPT !.thread = Marked(v, state, retryable)])
  BY DEF StreamFails, AfterAbort
<1> DEFINE w == [Returned(v) EXCEPT !.thread = Marked(v, state, retryable)]
<1>4. /\ Marked(v, state, retryable) \in Seq(Message)
      /\ Ordered(Marked(v, state, retryable), turns)
      /\ NoStream(Marked(v, state, retryable))
  BY <1>1, <1>2, MarkedThread
<1>5. /\ w \in Instance /\ w.thread = Marked(v, state, retryable) /\ w.turn = 0
      /\ w.stage = "idle" /\ w.terminal = "none"
  BY <1>1, <1>4, ReturnedInstance DEF Instance
<1>6. Set(m, w) /\ UNCHANGED <<here, nav, turns, conversations>>
  BY <1>3 DEF StreamFails
<1> HIDE DEF w
<1> QED
  BY <1>1, <1>4, <1>5, <1>6, ReturnStep

\* An instance with the same thread and send, or with none of its thread left.
LEMMA SameSendStep ==
    ASSUME WorkspaceInv, NEW m \in Mounts, NEW w \in Instance,
           w.thread \in {work[m].thread, <<>>},
           w.turn = work[m].turn, w.stage = work[m].stage, w.terminal = work[m].terminal,
           w.retryOf = work[m].retryOf, w.prompt = work[m].prompt
    PROVE  InstanceOK(w, turns)
<1>1. InstanceOK(work[m], turns)
  BY InstanceBefore
<1> QED
  BY <1>1, EmptyThread DEF InstanceOK

\* The effects, the other buttons and the answers of createConversation.
LEMMA PageStep ==
    ASSUME WorkspaceInv, NEW m \in Mounts,
           LoadConversation(m) \/ HandleCreate(m) \/ CreateAnswers(m) \/ HandleLogout(m)
    PROVE  WorkspaceInv'
<1> DEFINE v == work[m]
<1>1. /\ v \in Instance /\ turns \in Nat /\ conversations \in Nat /\ nav \in NavType
  BY InstanceBefore
<1>2. ASSUME NEW w \in Instance, Set(m, w), w.thread \in {v.thread, <<>>},
             w.turn = v.turn, w.stage = v.stage, w.terminal = v.terminal,
             w.retryOf = v.retryOf, w.prompt = v.prompt,
             UNCHANGED <<here, turns>>, conversations' \in Nat, nav' \in NavType,
             nav'.turn \in {0, nav.turn}
      PROVE  WorkspaceInv'
  BY <1>1, <1>2, SameSendStep, InstanceReplaced
<1>3. CASE LoadConversation(m)
  <2>1. PICK status \in {"ready", "error"}, conv \in {v.route, NoConversation} :
           Set(m, [v EXCEPT !.status = status, !.conv = conv])
    BY <1>3 DEF LoadConversation
  <2>2. [v EXCEPT !.status = status, !.conv = conv] \in Instance
    <3>1. conv \in Nat
      BY <1>1, InstanceFields DEF NoConversation
    <3> QED
      BY <1>1, <3>1 DEF Instance
  <2> QED
    BY <1>1, <1>2, <1>3, <2>1, <2>2 DEF LoadConversation, Instance
<1>4. CASE HandleCreate(m)
  <2>1. [v EXCEPT !.creating = TRUE] \in Instance
    BY <1>1 DEF Instance
  <2> QED
    BY <1>1, <1>2, <1>4, <2>1 DEF HandleCreate, Instance
<1>5. CASE CreateAnswers(m)
  <2>1. CASE /\ conversations' = conversations + 1
             /\ Set(m, [v EXCEPT !.creating = FALSE, !.conv = conversations',
                                 !.status = "ready", !.thread = <<>>])
             /\ nav' = Route(conversations', 0)
    <3>1. conversations' \in Nat /\ nav' \in NavType /\ nav'.turn = 0
      BY <1>1, <2>1 DEF Route, NavType
    <3> DEFINE w == [v EXCEPT !.creating = FALSE, !.conv = conversations',
                              !.status = "ready", !.thread = <<>>]
    <3>2. /\ w \in Instance /\ w.thread = <<>> /\ w.turn = v.turn /\ w.stage = v.stage
          /\ w.terminal = v.terminal /\ w.retryOf = v.retryOf /\ w.prompt = v.prompt
      <4>1. <<>> \in Seq(Message)
        OBVIOUS
      <4>2. ASSUME NEW c \in Nat
            PROVE  LET u == [v EXCEPT !.creating = FALSE, !.conv = c,
                                      !.status = "ready", !.thread = <<>>]
                   IN  /\ u \in Instance /\ u.thread = <<>> /\ u.turn = v.turn
                       /\ u.stage = v.stage /\ u.terminal = v.terminal
                       /\ u.retryOf = v.retryOf /\ u.prompt = v.prompt
        BY <1>1, <4>1 DEF Instance
      <4> QED
        BY <3>1, <4>2
    <3> HIDE DEF w
    <3>3. Set(m, w) /\ UNCHANGED <<here, turns>>
      BY <1>5, <2>1 DEF CreateAnswers, w
    <3> QED
      BY <1>2, <3>1, <3>2, <3>3
  <2>2. CASE Set(m, [v EXCEPT !.creating = FALSE]) /\ UNCHANGED <<nav, conversations>>
    <3>1. [v EXCEPT !.creating = FALSE] \in Instance
      BY <1>1 DEF Instance
    <3> QED
      BY <1>1, <1>2, <1>5, <2>2, <3>1 DEF CreateAnswers, Instance
  <2> QED
    BY <1>5, <2>1, <2>2 DEF CreateAnswers
<1>6. CASE HandleLogout(m)
  <2>1. /\ Abort(v) \in Instance /\ Abort(v).thread = v.thread /\ Abort(v).turn = v.turn
        /\ Abort(v).stage = v.stage /\ Abort(v).terminal = v.terminal
        /\ Abort(v).retryOf = v.retryOf /\ Abort(v).prompt = v.prompt
    BY <1>1 DEF Abort, Instance
  <2>2. nav' \in NavType /\ nav'.turn = 0
    BY <1>6 DEF HandleLogout, NoNav, NavType, NoConversation
  <2> QED
    BY <1>1, <1>2, <1>6, <2>1, <2>2 DEF HandleLogout
<1> QED
  BY <1>3, <1>4, <1>5, <1>6

\* A link only asks the router.
LEMMA OpenRouteStep ==
    ASSUME WorkspaceInv, NEW c \in 0..conversations, OpenRoute(c)
    PROVE  WorkspaceInv'
<1>1. nav' \in NavType /\ nav'.turn = 0
  <2>1. c \in Nat
    BY DEF WorkspaceInv, WorkspaceTypeOK
  <2> QED
    BY <2>1 DEF OpenRoute, Route, NavType
<1>2. turns \in Nat
  BY DEF WorkspaceInv, WorkspaceTypeOK
<1> QED
  BY <1>1, <1>2 DEF OpenRoute, WorkspaceInv, WorkspaceTypeOK

\* The instance left behind, and the new one.
LEMMA MountStep ==
    ASSUME WorkspaceInv, Mount
    PROVE  WorkspaceInv'
<1> DEFINE v == work[here]
           left == [Abort(v) EXCEPT !.thread = <<>>]
           next == Fresh(nav.to)
<1>1. /\ work \in [Mounts -> Instance] /\ turns \in Nat /\ here \in Mounts
      /\ nav \in NavType /\ conversations \in Nat /\ MaxMounts \in Nat
      /\ \A n \in Mounts : InstanceOK(work[n], turns) /\ work[n].turn \in Nat
  BY WorkspaceAssumption DEF WorkspaceInv, WorkspaceTypeOK, Mount, Mounts, Instance
<1>2. /\ left \in Instance /\ left.thread = <<>> /\ left.turn = v.turn
      /\ left.stage = v.stage /\ left.terminal = v.terminal
      /\ left.retryOf = v.retryOf /\ left.prompt = v.prompt
  <2>1. <<>> \in Seq(Message)
    OBVIOUS
  <2>2. v \in Instance
    BY <1>1
  <2> QED
    BY <2>1, <2>2 DEF Abort, Instance
<1> HIDE DEF left
<1>3. InstanceOK(left, turns)
  BY <1>1, <1>2, SameSendStep
<1>4. /\ next \in Instance /\ next.turn = 0 /\ next.thread = <<>>
      /\ next.stage = "idle" /\ next.terminal = "none"
  <2>1. <<>> \in Seq(Message) /\ nav.to \in Nat
    BY <1>1 DEF NavType
  <2> QED
    BY <2>1 DEF Fresh, Instance, Texts, NoConversation
<1> HIDE DEF next
<1>5. InstanceOK(next, turns)
  BY <1>1, <1>4, EmptyThread DEF InstanceOK
<1>6. \A n, l \in Mounts : work[n].turn = work[l].turn => n = l \/ work[n].turn = 0
  BY DEF WorkspaceInv
<1>7. NoNav \in NavType /\ NoNav.turn = 0
  BY DEF NoNav, NavType, NoConversation
<1>8. nav' = NoNav /\ UNCHANGED <<turns, conversations>>
  BY DEF Mount
<1>9. /\ here' \in 0..MaxMounts
      /\ work' \in [Mounts -> Instance]
      /\ work'[here] = left
      /\ \A n \in Mounts : work'[n] \in {work[n], next} \/ n = here
  <2>1. CASE nav.kind = "login"
    <3>1. here' = 0 /\ work' = [work EXCEPT ![here] = left]
      BY <2>1 DEF Mount, Set, left
    <3> QED
      BY <1>1, <1>2, <3>1
  <2>2. CASE nav.kind # "login"
    <3>1. /\ here < MaxMounts /\ here' = here + 1
          /\ work' = [work EXCEPT ![here] = left, ![here + 1] = next]
      BY <2>2 DEF Mount, left, next
    <3>2. here + 1 \in Mounts /\ here + 1 # here
      BY <1>1, <3>1 DEF Mounts
    <3>3. work' \in [Mounts -> Instance] /\ work'[here] = left
      BY <1>1, <1>2, <1>4, <3>1, <3>2
    <3>4. \A n \in Mounts : work'[n] \in {work[n], next} \/ n = here
      BY <1>1, <3>1, <3>2
    <3>5. here' \in 0..MaxMounts
      BY <3>1, <3>2 DEF Mounts
    <3> QED
      BY <3>3, <3>4, <3>5
  <2> QED
    BY <2>1, <2>2
<1>10. \A n \in Mounts : InstanceOK(work'[n], turns') /\ work'[n].turn \in {0, work[n].turn}
  BY <1>1, <1>2, <1>3, <1>4, <1>5, <1>8, <1>9
<1>11. \A n, l \in Mounts : work'[n].turn = work'[l].turn => n = l \/ work'[n].turn = 0
  BY <1>6, <1>10
<1>12. WorkspaceTypeOK'
  BY <1>1, <1>7, <1>8, <1>9 DEF WorkspaceTypeOK
<1> QED
  BY <1>1, <1>7, <1>8, <1>10, <1>11, <1>12 DEF WorkspaceInv

\* The page begins with an empty thread.
LEMMA InitWorkspaceInv == WorkspaceInit => WorkspaceInv
<1> SUFFICES ASSUME WorkspaceInit PROVE WorkspaceInv
  OBVIOUS
<1>1. PICK c \in {NoConversation, 1} : work = [m \in 1..MaxMounts |-> Fresh(c)]
  BY DEF WorkspaceInit
<1>2. /\ Fresh(c) \in Instance /\ Fresh(c).turn = 0 /\ Fresh(c).thread = <<>>
      /\ Fresh(c).stage = "idle" /\ Fresh(c).terminal = "none"
  <2>1. <<>> \in Seq(Message) /\ c \in Nat
    BY DEF NoConversation
  <2> QED
    BY <2>1 DEF Fresh, Instance, Texts, NoConversation
<1>3. InstanceOK(Fresh(c), 0)
  BY <1>2, EmptyThread DEF InstanceOK
<1>4. NoNav \in NavType /\ NoNav.turn = 0
  BY DEF NoNav, NavType, NoConversation
<1>5. work \in [Mounts -> Instance] /\ \A m \in Mounts : work[m] = Fresh(c)
  BY <1>1, <1>2 DEF Mounts
<1>6. here \in 0..MaxMounts /\ turns = 0 /\ conversations \in Nat /\ nav = NoNav
  BY WorkspaceAssumption DEF WorkspaceInit
<1> QED
  BY <1>2, <1>3, <1>4, <1>5, <1>6 DEF WorkspaceInv, WorkspaceTypeOK

\* Every step keeps the invariant.
LEMMA WorkspaceStep == WorkspaceInv /\ [WorkspaceNext]_workspaceVars => WorkspaceInv'
<1> SUFFICES ASSUME WorkspaceInv, [WorkspaceNext]_workspaceVars PROVE WorkspaceInv'
  OBVIOUS
<1>1. CASE UNCHANGED workspaceVars
  BY <1>1 DEF workspaceVars, WorkspaceInv, WorkspaceTypeOK
<1>2. ASSUME NEW m \in 1..MaxMounts, NEW p \in Prompts, SubmitPrompt(m, p)
      PROVE  WorkspaceInv'
  <2>1. SameQuestion(work[m].thread, 0, p)
    BY InstanceBefore DEF SameQuestion, Ordered, Mounts
  <2> QED
    BY <1>2, <2>1, BeginSendStep DEF SubmitPrompt, Mounts, Texts
<1>3. ASSUME NEW m \in 1..MaxMounts, NEW k \in DOMAIN work[m].thread, HandleRetry(m, k)
      PROVE  WorkspaceInv'
  <2> DEFINE thread == work[m].thread
  <2>1. /\ thread \in Seq(Message) /\ Ordered(thread, turns) /\ turns \in Nat
        /\ k \in Answers(thread)
    BY <1>3, InstanceBefore DEF HandleRetry, Answers, Mounts
  <2>2. RetryPrompt(thread, k) = thread[k].prompt
    BY <2>1, RetryFindsQuestion
  <2>3. thread[k].prompt \in Texts /\ thread[k].turn \in Nat
    <3>1. thread[k] \in Message
      BY <2>1
    <3> QED
      BY <3>1 DEF Message
  <2>4. SameQuestion(thread, thread[k].turn, thread[k].prompt)
    BY <2>1 DEF SameQuestion, Ordered
  <2>5. BeginSend(m, thread[k].prompt, thread[k].turn)
    BY <1>3, <2>2 DEF HandleRetry
  <2> QED
    BY <2>3, <2>4, <2>5, BeginSendStep DEF Mounts
<1>4. ASSUME NEW m \in 1..MaxMounts,
             OpenForSend(m) \/ TerminalEvent(m) \/ StreamEnds(m) \/ StreamFails(m)
      PROVE  WorkspaceInv'
  BY <1>4, OpenForSendStep, TerminalEventStep, StreamEndsStep, StreamFailsStep DEF Mounts
<1>5. ASSUME NEW m \in 1..MaxMounts,
             LoadConversation(m) \/ HandleCreate(m) \/ CreateAnswers(m) \/ HandleLogout(m)
      PROVE  WorkspaceInv'
  BY <1>5, PageStep DEF Mounts
<1>6. CASE (\E c \in 0..conversations : OpenRoute(c)) \/ Mount
  BY <1>6, OpenRouteStep, MountStep
<1> QED
  BY <1>1, <1>2, <1>3, <1>4, <1>5, <1>6 DEF WorkspaceNext

\* The invariant behind the chat page.
THEOREM WorkspaceInvariant == WorkspaceSpec => []WorkspaceInv
BY InitWorkspaceInv, WorkspaceStep, PTL DEF WorkspaceSpec

\* handleSend, handleRetry, updateAssistantMessage: answers settle under their
\* questions, and the route a send asks for aborts no stream of its own, for any
\* number of sends, conversations and mounted instances.
THEOREM WorkspaceIsSound == WorkspaceSpec => []WorkspaceSound
<1>1. WorkspaceInv => WorkspaceSound
  <2> SUFFICES ASSUME WorkspaceInv, here # 0 PROVE WorkspaceSound
    BY DEF WorkspaceSound, ThreadSettled, FirstStreamSurvives
  <2>1. here \in Mounts
    BY WorkspaceAssumption DEF WorkspaceInv, WorkspaceTypeOK, Mounts
  <2>2. InstanceOK(work[here], turns)
    BY <2>1 DEF WorkspaceInv
  <2>3. ThreadSettled
    BY <2>2 DEF ThreadSettled, InstanceOK, Ordered, OnlyStreams, NoStream, Answers
  <2>4. FirstStreamSurvives
    BY <2>1 DEF FirstStreamSurvives, WorkspaceInv
  <2> QED
    BY <2>3, <2>4 DEF WorkspaceSound
<1> QED
  BY <1>1, WorkspaceInvariant, PTL
=============================================================================

---------------------------- MODULE ChatWorkspace ----------------------------
(***************************************************************************)
(* The chat page of one tab (frontend/src/features/chat/chat-workspace.tsx *)
(* and chat-center.tsx) over the event stream of chat.api.ts.              *)
(*                                                                         *)
(* A page shows one conversation, and every change of route mounts a new   *)
(* instance of the workspace.  The cleanup of the old one aborts its       *)
(* request, but a handler that is waiting for an answer lives on: what it  *)
(* sets is no longer shown, what it asks of the router still happens.      *)
(* A router call takes effect later, and the last one wins.                *)
(*                                                                         *)
(* Token events only extend a text that nothing here depends on.           *)
(***************************************************************************)
EXTENDS Naturals, Sequences

CONSTANTS
    Prompts,
    MaxMounts,          \* bound: mounted instances
    MaxTurns,           \* bound: sends, retries included
    MaxConversations    \* bound: conversations, the first one exists already

ASSUME WorkspaceAssumption ==
    /\ MaxMounts \in Nat \ {0} /\ MaxTurns \in Nat
    /\ MaxConversations \in Nat \ {0}

VARIABLES
    here,           \* the mounted instance; 0 on the login screen
    work,           \* work[m]: the state, refs and running handlers of instance m
    nav,            \* the router call under way
    turns,          \* sends so far; a turn names the answer it streams
    conversations   \* conversations created so far

workspaceVars == <<here, work, nav, turns, conversations>>

NoConversation == 0
NoNav == [kind |-> "none", to |-> NoConversation, turn |-> 0]

\* router.push or router.replace; turn is the send that asks for it, 0 otherwise.
Route(c, turn) == [kind |-> "route", to |-> c, turn |-> turn]

\* A new instance for route c: activeConversation is set by the load effect.
Fresh(c) ==
    [route |-> c, status |-> IF c = NoConversation THEN "idle" ELSE "loading",
     conv |-> NoConversation, thread |-> <<>>, creating |-> FALSE,
     stage |-> "idle", prompt |-> "none", turn |-> 0, retryOf |-> 0,
     opened |-> NoConversation, terminal |-> "none", aborted |-> FALSE]

WorkspaceInit ==
    /\ here = 1
    /\ work \in {[m \in 1..MaxMounts |-> Fresh(c)] : c \in {NoConversation, 1}}
    /\ nav = NoNav
    /\ turns = 0
    /\ conversations = 1

Answer(turn, prompt) ==
    [role |-> "assistant", turn |-> turn, prompt |-> prompt,
     state |-> "streaming", retryable |-> FALSE]

Question(turn, prompt) ==
    [role |-> "user", turn |-> turn, prompt |-> prompt,
     state |-> "complete", retryable |-> FALSE]

\* The message with an id is replaced where it stands; ids are the turns.
Replace(thread, turn, message) ==
    [k \in DOMAIN thread |->
        IF thread[k].role = "assistant" /\ thread[k].turn = turn THEN message ELSE thread[k]]

\* setMessages of handleSend: a retry takes the place of the failed answer.
WithTurn(v) ==
    IF v.retryOf # 0
    THEN Replace(v.thread, v.retryOf, Answer(v.turn, v.prompt))
    ELSE v.thread \o <<Question(v.turn, v.prompt), Answer(v.turn, v.prompt)>>

\* updateAssistantMessage
Marked(v, state, retryable) ==
    [k \in DOMAIN v.thread |->
        IF v.thread[k].role = "assistant" /\ v.thread[k].turn = v.turn
        THEN [v.thread[k] EXCEPT !.state = state, !.retryable = retryable]
        ELSE v.thread[k]]

\* Setters of an instance that is no longer mounted have no effect.
Shown(m, thread) == IF m = here THEN thread ELSE <<>>

Set(m, v) == work' = [work EXCEPT ![m] = v]

\* The finally clause of handleSend; the locals are gone.
Returned(v) ==
    [v EXCEPT !.stage = "idle", !.prompt = "none", !.turn = 0, !.retryOf = 0,
              !.opened = NoConversation, !.terminal = "none", !.aborted = FALSE]

-----------------------------------------------------------------------------
(***************************************************************************)
(* The effects and the composer                                            *)
(***************************************************************************)
\* getConversation and the first page of messages.
LoadConversation(m) ==
    /\ m = here
    /\ work[m].status = "loading"
    /\ \/ Set(m, [work[m] EXCEPT !.status = "ready", !.conv = work[m].route])
       \/ Set(m, [work[m] EXCEPT !.status = "error", !.conv = NoConversation])
    /\ UNCHANGED <<here, nav, turns, conversations>>

ComposerDisabled(m) == work[m].status \in {"loading", "error"}

\* handleSend up to its first wait; requestInFlight keeps a second one out.
BeginSend(m, prompt, retryOf) ==
    LET begun == [work[m] EXCEPT !.prompt = prompt, !.turn = turns + 1,
                                 !.retryOf = retryOf] IN
    /\ work[m].stage = "idle"
    /\ turns < MaxTurns
    /\ turns' = turns + 1
    /\ IF work[m].conv = NoConversation
       THEN Set(m, [begun EXCEPT !.stage = "create"])
       ELSE Set(m, [begun EXCEPT !.stage = "stream", !.thread = WithTurn(begun)])
    /\ UNCHANGED <<here, nav, conversations>>

SubmitPrompt(m, prompt) ==
    /\ m = here
    /\ ~ComposerDisabled(m)
    /\ BeginSend(m, prompt, 0)

\* findRetryPrompt: the nearest question above the answer.
RetryPrompt(thread, k) ==
    LET above == {j \in 1..(k - 1) : thread[j].role = "user"}
    IN  thread[CHOOSE j \in above : \A i \in above : i <= j].prompt

HandleRetry(m, k) ==
    /\ m = here
    /\ work[m].thread[k].role = "assistant"
    /\ work[m].thread[k].retryable
    /\ work[m].thread[k].state \in {"aborted", "error"}
    /\ BeginSend(m, RetryPrompt(work[m].thread, k), work[m].thread[k].turn)

-----------------------------------------------------------------------------
(***************************************************************************)
(* handleSend after its waits                                              *)
(***************************************************************************)
\* Mutant: the route of the new conversation is opened as soon as it exists.
NavOnOpen_AtOnce(m, c) == nav' = Route(c, work[m].turn)

\* "Navigating earlier would remount the workspace and abort the first stream."
NavOnOpen(m, c) == UNCHANGED nav

\* createConversation for the first message; on failure there is no answer to
\* mark yet.
OpenForSend(m) ==
    LET c == conversations + 1
        open == [work[m] EXCEPT !.conv = c, !.status = "ready",
                                !.opened = c, !.stage = "stream"] IN
    /\ work[m].stage = "create"
    /\ \/ /\ c <= MaxConversations
          /\ conversations' = c
          /\ Set(m, [open EXCEPT !.thread = Shown(m, WithTurn(open))])
          /\ NavOnOpen(m, c)
       \/ Set(m, Returned(work[m])) /\ UNCHANGED <<nav, conversations>>
    /\ UNCHANGED <<here, turns>>

Streaming(m) == work[m].stage = "stream" /\ ~work[m].aborted

\* A done or an error event.
TerminalEvent(m) ==
    /\ Streaming(m)
    /\ work[m].terminal = "none"
    /\ \/ Set(m, [work[m] EXCEPT !.terminal = "done",
                                 !.thread = Marked(work[m], "complete", FALSE)])
       \/ \E retryable \in BOOLEAN :
             Set(m, [work[m] EXCEPT !.terminal = "error",
                                    !.thread = Marked(work[m], "error", retryable)])
    /\ UNCHANGED <<here, nav, turns, conversations>>

\* The body ends after a terminal event: handleSend returns, and opens the route
\* of the conversation it created, even if handleCreate has made another since.
StreamEnds(m) ==
    /\ Streaming(m)
    /\ work[m].terminal # "none"
    /\ nav' = IF work[m].opened # NoConversation /\ work[m].terminal = "done"
              THEN Route(work[m].opened, work[m].turn)
              ELSE nav
    /\ Set(m, Returned(work[m]))
    /\ UNCHANGED <<here, turns, conversations>>

AfterAbort(v) == Marked(v, "aborted", TRUE)

\* The catch clause: the AbortError of an aborted request; or a refused
\* request, a broken connection, an event that does not parse, or a body that
\* ends before a terminal event (STREAM_INTERRUPTED).
StreamFails(m) ==
    /\ work[m].stage = "stream"
    /\ \/ /\ work[m].aborted
          /\ Set(m, [Returned(work[m]) EXCEPT !.thread = AfterAbort(work[m])])
       \/ /\ ~work[m].aborted
          /\ \E retryable \in BOOLEAN :
                Set(m, [Returned(work[m]) EXCEPT
                           !.thread = Marked(work[m], "error", retryable)])
    /\ UNCHANGED <<here, nav, turns, conversations>>

-----------------------------------------------------------------------------
(***************************************************************************)
(* Navigation                                                              *)
(***************************************************************************)
\* handleCreate, which a running stream does not prevent.
HandleCreate(m) ==
    /\ m = here
    /\ ~work[m].creating
    /\ Set(m, [work[m] EXCEPT !.creating = TRUE])
    /\ UNCHANGED <<here, nav, turns, conversations>>

CreateAnswers(m) ==
    /\ work[m].creating
    /\ \/ /\ conversations < MaxConversations
          /\ conversations' = conversations + 1
          /\ Set(m, [work[m] EXCEPT !.creating = FALSE, !.conv = conversations',
                                    !.status = "ready", !.thread = <<>>])
          /\ nav' = Route(conversations', 0)
       \/ Set(m, [work[m] EXCEPT !.creating = FALSE]) /\ UNCHANGED <<nav, conversations>>
    /\ UNCHANGED <<here, turns>>

\* A link of the sidebar, or the back button.
OpenRoute(c) ==
    /\ here # 0
    /\ c # work[here].route
    /\ nav' = Route(c, 0)
    /\ UNCHANGED <<here, work, turns, conversations>>

Abort(v) == IF v.stage = "stream" THEN [v EXCEPT !.aborted = TRUE] ELSE v

\* handleLogout: the request is aborted while the page is still there.
HandleLogout(m) ==
    /\ m = here
    /\ Set(m, Abort(work[m]))
    /\ nav' = [NoNav EXCEPT !.kind = "login"]
    /\ UNCHANGED <<here, turns, conversations>>

\* The route changes: cleanup of the old instance, a new one is mounted.
Mount ==
    /\ here # 0
    /\ nav # NoNav
    /\ IF nav.kind = "login"
       THEN /\ here' = 0
            /\ Set(here, [Abort(work[here]) EXCEPT !.thread = <<>>])
       ELSE /\ here < MaxMounts
            /\ here' = here + 1
            /\ work' = [work EXCEPT ![here] = [Abort(work[here]) EXCEPT !.thread = <<>>],
                                    ![here + 1] = Fresh(nav.to)]
    /\ nav' = NoNav
    /\ UNCHANGED <<turns, conversations>>

WorkspaceNext ==
    \/ \E m \in 1..MaxMounts :
          \/ LoadConversation(m)
          \/ \E p \in Prompts : SubmitPrompt(m, p)
          \/ \E k \in DOMAIN work[m].thread : HandleRetry(m, k)
          \/ OpenForSend(m) \/ TerminalEvent(m) \/ StreamEnds(m) \/ StreamFails(m)
          \/ HandleCreate(m) \/ CreateAnswers(m) \/ HandleLogout(m)
    \/ \E c \in 0..conversations : OpenRoute(c)
    \/ Mount

WorkspaceSpec == WorkspaceInit /\ [][WorkspaceNext]_workspaceVars

-----------------------------------------------------------------------------
(***************************************************************************)
(* Properties                                                              *)
(***************************************************************************)
\* The thread on the screen is settled: an answer is marked as streaming only
\* while its own request runs, and stands under the question it answers, after
\* any sequence of failures, retries, aborts and new conversations.
ThreadSettled ==
    here # 0 =>
        \A k \in DOMAIN work[here].thread :
            LET message == work[here].thread[k] IN
            message.role = "assistant" =>
                /\ message.state = "streaming" =>
                      work[here].stage = "stream" /\ message.turn = work[here].turn
                /\ message.prompt = work[here].thread[k - 1].prompt

\* The navigation a send asks for never aborts that send
\* (chat-workspace.tsx:329).
FirstStreamSurvives ==
    /\ here # 0
    /\ nav.turn # 0
    => ~(work[here].stage = "stream" /\ work[here].turn = nav.turn)

\* docs/15_PHASE.md: "route changes abort the active stream".  An instance that
\* is no longer mounted has no request of its own running.
RouteChangeAborts ==
    \A m \in 1..MaxMounts : m # here => ~Streaming(m)

\* What the page shows is settled, and its own navigation costs no answer.
WorkspaceSound == ThreadSettled /\ FirstStreamSurvives
=============================================================================

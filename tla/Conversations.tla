----------------------------- MODULE Conversations -----------------------------
(* Conversations, their messages and the lists that page through them:         *)
(* conversation.service/repository, message.service/repository, the request    *)
(* log list of admin.repository/admin.service, and what a chat request takes   *)
(* from a conversation as provider history (chat-context.ts, with the policy   *)
(* of PromptPolicy applied again to every user message).                       *)
(*                                                                             *)
(* Time is the application's clock in milliseconds: a record takes its time    *)
(* from the clock when the handler builds it and becomes visible later, when   *)
(* its write or its transaction commits, so records may appear out of order    *)
(* of time and several may share one millisecond.  Identifiers are random      *)
(* UUIDs used as tie-breakers: here they are fixed per request, and requests   *)
(* commit in any order, which gives every relative order of times and ids.     *)
EXTENDS PromptPolicy

CONSTANTS
    Convs,              \* conversation ids (naturals: they break ties)
    Requests,           \* chat requests (naturals: they order the record ids)
    Score,              \* [Requests -> risk score of the request's prompt]
    Size,               \* [Requests -> estimated tokens of its message pair]
    Readers,            \* clients paging through a list
    PageLimit,          \* items per page
    HistoryRecords,     \* PROVIDER_HISTORY_RECORD_LIMIT
    HistoryTokens,      \* MAX_PROVIDER_HISTORY_ESTIMATED_TOKENS
    MaxTime             \* bound on the clock

ASSUME ConversationAssumption ==
    /\ Convs \subseteq Nat /\ Requests \subseteq Nat
    /\ Score \in [Requests -> Nat] /\ Size \in [Requests -> Nat]
    /\ PageLimit \in Nat \ {0}
    /\ HistoryRecords \in Nat \ {0} /\ HistoryTokens \in Nat
    /\ MaxTime \in Nat

VARIABLES
    clock,
    settings,           \* the organisation's [policy, retention]
    conv,               \* [Convs -> [exists, last, count, titled]]; last -1 is null
    msgs,               \* message records
    logs,               \* request log records
    req,                \* [Requests -> the chat handler]
    reader              \* [Readers -> a traversal of one list]

convVars == <<clock, settings, conv, msgs, logs, req, reader>>

Retention == {"METADATA_ONLY", "ENCRYPTED_STORAGE"}
NotBegun == [stage |-> "idle", conv |-> 0, policy |-> CHOOSE t \in Thresholds : TRUE,
          retention |-> "METADATA_ONLY", logAt |-> 0, at |-> 0, history |-> <<>>]
Finished == [NotBegun EXCEPT !.stage = "done"]
NoTraversal == [list |-> "none", cursor |-> <<>>, shown |-> <<>>, start |-> {},
                moved |-> {}, done |-> FALSE]

MessagesOf(r) == {m \in msgs : m.req = r}
MessagesIn(c) == {m \in msgs : m.conv = c}

-------------------------------------------------------------------------------
(* Lists.  An item is <<id, key>>; pages are cut from the sorted items.         *)

\* The sort of each list: messages ascend by (createdAt, messageId); request
\* logs descend by (createdAt, requestId); conversations descend by
\* (lastMessageAt, conversationId), a null lastMessageAt (-1) coming last.
Before(list, a, b) ==
    IF list = "messages"
    THEN a.key < b.key \/ (a.key = b.key /\ a.id < b.id)
    ELSE a.key > b.key \/ (a.key = b.key /\ a.id > b.id)

Items(list) ==
    CASE list = "messages" -> {[id |-> m.id, key |-> m.at] : m \in MessagesIn(1)}
      [] list = "logs" -> {[id |-> l.req, key |-> l.at] : l \in logs}
      [] list = "conversations" ->
            {[id |-> c, key |-> conv[c].last] : c \in {d \in Convs : conv[d].exists}}
      [] OTHER -> {}

\* Mutant: the cursor compares the time only.
AfterCursor_TimeOnly(list, item, cursor) ==
    cursor = <<>> \/ (IF list = "messages" THEN item.key > cursor[1].key
                      ELSE item.key < cursor[1].key)

\* createCursorFilter of the three repositories.
AfterCursor(list, item, cursor) == cursor = <<>> \/ Before(list, cursor[1], item)

\* .sort().limit(limit + 1): the extra item only tells whether there are more.
Fetched(list, cursor) ==
    LET rest == {i \in Items(list) : AfterCursor(list, i, cursor)}
        place(i) == Cardinality({j \in rest : Before(list, j, i)}) + 1
    IN  [n \in 1..Min({Cardinality(rest), PageLimit + 1}) |-> CHOOSE i \in rest : place(i) = n]

\* A client opens a list.
OpenList(d, list) ==
    /\ reader[d].list = "none"
    /\ reader' = [reader EXCEPT ![d] =
            [NoTraversal EXCEPT !.list = list, !.start = Items(list)]]
    /\ UNCHANGED <<clock, settings, conv, msgs, logs, req>>

\* One page; nextCursor is the last item shown, null when there are no more
\* (listMessagesForConversationOwner, listConversationsForOwner, toPage).
NextPage(d) ==
    /\ reader[d].list # "none" /\ ~reader[d].done
    /\ LET fetched == Fetched(reader[d].list, reader[d].cursor)
           hasMore == Len(fetched) > PageLimit
           page    == SubSeq(fetched, 1, Min({Len(fetched), PageLimit}))
       IN  reader' = [reader EXCEPT ![d].shown = @ \o page,
                                    ![d].cursor = IF hasMore THEN <<Last(page)>> ELSE @,
                                    ![d].done = ~hasMore]
    /\ UNCHANGED <<clock, settings, conv, msgs, logs, req>>

\* Readers of the conversation list note the conversations that moved in it.
Moved(c) ==
    [d \in Readers |-> IF reader[d].list = "conversations"
                       THEN [reader[d] EXCEPT !.moved = @ \cup {c}] ELSE reader[d]]

-------------------------------------------------------------------------------
(* Conversations *)

CreateConversation(c) ==
    /\ ~conv[c].exists
    /\ conv' = [conv EXCEPT ![c].exists = TRUE]
    /\ UNCHANGED <<clock, settings, msgs, logs, req, reader>>

\* updateTitleOwned: the custom title is set, or removed again.
RenameConversation(c, titled) ==
    /\ conv[c].exists
    /\ conv' = [conv EXCEPT ![c].titled = titled]
    /\ UNCHANGED <<clock, settings, msgs, logs, req, reader>>

\* updateOrganisationPolicy, updateOrganisationRetention.
UpdateSettings(t, mode) ==
    /\ settings' = [policy |-> t, retention |-> mode]
    /\ UNCHANGED <<clock, conv, msgs, logs, req, reader>>

-------------------------------------------------------------------------------
(* Provider history *)

\* findRecentRetainedForOwner, then oldest first.
RecentRetained(c) ==
    LET retained == {m \in MessagesIn(c) : m.stored}
        earlier(a, b) == a.at < b.at \/ (a.at = b.at /\ a.id < b.id)
        sorted == Sorted(retained, {p \in retained \X retained : earlier(p[1], p[2])})
    IN  SubSeq(sorted, Max({1, Len(sorted) - HistoryRecords + 1}), Len(sorted))

\* pairMessagesByRequest: the requests that have both halves among the messages.
CompletePairs(messages) ==
    {r \in {m.req : m \in Range(messages)} :
        {m.role : m \in {n \in Range(messages) : n.req = r}} = {"USER", "ASSISTANT"}}

\* Its Map keeps the requests in the order of their first records.
InOrder(requests, messages) ==
    LET first(r) == Min({n \in DOMAIN messages : messages[n].req = r})
    IN  Sorted(requests, {p \in requests \X requests : first(p[1]) < first(p[2])})

\* Mutant: what was once sent may be sent again.
Sanitized_Trusts(r, t) == "ALLOW"

\* sanitizeUserContent: the stored prompt is judged again, by the thresholds
\* this request loaded and a budget that is not exceeded.
Sanitized(r, t) == EvaluatePolicy(Score[r], FALSE, t)

SentPair == [req : Requests, action : {"BLOCK", "ALLOW_WITH_MASK", "ALLOW", "none"}]
Taken == [pairs : Seq(SentPair), tokens : Nat, full : BOOLEAN]

\* buildBoundedProviderHistory: the newest approved pairs that fit, oldest first.
\* It stops at the first pair that does not fit.
BuildHistory(messages, t) ==
    LET approved == {r \in CompletePairs(messages) : Sanitized(r, t) # "BLOCK"}
        take == [acc \in Taken |-> [r \in Requests |->
            IF acc.full \/ acc.tokens + Size[r] > HistoryTokens
            THEN [acc EXCEPT !.full = TRUE]
            ELSE [pairs |-> <<[req |-> r, action |-> Sanitized(r, t)]>> \o acc.pairs,
                  tokens |-> acc.tokens + Size[r], full |-> FALSE]]]
    IN  FoldBack(take, [pairs |-> <<>>, tokens |-> 0, full |-> FALSE],
                 InOrder(approved, messages)).pairs

\* prepareChatStream up to its reservation: ownership, then the settings that
\* this request is judged by from now on.
LoadSettings(r, c) ==
    /\ req[r].stage = "idle"
    /\ conv[c].exists
    /\ Sanitized(r, settings.policy) # "BLOCK"
    /\ req' = [req EXCEPT ![r] = [NotBegun EXCEPT
            !.stage = "preparing", !.conv = c, !.policy = settings.policy,
            !.retention = settings.retention]]
    /\ UNCHANGED <<clock, settings, conv, msgs, logs, reader>>

\* Many awaits later, the history as it is by then.
TakeHistory(r) ==
    /\ req[r].stage = "preparing"
    /\ req' = [req EXCEPT ![r].stage = "streaming", ![r].history =
            IF req[r].retention = "ENCRYPTED_STORAGE"
            THEN BuildHistory(RecentRetained(req[r].conv), req[r].policy) ELSE <<>>]
    /\ UNCHANGED <<clock, settings, conv, msgs, logs, reader>>

-------------------------------------------------------------------------------
(* Completion: recordUsageAndComplete of chat.service.ts *)

\* The stream completes; the request log record takes its time.
Complete(r) ==
    /\ req[r].stage = "streaming"
    /\ req' = [req EXCEPT ![r] = [NotBegun EXCEPT !.stage = "logging", !.conv = req[r].conv,
                                     !.retention = req[r].retention, !.logAt = clock]]
    /\ UNCHANGED <<clock, settings, conv, msgs, logs, reader>>

\* appendUsage commits; persistCompletedMessagePair takes its time.
AppendLog(r) ==
    /\ req[r].stage = "logging"
    /\ logs' = logs \cup {[req |-> r, at |-> req[r].logAt]}
    /\ req' = [req EXCEPT ![r].stage = "persisting", ![r].at = clock, ![r].logAt = 0]
    /\ UNCHANGED <<clock, settings, conv, msgs, reader>>

Message(r, role, later) ==
    [req |-> r, conv |-> req[r].conv, stored |-> req[r].retention = "ENCRYPTED_STORAGE",
     role |-> role, at |-> req[r].at + later, id |-> 2 * r + later]

PairOf(r) == {Message(r, "USER", 0), Message(r, "ASSISTANT", 1)}

\* existingCount === 2: this request's pair is already there.
AlreadyPersisted(r) == Cardinality(MessagesOf(r)) = 2

\* uniq_messages_org_request_role
InsertRefused(r) == \E m \in MessagesOf(r), n \in PairOf(r) : m.role = n.role

\* The transaction: both records, messageCount + 2 and lastMessageAt.  Its
\* commit may be acknowledged, or the driver runs the callback again.
CommitPair(r, acknowledged) ==
    /\ req[r].stage = "persisting"
    /\ IF AlreadyPersisted(r) THEN UNCHANGED <<conv, msgs, reader>>
       ELSE LET c == req[r].conv
            IN  /\ ~InsertRefused(r)
                /\ msgs' = msgs \cup PairOf(r)
                /\ conv' = [conv EXCEPT ![c].count = @ + 2, ![c].last = req[r].at + 1]
                /\ reader' = Moved(c)
    /\ req' = [req EXCEPT ![r] = IF acknowledged THEN Finished ELSE @]
    /\ UNCHANGED <<clock, settings, logs>>

\* Mutant: the activity is counted outside the session.
PersistFails_Counted(r) ==
    /\ req[r].stage = "persisting"
    /\ req' = [req EXCEPT ![r] = Finished]
    /\ conv' = [conv EXCEPT ![req[r].conv].count = @ + 2]
    /\ UNCHANGED <<clock, settings, msgs, logs, reader>>

\* Encryption or the transaction fails: 503.  It leaves nothing, but an earlier
\* commit whose acknowledgement was lost may have left the pair.
PersistFails(r) ==
    /\ req[r].stage = "persisting"
    /\ req' = [req EXCEPT ![r] = Finished]
    /\ UNCHANGED <<clock, settings, conv, msgs, logs, reader>>

TickClock ==
    /\ clock < MaxTime
    /\ clock' = clock + 1
    /\ UNCHANGED <<settings, conv, msgs, logs, req, reader>>

ConvInit ==
    /\ clock = 0
    /\ settings \in [policy : Thresholds, retention : Retention]
    /\ conv = [c \in Convs |-> [exists |-> c = 1, last |-> -1, count |-> 0, titled |-> FALSE]]
    /\ msgs = {} /\ logs = {}
    /\ req = [r \in Requests |-> NotBegun]
    /\ reader = [d \in Readers |-> NoTraversal]

RequestStep(r) ==
    \/ \E c \in Convs : LoadSettings(r, c)
    \/ TakeHistory(r) \/ Complete(r) \/ AppendLog(r) \/ PersistFails(r)
    \/ \E ack \in BOOLEAN : CommitPair(r, ack)

ReaderStep(d) ==
    \/ \E list \in {"messages", "logs", "conversations"} : OpenList(d, list)
    \/ NextPage(d)

ConvNext ==
    \/ TickClock
    \/ \E r \in Requests : RequestStep(r)
    \/ \E d \in Readers : ReaderStep(d)
    \/ \E c \in Convs : CreateConversation(c)
    \/ \E c \in Convs, titled \in BOOLEAN : RenameConversation(c, titled)
    \/ \E t \in Thresholds, mode \in Retention : UpdateSettings(t, mode)

ConvSpec == ConvInit /\ [][ConvNext]_convVars

-------------------------------------------------------------------------------
\* A traversal never shows an item twice and, once it has ended, has shown every
\* item that was in the list when it began, although items are inserted behind
\* and before its cursor and share their time; conversations that received a
\* message meanwhile have moved and are excepted: the cursor filters.
PagesExact ==
    \A d \in Readers :
        LET r == reader[d]
            times(i) == Cardinality({n \in 1..Len(r.shown) : r.shown[n].id = i.id})
        IN  /\ \A n \in 1..Len(r.shown) : r.shown[n].id \in r.moved \/ times(r.shown[n]) = 1
            /\ r.done => \A i \in r.start : i.id \in r.moved \/ times(i) = 1

\* A conversation's message count is the number of its messages, which come in
\* whole pairs, also when a transaction ran twice or failed:
\* persistCompletedMessagePair.
CountsMatchMessages ==
    /\ \A c \in Convs : conv[c].count = Cardinality(MessagesIn(c))
    /\ \A r \in Requests : Cardinality(MessagesOf(r)) \in {0, 2}

EstimatedTokens(history) ==
    LET add == [n \in Nat |-> [p \in SentPair |-> n + Size[p.req]]] IN Fold(add, 0, history)

\* The history sent with a request holds only questions that the thresholds it
\* loaded let through, each masked when they say so, with their own answers, no
\* more than the token bound: an answer never appears without its question, and
\* a stricter policy applies to what was said before it, by every request that
\* loads its settings after the change.
\* buildBoundedProviderHistory.
HistoryHonoursPolicy ==
    \A r \in Requests : req[r].stage = "streaming" =>
        LET h == req[r].history
        IN  /\ EstimatedTokens(h) <= HistoryTokens
            /\ \A n \in 1..Len(h) :
                   /\ Score[h[n].req] < req[r].policy.block
                   /\ Score[h[n].req] >= req[r].policy.mask => h[n].action = "ALLOW_WITH_MASK"
                   /\ \A m \in MessagesOf(h[n].req) : m.conv = req[r].conv /\ m.stored
                   /\ n > 1 => Max({m.at : m \in MessagesOf(h[n - 1].req)})
                                <= Max({m.at : m \in MessagesOf(h[n].req)})
===============================================================================

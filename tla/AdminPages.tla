------------------------------ MODULE AdminPages ------------------------------
(***************************************************************************)
(* A list of the administration pages and the control that changes one of  *)
(* its records: the reload and the page requests of admin-dashboard.tsx    *)
(* and admin-audit-browser.tsx (the conversation list of chat-workspace.tsx *)
(* is loaded the same way), appendUniquePage, and the mutation controls of *)
(* admin-mutation-confirmation.tsx.                                        *)
(*                                                                         *)
(* The server sorts newest first.  The key of a conversation is its last   *)
(* message and changes; that of an administration record is its creation,  *)
(* and a change made here leaves it alone.  An answer shows the list as it *)
(* was when the server read it, and arrives later.  A reload aborts the    *)
(* reload before it and nothing else.                                      *)
(***************************************************************************)
EXTENDS Naturals, Sequences, FiniteSets

CONSTANTS
    Items,      \* the records
    PageSize,
    MaxClock    \* bound: changes at the server

ASSUME PagesAssumption ==
    /\ IsFiniteSet(Items)
    /\ PageSize \in Nat \ {0}
    /\ MaxClock \in Nat /\ MaxClock >= Cardinality(Items)

VARIABLES
    key,        \* key[i]: the sort key of item i at the server
    clock,      \* the changes so far; the newest key is one of them
    rows,       \* the items displayed, in order
    cursor,     \* nextCursor; 0 for null
    readAt,     \* clock when the displayed first page was read
    fetches,    \* the requests under way: "reload", "refresh" and "page"
    control     \* the mutation control

pagesVars == <<key, clock, rows, cursor, readAt, fetches, control>>

Fetches == {"reload", "refresh", "page"}
NoFetch == [stage |-> "none", from |-> 0, items |-> <<>>, next |-> 0, read |-> 0]

PagesInit ==
    /\ key \in {f \in [Items -> 1..Cardinality(Items)] :
                   \A i, j \in Items : f[i] = f[j] => i = j}
    /\ clock = Cardinality(Items)
    /\ rows = <<>> /\ cursor = 0 /\ readAt = 0
    /\ fetches = [f \in Fetches |-> NoFetch]
    /\ control \in {[kind |-> kind, open |-> FALSE, state |-> "idle", asked |-> FALSE,
                     step |-> "none", saved |-> 0] : kind \in {"confirmed", "direct"}}

-----------------------------------------------------------------------------
(***************************************************************************)
(* The server                                                              *)
(***************************************************************************)
Older(c) == {i \in Items : c = 0 \/ key[i] < c}

\* The newest items of a set, at most a page of them.
Newest(S) ==
    LET n == IF Cardinality(S) < PageSize THEN Cardinality(S) ELSE PageSize
    IN  [k \in 1..n |->
            CHOOSE i \in S : Cardinality({j \in S : key[j] > key[i]}) = k - 1]

NextCursor(S) ==
    IF Cardinality(S) <= PageSize THEN 0 ELSE key[Newest(S)[PageSize]]

\* The server reads the page a request asks for.
ServeFetch(f) ==
    LET S == Older(fetches[f].from) IN
    /\ fetches[f].stage = "sent"
    /\ fetches' = [fetches EXCEPT ![f] =
                      [@ EXCEPT !.stage = "answered", !.items = Newest(S),
                                !.next = NextCursor(S), !.read = clock]]
    /\ UNCHANGED <<key, clock, rows, cursor, readAt, control>>

Touch == clock < MaxClock /\ clock' = clock + 1

\* A message in the conversation moves it to the head of the list.
ItemMoves(i) ==
    /\ Touch
    /\ key' = [key EXCEPT ![i] = clock + 1]
    /\ UNCHANGED <<rows, cursor, readAt, fetches, control>>

-----------------------------------------------------------------------------
(***************************************************************************)
(* loadResource and loadMore                                               *)
(***************************************************************************)
Request(f, from) ==
    fetches' = [fetches EXCEPT ![f] = [NoFetch EXCEPT !.stage = "sent", !.from = from]]

Over(f) == fetches' = [fetches EXCEPT ![f] = NoFetch]

\* The effect runs again, for a new access token or other filters, and aborts
\* its previous request.
Reload ==
    /\ Request("reload", 0)
    /\ UNCHANGED <<key, clock, rows, cursor, readAt, control>>

\* The rows and the cursor of a first page.
ShowFirst(f) ==
    /\ rows' = fetches[f].items
    /\ cursor' = fetches[f].next
    /\ readAt' = fetches[f].read

ReloadAnswers ==
    /\ fetches["reload"].stage = "answered"
    /\ Over("reload")
    /\ ShowFirst("reload") \/ UNCHANGED <<rows, cursor, readAt>>
    /\ UNCHANGED <<key, clock, control>>

\* One page request at a time; a reload does not wait for it.
LoadMore ==
    /\ cursor # 0
    /\ fetches["page"].stage = "none"
    /\ Request("page", cursor)
    /\ UNCHANGED <<key, clock, rows, cursor, readAt, control>>

\* Mutant: the page is appended as it is.
AppendUniquePage_Plain(current, incoming) == current \o incoming

\* appendUniquePage: what the page adds follows in the page's order.
AppendUniquePage(current, incoming) ==
    LET added == {k \in DOMAIN incoming :
                     \A n \in DOMAIN current : current[n] # incoming[k]}
    IN  current \o [n \in 1..Cardinality(added) |->
                       incoming[CHOOSE k \in added :
                                   Cardinality({j \in added : j < k}) = n - 1]]

\* A failure puts back the cursor the request was made with.
PageAnswers ==
    /\ fetches["page"].stage = "answered"
    /\ Over("page")
    /\ \/ /\ rows' = AppendUniquePage(rows, fetches["page"].items)
          /\ cursor' = fetches["page"].next
       \/ rows' = rows /\ cursor' = fetches["page"].from
    /\ UNCHANGED <<key, clock, readAt, control>>

-----------------------------------------------------------------------------
(***************************************************************************)
(* The mutation controls                                                   *)
(***************************************************************************)
\* run(), and what is left of the confirmation that allowed it.
Run(c) == control' = [c EXCEPT !.state = "working", !.step = "run", !.asked = FALSE]

\* refreshAuthoritativeValues, or the refresh at the end of confirm.
RefreshValues(c) ==
    /\ control' = [c EXCEPT !.state = "working", !.step = "refresh"]
    /\ Request("refresh", 0)

ClickAfterRefreshError == RefreshValues(control)

\* The button, which is disabled while the control is working.
Click ==
    /\ control.state # "working"
    /\ ~control.open
    /\ \/ control.state = "refresh-error" /\ ClickAfterRefreshError
       \/ /\ control.state # "refresh-error"
          /\ control.kind = "confirmed"
          /\ control' = [control EXCEPT !.state = "idle", !.open = TRUE, !.asked = TRUE]
          /\ UNCHANGED fetches
       \/ /\ control.state # "refresh-error"
          /\ control.kind = "direct"
          /\ Run([control EXCEPT !.asked = TRUE])
          /\ UNCHANGED fetches
    /\ UNCHANGED <<key, clock, rows, cursor, readAt>>

\* Cancel, or Escape.
Cancel ==
    /\ control.open
    /\ control.state # "working"
    /\ control' = [control EXCEPT !.open = FALSE, !.asked = FALSE]
    /\ UNCHANGED <<key, clock, rows, cursor, readAt, fetches>>

Confirm ==
    /\ control.open
    /\ control.state # "working"
    /\ Run(control)
    /\ UNCHANGED <<key, clock, rows, cursor, readAt, fetches>>

\* Mutant: the refresh is started but not waited for.
AfterSave_NotAwaited(c) ==
    /\ control' = [c EXCEPT !.state = "success", !.step = "none"]
    /\ Request("refresh", 0)

AfterSave(c) == RefreshValues(c)

\* run() answers; a failed call may have been applied all the same.
RunAnswers ==
    /\ control.step = "run"
    /\ \/ /\ Touch
          /\ AfterSave([control EXCEPT !.open = FALSE, !.saved = clock + 1])
       \/ /\ Touch \/ UNCHANGED clock
          /\ control' = [control EXCEPT !.state = "error", !.open = FALSE, !.step = "none"]
          /\ UNCHANGED fetches
    /\ UNCHANGED <<key, rows, cursor, readAt>>

RefreshAnswers ==
    /\ fetches["refresh"].stage = "answered"
    /\ Over("refresh")
    /\ \/ /\ ShowFirst("refresh")
          /\ control' = [control EXCEPT !.state = "success", !.step = "none"]
       \/ /\ control' = [control EXCEPT !.state = "refresh-error", !.step = "none"]
          /\ UNCHANGED <<rows, cursor, readAt>>
    /\ UNCHANGED <<key, clock>>

PagesNext ==
    \/ \E f \in Fetches : ServeFetch(f)
    \/ \E i \in Items : ItemMoves(i)
    \/ Reload \/ ReloadAnswers \/ LoadMore \/ PageAnswers
    \/ Click \/ Cancel \/ Confirm \/ RunAnswers \/ RefreshAnswers

PagesSpec == PagesInit /\ [][PagesNext]_pagesVars

-----------------------------------------------------------------------------
(***************************************************************************)
(* Properties                                                              *)
(***************************************************************************)
\* frontend/tests/chat-workspace.test.tsx: "loads bounded conversation and
\* message pages without duplicate records".  No record is displayed twice,
\* although records change places between the pages and a reload may overtake
\* a page request.
DisplayedOnce ==
    \A k, l \in DOMAIN rows : rows[k] = rows[l] => k = l

\* A change is sent once for every time it was asked for: after a change that
\* was accepted but could not be read back, the button only reads again.
AcceptedNotRepeated ==
    [][control'.step = "run" /\ control.step # "run" =>
          control.asked \/ control.kind = "direct"]_control

\* "Change saved and verified.": when the control starts to say so, the list was
\* read after the change was made.
VerifiedMeansReloaded ==
    [][control'.state = "success" /\ control.state # "success" =>
          readAt' >= control'.saved]_<<control, readAt>>

\* The mutation control neither repeats an accepted change nor claims more than
\* it has read back.
ControlHonest == AcceptedNotRepeated /\ VerifiedMeansReloaded
=============================================================================

------------------------------- MODULE MCClient -------------------------------
(* The browser's side.  Its parts do not share state: every behaviour looks  *)
(* at one of them, and the others stay as they begin.                        *)
EXTENDS ClientSession, AdminPages, SseReader, TLC

CONSTANT MaxTabRequests   \* bound: requests once the tabs' status is followed too

VARIABLE focus            \* "tokens", "tabs", "pages" or "stream"

MCVars == <<clientVars, pagesVars, sseVars, focus>>

\* One initial state of the parts that are not looked at.
MCInit ==
    /\ focus \in {"tokens", "tabs", "pages", "stream"}
    /\ ClientInit /\ PagesInit /\ SseInit
    /\ focus # "tabs" => \A t \in Tabs : auth[t] = "loading"
    /\ key = CHOOSE f \in [Items -> 1..Cardinality(Items)] : \A i, j \in Items : f[i] = f[j] => i = j
    /\ focus # "pages" => control.kind = "direct"
    /\ focus # "stream" => wire = <<>>

\* The lifetime of the tokens is part of "tokens" only.
MCTabsNext ==
    /\ ClientNext
    /\ Cardinality({r \in Requests : req'[r].stage # "idle"}) <= MaxTabRequests
    /\ expired' = {}

MCNext ==
    \/ /\ focus = "tokens" /\ RefreshNext
       /\ UNCHANGED <<auth, call, pagesVars, sseVars, focus>>
    \/ /\ focus = "tabs" /\ MCTabsNext
       /\ UNCHANGED <<pagesVars, sseVars, focus>>
    \/ /\ focus = "pages" /\ PagesNext
       /\ UNCHANGED <<clientVars, sseVars, focus>>
    \/ /\ focus = "stream" /\ SseNext
       /\ UNCHANGED <<clientVars, pagesVars, focus>>

MCSpec == MCInit /\ [][MCNext]_MCVars

MCSymmetry == Permutations(Requests)
=============================================================================

--------------------------- MODULE MCConversations ---------------------------
(* Three requests on two conversations.  A behaviour is about the history of   *)
(* conversation 1 under changing settings, about one list being paged through  *)
(* while requests complete, or about the page that shows a conversation, which *)
(* shares no state with the store.                                             *)
EXTENDS Conversations, ChatWorkspace

VARIABLE focus

MCScore == [r \in Requests |-> 20 * r]
MCSize == [r \in Requests |-> IF r = 2 THEN 2 ELSE 1]
MCThresholds == {[mask |-> 30, block |-> 70], [mask |-> 10, block |-> 30]}
MCPlaceholderLength == [d \in Detectors \cup {"generic"} |-> 1]

Lists == {"messages", "logs", "conversations"}

MCInit ==
    /\ ConvInit
    /\ focus \in Lists \cup {"history", "page"}
    /\ WorkspaceInit
    /\ focus # "page" => work[1].route = NoConversation
    /\ settings.policy.block = 70
    /\ focus # "history" => settings.retention = "METADATA_ONLY"

MCStoreNext ==
    /\ focus # "page"
    /\ UNCHANGED <<workspaceVars, focus>>
    /\ \/ TickClock
       \/ \E r \in Requests : \/ RequestStep(r) /\ \A q \in Requests :
                                     focus \notin {"conversations", "logs"} => req'[q].conv \in {0, 1}
       \/ focus \in Lists /\ \E d \in Readers : OpenList(d, focus)
       \/ \E d \in Readers : NextPage(d)
       \/ focus = "conversations" /\ \E c \in Convs : CreateConversation(c)
       \/ /\ focus = "conversations" /\ clock = 0
          /\ \E titled \in BOOLEAN : RenameConversation(1, titled)
       \/ focus = "history" /\ \E t \in Thresholds, mode \in Retention : UpdateSettings(t, mode)

MCNext ==
    \/ MCStoreNext
    \/ focus = "page" /\ WorkspaceNext /\ UNCHANGED <<convVars, focus>>

MCSpec == MCInit /\ [][MCNext]_<<convVars, workspaceVars, focus>>
===============================================================================

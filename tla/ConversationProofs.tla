-------------------------- MODULE ConversationProofs --------------------------
(***************************************************************************)
(* The message store, the lists that page through it, the history that     *)
(* goes from it to a provider and the stream that the answer comes in, for *)
(* any number of requests, conversations and readers and for every value   *)
(* of the constants.                                                       *)
(*                                                                         *)
(* The store.  A transaction adds a whole pair to a request that has none, *)
(* so the count stays exact however often it runs (PairStep).              *)
(*                                                                         *)
(* The lists.  A page is cut by comparing with the last item shown, so     *)
(* the invariant of a traversal is that what it has shown ascends, that    *)
(* its cursor is the last of it, and that an item of the beginning was     *)
(* shown or is still behind the cursor.                                    *)
(*                                                                         *)
(* The history.  An answer is a millisecond later than its question, in    *)
(* the same conversation and kept alike (PairsShaped), so the first record *)
(* of a request in a selection of messages is its question and a pair is   *)
(* complete only with its own two records (PairRecords).  The loop takes   *)
(* the last of the approved pairs, in order, and counts their tokens as    *)
(* they will be counted (TakenFrom).  What was taken stays true while the  *)
(* stream runs, because the store never adds to a pair (HistoryKept).      *)
(*                                                                         *)
(* The stream.  The browser normalises and splits what it holds and a      *)
(* chunk together.  That is one pass over the characters (FramedRuns), and *)
(* what it holds is what such a pass leaves (Settled), so chunks do as     *)
(* well as the whole body.  The pass goes along with the reference: the    *)
(* lines of the open frame are the lines of its event (CharacterRead).     *)
(***************************************************************************)
EXTENDS Conversations, SseReader, AdmissionProofs

-------------------------------------------------------------------------------
(* Conversations and their messages                                            *)

ConvType == [exists : BOOLEAN, last : Nat \cup {-1}, count : Nat, titled : BOOLEAN]
MsgType  == [req : Requests, conv : Convs, stored : BOOLEAN,
             role : {"USER", "ASSISTANT"}, at : Nat, id : Nat]
LogType  == [req : Requests, at : Nat]

\* A chat handler: its fields, and the conversation of one under way.
ReqOK(q) ==
    /\ q \in [stage : {"idle", "preparing", "streaming", "logging", "persisting", "done"},
              conv : Convs \cup {0}, policy : {q.policy}, retention : {q.retention}, logAt : Nat, at : Nat,
              history : {q.history}]
    /\ q.stage \notin {"idle", "done"} => q.conv \in Convs

\* Two records of one request differ in their role, and their ids say so.
IdsOfMessages ==
    /\ \A m \in msgs : m.id = IF m.role = "USER" THEN 2 * m.req ELSE 2 * m.req + 1
    /\ \A m, n \in msgs : m.req = n.req /\ m.role = n.role => m = n

\* A request has one log record at most, and none before its completion.
OneLogEach ==
    /\ \A l, k \in logs : l.req = k.req => l = k
    /\ \A l \in logs : req[l.req].stage \in {"persisting", "done"}

ConvTypeOK ==
    /\ clock \in Nat
    /\ conv \in [Convs -> ConvType]
    /\ req = [r \in Requests |-> req[r]] /\ \A r \in Requests : ReqOK(req[r])
    /\ IsFiniteSet(msgs) /\ msgs \subseteq MsgType
    /\ IsFiniteSet(logs) /\ logs \subseteq LogType
    /\ IsFiniteSet({c \in Convs : conv[c].exists})

\* CountsMatchMessages is inductive beside the types: a transaction that runs
\* adds a pair to a request that has none.
StoreInv == ConvTypeOK /\ IdsOfMessages /\ OneLogEach /\ CountsMatchMessages

\* The pair of a request that has no message yet is two records of its own, in
\* its conversation.
LEMMA NewPair ==
    ASSUME StoreInv, NEW r \in Requests, req[r].stage = "persisting", ~AlreadyPersisted(r)
    PROVE  /\ MessagesOf(r) = {}
           /\ PairOf(r) \subseteq MsgType /\ IsFiniteSet(PairOf(r)) /\ Cardinality(PairOf(r)) = 2
           /\ \A m \in PairOf(r) : m.req = r /\ m.conv = req[r].conv
           /\ \A m \in PairOf(r) : m.id = IF m.role = "USER" THEN 2 * m.req ELSE 2 * m.req + 1
           /\ \A m, n \in PairOf(r) : m.role = n.role => m = n
<1>1. MessagesOf(r) = {}
  <2>1. IsFiniteSet(MessagesOf(r))
    BY FS_Subset DEF MessagesOf, StoreInv, ConvTypeOK
  <2>2. Cardinality(MessagesOf(r)) = 0
    BY DEF AlreadyPersisted, StoreInv, CountsMatchMessages
  <2> QED  BY <2>1, <2>2, FS_EmptySet
<1> DEFINE u == Message(r, "USER", 0)
           a == Message(r, "ASSISTANT", 1)
<1>2. PairOf(r) = {u, a}
  BY DEF PairOf
<1>3. ReqOK(req[r]) /\ r \in Nat
  BY ConversationAssumption DEF StoreInv, ConvTypeOK
<1>4. u \in MsgType /\ a \in MsgType
  <2>1. req[r].conv \in Convs /\ req[r].at \in Nat
    BY <1>3 DEF ReqOK
  <2>2. req[r].at + 0 \in Nat /\ req[r].at + 1 \in Nat /\ 2 * r + 0 \in Nat /\ 2 * r + 1 \in Nat
    BY <2>1, <1>3
  <2>3. (req[r].retention = "ENCRYPTED_STORAGE") \in BOOLEAN
    OBVIOUS
  <2> QED  BY <2>1, <2>2, <2>3 DEF MsgType, Message
<1>5. u.role = "USER" /\ a.role = "ASSISTANT" /\ u # a
  BY DEF Message
<1>6. u.req = r /\ a.req = r /\ u.conv = req[r].conv /\ a.conv = req[r].conv
  BY DEF Message
<1>7. u.id = 2 * r /\ a.id = 2 * r + 1
  BY <1>3 DEF Message
<1> HIDE DEF u, a
<1>8. IsFiniteSet({u, a}) /\ Cardinality({u, a}) = 2
  <2>1. IsFiniteSet({u}) /\ Cardinality({u}) = 1
    BY FS_Singleton
  <2>2. {u, a} = {u} \cup {a} /\ a \notin {u}
    BY <1>5
  <2> QED  BY <2>1, <2>2, FS_AddElement
<1> QED
  BY <1>1, <1>2, <1>4, <1>5, <1>6, <1>7, <1>8

\* The step that writes a pair.
LEMMA PairStep ==
    ASSUME StoreInv, NEW r \in Requests, req[r].stage = "persisting", ~AlreadyPersisted(r),
           msgs' = msgs \cup PairOf(r),
           conv' = [conv EXCEPT ![req[r].conv].count = @ + 2,
                                ![req[r].conv].last = req[r].at + 1]
    PROVE  /\ msgs' \subseteq MsgType /\ IsFiniteSet(msgs') /\ IdsOfMessages'
           /\ conv' \in [Convs -> ConvType]
           /\ \A c \in Convs : conv'[c].exists = conv[c].exists
           /\ CountsMatchMessages'
<1> DEFINE P == PairOf(r)
           c == req[r].conv
<1>1. /\ MessagesOf(r) = {} /\ P \subseteq MsgType /\ IsFiniteSet(P) /\ Cardinality(P) = 2
      /\ \A m \in P : m.req = r /\ m.conv = c
  BY NewPair
<1>2. /\ \A m \in P : m.id = IF m.role = "USER" THEN 2 * m.req ELSE 2 * m.req + 1
      /\ \A m, n \in P : m.role = n.role => m = n
  BY NewPair
<1>3. /\ msgs \subseteq MsgType /\ IsFiniteSet(msgs) /\ conv \in [Convs -> ConvType]
      /\ ReqOK(req[r]) /\ IdsOfMessages
  BY DEF StoreInv, ConvTypeOK
<1>4. c \in Convs /\ req[r].at \in Nat
  BY <1>3 DEF ReqOK
<1>5. \A m \in msgs : m.req # r
  BY <1>1 DEF MessagesOf
<1> HIDE DEF P, c
<1>6. msgs' = msgs \cup P /\ conv' = [conv EXCEPT ![c].count = @ + 2, ![c].last = req[r].at + 1]
  BY DEF P, c
<1>7. msgs' \subseteq MsgType /\ IsFiniteSet(msgs')
  <2>1. IsFiniteSet(msgs \cup P)
    BY <1>1, <1>3, FS_Union
  <2> QED  BY <2>1, <1>1, <1>3, <1>6
<1>8. IdsOfMessages'
  BY <1>1, <1>2, <1>3, <1>5, <1>6 DEF IdsOfMessages
<1>9. /\ conv' \in [Convs -> ConvType]
      /\ \A d \in Convs : /\ conv'[d].exists = conv[d].exists
                          /\ conv'[d].count = IF d = c THEN conv[d].count + 2 ELSE conv[d].count
  <2>1. conv[c] \in ConvType
    BY <1>3, <1>4
  <2>2. req[r].at + 1 \in Nat /\ conv[c].count \in Nat /\ conv[c].count + 2 \in Nat
    BY <2>1, <1>4 DEF ConvType
  <2> DEFINE new == [conv[c] EXCEPT !.count = conv[c].count + 2, !.last = req[r].at + 1]
  <2>3. new \in ConvType /\ new.exists = conv[c].exists /\ new.count = conv[c].count + 2
    BY <2>1, <2>2 DEF ConvType
  <2>4. conv' = [conv EXCEPT ![c] = new]
    BY <1>3, <1>4, <1>6, <2>1 DEF ConvType
  <2> HIDE DEF new
  <2> QED  BY <2>3, <2>4, <1>3, <1>4
<1>10. ASSUME NEW d \in Convs PROVE conv'[d].count = Cardinality(MessagesIn(d)')
  <2>1. conv[d].count = Cardinality(MessagesIn(d))
    BY DEF StoreInv, CountsMatchMessages
  <2>2. CASE d = c
    <3>1. MessagesIn(d)' = MessagesIn(d) \cup P
      BY <1>1, <1>6, <2>2 DEF MessagesIn
    <3>2. MessagesIn(d) \cap P = {} /\ IsFiniteSet(MessagesIn(d))
      BY <1>1, <1>3, <1>5, FS_Subset DEF MessagesIn
    <3>3. Cardinality(MessagesIn(d) \cup P) = Cardinality(MessagesIn(d)) + 2
      <4>1. Cardinality(MessagesIn(d) \cap P) = 0
        BY <3>2, FS_EmptySet
      <4>2. Cardinality(MessagesIn(d)) \in Nat
        BY <3>2, FS_CardinalityType
      <4>3. Cardinality(MessagesIn(d) \cup P)
                = Cardinality(MessagesIn(d)) + Cardinality(P) - Cardinality(MessagesIn(d) \cap P)
        BY <3>2, <1>1, FS_Union
      <4> QED  BY <4>1, <4>2, <4>3, <1>1
    <3> QED  BY <3>1, <3>3, <2>1, <2>2, <1>9
  <2>3. CASE d # c
    <3>1. MessagesIn(d)' = MessagesIn(d)
      BY <1>1, <1>6, <2>3 DEF MessagesIn
    <3> QED  BY <3>1, <2>1, <2>3, <1>9
  <2> QED  BY <2>2, <2>3
<1>11. ASSUME NEW q \in Requests PROVE Cardinality(MessagesOf(q)') \in {0, 2}
  <2>1. CASE q = r
    <3>1. MessagesOf(q)' = P
      BY <1>1, <1>5, <1>6, <2>1 DEF MessagesOf
    <3> QED  BY <3>1, <1>1
  <2>2. CASE q # r
    <3>1. MessagesOf(q)' = MessagesOf(q)
      BY <1>1, <1>6, <2>2 DEF MessagesOf
    <3> QED  BY <3>1 DEF StoreInv, CountsMatchMessages
  <2> QED  BY <2>1, <2>2
<1> QED
  BY <1>7, <1>8, <1>9, <1>10, <1>11 DEF CountsMatchMessages

\* The empty store, with one existing conversation, satisfies StoreInv.
LEMMA StoreInvInit == ASSUME ConvInit PROVE StoreInv
<1>1. /\ clock = 0 /\ msgs = {} /\ logs = {} /\ req = [r \in Requests |-> NotBegun]
      /\ conv = [c \in Convs |-> [exists |-> c = 1, last |-> -1, count |-> 0, titled |-> FALSE]]
  BY DEF ConvInit
<1>2. IsFiniteSet({}) /\ Cardinality({}) = 0
  BY FS_EmptySet
<1>3. ReqOK(NotBegun)
  BY DEF ReqOK, NotBegun
<1>4. conv \in [Convs -> ConvType]
  BY <1>1 DEF ConvType
<1>5. IsFiniteSet({c \in Convs : conv[c].exists})
  <2>1. {c \in Convs : conv[c].exists} \subseteq {1}
    BY <1>1
  <2> QED  BY <2>1, FS_Singleton, FS_Subset
<1>6. ConvTypeOK
  BY <1>1, <1>2, <1>3, <1>4, <1>5 DEF ConvTypeOK
<1>7. IdsOfMessages /\ OneLogEach
  BY <1>1 DEF IdsOfMessages, OneLogEach
<1>8. CountsMatchMessages
  <2>1. \A c \in Convs : MessagesIn(c) = {} /\ conv[c].count = 0
    BY <1>1 DEF MessagesIn
  <2>2. \A r \in Requests : MessagesOf(r) = {}
    BY <1>1 DEF MessagesOf
  <2> QED  BY <1>2, <2>1, <2>2 DEF CountsMatchMessages
<1> QED  BY <1>6, <1>7, <1>8 DEF StoreInv

\* StoreInv is inductive.
LEMMA StoreInvStep == ASSUME StoreInv, [ConvNext]_convVars PROVE StoreInv'
<1> USE DEF StoreInv
<1>1. ASSUME UNCHANGED <<conv, msgs, logs, req>>, clock' \in Nat PROVE StoreInv'
  BY <1>1 DEF ConvTypeOK, IdsOfMessages, OneLogEach, CountsMatchMessages, MessagesIn, MessagesOf
\* Steps that leave the records alone and take one handler from an earlier stage.
<1>2. ASSUME NEW r \in Requests, NEW q, UNCHANGED <<clock, conv, msgs, logs>>,
             req' = [req EXCEPT ![r] = q], ReqOK(q),
             req[r].stage \in {"persisting", "done"} => q.stage \in {"persisting", "done"}
      PROVE  StoreInv'
  <2>1. req' = [i \in Requests |-> IF i = r THEN q ELSE req[i]]
    BY <1>2 DEF ConvTypeOK
  <2>2. ConvTypeOK'
    BY <1>2, <2>1 DEF ConvTypeOK
  <2>3. OneLogEach'
    BY <1>2, <2>1 DEF OneLogEach, ConvTypeOK, LogType
  <2>4. IdsOfMessages' /\ CountsMatchMessages'
    BY <1>2 DEF IdsOfMessages, CountsMatchMessages, MessagesIn, MessagesOf
  <2> QED  BY <2>2, <2>3, <2>4
<1>3. ASSUME NEW r \in Requests, RequestStep(r) PROVE StoreInv'
  <2>1. ReqOK(req[r])
    BY DEF ConvTypeOK
  <2>2. ASSUME NEW c \in Convs, LoadSettings(r, c) PROVE StoreInv'
    <3> DEFINE q == [NotBegun EXCEPT !.stage = "preparing", !.conv = c, !.policy = settings.policy,
                                  !.retention = settings.retention]
    <3>1. req' = [req EXCEPT ![r] = q] /\ UNCHANGED <<clock, conv, msgs, logs>>
      BY <2>2 DEF LoadSettings
    <3>2. ReqOK(q)
      BY DEF ReqOK, NotBegun
    <3> QED  BY <3>1, <3>2, <2>2, <1>2 DEF LoadSettings
  <2>8. CASE TakeHistory(r)
    <3> DEFINE h == IF req[r].retention = "ENCRYPTED_STORAGE"
                    THEN BuildHistory(RecentRetained(req[r].conv), req[r].policy) ELSE <<>>
               q == [req[r] EXCEPT !.stage = "streaming", !.history = h]
    <3>1. /\ req[r].stage = "preparing" /\ UNCHANGED <<clock, conv, msgs, logs>>
          /\ req' = [req EXCEPT ![r].stage = "streaming", ![r].history = h]
      BY <2>8 DEF TakeHistory
    <3> HIDE DEF h
    <3>2. req' = [req EXCEPT ![r] = q]
      BY <3>1, <2>1 DEF ConvTypeOK, ReqOK
    <3>3. ReqOK(q)
      BY <2>1, <3>1 DEF ReqOK
    <3> HIDE DEF q
    <3> QED  BY <3>1, <3>2, <3>3, <1>2
  <2>3. CASE Complete(r)
    <3> DEFINE q == [NotBegun EXCEPT !.stage = "logging", !.conv = req[r].conv,
                                  !.retention = req[r].retention, !.logAt = clock]
    <3>1. req' = [req EXCEPT ![r] = q] /\ UNCHANGED <<clock, conv, msgs, logs>>
      BY <2>3 DEF Complete
    <3>2. ReqOK(q)
      <4>1. clock \in Nat /\ req[r].conv \in Convs
        BY <2>1, <2>3 DEF ConvTypeOK, ReqOK, Complete
      <4> QED  BY <4>1 DEF ReqOK, NotBegun
    <3> QED  BY <3>1, <3>2, <2>3, <1>2 DEF Complete
  <2>4. CASE AppendLog(r)
    <3> DEFINE q == [req[r] EXCEPT !.stage = "persisting", !.at = clock, !.logAt = 0]
               l == [req |-> r, at |-> req[r].logAt]
    <3>1. /\ req[r].stage = "logging" /\ logs' = logs \cup {l} /\ req' = [req EXCEPT ![r] = q]
          /\ UNCHANGED <<clock, conv, msgs>>
      BY <2>4, <2>1 DEF AppendLog, ConvTypeOK, ReqOK
    <3>2. req[r].conv \in Convs /\ clock \in Nat
      BY <3>1, <2>1 DEF ReqOK, ConvTypeOK
    <3>3. ReqOK(q) /\ q.stage = "persisting"
      BY <3>2, <2>1 DEF ReqOK
    <3> HIDE DEF q
    <3>4. req' = [i \in Requests |-> IF i = r THEN q ELSE req[i]]
      BY <3>1 DEF ConvTypeOK
    <3>5. l \in LogType /\ l.req = r
      BY <2>1 DEF LogType, ReqOK
    <3>6. ConvTypeOK'
      BY <3>1, <3>3, <3>4, <3>5, FS_AddElement DEF ConvTypeOK
    <3>7. \A k \in logs : k.req # r /\ k.req \in Requests
      BY <3>1 DEF OneLogEach, ConvTypeOK, LogType
    <3> HIDE DEF l
    <3>8. OneLogEach'
      BY <3>1, <3>3, <3>4, <3>5, <3>7 DEF OneLogEach
    <3>9. IdsOfMessages' /\ CountsMatchMessages'
      BY <3>1 DEF IdsOfMessages, CountsMatchMessages, MessagesIn, MessagesOf
    <3> QED  BY <3>6, <3>8, <3>9
  <2>5. ReqOK(Finished) /\ Finished.stage = "done"
    BY DEF ReqOK, Finished, NotBegun
  <2>6. CASE PersistFails(r)
    BY <2>6, <2>5, <1>2 DEF PersistFails
  <2>7. ASSUME NEW ack \in BOOLEAN, CommitPair(r, ack) PROVE StoreInv'
    <3> DEFINE q == IF ack THEN Finished ELSE req[r]
    <3>1. /\ req[r].stage = "persisting" /\ req' = [req EXCEPT ![r] = q]
          /\ UNCHANGED <<clock, logs>>
      BY <2>7 DEF CommitPair
    <3>2. ReqOK(q) /\ q.stage \in {"persisting", "done"}
      BY <3>1, <2>1, <2>5
    <3>3. CASE AlreadyPersisted(r)
      <4>1. UNCHANGED <<conv, msgs>>
        BY <3>3, <2>7 DEF CommitPair
      <4> HIDE DEF q
      <4> QED  BY <4>1, <3>1, <3>2, <1>2
    <3>4. CASE ~AlreadyPersisted(r)
      <4>1. /\ msgs' = msgs \cup PairOf(r)
            /\ conv' = [conv EXCEPT ![req[r].conv].count = @ + 2,
                                    ![req[r].conv].last = req[r].at + 1]
        BY <3>4, <2>7 DEF CommitPair
      <4>2. /\ msgs' \subseteq MsgType /\ IsFiniteSet(msgs') /\ IdsOfMessages'
            /\ conv' \in [Convs -> ConvType]
            /\ \A c \in Convs : conv'[c].exists = conv[c].exists
            /\ CountsMatchMessages'
        BY <4>1, <3>1, <3>4, PairStep
      <4>3. {c \in Convs : conv'[c].exists} = {c \in Convs : conv[c].exists}
        BY <4>2
      <4> HIDE DEF q
      <4>4. req' = [i \in Requests |-> IF i = r THEN q ELSE req[i]]
        BY <3>1 DEF ConvTypeOK
      <4>5. ConvTypeOK'
        BY <4>2, <4>3, <4>4, <3>1, <3>2 DEF ConvTypeOK
      <4>6. OneLogEach'
        BY <4>4, <3>1, <3>2 DEF OneLogEach, ConvTypeOK, LogType
      <4> QED  BY <4>2, <4>5, <4>6
    <3> QED  BY <3>3, <3>4
  <2> QED  BY <1>3, <2>2, <2>3, <2>4, <2>6, <2>7, <2>8 DEF RequestStep
\* The list of conversations.
<1>4. ASSUME NEW c \in Convs, NEW e \in BOOLEAN, NEW t \in BOOLEAN,
             UNCHANGED <<clock, msgs, logs, req>>,
             conv' = [conv EXCEPT ![c] = [conv[c] EXCEPT !.exists = e, !.titled = t]]
      PROVE  StoreInv'
  <2>1. conv[c] \in ConvType
    BY DEF ConvTypeOK
  <2> DEFINE new == [conv[c] EXCEPT !.exists = e, !.titled = t]
  <2>2. new \in ConvType /\ new.count = conv[c].count
    BY <2>1 DEF ConvType
  <2> HIDE DEF new
  <2>3. conv' = [conv EXCEPT ![c] = new]
    BY <1>4 DEF new
  <2>4. /\ conv' \in [Convs -> ConvType]
        /\ \A d \in Convs : conv'[d].count = conv[d].count
        /\ \A d \in Convs : d # c => conv'[d] = conv[d]
    BY <2>2, <2>3 DEF ConvTypeOK
  <2>5. IsFiniteSet({d \in Convs : conv'[d].exists})
    <3>1. {d \in Convs : conv'[d].exists} \subseteq {d \in Convs : conv[d].exists} \cup {c}
      BY <2>4
    <3> QED  BY <3>1, FS_AddElement, FS_Subset DEF ConvTypeOK
  <2>6. ConvTypeOK'
    BY <1>4, <2>4, <2>5 DEF ConvTypeOK
  <2>7. IdsOfMessages' /\ OneLogEach'
    BY <1>4 DEF IdsOfMessages, OneLogEach
  <2>8. CountsMatchMessages'
    BY <1>4, <2>4 DEF CountsMatchMessages, MessagesIn, MessagesOf
  <2> QED  BY <2>6, <2>7, <2>8
<1>5. ASSUME NEW c \in Convs, CreateConversation(c) PROVE StoreInv'
  <2>1. conv[c] \in ConvType
    BY DEF ConvTypeOK
  <2>2. conv' = [conv EXCEPT ![c] = [conv[c] EXCEPT !.exists = TRUE, !.titled = conv[c].titled]]
    BY <1>5, <2>1 DEF CreateConversation, ConvType, ConvTypeOK
  <2> QED  BY <1>4, <1>5, <2>1, <2>2 DEF CreateConversation, ConvType
<1>6. ASSUME NEW c \in Convs, NEW t \in BOOLEAN, RenameConversation(c, t) PROVE StoreInv'
  <2>1. conv[c] \in ConvType
    BY DEF ConvTypeOK
  <2>2. conv' = [conv EXCEPT ![c] = [conv[c] EXCEPT !.exists = conv[c].exists, !.titled = t]]
    BY <1>6, <2>1 DEF RenameConversation, ConvType, ConvTypeOK
  <2> QED  BY <1>4, <1>6, <2>1, <2>2 DEF RenameConversation, ConvType
<1>7. QED
  <2>1. clock \in Nat
    BY DEF ConvTypeOK
  <2>2. CASE TickClock
    BY <2>1, <2>2, <1>1 DEF TickClock
  <2>3. ASSUME NEW d \in Readers, ReaderStep(d) PROVE StoreInv'
    BY <2>1, <2>3, <1>1 DEF ReaderStep, OpenList, NextPage
  <2>4. ASSUME NEW t \in Thresholds, NEW mode \in Retention, UpdateSettings(t, mode)
        PROVE  StoreInv'
    BY <2>1, <2>4, <1>1 DEF UpdateSettings
  <2>5. CASE UNCHANGED convVars
    BY <2>1, <2>5, <1>1 DEF convVars
  <2> QED
    BY <2>2, <2>3, <2>4, <2>5, <1>3, <1>5, <1>6 DEF ConvNext

\* StoreInv holds in every state of the store.
THEOREM StoreInvariant == ConvSpec => []StoreInv
BY StoreInvInit, StoreInvStep, PTL DEF ConvSpec

\* A conversation's count is the number of its messages and these come in whole
\* pairs, for every number of requests, conversations and repeated commits:
\* persistCompletedMessagePair.
THEOREM CountsAreExact == ConvSpec => []CountsMatchMessages
<1>1. StoreInv => CountsMatchMessages  BY DEF StoreInv
<1> QED  BY <1>1, StoreInvariant, PTL

-------------------------------------------------------------------------------
(* Pages of the lists                                                          *)

ListNames == {"messages", "logs", "conversations"}
ItemType  == [id : Nat, key : Int]

TraversalType == [list : ListNames \cup {"none"}, cursor : Seq(ItemType), shown : Seq(ItemType),
                  start : SUBSET ItemType, moved : SUBSET Convs, done : BOOLEAN]

\* What a traversal has shown ascends in the list's order.
Ascending(t) ==
    \A m, n \in 1..Len(t.shown) : m < n => Before(t.list, t.shown[m], t.shown[n])

\* The cursor of one under way is the last item it has shown.
CursorIsLast(t) ==
    ~t.done => IF t.cursor = <<>> THEN t.shown = <<>>
               ELSE Len(t.shown) > 0 /\ t.cursor = <<t.shown[Len(t.shown)]>>

\* An item that was shown is in the list still, unless it moved.
ShownStays(t, items) ==
    \A n \in 1..Len(t.shown) : t.shown[n].id \in t.moved \/ t.shown[n] \in items

\* An item of the beginning was shown or is still to come, unless it moved.
StartCovered(t, items) ==
    \A i \in t.start :
        i.id \in t.moved
        \/ /\ i \in items
           /\ \/ \E n \in 1..Len(t.shown) : t.shown[n] = i
              \/ ~t.done /\ AfterCursor(t.list, i, t.cursor)

\* A traversal t of a list that holds these items now.
Traversal(t, items) ==
    /\ t \in TraversalType /\ Ascending(t) /\ CursorIsLast(t)
    /\ ShownStays(t, items) /\ StartCovered(t, items)

TraversalOf(d) == Traversal(reader[d], Items(reader[d].list))

ReadersInv == /\ reader = [d \in Readers |-> reader[d]]
              /\ \A d \in Readers : TraversalOf(d)

\* The order of a list is strict, and total on items with different ids.
LEMMA BeforeOrder ==
    ASSUME NEW list
    PROVE  /\ \A a \in ItemType : ~Before(list, a, a)
           /\ \A a, b, c \in ItemType :
                  Before(list, a, b) /\ Before(list, b, c) => Before(list, a, c)
           /\ \A a, b \in ItemType :
                  a.id # b.id => Before(list, a, b) \/ Before(list, b, a)
BY DEF Before, ItemType

\* No two records share an id: it tells the request and the role.
LEMMA DistinctIds ==
    ASSUME StoreInv, NEW m \in msgs, NEW n \in msgs, m.id = n.id
    PROVE  m = n
<1>1. /\ m.req \in Nat /\ n.req \in Nat
      /\ m.role \in {"USER", "ASSISTANT"} /\ n.role \in {"USER", "ASSISTANT"}
  BY ConversationAssumption DEF StoreInv, ConvTypeOK, MsgType
<1>2. /\ m.id = IF m.role = "USER" THEN 2 * m.req ELSE 2 * m.req + 1
      /\ n.id = IF n.role = "USER" THEN 2 * n.req ELSE 2 * n.req + 1
  BY DEF StoreInv, IdsOfMessages
<1>3. \A a, b \in Nat : 2 * a # 2 * b + 1 /\ (2 * a = 2 * b => a = b)
                        /\ (2 * a + 1 = 2 * b + 1 => a = b)
  OBVIOUS
<1>4. m.req = n.req /\ m.role = n.role
  <2>1. CASE m.role = "USER" /\ n.role = "USER"
    BY <2>1, <1>1, <1>2, <1>3
  <2>2. CASE m.role = "USER" /\ n.role # "USER"
    BY <2>2, <1>1, <1>2, <1>3
  <2>3. CASE m.role # "USER" /\ n.role = "USER"
    <3>1. 2 * n.req = 2 * m.req + 1
      BY <2>3, <1>2
    <3> QED  BY <3>1, <1>1, <1>3
  <2>4. CASE m.role # "USER" /\ n.role # "USER"
    BY <2>4, <1>1, <1>2, <1>3
  <2> QED  BY <2>1, <2>2, <2>3, <2>4
<1> QED  BY <1>4 DEF StoreInv, IdsOfMessages

\* Every list is finite and no two of its items share an id.
LEMMA ItemsOfLists ==
    ASSUME StoreInv, NEW list
    PROVE  /\ IsFiniteSet(Items(list)) /\ Items(list) \subseteq ItemType
           /\ \A i, j \in Items(list) : i.id = j.id => i = j
<1> USE DEF StoreInv
<1>1. ASSUME NEW S, IsFiniteSet(S), NEW f, f = [x \in S |-> f[x]]
      PROVE  IsFiniteSet({f[x] : x \in S})
  <2> DEFINE T == {f[x] : x \in S}
  <2>1. f \in Surjection(S, T)
    BY <1>1 DEF Surjection
  <2> HIDE DEF T
  <2>2. IsFiniteSet(T)
    BY <2>1, <1>1, FS_Surjection
  <2> QED  BY <2>2 DEF T
<1>2. CASE list = "messages"
  <2> DEFINE f == [m \in MessagesIn(1) |-> [id |-> m.id, key |-> m.at]]
  <2>1. Items(list) = {f[m] : m \in MessagesIn(1)}
    BY <1>2 DEF Items
  <2>2. IsFiniteSet(MessagesIn(1)) /\ MessagesIn(1) \subseteq msgs /\ msgs \subseteq MsgType
    BY FS_Subset DEF MessagesIn, ConvTypeOK
  <2>3. IsFiniteSet(Items(list))
    <3>1. f = [x \in MessagesIn(1) |-> f[x]]
      OBVIOUS
    <3> HIDE DEF f
    <3> QED  BY <3>1, <2>1, <2>2, <1>1
  <2>4. Items(list) \subseteq ItemType
    BY <2>1, <2>2 DEF MsgType, ItemType
  <2>5. \A m, n \in msgs : m.id = n.id => m = n
    BY DistinctIds
  <2>6. \A i, j \in Items(list) : i.id = j.id => i = j
    BY <2>1, <2>2, <2>5
  <2> QED  BY <2>3, <2>4, <2>6
<1>3. CASE list = "logs"
  <2> DEFINE f == [l \in logs |-> [id |-> l.req, key |-> l.at]]
  <2>1. Items(list) = {f[l] : l \in logs}
    BY <1>3 DEF Items
  <2>2. IsFiniteSet(logs) /\ logs \subseteq LogType
    BY DEF ConvTypeOK
  <2>3. IsFiniteSet(Items(list))
    <3>1. f = [x \in logs |-> f[x]]
      OBVIOUS
    <3> HIDE DEF f
    <3> QED  BY <3>1, <2>1, <2>2, <1>1
  <2>4. Items(list) \subseteq ItemType
    <3> SUFFICES ASSUME NEW l \in logs PROVE f[l] \in ItemType
      BY <2>1
    <3>1. l \in LogType
      BY <2>2
    <3>2. l.req \in Nat /\ l.at \in Int
      <4>1. l.req \in Requests /\ l.at \in Nat
        BY <3>1 DEF LogType
      <4>2. l.req \in Nat
        BY <4>1, ConversationAssumption
      <4>3. l.at \in Int
        BY <4>1
      <4> QED  BY <4>2, <4>3
    <3>3. f[l] = [id |-> l.req, key |-> l.at]
      OBVIOUS
    <3> HIDE DEF f
    <3> QED  BY <3>2, <3>3 DEF ItemType
  <2>5. \A i, j \in Items(list) : i.id = j.id => i = j
    BY <2>1 DEF OneLogEach
  <2> QED  BY <2>3, <2>4, <2>5
<1>4. CASE list = "conversations"
  <2> DEFINE C == {d \in Convs : conv[d].exists}
             f == [c \in C |-> [id |-> c, key |-> conv[c].last]]
  <2>1. Items(list) = {f[c] : c \in C}
    BY <1>4 DEF Items
  <2>2. IsFiniteSet(C) /\ \A c \in C : c \in Nat /\ conv[c].last \in Int
    BY ConversationAssumption DEF ConvTypeOK, ConvType
  <2>3. IsFiniteSet(Items(list))
    <3>1. f = [x \in C |-> f[x]]
      OBVIOUS
    <3> HIDE DEF f
    <3> QED  BY <3>1, <2>1, <2>2, <1>1
  <2>4. Items(list) \subseteq ItemType
    <3> SUFFICES ASSUME NEW c \in C PROVE f[c] \in ItemType
      BY <2>1
    <3>1. f[c] = [id |-> c, key |-> conv[c].last]
      OBVIOUS
    <3> HIDE DEF f, C
    <3> QED  BY <3>1, <2>2 DEF ItemType
  <2>5. \A i, j \in Items(list) : i.id = j.id => i = j
    <3>1. \A c \in C : f[c].id = c
      OBVIOUS
    <3> HIDE DEF f, C
    <3> QED  BY <3>1, <2>1
  <2> QED  BY <2>3, <2>4, <2>5
<1>5. CASE list \notin ListNames
  <2>1. Items(list) = {}
    BY <1>5 DEF Items, ListNames
  <2> QED  BY <2>1, FS_EmptySet
<1> QED  BY <1>2, <1>3, <1>4, <1>5 DEF ListNames

\* The smaller of two numbers.
LEMMA MinOfTwo ==
    ASSUME NEW a \in Nat, NEW b \in Nat
    PROVE  Min({a, b}) \in {a, b} /\ Min({a, b}) <= a /\ Min({a, b}) <= b
<1>1. \E x \in {a, b} : \A y \in {a, b} : x <= y
  <2>1. a <= b \/ b <= a
    OBVIOUS
  <2> QED  BY <2>1
<1> QED  BY <1>1 DEF Min

\* A fetch returns the first of the items behind the cursor, in order, and all
\* of them unless it is full.
LEMMA FetchedFirst ==
    ASSUME StoreInv, NEW list, NEW cursor
    PROVE  LET f == Fetched(list, cursor)
               rest == {i \in Items(list) : AfterCursor(list, i, cursor)}
           IN  /\ f \in Seq(rest) /\ Len(f) \in Nat /\ Len(f) <= PageLimit + 1
               /\ \A m, n \in 1..Len(f) : m < n => Before(list, f[m], f[n])
               /\ \A i \in rest : \/ \E n \in 1..Len(f) : f[n] = i
                                  \/ Len(f) = PageLimit + 1 /\ Before(list, f[Len(f)], i)
<1> DEFINE f == Fetched(list, cursor)
           rest == {i \in Items(list) : AfterCursor(list, i, cursor)}
           R == {p \in rest \X rest : Before(list, p[1], p[2])}
           place == [i \in rest |-> Cardinality({j \in rest : <<j, i>> \in R}) + 1]
           N == Min({Cardinality(rest), PageLimit + 1})
<1>0. f = [n \in 1..N |-> CHOOSE i \in rest : Cardinality({j \in rest : Before(list, j, i)}) + 1 = n]
  BY DEF Fetched
<1>1. /\ IsFiniteSet(rest) /\ rest \subseteq ItemType
      /\ \A i, j \in rest : i # j => i.id # j.id
  BY ItemsOfLists, FS_Subset
<1>2. \A i, j \in rest : <<i, j>> \in R <=> Before(list, i, j)
  OBVIOUS
<1>3. /\ \A i \in rest : <<i, i>> \notin R
      /\ \A i, j, k \in rest : <<i, j>> \in R /\ <<j, k>> \in R => <<i, k>> \in R
      /\ \A i, j \in rest : i # j => <<i, j>> \in R \/ <<j, i>> \in R
  <2> HIDE DEF R
  <2> QED  BY <1>1, <1>2, BeforeOrder
<1>4. /\ Cardinality(rest) \in Nat
      /\ \A i \in rest : place[i] \in 1..Cardinality(rest)
      /\ \A i, j \in rest : <<i, j>> \in R <=> place[i] < place[j]
      /\ \A n \in 1..Cardinality(rest) : \E i \in rest : place[i] = n
  <2> HIDE DEF R, rest
  <2> QED  BY <1>1, <1>3, PlacesOf
<1>5. N \in Nat /\ N <= Cardinality(rest) /\ N <= PageLimit + 1
      /\ (N = Cardinality(rest) \/ N = PageLimit + 1)
  <2>1. PageLimit + 1 \in Nat
    BY ConversationAssumption
  <2> HIDE DEF rest
  <2>2. N \in {Cardinality(rest), PageLimit + 1} /\ N <= Cardinality(rest) /\ N <= PageLimit + 1
    BY <2>1, <1>4, MinOfTwo
  <2> QED  BY <2>1, <2>2, <1>4
<1>6. \A i \in rest : place[i] = Cardinality({j \in rest : Before(list, j, i)}) + 1
  <2>1. \A i \in rest : {j \in rest : <<j, i>> \in R} = {j \in rest : Before(list, j, i)}
    BY <1>2
  <2> HIDE DEF R
  <2> QED  BY <2>1
<1> HIDE DEF place, R, N, rest, f
<1>8. \A n \in 1..N : f[n] \in rest /\ place[f[n]] = n
  <2> SUFFICES ASSUME NEW n \in 1..N PROVE f[n] \in rest /\ place[f[n]] = n
    OBVIOUS
  <2>1. \E i \in rest : place[i] = n
    BY <1>4, <1>5
  <2>2. \E i \in rest : Cardinality({j \in rest : Before(list, j, i)}) + 1 = n
    BY <2>1, <1>6
  <2>3. f[n] = CHOOSE i \in rest : Cardinality({j \in rest : Before(list, j, i)}) + 1 = n
    BY <1>0
  <2>4. f[n] \in rest /\ Cardinality({j \in rest : Before(list, j, f[n])}) + 1 = n
    BY <2>2, <2>3
  <2> QED  BY <2>4, <1>6
<1>9. f \in Seq(rest) /\ Len(f) = N
  <2>1. f \in [1..N -> rest]
    BY <1>0, <1>8
  <2> QED  BY <2>1, <1>5
<1>10. \A m, n \in 1..N : m < n => Before(list, f[m], f[n])
  <2> SUFFICES ASSUME NEW m \in 1..N, NEW n \in 1..N, m < n PROVE Before(list, f[m], f[n])
    OBVIOUS
  <2>1. /\ f[m] \in rest /\ place[f[m]] = m
        /\ f[n] \in rest /\ place[f[n]] = n
    BY <1>8
  <2>2. <<f[m], f[n]>> \in R
    BY <2>1, <1>4
  <2> QED  BY <2>1, <2>2, <1>2
<1>11. ASSUME NEW i \in rest
       PROVE  \/ \E n \in 1..N : f[n] = i
              \/ N = PageLimit + 1 /\ Before(list, f[N], i)
  <2>1. place[i] \in 1..Cardinality(rest)
    BY <1>4
  <2>2. CASE place[i] <= N
    <3>1. place[i] \in 1..N
      BY <2>1, <2>2, <1>4, <1>5
    <3>2. f[place[i]] \in rest /\ place[f[place[i]]] = place[i]
      BY <3>1, <1>8
    <3>3. f[place[i]] = i
      <4> SUFFICES ASSUME f[place[i]] # i PROVE FALSE
        OBVIOUS
      <4>1. place[i] < place[i]
        BY <3>2, <1>3, <1>4
      <4> QED  BY <4>1, <3>1
    <3> QED  BY <3>1, <3>3
  <2>3. CASE ~(place[i] <= N)
    <3>1. N < place[i] /\ N # Cardinality(rest)
      BY <2>1, <2>3, <1>4, <1>5
    <3>2. N = PageLimit + 1 /\ N \in 1..N
      BY <3>1, <1>5, ConversationAssumption
    <3>3. f[N] \in rest /\ place[f[N]] < place[i]
      BY <3>1, <3>2, <1>8
    <3> QED  BY <3>2, <3>3, <1>2, <1>4
  <2> QED  BY <2>2, <2>3
<1> QED  BY <1>5, <1>9, <1>10, <1>11 DEF f, rest

\* What a fetched page adds keeps what holds of a traversal.
LEMMA PageStep ==
    ASSUME StoreInv, ReadersInv, NEW d \in Readers, NextPage(d)
    PROVE  /\ reader'[d].list = reader[d].list
           /\ Traversal(reader'[d], Items(reader[d].list))
<1> DEFINE t == reader[d]
           I == Items(t.list)
           f == Fetched(t.list, t.cursor)
           rest == {i \in Items(t.list) : AfterCursor(t.list, i, t.cursor)}
           K == Min({Len(f), PageLimit})
           page == SubSeq(f, 1, K)
           hasMore == Len(f) > PageLimit
           t2 == reader'[d]
<1>1. Traversal(t, I) /\ t \in TraversalType /\ t.list \in ListNames /\ ~t.done
  BY DEF ReadersInv, TraversalOf, Traversal, TraversalType, NextPage
<1>2. t2 = [t EXCEPT !.shown = t.shown \o page,
                     !.cursor = IF hasMore THEN <<Last(page)>> ELSE t.cursor,
                     !.done = ~hasMore]
  <2>1. reader' = [reader EXCEPT ![d].shown = @ \o page,
                                 ![d].cursor = IF hasMore THEN <<Last(page)>> ELSE @,
                                 ![d].done = ~hasMore]
    BY DEF NextPage
  <2> HIDE DEF page, hasMore
  <2> QED  BY <2>1, <1>1 DEF ReadersInv, TraversalType
<1>3. /\ f \in Seq(rest) /\ Len(f) \in Nat /\ Len(f) <= PageLimit + 1
      /\ \A m, n \in 1..Len(f) : m < n => Before(t.list, f[m], f[n])
      /\ \A i \in rest : \/ \E n \in 1..Len(f) : f[n] = i
                         \/ Len(f) = PageLimit + 1 /\ Before(t.list, f[Len(f)], i)
  BY FetchedFirst
<1>4. rest \subseteq I /\ rest \subseteq ItemType
  BY ItemsOfLists
<1>5. PageLimit \in Nat /\ PageLimit > 0
  BY ConversationAssumption
<1>6. \A i \in rest : AfterCursor(t.list, i, t.cursor)
  OBVIOUS
<1>7. \A i \in I : AfterCursor(t.list, i, t.cursor) => i \in rest
  OBVIOUS
<1> HIDE DEF f, rest, t, t2, I
<1>8. K \in Nat /\ K <= Len(f) /\ K <= PageLimit /\ (hasMore => K = PageLimit)
      /\ (~hasMore => K = Len(f))
  <2>1. K \in {Len(f), PageLimit} /\ K <= Len(f) /\ K <= PageLimit
    BY <1>3, <1>5, MinOfTwo
  <2> HIDE DEF K
  <2> QED  BY <2>1, <1>3, <1>5
<1> HIDE DEF K
<1>9. page \in Seq(rest) /\ Len(page) = K /\ \A n \in 1..K : page[n] = f[n] /\ f[n] \in rest
  <2>1. \A n \in 1..K : n \in 1..Len(f)
    BY <1>3, <1>8
  <2>2. \A n \in 1..K : f[n] \in rest
    BY <2>1, <1>3
  <2>3. page \in Seq(rest) /\ Len(page) = K /\ \A n \in 1..K : page[n] = f[n]
    <3>1. 1..K \subseteq 1..Len(f)
      BY <2>1
    <3>2. page = [n \in 1..K |-> f[n]]
      BY <1>3, <1>8
    <3>3. page \in [1..K -> rest]
      BY <3>2, <2>2
    <3> HIDE DEF page
    <3> QED  BY <3>2, <3>3, <1>8
  <2> QED  BY <2>2, <2>3
<1> HIDE DEF page
<1> DEFINE s == t.shown
           s2 == t2.shown
<1>10. /\ s \in Seq(ItemType) /\ Len(s) \in Nat
       /\ s2 = s \o page /\ s2 \in Seq(ItemType) /\ Len(s2) = Len(s) + K
  <2>1. s \in Seq(ItemType)
    BY <1>1 DEF TraversalType
  <2>2. s2 = s \o page
    BY <1>1, <1>2 DEF TraversalType
  <2>3. page \in Seq(ItemType)
    BY <1>4, <1>9
  <2> HIDE DEF s, s2
  <2>4. Len(s) \in Nat /\ Len(page) \in Nat
    BY <2>1, <2>3
  <2>5. s \o page \in Seq(ItemType)
    BY <2>1, <2>3
  <2>6. Len(s \o page) = Len(s) + Len(page)
    BY <2>1, <2>3
  <2> QED  BY <2>1, <2>2, <2>4, <2>5, <2>6, <1>9
<1>11. /\ \A n \in 1..Len(s) : s2[n] = s[n] /\ n \in 1..Len(s2)
       /\ \A n \in 1..K : s2[Len(s) + n] = f[n] /\ Len(s) + n \in 1..Len(s2)
       /\ \A n \in 1..Len(s2) : n \in 1..Len(s) \/ n - Len(s) \in 1..K
  <2> HIDE DEF s, s2
  <2>1. page \in Seq(ItemType)
    BY <1>4, <1>9
  <2>2. \A n \in 1..Len(s) : s2[n] = s[n] /\ n \in 1..Len(s2)
    BY <2>1, <1>8, <1>9, <1>10
  <2>3. ASSUME NEW n \in 1..K PROVE s2[Len(s) + n] = f[n] /\ Len(s) + n \in 1..Len(s2)
    <3>1. Len(s) + n \in 1..(Len(s) + Len(page)) /\ ~(Len(s) + n <= Len(s))
          /\ Len(s) + n - Len(s) = n
      BY <1>8, <1>9, <1>10
    <3>2. s2[Len(s) + n] = page[n]
      BY <3>1, <2>1, <1>10
    <3> QED  BY <3>1, <3>2, <1>9, <1>10
  <2>4. \A n \in 1..Len(s2) : n \in 1..Len(s) \/ n - Len(s) \in 1..K
    BY <1>8, <1>10
  <2> QED  BY <2>2, <2>3, <2>4
<1>12. /\ t2.list = t.list /\ t2.start = t.start /\ t2.moved = t.moved
       /\ t2.done = ~hasMore /\ t2.cursor = IF hasMore THEN <<Last(page)>> ELSE t.cursor
  BY <1>1, <1>2 DEF TraversalType
<1>13. hasMore => /\ K = PageLimit /\ K > 0 /\ Len(f) = K + 1 /\ Last(page) = f[K]
                  /\ f[K] \in ItemType /\ t2.cursor = <<f[K]>>
  <2> SUFFICES ASSUME hasMore
               PROVE  /\ K = PageLimit /\ K > 0 /\ Len(f) = K + 1 /\ Last(page) = f[K]
                      /\ f[K] \in ItemType /\ t2.cursor = <<f[K]>>
    OBVIOUS
  <2>1. K = PageLimit /\ K > 0 /\ Len(f) = K + 1 /\ K \in 1..K
    BY <1>3, <1>5, <1>8
  <2>2. Last(page) = f[K] /\ f[K] \in ItemType
    BY <2>1, <1>4, <1>9 DEF Last
  <2> QED  BY <2>1, <2>2, <1>12
<1>14. t2 \in TraversalType
  <2>1. t2.cursor \in Seq(ItemType)
    BY <1>1, <1>12, <1>13 DEF TraversalType
  <2>2. t2 = [t EXCEPT !.shown = t2.shown, !.cursor = t2.cursor, !.done = t2.done]
    BY <1>1, <1>2 DEF TraversalType
  <2>3. t2.shown \in Seq(ItemType) /\ t2.done \in BOOLEAN
    BY <1>10, <1>12
  <2> QED  BY <2>1, <2>2, <2>3, <1>1 DEF TraversalType
<1> HIDE DEF s, s2, hasMore
<1>15. Ascending(t2)
  <2> SUFFICES ASSUME NEW m \in 1..Len(s2), NEW n \in 1..Len(s2), m < n
               PROVE  Before(t.list, s2[m], s2[n])
    BY <1>12 DEF Ascending, s2
  <2>1. CASE n \in 1..Len(s)
    <3>1. m \in 1..Len(s)
      BY <2>1, <1>10
    <3> QED  BY <3>1, <2>1, <1>1, <1>11 DEF Traversal, Ascending, s
  <2>2. CASE m \notin 1..Len(s)
    <3>1. m - Len(s) \in 1..K /\ n - Len(s) \in 1..K /\ m - Len(s) < n - Len(s)
      BY <2>2, <1>10, <1>11
    <3>2. s2[m] = f[m - Len(s)] /\ s2[n] = f[n - Len(s)]
      <4>1. Len(s) + (m - Len(s)) = m /\ Len(s) + (n - Len(s)) = n
        BY <1>10
      <4> QED  BY <4>1, <3>1, <1>11
    <3>3. m - Len(s) \in 1..Len(f) /\ n - Len(s) \in 1..Len(f)
      BY <3>1, <1>3, <1>8
    <3> QED  BY <3>1, <3>2, <3>3, <1>3
  <2>3. CASE m \in 1..Len(s) /\ n \notin 1..Len(s)
    <3>1. n - Len(s) \in 1..K /\ Len(s) \in 1..Len(s) /\ Len(s) > 0
      BY <2>3, <1>10, <1>11
    <3>2. s2[n] = f[n - Len(s)]
      <4>1. Len(s) + (n - Len(s)) = n
        BY <1>10
      <4> QED  BY <4>1, <3>1, <1>11
    <3>3. s2[n] \in rest /\ s2[n] \in ItemType
      BY <3>1, <3>2, <1>4, <1>9
    <3>4. s # <<>>
      BY <3>1
    <3>5. t.cursor = <<s[Len(s)]>>
      BY <3>4, <1>1 DEF Traversal, CursorIsLast, s
    <3>6. Before(t.list, s[Len(s)], s2[n])
      <4>1. t.cursor # <<>> /\ t.cursor[1] = s[Len(s)]
        BY <3>5
      <4> QED  BY <4>1, <3>3, <1>6 DEF AfterCursor
    <3>7. CASE m = Len(s)
      BY <3>6, <3>7, <2>3, <1>11
    <3>8. CASE m # Len(s)
      <4>1. m < Len(s)
        BY <3>8, <2>3, <1>10
      <4>2. Before(t.list, s[m], s[Len(s)])
        BY <4>1, <2>3, <3>1, <1>1 DEF Traversal, Ascending, s
      <4>3. s[m] \in ItemType /\ s[Len(s)] \in ItemType
        BY <2>3, <3>1, <1>10
      <4>4. s2[m] = s[m]
        BY <2>3, <1>11
      <4> QED  BY <4>2, <4>3, <4>4, <3>3, <3>6, BeforeOrder
    <3> QED  BY <3>7, <3>8
  <2> QED  BY <2>1, <2>2, <2>3
<1>16. CursorIsLast(t2)
  <2> SUFFICES ASSUME hasMore PROVE Len(s2) > 0 /\ t2.cursor = <<s2[Len(s2)]>>
    <3>1. ~t2.done => hasMore
      BY <1>12
    <3>2. hasMore => t2.cursor # <<>>
      <4>1. <<f[K]>> # <<>>
        OBVIOUS
      <4> QED  BY <4>1, <1>13
    <3> QED  BY <3>1, <3>2 DEF CursorIsLast, s2
  <2>1. K > 0 /\ K \in 1..K /\ t2.cursor = <<f[K]>>
    BY <1>8, <1>13
  <2>2. s2[Len(s2)] = f[K]
    BY <2>1, <1>10, <1>11
  <2> QED  BY <2>1, <2>2, <1>8, <1>10
<1>17. ShownStays(t2, I)
  <2> SUFFICES ASSUME NEW n \in 1..Len(s2)
               PROVE  s2[n].id \in t.moved \/ s2[n] \in I
    BY <1>12 DEF ShownStays, s2
  <2>1. CASE n \in 1..Len(s)
    BY <2>1, <1>1, <1>11 DEF Traversal, ShownStays, s
  <2>2. CASE n - Len(s) \in 1..K
    <3>1. Len(s) + (n - Len(s)) = n
      BY <1>10
    <3>2. s2[n] = f[n - Len(s)]
      BY <3>1, <2>2, <1>11
    <3> QED  BY <3>2, <2>2, <1>4, <1>9
  <2> QED  BY <2>1, <2>2, <1>11
<1>18. StartCovered(t2, I)
  <2> SUFFICES ASSUME NEW i \in t.start, i.id \notin t.moved
               PROVE  /\ i \in I
                      /\ \/ \E n \in 1..Len(s2) : s2[n] = i
                         \/ hasMore /\ AfterCursor(t.list, i, t2.cursor)
    BY <1>12 DEF StartCovered, s2
  <2>1. /\ i \in I
        /\ (\E n \in 1..Len(s) : s[n] = i) \/ AfterCursor(t.list, i, t.cursor)
    BY <1>1 DEF Traversal, StartCovered, s
  <2>2. CASE \E n \in 1..Len(s) : s[n] = i
    BY <2>1, <2>2, <1>11
  <2>3. CASE i \in rest
    <3>1. ASSUME NEW n \in 1..Len(f), f[n] = i, n <= K
          PROVE  \E m \in 1..Len(s2) : s2[m] = i
      <4>1. n \in 1..K
        BY <3>1, <1>8
      <4> QED  BY <4>1, <3>1, <1>11
    <3>2. ASSUME hasMore, Before(t.list, f[Len(f)], i) \/ f[Len(f)] = i
          PROVE  AfterCursor(t.list, i, t2.cursor)
      <4>1. /\ K \in 1..Len(f) /\ Len(f) \in 1..Len(f) /\ K < Len(f) /\ t2.cursor = <<f[K]>>
        BY <3>2, <1>3, <1>8, <1>13
      <4>2. Before(t.list, f[K], f[Len(f)])
        BY <4>1, <1>3
      <4>3. f[K] \in ItemType /\ f[Len(f)] \in ItemType /\ i \in ItemType
        BY <4>1, <2>3, <1>3, <1>4
      <4>4. Before(t.list, f[K], i)
        BY <4>2, <4>3, <3>2, BeforeOrder
      <4> QED  BY <4>1, <4>4 DEF AfterCursor
    <3>3. CASE \E n \in 1..Len(f) : f[n] = i
      <4>1. PICK n \in 1..Len(f) : f[n] = i
        BY <3>3
      <4>2. CASE n <= K
        BY <4>1, <4>2, <3>1, <2>1
      <4>3. CASE ~(n <= K)
        <5>1. hasMore
          BY <4>3, <1>3, <1>8
        <5>2. n = Len(f)
          BY <5>1, <4>3, <1>3, <1>8, <1>13
        <5> QED  BY <5>1, <5>2, <4>1, <3>2, <2>1
      <4> QED  BY <4>2, <4>3
    <3>4. CASE Len(f) = PageLimit + 1 /\ Before(t.list, f[Len(f)], i)
      <4>1. hasMore
        BY <3>4, <1>5 DEF hasMore
      <4> QED  BY <4>1, <3>2, <3>4, <2>1
    <3> QED  BY <3>3, <3>4, <2>3, <1>3
  <2> QED  BY <2>1, <2>2, <2>3, <1>7
<1> QED
  BY <1>12, <1>14, <1>15, <1>16, <1>17, <1>18 DEF Traversal, t, t2, I

\* A step that takes nothing out of a list but items it notes as moved keeps
\* what holds of the list's traversals.
LEMMA ListGrows ==
    ASSUME NEW t, NEW items, Traversal(t, items), NEW items2, NEW t2 \in TraversalType,
           t2.list = t.list, t2.cursor = t.cursor, t2.shown = t.shown,
           t2.start = t.start, t2.done = t.done, t.moved \subseteq t2.moved,
           \A i \in items : i \in items2 \/ i.id \in t2.moved
    PROVE  Traversal(t2, items2)
<1>3. Ascending(t2) /\ CursorIsLast(t2)
  BY DEF Traversal, Ascending, CursorIsLast
<1>4. ShownStays(t2, items2)
  BY DEF Traversal, ShownStays
<1>5. StartCovered(t2, items2)
  BY DEF Traversal, StartCovered
<1> QED  BY <1>3, <1>4, <1>5 DEF Traversal

\* A traversal after the step, told from its reader and its list's items.
LEMMA TraversalAfter ==
    ASSUME NEW d \in Readers, NEW list, reader'[d].list = list, Traversal(reader'[d], Items(list)')
    PROVE  TraversalOf(d)'
<1>1. Items(reader[d].list)' = Items(list)'
  BY DEF Items
<1> QED  BY <1>1 DEF TraversalOf

\* Steps of anyone else.
LEMMA OthersStep ==
    ASSUME StoreInv, ReadersInv, UNCHANGED reader,
           msgs \subseteq msgs', logs \subseteq logs',
           \A c \in Convs : conv[c].exists => conv'[c].exists /\ conv'[c].last = conv[c].last
    PROVE  ReadersInv'
<1>1. ASSUME NEW list PROVE Items(list) \subseteq Items(list)'
  <2>1. CASE list = "messages"
    BY <2>1 DEF Items, MessagesIn
  <2>2. CASE list = "logs"
    BY <2>2 DEF Items
  <2>3. CASE list = "conversations"
    BY <2>3 DEF Items
  <2>4. CASE list \notin ListNames
    BY <2>4 DEF Items, ListNames
  <2> QED  BY <2>1, <2>2, <2>3, <2>4 DEF ListNames
<1>2. ASSUME NEW d \in Readers PROVE TraversalOf(d)'
  <2>1. PICK list : list = reader[d].list
    OBVIOUS
  <2>2. /\ Traversal(reader[d], Items(list)) /\ reader'[d] = reader[d]
        /\ reader[d] \in TraversalType
    BY <2>1 DEF ReadersInv, TraversalOf, Traversal
  <2>3. Items(list) \subseteq Items(list)'
    BY <1>1
  <2>4. reader'[d].list = list /\ Traversal(reader'[d], Items(list)')
    BY <2>1, <2>2, <2>3, ListGrows
  <2> QED  BY <2>4, TraversalAfter
<1> QED  BY <1>2 DEF ReadersInv

\* The pair of a request moves its conversation to the front of the list.
LEMMA MovedStep ==
    ASSUME StoreInv, ReadersInv, NEW r \in Requests, NEW ack \in BOOLEAN, CommitPair(r, ack)
    PROVE  ReadersInv'
<1>1. CASE AlreadyPersisted(r)
  <2>1. UNCHANGED <<conv, msgs, reader, logs>>
    BY <1>1 DEF CommitPair
  <2> QED  BY <2>1, OthersStep
<1>2. CASE ~AlreadyPersisted(r)
  <2> DEFINE c == req[r].conv
  <2>1. /\ msgs \subseteq msgs' /\ logs' = logs /\ reader' = Moved(c)
        /\ conv' = [conv EXCEPT ![c].count = @ + 2, ![c].last = req[r].at + 1]
    BY <1>2 DEF CommitPair
  <2>2. c \in Convs
    BY DEF CommitPair, StoreInv, ConvTypeOK, ReqOK
  <2>3. \A e \in Convs : e # c => conv'[e] = conv[e]
    BY <2>1 DEF StoreInv, ConvTypeOK
  <2> HIDE DEF c
  <2>4. ASSUME NEW list, NEW i \in Items(list)
        PROVE  \/ i \in Items(list)'
               \/ list = "conversations" /\ i.id = c
    <3>1. CASE list = "messages"
      BY <3>1, <2>1, <2>4 DEF Items, MessagesIn
    <3>2. CASE list = "logs"
      BY <3>2, <2>1, <2>4 DEF Items
    <3>3. CASE list = "conversations"
      BY <3>3, <2>3, <2>4 DEF Items
    <3>4. CASE list \notin ListNames
      BY <3>4, <2>4 DEF Items, ListNames
    <3> QED  BY <3>1, <3>2, <3>3, <3>4 DEF ListNames
  <2>5. ASSUME NEW d \in Readers PROVE TraversalOf(d)'
    <3>1. PICK list : list = reader[d].list
      OBVIOUS
    <3>2. Traversal(reader[d], Items(list)) /\ reader[d] \in TraversalType
      BY <3>1 DEF ReadersInv, TraversalOf, Traversal
    <3>3. reader'[d] = IF list = "conversations"
                       THEN [reader[d] EXCEPT !.moved = @ \cup {c}] ELSE reader[d]
      BY <3>1, <2>1 DEF Moved
    <3>4. list = "conversations" => c \in reader'[d].moved
      BY <3>2, <3>3 DEF TraversalType
    <3>5. \A i \in Items(list) : i \in Items(list)' \/ i.id \in reader'[d].moved
      BY <3>4, <2>4
    <3>6. /\ reader'[d] \in TraversalType /\ reader'[d].list = list
          /\ reader'[d].cursor = reader[d].cursor /\ reader'[d].shown = reader[d].shown
          /\ reader'[d].start = reader[d].start /\ reader'[d].done = reader[d].done
          /\ reader[d].moved \subseteq reader'[d].moved
      BY <3>1, <3>2, <3>3, <2>2 DEF TraversalType
    <3>7. reader'[d].list = list /\ Traversal(reader'[d], Items(list)')
      <4> HIDE DEF Items
      <4> QED  BY <3>1, <3>2, <3>5, <3>6, ListGrows
    <3> QED  BY <3>7, TraversalAfter
  <2> QED  BY <2>1, <2>5 DEF ReadersInv, Moved
<1> QED  BY <1>1, <1>2

\* A step of a reader, which changes no list.
LEMMA ReaderKeeps ==
    ASSUME StoreInv, ReadersInv, NEW d \in Readers, ReaderStep(d)
    PROVE  ReadersInv'
<1>1. UNCHANGED <<conv, msgs, logs>>
  BY DEF ReaderStep, OpenList, NextPage
<1>2. reader' = [e \in Readers |-> reader'[e]] /\ \A e \in Readers : e # d => reader'[e] = reader[e]
  <2>1. \E v : reader' = [reader EXCEPT ![d] = v]
    BY DEF ReaderStep, OpenList, NextPage
  <2> QED  BY <2>1 DEF ReadersInv
<1>3. \A list : Items(list)' = Items(list)
  BY <1>1 DEF Items, MessagesIn
<1>4. TraversalOf(d)'
  <2>1. ASSUME NEW list \in ListNames, OpenList(d, list) PROVE TraversalOf(d)'
    <3> DEFINE t2 == [NoTraversal EXCEPT !.list = list, !.start = Items(list)]
    <3>1. reader'[d] = t2
      BY <2>1 DEF OpenList, ReadersInv
    <3>2. /\ t2.list = list /\ t2.start = Items(list) /\ t2.shown = <<>> /\ t2.cursor = <<>>
          /\ t2.done = FALSE /\ t2.moved = {}
      BY DEF NoTraversal
    <3>3. t2 \in TraversalType
      <4>1. Items(list) \in SUBSET ItemType /\ <<>> \in Seq(ItemType)
        BY ItemsOfLists
      <4> QED  BY <4>1 DEF TraversalType, NoTraversal
    <3> HIDE DEF t2
    <3>4. Ascending(t2) /\ CursorIsLast(t2) /\ ShownStays(t2, Items(list))
          /\ StartCovered(t2, Items(list))
      BY <3>2 DEF Ascending, CursorIsLast, ShownStays, StartCovered, AfterCursor
    <3>5. Traversal(reader'[d], Items(list)') /\ reader'[d].list = list
      BY <3>1, <3>2, <3>3, <3>4, <1>3 DEF Traversal
    <3> QED  BY <3>5, TraversalAfter
  <2>2. CASE NextPage(d)
    <3>1. PICK list : list = reader[d].list
      OBVIOUS
    <3>2. reader'[d].list = list /\ Traversal(reader'[d], Items(list))
      BY <2>2, <3>1, PageStep
    <3>3. Traversal(reader'[d], Items(list)')
      BY <3>2, <1>3
    <3> QED  BY <3>2, <3>3, TraversalAfter
  <2> QED  BY <2>1, <2>2 DEF ReaderStep, ListNames
<1>5. ASSUME NEW e \in Readers, e # d PROVE TraversalOf(e)'
  <2>1. PICK list : list = reader[e].list
    OBVIOUS
  <2>2. Traversal(reader[e], Items(list)) /\ reader'[e] = reader[e]
    BY <2>1, <1>2, <1>5 DEF ReadersInv, TraversalOf
  <2>3. reader'[e].list = list /\ Traversal(reader'[e], Items(list)')
    BY <2>1, <2>2, <1>3
  <2> QED  BY <2>3, TraversalAfter
<1> QED  BY <1>2, <1>4, <1>5 DEF ReadersInv

\* No list is open at first.
LEMMA ReadersInvInit == ASSUME ConvInit PROVE ReadersInv
<1>1. reader = [d \in Readers |-> NoTraversal]
  BY DEF ConvInit
<1>2. NoTraversal \in TraversalType
  BY DEF NoTraversal, TraversalType
<1>3. Traversal(NoTraversal, Items("none"))
  BY <1>2 DEF Traversal, Ascending, CursorIsLast, ShownStays, StartCovered, NoTraversal
<1> QED  BY <1>1, <1>3 DEF ReadersInv, TraversalOf, NoTraversal

\* Every step of the store or of a reader keeps each traversal's invariant: writes
\* insert items or move them to the front under the readers, a fetch extends one list.
LEMMA ReadersInvStep == ASSUME StoreInv, ReadersInv, [ConvNext]_convVars PROVE ReadersInv'
<1>1. ASSUME NEW r \in Requests, RequestStep(r) PROVE ReadersInv'
  <2>1. ASSUME NEW c \in Convs, LoadSettings(r, c) PROVE ReadersInv'
    BY <2>1, OthersStep DEF LoadSettings
  <2>5. CASE TakeHistory(r)
    BY <2>5, OthersStep DEF TakeHistory
  <2>2. CASE Complete(r)
    BY <2>2, OthersStep DEF Complete
  <2>3. CASE AppendLog(r)
    BY <2>3, OthersStep DEF AppendLog
  <2>4. CASE PersistFails(r)
    BY <2>4, OthersStep DEF PersistFails
  <2> QED  BY <1>1, <2>1, <2>2, <2>3, <2>4, <2>5, MovedStep DEF RequestStep
<1>2. ASSUME NEW c \in Convs, CreateConversation(c) PROVE ReadersInv'
  BY <1>2, OthersStep DEF CreateConversation, StoreInv, ConvTypeOK, ConvType
<1>3. ASSUME NEW c \in Convs, NEW b \in BOOLEAN, RenameConversation(c, b) PROVE ReadersInv'
  BY <1>3, OthersStep DEF RenameConversation, StoreInv, ConvTypeOK, ConvType
<1>4. CASE TickClock
  BY <1>4, OthersStep DEF TickClock
<1>5. ASSUME NEW t \in Thresholds, NEW mode \in Retention, UpdateSettings(t, mode)
      PROVE  ReadersInv'
  BY <1>5, OthersStep DEF UpdateSettings
<1>6. CASE UNCHANGED convVars
  BY <1>6, OthersStep DEF convVars
<1> QED
  BY <1>1, <1>2, <1>3, <1>4, <1>5, <1>6, ReaderKeeps DEF ConvNext

\* ReadersInv holds of every traversal of every list.
THEOREM TraversalsInvariant == ConvSpec => [](StoreInv /\ ReadersInv)
<1>1. ConvInit => StoreInv /\ ReadersInv
  BY StoreInvInit, ReadersInvInit
<1>2. StoreInv /\ ReadersInv /\ [ConvNext]_convVars => (StoreInv /\ ReadersInv)'
  BY StoreInvStep, ReadersInvStep
<1> QED  BY <1>1, <1>2, PTL DEF ConvSpec

\* A traversal shows no item twice and, once it has ended, every item of the
\* beginning, for every page size and any number of insertions, ties and
\* readers: createCursorFilter.
THEOREM PagesAreExact == ConvSpec => []PagesExact
<1>1. ASSUME StoreInv, ReadersInv PROVE PagesExact
  <2> SUFFICES ASSUME NEW d \in Readers
               PROVE  LET r == reader[d]
                          times(i) == Cardinality({n \in 1..Len(r.shown) : r.shown[n].id = i.id})
                      IN  /\ \A n \in 1..Len(r.shown) : r.shown[n].id \in r.moved \/ times(r.shown[n]) = 1
                          /\ r.done => \A i \in r.start : i.id \in r.moved \/ times(i) = 1
    BY DEF PagesExact
  <2> DEFINE r == reader[d]
             times(i) == Cardinality({n \in 1..Len(r.shown) : r.shown[n].id = i.id})
  <2>1. Traversal(r, Items(r.list)) /\ r.shown \in Seq(ItemType)
    BY <1>1 DEF ReadersInv, TraversalOf, Traversal, TraversalType
  <2> HIDE DEF r
  <2>2. ASSUME NEW n \in 1..Len(r.shown), r.shown[n].id \notin r.moved
        PROVE  times(r.shown[n]) = 1
    <3>1. ASSUME NEW m \in 1..Len(r.shown), r.shown[m].id = r.shown[n].id PROVE m = n
      <4>1. r.shown[m] \in Items(r.list) /\ r.shown[n] \in Items(r.list)
        BY <2>1, <2>2, <3>1 DEF Traversal, ShownStays
      <4>2. r.shown[m] = r.shown[n] /\ r.shown[n] \in ItemType
        BY <4>1, <3>1, <1>1, ItemsOfLists
      <4>3. ~Before(r.list, r.shown[n], r.shown[n])
        BY <4>2, BeforeOrder
      <4>4. ~(m < n) /\ ~(n < m)
        BY <4>2, <4>3, <2>1 DEF Traversal, Ascending
      <4>5. m \in Nat /\ n \in Nat
        BY <2>1
      <4> QED  BY <4>4, <4>5
    <3>2. {m \in 1..Len(r.shown) : r.shown[m].id = r.shown[n].id} = {n}
      BY <3>1
    <3> QED  BY <3>2, FS_Singleton
  <2>3. ASSUME r.done, NEW i \in r.start, i.id \notin r.moved PROVE times(i) = 1
    <3>1. \E n \in 1..Len(r.shown) : r.shown[n] = i
      BY <2>1, <2>3 DEF Traversal, StartCovered
    <3> QED  BY <3>1, <2>2, <2>3
  <2> HIDE DEF times
  <2>4. /\ \A n \in 1..Len(r.shown) : r.shown[n].id \in r.moved \/ times(r.shown[n]) = 1
        /\ r.done => \A i \in r.start : i.id \in r.moved \/ times(i) = 1
    BY <2>2, <2>3
  <2> QED  BY <2>4 DEF times, r
<1> QED  BY <1>1, TraversalsInvariant, PTL

-------------------------------------------------------------------------------
(* The history that goes with a request                                        *)

\* The two records of a request are of one conversation and one retention, and
\* the answer is a millisecond later than the question.
PairsShaped ==
    \A m, n \in msgs : m.req = n.req =>
        /\ m.conv = n.conv /\ m.stored = n.stored
        /\ m.role = "USER" /\ n.role = "ASSISTANT" => n.at = m.at + 1

SettingsOK == settings \in [policy : Thresholds, retention : Retention]

\* The thresholds a request is judged by are ones the organisation had.
LoadedOK == \A r \in Requests : req[r].stage = "preparing" => req[r].policy \in Thresholds

\* The pairs of a history are in the store: a transaction never adds to them.
HistoryStored ==
    \A r \in Requests : req[r].stage = "streaming" =>
        \A n \in 1..Len(req[r].history) : MessagesOf(req[r].history[n].req) # {}

\* HistoryHonoursPolicy is inductive beside the store and its pairs.
HistoryInv ==
    /\ StoreInv /\ PairsShaped /\ SettingsOK /\ LoadedOK
    /\ HistoryStored /\ HistoryHonoursPolicy

\* The policy never sends what its block threshold refuses, and masks from its
\* mask threshold on.
LEMMA SanitizedHonours ==
    ASSUME NEW r \in Requests, NEW t \in Thresholds
    PROVE  /\ Sanitized(r, t) \in {"BLOCK", "ALLOW_WITH_MASK", "ALLOW", "none"}
           /\ Sanitized(r, t) # "BLOCK" => Score[r] < t.block
           /\ Sanitized(r, t) # "BLOCK" /\ Score[r] >= t.mask => Sanitized(r, t) = "ALLOW_WITH_MASK"
<1>1. Score[r] \in Nat /\ t.mask \in Nat /\ t.block \in Nat
  BY ConversationAssumption, ThresholdAssumption
<1> QED
  BY <1>1 DEF Sanitized, EvaluatePolicy, EvaluateBlock, EvaluateAllowWithMask, EvaluateAllow

\* An empty history is free.
LEMMA NothingEstimated == EstimatedTokens(<<>>) = 0
<1> DEFINE add == [n \in Nat |-> [q \in SentPair |-> n + Size[q.req]]]
           none == <<>>
<1>1. EstimatedTokens(none) = Fold(add, 0, none)
  BY DEF EstimatedTokens
<1>2. none \in Seq(SentPair) /\ Len(none) = 0
  OBVIOUS
<1> HIDE DEF add, none
<1>3. none \in Seq(SentPair)
  BY <1>2
<1>4. PICK f : /\ f[0] = 0 /\ \A n \in 1..Len(none) : f[n] = add[f[n - 1]][none[n]]
               /\ Fold(add, 0, none) = f[Len(none)]
  BY <1>3, FoldRuns
<1>5. EstimatedTokens(none) = 0
  BY <1>1, <1>2, <1>4
<1> QED  BY <1>5 DEF none

\* The estimate of a history: the sum of its pairs' sizes.
LEMMA EstimateOfPrepended ==
    ASSUME NEW p \in SentPair, NEW h \in Seq(SentPair)
    PROVE  /\ EstimatedTokens(h) \in Nat
           /\ EstimatedTokens(<<p>> \o h) = Size[p.req] + EstimatedTokens(h)
<1> DEFINE add == [n \in Nat |-> [q \in SentPair |-> n + Size[q.req]]]
           whole == <<p>> \o h
<1>1. \A q \in SentPair : Size[q.req] \in Nat
  BY ConversationAssumption DEF SentPair
<1>2. \A n \in Nat, q \in SentPair : add[n][q] = n + Size[q.req]
  OBVIOUS
<1>3. \A s : EstimatedTokens(s) = Fold(add, 0, s)
  BY DEF EstimatedTokens
<1> HIDE DEF add
<1>5. /\ whole \in Seq(SentPair) /\ Len(whole) = Len(h) + 1 /\ Len(h) \in Nat
      /\ whole[1] = p /\ \A n \in 1..Len(h) : whole[n + 1] = h[n] /\ h[n] \in SentPair
  OBVIOUS
<1> HIDE DEF whole
<1>6. PICK g : /\ g[0] = 0 /\ \A n \in 1..Len(h) : g[n] = add[g[n - 1]][h[n]]
               /\ Fold(add, 0, h) = g[Len(h)]
  BY FoldRuns
<1>7. PICK f : /\ f[0] = 0 /\ \A n \in 1..Len(whole) : f[n] = add[f[n - 1]][whole[n]]
               /\ Fold(add, 0, whole) = f[Len(whole)]
  BY <1>5, FoldRuns
<1> DEFINE Good == {n \in 0..Len(h) : g[n] \in Nat /\ f[n + 1] = Size[p.req] + g[n]}
<1>8. 0 \in Good
  <2>1. f[1] = add[f[0]][whole[1]]
    <3>1. 1 \in 1..Len(whole) /\ 1 - 1 = 0
      BY <1>5
    <3> QED  BY <3>1, <1>7
  <2>2. f[1] = 0 + Size[p.req]
    BY <2>1, <1>2, <1>5, <1>7
  <2> QED  BY <2>2, <1>1, <1>5, <1>6
<1>9. ASSUME NEW n \in 1..Len(h), n - 1 \in Good PROVE n \in Good
  <2>1. g[n - 1] \in Nat /\ f[(n - 1) + 1] = Size[p.req] + g[n - 1]
    BY <1>9
  <2>2. h[n] \in SentPair /\ whole[n + 1] = h[n] /\ Size[h[n].req] \in Nat /\ Size[p.req] \in Nat
    BY <1>1, <1>5
  <2>3. g[n] = g[n - 1] + Size[h[n].req]
    BY <2>1, <2>2, <1>2, <1>6
  <2>4. n + 1 \in 1..Len(whole) /\ (n + 1) - 1 = n /\ (n - 1) + 1 = n /\ n \in 0..Len(h)
    BY <1>5
  <2>5. f[n] = Size[p.req] + g[n - 1] /\ f[n] \in Nat
    BY <2>1, <2>2, <2>4
  <2>6. f[n + 1] = add[f[n]][whole[n + 1]]
    BY <2>4, <1>7
  <2>7. f[n + 1] = f[n] + Size[h[n].req]
    BY <2>2, <2>5, <2>6, <1>2
  <2>8. g[n] \in Nat /\ f[n + 1] = Size[p.req] + g[n]
    BY <2>1, <2>2, <2>3, <2>5, <2>7
  <2> QED  BY <2>4, <2>8
<1>10. \A n \in 0..Len(h) : n \in Good
  <2> HIDE DEF Good
  <2> QED  BY <1>5, <1>8, <1>9, CountUp
<1>11. g[Len(h)] \in Nat /\ f[Len(h) + 1] = Size[p.req] + g[Len(h)]
  <2>1. Len(h) \in 0..Len(h)
    BY <1>5
  <2>2. Len(h) \in Good
    <3> HIDE DEF Good
    <3> QED  BY <2>1, <1>10
  <2> QED  BY <2>2
<1>12. Fold(add, 0, whole) = Size[p.req] + Fold(add, 0, h)
  BY <1>5, <1>6, <1>7, <1>11
<1> QED
  BY <1>3, <1>6, <1>11, <1>12 DEF whole

\* The order of the messages of a conversation.
Earlier(a, b) == a.at < b.at \/ (a.at = b.at /\ a.id < b.id)

\* ms is a selection of the stored messages of c, in order.
Selection(ms, c) ==
    /\ ms \in Seq(MsgType) /\ Len(ms) \in Nat
    /\ \A n \in 1..Len(ms) : ms[n] \in msgs /\ ms[n].conv = c /\ ms[n].stored
    /\ \A m, n \in 1..Len(ms) : m < n => Earlier(ms[m], ms[n])

\* findRecentRetainedForOwner.
LEMMA RecentInOrder == ASSUME StoreInv, NEW c \in Convs PROVE Selection(RecentRetained(c), c)
<1> DEFINE S == {m \in MessagesIn(c) : m.stored}
           R == {p \in S \X S : Earlier(p[1], p[2])}
           sorted == Sorted(S, R)
           from == Max({1, Len(sorted) - HistoryRecords + 1})
           ms == SubSeq(sorted, from, Len(sorted))
<1>1. RecentRetained(c) = ms
  BY DEF RecentRetained, Earlier
<1>2. IsFiniteSet(S) /\ S \subseteq msgs /\ S \subseteq MsgType
      /\ \A m \in S : m.conv = c /\ m.stored
  BY FS_Subset DEF StoreInv, ConvTypeOK, MessagesIn
<1>3. Orders(R, S)
  <2>1. \A a, b \in S : <<a, b>> \in R <=> Earlier(a, b)
    OBVIOUS
  <2>2. \A a \in S : a.at \in Nat /\ a.id \in Nat
    BY <1>2 DEF MsgType
  <2>3. \A a \in S : ~Earlier(a, a)
    BY <2>2 DEF Earlier
  <2>4. \A a, b, d \in S : Earlier(a, b) /\ Earlier(b, d) => Earlier(a, d)
    BY <2>2 DEF Earlier
  <2>5. \A a, b \in S : a # b => Earlier(a, b) \/ Earlier(b, a)
    <3> SUFFICES ASSUME NEW a \in S, NEW b \in S, a # b PROVE Earlier(a, b) \/ Earlier(b, a)
      OBVIOUS
    <3>1. a.id # b.id
      BY <1>2, DistinctIds
    <3> QED  BY <3>1, <2>2 DEF Earlier
  <2> HIDE DEF R, S
  <2> QED  BY <2>1, <2>3, <2>4, <2>5 DEF Orders
<1> HIDE DEF R, S
<1>4. /\ sorted \in Seq(S) /\ Len(sorted) \in Nat
      /\ \A m, n \in 1..Len(sorted) : m < n <=> <<sorted[m], sorted[n]>> \in R
  BY <1>2, <1>3, SortedList
<1> HIDE DEF sorted
<1>5. from \in Nat /\ from >= 1
  <2>1. Len(sorted) - HistoryRecords + 1 \in Int
    BY <1>4, ConversationAssumption
  <2>2. \A x \in Int : \E y \in {1, x} : \A z \in {1, x} : y >= z
    <3> SUFFICES ASSUME NEW x \in Int PROVE \E y \in {1, x} : \A z \in {1, x} : y >= z
      OBVIOUS
    <3>1. x >= 1 \/ 1 >= x
      OBVIOUS
    <3> QED  BY <3>1
  <2>3. from \in {1, Len(sorted) - HistoryRecords + 1}
        /\ \A z \in {1, Len(sorted) - HistoryRecords + 1} : from >= z
    BY <2>1, <2>2 DEF Max
  <2> QED  BY <2>1, <2>3
<1> HIDE DEF from
<1>6. \A n \in 1..Len(ms) : /\ n + (from - 1) \in 1..Len(sorted)
                            /\ ms[n] = sorted[n + (from - 1)]
  BY <1>4, <1>5
<1>7. ms \in Seq(S) /\ Len(ms) \in Nat
  <2>1. CASE from <= Len(sorted)
    BY <2>1, <1>4, <1>5
  <2>2. CASE from > Len(sorted)
    BY <2>2, <1>4, <1>5
  <2> QED  BY <2>1, <2>2, <1>4, <1>5
<1> HIDE DEF ms
<1>8. \A m, n \in 1..Len(ms) : m < n => Earlier(ms[m], ms[n])
  <2> SUFFICES ASSUME NEW m \in 1..Len(ms), NEW n \in 1..Len(ms), m < n PROVE Earlier(ms[m], ms[n])
    OBVIOUS
  <2>1. m + (from - 1) < n + (from - 1)
    BY <1>5, <1>7
  <2>2. <<ms[m], ms[n]>> \in R
    BY <2>1, <1>4, <1>6
  <2> QED  BY <2>2 DEF R
<1>9. \A n \in 1..Len(ms) : ms[n] \in S
  BY <1>7
<1>10. ms \in Seq(MsgType)
  BY <1>2, <1>7
<1> QED  BY <1>1, <1>2, <1>7, <1>8, <1>9, <1>10 DEF Selection

\* The place of a request in pairMessagesByRequest's Map.
First(ms, r) == Min({n \in DOMAIN ms : ms[n].req = r})

\* A request's first record is its question: the answer comes a millisecond
\* later.  Both records are of the same conversation and kept like this one.
Paired(r, ms, c) ==
    /\ r \in Requests /\ First(ms, r) \in 1..Len(ms) /\ ms[First(ms, r)].req = r
    /\ MessagesOf(r) # {} /\ \A m \in MessagesOf(r) : m.conv = c /\ m.stored
    /\ ms[First(ms, r)].at \in Nat
    /\ Max({m.at : m \in MessagesOf(r)}) = ms[First(ms, r)].at + 1

\* pairMessagesByRequest, on a selection of stored messages.
LEMMA PairRecords ==
    ASSUME StoreInv, PairsShaped, NEW c, NEW ms, Selection(ms, c), NEW r \in CompletePairs(ms)
    PROVE  Paired(r, ms, c)
<1> DEFINE Places == {n \in DOMAIN ms : ms[n].req = r}
           f == First(ms, r)
<1>1. /\ ms \in Seq(MsgType) /\ Len(ms) \in Nat /\ DOMAIN ms = 1..Len(ms)
      /\ \A n \in 1..Len(ms) : ms[n] \in msgs /\ ms[n].conv = c /\ ms[n].stored
      /\ \A m, n \in 1..Len(ms) : m < n => Earlier(ms[m], ms[n])
  BY DEF Selection
<1>2. msgs \subseteq MsgType
  BY DEF StoreInv, ConvTypeOK
<1>3. {m.role : m \in {n \in Range(ms) : n.req = r}} = {"USER", "ASSISTANT"}
  BY DEF CompletePairs
<1>4. PICK u \in 1..Len(ms), a \in 1..Len(ms) :
          ms[u].req = r /\ ms[u].role = "USER" /\ ms[a].req = r /\ ms[a].role = "ASSISTANT"
  <2>1. \A m \in Range(ms) : \E n \in 1..Len(ms) : ms[n] = m
    BY <1>1 DEF Range
  <2>2. PICK m \in Range(ms) : m.req = r /\ m.role = "USER"
    BY <1>3
  <2>3. PICK n \in Range(ms) : n.req = r /\ n.role = "ASSISTANT"
    BY <1>3
  <2> QED  BY <2>1, <2>2, <2>3
<1>5. r \in Requests
  BY <1>1, <1>2, <1>4 DEF MsgType
<1>6. f \in 1..Len(ms) /\ ms[f].req = r /\ \A n \in Places : f <= n
  <2>1. Places \in SUBSET (1..Len(ms)) /\ Places # {}
    BY <1>1, <1>4
  <2>2. f = Min(Places)
    BY DEF First
  <2> HIDE DEF Places, f
  <2>3. Min(Places) \in Places /\ \A n \in Places : Min(Places) <= n
    BY <2>1, <1>1, MinMax
  <2> QED  BY <2>1, <2>2, <2>3 DEF Places
<1> DEFINE mu == ms[u]
           ma == ms[a]
<1>7. /\ mu \in msgs /\ ma \in msgs /\ mu.req = r /\ ma.req = r
      /\ mu.role = "USER" /\ ma.role = "ASSISTANT" /\ mu.at \in Nat /\ ma.at \in Nat
  BY <1>1, <1>2, <1>4 DEF MsgType
<1>8. ma.at = mu.at + 1
  BY <1>7 DEF PairsShaped
<1>9. \A m \in MessagesOf(r) : m = mu \/ m = ma
  <2> SUFFICES ASSUME NEW m \in msgs, m.req = r PROVE m = mu \/ m = ma
    BY DEF MessagesOf
  <2>1. m.role \in {"USER", "ASSISTANT"}
    BY <1>2 DEF MsgType
  <2> HIDE DEF mu, ma
  <2> QED  BY <2>1, <1>7 DEF StoreInv, IdsOfMessages
<1>10. MessagesOf(r) = {mu, ma}
  <2> HIDE DEF mu, ma
  <2> QED  BY <1>7, <1>9 DEF MessagesOf
<1>11. ms[f] = mu
  <2>1. ms[f] = mu \/ ms[f] = ma
    BY <1>1, <1>6, <1>9 DEF MessagesOf
  <2>2. CASE ms[f] = ma /\ ms[f] # mu
    <3>1. f # u /\ f <= u /\ f \in Nat /\ u \in Nat
      BY <2>2, <1>1, <1>4, <1>6
    <3>2. f < u
      BY <3>1
    <3>3. Earlier(ma, mu)
      BY <3>2, <2>2, <1>1, <1>6
    <3> HIDE DEF mu, ma
    <3> QED  BY <3>3, <1>7, <1>8 DEF Earlier
  <2> QED  BY <2>1, <2>2
<1>12. /\ MessagesOf(r) # {} /\ \A m \in MessagesOf(r) : m.conv = c /\ m.stored
  BY <1>1, <1>4, <1>10
<1> HIDE DEF mu, ma, f
<1>13. Max({m.at : m \in MessagesOf(r)}) = mu.at + 1
  <2>1. {m.at : m \in MessagesOf(r)} = {mu.at, mu.at + 1}
    BY <1>8, <1>10
  <2>2. \A t \in Nat : \A x \in {t, t + 1} : t + 1 >= x
    OBVIOUS
  <2>3. \A t \in Nat : \A x \in {t, t + 1} : x >= t + 1 => x = t + 1
    OBVIOUS
  <2>4. \A t \in Nat : Max({t, t + 1}) = t + 1
    <3> SUFFICES ASSUME NEW t \in Nat PROVE Max({t, t + 1}) = t + 1
      OBVIOUS
    <3>1. Max({t, t + 1}) \in {t, t + 1} /\ \A y \in {t, t + 1} : Max({t, t + 1}) >= y
      BY <2>2 DEF Max
    <3> QED  BY <3>1
  <2> QED  BY <2>1, <2>4, <1>7
<1> QED  BY <1>5, <1>6, <1>7, <1>11, <1>12, <1>13 DEF f, Paired

\* The pairs in the order of their questions.
LEMMA RequestsInOrder ==
    ASSUME StoreInv, PairsShaped, NEW c, NEW ms, Selection(ms, c),
           NEW approved \in SUBSET CompletePairs(ms)
    PROVE  LET s == InOrder(approved, ms)
           IN  /\ s \in Seq(approved) /\ s \in Seq(Requests) /\ Len(s) \in Nat
               /\ \A m, n \in 1..Len(s) : m < n => First(ms, s[m]) < First(ms, s[n])
<1> DEFINE R == {p \in approved \X approved : First(ms, p[1]) < First(ms, p[2])}
           s == InOrder(approved, ms)
<1>1. s = Sorted(approved, R)
  BY DEF InOrder, First
<1>2. \A r \in approved : r \in Requests /\ First(ms, r) \in 1..Len(ms) /\ ms[First(ms, r)].req = r
  <2>1. \A r \in approved : Paired(r, ms, c)
    BY PairRecords
  <2> QED  BY <2>1 DEF Paired
<1>3. Len(ms) \in Nat
  BY DEF Selection
<1>4. IsFiniteSet(approved)
  <2> DEFINE P == 1..Len(ms)
             g == [n \in P |-> ms[n].req]
             T == {g[n] : n \in P}
  <2>1. g \in Surjection(P, T)
    BY DEF Surjection
  <2>2. IsFiniteSet(P)
    BY <1>3, FS_Interval
  <2>3. approved \subseteq T
    BY <1>2
  <2> HIDE DEF P, g, T
  <2>4. IsFiniteSet(T)
    BY <2>1, <2>2, FS_Surjection
  <2> QED  BY <2>3, <2>4, FS_Subset
<1>5. Orders(R, approved)
  <2>1. \A a, b \in approved : <<a, b>> \in R <=> First(ms, a) < First(ms, b)
    OBVIOUS
  <2>2. \A a \in approved : First(ms, a) \in Nat
    BY <1>2, <1>3
  <2>3. \A a, b \in approved : First(ms, a) = First(ms, b) => a = b
    BY <1>2
  <2> HIDE DEF R
  <2> QED  BY <2>1, <2>2, <2>3 DEF Orders
<1> HIDE DEF s
<1>6. /\ s \in Seq(approved) /\ Len(s) \in Nat
      /\ \A m, n \in 1..Len(s) : m < n <=> <<s[m], s[n]>> \in R
  <2> HIDE DEF R
  <2> QED  BY <1>1, <1>4, <1>5, SortedList
<1>7. \A m, n \in 1..Len(s) : m < n => First(ms, s[m]) < First(ms, s[n])
  BY <1>6
<1>8. s \in Seq(Requests)
  BY <1>2, <1>6
<1> QED  BY <1>6, <1>7, <1>8 DEF s

\* What the history h taken under thresholds t from conversation c promises.
HistoryOK(h, c, t) ==
    /\ EstimatedTokens(h) <= HistoryTokens
    /\ \A n \in 1..Len(h) :
           /\ Score[h[n].req] < t.block
           /\ Score[h[n].req] >= t.mask => h[n].action = "ALLOW_WITH_MASK"
           /\ MessagesOf(h[n].req) # {}
           /\ \A m \in MessagesOf(h[n].req) : m.conv = c /\ m.stored
           /\ n > 1 => Max({m.at : m \in MessagesOf(h[n - 1].req)})
                        <= Max({m.at : m \in MessagesOf(h[n].req)})

\* What is taken of the requests s once those from n + 1 on have been looked at:
\* the last ones, within the bound; all of them unless it is full.
TakenFrom(acc, s, n, t) ==
    /\ acc \in Taken
    /\ acc.tokens = EstimatedTokens(acc.pairs) /\ acc.tokens <= HistoryTokens
    /\ \E k \in n..Len(s) :
           /\ Len(acc.pairs) = Len(s) - k
           /\ \A i \in 1..Len(acc.pairs) :
                  acc.pairs[i] = [req |-> s[k + i], action |-> Sanitized(s[k + i], t)]
           /\ ~acc.full => k = n

\* One pass of the loop over the pairs.
OneMore(acc, r, t) ==
    IF acc.full \/ acc.tokens + Size[r] > HistoryTokens
    THEN [acc EXCEPT !.full = TRUE]
    ELSE [pairs |-> <<[req |-> r, action |-> Sanitized(r, t)]>> \o acc.pairs,
          tokens |-> acc.tokens + Size[r], full |-> FALSE]

\* It takes a pair that fits and stops at the first that does not.
LEMMA OneMoreTaken ==
    ASSUME NEW t \in Thresholds, NEW s \in Seq(Requests), NEW n \in 1..Len(s),
           NEW acc, TakenFrom(acc, s, n, t)
    PROVE  TakenFrom(OneMore(acc, s[n], t), s, n - 1, t)
<1>1. /\ acc.pairs \in Seq(SentPair) /\ acc.tokens \in Nat /\ acc.full \in BOOLEAN
      /\ acc = [pairs |-> acc.pairs, tokens |-> acc.tokens, full |-> acc.full]
      /\ acc.tokens = EstimatedTokens(acc.pairs) /\ acc.tokens <= HistoryTokens
  BY DEF TakenFrom, Taken
<1>2. PICK k \in n..Len(s) :
          /\ Len(acc.pairs) = Len(s) - k
          /\ \A i \in 1..Len(acc.pairs) :
                 acc.pairs[i] = [req |-> s[k + i], action |-> Sanitized(s[k + i], t)]
          /\ ~acc.full => k = n
  BY DEF TakenFrom
<1>3. s[n] \in Requests /\ Len(s) \in Nat /\ Size[s[n]] \in Nat /\ n \in 1..Len(s) /\ HistoryTokens \in Nat
  <2>1. s[n] \in Requests /\ Len(s) \in Nat
    OBVIOUS
  <2>2. Size \in [Requests -> Nat] /\ HistoryTokens \in Nat
    BY ConversationAssumption
  <2> QED  BY <2>1, <2>2
<1>4. CASE acc.full \/ acc.tokens + Size[s[n]] > HistoryTokens
  <2> DEFINE new == [acc EXCEPT !.full = TRUE]
  <2>1. /\ new \in Taken /\ new.pairs = acc.pairs /\ new.tokens = acc.tokens /\ new.full
    BY <1>1 DEF Taken
  <2>2. k \in (n - 1)..Len(s)
    BY <1>2, <1>3
  <2> HIDE DEF new
  <2>3. TakenFrom(new, s, n - 1, t)
    BY <2>1, <2>2, <1>1, <1>2 DEF TakenFrom
  <2> QED  BY <2>3, <1>4 DEF new, OneMore
<1>5. CASE ~(acc.full \/ acc.tokens + Size[s[n]] > HistoryTokens)
  <2> DEFINE p == [req |-> s[n], action |-> Sanitized(s[n], t)]
             more == <<p>> \o acc.pairs
             new == [pairs |-> more, tokens |-> acc.tokens + Size[s[n]], full |-> FALSE]
  <2>1. p \in SentPair /\ p.req = s[n]
    BY <1>3, SanitizedHonours DEF SentPair
  <2>2. EstimatedTokens(more) = Size[s[n]] + EstimatedTokens(acc.pairs)
    <3> HIDE DEF p
    <3> QED  BY <2>1, <1>1, EstimateOfPrepended
  <2>3. /\ more \in Seq(SentPair) /\ Len(more) = Len(acc.pairs) + 1 /\ more[1] = p
        /\ \A i \in 1..Len(acc.pairs) : more[i + 1] = acc.pairs[i]
    <3> HIDE DEF p
    <3> QED  BY <2>1, <1>1
  <2>4. acc.tokens + Size[s[n]] \in Nat /\ acc.tokens + Size[s[n]] <= HistoryTokens
    BY <1>1, <1>3, <1>5
  <2>5. k = n
    BY <1>2, <1>5
  <2>6. Len(more) = Len(s) - (n - 1) /\ n - 1 \in (n - 1)..Len(s) /\ Len(acc.pairs) \in Nat
    <3>1. Len(more) = (Len(s) - n) + 1 /\ Len(acc.pairs) = Len(s) - n
      BY <2>3, <2>5, <1>2
    <3> QED  BY <3>1, <1>3
  <2>7. \A i \in 1..Len(more) :
            more[i] = [req |-> s[(n - 1) + i], action |-> Sanitized(s[(n - 1) + i], t)]
    <3> SUFFICES ASSUME NEW i \in 1..Len(more)
                 PROVE  more[i] = [req |-> s[(n - 1) + i], action |-> Sanitized(s[(n - 1) + i], t)]
      OBVIOUS
    <3>1. CASE i = 1
      <4>1. (n - 1) + 1 = n
        BY <1>3
      <4> QED  BY <4>1, <3>1, <2>3
    <3>2. CASE i # 1
      <4>1. i - 1 \in 1..Len(acc.pairs) /\ (i - 1) + 1 = i /\ n + (i - 1) = (n - 1) + i
        BY <3>2, <2>3, <2>6, <1>3
      <4>2. more[i] = acc.pairs[i - 1]
        BY <4>1, <2>3
      <4>3. acc.pairs[i - 1] = [req |-> s[n + (i - 1)], action |-> Sanitized(s[n + (i - 1)], t)]
        BY <4>1, <2>5, <1>2
      <4> QED  BY <4>1, <4>2, <4>3
    <3> QED  BY <3>1, <3>2
  <2>8. /\ new \in Taken /\ new.pairs = more /\ new.tokens = acc.tokens + Size[s[n]] /\ ~new.full
    BY <2>3, <2>4 DEF Taken
  <2>9. new.tokens = EstimatedTokens(new.pairs) /\ new.tokens <= HistoryTokens
    <3>1. EstimatedTokens(more) = acc.tokens + Size[s[n]]
      BY <2>2, <1>1, <1>3
    <3> HIDE DEF new, more
    <3> QED  BY <3>1, <2>4, <2>8
  <2> HIDE DEF new, more
  <2>10. TakenFrom(new, s, n - 1, t)
    BY <2>6, <2>7, <2>8, <2>9 DEF TakenFrom
  <2> QED  BY <2>10, <1>5 DEF new, more, OneMore
<1> QED  BY <1>4, <1>5

\* buildBoundedProviderHistory honours the thresholds it is given.
LEMMA HistoryBuilt ==
    ASSUME StoreInv, PairsShaped, NEW c, NEW ms, Selection(ms, c), NEW t \in Thresholds
    PROVE  HistoryOK(BuildHistory(ms, t), c, t)
<1> DEFINE approved == {r \in CompletePairs(ms) : Sanitized(r, t) # "BLOCK"}
           s == InOrder(approved, ms)
           take == [acc \in Taken |-> [r \in Requests |-> OneMore(acc, r, t)]]
           none == [pairs |-> <<>>, tokens |-> 0, full |-> FALSE]
           h == BuildHistory(ms, t)
<1>1. h = FoldBack(take, none, s).pairs
  BY DEF BuildHistory, OneMore
<1>2. /\ s \in Seq(approved) /\ s \in Seq(Requests) /\ Len(s) \in Nat
      /\ \A m, n \in 1..Len(s) : m < n => First(ms, s[m]) < First(ms, s[n])
  <2>1. approved \in SUBSET CompletePairs(ms)
    OBVIOUS
  <2> HIDE DEF approved
  <2> QED  BY <2>1, RequestsInOrder
<1>3. \A acc \in Taken, r \in Requests : take[acc][r] = OneMore(acc, r, t)
  OBVIOUS
<1>4. TakenFrom(none, s, Len(s), t)
  <2>1. none \in Taken /\ none.pairs = <<>> /\ none.tokens = 0
    <3>1. <<>> \in Seq(SentPair)
      OBVIOUS
    <3> QED  BY <3>1 DEF Taken
  <2>2. EstimatedTokens(<<>>) = 0 /\ 0 <= HistoryTokens
    BY NothingEstimated, ConversationAssumption
  <2>3. Len(s) \in Len(s)..Len(s) /\ Len(<<>>) = Len(s) - Len(s) /\ 1..Len(<<>>) = {}
    BY <1>2
  <2> HIDE DEF none, s
  <2> QED  BY <2>1, <2>2, <2>3 DEF TakenFrom
<1> HIDE DEF take, none, h, s
<1>5. PICK f : /\ f[Len(s)] = none
               /\ \A n \in 1..Len(s) : f[n - 1] = take[f[n]][s[n]]
               /\ FoldBack(take, none, s) = f[0]
  <2>1. s \in Seq(Requests)
    BY <1>2
  <2> QED  BY <2>1, FoldBackRuns
<1> DEFINE Good == {n \in 0..Len(s) : TakenFrom(f[n], s, n, t)}
<1>6. Len(s) \in Good
  BY <1>2, <1>4, <1>5
<1>7. ASSUME NEW n \in 1..Len(s), n \in Good PROVE n - 1 \in Good
  <2>1. TakenFrom(f[n], s, n, t) /\ f[n] \in Taken
    BY <1>7 DEF TakenFrom
  <2>2. s \in Seq(Requests) /\ s[n] \in Requests
    BY <1>2
  <2>3. f[n - 1] = take[f[n]][s[n]]
    BY <1>5
  <2> HIDE DEF Good
  <2>4. TakenFrom(f[n - 1], s, n - 1, t)
    BY <2>1, <2>2, <2>3, <1>3, OneMoreTaken
  <2> QED  BY <2>4, <1>2 DEF Good
<1>8. TakenFrom(f[0], s, 0, t)
  <2>1. \A n \in 0..Len(s) : n \in Good
    <3> HIDE DEF Good
    <3> QED  BY <1>2, <1>6, <1>7, CountDown
  <2>2. 0 \in 0..Len(s)
    BY <1>2
  <2> QED  BY <2>1, <2>2
<1>9. h = f[0].pairs
  BY <1>1, <1>5
<1>10. h \in Seq(SentPair) /\ Len(h) \in Nat /\ EstimatedTokens(h) <= HistoryTokens
  BY <1>8, <1>9 DEF TakenFrom, Taken
<1>11. PICK k \in 0..Len(s) :
           /\ Len(h) = Len(s) - k
           /\ \A i \in 1..Len(h) : h[i] = [req |-> s[k + i], action |-> Sanitized(s[k + i], t)]
  BY <1>8, <1>9 DEF TakenFrom
<1>12. \A r \in approved : Paired(r, ms, c) /\ Sanitized(r, t) # "BLOCK"
  BY PairRecords
<1> HIDE DEF approved
<1>13. ASSUME NEW n \in 1..Len(h)
       PROVE  /\ h[n].req = s[k + n] /\ s[k + n] \in approved /\ k + n \in 1..Len(s)
              /\ h[n].action = Sanitized(s[k + n], t)
  <2>1. k + n \in 1..Len(s)
    BY <1>2, <1>10, <1>11
  <2>2. s[k + n] \in approved
    BY <2>1, <1>2
  <2>3. h[n] = [req |-> s[k + n], action |-> Sanitized(s[k + n], t)]
    BY <1>11
  <2> QED  BY <2>1, <2>2, <2>3
<1>14. ASSUME NEW n \in 1..Len(h), n > 1
       PROVE  Max({m.at : m \in MessagesOf(h[n - 1].req)})
                  <= Max({m.at : m \in MessagesOf(h[n].req)})
  <2> DEFINE a == s[k + (n - 1)]
             b == s[k + n]
  <2>1. n - 1 \in 1..Len(h) /\ k + (n - 1) < k + n
    BY <1>10, <1>11, <1>14
  <2>2. /\ h[n - 1].req = a /\ h[n].req = b /\ a \in approved /\ b \in approved
        /\ k + (n - 1) \in 1..Len(s) /\ k + n \in 1..Len(s)
    BY <2>1, <1>13
  <2>3. First(ms, a) < First(ms, b)
    BY <2>1, <2>2, <1>2
  <2> HIDE DEF a, b
  <2>4. Earlier(ms[First(ms, a)], ms[First(ms, b)])
    BY <2>2, <2>3, <1>12 DEF Selection, Paired
  <2>6. \A x, y \in Nat : x <= y => x + 1 <= y + 1
    OBVIOUS
  <2>7. /\ Max({m.at : m \in MessagesOf(a)}) = ms[First(ms, a)].at + 1
        /\ Max({m.at : m \in MessagesOf(b)}) = ms[First(ms, b)].at + 1
        /\ ms[First(ms, a)].at \in Nat /\ ms[First(ms, b)].at \in Nat
    BY <2>2, <1>12 DEF Paired
  <2>5. ms[First(ms, a)].at <= ms[First(ms, b)].at
    BY <2>4, <2>7 DEF Earlier
  <2> QED  BY <2>2, <2>5, <2>6, <2>7
<1>15. ASSUME NEW n \in 1..Len(h)
       PROVE  /\ Score[h[n].req] < t.block
              /\ Score[h[n].req] >= t.mask => h[n].action = "ALLOW_WITH_MASK"
              /\ MessagesOf(h[n].req) # {}
              /\ \A m \in MessagesOf(h[n].req) : m.conv = c /\ m.stored
  <2> DEFINE a == s[k + n]
  <2>1. h[n].req = a /\ a \in approved /\ h[n].action = Sanitized(a, t)
    BY <1>13
  <2> HIDE DEF a
  <2>2. Paired(a, ms, c) /\ Sanitized(a, t) # "BLOCK"
    BY <2>1, <1>12
  <2>3. /\ a \in Requests /\ MessagesOf(a) # {}
        /\ \A m \in MessagesOf(a) : m.conv = c /\ m.stored
    BY <2>2 DEF Paired
  <2>4. Score[a] < t.block /\ (Score[a] >= t.mask => Sanitized(a, t) = "ALLOW_WITH_MASK")
    BY <2>2, <2>3, SanitizedHonours
  <2> QED  BY <2>1, <2>3, <2>4
<1> QED  BY <1>10, <1>14, <1>15 DEF HistoryOK, h

-------------------------------------------------------------------------------
\* The first state has no history and a shaped, empty store.
LEMMA HistoryInvInit == ASSUME ConvInit PROVE HistoryInv
<1>1. msgs = {} /\ settings \in [policy : Thresholds, retention : Retention]
      /\ req = [r \in Requests |-> NotBegun]
  BY DEF ConvInit
<1>2. NotBegun.stage \notin {"preparing", "streaming"}
  BY DEF NotBegun
<1>3. PairsShaped /\ SettingsOK
  BY <1>1 DEF PairsShaped, SettingsOK
<1>4. \A r \in Requests : req[r].stage \notin {"preparing", "streaming"}
  BY <1>1, <1>2
<1>5. HistoryStored /\ HistoryHonoursPolicy /\ LoadedOK
  BY <1>4 DEF HistoryStored, HistoryHonoursPolicy, LoadedOK
<1> QED  BY <1>3, <1>5, StoreInvInit DEF HistoryInv

\* The two records a transaction writes are shaped.
LEMMA NewPairShaped ==
    ASSUME HistoryInv, NEW r \in Requests, req[r].stage = "persisting", ~AlreadyPersisted(r),
           msgs' = msgs \cup PairOf(r)
    PROVE  /\ PairsShaped'
           /\ \A q : MessagesOf(q) # {} => MessagesOf(q)' = MessagesOf(q)
<1>1. MessagesOf(r) = {} /\ \A m \in PairOf(r) : m.req = r
  BY NewPair DEF HistoryInv
<1>2. \A m \in msgs : m.req # r
  BY <1>1 DEF MessagesOf
<1>3. req[r].at \in Nat
  BY DEF HistoryInv, StoreInv, ConvTypeOK, ReqOK
<1>4. \A m, n \in PairOf(r) :
          /\ m.conv = n.conv /\ m.stored = n.stored
          /\ m.role = "USER" /\ n.role = "ASSISTANT" => n.at = m.at + 1
  BY <1>3 DEF PairOf, Message
<1>5. PairsShaped'
  BY <1>1, <1>2, <1>4 DEF PairsShaped, HistoryInv
<1>6. \A q : MessagesOf(q) # {} => MessagesOf(q)' = MessagesOf(q)
  BY <1>1, <1>2 DEF MessagesOf
<1> QED  BY <1>5, <1>6

\* A history that was taken stays true when the pairs it holds stay.
LEMMA HistoryKept ==
    ASSUME NEW h, NEW c, NEW t, HistoryOK(h, c, t),
           \A x : MessagesOf(x) # {} => MessagesOf(x)' = MessagesOf(x)
    PROVE  HistoryOK(h, c, t)'
<1>1. \A n \in 1..Len(h) : MessagesOf(h[n].req) # {} /\ MessagesOf(h[n].req)' = MessagesOf(h[n].req)
  BY DEF HistoryOK
<1>2. \A n \in 1..Len(h) : n > 1 => /\ n - 1 \in 1..Len(h)
                                    /\ MessagesOf(h[n - 1].req)' = MessagesOf(h[n - 1].req)
  <2> SUFFICES ASSUME NEW n \in 1..Len(h), n > 1
               PROVE  n - 1 \in 1..Len(h) /\ MessagesOf(h[n - 1].req)' = MessagesOf(h[n - 1].req)
    OBVIOUS
  <2>1. n - 1 \in 1..Len(h)
    OBVIOUS
  <2> QED  BY <2>1, <1>1
<1> QED  BY <1>1, <1>2 DEF HistoryOK

\* Taken together, the histories under way are what the property says of them.
HistoriesOK ==
    \A r \in Requests : req[r].stage = "streaming" =>
        HistoryOK(req[r].history, req[r].conv, req[r].policy)

\* HistoriesOK says in one predicate what the two properties say.
LEMMA HistoriesAreOK == HistoriesOK <=> HistoryStored /\ HistoryHonoursPolicy
BY DEF HistoriesOK, HistoryOK, HistoryStored, HistoryHonoursPolicy

\* HistoryInv is inductive: a history is taken whole from the store, and what
\* it was taken from never changes.
LEMMA HistoryInvStep == ASSUME HistoryInv, [ConvNext]_convVars PROVE HistoryInv'
<1>1. StoreInv /\ PairsShaped /\ SettingsOK /\ LoadedOK /\ HistoriesOK
  BY HistoriesAreOK DEF HistoryInv
<1>0. HistoriesOK' => (HistoryStored /\ HistoryHonoursPolicy)'
  BY DEF HistoriesOK, HistoryOK, HistoryStored, HistoryHonoursPolicy
<1>2. StoreInv'
  BY <1>1, StoreInvStep
<1>3. req = [r \in Requests |-> req[r]]
  BY <1>1 DEF StoreInv, ConvTypeOK
\* A step that writes no message and starts no request.
<1>4. ASSUME msgs' = msgs, SettingsOK',
             \A q \in Requests :
                 req'[q].stage \in {"preparing", "streaming"} => req'[q] = req[q]
      PROVE  HistoryInv'
  <2>1. \A x : MessagesOf(x)' = MessagesOf(x)
    BY <1>4 DEF MessagesOf
  <2>2. PairsShaped'
    BY <1>1, <1>4 DEF PairsShaped
  <2>3. HistoriesOK'
    <3> SUFFICES ASSUME NEW q \in Requests, req'[q].stage = "streaming"
                 PROVE  HistoryOK(req[q].history, req[q].conv, req[q].policy)'
      BY DEF HistoriesOK
    <3>1. req'[q] = req[q] /\ HistoryOK(req[q].history, req[q].conv, req[q].policy)
      BY <1>1, <1>4 DEF HistoriesOK
    <3> QED  BY <3>1, <2>1, HistoryKept
  <2>4. LoadedOK'
    BY <1>1, <1>4 DEF LoadedOK
  <2> QED  BY <1>2, <1>4, <1>0, <2>2, <2>3, <2>4 DEF HistoryInv
\* The handlers.
<1>5. ASSUME NEW r \in Requests, RequestStep(r) PROVE HistoryInv'
  <2>1. ASSUME NEW c \in Convs, LoadSettings(r, c) PROVE HistoryInv'
    <3> DEFINE new == [NotBegun EXCEPT !.stage = "preparing", !.conv = c,
                                       !.policy = settings.policy,
                                       !.retention = settings.retention]
    <3>1. req' = [req EXCEPT ![r] = new] /\ UNCHANGED <<msgs, settings>>
      BY <2>1 DEF LoadSettings
    <3>2. new.policy \in Thresholds /\ new.stage = "preparing"
      BY <1>1 DEF SettingsOK, NotBegun
    <3> HIDE DEF new
    <3>3. \A x : MessagesOf(x)' = MessagesOf(x)
      BY <3>1 DEF MessagesOf
    <3>4. \A q \in Requests : req'[q] = IF q = r THEN new ELSE req[q]
      BY <1>3, <3>1
    <3>5. HistoriesOK'
      <4> SUFFICES ASSUME NEW q \in Requests, req'[q].stage = "streaming"
                   PROVE  HistoryOK(req[q].history, req[q].conv, req[q].policy)'
        BY DEF HistoriesOK
      <4>1. req'[q] = req[q]
        BY <3>2, <3>4
      <4>2. HistoryOK(req'[q].history, req'[q].conv, req'[q].policy)
        BY <4>1, <1>1 DEF HistoriesOK
      <4> QED  BY <4>2, <3>3, HistoryKept
    <3>6. LoadedOK'
      BY <1>1, <3>2, <3>4 DEF LoadedOK
    <3>7. PairsShaped' /\ SettingsOK'
      BY <1>1, <3>1 DEF PairsShaped, SettingsOK
    <3> QED  BY <1>0, <1>2, <3>5, <3>6, <3>7 DEF HistoryInv
  <2>4. CASE TakeHistory(r)
    <3> DEFINE c == req[r].conv
               t == req[r].policy
               h == IF req[r].retention = "ENCRYPTED_STORAGE"
                    THEN BuildHistory(RecentRetained(c), t) ELSE <<>>
    <3>1. /\ req[r].stage = "preparing" /\ UNCHANGED <<msgs, settings>>
          /\ req' = [req EXCEPT ![r].stage = "streaming", ![r].history = h]
      BY <2>4 DEF TakeHistory
    <3>2. t \in Thresholds /\ c \in Convs
      BY <1>1, <3>1 DEF LoadedOK, StoreInv, ConvTypeOK, ReqOK
    <3>3. HistoryOK(h, c, t)
      <4>1. HistoryOK(BuildHistory(RecentRetained(c), t), c, t)
        <5> HIDE DEF c, t
        <5> QED  BY <1>1, <3>2, RecentInOrder, HistoryBuilt
      <4>2. HistoryOK(<<>>, c, t)
        <5>1. Len(<<>>) = 0 /\ EstimatedTokens(<<>>) <= HistoryTokens
          BY NothingEstimated, ConversationAssumption
        <5> QED  BY <5>1 DEF HistoryOK
      <4> QED  BY <4>1, <4>2
    <3> HIDE DEF h
    <3>4. /\ req'[r].history = h /\ req'[r].conv = c /\ req'[r].policy = t
          /\ req'[r].stage = "streaming"
      <4>1. ReqOK(req[r])
        BY <1>1 DEF StoreInv, ConvTypeOK
      <4>2. req'[r] = [req[r] EXCEPT !.stage = "streaming", !.history = h]
        BY <1>3, <3>1
      <4> QED  BY <4>1, <4>2 DEF ReqOK
    <3>5. \A q \in Requests : q # r => req'[q] = req[q]
      BY <1>3, <3>1
    <3> HIDE DEF c, t
    <3>6. \A x : MessagesOf(x)' = MessagesOf(x)
      BY <3>1 DEF MessagesOf
    <3>7. HistoriesOK'
      <4> SUFFICES ASSUME NEW q \in Requests, req'[q].stage = "streaming"
                   PROVE  HistoryOK(req[q].history, req[q].conv, req[q].policy)'
        BY DEF HistoriesOK
      <4>1. HistoryOK(req'[q].history, req'[q].conv, req'[q].policy)
        BY <3>3, <3>4, <3>5, <1>1 DEF HistoriesOK
      <4> QED  BY <4>1, <3>6, HistoryKept
    <3>8. LoadedOK'
      BY <1>1, <3>4, <3>5 DEF LoadedOK
    <3>9. PairsShaped' /\ SettingsOK'
      BY <1>1, <3>1 DEF PairsShaped, SettingsOK
    <3> QED  BY <1>0, <1>2, <3>7, <3>8, <3>9 DEF HistoryInv
  <2>2. CASE Complete(r) \/ AppendLog(r) \/ PersistFails(r)
    <3>1. msgs' = msgs /\ settings' = settings
      BY <2>2 DEF Complete, AppendLog, PersistFails
    <3>2. \A q \in Requests : q # r => req'[q] = req[q]
      BY <2>2, <1>3 DEF Complete, AppendLog, PersistFails
    <3>3. req'[r].stage \notin {"preparing", "streaming"}
      <4>1. ReqOK(req[r])
        BY <1>1 DEF StoreInv, ConvTypeOK
      <4>2. CASE AppendLog(r)
        <5>1. req' = [req EXCEPT ![r] = [req[r] EXCEPT !.stage = "persisting", !.at = clock,
                                                      !.logAt = 0]]
          BY <4>1, <4>2, <1>3 DEF AppendLog, ReqOK
        <5>2. req'[r] = [req[r] EXCEPT !.stage = "persisting", !.at = clock, !.logAt = 0]
          BY <5>1, <1>3
        <5> QED  BY <4>1, <5>2 DEF ReqOK
      <4>3. CASE Complete(r)
        BY <4>3, <1>3 DEF Complete, NotBegun
      <4>4. CASE PersistFails(r)
        BY <4>4, <1>3 DEF PersistFails, Finished, NotBegun
      <4> QED  BY <2>2, <4>2, <4>3, <4>4
    <3> QED  BY <3>1, <3>2, <3>3, <1>1, <1>4 DEF SettingsOK
  <2>3. ASSUME NEW ack \in BOOLEAN, CommitPair(r, ack) PROVE HistoryInv'
    <3>1. /\ req[r].stage = "persisting" /\ settings' = settings
          /\ req' = [req EXCEPT ![r] = IF ack THEN Finished ELSE @]
      BY <2>3 DEF CommitPair
    <3>2. \A q \in Requests :
              req'[q].stage \in {"preparing", "streaming"} => req'[q] = req[q]
      BY <3>1, <1>3 DEF Finished, NotBegun
    <3>3. CASE AlreadyPersisted(r)
      <4>1. msgs' = msgs
        BY <3>3, <2>3 DEF CommitPair
      <4> QED  BY <4>1, <3>1, <3>2, <1>1, <1>4 DEF SettingsOK
    <3>4. CASE ~AlreadyPersisted(r)
      <4>1. msgs' = msgs \cup PairOf(r)
        BY <3>4, <2>3 DEF CommitPair
      <4>2. PairsShaped' /\ \A x : MessagesOf(x) # {} => MessagesOf(x)' = MessagesOf(x)
        BY <4>1, <3>1, <3>4, NewPairShaped
      <4>3. HistoriesOK'
        <5> SUFFICES ASSUME NEW q \in Requests, req'[q].stage = "streaming"
                     PROVE  HistoryOK(req[q].history, req[q].conv, req[q].policy)'
          BY DEF HistoriesOK
        <5>1. HistoryOK(req'[q].history, req'[q].conv, req'[q].policy)
          BY <3>2, <1>1 DEF HistoriesOK
        <5> QED  BY <5>1, <4>2, HistoryKept
      <4>4. LoadedOK'
        BY <1>1, <3>2 DEF LoadedOK
      <4> QED  BY <1>0, <1>1, <1>2, <3>1, <4>2, <4>3, <4>4 DEF HistoryInv, SettingsOK
    <3> QED  BY <3>3, <3>4
  <2> QED  BY <1>5, <2>1, <2>2, <2>3, <2>4 DEF RequestStep
\* Everything else leaves the handlers and the messages alone.
<1>6. CASE UNCHANGED <<msgs, req>> /\ SettingsOK'
  BY <1>4, <1>6
<1>7. CASE TickClock \/ UNCHANGED convVars
  BY <1>1, <1>6, <1>7 DEF TickClock, convVars, SettingsOK
<1>8. ASSUME NEW d \in Readers, ReaderStep(d) PROVE HistoryInv'
  BY <1>1, <1>6, <1>8 DEF ReaderStep, OpenList, NextPage, SettingsOK
<1>9. ASSUME NEW c \in Convs, CreateConversation(c) \/ \E titled \in BOOLEAN : RenameConversation(c, titled)
      PROVE  HistoryInv'
  BY <1>1, <1>6, <1>9 DEF CreateConversation, RenameConversation, SettingsOK
<1>10. ASSUME NEW t \in Thresholds, NEW mode \in Retention, UpdateSettings(t, mode)
       PROVE  HistoryInv'
  BY <1>6, <1>10 DEF UpdateSettings, SettingsOK
<1> QED
  BY <1>5, <1>7, <1>8, <1>9, <1>10 DEF ConvNext

\* HistoryInv holds in every state of the store.
THEOREM HistoryInvariant == ConvSpec => []HistoryInv
BY HistoryInvInit, HistoryInvStep, PTL DEF ConvSpec

\* A provider gets no stored question that the thresholds of this request would
\* refuse, none unmasked that they would mask, and no more than the token bound,
\* for every store, policy change and order of commits:
\* buildBoundedProviderHistory.
THEOREM HistoryIsHonoured == ConvSpec => []HistoryHonoursPolicy
<1>1. HistoryInv => HistoryHonoursPolicy
  BY DEF HistoryInv
<1> QED  BY <1>1, HistoryInvariant, PTL

-------------------------------------------------------------------------------
(* The stream of the answer: loops that go on                                  *)

\* A fold over nothing is its base.
LEMMA FoldOfNothing == ASSUME NEW step, NEW base PROVE Fold(step, base, <<>>) = base
<1> DEFINE none == <<>>
           T == {}
<1>1. Len(none) = 0
  OBVIOUS
<1>2. none \in Seq(T)
  OBVIOUS
<1> HIDE DEF none, T
<1>3. PICK f : /\ f[0] = base /\ \A n \in 1..Len(none) : f[n] = step[f[n - 1]][none[n]]
               /\ Fold(step, base, none) = f[Len(none)]
  BY <1>2, FoldRuns
<1>4. Fold(step, base, none) = base
  BY <1>1, <1>3
<1> QED  BY <1>4 DEF none

\* A fold over a longer sequence is one step more.
LEMMA FoldOfAppended ==
    ASSUME NEW T, NEW seq \in Seq(T), NEW x \in T, NEW step, NEW base
    PROVE  Fold(step, base, Append(seq, x)) = step[Fold(step, base, seq)][x]
<1> DEFINE N == Len(seq)
           more == Append(seq, x)
<1>1. /\ more \in Seq(T) /\ Len(more) = N + 1 /\ N \in Nat
      /\ more[N + 1] = x /\ \A n \in 1..N : more[n] = seq[n]
  OBVIOUS
<1> HIDE DEF more
<1>2. more \in Seq(T)
  BY <1>1
<1>3. PICK f : /\ f[0] = base /\ \A n \in 1..Len(seq) : f[n] = step[f[n - 1]][seq[n]]
               /\ Fold(step, base, seq) = f[Len(seq)]
  BY FoldRuns
<1>4. PICK g : /\ g[0] = base /\ \A n \in 1..Len(more) : g[n] = step[g[n - 1]][more[n]]
               /\ Fold(step, base, more) = g[Len(more)]
  BY <1>2, FoldRuns
<1> DEFINE Same == {n \in 0..N : f[n] = g[n]}
<1>5. 0 \in Same
  BY <1>1, <1>3, <1>4
<1>6. \A n \in 1..N : n - 1 \in Same => n \in Same
  <2> SUFFICES ASSUME NEW n \in 1..N, n - 1 \in Same PROVE n \in Same
    OBVIOUS
  <2>1. n \in 1..Len(more) /\ n \in 0..N /\ more[n] = seq[n] /\ f[n - 1] = g[n - 1]
    BY <1>1
  <2> QED  BY <2>1, <1>3, <1>4
<1>7. N \in Same
  <2>1. \A n \in 0..N : n \in Same
    <3> HIDE DEF Same, N
    <3> QED  BY <1>1, <1>5, <1>6, CountUp
  <2> QED  BY <2>1, <1>1
<1>8. g[N + 1] = step[g[N]][more[N + 1]]
  <2>1. N + 1 \in 1..Len(more) /\ (N + 1) - 1 = N
    BY <1>1
  <2> QED  BY <2>1, <1>4
<1> QED  BY <1>1, <1>3, <1>4, <1>7, <1>8 DEF more

\* The beginnings of a sequence.
LEMMA Beginnings ==
    ASSUME NEW T, NEW s \in Seq(T)
    PROVE  /\ SubSeq(s, 1, 0) = <<>> /\ SubSeq(s, 1, Len(s)) = s
           /\ \A n \in 0..Len(s) : SubSeq(s, 1, n) \in Seq(T)
           /\ \A n \in 1..Len(s) : SubSeq(s, 1, n) = Append(SubSeq(s, 1, n - 1), s[n])
OBVIOUS

\* A fold over all of them: an induction over the elements of s.
LEMMA ByElements ==
    ASSUME NEW T, NEW s \in Seq(T), NEW Good,
           <<>> \in Good,
           \A b \in Seq(T), x \in T : b \in Good => Append(b, x) \in Good
    PROVE  s \in Good
<1> DEFINE G == {n \in 0..Len(s) : SubSeq(s, 1, n) \in Good}
<1>1. Len(s) \in Nat /\ 0 \in 0..Len(s) /\ Len(s) \in 0..Len(s)
  OBVIOUS
<1>2. 0 \in G
  BY <1>1, Beginnings
<1>3. \A n \in 1..Len(s) : n - 1 \in G => n \in G
  <2> SUFFICES ASSUME NEW n \in 1..Len(s), n - 1 \in G PROVE n \in G
    OBVIOUS
  <2>1. n - 1 \in 0..Len(s) /\ n \in 0..Len(s) /\ s[n] \in T
    BY <1>1
  <2>2. SubSeq(s, 1, n - 1) \in Seq(T) /\ SubSeq(s, 1, n) = Append(SubSeq(s, 1, n - 1), s[n])
    BY <2>1, Beginnings
  <2> QED  BY <2>1, <2>2
<1>4. Len(s) \in G
  <2> HIDE DEF G
  <2> QED  BY <1>1, <1>2, <1>3, CountUp
<1> QED  BY <1>4, Beginnings

\* What every step keeps a fold keeps.
LEMMA FoldStays ==
    ASSUME NEW T, NEW A, NEW seq \in Seq(T), NEW step, NEW base \in A,
           \A a \in A, x \in T : step[a][x] \in A
    PROVE  Fold(step, base, seq) \in A
<1> DEFINE Good == {b \in Seq(T) : Fold(step, base, b) \in A}
<1>1. <<>> \in Good
  <2>1. <<>> \in Seq(T)
    OBVIOUS
  <2> QED  BY <2>1, FoldOfNothing
<1>2. \A b \in Seq(T), x \in T : b \in Good => Append(b, x) \in Good
  <2> SUFFICES ASSUME NEW b \in Seq(T), NEW x \in T, Fold(step, base, b) \in A
               PROVE  Append(b, x) \in Good
    OBVIOUS
  <2>1. Append(b, x) \in Seq(T)
    OBVIOUS
  <2>2. Fold(step, base, Append(b, x)) = step[Fold(step, base, b)][x]
    BY FoldOfAppended
  <2> QED  BY <2>1, <2>2
<1>3. seq \in Good
  <2> HIDE DEF Good
  <2> QED  BY <1>1, <1>2, ByElements
<1> QED  BY <1>3

\* The last element and what is before it.
LEMMA FrontAndLast ==
    ASSUME NEW T, NEW s \in Seq(T), s # <<>>
    PROVE  Front(s) \in Seq(T) /\ Last(s) \in T /\ Append(Front(s), Last(s)) = s
<1>1. Len(s) \in Nat /\ Len(s) >= 1
  OBVIOUS
<1>2. Front(s) = SubSeq(s, 1, Len(s) - 1) /\ Last(s) = s[Len(s)]
  BY DEF Front, Last
<1> QED  BY <1>1, <1>2

\* The same of a sequence just made longer.
LEMMA FrontOfAppended ==
    ASSUME NEW T, NEW s \in Seq(T), NEW x \in T
    PROVE  /\ Append(s, x) \in Seq(T) /\ Append(s, x) # <<>>
           /\ Front(Append(s, x)) = s /\ Last(Append(s, x)) = x
BY DEF Front, Last

-------------------------------------------------------------------------------
(* The passes of the reader, one character at a time                           *)

\* The steps of the passes.
Put(out, c) ==
    IF c = "n" /\ out # <<>> /\ Last(out) = "r" THEN Append(Front(out), "n") ELSE Append(out, c)

\* A line feed replaces the carriage return before it.
LEMMA NormalizedRuns ==
    /\ Normalized(<<>>) = <<>>
    /\ \A s \in Text : Normalized(s) \in Text
    /\ \A s \in Text, c \in Characters : Normalized(Append(s, c)) = Put(Normalized(s), c)
<1> DEFINE step == [out \in Text |-> [c \in Characters |-> Put(out, c)]]
           none == <<>>
<1>1. \A s : Normalized(s) = Fold(step, none, s)
  BY DEF Normalized, Put
<1>2. \A out \in Text, c \in Characters : step[out][c] = Put(out, c) /\ Put(out, c) \in Text
  <2> SUFFICES ASSUME NEW out \in Text, NEW c \in Characters PROVE Put(out, c) \in Text
    OBVIOUS
  <2>1. "n" \in Characters /\ out \in Seq(Characters)
    BY DEF Characters, Text
  <2>2. CASE out # <<>>
    <3>1. Front(out) \in Seq(Characters)
      BY <2>1, <2>2, FrontAndLast
    <3>2. Append(Front(out), "n") \in Seq(Characters) /\ Append(out, c) \in Seq(Characters)
      BY <2>1, <3>1
    <3> QED  BY <3>2 DEF Put, Text
  <2>3. CASE out = <<>>
    <3>1. Append(out, c) \in Seq(Characters)
      BY <2>1
    <3> QED  BY <2>3, <3>1 DEF Put, Text
  <2> QED  BY <2>2, <2>3
<1>3. none \in Text
  BY DEF Text
<1> HIDE DEF step, none
<1>4. \A s \in Text : Normalized(s) \in Text
  <2> SUFFICES ASSUME NEW s \in Text PROVE Fold(step, none, s) \in Text
    BY <1>1
  <2>1. s \in Seq(Characters)
    BY DEF Text
  <2>2. \A a \in Text, x \in Characters : step[a][x] \in Text
    BY <1>2
  <2> QED  BY <2>1, <2>2, <1>3, FoldStays
<1>5. \A s \in Text, c \in Characters : Normalized(Append(s, c)) = Put(Normalized(s), c)
  <2> SUFFICES ASSUME NEW s \in Text, NEW c \in Characters
               PROVE  Normalized(Append(s, c)) = Put(Normalized(s), c)
    OBVIOUS
  <2>1. s \in Seq(Characters)
    BY DEF Text
  <2>2. Fold(step, none, Append(s, c)) = step[Fold(step, none, s)][c]
    BY <2>1, FoldOfAppended
  <2> QED  BY <2>2, <1>1, <1>2, <1>4
<1>6. Normalized(none) = none
  BY <1>1, FoldOfNothing DEF none
<1> QED  BY <1>4, <1>5, <1>6 DEF none

\* Frames that are closed, and the open one.
Framing == [closed : Seq(Text), open : Text]

Cut(acc, c) ==
    IF c = "n" /\ acc.open # <<>> /\ Last(acc.open) = "n"
    THEN [closed |-> Append(acc.closed, Front(acc.open)), open |-> <<>>]
    ELSE [acc EXCEPT !.open = Append(@, c)]

\* A character leaves closed frames and an open one.
LEMMA CutType ==
    ASSUME NEW acc \in Framing, NEW c \in Characters PROVE Cut(acc, c) \in Framing
<1>1. acc.open \in Seq(Characters) /\ acc.closed \in Seq(Text) /\ <<>> \in Text
  BY DEF Framing, Text
<1>2. Append(acc.open, c) \in Text
  BY <1>1 DEF Text
<1>3. CASE c = "n" /\ acc.open # <<>> /\ Last(acc.open) = "n"
  <2>1. Front(acc.open) \in Text
    BY <1>1, <1>3, FrontAndLast DEF Text
  <2>2. Append(acc.closed, Front(acc.open)) \in Seq(Text)
    BY <1>1, <2>1
  <2> QED  BY <1>1, <1>3, <2>2 DEF Cut, Framing
<1>4. CASE ~(c = "n" /\ acc.open # <<>> /\ Last(acc.open) = "n")
  BY <1>2, <1>4 DEF Cut, Framing
<1> QED  BY <1>3, <1>4

\* split, one character more.
LEMMA FramesRun ==
    /\ Frames(<<>>) = [closed |-> <<>>, open |-> <<>>]
    /\ \A s \in Text : Frames(s) \in Framing
    /\ \A s \in Text, c \in Characters : Frames(Append(s, c)) = Cut(Frames(s), c)
<1> DEFINE step == [acc \in Framing |-> [c \in Characters |-> Cut(acc, c)]]
           none == [closed |-> <<>>, open |-> <<>>]
<1>1. \A s : Frames(s) = Fold(step, none, s)
  BY DEF Frames, Cut, Framing
<1>2. \A acc \in Framing, c \in Characters : step[acc][c] = Cut(acc, c) /\ Cut(acc, c) \in Framing
  BY CutType
<1>3. none \in Framing
  <2>1. <<>> \in Text /\ <<>> \in Seq(Text)
    BY DEF Text
  <2> QED  BY <2>1 DEF Framing
<1> HIDE DEF step, none
<1>4. \A s \in Text : Frames(s) \in Framing
  <2> SUFFICES ASSUME NEW s \in Text PROVE Fold(step, none, s) \in Framing
    BY <1>1
  <2>1. s \in Seq(Characters)
    BY DEF Text
  <2>2. \A a \in Framing, x \in Characters : step[a][x] \in Framing
    BY <1>2
  <2> QED  BY <2>1, <2>2, <1>3, FoldStays
<1>5. \A s \in Text, c \in Characters : Frames(Append(s, c)) = Cut(Frames(s), c)
  <2> SUFFICES ASSUME NEW s \in Text, NEW c \in Characters
               PROVE  Frames(Append(s, c)) = Cut(Frames(s), c)
    OBVIOUS
  <2>1. s \in Seq(Characters)
    BY DEF Text
  <2>2. Fold(step, none, Append(s, c)) = step[Fold(step, none, s)][c]
    BY <2>1, FoldOfAppended
  <2> QED  BY <2>2, <1>1, <1>2, <1>4
<1>6. Frames(<<>>) = none
  BY <1>1, FoldOfNothing
<1> QED  BY <1>4, <1>5, <1>6 DEF none

\* Lines that are complete, and the last one.
Lining == [lines : Seq(Text), line : Text]

PutLine(acc, c) ==
    IF c = "n" THEN [lines |-> Filled(acc.lines, acc.line), line |-> <<>>]
    ELSE [acc EXCEPT !.line = Append(@, c)]

\* The filled lines are texts.
LEMMA FilledType ==
    ASSUME NEW lines \in Seq(Text), NEW line \in Text PROVE Filled(lines, line) \in Seq(Text)
<1>1. Append(lines, line) \in Seq(Text)
  OBVIOUS
<1> QED  BY <1>1 DEF Filled

\* The lines of a frame, one character more.
LEMMA SplitRuns ==
    /\ Split(<<>>) = [lines |-> <<>>, line |-> <<>>]
    /\ \A s \in Text : Split(s) \in Lining
    /\ \A s \in Text, c \in Characters : Split(Append(s, c)) = PutLine(Split(s), c)
<1> DEFINE step == [acc \in Lining |-> [c \in Characters |-> PutLine(acc, c)]]
           none == [lines |-> <<>>, line |-> <<>>]
<1>1. \A s : Split(s) = Fold(step, none, s)
  BY DEF Split, PutLine, Lining
<1>2. \A acc \in Lining, c \in Characters :
          step[acc][c] = PutLine(acc, c) /\ PutLine(acc, c) \in Lining
  <2> SUFFICES ASSUME NEW acc \in Lining, NEW c \in Characters PROVE PutLine(acc, c) \in Lining
    OBVIOUS
  <2>1. acc.line \in Text /\ acc.lines \in Seq(Text) /\ <<>> \in Text
    BY DEF Lining, Text
  <2>2. Append(acc.line, c) \in Text /\ Filled(acc.lines, acc.line) \in Seq(Text)
    BY <2>1, FilledType DEF Text
  <2> QED  BY <2>1, <2>2 DEF PutLine, Lining
<1>3. none \in Lining
  <2>1. <<>> \in Text /\ <<>> \in Seq(Text)
    BY DEF Text
  <2> QED  BY <2>1 DEF Lining
<1> HIDE DEF step, none
<1>4. \A s \in Text : Split(s) \in Lining
  <2> SUFFICES ASSUME NEW s \in Text PROVE Fold(step, none, s) \in Lining
    BY <1>1
  <2>1. s \in Seq(Characters)
    BY DEF Text
  <2>2. \A a \in Lining, x \in Characters : step[a][x] \in Lining
    BY <1>2
  <2> QED  BY <2>1, <2>2, <1>3, FoldStays
<1>5. \A s \in Text, c \in Characters : Split(Append(s, c)) = PutLine(Split(s), c)
  <2> SUFFICES ASSUME NEW s \in Text, NEW c \in Characters
               PROVE  Split(Append(s, c)) = PutLine(Split(s), c)
    OBVIOUS
  <2>1. s \in Seq(Characters)
    BY DEF Text
  <2>2. Fold(step, none, Append(s, c)) = step[Fold(step, none, s)][c]
    BY <2>1, FoldOfAppended
  <2> QED  BY <2>2, <1>1, <1>2, <1>4
<1>6. Split(<<>>) = none
  BY <1>1, FoldOfNothing
<1> QED  BY <1>4, <1>5, <1>6 DEF none
-------------------------------------------------------------------------------
(* A chunk after what the buffer holds, one character at a time                *)

\* flatMap, one closed frame more.
LEMMA YieldedRuns ==
    /\ \A e \in Seq(Seq(Text)) : Yielded(e, <<>>) = e
    /\ \A f \in Text : ParseFrame(f) \in Seq(Seq(Text))
    /\ \A e \in Seq(Seq(Text)), fs \in Seq(Text) : Yielded(e, fs) \in Seq(Seq(Text))
    /\ \A e \in Seq(Seq(Text)), fs \in Seq(Text), f \in Text :
           Yielded(e, Append(fs, f)) = Yielded(e, fs) \o ParseFrame(f)
<1> DEFINE Es == Seq(Seq(Text))
           step == [found \in Es |-> [frame \in Text |-> found \o ParseFrame(frame)]]
<1>1. \A e, fs : Yielded(e, fs) = Fold(step, e, fs)
  BY DEF Yielded
<1>2. \A f \in Text : ParseFrame(f) \in Es
  <2> SUFFICES ASSUME NEW f \in Text PROVE ParseFrame(f) \in Es
    OBVIOUS
  <2>1. Split(f).lines \in Seq(Text) /\ Split(f).line \in Text
    BY SplitRuns DEF Lining
  <2>2. Filled(Split(f).lines, Split(f).line) \in Seq(Text)
    BY <2>1, FilledType
  <2>3. <<Filled(Split(f).lines, Split(f).line)>> \in Es /\ <<>> \in Es
    BY <2>2
  <2> QED  BY <2>3 DEF ParseFrame
<1>3. \A e \in Es, f \in Text : step[e][f] = e \o ParseFrame(f) /\ e \o ParseFrame(f) \in Es
  <2> SUFFICES ASSUME NEW e \in Es, NEW f \in Text PROVE e \o ParseFrame(f) \in Es
    OBVIOUS
  <2>1. ParseFrame(f) \in Es
    BY <1>2
  <2> QED  BY <2>1
<1> HIDE DEF step
<1>4. \A e \in Es, fs \in Seq(Text) : Yielded(e, fs) \in Es
  <2> SUFFICES ASSUME NEW e \in Es, NEW fs \in Seq(Text) PROVE Fold(step, e, fs) \in Es
    BY <1>1
  <2> HIDE DEF Es
  <2>1. \A a \in Es, x \in Text : step[a][x] \in Es
    BY <1>3
  <2> QED  BY <2>1, FoldStays
<1>5. ASSUME NEW e \in Es, NEW fs \in Seq(Text), NEW f \in Text
      PROVE  Yielded(e, Append(fs, f)) = Yielded(e, fs) \o ParseFrame(f)
  <2>1. Fold(step, e, Append(fs, f)) = step[Fold(step, e, fs)][f]
    BY FoldOfAppended
  <2> QED  BY <2>1, <1>1, <1>3, <1>4
<1>6. \A e \in Es : Yielded(e, <<>>) = e
  BY <1>1, FoldOfNothing
<1> QED  BY <1>2, <1>4, <1>5, <1>6

\* What parseSseFrames makes of a buffer.
Framed(s) == Frames(Normalized(s))

\* A frame without the carriage return it may end with.
Bare(b) == IF b # <<>> /\ Last(b) = "r" THEN Front(b) ELSE b

\* A bare frame is a text.
LEMMA BareType == ASSUME NEW b \in Text PROVE Bare(b) \in Text
  BY FrontAndLast DEF Bare, Text

\* One character more of it.
Follow(acc, c) == IF c = "n" THEN Cut([acc EXCEPT !.open = Bare(@)], "n") ELSE Cut(acc, c)

\* What the open frame ends with tells what the text ends with.
LEMMA OpenEnds ==
    ASSUME NEW s \in Text
    PROVE  /\ s = <<>> => Frames(s).open = <<>>
           /\ s # <<>> /\ Last(s) = "r" =>
                /\ Frames(s).open # <<>> /\ Last(Frames(s).open) = "r"
                /\ Frames(Front(s)) = [Frames(s) EXCEPT !.open = Front(@)]
           /\ s # <<>> /\ Last(s) # "r" => Bare(Frames(s).open) = Frames(s).open
<1>1. ASSUME s = <<>> PROVE Frames(s).open = <<>>
  BY <1>1, FramesRun
<1> DEFINE f == Front(s)
           c == Last(s)
           F == Frames(f)
<1>2. ASSUME s # <<>>
      PROVE  /\ f \in Text /\ c \in Characters /\ F \in Framing /\ Frames(s) = Cut(F, c)
             /\ F.open \in Seq(Characters) /\ Append(F.open, c) # <<>>
             /\ Front(Append(F.open, c)) = F.open /\ Last(Append(F.open, c)) = c
  <2>1. f \in Text /\ c \in Characters /\ Append(f, c) = s
    BY <1>2, FrontAndLast DEF Text
  <2>2. F \in Framing /\ Frames(s) = Cut(F, c)
    BY <2>1, FramesRun
  <2>3. F.open \in Seq(Characters)
    BY <2>2 DEF Framing, Text
  <2> HIDE DEF f, c, F
  <2>4. ASSUME NEW o \in Seq(Characters), NEW x \in Characters
        PROVE  Append(o, x) # <<>> /\ Front(Append(o, x)) = o /\ Last(Append(o, x)) = x
    BY FrontOfAppended
  <2> QED  BY <2>1, <2>2, <2>3, <2>4
<1> HIDE DEF f, c, F
<1>3. ASSUME s # <<>>, c = "r"
      PROVE  /\ Frames(s).open # <<>> /\ Last(Frames(s).open) = "r"
             /\ F = [Frames(s) EXCEPT !.open = Front(@)]
  <2>1. Frames(s) = [F EXCEPT !.open = Append(@, c)]
    BY <1>2, <1>3 DEF Cut
  <2> QED  BY <1>2, <1>3, <2>1 DEF Framing
<1>4. ASSUME s # <<>>, c # "r" PROVE Bare(Frames(s).open) = Frames(s).open
  <2>1. Cut(F, c).open = Append(F.open, c) \/ Cut(F, c).open = <<>>
    <3>1. CASE c = "n" /\ F.open # <<>> /\ Last(F.open) = "n"
      BY <3>1 DEF Cut
    <3>2. CASE ~(c = "n" /\ F.open # <<>> /\ Last(F.open) = "n")
      BY <1>2, <1>4, <3>2 DEF Cut, Framing
    <3> QED  BY <3>1, <3>2
  <2> QED  BY <1>2, <1>4, <2>1 DEF Bare
<1> QED  BY <1>1, <1>3, <1>4 DEF f, c, F

\* Normalising and splitting is one pass over the characters: a line feed takes
\* back the carriage return that the pass had put into the open frame.
LEMMA FramedRuns ==
    /\ Framed(<<>>) = [closed |-> <<>>, open |-> <<>>]
    /\ \A s \in Text : Framed(s) \in Framing
    /\ \A s \in Text, c \in Characters : Framed(Append(s, c)) = Follow(Framed(s), c)
<1>1. Framed(<<>>) = [closed |-> <<>>, open |-> <<>>]
  BY NormalizedRuns, FramesRun DEF Framed
<1>2. \A s \in Text : Normalized(s) \in Text /\ Framed(s) \in Framing
  BY NormalizedRuns, FramesRun DEF Framed
<1>3. ASSUME NEW s \in Text, NEW c \in Characters
      PROVE  Framed(Append(s, c)) = Follow(Framed(s), c)
  <2> DEFINE N == Normalized(s)
             A == Frames(N)
  <2>1. N \in Text /\ A \in Framing /\ "n" \in Characters
    BY <1>2 DEF Framed, Characters
  <2>2. Framed(Append(s, c)) = Frames(Put(N, c))
    BY NormalizedRuns DEF Framed
  <2>3. Framed(s) = A
    BY DEF Framed
  <2> HIDE DEF N, A
  <2>4. CASE c = "n" /\ N # <<>> /\ Last(N) = "r"
    <3>1. Put(N, c) = Append(Front(N), "n") /\ Front(N) \in Text
      BY <2>1, <2>4, FrontAndLast DEF Put, Text
    <3>2. Frames(Put(N, c)) = Cut(Frames(Front(N)), "n")
      BY <3>1, <2>1, FramesRun
    <3>3. A.open # <<>> /\ Last(A.open) = "r" /\ Frames(Front(N)) = [A EXCEPT !.open = Front(@)]
      BY <2>1, <2>4, OpenEnds DEF A
    <3>4. Bare(A.open) = Front(A.open)
      BY <3>3 DEF Bare
    <3>5. Follow(A, c) = Cut([A EXCEPT !.open = Front(@)], "n")
      BY <3>4, <2>1, <2>4 DEF Follow, Framing
    <3> QED  BY <2>2, <2>3, <3>2, <3>3, <3>5
  <2>5. CASE ~(c = "n" /\ N # <<>> /\ Last(N) = "r")
    <3>1. Put(N, c) = Append(N, c)
      BY <2>5 DEF Put
    <3>2. Frames(Put(N, c)) = Cut(A, c)
      BY <3>1, <2>1, FramesRun DEF A
    <3>3. c = "n" => Bare(A.open) = A.open
      BY <2>1, <2>5, OpenEnds DEF A, Bare
    <3>4. c = "n" => [A EXCEPT !.open = Bare(@)] = A
      BY <3>3, <2>1 DEF Framing
    <3> QED  BY <2>2, <2>3, <3>2, <3>4 DEF Follow
  <2> QED  BY <2>4, <2>5
<1> QED  BY <1>1, <1>2, <1>3
-------------------------------------------------------------------------------
(* A frame and its lines                                                       *)

\* Whether an event is dispatched of these lines.
SomeText(lines) == \E k \in DOMAIN lines : HasText(lines[k])

\* A character more has text when it is text.
LEMMA TextOfAppended ==
    ASSUME NEW s \in Text, NEW c \in Characters
    PROVE  HasText(Append(s, c)) <=> HasText(s) \/ c = "t"
<1> DEFINE N == Len(s)
           more == Append(s, c)
<1>1. /\ N \in Nat /\ DOMAIN s = 1..N /\ DOMAIN more = 1..(N + 1)
      /\ more[N + 1] = c /\ \A k \in 1..N : more[k] = s[k]
  BY DEF Text
<1> HIDE DEF N, more
<1>2. ASSUME HasText(more) PROVE HasText(s) \/ c = "t"
  <2>1. PICK k \in 1..(N + 1) : more[k] = "t"
    BY <1>1, <1>2 DEF HasText
  <2>2. k \in 1..N \/ k = N + 1
    BY <1>1
  <2> QED  BY <1>1, <2>1, <2>2 DEF HasText
<1>3. ASSUME HasText(s) PROVE HasText(more)
  <2>1. PICK k \in 1..N : s[k] = "t"
    BY <1>1, <1>3 DEF HasText
  <2>2. k \in 1..(N + 1) /\ more[k] = "t"
    BY <1>1, <2>1
  <2> QED  BY <1>1, <2>2 DEF HasText
<1>4. ASSUME c = "t" PROVE HasText(more)
  <2>1. N + 1 \in 1..(N + 1)
    BY <1>1
  <2> QED  BY <1>1, <1>4, <2>1 DEF HasText
<1> QED  BY <1>2, <1>3, <1>4 DEF more

\* An empty line has none.
LEMMA TextOfFilled ==
    ASSUME NEW lines \in Seq(Text), NEW line \in Text
    PROVE  SomeText(Filled(lines, line)) <=> SomeText(lines) \/ HasText(line)
<1>1. CASE line = <<>>
  <2>1. ~HasText(line)
    BY <1>1 DEF HasText
  <2> QED  BY <1>1, <2>1 DEF Filled
<1>2. CASE line # <<>>
  <2> DEFINE N == Len(lines)
             more == Append(lines, line)
  <2>1. /\ N \in Nat /\ DOMAIN lines = 1..N /\ DOMAIN more = 1..(N + 1)
        /\ more[N + 1] = line /\ \A k \in 1..N : more[k] = lines[k]
    OBVIOUS
  <2>2. Filled(lines, line) = more
    BY <1>2 DEF Filled
  <2> HIDE DEF N, more
  <2>3. ASSUME SomeText(more) PROVE SomeText(lines) \/ HasText(line)
    <3>1. PICK k \in 1..(N + 1) : HasText(more[k])
      BY <2>1, <2>3 DEF SomeText
    <3>2. k \in 1..N \/ k = N + 1
      BY <2>1
    <3> QED  BY <2>1, <3>1, <3>2 DEF SomeText
  <2>4. ASSUME SomeText(lines) PROVE SomeText(more)
    <3>1. PICK k \in 1..N : HasText(lines[k])
      BY <2>1, <2>4 DEF SomeText
    <3>2. k \in 1..(N + 1) /\ HasText(more[k])
      BY <2>1, <3>1
    <3> QED  BY <2>1, <3>2 DEF SomeText
  <2>5. ASSUME HasText(line) PROVE SomeText(more)
    <3>1. N + 1 \in 1..(N + 1)
      BY <2>1
    <3> QED  BY <2>1, <2>5, <3>1 DEF SomeText
  <2> QED  BY <2>2, <2>3, <2>4, <2>5
<1> QED  BY <1>1, <1>2

\* A frame has text when one of its lines does.
LEMMA TextOfLines ==
    ASSUME NEW s \in Text
    PROVE  HasText(s) <=> SomeText(Split(s).lines) \/ HasText(Split(s).line)
<1> DEFINE Same(b) == HasText(b) <=> SomeText(Split(b).lines) \/ HasText(Split(b).line)
           Good == {b \in Text : Same(b)}
<1>1. <<>> \in Good
  <2>1. Split(<<>>) = [lines |-> <<>>, line |-> <<>>] /\ <<>> \in Text
    BY SplitRuns DEF Text
  <2>2. ~HasText(<<>>) /\ ~SomeText(<<>>)
    BY DEF HasText, SomeText
  <2> QED  BY <2>1, <2>2
<1>2. \A b \in Seq(Characters), c \in Characters : b \in Good => Append(b, c) \in Good
  <2> SUFFICES ASSUME NEW b \in Text, NEW c \in Characters, Same(b) PROVE Append(b, c) \in Good
    BY DEF Text
  <2>1. Append(b, c) \in Text
    BY DEF Text
  <2>2. Split(b) \in Lining /\ Split(Append(b, c)) = PutLine(Split(b), c)
    BY SplitRuns
  <2> DEFINE l == Split(b)
  <2>3. l.lines \in Seq(Text) /\ l.line \in Text
    BY <2>2 DEF Lining
  <2>4. HasText(Append(b, c)) <=> HasText(b) \/ c = "t"
    BY TextOfAppended
  <2> HIDE DEF l
  <2>5. CASE c = "n"
    <3>1. PutLine(l, c).lines = Filled(l.lines, l.line) /\ PutLine(l, c).line = <<>>
      BY <2>5 DEF PutLine
    <3>2. ~HasText(<<>>)
      BY DEF HasText
    <3>3. SomeText(Filled(l.lines, l.line)) <=> SomeText(l.lines) \/ HasText(l.line)
      BY <2>3, TextOfFilled
    <3>4. c # "t"
      BY <2>5
    <3> QED  BY <2>1, <2>2, <2>4, <3>1, <3>2, <3>3, <3>4 DEF l
  <2>6. CASE c # "n"
    <3>1. PutLine(l, c).lines = l.lines /\ PutLine(l, c).line = Append(l.line, c)
      BY <2>2, <2>6 DEF PutLine, Lining, l
    <3>2. HasText(Append(l.line, c)) <=> HasText(l.line) \/ c = "t"
      BY <2>3, TextOfAppended
    <3> QED  BY <2>1, <2>2, <2>4, <3>1, <3>2 DEF l
  <2> QED  BY <2>5, <2>6
<1>3. s \in Good
  <2>1. s \in Seq(Characters)
    BY DEF Text
  <2> HIDE DEF Good
  <2> QED  BY <1>1, <1>2, <2>1, ByElements
<1> QED  BY <1>3

\* What a frame ends with tells what its last line is.
LEMMA LineEnds ==
    ASSUME NEW s \in Text
    PROVE  /\ s = <<>> => Split(s).lines = <<>> /\ Split(s).line = <<>>
           /\ s # <<>> /\ Last(s) = "n" =>
                /\ Split(s).lines = Filled(Split(Front(s)).lines, Split(Front(s)).line)
                /\ Split(s).line = <<>> /\ (HasText(s) <=> HasText(Front(s)))
           /\ s # <<>> /\ Last(s) # "n" =>
                /\ Split(s).lines = Split(Front(s)).lines
                /\ Split(s).line # <<>> /\ Last(Split(s).line) = Last(s)
                /\ Front(Split(s).line) = Split(Front(s)).line
<1>1. ASSUME s = <<>> PROVE Split(s).lines = <<>> /\ Split(s).line = <<>>
  BY <1>1, SplitRuns
<1> DEFINE f == Front(s)
           c == Last(s)
           l == Split(f)
<1>2. ASSUME s # <<>>
      PROVE  /\ f \in Text /\ c \in Characters /\ s = Append(f, c)
             /\ l \in Lining /\ Split(s) = PutLine(l, c) /\ l.line \in Seq(Characters)
  <2>1. f \in Text /\ c \in Characters /\ Append(f, c) = s
    BY <1>2, FrontAndLast DEF Text
  <2>2. l \in Lining /\ Split(s) = PutLine(l, c)
    BY <2>1, SplitRuns
  <2>3. l.line \in Seq(Characters)
    BY <2>2 DEF Lining, Text
  <2> QED  BY <2>1, <2>2, <2>3
<1> HIDE DEF f, c, l
<1>3. ASSUME s # <<>>, c = "n"
      PROVE  /\ Split(s).lines = Filled(l.lines, l.line)
             /\ Split(s).line = <<>> /\ (HasText(s) <=> HasText(f))
  <2>1. HasText(s) <=> HasText(f) \/ c = "t"
    BY <1>2, <1>3, TextOfAppended
  <2>2. c # "t"
    BY <1>3
  <2>3. PutLine(l, c) = [lines |-> Filled(l.lines, l.line), line |-> <<>>]
    BY <1>3 DEF PutLine
  <2> QED  BY <1>2, <1>3, <2>1, <2>2, <2>3
<1>4. ASSUME s # <<>>, c # "n"
      PROVE  /\ Split(s).lines = l.lines /\ Split(s).line # <<>>
             /\ Last(Split(s).line) = c /\ Front(Split(s).line) = l.line
  <2>1. Split(s).lines = l.lines /\ Split(s).line = Append(l.line, c)
    BY <1>2, <1>4 DEF PutLine, Lining
  <2>2. l.line \in Seq(Characters) /\ c \in Characters
    BY <1>2, <1>4
  <2>3. ASSUME NEW o \in Seq(Characters), NEW x \in Characters
        PROVE  Append(o, x) # <<>> /\ Front(Append(o, x)) = o /\ Last(Append(o, x)) = x
    BY FrontOfAppended
  <2> QED  BY <2>1, <2>2, <2>3
<1> QED  BY <1>1, <1>3, <1>4 DEF f, c, l
-------------------------------------------------------------------------------
(* The reader and the reference                                                *)

\* How far the reference is after s.
ReadAll(s) ==
    LET reference == [acc \in Reading |-> [c \in Characters |-> ReadCharacter(acc, c)]]
    IN  Fold(reference, [line |-> <<>>, event |-> <<>>, events |-> <<>>], s)

\* The end of a line keeps the type of the reference.
LEMMA EndLineType ==
    ASSUME NEW acc \in Reading, NEW line \in Text PROVE EndLine(acc, line) \in Reading
<1>1. /\ acc.event \in Seq(Text) /\ acc.events \in Seq(Seq(Text))
      /\ <<>> \in Text /\ <<>> \in Seq(Text)
  BY DEF Reading, Text
<1>2. Append(acc.event, line) \in Seq(Text) /\ Append(acc.events, acc.event) \in Seq(Seq(Text))
  BY <1>1
<1>3. CASE line # <<>>
  <2>1. EndLine(acc, line) = [acc EXCEPT !.line = <<>>, !.event = Append(@, line)]
    BY <1>3 DEF EndLine
  <2> QED  BY <1>1, <1>2, <2>1 DEF Reading
<1>4. CASE line = <<>> /\ SomeText(acc.event)
  <2>1. EndLine(acc, line) =
          [acc EXCEPT !.line = <<>>, !.event = <<>>, !.events = Append(@, acc.event)]
    BY <1>4 DEF EndLine, SomeText
  <2> QED  BY <1>1, <1>2, <2>1 DEF Reading
<1>5. CASE line = <<>> /\ ~SomeText(acc.event)
  <2>1. EndLine(acc, line) = [acc EXCEPT !.line = <<>>, !.event = <<>>]
    BY <1>5 DEF EndLine, SomeText
  <2> QED  BY <1>1, <2>1 DEF Reading
<1> QED  BY <1>3, <1>4, <1>5

\* The reference, one character more.
LEMMA ReadRuns ==
    /\ ReadAll(<<>>) = [line |-> <<>>, event |-> <<>>, events |-> <<>>]
    /\ \A s \in Text : ReadAll(s) \in Reading
    /\ \A s \in Text, c \in Characters : ReadAll(Append(s, c)) = ReadCharacter(ReadAll(s), c)
<1> DEFINE step == [acc \in Reading |-> [c \in Characters |-> ReadCharacter(acc, c)]]
           none == [line |-> <<>>, event |-> <<>>, events |-> <<>>]
<1>1. \A s : ReadAll(s) = Fold(step, none, s)
  BY DEF ReadAll
<1>2. \A acc \in Reading, c \in Characters :
          step[acc][c] = ReadCharacter(acc, c) /\ ReadCharacter(acc, c) \in Reading
  <2> SUFFICES ASSUME NEW acc \in Reading, NEW c \in Characters
               PROVE  ReadCharacter(acc, c) \in Reading
    OBVIOUS
  <2>1. acc.line \in Seq(Characters)
    BY DEF Reading, Text
  <2>2. CASE c # "n"
    <3>1. Append(acc.line, c) \in Text
      BY <2>1 DEF Text
    <3>2. ReadCharacter(acc, c) = [acc EXCEPT !.line = Append(@, c)]
      BY <2>2 DEF ReadCharacter
    <3> QED  BY <3>1, <3>2 DEF Reading
  <2>3. CASE c = "n" /\ acc.line # <<>> /\ Last(acc.line) = "r"
    <3>1. Front(acc.line) \in Text
      BY <2>1, <2>3, FrontAndLast DEF Text
    <3>2. ReadCharacter(acc, c) = EndLine(acc, Front(acc.line))
      BY <2>3 DEF ReadCharacter
    <3> QED  BY <3>1, <3>2, EndLineType
  <2>4. CASE c = "n" /\ ~(acc.line # <<>> /\ Last(acc.line) = "r")
    <3>1. acc.line \in Text
      BY <2>1 DEF Text
    <3>2. ReadCharacter(acc, c) = EndLine(acc, acc.line)
      BY <2>4 DEF ReadCharacter
    <3> QED  BY <3>1, <3>2, EndLineType
  <2> QED  BY <2>2, <2>3, <2>4
<1>3. none \in Reading
  <2>1. <<>> \in Text /\ <<>> \in Seq(Text) /\ <<>> \in Seq(Seq(Text))
    BY DEF Text
  <2> QED  BY <2>1 DEF Reading
<1> HIDE DEF step, none
<1>4. \A s \in Text : ReadAll(s) \in Reading
  <2> SUFFICES ASSUME NEW s \in Text PROVE Fold(step, none, s) \in Reading
    BY <1>1
  <2>1. s \in Seq(Characters)
    BY DEF Text
  <2>2. \A a \in Reading, x \in Characters : step[a][x] \in Reading
    BY <1>2
  <2> QED  BY <2>1, <2>2, <1>3, FoldStays
<1>5. \A s \in Text, c \in Characters : ReadAll(Append(s, c)) = ReadCharacter(ReadAll(s), c)
  <2> SUFFICES ASSUME NEW s \in Text, NEW c \in Characters
               PROVE  ReadAll(Append(s, c)) = ReadCharacter(ReadAll(s), c)
    OBVIOUS
  <2>1. s \in Seq(Characters)
    BY DEF Text
  <2>2. Fold(step, none, Append(s, c)) = step[Fold(step, none, s)][c]
    BY <2>1, FoldOfAppended
  <2> QED  BY <2>2, <1>1, <1>2, <1>4
<1>6. ReadAll(<<>>) = none
  BY <1>1, FoldOfNothing
<1> QED  BY <1>4, <1>5, <1>6 DEF none

\* Where the reference is when the reader holds the frame b and has yielded e.
Abreast(b, e) == [line |-> Split(b).line, event |-> Split(b).lines, events |-> e]

\* To the reference a line feed ends the line of the bare frame.
LEMMA LineEndRead ==
    ASSUME NEW b \in Text, NEW e
    PROVE  /\ ReadCharacter(Abreast(b, e), "n") = EndLine(Abreast(b, e), Split(Bare(b)).line)
           /\ Split(Bare(b)).lines = Split(b).lines
<1>1. Abreast(b, e).line = Split(b).line
  BY DEF Abreast
<1>2. CASE b # <<>> /\ Last(b) = "r"
  <2>1. Bare(b) = Front(b)
    BY <1>2 DEF Bare
  <2>2. /\ Split(b).lines = Split(Front(b)).lines
        /\ Split(b).line # <<>> /\ Last(Split(b).line) = "r"
        /\ Front(Split(b).line) = Split(Front(b)).line
    BY <1>2, LineEnds
  <2>3. ReadCharacter(Abreast(b, e), "n") = EndLine(Abreast(b, e), Front(Split(b).line))
    BY <1>1, <2>2 DEF ReadCharacter
  <2> QED  BY <2>1, <2>2, <2>3
<1>3. CASE ~(b # <<>> /\ Last(b) = "r")
  <2>1. Bare(b) = b
    BY <1>3 DEF Bare
  <2>2. ~(Split(b).line # <<>> /\ Last(Split(b).line) = "r")
    BY <1>3, LineEnds
  <2>3. ReadCharacter(Abreast(b, e), "n") = EndLine(Abreast(b, e), Split(b).line)
    BY <1>1, <2>2 DEF ReadCharacter
  <2> QED  BY <2>1, <2>3
<1> QED  BY <1>2, <1>3

\* What parseFrame yields of a frame, from the lines of the frame.
LEMMA ParsedLines ==
    ASSUME NEW b \in Text
    PROVE  ParseFrame(b) = IF SomeText(Filled(Split(b).lines, Split(b).line))
                           THEN <<Filled(Split(b).lines, Split(b).line)>> ELSE <<>>
<1>1. Split(b).lines \in Seq(Text) /\ Split(b).line \in Text
  BY SplitRuns DEF Lining
<1>2. HasText(b) <=> SomeText(Filled(Split(b).lines, Split(b).line))
  BY <1>1, TextOfLines, TextOfFilled
<1> QED  BY <1>2 DEF ParseFrame

\* An empty line: the lines before it are the event.
LEMMA EmptyLineEnds ==
    ASSUME NEW e \in Seq(Seq(Text)), NEW lines \in Seq(Text), NEW line
    PROVE  EndLine([line |-> line, event |-> lines, events |-> e], <<>>) =
             [line |-> <<>>, event |-> <<>>,
              events |-> e \o (IF SomeText(lines) THEN <<lines>> ELSE <<>>)]
<1> DEFINE acc == [line |-> line, event |-> lines, events |-> e]
<1>1. e \o <<lines>> = Append(e, lines) /\ e \o <<>> = e
  OBVIOUS
<1>2. CASE SomeText(lines)
  <2>1. EndLine(acc, <<>>) =
          [acc EXCEPT !.line = <<>>, !.event = <<>>, !.events = Append(@, acc.event)]
    BY <1>2 DEF EndLine, SomeText
  <2> QED  BY <1>1, <1>2, <2>1
<1>3. CASE ~SomeText(lines)
  <2>1. EndLine(acc, <<>>) = [acc EXCEPT !.line = <<>>, !.event = <<>>]
    BY <1>3 DEF EndLine, SomeText
  <2> QED  BY <1>1, <1>3, <2>1
<1> QED  BY <1>2, <1>3

\* A character moves the reader's pass and the reference alike.
LEMMA CharacterRead ==
    ASSUME NEW acc \in Framing, NEW e \in Seq(Seq(Text)), NEW c \in Characters
    PROVE  ReadCharacter(Abreast(acc.open, Yielded(e, acc.closed)), c) =
             Abreast(Follow(acc, c).open, Yielded(e, Follow(acc, c).closed))
<1> DEFINE b == acc.open
           y == Yielded(e, acc.closed)
<1>1. b \in Text /\ acc.closed \in Seq(Text) /\ y \in Seq(Seq(Text))
  BY YieldedRuns DEF Framing
<1>2. CASE c # "n"
  <2>1. Follow(acc, c) = [acc EXCEPT !.open = Append(@, c)]
    BY <1>2 DEF Follow, Cut
  <2>2. Follow(acc, c).open = Append(b, c) /\ Follow(acc, c).closed = acc.closed
    BY <2>1 DEF Framing
  <2>3. Split(b) \in Lining /\ Split(Append(b, c)) = PutLine(Split(b), c)
    BY <1>1, SplitRuns
  <2>4. /\ Split(Append(b, c)).lines = Split(b).lines
        /\ Split(Append(b, c)).line = Append(Split(b).line, c)
    BY <1>2, <2>3 DEF PutLine, Lining
  <2>5. ReadCharacter(Abreast(b, y), c) = [Abreast(b, y) EXCEPT !.line = Append(@, c)]
    BY <1>2 DEF ReadCharacter
  <2> HIDE DEF b, y
  <2>6. ReadCharacter(Abreast(b, y), c) = Abreast(Append(b, c), y)
    BY <2>4, <2>5 DEF Abreast
  <2> QED  BY <2>2, <2>6 DEF b, y
<1>3. CASE c = "n"
  <2> DEFINE b1 == Bare(b)
             S == Split(b1)
             inner == [acc EXCEPT !.open = Bare(@)]
  <2>1. b1 \in Text /\ S.lines \in Seq(Text) /\ S.line \in Text
    BY <1>1, BareType, SplitRuns DEF Lining
  <2>2. ReadCharacter(Abreast(b, y), c) = EndLine(Abreast(b, y), S.line) /\ S.lines = Split(b).lines
    BY <1>1, <1>3, LineEndRead
  <2>3. Follow(acc, c) = Cut(inner, "n") /\ inner.open = b1 /\ inner.closed = acc.closed
    BY <1>3 DEF Follow, Framing
  <2>4. /\ Abreast(b, y).line = Split(b).line /\ Abreast(b, y).event = S.lines /\ Abreast(b, y).events = y
        /\ Abreast(b, y) = [line |-> Split(b).line, event |-> S.lines, events |-> y]
    BY <2>2 DEF Abreast
  <2> HIDE DEF inner, b1
  <2>5. CASE b1 # <<>> /\ Last(b1) = "n"
    <3> DEFINE f == Front(b1)
    <3>1. S.line = <<>> /\ S.lines = Filled(Split(f).lines, Split(f).line) /\ f \in Text
      BY <2>1, <2>5, LineEnds, FrontAndLast DEF Text
    <3>2. Follow(acc, c) = [closed |-> Append(acc.closed, f), open |-> <<>>]
      BY <2>3, <2>5 DEF Cut
    <3>3. Yielded(e, Append(acc.closed, f)) = y \o ParseFrame(f)
      BY <1>1, <3>1, YieldedRuns
    <3>4. ParseFrame(f) = IF SomeText(S.lines) THEN <<S.lines>> ELSE <<>>
      BY <3>1, ParsedLines
    <3> HIDE DEF S, f, y, b
    <3>5. EndLine(Abreast(b, y), <<>>) =
            [line |-> <<>>, event |-> <<>>,
             events |-> y \o (IF SomeText(S.lines) THEN <<S.lines>> ELSE <<>>)]
      BY <1>1, <2>1, <2>4, EmptyLineEnds
    <3>6. Abreast(<<>>, y \o ParseFrame(f)) =
            [line |-> <<>>, event |-> <<>>, events |-> y \o ParseFrame(f)]
      <4>1. Split(<<>>).line = <<>> /\ Split(<<>>).lines = <<>>
        BY SplitRuns
      <4> QED  BY <4>1 DEF Abreast
    <3>7. ReadCharacter(Abreast(b, y), c) = Abreast(<<>>, y \o ParseFrame(f))
      BY <2>2, <3>1, <3>4, <3>5, <3>6
    <3>8. Follow(acc, c).open = <<>> /\ Yielded(e, Follow(acc, c).closed) = y \o ParseFrame(f)
      BY <3>2, <3>3
    <3> QED  BY <3>7, <3>8 DEF b, y
  <2>6. CASE ~(b1 # <<>> /\ Last(b1) = "n")
    <3>1. Follow(acc, c).open = Append(b1, "n") /\ Follow(acc, c).closed = acc.closed
      <4>1. Cut(inner, "n") = [inner EXCEPT !.open = Append(@, "n")]
        BY <2>6, <2>3 DEF Cut
      <4> QED  BY <2>3, <4>1 DEF inner, Framing
    <3>2. Split(Append(b1, "n")) = [lines |-> Filled(S.lines, S.line), line |-> <<>>]
      <4>1. Split(Append(b1, "n")) = PutLine(S, "n")
        BY <2>1, SplitRuns DEF Characters
      <4> QED  BY <4>1 DEF PutLine
    <3>3. S.line = <<>> => S.lines = <<>>
      BY <2>1, <2>6, LineEnds
    <3> HIDE DEF S, y, b
    <3>4. EndLine(Abreast(b, y), S.line) =
            [line |-> <<>>, event |-> Filled(S.lines, S.line), events |-> y]
      <4>1. CASE S.line # <<>>
        <5>1. EndLine(Abreast(b, y), S.line) = [Abreast(b, y) EXCEPT !.line = <<>>, !.event = Append(@, S.line)]
          BY <4>1 DEF EndLine
        <5> QED  BY <2>4, <4>1, <5>1 DEF Filled
      <4>2. CASE S.line = <<>>
        <5>1. S.lines = <<>> /\ ~SomeText(S.lines)
          BY <3>3, <4>2 DEF SomeText
        <5>2. EndLine(Abreast(b, y), S.line) = [Abreast(b, y) EXCEPT !.line = <<>>, !.event = <<>>]
          BY <2>4, <4>2, <5>1 DEF EndLine, SomeText
        <5> QED  BY <2>4, <4>2, <5>1, <5>2 DEF Filled
      <4> QED  BY <4>1, <4>2
    <3>5. Abreast(Append(b1, "n"), y) =
            [line |-> <<>>, event |-> Filled(S.lines, S.line), events |-> y]
      BY <3>2 DEF Abreast
    <3> QED  BY <2>2, <3>1, <3>4, <3>5 DEF b, y
  <2> QED  BY <2>5, <2>6
<1> QED  BY <1>2, <1>3

\* The end of the body ends the line and the event.
LEMMA EndRead ==
    ASSUME NEW b \in Text, NEW e \in Seq(Seq(Text))
    PROVE  EndLine(EndLine(Abreast(b, e), Abreast(b, e).line), <<>>).events = e \o ParseFrame(b)
<1> DEFINE S == Split(b)
           F == Filled(S.lines, S.line)
           tail == IF SomeText(F) THEN <<F>> ELSE <<>>
<1>1. S.lines \in Seq(Text) /\ S.line \in Text /\ F \in Seq(Text)
  BY SplitRuns, FilledType DEF Lining
<1>2. ParseFrame(b) = tail
  BY ParsedLines
<1>3. /\ Abreast(b, e) = [line |-> S.line, event |-> S.lines, events |-> e] /\ Abreast(b, e).line = S.line
      /\ Abreast(b, e).event = S.lines /\ Abreast(b, e).events = e
  BY DEF Abreast
<1> HIDE DEF S
<1>4. CASE S.line # <<>>
  <2>1. EndLine(Abreast(b, e), S.line) = [line |-> <<>>, event |-> Append(S.lines, S.line), events |-> e]
    <3>1. EndLine(Abreast(b, e), S.line) = [Abreast(b, e) EXCEPT !.line = <<>>, !.event = Append(@, S.line)]
      BY <1>4 DEF EndLine
    <3> QED  BY <1>3, <3>1
  <2>2. EndLine(Abreast(b, e), S.line) = [line |-> <<>>, event |-> F, events |-> e]
    BY <1>4, <2>1 DEF Filled
  <2>3. EndLine(EndLine(Abreast(b, e), S.line), <<>>) =
          [line |-> <<>>, event |-> <<>>, events |-> e \o tail]
    <3> HIDE DEF F
    <3>1. EndLine([line |-> <<>>, event |-> F, events |-> e], <<>>) =
            [line |-> <<>>, event |-> <<>>, events |-> e \o tail]
      BY <1>1, EmptyLineEnds
    <3> QED  BY <2>2, <3>1
  <2> QED  BY <1>2, <1>3, <2>3
<1>5. CASE S.line = <<>>
  <2>1. F = S.lines
    BY <1>5 DEF Filled
  <2>2. Abreast(b, e) = [line |-> <<>>, event |-> F, events |-> e]
    BY <1>3, <1>5, <2>1
  <2> HIDE DEF F
  <2>3. EndLine(Abreast(b, e), <<>>) = [line |-> <<>>, event |-> <<>>, events |-> e \o tail]
    <3>1. EndLine([line |-> <<>>, event |-> F, events |-> e], <<>>) =
            [line |-> <<>>, event |-> <<>>, events |-> e \o tail]
      BY <1>1, EmptyLineEnds
    <3> QED  BY <2>2, <3>1
  <2>4. EndLine(EndLine(Abreast(b, e), <<>>), <<>>).events = e \o tail
    <3>1. ~SomeText(<<>>)
      BY DEF SomeText
    <3> DEFINE acc == EndLine(Abreast(b, e), <<>>)
    <3> HIDE DEF tail, acc
    <3>2. acc.event = <<>> /\ acc.events = e \o tail
      BY <2>3 DEF acc
    <3>3. EndLine(acc, <<>>) = [acc EXCEPT !.line = <<>>, !.event = <<>>]
      BY <3>1, <3>2 DEF EndLine, SomeText
    <3>4. EndLine(acc, <<>>).events = acc.events
      BY <2>3, <3>3 DEF acc
    <3> QED  BY <3>2, <3>4 DEF acc
  <2> QED  BY <1>2, <1>3, <1>5, <2>4
<1> QED  BY <1>4, <1>5
-------------------------------------------------------------------------------
(* The invariant of the reader                                                 *)

EndsInReturn(b) == b # <<>> /\ Last(b) = "r"

Unframed(b) == Framed(b) = [closed |-> <<>>, open |-> b]

\* Normalising and splitting what is held changes nothing of it.
Settled(b) ==
    /\ Unframed(b)
    /\ EndsInReturn(b) => Unframed(Front(b)) /\ ~EndsInReturn(Front(b))

\* What is held stays settled, since no carriage return follows another.
LEMMA SettledStays ==
    ASSUME NEW acc \in Framing, NEW c \in Characters, Settled(acc.open),
           ~(c = "r" /\ EndsInReturn(acc.open))
    PROVE  /\ Settled(Follow(acc, c).open)
           /\ EndsInReturn(Follow(acc, c).open) => c = "r"
<1> DEFINE b == acc.open
<1>1. b \in Text /\ b \in Seq(Characters) /\ acc.closed \in Seq(Text)
  BY DEF Framing, Text
<1>2. CASE c # "n"
  <2> DEFINE more == Append(b, c)
  <2>1. Follow(acc, c).open = more
    <3>1. Follow(acc, c) = [acc EXCEPT !.open = Append(@, c)]
      BY <1>2 DEF Follow, Cut
    <3> QED  BY <3>1 DEF Framing
  <2>2. Front(more) = b /\ Last(more) = c
    BY <1>1, FrontOfAppended
  <2>3. Framed(more) = Follow(Framed(b), c)
    BY <1>1, FramedRuns
  <2>4. Framed(b) = [closed |-> <<>>, open |-> b]
    BY DEF Settled, Unframed
  <2> HIDE DEF b, more
  <2>5. Framed(more) = [closed |-> <<>>, open |-> more]
    <3>1. Framed(more) = [Framed(b) EXCEPT !.open = Append(@, c)]
      BY <1>2, <2>3 DEF Follow, Cut
    <3>2. [[closed |-> <<>>, open |-> b] EXCEPT !.open = Append(@, c)] =
            [closed |-> <<>>, open |-> more]
      BY DEF more
    <3> QED  BY <2>4, <3>1, <3>2
  <2>6. c = "r" => ~EndsInReturn(b)
    BY DEF b
  <2>7. Settled(more) /\ (EndsInReturn(more) => c = "r")
    BY <2>2, <2>4, <2>5, <2>6 DEF Settled, Unframed, EndsInReturn
  <2> QED  BY <2>1, <2>7
<1>3. CASE c = "n"
  <2> DEFINE b1 == Bare(b)
             inner == [acc EXCEPT !.open = Bare(@)]
             alone == [closed |-> <<>>, open |-> b1]
  <2>1. b1 \in Text /\ b1 \in Seq(Characters)
    BY <1>1, BareType DEF Text
  <2>2. Framed(b1) = alone /\ ~EndsInReturn(b1)
    BY DEF Settled, Unframed, EndsInReturn, Bare
  <2>3. Follow(acc, c) = Cut(inner, "n") /\ inner.open = b1
    BY <1>3 DEF Follow, Framing
  <2> HIDE DEF b1, inner, b
  <2>4. CASE b1 # <<>> /\ Last(b1) = "n"
    <3>1. Follow(acc, c).open = <<>>
      BY <2>3, <2>4 DEF Cut
    <3>2. Settled(<<>>) /\ ~EndsInReturn(<<>>)
      BY FramedRuns DEF Settled, Unframed, EndsInReturn
    <3> QED  BY <3>1, <3>2
  <2>5. CASE ~(b1 # <<>> /\ Last(b1) = "n")
    <3> DEFINE more == Append(b1, "n")
    <3>1. Follow(acc, c).open = more
      <4>1. Cut(inner, "n") = [inner EXCEPT !.open = Append(@, "n")]
        BY <2>3, <2>5 DEF Cut
      <4> QED  BY <2>3, <4>1 DEF inner, Framing
    <3>2. Last(more) = "n"
      <4>1. "n" \in Characters
        BY DEF Characters
      <4> QED  BY <2>1, <4>1, FrontOfAppended
    <3>3. Framed(more) = Follow(alone, "n")
      BY <2>1, <2>2, FramedRuns DEF Characters
    <3>4. Bare(b1) = b1
      BY <2>2 DEF Bare, EndsInReturn
    <3> HIDE DEF more
    <3>5. Follow(alone, "n") = [closed |-> <<>>, open |-> more]
      BY <2>5, <3>4 DEF Follow, Cut, more
    <3>6. Settled(more) /\ ~EndsInReturn(more)
      BY <3>2, <3>3, <3>5 DEF Settled, Unframed, EndsInReturn
    <3> QED  BY <3>1, <3>6
  <2> QED  BY <2>4, <2>5
<1> QED  BY <1>2, <1>3

\* A body in which a line feed follows every carriage return.
ReturnsPaired(w) == \A k \in 1..Len(w) : w[k] = "r" => k < Len(w) /\ w[k + 1] = "n"

\* What the reader has made of the first p characters of w.
HasRead(w, b, e, p) ==
    /\ b \in Text /\ e \in Seq(Seq(Text)) /\ Settled(b)
    /\ EndsInReturn(b) => p \in 1..Len(w) /\ w[p] = "r"
    /\ ReadAll(SubSeq(w, 1, p)) = Abreast(b, e)

\* One character of a chunk.
LEMMA NextHasRead ==
    ASSUME NEW w \in Text, ReturnsPaired(w), NEW p \in 0..Len(w), p < Len(w),
           NEW acc \in Framing, NEW e \in Seq(Seq(Text)),
           HasRead(w, acc.open, Yielded(e, acc.closed), p)
    PROVE  HasRead(w, Follow(acc, w[p + 1]).open, Yielded(e, Follow(acc, w[p + 1]).closed), p + 1)
<1> DEFINE c == w[p + 1]
           next == Follow(acc, c)
           begun == SubSeq(w, 1, p)
<1>1. /\ c \in Characters /\ begun \in Text /\ p + 1 \in 1..Len(w)
      /\ SubSeq(w, 1, p + 1) = Append(begun, c)
  <2>1. w \in Seq(Characters) /\ p + 1 \in 1..Len(w) /\ (p + 1) - 1 = p
    BY DEF Text
  <2> QED  BY <2>1, Beginnings DEF Text
<1>2. ~(c = "r" /\ EndsInReturn(acc.open))
  <2> SUFFICES ASSUME EndsInReturn(acc.open), c = "r" PROVE FALSE
    OBVIOUS
  <2>1. p \in 1..Len(w) /\ w[p] = "r"
    BY DEF HasRead
  <2>2. c = "n"
    BY <2>1 DEF ReturnsPaired
  <2> QED  BY <2>2
<1>3. Settled(next.open) /\ (EndsInReturn(next.open) => c = "r")
  BY <1>1, <1>2, SettledStays DEF HasRead
<1>4. next \in Framing
  <2>1. acc.open \in Text /\ Bare(acc.open) \in Text
    BY BareType DEF Framing
  <2> DEFINE bare == [acc EXCEPT !.open = Bare(@)]
  <2>2. bare \in Framing /\ "n" \in Characters
    BY <2>1 DEF Framing, Characters
  <2>3. \A a \in Framing, x \in Characters : Cut(a, x) \in Framing
    BY CutType
  <2> HIDE DEF bare
  <2>4. next = Cut(bare, "n") \/ next = Cut(acc, c)
    BY DEF Follow, bare
  <2> QED  BY <1>1, <2>2, <2>3, <2>4
<1>5. next.open \in Text /\ Yielded(e, next.closed) \in Seq(Seq(Text))
  BY <1>4, YieldedRuns DEF Framing
<1>6. ReadAll(SubSeq(w, 1, p + 1)) = Abreast(next.open, Yielded(e, next.closed))
  <2>1. ReadAll(Append(begun, c)) = ReadCharacter(ReadAll(begun), c)
    BY <1>1, ReadRuns
  <2>2. ReadAll(begun) = Abreast(acc.open, Yielded(e, acc.closed))
    BY DEF HasRead
  <2> HIDE DEF begun, c
  <2>3. ReadCharacter(Abreast(acc.open, Yielded(e, acc.closed)), c) =
          Abreast(next.open, Yielded(e, next.closed))
    BY <1>1, CharacterRead
  <2> QED  BY <1>1, <2>1, <2>2, <2>3
<1> HIDE DEF next
<1> QED  BY <1>1, <1>3, <1>5, <1>6 DEF HasRead, next
\* A chunk is what is behind it and one character more.
LEMMA LongerChunk ==
    ASSUME NEW b \in Text, NEW w \in Text, NEW p \in Nat
    PROVE  \A n \in Nat : p + n < Len(w) =>
              /\ b \o SubSeq(w, p + 1, p + n) \in Text
              /\ b \o SubSeq(w, p + 1, p + (n + 1)) =
                   Append(b \o SubSeq(w, p + 1, p + n), w[(p + n) + 1])
<1> SUFFICES ASSUME NEW n \in Nat, p + n < Len(w)
             PROVE  /\ b \o SubSeq(w, p + 1, p + n) \in Text
                    /\ b \o SubSeq(w, p + 1, p + (n + 1)) =
                         Append(b \o SubSeq(w, p + 1, p + n), w[(p + n) + 1])
  OBVIOUS
<1> DEFINE short == SubSeq(w, p + 1, p + n)
           long == SubSeq(w, p + 1, p + (n + 1))
<1>1. short \in Seq(Characters) /\ long = Append(short, w[(p + n) + 1]) /\ w[(p + n) + 1] \in Characters
  BY DEF Text
<1> HIDE DEF short, long
<1>2. b \o short \in Seq(Characters) /\ b \o Append(short, w[(p + n) + 1]) = Append(b \o short, w[(p + n) + 1])
  BY <1>1 DEF Text
<1> QED  BY <1>1, <1>2 DEF short, long, Text

\* A chunk: normalised and split at once, it leaves what its characters leave one
\* by one.
LEMMA ChunkHasRead ==
    ASSUME NEW w \in Text, ReturnsPaired(w), NEW p \in Nat, NEW n \in Nat, p + n <= Len(w),
           NEW b, NEW e, HasRead(w, b, e, p)
    PROVE  LET F == Framed(b \o SubSeq(w, p + 1, p + n))
           IN  HasRead(w, F.open, Yielded(e, F.closed), p + n)
<1> DEFINE F(k) == Framed(b \o SubSeq(w, p + 1, p + k))
           Good == {k \in 0..n : HasRead(w, F(k).open, Yielded(e, F(k).closed), p + k)}
<1>1. b \in Text /\ b \in Seq(Characters) /\ w \in Seq(Characters) /\ e \in Seq(Seq(Text))
  BY DEF HasRead, Text
<1>2. 0 \in Good
  <2>1. b \o SubSeq(w, p + 1, p + 0) = b /\ p + 0 = p /\ 0 \in 0..n
    BY <1>1
  <2>2. F(0) = Framed(b)
    BY <2>1
  <2>3. Framed(b) = [closed |-> <<>>, open |-> b]
    BY DEF HasRead, Settled, Unframed
  <2>4. Yielded(e, <<>>) = e
    BY <1>1, YieldedRuns
  <2> HIDE DEF F
  <2>5. F(0).open = b /\ Yielded(e, F(0).closed) = e
    BY <2>2, <2>3, <2>4
  <2> QED  BY <2>1, <2>5
<1>3. \A i \in 1..Len(w) : w[i] \in Characters
  BY <1>1
<1>4. \A m \in Nat : p + m < Len(w) =>
        /\ b \o SubSeq(w, p + 1, p + m) \in Text
        /\ b \o SubSeq(w, p + 1, p + (m + 1)) =
             Append(b \o SubSeq(w, p + 1, p + m), w[(p + m) + 1])
  BY <1>1, LongerChunk
<1>5. \A k \in 1..n : k - 1 \in Good => k \in Good
  <2> SUFFICES ASSUME NEW k \in 1..n, k - 1 \in Good PROVE k \in Good
    OBVIOUS
  <2> DEFINE m == k - 1
             x == b \o SubSeq(w, p + 1, p + m)
             c == w[(p + m) + 1]
  <2>1. /\ m \in Nat /\ m + 1 = k /\ p + m < Len(w) /\ p + m \in 0..Len(w)
        /\ (p + m) + 1 = p + k /\ (p + m) + 1 \in 1..Len(w)
    OBVIOUS
  <2>2. x \in Text /\ b \o SubSeq(w, p + 1, p + k) = Append(x, c) /\ c \in Characters
    <3> HIDE DEF m
    <3>1. c \in Characters
      BY <1>3, <2>1
    <3>2. x \in Text /\ b \o SubSeq(w, p + 1, p + (m + 1)) = Append(x, c)
      BY <1>4, <2>1
    <3> QED  BY <2>1, <3>1, <3>2
  <2>3. F(k) = Follow(Framed(x), c) /\ Framed(x) \in Framing
    BY <2>2, FramedRuns
  <2>4. HasRead(w, Framed(x).open, Yielded(e, Framed(x).closed), p + m)
    OBVIOUS
  <2> HIDE DEF F, m, x
  <2> DEFINE acc == Framed(x)
  <2> HIDE DEF acc
  <2>5. HasRead(w, Follow(acc, c).open, Yielded(e, Follow(acc, c).closed), (p + m) + 1)
    BY <1>1, <2>1, <2>3, <2>4, NextHasRead DEF acc
  <2>6. HasRead(w, F(k).open, Yielded(e, F(k).closed), p + k)
    BY <2>1, <2>3, <2>5 DEF acc
  <2>7. k \in 0..n
    OBVIOUS
  <2> QED  BY <2>6, <2>7
<1>6. n \in Good
  <2>1. n \in 0..n
    OBVIOUS
  <2> HIDE DEF Good
  <2> QED  BY <1>2, <1>5, <2>1, CountUp
<1> QED  BY <1>6

\* FramesSurviveChunking is about the end only; on the way the reader and the
\* reference have read as far.
StreamInv ==
    /\ wire \in Text /\ ReturnsPaired(wire) /\ position \in 0..Len(wire)
    /\ ~ended => HasRead(wire, buffer, events, position)
    /\ ended => events = ReferenceEvents(wire)

\* What the server and a proxy write.
LEMMA BodiesPaired == ASSUME NEW w \in Bodies PROVE w \in Text /\ ReturnsPaired(w)
<1>1. PICK n \in 0..MaxWire : w \in [1..n -> Characters]
  BY DEF Bodies
<1>2. n \in Nat
  BY WireAssumption
<1>3. w \in Seq(Characters) /\ Len(w) = n /\ DOMAIN w = 1..n
  BY <1>1, <1>2
<1> QED  BY <1>3 DEF Bodies, Text, ReturnsPaired

\* Before the first chunk.
LEMMA StreamBegins == SseInit => StreamInv
<1> SUFFICES ASSUME SseInit PROVE StreamInv
  OBVIOUS
<1>1. wire \in Text /\ ReturnsPaired(wire) /\ Len(wire) \in Nat
  BY BodiesPaired DEF SseInit, Text
<1>2. <<>> \in Text /\ <<>> \in Seq(Seq(Text))
  BY DEF Text
<1>3. Settled(<<>>) /\ ~EndsInReturn(<<>>)
  BY FramedRuns DEF Settled, Unframed, EndsInReturn
<1>4. ReadAll(SubSeq(wire, 1, 0)) = Abreast(<<>>, <<>>)
  <2>1. SubSeq(wire, 1, 0) = <<>>
    BY <1>1, Beginnings DEF Text
  <2>2. Abreast(<<>>, <<>>) = [line |-> <<>>, event |-> <<>>, events |-> <<>>]
    <3>1. Split(<<>>).lines = <<>> /\ Split(<<>>).line = <<>>
      BY SplitRuns
    <3> QED  BY <3>1 DEF Abreast
  <2>3. ReadAll(<<>>) = [line |-> <<>>, event |-> <<>>, events |-> <<>>]
    BY ReadRuns
  <2> QED  BY <2>1, <2>2, <2>3
<1>5. HasRead(wire, <<>>, <<>>, 0)
  BY <1>2, <1>3, <1>4 DEF HasRead
<1> QED  BY <1>1, <1>5 DEF SseInit, StreamInv

\* Every chunk, and the end of the body.
LEMMA StreamStep == StreamInv /\ [SseNext]_sseVars => StreamInv'
<1> SUFFICES ASSUME StreamInv, [SseNext]_sseVars PROVE StreamInv'
  OBVIOUS
<1>1. Len(wire) \in Nat /\ position \in 0..Len(wire) /\ wire \in Text /\ ReturnsPaired(wire)
  BY DEF StreamInv, Text
<1>2. ASSUME NEW n \in 1..(Len(wire) - position), ReadChunk(n) PROVE StreamInv'
  <2> DEFINE F == Framed(buffer \o SubSeq(wire, position + 1, position + n))
  <2>1. /\ ~ended /\ wire' = wire /\ ended' = ended /\ position' = position + n
        /\ buffer' = F.open /\ events' = Yielded(events, F.closed)
    BY <1>2 DEF ReadChunk, Buffered, Framed
  <2>2. position \in Nat /\ n \in Nat /\ position + n <= Len(wire) /\ position + n \in 0..Len(wire)
    BY <1>1
  <2>3. HasRead(wire, F.open, Yielded(events, F.closed), position + n)
    BY <1>1, <2>1, <2>2, ChunkHasRead DEF StreamInv
  <2> HIDE DEF F
  <2> QED  BY <1>1, <2>1, <2>2, <2>3 DEF StreamInv
<1>3. ASSUME ReadEnd PROVE StreamInv'
  <2>1. /\ ~ended /\ position = Len(wire) /\ events' = events \o ParseFrame(buffer)
        /\ ended' = TRUE /\ wire' = wire /\ position' = position
    BY <1>3 DEF ReadEnd
  <2>2. HasRead(wire, buffer, events, Len(wire))
    BY <2>1 DEF StreamInv
  <2>3. SubSeq(wire, 1, Len(wire)) = wire
    BY <1>1 DEF Text
  <2>4. ReadAll(wire) = Abreast(buffer, events) /\ buffer \in Text /\ events \in Seq(Seq(Text))
    BY <2>2, <2>3 DEF HasRead
  <2>5. ReferenceEvents(wire) = EndLine(EndLine(ReadAll(wire), ReadAll(wire).line), <<>>).events
    BY DEF ReferenceEvents, ReadAll
  <2>6. ReferenceEvents(wire) = events \o ParseFrame(buffer)
    BY <2>4, <2>5, EndRead
  <2> QED  BY <1>1, <2>1, <2>6 DEF StreamInv
<1>4. ASSUME UNCHANGED sseVars PROVE StreamInv'
  BY <1>4 DEF sseVars, StreamInv
<1> QED  BY <1>2, <1>3, <1>4 DEF SseNext

\* readSseStream yields the events of the body, each once and in order, wherever
\* the network cuts it.
THEOREM FramesSurvive == SseSpec => []FramesSurviveChunking
<1>1. StreamInv => FramesSurviveChunking
  BY DEF StreamInv, FramesSurviveChunking
<1> QED  BY <1>1, StreamBegins, StreamStep, PTL DEF SseSpec
===============================================================================

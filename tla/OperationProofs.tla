---------------------------- MODULE OperationProofs ----------------------------
(***************************************************************************)
(* Three parts that keep the application in operation: the administrator's *)
(* mutations and pages, the recovery of lost publications, and how the     *)
(* processes start and stop.  They have no step in common.  All of it is   *)
(* for any number of actors and for every value of the constants.          *)
(*                                                                         *)
(* Administration.  A mutation computes its writes from a snapshot that    *)
(* others may have overtaken.  The argument has two halves.  First, each   *)
(* mutation is sound on the snapshot itself (EffectSound): from documents  *)
(* with an active administrator, leads with teams and thresholds in order  *)
(* it makes such documents, and its audit records tell each difference.    *)
(* Second, a mutation that changes a user or a setting writes the          *)
(* organisation document, so it either conflicts or its snapshot is still  *)
(* the database (SnapshotSound); one that does not write it changes no     *)
(* such document.  So a commit is as if the mutation had run on the        *)
(* database in one step.                                                   *)
(*                                                                         *)
(* Recovery.  A scan acts on what it read some awaits ago.  That COMPLETED *)
(* is written only on a completed ledger rests on the ledger: what was     *)
(* COMPLETED when the scan read it still is.  That the scans share three   *)
(* publications needs the publications still to come to be counted: a scan *)
(* between its claim and its publication holds one of the attempts in the  *)
(* row (PublicationsClaimed).                                              *)
(*                                                                         *)
(* Lifecycle.  That a registered stream is told before the stores are      *)
(* closed needs to know that a live stream has its client, that the client *)
(* keeps the listener open, and that shutdown() leaves the listener only   *)
(* when nobody is left to be told (StreamsHaveListener).  That the stores  *)
(* stay closed needs to know that no stage of the start-up that connects   *)
(* can still run after the signal (ConnectsBeforeExit).  And a silent      *)
(* connection is noticed because the intervals it has been silent for are  *)
(* intervals without an answer (SilenceIsCounted).                         *)
(***************************************************************************)
EXTENDS Administration, AdminPages, Lifecycle, EnqueueRecovery, JobLedgerProofs,
        FiniteSetTheorems, TLAPS

-------------------------------------------------------------------------------
(* The administrator's mutations and pages                                    *)

OrgDocs == [mask : Nat, block : Nat, budget : {0, 1}, mode : RetentionModes]

\* The values an audit record mentions.
AuditValues ==
    Roles \cup Statuses \cup {"INVITED"} \cup Teams \cup {NoTeam, Nothing} \cup Nat
        \cup (Nat \X Nat) \cup RetentionModes \cup {"OPEN", "RESOLVED"}

AuditEntries ==
    [action : {"user.role_changed", "user.team_changed", "user.status_changed",
               "user.sessions_revoked", "organisation.policy_changed",
               "organisation.budget_changed", "organisation.retention_changed",
               "alert.resolved", "alert.reopened", "audit.exported"},
     target : Users \cup {"org", "alert"}, old : AuditValues, new : AuditValues]

\* Documents of a manageable organisation.
Manageable(users, settings) ==
    /\ users \in [Users -> UserDocs]
    /\ settings \in OrgDocs
    /\ \E u \in Users : ActiveAdmin(users[u])
    /\ \A u \in Users : ~LeadWithoutTeam(users[u])
    /\ settings.block > settings.mask

Alerts == {Nothing, "OPEN", "RESOLVED"}
SessionDocs ==
    [user : Users \cup {Nothing},
     at : {"none", "found", "live", "claimed", "loaded", "revoked"}]
Documents == {"org", "alert"} \cup Users \cup Sessions
Snapshots == [user : [Users -> UserDocs], org : OrgDocs, alert : Alerts,
              session : [Sessions -> SessionDocs], rows : Nat]

SnapshotSound(snap) ==
    /\ Manageable(snap.user, snap.org)
    /\ snap \in Snapshots

\* The records tell that the field went from old to now, and nothing else of it.
Tells(records, action, target, old, now) ==
    \/ /\ now = old
       /\ \A i \in 1..Len(records) : ~ChangeOf(records[i], action, target)
    \/ \E i \in 1..Len(records) :
          /\ ChangeOf(records[i], action, target)
          /\ records[i].old = old /\ records[i].new = now
          /\ \A j \in 1..Len(records) : ChangeOf(records[j], action, target) => j = i

TellsUser(records, u, old, now) ==
    /\ Tells(records, "user.role_changed", u, old.role, now.role)
    /\ Tells(records, "user.status_changed", u, old.status, now.status)
    /\ Tells(records, "user.team_changed", u, old.team, now.team)

TellsOrg(records, old, now) ==
    /\ Tells(records, "organisation.policy_changed", "org",
             <<old.mask, old.block>>, <<now.mask, now.block>>)
    /\ Tells(records, "organisation.budget_changed", "org", old.budget, now.budget)
    /\ Tells(records, "organisation.retention_changed", "org", old.mode, now.mode)

\* What a mutation that is not refused does to its snapshot.
EffectSound(op, snap, e) ==
    /\ Manageable(e.user, e.org)
    /\ e.alert \in Alerts
    /\ e.writes \subseteq Documents
    /\ e.records \in Seq(AuditEntries)
    /\ \A u \in Users : u \notin e.writes => e.user[u] = snap.user[u]
    /\ "org" \notin e.writes => e.user = snap.user /\ e.org = snap.org
    /\ "org" \notin e.writes => \A u \in Users : u \notin e.writes
    /\ op.kind \notin {"policy", "retention"} => e.org = snap.org
    /\ \A u \in Users : TellsUser(e.records, u, snap.user[u], e.user[u])
    /\ TellsOrg(e.records, snap.org, e.org)

Transactions ==
    [stage : {"idle", "begin", "body"}, op : Mutations \cup {Nothing},
     snap : Snapshots \cup {Nothing}, stale : SUBSET Documents]

AdminTypeOK ==
    /\ user \in [Users -> UserDocs]
    /\ org \in OrgDocs
    /\ alert \in Alerts
    /\ session \in [Sessions -> SessionDocs]
    /\ audit \in Seq(AuditEntries)
    /\ tx \in [Requests -> Transactions]

\* A request that has begun has an operation and a manageable snapshot, which
\* is the database unless the organisation document was written since.
RequestSound(q) ==
    /\ tx[q].stage # "idle" => tx[q].op \in Mutations
    /\ tx[q].stage = "body" =>
          /\ SnapshotSound(tx[q].snap)
          /\ "org" \notin tx[q].stale => tx[q].snap.user = user /\ tx[q].snap.org = org

\* The inductive invariant.
AdminInv ==
    /\ AdminTypeOK
    /\ Manageable(user, org)
    /\ \A s \in Sessions : session[s].at # "none" => session[s].user \in Users
    /\ \A q \in Requests : RequestSound(q)
    /\ AuditExplainsState

-----------------------------------------------------------------------------
(***************************************************************************)
(* The audit log                                                           *)
(***************************************************************************)
\* Records that tell a change from old to now extend a log that explains old
\* to one that explains now.
LEMMA ExtendLog ==
    ASSUME NEW log \in Seq(AuditEntries), NEW records \in Seq(AuditEntries),
           NEW action, NEW target, NEW first, NEW old, NEW now,
           Explains(log, action, target, first, old),
           Tells(records, action, target, old, now)
    PROVE  Explains(log \o records, action, target, first, now)
<1> DEFINE both == log \o records
           n == Len(log)
           about == {i \in 1..n : ChangeOf(log[i], action, target)}
           all == {i \in 1..Len(both) : ChangeOf(both[i], action, target)}
<1>1. /\ both \in Seq(AuditEntries) /\ n \in Nat /\ Len(records) \in Nat
      /\ Len(both) = n + Len(records)
      /\ \A i \in 1..n : both[i] = log[i]
      /\ \A i \in 1..Len(records) : both[n + i] = records[i]
      /\ \A i \in 1..Len(both) : i \in 1..n \/ \E j \in 1..Len(records) : i = n + j
  <2>1. \A i \in 1..Len(both) : i > n => i - n \in 1..Len(records) /\ i = n + (i - n)
    OBVIOUS
  <2>2. \A i \in 1..Len(both) : i \in 1..n \/ \E j \in 1..Len(records) : i = n + j
    <3> SUFFICES ASSUME NEW i \in 1..Len(both), i \notin 1..n
                 PROVE  \E j \in 1..Len(records) : i = n + j
      OBVIOUS
    <3>1. i > n  OBVIOUS
    <3> QED  BY <2>1, <3>1
  <2>3. /\ both \in Seq(AuditEntries) /\ n \in Nat /\ Len(records) \in Nat
        /\ Len(both) = n + Len(records)
    OBVIOUS
  <2>4. \A i \in 1..n : both[i] = log[i]  OBVIOUS
  <2>5. \A i \in 1..Len(records) : both[n + i] = records[i]  OBVIOUS
  <2> QED  BY <2>2, <2>3, <2>4, <2>5
<1>2. /\ \A i \in about :
            /\ (\A j \in about : j >= i) => log[i].old = first
            /\ \A k \in about :
                 k < i /\ (\A j \in about : j <= k \/ j >= i) => log[i].old = log[k].new
            /\ (\A j \in about : j <= i) => log[i].new = old
      /\ about = {} => old = first
  BY DEF Explains
<1>3. SUFFICES /\ \A i \in all :
                    /\ (\A j \in all : j >= i) => both[i].old = first
                    /\ \A k \in all :
                         k < i /\ (\A j \in all : j <= k \/ j >= i)
                            => both[i].old = both[k].new
                    /\ (\A j \in all : j <= i) => both[i].new = now
               /\ all = {} => now = first
  BY DEF Explains
<1>4. CASE now = old /\ \A i \in 1..Len(records) : ~ChangeOf(records[i], action, target)
  <2>1. all = about
    <3>1. \A i \in all : i \in about  BY <1>1, <1>4
    <3>2. \A i \in about : i \in all  BY <1>1
    <3> HIDE DEF all, about
    <3> QED  BY <3>1, <3>2 DEF all, about
  <2>2. \A i \in about : both[i] = log[i]  BY <1>1
  <2> HIDE DEF all, about, both, n
  <2> QED  BY <1>2, <1>4, <2>1, <2>2
<1>5. CASE \E i \in 1..Len(records) :
               /\ ChangeOf(records[i], action, target)
               /\ records[i].old = old /\ records[i].new = now
               /\ \A j \in 1..Len(records) : ChangeOf(records[j], action, target) => j = i
  <2>1. PICK r \in 1..Len(records) :
               /\ ChangeOf(records[r], action, target)
               /\ records[r].old = old /\ records[r].new = now
               /\ \A j \in 1..Len(records) : ChangeOf(records[j], action, target) => j = r
    BY <1>5
  <2> DEFINE m == n + r
  <2>2. m \in all /\ both[m].old = old /\ both[m].new = now
    BY <1>1, <2>1
  <2>3. \A i \in all : i \in about \/ i = m
    BY <1>1, <2>1
  <2>4. \A i \in about : i \in all /\ i < m /\ i \in Nat
    BY <1>1
  <2>5. \A i \in about : both[i] = log[i]  BY <1>1
  <2>6. m \in Nat /\ \A i \in all : i \in Nat  BY <1>1
  <2> HIDE DEF all, about, both, n, m
  <2>7. \A i \in about : (\A j \in all : j >= i) => both[i].old = first
    BY <1>2, <2>4, <2>5
  <2>8. ASSUME \A j \in all : j >= m
        PROVE  both[m].old = first
    <3>1. about = {}  BY <2>4, <2>6, <2>8
    <3> QED  BY <1>2, <2>2, <3>1
  <2>9. ASSUME NEW i \in about, NEW k \in all, k < i, \A j \in all : j <= k \/ j >= i
        PROVE  both[i].old = both[k].new
    <3>1. k \in about  BY <2>3, <2>4, <2>6, <2>9
    <3>2. \A j \in about : j <= k \/ j >= i  BY <2>4, <2>9
    <3> QED  BY <1>2, <2>5, <2>9, <3>1, <3>2
  <2>10. ASSUME NEW k \in all, k < m, \A j \in all : j <= k \/ j >= m
         PROVE  both[m].old = both[k].new
    <3>1. k \in about  BY <2>3, <2>6, <2>10
    <3>2. \A j \in about : j <= k  BY <2>4, <2>6, <2>10
    <3> QED  BY <1>2, <2>2, <2>5, <3>1, <3>2
  <2>11. ASSUME NEW i \in all, \A j \in all : j <= i
         PROVE  both[i].new = now
    <3>1. i = m  BY <2>2, <2>3, <2>4, <2>6, <2>11
    <3> QED  BY <2>2, <3>1
  <2>12. all # {}  BY <2>2
  <2> QED  BY <2>3, <2>7, <2>8, <2>9, <2>10, <2>11, <2>12
<1> QED  BY <1>4, <1>5 DEF Tells

\* Records that tell a field stays as it was tell nothing of it.
LEMMA TellsNothing ==
    ASSUME NEW records, NEW action, NEW target, NEW old, NEW other,
           Tells(records, action, target, old, old)
    PROVE  Tells(records, action, target, other, other)
BY DEF Tells, ChangeOf

\* No records tell nothing, and one record tells the field it is about.
LEMMA TellsOne ==
    ASSUME NEW record, NEW action, NEW target, NEW old, NEW now,
           record.action = action /\ record.target = target
               => record.old = old /\ record.new = now,
           record.action # action \/ record.target # target => old = now
    PROVE  Tells(<<record>>, action, target, old, now)
<1>1. Len(<<record>>) = 1 /\ <<record>>[1] = record  OBVIOUS
<1>2. CASE ChangeOf(record, action, target)
  <2>1. \A i \in 1..1 : i = 1  OBVIOUS
  <2>2. 1 \in 1..1  OBVIOUS
  <2> QED  BY <1>1, <1>2, <2>1, <2>2 DEF Tells, ChangeOf
<1>3. CASE ~ChangeOf(record, action, target)
  <2>1. \A i \in 1..1 : i = 1  OBVIOUS
  <2>2. old = now  BY <1>3 DEF ChangeOf
  <2> QED  BY <1>1, <1>3, <2>1, <2>2 DEF Tells
<1> QED  BY <1>2, <1>3

-----------------------------------------------------------------------------
(***************************************************************************)
(* Each mutation on its snapshot                                           *)
(***************************************************************************)
\* Saving one user keeps an active administrator if it makes or leaves one, or
\* there is another.
LEMMA SaveUserSound ==
    ASSUME NEW op, op.kind \notin {"policy", "retention"},
           NEW snap, SnapshotSound(snap), NEW u \in Users, NEW doc \in UserDocs,
           NEW revoke \in SUBSET Sessions, NEW record \in AuditEntries,
           ~LeadWithoutTeam(doc),
           ActiveAdmin(snap.user[u]) => ActiveAdmin(doc) \/ AnotherActiveAdmin(snap, u),
           TellsUser(<<record>>, u, snap.user[u], doc),
           \A v \in Users \ {u} : TellsUser(<<record>>, v, snap.user[v], snap.user[v]),
           TellsOrg(<<record>>, snap.org, snap.org)
    PROVE  EffectSound(op, snap, SaveUser(snap, u, doc, revoke, record))
<1> DEFINE e == SaveUser(snap, u, doc, revoke, record)
<1>1. /\ e.user = [snap.user EXCEPT ![u] = doc] /\ e.org = snap.org /\ e.alert = snap.alert
      /\ e.records = <<record>> /\ e.writes = {"org"} \cup {u} \cup revoke
  BY DEF SaveUser, Unchanged, Refused, LockOrganisation, Locked
<1>2. snap.user \in [Users -> UserDocs] /\ snap.org \in OrgDocs /\ snap.alert \in Alerts
  BY DEF SnapshotSound, Manageable, Snapshots
<1>3. e.user \in [Users -> UserDocs] /\ e.user[u] = doc
      /\ \A v \in Users \ {u} : e.user[v] = snap.user[v]
  BY <1>1, <1>2
<1> HIDE DEF e
<1>4. Manageable(e.user, e.org)
  <2>1. PICK a \in Users : ActiveAdmin(snap.user[a])  BY DEF SnapshotSound, Manageable
  <2>2. \E v \in Users : ActiveAdmin(e.user[v])
    BY <1>3, <2>1 DEF AnotherActiveAdmin
  <2>3. \A v \in Users : ~LeadWithoutTeam(e.user[v])
    BY <1>3 DEF SnapshotSound, Manageable
  <2> QED  BY <1>1, <1>2, <1>3, <2>2, <2>3 DEF SnapshotSound, Manageable
<1>5. e.records \in Seq(AuditEntries)  BY <1>1
<1>6. \A v \in Users : TellsUser(e.records, v, snap.user[v], e.user[v])
  BY <1>1, <1>3
<1>7. TellsOrg(e.records, snap.org, e.org)  BY <1>1
<1>8. e.writes \subseteq Documents  BY <1>1 DEF Documents
<1> QED  BY <1>1, <1>2, <1>3, <1>4, <1>5, <1>6, <1>7, <1>8 DEF EffectSound, e

\* A mutation that leaves the users and the settings as they are, and whose
\* records are about neither, is sound.
LEMMA QuietSound ==
    ASSUME NEW op, NEW snap, SnapshotSound(snap), NEW e, NEW record \in AuditEntries,
           e.user = snap.user, e.org = snap.org, e.alert \in Alerts,
           e.records = <<record>>, e.writes \subseteq Documents,
           "org" \notin e.writes => e.writes \cap Users = {},
           record.action \in {"user.sessions_revoked", "alert.resolved", "alert.reopened",
                              "audit.exported"}
    PROVE  EffectSound(op, snap, e)
<1>1. \A v \in Users : TellsUser(e.records, v, snap.user[v], e.user[v])
  BY TellsOne DEF TellsUser
<1>2. TellsOrg(e.records, snap.org, e.org)
  BY TellsOne DEF TellsOrg
<1>3. e.records \in Seq(AuditEntries)  OBVIOUS
<1>4. Manageable(e.user, e.org)  BY DEF SnapshotSound
<1> QED  BY <1>1, <1>2, <1>3, <1>4 DEF EffectSound

\* changeUserRole
LEMMA RoleSound ==
    ASSUME NEW op \in Operations, op.kind = "role", NEW snap, SnapshotSound(snap),
           ChangeUserRole(op, snap).error = "NONE"
    PROVE  EffectSound(op, snap, ChangeUserRole(op, snap))
<1> DEFINE u == op.user
           doc == [snap.user[u] EXCEPT !.role = op.value]
           record == Entry("user.role_changed", u, snap.user[u].role, op.value)
<1>1. u \in Users /\ op.value \in Roles  BY DEF Operations
<1>2. snap.user \in [Users -> UserDocs]  BY DEF SnapshotSound, Manageable
<1>3. /\ doc \in UserDocs /\ doc.role = op.value
      /\ doc.status = snap.user[u].status /\ doc.team = snap.user[u].team
  BY <1>1, <1>2 DEF UserDocs
<1>4. /\ record \in AuditEntries /\ record.action = "user.role_changed" /\ record.target = u
      /\ record.old = snap.user[u].role /\ record.new = op.value
  BY <1>1, <1>2 DEF UserDocs, Entry, AuditEntries, AuditValues
<1>5. /\ ~LeadWithoutTeam(doc)
      /\ ~(/\ ActiveAdmin(snap.user[u]) /\ op.value # "ORG_ADMIN"
           /\ ~AnotherActiveAdmin(snap, u))
      /\ ChangeUserRole(op, snap) = SaveUser(snap, u, doc, {}, record)
  BY DEF ChangeUserRole, Refused
<1> HIDE DEF doc, record
<1>6. TellsUser(<<record>>, u, snap.user[u], doc)
  BY <1>3, <1>4, TellsOne DEF TellsUser
<1>7. \A v \in Users \ {u} : TellsUser(<<record>>, v, snap.user[v], snap.user[v])
  BY <1>4, TellsOne DEF TellsUser
<1>8. TellsOrg(<<record>>, snap.org, snap.org)
  BY <1>4, TellsOne DEF TellsOrg
<1>9. ActiveAdmin(snap.user[u]) => ActiveAdmin(doc) \/ AnotherActiveAdmin(snap, u)
  BY <1>3, <1>5 DEF ActiveAdmin
<1> HIDE DEF u
<1> QED  BY <1>1, <1>3, <1>4, <1>5, <1>6, <1>7, <1>8, <1>9, SaveUserSound

\* changeUserTeam
LEMMA TeamSound ==
    ASSUME NEW op \in Operations, op.kind = "team", NEW snap, SnapshotSound(snap),
           ChangeUserTeam(op, snap).error = "NONE"
    PROVE  EffectSound(op, snap, ChangeUserTeam(op, snap))
<1> DEFINE u == op.user
           doc == [snap.user[u] EXCEPT !.team = op.value]
           record == Entry("user.team_changed", u, snap.user[u].team, op.value)
<1>1. u \in Users /\ op.value \in Teams \cup {NoTeam}  BY DEF Operations
<1>2. snap.user \in [Users -> UserDocs]  BY DEF SnapshotSound, Manageable
<1>3. /\ doc \in UserDocs /\ doc.team = op.value
      /\ doc.status = snap.user[u].status /\ doc.role = snap.user[u].role
  BY <1>1, <1>2 DEF UserDocs
<1>4. /\ record \in AuditEntries /\ record.action = "user.team_changed" /\ record.target = u
      /\ record.old = snap.user[u].team /\ record.new = op.value
  BY <1>1, <1>2 DEF UserDocs, Entry, AuditEntries, AuditValues
<1>5. /\ ~LeadWithoutTeam(doc)
      /\ ChangeUserTeam(op, snap) = SaveUser(snap, u, doc, {}, record)
  BY DEF ChangeUserTeam, Refused
<1> HIDE DEF doc, record
<1>6. TellsUser(<<record>>, u, snap.user[u], doc)
  BY <1>3, <1>4, TellsOne DEF TellsUser
<1>7. \A v \in Users \ {u} : TellsUser(<<record>>, v, snap.user[v], snap.user[v])
  BY <1>4, TellsOne DEF TellsUser
<1>8. TellsOrg(<<record>>, snap.org, snap.org)
  BY <1>4, TellsOne DEF TellsOrg
<1>9. ActiveAdmin(snap.user[u]) => ActiveAdmin(doc)
  BY <1>3 DEF ActiveAdmin
<1> HIDE DEF u
<1> QED  BY <1>1, <1>3, <1>4, <1>5, <1>6, <1>7, <1>8, <1>9, SaveUserSound

\* changeUserStatus, which also revokes sessions
LEMMA StatusSound ==
    ASSUME NEW op \in Operations, op.kind = "status", NEW snap, SnapshotSound(snap),
           ChangeUserStatus(op, snap).error = "NONE"
    PROVE  EffectSound(op, snap, ChangeUserStatus(op, snap))
<1> DEFINE u == op.user
           doc == [snap.user[u] EXCEPT !.status = op.value]
           record == Entry("user.status_changed", u, snap.user[u].status, op.value)
           revoke == IF op.value = "DISABLED" THEN TokensOf(snap, u) ELSE {}
<1>1. u \in Users /\ op.value \in Statuses  BY DEF Operations
<1>2. snap.user \in [Users -> UserDocs]  BY DEF SnapshotSound, Manageable
<1>3. /\ doc \in UserDocs /\ doc.status = op.value
      /\ doc.role = snap.user[u].role /\ doc.team = snap.user[u].team
  BY <1>1, <1>2 DEF UserDocs
<1>4. /\ record \in AuditEntries /\ record.action = "user.status_changed" /\ record.target = u
      /\ record.old = snap.user[u].status /\ record.new = op.value
  BY <1>1, <1>2 DEF UserDocs, Entry, AuditEntries, AuditValues
<1>5. /\ ~LeadWithoutTeam(doc)
      /\ ~(/\ ActiveAdmin(snap.user[u]) /\ op.value = "DISABLED"
           /\ ~AnotherActiveAdmin(snap, u))
      /\ ChangeUserStatus(op, snap) = SaveUser(snap, u, doc, revoke, record)
  BY DEF ChangeUserStatus, Refused
<1>6. revoke \in SUBSET Sessions  BY DEF TokensOf
<1> HIDE DEF doc, record, revoke
<1>7. TellsUser(<<record>>, u, snap.user[u], doc)
  BY <1>3, <1>4, TellsOne DEF TellsUser
<1>8. \A v \in Users \ {u} : TellsUser(<<record>>, v, snap.user[v], snap.user[v])
  BY <1>4, TellsOne DEF TellsUser
<1>9. TellsOrg(<<record>>, snap.org, snap.org)
  BY <1>4, TellsOne DEF TellsOrg
<1>10. ActiveAdmin(snap.user[u]) => ActiveAdmin(doc) \/ AnotherActiveAdmin(snap, u)
  BY <1>1, <1>3, <1>5 DEF ActiveAdmin, Statuses
<1> HIDE DEF u
<1> QED  BY <1>1, <1>3, <1>4, <1>5, <1>6, <1>7, <1>8, <1>9, <1>10, SaveUserSound

\* revokeUserSessions
LEMMA SessionsSound ==
    ASSUME NEW op \in Operations, op.kind = "sessions", NEW snap, SnapshotSound(snap)
    PROVE  EffectSound(op, snap, RevokeUserSessions(op, snap))
<1> DEFINE revoke == TokensOf(snap, op.user)
           record == Entry("user.sessions_revoked", op.user, Nothing, Cardinality(revoke))
           e == RevokeUserSessions(op, snap)
<1>1. op.user \in Users  BY DEF Operations
<1>2. revoke \in SUBSET Sessions  BY DEF TokensOf
<1>3. Cardinality(revoke) \in Nat
  BY <1>2, ProvisionAssumption, FS_Subset, FS_CardinalityType
<1>4. record \in AuditEntries /\ record.action = "user.sessions_revoked"
  BY <1>1, <1>3 DEF Entry, AuditEntries, AuditValues
<1>5. /\ e.user = snap.user /\ e.org = snap.org /\ e.alert = snap.alert
      /\ e.records = <<record>> /\ e.writes = {"org"} \cup revoke
  BY DEF RevokeUserSessions, Unchanged, Refused, LockOrganisation, Locked
<1>6. snap.alert \in Alerts  BY DEF SnapshotSound, Snapshots
<1>7. e.writes \subseteq Documents  BY <1>2, <1>5 DEF Documents
<1> HIDE DEF e, record, revoke
<1> QED  BY <1>4, <1>5, <1>6, <1>7, QuietSound DEF e

\* updateAlertResolution
LEMMA AlertSound ==
    ASSUME NEW op \in Operations, op.kind = "alert", NEW snap, SnapshotSound(snap),
           UpdateAlertResolution(op, snap).error = "NONE"
    PROVE  EffectSound(op, snap, UpdateAlertResolution(op, snap))
<1> DEFINE status == IF op.resolved THEN "RESOLVED" ELSE "OPEN"
           record == Entry(IF op.resolved THEN "alert.resolved" ELSE "alert.reopened",
                           "alert", snap.alert, status)
           e == UpdateAlertResolution(op, snap)
<1>1. snap.alert \in Alerts  BY DEF SnapshotSound, Snapshots
<1>2. snap.alert # Nothing  BY DEF UpdateAlertResolution, Refused
<1>3. record \in AuditEntries /\ record.action \in {"alert.resolved", "alert.reopened"}
  BY <1>1 DEF Entry, AuditEntries, AuditValues, Alerts
<1>4. /\ e.user = snap.user /\ e.org = snap.org /\ e.alert = status
      /\ e.records = <<record>> /\ e.writes = {"alert"}
  BY <1>2 DEF UpdateAlertResolution, Unchanged, Refused
<1>5. status \in Alerts  BY DEF Alerts
<1>6. e.writes \subseteq Documents /\ e.writes \cap Users = {}
  BY <1>4, ProvisionAssumption DEF Documents
<1> HIDE DEF e, record, status
<1> QED  BY <1>3, <1>4, <1>5, <1>6, QuietSound DEF e

\* exportOrganisationAuditCsv
LEMMA ExportSound ==
    ASSUME NEW op, NEW snap, SnapshotSound(snap)
    PROVE  EffectSound(op, snap, ExportAudit(snap))
<1> DEFINE record == Entry("audit.exported", "org", Nothing, snap.rows)
           e == ExportAudit(snap)
<1>1. snap.alert \in Alerts /\ snap.rows \in Nat  BY DEF SnapshotSound, Snapshots
<1>2. record \in AuditEntries /\ record.action = "audit.exported"
  BY <1>1 DEF Entry, AuditEntries, AuditValues
<1>3. /\ e.user = snap.user /\ e.org = snap.org /\ e.alert = snap.alert
      /\ e.records = <<record>> /\ e.writes = {}
  BY DEF ExportAudit, Unchanged, Refused
<1> HIDE DEF e, record
<1> QED  BY <1>1, <1>2, <1>3, QuietSound DEF e

\* updateOrganisationRetention
LEMMA RetentionSound ==
    ASSUME NEW op \in Operations, op.kind = "retention", NEW snap, SnapshotSound(snap)
    PROVE  EffectSound(op, snap, UpdateOrganisationRetention(op, snap))
<1> DEFINE new == [snap.org EXCEPT !.mode = op.value]
           record == Entry("organisation.retention_changed", "org", snap.org.mode, op.value)
           e == UpdateOrganisationRetention(op, snap)
<1>1. op.value \in RetentionModes  BY DEF Operations
<1>2. snap.org \in OrgDocs /\ snap.alert \in Alerts
  BY DEF SnapshotSound, Snapshots
<1>3. /\ new \in OrgDocs /\ new.mode = op.value /\ new.mask = snap.org.mask
      /\ new.block = snap.org.block /\ new.budget = snap.org.budget
  BY <1>1, <1>2 DEF OrgDocs
<1>4. /\ record \in AuditEntries /\ record.action = "organisation.retention_changed"
      /\ record.target = "org" /\ record.old = snap.org.mode /\ record.new = op.value
  BY <1>1, <1>2 DEF OrgDocs, Entry, AuditEntries, AuditValues
<1>5. /\ e.user = snap.user /\ e.org = new /\ e.alert = snap.alert
      /\ e.records = <<record>>
      /\ e.writes = IF snap.org.mode = op.value THEN {} ELSE {"org"}
  BY DEF UpdateOrganisationRetention, Unchanged, Refused
<1>6. snap.org.mode = op.value => new = snap.org
  BY <1>2 DEF OrgDocs
<1> HIDE DEF e, record, new
<1>7. \A v \in Users : TellsUser(<<record>>, v, snap.user[v], snap.user[v])
  BY <1>4, TellsOne DEF TellsUser
<1>8. TellsOrg(<<record>>, snap.org, new)
  BY <1>3, <1>4, TellsOne DEF TellsOrg
<1>9. Manageable(snap.user, new)
  BY <1>3 DEF SnapshotSound, Manageable
<1>10. <<record>> \in Seq(AuditEntries)  BY <1>4
<1>11. e.writes \subseteq Documents  BY <1>5 DEF Documents
<1>12. "org" \notin e.writes => e.org = snap.org /\ \A u \in Users : u \notin e.writes
  BY <1>5, <1>6
<1> QED  BY <1>2, <1>5, <1>7, <1>8, <1>9, <1>10, <1>11, <1>12 DEF EffectSound, e

\* updateOrganisationPolicy, with up to two records
LEMMA PolicySound ==
    ASSUME NEW op \in Operations, op.kind = "policy", NEW snap, SnapshotSound(snap),
           UpdateOrganisationPolicy(op, snap).error = "NONE"
    PROVE  EffectSound(op, snap, UpdateOrganisationPolicy(op, snap))
<1> DEFINE old == snap.org
           new == [old EXCEPT !.mask = Patched(op.mask, @), !.block = Patched(op.block, @),
                              !.budget = Patched(op.budget, @)]
           policy == Entry("organisation.policy_changed", "org",
                           <<old.mask, old.block>>, <<new.mask, new.block>>)
           budget == Entry("organisation.budget_changed", "org", old.budget, new.budget)
           first == IF new.mask # old.mask \/ new.block # old.block THEN <<policy>> ELSE <<>>
           second == IF new.budget # old.budget THEN <<budget>> ELSE <<>>
           e == UpdateOrganisationPolicy(op, snap)
<1>1. /\ op.mask \in Thresholds \cup {Nothing} /\ op.block \in Thresholds \cup {Nothing}
      /\ op.budget \in {0, 1, Nothing}
  BY DEF Operations
<1>2. old \in OrgDocs /\ snap.alert \in Alerts  BY DEF SnapshotSound, Snapshots
<1>3. new \in OrgDocs /\ new.mode = old.mode
  BY <1>1, <1>2, ProvisionAssumption DEF OrgDocs, Patched
<1>4. /\ new.block > new.mask
      /\ e.user = snap.user /\ e.org = new /\ e.alert = snap.alert
      /\ e.records = first \o second
      /\ e.writes = IF new = old THEN {} ELSE {"org"}
  BY DEF UpdateOrganisationPolicy, InOrder, Unchanged, Refused
<1>5. /\ policy \in AuditEntries /\ policy.action = "organisation.policy_changed"
      /\ policy.target = "org" /\ policy.old = <<old.mask, old.block>>
      /\ policy.new = <<new.mask, new.block>>
  BY <1>2, <1>3 DEF OrgDocs, Entry, AuditEntries, AuditValues
<1>6. /\ budget \in AuditEntries /\ budget.action = "organisation.budget_changed"
      /\ budget.target = "org" /\ budget.old = old.budget /\ budget.new = new.budget
  <2> HIDE DEF new, old
  <2>1. old.budget \in Nat /\ new.budget \in Nat  BY <1>2, <1>3 DEF OrgDocs
  <2> QED  BY <2>1 DEF Entry, AuditEntries, AuditValues
<1> HIDE DEF e, policy, budget, new
<1>7. first \o second \in Seq(AuditEntries)  BY <1>5, <1>6
<1> DEFINE all == first \o second
<1>8. \A i \in 1..Len(all) : all[i] \in {policy, budget}
  <2>1. CASE first = <<>> /\ second = <<>>  BY <2>1
  <2>2. CASE first = <<policy>> /\ second = <<>>  BY <2>2, <1>5
  <2>3. CASE first = <<>> /\ second = <<budget>>  BY <2>3, <1>6
  <2>4. CASE first = <<policy>> /\ second = <<budget>>  BY <2>4, <1>5, <1>6
  <2> QED  BY <2>1, <2>2, <2>3, <2>4
<1>9. Tells(all, "organisation.policy_changed", "org",
            <<old.mask, old.block>>, <<new.mask, new.block>>)
  <2>1. CASE first = <<>>
    <3>1. <<old.mask, old.block>> = <<new.mask, new.block>>
      BY <2>1
    <3>2. \A i \in 1..Len(all) : ~ChangeOf(all[i], "organisation.policy_changed", "org")
      BY <1>5, <1>6, <1>8, <3>1 DEF ChangeOf
    <3> QED  BY <3>1, <3>2 DEF Tells
  <2>2. CASE first = <<policy>> /\ (new.mask # old.mask \/ new.block # old.block)
    <3>1. 1 \in 1..Len(all) /\ all[1] = policy
      <4>1. CASE second = <<>>  BY <2>2, <4>1, <1>5
      <4>2. CASE second = <<budget>>  BY <2>2, <4>2, <1>5, <1>6
      <4> QED  BY <4>1, <4>2
    <3>2. \A j \in 1..Len(all) : j # 1 => all[j] = budget
      <4>1. CASE second = <<>>  BY <2>2, <4>1, <1>5
      <4>2. CASE second = <<budget>>  BY <2>2, <4>2, <1>5, <1>6
      <4> QED  BY <4>1, <4>2
    <3>3. policy.old # policy.new  BY <1>5, <2>2
    <3> HIDE DEF all
    <3> QED  BY <1>5, <1>6, <3>1, <3>2, <3>3 DEF Tells, ChangeOf
  <2> QED  BY <2>1, <2>2
<1>10. Tells(all, "organisation.budget_changed", "org", old.budget, new.budget)
  <2>1. CASE second = <<>>
    <3>1. old.budget = new.budget  BY <2>1
    <3>2. \A i \in 1..Len(all) : ~ChangeOf(all[i], "organisation.budget_changed", "org")
      BY <1>5, <1>6, <1>8, <3>1 DEF ChangeOf
    <3> QED  BY <3>1, <3>2 DEF Tells
  <2>2. CASE second = <<budget>> /\ new.budget # old.budget
    <3>1. \E n \in 1..Len(all) : all[n] = budget
                                 /\ \A j \in 1..Len(all) : j # n => all[j] = policy
      <4>1. CASE first = <<>>
        <5>1. Len(all) = 1 /\ all[1] = budget  BY <2>2, <4>1, <1>6
        <5> QED  BY <5>1
      <4>2. CASE first = <<policy>>
        <5>1. Len(all) = 2 /\ all[2] = budget /\ all[1] = policy
          BY <2>2, <4>2, <1>5, <1>6
        <5> QED  BY <5>1
      <4> QED  BY <4>1, <4>2
    <3> HIDE DEF all
    <3> QED  BY <1>5, <1>6, <2>2, <3>1 DEF Tells, ChangeOf
  <2> QED  BY <2>1, <2>2
<1> HIDE DEF all, first, second
<1>11. Tells(all, "organisation.retention_changed", "org", old.mode, new.mode)
  BY <1>3, <1>5, <1>6, <1>8 DEF Tells, ChangeOf
<1>12. \A v \in Users : TellsUser(all, v, snap.user[v], snap.user[v])
  BY <1>5, <1>6, <1>8 DEF TellsUser, Tells, ChangeOf
<1>13. Manageable(snap.user, new)
  BY <1>3, <1>4 DEF SnapshotSound, Manageable
<1>14. e.writes \subseteq Documents  BY <1>4 DEF Documents
<1>15. "org" \notin e.writes => e.org = snap.org /\ \A u \in Users : u \notin e.writes
  BY <1>4
<1>16. e.records = all  BY <1>4 DEF all
<1>17. all \in Seq(AuditEntries)  BY <1>7 DEF all
<1>18. TellsOrg(all, old, new)  BY <1>9, <1>10, <1>11 DEF TellsOrg
<1> HIDE DEF old
<1>19. EffectSound(op, snap, e)
  BY <1>2, <1>4, <1>12, <1>13, <1>14, <1>15, <1>16, <1>17, <1>18 DEF EffectSound, old
<1> QED  BY <1>19 DEF e

\* Every mutation that is not refused is sound on its snapshot.
LEMMA EveryEffectSound ==
    ASSUME NEW op \in Mutations, NEW snap, SnapshotSound(snap),
           Effect(op, snap).error = "NONE"
    PROVE  EffectSound(op, snap, Effect(op, snap))
<1>1. op \in Operations  BY MutationAssumption
<1>2. op.kind \in {"role", "team", "status", "sessions", "policy", "retention", "alert",
                   "export"}
  BY <1>1 DEF Operations
<1>3. CASE op.kind = "role"  BY <1>1, <1>3, RoleSound DEF Effect
<1>4. CASE op.kind = "team"  BY <1>1, <1>4, TeamSound DEF Effect
<1>5. CASE op.kind = "status"  BY <1>1, <1>5, StatusSound DEF Effect
<1>6. CASE op.kind = "sessions"  BY <1>1, <1>6, SessionsSound DEF Effect
<1>7. CASE op.kind = "policy"  BY <1>1, <1>7, PolicySound DEF Effect
<1>8. CASE op.kind = "retention"  BY <1>1, <1>8, RetentionSound DEF Effect
<1>9. CASE op.kind = "alert"  BY <1>1, <1>9, AlertSound DEF Effect
<1>10. CASE op.kind = "export"  BY <1>10, ExportSound DEF Effect
<1> QED  BY <1>2, <1>3, <1>4, <1>5, <1>6, <1>7, <1>8, <1>9, <1>10

-----------------------------------------------------------------------------
(***************************************************************************)
(* The commit                                                              *)
(***************************************************************************)
\* Marking documents stale keeps requests, their operations and snapshots.
LEMMA WrittenKeeps ==
    ASSUME NEW t \in [Requests -> Transactions], NEW docs \in SUBSET Documents
    PROVE  /\ Written(t, docs) \in [Requests -> Transactions]
           /\ \A p \in Requests :
                 /\ Written(t, docs)[p].stage = t[p].stage
                 /\ Written(t, docs)[p].op = t[p].op
                 /\ Written(t, docs)[p].snap = t[p].snap
                 /\ t[p].stage = "body" => Written(t, docs)[p].stale = t[p].stale \cup docs
<1> SUFFICES ASSUME NEW p \in Requests
             PROVE  /\ Written(t, docs)[p] \in Transactions
                    /\ Written(t, docs)[p].stage = t[p].stage
                    /\ Written(t, docs)[p].op = t[p].op
                    /\ Written(t, docs)[p].snap = t[p].snap
                    /\ t[p].stage = "body" => Written(t, docs)[p].stale = t[p].stale \cup docs
  BY DEF Written
<1>1. t[p] \in Transactions  OBVIOUS
<1>2. Written(t, docs)[p] = IF t[p].stage = "body"
                            THEN [t[p] EXCEPT !.stale = @ \cup docs] ELSE t[p]
  BY DEF Written
<1> QED  BY <1>1, <1>2 DEF Transactions

\* Ending request q leaves the others.
LEMMA ReplyKeeps ==
    ASSUME AdminInv, NEW q \in Requests
    PROVE  /\ Reply(q) \in [Requests -> Transactions]
           /\ Reply(q)[q].stage = "idle"
           /\ \A p \in Requests \ {q} : Reply(q)[p] = tx[p]
<1>1. IdleTx \in Transactions /\ IdleTx.stage = "idle"
  BY DEF IdleTx, Transactions
<1> QED  BY <1>1 DEF Reply, AdminInv, AdminTypeOK

\* A commit is the mutation run on the database: its snapshot still is the
\* database, or it touches neither users nor settings.
LEMMA CommitIsSerial ==
    ASSUME AdminInv, NEW q \in Requests, NEW op, NEW snap, NEW e,
           op = tx[q].op, snap = tx[q].snap, tx[q].stage = "body",
           EffectSound(op, snap, e), ~Conflicted(q, e), ApplyEffect(q, e)
    PROVE  \/ /\ "org" \in e.writes
              /\ snap.user = user /\ snap.org = org /\ user' = e.user /\ org' = e.org
           \/ /\ "org" \notin e.writes
              /\ e.user = snap.user /\ e.org = snap.org /\ user' = user /\ org' = org
<1>1. user \in [Users -> UserDocs] /\ org \in OrgDocs
  BY DEF AdminInv, AdminTypeOK
<1>2. e.user \in [Users -> UserDocs]  BY DEF EffectSound, Manageable
<1>3. user' = [u \in Users |-> IF u \in e.writes THEN e.user[u] ELSE user[u]]
  BY DEF ApplyEffect
<1>4. org' = IF "org" \in e.writes /\ op.kind \in {"policy", "retention"} THEN e.org ELSE org
  BY DEF ApplyEffect
<1>5. CASE "org" \in e.writes
  <2>1. snap.user = user /\ snap.org = org
    BY <1>5 DEF Conflicted, AdminInv, RequestSound
  <2>2. \A u \in Users : u \notin e.writes => e.user[u] = user[u]
    BY <2>1 DEF EffectSound
  <2>3. user' = e.user  BY <1>1, <1>2, <1>3, <2>2
  <2>4. org' = e.org  BY <1>4, <1>5, <2>1 DEF EffectSound
  <2> QED  BY <1>5, <2>1, <2>3, <2>4
<1>6. CASE "org" \notin e.writes
  <2>1. \A u \in Users : u \notin e.writes  BY <1>6 DEF EffectSound
  <2>2. user' = user  BY <1>1, <1>3, <2>1
  <2>3. org' = org  BY <1>4, <1>6
  <2>4. e.user = snap.user /\ e.org = snap.org  BY <1>6 DEF EffectSound
  <2> QED  BY <1>6, <2>2, <2>3, <2>4
<1> QED  BY <1>5, <1>6

\* The log goes on explaining the documents.
LEMMA CommitExplains ==
    ASSUME AdminInv, NEW q \in Requests, NEW op, NEW snap, NEW e,
           op = tx[q].op, snap = tx[q].snap, tx[q].stage = "body",
           EffectSound(op, snap, e), ~Conflicted(q, e), ApplyEffect(q, e)
    PROVE  AuditExplainsState'
<1>1. audit \in Seq(AuditEntries) /\ e.records \in Seq(AuditEntries)
  BY DEF AdminInv, AdminTypeOK, EffectSound
<1>2. audit' = audit \o e.records  BY DEF ApplyEffect, Recorded
<1>3. \A u \in Users : TellsUser(e.records, u, user[u], user'[u])
  <2> SUFFICES ASSUME NEW u \in Users
               PROVE  TellsUser(e.records, u, user[u], user'[u])
    OBVIOUS
  <2>1. TellsUser(e.records, u, snap.user[u], e.user[u])  BY DEF EffectSound
  <2>2. CASE snap.user = user /\ user' = e.user  BY <2>1, <2>2
  <2>3. CASE e.user = snap.user /\ user' = user
    BY <2>1, <2>3, TellsNothing DEF TellsUser
  <2> QED  BY <2>2, <2>3, CommitIsSerial
<1>4. TellsOrg(e.records, org, org')
  <2>1. TellsOrg(e.records, snap.org, e.org)  BY DEF EffectSound
  <2>2. CASE snap.org = org /\ org' = e.org  BY <2>1, <2>2
  <2>3. CASE e.org = snap.org /\ org' = org
    BY <2>1, <2>3, TellsNothing DEF TellsOrg
  <2> QED  BY <2>2, <2>3, CommitIsSerial
<1>5. AuditExplainsState  BY DEF AdminInv
<1>6. ASSUME NEW u \in Users
      PROVE  /\ Explains(audit', "user.role_changed", u, InitialUsers[u].role, user'[u].role)
             /\ Explains(audit', "user.status_changed", u, InitialUsers[u].status,
                         user'[u].status)
             /\ Explains(audit', "user.team_changed", u, InitialUsers[u].team, user'[u].team)
  <2>1. TellsUser(e.records, u, user[u], user'[u])  BY <1>3
  <2> QED  BY <1>1, <1>2, <1>5, <2>1, ExtendLog DEF TellsUser, AuditExplainsState
<1>7. /\ Explains(audit', "organisation.policy_changed", "org", <<1, 2>>,
                  <<org'.mask, org'.block>>)
      /\ Explains(audit', "organisation.budget_changed", "org", 0, org'.budget)
      /\ Explains(audit', "organisation.retention_changed", "org", "METADATA_ONLY", org'.mode)
  BY <1>1, <1>2, <1>4, <1>5, ExtendLog DEF TellsOrg, AuditExplainsState
<1> QED  BY <1>6, <1>7 DEF AuditExplainsState

\* The commit of a sound mutation keeps the invariant.
LEMMA CommitKeeps ==
    ASSUME AdminInv, NEW q \in Requests, NEW op, NEW snap, NEW e,
           op = tx[q].op, snap = tx[q].snap, tx[q].stage = "body",
           EffectSound(op, snap, e), ~Conflicted(q, e), ApplyEffect(q, e)
    PROVE  AdminInv'
<1>1. \/ /\ "org" \in e.writes
         /\ snap.user = user /\ snap.org = org /\ user' = e.user /\ org' = e.org
      \/ /\ "org" \notin e.writes
         /\ e.user = snap.user /\ e.org = snap.org /\ user' = user /\ org' = org
  BY CommitIsSerial
<1>2. Manageable(user', org')
  BY <1>1 DEF EffectSound, AdminInv
<1>3. AuditExplainsState'  BY CommitExplains
<1>4. e.writes \in SUBSET Documents  BY DEF EffectSound
<1>5. tx' = Written(Reply(q), e.writes)  BY DEF ApplyEffect
<1>6. /\ tx' \in [Requests -> Transactions]
      /\ tx'[q].stage = "idle"
      /\ \A p \in Requests \ {q} :
            /\ tx'[p].stage = tx[p].stage /\ tx'[p].op = tx[p].op /\ tx'[p].snap = tx[p].snap
            /\ tx[p].stage = "body" => tx'[p].stale = tx[p].stale \cup e.writes
  BY <1>4, <1>5, ReplyKeeps, WrittenKeeps
<1>7. \A p \in Requests : RequestSound(p)'
  <2> SUFFICES ASSUME NEW p \in Requests
               PROVE  RequestSound(p)'
    OBVIOUS
  <2>1. CASE p = q  BY <1>6, <2>1 DEF RequestSound
  <2>2. CASE p # q
    <3>1. RequestSound(p)  BY DEF AdminInv
    <3> QED  BY <1>1, <1>6, <2>2, <3>1 DEF RequestSound
  <2> QED  BY <2>1, <2>2
<1>8. /\ session' \in [Sessions -> SessionDocs]
      /\ \A s \in Sessions : session'[s].at # "none" => session'[s].user \in Users
  <2>1. session \in [Sessions -> SessionDocs]  BY DEF AdminInv, AdminTypeOK
  <2>2. session' = [s \in Sessions |-> IF s \in e.revoke /\ session[s].at = "live"
                                       THEN [session[s] EXCEPT !.at = "revoked"]
                                       ELSE session[s]]
    BY DEF ApplyEffect
  <2>3. ASSUME NEW s \in Sessions
        PROVE  /\ session'[s] \in SessionDocs
               /\ session'[s].at # "none" => session'[s].user \in Users
    <3>1. session[s] \in SessionDocs /\ (session[s].at # "none" => session[s].user \in Users)
      BY <2>1 DEF AdminInv
    <3>2. CASE s \in e.revoke /\ session[s].at = "live"
      <4>1. session'[s] = [session[s] EXCEPT !.at = "revoked"]  BY <2>2, <3>2
      <4> QED  BY <3>1, <3>2, <4>1 DEF SessionDocs
    <3>3. CASE ~(s \in e.revoke /\ session[s].at = "live")
      <4>1. session'[s] = session[s]  BY <2>2, <3>3
      <4> QED  BY <3>1, <4>1
    <3> QED  BY <3>2, <3>3
  <2> QED  BY <2>2, <2>3
<1>9. alert' \in Alerts
  BY DEF ApplyEffect, AdminInv, AdminTypeOK, EffectSound
<1>10. audit' \in Seq(AuditEntries)
  <2>1. audit \in Seq(AuditEntries) /\ e.records \in Seq(AuditEntries)
    BY DEF AdminInv, AdminTypeOK, EffectSound
  <2>2. audit' = audit \o e.records  BY DEF ApplyEffect, Recorded
  <2> QED  BY <2>1, <2>2
<1>11. user' \in [Users -> UserDocs] /\ org' \in OrgDocs  BY <1>2 DEF Manageable
<1> QED  BY <1>2, <1>3, <1>6, <1>7, <1>8, <1>9, <1>10, <1>11 DEF AdminInv, AdminTypeOK

-----------------------------------------------------------------------------
(***************************************************************************)
(* The invariant                                                           *)
(***************************************************************************)
\* A provisioned organisation is manageable and its empty log explains it.
LEMMA AdminInitOK == AdminInit => AdminInv
<1> SUFFICES ASSUME AdminInit PROVE AdminInv
  OBVIOUS
<1> USE DEF AdminInit
<1>1. org \in OrgDocs /\ org.block > org.mask
  BY DEF OrgDocs, RetentionModes
<1>2. Manageable(user, org)
  BY <1>1, ProvisionAssumption DEF Manageable
<1>3. IdleTx \in Transactions /\ IdleTx.stage = "idle"
  BY DEF IdleTx, Transactions
<1>4. \A q \in Requests : tx[q] = IdleTx  OBVIOUS
<1>5. \A q \in Requests : RequestSound(q)
  BY <1>3, <1>4 DEF RequestSound
<1>6. AdminTypeOK
  BY <1>1, <1>3, ProvisionAssumption DEF AdminTypeOK, Alerts, SessionDocs
<1>7. \A s \in Sessions : session[s].at = "none"  OBVIOUS
<1>8. \A action, target, first : Explains(audit, action, target, first, first)
  <2>1. Len(audit) = 0  OBVIOUS
  <2>2. \A i : i \notin 1..Len(audit)  BY <2>1
  <2> QED  BY <2>2 DEF Explains
<1>9. /\ <<org.mask, org.block>> = <<1, 2>> /\ org.budget = 0 /\ org.mode = "METADATA_ONLY"
      /\ user = InitialUsers
  OBVIOUS
<1> HIDE DEF AdminInit
<1>10. AuditExplainsState  BY <1>8, <1>9 DEF AuditExplainsState
<1> QED  BY <1>2, <1>5, <1>6, <1>7, <1>10 DEF AdminInv

\* What is left to show of a step that changes no user, setting or record.
LEMMA DocumentsKept ==
    ASSUME AdminInv, UNCHANGED <<user, org, audit>>,
           alert' \in Alerts, session' \in [Sessions -> SessionDocs],
           \A s \in Sessions : session'[s].at # "none" => session'[s].user \in Users,
           tx' \in [Requests -> Transactions], \A p \in Requests : RequestSound(p)'
    PROVE  AdminInv'
<1>1. AuditExplainsState'  BY DEF AdminInv, AuditExplainsState
<1>2. Manageable(user, org)'  BY DEF AdminInv, Manageable
<1> QED  BY <1>1, <1>2 DEF AdminInv, AdminTypeOK

\* A step of request q that writes nothing leaves the other requests sound.
LEMMA OneRequest ==
    ASSUME AdminInv, UNCHANGED dbVars, NEW q \in Requests, NEW t \in Transactions,
           tx' = [tx EXCEPT ![q] = t],
           t.stage # "idle" => t.op \in Mutations,
           t.stage = "body" => SnapshotSound(t.snap) /\ t.snap.user = user /\ t.snap.org = org
    PROVE  AdminInv'
<1>1. tx \in [Requests -> Transactions]  BY DEF AdminInv, AdminTypeOK
<1>2. tx' \in [Requests -> Transactions] /\ tx'[q] = t
      /\ \A p \in Requests \ {q} : tx'[p] = tx[p]
  BY <1>1
<1>3. user' = user /\ org' = org /\ audit' = audit /\ alert' = alert /\ session' = session
  BY DEF dbVars
<1>4. \A p \in Requests : RequestSound(p)'
  <2> SUFFICES ASSUME NEW p \in Requests
               PROVE  RequestSound(p)'
    OBVIOUS
  <2>1. CASE p = q  BY <1>2, <1>3, <2>1 DEF RequestSound
  <2>2. CASE p # q
    <3>1. RequestSound(p)  BY DEF AdminInv
    <3> QED  BY <1>2, <1>3, <2>2, <3>1 DEF RequestSound
  <2> QED  BY <2>1, <2>2
<1> QED  BY <1>2, <1>3, <1>4, DocumentsKept DEF AdminInv, AdminTypeOK

\* A write outside a mutation marks what it wrote and changes no user or setting.
LEMMA OutsideWrite ==
    ASSUME AdminInv, UNCHANGED <<user, org, audit>>, NEW docs \in SUBSET Documents,
           tx' = Written(tx, docs), alert' \in Alerts,
           session' \in [Sessions -> SessionDocs],
           \A s \in Sessions : session'[s].at # "none" => session'[s].user \in Users
    PROVE  AdminInv'
<1>1. tx \in [Requests -> Transactions]  BY DEF AdminInv, AdminTypeOK
<1>2. /\ tx' \in [Requests -> Transactions]
      /\ \A p \in Requests :
            /\ tx'[p].stage = tx[p].stage /\ tx'[p].op = tx[p].op /\ tx'[p].snap = tx[p].snap
            /\ tx[p].stage = "body" => tx'[p].stale = tx[p].stale \cup docs
  BY <1>1, WrittenKeeps
<1>3. \A p \in Requests : RequestSound(p)'
  <2> SUFFICES ASSUME NEW p \in Requests
               PROVE  RequestSound(p)'
    OBVIOUS
  <2>1. RequestSound(p)  BY DEF AdminInv
  <2> QED  BY <1>2, <2>1 DEF RequestSound
<1> QED  BY <1>2, <1>3, DocumentsKept

\* A request's steps: authenticateRequest and requirePermission, and
\* withAuditedTransaction.
LEMMA RequestSteps ==
    ASSUME AdminInv, NEW q \in Requests,
           \/ TransactionStep(q)
           \/ \E actor \in Users, op \in Mutations : Authorise(q, actor, op)
    PROVE  AdminInv'
<1>1. tx \in [Requests -> Transactions] /\ RequestSound(q)
  BY DEF AdminInv, AdminTypeOK
<1>2. IdleTx \in Transactions /\ IdleTx.stage = "idle"
  BY DEF IdleTx, Transactions
<1>3. ASSUME NEW actor \in Users, NEW op \in Mutations, Authorise(q, actor, op)
      PROVE  AdminInv'
  <2> DEFINE t == [IdleTx EXCEPT !.stage = "begin", !.op = op]
  <2>1. t \in Transactions /\ t.stage = "begin" /\ t.op = op
    BY DEF IdleTx, Transactions
  <2>2. tx' = [tx EXCEPT ![q] = t] /\ UNCHANGED dbVars
    BY <1>3 DEF Authorise
  <2> HIDE DEF t
  <2> QED  BY <2>1, <2>2, OneRequest
<1>4. ASSUME BeginTransaction(q)
      PROVE  AdminInv'
  <2>1. PICK snap : snap = Database  OBVIOUS
  <2> DEFINE t == [tx[q] EXCEPT !.stage = "body", !.snap = snap, !.stale = {}]
  <2>2. /\ snap \in Snapshots /\ snap.user = user /\ snap.org = org
    <3>1. Len(audit) \in Nat  BY DEF AdminInv, AdminTypeOK
    <3> QED  BY <2>1, <3>1 DEF Database, Snapshots, AdminInv, AdminTypeOK
  <2>3. t \in Transactions /\ t.stage = "body" /\ t.snap = snap /\ t.op = tx[q].op
    BY <1>1, <2>2 DEF Transactions
  <2>4. SnapshotSound(snap)
    BY <2>2 DEF SnapshotSound, AdminInv
  <2>5. tx' = [tx EXCEPT ![q] = t]
    BY <1>1, <1>4, <2>1 DEF BeginTransaction
  <2>6. UNCHANGED dbVars /\ tx[q].op \in Mutations
    BY <1>1, <1>4 DEF BeginTransaction, RequestSound
  <2> HIDE DEF t
  <2> QED  BY <2>2, <2>3, <2>4, <2>5, <2>6, OneRequest
<1>5. ASSUME WriteConflict(q)
      PROVE  AdminInv'
  <2> DEFINE t == [tx[q] EXCEPT !.stage = "begin", !.snap = Nothing, !.stale = {}]
  <2>1. t \in Transactions /\ t.stage = "begin" /\ t.op = tx[q].op
    BY <1>1 DEF Transactions
  <2>2. tx' = [tx EXCEPT ![q] = t] /\ UNCHANGED dbVars /\ tx[q].op \in Mutations
    BY <1>1, <1>5 DEF WriteConflict, RequestSound
  <2> HIDE DEF t
  <2> QED  BY <2>1, <2>2, OneRequest
<1>6. ASSUME tx' = Reply(q), UNCHANGED dbVars
      PROVE  AdminInv'
  BY <1>2, <1>6, OneRequest DEF Reply
<1>7. ASSUME tx[q].stage = "body",
             ~Conflicted(q, Effect(tx[q].op, tx[q].snap)),
             Effect(tx[q].op, tx[q].snap).error = "NONE",
             ApplyEffect(q, Effect(tx[q].op, tx[q].snap))
      PROVE  AdminInv'
  <2>1. PICK op, snap : op = tx[q].op /\ snap = tx[q].snap  OBVIOUS
  <2>2. PICK e : e = Effect(op, snap)  OBVIOUS
  <2>3. op \in Mutations /\ SnapshotSound(snap)
    BY <1>1, <1>7, <2>1 DEF RequestSound
  <2>4. EffectSound(op, snap, e)
    BY <1>7, <2>1, <2>2, <2>3, EveryEffectSound
  <2>5. ~Conflicted(q, e) /\ ApplyEffect(q, e)
    BY <1>7, <2>1, <2>2 DEF Conflicted, ApplyEffect
  <2> QED  BY <1>7, <2>1, <2>4, <2>5, CommitKeeps
<1>8. ASSUME Refuse(q)
      PROVE  AdminInv'
  BY <1>6, <1>8 DEF Refuse
<1>9. ASSUME CommitTransaction(q)
      PROVE  AdminInv'
  BY <1>7, <1>9 DEF CommitTransaction
<1>10. ASSUME AuditUnavailable(q)
       PROVE  AdminInv'
  BY <1>6, <1>7, <1>10 DEF AuditUnavailable, dbVars
<1> QED  BY <1>3, <1>4, <1>5, <1>8, <1>9, <1>10 DEF TransactionStep

\* Logins, rotations and alerts meanwhile
LEMMA OtherSteps ==
    ASSUME AdminInv, RaiseAlert \/ \E s \in Sessions : SessionStep(s)
    PROVE  AdminInv'
<1>1. /\ tx \in [Requests -> Transactions] /\ alert \in Alerts
      /\ session \in [Sessions -> SessionDocs]
      /\ \A s \in Sessions : session[s].at # "none" => session[s].user \in Users
      /\ \A p \in Requests : RequestSound(p)
  BY DEF AdminInv, AdminTypeOK
<1>2. ASSUME RaiseAlert
      PROVE  AdminInv'
  <2>1. /\ alert' = "OPEN" /\ tx' = Written(tx, {"alert"}) /\ session' = session
        /\ UNCHANGED <<user, org, audit>>
    BY <1>2 DEF RaiseAlert
  <2>2. {"alert"} \in SUBSET Documents /\ "OPEN" \in Alerts  BY DEF Documents, Alerts
  <2> QED  BY <1>1, <2>1, <2>2, OutsideWrite
<1>3. ASSUME NEW s \in Sessions, SessionStep(s)
      PROVE  AdminInv'
  <2>1. UNCHANGED <<user, org, audit>> /\ alert' = alert
    BY <1>3 DEF SessionStep, FindUserForLogin, PasswordMismatch, PersistInitialToken,
                ClaimForRotation, LoadForRotation, PersistReplacement, Elsewhere
  <2>2. /\ session' \in [Sessions -> SessionDocs]
        /\ \A r \in Sessions : session'[r].at # "none" => session'[r].user \in Users
    <3>1. CASE \E u \in Users : FindUserForLogin(s, u)
      <4>1. PICK u \in Users : session' = [session EXCEPT ![s] = [user |-> u, at |-> "found"]]
        BY <3>1 DEF FindUserForLogin
      <4> QED  BY <1>1, <4>1 DEF SessionDocs
    <3>2. ASSUME NEW to \in {"live", "claimed", "loaded", "revoked"}, Move(s, to),
                 session[s].at # "none"
          PROVE  /\ session' \in [Sessions -> SessionDocs]
                 /\ \A r \in Sessions : session'[r].at # "none" => session'[r].user \in Users
      <4>1. session[s] \in SessionDocs /\ session[s].user \in Users  BY <1>1, <3>2
      <4>2. session' = [session EXCEPT ![s].at = to]  BY <3>2 DEF Move
      <4>3. session'[s] = [session[s] EXCEPT !.at = to]  BY <1>1, <4>2
      <4>4. session'[s] \in SessionDocs /\ session'[s].user \in Users
        BY <4>1, <4>3 DEF SessionDocs
      <4>5. session' = [session EXCEPT ![s] = session'[s]]  BY <1>1, <4>2, <4>3
      <4> QED  BY <1>1, <4>4, <4>5
    <3>3. CASE PasswordMismatch(s)  BY <3>2, <3>3 DEF PasswordMismatch
    <3>4. CASE PersistInitialToken(s)  BY <3>2, <3>4 DEF PersistInitialToken
    <3>5. CASE ClaimForRotation(s)  BY <3>2, <3>5 DEF ClaimForRotation
    <3>6. CASE LoadForRotation(s)
      <4>1. PICK to \in {"loaded", "revoked"} : Move(s, to)
        BY <3>6 DEF LoadForRotation, Move
      <4> QED  BY <3>2, <3>6, <4>1 DEF LoadForRotation
    <3>7. CASE PersistReplacement(s)  BY <3>2, <3>7 DEF PersistReplacement
    <3> QED  BY <1>3, <3>1, <3>3, <3>4, <3>5, <3>6, <3>7 DEF SessionStep
  <2>3. CASE tx' = tx
    <3>1. \A p \in Requests : RequestSound(p)'
      BY <1>1, <2>1, <2>3 DEF RequestSound
    <3> QED  BY <1>1, <2>1, <2>2, <2>3, <3>1, DocumentsKept
  <2>4. CASE session[s].at # "none" /\ tx' = Written(tx, {session[s].user})
    <3>1. {session[s].user} \in SUBSET Documents  BY <1>1, <2>4 DEF Documents
    <3> QED  BY <1>1, <2>1, <2>2, <2>4, <3>1, OutsideWrite
  <2>5. CASE tx' = Written(tx, {s})
    <3>1. {s} \in SUBSET Documents  BY DEF Documents
    <3> QED  BY <1>1, <2>1, <2>2, <2>5, <3>1, OutsideWrite
  <2>6. \/ tx' = tx \/ tx' = Written(tx, {s})
        \/ session[s].at # "none" /\ tx' = Written(tx, {session[s].user})
    BY <1>3 DEF SessionStep, FindUserForLogin, PasswordMismatch, PersistInitialToken,
                ClaimForRotation, LoadForRotation, PersistReplacement
  <2> QED  BY <2>3, <2>4, <2>5, <2>6
<1> QED  BY <1>2, <1>3

\* The inductive invariant holds whatever requests, logins and failures do.
THEOREM AdminInvariant == AdminSpec => []AdminInv
<1>1. AdminInv /\ [AdminNext]_adminVars => AdminInv'
  <2> SUFFICES ASSUME AdminInv, [AdminNext]_adminVars
               PROVE  AdminInv'
    OBVIOUS
  <2>1. CASE AdminNext
    BY <2>1, RequestSteps, OtherSteps DEF AdminNext
  <2>2. CASE UNCHANGED adminVars
    <3>1. UNCHANGED <<user, org, audit, alert, session, tx>>
      BY <2>2 DEF adminVars, dbVars
    <3>2. \A p \in Requests : RequestSound(p)'
      BY <3>1 DEF AdminInv, RequestSound
    <3> QED  BY <3>1, <3>2, DocumentsKept DEF AdminInv, AdminTypeOK
  <2> QED  BY <2>1, <2>2
<1> QED  BY <1>1, AdminInitOK, PTL DEF AdminSpec

\* assertAnotherActiveAdmin under lockOrganisation: whatever administrators
\* demote or disable each other at the same time, one active one remains.
THEOREM AdminRemains == AdminSpec => []ActiveAdminRemains
<1>1. AdminInv => ActiveAdminRemains
  BY DEF AdminInv, Manageable, ActiveAdminRemains
<1> QED  BY <1>1, AdminInvariant, PTL

\* Partial patches by concurrent requests never leave the block threshold at
\* or below the mask threshold, nor an active team lead without a team.
THEOREM ConfigurationIsConsistent == AdminSpec => []ConfigurationConsistent
<1>1. AdminInv => ConfigurationConsistent
  BY DEF AdminInv, Manageable, ConfigurationConsistent
<1> QED  BY <1>1, AdminInvariant, PTL

\* withAuditedTransaction: replaying the audit log from the provisioned
\* documents gives the current ones, with no gap and no unrecorded change.
THEOREM AuditIsComplete == AdminSpec => []AuditExplainsState
<1>1. AdminInv => AuditExplainsState  BY DEF AdminInv
<1> QED  BY <1>1, AdminInvariant, PTL

-----------------------------------------------------------------------------
(***************************************************************************)
(* Pages of the administration                                             *)
(***************************************************************************)
\* In a finite set with a strict order every place is taken: the ranks of its
\* elements are all the numbers below its cardinality.
LEMMA EveryRank ==
    ASSUME NEW S, IsFiniteSet(S), NEW R,
           \A i \in S : <<i, i>> \notin R,
           \A i, j, k \in S : <<i, j>> \in R /\ <<j, k>> \in R => <<i, k>> \in R,
           \A i, j \in S : i # j => <<i, j>> \in R \/ <<j, i>> \in R
    PROVE  /\ Cardinality(S) \in Nat
           /\ \A n \in 1..Cardinality(S) :
                \E i \in S : Cardinality({j \in S : <<j, i>> \in R}) = n - 1
<1> DEFINE Below(i) == {j \in S : <<j, i>> \in R}
           rank == [i \in S |-> Cardinality(Below(i))]
           Ranks == 0..(Cardinality(S) - 1)
<1>1. Cardinality(S) \in Nat
  BY FS_CardinalityType
<1>2. ASSUME NEW i \in S
      PROVE  IsFiniteSet(Below(i)) /\ Cardinality(Below(i)) \in Nat /\ Cardinality(Below(i)) < Cardinality(S)
  <2>1. Below(i) \subseteq S /\ Below(i) # S
    OBVIOUS
  <2> HIDE DEF Below
  <2> QED
    BY <2>1, FS_Subset, FS_CardinalityType
<1>3. ASSUME NEW i \in S, NEW j \in S, <<i, j>> \in R
      PROVE  Cardinality(Below(i)) < Cardinality(Below(j))
  <2>1. Below(i) \subseteq Below(j) /\ i \in Below(j) /\ i \notin Below(i)
    BY <1>3
  <2>2. Below(i) # Below(j)
    BY <2>1
  <2>3. IsFiniteSet(Below(i)) /\ IsFiniteSet(Below(j))
    BY <1>2
  <2> HIDE DEF Below
  <2> QED
    BY <2>1, <2>2, <2>3, FS_Subset, FS_CardinalityType
<1> HIDE DEF Below
<1>4. rank \in [S -> Ranks]
  BY <1>1, <1>2
<1>5. \A i, j \in S : i # j => rank[i] # rank[j]
  <2> SUFFICES ASSUME NEW i \in S, NEW j \in S, i # j PROVE rank[i] # rank[j]
    OBVIOUS
  <2>1. rank[i] \in Nat /\ rank[j] \in Nat
    BY <1>2
  <2>2. rank[i] < rank[j] \/ rank[j] < rank[i]
    BY <1>3
  <2> QED
    BY <2>1, <2>2
<1>6. IsFiniteSet(Ranks) /\ Cardinality(Ranks) = Cardinality(S)
  <2>1. 0 \in Int /\ Cardinality(S) - 1 \in Int
    BY <1>1
  <2> QED
    BY <1>1, <2>1, FS_Interval
<1>7. rank \in Injection(S, Ranks)
  <2> HIDE DEF rank, Ranks
  <2> QED  BY <1>4, <1>5 DEF Injection, IsInjective
<1>8. rank \in Surjection(S, Ranks)
  <2> HIDE DEF rank, Ranks
  <2> QED  BY <1>6, <1>7, FS_Injection
<1>9. \A n \in Ranks : \E i \in S : rank[i] = n
  <2> HIDE DEF rank, Ranks
  <2> QED  BY <1>8 DEF Surjection
<1> QED
  <2> SUFFICES ASSUME NEW n \in 1..Cardinality(S)
               PROVE  \E i \in S : Cardinality(Below(i)) = n - 1
    BY <1>1 DEF Below
  <2>1. n - 1 \in Ranks
    BY <1>1
  <2> QED
    BY <1>9, <2>1

Distinct(s) == \A k, l \in DOMAIN s : s[k] = s[l] => k = l
Lists == {s \in Seq(Items) : Distinct(s)}

KeysOK == /\ key \in [Items -> 1..clock] /\ clock \in Nat
          /\ \A i, j \in Items : key[i] = key[j] => i = j

\* A page holds no record twice.
LEMMA NewestDistinct ==
    ASSUME KeysOK, NEW S \in SUBSET Items
    PROVE  Newest(S) \in Lists
<1> DEFINE R == {p \in S \X S : key[p[1]] > key[p[2]]}
           n == IF Cardinality(S) < PageSize THEN Cardinality(S) ELSE PageSize
           At(k) == CHOOSE i \in S : Cardinality({j \in S : key[j] > key[i]}) = k - 1
<1>1. IsFiniteSet(S) /\ Cardinality(S) \in Nat
  BY PagesAssumption, FS_Subset, FS_CardinalityType
<1>2. \A i, j \in S : <<i, j>> \in R <=> key[i] > key[j]
  OBVIOUS
<1>3. \A i \in S : key[i] \in Nat
  BY DEF KeysOK
<1>4. /\ \A i \in S : <<i, i>> \notin R
      /\ \A i, j, k \in S : <<i, j>> \in R /\ <<j, k>> \in R => <<i, k>> \in R
      /\ \A i, j \in S : i # j => <<i, j>> \in R \/ <<j, i>> \in R
  <2> HIDE DEF R
  <2> QED  BY <1>2, <1>3 DEF KeysOK
<1>5. ASSUME NEW k \in 1..Cardinality(S)
      PROVE  At(k) \in S /\ Cardinality({j \in S : key[j] > key[At(k)]}) = k - 1
  <2>1. PICK i \in S : Cardinality({j \in S : <<j, i>> \in R}) = k - 1
    <3> HIDE DEF R
    <3> QED  BY <1>1, <1>4, EveryRank
  <2>2. {j \in S : <<j, i>> \in R} = {j \in S : key[j] > key[i]}
    BY <1>2
  <2>3. \E x \in S : Cardinality({j \in S : key[j] > key[x]}) = k - 1
    BY <2>1, <2>2, Zenon
  <2> QED
    BY <2>3, Zenon
<1>6. n \in Nat /\ \A k \in 1..n : k \in 1..Cardinality(S)
  BY <1>1, PagesAssumption
<1> HIDE DEF n, At, R
<1>7. Newest(S) = [k \in 1..n |-> At(k)]
  BY DEF Newest, n, At
<1>8. \A k \in 1..n : At(k) \in Items
  BY <1>5, <1>6
<1>9. \A k, l \in 1..n : At(k) = At(l) => k = l
  <2> SUFFICES ASSUME NEW k \in 1..n, NEW l \in 1..n, At(k) = At(l) PROVE k = l
    OBVIOUS
  <2>1. k - 1 = l - 1
    BY <1>5, <1>6
  <2> QED
    BY <2>1, <1>6
<1>10. Newest(S) \in Seq(Items) /\ DOMAIN Newest(S) = 1..n
  BY <1>6, <1>7, <1>8
<1> QED
  BY <1>7, <1>9, <1>10 DEF Lists, Distinct

\* appendUniquePage keeps a list without repetitions.
LEMMA AppendDistinct ==
    ASSUME NEW current \in Lists, NEW incoming \in Lists
    PROVE  AppendUniquePage(current, incoming) \in Lists
<1> DEFINE added == {k \in DOMAIN incoming :
                        \A n \in DOMAIN current : current[n] # incoming[k]}
           R == {p \in added \X added : p[1] < p[2]}
           At(n) == CHOOSE k \in added : Cardinality({j \in added : j < k}) = n - 1
           more == [n \in 1..Cardinality(added) |-> incoming[At(n)]]
<1>1. DOMAIN incoming = 1..Len(incoming) /\ Len(incoming) \in Nat
  BY DEF Lists
<1>2. IsFiniteSet(added) /\ Cardinality(added) \in Nat /\ \A k \in added : k \in Nat
  <2>1. added \subseteq 1..Len(incoming)
    BY <1>1
  <2>2. IsFiniteSet(1..Len(incoming))
    BY <1>1, FS_Interval
  <2> QED
    BY <2>1, <2>2, FS_Subset, FS_CardinalityType
<1>3. \A i, j \in added : <<i, j>> \in R <=> i < j
  OBVIOUS
<1>4. added \subseteq DOMAIN incoming
  OBVIOUS
<1>5. \A k \in added, n \in DOMAIN current : current[n] # incoming[k]
  OBVIOUS
<1>6. AppendUniquePage(current, incoming) = current \o more
  BY DEF AppendUniquePage
<1> HIDE DEF added, R
<1>7. ASSUME NEW n \in 1..Cardinality(added)
      PROVE  At(n) \in added /\ Cardinality({j \in added : j < At(n)}) = n - 1
  <2>1. /\ \A i \in added : <<i, i>> \notin R
        /\ \A i, j, k \in added : <<i, j>> \in R /\ <<j, k>> \in R => <<i, k>> \in R
        /\ \A i, j \in added : i # j => <<i, j>> \in R \/ <<j, i>> \in R
    BY <1>2, <1>3
  <2>2. PICK i \in added : Cardinality({j \in added : <<j, i>> \in R}) = n - 1
    <3>1. \A m \in 1..Cardinality(added) :
             \E i \in added : Cardinality({j \in added : <<j, i>> \in R}) = m - 1
      BY <1>2, <2>1, EveryRank
    <3> QED
      BY <3>1, Zenon
  <2>3. {j \in added : <<j, i>> \in R} = {j \in added : j < i}
    BY <1>3
  <2>4. \E k \in added : Cardinality({j \in added : j < k}) = n - 1
    BY <2>2, <2>3, Zenon
  <2> QED
    BY <2>4, Zenon
<1> HIDE DEF At
<1>8. \A m, n \in 1..Cardinality(added) : At(m) = At(n) => m = n
  <2> SUFFICES ASSUME NEW m \in 1..Cardinality(added), NEW n \in 1..Cardinality(added),
                      At(m) = At(n)
               PROVE  m = n
    OBVIOUS
  <2>1. m - 1 = n - 1
    BY <1>7
  <2> QED
    BY <2>1, <1>2
<1>9. /\ more \in Seq(Items) /\ DOMAIN more = 1..Cardinality(added)
      /\ Len(more) = Cardinality(added)
  <2>1. \A k \in added : incoming[k] \in Items
    BY <1>1, <1>4 DEF Lists
  <2>2. \A n \in 1..Cardinality(added) : incoming[At(n)] \in Items
    BY <1>7, <2>1
  <2> QED
    BY <1>2, <2>2
<1>10. Distinct(more)
  BY <1>1, <1>4, <1>7, <1>8, <1>9 DEF Lists, Distinct
<1>11. \A n \in DOMAIN current, m \in DOMAIN more : current[n] # more[m]
  BY <1>5, <1>7, <1>9
<1> HIDE DEF more
<1>12. current \in Seq(Items) /\ Distinct(current)
  BY DEF Lists
<1>13. current \o more \in Seq(Items)
  BY <1>9, <1>12
<1>14. Distinct(current \o more)
  BY <1>9, <1>10, <1>11, <1>12 DEF Distinct
<1> QED
  BY <1>6, <1>13, <1>14 DEF Lists

FetchType == [stage : {"none", "sent", "answered"}, from : Nat, items : Lists,
              next : Nat, read : Nat]
ControlType == [kind : {"confirmed", "direct"}, open : BOOLEAN,
                state : {"idle", "working", "success", "error", "refresh-error"},
                asked : BOOLEAN, step : {"none", "run", "refresh"}, saved : Nat]

PagesTypeOK ==
    /\ KeysOK
    /\ rows \in Lists /\ cursor \in Nat /\ readAt \in Nat
    /\ fetches \in [Fetches -> FetchType]
    /\ control \in ControlType

\* A confirmation is shown only after a click has asked for the change, the
\* control works while it runs or reads, and what a refresh reads is not older
\* than the change it follows.
ControlOK ==
    /\ control.open => control.asked \/ control.step = "run"
    /\ control.open => control.step # "refresh"
    /\ control.state = "working" <=> control.step # "none"
    /\ fetches["refresh"].stage # "none" => control.step = "refresh"
    /\ control.saved <= clock
    /\ fetches["refresh"].stage = "answered" => fetches["refresh"].read >= control.saved

PagesInv == PagesTypeOK /\ ControlOK

\* The cursor is a key of the page's last record, or null.
LEMMA CursorType ==
    ASSUME KeysOK, NEW S \in SUBSET Items
    PROVE  NextCursor(S) \in Nat
<1>1. IsFiniteSet(S) /\ Cardinality(S) \in Nat
  BY PagesAssumption, FS_Subset, FS_CardinalityType
<1>2. CASE Cardinality(S) <= PageSize
  BY <1>2 DEF NextCursor
<1>3. CASE ~(Cardinality(S) <= PageSize)
  <2>1. Newest(S) \in Seq(Items)
    BY NewestDistinct DEF Lists
  <2>4. ~(Cardinality(S) < PageSize)
    BY <1>1, <1>3, PagesAssumption
  <2>5. DOMAIN Newest(S) = 1..PageSize
    BY <2>4 DEF Newest
  <2>2. PageSize \in DOMAIN Newest(S)
    BY <2>5, PagesAssumption
  <2>3. Newest(S)[PageSize] \in Items
    BY <2>1, <2>2
  <2> QED
    BY <1>3, <2>3 DEF NextCursor, KeysOK
<1> QED
  BY <1>2, <1>3

\* An empty list is a list, and a fetch that is not under way has a type.
LEMMA NoFetchType == NoFetch \in FetchType /\ <<>> \in Lists
<1>1. <<>> \in Lists
  BY DEF Lists, Distinct
<1> QED
  BY <1>1 DEF NoFetch, FetchType

\* What a control may become: its own fields, typed, with the same reading.
LEMMA ControlFields ==
    ASSUME control \in ControlType
    PROVE  /\ DOMAIN control = {"kind", "open", "state", "asked", "step", "saved"}
           /\ control.kind \in {"confirmed", "direct"} /\ control.saved \in Nat
           /\ control.open \in BOOLEAN /\ control.asked \in BOOLEAN
           /\ control.state \in {"idle", "working", "success", "error", "refresh-error"}
           /\ control.step \in {"none", "run", "refresh"}
BY DEF ControlType

\* A refresh that has just been asked for, or is over, has read nothing.
LEMMA RefreshStarts ==
    ASSUME fetches \in [Fetches -> FetchType], NEW f \in Fetches, NEW n \in Nat,
           Request(f, n) \/ Over(f)
    PROVE  /\ fetches' \in [Fetches -> FetchType]
           /\ f # "refresh" => fetches'["refresh"] = fetches["refresh"]
           /\ f = "refresh" => fetches'["refresh"].stage \in {"none", "sent"}
           /\ f = "refresh" /\ Over(f) => fetches'["refresh"].stage = "none"
<1>1. /\ [NoFetch EXCEPT !.stage = "sent", !.from = n] \in FetchType
      /\ [NoFetch EXCEPT !.stage = "sent", !.from = n].stage = "sent"
      /\ NoFetch.stage = "none"
  BY NoFetchType DEF FetchType, NoFetch
<1>2. CASE f = "refresh"
  BY <1>1, <1>2, NoFetchType DEF Request, Over, Fetches
<1>3. CASE f # "refresh"
  BY <1>1, <1>3, NoFetchType DEF Request, Over, Fetches
<1> QED
  BY <1>2, <1>3
\* The steps at the server, and those of the two kinds of fetch.
LEMMA PagesFetchStep ==
    ASSUME PagesInv,
           \/ \E f \in Fetches : ServeFetch(f)
           \/ \E i \in Items : ItemMoves(i)
           \/ Reload \/ ReloadAnswers \/ LoadMore \/ PageAnswers
    PROVE  PagesInv'
<1> USE DEF Fetches
<1>0. PagesTypeOK /\ ControlOK /\ KeysOK /\ clock \in Nat
  BY DEF PagesInv, PagesTypeOK, KeysOK
<1>1. ASSUME NEW f \in Fetches, ServeFetch(f) PROVE PagesInv'
  <2> DEFINE S == Older(fetches[f].from)
  <2>1. Newest(S) \in Lists /\ NextCursor(S) \in Nat
    BY <1>0, NewestDistinct, CursorType DEF Older
  <2>2. fetches' \in [Fetches -> FetchType]
    BY <1>0, <1>1, <2>1 DEF ServeFetch, PagesTypeOK, FetchType
  <2>3. ControlOK'
    BY <1>0, <1>1 DEF ServeFetch, ControlOK, PagesTypeOK, FetchType, ControlType
  <2> QED
    BY <1>0, <1>1, <2>2, <2>3 DEF ServeFetch, PagesInv, PagesTypeOK, KeysOK
<1>2. ASSUME NEW i \in Items, ItemMoves(i) PROVE PagesInv'
  <2>1. KeysOK'
    BY <1>0, <1>2 DEF ItemMoves, Touch, KeysOK
  <2> QED
    BY <1>0, <1>2, <2>1 DEF ItemMoves, Touch, PagesInv, PagesTypeOK, ControlOK, ControlType
<1>3. ASSUME NEW f \in {"reload", "page"}, NEW n \in Nat, Request(f, n) \/ Over(f),
             UNCHANGED <<key, clock, control>>,
             rows' \in Lists, cursor' \in Nat, readAt' \in Nat
      PROVE  PagesInv'
  <2>1. fetches' \in [Fetches -> FetchType]
    BY <1>0, <1>3, RefreshStarts DEF PagesTypeOK
  <2>2. fetches'["refresh"] = fetches["refresh"]
    BY <1>0, <1>3, RefreshStarts DEF PagesTypeOK
  <2>3. ControlOK'
    BY <1>0, <1>3, <2>2 DEF ControlOK
  <2> QED
    BY <1>0, <1>3, <2>1, <2>3 DEF PagesInv, PagesTypeOK, KeysOK
<1>4. \A f \in Fetches : /\ fetches[f].items \in Lists /\ fetches[f].next \in Nat
                         /\ fetches[f].read \in Nat /\ fetches[f].from \in Nat
  BY <1>0 DEF PagesTypeOK, FetchType
<1>5. rows \in Lists /\ cursor \in Nat /\ readAt \in Nat
  BY <1>0 DEF PagesTypeOK
<1>6. CASE Reload
  BY <1>3, <1>5, <1>6 DEF Reload
<1>7. CASE ReloadAnswers
  BY <1>3, <1>4, <1>5, <1>7 DEF ReloadAnswers, ShowFirst
<1>8. CASE LoadMore
  BY <1>3, <1>5, <1>8 DEF LoadMore
<1>9. CASE PageAnswers
  <2>1. AppendUniquePage(rows, fetches["page"].items) \in Lists
    BY <1>4, <1>5, AppendDistinct
  <2> QED
    BY <1>3, <1>4, <1>5, <1>9, <2>1 DEF PageAnswers
<1> QED
  BY <1>1, <1>2, <1>6, <1>7, <1>8, <1>9


\* The steps of the mutation control.
LEMMA PagesControlStep ==
    ASSUME PagesInv, Click \/ Cancel \/ Confirm \/ RunAnswers \/ RefreshAnswers
    PROVE  PagesInv'
<1>0. /\ PagesTypeOK /\ ControlOK /\ KeysOK /\ clock \in Nat
      /\ rows \in Lists /\ cursor \in Nat /\ readAt \in Nat
      /\ fetches \in [Fetches -> FetchType] /\ control \in ControlType
      /\ "refresh" \in Fetches
  BY DEF PagesInv, PagesTypeOK, KeysOK, Fetches
<1>1. fetches["refresh"].items \in Lists /\ fetches["refresh"].next \in Nat
      /\ fetches["refresh"].read \in Nat
  BY <1>0 DEF FetchType
<1>2. ASSUME UNCHANGED key, clock' \in {clock, clock + 1},
             rows' \in Lists, cursor' \in Nat, readAt' \in Nat, control' \in ControlType,
             ControlOK', fetches' \in [Fetches -> FetchType]
      PROVE  PagesInv'
  <2>1. KeysOK'
    BY <1>0, <1>2 DEF KeysOK
  <2> QED
    BY <1>2, <2>1 DEF PagesInv, PagesTypeOK
<1>3. CASE Click
  <2>1. control' \in ControlType
    BY <1>0, <1>3, ControlFields
    DEF Click, ClickAfterRefreshError, RefreshValues, Run, ControlType
  <2>2. CASE control.state = "refresh-error"
    <3>1. /\ control'.open = FALSE /\ control'.state = "working" /\ control'.step = "refresh"
          /\ control'.saved = control.saved
          /\ Request("refresh", 0) /\ UNCHANGED <<key, clock, rows, cursor, readAt>>
      BY <1>0, <1>3, <2>2, ControlFields DEF Click, ClickAfterRefreshError, RefreshValues
    <3>2. ControlOK' /\ fetches' \in [Fetches -> FetchType]
      BY <1>0, <3>1, RefreshStarts DEF ControlOK
    <3> QED
      BY <1>0, <1>2, <2>1, <3>1, <3>2
  <2>3. CASE control.state # "refresh-error"
    <3>1. /\ UNCHANGED <<key, clock, rows, cursor, readAt, fetches>>
          /\ control'.saved = control.saved /\ control.state # "working"
          /\ \/ /\ control'.open /\ control'.asked /\ control'.state = "idle"
                /\ control'.step = control.step
             \/ control'.open = FALSE /\ control'.state = "working" /\ control'.step = "run"
      BY <1>0, <1>3, <2>3, ControlFields DEF Click, Run
    <3>2. ControlOK'
      BY <1>0, <3>1 DEF ControlOK
    <3> QED
      BY <1>0, <1>2, <2>1, <3>1, <3>2
  <2> QED
    BY <2>2, <2>3
<1>4. CASE Cancel
  <2>1. /\ control' \in ControlType /\ control'.saved = control.saved /\ control'.open = FALSE
        /\ control'.state = control.state /\ control'.step = control.step
    BY <1>0, <1>4, ControlFields DEF Cancel, ControlType
  <2>2. ControlOK'
    BY <1>0, <1>4, <2>1 DEF Cancel, ControlOK
  <2> QED
    BY <1>0, <1>2, <1>4, <2>1, <2>2 DEF Cancel
<1>5. CASE Confirm
  <2>1. /\ control' \in ControlType /\ control'.saved = control.saved
        /\ control'.state = "working" /\ control'.step = "run"
    BY <1>0, <1>5, ControlFields DEF Confirm, Run, ControlType
  <2>2. ControlOK'
    BY <1>0, <1>5, <2>1 DEF Confirm, ControlOK
  <2> QED
    BY <1>0, <1>2, <1>5, <2>1, <2>2 DEF Confirm
<1>6. CASE RunAnswers
  <2>1. CASE Touch /\ AfterSave([control EXCEPT !.open = FALSE, !.saved = clock + 1])
    <3>1. /\ control' \in ControlType /\ control'.saved = clock + 1 /\ control'.open = FALSE
          /\ control'.state = "working" /\ control'.step = "refresh"
          /\ clock' = clock + 1 /\ Request("refresh", 0)
      <4> DEFINE saving == [control EXCEPT !.open = FALSE, !.saved = clock + 1]
      <4>1. /\ saving \in ControlType /\ saving.saved = clock + 1 /\ saving.open = FALSE
        <5>1. clock + 1 \in Nat
          BY <1>0
        <5> QED
          BY <1>0, <5>1, ControlFields DEF ControlType
      <4>2. control' = [saving EXCEPT !.state = "working", !.step = "refresh"]
        BY <2>1 DEF AfterSave, RefreshValues
      <4> HIDE DEF saving
      <4>3. /\ control' \in ControlType /\ control'.saved = clock + 1 /\ control'.open = FALSE
            /\ control'.state = "working" /\ control'.step = "refresh"
        BY <4>1, <4>2, ControlFields DEF ControlType
      <4> QED
        BY <2>1, <4>3 DEF AfterSave, RefreshValues, Touch
    <3>2. ControlOK' /\ fetches' \in [Fetches -> FetchType]
      BY <1>0, <3>1, RefreshStarts DEF ControlOK
    <3> QED
      BY <1>0, <1>2, <1>6, <3>1, <3>2 DEF RunAnswers
  <2>2. CASE /\ Touch \/ UNCHANGED clock
             /\ control' = [control EXCEPT !.state = "error", !.open = FALSE, !.step = "none"]
             /\ UNCHANGED fetches
    <3>1. /\ control' \in ControlType /\ control'.saved = control.saved /\ control'.open = FALSE
          /\ control'.state = "error" /\ control'.step = "none"
          /\ clock' \in {clock, clock + 1}
      BY <1>0, <2>2, ControlFields DEF Touch, ControlType
    <3>2. ControlOK'
      <4>1. control.saved <= clock' /\ control.step = "run"
        BY <1>0, <1>6, <3>1, ControlFields DEF ControlOK, RunAnswers
      <4> QED
        BY <1>0, <2>2, <3>1, <4>1 DEF ControlOK
    <3> QED
      BY <1>0, <1>2, <1>6, <2>2, <3>1, <3>2 DEF RunAnswers
  <2> QED
    BY <1>6, <2>1, <2>2 DEF RunAnswers
<1>7. CASE RefreshAnswers
  <2>1. /\ control' \in ControlType /\ control'.saved = control.saved
        /\ control'.open = control.open /\ control'.step = "none"
        /\ control'.state \in {"success", "refresh-error"}
    BY <1>0, <1>7, ControlFields DEF RefreshAnswers, ControlType
  <2>2. ControlOK' /\ fetches' \in [Fetches -> FetchType]
    <3>1. fetches' \in [Fetches -> FetchType] /\ fetches'["refresh"].stage = "none"
      BY <1>0, <1>7, RefreshStarts DEF RefreshAnswers
    <3>2. control.step = "refresh" /\ UNCHANGED clock
      BY <1>0, <1>7 DEF RefreshAnswers, ControlOK
    <3> QED
      BY <1>0, <2>1, <3>1, <3>2 DEF ControlOK
  <2> QED
    BY <1>0, <1>1, <1>2, <1>7, <2>1, <2>2 DEF RefreshAnswers, ShowFirst
<1> QED
  BY <1>3, <1>4, <1>5, <1>6, <1>7

\* The lists and the control begin in order.
LEMMA InitPagesInv == PagesInit => PagesInv
<1> SUFFICES ASSUME PagesInit PROVE PagesInv
  OBVIOUS
<1>1. Cardinality(Items) \in Nat
  BY PagesAssumption, FS_CardinalityType
<1>2. KeysOK
  BY <1>1 DEF PagesInit, KeysOK
<1>3. NoFetch.stage = "none"
  BY DEF NoFetch
<1>4. fetches \in [Fetches -> FetchType] /\ fetches["refresh"].stage = "none"
  BY <1>3, NoFetchType DEF PagesInit, Fetches
<1>5. /\ control \in ControlType /\ control.open = FALSE /\ control.saved = 0
      /\ control.state = "idle" /\ control.step = "none"
  <2>1. PICK way \in {"confirmed", "direct"} :
            control = [kind |-> way, open |-> FALSE, state |-> "idle", asked |-> FALSE,
                       step |-> "none", saved |-> 0]
    BY DEF PagesInit
  <2> QED
    BY <2>1 DEF ControlType
<1>6. clock \in Nat /\ rows \in Lists /\ cursor \in Nat /\ readAt \in Nat
  BY <1>1, NoFetchType DEF PagesInit
<1> QED
  BY <1>2, <1>4, <1>5, <1>6 DEF PagesInv, PagesTypeOK, ControlOK

\* Every step keeps the invariant.
LEMMA PagesStep == PagesInv /\ [PagesNext]_pagesVars => PagesInv'
<1> SUFFICES ASSUME PagesInv, [PagesNext]_pagesVars PROVE PagesInv'
  OBVIOUS
<1>1. CASE UNCHANGED pagesVars
  BY <1>1 DEF PagesInv, PagesTypeOK, KeysOK, ControlOK, pagesVars
<1>2. CASE PagesNext
  BY <1>2, PagesFetchStep, PagesControlStep DEF PagesNext
<1> QED
  BY <1>1, <1>2

\* The invariant behind the lists and the control.
THEOREM PagesInvariant == PagesSpec => []PagesInv
BY InitPagesInv, PagesStep, PTL DEF PagesSpec

\* appendUniquePage, loadResource, loadMore: no record is shown twice, for any
\* number of records, changes of place and pages of any size.
THEOREM RecordsShownOnce == PagesSpec => []DisplayedOnce
<1>1. PagesInv => DisplayedOnce
  BY DEF PagesInv, PagesTypeOK, Lists, Distinct, DisplayedOnce
<1> QED
  BY <1>1, PagesInvariant, PTL

\* MutationConfirmation: a change is sent when it was asked for, and called
\* verified when it was read back, whatever fails or answers late.
THEOREM ControlIsHonest == PagesSpec => ControlHonest
<1>1. PagesInv /\ [PagesNext]_pagesVars =>
         [control'.step = "run" /\ control.step # "run" =>
             control.asked \/ control.kind = "direct"]_control
  <2> SUFFICES ASSUME PagesInv, PagesNext, control' # control,
                      control'.step = "run", control.step # "run"
               PROVE  control.asked \/ control.kind = "direct"
    BY DEF pagesVars
  <2>1. ControlOK /\ control \in ControlType
    BY DEF PagesInv, PagesTypeOK
  <2>2. CASE Click
    BY <2>1, <2>2, ControlFields DEF Click, ClickAfterRefreshError, RefreshValues, Run
  <2>3. CASE Confirm
    BY <2>1, <2>3, ControlFields DEF Confirm, ControlOK
  <2>4. CASE Cancel \/ RunAnswers \/ RefreshAnswers
    BY <2>1, <2>4, ControlFields
    DEF Cancel, RunAnswers, AfterSave, RefreshValues, RefreshAnswers
  <2>5. ~(control' = control)
    OBVIOUS
  <2> QED
    BY <2>2, <2>3, <2>4, <2>5
    DEF PagesNext, ServeFetch, ItemMoves, Reload, ReloadAnswers, LoadMore, PageAnswers
<1>2. PagesInv /\ [PagesNext]_pagesVars =>
         [control'.state = "success" /\ control.state # "success" =>
             readAt' >= control'.saved]_<<control, readAt>>
  <2> SUFFICES ASSUME PagesInv, PagesNext,
                      control'.state = "success", control.state # "success"
               PROVE  readAt' >= control'.saved
    BY DEF pagesVars
  <2>1. ControlOK /\ control \in ControlType
    BY DEF PagesInv, PagesTypeOK
  <2>2. CASE Click \/ Confirm \/ Cancel \/ RunAnswers
    BY <2>1, <2>2, ControlFields
    DEF Click, ClickAfterRefreshError, RefreshValues, Run, Confirm, Cancel, RunAnswers, AfterSave
  <2>3. CASE RefreshAnswers
    <3>1. control'.saved = control.saved /\ readAt' = fetches["refresh"].read
      BY <2>1, <2>3, ControlFields DEF RefreshAnswers, ShowFirst
    <3> QED
      BY <2>1, <2>3, <3>1 DEF RefreshAnswers, ControlOK
  <2>4. control' # control
    OBVIOUS
  <2> QED
    BY <2>2, <2>3, <2>4
    DEF PagesNext, ServeFetch, ItemMoves, Reload, ReloadAnswers, LoadMore, PageAnswers
<1> QED
  BY <1>1, <1>2, PagesInvariant, PTL
  DEF PagesSpec, ControlHonest, AcceptedNotRepeated, VerifiedMeansReloaded

-------------------------------------------------------------------------------
(* Recovery of lost publications                                              *)

Rows == [state : RecStates, attemptCount : 0..MaxPublications, due : BOOLEAN]
Scans == [stage : ScanStages, batch : SUBSET Jobs, job : Jobs \cup {Nobody},
          count : 0..MaxPublications]

\* The stages of recoverRecord, in which a scan is working on one row.
Working == ScanStages \ {"idle", "list", "record"}

\* The scans that have claimed row j and not yet published.
Publishers(scans, j) == {s \in Scanners : scans[s].stage = "publish" /\ scans[s].job = j}

\* Every publication made or still to come was counted in the row.
PublicationsClaimed ==
    \A j \in Jobs :
        published[j] + Cardinality(Publishers(scan, j)) <= rec[j].attemptCount

\* What a scan has in hand.
ScanSound(t, docs) ==
    /\ t.stage \in Working => t.job \in Jobs
    /\ t.stage = "markCompleted" => docs[t.job] = "COMPLETED"

\* The inductive invariant.
RInv ==
    /\ LInv
    /\ RecoveryTypeOK
    /\ RecoveryCompletedSound
    /\ \A s \in Scanners : ScanSound(scan[s], ledger)
    /\ \A j \in Jobs : rec[j].state = "NONE" => rec[j].attemptCount = 0
    /\ PublicationsClaimed

-----------------------------------------------------------------------------
(***************************************************************************)
(* The ledger and the queue under recovery                                 *)
(***************************************************************************)
\* Publications by the API or a scan, and their faults, keep the ledger.
LEMMA QueueOnly ==
    ASSUME LInv, UNCHANGED workersAndLedger, faults' \in Nat,
           UNCHANGED queueVars \/ \E j \in Jobs : Publish(j)
    PROVE  LInv' /\ CompletedKept
<1>1. UNCHANGED <<ledger, applied, stage, runJob, runAttempts>>
  BY DEF workersAndLedger, workerVars
<1>2. LedgerTypeOK /\ QueueOK /\ ClaimsOK  BY DEF LInv
<1>3. NoNewClaim  BY <1>1 DEF NoNewClaim
<1>4. ClaimsOK'  BY <1>2, <1>3, NoNewClaimStep
<1>5. CASE UNCHANGED queueVars
  BY <1>1, <1>2, <1>4, <1>5 DEF LInv, LedgerTypeOK, QueueOK, queueVars, CompletedKept
<1>6. ASSUME NEW j \in Jobs, Publish(j) PROVE LInv' /\ CompletedKept
  <2>1. CASE jobState[j] # "missing"  BY <1>5, <1>6, <2>1 DEF Publish
  <2>2. CASE jobState[j] = "missing"
    <3>1. /\ jobState' = [jobState EXCEPT ![j] = "waiting"]
          /\ attemptsMade' = [attemptsMade EXCEPT ![j] = 0]
          /\ stalls' = [stalls EXCEPT ![j] = 0] /\ holder' = holder
      BY <1>6, <2>2 DEF Publish
    <3>2. LedgerTypeOK'
      BY <1>1, <1>2, <3>1, LimitAssumption DEF LedgerTypeOK, JobStates
    <3>3. QueueOK'
      BY <1>2, <2>2, <3>1, LimitAssumption DEF LedgerTypeOK, QueueOK
    <3> QED  BY <1>1, <1>4, <3>2, <3>3 DEF LInv, CompletedKept
  <2> QED  BY <2>1, <2>2
<1> QED  BY <1>5, <1>6

\* Every step of the recovery keeps the ledger's invariant and COMPLETED.
LEMMA LedgerSide ==
    ASSUME RInv, RecoveryNext
    PROVE  LInv' /\ CompletedKept
<1>1. LInv /\ faults \in Nat  BY DEF RInv, LInv, LedgerTypeOK
<1>2. ASSUME UNCHANGED ledgerVars PROVE LInv' /\ CompletedKept
  BY <1>1, <1>2, LInvStep, CompletedStep
<1>3. ASSUME NEW j \in Jobs, LogRequest(j) \/ BecomeDue(j) PROVE LInv' /\ CompletedKept
  BY <1>2, <1>3 DEF LogRequest, BecomeDue
<1>4. ASSUME NEW j \in Jobs, ApiPublish(j) PROVE LInv' /\ CompletedKept
  <2>1. /\ UNCHANGED workersAndLedger /\ faults' \in Nat
        /\ Publish(j) \/ UNCHANGED queueVars
    BY <1>1, <1>4 DEF ApiPublish, Fault
  <2> QED  BY <1>1, <2>1, QueueOnly
<1>5. ASSUME NEW s \in Scanners,
             \/ Discover(s) \/ ListOpen(s) \/ NextRecord(s) \/ ReadLedger(s) \/ ReadQueue(s)
             \/ Claim(s) \/ Mark(s)
      PROVE  LInv' /\ CompletedKept
  BY <1>2, <1>5 DEF Discover, ListOpen, NextRecord, ReadLedger, ReadQueue, Claim, Mark
<1>6. ASSUME NEW s \in Scanners, Republish(s) PROVE LInv' /\ CompletedKept
  <2>1. scan[s].job \in Jobs
    BY <1>6 DEF RInv, ScanSound, Republish, InScan, Working, ScanStages
  <2>2. /\ UNCHANGED workersAndLedger /\ faults' \in Nat
        /\ Publish(scan[s].job) \/ UNCHANGED queueVars
    BY <1>1, <1>6 DEF Republish, Fault
  <2>3. PICK j \in Jobs : j = scan[s].job  BY <2>1
  <2>4. Publish(j) \/ UNCHANGED queueVars  BY <2>2, <2>3 DEF Publish
  <2> QED  BY <1>1, <2>2, <2>4, QueueOnly
<1>7. ASSUME NEW s \in Scanners, MarkPublishedThrows(s) \/ AbortScan(s)
      PROVE  LInv' /\ CompletedKept
  <2>1. UNCHANGED workersAndLedger /\ UNCHANGED queueVars /\ faults' \in Nat
    BY <1>1, <1>7 DEF MarkPublishedThrows, AbortScan, Fault
  <2> QED  BY <1>1, <2>1, QueueOnly
<1>8. ASSUME WorkerSide PROVE LInv' /\ CompletedKept
  <2>1. LedgerNext  BY <1>8 DEF WorkerSide, LedgerNext
  <2> QED  BY <1>1, <2>1, LInvStep, CompletedStep
<1> QED  BY <1>3, <1>4, <1>5, <1>6, <1>7, <1>8 DEF RecoveryNext, ScanStep

-----------------------------------------------------------------------------
(***************************************************************************)
(* Rows and scans                                                          *)
(***************************************************************************)
\* An update of rows that leaves their attempts alone and calls a row
\* COMPLETED only on a completed ledger.
RowsKept(new, docs) ==
    /\ new \in [Jobs -> Rows]
    /\ \A j \in Jobs :
          /\ new[j].attemptCount = rec[j].attemptCount
          /\ new[j].state = "NONE" => rec[j].state = "NONE"
          /\ new[j].state = "COMPLETED" => docs[j] = "COMPLETED"

\* $setOnInsert creates rows without attempts.
LEMMA EnsurePendingKeeps ==
    ASSUME RInv, CompletedKept, NEW js \in SUBSET Jobs
    PROVE  RowsKept(rec, ledger') /\ RowsKept(EnsurePending(js), ledger')
<1>1. rec \in [Jobs -> Rows]  BY DEF RInv, RecoveryTypeOK, Rows
<1>2. RowsKept(rec, ledger')
  BY <1>1 DEF RowsKept, CompletedKept, RInv, RecoveryCompletedSound
<1>3. [state |-> "PENDING", attemptCount |-> 0, due |-> TRUE] \in Rows
  BY DEF Rows, RecStates, MaxPublications
<1>4. ASSUME NEW j \in Jobs
      PROVE  /\ EnsurePending(js)[j] \in Rows
             /\ EnsurePending(js)[j].attemptCount = rec[j].attemptCount
             /\ EnsurePending(js)[j].state = "NONE" => rec[j].state = "NONE"
             /\ EnsurePending(js)[j].state = "COMPLETED" => ledger'[j] = "COMPLETED"
  <2>1. CASE j \in js /\ rec[j].state = "NONE"
    <3>1. EnsurePending(js)[j] = [state |-> "PENDING", attemptCount |-> 0, due |-> TRUE]
      BY <2>1 DEF EnsurePending
    <3> QED  BY <1>3, <2>1, <3>1 DEF RInv
  <2>2. CASE ~(j \in js /\ rec[j].state = "NONE")
    <3>1. EnsurePending(js)[j] = rec[j]  BY <2>2 DEF EnsurePending
    <3> QED  BY <1>1, <1>2, <3>1 DEF RowsKept
  <2> QED  BY <2>1, <2>2
<1>5. EnsurePending(js) \in [Jobs -> Rows]
  BY <1>4 DEF EnsurePending
<1> QED  BY <1>2, <1>4, <1>5 DEF RowsKept

\* What one update of a row does.
LEMMA RowUpdate ==
    ASSUME RInv, CompletedKept, NEW j \in Jobs, NEW next \in RecStates \ {"NONE"},
           NEW due \in BOOLEAN, next = "COMPLETED" => ledger'[j] = "COMPLETED"
    PROVE  /\ RowsKept([rec EXCEPT ![j].state = next, ![j].due = due], ledger')
           /\ rec[j].state \in Open => RowsKept([rec EXCEPT ![j].due = due], ledger')
<1> DEFINE new == [rec EXCEPT ![j].state = next, ![j].due = due]
           later == [rec EXCEPT ![j].due = due]
<1>1. rec \in [Jobs -> Rows] /\ RowsKept(rec, ledger')
  BY EnsurePendingKeeps DEF RInv, RecoveryTypeOK, Rows
<1>2. /\ new \in [Jobs -> Rows] /\ later \in [Jobs -> Rows]
      /\ new[j].state = next /\ new[j].attemptCount = rec[j].attemptCount
      /\ later[j].state = rec[j].state /\ later[j].attemptCount = rec[j].attemptCount
      /\ \A k \in Jobs \ {j} : new[k] = rec[k] /\ later[k] = rec[k]
  BY <1>1 DEF Rows
<1> HIDE DEF new, later
<1>3. RowsKept(new, ledger')  BY <1>1, <1>2 DEF RowsKept
<1>4. RowsKept(later, ledger')  BY <1>1, <1>2 DEF RowsKept
<1> QED  BY <1>3, <1>4 DEF new, later

\* How the scans about to publish row j change with scan s.
LEMMA PublisherCount ==
    ASSUME RInv, NEW s \in Scanners, NEW t \in Scans, scan' = [scan EXCEPT ![s] = t],
           NEW j \in Jobs
    PROVE  LET c == Cardinality(Publishers(scan, j))
               d == Cardinality(Publishers(scan', j))
               claims == t.stage = "publish" /\ t.job = j IN
           /\ c \in Nat /\ d \in Nat /\ d <= c + 1
           /\ ~claims => d <= c
           /\ ~claims /\ scan[s].stage = "publish" /\ scan[s].job = j => d + 1 <= c
<1>1. scan \in [Scanners -> Scans]  BY DEF RInv, RecoveryTypeOK, Scans
<1>2. PICK P : P = Publishers(scan, j)  OBVIOUS
<1>3. PICK Q : Q = Publishers(scan', j)  OBVIOUS
<1>4. P \subseteq Scanners /\ IsFiniteSet(P)
  <2>1. P \subseteq Scanners  BY <1>2 DEF Publishers
  <2> QED  BY <2>1, ScannerAssumption, FS_Subset
<1>5. Q = IF t.stage = "publish" /\ t.job = j THEN P \cup {s} ELSE P \ {s}
  <2>1. scan'[s] = t /\ \A r \in Scanners \ {s} : scan'[r] = scan[r]  BY <1>1
  <2> QED  BY <1>2, <1>3, <2>1 DEF Publishers
<1>6. /\ Cardinality(P) \in Nat /\ IsFiniteSet(P \ {s}) /\ IsFiniteSet(P \cup {s})
      /\ Cardinality(P \cup {s}) = IF s \in P THEN Cardinality(P) ELSE Cardinality(P) + 1
      /\ Cardinality(P \ {s}) = IF s \in P THEN Cardinality(P) - 1 ELSE Cardinality(P)
  BY <1>4, FS_CardinalityType, FS_AddElement, FS_RemoveElement
<1>7. Cardinality(Q) \in Nat  BY <1>5, <1>6, FS_CardinalityType
<1>8. s \in P <=> scan[s].stage = "publish" /\ scan[s].job = j
  BY <1>2 DEF Publishers
<1>9. /\ Cardinality(P) \in Nat /\ Cardinality(Q) \in Nat /\ Cardinality(Q) <= Cardinality(P) + 1
      /\ ~(t.stage = "publish" /\ t.job = j) => Cardinality(Q) <= Cardinality(P)
      /\ ~(t.stage = "publish" /\ t.job = j) /\ scan[s].stage = "publish" /\ scan[s].job = j
            => Cardinality(Q) + 1 <= Cardinality(P)
  BY <1>5, <1>6, <1>7, <1>8
<1> QED  BY <1>2, <1>3, <1>9

\* A step of one scan keeps the invariant if its rows, its publications and
\* what it has in hand are sound.
LEMMA OneScan ==
    ASSUME RInv, LInv', CompletedKept, NEW s \in Scanners, NEW t \in Scans,
           scan' = [scan EXCEPT ![s] = t], ScanSound(t, ledger'),
           UNCHANGED <<logged, apiDone>>,
           rec' \in [Jobs -> Rows],
           \A j \in Jobs : rec'[j].state = "COMPLETED" => ledger'[j] = "COMPLETED",
           \A j \in Jobs : rec'[j].state = "NONE" => rec'[j].attemptCount = 0,
           published' \in [Jobs -> Nat], PublicationsClaimed'
    PROVE  RInv'
<1>1. scan \in [Scanners -> Scans] /\ logged \subseteq Jobs /\ apiDone \subseteq logged
      /\ ledger \in [Jobs -> LedgerStates]
  BY DEF RInv, RecoveryTypeOK, Scans, LInv, LedgerTypeOK
<1>2. \A r \in Scanners : ScanSound(scan'[r], ledger')
  <2> SUFFICES ASSUME NEW r \in Scanners PROVE ScanSound(scan'[r], ledger')
    OBVIOUS
  <2>1. CASE r = s  BY <1>1, <2>1
  <2>2. CASE r # s
    <3>1. scan'[r] = scan[r] /\ ScanSound(scan[r], ledger)  BY <1>1, <2>2 DEF RInv
    <3>2. scan[r].stage = "markCompleted" => scan[r].stage \in Working
      BY DEF Working, ScanStages
    <3> QED  BY <3>1, <3>2 DEF ScanSound, CompletedKept
  <2> QED  BY <2>1, <2>2
<1>3. RecoveryTypeOK'
  <2>1. LedgerTypeOK'  BY DEF LInv
  <2>2. scan' \in [Scanners -> Scans]  BY <1>1
  <2> QED  BY <1>1, <2>1, <2>2 DEF RecoveryTypeOK, Rows, Scans
<1>4. RecoveryCompletedSound'  BY DEF RecoveryCompletedSound
<1> QED  BY <1>2, <1>3, <1>4 DEF RInv

\* The common case: rows keep their attempts and the scan does not claim.
LEMMA QuietScan ==
    ASSUME RInv, LInv', CompletedKept, NEW s \in Scanners, NEW t \in Scans,
           scan' = [scan EXCEPT ![s] = t], ScanSound(t, ledger'),
           UNCHANGED <<logged, apiDone, published>>,
           RowsKept(rec', ledger'), t.stage # "publish"
    PROVE  RInv'
<1>1. published \in [Jobs -> Nat] /\ rec \in [Jobs -> Rows]
  BY DEF RInv, RecoveryTypeOK, Rows
<1>2. ASSUME NEW j \in Jobs
      PROVE  published'[j] + Cardinality(Publishers(scan', j)) <= rec'[j].attemptCount
  <2>1. PICK c, d : c = Cardinality(Publishers(scan, j)) /\ d = Cardinality(Publishers(scan', j))
    OBVIOUS
  <2>2. c \in Nat /\ d \in Nat /\ d <= c  BY <2>1, PublisherCount
  <2>3. published[j] + c <= rec[j].attemptCount  BY <2>1 DEF RInv, PublicationsClaimed
  <2>4. rec'[j].attemptCount = rec[j].attemptCount /\ rec[j].attemptCount \in Nat
    BY <1>1 DEF RowsKept, Rows
  <2> QED  BY <1>1, <2>1, <2>2, <2>3, <2>4
<1>3. PublicationsClaimed'  BY <1>2 DEF PublicationsClaimed
<1>4. \A j \in Jobs : rec'[j].state = "NONE" => rec'[j].attemptCount = 0
  BY DEF RowsKept, RInv
<1> QED  BY <1>1, <1>3, <1>4, OneScan DEF RowsKept

\* A step that moves no scan keeps the invariant if it keeps the rows.
LEMMA NoScan ==
    ASSUME RInv, LInv', CompletedKept, UNCHANGED <<scan, published>>,
           RowsKept(rec', ledger'), logged' \subseteq Jobs, apiDone' \subseteq logged'
    PROVE  RInv'
<1>1. \A r \in Scanners : ScanSound(scan'[r], ledger')
  <2> SUFFICES ASSUME NEW r \in Scanners PROVE ScanSound(scan[r], ledger')
    OBVIOUS
  <2>1. ScanSound(scan[r], ledger)  BY DEF RInv
  <2>2. scan[r].stage = "markCompleted" => scan[r].stage \in Working
    BY DEF Working, ScanStages
  <2> QED  BY <2>1, <2>2 DEF ScanSound, CompletedKept
<1>2. RecoveryTypeOK'
  BY DEF LInv, RInv, RecoveryTypeOK, RowsKept, Rows
<1>3. RecoveryCompletedSound'  BY DEF RecoveryCompletedSound, RowsKept
<1>4. \A j \in Jobs : rec'[j].state = "NONE" => rec'[j].attemptCount = 0
  BY DEF RowsKept, RInv
<1>5. PublicationsClaimed'
  BY DEF PublicationsClaimed, RInv, RowsKept
<1> QED  BY <1>1, <1>2, <1>3, <1>4, <1>5 DEF RInv

-----------------------------------------------------------------------------
(***************************************************************************)
(* The invariant                                                           *)
(***************************************************************************)
\* Nothing is logged or scanned at first.
LEMMA InitRInv == RecoveryInit => RInv
<1> SUFFICES ASSUME RecoveryInit PROVE RInv
  OBVIOUS
<1>1. LInv  BY InitLInv DEF RecoveryInit
<1>2. RecoveryTypeOK
  BY <1>1 DEF RecoveryInit, RecoveryTypeOK, LInv, RecStates, ScanStages, MaxPublications
<1>3. RecoveryCompletedSound /\ \A s \in Scanners : ScanSound(scan[s], ledger)
  BY DEF RecoveryInit, RecoveryCompletedSound, ScanSound, Working
<1>4. \A j \in Jobs : Publishers(scan, j) = {} /\ rec[j].attemptCount = 0 /\ published[j] = 0
  BY DEF RecoveryInit, Publishers
<1>5. PublicationsClaimed  BY <1>4, FS_EmptySet DEF PublicationsClaimed
<1> QED  BY <1>1, <1>2, <1>3, <1>4, <1>5 DEF RInv

\* The steps of runEnqueueRecoveryScan that neither claim nor publish.
LEMMA QuietSteps ==
    ASSUME RInv, LInv', CompletedKept, NEW s \in Scanners,
           \/ Discover(s) \/ ListOpen(s) \/ NextRecord(s) \/ ReadLedger(s) \/ ReadQueue(s)
           \/ Mark(s) \/ MarkPublishedThrows(s) \/ AbortScan(s)
    PROVE  RInv'
<1>1. /\ scan \in [Scanners -> Scans] /\ scan[s] \in Scans /\ ScanSound(scan[s], ledger)
      /\ rec \in [Jobs -> Rows] /\ logged \in SUBSET Jobs
      /\ ledger \in [Jobs -> LedgerStates] /\ jobState \in [Jobs -> JobStates]
  BY DEF RInv, RecoveryTypeOK, Scans, Rows, LInv, LedgerTypeOK
<1>2. RowsKept(rec, ledger') /\ RowsKept(EnsurePending(logged), ledger')
  BY <1>1, EnsurePendingKeeps
<1>3. ASSUME NEW next \in ScanStages, ScanGoto(s, next), next # "publish",
             next \in Working => scan[s].stage \in Working,
             next = "markCompleted" => ledger'[scan[s].job] = "COMPLETED",
             RowsKept(rec', ledger'), UNCHANGED <<logged, apiDone, published>>
      PROVE  RInv'
  <2> DEFINE t == [scan[s] EXCEPT !.stage = next]
  <2>1. /\ t \in Scans /\ t.stage = next /\ t.job = scan[s].job /\ t.batch = scan[s].batch
    BY <1>1 DEF Scans
  <2>2. scan' = [scan EXCEPT ![s] = t]  BY <1>1, <1>3 DEF ScanGoto
  <2> HIDE DEF t
  <2>3. ScanSound(t, ledger')  BY <1>1, <1>3, <2>1 DEF ScanSound
  <2> QED  BY <1>3, <2>1, <2>2, <2>3, QuietScan
<1>4. CASE Discover(s)
  <2>1. "list" \in ScanStages /\ "list" \notin Working  BY DEF ScanStages, Working
  <2> QED  BY <1>2, <1>3, <1>4, <2>1 DEF Discover
<1>5. CASE ListOpen(s)
  <2>1. PICK batch \in SUBSET Jobs :
           scan' = [scan EXCEPT ![s].stage = "record", ![s].batch = batch]
    BY <1>5 DEF ListOpen, DueRows
  <2> DEFINE t == [scan[s] EXCEPT !.stage = "record", !.batch = batch]
  <2>2. t \in Scans /\ t.stage = "record"  BY <1>1 DEF Scans, ScanStages
  <2>3. scan' = [scan EXCEPT ![s] = t]  BY <1>1, <2>1
  <2> HIDE DEF t
  <2>4. ScanSound(t, ledger')  BY <2>2 DEF ScanSound, Working
  <2>5. UNCHANGED <<logged, apiDone, published>> /\ rec' = rec  BY <1>5 DEF ListOpen
  <2> QED  BY <1>2, <2>2, <2>3, <2>4, <2>5, QuietScan
<1>6. CASE NextRecord(s)
  <2>1. UNCHANGED <<logged, apiDone, published>> /\ rec' = rec  BY <1>6 DEF NextRecord
  <2>2. ASSUME NEW j \in scan[s].batch,
               scan' = [scan EXCEPT ![s].stage = "ledger", ![s].job = j, ![s].batch = @ \ {j}]
        PROVE  RInv'
    <3> DEFINE t == [scan[s] EXCEPT !.stage = "ledger", !.job = j, !.batch = @ \ {j}]
    <3>1. j \in Jobs /\ scan[s].batch \ {j} \in SUBSET Jobs  BY <1>1 DEF Scans
    <3>2. t \in Scans /\ t.stage = "ledger" /\ t.job = j /\ t.batch = scan[s].batch \ {j}
      BY <1>1, <3>1 DEF Scans, ScanStages
    <3>3. scan' = [scan EXCEPT ![s] = t]  BY <1>1, <2>2
    <3> HIDE DEF t
    <3>4. ScanSound(t, ledger')  BY <3>1, <3>2 DEF ScanSound
    <3> QED  BY <1>2, <2>1, <3>2, <3>3, <3>4, QuietScan
  <2>3. CASE ScanGoto(s, "idle")
    <3>1. "idle" \in ScanStages /\ "idle" \notin Working  BY DEF ScanStages, Working
    <3> QED  BY <1>2, <1>3, <2>1, <2>3, <3>1
  <2> QED  BY <1>6, <2>2, <2>3 DEF NextRecord, ScanGoto
<1>7. CASE ReadLedger(s)
  <2>1. scan[s].stage = "ledger" /\ scan[s].stage \in Working
    BY <1>7 DEF ReadLedger, InScan, Working, ScanStages
  <2>2. scan[s].job \in Jobs  BY <1>1, <2>1 DEF ScanSound
  <2>3. PICK found : found = ledger[scan[s].job]  OBVIOUS
  <2>4. found \in LedgerStates /\ (found = "COMPLETED" => ledger'[scan[s].job] = "COMPLETED")
    BY <1>1, <2>2, <2>3 DEF CompletedKept
  <2>5. PICK next \in {"markCompleted", "markEnqueued", "queue"} :
           ScanGoto(s, next) /\ (next = "markCompleted" => found = "COMPLETED")
    BY <1>7, <2>3, <2>4 DEF ReadLedger, LedgerStates
  <2>6. next \in ScanStages  BY DEF ScanStages
  <2> QED  BY <1>2, <1>3, <1>7, <2>1, <2>4, <2>5, <2>6 DEF ReadLedger
<1>8. CASE ReadQueue(s)
  <2>1. scan[s].stage \in Working
    BY <1>8 DEF ReadQueue, InScan, Working, ScanStages
  <2>2. PICK next \in {"markFailed", "claim", "markEnqueued"} : ScanGoto(s, next)
    BY <1>8 DEF ReadQueue
  <2>3. next \in ScanStages  BY DEF ScanStages
  <2> QED  BY <1>2, <1>3, <1>8, <2>1, <2>2, <2>3 DEF ReadQueue
<1>9. CASE Mark(s)
  <2>1. /\ scan[s].stage \in {"markEnqueued", "markPublished", "markPendingRetry",
                              "markCompleted", "markFailed"}
        /\ scan[s].stage \in Working
    BY <1>9 DEF Mark, MarkOf, Working, ScanStages
  <2>2. PICK next : next = MarkOf[scan[s].stage]  OBVIOUS
  <2>3. next \in RecStates \ {"NONE"} /\ (next = "COMPLETED" => scan[s].stage = "markCompleted")
    BY <2>1, <2>2 DEF MarkOf, RecStates
  <2>4. PICK j \in Jobs : j = scan[s].job  BY <1>1, <2>1 DEF ScanSound
  <2>5. next = "COMPLETED" => ledger'[j] = "COMPLETED"
    BY <1>1, <2>3, <2>4 DEF ScanSound, CompletedKept
  <2>6. rec' = [rec EXCEPT ![j].state = next, ![j].due = FALSE]
    BY <1>9, <2>2, <2>4 DEF Mark, WriteMark
  <2>7. RowsKept(rec', ledger')  BY <2>3, <2>5, <2>6, RowUpdate
  <2>8. "record" \in ScanStages /\ "record" \notin Working  BY DEF ScanStages, Working
  <2> QED  BY <1>3, <1>9, <2>7, <2>8 DEF Mark
<1>10. CASE MarkPublishedThrows(s)
  <2>1. scan[s].stage \in Working
    BY <1>10 DEF MarkPublishedThrows, InScan, Working, ScanStages
  <2>2. PICK j \in Jobs : j = scan[s].job  BY <1>1, <2>1 DEF ScanSound
  <2>3. rec' = rec \/ rec' = [rec EXCEPT ![j].state = "ENQUEUED", ![j].due = FALSE]
    BY <1>10, <2>2 DEF MarkPublishedThrows
  <2>4. "ENQUEUED" \in RecStates \ {"NONE"}  BY DEF RecStates
  <2>5. RowsKept(rec', ledger')  BY <1>2, <2>3, <2>4, RowUpdate
  <2>6. PICK next \in {"markFailed", "markPendingRetry"} : ScanGoto(s, next)
    BY <1>10 DEF MarkPublishedThrows, AfterFailure
  <2>7. next \in ScanStages  BY DEF ScanStages
  <2> QED  BY <1>3, <1>10, <2>1, <2>5, <2>6, <2>7 DEF MarkPublishedThrows
<1>11. CASE AbortScan(s)
  <2> DEFINE t == [scan[s] EXCEPT !.stage = "idle", !.batch = {}]
  <2>1. t \in Scans /\ t.stage = "idle"  BY <1>1 DEF Scans, ScanStages
  <2>2. scan' = [scan EXCEPT ![s] = t]  BY <1>1, <1>11 DEF AbortScan
  <2> HIDE DEF t
  <2>3. ScanSound(t, ledger')  BY <2>1 DEF ScanSound, Working
  <2>4. UNCHANGED <<logged, apiDone, published>> /\ rec' = rec  BY <1>11 DEF AbortScan
  <2> QED  BY <1>2, <2>1, <2>2, <2>3, <2>4, QuietScan
<1> QED  BY <1>4, <1>5, <1>6, <1>7, <1>8, <1>9, <1>10, <1>11

\* claimAttempt counts the publication it allows.
LEMMA ClaimStep ==
    ASSUME RInv, LInv', CompletedKept, NEW s \in Scanners, Claim(s)
    PROVE  RInv'
<1>1. /\ scan \in [Scanners -> Scans] /\ scan[s] \in Scans /\ ScanSound(scan[s], ledger)
      /\ rec \in [Jobs -> Rows] /\ published \in [Jobs -> Nat]
  BY DEF RInv, RecoveryTypeOK, Scans, Rows
<1>2. scan[s].stage = "claim" /\ scan[s].stage \in Working
  BY DEF Claim, InScan, Working, ScanStages
<1>3. PICK j \in Jobs : j = scan[s].job  BY <1>1, <1>2 DEF ScanSound
<1>4. UNCHANGED <<logged, apiDone, published>>  BY DEF Claim
<1>5. ASSUME ScanGoto(s, "record"), rec' = rec
      PROVE  RInv'
  <2> DEFINE t == [scan[s] EXCEPT !.stage = "record"]
  <2>1. t \in Scans /\ t.stage = "record"  BY <1>1 DEF Scans, ScanStages
  <2>2. scan' = [scan EXCEPT ![s] = t]  BY <1>1, <1>5 DEF ScanGoto
  <2> HIDE DEF t
  <2>3. ScanSound(t, ledger')  BY <2>1 DEF ScanSound, Working
  <2>4. {} \in SUBSET Jobs  OBVIOUS
  <2>5. RowsKept(rec', ledger')  BY <1>5, <2>4, EnsurePendingKeeps
  <2> QED  BY <1>4, <2>1, <2>2, <2>3, <2>5, QuietScan
<1>6. PICK n : n = rec[j].attemptCount + 1  OBVIOUS
<1>7. ASSUME MayClaim(j),
             rec' = [rec EXCEPT ![j] = [state |-> "PENDING", attemptCount |-> n, due |-> FALSE]],
             scan' = [scan EXCEPT ![s].stage = "publish", ![s].count = n]
      PROVE  RInv'
  <2> DEFINE t == [scan[s] EXCEPT !.stage = "publish", !.count = n]
             row == [state |-> "PENDING", attemptCount |-> n, due |-> FALSE]
  <2>1. n \in 0..MaxPublications /\ n \in Nat /\ rec[j].attemptCount \in Nat
    BY <1>1, <1>6, <1>7 DEF MayClaim, Rows, MaxPublications
  <2>2. t \in Scans /\ t.stage = "publish" /\ t.job = j /\ t.batch = scan[s].batch
    BY <1>1, <1>3, <2>1 DEF Scans, ScanStages
  <2>3. row \in Rows /\ row.state = "PENDING" /\ row.attemptCount = n
    BY <2>1 DEF Rows, RecStates
  <2>4. scan' = [scan EXCEPT ![s] = t]  BY <1>1, <1>7
  <2>5. rec' = [rec EXCEPT ![j] = row]  BY <1>7
  <2> HIDE DEF t, row
  <2>6. rec' \in [Jobs -> Rows] /\ rec'[j] = row /\ \A k \in Jobs \ {j} : rec'[k] = rec[k]
    BY <1>1, <2>3, <2>5
  <2>7. ScanSound(t, ledger')  BY <1>1, <1>2, <1>3, <2>2 DEF ScanSound
  <2>8. \A k \in Jobs : rec'[k].state = "COMPLETED" => ledger'[k] = "COMPLETED"
    BY <2>3, <2>6 DEF CompletedKept, RInv, RecoveryCompletedSound
  <2>9. \A k \in Jobs : rec'[k].state = "NONE" => rec'[k].attemptCount = 0
    BY <2>3, <2>6 DEF RInv
  <2>10. ASSUME NEW k \in Jobs
         PROVE  published'[k] + Cardinality(Publishers(scan', k)) <= rec'[k].attemptCount
    <3>1. PICK c, d : c = Cardinality(Publishers(scan, k)) /\ d = Cardinality(Publishers(scan', k))
      OBVIOUS
    <3>2. c \in Nat /\ d \in Nat /\ d <= c + 1 /\ (k # j => d <= c)
      BY <2>2, <2>4, <3>1, PublisherCount
    <3>3. published[k] + c <= rec[k].attemptCount  BY <3>1 DEF RInv, PublicationsClaimed
    <3>4. CASE k = j
      <4>1. rec'[k].attemptCount = rec[k].attemptCount + 1  BY <1>6, <2>3, <2>6, <3>4
      <4> QED  BY <1>1, <1>4, <2>1, <3>1, <3>2, <3>3, <3>4, <4>1
    <3>5. CASE k # j
      <4>1. rec'[k].attemptCount = rec[k].attemptCount /\ rec[k].attemptCount \in Nat
        BY <1>1, <2>6, <3>5 DEF Rows
      <4> QED  BY <1>1, <1>4, <3>1, <3>2, <3>3, <3>5, <4>1
    <3> QED  BY <3>4, <3>5
  <2>11. PublicationsClaimed'  BY <2>10 DEF PublicationsClaimed
  <2> QED  BY <1>1, <1>4, <2>2, <2>4, <2>6, <2>7, <2>8, <2>9, <2>11, OneScan
<1> QED  BY <1>3, <1>5, <1>6, <1>7 DEF Claim, MayClaim

\* enqueueRecoveredJob uses the claim up, whether it throws or not.
LEMMA RepublishStep ==
    ASSUME RInv, LInv', CompletedKept, NEW s \in Scanners, Republish(s)
    PROVE  RInv'
<1>1. /\ scan \in [Scanners -> Scans] /\ scan[s] \in Scans /\ ScanSound(scan[s], ledger)
      /\ rec \in [Jobs -> Rows] /\ published \in [Jobs -> Nat]
  BY DEF RInv, RecoveryTypeOK, Scans, Rows
<1>2. scan[s].stage = "publish" /\ scan[s].stage \in Working
  BY DEF Republish, InScan, Working, ScanStages
<1>3. PICK j \in Jobs : j = scan[s].job  BY <1>1, <1>2 DEF ScanSound
<1>4. UNCHANGED <<logged, apiDone>> /\ rec' = rec  BY DEF Republish
<1>5. published' = [published EXCEPT ![j] = @ + 1]  BY <1>3 DEF Republish
<1>6. PICK next \in {"markPublished", "markFailed", "markPendingRetry"} : ScanGoto(s, next)
  BY DEF Republish, AfterFailure
<1> DEFINE t == [scan[s] EXCEPT !.stage = next]
<1>7. t \in Scans /\ t.stage = next /\ t.job = j /\ t.batch = scan[s].batch
  BY <1>1, <1>3 DEF Scans, ScanStages
<1>8. scan' = [scan EXCEPT ![s] = t]  BY <1>1, <1>6 DEF ScanGoto
<1> HIDE DEF t
<1>9. ScanSound(t, ledger')  BY <1>1, <1>2, <1>3, <1>7 DEF ScanSound
<1>10. published' \in [Jobs -> Nat] /\ published'[j] = published[j] + 1
       /\ \A k \in Jobs \ {j} : published'[k] = published[k]
  BY <1>1, <1>5
<1>11. ASSUME NEW k \in Jobs
       PROVE  published'[k] + Cardinality(Publishers(scan', k)) <= rec'[k].attemptCount
  <2>1. PICK c, d : c = Cardinality(Publishers(scan, k)) /\ d = Cardinality(Publishers(scan', k))
    OBVIOUS
  <2>2. c \in Nat /\ d \in Nat /\ d <= c /\ (k = j => d + 1 <= c)
    BY <1>2, <1>3, <1>7, <1>8, <2>1, PublisherCount
  <2>3. published[k] + c <= rec[k].attemptCount  BY <2>1 DEF RInv, PublicationsClaimed
  <2>4. published[k] \in Nat /\ rec[k].attemptCount \in Nat  BY <1>1 DEF Rows
  <2>5. published'[k] + d <= published[k] + c
    BY <1>10, <2>2, <2>4
  <2>6. published'[k] \in Nat  BY <1>10
  <2> QED  BY <1>4, <2>1, <2>2, <2>3, <2>4, <2>5, <2>6
<1>12. PublicationsClaimed'  BY <1>11 DEF PublicationsClaimed
<1>13. \A k \in Jobs : rec'[k].state = "COMPLETED" => ledger'[k] = "COMPLETED"
  BY <1>4 DEF CompletedKept, RInv, RecoveryCompletedSound
<1>14. \A k \in Jobs : rec'[k].state = "NONE" => rec'[k].attemptCount = 0
  BY <1>4 DEF RInv
<1> QED  BY <1>1, <1>4, <1>7, <1>8, <1>9, <1>10, <1>12, <1>13, <1>14, OneScan

\* Every step keeps the invariant.
LEMMA RInvStep == RInv /\ [RecoveryNext]_recoveryVars => RInv'
<1> SUFFICES ASSUME RInv, [RecoveryNext]_recoveryVars PROVE RInv'
  OBVIOUS
<1>1. logged \in SUBSET Jobs /\ apiDone \subseteq logged /\ rec \in [Jobs -> Rows]
  BY DEF RInv, RecoveryTypeOK, Rows
<1>2. CASE UNCHANGED recoveryVars
  <2>1. UNCHANGED ledgerVars  BY <1>2 DEF recoveryVars
  <2>2. LInv' /\ CompletedKept  BY <2>1, LInvStep, CompletedStep DEF RInv
  <2>3. UNCHANGED <<logged, apiDone, rec, scan, published>>  BY <1>2 DEF recoveryVars
  <2>4. RowsKept(rec', ledger')  BY <1>1, <2>2, <2>3, EnsurePendingKeeps
  <2> QED  BY <1>1, <2>2, <2>3, <2>4, NoScan
<1>3. CASE RecoveryNext
  <2>1. LInv' /\ CompletedKept  BY <1>3, LedgerSide
  <2>2. RowsKept(rec, ledger')  BY <1>1, <2>1, EnsurePendingKeeps
  <2>3. ASSUME NEW j \in Jobs, LogRequest(j) PROVE RInv'
    <3>1. UNCHANGED <<apiDone, rec, scan, published>> /\ logged' = logged \cup {j}
      BY <2>3 DEF LogRequest
    <3> QED  BY <1>1, <2>1, <2>2, <3>1, NoScan
  <2>4. ASSUME NEW j \in Jobs, ApiPublish(j) PROVE RInv'
    <3>1. /\ UNCHANGED <<logged, scan, published>> /\ apiDone' = apiDone \cup {j}
          /\ j \in logged /\ rec' \in {rec, EnsurePending({j})}
      BY <2>4 DEF ApiPublish
    <3>2. {j} \in SUBSET Jobs  OBVIOUS
    <3>3. RowsKept(rec', ledger')  BY <2>1, <2>2, <3>1, <3>2, EnsurePendingKeeps
    <3> QED  BY <1>1, <2>1, <3>1, <3>3, NoScan
  <2>5. ASSUME NEW j \in Jobs, BecomeDue(j) PROVE RInv'
    <3>1. /\ UNCHANGED <<logged, apiDone, scan, published>> /\ rec[j].state \in Open
          /\ rec' = [rec EXCEPT ![j].due = TRUE]
      BY <2>5 DEF BecomeDue
    <3>2. "PENDING" \in RecStates \ {"NONE"}  BY DEF RecStates
    <3>3. RowsKept(rec', ledger')  BY <2>1, <3>1, <3>2, RowUpdate
    <3> QED  BY <1>1, <2>1, <3>1, <3>3, NoScan
  <2>6. ASSUME WorkerSide PROVE RInv'
    <3>1. UNCHANGED <<logged, apiDone, rec, scan, published>>  BY <2>6 DEF WorkerSide
    <3> QED  BY <1>1, <2>1, <2>2, <3>1, NoScan
  <2>7. ASSUME NEW s \in Scanners, ScanStep(s) \/ MarkPublishedThrows(s) \/ AbortScan(s)
        PROVE  RInv'
    BY <2>1, <2>7, QuietSteps, ClaimStep, RepublishStep DEF ScanStep
  <2> QED  BY <1>3, <2>3, <2>4, <2>5, <2>6, <2>7 DEF RecoveryNext
<1> QED  BY <1>2, <1>3

\* The inductive invariant holds however scans, workers and faults interleave.
THEOREM RecoveryInvariant == RecoverySpec => []RInv
  BY InitRInv, RInvStep, PTL DEF RecoverySpec

\* A recovery row says COMPLETED only when the business ledger does, and
\* overlapping scans together publish a scope at most three times
\* (recoverRecord, claimAttempt).
THEOREM RecoveryIsSound == RecoverySpec => []RecoverySound
<1>1. ASSUME RInv PROVE RecoverySound
  <2>1. ASSUME NEW j \in Jobs PROVE published[j] <= MaxPublications
    <3>1. PICK c : c = Cardinality(Publishers(scan, j))  OBVIOUS
    <3>2. c \in Nat
      <4>1. Publishers(scan, j) \subseteq Scanners  BY DEF Publishers
      <4> QED  BY <3>1, <4>1, ScannerAssumption, FS_Subset, FS_CardinalityType
    <3>3. published[j] + c <= rec[j].attemptCount
      BY <1>1, <3>1 DEF RInv, PublicationsClaimed
    <3>4. published[j] \in Nat /\ rec[j].attemptCount \in 0..MaxPublications
      BY <1>1 DEF RInv, RecoveryTypeOK
    <3> QED  BY <3>2, <3>3, <3>4 DEF MaxPublications
  <2> QED  BY <1>1, <2>1 DEF RInv, RecoverySound, PublicationsBounded
<1> QED  BY <1>1, RecoveryInvariant, PTL

\* The ledger keeps its promises while jobs are published again and again.
THEOREM RecoveryLedgerSound == RecoverySpec => []LedgerSound
<1>1. RInv => LedgerSound  BY DEF RInv, LInv, ClaimsOK, LedgerSound
<1> QED  BY <1>1, RecoveryInvariant, PTL

-------------------------------------------------------------------------------
(* Starting and stopping                                                       *)

BeatAges == 0..(Freshness + 1)

BeatType == [started : BOOLEAN, running : BOOLEAN, failed : BOOLEAN, age : BeatAges,
             probing : BOOLEAN, link : BOOLEAN, quiet : BeatAges]

StreamStates == {"none", "entering", "live", "aborted", "stray"}

LifeTypeOK ==
    /\ beat \in [Worker -> BeatType]
    /\ streams \in [Client -> StreamStates] /\ held \subseteq Client

\* Nobody is left to be told.
NobodyWaits == \A c \in Client : streams[c] # "live" /\ (IsApi => c \notin held)

\* shutdown() runs only after shutdownStarted was set, and never for a process
\* that has not got past its first stage.
ExitFirst ==
    /\ down # "idle" => exiting
    /\ listener = "closing" => exiting
    /\ forced => exiting
    /\ exiting => start # "encryption"

\* READY is left for good when shutdown begins.
ReadyMeansRunning == runtime = "READY" => IsApi /\ ~exiting /\ start = "started"

\* A live stream has its client, and what a client says of the listener holds
\* at the latest until shutdown has cut it off.
StreamsHaveListener ==
    /\ \A c \in Client : streams[c] = "live" => c \in held
    /\ ~IsApi => \A c \in Client : streams[c] = "none"
    /\ NobodyWaits \/ (IsApi /\ start \notin {"encryption", "schedule", "workers", "metrics"})
    /\ down = "idle" => NobodyWaits \/ listener = "open"
    /\ down \notin {"idle", "http"} => NobodyWaits
    /\ forced => NobodyWaits

\* The API has no stage of the worker's.
StagesOfKind == IsApi => start \notin {"schedule", "workers", "metrics"}

WorkersOfKind == IsApi => \A w \in Worker : worker[w] = "none"

\* What has been disconnected stays so.
ConnectsBeforeExit ==
    /\ down \in {"mongo", "done"} => redis = "end"
    /\ down = "done" => mongo # "connecting" /\ (mongo = "up" => exitCode = 1)

\* An answer is what resets the age, and no answer comes while the connection
\* is silent.
SilenceIsCounted ==
    \A w \in Worker : /\ beat[w].link => beat[w].quiet = 0
                      /\ beat[w].quiet <= beat[w].age

LifeInv ==
    /\ LifeTypeOK /\ ExitFirst /\ ReadyMeansRunning /\ StreamsHaveListener
    /\ StagesOfKind /\ WorkersOfKind /\ ConnectsBeforeExit /\ SilenceIsCounted

\* What shutdown and its streams are about: the control of the process.
ControlInv ==
    /\ ExitFirst /\ ReadyMeansRunning /\ StreamsHaveListener /\ StagesOfKind
    /\ ConnectsBeforeExit

\* What a step of a worker or a heartbeat leaves alone.
AtRest == UNCHANGED <<kind, start, runtime, exiting, exitCode, down, listener, mongo, redis,
                      held, streams, forced>>

\* A step that leaves the control alone keeps its invariant.
LEMMA IdleStep == ControlInv /\ AtRest => ControlInv'
BY DEF ControlInv, AtRest, ExitFirst, ReadyMeansRunning, StreamsHaveListener, StagesOfKind,
       ConnectsBeforeExit, NobodyWaits, IsApi

\* The first await of a shutdown: the listener if it is known, BullMQ if not.
LEMMA CloseListenerCases ==
    ASSUME CloseListener
    PROVE  \/ listener = "open" /\ listener' = "closing" /\ down' = "http"
           \/ listener # "open" /\ listener' = listener /\ down' = "bullmq"
BY DEF CloseListener, CloseBullMq

\* A signal, or a failing stage, from which a shutdown begins.
LEMMA BeginShutdownStep ==
    ASSUME ControlInv, BeginShutdown, ~exiting, start' # "encryption",
           StagesOfKind', start' = start \/ start' = "failed",
           UNCHANGED <<kind, held, streams, forced>>,
           start' \notin {"schedule", "workers", "metrics"} \/ start' = start
    PROVE  ControlInv'
<1>1. down = "idle"
  BY DEF ControlInv, ExitFirst
<1>2. /\ exiting' /\ runtime' # "READY"
  BY DEF BeginShutdown, ControlInv, ReadyMeansRunning
<1>3. ExitFirst' /\ ReadyMeansRunning'
  BY <1>2 DEF ExitFirst, ReadyMeansRunning
<1>4. StreamsHaveListener'
  <2>1. NobodyWaits' <=> NobodyWaits
    BY DEF NobodyWaits, IsApi
  <2> QED
    BY <1>1, <2>1, CloseListenerCases
       DEF BeginShutdown, ControlInv, StreamsHaveListener, IsApi
<1>5. ConnectsBeforeExit'
  BY CloseListenerCases DEF BeginShutdown, ConnectsBeforeExit
<1> QED
  BY <1>3, <1>4, <1>5 DEF ControlInv

\* A stage of the start-up that rejects.
LEMMA StartupFailsStep ==
    ASSUME ControlInv, StartupFails, UNCHANGED <<kind, held, streams, forced>>,
           redis' = redis \/ down \notin {"mongo", "done"},
           mongo' \in {mongo, "off"}
    PROVE  ControlInv'
<1>1. start' = "failed" /\ StagesOfKind'
  BY DEF StartupFails, StagesOfKind
<1>2. CASE ~exiting
  BY <1>1, <1>2, BeginShutdownStep DEF StartupFails
<1>3. CASE exiting
  BY <1>1, <1>3 DEF StartupFails, ControlInv, ExitFirst, ReadyMeansRunning, StreamsHaveListener,
                    NobodyWaits, ConnectsBeforeExit, IsApi
<1> QED
  BY <1>2, <1>3

\* Connections are begun only before the signal.
LEMMA ConnectStep ==
    ASSUME ControlInv, ListenerOpens \/ InitializeEncryption
    PROVE  ControlInv'
<1>1. CASE InitializeEncryption
  <2>1. ~exiting /\ down = "idle" /\ NobodyWaits
    BY <1>1 DEF InitializeEncryption, ControlInv, ExitFirst, StreamsHaveListener
  <2> QED
    BY <1>1, <2>1
       DEF InitializeEncryption, BeginConnecting, ControlInv, ExitFirst, ReadyMeansRunning,
           StreamsHaveListener, NobodyWaits, StagesOfKind, ConnectsBeforeExit, IsApi
<1>2. CASE ListenerOpens /\ exiting
  BY <1>2 DEF ListenerOpens, ControlInv, ExitFirst, ReadyMeansRunning,
              StreamsHaveListener, NobodyWaits, StagesOfKind, ConnectsBeforeExit, IsApi
<1>3. CASE ListenerOpens /\ ~exiting
  BY <1>3 DEF ListenerOpens, BeginConnecting, ControlInv, ExitFirst, ReadyMeansRunning,
              StreamsHaveListener, NobodyWaits, StagesOfKind, ConnectsBeforeExit, IsApi
<1> QED
  BY <1>1, <1>2, <1>3

\* Every step of the start-up keeps the control in order.
LEMMA StartControl ==
    ASSUME ControlInv, WorkersOfKind, StartStep
    PROVE  ControlInv'
<1>1. CASE EncryptionFails \/ StageFails
  BY <1>1, StartupFailsStep DEF EncryptionFails, StageFails
<1>2. CASE MongoConnects
  BY <1>2 DEF MongoConnects, Joined, ControlInv, ExitFirst, ReadyMeansRunning,
              StreamsHaveListener, NobodyWaits, StagesOfKind, ConnectsBeforeExit, IsApi
<1>3. CASE MongoRefuses
  <2>1. CASE start = "connecting"
    BY <1>3, <2>1, StartupFailsStep DEF MongoRefuses
  <2>2. CASE start # "connecting"
    BY <1>3, <2>2 DEF MongoRefuses, ControlInv, ExitFirst, ReadyMeansRunning,
              StreamsHaveListener, NobodyWaits, StagesOfKind, ConnectsBeforeExit, IsApi
  <2> QED
    BY <2>1, <2>2
<1>4. CASE RedisConnects
  BY <1>4 DEF RedisConnects, Joined, ControlInv, ExitFirst, ReadyMeansRunning,
              StreamsHaveListener, NobodyWaits, StagesOfKind, ConnectsBeforeExit, IsApi
<1>5. CASE RedisRefuses
  <2>1. down \notin {"mongo", "done"}
    BY <1>5 DEF RedisRefuses, ControlInv, ConnectsBeforeExit
  <2>2. CASE start = "connecting"
    BY <1>5, <2>1, <2>2, StartupFailsStep DEF RedisRefuses
  <2>3. CASE start # "connecting"
    BY <1>5, <2>1, <2>3 DEF RedisRefuses, ControlInv, ExitFirst, ReadyMeansRunning,
              StreamsHaveListener, NobodyWaits, StagesOfKind, ConnectsBeforeExit, IsApi
  <2> QED
    BY <2>2, <2>3
<1>6. CASE RedisRetries
  BY <1>6 DEF RedisRetries, processVars, ControlInv, ExitFirst, ReadyMeansRunning,
              StreamsHaveListener, NobodyWaits, StagesOfKind, ConnectsBeforeExit, IsApi
<1>7. CASE StorageReady
  BY <1>7 DEF StorageReady, resourceVars, ControlInv, ExitFirst, ReadyMeansRunning,
              StreamsHaveListener, NobodyWaits, StagesOfKind, ConnectsBeforeExit, IsApi
<1>8. CASE QueuesReady
  BY <1>8 DEF QueuesReady, resourceVars, ControlInv, ExitFirst, ReadyMeansRunning,
              StreamsHaveListener, NobodyWaits, StagesOfKind, ConnectsBeforeExit, IsApi
<1>9. CASE SchedulesReady
  BY <1>9 DEF SchedulesReady, resourceVars, ControlInv, ExitFirst, ReadyMeansRunning,
              StreamsHaveListener, NobodyWaits, StagesOfKind, ConnectsBeforeExit, IsApi
<1>10. CASE MetricsOpens
  BY <1>10 DEF MetricsOpens, ControlInv, ExitFirst, ReadyMeansRunning,
              StreamsHaveListener, NobodyWaits, StagesOfKind, ConnectsBeforeExit, IsApi
<1>11. ASSUME NEW w \in Worker, WorkerReady(w) PROVE ControlInv'
  <2>1. CASE start' = start /\ listener' = listener
    BY <1>11, <2>1, IdleStep DEF WorkerReady, AtRest
  <2>2. CASE start = "workers" /\ start' = "metrics" /\ listener' = "opening"
    BY <1>11, <2>2 DEF WorkerReady, ControlInv, ExitFirst, ReadyMeansRunning,
              StreamsHaveListener, NobodyWaits, StagesOfKind, ConnectsBeforeExit, IsApi
  <2> QED
    BY <1>11, <2>1, <2>2 DEF WorkerReady
<1>12. ASSUME NEW w \in Worker, WorkerFails(w) PROVE ControlInv'
  <2>1. CASE start = "workers" /\ ~exiting
    BY <1>12, <2>1, StartupFailsStep DEF WorkerFails
  <2>2. CASE ~(start = "workers" /\ ~exiting)
    BY <1>12, <2>2 DEF WorkerFails, WorkersOfKind, ControlInv, ExitFirst, ReadyMeansRunning,
              StreamsHaveListener, NobodyWaits, StagesOfKind, ConnectsBeforeExit, IsApi
  <2> QED
    BY <2>1, <2>2
<1> QED
  BY <1>1, <1>2, <1>3, <1>4, <1>5, <1>6, <1>7, <1>8, <1>9, <1>10, <1>11, <1>12, ConnectStep
     DEF StartStep

\* So does every step of the shutdown.
LEMMA StopControl ==
    ASSUME ControlInv, StopStep
    PROVE  ControlInv'
<1>1. CASE Signal
  BY <1>1, BeginShutdownStep DEF Signal, ControlInv, StagesOfKind, IsApi
<1>2. CASE HttpCloses
  BY <1>2 DEF HttpCloses, CloseBullMq, processVars, ControlInv, ExitFirst, ReadyMeansRunning,
              StreamsHaveListener, NobodyWaits, StagesOfKind, ConnectsBeforeExit, IsApi
<1>3. CASE ForceClose
  <2>1. NobodyWaits' /\ (\A c \in Client : streams'[c] # "live") /\ IsApi'
    BY <1>3 DEF ForceClose, NobodyWaits, processVars, IsApi
  <2> QED
    BY <1>3, <2>1
       DEF ForceClose, processVars, ControlInv, ExitFirst, ReadyMeansRunning,
           StreamsHaveListener, StagesOfKind, ConnectsBeforeExit
<1>4. CASE Deadline
  BY <1>4 DEF Deadline, GiveUpOnHttp, CloseBullMq, processVars, ControlInv, ExitFirst, ReadyMeansRunning,
              StreamsHaveListener, NobodyWaits, StagesOfKind, ConnectsBeforeExit, IsApi
<1>5. CASE BullMqCloses
  BY <1>5 DEF BullMqCloses, processVars, ControlInv, ExitFirst, ReadyMeansRunning,
              StreamsHaveListener, NobodyWaits, StagesOfKind, ConnectsBeforeExit, IsApi
<1>6. CASE DisconnectRedis
  BY <1>6 DEF DisconnectRedis, ControlInv, ExitFirst, ReadyMeansRunning,
              StreamsHaveListener, NobodyWaits, StagesOfKind, ConnectsBeforeExit, IsApi
<1>7. CASE DisconnectMongo
  BY <1>7 DEF DisconnectMongo, MongoLetsGo, EndShutdown, ControlInv, ExitFirst, ReadyMeansRunning,
              StreamsHaveListener, NobodyWaits, StagesOfKind, ConnectsBeforeExit, IsApi
<1>8. ASSUME NEW w \in Worker, WorkerCloses(w) PROVE ControlInv'
  BY <1>8, IdleStep DEF WorkerCloses, AtRest, processVars, resourceVars
<1> QED
  BY <1>1, <1>2, <1>3, <1>4, <1>5, <1>6, <1>7, <1>8 DEF StopStep

\* And what the process does while it runs: a request is admitted only before
\* the signal, when the listener is open; one that registers later finds its
\* client gone.
LEMMA WorkControl ==
    ASSUME LifeTypeOK, ControlInv, WorkStep
    PROVE  ControlInv'
<1>1. ASSUME NEW c \in Client, RequestAdmitted(c) PROVE ControlInv'
  <2>1. ~exiting /\ down = "idle" /\ listener = "open" /\ start = "started" /\ IsApi /\ ~forced
    BY <1>1 DEF RequestAdmitted, ControlInv, ReadyMeansRunning, ExitFirst
  <2>2. IsApi' /\ \A d \in Client : streams'[d] = "live" => d \in held'
    BY <1>1, <2>1 DEF RequestAdmitted, OnlyRequests, processVars, ControlInv,
                      StreamsHaveListener, IsApi, LifeTypeOK
  <2> QED
    BY <1>1, <2>1, <2>2
       DEF RequestAdmitted, OnlyRequests, processVars, ControlInv, ExitFirst, ReadyMeansRunning,
           StreamsHaveListener, StagesOfKind, ConnectsBeforeExit
<1>2. ASSUME NEW c \in Client,
             \/ StreamRegisters(c) \/ RequestEnds(c) \/ MetricsRequest(c) \/ ClientLeaves(c)
      PROVE  ControlInv'
  <2>1. /\ OnlyRequests /\ streams \in [Client -> StreamStates]
        /\ IsApi' = IsApi
    BY <1>2 DEF StreamRegisters, RequestEnds, MetricsRequest, ClientLeaves, LifeTypeOK,
                OnlyRequests, processVars, IsApi
  <2>2. \A d \in Client : streams[d] = "live" => d \in held
    BY DEF ControlInv, StreamsHaveListener
  <2>3. ~IsApi => \A d \in Client : streams[d] = "none"
    BY DEF ControlInv, StreamsHaveListener
  <2>4. \A d \in Client : streams'[d] = "live" => d \in held'
    BY <1>2, <2>1, <2>2, <2>3 DEF StreamRegisters, RequestEnds, MetricsRequest, ClientLeaves
  <2>5. ~IsApi => \A d \in Client : streams'[d] = "none"
    BY <1>2, <2>1, <2>3 DEF StreamRegisters, RequestEnds, MetricsRequest, ClientLeaves
  <2>6. NobodyWaits => NobodyWaits'
    <3>1. IsApi => \A d \in held' : d \in held
      BY <1>2 DEF StreamRegisters, RequestEnds, MetricsRequest, ClientLeaves
    <3> QED
      BY <2>1, <2>4, <2>5, <3>1 DEF NobodyWaits
  <2>7. StreamsHaveListener'
    BY <2>1, <2>4, <2>5, <2>6
       DEF OnlyRequests, processVars, ControlInv, StreamsHaveListener
  <2> QED
    BY <2>1, <2>7
       DEF OnlyRequests, processVars, ControlInv, ExitFirst, ReadyMeansRunning, StagesOfKind,
           ConnectsBeforeExit
<1>3. ASSUME NEW w \in Worker, JobStarts(w) \/ JobEnds(w) PROVE ControlInv'
  BY <1>3, IdleStep DEF JobStarts, JobEnds, AtRest, processVars, resourceVars
<1>4. ASSUME NEW w \in Worker, NEW b, BeatStep(w, b) PROVE ControlInv'
  BY <1>4, IdleStep DEF BeatStep, AtRest, processVars, resourceVars
<1> QED
  BY <1>1, <1>2, <1>3, <1>4
     DEF WorkStep, BeatInterval, ProbeAnswers, ProbeFails, LinkChanges

-----------------------------------------------------------------------------
(***************************************************************************)
(* The managed workers and their heartbeats                                *)
(***************************************************************************)
\* The API has no managed workers: only the worker process schedules.
LEMMA WorkersStep ==
    ASSUME StagesOfKind, WorkersOfKind, LifeNext
    PROVE  WorkersOfKind'
<1> SUFFICES ASSUME IsApi' PROVE \A w \in Worker : worker'[w] = "none"
  BY DEF WorkersOfKind
<1>1. IsApi
  BY DEF IsApi, LifeNext, StartStep, StopStep, WorkStep, InitializeEncryption, EncryptionFails,
         ListenerOpens, MongoConnects, MongoRefuses, RedisConnects, RedisRefuses, RedisRetries,
         StorageReady, QueuesReady, SchedulesReady, StageFails, MetricsOpens, WorkerReady,
         WorkerFails, Signal, HttpCloses, ForceClose, Deadline, BullMqCloses, DisconnectRedis,
         DisconnectMongo, GiveUpOnHttp, EndShutdown, WorkerCloses, RequestAdmitted,
         StreamRegisters, RequestEnds, MetricsRequest, ClientLeaves, OnlyRequests, JobStarts,
         JobEnds, BeatInterval, ProbeAnswers, ProbeFails, LinkChanges, BeatStep, processVars
<1>2. \A w \in Worker : worker[w] = "none"
  BY <1>1 DEF WorkersOfKind
<1>3. CASE StartStep
  <2>1. CASE EncryptionFails \/ StageFails \/ MongoRefuses \/ RedisRefuses
    BY <1>2, <2>1 DEF EncryptionFails, StageFails, MongoRefuses, RedisRefuses, StartupFails,
                      BeginShutdown, CloseListener, CloseBullMq
  <2>2. CASE SchedulesReady
    BY <1>1, <2>2 DEF SchedulesReady, StagesOfKind
  <2>3. ASSUME NEW w \in Worker, WorkerReady(w) \/ WorkerFails(w)
        PROVE  \A v \in Worker : worker'[v] = "none"
    <3>1. start # "workers" /\ worker[w] = "none"
      BY <1>1, <1>2 DEF StagesOfKind
    <3> QED
      BY <2>3, <3>1 DEF WorkerReady, WorkerFails
  <2>4. CASE UNCHANGED worker
    BY <1>2, <2>4
  <2> QED
    BY <1>3, <2>1, <2>2, <2>3, <2>4
       DEF StartStep, InitializeEncryption, ListenerOpens, MongoConnects, RedisConnects,
           RedisRetries, StorageReady, QueuesReady, MetricsOpens, workVars
<1>4. CASE StopStep
  <2>1. CASE Signal \/ HttpCloses \/ Deadline
    BY <1>2, <2>1 DEF Signal, HttpCloses, Deadline, GiveUpOnHttp, BeginShutdown,
                      CloseListener, CloseBullMq
  <2>2. ASSUME NEW w \in Worker, WorkerCloses(w) PROVE \A v \in Worker : worker'[v] = "none"
    BY <1>2, <2>2 DEF WorkerCloses
  <2>3. CASE UNCHANGED worker
    BY <1>2, <2>3
  <2> QED
    BY <1>4, <2>1, <2>2, <2>3
       DEF StopStep, ForceClose, BullMqCloses, DisconnectRedis, DisconnectMongo, EndShutdown,
           workVars
<1>5. CASE WorkStep
  BY <1>2, <1>5 DEF WorkStep, RequestAdmitted, StreamRegisters, RequestEnds, MetricsRequest,
                    ClientLeaves, OnlyRequests, JobStarts, JobEnds, BeatInterval, ProbeAnswers, ProbeFails, LinkChanges, BeatStep, workVars
<1> QED
  BY <1>3, <1>4, <1>5 DEF LifeNext

\* One heartbeat that is in order.
BeatOK(b) ==
    /\ b \in BeatType
    /\ b.link => b.quiet = 0
    /\ b.quiet <= b.age

BeatsInv == beat \in [Worker -> BeatType] /\ SilenceIsCounted

\* Stopping a heartbeat, and any change of one that keeps it in order.
LEMMA BeatChange ==
    ASSUME BeatsInv
    PROVE  /\ \A w \in Worker : BeatOK(beat[w])
           /\ (beat' \in [Worker -> BeatType] /\ \A w \in Worker : BeatOK(beat'[w])) => BeatsInv'
BY DEF BeatsInv, SilenceIsCounted, BeatOK

\* One heartbeat is replaced by one in order.
LEMMA BeatReplaced ==
    ASSUME BeatsInv, NEW w \in Worker, NEW b, BeatOK(b), beat' = [beat EXCEPT ![w] = b]
    PROVE  BeatsInv'
<1>1. beat \in [Worker -> BeatType] /\ b \in BeatType
  BY DEF BeatsInv, BeatOK
<1>2. beat' \in [Worker -> BeatType]
  BY <1>1
<1>3. \A v \in Worker : BeatOK(beat'[v])
  BY <1>1, BeatChange
<1> QED
  BY <1>2, <1>3, BeatChange

\* disconnectBullMq stops heartbeats and forgets nothing.
LEMMA BeatsStopped ==
    ASSUME BeatsInv, CloseBullMq
    PROVE  BeatsInv'
<1>1. ASSUME NEW w \in Worker
      PROVE  beat'[w] \in BeatType /\ BeatOK(beat'[w])
  <2>1. BeatOK(beat[w])
    BY BeatChange
  <2>2. BeatOK([beat[w] EXCEPT !.running = FALSE])
    BY <2>1 DEF BeatOK, BeatType
  <2>3. beat'[w] = [beat[w] EXCEPT !.running = FALSE] \/ beat'[w] = beat[w]
    BY DEF CloseBullMq
  <2>4. BeatOK(beat'[w])
    BY <2>1, <2>2, <2>3
  <2> QED
    BY <2>4 DEF BeatOK
<1>2. beat' \in [Worker -> BeatType]
  <2>1. beat' = [w \in Worker |-> beat'[w]]
    BY DEF CloseBullMq
  <2> QED
    BY <1>1, <2>1
<1> QED
  BY <1>1, <1>2, BeatChange

\* Starting, an interval, an answer, a failure and a change of the connection.
LEMMA BeatActions ==
    ASSUME BeatsInv, NEW w \in Worker,
           \/ WorkerReady(w) \/ BeatInterval(w) \/ ProbeAnswers(w) \/ ProbeFails(w)
           \/ LinkChanges(w)
    PROVE  BeatsInv'
<1>0. Freshness \in Nat
  BY LifecycleAssumption
<1>1. BeatOK(beat[w]) /\ beat \in [Worker -> BeatType]
  BY BeatChange DEF BeatsInv
<1>2. /\ beat[w].started \in BOOLEAN /\ beat[w].running \in BOOLEAN /\ beat[w].failed \in BOOLEAN
      /\ beat[w].probing \in BOOLEAN /\ beat[w].link \in BOOLEAN
      /\ beat[w].age \in Nat /\ beat[w].quiet \in Nat
      /\ beat[w].age <= Freshness + 1 /\ beat[w].quiet <= Freshness + 1
  BY <1>0, <1>1 DEF BeatOK, BeatType, BeatAges
<1>3. CASE WorkerReady(w)
  <2> DEFINE b == [beat[w] EXCEPT !.started = TRUE, !.running = TRUE, !.probing = TRUE]
  <2>1. BeatOK(b)
    BY <1>1 DEF BeatOK, BeatType
  <2>2. beat' = [beat EXCEPT ![w] = b]
    BY <1>3 DEF WorkerReady
  <2> QED
    BY <2>1, <2>2, BeatReplaced
<1>4. CASE BeatInterval(w)
  <2> DEFINE older == IF beat[w].age <= Freshness THEN beat[w].age + 1 ELSE beat[w].age
             silent == IF beat[w].link THEN 0
                       ELSE IF beat[w].quiet <= Freshness THEN beat[w].quiet + 1
                       ELSE beat[w].quiet
             b == [beat[w] EXCEPT !.age = older, !.probing = TRUE, !.quiet = silent]
  <2>1. /\ older \in BeatAges /\ silent \in BeatAges /\ silent <= older
        /\ beat[w].link => silent = 0
    BY <1>0, <1>1, <1>2 DEF BeatOK, BeatAges
  <2>2. beat' = [beat EXCEPT ![w] = b]
    BY <1>4 DEF BeatInterval, BeatStep
  <2> HIDE DEF older, silent
  <2>3. BeatOK(b)
    BY <1>1, <2>1 DEF BeatOK, BeatType
  <2> QED
    BY <2>2, <2>3, BeatReplaced
<1>5. CASE ProbeAnswers(w)
  <2>1. beat[w].quiet = 0 /\ 0 \in BeatAges
    BY <1>0, <1>1, <1>5 DEF ProbeAnswers, BeatOK, BeatAges
  <2>2. BeatOK([beat[w] EXCEPT !.probing = FALSE, !.failed = FALSE, !.age = 0])
    <3> DEFINE b == [beat[w] EXCEPT !.probing = FALSE, !.failed = FALSE, !.age = 0]
    <3>1. b \in BeatType /\ b.quiet = beat[w].quiet /\ b.age = 0
      BY <1>1, <2>1 DEF BeatOK, BeatType
    <3> QED
      BY <2>1, <3>1 DEF BeatOK
  <2>3. BeatOK([beat[w] EXCEPT !.probing = FALSE])
    BY <1>1 DEF BeatOK, BeatType
  <2> QED
    BY <1>5, <2>2, <2>3, BeatReplaced DEF ProbeAnswers, BeatStep
<1>6. CASE ProbeFails(w)
  <2>1. BeatOK([beat[w] EXCEPT !.probing = FALSE, !.failed = @ \/ beat[w].running])
    BY <1>1, <1>2 DEF BeatOK, BeatType
  <2> QED
    BY <1>6, <2>1, BeatReplaced DEF ProbeFails, BeatStep
<1>7. CASE LinkChanges(w)
  <2>1. BeatOK([beat[w] EXCEPT !.link = ~@, !.quiet = 0])
    <3> DEFINE link == ~beat[w].link
               b == [beat[w] EXCEPT !.link = link, !.quiet = 0]
    <3>1. link \in BOOLEAN /\ 0 \in BeatAges
      BY <1>0, <1>2 DEF BeatAges
    <3> HIDE DEF link
    <3>2. b \in BeatType /\ b.quiet = 0 /\ b.age = beat[w].age
      BY <1>1, <3>1 DEF BeatOK, BeatType
    <3>3. BeatOK(b)
      BY <1>2, <3>2 DEF BeatOK
    <3> QED
      BY <3>3 DEF link
  <2> QED
    BY <1>7, <2>1, BeatReplaced DEF LinkChanges, BeatStep
<1> QED
  BY <1>3, <1>4, <1>5, <1>6, <1>7

\* Every step keeps the heartbeats in order.
LEMMA BeatsStep ==
    ASSUME BeatsInv, LifeNext
    PROVE  BeatsInv'
<1>1. CASE UNCHANGED beat
  BY <1>1 DEF BeatsInv, SilenceIsCounted
<1>2. CASE CloseBullMq
  BY <1>2, BeatsStopped
<1>3. CASE StartStep
  BY <1>1, <1>2, <1>3, BeatActions
     DEF StartStep, InitializeEncryption, EncryptionFails, ListenerOpens, MongoConnects,
         MongoRefuses, RedisConnects, RedisRefuses, RedisRetries, StorageReady, QueuesReady,
         SchedulesReady, StageFails, MetricsOpens, WorkerFails, StartupFails, BeginShutdown,
         CloseListener, workVars
<1>4. CASE StopStep
  BY <1>1, <1>2, <1>4
     DEF StopStep, Signal, HttpCloses, ForceClose, Deadline, GiveUpOnHttp, BullMqCloses,
         DisconnectRedis, DisconnectMongo, EndShutdown, WorkerCloses, BeginShutdown, CloseListener, workVars
<1>5. CASE WorkStep
  BY <1>1, <1>5, BeatActions
     DEF WorkStep, RequestAdmitted, StreamRegisters, RequestEnds, MetricsRequest, ClientLeaves,
         OnlyRequests, JobStarts, JobEnds, workVars
<1> QED
  BY <1>3, <1>4, <1>5 DEF LifeNext

\* Every step keeps the types of the requests.
LEMMA StreamsStep ==
    ASSUME streams \in [Client -> StreamStates], held \subseteq Client, LifeNext
    PROVE  streams' \in [Client -> StreamStates] /\ held' \subseteq Client
<1>1. CASE UNCHANGED <<streams, held>>
  BY <1>1
<1>2. CASE ForceClose
  BY <1>2 DEF ForceClose, StreamStates
<1>3. ASSUME NEW c \in Client,
             \/ RequestAdmitted(c) \/ StreamRegisters(c) \/ RequestEnds(c)
             \/ MetricsRequest(c) \/ ClientLeaves(c)
      PROVE  streams' \in [Client -> StreamStates] /\ held' \subseteq Client
  BY <1>3 DEF RequestAdmitted, StreamRegisters, RequestEnds, MetricsRequest, ClientLeaves,
              StreamStates
<1> QED
  BY <1>1, <1>2, <1>3
     DEF LifeNext, StartStep, StopStep, WorkStep, InitializeEncryption, EncryptionFails,
         ListenerOpens, MongoConnects, MongoRefuses, RedisConnects, RedisRefuses, RedisRetries,
         StorageReady, QueuesReady, SchedulesReady, StageFails, MetricsOpens, WorkerReady,
         WorkerFails, Signal, HttpCloses, Deadline, GiveUpOnHttp, BullMqCloses, DisconnectRedis,
         DisconnectMongo, EndShutdown, WorkerCloses, JobStarts, JobEnds, BeatInterval,
         ProbeAnswers, ProbeFails, LinkChanges, BeatStep, resourceVars

-----------------------------------------------------------------------------
\* The inductive invariant holds in every reachable state of either process.
THEOREM LifecycleInvariant == LifeSpec => []LifeInv
<1>1. LifeInit => LifeInv
  <2> SUFFICES ASSUME LifeInit PROVE LifeInv
    OBVIOUS
  <2>1. Freshness \in Nat
    BY LifecycleAssumption
  <2>2. NewBeat \in BeatType /\ NewBeat.link /\ NewBeat.quiet = 0 /\ NewBeat.quiet <= NewBeat.age
    BY <2>1 DEF NewBeat, BeatType, BeatAges
  <2>3. LifeTypeOK /\ SilenceIsCounted
    BY <2>2 DEF LifeInit, LifeTypeOK, StreamStates, SilenceIsCounted
  <2>4. /\ ExitFirst /\ ReadyMeansRunning /\ StreamsHaveListener /\ StagesOfKind
        /\ WorkersOfKind /\ ConnectsBeforeExit
    BY DEF LifeInit, ExitFirst, ReadyMeansRunning, StreamsHaveListener, NobodyWaits,
           StagesOfKind, WorkersOfKind, ConnectsBeforeExit
  <2> QED
    BY <2>3, <2>4 DEF LifeInv
<1>2. LifeInv /\ [LifeNext]_lifeVars => LifeInv'
  <2> SUFFICES ASSUME LifeInv, [LifeNext]_lifeVars PROVE LifeInv'
    OBVIOUS
  <2>1. LifeTypeOK /\ ControlInv /\ WorkersOfKind /\ BeatsInv
    BY DEF LifeInv, ControlInv, BeatsInv, LifeTypeOK
  <2>2. CASE LifeNext
    <3>1. ControlInv' /\ WorkersOfKind'
      BY <2>1, <2>2, StartControl, StopControl, WorkControl, WorkersStep
         DEF LifeNext, ControlInv
    <3>2. BeatsInv' /\ LifeTypeOK'
      BY <2>1, <2>2, BeatsStep, StreamsStep DEF LifeTypeOK, BeatsInv
    <3> QED
      BY <3>1, <3>2 DEF LifeInv, ControlInv, BeatsInv
  <2>3. CASE UNCHANGED lifeVars
    <3>1. AtRest /\ UNCHANGED <<worker, beat>>
      BY <2>3 DEF lifeVars, processVars, resourceVars, workVars, AtRest
    <3>2. ControlInv'
      BY <2>1, <3>1, IdleStep
    <3> QED
      BY <2>1, <3>1, <3>2
         DEF LifeInv, ControlInv, AtRest, BeatsInv, LifeTypeOK, SilenceIsCounted, WorkersOfKind,
             IsApi
  <2> QED
    BY <2>2, <2>3
<1> QED
  BY <1>1, <1>2, PTL DEF LifeSpec

\* shutdown(), closeHttpServerWithinGrace, disconnectInfrastructure: whenever
\* the signal comes, and however long requests take on their way in, the stores
\* are closed only when no client is connected and every stream that had one when
\* it registered is over or was told; when shutdown is done, no connection to a
\* store is left that the exit code does not admit.
THEOREM ShutdownIsOrderly == LifeSpec => []OrderlyShutdown
<1>1. LifeInv => OrderlyShutdown
  BY DEF LifeInv, StreamsHaveListener, ConnectsBeforeExit, NobodyWaits, OrderlyShutdown,
         StreamsToldFirst, DoneMeansDisconnected
<1> QED
  BY <1>1, LifecycleInvariant, PTL

\* getReadiness and getManagedWorkerHealthSummary: neither a stopping process
\* nor a worker whose connection is silent for too long is called healthy, for
\* every freshness and any number of workers.
THEOREM HealthIsHonest == LifeSpec => []HealthHonest
<1>1. LifeInv => StoppingIsNotReady
  BY DEF LifeInv, ReadyMeansRunning, StoppingIsNotReady
<1>2. LifeInv => SilentWorkerUnhealthy
  <2> SUFFICES ASSUME LifeInv, NEW w \in Worker, beat[w].quiet > Freshness
               PROVE  /\ ~Healthy(beat[w])
                      /\ worker[w] \in {"starting", "running"} => ~ManagedHealthy
    BY DEF SilentWorkerUnhealthy
  <2>1. Freshness \in Nat /\ beat[w].age \in Nat /\ beat[w].quiet \in Nat
    BY LifecycleAssumption DEF LifeInv, LifeTypeOK, BeatType, BeatAges
  <2>2. beat[w].quiet <= beat[w].age
    BY DEF LifeInv, SilenceIsCounted
  <2> QED
    BY <2>1, <2>2 DEF Healthy, ManagedHealthy
<1> QED
  BY <1>1, <1>2, LifecycleInvariant, PTL DEF HealthHonest
===============================================================================

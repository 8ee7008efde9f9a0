--------------------------- MODULE Administration ---------------------------
(***************************************************************************)
(* The administrator's mutations of one organisation                       *)
(* (backend/src/features/admin/admin.mutation.service.ts), the             *)
(* authorisation in front of them, the audit log written in the same       *)
(* transaction (features/audit), and the sessions they revoke while users  *)
(* log in and refresh (features/auth/auth.service.ts).                     *)
(*                                                                         *)
(* A mutation runs in a MongoDB transaction (external): it reads a         *)
(* snapshot, its writes become visible together at the commit, and it is   *)
(* run again from the start if a document it writes has been changed since *)
(* the snapshot.  Queries are scoped to the caller's organisation, so one  *)
(* organisation stands for all.  Rotation of a refresh token is that of    *)
(* RefreshSession, seen from outside: claim, load, insert.                 *)
(***************************************************************************)
EXTENDS Naturals, Sequences, FiniteSets

CONSTANTS
    Users, Teams,
    Requests,       \* administration requests that may run at the same time
    Sessions,       \* logins, each the start of a token family
    InitialUsers,   \* the users as provisioned: [role, status, team]
    Thresholds,     \* values of maskThreshold and blockThreshold
    Mutations,      \* the requests explored
    MaxAudit,       \* bound: audit records
    MaxAuditFaults, \* bound: failing audit writes and lost commit replies
    NoTeam, Nothing

Roles == {"EMPLOYEE", "TEAM_LEAD", "ORG_ADMIN"}
Statuses == {"ACTIVE", "DISABLED"}
RetentionModes == {"METADATA_ONLY", "ENCRYPTED_STORAGE"}
UserDocs == [role : Roles, status : Statuses \cup {"INVITED"}, team : Teams \cup {NoTeam}]

ActiveAdmin(doc) == doc.role = "ORG_ADMIN" /\ doc.status = "ACTIVE"
LeadWithoutTeam(doc) == doc.role = "TEAM_LEAD" /\ doc.status = "ACTIVE" /\ doc.team = NoTeam

ASSUME ProvisionAssumption ==
    /\ InitialUsers \in [Users -> UserDocs]
    /\ \E u \in Users : ActiveAdmin(InitialUsers[u])
    /\ \A u \in Users : ~LeadWithoutTeam(InitialUsers[u])
    /\ NoTeam \notin Teams
    /\ "alert" \notin Users   \* user and alert documents have different ids
    /\ IsFiniteSet(Sessions)
    /\ Thresholds \subseteq Nat

VARIABLES
    user,       \* user[u]: the user document
    org,        \* the organisation document
    alert,      \* one anomaly alert: its status, or Nothing
    session,    \* session[s]: whose it is and where its newest token is
    audit,      \* the audit log
    tx,         \* tx[q]: the request and its transaction
    revokedAt,  \* history: sessions revoked by a mutation while active
    auditFaults

dbVars == <<user, org, alert, session, audit>>
adminVars == <<dbVars, tx, revokedAt, auditFaults>>

(***************************************************************************)
(* session[s].at: "none"; "found", the login has read an ACTIVE user and   *)
(* verifies the password; "live", its refresh token can be used; "claimed" *)
(* and "loaded", a rotation has used it up and not yet stored the next;    *)
(* "revoked".                                                              *)
(***************************************************************************)
IdleTx == [stage |-> "idle", op |-> Nothing, snap |-> Nothing,
           stale |-> {}]

AdminInit ==
    /\ user = InitialUsers
    /\ org = [mask |-> 1, block |-> 2, budget |-> 0, mode |-> "METADATA_ONLY"]
    /\ alert = Nothing
    /\ session = [s \in Sessions |-> [user |-> Nothing, at |-> "none"]]
    /\ audit = <<>>
    /\ tx = [q \in Requests |-> IdleTx]
    /\ revokedAt = {}
    /\ auditFaults = 0

-----------------------------------------------------------------------------
(***************************************************************************)
(* Authorisation: authenticateRequest, requirePermission,                  *)
(* rejectPublicDemoAdminMutation                                           *)
(***************************************************************************)
\* USER_PERMISSIONS_BY_ROLE; every mutation needs one of the admin: ones.
PermissionsOf(role) ==
    {"chat:send", "chat:view_own"}
        \cup (IF role = "EMPLOYEE" THEN {} ELSE {"team:view_logs"})
        \cup (IF role # "ORG_ADMIN" THEN {} ELSE
                {"admin:view_logs", "admin:view_billing", "admin:manage_users",
                 "admin:configure_policy", "admin:export_audit"})

Operations ==
    [kind : {"role"}, user : Users, value : Roles]
        \cup [kind : {"team"}, user : Users, value : Teams \cup {NoTeam}]
        \cup [kind : {"status"}, user : Users, value : Statuses]
        \cup [kind : {"sessions"}, user : Users]
        \cup [kind : {"policy"}, mask : Thresholds \cup {Nothing},
              block : Thresholds \cup {Nothing}, budget : {0, 1, Nothing}]
        \cup [kind : {"retention"}, value : RetentionModes]
        \cup [kind : {"alert"}, resolved : BOOLEAN]
        \cup [kind : {"export"}]

ASSUME MutationAssumption == Mutations \subseteq Operations

\* admin.routes.ts
Needed(op) ==
    CASE op.kind \in {"role", "team", "status", "sessions"} -> "admin:manage_users"
      [] op.kind \in {"policy", "retention"} -> "admin:configure_policy"
      [] op.kind = "alert" -> "admin:view_logs"
      [] OTHER -> "admin:export_audit"

\* The actor of the access token, read with the organisation: both ACTIVE.
Authenticated(actor) == user[actor].status = "ACTIVE"

\* The actor is read once, here; its role may change before the commit, which
\* only names it in the audit record.  Everybody else is turned away, and so
\* is a session of the public demo whatever its role.
Authorise(q, actor, op) ==
    /\ tx[q].stage = "idle"
    /\ Len(audit) < MaxAudit
    /\ Authenticated(actor)
    /\ Needed(op) \in PermissionsOf(user[actor].role)
    /\ tx' = [tx EXCEPT ![q] = [IdleTx EXCEPT !.stage = "begin", !.op = op]]
    /\ UNCHANGED <<dbVars, revokedAt, auditFaults>>

-----------------------------------------------------------------------------
(***************************************************************************)
(* The mutations, as what they do to a snapshot: either an error, or new   *)
(* documents, sessions to revoke and audit records; and in either case the *)
(* documents they write.                                                   *)
(***************************************************************************)
\* lockOrganisation: the touch that makes two user mutations conflict.
Locked == {"org"}
Unlocked == {}

\* Mutant: the user mutations do not touch the organisation.
LockOrganisation_Missing == Unlocked

LockOrganisation == Locked

Refused(snap, code, written) ==
    [error |-> code, user |-> snap.user, org |-> snap.org, alert |-> snap.alert,
     revoke |-> {}, records |-> <<>>, writes |-> written]

Unchanged(snap) == Refused(snap, "NONE", {})

Entry(action, target, old, new) ==
    [action |-> action, target |-> target, old |-> old, new |-> new]

\* assertAnotherActiveAdmin
AnotherActiveAdmin(snap, u) == \E v \in Users \ {u} : ActiveAdmin(snap.user[v])

\* The saved user document, with the records and revocations that go with it.
SaveUser(snap, u, doc, revoke, record) ==
    [Unchanged(snap) EXCEPT !.user = [snap.user EXCEPT ![u] = doc],
                            !.revoke = revoke, !.records = <<record>>,
                            !.writes = LockOrganisation \cup {u} \cup revoke]

ChangeUserRole(op, snap) ==
    LET doc == [snap.user[op.user] EXCEPT !.role = op.value] IN
    IF LeadWithoutTeam(doc)
    THEN Refused(snap, "TEAM_ASSIGNMENT_REQUIRED", LockOrganisation)
    ELSE IF /\ ActiveAdmin(snap.user[op.user]) /\ op.value # "ORG_ADMIN"
            /\ ~AnotherActiveAdmin(snap, op.user)
    THEN Refused(snap, "LAST_ACTIVE_ORG_ADMIN", LockOrganisation)
    ELSE SaveUser(snap, op.user, doc, {},
                  Entry("user.role_changed", op.user, snap.user[op.user].role, op.value))

\* The team exists: teams are never deleted.
ChangeUserTeam(op, snap) ==
    LET doc == [snap.user[op.user] EXCEPT !.team = op.value] IN
    IF LeadWithoutTeam(doc)
    THEN Refused(snap, "TEAM_ASSIGNMENT_REQUIRED", LockOrganisation)
    ELSE SaveUser(snap, op.user, doc, {},
                  Entry("user.team_changed", op.user, snap.user[op.user].team, op.value))

\* revokeSessions: every token of the user without revokedAt.  A token that a
\* rotation has used up is marked too, which its rotation does not notice.
TokensOf(snap, u) ==
    {s \in Sessions : snap.session[s].user = u
                      /\ snap.session[s].at \in {"live", "claimed", "loaded"}}

ChangeUserStatus(op, snap) ==
    LET doc == [snap.user[op.user] EXCEPT !.status = op.value] IN
    IF /\ ActiveAdmin(snap.user[op.user]) /\ op.value = "DISABLED"
       /\ ~AnotherActiveAdmin(snap, op.user)
    THEN Refused(snap, "LAST_ACTIVE_ORG_ADMIN", LockOrganisation)
    ELSE IF LeadWithoutTeam(doc)
    THEN Refused(snap, "TEAM_ASSIGNMENT_REQUIRED", LockOrganisation)
    ELSE SaveUser(snap, op.user, doc,
                  IF op.value = "DISABLED" THEN TokensOf(snap, op.user) ELSE {},
                  Entry("user.status_changed", op.user, snap.user[op.user].status, op.value))

RevokeUserSessions(op, snap) ==
    LET revoke == TokensOf(snap, op.user) IN
    [Unchanged(snap) EXCEPT !.revoke = revoke,
        !.records = <<Entry("user.sessions_revoked", op.user, Nothing, Cardinality(revoke))>>,
        !.writes = LockOrganisation \cup revoke]

Patched(value, old) == IF value = Nothing THEN old ELSE value

\* Mutant: the patch alone is validated, not the organisation it leads to.
InOrder_PatchOnly(new, op) == op.mask # Nothing /\ op.block # Nothing => op.block > op.mask

\* validatePolicyThresholdOrder, on the resulting document
InOrder(new, op) == new.block > new.mask

\* organisation.validate() fails with an error that is no AppError, which
\* withAuditedTransaction reports as AUDIT_UNAVAILABLE.
UpdateOrganisationPolicy(op, snap) ==
    LET old == snap.org
        new == [old EXCEPT !.mask = Patched(op.mask, @), !.block = Patched(op.block, @),
                           !.budget = Patched(op.budget, @)]
        changed(f) == new[f] # old[f] IN
    IF ~InOrder(new, op) THEN Refused(snap, "AUDIT_UNAVAILABLE", {})
    ELSE [Unchanged(snap) EXCEPT
            !.org = new,
            !.records =
                (IF changed("mask") \/ changed("block")
                 THEN <<Entry("organisation.policy_changed", "org",
                              <<old.mask, old.block>>, <<new.mask, new.block>>)>> ELSE <<>>)
                \o (IF changed("budget")
                    THEN <<Entry("organisation.budget_changed", "org", old.budget, new.budget)>>
                    ELSE <<>>),
            !.writes = IF new = old THEN {} ELSE {"org"}]

\* The encryption key is configured; without it the request ends before.
UpdateOrganisationRetention(op, snap) ==
    [Unchanged(snap) EXCEPT
        !.org = [@ EXCEPT !.mode = op.value],
        !.records = <<Entry("organisation.retention_changed", "org", snap.org.mode, op.value)>>,
        !.writes = IF snap.org.mode = op.value THEN {} ELSE {"org"}]

UpdateAlertResolution(op, snap) ==
    IF snap.alert = Nothing THEN Refused(snap, "NOT_FOUND", {})
    ELSE LET status == IF op.resolved THEN "RESOLVED" ELSE "OPEN" IN
         [Unchanged(snap) EXCEPT
            !.alert = status,
            !.records = <<Entry(IF op.resolved THEN "alert.resolved" ELSE "alert.reopened",
                                "alert", snap.alert, status)>>,
            !.writes = {"alert"}]

\* exportOrganisationAuditCsv: no transaction; the record tells the row count.
ExportAudit(snap) ==
    [Unchanged(snap) EXCEPT
        !.records = <<Entry("audit.exported", "org", Nothing, snap.rows)>>]

Effect(op, snap) ==
    CASE op.kind = "role" -> ChangeUserRole(op, snap)
      [] op.kind = "team" -> ChangeUserTeam(op, snap)
      [] op.kind = "status" -> ChangeUserStatus(op, snap)
      [] op.kind = "sessions" -> RevokeUserSessions(op, snap)
      [] op.kind = "policy" -> UpdateOrganisationPolicy(op, snap)
      [] op.kind = "retention" -> UpdateOrganisationRetention(op, snap)
      [] op.kind = "alert" -> UpdateAlertResolution(op, snap)
      [] OTHER -> ExportAudit(snap)

-----------------------------------------------------------------------------
(***************************************************************************)
(* withAuditedTransaction                                                  *)
(***************************************************************************)
Database == [user |-> user, org |-> org, alert |-> alert, session |-> session,
             rows |-> Len(audit)]

\* The first operation of the transaction fixes its snapshot.
BeginTransaction(q) ==
    /\ tx[q].stage = "begin"
    /\ tx' = [tx EXCEPT ![q].stage = "body", ![q].snap = Database, ![q].stale = {}]
    /\ UNCHANGED <<dbVars, revokedAt, auditFaults>>

\* Documents changed under transactions that have begun, and their retries.
Written(t, docs) ==
    [p \in Requests |-> IF t[p].stage = "body" THEN [t[p] EXCEPT !.stale = @ \cup docs] ELSE t[p]]

Conflicted(q, e) == tx[q].stale \cap e.writes # {}

WriteConflict(q) ==
    /\ tx[q].stage = "body"
    /\ Conflicted(q, Effect(tx[q].op, tx[q].snap))
    /\ tx' = [tx EXCEPT ![q] = [@ EXCEPT !.stage = "begin", !.snap = Nothing, !.stale = {}]]
    /\ UNCHANGED <<dbVars, revokedAt, auditFaults>>

Reply(q) == [tx EXCEPT ![q] = IdleTx]

Refuse(q) ==
    LET e == Effect(tx[q].op, tx[q].snap) IN
    /\ tx[q].stage = "body" /\ ~Conflicted(q, e) /\ e.error # "NONE"
    /\ tx' = Reply(q)
    /\ UNCHANGED <<dbVars, revokedAt, auditFaults>>

\* Audit records are only ever added: the schema refuses updates and deletes.
Recorded(records) == audit \o records

\* Only what the transaction wrote replaces what others may have changed.
ApplyEffect(q, e) ==
    /\ user' = [u \in Users |-> IF u \in e.writes THEN e.user[u] ELSE user[u]]
    /\ org' = IF "org" \in e.writes /\ tx[q].op.kind \in {"policy", "retention"}
              THEN e.org ELSE org
    /\ alert' = IF "alert" \in e.writes THEN e.alert ELSE alert
    /\ session' = [s \in Sessions |-> IF s \in e.revoke /\ session[s].at = "live"
                                      THEN [session[s] EXCEPT !.at = "revoked"]
                                      ELSE session[s]]
    /\ revokedAt' = revokedAt \cup e.revoke
    /\ audit' = Recorded(e.records)
    /\ tx' = Written(Reply(q), e.writes)

CommitTransaction(q) ==
    LET e == Effect(tx[q].op, tx[q].snap) IN
    /\ tx[q].stage = "body" /\ ~Conflicted(q, e) /\ e.error = "NONE"
    /\ ApplyEffect(q, e)
    /\ UNCHANGED auditFaults

\* Mutant: the audit record is written on its own, and a failure is logged.
AuditUnavailable_KeepsChange(q) ==
    LET e == [Effect(tx[q].op, tx[q].snap) EXCEPT !.records = <<>>] IN
    /\ tx[q].stage = "body" /\ ~Conflicted(q, e) /\ e.error = "NONE"
    /\ auditFaults < MaxAuditFaults
    /\ auditFaults' = auditFaults + 1
    /\ ApplyEffect(q, e)

\* The audit write fails and everything is rolled back, or the reply to the
\* commit is lost; the caller sees AUDIT_UNAVAILABLE either way.
AuditUnavailable(q) ==
    LET e == Effect(tx[q].op, tx[q].snap) IN
    /\ tx[q].stage = "body" /\ ~Conflicted(q, e) /\ e.error = "NONE"
    /\ auditFaults < MaxAuditFaults
    /\ auditFaults' = auditFaults + 1
    /\ \/ ApplyEffect(q, e)
       \/ tx' = Reply(q) /\ UNCHANGED <<dbVars, revokedAt>>

-----------------------------------------------------------------------------
(***************************************************************************)
(* What happens at the same time                                           *)
(***************************************************************************)
Move(s, to) == session' = [session EXCEPT ![s].at = to]
Elsewhere == UNCHANGED <<user, org, alert, audit, revokedAt, auditFaults>>

\* login: the user is read ACTIVE; verifying the password takes a while.
FindUserForLogin(s, u) ==
    /\ session[s].at = "none"
    /\ user[u].status = "ACTIVE"
    /\ session' = [session EXCEPT ![s] = [user |-> u, at |-> "found"]]
    /\ UNCHANGED tx
    /\ Elsewhere

\* A wrong password ends the login; incrementFailedLoginCount writes the user.
PasswordMismatch(s) ==
    /\ session[s].at = "found"
    /\ Move(s, "revoked")
    /\ tx' = Written(tx, {session[s].user})
    /\ Elsewhere

\* persistInitialRefreshToken and recordSuccessfulLogin, which writes the user.
PersistInitialToken(s) ==
    /\ session[s].at = "found"
    /\ Move(s, "live")
    /\ tx' = Written(tx, {session[s].user})
    /\ Elsewhere

ClaimForRotation(s) ==
    /\ session[s].at = "live"
    /\ Move(s, "claimed")
    /\ tx' = Written(tx, {s})
    /\ Elsewhere

\* The user must be ACTIVE, or the family is revoked.
LoadForRotation(s) ==
    /\ session[s].at = "claimed"
    /\ Move(s, IF user[session[s].user].status = "ACTIVE" THEN "loaded" ELSE "revoked")
    /\ UNCHANGED tx
    /\ Elsewhere

PersistReplacement(s) ==
    /\ session[s].at = "loaded"
    /\ Move(s, "live")
    /\ UNCHANGED tx
    /\ Elsewhere

\* upsertDailyAnomalyAlert reopens an alert that was resolved.
RaiseAlert ==
    /\ alert # "OPEN"
    /\ alert' = "OPEN"
    /\ tx' = Written(tx, {"alert"})
    /\ UNCHANGED <<user, org, session, audit, revokedAt, auditFaults>>

SessionStep(s) ==
    \/ \E u \in Users : FindUserForLogin(s, u)
    \/ PasswordMismatch(s) \/ PersistInitialToken(s)
    \/ ClaimForRotation(s) \/ LoadForRotation(s) \/ PersistReplacement(s)

TransactionStep(q) ==
    \/ BeginTransaction(q) \/ WriteConflict(q) \/ Refuse(q) \/ CommitTransaction(q)
    \/ AuditUnavailable(q)

AdminNext ==
    \/ \E q \in Requests :
          \/ TransactionStep(q)
          \/ \E actor \in Users, op \in Mutations : Authorise(q, actor, op)
    \/ \E s \in Sessions : SessionStep(s)
    \/ RaiseAlert

AdminSpec == AdminInit /\ [][AdminNext]_adminVars

-----------------------------------------------------------------------------
(***************************************************************************)
(* Properties                                                              *)
(***************************************************************************)
\* docs/01_PRD.md: "mutations that would remove the last active organisation
\* admin are rejected".  Two administrators who demote or disable each other
\* at the same time do not both succeed.
ActiveAdminRemains == \E u \in Users : ActiveAdmin(user[u])

\* No active team lead is without a team and the block threshold stays above
\* the mask threshold, whichever of the fields two requests change at once.
ConfigurationConsistent ==
    org.block > org.mask /\ \A u \in Users : ~LeadWithoutTeam(user[u])

\* A record of a change to an audited field.  A request that sets what is set
\* already writes no document, so its record may be out of order.
ChangeOf(record, action, target) ==
    record.action = action /\ record.target = target /\ record.old # record.new

\* What an audited field is now: it started as first, each record of a change
\* says what it was before, and the newest one what it is now.
Explains(log, action, target, first, now) ==
    LET about == {i \in 1..Len(log) : ChangeOf(log[i], action, target)} IN
    /\ \A i \in about :
          /\ (\A j \in about : j >= i) => log[i].old = first
          /\ \A k \in about :
                k < i /\ (\A j \in about : j <= k \/ j >= i) => log[i].old = log[k].new
          /\ (\A j \in about : j <= i) => log[i].new = now
    /\ about = {} => now = first

\* The audit log explains the state: replaying it from the provisioned
\* documents gives the current ones, with no gap, no lost update and no
\* change without a record, whatever failed or was retried.
AuditExplainsState ==
    /\ \A u \in Users :
          /\ Explains(audit, "user.role_changed", u, InitialUsers[u].role, user[u].role)
          /\ Explains(audit, "user.status_changed", u, InitialUsers[u].status, user[u].status)
          /\ Explains(audit, "user.team_changed", u, InitialUsers[u].team, user[u].team)
    /\ Explains(audit, "organisation.policy_changed", "org", <<1, 2>>, <<org.mask, org.block>>)
    /\ Explains(audit, "organisation.budget_changed", "org", 0, org.budget)
    /\ Explains(audit, "organisation.retention_changed", "org", "METADATA_ONLY", org.mode)

\* docs/05_OPENAPI_SPEC.md, POST revoke-sessions: "It revokes every active
\* refresh session for the tenant-scoped user".  A session revoked by an
\* administrator is not usable afterwards.
RevokedSessionIsGone == \A s \in revokedAt : session[s].at # "live"
=============================================================================

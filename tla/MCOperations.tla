--------------------------- MODULE MCOperations --------------------------
(* Two administrators and a team lead; two mutations at once.  A behaviour  *)
(* is about the users, the organisation's settings, sessions or alerts;     *)
(* mutations of one group run in any combination.  In a fifth kind of       *)
(* behaviour administration rests and overlapping recovery scans and two    *)
(* workers attend to one scope.                                             *)
EXTENDS Administration, EnqueueRecovery, TLC

VARIABLE focus

\* The requests of the administrators and the workers share their two names
\* (Requests = Workers), for no behaviour has both: a smaller group to search.
MCSymmetry == Permutations(Workers) \cup Permutations(Scanners)

MCInitialUsers ==
    [u \in Users |-> IF u = "lead"
                     THEN [role |-> "TEAM_LEAD", status |-> "ACTIVE", team |-> "team"]
                     ELSE [role |-> "ORG_ADMIN", status |-> "ACTIVE", team |-> NoTeam]]

Patch(mask, block, budget) ==
    [kind |-> "policy", mask |-> mask, block |-> block, budget |-> budget]

Group(f) ==
    CASE f = "users" ->
           [kind : {"role"}, user : {"anna", "ben"}, value : {"EMPLOYEE", "ORG_ADMIN"}]
               \cup [kind : {"status"}, user : {"ben"}, value : Statuses]
               \cup [kind : {"role"}, user : {"lead"}, value : {"EMPLOYEE", "TEAM_LEAD"}]
               \cup [kind : {"team"}, user : {"lead"}, value : Teams \cup {NoTeam}]
      [] f = "settings" ->
           {Patch(2, Nothing, Nothing), Patch(Nothing, 3, 1), Patch(Nothing, 2, Nothing),
            Patch(3, 2, Nothing)}
               \cup [kind : {"retention"}, value : RetentionModes]
               \cup [kind : {"role"}, user : {"ben"}, value : {"EMPLOYEE"}]
      [] f = "sessions" ->
           [kind : {"sessions"}, user : {"ben"}]
               \cup [kind : {"status"}, user : {"ben"}, value : {"DISABLED"}]
      [] OTHER -> [kind : {"alert"}, resolved : BOOLEAN] \cup [kind : {"export"}]

Focuses == {"users", "settings", "sessions", "alerts"}
MCMutations == UNION {Group(f) : f \in Focuses}

MCInit == AdminInit /\ RecoveryInit /\ focus \in Focuses \cup {"recovery"}

MCMutation ==
    /\ focus \in Focuses
    /\ AdminNext
    /\ UNCHANGED <<recoveryVars, focus>>
    /\ \A q \in Requests : tx'[q].op # Nothing => tx'[q].op \in Group(focus)
    /\ focus # "sessions" => session' = session
    /\ focus # "alerts" => alert' = alert

MCRecovery ==
    /\ focus = "recovery"
    /\ RecoveryNext
    /\ UNCHANGED <<adminVars, focus>>

MCNext == MCMutation \/ MCRecovery

MCSpec == MCInit /\ [][MCNext]_<<adminVars, recoveryVars, focus>>
=============================================================================

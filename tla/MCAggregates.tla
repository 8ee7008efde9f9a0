---------------------------- MODULE MCAggregates ----------------------------
(* Two requests, two workers.  Billing and analytics write different         *)
(* documents and read only the log, so a behaviour is about one of them:    *)
(* focus is chosen at the start and the other queue stays empty.  A third   *)
(* focus, "claims", has both jobs of one request and more faults.           *)
EXTENDS Aggregates, TLC

VARIABLE focus

MCSymmetry == Permutations(Workers)
MCJobs == {"r1", "r2"} \X {"billing", "analytics"}
MCBillingJobs == {"r1", "r2"} \X {"billing"}

\* Known usage, usage the provider did not report, and a blocked request.
MCOutcomes ==
    {[user |-> "u1", status |-> "COMPLETED", known |-> TRUE, tokens |-> 3],
     [user |-> "u1", status |-> "INTERRUPTED", known |-> FALSE, tokens |-> 3],
     [user |-> "u1", status |-> "BLOCKED", known |-> FALSE, tokens |-> 0]}

Empty(jobs) == \A j \in jobs : jobState'[j] = "missing"

MCNext ==
    /\ AggregateNext
    /\ focus = "billing" => Empty(Jobs \ BillingJobs) /\ faults' <= 1
    /\ focus = "analytics" => Empty(BillingJobs) /\ check' = check /\ faults' <= 1
    /\ focus = "claims" => /\ check' = check
                           /\ \A i \in 1..Len(log') : log'[i].request = "r1" /\ log'[i].known
    /\ focus # "claims" => \A j \in Jobs : jobState[j] \in {"completed", "failed"} =>
                                             jobState'[j] = jobState[j]
    /\ UNCHANGED focus

MCInit == AggregateInit /\ focus \in {"billing", "analytics", "claims"}

MCSpec == MCInit /\ [][MCNext]_<<aggregateVars, focus>>
=============================================================================

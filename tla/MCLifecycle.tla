---------------------------- MODULE MCLifecycle ----------------------------
(* What must come to an end.  A behaviour is about a process that starts and *)
(* shuts down, or about the handler of one chat request; the other part       *)
(* stays in its initial state, of which its fairness asks nothing.            *)
EXTENDS Lifecycle, ChatRequest

VARIABLE focus                \* "process" or "request"

MCVars == <<lifeVars, vars, focus>>

MCKeyOf == [r \in Requests |-> CHOOSE k \in Keys : TRUE]
MCFingerprintOf == [r \in Requests |-> "same"]

MCInit == /\ LifeInit /\ Init
          /\ focus \in {"process", "request"}
          /\ focus = "request" => IsApi

MCNext ==
    /\ UNCHANGED focus
    /\ \/ focus = "process" /\ LifeNext /\ UNCHANGED vars
       \/ focus = "request" /\ Next /\ UNCHANGED lifeVars

MCSpec == MCInit /\ [][MCNext]_MCVars /\ LifeFairness /\ Fairness
=============================================================================

----------------------------- MODULE MCAdmission -----------------------------
(* A behaviour is about logins, chat counters, the provider's health or one    *)
(* prompt; the other parts stand still in it.                                  *)
EXTENDS Admission

VARIABLE focus

MCSpans == {s \in [start : 0..3, end : 1..4, detector : {"api_key", "email", "phone"}] :
               s.start < s.end}
\* Up to three matches; those of one expression do not overlap.
MCPrompts ==
    {[length |-> 4, candidates |-> c] : c \in
        {c \in {{}} \cup {{a, b, d} : a, b, d \in MCSpans} :
            \A a, b \in c : a # b /\ a.detector = b.detector
                => a.end <= b.start \/ b.end <= a.start}}
MCPlain == [length |-> 4, candidates |-> {}]
MCThresholds == {[mask |-> 10, block |-> 60], [mask |-> 50, block |-> 100]}
MCPlaceholderLength ==
    [generic |-> 1, email |-> 3, phone |-> 3, api_key |-> 2, connection_string |-> 2,
     payment_card_luhn |-> 2, government_id |-> 2]

Focuses == {"login", "demo", "chat", "health", "prompt"}
Quiet == \A k \in Keys : counter[k] = NoKey

MCInit ==
    /\ AdmissionInit
    /\ focus \in Focuses
    /\ focus # "prompt" => policy.mask = 10

\* In "health" and "prompt" a request arrives when no window is open.
MCNext ==
    /\ focus' = focus
    /\ \/ focus # "prompt" /\ Tick
       \/ focus = "login" /\ \E a \in Attempts : LoginArrives(a)
       \/ focus = "demo" /\ \E a \in Attempts : DemoArrives(a, "i1")
       \/ \E a \in Attempts : LoginStep(a)
       \/ focus = "health" /\ HealthStep
       \/ focus = "prompt" /\ \E t \in Thresholds : UpdatePolicy(t)
       \/ /\ focus = "prompt" /\ Quiet
          /\ \E r \in Chats : /\ chat[r].stage = "idle"
                               /\ \E p \in Prompts : LoadOrganisation(r, "u1", p)
       \/ /\ focus = "health" /\ Quiet
          /\ \E r \in Chats : LoadOrganisation(r, "u1", MCPlain)
       \/ focus = "chat" /\ \E r \in Chats, u \in Users : LoadOrganisation(r, u, MCPlain)
       \/ \E r \in Chats : ChatStep(r)

MCSpec == MCInit /\ [][MCNext]_<<admissionVars, focus>>
          /\ WF_<<admissionVars, focus>>(Tick /\ focus # "prompt" /\ focus' = focus)
          /\ \A j \in Checks : WF_<<admissionVars, focus>>(
                 (WriteHealth(j) \/ WriteFails(j)) /\ UNCHANGED <<rateVars, policy, chat, focus>>)
===============================================================================

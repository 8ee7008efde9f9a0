------------------------------- MODULE Admission -------------------------------
(* The way of a chat request from the organisation's settings to the provider: *)
(* prepareChatStream of chat.service.ts, seen through the controls that may    *)
(* refuse or rewrite it.  It composes the fixed-window counters (RateLimits),  *)
(* the PII and policy pipeline (PromptPolicy) and the provider's health        *)
(* verdict (ProviderHealth), which share time.  The reservation, the request   *)
(* log and the stream of the same function are ChatRequest's.                  *)
EXTENDS PromptPolicy, RateLimits, ProviderHealth

CONSTANTS
    Chats,          \* chat requests at a time
    Prompts,        \* [length, candidates]: what the detectors' expressions match
    Nothing

\* What matchAll can give: nonempty spans of the text.
ASSUME PromptAssumption ==
    \A p \in Prompts :
        /\ p.length \in Nat
        /\ IsFiniteSet(p.candidates) /\ p.candidates \subseteq Span
        /\ \A c \in p.candidates : c.start < c.end /\ c.end <= p.length

VARIABLES
    policy,         \* the organisation's thresholds
    chat            \* [Chats -> [stage, user, prompt, policy, out]]

admissionVars == <<rateVars, healthVars, policy, chat>>

NoChat == [stage |-> "idle", user |-> Nothing, prompt |-> Nothing,
           policy |-> Nothing, out |-> Nothing]

\* updateOrganisationPolicy commits while requests are under way.
UpdatePolicy(t) ==
    /\ policy # t
    /\ policy' = t
    /\ UNCHANGED <<rateVars, healthVars, chat>>

\* loadOrganisationContext: the thresholds the whole request works with.
LoadOrganisation(r, u, p) ==
    /\ chat[r].stage = "idle"
    /\ chat' = [chat EXCEPT ![r] = [NoChat EXCEPT !.stage = "loaded", !.user = u,
                                                  !.prompt = p, !.policy = policy]]
    /\ UNCHANGED <<rateVars, healthVars, policy>>

\* consumeRateLimit lets the request through, refuses it or is unavailable.
PassRateLimit(r) ==
    /\ chat[r].stage = "loaded"
    /\ ChatAdmitted(chat[r].user)
    /\ chat' = [chat EXCEPT ![r].stage = "rated"]
    /\ UNCHANGED <<healthVars, policy>>

FailRateLimit(r) ==
    /\ chat[r].stage = "loaded"
    /\ ChatRefused(chat[r].user) \/ ChatRateLost(chat[r].user)
    /\ chat' = [chat EXCEPT ![r] = NoChat]
    /\ UNCHANGED <<healthVars, policy>>

\* readBudgetStatus, the PII pipeline, the decision, its event and its audit
\* record; a blocked request ends here.
Decide(r, exceeded) ==
    /\ chat[r].stage = "rated"
    /\ LET out == ProcessPrompt(chat[r].prompt, exceeded, chat[r].policy)
       IN  chat' = [chat EXCEPT ![r] =
                IF out.action = "BLOCK" THEN NoChat
                ELSE [@ EXCEPT !.stage = "decided", !.out = out]]
    /\ UNCHANGED <<rateVars, healthVars, policy>>

\* The budget or the audit store fails: the request fails before the provider.
DecideFails(r) ==
    /\ chat[r].stage = "rated"
    /\ chat' = [chat EXCEPT ![r] = NoChat]
    /\ UNCHANGED <<rateVars, healthVars, policy>>

\* health.state === "UNHEALTHY" refuses
Unavailable(state) == state = "UNHEALTHY"

\* selectProductionCandidate, then the stream is opened with the approved text.
SelectProvider(r) ==
    /\ chat[r].stage = "decided"
    /\ \E state \in ReadHealth :
           chat' = [chat EXCEPT ![r] = IF Unavailable(state) THEN NoChat
                                       ELSE [@ EXCEPT !.stage = "sent"]]
    /\ UNCHANGED <<rateVars, healthVars, policy>>

Finish(r) ==
    /\ chat[r].stage = "sent"
    /\ chat' = [chat EXCEPT ![r] = NoChat]
    /\ UNCHANGED <<rateVars, healthVars, policy>>

Tick ==
    /\ RateTick
    /\ HealthTick
    /\ UNCHANGED <<policy, chat>>

LoginStep(a) ==
    /\ \/ \E k \in Keys : CountAttempt(a, k) \/ CountLost(a, k)
       \/ AnswerAttempt(a)
    /\ UNCHANGED <<healthVars, policy, chat>>

LoginArrives(a) ==
    /\ \E i \in Addresses, c \in Accounts : BeginLogin(a, i, c)
    /\ UNCHANGED <<healthVars, policy, chat>>

DemoArrives(a, i) ==
    /\ BeginDemo(a, i)
    /\ UNCHANGED <<healthVars, policy, chat>>

HealthStep ==
    /\ \/ \E p \in ProviderStates : ProviderChanges(p)
       \/ \E j \in Checks : RunCheck(j) \/ CheckThrows(j) \/ WriteHealth(j) \/ WriteFails(j)
    /\ UNCHANGED <<rateVars, policy, chat>>

ChatStep(r) ==
    \/ PassRateLimit(r) \/ FailRateLimit(r)
    \/ \E exceeded \in BOOLEAN : Decide(r, exceeded)
    \/ DecideFails(r) \/ SelectProvider(r) \/ Finish(r)

AdmissionInit ==
    /\ RateInit /\ HealthInit
    /\ policy \in Thresholds
    /\ chat = [r \in Chats |-> NoChat]

AdmissionNext ==
    \/ Tick
    \/ \E a \in Attempts : LoginStep(a) \/ LoginArrives(a)
    \/ \E a \in Attempts, i \in Addresses : DemoArrives(a, i)
    \/ HealthStep
    \/ \E t \in Thresholds : UpdatePolicy(t)
    \/ \E r \in Chats, u \in Users, p \in Prompts : LoadOrganisation(r, u, p)
    \/ \E r \in Chats : ChatStep(r)

AdmissionSpec == AdmissionInit /\ [][AdmissionNext]_admissionVars

-------------------------------------------------------------------------------
\* A fixed window lets at most twice its limit through in any span of time one
\* window long, however logins, lost replies, users and addresses interleave:
\* RATE_SCRIPT and INCREMENT_SCRIPT (chat requests let through in the last
\* instant of a key, with PTTL 0, are not counted: the code admits them all).
BurstBounded ==
    \A k \in Keys : passed[k][Window] <= 2 * Limit(k)

\* A request the provider was sent carries no character of any detected span
\* once its risk reaches the mask threshold it was judged by, and the masks
\* reported for it are exactly where its placeholders are, the other characters
\* keeping their order: maskClassifiedPii, evaluateAllowWithMask.
MaskedAsReported ==
    \A r \in Chats : chat[r].stage = "sent" =>
        LET out   == chat[r].out
            chars == Range(out.masked) \ {-1}
            gone  == UNION {s.start..(s.end - 1) : s \in Range(out.spans)}
        IN  /\ chars = (0..(chat[r].prompt.length - 1)) \ gone
            /\ {i \in 1..Len(out.masked) : out.masked[i] = -1}
                   = UNION {(m.from + 1)..m.to : m \in Range(out.masks)}
            /\ \A i, j \in 1..Len(out.masked) :
                   i < j /\ out.masked[i] # -1 /\ out.masked[j] # -1
                       => out.masked[i] < out.masked[j]
            /\ RiskScore(out.spans) >= chat[r].policy.mask => out.text = out.masked

\* Resolving overlaps never costs a detection its effect: every match that was
\* dropped shares characters with a kept match of at least its priority, and
\* the kept matches are disjoint, so none is scored or replaced twice:
\* removeOverlaps.
OverlapsResolved ==
    \A r \in Chats : chat[r].stage = "sent" =>
        LET kept == Range(chat[r].out.spans)
        IN  /\ \A a, b \in kept : a # b => (a.start..(a.end - 1)) \cap (b.start..(b.end - 1)) = {}
            /\ \A c \in chat[r].prompt.candidates : \E s \in kept :
                   /\ (c.start..(c.end - 1)) \cap (s.start..(s.end - 1)) # {}
                   /\ Priority[s.detector] >= Priority[c.detector]

\* Nobody stays locked out: a key over its limit is gone after a while even when
\* requests keep arriving (a refused request does not extend the window).
LockoutEnds ==
    \A k \in Keys : (counter[k].count > Limit(k)) ~> (counter[k].count = 0)

\* Once the provider is up for good, chats are not refused for its health for
\* ever: a verdict written late by an overtaken job, or left by a worker that
\* died, expires (PROVIDER_HEALTH_TTL_SECONDS).
OutageVerdictExpires ==
    <>[](provider # "down") => <>[](verdict.state # "UNHEALTHY")

\* What the provider is sent is what the policy engine reported: the resolved
\* detections, all of them and each once, are masked.
MaskingExact == MaskedAsReported /\ OverlapsResolved
===============================================================================

------------------------- MODULE MCProviderFallback -------------------------
(* Concurrent requests over two candidates, and, in behaviours of their own, *)
(* more calls of one provider's circuit with resets in between (the circuits *)
(* of different providers never touch each other).                           *)
EXTENDS ProviderFallback

CONSTANTS groq, second,
          FallbackRequests    \* bound: the requests that run the fallback loop

VARIABLE focus                \* "fallback" or "breaker"

OneCandidate == <<groq>>
TwoCandidates == <<groq, second>>

MCVars == <<fallbackVars, focus>>

MCInit == FallbackInit /\ focus \in {"fallback", "breaker"}

MCLoop ==
    /\ focus = "fallback"
    /\ FallbackNext
    /\ \A r \in Requests \ FallbackRequests : fb'[r].stage = "idle"
    /\ UNCHANGED focus

\* Without the loop every failure is the provider's.
BreakerFrame == atFault' = Providers \X Blames /\ UNCHANGED <<fb, aborted, focus>>

MCBreaker ==
    /\ focus = "breaker"
    /\ BreakerNext
    /\ \A c \in Calls : inflight'[c] # second
    /\ BreakerFrame

MCNext == MCLoop \/ MCBreaker

\* Backoffs are finite, the event loop runs every continuation, and time
\* passes.
MCFairness ==
    /\ \A r \in FallbackRequests :
          WF_MCVars(focus = "fallback" /\ LoopStep(r) /\ UNCHANGED focus)
    /\ WF_MCVars(focus = "fallback" /\ TimePasses /\ UNCHANGED focus)
    /\ WF_MCVars(focus = "breaker" /\ Tick /\ BreakerFrame)

MCSpec == MCInit /\ [][MCNext]_MCVars /\ MCFairness
=============================================================================

------------------------------ MODULE RateLimits ------------------------------
(* The fixed-window counters in Redis of login-rate-limit.service.ts (login by *)
(* address and by account, public demo by address) and of                      *)
(* chat-control.service.ts (chat by user and by organisation).                 *)
(*                                                                             *)
(* A counter is [count, ttl]; count 0 means that the key does not exist.  Time *)
(* is a tick: Redis keeps a key while its PTTL is 0 (it is expired strictly    *)
(* after its deadline), so ttl runs from Window down to 0 and the next tick    *)
(* deletes the key.  The Lua scripts are atomic; a caller may lose the reply   *)
(* of a script, whether or not Redis ran it.                                   *)
EXTENDS Integers, FiniteSets

CONSTANTS
    Addresses, Accounts,    \* where logins come from, what they log in to
    Users,                  \* chat users of one organisation
    Attempts,               \* concurrent login or demo requests
    Window,                 \* length of a window, in ticks
    LoginLimit, UserLimit, OrgLimit

ASSUME RateAssumption ==
    /\ Window \in Nat \ {0}
    /\ {LoginLimit, UserLimit, OrgLimit} \subseteq Nat \ {0}

VARIABLES
    counter,    \* [Keys -> [count, ttl]], in Redis
    attempt,    \* [Attempts -> the login handlers waiting for their scripts]
    passed      \* [Keys -> [n -> requests let through in the last n ticks]]; history

rateVars == <<counter, attempt, passed>>

LoginKeys == ({"address"} \X Addresses) \cup ({"account"} \X Accounts)
DemoKeys  == {"demo"} \X Addresses
ChatKeys  == ({"user"} \X Users) \cup {<<"organisation", "org">>}
Keys      == LoginKeys \cup DemoKeys \cup ChatKeys

Limit(k) == CASE k[1] = "user"         -> UserLimit
              [] k[1] = "organisation" -> OrgLimit
              [] OTHER                 -> LoginLimit

Ages     == 0..Window
NoKey    == [count |-> 0, ttl |-> 0]
Unused   == [n \in Ages |-> 0]
Idle     == [pending |-> {}, over |-> FALSE, failed |-> FALSE, active |-> FALSE]

\* INCR; a count is only ever compared with the limit, so counts above it are
\* not told apart (CountCap).
CountCap(k) == Limit(k) + 1
NextCount(k, n) == IF n < CountCap(k) THEN n + 1 ELSE n

\* Mutant: every request renews the expiry.
Increment_Renews(k, c) == [count |-> NextCount(k, c.count), ttl |-> Window]

\* INCR, and PEXPIRE when the count is 1 (RATE_SCRIPT, INCREMENT_SCRIPT).
Increment(k, c) ==
    [count |-> NextCount(k, c.count), ttl |-> IF c.count = 0 THEN Window ELSE c.ttl]

\* A request is let through now.
Pass(p) == [n \in Ages |-> p[n] + 1]

-------------------------------------------------------------------------------
(* Login and public demo *)

\* loginRateLimiter.consume: one script per key, sent together (Promise.all).
BeginLogin(a, address, account) ==
    /\ ~attempt[a].active
    /\ attempt' = [attempt EXCEPT ![a] =
            [Idle EXCEPT !.active = TRUE,
                         !.pending = {<<"address", address>>, <<"account", account>>}]]
    /\ UNCHANGED <<counter, passed>>

\* publicDemoRateLimiter.consume: one script.
BeginDemo(a, address) ==
    /\ ~attempt[a].active
    /\ attempt' = [attempt EXCEPT ![a] =
            [Idle EXCEPT !.active = TRUE, !.pending = {<<"demo", address>>}]]
    /\ UNCHANGED <<counter, passed>>

\* Mutant: the attempt after the last allowed one is let through too.
LoginExceeded_OffByOne(k, count) == count > Limit(k) + 1

\* count > LOGIN_RATE_LIMIT_ATTEMPTS
LoginExceeded(k, count) == count > Limit(k)

\* One script runs and its reply arrives.  The attempt passes the key when the
\* count does not exceed the limit.
CountAttempt(a, k) ==
    /\ k \in attempt[a].pending
    /\ counter' = [counter EXCEPT ![k] = Increment(k, @)]
    /\ LET over == LoginExceeded(k, counter'[k].count)
       IN  /\ attempt' = [attempt EXCEPT ![a].pending = @ \ {k},
                                         ![a].over = @ \/ over]
           /\ passed' = [passed EXCEPT ![k] = IF over THEN @ ELSE Pass(@)]

\* The script's reply is lost, before or after Redis ran it: 503, while the
\* other script of the same attempt goes on.  It passes nothing.
CountLost(a, k) ==
    /\ k \in attempt[a].pending
    /\ counter' \in {counter, [counter EXCEPT ![k] = Increment(k, @)]}
    /\ attempt' = [attempt EXCEPT ![a].pending = @ \ {k}, ![a].failed = TRUE]
    /\ UNCHANGED passed

\* 503, 429 or on to the password check.
AnswerAttempt(a) ==
    /\ attempt[a].active /\ attempt[a].pending = {}
    /\ attempt' = [attempt EXCEPT ![a] = Idle]
    /\ UNCHANGED <<counter, passed>>

-------------------------------------------------------------------------------
(* Chat *)

ChatKeysOf(u) == {<<"user", u>>, <<"organisation", "org">>}

Consumed(u) == [k \in Keys |-> IF k \in ChatKeysOf(u) THEN Increment(k, counter[k])
                               ELSE counter[k]]

\* retryTtl > 0: the larger PTTL of the keys over their limit.  A key over its
\* limit in its very last instant (PTTL = 0) does not refuse.
RetryTtlPositive(u, c) ==
    \E k \in ChatKeysOf(u) : c[k].count > Limit(k) /\ c[k].ttl > 0

\* consumeRateLimit: both counters in one script.
ChatRefused(u) ==
    /\ RetryTtlPositive(u, Consumed(u))
    /\ counter' = Consumed(u)
    /\ UNCHANGED <<attempt, passed>>

ChatAdmitted(u) ==
    /\ ~RetryTtlPositive(u, Consumed(u))
    /\ counter' = Consumed(u)
    /\ passed' = [k \in Keys |->
            IF k \in ChatKeysOf(u) /\ counter'[k].ttl > 0 THEN Pass(passed[k]) ELSE passed[k]]
    /\ UNCHANGED attempt

\* The reply is lost: 503, the script may have run.
ChatRateLost(u) ==
    /\ counter' \in {counter, Consumed(u)}
    /\ UNCHANGED <<attempt, passed>>

-------------------------------------------------------------------------------
\* One tick of time in Redis.
Elapse(c) == IF c.count = 0 \/ c.ttl = 0 THEN NoKey ELSE [c EXCEPT !.ttl = @ - 1]

RateTick ==
    /\ counter' = [k \in Keys |-> Elapse(counter[k])]
    /\ passed' = [k \in Keys |-> [n \in Ages |-> IF n = 0 THEN 0 ELSE passed[k][n - 1]]]
    /\ UNCHANGED attempt

RateInit ==
    /\ counter = [k \in Keys |-> NoKey]
    /\ attempt = [a \in Attempts |-> Idle]
    /\ passed = [k \in Keys |-> Unused]
===============================================================================

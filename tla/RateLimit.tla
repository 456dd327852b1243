------------------------------ MODULE RateLimit ------------------------------
(***************************************************************************)
(* RateLimiter of packages/rate-limit, a fixed window per key that begins  *)
(* with the first request of the key, and its two uses in packages/core: a *)
(* limiter for all requests and one more for logins.  Time is the clock of *)
(* the process in ticks, of which TicksPerSecond make a second.            *)
(***************************************************************************)
EXTENDS Naturals, FiniteSets, Sequences

CONSTANTS
  Keys,            \* addresses
  GlobalMax,       \* max of the limiter of all requests
  LoginMax,        \* max of the limiter of POST /api/auth/login
  Window,          \* windowMs of both, in ticks
  TicksPerSecond,
  MaxTime          \* bound: the clock

ASSUME RateAssumption ==
  /\ GlobalMax \in Nat \ {0} /\ LoginMax \in Nat \ {0}
  /\ Window \in Nat \ {0} /\ TicksPerSecond \in Nat \ {0} /\ MaxTime \in Nat

Limiters == {"global", "login"}
MaxOf(l) == IF l = "login" THEN LoginMax ELSE GlobalMax

VARIABLES
  now,         \* Date.now()
  entry,       \* per limiter and key: its count and the end of its window
  verdict,     \* what was answered last, and when
  granted      \* history: per limiter and key, when requests were let through

rateVars == <<now, entry, verdict, granted>>

\* No entry is like one that has run out.
Missing == [count |-> 0, resetAt |-> 0]

RateInit ==
  /\ now = 0
  /\ entry = [l \in Limiters |-> [k \in Keys |-> Missing]]
  /\ verdict = [by |-> "nobody", retryAfter |-> 0, at |-> 0, resetAt |-> 0]
  /\ granted = [l \in Limiters |-> [k \in Keys |-> <<>>]]

Tick == now < MaxTime /\ now' = now + 1 /\ UNCHANGED <<entry, verdict, granted>>

\* Mutant of Check: one more than max.
CheckOneMore(l, e) ==
  IF now >= e.resetAt
  THEN [allowed |-> TRUE, entry |-> [count |-> 1, resetAt |-> now + Window]]
  ELSE [allowed |-> e.count <= MaxOf(l),
        entry |-> IF e.count <= MaxOf(l) THEN [e EXCEPT !.count = @ + 1] ELSE e]

\* check() of one limiter: a fresh window, one more in it, or a refusal.
Check(l, e) ==
  IF now >= e.resetAt
  THEN [allowed |-> TRUE, entry |-> [count |-> 1, resetAt |-> now + Window]]
  ELSE [allowed |-> e.count < MaxOf(l),
        entry |-> IF e.count < MaxOf(l) THEN [e EXCEPT !.count = @ + 1] ELSE e]

Ceil(ticks) == (ticks + TicksPerSecond - 1) \div TicksPerSecond

\* The answer to a request that limiter l refuses: Retry-After in seconds.
Refuse429(l, e) ==
  verdict' = [by |-> l, retryAfter |-> Ceil(e.resetAt - now), at |-> now, resetAt |-> e.resetAt]

Pass == verdict' = [by |-> "nobody", retryAfter |-> 0, at |-> now, resetAt |-> 0]

Counted(l, k, checked) ==
  IF checked.allowed THEN [granted EXCEPT ![l][k] = Append(@, now)] ELSE granted

\* A request other than a login is checked by the middleware alone.
AnyRequest(k) ==
  LET c == Check("global", entry["global"][k])
  IN /\ entry' = [entry EXCEPT !["global"][k] = c.entry]
     /\ granted' = Counted("global", k, c)
     /\ IF c.allowed THEN Pass ELSE Refuse429("global", c.entry)
     /\ UNCHANGED now

\* A login that the middleware lets through is checked by its route, too.
LoginRequest(k) ==
  LET c == Check("global", entry["global"][k])
      d == Check("login", entry["login"][k])
  IN /\ c.allowed
     /\ entry' = [entry EXCEPT !["global"][k] = c.entry, !["login"][k] = d.entry]
     /\ granted' = [granted EXCEPT !["global"][k] = Append(@, now),
                                   !["login"][k] = IF d.allowed THEN Append(@, now) ELSE @]
     /\ IF d.allowed THEN Pass ELSE Refuse429("login", d.entry)
     /\ UNCHANGED now

RateNext == Tick \/ \E k \in Keys : AnyRequest(k) \/ LoginRequest(k)

RateSpec == RateInit /\ [][RateNext]_rateVars

-----------------------------------------------------------------------------

\* Any window of time, wherever it begins, sees less than twice the maximum of
\* a limiter let through: one request at least began the fixed window before.
NeverTwiceTheMax ==
  \A l \in Limiters, k \in Keys : \A i, j \in DOMAIN granted[l][k] :
    granted[l][k][j] < granted[l][k][i] + Window => j - i < 2 * MaxOf(l) - 1

\* Whoever waits for as many seconds as it was told when it was refused is
\* past the window that refused it, and is told of no more than a window.
RetryAfterSuffices ==
  verdict.by # "nobody" =>
    /\ verdict.at + verdict.retryAfter * TicksPerSecond >= verdict.resetAt
    /\ verdict.resetAt <= verdict.at + Window
    /\ \A k \in Keys : entry[verdict.by][k].resetAt <= now + Window

\* What a limiter lets through, and what it says to those that it does not.
LimitsHold == NeverTwiceTheMax /\ RetryAfterSuffices
=============================================================================

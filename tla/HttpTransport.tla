--------------------------- MODULE HttpTransport ----------------------------
(***************************************************************************)
(* The HTTP client of the intelligence pipeline (providers/http.py): the   *)
(* token bucket, the circuit breaker and the adaptive rate, as operators   *)
(* on the state of one client.  The program that makes the calls is in     *)
(* Acquisition.                                                            *)
(*                                                                         *)
(* Time is counted in ticks, tokens in parts of which One make a token and *)
(* rates in parts per tick.  A sleep may end after the moment it asked for *)
(* but never before it, and the clock moves in steps of Grain ticks, so a  *)
(* reading may lie behind the time.                                        *)
(***************************************************************************)
EXTENDS Integers

CONSTANTS
    Grain,      \* the step of time.monotonic
    One,        \* parts that make one token
    Burst,      \* TokenBucket.capacity, in tokens
    MaxRate,    \* the configured rate
    MinRate,    \* adaptive_min_rate
    Step,       \* adaptive_step
    Threshold,  \* CircuitBreaker.threshold
    Cooldown,   \* CircuitBreaker.cooldown_s
    MaxRetries, \* HttpClient.max_retries
    Backoff,    \* HttpClient.backoff_s
    RetryAfter, \* delays a Retry-After header may ask for
    Jitter,     \* what jitter may add to a pause
    Never       \* opened_at when the circuit is closed

ASSUME TransportConstants ==
    /\ {Grain, One, Burst, MinRate, Threshold, Backoff} \subseteq Nat \ {0}
    /\ MaxRate \in Nat /\ MinRate <= MaxRate
    /\ {Step, Cooldown, MaxRetries} \subseteq Nat
    /\ RetryAfter \subseteq Nat \ {0} /\ Jitter \subseteq Nat
    /\ Never \notin Nat

Larger(a, b) == IF a < b THEN b ELSE a
Smaller(a, b) == IF a < b THEN a ELSE b

\* A reading of the clock.
Clock(t) == (t \div Grain) * Grain

\* The first tick by which n parts have come in at this rate.
Wait(n, rate) == (n + rate - 1) \div rate

\* A client: limiter and breaker.  tokens may become negative: a coarse clock
\* can read less than the moment the last token was due.  A client without an
\* adaptive_min_rate keeps its rate.
NewClient(t, adaptive) ==
    [tokens |-> Burst * One, last |-> Clock(t), rate |-> MaxRate, adaptive |-> adaptive,
     failures |-> 0, opened |-> Never]

\* _adapt: additive increase, multiplicative decrease.
Adapt(c, throttled) ==
    [c EXCEPT !.rate = IF ~c.adaptive THEN @
                       ELSE IF throttled THEN Larger(MinRate, @ \div 2)
                       ELSE Smaller(MaxRate, @ + Step)]

\* TokenBucket.acquire.
Balance(c, t) == Smaller(Burst * One, c.tokens + (Clock(t) - c.last) * c.rate)

\* When the token that is asked for at t has been waited for.
Due(c, t) ==
    IF Balance(c, t) >= One THEN t ELSE t + Wait(One - Balance(c, t), c.rate)

\* Bug: the token that was waited for is left in the bucket.
Acquire_KeepsWaitedToken(c, t) ==
    IF Balance(c, t) >= One
    THEN [c EXCEPT !.tokens = Balance(c, t) - One, !.last = Clock(t)]
    ELSE [c EXCEPT !.tokens = Balance(c, t),
                   !.last = Clock(t)]

Acquire(c, t) ==
    IF Balance(c, t) >= One
    THEN [c EXCEPT !.tokens = Balance(c, t) - One, !.last = Clock(t)]
    ELSE [c EXCEPT !.tokens = 0,
                   !.last = Larger(Clock(Due(c, t)),
                                   Clock(t) + Wait(One - Balance(c, t), c.rate))]

\* CircuitBreaker.
Allow(c, t) == c.opened = Never \/ Clock(t) - c.opened >= Cooldown

Closed(c) == [c EXCEPT !.failures = 0, !.opened = Never]

\* Bug: a circuit that is open already is not opened again, so that after the
\* first cooldown every call is let through.
Failed_OpensOnce(c, t) ==
    [c EXCEPT !.failures = @ + 1,
              !.opened = IF c.failures + 1 = Threshold THEN Clock(t) ELSE @]

Failed(c, t) ==
    [c EXCEPT !.failures = @ + 1,
              !.opened = IF c.failures + 1 >= Threshold THEN Clock(t) ELSE @]

\* What the answer to one attempt may be.
Retryable == {"throttled", "server", "network"}
Answers == Retryable \union {"ok", "client", "cut"}

\* The client after an answer at t.  A body that ends early ("cut") raises an
\* exception that _request does not catch, before anything is recorded.
Answered(c, answer, t) ==
    CASE answer = "ok" -> Adapt(Closed(c), FALSE)
      [] answer = "cut" -> c
      [] answer = "throttled" -> Failed(Adapt(c, TRUE), t)
      [] OTHER -> Failed(c, t)

\* _retry_after: what the header of a refusal may ask for; a network error has
\* no header, and one that is not a number asks for nothing.
Requested(answer) == IF answer = "network" THEN {} ELSE RetryAfter

\* The pauses before the next attempt: the header of a refusal replaces the
\* backoff, and jitter comes on top of either.
Pauses(answer, delay) == {w + j : w \in {delay} \union Requested(answer), j \in Jitter}
=============================================================================

-------------------------- MODULE AcquisitionProofs --------------------------
(***************************************************************************)
(* What an acquisition keeps whatever its plan, its services, its          *)
(* interruptions and the runs before it in the same directory: a sealed    *)
(* archive that is verified is the whole of a run that ended, no service   *)
(* is asked faster than its bucket allows, a failing service rests, every  *)
(* request is on record, and a history that ends early says why.           *)
(***************************************************************************)
EXTENDS Acquisition, FiniteSums, SequenceTheorems

-----------------------------------------------------------------------------
(* The seal.                                                               *)

\* While a run is going on its directory is not sealed and run.json says that
\* it runs; the run that writes its end counts the lines there are.
SealInv ==
    /\ DOMAIN meta = {"status", "provenance", "exchanges"}
    /\ Running => sealing = NoHash /\ meta.provenance = NoHash /\ meta.status = "running"
    /\ ~Running /\ meta.status = "COMPLETE" => meta.exchanges = Len(lines)

LEMMA SealInit == AcquisitionInit => SealInv
BY DEF AcquisitionInit, SealInv, Running, NewMeta

\* A step of a run that leaves run.json alone.
LEMMA RunKeepsSeal ==
    ASSUME SealInv, Running, UNCHANGED <<meta, sealing>>
    PROVE  SealInv'
BY DEF SealInv, Running

LEMMA SealStep == SealInv /\ [AcquisitionNext]_vars => SealInv'
<1> SUFFICES ASSUME SealInv, [AcquisitionNext]_vars PROVE SealInv'
  OBVIOUS
<1>1. CASE StartRun
  BY <1>1 DEF StartRun, SealInv, StartMeta, NewMeta
<1>2. CASE Blocked
  <2>1. todo' = <<>> /\ sealing' = sealing /\ lines' = lines /\ Running
        /\ meta' = [meta EXCEPT !.status = "BLOCKED"]
    BY <1>2 DEF Blocked, Ends
  <2> QED
    BY <2>1 DEF SealInv, Running
<1>3. CASE EndRun
  <2>1. todo' = <<>> /\ sealing' = sealing /\ lines' = lines /\ Running
        /\ meta' = IF Readable(lines)
                   THEN [meta EXCEPT !.status = "COMPLETE", !.exchanges = Len(lines)] ELSE meta
    BY <1>3 DEF EndRun, Ends
  <2> QED
    BY <2>1 DEF SealInv, Running
<1>4. CASE Select \/ Picked \/ Enrich \/ Loop \/ Rest
  BY <1>4, RunKeepsSeal DEF Select, Picked, Enrich, Loop, Rest, memory, disk
<1>5. CASE Ask \/ Send
  BY <1>5, RunKeepsSeal DEF Ask, Send, Awaiting, disk
<1>6. CASE Succeed \/ Fail \/ Retry \/ Escape
  BY <1>6, RunKeepsSeal DEF Succeed, Fail, Retry, Escape, Receive, Awaiting, disk
<1>7. CASE Record \/ Audit \/ Kill
  BY <1>7, RunKeepsSeal DEF Record, Audit, Kill, Awaiting
<1>8. CASE Seal \/ SealStdout \/ SealMeta \/ KillSeal
  <2>1. /\ ~Running /\ todo' = todo /\ lines' = lines
        /\ \/ meta' = meta
           \/ meta' = [meta EXCEPT !.provenance = sealing]
    BY <1>8 DEF Seal, SealStdout, SealMeta, KillSeal, memory, disk, SealInv
  <2> QED
    BY <2>1 DEF SealInv, Running
<1>9. CASE UNCHANGED vars
  BY <1>9 DEF vars, memory, disk, SealInv, Running
<1> QED
  BY <1>1, <1>2, <1>3, <1>4, <1>5, <1>6, <1>7, <1>8, <1>9 DEF AcquisitionNext

\* An archive that provenance.py calls verified under its seal belongs to a run
\* that wrote its end (acquire.py), and has nothing in it from after that.
THEOREM SealedArchivesEnded == AcquisitionSpec => []SealedIsEnded
<1>1. SealInv => SealedIsEnded
  BY DEF SealInv, SealedIsEnded, Verified
<1> QED
  BY <1>1, SealInit, SealStep, PTL DEF AcquisitionSpec

-----------------------------------------------------------------------------
(* The token bucket.                                                       *)

LEMMA Distributes == \A x, y, m \in Int : (x + y) * m = x * m + y * m
OBVIOUS

LEMMA MoreTimesMore == \A x, y \in Int, m \in Nat : x <= y => x * m <= y * m
OBVIOUS

\* A reading is behind by less than one step, and readings do not go back.
LEMMA ClockReads ==
    ASSUME NEW t \in Nat
    PROVE  Clock(t) \in Nat /\ Clock(t) <= t /\ t < Clock(t) + Grain
BY TransportConstants DEF Clock

LEMMA ClockForward ==
    ASSUME NEW s \in Nat, NEW t \in Nat, s <= t
    PROVE  Clock(s) <= Clock(t)
<1>1. /\ s \div Grain \in Nat /\ t \div Grain \in Nat /\ Grain \in Nat
      /\ s \div Grain <= t \div Grain
  BY TransportConstants
<1> QED
  BY <1>1, MoreTimesMore DEF Clock

\* The wait is long enough for what it waits for.
LEMMA WaitCovers ==
    ASSUME NEW n \in Nat, NEW rate \in Nat, rate >= 1
    PROVE  Wait(n, rate) \in Nat /\ Wait(n, rate) * rate >= n
BY DEF Wait

ClientTypeOK(c) ==
    /\ DOMAIN c = {"tokens", "last", "rate", "adaptive", "failures", "opened"}
    /\ c.tokens \in Nat /\ c.last \in Nat /\ c.rate \in Nat
    /\ 1 <= c.rate /\ c.rate <= MaxRate
    /\ c.failures \in Nat /\ c.opened \in Nat \union {Never}

\* The bucket's clock is ahead of a reading only when a token was waited for,
\* and then the bucket is empty.
BucketOK(c, t) == c.last <= t /\ (c.tokens = 0 \/ c.last <= Clock(t))

\* A token that was there.
LEMMA AcquireAtOnce ==
    ASSUME NEW c, NEW t \in Nat, ClientTypeOK(c), BucketOK(c, t), Balance(c, t) >= One
    PROVE  /\ Due(c, t) = t
           /\ Acquire(c, t).tokens = Balance(c, t) - One /\ Acquire(c, t).last = Clock(t)
           /\ Balance(c, t) \in Int /\ Balance(c, t) <= Burst * One
           /\ Balance(c, t) <= c.tokens + (Clock(t) - c.last) * MaxRate
<1>1. Clock(t) \in Nat /\ One \in Nat /\ 1 <= One /\ Burst \in Nat /\ MaxRate \in Nat
  BY ClockReads, TransportConstants
<1>2. /\ Due(c, t) = t
      /\ Acquire(c, t) = [c EXCEPT !.tokens = Balance(c, t) - One, !.last = Clock(t)]
  BY DEF Due, Acquire
<1>3. /\ (Clock(t) - c.last) * c.rate \in Int /\ Burst * One \in Int
      /\ Balance(c, t) \in {Burst * One, c.tokens + (Clock(t) - c.last) * c.rate}
      /\ Balance(c, t) <= Burst * One /\ Balance(c, t) <= c.tokens + (Clock(t) - c.last) * c.rate
  BY <1>1 DEF Balance, Smaller, ClientTypeOK
<1>4. c.last <= Clock(t)
  <2>1. CASE c.tokens = 0 /\ Clock(t) - c.last <= 0
    <3>1. (Clock(t) - c.last) * c.rate <= 0 * c.rate
      BY <2>1, <1>1, MoreTimesMore DEF ClientTypeOK
    <3> QED
      BY <3>1, <2>1, <1>1, <1>3 DEF ClientTypeOK
  <2> QED
    BY <2>1, <1>1 DEF BucketOK, ClientTypeOK
<1>5. (Clock(t) - c.last) * c.rate <= (Clock(t) - c.last) * MaxRate
  BY <1>1, <1>4 DEF ClientTypeOK
<1> QED
  BY <1>1, <1>2, <1>3, <1>5 DEF ClientTypeOK

\* A token that was waited for.
LEMMA AcquireAfterWait ==
    ASSUME NEW c, NEW t \in Nat, ClientTypeOK(c), BucketOK(c, t), ~(Balance(c, t) >= One)
    PROVE  /\ Due(c, t) \in Nat /\ t <= Due(c, t)
           /\ Acquire(c, t).tokens = 0
           /\ Acquire(c, t).last \in Nat /\ Acquire(c, t).last <= Due(c, t)
           /\ Clock(Due(c, t)) <= Acquire(c, t).last
           /\ One <= c.tokens + (Acquire(c, t).last - c.last) * MaxRate
<1> DEFINE w == Wait(One - Balance(c, t), c.rate)
           next == Larger(Clock(t + w), Clock(t) + w)
<1>1. /\ Clock(t) \in Nat /\ Clock(t) <= t /\ One \in Nat /\ 1 <= One
      /\ Burst \in Nat /\ 1 <= Burst /\ MaxRate \in Nat
  BY ClockReads, TransportConstants
<1>2. /\ (Clock(t) - c.last) * c.rate \in Int /\ One <= Burst * One /\ Burst * One \in Int
      /\ Balance(c, t) = c.tokens + (Clock(t) - c.last) * c.rate
  <2>1. 1 * One <= Burst * One
    BY <1>1, MoreTimesMore
  <2> QED
    BY <1>1, <2>1 DEF Balance, Smaller, ClientTypeOK
<1>3. w \in Nat /\ w * c.rate >= One - Balance(c, t)
  <2>1. One - Balance(c, t) \in Nat /\ c.rate \in Nat /\ c.rate >= 1
    BY <1>1, <1>2 DEF ClientTypeOK
  <2> HIDE DEF w
  <2>2. w = Wait(One - Balance(c, t), c.rate)
    BY DEF w
  <2> QED
    BY <2>1, <2>2, WaitCovers
<1>4. /\ Due(c, t) = t + w /\ Acquire(c, t) = [c EXCEPT !.tokens = 0, !.last = next]
  BY DEF Due, Acquire
<1> HIDE DEF w
<1>5. Clock(t + w) \in Nat /\ Clock(t + w) <= t + w
  BY <1>3, ClockReads
<1>6. /\ next \in Nat /\ next <= t + w /\ Clock(t + w) <= next /\ Clock(t) + w <= next
  BY <1>1, <1>3, <1>5 DEF Larger
<1> HIDE DEF next
<1>7. One <= c.tokens + (Clock(t) + w - c.last) * c.rate
  <2>1. (Clock(t) + w - c.last) * c.rate = (Clock(t) - c.last) * c.rate + w * c.rate
    BY <1>1, <1>3 DEF ClientTypeOK
  <2> QED
    BY <2>1, <1>1, <1>2, <1>3 DEF ClientTypeOK
<1>8. 0 <= Clock(t) + w - c.last
  <2>1. CASE c.tokens = 0 /\ Clock(t) + w - c.last <= 0
    <3>1. (Clock(t) + w - c.last) * c.rate <= 0 * c.rate
      BY <2>1, <1>1, <1>3, MoreTimesMore DEF ClientTypeOK
    <3> QED
      BY <3>1, <2>1, <1>1, <1>3, <1>7 DEF ClientTypeOK
  <2> QED
    BY <2>1, <1>1, <1>3 DEF BucketOK, ClientTypeOK
<1>9. (Clock(t) + w - c.last) * c.rate <= (next - c.last) * MaxRate
  <2>1. (Clock(t) + w - c.last) * c.rate <= (Clock(t) + w - c.last) * MaxRate
    BY <1>1, <1>3, <1>8 DEF ClientTypeOK
  <2>2. (Clock(t) + w - c.last) * MaxRate <= (next - c.last) * MaxRate
    BY <1>1, <1>3, <1>6, MoreTimesMore DEF ClientTypeOK
  <2> QED
    BY <2>1, <2>2, <1>1, <1>3, <1>6 DEF ClientTypeOK
<1>10. One <= c.tokens + (next - c.last) * MaxRate
  BY <1>1, <1>3, <1>6, <1>7, <1>9 DEF ClientTypeOK
<1> QED
  BY <1>3, <1>4, <1>6, <1>10 DEF ClientTypeOK

-----------------------------------------------------------------------------
(* The traces of attempts.                                                 *)

\* Some sequence; of what does not matter.
Sequence(s) == \E S : s \in Seq(S)

TraceTypeOK(T) ==
    /\ Sequence(T)
    /\ \A i \in 1..Len(T) : /\ DOMAIN T[i] = {"sent", "first", "ended", "ok"}
                            /\ T[i].sent \in Nat /\ T[i].ended \in Nat

\* What left since any attempt, with what is in the bucket, came in since then
\* or was the burst.
Spent(T, c) ==
    /\ \A i \in 1..Len(T) :
          (Len(T) - i + 1) * One + c.tokens <= Burst * One + (c.last - T[i].sent + Grain) * MaxRate
    /\ Len(T) >= 1 => c.last <= T[Len(T)].sent

\* The first m attempts have been answered: the breaker counts the failures
\* since the last success, and when they are enough it opened at the last one.
Counted(T, m, c) ==
    /\ \A k \in 1..m : (\A i \in m - k + 1..m : ~T[i].ok) => c.failures >= k
    /\ m >= 1 /\ ~T[m].ok /\ c.failures >= Threshold => c.opened = Clock(T[m].ended)

\* FailingServiceRests, for the n-th attempt of a trace.
Rested(T, n) ==
    n > Threshold /\ T[n].first /\ (\A i \in n - Threshold..n - 1 : ~T[i].ok)
        => T[n].sent + Grain > T[n - 1].ended + Cooldown

LEMMA Appended ==
    ASSUME NEW s, Sequence(s), NEW x
    PROVE  /\ Sequence(Append(s, x))
           /\ Len(s) \in Nat /\ Len(Append(s, x)) = Len(s) + 1
           /\ \A i \in 1..Len(s) : Append(s, x)[i] = s[i]
           /\ Append(s, x)[Len(s) + 1] = x
<1>1. PICK S : s \in Seq(S)
  BY DEF Sequence
<1>2. s \in Seq(S \union {x}) /\ x \in S \union {x}
  BY <1>1
<1>3. Append(s, x) \in Seq(S \union {x})
  BY <1>2
<1> QED
  BY <1>2, <1>3 DEF Sequence

LEMMA LastReplaced ==
    ASSUME NEW s, Sequence(s), NEW x, Len(s) >= 1
    PROVE  LET r == [s EXCEPT ![Len(s)] = x] IN
           /\ Sequence(r) /\ Len(s) \in Nat /\ Len(r) = Len(s)
           /\ \A i \in 1..Len(s) - 1 : r[i] = s[i]
           /\ r[Len(s)] = x
<1>1. PICK S : s \in Seq(S)
  BY DEF Sequence
<1>2. s \in Seq(S \union {x}) /\ x \in S \union {x} /\ Len(s) \in 1..Len(s)
  BY <1>1
<1>3. [s EXCEPT ![Len(s)] = x] \in Seq(S \union {x})
  BY <1>2
<1> QED
  BY <1>2, <1>3 DEF Sequence

\* The client's side of one attempt that is sent, whichever way the token came.
LEMMA AcquireKeeps ==
    ASSUME NEW c, NEW t \in Nat, ClientTypeOK(c), BucketOK(c, t)
    PROVE  LET a == Acquire(c, t)
               d == Due(c, t)
           IN  /\ d \in Nat /\ t <= d
               /\ ClientTypeOK(a) /\ BucketOK(a, d)
               /\ a.failures = c.failures /\ a.opened = c.opened
               /\ One + a.tokens <= Burst * One + (a.last - d + Grain) * MaxRate
               /\ One + a.tokens <= c.tokens + (a.last - c.last) * MaxRate
<1>1. /\ Clock(t) \in Nat /\ Clock(t) <= t /\ t < Clock(t) + Grain
      /\ One \in Nat /\ Burst \in Nat /\ MaxRate \in Nat /\ Grain \in Nat
      /\ Burst * One \in Nat
  BY ClockReads, TransportConstants
<1>2. /\ DOMAIN Acquire(c, t) = DOMAIN c /\ Acquire(c, t).rate = c.rate
      /\ Acquire(c, t).failures = c.failures /\ Acquire(c, t).opened = c.opened
  BY DEF Acquire, ClientTypeOK
<1>3. CASE Balance(c, t) >= One
  <2>1. /\ Due(c, t) = t
        /\ Acquire(c, t).tokens = Balance(c, t) - One /\ Acquire(c, t).last = Clock(t)
        /\ Balance(c, t) \in Int /\ Balance(c, t) <= Burst * One
        /\ Balance(c, t) <= c.tokens + (Clock(t) - c.last) * MaxRate
    BY <1>3, AcquireAtOnce
  <2>2. 0 <= (Clock(t) - t + Grain) * MaxRate
    BY <1>1
  <2> QED
    BY <1>1, <1>2, <1>3, <2>1, <2>2 DEF ClientTypeOK, BucketOK
<1>4. CASE ~(Balance(c, t) >= One)
  <2>1. /\ Due(c, t) \in Nat /\ t <= Due(c, t)
        /\ Acquire(c, t).tokens = 0
        /\ Acquire(c, t).last \in Nat /\ Acquire(c, t).last <= Due(c, t)
        /\ Clock(Due(c, t)) <= Acquire(c, t).last
        /\ One <= c.tokens + (Acquire(c, t).last - c.last) * MaxRate
    BY <1>4, AcquireAfterWait
  <2>2. 0 <= (Acquire(c, t).last - Due(c, t) + Grain) * MaxRate
    <3>1. Clock(Due(c, t)) \in Nat /\ Due(c, t) < Clock(Due(c, t)) + Grain
      BY <2>1, ClockReads
    <3> QED
      BY <1>1, <2>1, <3>1
  <2>3. One <= Burst * One
    <3>1. 1 * One <= Burst * One
      BY TransportConstants, MoreTimesMore
    <3> QED
      BY <3>1, <1>1
  <2>4. ClientTypeOK(Acquire(c, t)) /\ BucketOK(Acquire(c, t), Due(c, t))
    BY <1>2, <2>1 DEF ClientTypeOK, BucketOK
  <2> QED
    BY <1>1, <1>2, <2>1, <2>2, <2>3, <2>4 DEF ClientTypeOK
<1> QED
  BY <1>3, <1>4

\* The client after an answer: its bucket is as it was.
LEMMA AnsweredKeeps ==
    ASSUME NEW c, ClientTypeOK(c), NEW t \in Nat, NEW answer \in Answers, answer # "cut"
    PROVE  LET b == Answered(c, answer, t) IN
           /\ ClientTypeOK(b) /\ b.tokens = c.tokens /\ b.last = c.last
           /\ answer = "ok" => b.failures = 0
           /\ answer # "ok" => /\ b.failures = c.failures + 1
                               /\ b.failures >= Threshold => b.opened = Clock(t)
<1>1. /\ Clock(t) \in Nat /\ MaxRate \in Nat /\ MinRate \in Nat /\ 1 <= MinRate
      /\ MinRate <= MaxRate /\ Step \in Nat
  BY ClockReads, TransportConstants
<1>2. ASSUME NEW d, ClientTypeOK(d)
      PROVE  LET f == Failed(d, t) IN
             /\ ClientTypeOK(f) /\ f.tokens = d.tokens /\ f.last = d.last
             /\ f.failures = d.failures + 1
             /\ f.failures >= Threshold => f.opened = Clock(t)
  BY <1>1, <1>2 DEF Failed, ClientTypeOK
<1>3. ASSUME NEW d, ClientTypeOK(d), NEW throttled \in BOOLEAN
      PROVE  LET f == Adapt(d, throttled) IN
             /\ ClientTypeOK(f) /\ f.tokens = d.tokens /\ f.last = d.last
             /\ f.failures = d.failures
  <2>1. /\ Larger(MinRate, d.rate \div 2) \in Nat /\ Larger(MinRate, d.rate \div 2) >= 1
        /\ Larger(MinRate, d.rate \div 2) <= MaxRate
        /\ Smaller(MaxRate, d.rate + Step) \in Nat /\ Smaller(MaxRate, d.rate + Step) >= 1
        /\ Smaller(MaxRate, d.rate + Step) <= MaxRate
    BY <1>1, <1>3 DEF ClientTypeOK, Larger, Smaller
  <2>2. \E r \in Nat : r >= 1 /\ r <= MaxRate /\ Adapt(d, throttled) = [d EXCEPT !.rate = r]
    <3> DEFINE faster == IF throttled THEN Larger(MinRate, d.rate \div 2) ELSE Smaller(MaxRate, d.rate + Step)
               r == IF ~d.adaptive THEN d.rate ELSE faster
    <3>1. Adapt(d, throttled) = [d EXCEPT !.rate = r]
      BY DEF Adapt
    <3>2. faster \in Nat /\ faster >= 1 /\ faster <= MaxRate
      BY <2>1
    <3>3. d.rate \in Nat /\ d.rate >= 1 /\ d.rate <= MaxRate
      BY <1>3 DEF ClientTypeOK
    <3>4. r = d.rate \/ r = faster
      OBVIOUS
    <3> HIDE DEF faster, r
    <3> QED
      BY <3>1, <3>2, <3>3, <3>4
  <2> QED
    BY <1>3, <2>2 DEF ClientTypeOK
<1>4. /\ ClientTypeOK(Closed(c)) /\ Closed(c).tokens = c.tokens /\ Closed(c).last = c.last
      /\ Closed(c).failures = 0
  BY DEF Closed, ClientTypeOK
<1>5. CASE answer = "ok"
  <2>1. Answered(c, answer, t) = Adapt(Closed(c), FALSE)
    BY <1>5 DEF Answered
  <2> QED
    BY <1>3, <1>4, <1>5, <2>1
<1>6. CASE answer = "throttled"
  <2>1. Answered(c, answer, t) = Failed(Adapt(c, TRUE), t)
    BY <1>6 DEF Answered
  <2>2. /\ ClientTypeOK(Adapt(c, TRUE)) /\ Adapt(c, TRUE).tokens = c.tokens
        /\ Adapt(c, TRUE).last = c.last /\ Adapt(c, TRUE).failures = c.failures
    BY <1>3
  <2> QED
    BY <1>2, <1>6, <2>1, <2>2
<1>7. CASE answer \notin {"ok", "cut", "throttled"}
  <2>1. Answered(c, answer, t) = Failed(c, t)
    BY <1>7 DEF Answered
  <2> QED
    BY <1>2, <1>7, <2>1
<1> QED
  BY <1>5, <1>6, <1>7

LEMMA SpendingAdds ==
    ASSUME NEW k \in Int, NEW l \in Int, NEW m \in Int, NEW sent \in Int, NEW burst \in Int,
           NEW before \in Int, NEW after \in Int,
           k * One + before <= burst + (l - sent + Grain) * MaxRate,
           One + after <= before + (m - l) * MaxRate
    PROVE  (k + 1) * One + after <= burst + (m - sent + Grain) * MaxRate
<1>1. One \in Int /\ Grain \in Int /\ MaxRate \in Int
  BY TransportConstants
<1>2. (k + 1) * One = k * One + One
  BY <1>1
<1>3. (m - sent + Grain) * MaxRate = (l - sent + Grain) * MaxRate + (m - l) * MaxRate
  <2>1. m - sent + Grain = (l - sent + Grain) + (m - l)
    BY <1>1
  <2> QED
    BY <2>1, <1>1, Distributes
<1> DEFINE x == k * One
           y == (l - sent + Grain) * MaxRate
           z == (m - l) * MaxRate
<1>4. x \in Int /\ y \in Int /\ z \in Int
  BY <1>1
<1>5. (k + 1) * One = x + One /\ (m - sent + Grain) * MaxRate = y + z
  BY <1>2, <1>3
<1>6. x + before <= burst + y /\ One + after <= before + z
  OBVIOUS
<1> HIDE DEF x, y, z
<1>7. x + One + after <= burst + (y + z)
  BY <1>1, <1>4, <1>6
<1> QED
  BY <1>5, <1>7

\* One more attempt leaves.
LEMMA SentKeeps ==
    ASSUME NEW T, NEW c, NEW t \in Nat, NEW e,
           TraceTypeOK(T), ClientTypeOK(c), BucketOK(c, t), Spent(T, c),
           DOMAIN e = {"sent", "first", "ended", "ok"}, e.sent = Due(c, t), e.ended \in Nat
    PROVE  TraceTypeOK(Append(T, e)) /\ Spent(Append(T, e), Acquire(c, t))
<1> DEFINE U == Append(T, e)
           n == Len(T)
           a == Acquire(c, t)
           d == Due(c, t)
<1>1. /\ d \in Nat /\ t <= d /\ ClientTypeOK(a) /\ BucketOK(a, d)
      /\ One + a.tokens <= Burst * One + (a.last - d + Grain) * MaxRate
      /\ One + a.tokens <= c.tokens + (a.last - c.last) * MaxRate
  BY AcquireKeeps
<1>2. /\ Sequence(U) /\ n \in Nat /\ Len(U) = n + 1
      /\ \A i \in 1..n : U[i] = T[i]
      /\ U[n + 1] = e
  BY Appended DEF TraceTypeOK
<1> HIDE DEF U, a, d
<1>3. /\ a.tokens \in Nat /\ a.last \in Nat /\ a.last <= d /\ c.tokens \in Nat /\ c.last \in Nat
      /\ One \in Nat /\ Burst * One \in Nat /\ MaxRate \in Nat /\ Grain \in Nat
  BY <1>1, TransportConstants DEF ClientTypeOK, BucketOK
<1>4. e.sent = d
  BY DEF d
<1>5. TraceTypeOK(U)
  <2>1. ASSUME NEW i \in 1..n + 1
        PROVE  DOMAIN U[i] = {"sent", "first", "ended", "ok"} /\ U[i].sent \in Nat /\ U[i].ended \in Nat
    <3>1. CASE i = n + 1
      BY <3>1, <1>1, <1>2, <1>4
    <3>2. CASE i \in 1..n
      BY <3>2, <1>2 DEF TraceTypeOK
    <3> QED
      BY <3>1, <3>2, <1>2
  <2> QED
    BY <2>1, <1>2 DEF TraceTypeOK
<1>6. ASSUME NEW i \in 1..n + 1
      PROVE  (n + 1 - i + 1) * One + a.tokens <= Burst * One + (a.last - U[i].sent + Grain) * MaxRate
  <2>1. CASE i = n + 1
    <3>1. n + 1 - i + 1 = 1 /\ U[i].sent = d
      BY <2>1, <1>2, <1>4
    <3>2. (n + 1 - i + 1) * One = 1 * One
      BY ONLY <3>1
    <3>3. 1 * One = One
      BY <1>3
    <3>4. (a.last - U[i].sent + Grain) * MaxRate = (a.last - d + Grain) * MaxRate
      BY ONLY <3>1
    <3> QED
      BY ONLY <3>2, <3>3, <3>4, <1>1
  <2>2. CASE i \in 1..n
    <3>0. T[i].sent \in Nat
      BY <2>2 DEF TraceTypeOK
    <3>1. /\ U[i].sent = T[i].sent
          /\ (n - i + 1) * One + c.tokens <= Burst * One + (c.last - T[i].sent + Grain) * MaxRate
      BY <2>2, <1>2 DEF Spent
    <3>2. /\ n - i + 1 \in Int /\ c.last \in Int /\ a.last \in Int /\ c.tokens \in Int
          /\ a.tokens \in Int /\ T[i].sent \in Int /\ Burst * One \in Int
      BY <1>2, <1>3, <3>0
    <3>3. (n - i + 1 + 1) * One + a.tokens <= Burst * One + (a.last - T[i].sent + Grain) * MaxRate
      BY <3>1, <3>2, <1>1, SpendingAdds
    <3>4. n - i + 1 + 1 = n + 1 - i + 1
      BY <1>2
    <3>5. (n - i + 1 + 1) * One = (n + 1 - i + 1) * One
      BY ONLY <3>4
    <3>6. (a.last - U[i].sent + Grain) * MaxRate = (a.last - T[i].sent + Grain) * MaxRate
      BY ONLY <3>1
    <3> QED
      BY ONLY <3>3, <3>5, <3>6
  <2> QED
    BY <2>1, <2>2, <1>2
<1> QED
  BY <1>2, <1>3, <1>4, <1>5, <1>6 DEF Spent, U, a

-----------------------------------------------------------------------------
(* One service: its client and the trace of its attempts.                  *)

\* At time t; the last attempt may not have been answered yet.
LEMMA Joined ==
    ASSUME NEW s, NEW t, Sequence(s), Sequence(t)
    PROVE  /\ Sequence(s \o t)
           /\ Len(s) \in Nat /\ Len(t) \in Nat /\ Len(s \o t) = Len(s) + Len(t)
           /\ \A i \in 1..Len(s) + Len(t) :
                 (s \o t)[i] = IF i <= Len(s) THEN s[i] ELSE t[i - Len(s)]
<1>1. PICK S, T : s \in Seq(S) /\ t \in Seq(T)
  BY DEF Sequence
<1>2. s \in Seq(S \union T) /\ t \in Seq(S \union T)
  BY <1>1, SeqMonotonic
<1>3. Len(s) \in Nat /\ Len(t) \in Nat
  BY <1>2, LenProperties
<1> QED
  BY <1>2, <1>3, ConcatProperties DEF Sequence

LEMMA Listed1 ==
    ASSUME NEW n \in Nat, NEW f, f = [i \in 1..n |-> f[i]]
    PROVE  Sequence(f) /\ Len(f) = n
<1> DEFINE S == {f[i] : i \in 1..n}
<1>1. f \in [1..n -> S]
  BY Zenon
<1>2. f \in Seq(S)
  BY <1>1, SeqDef
<1>3. Len(f) = n
  BY <1>1, <1>2, LenProperties
<1> QED
  BY <1>2, <1>3 DEF Sequence

LEMMA FirstOff ==
    ASSUME NEW s, Sequence(s), s # <<>>
    PROVE  /\ Sequence(Tail(s)) /\ Len(s) \in Nat /\ Len(Tail(s)) = Len(s) - 1 /\ Len(s) >= 1
           /\ Head(s) = s[1]
           /\ \A i \in 1..Len(Tail(s)) : Tail(s)[i] = s[i + 1] /\ i + 1 \in 1..Len(s)
<1>1. PICK S : s \in Seq(S)
  BY DEF Sequence
<1>2. Len(s) \in Nat /\ Len(s) >= 1
  BY <1>1, EmptySeq
<1>3. /\ Tail(s) \in Seq(S) /\ Len(Tail(s)) = Len(s) - 1
      /\ \A i \in 1..Len(Tail(s)) : Tail(s)[i] = s[i + 1]
  BY <1>1, HeadTailProperties
<1>4. \A i \in 1..Len(Tail(s)) : i + 1 \in 1..Len(s)
  BY <1>2, <1>3
<1>5. Head(s) = s[1]
  BY <1>1
<1> QED
  BY <1>2, <1>3, <1>4, <1>5 DEF Sequence

LEMMA Literals ==
    /\ Sequence(<<>>) /\ Len(<<>>) = 0
    /\ \A a : Sequence(<<a>>) /\ Len(<<a>>) = 1 /\ <<a>>[1] = a
    /\ \A a, b : /\ Sequence(<<a, b>>) /\ Len(<<a, b>>) = 2
                 /\ <<a, b>>[1] = a /\ <<a, b>>[2] = b
    /\ \A a, b, c : /\ Sequence(<<a, b, c>>) /\ Len(<<a, b, c>>) = 3
                    /\ <<a, b, c>>[1] = a /\ <<a, b, c>>[2] = b /\ <<a, b, c>>[3] = c
<1>1. <<>> \in Seq({})
  OBVIOUS
<1>2. ASSUME NEW a PROVE <<a>> \in Seq({a})
  OBVIOUS
<1>3. ASSUME NEW a, NEW b PROVE <<a, b>> \in Seq({a, b})
  OBVIOUS
<1>4. ASSUME NEW a, NEW b, NEW c PROVE <<a, b, c>> \in Seq({a, b, c})
  OBVIOUS
<1>5. \A a : Len(<<a>>) = 1 /\ <<a>>[1] = a
  OBVIOUS
<1>6. \A a, b : Len(<<a, b>>) = 2 /\ <<a, b>>[1] = a /\ <<a, b>>[2] = b
  OBVIOUS
<1>7. \A a, b, c : /\ Len(<<a, b, c>>) = 3
                   /\ <<a, b, c>>[1] = a /\ <<a, b, c>>[2] = b /\ <<a, b, c>>[3] = c
  OBVIOUS
<1> QED
  BY <1>1, <1>2, <1>3, <1>4, <1>5, <1>6, <1>7, EmptySeq DEF Sequence

ServiceOK(c, T, t, flying) ==
    /\ ClientTypeOK(c) /\ BucketOK(c, t) /\ TraceTypeOK(T) /\ Spent(T, c)
    /\ flying => Len(T) >= 1
    /\ Counted(T, IF flying THEN Len(T) - 1 ELSE Len(T), c)
    /\ Rested(T, Len(T))

LEMMA ServiceWaits ==
    ASSUME NEW c, NEW T, NEW t \in Nat, NEW u \in Nat, t <= u, NEW flying,
           ServiceOK(c, T, t, flying)
    PROVE  ServiceOK(c, T, u, flying)
<1>1. Clock(t) \in Nat /\ Clock(u) \in Nat /\ Clock(t) <= Clock(u)
  BY ClockReads, ClockForward
<1>2. BucketOK(c, u)
  BY <1>1 DEF ServiceOK, BucketOK, ClientTypeOK
<1> QED
  BY <1>2 DEF ServiceOK

LEMMA ServiceStarts ==
    ASSUME NEW t \in Nat, NEW a PROVE ServiceOK(NewClient(t, a), <<>>, t, FALSE)
<1>1. /\ Clock(t) \in Nat /\ Clock(t) <= t /\ Burst * One \in Nat /\ MaxRate \in Nat
      /\ 1 <= MaxRate
  BY ClockReads, TransportConstants
<1>2. ClientTypeOK(NewClient(t, a)) /\ BucketOK(NewClient(t, a), t)
  BY <1>1 DEF NewClient, ClientTypeOK, BucketOK
<1>3. Sequence(<<>>) /\ Len(<<>>) = 0
  <2>1. <<>> \in Seq({})
    OBVIOUS
  <2> QED
    BY <2>1 DEF Sequence
<1>4. TraceTypeOK(<<>>) /\ Spent(<<>>, NewClient(t, a)) /\ Counted(<<>>, 0, NewClient(t, a))
  BY <1>3 DEF TraceTypeOK, Spent, Counted
<1>5. Rested(<<>>, 0)
  BY <1>3, TransportConstants DEF Rested
<1> QED
  BY <1>2, <1>3, <1>4, <1>5 DEF ServiceOK

\* An attempt leaves; a call's first one only when the breaker allows it.
LEMMA ServiceSends ==
    ASSUME NEW c, NEW T, NEW t \in Nat, NEW e, ServiceOK(c, T, t, FALSE),
           DOMAIN e = {"sent", "first", "ended", "ok"}, e.sent = Due(c, t), e.ended \in Nat,
           e.first => Allow(c, t)
    PROVE  ServiceOK(Acquire(c, t), Append(T, e), Due(c, t), TRUE)
<1> DEFINE U == Append(T, e)
           n == Len(T)
           a == Acquire(c, t)
           d == Due(c, t)
<1>1. /\ d \in Nat /\ t <= d /\ ClientTypeOK(a) /\ BucketOK(a, d)
      /\ a.failures = c.failures /\ a.opened = c.opened
  BY AcquireKeeps DEF ServiceOK
<1>2. /\ Sequence(U) /\ n \in Nat /\ Len(U) = n + 1
      /\ \A i \in 1..n : U[i] = T[i]
      /\ U[n + 1] = e
  BY Appended DEF ServiceOK, TraceTypeOK
<1>3. TraceTypeOK(U) /\ Spent(U, a)
  BY SentKeeps DEF ServiceOK
<1>4. Counted(T, n, c)
  BY DEF ServiceOK
<1>5. e.sent = d
  BY DEF d
<1> HIDE DEF U, a, d
<1>6. Counted(U, n, a)
  BY <1>1, <1>2, <1>4 DEF Counted
<1>7. ASSUME NEW m, m = n + 1
      PROVE  Rested(U, m)
  <2>1. SUFFICES ASSUME m > Threshold, U[m].first, \A i \in m - Threshold..m - 1 : ~U[i].ok
                 PROVE  U[m].sent + Grain > U[m - 1].ended + Cooldown
    BY DEF Rested
  <2>2. /\ Threshold \in Nat /\ 1 <= Threshold /\ Cooldown \in Nat /\ Threshold \in 1..n
        /\ m \in Nat /\ n \in 1..n /\ m - 1 = n
    BY <2>1, <1>2, <1>7, TransportConstants
  <2>3. \A i \in n - Threshold + 1..n : ~T[i].ok
    <3>1. \A i \in n - Threshold + 1..n : i \in m - Threshold..m - 1 /\ U[i] = T[i]
      BY <2>2, <1>2, <1>7
    <3> QED
      BY <2>1, <3>1
  <2>4. c.failures >= Threshold
    BY <2>3, <2>2, <1>4 DEF Counted
  <2>5. n \in n - Threshold + 1..n /\ T[n].ended \in Nat
    BY <2>2 DEF ServiceOK, TraceTypeOK
  <2>6. c.opened = Clock(T[n].ended)
    BY <2>2, <2>3, <2>4, <2>5, <1>4 DEF Counted
  <2>7. /\ Clock(T[n].ended) \in Nat /\ T[n].ended < Clock(T[n].ended) + Grain
        /\ Clock(t) \in Nat /\ Clock(t) <= t
    BY <2>5, ClockReads
  <2>8. Clock(t) - Clock(T[n].ended) >= Cooldown
    <3>1. Allow(c, t)
      BY <2>1, <1>2, <1>7
    <3> QED
      BY <3>1, <2>6, <2>7, TransportConstants DEF Allow
  <2>9. /\ Grain \in Nat /\ d \in Nat /\ t <= d
        /\ U[m - 1].ended = T[n].ended /\ U[m].sent = d
    BY <1>1, <1>2, <1>5, <1>7, <2>2, TransportConstants
  <2>10. d + Grain > T[n].ended + Cooldown
    BY <2>2, <2>5, <2>7, <2>8, <2>9
  <2> QED
    BY ONLY <2>9, <2>10
<1> QED
  BY <1>1, <1>2, <1>3, <1>6, <1>7 DEF ServiceOK, U, a, d

\* The last attempt is answered.
LEMMA ServiceAnswers ==
    ASSUME NEW c, NEW T, NEW t \in Nat, NEW u \in Nat, t <= u, ServiceOK(c, T, t, TRUE),
           NEW answer \in Answers, answer # "cut", NEW e,
           e = [T[Len(T)] EXCEPT !.ended = u, !.ok = answer = "ok"]
    PROVE  ServiceOK(Answered(c, answer, u), [T EXCEPT ![Len(T)] = e], u, FALSE)
<1> DEFINE U == [T EXCEPT ![Len(T)] = e]
           n == Len(T)
           b == Answered(c, answer, u)
<1>1. ServiceOK(c, T, u, TRUE)
  BY ServiceWaits
<1>2. n >= 1 /\ Sequence(T)
  BY DEF ServiceOK, TraceTypeOK
<1>3. /\ Sequence(U) /\ n \in Nat /\ Len(U) = n
      /\ \A i \in 1..n - 1 : U[i] = T[i]
      /\ U[n] = e
  BY ONLY <1>2, LastReplaced
<1>4. /\ ClientTypeOK(b) /\ b.tokens = c.tokens /\ b.last = c.last
      /\ answer = "ok" => b.failures = 0
      /\ answer # "ok" => /\ b.failures = c.failures + 1
                          /\ b.failures >= Threshold => b.opened = Clock(u)
  BY AnsweredKeeps DEF ServiceOK
<1>5. DOMAIN T[n] = {"sent", "first", "ended", "ok"} /\ T[n].sent \in Nat
  BY <1>2, <1>3 DEF ServiceOK, TraceTypeOK
<1>6. /\ DOMAIN e = {"sent", "first", "ended", "ok"} /\ e.sent = T[n].sent /\ e.first = T[n].first
      /\ e.ended = u /\ e.ok = (answer = "ok")
  BY <1>5
<1>7. BucketOK(b, u)
  BY <1>1, <1>4 DEF ServiceOK, BucketOK
<1> HIDE DEF U, b
<1>8. \A i \in 1..n : U[i].sent = T[i].sent /\ U[i].first = T[i].first
  <2>1. ASSUME NEW i \in 1..n PROVE U[i].sent = T[i].sent /\ U[i].first = T[i].first
    <3>1. CASE i = n
      BY <3>1, <1>3, <1>6
    <3>2. CASE i \in 1..n - 1
      BY <3>2, <1>3
    <3> QED
      BY <3>1, <3>2, <1>3
  <2> QED
    BY <2>1
<1>9. TraceTypeOK(U)
  <2>1. ASSUME NEW i \in 1..n
        PROVE  DOMAIN U[i] = {"sent", "first", "ended", "ok"} /\ U[i].sent \in Nat /\ U[i].ended \in Nat
    <3>1. CASE i = n
      BY <3>1, <1>3, <1>5, <1>6
    <3>2. CASE i \in 1..n - 1
      BY <3>2, <1>3 DEF ServiceOK, TraceTypeOK
    <3> QED
      BY <3>1, <3>2, <1>3
  <2> QED
    BY <2>1, <1>3 DEF TraceTypeOK
<1>10. Spent(U, b)
  <2>1. ASSUME NEW i \in 1..n
        PROVE  (n - i + 1) * One + b.tokens <= Burst * One + (b.last - U[i].sent + Grain) * MaxRate
    <3>1. (n - i + 1) * One + c.tokens <= Burst * One + (c.last - T[i].sent + Grain) * MaxRate
      BY <2>1, <1>3 DEF ServiceOK, Spent
    <3>2. b.tokens = c.tokens /\ b.last = c.last /\ U[i].sent = T[i].sent
      BY <1>4, <1>8
    <3> QED
      BY ONLY <3>1, <3>2
  <2>2. b.last <= U[n].sent
    BY <1>2, <1>3, <1>4, <1>8 DEF ServiceOK, Spent
  <2> QED
    BY <2>1, <2>2, <1>3 DEF Spent
<1>11. Counted(U, n, b)
  <2>1. Counted(T, n - 1, c)
    BY DEF ServiceOK
  <2>2. ASSUME NEW k \in 1..n, \A i \in n - k + 1..n : ~U[i].ok
        PROVE  b.failures >= k
    <3>1. answer # "ok" /\ b.failures = c.failures + 1 /\ c.failures \in Nat
      <4>1. n \in n - k + 1..n
        BY <1>3
      <4>2. ~e.ok
        BY <4>1, <2>2, <1>3
      <4>3. answer # "ok"
        BY ONLY <4>2, <1>6
      <4> QED
        BY <4>3, <1>4 DEF ServiceOK, ClientTypeOK
    <3>2. CASE k = 1
      BY <3>1, <3>2
    <3>3. CASE k # 1
      <4>1. k - 1 \in 1..n - 1 /\ \A i \in (n - 1) - (k - 1) + 1..n - 1 : ~T[i].ok
        <5>1. k - 1 \in 1..n - 1
          BY <3>3, <1>3
        <5>2. ASSUME NEW i \in (n - 1) - (k - 1) + 1..n - 1 PROVE ~T[i].ok
          <6>1. i \in n - k + 1..n /\ i \in 1..n - 1
            BY <5>1, <1>3
          <6> QED
            BY <6>1, <2>2, <1>3
        <5> QED
          BY <5>1, <5>2
      <4>2. c.failures >= k - 1
        BY <4>1, <2>1 DEF Counted
      <4> QED
        BY <4>2, <3>1
    <3> QED
      BY <3>2, <3>3
  <2>3. ASSUME ~U[n].ok, b.failures >= Threshold
        PROVE  b.opened = Clock(U[n].ended)
    BY <2>3, <1>3, <1>4, <1>6
  <2> QED
    BY <2>2, <2>3 DEF Counted
<1>12. Rested(U, n)
  <2>1. SUFFICES ASSUME n > Threshold, U[n].first, \A i \in n - Threshold..n - 1 : ~U[i].ok
                 PROVE  U[n].sent + Grain > U[n - 1].ended + Cooldown
    BY DEF Rested
  <2>2. Threshold \in Nat /\ 1 <= Threshold
    BY TransportConstants
  <2>3. \A i \in n - Threshold..n - 1 : U[i] = T[i]
    BY <2>1, <2>2, <1>3
  <2>4. n - 1 \in n - Threshold..n - 1 /\ n \in 1..n
    BY <2>2, <1>2, <1>3
  <2>5. T[n].first /\ U[n].sent = T[n].sent /\ U[n - 1] = T[n - 1]
    BY <2>1, <2>3, <2>4, <1>8
  <2> QED
    BY <2>1, <2>3, <2>5 DEF ServiceOK, Rested
<1> QED
  BY <1>3, <1>4, <1>7, <1>9, <1>10, <1>11, <1>12 DEF ServiceOK, U, b

-----------------------------------------------------------------------------
(* All services, through the steps of a run.                               *)

\* Whether p has been asked and has not answered.
Flying(p) == call.at = "sent" /\ ProviderOf(Doing) = p

CallTypeOK ==
    /\ DOMAIN call = {"at", "attempt", "delay", "waits", "tries", "raw"}
    /\ call.at \in {"idle", "send", "sent", "write"} /\ call.delay \in Nat
    /\ call.attempt \in Nat /\ (call.at \in {"send", "sent"} => call.attempt >= 1)
    /\ call.at # "idle" => Running /\ Request(Doing)

\* A call is about to be made for the first time only when the breaker allows.
Allowed == call.at = "send" /\ call.attempt = 1 => Allow(Client, now)

NetInv ==
    /\ now \in Nat /\ began \in Nat /\ CallTypeOK /\ Allowed
    /\ DOMAIN clients = Provider /\ DOMAIN trace = Provider
    /\ \A p \in Provider : ServiceOK(clients[p], trace[p], now, Flying(p))

LEMMA ProviderKnown == ASSUME NEW job PROVE ProviderOf(job) \in Provider
BY DEF ProviderOf, Provider

\* A process begins, or has ended.
LEMMA NetStarts ==
    ASSUME now = 0, clients = [p \in Provider |-> NewClient(0, p \in Adaptive)],
           trace = [p \in Provider |-> <<>>], call = Idle, began = 0
    PROVE  NetInv
<1>1. CallTypeOK /\ Allowed /\ now \in Nat /\ began \in Nat
  <2>1. Idle.at = "idle" /\ DOMAIN Idle = {"at", "attempt", "delay", "waits", "tries", "raw"}
        /\ Idle.delay = 0 /\ Idle.attempt = 0
    BY DEF Idle
  <2> QED
    BY <2>1, TransportConstants DEF CallTypeOK, Allowed
<1>2. \A p \in Provider : ServiceOK(clients[p], trace[p], now, Flying(p))
  <2>1. ASSUME NEW p \in Provider PROVE ServiceOK(clients[p], trace[p], now, Flying(p))
    <3>1. Flying(p) = FALSE
      BY DEF Flying, Idle
    <3>2. clients[p] = NewClient(0, p \in Adaptive) /\ trace[p] = <<>> /\ ServiceOK(NewClient(0, p \in Adaptive), <<>>, 0, FALSE)
      BY ServiceStarts
    <3> QED
      BY <3>1, <3>2
  <2> QED
    BY <2>1
<1> QED
  BY <1>1, <1>2 DEF NetInv

LEMMA NetEnds == Ends => NetInv'
<1>1. /\ DOMAIN Idle = {"at", "attempt", "delay", "waits", "tries", "raw"}
      /\ Idle.at = "idle" /\ Idle.delay = 0 /\ Idle.attempt = 0
  BY DEF Idle
<1> SUFFICES ASSUME Ends PROVE NetInv'
  OBVIOUS
<1>2. /\ now' = 0 /\ clients' = [p \in Provider |-> NewClient(0, p \in Adaptive)]
      /\ trace' = [p \in Provider |-> <<>>] /\ call' = Idle /\ began' = 0
  BY DEF Ends
<1>3. (CallTypeOK /\ Allowed)'
  BY <1>1, <1>2 DEF CallTypeOK, Allowed
<1>4. ASSUME NEW p \in Provider PROVE ServiceOK(clients[p], trace[p], now, Flying(p))'
  <2>1. Flying(p)' = FALSE
    BY <1>1, <1>2 DEF Flying
  <2>2. /\ clients'[p] = NewClient(0, p \in Adaptive) /\ trace'[p] = <<>>
        /\ ServiceOK(NewClient(0, p \in Adaptive), <<>>, 0, FALSE)
    BY <1>2, ServiceStarts
  <2> QED
    BY <2>1, <2>2, <1>2
<1> QED
  BY <1>2, <1>3, <1>4 DEF NetInv

\* A step in which no service is asked or answers.
LEMMA NetQuiet ==
    ASSUME NetInv, UNCHANGED <<clients, trace>>, now' \in Nat, now <= now', began' \in Nat,
           CallTypeOK', Allowed', \A p \in Provider : Flying(p)' = Flying(p)
    PROVE  NetInv'
<1>1. ASSUME NEW p \in Provider PROVE ServiceOK(clients[p], trace[p], now, Flying(p))'
  <2>1. ServiceOK(clients[p], trace[p], now', Flying(p))
    BY ServiceWaits DEF NetInv
  <2> QED
    BY <2>1
<1> QED
  BY <1>1 DEF NetInv

\* A step of run() between calls: nothing is under way before or after it.
LEMMA NetBetween ==
    ASSUME NetInv, UNCHANGED <<clients, trace, call>>, now' \in Nat, now <= now', began' \in Nat,
           call.at = "idle"
    PROVE  NetInv'
<1>1. CallTypeOK' /\ Allowed' /\ \A p \in Provider : Flying(p)' = Flying(p)
  BY DEF NetInv, CallTypeOK, Allowed, Flying
<1> QED
  BY <1>1, NetQuiet

\* A step that leaves the network and the call alone.
LEMMA NetSame == NetInv /\ UNCHANGED <<net, began, call, todo>> => NetInv'
<1> SUFFICES ASSUME NetInv, UNCHANGED <<net, began, call, todo>> PROVE NetInv'
  OBVIOUS
<1>1. UNCHANGED <<now, clients, trace, began, call, todo>>
  BY DEF net
<1>2. CallTypeOK' /\ Allowed' /\ \A p \in Provider : Flying(p)' = Flying(p)
  BY <1>1 DEF NetInv, CallTypeOK, Allowed, Flying, Running, Doing, Request, Client
<1> QED
  BY <1>1, <1>2, NetQuiet DEF NetInv

LEMMA NetAsk == NetInv /\ Ask => NetInv'
<1> SUFFICES ASSUME NetInv, Ask PROVE NetInv'
  OBVIOUS
<1>1. /\ Running /\ Request(Doing) /\ call.at = "idle" /\ todo' = todo
      /\ UNCHANGED <<clients, trace, began>>
      /\ DOMAIN call = {"at", "attempt", "delay", "waits", "tries", "raw"}
      /\ now \in Nat /\ began \in Nat /\ call.delay \in Nat /\ call.attempt \in Nat
      /\ Cooldown \in Nat /\ Backoff \in Nat
  BY TransportConstants DEF Ask, Awaiting, NetInv, CallTypeOK
<1>2. /\ Running' /\ Request(Doing)' /\ Client' = Client
      /\ \A p \in Provider : Flying(p) = FALSE
  BY <1>1 DEF Running, Request, Doing, Client, Flying
<1>3. CASE Allow(Client, now)
  <2>1. now' = now /\ call' = [call EXCEPT !.at = "send", !.attempt = 1, !.delay = Backoff]
    BY <1>3 DEF Ask
  <2>2. /\ call'.at = "send" /\ call'.delay = Backoff /\ call'.attempt = 1
        /\ DOMAIN call' = {"at", "attempt", "delay", "waits", "tries", "raw"}
    BY <2>1, <1>1
  <2>3. CallTypeOK' /\ Allowed' /\ \A p \in Provider : Flying(p)' = Flying(p)
    BY <2>1, <2>2, <1>1, <1>2, <1>3 DEF CallTypeOK, Allowed, Flying
  <2> QED
    BY <2>1, <2>3, <1>1, NetQuiet
<1>4. CASE ~Allow(Client, now)
  <2>1. /\ now' \in {now, now + Cooldown}
        /\ \/ call' = [call EXCEPT !.waits = @ + 1]
           \/ call' = [call EXCEPT !.at = "write"]
    BY <1>4 DEF Ask
  <2>2. /\ call'.at \in {"idle", "write"} /\ call'.delay = call.delay
        /\ call'.attempt = call.attempt
        /\ DOMAIN call' = {"at", "attempt", "delay", "waits", "tries", "raw"}
    BY <2>1, <1>1
  <2>3. CallTypeOK' /\ Allowed' /\ \A p \in Provider : Flying(p)' = Flying(p)
    BY <2>2, <1>1, <1>2 DEF CallTypeOK, Allowed, Flying
  <2> QED
    BY <2>1, <2>3, <1>1, NetQuiet
<1> QED
  BY <1>3, <1>4

LEMMA NetSend == NetInv /\ Send => NetInv'
<1> SUFFICES ASSUME NetInv, Send PROVE NetInv'
  OBVIOUS
<1> DEFINE q == ProviderOf(Doing)
           e == [sent |-> now', first |-> call.attempt = 1, ended |-> now', ok |-> TRUE]
<1>1. /\ Running /\ Request(Doing) /\ call.at = "send" /\ UNCHANGED <<todo, began>>
      /\ now' = Due(Client, now) /\ Client = clients[q]
      /\ clients' = [clients EXCEPT ![q] = Acquire(Client, now)]
      /\ trace' = [trace EXCEPT ![q] = Append(@, e)]
      /\ call' = [call EXCEPT !.at = "sent"]
      /\ DOMAIN call = {"at", "attempt", "delay", "waits", "tries", "raw"}
      /\ now \in Nat /\ began \in Nat
      /\ call.delay \in Nat /\ call.attempt \in Nat /\ call.attempt >= 1
      /\ DOMAIN clients = Provider /\ DOMAIN trace = Provider /\ q \in Provider
  BY ProviderKnown DEF Send, Awaiting, NetInv, CallTypeOK, Client
<1>2. /\ call'.at = "sent" /\ call'.delay = call.delay /\ call'.attempt = call.attempt
      /\ DOMAIN call' = {"at", "attempt", "delay", "waits", "tries", "raw"}
  BY <1>1
<1>3. CallTypeOK' /\ Allowed'
  BY <1>1, <1>2 DEF CallTypeOK, Allowed, Running, Request, Doing
<1>4. \A p \in Provider : Flying(p) = FALSE /\ Flying(p)' = (p = q)
  BY <1>1, <1>2 DEF Flying, Doing
<1>5. ServiceOK(clients[q], trace[q], now, FALSE)
  BY <1>1, <1>4 DEF NetInv
<1>6. now' \in Nat /\ now <= now'
  BY <1>1, <1>5, AcquireKeeps DEF ServiceOK
<1>7. ServiceOK(Acquire(clients[q], now), Append(trace[q], e), now', TRUE)
  <2>1. /\ DOMAIN e = {"sent", "first", "ended", "ok"} /\ e.sent = Due(clients[q], now)
        /\ e.ended \in Nat
    BY <1>1, <1>6
  <2>2. e.first => Allow(clients[q], now)
    BY <1>1 DEF NetInv, Allowed
  <2> HIDE DEF e
  <2> QED
    BY <2>1, <2>2, <1>1, <1>5, ServiceSends
<1>8. ASSUME NEW p \in Provider PROVE ServiceOK(clients[p], trace[p], now, Flying(p))'
  <2>1. CASE p = q
    BY <2>1, <1>1, <1>4, <1>7
  <2>2. CASE p # q
    <3>1. /\ clients'[p] = clients[p] /\ trace'[p] = trace[p]
          /\ Flying(p) = FALSE /\ Flying(p)' = FALSE
      BY <2>2, <1>1, <1>4
    <3>2. ServiceOK(clients[p], trace[p], now, FALSE)
      BY <3>1 DEF NetInv
    <3>3. ServiceOK(clients[p], trace[p], now', FALSE)
      BY <3>2, <1>1, <1>6, ServiceWaits
    <3> QED
      BY <3>1, <3>3
  <2> QED
    BY <2>1, <2>2
<1> QED
  BY <1>1, <1>3, <1>6, <1>8 DEF NetInv

\* An answer, after which the call is done or is made again.
LEMMA NetAnswered ==
    ASSUME NetInv, Awaiting("sent"), NEW answer \in Answers, answer # "cut", Remember(answer),
           now' \in Nat, now + Latency <= now', CallTypeOK',
           call'.at # "sent", call'.at = "send" => call'.attempt # 1
    PROVE  NetInv'
<1> DEFINE q == ProviderOf(Doing)
           u == now + Latency
           e == [trace[q][Len(trace[q])] EXCEPT !.ended = u, !.ok = answer = "ok"]
<1>1. /\ call.at = "sent" /\ UNCHANGED <<todo, began>> /\ Client = clients[q]
      /\ clients' = [clients EXCEPT ![q] = Answered(Client, answer, u)]
      /\ trace' = [trace EXCEPT ![q][Len(trace[q])] = e]
      /\ now \in Nat /\ began \in Nat /\ u \in Nat /\ now <= u /\ u <= now' /\ now <= now'
      /\ DOMAIN clients = Provider /\ DOMAIN trace = Provider /\ q \in Provider
  <2>1. Latency \in Nat
    BY AcquisitionConstants
  <2> QED
    BY <2>1, ProviderKnown DEF Awaiting, Remember, NetInv, Client
<1>2. \A p \in Provider : Flying(p)' = FALSE /\ Flying(p) = (p = q)
  BY <1>1 DEF Flying
<1>3. ServiceOK(clients[q], trace[q], now, TRUE)
  BY <1>1, <1>2 DEF NetInv
<1>4. ServiceOK(Answered(clients[q], answer, u), [trace[q] EXCEPT ![Len(trace[q])] = e], u, FALSE)
  <2>1. e = [trace[q][Len(trace[q])] EXCEPT !.ended = u, !.ok = answer = "ok"]
    OBVIOUS
  <2> HIDE DEF e, u
  <2> QED
    BY <2>1, <1>1, <1>3, ServiceAnswers
<1>5. clients'[q] = Answered(clients[q], answer, u)
      /\ trace'[q] = [trace[q] EXCEPT ![Len(trace[q])] = e]
  BY <1>1
<1> HIDE DEF e, u
<1>6. ASSUME NEW p \in Provider PROVE ServiceOK(clients[p], trace[p], now, Flying(p))'
  <2>1. CASE p = q
    <3>1. ServiceOK(clients'[q], trace'[q], u, FALSE)
      BY <1>4, <1>5
    <3>2. ServiceOK(clients'[q], trace'[q], now', FALSE)
      BY <3>1, <1>1, ServiceWaits
    <3> QED
      BY <3>2, <2>1, <1>2
  <2>2. CASE p # q
    <3>1. /\ clients'[p] = clients[p] /\ trace'[p] = trace[p]
          /\ Flying(p) = FALSE /\ Flying(p)' = FALSE
      BY <2>2, <1>1, <1>2
    <3>2. ServiceOK(clients[p], trace[p], now, FALSE)
      BY <3>1 DEF NetInv
    <3>3. ServiceOK(clients[p], trace[p], now', FALSE)
      BY <3>2, <1>1, ServiceWaits
    <3> QED
      BY <3>1, <3>3
  <2> QED
    BY <2>1, <2>2
<1>7. DOMAIN clients' = Provider /\ DOMAIN trace' = Provider /\ began' \in Nat /\ Allowed'
  BY <1>1 DEF Allowed
<1> QED
  BY <1>6, <1>7 DEF NetInv

LEMMA NetReceives == NetInv /\ (Succeed \/ Fail \/ Retry) => NetInv'
<1> SUFFICES ASSUME NetInv, Succeed \/ Fail \/ Retry PROVE NetInv'
  OBVIOUS
<1>1. /\ Awaiting("sent") /\ Running /\ Request(Doing)
      /\ DOMAIN call = {"at", "attempt", "delay", "waits", "tries", "raw"}
      /\ now \in Nat /\ call.delay \in Nat /\ call.attempt \in Nat /\ call.attempt >= 1
      /\ Latency \in Nat
  BY AcquisitionConstants DEF Succeed, Fail, Retry, Receive, Awaiting, NetInv, CallTypeOK
<1>2. PICK answer \in Answers :
        /\ answer # "cut" /\ Remember(answer)
        /\ \/ /\ call'.at = "write" /\ now' = now + Latency
           \/ /\ call'.at = "send" /\ call'.attempt = call.attempt + 1
              /\ \E pause \in Pauses(answer, call.delay) : now' = now + Latency + pause
        /\ DOMAIN call' = {"at", "attempt", "delay", "waits", "tries", "raw"}
        /\ call'.attempt \in {call.attempt, call.attempt + 1}
        /\ call'.delay \in {call.delay, 2 * call.delay}
  <2>1. CASE Succeed
    <3>1. Remember("ok") /\ now' = now + Latency
          /\ \E raw : call' = [call EXCEPT !.at = "write", !.tries = @ + 1, !.raw = raw]
      BY <2>1 DEF Succeed
    <3> QED
      BY <3>1, <1>1 DEF Answers, Retryable
  <2>2. CASE Fail
    BY <2>2, <1>1 DEF Fail, Answers, Retryable
  <2>3. CASE Retry
    BY <2>3, <1>1 DEF Retry, Answers, Retryable
  <2> QED
    BY <2>1, <2>2, <2>3
<1>3. now' \in Nat /\ now + Latency <= now'
  <2>1. Pauses(answer, call.delay) \subseteq Nat
    <3>1. Requested(answer) \subseteq Nat /\ Jitter \subseteq Nat
      BY TransportConstants DEF Requested
    <3>2. ASSUME NEW w \in {call.delay} \union Requested(answer), NEW j \in Jitter
          PROVE  w + j \in Nat
      <4>1. w \in Nat /\ j \in Nat
        BY <3>1, <3>2, <1>1
      <4> QED
        BY <4>1
    <3> QED
      BY <3>2 DEF Pauses
  <2> QED
    BY <2>1, <1>1, <1>2
<1>4. CallTypeOK' /\ call'.at # "sent" /\ (call'.at = "send" => call'.attempt # 1)
  <2>1. todo' = todo
    BY <1>2 DEF Remember
  <2> QED
    BY <2>1, <1>1, <1>2 DEF CallTypeOK, Running, Request, Doing
<1> QED
  BY <1>1, <1>2, <1>3, <1>4, NetAnswered

LEMMA NetStep == NetInv /\ [AcquisitionNext]_vars => NetInv'
<1> SUFFICES ASSUME NetInv, [AcquisitionNext]_vars PROVE NetInv'
  OBVIOUS
<1>1. CASE Blocked \/ EndRun \/ Escape \/ Kill
  <2>1. Ends
    BY <1>1 DEF Blocked, EndRun, Escape, Kill
  <2> QED
    BY <2>1, NetEnds
<1>2. CASE StartRun \/ Select \/ Picked \/ Enrich \/ Audit
  <2>1. call.at = "idle" /\ now \in Nat /\ began \in Nat
    BY <1>2 DEF StartRun, Select, Picked, Enrich, Audit, NetInv, CallTypeOK, Request, Steps
  <2>2. Ends \/ UNCHANGED <<now, clients, trace, call, began>>
    BY <1>2 DEF StartRun, Select, Picked, Enrich, Audit, net
  <2> QED
    BY <2>1, <2>2, NetBetween, NetEnds
<1>3. CASE Loop \/ Rest
  <2>1. call.at = "idle" /\ now \in Nat /\ began \in Nat /\ CycleTime \in Nat
    BY <1>3, AcquisitionConstants DEF Loop, Rest, NetInv, CallTypeOK, Request, Steps
  <2>2. /\ UNCHANGED <<clients, trace, call>> /\ now' \in Nat /\ now <= now' /\ began' \in Nat
    <3>1. CASE Loop
      <4>1. began' = now /\ UNCHANGED <<net, call>>
        BY <3>1, Zenon DEF Loop
      <4> QED
        BY <4>1, <2>1 DEF net
    <3>2. CASE Rest
      <4>1. /\ now' = Larger(now, began + CycleTime)
            /\ clients' = clients /\ trace' = trace /\ call' = call /\ began' = began
        BY <3>2 DEF Rest
      <4>2. /\ Larger(now, began + CycleTime) \in Nat
            /\ now <= Larger(now, began + CycleTime)
        BY <2>1 DEF Larger
      <4> QED
        BY <4>1, <4>2, <2>1
    <3> QED
      BY <1>3, <3>1, <3>2
  <2> QED
    BY <2>1, <2>2, NetBetween
<1>4. CASE Ask
  BY <1>4, NetAsk
<1>5. CASE Send
  BY <1>5, NetSend
<1>6. CASE Succeed \/ Fail \/ Retry
  BY <1>6, NetReceives
<1>7. CASE Record
  <2>1. /\ call.at = "write" /\ call' = Idle /\ UNCHANGED <<now, clients, trace, began>>
        /\ now \in Nat /\ began \in Nat
        /\ DOMAIN Idle = {"at", "attempt", "delay", "waits", "tries", "raw"}
        /\ Idle.at = "idle" /\ Idle.delay = 0 /\ Idle.attempt = 0
    BY <1>7 DEF Record, Awaiting, net, Idle, NetInv
  <2>2. CallTypeOK' /\ Allowed' /\ \A p \in Provider : Flying(p)' = Flying(p)
    BY <2>1 DEF CallTypeOK, Allowed, Flying
  <2> QED
    BY <2>1, <2>2, NetQuiet
<1>8. CASE Seal \/ SealStdout \/ SealMeta \/ KillSeal \/ UNCHANGED vars
  BY <1>8, NetSame DEF Seal, SealStdout, SealMeta, KillSeal, vars, memory
<1> QED
  BY <1>1, <1>2, <1>3, <1>4, <1>5, <1>6, <1>7, <1>8 DEF AcquisitionNext

LEMMA NetHolds == AcquisitionSpec => []NetInv
<1>1. AcquisitionInit => NetInv
  BY NetStarts DEF AcquisitionInit
<1> QED
  BY <1>1, NetStep, PTL DEF AcquisitionSpec

\* TokenBucket (http.py): whatever the grain of the clock and however the rate
\* is adapted, no more requests leave than the burst and the configured rate.
THEOREM RateIsRespected == AcquisitionSpec => []RateRespected
<1>1. NetInv => RateRespected
  <2> SUFFICES ASSUME NetInv, NEW p \in Provider, NEW i \in 1..Len(trace[p])
               PROVE  (Len(trace[p]) - i + 1 - Burst) * One
                        <= (trace[p][Len(trace[p])].sent - trace[p][i].sent + Grain) * MaxRate
    BY DEF RateRespected
  <2> DEFINE T == trace[p]
             c == clients[p]
             n == Len(T)
             k == n - i + 1
             x == T[n].sent - T[i].sent + Grain
             y == c.last - T[i].sent + Grain
  <2>1. /\ ClientTypeOK(c) /\ TraceTypeOK(T) /\ n \in Nat /\ i \in 1..n
        /\ k * One + c.tokens <= Burst * One + y * MaxRate
        /\ c.last <= T[n].sent
    <3>1. ClientTypeOK(c) /\ TraceTypeOK(T) /\ Spent(T, c)
      BY DEF NetInv, ServiceOK
    <3>2. n \in Nat
      BY <3>1, Appended DEF TraceTypeOK
    <3> QED
      BY <3>1, <3>2 DEF Spent
  <2>2. /\ One \in Int /\ Burst \in Int /\ MaxRate \in Nat /\ Grain \in Int /\ k \in Int
        /\ c.tokens \in Nat /\ c.last \in Int /\ T[n].sent \in Int /\ T[i].sent \in Int
    <3>1. One \in Int /\ Burst \in Int /\ MaxRate \in Nat /\ Grain \in Int
      BY TransportConstants
    <3>2. i \in Int /\ n \in 1..n /\ k \in Int
      BY <2>1
    <3>3. c.tokens \in Nat /\ c.last \in Int /\ T[n].sent \in Int /\ T[i].sent \in Int
      <4>1. c.tokens \in Nat /\ c.last \in Nat
        BY <2>1 DEF ClientTypeOK
      <4>2. \A j \in 1..n : T[j].sent \in Nat
        BY <2>1 DEF TraceTypeOK
      <4> HIDE DEF T, n, c, k
      <4> QED
        BY <4>1, <4>2, <3>2, <2>1
    <3> QED
      BY <3>1, <3>2, <3>3
  <2>3. x \in Int /\ y \in Int /\ y <= x
    <3>1. c.last <= T[n].sent
      BY <2>1
    <3> HIDE DEF n, k
    <3> QED
      BY <3>1, <2>2
  <2>4. k - Burst = Len(trace[p]) - i + 1 - Burst
    BY <2>1, <2>2
  <2> HIDE DEF k, x, y
  <2>5. y * MaxRate <= x * MaxRate
    BY <2>2, <2>3, MoreTimesMore
  <2>6. (k - Burst) * One = k * One - Burst * One
    BY <2>2
  <2>7. k * One \in Int /\ Burst * One \in Int /\ y * MaxRate \in Int /\ x * MaxRate \in Int
    BY <2>2, <2>3
  <2>8. k * One - Burst * One <= x * MaxRate
    BY <2>1, <2>2, <2>5, <2>7
  <2>9. (Len(trace[p]) - i + 1 - Burst) * One <= x * MaxRate
    BY ONLY <2>4, <2>6, <2>8
  <2> QED
    BY <2>9, Zenon DEF x
<1> QED
  BY <1>1, NetHolds, PTL

\* CircuitBreaker (http.py) under Fetcher.get: a service that has failed often
\* enough in a row is left alone for the cooldown before the next call.
THEOREM FailingServicesRest == AcquisitionSpec => []FailingServiceRests
<1>1. NetInv => FailingServiceRests
  BY DEF NetInv, ServiceOK, Rested, FailingServiceRests
<1> QED
  BY <1>1, NetHolds, PTL

-----------------------------------------------------------------------------
(* The manifest.                                                           *)

RowsOK(L) ==
    /\ Sequence(L)
    /\ \A i \in 1..Len(L) :
          /\ DOMAIN L[i] = {"text", "endpoint", "about", "raw", "req", "tries"}
          /\ L[i].tries \in Nat

TriesOf(L) == [i \in 1..Len(L) |-> L[i].tries]

\* A line that is added leaves the others as they are, or nothing that can be
\* read.
LEMMA LineAdded ==
    ASSUME NEW L, RowsOK(L), NEW x,
           DOMAIN x = {"text", "endpoint", "about", "raw", "req", "tries"}, x.tries \in Nat
    PROVE  /\ RowsOK(Append1(L, x)) /\ Len(L) \in Nat /\ Len(L) <= Len(Append1(L, x))
           /\ Readable(Append1(L, x)) => Readable(L) /\ Append1(L, x) = Append(L, x)
<1>1. Len(L) \in Nat /\ (L # <<>> => Len(L) >= 1)
  <2>1. PICK S : L \in Seq(S)
    BY DEF RowsOK, Sequence
  <2> QED
    BY <2>1
<1>2. CASE L # <<>> /\ Tail1(L).text # "line"
  <2> DEFINE e == [L[Len(L)] EXCEPT !.text = "torn"]
             R == [L EXCEPT ![Len(L)] = e]
  <2>1. Append1(L, x) = R
    BY <1>2 DEF Append1
  <2>2. /\ Sequence(R) /\ Len(R) = Len(L) /\ R[Len(L)] = e
        /\ \A i \in 1..Len(L) - 1 : R[i] = L[i]
    BY <1>1, <1>2, LastReplaced DEF RowsOK
  <2>3. /\ DOMAIN e = {"text", "endpoint", "about", "raw", "req", "tries"}
        /\ e.tries \in Nat /\ e.text = "torn"
    BY <1>1, <1>2 DEF RowsOK
  <2> HIDE DEF e, R
  <2>4. \A i \in 1..Len(L) : i \in 1..Len(L) - 1 \/ i = Len(L)
    BY <1>1
  <2>5. RowsOK(R)
    BY <2>2, <2>3, <2>4 DEF RowsOK
  <2>6. ~Readable(R)
    BY <1>1, <1>2, <2>2, <2>3 DEF Readable
  <2> QED
    BY <1>1, <2>1, <2>2, <2>5, <2>6
<1>3. CASE ~(L # <<>> /\ Tail1(L).text # "line")
  <2>1. Append1(L, x) = Append(L, x)
    BY <1>3 DEF Append1
  <2>2. /\ Sequence(Append(L, x)) /\ Len(Append(L, x)) = Len(L) + 1
        /\ Append(L, x)[Len(L) + 1] = x
        /\ \A i \in 1..Len(L) : Append(L, x)[i] = L[i]
    BY Appended DEF RowsOK
  <2>3. \A i \in 1..Len(L) + 1 : i \in 1..Len(L) \/ i = Len(L) + 1
    BY <1>1
  <2>4. RowsOK(Append(L, x))
    BY <2>2, <2>3 DEF RowsOK
  <2>5. Readable(Append(L, x)) => Readable(L)
    BY <1>1, <2>2 DEF Readable
  <2> QED
    BY <1>1, <2>1, <2>2, <2>4, <2>5
<1> QED
  BY <1>2, <1>3

\* It adds its own attempts to those after any earlier line.
LEMMA LineCounts ==
    ASSUME NEW L, RowsOK(L), NEW x, x.tries \in Nat, NEW b \in Nat, b <= Len(L),
           RowsOK(Append(L, x))
    PROVE  SumFunctionOnSet(TriesOf(Append(L, x)), b + 1..Len(Append(L, x)))
             = SumFunctionOnSet(TriesOf(L), b + 1..Len(L)) + x.tries
<1> DEFINE R == Append(L, x)
           n == Len(L)
           S == b + 1..n
           f == TriesOf(L)
           g == TriesOf(R)
<1>1. /\ n \in Nat /\ Len(R) = n + 1 /\ R[n + 1] = x
      /\ \A i \in 1..n : R[i] = L[i]
  BY Appended DEF RowsOK
<1>2. \A i \in S : f[i] = L[i].tries /\ g[i] = f[i] /\ L[i].tries \in Nat
  BY <1>1 DEF TriesOf, RowsOK
<1>3. g[n + 1] = x.tries
  BY <1>1 DEF TriesOf
<1>4. IsFiniteSet(S)
  <2>1. b + 1 \in Int /\ n \in Int
    BY <1>1
  <2> HIDE DEF n
  <2> QED
    BY <2>1, FS_Interval
<1>5. n + 1 \notin S /\ b + 1..n + 1 = S \union {n + 1}
  <2> HIDE DEF n
  <2> QED
    BY <1>1
<1> HIDE DEF R, n, S, f, g
<1>6. \A i \in S \union {n + 1} : g[i] \in Int
  BY <1>2, <1>3
<1>7. SumFunctionOnSet(g, S \union {n + 1}) = g[n + 1] + SumFunctionOnSet(g, S)
  BY <1>4, <1>5, <1>6, SumAdd
<1>8. SumFunctionOnSet(f, S) = SumFunctionOnSet(g, S) /\ SumFunctionOnSet(f, S) \in Int
  <2>1. \A i \in S : f[i] \in Int /\ g[i] = f[i]
    BY <1>2
  <2> QED
    BY <2>1, <1>4, SumSame, SumInt
<1>9. SumFunctionOnSet(g, b + 1..n + 1) = SumFunctionOnSet(f, S) + x.tries
  <2>1. SumFunctionOnSet(g, b + 1..n + 1) = x.tries + SumFunctionOnSet(f, S)
    BY <1>3, <1>5, <1>7, <1>8
  <2> QED
    BY <2>1, <1>8
<1> QED
  BY <1>1, <1>9 DEF R, n, S, f, g

LEMMA ProvidersAreFinite == IsFiniteSet(Provider)
<1>1. IsFiniteSet({}) /\ {} \union {"gecko"} = {"gecko"}
  BY FS_EmptySet
<1>2. IsFiniteSet({"gecko"})
  BY <1>1, FS_AddElement
<1>3. IsFiniteSet({"gecko"} \union {"dex"})
  BY <1>2, FS_AddElement
<1>4. IsFiniteSet(({"gecko"} \union {"dex"}) \union {"rpc"})
  BY <1>3, FS_AddElement
<1>5. IsFiniteSet((({"gecko"} \union {"dex"}) \union {"rpc"}) \union {"gdelt"})
  BY <1>4, FS_AddElement
<1>6. IsFiniteSet(((({"gecko"} \union {"dex"}) \union {"rpc"}) \union {"gdelt"}) \union {"reddit"})
  BY <1>5, FS_AddElement
<1>7. Provider = ((({"gecko"} \union {"dex"}) \union {"rpc"}) \union {"gdelt"}) \union {"reddit"}
  BY DEF Provider
<1> QED
  BY <1>6, <1>7

LengthsOf(T) == [p \in Provider |-> Len(T[p])]

\* One more attempt of one service is one more attempt.
LEMMA AttemptAdded ==
    ASSUME NEW T, NEW U, NEW q \in Provider, \A p \in Provider : Len(T[p]) \in Nat,
           \A p \in Provider : Len(U[p]) = IF p = q THEN Len(T[p]) + 1 ELSE Len(T[p])
    PROVE  SumFunctionOnSet(LengthsOf(U), Provider) = SumFunctionOnSet(LengthsOf(T), Provider) + 1
<1> DEFINE f == LengthsOf(T)
           g == LengthsOf(U)
           R == Provider \ {q}
<1>1. /\ \A p \in Provider : f[p] \in Int /\ g[p] \in Int
      /\ g[q] = f[q] + 1 /\ \A p \in R : g[p] = f[p]
  BY DEF LengthsOf
<1>2. IsFiniteSet(Provider) /\ IsFiniteSet(R) /\ R \subseteq Provider
  BY ProvidersAreFinite, FS_Subset
<1>3. /\ SumFunctionOnSet(f, Provider) = f[q] + SumFunctionOnSet(f, R)
      /\ SumFunctionOnSet(g, Provider) = g[q] + SumFunctionOnSet(g, R)
  <2> HIDE DEF f, g
  <2> QED
    BY <1>1, <1>2, SumRemove
<1>4. SumFunctionOnSet(f, R) = SumFunctionOnSet(g, R) /\ SumFunctionOnSet(f, R) \in Int
  <2> HIDE DEF f, g, R
  <2> QED
    BY <1>1, <1>2, SumSame, SumInt
<1> HIDE DEF f, g, R
<1>5. SumFunctionOnSet(g, Provider) = SumFunctionOnSet(f, Provider) + 1
  BY <1>1, <1>3, <1>4
<1> QED
  BY <1>5 DEF f, g

LEMMA AttemptsSame ==
    ASSUME NEW T, NEW U, \A p \in Provider : Len(T[p]) \in Nat /\ Len(U[p]) = Len(T[p])
    PROVE  SumFunctionOnSet(LengthsOf(U), Provider) = SumFunctionOnSet(LengthsOf(T), Provider)
BY DEF LengthsOf

LEMMA NoAttempts ==
    ASSUME NEW T, \A p \in Provider : Len(T[p]) = 0
    PROVE  SumFunctionOnSet(LengthsOf(T), Provider) = 0
<1>1. \A p \in Provider : LengthsOf(T)[p] = 0
  BY DEF LengthsOf
<1> QED
  BY <1>1, ProvidersAreFinite, SumZero

\* What has left and is not in the call's own count yet.
Away == IF call.at = "sent" THEN 1 ELSE 0

\* The inductive invariant: between runs nothing is counted anywhere, and a
\* run's lines begin where the manifest ended.
RecordInv ==
    /\ RowsOK(lines) /\ base \in Nat /\ base <= Len(lines)
    /\ DOMAIN call = {"at", "attempt", "delay", "waits", "tries", "raw"}
    /\ call.tries \in Nat /\ (call.at = "idle" => call.tries = 0)
    /\ \A p \in Provider : Len(trace[p]) \in Nat
    /\ ~Running => base = 0 /\ call = Idle /\ \A p \in Provider : Len(trace[p]) = 0
    /\ Running /\ Readable(lines) =>
          SumFunctionOnSet(LengthsOf(trace), Provider)
            = SumFunctionOnSet(TriesOf(lines), base + 1..Len(lines)) + call.tries + Away

LEMMA IdleIsIdle ==
    /\ DOMAIN Idle = {"at", "attempt", "delay", "waits", "tries", "raw"}
    /\ Idle.at = "idle" /\ Idle.tries = 0
BY DEF Idle

LEMMA NothingCounted == SumFunctionOnSet(TriesOf(lines), Len(lines) + 1..Len(lines)) = 0
BY SumEmpty

LEMMA RecordInit == AcquisitionInit => RecordInv
<1> SUFFICES ASSUME AcquisitionInit PROVE RecordInv
  OBVIOUS
<1>1. /\ lines = <<>> /\ base = 0 /\ call = Idle /\ todo = <<>>
      /\ \A p \in Provider : trace[p] = <<>>
  BY DEF AcquisitionInit
<1>2. RowsOK(<<>>)
  <2>1. <<>> \in Seq({})
    OBVIOUS
  <2> QED
    BY <2>1 DEF RowsOK, Sequence
<1> QED
  BY <1>1, <1>2, IdleIsIdle DEF RecordInv, Running

\* The process ends; what it leaves of a line does not matter for its counts.
LEMMA RecordEnds ==
    ASSUME RecordInv, Ends, RowsOK(lines'), Len(lines') \in Nat
    PROVE  RecordInv'
<1>1. /\ base' = 0 /\ call' = Idle /\ todo' = <<>>
      /\ \A p \in Provider : trace'[p] = <<>>
  BY DEF Ends
<1> QED
  BY <1>1, IdleIsIdle DEF RecordInv, Running

LEMMA LinesCounted == RecordInv => Len(lines) \in Nat
<1> SUFFICES ASSUME RecordInv PROVE Len(lines) \in Nat
  OBVIOUS
<1>1. PICK S : lines \in Seq(S)
  BY DEF RecordInv, RowsOK, Sequence
<1> QED
  BY <1>1

LEMMA LinesAreCounted ==
    RecordInv => SumFunctionOnSet(TriesOf(lines), base + 1..Len(lines)) \in Int
<1> SUFFICES ASSUME RecordInv
             PROVE  SumFunctionOnSet(TriesOf(lines), base + 1..Len(lines)) \in Int
  OBVIOUS
<1>1. Len(lines) \in Nat /\ base \in Nat
  BY LinesCounted DEF RecordInv
<1>2. IsFiniteSet(base + 1..Len(lines))
  BY <1>1, FS_Interval
<1>3. \A i \in base + 1..Len(lines) : TriesOf(lines)[i] \in Int
  BY <1>1 DEF TriesOf, RecordInv, RowsOK
<1> QED
  BY <1>2, <1>3, SumInt

\* A step that counts nothing.
LEMMA RecordSame ==
    ASSUME RecordInv, UNCHANGED <<lines, base, call, trace>>, Running' = Running
    PROVE  RecordInv'
BY DEF RecordInv, Away

LEMMA RecordStart ==
    ASSUME RecordInv, StartRun, Running'
    PROVE  RecordInv'
<1>1. /\ ~Running /\ base' = Len(lines) /\ lines' = lines /\ call' = call /\ trace' = trace
      /\ call = Idle /\ \A p \in Provider : Len(trace[p]) = 0
  BY DEF StartRun, net, RecordInv
<1>3. Len(lines) \in Nat
  BY LinesCounted
<1>4. Away' = 0 /\ call'.tries = 0
  BY <1>1, IdleIsIdle DEF Away
<1>5. SumFunctionOnSet(LengthsOf(trace'), Provider) = 0
  BY <1>1, NoAttempts
<1> QED
  BY <1>1, <1>3, <1>4, <1>5, NothingCounted, IdleIsIdle DEF RecordInv

-----------------------------------------------------------------------------
(* What is still to do.                                                    *)

\* A page of signatures is asked for only below the limit.
PageOK(job) == job.endpoint = "signatures" => job.page \in Nat /\ job.page < MaxPages

Paged(s) == Sequence(s) /\ \A i \in 1..Len(s) : PageOK(s[i])

\* The steps of run() that are not about one pool; one of them is always last.
Stages == {"select", "picked", "loop", "rest", "end"}

JobsOK(s) == Paged(s) /\ (s # <<>> => s[Len(s)].endpoint \in Stages)

LEMMA PagedBefore ==
    ASSUME NEW s, NEW t, Paged(s), Paged(t)
    PROVE  Paged(s \o t)
<1>1. /\ Sequence(s \o t) /\ Len(s) \in Nat /\ Len(t) \in Nat /\ Len(s \o t) = Len(s) + Len(t)
      /\ \A i \in 1..Len(s) + Len(t) :
                 (s \o t)[i] = IF i <= Len(s) THEN s[i] ELSE t[i - Len(s)]
  BY Joined DEF Paged
<1>2. ASSUME NEW i \in 1..Len(s \o t) PROVE PageOK((s \o t)[i])
  <2>1. CASE i <= Len(s)
    <3>1. i \in 1..Len(s) /\ (s \o t)[i] = s[i]
      BY <1>1, <2>1
    <3> QED
      BY <3>1 DEF Paged
  <2>2. CASE ~(i <= Len(s))
    <3>1. i - Len(s) \in 1..Len(t) /\ (s \o t)[i] = t[i - Len(s)]
      BY <1>1, <2>2
    <3> QED
      BY <3>1 DEF Paged
  <2> QED
    BY <2>1, <2>2
<1> QED
  BY <1>1, <1>2 DEF Paged

LEMMA JobsBefore ==
    ASSUME NEW s, NEW t, Paged(s), JobsOK(t), t # <<>>
    PROVE  JobsOK(s \o t) /\ s \o t # <<>>
<1>1. /\ Len(s) \in Nat /\ Len(t) \in Nat /\ Len(s \o t) = Len(s) + Len(t)
      /\ \A i \in 1..Len(s) + Len(t) :
                 (s \o t)[i] = IF i <= Len(s) THEN s[i] ELSE t[i - Len(s)]
  BY Joined DEF Paged, JobsOK
<1>2. Len(t) >= 1
  BY FirstOff DEF Paged, JobsOK
<1>3. (s \o t)[Len(s \o t)] = t[Len(t)]
  <2>1. Len(s) + Len(t) \in 1..Len(s) + Len(t) /\ ~(Len(s) + Len(t) <= Len(s))
        /\ (Len(s) + Len(t)) - Len(s) = Len(t)
    BY <1>1, <1>2
  <2> QED
    BY <1>1, <2>1
<1>4. Len(s \o t) # 0
  BY <1>1, <1>2
<1> QED
  BY <1>3, <1>4, PagedBefore, Literals DEF JobsOK

\* What follows a request, an audit line or the enrichment of a pool.
LEMMA JobsAfter ==
    ASSUME NEW s, JobsOK(s), s # <<>>, Head(s).endpoint \notin Stages
    PROVE  JobsOK(Tail(s)) /\ Tail(s) # <<>> /\ PageOK(Head(s))
<1>1. /\ Sequence(Tail(s)) /\ Len(s) \in Nat /\ Len(Tail(s)) = Len(s) - 1 /\ Len(s) >= 1
      /\ Head(s) = s[1]
      /\ \A i \in 1..Len(Tail(s)) : Tail(s)[i] = s[i + 1] /\ i + 1 \in 1..Len(s)
  BY FirstOff DEF JobsOK, Paged
<1>2. Len(s) # 1
  BY <1>1 DEF JobsOK
<1>3. Len(Tail(s)) \in 1..Len(Tail(s)) /\ Len(Tail(s)) + 1 = Len(s)
  BY <1>1, <1>2
<1>4. Tail(s)[Len(Tail(s))] = s[Len(s)]
  BY <1>1, <1>3
<1>5. Paged(Tail(s)) /\ PageOK(Head(s))
  <2>1. 1 \in 1..Len(s)
    BY <1>1
  <2> QED
    BY <2>1, <1>1 DEF JobsOK, Paged
<1>6. Len(Tail(s)) # 0
  BY <1>3
<1> QED
  BY <1>4, <1>5, <1>6, Literals DEF JobsOK

LEMMA JobFields ==
    \A e, a, p : Job(e, a, p).endpoint = e /\ Job(e, a, p).about = a /\ Job(e, a, p).page = p
BY DEF Job

\* Requests that are not for signatures, one for each of some numbers.
LEMMA ListPaged ==
    ASSUME NEW n \in Nat, NEW f, f = [i \in 1..n |-> f[i]],
           \A i \in 1..n : f[i].endpoint # "signatures"
    PROVE  Paged(f)
<1>1. Sequence(f) /\ Len(f) = n
  BY Listed1
<1> QED
  BY <1>1 DEF Paged, PageOK

LEMMA OneJob ==
    ASSUME NEW j
    PROVE  /\ PageOK(j) => Paged(<<j>>)
           /\ j.endpoint \in Stages => JobsOK(<<j>>) /\ <<j>> # <<>>
<1>1. Sequence(<<j>>) /\ Len(<<j>>) = 1 /\ <<j>>[1] = j
  BY Literals
<1>2. PageOK(j) => Paged(<<j>>)
  BY <1>1 DEF Paged
<1>3. j.endpoint \in Stages => PageOK(j)
  BY DEF Stages, PageOK
<1> QED
  BY <1>1, <1>2, <1>3, Literals DEF JobsOK

LEMMA TwoJobs ==
    ASSUME NEW j, NEW k, PageOK(j), PageOK(k)
    PROVE  Paged(<<j, k>>)
<1>1. Sequence(<<j, k>>) /\ Len(<<j, k>>) = 2 /\ <<j, k>>[1] = j /\ <<j, k>>[2] = k
  BY Literals
<1> QED
  BY <1>1 DEF Paged

LEMMA ThreeJobs ==
    ASSUME NEW j, NEW k, NEW l, PageOK(j), PageOK(k), l.endpoint \in Stages
    PROVE  JobsOK(<<j, k, l>>) /\ <<j, k, l>> # <<>>
<1>1. Paged(<<j, k>>) /\ JobsOK(<<l>>) /\ <<l>> # <<>>
  BY TwoJobs, OneJob
<1>2. <<j, k, l>> = <<j, k>> \o <<l>>
  OBVIOUS
<1> QED
  BY <1>1, <1>2, JobsBefore

LEMMA DiscoveryJobs == JobsOK(Discovery) /\ Discovery # <<>>
<1> DEFINE A == [i \in 1..NewPages |-> Job("new_pools", "", i)]
           B == <<Job("trending", "", 0), Job("top_pools", "", 0), Job("select", "", 0)>>
<1>1. Paged(A)
  <2>1. NewPages \in Nat /\ A = [i \in 1..NewPages |-> A[i]]
    BY AcquisitionConstants
  <2>2. \A i \in 1..NewPages : A[i].endpoint # "signatures"
    BY DEF Job
  <2> HIDE DEF A
  <2> QED
    BY <2>1, <2>2, ListPaged
<1>2. JobsOK(B) /\ B # <<>>
  <2>1. PageOK(Job("trending", "", 0)) /\ PageOK(Job("top_pools", "", 0))
    BY DEF Job, PageOK
  <2>2. Job("select", "", 0).endpoint \in Stages
    BY DEF Job, Stages
  <2> QED
    BY <2>1, <2>2, ThreeJobs
<1> HIDE DEF A, B
<1>3. JobsOK(A \o B) /\ A \o B # <<>>
  BY <1>1, <1>2, JobsBefore
<1> QED
  BY <1>3 DEF Discovery, A, B

LEMMA PerPoolJobs ==
    ASSUME Len(picked) \in Nat, NEW e, e # "signatures", NEW p
    PROVE  Paged(PerPool(e, p))
<1> DEFINE A == [i \in 1..Len(picked) |-> Job(e, picked[i].pool, p)]
<1>1. A = [i \in 1..Len(picked) |-> A[i]] /\ \A i \in 1..Len(picked) : A[i].endpoint # "signatures"
  BY JobFields
<1> HIDE DEF A
<1>2. Paged(A)
  BY <1>1, ListPaged
<1> QED
  BY <1>2 DEF PerPool, A

LEMMA NothingPaged == Paged(<<>>)
BY Literals DEF Paged

LEMMA CollectionJobs ==
    ASSUME Len(picked) \in Nat
    PROVE  JobsOK(Collection) /\ Collection # <<>>
<1> DEFINE A == PerPool("ohlcv", 0)
           B == IF Phase3a THEN PerPool("enrich", 0) ELSE <<>>
           C == <<Job("loop", "", 0)>>
<1>1. Paged(A) /\ Paged(B)
  BY PerPoolJobs, NothingPaged
<1>2. JobsOK(C) /\ C # <<>>
  <2>1. Job("loop", "", 0).endpoint \in Stages
    BY DEF Job, Stages
  <2> QED
    BY <2>1, OneJob
<1> HIDE DEF A, B, C
<1>3. Paged(A \o B)
  BY <1>1, PagedBefore
<1>4. JobsOK((A \o B) \o C) /\ (A \o B) \o C # <<>>
  BY <1>2, <1>3, JobsBefore
<1> QED
  BY <1>4 DEF Collection, A, B, C

LEMMA EnrichmentJobs ==
    ASSUME NEW pool, NEW informed, NEW round
    PROVE  Paged(Enrichment(pool, informed, round))
<1> DEFINE A == IF informed /\ pool \in Creators
                THEN <<Job("signatures", Address("funding", pool), 0)>> ELSE <<>>
           B == <<Job("signatures", Address("liquidity", pool), 0)>>
           C == NewsAndSocial(pool, informed, round)
<1>1. \A a : PageOK(Job("signatures", a, 0))
  BY JobFields, AcquisitionConstants DEF PageOK
<1>2. Paged(A) /\ Paged(B)
  BY <1>1, OneJob, NothingPaged
<1>3. Paged(C)
  <2>1. \A a, p : PageOK(Job("gdelt", a, p)) /\ PageOK(Job("gap", a, p)) /\ PageOK(Job("reddit", a, p))
    BY JobFields DEF PageOK
  <2> QED
    BY <2>1, TwoJobs DEF NewsAndSocial
<1> HIDE DEF A, B, C
<1>4. Paged((A \o B) \o C)
  BY <1>2, <1>3, PagedBefore
<1> QED
  BY <1>4 DEF Enrichment, A, B, C

LEMMA CycleJobs ==
    ASSUME Len(picked) \in Nat, NEW cycle
    PROVE  Paged(PollCycle(cycle))
<1> DEFINE A == <<Job("pools_multi", "", cycle), Job("pairs", "", cycle)>>
           B == [i \in 1..2 * Len(picked) |->
                   LET pool == picked[(i + 1) \div 2].pool
                   IN IF i % 2 = 1 THEN Job("trades", pool, cycle) ELSE Job("ohlcv", pool, Backfill)]
           C == <<Job("token_info", picked[(cycle % Len(picked)) + 1].pool, Backfill)>>
<1>1. Paged(A)
  <2>1. PageOK(Job("pools_multi", "", cycle)) /\ PageOK(Job("pairs", "", cycle))
    BY DEF Job, PageOK
  <2> QED
    BY <2>1, TwoJobs
<1>2. Paged(B)
  <2>1. 2 * Len(picked) \in Nat /\ B = [i \in 1..2 * Len(picked) |-> B[i]]
    OBVIOUS
  <2>2. \A i \in 1..2 * Len(picked) : B[i].endpoint # "signatures"
    BY JobFields
  <2> HIDE DEF B
  <2> QED
    BY <2>1, <2>2, ListPaged
<1>3. Paged(C)
  BY OneJob, JobFields DEF PageOK
<1> HIDE DEF A, B, C
<1>4. Paged((A \o B) \o C)
  BY <1>1, <1>2, <1>3, PagedBefore
<1> QED
  BY <1>4 DEF PollCycle, A, B, C

LEMMA AfterJobs ==
    ASSUME NEW job, PageOK(job), NEW ok \in BOOLEAN
    PROVE  Paged(After(job, ok))
<1>1. CASE job.endpoint = "new_pools"
  BY <1>1, OneJob, NothingPaged, JobFields DEF After, PageOK
<1>2. CASE job.endpoint = "ohlcv"
  BY <1>2, OneJob, NothingPaged, JobFields DEF After, PageOK
<1>3. CASE job.endpoint = "signatures" /\ ok /\ More(job) /\ job.page + 1 < MaxPages
  <2>1. After(job, ok) = <<Job("signatures", job.about, job.page + 1)>>
    BY <1>3 DEF After
  <2>2. PageOK(Job("signatures", job.about, job.page + 1))
    BY <1>3, JobFields DEF PageOK
  <2> QED
    BY <2>1, <2>2, OneJob
<1>4. CASE job.endpoint = "signatures" /\ ~(ok /\ More(job) /\ job.page + 1 < MaxPages)
  <2> DEFINE found == IF ok /\ More(job) THEN job.page + 1 ELSE job.page
             n == Smaller(found, MaxTxs)
             A == IF ok THEN <<>> ELSE <<Job("gap", job.about, job.page)>>
             B == [i \in 1..n |-> Job("transaction", job.about, i)]
  <2>1. After(job, ok) = A \o B
    BY <1>4 DEF After
  <2>2. n \in Nat
    BY <1>4, AcquisitionConstants DEF PageOK, Smaller
  <2>3. Paged(A)
    BY OneJob, NothingPaged, JobFields DEF PageOK
  <2>4. B = [i \in 1..n |-> B[i]] /\ \A i \in 1..n : B[i].endpoint # "signatures"
    BY JobFields
  <2> HIDE DEF A, B, n
  <2> QED
    BY <2>1, <2>2, <2>3, <2>4, ListPaged, PagedBefore
<1>5. CASE job.endpoint \notin {"new_pools", "ohlcv", "signatures"}
  BY <1>5, NothingPaged DEF After
<1> QED
  BY <1>1, <1>2, <1>3, <1>4, <1>5

\* select_universe: what is taken is a sequence, whatever the candidates.
LEMMA TakenIsSequence ==
    ASSUME NEW sel, Sequence(sel), NEW stratum, NEW candidates, Len(candidates) \in Nat
    PROVE  Sequence(Take(sel, stratum, candidates))
<1> DEFINE m == Len(candidates)
           More1(s, p) ==
               IF Cardinality({i \in 1..Len(s) : s[i].stratum = stratum}) >= Target[stratum]
                  \/ p.token \in Excluded
                  \/ \E i \in 1..Len(s) : s[i].token = p.token
               THEN s
               ELSE Append(s, [pool |-> p.pool, token |-> p.token, stratum |-> stratum])
           Steps1(g, n) == [i \in 0..n |-> IF i = 0 THEN sel ELSE More1(g[i - 1], candidates[i])]
           T == {n \in Nat : \E g : g = Steps1(g, n)}
<1>1. \A s, p : Sequence(s) => Sequence(More1(s, p))
  BY Appended
<1> HIDE DEF More1
<1>2. 0 \in T
  <2> DEFINE g == [i \in 0..0 |-> sel]
  <2>1. g = Steps1(g, 0)
    OBVIOUS
  <2> QED
    BY <2>1
<1>3. ASSUME NEW n \in Nat, n \in T PROVE n + 1 \in T
  <2>1. PICK g : g = Steps1(g, n)
    BY <1>3
  <2> DEFINE x == More1(g[n], candidates[n + 1])
             h == [i \in 0..n + 1 |-> IF i = n + 1 THEN x ELSE g[i]]
  <2>2. \A i \in 0..n : h[i] = g[i] /\ h[n + 1] = x
    OBVIOUS
  <2>3. \A i \in 0..n + 1 : h[i] = IF i = 0 THEN sel ELSE More1(h[i - 1], candidates[i])
    <3>1. ASSUME NEW i \in 0..n PROVE h[i] = IF i = 0 THEN sel ELSE More1(h[i - 1], candidates[i])
      <4>1. g[i] = IF i = 0 THEN sel ELSE More1(g[i - 1], candidates[i])
        BY <2>1
      <4>2. i = 0 \/ i - 1 \in 0..n
        OBVIOUS
      <4> HIDE DEF h
      <4> QED
        BY <2>2, <4>1, <4>2
    <3>2. h[n + 1] = More1(h[n], candidates[n + 1]) /\ n + 1 # 0 /\ (n + 1) - 1 = n
      <4>1. n \in 0..n
        OBVIOUS
      <4> HIDE DEF h
      <4> QED
        BY <4>1, <2>2
    <3>3. \A i \in 0..n + 1 : i \in 0..n \/ i = n + 1
      OBVIOUS
    <3> HIDE DEF h
    <3> QED
      BY <3>1, <3>2, <3>3
  <2>4. h = Steps1(h, n + 1)
    <3>1. h = [i \in 0..n + 1 |-> h[i]]
      OBVIOUS
    <3> HIDE DEF h
    <3> QED
      BY <3>1, <2>3
  <2> HIDE DEF h
  <2> QED
    BY <2>4
<1>4. m \in T
  <2> HIDE DEF T
  <2> QED
    BY <1>2, <1>3, NumberInduction
<1> DEFINE taken == CHOOSE g : g = Steps1(g, m)
<1>5. taken = Steps1(taken, m)
  BY <1>4
<1>6. Take(sel, stratum, candidates) = taken[m]
  BY DEF Take, More1
<1> DEFINE K == {n \in Nat : n <= m => Sequence(taken[n])}
<1> HIDE DEF taken
<1>7. 0 \in K
  BY <1>5
<1>8. ASSUME NEW n \in Nat, n \in K PROVE n + 1 \in K
  <2> SUFFICES ASSUME n + 1 <= m PROVE Sequence(taken[n + 1])
    OBVIOUS
  <2>1. Sequence(taken[n])
    BY <1>8
  <2>2. taken[n + 1] = More1(taken[n], candidates[n + 1])
    <3>1. n + 1 \in 0..m /\ n + 1 # 0 /\ (n + 1) - 1 = n
      OBVIOUS
    <3> QED
      BY <1>5, <3>1
  <2> QED
    BY <1>1, <2>1, <2>2
<1>9. m \in K
  <2> HIDE DEF K
  <2> QED
    BY <1>7, <1>8, NumberInduction
<1> QED
  BY <1>6, <1>9

LEMMA ShuffledIsFinite ==
    ASSUME NEW S, IsFiniteSet(S), NEW y \in SetToSeqs(S)
    PROVE  Len(y) \in Nat
<1>1. y \in [1..Cardinality(S) -> S]
  BY DEF SetToSeqs
<1>2. Cardinality(S) \in Nat
  BY FS_CardinalityType
<1>3. y \in Seq(S)
  BY <1>1, <1>2, SeqDef
<1> QED
  BY <1>3, LenProperties

LEMMA SelectedIsSequence ==
    ASSUME seen \subseteq DOMAIN Listed, NEW picks \in Selections
    PROVE  Sequence(picks)
<1>1. \A e : IsFiniteSet(Seen(e))
  <2>1. IsFiniteSet({})
    BY FS_EmptySet
  <2> QED
    BY <2>1, AcquisitionConstants DEF Seen
<1>2. IsFiniteSet({p \in Seen("new_pools") : p.quiet})
  BY <1>1, FS_Subset
<1>3. PICK y1 \in SetToSeqs({p \in Seen("new_pools") : p.quiet}),
           y2 \in SetToSeqs(Seen("new_pools")),
           t \in SetToSeqs(Seen("trending")), e \in SetToSeqs(Seen("top_pools")) :
         picks = Take(Take(Take(Take(<<>>, "quiet_young", y1), "young", y2), "trending", t),
                      "established", e)
  BY DEF Selections
<1>4. Len(y1) \in Nat /\ Len(y2) \in Nat /\ Len(t) \in Nat /\ Len(e) \in Nat
  BY <1>1, <1>2, ShuffledIsFinite
<1> DEFINE A == Take(<<>>, "quiet_young", y1)
           B == Take(A, "young", y2)
           C == Take(B, "trending", t)
<1>5. Sequence(A)
  BY <1>4, Literals, TakenIsSequence
<1> HIDE DEF A
<1>6. Sequence(B)
  BY <1>4, <1>5, TakenIsSequence
<1> HIDE DEF B
<1>7. Sequence(C)
  BY <1>4, <1>6, TakenIsSequence
<1> HIDE DEF C
<1>8. Sequence(Take(C, "established", e))
  BY <1>4, <1>7, TakenIsSequence
<1> QED
  BY <1>3, <1>8 DEF A, B, C

\* Whatever a page is answered, its summary does not hide that there is more.
LEMMA SummaryIsHonest ==
    ASSUME NEW job, PageOK(job), NEW ok \in BOOLEAN, NEW h \in Summary(job, ok)
    PROVE  h.signatures < Depth[h.address] => h.gap \/ h.truncated
<1>1. /\ job.endpoint = "signatures" /\ ~(ok /\ More(job) /\ job.page + 1 < MaxPages)
      /\ h = [address |-> job.about, gap |-> ~ok, truncated |-> Truncated(job, ok),
              signatures |-> IF ok /\ More(job) THEN job.page + 1 ELSE job.page]
  BY DEF Summary
<1>2. /\ h.address = job.about /\ h.gap = ~ok /\ h.truncated = Truncated(job, ok)
      /\ h.signatures = IF ok /\ More(job) THEN job.page + 1 ELSE job.page
  BY <1>1
<1>3. CASE ok /\ More(job)
  <2>1. job.page + 1 = MaxPages
    BY <1>1, <1>3, AcquisitionConstants DEF PageOK
  <2>2. Truncated(job, ok)
    BY <1>3, <2>1 DEF Truncated
  <2> QED
    BY <1>2, <2>2
<1>4. CASE ok /\ ~More(job)
  <2>1. ~(job.page < Depth[job.about])
    BY <1>4 DEF More
  <2>2. h.signatures = job.page
    BY <1>2, <1>4
  <2> QED
    BY <1>2, <2>1, <2>2
<1>5. CASE ~ok
  BY <1>2, <1>5
<1> QED
  BY <1>3, <1>4, <1>5

\* The inductive invariant.
JobsInv ==
    /\ Sequence(picked) /\ (universe # NoHash => Sequence(universe))
    /\ seen \subseteq DOMAIN Listed
    /\ JobsOK(todo)
    /\ NothingCutSilently

LEMMA JobsInit == AcquisitionInit => JobsInv
<1>1. Paged(<<>>) /\ Sequence(<<>>)
  BY NothingPaged, Literals
<1> QED
  BY <1>1 DEF AcquisitionInit, JobsInv, JobsOK, NothingCutSilently

LEMMA JobsEnd == JobsInv /\ Ends /\ universe' = universe => JobsInv'
<1>1. Paged(<<>>) /\ Sequence(<<>>)
  BY NothingPaged, Literals
<1> QED
  BY <1>1 DEF Ends, JobsInv, JobsOK, NothingCutSilently

LEMMA JobsChange ==
    ASSUME JobsInv, UNCHANGED <<picked, universe, seen, histories>>, JobsOK(todo')
    PROVE  JobsInv'
BY DEF JobsInv, NothingCutSilently

LEMMA SequenceLength == \A s : Sequence(s) => Len(s) \in Nat
BY LenProperties DEF Sequence

\* The steps of run() between requests.
LEMMA JobsStages ==
    ASSUME JobsInv, StartRun \/ Select \/ Picked \/ Loop \/ Rest
    PROVE  JobsInv' /\ Running'
<1>1. CASE StartRun
  <2>1. JobsOK(<<Job("picked", "", 0)>>) /\ <<Job("picked", "", 0)>> # <<>>
    <3>1. Job("picked", "", 0).endpoint \in Stages
      BY DEF Job, Stages
    <3> QED
      BY <3>1, OneJob
  <2>2. /\ UNCHANGED <<universe, seen, histories>>
        /\ \/ picked' = <<>> /\ todo' = Discovery
           \/ universe # NoHash /\ picked' = universe /\ todo' = <<Job("picked", "", 0)>>
    BY <1>1 DEF StartRun
  <2>3. Sequence(<<>>)
    BY Literals
  <2> QED
    BY <2>1, <2>2, <2>3, DiscoveryJobs DEF JobsInv, NothingCutSilently, Running
<1>2. CASE Select
  <2>1. JobsOK(<<Job("picked", "", 0)>>) /\ <<Job("picked", "", 0)>> # <<>>
    <3>1. Job("picked", "", 0).endpoint \in Stages
      BY DEF Job, Stages
    <3> QED
      BY <3>1, OneJob
  <2>2. PICK picks \in Selections :
          /\ picked' = picks /\ universe' \in {picks, universe}
          /\ todo' = <<Job("picked", "", 0)>> /\ UNCHANGED <<seen, histories>>
    BY <1>2 DEF Select
  <2>3. Sequence(picks)
    BY SelectedIsSequence DEF JobsInv
  <2> QED
    BY <2>1, <2>2, <2>3 DEF JobsInv, NothingCutSilently, Running
<1>3. CASE Picked
  <2>1. JobsOK(Collection) /\ Collection # <<>>
    BY CollectionJobs, SequenceLength DEF JobsInv
  <2>2. todo' = Collection /\ UNCHANGED <<picked, universe, seen, histories>>
    BY <1>3 DEF Picked, disk
  <2> QED
    BY <2>1, <2>2, JobsChange DEF Running
<1>4. CASE Loop
  <2> DEFINE A == PollCycle(Doing.page)
             B == <<Job("rest", "", Doing.page)>>
             C == IF Phase3a THEN PerPool("enrich", 1) ELSE <<>>
             D == <<Job("end", "", 0)>>
  <2>1. Paged(A)
    BY CycleJobs, SequenceLength DEF JobsInv
  <2>2. Paged(C)
    BY PerPoolJobs, NothingPaged, SequenceLength DEF JobsInv
  <2>3. JobsOK(B) /\ B # <<>>
    <3>1. Job("rest", "", Doing.page).endpoint \in Stages
      BY DEF Job, Stages
    <3> QED
      BY <3>1, OneJob
  <2>4. JobsOK(D) /\ D # <<>>
    <3>1. Job("end", "", 0).endpoint \in Stages
      BY DEF Job, Stages
    <3> QED
      BY <3>1, OneJob
  <2>5. /\ todo' \in {A \o B, C \o D} /\ UNCHANGED <<picked, universe, seen, histories>>
    BY <1>4 DEF Loop, disk
  <2> HIDE DEF A, B, C, D
  <2>6. JobsOK(todo') /\ todo' # <<>>
    BY <2>1, <2>2, <2>3, <2>4, <2>5, JobsBefore
  <2> QED
    BY <2>5, <2>6, JobsChange DEF Running
<1>5. CASE Rest
  <2>1. JobsOK(<<Job("loop", "", Doing.page + 1)>>) /\ <<Job("loop", "", Doing.page + 1)>> # <<>>
    <3>1. Job("loop", "", Doing.page + 1).endpoint \in Stages
      BY DEF Job, Stages
    <3> QED
      BY <3>1, OneJob
  <2>2. /\ todo' = <<Job("loop", "", Doing.page + 1)>>
        /\ UNCHANGED <<picked, universe, seen, histories>>
    BY <1>5 DEF Rest, disk
  <2> QED
    BY <2>1, <2>2, JobsChange DEF Running
<1> QED
  BY <1>1, <1>2, <1>3, <1>4, <1>5

\* The steps that take the first job away.
LEMMA JobsTaken ==
    ASSUME JobsInv, Record \/ Audit \/ (Enrich /\ ~Ends)
    PROVE  JobsInv' /\ Running'
<1>1. CASE Record
  <2>1. /\ Running /\ Request(Doing)
        /\ todo' = After(Doing, Usable) \o Tail(todo)
        /\ histories' = histories \union Summary(Doing, Usable)
        /\ seen' \in {seen, seen \union ({Doing.endpoint} \intersect DOMAIN Listed)}
        /\ picked' = picked /\ universe' = universe
    BY <1>1 DEF Record, Awaiting
  <2>2. JobsOK(Tail(todo)) /\ Tail(todo) # <<>> /\ PageOK(Doing)
    <3>1. Doing.endpoint \notin Stages
      BY <2>1 DEF Request, Steps, Stages
    <3> QED
      BY <2>1, <3>1, JobsAfter DEF JobsInv, Running, Doing
  <2>3. Usable \in BOOLEAN
    BY DEF Usable
  <2>4. JobsOK(todo') /\ todo' # <<>>
    BY <2>1, <2>2, <2>3, AfterJobs, JobsBefore
  <2>5. NothingCutSilently'
    <3>1. \A h \in Summary(Doing, Usable) : h.signatures < Depth[h.address] => h.gap \/ h.truncated
      BY <2>2, <2>3, SummaryIsHonest
    <3> QED
      BY <2>1, <3>1 DEF JobsInv, NothingCutSilently
  <2> QED
    BY <2>1, <2>4, <2>5 DEF JobsInv, Running
<1>2. CASE Audit
  <2>1. /\ Running /\ Doing.endpoint = "gap" /\ todo' = Tail(todo)
        /\ UNCHANGED <<picked, universe, seen, histories>>
    BY <1>2 DEF Audit
  <2>2. JobsOK(Tail(todo)) /\ Tail(todo) # <<>>
    <3>1. Doing.endpoint \notin Stages
      BY <2>1 DEF Stages
    <3> QED
      BY <2>1, <3>1, JobsAfter DEF JobsInv, Running, Doing
  <2> QED
    BY <2>1, <2>2, JobsChange DEF Running
<1>3. CASE Enrich /\ ~Ends
  <2>0. PICK informed \in BOOLEAN :
            /\ Running /\ Doing.endpoint = "enrich"
            /\ todo' = Enrichment(Doing.about, informed, Doing.page) \o Tail(todo)
            /\ UNCHANGED <<picked, universe, seen, histories>>
    BY <1>3 DEF Enrich, disk
  <2> DEFINE A == Enrichment(Doing.about, informed, Doing.page)
  <2>1. /\ Running /\ Doing.endpoint = "enrich" /\ todo' = A \o Tail(todo)
        /\ UNCHANGED <<picked, universe, seen, histories>>
    BY <2>0
  <2>2. JobsOK(Tail(todo)) /\ Tail(todo) # <<>>
    <3>1. Doing.endpoint \notin Stages
      BY <2>1 DEF Stages
    <3> QED
      BY <2>1, <3>1, JobsAfter DEF JobsInv, Running, Doing
  <2>3. Paged(A)
    BY EnrichmentJobs
  <2> HIDE DEF A
  <2> QED
    BY <2>1, <2>2, <2>3, JobsBefore, JobsChange DEF Running
<1> QED
  BY <1>1, <1>2, <1>3

LEMMA JobsStep == JobsInv /\ [AcquisitionNext]_vars => JobsInv'
<1> SUFFICES ASSUME JobsInv, [AcquisitionNext]_vars PROVE JobsInv'
  OBVIOUS
<1>1. CASE StartRun \/ Select \/ Picked \/ Loop \/ Rest
  BY <1>1, JobsStages
<1>2. CASE Record \/ Audit \/ (Enrich /\ ~Ends)
  BY <1>2, JobsTaken
<1>3. CASE (Enrich /\ Ends) \/ Blocked \/ EndRun \/ Escape \/ Kill
  <2>1. Ends /\ universe' = universe
    BY <1>3 DEF Enrich, Blocked, EndRun, Escape, Receive, Kill, disk
  <2> QED
    BY <2>1, JobsEnd
<1>4. CASE Ask \/ Send \/ Succeed \/ Fail \/ Retry
  <2>1. UNCHANGED <<todo, picked, universe, seen, histories>>
    BY <1>4 DEF Ask, Send, Succeed, Fail, Retry, Remember, Receive, disk
  <2> QED
    BY <2>1, JobsChange DEF JobsInv
<1>5. CASE Seal \/ SealStdout \/ SealMeta \/ KillSeal \/ UNCHANGED vars
  <2>1. UNCHANGED <<todo, picked, universe, seen, histories>>
    BY <1>5 DEF Seal, SealStdout, SealMeta, KillSeal, vars, memory, disk
  <2> QED
    BY <2>1, JobsChange DEF JobsInv
<1> QED
  BY <1>1, <1>2, <1>3, <1>4, <1>5 DEF AcquisitionNext

LEMMA JobsHold == AcquisitionSpec => []JobsInv
BY JobsInit, JobsStep, PTL DEF AcquisitionSpec

\* collect_address_history (acquire.py): whatever the depth of a history, the
\* limits, the errors and the interruptions, a summary with fewer signatures
\* than there are names the gap or the truncation.
THEOREM HistoriesAreHonest == AcquisitionSpec => []NothingCutSilently
<1>1. JobsInv => NothingCutSilently
  BY DEF JobsInv
<1> QED
  BY <1>1, JobsHold, PTL

-----------------------------------------------------------------------------
(* Every attempt is on record.                                             *)

\* A request leaves.
LEMMA RecordSend == RecordInv /\ NetInv /\ Send => RecordInv'
<1> SUFFICES ASSUME RecordInv, NetInv, Send PROVE RecordInv'
  OBVIOUS
<1> DEFINE q == ProviderOf(Doing)
           e == [sent |-> now', first |-> call.attempt = 1, ended |-> now', ok |-> TRUE]
<1>1. /\ Running /\ Running' = Running /\ call.at = "send" /\ q \in Provider
      /\ lines' = lines /\ base' = base /\ call' = [call EXCEPT !.at = "sent"]
      /\ trace' = [trace EXCEPT ![q] = Append(@, e)] /\ DOMAIN trace = Provider
  BY ProviderKnown DEF Send, Awaiting, disk, Running, NetInv
<1> HIDE DEF e
<1>2. call'.at = "sent" /\ call'.tries = call.tries
      /\ DOMAIN call' = {"at", "attempt", "delay", "waits", "tries", "raw"}
  BY <1>1 DEF RecordInv
<1>3. Len(Append(trace[q], e)) = Len(trace[q]) + 1
  BY <1>1, Appended DEF NetInv, ServiceOK, TraceTypeOK
<1>4. \A p \in Provider : Len(trace'[p]) = IF p = q THEN Len(trace[p]) + 1 ELSE Len(trace[p])
  <2> HIDE DEF q
  <2> QED
    BY <1>1, <1>3
<1>5. SumFunctionOnSet(LengthsOf(trace'), Provider) = SumFunctionOnSet(LengthsOf(trace), Provider) + 1
  BY <1>1, <1>4, AttemptAdded DEF RecordInv
<1>6. Away = 0 /\ Away' = 1
  BY <1>1, <1>2 DEF Away
<1>7. SumFunctionOnSet(TriesOf(lines), base + 1..Len(lines)) \in Int
  BY LinesAreCounted
<1> DEFINE before == SumFunctionOnSet(LengthsOf(trace), Provider)
           after == SumFunctionOnSet(LengthsOf(trace'), Provider)
           logged == SumFunctionOnSet(TriesOf(lines), base + 1..Len(lines))
<1>8. Readable(lines) => after = logged + call'.tries + Away'
  <2>1. Readable(lines) => before = logged + call.tries + Away
    BY <1>1 DEF RecordInv
  <2>2. after = before + 1 /\ logged \in Int /\ call.tries \in Nat
    BY <1>5, <1>7 DEF RecordInv
  <2> HIDE DEF before, after, logged
  <2> QED
    BY <2>1, <2>2, <1>2, <1>6
<1>9. \A p \in Provider : Len(trace'[p]) \in Nat
  BY <1>4 DEF RecordInv
<1> QED
  BY <1>1, <1>2, <1>8, <1>9 DEF RecordInv

LEMMA RecordAsk == RecordInv /\ Ask => RecordInv'
<1> SUFFICES ASSUME RecordInv, Ask PROVE RecordInv'
  OBVIOUS
<1>1. /\ Running /\ Running' = Running /\ call.at = "idle" /\ UNCHANGED <<lines, base, trace>>
      /\ \/ call' = [call EXCEPT !.at = "send", !.attempt = 1, !.delay = Backoff]
         \/ call' = [call EXCEPT !.waits = @ + 1]
         \/ call' = [call EXCEPT !.at = "write"]
  BY DEF Ask, Awaiting, disk, Running
<1>2. /\ call'.at \in {"idle", "send", "write"} /\ call'.tries = call.tries
      /\ DOMAIN call' = {"at", "attempt", "delay", "waits", "tries", "raw"}
  BY <1>1 DEF RecordInv
<1>3. Away = 0 /\ Away' = 0 /\ call.tries = 0
  BY <1>1, <1>2 DEF Away, RecordInv
<1> QED
  BY <1>1, <1>2, <1>3 DEF RecordInv

\* An answer: the attempt that was away is counted by the call.
LEMMA RecordAnswer == RecordInv /\ NetInv /\ (Succeed \/ Fail \/ Retry) => RecordInv'
<1> SUFFICES ASSUME RecordInv, NetInv, Succeed \/ Fail \/ Retry PROVE RecordInv'
  OBVIOUS
<1> DEFINE q == ProviderOf(Doing)
<1>1. PICK answer : Receive(answer, TRUE) \/ (Succeed /\ Awaiting("sent"))
  BY DEF Succeed, Fail, Retry, Receive
<1>2. /\ Running /\ Running' = Running /\ call.at = "sent" /\ UNCHANGED <<lines, base>>
      /\ q \in Provider
      /\ \E x : trace' = [trace EXCEPT ![q][Len(trace[q])] = x]
      /\ call'.at \in {"send", "write"} /\ call'.tries = call.tries + 1
      /\ DOMAIN call' = {"at", "attempt", "delay", "waits", "tries", "raw"}
  <2>1. /\ Running /\ call.at = "sent" /\ UNCHANGED <<lines, base, todo>> /\ q \in Provider
    BY ProviderKnown DEF Succeed, Fail, Retry, Receive, Awaiting, Remember, disk
  <2>2. \E x : trace' = [trace EXCEPT ![q][Len(trace[q])] = x]
    BY DEF Succeed, Fail, Retry, Remember
  <2>3. \/ \E raw : call' = [call EXCEPT !.at = "write", !.tries = @ + 1, !.raw = raw]
        \/ call' = [call EXCEPT !.at = "write", !.tries = @ + 1]
        \/ call' = [call EXCEPT !.at = "send", !.attempt = @ + 1, !.tries = @ + 1, !.delay = 2 * @]
    BY DEF Succeed, Fail, Retry
  <2>4. /\ call'.at \in {"send", "write"} /\ call'.tries = call.tries + 1
        /\ DOMAIN call' = {"at", "attempt", "delay", "waits", "tries", "raw"}
    BY <2>3 DEF RecordInv
  <2> QED
    BY <2>1, <2>2, <2>4 DEF Running
<1>3. PICK x : trace' = [trace EXCEPT ![q] = [trace[q] EXCEPT ![Len(trace[q])] = x]]
  BY <1>2
<1>4. DOMAIN trace = Provider /\ Sequence(trace[q]) /\ Len(trace[q]) >= 1
  BY <1>2 DEF NetInv, ServiceOK, TraceTypeOK, Flying
<1>5. Len([trace[q] EXCEPT ![Len(trace[q])] = x]) = Len(trace[q])
  BY <1>4, LastReplaced
<1>6. \A p \in Provider : Len(trace'[p]) = Len(trace[p]) /\ Len(trace[p]) \in Nat
  <2> HIDE DEF q
  <2> QED
    BY <1>2, <1>3, <1>4, <1>5 DEF RecordInv
<1>7. SumFunctionOnSet(LengthsOf(trace'), Provider) = SumFunctionOnSet(LengthsOf(trace), Provider)
  BY <1>6, AttemptsSame
<1>8. Away = 1 /\ Away' = 0
  BY <1>2 DEF Away
<1>9. SumFunctionOnSet(TriesOf(lines), base + 1..Len(lines)) \in Int
  BY LinesAreCounted
<1> DEFINE before == SumFunctionOnSet(LengthsOf(trace), Provider)
           after == SumFunctionOnSet(LengthsOf(trace'), Provider)
           logged == SumFunctionOnSet(TriesOf(lines), base + 1..Len(lines))
<1>10. Readable(lines) => after = logged + call'.tries + Away'
  <2>1. Readable(lines) => before = logged + call.tries + Away
    BY <1>2 DEF RecordInv
  <2>2. after = before /\ logged \in Int /\ call.tries \in Nat
    BY <1>7, <1>9 DEF RecordInv
  <2> HIDE DEF before, after, logged
  <2> QED
    BY <2>1, <2>2, <1>2, <1>8
<1>11. \A p \in Provider : Len(trace'[p]) \in Nat
  BY <1>6
<1>12. call'.tries \in Nat
  BY <1>2 DEF RecordInv
<1> QED
  BY <1>2, <1>10, <1>11, <1>12 DEF RecordInv

LEMMA NewLineTyped ==
    ASSUME RecordInv
    PROVE  /\ DOMAIN NewLine = {"text", "endpoint", "about", "raw", "req", "tries"}
           /\ NewLine.tries = IF Doing.endpoint = "gap" THEN 0 ELSE call.tries
           /\ NewLine.tries \in Nat
BY DEF NewLine, Line, RecordInv

\* A line is written, and what it counts was the call's.
LEMMA RecordLine ==
    ASSUME RecordInv, Running, Running', lines' = Append1(lines, NewLine),
           base' = base, trace' = trace, NewLine.tries = call.tries, call.at # "sent",
           call' = Idle \/ (call' = call /\ call.at = "idle")
    PROVE  RecordInv'
<1>1. /\ RowsOK(lines') /\ Len(lines) \in Nat /\ Len(lines) <= Len(lines')
      /\ Readable(lines') => Readable(lines) /\ lines' = Append(lines, NewLine)
  BY NewLineTyped, LineAdded DEF RecordInv
<1>2. Len(lines') \in Nat
  BY <1>1, SequenceLength DEF RowsOK
<1>3. /\ Away = 0 /\ Away' = 0 /\ call'.tries = 0 /\ call'.at = "idle"
      /\ DOMAIN call' = {"at", "attempt", "delay", "waits", "tries", "raw"}
  BY IdleIsIdle DEF Away, RecordInv
<1> DEFINE sent == SumFunctionOnSet(LengthsOf(trace), Provider)
           before == SumFunctionOnSet(TriesOf(lines), base + 1..Len(lines))
           after == SumFunctionOnSet(TriesOf(lines'), base + 1..Len(lines'))
<1>4. before \in Int
  BY LinesAreCounted
<1>5. Readable(lines') => after = before + call.tries
  <2> SUFFICES ASSUME Readable(lines') PROVE after = before + call.tries
    OBVIOUS
  <2>1. lines' = Append(lines, NewLine) /\ RowsOK(Append(lines, NewLine))
    BY <1>1
  <2>2. RowsOK(lines) /\ base \in Nat /\ base <= Len(lines) /\ NewLine.tries \in Nat
    BY NewLineTyped DEF RecordInv
  <2> QED
    BY <2>1, <2>2, LineCounts
<1>6. Readable(lines') => sent = before + call.tries
  <2>1. Readable(lines') => sent = before + call.tries + 0
    BY <1>1, <1>3 DEF RecordInv
  <2>2. before + call.tries + 0 = before + call.tries
    <3> HIDE DEF before
    <3> QED
      BY <1>4 DEF RecordInv
  <2> QED
    BY <2>1, <2>2
<1>7. Readable(lines') => sent = after + call'.tries + Away'
  <2>1. Readable(lines') => sent = after /\ after \in Int
    <3> HIDE DEF sent, before, after
    <3> QED
      BY <1>4, <1>5, <1>6 DEF RecordInv
  <2> HIDE DEF sent, before, after
  <2> QED
    BY <2>1, <1>3
<1>8. base' \in Nat /\ base' <= Len(lines')
  BY <1>1, <1>2 DEF RecordInv
<1> QED
  BY <1>1, <1>3, <1>7, <1>8 DEF RecordInv

LEMMA RecordKill == RecordInv /\ Kill => RecordInv'
<1> SUFFICES ASSUME RecordInv, Kill PROVE RecordInv'
  OBVIOUS
<1>1. Ends /\ (lines' = lines \/ lines' \in CutLine(lines, NewLine))
  BY DEF Kill
<1>2. ASSUME NEW how PROVE RowsOK(Append1(lines, [NewLine EXCEPT !.text = how]))
  <2> DEFINE x == [NewLine EXCEPT !.text = how]
  <2>1. DOMAIN x = {"text", "endpoint", "about", "raw", "req", "tries"} /\ x.tries \in Nat
    BY NewLineTyped
  <2> HIDE DEF x
  <2>2. RowsOK(Append1(lines, x))
    BY <2>1, LineAdded DEF RecordInv
  <2> QED
    BY <2>2 DEF x
<1>3. RowsOK(lines')
  BY <1>1, <1>2 DEF CutLine, RecordInv
<1>4. Len(lines') \in Nat
  BY <1>3, SequenceLength DEF RowsOK
<1> QED
  BY <1>1, <1>3, <1>4, RecordEnds

LEMMA RecordStep == RecordInv /\ NetInv /\ JobsInv /\ [AcquisitionNext]_vars => RecordInv'
<1> SUFFICES ASSUME RecordInv, NetInv, JobsInv, [AcquisitionNext]_vars PROVE RecordInv'
  OBVIOUS
<1>1. CASE StartRun
  BY <1>1, JobsStages, RecordStart
<1>2. CASE Select \/ Picked \/ Loop \/ Rest \/ (Enrich /\ ~Ends)
  <2>1. Running /\ Running'
    BY <1>2, JobsStages, JobsTaken DEF Select, Picked, Loop, Rest, Enrich
  <2>2. UNCHANGED <<lines, base, call, trace>>
    BY <1>2 DEF Select, Picked, Loop, Rest, Enrich, net, disk
  <2> QED
    BY <2>1, <2>2, RecordSame
<1>3. CASE (Enrich /\ Ends) \/ Blocked \/ EndRun \/ Escape
  <2>1. Ends /\ lines' = lines
    BY <1>3 DEF Enrich, Blocked, EndRun, Escape, Receive, disk
  <2> QED
    BY <2>1, LinesCounted, RecordEnds DEF RecordInv
<1>4. CASE Kill
  BY <1>4, RecordKill
<1>5. CASE Ask \/ Send \/ Succeed \/ Fail \/ Retry
  BY <1>5, RecordAsk, RecordSend, RecordAnswer
<1>6. CASE Record
  <2>1. /\ Running /\ Running' /\ lines' = Append1(lines, NewLine)
        /\ base' = base /\ trace' = trace /\ call' = Idle /\ call.at = "write"
        /\ Doing.endpoint # "gap"
    BY <1>6, JobsTaken DEF Record, Awaiting, Recorded, net, Request
  <2> QED
    BY <2>1, NewLineTyped, RecordLine
<1>7. CASE Audit
  <2>1. /\ Running /\ Running' /\ lines' = Append1(lines, NewLine)
        /\ base' = base /\ trace' = trace /\ call' = call /\ Doing.endpoint = "gap"
    BY <1>7, JobsTaken DEF Audit, net
  <2>2. call.at = "idle" /\ call.tries = 0
    BY <2>1 DEF NetInv, CallTypeOK, Request, RecordInv
  <2> QED
    BY <2>1, <2>2, NewLineTyped, RecordLine
<1>8. CASE Seal \/ SealStdout \/ SealMeta \/ KillSeal \/ UNCHANGED vars
  <2>1. UNCHANGED <<lines, base, call, trace, todo>>
    BY <1>8 DEF Seal, SealStdout, SealMeta, KillSeal, vars, memory, disk, net
  <2>2. Running' = Running
    BY <2>1 DEF Running
  <2> QED
    BY <2>1, <2>2, RecordSame
<1> QED
  BY <1>1, <1>2, <1>3, <1>4, <1>5, <1>6, <1>7, <1>8 DEF AcquisitionNext

\* RawStore.record and Fetcher.get: whatever the answers, the retries and the
\* interruptions before, a run whose manifest can be read has every answered
\* attempt in its lines or in the call it is making.
THEOREM EveryAttemptIsOnRecord == AcquisitionSpec => []ExchangesOnRecord
<1>1. RecordInv => ExchangesOnRecord
  BY DEF RecordInv, ExchangesOnRecord, Attempts, Logged, LengthsOf, TriesOf, Away
<1> QED
  BY <1>1, RecordInit, RecordStep, NetHolds, JobsHold, PTL DEF AcquisitionSpec
=============================================================================

------------------------- MODULE ShockContextProofs -------------------------
(***************************************************************************)
(* The event the shock engine keeps incrementally is the one its usable    *)
(* bars describe, for every configuration, every sequence of bars, bad     *)
(* bars and resets; and whatever relationship between the two markets is   *)
(* reported is stronger than noise would be in the pairs it was read from. *)
(***************************************************************************)
EXTENDS ShockContext, FiniteSums

-----------------------------------------------------------------------------
(* The shock engine.                                                       *)

ShockTypeOK ==
    /\ active \in Event \cup {NoEvent}
    /\ sampled \in Nat
    /\ level \in Int /\ base \in Int
    /\ levels \in Seq(Int)

\* An event is tracked only once the history is long enough, so no bar is ever
\* spent on the warm-up while one is: that bar would move the market unseen.
WarmBeforeEvent == active # NoEvent => sampled >= MinHistory

\* The inductive invariant: the types make the incremental arithmetic exact.
ShockInv == ShockTypeOK /\ WarmBeforeEvent /\ EventIsItsBars

-----------------------------------------------------------------------------
\* An event that is kept has not reached the end of its lifecycle.
LEMMA KeptIsYoung ==
    ASSUME NEW ev \in Event, Classify(ev) # "NORMALIZING"
    PROVE  ev.k < Lifecycle
BY ConfigAssumption DEF Classify, Event

\* An onset is described exactly by the one bar that made it.
LEMMA StartedDescribed ==
    ASSUME NEW bar, bar.return \in Int, Abs(bar.return) >= OnsetThreshold
    PROVE  /\ Started(bar) \in Event
           /\ Started(bar).k = 0
           /\ Started(bar).cum = bar.return
           /\ Started(bar).sign = Sign(bar.return)
           /\ Started(bar).maxExc = Started(bar).sign * bar.return
BY ConfigAssumption DEF Started, Event, Sign, Positive, Abs

\* Folding one bar in moves the displacement by it and the peak only upwards,
\* to the new displacement or not at all.
LEMMA ExtendedDescribed ==
    ASSUME NEW ev \in Event, NEW bar, bar.return \in Int
    PROVE  /\ Extended(ev, bar) \in Event
           /\ Extended(ev, bar).k = ev.k + 1
           /\ Extended(ev, bar).cum = ev.cum + bar.return
           /\ Extended(ev, bar).sign = ev.sign
           /\ Extended(ev, bar).maxExc >= ev.maxExc
           /\ Extended(ev, bar).maxExc >= ev.sign * (ev.cum + bar.return)
           /\ \/ Extended(ev, bar).maxExc = ev.maxExc
              \/ Extended(ev, bar).maxExc = ev.sign * (ev.cum + bar.return)
<1>1. ev.sign * (ev.cum + bar.return) \in Int
  BY DEF Event
<1>2. Higher(ev.maxExc, Positive(ev.sign * (ev.cum + bar.return))) \in Nat
  BY <1>1 DEF Event, Higher, Positive
<1>3. Extended(ev, bar) = [onset |-> ev.onset, sign |-> ev.sign, k |-> ev.k + 1,
                           cum |-> ev.cum + bar.return,
                           maxExc |-> Higher(ev.maxExc, Positive(ev.sign * (ev.cum + bar.return))),
                           velocity |-> bar.return]
  BY DEF Extended
<1>4. /\ Higher(ev.maxExc, Positive(ev.sign * (ev.cum + bar.return))) >= ev.maxExc
      /\ Higher(ev.maxExc, Positive(ev.sign * (ev.cum + bar.return))) >= ev.sign * (ev.cum + bar.return)
      /\ \/ Higher(ev.maxExc, Positive(ev.sign * (ev.cum + bar.return))) = ev.maxExc
         \/ Higher(ev.maxExc, Positive(ev.sign * (ev.cum + bar.return))) = ev.sign * (ev.cum + bar.return)
  BY <1>1 DEF Event, Higher, Positive
<1> QED
  BY <1>2, <1>3, <1>4 DEF Event

-----------------------------------------------------------------------------
LEMMA InitShock == ShockInit => ShockInv
BY NoEventAssumption DEF ShockInit, ShockInv, ShockTypeOK, WarmBeforeEvent, EventIsItsBars

LEMMA OnsetKeeps ==
    ASSUME ShockInv, NEW bar, bar.usable \in BOOLEAN, bar.return \in Int, NEW ctx, Onset(bar, ctx)
    PROVE  ShockInv'
<1>1. /\ bar.return \in Int /\ level \in Int /\ base' = level /\ level' = level + bar.return
      /\ levels' = <<level'>> /\ sampled' = sampled + 1 /\ sampled \in Nat
  BY DEF Onset, Moves, ShockInv, ShockTypeOK
<1>2. active' = IF Classify(Started(bar)) = "NORMALIZING" THEN NoEvent ELSE Started(bar)
  BY DEF Onset, Track
<1>3. Abs(bar.return) >= OnsetThreshold
  BY DEF Onset
<1>4. ShockTypeOK' /\ WarmBeforeEvent'
  <2>1. ShockTypeOK'
    BY <1>1, <1>2, <1>3, StartedDescribed DEF ShockTypeOK
  <2>2. WarmBeforeEvent'
    BY <1>1 DEF Onset, Ready, WarmBeforeEvent
  <2> QED
    BY <2>1, <2>2
<1>5. CASE Classify(Started(bar)) = "NORMALIZING"
  BY <1>2, <1>4, <1>5 DEF ShockInv, EventIsItsBars
<1>6. CASE Classify(Started(bar)) # "NORMALIZING"
  <2>1. active' = Started(bar) /\ active'.k < Lifecycle
    BY <1>1, <1>2, <1>3, <1>6, StartedDescribed, KeptIsYoung
  <2>2. /\ Len(levels') = 1 /\ DOMAIN levels' = {1}
        /\ levels'[1] = level + bar.return /\ levels'[1] - base' = bar.return
    BY <1>1
  <2>3. /\ Started(bar).k = 0 /\ Started(bar).cum = bar.return
        /\ Started(bar).sign = Sign(bar.return)
        /\ Started(bar).maxExc = Started(bar).sign * bar.return
        /\ Started(bar).sign * bar.return \in Int
    BY <1>1, <1>3, StartedDescribed DEF Event
  <2>4. /\ level' - base' = bar.return
        /\ Started(bar).sign * (levels'[1] - base') = Started(bar).maxExc
        /\ Started(bar).maxExc <= Started(bar).maxExc
    BY <1>1, <2>2, <2>3
  <2>5. EventIsItsBars'
    BY <2>1, <2>2, <2>3, <2>4 DEF EventIsItsBars
  <2> QED
    BY <1>4, <2>5 DEF ShockInv
<1> QED
  BY <1>5, <1>6

LEMMA ContinueKeeps ==
    ASSUME ShockInv, NEW bar, bar.usable \in BOOLEAN, bar.return \in Int, NEW ctx, Continue(bar, ctx)
    PROVE  ShockInv'
<1> DEFINE next == Extended(active, bar)
<1>1. /\ bar.return \in Int /\ level \in Int /\ base \in Int /\ base' = base
      /\ level' = level + bar.return /\ levels \in Seq(Int)
      /\ levels' = Append(levels, level') /\ sampled' = sampled + 1 /\ sampled \in Nat
      /\ active \in Event
  BY DEF Continue, Moves, ShockInv, ShockTypeOK
<1>2. active' = IF Classify(next) = "NORMALIZING" THEN NoEvent ELSE next
  BY DEF Continue, Track
<1>3. /\ Len(levels) = active.k + 1
      /\ active.cum = level - base
      /\ active.sign = Sign(levels[1] - base)
      /\ \A j \in DOMAIN levels : active.sign * (levels[j] - base) <= active.maxExc
      /\ \E j \in DOMAIN levels : active.sign * (levels[j] - base) = active.maxExc
  BY NoEventAssumption DEF Continue, ShockInv, EventIsItsBars
<1>4. /\ next \in Event /\ next.k = active.k + 1 /\ next.sign = active.sign
      /\ next.cum = level' - base
      /\ next.maxExc >= active.maxExc
      /\ next.maxExc >= active.sign * (level' - base)
      /\ next.maxExc = active.maxExc \/ next.maxExc = active.sign * (level' - base)
  <2>1. active.cum + bar.return = level' - base
    BY <1>1, <1>3
  <2> QED
    BY <1>1, <2>1, ExtendedDescribed
<1>5. ShockTypeOK' /\ WarmBeforeEvent'
  <2>1. ShockTypeOK'
    BY <1>1, <1>2, <1>4 DEF ShockTypeOK
  <2>2. WarmBeforeEvent'
    BY <1>1 DEF Continue, Ready, WarmBeforeEvent
  <2> QED
    BY <2>1, <2>2
<1>6. CASE Classify(next) = "NORMALIZING"
  BY <1>2, <1>5, <1>6 DEF ShockInv, EventIsItsBars
<1>7. CASE Classify(next) # "NORMALIZING"
  <2>1. active' = next /\ active'.k < Lifecycle
    BY <1>2, <1>4, <1>7, KeptIsYoung
  <2>2. /\ Len(levels') = Len(levels) + 1
        /\ DOMAIN levels' = (DOMAIN levels) \cup {Len(levels) + 1}
        /\ levels'[Len(levels) + 1] = level'
        /\ \A j \in DOMAIN levels : levels'[j] = levels[j]
    BY <1>1
  <2>3. Len(levels') = active'.k + 1
    BY <1>3, <1>4, <2>1, <2>2
  <2>4. active'.sign = Sign(levels'[1] - base')
    <3>1. 1 \in DOMAIN levels
      BY <1>1, <1>3 DEF Event
    <3> QED
      BY <1>1, <1>3, <1>4, <2>1, <2>2, <3>1
  <2>5. \A j \in DOMAIN levels' : active'.sign * (levels'[j] - base') <= active'.maxExc
    <3> SUFFICES ASSUME NEW j \in DOMAIN levels'
                 PROVE  next.sign * (levels'[j] - base) <= next.maxExc
      BY <1>1, <2>1
    <3>1. CASE j \in DOMAIN levels
      <4>1. active.sign * (levels[j] - base) <= active.maxExc /\ levels'[j] = levels[j] /\ levels[j] \in Int
        BY <1>1, <1>3, <2>2, <3>1
      <4>2. active.sign \in Int /\ active.maxExc \in Int /\ next.maxExc \in Int
        BY <1>1, <1>4 DEF Event
      <4>3. active.sign * (levels[j] - base) \in Int
        BY <1>1, <4>1, <4>2
      <4> QED
        BY <1>4, <4>1, <4>2, <4>3
    <3>2. CASE j = Len(levels) + 1
      BY <1>4, <2>2, <3>2
    <3> QED
      BY <2>2, <3>1, <3>2
  <2>6. \E j \in DOMAIN levels' : active'.sign * (levels'[j] - base') = active'.maxExc
    <3>1. CASE next.maxExc = active.maxExc
      BY <1>1, <1>3, <1>4, <2>1, <2>2, <3>1
    <3>2. CASE next.maxExc = active.sign * (level' - base)
      <4>1. Len(levels) + 1 \in DOMAIN levels'
        BY <2>2
      <4> QED
        BY <1>1, <1>4, <2>1, <2>2, <3>2, <4>1
    <3> QED
      BY <1>4, <3>1, <3>2
  <2>7. active'.cum = level' - base'
    BY <1>1, <1>4, <2>1
  <2> QED
    BY <1>5, <2>1, <2>3, <2>4, <2>5, <2>6, <2>7 DEF ShockInv, EventIsItsBars
<1> QED
  BY <1>6, <1>7

\* A bar that is excluded, warms the engine up or is quiet touches no event.
LEMMA OthersKeep ==
    ASSUME ShockInv, NEW bar, bar.usable \in BOOLEAN, bar.return \in Int,
           BadBar(bar) \/ WarmingUp(bar) \/ Quiet(bar)
    PROVE  ShockInv'
<1> USE DEF ShockInv, ShockTypeOK, WarmBeforeEvent, EventIsItsBars
<1>1. CASE BadBar(bar)
  BY <1>1 DEF BadBar, market
<1>2. CASE WarmingUp(bar)
  <2>1. active = NoEvent
    BY <1>2, ConfigAssumption DEF WarmingUp, Ready
  <2> QED
    BY <1>2, <2>1 DEF WarmingUp, Moves
<1>3. CASE Quiet(bar)
  BY <1>3 DEF Quiet, Moves
<1> QED
  BY <1>1, <1>2, <1>3

\* Every call of update() keeps the invariant, whatever the caller's context.
LEMMA UpdateKeeps ==
    ASSUME ShockInv, NEW bar, bar.usable \in BOOLEAN, bar.return \in Int, NEW ctx, Update(bar, ctx)
    PROVE  ShockInv'
BY OnsetKeeps, ContinueKeeps, OthersKeep DEF Update

LEMMA ResetKeeps == ASSUME ShockInv, Reset PROVE ShockInv'
BY DEF Reset, market, ShockInv, ShockTypeOK, WarmBeforeEvent, EventIsItsBars

LEMMA StepKeeps == ShockInv /\ [ShockNext]_shockVars => ShockInv'
<1> SUFFICES ASSUME ShockInv, [ShockNext]_shockVars PROVE ShockInv'
  OBVIOUS
<1>1. ASSUME NEW bar \in Bars, NEW ctx \in Contexts, Update(bar, ctx) PROVE ShockInv'
  BY <1>1, UpdateKeeps, BarsAssumption
<1>2. CASE Reset
  BY <1>2, ResetKeeps
<1>3. CASE UNCHANGED shockVars
  BY <1>3 DEF shockVars, ShockInv, ShockTypeOK, WarmBeforeEvent, EventIsItsBars
<1> QED
  BY <1>1, <1>2, <1>3 DEF ShockNext

\* The state the engine keeps between bars is the event its usable bars
\* describe, whatever the configuration, the bars, the warm-ups and the resets.
THEOREM EventIsItsBarsHolds == ShockSpec => []EventIsItsBars
<1>1. ShockSpec => []ShockInv
  BY InitShock, StepKeeps, PTL DEF ShockSpec
<1>2. ShockInv => EventIsItsBars
  BY DEF ShockInv
<1> QED
  BY <1>1, <1>2, PTL

-----------------------------------------------------------------------------
(* The measurement.                                                        *)

\* Whatever it is asked of, the root is a number.
LEMMA RootType == ASSUME NEW n PROVE Root(n) \in Nat
<1> DEFINE Bit(r, i) == IF (r + Digits[i]) * (r + Digits[i]) <= n THEN r + Digits[i] ELSE r
           f == [i \in 1 .. 7 |-> [r \in Nat |-> Bit(r, i)]]
           Recursion(g) == [i \in 0 .. 7 |-> IF i = 0 THEN 0 ELSE Bit(g[i - 1], i)]
<1>1. \A i \in 1 .. 7 : Digits[i] \in Nat
  BY DEF Digits
<1>2. \A r \in Nat : \A i \in 1 .. 7 : Bit(r, i) \in Nat
  BY <1>1
<1> HIDE DEF Bit
<1>3. \A r \in Nat : \A i \in 1 .. 7 : f[i][r] = Bit(r, i) /\ f[i][r] \in Nat
  BY <1>2
<1> HIDE DEF f
<1>4. PICK g : g \in Table(Nat, 0, 7, f)
  BY <1>3, TableExists
<1>5. g = Recursion(g)
  <2>1. g \in [0 .. 7 -> Nat] /\ g[0] = 0 /\ \A i \in 1 .. 7 : g[i] = f[i][g[i - 1]] /\ i - 1 \in 0 .. 7
    BY <1>4 DEF Table
  <2>2. \A i \in 0 .. 7 : g[i] = IF i = 0 THEN 0 ELSE Bit(g[i - 1], i)
    BY <1>3, <2>1
  <2> QED
    BY <2>1, <2>2
<1> DEFINE upTo == CHOOSE h : h = Recursion(h)
<1>6. upTo = Recursion(upTo)
  BY <1>5
<1>7. Root(n) = upTo[7]
  BY DEF Root, Bit
<1> HIDE DEF upTo
<1>8. upTo[0] = 0 /\ \A i \in 1 .. 7 : upTo[i - 1] \in Nat => upTo[i] \in Nat
  <2>1. upTo[0] = 0 /\ \A i \in 1 .. 7 : upTo[i] = Bit(upTo[i - 1], i)
    BY <1>6
  <2> QED
    BY <1>2, <2>1
<1>9. \A i \in 0 .. 7 : upTo[i] \in Nat
  BY <1>8, TableValues
<1> QED
  BY <1>7, <1>9

\* A correlation is a number, and nothing is read from fewer than two pairs.
LEMMA CorrelationType ==
    ASSUME NEW x, NEW y
    PROVE  Correlation(x, y) \in Int /\ (Len(x) < 2 => Correlation(x, y) = 0)
<1> DEFINE n == Len(x)
           t == Sums(x, y)
           c == n * t[5] - t[1] * t[2]
           v == (n * t[3] - t[1] * t[1]) * (n * t[4] - t[2] * t[2])
           r == Root((10000 * c * c) \div v)
<1>1. r \in Nat
  BY RootType
<1>2. SignOf(c) \in {-1, 0, 1}
  BY DEF SignOf
<1>3. Correlation(x, y) = IF Len(x) < 2 \/ v = 0 THEN 0 ELSE SignOf(c) * r
  BY DEF Correlation
<1> HIDE DEF v, c, r
<1>4. SignOf(c) * r \in Int
  BY <1>1, <1>2
<1> QED
  BY <1>3, <1>4

\* align_returns() keeps at most one pair for each bar.
LEMMA AlignedLength ==
    ASSUME NEW S, NEW s \in Seq(S), NEW reading
    PROVE  Aligned(s, reading) \in Seq(S) /\ Len(Aligned(s, reading)) <= Len(s)
<1> DEFINE n == Len(s)
           Kept(r, i) == IF i > 1 /\ Readable(s, i, reading) THEN Append(r, s[i]) ELSE r
           f == [i \in 1 .. n |-> [r \in Seq(S) |-> Kept(r, i)]]
           Recursion(g) == [i \in 0 .. n |-> IF i = 0 THEN <<>> ELSE Kept(g[i - 1], i)]
<1>1. n \in Nat /\ <<>> \in Seq(S)
  OBVIOUS
<1>2. \A r \in Seq(S) : \A i \in 1 .. n : Kept(r, i) \in Seq(S) /\ Len(Kept(r, i)) <= Len(r) + 1
  OBVIOUS
<1> HIDE DEF Kept
<1>3. \A r \in Seq(S) : \A i \in 1 .. n : f[i][r] = Kept(r, i) /\ f[i][r] \in Seq(S)
  BY <1>2
<1> HIDE DEF f
<1>4. PICK g : g \in Table(Seq(S), <<>>, n, f)
  <2> HIDE DEF n
  <2> QED
    BY <1>1, <1>3, TableExists
<1>5. g = Recursion(g)
  <2>1. g \in [0 .. n -> Seq(S)] /\ g[0] = <<>> /\ \A i \in 1 .. n : g[i] = f[i][g[i - 1]] /\ i - 1 \in 0 .. n
    BY <1>1, <1>4 DEF Table
  <2>2. \A i \in 0 .. n : g[i] = IF i = 0 THEN <<>> ELSE Kept(g[i - 1], i)
    <3>1. \A i \in 1 .. n : g[i] = Kept(g[i - 1], i)
      <4> HIDE DEF n
      <4> QED
        BY <1>1, <1>3, <2>1
    <3>2. \A i \in 0 .. n : i = 0 \/ i \in 1 .. n
      OBVIOUS
    <3> HIDE DEF n, Recursion
    <3> QED
      BY <2>1, <3>1, <3>2
  <2> HIDE DEF n
  <2> QED
    BY <2>1, <2>2
<1> DEFINE upTo == CHOOSE h : h = Recursion(h)
           kept == upTo[n]
<1>6. upTo = Recursion(upTo)
  BY <1>5
<1>7. Aligned(s, reading) =
        IF reading = "stale" /\ kept # <<>> THEN SubSeq(kept, 1, Len(kept) - 1) ELSE kept
  BY DEF Aligned, Kept
<1> HIDE DEF upTo
<1>8. upTo[0] = <<>> /\ \A i \in 1 .. n : upTo[i] = Kept(upTo[i - 1], i)
  BY <1>6
<1> DEFINE T == {r \in Seq(S) : Len(r) <= n}
           K == {i \in Nat : i <= n => upTo[i] \in Seq(S) /\ Len(upTo[i]) <= i}
<1>9. 0 \in K
  <2>1. Len(upTo[0]) = 0 /\ upTo[0] \in Seq(S)
    BY <1>8
  <2> HIDE DEF n
  <2> QED
    BY <2>1
<1>10. ASSUME NEW i \in Nat, i \in K PROVE i + 1 \in K
  <2>1. CASE i + 1 <= n
    <3>1. i + 1 \in 1 .. n /\ (i + 1) - 1 = i /\ i <= n
      BY <2>1
    <3>2. upTo[i] \in Seq(S) /\ Len(upTo[i]) <= i /\ upTo[i + 1] = Kept(upTo[i], i + 1)
      BY <1>8, <1>10, <3>1
    <3>3. upTo[i + 1] \in Seq(S) /\ Len(upTo[i + 1]) <= Len(upTo[i]) + 1
      BY <1>2, <3>1, <3>2
    <3>4. Len(upTo[i]) \in Nat /\ Len(upTo[i + 1]) \in Nat
      BY <3>2, <3>3
    <3> HIDE DEF n
    <3> QED
      BY <3>2, <3>3, <3>4
  <2> HIDE DEF n
  <2> QED
    BY <1>10, <2>1
<1> HIDE DEF K
<1>11. n \in K
  BY <1>9, <1>10, NumberInduction
<1>12. kept \in Seq(S) /\ Len(kept) <= n
  BY <1>1, <1>11 DEF K
<1> HIDE DEF kept
<1>13. kept # <<>> => SubSeq(kept, 1, Len(kept) - 1) \in Seq(S) /\ Len(SubSeq(kept, 1, Len(kept) - 1)) <= n
  BY <1>12
<1> QED
  BY <1>7, <1>12, <1>13

\* Some lag is the first of the strongest ones, so the best lag is eligible.
LEMMA BestLagIsEligible ==
    ASSUME NEW s, EligibleLags(s) # {}
    PROVE  BestLag(s) \in EligibleLags(s)
<1> DEFINE E == EligibleLags(s)
           r(lag) == Magnitude(AtLag(s, lag))
           Best(b, n) == \A lag \in E : lag <= n => r(lag) < r(b) \/ (r(lag) = r(b) /\ b <= lag)
           T == {n \in Nat : (\E lag \in E : lag <= n) => \E b \in E : b <= n /\ Best(b, n)}
<1>1. E \subseteq Nat /\ \A lag \in E : lag <= MaxLag
  BY LeadLagAssumption DEF EligibleLags
<1>2. ASSUME NEW lag PROVE r(lag) \in Int
  <2>1. AtLag(s, lag) \in Int
    BY CorrelationType DEF AtLag
  <2> QED
    BY <2>1 DEF Magnitude
<1> HIDE DEF E, r
<1>3. 0 \in T
  BY <1>1
<1>4. ASSUME NEW n \in Nat, n \in T PROVE n + 1 \in T
  <2> SUFFICES ASSUME \E lag \in E : lag <= n + 1 PROVE \E b \in E : b <= n + 1 /\ Best(b, n + 1)
    OBVIOUS
  <2>1. ASSUME NEW lag \in E PROVE lag \in Nat /\ r(lag) \in Int /\ (lag <= n + 1 => lag <= n \/ lag = n + 1)
    <3>1. lag \in Nat
      BY <1>1
    <3>2. r(lag) \in Int
      BY <1>2
    <3> QED
      BY <3>1, <3>2
  <2>2. CASE ~ \E lag \in E : lag <= n
    <3>1. n + 1 \in E /\ Best(n + 1, n + 1)
      BY <2>1, <2>2
    <3> QED
      BY <3>1
  <2>3. CASE \E lag \in E : lag <= n
    <3>1. PICK b \in E : b <= n /\ Best(b, n)
      BY <1>4, <2>3
    <3>2. b \in Nat /\ r(b) \in Int /\ b <= n + 1
      BY <2>1, <3>1
    <3>3. CASE n + 1 \in E /\ r(b) < r(n + 1)
      <4>1. ASSUME NEW lag \in E, lag <= n + 1
            PROVE  r(lag) < r(n + 1) \/ (r(lag) = r(n + 1) /\ n + 1 <= lag)
        <5>1. lag <= n => r(lag) < r(b) \/ r(lag) = r(b)
          BY <3>1
        <5>2. r(lag) \in Int /\ r(n + 1) \in Int /\ (lag <= n \/ lag = n + 1)
          BY <2>1, <3>3, <4>1
        <5> QED
          BY <3>2, <3>3, <5>1, <5>2
      <4> QED
        BY <3>3, <4>1
    <3>4. CASE ~ (n + 1 \in E /\ r(b) < r(n + 1))
      <4>1. ASSUME NEW lag \in E, lag <= n + 1
            PROVE  r(lag) < r(b) \/ (r(lag) = r(b) /\ b <= lag)
        <5>1. lag <= n => r(lag) < r(b) \/ (r(lag) = r(b) /\ b <= lag)
          BY <3>1
        <5>2. r(lag) \in Int /\ lag \in Nat /\ (lag <= n \/ lag = n + 1)
          BY <2>1, <4>1
        <5>3. lag = n + 1 => r(lag) <= r(b) /\ b <= lag
          BY <3>2, <3>4, <5>2
        <5> QED
          BY <3>2, <5>1, <5>2, <5>3
      <4> QED
        BY <3>2, <4>1
    <3> QED
      BY <3>3, <3>4
  <2> QED
    BY <2>2, <2>3
<1> HIDE DEF T
<1>5. MaxLag \in T
  BY <1>3, <1>4, NumberInduction, LeadLagAssumption
<1>6. PICK b \in E : Best(b, MaxLag)
  <2>1. \E lag \in E : lag <= MaxLag
    BY <1>1 DEF E
  <2> QED
    BY <1>5, <2>1 DEF T
<1> DEFINE found == {[lag |-> lag, r |-> r(lag)] : lag \in E}
           First(f) == \A g \in found : g.r < f.r \/ (g.r = f.r /\ f.lag <= g.lag)
<1>7. [lag |-> b, r |-> r(b)] \in found /\ First([lag |-> b, r |-> r(b)])
  BY <1>1, <1>6
<1> DEFINE best == CHOOSE f \in found : First(f)
<1>8. BestLag(s) = best.lag
  BY DEF BestLag, E, r
<1>9. best \in found
  <2> HIDE DEF found, First
  <2> QED
    BY <1>7
<1> HIDE DEF best
<1>10. best.lag \in E
  BY <1>9
<1> QED
  BY <1>8, <1>10 DEF E

\* What NoClaimBelowTheNoise says, of any measurement.
AboveNoise(m) ==
    m.direction # 0 =>
        LET pairsRead == IF m.state \in Unsure THEN m.sample \div 2 ELSE m.sample
        IN  /\ m.valid /\ pairsRead >= 2
            /\ m.strength >= NoiseFloor[pairsRead]
            /\ m.strength >= MinAssociation
            /\ m.confidence <= m.strength

\* What the floor of n pairs asks is at least the noise of n pairs.
LEMMA FloorOf ==
    ASSUME NEW n \in 1 .. MaxBars
    PROVE  /\ Floor(n) \in Nat /\ Floor(n) >= NoiseFloor[n] /\ Floor(n) >= MinAssociation
           /\ NoiseFloor[n] \in Nat /\ MinAssociation \in Nat
           /\ n < 2 => Floor(n) >= 1
BY LeadLagAssumption, BoundsAssumption DEF Floor, AtLeast

\* Each state that has a direction has passed the floor of the sample it is
\* about: the half for the states that compare halves, the window for the others.
LEMMA StateHolds ==
    ASSUME NEW p, NEW w, Len(p.leader) \in Nat,
           TransmissionState(p, w) # "INACTIVE"
    PROVE  LET state == TransmissionState(p, w)
           IN  IF state \in Unsure
               THEN /\ HalvesCompare(Len(p.leader))
                    /\ Magnitude(Relevant(state, w)) >= HalfFloor(Len(p.leader))
               ELSE /\ Magnitude(w.full) >= Floor(Len(p.leader))
                    /\ Relevant(state, w) = w.full
BY DEF TransmissionState, Unsure, Relevant

\* The confidence is never more than the strength.
LEMMA ConfidenceBounded ==
    ASSUME NEW p, NEW w, NEW state, state # "INACTIVE", Len(p.leader) \in Nat,
           Relevant(state, w) \in Int, w.older \in Int, w.recent \in Int
    PROVE  MeasureConfidence(p, w, state) <= Magnitude(Relevant(state, w))
<1> DEFINE m == Len(p.leader)
           sample == AtMost(100, (100 * (m - MinSample)) \div AtLeast(1, 2 * MinSample))
           stability == IF HalvesCompare(m) THEN Stability(p, w) ELSE 50
           r == Magnitude(Relevant(state, w))
           least == AtMost(sample, AtMost(r, stability))
<1>1. sample \in Int
  <2>1. AtLeast(1, 2 * MinSample) \in Nat \ {0}
    BY LeadLagAssumption DEF AtLeast
  <2>2. 100 * (m - MinSample) \in Int
    BY LeadLagAssumption
  <2> HIDE DEF m
  <2>3. (100 * (m - MinSample)) \div AtLeast(1, 2 * MinSample) \in Int
    BY <2>1, <2>2
  <2> QED
    BY <2>3 DEF AtMost
<1>2. stability \in Int
  <2>1. Magnitude(w.older - w.recent) \in Int
    BY DEF Magnitude
  <2>2. 100 - (Magnitude(w.older - w.recent) \div 2) \in Int
    BY <2>1
  <2>3. Stability(p, w) \in {0, 100 - (Magnitude(w.older - w.recent) \div 2)}
    BY Zenon DEF Stability
  <2> QED
    BY <2>2, <2>3
<1>3. r \in Nat
  BY DEF Magnitude
<1>4. MeasureConfidence(p, w, state) = IF state \in Unsure THEN least \div 2 ELSE least
  BY DEF MeasureConfidence, Unsure
<1> HIDE DEF sample, stability, r
<1>5. least \in Int /\ least <= r
  BY <1>1, <1>2, <1>3 DEF AtMost
<1> HIDE DEF least
<1>6. least \div 2 <= r
  BY <1>3, <1>5
<1> QED
  BY <1>4, <1>5, <1>6 DEF r

\* compute_snapshot(): a direction is reported of nothing weaker than noise,
\* for any series that is no longer than the table of floors.
LEMMA MeasuredAboveNoise ==
    ASSUME NEW S, NEW s \in Seq(S), Len(s) <= MaxBars
    PROVE  AboveNoise(Transmission(s))
<1> DEFINE lag == BestLag(s)
           p == Paired(s, lag)
           w == Windows(p)
           state == TransmissionState(p, w)
           r == Relevant(state, w)
<1>1. CASE Len(s) < MinSample \/ EligibleLags(s) = {}
  BY <1>1 DEF Transmission, NoTransmission, AboveNoise
<1>2. CASE ~ (Len(s) < MinSample \/ EligibleLags(s) = {})
  <2>1. lag \in Nat /\ Len(s) - lag \in 1 .. MaxBars
    <3>1. lag \in EligibleLags(s)
      BY <1>2, BestLagIsEligible
    <3> HIDE DEF lag
    <3> QED
      BY <3>1, LeadLagAssumption, BoundsAssumption DEF EligibleLags
  <2> DEFINE m == Len(p.leader)
  <2>2. m = Len(s) - lag
    <3>1. p.leader = Listed([i \in 1 .. Len(s) - lag |-> s[i].leader])
      BY DEF Paired
    <3> DEFINE leader == [i \in 1 .. Len(s) - lag |-> s[i].leader]
    <3>2. leader \in Seq({leader[i] : i \in 1 .. Len(s) - lag}) /\ Len(leader) = Len(s) - lag
      <4> HIDE DEF lag
      <4> QED
        BY <2>1
    <3> HIDE DEF leader
    <3>3. Listed(leader) = leader
      BY <3>2 DEF Listed
    <3> QED
      BY <3>1, <3>2, <3>3 DEF leader
  <2>3. m \in 1 .. MaxBars
    BY <2>1, <2>2
  <2>4. /\ w.full \in Int /\ w.older \in Int /\ w.recent \in Int
        /\ m < 2 => w.full = 0
    <3> HIDE DEF p
    <3> QED
      BY CorrelationType DEF Windows
  <2> HIDE DEF p, w
  <2>5. r \in Int
    BY <2>4 DEF Relevant
  <2>6. Transmission(s) =
          [valid |-> TRUE, state |-> state, lag |-> lag,
           direction |-> IF state = "INACTIVE" THEN 0 ELSE IF r > 0 THEN 1 ELSE -1,
           strength |-> Magnitude(r), sample |-> m,
           confidence |-> MeasureConfidence(p, w, state)]
    BY <1>2 DEF Transmission, p, w
  <2> HIDE DEF m
  <2>7. CASE state = "INACTIVE"
    BY <2>6, <2>7 DEF AboveNoise
  <2>8. CASE state # "INACTIVE"
    <3>1. MeasureConfidence(p, w, state) <= Magnitude(r)
      BY <2>3, <2>4, <2>5, <2>8, ConfidenceBounded DEF m
    <3>2. CASE state \in Unsure
      <4>1. HalvesCompare(m) /\ Magnitude(r) >= HalfFloor(m)
        BY <2>3, <2>8, <3>2, StateHolds DEF m
      <4>2. m \div 2 \in 1 .. MaxBars /\ m \div 2 >= 2
        <5>1. AtLeast(LeastHalf, MinSample \div 4) >= 2 /\ AtLeast(LeastHalf, MinSample \div 4) \in Int
          BY LeadLagAssumption DEF AtLeast
        <5>2. m \div 2 \in Int /\ m \div 2 <= m
          BY <2>3
        <5>3. m \div 2 >= AtLeast(LeastHalf, MinSample \div 4)
          BY <4>1 DEF HalvesCompare
        <5> DEFINE h == m \div 2
                   least == AtLeast(LeastHalf, MinSample \div 4)
        <5>4. h \in Int /\ h <= m /\ h >= least /\ least >= 2 /\ least \in Int /\ m \in Int /\ m <= MaxBars
          BY <2>3, <5>1, <5>2, <5>3
        <5> HIDE DEF h, least
        <5>5. h \in 1 .. MaxBars /\ h >= 2
          BY <5>4, BoundsAssumption
        <5> QED
          BY <5>5 DEF h
      <4>3. HalfFloor(m) = Floor(m \div 2)
        BY DEF HalfFloor
      <4> DEFINE n == m \div 2
      <4>4. /\ Floor(n) \in Nat /\ Floor(n) >= NoiseFloor[n] /\ Floor(n) >= MinAssociation
            /\ NoiseFloor[n] \in Nat /\ MinAssociation \in Nat
        BY <4>2, FloorOf
      <4>5. Magnitude(r) \in Int
        BY <2>5 DEF Magnitude
      <4> HIDE DEF n, r
      <4>6. Magnitude(r) >= NoiseFloor[n] /\ Magnitude(r) >= MinAssociation
        BY <4>1, <4>3, <4>4, <4>5 DEF n
      <4> QED
        BY <2>6, <3>1, <3>2, <4>2, <4>6 DEF AboveNoise, n
    <3>3. CASE state \notin Unsure
      <4>1. Magnitude(w.full) >= Floor(m) /\ r = w.full
        BY <2>3, <2>8, <3>3, StateHolds DEF m
      <4>2. /\ Floor(m) \in Nat /\ Floor(m) >= NoiseFloor[m] /\ Floor(m) >= MinAssociation
            /\ NoiseFloor[m] \in Nat /\ MinAssociation \in Nat
            /\ m < 2 => Floor(m) >= 1
        BY <2>3, FloorOf
      <4>3. Magnitude(r) \in Int /\ (w.full = 0 => Magnitude(r) = 0)
        BY <2>5, <4>1 DEF Magnitude
      <4>4. m >= 2
        BY <2>3, <2>4, <4>1, <4>2, <4>3
      <4> HIDE DEF r
      <4>5. Magnitude(r) >= NoiseFloor[m] /\ Magnitude(r) >= MinAssociation
        BY <4>1, <4>2, <4>3
      <4> QED
        BY <2>6, <3>1, <3>3, <4>4, <4>5 DEF AboveNoise
    <3> QED
      BY <3>2, <3>3
  <2> QED
    BY <2>7, <2>8
<1> QED
  BY <1>1, <1>2

-----------------------------------------------------------------------------
(* The loop over the two.                                                  *)

ContextInv ==
    /\ pairs \in Seq(Pairs) /\ Len(pairs) <= MaxBars
    /\ ShockInv
    /\ NoClaimBelowTheNoise

LEMMA InitContext == Init => ContextInv
<1> SUFFICES ASSUME Init PROVE ContextInv
  OBVIOUS
<1>1. pairs \in Seq(Pairs) /\ Len(pairs) <= MaxBars
  BY BoundsAssumption DEF Init
<1>2. NoClaimBelowTheNoise
  BY DEF Init, NoTransmission, NoClaimBelowTheNoise
<1> QED
  BY <1>1, <1>2, InitShock DEF Init, ContextInv

LEMMA ClosedBarKeeps ==
    ASSUME ContextInv, NEW p \in Pairs, NEW reading \in Readings, ClosedBar(p, reading)
    PROVE  ContextInv'
<1>1. pairs \in Seq(Pairs) /\ Len(pairs) < MaxBars /\ pairs' = Append(pairs, p)
  BY DEF ClosedBar, ContextInv
<1>2. pairs' \in Seq(Pairs) /\ Len(pairs') = Len(pairs) + 1 /\ Len(pairs') <= MaxBars
  BY <1>1, BoundsAssumption
<1>3. measured' = Transmission(Aligned(pairs', reading))
  BY DEF ClosedBar
<1>4. Aligned(pairs', reading) \in Seq(Pairs) /\ Len(Aligned(pairs', reading)) <= MaxBars
  <2>1. Aligned(pairs', reading) \in Seq(Pairs) /\ Len(Aligned(pairs', reading)) <= Len(pairs')
    BY <1>2, AlignedLength
  <2>2. Len(Aligned(pairs', reading)) \in Nat
    BY <2>1
  <2> QED
    BY <1>2, <2>1, <2>2, BoundsAssumption
<1>5. AboveNoise(measured')
  BY <1>3, <1>4, MeasuredAboveNoise
<1>6. NoClaimBelowTheNoise'
  BY <1>5 DEF AboveNoise, NoClaimBelowTheNoise
<1>7. ShockInv'
  <2> DEFINE bar == [usable |-> Usable(p), return |-> p.receiver, volShock |-> p.volShock]
             ctx == [available |-> measured'.valid, direction |-> measured'.direction,
                     regimeAvailable |-> TRUE, regimeStrength |-> p.regimeStrength]
  <2>1. Update(bar, ctx)
    BY DEF ClosedBar
  <2>2. bar.usable \in BOOLEAN /\ bar.return \in Int
    BY PairsAssumption DEF Usable
  <2> HIDE DEF bar, ctx
  <2> QED
    BY <2>1, <2>2, UpdateKeeps DEF ContextInv
<1> QED
  BY <1>2, <1>6, <1>7 DEF ContextInv

LEMMA ContextKeeps == ContextInv /\ [Next]_vars => ContextInv'
<1> SUFFICES ASSUME ContextInv, [Next]_vars PROVE ContextInv'
  OBVIOUS
<1>1. ASSUME NEW p \in Pairs, NEW reading \in Readings, ClosedBar(p, reading) PROVE ContextInv'
  BY <1>1, ClosedBarKeeps
<1>2. CASE NewStretch
  <2>1. ShockInv'
    BY <1>2, ResetKeeps DEF NewStretch, ContextInv
  <2> QED
    BY <1>2, <2>1 DEF NewStretch, ContextInv, NoClaimBelowTheNoise
<1>3. CASE UNCHANGED vars
  BY <1>3 DEF vars, ContextInv, NoClaimBelowTheNoise, ShockInv, ShockTypeOK, WarmBeforeEvent, EventIsItsBars
<1> QED
  BY <1>1, <1>2, <1>3 DEF Next

LEMMA ContextHolds == Spec => []ContextInv
BY InitContext, ContextKeeps, PTL DEF Spec

\* The same of the engine inside the loop that feeds it both markets' bars.
THEOREM EventIsItsBarsInContext == Spec => []EventIsItsBars
<1>1. ContextInv => EventIsItsBars
  BY DEF ContextInv, ShockInv
<1> QED
  BY <1>1, ContextHolds, PTL

\* Whatever relationship is reported with a direction is at least as strong as
\* what noise would show in the pairs it was read from, for any two series,
\* whatever bars were dropped from them and however late they were read.
THEOREM ClaimsAreAboveNoise == Spec => []NoClaimBelowTheNoise
<1>1. ContextInv => NoClaimBelowTheNoise
  BY DEF ContextInv
<1> QED
  BY <1>1, ContextHolds, PTL
=============================================================================

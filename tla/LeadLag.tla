------------------------------ MODULE LeadLag ------------------------------
(***************************************************************************)
(* The information-transmission measurement of python/autopsy_research:    *)
(* does one market's return lead another's?  A pure function of two series *)
(* of closed bars, translated operator by operator.                        *)
(*                                                                         *)
(* A correlation is kept as a percent, rounded toward zero.  A bar of the  *)
(* pair is what align_returns() reads of it: the settled move of the       *)
(* leader and of the receiver, whether both closes are positive, whether   *)
(* the two bars are close enough together, and the regime the receiver's   *)
(* bar was classified in.  A reading is "fresh", "stale" (the newest bar   *)
(* is too old) or "early" (it is stamped after now, so not yet closed).    *)
(***************************************************************************)
EXTENDS Integers, Sequences, FiniteSets, SequencesExt

CONSTANTS
    MaxLag, MinSample,
    MinAssociation,     \* min_association, in percent
    WeakeningPct,       \* weakening_ratio
    MinRegimeSample,
    LeastHalf,          \* the floor of min_half_sample: 5 in the code
    NoiseFloor          \* n :> the |r| noise reaches in n pairs, after Bonferroni

ASSUME LeadLagAssumption ==
    /\ {MaxLag, MinAssociation, WeakeningPct, MinRegimeSample} \subseteq Nat
    /\ MinSample \in Nat \ {0}
    /\ LeastHalf \in Nat /\ LeastHalf >= 2
    /\ \A n \in DOMAIN NoiseFloor : NoiseFloor[n] \in 0 .. 100 /\ (n < 4 => NoiseFloor[n] = 100)

-----------------------------------------------------------------------------
Magnitude(n) == IF n < 0 THEN -n ELSE n
AtMost(a, b) == IF a < b THEN a ELSE b
AtLeast(a, b) == IF a > b THEN a ELSE b
SignOf(n) == IF n > 0 THEN 1 ELSE IF n < 0 THEN -1 ELSE 0
Listed(s) == s \o <<>>      \* the same sequence, evaluated once

\* A bar whose pair can be read: positive closes here and one bar before, both
\* bars closed, and not drifted apart.  A dropped pair is removed, never filled.
Readable(pairs, i, reading) ==
    /\ pairs[i - 1].positive /\ pairs[i].positive
    /\ ~(reading = "early" /\ i = Len(pairs))
    /\ pairs[i].together

\* align_returns(): the pairs kept, without the newest of them when the feed is stale.
Aligned(pairs, reading) ==
    LET upTo[i \in 0 .. Len(pairs)] ==
          IF i = 0 THEN <<>>
          ELSE IF i > 1 /\ Readable(pairs, i, reading) THEN Append(upTo[i - 1], pairs[i])
          ELSE upTo[i - 1]
        kept == upTo[Len(pairs)]
    IN  IF reading = "stale" /\ kept # <<>> THEN SubSeq(kept, 1, Len(kept) - 1) ELSE kept

\* The sums of x, y, their squares and their products.
Sums(x, y) ==
    LET upTo[i \in 0 .. Len(x)] ==
          IF i = 0 THEN <<0, 0, 0, 0, 0>>
          ELSE LET t == upTo[i - 1]
               IN  <<t[1] + x[i], t[2] + y[i], t[3] + x[i] * x[i], t[4] + y[i] * y[i], t[5] + x[i] * y[i]>>
    IN  upTo[Len(x)]

\* The square root of n \in 0 .. 10000, rounded down, one binary digit at a time.
Digits == <<64, 32, 16, 8, 4, 2, 1>>
Root(n) ==
    LET upTo[i \in 0 .. 7] ==
          IF i = 0 THEN 0
          ELSE LET r == upTo[i - 1]
                   next == r + Digits[i]
               IN  IF next * next <= n THEN next ELSE r
    IN  upTo[7]

\* pearson_corr(), rounded toward zero; 0 where it is not defined.
Correlation(x, y) ==
    LET n == Len(x)
        t == Sums(x, y)
        c == n * t[5] - t[1] * t[2]
        v == (n * t[3] - t[1] * t[1]) * (n * t[4] - t[2] * t[2])
    IN  IF n < 2 \/ v = 0 THEN 0 ELSE SignOf(c) * Root((10000 * c * c) \div v)

\* The receiver's bar i against the leader's bar i - lag, for every i there is.
Paired(s, lag) ==
    [leader   |-> Listed([i \in 1 .. Len(s) - lag |-> s[i].leader]),
     receiver |-> Listed([i \in 1 .. Len(s) - lag |-> s[i + lag].receiver]),
     regime   |-> Listed([i \in 1 .. Len(s) - lag |-> s[i + lag].regime])]

AtLag(s, lag) ==
    IF Len(s) - lag < 2 THEN 0
    ELSE LET p == Paired(s, lag) IN Correlation(p.leader, p.receiver)

\* The first of the strongest lags that keep a full sample.
EligibleLags(s) == {lag \in 0 .. MaxLag : Len(s) - lag >= MinSample /\ Len(s) - lag >= 0}
BestLag(s) ==
    LET found == {[lag |-> lag, r |-> Magnitude(AtLag(s, lag))] : lag \in EligibleLags(s)}
        best  == CHOOSE f \in found : \A g \in found : g.r < f.r \/ (g.r = f.r /\ f.lag <= g.lag)
    IN  best.lag

-----------------------------------------------------------------------------
\* What each sample must clear: a half is gated by its own, larger noise floor.
Floor(n) == AtLeast(MinAssociation, NoiseFloor[n])

\* A mutation: the halves gated by the floor of the whole window.
HalfFloor_OfWhole(m) == Floor(m)

\* The floor of each half of a window of m pairs.
HalfFloor(m) == Floor(m \div 2)


\* Only the halves of a long enough window are compared.
HalvesCompare(m) == (m \div 2) >= AtLeast(LeastHalf, MinSample \div 4)

\* The correlations of the window, of its older and of its recent half.
Windows(p) ==
    LET m == Len(p.leader)
        h == m \div 2
    IN  [full   |-> Correlation(p.leader, p.receiver),
         older  |-> IF h < 2 THEN Correlation(p.leader, p.receiver)
                    ELSE Correlation(SubSeq(p.leader, 1, h), SubSeq(p.receiver, 1, h)),
         recent |-> IF h < 2 THEN Correlation(p.leader, p.receiver)
                    ELSE Correlation(SubSeq(p.leader, m - h + 1, m), SubSeq(p.receiver, m - h + 1, m))]

Stability(p, w) ==
    IF Len(p.leader) \div 2 < 2 THEN 0 ELSE 100 - (Magnitude(w.older - w.recent) \div 2)

\* The association inside one regime, 0 where the bucket is too small.
InRegime(p, r) ==
    LET at == SelectSeq([i \in 1 .. Len(p.regime) |-> i], LAMBDA i : p.regime[i] = r)
    IN  IF Len(at) < MinRegimeSample THEN 0
        ELSE Correlation([j \in DOMAIN at |-> p.leader[at[j]]], [j \in DOMAIN at |-> p.receiver[at[j]]])

\* The window closes in the regime where the association is the strongest.
InStrongestRegime(p) ==
    LET last  == p.regime[Len(p.regime)]
        found == {[regime |-> q, r |-> Magnitude(InRegime(p, q))] : q \in {p.regime[i] : i \in DOMAIN p.regime}}
        best  == CHOOSE f \in found : \A g \in found : g.r < f.r \/ (g.r = f.r /\ f.regime <= g.regime)
    IN  best.regime = last /\ best.r # 0

\* The transmission-state waterfall; older against recent comes before the window.
TransmissionState(p, w) ==
    LET m == Len(p.leader)
        olderHolds  == Magnitude(w.older) >= HalfFloor(m)
        recentHolds == Magnitude(w.recent) >= HalfFloor(m)
        windowHolds == Magnitude(w.full) >= Floor(m)
    IN  IF ~HalvesCompare(m) THEN (IF windowHolds THEN "LEADER" ELSE "INACTIVE")
        ELSE IF olderHolds /\ recentHolds /\ SignOf(w.older) # SignOf(w.recent) THEN "INVERTED"
        ELSE IF olderHolds /\ ~recentHolds THEN "DIVERGING"
        ELSE IF olderHolds /\ 100 * Magnitude(w.recent) < WeakeningPct * Magnitude(w.older) THEN "WEAKENING"
        ELSE IF ~windowHolds THEN "INACTIVE"
        ELSE IF InStrongestRegime(p) THEN "CONFIRMING"
        ELSE "LEADER"

Unsure == {"DIVERGING", "WEAKENING", "INVERTED"}

\* The reading the state is about: what holds now, what used to hold, or the window.
Relevant(state, w) ==
    CASE state = "INVERTED" -> w.recent
      [] state \in {"DIVERGING", "WEAKENING"} -> w.older
      [] OTHER -> w.full

MeasureConfidence(p, w, state) ==
    LET m == Len(p.leader)
        sample == AtMost(100, (100 * (m - MinSample)) \div AtLeast(1, 2 * MinSample))
        stability == IF HalvesCompare(m) THEN Stability(p, w) ELSE 50
        least == AtMost(sample, AtMost(Magnitude(Relevant(state, w)), stability))
    IN  CASE state = "INACTIVE" -> 0
          [] state \in Unsure   -> least \div 2
          [] OTHER              -> least

NoTransmission(n) ==
    [valid |-> FALSE, state |-> "INSUFFICIENT_DATA", direction |-> 0, lag |-> -1,
     strength |-> 0, sample |-> n, confidence |-> 0]

\* compute_snapshot().
Transmission(s) ==
    IF Len(s) < MinSample \/ EligibleLags(s) = {} THEN NoTransmission(Len(s))
    ELSE LET lag   == BestLag(s)
             p     == Paired(s, lag)
             w     == Windows(p)
             state == TransmissionState(p, w)
             r     == Relevant(state, w)
         IN  [valid |-> TRUE, state |-> state, lag |-> lag,
              direction |-> IF state = "INACTIVE" THEN 0 ELSE IF r > 0 THEN 1 ELSE -1,
              strength |-> Magnitude(r), sample |-> Len(p.leader),
              confidence |-> MeasureConfidence(p, w, state)]
=============================================================================

--------------------------- MODULE MarketContext ---------------------------
(***************************************************************************)
(* What surrounds a token's own numbers: the class of its move             *)
(* (detection/move.py), the news before it (news/catalyst.py), the posts   *)
(* about it (social/attention.py), its narratives (narrative/engine.py)    *)
(* and who leads whom (narrative/leadlag.py).                              *)
(*                                                                         *)
(* Config is the loaded configuration (config/default.toml) with its       *)
(* fractions in percent and its z-scores in tenths.  An unavailable        *)
(* quantity is None.                                                       *)
(***************************************************************************)
EXTENDS Integers, FiniteSets, FiniteSetsExt, Sequences, SequencesExt

CONSTANTS
    None,
    Config

Has(v) == v # None
AtMost(a, b) == IF a < b THEN a ELSE b
AtLeast(a, b) == IF a > b THEN a ELSE b
OrZero(v) == IF Has(v) THEN v ELSE 0

\* ----------------------------------------------------------------- move --
Order == <<"UNCLASSIFIED", "NORMAL", "WATCH", "UNUSUAL", "SIGNIFICANT", "EXTREME">>
RankOf(class) == CHOOSE i \in DOMAIN Order : Order[i] = class
ReachesClass(class, floor) == RankOf(class) >= RankOf(floor)

Size(z) == IF z < 0 THEN -z ELSE z

\* The class follows the largest |z| of the windows that have one; the onset
\* is kept only with a direction and a sigma (e.onset is what find_onset finds).
ClassifyMove(e) ==
    LET known == {n \in DOMAIN e.z : Has(e.z[n])}
        drive == CHOOSE n \in known : \A m \in known : Size(e.z[m]) <= Size(e.z[n])
        size  == Size(e.z[drive])
        class == IF size >= Config.extreme THEN "EXTREME"
                 ELSE IF size >= Config.significant THEN "SIGNIFICANT"
                 ELSE IF size >= Config.unusual THEN "UNUSUAL"
                 ELSE IF size >= Config.watch THEN "WATCH" ELSE "NORMAL"
    IN  IF known = {}
        THEN [class |-> "UNCLASSIFIED", direction |-> 0, size |-> None, drive |-> None, onset |-> None]
        ELSE [class |-> class, size |-> size, drive |-> drive,
              direction |-> IF class = "NORMAL" THEN 0 ELSE IF e.z[drive] > 0 THEN 1 ELSE -1,
              onset |-> IF class = "NORMAL" THEN None ELSE e.onset]

Rising(move, floor) == move.direction > 0 /\ ReachesClass(move.class, floor)

\* ------------------------------------------------------------- catalyst --
\* TIER_CREDIBILITY and EXPECTED_DIRECTION.
Credibility == <<95, 80, 55, 20>>
Impact(type) == CASE type \in {"LISTING", "PARTNERSHIP", "BURN"} -> 1
                  [] type \in {"DELISTING", "EXPLOIT", "TOKEN_UNLOCK"} -> -1
                  [] OTHER -> 0

Confirmed(story) ==
    \/ \E n \in story : n.tier \in Config.confirmedTiers
    \/ Cardinality({n.source : n \in {m \in story : m.tier = 3}}) >= Config.minTier3

NoCatalyst == [timing |-> "NO_IDENTIFIED_CATALYST", event |-> None, confirmed |-> FALSE,
               consistent |-> None, credibility |-> 0, candidates |-> 0]

\* The most credible story of the window, the earliest of those, and the side
\* of the onset on which its first report lies.
Catalyst(token, move, news) ==
    LET onset   == move.onset.ts
        related == {n \in news : token \in n.tokens
                        /\ onset - Config.newsBefore <= n.ts /\ n.ts <= onset + Config.newsAfter}
        stories == {{n \in related : n.story = s} : s \in {n.story : n \in related}}
        tier(s) == Min({n.tier : n \in s})
        start(s) == Min({n.ts : n \in s})
        before(s, u) == tier(s) < tier(u) \/ (tier(s) = tier(u) /\ start(s) <= start(u))
        best    == CHOOSE s \in stories : \A u \in stories : before(s, u)
        first   == CHOOSE n \in best : n.ts = start(best)
        stored(s) == CHOOSE n \in s : \A m \in s : n.seen <= m.seen
        sides   == {Impact(stored(s).type) : s \in stories} \ {0}
        lead    == onset - first.ts
        sure    == Confirmed(best)
        belief  == Max({Credibility[n.tier] : n \in best})
    IN  IF ~Has(move.onset) THEN NoCatalyst
        ELSE IF related = {} THEN NoCatalyst
        ELSE [timing |-> IF Cardinality(sides) > 1 THEN "CONFLICTING_INFORMATION"
                         ELSE IF Size(lead) <= Config.simultaneity THEN "SIMULTANEOUS"
                         ELSE IF lead > 0 THEN "NEWS_FIRST" ELSE "MOVE_FIRST",
              event |-> first, confirmed |-> sure, candidates |-> Cardinality(related),
              consistent |-> IF Impact(first.type) = 0 THEN None
                             ELSE Impact(first.type) = move.direction,
              credibility |-> IF sure THEN belief ELSE AtMost(belief, Credibility[4] + 10)]

CatalystScore(c) ==
    LET base == CASE c.timing = "NEWS_FIRST" -> 100 [] c.timing = "SIMULTANEOUS" -> 60
                  [] c.timing = "MOVE_FIRST" -> 25 [] OTHER -> 0
    IN  IF ~Has(c.event) \/ c.consistent = FALSE THEN 0 ELSE (base * c.credibility) \div 100

\* ------------------------------------------------------------ attention --
\* posts: [author, text, repost, ts, weight]; two posts with one text are
\* near-duplicates.  A text counts once, for the heaviest of its authors, and
\* an author once, with the heaviest of its texts.
Effective(posts) ==
    LET texts    == {p.text : p \in {q \in posts : ~q.repost}}
        group(x) == {p \in posts : ~p.repost /\ p.text = x}
        top(x)   == CHOOSE p \in group(x) : \A q \in group(x) : q.weight <= p.weight
        best(w)  == Max({top(x).weight : x \in {y \in texts : top(y).author = w}})
    IN  MapThenSumSet(best, {top(x).author : x \in texts})

Median(s) ==
    LET sorted == SortSeq(s, <)
        n      == Len(s)
    IN  IF n % 2 = 1 THEN sorted[(n + 1) \div 2] ELSE (sorted[n \div 2] + sorted[n \div 2 + 1]) \div 2

\* Velocities compare this window with the median of the windows before it and
\* need a post older than all of them; in percent.
Attention(posts, now, available) ==
    LET win       == Config.socialWindow
        window(k) == {p \in posts : now - (k + 1) * win <= p.ts /\ p.ts < now - k * win}
        based     == \E p \in posts : p.ts <= now - Config.socialBaselines * win
        prior(F(_)) == [k \in 1..Config.socialBaselines |-> F(window(k))]
        velocity(F(_)) == IF based THEN (100 * (F(window(0)) + 1)) \div (Median(prior(F)) + 1) ELSE None
    IN  IF available
        THEN [mentions |-> velocity(Cardinality), authors |-> velocity(Effective)]
        ELSE [mentions |-> None, authors |-> None]

\* ------------------------------------------------------------ narrative --
\* Members are [up, volumeZ, buyers, velocity, news, launch]; every part that
\* is known by some member counts with its weight.
Momentum(members) ==
    LET n        == Len(members)
        share(P(_)) == (100 * Cardinality({i \in 1..n : P(members[i])})) \div n
        known(f) == {i \in 1..n : Has(members[i][f])}
        mean(f)  == MapThenSumSet(LAMBDA i : members[i][f], known(f)) \div Cardinality(known(f))
        part(f, w, low, width) ==
            IF known(f) = {} THEN [w |-> 0, v |-> 0]
            ELSE [w |-> w, v |-> AtMost(100, (100 * AtLeast(mean(f) - low, 0)) \div width)]
        parts == <<[w |-> 35, v |-> share(LAMBDA m : m.up)],
                   part("volumeZ", 20, 0, 40), part("buyers", 20, 100, 200), part("velocity", 10, 100, 300),
                   [w |-> 10, v |-> share(LAMBDA m : m.launch)],
                   [w |-> 5, v |-> AtMost(100, (100 * MapThenSumSet(LAMBDA i : members[i].news, 1..n)) \div n)]>>
        total(F(_)) == FoldSeq(LAMBDA p, acc : acc + F(p), 0, parts)
    IN  total(LAMBDA p : p.w * p.v) \div total(LAMBDA p : p.w)

Breadth(members) == (100 * Cardinality({i \in DOMAIN members : members[i].up})) \div Len(members)

Phase(now, prior) ==
    LET d == now - prior IN
    IF ~Has(prior) THEN IF now >= 25 THEN "EMERGING" ELSE "DORMANT"
    ELSE IF now < 20 /\ d <= 2 THEN IF now < 10 THEN "DORMANT" ELSE "DECAYING"
    ELSE IF d > 5 THEN IF now >= 45 THEN "ACCELERATING" ELSE "EMERGING"
    ELSE IF now >= 45 THEN IF d > -5 THEN "PEAKING" ELSE "DECAYING"
    ELSE IF d < -5 THEN "DECAYING" ELSE "EMERGING"

\* evaluate: too few members, no phase and no breadth; a prior needs as many.
Narrative(now, prior) ==
    IF Len(now) < Config.minMembers THEN [phase |-> "INSUFFICIENT_MEMBERS", breadth |-> None]
    ELSE [phase |-> Phase(Momentum(now), IF Len(prior) < Config.minMembers THEN None ELSE Momentum(prior)),
          breadth |-> Breadth(now)]

\* ------------------------------------------------------------- lead/lag --
\* corr[a][b][lag] is the correlation of a's returns with b's, lag bars later;
\* the first lag with the largest one counts, if it is not the same bar's.
BestLag(corr, a, b) ==
    LET lags  == -Config.maxLag..Config.maxLag
        known == {l \in lags : Has(corr[a][b][l])}
        best  == {l \in known : \A m \in known : corr[a][b][m] <= corr[a][b][l]}
    IN  IF known = {} THEN None ELSE Min(best)

\* Pairs are taken in the order of the keys.
Links(corr, series, order) ==
    LET pairs == {<<order[q[1]], order[q[2]]>> :
                      q \in {r \in (DOMAIN order) \X (DOMAIN order) : r[1] < r[2]}}
        lag(p)  == BestLag(corr, p[1], p[2])
        c(p, l) == corr[p[1]][p[2]][l]
        holds(p) == /\ p \in series \X series /\ Has(lag(p))
                    /\ lag(p) # 0 /\ c(p, lag(p)) >= Config.minCorr
                    /\ Has(c(p, 0)) => c(p, lag(p)) - c(p, 0) >= Config.minAdvantage
    IN  {IF lag(p) > 0 THEN p ELSE <<p[2], p[1]>> : p \in {q \in pairs : holds(q)}}

RoleOf(k, links, moving) ==
    IF \E l \in links : l[2] = k THEN IF k \in moving THEN "FOLLOWER" ELSE "LAGGARD"
    ELSE IF \E l \in links : l[1] = k THEN "LEADER"
    ELSE "ISOLATED_MOVE"
=============================================================================

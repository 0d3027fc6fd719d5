------------------------------ MODULE Signals ------------------------------
(***************************************************************************)
(* From what is known of the tokens at a moment to a signal for each       *)
(* (pipeline.scan, regime/classifier.py, signals/exhaustion.py,            *)
(* detection/move_quality.py, signals/entry.py), and from the same to what *)
(* is done with a position (signals/exit.py).                              *)
(*                                                                         *)
(* Evidence of a token is a record of what its features say.  The scores   *)
(* that are only reported (move quality, confidence, rankings) are left    *)
(* out.                                                                    *)
(***************************************************************************)
EXTENDS MarketContext, TLC

Below(v, x) == Has(v) /\ v < x
Above(v, x) == Has(v) /\ v > x
UpTo(v, x) == Has(v) /\ v <= x
From(v, x) == Has(v) /\ v >= x

\* --------------------------------------------------------------- regime --
Priority == <<"DEAD", "COLLAPSE", "PARABOLIC", "DISTRIBUTION", "REVERSAL", "BREAKOUT", "EXPANSION",
              "ACCUMULATION">>

RegimeHolds(r, e, move) ==
    CASE r = "DEAD" -> Below(e.liq, Config.deadLiquidity) \/ e.trades < Config.deadTrades
      [] r = "COLLAPSE" -> /\ UpTo(e.ret60, Config.collapse)
                           /\ Below(e.change, 0) \/ Below(e.imbalance, -20)
      [] r = "PARABOLIC" -> /\ move.direction > 0 /\ OrZero(move.size) >= Config.parabolic
                            /\ OrZero(e.accel5) > 0 /\ OrZero(e.accel15) > 0
      [] r = "DISTRIBUTION" -> /\ e.nearHigh /\ Below(e.imbalance, -10)
                               /\ Below(e.large, 0) \/ Below(e.creatorNet, 0)
      [] r = "REVERSAL" -> Above(e.ret240, 20) /\ UpTo(e.z[15], -Config.unusual)
      [] r = "BREAKOUT" -> e.aboveRange /\ From(e.volumeZ, Config.watch)
      [] r = "EXPANSION" -> /\ Above(e.ret60, 0) /\ Above(e.ret240, 0) /\ Above(e.buyers, 100)
                            /\ From(e.z[60], Config.watch)
      [] r = "ACCUMULATION" -> /\ Has(e.z[60]) /\ Size(OrZero(e.z[60])) < Config.watch
                               /\ Above(e.imbalance, 10) /\ Above(e.holders, 0)

\* The first rule that holds names the regime; all that hold are recorded.
Regime(e, move) ==
    LET hits == {i \in DOMAIN Priority : RegimeHolds(Priority[i], e, move)} IN
    IF ~Has(e.price) THEN [regime |-> "UNKNOWN", matched |-> {}]
    ELSE IF hits = {} THEN [regime |-> "NEUTRAL", matched |-> {}]
    ELSE [regime |-> Priority[Min(hits)], matched |-> {Priority[i] : i \in hits}]

\* ----------------------------------------------------------- exhaustion --
ExhaustionFlags(e, move, social) ==
    {f \in {"parabolic", "newWallets", "top10", "liquidity", "largeSelling", "climax", "frenzy", "slippage",
            "wicks", "sellPressure"} :
        CASE f = "parabolic" -> move.direction > 0 /\ OrZero(move.size) >= Config.parabolic
          [] f = "newWallets" -> Below(e.newWallets, 100) /\ move.direction > 0
          [] f = "top10" -> Above(e.top10, Config.maxTop10)
          [] f = "liquidity" -> Below(e.change, -5)
          [] f = "largeSelling" -> Below(e.large, 0)
          [] f = "climax" -> Above(e.volumeZ, 60) /\ Below(e.accel15, 0)
          [] f = "frenzy" -> Above(social.mentions, 500)
                             /\ (Has(social.authors) => 3 * social.authors < social.mentions)
          [] f = "slippage" -> Above(e.slip, 30)
          [] f = "wicks" -> e.wicks >= 4
          [] f = "sellPressure" -> Below(e.imbalance, -25)}

Exhaustion(regime, flags) ==
    IF regime.regime = "DISTRIBUTION" \/ "DISTRIBUTION" \in regime.matched THEN "DISTRIBUTION"
    ELSE IF Cardinality(flags) >= Config.exhaustionFlags THEN "EXHAUSTION_RISK"
    ELSE IF Cardinality(flags) >= Config.extendedFlags THEN "EXTENDED"
    ELSE "HEALTHY_EXPANSION"

\* --------------------------------------------------------- one assessment --
\* What follows from a move and the attention it got; the cross-token part
\* comes with the scan.
Judged(token, e, move, social) ==
    LET regime == Regime(e, move) IN
    [e |-> e, move |-> move, social |-> social, catalyst |-> Catalyst(token, move, e.news), regime |-> regime,
     exhaustion |-> Exhaustion(regime, ExhaustionFlags(e, move, social))]

Assessment(token, e, now) == Judged(token, e, ClassifyMove(e), Attention(e.posts, now, e.social))

Member(a) ==
    [up |-> Rising(a.move, Config.breadthClass), volumeZ |-> a.e.volumeZ, buyers |-> a.e.buyers,
     velocity |-> a.social.mentions, news |-> a.catalyst.candidates, launch |-> a.e.launch]

\* ---------------------------------------------------------- move quality --
\* The weight of the components that could be scored, of the whole, in percent.
Coverage(a) ==
    LET drive == a.move.drive
        seen == [price |-> Has(drive), volume |-> Has(a.e.volumeZ),
                 wallets |-> Has(a.e.buyers) /\ Has(a.e.independence), liquidity |-> Has(a.e.change),
                 breadth |-> Has(a.breadth), catalyst |-> Has(a.catalyst.event), venues |-> Has(a.e.venues),
                 manipulation |-> TRUE, concentration |-> Has(a.e.topK), slippage |-> Has(a.e.slip)]
        weight(S) == MapThenSumSet(LAMBDA c : Config.weights[c], S)
    IN  (100 * weight({c \in DOMAIN seen : seen[c]})) \div weight(DOMAIN seen)

\* ---------------------------------------------------------------- entry --
Blocking == {"NO_DATA", "STALE_DATA", "CONFLICTING_DATA", "API_FAILURE", "EXECUTION_UNAVAILABLE", "LOW_LIQUIDITY"}

Condition(name, known, holds, veto) == [name |-> name, known |-> known, holds |-> known /\ holds, veto |-> veto]

Conditions(a) ==
    LET e == a.e
        flow == Has(e.buyers) /\ Has(e.independence)
        independent == Above(e.buyers, 150) /\ From(e.independence, 60)
    IN  {Condition("abnormal_momentum", Has(a.move.size), Rising(a.move, Config.minMoveClass), FALSE),
         Condition("accelerating_volume", Has(e.volumeZ) /\ Has(e.volumeAccel),
                   From(e.volumeZ, Config.watch) /\ Above(e.volumeAccel, 100), FALSE),
         Condition("expanding_liquidity", Has(e.change), From(e.change, 0), FALSE),
         Condition("independent_wallet_growth", flow, independent, FALSE),
         Condition("catalyst", Has(a.catalyst.event),
                   a.catalyst.timing \in {"NEWS_FIRST", "SIMULTANEOUS"} /\ a.catalyst.confirmed
                   /\ a.catalyst.consistent # FALSE, FALSE),
         Condition("narrative_strength", a.phases # {}, a.phases \intersect {"EMERGING", "ACCELERATING"} # {}, FALSE),
         Condition("low_manipulation", "wash_trading" \in e.ran, e.manipulation <= Config.maxManipulation, TRUE),
         Condition("creator_concentration_ok", Has(e.creatorPct), UpTo(e.creatorPct, Config.maxCreator), TRUE),
         Condition("healthy_structure", TRUE,
                   a.exhaustion \in {"HEALTHY_EXPANSION", "EXTENDED"}
                   /\ a.regime.regime \notin {"DEAD", "COLLAPSE", "DISTRIBUTION"}, TRUE),
         Condition("execution_liquidity", Has(e.liq) /\ Has(e.slip),
                   From(e.liq, Config.minLiquidity) /\ UpTo(e.slip, Config.maxSlippage), TRUE)}
        \union (IF a.role = "FOLLOWER"
                THEN {Condition("follower_independent_confirmation", flow /\ Has(e.change),
                                independent /\ From(e.change, 0), TRUE)}
                ELSE {})

\* What refuses a signal outright: a blocking failure, evidence too thin, a
\* veto that does not hold or that could not be evaluated.
BlockedBy(a) ==
    (a.e.failures \intersect Blocking)
    \union (IF Coverage(a) < Config.minCoverage THEN {"coverage"} ELSE {})
    \union {c.name : c \in {d \in Conditions(a) : d.veto /\ ~d.holds}}

Signal(a) ==
    LET passed == Cardinality({c \in Conditions(a) : c.holds}) IN
    IF BlockedBy(a) # {} THEN "NO_SIGNAL"
    ELSE IF ~Rising(a.move, Config.minMoveClass)
         THEN IF Rising(a.move, "WATCH") THEN "WATCH" ELSE "NO_SIGNAL"
    ELSE IF passed >= Config.minPassed THEN "HIGH_CONVICTION" ELSE "WATCH"

\* ----------------------------------------------------------------- scan --
\* The function itself; TLC evaluates it once, not at every use.
Tabulated(f) == CHOOSE g \in {f} : g = g

\* A record with the fields of another added.
With(r, more) == [x \in DOMAIN r \union DOMAIN more |-> IF x \in DOMAIN r THEN r[x] ELSE more[x]]

Assessments(scene, now) == Tabulated([k \in DOMAIN scene.tokens |-> Assessment(k, scene.tokens[k], now)])

\* single are the assessments of now, older those of the step before.
NarrativesOf(single, older) ==
    LET tagged(n) == {k \in DOMAIN single : n \in single[k].e.narratives}
        members(S, of) == LET s == SetToSeq(S \intersect DOMAIN of) IN [i \in DOMAIN s |-> Member(of[s[i]])]
        names == UNION {single[k].e.narratives : k \in DOMAIN single}
    IN  Tabulated([n \in names |-> Narrative(members(tagged(n), single), members(tagged(n), older))])

\* An assessment with what the other tokens add to it; states are the
\* narratives of the token that could be judged.
Placed(a, states, role) ==
    With(a, [phases |-> {m.phase : m \in states}, role |-> role,
             breadth |-> IF states = {} THEN None ELSE Max({m.breadth : m \in states})])

Signalled(a) == With(a, [signal |-> Signal(a)])

Together(single, narratives, links) ==
    LET moving == {k \in DOMAIN single : Rising(single[k].move, "UNUSUAL")}
        states(k) == {m \in {narratives[n] : n \in single[k].e.narratives \ {"meme"}} : Has(m.breadth)}
    IN  Tabulated([k \in DOMAIN single |-> Signalled(Placed(single[k], states(k), RoleOf(k, links, moving)))])

Compared(single, older, corr, keys) ==
    Together(single, NarrativesOf(single, older),
             Links(corr, {k \in DOMAIN single : single[k].e.series}, keys))

\* scene: [tokens, corr], the evidence of the tokens that are visible
\* and how their returns go together.  before is the scene of the last step:
\* the prior result only lends its single-token assessments.  keys are all
\* tokens in the order of their keys.
Scan(scene, before, now, keys) ==
    Compared(Assessments(scene, now), Assessments(before, now - 1), scene.corr, keys)

\* ----------------------------------------------------------------- exit --
\* A decision takes the gravest of what it found, and two lesser ones together.
Emergencies(pos, a) ==
    LET drop == 100 - (100 * a.e.liq) \div pos.liq IN
    {x \in {"liquidity", "creator", "news"} :
        CASE x = "liquidity" -> Has(a.e.liq) /\ pos.liq > 0 /\ drop >= Config.emergencyDrop
          [] x = "creator" -> \E f \in a.e.flags : f.kind = "creator_distribution" /\ f.share >= Config.emergencyShare
          [] x = "news" -> /\ Has(a.catalyst.event) /\ a.catalyst.confirmed
                           /\ a.catalyst.event.type \in {"EXPLOIT", "DELISTING"}}

ExitReasons(pos, a) ==
    LET drop == 100 - (100 * a.e.liq) \div pos.liq IN
    {x \in {"liquidity", "unobservable", "creator", "stop", "regime", "distribution"} :
        CASE x = "liquidity" -> Has(a.e.liq) /\ pos.liq > 0 /\ drop >= Config.exitDrop /\ drop < Config.emergencyDrop
          [] x = "unobservable" -> ~Has(a.e.liq)
          [] x = "creator" -> \E f \in a.e.flags : f.kind = "creator_distribution" /\ f.share < Config.emergencyShare
          [] x = "stop" -> Has(pos.stop) /\ UpTo(a.e.price, pos.stop)
          [] x = "regime" -> a.regime.regime \in {"COLLAPSE", "DISTRIBUTION", "DEAD"}
          [] x = "distribution" -> a.exhaustion = "DISTRIBUTION"}

Doubts(a) ==
    {x \in {"reversal", "exhaustion", "outflow", "volume", "social", "narrative"} :
        CASE x = "reversal" -> a.regime.regime = "REVERSAL"
          [] x = "exhaustion" -> a.exhaustion = "EXHAUSTION_RISK"
          [] x = "outflow" -> Below(a.e.large, 0)
          [] x = "volume" -> Below(a.e.volumeRatio, 30)
          [] x = "social" -> Below(a.social.mentions, 50)
          [] x = "narrative" -> "DECAYING" \in a.phases}

Decide(pos, a) ==
    IF Emergencies(pos, a) # {} THEN "EMERGENCY_EXIT"
    ELSE IF ExitReasons(pos, a) # {} THEN "EXIT"
    ELSE IF Cardinality(Doubts(a)) >= 2 THEN "REDUCE"
    ELSE "HOLD"

Leaves(action) == action \in {"EXIT", "EMERGENCY_EXIT"}
=============================================================================

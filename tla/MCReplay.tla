------------------------------ MODULE MCReplay ------------------------------
(* Model checking of replays and backtests: three tokens, two of them of    *)
(* one narrative and two on one chain, in scenes that make them rally,      *)
(* fall, go dark and lose their prices.  Config has the values of           *)
(* config/default.toml but for the sizes of the groups.                     *)
EXTENDS Replay

CONSTANTS k1, k2, k3, cA, cB

MCTokens == <<k1, k2, k3>>

MCConfig ==
    [watch |-> 20, unusual |-> 30, significant |-> 45, extreme |-> 65, parabolic |-> 65,
     breadthClass |-> "WATCH", minMoveClass |-> "UNUSUAL", minPassed |-> 6, minCoverage |-> 70,
     maxManipulation |-> 40, maxCreator |-> 15, maxTop10 |-> 60, extendedFlags |-> 2, exhaustionFlags |-> 4,
     confirmedTiers |-> {1, 2}, minTier3 |-> 2, newsBefore |-> 2, newsAfter |-> 1, simultaneity |-> 0,
     socialWindow |-> 1, socialBaselines |-> 1, minMembers |-> 2, maxLag |-> 1, minCorr |-> 30,
     minAdvantage |-> 10, deadLiquidity |-> 5000, deadTrades |-> 5, collapse |-> -43,
     emergencyDrop |-> 30, exitDrop |-> 15, emergencyShare |-> 5,
     equity |-> 10000, maxRisk |-> 5, maxPortfolio |-> 25, maxNarrative |-> 10, maxChain |-> 20,
     maxDailyLoss |-> 2, maxLosses |-> 2, maxSlippage |-> 20, minLiquidity |-> 50000, maxPoolShare |-> 1,
     exitMultiplier |-> 2,
     weights |-> [price |-> 10, volume |-> 10, wallets |-> 10, liquidity |-> 10, breadth |-> 5, catalyst |-> 5,
                  venues |-> 5, manipulation |-> 15, concentration |-> 10, slippage |-> 10]]

Chains == [k \in {k1, k2, k3} |-> IF k = k2 THEN "base" ELSE "solana"]
Narratives == [k \in {k1, k2, k3} |-> CASE k = k1 -> {"ai", "dog", "meme"} [] k = k2 -> {"ai", "meme"}
                                        [] OTHER -> {"dog", "meme"}]

Quiet(k) ==
    [chain |-> Chains[k], narratives |-> Narratives[k], failures |-> {}, price |-> 100,
     z |-> (15 :> 5 @@ 60 :> 5), volumeZ |-> 5, volumeAccel |-> 90, volumeRatio |-> 100, imbalance |-> 15,
     trades |-> 20, ret60 |-> 1, ret240 |-> 1, accel5 |-> 0, accel15 |-> 0, nearHigh |-> FALSE,
     aboveRange |-> FALSE, onset |-> None, liq |-> 200000, change |-> 0, slip |-> 13, buyers |-> 100,
     independence |-> 80, creatorPct |-> 5, creatorNet |-> 0, large |-> 0, holders |-> 1, top10 |-> 30,
     newWallets |-> 100, topK |-> 20, flags |-> {}, manipulation |-> 0, ran |-> {"wash_trading"},
     venues |-> None, news |-> {}, social |-> FALSE, posts |-> {}, launch |-> FALSE, wicks |-> 0,
     series |-> TRUE, fill |-> [price |-> 100, liq |-> 200000]]

Rally(k) ==
    [Quiet(k) EXCEPT !.z = (15 :> 50 @@ 60 :> 35), !.volumeZ = 40, !.volumeAccel = 150, !.change = 2,
        !.buyers = 200, !.price = 110, !.ret60 = 10, !.ret240 = 12, !.aboveRange = TRUE,
        !.onset = [ts |-> 1, price |-> 109], !.fill = [price |-> 110, liq |-> 200000]]

\* The price has fallen through the invalidation.
Falls(k) == [Quiet(k) EXCEPT !.price = 80, !.fill = [price |-> 100, liq |-> 200000]]
Crash(k) == [Quiet(k) EXCEPT !.price = 60, !.ret60 = -50, !.imbalance = -40, !.change = -40, !.liq = 60000,
                !.z = (15 :> -50 @@ 60 :> -50), !.fill = [price |-> 60, liq |-> 60000]]
Dark(k) == [Quiet(k) EXCEPT !.liq = None, !.change = None, !.slip = None, !.fill = [price |-> None, liq |-> None]]
\* A rally that nobody can fill, one that its creator sells into, one late.
Unfilled(k) == [Rally(k) EXCEPT !.fill = [price |-> None, liq |-> None]]
Dumped(k) == [Rally(k) EXCEPT !.flags = {[kind |-> "creator_distribution", share |-> 10]}, !.manipulation = 30,
                !.creatorNet = -1]
Tired(k) == [Quiet(k) EXCEPT !.volumeRatio = 20, !.large = -1, !.price = 112,
                !.fill = [price |-> 115, liq |-> 200000]]
Hacked(k) ==
    [Rally(k) EXCEPT !.news = {[id |-> 1, story |-> 1, ts |-> 1, seen |-> 1, tier |-> 1, type |-> "EXPLOIT",
                                source |-> "x", tokens |-> {k1, k2, k3}]},
        !.social = TRUE,
        !.posts = {[author |-> 1, text |-> 1, repost |-> FALSE, ts |-> 0, weight |-> 1],
                   [author |-> 2, text |-> 1, repost |-> FALSE, ts |-> 1, weight |-> 2]}]

\* k1 leads k2 by a bar, or nobody leads.
Alone == [a \in {k1, k2, k3} |-> [b \in {k1, k2, k3} |-> [l \in -1..1 |-> None]]]
Led == [Alone EXCEPT ![k1][k2] = [l \in -1..1 |-> IF l = 1 THEN 80 ELSE 20]]

Scene(a, b, c) == [tokens |-> (k1 :> a @@ k2 :> b @@ k3 :> c), corr |-> Alone]

MCScenes ==
    <<[tokens |-> k1 :> Rally(k1), corr |-> Alone],
      Scene(Rally(k1), Rally(k2), Rally(k3)),
      [Scene(Quiet(k1), [Rally(k2) EXCEPT !.independence = 40], Rally(k3)) EXCEPT !.corr = Led],
      Scene(Falls(k1), Falls(k2), Rally(k3)),
      Scene(Rally(k1), Crash(k2), Falls(k3)),
      Scene(Dark(k1), Unfilled(k2), Rally(k3)),
      Scene(Tired(k1), Rally(k2), Hacked(k3)),
      Scene(Tired(k1), Dumped(k2), Tired(k3))>>
=============================================================================

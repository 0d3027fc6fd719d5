---------------------------- MODULE WalletGraph ----------------------------
(***************************************************************************)
(* Wallet clusters of one token (onchain/clusters.py) and the manipulation *)
(* detectors that read them (manipulation/detectors.py).  Wallets are      *)
(* numbered in the order of their addresses; every trade is worth one.     *)
(***************************************************************************)
EXTENDS GeckoTerminal, FiniteSetsExt

CONSTANTS
    SharedWindow,   \* clusters.shared_funding_window_ms
    SyncTolerance,  \* sync_tolerance_ms
    MinSync,        \* min_sync_repeats
    Ignored,        \* funders that say nothing: exchanges, bridges
    TopK,           \* manipulation.concentration_top_k
    SniperTicks,    \* sniper_blocks
    FreshTicks,     \* clusters.fresh_wallet_ms
    MinKnown        \* buyers whose funding must be known

ASSUME WalletConstants == SharedWindow \in Nat /\ MinSync \in Nat \ {0}

Edge(a, b, kind) == [a |-> a, b |-> b, kind |-> kind]

Traders(swaps) == {s.wallet : s \in swaps}
BuysOf(swaps) == {s \in swaps : s.side = "buy"}

\* ---------------------------------------------------------------- edges --
\* The first observed transfer to each wallet that trades; of several at one
\* moment one counts, the first in the order of the data.
FirstFunding(swaps, transfers) ==
    LET earliest(w) == {f \in transfers : f.dst = w /\ \A g \in transfers : g.dst = w => f.ts <= g.ts}
    IN  {CHOOSE f \in earliest(w) : TRUE : w \in {x \in Traders(swaps) : earliest(x) # {}}}

\* Wallets that one source funded, in the order in which it did: neighbours
\* no further apart than the window are linked.
SharedFunding(swaps, transfers) ==
    LET first == {f \in FirstFunding(swaps, transfers) : f.src \notin Ignored}
        next(f, g) == /\ f.src = g.src /\ f.dst # g.dst /\ f.ts <= g.ts
                      /\ \A h \in first : (h.src = f.src /\ h \notin {f, g}) => (h.ts <= f.ts \/ g.ts <= h.ts)
    IN  {Edge(p[1].dst, p[2].dst, "shared_funding") :
            p \in {q \in first \X first : next(q[1], q[2]) /\ q[2].ts - q[1].ts <= SharedWindow}}

CreatorLinks(swaps, transfers, creator) ==
    {Edge(creator, f.dst, "creator_link") :
        f \in {x \in FirstFunding(swaps, transfers) :
                x.src \notin Ignored /\ creator # NoCreator /\ x.src = creator}}

DirectTransfers(swaps, transfers) ==
    {Edge(f.src, f.dst, "direct_transfer") :
        f \in {x \in transfers : {x.src, x.dst} \subseteq Traders(swaps) /\ x.src # x.dst}}

\* Buys in the order of their times; a hit is a buy within the tolerance
\* before another wallet's buy.
SyncHits(swaps, a, b) ==
    {p \in BuysOf(swaps) \X BuysOf(swaps) :
        /\ p[1].wallet = a /\ p[2].wallet = b
        /\ p[2].ts - p[1].ts <= SyncTolerance /\ p[1].ts - p[2].ts <= SyncTolerance}

SynchronizedTrades(swaps) ==
    {Edge(p[1], p[2], "synchronized_trades") :
        p \in {q \in Traders(swaps) \X Traders(swaps) :
                q[1] < q[2] /\ Cardinality(SyncHits(swaps, q[1], q[2])) >= MinSync}}

BuildEdges(swaps, transfers, creator) ==
    SharedFunding(swaps, transfers) \union CreatorLinks(swaps, transfers, creator)
    \union DirectTransfers(swaps, transfers) \union SynchronizedTrades(swaps)

\* ------------------------------------------------------------- clusters --
\* _UF: find, and union under the smaller of the two roots.
Find(parent, w) ==
    LET root[x \in DOMAIN parent] == IF parent[x] = x THEN x ELSE root[parent[x]]
    IN  root[w]

\* A variant for the mutation check: the wallets are linked, not their roots.
Unite_Leaves(parent, e) ==
    IF Find(parent, e.a) = Find(parent, e.b) THEN parent
    ELSE [parent EXCEPT ![IF e.a < e.b THEN e.b ELSE e.a] = IF e.a < e.b THEN e.a ELSE e.b]

Unite(parent, e) ==
    LET ra == Find(parent, e.a)
        rb == Find(parent, e.b)
    IN  IF ra = rb THEN parent
        ELSE [parent EXCEPT ![IF ra < rb THEN rb ELSE ra] = IF ra < rb THEN ra ELSE rb]

\* analyze: cluster_of, and what the report says of the buys.
ClusterOf(swaps, transfers, creator) ==
    LET edges  == BuildEdges(swaps, transfers, creator)
        nodes  == Traders(swaps) \union {e.a : e \in edges} \union {e.b : e \in edges}
        forest == FoldSet(LAMBDA e, p : Unite(p, e), [w \in nodes |-> w], edges)
    IN  [w \in nodes |-> Find(forest, w)]

Members(clusterOf, root) == {w \in DOMAIN clusterOf : clusterOf[w] = root}
Multi(clusterOf) ==
    {r \in {clusterOf[w] : w \in DOMAIN clusterOf} : Cardinality(Members(clusterOf, r)) > 1}

BuyCount(swaps, wallets) == Cardinality({s \in BuysOf(swaps) : s.wallet \in wallets})

\* Risk, in twentieths: half the clustered share and three quarters of the
\* largest cluster's share, at most one.
Risk(swaps, clusterOf) ==
    LET total   == Cardinality(BuysOf(swaps))
        shares  == {BuyCount(swaps, Members(clusterOf, r)) : r \in Multi(clusterOf)}
        grouped == BuyCount(swaps, UNION {Members(clusterOf, r) : r \in Multi(clusterOf)})
        risk    == (10 * grouped + 15 * (IF shares = {} THEN 0 ELSE Max(shares))) \div total
    IN  IF risk < 20 THEN risk ELSE 20

Label(swaps, transfers, creator, clusterOf) ==
    LET risk   == Risk(swaps, clusterOf)
        kinds  == {e.kind : e \in BuildEdges(swaps, transfers, creator)}
        sync   == "synchronized_trades" \in kinds
        funded == kinds \intersect {"shared_funding", "creator_link"} # {}
    IN  CASE BuysOf(swaps) = {} -> "independent"
          [] BuysOf(swaps) # {} /\ risk < 3 -> "independent"
          [] BuysOf(swaps) # {} /\ risk >= 8 /\ sync /\ funded -> "suspicious-pattern"
          [] BuysOf(swaps) # {} /\ risk >= 3 /\ sync /\ ~(funded /\ risk >= 8) ->
                IF risk >= 6 THEN "highly-correlated" ELSE "coordinated-looking"
          [] BuysOf(swaps) # {} /\ risk >= 3 /\ ~sync /\ funded -> "coordinated-looking"
          [] OTHER -> "concentrated"

\* ------------------------------------------------------------ detectors --
\* Whom a detector holds together: a cluster, or a wallet alone.
Actor(clusterOf, w) == IF w \in DOMAIN clusterOf THEN clusterOf[w] ELSE w
ActorTrades(swaps, clusterOf, actor) == {s \in swaps : Actor(clusterOf, s.wallet) = actor}
Actors(swaps, clusterOf) == {Actor(clusterOf, s.wallet) : s \in swaps}

\* wash_trading: as much sold as bought.
WashTraders(swaps, clusterOf) ==
    {a \in Actors(swaps, clusterOf) :
        LET own  == ActorTrades(swaps, clusterOf, a)
            buys == Cardinality(BuysOf(own))
        IN  Cardinality(own) > 1 /\ 2 * buys = Cardinality(own)}

\* volume_concentration: TopK actors with most of the volume.
Concentrated(swaps, clusterOf) ==
    \E T \in kSubset(Min({TopK, Cardinality(Actors(swaps, clusterOf))}), Actors(swaps, clusterOf)) :
        4 * Cardinality({s \in swaps : Actor(clusterOf, s.wallet) \in T}) >= 3 * Cardinality(swaps)

\* creator_distribution: the creator and its cluster sell.  A creator that is
\* in no cluster has no root, and stands alone.
CreatorSells(swaps, clusterOf, creator) ==
    LET linked == {creator} \union
                  {w \in DOMAIN clusterOf : creator \in DOMAIN clusterOf
                                            /\ clusterOf[w] = clusterOf[creator]}
        sold   == {s \in swaps : s.wallet \in linked /\ s.side = "sell"}
    IN  sold # {} /\ 2 * Cardinality(sold) >= BuyCount(swaps, linked)

\* sniper_activity: buys right after the first swap that was observed.
Snipers(swaps) ==
    {s.wallet : s \in {x \in BuysOf(swaps) : \A y \in swaps : x.ts - y.ts < SniperTicks}}

\* fresh_wallet_burst: buyers whose first funding is known and recent.
FreshBuyers(swaps, transfers) ==
    LET known(w)   == \E f \in transfers : f.dst = w
        firstBuy(w) == Min({s.ts : s \in {x \in BuysOf(swaps) : x.wallet = w}})
        firstFund(w) == Min({f.ts : f \in {x \in transfers : x.dst = w}})
        buyers     == {w \in Traders(BuysOf(swaps)) : known(w)}
    IN  IF Cardinality(buyers) < MinKnown THEN {}
        ELSE {w \in buyers : firstBuy(w) - firstFund(w) \in 0..FreshTicks}

\* liquidity_inflation: most of the added liquidity is one provider's, and
\* whether that provider belongs to the creator.  A wallet that never traded
\* has no cluster, and two such wallets compare as equal.
TopProvider(adds) ==
    CHOOSE w \in {a.provider : a \in adds} :
        \A v \in {a.provider : a \in adds} :
            Cardinality({a \in adds : a.provider = v}) <= Cardinality({a \in adds : a.provider = w})

SingleProvider(adds) ==
    adds # {} /\ 4 * Cardinality({a \in adds : a.provider = TopProvider(adds)}) >= 3 * Cardinality(adds)

CreatorLinked(adds, clusterOf, creator) ==
    /\ creator # NoCreator
    /\ \/ TopProvider(adds) = creator
       \/ {TopProvider(adds), creator} \intersect DOMAIN clusterOf = {}
       \/ /\ {TopProvider(adds), creator} \subseteq DOMAIN clusterOf
          /\ clusterOf[TopProvider(adds)] = clusterOf[creator]

\* run_all: a detector whose inputs were not observed is not run.
Needs ==
    [wash_trading |-> {"flow"}, volume_concentration |-> {"flow"},
     creator_distribution |-> {"flow", "creator"}, sniper_activity |-> {"flow"},
     fresh_wallet_burst |-> {"flow", "funding"}, liquidity_single_provider |-> {"liquidity_events"}]

DetectorsRun(available) == {d \in DOMAIN Needs : Needs[d] \subseteq available}

Flags(swaps, transfers, adds, creator, clusterOf, pools, available) ==
    {d \in DetectorsRun(available) :
        CASE d = "wash_trading" -> WashTraders(swaps, clusterOf) # {}
          [] d = "volume_concentration" -> swaps # {} /\ Concentrated(swaps, clusterOf)
          [] d = "creator_distribution" -> creator # NoCreator /\ CreatorSells(swaps, clusterOf, creator)
          [] d = "sniper_activity" -> pools # {} /\ Snipers(swaps) # {}
          [] d = "fresh_wallet_burst" -> FreshBuyers(swaps, transfers) # {}
          [] d = "liquidity_single_provider" -> SingleProvider(adds)}
    \union (IF BuysOf(swaps) # {} /\ Risk(swaps, clusterOf) >= 8 THEN {"coordinated_cluster"} ELSE {})
=============================================================================

------------------------------ MODULE Evidence ------------------------------
(***************************************************************************)
(* From a chain to what the pipeline says of its tokens: swaps happen, a   *)
(* provider indexes them, the acquisition asks the provider now and then,  *)
(* and the archive of its answers is normalized, stored and assessed as of *)
(* a moment (data/normalize.py, providers/store.py, pipeline.py).          *)
(*                                                                         *)
(* The chain and the provider are external: the provider indexes a swap    *)
(* within Lag, answers with what it has indexed, and some of its rows are  *)
(* malformed.  Instead of an archive a data set may be loaded (load_jsonl) *)
(* whose records were all seen when they happened.                         *)
(***************************************************************************)
EXTENDS TokenFeatures, WalletGraph

CONSTANTS
    Tokens,         \* the tokens that were selected, one pool each
    Horizon,        \* bound: the last tick
    LastTrade,      \* bound: the last tick with a swap
    MaxSwaps,       \* bound: swaps
    PerTick,        \* bound: swaps of a token in one tick
    Prices,         \* what the second source may say of the price
    Levels,         \* the liquidity of a pool before and after it is drained
    Plans,          \* what is asked for, who trades, what was loaded: see Init
    Creator

VARIABLES
    now,
    chain,      \* swaps that happened
    pending,    \* those the provider has not indexed yet
    drained,    \* the last tick before liquidity was removed
    archive,    \* the answers, in RawStore
    plan        \* what this acquisition asks for

vars == <<now, chain, pending, drained, archive, plan>>

ASSUME EvidenceConstants ==
    /\ {Horizon, MaxSwaps, Levels[1], Levels[2]} \subseteq Nat
    /\ \A p \in Plans :
        /\ \A o \in p.orders : o[1] \in Nat
        /\ IsFiniteSet(p.loaded) /\ \A r \in p.loaded : r.kind = "swap" /\ r.wallet \in Nat
        /\ p.loaded # {} => p.answers = 0
        /\ IsFiniteSet(p.transfers)
        /\ \A f \in p.transfers : {f.src, f.dst, f.ts} \subseteq Nat /\ f.src # NoCreator

\* ---------------------------------------------------------------- state --
\* A plan is [asks, answers, bad, orders, loaded, transfers]: the endpoints that
\* are polled, how often in all and how many of their rows are malformed at
\* most, who may trade on which side, and the swaps and transfers of a data set.
Init ==
    /\ now = 0 /\ chain = {} /\ pending = {} /\ drained = Horizon + 1
    /\ archive = {} /\ plan \in Plans

LevelAt(t) == IF t <= drained THEN Levels[1] ELSE Levels[2]

\* Time passes; what is older than Lag has been indexed.
Tick ==
    /\ now < Horizon
    /\ \A s \in pending : now + 1 <= s.ts + Lag
    /\ now' = now + 1
    /\ UNCHANGED <<chain, pending, drained, archive, plan>>

Trade(token, wallet, side) ==
    LET here == {s \in chain : s.token = token /\ s.ts = now}
        swap == [token |-> token, ts |-> now, n |-> Cardinality(here), wallet |-> wallet, side |-> side]
    IN  /\ now <= LastTrade /\ Cardinality(chain) < MaxSwaps /\ Cardinality(here) < PerTick
        /\ chain' = chain \union {swap}
        /\ pending' = pending \union {swap}
        /\ UNCHANGED <<now, drained, archive, plan>>

\* The provider indexes a swap.
Index(s) ==
    /\ pending' = pending \ {s}
    /\ UNCHANGED <<now, chain, drained, archive, plan>>

Drain ==
    /\ drained = Horizon + 1 /\ plan.asks \intersect {"gt.pools_multi", "ds.pairs"} # {}
    /\ drained' = now
    /\ UNCHANGED <<now, chain, pending, archive, plan>>

\* -------------------------------------------------------------- answers --
Bad == Cardinality(UNION {{<<e, r>> : r \in Dropped(e)} : e \in archive})

\* An endpoint of a pool is asked at most once in a tick, and so is the
\* metadata of a token, which two endpoints give.
Metadata == {"gt.pools_multi", "gt.token_info"}

Asked(endpoint, token) ==
    \E e \in archive :
        /\ e.token = token /\ e.seen = now
        /\ e.endpoint = endpoint \/ {e.endpoint, endpoint} = Metadata

Receive(endpoint, token, fate, rows) ==
    /\ endpoint \in plan.asks /\ Cardinality(archive) < plan.answers
    /\ ~Asked(endpoint, token)
    /\ Bad + Cardinality({r \in rows : ~r.well}) <= plan.bad
    /\ archive' = archive \union
            {[endpoint |-> endpoint, token |-> token, seen |-> now, fate |-> fate, rows |-> rows]}
    /\ UNCHANGED <<now, chain, pending, drained, plan>>

Indexed(token) == {s \in chain \ pending : s.token = token}

PollTrades(token) ==
    \E page \in TradePages(Indexed(token), now) : \E bad \in SUBSET page :
        Receive("gt.trades", token, "ok",
            {[ts |-> s.ts, n |-> s.n, wallet |-> s.wallet, side |-> s.side, well |-> s \notin bad] : s \in page})

PollBars(token) ==
    LET rows == BarRows(Indexed(token)) IN
    \E bad \in SUBSET rows : \E void \in SUBSET (rows \ bad) :
        /\ Cardinality(void) <= plan.bad
        /\ Receive("gt.ohlcv", token, "ok",
            {[ts |-> r.ts, volume |-> IF r \in void THEN NoVolume ELSE r.volume, well |-> r \notin bad] :
                r \in rows})

PollPools(token) ==
    \E priced \in BOOLEAN :
        Receive("gt.pools_multi", token, "ok",
            {[created |-> 0, level |-> LevelAt(now), price |-> Least(Prices), priced |-> priced, well |-> TRUE]})

\* The second source counts liquidity in its own way.
PollPairs(token) ==
    \E price \in Prices :
        Receive("ds.pairs", token, "ok", {[level |-> 2 * LevelAt(now), price |-> price, well |-> TRUE]})

PollInfo(token) ==
    \E developer \in {Creator, NoCreator} :
        Receive("gt.token_info", token, "ok",
            {[developer |-> developer, updated |-> now, count |-> 0, well |-> TRUE]})

\* An exchange without a usable answer.
PollFails(token, endpoint) ==
    Receive(endpoint, token, "failed", {})

Next ==
    \/ Tick \/ Drain
    \/ \E t \in Tokens, o \in plan.orders : Trade(t, o[1], o[2])
    \/ \E s \in pending : Index(s)
    \/ \E t \in Tokens : PollTrades(t) \/ PollBars(t) \/ PollPools(t) \/ PollPairs(t) \/ PollInfo(t)
    \/ \E t \in Tokens : PollFails(t, "gt.trades")

Spec == Init /\ [][Next]_vars

\* ------------------------------------------------------------ assessment --
Store == Records(archive) \union plan.loaded

Known(asOf) == {f \in plan.transfers : f.ts <= asOf}

\* What assess_token says of a token as of a moment.
Judgement(records, token, asOf) ==
    LET view     == View(records, asOf)
        swaps    == Swaps(view, token)
        creator  == CreatorOf(view, token)
        end      == FlowEnd(view, token, asOf)
        recent   == {s \in swaps : s.ts >= asOf - Window * Baselines}
        clusters == ClusterOf(swaps, Known(asOf), creator)
        observed == (IF FlowFrom(view, token, asOf) <= end - Window * Baselines THEN {"flow"} ELSE {})
                    \union (IF creator = NoCreator THEN {} ELSE {"creator"})
    IN  [of |-> Assess(records, token, asOf),
         clusters |-> clusters,
         label |-> Label(swaps, Known(asOf), creator, clusters),
         flags |-> Flags(recent, Known(asOf), {}, creator, clusters,
                         OfKind(view, token, "pool"), observed)]

\* ------------------------------------------------------------ properties --
OnChain(token) == {s \in chain : s.token = token}

\* Swaps the store may lack although their time is covered: those a parser
\* dropped, with an issue, and those of the second at which a full page ends.
Excused(token) ==
    {s \in OnChain(token) :
        \E e \in archive :
            /\ e.endpoint = "gt.trades" /\ e.token = token /\ e.fate = "ok"
            /\ \/ \E r \in Dropped(e) : r.ts = s.ts /\ r.n = s.n
               \/ /\ Cardinality(e.rows) = Page /\ Well(e) # {}
                  /\ s.ts = Least({r.ts : r \in Well(e)})}

\* A minute bar that is called complete has the volume of the chain: every
\* swap of the minute and no other, also where the provider omitted the
\* minute; only a row that was dropped, and reported, may be missing.
BarsAreReal ==
    \A t \in Tokens :
        LET bars == TokenBars(View(Store, now), t, now) IN
        ProviderBars(View(Store, now), t) # {} =>
            \A m \in DOMAIN bars :
                bars[m].complete =>
                    \/ bars[m].volume = Cardinality({s \in OnChain(t) : MinuteOf(s.ts) = m})
                    \/ \E e \in archive : e.endpoint = "gt.ohlcv" /\ \E r \in Dropped(e) : r.ts = m

\* The number of buyers and of sellers, when it is given, is that of the
\* chain, and the trades of a minute whose flow is known are the chain's:
\* polls that fail, overlap, come late or end in a full page never let an
\* unobserved stretch be counted as a quiet one.
FlowOf(t) ==
    LET view  == View(Store, now)
        bars  == TokenBars(view, t, now)
        end   == FlowEnd(view, t, now)
        count == Assess(Store, t, now).participation.buyers
    IN  /\ \A m \in DOMAIN bars :
                bars[m].flow =>
                    \A s \in OnChain(t) \ Excused(t) :
                        MinuteOf(s.ts) = m => \E x \in bars[m].trades : x.ts = s.ts /\ x.n = s.n
        /\ IsOk(count) =>
                \E X \in SUBSET Excused(t) :
                    count.value = Cardinality(Buyers(OnChain(t) \ X, end - Window, end))

FlowIsReal ==
    \A t \in Tokens : ProviderBars(View(Store, now), t) # {} => FlowOf(t)

\* The same of every token whose trades are claimed to be covered, also before
\* the first bar of a provider can be used: only a synthetic stream, which
\* makes no claims, is complete by itself.
FlowIsRealWithoutBars == \A t \in Tokens : Claims(View(Store, now), t, "trades") # {} => FlowOf(t)

\* What was said as of an earlier moment is said for ever: nothing that is
\* received later changes it, so a replay sees what a live scan saw.  Asked of
\* the moment before, which sees all that an earlier one does.
PastViewsAreFrozen ==
    [][\A t \in Tokens :
        now > 0 => Judgement(Store', t, now - 1) = Judgement(Store, t, now - 1)]_archive

\* A level of liquidity that is reported as good was the pool's within the
\* last MaxAge, and a change was one between a moment inside the window and
\* one before it: never between two sources, never from silence.
LiquidityIsReal ==
    \A t \in Tokens :
        LET liq == Assess(Store, t, now).liquidity IN
        /\ IsOk(liq.level) =>
                \E u \in (now - MaxAge)..now : liq.level.value \in {LevelAt(u), 2 * LevelAt(u)}
        /\ IsOk(liq.change) =>
                \E u \in 0..(now - LevelWindow), v \in (now - LevelWindow + 1)..now :
                    liq.change.value[1] * LevelAt(v) = liq.change.value[2] * LevelAt(u)

\* Two wallets are in one cluster exactly when evidence joins them: both first
\* funded by one source within the window, a transfer between them, buys at
\* about the same time again and again, or a chain of such pairs.
Joined(swaps, known, creator) ==
    LET first == {f \in FirstFunding(swaps, known) : f.src \notin Ignored} IN
    {p \in (Traders(swaps) \union {creator}) \X (Traders(swaps) \union {creator}) :
        \/ \E f, g \in first : f.dst = p[1] /\ g.dst = p[2] /\ f.src = g.src
                /\ f.ts - g.ts <= SharedWindow /\ g.ts - f.ts <= SharedWindow
        \/ \E f \in first : f.src = creator /\ p = <<creator, f.dst>>
        \/ \E f \in known : {f.src, f.dst} \subseteq Traders(swaps) /\ p = <<f.src, f.dst>>
        \/ p[1] # p[2] /\ Cardinality(SyncHits(swaps, p[1], p[2])) >= MinSync}

ClustersAreJoined ==
    \A t \in Tokens :
        LET view    == View(Store, now)
            swaps   == Swaps(view, t)
            creator == CreatorOf(view, t)
            pairs   == Joined(swaps, Known(now), creator)
            of      == ClusterOf(swaps, Known(now), creator)
            closed(S) == \A p \in pairs : (p[1] \in S) = (p[2] \in S)
        IN  \A a \in DOMAIN of :
                /\ closed(Members(of, of[a]))
                /\ \A S \in SUBSET Members(of, of[a]) : closed(S) => S \in {{}, Members(of, of[a])}
=============================================================================

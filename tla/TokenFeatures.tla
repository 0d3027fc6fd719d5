--------------------------- MODULE TokenFeatures ---------------------------
(***************************************************************************)
(* What is computed of one token as of a moment: the quality gate          *)
(* (quality/checks.py), participation, liquidity and market windows        *)
(* (features/), put together as pipeline.assess_token does.                *)
(*                                                                         *)
(* A quantity is an Obs (core/values.py), a value with a status; it is ok  *)
(* only with the status OK, and a quantity that is missing has NoValue.    *)
(* Sizes of trades and prices are left out: a swap is worth one.           *)
(***************************************************************************)
EXTENDS Bars

CONSTANTS
    NoValue,
    MaxAge,         \* data_quality.max_price_age_ms
    Tolerance,      \* cross_source_price_tolerance, as a difference of levels
    Window,         \* participation.window_bars, in ticks
    Baselines,      \* participation.baseline_windows
    LevelWindow,    \* liquidity.window_bars, in ticks
    Sources,        \* liquidity_source_priority
    Windows,        \* move.windows, in minutes
    BaselineBars,   \* move.baseline_bars
    MinSamples,     \* move.min_baseline_samples
    MinLevel        \* risk.min_liquidity_usd

\* Both sources are in the priority list, as in config/default.toml.
ASSUME FeatureConstants ==
    /\ {MaxAge, Window, LevelWindow, Baselines, BaselineBars} \subseteq Nat /\ Window # 0
    /\ Windows \subseteq Nat /\ IsFiniteSet(Windows) /\ Windows # {}
    /\ {"geckoterminal", "dexscreener"} \subseteq {Sources[i] : i \in DOMAIN Sources}

Ok(v) == [value |-> v, status |-> "OK"]
Missing == [value |-> NoValue, status |-> "MISSING"]
TooShort == [value |-> NoValue, status |-> "INSUFFICIENT_HISTORY"]
IsOk(o) == o.status = "OK" /\ o.value # NoValue

\* ------------------------------------------------------------- quality --
Since(now, S) == now - Greatest(S)

\* check_staleness: the latest of snapshots and swaps.
Staleness(snapshots, swaps, asOf) ==
    LET times == {s.ts : s \in snapshots \union swaps} IN
    IF times = {} THEN {"NO_DATA"}
    ELSE IF Since(asOf, times) > MaxAge THEN {"STALE_DATA"}
    ELSE {}

\* check_cross_source: the latest snapshot of each source inside the window.
CrossSource(snapshots, asOf) ==
    LET recent == {s \in snapshots : asOf - s.ts <= MaxAge}
        latest == {s \in recent : \A x \in recent : x.source = s.source => x.ts <= s.ts}
    IN  IF \E a, b \in latest : a.source # b.source /\ a.price - b.price > Tolerance
        THEN {"CONFLICTING_DATA"} ELSE {}

\* ----------------------------------------------------------- liquidity --
\* A variant for the mutation check: the latest snapshot of any source.
Preferred_AllSources(snapshots) == snapshots

\* compute: level and change come from the first source of the priority list
\* that has snapshots; a level that is too old is STALE, and a change needs a
\* snapshot inside the window.
Preferred(snapshots) ==
    LET present == {i \in DOMAIN Sources : \E s \in snapshots : s.source = Sources[i]} IN
    IF present = {} THEN snapshots
    ELSE {s \in snapshots : s.source = Sources[Least(present)]}

Latest(S) == CHOOSE s \in S : \A x \in S : x.ts <= s.ts

Liquidity(snapshots, asOf) ==
    LET start   == asOf - LevelWindow
        snaps   == Preferred({s \in snapshots : s.ts < asOf})
        atStart == {s \in snaps : s.ts <= start}
        stale   == snaps # {} /\ asOf - Latest(snaps).ts > MaxAge
        fresh   == snaps # {} /\ Latest(snaps).ts > start
    IN  [level  |-> IF snaps = {} THEN Missing
                    ELSE [value |-> Latest(snaps).level,
                          status |-> IF stale THEN "STALE" ELSE "OK"],
         change |-> IF atStart = {} \/ ~fresh \/ stale THEN Missing
                    ELSE IF Latest(atStart).level = 0 THEN Missing
                    ELSE Ok(<<Latest(atStart).level, Latest(snaps).level>>)]

\* ------------------------------------------------------- participation --
Buyers(swaps, lo, hi) ==
    {s.wallet : s \in {x \in swaps : lo <= x.ts /\ x.ts < hi /\ x.side = "buy"}}

\* Wallets whose first trade in the store lies in [lo, hi).
NewBuyers(swaps, lo, hi) ==
    {w \in Buyers(swaps, lo, hi) : \A s \in swaps : s.wallet = w => lo <= s.ts}

\* compute.  from: the moment from which the trades are covered up to asOf.
Participation(swaps, asOf, from) ==
    LET start    == asOf - Window
        cur      == {s \in swaps : start <= s.ts /\ s.ts < asOf}
        oldest   == start - Baselines * Window
        haveBase == /\ \E s \in swaps : s.ts <= oldest
                    /\ from <= oldest
        observed == from <= start
        prior(k) == Cardinality(Buyers(swaps, start - k * Window, start - (k - 1) * Window))
    IN  IF ~observed
        THEN [buyers |-> Missing, sellers |-> Missing, new |-> Missing, growth |-> Missing]
        ELSE [buyers  |-> Ok(Cardinality(Buyers(swaps, start, asOf))),
              sellers |-> Ok(Cardinality({s.wallet : s \in {x \in cur : x.side = "sell"}})),
              new     |-> Ok(Cardinality(NewBuyers(swaps, start, asOf))),
              growth  |-> IF ~haveBase THEN TooShort
                          ELSE Ok([k \in 0..Baselines |->
                                   IF k = 0 THEN Cardinality(Buyers(swaps, start, asOf)) ELSE prior(k)])]

\* -------------------------------------------------------------- market --
\* The last n minutes of the bars, and what an n-minute window may say: a
\* window that overlaps a gap is missing, and so is one that is compared with
\* too few earlier windows.
LastBars(bars, n) == {m \in DOMAIN bars : Cardinality({x \in DOMAIN bars : x > m}) < n}

Samples(bars, n) ==
    {m \in DOMAIN bars :
        LET before == Cardinality({x \in DOMAIN bars : x < m})
            after  == Cardinality({x \in DOMAIN bars : x > m})
        IN  before >= n /\ after >= n /\ bars[m].pricedAt # -1 /\ after <= BaselineBars}

Market(bars, n) ==
    LET gap   == \E m \in LastBars(bars, Greatest(Windows) + 1) : ~bars[m].complete
        known(S) == \A m \in S : bars[m].flow
        volume == {<<m, bars[m].volume>> : m \in LastBars(bars, n)}
        guarded(v, needHistory) ==
            IF gap THEN Missing
            ELSE IF needHistory /\ Cardinality(Samples(bars, n)) < MinSamples THEN TooShort
            ELSE Ok(v)
    IN  IF Cardinality(DOMAIN bars) <= n
        THEN [volume |-> TooShort, score |-> TooShort, imbalance |-> TooShort]
        ELSE [volume    |-> guarded(volume, FALSE),
              score     |-> guarded(<<volume, Samples(bars, n)>>, TRUE),
              imbalance |-> IF ~known(LastBars(bars, n)) THEN Missing
                            ELSE guarded(UNION {bars[m].trades : m \in LastBars(bars, n)}, FALSE)]

\* -------------------------------------------------------------- pipeline --
\* assess_token, up to the clusters: with bars of a provider everything is
\* read only as far as it is covered, without them the swaps are the bars.
Claims(view, token, stream) == OfKind(view, token, stream)
EndOf(claims) == Greatest({c.end : c \in claims})
Before(a, b) == IF a < b THEN a ELSE b
Later(a, b) == IF a < b THEN b ELSE a

Lookback == (BaselineBars + Greatest(Windows) + 1) * Minute

\* The bars a token is assessed on.
TokenBars(view, token, asOf) ==
    LET pbars  == ProviderBars(view, token)
        bcov   == Claims(view, token, "bars")
        tcov   == Claims(view, token, "trades")
        end    == MinuteOf(Before(asOf, EndOf(bcov)))
        first  == Later(end - Lookback, Least({b.ts : b \in pbars}))
        swaps  == Swaps(view, token)
    IN  IF pbars # {}
        THEN IF bcov = {} THEN <<>> ELSE BarsFromProvider(pbars, swaps, bcov, tcov, first, end)
        ELSE IF swaps = {} THEN <<>>
        ELSE BuildBars(swaps, Later(asOf - Lookback, Least({s.ts : s \in swaps})), asOf)

\* Up to where the order flow is read, and from where on it is covered.
FlowEnd(view, token, asOf) ==
    IF ProviderBars(view, token) = {} \/ Claims(view, token, "trades") = {} THEN asOf
    ELSE Before(asOf, EndOf(Claims(view, token, "trades")))

FlowFrom(view, token, asOf) ==
    IF ProviderBars(view, token) = {} THEN asOf - (Baselines + 1) * Window
    ELSE IF Claims(view, token, "trades") = {} THEN asOf
    ELSE ContiguousFrom(Claims(view, token, "trades"), FlowEnd(view, token, asOf))

Assess(records, token, asOf) ==
    LET view   == View(records, asOf)
        swaps  == Swaps(view, token)
        snaps  == OfKind(view, token, "snapshot")
        bcov   == Claims(view, token, "bars")
        end    == FlowEnd(view, token, asOf)
        bars   == TokenBars(view, token, asOf)
        liq    == Liquidity(snaps, asOf)
        late   == {t \in IF ProviderBars(view, token) = {} THEN {}
                         ELSE {end} \union (IF bcov = {} THEN {} ELSE {MinuteOf(Before(asOf, EndOf(bcov)))}) :
                        asOf - t > MaxAge}
    IN  [bars |-> bars,
         failures |-> Staleness(snaps, swaps, asOf) \union CrossSource(snaps, asOf)
                      \union (IF late # {} \/ liq.level.status = "STALE" THEN {"STALE_DATA"} ELSE {})
                      \union (IF IsOk(liq.level) /\ liq.level.value < MinLevel THEN {"LOW_LIQUIDITY"} ELSE {}),
         liquidity |-> liq,
         market |-> [n \in Windows |-> IF DOMAIN bars = {} THEN Market(<<>>, n) ELSE Market(bars, n)],
         participation |->
            Participation({s \in swaps : s.ts < end}, end, FlowFrom(view, token, asOf))]
=============================================================================

-------------------------------- MODULE Bars --------------------------------
(***************************************************************************)
(* Reading the store as of a moment (providers/store.py) and building the  *)
(* minute bars of a token (features/bars.py).                              *)
(***************************************************************************)
EXTENDS GeckoTerminal

\* A variant for the mutation check: visible from the moment it happened.
View_ByEventTime(records, asOf) ==
    {r \in records : (IF r.kind \in {"swap", "bar", "snapshot"} THEN r.ts ELSE r.seen) <= asOf}

\* EventStore.view: a record is visible once it has been received.
View(records, asOf) == {r \in records : r.seen <= asOf}

OfKind(view, token, kind) == {r \in view : r.kind = kind /\ r.token = token}

\* tokens: the latest metadata of a token supersedes what came before it.
CreatorOf(view, token) ==
    LET all == OfKind(view, token, "token") IN
    IF all = {} THEN NoCreator
    ELSE (CHOOSE m \in all : \A other \in all : other.seen <= m.seen).creator

\* provider_bars: of each minute the version that was seen last.
ProviderBars(view, token) ==
    LET all == OfKind(view, token, "bar") IN
    {b \in all : \A other \in all : other.ts = b.ts => other.seen <= b.seen}

\* dedupe_swaps: of the copies of a swap the one that was seen first.
Swaps(view, token) ==
    LET all == OfKind(view, token, "swap") IN
    {s \in all : \A other \in all :
        (other.ts = s.ts /\ other.n = s.n) => s.seen <= other.seen}

\* covered_intervals, as the ticks in them; inside(intervals, lo, hi); the
\* start of the interval that reaches end.
Covered(claims) == UNION {c.start..(c.end - 1) : c \in claims}
Inside(claims, lo, hi) == lo..(hi - 1) \subseteq Covered(claims)
ContiguousFrom(claims, end) ==
    Least({lo \in {c.start : c \in claims} : Inside(claims, lo, end)})

\* build_bars_from_provider.  A minute without a bar is a minute without
\* trades inside the coverage of the bars, once there has been a price, and
\* unknown elsewhere; who traded is known where the trades are covered.
Minutes(start, end) == {m \in start..(end - 1) : (m - MinuteOf(start)) % Minute = 0 /\ m + Minute <= end}

BarAt(m, first, bars, swaps, barClaims, tradeClaims) ==
    LET own    == {b \in bars : b.ts = m}
        priced == {b \in bars : first <= b.ts /\ b.ts <= m}
        known  == Inside(tradeClaims, m, m + Minute)
    IN  [complete |-> IF own # {} THEN \A b \in own : b.volume # NoVolume
                      ELSE priced # {} /\ Inside(barClaims, m, m + Minute),
         volume   |-> IF own = {} THEN 0
                      ELSE LET b == CHOOSE x \in own : TRUE IN
                           IF b.volume = NoVolume THEN 0 ELSE b.volume,
         pricedAt |-> IF priced = {} THEN -1 ELSE Greatest({b.ts : b \in priced}),
         flow     |-> known,
         trades   |-> IF known THEN {s \in swaps : MinuteOf(s.ts) = m} ELSE {}]

BarsFromProvider(bars, swaps, barClaims, tradeClaims, start, end) ==
    [m \in Minutes(start, end) |->
        BarAt(m, MinuteOf(start), bars, swaps, barClaims, tradeClaims)]

\* build_bars, for a stream without gaps: every minute is complete.
BuildBars(swaps, start, end) ==
    [m \in Minutes(MinuteOf(start), end) |->
        LET own    == {s \in swaps : MinuteOf(s.ts) = m}
            before == {s \in swaps : MinuteOf(start) <= s.ts /\ s.ts < m + Minute}
        IN  [complete |-> TRUE, volume |-> Cardinality(own),
             pricedAt |-> IF before = {} THEN -1 ELSE Greatest({MinuteOf(s.ts) : s \in before}),
             flow |-> TRUE, trades |-> own]]
=============================================================================

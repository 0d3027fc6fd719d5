--------------------------- MODULE GeckoTerminal ---------------------------
(***************************************************************************)
(* What the providers answer and what the parsers make of an answer        *)
(* (data/providers/geckoterminal.py, dexscreener.py): records of the       *)
(* token, issues, and the claim that a stretch of time is covered.         *)
(*                                                                         *)
(* An answer is [endpoint, token, seen, fate, rows]: when it was received, *)
(* what became of the exchange ("failed" stands for an error, a status     *)
(* other than 200 and a body that cannot be read), and its rows, of which  *)
(* some may be malformed (well = FALSE).                                   *)
(*                                                                         *)
(* A row is dropped for an address, a side, a number or a timestamp that   *)
(* is missing or impossible; which of these it was does not matter here.   *)
(***************************************************************************)
EXTENDS Integers, FiniteSets

CONSTANTS
    Minute,     \* MIN, in ticks
    Day,        \* how far back the trades endpoint reaches
    Lag,        \* Plan.lag_ms: by then the provider has indexed a swap
    Page,       \* TRADES_PAGE
    BarLimit,   \* limit of an OHLCV request
    NoVolume,   \* a bar without a volume
    NoCreator   \* a token whose creator is not known

ASSUME ProviderConstants ==
    /\ Minute \in Nat \ {0} /\ Page \in Nat \ {0} /\ BarLimit \in Nat \ {0}
    /\ Day \in Nat /\ Lag \in Nat
    /\ NoVolume \notin Nat

Least(S) == CHOOSE x \in S : \A y \in S : x <= y
Greatest(S) == CHOOSE x \in S : \A y \in S : y <= x

\* The minute a tick belongs to, by its first tick.
MinuteOf(t) == t - (t % Minute)

\* ------------------------------------------------------------- answers --
\* The latest Page trades of the last day; which of the trades of one second
\* a full page holds is the provider's affair.
TradePages(swaps, now) ==
    LET recent == {s \in swaps : s.ts >= now - Day} IN
    {P \in SUBSET recent :
        /\ Cardinality(P) = IF Cardinality(recent) < Page THEN Cardinality(recent) ELSE Page
        /\ \A s \in recent \ P, p \in P : s.ts <= p.ts}

\* The latest BarLimit minutes that have a trade, with their volumes.
BarRows(swaps) ==
    LET minutes == {MinuteOf(s.ts) : s \in swaps} IN
    {[ts |-> m, volume |-> Cardinality({s \in swaps : MinuteOf(s.ts) = m})] :
        m \in {x \in minutes : Cardinality({y \in minutes : y > x}) < BarLimit}}

\* ------------------------------------------------------------- parsers --
Well(e) == {r \in e.rows : r.well}

Claim(e, stream, start, end) ==
    [kind |-> stream, token |-> e.token, start |-> start, end |-> end, seen |-> e.seen]

\* A variant for the mutation check: a full page counts as the whole day.
TradeClaims_FullDay(e) ==
    IF e.seen - Day < e.seen - Lag THEN {Claim(e, "trades", e.seen - Day, e.seen - Lag)} ELSE {}

\* parse_trades: below a full page every trade of the last day was returned;
\* a full page is complete from its oldest usable trade.
TradeClaims(e) ==
    LET end   == e.seen - Lag
        kept  == {r.ts : r \in Well(e)}
        start == IF Cardinality(e.rows) < Page THEN e.seen - Day
                 ELSE IF kept = {} THEN end
                 ELSE Least(kept)
    IN  IF start < end THEN {Claim(e, "trades", start, end)} ELSE {}

ParseTrades(e) ==
    {[kind |-> "swap", token |-> e.token, ts |-> r.ts, n |-> r.n, wallet |-> r.wallet,
      side |-> r.side, seen |-> e.seen] : r \in Well(e)}
    \union TradeClaims(e)

\* parse_ohlcv: a bar is used when it was closed Lag before the response, and
\* the claim reaches from the first bar that is used to the last minute that
\* was closed by then.
Closed(e) == {r \in Well(e) : r.ts + Minute <= e.seen - Lag}

\* A variant for the mutation check: the claim reaches up to the response.
BarClaims_ToNow(e) ==
    IF Closed(e) = {} THEN {}
    ELSE {Claim(e, "bars", Least({r.ts : r \in Closed(e)}), MinuteOf(e.seen))}

BarClaims(e) ==
    IF Closed(e) = {} THEN {}
    ELSE {Claim(e, "bars", Least({r.ts : r \in Closed(e)}), MinuteOf(e.seen - Lag))}

ParseOhlcv(e) ==
    {[kind |-> "bar", token |-> e.token, ts |-> r.ts, volume |-> r.volume, seen |-> e.seen] :
        r \in Closed(e)}
    \union BarClaims(e)

\* parse_pools: the pool and the token are recorded even when the price or the
\* liquidity is not there, the token without a creator; the snapshot is of the
\* moment of the response.
ParsePools(e) ==
    {[kind |-> "pool", token |-> e.token, created |-> r.created, seen |-> e.seen] : r \in Well(e)}
    \union
    {[kind |-> "token", token |-> e.token, creator |-> NoCreator, seen |-> e.seen] : r \in Well(e)}
    \union
    {[kind |-> "snapshot", token |-> e.token, source |-> "geckoterminal", ts |-> e.seen,
      level |-> r.level, price |-> r.price, seen |-> e.seen] : r \in {x \in Well(e) : x.priced}}

\* parse_token_info: a malformed developer is dropped, the token is kept, and
\* the holders count only with a timestamp.
ParseInfo(e) ==
    {[kind |-> "token", token |-> e.token, creator |-> r.developer, seen |-> e.seen] : r \in e.rows}
    \union
    {[kind |-> "holders", token |-> e.token, ts |-> r.updated, count |-> r.count, seen |-> e.seen] :
        r \in Well(e)}

\* parse_pairs of the second source.
ParsePairs(e) ==
    {[kind |-> "snapshot", token |-> e.token, source |-> "dexscreener", ts |-> e.seen,
      level |-> r.level, price |-> r.price, seen |-> e.seen] : r \in Well(e)}

\* _parse.
Parse(e) ==
    CASE e.endpoint = "gt.trades" -> ParseTrades(e)
      [] e.endpoint = "gt.ohlcv" -> ParseOhlcv(e)
      [] e.endpoint = "gt.pools_multi" -> ParsePools(e)
      [] e.endpoint = "gt.token_info" -> ParseInfo(e)
      [] e.endpoint = "ds.pairs" -> ParsePairs(e)

\* Rows that were dropped, each with its issue in the report.
Dropped(e) == e.rows \ Well(e)

\* normalize: an exchange that failed, or whose body cannot be read, gives an
\* issue and no record.
Records(archive) == UNION {Parse(e) : e \in {x \in archive : x.fate = "ok"}}

\* coverage_gaps: the ticks of [lo, hi) in no claim.
CoverageGaps(claims, lo, hi) ==
    {t \in lo..(hi - 1) : \A c \in claims : ~(c.start <= t /\ t < c.end)}
=============================================================================

----------------------------- MODULE RiskEngine -----------------------------
(***************************************************************************)
(* The risk engine of the intelligence pipeline (risk/engine.py): a trade  *)
(* that is proposed is sized so that the loss at its invalidation fits a   *)
(* budget and so that it fits the room that the open positions leave, or   *)
(* it is refused.  Amounts are whole dollars, slippage is in per mille.    *)
(***************************************************************************)
EXTENDS Signals

\* cpmm_slippage: the price impact of an amount on half the pool, and the fee.
Slippage(amount, liquidity, fee) == (2000 * amount) \div liquidity + fee

Percent(p, amount) == (p * amount) \div 100

Exposure(positions) == SumFunctionOnSet([p \in positions |-> p.notional], positions)

Room(limit, equity, used) == AtLeast(0, Percent(limit, equity) - used)

\* book: [equity, positions, realized, losses].  proposal: [chain, narratives,
\* price, stop, liq, fee], the price None when nothing can be executed.
Refusals(p, book) ==
    {r \in {"execution", "dailyLoss", "losses", "unobservable", "liquidity", "invalidation"} :
        CASE r = "execution" -> ~Has(p.price)
          [] r = "dailyLoss" -> book.realized <= -Percent(Config.maxDailyLoss, book.equity)
          [] r = "losses" -> book.losses >= Config.maxLosses
          [] r = "unobservable" -> ~Has(p.liq)
          [] r = "liquidity" -> Below(p.liq, Config.minLiquidity)
          [] r = "invalidation" -> IF Has(p.stop) THEN p.stop >= OrZero(p.price) \/ p.stop <= 0 ELSE TRUE}

RiskBudget(p, book) ==
    LET distance == 1000 - (1000 * p.stop) \div p.price IN
    (Config.maxRisk * book.equity) \div (distance + Config.maxSlippage * Config.exitMultiplier)

\* A variant for the mutation check: the roomiest narrative decides.
NarrativeRoom_AnyOne(p, book) ==
    LET limited == p.narratives \ {"meme"}
        room(n) == Room(Config.maxNarrative, book.equity, Exposure({o \in book.positions : n \in o.narratives}))
    IN  IF limited = {} THEN Percent(Config.maxNarrative, book.equity) ELSE Max({room(n) : n \in limited})

\* The least room of the proposal's narratives; "meme" has no limit of its own.
NarrativeRoom(p, book) ==
    LET limited == p.narratives \ {"meme"}
        room(n) == Room(Config.maxNarrative, book.equity, Exposure({o \in book.positions : n \in o.narratives}))
    IN  Min({Percent(Config.maxNarrative, book.equity)} \union {room(n) : n \in limited})

Caps(p, book) ==
    {RiskBudget(p, book), Percent(Config.maxPoolShare, p.liq),
     Room(Config.maxPortfolio, book.equity, Exposure(book.positions)),
     Room(Config.maxChain, book.equity, Exposure({o \in book.positions : o.chain = p.chain})),
     NarrativeRoom(p, book)}

\* Four fifths of the size until the entry's slippage fits, and nothing below one.
Shrink(p, size) ==
    LET s[n \in 0..size] ==
            IF n = 0 \/ Slippage(n, p.liq, p.fee) <= Config.maxSlippage THEN n
            ELSE s[(4 * n) \div 5]
    IN  s[size]

\* The amount that is approved, or 0.
Evaluate(p, book) ==
    LET size == Shrink(p, AtLeast(0, Min(Caps(p, book)))) IN
    IF Refusals(p, book) # {} \/ size < 10 THEN 0 ELSE size
=============================================================================

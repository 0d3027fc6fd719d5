----------------------------- MODULE MCEvidence -----------------------------
(* Model checking of the evidence of one token.                             *)
EXTENDS Evidence, TLC

MCSources == <<"geckoterminal", "dexscreener">>
MCLevels == <<2, 1>>

Plan(asks, answers, bad, orders, loaded, transfers) ==
    [asks |-> asks, answers |-> answers, bad |-> bad, orders |-> orders, loaded |-> loaded, transfers |-> transfers]

\* The flow of one token from both endpoints, in three answers, in two with
\* two wallets, or in two with a malformed row; its pool, its liquidity and its
\* creator; data sets of swaps and transfers.
CONSTANTS a
LoadedSwap(ts, wallet, side) ==
    [kind |-> "swap", token |-> a, ts |-> ts, n |-> wallet, wallet |-> wallet, side |-> side, seen |-> ts]
Transfer(src, dst, ts) == [src |-> src, dst |-> dst, ts |-> ts]

MCPlans ==
    {Plan({"gt.trades", "gt.ohlcv"}, 3, 0, {<<1, "buy">>}, {}, {}),
     Plan({"gt.trades", "gt.ohlcv"}, 2, 0, {<<1, "buy">>, <<2, "sell">>}, {}, {}),
     Plan({"gt.trades", "gt.ohlcv"}, 2, 1, {<<1, "buy">>}, {}, {}),
     Plan({"gt.pools_multi", "ds.pairs", "gt.token_info"}, 3, 1, {}, {}, {})}
    \union
    {Plan({}, 0, 0, {}, swaps, transfers) :
        swaps \in SUBSET {LoadedSwap(0, 1, "buy"), LoadedSwap(1, 2, "buy"), LoadedSwap(1, 3, "buy"),
                          LoadedSwap(3, 1, "sell"), LoadedSwap(4, 1, "buy"), LoadedSwap(4, 2, "buy")},
        transfers \in SUBSET {Transfer(9, 1, 0), Transfer(9, 2, 1), Transfer(9, 3, 2), Transfer(1, 3, 1),
                              Transfer(2, 3, 3)}}
=============================================================================

--------------------------- MODULE MCShockContext ---------------------------
(* Two regimes, moves of one and of two ATR, bars that cannot be used and   *)
(* bars of the two markets that drifted apart.                              *)
EXTENDS ShockContext

Bar(leader, receiver, regime) ==
    [leader |-> leader, receiver |-> receiver, regime |-> regime, positive |-> TRUE, together |-> TRUE,
     clean |-> TRUE, volShock |-> regime = 2, regimeStrength |-> 40 * regime]

MCPairs ==
    {Bar(1, 4, 1), Bar(-1, -4, 1), Bar(2, -2, 2),
     [Bar(1, 4, 2) EXCEPT !.positive = FALSE],
     [Bar(1, 4, 2) EXCEPT !.clean = FALSE],
     [Bar(-1, -4, 2) EXCEPT !.together = FALSE]}

MCReadings == {"fresh", "stale", "early"}
MCNoiseFloor == <<100, 100, 100, 40, 40, 35, 35, 30, 30>>
MCBars == {[usable |-> TRUE, return |-> 4, volShock |-> FALSE]}
MCContexts == {[available |-> FALSE, direction |-> 0, regimeAvailable |-> FALSE, regimeStrength |-> 0]}
=============================================================================

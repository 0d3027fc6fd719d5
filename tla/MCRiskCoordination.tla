------------------------- MODULE MCRiskCoordination -------------------------
EXTENDS RiskCoordination, TLC
CONSTANTS a, b, t1, t2, ka, kb
OneTerminal == [i \in Instance |-> t1]
TwoTerminals == [i \in Instance |-> IF i = a THEN t1 ELSE t2]
KeyOwner == [k \in Key |-> IF k = ka THEN a ELSE b]
Stakes == [k \in Key |-> 2]
StampedIds == Instance \X (1 .. Horizon + Skew)
=============================================================================

--------------------------- MODULE MCAcquisition ---------------------------
(* Model checking of an acquisition: one pool to collect, of three that are *)
(* listed; a history of two signatures for its creator and none for it.     *)
EXTENDS Acquisition, TLC

CONSTANTS p1, p2, p3, t1, sol

MCListed ==
    [e \in {"new_pools", "trending", "top_pools"} |->
        CASE e = "new_pools" -> {[pool |-> p1, token |-> t1, quiet |-> TRUE]}
          [] e = "trending" -> {[pool |-> p2, token |-> t1, quiet |-> FALSE]}
          [] OTHER -> {[pool |-> p3, token |-> sol, quiet |-> FALSE]}]
MCTarget == [s \in {"quiet_young", "young", "trending", "established"} |-> 1]
MCFullPages == [p \in {p1, p2, p3} |-> 1]
MCDepth == [a \in {"funding", "liquidity"} \X {p1, p2, p3} |-> IF a[1] = "funding" THEN 2 ELSE 0]
=============================================================================

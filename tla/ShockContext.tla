---------------------------- MODULE ShockContext ----------------------------
(***************************************************************************)
(* A research loop over closed bars: the transmission measurement is taken *)
(* on the bars so far and handed, with the receiver's bar, to the shock    *)
(* engine.  The loop itself is outside python/autopsy_research; what it    *)
(* may pass is what the two modules' signatures and documentation say.     *)
(***************************************************************************)
EXTENDS ShockDNA, LeadLag

CONSTANTS
    Pairs,          \* the closed bars of leader and receiver that may come
    Readings,       \* when the newest of them is read
    MaxBars,        \* bound on the bars of one behaviour
    MaxFlaws        \* bound on its flawed bars, late readings and resets

\* The noise floor is a formula in the code; here it is a table, long enough.
ASSUME BoundsAssumption ==
    /\ MaxBars \in Nat /\ MaxFlaws \in Nat
    /\ 1 .. MaxBars \subseteq DOMAIN NoiseFloor

ASSUME PairsAssumption ==
    \A p \in Pairs : {p.clean, p.positive, p.volShock} \subseteq BOOLEAN /\ p.receiver \in Int

VARIABLES
    pairs,          \* the bars closed so far
    measured,       \* the transmission snapshot of the last bar
    flaws           \* flaws so far

vars == <<active, sampled, snapshot, level, base, levels, pairs, measured, flaws>>

Flawed(p, reading) == ~(p.clean /\ p.positive /\ p.together) \/ reading # "fresh"

\* A usable bar is clean and measured between two positive closes.
Usable(p) == p.clean /\ p.positive /\ \A i \in {Len(pairs)} \ {0} : pairs[i].positive

ClosedBar(p, reading) ==
    /\ Len(pairs) < MaxBars
    /\ flaws' = IF Flawed(p, reading) THEN flaws + 1 ELSE flaws
    /\ flaws' <= MaxFlaws
    /\ pairs' = Append(pairs, p)
    /\ \E returns \in {Aligned(Append(pairs, p), reading)} : measured' = Transmission(returns)
    /\ Update([usable |-> Usable(p), return |-> p.receiver, volShock |-> p.volShock],
              [available |-> measured'.valid, direction |-> measured'.direction,
               regimeAvailable |-> TRUE, regimeStrength |-> p.regimeStrength])

\* The engine is reset between two stretches of the same series.
NewStretch ==
    /\ flaws < MaxFlaws /\ active # NoEvent
    /\ flaws' = flaws + 1
    /\ Reset
    /\ UNCHANGED <<pairs, measured>>

Init ==
    /\ ShockInit
    /\ pairs = <<>> /\ measured = NoTransmission(0) /\ flaws = 0

Next ==
    \/ \E p \in Pairs, reading \in Readings : ClosedBar(p, reading)
    \/ NewStretch

Spec == Init /\ [][Next]_vars

-----------------------------------------------------------------------------
\* Whatever relationship is reported with a direction -- leading, confirming,
\* fading or inverted -- is stronger than what noise alone would show in the
\* sample that it was measured on: the whole window, or only the half of it
\* that the state is about (the audit fix recorded in lead_lag.py).
NoClaimBelowTheNoise ==
    measured.direction # 0 =>
        LET pairsRead == IF measured.state \in Unsure THEN measured.sample \div 2 ELSE measured.sample
        IN  /\ measured.valid /\ pairsRead >= 2
            /\ measured.strength >= NoiseFloor[pairsRead]
            /\ measured.strength >= MinAssociation
            /\ measured.confidence <= measured.strength
=============================================================================

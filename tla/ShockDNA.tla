------------------------------ MODULE ShockDNA ------------------------------
(***************************************************************************)
(* The shock characterization engine of python/autopsy_research: a state   *)
(* machine fed one closed bar at a time.  It tracks at most one event from *)
(* its onset to its normalization and names what the event is doing.       *)
(*                                                                         *)
(* Displacements are whole multiples of a fraction of the prevailing ATR,  *)
(* fractions and confidences are percents.  A bar is what update() reads   *)
(* of it: is it usable (data quality, ATR and OHLC sane), how far did it   *)
(* settle from the bar before, and did it close on a volatility shock.     *)
(***************************************************************************)
EXTENDS Integers, Sequences

CONSTANTS
    OnsetThreshold,     \* onset_threshold_atr
    ImpulseBars, FollowThroughPct, AbsorptionPct, ReversalPct,
    ReversalMin,        \* reversal_min_magnitude_atr
    NormalFloor,        \* normalization_floor_atr
    MinDecay,           \* min_decay_bars
    Lifecycle,          \* lifecycle_bars
    MinHistory,         \* min_history_bars
    Bars,               \* the closed bars the engine may be fed
    Contexts,           \* what a caller may say of transmission and regime
    NoEvent             \* no event is tracked

ASSUME ConfigAssumption ==
    /\ OnsetThreshold \in Nat \ {0} /\ Lifecycle \in Nat \ {0} /\ MinHistory \in Nat \ {0}
    /\ {ImpulseBars, FollowThroughPct, ReversalMin, NormalFloor, MinDecay} \subseteq Nat
    /\ {AbsorptionPct, ReversalPct} \subseteq 0 .. 100

ASSUME BarsAssumption ==
    \A b \in Bars : b.usable \in BOOLEAN /\ b.return \in Int /\ b.volShock \in BOOLEAN

Event == [onset : Int, sign : {-1, 1}, k : Nat, cum : Int, maxExc : Nat, velocity : Int]

ASSUME NoEventAssumption == NoEvent \notin Event

VARIABLES
    active,     \* the tracked event, or NoEvent
    sampled,    \* usable bars counted since the start or the last reset
    snapshot,   \* what the last update() returned
    level,      \* where the usable bars have taken the market (not in the code)
    base,       \* the level the tracked event started from (not in the code)
    levels      \* the levels settled on since the onset (not in the code)

engine == <<active, sampled, snapshot>>
market == <<level, base, levels>>
shockVars == <<active, sampled, snapshot, level, base, levels>>

-----------------------------------------------------------------------------
Abs(n) == IF n < 0 THEN -n ELSE n
Sign(n) == IF n > 0 THEN 1 ELSE -1
Positive(n) == IF n > 0 THEN n ELSE 0
Lower(a, b) == IF a < b THEN a ELSE b
Higher(a, b) == IF a > b THEN a ELSE b

\* How far the event has fallen back from its peak excursion.
Adverse(ev) == Positive(ev.maxExc - ev.sign * ev.cum)
GivesBack(ev, percent) ==
    IF ev.maxExc = 0 THEN percent = 0 ELSE 100 * Adverse(ev) >= percent * ev.maxExc

\* The waterfall: the first rule that matches names the state.
Classify(ev) ==
    IF \/ ev.k >= Lifecycle
       \/ Abs(ev.cum) <= NormalFloor /\ ev.k >= MinDecay
    THEN "NORMALIZING"
    ELSE IF ev.sign * ev.cum <= -ReversalMin \/ GivesBack(ev, ReversalPct)
    THEN "REVERSAL"
    ELSE IF GivesBack(ev, AbsorptionPct)
    THEN "ABSORPTION"
    ELSE IF ev.k = 0
    THEN "ONSET"
    ELSE IF ev.k <= ImpulseBars /\ ev.sign * ev.cum >= ev.maxExc
    THEN "IMPULSE"
    ELSE IF 100 * ev.sign * ev.cum >= FollowThroughPct * Abs(ev.onset)
    THEN "FOLLOW_THROUGH"
    ELSE "ABSORPTION"

\* The gated minimum of the evidence factors, in percent.
Confidence(ev, bar, ctx) ==
    LET sample    == (100 * (sampled + 1)) \div (2 * MinHistory)
        magnitude == (100 * Abs(ev.onset)) \div (2 * OnsetThreshold)
        crossAsset == IF ctx.available THEN 100 ELSE 60
        regime    == IF ctx.regimeAvailable THEN Lower(100, Positive(ctx.regimeStrength)) ELSE 50
        volatility == IF bar.volShock THEN 100 ELSE 85
    IN  Lower(Lower(sample, magnitude), Lower(crossAsset, Lower(regime, volatility)))

\* The caller's transmission reading agrees with the direction of the event.
Confirmation(ev, ctx) ==
    IF ~ctx.available THEN "none"
    ELSE IF ctx.direction # 0 /\ Sign(ctx.direction) = ev.sign THEN "confirmed" ELSE "denied"

Empty(state) ==
    [state |-> state, valid |-> state = "NONE", direction |-> 0, persistence |-> 0,
     magnitude |-> 0, excursion |-> 0, adverse |-> 0, acceleration |-> 0,
     confirmation |-> "none", confidence |-> 0]

Described(ev, before, bar, ctx) ==
    [state |-> Classify(ev), valid |-> TRUE, direction |-> ev.sign, persistence |-> ev.k,
     magnitude |-> Abs(ev.cum), excursion |-> ev.maxExc, adverse |-> Adverse(ev),
     acceleration |-> IF ev.k = 0 THEN 0 ELSE bar.return - before,
     confirmation |-> Confirmation(ev, ctx), confidence |-> Confidence(ev, bar, ctx)]

-----------------------------------------------------------------------------
Started(bar) ==
    LET sign == Sign(bar.return)
    IN  [onset |-> bar.return, sign |-> sign, k |-> 0, cum |-> bar.return,
         maxExc |-> Positive(sign * bar.return), velocity |-> bar.return]

\* A mutation: the peak is taken before the bar is folded in.
Extended_PeakBeforeBar(ev, bar) ==
    [ev EXCEPT !.k = ev.k + 1, !.cum = ev.cum + bar.return,
               !.maxExc = Higher(ev.maxExc, Positive(ev.sign * ev.cum)),
               !.velocity = bar.return]

\* The next usable bar is folded into the event, whichever way it went.
Extended(ev, bar) ==
    LET cum == ev.cum + bar.return
    IN  [onset |-> ev.onset, sign |-> ev.sign, k |-> ev.k + 1, cum |-> cum,
         maxExc |-> Higher(ev.maxExc, Positive(ev.sign * cum)), velocity |-> bar.return]

\* An event that normalizes is described once more and then forgotten.
Track(ev, before, bar, ctx) ==
    /\ snapshot' = Described(ev, before, bar, ctx)
    /\ active' = IF Classify(ev) = "NORMALIZING" THEN NoEvent ELSE ev

Ready == sampled + 1 >= MinHistory
Moves(bar) == level' = level + bar.return

-----------------------------------------------------------------------------
(* update(): one disjunct for every way out of the function.               *)

\* A bar that cannot be trusted is excluded: nothing is counted or folded in.
BadBar(bar) ==
    /\ ~bar.usable
    /\ snapshot' = Empty("UNKNOWN")
    /\ UNCHANGED <<active, sampled, market>>

WarmingUp(bar) ==
    /\ bar.usable /\ ~Ready
    /\ sampled' = sampled + 1
    /\ snapshot' = Empty("INSUFFICIENT_DATA")
    /\ Moves(bar)
    /\ UNCHANGED <<active, base, levels>>

Quiet(bar) ==
    /\ bar.usable /\ Ready /\ active = NoEvent
    /\ Abs(bar.return) < OnsetThreshold
    /\ sampled' = sampled + 1
    /\ snapshot' = Empty("NONE")
    /\ Moves(bar)
    /\ UNCHANGED <<active, base, levels>>

Onset(bar, ctx) ==
    /\ bar.usable /\ Ready /\ active = NoEvent
    /\ Abs(bar.return) >= OnsetThreshold
    /\ sampled' = sampled + 1
    /\ Track(Started(bar), 0, bar, ctx)
    /\ Moves(bar)
    /\ base' = level
    /\ levels' = <<level'>>

Continue(bar, ctx) ==
    /\ bar.usable /\ Ready /\ active # NoEvent
    /\ sampled' = sampled + 1
    /\ Track(Extended(active, bar), active.velocity, bar, ctx)
    /\ Moves(bar)
    /\ levels' = Append(levels, level')
    /\ UNCHANGED base

Update(bar, ctx) ==
    \/ BadBar(bar) \/ WarmingUp(bar) \/ Quiet(bar) \/ Onset(bar, ctx) \/ Continue(bar, ctx)

Reset ==
    /\ active' = NoEvent
    /\ sampled' = 0
    /\ UNCHANGED <<snapshot, market>>

-----------------------------------------------------------------------------
ShockInit ==
    /\ active = NoEvent /\ sampled = 0
    /\ snapshot = Empty("INSUFFICIENT_DATA")
    /\ level = 0 /\ base = 0 /\ levels = <<>>

ShockNext ==
    \/ \E bar \in Bars, ctx \in Contexts : Update(bar, ctx)
    \/ Reset

ShockSpec == ShockInit /\ [][ShockNext]_shockVars

-----------------------------------------------------------------------------
\* What the module's own documentation promises of the incremental state: the
\* tracked event is the one its usable bars describe.  Its displacement is how
\* far the market has settled from where the event started, its peak is the
\* farthest the market settled in the direction of the onset, its age is the
\* number of usable bars since, and it is forgotten before it outlives its
\* lifecycle -- whatever bad bars, warm-ups, resets and earlier events came.
EventIsItsBars ==
    active # NoEvent =>
        /\ active.k < Lifecycle
        /\ Len(levels) = active.k + 1
        /\ active.cum = level - base
        /\ active.sign = Sign(levels[1] - base)
        /\ \A j \in DOMAIN levels : active.sign * (levels[j] - base) <= active.maxExc
        /\ \E j \in DOMAIN levels : active.sign * (levels[j] - base) = active.maxExc
=============================================================================

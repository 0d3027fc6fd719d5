----------------------------- MODULE Statistics -----------------------------
(***************************************************************************)
(* The statistics of the studies (research/phase3b_stats.py), as far as a  *)
(* verdict depends on them.  A correlation is its sign, or None where it   *)
(* is undefined.  The p-value of a permutation test is drawn by the study  *)
(* (it depends on 4000 random permutations), in thousandths.               *)
(***************************************************************************)
EXTENDS Observations, Functions

\* The sum of a sequence of numbers.
Total(xs) == LET upTo[i \in 0 .. Len(xs)] == IF i = 0 THEN 0 ELSE xs[i] + upTo[i - 1] IN upTo[Len(xs)]

\* F of v; v is computed once, and not wherever F uses it.
Once(v, F(_)) == CHOOSE result \in {F(value) : value \in {v}} : TRUE

\* What a sequence has at some of its places, in its order.
Chosen(seq, places) ==
    [k \in 1 .. Cardinality(places) |->
        seq[CHOOSE i \in places : Cardinality({j \in places : j <= i}) = k]] \o <<>>

\* The elements of a set in an order; what the order ties is interchangeable.
Sorted(set, Before(_, _)) ==
    Once(set, LAMBDA S :
        [k \in 1 .. Cardinality(S) |->
            CHOOSE x \in S : /\ Cardinality({y \in S : Before(y, x)}) < k
                             /\ k <= Cardinality({y \in S : ~Before(x, y)})] \o <<>>)

\* Average ranks, doubled.
rank(xs) ==
    [i \in DOMAIN xs |->
        2 * Cardinality({j \in DOMAIN xs : xs[j] < xs[i]}) + Cardinality({j \in DOMAIN xs : xs[j] = xs[i]}) + 1]

\* The sign of a covariance; None without variance in either series.
pearson(xs, ys) ==
    LET n   == Len(xs)
        cov == n * Total([i \in DOMAIN xs |-> xs[i] * ys[i]]) - Total(xs) * Total(ys)
    IN  IF Cardinality(Range(xs)) < 2 \/ Cardinality(Range(ys)) < 2 THEN None
        ELSE IF cov > 0 THEN 1 ELSE IF cov < 0 THEN -1 ELSE 0

spearman(xs, ys) ==
    Once(<<xs \o <<>>, ys \o <<>>>>, LAMBDA s :
        Once(<<rank(s[1]) \o <<>>, rank(s[2]) \o <<>>>>, LAMBDA r : pearson(r[1], r[2])))

\* A tenth of n to the nearest, ties to the even one.
Tenth(n) ==
    LET low == n \div 10 IN
    IF (n % 10) > 5 \/ ((n % 10) = 5 /\ (low % 2) = 1) THEN low + 1 ELSE low

winsorize(xs) ==
    LET n     == Len(xs)
        k     == IF Tenth(n) = 0 THEN 1 ELSE Tenth(n)
        order == SortSeq(xs, <)
        lo    == order[k + 1]
        hi    == order[n - k]
        Clip(v) == IF v < lo THEN lo ELSE IF v > hi THEN hi ELSE v
    IN  IF n < 5 THEN xs ELSE [i \in DOMAIN xs |-> Clip(xs[i])]

\* What the permutations of n rows with the correlation r may come to.
block_permutation_test(n, r, possible) == IF n < 3 \/ ~Has(r) THEN {None} ELSE possible

\* residualize, partial_spearman: whether more than half of a correlation may
\* be gone when what zs explains is taken out of both series.  How much that
\* is, is not computed; a zs that never changes explains nothing.
MayExplain(zs) == IF Len(zs) > 3 /\ Cardinality(Range(zs)) > 1 THEN BOOLEAN ELSE {FALSE}

-----------------------------------------------------------------------------
\* Where i stands when the p-values are sorted, equal ones in their order.
Position(ps, i) == Cardinality({j \in DOMAIN ps : ps[j] < ps[i] \/ (ps[j] = ps[i] /\ j <= i)})
At(ps, k) == ps[CHOOSE i \in DOMAIN ps : Position(ps, i) = k]

\* A p-value is corrected by its rank.
Corrected(ps, k) == <<At(ps, k) * Len(ps), k>>

Least(v, w) == IF v[1] * w[2] <= w[1] * v[2] THEN v ELSE w

\* A mutation forgets that a p-value may not exceed the one above it.
bh_fdr_EachAlone(ps) == [i \in DOMAIN ps |-> Corrected(ps, Position(ps, i))]

\* Benjamini-Hochberg from the largest p-value down, as fractions of a thousand.
bh_fdr(ps) ==
    LET n == Len(ps)
        chain[k \in 1 .. n] == Least(IF k = n THEN <<1000, 1>> ELSE chain[k + 1], Corrected(ps, k))
    IN  [i \in DOMAIN ps |-> chain[Position(ps, i)]]

Below(corrected, alpha) == corrected[1] < alpha * corrected[2]

\* What the step-up procedure rejects of the tests with these p-values, as it
\* is defined: all up to the largest p-value that is below its own threshold.
Discoveries(p, alpha) ==
    {k \in DOMAIN p : \E m \in DOMAIN p :
        /\ p[k] <= p[m]
        /\ p[m] * Cardinality(DOMAIN p) < alpha * Cardinality({l \in DOMAIN p : p[l] <= p[m]})}
=============================================================================

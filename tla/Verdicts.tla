------------------------------ MODULE Verdicts ------------------------------
(***************************************************************************)
(* What a study says of a hypothesis: phase3b_pipeline.py of the data of   *)
(* phase 3A, phase3c_pipeline.py of a replication over more archives.      *)
(*                                                                         *)
(* A row joins the feature of a token at an assessment with what the       *)
(* token's move was some assessments later.  A tested target has the sign  *)
(* of its correlation (r), its p-value (p), the corrected one (q) and what *)
(* the reviews of it found.                                                *)
(***************************************************************************)
EXTENDS Statistics

CONSTANTS
    Alpha,          \* ALPHA, in thousandths
    MinSample,      \* MIN_SAMPLE, in independent tokens
    TokenOrder,     \* the tokens, in the order the journals name them
    PValues         \* the p-values a permutation test may come to

ASSUME VerdictConstants == Alpha \in 0 .. 1000 /\ MinSample \in Nat \ {0} /\ PValues \subseteq 1 .. 1000

Targets == <<"classified", "direction">>
TokensIn(rows) == {r.token : r \in rows}
RowsOf(rows, token) == {r \in rows : r.token = token}

\* The rows in the order of time, then feature, then target.
Ordered(rows, t) ==
    Sorted(rows, LAMBDA a, b :
        \/ a.asOf < b.asOf
        \/ a.asOf = b.asOf /\ a.x < b.x
        \/ a.asOf = b.asOf /\ a.x = b.x /\ a[t] < b[t])

Features(seq) == [i \in DOMAIN seq |-> seq[i].x]
Outcomes(seq, t) == [i \in DOMAIN seq |-> seq[i][t]]
Association(series, t) == Once(series, LAMBDA seq : spearman(Features(seq), Outcomes(seq, t)))
Agree(r, s) == Has(r) /\ Has(s) /\ r * s > 0

\* ------------------------------------------------------------ one target --
\* _robustness_one: the association stays when the extremes are pulled in.
Robust(seq, t, r) == Agree(r, spearman(winsorize(Features(seq)), winsorize(Outcomes(seq, t))))

\* _temporal_stability_one: both halves of the time have it, with one sign.
Stable(seq, t) ==
    LET mid == Len(seq) \div 2 IN
    Agree(Association(SubSeq(seq, 1, mid), t), Association(SubSeq(seq, mid + 1, Len(seq)), t))

\* _adversarial_one: the step of the rows may be what explains both series.
MayBeConfounded(seq) == MayExplain([i \in DOMAIN seq |-> seq[i].step])

\* _evaluate_target: what the test of a target may come to.
Evaluated(rows, t) ==
    LET reviewed == Cardinality(rows) >= MinSample
        Tests(seq, r) ==
            [r : {r}, p : block_permutation_test(Len(seq), r, PValues), q : {None},
             confounded : IF Has(r) /\ reviewed THEN MayBeConfounded(seq) ELSE {FALSE},
             robust : {Has(r) /\ reviewed /\ Robust(seq, t, r)},
             stable : {Has(r) /\ reviewed /\ Stable(seq, t)}]
    IN  Once(Ordered(rows, t), LAMBDA seq : Tests(seq, Association(seq, t)))

Tested(tests) == {t \in DOMAIN tests : Has(tests[t].r)}

Significant(tests, corrected) ==
    {t \in Tested(tests) :
        IF corrected THEN Has(tests[t].q) /\ Below(tests[t].q, Alpha) ELSE tests[t].p < Alpha}

\* ------------------------------------------------------------- phase 3b --
Surviving(tests, corrected) ==
    {t \in Significant(tests, corrected) : ~tests[t].confounded /\ tests[t].robust /\ tests[t].stable}

\* _classify_hypothesis
Judged(tokens, tests, corrected) ==
    LET surviving == Surviving(tests, corrected) IN
    IF tokens < MinSample \/ Tested(tests) = {} THEN [class |-> "INSUFFICIENT EVIDENCE", on |-> {}]
    ELSE IF Significant(tests, corrected) = {} THEN [class |-> "KILL", on |-> {}]
    ELSE IF surviving = {} THEN [class |-> "INSUFFICIENT EVIDENCE", on |-> {}]
    ELSE [class |-> IF surviving = Tested(tests) THEN "SUPPORTED" ELSE "PARTIALLY SUPPORTED", on |-> surviving]

\* overall_classification
Overall(classes) ==
    LET Some(c) == \E h \in DOMAIN classes : classes[h] = c IN
    IF Some("SUPPORTED") /\ \A h \in DOMAIN classes : classes[h] = "SUPPORTED" THEN "SUPPORTED"
    ELSE IF Some("SUPPORTED") \/ Some("PARTIALLY SUPPORTED") THEN "PARTIALLY SUPPORTED"
    ELSE IF Some("KILL") /\ ~Some("INSUFFICIENT EVIDENCE") THEN "KILL"
    ELSE "INSUFFICIENT EVIDENCE"

\* ------------------------------------------------------------- phase 3c --
\* copysign(1, r): an association of zero counts as positive.
SignOf(r) == IF r < 0 THEN -1 ELSE 1

InArchive(rows, a) == {r \in rows : r.archive = a}

\* per_archive_breakdown, for the archives with three tokens of their own.
SignsByArchive(rows, t) ==
    LET own == {a \in {r.archive : r \in rows} : Cardinality(TokensIn(InArchive(rows, a))) >= 3}
        Of(a) == Association(Ordered(InArchive(rows, a), t), t)
    IN  [a \in {b \in own : Has(Of(b))} |-> SignOf(Of(a))]

ArchivesAgree(rows, t) ==
    LET signs == SignsByArchive(rows, t) IN
    Cardinality(DOMAIN signs) >= 2 /\ Cardinality(Range(signs)) = 1

\* Where x stands in a sequence that names it.
Place(seq, x) == CHOOSE i \in DOMAIN seq : seq[i] = x

First(rows, token) == Min({r.asOf : r \in RowsOf(rows, token)})

\* walk_forward_oos: the tokens that came first against those that came later.
WalksForward(rows, t) ==
    LET tokens == Sorted(TokensIn(rows), LAMBDA a, b :
                    \/ First(rows, a) < First(rows, b)
                    \/ First(rows, a) = First(rows, b) /\ Place(TokenOrder, a) < Place(TokenOrder, b))
        early  == {tokens[i] : i \in 1 .. (Len(tokens) \div 2)}
        Half(own) == Association(Ordered({r \in rows : (r.token \in early) = own}, t), t)
    IN  Has(Half(TRUE)) /\ Has(Half(FALSE)) /\ SignOf(Half(TRUE)) = SignOf(Half(FALSE))

\* classify_hypothesis_3c: the first significant target decides.
Replicated(rows, tests) ==
    LET significant == {i \in DOMAIN Targets : Targets[i] \in Significant(tests, TRUE)}
        t == Targets[Min(significant)]
    IN  IF Cardinality(TokensIn(rows)) < MinSample THEN [class |-> "INSUFFICIENT EVIDENCE", on |-> {}]
        ELSE IF /\ significant # {}
                /\ ~tests[t].confounded /\ tests[t].robust /\ tests[t].stable
                /\ ArchivesAgree(rows, t)
                /\ WalksForward(rows, t)
        THEN [class |-> "REPLICATED EVIDENCE", on |-> {t}]
        ELSE [class |-> "FAILED REPLICATION", on |-> {}]

\* overall_classification_3c
Overall3c(classes) ==
    LET best == SelectSeq(<<"REPLICATED EVIDENCE", "FAILED REPLICATION">>,
                          LAMBDA c : \E h \in DOMAIN classes : classes[h] = c)
    IN  IF best = <<>> THEN "INSUFFICIENT EVIDENCE" ELSE best[1]
=============================================================================

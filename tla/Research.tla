------------------------------ MODULE Research ------------------------------
(***************************************************************************)
(* The studies over the archives (research/phase3a_verify.py and the data  *)
(* and pipeline modules of phases 3B and 3C). Phase 3A decides once which  *)
(* of its archives are evidence; phase 3B studies those, phase 3C those    *)
(* and every new archive that is complete and verifies when the study      *)
(* starts. Meanwhile archives are acquired, sealed, and may be damaged.    *)
(*                                                                         *)
(* What an archive will contain is chosen at the start and does not        *)
(* change; what of it has been sealed, and whether it still verifies,      *)
(* does. The journal of an archive is what the replay assesses (module     *)
(* Replay).                                                                *)
(***************************************************************************)
EXTENDS Verdicts

CONSTANTS
    Old,            \* the archives of phase 3A
    New,            \* the archives phase 3C acquires
    ArchiveOrder,   \* all of them, by name
    Contents,       \* world -> what each archive will contain
    HypothesisIds,  \* ELIGIBLE_IDS, in their order
    Feature,        \* the observation kind a hypothesis is about
    Horizon         \* HORIZON_STEPS

ASSUME ResearchConstants ==
    /\ Horizon \in Nat \ {0} /\ Old \intersect New = {}
    /\ Old \union New = {ArchiveOrder[i] : i \in DOMAIN ArchiveOrder}
    /\ ArchiveOrder \in Seq(Old \union New) /\ HypothesisIds \in Seq(DOMAIN Feature)
    /\ TokenOrder \in Seq(Range(TokenOrder))
    /\ \A w \in DOMAIN Contents, a \in Old \union New :
        /\ WellFormed(Contents[w][a].entries) /\ Contents[w][a].started \in Int
        /\ Contents[w][a].universe \subseteq Range(TokenOrder)
        /\ \A t \in DOMAIN Contents[w][a].journal :
            Contents[w][a].journal[t] \in Seq([asOf : Nat, class : STRING, direction : Int])

VARIABLES
    world,      \* which world this is
    disk,       \* archive -> [status, verified, whole]
    evidence,   \* PHASE3A_EVIDENCE.json: the included archives, or None
    study       \* [phase, step, archives, rows, results, overall]

vars == <<world, disk, evidence, study>>

Worlds == Contents

\* archive -> [entries, journal, universe, started]
content == Worlds[world]

Archives == Old \union New
Absent == [status |-> "absent", verified |-> FALSE, whole |-> TRUE]
Sealed == [status |-> "COMPLETE", verified |-> TRUE, whole |-> TRUE]
NoStudy == [phase |-> "none", step |-> "none", archives |-> {}, rows |-> <<>>, results |-> <<>>, overall |-> None]

Init ==
    /\ world \in DOMAIN Contents
    /\ disk = [a \in Archives |-> IF a \in Old THEN Sealed ELSE Absent]
    /\ evidence = None
    /\ study = NoStudy

\* -------------------------------------------------------------- archives --
\* A study holds everything in memory once it has read the archives, and the
\* next one looks at them again.
Idle == study.step \in {"none", "included"}

Acquire(a) ==
    /\ Idle /\ disk[a].status = "absent"
    /\ disk' = [disk EXCEPT ![a].status = "running"]
    /\ UNCHANGED <<world, evidence, study>>

\* A run ends as COMPLETE or not, and its seal verifies or not.
EndAcquisition(a) ==
    /\ Idle /\ disk[a].status = "running"
    /\ \E status \in {"COMPLETE", "INTERRUPTED"}, verified \in BOOLEAN :
        disk' = [disk EXCEPT ![a] = [@ EXCEPT !.status = status, !.verified = verified]]
    /\ UNCHANGED <<world, evidence, study>>

\* A file of a sealed archive changes: one the readers need, or another.
Damage(a) ==
    /\ Idle /\ disk[a].verified
    /\ \E whole \in BOOLEAN : disk' = [disk EXCEPT ![a] = [@ EXCEPT !.verified = FALSE, !.whole = whole]]
    /\ UNCHANGED <<world, evidence, study>>

\* phase3a_verify.collect: what verifies is included, the rest is listed.
Collect ==
    /\ study.step \in {"none", "done", "failed"}
    /\ evidence = None
    /\ evidence' = {a \in Old : disk[a].verified}
    /\ UNCHANGED <<world, disk, study>>

\* ------------------------------------------------------------------ rows --
\* _obs_feature_value: None when the feature is not known at the assessment.
FeatureValue(obs, kind, asOf) ==
    LET visible == Visible(obs, kind, asOf)
        state   == Assess(visible)
    IN  IF kind = "creator_state"
        THEN IF state.state = "KNOWN_AT_ASSESSMENT" THEN state.value.pct ELSE None
        ELSE IF \E o \in visible : o.state = "OBSERVED" THEN 1
        ELSE IF visible # {} THEN 0 ELSE None

\* build_rows for one archive, one token and one hypothesis.
JoinedRows(a, token, kind) ==
    LET steps == content[a].journal[token]
        obs   == IF token \in content[a].universe THEN ObservationsOf(content[a].entries, token) ELSE {}
        Value(i) == FeatureValue(obs, kind, steps[i].asOf)
    IN  {[archive |-> a, token |-> token, asOf |-> steps[i].asOf, step |-> i - 1, x |-> Value(i),
          classified |-> IF steps[i + Horizon].class = "UNCLASSIFIED" THEN 0 ELSE 1,
          direction |-> steps[i + Horizon].direction] :
            i \in {i \in 1 .. (Len(steps) - Horizon) : Has(Value(i))}}

BuildRows(archives, kind) ==
    UNION {UNION {JoinedRows(a, token, kind) : token \in DOMAIN content[a].journal} : a \in archives}

\* token_overlap_across_archives; a mutation compares neighbours only.
Overlaps_Neighbours(archives) ==
    \E i \in DOMAIN ArchiveOrder \ {1} :
        /\ {ArchiveOrder[i - 1], ArchiveOrder[i]} \subseteq archives
        /\ content[ArchiveOrder[i - 1]].universe \intersect content[ArchiveOrder[i]].universe # {}

Overlaps(archives) ==
    \E a, b \in archives : a # b /\ content[a].universe \intersect content[b].universe # {}

StartedBefore(a, b) ==
    \/ content[a].started < content[b].started
    \/ content[a].started = content[b].started /\ Place(ArchiveOrder, a) < Place(ArchiveOrder, b)

\* deduplicate_rows_across_archives: a token's rows come from the archive
\* that started first.
Deduplicated(rows) ==
    {r \in rows : \A other \in RowsOf(rows, r.token) : ~StartedBefore(other.archive, r.archive)}

\* --------------------------------------------------------------- studies --
Range3b == evidence
Range3c == evidence \union {a \in New : disk[a].verified /\ disk[a].status = "COMPLETE"}

\* eligible_archives
Include(phase) ==
    /\ study.step \in {"none", "done", "failed"}
    /\ evidence # None
    /\ study' = [NoStudy EXCEPT !.phase = phase, !.step = "included",
                    !.archives = IF phase = "3b" THEN Range3b ELSE Range3c]
    /\ UNCHANGED <<world, disk, evidence>>

\* The archives are normalized and replayed; one unreadable body, or one
\* record the contract refuses, ends the study.
Read ==
    LET rowsOf(h) == BuildRows(study.archives, Feature[h])
        contaminated == study.phase = "3c" /\ Overlaps(study.archives)
    IN  /\ study.step = "included"
        /\ study' =
            IF \A a \in study.archives : disk[a].whole /\ Normalizes(content[a].entries)
            THEN [study EXCEPT !.step = "evaluate",
                    !.rows = [i \in DOMAIN HypothesisIds |->
                                IF contaminated THEN Deduplicated(rowsOf(HypothesisIds[i]))
                                ELSE rowsOf(HypothesisIds[i])]]
            ELSE [study EXCEPT !.step = "failed"]
        /\ UNCHANGED <<world, disk, evidence>>

\* evaluate_hypothesis: nothing is tested of fewer than three tokens.
Results(rows) ==
    LET n == Cardinality(TokensIn(rows))
        Result(tests) == [tokens |-> n, tests |-> tests, verdict |-> Judged(n, tests, FALSE)]
    IN  IF n < 3 THEN {Result(<<>>)}
        ELSE {Result(tests) :
                tests \in [classified : Evaluated(rows, "classified"), direction : Evaluated(rows, "direction")]}

\* The hypotheses are tested one after the other.
Evaluate ==
    LET i == Len(study.results) + 1 IN
    /\ study.step = "evaluate" /\ i <= Len(HypothesisIds)
    /\ \E result \in Results(study.rows[i]) : study' = [study EXCEPT !.results = Append(@, result)]
    /\ UNCHANGED <<world, disk, evidence>>

\* ------------------------------------------------------------------- run --
\* Every hypothesis and target, in the order they are tested in.
Tests(results) == [k \in 1 .. 2 * Len(results) |-> <<(k + 1) \div 2, Targets[1 + ((k + 1) % 2)]>>]

PValue(results, test) ==
    LET tests == results[test[1]].tests IN IF test[2] \in DOMAIN tests THEN tests[test[2]].p ELSE None

\* A mutation corrects for the tests of the large samples only.
Family_LargeSamples(results) ==
    LET tests == Tests(results)
        Counts(test) == Has(PValue(results, test)) /\ results[test[1]].tokens >= MinSample
    IN  Chosen(tests, {k \in DOMAIN tests : Counts(tests[k])})

\* Every test that came to a p-value, however small its sample.
Family(results) ==
    LET tests == Tests(results) IN Chosen(tests, {k \in DOMAIN tests : Has(PValue(results, tests[k]))})

Raw(results, family) == [j \in DOMAIN family |-> PValue(results, family[j])] \o <<>>

\* The p-values are corrected together.
WithCorrected(results) ==
    LET Correct(family, corrected) ==
            [i \in DOMAIN results |->
                [results[i] EXCEPT !.tests = [t \in DOMAIN @ |->
                    [@[t] EXCEPT !.q = IF <<i, t>> \in Range(family) THEN corrected[Place(family, <<i, t>>)] ELSE None]]]]
    IN  Once(Family(results), LAMBDA family :
            Once(bh_fdr(Raw(results, family)) \o <<>>, LAMBDA corrected : Correct(family, corrected) \o <<>>))

\* Phase 3B judges again what has a sample.
Rejudged(result) ==
    IF result.tests # <<>> /\ result.tokens >= MinSample
    THEN Judged(result.tokens, result.tests, TRUE)
    ELSE result.verdict

\* Phase 3C judges every hypothesis, by its rows in each archive.
Final(i, result) ==
    IF study.phase = "3c" THEN Replicated(study.rows[i], result.tests) ELSE Rejudged(result)

Conclude ==
    LET Judge(corrected) == [i \in DOMAIN corrected |-> [corrected[i] EXCEPT !.verdict = Final(i, corrected[i])]]
        Classes(results) == [i \in DOMAIN results |-> results[i].verdict.class]
        Done(results) ==
            [study EXCEPT !.step = "done", !.results = results,
                !.overall = IF study.phase = "3c" THEN Overall3c(Classes(results)) ELSE Overall(Classes(results))]
    IN  /\ study.step = "evaluate" /\ Len(study.results) = Len(HypothesisIds)
        /\ study' = Once(Judge(WithCorrected(study.results)) \o <<>>, Done)
        /\ UNCHANGED <<world, disk, evidence>>

Next ==
    \/ \E a \in New : Acquire(a) \/ EndAcquisition(a)
    \/ \E a \in Archives : Damage(a)
    \/ Collect
    \/ \E phase \in {"3b", "3c"} : Include(phase)
    \/ Read \/ Evaluate \/ Conclude

Spec == Init /\ [][Next]_vars

-----------------------------------------------------------------------------
Concluded == study.step = "done"
Verdict(i) == study.results[i].verdict

\* The tests whose corrected p-value is below the level.
Rejected(results) ==
    {test \in (DOMAIN results) \X Range(Targets) :
        Has(PValue(results, test)) /\ Below(results[test[1]].tests[test[2]].q, Alpha)}

\* The correction finds what the step-up procedure finds among all the tests
\* of the study that came to a p-value, all of it and nothing else, and what a
\* verdict rests on was found: testing more, or testing on samples too small
\* to count, makes nothing significant, and ties lose nothing
\* (phase3b_pipeline.py run, phase3c_pipeline.py run, phase3b_stats.bh_fdr).
SurvivorsAreDiscoveries ==
    LET tests == (DOMAIN study.results) \X Range(Targets)
        found == Discoveries([test \in {k \in tests : Has(PValue(study.results, k))} |->
                                PValue(study.results, test)], Alpha)
    IN  Concluded =>
            /\ Rejected(study.results) = found
            /\ \A i \in DOMAIN study.results : \A t \in Verdict(i).on : <<i, t>> \in found

\* The tokens of an archive the rows were made of, and the sign it has alone;
\* an association of exactly zero counts as positive.
Own(rows, a) == TokensIn({r \in rows : r.archive = a})
SignIn(rows, a, t) == SignOf(Association(Ordered({r \in rows : r.archive = a}, t), t))

\* Replicated evidence was found more than once: every token counts for one
\* archive only, two archives with three tokens of their own have it with the
\* same sign, and together they reach the sample the contract asks for
\* (phase3c_data.py deduplicate_rows_across_archives, phase3c_pipeline.py
\* classify_hypothesis_3c).
ReplicationIsIndependent ==
    Concluded => \A i \in DOMAIN study.results :
        Verdict(i).class = "REPLICATED EVIDENCE" =>
            LET rows == study.rows[i] IN
            /\ Cardinality(TokensIn(rows)) >= MinSample
            /\ \A a, b \in study.archives : a # b => Own(rows, a) \intersect Own(rows, b) = {}
            /\ \E a, b \in study.archives, t \in Range(Targets) :
                /\ a # b
                /\ \A c \in {a, b} :
                    /\ Cardinality(Own(rows, c)) >= 3
                    /\ Has(Association(Ordered({r \in rows : r.archive = c}, t), t))
                /\ SignIn(rows, a, t) = SignIn(rows, b, t)

\* The answers about a token that had come by a time.
AnswersBy(a, token, kind, time) ==
    {o \in Normalized(content[a].entries) :
        /\ o.kind = kind /\ Came(content[a].entries[o.raw]) <= time
        /\ TokenOf(content[a].entries[o.raw], o) = token}

\* Every row a study tests rests on answers that had come by the time of its
\* assessment, and says of them what they say: the state it was told last, that
\* the fact was told, or that an answer came and none tells it.  What came
\* later, and what was about an earlier time but came later, is not in it
\* (phase3b_pipeline.py build_rows and _obs_feature_value).  Of a row that rests
\* on failed requests alone nothing is asked here.  The rows are looked at once,
\* before the first of them is tested.
EvidenceIsInTime == study.results = <<>> =>
    \A i \in DOMAIN study.rows : \A r \in study.rows[i] :
        LET answers == AnswersBy(r.archive, r.token, Feature[HypothesisIds[i]], r.asOf)
            told    == {o \in answers : o.state = "OBSERVED"}
        IN  /\ answers # {}
            /\ IF Feature[HypothesisIds[i]] = "creator_state"
               THEN \E o \in told : /\ o.value.pct = r.x
                                    /\ \A q \in told : q.ingested <= o.ingested
               ELSE IF told # {} THEN r.x = 1
               ELSE r.x # 1 /\ ((\E o \in answers : o.state = "NOT_OBSERVED") => r.x = 0)

\* A row counts a fact as absent only if an answer had come that does not tell
\* it: "0.0 only when the source was asked and answered without the fact
\* (NOT_OBSERVED present)", and a request that failed says nothing of the fact
\* (phase3b_pipeline.py _obs_feature_value, phase3b_contract.py).
NegativesWereAnswered == study.results = <<>> =>
    \A i \in DOMAIN study.rows : \A r \in study.rows[i] :
        Feature[HypothesisIds[i]] # "creator_state" /\ r.x = 0 =>
            \E o \in AnswersBy(r.archive, r.token, Feature[HypothesisIds[i]], r.asOf) :
                o.state = "NOT_OBSERVED"
=============================================================================

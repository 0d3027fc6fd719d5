--------------------------- MODULE ResearchProofs ---------------------------
(***************************************************************************)
(* What a study may rest on, for any archives, hypotheses, samples and     *)
(* levels: every row is evidence that had come by the time of its          *)
(* assessment, what a verdict rests on was found by the step-up procedure, *)
(* and what is called replicated in archives that share no token.          *)
(*                                                                         *)
(* There are two inductive invariants. RowsInv: from the moment they are   *)
(* read, the rows are those of the archives the study included, whatever   *)
(* happens to the archives.  VerdictsInv: while it tests, a study has      *)
(* results of the hypotheses so far; when it is done, what it says of      *)
(* each rests on them.                                                     *)
(***************************************************************************)
EXTENDS Research, FiniteSums, SequenceTheorems

-----------------------------------------------------------------------------
(* The first and the last of finitely many observations.                   *)

Timed(o) == o.ingested \in Int /\ o.observed \in Int /\ o.raw \in Int

LEMMA FirstObservation ==
    ASSUME NEW S, IsFiniteSet(S), S # {}, \A o \in S : Timed(o)
    PROVE  \E o \in S : \A q \in S : ~Earlier(q, o)
<1> DEFINE T == {s \in SUBSET S : s = {} \/ \E o \in s : \A q \in s : ~Earlier(q, o)}
<1>1. {} \in T
  OBVIOUS
<1>2. ASSUME NEW s \in SUBSET S, NEW x \in S \ s, s \in T PROVE s \union {x} \in T
  <2>1. CASE s = {}
    <3>1. ~Earlier(x, x)
      BY DEF Earlier, Timed
    <3> QED
      BY <2>1, <3>1
  <2>2. CASE s # {}
    <3>1. PICK o \in s : \A q \in s : ~Earlier(q, o)
      BY <1>2, <2>2
    <3>2. CASE Earlier(x, o)
      <4>1. ASSUME NEW q \in s \union {x} PROVE ~Earlier(q, x)
        <5>1. Timed(q) /\ Timed(x) /\ Timed(o)
          OBVIOUS
        <5> QED
          BY <3>1, <3>2, <5>1 DEF Earlier, Timed
      <4> QED
        BY <4>1
    <3>3. CASE ~Earlier(x, o)
      BY <3>1, <3>3
    <3> QED
      BY <3>2, <3>3
  <2> QED
    BY <2>1, <2>2
<1> HIDE DEF T
<1>3. S \in T
  BY <1>1, <1>2, SubsetInduction
<1> QED
  BY <1>3 DEF T

LEMMA LastObservation ==
    ASSUME NEW S, IsFiniteSet(S), S # {}, \A o \in S : Timed(o)
    PROVE  \E o \in S : \A q \in S : ~Earlier(o, q)
<1> DEFINE T == {s \in SUBSET S : s = {} \/ \E o \in s : \A q \in s : ~Earlier(o, q)}
<1>1. {} \in T
  OBVIOUS
<1>2. ASSUME NEW s \in SUBSET S, NEW x \in S \ s, s \in T PROVE s \union {x} \in T
  <2>1. CASE s = {}
    <3>1. ~Earlier(x, x)
      BY DEF Earlier, Timed
    <3> QED
      BY <2>1, <3>1
  <2>2. CASE s # {}
    <3>1. PICK o \in s : \A q \in s : ~Earlier(o, q)
      BY <1>2, <2>2
    <3>2. CASE Earlier(o, x)
      <4>1. ASSUME NEW q \in s \union {x} PROVE ~Earlier(x, q)
        <5>1. Timed(q) /\ Timed(x) /\ Timed(o)
          OBVIOUS
        <5> QED
          BY <3>1, <3>2, <5>1 DEF Earlier, Timed
      <4> QED
        BY <4>1
    <3>3. CASE ~Earlier(o, x)
      BY <3>1, <3>3
    <3> QED
      BY <3>2, <3>3
  <2> QED
    BY <2>1, <2>2
<1> HIDE DEF T
<1>3. S \in T
  BY <1>1, <1>2, SubsetInduction
<1> QED
  BY <1>3 DEF T

-----------------------------------------------------------------------------
(* What an observation says of the exchange it was derived from.           *)

Endpoints == {"pools", "token_info", "gdelt", "reddit", "signatures", "transaction"}

\* An empty observation of which the provider tells the time.
Told(o, source, observed) == [o EXCEPT !.source = source, !.observed = observed]

LEMMA ToldFields ==
    ASSUME NEW e, NEW n, NEW kind, NEW entity, NEW state, NEW source, NEW observed
    PROVE  LET o == Told(Empty(e, n, kind, entity, state), source, observed)
           IN  o.raw = n /\ o.ingested = Came(e) /\ o.kind = kind
BY DEF Told, Empty, Observation

\* It carries the number of the exchange and the moment of its answer; and of
\* the state of a creator, that moment is all that tells two of them apart.
LEMMA ParsedFields ==
    ASSUME NEW e, e.endpoint \in Endpoints, NEW n, NEW o \in Parsed(e, n)
    PROVE  /\ o.raw = n /\ o.ingested = Came(e)
           /\ o.kind = "creator_state" =>
                /\ e.endpoint = "token_info" /\ o.observed = o.ingested
                /\ o.signature = e.signature /\ o.item = None
<1>1. CASE e.endpoint = "pools"
  <2>1. o \in PoolCreated(e, n)
    BY <1>1 DEF Parsed
  <2> QED
    BY <2>1 DEF PoolCreated, Fact, Observation
<1>2. CASE e.endpoint = "token_info"
  <2>1. o \in TokenState(e, n)
    BY <1>2 DEF Parsed
  <2>2. \/ o = Creator(e, n, e.answer) \/ o = Holders(e, n, e.answer.holders)
        \/ o = Empty(e, n, "creator_state", e.token, "ERROR") \/ o = Empty(e, n, "holder_state", e.token, "ERROR")
    BY <2>1 DEF TokenState
  <2>3. CASE o = Creator(e, n, e.answer)
    BY <1>2, <2>3 DEF Creator, Empty, Observation
  <2>4. CASE o = Holders(e, n, e.answer.holders)
    BY <1>2, <2>4 DEF Holders, Empty, Observation
  <2> QED
    BY <1>2, <2>2, <2>3, <2>4 DEF Empty, Observation
<1>3. CASE e.endpoint = "gdelt"
  <2>1. o \in Items(e, n, "news")
    BY <1>3 DEF Parsed
  <2> QED
    BY <2>1 DEF Items, Empty, Fact, Observation
<1>4. CASE e.endpoint = "reddit"
  <2>1. o \in Items(e, n, "social")
    BY <1>4 DEF Parsed
  <2> QED
    BY <2>1 DEF Items, Empty, Fact, Observation
<1>5. CASE e.endpoint = "signatures"
  <2>1. o \in Signatures(e, n)
    BY <1>5 DEF Parsed
  <2> QED
    BY <2>1 DEF Signatures, Empty, Observation
<1>6. CASE e.endpoint = "transaction"
  <2>1. o \in Liquidity(e, n) \/ o \in Funding(e, n)
    BY <1>6 DEF Parsed
  <2>2. CASE o \in Liquidity(e, n)
    <3>1. \/ o = Empty(e, n, "liquidity_event", e.wallet, "ERROR")
          \/ \E source, part : o = Fact(e, n, "liquidity_event", e.wallet, source, None, e.wallet, part)
          \/ \E source : o = Told(Empty(e, n, "liquidity_event", e.wallet, "NOT_OBSERVED"), source, OrElse(source, Came(e)))
      BY <2>2, Zenon DEF Liquidity, Told
    <3> QED
      BY <3>1, ToldFields DEF Empty, Fact, Observation
  <2>3. CASE o \in Funding(e, n)
    <3>1. \/ o = Empty(e, n, "funding_transfer", e.wallet, "ERROR")
          \/ \E source, item, part : o = Fact(e, n, "funding_transfer", e.wallet, source, None, item, part)
          \/ \E source : o = Told(Empty(e, n, "funding_transfer", e.wallet, "NOT_OBSERVED"), source, OrElse(source, Came(e)))
      BY <2>3, Zenon DEF Funding, Told
    <3> QED
      BY <3>1, ToldFields DEF Empty, Fact, Observation
  <2> QED
    BY <2>1, <2>2, <2>3
<1> QED
  BY <1>1, <1>2, <1>3, <1>4, <1>5, <1>6 DEF Endpoints

-----------------------------------------------------------------------------
(* Rows rest on what had come.                                             *)

\* The observations of a token, before copies are left out.
Told1(entries, token) ==
    {o \in Normalized(entries) : TokenOf(entries[o.raw], o) = token}

LEMMA AllOf ==
    ASSUME NEW entries, WellFormed(entries), Normalizes(entries), NEW token
    PROVE  /\ ObservationsOf(entries, token) = Deduped(Told1(entries, token))
           /\ IsFiniteSet(Told1(entries, token))
           /\ \A o \in Told1(entries, token) :
                /\ Timed(o) /\ o \in Normalized(entries)
                /\ o.ingested = Came(entries[o.raw])
                /\ o.kind = "creator_state" =>
                    o.observed = o.ingested /\ o.signature = None /\ o.item = None
<1> DEFINE own(n) == {o \in Parsed(entries[n], n) : TokenOf(entries[n], o) = token}
           all == UNION {own(n) : n \in DOMAIN entries}
<1>1. ASSUME NEW n \in DOMAIN entries, NEW o \in Parsed(entries[n], n)
      PROVE  /\ o.raw = n /\ o.ingested = Came(entries[n]) /\ o \in Normalized(entries)
             /\ o.kind = "creator_state" =>
                    o.observed = o.ingested /\ o.signature = None /\ o.item = None
  <2>1. entries[n].endpoint \in Endpoints
    BY DEF WellFormed, Endpoints
  <2>2. PICK e : e = entries[n]
    OBVIOUS
  <2>3. /\ o.raw = n /\ o.ingested = Came(e)
        /\ o.kind = "creator_state" =>
             e.endpoint = "token_info" /\ o.observed = o.ingested /\ o.signature = e.signature /\ o.item = None
    BY <2>1, <2>2, ParsedFields
  <2>4. e.endpoint = "token_info" => e.signature = None
    BY <2>2 DEF WellFormed, Has
  <2>5. o \in Normalized(entries)
    BY DEF Normalized
  <2> QED
    BY <2>2, <2>3, <2>4, <2>5
<1>2. all = Told1(entries, token)
  <2>1. ASSUME NEW o \in all PROVE o \in Told1(entries, token)
    BY <1>1 DEF Told1
  <2>2. ASSUME NEW o \in Told1(entries, token) PROVE o \in all
    <3>1. PICK n \in DOMAIN entries : o \in Parsed(entries[n], n)
      BY DEF Told1, Normalized
    <3> QED
      BY <1>1, <3>1 DEF Told1
  <2> QED
    BY <2>1, <2>2
<1>3. ObservationsOf(entries, token) = Deduped(all)
  BY DEF ObservationsOf
<1>4. IsFiniteSet(Told1(entries, token))
  <2>1. Told1(entries, token) \subseteq Normalized(entries)
    BY DEF Told1
  <2> QED
    BY <2>1, FS_Subset DEF WellFormed
<1>5. ASSUME NEW o \in Told1(entries, token)
      PROVE  /\ Timed(o) /\ o \in Normalized(entries)
             /\ o.ingested = Came(entries[o.raw])
             /\ o.kind = "creator_state" =>
                    o.observed = o.ingested /\ o.signature = None /\ o.item = None
  <2>1. o \in Normalized(entries)
    BY DEF Told1
  <2>2. PICK n \in DOMAIN entries : o \in Parsed(entries[n], n)
    BY <2>1 DEF Normalized
  <2>3. Valid(o)
    BY <2>1 DEF Normalizes
  <2>4. o.raw \in Int /\ o.ingested \in Int /\ o.observed \in Int
    BY <1>1, <2>2, <2>3 DEF Valid, WellFormed
  <2> QED
    BY <1>1, <2>1, <2>2, <2>4 DEF Timed
<1> HIDE DEF all
<1> QED
  BY <1>2, <1>3, <1>4, <1>5

\* Of what was told by a time, the copy that is kept had come by then, too.
LEMMA CopyKept ==
    ASSUME NEW all, IsFiniteSet(all), \A o \in all : Timed(o), NEW o \in all
    PROVE  \E f \in Deduped(all) : f \in all /\ Uid(f) = Uid(o) /\ f.ingested <= o.ingested
<1> DEFINE S == {q \in all : Uid(q) = Uid(o)}
<1>1. IsFiniteSet(S) /\ S # {} /\ \A q \in S : Timed(q)
  <2>1. S \subseteq all /\ o \in S
    OBVIOUS
  <2> QED
    BY <2>1, FS_Subset
<1> HIDE DEF S
<1>2. PICK f \in S : \A q \in S : ~Earlier(q, f)
  BY <1>1, FirstObservation
<1>3. f \in all /\ Uid(f) = Uid(o) /\ ~Earlier(o, f) /\ \A q \in all : Uid(q) = Uid(f) => ~Earlier(q, f)
  BY <1>2 DEF S
<1>4. f.ingested <= o.ingested
  <2>1. Timed(f) /\ Timed(o)
    BY <1>3
  <2> QED
    BY <1>3, <2>1 DEF Earlier, Timed
<1> QED
  BY <1>3, <1>4 DEF Deduped

LEMMA SameIdentity ==
    ASSUME NEW o, NEW q, Uid(o) = Uid(q)
    PROVE  /\ o.kind = q.kind /\ o.state = q.state
           /\ ~Has(o.signature) /\ ~Has(o.item) /\ ~Has(q.signature) /\ ~Has(q.item) => o.observed = q.observed
BY DEF Uid

\* What a feature is at an assessment: read from what had come, and the latest.
LEMMA ValueInTime ==
    ASSUME NEW entries, WellFormed(entries), Normalizes(entries), NEW token, NEW kind, NEW asOf \in Int,
           NEW x, x = FeatureValue(ObservationsOf(entries, token), kind, asOf), Has(x),
           NEW answers, answers = {o \in Told1(entries, token) : o.kind = kind /\ o.ingested <= asOf},
           NEW told, told = {o \in answers : o.state = "OBSERVED"}
    PROVE  /\ answers # {}
           /\ IF kind = "creator_state"
              THEN \E o \in told : o.value.pct = x /\ \A q \in told : q.ingested <= o.ingested
              ELSE x = IF told = {} THEN 0 ELSE 1
<1> DEFINE all == Told1(entries, token)
           obs == ObservationsOf(entries, token)
           visible == Visible(obs, kind, asOf)
           observed == {o \in visible : o.state = "OBSERVED"}
<1>1. /\ obs = Deduped(all) /\ IsFiniteSet(all)
      /\ \A o \in all :
            /\ Timed(o)
            /\ o.kind = "creator_state" => o.observed = o.ingested /\ o.signature = None /\ o.item = None
  BY AllOf
<1> HIDE DEF all, obs
<1>2. \A o \in visible : o \in answers /\ o \in all
  BY <1>1 DEF Visible, Deduped, all
<1>3. ASSUME NEW o \in told
      PROVE  \E f \in observed : /\ f.ingested <= o.ingested
                                 /\ kind = "creator_state" => f.ingested = o.ingested
  <2>1. o \in all /\ o.kind = kind /\ o.ingested <= asOf /\ o.state = "OBSERVED"
    BY DEF all
  <2>2. PICK f \in obs : f \in all /\ Uid(f) = Uid(o) /\ f.ingested <= o.ingested
    BY <1>1, <2>1, CopyKept
  <2>3. f.kind = kind /\ f.state = "OBSERVED"
    BY <2>1, <2>2, SameIdentity
  <2>4. Timed(f) /\ Timed(o)
    BY <1>1, <2>1, <2>2
  <2>5. f.ingested <= asOf
    BY <2>1, <2>2, <2>4 DEF Timed
  <2>6. kind = "creator_state" => f.ingested = o.ingested
    BY <1>1, <2>1, <2>2, <2>3, SameIdentity DEF Has
  <2> QED
    BY <2>2, <2>3, <2>5, <2>6 DEF Visible
<1>4. observed \subseteq told
  BY <1>2
<1>5. told = {} <=> observed = {}
  BY <1>3, <1>4
<1>6. CASE kind = "creator_state"
  <2> DEFINE state == Assess(visible)
             latest == CHOOSE o \in observed : \A q \in observed : ~Earlier(o, q)
  <2>1. x = IF state.state = "KNOWN_AT_ASSESSMENT" THEN state.value.pct ELSE None
    BY <1>6 DEF FeatureValue, obs
  <2>2. state = IF observed # {} THEN [state |-> "KNOWN_AT_ASSESSMENT", value |-> latest.value]
                ELSE IF \E o \in visible : o.state \in {"NOT_OBSERVED", "UNAVAILABLE"}
                THEN [state |-> "UNAVAILABLE_FROM_PROVIDER", value |-> None]
                ELSE [state |-> "UNKNOWN_AT_ASSESSMENT", value |-> None]
    BY DEF Assess
  <2>3. observed # {}
    <3> HIDE DEF observed, latest, state, visible
    <3> QED
      BY <2>1, <2>2 DEF Has
  <2>4. x = latest.value.pct
    <3> HIDE DEF observed, latest, state, visible
    <3> QED
      BY <2>1, <2>2, <2>3
  <2>5. IsFiniteSet(observed) /\ \A o \in observed : Timed(o)
    <3>1. observed \subseteq all
      BY <1>2
    <3> HIDE DEF observed
    <3> QED
      BY <1>1, <3>1, FS_Subset
  <2>6. latest \in observed /\ \A q \in observed : ~Earlier(latest, q)
    <3>1. \E o \in observed : \A q \in observed : ~Earlier(o, q)
      <4> HIDE DEF observed
      <4> QED
        BY <2>3, <2>5, LastObservation
    <3> QED
      BY <3>1
  <2>7. ASSUME NEW q \in told PROVE q.ingested <= latest.ingested
    <3>1. PICK f \in observed : f.ingested = q.ingested
      BY <1>3, <1>6
    <3>2. Timed(f) /\ Timed(latest) /\ ~Earlier(latest, f)
      BY <2>5, <2>6
    <3> QED
      BY <3>1, <3>2 DEF Earlier, Timed
  <2>8. latest \in told /\ latest \in answers
    BY <1>4, <2>6
  <2> HIDE DEF latest
  <2> QED
    BY <1>6, <2>4, <2>7, <2>8
<1>7. CASE kind # "creator_state"
  <2>1. x = IF observed # {} THEN 1 ELSE IF visible # {} THEN 0 ELSE None
    BY <1>7 DEF FeatureValue, obs
  <2>2. visible # {}
    BY <2>1 DEF Has
  <2> QED
    BY <1>2, <1>5, <1>7, <2>1, <2>2
<1> QED
  BY <1>6, <1>7

-----------------------------------------------------------------------------
(* What the rows of a study are.                                           *)

\* A row says what the feature of its token was at its assessment, by the
\* observations of its archive.
RowRead(r, kind) ==
    /\ r.archive \in Archives /\ Normalizes(content[r.archive].entries)
    /\ r.token \in content[r.archive].universe
    /\ r.asOf \in Int /\ Has(r.x)
    /\ r.x = FeatureValue(ObservationsOf(content[r.archive].entries, r.token), kind, r.asOf)

\* No token has rows of two archives.
Apart(rows) == \A r, q \in rows : r.token = q.token => r.archive = q.archive

StudyFields == {"phase", "step", "archives", "rows", "results", "overall"}

RowsInv ==
    /\ world \in DOMAIN Contents
    /\ evidence # None => evidence \subseteq Old
    /\ DOMAIN study = StudyFields
    /\ study.archives \subseteq Archives
    /\ study.step = "evaluate" => DOMAIN study.rows = DOMAIN HypothesisIds
    /\ \A i \in DOMAIN study.rows :
        /\ \A r \in study.rows[i] : r.archive \in study.archives /\ RowRead(r, Feature[HypothesisIds[i]])
        /\ study.phase = "3c" => Apart(study.rows[i])

LEMMA JoinedRowRead ==
    ASSUME world \in DOMAIN Contents, NEW a \in Archives, Normalizes(content[a].entries),
           NEW token \in DOMAIN content[a].journal, NEW kind, NEW r \in JoinedRows(a, token, kind)
    PROVE  r.archive = a /\ r.token = token /\ RowRead(r, kind)
<1> DEFINE steps == content[a].journal[token]
           obs == IF token \in content[a].universe THEN ObservationsOf(content[a].entries, token) ELSE {}
           Value(i) == FeatureValue(obs, kind, steps[i].asOf)
<1>1. PICK i \in 1 .. (Len(steps) - Horizon) :
        /\ Has(Value(i)) /\ r.archive = a /\ r.token = token
        /\ r.asOf = steps[i].asOf /\ r.x = Value(i)
  BY DEF JoinedRows
<1>2. token \in content[a].universe
  <2>1. SUFFICES ASSUME token \notin content[a].universe PROVE FALSE
    OBVIOUS
  <2>2. obs = {}
    BY <2>1
  <2>3. Value(i) = None
    BY <2>2 DEF FeatureValue, Visible, Assess
  <2> QED
    BY <1>1, <2>3 DEF Has
<1>3. steps[i].asOf \in Int
  <2> DEFINE Step == [asOf : Nat, class : STRING, direction : Int]
  <2>1. steps \in Seq(Step)
    BY ResearchConstants DEF content, Worlds, Archives
  <2>2. i \in 1 .. Len(steps)
    BY <1>1, <2>1, ResearchConstants
  <2>3. \A step \in Step : step.asOf \in Int
    OBVIOUS
  <2> HIDE DEF steps, Step
  <2>4. steps[i] \in Step
    BY <2>1, <2>2
  <2> QED
    BY <2>3, <2>4
<1> QED
  BY <1>1, <1>2, <1>3 DEF RowRead

LEMMA OneStartedFirst ==
    ASSUME world \in DOMAIN Contents, NEW a \in Archives, NEW b \in Archives, a # b
    PROVE  StartedBefore(a, b) \/ StartedBefore(b, a)
<1>1. content[a].started \in Int /\ content[b].started \in Int
  BY ResearchConstants DEF content, Worlds, Archives
<1>2. ASSUME NEW c \in Archives PROVE Place(ArchiveOrder, c) \in Nat /\ ArchiveOrder[Place(ArchiveOrder, c)] = c
  <2>1. PICK i \in DOMAIN ArchiveOrder : ArchiveOrder[i] = c
    BY ResearchConstants DEF Archives
  <2>2. DOMAIN ArchiveOrder \subseteq Nat
    BY ResearchConstants
  <2> QED
    BY <2>1, <2>2 DEF Place
<1>3. Place(ArchiveOrder, a) # Place(ArchiveOrder, b)
  BY <1>2
<1> QED
  BY <1>1, <1>2, <1>3 DEF StartedBefore

-----------------------------------------------------------------------------
(* Counting places.                                                        *)

LEMMA FewerIn ==
    ASSUME NEW B, IsFiniteSet(B), NEW A \in SUBSET B, NEW x \in B, x \notin A
    PROVE  Cardinality(A) \in Nat /\ Cardinality(B) \in Nat /\ Cardinality(A) < Cardinality(B)
<1>1. IsFiniteSet(B \ {x}) /\ Cardinality(B \ {x}) = Cardinality(B) - 1
  BY FS_RemoveElement
<1>2. A \subseteq B \ {x}
  OBVIOUS
<1>3. IsFiniteSet(A) /\ Cardinality(A) <= Cardinality(B \ {x})
  BY <1>1, <1>2, FS_Subset
<1>4. Cardinality(A) \in Nat /\ Cardinality(B) \in Nat
  BY <1>3, FS_CardinalityType
<1> QED
  BY <1>1, <1>3, <1>4

\* Who gives as many different numbers as there are, gives each.
LEMMA EveryPlace ==
    ASSUME NEW S, IsFiniteSet(S), NEW pos \in [S -> 1 .. Cardinality(S)],
           \A x, y \in S : pos[x] = pos[y] => x = y
    PROVE  \A k \in 1 .. Cardinality(S) : \E x \in S : pos[x] = k
<1> DEFINE n == Cardinality(S)
<1>1. n \in Nat
  BY FS_CardinalityType
<1>2. SUFFICES ASSUME NEW k \in 1 .. n, \A x \in S : pos[x] # k PROVE FALSE
  OBVIOUS
<1>3. IsFiniteSet(1 .. n) /\ Cardinality(1 .. n) = n
  BY <1>1, FS_Interval
<1>4. IsFiniteSet((1 .. n) \ {k}) /\ Cardinality((1 .. n) \ {k}) = n - 1
  BY <1>2, <1>3, FS_RemoveElement
<1>5. pos \in [S -> (1 .. n) \ {k}]
  BY <1>2
<1>6. n - 1 < n
  BY <1>1
<1>7. \E x, y \in S : x # y /\ pos[x] = pos[y]
  <2> HIDE DEF n
  <2>1. Cardinality((1 .. n) \ {k}) < Cardinality(S)
    BY <1>4, <1>6 DEF n
  <2> QED
    BY <1>4, <1>5, <2>1, FS_PigeonHole
<1> QED
  BY <1>7

\* What seq has at the places a table gives for 1 to m.
Listed(seq, at, m) == [k \in 1 .. m |-> seq[at[k]]]

ListsOnce(chosen, seq, places) ==
    \E at \in [1 .. Cardinality(places) -> places] :
        /\ chosen = Listed(seq, at, Cardinality(places))
        /\ \A j, k \in 1 .. Cardinality(places) : at[j] = at[k] => j = k
        /\ \A i \in places : \E k \in 1 .. Cardinality(places) : at[k] = i

\* A sequence of some places of a sequence has each of them once.
LEMMA ChosenIs ==
    ASSUME NEW n \in Nat, NEW seq, NEW places \in SUBSET (1 .. n)
    PROVE  ListsOnce(Chosen(seq, places), seq, places)
<1> DEFINE m == Cardinality(places)
           upTo(i) == {j \in places : j <= i}
           pos == [i \in places |-> Cardinality(upTo(i))]
           at == [k \in 1 .. m |-> CHOOSE i \in places : Cardinality(upTo(i)) = k]
<1>1. IsFiniteSet(places) /\ m \in Nat
  <2>1. IsFiniteSet(1 .. n)
    BY FS_Interval
  <2> QED
    BY <2>1, FS_Subset, FS_CardinalityType
<1>2. ASSUME NEW i \in places PROVE Cardinality(upTo(i)) \in 1 .. m
  <2>1. IsFiniteSet(upTo(i)) /\ Cardinality(upTo(i)) <= m /\ Cardinality(upTo(i)) \in Nat
    <3>1. upTo(i) \subseteq places
      OBVIOUS
    <3> QED
      BY <1>1, <3>1, FS_Subset, FS_CardinalityType
  <2>2. upTo(i) # {}
    <3>1. i \in upTo(i)
      OBVIOUS
    <3> QED
      BY <3>1
  <2>3. Cardinality(upTo(i)) # 0
    BY <2>1, <2>2, FS_EmptySet
  <2> HIDE DEF upTo, m
  <2> QED
    BY <1>1, <2>1, <2>3
<1>3. ASSUME NEW i \in places, NEW j \in places, i < j PROVE Cardinality(upTo(i)) < Cardinality(upTo(j))
  <2>1. upTo(i) \in SUBSET upTo(j) /\ j \in upTo(j) /\ j \notin upTo(i)
    <3>1. i \in Int /\ j \in Int /\ \A k \in places : k \in Int
      OBVIOUS
    <3>2. \A k \in places : k <= i => k <= j
      BY <1>3, <3>1
    <3>3. j <= j /\ ~(j <= i)
      BY <1>3, <3>1
    <3> QED
      BY <3>2, <3>3
  <2>2. IsFiniteSet(upTo(j))
    <3>1. upTo(j) \subseteq places
      OBVIOUS
    <3> QED
      BY <1>1, <3>1, FS_Subset
  <2> HIDE DEF upTo
  <2> QED
    BY <2>1, <2>2, FewerIn
<1>4. pos \in [places -> 1 .. m]
  BY <1>2
<1>5. ASSUME NEW i \in places, NEW j \in places, pos[i] = pos[j] PROVE i = j
  <2>1. pos[i] = Cardinality(upTo(i)) /\ pos[j] = Cardinality(upTo(j))
    OBVIOUS
  <2>2. pos[i] \in Int /\ pos[j] \in Int
    BY <1>1, <1>4
  <2>3. i \in Int /\ j \in Int
    OBVIOUS
  <2> HIDE DEF upTo, pos
  <2>4. ~(i < j)
    <3>1. SUFFICES ASSUME i < j PROVE FALSE
      OBVIOUS
    <3>2. Cardinality(upTo(i)) < Cardinality(upTo(j))
      BY <1>3, <3>1
    <3>3. pos[i] < pos[j] /\ pos[i] = pos[j]
      BY <1>5, <2>1, <3>2
    <3> QED
      BY <2>2, <3>3
  <2>5. ~(j < i)
    <3>1. SUFFICES ASSUME j < i PROVE FALSE
      OBVIOUS
    <3>2. Cardinality(upTo(j)) < Cardinality(upTo(i))
      BY <1>3, <3>1
    <3>3. pos[j] < pos[i] /\ pos[j] = pos[i]
      BY <1>5, <2>1, <3>2
    <3> QED
      BY <2>2, <3>3
  <2> QED
    BY <2>3, <2>4, <2>5
<1>6. \A k \in 1 .. m : \E i \in places : pos[i] = k
  <2> HIDE DEF pos
  <2> QED
    BY <1>1, <1>4, <1>5, EveryPlace
<1>7. ASSUME NEW k \in 1 .. m PROVE at[k] \in places /\ pos[at[k]] = k
  <2>1. \E i \in places : Cardinality(upTo(i)) = k
    BY <1>6
  <2>2. at[k] \in places /\ Cardinality(upTo(at[k])) = k
    BY <2>1
  <2> HIDE DEF at, upTo
  <2> QED
    BY <2>2
<1>8. Chosen(seq, places) = [k \in 1 .. m |-> seq[at[k]]]
  <2> DEFINE c == [k \in 1 .. m |-> seq[at[k]]]
             C == {seq[i] : i \in places}
  <2>1. Chosen(seq, places) = c \o <<>>
    BY DEF Chosen
  <2>2. c \in Seq(C)
    <3>1. \A k \in 1 .. m : seq[at[k]] \in C
      BY <1>7
    <3> HIDE DEF C, at
    <3> QED
      BY <1>1, <3>1
  <2> HIDE DEF c, C
  <2>3. c \o <<>> = c
    BY <2>2, ConcatEmptySeq
  <2> QED
    BY <2>1, <2>3 DEF c
<1>9. at \in [1 .. m -> places]
  BY <1>7
<1> HIDE DEF at
<1>10. ASSUME NEW j \in 1 .. m, NEW k \in 1 .. m, at[j] = at[k] PROVE j = k
  BY <1>7, <1>10
<1>11. ASSUME NEW i \in places PROVE \E k \in 1 .. m : at[k] = i
  <2>1. pos[i] \in 1 .. m
    BY <1>4
  <2>2. pos[at[pos[i]]] = pos[i] /\ at[pos[i]] \in places
    BY <1>7, <2>1
  <2> HIDE DEF pos
  <2>3. at[pos[i]] = i
    BY <1>5, <2>2
  <2> QED
    BY <2>1, <2>3
<1> HIDE DEF m
<1>12. /\ Chosen(seq, places) = Listed(seq, at, m)
       /\ \A j, k \in 1 .. m : at[j] = at[k] => j = k
       /\ \A i \in places : \E k \in 1 .. m : at[k] = i
  BY <1>8, <1>10, <1>11 DEF Listed
<1> QED
  BY <1>9, <1>12 DEF m, ListsOnce

-----------------------------------------------------------------------------
(* The step-up procedure.                                                  *)

LEMMA PositionsOrder ==
    ASSUME NEW ps \in Seq(Int)
    PROVE  /\ \A i \in DOMAIN ps : Position(ps, i) \in 1 .. Len(ps)
           /\ \A i, j \in DOMAIN ps : Position(ps, i) = Position(ps, j) => i = j
           /\ \A i, j \in DOMAIN ps : Position(ps, i) <= Position(ps, j) => ps[i] <= ps[j]
<1> DEFINE n == Len(ps)
           upTo(i) == {j \in DOMAIN ps : ps[j] < ps[i] \/ (ps[j] = ps[i] /\ j <= i)}
<1>1. n \in Nat /\ DOMAIN ps = 1 .. n /\ \A i \in DOMAIN ps : ps[i] \in Int /\ i \in Int
  OBVIOUS
<1>2. IsFiniteSet(DOMAIN ps) /\ Cardinality(DOMAIN ps) = n
  <2> HIDE DEF n
  <2>1. IsFiniteSet(1 .. n) /\ Cardinality(1 .. n) = n
    BY <1>1, FS_Interval
  <2> QED
    BY <1>1, <2>1
<1>3. \A i \in DOMAIN ps : Position(ps, i) = Cardinality(upTo(i))
  BY DEF Position
<1> HIDE DEF n
<1>4. ASSUME NEW i \in DOMAIN ps PROVE Position(ps, i) \in 1 .. n
  <2>1. i \in upTo(i) /\ upTo(i) \subseteq DOMAIN ps
    BY <1>1
  <2> HIDE DEF upTo
  <2>2. IsFiniteSet(upTo(i)) /\ Cardinality(upTo(i)) <= n /\ Cardinality(upTo(i)) \in Nat
    BY <1>2, <2>1, FS_Subset, FS_CardinalityType
  <2>3. Cardinality(upTo(i)) # 0
    BY <2>1, <2>2, FS_EmptySet
  <2> QED
    BY <1>1, <1>3, <2>2, <2>3
<1>5. ASSUME NEW i \in DOMAIN ps, NEW j \in DOMAIN ps, ps[i] < ps[j] \/ (ps[i] = ps[j] /\ i < j)
      PROVE  Position(ps, i) < Position(ps, j)
  <2>1. j \in upTo(j) /\ j \notin upTo(i)
    BY <1>1, <1>5
  <2>2. ASSUME NEW k \in upTo(i) PROVE k \in upTo(j)
    BY <1>1, <1>5
  <2>3. upTo(j) \subseteq DOMAIN ps
    OBVIOUS
  <2> HIDE DEF upTo
  <2>4. upTo(i) \in SUBSET upTo(j)
    BY <2>2
  <2>5. IsFiniteSet(upTo(j))
    BY <1>2, <2>3, FS_Subset
  <2>6. Cardinality(upTo(i)) < Cardinality(upTo(j))
    BY <2>1, <2>4, <2>5, FewerIn
  <2> QED
    BY <1>3, <2>6
<1>6. ASSUME NEW i \in DOMAIN ps, NEW j \in DOMAIN ps, Position(ps, i) <= Position(ps, j)
      PROVE  ps[i] <= ps[j] /\ (Position(ps, i) = Position(ps, j) => i = j)
  <2>1. Position(ps, i) \in Int /\ Position(ps, j) \in Int
    BY <1>1, <1>4
  <2>2. ~(ps[j] < ps[i] \/ (ps[j] = ps[i] /\ j < i))
    <3>1. ~(Position(ps, j) < Position(ps, i))
      BY <1>6, <2>1
    <3> QED
      BY <1>5, <3>1
  <2>3. Position(ps, i) = Position(ps, j) => ~(ps[i] < ps[j] \/ (ps[i] = ps[j] /\ i < j))
    <3>1. Position(ps, i) = Position(ps, j) => ~(Position(ps, i) < Position(ps, j))
      BY <2>1
    <3> QED
      BY <1>5, <3>1
  <2>4. ps[i] \in Int /\ ps[j] \in Int /\ i \in Int /\ j \in Int
    BY <1>1
  <2> QED
    BY <2>2, <2>3, <2>4
<1>7. \A i, j \in DOMAIN ps : Position(ps, i) = Position(ps, j) => i = j
  BY <1>1, <1>4, <1>6
<1> QED
  BY <1>4, <1>6, <1>7 DEF n

LEMMA AtPosition ==
    ASSUME NEW ps \in Seq(Int), NEW k \in 1 .. Len(ps)
    PROVE  \E i \in DOMAIN ps : Position(ps, i) = k /\ At(ps, k) = ps[i]
<1> DEFINE n == Len(ps)
           pos == [i \in DOMAIN ps |-> Position(ps, i)]
<1>1. n \in Nat /\ DOMAIN ps = 1 .. n
  OBVIOUS
<1>2. IsFiniteSet(DOMAIN ps) /\ Cardinality(DOMAIN ps) = n
  <2> HIDE DEF n
  <2>1. IsFiniteSet(1 .. n) /\ Cardinality(1 .. n) = n
    BY <1>1, FS_Interval
  <2> QED
    BY <1>1, <2>1
<1>3. pos \in [DOMAIN ps -> 1 .. Cardinality(DOMAIN ps)] /\ \A i, j \in DOMAIN ps : pos[i] = pos[j] => i = j
  BY <1>2, PositionsOrder
<1>4. k \in 1 .. Cardinality(DOMAIN ps)
  BY <1>2
<1>5. \E i \in DOMAIN ps : pos[i] = k
  <2> HIDE DEF pos
  <2> QED
    BY <1>2, <1>3, <1>4, EveryPlace
<1>6. \E i \in DOMAIN ps : Position(ps, i) = k
  BY <1>5
<1> QED
  BY <1>6 DEF At

\* The corrections of the ranks, from the largest down.
ChainOf(ps) ==
    CHOOSE g : g = [k \in 1 .. Len(ps) |->
                        Least(IF k = Len(ps) THEN <<1000, 1>> ELSE g[k + 1], Corrected(ps, k))]

LEMMA ChainExists ==
    ASSUME NEW ps \in Seq(Int)
    PROVE  ChainOf(ps) = [k \in 1 .. Len(ps) |->
                Least(IF k = Len(ps) THEN <<1000, 1>> ELSE ChainOf(ps)[k + 1], Corrected(ps, k))]
<1> DEFINE n == Len(ps)
           S == {<<1000, 1>>} \union {Corrected(ps, k) : k \in 1 .. n}
           f == [m \in 1 .. n |-> [v \in S |-> Least(v, Corrected(ps, (n + 1) - m))]]
           a == <<1000, 1>>
<1>1. n \in Nat
  OBVIOUS
<1>2. ASSUME NEW m \in 1 .. n, NEW v \in S
      PROVE  f[m][v] = Least(v, Corrected(ps, (n + 1) - m)) /\ f[m][v] \in S
  <2>1. f[m][v] = Least(v, Corrected(ps, (n + 1) - m))
    OBVIOUS
  <2>2. (n + 1) - m \in 1 .. n
    BY <1>1
  <2>3. Corrected(ps, (n + 1) - m) \in S
    BY <2>2
  <2> HIDE DEF S, f
  <2> QED
    BY <2>1, <2>3 DEF Least
<1>3. a \in S
  OBVIOUS
<1> HIDE DEF n, S, f, a
<1>4. PICK h : h \in Table(S, a, n, f)
  BY <1>1, <1>2, <1>3, TableExists
<1>5. /\ h \in [0 .. n -> S] /\ h[0] = a
      /\ \A m \in 1 .. n : h[m] = Least(h[m - 1], Corrected(ps, (n + 1) - m))
  <2>1. h \in [0 .. n -> S] /\ h[0] = a /\ \A m \in 1 .. n : h[m] = f[m][h[m - 1]]
    BY <1>4 DEF Table
  <2>2. ASSUME NEW m \in 1 .. n PROVE h[m] = Least(h[m - 1], Corrected(ps, (n + 1) - m))
    <3>1. m - 1 \in 0 .. n
      BY <1>1
    <3>2. h[m - 1] \in S
      BY <2>1, <3>1
    <3> QED
      BY <1>2, <2>1, <3>2
  <2> QED
    BY <2>1, <2>2
<1> DEFINE g == [k \in 1 .. n |-> h[(n + 1) - k]]
<1>6. ASSUME NEW k \in 1 .. n
      PROVE  g[k] = Least(IF k = n THEN a ELSE g[k + 1], Corrected(ps, k))
  <2>1. (n + 1) - k \in 1 .. n /\ (n + 1) - ((n + 1) - k) = k
    BY <1>1
  <2>2. h[(n + 1) - k] = Least(h[((n + 1) - k) - 1], Corrected(ps, k))
    BY <1>5, <2>1
  <2>3. CASE k = n
    <3>1. ((n + 1) - k) - 1 = 0
      BY <1>1, <2>3
    <3> QED
      BY <1>5, <2>2, <2>3, <3>1
  <2>4. CASE k # n
    <3>1. k + 1 \in 1 .. n /\ ((n + 1) - k) - 1 = (n + 1) - (k + 1)
      BY <1>1, <2>4
    <3>2. g[k + 1] = h[((n + 1) - k) - 1]
      BY <3>1
    <3> QED
      BY <2>2, <2>4, <3>2
  <2> QED
    BY <2>3, <2>4
<1>7. g = [k \in 1 .. n |-> Least(IF k = n THEN a ELSE g[k + 1], Corrected(ps, k))]
  <2>1. g = [k \in 1 .. n |-> g[k]]
    OBVIOUS
  <2> HIDE DEF g
  <2> QED
    BY <1>6, <2>1
<1> HIDE DEF g
<1>8. \E it : it = [k \in 1 .. n |-> Least(IF k = n THEN a ELSE it[k + 1], Corrected(ps, k))]
  BY <1>7
<1>9. ChainOf(ps) = CHOOSE it : it = [k \in 1 .. n |-> Least(IF k = n THEN a ELSE it[k + 1], Corrected(ps, k))]
  BY DEF ChainOf, n, a
<1>10. ChainOf(ps) = [k \in 1 .. n |-> Least(IF k = n THEN a ELSE ChainOf(ps)[k + 1], Corrected(ps, k))]
  BY <1>8, <1>9, Zenon
<1> QED
  BY <1>10 DEF n, a

\* What is significant after the correction is below its threshold at its own
\* rank or at one above it.
LEMMA SomeRankBelow ==
    ASSUME NEW ps \in Seq(Int), NEW alpha \in 0 .. 1000, NEW i \in DOMAIN ps, Below(bh_fdr(ps)[i], alpha)
    PROVE  \E j \in DOMAIN ps : /\ ps[i] <= ps[j]
                                /\ ps[j] * Len(ps) < alpha * Position(ps, j)
<1> DEFINE n == Len(ps)
           chain == ChainOf(ps)
           Found(k) == \E l \in k .. n : At(ps, l) * n < alpha * l
           T == {m \in Nat : m < n => (Below(chain[n - m], alpha) => Found(n - m))}
<1>1. n \in Nat /\ DOMAIN ps = 1 .. n
  OBVIOUS
<1>2. \A k \in 1 .. n : chain[k] = Least(IF k = n THEN <<1000, 1>> ELSE chain[k + 1], Corrected(ps, k))
  <2>1. PICK g : g = chain
    OBVIOUS
  <2>2. g = [k \in 1 .. n |-> Least(IF k = n THEN <<1000, 1>> ELSE g[k + 1], Corrected(ps, k))]
    BY <2>1, ChainExists
  <2> HIDE DEF chain
  <2> QED
    BY <2>1, <2>2
<1>3. bh_fdr(ps)[i] = chain[Position(ps, i)]
  BY Zenon DEF bh_fdr, ChainOf
<1> HIDE DEF n, chain
<1>4. ~Below(<<1000, 1>>, alpha)
  BY DEF Below
<1>5. \A k \in 1 .. n : Below(Corrected(ps, k), alpha) => At(ps, k) * n < alpha * k
  BY DEF Below, Corrected, n
<1>6. ASSUME NEW k \in 1 .. n, Below(chain[k], alpha)
      PROVE  Found(k) \/ (k # n /\ Below(chain[k + 1], alpha))
  <2>1. CASE Below(Corrected(ps, k), alpha)
    <3>1. k \in k .. n
      BY <1>1
    <3> QED
      BY <1>5, <2>1, <3>1
  <2>2. CASE ~Below(Corrected(ps, k), alpha)
    <3>1. chain[k] = IF k = n THEN <<1000, 1>> ELSE chain[k + 1]
      BY <1>2, <1>6, <2>2 DEF Least
    <3> QED
      BY <1>4, <1>6, <3>1
  <2> QED
    BY <2>1, <2>2
<1>7. 0 \in T
  <2>1. SUFFICES ASSUME 0 < n, Below(chain[n], alpha) PROVE Found(n)
    BY <1>1
  <2>2. n \in 1 .. n
    BY <1>1, <2>1
  <2> HIDE DEF Found
  <2> QED
    BY <1>6, <2>1, <2>2
<1>8. ASSUME NEW m \in Nat, m \in T PROVE m + 1 \in T
  <2>1. SUFFICES ASSUME m + 1 < n, Below(chain[n - (m + 1)], alpha) PROVE Found(n - (m + 1))
    OBVIOUS
  <2> DEFINE k == n - (m + 1)
  <2>2. k \in 1 .. n /\ k # n /\ k + 1 = n - m /\ m < n
    BY <1>1, <2>1
  <2>3. Found(k + 1) => Found(k)
    <3>1. (k + 1) .. n \subseteq k .. n
      BY <1>1, <2>2
    <3> QED
      BY <3>1
  <2>4. Below(chain[k + 1], alpha) => Found(k + 1)
    BY <1>8, <2>2
  <2> HIDE DEF Found
  <2> QED
    BY <1>6, <2>1, <2>2, <2>3, <2>4
<1> HIDE DEF T
<1>9. Nat \subseteq T
  BY <1>7, <1>8, NumberInduction
<1>10. Position(ps, i) \in 1 .. n
  BY PositionsOrder DEF n
<1>11. Found(Position(ps, i))
  <2>1. n - Position(ps, i) \in Nat /\ n - Position(ps, i) < n /\ n - (n - Position(ps, i)) = Position(ps, i)
    BY <1>1, <1>10
  <2> HIDE DEF Found
  <2> QED
    BY <1>3, <1>9, <2>1 DEF T
<1>12. PICK l \in Position(ps, i) .. n : At(ps, l) * n < alpha * l
  BY <1>11
<1>13. l \in 1 .. n
  BY <1>1, <1>10
<1>14. PICK j \in DOMAIN ps : Position(ps, j) = l /\ At(ps, l) = ps[j]
  BY <1>13, AtPosition DEF n
<1>15. ps[i] <= ps[j]
  BY <1>10, <1>12, <1>14, PositionsOrder
<1> QED
  BY <1>12, <1>14, <1>15 DEF n

\* A fraction with a positive denominator; of two, the lesser is below a level
\* when one of them is.
Fraction(v) == v[1] \in Int /\ v[2] \in Nat \ {0}

LEMMA TimesOrder ==
    ASSUME NEW a \in Int, NEW b \in Int, NEW c \in Nat \ {0}
    PROVE  (a < b) <=> (a * c < b * c)
OBVIOUS

LEMMA BelowLeast ==
    ASSUME NEW v, NEW w, Fraction(v), Fraction(w), NEW alpha \in Nat, Below(v, alpha) \/ Below(w, alpha)
    PROVE  Below(Least(v, w), alpha)
<1>1. PICK v1 \in Int, w1 \in Int, v2 \in Nat \ {0}, w2 \in Nat \ {0} :
        v1 = v[1] /\ v2 = v[2] /\ w1 = w[1] /\ w2 = w[2]
  BY DEF Fraction
<1>2. PICK av \in Int, aw \in Int : av = alpha * v2 /\ aw = alpha * w2
  OBVIOUS
<1>3. av * w2 = aw * v2
  BY <1>2
<1>4. (v1 < av <=> v1 * w2 < av * w2) /\ (w1 < aw <=> w1 * v2 < aw * v2)
  BY TimesOrder
<1>5. PICK x \in Int, y \in Int, z \in Int : x = v1 * w2 /\ y = w1 * v2 /\ z = av * w2
  OBVIOUS
<1>6. (v1 < av <=> x < z) /\ (w1 < aw <=> y < z)
  BY <1>3, <1>4, <1>5
<1>7. Least(v, w) = IF x <= y THEN v ELSE w
  BY <1>1, <1>5 DEF Least
<1>8. (Below(v, alpha) <=> v1 < av) /\ (Below(w, alpha) <=> w1 < aw)
  BY <1>1, <1>2 DEF Below
<1>9. CASE x <= y
  <2>1. x < z
    BY <1>5, <1>6, <1>8, <1>9
  <2> QED
    BY <1>6, <1>7, <1>8, <1>9, <2>1
<1>10. CASE ~(x <= y)
  <2>1. y < z
    BY <1>5, <1>6, <1>8, <1>10
  <2> QED
    BY <1>6, <1>7, <1>8, <1>10, <2>1
<1> QED
  BY <1>9, <1>10

\* What is not above a rank that is below its threshold is significant after
\* the correction.
LEMMA RanksUpToBelow ==
    ASSUME NEW ps \in Seq(Int), NEW alpha \in 0 .. 1000, NEW i \in DOMAIN ps, NEW j \in DOMAIN ps,
           Position(ps, i) <= Position(ps, j), ps[j] * Len(ps) < alpha * Position(ps, j)
    PROVE  Below(bh_fdr(ps)[i], alpha)
<1> DEFINE n == Len(ps)
           r == Position(ps, j)
           chain == ChainOf(ps)
           T == {m \in Nat : m < n => Fraction(chain[n - m])}
           U == {m \in Nat : m < r => Below(chain[r - m], alpha)}
<1>1. n \in Nat /\ DOMAIN ps = 1 .. n /\ r \in 1 .. n /\ Position(ps, i) \in 1 .. n /\ alpha \in Nat
  BY PositionsOrder
<1>2. \A k \in 1 .. n : chain[k] = Least(IF k = n THEN <<1000, 1>> ELSE chain[k + 1], Corrected(ps, k))
  <2>1. PICK g : g = chain
    OBVIOUS
  <2>2. g = [k \in 1 .. n |-> Least(IF k = n THEN <<1000, 1>> ELSE g[k + 1], Corrected(ps, k))]
    BY <2>1, ChainExists
  <2> HIDE DEF chain
  <2> QED
    BY <2>1, <2>2
<1>3. bh_fdr(ps)[i] = chain[Position(ps, i)]
  BY Zenon DEF bh_fdr, ChainOf
<1>4. \A k \in 1 .. n : Fraction(Corrected(ps, k))
  <2>1. SUFFICES ASSUME NEW k \in 1 .. n PROVE Fraction(Corrected(ps, k))
    OBVIOUS
  <2>2. PICK l \in DOMAIN ps : At(ps, k) = ps[l]
    BY AtPosition
  <2>3. At(ps, k) * n \in Int
    BY <1>1, <2>2
  <2> QED
    BY <1>1, <2>3 DEF Corrected, Fraction
<1>5. Below(Corrected(ps, r), alpha)
  <2>1. PICK l \in DOMAIN ps : Position(ps, l) = r /\ At(ps, r) = ps[l]
    BY <1>1, AtPosition
  <2>2. At(ps, r) = ps[j]
    BY <2>1, PositionsOrder
  <2> QED
    BY <2>2 DEF Corrected, Below
<1> HIDE DEF n, r, chain
<1>6. Fraction(<<1000, 1>>)
  BY DEF Fraction
<1>7. 0 \in T
  <2>1. n \in 1 .. n /\ n - 0 = n
    BY <1>1
  <2>2. chain[n] = Least(<<1000, 1>>, Corrected(ps, n)) /\ Fraction(Corrected(ps, n))
    BY <1>2, <1>4, <2>1
  <2>3. Fraction(chain[n])
    BY <1>6, <2>2 DEF Least
  <2> QED
    BY <2>1, <2>3
<1>8. ASSUME NEW m \in Nat, m \in T PROVE m + 1 \in T
  <2>1. SUFFICES ASSUME m + 1 < n PROVE Fraction(chain[n - (m + 1)])
    OBVIOUS
  <2> DEFINE k == n - (m + 1)
  <2>2. k \in 1 .. n /\ k # n /\ k + 1 = n - m /\ m < n
    BY <1>1, <2>1
  <2>3. chain[k] = Least(chain[k + 1], Corrected(ps, k)) /\ Fraction(chain[k + 1]) /\ Fraction(Corrected(ps, k))
    BY <1>2, <1>4, <1>8, <2>2
  <2> HIDE DEF k
  <2>4. Fraction(chain[k])
    BY <2>3 DEF Least
  <2> QED
    BY <2>4 DEF k
<1> HIDE DEF T
<1>9. Nat \subseteq T
  BY <1>7, <1>8, NumberInduction
<1>10. ASSUME NEW k \in 1 .. n PROVE Fraction(chain[k])
  <2>1. n - k \in Nat /\ n - k < n /\ n - (n - k) = k
    BY <1>1
  <2> QED
    BY <1>9, <2>1 DEF T
<1>11. ASSUME NEW k \in 1 .. n, Below(Corrected(ps, k), alpha) \/ (k # n /\ Below(chain[k + 1], alpha))
       PROVE  Below(chain[k], alpha)
  <2> DEFINE v == IF k = n THEN <<1000, 1>> ELSE chain[k + 1]
  <2>1. (k = n => v = <<1000, 1>>) /\ (k # n => v = chain[k + 1])
    OBVIOUS
  <2>4. chain[k] = Least(v, Corrected(ps, k))
    BY <1>2
  <2> HIDE DEF v
  <2>2. Fraction(v)
    <3>1. CASE k = n
      BY <1>6, <2>1, <3>1
    <3>2. CASE k # n
      <4>1. k + 1 \in 1 .. n
        BY <1>1, <3>2
      <4> QED
        BY <1>10, <2>1, <3>2, <4>1
    <3> QED
      BY <3>1, <3>2
  <2>3. Below(v, alpha) \/ Below(Corrected(ps, k), alpha)
    BY <1>11, <2>1
  <2> QED
    BY <1>1, <1>4, <2>2, <2>3, <2>4, BelowLeast
<1>12. 0 \in U
  BY <1>1, <1>5, <1>11
<1>13. ASSUME NEW m \in Nat, m \in U PROVE m + 1 \in U
  <2>1. SUFFICES ASSUME m + 1 < r PROVE Below(chain[r - (m + 1)], alpha)
    OBVIOUS
  <2> DEFINE k == r - (m + 1)
  <2>2. k \in 1 .. n /\ k # n /\ k + 1 = r - m /\ m < r
    BY <1>1, <2>1
  <2>3. Below(chain[k + 1], alpha)
    BY <1>13, <2>2
  <2> HIDE DEF k
  <2>4. Below(chain[k], alpha)
    BY <1>11, <2>2, <2>3
  <2> QED
    BY <2>4 DEF k
<1> HIDE DEF U
<1>14. Nat \subseteq U
  BY <1>12, <1>13, NumberInduction
<1>15. r - Position(ps, i) \in Nat /\ r - Position(ps, i) < r /\ r - (r - Position(ps, i)) = Position(ps, i)
  BY <1>1 DEF r
<1> QED
  BY <1>3, <1>14, <1>15 DEF U

-----------------------------------------------------------------------------
(* What the end of a study leaves alone.                                   *)

LEMMA ConcludeDone ==
    ASSUME Conclude
    PROVE  \E results, overall :
                study' = [study EXCEPT !.step = "done", !.results = results, !.overall = overall]
BY DEF Conclude, Once

LEMMA RowsAreRead ==
    ASSUME world \in DOMAIN Contents, NEW archives \in SUBSET Archives, NEW kind,
           \A a \in archives : Normalizes(content[a].entries)
    PROVE  \A r \in BuildRows(archives, kind) : r.archive \in archives /\ RowRead(r, kind)
<1>1. SUFFICES ASSUME NEW r \in BuildRows(archives, kind) PROVE r.archive \in archives /\ RowRead(r, kind)
  OBVIOUS
<1>2. PICK a \in archives : \E token \in DOMAIN content[a].journal : r \in JoinedRows(a, token, kind)
  BY DEF BuildRows
<1>3. PICK token \in DOMAIN content[a].journal : r \in JoinedRows(a, token, kind)
  BY <1>2
<1> QED
  BY <1>3, JoinedRowRead

\* Where archives share tokens the earliest keeps each; elsewhere nothing is
\* shared that a row could be of.
LEMMA ReadRowsAreApart ==
    ASSUME world \in DOMAIN Contents, NEW archives \in SUBSET Archives, NEW kind,
           \A a \in archives : Normalizes(content[a].entries)
    PROVE  LET rows == BuildRows(archives, kind)
           IN  /\ Overlaps(archives) => Apart(Deduplicated(rows))
               /\ ~Overlaps(archives) => Apart(rows)
<1> DEFINE rows == BuildRows(archives, kind)
<1>1. \A r \in rows : r.archive \in archives /\ RowRead(r, kind)
  BY RowsAreRead
<1> HIDE DEF rows
<1>2. ASSUME NEW r \in Deduplicated(rows), NEW q \in Deduplicated(rows), r.token = q.token
      PROVE  r.archive = q.archive
  <2>1. r \in rows /\ q \in rows /\ r.archive \in Archives /\ q.archive \in Archives
    BY <1>1 DEF Deduplicated
  <2>2. ~StartedBefore(q.archive, r.archive) /\ ~StartedBefore(r.archive, q.archive)
    BY <1>2, <2>1 DEF Deduplicated, RowsOf
  <2> QED
    BY <2>1, <2>2, OneStartedFirst
<1>3. ASSUME ~Overlaps(archives), NEW r \in rows, NEW q \in rows, r.token = q.token
      PROVE  r.archive = q.archive
  <2>1. r.token \in content[r.archive].universe /\ r.token \in content[q.archive].universe
    BY <1>1, <1>3 DEF RowRead
  <2> QED
    BY <1>1, <1>3, <2>1 DEF Overlaps
<1> QED
  BY <1>2, <1>3 DEF Apart, rows

LEMMA RowsInvHolds == Spec => []RowsInv
<1>1. Init => RowsInv
  BY DEF Init, NoStudy, RowsInv, StudyFields
<1>2. RowsInv /\ [Next]_vars => RowsInv'
  <2> SUFFICES ASSUME RowsInv, [Next]_vars PROVE RowsInv'
    OBVIOUS
  <2>1. ASSUME world' = world, evidence' = evidence, DOMAIN study' = StudyFields,
               study'.archives = study.archives, study'.rows = study.rows, study'.phase = study.phase,
               study'.step = "evaluate" => study.step = "evaluate"
        PROVE  RowsInv'
    BY <2>1 DEF RowsInv, RowRead, content
  <2>2. ASSUME NEW a, Acquire(a) \/ EndAcquisition(a) \/ Damage(a) PROVE RowsInv'
    <3>1. world' = world /\ evidence' = evidence /\ study' = study
      BY <2>2 DEF Acquire, EndAcquisition, Damage
    <3> QED
      BY <2>1, <3>1 DEF RowsInv
  <2>3. CASE Collect
    <3>1. world' = world /\ study' = study /\ evidence' \subseteq Old
      BY <2>3 DEF Collect
    <3> QED
      BY <3>1 DEF RowsInv, RowRead, content
  <2>4. ASSUME NEW phase, Include(phase) PROVE RowsInv'
    <3>1. world' = world /\ evidence' = evidence /\ evidence # None
      BY <2>4 DEF Include
    <3>2. Range3b \subseteq Archives /\ Range3c \subseteq Archives
      BY <3>1 DEF RowsInv, Range3b, Range3c, Archives
    <3>3. /\ DOMAIN study' = StudyFields /\ study'.rows = <<>> /\ study'.archives \subseteq Archives
          /\ study'.step = "included"
      BY <2>4, <3>2 DEF Include, NoStudy, StudyFields
    <3> QED
      BY <3>1, <3>3 DEF RowsInv
  <2>5. CASE Read
    <3>1. world' = world /\ evidence' = evidence
      BY <2>5 DEF Read
    <3>2. CASE ~\A a \in study.archives : disk[a].whole /\ Normalizes(content[a].entries)
      <4>1. study' = [study EXCEPT !.step = "failed"]
        BY <2>5, <3>2 DEF Read
      <4>2. /\ DOMAIN study' = StudyFields /\ study'.archives = study.archives
            /\ study'.rows = study.rows /\ study'.phase = study.phase /\ study'.step = "failed"
        BY <4>1 DEF RowsInv, StudyFields
      <4> QED
        BY <2>1, <3>1, <4>2
    <3>3. CASE \A a \in study.archives : disk[a].whole /\ Normalizes(content[a].entries)
      <4> DEFINE all(i) == BuildRows(study.archives, Feature[HypothesisIds[i]])
                 contaminated == study.phase = "3c" /\ Overlaps(study.archives)
                 rows == [i \in DOMAIN HypothesisIds |->
                            IF contaminated THEN Deduplicated(all(i)) ELSE all(i)]
      <4>1. study' = [study EXCEPT !.step = "evaluate", !.rows = rows]
        BY <2>5, <3>3 DEF Read
      <4>2. ASSUME NEW i \in DOMAIN HypothesisIds
            PROVE  /\ rows[i] \subseteq all(i)
                   /\ study.phase = "3c" => Apart(rows[i])
        BY <3>3, ReadRowsAreApart DEF Deduplicated, RowsInv
      <4>3. ASSUME NEW i \in DOMAIN HypothesisIds, NEW r \in all(i)
            PROVE  r.archive \in study.archives /\ RowRead(r, Feature[HypothesisIds[i]])
        BY <3>3, RowsAreRead DEF RowsInv
      <4>4. DOMAIN rows = DOMAIN HypothesisIds
        OBVIOUS
      <4> HIDE DEF all, rows
      <4>5. /\ DOMAIN study' = StudyFields /\ study'.archives = study.archives
            /\ study'.rows = rows /\ study'.phase = study.phase
        BY <4>1 DEF RowsInv, StudyFields
      <4>6. \A i \in DOMAIN HypothesisIds : \A r \in rows[i] :
                r.archive \in study.archives /\ RowRead(r, Feature[HypothesisIds[i]])
        BY <4>2, <4>3
      <4> QED
        BY <3>1, <4>2, <4>4, <4>5, <4>6 DEF RowsInv, RowRead, content
    <3> QED
      BY <3>2, <3>3
  <2>6. CASE Evaluate
    <3> DEFINE i == Len(study.results) + 1
    <3>1. PICK result \in Results(study.rows[i]) : study' = [study EXCEPT !.results = Append(@, result)]
      BY <2>6 DEF Evaluate
    <3>2. world' = world /\ evidence' = evidence
      BY <2>6 DEF Evaluate
    <3>3. /\ DOMAIN study' = StudyFields /\ study'.archives = study.archives
          /\ study'.rows = study.rows /\ study'.phase = study.phase /\ study'.step = study.step
      BY <3>1 DEF RowsInv, StudyFields
    <3> QED
      BY <2>1, <3>2, <3>3
  <2>7. CASE Conclude
    <3>1. world' = world /\ evidence' = evidence
      BY <2>7 DEF Conclude
    <3>2. PICK results, overall : study' = [study EXCEPT !.step = "done", !.results = results, !.overall = overall]
      BY <2>7, ConcludeDone
    <3>3. /\ DOMAIN study' = StudyFields /\ study'.archives = study.archives
          /\ study'.rows = study.rows /\ study'.phase = study.phase /\ study'.step = "done"
      BY <3>2 DEF RowsInv, StudyFields
    <3> QED
      BY <2>1, <3>1, <3>3
  <2>8. CASE UNCHANGED vars
    BY <2>1, <2>8 DEF vars, RowsInv
  <2> QED
    BY <2>2, <2>3, <2>4, <2>5, <2>6, <2>7, <2>8 DEF Next
<1> QED
  BY <1>1, <1>2, PTL DEF Spec

\* Every row a study tests rests on answers that had come by the time of its
\* assessment and says what they say (phase3b_pipeline.py build_rows and
\* _obs_feature_value), whatever is asked, polled and answered.
THEOREM EvidenceInTimeHolds == Spec => []EvidenceIsInTime
<1>1. RowsInv => EvidenceIsInTime
  <2> SUFFICES ASSUME RowsInv, NEW i \in DOMAIN study.rows, NEW r \in study.rows[i]
               PROVE  LET answers == AnswersBy(r.archive, r.token, Feature[HypothesisIds[i]], r.asOf)
                          told    == {o \in answers : o.state = "OBSERVED"}
                      IN  /\ answers # {}
                          /\ IF Feature[HypothesisIds[i]] = "creator_state"
                             THEN \E o \in told : /\ o.value.pct = r.x
                                                  /\ \A q \in told : q.ingested <= o.ingested
                             ELSE IF told # {} THEN r.x = 1
                             ELSE r.x # 1 /\ ((\E o \in answers : o.state = "NOT_OBSERVED") => r.x = 0)
    BY DEF EvidenceIsInTime
  <2> DEFINE kind == Feature[HypothesisIds[i]]
             entries == content[r.archive].entries
             answers == AnswersBy(r.archive, r.token, kind, r.asOf)
             told    == {o \in answers : o.state = "OBSERVED"}
  <2>1. RowRead(r, kind) /\ world \in DOMAIN Contents
    BY DEF RowsInv
  <2>2. WellFormed(entries) /\ Normalizes(entries)
    BY <2>1, ResearchConstants DEF RowRead, content, Worlds, Archives
  <2>3. answers = {o \in Told1(entries, r.token) : o.kind = kind /\ o.ingested <= r.asOf}
    <3>1. \A o \in Told1(entries, r.token) : o.ingested = Came(entries[o.raw])
      BY <2>2, AllOf
    <3> QED
      BY <3>1 DEF AnswersBy, Told1
  <2>4. r.asOf \in Int /\ Has(r.x) /\ r.x = FeatureValue(ObservationsOf(entries, r.token), kind, r.asOf)
    BY <2>1 DEF RowRead
  <2>5. PICK k : k = kind
    OBVIOUS
  <2>6. PICK x : x = r.x
    OBVIOUS
  <2>7. PICK asOf \in Int : asOf = r.asOf
    BY <2>4
  <2> HIDE DEF kind, entries, answers
  <2>8. /\ x = FeatureValue(ObservationsOf(entries, r.token), k, asOf) /\ Has(x)
        /\ answers = {o \in Told1(entries, r.token) : o.kind = k /\ o.ingested <= asOf}
    BY <2>3, <2>4, <2>5, <2>6, <2>7
  <2>9. told = {o \in answers : o.state = "OBSERVED"}
    OBVIOUS
  <2> HIDE DEF told
  <2>10. /\ answers # {}
        /\ IF k = "creator_state"
           THEN \E o \in told : o.value.pct = x /\ \A q \in told : q.ingested <= o.ingested
           ELSE x = IF told = {} THEN 0 ELSE 1
    BY <2>2, <2>8, <2>9, ValueInTime
  <2> QED
    BY <2>5, <2>6, <2>10 DEF kind, answers, told
<1> QED
  BY <1>1, RowsInvHolds, PTL

-----------------------------------------------------------------------------
(* The tests of a study and their correction.                              *)

\* What the test of a hypothesis may have come to.
ResultOk(result) ==
    /\ DOMAIN result = {"tokens", "tests", "verdict"}
    /\ result.tokens \in Nat
    /\ \A t \in DOMAIN result.tests :
        /\ t \in Range(Targets) /\ {"p", "q"} \subseteq DOMAIN result.tests[t]
        /\ result.tests[t].p \in PValues \union {None}
    /\ result.verdict = Judged(result.tokens, result.tests, FALSE)

ResultsOk(results) ==
    /\ results \in Seq(Range(results))
    /\ \A i \in DOMAIN results : ResultOk(results[i])

LEMMA TargetNames == Range(Targets) = {"classified", "direction"} /\ DOMAIN Targets = 1 .. 2
BY DEF Range, Targets

\* The tests that came to a p-value.
Tried(results) == {test \in (DOMAIN results) \X Range(Targets) : Has(PValue(results, test))}

LEMMA TestsAre ==
    ASSUME NEW results, ResultsOk(results)
    PROVE  /\ Len(results) \in Nat /\ DOMAIN results = 1 .. Len(results)
           /\ DOMAIN Tests(results) = 1 .. 2 * Len(results)
           /\ \A k \in DOMAIN Tests(results) : Tests(results)[k] \in (DOMAIN results) \X Range(Targets)
           /\ \A j, k \in DOMAIN Tests(results) : Tests(results)[j] = Tests(results)[k] => j = k
           /\ \A test \in (DOMAIN results) \X Range(Targets) :
                \E k \in DOMAIN Tests(results) : Tests(results)[k] = test
<1> DEFINE n == Len(results)
<1>1. n \in Nat /\ DOMAIN results = 1 .. n
  BY DEF ResultsOk
<1> HIDE DEF n
<1>2. DOMAIN Tests(results) = 1 .. 2 * n
  BY DEF Tests, n
<1>3. ASSUME NEW k \in 1 .. 2 * n
      PROVE  /\ Tests(results)[k] = <<(k + 1) \div 2, Targets[1 + ((k + 1) % 2)]>>
             /\ (k + 1) \div 2 \in 1 .. n
             /\ (k + 1) % 2 \in {0, 1}
             /\ k = 2 * ((k + 1) \div 2) - (1 - ((k + 1) % 2))
  <2>1. Tests(results)[k] = <<(k + 1) \div 2, Targets[1 + ((k + 1) % 2)]>>
    BY DEF Tests, n
  <2>2. (k + 1) \div 2 \in 1 .. n /\ (k + 1) % 2 \in {0, 1}
        /\ k = 2 * ((k + 1) \div 2) - (1 - ((k + 1) % 2))
    BY <1>1
  <2> QED
    BY <2>1, <2>2
<1>4. Targets[1] = "classified" /\ Targets[2] = "direction" /\ Targets[1] # Targets[2]
  BY DEF Targets
<1>5. ASSUME NEW k \in 1 .. 2 * n PROVE Tests(results)[k] \in (DOMAIN results) \X Range(Targets)
  <2>1. Targets[1 + ((k + 1) % 2)] \in {"classified", "direction"}
    <3>1. CASE (k + 1) % 2 = 0
      BY <1>4, <3>1
    <3>2. CASE (k + 1) % 2 = 1
      BY <1>4, <3>2
    <3> QED
      BY <1>3, <3>1, <3>2
  <2>2. (k + 1) \div 2 \in DOMAIN results
    BY <1>1, <1>3
  <2>3. Tests(results)[k] = <<(k + 1) \div 2, Targets[1 + ((k + 1) % 2)]>>
    BY <1>3
  <2> QED
    BY <2>1, <2>2, <2>3, TargetNames
<1>6. ASSUME NEW j \in 1 .. 2 * n, NEW k \in 1 .. 2 * n, Tests(results)[j] = Tests(results)[k] PROVE j = k
  <2>1. (j + 1) \div 2 = (k + 1) \div 2 /\ Targets[1 + ((j + 1) % 2)] = Targets[1 + ((k + 1) % 2)]
    BY <1>3, <1>6
  <2>2. (j + 1) % 2 = (k + 1) % 2
    BY <1>3, <1>4, <2>1
  <2> QED
    BY <1>3, <2>1, <2>2
<1>7. ASSUME NEW test \in (DOMAIN results) \X Range(Targets)
      PROVE  \E k \in 1 .. 2 * n : Tests(results)[k] = test
  <2>1. PICK i \in 1 .. n, t \in {"classified", "direction"} : test = <<i, t>>
    BY <1>1, TargetNames
  <2>2. CASE t = "classified"
    <3>1. 2 * i - 1 \in 1 .. 2 * n /\ ((2 * i - 1) + 1) \div 2 = i /\ ((2 * i - 1) + 1) % 2 = 0
      BY <1>1
    <3> QED
      BY <1>3, <1>4, <2>1, <2>2, <3>1
  <2>3. CASE t = "direction"
    <3>1. 2 * i \in 1 .. 2 * n /\ (2 * i + 1) \div 2 = i /\ (2 * i + 1) % 2 = 1
      BY <1>1
    <3> QED
      BY <1>3, <1>4, <2>1, <2>3, <3>1
  <2> QED
    BY <2>1, <2>2, <2>3
<1> QED
  BY <1>1, <1>2, <1>5, <1>6, <1>7 DEF n

LEMMA LessTimes ==
    ASSUME NEW a \in Nat, NEW b \in Nat, NEW c \in Nat, b <= c
    PROVE  a * b <= a * c
OBVIOUS

LEMMA NatTimes ==
    ASSUME NEW a \in Int, NEW b \in Int, NEW c \in Nat, a <= b
    PROVE  a * c <= b * c
OBVIOUS

LEMMA TriedIsNat ==
    ASSUME NEW results, ResultsOk(results), NEW test \in Tried(results)
    PROVE  PValue(results, test) \in Nat
<1>1. test[1] \in DOMAIN results /\ Has(PValue(results, test))
  BY DEF Tried
<1>2. ResultOk(results[test[1]])
  BY <1>1 DEF ResultsOk
<1>3. PValue(results, test) \in PValues
  BY <1>1, <1>2 DEF PValue, ResultOk, Has
<1>4. \A x \in PValues : x \in Nat
  BY VerdictConstants
<1> QED
  BY <1>3, <1>4

\* The family is a sequence of them that has each of them once.
LEMMA FamilyIs ==
    ASSUME NEW results, ResultsOk(results)
    PROVE  LET family == Family(results)
               raw == Raw(results, family)
           IN  \E m \in Nat :
                /\ family \in [1 .. m -> Tried(results)]
                /\ \A j, k \in 1 .. m : family[j] = family[k] => j = k
                /\ \A test \in Tried(results) : \E k \in 1 .. m : family[k] = test
                /\ raw \in Seq(Int) /\ Len(raw) = m
                /\ \A j \in 1 .. m : raw[j] = PValue(results, family[j])
<1> DEFINE tests == Tests(results)
           n == 2 * Len(results)
           places == {k \in DOMAIN tests : Has(PValue(results, tests[k]))}
           family == Family(results)
           raw == Raw(results, family)
           m == Cardinality(places)
<1>1. /\ n \in Nat /\ DOMAIN tests = 1 .. n
      /\ \A k \in DOMAIN tests : tests[k] \in (DOMAIN results) \X Range(Targets)
      /\ \A j, k \in DOMAIN tests : tests[j] = tests[k] => j = k
      /\ \A test \in (DOMAIN results) \X Range(Targets) : \E k \in DOMAIN tests : tests[k] = test
  BY TestsAre
<1>2. family = Chosen(tests, places)
  BY DEF Family
<1>3. \A k \in 1 .. n : k \in places <=> Has(PValue(results, tests[k]))
  BY <1>1
<1>4. places \in SUBSET (1 .. n)
  BY <1>1
<1>0. n \in Nat /\ n \in Int
  BY <1>1
<1> HIDE DEF tests, n, places, family
<1>5. PICK at \in [1 .. m -> places] :
        /\ family = Listed(tests, at, m)
        /\ \A j, k \in 1 .. m : at[j] = at[k] => j = k
        /\ \A i \in places : \E k \in 1 .. m : at[k] = i
  <2>1. ListsOnce(Chosen(tests, places), tests, places)
    BY <1>0, <1>4, ChosenIs
  <2> QED
    BY <1>2, <2>1 DEF ListsOnce
<1>6. m \in Nat
  <2>1. IsFiniteSet(1 .. n)
    BY <1>0, FS_Interval
  <2> QED
    BY <1>4, <2>1, FS_Subset, FS_CardinalityType
<1> HIDE DEF m
<1>7. ASSUME NEW k \in 1 .. m PROVE family[k] = tests[at[k]] /\ family[k] \in Tried(results)
  <2>1. family[k] = tests[at[k]] /\ at[k] \in places /\ at[k] \in 1 .. n
    BY <1>4, <1>5 DEF Listed
  <2> QED
    BY <1>1, <1>3, <2>1 DEF Tried
<1>8. family \in [1 .. m -> Tried(results)]
  BY <1>5, <1>7 DEF Listed
<1>9. ASSUME NEW j \in 1 .. m, NEW k \in 1 .. m, family[j] = family[k] PROVE j = k
  <2>1. at[j] \in 1 .. n /\ at[k] \in 1 .. n
    BY <1>4, <1>5
  <2> QED
    BY <1>1, <1>5, <1>7, <1>9, <2>1
<1>10. ASSUME NEW test \in Tried(results) PROVE \E k \in 1 .. m : family[k] = test
  <2>1. PICK i \in 1 .. n : tests[i] = test
    BY <1>1 DEF Tried
  <2>2. i \in places
    BY <1>3, <2>1 DEF Tried
  <2> QED
    BY <1>5, <1>7, <2>1, <2>2
<1>11. \A test \in Tried(results) : PValue(results, test) \in Int
  BY TriedIsNat
<1>12. raw \in Seq(Int) /\ Len(raw) = m /\ \A j \in 1 .. m : raw[j] = PValue(results, family[j])
  <2> DEFINE ps == [j \in 1 .. m |-> PValue(results, family[j])]
  <2>1. \A j \in 1 .. m : PValue(results, family[j]) \in Int
    BY <1>7, <1>11
  <2>2. ps \in Seq(Int) /\ Len(ps) = m
    BY <1>6, <2>1
  <2>3. DOMAIN family = 1 .. m
    BY <1>8
  <2>4. raw = ps \o <<>>
    BY <2>3 DEF Raw
  <2>5. \A j \in 1 .. m : ps[j] = PValue(results, family[j])
    OBVIOUS
  <2> HIDE DEF ps, raw
  <2>6. raw = ps
    BY <2>2, <2>4, ConcatEmptySeq
  <2> QED
    BY <2>2, <2>5, <2>6
<1> HIDE DEF raw
<1>13. \E size \in Nat :
        /\ family \in [1 .. size -> Tried(results)]
        /\ \A j, k \in 1 .. size : family[j] = family[k] => j = k
        /\ \A test \in Tried(results) : \E k \in 1 .. size : family[k] = test
        /\ raw \in Seq(Int) /\ Len(raw) = size
        /\ \A j \in 1 .. size : raw[j] = PValue(results, family[j])
  <2>1. /\ \A j, k \in 1 .. m : family[j] = family[k] => j = k
        /\ \A test \in Tried(results) : \E k \in 1 .. m : family[k] = test
    BY <1>9, <1>10
  <2> QED
    BY <1>6, <1>8, <1>12, <2>1
<1> QED
  BY <1>13 DEF family, raw

\* The corrected p-value of a test.
Correction(results, test) ==
    IF test \in Range(Family(results))
    THEN bh_fdr(Raw(results, Family(results)))[Place(Family(results), test)]
    ELSE None

\* A test whose corrected p-value is below alpha is a discovery.
LEMMA BelowIsDiscovery ==
    ASSUME NEW results, ResultsOk(results), NEW test \in Range(Family(results)),
           Below(Correction(results, test), Alpha)
    PROVE  test \in Discoveries([k \in Tried(results) |-> PValue(results, k)], Alpha)
<1> DEFINE family == Family(results)
           raw == Raw(results, family)
           p == [k \in Tried(results) |-> PValue(results, k)]
<1>1. test \in Range(family) /\ Below(bh_fdr(raw)[Place(family, test)], Alpha)
  BY DEF Correction
<1>2. PICK m \in Nat :
        /\ family \in [1 .. m -> Tried(results)]
        /\ \A j, k \in 1 .. m : family[j] = family[k] => j = k
        /\ \A k \in Tried(results) : \E j \in 1 .. m : family[j] = k
        /\ raw \in Seq(Int) /\ Len(raw) = m
        /\ \A j \in 1 .. m : raw[j] = PValue(results, family[j])
  BY FamilyIs
<1> HIDE DEF family, raw
<1>3. DOMAIN raw = 1 .. m /\ DOMAIN family = 1 .. m
  BY <1>2
<1> DEFINE i == Place(family, test)
<1>4. i \in 1 .. m /\ family[i] = test
  BY <1>1, <1>3 DEF Place, Range
<1> HIDE DEF i
<1>5. Below(bh_fdr(raw)[i], Alpha)
  BY <1>1 DEF i
<1>6. PICK j \in 1 .. m : raw[i] <= raw[j] /\ raw[j] * m < Alpha * Position(raw, j)
  <2>1. raw \in Seq(Int) /\ i \in DOMAIN raw /\ Len(raw) = m /\ Alpha \in 0 .. 1000
    BY <1>2, <1>3, <1>4, VerdictConstants
  <2>2. \E j \in DOMAIN raw : raw[i] <= raw[j] /\ raw[j] * Len(raw) < Alpha * Position(raw, j)
    BY <1>5, <2>1, SomeRankBelow
  <2> QED
    BY <1>3, <2>1, <2>2
<1>7. DOMAIN p = Tried(results) /\ \A k \in Tried(results) : p[k] = PValue(results, k)
  OBVIOUS
<1> HIDE DEF p
<1>8. \A k \in 1 .. m : family[k] \in DOMAIN p /\ raw[k] = p[family[k]] /\ raw[k] \in Int
  BY <1>2, <1>3, <1>7
<1>9. /\ IsFiniteSet(DOMAIN p) /\ Cardinality(DOMAIN p) \in Nat
      /\ Cardinality(DOMAIN p) <= m
  <2>1. IsFiniteSet(1 .. m) /\ Cardinality(1 .. m) = m
    BY <1>2, FS_Interval
  <2>2. family \in Surjection(1 .. m, DOMAIN p)
    BY <1>2, <1>7 DEF Surjection
  <2> QED
    BY <2>1, <2>2, FS_Surjection, FS_CardinalityType
<1> DEFINE under == {k \in 1 .. m : raw[k] < raw[j] \/ (raw[k] = raw[j] /\ k <= j)}
           upTo == {l \in DOMAIN p : p[l] <= p[family[j]]}
<1>10. Position(raw, j) = Cardinality(under)
  BY <1>3 DEF Position
<1>11. IsFiniteSet(upTo) /\ Cardinality(upTo) \in Nat
  <2>1. upTo \subseteq DOMAIN p
    OBVIOUS
  <2> HIDE DEF upTo
  <2> QED
    BY <1>9, <2>1, FS_Subset, FS_CardinalityType
<1>12. Cardinality(under) <= Cardinality(upTo)
  <2> DEFINE f == [k \in under |-> family[k]]
  <2>1. \A k \in under : f[k] \in upTo
    BY <1>8
  <2>2. \A k, l \in under : f[k] = f[l] => k = l
    BY <1>2
  <2>3. f \in Injection(under, upTo)
    <3> HIDE DEF under, upTo
    <3>1. f \in [under -> upTo]
      BY <2>1
    <3> HIDE DEF f
    <3> QED
      BY <2>2, <3>1 DEF Injection, IsInjective
  <2> HIDE DEF f, under, upTo
  <2> QED
    BY <1>11, <2>3, FS_Injection
<1>13. p[test] <= p[family[j]] /\ test \in DOMAIN p /\ family[j] \in DOMAIN p
  BY <1>4, <1>6, <1>8
<1>14. p[family[j]] * Cardinality(DOMAIN p) < Alpha * Cardinality(upTo)
  <2> DEFINE v == p[family[j]]
             d == Cardinality(DOMAIN p)
             u == Cardinality(upTo)
             w == Position(raw, j)
  <2>1. v \in Nat
    <3>1. family[j] \in Tried(results)
      BY <1>7, <1>13
    <3> QED
      BY <1>7, <3>1, TriedIsNat
  <2>2. d \in Nat /\ d <= m /\ u \in Nat /\ w <= u /\ w \in Nat
    BY <1>3, <1>9, <1>10, <1>11, <1>12, <1>2, PositionsOrder
  <2>3. v * m < Alpha * w /\ Alpha \in Nat
    <3>1. Alpha \in Nat
      BY VerdictConstants
    <3>2. raw[j] = p[family[j]]
      BY <1>8
    <3> QED
      BY <1>6, <3>1, <3>2
  <2> HIDE DEF v, d, u, w
  <2>4. v * d <= v * m /\ Alpha * w <= Alpha * u
    BY <1>2, <2>1, <2>2, <2>3, LessTimes
  <2>5. v * d \in Int /\ v * m \in Int /\ Alpha * w \in Int /\ Alpha * u \in Int
    BY <1>2, <2>1, <2>2, <2>3
  <2>6. v * d < Alpha * u
    BY <2>3, <2>4, <2>5
  <2> QED
    BY <2>6 DEF v, d, u
<1> QED
  BY <1>13, <1>14 DEF Discoveries, p

\* A discovery has a corrected p-value below alpha.
LEMMA DiscoveryIsBelow ==
    ASSUME NEW results, ResultsOk(results),
           NEW test \in Discoveries([k \in Tried(results) |-> PValue(results, k)], Alpha)
    PROVE  test \in Tried(results) /\ Below(Correction(results, test), Alpha)
<1> DEFINE family == Family(results)
           raw == Raw(results, family)
           p == [k \in Tried(results) |-> PValue(results, k)]
<1>1. PICK n \in Nat :
        /\ family \in [1 .. n -> Tried(results)]
        /\ \A j, k \in 1 .. n : family[j] = family[k] => j = k
        /\ \A k \in Tried(results) : \E j \in 1 .. n : family[j] = k
        /\ raw \in Seq(Int) /\ Len(raw) = n
        /\ \A j \in 1 .. n : raw[j] = PValue(results, family[j])
  BY FamilyIs
<1>2. Correction(results, test) = IF test \in Range(family) THEN bh_fdr(raw)[Place(family, test)] ELSE None
  BY DEF Correction
<1> HIDE DEF family, raw
<1>3. DOMAIN raw = 1 .. n /\ DOMAIN family = 1 .. n
  BY <1>1
<1>4. DOMAIN p = Tried(results) /\ \A k \in Tried(results) : p[k] = PValue(results, k)
  OBVIOUS
<1>5. /\ test \in DOMAIN p
      /\ \E m \in DOMAIN p :
            /\ p[test] <= p[m]
            /\ p[m] * Cardinality(DOMAIN p) < Alpha * Cardinality({l \in DOMAIN p : p[l] <= p[m]})
  BY DEF Discoveries, p
<1> HIDE DEF p
<1>6. PICK i \in 1 .. n : i = Place(family, test) /\ family[i] = test
  BY <1>1, <1>3, <1>4, <1>5 DEF Place
<1>7. PICK m \in DOMAIN p :
        /\ p[test] <= p[m]
        /\ p[m] * Cardinality(DOMAIN p) < Alpha * Cardinality({l \in DOMAIN p : p[l] <= p[m]})
  BY <1>5
<1>8. PICK h \in 1 .. n : family[h] = m
  BY <1>1, <1>4
<1>9. \A k \in 1 .. n : family[k] \in DOMAIN p /\ raw[k] = p[family[k]] /\ raw[k] \in Int
  BY <1>1, <1>3, <1>4
<1> DEFINE U == {k \in 1 .. n : raw[k] <= raw[h]}
           V == {l \in DOMAIN p : p[l] <= p[m]}
           c == Cardinality(U)
<1>10. IsFiniteSet(1 .. n) /\ Cardinality(1 .. n) = n
  BY FS_Interval
<1>11. IsFiniteSet(U) /\ c \in Nat /\ c <= n
  BY <1>10, FS_Subset, FS_CardinalityType
<1>12. Cardinality(DOMAIN p) = n
  <2>1. family \in Bijection(1 .. n, DOMAIN p)
    BY <1>1, <1>4 DEF Bijection, Injection, IsInjective, Surjection
  <2> QED
    BY <1>10, <2>1, FS_Bijection DEF ExistsBijection
<1>13. Cardinality(V) = c
  <2> DEFINE f == [k \in U |-> family[k]]
  <2>1. \A k \in U : f[k] \in V
    BY <1>8, <1>9
  <2>2. \A k, l \in U : f[k] = f[l] => k = l
    BY <1>1
  <2>3. \A l \in V : \E k \in U : f[k] = l
    BY <1>1, <1>4, <1>8, <1>9
  <2>4. f \in Bijection(U, V)
    <3> HIDE DEF U, V
    <3>1. f \in [U -> V]
      BY <2>1
    <3> HIDE DEF f
    <3> QED
      BY <2>2, <2>3, <3>1 DEF Bijection, Injection, IsInjective, Surjection
  <2> HIDE DEF f, U, V
  <2> QED
    BY <1>11, <2>4, FS_Bijection DEF ExistsBijection
<1>14. raw[h] * n < Alpha * c
  BY <1>7, <1>8, <1>9, <1>12, <1>13
<1>15. i \in U /\ h \in U
  BY <1>6, <1>7, <1>8, <1>9
<1>16. c \in 1 .. n
  <2>1. c # 0
    BY <1>11, <1>15, FS_EmptySet
  <2> QED
    BY <1>11, <2>1
<1>17. PICK j \in DOMAIN raw : Position(raw, j) = c
  <2> HIDE DEF c
  <2>1. c \in 1 .. Len(raw)
    BY <1>1, <1>16
  <2> QED
    BY <1>1, <2>1, AtPosition
<1> DEFINE under(k) == {l \in DOMAIN raw : raw[l] < raw[k] \/ (raw[l] = raw[k] /\ l <= k)}
<1>18. \A k \in 1 .. n : Position(raw, k) = Cardinality(under(k)) /\ IsFiniteSet(under(k))
  <2>1. \A k \in 1 .. n : under(k) \subseteq 1 .. n
    BY <1>3
  <2> QED
    BY <1>10, <2>1, FS_Subset DEF Position
<1>19. raw[j] <= raw[h]
  <2>1. SUFFICES ASSUME raw[h] < raw[j] PROVE FALSE
    BY <1>3, <1>9
  <2>2. U \union {j} \subseteq under(j)
    BY <1>3, <1>9, <2>1
  <2>3. j \notin U
    BY <1>3, <1>9, <2>1
  <2>4. IsFiniteSet(U \union {j}) /\ Cardinality(U \union {j}) = c + 1
    BY <1>11, <2>3, FS_AddElement
  <2> HIDE DEF U, under
  <2>5. Cardinality(U \union {j}) <= Cardinality(under(j))
    BY <1>3, <1>18, <2>2, FS_Subset
  <2> QED
    BY <1>3, <1>11, <1>17, <1>18, <2>4, <2>5
<1>20. Position(raw, i) <= Position(raw, j)
  <2>1. under(i) \subseteq U
    BY <1>3, <1>9, <1>15
  <2> HIDE DEF U, under
  <2>2. Cardinality(under(i)) <= c
    BY <1>11, <2>1, FS_Subset DEF c
  <2> QED
    BY <1>17, <1>18, <2>2
<1>21. raw[j] * n < Alpha * c
  <2>1. raw[j] * n <= raw[h] * n
    BY <1>3, <1>9, <1>19, NatTimes
  <2>2. raw[j] * n \in Int /\ raw[h] * n \in Int /\ Alpha * c \in Int
    BY <1>3, <1>9, <1>11, VerdictConstants
  <2> HIDE DEF c
  <2> QED
    BY <1>14, <2>1, <2>2
<1>22. Below(bh_fdr(raw)[i], Alpha)
  <2> HIDE DEF c
  <2>1. raw \in Seq(Int) /\ Alpha \in 0 .. 1000 /\ i \in DOMAIN raw /\ j \in DOMAIN raw
    BY <1>1, <1>3, <1>17, VerdictConstants
  <2>2. Position(raw, i) <= Position(raw, j) /\ raw[j] * Len(raw) < Alpha * Position(raw, j)
    BY <1>1, <1>17, <1>20, <1>21
  <2> QED
    BY <2>1, <2>2, RanksUpToBelow
<1>23. test \in Range(family)
  BY <1>3, <1>6 DEF Range
<1> QED
  BY <1>2, <1>4, <1>5, <1>6, <1>22, <1>23

\* A result with a correction of each of its tests.
WithQ(result, q) == [result EXCEPT !.tests = [t \in DOMAIN @ |-> [@[t] EXCEPT !.q = q[t]]]]

LEMMA WithQIs ==
    ASSUME NEW result, ResultOk(result), NEW q
    PROVE  /\ DOMAIN WithQ(result, q) = {"tokens", "tests", "verdict"}
           /\ WithQ(result, q).tokens = result.tokens
           /\ WithQ(result, q).verdict = result.verdict
           /\ DOMAIN WithQ(result, q).tests = DOMAIN result.tests
           /\ \A t \in DOMAIN result.tests :
                WithQ(result, q).tests[t].p = result.tests[t].p /\ WithQ(result, q).tests[t].q = q[t]
<1> DEFINE tests == [t \in DOMAIN result.tests |-> [result.tests[t] EXCEPT !.q = q[t]]]
<1>1. WithQ(result, q) = [result EXCEPT !.tests = tests]
  BY DEF WithQ
<1>2. DOMAIN tests = DOMAIN result.tests
  OBVIOUS
<1>3. ASSUME NEW t \in DOMAIN result.tests PROVE tests[t].p = result.tests[t].p /\ tests[t].q = q[t]
  <2>1. {"p", "q"} \subseteq DOMAIN result.tests[t]
    BY DEF ResultOk
  <2>2. tests[t] = [result.tests[t] EXCEPT !.q = q[t]]
    OBVIOUS
  <2> HIDE DEF tests
  <2> QED
    BY <2>1, <2>2
<1> HIDE DEF tests
<1>4. DOMAIN result = {"tokens", "tests", "verdict"}
  BY DEF ResultOk
<1>5. /\ DOMAIN WithQ(result, q) = {"tokens", "tests", "verdict"}
      /\ WithQ(result, q).tokens = result.tokens
      /\ WithQ(result, q).verdict = result.verdict
      /\ WithQ(result, q).tests = tests
  BY <1>1, <1>4
<1> QED
  BY <1>2, <1>3, <1>5

\* The correction changes the corrected p-values and nothing else.
OnlyCorrected(results, corrected) ==
    /\ DOMAIN corrected = DOMAIN results
    /\ \A i \in DOMAIN results :
        /\ DOMAIN corrected[i] = {"tokens", "tests", "verdict"}
        /\ corrected[i].tokens = results[i].tokens
        /\ corrected[i].verdict = results[i].verdict
        /\ DOMAIN corrected[i].tests = DOMAIN results[i].tests
        /\ \A t \in DOMAIN results[i].tests :
            /\ corrected[i].tests[t].p = results[i].tests[t].p
            /\ corrected[i].tests[t].q = Correction(results, <<i, t>>)

LEMMA CorrectionOnly ==
    ASSUME NEW results, ResultsOk(results)
    PROVE  OnlyCorrected(results, WithCorrected(results))
<1> DEFINE family == Family(results)
           raw == Raw(results, family)
           qs == bh_fdr(raw) \o <<>>
           Q(i, t) == IF <<i, t>> \in Range(family) THEN qs[Place(family, <<i, t>>)] ELSE None
           Full(i) == [results[i] EXCEPT !.tests = [t \in DOMAIN @ |-> [@[t] EXCEPT !.q = Q(i, t)]]]
           all == [i \in DOMAIN results |-> Full(i)]
           corrected == WithCorrected(results)
<1>1. corrected = all \o <<>>
  BY DEF WithCorrected, Once
<1>2. qs = bh_fdr(raw)
  <2>1. raw \in Seq(Int)
    <3> HIDE DEF raw, family
    <3> QED
      BY FamilyIs DEF raw, family
  <2> DEFINE f == bh_fdr(raw)
             R == {f[k] : k \in DOMAIN raw}
  <2> HIDE DEF raw
  <2>2. DOMAIN f = DOMAIN raw /\ f = [k \in DOMAIN raw |-> f[k]]
    <3> DEFINE chain == ChainOf(raw)
    <3>1. f = [k \in DOMAIN raw |-> chain[Position(raw, k)]]
      BY Zenon DEF bh_fdr, ChainOf
    <3> HIDE DEF chain, f
    <3> QED
      BY <3>1
  <2> HIDE DEF f
  <2>3. f \in Seq(R)
    BY <2>1, <2>2
  <2>4. f \o <<>> = f
    BY <2>3, ConcatEmptySeq
  <2> QED
    BY <2>4 DEF f
<1>3. ASSUME NEW i \in DOMAIN results, NEW t PROVE Q(i, t) = Correction(results, <<i, t>>)
  BY <1>2 DEF Correction
<1> HIDE DEF qs
<1>4. DOMAIN all = DOMAIN results /\ \A i \in DOMAIN results : all[i] = Full(i)
  OBVIOUS
<1>5. corrected = all
  <2>1. DOMAIN all = 1 .. Len(results) /\ Len(results) \in Nat
    BY <1>4 DEF ResultsOk
  <2>2. all = [i \in DOMAIN all |-> all[i]]
    OBVIOUS
  <2> HIDE DEF all
  <2>3. all \in Seq({all[i] : i \in DOMAIN all})
    BY <2>1, <2>2
  <2> QED
    BY <1>1, <2>3, ConcatEmptySeq
<1>6. ASSUME NEW i \in DOMAIN results
      PROVE  /\ DOMAIN Full(i) = {"tokens", "tests", "verdict"}
             /\ Full(i).tokens = results[i].tokens
             /\ Full(i).verdict = results[i].verdict
             /\ DOMAIN Full(i).tests = DOMAIN results[i].tests
             /\ \A t \in DOMAIN results[i].tests :
                    Full(i).tests[t].p = results[i].tests[t].p /\ Full(i).tests[t].q = Q(i, t)
  <2> DEFINE q == [t \in DOMAIN results[i].tests |-> Q(i, t)]
  <2>1. ResultOk(results[i])
    BY DEF ResultsOk
  <2>2. \A t \in DOMAIN results[i].tests : q[t] = Q(i, t)
    OBVIOUS
  <2>3. Full(i) = WithQ(results[i], q)
    <3>1. [t \in DOMAIN results[i].tests |-> [results[i].tests[t] EXCEPT !.q = Q(i, t)]]
            = [t \in DOMAIN results[i].tests |-> [results[i].tests[t] EXCEPT !.q = q[t]]]
      <4> HIDE DEF Q, q
      <4> QED
        BY <2>2
    <3> HIDE DEF Q, q
    <3> QED
      BY <3>1 DEF WithQ
  <2> HIDE DEF Full, q, Q
  <2> QED
    BY <2>1, <2>2, <2>3, WithQIs
<1> HIDE DEF all, Full, Q
<1>7. ASSUME NEW i \in DOMAIN results
      PROVE  /\ DOMAIN corrected[i] = {"tokens", "tests", "verdict"}
             /\ corrected[i].tokens = results[i].tokens
             /\ corrected[i].verdict = results[i].verdict
             /\ DOMAIN corrected[i].tests = DOMAIN results[i].tests
             /\ \A t \in DOMAIN results[i].tests :
                 /\ corrected[i].tests[t].p = results[i].tests[t].p
                 /\ corrected[i].tests[t].q = Correction(results, <<i, t>>)
  <2>1. corrected[i] = Full(i)
    BY <1>4, <1>5
  <2> HIDE DEF corrected
  <2> QED
    BY <1>3, <1>6, <2>1
<1> QED
  BY <1>4, <1>5, <1>7 DEF corrected, OnlyCorrected

-----------------------------------------------------------------------------
(* What a verdict rests on.                                                *)

LEMMA JudgedIs ==
    ASSUME NEW n, NEW tests, NEW corrected \in BOOLEAN
    PROVE  LET verdict == Judged(n, tests, corrected) IN
           /\ verdict.class # "REPLICATED EVIDENCE"
           /\ verdict.on \subseteq Significant(tests, corrected)
           /\ n < MinSample \/ DOMAIN tests = {} => verdict.on = {}
<1> DEFINE surviving == Surviving(tests, corrected)
<1>1. surviving \subseteq Significant(tests, corrected)
  BY DEF Surviving
<1>2. DOMAIN tests = {} => Tested(tests) = {}
  BY DEF Tested
<1> DEFINE verdict == Judged(n, tests, corrected)
           sure == IF surviving = Tested(tests) THEN "SUPPORTED" ELSE "PARTIALLY SUPPORTED"
<1>3. \/ verdict = [class |-> "INSUFFICIENT EVIDENCE", on |-> {}]
      \/ verdict = [class |-> "KILL", on |-> {}]
      \/ ~(n < MinSample) /\ Tested(tests) # {} /\ verdict = [class |-> sure, on |-> surviving]
  BY DEF Judged
<1>4. sure \in {"SUPPORTED", "PARTIALLY SUPPORTED"}
  OBVIOUS
<1> HIDE DEF surviving, verdict, sure
<1>5. /\ verdict.class \in {"INSUFFICIENT EVIDENCE", "KILL", "SUPPORTED", "PARTIALLY SUPPORTED"}
      /\ \/ verdict.on = {}
         \/ ~(n < MinSample) /\ Tested(tests) # {} /\ verdict.on = surviving
  <2>1. CASE verdict = [class |-> "INSUFFICIENT EVIDENCE", on |-> {}]
    BY <2>1
  <2>2. CASE verdict = [class |-> "KILL", on |-> {}]
    BY <2>2
  <2>3. CASE ~(n < MinSample) /\ Tested(tests) # {} /\ verdict = [class |-> sure, on |-> surviving]
    <3>1. verdict.class = sure /\ verdict.on = surviving
      BY <2>3
    <3> QED
      BY <1>4, <2>3, <3>1
  <2> QED
    BY <1>3, <2>1, <2>2, <2>3
<1>6. verdict.on \subseteq Significant(tests, corrected)
  BY <1>1, <1>5
<1>7. n < MinSample \/ DOMAIN tests = {} => verdict.on = {}
  BY <1>2, <1>5
<1> QED
  BY <1>5, <1>6, <1>7 DEF verdict

LEMMA ReplicatedIs ==
    ASSUME NEW rows, NEW tests
    PROVE  LET verdict == Replicated(rows, tests) IN
           /\ verdict.on \subseteq Significant(tests, TRUE)
           /\ verdict.class = "REPLICATED EVIDENCE" =>
                /\ ~(Cardinality(TokensIn(rows)) < MinSample)
                /\ \E t \in Range(Targets) : ArchivesAgree(rows, t)
<1> DEFINE significant == {i \in DOMAIN Targets : Targets[i] \in Significant(tests, TRUE)}
           t == Targets[Min(significant)]
           stands == /\ significant # {}
                     /\ ~tests[t].confounded /\ tests[t].robust /\ tests[t].stable
                     /\ ArchivesAgree(rows, t)
                     /\ WalksForward(rows, t)
<1>1. significant # {} => t \in Significant(tests, TRUE) /\ t \in Range(Targets)
  <2> SUFFICES ASSUME significant # {} PROVE t \in Significant(tests, TRUE) /\ t \in Range(Targets)
    OBVIOUS
  <2>1. \A i \in significant : i \in 1 .. 2
    BY TargetNames
  <2>2. \E i \in significant : \A j \in significant : i <= j
    <3>1. CASE 1 \in significant
      <4> HIDE DEF significant
      <4>1. \A j \in significant : 1 <= j
        BY <2>1
      <4> QED
        BY <3>1, <4>1
    <3>2. CASE 1 \notin significant
      <4> HIDE DEF significant
      <4>1. \A j \in significant : j = 2
        BY <2>1, <3>2
      <4> QED
        BY <4>1
    <3> QED
      BY <3>1, <3>2
  <2>3. Min(significant) \in significant
    <3> HIDE DEF significant
    <3> QED
      BY <2>2 DEF Min
  <2> QED
    BY <2>3 DEF Range
<1>2. Replicated(rows, tests) =
        IF Cardinality(TokensIn(rows)) < MinSample THEN [class |-> "INSUFFICIENT EVIDENCE", on |-> {}]
        ELSE IF stands THEN [class |-> "REPLICATED EVIDENCE", on |-> {t}]
        ELSE [class |-> "FAILED REPLICATION", on |-> {}]
  BY DEF Replicated
<1>3. stands => significant # {} /\ ArchivesAgree(rows, t)
  OBVIOUS
<1> DEFINE verdict == Replicated(rows, tests)
<1>4. \/ verdict = [class |-> "INSUFFICIENT EVIDENCE", on |-> {}]
      \/ verdict = [class |-> "FAILED REPLICATION", on |-> {}]
      \/ ~(Cardinality(TokensIn(rows)) < MinSample) /\ stands /\ verdict = [class |-> "REPLICATED EVIDENCE", on |-> {t}]
  <2> HIDE DEF stands, t, significant
  <2> QED
    BY <1>2
<1> HIDE DEF significant, t, stands, verdict
<1>5. \/ verdict.on = {} /\ verdict.class \in {"INSUFFICIENT EVIDENCE", "FAILED REPLICATION"}
      \/ ~(Cardinality(TokensIn(rows)) < MinSample) /\ stands /\ verdict.on = {t}
  <2>1. CASE verdict = [class |-> "INSUFFICIENT EVIDENCE", on |-> {}]
    BY <2>1
  <2>2. CASE verdict = [class |-> "FAILED REPLICATION", on |-> {}]
    BY <2>2
  <2>3. CASE /\ ~(Cardinality(TokensIn(rows)) < MinSample)
             /\ stands /\ verdict = [class |-> "REPLICATED EVIDENCE", on |-> {t}]
    <3>1. verdict.on = {t}
      BY <2>3
    <3> QED
      BY <2>3, <3>1
  <2> QED
    BY <1>4, <2>1, <2>2, <2>3
<1>6. verdict.on \subseteq Significant(tests, TRUE)
  BY <1>1, <1>3, <1>5
<1>7. verdict.class = "REPLICATED EVIDENCE" =>
        ~(Cardinality(TokensIn(rows)) < MinSample) /\ \E u \in Range(Targets) : ArchivesAgree(rows, u)
  BY <1>1, <1>3, <1>5
<1> QED
  BY <1>6, <1>7 DEF verdict

\* Archives that agree are two, with three tokens of their own and one sign.
LEMMA AgreeingArchives ==
    ASSUME NEW rows, NEW t, ArchivesAgree(rows, t), IsFiniteSet({r.archive : r \in rows})
    PROVE  \E a, b \in {r.archive : r \in rows} :
                /\ a # b
                /\ \A c \in {a, b} :
                    /\ Cardinality(Own(rows, c)) >= 3
                    /\ Has(Association(Ordered({r \in rows : r.archive = c}, t), t))
                /\ SignIn(rows, a, t) = SignIn(rows, b, t)
<1> DEFINE named == {r.archive : r \in rows}
           own == {a \in named : Cardinality(TokensIn(InArchive(rows, a))) >= 3}
           Of(a) == Association(Ordered(InArchive(rows, a), t), t)
           known == {b \in own : Has(Of(b))}
           signs == SignsByArchive(rows, t)
<1>1. signs = [a \in known |-> SignOf(Of(a))]
  BY DEF SignsByArchive
<1>2. Cardinality(DOMAIN signs) >= 2 /\ Cardinality(Range(signs)) = 1
  BY DEF ArchivesAgree
<1>3. DOMAIN signs = known /\ \A a \in known : signs[a] = SignOf(Of(a)) /\ signs[a] \in {-1, 1}
  BY <1>1 DEF SignOf
<1>4. known \subseteq named
  OBVIOUS
<1>5. \A a \in named : InArchive(rows, a) = {r \in rows : r.archive = a}
  BY DEF InArchive
<1>6. \A a \in known : /\ Cardinality(Own(rows, a)) >= 3 /\ Has(Of(a))
                       /\ SignIn(rows, a, t) = SignOf(Of(a))
                       /\ Of(a) = Association(Ordered({r \in rows : r.archive = a}, t), t)
  BY <1>5 DEF Own, SignIn
<1> HIDE DEF signs, known, Of, named
<1>7. IsFiniteSet(known) /\ Cardinality(known) \in Nat
  BY <1>4, FS_Subset, FS_CardinalityType DEF named
<1>8. PICK a \in known, b \in known : a # b
  <2>1. known # {}
    BY <1>2, <1>3, FS_EmptySet
  <2>2. PICK a : a \in known
    BY <2>1
  <2>3. Cardinality({a}) = 1
    BY FS_Singleton
  <2>4. known # {a}
    BY <1>2, <1>3, <2>3
  <2> QED
    BY <2>2, <2>4
<1>9. signs[a] = signs[b]
  <2>1. Range(signs) \subseteq {-1, 1}
    BY <1>3 DEF Range
  <2>2. IsFiniteSet({-1, 1})
    <3>1. {-1, 1} = {-1} \union {1} /\ IsFiniteSet({-1}) /\ IsFiniteSet({1})
      BY FS_Singleton
    <3> QED
      BY <3>1, FS_Union
  <2>3. IsFiniteSet(Range(signs))
    BY <2>1, <2>2, FS_Subset
  <2>4. PICK s : Range(signs) = {s}
    BY <1>2, <2>3, FS_Singleton
  <2>5. signs[a] \in Range(signs) /\ signs[b] \in Range(signs)
    BY <1>3, <1>8 DEF Range
  <2> QED
    BY <2>4, <2>5
<1>10. SignIn(rows, a, t) = SignIn(rows, b, t)
  BY <1>3, <1>6, <1>9
<1>11. a \in named /\ b \in named
  BY <1>4
<1> QED
  BY <1>6, <1>8, <1>10, <1>11 DEF named

LEMMA EvaluatedIs ==
    ASSUME NEW rows, NEW t, NEW test \in Evaluated(rows, t)
    PROVE  {"p", "q"} \subseteq DOMAIN test /\ test.p \in PValues \union {None}
<1> DEFINE seq == Ordered(rows, t)
           r == Association(seq, t)
           reviewed == Cardinality(rows) >= MinSample
           ps == block_permutation_test(Len(seq), r, PValues)
           cs == IF Has(r) /\ reviewed THEN MayBeConfounded(seq) ELSE {FALSE}
           rs == {Has(r) /\ reviewed /\ Robust(seq, t, r)}
           ss == {Has(r) /\ reviewed /\ Stable(seq, t)}
<1>1. Evaluated(rows, t) = [r : {r}, p : ps, q : {None}, confounded : cs, robust : rs, stable : ss]
  BY DEF Evaluated, Once
<1>2. ps \subseteq PValues \union {None}
  BY DEF block_permutation_test
<1> HIDE DEF seq, r, ps, cs, rs, ss
<1> QED
  BY <1>1, <1>2

LEMMA ResultsAreOk ==
    ASSUME NEW rows, IsFiniteSet(TokensIn(rows)), NEW result \in Results(rows)
    PROVE  ResultOk(result)
<1> DEFINE n == Cardinality(TokensIn(rows))
           Result(tests) == [tokens |-> n, tests |-> tests, verdict |-> Judged(n, tests, FALSE)]
<1>1. n \in Nat
  BY FS_CardinalityType
<1>2. PICK tests :
        /\ result = Result(tests)
        /\ \/ tests = <<>>
           \/ tests \in [classified : Evaluated(rows, "classified"), direction : Evaluated(rows, "direction")]
  BY DEF Results
<1>3. \A t \in DOMAIN tests :
        /\ t \in Range(Targets) /\ {"p", "q"} \subseteq DOMAIN tests[t]
        /\ tests[t].p \in PValues \union {None}
  <2>1. CASE tests = <<>>
    BY <2>1
  <2>2. CASE tests \in [classified : Evaluated(rows, "classified"), direction : Evaluated(rows, "direction")]
    <3>1. /\ DOMAIN tests = {"classified", "direction"}
          /\ tests["classified"] \in Evaluated(rows, "classified")
          /\ tests["direction"] \in Evaluated(rows, "direction")
      BY <2>2
    <3> QED
      BY <3>1, EvaluatedIs, TargetNames
  <2> QED
    BY <1>2, <2>1, <2>2
<1> HIDE DEF n
<1>4. /\ DOMAIN result = {"tokens", "tests", "verdict"}
      /\ result.tokens = n /\ result.tests = tests /\ result.verdict = Judged(n, tests, FALSE)
  BY <1>2
<1> QED
  BY <1>1, <1>3, <1>4 DEF ResultOk

\* The correction rejects the discoveries among the tests of these results,
\* and every verdict rests on some of them.
SurvivorsFound(results) ==
    LET found == Discoveries([test \in Tried(results) |-> PValue(results, test)], Alpha)
    IN  /\ Rejected(results) = found
        /\ \A i \in DOMAIN results : \A t \in results[i].verdict.on : <<i, t>> \in found

LEMMA SurvivorsAreFound ==
    ASSUME NEW results, ResultsOk(results), NEW done, DOMAIN done = DOMAIN results,
           \A i \in DOMAIN results :
                /\ done[i].tests = WithCorrected(results)[i].tests
                /\ done[i].verdict.on = {} \/ done[i].verdict.on \subseteq Significant(done[i].tests, TRUE)
    PROVE  SurvivorsFound(done)
<1> DEFINE p == [test \in Tried(results) |-> PValue(results, test)]
           q == [test \in Tried(done) |-> PValue(done, test)]
<1>1. ASSUME NEW i \in DOMAIN results
      PROVE  /\ DOMAIN done[i].tests = DOMAIN results[i].tests
             /\ \A t \in DOMAIN results[i].tests :
                    /\ done[i].tests[t].p = results[i].tests[t].p
                    /\ done[i].tests[t].q = Correction(results, <<i, t>>)
  <2>1. PICK corrected : corrected = WithCorrected(results)
    OBVIOUS
  <2>2. OnlyCorrected(results, corrected) /\ done[i].tests = corrected[i].tests
    BY <2>1, CorrectionOnly
  <2> QED
    BY <2>2 DEF OnlyCorrected
<1>2. ASSUME NEW test \in (DOMAIN results) \X Range(Targets) PROVE PValue(done, test) = PValue(results, test)
  <2>1. test[1] \in DOMAIN results
    OBVIOUS
  <2> QED
    BY <1>1, <2>1 DEF PValue
<1>3. Tried(done) = Tried(results)
  <2>1. Tried(done) \subseteq (DOMAIN results) \X Range(Targets)
    BY DEF Tried
  <2>2. ASSUME NEW test \in (DOMAIN results) \X Range(Targets)
        PROVE  test \in Tried(done) <=> test \in Tried(results)
    BY <1>2 DEF Tried
  <2>3. Tried(results) \subseteq (DOMAIN results) \X Range(Targets)
    BY DEF Tried
  <2> QED
    BY <2>1, <2>2, <2>3
<1>4. q = p
  <2>1. \A test \in Tried(results) : PValue(done, test) = PValue(results, test)
    BY <1>2 DEF Tried
  <2> QED
    BY <1>3, <2>1
<1>5. ASSUME NEW i \in DOMAIN results, NEW t \in done[i].verdict.on PROVE <<i, t>> \in Discoveries(p, Alpha)
  <2>1. t \in Significant(done[i].tests, TRUE)
    OBVIOUS
  <2>2. t \in DOMAIN done[i].tests /\ Has(done[i].tests[t].q) /\ Below(done[i].tests[t].q, Alpha)
    BY <2>1 DEF Significant, Tested
  <2>3. Has(Correction(results, <<i, t>>)) /\ Below(Correction(results, <<i, t>>), Alpha)
    BY <1>1, <2>2
  <2>4. <<i, t>> \in Range(Family(results))
    BY <2>3 DEF Correction, Has
  <2> QED
    BY <2>3, <2>4, BelowIsDiscovery
<1>6. \A i \in DOMAIN done : \A t \in done[i].verdict.on : <<i, t>> \in Discoveries(q, Alpha)
  <2> HIDE DEF p, q
  <2> QED
    BY <1>4, <1>5
<1>7. ASSUME NEW test \in Tried(done)
      PROVE  /\ Correction(results, test) = done[test[1]].tests[test[2]].q
             /\ test \in Range(Family(results))
  <2>1. test[1] \in DOMAIN results /\ test = <<test[1], test[2]>> /\ Has(PValue(done, test))
    BY DEF Tried
  <2>2. test[2] \in DOMAIN done[test[1]].tests
    BY <2>1 DEF PValue, Has
  <2>3. Correction(results, test) = done[test[1]].tests[test[2]].q
    BY <1>1, <2>1, <2>2
  <2>4. test \in Range(Family(results))
    <3>1. test \in Tried(results)
      BY <1>3
    <3>2. PICK n \in Nat : /\ Family(results) \in [1 .. n -> Tried(results)]
                           /\ \A k \in Tried(results) : \E j \in 1 .. n : Family(results)[j] = k
      BY FamilyIs
    <3> QED
      BY <3>1, <3>2 DEF Range
  <2> QED
    BY <2>3, <2>4
<1>8. Rejected(done) = Discoveries(p, Alpha)
  <2>1. Rejected(done) = {test \in Tried(done) : Below(done[test[1]].tests[test[2]].q, Alpha)}
    BY DEF Rejected, Tried
  <2>2. ASSUME NEW test \in Tried(done), Below(Correction(results, test), Alpha)
        PROVE  test \in Discoveries(p, Alpha)
    <3>1. test \in Range(Family(results))
      BY <1>7
    <3> QED
      BY <2>2, <3>1, BelowIsDiscovery
  <2>3. ASSUME NEW test \in Discoveries(p, Alpha)
        PROVE  test \in Tried(done) /\ Below(Correction(results, test), Alpha)
    BY <1>3, DiscoveryIsBelow
  <2> HIDE DEF p
  <2> QED
    BY <1>7, <2>1, <2>2, <2>3
<1>9. Rejected(done) = Discoveries(q, Alpha)
  BY <1>4, <1>8
<1> HIDE DEF p
<1> QED
  BY <1>6, <1>9, Zenon DEF SurvivorsFound

LEMMA ConcludedResults ==
    ASSUME Conclude, DOMAIN study = StudyFields, ResultsOk(study.results)
    PROVE  LET corrected == WithCorrected(study.results) IN
           /\ DOMAIN study' = StudyFields
           /\ study'.step = "done" /\ study'.phase = study.phase
           /\ study'.rows = study.rows /\ study'.archives = study.archives
           /\ DOMAIN study'.results = DOMAIN study.results
           /\ \A i \in DOMAIN study.results :
                /\ study'.results[i].tests = corrected[i].tests
                /\ study'.results[i].verdict = Final(i, corrected[i])
<1> DEFINE corrected == WithCorrected(study.results)
           final == [i \in DOMAIN corrected |-> [corrected[i] EXCEPT !.verdict = Final(i, corrected[i])]]
           results == final \o <<>>
<1>1. \E overall : study' = [study EXCEPT !.step = "done", !.results = results, !.overall = overall]
  BY DEF Conclude, Once
<1>2. /\ DOMAIN corrected = DOMAIN study.results
      /\ \A i \in DOMAIN corrected : DOMAIN corrected[i] = {"tokens", "tests", "verdict"}
      /\ DOMAIN corrected = 1 .. Len(study.results) /\ Len(study.results) \in Nat
  <2>1. OnlyCorrected(study.results, corrected)
    BY CorrectionOnly
  <2>2. DOMAIN study.results = 1 .. Len(study.results) /\ Len(study.results) \in Nat
    BY DEF ResultsOk
  <2> HIDE DEF corrected
  <2> QED
    BY <2>1, <2>2 DEF OnlyCorrected
<1> HIDE DEF corrected
<1>3. results = final
  <2> DEFINE R == {final[i] : i \in DOMAIN corrected}
  <2>1. final = [i \in DOMAIN corrected |-> final[i]]
    OBVIOUS
  <2> HIDE DEF final
  <2>2. final \in Seq(R)
    BY <1>2, <2>1
  <2> HIDE DEF R
  <2> QED
    BY <2>2, ConcatEmptySeq
<1>4. ASSUME NEW i \in DOMAIN corrected
      PROVE  final[i].tests = corrected[i].tests /\ final[i].verdict = Final(i, corrected[i])
  <2> DEFINE verdict == Final(i, corrected[i])
  <2>1. final[i] = [corrected[i] EXCEPT !.verdict = verdict]
    OBVIOUS
  <2> HIDE DEF final, verdict
  <2> QED
    BY <1>2, <2>1 DEF verdict
<1>5. DOMAIN final = DOMAIN corrected
  OBVIOUS
<1> HIDE DEF final, results
<1>6. /\ DOMAIN study' = StudyFields
      /\ study'.step = "done" /\ study'.phase = study.phase
      /\ study'.rows = study.rows /\ study'.archives = study.archives
      /\ study'.results = final
  BY <1>1, <1>3 DEF StudyFields
<1> QED
  BY <1>2, <1>4, <1>5, <1>6 DEF corrected

\* What the rows of a study are of: finitely many archives and tokens.
LEMMA RowsAreFew ==
    ASSUME RowsInv, NEW i \in DOMAIN study.rows
    PROVE  /\ {r.archive : r \in study.rows[i]} \subseteq study.archives
           /\ IsFiniteSet({r.archive : r \in study.rows[i]})
           /\ IsFiniteSet(TokensIn(study.rows[i]))
<1> DEFINE rows == study.rows[i]
<1>1. \A r \in rows : r.archive \in study.archives /\ RowRead(r, Feature[HypothesisIds[i]])
  BY DEF RowsInv
<1>2. \A r \in rows : r.archive \in Archives /\ r.token \in Range(TokenOrder)
  <2>1. SUFFICES ASSUME NEW r \in rows PROVE r.archive \in Archives /\ r.token \in Range(TokenOrder)
    OBVIOUS
  <2>2. r.archive \in Archives /\ r.token \in content[r.archive].universe
    BY <1>1 DEF RowRead
  <2>3. world \in DOMAIN Contents
    BY DEF RowsInv
  <2> QED
    BY <2>2, <2>3, ResearchConstants DEF content, Worlds, Archives
<1> HIDE DEF rows
<1>3. IsFiniteSet(Archives)
  <2>1. ArchiveOrder \in Seq(Archives) /\ Archives = {ArchiveOrder[k] : k \in DOMAIN ArchiveOrder}
    BY ResearchConstants DEF Archives
  <2>2. ArchiveOrder \in Surjection(1 .. Len(ArchiveOrder), Archives) /\ Len(ArchiveOrder) \in Nat
    BY <2>1 DEF Surjection
  <2>3. IsFiniteSet(1 .. Len(ArchiveOrder))
    BY <2>2, FS_Interval
  <2> QED
    BY <2>2, <2>3, FS_Surjection
<1>4. IsFiniteSet(Range(TokenOrder))
  <2>1. TokenOrder \in Seq(Range(TokenOrder))
    BY ResearchConstants
  <2>2. TokenOrder \in Surjection(1 .. Len(TokenOrder), Range(TokenOrder)) /\ Len(TokenOrder) \in Nat
    BY <2>1 DEF Surjection, Range
  <2>3. IsFiniteSet(1 .. Len(TokenOrder))
    BY <2>2, FS_Interval
  <2> QED
    BY <2>2, <2>3, FS_Surjection
<1>5. {r.archive : r \in rows} \subseteq study.archives /\ {r.archive : r \in rows} \subseteq Archives
  BY <1>1, <1>2
<1>6. TokensIn(rows) \subseteq Range(TokenOrder)
  BY <1>2 DEF TokensIn
<1>7. IsFiniteSet({r.archive : r \in rows}) /\ IsFiniteSet(TokensIn(rows))
  BY <1>3, <1>4, <1>5, <1>6, FS_Subset
<1> QED
  BY <1>5, <1>7 DEF rows

\* Rows whose verdict is that they replicate are independent and enough.
IndependentlyFound(rows, archives) ==
    /\ Cardinality(TokensIn(rows)) >= MinSample
    /\ \A a, b \in archives : a # b => Own(rows, a) \intersect Own(rows, b) = {}
    /\ \E a, b \in archives, t \in Range(Targets) :
        /\ a # b
        /\ \A c \in {a, b} :
            /\ Cardinality(Own(rows, c)) >= 3
            /\ Has(Association(Ordered({r \in rows : r.archive = c}, t), t))
        /\ SignIn(rows, a, t) = SignIn(rows, b, t)

LEMMA NotFewer == \A m, n \in Nat : ~(m < n) => m >= n
OBVIOUS

LEMMA ReplicatedIsIndependent ==
    ASSUME RowsInv, study.phase = "3c", NEW i \in DOMAIN study.rows, NEW tests,
           Replicated(study.rows[i], tests).class = "REPLICATED EVIDENCE"
    PROVE  IndependentlyFound(study.rows[i], study.archives)
<1>1. PICK rows : rows = study.rows[i]
  OBVIOUS
<1>2. /\ ~(Cardinality(TokensIn(rows)) < MinSample)
      /\ \E t \in Range(Targets) : ArchivesAgree(rows, t)
  BY <1>1, ReplicatedIs
<1>3. /\ {r.archive : r \in rows} \subseteq study.archives
      /\ IsFiniteSet({r.archive : r \in rows}) /\ IsFiniteSet(TokensIn(rows))
  BY <1>1, RowsAreFew
<1>4. Cardinality(TokensIn(rows)) >= MinSample
  <2>1. Cardinality(TokensIn(rows)) \in Nat /\ MinSample \in Nat
    BY <1>3, FS_CardinalityType, VerdictConstants
  <2> QED
    BY <1>2, <2>1, NotFewer, Zenon
<1>5. ASSUME NEW a, NEW b, a # b PROVE Own(rows, a) \intersect Own(rows, b) = {}
  <2>1. Apart(rows)
    BY <1>1 DEF RowsInv
  <2> QED
    BY <1>5, <2>1 DEF Apart, Own, TokensIn
<1>6. PICK t \in Range(Targets) : ArchivesAgree(rows, t)
  BY <1>2
<1>7. PICK a, b \in {r.archive : r \in rows} :
        /\ a # b
        /\ \A c \in {a, b} :
            /\ Cardinality(Own(rows, c)) >= 3
            /\ Has(Association(Ordered({r \in rows : r.archive = c}, t), t))
        /\ SignIn(rows, a, t) = SignIn(rows, b, t)
  BY <1>3, <1>6, AgreeingArchives
<1>8. a \in study.archives /\ b \in study.archives
  BY <1>3
<1> QED
  BY <1>1, <1>4, <1>5, <1>7, <1>8 DEF IndependentlyFound

-----------------------------------------------------------------------------
(* The verdicts.                                                           *)

VerdictsInv ==
    /\ study.step = "included" => study.results = <<>>
    /\ study.step = "evaluate" => ResultsOk(study.results)
    /\ study.step = "done" =>
        /\ SurvivorsFound(study.results)
        /\ \A i \in DOMAIN study.results :
            study.results[i].verdict.class = "REPLICATED EVIDENCE" =>
                IndependentlyFound(study.rows[i], study.archives)

\* What a study says in the end: nothing, or something of its discoveries,
\* and only phase 3C says that something replicated.
LEMMA FinalIs ==
    ASSUME NEW i, NEW before, ResultOk(before), NEW result,
           result.tokens = before.tokens, result.verdict = before.verdict,
           DOMAIN result.tests = DOMAIN before.tests
    PROVE  LET verdict == Final(i, result) IN
           /\ verdict.on = {} \/ verdict.on \subseteq Significant(result.tests, TRUE)
           /\ verdict.class = "REPLICATED EVIDENCE" =>
                study.phase = "3c" /\ verdict = Replicated(study.rows[i], result.tests)
<1>1. CASE study.phase = "3c"
  <2>1. PICK verdict : verdict = Replicated(study.rows[i], result.tests)
    OBVIOUS
  <2>2. verdict = Final(i, result)
    BY <1>1, <2>1 DEF Final
  <2>3. verdict.on \subseteq Significant(result.tests, TRUE)
    BY <2>1, ReplicatedIs
  <2> QED
    BY <1>1, <2>1, <2>2, <2>3
<1>2. CASE study.phase # "3c"
  <2>1. PICK verdict : verdict = Rejudged(result)
    OBVIOUS
  <2>2. verdict = Final(i, result)
    BY <1>2, <2>1 DEF Final
  <2>3. CASE result.tests # <<>> /\ result.tokens >= MinSample
    <3>1. verdict = Judged(result.tokens, result.tests, TRUE)
      BY <2>1, <2>3 DEF Rejudged
    <3>2. verdict.class # "REPLICATED EVIDENCE" /\ verdict.on \subseteq Significant(result.tests, TRUE)
      BY <3>1, JudgedIs
    <3> QED
      BY <2>2, <3>2
  <2>4. CASE ~(result.tests # <<>> /\ result.tokens >= MinSample)
    <3>1. verdict = Judged(before.tokens, before.tests, FALSE)
      BY <2>1, <2>4 DEF Rejudged, ResultOk
    <3>2. before.tokens < MinSample \/ DOMAIN before.tests = {}
      <4>1. before.tokens \in Nat /\ MinSample \in Nat
        BY VerdictConstants DEF ResultOk
      <4>2. DOMAIN (<<>>) = {}
        OBVIOUS
      <4> QED
        BY <2>4, <4>1, <4>2
    <3>3. verdict.class # "REPLICATED EVIDENCE" /\ verdict.on = {}
      BY <3>1, <3>2, JudgedIs
    <3> QED
      BY <2>2, <3>3
  <2> QED
    BY <2>3, <2>4
<1> QED
  BY <1>1, <1>2

LEMMA OneMoreResult ==
    ASSUME NEW results, ResultsOk(results), NEW result, ResultOk(result)
    PROVE  ResultsOk(Append(results, result))
<1> DEFINE more == Append(results, result)
<1>1. results \in Seq(Range(results)) /\ Len(results) \in Nat
  BY DEF ResultsOk
<1>2. /\ DOMAIN more = 1 .. Len(results) + 1
      /\ \A k \in 1 .. Len(results) : more[k] = results[k]
      /\ more[Len(results) + 1] = result
  BY <1>1
<1>3. more \in Seq(Range(results) \union {result})
  BY <1>1
<1> HIDE DEF more
<1>4. \A k \in DOMAIN more : ResultOk(more[k])
  <2> SUFFICES ASSUME NEW k \in DOMAIN more PROVE ResultOk(more[k])
    OBVIOUS
  <2>1. CASE k \in 1 .. Len(results)
    BY <1>1, <1>2, <2>1 DEF ResultsOk
  <2>2. CASE k = Len(results) + 1
    BY <1>2, <2>2
  <2> QED
    BY <1>1, <1>2, <2>1, <2>2
<1>5. more \in Seq(Range(more))
  BY <1>3 DEF Range
<1> QED
  BY <1>4, <1>5 DEF ResultsOk, more

LEMMA VerdictsInvHolds == Spec => []VerdictsInv
<1>1. Init => VerdictsInv
  BY DEF Init, NoStudy, VerdictsInv
<1>2. RowsInv /\ VerdictsInv /\ [Next]_vars => VerdictsInv'
  <2> SUFFICES ASSUME RowsInv, VerdictsInv, [Next]_vars PROVE VerdictsInv'
    OBVIOUS
  <2>0. DOMAIN study = StudyFields
    BY DEF RowsInv
  <2>1. ASSUME study' = study PROVE VerdictsInv'
    BY <2>1 DEF VerdictsInv
  <2>2. ASSUME NEW a, Acquire(a) \/ EndAcquisition(a) \/ Damage(a) PROVE VerdictsInv'
    BY <2>1, <2>2 DEF Acquire, EndAcquisition, Damage
  <2>3. CASE Collect
    BY <2>1, <2>3 DEF Collect
  <2>4. ASSUME NEW phase, Include(phase) PROVE VerdictsInv'
    <3>1. study'.step = "included" /\ study'.results = <<>>
      BY <2>4 DEF Include, NoStudy
    <3> QED
      BY <3>1 DEF VerdictsInv
  <2>5. CASE Read
    <3>1. study.results = <<>>
      BY <2>5 DEF Read, VerdictsInv
    <3>2. /\ study'.results = study.results
          /\ study'.step \in {"evaluate", "failed"}
      BY <2>0, <2>5 DEF Read, StudyFields
    <3>3. ResultsOk(<<>>)
      BY DEF ResultsOk
    <3> QED
      BY <3>1, <3>2, <3>3 DEF VerdictsInv
  <2>6. CASE Evaluate
    <3> DEFINE i == Len(study.results) + 1
    <3>1. PICK result \in Results(study.rows[i]) : study' = [study EXCEPT !.results = Append(@, result)]
      BY <2>6 DEF Evaluate
    <3>2. study'.step = study.step /\ study'.results = Append(study.results, result)
      BY <2>0, <3>1 DEF StudyFields
    <3>3. study.step = "evaluate" /\ i <= Len(HypothesisIds)
      BY <2>6 DEF Evaluate
    <3>4. ResultsOk(study.results)
      BY <3>3 DEF VerdictsInv
    <3>5. i \in DOMAIN study.rows
      <4>1. Len(study.results) \in Nat
        BY <3>4 DEF ResultsOk
      <4>2. DOMAIN study.rows = 1 .. Len(HypothesisIds) /\ Len(HypothesisIds) \in Nat
        BY <3>3, ResearchConstants DEF RowsInv
      <4> QED
        BY <3>3, <4>1, <4>2
    <3> HIDE DEF i
    <3>6. IsFiniteSet(TokensIn(study.rows[i]))
      BY <3>5, RowsAreFew
    <3>7. ResultOk(result)
      BY <3>1, <3>6, ResultsAreOk
    <3>8. ResultsOk(Append(study.results, result))
      BY <3>4, <3>7, OneMoreResult
    <3> QED
      BY <3>2, <3>3, <3>8 DEF VerdictsInv
  <2>7. CASE Conclude
    <3> DEFINE corrected == WithCorrected(study.results)
    <3>1. study.step = "evaluate" /\ Len(study.results) = Len(HypothesisIds)
      BY <2>7 DEF Conclude
    <3>2. ResultsOk(study.results)
      BY <3>1 DEF VerdictsInv
    <3>3. /\ study'.step = "done" /\ study'.rows = study.rows /\ study'.archives = study.archives
          /\ DOMAIN study'.results = DOMAIN study.results
          /\ \A i \in DOMAIN study.results :
                /\ study'.results[i].tests = corrected[i].tests
                /\ study'.results[i].verdict = Final(i, corrected[i])
      BY <2>0, <2>7, <3>2, ConcludedResults
    <3>4. OnlyCorrected(study.results, corrected)
      BY <3>2, CorrectionOnly
    <3>5. DOMAIN study.results = DOMAIN study.rows
      <4>1. DOMAIN study.results = 1 .. Len(study.results)
        BY <3>2 DEF ResultsOk
      <4>2. DOMAIN HypothesisIds = 1 .. Len(HypothesisIds)
        BY ResearchConstants
      <4> QED
        BY <3>1, <4>1, <4>2 DEF RowsInv
    <3>6. PICK done : done = study'.results
      OBVIOUS
    <3> HIDE DEF corrected
    <3>7. ASSUME NEW i \in DOMAIN study.results
          PROVE  /\ done[i].tests = corrected[i].tests
                 /\ done[i].verdict.on = {} \/ done[i].verdict.on \subseteq Significant(done[i].tests, TRUE)
                 /\ done[i].verdict.class = "REPLICATED EVIDENCE" =>
                        IndependentlyFound(study.rows[i], study.archives)
      <4>1. PICK verdict : verdict = Final(i, corrected[i])
        OBVIOUS
      <4>2. done[i].tests = corrected[i].tests /\ done[i].verdict = verdict
        BY <3>3, <3>6, <4>1
      <4>3. /\ ResultOk(study.results[i])
            /\ corrected[i].tokens = study.results[i].tokens
            /\ corrected[i].verdict = study.results[i].verdict
            /\ DOMAIN corrected[i].tests = DOMAIN study.results[i].tests
        BY <3>2, <3>4 DEF ResultsOk, OnlyCorrected
      <4>4. /\ verdict.on = {} \/ verdict.on \subseteq Significant(corrected[i].tests, TRUE)
            /\ verdict.class = "REPLICATED EVIDENCE" =>
                study.phase = "3c" /\ verdict = Replicated(study.rows[i], corrected[i].tests)
        BY <4>1, <4>3, FinalIs
      <4>5. verdict.class = "REPLICATED EVIDENCE" => IndependentlyFound(study.rows[i], study.archives)
        BY <3>5, <4>4, ReplicatedIsIndependent
      <4> QED
        BY <4>2, <4>4, <4>5
    <3>8. SurvivorsFound(done)
      <4>1. /\ DOMAIN done = DOMAIN study.results
            /\ \A i \in DOMAIN study.results :
                /\ done[i].tests = WithCorrected(study.results)[i].tests
                /\ done[i].verdict.on = {} \/ done[i].verdict.on \subseteq Significant(done[i].tests, TRUE)
        BY <3>3, <3>6, <3>7 DEF corrected
      <4> QED
        BY <3>2, <4>1, SurvivorsAreFound
    <3> QED
      BY <3>3, <3>6, <3>7, <3>8 DEF VerdictsInv
  <2>8. CASE UNCHANGED vars
    BY <2>1, <2>8 DEF vars
  <2> QED
    BY <2>2, <2>3, <2>4, <2>5, <2>6, <2>7, <2>8 DEF Next
<1> QED
  BY <1>1, <1>2, RowsInvHolds, PTL DEF Spec

\* What a verdict rests on was found by the step-up procedure among all the
\* tests of the study, however many hypotheses are tested, whatever the tests
\* come to and at every level (phase3b_pipeline.py run, phase3c_pipeline.py
\* run, phase3b_stats.bh_fdr).
THEOREM SurvivorsHold == Spec => []SurvivorsAreDiscoveries
<1>1. VerdictsInv => SurvivorsAreDiscoveries
  BY Zenon DEF VerdictsInv, SurvivorsFound, Tried, SurvivorsAreDiscoveries, Concluded, Verdict
<1> QED
  BY <1>1, VerdictsInvHolds, PTL

\* What phase 3C calls replicated was found in two archives by tokens that
\* count for one of them only, whatever tokens the archives share
\* (phase3c_data.py deduplicate_rows_across_archives, phase3c_pipeline.py
\* classify_hypothesis_3c).
THEOREM ReplicationHolds == Spec => []ReplicationIsIndependent
<1>1. VerdictsInv => ReplicationIsIndependent
  BY Zenon DEF VerdictsInv, IndependentlyFound, ReplicationIsIndependent, Concluded, Verdict
<1> QED
  BY <1>1, VerdictsInvHolds, PTL
=============================================================================

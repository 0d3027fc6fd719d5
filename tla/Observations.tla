---------------------------- MODULE Observations ----------------------------
(***************************************************************************)
(* The observation contract (core/observation.py), the parsers that turn   *)
(* the archived answers of the providers into observations                 *)
(* (data/providers/solana_rpc.py, gt_phase3a.py, news_social.py) and what  *)
(* may be read of them at a moment (research/phase3a_state.py).            *)
(*                                                                         *)
(* An exchange of the archive names its endpoint, what it is about, when   *)
(* it was sent and came back, and its answer: None (no body) or a record   *)
(* whose form says what the body was.  Only an OBSERVED observation has a  *)
(* value; the fields of a value that no study reads are left out.          *)
(***************************************************************************)
EXTENDS Integers, FiniteSets, Sequences, SequencesExt

CONSTANTS
    None,       \* a fact or a time that is not there
    ClockSlack  \* how far a provider's clock may be ahead (5 seconds)

ASSUME ObservationConstants == ClockSlack \in Nat

Has(v) == v # None

Kinds == {"funding_transfer", "liquidity_event", "creator_state", "holder_state", "news", "social"}

\* When the answer came, or when it was asked for if none did.
Came(e) == IF Has(e.came) THEN e.came ELSE e.sent

\* Observation: n is the number of the exchange it was derived from, source
\* the provider's own time, item and part what tells it from its neighbours.
Observation(e, n, kind, entity, state, source, observed, item, part, value) ==
    [kind |-> kind, entity |-> entity, state |-> state, observed |-> observed, source |-> source,
     ingested |-> Came(e), signature |-> e.signature, item |-> item, part |-> part,
     value |-> value, raw |-> n]

OrElse(v, w) == IF Has(v) THEN v ELSE w

\* A fact whose time is the provider's, when there is one.
Fact(e, n, kind, entity, source, item, part, value) ==
    Observation(e, n, kind, entity, "OBSERVED", source, OrElse(source, Came(e)), item, part, value)

Empty(e, n, kind, entity, state) ==
    Observation(e, n, kind, entity, state, None, Came(e), None, None, None)

\* validate(): the states are explicit, times are numbers and no provider
\* reports the future.
Valid(o) ==
    /\ o.kind \in Kinds
    /\ {o.ingested, o.observed} \subseteq Int
    /\ Has(o.source) => o.source <= o.ingested + ClockSlack
    /\ Has(o.value) <=> o.state = "OBSERVED"

Uid(o) ==
    <<o.kind, o.entity, o.state, o.signature, o.item, o.part,
      IF ~Has(o.signature) /\ ~Has(o.item) THEN o.observed ELSE None>>

Earlier(o, q) ==
    \/ o.ingested < q.ingested
    \/ o.ingested = q.ingested /\ o.observed < q.observed
    \/ o.ingested = q.ingested /\ o.observed = q.observed /\ o.raw < q.raw

\* dedupe(): the first-ingested copy of each identity is kept.
Deduped(obs) == {o \in obs : \A q \in obs : Uid(q) = Uid(o) => ~Earlier(q, o)}

-----------------------------------------------------------------------------
\* gt_phase3a.py

\* A pool whose creation time is missing or ahead was dropped with its record.
PoolCreated(e, n) ==
    IF ~Has(e.answer) THEN {}
    ELSE {Fact(e, n, "liquidity_event", p.pool, p.created, None, p.pool, [base |-> p.base]) :
            p \in {p \in e.answer.pools : Has(p.created) /\ p.created <= Came(e) + ClockSlack}}

Percent(v) == IF Has(v) /\ v \in 0 .. 100 THEN v ELSE None

Creator(e, n, info) ==
    IF ~Has(info.developer) THEN Empty(e, n, "creator_state", e.token, "NOT_OBSERVED")
    ELSE IF info.developer = "malformed" THEN Empty(e, n, "creator_state", e.token, "ERROR")
    ELSE Observation(e, n, "creator_state", e.token, "OBSERVED", None, Came(e), None, None,
                     [pct |-> Percent(info.pct)])

Holders(e, n, h) ==
    IF ~Has(h) \/ (~Has(h.count) /\ ~Has(h.top10)) THEN Empty(e, n, "holder_state", e.token, "NOT_OBSERVED")
    ELSE IF (Has(h.count) /\ h.count < 0) \/ (Has(h.top10) /\ ~Has(Percent(h.top10)))
    THEN Empty(e, n, "holder_state", e.token, "ERROR")
    ELSE Observation(e, n, "holder_state", e.token, "OBSERVED", None, Came(e), None, None,
                     [count |-> h.count, top10 |-> h.top10])

TokenState(e, n) ==
    IF Has(e.answer) /\ e.answer.form = "info" /\ e.answer.about = e.token
    THEN {Creator(e, n, e.answer), Holders(e, n, e.answer.holders)}
    ELSE {Empty(e, n, k, e.token, "ERROR") : k \in {"creator_state", "holder_state"}}

-----------------------------------------------------------------------------
\* news_social.py: an article or post without an address is dropped, a time
\* that is ahead is not believed.
Believed(e, time) == IF Has(time) /\ time > Came(e) + ClockSlack THEN None ELSE time

Items(e, n, kind) ==
    IF ~Has(e.answer) \/ e.answer.form # "items" THEN {Empty(e, n, kind, e.token, "ERROR")}
    ELSE IF e.answer.items = {} THEN {Empty(e, n, kind, e.token, "NOT_OBSERVED")}
    ELSE {Fact(e, n, kind, e.token, Believed(e, i.time), i.url, None, [url |-> i.url]) :
            i \in {i \in e.answer.items : Has(i.url)}}

-----------------------------------------------------------------------------
\* solana_rpc.py: a null result is an answer, anything but a transaction is an
\* error, and so is a transaction that was not asked for.
Answered(e) == Has(e.answer) /\ e.answer.form \in {"null", "tx"}
Mismatched(e) == e.answer.form = "tx" /\ Has(e.signature) /\ e.answer.signature # e.signature

\* A transaction is a funding transfer of the wallet for every well-formed
\* transfer in it that touches the wallet.
Funding(e, n) ==
    LET touching == {i \in DOMAIN e.answer.transfers :
                        e.answer.transfers[i].formed /\ e.wallet \in e.answer.transfers[i].sides}
        none(source) == [Empty(e, n, "funding_transfer", e.wallet, "NOT_OBSERVED")
                            EXCEPT !.source = source, !.observed = OrElse(source, Came(e))]
    IN  IF ~Answered(e) \/ Mismatched(e) THEN {Empty(e, n, "funding_transfer", e.wallet, "ERROR")}
        ELSE IF e.answer.form = "null" THEN {none(None)}
        ELSE IF touching = {} THEN {none(e.answer.time)}
        ELSE {Fact(e, n, "funding_transfer", e.wallet, e.answer.time, None, i, [part |-> i]) : i \in touching}

\* The pool's own vaults decide: created, both up, both down, or one only.
\* vaults is None when no vault of the pool is in the transaction.
Moved(vaults) ==
    IF vaults.created THEN "pool_create"
    ELSE IF vaults.base = 0 /\ vaults.quote = 0 THEN "none"
    ELSE IF vaults.base = 0 \/ vaults.quote = 0 THEN "unclassified"
    ELSE IF vaults.base > 0 /\ vaults.quote > 0 THEN "add"
    ELSE IF vaults.base < 0 /\ vaults.quote < 0 THEN "remove"
    ELSE "swap"

Liquidity(e, n) ==
    LET happened == e.answer.form = "tx" /\ Has(e.answer.vaults) /\ ~e.answer.failed
                    /\ Moved(e.answer.vaults) \notin {"none", "swap"}
        source   == IF e.answer.form = "tx" THEN e.answer.time ELSE None
    IN  IF ~Answered(e) \/ Mismatched(e) THEN {Empty(e, n, "liquidity_event", e.wallet, "ERROR")}
        ELSE IF happened
        THEN {Fact(e, n, "liquidity_event", e.wallet, source, None, e.wallet, [type |-> Moved(e.answer.vaults)])}
        ELSE {[Empty(e, n, "liquidity_event", e.wallet, "NOT_OBSERVED")
                EXCEPT !.source = source, !.observed = OrElse(source, Came(e))]}

\* The index of an address is no observation unless it failed.
Signatures(e, n) ==
    IF Has(e.answer) /\ e.answer.form = "rows" THEN {}
    ELSE {Empty(e, n, IF e.purpose = "liquidity" THEN "liquidity_event" ELSE "funding_transfer",
                e.wallet, "ERROR")}

\* PARSERS
Parsed(e, n) ==
    CASE e.endpoint = "pools" -> PoolCreated(e, n)
      [] e.endpoint = "token_info" -> TokenState(e, n)
      [] e.endpoint = "gdelt" -> Items(e, n, "news")
      [] e.endpoint = "reddit" -> Items(e, n, "social")
      [] e.endpoint = "signatures" -> Signatures(e, n)
      [] e.endpoint = "transaction" -> IF e.purpose = "liquidity" THEN Liquidity(e, n) ELSE Funding(e, n)

-----------------------------------------------------------------------------
Normalized(entries) == UNION {Parsed(entries[n], n) : n \in DOMAIN entries}

\* What an archive of exchanges is: finitely many answers of these endpoints,
\* of which only a transaction was asked for by its signature (acquire.py).
WellFormed(entries) ==
    /\ DOMAIN entries \subseteq Nat
    /\ IsFiniteSet(Normalized(entries))
    /\ \A n \in DOMAIN entries :
        /\ entries[n].endpoint \in {"pools", "token_info", "gdelt", "reddit", "signatures", "transaction"}
        /\ entries[n].endpoint = "token_info" => ~Has(entries[n].signature)

\* One record the contract refuses stops the whole normalization.
Normalizes(entries) == \A o \in Normalized(entries) : Valid(o)

\* The token an exchange was made for; a created pool names its base mint.
TokenOf(e, o) ==
    IF Has(e.token) THEN e.token
    ELSE IF e.endpoint = "pools" THEN o.value.base ELSE None

ObservationsOf(entries, token) ==
    Deduped(UNION {{o \in Parsed(entries[n], n) : TokenOf(entries[n], o) = token} : n \in DOMAIN entries})

\* A mutation: what happened by then is read, not what had arrived.
Visible_ByEventTime(obs, kind, asOf) == {o \in obs : o.kind = kind /\ o.observed <= asOf}

\* The store's view: what had arrived by then.
Visible(obs, kind, asOf) == {o \in obs : o.kind = kind /\ o.ingested <= asOf}

\* assess(): the value of the latest OBSERVED record, or why there is none.
Assess(seen) ==
    LET observed == {o \in seen : o.state = "OBSERVED"}
        latest   == CHOOSE o \in observed : \A q \in observed : ~Earlier(o, q)
    IN  IF observed # {} THEN [state |-> "KNOWN_AT_ASSESSMENT", value |-> latest.value]
        ELSE IF \E o \in seen : o.state \in {"NOT_OBSERVED", "UNAVAILABLE"}
        THEN [state |-> "UNAVAILABLE_FROM_PROVIDER", value |-> None]
        ELSE [state |-> "UNKNOWN_AT_ASSESSMENT", value |-> None]
=============================================================================

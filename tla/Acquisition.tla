---------------------------- MODULE Acquisition -----------------------------
(***************************************************************************)
(* An acquisition run (data/acquire.py) over the HTTP clients of           *)
(* HttpTransport and the run directory of RawArchive, and the sealing of   *)
(* the directory afterwards (data/provenance.py).                          *)
(*                                                                         *)
(* run() is sequential: it selects the universe, backfills it, enriches    *)
(* it, polls it in cycles, enriches it again and writes its end into       *)
(* run.json.  What is still to do is the sequence todo; a response may put *)
(* further jobs before the rest of it.  The process may be killed at any   *)
(* time, also inside a write.  The workflow seals the directory whether    *)
(* the run ended or not, and a later run may use the directory again.      *)
(*                                                                         *)
(* A signature page holds one signature (page_limit = 1), an ohlcv page is *)
(* full or not, and everything else a body says is abstracted.             *)
(***************************************************************************)
EXTENDS HttpTransport, RawArchive, SequencesExt

CONSTANTS
    Listed,     \* the candidates on each discovery page: records [pool, token, quiet]
    Excluded,   \* EXCLUDED_BASES
    Target,     \* Plan.strata
    FullPages,  \* full ohlcv pages a pool's history has
    Creators,   \* the pools whose token information names a creator
    ShortNamed, \* the pools whose token has a symbol GDELT cannot take
    Depth,      \* Depth[a]: the signatures of the address a
    NewPages,   \* Plan.new_pool_pages
    Backfill,   \* Plan.backfill_pages
    MaxPages,   \* Plan.rpc_max_pages
    MaxTxs,     \* Plan.rpc_max_txs
    Phase3a,    \* Plan.phase3a
    CircuitWaits, \* Plan.circuit_waits
    CycleTime,  \* Plan.cycle_s
    Duration,   \* Plan.duration_s
    Latency,    \* ticks from a request to its answer
    MaxFaults,  \* bound on bad answers and kills
    MaxRuns,    \* bound on runs in one directory
    NoHash      \* no provenance, no canonical file, no normalize_stdout.json

ASSUME AcquisitionConstants ==
    /\ {Duration, Latency, MaxFaults, MaxRuns, CircuitWaits} \subseteq Nat
    /\ {NewPages, Backfill, MaxPages, CycleTime} \subseteq Nat \ {0}
    /\ MaxTxs \in Nat /\ Phase3a \in BOOLEAN
    /\ \A page \in DOMAIN Listed : IsFiniteSet(Listed[page])

VARIABLES
    now,        \* the time
    clients,    \* the HTTP client of each provider
    trace,      \* each provider's attempts in this process: when sent, how answered
    todo,       \* the jobs ahead, the first is being done
    call,       \* Fetcher.get
    seen,       \* the discovery endpoints this run has read
    picked,     \* the pools this run collects
    histories,  \* the address histories in meta["enrichment"]
    universe,   \* universe.json
    files,      \* raw/
    lines,      \* manifest.jsonl
    meta,       \* run.json
    canonical,  \* canonical/
    stdout,     \* normalize_stdout.json
    base,       \* the lines there were when this run began, RawStore._seq
    began,      \* when the cycle of the loop began
    sealing,    \* the dataset seal() has built and is writing
    faults,
    runs

net == <<now, clients, trace>>
memory == <<net, todo, call, seen, picked, histories, base, began>>
disk == <<universe, files, lines, meta, canonical, stdout>>
vars == <<memory, disk, sealing, faults, runs>>

Provider == {"gecko", "dex", "rpc", "gdelt", "reddit"}
Adaptive == {"gecko", "rpc"}

ProviderOf(job) ==
    CASE job.endpoint \in {"signatures", "transaction"} -> "rpc"
      [] job.endpoint = "pairs" -> "dex"
      [] job.endpoint \in {"gdelt", "reddit"} -> job.endpoint
      [] OTHER -> "gecko"

\* A job: a logical request, an audit line, or a step of run() between requests.
Job(endpoint, about, page) == [endpoint |-> endpoint, about |-> about, page |-> page]
Steps == {"select", "picked", "enrich", "loop", "rest", "end"}
Request(job) == job.endpoint \notin Steps \union {"gap"}

Idle == [at |-> "idle", attempt |-> 0, delay |-> 0, waits |-> 0, tries |-> 0, raw |-> NoBody]
Running == todo # <<>>
Doing == Head(todo)

AcquisitionInit ==
    /\ now = 0 /\ clients = [p \in Provider |-> NewClient(0, p \in Adaptive)]
    /\ trace = [p \in Provider |-> <<>>]
    /\ todo = <<>> /\ call = Idle /\ seen = {}
    /\ picked = <<>> /\ histories = {} /\ base = 0 /\ began = 0
    /\ universe = NoHash /\ files = NoFiles /\ lines = <<>>
    /\ meta = NewMeta(NoHash) /\ canonical = NoHash /\ stdout = NoHash
    /\ sealing = NoHash /\ faults = 0 /\ runs = 0

\* The process ends, by itself, by an exception or killed: its memory is gone,
\* and the clock of the next one starts again.
Ends ==
    /\ now' = 0 /\ clients' = [p \in Provider |-> NewClient(0, p \in Adaptive)]
    /\ trace' = [p \in Provider |-> <<>>]
    /\ todo' = <<>> /\ call' = Idle /\ seen' = {}
    /\ picked' = <<>> /\ histories' = {} /\ base' = 0 /\ began' = 0

-----------------------------------------------------------------------------
(* What run() does, in what order.                                         *)

\* select_universe: each stratum takes from its candidates in a shuffled
\* order, up to its target; a token is taken once.
Take(sel, stratum, candidates) ==
    LET taken[n \in 0..Len(candidates)] ==
            IF n = 0 THEN sel
            ELSE LET p == candidates[n]
                     s == taken[n - 1]
                 IN IF Cardinality({i \in 1..Len(s) : s[i].stratum = stratum}) >= Target[stratum]
                       \/ p.token \in Excluded
                       \/ \E i \in 1..Len(s) : s[i].token = p.token
                    THEN s
                    ELSE Append(s, [pool |-> p.pool, token |-> p.token, stratum |-> stratum])
    IN taken[Len(candidates)]

\* cands: the candidates of the pages that were read.
Seen(endpoint) ==
    IF endpoint \in seen THEN Listed[endpoint] ELSE {}

\* The quiet ones of a shuffled list are a shuffle of the quiet ones.
Selections ==
    LET young == Seen("new_pools")
        quiet == {p \in young : p.quiet}
    IN {Take(Take(Take(Take(<<>>, "quiet_young", y1), "young", y2), "trending", t),
             "established", e) :
           y1 \in SetToSeqs(quiet), y2 \in SetToSeqs(young),
           t \in SetToSeqs(Seen("trending")), e \in SetToSeqs(Seen("top_pools"))}

Discovery ==
    [i \in 1..NewPages |-> Job("new_pools", "", i)]
    \o <<Job("trending", "", 0), Job("top_pools", "", 0), Job("select", "", 0)>>

\* The address a history is about: a creator or a pool.
Address(purpose, pool) == <<purpose, pool>>

\* collect_news_social: a query GDELT cannot take, as when the symbol of the
\* token is not known, is an audit line.
NewsAndSocial(pool, informed, round) ==
    <<Job(IF informed /\ pool \notin ShortNamed THEN "gdelt" ELSE "gap", pool, round), Job("reddit", pool, round)>>

\* enrich, for one pool: the funding of its creator if one was observed, the
\* liquidity of the pool, and the news.
Enrichment(pool, informed, round) ==
    (IF informed /\ pool \in Creators THEN <<Job("signatures", Address("funding", pool), 0)>> ELSE <<>>)
    \o <<Job("signatures", Address("liquidity", pool), 0)>> \o NewsAndSocial(pool, informed, round)

PerPool(endpoint, page) ==
    [i \in 1..Len(picked) |-> Job(endpoint, picked[i].pool, page)]

Collection ==
    PerPool("ohlcv", 0)
    \o (IF Phase3a THEN PerPool("enrich", 0) ELSE <<>>) \o <<Job("loop", "", 0)>>

PollCycle(cycle) ==
    <<Job("pools_multi", "", cycle), Job("pairs", "", cycle)>>
    \o [i \in 1..2 * Len(picked) |->
           LET pool == picked[(i + 1) \div 2].pool
           IN IF i % 2 = 1 THEN Job("trades", pool, cycle) ELSE Job("ohlcv", pool, Backfill)]
    \o <<Job("token_info", picked[(cycle % Len(picked)) + 1].pool, Backfill)>>

\* collect_address_history: whether there is more than this page.
More(job) == job.page < Depth[job.about]

\* Bug: truncation is noted where the loop is left early, not where it ends.
Truncated_OnlyWhenPagesAreLeft(job, ok) == ok /\ More(job) /\ job.page + 1 < MaxPages

\* The pages ran out before the history did.
Truncated(job, ok) == ok /\ More(job) /\ job.page + 1 = MaxPages

\* The jobs that follow a response; ok: a body came that can be used.
After(job, ok) ==
    CASE job.endpoint = "new_pools" /\ ~ok -> <<Job("gap", "", job.page)>>
      [] job.endpoint = "ohlcv" /\ job.page < Backfill ->
           IF ok /\ job.page < FullPages[job.about] /\ job.page + 1 < Backfill
           THEN <<Job("ohlcv", job.about, job.page + 1)>>
           ELSE <<Job("token_info", job.about, 0)>>
      [] job.endpoint = "signatures" ->
           IF ok /\ More(job) /\ job.page + 1 < MaxPages
           THEN <<Job("signatures", job.about, job.page + 1)>>
           ELSE LET found == IF ok /\ More(job) THEN job.page + 1 ELSE job.page
                IN (IF ok THEN <<>> ELSE <<Job("gap", job.about, job.page)>>)
                   \o [i \in 1..Smaller(found, MaxTxs) |-> Job("transaction", job.about, i)]
      [] OTHER -> <<>>

\* The summary of an address history, when its last page has been answered.
Summary(job, ok) ==
    IF job.endpoint # "signatures" \/ (ok /\ More(job) /\ job.page + 1 < MaxPages) THEN {}
    ELSE {[address |-> job.about, gap |-> ~ok, truncated |-> Truncated(job, ok),
           signatures |-> IF ok /\ More(job) THEN job.page + 1 ELSE job.page]}

-----------------------------------------------------------------------------
(* run()                                                                   *)

\* Bug: run.json is only written at the end.
StartMeta_AtTheEnd == meta

\* run.json is written before the first exchange, so a directory that is used
\* again loses its seal.
StartMeta == NewMeta(NoHash)

\* A universe that was frozen by an earlier run is reused, or one is selected.
StartRun ==
    /\ ~Running /\ sealing = NoHash /\ runs < MaxRuns /\ runs' = runs + 1
    /\ meta' = StartMeta /\ base' = Len(lines)
    /\ \/ picked' = <<>> /\ todo' = Discovery
       \/ universe # NoHash /\ picked' = universe /\ todo' = <<Job("picked", "", 0)>>
    /\ UNCHANGED <<net, call, seen, histories, began, universe, files, lines, canonical, stdout,
                   sealing, faults>>

Select ==
    /\ Running /\ Doing.endpoint = "select"
    /\ \E picks \in Selections :
         picked' = picks /\ universe' = IF Phase3a THEN picks ELSE universe
    /\ todo' = <<Job("picked", "", 0)>>
    /\ UNCHANGED <<net, call, seen, histories, base, began, files, lines, meta, canonical, stdout,
                   sealing, faults, runs>>

\* A run with nothing to collect ends at once.
Picked ==
    /\ Running /\ Doing.endpoint = "picked" /\ picked # <<>>
    /\ todo' = Collection
    /\ UNCHANGED <<net, call, seen, picked, histories, base, began, disk, sealing, faults, runs>>

Blocked ==
    /\ Running /\ Doing.endpoint = "picked" /\ picked = <<>>
    /\ Ends /\ meta' = [meta EXCEPT !.status = "BLOCKED"]
    /\ UNCHANGED <<universe, files, lines, canonical, stdout, sealing, faults, runs>>

\* enrich looks up the latest token information that has a body.  A manifest
\* that cannot be read ends the run; so does a torn body, unless nothing of it
\* was written, which counts as no information.
Informed(pool) ==
    {i \in 1..Len(lines) : /\ lines[i].endpoint = "token_info" /\ lines[i].about = pool
                           /\ lines[i].raw # NoBody}

TokenInfoRead(pool) ==
    Readable(lines) /\ \A i \in Informed(pool) :
        (\A j \in Informed(pool) : j <= i) => lines[i].raw \in files.whole

Enrich ==
    LET pool == Doing.about IN
    /\ Running /\ Doing.endpoint = "enrich"
    /\ \/ \E informed \in BOOLEAN :
            /\ IF TokenInfoRead(pool) THEN informed = (Informed(pool) # {})
               ELSE Readable(lines) /\ ~informed
            /\ todo' = Enrichment(pool, informed, Doing.page) \o Tail(todo)
            /\ UNCHANGED <<net, call, seen, picked, histories, base, began>>
       \/ ~TokenInfoRead(pool) /\ Ends
    /\ UNCHANGED <<disk, sealing, faults, runs>>

\* The loop of run(): the next cycle, or the second enrichment and the end.
\* The page of these jobs is the cycle.
Loop ==
    /\ Running /\ Doing.endpoint = "loop"
    /\ began' = now
    /\ todo' = IF now < Duration
               THEN PollCycle(Doing.page) \o <<Job("rest", "", Doing.page)>>
               ELSE (IF Phase3a THEN PerPool("enrich", 1) ELSE <<>>) \o <<Job("end", "", 0)>>
    /\ UNCHANGED <<net, call, seen, picked, histories, disk, base, sealing, faults, runs>>

Rest ==
    /\ Running /\ Doing.endpoint = "rest"
    /\ now' = Larger(now, began + CycleTime)
    /\ todo' = <<Job("loop", "", Doing.page + 1)>>
    /\ UNCHANGED <<clients, trace, call, seen, picked, histories, disk, base, began, sealing, faults, runs>>

\* The manifest is read once more, and the end is written.
EndRun ==
    /\ Running /\ Doing.endpoint = "end" /\ Ends
    /\ meta' = IF Readable(lines)
               THEN [meta EXCEPT !.status = "COMPLETE", !.exchanges = Len(lines)] ELSE meta
    /\ UNCHANGED <<universe, files, lines, canonical, stdout, sealing, faults, runs>>

-----------------------------------------------------------------------------
(* Fetcher.get over HttpClient._request.                                   *)

Client == clients[ProviderOf(Doing)]
Awaiting(at) == Running /\ Request(Doing) /\ call.at = at

\* While the circuit is open the call sleeps for the cooldown, CircuitWaits
\* times at most, and is then recorded as failed.
Ask ==
    /\ Awaiting("idle")
    /\ IF Allow(Client, now)
       THEN call' = [call EXCEPT !.at = "send", !.attempt = 1, !.delay = Backoff] /\ now' = now
       ELSE IF call.waits < CircuitWaits
       THEN call' = [call EXCEPT !.waits = @ + 1] /\ now' = now + Cooldown
       ELSE call' = [call EXCEPT !.at = "write"] /\ now' = now
    /\ UNCHANGED <<clients, trace, todo, seen, picked, histories, disk, base, began, sealing, faults, runs>>

\* The limiter gives a token, perhaps after a sleep, and the request leaves.
Send ==
    /\ Awaiting("send")
    /\ now' = Due(Client, now)
    /\ clients' = [clients EXCEPT ![ProviderOf(Doing)] = Acquire(Client, now)]
    /\ trace' = [trace EXCEPT ![ProviderOf(Doing)] =
                   Append(@, [sent |-> now', first |-> call.attempt = 1, ended |-> now', ok |-> TRUE])]
    /\ call' = [call EXCEPT !.at = "sent"]
    /\ UNCHANGED <<todo, seen, picked, histories, disk, base, began, sealing, faults, runs>>

Receive(answer, good) ==
    /\ Awaiting("sent")
    /\ faults' = IF answer = "ok" /\ good THEN faults ELSE faults + 1
    /\ faults' <= MaxFaults
    /\ UNCHANGED <<disk, sealing, runs>>

Remember(answer) ==
    LET p == ProviderOf(Doing) IN
    /\ clients' = [clients EXCEPT ![p] = Answered(Client, answer, now + Latency)]
    /\ trace' = [trace EXCEPT ![p][Len(trace[p])] =
                   [@ EXCEPT !.ended = now + Latency, !.ok = answer = "ok"]]
    /\ UNCHANGED <<todo, seen, picked, histories, base, began>>

\* A response.  The node may answer a signature page with an error of its own.
Succeed ==
    \E good \in BOOLEAN :
        /\ Receive("ok", good) /\ (good \/ Doing.endpoint = "signatures") /\ Remember("ok")
        /\ call' = [call EXCEPT !.at = "write", !.tries = @ + 1,
                               !.raw = [endpoint |-> Doing.endpoint, about |-> Doing.about,
                                        page |-> Doing.page, good |-> good]]
        /\ now' = now + Latency

\* A refusal that is not worth a retry, or the last attempt.
Fail ==
    \E answer \in Retryable \union {"client"} :
        /\ Receive(answer, TRUE) /\ Remember(answer)
        /\ answer \in Retryable => call.attempt > MaxRetries
        /\ call' = [call EXCEPT !.at = "write", !.tries = @ + 1]
        /\ now' = now + Latency

Retry ==
    \E answer \in Retryable :
        /\ Receive(answer, TRUE) /\ Remember(answer) /\ call.attempt <= MaxRetries
        /\ \E pause \in Pauses(answer, call.delay) : now' = now + Latency + pause
        /\ call' = [call EXCEPT !.at = "send", !.attempt = @ + 1, !.tries = @ + 1, !.delay = 2 * @]

\* The body ends early: the exception passes through _request and get.
Escape == Receive("cut", TRUE) /\ Ends

\* RawStore.record, and what the caller does with the body.
RequestBody ==
    IF ProviderOf(Doing) = "rpc"
    THEN [endpoint |-> "request", about |-> Doing.about, page |-> Doing.page, good |-> TRUE]
    ELSE NoBody

NewLine ==
    IF Doing.endpoint = "gap" THEN Line("gap", Doing.about, NoBody, NoBody, 0)
    ELSE Line(Doing.endpoint, Doing.about, call.raw, RequestBody, call.tries)

Usable == call.raw # NoBody /\ call.raw.good

\* Bug: only what has a body is put into the manifest.
Recorded_Successes == IF call.raw = NoBody THEN lines ELSE Append1(lines, NewLine)

Recorded == Append1(lines, NewLine)

Record ==
    /\ Awaiting("write")
    /\ files' = Store(Store(files, call.raw), RequestBody)
    /\ lines' = Recorded
    /\ todo' = After(Doing, Usable) \o Tail(todo)
    /\ histories' = histories \union Summary(Doing, Usable)
    /\ seen' = IF Usable THEN seen \union ({Doing.endpoint} \intersect DOMAIN Listed) ELSE seen
    /\ call' = Idle
    /\ UNCHANGED <<net, picked, universe, meta, canonical, stdout, base, began, sealing, faults, runs>>

\* The audit line of a page that could not be read.
Audit ==
    /\ Running /\ Doing.endpoint = "gap"
    /\ lines' = Append1(lines, NewLine) /\ todo' = Tail(todo)
    /\ UNCHANGED <<net, call, seen, picked, histories, base, began, universe, files, meta, canonical, stdout,
                   sealing, faults, runs>>

\* The process is killed, perhaps while it writes.
Kill ==
    /\ Running /\ faults < MaxFaults /\ faults' = faults + 1 /\ Ends
    /\ LET stored == Store(files, call.raw)
           writing == call.at = "write"
       IN \/ files' = files /\ lines' = lines
          \/ writing /\ files' \in CutBody(files, call.raw) /\ lines' = lines
          \/ writing /\ files' \in CutBody(stored, RequestBody) /\ lines' = lines
          \/ /\ writing /\ files' = Store(stored, RequestBody)
             /\ lines' \in CutLine(lines, NewLine)
          \/ /\ Doing.endpoint = "gap" /\ files' = files
             /\ lines' \in CutLine(lines, NewLine)
    /\ UNCHANGED <<universe, meta, canonical, stdout, sealing, runs>>

-----------------------------------------------------------------------------
(* seal(): the workflow calls it when the run has ended, well or not.      *)

Seal ==
    /\ ~Running /\ runs > 0 /\ sealing = NoHash /\ Rebuildable(files, lines)
    /\ meta.provenance = NoHash
    /\ sealing' = Dataset(lines) /\ canonical' = Dataset(lines)
    /\ UNCHANGED <<memory, universe, files, lines, meta, stdout, faults, runs>>

SealStdout ==
    /\ sealing # NoHash /\ stdout # sealing.records /\ stdout' = sealing.records
    /\ UNCHANGED <<memory, universe, files, lines, meta,
                   canonical, sealing, faults, runs>>

SealMeta ==
    /\ sealing # NoHash /\ stdout = sealing.records
    /\ meta' = [meta EXCEPT !.provenance = sealing] /\ sealing' = NoHash
    /\ UNCHANGED <<memory, universe, files, lines, canonical,
                   stdout, faults, runs>>

KillSeal ==
    /\ sealing # NoHash /\ faults < MaxFaults /\ faults' = faults + 1 /\ sealing' = NoHash
    /\ UNCHANGED <<memory, disk, runs>>

AcquisitionNext ==
    \/ StartRun \/ Select \/ Picked \/ Blocked \/ Enrich \/ Loop \/ Rest \/ EndRun
    \/ Ask \/ Send \/ Succeed \/ Fail \/ Retry \/ Escape \/ Record \/ Audit \/ Kill
    \/ Seal \/ SealStdout \/ SealMeta \/ KillSeal

AcquisitionSpec == AcquisitionInit /\ [][AcquisitionNext]_vars

-----------------------------------------------------------------------------
(* Properties                                                              *)

\* TokenBucket under a coarse clock and an adaptive rate: between any two
\* attempts no more requests leave than the burst and the configured rate
\* allow; what the clock can be behind counts as time.
RateRespected ==
    \A p \in Provider : LET n == Len(trace[p]) IN
        \A i \in 1..n :
            (n - i + 1 - Burst) * One
                <= (trace[p][n].sent - trace[p][i].sent + Grain) * MaxRate

\* CircuitBreaker: a call made after Threshold straight failures of a service
\* starts no earlier than the cooldown after the last of them.
FailingServiceRests ==
    \A p \in Provider : LET n == Len(trace[p]) IN
        n > Threshold /\ trace[p][n].first /\ (\A i \in n - Threshold..n - 1 : ~trace[p][i].ok)
            => trace[p][n].sent + Grain > trace[p][n - 1].ended + Cooldown

\* The attempts this run's lines account for.
Logged ==
    SumFunctionOnSet([i \in 1..Len(lines) |-> lines[i].tries], base + 1..Len(lines))
Attempts == SumFunctionOnSet([p \in Provider |-> Len(trace[p])], Provider)

\* RawStore and Fetcher.get: in a run that is going on, and a directory that
\* can be read, every attempt that was answered is accounted for by a line of
\* the manifest or by the call that is being made.
ExchangesOnRecord ==
    Running /\ Readable(lines) =>
        Attempts = Logged + call.tries + (IF call.at = "sent" THEN 1 ELSE 0)

\* collect_address_history: a history that is not whole says so.
NothingCutSilently ==
    \A h \in histories :
        h.signatures < Depth[h.address] => h.gap \/ h.truncated

\* verify: a sealed archive that is verified is that of a run that came to its
\* end, and nothing was added to it since.
SealedIsEnded ==
    meta.provenance # NoHash /\ Verified(files, lines, meta, canonical, stdout, NoHash)
        => ~Running /\ meta.exchanges = Len(lines)
=============================================================================

# FlipDemon / Autopsy X: TLA+ models and proofs

The repository holds two programs. One trades one MT5 account from several
charts and terminals: the question that matters most there is whether, with
calls that get lost, clocks that disagree and terminals that die, the account
can end up with more risk at the broker than the 2% ceiling, with an order or a
deal nobody knows about, or stuck. The other collects what providers say of
tokens, says what it sees, replays itself and draws conclusions: the question
there is whether anything it says rests on what it could not know, on an archive
that was cut, damaged or not its own, or on a number that only looks like
evidence. These modules answer both for the code as it is.

`src/` below is the repository root, `EA` is
`MQL5/Experts/AutopsyX/AutopsyX_FlipDemon_Extreme.mq5`, header names are under
`MQL5/Include/AutopsyX/`, Python paths under `intel/autopsyx/` unless they name
`python/autopsy_research/`.

## 1. Inventory

| Part | State | Operations | Interacts with | What is hard |
|---|---|---|---|---|
| Risk ledger (`server/risk-ledger.js`) | one SQLite database: last exposure snapshot and reservations per account | reconcile, reserve, release, settle, each one transaction | every terminal, by HTTP through `server/server.js` | expiry against a clock read before the transaction, snapshots resent, reordered, stamped by other clocks |
| Coordinator client (`DistributedRiskCoordinator.mqh`) | last stamp, request counter | one POST per operation, no retry | ledger | answer lost after commit, call served after the client gave up |
| Account risk (`AccountRiskCalculator.mqh`) | none; the mutex is a terminal-global variable | `Scan`, `Evaluate`, `TryAcquire`, `Release` | broker lists, the other charts of the terminal | the scan is old when it is used; mutex lost or kept |
| Entry protocol (`AxAttemptEntry` in EA) | recovery gate, integrity lock, intent | mutex, evaluate, reserve, intent, order, settle or release | all of the above, `ExecutionEngine.mqh`, the intent journal | every failure in the middle |
| Intent journal (`CampaignIntentJournal.mqh`) | append-only file of PREPARE/BIND/REJECT rows and its replay in memory | create, bind, reject, replay, bind from broker history | EA, broker history | crash between broker acceptance and BIND, torn row |
| Deal journal and history replay (`CampaignJournal.mqh`, `CampaignHistoryReconciler.mqh`) | append-only file of deals and attributions | append, amend, replay, startup backfill | broker history, intents, registry | the same deal by callback, retry queue and startup replay |
| Open-setup registry (`RestartRecovery.mqh`) | small file of open positions and their setups | record, remove, reconcile, rewrite | EA, broker positions | rewrite through a temporary file, identity of positions |
| Deal retry queue (EA:2570-2662) | at most 128 tickets, a cursor, an entry lock | enqueue, bounded retry per tick | deal journal | full queue, lock that must clear |
| Position management (EA:582-1010, 2006-2363) | one position state | manage, partial close, flip, finalise, kill | broker, registry, journal | history that lags the close, two finalisers |
| Risk gates (`RiskEngine.mqh`, `EmergencyControls.mqh`, `AntiChop.mqh`, `DuplicateGuard.mqh`) | counters, day and week anchors, rings | housekeeping, register, allow | EA | limits that never reset, lockouts lost at restart |
| Campaign policy (`CampaignCoordinator.mqh`, `TradeLifecycle.mqh`, `FlipEngine.mqh`) | small state machines | advance | EA | orders of events |
| Bridge server (`server/server.js`) | last ticks, rate-limit window | ingest, state, analyse | browser, EA | in memory only |
| HTTP transport (`providers/http.py`) | a token bucket, a breaker and an adaptive rate per provider | acquire, attempt, retry, back off | providers, `Fetcher` | a coarse clock, sleeps that end late, a breaker that must open again |
| Raw archive and seal (`data/raw.py`, `data/provenance.py`) | bodies, manifest, `run.json`, canonical hashes | record, seal, verify | acquisition, replay, studies | an interrupted write, a directory that is used again, a seal of something unfinished |
| Acquisition (`data/acquire.py`) | the universe and what is still to be asked | discover, select, backfill, enrich, poll | transport, archive | paging that ends for four reasons, an exception anywhere |
| Parsers and store (`data/providers/*.py`, `data/normalize.py`, `providers/store.py`) | records with an event time and the time they were seen | parse, view as of a moment | archive, features | full pages, forming bars, records about the past that arrive later |
| Features, wallets, detectors (`features/`, `onchain/`, `manipulation/`) | none between assessments | assess a token | the store, signals | absence that looks like zero, sources that measure different things |
| Signals, risk, replay, backtest (`signals/`, `risk/`, `replay.py`, `backtest/`, `journal/`) | positions, books, a journal chained by hashes | scan, enter, exit, size, fill, replay | features | limits that overlap, books that lag, a journal cut in the middle of a line |
| Observations and studies (`core/observation.py`, `research/`) | evidence list, rows, tests, verdicts | normalise, assess, test, correct, classify | sealed archives | hindsight, many tests, the same token in two archives |
| Shock engine, lead/lag (`python/autopsy_research/shock_dna.py`, `lead_lag.py`) | one event with counters and labels; none | one closed bar; one measurement | each other | bad bars, gaps, resets; halves of a window with their own noise |
| Alerts, SQL export, wallet skill, simulator, metrics | none | one pass | - | numbers, no protocol |
| Analytics of the EA and other research scripts | numbers | indicators, statistics | - | floating point, no protocol |

Correctness, part by part:

* ledger: never grants past the cap counting everything it granted and has no
  later evidence about; a key is granted once; evidence only moves forward;
* entry protocol: at most one attempt per terminal; every order in flight is
  backed by a counted reservation; exposure at the broker stays within the cap;
  attempts end and the mutex comes free;
* journals and registry: what was durable is what a restart recovers, an order
  or deal is attributed to the intent that caused it and to no other, a damaged
  file stops entries instead of being skipped;
* position management: every close is finalised once;
* transport and acquisition: no provider is asked faster than configured, a
  failing one is left alone, every exchange is on record, what was cut says so,
  and only a directory of a run that ended verifies under its seal;
* features: what is claimed to be complete is what the chain did, and what was
  said as of a moment is never said otherwise later;
* replay and backtest: a finished journal is the account of one run of one
  configuration, entries fit every limit at once, losses stop entries;
* studies: evidence was known in time, verdicts survive the correction for all
  tests, replications share no token with what they replicate.

## 2. Modules

| Module | Models | Proofs |
|---|---|---|
| `RiskBudget` | what the ledger promises, without clocks, owners or identifiers | - |
| `RiskLedger` | `server/risk-ledger.js` | in `RiskCoordinationProofs` |
| `RiskCoordination` | the EA's entry protocol, its client and the broker, around `RiskLedger` | `RiskCoordinationProofs` |
| `JournalFile` | the append-only files both journals are kept in, with short writes | - |
| `IntentJournal` | `CampaignIntentJournal.mqh` | in `CampaignRecoveryProofs` |
| `DealJournal` | `CampaignJournal.mqh` | in `CampaignRecoveryProofs` |
| `IntentBook` | what the intent journal promises: one durable fate per intent, no order without an intent | - |
| `CampaignRecovery` | the EA's handlers around the two journals, the registry and the retry queue, with the broker and crashes | `CampaignRecoveryProofs` |
| `HttpTransport` | `providers/http.py`, one client | in `AcquisitionProofs` |
| `RawArchive` | `data/raw.py`, `data/provenance.py`: bodies, manifest, `run.json`, seal and verification | in `AcquisitionProofs` |
| `Acquisition` | `data/acquire.py` over the two | `AcquisitionProofs` |
| `GeckoTerminal` | the parsers and coverage claims of the two market providers | in `EvidenceProofs` |
| `Bars` | the point-in-time store and the bars (`providers/store.py`, `features/bars.py`) | in `EvidenceProofs` |
| `TokenFeatures` | quality gate, participation, liquidity, windows | in `EvidenceProofs` |
| `WalletGraph` | clusters and the detectors that read them | - |
| `Evidence` | chain, provider, acquisition and assessment around the four above | `EvidenceProofs` |
| `MarketContext`, `Signals` | what surrounds a token; entry, exit, exhaustion, regime | - |
| `RiskEngine` | `risk/engine.py` | - |
| `Replay` | `replay.py`, `backtest/engine.py`, `journal/journal.py` around the three above | `ReplayProofs` |
| `ShockDNA` | `shock_dna.py`, a state machine fed closed bars | in `ShockContextProofs` |
| `LeadLag` | `lead_lag.py`, a pure measurement | in `ShockContextProofs` |
| `ShockContext` | the two over one stream of bars | `ShockContextProofs` |
| `Observations` | the observation contract and the parsers of phase 3A | in `ResearchProofs` |
| `Statistics`, `Verdicts` | the tests, their correction, and what is concluded from them | in `ResearchProofs` |
| `Research` | the studies over archives that are acquired, sealed and damaged meanwhile | `ResearchProofs` |
| - | induction and sums over finite sets, for the modules above | `FiniteSums` |
| `MC*` | constants for TLC | - |

`RiskCoordination` contains an instance of `RiskLedger`; `CampaignRecovery`
extends the two journals, which extend `JournalFile`. The two compositions
overlap in `AxAttemptEntry`: `RiskCoordination` follows the money (snapshots,
reservations, exposure) and takes the intent as one step that may fail;
`CampaignRecovery` follows the identity of orders and deals and takes the risk
gates as a free choice of when an entry is attempted.

Operators named `X_Y` (for instance `MayReserve_ForgetsExpired`) are plausible
wrong versions of `X`. No specification uses them; each property has one that
breaks it, which shows that the property depends on that piece of the code.

### RiskLedger

`clock` is `Date.now()` of the server, `snapshot` the account's row of
`risk_account_snapshots`, `reservations` the rows of `risk_reservations` by
idempotency key (the table holds it UNIQUE). `MayX` is the list of checks of
operation X, `X` its transaction. A refused request, a rollback, an answer to a
duplicate and a restart of the server change nothing (one `BEGIN IMMEDIATE`
transaction each, `synchronous=FULL`), so they are stuttering steps. The one
thing that is not atomic is the clock, which each operation reads before
`BEGIN IMMEDIATE`: an operation runs with any time in `Captured`, the last
`BusyWait` ticks. Money is in cents; the 0.01 tolerance is one cent.

### RiskCoordination

An instance is one chart. `phase` says where it is:

| phase | code |
|---|---|
| `off` | not started; `OnInit` scans and reconciles, and fails otherwise |
| `idle` | between ticks |
| `refresh` | `OnTick` reconciles after a transaction, without the mutex |
| `entry` | `AxAttemptEntry` holds the mutex and posts the first snapshot |
| `reserve` | waiting for the reservation |
| `send`, `sending` | intent, then inside `OpenMarket` |
| `settle` | position confirmed: scan and settle, defensive close when over the cap |
| `release` | anything else: scan and release |

`wire` is the `WebRequest` in progress, `late` the calls whose client gave up
(timeout or crash) and that may still be served. `Serve` answers, `AnswerLost`
commits and loses the answer, `TimeOut` gives up, `ServeLate` serves afterwards.
`order` is the broker's side: `sent` is in no list of the terminal, `placed` is
in `OrdersTotal` (which makes `Scan` fail: a market order has no type
`PendingOrderRisk` can value), then `filled` or `rejected`, `closed`. These
broker actions and `ServeLate` are the environment; the model takes them from
how the code calls and reads the broker.

Four constants state what the environment does, so that each run says what it
relies on: `ScanGap` (other events fall between a scan and its stamp; the model
also uses it for the lag of the terminal's position list), `Prompt` (an order is
decided before `OpenMarket` gives up, and an order in flight and a scan in
progress are over `Skew` before a reservation expires: the ledger takes stamps
that are so much ahead of its clock and settles by them; as shipped a
reservation lives 60 s, `risk-ledger.js:69`, a busy database waits 5 s, line 80,
and a stamp may be 5 s ahead, line 42), `ClockError` (terminal clocks against
the server's), `Drift` (how far `++m_lastSnapshotMs` may run ahead).

`OrderedCoordination` restricts `Coordination` by one more condition,
`ScansInOrder`, which the code does *not* see to: while a chart gives a
reservation back, no other chart holds a scan it has not posted and no call
under way bears a later stamp. The ceiling needs it (section 5, `ceiling_gap`).

### CampaignRecovery

An instance is one EA, its two files, the registry, the broker and the
terminal's copy of the broker's history. The EA runs one handler at a time:

| pc | code |
|---|---|
| `off` | not running |
| `replay`, then `Started` | `OnInit`: registry reconciled, journals opened, token recovery, then `Replay` deal by deal, then the gates |
| `idle` | between handlers; `OnTradeTransaction` (`DealAdd`) is one step from here |
| `retry` | `OnTick` or `OnTimer`: token recovery, then at most `Batch` retries, then (`OnTick`) an external close |
| `send`, `wait`, `record` | `AxAttemptEntry`: PREPARE is durable, inside `OpenMarket`, before `RecordOpenSetup` |

`intentFile` and `dealFile` are what is on disk, `intents` and `deals` what the
EA has loaded. A file is a state and a `tail`: a write appends a row or leaves
one of the `Short` tails, and an unreadable tail makes the next start refuse to
trade. A position has the name of the order that opened it; the deals are
`<<order, "in">>` and `<<position, "out">>`. A row of the deal journal is a deal
with its campaign and its signal key, which is that of the signal or, for a deal
found through the registry, that of the setup (EA:2554). `history` is what `HistorySelect`
would show, `pending` the transactions the terminal will still deliver. A crash
loses everything but the files and the broker's side.

Constants that say what the environment does: `Alike` (orders that fit another
intent's side, volume, stop and time), `Stripped` (orders whose comment the
broker drops), `Synced` (the history is complete whenever `OnInit` runs),
`Prompt` (no order is undecided when `OnInit` runs), `Repeats` (a transaction
can be delivered again), `RegistryFails`, `Short`, `QueueMax`, `Batch`.

### Acquisition, with HttpTransport and RawArchive

`run()` is sequential, so what it still has to do is the sequence `todo` of
jobs; `After` says which jobs a response puts before the rest (a next page, the
transactions of a signature page, an audit line). `call` is `Fetcher.get` over
`HttpClient._request`:

| `call.at` | code |
|---|---|
| `idle` | before `CircuitBreaker.allow`; `Ask` waits for an open circuit a bounded number of times |
| `send` | `TokenBucket.acquire`, then the request leaves |
| `sent` | waiting; `Succeed`, `Fail`, `Retry`, or `Escape` when the body ends early |
| `write` | `RawStore.record`, and what the caller does with the body |

Time is in ticks. The code reads `time.monotonic`, which is coarser than a sleep
on some systems, so `Clock` rounds down to a multiple of `Grain`. `clients`
holds each provider's bucket, breaker and rate, `trace` its attempts (a history
variable: the code keeps no such list). `Ends` is the end of a process, by
itself, by an exception or killed: memory is gone, the disk stays. `files`,
`lines`, `meta`, `canonical` and `stdout` are the directory; `Kill` may fall
inside a write, `CutBody` and `CutLine` are what is left then. `Seal` and its two
successors are the workflow's sealing, which happens whether or not the run
ended, and may itself be killed.

### Evidence, with GeckoTerminal, Bars, TokenFeatures, WalletGraph

The chain and the provider are external: swaps happen, the provider indexes them
within `Lag`, an answer has pages and malformed rows, and a poll can fail. The
archive of answers is the only state of the program; everything else is computed
from it as of a moment, exactly as `pipeline.assess_token` does. `View` is what
the store shows at a moment, a quantity is an `Obs` (a value with a status), and
the properties compare quantities whose status is OK with the chain itself.

### Replay, with MarketContext, Signals, RiskEngine

The data set is chosen scene by scene when a step first reads it and is fixed
from then on (`data`), so a second run reads the same. A step of a replay
assesses the tokens one by one, each a line of the journal; a step of a backtest
resets the day's books (`OpenStep`), closes positions one by one and then enters
one by one. `run.phase` and `run.todo` say where in the step it is. `Die` may
leave half a line. `StartReplay` finds the journal of an earlier run, refuses
when its first line is of another configuration or cannot be read, and otherwise
deletes it and begins again, as the code does. A hash is the sequence of what
was hashed, so two hashes are equal only when what they cover is.

### ShockContext, with ShockDNA and LeadLag

`ClosedBar` adds a bar to both series, measures transmission on the bars so far
and feeds the receiver's bar to the engine; `NewStretch` begins a new series.
`ShockDNA` keeps the engine's fields (`active`, `sampled`, `snapshot`);
`level`, `base` and `levels` are history variables that say where the market is,
where the event started and how it has settled since. The loop itself is outside the package.

### Research, with Observations, Statistics, Verdicts

What every archive will contain is chosen once (`world`); which archives are
complete and verify changes while a study runs (`disk`). Phase 3A decides once
what is evidence, phase 3B studies that, phase 3C that and every new archive
that verifies when it begins. `study` walks through include, read, evaluate and
conclude; correlations are computed exactly on the rows, p-values are drawn
because they depend on random permutations.

## 3. Runs

| Run | Bounds | Shows |
|---|---|---|
| `ledger` | 2 instances, 2 keys, 2 snapshot ids, 4 ticks, TTL 2, age 1, skew 1, busy wait 1 | the ledger's invariants and action properties, and that it implements `RiskBudget` |
| `coordination` | 2 terminals, 2 orders of the whole cap each, 4 ticks, TTL 3, busy wait 1, `ScanGap`, one late call, one crash, `OrderedCoordination` | the ceiling across terminals, the ledger never underestimates the account, every order in flight is reserved |
| `ceiling_gap` | 2 terminals, 5 ticks, TTL 4, exact clocks, `ScanGap`, nothing lost or late, no crash | a finding, section 5: without `ScansInOrder` the ceiling is false |
| `coordination_live` | 2 charts in one terminal, 2 ticks, `ScanGap`, late call, crash, fairness | mutual exclusion, attempts end, the mutex comes free |
| `campaign` | 2 intents, one with its comment dropped, torn and missing rows, queue of 1, batch of 1, two crashes, `Synced`, `Prompt` | intents, deals, queue, registry and orders stay consistent through callbacks, retries and startup; the files implement `IntentBook` |
| `campaign_live` | 1 intent, repeated transactions, failing registry, queue of 2, one crash, late orders, fairness | every deal gets journaled, and the retry lock stays on only over a ticket that the journal refuses |
| `acquisition` | one pool collected of three listed, clock grain 2, burst 1, threshold 1, one retry, 2 faults (bad answers, kills, torn writes), 2 runs in one directory | rates, rests, records, truncation notes, and what a seal means |
| `evidence` | one token, 5 ticks, at most 3 swaps, page of 2, bar answers of 2; of trades and bars 3 answers, or 2 with two wallets, or 2 with a malformed row; 3 answers of pools and metadata; 2048 small loaded data sets of swaps and transfers | what is claimed complete is what the chain did; nothing said of the past changes |
| `replay` | 3 tokens in 2 chains and 3 narratives, 3 steps over 2 days of 8 kinds of scene, 2 runs with 2 configurations, a death anywhere | journals, limits, losses |
| `shock` | series of up to 9 bars with at most 1 flaw, 6 kinds of bar, lag 1, 3 readings | events are their bars, claims are above the noise of their own half |
| `research` | 5 worlds of 3 archives, 9 tokens, 4 hypotheses, 2 p-values, samples of 6 | evidence in time, discoveries only, independent replications |
| `release_undecided` | smallest that shows it | a finding, section 5 |

Why these bounds are enough for what they show: the interesting cases need two
competitors for one budget (each order takes all of it, so a double grant is
visible at once), one reservation that lives through its expiry (TTL 2 or 3, so
creation, expiry and sweep fall in four ticks), one call that arrives out of
order and one crash. The ordering of events inside a tick is free. Two charts
are enough for the ceiling under `OrderedCoordination`, because the theorem
`CeilingHolds` is about any number of them; `ceiling_gap` shows that two
terminals are enough to break it without. `coordination` has exact clocks;
stamps that are off (`ClockError`, `Drift`) are covered by the theorems, and
were model-checked with `Drift` 1 in place of the crash and with `ClockError` 1
in place of the late call. In `campaign` two intents are needed for anything to
be attributed to the wrong one or to be sent while another is open, and give
four deals, so a queue of one overflows; the second crash can come while the EA
recovers from the first.
`campaign_live` has one intent (two deals, so the queue of two shrinks under the
cursor, and cannot overflow) because the checker's liveness graph grows quickly.
The real capacities are 128 and 4: nothing in the code depends on them other
than by comparison. Deadlock is not checked: clocks, keys, intents and crashes
are bounded, so a behaviour ends when they are used up.

The research runs are cut to the cases that need several steps: `acquisition`
needs a service that fails, rests and fails again (threshold 1, cooldown longer
than a cycle), a wait for a token that ends between two readings of the clock
(grain 2, rate 1 or 2 parts of 4), one history longer than its page limit and
one directory used twice; `evidence` needs a full page that cuts a swap off, two
polls of the trades (overlapping, or one of them failed) beside a bar, with a
swap between them, a bar still forming and a record about the past that comes
later (of the links between wallets those of trades and transfers occur in the
run; a creator's links are covered by the theorem); `replay` needs three tokens
that share a chain or a narrative in different pairs, and three steps over
midnight because a loss is booked at least one step after its entry; `shock`
needs an onset, a peak, a flaw inside the event and a return (nine bars), with
windows long enough that the halves have another noise floor than the whole;
`research` needs three archives of which two share tokens, and samples on both
sides of the minimum.

Fairness (`FairCoordination`): an instance inside `OnInit`, `OnTick` or
`AxAttemptEntry` runs on (they are single-threaded calls that return), a
`WebRequest` ends (it has a timeout), and the broker decides an order. Nothing is assumed
of clocks, of answers, or of when a new attempt starts.

Fairness (`FairRecovery`): a handler that has begun goes on, and ticks or the
timer (`EventSetTimer`) keep coming (weak fairness of `Expert`); a transaction
is delivered although the EA is often busy with another handler (strong
fairness of `DealAdd`: MetaTrader queues transactions and an EA returns to idle
again and again); the broker decides an order and its history catches up.
Nothing is assumed of `Enter`, `CloseOut` or `Crash`.

## 4. Proofs

Every theorem is about the specification that TLC runs, for every value of the
constants its `ASSUME`s allow. Those are listed where they say something about
the environment; otherwise they are the types of the parameters.

`FiniteSums` holds what the other modules keep needing: induction over numbers
and over the subsets of a finite set, and the laws of a sum over a finite set
(one element more or less, disjoint unions, monotony). Induction is stated for a
*set* of numbers or of subsets, because the library's induction theorems take an
operator and cannot be instantiated; the sum of the community modules is a
function chosen by its recursion, so its existence is proved first (`Table`).

`RiskCoordinationProofs`, the ledger by itself (from `LedgerConstants` only: any
numbers of terminals, keys, amounts, ages, skews and waits):

* `TypeCorrect`;
* `ReleasesAreProved`: `ReleaseProved` is inductive with the types because
  snapshots only move forward and a row's creation time never changes;
* `EvidenceIsMonotone`, `ClosedRowsAreFinal`: action properties, one step per
  operation from the types;
* `GrantsStayWithinCap`: the code sums the unexpired reservations at a clock
  read earlier; its guard that no expired one is active makes that set equal to
  all active ones;
* `LedgerImplementsBudget`: each operation is a `Publish`, a `Grant` or a
  stutter of `RiskBudget`. The sum over keys after a grant needs the fact that
  a fresh key adds nothing, which the initial zero of `amount` gives.

`RiskCoordinationProofs`, the protocol (from `CoordinationConstants`, any number
of terminals, charts and crashes):

* `CoordinationTypeCorrect`;
* `FollowsLedger`: the whole protocol implements `RiskLedger!Spec`, so every
  theorem above holds inside it;
* `MutualExclusion`: `OneAttemptPerTerminal` is not inductive; `HoldsMutex`
  (whoever attempts holds its terminal's mutex) is, and implies it.
* `OrdersAreReserved` assumes `Timely`: `Prompt`, and a busy database and the
  tolerated skew together are shorter than the life of a reservation. Clock
  errors and drift may be any, scans may be old, calls late or lost. `Backing`
  says that a reservation of an order in flight is active and that its expiry is
  more than `Skew` away, so no stamp the ledger takes sweeps or settles it; that
  no call still to be served, not even one whose client is gone, closes a
  reservation whose order is undecided (`CallSafe`); and where the order of each
  attempt is at each of its stages (`Stage`).
* `LedgerCovers` is about `OrderedCoordination` and assumes `Timely` and
  `ClockError + Drift <= Skew` (a stamp that is further ahead is refused). A
  scan gap is allowed; what is not allowed is that a reservation is given back
  inside one (`ScansInOrder`), which is a finding. What is live is what is
  filled, in flight, or granted and about to be sent. `Coverage` says that what
  is live and not held by a reservation that *will still count* is in the
  exposure, of the stored snapshot and of every snapshot on its way that could
  replace it: a reservation counts while the snapshot is before its expiry
  (`Counted`), and is kept when no call that is older than the snapshot can
  close it first (`Kept`); a call that closes one has that order in its own
  snapshot. `Seen` says the same of a scan that is not stamped yet: what it lacks
  has a reservation that counts for every stamp the ledger would take and that no
  call under way closes (`Safe`), apart from the one the scan's own chart is
  about to give back (`Ending`).
* `CeilingHolds` (same hypotheses): an order becomes live only by a grant, and a
  grant leaves exposure plus reservations within the cap while these cover all
  that is live (`LiveWithinCap`).
* `CeilingInOneTerminal` is the ceiling without the ledger. It assumes
  `Undisturbed` (one terminal, `Prompt`, no crash) and nothing about gaps,
  clocks, drift, late calls or the life of a reservation. The mutex lets one
  chart attempt at a time, whoever sent an order that is undecided is still in
  `OpenMarket` (`SendersWait`), so nothing can fill between the local evaluation
  of the whole account and the order: what fitted then still fits when it is
  sent (`EntriesStillFit`). A crash takes `SendersWait` away: of
  three charts the ceiling is then false (section 5).

`CampaignRecoveryProofs` (from `RecoveryConstants`: any number of intents and
crashes, any queue and batch). Its theorems assume, by name, what the property
really needs. The
negation of each hypothesis is a real weakness of the code (section 5), which is
why it is in the statement and not in the model:

* `NoOpenRows`: no short write leaves a whole row without its terminator;
* `Distinguishable`: no two orders look alike;
* `Synced`: the history is complete when `OnInit` runs;
* `Prompt`: no order is undecided when `OnInit` runs.

The argument, in four layers:

1. `WriteAhead` relates memory, file and orders: an open journal is what a
   restart would read, the intent about to be sent is prepared and has no order
   yet, every order that ever left has a row, the history shows an order's end
   only when it has ended, and a REJECT row is true of the broker. It gives
   `RejectionsAreTrue`, `OrdersAreDurable` and `RecoveryImplementsBook`.
   `JournalIsWrittenAhead` states the invariant itself.
2. `Books` relates the deal journal's memory and file and says that no deal has
   two rows; `JournaledOnce` (final attributions and keys, no row twice) needs no
   hypothesis at all. `Accounted` adds where a deal is between callback, queue,
   replay and file; `DealsAreAccounted` follows (`NoOpenRows`, `Synced`).
3. `AllBooks` joins both with `EntriesAttributed`, `DealsAreMade`, `QueueLocks`
   and `IntentsAreOrderly` (at most one intent is prepared, and one is bound only
   to its own order). It is needed
   because an entry's clean books depend on both: a lock that is off means an
   empty queue, an empty queue means each delivered entry deal is in the file,
   and its row has a campaign because its order's intent was bound by then.
   `EntriesFindCleanBooks` follows (the first three hypotheses).
4. `Causes` says that whatever could name a campaign names the right one: at
   most one order is at the broker or open as a position (`AloneAtBroker`,
   `AttemptIsAlone`, which is where `Prompt` is needed: fills of two orders are
   netted into one position; it also says that an EA that tracks no position and
   allows entries has none open, because the code looks at `g_haveOpenPosition`
   only), a setup is recorded for its own position, an
   intent is bound to its own order, and every row of the deal journal has the
   campaign of its deal or none. `CampaignsAreCauses` follows.

`AcquisitionProofs` (from `TransportConstants` and `AcquisitionConstants`: any
plan, any providers' answers, any number of faults and of runs in a directory):

* `SealedArchivesEnded`: `SealInv` says that a running directory is unsealed and
  that a COMPLETE one counted its lines; `SealedIsEnded` alone is not inductive,
  because a seal is written long after the run that it is about.
* `RateIsRespected`: for each attempt i, what left since i *and what is still in
  the bucket* came in since i or was the burst (`Spent`). The bucket's own clock
  is ahead of a reading only while the bucket is empty (`BucketOK`); this is what
  makes a coarse clock harmless, and the reason the code sets `last` forward.
  The rate only ever lies between 1 and the configured one.
* `FailingServicesRest`: the breaker counts at least the failures since the last
  success, and once there are enough it was opened at the last of them
  (`Counted`); the first attempt of a call leaves only after `allow`.

* `EveryAttemptIsOnRecord`: `RecordInv` says that the attempts of all services
  together are the tries written in this run's lines, plus those of the call that
  is being made, plus the one that is away. Both sides are sums (over services,
  over lines), so each step needs the laws of `FiniteSums`.
* `HistoriesAreHonest`: a history is recorded at the last of its pages, or at
  a failed one, and says there what it left out; `JobsInv` is what this needs of
  the work list: every page of it is below the page limit, whatever `After` puts
  in front of the rest, and it ends with a stage of the run.

The three per-provider parts of the transport are joined in `ServiceOK`, shown to survive time
passing, a request leaving and an answer coming (`ServiceWaits`, `ServiceSends`,
`ServiceAnswers`), and then carried through all of `AcquisitionNext` (`NetInv`).

`ReplayProofs` (from `ReplayConstants`: any scenes, tokens, configurations, steps
and runs; amounts are natural numbers, evidence is typed where it is known):

* `JournalIsTheRun`. A finished journal is right because it was right line by
  line: `JournalInv` says that a replay that is going on or done has written
  exactly the records it has in memory, each line linked to the one before and of
  its own configuration (`JournalFollows`), and that lines of two configurations
  never meet, whatever a death leaves behind (`OneConfig`).
* `EntriesFit`, by two halves. `Approved` is about the risk engine alone: the
  size is never more than the least cap, however often it is shrunk
  (`ShrinkBounds`), so what it was told of and the size together fit each limit.
  `EntryFits` is about what it is told: `PortfolioInv` keeps the book the image of
  the open positions, one to one (`BookOK`, `PositionsOK`; no token is open
  twice), so the two sums are the same (`HeldIsExposure`). This holds because an
  entry is of a visible token that is not held, and a token stays visible
  (`DataOK`, `RunOK`).
* `LossesStop`: the two counters of `PortfolioState` stand for the trades
  themselves (`CountersOK`). The equity is the initial one and what all trades
  made; before the exits of a step have begun, `realized` is what the trades of
  the *previous* step's day made, afterwards what those of this day made
  (`DayBooked`; a day that has passed gets no more trades because days follow
  steps); the streak reaches back to a trade that won, or to the first
  (`Streak`).

`ShockContextProofs` (from `ShockConstants`, `LeadLagAssumption` and
`BoundsAssumption`, for any bars of two markets):

* `EventIsItsBarsHolds`, and `EventIsItsBarsInContext` inside the loop.
  `ShockInv` adds the types and that no event is tracked before the warm-up is
  over (`WarmBeforeEvent`): a bar spent on the warm-up while an event is tracked
  would move the market without the event seeing it.
* `ClaimsAreAboveNoise`: a measurement is a function of the bars, so the work is
  in `MeasuredAboveNoise`. A direction other than none comes only from a state
  whose correlation passed a floor; the states about a half of the window passed
  the floor of half the pairs, which is asked to have at least two. The table
  `NoiseFloor` may be any, it need not fall with the number of pairs.

`EvidenceProofs` (from `ProviderConstants` and those of the features: any
numbers of swaps, answers, malformed rows and retries, any page size and lag):

* `EvidenceInv` says of every answer what it can have shown (`AnswerReal`): the
  trades or bars in it are those of the chain, and all of those that its claim
  covers. It stays true while the chain grows because a claim ends `Lag` before
  the answer came, and swaps happen later than that.
* `ViewsAreFrozen`: a judgement as of an earlier moment reads only a view, and a
  new answer is seen now, so it is in no earlier view.
* `LiquidityHolds`: the latest level a view shows of one source, and the latest
  at the beginning of the window, are levels of the pool at those moments; the
  source is the same in both, so the factor between sources cancels.
* `BarsHold`: the bar of a minute is that of some answer (first received wins).
  A minute without a bar that is called complete and empty lies inside the claim
  of one answer, at or after its first row, and so had no swap.
* `FlowHolds`: the claims of trades are joined from the latest backwards
  (`ContiguousFrom`), so every tick of the window is inside one claim; a swap in
  it is a row of that answer unless it was dropped or cut at the end of a full
  page (`Excused`); the same swap in two answers is counted once because its key
  is the same and the wallet and the side are the chain's.
* `ClustersHold` (with `EvidenceConstants` and `WalletConstants`: orders and
  transfers have moments, sets are finite, wallets must be synchronous at least
  once): the links are taken one by one; after each, every wallet points to one that
  is no greater (`Forest`, so following the pointers ends), the two ends of a link
  that was taken have one root, and a set that no such link leaves has a wallet
  exactly when it has its root (`Joins`). The other half is that the links are
  the joined pairs: of common funding the code links a wallet only to the one
  funded next, so the property goes from link to link to any two that one source
  funded within the window (`FundedTogether`).

`ResearchProofs` (from `ResearchConstants`: any archives, hypotheses, tokens,
samples and levels; an archive is a finite set of answers of the endpoints that
`acquire.py` asks, `WellFormed`):

* `EvidenceInTimeHolds`: `RowsInv` says of every row of a study that its archive
  is one the study included and that its value is the feature value of that
  archive at the row's time, and of phase 3C that no token has rows of two
  archives. Of a row that rests on failed requests alone the property asks
  nothing: the code gives it a 0 that the contract does not (section 5). The
  value is shown to be what the answers that had come by then say
  (`ValueInTime`): normalisation keeps each observation's time, and of several
  copies of a record keeps the earliest.
* `SurvivorsHold`: the corrected p-value of a test is the least of the chain of
  its own and all later ranks, cut at 1 (`ChainOf`). It is below the level for
  *exactly* the tests that the step-up procedure finds. If it is below, one of
  these ranks is below its own threshold, and that many p-values of the family
  are no greater (a pigeonhole argument about positions in an order). Conversely
  a test that is found stands at or before the rank that finds it, whose value
  is in its chain: without the minimum over later ranks it would be missed. The
  family is every test with a p-value exactly once (`FamilyIs`), and
  `VerdictsInv` says that the results of a study that is done differ from those
  it tested by that correction only.
* `ReplicationHolds`: from `Apart` (in `RowsInv`), because one sign over two or
  more archives means two archives with one sign.

Each inductive invariant was model-checked before it was proved.

Only model-checked: liveness under fairness (`ENABLED`), which the proof system
does not cover. Every safety property of the passing runs is stated by a theorem;
the ceiling without `ScansInOrder` is false (run `ceiling_gap`), so none states it.

Two properties of `Research` are stated so that they can be proved: discoveries
are a set of tests (a hypothesis and a target), and an association of exactly
zero counts as positive, as `copysign` makes it in `phase3c_pipeline.py`.

`EntriesFitTheLimits` is about the portfolio and the chain and narratives of the
position that is taken. Another chain may be over its limit at that moment: the
limits are shares of the equity, which a loss lowers, and the code neither checks
nor reduces what it does not touch (`RiskEngine.evaluate`, engine.py:80-90).

## 5. Findings

Two findings have a run:

* `release_undecided`: after an order call without an outcome the EA releases
  the reservation on a scan that cannot show the order, against
  `server/README.md:96`.
* `ceiling_gap`: a snapshot is stamped when posted, not when scanned
  (`DistributedRiskCoordinator.mqh:133`). Chart b of another terminal scans; a's
  order fills and is settled; b stamps its old scan, which replaces the exposure
  with a's position in it, and is granted a reservation against it: two orders
  where one fits, with exact clocks and nothing lost, against the 2% ceiling that
  `server/risk-ledger.js:200` calls immutable.

The following disagreements come with a definition that is false of the code;
none of the runs checks it, and giving it to TLC with the constants named here
shows a counterexample.

* `SettlementFollowsGrant` (`RiskLedger`, constants of `MCRiskLedger.cfg`):
  `settle` accepts a snapshot older than the reservation (`release` checks,
  `settle` does not), against its own message (`server/risk-ledger.js:255`).
* `ConsumedIsDecided` (`RiskCoordination`, `ClockError` or `Drift` positive):
  expiry is swept by the client's stamp, which may be in the ledger's future, so
  a live reservation is consumed with its order in flight, against the comment
  at `server/risk-ledger.js:143`.
* `CommittedWithinCap` with *one* terminal, `ScanGap` and one crash, for three
  charts (a cap of two orders: `AccountEquity` 200, orders of 2, `Exposure` 0, 2,
  4, 6, `MaxAge` 2, `TTL` 7, `Horizon` 8, no clock error, no late call). Chart
  a's order is on its way, in no list of the account, when the terminal dies.
  After the restart a scans but has not posted yet; chart c enters and fills;
  chart b's local evaluation and its own snapshot see c's position but not a's
  order; then a's scan, taken before c's fill and stamped after it, replaces the
  stored exposure. The ledger now counts a's reservation and not c's position,
  and grants b: three orders where two fit. It takes an
  order the old scan misses, one no scan shows, and one that is granted.
* `ReplayAttributes` (`CampaignRecovery`): `Replay` never looks for the campaign
  of a deal's position in the journal (`CampaignHistoryReconciler.mqh:168`),
  which `docs/design/flipdemon-campaign-journal-reconciliation.md:205` gives as
  the third rule of both the callback and the replay; an exit that happened
  while the EA was off stays unattributed.
* `FilledIsManaged` (`CampaignRecovery`, `Prompt = FALSE`): an order that fills
  after `OpenMarket` has given up opens a position the EA neither manages nor
  closes in that session, against "managing any fill" (EA:1424).
* `RetryLockAlwaysClears` (`CampaignRecovery`, constants of
  `MCCampaignRecoveryLive.cfg`): an exit journaled through the registry has the
  setup's identifier as its signal key (EA:2554). When its transaction is
  delivered again after the trade was finalised, the deal is found through its
  position's first row, which has the signal's key; `AmendAttribution` refuses
  the other key (`CampaignJournal.mqh:392`), every retry fails and entries stay
  locked, against "Repeated callbacks for the same deal must be idempotent"
  (`docs/design/flipdemon-campaign-journal-reconciliation.md:63`). With
  `Repeats = FALSE` it holds. `RetryLockClears`, which the run checks, says that
  this is the only way the lock can stay on.
* `NegativesWereAnswered` (`Research`, constants of `MCResearch.cfg`):
  `_obs_feature_value` of a binary feature gives 0 as soon as any observation is
  visible, a failed or unavailable one included, against its own comment
  (`phase3b_pipeline.py:53`, "only when the source was asked and answered without
  the fact") and `phase3b_contract.py:117` ("not counted as a negative
  observation"). `EvidenceIsInTime` leaves rows that rest on failures alone out.
* `FlowIsRealWithoutBars` (`Evidence`): without a provider bar the coverage that
  the trades claim is not consulted (`pipeline.py:115`, the else branch), so a
  flow that was cut counts as complete, against `features/participation.py:41`.

Five more disagreements show up when a constant of `MCCampaignRecovery.cfg` is
changed, and explain the hypotheses above. They have no run of their own:

* `Short` with `"open"`: a row that lost only its terminator is accepted at the
  next start, and the next PREPARE is glued to it; an order can then be sent
  that a further restart does not know (`CampaignIntentJournal.mqh:139`, against
  the comment at EA:1364). `DurableBeforeSent` fails.
* `Alike` not the identity: at startup an undecided intent is bound to the only
  order that fits its metadata, even when its own order never existed
  (`CampaignHistoryReconciler.mqh:97`). `ImplementsIntentBook` fails.
* `Prompt = FALSE` with two intents: an intent that was bound without a fill
  blocks nothing after a restart (EA:1968), so a second order can be sent while
  the first is undecided, and both fills end in one netted position.
  `AttributedToCause` fails.
* `Synced = FALSE`: a deal that is not in the history at `OnInit` and whose
  transaction was missed is never journaled. `NoDealForgotten` fails.
* a full queue locks entries, and so violates no property, but the deal itself
  is not kept, although the message at EA:2584 says it is not discarded; it
  returns at the next startup.

Met while translating the research side, visible in the definitions and not
stated as properties:

* a body that ends early raises an exception that `_request` and `get` do not
  catch, so that exchange is not on record (`data/raw.py:3` says every one is);
  `ExchangesOnRecord` holds because the run ends there (`Escape`);
* a torn body is kept by the next run because its path exists, and a torn
  manifest line is glued to the next one; both make verification fail, so they
  are never taken for good;
* the branch of `provenance.py:180` for archives without a seal checks neither
  the status nor the committed files;
* the documentation of `get_json` (`http.py:94`) speaks of retrying a body that
  is not JSON, and the breaker's (`http.py:100`) of letting one call through; the
  code does not retry, and lets all through after the cooldown;
* a full page that begins on a minute boundary claims a tick of which other
  swaps may have been cut (`core/models.py:183`);
* only the hash of the configuration is compared when a replay finds a journal
  (`replay.py:126`): the journal of another data set or code version in the same
  directory is deleted;
* `consecutive_losses` is only reset by a winning trade, so a backtest that has
  reached the limit takes no further position; a replay books no losses at all;
* entries of the last step of a replay are never closed, and an exit without a
  price has no outcome;
* `FOLLOW_THROUGH` and lead/lag `INACTIVE` are given in states their comments do
  not name (an old weak, recently strong association with a weak whole is
  INACTIVE);
* a return over an excluded bar is missing from the cumulated move of an event;
* a list whose items are all dropped gives no observation at all;
* one block time that contradicts its answer aborts the whole normalisation of
  an archive, because the transaction parsers do not check it first;
* an archive that phase 3A accepted is not verified again by 3B or 3C; 3B does
  not look for the same token in two archives; the robustness gate counts rows
  where the sample gate counts tokens; a phase 3C verdict follows the first
  significant target only.

## 6. Not modelled, and simplifications

* Not modelled at all: position management, risk gates and analytics of the EA
  (`CampaignRecovery` has only the end of a trade), dashboards and the bridge
  server, alerts, SQL export, wallet skill, the simulator, event studies and
  metrics, and the numerical research scripts. They are one-pass computations or
  I/O, except for position management and the risk gates, which are the next
  step of the plan.
* Quantities of the research side are small integers: a swap is worth one, a
  z-score is in tenths, a correlation in percent. Scores that are only reported
  are left out; a score that decides something is kept as what it is compared
  with. The p-values of permutation tests are drawn.
* Query strings, headers, JSON and the reasons why a row is malformed are left
  out; a row is well formed or not. The state of the git checkout is one
  condition of the seal.
* An acquisition has one thread, and a client is used by one thread, as
  `acquire.py` uses it.
* A replay and a backtest of the model scan the same kinds of scene; scenes are
  chosen so that each guard of entry, exit and sizing is met, not at random.
* Validation and authentication of requests: a refused request changes nothing.
* `ACCOUNT_EQUITY` and the stop risk of a position are constant in
  `RiskCoordination`; the ledger alone is checked with changing equity.
* The integrity lock is left out: it is cleared by the next clean scan, which
  the attempt makes anyway. An attempt is allowed in more states than the code
  allows it (all the numeric gates are left out), which can only add behaviours.
* An EA that fails in `OnInit` and one that is restarted forget the last stamp.
* A crash takes a whole terminal: an EA removed from its chart runs `OnDeinit`,
  which releases the mutex.
* The path where `BuildBrokerComment` returns nothing (EA:1399) is left out.
* `CampaignRecovery` leaves out: collisions of the order token's hash, deals of
  other magic numbers and manual closes, the once-per-second throttle of the
  handlers, requote retries inside `OpenMarket`, partial closes and the
  exit-history boundary check, reinitialisation by a timeframe change (which
  keeps globals), and the format of the registry file.
* A torn intent file is loaded as far as its last good row by the code; the
  model then loads nothing. Either way the journal is not ready and entries are
  refused.
* `AxRecordExternalClose` (EA:707) passes six of the seven arguments of
  `AxFinalizeTrade`; it is modelled as the call it is meant to be.
* A position's ticket and identifier are one name; a tracked position whose
  identifier was never read (`Lost`) is not finalised in that session.

## 7. Plan

Done: the ledger, the entry protocol, both journals and their recovery; the
research side from the HTTP client to the verdicts; the proofs of section 4.

1. `PositionLifecycle`: one position from fill to finalisation: partial closes,
   flips, external closes, the kill switch, history that lags, and the daily and
   weekly limits and lockouts of `RiskEngine.mqh` it feeds (each close counted
   once, lockouts that survive or do not survive a restart).
2. `SetupRegistry`: the registry file, its rewrite through a temporary file, its
   header, and its reconciliation with positions; refines the set `setups` of
   `CampaignRecovery`.
3. With both, their theorems: a close counted once, and the refinement of `setups`.

------------------------------- MODULE Replay -------------------------------
(***************************************************************************)
(* A data set walked through in steps (replay.py, backtest/engine.py): at  *)
(* every step the visible tokens are scanned, what is held is kept or      *)
(* given up, and what signals is proposed to the risk engine; orders fill  *)
(* at what is visible a little later.  A replay writes a journal of every  *)
(* assessment, chained by hashes (journal/journal.py); it may die at any   *)
(* moment and be started again in the same directory, with the same        *)
(* configuration or another.  A backtest books the losses and limits       *)
(* itself by them; it leaves no file.                                      *)
(*                                                                         *)
(* The data set is chosen scene by scene when a step first reads it, and   *)
(* then stays what it is.  A hash is the sequence of what was hashed.      *)
(***************************************************************************)
EXTENDS RiskEngine, TLC

CONSTANTS
    Tokens,         \* all tokens, in the order of their keys
    Scenes,         \* what a step may see: a sequence of [tokens, corr]
    Configs,        \* fingerprints of configurations
    Steps,          \* bound: steps of a data set
    StepsPerDay,
    MaxRuns,        \* bound: runs in one directory
    Fee,            \* backtest.fee_bps, and the pools' fee, in per mille
    PriorityFee

VARIABLES
    data,       \* the scenes read so far, by their numbers
    run,        \* [mode, config, status, t, phase, todo, day]
    runs,       \* how many runs were started
    open,       \* hypothetical positions, in the order of their entries
    book,       \* PortfolioState
    records,    \* what the replay has in memory
    trades,     \* what the backtest has closed
    journal     \* journal.jsonl

vars == <<data, run, runs, open, book, records, trades, journal>>

\* The prices and levels of the evidence are amounts, where they are known.
EvidenceTyped(e) ==
    /\ IsFiniteSet(e.narratives)
    /\ Has(e.fill.price) => e.fill.price \in Nat
    /\ Has(e.fill.liq) => e.fill.liq \in Nat
    /\ Has(e.onset) => e.onset.price \in Nat

ASSUME ReplayConstants ==
    /\ Steps \in Nat \ {0} /\ StepsPerDay \in Nat \ {0} /\ MaxRuns \in Nat
    /\ Config.equity \in Nat /\ Config.maxLosses \in Nat \ {0} /\ Config.minLiquidity \in Nat \ {0}
    /\ {Config.maxRisk, Config.maxPortfolio, Config.maxNarrative, Config.maxChain, Config.maxDailyLoss,
        Config.maxSlippage, Config.exitMultiplier, Config.maxPoolShare, Fee, PriorityFee} \subseteq Nat
    /\ Tokens \in Seq(Range(Tokens)) /\ Scenes \in Seq(Range(Scenes))
    /\ \A s \in DOMAIN Scenes : \A k \in DOMAIN Scenes[s].tokens : EvidenceTyped(Scenes[s].tokens[k])

\* --------------------------------------------------------------- journal --
NoFile == [exists |-> FALSE, lines |-> <<>>, torn |-> FALSE]
LastHash(file) == IF file.lines = <<>> THEN <<>> ELSE Last(file.lines).hash

JournalLine(prev, config, payload) ==
    [config |-> config, payload |-> payload, prev |-> prev, hash |-> Append(prev, <<config, payload>>)]

Append1(file, config, payload) ==
    [file EXCEPT !.exists = TRUE, !.lines = Append(@, JournalLine(LastHash(file), config, payload))]

Verifies(file) ==
    /\ ~file.torn
    /\ \A i \in DOMAIN file.lines :
        LET line == file.lines[i]
            prev == IF i = 1 THEN <<>> ELSE file.lines[i - 1].hash
        IN  line.prev = prev /\ line.hash = Append(prev, <<line.config, line.payload>>)

\* ------------------------------------------------------------------ views --
NoScene == [tokens |-> <<>>, corr |-> <<>>]

\* Every scan there can be: a step sees its scene and what the one before it
\* saw (0 before the first).
Scans ==
    Tabulated([q \in (1..Len(Scenes)) \X (0..Len(Scenes)) \X (1..Steps) |->
        Scan(Scenes[q[1]], IF q[2] = 0 THEN NoScene ELSE Scenes[q[2]], q[3], Tokens)])

Now == Scans[data[run.t], IF run.t = 1 THEN 0 ELSE data[run.t - 1], run.t]

\* The elements of a sequence at some of its indices, in their order.
Those(s, indices) ==
    LET upTo[i \in 0..Len(s)] ==
            IF i = 0 THEN <<>> ELSE IF i \in indices THEN Append(upTo[i - 1], s[i]) ELSE upTo[i - 1]
    IN  upTo[Len(s)]

TokensOf(scene) == DOMAIN Scenes[scene].tokens
Visible(scene) == Those(Tokens, {i \in DOMAIN Tokens : Tokens[i] \in TokensOf(scene)})

\* _price_liq of the view at t + latency.
Fill(k) == Scenes[data[run.t]].tokens[k].fill

Holds(k) == \E i \in DOMAIN open : open[i].token = k
PositionOf(k) == CHOOSE p \in Range(open) : p.token = k
Final == run.t = Steps

EmptyBook == [equity |-> Config.equity, positions |-> {}, realized |-> 0, losses |-> 0]
Idle == [mode |-> "none", config |-> None, status |-> "none", t |-> 0, phase |-> "none", todo |-> <<>>, day |-> None]

Init ==
    /\ data = <<>> /\ run = Idle /\ runs = 0
    /\ open = <<>> /\ book = EmptyBook /\ records = <<>> /\ trades = <<>>
    /\ journal = NoFile

\* ------------------------------------------------------------------ start --
\* Scene t is read, now or in an earlier run; a token that was visible stays so.
Reads(t) ==
    IF t <= Len(data) THEN UNCHANGED data
    ELSE \E s \in DOMAIN Scenes :
            /\ t > 1 => TokensOf(data[t - 1]) \subseteq TokensOf(s)
            /\ data' = Append(data, s)

Opened == [i \in DOMAIN open |-> open[i].token]

\* A variant for the mutation check: the journal of the last run is continued.
Unlinked_Kept(file) == file

Unlinked(file) == NoFile

\* replay.run to its loop: an unreadable first line raises, another
\* configuration is refused, a journal of the same one is rebuilt.
StartReplay(config, expected) ==
    LET unreadable == journal.exists /\ journal.lines = <<>>
        other      == journal.lines # <<>> /\ journal.lines[1].config # config
        refuses    == (Has(expected) /\ expected # config) \/ other
        clean(s)   == [Idle EXCEPT !.mode = "replay", !.config = config, !.status = s]
    IN  /\ run.status # "running" /\ runs < MaxRuns
        /\ runs' = runs + 1
        /\ open' = <<>> /\ book' = EmptyBook /\ records' = <<>> /\ trades' = <<>>
        /\ \/ /\ refuses \/ unreadable
              /\ run' = clean("refused")
              /\ UNCHANGED <<data, journal>>
           \/ /\ ~refuses /\ ~unreadable
              /\ journal' = IF journal.exists THEN Unlinked(journal) ELSE journal
              /\ Reads(1)
              /\ run' = [clean("running") EXCEPT !.t = 1, !.phase = "assess",
                            !.todo = Visible(data'[1])]

StartBacktest ==
    /\ run.status # "running" /\ runs < MaxRuns
    /\ runs' = runs + 1
    /\ open' = <<>> /\ book' = EmptyBook /\ records' = <<>> /\ trades' = <<>>
    /\ Reads(1)
    /\ run' = [Idle EXCEPT !.mode = "backtest", !.status = "running", !.t = 1, !.phase = "exits"]
    /\ UNCHANGED journal

\* ---------------------------------------------------------------- entries --
Proposal(k, a) ==
    [chain |-> a.e.chain, narratives |-> a.e.narratives, price |-> Fill(k).price, liq |-> Fill(k).liq,
     stop |-> IF Has(a.move.onset) THEN a.move.onset.price ELSE None, fee |-> Fee]

Position(k, a, amount) ==
    [token |-> k, chain |-> a.e.chain, narratives |-> a.e.narratives, notional |-> amount, since |-> run.t,
     price |-> Fill(k).price, liq |-> Fill(k).liq, stop |-> Proposal(k, a).stop]

Exposed(p) == [token |-> p.token, chain |-> p.chain, narratives |-> p.narratives, notional |-> p.notional]

Entered(k, a) ==
    \E amount \in {Evaluate(Proposal(k, a), book)} :
        IF amount = 0 THEN UNCHANGED <<open, book>>
        ELSE /\ open' = Append(open, Position(k, a, amount))
             /\ book' = [book EXCEPT !.positions = @ \union {Exposed(Position(k, a, amount))}]

Without(k, s) == Those(s, {i \in DOMAIN s : s[i].token # k})

Freed(k) == {p \in book.positions : p.token # k}

\* ----------------------------------------------------------------- replay --
Record(k, a, action) ==
    [token |-> k, t |-> run.t, signal |-> a.signal, exit |-> action,
     entry |-> IF Holds(k) THEN None
               ELSE IF a.signal = "HIGH_CONVICTION" THEN Evaluate(Proposal(k, a), book) ELSE None]

\* What becomes of a held position: left when the decision says so or on the
\* last step.  A REDUCE is only recorded.
ExitOf(k, a) ==
    LET action == Decide(PositionOf(k), a) IN
    IF ~Holds(k) THEN "none" ELSE IF Final /\ action = "HOLD" THEN "END_OF_REPLAY" ELSE action

Handled(k, a, action) ==
    /\ IF Holds(k)
       THEN IF Leaves(action) \/ Final
            THEN /\ open' = Without(k, open)
                 /\ book' = [book EXCEPT !.positions = Freed(k)]
            ELSE UNCHANGED <<open, book>>
       ELSE IF a.signal = "HIGH_CONVICTION" THEN Entered(k, a)
       ELSE UNCHANGED <<open, book>>
    /\ \E record \in {Record(k, a, action)} :
        /\ records' = Append(records, record)
        /\ journal' = Append1(journal, run.config, record)

\* One token of the step: its position, or its signal; one line of the journal.
AssessToken ==
    /\ run.status = "running" /\ run.phase = "assess" /\ run.todo # <<>>
    /\ \E k \in {Head(run.todo)} : \E a \in {Now[k]} : \E action \in {ExitOf(k, a)} : Handled(k, a, action)
    /\ run' = [run EXCEPT !.todo = Tail(@)]
    /\ UNCHANGED <<data, runs, trades>>

NextStep ==
    /\ run.status = "running" /\ run.mode = "replay" /\ run.todo = <<>>
    /\ IF Final THEN run' = [run EXCEPT !.status = "done"] /\ UNCHANGED data
       ELSE /\ Reads(run.t + 1)
            /\ run' = [run EXCEPT !.t = @ + 1,
                        !.todo = Visible(data'[run.t + 1])]
    /\ UNCHANGED <<runs, open, book, records, trades, journal>>

\* External: the process dies, perhaps inside a write to the journal.
Die ==
    /\ run.status = "running" /\ run.mode = "replay"
    /\ run' = [run EXCEPT !.status = "died"]
    /\ journal' \in {journal, [journal EXCEPT !.exists = TRUE, !.torn = TRUE]}
    /\ open' = <<>> /\ book' = EmptyBook /\ records' = <<>>
    /\ UNCHANGED <<data, runs, trades>>

\* --------------------------------------------------------------- backtest --
\* What a closed trade made: the move of the price less fees and slippage on
\* both sides; a pool that is not seen costs half of the amount.
Pnl(p, price, liq) ==
    LET priced(s) == (s * p.notional) \div 1000
        leaving   == IF Has(liq) /\ liq # 0 THEN Slippage(p.notional, liq, 0) * Config.exitMultiplier ELSE 500
    IN  (p.notional * price) \div p.price - p.notional
        - 2 * priced(Fee) - PriorityFee - priced(Slippage(p.notional, p.liq, 0)) - priced(leaving)

Booked(b, k, pnl) ==
    [b EXCEPT !.realized = @ + pnl, !.equity = @ + pnl,
              !.losses = IF pnl <= 0 THEN @ + 1 ELSE 0,
              !.positions = Freed(k)]

\* A variant for the mutation check: a new day forgets the losing trades as well.
OpenStep_ForgetsStreak ==
    LET day == (run.t - 1) \div StepsPerDay IN
    /\ run.status = "running" /\ run.phase = "exits"
    /\ book' = IF run.day # day THEN [book EXCEPT !.realized = 0, !.losses = 0] ELSE book
    /\ run' = [run EXCEPT !.phase = "closing", !.day = day, !.todo = Opened]
    /\ UNCHANGED <<data, runs, open, records, trades, journal>>

\* A step begins: a new day forgets the losses of the last, and what is open
\* is looked at in the order of its entries.
OpenStep ==
    LET day == (run.t - 1) \div StepsPerDay IN
    /\ run.status = "running" /\ run.phase = "exits"
    /\ book' = IF run.day # day THEN [book EXCEPT !.realized = 0] ELSE book
    /\ run' = [run EXCEPT !.phase = "closing", !.day = day, !.todo = Opened]
    /\ UNCHANGED <<data, runs, open, records, trades, journal>>

\* A position whose token has no price to fill at stays open, to the end too.
CloseOne ==
    LET k      == Head(run.todo)
        p      == PositionOf(k)
        quits  == Leaves(Decide(p, Now[k])) \/ Final
    IN  /\ run.status = "running" /\ run.phase = "closing" /\ run.todo # <<>>
        /\ run' = [run EXCEPT !.todo = Tail(@)]
        /\ IF quits /\ Has(Fill(k).price)
           THEN \E pnl \in {Pnl(p, Fill(k).price, Fill(k).liq)} :
                /\ open' = Without(k, open)
                /\ book' = Booked(book, k, pnl)
                /\ trades' = Append(trades, [token |-> k, t |-> run.t, pnl |-> pnl])
           ELSE UNCHANGED <<open, book, trades>>
        /\ UNCHANGED <<data, runs, records, journal>>

EnterOne ==
    /\ run.status = "running" /\ run.phase = "entries" /\ run.todo # <<>>
    /\ run' = [run EXCEPT !.todo = Tail(@)]
    /\ \E k \in {Head(run.todo)} : \E a \in {Now[k]} :
        IF a.signal = "HIGH_CONVICTION" /\ ~Holds(k) THEN Entered(k, a) ELSE UNCHANGED <<open, book>>
    /\ UNCHANGED <<data, runs, records, trades, journal>>

NextPhase ==
    /\ run.status = "running" /\ run.todo = <<>>
    /\ \/ /\ run.phase = "closing"
          /\ run' = [run EXCEPT !.phase = "entries", !.todo = Visible(data[run.t])]
          /\ UNCHANGED data
       \/ /\ run.phase = "entries" /\ ~Final
          /\ Reads(run.t + 1)
          /\ run' = [run EXCEPT !.t = @ + 1, !.phase = "exits"]
       \/ /\ run.phase = "entries" /\ Final
          /\ run' = [run EXCEPT !.status = "done"]
          /\ UNCHANGED data
    /\ UNCHANGED <<runs, open, book, records, trades, journal>>

Next ==
    \/ \E c \in Configs, x \in Configs \union {None} : StartReplay(c, x)
    \/ StartBacktest
    \/ AssessToken \/ NextStep \/ Die
    \/ OpenStep \/ CloseOne \/ EnterOne \/ NextPhase

ReplaySpec == Init /\ [][Next]_vars

\* ------------------------------------------------------------- properties --
Entering == Len(open') = Len(open) + 1

\* Whenever a position is taken, in a replay or a backtest, everything held
\* fits the limits of the portfolio, of its chain and of each of its
\* narratives; the positions are those that are open, whatever the risk engine
\* was told of.  (What it does not touch may be over a limit that a loss of
\* equity has moved since.)
EntriesFitTheLimits ==
    [][Entering =>
        LET held == Range(open')
            new  == Last(open')
            within(limit, S) == SumFunctionOnSet([p \in S |-> p.notional], S) <= Percent(limit, book.equity)
        IN  /\ within(Config.maxPortfolio, held)
            /\ within(Config.maxChain, {p \in held : p.chain = new.chain})
            /\ \A n \in new.narratives \ {"meme"} :
                    within(Config.maxNarrative, {p \in held : n \in p.narratives})]_open

\* A backtest takes no position on a day whose closed trades lost the limit,
\* nor after as many losing trades in a row as are allowed, whatever happened
\* in between (the counters of PortfolioState against the trades themselves).
LossesStopEntries ==
    [][(Entering /\ run.mode = "backtest") =>
        LET today  == {i \in DOMAIN trades : (trades[i].t - 1) \div StepsPerDay = (run.t - 1) \div StepsPerDay}
            sum(S) == SumFunctionOnSet([i \in S |-> trades[i].pnl], S)
            n      == Len(trades)
        IN  /\ sum(today) > -Percent(Config.maxDailyLoss, Config.equity + sum(DOMAIN trades))
            /\ n >= Config.maxLosses =>
                 \E i \in (n - Config.maxLosses + 1)..n : trades[i].pnl > 0]_open

\* The journal of a replay that ended is the account of that replay, of
\* nothing before it, and it verifies: after deaths, torn lines and runs of
\* other configurations.  No journal mixes configurations.
FinishedJournalIsTheRun ==
    /\ (run.status = "done" /\ run.mode = "replay") =>
        /\ Verifies(journal)
        /\ [i \in DOMAIN journal.lines |-> journal.lines[i].payload] = records
    /\ \A i \in DOMAIN journal.lines : journal.lines[i].config = journal.lines[1].config
=============================================================================

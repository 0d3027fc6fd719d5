---------------------------- MODULE ReplayProofs ----------------------------
(***************************************************************************)
(* For every data set and configuration, every number of runs in one       *)
(* directory, and every death in between: a journal that a replay finished *)
(* is that replay and nothing else; and whatever a replay or a backtest    *)
(* enters fits the limits of the risk engine, and comes after no more      *)
(* losses than they allow.                                                 *)
(***************************************************************************)
EXTENDS Replay, FiniteSums, TLAPS


\* Some sequence; of what does not matter.
Sequence(s) == \E S : s \in Seq(S)

\* The fields of the records that are updated in place.
Shapes ==
    /\ DOMAIN run = {"mode", "config", "status", "t", "phase", "todo", "day"}
    /\ DOMAIN journal = {"exists", "lines", "torn"}
    /\ Sequence(journal.lines) /\ Sequence(records)

\* A directory without a journal has no lines, and only replays assess tokens.
NoLinesUnwritten == journal.exists \/ journal = NoFile
AssessmentIsReplay == run.phase = "assess" => run.mode = "replay"

OneConfig ==
    \A i, j \in DOMAIN journal.lines : journal.lines[i].config = journal.lines[j].config

Replaying == run.mode = "replay" /\ run.status \in {"running", "done"}

\* Line i follows line i - 1 by its hash.
Chained(lines, i) ==
    LET prev == IF i = 1 THEN <<>> ELSE lines[i - 1].hash
    IN  lines[i].prev = prev /\ lines[i].hash = Append(prev, <<lines[i].config, lines[i].payload>>)

\* What the journal of a replay is from its first line on.
JournalFollows ==
    Replaying =>
        /\ ~journal.torn /\ Len(journal.lines) = Len(records)
        /\ \A i \in 1..Len(records) :
              /\ journal.lines[i].config = run.config
              /\ journal.lines[i].payload = records[i]
              /\ Chained(journal.lines, i)

JournalInv == Shapes /\ NoLinesUnwritten /\ AssessmentIsReplay /\ OneConfig /\ JournalFollows

-----------------------------------------------------------------------------
LEMMA Appended ==
    ASSUME NEW s, Sequence(s), NEW x
    PROVE  /\ Sequence(Append(s, x))
           /\ Len(s) \in Nat /\ Len(Append(s, x)) = Len(s) + 1
           /\ DOMAIN s = 1..Len(s) /\ DOMAIN Append(s, x) = 1..Len(s) + 1
           /\ \A i \in 1..Len(s) : Append(s, x)[i] = s[i]
           /\ Append(s, x)[Len(s) + 1] = x
<1>1. PICK S : s \in Seq(S)
  BY DEF Sequence
<1>2. s \in Seq(S \union {x}) /\ x \in S \union {x}
  BY <1>1
<1>3. Append(s, x) \in Seq(S \union {x})
  BY <1>2
<1>4. Sequence(Append(s, x))
  BY <1>3 DEF Sequence
<1> QED
  BY <1>2, <1>4

\* Reading the hash of the last line, as record() does, chains the next one.
LEMMA AppendChains ==
    ASSUME NEW file, NEW config, NEW payload,
           DOMAIN file = {"exists", "lines", "torn"}, Sequence(file.lines)
    PROVE  LET new == Append1(file, config, payload) IN
           /\ new.exists /\ new.torn = file.torn
           /\ DOMAIN new = {"exists", "lines", "torn"}
           /\ new.lines = Append(file.lines, JournalLine(LastHash(file), config, payload))
           /\ Chained(new.lines, Len(file.lines) + 1)
<1> DEFINE line == JournalLine(LastHash(file), config, payload)
           lines == Append(file.lines, line)
<1>1. /\ Append1(file, config, payload).exists
      /\ Append1(file, config, payload).lines = lines
      /\ Append1(file, config, payload).torn = file.torn
      /\ DOMAIN Append1(file, config, payload) = {"exists", "lines", "torn"}
  <2> HIDE DEF lines
  <2>1. Append1(file, config, payload) = [file EXCEPT !.exists = TRUE, !.lines = lines]
    BY Zenon DEF Append1, lines
  <2> QED
    BY <2>1
<1>2. /\ Len(file.lines) \in Nat /\ lines[Len(file.lines) + 1] = line
      /\ \A i \in 1..Len(file.lines) : lines[i] = file.lines[i]
  BY Appended
<1>3. LastHash(file) = IF Len(file.lines) + 1 = 1 THEN <<>> ELSE lines[Len(file.lines) + 1 - 1].hash
  <2>1. CASE file.lines = <<>>
    BY <2>1 DEF LastHash
  <2>2. CASE file.lines # <<>>
    <3>1. Len(file.lines) # 0
      BY <2>2 DEF Sequence
    <3>2. LastHash(file) = file.lines[Len(file.lines)].hash
      BY <2>2 DEF LastHash, Last
    <3> QED
      BY <3>1, <3>2, <1>2
  <2> QED
    BY <2>1, <2>2
<1>4. /\ line.prev = LastHash(file) /\ line.config = config /\ line.payload = payload
      /\ line.hash = Append(LastHash(file), <<config, payload>>)
  BY DEF JournalLine
<1>5. Chained(lines, Len(file.lines) + 1)
  BY <1>2, <1>3, <1>4 DEF Chained
<1> QED
  BY <1>1, <1>5

-----------------------------------------------------------------------------
LEMMA InitJournal == Init => JournalInv
<1> SUFFICES ASSUME Init PROVE JournalInv
  OBVIOUS
<1>1. Sequence(<<>>)
  BY <<>> \in Seq({}) DEF Sequence
<1> QED
  BY <1>1 DEF Init, JournalInv, Shapes, NoLinesUnwritten, AssessmentIsReplay, OneConfig, JournalFollows,
     Replaying, Idle, NoFile

\* Steps that leave what the journal is about alone.
LEMMA ElsewhereKeeps ==
    ASSUME JournalInv, UNCHANGED <<records, journal>>,
           DOMAIN run' = DOMAIN run, run'.mode = run.mode, run'.config = run.config,
           run'.phase = "assess" => run.phase = "assess",
           run'.status \in {"running", "done"} => run.status \in {"running", "done"}
    PROVE  JournalInv'
<1>1. Shapes' /\ NoLinesUnwritten' /\ OneConfig' /\ AssessmentIsReplay'
  BY DEF JournalInv, Shapes, NoLinesUnwritten, OneConfig, Sequence, AssessmentIsReplay
<1>2. JournalFollows'
  BY DEF JournalInv, JournalFollows, Replaying, Chained
<1> QED
  BY <1>1, <1>2 DEF JournalInv

LEMMA StartReplayKeeps ==
    ASSUME JournalInv, NEW c, NEW x, StartReplay(c, x)
    PROVE  JournalInv'
<1>1. records' = <<>> /\ Sequence(<<>>)
  BY <<>> \in Seq({}) DEF StartReplay, Sequence
<1>2. CASE /\ journal' = journal
           /\ run' = [[Idle EXCEPT !.mode = "replay", !.config = c] EXCEPT !.status = "refused"]
  <2>1. /\ DOMAIN run' = {"mode", "config", "status", "t", "phase", "todo", "day"}
        /\ run'.status = "refused" /\ run'.phase = "none"
    BY <1>2 DEF Idle
  <2> QED
    BY <1>1, <1>2, <2>1 DEF JournalInv, Shapes, NoLinesUnwritten, AssessmentIsReplay, OneConfig,
       JournalFollows, Replaying
<1>3. CASE /\ journal' = IF journal.exists THEN Unlinked(journal) ELSE journal
           /\ \E todo : run' = [Idle EXCEPT !.mode = "replay", !.config = c, !.status = "running",
                                            !.t = 1, !.phase = "assess", !.todo = todo]
  <2>1. journal' = NoFile
    BY <1>3 DEF JournalInv, NoLinesUnwritten, Unlinked
  <2>2. /\ DOMAIN journal' = {"exists", "lines", "torn"}
        /\ journal'.lines = <<>> /\ ~journal'.torn
    BY <2>1 DEF NoFile
  <2>3. /\ DOMAIN run' = {"mode", "config", "status", "t", "phase", "todo", "day"}
        /\ run'.mode = "replay"
    BY <1>3 DEF Idle
  <2> QED
    BY <1>1, <2>1, <2>2, <2>3 DEF JournalInv, Shapes, NoLinesUnwritten, AssessmentIsReplay, OneConfig,
       JournalFollows
<1> QED
  BY <1>2, <1>3, Zenon DEF StartReplay

LEMMA StartBacktestKeeps ==
    ASSUME JournalInv, StartBacktest
    PROVE  JournalInv'
<1>1. records' = <<>> /\ journal' = journal /\ Sequence(<<>>)
  BY <<>> \in Seq({}) DEF StartBacktest, Sequence
<1>2. /\ DOMAIN run' = {"mode", "config", "status", "t", "phase", "todo", "day"}
      /\ run'.mode = "backtest" /\ run'.phase = "exits"
  BY DEF StartBacktest, Idle
<1> QED
  BY <1>1, <1>2 DEF JournalInv, Shapes, NoLinesUnwritten, AssessmentIsReplay, OneConfig,
     JournalFollows, Replaying

\* One token of a replay: a line that follows the last one, for one record.
LEMMA AssessKeeps ==
    ASSUME JournalInv, AssessToken
    PROVE  JournalInv'
<1>0. /\ run.status = "running" /\ run.phase = "assess"
      /\ run' = [run EXCEPT !.todo = Tail(run.todo)]
      /\ \E record : records' = Append(records, record) /\ journal' = Append1(journal, run.config, record)
  BY Zenon DEF AssessToken, Handled
<1>1. PICK record : records' = Append(records, record) /\ journal' = Append1(journal, run.config, record)
  BY <1>0
<1> DEFINE n == Len(records)
           line == JournalLine(LastHash(journal), run.config, record)
<1>2. /\ DOMAIN run' = DOMAIN run /\ run'.mode = "replay" /\ run.mode = "replay"
      /\ run'.config = run.config /\ run'.status = "running" /\ run'.phase = "assess"
  BY <1>0 DEF JournalInv, Shapes, AssessmentIsReplay
<1>3. /\ ~journal.torn /\ Len(journal.lines) = n /\ n \in Nat
      /\ DOMAIN journal.lines = 1..n
      /\ \A i \in 1..n : /\ journal.lines[i].config = run.config
                         /\ journal.lines[i].payload = records[i]
                         /\ Chained(journal.lines, i)
  BY <1>0, <1>2, Appended DEF JournalInv, JournalFollows, Replaying, Shapes
<1>4. /\ journal'.exists /\ ~journal'.torn /\ DOMAIN journal' = {"exists", "lines", "torn"}
      /\ journal'.lines = Append(journal.lines, line)
      /\ Chained(journal'.lines, n + 1)
  BY <1>1, <1>3, AppendChains DEF JournalInv, Shapes
<1>5. line.config = run.config /\ line.payload = record
  BY DEF JournalLine
<1> HIDE DEF line
<1>6. /\ Sequence(journal'.lines) /\ Len(journal'.lines) = n + 1 /\ DOMAIN journal'.lines = 1..n + 1
      /\ \A i \in 1..n : journal'.lines[i] = journal.lines[i]
      /\ journal'.lines[n + 1] = line
  BY <1>3, <1>4, Appended DEF JournalInv, Shapes
<1>7. /\ Sequence(records') /\ Len(records') = n + 1
      /\ \A i \in 1..n : records'[i] = records[i]
      /\ records'[n + 1] = record
  BY <1>1, Appended DEF JournalInv, Shapes
<1>8. ASSUME NEW i \in 1..n + 1
      PROVE  /\ journal'.lines[i].config = run.config
             /\ journal'.lines[i].payload = records'[i]
             /\ Chained(journal'.lines, i)
  <2>1. CASE i = n + 1
    BY <2>1, <1>4, <1>5, <1>6, <1>7
  <2>2. CASE i \in 1..n
    <3>1. i = 1 \/ i - 1 \in 1..n
      BY <2>2, <1>3
    <3>2. Chained(journal'.lines, i) = Chained(journal.lines, i)
      BY <2>2, <3>1, <1>6 DEF Chained
    <3> QED
      BY <2>2, <3>2, <1>3, <1>6, <1>7
  <2> QED
    BY <2>1, <2>2, <1>3
<1>9. Shapes' /\ NoLinesUnwritten' /\ AssessmentIsReplay'
  BY <1>2, <1>4, <1>6, <1>7 DEF JournalInv, Shapes, NoLinesUnwritten, AssessmentIsReplay
<1>10. OneConfig'
  BY <1>6, <1>8 DEF OneConfig
<1>11. JournalFollows'
  BY <1>2, <1>4, <1>6, <1>7, <1>8 DEF JournalFollows
<1> QED
  BY <1>9, <1>10, <1>11 DEF JournalInv

LEMMA DieKeeps ==
    ASSUME JournalInv, Die
    PROVE  JournalInv'
<1>1. records' = <<>> /\ Sequence(<<>>)
  BY <<>> \in Seq({}) DEF Die, Sequence
<1>2. /\ DOMAIN run' = DOMAIN run /\ run'.mode = "replay" /\ run'.status = "died"
  BY DEF Die, JournalInv, Shapes
<1>3. /\ journal'.lines = journal.lines /\ DOMAIN journal' = DOMAIN journal
      /\ journal'.exists \/ journal' = journal
  BY DEF Die, JournalInv, Shapes
<1> QED
  BY <1>1, <1>2, <1>3 DEF JournalInv, Shapes, NoLinesUnwritten, AssessmentIsReplay, OneConfig,
     JournalFollows, Replaying

LEMMA StepKeeps == JournalInv /\ [Next]_vars => JournalInv'
<1> SUFFICES ASSUME JournalInv, [Next]_vars PROVE JournalInv'
  OBVIOUS
<1> USE DEF Shapes
<1>1. ASSUME NEW c \in Configs, NEW x \in Configs \union {None}, StartReplay(c, x) PROVE JournalInv'
  BY <1>1, StartReplayKeeps
<1>2. CASE StartBacktest
  BY <1>2, StartBacktestKeeps
<1>3. CASE AssessToken
  BY <1>3, AssessKeeps
<1>4. CASE Die
  BY <1>4, DieKeeps
<1>5. CASE NextStep
  <2>1. /\ UNCHANGED <<records, journal>> /\ run.status = "running"
        /\ \/ run' = [run EXCEPT !.status = "done"]
           \/ \E todo : run' = [run EXCEPT !.t = run.t + 1, !.todo = todo]
    BY <1>5, Zenon DEF NextStep
  <2> QED
    BY <2>1, ElsewhereKeeps DEF JournalInv
<1>6. CASE OpenStep
  <2>1. /\ UNCHANGED <<records, journal>> /\ run.status = "running"
        /\ \E day, todo : run' = [run EXCEPT !.phase = "closing", !.day = day, !.todo = todo]
    BY <1>6, Zenon DEF OpenStep
  <2> QED
    BY <2>1, ElsewhereKeeps DEF JournalInv
<1>7. CASE CloseOne \/ EnterOne
  <2>1. /\ UNCHANGED <<records, journal>>
        /\ run' = [run EXCEPT !.todo = Tail(run.todo)]
    BY <1>7, Zenon DEF CloseOne, EnterOne
  <2> QED
    BY <2>1, ElsewhereKeeps DEF JournalInv
<1>8. CASE NextPhase
  <2>1. /\ UNCHANGED <<records, journal>> /\ run.status = "running"
        /\ \/ \E todo : run' = [run EXCEPT !.phase = "entries", !.todo = todo]
           \/ run' = [run EXCEPT !.t = run.t + 1, !.phase = "exits"]
           \/ run' = [run EXCEPT !.status = "done"]
    BY <1>8, Zenon DEF NextPhase
  <2> QED
    BY <2>1, ElsewhereKeeps DEF JournalInv
<1>9. CASE UNCHANGED vars
  BY <1>9, ElsewhereKeeps DEF vars
<1> QED
  BY <1>1, <1>2, <1>3, <1>4, <1>5, <1>6, <1>7, <1>8, <1>9 DEF Next

LEMMA JournalFinished == JournalInv => FinishedJournalIsTheRun
<1>0. ASSUME JournalInv, NEW i \in DOMAIN journal.lines
      PROVE  journal.lines[i].config = journal.lines[1].config
  <2>1. 1 \in DOMAIN journal.lines
    BY <1>0, Appended DEF JournalInv, Shapes
  <2> QED
    BY <1>0, <2>1 DEF JournalInv, OneConfig
<1> SUFFICES ASSUME JournalInv, run.status = "done", run.mode = "replay"
             PROVE  /\ Verifies(journal)
                    /\ [i \in DOMAIN journal.lines |-> journal.lines[i].payload] = records
  BY <1>0, Zenon DEF FinishedJournalIsTheRun
<1>1. /\ ~journal.torn /\ Len(journal.lines) = Len(records)
      /\ \A i \in 1..Len(records) : journal.lines[i].payload = records[i] /\ Chained(journal.lines, i)
  BY DEF JournalInv, JournalFollows, Replaying
<1>2. DOMAIN journal.lines = 1..Len(records) /\ DOMAIN records = 1..Len(records)
  BY <1>1, Appended DEF JournalInv, Shapes
<1>3. Verifies(journal)
  BY <1>1, <1>2 DEF Verifies, Chained
<1>4. PICK S : records \in Seq(S)
  BY DEF JournalInv, Shapes, Sequence
<1>5. records = [i \in 1..Len(records) |-> records[i]]
  BY <1>4
<1> QED
  BY <1>1, <1>2, <1>3, <1>5

\* A journal whose replay came to its end verifies and is the account of that
\* replay alone, and no journal mixes configurations (replay.py, journal.py).
THEOREM JournalIsTheRun == ReplaySpec => []FinishedJournalIsTheRun
<1>1. Init => JournalInv
  BY InitJournal
<1>2. JournalInv /\ [Next]_vars => JournalInv'
  BY StepKeeps
<1>3. JournalInv => FinishedJournalIsTheRun
  BY JournalFinished
<1> QED
  BY <1>1, <1>2, <1>3, PTL DEF ReplaySpec

-----------------------------------------------------------------------------
(* Part two: the portfolio.  First, what the helpers of the model return. *)

\* What Those takes of the first m elements of s.
Takes(r, s, K, m) ==
    /\ Sequence(r) /\ Len(r) <= m
    /\ \A j \in 1..Len(r) : \E i \in K \intersect (1..m) : r[j] = s[i]
    /\ \A i \in K \intersect (1..m) : \E j \in 1..Len(r) : r[j] = s[i]
    /\ (\A i, j \in 1..m : s[i].token = s[j].token => i = j)
        => \A i, j \in 1..Len(r) : r[i].token = r[j].token => i = j

\* One more element is looked at: it is appended, or it is not.
LEMMA TakesNext ==
    ASSUME NEW s, NEW K, NEW m \in Nat, NEW r, Takes(r, s, K, m), NEW q,
           q = IF m + 1 \in K THEN Append(r, s[m + 1]) ELSE r
    PROVE  Takes(q, s, K, m + 1)
<1> DEFINE n == Len(r)
           x == s[m + 1]
           J == K \intersect (1..m)
           Jx == K \intersect (1..m + 1)
<1>0. /\ 1..m \subseteq 1..m + 1 /\ m + 1 \in 1..m + 1 /\ \A i \in 1..m + 1 : i \in 1..m \/ i = m + 1
      /\ m + 1 \notin 1..m
  OBVIOUS
<1>1. n \in Nat /\ n <= m
  BY Appended DEF Takes
<1>2. /\ \A j \in 1..n : \E i \in J : r[j] = s[i]
      /\ \A i \in J : \E j \in 1..n : r[j] = s[i]
  BY DEF Takes
<1>3. ASSUME \A i, j \in 1..m + 1 : s[i].token = s[j].token => i = j
      PROVE  \A i, j \in 1..n : r[i].token = r[j].token => i = j
  BY <1>0, <1>3 DEF Takes
<1>4. CASE m + 1 \notin K
  <2>1. q = r /\ Jx = J
    BY <1>0, <1>4
  <2>2. n <= m + 1
    BY <1>1
  <2>3. Sequence(q)
    BY <2>1 DEF Takes
  <2> HIDE DEF J, Jx
  <2>4. /\ \A j \in 1..Len(q) : \E i \in Jx : q[j] = s[i]
        /\ \A i \in Jx : \E j \in 1..Len(q) : q[j] = s[i]
    BY <2>1, <1>2
  <2>5. (\A i, j \in 1..m + 1 : s[i].token = s[j].token => i = j)
           => \A i, j \in 1..Len(q) : q[i].token = q[j].token => i = j
    BY <2>1, <1>3
  <2>6. Len(q) <= m + 1
    BY <2>1, <2>2
  <2> HIDE <1>2, <1>3
  <2> QED
    BY <2>3, <2>4, <2>5, <2>6 DEF Takes, Jx
<1>5. CASE m + 1 \in K
  <2>1. q = Append(r, x)
    BY <1>5
  <2>2. /\ Sequence(q) /\ Len(q) = n + 1 /\ q[n + 1] = x
        /\ \A j \in 1..n : q[j] = r[j]
    BY <2>1, Appended DEF Takes
  <2>3. /\ n + 1 \in 1..n + 1 /\ 1..n \subseteq 1..n + 1
        /\ \A j \in 1..n + 1 : j \in 1..n \/ j = n + 1
    BY <1>1
  <2>4. /\ m + 1 \in Jx /\ J \subseteq Jx /\ \A i \in Jx : i \in J \/ i = m + 1
        /\ J \subseteq 1..m
    BY <1>0, <1>5
  <2>5. n + 1 <= m + 1
    BY <1>1
  <2> HIDE DEF J, Jx, n
  <2>6. \A j \in 1..n + 1 : \E i \in Jx : q[j] = s[i]
    <3> SUFFICES ASSUME NEW j \in 1..n + 1 PROVE \E i \in Jx : q[j] = s[i]
      OBVIOUS
    <3>1. CASE j = n + 1
      BY <3>1, <2>2, <2>4
    <3>2. CASE j \in 1..n
      BY <3>2, <1>2, <2>2, <2>4
    <3> QED
      BY <3>1, <3>2, <2>3
  <2>7. \A i \in Jx : \E j \in 1..n + 1 : q[j] = s[i]
    <3> SUFFICES ASSUME NEW i \in Jx PROVE \E j \in 1..n + 1 : q[j] = s[i]
      OBVIOUS
    <3>1. CASE i = m + 1
      BY <3>1, <2>2, <2>3
    <3>2. CASE i \in J
      BY <3>2, <1>2, <2>2, <2>3
    <3> QED
      BY <3>1, <3>2, <2>4
  <2>8. ASSUME \A i, j \in 1..m + 1 : s[i].token = s[j].token => i = j
        PROVE  \A i, j \in 1..n + 1 : q[i].token = q[j].token => i = j
    <3>1. \A i, j \in 1..n : r[i].token = r[j].token => i = j
      BY <1>3, <2>8
    <3>2. ASSUME NEW j \in 1..n PROVE q[j].token # x.token
      <4>1. PICK i \in J : r[j] = s[i]
        BY <1>2
      <4>2. i \in 1..m + 1 /\ i # m + 1
        BY <1>0, <2>4
      <4> QED
        BY <4>1, <4>2, <1>0, <2>2, <2>8
    <3> QED
      BY <2>2, <2>3, <3>1, <3>2
  <2> QED
    BY <2>2, <2>5, <2>6, <2>7, <2>8 DEF Takes, J, Jx, n
<1> QED
  BY <1>4, <1>5

\* Those is the sequence of the elements at the indices in K.
LEMMA ThoseTakes ==
    ASSUME NEW s, Sequence(s), NEW K
    PROVE  Takes(Those(s, K), s, K, Len(s))
<1> DEFINE n == Len(s)
<1>1. PICK S : s \in Seq(S)
  BY DEF Sequence
<1>2. n \in Nat /\ \A i \in 1..n : s[i] \in S
  BY <1>1
<1> DEFINE f == [i \in 1..n |-> [r \in Seq(S) |-> IF i \in K THEN Append(r, s[i]) ELSE r]]
<1>3. \A r \in Seq(S) : \A i \in 1..n : f[i][r] = (IF i \in K THEN Append(r, s[i]) ELSE r) /\ f[i][r] \in Seq(S)
  BY <1>2
<1> HIDE DEF f
<1>4. <<>> \in Seq(S)
  OBVIOUS
<1>5. PICK g : g \in Table(Seq(S), <<>>, n, f)
  BY <1>2, <1>3, <1>4, TableExists
<1>6. /\ g \in [0..n -> Seq(S)] /\ g[0] = <<>>
      /\ \A i \in 1..n : g[i] = f[i][g[i - 1]]
  BY <1>5 DEF Table
<1>7. ASSUME NEW i \in 1..n PROVE g[i] = IF i \in K THEN Append(g[i - 1], s[i]) ELSE g[i - 1]
  <2>1. g[i - 1] \in Seq(S)
    BY <1>2, <1>6
  <2> QED
    BY <2>1, <1>3, <1>6
<1> DEFINE Recursion(h) == h = [i \in 0..Len(s) |->
             IF i = 0 THEN <<>> ELSE IF i \in K THEN Append(h[i - 1], s[i]) ELSE h[i - 1]]
<1>8. Recursion(g)
  <2>1. g = [i \in 0..n |-> g[i]]
    BY <1>6
  <2>2. ASSUME NEW i \in 0..n
        PROVE  g[i] = IF i = 0 THEN <<>> ELSE IF i \in K THEN Append(g[i - 1], s[i]) ELSE g[i - 1]
    <3>1. i = 0 \/ i \in 1..n
      BY <1>2
    <3>2. 0 \notin 1..n
      OBVIOUS
    <3> QED
      BY <3>1, <3>2, <1>6, <1>7, Zenon
  <2> QED
    BY <2>1, <2>2, Zenon
<1> DEFINE upTo == CHOOSE h : Recursion(h)
<1>9. Recursion(upTo)
  BY <1>8, Zenon
<1>10. Those(s, K) = upTo[n]
  BY Zenon DEF Those
<1>11. upTo[0] = <<>> /\ \A m \in Nat : m + 1 <= n => upTo[m + 1] = IF m + 1 \in K THEN Append(upTo[m], s[m + 1]) ELSE upTo[m]
  <2>1. \A i \in 0..n : upTo[i] = IF i = 0 THEN <<>> ELSE IF i \in K THEN Append(upTo[i - 1], s[i]) ELSE upTo[i - 1]
    <3> HIDE DEF upTo
    <3> QED
      BY <1>9
  <2> HIDE DEF upTo
  <2>2. \A m \in Nat : m + 1 <= n => m + 1 \in 0..n /\ m + 1 # 0 /\ (m + 1) - 1 = m
    BY <1>2
  <2>3. 0 \in 0..n
    BY <1>2
  <2> QED
    BY <2>1, <2>2, <2>3
<1> HIDE DEF upTo, Recursion
<1> DEFINE T == {m \in Nat : m <= n => Takes(upTo[m], s, K, m)}
<1>12. 0 \in T
  <2>1. Sequence(<<>>) /\ Len(<<>>) = 0 /\ 1..0 = {}
    BY <1>4 DEF Sequence
  <2>2. Takes(<<>>, s, K, 0)
    BY <2>1 DEF Takes
  <2> QED
    BY <1>11, <2>2
<1>13. ASSUME NEW m \in Nat, m \in T PROVE m + 1 \in T
  <2> SUFFICES ASSUME m + 1 <= n PROVE Takes(upTo[m + 1], s, K, m + 1)
    BY <1>13
  <2>1. Takes(upTo[m], s, K, m)
    BY <1>2, <1>13
  <2> QED
    BY <1>11, <2>1, TakesNext
<1> HIDE DEF T
<1>14. n \in T
  BY <1>2, <1>12, <1>13, NumberInduction
<1> QED
  BY <1>10, <1>14, <1>2 DEF T

\* The minimum of a finite set of numbers is one of them, and the least.
LEMMA MinIsLeast ==
    ASSUME NEW S, IsFiniteSet(S), S # {}, S \subseteq Int
    PROVE  Min(S) \in S /\ Min(S) \in Int /\ \A y \in S : Min(S) <= y
<1> DEFINE T == {s \in SUBSET S : s = {} \/ \E x \in s : \A y \in s : x <= y}
<1>1. {} \in T
  OBVIOUS
<1>2. ASSUME NEW s \in SUBSET S, NEW z \in S \ s, s \in T PROVE s \union {z} \in T
  <2>1. CASE s = {}
    BY <2>1
  <2>2. CASE \E x \in s : \A y \in s : x <= y
    <3>1. PICK x \in s : \A y \in s : x <= y
      BY <2>2
    <3>2. x \in Int /\ z \in Int /\ s \subseteq Int
      OBVIOUS
    <3>3. CASE x <= z
      BY <3>1, <3>2, <3>3
    <3>4. CASE z <= x
      <4>1. \A y \in s : z <= y
        BY <3>1, <3>2, <3>4
      <4> QED
        BY <4>1, <3>2
    <3> QED
      BY <3>2, <3>3, <3>4
  <2> QED
    BY <1>2, <2>1, <2>2
<1> HIDE DEF T
<1>3. S \in T
  BY <1>1, <1>2, SubsetInduction
<1>4. \E x \in S : \A y \in S : x <= y
  BY <1>3 DEF T
<1>5. Min(S) \in S /\ \A y \in S : Min(S) <= y
  BY <1>4, Zenon DEF Min
<1> QED
  BY <1>5

\* Four fifths of a size, again and again, is never more than the size.
LEMMA ShrinkBounds ==
    ASSUME NEW p, NEW n \in Nat
    PROVE  Shrink(p, n) \in Nat /\ Shrink(p, n) <= n
<1> DEFINE Fits == {i \in Nat : i = 0 \/ Slippage(i, p.liq, p.fee) <= Config.maxSlippage}
           Sized(g, m) == \A i \in 0..m : g[i] = IF i \in Fits THEN i ELSE g[(4 * i) \div 5]
           T == {m \in Nat : \E g \in [0..m -> Nat] : Sized(g, m) /\ \A i \in 0..m : g[i] <= i}
<1>1. 0 \in T
  <2> DEFINE g == [i \in 0..0 |-> 0]
  <2>1. g \in [0..0 -> Nat] /\ \A i \in 0..0 : i = 0 /\ g[i] = 0 /\ g[i] <= i
    OBVIOUS
  <2>2. 0 \in Fits
    OBVIOUS
  <2> HIDE DEF g, Fits
  <2>3. Sized(g, 0)
    BY <2>1, <2>2
  <2> HIDE DEF Sized
  <2> QED
    BY <2>1, <2>3
<1>2. ASSUME NEW m \in Nat, m \in T PROVE m + 1 \in T
  <2>1. PICK g \in [0..m -> Nat] : Sized(g, m) /\ \A i \in 0..m : g[i] <= i
    BY <1>2
  <2> DEFINE d == (4 * (m + 1)) \div 5
             v == IF m + 1 \in Fits THEN m + 1 ELSE g[d]
             h == [i \in 0..m + 1 |-> IF i = m + 1 THEN v ELSE g[i]]
  <2>2. d \in 0..m
    OBVIOUS
  <2>3. \A i \in 0..m + 1 : i \in 0..m \/ i = m + 1
    OBVIOUS
  <2>4. v \in Nat /\ v <= m + 1
    <3>1. g[d] \in Nat /\ g[d] <= d
      BY <2>1, <2>2
    <3> QED
      BY <3>1, <2>2
  <2>5. \A i \in 0..m : (4 * i) \div 5 \in 0..m
    OBVIOUS
  <2> HIDE DEF Fits
  <2>6. \A i \in 0..m : h[i] = g[i] /\ i \in 0..m + 1 /\ i # m + 1
    OBVIOUS
  <2>7. h[m + 1] = v
    OBVIOUS
  <2>8. h \in [0..m + 1 -> Nat]
    <3>1. \A i \in 0..m : g[i] \in Nat
      BY <2>1
    <3> QED
      BY <2>3, <2>4, <3>1
  <2> HIDE DEF h, v, d
  <2>9. Sized(h, m + 1)
    <3> SUFFICES ASSUME NEW i \in 0..m + 1 PROVE h[i] = IF i \in Fits THEN i ELSE h[(4 * i) \div 5]
      OBVIOUS
    <3>1. CASE i \in 0..m
      BY <3>1, <2>1, <2>5, <2>6
    <3>2. CASE i = m + 1
      BY <3>2, <2>2, <2>6, <2>7 DEF v, d
    <3> QED
      BY <3>1, <3>2, <2>3
  <2>10. \A i \in 0..m + 1 : h[i] <= i
    BY <2>1, <2>3, <2>4, <2>6, <2>7
  <2> HIDE DEF Sized
  <2>11. \E k \in [0..m + 1 -> Nat] : Sized(k, m + 1) /\ \A i \in 0..m + 1 : k[i] <= i
    BY <2>8, <2>9, <2>10, Zenon
  <2>12. m + 1 \in Nat
    OBVIOUS
  <2> QED
    BY <2>11, <2>12, Zenon
<1>3. n \in T
  <2> HIDE DEF T
  <2> QED
    BY <1>1, <1>2, NumberInduction
<1>4. PICK g \in [0..n -> Nat] : Sized(g, n) /\ \A i \in 0..n : g[i] <= i
  BY <1>3
<1> DEFINE Recursion(s) ==
      s = [i \in 0..n |-> IF i = 0 \/ Slippage(i, p.liq, p.fee) <= Config.maxSlippage THEN i ELSE s[(4 * i) \div 5]]
<1>5. Recursion(g)
  <2>1. \A i \in 0..n : g[i] = IF i = 0 \/ Slippage(i, p.liq, p.fee) <= Config.maxSlippage THEN i ELSE g[(4 * i) \div 5]
    BY <1>4
  <2>2. g = [i \in 0..n |-> g[i]]
    OBVIOUS
  <2> QED
    BY <2>1, <2>2, Zenon
<1> DEFINE s == CHOOSE t : Recursion(t)
<1>6. Recursion(s)
  BY <1>5, Zenon
<1>7. Shrink(p, n) = s[n]
  BY Zenon DEF Shrink
<1>8. \A i \in 0..n : s[i] = IF i \in Fits THEN i ELSE s[(4 * i) \div 5]
  <2> HIDE DEF s
  <2>1. \A i \in 0..n : i \in Nat
    OBVIOUS
  <2> QED
    BY <2>1, <1>6
<1> HIDE DEF s, Recursion, Sized, T, Fits
<1> DEFINE U == {m \in Nat : \A i \in 0..m : i <= n => s[i] \in Nat /\ s[i] <= i}
<1>9. 0 \in Fits
  BY DEF Fits
<1>10. 0 \in U
  <2>1. s[0] = 0
    BY <1>8, <1>9
  <2>2. \A i \in 0..0 : i = 0
    OBVIOUS
  <2> QED
    BY <2>1, <2>2
<1>11. ASSUME NEW m \in Nat, m \in U PROVE m + 1 \in U
  <2> SUFFICES ASSUME m + 1 <= n PROVE s[m + 1] \in Nat /\ s[m + 1] <= m + 1
    BY <1>11
  <2> DEFINE d == (4 * (m + 1)) \div 5
  <2>1. d \in 0..m /\ d <= n /\ d <= m + 1
    OBVIOUS
  <2>2. m + 1 \in 0..n
    OBVIOUS
  <2> HIDE DEF d
  <2>3. s[d] \in Nat /\ s[d] <= d
    BY <2>1, <1>11
  <2>4. s[m + 1] = IF m + 1 \in Fits THEN m + 1 ELSE s[d]
    BY <2>2, <1>8 DEF d
  <2> QED
    BY <2>1, <2>3, <2>4
<1>12. n \in U
  <2> HIDE DEF U
  <2> QED
    BY <1>10, <1>11, NumberInduction
<1> QED
  BY <1>7, <1>12

-----------------------------------------------------------------------------
(* The risk engine: what is approved fits what it was told of. *)

BookTyped(b) ==
    /\ b.equity \in Int /\ b.realized \in Int /\ b.losses \in Nat
    /\ IsFiniteSet(b.positions) /\ \A o \in b.positions : o.notional \in Nat

ProposalTyped(p) ==
    /\ IsFiniteSet(p.narratives)
    /\ Has(p.price) => p.price \in Nat
    /\ Has(p.liq) => p.liq \in Nat
    /\ Has(p.stop) => p.stop \in Nat

LEMMA ConfigTyped ==
    /\ {Config.maxRisk, Config.maxPortfolio, Config.maxNarrative, Config.maxChain, Config.maxDailyLoss,
        Config.maxSlippage, Config.exitMultiplier, Config.maxPoolShare} \subseteq Nat
    /\ Config.maxLosses \in Nat \ {0} /\ Config.minLiquidity \in Nat \ {0} /\ Config.equity \in Nat
    /\ Fee \in Nat /\ PriorityFee \in Nat
  BY ReplayConstants

LEMMA PercentInt == \A x \in Nat, y \in Int : Percent(x, y) \in Int
<1>1. \A x \in Nat, y \in Int : x * y \in Int
  OBVIOUS
<1>2. \A z \in Int : z \div 100 \in Int
  OBVIOUS
<1> QED
  BY <1>1, <1>2 DEF Percent

LEMMA ExposureInt ==
    ASSUME NEW P, IsFiniteSet(P), \A o \in P : o.notional \in Nat
    PROVE  Exposure(P) \in Int
<1> DEFINE f == [o \in P |-> o.notional]
<1>1. \A o \in P : f[o] \in Int
  OBVIOUS
<1> HIDE DEF f
<1>2. SumFunctionOnSet(f, P) \in Int
  BY <1>1, SumInt
<1> QED
  BY <1>2 DEF Exposure, f

\* What a proposal must be not to be refused.
LEMMA NotRefused ==
    ASSUME NEW p, NEW b, Refusals(p, b) = {}
    PROVE  /\ Has(p.price) /\ Has(p.liq) /\ Has(p.stop)
           /\ ~(b.realized <= -Percent(Config.maxDailyLoss, b.equity))
           /\ ~(b.losses >= Config.maxLosses)
           /\ ~(p.liq < Config.minLiquidity)
           /\ ~(p.stop >= p.price) /\ ~(p.stop <= 0)
<1>1. "execution" \notin Refusals(p, b) /\ "dailyLoss" \notin Refusals(p, b) /\ "losses" \notin Refusals(p, b)
      /\ "unobservable" \notin Refusals(p, b) /\ "liquidity" \notin Refusals(p, b) /\ "invalidation" \notin Refusals(p, b)
  OBVIOUS
<1>2. Has(p.price)
  BY <1>1 DEF Refusals
<1>3. Has(p.liq) 
  BY <1>1 DEF Refusals
<1>4. ~(b.realized <= -Percent(Config.maxDailyLoss, b.equity))
  BY <1>1 DEF Refusals
<1>5. ~(b.losses >= Config.maxLosses)
  BY <1>1 DEF Refusals
<1>6. ~(p.liq < Config.minLiquidity)
  BY <1>1, <1>3 DEF Refusals, Below
<1>7. Has(p.stop) /\ ~(p.stop >= p.price) /\ ~(p.stop <= 0)
  BY <1>1, <1>2 DEF Refusals, OrZero
<1> QED
  BY <1>2, <1>3, <1>4, <1>5, <1>6, <1>7

\* A part of what is held, in the terms of the limits.
OnChain(P, c) == {o \in P : o.chain = c}
Telling(P, n) == {o \in P : n \in o.narratives}

\* What fits the room of a limit fits the limit.
LEMMA RoomBounds ==
    ASSUME NEW limit \in Nat, NEW equity \in Int, NEW used \in Int
    PROVE  /\ Room(limit, equity, used) \in Int
           /\ \A n \in Nat : 0 < n /\ n <= Room(limit, equity, used) => used + n <= Percent(limit, equity)
<1> DEFINE x == Percent(limit, equity)
<1>1. x \in Int
  BY PercentInt
<1>2. Room(limit, equity, used) = AtLeast(0, x - used)
  BY DEF Room
<1> HIDE DEF x
<1>3. AtLeast(0, x - used) \in Int /\ \A n \in Nat : 0 < n /\ n <= AtLeast(0, x - used) => used + n <= x
  BY <1>1 DEF AtLeast
<1> QED
  BY <1>2, <1>3 DEF x

\* The room of the narratives is at most that of each of them.
LEMMA NarrativeRoomBounds ==
    ASSUME NEW p, ProposalTyped(p), NEW b, BookTyped(b)
    PROVE  /\ NarrativeRoom(p, b) \in Int
           /\ \A n \in p.narratives \ {"meme"} :
                NarrativeRoom(p, b) <= Room(Config.maxNarrative, b.equity, Exposure(Telling(b.positions, n)))
<1> DEFINE limited == p.narratives \ {"meme"}
           R == [n \in limited |-> Room(Config.maxNarrative, b.equity, Exposure(Telling(b.positions, n)))]
           x == Percent(Config.maxNarrative, b.equity)
           rooms == {R[n] : n \in limited}
           S == {x} \union rooms
<1>1. IsFiniteSet(limited)
  BY FS_Subset DEF ProposalTyped
<1>2. ASSUME NEW n \in limited
      PROVE  R[n] \in Int /\ R[n] = Room(Config.maxNarrative, b.equity, Exposure(Telling(b.positions, n)))
  <2>1. IsFiniteSet(Telling(b.positions, n)) /\ \A o \in Telling(b.positions, n) : o.notional \in Nat
    BY FS_Subset DEF BookTyped, Telling
  <2>2. Exposure(Telling(b.positions, n)) \in Int
    BY <2>1, ExposureInt
  <2> QED
    BY <2>2, RoomBounds, ConfigTyped DEF BookTyped
<1>3. x \in Int
  BY PercentInt, ConfigTyped DEF BookTyped
<1>4. NarrativeRoom(p, b) = Min(S)
  <2>1. NarrativeRoom(p, b) = Min({x} \union {Room(Config.maxNarrative, b.equity,
             Exposure({o \in b.positions : n \in o.narratives})) : n \in limited})
    BY Zenon DEF NarrativeRoom
  <2>2. \A n \in limited : R[n] = Room(Config.maxNarrative, b.equity, Exposure({o \in b.positions : n \in o.narratives}))
    BY DEF Telling
  <2> HIDE DEF R
  <2>3. {Room(Config.maxNarrative, b.equity, Exposure({o \in b.positions : n \in o.narratives})) : n \in limited} = rooms
    BY <2>2
  <2> QED
    BY <2>1, <2>3
<1>5. IsFiniteSet(rooms)
  <2>1. R = [n \in limited |-> R[n]]
    OBVIOUS
  <2> HIDE DEF R, limited
  <2> QED
    BY <1>1, <2>1, FiniteImage, Zenon
<1> HIDE DEF R, x
<1>6. IsFiniteSet(S) /\ S # {} /\ S \subseteq Int
  BY <1>2, <1>3, <1>5, FS_AddElement
<1>7. Min(S) \in Int /\ \A y \in S : Min(S) <= y
  BY <1>6, MinIsLeast
<1>8. \A n \in limited : R[n] \in S
  OBVIOUS
<1> QED
  BY <1>2, <1>4, <1>7, <1>8

LEMMA RiskBudgetInt ==
    ASSUME NEW p, NEW b, b.equity \in Int, p.price \in Nat, p.stop \in Nat, p.stop < p.price, 0 < p.stop
    PROVE  RiskBudget(p, b) \in Int
<1> DEFINE q == (1000 * p.stop) \div p.price
           d == (1000 - q) + Config.maxSlippage * Config.exitMultiplier
<1>1. q \in Int /\ q < 1000
  OBVIOUS
<1>2. Config.maxSlippage * Config.exitMultiplier \in Nat
  BY ConfigTyped
<1>3. d \in Nat \ {0}
  <2> HIDE DEF q
  <2> QED
    BY <1>1, <1>2
<1>4. Config.maxRisk * b.equity \in Int
  BY ConfigTyped
<1> QED
  BY <1>3, <1>4 DEF RiskBudget

\* What is approved fits every limit, and was proposed with what sizing needs.
LEMMA Approved ==
    ASSUME NEW p, ProposalTyped(p), NEW b, BookTyped(b), NEW n, n = Evaluate(p, b), n # 0
    PROVE  /\ n \in Nat /\ n >= 10
           /\ Exposure(b.positions) + n <= Percent(Config.maxPortfolio, b.equity)
           /\ Exposure(OnChain(b.positions, p.chain)) + n <= Percent(Config.maxChain, b.equity)
           /\ \A k \in p.narratives \ {"meme"} :
                Exposure(Telling(b.positions, k)) + n <= Percent(Config.maxNarrative, b.equity)
           /\ ~(b.realized <= -Percent(Config.maxDailyLoss, b.equity))
           /\ b.losses < Config.maxLosses
           /\ p.price \in Nat \ {0} /\ p.liq \in Nat \ {0} /\ p.stop \in Nat
<1> DEFINE least == Min(Caps(p, b))
           size == Shrink(p, AtLeast(0, least))
           c1 == RiskBudget(p, b)
           c2 == Percent(Config.maxPoolShare, p.liq)
           c3 == Room(Config.maxPortfolio, b.equity, Exposure(b.positions))
           c4 == Room(Config.maxChain, b.equity, Exposure(OnChain(b.positions, p.chain)))
           c5 == NarrativeRoom(p, b)
           S == {c1, c2, c3, c4, c5}
<1>1. Refusals(p, b) = {} /\ ~(size < 10) /\ n = size
  BY DEF Evaluate
<1>2. /\ ~(b.realized <= -Percent(Config.maxDailyLoss, b.equity))
      /\ b.losses < Config.maxLosses
      /\ p.price \in Nat \ {0} /\ p.liq \in Nat \ {0} /\ p.stop \in Nat
      /\ p.stop < p.price /\ 0 < p.stop
  <2>1. p.price \in Nat /\ p.liq \in Nat /\ p.stop \in Nat
    BY <1>1, NotRefused DEF ProposalTyped
  <2>2. p.stop < p.price /\ 0 < p.stop
    BY <1>1, <2>1, NotRefused
  <2>3. p.liq # 0
    BY <1>1, <2>1, NotRefused, ConfigTyped
  <2>4. b.losses < Config.maxLosses
    BY <1>1, NotRefused, ConfigTyped DEF BookTyped
  <2>5. ~(b.realized <= -Percent(Config.maxDailyLoss, b.equity))
    BY <1>1, NotRefused
  <2> QED
    BY <2>1, <2>2, <2>3, <2>4, <2>5
<1>3. c1 \in Int
  BY <1>2, RiskBudgetInt DEF BookTyped
<1>4. c2 \in Int
  <2>1. p.liq \in Int /\ Config.maxPoolShare \in Nat
    BY <1>2, ConfigTyped
  <2> QED
    BY <2>1, PercentInt
<1>5. /\ Exposure(b.positions) \in Int /\ Exposure(OnChain(b.positions, p.chain)) \in Int
      /\ \A k : Exposure(Telling(b.positions, k)) \in Int
  <2>1. \A P \in SUBSET b.positions : IsFiniteSet(P) /\ \A o \in P : o.notional \in Nat
    BY FS_Subset DEF BookTyped
  <2>2. \A P \in SUBSET b.positions : Exposure(P) \in Int
    BY <2>1, ExposureInt
  <2>3. OnChain(b.positions, p.chain) \in SUBSET b.positions /\ \A k : Telling(b.positions, k) \in SUBSET b.positions
    BY DEF OnChain, Telling
  <2> QED
    BY <2>2, <2>3
<1>6. b.equity \in Int /\ Config.maxPortfolio \in Nat /\ Config.maxChain \in Nat /\ Config.maxNarrative \in Nat
  BY ConfigTyped DEF BookTyped
<1>7. c3 \in Int /\ c4 \in Int /\ c5 \in Int
  BY <1>5, <1>6, RoomBounds, NarrativeRoomBounds
<1>8. Caps(p, b) = S
  BY DEF Caps, OnChain
<1>9. IsFiniteSet(S) /\ S # {} /\ S \subseteq Int
  <2> HIDE DEF c1, c2, c3, c4, c5
  <2>1. ASSUME NEW X, IsFiniteSet(X), NEW x PROVE IsFiniteSet(X \union {x})
    BY <2>1, FS_AddElement
  <2>2. IsFiniteSet({c1, c2})
    <3>1. IsFiniteSet({c1})
      BY FS_Singleton
    <3>2. {c1, c2} = {c1} \union {c2}
      OBVIOUS
    <3> QED
      BY <2>1, <3>1, <3>2
  <2>3. IsFiniteSet({c1, c2, c3})
    <3>1. {c1, c2, c3} = {c1, c2} \union {c3}
      OBVIOUS
    <3> QED
      BY <2>1, <2>2, <3>1
  <2>4. IsFiniteSet({c1, c2, c3, c4})
    <3>1. {c1, c2, c3, c4} = {c1, c2, c3} \union {c4}
      OBVIOUS
    <3> QED
      BY <2>1, <2>3, <3>1
  <2>5. IsFiniteSet(S)
    <3>1. S = {c1, c2, c3, c4} \union {c5}
      OBVIOUS
    <3> QED
      BY <2>1, <2>4, <3>1
  <2> QED
    BY <2>5, <1>3, <1>4, <1>7
<1>10. least \in Int /\ \A y \in S : least <= y
  <2> HIDE DEF S
  <2> QED
    BY <1>8, <1>9, MinIsLeast
<1>11. n \in Nat /\ n >= 10 /\ n <= least
  <2> HIDE DEF least, S
  <2>1. AtLeast(0, least) \in Nat /\ (least < 10 => AtLeast(0, least) < 10)
        /\ (least >= 10 => AtLeast(0, least) = least)
    BY <1>10 DEF AtLeast
  <2>2. size \in Nat /\ size <= AtLeast(0, least)
    BY <2>1, ShrinkBounds
  <2> HIDE DEF size
  <2> QED
    BY <1>1, <1>10, <2>1, <2>2
<1> HIDE DEF least, size, c1, c2
<1>12. n <= c3 /\ n <= c4 /\ n <= c5 /\ 0 < n
  <2> HIDE DEF c3, c4, c5
  <2> QED
    BY <1>3, <1>4, <1>7, <1>10, <1>11
<1>13. Exposure(b.positions) + n <= Percent(Config.maxPortfolio, b.equity)
  BY <1>5, <1>6, <1>11, <1>12, RoomBounds
<1>14. Exposure(OnChain(b.positions, p.chain)) + n <= Percent(Config.maxChain, b.equity)
  BY <1>5, <1>6, <1>11, <1>12, RoomBounds
<1>15. ASSUME NEW k \in p.narratives \ {"meme"}
       PROVE  Exposure(Telling(b.positions, k)) + n <= Percent(Config.maxNarrative, b.equity)
  <2> DEFINE room == Room(Config.maxNarrative, b.equity, Exposure(Telling(b.positions, k)))
  <2>1. c5 <= room
    BY NarrativeRoomBounds
  <2>2. room \in Int
    BY <1>5, <1>6, RoomBounds
  <2>3. n <= room
    <3> HIDE DEF room, c5
    <3> QED
      BY <1>7, <1>11, <1>12, <2>1, <2>2
  <2> QED
    BY <1>5, <1>6, <1>11, <1>12, <2>3, RoomBounds
<1> QED
  BY <1>2, <1>11, <1>13, <1>14, <1>15

-----------------------------------------------------------------------------
(* The scan: what a step sees of a token. *)

LEMMA TabulatedIs == \A f : Tabulated(f) = f
  BY DEF Tabulated

LEMMA WithKeeps ==
    ASSUME NEW r, NEW more, NEW x \in DOMAIN r
    PROVE  x \in DOMAIN With(r, more) /\ With(r, more)[x] = r[x]
  BY DEF With

\* What the scan adds to an assessment leaves its evidence and its move.
LEMMA TogetherKeeps ==
    ASSUME NEW single, NEW narratives, NEW links, NEW k \in DOMAIN single,
           {"e", "move"} \subseteq DOMAIN single[k]
    PROVE  /\ Together(single, narratives, links)[k].e = single[k].e
           /\ Together(single, narratives, links)[k].move = single[k].move
<1>1. PICK states, role : Together(single, narratives, links)[k] = Signalled(Placed(single[k], states, role))
  <2> DEFINE moving == {j \in DOMAIN single : Rising(single[j].move, "UNUSUAL")}
             states(j) == {m \in {narratives[n] : n \in single[j].e.narratives \ {"meme"}} : Has(m.breadth)}
             f == [j \in DOMAIN single |-> Signalled(Placed(single[j], states(j), RoleOf(j, links, moving)))]
  <2>1. Together(single, narratives, links) = Tabulated(f)
    BY Zenon DEF Together
  <2>2. Tabulated(f) = f
    BY TabulatedIs
  <2>3. f[k] = Signalled(Placed(single[k], states(k), RoleOf(k, links, moving)))
    BY Zenon
  <2> QED
    BY <2>1, <2>2, <2>3, Zenon
<1> DEFINE a == Placed(single[k], states, role)
<1>2. {"e", "move"} \subseteq DOMAIN a /\ a.e = single[k].e /\ a.move = single[k].move
  BY WithKeeps DEF Placed
<1> HIDE DEF a
<1>3. Signalled(a).e = a.e /\ Signalled(a).move = a.move
  BY <1>2, WithKeeps DEF Signalled
<1> QED
  BY <1>1, <1>2, <1>3 DEF a

\* An assessment carries the evidence it was made of.
LEMMA AssessmentIs ==
    ASSUME NEW scene, NEW now, NEW k \in DOMAIN scene.tokens
    PROVE  /\ k \in DOMAIN Assessments(scene, now)
           /\ {"e", "move"} \subseteq DOMAIN Assessments(scene, now)[k]
           /\ Assessments(scene, now)[k].e = scene.tokens[k]
           /\ Assessments(scene, now)[k].move = ClassifyMove(scene.tokens[k])
<1> DEFINE f == [j \in DOMAIN scene.tokens |-> Assessment(j, scene.tokens[j], now)]
           e == scene.tokens[k]
<1>1. Assessments(scene, now) = f
  <2>1. Assessments(scene, now) = Tabulated(f)
    BY Zenon DEF Assessments
  <2> QED
    BY <2>1, TabulatedIs
<1>2. DOMAIN f = DOMAIN scene.tokens /\ f[k] = Assessment(k, e, now)
  BY Zenon
<1>3. PICK social : f[k] = Judged(k, e, ClassifyMove(e), social)
  BY <1>2, Zenon DEF Assessment
<1> DEFINE move == ClassifyMove(e)
<1> HIDE DEF f, e, move
<1>4. f[k] = Judged(k, e, move, social)
  BY <1>3 DEF move
<1>5. PICK catalyst, regime, exhaustion : f[k] =
        [e |-> e, move |-> move, social |-> social, catalyst |-> catalyst, regime |-> regime,
         exhaustion |-> exhaustion]
  BY <1>4, Zenon DEF Judged
<1> QED
  BY <1>1, <1>2, <1>5 DEF e, move

LEMMA OnsetOf ==
    ASSUME NEW e, Has(ClassifyMove(e).onset)
    PROVE  Has(e.onset) /\ ClassifyMove(e).onset = e.onset
<1>1. PICK class, size, drive, direction, x :
         \/ ClassifyMove(e) = [class |-> "UNCLASSIFIED", direction |-> 0, size |-> None, drive |-> None, onset |-> None]
         \/ /\ ClassifyMove(e) = [class |-> class, size |-> size, drive |-> drive, direction |-> direction, onset |-> x]
            /\ x = IF class = "NORMAL" THEN None ELSE e.onset
  BY Zenon DEF ClassifyMove
<1> QED
  BY <1>1 DEF Has

\* A scan shows of a token what the scene says of it.
LEMMA ScanShows ==
    ASSUME NEW scene, NEW before, NEW now, NEW keys, NEW k \in DOMAIN scene.tokens,
           NEW a, a = Scan(scene, before, now, keys)[k]
    PROVE  /\ a.e = scene.tokens[k]
           /\ Has(a.move.onset) => Has(a.e.onset) /\ a.move.onset = a.e.onset
<1>1. PICK narratives, links : a = Together(Assessments(scene, now), narratives, links)[k]
  BY Zenon DEF Scan, Compared
<1>2. a.e = scene.tokens[k] /\ a.move = ClassifyMove(scene.tokens[k])
  BY <1>1, AssessmentIs, TogetherKeeps
<1> QED
  BY <1>2, OnsetOf

\* The data set: scenes, in which tokens only appear.
DataOK ==
    /\ Sequence(data)
    /\ \A i \in DOMAIN data : data[i] \in DOMAIN Scenes
    /\ \A i \in DOMAIN data : i > 1 => TokensOf(data[i - 1]) \subseteq TokensOf(data[i])

Seen == TokensOf(data[run.t])

StepOK == run.t \in 1..Len(data) /\ run.t <= Steps

\* What a step sees of a token is what its scene says of it.
LEMMA NowShows ==
    ASSUME DataOK, StepOK, NEW k \in Seen, NEW a, a = Now[k]
    PROVE  /\ a.e = Scenes[data[run.t]].tokens[k]
           /\ Has(a.move.onset) => Has(a.e.onset) /\ a.move.onset = a.e.onset
           /\ EvidenceTyped(a.e)
<1> DEFINE now == data[run.t]
           last == IF run.t = 1 THEN 0 ELSE data[run.t - 1]
           D == (1..Len(Scenes)) \X (0..Len(Scenes)) \X (1..Steps)
           f == [q \in D |-> Scan(Scenes[q[1]], IF q[2] = 0 THEN NoScene ELSE Scenes[q[2]], q[3], Tokens)]
<1>1. Len(Scenes) \in Nat /\ DOMAIN Scenes = 1..Len(Scenes) /\ Steps \in Nat
  BY ReplayConstants
<1>2. now \in 1..Len(Scenes) /\ last \in 0..Len(Scenes) /\ run.t \in 1..Steps
  <2>1. Len(data) \in Nat /\ DOMAIN data = 1..Len(data)
    BY Appended DEF DataOK
  <2>2. run.t \in DOMAIN data /\ (run.t # 1 => run.t - 1 \in DOMAIN data)
    BY <2>1 DEF StepOK
  <2>3. now \in DOMAIN Scenes /\ (run.t # 1 => data[run.t - 1] \in DOMAIN Scenes)
    BY <2>2 DEF DataOK
  <2>4. run.t \in 1..Steps
    BY <1>1, <2>1 DEF StepOK
  <2>5. 0 \in 0..Len(Scenes) /\ 1..Len(Scenes) \subseteq 0..Len(Scenes)
    BY <1>1
  <2> QED
    BY <1>1, <2>3, <2>4, <2>5
<1>3. Scans = f
  <2>1. Scans = Tabulated(f)
    BY Zenon DEF Scans
  <2> QED
    BY <2>1, TabulatedIs
<1> DEFINE q == <<now, last, run.t>>
<1>4. q \in D /\ q[1] = now /\ q[2] = last /\ q[3] = run.t
  BY <1>2
<1>5. Now = f[q]
  BY <1>3, Zenon DEF Now
<1>6. PICK before : f[q] = Scan(Scenes[now], before, run.t, Tokens)
  <2>1. f[q] = Scan(Scenes[q[1]], IF q[2] = 0 THEN NoScene ELSE Scenes[q[2]], q[3], Tokens)
    BY <1>4, Zenon
  <2> QED
    BY <2>1, <1>4, Zenon
<1>7. k \in DOMAIN Scenes[now].tokens
  BY DEF Seen, TokensOf
<1>8. a = Scan(Scenes[now], before, run.t, Tokens)[k]
  BY <1>5, <1>6
<1>9. a.e = Scenes[now].tokens[k] /\ (Has(a.move.onset) => Has(a.e.onset) /\ a.move.onset = a.e.onset)
  BY <1>7, <1>8, ScanShows
<1>10. EvidenceTyped(Scenes[now].tokens[k])
  BY <1>1, <1>2, <1>7, ReplayConstants
<1> QED
  BY <1>9, <1>10

\* What is proposed of a token that is seen can be sized.
LEMMA ProposalOf ==
    ASSUME DataOK, StepOK, NEW k \in Seen, NEW a, a = Now[k]
    PROVE  ProposalTyped(Proposal(k, a))
<1>1. /\ a.e = Scenes[data[run.t]].tokens[k] /\ EvidenceTyped(a.e)
      /\ Has(a.move.onset) => Has(a.e.onset) /\ a.move.onset = a.e.onset
  BY NowShows
<1>2. Has(a.move.onset) => a.move.onset.price \in Nat
  BY <1>1 DEF EvidenceTyped
<1>3. Fill(k) = a.e.fill
  BY <1>1 DEF Fill
<1> DEFINE p == Proposal(k, a)
<1>4. /\ p.narratives = a.e.narratives /\ p.price = Fill(k).price /\ p.liq = Fill(k).liq
      /\ p.stop = IF Has(a.move.onset) THEN a.move.onset.price ELSE None
  BY DEF Proposal
<1>5. Has(p.stop) => p.stop \in Nat
  BY <1>2, <1>4 DEF Has
<1> HIDE DEF p
<1>6. ProposalTyped(p)
  BY <1>1, <1>3, <1>4, <1>5 DEF ProposalTyped, EvidenceTyped
<1> QED
  BY <1>6 DEF p

-----------------------------------------------------------------------------
(* The positions, and the book that the risk engine reads. *)

PositionTyped(p) == p.notional \in Nat /\ p.price \in Nat \ {0} /\ p.liq \in Nat \ {0}

PositionsOK ==
    /\ Sequence(open)
    /\ \A i \in 1..Len(open) : PositionTyped(open[i])
    /\ \A i, j \in 1..Len(open) : open[i].token = open[j].token => i = j

BookOK ==
    /\ DOMAIN book = {"equity", "positions", "realized", "losses"}
    /\ book.equity \in Int /\ book.realized \in Int /\ book.losses \in Nat
    /\ book.positions = {Exposed(p) : p \in Range(open)}

\* The amount in some positions.
Held(P) == SumFunctionOnSet([p \in P |-> p.notional], P)

\* The open positions are finitely many, one of each token.
LEMMA OpenFacts ==
    ASSUME PositionsOK
    PROVE  /\ Len(open) \in Nat /\ DOMAIN open = 1..Len(open)
           /\ IsFiniteSet(Range(open))
           /\ \A p \in Range(open) : PositionTyped(p) /\ \E i \in 1..Len(open) : open[i] = p
           /\ \A p, q \in Range(open) : p.token = q.token => p = q
<1>1. PICK S : open \in Seq(S)
  BY DEF PositionsOK, Sequence
<1>2. Len(open) \in Nat /\ DOMAIN open = 1..Len(open) /\ open = [i \in 1..Len(open) |-> open[i]]
  BY <1>1
<1>3. IsFiniteSet(1..Len(open))
  BY <1>2, FS_Interval
<1>4. IsFiniteSet({open[i] : i \in 1..Len(open)})
  BY <1>2, <1>3, FiniteImage
<1>5. Range(open) = {open[i] : i \in 1..Len(open)}
  BY <1>2 DEF Range
<1>6. \A p \in Range(open) : \E i \in 1..Len(open) : open[i] = p
  BY <1>5
<1> QED
  BY <1>2, <1>4, <1>5, <1>6 DEF PositionsOK

\* The risk engine is told of what is open: the two sums agree.
LEMMA HeldIsExposure ==
    ASSUME PositionsOK, NEW P \in SUBSET Range(open)
    PROVE  IsFiniteSet(P) /\ Exposure({Exposed(p) : p \in P}) = Held(P)
<1>1. /\ IsFiniteSet(P)
      /\ \A p \in P : p.notional \in Int
      /\ \A p, q \in P : p.token = q.token => p = q
  <2>1. \A p \in P : p \in Range(open)
    OBVIOUS
  <2> QED
    BY <2>1, OpenFacts, FS_Subset DEF PositionTyped
<1> DEFINE h == [p \in P |-> Exposed(p)]
           I == {h[p] : p \in P}
           f == [p \in P |-> p.notional]
           g == [o \in I |-> o.notional]
<1>2. \A p \in P : h[p].token = p.token /\ h[p].notional = p.notional /\ h[p] \in I /\ g[h[p]] = p.notional
  BY DEF Exposed
<1>3. h = [p \in P |-> h[p]] /\ \A p, q \in P : h[p] = h[q] => p = q
  <2>1. h = [p \in P |-> h[p]]
    OBVIOUS
  <2> HIDE DEF h
  <2>2. \A p, q \in P : h[p] = h[q] => p = q
    <3> SUFFICES ASSUME NEW p \in P, NEW q \in P, h[p] = h[q] PROVE p = q
      OBVIOUS
    <3>1. h[p].token = p.token /\ h[q].token = q.token
      BY <1>2
    <3>2. p.token = q.token
      BY <3>1
    <3> QED
      BY <1>1, <3>2
  <2> QED
    BY <2>1, <2>2
<1>4. \A p \in P : f[p] \in Int /\ g[h[p]] = f[p]
  BY <1>1, <1>2
<1>5. I = {Exposed(p) : p \in P}
  OBVIOUS
<1>6. Exposure(I) = SumFunctionOnSet(g, I)
  BY DEF Exposure
<1>7. SumFunctionOnSet(g, I) = SumFunctionOnSet(f, P)
  <2> HIDE DEF h, f, g
  <2> QED
    BY <1>1, <1>3, <1>4, SumImage
<1>8. Held(P) = SumFunctionOnSet(f, P)
  BY DEF Held
<1> QED
  BY <1>1, <1>5, <1>6, <1>7, <1>8

\* What the risk engine is told of is of its types.
LEMMA BookIsTyped ==
    ASSUME PositionsOK, BookOK
    PROVE  BookTyped(book)
<1> DEFINE h == [p \in Range(open) |-> Exposed(p)]
<1>1. h = [p \in Range(open) |-> h[p]] /\ {h[p] : p \in Range(open)} = book.positions
  BY DEF BookOK
<1> HIDE DEF h
<1>2. IsFiniteSet({h[p] : p \in Range(open)})
  BY <1>1, OpenFacts, FiniteImage
<1>3. \A o \in book.positions : o.notional \in Nat
  BY OpenFacts DEF BookOK, Exposed, PositionTyped
<1> QED
  BY <1>1, <1>2, <1>3 DEF BookTyped, BookOK

\* One more position adds its amount.
LEMMA HeldAdd ==
    ASSUME NEW P, IsFiniteSet(P), \A p \in P : p.notional \in Nat,
           NEW x, x \notin P, x.notional \in Nat
    PROVE  Held(P \union {x}) = Held(P) + x.notional /\ Held(P) \in Int
<1> DEFINE Q == P \union {x}
           f == [p \in P |-> p.notional]
           g == [p \in Q |-> p.notional]
<1>1. /\ \A p \in P : f[p] \in Int /\ g[p] = f[p]
      /\ \A p \in Q : g[p] \in Int
      /\ g[x] = x.notional /\ x.notional \in Int
  OBVIOUS
<1>2. Held(Q) = SumFunctionOnSet(g, Q) /\ Held(P) = SumFunctionOnSet(f, P)
  BY DEF Held
<1> HIDE DEF f, g
<1>3. SumFunctionOnSet(g, Q) = g[x] + SumFunctionOnSet(g, P)
  BY <1>1, SumAdd
<1>4. SumFunctionOnSet(f, P) = SumFunctionOnSet(g, P)
  BY <1>1, SumSame
<1>5. SumFunctionOnSet(f, P) \in Int
  BY <1>1, SumInt
<1> HIDE DEF Q
<1>6. Held(Q) = Held(P) + x.notional /\ Held(P) \in Int
  BY <1>1, <1>2, <1>3, <1>4, <1>5
<1> QED
  BY <1>6 DEF Q

\* An entry that fits what the risk engine was told of fits what is open.
LEMMA EntryFits ==
    ASSUME PositionsOK, BookOK, DataOK, StepOK,
           NEW k \in Seen, NEW a, a = Now[k], ~Holds(k),
           NEW n, n = Evaluate(Proposal(k, a), book), n # 0,
           NEW x, x = Position(k, a, n)
    PROVE  /\ PositionTyped(x) /\ x.token = k /\ \A p \in Range(open) : p.token # k
           /\ Held(Range(open) \union {x}) <= Percent(Config.maxPortfolio, book.equity)
           /\ Held({p \in Range(open) \union {x} : p.chain = x.chain}) <= Percent(Config.maxChain, book.equity)
           /\ \A m \in x.narratives \ {"meme"} :
                Held({p \in Range(open) \union {x} : m \in p.narratives}) <= Percent(Config.maxNarrative, book.equity)
           /\ ~(book.realized <= -Percent(Config.maxDailyLoss, book.equity))
           /\ book.losses < Config.maxLosses
<1> DEFINE p == Proposal(k, a)
           O == Range(open)
<1>1. ProposalTyped(p) /\ BookTyped(book)
  BY ProposalOf, BookIsTyped
<1>2. /\ p.chain = a.e.chain /\ p.narratives = a.e.narratives /\ p.price = Fill(k).price /\ p.liq = Fill(k).liq
  BY DEF Proposal
<1>3. /\ x.token = k /\ x.chain = p.chain /\ x.narratives = p.narratives /\ x.notional = n
      /\ x.price = p.price /\ x.liq = p.liq
  BY <1>2 DEF Position
<1> HIDE DEF p
<1>4. /\ n \in Nat /\ n >= 10
      /\ Exposure(book.positions) + n <= Percent(Config.maxPortfolio, book.equity)
      /\ Exposure(OnChain(book.positions, p.chain)) + n <= Percent(Config.maxChain, book.equity)
      /\ \A m \in p.narratives \ {"meme"} :
           Exposure(Telling(book.positions, m)) + n <= Percent(Config.maxNarrative, book.equity)
      /\ ~(book.realized <= -Percent(Config.maxDailyLoss, book.equity))
      /\ book.losses < Config.maxLosses
      /\ p.price \in Nat \ {0} /\ p.liq \in Nat \ {0}
  <2>1. n = Evaluate(p, book)
    BY DEF p
  <2> QED
    BY <1>1, <2>1, Approved
<1>5. PositionTyped(x)
  BY <1>3, <1>4 DEF PositionTyped
<1>6. \A q \in O : q.token # k
  BY OpenFacts DEF Holds
<1>7. x \notin O
  BY <1>3, <1>6
<1>8. ASSUME NEW P \in SUBSET O
      PROVE  Held(P \union {x}) = Exposure({Exposed(q) : q \in P}) + n
  <2>1. IsFiniteSet(P) /\ Exposure({Exposed(q) : q \in P}) = Held(P)
    BY HeldIsExposure
  <2>2. \A q \in P : q.notional \in Nat
    BY OpenFacts DEF PositionTyped
  <2> QED
    BY <1>3, <1>4, <1>7, <2>1, <2>2, HeldAdd
<1>9. Held(O \union {x}) <= Percent(Config.maxPortfolio, book.equity)
  <2>1. {Exposed(q) : q \in O} = book.positions
    BY DEF BookOK
  <2>2. Held(O \union {x}) = Exposure(book.positions) + n
    BY <1>8, <2>1
  <2> QED
    BY <1>4, <2>2
<1>10. Held({q \in O \union {x} : q.chain = x.chain}) <= Percent(Config.maxChain, book.equity)
  <2> DEFINE P == {q \in O : q.chain = x.chain}
  <2>1. {Exposed(q) : q \in P} = OnChain(book.positions, p.chain)
    BY <1>3 DEF BookOK, OnChain, Exposed
  <2>2. {q \in O \union {x} : q.chain = x.chain} = P \union {x}
    OBVIOUS
  <2>3. Held(P \union {x}) = Exposure(OnChain(book.positions, p.chain)) + n
    BY <1>8, <2>1
  <2> QED
    BY <1>4, <2>2, <2>3
<1>11. ASSUME NEW m \in x.narratives \ {"meme"}
       PROVE  Held({q \in O \union {x} : m \in q.narratives}) <= Percent(Config.maxNarrative, book.equity)
  <2> DEFINE P == {q \in O : m \in q.narratives}
  <2>1. {Exposed(q) : q \in P} = Telling(book.positions, m)
    BY DEF BookOK, Telling, Exposed
  <2>2. {q \in O \union {x} : m \in q.narratives} = P \union {x}
    OBVIOUS
  <2>3. Held(P \union {x}) = Exposure(Telling(book.positions, m)) + n
    BY <1>8, <2>1
  <2> QED
    BY <1>3, <1>4, <2>2, <2>3
<1> QED
  BY <1>3, <1>4, <1>5, <1>6, <1>9, <1>10, <1>11

-----------------------------------------------------------------------------
(* The invariant of the portfolio. *)

\* The step a run is at, the tokens it sees and what it has still to look at.
RunOK ==
    run.status = "running" =>
        /\ StepOK /\ Sequence(run.todo)
        /\ run.mode = "replay" => run.phase = "assess"
        /\ \A i \in 1..Len(open) : open[i].token \in Seen
        /\ run.phase \in {"assess", "entries"} => \A i \in 1..Len(run.todo) : run.todo[i] \in Seen
        /\ run.phase = "closing" =>
              /\ \A i \in 1..Len(run.todo) : \E j \in 1..Len(open) : open[j].token = run.todo[i]
              /\ \A i, j \in 1..Len(run.todo) : run.todo[i] = run.todo[j] => i = j

DayAt(t) == (t - 1) \div StepsPerDay

\* What some of the trades made, and the trades of a day.
Earned(S) == SumFunctionOnSet([i \in S |-> trades[i].pnl], S)
OfDay(d) == {i \in 1..Len(trades) : DayAt(trades[i].t) = d}

TradesOK == Sequence(trades) /\ \A i \in 1..Len(trades) : trades[i].pnl \in Int /\ trades[i].t \in Nat \ {0}

\* The counter of losing trades goes back to a trade that won, or to the first.
Streak ==
    /\ book.losses <= Len(trades)
    /\ book.losses < Len(trades) => trades[Len(trades) - book.losses].pnl > 0

\* The losses of the day are known; before a step has begun, those of the day
\* of the step before it.
DayBooked ==
    /\ run.phase \in {"exits", "closing", "entries"}
    /\ run.phase = "exits" =>
          /\ \A i \in 1..Len(trades) : trades[i].t < run.t
          /\ run.t = 1 => book.realized = 0
          /\ run.t > 1 => run.day = DayAt(run.t - 1) /\ book.realized = Earned(OfDay(run.day))
    /\ run.phase # "exits" =>
          /\ \A i \in 1..Len(trades) : trades[i].t <= run.t
          /\ run.day = DayAt(run.t) /\ book.realized = Earned(OfDay(run.day))

CountersOK ==
    run.mode = "backtest" =>
        /\ book.equity = Config.equity + Earned(1..Len(trades))
        /\ Streak
        /\ run.status = "running" => DayBooked

PortfolioInv == JournalInv /\ DataOK /\ PositionsOK /\ BookOK /\ TradesOK /\ RunOK /\ CountersOK

\* Reading a scene keeps the data set growing.
LEMMA ReadsNext ==
    ASSUME DataOK, NEW t \in Nat \ {0}, t <= Len(data) + 1, Reads(t)
    PROVE  /\ DataOK' /\ t \in 1..Len(data')
           /\ \A i \in 1..Len(data) : data'[i] = data[i]
           /\ t > 1 => TokensOf(data[t - 1]) \subseteq TokensOf(data'[t])
           /\ data'[t] \in DOMAIN Scenes
<1> DEFINE n == Len(data)
<1>1. n \in Nat /\ DOMAIN data = 1..n
  BY Appended DEF DataOK
<1>2. CASE t <= n
  <2>1. data' = data
    BY <1>2 DEF Reads
  <2>2. t \in 1..n
    BY <1>1, <1>2
  <2> QED
    BY <1>1, <2>1, <2>2 DEF DataOK
<1>3. CASE t > n
  <2>1. PICK s \in DOMAIN Scenes : (t > 1 => TokensOf(data[t - 1]) \subseteq TokensOf(s)) /\ data' = Append(data, s)
    BY <1>1, <1>3 DEF Reads
  <2>2. t = n + 1
    BY <1>1, <1>3
  <2>3. /\ Sequence(data') /\ Len(data') = n + 1 /\ DOMAIN data' = 1..n + 1
        /\ \A i \in 1..n : data'[i] = data[i]
        /\ data'[n + 1] = s
    BY <2>1, Appended DEF DataOK
  <2>4. \A i \in 1..n + 1 : data'[i] \in DOMAIN Scenes
    <3>1. \A i \in 1..n + 1 : i \in 1..n \/ i = n + 1
      BY <1>1
    <3> QED
      BY <1>1, <2>3, <3>1 DEF DataOK
  <2>5. ASSUME NEW i \in 1..n + 1, i > 1 PROVE TokensOf(data'[i - 1]) \subseteq TokensOf(data'[i])
    <3>1. i - 1 \in 1..n /\ (i \in 1..n \/ i = t)
      BY <1>1, <2>2, <2>5
    <3>2. data'[i - 1] = data[i - 1]
      BY <2>3, <3>1
    <3>3. CASE i \in 1..n
      BY <1>1, <2>3, <2>5, <3>2, <3>3 DEF DataOK
    <3>4. CASE i = t
      BY <2>1, <2>2, <2>3, <2>5, <3>2, <3>4
    <3> QED
      BY <3>1, <3>3, <3>4
  <2>6. t \in 1..n + 1
    BY <1>1, <2>2
  <2>7. DataOK'
    BY <2>3, <2>4, <2>5 DEF DataOK
  <2> QED
    BY <2>1, <2>2, <2>3, <2>6, <2>7
<1> QED
  BY <1>1, <1>2, <1>3

\* What a step looks at is what its scene shows.
LEMMA VisibleSeen ==
    ASSUME NEW s
    PROVE  Sequence(Visible(s)) /\ \A i \in 1..Len(Visible(s)) : Visible(s)[i] \in TokensOf(s)
<1> DEFINE K == {i \in DOMAIN Tokens : Tokens[i] \in TokensOf(s)}
<1>1. Sequence(Tokens)
  BY ReplayConstants DEF Sequence
<1>2. Takes(Visible(s), Tokens, K, Len(Tokens))
  BY <1>1, ThoseTakes DEF Visible
<1> QED
  BY <1>2 DEF Takes

\* Head and tail of a list of work.
LEMMA RestOf ==
    ASSUME NEW s, Sequence(s), s # <<>>
    PROVE  /\ Sequence(Tail(s)) /\ Len(s) \in Nat \ {0} /\ Len(Tail(s)) = Len(s) - 1
           /\ Head(s) = s[1] /\ 1 \in 1..Len(s)
           /\ \A i \in 1..Len(Tail(s)) : i + 1 \in 1..Len(s) /\ i + 1 # 1 /\ Tail(s)[i] = s[i + 1]
<1>1. PICK S : s \in Seq(S)
  BY DEF Sequence
<1>2. Tail(s) \in Seq(S)
  BY <1>1
<1>3. Sequence(Tail(s))
  BY <1>2 DEF Sequence
<1> QED
  BY <1>1, <1>3

\* A position that is left is taken out of what is open and what is booked.
LEMMA LeftKeeps ==
    ASSUME PositionsOK, BookOK, NEW k, open' = Without(k, open), book'.positions = Freed(k)
    PROVE  /\ PositionsOK' /\ book'.positions = {Exposed(p) : p \in Range(open')}
           /\ Len(open') \in Nat /\ Len(open') <= Len(open)
           /\ \A j \in 1..Len(open') : \E i \in 1..Len(open) : open'[j] = open[i] /\ open[i].token # k
           /\ \A i \in 1..Len(open) : open[i].token # k => \E j \in 1..Len(open') : open'[j] = open[i]
<1> DEFINE K == {i \in DOMAIN open : open[i].token # k}
           n == Len(open)
           m == Len(open')
<1>1. Takes(open', open, K, n)
  BY ThoseTakes DEF Without, PositionsOK
<1>2. n \in Nat /\ DOMAIN open = 1..n
  BY OpenFacts
<1>3. /\ Sequence(open') /\ m \in Nat /\ m <= n /\ DOMAIN open' = 1..m
      /\ \A j \in 1..m : \E i \in K \intersect (1..n) : open'[j] = open[i]
      /\ \A i \in K \intersect (1..n) : \E j \in 1..m : open'[j] = open[i]
      /\ \A i, j \in 1..m : open'[i].token = open'[j].token => i = j
  BY <1>1, Appended DEF Takes, PositionsOK
<1>4. /\ \A j \in 1..m : \E i \in 1..n : open'[j] = open[i] /\ open[i].token # k
      /\ \A i \in 1..n : open[i].token # k => \E j \in 1..m : open'[j] = open[i]
  <2>1. \A i \in 1..n : i \in K <=> open[i].token # k
    BY <1>2
  <2> HIDE DEF K
  <2> QED
    BY <1>3, <2>1
<1> HIDE DEF K, n, m
<1>5. PositionsOK'
  <2>1. \A i \in 1..m : PositionTyped(open'[i])
    BY <1>4 DEF PositionsOK, n
  <2> QED
    BY <1>3, <2>1 DEF PositionsOK, PositionTyped, m
<1>6. Range(open') = {p \in Range(open) : p.token # k}
  <2>1. Range(open) = {open[i] : i \in 1..n} /\ Range(open') = {open'[j] : j \in 1..m}
    BY <1>2, <1>3 DEF Range
  <2> QED
    BY <1>4, <2>1
<1>7. book'.positions = {Exposed(p) : p \in Range(open')}
  <2>1. book'.positions = {o \in {Exposed(p) : p \in Range(open)} : o.token # k}
    BY DEF Freed, BookOK
  <2>2. \A p : Exposed(p).token = p.token
    BY DEF Exposed
  <2> QED
    BY <1>6, <2>1, <2>2
<1> QED
  BY <1>3, <1>4, <1>5, <1>7 DEF m, n

\* The limits an entry of x is held to, and the losses that would have stopped it.
Fits(x) ==
    LET after == Range(open) \union {x} IN
    /\ Held(after) <= Percent(Config.maxPortfolio, book.equity)
    /\ Held({p \in after : p.chain = x.chain}) <= Percent(Config.maxChain, book.equity)
    /\ \A n \in x.narratives \ {"meme"} :
         Held({p \in after : n \in p.narratives}) <= Percent(Config.maxNarrative, book.equity)

Allowed ==
    /\ ~(book.realized <= -Percent(Config.maxDailyLoss, book.equity))
    /\ book.losses < Config.maxLosses

\* An entry takes one more position, of a token that is seen and not held, and
\* the book follows.
LEMMA EnteredKeeps ==
    ASSUME PositionsOK, BookOK, DataOK, StepOK, NEW k \in Seen, NEW a, a = Now[k], ~Holds(k), Entered(k, a)
    PROVE  /\ PositionsOK' /\ BookOK'
           /\ book'.equity = book.equity /\ book'.realized = book.realized /\ book'.losses = book.losses
           /\ \/ open' = open
              \/ \E x : open' = Append(open, x) /\ x.token = k /\ Fits(x) /\ Allowed
<1> DEFINE n == Evaluate(Proposal(k, a), book)
           x == Position(k, a, n)
<1>1. IF n = 0 THEN UNCHANGED <<open, book>>
      ELSE /\ open' = Append(open, x)
           /\ book' = [book EXCEPT !.positions = book.positions \union {Exposed(x)}]
  BY Zenon DEF Entered
<1>2. CASE n = 0
  BY <1>1, <1>2 DEF PositionsOK, PositionTyped, BookOK, Sequence
<1>3. CASE n # 0
  <2>1. /\ PositionTyped(x) /\ x.token = k /\ \A p \in Range(open) : p.token # k
        /\ Fits(x) /\ Allowed
    BY <1>3, EntryFits DEF Fits, Allowed
  <2> HIDE DEF n, x
  <2>2. open' = Append(open, x) /\ book' = [book EXCEPT !.positions = book.positions \union {Exposed(x)}]
    BY <1>1, <1>3
  <2> DEFINE m == Len(open)
  <2>3. /\ m \in Nat /\ DOMAIN open = 1..m /\ DOMAIN open' = 1..m + 1 /\ Len(open') = m + 1
        /\ Sequence(open') /\ open'[m + 1] = x
        /\ \A i \in 1..m : open'[i] = open[i]
    BY <2>2, Appended DEF PositionsOK
  <2>4. /\ \A i \in 1..m + 1 : i \in 1..m \/ i = m + 1
        /\ 1..m \subseteq 1..m + 1 /\ m + 1 \in 1..m + 1
    BY <2>3
  <2>5. \A i \in 1..m : open[i] \in Range(open)
    BY <2>3 DEF Range
  <2> HIDE DEF m
  <2>6. \A i \in 1..m + 1 : PositionTyped(open'[i])
    BY <2>1, <2>3, <2>4 DEF PositionsOK, m
  <2>7. ASSUME NEW i \in 1..m + 1, NEW j \in 1..m + 1, open'[i].token = open'[j].token PROVE i = j
    <3>1. CASE i \in 1..m /\ j \in 1..m
      BY <2>3, <2>7, <3>1 DEF PositionsOK, m
    <3>2. CASE i = m + 1 /\ j \in 1..m
      BY <2>1, <2>3, <2>5, <2>7, <3>2
    <3>3. CASE j = m + 1 /\ i \in 1..m
      BY <2>1, <2>3, <2>5, <2>7, <3>3
    <3> QED
      BY <2>4, <3>1, <3>2, <3>3
  <2>8. PositionsOK'
    BY <2>3, <2>6, <2>7 DEF PositionsOK, PositionTyped
  <2>9. Range(open') = Range(open) \union {x}
    <3>1. Range(open) = {open[i] : i \in 1..m} /\ Range(open') = {open'[i] : i \in 1..m + 1}
      BY <2>3 DEF Range
    <3> QED
      BY <2>3, <2>4, <3>1
  <2>10. /\ DOMAIN book' = {"equity", "positions", "realized", "losses"}
         /\ book'.equity = book.equity /\ book'.realized = book.realized /\ book'.losses = book.losses
         /\ book'.positions = book.positions \union {Exposed(x)}
    BY <2>2 DEF BookOK
  <2>11. book'.positions = {Exposed(p) : p \in Range(open')}
    BY <2>9, <2>10 DEF BookOK
  <2>12. BookOK'
    BY <2>10, <2>11 DEF BookOK, Exposed
  <2> QED
    BY <2>1, <2>2, <2>8, <2>10, <2>12
<1> QED
  BY <1>2, <1>3

-----------------------------------------------------------------------------
(* Every step keeps it: the start of a run, its steps, its end. *)

PortfolioKept == DataOK' /\ PositionsOK' /\ BookOK' /\ TradesOK' /\ RunOK' /\ CountersOK'

\* A run begins with nothing open.
LEMMA EmptyPortfolio ==
    ASSUME open' = <<>>, book' = EmptyBook
    PROVE  PositionsOK' /\ BookOK' /\ Len(open') = 0
<1>1. Sequence(<<>>) /\ Len(<<>>) = 0 /\ DOMAIN <<>> = {} /\ 1..0 = {}
  BY <<>> \in Seq({}) DEF Sequence
<1>2. PositionsOK'
  BY <1>1 DEF PositionsOK
<1>3. Range(open') = {}
  BY <1>1 DEF Range
<1>4. {Exposed(p) : p \in Range(open')} = {}
  BY <1>3
<1>5. /\ DOMAIN EmptyBook = {"equity", "positions", "realized", "losses"}
      /\ EmptyBook.equity = Config.equity /\ EmptyBook.realized = 0 /\ EmptyBook.losses = 0
      /\ EmptyBook.positions = {}
  BY DEF EmptyBook
<1>6. BookOK'
  BY <1>4, <1>5, ConfigTyped DEF BookOK, Exposed
<1> QED
  BY <1>1, <1>2, <1>6

LEMMA InitPortfolio == Init => PortfolioInv
<1> SUFFICES ASSUME Init PROVE PortfolioInv
  OBVIOUS
<1>1. Sequence(<<>>) /\ Len(<<>>) = 0 /\ DOMAIN <<>> = {} /\ 1..0 = {}
  BY <<>> \in Seq({}) DEF Sequence
<1>2. DataOK /\ TradesOK /\ PositionsOK
  BY <1>1 DEF Init, DataOK, TradesOK, PositionsOK
<1>3. BookOK
  <2>1. Range(open) = {}
    BY <1>1 DEF Init, Range
  <2>2. {Exposed(p) : p \in Range(open)} = {}
    BY <2>1
  <2> QED
    BY <2>2, ConfigTyped DEF Init, EmptyBook, BookOK
<1>4. RunOK /\ CountersOK
  BY DEF Init, Idle, RunOK, CountersOK
<1> QED
  BY <1>2, <1>3, <1>4, InitJournal DEF PortfolioInv

\* A replay or a backtest begins at the first scene, with nothing open.
LEMMA StartReplayBooks ==
    ASSUME PortfolioInv, NEW c, NEW x, StartReplay(c, x)
    PROVE  PortfolioKept
<1>1. open' = <<>> /\ book' = EmptyBook /\ trades' = <<>>
  BY DEF StartReplay
<1>2. PositionsOK' /\ BookOK' /\ Len(open') = 0 /\ 1..0 = {}
  BY <1>1, EmptyPortfolio
<1>3. TradesOK'
  BY <1>1, <<>> \in Seq({}) DEF TradesOK, Sequence
<1>4. CASE UNCHANGED data /\ run' = [[Idle EXCEPT !.mode = "replay", !.config = c] EXCEPT !.status = "refused"]
  <2>1. run'.status = "refused" /\ run'.mode = "replay"
    BY <1>4 DEF Idle
  <2>2. DataOK'
    BY <1>4 DEF PortfolioInv, DataOK, Sequence
  <2> QED
    BY <1>2, <1>3, <2>1, <2>2 DEF PortfolioKept, RunOK, CountersOK
<1>5. CASE Reads(1) /\ run' = [[Idle EXCEPT !.mode = "replay", !.config = c, !.status = "running"]
                                  EXCEPT !.t = 1, !.phase = "assess", !.todo = Visible(data'[1])]
  <2>1. /\ run'.status = "running" /\ run'.mode = "replay" /\ run'.t = 1 /\ run'.phase = "assess"
        /\ run'.todo = Visible(data'[1])
    BY <1>5 DEF Idle
  <2>2. Len(data) \in Nat
    BY Appended DEF PortfolioInv, DataOK
  <2>3. DataOK' /\ 1 \in 1..Len(data')
    BY <1>5, <2>2, ReadsNext DEF PortfolioInv
  <2>4. StepOK'
    BY <2>1, <2>3, ReplayConstants DEF StepOK
  <2>5. Sequence(run'.todo) /\ \A i \in 1..Len(run'.todo) : run'.todo[i] \in Seen'
    BY <2>1, VisibleSeen DEF Seen
  <2>6. RunOK'
    BY <1>2, <2>1, <2>4, <2>5 DEF RunOK
  <2>7. CountersOK'
    BY <2>1 DEF CountersOK
  <2> QED
    BY <1>2, <1>3, <2>3, <2>6, <2>7 DEF PortfolioKept
<1> QED
  BY <1>4, <1>5, Zenon DEF StartReplay

LEMMA StartBacktestBooks ==
    ASSUME PortfolioInv, StartBacktest
    PROVE  PortfolioKept
<1>1. open' = <<>> /\ book' = EmptyBook /\ trades' = <<>>
  BY DEF StartBacktest
<1>2. PositionsOK' /\ BookOK' /\ Len(open') = 0 /\ 1..0 = {}
  BY <1>1, EmptyPortfolio
<1>3. TradesOK' /\ Len(trades') = 0
  BY <1>1, <<>> \in Seq({}) DEF TradesOK, Sequence
<1>4. /\ run'.status = "running" /\ run'.mode = "backtest" /\ run'.t = 1 /\ run'.phase = "exits"
      /\ run'.todo = <<>>
  BY DEF StartBacktest, Idle
<1>5. Len(data) \in Nat
  BY Appended DEF PortfolioInv, DataOK
<1>6. DataOK' /\ 1 \in 1..Len(data')
  BY <1>5, ReadsNext DEF PortfolioInv, StartBacktest
<1>7. StepOK'
  BY <1>4, <1>6, ReplayConstants DEF StepOK
<1>8. RunOK'
  BY <1>2, <1>4, <1>7, <<>> \in Seq({}) DEF RunOK, Sequence
<1>9. CountersOK'
  <2>1. Earned(1..Len(trades))' = 0
    BY <1>2, <1>3, SumEmpty DEF Earned
  <2>2. book'.equity = Config.equity /\ book'.realized = 0 /\ book'.losses = 0
    BY <1>1 DEF EmptyBook
  <2>3. Streak'
    BY <1>3, <2>2 DEF Streak
  <2>4. DayBooked'
    BY <1>2, <1>3, <1>4, <2>2 DEF DayBooked
  <2>5. book'.equity = Config.equity + Earned(1..Len(trades))'
    BY <2>1, <2>2, ConfigTyped
  <2> QED
    BY <2>3, <2>4, <2>5 DEF CountersOK
<1> QED
  BY <1>2, <1>3, <1>6, <1>8, <1>9 DEF PortfolioKept

\* The process dies with what it had in memory.
LEMMA DieBooks ==
    ASSUME PortfolioInv, Die
    PROVE  PortfolioKept
<1>1. /\ open' = <<>> /\ book' = EmptyBook /\ data' = data /\ trades' = trades
      /\ run'.status = "died" /\ run'.mode = "replay"
  BY DEF Die, PortfolioInv, JournalInv, Shapes
<1>2. PositionsOK' /\ BookOK'
  BY <1>1, EmptyPortfolio
<1>3. DataOK' /\ TradesOK'
  BY <1>1 DEF PortfolioInv, DataOK, TradesOK, Sequence
<1> QED
  BY <1>1, <1>2, <1>3 DEF PortfolioKept, RunOK, CountersOK

\* The rest of a list of tokens that are all seen.
LEMMA HeadSeen ==
    ASSUME RunOK, run.status = "running", run.phase \in {"assess", "entries"}, run.todo # <<>>
    PROVE  /\ StepOK /\ Head(run.todo) \in Seen
           /\ Sequence(Tail(run.todo)) /\ \A i \in 1..Len(Tail(run.todo)) : Tail(run.todo)[i] \in Seen
<1>1. /\ StepOK /\ Sequence(run.todo) /\ \A i \in 1..Len(run.todo) : run.todo[i] \in Seen
  BY DEF RunOK
<1> QED
  BY <1>1, RestOf

\* A step that looks at one token and takes it off the list.
LEMMA RestKeepsRun ==
    ASSUME PortfolioInv, data' = data, run' = [run EXCEPT !.todo = Tail(run.todo)],
           run.status = "running", run.phase \in {"assess", "entries"}, run.todo # <<>>,
           Len(open') \in Nat, \A i \in 1..Len(open') : open'[i].token \in Seen
    PROVE  RunOK'
<1>1. /\ run'.todo = Tail(run.todo) /\ run'.t = run.t /\ run'.phase = run.phase
      /\ run'.mode = run.mode /\ run'.status = run.status
  BY DEF PortfolioInv, JournalInv, Shapes
<1>2. /\ StepOK /\ Sequence(run'.todo)
      /\ \A i \in 1..Len(run'.todo) : run'.todo[i] \in Seen
      /\ run.mode = "replay" => run.phase = "assess"
  BY <1>1, HeadSeen DEF PortfolioInv, RunOK
<1>3. Seen' = Seen /\ StepOK'
  BY <1>1, <1>2 DEF Seen, StepOK
<1> QED
  BY <1>1, <1>2, <1>3 DEF RunOK

LEMMA DataSame == ASSUME DataOK, data' = data PROVE DataOK'
  BY DEF DataOK, Sequence
LEMMA TradesSame == ASSUME TradesOK, trades' = trades PROVE TradesOK'
  BY DEF TradesOK, Sequence
LEMMA BookSame == ASSUME BookOK, PositionsOK, open' = open, book' = book PROVE BookOK' /\ PositionsOK'
  BY DEF BookOK, PositionsOK, Sequence, PositionTyped

LEMMA AppendedOpen ==
    ASSUME PositionsOK, NEW x, open' = Append(open, x), x.token \in Seen,
           \A i \in 1..Len(open) : open[i].token \in Seen
    PROVE  /\ Len(open') = Len(open) + 1 /\ Len(open) \in Nat
           /\ \A i \in 1..Len(open') : open'[i].token \in Seen
<1>1. /\ Len(open) \in Nat /\ Len(open') = Len(open) + 1
      /\ \A i \in 1..Len(open) : open'[i] = open[i]
      /\ open'[Len(open) + 1] = x
  BY Appended DEF PositionsOK
<1>2. \A i \in 1..Len(open') : i \in 1..Len(open) \/ i = Len(open) + 1
  BY <1>1
<1> QED
  BY <1>1, <1>2

\* A token of a replay is assessed: its position is kept, left or entered.
LEMMA AssessBooks ==
    ASSUME PortfolioInv, AssessToken
    PROVE  PortfolioKept
<1> DEFINE k == Head(run.todo)
           a == Now[k]
<1>1. /\ run.status = "running" /\ run.phase = "assess" /\ run.todo # <<>>
      /\ run' = [run EXCEPT !.todo = Tail(run.todo)] /\ UNCHANGED <<data, trades>>
      /\ \/ UNCHANGED <<open, book>>
         \/ open' = Without(k, open) /\ book' = [book EXCEPT !.positions = Freed(k)]
         \/ ~Holds(k) /\ Entered(k, a)
  BY Zenon DEF AssessToken, Handled
<1>2. /\ StepOK /\ k \in Seen /\ \A i \in 1..Len(open) : open[i].token \in Seen
  BY <1>1, HeadSeen DEF PortfolioInv, RunOK
<1>3. run'.mode = "replay"
  BY <1>1 DEF PortfolioInv, JournalInv, Shapes, AssessmentIsReplay
<1>4. DataOK' /\ TradesOK' /\ CountersOK'
  BY <1>1, <1>3, DataSame, TradesSame DEF PortfolioInv, CountersOK
<1>5. CASE UNCHANGED <<open, book>>
  <2>1. BookOK' /\ PositionsOK' /\ Len(open') \in Nat /\ \A i \in 1..Len(open') : open'[i].token \in Seen
    BY <1>2, <1>5, BookSame, OpenFacts DEF PortfolioInv
  <2>2. RunOK'
    BY <1>1, <2>1, RestKeepsRun
  <2> QED
    BY <1>4, <2>1, <2>2 DEF PortfolioKept
<1>6. CASE open' = Without(k, open) /\ book' = [book EXCEPT !.positions = Freed(k)]
  <2>1. /\ book'.positions = Freed(k) /\ book'.equity = book.equity /\ book'.realized = book.realized
        /\ book'.losses = book.losses /\ DOMAIN book' = DOMAIN book
    BY <1>6 DEF PortfolioInv, BookOK
  <2> HIDE DEF k
  <2>2. /\ PositionsOK' /\ book'.positions = {Exposed(p) : p \in Range(open')} /\ Len(open') \in Nat
        /\ \A j \in 1..Len(open') : \E i \in 1..Len(open) : open'[j] = open[i]
    BY <1>6, <2>1, LeftKeeps DEF PortfolioInv
  <2>3. BookOK'
    BY <2>1, <2>2 DEF PortfolioInv, BookOK, Exposed
  <2>4. \A j \in 1..Len(open') : open'[j].token \in Seen
    BY <1>2, <2>2
  <2>5. RunOK'
    BY <1>1, <2>2, <2>4, RestKeepsRun
  <2> QED
    BY <1>4, <2>2, <2>3, <2>5 DEF PortfolioKept
<1>7. CASE ~Holds(k) /\ Entered(k, a)
  <2> HIDE DEF k
  <2>1. /\ PositionsOK' /\ BookOK'
        /\ open' = open \/ \E x : open' = Append(open, x) /\ x.token = k
    BY <1>2, <1>7, EnteredKeeps DEF PortfolioInv
  <2>2. Len(open') \in Nat /\ \A i \in 1..Len(open') : open'[i].token \in Seen
    BY <1>2, <2>1, AppendedOpen, OpenFacts DEF PortfolioInv
  <2>3. RunOK'
    BY <1>1, <2>2, RestKeepsRun
  <2> QED
    BY <1>4, <2>1, <2>3 DEF PortfolioKept
<1> QED
  BY <1>1, <1>5, <1>6, <1>7

\* A token of a backtest is looked at for an entry.
LEMMA EnterBooks ==
    ASSUME PortfolioInv, EnterOne
    PROVE  PortfolioKept
<1> DEFINE k == Head(run.todo)
           a == Now[k]
<1>1. /\ run.status = "running" /\ run.phase = "entries" /\ run.todo # <<>>
      /\ run' = [run EXCEPT !.todo = Tail(run.todo)] /\ UNCHANGED <<data, trades>>
      /\ \/ UNCHANGED <<open, book>>
         \/ ~Holds(k) /\ Entered(k, a)
  BY Zenon DEF EnterOne
<1>2. /\ StepOK /\ k \in Seen /\ \A i \in 1..Len(open) : open[i].token \in Seen
  BY <1>1, HeadSeen DEF PortfolioInv, RunOK
<1>3. DataOK' /\ TradesOK'
  BY <1>1, DataSame, TradesSame DEF PortfolioInv
<1>4. /\ PositionsOK' /\ BookOK'
      /\ book'.equity = book.equity /\ book'.realized = book.realized /\ book'.losses = book.losses
      /\ open' = open \/ \E x : open' = Append(open, x) /\ x.token = k
  <2>1. CASE UNCHANGED <<open, book>>
    BY <2>1, BookSame DEF PortfolioInv
  <2>2. CASE ~Holds(k) /\ Entered(k, a)
    <3> HIDE DEF k
    <3> QED
      BY <1>2, <2>2, EnteredKeeps DEF PortfolioInv
  <2> QED
    BY <1>1, <2>1, <2>2
<1> HIDE DEF k
<1>5. Len(open') \in Nat /\ \A i \in 1..Len(open') : open'[i].token \in Seen
  BY <1>2, <1>4, AppendedOpen, OpenFacts DEF PortfolioInv
<1>6. RunOK'
  BY <1>1, <1>5, RestKeepsRun
<1>7. /\ run'.t = run.t /\ run'.phase = "entries" /\ run'.day = run.day
      /\ run'.mode = run.mode /\ run'.status = "running"
  BY <1>1 DEF PortfolioInv, JournalInv, Shapes
<1>8. CountersOK'
  <2> SUFFICES ASSUME run.mode = "backtest"
               PROVE  /\ book'.equity = Config.equity + Earned(1..Len(trades))'
                      /\ Streak' /\ DayBooked'
    BY <1>7 DEF CountersOK
  <2>1. book.equity = Config.equity + Earned(1..Len(trades)) /\ Streak /\ DayBooked
    BY <1>1 DEF PortfolioInv, CountersOK
  <2>2. trades' = trades
    BY <1>1
  <2>3. /\ Earned(1..Len(trades))' = Earned(1..Len(trades))
        /\ Earned(OfDay(run.day))' = Earned(OfDay(run.day))
    BY <1>7, <2>2 DEF Earned, OfDay
  <2>4. Streak'
    BY <1>4, <2>1, <2>2 DEF Streak
  <2>5. DayBooked'
    BY <1>1, <1>4, <1>7, <2>1, <2>2, <2>3 DEF DayBooked
  <2> QED
    BY <1>4, <2>1, <2>3, <2>4, <2>5
<1> QED
  BY <1>3, <1>4, <1>6, <1>8 DEF PortfolioKept

\* The run moves on to the next scene, which shows what this one shows.
LEMMA Onward ==
    ASSUME PortfolioInv, run.status = "running", Reads(run.t + 1), run.t # Steps,
           open' = open, run'.t = run.t + 1
    PROVE  /\ DataOK' /\ StepOK' /\ run.t \in Nat \ {0}
           /\ \A i \in 1..Len(open') : open'[i].token \in Seen'
<1>1. Len(data) \in Nat /\ DOMAIN data = 1..Len(data)
  BY Appended DEF PortfolioInv, DataOK
<1>2. run.t \in 1..Len(data) /\ run.t <= Steps /\ \A i \in 1..Len(open) : open[i].token \in Seen
  BY DEF PortfolioInv, RunOK, StepOK
<1>3. run.t + 1 \in Nat \ {0} /\ run.t + 1 <= Len(data) + 1 /\ run.t + 1 > 1 /\ (run.t + 1) - 1 = run.t
  BY <1>1, <1>2
<1>4. /\ DataOK' /\ run.t + 1 \in 1..Len(data')
      /\ TokensOf(data[run.t]) \subseteq TokensOf(data'[run.t + 1])
  BY <1>3, ReadsNext DEF PortfolioInv
<1>5. run.t + 1 <= Steps
  <2>1. Steps \in Nat
    BY ReplayConstants
  <2>2. run.t \in Nat /\ run.t <= Steps /\ run.t # Steps
    BY <1>1, <1>2
  <2> HIDE <1>1, <1>2, <1>3, <1>4
  <2> QED
    BY <2>1, <2>2
<1> QED
  BY <1>1, <1>2, <1>4, <1>5 DEF StepOK, Seen

\* A replay goes on to the next scene, or is done.
LEMMA NextStepBooks ==
    ASSUME PortfolioInv, NextStep
    PROVE  PortfolioKept
<1>1. /\ run.status = "running" /\ run.mode = "replay" /\ UNCHANGED <<open, book, trades>>
      /\ \/ run' = [run EXCEPT !.status = "done"] /\ UNCHANGED data
         \/ /\ Reads(run.t + 1) /\ run.t # Steps
            /\ run' = [run EXCEPT !.t = run.t + 1, !.todo = Visible(data'[run.t + 1])]
  BY DEF NextStep, Final
<1>2. BookOK' /\ PositionsOK' /\ TradesOK'
  BY <1>1, BookSame, TradesSame DEF PortfolioInv
<1>3. CASE run' = [run EXCEPT !.status = "done"] /\ UNCHANGED data
  <2>1. run'.status = "done" /\ run'.mode = "replay"
    BY <1>1, <1>3 DEF PortfolioInv, JournalInv, Shapes
  <2> QED
    BY <1>2, <1>3, <2>1, DataSame DEF PortfolioKept, PortfolioInv, RunOK, CountersOK
<1>4. CASE /\ Reads(run.t + 1) /\ run.t # Steps
           /\ run' = [run EXCEPT !.t = run.t + 1, !.todo = Visible(data'[run.t + 1])]
  <2>1. /\ run'.t = run.t + 1 /\ run'.todo = Visible(data'[run.t + 1]) /\ run'.mode = "replay"
        /\ run'.status = "running" /\ run'.phase = run.phase
    BY <1>1, <1>4 DEF PortfolioInv, JournalInv, Shapes
  <2>2. run.phase = "assess"
    BY <1>1 DEF PortfolioInv, RunOK
  <2>3. DataOK' /\ StepOK' /\ \A i \in 1..Len(open') : open'[i].token \in Seen'
    BY <1>1, <1>4, <2>1, Onward
  <2>4. Sequence(run'.todo) /\ \A i \in 1..Len(run'.todo) : run'.todo[i] \in Seen'
    BY <2>1, VisibleSeen DEF Seen
  <2>5. RunOK'
    BY <2>1, <2>2, <2>3, <2>4 DEF RunOK
  <2>6. CountersOK'
    BY <2>1 DEF CountersOK
  <2> QED
    BY <1>2, <2>3, <2>5, <2>6 DEF PortfolioKept
<1> QED
  BY <1>1, <1>3, <1>4

\* Days are numbered in the order of their steps.
LEMMA DaysFollow ==
    /\ \A t \in Nat \ {0} : DayAt(t) \in Int
    /\ \A t, u \in Nat \ {0} : t <= u => DayAt(t) <= DayAt(u)
<1>1. StepsPerDay \in Nat \ {0}
  BY ReplayConstants
<1>2. ASSUME NEW x \in Nat, NEW y \in Nat, x <= y PROVE x \div StepsPerDay <= y \div StepsPerDay
  BY <1>1, <1>2, Z3
<1>3. \A x \in Nat : x \div StepsPerDay \in Int
  BY <1>1
<1> QED
  BY <1>2, <1>3 DEF DayAt

\* A step of a backtest begins, on the day of the last one or a new one.
LEMMA OpenStepBooks ==
    ASSUME PortfolioInv, OpenStep
    PROVE  PortfolioKept
<1> DEFINE day == DayAt(run.t)
<1>1. /\ run.status = "running" /\ run.phase = "exits" /\ UNCHANGED <<data, open, trades>>
      /\ run' = [run EXCEPT !.phase = "closing", !.day = day, !.todo = Opened]
      /\ book' = IF run.day # day THEN [book EXCEPT !.realized = 0] ELSE book
  BY DEF OpenStep, DayAt
<1>2. /\ run'.status = "running" /\ run'.phase = "closing" /\ run'.day = day /\ run'.todo = Opened
      /\ run'.t = run.t /\ run'.mode = run.mode
  BY <1>1 DEF PortfolioInv, JournalInv, Shapes
<1>3. /\ DOMAIN book' = DOMAIN book /\ book'.equity = book.equity /\ book'.losses = book.losses
      /\ book'.positions = book.positions
      /\ book'.realized = IF run.day # day THEN 0 ELSE book.realized
  BY <1>1 DEF PortfolioInv, BookOK
<1>4. DataOK' /\ TradesOK' /\ PositionsOK'
  BY <1>1, DataSame, TradesSame DEF PortfolioInv, PositionsOK, PositionTyped, Sequence
<1>5. BookOK'
  BY <1>1, <1>3 DEF PortfolioInv, BookOK, Exposed
<1>6. RunOK'
  <2>1. /\ StepOK /\ \A i \in 1..Len(open) : open[i].token \in Seen
        /\ run.mode # "replay"
    BY <1>1 DEF PortfolioInv, RunOK
  <2>2. DOMAIN open = 1..Len(open) /\ Len(open) \in Nat
    BY OpenFacts DEF PortfolioInv
  <2>3. Opened = [i \in 1..Len(open) |-> open[i].token]
    BY <2>2 DEF Opened
  <2>4. /\ Opened \in Seq({open[i].token : i \in 1..Len(open)}) /\ Len(Opened) = Len(open)
        /\ \A i \in 1..Len(open) : Opened[i] = open[i].token
    BY <2>2, <2>3
  <2>5. Sequence(Opened)
    BY <2>4 DEF Sequence
  <2>6. \A i, j \in 1..Len(Opened) : Opened[i] = Opened[j] => i = j
    BY <2>4 DEF PortfolioInv, PositionsOK
  <2>7. \A i \in 1..Len(Opened) : \E j \in 1..Len(open) : open[j].token = Opened[i]
    BY <2>4
  <2>8. StepOK' /\ Seen' = Seen
    BY <1>1, <1>2, <2>1 DEF StepOK, Seen
  <2> QED
    BY <1>1, <1>2, <2>1, <2>5, <2>6, <2>7, <2>8 DEF RunOK
<1>7. CountersOK'
  <2> SUFFICES ASSUME run.mode = "backtest"
               PROVE  /\ book'.equity = Config.equity + Earned(1..Len(trades))'
                      /\ Streak' /\ DayBooked'
    BY <1>2 DEF CountersOK
  <2>1. book.equity = Config.equity + Earned(1..Len(trades)) /\ Streak /\ DayBooked
    BY <1>1 DEF PortfolioInv, CountersOK
  <2>2. /\ Earned(1..Len(trades))' = Earned(1..Len(trades))
        /\ OfDay(day)' = OfDay(day) /\ Earned(OfDay(day))' = Earned(OfDay(day))
    BY <1>1, <1>2 DEF Earned, OfDay, DayAt
  <2>3. Streak'
    BY <1>1, <1>3, <2>1 DEF Streak
  <2>4. /\ run.t \in Nat \ {0} /\ \A i \in 1..Len(trades) : trades[i].t < run.t /\ trades[i].t \in Nat \ {0}
    <3>1. run.t \in 1..Len(data) /\ Len(data) \in Nat
      BY <1>1, Appended DEF PortfolioInv, RunOK, StepOK, DataOK
    <3> QED
      BY <1>1, <2>1, <3>1 DEF DayBooked, PortfolioInv, TradesOK
  <2>5. book'.realized = Earned(OfDay(day))
    <3>1. CASE run.t = 1
      <4>1. OfDay(day) = {}
        BY <2>4, <3>1 DEF OfDay
      <4>2. book.realized = 0
        BY <1>1, <2>1, <3>1 DEF DayBooked
      <4> QED
        BY <1>3, <4>1, <4>2, SumEmpty DEF Earned
    <3>2. CASE run.t > 1
      <4>1. run.day = DayAt(run.t - 1) /\ book.realized = Earned(OfDay(run.day))
        BY <1>1, <2>1, <3>2 DEF DayBooked
      <4>2. CASE run.day = day
        BY <1>3, <4>1, <4>2
      <4>3. CASE run.day # day
        <5>1. run.t - 1 \in Nat \ {0} /\ run.t - 1 <= run.t
          BY <2>4, <3>2
        <5>2. DayAt(run.t - 1) < day
          BY <2>4, <4>1, <4>3, <5>1, DaysFollow
        <5>3. ASSUME NEW i \in 1..Len(trades) PROVE DayAt(trades[i].t) # day
          <6>1. trades[i].t <= run.t - 1
            BY <2>4
          <6>2. DayAt(trades[i].t) <= DayAt(run.t - 1)
            BY <2>4, <5>1, <6>1, DaysFollow
          <6> QED
            BY <2>4, <5>1, <5>2, <6>2, DaysFollow
        <5>4. OfDay(day) = {}
          BY <5>3 DEF OfDay
        <5> QED
          BY <1>3, <4>3, <5>4, SumEmpty DEF Earned
      <4> QED
        BY <4>2, <4>3
    <3> QED
      BY <2>4, <3>1, <3>2
  <2>6. DayBooked'
    <3>1. \A i \in 1..Len(trades') : trades'[i].t <= run'.t
      BY <1>1, <1>2, <2>4
    <3>2. run'.day = DayAt(run.t)' /\ book'.realized = Earned(OfDay(run.day))'
      <4>1. run'.day = DayAt(run'.t)
        BY <1>2
      <4>2. Earned(OfDay(run.day))' = Earned(OfDay(day))
        BY <1>1, <1>2 DEF Earned, OfDay
      <4> QED
        BY <2>5, <4>1, <4>2 DEF DayAt
    <3> QED
      BY <1>2, <3>1, <3>2 DEF DayBooked
  <2> QED
    BY <1>3, <2>1, <2>2, <2>3, <2>6
<1> QED
  BY <1>4, <1>5, <1>6, <1>7 DEF PortfolioKept

LEMMA SlippageInt == \A n \in Nat, l \in Nat \ {0} : Slippage(n, l, 0) \in Int
<1> SUFFICES ASSUME NEW n \in Nat, NEW l \in Nat \ {0} PROVE Slippage(n, l, 0) \in Int
  OBVIOUS
<1>1. (2000 * n) \div l \in Int
  OBVIOUS
<1> QED
  BY <1>1 DEF Slippage

\* What a trade made is a whole number.
LEMMA PnlInt ==
    ASSUME NEW p, PositionTyped(p), NEW price \in Nat, NEW liq, Has(liq) => liq \in Nat
    PROVE  Pnl(p, price, liq) \in Int
<1> DEFINE n == p.notional
           q == p.price
           priced(s) == (s * n) \div 1000
           leaving == IF Has(liq) /\ liq # 0 THEN Slippage(n, liq, 0) * Config.exitMultiplier ELSE 500
           move == (n * price) \div q
           slip == Slippage(n, p.liq, 0)
<1>1. n \in Nat /\ q \in Nat \ {0} /\ p.liq \in Nat \ {0}
  BY DEF PositionTyped
<1>2. slip \in Int
  BY <1>1, SlippageInt
<1>3. leaving \in Int
  <2>1. CASE Has(liq) /\ liq # 0
    <3>1. liq \in Nat \ {0}
      BY <2>1
    <3>2. Slippage(n, liq, 0) \in Int /\ Config.exitMultiplier \in Int
      BY <1>1, <3>1, SlippageInt, ConfigTyped
    <3> DEFINE v == Slippage(n, liq, 0)
    <3> HIDE DEF v
    <3>3. v * Config.exitMultiplier \in Int
      BY <3>2 DEF v
    <3> QED
      BY <2>1, <3>3 DEF v
  <2>2. CASE ~(Has(liq) /\ liq # 0)
    BY <2>2
  <2> QED
    BY <2>1, <2>2
<1>4. move \in Int
  <2> HIDE DEF n, q
  <2>1. n * price \in Int
    BY <1>1
  <2> QED
    BY <1>1, <2>1
<1>5. \A s \in Int : priced(s) \in Int
  <2> SUFFICES ASSUME NEW s \in Int PROVE (s * n) \div 1000 \in Int
    OBVIOUS
  <2> HIDE DEF n
  <2>1. s * n \in Int
    BY <1>1
  <2> QED
    BY <2>1
<1>6. Pnl(p, price, liq) = move - n - 2 * priced(Fee) - PriorityFee - priced(slip) - priced(leaving)
  BY Zenon DEF Pnl
<1>7. priced(Fee) \in Int /\ priced(slip) \in Int /\ priced(leaving) \in Int /\ PriorityFee \in Int
  BY <1>2, <1>3, <1>5, ConfigTyped
<1> DEFINE a == priced(Fee)
           b == priced(slip)
           c == priced(leaving)
<1>8. a \in Int /\ b \in Int /\ c \in Int
  BY <1>7
<1> HIDE DEF a, b, c, move, n
<1>9. move - n - 2 * a - PriorityFee - b - c \in Int
  BY <1>1, <1>4, <1>7, <1>8
<1> QED
  BY <1>6, <1>9 DEF a, b, c

\* A trade that is booked is counted in the equity, on its day and in the streak.
LEMMA EarnedNext ==
    ASSUME TradesOK, NEW x, x.pnl \in Int, x.t \in Nat \ {0}, trades' = Append(trades, x),
           NEW n, n = Len(trades)
    PROVE  /\ TradesOK' /\ n \in Nat /\ Len(trades') = n + 1
           /\ trades'[n + 1] = x /\ \A i \in 1..n : trades'[i] = trades[i]
           /\ \A S \in SUBSET (1..n) :
                /\ Earned(S)' = Earned(S) /\ Earned(S) \in Int
                /\ Earned(S \union {n + 1})' = Earned(S) + x.pnl
<1>1. /\ n \in Nat /\ Len(trades') = n + 1 /\ Sequence(trades')
      /\ trades'[n + 1] = x /\ \A i \in 1..n : trades'[i] = trades[i]
  BY Appended DEF TradesOK
<1>2. /\ \A i \in 1..n + 1 : i \in 1..n \/ i = n + 1
      /\ n + 1 \notin 1..n
  BY <1>1
<1>3. TradesOK'
  BY <1>1, <1>2 DEF TradesOK
<1>4. IsFiniteSet(1..n)
  BY <1>1, FS_Interval
<1>5. ASSUME NEW S \in SUBSET (1..n)
      PROVE  /\ Earned(S)' = Earned(S) /\ Earned(S) \in Int
             /\ Earned(S \union {n + 1})' = Earned(S) + x.pnl
  <2> DEFINE T == S \union {n + 1}
             f == [i \in S |-> trades[i].pnl]
             g == [i \in S |-> trades'[i].pnl]
             h == [i \in T |-> trades'[i].pnl]
  <2>1. IsFiniteSet(S) /\ n + 1 \notin S
    BY <1>2, <1>4, FS_Subset
  <2>2. /\ \A i \in S : f[i] \in Int /\ g[i] = f[i] /\ h[i] = f[i]
        /\ \A i \in T : h[i] \in Int
        /\ h[n + 1] = x.pnl
    BY <1>1 DEF TradesOK
  <2>3. Earned(S) = SumFunctionOnSet(f, S) /\ Earned(S)' = SumFunctionOnSet(g, S)
        /\ Earned(T)' = SumFunctionOnSet(h, T)
    BY DEF Earned
  <2> HIDE DEF f, g, h
  <2>4. SumFunctionOnSet(f, S) = SumFunctionOnSet(g, S) /\ SumFunctionOnSet(f, S) = SumFunctionOnSet(h, S)
    BY <2>1, <2>2, SumSame
  <2>5. SumFunctionOnSet(f, S) \in Int
    BY <2>1, <2>2, SumInt
  <2>6. SumFunctionOnSet(h, T) = h[n + 1] + SumFunctionOnSet(h, S)
    BY <2>1, <2>2, SumAdd
  <2> QED
    BY <2>2, <2>3, <2>4, <2>5, <2>6
<1> QED
  BY <1>1, <1>3, <1>5

\* The token whose position is looked at is held and seen; the rest of the
\* list names other positions, so it is still right when this one is closed.
LEMMA ClosingRest ==
    ASSUME PortfolioInv, run.status = "running", run.phase = "closing", run.todo # <<>>,
           data' = data, run' = [run EXCEPT !.todo = Tail(run.todo)],
           NEW k, k = Head(run.todo),
           \A j \in 1..Len(open') : \E i \in 1..Len(open) : open'[j] = open[i],
           \A i \in 1..Len(open) : open[i].token # k => \E j \in 1..Len(open') : open'[j] = open[i]
    PROVE  RunOK'
<1>1. /\ run'.todo = Tail(run.todo) /\ run'.t = run.t /\ run'.phase = run.phase
      /\ run'.mode = run.mode /\ run'.status = run.status
  BY DEF PortfolioInv, JournalInv, Shapes
<1>2. /\ StepOK /\ Sequence(run.todo) /\ run.mode # "replay"
      /\ \A i \in 1..Len(open) : open[i].token \in Seen
      /\ \A i \in 1..Len(run.todo) : \E j \in 1..Len(open) : open[j].token = run.todo[i]
      /\ \A i, j \in 1..Len(run.todo) : run.todo[i] = run.todo[j] => i = j
  BY DEF PortfolioInv, RunOK
<1>3. /\ Sequence(run'.todo) /\ Len(run'.todo) = Len(run.todo) - 1 /\ Len(run.todo) \in Nat \ {0}
      /\ k = run.todo[1] /\ 1 \in 1..Len(run.todo)
      /\ \A i \in 1..Len(run'.todo) : i + 1 \in 1..Len(run.todo) /\ i + 1 # 1 /\ run'.todo[i] = run.todo[i + 1]
  BY <1>1, <1>2, RestOf
<1>4. StepOK' /\ Seen' = Seen
  BY <1>1, <1>2 DEF StepOK, Seen
<1>5. \A j \in 1..Len(open') : open'[j].token \in Seen
  BY <1>2
<1>6. ASSUME NEW i \in 1..Len(run'.todo) PROVE \E j \in 1..Len(open') : open'[j].token = run'.todo[i]
  <2>1. run'.todo[i] # k
    BY <1>2, <1>3
  <2>2. PICK m \in 1..Len(open) : open[m].token = run'.todo[i]
    BY <1>2, <1>3
  <2> QED
    BY <2>1, <2>2
<1>7. ASSUME NEW i \in 1..Len(run'.todo), NEW j \in 1..Len(run'.todo), run'.todo[i] = run'.todo[j]
      PROVE  i = j
  <2>1. i + 1 = j + 1
    BY <1>2, <1>3, <1>7
  <2>2. i \in Int /\ j \in Int
    BY <1>3
  <2> QED
    BY <2>1, <2>2
<1> QED
  BY <1>1, <1>2, <1>3, <1>4, <1>5, <1>6, <1>7 DEF RunOK

\* A position of a backtest is looked at, and closed where it can be filled.
LEMMA CloseBooks ==
    ASSUME PortfolioInv, CloseOne
    PROVE  PortfolioKept
<1>0. PICK k : k = Head(run.todo)
  OBVIOUS
<1> DEFINE p == PositionOf(k)
<1>1. /\ run.status = "running" /\ run.phase = "closing" /\ run.todo # <<>>
      /\ run' = [run EXCEPT !.todo = Tail(run.todo)] /\ data' = data
      /\ \/ UNCHANGED <<open, book, trades>>
         \/ \E pnl \in {Pnl(p, Fill(k).price, Fill(k).liq)} :
              /\ Has(Fill(k).price)
              /\ open' = Without(k, open) /\ book' = Booked(book, k, pnl)
              /\ trades' = Append(trades, [token |-> k, t |-> run.t, pnl |-> pnl])
  BY <1>0, Zenon DEF CloseOne
<1>2. /\ run'.t = run.t /\ run'.phase = "closing" /\ run'.day = run.day
      /\ run'.mode = run.mode /\ run'.status = "running"
  BY <1>1 DEF PortfolioInv, JournalInv, Shapes
<1>3. DataOK'
  BY <1>1, DataSame DEF PortfolioInv
<1>4. CASE UNCHANGED <<open, book, trades>>
  <2>1. BookOK' /\ PositionsOK' /\ TradesOK'
    BY <1>4, BookSame, TradesSame DEF PortfolioInv
  <2>2. RunOK'
    BY <1>0, <1>1, <1>4, ClosingRest
  <2>3. CountersOK'
    <3> SUFFICES ASSUME run.mode = "backtest"
                 PROVE  /\ book'.equity = Config.equity + Earned(1..Len(trades))'
                        /\ Streak' /\ DayBooked'
      BY <1>2 DEF CountersOK
    <3>1. book.equity = Config.equity + Earned(1..Len(trades)) /\ Streak /\ DayBooked
      BY <1>1 DEF PortfolioInv, CountersOK
    <3>2. /\ Earned(1..Len(trades))' = Earned(1..Len(trades))
          /\ Earned(OfDay(run.day))' = Earned(OfDay(run.day))
      BY <1>2, <1>4 DEF Earned, OfDay
    <3>3. Streak'
      BY <1>4, <3>1 DEF Streak
    <3>4. DayBooked'
      BY <1>1, <1>2, <1>4, <3>1, <3>2 DEF DayBooked
    <3> QED
      BY <1>4, <3>1, <3>2, <3>3, <3>4
  <2> QED
    BY <1>3, <2>1, <2>2, <2>3 DEF PortfolioKept
<1>5. ASSUME NEW pnl, pnl = Pnl(p, Fill(k).price, Fill(k).liq), Has(Fill(k).price),
             open' = Without(k, open), book' = Booked(book, k, pnl),
             trades' = Append(trades, [token |-> k, t |-> run.t, pnl |-> pnl])
      PROVE  PortfolioKept
  <2>1. /\ StepOK /\ Sequence(run.todo) /\ run.mode # "replay"
        /\ \A i \in 1..Len(open) : open[i].token \in Seen
        /\ \A i \in 1..Len(run.todo) : \E j \in 1..Len(open) : open[j].token = run.todo[i]
    BY <1>1 DEF PortfolioInv, RunOK
  <2>2. PICK m \in 1..Len(open) : open[m].token = k
    BY <1>0, <1>1, <2>1, RestOf
  <2>3. k \in Seen
    BY <2>1, <2>2
  <2>4. PositionTyped(p)
    <3>1. open[m] \in Range(open) /\ open[m].token = k
      BY <2>2, OpenFacts DEF PortfolioInv, Range
    <3>2. p \in Range(open)
      BY <3>1, Zenon DEF PositionOf
    <3> QED
      BY <3>2, OpenFacts DEF PortfolioInv
  <2>5. Fill(k).price \in Nat /\ (Has(Fill(k).liq) => Fill(k).liq \in Nat)
    <3>1. EvidenceTyped(Scenes[data[run.t]].tokens[k])
      BY <2>1, <2>3, NowShows DEF PortfolioInv
    <3> QED
      BY <1>5, <3>1 DEF Fill, EvidenceTyped
  <2>6. pnl \in Int
    <3> HIDE DEF p
    <3> QED
      BY <1>5, <2>4, <2>5, PnlInt
  <2>7. run.t \in Nat \ {0}
    BY <2>1, Appended DEF StepOK, PortfolioInv, DataOK
  <2> DEFINE x == [token |-> k, t |-> run.t, pnl |-> pnl]
  <2>8. x.pnl = pnl /\ x.t = run.t /\ trades' = Append(trades, x)
    BY <1>5
  <2> HIDE DEF x, p
  <2>9. PICK n : n = Len(trades)
    OBVIOUS
  <2>10. /\ TradesOK' /\ n \in Nat /\ Len(trades') = n + 1
         /\ trades'[n + 1] = x /\ \A i \in 1..n : trades'[i] = trades[i]
         /\ \A S \in SUBSET (1..n) :
              /\ Earned(S)' = Earned(S) /\ Earned(S) \in Int
              /\ Earned(S \union {n + 1})' = Earned(S) + pnl
    <3>1. x.pnl \in Int /\ x.t \in Nat \ {0}
      BY <2>6, <2>7, <2>8
    <3>2. TradesOK
      BY DEF PortfolioInv
    <3> QED
      BY <2>8, <2>9, <3>1, <3>2, EarnedNext
  <2>11. /\ DOMAIN book' = DOMAIN book /\ book'.positions = Freed(k)
         /\ book'.equity = book.equity + pnl /\ book'.realized = book.realized + pnl
         /\ book'.losses = IF pnl <= 0 THEN book.losses + 1 ELSE 0
    BY <1>5 DEF Booked, PortfolioInv, BookOK
  <2>12. /\ PositionsOK' /\ book'.positions = {Exposed(q) : q \in Range(open')}
         /\ \A j \in 1..Len(open') : \E i \in 1..Len(open) : open'[j] = open[i]
         /\ \A i \in 1..Len(open) : open[i].token # k => \E j \in 1..Len(open') : open'[j] = open[i]
    BY <1>5, <2>11, LeftKeeps DEF PortfolioInv
  <2>13. book.equity \in Int /\ book.realized \in Int /\ book.losses \in Nat
    BY DEF PortfolioInv, BookOK
  <2>14. BookOK'
    <3>1. book'.equity \in Int /\ book'.realized \in Int /\ book'.losses \in Nat
      BY <2>6, <2>11, <2>13
    <3>2. DOMAIN book' = {"equity", "positions", "realized", "losses"}
      BY <2>11 DEF PortfolioInv, BookOK
    <3> QED
      BY <2>12, <3>1, <3>2 DEF BookOK, Exposed
  <2>15. RunOK'
    BY <1>0, <1>1, <2>12, ClosingRest
  <2>16. CountersOK'
    <3> SUFFICES ASSUME run.mode = "backtest"
                 PROVE  /\ book'.equity = Config.equity + Earned(1..Len(trades))'
                        /\ Streak' /\ DayBooked'
      BY <1>2 DEF CountersOK
    <3>1. book.equity = Config.equity + Earned(1..n) /\ Streak /\ DayBooked
      BY <1>1, <2>9 DEF PortfolioInv, CountersOK
    <3>2. 1..n + 1 = (1..n) \union {n + 1}
      BY <2>10
    <3>3. book'.equity = Config.equity + Earned(1..Len(trades))'
      <4>1. Earned(1..Len(trades))' = Earned(1..n + 1)'
        BY <2>10
      <4>2. Earned(1..n) \in Int /\ Earned(1..n + 1)' = Earned(1..n) + pnl
        BY <2>10, <3>2
      <4> QED
        BY <2>6, <2>11, <3>1, <4>1, <4>2, ConfigTyped
    <3>4. Streak'
      <4>1. book.losses <= n /\ (book.losses < n => trades[n - book.losses].pnl > 0)
        BY <2>9, <3>1 DEF Streak
      <4>2. CASE pnl <= 0
        <5>1. book'.losses = book.losses + 1 /\ book'.losses <= n + 1
          BY <2>10, <2>11, <2>13, <4>1, <4>2
        <5>2. ASSUME book'.losses < n + 1 PROVE trades'[(n + 1) - book'.losses].pnl > 0
          <6>1. book.losses < n /\ n - book.losses \in 1..n /\ (n + 1) - book'.losses = n - book.losses
            BY <2>10, <2>13, <5>1, <5>2
          <6> QED
            BY <2>10, <4>1, <6>1
        <5> QED
          BY <2>10, <5>1, <5>2 DEF Streak
      <4>3. CASE ~(pnl <= 0)
        <5>1. book'.losses = 0 /\ pnl > 0 /\ (n + 1) - 0 = n + 1 /\ 0 <= n + 1
          BY <2>6, <2>10, <2>11, <4>3
        <5> QED
          BY <2>8, <2>10, <5>1 DEF Streak
      <4> QED
        BY <4>2, <4>3
    <3>5. DayBooked'
      <4>1. PICK d : d = run.day
        OBVIOUS
      <4>2. /\ \A i \in 1..n : trades[i].t <= run.t
            /\ d = DayAt(run.t) /\ book.realized = Earned(OfDay(d))
        BY <1>1, <2>9, <3>1, <4>1 DEF DayBooked
      <4>3. PICK D : D = OfDay(d)
        OBVIOUS
      <4>4. D \in SUBSET (1..n)
        BY <2>9, <4>3 DEF OfDay
      <4>5. OfDay(d)' = D \union {n + 1}
        <5>1. /\ OfDay(d)' = {i \in 1..n + 1 : DayAt(trades'[i].t) = d}
              /\ D = {i \in 1..n : DayAt(trades[i].t) = d}
          BY <2>9, <2>10, <4>3 DEF OfDay, DayAt
        <5>2. DayAt(trades'[n + 1].t) = d
          BY <2>8, <2>10, <4>2
        <5> QED
          BY <2>10, <3>2, <5>1, <5>2
      <4>6. book'.realized = Earned(D \union {n + 1})'
        BY <2>10, <2>11, <4>2, <4>3, <4>4
      <4>7. Earned(OfDay(run.day))' = Earned(D \union {n + 1})'
        <5>1. OfDay(run.day)' = D \union {n + 1}
          BY <1>2, <4>1, <4>5 DEF OfDay
        <5> QED
          BY <5>1 DEF Earned
      <4>8. \A i \in 1..n + 1 : trades'[i].t <= run.t
        <5>1. \A i \in 1..n : trades'[i].t <= run.t
          BY <2>10, <4>2
        <5>2. trades'[n + 1].t <= run.t
          BY <2>7, <2>8, <2>10
        <5> QED
          BY <3>2, <5>1, <5>2
      <4>9. run'.day = DayAt(run.t)'
        BY <1>2, <4>1, <4>2 DEF DayAt
      <4> QED
        BY <1>2, <2>10, <4>6, <4>7, <4>8, <4>9 DEF DayBooked
    <3> QED
      BY <3>3, <3>4, <3>5
  <2> QED
    BY <1>3, <2>10, <2>12, <2>14, <2>15, <2>16 DEF PortfolioKept
<1> QED
  BY <1>1, <1>4, <1>5

\* A backtest goes from exits to entries, and from entries to the next step.
LEMMA NextPhaseBooks ==
    ASSUME PortfolioInv, NextPhase
    PROVE  PortfolioKept
<1>1. /\ run.status = "running" /\ UNCHANGED <<open, book, trades>>
      /\ \/ /\ run.phase = "closing" /\ data' = data
            /\ run' = [run EXCEPT !.phase = "entries", !.todo = Visible(data[run.t])]
         \/ /\ run.phase = "entries" /\ run.t # Steps /\ Reads(run.t + 1)
            /\ run' = [run EXCEPT !.t = run.t + 1, !.phase = "exits"]
         \/ /\ run.phase = "entries" /\ data' = data
            /\ run' = [run EXCEPT !.status = "done"]
  BY DEF NextPhase, Final
<1>2. BookOK' /\ PositionsOK' /\ TradesOK'
  BY <1>1, BookSame, TradesSame DEF PortfolioInv
<1>3. /\ StepOK /\ Sequence(run.todo)
      /\ run.phase \in {"closing", "entries"} => run.mode # "replay"
      /\ \A i \in 1..Len(open) : open[i].token \in Seen
  BY <1>1 DEF PortfolioInv, RunOK
<1>4. /\ run.mode = "backtest" =>
           /\ book.equity = Config.equity + Earned(1..Len(trades)) /\ Streak
           /\ DayBooked
      /\ Streak => Streak'
      /\ Earned(1..Len(trades))' = Earned(1..Len(trades)) /\ book'.equity = book.equity
  <2>1. trades' = trades /\ book' = book
    BY <1>1
  <2> QED
    BY <1>1, <2>1 DEF PortfolioInv, CountersOK, Streak, Earned
<1>5. CASE /\ run.phase = "closing" /\ data' = data
           /\ run' = [run EXCEPT !.phase = "entries", !.todo = Visible(data[run.t])]
  <2>1. /\ run'.t = run.t /\ run'.phase = "entries" /\ run'.day = run.day /\ run'.todo = Visible(data[run.t])
        /\ run'.mode = run.mode /\ run'.status = "running"
    BY <1>1, <1>5 DEF PortfolioInv, JournalInv, Shapes
  <2>2. Seen' = Seen /\ StepOK' /\ open' = open
    BY <1>1, <1>3, <1>5, <2>1 DEF Seen, StepOK
  <2>3. Sequence(run'.todo) /\ \A i \in 1..Len(run'.todo) : run'.todo[i] \in Seen
    BY <2>1, VisibleSeen DEF Seen
  <2>4. RunOK'
    BY <1>3, <1>5, <2>1, <2>2, <2>3 DEF RunOK
  <2>5. ASSUME DayBooked PROVE DayBooked'
    <3>1. Earned(OfDay(run.day))' = Earned(OfDay(run.day)) /\ trades' = trades /\ book' = book
      BY <1>1, <2>1 DEF Earned, OfDay
    <3> QED
      BY <1>5, <2>1, <2>5, <3>1 DEF DayBooked, DayAt
  <2>6. CountersOK'
    BY <1>4, <2>1, <2>5 DEF CountersOK
  <2> QED
    BY <1>2, <1>5, <2>4, <2>6, DataSame DEF PortfolioKept, PortfolioInv
<1>6. CASE /\ run.phase = "entries" /\ run.t # Steps /\ Reads(run.t + 1)
           /\ run' = [run EXCEPT !.t = run.t + 1, !.phase = "exits"]
  <2>1. /\ run'.t = run.t + 1 /\ run'.phase = "exits" /\ run'.day = run.day /\ run'.todo = run.todo
        /\ run'.mode = run.mode /\ run'.status = "running"
    BY <1>1, <1>6 DEF PortfolioInv, JournalInv, Shapes
  <2>2. DataOK' /\ StepOK' /\ run.t \in Nat \ {0} /\ \A i \in 1..Len(open') : open'[i].token \in Seen'
    BY <1>1, <1>6, <2>1, Onward
  <2>3. RunOK'
    BY <1>3, <1>6, <2>1, <2>2 DEF RunOK
  <2>4. ASSUME DayBooked PROVE DayBooked'
    <3>1. Earned(OfDay(run.day))' = Earned(OfDay(run.day)) /\ trades' = trades /\ book' = book
      BY <1>1, <2>1 DEF Earned, OfDay
    <3>2. /\ \A i \in 1..Len(trades) : trades[i].t <= run.t /\ trades[i].t \in Nat
          /\ run.day = DayAt(run.t) /\ book.realized = Earned(OfDay(run.day))
      BY <1>6, <2>4 DEF DayBooked, PortfolioInv, TradesOK
    <3>3. \A i \in 1..Len(trades') : trades'[i].t < run'.t
      BY <2>1, <2>2, <3>1, <3>2
    <3>4. run'.t - 1 = run.t /\ run'.t # 1
      BY <2>1, <2>2
    <3>5. run'.day = DayAt(run.t - 1)' /\ book'.realized = Earned(OfDay(run.day))'
      BY <2>1, <3>1, <3>2, <3>4 DEF DayAt
    <3> QED
      BY <2>1, <3>3, <3>4, <3>5 DEF DayBooked
  <2>5. CountersOK'
    BY <1>4, <2>1, <2>4 DEF CountersOK
  <2> QED
    BY <1>2, <2>2, <2>3, <2>5 DEF PortfolioKept
<1>7. CASE run.phase = "entries" /\ data' = data /\ run' = [run EXCEPT !.status = "done"]
  <2>1. run'.status = "done" /\ run'.mode = run.mode
    BY <1>7 DEF PortfolioInv, JournalInv, Shapes
  <2>2. RunOK' /\ CountersOK'
    BY <1>4, <2>1 DEF RunOK, CountersOK
  <2> QED
    BY <1>2, <1>7, <2>2, DataSame DEF PortfolioKept, PortfolioInv
<1> QED
  BY <1>1, <1>5, <1>6, <1>7

LEMMA NothingBooks ==
    ASSUME PortfolioInv, UNCHANGED vars
    PROVE  PortfolioKept
<1>1. UNCHANGED <<data, run, open, book, trades>>
  BY DEF vars
<1>2. DataOK' /\ TradesOK' /\ PositionsOK' /\ BookOK'
  BY <1>1, DataSame, TradesSame, BookSame DEF PortfolioInv
<1>3. RunOK'
  BY <1>1 DEF PortfolioInv, RunOK, StepOK, Seen, Sequence
<1>4. CountersOK'
  BY <1>1 DEF PortfolioInv, CountersOK, Streak, DayBooked, Earned, OfDay, DayAt
<1> QED
  BY <1>2, <1>3, <1>4 DEF PortfolioKept

\* Every step keeps the portfolio what it is.
LEMMA PortfolioStep == PortfolioInv /\ [Next]_vars => PortfolioInv'
<1> SUFFICES ASSUME PortfolioInv, [Next]_vars PROVE PortfolioInv'
  OBVIOUS
<1>1. JournalInv'
  BY StepKeeps DEF PortfolioInv
<1>2. PortfolioKept
  <2>1. ASSUME NEW c \in Configs, NEW x \in Configs \union {None}, StartReplay(c, x) PROVE PortfolioKept
    BY <2>1, StartReplayBooks
  <2> QED
    BY <2>1, StartBacktestBooks, AssessBooks, NextStepBooks, DieBooks, OpenStepBooks, CloseBooks, EnterBooks,
       NextPhaseBooks, NothingBooks DEF Next
<1> QED
  BY <1>1, <1>2 DEF PortfolioInv, PortfolioKept

-----------------------------------------------------------------------------
\* A position is only ever added by an entry of a token that is assessed.
LEMMA EnteringIsEntry ==
    ASSUME PortfolioInv, Next, Entering
    PROVE  /\ \E x : open' = Append(open, x) /\ Fits(x) /\ Allowed
           /\ run.status = "running" /\ run.phase \in {"assess", "entries"}
<1>1. Len(open) \in Nat
  BY OpenFacts DEF PortfolioInv
<1>2. Len(<<>>) = 0 /\ Len(open') # Len(open)
  BY <1>1 DEF Entering
<1>3. PICK k \in Seen :
        /\ StepOK /\ ~Holds(k) /\ Entered(k, Now[k])
        /\ run.status = "running" /\ run.phase \in {"assess", "entries"}
  <2>1. ASSUME open' = <<>> PROVE FALSE
    BY <1>1, <2>1 DEF Entering
  <2>2. ASSUME NEW c, NEW x, StartReplay(c, x) PROVE FALSE
    BY <2>1, <2>2 DEF StartReplay
  <2>3. ASSUME UNCHANGED open PROVE FALSE
    BY <1>2, <2>3
  <2>4. ASSUME NEW k, open' = Without(k, open) PROVE FALSE
    <3>1. Takes(open', open, {i \in DOMAIN open : open[i].token # k}, Len(open))
      BY <2>4, ThoseTakes DEF Without, PortfolioInv, PositionsOK
    <3>2. Len(open') <= Len(open) /\ Sequence(open')
      BY <3>1 DEF Takes
    <3> QED
      BY <1>1, <3>2, Appended DEF Entering
  <2>5. /\ ~StartBacktest /\ ~Die
    BY <2>1 DEF StartBacktest, Die
  <2>6. ~NextStep /\ ~OpenStep /\ ~NextPhase
    BY <2>3 DEF NextStep, OpenStep, NextPhase
  <2>7. ~CloseOne
    <3>1. CloseOne => open' = open \/ \E k : open' = Without(k, open)
      BY Zenon DEF CloseOne
    <3> QED
      BY <2>3, <2>4, <3>1
  <2>8. CASE AssessToken
    <3> DEFINE k == Head(run.todo)
    <3>1. /\ run.status = "running" /\ run.phase = "assess" /\ run.todo # <<>>
          /\ \/ UNCHANGED open
             \/ open' = Without(k, open)
             \/ ~Holds(k) /\ Entered(k, Now[k])
      BY <2>8, Zenon DEF AssessToken, Handled
    <3>2. StepOK /\ k \in Seen
      BY <3>1, HeadSeen DEF PortfolioInv
    <3> QED
      BY <2>3, <2>4, <3>1, <3>2
  <2>9. CASE EnterOne
    <3> DEFINE k == Head(run.todo)
    <3>1. /\ run.status = "running" /\ run.phase = "entries" /\ run.todo # <<>>
          /\ UNCHANGED open \/ (~Holds(k) /\ Entered(k, Now[k]))
      BY <2>9, Zenon DEF EnterOne
    <3>2. StepOK /\ k \in Seen
      BY <3>1, HeadSeen DEF PortfolioInv
    <3> QED
      BY <2>3, <3>1, <3>2
  <2> QED
    BY <2>2, <2>5, <2>6, <2>7, <2>8, <2>9 DEF Next
<1>4. open' # open
  BY <1>2
<1> QED
  BY <1>3, <1>4, EnteredKeeps DEF PortfolioInv

\* A position that is taken fits, whatever step takes it.
LEMMA StepFits ==
    ASSUME PortfolioInv, [Next]_vars, open' # open, Entering
    PROVE  LET held == Range(open')
               new  == Last(open')
               within(limit, S) == SumFunctionOnSet([p \in S |-> p.notional], S) <= Percent(limit, book.equity)
           IN  /\ within(Config.maxPortfolio, held)
               /\ within(Config.maxChain, {p \in held : p.chain = new.chain})
               /\ \A n \in new.narratives \ {"meme"} :
                    within(Config.maxNarrative, {p \in held : n \in p.narratives})
<1>1. Next
  BY DEF vars
<1>2. PICK x : open' = Append(open, x) /\ Fits(x)
  BY <1>1, EnteringIsEntry
<1> DEFINE m == Len(open)
<1>3. /\ m \in Nat /\ DOMAIN open = 1..m /\ DOMAIN open' = 1..m + 1 /\ Len(open') = m + 1
      /\ open'[m + 1] = x
      /\ \A i \in 1..m : open'[i] = open[i]
  BY <1>2, Appended DEF PortfolioInv, PositionsOK
<1>4. Last(open') = x
  BY <1>3 DEF Last
<1>5. Range(open') = Range(open) \union {x}
  <2>1. Range(open) = {open[i] : i \in 1..m} /\ Range(open') = {open'[i] : i \in 1..m + 1}
    BY <1>3 DEF Range
  <2>2. /\ \A i \in 1..m + 1 : i \in 1..m \/ i = m + 1
        /\ 1..m \subseteq 1..m + 1 /\ m + 1 \in 1..m + 1
    BY <1>3
  <2> QED
    BY <1>3, <2>1, <2>2
<1>6. /\ Held(Range(open')) <= Percent(Config.maxPortfolio, book.equity)
      /\ Held({p \in Range(open') : p.chain = Last(open').chain}) <= Percent(Config.maxChain, book.equity)
      /\ \A n \in Last(open').narratives \ {"meme"} :
           Held({p \in Range(open') : n \in p.narratives}) <= Percent(Config.maxNarrative, book.equity)
  BY <1>2, <1>4, <1>5 DEF Fits
<1> QED
  BY <1>6, Zenon DEF Held

\* Every entry, of a replay or of a backtest, leaves what is open within the
\* limits of the portfolio, of its chain and of its narratives, for every data
\* set and every configuration (_evaluate_entry, RiskEngine.evaluate).
THEOREM EntriesFit == ReplaySpec => EntriesFitTheLimits
<1>1. Init => PortfolioInv
  BY InitPortfolio
<1>2. PortfolioInv /\ [Next]_vars => PortfolioInv'
  BY PortfolioStep
<1>3. PortfolioInv /\ [Next]_vars =>
        [Entering =>
          LET held == Range(open')
              new  == Last(open')
              within(limit, S) == SumFunctionOnSet([p \in S |-> p.notional], S) <= Percent(limit, book.equity)
          IN  /\ within(Config.maxPortfolio, held)
              /\ within(Config.maxChain, {p \in held : p.chain = new.chain})
              /\ \A n \in new.narratives \ {"meme"} :
                   within(Config.maxNarrative, {p \in held : n \in p.narratives})]_open
  BY StepFits, Zenon
<1> QED
  BY <1>1, <1>2, <1>3, PTL DEF ReplaySpec, EntriesFitTheLimits

\* The two counters of PortfolioState stand for the trades themselves.
LEMMA StepStops ==
    ASSUME PortfolioInv, [Next]_vars, open' # open, Entering, run.mode = "backtest"
    PROVE  LET today  == {i \in DOMAIN trades : (trades[i].t - 1) \div StepsPerDay = (run.t - 1) \div StepsPerDay}
               sum(S) == SumFunctionOnSet([i \in S |-> trades[i].pnl], S)
               n      == Len(trades)
           IN  /\ sum(today) > -Percent(Config.maxDailyLoss, Config.equity + sum(DOMAIN trades))
               /\ n >= Config.maxLosses =>
                    \E i \in (n - Config.maxLosses + 1)..n : trades[i].pnl > 0
<1> DEFINE n == Len(trades)
           d == {i \in DOMAIN trades : (trades[i].t - 1) \div StepsPerDay = (run.t - 1) \div StepsPerDay}
<1>1. Next
  BY DEF vars
<1>2. Allowed /\ run.status = "running" /\ run.phase \in {"assess", "entries"}
  BY <1>1, EnteringIsEntry
<1>3. run.phase = "entries" /\ run.phase # "exits"
  BY <1>2 DEF PortfolioInv, JournalInv, AssessmentIsReplay
<1>4. n \in Nat /\ DOMAIN trades = 1..n
  BY Appended DEF PortfolioInv, TradesOK
<1>5. /\ book.equity = Config.equity + Earned(DOMAIN trades)
      /\ Streak /\ run.day = DayAt(run.t) /\ book.realized = Earned(OfDay(run.day))
  BY <1>2, <1>3, <1>4 DEF PortfolioInv, CountersOK, DayBooked
<1>6. OfDay(run.day) = d
  BY <1>4, <1>5 DEF OfDay, DayAt
<1>7. Earned(d) > -Percent(Config.maxDailyLoss, Config.equity + Earned(DOMAIN trades))
  <2> DEFINE e == Earned(d)
             p == Percent(Config.maxDailyLoss, book.equity)
  <2>1. book.equity \in Int /\ book.realized \in Int /\ book.realized = e
    BY <1>5, <1>6 DEF PortfolioInv, BookOK
  <2>2. p \in Int
    BY <2>1, ConfigTyped, PercentInt
  <2>3. ~(book.realized <= -p)
    BY <1>2 DEF Allowed
  <2>4. p = Percent(Config.maxDailyLoss, Config.equity + Earned(DOMAIN trades))
    BY <1>5
  <2> HIDE DEF e, p
  <2>5. e > -p
    BY <2>1, <2>2, <2>3
  <2> QED
    BY <2>4, <2>5 DEF e
<1>8. ASSUME n >= Config.maxLosses
      PROVE  \E i \in (n - Config.maxLosses + 1)..n : trades[i].pnl > 0
  <2>1. book.losses \in Nat /\ book.losses < Config.maxLosses /\ Config.maxLosses \in Nat
    BY <1>2, ConfigTyped DEF Allowed, PortfolioInv, BookOK
  <2> DEFINE i == n - book.losses
  <2>2. i \in (n - Config.maxLosses + 1)..n /\ book.losses < n
    BY <1>4, <1>8, <2>1
  <2>3. trades[i].pnl > 0
    BY <1>5, <2>2 DEF Streak
  <2> QED
    BY <2>2, <2>3
<1> QED
  BY <1>7, <1>8, Zenon DEF Earned

\* A backtest enters nothing on a day that lost its limit, nor after the
\* allowed number of losing trades in a row (the counters that _close_trade
\* books and the loop of backtest.run resets, as RiskEngine.evaluate reads them).
THEOREM LossesStop == ReplaySpec => LossesStopEntries
<1>1. Init => PortfolioInv
  BY InitPortfolio
<1>2. PortfolioInv /\ [Next]_vars => PortfolioInv'
  BY PortfolioStep
<1>3. PortfolioInv /\ [Next]_vars =>
        [(Entering /\ run.mode = "backtest") =>
          LET today  == {i \in DOMAIN trades : (trades[i].t - 1) \div StepsPerDay = (run.t - 1) \div StepsPerDay}
              sum(S) == SumFunctionOnSet([i \in S |-> trades[i].pnl], S)
              n      == Len(trades)
          IN  /\ sum(today) > -Percent(Config.maxDailyLoss, Config.equity + sum(DOMAIN trades))
              /\ n >= Config.maxLosses =>
                   \E i \in (n - Config.maxLosses + 1)..n : trades[i].pnl > 0]_open
  BY StepStops, Zenon
<1> QED
  BY <1>1, <1>2, <1>3, PTL DEF ReplaySpec, LossesStopEntries
=============================================================================

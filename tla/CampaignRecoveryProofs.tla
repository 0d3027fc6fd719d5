---------------------- MODULE CampaignRecoveryProofs ----------------------
(***************************************************************************)
(* What holds of the campaign journals and the orders for every number of  *)
(* intents, crashes, queued deals and batch sizes, whatever the broker and *)
(* its history do.                                                         *)
(*                                                                         *)
(*   Intents: the journal is written ahead of the order, a refusal is      *)
(*   never false, and IntentBook is implemented.                           *)
(*   Deals: a deal is journaled once and keeps its attribution, and none   *)
(*   is dropped while entries are allowed.                                 *)
(*   Entries: when an order leaves, every entry deal the EA could know of  *)
(*   is journaled under a campaign.                                        *)
(*   Causes: every journaled campaign is the cause of its deal.            *)
(*                                                                         *)
(* What a theorem assumes of the constants is a hypothesis of it, not a    *)
(* fact about the code.  Without NoOpenRows TLC finds an order sent under  *)
(* a row that no restart can read, without Distinguishable an intent bound *)
(* to the order of another one, without Synced a deal that Replay has not  *)
(* seen, without Prompt the fill of one order netted into the position of  *)
(* another.                                                                *)
(***************************************************************************)
EXTENDS CampaignRecovery, SequenceTheorems, WellFoundedInduction, FiniteSetTheorems, TLAPS

-----------------------------------------------------------------------------
(* The intents.                                                            *)

\* A short write never leaves a row that lacks its terminator only.
NoOpenRows == Short \subseteq {"nothing", "torn"}

\* No two orders have the same side, volume, stop and time.
Distinguishable == \A i \in Intent : Alike[i] = {i}

-----------------------------------------------------------------------------
(* The inductive invariant.                                                *)

IntentTypeOK ==
    /\ intentFile \in File(IntentStates) /\ intents \in IntentStates
    /\ intentsReady \in BOOLEAN
    /\ order \in [Intent -> {"none", "sent", "filled", "rejected"}]
    /\ pc \in {"send", "wait", "record"} => current \in Intent

\* An open journal is the memory of the EA, row by row.
MemoryIsFile ==
    /\ intentFile.tail # "open"
    /\ intentsReady => intentFile.tail = "clean" /\ intents = intentFile.state

\* What the EA is about to send is prepared and has not left; what it waits for
\* has.
AttemptIsPrepared ==
    /\ pc = "send" => /\ intentsReady /\ intents[current].status = "prepared"
                      /\ order[current] = "none"
    /\ pc = "wait" => order[current] # "none"

SentIsRecorded == \A i \in Intent : order[i] # "none" => intentFile.state[i].status # "none"

\* The history shows the end of an order only when it has ended.
HistoryIsTrue ==
    \A i \in Intent :
        /\ Order(i) \notin made
        /\ Order(i) \in history => order[i] \in {"filled", "rejected"}

WriteAhead ==
    /\ IntentTypeOK /\ MemoryIsFile /\ AttemptIsPrepared
    /\ SentIsRecorded /\ HistoryIsTrue /\ RejectedIsRefused

-----------------------------------------------------------------------------
(* Writing a row.                                                          *)

IntentRow == [status : Statuses, order : Intent \union {None}]

\* A row is written whole, or nothing that counts is.
LEMMA IntentIsWrittenOrNot ==
    ASSUME NoOpenRows, intentFile \in File(IntentStates), intentFile.tail = "clean",
           NEW i \in Intent, NEW row \in IntentRow,
           WriteIntentOf(intentFile.state, i, row)
    PROVE  /\ intentFile' \in File(IntentStates) /\ intents' \in IntentStates
           /\ intentsReady' \in BOOLEAN /\ MemoryIsFile'
           /\ intentFile'.state \in {intentFile.state, [intentFile.state EXCEPT ![i] = row]}
           /\ intentsReady' => intentFile'.state = [intentFile.state EXCEPT ![i] = row]
<1> DEFINE next == [intentFile.state EXCEPT ![i] = row]
<1>1. intentFile.state \in IntentStates /\ next \in IntentStates
  BY DEF File, IntentStates, IntentRow
<1>2. PICK w \in Writes(intentFile, next) :
        /\ intentFile' = w.file
        /\ intentsReady' = w.ok
        /\ intents' = IF w.ok THEN next ELSE intentFile.state
  BY DEF WriteIntentOf
<1> HIDE DEF next
<1>3. CASE w = [file |-> Whole(intentFile, next), ok |-> TRUE]
  <2>1. intentFile' = [state |-> next, tail |-> "clean"] /\ intentsReady' = TRUE /\ intents' = next
    BY <1>2, <1>3 DEF Whole, Empty
  <2>2. QED
    BY <1>1, <2>1 DEF File, MemoryIsFile, next
<1>4. CASE \E cut \in Cut(intentFile, next) : w = [file |-> cut, ok |-> FALSE]
  <2>1. PICK cut \in Cut(intentFile, next) : w = [file |-> cut, ok |-> FALSE]
    BY <1>4
  <2>2. cut \in {intentFile, [intentFile EXCEPT !.tail = "torn"]}
    BY <2>1 DEF Cut, NoOpenRows
  <2>3. intentFile' \in {intentFile, [intentFile EXCEPT !.tail = "torn"]}
        /\ intentsReady' = FALSE /\ intents' = intentFile.state
    BY <1>2, <2>1, <2>2
  <2>4. intentFile'.state = intentFile.state /\ intentFile'.tail \in {"clean", "torn"}
        /\ intentFile' \in File(IntentStates)
    BY <2>3 DEF File
  <2>5. QED
    BY <1>1, <2>3, <2>4 DEF MemoryIsFile
<1>5. QED
  BY <1>2, <1>3, <1>4 DEF Writes

\* What a written row leaves true of the orders.
LEMMA RowKeepsRecords ==
    ASSUME WriteAhead, NoOpenRows, intentFile.tail = "clean",
           NEW i \in Intent, NEW row \in IntentRow,
           row.status # "none", row.status = "rejected" => order[i] = "rejected",
           WriteIntentOf(intentFile.state, i, row), UNCHANGED <<order, history, made>>
    PROVE  /\ intentFile' \in File(IntentStates) /\ intents' \in IntentStates
           /\ intentsReady' \in BOOLEAN /\ order' = order
           /\ MemoryIsFile' /\ SentIsRecorded' /\ HistoryIsTrue' /\ RejectedIsRefused'
<1>1. /\ intentFile' \in File(IntentStates) /\ intents' \in IntentStates
      /\ intentsReady' \in BOOLEAN /\ MemoryIsFile'
      /\ intentFile'.state \in {intentFile.state, [intentFile.state EXCEPT ![i] = row]}
  BY IntentIsWrittenOrNot DEF WriteAhead, IntentTypeOK
<1>2. intentFile.state \in [Intent -> IntentRow]
  BY DEF WriteAhead, IntentTypeOK, File, IntentStates, IntentRow
<1>3. \A j \in Intent : \/ intentFile'.state[j] = intentFile.state[j]
                        \/ (j = i /\ intentFile'.state[j] = row)
  BY <1>1, <1>2
<1>4. SentIsRecorded' /\ RejectedIsRefused'
  BY <1>3 DEF WriteAhead, SentIsRecorded, RejectedIsRefused
<1>5. HistoryIsTrue'
  BY DEF WriteAhead, HistoryIsTrue, Order
<1>6. QED
  BY <1>1, <1>4, <1>5

-----------------------------------------------------------------------------
(* The abstract book.                                                      *)

PromisedStep == [Promised!BookNext]_(Promised!bookVars)

\* A step that touches neither the file nor the orders says nothing to the book.
LEMMA BookStutters ==
    ASSUME intentFile'.state = intentFile.state,
           \A i \in Intent : (order'[i] # "none") <=> (order[i] # "none")
    PROVE  PromisedStep
  BY DEF PromisedStep, Promised!bookVars

\* The row of an intent whose order has left resolves it.
LEMMA RowResolves ==
    ASSUME WriteAhead, NoOpenRows, intentFile.tail = "clean",
           NEW i \in Intent, NEW row \in IntentRow,
           intentFile.state[i].status = "prepared", order[i] # "none",
           row.status \in {"bound", "rejected"},
           WriteIntentOf(intentFile.state, i, row), order' = order
    PROVE  PromisedStep
<1>1. intentFile'.state \in {intentFile.state, [intentFile.state EXCEPT ![i] = row]}
  BY IntentIsWrittenOrNot DEF WriteAhead, IntentTypeOK
<1>2. intentFile.state \in [Intent -> IntentRow]
  BY DEF WriteAhead, IntentTypeOK, File, IntentStates, IntentRow
<1>3. CASE intentFile'.state = intentFile.state
  BY <1>3, BookStutters
<1>4. CASE intentFile'.state = [intentFile.state EXCEPT ![i] = row]
  <2>1. Promised!Resolve(i, row.status)
    BY <1>2, <1>4 DEF Promised!Resolve, Promised!Unresolved
  <2>2. QED
    BY <2>1 DEF PromisedStep, Promised!BookNext
<1>5. QED
  BY <1>1, <1>3, <1>4

-----------------------------------------------------------------------------
(* Every step keeps the invariant and is a step of the book or a stutter.  *)

Kept == WriteAhead' /\ PromisedStep

LEMMA QuietStep ==
    ASSUME WriteAhead, UNCHANGED <<intentVars, order, history>>,
           \A i \in Intent : Order(i) \notin made',
           \/ pc' = pc /\ current' = current
           \/ pc' \notin {"send", "wait"} /\ (pc' = "record" => current' \in Intent)
    PROVE  Kept
<1>1. IntentTypeOK' /\ MemoryIsFile' /\ SentIsRecorded' /\ RejectedIsRefused'
  BY DEF WriteAhead, IntentTypeOK, MemoryIsFile, SentIsRecorded, RejectedIsRefused, intentVars
<1>2. AttemptIsPrepared'
  BY DEF WriteAhead, AttemptIsPrepared, intentVars
<1>3. HistoryIsTrue'
  BY DEF WriteAhead, HistoryIsTrue, Order
<1>4. PromisedStep
  BY BookStutters DEF intentVars
<1>5. QED
  BY <1>1, <1>2, <1>3, <1>4 DEF Kept, WriteAhead

LEMMA EnterStep ==
    ASSUME WriteAhead, NoOpenRows, NEW i \in Intent, Enter(i)
    PROVE  Kept
<1>1. /\ intentFile.tail = "clean" /\ intents = intentFile.state
      /\ intents[i].status = "none" /\ Prepared(intents) = {}
      /\ WriteIntentOf(intentFile.state, i, PreparedRow)
      /\ UNCHANGED <<order, history, made>>
  BY DEF Enter, EntryAllowed, CreateIntent, WriteIntent, WriteAhead, MemoryIsFile, brokerVars
<1>2. PreparedRow \in IntentRow /\ PreparedRow.status = "prepared"
  BY DEF PreparedRow, IntentRow, Statuses
<1>3. /\ intentFile' \in File(IntentStates) /\ intents' \in IntentStates
      /\ intentsReady' \in BOOLEAN /\ order' = order
      /\ MemoryIsFile' /\ SentIsRecorded' /\ HistoryIsTrue' /\ RejectedIsRefused'
  BY <1>1, <1>2, RowKeepsRecords
<1>4. /\ intentFile'.state \in {intentFile.state, [intentFile.state EXCEPT ![i] = PreparedRow]}
      /\ intentsReady' => intentFile'.state = [intentFile.state EXCEPT ![i] = PreparedRow]
  BY <1>1, <1>2, IntentIsWrittenOrNot DEF WriteAhead, IntentTypeOK
<1>5. intentFile.state \in [Intent -> IntentRow] /\ order[i] = "none"
  BY <1>1 DEF WriteAhead, IntentTypeOK, File, IntentStates, IntentRow, SentIsRecorded
<1>6. AttemptIsPrepared' /\ IntentTypeOK'
  <2>1. CASE intentsReady'
    <3>1. pc' = "send" /\ current' = i
      BY <2>1 DEF Enter
    <3>2. intents'[i].status = "prepared"
      BY <1>2, <1>3, <1>4, <1>5, <2>1 DEF MemoryIsFile
    <3>3. QED
      BY <1>3, <1>5, <2>1, <3>1, <3>2 DEF AttemptIsPrepared, IntentTypeOK, WriteAhead
  <2>2. CASE ~intentsReady'
    <3>1. pc' = "idle"
      BY <2>2 DEF Enter
    <3>2. QED
      BY <1>3, <3>1 DEF AttemptIsPrepared, IntentTypeOK, WriteAhead
  <2>3. QED
    BY <2>1, <2>2
<1>7. PromisedStep
  <2>1. CASE intentFile'.state = intentFile.state
    BY <1>3, <2>1, BookStutters
  <2>2. CASE intentFile'.state = [intentFile.state EXCEPT ![i] = PreparedRow]
    <3>1. Promised!Prepare(i)
      BY <1>1, <1>2, <1>3, <1>5, <2>2 DEF Promised!Prepare, Promised!Unresolved, Prepared
    <3>2. QED
      BY <3>1 DEF PromisedStep, Promised!BookNext
  <2>3. QED
    BY <1>4, <2>1, <2>2
<1>8. QED
  BY <1>3, <1>6, <1>7 DEF Kept, WriteAhead

LEMMA SendStep ==
    ASSUME WriteAhead, Send
    PROVE  Kept
<1>1. /\ pc = "send" /\ pc' = "wait" /\ current' = current /\ current \in Intent
      /\ order' = [order EXCEPT ![current] = "sent"] /\ order[current] = "none"
      /\ UNCHANGED <<intentFile, intents, intentsReady, made, history>>
      /\ intentsReady /\ intents[current].status = "prepared"
  BY DEF Send, WriteAhead, IntentTypeOK, AttemptIsPrepared, intentVars
<1>2. order \in [Intent -> {"none", "sent", "filled", "rejected"}]
      /\ intents = intentFile.state
  BY <1>1 DEF WriteAhead, IntentTypeOK, MemoryIsFile
<1>3. order'[current] = "sent" /\ \A i \in Intent \ {current} : order'[i] = order[i]
  BY <1>1, <1>2
<1>4. IntentTypeOK' /\ MemoryIsFile' /\ AttemptIsPrepared'
  BY <1>1, <1>2, <1>3 DEF WriteAhead, IntentTypeOK, MemoryIsFile, AttemptIsPrepared
<1>5. SentIsRecorded' /\ RejectedIsRefused'
  BY <1>1, <1>2, <1>3 DEF WriteAhead, SentIsRecorded, RejectedIsRefused
<1>6. HistoryIsTrue'
  BY <1>1, <1>3 DEF WriteAhead, HistoryIsTrue, Order
<1>7. PICK i \in Intent : i = current
  BY <1>1
<1>8. PromisedStep
  <2>1. Promised!Submit(i)
    BY <1>1, <1>2, <1>3, <1>7 DEF Promised!Submit, Promised!Unresolved
  <2>2. QED
    BY <2>1 DEF PromisedStep, Promised!BookNext
<1>9. QED
  BY <1>4, <1>5, <1>6, <1>8 DEF Kept, WriteAhead

\* A row that resolves an intent whose order has left.
LEMMA ResolvingStep ==
    ASSUME WriteAhead, NoOpenRows, intentFile.tail = "clean",
           NEW i \in Intent, NEW row \in IntentRow,
           intentFile.state[i].status = "prepared", order[i] # "none",
           row.status \in {"bound", "rejected"},
           row.status = "rejected" => order[i] = "rejected",
           WriteIntentOf(intentFile.state, i, row), UNCHANGED <<order, history, made>>,
           pc' \notin {"send", "wait"}, pc' = "record" => current' \in Intent
    PROVE  Kept
<1>1. /\ intentFile' \in File(IntentStates) /\ intents' \in IntentStates
      /\ intentsReady' \in BOOLEAN /\ order' = order
      /\ MemoryIsFile' /\ SentIsRecorded' /\ HistoryIsTrue' /\ RejectedIsRefused'
  BY RowKeepsRecords
<1>2. IntentTypeOK' /\ AttemptIsPrepared'
  BY <1>1 DEF WriteAhead, IntentTypeOK, AttemptIsPrepared
<1>3. PromisedStep
  BY RowResolves
<1>4. QED
  BY <1>1, <1>2, <1>3 DEF Kept, WriteAhead

LEMMA ReturnStep ==
    ASSUME WriteAhead, NoOpenRows, Return
    PROVE  Kept
<1>1. /\ current \in Intent /\ order[current] # "none"
      /\ UNCHANGED <<order, history, made>>
      /\ pc' \in {"idle", "record"} /\ (pc' = "record" => current' = current)
  BY DEF Return, Answer, WriteAhead, IntentTypeOK, AttemptIsPrepared, brokerVars
<1>2. PICK confirmed, ticket, refused \in BOOLEAN : Answer(confirmed, ticket, refused)
  BY DEF Return
<1>3. CASE BindOrder(current, current)
  <2>1. /\ intentFile.tail = "clean" /\ intentFile.state[current].status = "prepared"
        /\ WriteIntentOf(intentFile.state, current, BoundRow(current))
    BY <1>3 DEF BindOrder, WriteIntent, Prepared, WriteAhead, MemoryIsFile
  <2>2. BoundRow(current) \in IntentRow /\ BoundRow(current).status = "bound"
    BY <1>1 DEF BoundRow, IntentRow, Statuses
  <2>3. QED
    BY <1>1, <2>1, <2>2, ResolvingStep
<1>4. CASE refused /\ RejectIntent(current)
  <2>1. /\ intentFile.tail = "clean" /\ intentFile.state[current].status = "prepared"
        /\ WriteIntentOf(intentFile.state, current, RejectedRow)
    BY <1>4 DEF RejectIntent, WriteIntent, Prepared, WriteAhead, MemoryIsFile
  <2>2. RejectedRow \in IntentRow /\ RejectedRow.status = "rejected"
    BY DEF RejectedRow, IntentRow, Statuses
  <2>3. order[current] = "rejected"
    BY <1>2, <1>4 DEF Answer
  <2>4. QED
    BY <1>1, <2>1, <2>2, <2>3, ResolvingStep
<1>5. CASE UNCHANGED intentVars
  <2>1. \A i \in Intent : Order(i) \notin made'
    BY <1>1 DEF WriteAhead, HistoryIsTrue, Order
  <2>2. QED
    BY <1>1, <1>5, <2>1, QuietStep
<1>6. QED
  BY <1>2, <1>3, <1>4, <1>5 DEF Answer

\* A token in the history belongs to an order that has ended, and the row says how.
LEMMA TokenTells ==
    ASSUME WriteAhead, NEW i \in Intent, TokenMatch(i)
    PROVE  /\ order[i] \in {"filled", "rejected"}
           /\ TokenRow(i) \in IntentRow /\ TokenRow(i).status \in {"bound", "rejected"}
           /\ TokenRow(i).status = "rejected" => order[i] = "rejected"
<1>1. order[i] \in {"filled", "rejected"}
  BY DEF TokenMatch, WriteAhead, HistoryIsTrue
<1>2. QED
  BY <1>1 DEF TokenRow, BoundRow, RejectedRow, IntentRow, Statuses

LEMMA TickStep ==
    ASSUME WriteAhead, NoOpenRows, Tick
    PROVE  Kept
<1>1. pc' = "retry" /\ UNCHANGED <<order, history, made>>
  BY DEF Tick, brokerVars
<1>2. CASE UNCHANGED intentVars
  <2>1. \A i \in Intent : Order(i) \notin made'
    BY <1>1 DEF WriteAhead, HistoryIsTrue, Order
  <2>2. QED
    BY <1>1, <1>2, <2>1, QuietStep
<1>3. ASSUME intentsReady, NEW i \in Prepared(intents), TokenMatch(i), WriteIntent(i, TokenRow(i))
      PROVE  Kept
  <2>1. /\ intentFile.tail = "clean" /\ i \in Intent /\ intentFile.state[i].status = "prepared"
        /\ WriteIntentOf(intentFile.state, i, TokenRow(i))
    BY <1>3 DEF WriteIntent, Prepared, WriteAhead, MemoryIsFile
  <2>2. QED
    BY <1>1, <1>3, <2>1, TokenTells, ResolvingStep
<1>4. QED
  BY <1>2, <1>3 DEF Tick, TokenRecovery

LEMMA StartStep ==
    ASSUME WriteAhead, NoOpenRows, Distinguishable, Start
    PROVE  Kept
<1>1. pc' = "replay" /\ UNCHANGED <<order, history, made>>
  BY DEF Start, brokerVars
<1>2. PICK resolved \in BOOLEAN : OpenIntents(resolved)
  BY DEF Start
<1>3. ASSUME Readable(intentFile), NEW i \in Prepared(Loaded),
             NEW row \in Resolution(i), WriteIntentOf(Loaded, i, row)
      PROVE  Kept
  <2>1. /\ intentFile.tail = "clean" /\ i \in Intent /\ intentFile.state[i].status = "prepared"
        /\ WriteIntentOf(intentFile.state, i, row)
    BY <1>3 DEF Readable, Loaded, Prepared, WriteAhead, IntentTypeOK, MemoryIsFile, File
  <2>2. CASE TokenMatch(i)
    <3>1. row = TokenRow(i)
      BY <1>3, <2>2 DEF Resolution
    <3>2. QED
      BY <1>1, <2>1, <2>2, <3>1, TokenTells, ResolvingStep
  <2>3. CASE ~TokenMatch(i)
    <3>1. PICK o \in Matches(i) : row = BoundRow(o)
      BY <1>3, <2>3 DEF Resolution
    <3>2. o = i /\ Order(i) \in history
      BY <2>1, <3>1 DEF Matches, Distinguishable
    <3>3. order[i] # "none"
      BY <2>1, <3>2 DEF WriteAhead, HistoryIsTrue
    <3>4. row \in IntentRow /\ row.status = "bound"
      BY <2>1, <3>1, <3>2 DEF BoundRow, IntentRow, Statuses
    <3>5. QED
      BY <1>1, <2>1, <3>3, <3>4, ResolvingStep
  <2>4. QED
    BY <2>2, <2>3
<1>4. CASE /\ intents' = Loaded
           /\ intentsReady' = Readable(intentFile)
           /\ UNCHANGED intentFile
  <2>1. NoIntents \in IntentStates
    BY DEF NoIntents, Unknown, IntentStates, Statuses
  <2>2. IntentTypeOK' /\ MemoryIsFile'
    BY <1>1, <1>4, <2>1 DEF WriteAhead, IntentTypeOK, MemoryIsFile, Loaded, Readable, File
  <2>3. AttemptIsPrepared' /\ SentIsRecorded' /\ RejectedIsRefused' /\ HistoryIsTrue'
    BY <1>1, <1>4 DEF WriteAhead, AttemptIsPrepared, SentIsRecorded, RejectedIsRefused,
                      HistoryIsTrue, Order
  <2>4. PromisedStep
    BY <1>1, <1>4, BookStutters
  <2>5. QED
    BY <2>2, <2>3, <2>4 DEF Kept, WriteAhead
<1>5. QED
  BY <1>2, <1>3, <1>4 DEF OpenIntents

\* The broker decides an order that has left.
LEMMA DecideStep ==
    ASSUME WriteAhead, NEW i \in Intent, Fill(i) \/ Reject(i)
    PROVE  Kept
<1>1. /\ order[i] = "sent" /\ UNCHANGED <<intentFile, intents, intentsReady, pc, current, history>>
      /\ \/ order' = [order EXCEPT ![i] = "filled"]
         \/ order' = [order EXCEPT ![i] = "rejected"]
      /\ made' \subseteq made \union {<<i, "in">>}
  BY DEF Fill, Reject, Add, intentVars, eaVars
<1>2. /\ order \in [Intent -> {"none", "sent", "filled", "rejected"}]
      /\ order' \in [Intent -> {"none", "sent", "filled", "rejected"}]
      /\ order'[i] \in {"filled", "rejected"}
      /\ \A j \in Intent \ {i} : order'[j] = order[j]
  BY <1>1 DEF WriteAhead, IntentTypeOK
<1>3. IntentTypeOK' /\ MemoryIsFile' /\ AttemptIsPrepared'
  BY <1>1, <1>2 DEF WriteAhead, IntentTypeOK, MemoryIsFile, AttemptIsPrepared
<1>4. SentIsRecorded' /\ RejectedIsRefused'
  BY <1>1, <1>2 DEF WriteAhead, SentIsRecorded, RejectedIsRefused
<1>5. HistoryIsTrue'
  BY <1>1, <1>2 DEF WriteAhead, HistoryIsTrue, Order
<1>6. PromisedStep
  BY <1>1, <1>2, BookStutters
<1>7. QED
  BY <1>3, <1>4, <1>5, <1>6 DEF Kept, WriteAhead

LEMMA ShowStep ==
    ASSUME WriteAhead, NEW h, Show(h)
    PROVE  Kept
<1>1. /\ h \in made \union Decided /\ history' = history \union {h}
      /\ UNCHANGED <<intentFile, intents, intentsReady, pc, current, order, made>>
  BY DEF Show, intentVars, eaVars
<1>2. \A i \in Intent : Order(i) = h => order[i] \in {"filled", "rejected"}
  BY <1>1 DEF Decided, Order, WriteAhead, HistoryIsTrue
<1>3. HistoryIsTrue'
  BY <1>1, <1>2 DEF WriteAhead, HistoryIsTrue, Order
<1>4. /\ IntentTypeOK' /\ MemoryIsFile' /\ AttemptIsPrepared'
      /\ SentIsRecorded' /\ RejectedIsRefused'
  BY <1>1 DEF WriteAhead, IntentTypeOK, MemoryIsFile, AttemptIsPrepared, SentIsRecorded,
              RejectedIsRefused
<1>5. PromisedStep
  BY <1>1, BookStutters
<1>6. QED
  BY <1>3, <1>4, <1>5 DEF Kept, WriteAhead

LEMMA CrashStep ==
    ASSUME WriteAhead, Crash
    PROVE  Kept
<1>1. /\ pc' = "off" /\ intents' = NoIntents /\ intentsReady' = FALSE
      /\ UNCHANGED <<intentFile, order, history, made>>
  BY DEF Crash, IntentsLost
<1>2. NoIntents \in IntentStates
  BY DEF NoIntents, Unknown, IntentStates, Statuses
<1>3. /\ IntentTypeOK' /\ MemoryIsFile' /\ AttemptIsPrepared'
      /\ SentIsRecorded' /\ RejectedIsRefused' /\ HistoryIsTrue'
  BY <1>1, <1>2 DEF WriteAhead, IntentTypeOK, MemoryIsFile, AttemptIsPrepared, SentIsRecorded,
                    RejectedIsRefused, HistoryIsTrue, Order
<1>4. PromisedStep
  BY <1>1, BookStutters
<1>5. QED
  BY <1>3, <1>4 DEF Kept, WriteAhead

\* No action of the EA, the broker or the terminal breaks the invariant.
LEMMA RecoveryStep ==
    ASSUME NoOpenRows, Distinguishable, WriteAhead, [RecoveryNext]_vars
    PROVE  Kept
<1>1. \A i \in Intent : Order(i) \notin made
  BY DEF WriteAhead, HistoryIsTrue
<1>2. CASE RecordOpenSetup \/ (\E d \in Deal : ReplayDeal(d)) \/ Retry \/ RetryEnds \/ Started
  <2>1. /\ UNCHANGED <<intentVars, order, history, made>>
        /\ \/ pc' = pc /\ current' = current
           \/ pc' \notin {"send", "wait", "record"}
    BY <1>2 DEF RecordOpenSetup, ReplayDeal, Retry, RetryEnds, Started, brokerVars
  <2>2. QED
    BY <1>1, <2>1, QuietStep
<1>3. ASSUME NEW d \in Deal, DealAdd(d) PROVE Kept
  <2>1. UNCHANGED <<intentVars, order, history, made, pc, current>>
    BY <1>3 DEF DealAdd
  <2>2. QED
    BY <1>1, <2>1, QuietStep
<1>4. CASE CloseOut
  <2>1. /\ UNCHANGED <<intentVars, order, history, pc, current>>
        /\ made' = made \union {<<open, "out">>}
    BY <1>4 DEF CloseOut, Add, eaVars
  <2>2. \A i \in Intent : Order(i) \notin made'
    BY <1>1, <2>1 DEF Order
  <2>3. QED
    BY <2>1, <2>2, QuietStep
<1>5. CASE UNCHANGED vars
  <2>1. UNCHANGED <<intentVars, order, history, made, pc, current>>
    BY <1>5 DEF vars, eaVars, brokerVars
  <2>2. QED
    BY <1>1, <2>1, QuietStep
<1>6. QED
  BY <1>2, <1>3, <1>4, <1>5, EnterStep, SendStep, ReturnStep, TickStep, StartStep,
     DecideStep, ShowStep, CrashStep DEF RecoveryNext, Expert, Broker

-----------------------------------------------------------------------------
(* The theorems.                                                           *)

LEMMA WriteAheadInit == RecoveryInit => WriteAhead
<1> SUFFICES ASSUME RecoveryInit PROVE WriteAhead
  OBVIOUS
<1>1. NoIntents \in IntentStates
  BY DEF NoIntents, Unknown, IntentStates, Statuses
<1>2. IntentTypeOK /\ MemoryIsFile
  BY <1>1 DEF RecoveryInit, IntentInit, Empty, IntentTypeOK, MemoryIsFile, File
<1>3. \A i \in Intent : intentFile.state[i].status = "none"
  BY DEF RecoveryInit, IntentInit, Empty, NoIntents, Unknown
<1>4. AttemptIsPrepared /\ SentIsRecorded /\ HistoryIsTrue /\ RejectedIsRefused
  BY <1>3 DEF RecoveryInit, AttemptIsPrepared, SentIsRecorded, HistoryIsTrue, RejectedIsRefused
<1>5. QED
  BY <1>2, <1>4 DEF WriteAhead

\* The journal and what left the terminal agree in every reachable state.
THEOREM JournalIsWrittenAhead ==
    ASSUME NoOpenRows, Distinguishable
    PROVE  Recovery => []WriteAhead
<1>1. WriteAhead /\ [RecoveryNext]_vars => WriteAhead'
  BY RecoveryStep DEF Kept
<1>2. QED
  BY <1>1, WriteAheadInit, PTL DEF Recovery

\* An unconfirmed, timed-out or late order never becomes a false rejection
\* (CampaignIntentJournal.mqh, RejectIntent and ReconcilePreparedOrders).
THEOREM RejectionsAreTrue ==
    ASSUME NoOpenRows, Distinguishable
    PROVE  Recovery => []RejectedIsRefused
<1>1. WriteAhead => RejectedIsRefused
  BY DEF WriteAhead
<1>2. QED
  BY <1>1, JournalIsWrittenAhead, PTL

\* Only Send sends an order.
LEMMA OnlySendSends ==
    ASSUME WriteAhead, RecoveryNext, NEW i \in Intent, order[i] = "none", order'[i] = "sent"
    PROVE  Send /\ i = current
<1>1. order \in [Intent -> {"none", "sent", "filled", "rejected"}]
  BY DEF WriteAhead, IntentTypeOK
<1>2. Send
  BY <1>1 DEF RecoveryNext, Expert, Broker, Enter, Return, RecordOpenSetup, Tick, Retry,
              RetryEnds, Start, Started, ReplayDeal, DealAdd, Fill, Reject, CloseOut, Show,
              Crash, brokerVars
<1>3. i = current
  BY <1>1, <1>2 DEF Send
<1>4. QED
  BY <1>2, <1>3

\* No order leaves that a restart could not read the intent of (AxAttemptEntry).
THEOREM OrdersAreDurable ==
    ASSUME NoOpenRows, Distinguishable
    PROVE  Recovery => DurableBeforeSent
<1>1. WriteAhead /\ [RecoveryNext]_vars =>
        [\A i \in Intent : order[i] = "none" /\ order'[i] = "sent" =>
            Readable(intentFile) /\ intentFile.state[i].status = "prepared"]_vars
  <2> SUFFICES ASSUME WriteAhead, RecoveryNext,
                      NEW i \in Intent, order[i] = "none", order'[i] = "sent"
               PROVE  Readable(intentFile) /\ intentFile.state[i].status = "prepared"
    OBVIOUS
  <2>1. Send /\ i = current
    BY OnlySendSends
  <2>2. QED
    BY <2>1 DEF Send, WriteAhead, AttemptIsPrepared, MemoryIsFile, Readable
<1>2. QED
  BY <1>1, JournalIsWrittenAhead, PTL DEF Recovery, DurableBeforeSent

\* Files, crashes, lost answers, token recovery and Replay implement the book
\* of intents: one unresolved submission, each recorded first, resolved once.
THEOREM RecoveryImplementsBook ==
    ASSUME NoOpenRows, Distinguishable
    PROVE  Recovery => ImplementsIntentBook
<1>1. RecoveryInit => Promised!BookInit
  <2> SUFFICES ASSUME RecoveryInit PROVE Promised!BookInit
    OBVIOUS
  <2>1. \A i \in Intent : intentFile.state[i].status = "none" /\ order[i] = "none"
    BY DEF RecoveryInit, IntentInit, Empty, NoIntents, Unknown
  <2>2. QED
    BY <2>1 DEF Promised!BookInit
<1>2. WriteAhead /\ [RecoveryNext]_vars => [Promised!BookNext]_(Promised!bookVars)
  BY RecoveryStep DEF Kept, PromisedStep
<1>3. QED
  BY <1>1, <1>2, JournalIsWrittenAhead, PTL DEF Recovery, ImplementsIntentBook, Promised!Book

-----------------------------------------------------------------------------
(* The deals.                                                              *)

\* A non-empty set of naturals has a least element, and Min finds it.
LEMMA MinIsLeast ==
    ASSUME NEW S \in SUBSET Nat, S # {}
    PROVE  Min(S) \in S /\ \A n \in S : Min(S) <= n
<1> DEFINE less == {ss \in Nat \X Nat : ss[1] < ss[2]}
<1>1. IsWellFoundedOn(less, Nat)
  BY NatLessThanWellFounded DEF OpToRel
<1>2. \E x \in S : \A y \in S : ~ (<<y, x>> \in less)
  <2> HIDE DEF less
  <2>1. QED
    BY <1>1, WFMin
<1>3. \E x \in S : \A y \in S : x <= y
  <2>1. \A x, y \in Nat : <<y, x>> \in less <=> y < x
    BY SMT
  <2> HIDE DEF less
  <2>2. PICK x \in S : \A y \in S : ~ (<<y, x>> \in less)
    BY <1>2
  <2>3. \A y \in S : ~ (y < x)
    BY <2>1, <2>2
  <2>4. QED
    BY <2>3
<1>4. QED
  BY <1>3 DEF Min

Campaign == Intent \union {None}

Once(rows) == \A m, n \in DOMAIN rows : rows[m].deal = rows[n].deal => m = n

\* What may become of a journal: rows are added and given a campaign, no more.
Grows(old, new) ==
    /\ Len(old) <= Len(new)
    /\ \A n \in DOMAIN old : /\ new[n].deal = old[n].deal
                             /\ old[n].campaign # None => new[n] = old[n]

LEMMA JournaledRows ==
    ASSUME NEW rows \in Seq(Row), NEW d
    PROVE  d \in Journaled(rows) <=> \E n \in DOMAIN rows : rows[n].deal = d
  BY DEF Journaled, ToSet

\* Noting a deal keeps the rows, adds at most one, and has the deal.
LEMMA NotedGrows ==
    ASSUME NEW rows \in Seq(Row), NEW d \in Deal, NEW c \in Campaign, NEW k \in Key
    PROVE  /\ Noted(rows, d, c, k) \in Seq(Row)
           /\ Once(rows) => Once(Noted(rows, d, c, k))
           /\ Grows(rows, Noted(rows, d, c, k))
           /\ Journaled(Noted(rows, d, c, k)) = Journaled(rows) \union {d}
<1> DEFINE row == [deal |-> d, campaign |-> c, key |-> k]
<1>1a. row \in Row
  BY DEF Row, Campaign, Key
<1>1. /\ row \in Row /\ DOMAIN rows = 1..Len(rows) /\ Len(rows) \in Nat
      /\ \A n \in 1..Len(rows) : rows[n] \in Row
  BY <1>1a
<1>2. CASE d \notin Journaled(rows)
  <2> DEFINE new == Append(rows, row)
  <2>1. Noted(rows, d, c, k) = new
    BY <1>2 DEF Noted
  <2>2. /\ new \in Seq(Row) /\ Len(new) = Len(rows) + 1
        /\ \A n \in 1..Len(rows) : new[n] = rows[n]
        /\ new[Len(rows) + 1] = row
    BY <1>1, AppendProperties
  <2>3. DOMAIN new = 1..(Len(rows) + 1)
    BY <2>2
  <2> HIDE DEF new
  <2>4. \A n \in 1..Len(rows) : rows[n].deal # d
    BY <1>1, <1>2, JournaledRows
  <2>5. Grows(rows, new)
    BY <1>1, <2>2 DEF Grows
  <2>6. Once(rows) => Once(new)
    BY <1>1, <2>2, <2>3, <2>4 DEF Once
  <2>7. Journaled(new) = Journaled(rows) \union {d}
    <3>1. \A e : e \in Journaled(new) <=> \E n \in 1..(Len(rows) + 1) : new[n].deal = e
      BY <2>2, <2>3, JournaledRows
    <3>2. \A e : e \in Journaled(rows) <=> \E n \in 1..Len(rows) : rows[n].deal = e
      BY <1>1, JournaledRows
    <3>3. \A n \in 1..(Len(rows) + 1) : n \in 1..Len(rows) \/ n = Len(rows) + 1
      BY <1>1
    <3>4. \A n \in 1..Len(rows) : n \in 1..(Len(rows) + 1)
      BY <1>1
    <3>5. Len(rows) + 1 \in 1..(Len(rows) + 1)
      BY <1>1
    <3>6. \A e : e \in Journaled(new) <=> e \in Journaled(rows) \/ e = d
      BY <2>2, <3>1, <3>2, <3>3, <3>4, <3>5
    <3>7. QED
      BY <3>6
  <2>8. QED
    BY <2>1, <2>2, <2>5, <2>6, <2>7
<1>3. CASE d \in Journaled(rows)
  <2> DEFINE new == [n \in DOMAIN rows |->
                       IF rows[n].deal = d /\ rows[n].campaign = None
                       THEN [rows[n] EXCEPT !.campaign = c, !.key = k] ELSE rows[n]]
  <2>1. Noted(rows, d, c, k) = new
    BY <1>3 DEF Noted
  <2>2. \A n \in 1..Len(rows) :
          /\ new[n] \in Row /\ new[n].deal = rows[n].deal
          /\ rows[n].campaign # None => new[n] = rows[n]
    BY <1>1 DEF Row, Campaign
  <2>2a. new = [n \in 1..Len(rows) |-> new[n]]
    BY <1>1
  <2> HIDE DEF new
  <2>2b. new \in [1..Len(rows) -> Row]
    BY <2>2, <2>2a
  <2>3. new \in Seq(Row) /\ Len(new) = Len(rows) /\ DOMAIN new = 1..Len(rows)
    BY <1>1, <2>2b
  <2>4. Grows(rows, new)
    BY <1>1, <2>2, <2>3 DEF Grows
  <2>5. Once(rows) => Once(new)
    BY <1>1, <2>2, <2>3 DEF Once
  <2>6. Journaled(new) = Journaled(rows)
    <3>1. \A e : e \in Journaled(new) <=> \E n \in 1..Len(rows) : new[n].deal = e
      BY <2>3, JournaledRows
    <3>2. \A e : e \in Journaled(rows) <=> \E n \in 1..Len(rows) : rows[n].deal = e
      BY <1>1, JournaledRows
    <3>3. \A e : e \in Journaled(new) <=> e \in Journaled(rows)
      BY <2>2, <3>1, <3>2
    <3>4. QED
      BY <3>3
  <2>7. QED
    BY <1>3, <2>1, <2>3, <2>4, <2>5, <2>6
<1>4. QED
  BY <1>2, <1>3

-----------------------------------------------------------------------------
(* Attribution.                                                            *)

\* What the first rule finds that finds anything, if there is one.
LEMMA FirstOfFound ==
    ASSUME NEW n \in Nat, NEW S, NEW found \in [1..n -> SUBSET S]
    PROVE  FirstOf(found) \in S \union {None}
<1> DEFINE hits == {k \in DOMAIN found : found[k] # {}}
<1>1. CASE hits = {}
  BY <1>1 DEF FirstOf
<1>2. CASE hits # {}
  <2>1. hits \in SUBSET Nat
    OBVIOUS
  <2>2. Min(hits) \in hits
    BY <1>2, <2>1, MinIsLeast
  <2>3. found[Min(hits)] # {} /\ found[Min(hits)] \subseteq S
    BY <2>2
  <2>4. FirstOf(found) = CHOOSE c \in found[Min(hits)] : TRUE
    BY <1>2 DEF FirstOf
  <2> HIDE DEF hits
  <2>5. QED
    BY <2>3, <2>4
<1>3. QED
  BY <1>1, <1>2

LEMMA AttributionIsCampaign ==
    ASSUME deals \in Seq(Row), NEW d \in Deal
    PROVE  /\ Attribution(d) \in Campaign /\ ReplayAttribution(d) \in Campaign
           /\ KeyOf(d) \in Key /\ ReplayKey(d) \in Key
<1>1. ByOrder(d) \subseteq Intent
  BY DEF ByOrder, IntentOfOrder
<1>2. SetupOf(PositionOf(d)) \subseteq Intent
  BY DEF SetupOf
<1>3. ByPosition(d) \subseteq Intent /\ KeyAt(PositionRows(d)) \subseteq Key
  <2> DEFINE rows == PositionRows(d)
  <2>1. /\ ByPosition(d) = IF rows = {} THEN {} ELSE {deals[Min(rows)].campaign}
        /\ KeyAt(rows) = IF rows = {} THEN {} ELSE {deals[Min(rows)].key}
    BY DEF ByPosition, CampaignAt, KeyAt
  <2>2. \A n \in rows : n \in Nat /\ deals[n] \in Row /\ deals[n].campaign # None
    BY DEF PositionRows
  <2> HIDE DEF rows
  <2>3. rows # {} => Min(rows) \in rows
    BY <2>2, MinIsLeast
  <2>4. \A n \in rows : deals[n].campaign \in Intent /\ deals[n].key \in Key
    BY <2>2 DEF Row
  <2>5. rows # {} => deals[Min(rows)].campaign \in Intent /\ deals[Min(rows)].key \in Key
    BY <2>3, <2>4
  <2>6. ByPosition(d) \subseteq Intent
    BY <2>1, <2>5
  <2>7. KeyAt(rows) \subseteq Key
    BY <2>1, <2>5
  <2>8. QED
    BY <2>6, <2>7 DEF rows
<1>4. FirstOf(<<ByOrder(d), SetupOf(PositionOf(d)), ByPosition(d)>>) \in Campaign
  <2>1. <<ByOrder(d), SetupOf(PositionOf(d)), ByPosition(d)>> \in [1..3 -> SUBSET Intent]
    BY <1>1, <1>2, <1>3
  <2>2. QED
    BY <2>1, FirstOfFound DEF Campaign
<1>5. FirstOf(<<ReplayOrder(d), SetupOf(PositionOf(d))>>) \in Campaign
  <2>1. <<ReplayOrder(d), SetupOf(PositionOf(d))>> \in [1..2 -> SUBSET Intent]
    BY <1>1, <1>2 DEF ReplayOrder
  <2>2. QED
    BY <2>1, FirstOfFound DEF Campaign
<1>6. None \in Key /\ \A found : KeyBy(found, "signal") \subseteq Key /\ KeyBy(found, "setup") \subseteq Key
  BY DEF KeyBy, Key
<1>7. KeyOf(d) \in Key
  <2>1. <<KeyBy(ByOrder(d), "signal"), KeyBy(SetupOf(PositionOf(d)), "setup"), KeyAt(PositionRows(d))>>
          \in [1..3 -> SUBSET Key]
    BY <1>3, <1>6
  <2>2. QED
    BY <1>6, <2>1, FirstOfFound DEF KeyOf
<1>8. ReplayKey(d) \in Key
  <2>1. <<KeyBy(ReplayOrder(d), "signal"), KeyBy(SetupOf(PositionOf(d)), "setup")>>
          \in [1..2 -> SUBSET Key]
    BY <1>6
  <2>2. QED
    BY <1>6, <2>1, FirstOfFound DEF ReplayKey
<1>9. QED
  BY <1>4, <1>5, <1>7, <1>8 DEF Attribution, ReplayAttribution

-----------------------------------------------------------------------------
(* The journal.                                                            *)

\* An open journal is the memory of the EA as long as its file can be read.
DealMemoryIsFile == dealsReady /\ Readable(dealFile) => deals = dealFile.state

DealJournalOK ==
    /\ dealFile \in File(Seq(Row)) /\ deals \in Seq(Row) /\ dealsReady \in BOOLEAN
    /\ DealMemoryIsFile /\ Once(dealFile.state)

\* A row reaches the file, or the file does not change for a later reader.
LEMMA DealIsWritten ==
    ASSUME DealJournalOK, dealsReady, NEW d \in Deal, NEW c \in Campaign, NEW k \in Key,
           AppendDeal(d, c, k)
    PROVE  /\ DealJournalOK'
           /\ dealFile'.state \in {dealFile.state, Noted(dealFile.state, d, c, k)}
           /\ NoOpenRows /\ dealFile.tail = "clean" => 
                /\ dealFile'.tail # "open"
                /\ dealsReady' => /\ dealFile'.tail = "clean"
                                  /\ dealFile'.state = Noted(dealFile.state, d, c, k)
<1> DEFINE noted == Noted(deals, d, c, k)
<1>1. /\ noted \in Seq(Row) /\ (Once(deals) => Once(noted))
      /\ d \in Journaled(noted)
  BY NotedGrows DEF DealJournalOK
<1>2. CASE noted = deals
  <2>1. UNCHANGED <<dealFile, deals, dealsReady>>
    BY <1>2 DEF AppendDeal, dealVars
  <2>2. DealJournalOK'
    BY <2>1 DEF DealJournalOK, DealMemoryIsFile
  <2>3. QED
    BY <1>1, <1>2, <2>1, <2>2 DEF DealJournalOK, DealMemoryIsFile, Readable
<1>3. CASE noted # deals
  <2>1. PICK w \in Writes(dealFile, noted) :
          /\ dealFile' = w.file
          /\ dealsReady' = w.ok
          /\ deals' = IF w.ok THEN noted ELSE deals
    BY <1>3 DEF AppendDeal
  <2>2. dealFile.tail \in {"clean", "open", "torn"} /\ dealFile.state \in Seq(Row)
    BY DEF DealJournalOK, File
  <2>3. dealFile.tail # "torn" => deals = dealFile.state
    BY DEF DealJournalOK, DealMemoryIsFile, Readable
  <2> HIDE DEF noted
  <2>4. CASE w = [file |-> Whole(dealFile, noted), ok |-> TRUE]
    <3>1. dealFile' = Whole(dealFile, noted) /\ dealsReady' = TRUE /\ deals' = noted
      BY <2>1, <2>4
    <3>2. CASE dealFile.tail = "clean"
      <4>1. dealFile' = [state |-> noted, tail |-> "clean"]
        BY <3>1, <3>2 DEF Whole, Empty
      <4>2. DealJournalOK'
        BY <1>1, <2>3, <3>1, <3>2, <4>1 DEF DealJournalOK, DealMemoryIsFile, File
      <4>3. noted = Noted(dealFile.state, d, c, k)
        BY <2>3, <3>2 DEF noted
      <4>4. QED
        BY <1>1, <4>1, <4>2, <4>3
    <3>3. CASE dealFile.tail # "clean"
      <4>1. dealFile' = [dealFile EXCEPT !.tail = "torn"]
        BY <3>1, <3>3 DEF Whole
      <4>2. dealFile'.state = dealFile.state /\ dealFile'.tail = "torn"
            /\ dealFile' \in File(Seq(Row))
        BY <2>2, <4>1 DEF DealJournalOK, File
      <4>3. DealJournalOK'
        BY <1>1, <3>1, <4>2 DEF DealJournalOK, DealMemoryIsFile, Readable
      <4>4. QED
        BY <3>3, <4>2, <4>3
    <3>4. QED
      BY <3>2, <3>3
  <2>5. CASE \E cut \in Cut(dealFile, noted) : w = [file |-> cut, ok |-> FALSE]
    <3>1. PICK cut \in Cut(dealFile, noted) : w = [file |-> cut, ok |-> FALSE]
      BY <2>5
    <3>2. dealFile' = cut /\ dealsReady' = FALSE /\ deals' = deals
      BY <2>1, <3>1
    <3>3. CASE cut \in {dealFile, [dealFile EXCEPT !.tail = "torn"]}
      <4>1. /\ dealFile'.state = dealFile.state /\ dealFile' \in File(Seq(Row))
            /\ dealFile'.tail \in {dealFile.tail, "torn"}
        BY <2>2, <3>2, <3>3 DEF DealJournalOK, File
      <4>2. DealJournalOK'
        BY <3>2, <4>1 DEF DealJournalOK, DealMemoryIsFile
      <4>3. QED
        BY <3>2, <4>1, <4>2
    <3>4. CASE cut = [state |-> noted, tail |-> "open"] /\ dealFile.tail = "clean" /\ "open" \in Short
      <4>1. dealFile' \in File(Seq(Row)) /\ dealFile'.state = noted
        BY <1>1, <3>2, <3>4 DEF File
      <4>2. DealJournalOK'
        BY <1>1, <2>3, <3>2, <3>4, <4>1 DEF DealJournalOK, DealMemoryIsFile
      <4>3. noted = Noted(dealFile.state, d, c, k)
        BY <2>3, <3>4 DEF noted
      <4>4. ~NoOpenRows
        BY <3>4 DEF NoOpenRows
      <4>5. QED
        BY <4>1, <4>2, <4>3, <4>4
    <3>5. QED
      BY <3>1, <3>3, <3>4 DEF Cut
  <2>6. QED
    BY <2>4, <2>5 DEF Writes
<1>4. QED
  BY <1>2, <1>3

-----------------------------------------------------------------------------
(* The retry queue.                                                        *)

\* Removing a ticket loses no other.
LEMMA RemoveAtKeepsOthers ==
    ASSUME NEW S, NEW seq \in Seq(S), NEW i \in 1..Len(seq)
    PROVE  /\ RemoveAt(seq, i) \in Seq(S)
           /\ ToSet(seq) \subseteq ToSet(RemoveAt(seq, i)) \union {seq[i]}
<1> DEFINE left == SubSeq(seq, 1, i - 1)
           right == SubSeq(seq, i + 1, Len(seq))
           rest == left \o right
<1>1. PICK size \in Nat : size = Len(seq)
  OBVIOUS
<1>2. DOMAIN seq = 1..size /\ i \in 1..size /\ i - 1 \in Nat /\ size - i \in Nat
      /\ \A n \in 1..size : seq[n] \in S
  BY <1>1
<1>3. /\ left \in Seq(S) /\ Len(left) = i - 1
      /\ \A n \in 1..(i - 1) : left[n] = seq[n]
  BY <1>1, <1>2, SubSeqProperties
<1>4. /\ right \in Seq(S) /\ Len(right) = size - i
      /\ \A n \in 1..(size - i) : right[n] = seq[n + i]
  <2>1. /\ right \in Seq(S)
        /\ Len(right) = IF i + 1 <= size THEN size - (i + 1) + 1 ELSE 0
        /\ \A n \in 1..(size - (i + 1) + 1) : right[n] = seq[(i + 1) + n - 1]
    <3>1. i + 1 \in Int /\ size \in Int /\ \A n \in (i + 1)..size : seq[n] \in S
      BY <1>2
    <3> HIDE <1>1
    <3>2. right = SubSeq(seq, i + 1, size)
      BY <1>1
    <3> HIDE DEF right
    <3>3. QED
      BY <3>1, <3>2, SubSeqProperties
  <2> HIDE DEF right
  <2>2. size - (i + 1) + 1 = size - i /\ \A n \in 1..(size - i) : (i + 1) + n - 1 = n + i
    BY <1>2
  <2>3. Len(right) = size - i
    BY <1>2, <2>1
  <2>4. QED
    BY <2>1, <2>2, <2>3
<1>5. RemoveAt(seq, i) = rest
  BY DEF RemoveAt
<1> HIDE DEF left, right
<1>6. /\ rest \in Seq(S) /\ Len(rest) = (i - 1) + (size - i)
      /\ \A n \in 1..((i - 1) + (size - i)) :
           rest[n] = IF n <= i - 1 THEN left[n] ELSE right[n - (i - 1)]
  <2>1. left \in Seq(S) /\ right \in Seq(S)
    BY <1>3, <1>4
  <2>2. /\ rest \in Seq(S) /\ Len(rest) = Len(left) + Len(right)
        /\ \A n \in 1..(Len(left) + Len(right)) :
             rest[n] = IF n <= Len(left) THEN left[n] ELSE right[n - Len(left)]
    BY <2>1, ConcatProperties
  <2> HIDE DEF rest
  <2>3. Len(left) = i - 1 /\ Len(right) = size - i
    BY <1>3, <1>4
  <2>4. QED
    BY <2>2, <2>3
<1> HIDE DEF rest
<1>7. DOMAIN rest = 1..(size - 1)
  BY <1>2, <1>6
<1>8. ASSUME NEW n \in 1..size, n < i PROVE seq[n] \in ToSet(rest)
  <2>1. n \in 1..(i - 1) /\ n \in 1..((i - 1) + (size - i)) /\ n <= i - 1 /\ n \in 1..(size - 1)
    BY <1>2, <1>8
  <2>2. rest[n] = seq[n]
    BY <1>3, <1>6, <2>1
  <2>3. QED
    BY <1>7, <2>1, <2>2 DEF ToSet
<1>9. ASSUME NEW n \in 1..size, n > i PROVE seq[n] \in ToSet(rest)
  <2>1. /\ n - 1 \in 1..((i - 1) + (size - i)) /\ ~(n - 1 <= i - 1) /\ n - 1 \in 1..(size - 1)
        /\ (n - 1) - (i - 1) = n - i /\ n - i \in 1..(size - i) /\ (n - i) + i = n
    BY <1>2, <1>9
  <2>2. rest[n - 1] = seq[n]
    BY <1>4, <1>6, <2>1
  <2>3. QED
    BY <1>7, <2>1, <2>2 DEF ToSet
<1>10. \A n \in DOMAIN seq : seq[n] \in ToSet(rest) \union {seq[i]}
  BY <1>2, <1>8, <1>9
<1>11. ToSet(seq) \subseteq ToSet(rest) \union {seq[i]}
  BY <1>10 DEF ToSet
<1>12. QED
  BY <1>5, <1>6, <1>11

\* Queueing a deal loses none, and has the deal unless the queue is full.
LEMMA QueuedKeepsAll ==
    ASSUME queue \in Seq(Deal), NEW d \in Deal
    PROVE  /\ Queued(d) \in Seq(Deal) /\ ToSet(queue) \subseteq ToSet(Queued(d))
           /\ ~Overflow(d) => d \in ToSet(Queued(d))
<1>1. CASE d \in ToSet(queue) \/ Overflow(d)
  BY <1>1 DEF Queued
<1>2. CASE ~(d \in ToSet(queue) \/ Overflow(d))
  <2> DEFINE longer == Append(queue, d)
  <2>1. Queued(d) = longer
    BY <1>2 DEF Queued
  <2>2. /\ longer \in Seq(Deal) /\ Len(longer) = Len(queue) + 1
        /\ \A n \in 1..Len(queue) : longer[n] = queue[n]
        /\ longer[Len(queue) + 1] = d
    BY AppendProperties
  <2>3. Len(queue) \in Nat /\ DOMAIN queue = 1..Len(queue) /\ DOMAIN longer = 1..(Len(queue) + 1)
    BY <2>2
  <2> HIDE DEF longer
  <2>4. \A n \in 1..Len(queue) : n \in 1..(Len(queue) + 1)
    BY <2>3
  <2>5. ToSet(queue) \subseteq ToSet(longer) /\ d \in ToSet(longer)
    BY <2>2, <2>3, <2>4 DEF ToSet
  <2>6. QED
    BY <2>1, <2>2, <2>5
<1>3. QED
  BY <1>1, <1>2

-----------------------------------------------------------------------------
(* Every step keeps the journal.                                           *)

Books ==
    /\ DealJournalOK
    /\ queue \in Seq(Deal) /\ cursor \in Nat \ {0}
    /\ replaying # {} => pc = "replay" /\ dealsReady

\* What a step may do to the file.
JournalStep ==
    \/ dealFile'.state = dealFile.state
    \/ \E d \in Deal, c \in Campaign, k \in Key : dealFile'.state = Noted(dealFile.state, d, c, k)

CleanDeals == dealFile.tail # "open" /\ (dealsReady => dealFile.tail = "clean")

LEMMA PersistWrites ==
    ASSUME DealJournalOK, NEW d \in Deal, NEW ok \in BOOLEAN, Persist(d, ok)
    PROVE  /\ DealJournalOK' /\ JournalStep
           /\ \/ dealFile'.state = dealFile.state
              \/ Persistable(d) /\ dealFile'.state = Noted(dealFile.state, d, Attribution(d), KeyOf(d))
           /\ NoOpenRows /\ CleanDeals =>
                /\ CleanDeals'
                /\ ok => Persistable(d) /\ dealFile'.state = Noted(dealFile.state, d, Attribution(d), KeyOf(d))
<1>1. CASE Persistable(d) /\ AppendDeal(d, Attribution(d), KeyOf(d)) /\ ok = dealsReady'
  <2>1. dealsReady /\ Attribution(d) \in Campaign /\ KeyOf(d) \in Key
    BY <1>1, AttributionIsCampaign DEF Persistable, DealJournalOK
  <2>2. QED
    BY <1>1, <2>1, DealIsWritten DEF JournalStep, CleanDeals
<1>2. CASE UNCHANGED dealVars /\ ok = FALSE
  BY <1>2 DEF dealVars, DealJournalOK, DealMemoryIsFile, JournalStep, CleanDeals
<1>3. QED
  BY <1>1, <1>2 DEF Persist

\* A deal that is persisted is in the file.
LEMMA PersistedIsJournaled ==
    ASSUME DealJournalOK, NoOpenRows, CleanDeals, NEW d \in Deal, Persist(d, TRUE)
    PROVE  d \in Journaled(dealFile'.state)
<1>1. dealFile'.state = Noted(dealFile.state, d, Attribution(d), KeyOf(d))
  BY PersistWrites
<1>2. dealFile.state \in Seq(Row) /\ Attribution(d) \in Campaign /\ KeyOf(d) \in Key
  BY AttributionIsCampaign DEF DealJournalOK, File
<1>3. QED
  BY <1>1, <1>2, NotedGrows

LEMMA DealStep ==
    ASSUME Books, [RecoveryNext]_vars
    PROVE  Books' /\ JournalStep
<1> DEFINE Quiet == UNCHANGED dealVars
<1>1. ASSUME Quiet PROVE DealJournalOK' /\ JournalStep
  BY <1>1 DEF Books, DealJournalOK, DealMemoryIsFile, JournalStep, dealVars
<1>2. pc # "replay" => replaying = {}
  BY DEF Books
<1>3. CASE \/ Send \/ Return \/ RecordOpenSetup \/ Tick \/ Broker \/ UNCHANGED vars
           \/ \E i \in Intent : Enter(i)
  <2>1. Quiet /\ UNCHANGED <<queue, cursor, replaying>> /\ (pc' = pc \/ pc # "replay")
    BY <1>3 DEF Send, Return, RecordOpenSetup, Tick, Broker, Enter, Fill, Reject, CloseOut, Show,
                vars, eaVars, dealVars
  <2>2. (replaying # {} => pc = "replay" /\ dealsReady)'
    BY <1>2, <2>1 DEF Books, dealVars
  <2> HIDE DEF Quiet
  <2>3. QED
    BY <1>1, <2>1, <2>2 DEF Books
<1>4. CASE RetryEnds \/ Started
  <2>1. Quiet /\ UNCHANGED <<queue, cursor, replaying>> /\ replaying = {}
    BY <1>2, <1>4 DEF RetryEnds, Started, dealVars
  <2> HIDE DEF Quiet
  <2>2. QED
    BY <1>1, <2>1 DEF Books
<1>5. ASSUME NEW d \in Deal, DealAdd(d) PROVE Books' /\ JournalStep
  <2>1. PICK written \in BOOLEAN, full \in BOOLEAN : Persist(d, written) /\ QueueRetry(d, written, full)
    BY <1>5 DEF DealAdd
  <2>2. UNCHANGED <<cursor, replaying>> /\ replaying = {}
    BY <1>2, <1>5 DEF DealAdd
  <2>3. queue' \in Seq(Deal)
    BY <2>1, QueuedKeepsAll DEF QueueRetry, Books
  <2>4. DealJournalOK' /\ JournalStep
    BY <2>1, PersistWrites DEF Books
  <2>5. QED
    BY <2>2, <2>3, <2>4 DEF Books
<1>6. CASE Retry
  <2> DEFINE index == IF cursor > Len(queue) THEN 1 ELSE cursor
  <2>1. PICK written \in BOOLEAN :
          /\ Persist(queue[index], written)
          /\ queue' = IF written THEN RemoveAt(queue, index) ELSE queue
          /\ cursor' = CursorAfter(index, queue', written)
    BY <1>6 DEF Retry
  <2>2. queue # <<>> /\ replaying' = replaying /\ replaying = {}
    BY <1>2, <1>6 DEF Retry, RetryDone
  <2>3. queue \in Seq(Deal) /\ cursor \in Nat \ {0}
    BY DEF Books
  <2>4. Len(queue) \in Nat \ {0} /\ index \in 1..Len(queue)
    BY <2>2, <2>3
  <2>5. queue[index] \in Deal
    BY <2>3, <2>4
  <2> HIDE DEF index
  <2>6. queue' \in Seq(Deal)
    BY <2>1, <2>3, <2>4, RemoveAtKeepsOthers
  <2>7. DealJournalOK' /\ JournalStep
    BY <2>1, <2>5, PersistWrites DEF Books
  <2>8. cursor' \in Nat \ {0}
    <3>1. CASE written
      BY <2>1, <2>4, <3>1 DEF CursorAfter
    <3>2. CASE ~written
      <4>1. cursor' = (index % Len(queue)) + 1
        BY <2>1, <3>2 DEF CursorAfter
      <4>2. index % Len(queue) \in Nat
        BY <2>4
      <4>3. QED
        BY <4>1, <4>2
    <3>3. QED
      BY <3>1, <3>2
  <2>9. QED
    BY <2>2, <2>6, <2>7, <2>8 DEF Books
<1>7. CASE Start
  <2>1. /\ dealsReady' = Readable(dealFile)
        /\ deals' = IF Readable(dealFile) THEN dealFile.state ELSE <<>>
        /\ UNCHANGED <<dealFile, queue, cursor>>
        /\ pc' = "replay"
    BY <1>7 DEF Start, OpenDeals
  <2>2. replaying' # {} => Readable(dealFile)
    BY <1>7 DEF Start
  <2>3. deals' \in Seq(Row) /\ dealsReady' \in BOOLEAN
    BY <2>1 DEF Books, DealJournalOK, File, Readable
  <2>4. QED
    BY <2>1, <2>2, <2>3 DEF Books, DealJournalOK, DealMemoryIsFile, JournalStep, Readable
<1>8. ASSUME NEW d \in Deal, ReplayDeal(d) PROVE Books' /\ JournalStep
  <2> DEFINE c == ReplayAttribution(d)
             k == ReplayKey(d)
  <2>1. /\ dealsReady /\ pc = "replay" /\ pc' = pc /\ UNCHANGED <<queue, cursor>>
        /\ replaying' = IF Conflict(d, c) \/ ~dealsReady' THEN {} ELSE replaying \ {d}
        /\ IF Conflict(d, c) THEN UNCHANGED dealVars ELSE AppendDeal(d, c, k)
    BY <1>8 DEF ReplayDeal, Books
  <2>2. c \in Campaign /\ k \in Key
    BY AttributionIsCampaign DEF Books, DealJournalOK
  <2> HIDE DEF c, k
  <2>3. DealJournalOK' /\ JournalStep
    <3>1. CASE UNCHANGED dealVars
      BY <1>1, <3>1
    <3>2. CASE AppendDeal(d, c, k)
      BY <2>1, <2>2, <3>2, DealIsWritten DEF Books, JournalStep
    <3>3. QED
      BY <2>1, <3>1, <3>2
  <2>4. QED
    BY <2>1, <2>3 DEF Books
<1>9. CASE Crash
  <2>1. /\ UNCHANGED dealFile /\ deals' = <<>> /\ dealsReady' = FALSE
        /\ queue' = <<>> /\ cursor' = 1 /\ replaying' = {}
    BY <1>9 DEF Crash, DealsLost
  <2>2. deals' \in Seq(Row) /\ queue' \in Seq(Deal) /\ cursor' \in Nat \ {0}
    BY <2>1
  <2>3. DealJournalOK' /\ JournalStep
    BY <2>1, <2>2 DEF Books, DealJournalOK, DealMemoryIsFile, JournalStep
  <2>4. QED
    BY <2>1, <2>2, <2>3 DEF Books
<1>10. QED
  BY <1>3, <1>4, <1>5, <1>6, <1>7, <1>8, <1>9 DEF RecoveryNext, Expert

LEMMA BooksInit == RecoveryInit => Books
<1> SUFFICES ASSUME RecoveryInit PROVE Books
  OBVIOUS
<1>1. /\ dealFile = [state |-> <<>>, tail |-> "clean"] /\ deals = <<>> /\ dealsReady = FALSE
      /\ queue = <<>> /\ cursor = 1 /\ replaying = {}
  BY DEF RecoveryInit, DealInit, Empty
<1>2. /\ dealFile \in File(Seq(Row)) /\ deals \in Seq(Row) /\ queue \in Seq(Deal)
      /\ cursor \in Nat \ {0}
  BY <1>1 DEF File
<1>3. Once(dealFile.state)
  BY <1>1 DEF Once
<1>4. QED
  BY <1>1, <1>2, <1>3 DEF Books, DealJournalOK, DealMemoryIsFile

\* Callback, retry and startup replay journal a deal once, and what is
\* journaled stays as it is (AppendDeal, AmendAttribution; CampaignJournal.mqh).
THEOREM JournaledOnce == Recovery => JournalIsFinal
<1>1. RecoveryInit => Books
  BY BooksInit
<1>2. Books /\ [RecoveryNext]_vars => Books'
  BY DealStep
<1>3. Books /\ Books' /\ [RecoveryNext]_vars =>
        [/\ \A m, n \in DOMAIN dealFile'.state :
                 dealFile'.state[m].deal = dealFile'.state[n].deal => m = n
         /\ Len(dealFile.state) <= Len(dealFile'.state)
         /\ \A n \in DOMAIN dealFile.state :
              /\ dealFile'.state[n].deal = dealFile.state[n].deal
              /\ dealFile.state[n].campaign # None => dealFile'.state[n] = dealFile.state[n]]_vars
  <2> SUFFICES ASSUME Books, Books', RecoveryNext
               PROVE  Once(dealFile'.state) /\ Grows(dealFile.state, dealFile'.state)
    BY DEF Once, Grows
  <2>1. dealFile.state \in Seq(Row)
    BY DEF Books, DealJournalOK, File
  <2>2. Once(dealFile'.state)
    BY DEF Books, DealJournalOK
  <2>3. Grows(dealFile.state, dealFile.state)
    <3>1. Len(dealFile.state) \in Nat
      BY <2>1
    <3>2. QED
      BY <3>1 DEF Grows
  <2>4. Grows(dealFile.state, dealFile'.state)
    BY <2>1, <2>3, DealStep, NotedGrows DEF JournalStep
  <2>5. QED
    BY <2>2, <2>4
<1>4. QED
  BY <1>1, <1>2, <1>3, PTL DEF Recovery, JournalIsFinal

-----------------------------------------------------------------------------
(* No deal is forgotten.                                                   *)

Running == pc \in {"idle", "retry", "send", "wait", "record"}

\* A deal is journaled, or it is still somewhere on its way to the journal.
Accounted ==
    /\ CleanDeals
    /\ recoveryReady /\ Running =>
          made \subseteq pending \union ToSet(queue) \union Journaled(dealFile.state)
    /\ recoveryReady /\ pc = "replay" =>
          made \subseteq pending \union replaying \union Journaled(dealFile.state)

LEMMA JournalKeepsDeals ==
    ASSUME Books, JournalStep
    PROVE  Journaled(dealFile.state) \subseteq Journaled(dealFile'.state)
<1>1. dealFile.state \in Seq(Row)
  BY DEF Books, DealJournalOK, File
<1>2. QED
  BY <1>1, NotedGrows DEF JournalStep

LEMMA AccountedStep ==
    ASSUME NoOpenRows, Synced, Books, Accounted, [RecoveryNext]_vars
    PROVE  Accounted'
<1>1. Journaled(dealFile.state) \subseteq Journaled(dealFile'.state)
  BY DealStep, JournalKeepsDeals
<1>2. CASE \/ Send \/ Return \/ RecordOpenSetup \/ Tick \/ RetryEnds \/ UNCHANGED vars
           \/ \E i \in Intent : Enter(i)
  <2>1. /\ UNCHANGED <<dealFile, dealsReady, queue, made, pending, replaying>>
        /\ (Running /\ Running') \/ (pc' = pc)
    BY <1>2 DEF Send, Return, Answer, RecordOpenSetup, Tick, RetryEnds, Enter, Running,
                vars, eaVars, dealVars, brokerVars
  <2>2. recoveryReady' => recoveryReady
    <3>1. CASE Send \/ Tick \/ UNCHANGED vars
      BY <3>1 DEF Send, Tick, vars, eaVars
    <3>2. CASE \E i \in Intent : Enter(i)
      BY <3>2 DEF Enter, EntryAllowed
    <3>3. CASE Return
      BY <3>3, Zenon DEF Return, Answer
    <3>4. CASE RecordOpenSetup
      BY <3>4, Zenon DEF RecordOpenSetup
    <3>5. CASE RetryEnds
      BY <3>5, Zenon DEF RetryEnds
    <3>6. QED
      BY <1>2, <3>1, <3>2, <3>3, <3>4, <3>5
  <2>3. QED
    BY <2>1, <2>2 DEF Accounted, CleanDeals, Running
<1>3. CASE Broker
  <2>1. UNCHANGED <<dealFile, dealsReady, queue, replaying, pc, recoveryReady>>
    BY <1>3 DEF Broker, Fill, Reject, CloseOut, Show, eaVars, dealVars
  <2>2. \/ made' \subseteq made \union pending' /\ pending \subseteq pending'
        \/ made' = made /\ pc = "off"
    BY <1>3 DEF Broker, Fill, Reject, CloseOut, Show, Add
  <2>3. QED
    BY <2>1, <2>2 DEF Accounted, CleanDeals, Running
<1>4. ASSUME NEW d \in Deal, DealAdd(d) PROVE Accounted'
  <2>1. PICK written \in BOOLEAN, full \in BOOLEAN :
          /\ Persist(d, written) /\ QueueRetry(d, written, full)
          /\ recoveryReady' => recoveryReady /\ ~full
    BY <1>4 DEF DealAdd
  <2>2. /\ pc = "idle" /\ pc' = pc /\ made' = made
        /\ pending \subseteq pending' \union {d}
    BY <1>4 DEF DealAdd
  <2>3. CleanDeals' /\ (written => d \in Journaled(dealFile'.state))
    BY <2>1, PersistWrites, PersistedIsJournaled DEF Books, Accounted
  <2>4. ToSet(queue) \subseteq ToSet(queue')
    BY <2>1, QueuedKeepsAll DEF QueueRetry, Books
  <2>5. ~written /\ ~full => d \in ToSet(queue')
    BY <2>1, QueuedKeepsAll DEF QueueRetry, Books
  <2>6. QED
    BY <1>1, <2>1, <2>2, <2>3, <2>4, <2>5 DEF Accounted, Running
<1>5. CASE Retry
  <2> DEFINE index == IF cursor > Len(queue) THEN 1 ELSE cursor
  <2>1. PICK written \in BOOLEAN :
          /\ Persist(queue[index], written)
          /\ queue' = IF written THEN RemoveAt(queue, index) ELSE queue
    BY <1>5 DEF Retry
  <2>2. /\ queue # <<>> /\ pc = "retry" /\ pc' = pc
        /\ UNCHANGED <<recoveryReady, made, pending>>
    BY <1>5 DEF Retry, RetryDone, brokerVars
  <2>3. queue \in Seq(Deal) /\ cursor \in Nat \ {0}
    BY DEF Books
  <2>4. index \in 1..Len(queue)
    BY <2>2, <2>3
  <2>5. queue[index] \in Deal
    BY <2>3, <2>4
  <2> HIDE DEF index
  <2>6. CleanDeals' /\ (written => queue[index] \in Journaled(dealFile'.state))
    BY <2>1, <2>5, PersistWrites, PersistedIsJournaled DEF Books, Accounted
  <2>7. ToSet(queue) \subseteq ToSet(queue') \union Journaled(dealFile'.state)
    BY <2>1, <2>3, <2>4, <2>6, RemoveAtKeepsOthers
  <2>8. QED
    BY <1>1, <2>2, <2>6, <2>7 DEF Accounted, Running
<1>6. CASE Start
  <2>1. /\ UNCHANGED <<dealFile, made, pending>> /\ pc' = "replay"
        /\ dealsReady' = Readable(dealFile) /\ made \subseteq history
    BY <1>6 DEF Start, OpenDeals, brokerVars
  <2>2. recoveryReady' => replaying' = made \intersect history
    BY <1>6 DEF Start
  <2>3. CleanDeals'
    BY <2>1 DEF Accounted, CleanDeals, Readable, Books, DealJournalOK, File
  <2>4. QED
    BY <2>1, <2>2, <2>3 DEF Accounted, Running
<1>7. ASSUME NEW d \in Deal, ReplayDeal(d) PROVE Accounted'
  <2> DEFINE c == ReplayAttribution(d)
             k == ReplayKey(d)
             failed == Conflict(d, c) \/ ~dealsReady'
  <2>1. /\ dealsReady /\ pc = "replay" /\ pc' = pc /\ UNCHANGED <<made, pending>>
        /\ recoveryReady' => recoveryReady /\ ~failed
        /\ replaying' = IF failed THEN {} ELSE replaying \ {d}
        /\ IF Conflict(d, c) THEN UNCHANGED dealVars ELSE AppendDeal(d, c, k)
    BY <1>7 DEF ReplayDeal, Books, brokerVars
  <2>2. c \in Campaign /\ k \in Key
    BY AttributionIsCampaign DEF Books, DealJournalOK
  <2>3. CASE Conflict(d, c)
    BY <2>1, <2>3 DEF Accounted, CleanDeals, Running, dealVars
  <2>4. CASE ~Conflict(d, c)
    <3>1. CleanDeals' /\ (dealsReady' => d \in Journaled(dealFile'.state))
      <4>1. CleanDeals' /\ (dealsReady' => dealFile'.state = Noted(dealFile.state, d, c, k))
        BY <2>1, <2>2, <2>4, DealIsWritten DEF Books, Accounted, CleanDeals
      <4>2. dealFile.state \in Seq(Row)
        BY DEF Books, DealJournalOK, File
      <4>3. QED
        BY <2>2, <4>1, <4>2, NotedGrows
    <3>2. QED
      BY <1>1, <2>1, <2>4, <3>1 DEF Accounted, Running
  <2>5. QED
    BY <2>3, <2>4
<1>8. CASE Started
  <2>1. /\ UNCHANGED <<dealFile, dealsReady, queue, made, pending>>
        /\ pc = "replay" /\ replaying = {} /\ pc' = "idle" /\ (recoveryReady' => recoveryReady)
    BY <1>8 DEF Started, dealVars, brokerVars
  <2>2. QED
    BY <2>1 DEF Accounted, CleanDeals, Running
<1>9. CASE Crash
  BY <1>9 DEF Crash, DealsLost, Accounted, CleanDeals, Running
<1>10. QED
  BY <1>2, <1>3, <1>4, <1>5, <1>6, <1>7, <1>8, <1>9 DEF RecoveryNext, Expert

\* While entries are allowed no deal is dropped between callback, queue, journal
\* and startup replay, if the history is complete when OnInit reads it.
THEOREM DealsAreAccounted ==
    ASSUME NoOpenRows, Synced
    PROVE  Recovery => []NoDealForgotten
<1>1. RecoveryInit => Books /\ Accounted
  BY BooksInit DEF RecoveryInit, DealInit, Empty, Accounted, CleanDeals
<1>2. Books /\ Accounted /\ [RecoveryNext]_vars => Books' /\ Accounted'
  BY DealStep, AccountedStep
<1>3. Accounted => NoDealForgotten
  BY DEF Accounted, Running, NoDealForgotten
<1>4. QED
  BY <1>1, <1>2, <1>3, PTL DEF Recovery

-----------------------------------------------------------------------------
(* An entry finds clean books.                                             *)
(*                                                                         *)
(* The argument joins the two above (an order that has filled was prepared *)
(* or is bound; a deal is queued or journaled): a queued deal locks the    *)
(* entries, the callback journals only what has a campaign, and startup    *)
(* replay finds the intent of every fill bound, or keeps the entries       *)
(* locked.                                                                 *)

\* One prepared intent at a time, and an intent is bound to its own order.
IntentsAreOrderly ==
    /\ \A i, j \in Intent : intentFile.state[i].status = "prepared" /\
                            intentFile.state[j].status = "prepared" => i = j
    /\ \A i \in Intent : intentFile.state[i].status = "bound" => intentFile.state[i].order = i

\* Deals in the history, in Replay and in the journal have been made; a fill's
\* order is filled.
DealsAreMade ==
    /\ \A d \in Deal : d \in history => d \in made
    /\ replaying \subseteq made
    /\ Journaled(dealFile.state) \subseteq made
    /\ \A i \in Intent : <<i, "in">> \in made => order[i] = "filled"

QueueLocks == queue # <<>> => retryBlocked

Entries(ds) == {d \in ds : d[2] = "in"}

\* An entry deal has its campaign as soon as it is journaled; one that Replay
\* has yet to see will get it.
EntriesAttributed ==
    /\ recoveryReady /\ Running =>
          Entries(Journaled(dealFile.state)) \subseteq Attributed(dealFile.state)
    /\ recoveryReady /\ pc = "replay" =>
          /\ Entries(Journaled(dealFile.state)) \subseteq Attributed(dealFile.state) \union replaying
          /\ \A d \in Entries(replaying \intersect Deal) : intentsReady /\ ByOrder(d) # {}
    /\ pc = "send" => Entries(made \ pending) \subseteq Attributed(dealFile.state)

Clean == IntentsAreOrderly /\ DealsAreMade /\ QueueLocks /\ EntriesAttributed

AllBooks == WriteAhead /\ Books /\ Accounted /\ Clean

-----------------------------------------------------------------------------
(* Attribution is kept, and given.                                         *)

LEMMA AttributedRows ==
    ASSUME NEW rows \in Seq(Row), NEW d \in Deal
    PROVE  d \in Attributed(rows) <=>
             \E n \in DOMAIN rows : rows[n].deal = d /\ rows[n].campaign # None
  BY DEF Attributed, CampaignsOf, ToSet

LEMMA NotedAttributes ==
    ASSUME NEW rows \in Seq(Row), NEW d \in Deal, NEW c \in Campaign, NEW k \in Key
    PROVE  /\ Attributed(rows) \subseteq Attributed(Noted(rows, d, c, k))
           /\ c # None => d \in Attributed(Noted(rows, d, c, k))
<1> DEFINE row == [deal |-> d, campaign |-> c, key |-> k]
           new == Noted(rows, d, c, k)
<1>1. /\ new \in Seq(Row) /\ Grows(rows, new)
  BY NotedGrows
<1>2. row \in Row
  BY DEF Row, Campaign, Key
<1>3. /\ Len(rows) \in Nat /\ DOMAIN rows = 1..Len(rows)
      /\ Len(new) \in Nat /\ DOMAIN new = 1..Len(new) /\ Len(rows) <= Len(new)
      /\ \A n \in 1..Len(rows) : /\ new[n].deal = rows[n].deal
                                 /\ rows[n].campaign # None => new[n] = rows[n]
  <2> HIDE DEF new
  <2>1. QED
    BY <1>1 DEF Grows
<1>4. Attributed(rows) \subseteq Attributed(new)
  <2> HIDE DEF new
  <2>1. Attributed(rows) \subseteq Deal /\ Attributed(new) \subseteq Deal
    BY DEF Attributed
  <2> SUFFICES ASSUME NEW e \in Deal, e \in Attributed(rows) PROVE e \in Attributed(new)
    BY <2>1
  <2>2. PICK n \in 1..Len(rows) : rows[n].deal = e /\ rows[n].campaign # None
    BY <1>3, AttributedRows
  <2>3. n \in 1..Len(new) /\ new[n].deal = e /\ new[n].campaign # None
    BY <1>3, <2>2
  <2>4. QED
    BY <1>1, <1>3, <2>3, AttributedRows
<1>5. ASSUME c # None PROVE d \in Attributed(new)
  <2>1. CASE d \notin Journaled(rows)
    <3>1. new = Append(rows, row)
      BY <2>1 DEF Noted
    <3>2. /\ Len(Append(rows, row)) = Len(rows) + 1
          /\ Append(rows, row)[Len(rows) + 1] = row
      BY <1>2, AppendProperties
    <3> HIDE DEF new
    <3>3. Len(rows) + 1 \in 1..Len(new) /\ new[Len(rows) + 1] = row
      BY <1>3, <3>1, <3>2
    <3>4. QED
      BY <1>1, <1>3, <1>5, <3>3, AttributedRows
  <2>2. CASE d \in Journaled(rows)
    <3>1. PICK n \in 1..Len(rows) : rows[n].deal = d
      BY <1>3, <2>2, JournaledRows
    <3>2. new = [m \in DOMAIN rows |->
                   IF rows[m].deal = d /\ rows[m].campaign = None
                   THEN [rows[m] EXCEPT !.campaign = c, !.key = k] ELSE rows[m]]
      BY <2>2 DEF Noted
    <3>3. rows[n] \in Row
      BY <1>3
    <3>4. new[n].campaign # None
      BY <1>3, <1>5, <3>1, <3>2, <3>3 DEF Row
    <3> HIDE DEF new
    <3>5. n \in 1..Len(new) /\ new[n].deal = d
      BY <1>3, <3>1
    <3>6. QED
      BY <1>1, <1>3, <3>4, <3>5, AttributedRows
  <2>3. QED
    BY <2>1, <2>2
<1>6. QED
  BY <1>4, <1>5

-----------------------------------------------------------------------------
(* The intents.                                                            *)

\* What a step may do to the rows of the intent journal.
IntentStep ==
    \/ intentFile'.state = intentFile.state
    \/ \E i \in Intent :
         \/ /\ Prepared(intentFile.state) = {}
            /\ intentFile'.state = [intentFile.state EXCEPT ![i] = PreparedRow]
         \/ \E row \in {BoundRow(i), RejectedRow} :
              intentFile'.state = [intentFile.state EXCEPT ![i] = row]

LEMMA IntentRows ==
    ASSUME NEW i \in Intent
    PROVE  PreparedRow \in IntentRow /\ BoundRow(i) \in IntentRow /\ RejectedRow \in IntentRow
  BY DEF PreparedRow, BoundRow, RejectedRow, IntentRow, Statuses

LEMMA RowIsIntentStep ==
    ASSUME WriteAhead, NoOpenRows, intentFile.tail = "clean",
           NEW i \in Intent, NEW row \in {BoundRow(i), RejectedRow},
           WriteIntentOf(intentFile.state, i, row)
    PROVE  IntentStep
<1>1. row \in IntentRow
  BY IntentRows
<1>2. intentFile'.state \in {intentFile.state, [intentFile.state EXCEPT ![i] = row]}
  BY <1>1, IntentIsWrittenOrNot DEF WriteAhead, IntentTypeOK
<1>3. QED
  BY <1>2 DEF IntentStep

LEMMA IntentStepTaken ==
    ASSUME NoOpenRows, Distinguishable, WriteAhead, [RecoveryNext]_vars
    PROVE  IntentStep
<1>1. ASSUME NEW i \in Intent, Enter(i) PROVE IntentStep
  <2>1. /\ intentFile.tail = "clean" /\ Prepared(intentFile.state) = {}
        /\ WriteIntentOf(intentFile.state, i, PreparedRow)
    BY <1>1 DEF Enter, EntryAllowed, CreateIntent, WriteIntent, WriteAhead, MemoryIsFile
  <2>2. intentFile'.state \in {intentFile.state, [intentFile.state EXCEPT ![i] = PreparedRow]}
    BY <2>1, IntentRows, IntentIsWrittenOrNot DEF WriteAhead, IntentTypeOK
  <2>3. QED
    BY <2>1, <2>2 DEF IntentStep
<1>2. CASE Return
  <2>1. current \in Intent
    BY <1>2 DEF Return, WriteAhead, AttemptIsPrepared, IntentTypeOK
  <2>2. \/ BindOrder(current, current) \/ RejectIntent(current) \/ UNCHANGED intentVars
    BY <1>2 DEF Return, Answer
  <2>3. ASSUME NEW row \in {BoundRow(current), RejectedRow}, intentsReady, WriteIntent(current, row)
        PROVE  IntentStep
    BY <2>1, <2>3, RowIsIntentStep DEF WriteIntent, WriteAhead, MemoryIsFile
  <2>4. QED
    BY <2>2, <2>3 DEF BindOrder, RejectIntent, IntentStep, intentVars
<1>3. CASE Tick
  <2>1. ASSUME intentsReady, NEW i \in Prepared(intents), WriteIntent(i, TokenRow(i))
        PROVE  IntentStep
    <3>1. i \in Intent /\ TokenRow(i) \in {BoundRow(i), RejectedRow}
      BY <2>1 DEF Prepared, TokenRow
    <3>2. QED
      BY <2>1, <3>1, RowIsIntentStep DEF WriteIntent, WriteAhead, MemoryIsFile
  <2>2. QED
    BY <1>3, <2>1 DEF Tick, TokenRecovery, IntentStep, intentVars
<1>4. CASE Start
  <2>1. PICK resolved \in BOOLEAN : OpenIntents(resolved)
    BY <1>4 DEF Start
  <2>2. ASSUME Readable(intentFile), NEW i \in Prepared(Loaded),
               NEW row \in Resolution(i), WriteIntentOf(Loaded, i, row)
        PROVE  IntentStep
    <3>1. /\ intentFile.tail = "clean" /\ i \in Intent
          /\ WriteIntentOf(intentFile.state, i, row)
      BY <2>2 DEF Readable, Loaded, Prepared, WriteAhead, IntentTypeOK, MemoryIsFile, File
    <3>2. row \in {BoundRow(i), RejectedRow}
      <4>1. row \in {TokenRow(i)} \union {BoundRow(o) : o \in Matches(i)}
        BY <2>2 DEF Resolution
      <4>2. \A o \in Matches(i) : o = i
        BY <3>1 DEF Matches, Distinguishable
      <4>3. QED
        BY <4>1, <4>2 DEF TokenRow
    <3>3. QED
      BY <3>1, <3>2, RowIsIntentStep
  <2>3. CASE UNCHANGED intentFile
    BY <2>3 DEF IntentStep
  <2>4. QED
    BY <2>1, <2>2, <2>3 DEF OpenIntents
<1>5. CASE \/ Send \/ RecordOpenSetup \/ Retry \/ RetryEnds \/ Started \/ Broker \/ Crash
           \/ UNCHANGED vars \/ (\E d \in Deal : ReplayDeal(d) \/ DealAdd(d))
  <2>1. UNCHANGED intentFile
    BY <1>5 DEF Send, RecordOpenSetup, Retry, RetryEnds, Started, Broker, Fill, Reject, CloseOut,
                Show, Crash, IntentsLost, ReplayDeal, DealAdd, vars, intentVars
  <2>2. QED
    BY <2>1 DEF IntentStep
<1>6. QED
  BY <1>1, <1>2, <1>3, <1>4, <1>5 DEF RecoveryNext, Expert

LEMMA OrderlyStep ==
    ASSUME NoOpenRows, Distinguishable, WriteAhead, IntentsAreOrderly, [RecoveryNext]_vars
    PROVE  IntentsAreOrderly'
<1>1. intentFile.state \in [Intent -> IntentRow]
  BY DEF WriteAhead, IntentTypeOK, File, IntentStates, IntentRow
<1>2. CASE intentFile'.state = intentFile.state
  BY <1>2 DEF IntentsAreOrderly
<1>3. ASSUME NEW i \in Intent, Prepared(intentFile.state) = {},
             intentFile'.state = [intentFile.state EXCEPT ![i] = PreparedRow]
      PROVE  IntentsAreOrderly'
  <2>1. /\ intentFile'.state[i].status = "prepared"
        /\ \A j \in Intent \ {i} : intentFile'.state[j] = intentFile.state[j]
        /\ \A j \in Intent : intentFile.state[j].status # "prepared"
    BY <1>1, <1>3 DEF PreparedRow, Prepared
  <2>2. QED
    BY <2>1 DEF IntentsAreOrderly
<1>4. ASSUME NEW i \in Intent, NEW row \in {BoundRow(i), RejectedRow},
             intentFile'.state = [intentFile.state EXCEPT ![i] = row]
      PROVE  IntentsAreOrderly'
  <2>1. /\ intentFile'.state[i].status # "prepared"
        /\ intentFile'.state[i].status = "bound" => intentFile'.state[i].order = i
        /\ \A j \in Intent \ {i} : intentFile'.state[j] = intentFile.state[j]
    BY <1>1, <1>4 DEF BoundRow, RejectedRow
  <2>2. QED
    BY <2>1 DEF IntentsAreOrderly
<1>5. QED
  BY <1>2, <1>3, <1>4, IntentStepTaken DEF IntentStep

-----------------------------------------------------------------------------
(* The deals.                                                              *)

\* Which deals a step may bring into the file.
LEMMA JournaledStep ==
    ASSUME WriteAhead, Books, DealsAreMade, [RecoveryNext]_vars
    PROVE  Journaled(dealFile'.state) \subseteq made
<1>1. dealFile.state \in Seq(Row)
  BY DEF Books, DealJournalOK, File
<1>2. ASSUME NEW d \in Deal, NEW c \in Campaign, NEW k \in Key, d \in made,
             dealFile'.state \in {dealFile.state, Noted(dealFile.state, d, c, k)}
      PROVE  Journaled(dealFile'.state) \subseteq made
  BY <1>1, <1>2, NotedGrows DEF DealsAreMade
<1>3. ASSUME NEW d \in Deal, NEW ok \in BOOLEAN, Persist(d, ok)
      PROVE  Journaled(dealFile'.state) \subseteq made
  <2>1. Attribution(d) \in Campaign /\ KeyOf(d) \in Key
    BY AttributionIsCampaign DEF Books, DealJournalOK
  <2>2. CASE dealFile'.state = dealFile.state
    BY <2>2 DEF DealsAreMade
  <2>3. CASE Persistable(d) /\ dealFile'.state = Noted(dealFile.state, d, Attribution(d), KeyOf(d))
    BY <1>2, <2>1, <2>3 DEF Persistable, DealsAreMade
  <2>4. QED
    BY <1>3, <2>2, <2>3, PersistWrites DEF Books
<1>4. ASSUME NEW d \in Deal, DealAdd(d) PROVE Journaled(dealFile'.state) \subseteq made
  BY <1>3, <1>4 DEF DealAdd
<1>5. CASE Retry
  <2> DEFINE index == IF cursor > Len(queue) THEN 1 ELSE cursor
  <2>1. PICK written \in BOOLEAN : Persist(queue[index], written)
    BY <1>5 DEF Retry
  <2>2. queue # <<>> /\ queue \in Seq(Deal) /\ cursor \in Nat \ {0}
    BY <1>5 DEF Retry, RetryDone, Books
  <2>3. queue[index] \in Deal
    BY <2>2
  <2> HIDE DEF index
  <2>4. QED
    BY <1>3, <2>1, <2>3
<1>6. ASSUME NEW d \in Deal, ReplayDeal(d) PROVE Journaled(dealFile'.state) \subseteq made
  <2> DEFINE c == ReplayAttribution(d)
             k == ReplayKey(d)
  <2>1. /\ dealsReady /\ d \in made
        /\ IF Conflict(d, c) THEN UNCHANGED dealVars ELSE AppendDeal(d, c, k)
    BY <1>6 DEF ReplayDeal, Books, DealsAreMade
  <2>2. c \in Campaign /\ k \in Key
    BY AttributionIsCampaign DEF Books, DealJournalOK
  <2> HIDE DEF c, k
  <2>3. CASE UNCHANGED dealVars
    BY <2>3 DEF dealVars, DealsAreMade
  <2>4. CASE AppendDeal(d, c, k)
    BY <1>2, <2>1, <2>2, <2>4, DealIsWritten DEF Books
  <2>5. QED
    BY <2>1, <2>3, <2>4
<1>7. CASE \/ Send \/ Return \/ RecordOpenSetup \/ Tick \/ RetryEnds \/ Started \/ Broker \/ Start
           \/ Crash \/ UNCHANGED vars \/ \E i \in Intent : Enter(i)
  <2>1. UNCHANGED dealFile
    BY <1>7 DEF Send, Return, RecordOpenSetup, Tick, RetryEnds, Started, Broker, Fill, Reject,
                CloseOut, Show, Start, OpenDeals, Crash, DealsLost, Enter, vars, dealVars
  <2>2. QED
    BY <2>1 DEF DealsAreMade
<1>8. QED
  BY <1>4, <1>5, <1>6, <1>7 DEF RecoveryNext, Expert

LEMMA DealsMadeStep ==
    ASSUME WriteAhead, Books, DealsAreMade, [RecoveryNext]_vars
    PROVE  DealsAreMade'
<1>1. Journaled(dealFile'.state) \subseteq made
  BY JournaledStep
<1>2. replaying' \subseteq made
  BY DEF DealsAreMade, RecoveryNext, Expert, Broker, Send, Return, RecordOpenSetup, Tick, Retry,
         RetryEnds, Start, Started, ReplayDeal, Enter, DealAdd, Fill, Reject, CloseOut, Show, Crash,
         vars, eaVars
<1>3. \A d \in Deal, i \in Intent : d # Order(i)
  BY DEF Deal, Order
<1>4. CASE Broker
  <2>1. order \in [Intent -> {"none", "sent", "filled", "rejected"}]
    BY DEF WriteAhead, IntentTypeOK
  <2>2. ASSUME NEW i \in Intent, Fill(i) PROVE DealsAreMade'
    <3>1. /\ made' = made \union {<<i, "in">>} /\ history' = history
          /\ order' = [order EXCEPT ![i] = "filled"]
      BY <2>2 DEF Fill, Add
    <3>2. QED
      BY <1>1, <1>2, <2>1, <3>1 DEF DealsAreMade
  <2>3. ASSUME NEW i \in Intent, Reject(i) PROVE DealsAreMade'
    <3>1. /\ UNCHANGED <<made, history>> /\ order[i] = "sent"
          /\ order' = [order EXCEPT ![i] = "rejected"]
      BY <2>3 DEF Reject
    <3>2. QED
      BY <1>1, <1>2, <2>1, <3>1 DEF DealsAreMade
  <2>4. CASE CloseOut
    <3>1. made' = made \union {<<open, "out">>} /\ UNCHANGED <<history, order>>
      BY <2>4 DEF CloseOut, Add
    <3>2. QED
      BY <1>1, <1>2, <3>1 DEF DealsAreMade
  <2>5. ASSUME NEW h, Show(h) PROVE DealsAreMade'
    <3>1. h \in made \union Decided /\ history' = history \union {h} /\ UNCHANGED <<made, order>>
      BY <2>5 DEF Show
    <3>2. \A d \in Deal : d \in history' => d \in made
      BY <1>3, <3>1 DEF Decided, DealsAreMade
    <3>3. QED
      BY <1>1, <1>2, <3>1, <3>2 DEF DealsAreMade
  <2>6. QED
    BY <1>4, <2>2, <2>3, <2>4, <2>5 DEF Broker
<1>5. CASE Send
  <2>1. /\ UNCHANGED <<made, history>> /\ order' = [order EXCEPT ![current] = "sent"]
        /\ current \in Intent /\ order[current] = "none"
        /\ order \in [Intent -> {"none", "sent", "filled", "rejected"}]
    BY <1>5 DEF Send, WriteAhead, AttemptIsPrepared, IntentTypeOK
  <2>2. QED
    BY <1>1, <1>2, <2>1 DEF DealsAreMade
<1>6. CASE \/ Return \/ RecordOpenSetup \/ Tick \/ Retry \/ RetryEnds \/ Start \/ Started \/ Crash
           \/ UNCHANGED vars \/ (\E i \in Intent : Enter(i))
           \/ \E d \in Deal : ReplayDeal(d) \/ DealAdd(d)
  <2>1. UNCHANGED <<made, history, order>>
    BY <1>6 DEF Return, RecordOpenSetup, Tick, Retry, RetryEnds, Start, Started, Crash, Enter,
                ReplayDeal, DealAdd, vars, brokerVars
  <2>2. QED
    BY <1>1, <1>2, <2>1 DEF DealsAreMade
<1>7. QED
  BY <1>4, <1>5, <1>6 DEF RecoveryNext, Expert

LEMMA QueueLocksStep ==
    ASSUME QueueLocks, [RecoveryNext]_vars
    PROVE  QueueLocks'
<1>1. ASSUME NEW d \in Deal, DealAdd(d) PROVE QueueLocks'
  <2>1. PICK written \in BOOLEAN, full \in BOOLEAN : QueueRetry(d, written, full)
    BY <1>1 DEF DealAdd
  <2>2. CASE written
    BY <2>1, <2>2, Zenon DEF QueueRetry, QueueLocks
  <2>3. CASE ~written
    BY <2>1, <2>3, Zenon DEF QueueRetry, QueueLocks
  <2>4. QED
    BY <2>2, <2>3
<1>2. CASE Retry
  BY <1>2 DEF Retry, RetryDone, QueueLocks
<1>3. CASE RetryEnds
  BY <1>3, Zenon DEF RetryEnds, QueueLocks
<1>4. CASE Crash
  BY <1>4 DEF Crash, QueueLocks
<1>5. CASE \/ Send \/ Return \/ RecordOpenSetup \/ Tick \/ Start \/ Started \/ Broker
           \/ UNCHANGED vars \/ (\E i \in Intent : Enter(i)) \/ \E d \in Deal : ReplayDeal(d)
  BY <1>5 DEF Send, Return, RecordOpenSetup, Tick, Start, Started, Broker, Fill, Reject, CloseOut,
              Show, Enter, ReplayDeal, vars, eaVars, QueueLocks
<1>6. QED
  BY <1>1, <1>2, <1>3, <1>4, <1>5 DEF RecoveryNext, Expert

-----------------------------------------------------------------------------
(* The campaigns of the entry deals.                                       *)

LEMMA AttributionIsKept ==
    ASSUME Books, JournalStep
    PROVE  Attributed(dealFile.state) \subseteq Attributed(dealFile'.state)
<1>1. dealFile.state \in Seq(Row)
  BY DEF Books, DealJournalOK, File
<1>2. QED
  BY <1>1, NotedAttributes DEF JournalStep

\* What a callback or a retry journals has a campaign.
LEMMA PersistedIsAttributed ==
    ASSUME DealJournalOK, NEW d \in Deal, NEW ok \in BOOLEAN, Persist(d, ok)
    PROVE  Journaled(dealFile'.state) \subseteq
             Journaled(dealFile.state) \union Attributed(dealFile'.state)
<1>1. dealFile.state \in Seq(Row) /\ Attribution(d) \in Campaign /\ KeyOf(d) \in Key
  BY AttributionIsCampaign DEF DealJournalOK, File
<1>2. CASE Persistable(d) /\ dealFile'.state = Noted(dealFile.state, d, Attribution(d), KeyOf(d))
  BY <1>1, <1>2, NotedGrows, NotedAttributes DEF Persistable
<1>3. QED
  BY <1>2, PersistWrites

\* What Replay does for a deal whose order is bound.
LEMMA ReplayFindsIntent ==
    ASSUME NEW d, intentsReady, ByOrder(d) # {}
    PROVE  ReplayAttribution(d) # None
<1> DEFINE found == <<ReplayOrder(d), SetupOf(PositionOf(d))>>
           hits == {n \in DOMAIN found : found[n] # {}}
<1>1. ByOrder(d) \subseteq Intent /\ SetupOf(PositionOf(d)) \subseteq Intent
  BY DEF ByOrder, IntentOfOrder, SetupOf
<1>2. hits \in SUBSET Nat /\ 1 \in hits /\ \A n \in hits : found[n] # {} /\ found[n] \subseteq Intent
  BY <1>1 DEF ReplayOrder
<1>3. ReplayAttribution(d) = IF hits = {} THEN None ELSE CHOOSE c \in found[Min(hits)] : TRUE
  BY DEF ReplayAttribution, FirstOf
<1> HIDE DEF hits, found
<1>4. Min(hits) \in hits
  BY <1>2, MinIsLeast
<1>5. (CHOOSE c \in found[Min(hits)] : TRUE) \in Intent
  BY <1>2, <1>4
<1>6. QED
  BY <1>2, <1>3, <1>5, JournalConstants

\* When OnInit lets Replay go on, every fill's intent is bound to its order.
LEMMA StartBinds ==
    ASSUME NoOpenRows, Distinguishable, Synced, WriteAhead, IntentsAreOrderly, DealsAreMade,
           Start, recoveryReady', NEW i \in Intent, <<i, "in">> \in made
    PROVE  intentsReady' /\ intents'[i] = BoundRow(i)
<1>1. order[i] = "filled" /\ Order(i) \in history
  BY DEF DealsAreMade, Start, Decided
<1>2. PICK resolved \in BOOLEAN :
        /\ OpenIntents(resolved)
        /\ Readable(intentFile) /\ intentsReady' /\ Readable(dealFile) /\ resolved
  BY Zenon DEF Start
<1>3. /\ intentFile.state \in [Intent -> IntentRow] /\ intentFile.tail = "clean"
      /\ Loaded = intentFile.state
  BY <1>2 DEF WriteAhead, IntentTypeOK, MemoryIsFile, File, IntentStates, IntentRow, Readable, Loaded
<1>4. intentFile.state[i].status \in {"prepared", "bound"}
  BY <1>1, <1>3 DEF WriteAhead, SentIsRecorded, RejectedIsRefused, IntentRow, Statuses
<1>5. ASSUME NEW j \in Intent, NEW row \in Resolution(j), WriteIntentOf(intentFile.state, j, row)
      PROVE  intents' = [intentFile.state EXCEPT ![j] = row] /\ row \in {BoundRow(j), RejectedRow}
  <2>1. row \in {BoundRow(j), RejectedRow}
    <3>1. row \in {TokenRow(j)} \union {BoundRow(o) : o \in Matches(j)}
      BY <1>5 DEF Resolution
    <3>2. \A o \in Matches(j) : o = j
      BY DEF Matches, Distinguishable
    <3>3. QED
      BY <3>1, <3>2 DEF TokenRow
  <2>2. intentsReady' => intentFile'.state = [intentFile.state EXCEPT ![j] = row]
        /\ MemoryIsFile'
    BY <1>3, <1>5, <2>1, IntentRows, IntentIsWrittenOrNot DEF WriteAhead, IntentTypeOK
  <2>3. QED
    BY <1>2, <2>1, <2>2 DEF MemoryIsFile
<1>6. CASE intentFile.state[i].status = "bound"
  <2>1. intentFile.state[i] = BoundRow(i)
    BY <1>3, <1>6 DEF IntentsAreOrderly, IntentRow, BoundRow
  <2>2. ASSUME NEW j \in Prepared(Loaded), NEW row \in Resolution(j), WriteIntentOf(Loaded, j, row)
        PROVE  intents'[i] = BoundRow(i)
    <3>1. j \in Intent /\ j # i
      BY <1>3, <1>6, <2>2 DEF Prepared
    <3>2. QED
      BY <1>3, <1>5, <2>1, <2>2, <3>1
  <2>3. QED
    BY <1>2, <1>3, <2>1, <2>2 DEF OpenIntents
<1>7. CASE intentFile.state[i].status = "prepared"
  <2>1. Prepared(Loaded) = {i}
    BY <1>3, <1>7 DEF Prepared, IntentsAreOrderly
  <2>2. Matches(i) = {i} /\ Cardinality(Matches(i)) = 1
    <3>1. Matches(i) = {i}
      BY <1>1 DEF Matches, Distinguishable
    <3>2. QED
      BY <3>1, FS_Singleton
  <2>3. Resolution(i) = {BoundRow(i)}
    BY <1>1, <1>2, <2>2 DEF Resolution, TokenRow
  <2>4. Cardinality(Prepared(Loaded)) = 1
    BY <2>1, FS_Singleton
  <2>5. \E j \in Prepared(Loaded) : \E row \in Resolution(j) : WriteIntentOf(Loaded, j, row)
    BY <1>2, <2>1, <2>3, <2>4 DEF OpenIntents
  <2>6. WriteIntentOf(intentFile.state, i, BoundRow(i))
    BY <1>3, <2>1, <2>3, <2>5
  <2>7. QED
    BY <1>2, <1>3, <1>5, <2>3, <2>6
<1>8. QED
  BY <1>2, <1>4, <1>6, <1>7

LEMMA EntriesStep ==
    ASSUME NoOpenRows, Distinguishable, Synced, AllBooks, [RecoveryNext]_vars
    PROVE  EntriesAttributed'
<1>1. Attributed(dealFile.state) \subseteq Attributed(dealFile'.state)
  BY DealStep, AttributionIsKept DEF AllBooks
<1>2. ASSUME NEW i \in Intent, Enter(i) PROVE EntriesAttributed'
  <2>1. /\ pc = "idle" /\ recoveryReady /\ ~retryBlocked
        /\ UNCHANGED <<dealFile, made, pending>>
        /\ pc' \in {"idle", "send"}
    BY <1>2 DEF Enter, EntryAllowed, dealVars, brokerVars
  <2>2. ToSet(queue) = {}
    BY <2>1 DEF AllBooks, Clean, QueueLocks, ToSet
  <2>3. Entries(made \ pending) \subseteq Attributed(dealFile.state)
    BY <2>1, <2>2 DEF AllBooks, Accounted, Clean, EntriesAttributed, Running, Entries
  <2>4. QED
    BY <2>1, <2>3 DEF AllBooks, Clean, EntriesAttributed, Running, Entries
<1>3. CASE Send \/ Return \/ RecordOpenSetup \/ Tick \/ RetryEnds \/ UNCHANGED vars
  <2>1. /\ UNCHANGED <<dealFile, made, pending, replaying>>
        /\ \/ Running /\ Running' /\ pc' # "send"
           \/ pc' = pc /\ UNCHANGED <<intents, intentsReady>>
    BY <1>3 DEF Send, Return, Answer, RecordOpenSetup, Tick, RetryEnds, Running, vars, eaVars,
                dealVars, brokerVars, intentVars
  <2>2. recoveryReady' => recoveryReady
    <3>1. CASE Send \/ Tick \/ UNCHANGED vars
      BY <3>1 DEF Send, Tick, vars, eaVars
    <3>2. CASE Return
      BY <3>2, Zenon DEF Return, Answer
    <3>3. CASE RecordOpenSetup
      BY <3>3, Zenon DEF RecordOpenSetup
    <3>4. CASE RetryEnds
      BY <3>4, Zenon DEF RetryEnds
    <3>5. QED
      BY <1>3, <3>1, <3>2, <3>3, <3>4
  <2>3. QED
    BY <2>1, <2>2 DEF AllBooks, Clean, EntriesAttributed, Running, Entries, ByOrder, IntentOfOrder
<1>4. CASE Broker
  <2>1. UNCHANGED <<dealFile, intents, intentsReady, replaying, pc, recoveryReady>>
    BY <1>4 DEF Broker, Fill, Reject, CloseOut, Show, eaVars, dealVars, intentVars
  <2>2. pc # "off" => made' \ pending' \subseteq made \ pending
    BY <1>4 DEF Broker, Fill, Reject, CloseOut, Show, Add
  <2>3. QED
    BY <2>1, <2>2 DEF AllBooks, Clean, EntriesAttributed, Running, Entries, ByOrder, IntentOfOrder
<1>5. ASSUME NEW d \in Deal, NEW ok \in BOOLEAN, Persist(d, ok), Running, Running', pc' # "send",
             recoveryReady' => recoveryReady
      PROVE  EntriesAttributed'
  BY <1>1, <1>5, PersistedIsAttributed
     DEF AllBooks, Books, Clean, EntriesAttributed, Running, Entries
<1>6. ASSUME NEW d \in Deal, DealAdd(d) PROVE EntriesAttributed'
  <2>1. PICK written \in BOOLEAN, full \in BOOLEAN :
          Persist(d, written) /\ (recoveryReady' => recoveryReady /\ ~full)
    BY <1>6 DEF DealAdd
  <2>2. pc = "idle" /\ pc' = pc
    BY <1>6 DEF DealAdd
  <2>3. QED
    BY <1>5, <2>1, <2>2 DEF Running
<1>7. CASE Retry
  <2> DEFINE index == IF cursor > Len(queue) THEN 1 ELSE cursor
  <2>1. PICK written \in BOOLEAN : Persist(queue[index], written)
    BY <1>7 DEF Retry
  <2>2. queue # <<>> /\ queue \in Seq(Deal) /\ cursor \in Nat \ {0}
    BY <1>7 DEF Retry, RetryDone, AllBooks, Books
  <2>3. queue[index] \in Deal
    BY <2>2
  <2>4. pc = "retry" /\ pc' = pc /\ recoveryReady' = recoveryReady
    BY <1>7 DEF Retry
  <2> HIDE DEF index
  <2>5. QED
    BY <1>5, <2>1, <2>3, <2>4 DEF Running
<1>8. CASE Start
  <2>1. pc' = "replay" /\ UNCHANGED <<dealFile, made>> /\ made \subseteq history
    BY <1>8 DEF Start, OpenDeals, brokerVars
  <2>2. recoveryReady' => replaying' = made \intersect history
    BY <1>8 DEF Start
  <2>3. recoveryReady' => Entries(Journaled(dealFile'.state)) \subseteq replaying'
    BY <2>1, <2>2 DEF AllBooks, Clean, DealsAreMade, Entries
  <2>4. ASSUME recoveryReady', NEW d \in Deal, d \in made, d[2] = "in"
        PROVE  intentsReady' /\ ByOrder(d)' # {}
    <3>1. PICK i \in Intent : d = <<i, "in">>
      BY <2>4 DEF Deal
    <3>2. intentsReady' /\ intents'[i] = BoundRow(i)
      BY <1>8, <2>4, <3>1, StartBinds DEF AllBooks, Clean
    <3>3. i \in IntentOfOrder(d[1])'
      BY <3>1, <3>2 DEF IntentOfOrder, BoundRow
    <3>4. QED
      BY <2>4, <3>2, <3>3 DEF ByOrder
  <2>5. QED
    BY <2>1, <2>2, <2>3, <2>4 DEF EntriesAttributed, Running, Entries
<1>9. ASSUME NEW d \in Deal, ReplayDeal(d) PROVE EntriesAttributed'
  <2> DEFINE c == ReplayAttribution(d)
             k == ReplayKey(d)
  <2>1. /\ dealsReady /\ pc = "replay" /\ pc' = pc /\ d \in replaying
        /\ UNCHANGED <<intents, intentsReady>>
        /\ recoveryReady' => /\ recoveryReady /\ ~Conflict(d, c) /\ dealsReady'
                             /\ AppendDeal(d, c, k) /\ replaying' = replaying \ {d}
    BY <1>9 DEF ReplayDeal, AllBooks, Books, intentVars
  <2>2. c \in Campaign /\ k \in Key /\ dealFile.state \in Seq(Row)
    BY AttributionIsCampaign DEF AllBooks, Books, DealJournalOK, File
  <2>3. recoveryReady /\ d[2] = "in" => c # None
    BY <2>1, ReplayFindsIntent DEF AllBooks, Clean, EntriesAttributed, Entries
  <2> HIDE DEF c, k
  <2>4. CASE recoveryReady'
    <3>1. dealFile'.state = Noted(dealFile.state, d, c, k)
      BY <2>1, <2>2, <2>4, DealIsWritten DEF AllBooks, Books, Accounted, CleanDeals
    <3>2. /\ Journaled(dealFile'.state) = Journaled(dealFile.state) \union {d}
          /\ c # None => d \in Attributed(dealFile'.state)
      BY <2>2, <3>1, NotedGrows, NotedAttributes
    <3>3. Entries(Journaled(dealFile'.state)) \subseteq Attributed(dealFile'.state) \union replaying'
      BY <1>1, <2>1, <2>3, <2>4, <3>2 DEF AllBooks, Clean, EntriesAttributed, Entries
    <3>4. \A e \in Entries(replaying' \intersect Deal) : intentsReady' /\ ByOrder(e)' # {}
      BY <2>1, <2>4 DEF AllBooks, Clean, EntriesAttributed, Entries, ByOrder, IntentOfOrder
    <3>5. QED
      BY <2>1, <3>3, <3>4 DEF EntriesAttributed, Running
  <2>5. CASE ~recoveryReady'
    BY <2>1, <2>5 DEF EntriesAttributed
  <2>6. QED
    BY <2>4, <2>5
<1>10. CASE Started
  <2>1. /\ UNCHANGED dealFile /\ pc = "replay" /\ replaying = {} /\ pc' = "idle"
        /\ (recoveryReady' => recoveryReady)
    BY <1>10 DEF Started, dealVars
  <2>2. QED
    BY <2>1 DEF AllBooks, Clean, EntriesAttributed, Running, Entries
<1>11. CASE Crash
  BY <1>11 DEF Crash, EntriesAttributed, Running
<1>12. QED
  BY <1>2, <1>3, <1>4, <1>6, <1>7, <1>8, <1>9, <1>10, <1>11 DEF RecoveryNext, Expert

-----------------------------------------------------------------------------
(* The theorem.                                                            *)

LEMMA AllBooksInit == RecoveryInit => AllBooks
<1> SUFFICES ASSUME RecoveryInit PROVE AllBooks
  OBVIOUS
<1>1. WriteAhead /\ Books
  BY WriteAheadInit, BooksInit
<1>2. Accounted
  BY DEF RecoveryInit, DealInit, Empty, Accounted, CleanDeals
<1>3. IntentsAreOrderly
  BY DEF RecoveryInit, IntentInit, Empty, NoIntents, Unknown, IntentsAreOrderly
<1>4. DealsAreMade
  <2>1. dealFile.state = <<>> /\ made = {} /\ history = {} /\ replaying = {}
    BY DEF RecoveryInit, DealInit, Empty
  <2>2. Journaled(dealFile.state) = {}
    BY <2>1 DEF Journaled, ToSet
  <2>3. QED
    BY <2>1, <2>2 DEF DealsAreMade
<1>5. QueueLocks /\ EntriesAttributed
  BY DEF RecoveryInit, QueueLocks, EntriesAttributed, Running
<1>6. QED
  BY <1>1, <1>2, <1>3, <1>4, <1>5 DEF AllBooks, Clean

\* An entry needs clean books (AxAttemptEntry and its recovery gates): when an
\* order is sent, every entry deal that was delivered or replayed is in the
\* readable journal under a campaign.
THEOREM EntriesFindCleanBooks ==
    ASSUME NoOpenRows, Distinguishable, Synced
    PROVE  Recovery => EntersWithCleanBooks
<1>1. AllBooks /\ [RecoveryNext]_vars => AllBooks'
  BY RecoveryStep, DealStep, AccountedStep, OrderlyStep, DealsMadeStep, QueueLocksStep, EntriesStep
     DEF AllBooks, Clean, Kept
<1>2. AllBooks /\ [RecoveryNext]_vars =>
        [\A i \in Intent : order[i] = "none" /\ order'[i] = "sent" =>
            \A d \in made \ pending : d[2] = "in" => d \in Attributed(dealFile.state)]_vars
  <2> SUFFICES ASSUME AllBooks, RecoveryNext, NEW i \in Intent, order[i] = "none", order'[i] = "sent",
                      NEW d \in made \ pending, d[2] = "in"
               PROVE  d \in Attributed(dealFile.state)
    OBVIOUS
  <2>1. pc = "send"
    BY OnlySendSends DEF AllBooks, Send
  <2>2. QED
    BY <2>1 DEF AllBooks, Clean, EntriesAttributed, Entries
<1>3. QED
  BY <1>1, <1>2, AllBooksInit, PTL DEF Recovery, EntersWithCleanBooks

-----------------------------------------------------------------------------
(* Every campaign is the cause of its deal.                                *)
(*                                                                         *)
(* Prompt keeps two orders from being undecided at once: an entry is       *)
(* allowed only after every order before it was decided.  Fills are then   *)
(* never netted, a position belongs to the order that opened it, and each  *)
(* of the three rules of Attribution can only find that order's intent.    *)

\* At most one order is undecided, and a position is that of its own order.
AloneAtBroker ==
    /\ joined = [i \in Intent |-> IF order[i] = "filled" THEN i ELSE None]
    /\ open = None \/ (open \in Intent /\ order[open] = "filled")
    /\ \A i \in Intent : order[i] = "sent" => open = None
    /\ \A i, j \in Intent : order[i] = "sent" /\ order[j] = "sent" => i = j
    /\ \A i \in Intent : <<i, "out">> \in made => order[i] = "filled"

Settled == \A i \in Intent : order[i] # "sent"

\* While entries are allowed every order is decided, but the one waited for.
AttemptIsAlone ==
    /\ recoveryReady /\ pc \in {"idle", "retry", "replay"} => Settled
    /\ recoveryReady /\ pc \in {"idle", "retry"} /\ tracked = None => open = None
    /\ pc = "send" => open = None /\ Settled
    /\ pc = "wait" => /\ open \in {None, current}
                      /\ \A i \in Intent : order[i] = "sent" => i = current
    /\ pc = "record" => tracked = current /\ Settled

SetupsAreOwn == \A p, c \in Intent : <<p, c>> \in setups => p = c

OwnOrders(items) ==
    \A i, o \in Intent : items[i].status = "bound" /\ items[i].order = o => o = i

Own(rows) == \A n \in DOMAIN rows : rows[n].campaign \in {None, rows[n].deal[1]}

Causes ==
    /\ AloneAtBroker /\ AttemptIsAlone /\ SetupsAreOwn /\ OwnOrders(intents)
    /\ Own(dealFile.state) /\ Own(deals)

-----------------------------------------------------------------------------
(* One order at a time.                                                    *)

LEMMA AloneStep ==
    ASSUME WriteAhead, AloneAtBroker, AttemptIsAlone, [RecoveryNext]_vars
    PROVE  AloneAtBroker'
<1>1. order \in [Intent -> {"none", "sent", "filled", "rejected"}]
  BY DEF WriteAhead, IntentTypeOK
<1>2. ASSUME NEW i \in Intent, Fill(i) PROVE AloneAtBroker'
  <2>1. /\ order[i] = "sent" /\ open = None /\ open' = i
        /\ order' = [order EXCEPT ![i] = "filled"] /\ joined' = [joined EXCEPT ![i] = i]
        /\ made' = made \union {<<i, "in">>}
    BY <1>2 DEF Fill, Add, AloneAtBroker
  <2>2. joined' = [j \in Intent |-> IF order'[j] = "filled" THEN j ELSE None]
    BY <1>1, <2>1 DEF AloneAtBroker
  <2>3. \A j \in Intent : order'[j] = "sent" => FALSE
    BY <1>1, <2>1 DEF AloneAtBroker
  <2>4. \A j \in Intent : <<j, "out">> \in made' => order'[j] = "filled"
    BY <1>1, <2>1 DEF AloneAtBroker
  <2>5. QED
    BY <1>1, <2>1, <2>2, <2>3, <2>4 DEF AloneAtBroker
<1>3. ASSUME NEW i \in Intent, Reject(i) PROVE AloneAtBroker'
  <2>1. /\ order[i] = "sent" /\ order' = [order EXCEPT ![i] = "rejected"]
        /\ UNCHANGED <<joined, open, made>>
    BY <1>3 DEF Reject
  <2>2. joined' = [j \in Intent |-> IF order'[j] = "filled" THEN j ELSE None]
    BY <1>1, <2>1 DEF AloneAtBroker
  <2>3. QED
    BY <1>1, <2>1, <2>2 DEF AloneAtBroker
<1>4. CASE CloseOut
  <2>1. open \in Intent /\ order[open] = "filled" /\ open' = None /\ UNCHANGED <<order, joined>>
        /\ made' = made \union {<<open, "out">>}
    BY <1>4 DEF CloseOut, Add, AloneAtBroker
  <2>2. QED
    BY <2>1 DEF AloneAtBroker
<1>5. CASE Send
  <2>1. /\ current \in Intent /\ order[current] = "none" /\ open = None /\ Settled
        /\ order' = [order EXCEPT ![current] = "sent"] /\ UNCHANGED <<joined, open, made>>
    BY <1>5 DEF Send, WriteAhead, AttemptIsPrepared, IntentTypeOK, AttemptIsAlone
  <2>2. joined' = [j \in Intent |-> IF order'[j] = "filled" THEN j ELSE None]
    BY <1>1, <2>1 DEF AloneAtBroker
  <2>3. QED
    BY <1>1, <2>1, <2>2 DEF AloneAtBroker, Settled
<1>6. ASSUME NEW h, Show(h) PROVE AloneAtBroker'
  BY <1>6 DEF Show, AloneAtBroker
<1>7. CASE \/ Return \/ RecordOpenSetup \/ Tick \/ Retry \/ RetryEnds \/ Start \/ Started \/ Crash
           \/ UNCHANGED vars \/ (\E i \in Intent : Enter(i))
           \/ \E d \in Deal : ReplayDeal(d) \/ DealAdd(d)
  <2>1. UNCHANGED <<order, joined, open, made>>
    BY <1>7 DEF Return, RecordOpenSetup, Tick, Retry, RetryEnds, Start, Started, Crash, Enter,
                ReplayDeal, DealAdd, vars, brokerVars
  <2>2. QED
    BY <2>1 DEF AloneAtBroker
<1>8. QED
  BY <1>2, <1>3, <1>4, <1>5, <1>6, <1>7 DEF RecoveryNext, Expert, Broker

LEMMA AttemptAloneStep ==
    ASSUME Prompt, WriteAhead, AloneAtBroker, AttemptIsAlone, [RecoveryNext]_vars
    PROVE  AttemptIsAlone'
<1>1. order \in [Intent -> {"none", "sent", "filled", "rejected"}]
  BY DEF WriteAhead, IntentTypeOK
<1>2. ASSUME NEW i \in Intent, Fill(i) \/ Reject(i) PROVE AttemptIsAlone'
  <2>1. /\ order[i] = "sent" /\ UNCHANGED <<pc, current, recoveryReady, tracked>>
        /\ order' \in {[order EXCEPT ![i] = "filled"], [order EXCEPT ![i] = "rejected"]}
        /\ open' \in {i, open} /\ open = None
    BY <1>2 DEF Fill, Reject, eaVars, AloneAtBroker
  <2>2. \A j \in Intent : order'[j] # "sent"
    BY <1>1, <2>1 DEF AloneAtBroker
  <2>3. pc # "send" /\ (pc = "wait" => i = current)
    BY <2>1 DEF AttemptIsAlone, Settled
  <2>4. QED
    BY <2>1, <2>2, <2>3 DEF AttemptIsAlone, Settled
<1>3. CASE CloseOut \/ \E h \in Deal \union {Order(i) : i \in Intent} : Show(h)
  <2>1. UNCHANGED <<pc, current, recoveryReady, tracked, order>> /\ open' \in {None, open}
    BY <1>3 DEF CloseOut, Show, eaVars
  <2>2. QED
    BY <2>1 DEF AttemptIsAlone, Settled
<1>4. ASSUME NEW i \in Intent, Enter(i) PROVE AttemptIsAlone'
  <2>1. /\ pc = "idle" /\ recoveryReady /\ tracked = None /\ UNCHANGED <<open, order>>
        /\ pc' = "send" \/ (pc' = "idle" /\ ~recoveryReady')
    BY <1>4 DEF Enter, EntryAllowed, brokerVars
  <2>2. open = None /\ Settled
    BY <2>1 DEF AttemptIsAlone
  <2>3. QED
    BY <2>1, <2>2 DEF AttemptIsAlone, Settled
<1>5. CASE Send
  <2>1. /\ pc = "send" /\ pc' = "wait" /\ current \in Intent /\ UNCHANGED <<open, current>>
        /\ order' = [order EXCEPT ![current] = "sent"]
    BY <1>5 DEF Send, WriteAhead, AttemptIsPrepared, IntentTypeOK
  <2>2. QED
    BY <1>1, <2>1 DEF AttemptIsAlone, Settled
<1>6. CASE Return
  <2>1. PICK confirmed \in BOOLEAN, ticket \in BOOLEAN, refused \in BOOLEAN :
          Answer(confirmed, ticket, refused)
    BY <1>6 DEF Return
  <2>2. /\ pc = "wait" /\ current \in Intent /\ UNCHANGED <<open, order>>
        /\ IF pc' = "record" THEN tracked' = open /\ UNCHANGED current
           ELSE current' = None /\ UNCHANGED tracked
    BY <1>6 DEF Return, brokerVars, WriteAhead, IntentTypeOK
  <2>3. CASE confirmed
    <3>1. pc' = "record" /\ open # None
      BY <2>1, <2>3 DEF Answer
    <3>2. open = current
      BY <2>2, <3>1 DEF AttemptIsAlone
    <3>3. Settled
      BY <2>2, <3>1, <3>2 DEF AttemptIsAlone, AloneAtBroker, Settled
    <3>4. QED
      BY <2>2, <3>1, <3>2, <3>3 DEF AttemptIsAlone, Settled
  <2>4. CASE ~confirmed
    <3>1. pc' = "idle" /\ (refused => order[current] = "rejected")
      BY <2>1, <2>4 DEF Answer
    <3>2. recoveryReady' => refused
      BY <2>1, <2>4, Zenon DEF Answer
    <3>3. refused => Settled
      BY <2>2, <3>1 DEF AttemptIsAlone, Settled
    <3>4. refused => open = None
      BY <2>2, <3>1 DEF AttemptIsAlone, AloneAtBroker
    <3>5. QED
      BY <2>2, <3>1, <3>2, <3>3, <3>4 DEF AttemptIsAlone, Settled
  <2>5. QED
    BY <2>3, <2>4
<1>7. CASE RecordOpenSetup
  <2>1. /\ pc = "record" /\ pc' = "idle" /\ UNCHANGED <<order, open>>
        /\ recoveryReady' => tracked' = open
    BY <1>7, Zenon DEF RecordOpenSetup, brokerVars
  <2>2. QED
    BY <2>1 DEF AttemptIsAlone, Settled
<1>8. CASE Start
  BY <1>8 DEF Start, brokerVars, AttemptIsAlone, Settled
<1>9. CASE Crash
  BY <1>9 DEF Crash, AttemptIsAlone
<1>10. CASE \/ Tick \/ Retry \/ RetryEnds \/ Started \/ \E d \in Deal : ReplayDeal(d) \/ DealAdd(d)
  <2>1. /\ pc \in {"idle", "retry", "replay"} /\ pc' \in {"idle", "retry", "replay"}
        /\ UNCHANGED order
    BY <1>10 DEF Tick, Retry, RetryEnds, Started, ReplayDeal, DealAdd, brokerVars
  <2>2. recoveryReady' => recoveryReady
    <3>1. CASE Tick \/ Retry
      BY <3>1 DEF Tick, Retry
    <3>2. CASE RetryEnds
      BY <3>2, Zenon DEF RetryEnds
    <3>3. CASE Started
      BY <3>3, Zenon DEF Started
    <3>4. ASSUME NEW d \in Deal, ReplayDeal(d) PROVE recoveryReady' => recoveryReady
      BY <3>4, Zenon DEF ReplayDeal
    <3>5. ASSUME NEW d \in Deal, DealAdd(d) PROVE recoveryReady' => recoveryReady
      BY <3>5, Zenon DEF DealAdd
    <3>6. QED
      BY <1>10, <3>1, <3>2, <3>3, <3>4, <3>5
  <2>3. \/ UNCHANGED <<open, tracked>> /\ (pc' = "replay" \/ pc # "replay")
        \/ UNCHANGED open /\ tracked' = open
        \/ UNCHANGED open /\ open = None
    <3>1. CASE Tick \/ Retry \/ \E d \in Deal : ReplayDeal(d)
      BY <3>1 DEF Tick, Retry, ReplayDeal, brokerVars
    <3>2. CASE Started
      BY <3>2 DEF Started, brokerVars
    <3>3. ASSUME NEW now \in BOOLEAN, NEW ok, Finalised(now /\ Finalisable, ok), UNCHANGED open,
                 pc # "replay"
          PROVE  \/ UNCHANGED <<open, tracked>> /\ pc # "replay"
                 \/ UNCHANGED open /\ open = None
      BY <3>3 DEF Finalised, Finalise, Finalisable
    <3>4. CASE RetryEnds
      <4>1. PICK onTick \in BOOLEAN, ok \in Rewritten : Finalised(onTick /\ Finalisable, ok)
        BY <3>4 DEF RetryEnds
      <4>2. UNCHANGED open /\ pc # "replay"
        BY <3>4 DEF RetryEnds, brokerVars
      <4>3. QED
        BY <3>3, <4>1, <4>2
    <3>5. ASSUME NEW d \in Deal, DealAdd(d)
          PROVE  \/ UNCHANGED <<open, tracked>> /\ pc # "replay"
                 \/ UNCHANGED open /\ open = None
      <4>1. PICK ok \in Rewritten : Finalised(d \in history /\ d[2] = "out" /\ Finalisable, ok)
        BY <3>5 DEF DealAdd
      <4>2. UNCHANGED open /\ pc # "replay"
        BY <3>5 DEF DealAdd
      <4>3. QED
        BY <4>1, <4>2 DEF Finalised, Finalise, Finalisable
    <3>6. QED
      BY <1>10, <3>1, <3>2, <3>4, <3>5
  <2>4. QED
    BY <2>1, <2>2, <2>3 DEF AttemptIsAlone, Settled
<1>11. CASE UNCHANGED vars
  BY <1>11 DEF vars, eaVars, brokerVars, AttemptIsAlone, Settled
<1>12. QED
  BY <1>2, <1>3, <1>4, <1>5, <1>6, <1>7, <1>8, <1>9, <1>10, <1>11 DEF RecoveryNext, Expert, Broker

\* The registry names a position by the campaign of its own order.
LEMMA SetupsStep ==
    ASSUME AttemptIsAlone, SetupsAreOwn, [RecoveryNext]_vars
    PROVE  SetupsAreOwn'
<1>1. CASE RecordOpenSetup
  <2>1. tracked = current
    BY <1>1 DEF RecordOpenSetup, AttemptIsAlone
  <2>2. setups' \in {setups, setups \union {<<open, current>>}} /\ (setups' # setups => open = tracked)
    BY <1>1 DEF RecordOpenSetup
  <2>3. QED
    BY <2>1, <2>2 DEF SetupsAreOwn
<1>2. CASE setups' \subseteq setups
  BY <1>2 DEF SetupsAreOwn
<1>3. CASE Start
  BY <1>2, <1>3 DEF Start, Reconciled
<1>4. CASE RetryEnds \/ \E d \in Deal : DealAdd(d)
  <2>1. PICK now \in BOOLEAN, ok \in BOOLEAN : Finalised(now, ok)
    BY <1>4 DEF RetryEnds, DealAdd, Rewritten
  <2>2. QED
    BY <1>2, <2>1 DEF Finalised, Finalise
<1>5. CASE \/ Send \/ Return \/ Tick \/ Retry \/ Started \/ Broker \/ Crash \/ UNCHANGED vars
           \/ (\E i \in Intent : Enter(i)) \/ \E d \in Deal : ReplayDeal(d)
  <2>1. UNCHANGED setups
    BY <1>5 DEF Send, Return, Tick, Retry, Started, Broker, Fill, Reject, CloseOut, Show, Crash,
                Enter, ReplayDeal, vars
  <2>2. QED
    BY <1>2, <2>1
<1>6. QED
  BY <1>1, <1>3, <1>4, <1>5 DEF RecoveryNext, Expert

-----------------------------------------------------------------------------
(* The intents in memory.                                                  *)

\* A written row binds an intent to its own order, in memory too.
LEMMA RowIsOwn ==
    ASSUME NEW items \in IntentStates, OwnOrders(items), NEW i \in Intent,
           NEW row \in {PreparedRow, BoundRow(i), RejectedRow}, WriteIntentOf(items, i, row)
    PROVE  OwnOrders(intents')
<1>1. intents' \in {items, [items EXCEPT ![i] = row]}
  BY DEF WriteIntentOf
<1>2. items \in [Intent -> IntentRow] /\ (row.status = "bound" => row.order = i)
  BY DEF IntentStates, IntentRow, PreparedRow, BoundRow, RejectedRow
<1>3. OwnOrders([items EXCEPT ![i] = row])
  BY <1>2 DEF OwnOrders
<1>4. QED
  BY <1>1, <1>3

LEMMA MemoryStep ==
    ASSUME Distinguishable, WriteAhead, IntentsAreOrderly, OwnOrders(intents), [RecoveryNext]_vars
    PROVE  OwnOrders(intents')
<1>1. intents \in IntentStates /\ OwnOrders(intents)
  BY DEF WriteAhead, IntentTypeOK
<1>2. OwnOrders(NoIntents)
  BY DEF OwnOrders, NoIntents, Unknown
<1>3. NoIntents \in IntentStates
  BY DEF NoIntents, Unknown, IntentStates, Statuses
<1>4. Loaded \in IntentStates /\ OwnOrders(Loaded)
  <2>1. OwnOrders(intentFile.state) /\ intentFile.state \in IntentStates
    BY DEF IntentsAreOrderly, OwnOrders, WriteAhead, IntentTypeOK, File
  <2>2. QED
    BY <1>2, <1>3, <2>1 DEF Loaded
<1>5. ASSUME NEW i \in Intent, Enter(i) PROVE OwnOrders(intents')
  BY <1>1, <1>5, RowIsOwn DEF Enter, CreateIntent, WriteIntent
<1>6. CASE Return
  <2>1. current \in Intent
    BY <1>6 DEF Return, WriteAhead, IntentTypeOK
  <2>2. \/ BindOrder(current, current) \/ RejectIntent(current) \/ UNCHANGED intentVars
    BY <1>6 DEF Return, Answer
  <2>3. QED
    BY <1>1, <2>1, <2>2, RowIsOwn DEF BindOrder, RejectIntent, WriteIntent, intentVars
<1>7. CASE Tick
  <2>1. ASSUME NEW i \in Prepared(intents), WriteIntent(i, TokenRow(i)) PROVE OwnOrders(intents')
    <3>1. i \in Intent /\ TokenRow(i) \in {BoundRow(i), RejectedRow}
      BY DEF Prepared, TokenRow
    <3>2. QED
      BY <1>1, <2>1, <3>1, RowIsOwn DEF WriteIntent
  <2>2. QED
    BY <1>1, <1>7, <2>1 DEF Tick, TokenRecovery, intentVars
<1>8. CASE Start
  <2>1. PICK resolved \in BOOLEAN : OpenIntents(resolved)
    BY <1>8 DEF Start
  <2>2. ASSUME NEW i \in Prepared(Loaded), NEW row \in Resolution(i), WriteIntentOf(Loaded, i, row)
        PROVE  OwnOrders(intents')
    <3>1. i \in Intent
      BY DEF Prepared
    <3>2. row \in {TokenRow(i)} \union {BoundRow(o) : o \in Matches(i)}
      BY DEF Resolution
    <3>3. \A o \in Matches(i) : o = i
      BY <3>1 DEF Matches, Distinguishable
    <3>4. row \in {PreparedRow, BoundRow(i), RejectedRow}
      BY <3>2, <3>3 DEF TokenRow
    <3>5. QED
      BY <1>4, <2>2, <3>1, <3>4, RowIsOwn
  <2>3. QED
    BY <1>4, <2>1, <2>2 DEF OpenIntents
<1>9. CASE Crash
  BY <1>2, <1>9 DEF Crash, IntentsLost
<1>10. CASE \/ Send \/ RecordOpenSetup \/ Retry \/ RetryEnds \/ Started \/ Broker
            \/ UNCHANGED vars \/ (\E d \in Deal : ReplayDeal(d) \/ DealAdd(d))
  <2>1. UNCHANGED intents
    BY <1>10 DEF Send, RecordOpenSetup, Retry, RetryEnds, Started, Broker, Fill, Reject, CloseOut,
                 Show, ReplayDeal, DealAdd, vars, intentVars
  <2>2. QED
    BY <1>1, <2>1
<1>11. QED
  BY <1>5, <1>6, <1>7, <1>8, <1>9, <1>10 DEF RecoveryNext, Expert

-----------------------------------------------------------------------------
(* The campaigns that are written.                                         *)

\* Order, registry and journal each find the intent of the deal's own order.
LEMMA RulesFindOwn ==
    ASSUME AloneAtBroker, SetupsAreOwn, OwnOrders(intents), deals \in Seq(Row), Own(deals),
           NEW d \in Deal, PositionOf(d) = d[1]
    PROVE  Attribution(d) \in {None, d[1]} /\ ReplayAttribution(d) \in {None, d[1]}
<1>1. d[1] \in Intent
  BY DEF Deal
<1>2. ByOrder(d) \subseteq {d[1]}
  BY <1>1 DEF ByOrder, IntentOfOrder, OwnOrders
<1>3. SetupOf(PositionOf(d)) \subseteq {d[1]}
  BY <1>1 DEF SetupOf, SetupsAreOwn
<1>4. ByPosition(d) \subseteq {d[1]}
  <2> DEFINE rows == PositionRows(d)
  <2>1. ByPosition(d) = IF rows = {} THEN {} ELSE {deals[Min(rows)].campaign}
    BY DEF ByPosition, CampaignAt
  <2>2. ASSUME NEW n \in rows PROVE n \in Nat /\ deals[n].campaign = d[1]
    <3>1. /\ n \in Nat /\ deals[n] \in Row /\ deals[n].campaign = deals[n].deal[1]
          /\ PositionOf(deals[n].deal) = d[1]
      BY DEF Own, PositionRows
    <3>2. deals[n].deal[1] \in Intent
      BY <3>1 DEF Row, Deal
    <3>3. PositionOf(deals[n].deal) \in {deals[n].deal[1], None}
      BY <3>2 DEF PositionOf, AloneAtBroker
    <3>4. QED
      BY <1>1, <3>1, <3>3, JournalConstants
  <2> HIDE DEF rows
  <2>3. rows # {} => Min(rows) \in rows
    BY <2>2, MinIsLeast
  <2>4. QED
    BY <2>1, <2>2, <2>3
<1>5. <<ByOrder(d), SetupOf(PositionOf(d)), ByPosition(d)>> \in [1..3 -> SUBSET {d[1]}]
  BY <1>2, <1>3, <1>4
<1>6. <<ReplayOrder(d), SetupOf(PositionOf(d))>> \in [1..2 -> SUBSET {d[1]}]
  BY <1>2, <1>3 DEF ReplayOrder
<1>7. Attribution(d) \in {d[1]} \union {None}
  BY <1>5, FirstOfFound DEF Attribution
<1>8. ReplayAttribution(d) \in {d[1]} \union {None}
  BY <1>6, FirstOfFound DEF ReplayAttribution
<1>9. QED
  BY <1>7, <1>8

LEMMA NotedIsOwn ==
    ASSUME NEW rows \in Seq(Row), Own(rows), NEW d \in Deal, NEW c \in {None, d[1]}, NEW k \in Key
    PROVE  Own(Noted(rows, d, c, k))
<1> DEFINE row == [deal |-> d, campaign |-> c, key |-> k]
<1>1. row \in Row
  BY DEF Row, Deal, Key
<1>2. /\ DOMAIN rows = 1..Len(rows) /\ Len(rows) \in Nat
      /\ \A n \in 1..Len(rows) : rows[n] \in Row
  OBVIOUS
<1>3. CASE d \notin Journaled(rows)
  <2> DEFINE new == Append(rows, row)
  <2>1. /\ new \in Seq(Row) /\ Len(new) = Len(rows) + 1
        /\ \A n \in 1..Len(rows) : new[n] = rows[n]
        /\ new[Len(rows) + 1] = row
    BY <1>1, AppendProperties
  <2>2. DOMAIN new = 1..(Len(rows) + 1)
    BY <2>1
  <2> HIDE DEF new
  <2>3. \A n \in DOMAIN new : n \in 1..Len(rows) \/ n = Len(rows) + 1
    BY <1>2, <2>2
  <2>4. Own(new)
    BY <1>2, <2>1, <2>3 DEF Own
  <2>5. QED
    BY <1>3, <2>4 DEF Noted, new
<1>4. CASE d \in Journaled(rows)
  <2> DEFINE new == [n \in DOMAIN rows |->
                       IF rows[n].deal = d /\ rows[n].campaign = None
                       THEN [rows[n] EXCEPT !.campaign = c, !.key = k] ELSE rows[n]]
  <2>1. ASSUME NEW n \in DOMAIN rows PROVE new[n].campaign \in {None, new[n].deal[1]}
    BY <1>2, <2>1 DEF Own, Row
  <2>2. Own(new)
    BY <2>1 DEF Own
  <2>3. QED
    BY <1>4, <2>2 DEF Noted
<1>5. QED
  BY <1>3, <1>4

LEMMA AppendKeepsOwn ==
    ASSUME DealJournalOK, dealsReady, Own(dealFile.state), Own(deals),
           NEW d \in Deal, NEW c \in {None, d[1]}, NEW k \in Key,
           AppendDeal(d, c, k)
    PROVE  Own(dealFile'.state) /\ Own(deals')
<1>1. dealFile.state \in Seq(Row) /\ deals \in Seq(Row) /\ c \in Campaign
  BY DEF DealJournalOK, File, Deal, Campaign
<1>2. dealFile'.state \in {dealFile.state, Noted(dealFile.state, d, c, k)}
  BY <1>1, DealIsWritten
<1>3. deals' \in {deals, Noted(deals, d, c, k)}
  BY DEF AppendDeal, dealVars
<1>4. QED
  BY <1>1, <1>2, <1>3, NotedIsOwn

\* A deal that was made is the deal of its own position.
LEMMA MadeIsPlaced ==
    ASSUME AloneAtBroker, DealsAreMade, NEW d \in Deal, d \in made
    PROVE  PositionOf(d) = d[1]
<1>1. PICK i \in Intent : d = <<i, "in">> \/ d = <<i, "out">>
  BY DEF Deal
<1>2. CASE d = <<i, "in">>
  BY <1>2 DEF DealsAreMade, AloneAtBroker, PositionOf
<1>3. QED
  BY <1>1, <1>2 DEF PositionOf

LEMMA PersistKeepsOwn ==
    ASSUME DealJournalOK, DealsAreMade, Causes, NEW d \in Deal, NEW ok \in BOOLEAN, Persist(d, ok)
    PROVE  Own(dealFile'.state) /\ Own(deals')
<1>1. CASE Persistable(d) /\ AppendDeal(d, Attribution(d), KeyOf(d))
  <2>1. dealsReady /\ PositionOf(d) = d[1]
    BY <1>1, MadeIsPlaced DEF Persistable, DealsAreMade, Causes
  <2>2. Attribution(d) \in {None, d[1]} /\ KeyOf(d) \in Key
    BY <2>1, RulesFindOwn, AttributionIsCampaign DEF Causes, DealJournalOK
  <2>3. QED
    BY <1>1, <2>1, <2>2, AppendKeepsOwn DEF Causes
<1>2. CASE UNCHANGED dealVars
  BY <1>2 DEF dealVars, Causes
<1>3. QED
  BY <1>1, <1>2 DEF Persist

LEMMA OwnStep ==
    ASSUME Books, DealsAreMade, Causes, [RecoveryNext]_vars
    PROVE  Own(dealFile'.state) /\ Own(deals')
<1>1. ASSUME NEW d \in Deal, DealAdd(d) PROVE Own(dealFile'.state) /\ Own(deals')
  BY <1>1, PersistKeepsOwn DEF DealAdd, Books
<1>2. CASE Retry
  <2> DEFINE index == IF cursor > Len(queue) THEN 1 ELSE cursor
  <2>1. PICK written \in BOOLEAN : Persist(queue[index], written)
    BY <1>2 DEF Retry
  <2>2. queue # <<>> /\ queue \in Seq(Deal) /\ cursor \in Nat \ {0}
    BY <1>2 DEF Retry, RetryDone, Books
  <2>3. queue[index] \in Deal
    BY <2>2
  <2> HIDE DEF index
  <2>4. QED
    BY <2>1, <2>3, PersistKeepsOwn DEF Books
<1>3. ASSUME NEW d \in Deal, ReplayDeal(d) PROVE Own(dealFile'.state) /\ Own(deals')
  <2>1. /\ d \in made /\ dealsReady
        /\ UNCHANGED dealVars \/ AppendDeal(d, ReplayAttribution(d), ReplayKey(d))
    BY <1>3 DEF ReplayDeal, Books, DealsAreMade
  <2>2. ReplayAttribution(d) \in {None, d[1]} /\ ReplayKey(d) \in Key
    BY <2>1, MadeIsPlaced, RulesFindOwn, AttributionIsCampaign DEF Causes, Books, DealJournalOK
  <2>3. CASE UNCHANGED dealVars
    BY <2>3 DEF dealVars, Causes
  <2>4. QED
    BY <2>1, <2>2, <2>3, AppendKeepsOwn DEF Causes, Books
<1>4. Own(<<>>)
  BY DEF Own
<1>5. CASE Start
  BY <1>4, <1>5 DEF Start, OpenDeals, Causes
<1>6. CASE Crash
  BY <1>4, <1>6 DEF Crash, DealsLost, Causes
<1>7. CASE \/ Send \/ Return \/ RecordOpenSetup \/ Tick \/ RetryEnds \/ Started \/ Broker
           \/ UNCHANGED vars \/ \E i \in Intent : Enter(i)
  <2>1. UNCHANGED <<dealFile, deals>>
    BY <1>7 DEF Send, Return, RecordOpenSetup, Tick, RetryEnds, Started, Broker, Fill, Reject,
                CloseOut, Show, Enter, vars, dealVars
  <2>2. QED
    BY <2>1 DEF Causes
<1>8. QED
  BY <1>1, <1>2, <1>3, <1>5, <1>6, <1>7 DEF RecoveryNext, Expert

-----------------------------------------------------------------------------
(* The theorem.                                                            *)

LEMMA CausesInit == RecoveryInit => Causes
<1> SUFFICES ASSUME RecoveryInit PROVE Causes
  OBVIOUS
<1>1. AloneAtBroker
  BY DEF RecoveryInit, AloneAtBroker
<1>2. AttemptIsAlone /\ SetupsAreOwn
  BY DEF RecoveryInit, AttemptIsAlone, SetupsAreOwn
<1>3. OwnOrders(intents)
  BY DEF RecoveryInit, IntentInit, NoIntents, Unknown, OwnOrders
<1>4. Own(dealFile.state) /\ Own(deals)
  BY DEF RecoveryInit, DealInit, Empty, Own
<1>5. QED
  BY <1>1, <1>2, <1>3, <1>4 DEF Causes

\* A campaign is never guessed (AxPersistCampaignDeal, Replay): an entry deal
\* has the campaign of its own order, an exit deal that of an order whose fill
\* went to that position.
THEOREM CampaignsAreCauses ==
    ASSUME NoOpenRows, Distinguishable, Prompt
    PROVE  Recovery => []AttributedToCause
<1> DEFINE Inv == WriteAhead /\ Books /\ IntentsAreOrderly /\ DealsAreMade /\ Causes
<1>1. RecoveryInit => Inv
  BY AllBooksInit, CausesInit DEF AllBooks, Clean
<1>2. Inv /\ [RecoveryNext]_vars => Inv'
  <2> SUFFICES ASSUME Inv, [RecoveryNext]_vars PROVE Inv'
    OBVIOUS
  <2>1. WriteAhead' /\ Books' /\ IntentsAreOrderly' /\ DealsAreMade'
    BY RecoveryStep, DealStep, OrderlyStep, DealsMadeStep DEF Kept
  <2>2. AloneAtBroker' /\ AttemptIsAlone' /\ SetupsAreOwn'
    BY AloneStep, AttemptAloneStep, SetupsStep DEF Causes
  <2>3. OwnOrders(intents') /\ Own(dealFile'.state) /\ Own(deals')
    BY MemoryStep, OwnStep DEF Causes
  <2>4. Causes'
    BY <2>2, <2>3 DEF Causes, OwnOrders, Own
  <2>5. QED
    BY <2>1, <2>4
<1>3. Inv => AttributedToCause
  <2> SUFFICES ASSUME Inv, NEW row \in ToSet(dealFile.state), row.campaign # None
               PROVE  IF row.deal[2] = "in" THEN row.campaign = row.deal[1]
                      ELSE joined[row.campaign] = row.deal[1]
    BY DEF AttributedToCause
  <2>1. row \in Row /\ row.campaign = row.deal[1] /\ row.deal \in made
    <3>1. dealFile.state \in Seq(Row)
      BY DEF Books, DealJournalOK, File
    <3>2. PICK n \in DOMAIN dealFile.state : row = dealFile.state[n]
      BY DEF ToSet
    <3>3. row.deal \in Journaled(dealFile.state)
      BY DEF Journaled
    <3>4. QED
      BY <3>1, <3>2, <3>3 DEF Causes, Own, DealsAreMade
  <2>2. PICK i \in Intent : row.deal = <<i, "in">> \/ row.deal = <<i, "out">>
    BY <2>1 DEF Row, Deal
  <2>3. QED
    BY <2>1, <2>2 DEF Causes, AloneAtBroker
<1> HIDE DEF Inv
<1>4. QED
  BY <1>1, <1>2, <1>3, PTL DEF Recovery
=============================================================================

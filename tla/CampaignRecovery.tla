-------------------------- MODULE CampaignRecovery --------------------------
(***************************************************************************)
(* How the EA keeps track of what it ordered and what the broker did, over *)
(* crashes: the intent journal, the deal journal, the registry of open     *)
(* positions, the broker's history and the queue of deals that could not   *)
(* be written yet.                                                         *)
(*                                                                         *)
(*   AxAttemptEntry      PREPARE, order, BIND or REJECT, registry          *)
(*   OnTradeTransaction  a deal is written or queued, the trade finalised  *)
(*   OnTick, OnTimer     token recovery, a batch of retries, an external   *)
(*                       close is finalised (OnTick only)                  *)
(*   OnInit              registry, journals, token recovery, Replay        *)
(*                                                                         *)
(* The EA runs one handler at a time.  The broker moves at any time, its   *)
(* history becomes readable after a while, and the terminal may die        *)
(* between any two steps.  Positions are netted: an order that fills while *)
(* another position is open is added to it.                                *)
(***************************************************************************)
EXTENDS IntentJournal, DealJournal, Naturals

CONSTANTS
    Alike,          \* Alike[i]: the orders whose side, volume, stop and time fit i
    Stripped,       \* the orders whose comment the broker drops
    Synced,         \* TRUE: the history is complete whenever OnInit runs
    Prompt,         \* TRUE: no order is undecided when OnInit runs
    Repeats,        \* TRUE: a transaction may be delivered again
    RegistryFails,  \* TRUE: a rewrite of the registry may fail
    QueueMax,       \* 128: capacity of g_pendingCampaignDealTickets
    Batch,          \* 4: tickets retried at once
    MaxCrashes,     \* bound on terminal crashes
    Lost            \* the tracked position whose identifier was never read

ASSUME RecoveryConstants ==
    /\ Alike \in [Intent -> SUBSET Intent] /\ \A i \in Intent : i \in Alike[i]
    /\ Stripped \subseteq Intent
    /\ Synced \in BOOLEAN /\ Prompt \in BOOLEAN
    /\ Repeats \in BOOLEAN /\ RegistryFails \in BOOLEAN
    /\ QueueMax \in Nat \ {0} /\ Batch \in Nat \ {0} /\ MaxCrashes \in Nat
    /\ Lost \notin Intent \union {None}

VARIABLES
    pc,             \* the handler the EA is in
    current,        \* the intent of the attempt, campaignIntent
    recoveryReady,  \* g_recoveryReady
    queue,          \* g_pendingCampaignDealTickets
    cursor,         \* g_campaignDealRetryCursor, from 1
    budget,         \* tickets left in this batch
    retryBlocked,   \* g_campaignDealRetryBlocked
    tracked,        \* the position the EA manages, g_posState
    setups,         \* the registry: positions and the campaigns they were opened for
    replaying,      \* deals Replay has not seen yet
    order,          \* the broker's order for each intent
    joined,         \* the position each order's fill went to
    open,           \* the open position, named by the order that opened it
    made,           \* the deals there are
    history,        \* orders and deals the terminal can read
    pending,        \* DEAL_ADD transactions that are not delivered yet
    crashes

eaVars == <<pc, current, recoveryReady, queue, cursor, budget, retryBlocked, tracked, replaying>>
brokerVars == <<order, joined, open, made, history, pending>>
vars == <<intentVars, dealVars, eaVars, setups, brokerVars, crashes>>

Order(i) == <<i, "order">>

RecoveryInit ==
    /\ IntentInit /\ DealInit
    /\ pc = "off" /\ current = None
    /\ recoveryReady = FALSE
    /\ queue = <<>> /\ cursor = 1 /\ budget = 0 /\ retryBlocked = FALSE
    /\ tracked = None /\ setups = {} /\ replaying = {}
    /\ order = [i \in Intent |-> "none"]
    /\ joined = [i \in Intent |-> None]
    /\ open = None
    /\ made = {} /\ history = {} /\ pending = {}
    /\ crashes = 0

-----------------------------------------------------------------------------
(* The broker and the terminal's copy of its history.                      *)

Add(d) ==
    /\ made' = made \union {d}
    /\ pending' = pending \union {d}

Fill(i) ==
    /\ order[i] = "sent"
    /\ order' = [order EXCEPT ![i] = "filled"]
    /\ open' = IF open = None THEN i ELSE open
    /\ joined' = [joined EXCEPT ![i] = open']
    /\ Add(<<i, "in">>)
    /\ UNCHANGED <<intentVars, dealVars, eaVars, setups, history, crashes>>

Reject(i) ==
    /\ order[i] = "sent"
    /\ order' = [order EXCEPT ![i] = "rejected"]
    /\ UNCHANGED <<intentVars, dealVars, eaVars, setups, joined, open, made, history, pending, crashes>>

\* A stop, a target or the EA's own request closes the position.
CloseOut ==
    /\ open # None
    /\ open' = None
    /\ Add(<<open, "out">>)
    /\ UNCHANGED <<intentVars, dealVars, eaVars, setups, order, joined, history, crashes>>

Decided == {Order(i) : i \in {j \in Intent : order[j] \in {"filled", "rejected"}}}

\* The terminal learns of a deal or of an order's end; a transaction that comes
\* while the EA is not running is not delivered later.
Show(h) ==
    /\ h \in (made \union Decided) \ history
    /\ history' = history \union {h}
    /\ pending' = IF pc = "off" THEN pending \ {h} ELSE pending
    /\ UNCHANGED <<intentVars, dealVars, eaVars, setups, order, joined, open, made, crashes>>

-----------------------------------------------------------------------------
(* Attribution.                                                            *)

PositionOf(d) == IF d[2] = "out" THEN d[1] ELSE joined[d[1]]

\* The intent bound to the deal's order; a closing order belongs to none.
ByOrder(d) == IF d[2] = "in" THEN IntentOfOrder(d[1]) ELSE {}

SetupOf(p) == {c \in Intent : <<p, c>> \in setups}

\* The first of these rows.
CampaignAt(rows) == IF rows = {} THEN {} ELSE {deals[Min(rows)].campaign}

KeyAt(rows) == IF rows = {} THEN {} ELSE {deals[Min(rows)].key}

ByPosition_AnyRow(d) == CampaignAt({n \in DOMAIN deals : deals[n].campaign # None})

PositionRows(d) ==
    {n \in DOMAIN deals : /\ deals[n].campaign # None
                          /\ PositionOf(deals[n].deal) = PositionOf(d)}

\* FindAttributionByPositionIdentifier.
ByPosition(d) == CampaignAt(PositionRows(d))

\* The first rule that finds a campaign.
FirstOf(found) ==
    LET hits == {n \in DOMAIN found : found[n] # {}}
    IN  IF hits = {} THEN None ELSE CHOOSE c \in found[Min(hits)] : TRUE

\* AxPersistCampaignDeal.
Attribution(d) == FirstOf(<<ByOrder(d), SetupOf(PositionOf(d)), ByPosition(d)>>)

\* The key comes from the same rule as the campaign.
KeyBy(found, k) == IF found = {} THEN {} ELSE {k}

KeyOf(d) ==
    FirstOf(<<KeyBy(ByOrder(d), "signal"), KeyBy(SetupOf(PositionOf(d)), "setup"),
              KeyAt(PositionRows(d))>>)

\* Replay.
ReplayOrder(d) == IF intentsReady THEN ByOrder(d) ELSE {}

ReplayAttribution(d) == FirstOf(<<ReplayOrder(d), SetupOf(PositionOf(d))>>)

ReplayKey(d) ==
    FirstOf(<<KeyBy(ReplayOrder(d), "signal"), KeyBy(SetupOf(PositionOf(d)), "setup")>>)

AllAttributed ==
    /\ dealsReady
    /\ open # None => \E d \in Attributed(deals) : d[2] = "in" /\ PositionOf(d) = open

Persistable(d) ==
    /\ dealsReady
    /\ d \in history
    /\ Attribution(d) # None
    /\ ~Conflict(d, Attribution(d)) /\ ~KeyConflict(d, KeyOf(d))

\* AxPersistCampaignDeal: ok is what it returns.
Persist(d, ok) ==
    \/ Persistable(d) /\ AppendDeal(d, Attribution(d), KeyOf(d)) /\ ok = dealsReady'
    \/ ~Persistable(d) /\ UNCHANGED dealVars /\ ok = FALSE

-----------------------------------------------------------------------------
(* The registry, and the end of a trade.                                   *)

\* The outcome of a rewrite of the registry.
Rewritten == IF RegistryFails THEN BOOLEAN ELSE {TRUE}

\* The position is gone and its closing deal can be read.
Finalisable ==
    /\ tracked \in Intent
    /\ open = None
    /\ <<tracked, "out">> \in history

\* AxFinalizeTrade; ok says whether the registry was rewritten.
Finalise(ok) ==
    /\ tracked' = None
    /\ setups' = IF ok THEN {s \in setups : s[1] # tracked} ELSE setups

Finalised(now, ok) ==
    IF now THEN Finalise(ok) ELSE ok = TRUE /\ UNCHANGED <<tracked, setups>>
-----------------------------------------------------------------------------
(* AxAttemptEntry.                                                         *)

EntryAllowed_RetryLockOnly == ~retryBlocked /\ intentsReady /\ tracked = None

EntryAllowed ==
    /\ recoveryReady
    /\ ~retryBlocked
    /\ intentsReady /\ Prepared(intents) = {}
    /\ tracked = None

Enter_SendsAnyway(i) ==
    /\ pc = "idle"
    /\ EntryAllowed
    /\ CreateIntent(i)
    /\ pc' = "send" /\ current' = i
    /\ UNCHANGED recoveryReady
    /\ UNCHANGED <<dealVars, queue, cursor, budget, retryBlocked, tracked, replaying,
                   setups, brokerVars, crashes>>

\* CreateIntent; without a durable row nothing is sent.
Enter(i) ==
    /\ pc = "idle"
    /\ EntryAllowed
    /\ CreateIntent(i)
    /\ IF intentsReady'
       THEN pc' = "send" /\ current' = i /\ UNCHANGED recoveryReady
       ELSE recoveryReady' = FALSE /\ UNCHANGED <<pc, current>>
    /\ UNCHANGED <<dealVars, queue, cursor, budget, retryBlocked, tracked, replaying,
                   setups, brokerVars, crashes>>

\* OpenMarket sends the order.
Send ==
    /\ pc = "send"
    /\ order' = [order EXCEPT ![current] = "sent"]
    /\ pc' = "wait"
    /\ UNCHANGED <<intentVars, dealVars, current, recoveryReady, queue, cursor, budget, retryBlocked,
                   tracked, replaying, setups, joined, open, made, history, pending, crashes>>

\* OpenMarket returns: confirmed when it sees a position of the volume ordered,
\* with or without the order's ticket, with a definitive rejection, or with none
\* of these.
Answer(confirmed, ticket, refused) ==
    /\ confirmed => open # None /\ (joined[current] \in {None, current})
    /\ refused => ~confirmed /\ ~ticket /\ order[current] = "rejected"
    /\ \/ ticket /\ BindOrder(current, current)
       \/ ~ticket /\ refused /\ RejectIntent(current)
       \/ ~ticket /\ ~refused /\ UNCHANGED intentVars
    /\ recoveryReady' = (recoveryReady /\ intentsReady' /\ ((confirmed /\ ticket) \/ refused))
    /\ pc' = IF confirmed THEN "record" ELSE "idle"

Return ==
    /\ pc = "wait"
    /\ \E confirmed, ticket, refused \in BOOLEAN : Answer(confirmed, ticket, refused)
    /\ IF pc' = "record" THEN tracked' = open /\ UNCHANGED current
       ELSE current' = None /\ UNCHANGED tracked
    /\ UNCHANGED <<dealVars, queue, cursor, budget, retryBlocked, replaying,
                   setups, brokerVars, crashes>>

\* AxInitPositionState and RecordOpenSetup; a position that is gone by then has
\* no identifier to record.
RecordOpenSetup ==
    /\ pc = "record"
    /\ \E ok \in (IF SetupOf(open) = {} THEN Rewritten ELSE {TRUE}) :
         /\ setups' = IF ok /\ open = tracked /\ SetupOf(open) = {}
                      THEN setups \union {<<open, current>>} ELSE setups
         /\ recoveryReady' = (recoveryReady /\ ok /\ open = tracked)
    /\ tracked' = IF open = tracked THEN tracked ELSE Lost
    /\ pc' = "idle" /\ current' = None
    /\ UNCHANGED <<intentVars, dealVars, queue, cursor, budget, retryBlocked, replaying,
                   brokerVars, crashes>>

-----------------------------------------------------------------------------
(* OnTradeTransaction.                                                     *)

Overflow(d) == d \notin ToSet(queue) /\ Len(queue) >= QueueMax

Queued(d) == IF d \in ToSet(queue) \/ Overflow(d) THEN queue ELSE Append(queue, d)

\* AxQueueCampaignDealRetry, unless the deal was written; full: is it dropped?
QueueRetry_SilentlyDrops(d, written, full) ==
    /\ full = FALSE
    /\ queue' = IF written THEN queue ELSE Queued(d)
    /\ retryBlocked' = (retryBlocked \/ ~written)

QueueRetry_NoLock(d, written, full) ==
    /\ full = (~written /\ Overflow(d))
    /\ queue' = IF written THEN queue ELSE Queued(d)
    /\ UNCHANGED retryBlocked

QueueRetry(d, written, full) ==
    /\ full = (~written /\ Overflow(d))
    /\ queue' = IF written THEN queue ELSE Queued(d)
    /\ retryBlocked' = (retryBlocked \/ ~written)

DealAdd(d) ==
    /\ pc = "idle"
    /\ d \in pending
    /\ pending' \in {pending \ {d}} \union (IF Repeats THEN {pending} ELSE {})
    /\ \E written, full \in BOOLEAN, ok \in Rewritten :
         /\ Persist(d, written)
         /\ QueueRetry(d, written, full)
         /\ Finalised(d \in history /\ d[2] = "out" /\ Finalisable, ok)
         /\ recoveryReady' = (recoveryReady /\ ~full /\ ok)
    /\ UNCHANGED <<intentVars, pc, current, cursor, budget, replaying,
                   order, joined, open, made, history, crashes>>

-----------------------------------------------------------------------------
(* OnTick and OnTimer.                                                     *)

\* ReconcilePreparedOrders finds an order with the intent's token in the history.
TokenMatch(i) == i \notin Stripped /\ Order(i) \in history

TokenRow_NoDealNoOrder(i) == IF <<i, "in">> \in history THEN BoundRow(i) ELSE RejectedRow

TokenRow(i) == IF order[i] = "filled" THEN BoundRow(i) ELSE RejectedRow

TokenRecovery ==
    LET found == {i \in Prepared(intents) : TokenMatch(i)}
    IN  IF intentsReady /\ found # {}
        THEN \E i \in found : WriteIntent(i, TokenRow(i))
        ELSE UNCHANGED intentVars

\* The handler starts: token recovery, then a batch of retries.
Tick ==
    /\ pc = "idle"
    /\ TokenRecovery
    /\ pc' = "retry"
    /\ budget' = IF Len(queue) < Batch THEN Len(queue) ELSE Batch
    /\ UNCHANGED <<dealVars, current, recoveryReady, queue, cursor, retryBlocked, tracked, replaying, setups, brokerVars, crashes>>

RetryDone == budget = 0 \/ queue = <<>>

CursorAfter_Stays(index, rest, written) == IF index > Len(rest) THEN 1 ELSE index

\* The next index to try: a written ticket leaves its place to its successor.
CursorAfter(index, rest, written) ==
    IF written THEN (IF index > Len(rest) THEN 1 ELSE index)
    ELSE (index % Len(rest)) + 1

Retry ==
    /\ pc = "retry" /\ ~RetryDone
    /\ LET index == IF cursor > Len(queue) THEN 1 ELSE cursor
       IN  \E written \in BOOLEAN :
             /\ Persist(queue[index], written)
             /\ queue' = IF written THEN RemoveAt(queue, index) ELSE queue
             /\ cursor' = CursorAfter(index, queue', written)
    /\ budget' = budget - 1
    /\ UNCHANGED <<intentVars, pc, current, recoveryReady, retryBlocked, tracked, replaying,
                   setups, brokerVars, crashes>>

\* The retry lock is cleared when nothing is left; OnTick goes on to an
\* external close, OnTimer does not.
RetryEnds ==
    /\ pc = "retry" /\ RetryDone
    /\ pc' = "idle" /\ budget' = 0
    /\ retryBlocked' = (retryBlocked /\ ~(queue = <<>> /\ AllAttributed))
    /\ \E onTick \in BOOLEAN, ok \in Rewritten :
         /\ Finalised(onTick /\ Finalisable, ok)
         /\ recoveryReady' = (recoveryReady /\ ok)
    /\ UNCHANGED <<intentVars, dealVars, current, queue, cursor, replaying, brokerVars, crashes>>

-----------------------------------------------------------------------------
(* OnInit.                                                                 *)

Reconciled == {s \in setups : s[1] = open}

\* Replay's search: every order of the history whose metadata fit.
Matches(i) == {o \in Alike[i] : Order(o) \in history}

\* The row that resolves a prepared intent at startup: by its token, or else, in
\* Replay, by the only order that fits.
Resolution(i) ==
    IF TokenMatch(i) THEN {TokenRow(i)}
    ELSE IF Readable(dealFile) /\ Cardinality(Matches(i)) = 1
         THEN {BoundRow(o) : o \in Matches(i)}
         ELSE {}

Ambiguous(i) == ~TokenMatch(i) /\ Cardinality(Matches(i)) > 1

\* The intent journal is opened and its prepared intent resolved; resolved says
\* whether Replay may go on.
OpenIntents(resolved) ==
    LET left == Prepared(Loaded)
        found == {i \in left : Resolution(i) # {}}
    IN  IF Readable(intentFile) /\ found # {} /\ Cardinality(left) = 1
        THEN /\ \E i \in found : \E row \in Resolution(i) : WriteIntentOf(Loaded, i, row)
             /\ resolved = intentsReady'
        ELSE /\ intents' = Loaded
             /\ intentsReady' = Readable(intentFile)
             /\ UNCHANGED intentFile
             /\ Readable(intentFile) =>
                   resolved = ~(Cardinality(left) > 1 \/ \E i \in left : Ambiguous(i))

\* Registry, journals, token recovery and Replay's order search.
Start ==
    /\ pc = "off"
    /\ Prompt => \A i \in Intent : order[i] # "sent"
    /\ Synced => made \union Decided \subseteq history
    /\ pc' = "replay"
    /\ OpenDeals
    /\ \E ok \in (IF Reconciled = setups THEN {TRUE} ELSE Rewritten), resolved \in BOOLEAN :
         /\ setups' = IF ok THEN Reconciled ELSE setups
         /\ OpenIntents(resolved)
         /\ recoveryReady' = (ok /\ (open # None => SetupOf(open) # {})
                              /\ Readable(intentFile) /\ intentsReady'
                              /\ Readable(dealFile) /\ resolved)
         /\ replaying' = IF Readable(dealFile) /\ resolved THEN made \intersect history ELSE {}
    /\ UNCHANGED <<current, queue, cursor, budget, retryBlocked, tracked, brokerVars, crashes>>

\* Replay journals one deal of the history; a conflict or a failed write ends it.
ReplayDeal(d) ==
    LET c == ReplayAttribution(d)
    IN  /\ pc = "replay"
        /\ d \in replaying
        /\ IF Conflict(d, c) THEN UNCHANGED dealVars ELSE AppendDeal(d, c, ReplayKey(d))
        /\ LET failed == Conflict(d, c) \/ ~dealsReady'
           IN  /\ recoveryReady' = (recoveryReady /\ ~failed)
               /\ replaying' = IF failed THEN {} ELSE replaying \ {d}
    /\ UNCHANGED <<intentVars, pc, current, queue, cursor, budget, retryBlocked, tracked,
                   setups, brokerVars, crashes>>

\* The gates after Replay; the open position is adopted.
Started ==
    /\ pc = "replay" /\ replaying = {}
    /\ pc' = "idle"
    /\ recoveryReady' = (recoveryReady /\ AllAttributed /\ Prepared(intents) = {})
    /\ tracked' = open
    /\ UNCHANGED <<intentVars, dealVars, current, queue, cursor, budget, retryBlocked, replaying,
                   setups, brokerVars, crashes>>

\* The terminal dies.
Crash ==
    /\ pc # "off"
    /\ crashes < MaxCrashes
    /\ crashes' = crashes + 1
    /\ pc' = "off" /\ current' = None
    /\ recoveryReady' = FALSE
    /\ queue' = <<>> /\ cursor' = 1 /\ budget' = 0 /\ retryBlocked' = FALSE
    /\ tracked' = None /\ replaying' = {}
    /\ pending' = pending \ history
    /\ IntentsLost /\ DealsLost
    /\ UNCHANGED <<setups, order, joined, open, made, history>>


-----------------------------------------------------------------------------
Expert ==
    \/ Send \/ Return \/ RecordOpenSetup
    \/ Tick \/ Retry \/ RetryEnds
    \/ Start \/ Started
    \/ \E d \in Deal : ReplayDeal(d)

Broker ==
    \/ \E i \in Intent : Fill(i) \/ Reject(i)
    \/ CloseOut
    \/ \E h \in Deal \union {Order(i) : i \in Intent} : Show(h)

RecoveryNext ==
    \/ Expert
    \/ Broker
    \/ \E i \in Intent : Enter(i)
    \/ \E d \in Deal : DealAdd(d)
    \/ Crash

Recovery == RecoveryInit /\ [][RecoveryNext]_vars

\* The EA finishes its handlers, its ticks or its timer keep coming, and the
\* transactions MetaTrader has queued are delivered between them; the broker
\* decides every order, and its history catches up.
FairRecovery ==
    /\ Recovery
    /\ WF_vars(Expert)
    /\ \A d \in Deal : SF_vars(DealAdd(d))
    /\ \A i \in Intent : WF_vars(Fill(i) \/ Reject(i))
    /\ \A h \in Deal \union {Order(i) : i \in Intent} : WF_vars(Show(h))

-----------------------------------------------------------------------------
(* Properties.                                                             *)

\* An order leaves only when a restart would find its intent: "The campaign
\* identity and risk budget must be durable before the broker sees an order."
\* (AxAttemptEntry.)
DurableBeforeSent ==
    [][\A i \in Intent : order[i] = "none" /\ order'[i] = "sent" =>
          Readable(intentFile) /\ intentFile.state[i].status = "prepared"]_vars

Promised == INSTANCE IntentBook WITH
    status <- [i \in Intent |-> intentFile.state[i].status],
    sent <- {i \in Intent : order[i] # "none"}

\* The file, read as a restart would read it, and the orders keep the promise
\* of IntentBook through crashes, lost answers, token recovery and Replay.
ImplementsIntentBook == Promised!Book

\* An intent is closed as rejected only when its order can no longer fill:
\* unconfirmed, timed out and late orders "never become a false rejection".
RejectedIsRefused ==
    \A i \in Intent : intentFile.state[i].status = "rejected" => order[i] = "rejected"

\* Every deal the broker made is in the journal, in the retry queue, still to be
\* delivered or to be replayed, or else entries are locked; nothing is dropped
\* between callback, queue, journal and startup replay.
NoDealForgotten ==
    pc \in {"idle", "retry", "send", "wait", "record"} /\ recoveryReady =>
        made \subseteq pending \union ToSet(queue) \union Journaled(dealFile.state)

\* A campaign is never guessed: an entry deal has the campaign of its own order,
\* an exit deal that of an order whose fill went to that position.
AttributedToCause ==
    \A row \in ToSet(dealFile.state) : row.campaign # None =>
        IF row.deal[2] = "in" THEN row.campaign = row.deal[1]
        ELSE joined[row.campaign] = row.deal[1]

\* A deal delivered by a callback, retried and replayed is journaled once, and
\* its campaign and key are final; no row is lost while the file can be read.
JournalIsFinal ==
    [][/\ \A m, n \in DOMAIN dealFile'.state :
               dealFile'.state[m].deal = dealFile'.state[n].deal => m = n
       /\ Len(dealFile.state) <= Len(dealFile'.state)
       /\ \A n \in DOMAIN dealFile.state :
            /\ dealFile'.state[n].deal = dealFile.state[n].deal
            /\ dealFile.state[n].campaign # None => dealFile'.state[n] = dealFile.state[n]]_vars

\* An entry needs clean books: when an order is sent, every entry deal the EA
\* could know of is in the readable journal under a campaign.
EntersWithCleanBooks ==
    [][\A i \in Intent : order[i] = "none" /\ order'[i] = "sent" =>
          \A d \in made \ pending : d[2] = "in" => d \in Attributed(dealFile.state)]_vars

\* Every deal is journaled in the end, an entry deal with its campaign.
DealsGetJournaled ==
    \A d \in Deal : d \in made ~>
        IF d[2] = "in" THEN d \in Attributed(dealFile.state) ELSE d \in Journaled(dealFile.state)

\* What AmendAttribution refuses for ever: the ticket of a deal that is in the
\* journal under another signal key than it comes with.
Refused(d) == d \in ToSet(queue) /\ KeyConflict(d, KeyOf(d))

\* The retry lock is released again and again, whatever was queued and in what
\* order; it stays on only over a ticket that the journal refuses (AxPersist-
\* CampaignDeal, AxRetryPendingCampaignDeals).
RetryLockClears == <>[]retryBlocked => <>[](\E d \in Deal : Refused(d))

\* "Repeated callbacks for the same deal must be idempotent": the retry lock is
\* always released again.
RetryLockAlwaysClears == retryBlocked ~> ~retryBlocked

\* "The deal callback and startup history replay now resolve attribution in
\* this order: ... 3. Existing durable campaign attribution for the same broker
\* position identifier": a replayed deal whose position has a campaign in the
\* journal gets it.
ReplayAttributes ==
    [][\A d \in replaying \ replaying' : pc = "replay" /\ pc' = "replay" /\ ByPosition(d) # {} =>
          d \in Attributed(dealFile'.state) \/ ~recoveryReady']_vars

\* "managing any fill", "managing known exposure": a position the EA has opened
\* comes under its management or is closed.
FilledIsManaged == \A p \in Intent : open = p ~> tracked = p \/ open # p
=============================================================================

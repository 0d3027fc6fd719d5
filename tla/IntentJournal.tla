--------------------------- MODULE IntentJournal ----------------------------
(***************************************************************************)
(* CampaignIntentJournal.mqh: the durable record of what the EA is about   *)
(* to order.  PREPARE is written before the order, BIND when the broker's  *)
(* ticket is known, REJECT when the broker has refused.  The ticket of the *)
(* order sent for an intent is named by that intent.                       *)
(***************************************************************************)
EXTENDS JournalFile, FiniteSets

VARIABLES
    intentFile,     \* the file
    intents,        \* m_items
    intentsReady    \* m_ready

intentVars == <<intentFile, intents, intentsReady>>

Statuses == {"none", "prepared", "bound", "rejected"}
IntentStates == [Intent -> [status : Statuses, order : Intent \union {None}]]

Unknown == [status |-> "none", order |-> None]
PreparedRow == [status |-> "prepared", order |-> None]
RejectedRow == [status |-> "rejected", order |-> None]
BoundRow(o) == [status |-> "bound", order |-> o]

NoIntents == [i \in Intent |-> Unknown]

IntentInit ==
    /\ intentFile = Empty(NoIntents)
    /\ intents = NoIntents
    /\ intentsReady = FALSE

Prepared(items) == {i \in Intent : items[i].status = "prepared"}

\* WriteEvent, then m_items; a short write closes the journal.
WriteIntentOf(items, i, row) ==
    \E w \in Writes(intentFile, [items EXCEPT ![i] = row]) :
        /\ intentFile' = w.file
        /\ intentsReady' = w.ok
        /\ intents' = IF w.ok THEN [items EXCEPT ![i] = row] ELSE items

WriteIntent(i, row) == WriteIntentOf(intents, i, row)

CreateIntent(i) ==
    /\ intentsReady
    /\ intents[i].status = "none"
    /\ WriteIntent(i, PreparedRow)

BindOrder(i, o) ==
    /\ intentsReady
    /\ i \in Prepared(intents)
    /\ WriteIntent(i, BoundRow(o))

RejectIntent(i) ==
    /\ intentsReady
    /\ i \in Prepared(intents)
    /\ WriteIntent(i, RejectedRow)

\* FindByOrderTicket.
IntentOfOrder(o) ==
    {i \in Intent : intents[i].status = "bound" /\ intents[i].order = o}

\* What Init reads: nothing that counts when a row cannot be parsed.
Loaded == IF Readable(intentFile) THEN intentFile.state ELSE NoIntents

\* The terminal dies.
IntentsLost ==
    /\ intents' = NoIntents
    /\ intentsReady' = FALSE
    /\ UNCHANGED intentFile
=============================================================================

---------------------------- MODULE DealJournal -----------------------------
(***************************************************************************)
(* CampaignJournal.mqh: the broker's deals in the order they were written, *)
(* each with its campaign and its signal key, or None while it has no      *)
(* attribution.  A DEAL row adds a deal, an ATTR row gives it both.        *)
(***************************************************************************)
EXTENDS JournalFile, Sequences, SequencesExt

\* The deal that opened (or added to) a position for an intent, and the deal
\* that closed the position an intent had opened.
Deal == Intent \X {"in", "out"}

VARIABLES
    dealFile,       \* the file
    deals,          \* m_deals
    dealsReady      \* m_ready

dealVars == <<dealFile, deals, dealsReady>>

\* The signal key of a row: the key of the intent's signal, or the setup's
\* identifier, which is another string for the same campaign.
Key == {"signal", "setup", None}

Row == [deal : Deal, campaign : Intent \union {None}, key : Key]

DealInit ==
    /\ dealFile = Empty(<<>>)
    /\ deals = <<>>
    /\ dealsReady = FALSE

Journaled(rows) == {row.deal : row \in ToSet(rows)}

CampaignsOf(rows, d) == {row.campaign : row \in {r \in ToSet(rows) : r.deal = d}} \ {None}

Attributed(rows) == {d \in Deal : CampaignsOf(rows, d) # {}}

Conflict(d, c) == \E other \in CampaignsOf(deals, d) : c \notin {None, other}

\* AmendAttribution refuses an attributed deal that comes with another key.
KeyConflict(d, k) ==
    \E row \in ToSet(deals) : row.deal = d /\ row.campaign # None /\ row.key \notin {None, k}

Noted_Again(rows, d, c, k) == Append(rows, [deal |-> d, campaign |-> c, key |-> k])

\* AppendDeal of a new deal, or AmendAttribution of a known one.
Noted(rows, d, c, k) ==
    IF d \notin Journaled(rows)
    THEN Append(rows, [deal |-> d, campaign |-> c, key |-> k])
    ELSE [n \in DOMAIN rows |->
            IF rows[n].deal = d /\ rows[n].campaign = None
            THEN [rows[n] EXCEPT !.campaign = c, !.key = k] ELSE rows[n]]

\* A deal that says nothing new writes nothing; a short write closes the journal.
AppendDeal(d, c, k) ==
    LET noted == Noted(deals, d, c, k)
    IN  IF noted = deals THEN UNCHANGED dealVars
        ELSE \E w \in Writes(dealFile, noted) :
                /\ dealFile' = w.file
                /\ dealsReady' = w.ok
                /\ deals' = IF w.ok THEN noted ELSE deals

\* Init: a file that cannot be parsed is not used.
OpenDeals ==
    /\ dealsReady' = Readable(dealFile)
    /\ deals' = IF Readable(dealFile) THEN dealFile.state ELSE <<>>
    /\ UNCHANGED dealFile

DealsLost ==
    /\ deals' = <<>>
    /\ dealsReady' = FALSE
    /\ UNCHANGED dealFile
=============================================================================

----------------------------- MODULE IntentBook -----------------------------
(***************************************************************************)
(* What the intent journal promises (CampaignIntentJournal.mqh and the     *)
(* design note flipdemon-campaign-journal-reconciliation.md): an order     *)
(* leaves only under a recorded intent, one submission is unresolved at a  *)
(* time, and an intent is resolved once.  Nothing is said of files,        *)
(* restarts, callbacks or the broker's history.                            *)
(***************************************************************************)
CONSTANT Intent

VARIABLES
    status,     \* what is on record of each intent
    sent        \* the intents whose order has left

bookVars == <<status, sent>>

BookInit == status = [i \in Intent |-> "none"] /\ sent = {}

Unresolved == {i \in Intent : status[i] = "prepared"}

Prepare(i) ==
    /\ Unresolved = {} /\ status[i] = "none"
    /\ status' = [status EXCEPT ![i] = "prepared"]
    /\ UNCHANGED sent

Submit(i) ==
    /\ i \in Unresolved \ sent
    /\ sent' = sent \union {i}
    /\ UNCHANGED status

\* Only an order that has left can be bound; a refusal needs one too.
Resolve(i, outcome) ==
    /\ i \in Unresolved \intersect sent
    /\ status' = [status EXCEPT ![i] = outcome]
    /\ UNCHANGED sent

BookNext ==
    \E i \in Intent : \/ Prepare(i) \/ Submit(i)
                       \/ Resolve(i, "bound") \/ Resolve(i, "rejected")

Book == BookInit /\ [][BookNext]_bookVars
=============================================================================

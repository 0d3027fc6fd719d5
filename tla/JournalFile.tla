---------------------------- MODULE JournalFile -----------------------------
(***************************************************************************)
(* An append-only journal of the EA (CampaignIntentJournal.mqh,            *)
(* CampaignJournal.mqh), as its next Init will read it.  Every row is a    *)
(* checksummed event, and Init folds the rows from the first to the last;  *)
(* a file is therefore what that fold returns, and the state of its end:   *)
(*                                                                         *)
(*   "clean"   the last row is complete                                    *)
(*   "open"    the last row is complete but its line terminator is missing *)
(*   "torn"    some row cannot be parsed: Init refuses the file            *)
(*                                                                         *)
(* The handle is exclusive (FILE_SHARE_READ), so one EA writes a file.     *)
(***************************************************************************)
CONSTANTS
    Short,      \* what a failed write may leave behind
    Intent,     \* intent identifiers; a campaign has the identifier of its intent
    None

ASSUME JournalConstants ==
    /\ Short \subseteq {"nothing", "torn", "open"}
    /\ None \notin Intent

File(States) == [state : States, tail : {"clean", "open", "torn"}]

Empty(state) == [state |-> state, tail |-> "clean"]

Readable(file) == file.tail # "torn"

\* A whole row is appended.  After a row without a terminator it becomes part
\* of that row's line, which then has neither checksum.
Whole(file, state) ==
    IF file.tail = "clean" THEN Empty(state) ELSE [file EXCEPT !.tail = "torn"]

\* FileWriteString wrote less than the row.
Cut(file, state) ==
    {[file EXCEPT !.tail = "torn"] : how \in Short \intersect {"torn"}}
    \union {file : how \in Short \intersect {"nothing"}}
    \union {IF file.tail = "clean" THEN [state |-> state, tail |-> "open"]
            ELSE [file EXCEPT !.tail = "torn"] : how \in Short \intersect {"open"}}

\* The outcomes of writing the row that leads to this state.
Writes(file, state) ==
    {[file |-> Whole(file, state), ok |-> TRUE]}
    \union {[file |-> cut, ok |-> FALSE] : cut \in Cut(file, state)}
=============================================================================

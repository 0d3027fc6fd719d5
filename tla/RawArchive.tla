----------------------------- MODULE RawArchive -----------------------------
(***************************************************************************)
(* The run directory of an acquisition (data/raw.py): bodies stored under  *)
(* their hash, the manifest with one line for each exchange, run.json, and *)
(* the canonical files that data/provenance.py seals beside them.  Equal   *)
(* bodies have equal hashes, so a body is its own identifier.              *)
(*                                                                         *)
(* A process that is killed inside a write leaves a part of what it wrote: *)
(* a body file that is there and cannot be read, or a manifest line        *)
(* without its end.  The state of a line is                                *)
(*   "line"  complete                                                      *)
(*   "open"  complete except for its newline                               *)
(*   "torn"  not JSON any more                                             *)
(***************************************************************************)
EXTENDS Sequences, Naturals

CONSTANTS
    Short,      \* what an interrupted write may leave
    NoBody      \* no body, or no request body, in a line

ASSUME ArchiveConstants == Short \subseteq {"nothing", "torn", "open"}

NoFiles == [whole |-> {}, torn |-> {}]

\* RawStore.record: a body is written unless a file of its name exists.
Exists(files, b) == b \in files.whole \union files.torn

Store(files, b) ==
    IF b = NoBody \/ Exists(files, b) THEN files
    ELSE [files EXCEPT !.whole = @ \union {b}]

\* What is left of a body whose writing was interrupted.
CutBody(files, b) ==
    IF b = NoBody \/ Exists(files, b) \/ "torn" \notin Short THEN {files}
    ELSE {files, [files EXCEPT !.torn = @ \union {b}]}

\* A line of the manifest: the endpoint it is about, whether an error was
\* recorded, and the bodies it names.
Line(endpoint, about, raw, req, tries) ==
    [text |-> "line", endpoint |-> endpoint, about |-> about,
     raw |-> raw, req |-> req, tries |-> tries]

Tail1(lines) == lines[Len(lines)]

\* The line is written at the end of the file: behind a line without its
\* newline both become one.
Append1(lines, line) ==
    IF lines # <<>> /\ Tail1(lines).text # "line"
    THEN [lines EXCEPT ![Len(lines)].text = "torn"]
    ELSE Append(lines, line)

CutLine(lines, line) ==
    {lines} \union
    {Append1(lines, [line EXCEPT !.text = how]) : how \in Short \ {"nothing"}}

\* entries() parses every line; body() checks the hash.
Readable(lines) == \A i \in 1..Len(lines) : lines[i].text # "torn"

Named(lines) == {lines[i].raw : i \in 1..Len(lines)} \ {NoBody}

Rebuildable(files, lines) ==
    Readable(lines) /\ Named(lines) \subseteq files.whole

\* The endpoints whose bodies normalize() turns into records; the others, and
\* the token and pool states, become observations (normalize3a).
Market == {"new_pools", "trending", "top_pools", "ohlcv", "token_info", "pools_multi", "pairs", "trades"}
Evidence == {"new_pools", "trending", "top_pools", "pools_multi", "token_info",
             "signatures", "transaction", "gdelt", "reddit"}

\* What a rebuild reads, in manifest order.
Bodies(lines, endpoints) ==
    LET Read(line) == line.raw # NoBody /\ line.endpoint \in endpoints
        read == SelectSeq(lines, Read)
    IN [i \in 1..Len(read) |-> read[i].raw]

Dataset(lines) ==
    [records |-> Bodies(lines, Market), observations |-> Bodies(lines, Evidence)]

\* run.json as a run writes it before its first exchange.
NewMeta(NoHash) ==
    [status |-> "running", provenance |-> NoHash, exchanges |-> 0]

\* The provenance check (verify): every hash equals the runner's.  canonical
\* are the two sealed files, stdout the hash in normalize_stdout.json.
Verified(files, lines, meta, canonical, stdout, NoHash) ==
    /\ Rebuildable(files, lines)
    /\ \/ /\ meta.provenance # NoHash
          /\ canonical = meta.provenance
          /\ Dataset(lines) = meta.provenance
          /\ meta.status = "COMPLETE"
       \/ /\ meta.provenance = NoHash
          /\ stdout # NoHash
          /\ Bodies(lines, Market) = stdout
=============================================================================

----------------------------- MODULE SpineExport -----------------------------
(***************************************************************************)
(* What a pooled export of a book promises (src/web/app.js, the comment on *)
(* the export pool): the spines are encoded in any order, each of them     *)
(* once, and the file is all of them in SPINE order - or there is no file. *)
(***************************************************************************)
EXTENDS Integers, Sequences

CONSTANTS
  Books,       \* books that may be exported
  SpineCount   \* SpineCount[b]: number of spines of book b

VARIABLES
  status,  \* "idle", "running", "saved" or "failed"
  source,  \* the book being exported
  encoded, \* the spines encoded so far
  file     \* the file: the spine records in file order

avars == <<status, source, encoded, file>>

Init ==
  /\ status = "idle"
  /\ source \in Books
  /\ encoded = {}
  /\ file = << >>

\* The export of book b begins.
Begin(b) ==
  /\ status = "idle"
  /\ status' = "running"
  /\ source' = b
  /\ UNCHANGED <<encoded, file>>

\* A spine that was not encoded yet is.
Encode(s) ==
  /\ status = "running"
  /\ s \notin encoded
  /\ encoded' = encoded \cup {s}
  /\ UNCHANGED <<status, source, file>>

\* The whole book, in spine order.
Save ==
  /\ status = "running"
  /\ encoded = 0 .. SpineCount[source] - 1
  /\ status' = "saved"
  /\ file' = [i \in 1..SpineCount[source] |-> [book |-> source, spine |-> i - 1]]
  /\ encoded' = {}
  /\ UNCHANGED source

\* No file.
Fail ==
  /\ status = "running"
  /\ status' = "failed"
  /\ encoded' = {}
  /\ UNCHANGED <<source, file>>

Next ==
  \/ \E b \in Books : Begin(b)
  \/ \E s \in 0 .. SpineCount[source] - 1 : Encode(s)
  \/ Save
  \/ Fail

Spec == Init /\ [][Next]_avars
=============================================================================

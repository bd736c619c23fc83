---------------------------- MODULE StateSummary ----------------------------
(***************************************************************************)
(* The document kept in data/state_summary.json and the file that holds    *)
(* it.                                                                     *)
(*                                                                         *)
(* A document has the three objects of the JSON: "alerts" (one counter per *)
(* entrance), "supplies" (one amount per category/key pair) and            *)
(* "emergency" (two texts).  Counters are relative to the value they had   *)
(* when the server booted; an amount or a text that the file held at boot  *)
(* is Unset.                                                               *)
(*                                                                         *)
(* A file is what the C library sees of it: its size, and the document     *)
(* whose text starts at offset 0.  DocLen is the length of the printed     *)
(* text of a document.                                                     *)
(***************************************************************************)
EXTENDS Integers

CONSTANTS
  Entry,       \* entrances with a temperature sensor (NORTH, EAST, ...)
  Item,        \* category/key pairs whose category exists in the document
  Amount,      \* amounts an administrator can ask for
  MaxAlerts,   \* bound on the alerts raised at one entrance
  Unset,       \* the value the file held at boot
  NoDoc,       \* no document: an empty file, an unused buffer
  Torn,        \* text that cJSON_Parse rejects
  DocLen(_)    \* length of the text cJSON_Print makes of a document

EmergencyKey == {"last_keepalived", "last_event"}

\* A text an emergency process writes; it is garbled when uninitialised bytes
\* are taken along.
EventText == {"intact", "garbled"}

Doc == [alerts    : [Entry -> 0..MaxAlerts],
        supplies  : [Item -> Amount \cup {Unset}],
        emergency : [EmergencyKey -> EventText \cup {Unset}]]

ASSUME MaxAlertsType == MaxAlerts \in Nat
ASSUME SentinelsAreNoDocs == NoDoc \notin Doc /\ Torn \notin Doc /\ NoDoc # Torn
ASSUME DocLenType == \A d \in Doc : DocLen(d) \in Nat \ {0}

\* The document in the file when the server starts.
BootDoc == [alerts    |-> [e \in Entry |-> 0],
            supplies  |-> [i \in Item |-> Unset],
            emergency |-> [k \in EmergencyKey |-> Unset]]

-----------------------------------------------------------------------------
(***************************************************************************)
(* What a process does with the file.  "status" only reads it; each of the *)
(* other kinds reads it, edits the parsed document and writes it back.     *)
(***************************************************************************)
StatusOp == [kind |-> "status"]
SupplyOp == [kind : {"supply"}, item : Item, amount : Amount]
EntryOp  == [kind : {"entry"}, entry : Entry]
EventOp  == [kind : {"event"}, key : EmergencyKey, text : EventText]

Op == {StatusOp} \cup SupplyOp \cup EntryOp \cup EventOp

\* Mutant of Edit: an alert is counted twice.
EditCountsTwice(o, d) ==
  CASE o.kind = "supply" -> [d EXCEPT !.supplies[o.item] = o.amount]
    [] o.kind = "entry"  -> [d EXCEPT !.alerts[o.entry] = @ + 2]
    [] o.kind = "event"  -> [d EXCEPT !.emergency[o.key] = o.text]
    [] o.kind = "status" -> d

\* The edit of one read-modify-write: set_supply_status overrides (or adds)
\* one amount, add_entry_to_json adds one to a counter, add_event_to_json
\* overrides one text.  Every other value is carried over from the document
\* that was read.
Edit(o, d) ==
  CASE o.kind = "supply" -> [d EXCEPT !.supplies[o.item] = o.amount]
    [] o.kind = "entry"  -> [d EXCEPT !.alerts[o.entry] = @ + 1]
    [] o.kind = "event"  -> [d EXCEPT !.emergency[o.key] = o.text]
    [] o.kind = "status" -> d

-----------------------------------------------------------------------------
(***************************************************************************)
(* The file.                                                               *)
(***************************************************************************)
File == [doc : Doc \cup {NoDoc}, size : Nat]

Holds(d) == [doc |-> d, size |-> DocLen(d)]

\* fopen(filename, "w") cuts the file to length zero.
Truncated == [doc |-> NoDoc, size |-> 0]

\* The text of d is written at offset 0 by one write, when fclose flushes the
\* stream.  If another process wrote a longer text since the truncation, the
\* end of that text stays behind d.
Overwritten(f, d) ==
  [doc  |-> d,
   size |-> IF f.size > DocLen(d) THEN f.size ELSE DocLen(d)]

\* What the first n bytes of f parse to.  cJSON_Parse stops at the end of the
\* first object, so bytes left behind it do not matter; a text that ends
\* before its closing brace is rejected.
Fetched(f, n) == IF n >= DocLen(f.doc) THEN f.doc ELSE Torn
=============================================================================

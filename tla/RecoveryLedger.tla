--------------------------- MODULE RecoveryLedger ---------------------------
(***************************************************************************)
(* The write-ahead log of luv_recovery.hpp, as operators on the log.       *)
(*                                                                         *)
(* The file is represented by what a reader would get out of it: "valid"   *)
(* says that replay() would succeed, "book" what it would return, and      *)
(* "behind" that the writer's _sequence no longer counts a record that     *)
(* reached the file.  replay() folds apply() over the records from the     *)
(* front and stops at the first bad one, so this prefix summary determines *)
(* the result of every later replay.                                       *)
(***************************************************************************)
EXTENDS Naturals

CONSTANT Ids        \* order ids

\* A RecoveredOrder; an id without one has nothing remaining.
NoRecovered == [rem |-> 0, price |-> 0, side |-> "buy"]

RecoveryLog == [valid : BOOLEAN, behind : BOOLEAN,
                book : [Ids -> [rem : Nat, price : Nat, side : {"buy", "sell"}]]]

EmptyLog == [valid |-> TRUE, behind |-> FALSE, book |-> [id \in Ids |-> NoRecovered]]

\* A file no replay() gets through; nothing appended later can repair it.
Unreadable == [EmptyLog EXCEPT !.valid = FALSE]

\* What append_with_side() can come to: the record written and synced; write()
\* failing before any byte; a short write that leaves part of a record; fsync()
\* failing after the whole record has been written.
AppendOutcomes == {"ok", "unwritten", "torn", "unsynced"}

Event(type, id, qty, price, side) ==
    [type |-> type, id |-> id, qty |-> qty, price |-> price, side |-> side]

\* Whether apply() takes the event in a book, and the book it leaves.
Applicable(book, ev) ==
    LET rem == book[ev.id].rem
    IN  CASE ev.type = "Add" -> rem = 0
          [] ev.type \in {"Fill", "TerminalFill"} -> rem > 0 /\ ev.qty <= rem
          [] ev.type \in {"Replace", "Cancel"} -> rem > 0

Applied(book, ev) ==
    LET old == book[ev.id]
    IN  [book EXCEPT ![ev.id] =
          CASE ev.type = "Add" ->
                   [rem |-> ev.qty, price |-> ev.price, side |-> ev.side]
            [] ev.type = "Fill" /\ ev.qty < old.rem ->
                   [old EXCEPT !.rem = old.rem - ev.qty]
            [] ev.type = "Replace" ->
                   [rem |-> ev.qty, price |-> ev.price, side |-> old.side]
            [] OTHER -> NoRecovered]

\* The log after append_with_side(); the call returns true only for "ok".  A
\* record appended while the writer is behind repeats a sequence number, and
\* one appended after a torn record is misaligned: either ends replay.
Appended(log, ev, outcome) ==
    CASE outcome = "unwritten" -> log
      [] outcome = "torn" -> Unreadable
      [] OTHER ->
           IF log.valid /\ ~log.behind /\ Applicable(log.book, ev)
           THEN [log EXCEPT !.book = Applied(@, ev), !.behind = (outcome = "unsynced")]
           ELSE Unreadable

=============================================================================

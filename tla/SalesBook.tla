------------------------------ MODULE SalesBook ------------------------------
(***************************************************************************)
(* What a register keeps, in the terms of its owner: a book with an entry  *)
(* for every sale of the house, and the report of each day.  A sale is     *)
(* entered once with the date it was made, the entry may be voided, comped *)
(* or refunded but what was sold, for how much and how it was paid never   *)
(* changes, and the book is emptied by the end of the day and only by it.  *)
(*                                                                         *)
(* Nothing is said of memory, tables, writes or restarts.                  *)
(***************************************************************************)
EXTENDS Integers

CONSTANTS
  Slips,   \* ticket numbers
  LastDay, \* bound: days of business
  None     \* no entry, no report

VARIABLES
  book,    \* the entry of a slip: [status, closed, sale]
  reports, \* the entries a day was reported with
  today

bookVars == <<book, reports, today>>

Empty == [slip \in Slips |-> None]
Entered(day) == {slip \in Slips : book[slip] # None /\ book[slip].closed = day}

BookInit ==
  /\ book = Empty
  /\ reports = [day \in 0..LastDay |-> None]
  /\ today = 1

\* Nothing but the entry of one slip changes.
OnlyEntry(slip) ==
  /\ book' = [book EXCEPT ![slip] = book'[slip]]
  /\ UNCHANGED <<reports, today>>

\* A sale, or a ticket that was voided before it was paid.
Enter(slip) ==
  /\ book[slip] = None
  /\ OnlyEntry(slip)
  /\ book'[slip] # None
  /\ book'[slip].status \in {"CLOSED", "VOIDED"}
  /\ book'[slip].closed = today

Adjust(slip, status) ==
  /\ book[slip] # None /\ book[slip].status = "CLOSED"
  /\ book' = [book EXCEPT ![slip].status = status]
  /\ UNCHANGED <<reports, today>>

EndOfDay ==
  /\ reports' = [reports EXCEPT ![today] = {<<slip, book[slip]>> : slip \in Entered(today)}]
  /\ book' = Empty
  /\ UNCHANGED today

Tomorrow ==
  /\ today' = today + 1
  /\ UNCHANGED <<book, reports>>

BookNext ==
  \/ \E slip \in Slips : Enter(slip)
  \/ \E slip \in Slips, status \in {"VOIDED", "COMPED", "REFUNDED"} : Adjust(slip, status)
  \/ EndOfDay \/ Tomorrow

BookSpec == BookInit /\ [][BookNext]_bookVars
=============================================================================

---------------------------- MODULE PosManagerBook ----------------------------
(***************************************************************************)
(* PosManager keeps the book of SalesBook, through restarts of the daemon: *)
(* while it runs the book is what is in memory, while it is down the book  *)
(* is what is in the tables, and dying and starting again changes nothing. *)
(* Slips that were ever put on hold as a phone order are left out: what    *)
(* becomes of their rows is another story (README, section 4).  So is the  *)
(* slip without a number (NoId), which is that of an order that has lost   *)
(* its ticket.                                                             *)
(***************************************************************************)
EXTENDS PosManager

\* The entry of a ticket, whose lines are the given set of rows.
EntryOf(t, rows) ==
  [status |-> t.status, closed |-> t.closed,
   sale |-> <<rows, t.total, t.payments, t.paid, t.change, t.fee>>]

TheBook ==
  [id \in Slips |->
     LET t == IF up THEN tickets[id] ELSE db.tickets[id] IN
     IF InAnOrder(id) \/ t = NoRow THEN NoRow
     ELSE IF t.status = "OPEN" THEN NoRow
     ELSE EntryOf(t, IF up THEN StoredLines(t.items) ELSE t.items)]

TheReports ==
  [d \in Dates |->
     LET rpt == IF up THEN archived[d] ELSE db.reports[d] IN
     IF rpt = NoRow THEN NoRow
     ELSE {<<s[1], EntryOf(s[2], StoredLines(s[2].items))>> :
             s \in {s \in rpt : s[1] \in Slips /\ ~InAnOrder(s[1])}}]

Book == INSTANCE SalesBook WITH
  LastDay <- MaxDay, None <- NoRow,
  book <- TheBook, reports <- TheReports

\* The engine and its tables keep the book: every step of it, each commit, a
\* crash between two operations and the restart after it included, is one step
\* of the book or none (no sale is lost, entered twice, changed by a later
\* operation or a reload, or cleared unreported on its day).
KeepsTheBook == Book!BookSpec
=============================================================================

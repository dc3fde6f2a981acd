------------------------------ MODULE Database ------------------------------
(***************************************************************************)
(* The SQLite store as PosManager sees it: the tables it reads back when   *)
(* the daemon starts, and the writes it sends.  A write is one commit: a   *)
(* whole transaction for save_ticket and save_report, one autocommitted    *)
(* statement for the others, so a handler that makes three writes can be   *)
(* cut after any of them.                                                  *)
(*                                                                         *)
(* A table is a function from keys to rows that has an entry for every key *)
(* of the instance; NoRow is the entry of a key that is not in the table.  *)
(***************************************************************************)
EXTENDS TicketLines

CONSTANT NoRow

\* Mutant of Loaded: the column receipt_printed is not read back.
LoadedUnprinted(row) == [row EXCEPT !.items = LoadedLines(row.items), !.printed = FALSE]

\* Mutant of Loaded: the column cc_fee is not read back.
LoadedWithoutFee(row) == [row EXCEPT !.items = LoadedLines(row.items), !.fee = 0]

\* The row (and the rows of ticket_items and payments) save_ticket leaves
\* for a ticket, and the Ticket load_all_tickets makes of them.
Row(t) == [t EXCEPT !.items = StoredLines(t.items)]
Loaded(row) == [row EXCEPT !.items = LoadedLines(row.items)]

\* The writes of Database that PosManager issues.
SaveTicket(id, t)       == [op |-> "save_ticket", id |-> id, ticket |-> t]
DeleteTicket(id)        == [op |-> "delete_ticket", id |-> id]
SetTicketPrinted(id, b) == [op |-> "set_ticket_printed", id |-> id, printed |-> b]
SaveOrderRow(oid, row)  == [op |-> "save_phone_order", oid |-> oid, row |-> row]
SaveSeq(name, n)        == [op |-> "save_seq", name |-> name, value |-> n]
SaveReport(date, rpt)   == [op |-> "save_report", date |-> date, report |-> rpt]
SaveTaxRate(bps)        == [op |-> "save_setting", bps |-> bps]

\* save_phone_order saves the snapshot ticket in a transaction of its own
\* first and inserts the phone_orders row after it: two commits.
SavePhoneOrder(oid, po) ==
  <<SaveTicket(po.tid, po.ticket),
    SaveOrderRow(oid, [tid |-> po.tid, status |-> po.status])>>

\* What a committed write does to the tables.  The UPDATE of
\* set_ticket_printed touches no row when the ticket is not in the table; the
\* upsert of save_phone_order never changes the ticket_id of an order.
Apply(db, w) ==
  CASE w.op = "save_ticket"      -> [db EXCEPT !.tickets[w.id] = Row(w.ticket)]
    [] w.op = "delete_ticket"    -> [db EXCEPT !.tickets[w.id] = NoRow]
    [] w.op = "set_ticket_printed" ->
         IF db.tickets[w.id] = NoRow THEN db
         ELSE [db EXCEPT !.tickets[w.id].printed = w.printed]
    [] w.op = "save_phone_order" ->
         IF db.orders[w.oid] = NoRow
         THEN [db EXCEPT !.orders[w.oid] = w.row]
         ELSE [db EXCEPT !.orders[w.oid].status = w.row.status]
    [] w.op = "save_seq"         -> [db EXCEPT !.seq[w.name] = w.value]
    [] w.op = "save_report"      -> [db EXCEPT !.reports[w.date] = w.report]
    [] w.op = "save_setting"     -> [db EXCEPT !.taxRate = w.bps]

\* save_ticket and save_report throw when BEGIN or COMMIT fails, and the rest
\* of the handler is not executed; the other writes drop the result of
\* sqlite3_step, and the handler goes on.
Throws(w) == w.op \in {"save_ticket", "save_report"}

\* load_all_tickets and load_all_phone_orders.  An order whose ticket row is
\* gone comes back with a default-constructed Ticket, whose id is "".
LoadTickets(db) ==
  [id \in DOMAIN db.tickets |->
     IF db.tickets[id] = NoRow THEN NoRow ELSE Loaded(db.tickets[id])]

LoadOrders(db, noId, emptyTicket) ==
  [oid \in DOMAIN db.orders |->
     LET row == db.orders[oid] IN
     IF row = NoRow THEN NoRow
     ELSE IF db.tickets[row.tid] = NoRow
          THEN [tid |-> noId, ticket |-> emptyTicket, status |-> row.status]
          ELSE [tid |-> row.tid, ticket |-> Loaded(db.tickets[row.tid]),
                status |-> row.status]]
=============================================================================

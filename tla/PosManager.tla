----------------------------- MODULE PosManager -----------------------------
(***************************************************************************)
(* The engine of vt_daemon: tickets, phone orders, sequences, archived     *)
(* reports and the tax rate, in memory and in the SQLite database.         *)
(*                                                                         *)
(* Every operation of the class holds mu_ from its first statement to its  *)
(* last, database writes included.  An operation is therefore one action   *)
(* that changes the memory and leaves its writes, in order, in pending;    *)
(* mu_ is free again when pending is empty.  CommitWrite commits the first *)
(* of them, WriteFails makes it fail, and Crash forgets what is left.      *)
(*                                                                         *)
(* Tickets are known by the number their sequence gave them: 1 is          *)
(* T-000001.  Id 0 is the empty string, the id of a default-constructed    *)
(* Ticket; date 0 is the empty date.                                       *)
(***************************************************************************)
EXTENDS Database

CONSTANTS
  LineKeys,       \* the line keys customers ask for, as LineKey builds them
  UnitPrice,      \* the price of one unit of a line with this key
  TaxRates,       \* basis points the settings screen may send
  DefaultTaxRate, \* the rate the constructor is given
  Payments,       \* payment legs, pooled by type: [cash, card]
  CardFees,       \* credit card fees the register may add
  MaxTickets,     \* bound: ticket numbers used
  MaxOrders,      \* bound: phone order numbers used
  MaxLines,       \* bound: lines on a ticket
  MaxQty,         \* bound: units on a line
  MaxDay,         \* bound: days of business
  MaxCrashes,     \* bound: times the daemon dies
  MaxFailures,    \* bound: writes that fail
  TornHandlers,   \* TRUE: the daemon may die between two writes of a handler
  PrinterWorks    \* TRUE: prints succeed, and are recorded on the ticket

NoId   == 0
NoDate == 0
Ids    == 0..MaxTickets
Oids   == 1..MaxOrders
Dates  == 0..MaxDay
SeqNames == {"ticket", "phone_order"}

Settled == {"CLOSED", "COMPED", "REFUNDED"}
Statuses == Settled \cup {"OPEN", "VOIDED"}
OrderStatuses == {"HOLDING", "COMPLETED", "CANCELLED"}

Line  == [key : LineKeys, price : {UnitPrice[k] : k \in LineKeys}, qty : 1..MaxQty]
Items == {items \in Seq(Line) : Len(items) <= MaxLines}

\* struct Ticket with its items in the form X: a sequence in memory, a set of
\* rows in the database.  created_at_ms and payment_type are left out.
TicketOf(X) ==
  [status : Statuses, items : X, subtotal : Int, tax : Int, total : Int,
   payments : [cash : Nat, card : Nat], paid : Int, change : Int, fee : Nat,
   closed : Dates, printed : BOOLEAN]
Ticket == TicketOf(Items)

\* struct PhoneOrder, over a set T of tickets: tid is ticket.id.
PhoneOrderOf(T) == [tid : Ids, ticket : T, status : OrderStatuses]
OrderRow == [tid : Ids, status : OrderStatuses]

\* A DailyReport stands for the tickets that were accumulated into it.
ReportOf(T) == {S \in SUBSET (Ids \X T) : IsFiniteSet(S)}

ASSUME BoundsAssumption ==
  /\ MaxTickets \in Nat /\ MaxOrders \in Nat
  /\ MaxLines \in Nat /\ MaxQty \in Nat \ {0} /\ MaxDay \in Nat \ {0}
  /\ MaxCrashes \in Nat /\ MaxFailures \in Nat
  /\ TornHandlers \in BOOLEAN /\ PrinterWorks \in BOOLEAN

ASSUME MoneyAssumption ==
  /\ UnitPrice \in [LineKeys -> Int]
  /\ TaxRates \subseteq Nat \ {0} /\ DefaultTaxRate \in Nat
  /\ Payments \subseteq [cash : Nat, card : Nat]
  /\ CardFees \subseteq Nat

ASSUME NoRowAssumption ==
  NoRow \notin Ticket \cup TicketOf(SUBSET Line)
                \cup PhoneOrderOf(Ticket) \cup OrderRow

-----------------------------------------------------------------------------
VARIABLES
  tickets,      \* tickets_: NoRow where the map has no entry
  orders,       \* phone_orders_, with the snapshot each holds
  seq,          \* ticket_seq_ and phone_order_seq_
  archived,     \* archived_reports_, by date
  taxRate,      \* tax_rate_bps_
  db,           \* the tables
  pending,      \* writes the operation that holds mu_ has still to make
  up,           \* the daemon is running
  today,        \* the date today_str() gives
  crashes, failures

memory == <<tickets, orders, seq, archived, taxRate>>
vars == <<memory, db, pending, up, today, crashes, failures>>

-----------------------------------------------------------------------------
EmptyTicket ==
  [status |-> "OPEN", items |-> <<>>, subtotal |-> 0, tax |-> 0, total |-> 0,
   payments |-> [cash |-> 0, card |-> 0], paid |-> 0, change |-> 0, fee |-> 0,
   closed |-> NoDate, printed |-> FALSE]

EmptyDb ==
  [tickets |-> [id \in Ids |-> NoRow], orders |-> [oid \in Oids |-> NoRow],
   seq |-> [name \in SeqNames |-> 0], reports |-> [d \in Dates |-> NoRow],
   taxRate |-> NoRow]

\* Ticket::recalculate.
Recalculated(t, bps) ==
  LET sum == LinesSubtotal(t.items)
      tax == RoundedTax(sum, bps) IN
  [t EXCEPT !.subtotal = sum, !.tax = tax, !.total = sum + tax]

\* No operation holds mu_.
Ready == up /\ pending = <<>>

InMemory(id) == tickets[id] # NoRow
IsOpen(id)   == InMemory(id) /\ tickets[id].status = "OPEN"
Holding(oid) == orders[oid] # NoRow /\ orders[oid].status = "HOLDING"

\* The frame of an operation: its writes wait to be committed, in order.
Writes(ws) == pending' = ws /\ UNCHANGED <<db, up, today, crashes, failures>>

\* Most operations replace one ticket and save it.
Store(id, t) ==
  /\ tickets' = [tickets EXCEPT ![id] = t]
  /\ Writes(<<SaveTicket(id, t)>>)
  /\ UNCHANGED <<orders, seq, archived, taxRate>>

\* Mutant of Load: the sequences are not read back.
LoadWithoutSeq ==
  /\ tickets'  = LoadTickets(db)
  /\ orders'   = LoadOrders(db, NoId, EmptyTicket)
  /\ seq'      = [name \in SeqNames |-> 0]
  /\ archived' = db.reports
  /\ taxRate'  = IF db.taxRate = NoRow THEN DefaultTaxRate ELSE db.taxRate

\* The memory of a PosManager that has just been constructed and has loaded
\* the tables (constructor, set_database, load_from_database).
Load ==
  /\ tickets'  = LoadTickets(db)
  /\ orders'   = LoadOrders(db, NoId, EmptyTicket)
  /\ seq'      = db.seq
  /\ archived' = db.reports
  /\ taxRate'  = IF db.taxRate = NoRow THEN DefaultTaxRate ELSE db.taxRate

-----------------------------------------------------------------------------
(* Tickets *)

\* new_ticket hands out the newest empty OPEN ticket when there is one and
\* changes nothing; otherwise it makes a ticket with the next number.
NewTicket ==
  /\ Ready
  /\ \A id \in Ids : IsOpen(id) => tickets[id].items # <<>>
  /\ seq["ticket"] < MaxTickets
  /\ LET id == seq["ticket"] + 1 IN
     /\ seq' = [seq EXCEPT !["ticket"] = id]
     /\ tickets' = [tickets EXCEPT ![id] = EmptyTicket]
     /\ Writes(<<SaveTicket(id, EmptyTicket), SaveSeq("ticket", id)>>)
  /\ UNCHANGED <<orders, archived, taxRate>>

\* The line operations all end in recalculate and save_ticket.
EditLines(id, items) ==
  Store(id, Recalculated([tickets[id] EXCEPT !.items = items], taxRate))

\* Mutant of AddItem: the status of the ticket is not looked at.
AddItemToAnyTicket(id, key, qty) ==
  /\ Ready /\ InMemory(id)
  /\ LET items == AddLine(tickets[id].items,
                          [key |-> key, price |-> UnitPrice[key], qty |-> qty]) IN
     /\ items \in Items
     /\ EditLines(id, items)

\* Membership in Items bounds the lines and units of a ticket.
AddItem(id, key, qty) ==
  /\ Ready /\ IsOpen(id)
  /\ LET items == AddLine(tickets[id].items,
                          [key |-> key, price |-> UnitPrice[key], qty |-> qty]) IN
     /\ items \in Items
     /\ EditLines(id, items)

RemoveItem(id, i) ==
  /\ Ready /\ IsOpen(id)
  /\ i \in Findable(tickets[id].items)
  /\ EditLines(id, RemoveLine(tickets[id].items, i))

DecreaseItem(id, i) ==
  /\ Ready /\ IsOpen(id)
  /\ i \in Findable(tickets[id].items)
  /\ EditLines(id, DecreaseLine(tickets[id].items, i))

\* The item of the line stays; modifiers and instructions, and with them the
\* key, are new.
UpdateItem(id, i, key) ==
  /\ Ready /\ IsOpen(id)
  /\ LET items == tickets[id].items IN
     /\ i \in DOMAIN items
     /\ i = FirstWithKey(items, items[i].key)
     /\ key.item = items[i].key.item
     /\ EditLines(id, UpdateLine(items, i, key, UnitPrice[key]))

\* checkout stores the fee in the ticket before it looks at the money: a
\* refused payment leaves it there, in memory only.
Refused(t, legs, fee) == legs.cash + legs.card < t.total + fee

CheckoutRefused(id, legs, fee) ==
  /\ Ready /\ IsOpen(id)
  /\ Refused(tickets[id], legs, fee)
  /\ tickets' = [tickets EXCEPT ![id].fee = fee]
  /\ Writes(<<>>)
  /\ UNCHANGED <<orders, seq, archived, taxRate>>

\* Mutant of Paid: the card fee is not taken off the change.
PaidWithoutFee(t, legs, fee) ==
  [t EXCEPT !.fee = fee, !.payments = legs, !.paid = legs.cash + legs.card,
            !.change = (legs.cash + legs.card) - t.total,
            !.status = "CLOSED", !.closed = today]

Paid(t, legs, fee) ==
  [t EXCEPT !.fee = fee, !.payments = legs, !.paid = legs.cash + legs.card,
            !.change = (legs.cash + legs.card) - (t.total + fee),
            !.status = "CLOSED", !.closed = today]

Checkout(id, legs, fee) ==
  /\ Ready /\ IsOpen(id)
  /\ ~Refused(tickets[id], legs, fee)
  /\ Store(id, Paid(tickets[id], legs, fee))

\* Mutant of VoidTicket: a ticket of any status can be voided.
VoidAnyTicket(id) ==
  /\ Ready /\ InMemory(id)
  /\ Store(id, [tickets[id] EXCEPT !.status = "VOIDED",
                  !.closed = IF @ = NoDate THEN today ELSE @])

VoidTicket(id) ==
  /\ Ready /\ InMemory(id)
  /\ tickets[id].status \in {"OPEN", "CLOSED"}
  /\ Store(id, [tickets[id] EXCEPT !.status = "VOIDED",
                  !.closed = IF @ = NoDate THEN today ELSE @])

\* comp_ticket and refund_ticket.
Settle(id, status) ==
  /\ Ready /\ InMemory(id)
  /\ tickets[id].status = "CLOSED"
  /\ Store(id, [tickets[id] EXCEPT !.status = status])

CompTicket(id)   == Settle(id, "COMPED")
RefundTicket(id) == Settle(id, "REFUNDED")

\* mark_ticket_printed: the ticket in memory and its row, or only the row of
\* a ticket that is not in memory.  The server calls it when a print has
\* succeeded.
MarkTicketPrinted(id) ==
  \/ /\ Ready /\ PrinterWorks /\ InMemory(id)
     /\ Store(id, [tickets[id] EXCEPT !.printed = TRUE])
  \/ /\ Ready /\ PrinterWorks /\ ~InMemory(id)
     /\ Writes(<<SetTicketPrinted(id, TRUE)>>)
     /\ UNCHANGED memory

-----------------------------------------------------------------------------
(* End of day *)

\* Mutant of ClosedOn: the date of a ticket is not looked at.
ClosedOnAnyDate(date) ==
  {<<id, tickets[id]>> : id \in {i \in Ids : InMemory(i) /\ tickets[i].closed # NoDate}}

\* accumulate_report over the tickets closed on a date.
ClosedOn(date) ==
  {<<id, tickets[id]>> : id \in {i \in Ids : InMemory(i) /\ tickets[i].closed = date}}

\* Mutant of Deletable: OPEN tickets are cleared too.
DeletableAlways(id) == InMemory(id)

Deletable(id) ==
  /\ InMemory(id)
  /\ tickets[id].status # "OPEN" \/ tickets[id].items = <<>>

\* Mutant of EndDay: the predicate of remove_if is inverted.
EndDayDropsOtherDays ==
  /\ Ready
  /\ LET z == ClosedOn(today)
         gone == {id \in Ids : Deletable(id)} IN
     /\ archived' = [d \in Dates |-> IF d = today THEN z ELSE NoRow]
     /\ tickets' = [id \in Ids |-> IF id \in gone THEN NoRow ELSE tickets[id]]
     /\ \E order \in SetToSeqs(gone) :
          Writes([i \in DOMAIN order |-> DeleteTicket(order[i])]
                   \o <<SaveReport(today, z)>>)
  /\ UNCHANGED <<orders, seq, taxRate>>

\* end_day replaces whatever is archived for today, deletes the settled
\* tickets of every date one row at a time, in the order of the map, and
\* saves the report last.
EndDay ==
  /\ Ready
  /\ LET z == ClosedOn(today)
         gone == {id \in Ids : Deletable(id)} IN
     /\ archived' = [archived EXCEPT ![today] = z]
     /\ tickets' = [id \in Ids |-> IF id \in gone THEN NoRow ELSE tickets[id]]
     /\ \E order \in SetToSeqs(gone) :
          Writes([i \in DOMAIN order |-> DeleteTicket(order[i])]
                   \o <<SaveReport(today, z)>>)
  /\ UNCHANGED <<orders, seq, taxRate>>

-----------------------------------------------------------------------------
(* Phone orders *)

\* Mutant of CreatePhoneOrder: the sequence is not saved.
CreatePhoneOrderUncounted(id) ==
  /\ Ready /\ IsOpen(id)
  /\ tickets[id].items # <<>>
  /\ seq["phone_order"] < MaxOrders
  /\ LET oid == seq["phone_order"] + 1
         po  == [tid |-> id, ticket |-> tickets[id], status |-> "HOLDING"] IN
     /\ seq' = [seq EXCEPT !["phone_order"] = oid]
     /\ orders' = [orders EXCEPT ![oid] = po]
     /\ tickets' = [tickets EXCEPT ![id] = NoRow]
     /\ Writes(<<DeleteTicket(id)>> \o SavePhoneOrder(oid, po))
  /\ UNCHANGED <<archived, taxRate>>

\* create_phone_order moves an OPEN ticket with items into the hold list.
CreatePhoneOrder(id) ==
  /\ Ready /\ IsOpen(id)
  /\ tickets[id].items # <<>>
  /\ seq["phone_order"] < MaxOrders
  /\ LET oid == seq["phone_order"] + 1
         po  == [tid |-> id, ticket |-> tickets[id], status |-> "HOLDING"] IN
     /\ seq' = [seq EXCEPT !["phone_order"] = oid]
     /\ orders' = [orders EXCEPT ![oid] = po]
     /\ tickets' = [tickets EXCEPT ![id] = NoRow]
     /\ Writes(<<DeleteTicket(id)>> \o SavePhoneOrder(oid, po)
                 \o <<SaveSeq("phone_order", oid)>>)
  /\ UNCHANGED <<archived, taxRate>>

\* The snapshot as CHECKOUT and EDIT put it back among the tickets.
Reopened(po) == Recalculated([po.ticket EXCEPT !.status = "OPEN"], taxRate)

\* CHECKOUT saves the reopened ticket and then the order with its snapshot,
\* which writes the row of the same ticket again.
PhoneCheckout(oid) ==
  /\ Ready /\ Holding(oid)
  /\ LET po == [orders[oid] EXCEPT !.status = "COMPLETED"] IN
     /\ tickets' = [tickets EXCEPT ![po.tid] = Reopened(po)]
     /\ orders' = [orders EXCEPT ![oid] = po]
     /\ Writes(<<SaveTicket(po.tid, Reopened(po))>> \o SavePhoneOrder(oid, po))
  /\ UNCHANGED <<seq, archived, taxRate>>

PhoneCancel(oid) ==
  /\ Ready /\ Holding(oid)
  /\ LET po == [orders[oid] EXCEPT !.status = "CANCELLED"] IN
     /\ orders' = [orders EXCEPT ![oid] = po]
     /\ Writes(SavePhoneOrder(oid, po))
  /\ UNCHANGED <<tickets, seq, archived, taxRate>>

\* EDIT puts the ticket back and keeps the order on hold.
PhoneEdit(oid) ==
  /\ Ready /\ Holding(oid)
  /\ Store(orders[oid].tid, Reopened(orders[oid]))

-----------------------------------------------------------------------------
(* Settings, the database and the process *)

SetTaxRate(bps) ==
  /\ Ready
  /\ taxRate' = bps
  /\ Writes(<<SaveTaxRate(bps)>>)
  /\ UNCHANGED <<tickets, orders, seq, archived>>

CommitWrite ==
  /\ up /\ pending # <<>>
  /\ db' = Apply(db, Head(pending))
  /\ pending' = Tail(pending)
  /\ UNCHANGED <<memory, up, today, crashes, failures>>

\* A write that does not reach the disk: an exception leaves the operation,
\* an ignored result code lets it go on.
WriteFails ==
  /\ up /\ pending # <<>>
  /\ failures < MaxFailures
  /\ failures' = failures + 1
  /\ pending' = IF Throws(Head(pending)) THEN <<>> ELSE Tail(pending)
  /\ UNCHANGED <<memory, db, up, today, crashes>>

\* The process ends: what is in memory and not committed is gone.
Crash ==
  /\ up /\ crashes < MaxCrashes
  /\ TornHandlers \/ pending = <<>>
  /\ up' = FALSE
  /\ crashes' = crashes + 1
  /\ pending' = <<>>
  /\ tickets' = [id \in Ids |-> NoRow]
  /\ orders' = [oid \in Oids |-> NoRow]
  /\ seq' = [name \in SeqNames |-> 0]
  /\ archived' = [d \in Dates |-> NoRow]
  /\ taxRate' = DefaultTaxRate
  /\ UNCHANGED <<db, today, failures>>

Restart ==
  /\ ~up
  /\ up' = TRUE
  /\ Load
  /\ UNCHANGED <<db, pending, today, crashes, failures>>

NextDay ==
  /\ today < MaxDay
  /\ today' = today + 1
  /\ UNCHANGED <<memory, db, pending, up, crashes, failures>>

-----------------------------------------------------------------------------
Init ==
  /\ db = EmptyDb
  /\ tickets = [id \in Ids |-> NoRow]
  /\ orders = [oid \in Oids |-> NoRow]
  /\ seq = [name \in SeqNames |-> 0]
  /\ archived = [d \in Dates |-> NoRow]
  /\ taxRate = DefaultTaxRate
  /\ pending = <<>> /\ up = TRUE /\ today = 1 /\ crashes = 0 /\ failures = 0

TicketOps(id) ==
  \/ \E key \in LineKeys, qty \in 1..MaxQty : AddItem(id, key, qty)
  \/ \E i \in 1..MaxLines : RemoveItem(id, i) \/ DecreaseItem(id, i)
  \/ \E i \in 1..MaxLines, key \in LineKeys : UpdateItem(id, i, key)
  \/ \E legs \in Payments, fee \in CardFees :
       Checkout(id, legs, fee) \/ CheckoutRefused(id, legs, fee)
  \/ VoidTicket(id) \/ CompTicket(id) \/ RefundTicket(id)
  \/ MarkTicketPrinted(id)
  \/ CreatePhoneOrder(id)

PhoneOps(oid) == PhoneCheckout(oid) \/ PhoneCancel(oid) \/ PhoneEdit(oid)

Next ==
  \/ NewTicket \/ EndDay
  \/ \E id \in Ids : TicketOps(id)
  \/ \E oid \in Oids : PhoneOps(oid)
  \/ \E bps \in TaxRates : SetTaxRate(bps)
  \/ CommitWrite \/ WriteFails
  \/ Crash \/ Restart \/ NextDay

Spec == Init /\ [][Next]_vars

-----------------------------------------------------------------------------
(* Properties *)

TicketRow ==
  {r \in TicketOf(SUBSET Line) : IsFiniteSet(r.items) /\ Cardinality(r.items) <= MaxLines}

TablesOf(T, R) ==
  [tickets : [Ids -> R \cup {NoRow}], orders : [Oids -> OrderRow \cup {NoRow}],
   seq : [SeqNames -> Nat], reports : [Dates -> {NoRow} \cup ReportOf(T)],
   taxRate : Nat \cup {NoRow}]

WriteOf(T) ==
  [op : {"save_ticket"}, id : Ids, ticket : T]
    \cup [op : {"delete_ticket"}, id : Ids]
    \cup [op : {"set_ticket_printed"}, id : Ids, printed : {TRUE}]
    \cup [op : {"save_phone_order"}, oid : Oids, row : OrderRow]
    \cup [op : {"save_seq"}, name : SeqNames, value : Nat]
    \cup [op : {"save_report"}, date : Dates, report : ReportOf(T)]
    \cup [op : {"save_setting"}, bps : Nat]

\* The shape of the state when tickets are in T and their rows in R.
ShapeOK(T, R) ==
  /\ tickets \in [Ids -> T \cup {NoRow}]
  /\ orders \in [Oids -> PhoneOrderOf(T) \cup {NoRow}]
  /\ seq \in [SeqNames -> Nat]
  /\ archived \in [Dates -> {NoRow} \cup ReportOf(T)]
  /\ taxRate \in Nat
  /\ db \in TablesOf(T, R)
  /\ pending \in Seq(WriteOf(T))
  /\ up \in BOOLEAN
  /\ today \in 1..MaxDay
  /\ crashes \in 0..MaxCrashes /\ failures \in 0..MaxFailures

\* Every variable, table and waiting write has the shape the code gives it.
TypeOK == ShapeOK(Ticket, TicketRow)

\* The figures of a ticket fit together: the total is subtotal and tax, what is
\* paid is the sum of the legs, and a ticket that was paid has a date and
\* balances: what the customer handed over is its total, its card fee and the
\* change, which is not negative.
Balanced(t) ==
  /\ t.total = t.subtotal + t.tax
  /\ t.paid = t.payments.cash + t.payments.card
  /\ t.status \in Settled =>
       /\ t.change = t.paid - (t.total + t.fee)
       /\ t.change >= 0
       /\ t.closed # NoDate

\* Wherever a ticket is found, in memory, in an order's snapshot, in the
\* tables, in a report or in a write on its way, its money balances
\* (checkout computes it once; comp, refund, void, restarts and phone orders
\* carry it along and recalculate may only touch tickets that are OPEN).
SettledBalance ==
  /\ \A id \in Ids : tickets[id] # NoRow => Balanced(tickets[id])
  /\ \A oid \in Oids : orders[oid] # NoRow => Balanced(orders[oid].ticket)
  /\ \A id \in Ids : db.tickets[id] # NoRow => Balanced(db.tickets[id])
  /\ \A d \in Dates : archived[d] # NoRow => \A s \in archived[d] : Balanced(s[2])
  /\ \A d \in Dates : db.reports[d] # NoRow => \A s \in db.reports[d] : Balanced(s[2])
  /\ \A i \in 1..Len(pending) :
       /\ pending[i].op = "save_ticket" => Balanced(pending[i].ticket)
       /\ pending[i].op = "save_report" => \A s \in pending[i].report : Balanced(s[2])

OnHold(id) == \E oid \in Oids : Holding(oid) /\ orders[oid].tid = id

\* The part of a ticket a sale consists of.
Sale(t) == <<t.items, t.total, t.payments, t.paid, t.change, t.fee, t.closed>>

\* A sale is final: unless a phone order still holds the ticket, a step leaves
\* everything a paid ticket records as it is and at most turns CLOSED into
\* VOIDED, COMPED or REFUNDED; while the daemon runs, the ticket of a sale of
\* today leaves memory only into today's archived report, as it was (end_day).
SaleIsFinal ==
  [][\A id \in Ids :
       (up /\ up' /\ InMemory(id) /\ tickets[id].status \in Settled /\ ~OnHold(id)) =>
         \/ /\ InMemory(id)'
            /\ Sale(tickets[id])' = Sale(tickets[id])
            /\ tickets[id].status # tickets'[id].status =>
                 tickets[id].status = "CLOSED" /\ tickets'[id].status # "OPEN"
         \/ /\ ~InMemory(id)'
            /\ archived'[today] # NoRow
            /\ tickets[id].closed = today => <<id, tickets[id]>> \in archived'[today]]_vars

\* No operation drops an order in progress: while the daemon runs, an OPEN
\* ticket with items stays among the tickets or becomes the snapshot of a new
\* phone order, unchanged.
OpenOrderIsKept ==
  [][\A id \in Ids :
       (up /\ up' /\ IsOpen(id) /\ tickets[id].items # <<>>) =>
         \/ InMemory(id)'
         \/ \E oid \in Oids :
              /\ ~(orders[oid] # NoRow) /\ Holding(oid)'
              /\ orders'[oid].tid = id /\ orders'[oid].ticket = tickets[id]]_vars

InAnOrder(id) ==
  \E oid \in Oids : \/ orders[oid] # NoRow /\ orders[oid].tid = id
                    \/ db.orders[oid] # NoRow /\ db.orders[oid].tid = id

\* The tickets that have a number.
Slips == Ids \ {NoId}

\* What a row must agree on with the ticket in memory.  The fee of an OPEN
\* ticket is the trace of a refused checkout and is not saved.
SameTicket(t, row) ==
  IF t = NoRow THEN row = NoRow
  ELSE row # NoRow /\ IF t.status = "OPEN" THEN [row EXCEPT !.fee = t.fee] = Row(t)
                                           ELSE row = Row(t)

\* Nothing that was acknowledged lives in memory only: whenever no operation
\* is under way, the tables hold the sequences, the reports, the tax rate, the
\* state of every phone order and every numbered ticket that was never in one.
DurableWhenIdle ==
  Ready =>
    /\ seq = db.seq
    /\ archived = db.reports
    /\ taxRate = IF db.taxRate = NoRow THEN DefaultTaxRate ELSE db.taxRate
    /\ \A oid \in Oids :
         /\ (orders[oid] = NoRow) = (db.orders[oid] = NoRow)
         /\ orders[oid] # NoRow =>
              /\ orders[oid].status = db.orders[oid].status
              /\ orders[oid].tid \in {db.orders[oid].tid, NoId}
    /\ \A id \in Slips : ~InAnOrder(id) => SameTicket(tickets[id], db.tickets[id])

\* The number new_ticket hands out is new: no ticket, row, order or snapshot
\* has it.
IdIsInUse(id) ==
  InMemory(id) \/ db.tickets[id] # NoRow \/ InAnOrder(id)

NewIdIsFresh ==
  [][(up /\ up' /\ seq["ticket"] # seq'["ticket"]) =>
        ~IdIsInUse(seq'["ticket"])]_vars

\* The archived report of a day that is over never changes again while the
\* daemon runs, whatever end_day does later.
PastReportsStay ==
  [][\A d \in Dates :
       (up /\ up' /\ d # today /\ archived[d] # NoRow) => archived'[d] = archived[d]]_vars

\* The mark that a receipt was printed is not lost: once it is in the row of a
\* numbered ticket that was never in a phone order, every later write of the row
\* has it (save_ticket writes the whole ticket, so each copy in memory must).
PrintedIsKept ==
  [][\A id \in Slips :
       (~InAnOrder(id) /\ db.tickets[id] # NoRow /\ db.tickets'[id] # NoRow
          /\ db.tickets[id].printed) => db.tickets'[id].printed]_vars
=============================================================================

----------------------- MODULE PosManagerDurableProofs -----------------------
(***************************************************************************)
(* What was acknowledged is in the tables whenever no operation is under   *)
(* way, for every value of the constants, when handlers are atomic.        *)
(***************************************************************************)
EXTENDS PosManagerStepProofs

\* The placeholder of a missing row is not taken for a tax rate.
NoRowIsNoRate == NoRow \notin Nat

\* The writes that wait to be committed.
Waiting == ToSet(pending)

RowWrite(w, id)    == w.op \in {"save_ticket", "delete_ticket"} /\ w.id = id
OrderWrite(w, oid) == w.op = "save_phone_order" /\ w.oid = oid
SeqWrite(w, name)  == w.op = "save_seq" /\ w.name = name
ReportWrite(w, d)  == w.op = "save_report" /\ w.date = d
RateWrite(w)       == w.op = "save_setting"

\* A write of a row leaves the ticket t in the table.
Leaves(w, t) ==
  IF w.op = "delete_ticket" THEN t = NoRow ELSE SameTicket(t, Row(w.ticket))

SameOrder(po, row) ==
  /\ (po = NoRow) = (row = NoRow)
  /\ po # NoRow => po.status = row.status /\ po.tid \in {row.tid, NoId}

SavedRate == IF db.taxRate = NoRow THEN DefaultTaxRate ELSE db.taxRate

\* The inductive invariant: each table agrees with the memory, or a write that
\* waits will make it agree; and none that waits will undo it.
TicketsAgree ==
  \A id \in Slips : ~InAnOrder(id) =>
    /\ \/ SameTicket(tickets[id], db.tickets[id])
       \/ \E w \in Waiting : RowWrite(w, id)
    /\ \A w \in Waiting :
         /\ RowWrite(w, id) => Leaves(w, tickets[id])
         /\ (w.op = "set_ticket_printed" /\ w.id = id) => tickets[id] = NoRow

OrdersAgree ==
  \A oid \in Oids :
    /\ \/ SameOrder(orders[oid], db.orders[oid])
       \/ \E w \in Waiting : OrderWrite(w, oid)
    /\ \A w \in Waiting : OrderWrite(w, oid) =>
         /\ SameOrder(orders[oid], w.row) /\ orders[oid].tid = w.row.tid
         /\ db.orders[oid] # NoRow => orders[oid].tid \in {db.orders[oid].tid, NoId}

SeqsAgree ==
  \A name \in SeqNames :
    /\ seq[name] = db.seq[name] \/ \E w \in Waiting : SeqWrite(w, name)
    /\ \A w \in Waiting : SeqWrite(w, name) => w.value = seq[name]

ReportsAgree ==
  \A d \in Dates :
    /\ archived[d] = db.reports[d] \/ \E w \in Waiting : ReportWrite(w, d)
    /\ \A w \in Waiting : ReportWrite(w, d) => w.report = archived[d]

RateAgrees ==
  /\ taxRate = SavedRate \/ \E w \in Waiting : RateWrite(w)
  /\ \A w \in Waiting : RateWrite(w) => w.bps = taxRate

\* A load and a save bring back the lines of a row.
RowsAreStored ==
  \A id \in Ids : db.tickets[id] # NoRow =>
    StoredLines(LoadedLines(db.tickets[id].items)) = db.tickets[id].items

DInv ==
  /\ up => TicketsAgree /\ OrdersAgree /\ SeqsAgree /\ ReportsAgree /\ RateAgrees
  /\ RowsAreStored
  /\ ~up => \A oid \in Oids : orders[oid] = NoRow

\* A ticket that is or was in a phone order stays one that was.
OrderedStay == \A id \in Slips : InAnOrder(id) => InAnOrder(id)'

-----------------------------------------------------------------------------
(* Writes and rows *)

LEMMA OneElement ==
  ASSUME NEW w
  PROVE  ToSet(<<w>>) = {w}
  BY DEF ToSet

LEMMA NoElement == ToSet(<<>>) = {}
  BY DEF ToSet

LEMMA ConcatElements ==
  ASSUME NEW S, NEW x \in Seq(S), NEW y \in Seq(S)
  PROVE  ToSet(x \o y) = ToSet(x) \cup ToSet(y)
<1> DEFINE s == x \o y
<1>1. /\ Len(x) \in Nat /\ Len(y) \in Nat /\ Len(s) = Len(x) + Len(y)
      /\ DOMAIN x = 1..Len(x) /\ DOMAIN y = 1..Len(y) /\ DOMAIN s = 1..Len(s)
      /\ \A i \in 1..Len(x) : s[i] = x[i]
      /\ \A i \in 1..Len(y) : s[Len(x) + i] = y[i]
  OBVIOUS
<1> HIDE DEF s
<1>2. ASSUME NEW e \in ToSet(s) PROVE e \in ToSet(x) \cup ToSet(y)
  <2>1. PICK i \in 1..Len(s) : e = s[i]
    BY <1>1, <1>2 DEF ToSet
  <2>2. CASE i \in 1..Len(x)
    BY <1>1, <2>1, <2>2 DEF ToSet
  <2>3. CASE i \notin 1..Len(x)
    <3>1. i - Len(x) \in 1..Len(y) /\ Len(x) + (i - Len(x)) = i
      BY <1>1, <2>1, <2>3
    <3>2. e = y[i - Len(x)]
      BY <1>1, <2>1, <3>1
    <3>3. QED
      BY <1>1, <3>1, <3>2 DEF ToSet
  <2>4. QED
    BY <2>2, <2>3
<1>3. ASSUME NEW e \in ToSet(x) PROVE e \in ToSet(s)
  BY <1>1, <1>3 DEF ToSet
<1>4. ASSUME NEW e \in ToSet(y) PROVE e \in ToSet(s)
  <2>1. PICK i \in 1..Len(y) : e = y[i]
    BY <1>1, <1>4 DEF ToSet
  <2>2. Len(x) + i \in 1..Len(s) /\ s[Len(x) + i] = e
    BY <1>1, <2>1
  <2>3. QED
    BY <1>1, <2>2 DEF ToSet
<1>5. QED
  BY <1>2, <1>3, <1>4 DEF s

LEMMA RowsAreNotMissing ==
  /\ \A t \in GoodTicket : t # NoRow
  /\ \A r \in GoodRow : r # NoRow
  /\ \A r \in OrderRow : r # NoRow
  /\ \A po \in PhoneOrderOf(GoodTicket) : po # NoRow
<1>1. GoodTicket \subseteq Ticket /\ GoodRow \subseteq TicketOf(SUBSET Line)
  BY DEF GoodTicket, GoodRow, TicketRow
<1>2. PhoneOrderOf(GoodTicket) \subseteq PhoneOrderOf(Ticket)
  BY <1>1 DEF PhoneOrderOf
<1>3. QED
  BY <1>1, <1>2, NoRowAssumption

\* A ticket agrees with the row save_ticket makes of it.
LEMMA SavedIsSame ==
  ASSUME NEW t \in GoodTicket
  PROVE  SameTicket(t, Row(t))
<1>1. t # NoRow /\ Row(t) # NoRow
  BY RowShape, RowsAreNotMissing
<1>2. t \in Ticket
  BY DEF GoodTicket
<1>3. [Row(t) EXCEPT !.fee = t.fee] = Row(t)
  BY <1>2 DEF Row, Ticket, TicketOf
<1>4. QED
  BY <1>1, <1>3 DEF SameTicket

\* A refused payment leaves its fee in the ticket and not in the row.
LEMMA FeeIsNotSaved ==
  ASSUME NEW t \in GoodTicket, t.status = "OPEN", NEW r \in GoodRow, NEW fee \in Nat,
         SameTicket(t, r)
  PROVE  SameTicket([t EXCEPT !.fee = fee], r)
<1> DEFINE u == [t EXCEPT !.fee = fee]
<1>1. t \in Ticket /\ r \in TicketOf(SUBSET Line) /\ t # NoRow
  BY RowsAreNotMissing DEF GoodTicket, GoodRow, TicketRow
<1>2. u \in Ticket /\ u.status = "OPEN" /\ u.fee = fee /\ u.items = t.items
  BY <1>1 DEF Ticket, TicketOf
<1>3. [r EXCEPT !.fee = t.fee] = Row(t) /\ r # NoRow
  BY <1>1 DEF SameTicket
<1>4. Row(u) = [Row(t) EXCEPT !.fee = fee]
  BY <1>1 DEF Row, Ticket, TicketOf
<1>5. [r EXCEPT !.fee = fee] = [[r EXCEPT !.fee = t.fee] EXCEPT !.fee = fee]
  BY <1>1 DEF TicketOf
<1>6. [r EXCEPT !.fee = u.fee] = Row(u)
  BY <1>2, <1>3, <1>4, <1>5
<1>7. u # NoRow
  BY <1>2, NoRowAssumption
<1> HIDE DEF u
<1>8. QED
  BY <1>2, <1>3, <1>6, <1>7 DEF SameTicket, u

\* Loading a row gives a ticket that agrees with it.
LEMMA LoadedIsSame ==
  ASSUME NEW r \in GoodRow, StoredLines(LoadedLines(r.items)) = r.items
  PROVE  SameTicket(Loaded(r), r)
<1>1. r \in TicketOf(SUBSET Line) /\ r # NoRow
  BY RowsAreNotMissing DEF GoodRow, TicketRow
<1>2. Loaded(r) # NoRow
  BY LoadedShape, RowsAreNotMissing
<1>3. Row(Loaded(r)) = r /\ Loaded(r).fee = r.fee
  BY <1>1 DEF Row, Loaded, TicketOf
<1>4. [r EXCEPT !.fee = r.fee] = r
  BY <1>1 DEF TicketOf
<1>5. QED
  BY <1>1, <1>2, <1>3, <1>4 DEF SameTicket

\* What a commit does to each cell of the tables.
LEMMA ApplyCells ==
  ASSUME IInv, NEW w \in GoodWrite
  PROVE  /\ \A id \in Ids : Apply(db, w).tickets[id] =
              IF w.op = "save_ticket" /\ w.id = id THEN Row(w.ticket)
              ELSE IF w.op = "delete_ticket" /\ w.id = id THEN NoRow
              ELSE IF w.op = "set_ticket_printed" /\ w.id = id /\ db.tickets[id] # NoRow
                   THEN [db.tickets[id] EXCEPT !.printed = w.printed]
              ELSE db.tickets[id]
         /\ \A oid \in Oids : Apply(db, w).orders[oid] =
              IF ~OrderWrite(w, oid) THEN db.orders[oid]
              ELSE IF db.orders[oid] = NoRow THEN w.row
              ELSE [db.orders[oid] EXCEPT !.status = w.row.status]
         /\ \A name \in SeqNames : Apply(db, w).seq[name] =
              IF SeqWrite(w, name) THEN w.value ELSE db.seq[name]
         /\ \A d \in Dates : Apply(db, w).reports[d] =
              IF ReportWrite(w, d) THEN w.report ELSE db.reports[d]
         /\ Apply(db, w).taxRate = IF RateWrite(w) THEN w.bps ELSE db.taxRate
<1>1. db \in GoodTables
  BY IInvParts DEF Frame
<1>2. /\ db.tickets \in [Ids -> GoodRow \cup {NoRow}]
      /\ db.orders \in [Oids -> OrderRow \cup {NoRow}]
      /\ db.seq \in [SeqNames -> Nat]
      /\ db.reports \in [Dates -> {NoRow} \cup ReportOf(GoodTicket)]
  BY <1>1 DEF GoodTables, TablesOf
<1> USE DEF OrderWrite, SeqWrite, ReportWrite, RateWrite
<1>3. CASE w.op = "save_ticket"
  <2> DEFINE r == Row(w.ticket)
  <2>1. Apply(db, w) = [db EXCEPT !.tickets[w.id] = r] /\ w.id \in Ids
    BY <1>3, WriteFields DEF Apply
  <2> HIDE DEF r
  <2>2. /\ Apply(db, w).tickets = [db.tickets EXCEPT ![w.id] = r]
        /\ Apply(db, w).orders = db.orders /\ Apply(db, w).seq = db.seq
        /\ Apply(db, w).reports = db.reports /\ Apply(db, w).taxRate = db.taxRate
    BY <1>1, <2>1 DEF GoodTables, TablesOf
  <2>3. QED
    BY <1>2, <1>3, <2>1, <2>2 DEF r
<1>4. CASE w.op = "delete_ticket"
  <2>1. Apply(db, w) = [db EXCEPT !.tickets[w.id] = NoRow] /\ w.id \in Ids
    BY <1>4, WriteFields DEF Apply
  <2>2. /\ Apply(db, w).tickets = [db.tickets EXCEPT ![w.id] = NoRow]
        /\ Apply(db, w).orders = db.orders /\ Apply(db, w).seq = db.seq
        /\ Apply(db, w).reports = db.reports /\ Apply(db, w).taxRate = db.taxRate
    BY <1>1, <2>1 DEF GoodTables, TablesOf
  <2>3. QED
    BY <1>2, <1>4, <2>1, <2>2
<1>5. CASE w.op = "set_ticket_printed"
  <2>1. w.id \in Ids
    BY <1>5, WriteFields
  <2>2. CASE db.tickets[w.id] = NoRow
    <3>1. Apply(db, w) = db
      BY <1>5, <2>2 DEF Apply
    <3>2. QED
      BY <1>5, <2>2, <3>1
  <2>3. CASE db.tickets[w.id] # NoRow
    <3> DEFINE r == [db.tickets[w.id] EXCEPT !.printed = w.printed]
    <3>1. Apply(db, w) = [db EXCEPT !.tickets[w.id] = r]
      BY <1>5, <2>3 DEF Apply
    <3> HIDE DEF r
    <3>2. /\ Apply(db, w).tickets = [db.tickets EXCEPT ![w.id] = r]
          /\ Apply(db, w).orders = db.orders /\ Apply(db, w).seq = db.seq
          /\ Apply(db, w).reports = db.reports /\ Apply(db, w).taxRate = db.taxRate
      BY <1>1, <3>1 DEF GoodTables, TablesOf
    <3>3. QED
      BY <1>2, <1>5, <2>1, <2>3, <3>2 DEF r
  <2>4. QED
    BY <2>2, <2>3
<1>6. CASE w.op = "save_phone_order"
  <2> DEFINE r == [db.orders[w.oid] EXCEPT !.status = w.row.status]
             row == IF db.orders[w.oid] = NoRow THEN w.row ELSE r
  <2>1. Apply(db, w) = [db EXCEPT !.orders[w.oid] = row] /\ w.oid \in Oids
    BY <1>6, WriteFields DEF Apply
  <2> HIDE DEF row
  <2>2. /\ Apply(db, w).orders = [db.orders EXCEPT ![w.oid] = row]
        /\ Apply(db, w).tickets = db.tickets /\ Apply(db, w).seq = db.seq
        /\ Apply(db, w).reports = db.reports /\ Apply(db, w).taxRate = db.taxRate
    BY <1>1, <2>1 DEF GoodTables, TablesOf
  <2>3. QED
    BY <1>2, <1>6, <2>1, <2>2 DEF row
<1>7. CASE w.op = "save_seq"
  <2>1. Apply(db, w) = [db EXCEPT !.seq[w.name] = w.value] /\ w.name \in SeqNames
    BY <1>7, WriteFields DEF Apply
  <2>2. /\ Apply(db, w).seq = [db.seq EXCEPT ![w.name] = w.value]
        /\ Apply(db, w).tickets = db.tickets /\ Apply(db, w).orders = db.orders
        /\ Apply(db, w).reports = db.reports /\ Apply(db, w).taxRate = db.taxRate
    BY <1>1, <2>1 DEF GoodTables, TablesOf
  <2>3. QED
    BY <1>2, <1>7, <2>1, <2>2
<1>8. CASE w.op = "save_report"
  <2>1. Apply(db, w) = [db EXCEPT !.reports[w.date] = w.report] /\ w.date \in Dates
    BY <1>8, WriteFields DEF Apply
  <2>2. /\ Apply(db, w).reports = [db.reports EXCEPT ![w.date] = w.report]
        /\ Apply(db, w).tickets = db.tickets /\ Apply(db, w).orders = db.orders
        /\ Apply(db, w).seq = db.seq /\ Apply(db, w).taxRate = db.taxRate
    BY <1>1, <2>1 DEF GoodTables, TablesOf
  <2>3. QED
    BY <1>2, <1>8, <2>1, <2>2
<1>9. CASE w.op = "save_setting"
  <2>1. Apply(db, w) = [db EXCEPT !.taxRate = w.bps]
    BY <1>9 DEF Apply
  <2>2. /\ Apply(db, w).taxRate = w.bps
        /\ Apply(db, w).tickets = db.tickets /\ Apply(db, w).orders = db.orders
        /\ Apply(db, w).seq = db.seq /\ Apply(db, w).reports = db.reports
    BY <1>1, <2>1 DEF GoodTables, TablesOf
  <2>3. QED
    BY <1>9, <2>2
<1>10. QED
  BY <1>3, <1>4, <1>5, <1>6, <1>7, <1>8, <1>9, WriteFields

-----------------------------------------------------------------------------
(* Operations *)

\* While no operation is under way, tables and memory agree.
LEMMA IdleAgrees ==
  ASSUME DInv, Ready
  PROVE  /\ \A id \in Slips : ~InAnOrder(id) => SameTicket(tickets[id], db.tickets[id])
         /\ \A oid \in Oids : SameOrder(orders[oid], db.orders[oid])
         /\ \A name \in SeqNames : seq[name] = db.seq[name]
         /\ \A d \in Dates : archived[d] = db.reports[d]
         /\ taxRate = SavedRate
<1>1. Waiting = {}
  BY NoElement DEF Ready, Waiting
<1>2. QED
  BY <1>1 DEF DInv, Ready, TicketsAgree, OrdersAgree, SeqsAgree, ReportsAgree, RateAgrees

\* An operation that writes nothing of a kind and leaves that part of the
\* memory alone.
LEMMA OrdersKept ==
  ASSUME DInv, Ready, db' = db, orders' = orders,
         \A w \in Waiting' : w.op # "save_phone_order"
  PROVE  OrdersAgree' /\ OrderedStay
  BY IdleAgrees DEF OrdersAgree, OrderWrite, OrderedStay, InAnOrder

LEMMA SeqsKept ==
  ASSUME DInv, Ready, db' = db, seq' = seq, \A w \in Waiting' : w.op # "save_seq"
  PROVE  SeqsAgree'
  BY IdleAgrees DEF SeqsAgree, SeqWrite

LEMMA ReportsKept ==
  ASSUME DInv, Ready, db' = db, archived' = archived,
         \A w \in Waiting' : w.op # "save_report"
  PROVE  ReportsAgree'
  BY IdleAgrees DEF ReportsAgree, ReportWrite

LEMMA RateKept ==
  ASSUME DInv, Ready, db' = db, taxRate' = taxRate,
         \A w \in Waiting' : w.op # "save_setting"
  PROVE  RateAgrees'
  BY IdleAgrees DEF RateAgrees, RateWrite, SavedRate

LEMMA TicketsKept ==
  ASSUME DInv, Ready, db' = db, tickets' = tickets, OrderedStay,
         \A w \in Waiting' : w.op \notin {"save_ticket", "delete_ticket", "set_ticket_printed"}
  PROVE  TicketsAgree'
  BY IdleAgrees DEF TicketsAgree, RowWrite, OrderedStay

\* A ticket of the register is replaced and saved.
LEMMA StoreDurable ==
  ASSUME IInv, IInv', DInv, Ready, NEW other \in Ids, NEW t, Store(other, t)
  PROVE  DInv' /\ OrderedStay
<1> DEFINE w == SaveTicket(other, t)
<1>1. /\ tickets' = [tickets EXCEPT ![other] = t] /\ pending' = <<w>>
      /\ db' = db /\ up' /\ UNCHANGED <<orders, seq, archived, taxRate>>
  BY DEF Store, Writes, Ready
<1>2. w.op = "save_ticket" /\ w.id = other /\ w.ticket = t
  BY DEF SaveTicket
<1> HIDE DEF w
<1>3. Waiting' = {w}
  BY <1>1, OneElement DEF Waiting
<1>4. t \in GoodTicket
  <2>1. pending' \in Seq(GoodWrite)
    BY IInvPartsNext DEF Frame
  <2>2. w \in GoodWrite
    BY <1>1, <2>1
  <2>3. QED
    BY <1>2, <2>2, WriteFields
<1>5. /\ OrdersAgree' /\ OrderedStay /\ SeqsAgree' /\ ReportsAgree' /\ RateAgrees'
  BY <1>1, <1>2, <1>3, OrdersKept, SeqsKept, ReportsKept, RateKept
<1>6. ASSUME NEW id \in Slips, ~InAnOrder(id)'
      PROVE  /\ SameTicket(tickets[id], db.tickets[id])' \/ RowWrite(w, id)
             /\ RowWrite(w, id) => Leaves(w, tickets'[id])
  <2>1. id \in Ids /\ ~InAnOrder(id)
    BY <1>5, <1>6 DEF OrderedStay, Slips
  <2>2. CASE id = other
    <3>1. tickets'[id] = t
      BY <1>1, <2>1, <2>2, IInvParts DEF Memory
    <3>2. QED
      BY <1>2, <1>4, <2>2, <3>1, SavedIsSame DEF RowWrite, Leaves
  <2>3. CASE id # other
    <3>1. tickets'[id] = tickets[id]
      BY <1>1, <2>1, <2>3, IInvParts DEF Memory
    <3>2. QED
      BY <1>1, <1>2, <1>6, <2>1, <2>3, <3>1, IdleAgrees DEF RowWrite
  <2>4. QED
    BY <2>2, <2>3
<1>7. TicketsAgree'
  BY <1>2, <1>3, <1>6 DEF TicketsAgree
<1>8. QED
  BY <1>1, <1>5, <1>7 DEF DInv, RowsAreStored

\* A refused payment writes nothing.
LEMMA RefusedDurable ==
  ASSUME IInv, DInv, NEW other \in Ids, NEW legs \in Payments, NEW fee \in CardFees,
         CheckoutRefused(other, legs, fee)
  PROVE  DInv' /\ OrderedStay
<1> DEFINE t == [tickets[other] EXCEPT !.fee = fee]
<1>1. /\ tickets' = [tickets EXCEPT ![other] = t] /\ pending' = <<>> /\ IsOpen(other)
      /\ Ready /\ db' = db /\ up' /\ UNCHANGED <<orders, seq, archived, taxRate>>
  BY DEF CheckoutRefused, Writes, Ready
<1>2. Waiting' = {}
  BY <1>1, NoElement DEF Waiting
<1>3. /\ OrdersAgree' /\ OrderedStay /\ SeqsAgree' /\ ReportsAgree' /\ RateAgrees'
  BY <1>1, <1>2, OrdersKept, SeqsKept, ReportsKept, RateKept
<1>4. ASSUME NEW id \in Slips, ~InAnOrder(id)'
      PROVE  SameTicket(tickets[id], db.tickets[id])'
  <2>1. id \in Ids /\ SameTicket(tickets[id], db.tickets[id])
    BY <1>1, <1>3, <1>4, IdleAgrees DEF OrderedStay, Slips
  <2>2. CASE id = other
    <3>1. tickets'[id] = t
      BY <1>1, <2>1, <2>2, IInvParts DEF Memory
    <3>2. tickets[id] \in GoodTicket /\ tickets[id].status = "OPEN" /\ fee \in Nat
      BY <1>1, <2>1, <2>2, InMemoryShape, MoneyAssumption DEF IsOpen
    <3>3. db.tickets[id] \in GoodRow
      <4>1. db.tickets[id] \in GoodRow \cup {NoRow}
        BY <2>1, IInvParts DEF Frame, GoodTables, TablesOf
      <4>2. db.tickets[id] # NoRow
        BY <2>1, <3>2, RowsAreNotMissing DEF SameTicket
      <4>3. QED
        BY <4>1, <4>2
    <3>4. SameTicket(t, db.tickets[id])
      BY <2>1, <2>2, <3>2, <3>3, FeeIsNotSaved
    <3> HIDE DEF t
    <3>5. QED
      BY <1>1, <3>1, <3>4
  <2>3. CASE id # other
    <3>1. tickets'[id] = tickets[id]
      BY <1>1, <2>1, <2>3, IInvParts DEF Memory
    <3>2. QED
      BY <1>1, <2>1, <3>1
  <2>4. QED
    BY <2>2, <2>3
<1>5. TicketsAgree'
  BY <1>2, <1>4 DEF TicketsAgree
<1>6. QED
  BY <1>1, <1>3, <1>5 DEF DInv, RowsAreStored

\* The mark of a ticket that is not in memory is written to the row alone.
LEMMA MarkRowDurable ==
  ASSUME IInv, DInv, Ready, NEW other \in Ids, tickets[other] = NoRow,
         Writes(<<SetTicketPrinted(other, TRUE)>>), UNCHANGED memory
  PROVE  DInv' /\ OrderedStay
<1> DEFINE w == SetTicketPrinted(other, TRUE)
<1>1. /\ pending' = <<w>> /\ db' = db /\ up'
      /\ UNCHANGED <<tickets, orders, seq, archived, taxRate>>
  BY DEF Writes, Ready, memory
<1>2. w.op = "set_ticket_printed" /\ w.id = other
  BY DEF SetTicketPrinted
<1> HIDE DEF w
<1>3. Waiting' = {w}
  BY <1>1, OneElement DEF Waiting
<1>4. /\ OrdersAgree' /\ OrderedStay /\ SeqsAgree' /\ ReportsAgree' /\ RateAgrees'
  BY <1>1, <1>2, <1>3, OrdersKept, SeqsKept, ReportsKept, RateKept
<1>5. TicketsAgree'
  BY <1>1, <1>2, <1>3, <1>4, IdleAgrees DEF TicketsAgree, RowWrite, OrderedStay
<1>6. QED
  BY <1>1, <1>4, <1>5 DEF DInv, RowsAreStored

LEMMA NewTicketDurable ==
  ASSUME IInv, DInv, NewTicket
  PROVE  DInv' /\ OrderedStay
<1> DEFINE n == seq["ticket"] + 1
           v == SaveTicket(n, EmptyTicket)
           w == SaveSeq("ticket", n)
<1>1. /\ tickets' = [tickets EXCEPT ![n] = EmptyTicket] /\ pending' = <<v, w>>
      /\ seq' = [seq EXCEPT !["ticket"] = n] /\ seq["ticket"] < MaxTickets
      /\ Ready /\ db' = db /\ up' /\ UNCHANGED <<orders, archived, taxRate>>
  BY DEF NewTicket, Writes, Ready
<1>2. /\ v.op = "save_ticket" /\ v.id = n /\ v.ticket = EmptyTicket
      /\ w.op = "save_seq" /\ w.name = "ticket" /\ w.value = n
  BY DEF SaveTicket, SaveSeq
<1> HIDE DEF n, v, w
<1>3. Waiting' = {v, w}
  BY <1>1 DEF Waiting, ToSet
<1>4. /\ OrdersAgree' /\ OrderedStay /\ ReportsAgree' /\ RateAgrees'
  BY <1>1, <1>2, <1>3, OrdersKept, ReportsKept, RateKept
<1>5. SeqsAgree'
  BY <1>1, <1>2, <1>3, IdleAgrees, IInvParts DEF SeqsAgree, SeqWrite, Memory
<1>6. ASSUME NEW id \in Slips, ~InAnOrder(id)'
      PROVE  /\ SameTicket(tickets[id], db.tickets[id])' \/ RowWrite(v, id)
             /\ RowWrite(v, id) => Leaves(v, tickets'[id])
  <2>1. id \in Ids /\ ~InAnOrder(id)
    BY <1>4, <1>6 DEF OrderedStay, Slips
  <2>2. CASE id = n
    <3>1. tickets'[id] = EmptyTicket
      BY <1>1, <2>1, <2>2, IInvParts DEF Memory
    <3>2. QED
      BY <1>2, <2>2, <3>1, SavedIsSame, EmptyTicketShape DEF RowWrite, Leaves
  <2>3. CASE id # n
    <3>1. tickets'[id] = tickets[id]
      BY <1>1, <2>1, <2>3, IInvParts DEF Memory
    <3>2. QED
      BY <1>1, <1>2, <1>6, <2>1, <2>3, <3>1, IdleAgrees DEF RowWrite
  <2>4. QED
    BY <2>2, <2>3
<1>7. TicketsAgree'
  BY <1>2, <1>3, <1>6 DEF TicketsAgree, RowWrite
<1>8. QED
  BY <1>1, <1>4, <1>5, <1>7 DEF DInv, RowsAreStored

\* end_day deletes the row of each ticket it drops, and saves the report.
LEMMA EndDayDurable ==
  ASSUME IInv, DInv, EndDay
  PROVE  DInv' /\ OrderedStay
<1> DEFINE z == ClosedOn(today)
           gone == {id \in Ids : Deletable(id)}
           k == Cardinality(gone)
           w == SaveReport(today, z)
<1>1. PICK order \in SetToSeqs(gone) :
        Writes([i \in DOMAIN order |-> DeleteTicket(order[i])] \o <<w>>)
  BY DEF EndDay
<1> DEFINE ws == [i \in DOMAIN order |-> DeleteTicket(order[i])]
<1>2. /\ Ready /\ up' /\ db' = db /\ pending' = ws \o <<w>>
      /\ archived' = [archived EXCEPT ![today] = z]
      /\ tickets' = [id \in Ids |-> IF id \in gone THEN NoRow ELSE tickets[id]]
      /\ UNCHANGED <<orders, seq, taxRate>>
  BY <1>1 DEF EndDay, Writes, Ready
<1>3. w.op = "save_report" /\ w.date = today /\ w.report = z
  BY DEF SaveReport
<1>4. IsFiniteSet(gone) /\ k \in Nat /\ gone \subseteq Ids
  <2>1. IsFiniteSet(Ids)
    BY BoundsAssumption, FS_Interval DEF Ids
  <2>2. IsFiniteSet(gone)
    BY <2>1, FS_Subset
  <2>3. QED
    BY <2>2, FS_CardinalityType
<1> HIDE DEF gone, z, w
<1>5. order \in [1..k -> gone] /\ \A i, j \in 1..k : i # j => order[i] # order[j]
  BY <1>1 DEF SetToSeqs
<1>6. Waiting' = {DeleteTicket(id) : id \in gone} \cup {w}
  <2> DEFINE S == {DeleteTicket(id) : id \in gone} \cup {w}
  <2>1. ws \in Seq(S) /\ DOMAIN ws = 1..k /\ <<w>> \in Seq(S)
    <3>1. \A i \in 1..k : DeleteTicket(order[i]) \in S
      BY <1>5
    <3>2. w \in S
      OBVIOUS
    <3>3. DOMAIN order = 1..k
      BY <1>5
    <3> HIDE DEF S, k
    <3>4. QED
      BY <1>4, <3>1, <3>2, <3>3
  <2>2. ToSet(ws \o <<w>>) = ToSet(ws) \cup {w}
    <3> DEFINE last == <<w>>
    <3>1. last \in Seq(S) /\ ToSet(last) = {w}
      BY <2>1, OneElement
    <3> HIDE DEF ws, S, last
    <3>2. ToSet(ws \o last) = ToSet(ws) \cup ToSet(last)
      BY <2>1, <3>1, ConcatElements
    <3>3. QED
      BY <3>1, <3>2 DEF last
  <2>3. ToSet(ws) = {DeleteTicket(order[i]) : i \in 1..k}
    BY <2>1 DEF ToSet
  <2>4. {DeleteTicket(order[i]) : i \in 1..k} = {DeleteTicket(id) : id \in gone}
    <3>1. \A id \in gone : \E i \in 1..k : order[i] = id
      BY <1>4, <1>5, MeetsAll
    <3>2. QED
      BY <1>5, <3>1
  <2>5. QED
    BY <1>2, <2>2, <2>3, <2>4 DEF Waiting
<1>7. \A v \in Waiting' : v = w \/ (v.op = "delete_ticket" /\ v.id \in gone)
  BY <1>6 DEF DeleteTicket
<1>8. \A id \in gone : \E v \in Waiting' : RowWrite(v, id)
  <2>1. \A id \in gone : RowWrite(DeleteTicket(id), id) /\ DeleteTicket(id) \in Waiting'
    BY <1>6 DEF DeleteTicket, RowWrite
  <2>2. QED
    BY <2>1
<1>9. /\ OrdersAgree' /\ OrderedStay /\ SeqsAgree' /\ RateAgrees'
  BY <1>2, <1>3, <1>7, OrdersKept, SeqsKept, RateKept
<1>10. ReportsAgree'
  <2>1. today \in Dates
    BY IInvParts, BoundsAssumption DEF Frame, Dates
  <2>2. w \in Waiting'
    BY <1>6
  <2>3. ASSUME NEW d \in Dates
        PROVE  /\ archived'[d] = db'.reports[d] \/ \E v \in Waiting' : ReportWrite(v, d)
               /\ \A v \in Waiting' : ReportWrite(v, d) => v.report = archived'[d]
    <3>1. archived'[d] = IF d = today THEN z ELSE archived[d]
      BY <1>2, <2>1, IInvParts DEF Memory
    <3>2. QED
      BY <1>2, <1>3, <1>7, <2>2, <3>1, IdleAgrees DEF ReportWrite
  <2>4. QED
    BY <2>3 DEF ReportsAgree
<1>11. TicketsAgree'
  <2>1. SUFFICES ASSUME NEW id \in Slips, ~InAnOrder(id)'
        PROVE /\ \/ SameTicket(tickets'[id], db'.tickets[id])
                 \/ \E v \in Waiting' : RowWrite(v, id)
              /\ \A v \in Waiting' :
                   /\ RowWrite(v, id) => Leaves(v, tickets'[id])
                   /\ (v.op = "set_ticket_printed" /\ v.id = id) => tickets'[id] = NoRow
    BY DEF TicketsAgree
  <2>2. id \in Ids /\ ~InAnOrder(id)
    BY <1>9, <2>1 DEF OrderedStay, Slips
  <2>3. CASE id \in gone
    BY <1>2, <1>3, <1>7, <1>8, <2>2, <2>3 DEF RowWrite, Leaves
  <2>4. CASE id \notin gone
    BY <1>2, <1>3, <1>7, <2>2, <2>4, IdleAgrees DEF RowWrite
  <2>5. QED
    BY <2>3, <2>4
<1>12. QED
  BY <1>2, <1>9, <1>10, <1>11 DEF DInv, RowsAreStored

\* The orders and tickets of the phone operations: the order oid is replaced
\* by po, which it becomes or which it was, and is saved; the ticket of po may
\* be replaced, which is nobody's business but the order's.
LEMMA PhoneDurable ==
  ASSUME IInv, IInv', DInv, Ready, NEW oid \in Oids, NEW po \in PhoneOrderOf(GoodTicket),
         orders' = [orders EXCEPT ![oid] = po],
         orders[oid] # NoRow => orders[oid].tid = po.tid,
         db' = db, up', archived' = archived, taxRate' = taxRate,
         \A id \in Ids : id # po.tid => tickets'[id] = tickets[id],
         \E v \in Waiting' : OrderWrite(v, oid),
         \A v \in Waiting' :
           \/ v.op \in {"save_ticket", "delete_ticket"} /\ v.id = po.tid
           \/ OrderWrite(v, oid) /\ v.row = [tid |-> po.tid, status |-> po.status]
           \/ v.op = "save_seq",
         SeqsAgree'
  PROVE  DInv' /\ OrderedStay
<1>1. \A o \in Oids : orders'[o] = IF o = oid THEN po ELSE orders[o]
  BY IInvParts DEF Memory
<1>2. po # NoRow /\ [tid |-> po.tid, status |-> po.status] \in OrderRow
      /\ [tid |-> po.tid, status |-> po.status] # NoRow
  <2>1. po # NoRow /\ [tid |-> po.tid, status |-> po.status] \in OrderRow
    BY RowsAreNotMissing DEF PhoneOrderOf, OrderRow
  <2>2. QED
    BY <2>1, RowsAreNotMissing
<1>3. OrderedStay
  BY <1>1, <1>2 DEF OrderedStay, InAnOrder
<1>4. ReportsAgree' /\ RateAgrees'
  BY ReportsKept, RateKept DEF OrderWrite
<1>5. OrdersAgree'
  <2>1. SUFFICES ASSUME NEW o \in Oids
        PROVE /\ \/ SameOrder(orders'[o], db'.orders[o])
                 \/ \E v \in Waiting' : OrderWrite(v, o)
              /\ \A v \in Waiting' : OrderWrite(v, o) =>
                   /\ SameOrder(orders'[o], v.row) /\ orders'[o].tid = v.row.tid
                   /\ db'.orders[o] # NoRow => orders'[o].tid \in {db'.orders[o].tid, NoId}
    BY DEF OrdersAgree
  <2>2. CASE o = oid
    <3>1. orders'[o] = po
      BY <1>1, <2>2
    <3>2. ASSUME NEW v \in Waiting', OrderWrite(v, o)
          PROVE  SameOrder(po, v.row) /\ po.tid = v.row.tid
      <4>1. v.row = [tid |-> po.tid, status |-> po.status]
        BY <3>2 DEF OrderWrite
      <4>2. QED
        BY <1>2, <4>1 DEF SameOrder
    <3>3. db.orders[o] # NoRow => po.tid \in {db.orders[o].tid, NoId}
      BY <2>2, IdleAgrees DEF SameOrder
    <3>4. QED
      BY <2>2, <3>1, <3>2, <3>3
  <2>3. CASE o # oid
    BY <1>1, <2>3, IdleAgrees DEF OrderWrite
  <2>4. QED
    BY <2>2, <2>3
<1>6. TicketsAgree'
  <2>1. SUFFICES ASSUME NEW id \in Slips, ~InAnOrder(id)'
        PROVE /\ SameTicket(tickets'[id], db'.tickets[id])
              /\ \A v \in Waiting' :
                   ~RowWrite(v, id) /\ ~(v.op = "set_ticket_printed" /\ v.id = id)
    BY DEF TicketsAgree
  <2>2. id \in Ids /\ ~InAnOrder(id)
    BY <1>3, <2>1 DEF OrderedStay, Slips
  <2>3. id # po.tid
    BY <1>1, <1>2, <2>1 DEF InAnOrder
  <2>4. QED
    BY <2>2, <2>3, IdleAgrees DEF RowWrite, OrderWrite
<1>7. QED
  BY <1>3, <1>4, <1>5, <1>6 DEF DInv, RowsAreStored, Ready

LEMMA CreatePhoneOrderDurable ==
  ASSUME IInv, IInv', OInv, DInv, NEW id \in Ids, CreatePhoneOrder(id)
  PROVE  DInv' /\ OrderedStay
<1> DEFINE n  == seq["phone_order"] + 1
           po == [tid |-> id, ticket |-> tickets[id], status |-> "HOLDING"]
           a  == DeleteTicket(id)
           b  == SaveTicket(po.tid, po.ticket)
           c  == SaveOrderRow(n, [tid |-> po.tid, status |-> po.status])
           d  == SaveSeq("phone_order", n)
           first == <<a>>
           ws == first \o SavePhoneOrder(n, po)
           last == <<d>>
           S  == {a, b, c, d}
<1>1. /\ Ready /\ IsOpen(id) /\ seq["phone_order"] < MaxOrders /\ up' /\ db' = db
      /\ pending' = ws \o last
      /\ seq' = [seq EXCEPT !["phone_order"] = n]
      /\ orders' = [orders EXCEPT ![n] = po]
      /\ tickets' = [tickets EXCEPT ![id] = NoRow]
      /\ archived' = archived /\ taxRate' = taxRate
  BY DEF CreatePhoneOrder, Writes, Ready
<1>2. po \in PhoneOrderOf(GoodTicket) /\ po.tid = id
  BY <1>1, InMemoryShape DEF IsOpen, PhoneOrderOf, OrderStatuses
<1>3. n \in Oids /\ orders[n] = NoRow
  <2>1. n \in Oids /\ ~(n <= seq["phone_order"])
    BY <1>1, OrdersGivenOut, BoundsAssumption DEF Oids
  <2>2. QED
    BY <1>1, <2>1, OrdersGivenOut DEF OrderExists
<1>4. /\ a.op = "delete_ticket" /\ a.id = po.tid
      /\ b.op = "save_ticket" /\ b.id = po.tid
      /\ c.op = "save_phone_order" /\ c.oid = n
      /\ c.row = [tid |-> po.tid, status |-> po.status]
      /\ d.op = "save_seq" /\ d.name = "phone_order" /\ d.value = n
  BY <1>2 DEF DeleteTicket, SaveTicket, SaveOrderRow, SaveSeq
<1> HIDE DEF n, po
<1>5. SavePhoneOrder(n, po) = <<b, c>>
  BY DEF SavePhoneOrder
<1> HIDE DEF a, b, c, d
<1>6. Waiting' = {a, b, c, d}
  <2> DEFINE saved == SavePhoneOrder(n, po)
  <2>1. /\ first \in Seq(S) /\ ToSet(first) = {a}
        /\ last \in Seq(S) /\ ToSet(last) = {d}
    BY OneElement
  <2>2. saved \in Seq(S) /\ ToSet(saved) = {b, c}
    BY <1>5 DEF ToSet
  <2> HIDE DEF first, last, saved, S
  <2>3. ws \in Seq(S) /\ ToSet(ws) = ToSet(first) \cup ToSet(saved)
    BY <2>1, <2>2, ConcatElements, ConcatProperties DEF saved
  <2> HIDE DEF ws
  <2>4. ToSet(ws \o last) = ToSet(ws) \cup ToSet(last)
    BY <2>1, <2>3, ConcatElements
  <2>5. QED
    BY <1>1, <2>1, <2>2, <2>3, <2>4 DEF Waiting
<1>7. SeqsAgree'
  BY <1>1, <1>4, <1>6, IdleAgrees, IInvParts DEF SeqsAgree, SeqWrite, Memory
<1>8. \A i \in Ids : i # po.tid => tickets'[i] = tickets[i]
  BY <1>1, <1>2, IInvParts DEF Memory
<1>9. /\ \E v \in Waiting' : OrderWrite(v, n)
      /\ \A v \in Waiting' :
           \/ v.op \in {"save_ticket", "delete_ticket"} /\ v.id = po.tid
           \/ OrderWrite(v, n) /\ v.row = [tid |-> po.tid, status |-> po.status]
           \/ v.op = "save_seq"
  BY <1>4, <1>6 DEF OrderWrite
<1>10. QED
  BY <1>1, <1>2, <1>3, <1>7, <1>8, <1>9, PhoneDurable

LEMMA PhoneOpsDurable ==
  ASSUME IInv, IInv', DInv, NEW oid \in Oids, PhoneOps(oid)
  PROVE  DInv' /\ OrderedStay
<1>1. Ready /\ Holding(oid)
  BY DEF PhoneOps, PhoneCheckout, PhoneCancel, PhoneEdit
<1>2. ASSUME NEW status \in OrderStatuses, NEW ws,
             NEW po, po = [orders[oid] EXCEPT !.status = status],
             ws = <<>> \/ ws = <<SaveTicket(po.tid, Reopened(po))>>,
             \/ tickets' = tickets
             \/ tickets' = [tickets EXCEPT ![po.tid] = Reopened(po)],
             orders' = [orders EXCEPT ![oid] = po],
             Writes(ws \o SavePhoneOrder(oid, po)),
             UNCHANGED <<seq, archived, taxRate>>
      PROVE  DInv' /\ OrderedStay
  <2> DEFINE a == SaveTicket(po.tid, Reopened(po))
             b == SaveTicket(po.tid, po.ticket)
             c == SaveOrderRow(oid, [tid |-> po.tid, status |-> po.status])
  <2>1. po \in PhoneOrderOf(GoodTicket) /\ po.tid = orders[oid].tid
    BY <1>1, <1>2, HoldingShape, StatusShape DEF PhoneOrderOf
  <2>2. db' = db /\ up' /\ pending' = ws \o SavePhoneOrder(oid, po)
    BY <1>1, <1>2 DEF Writes, Ready
  <2>3. \A i \in Ids : i # po.tid => tickets'[i] = tickets[i]
    BY <1>2, IInvParts DEF Memory
  <2>4. /\ a.op = "save_ticket" /\ a.id = po.tid
        /\ b.op = "save_ticket" /\ b.id = po.tid
        /\ c.op = "save_phone_order" /\ c.oid = oid
        /\ c.row = [tid |-> po.tid, status |-> po.status]
    BY DEF SaveTicket, SaveOrderRow
  <2>5. ws = <<>> \/ ws = <<a>>
    BY <1>2
  <2>6. SavePhoneOrder(oid, po) = <<b, c>>
    BY DEF SavePhoneOrder
  <2> HIDE DEF a, b, c
  <2>7. Waiting' \subseteq {a, b, c} /\ c \in Waiting'
    <3> DEFINE S == {a, b, c}
               saved == SavePhoneOrder(oid, po)
    <3>1. saved \in Seq(S) /\ ToSet(saved) = {b, c}
      BY <2>6 DEF ToSet
    <3>2. ws \in Seq(S)
      <4>1. <<>> \in Seq(S) /\ <<a>> \in Seq(S)
        OBVIOUS
      <4> HIDE DEF S
      <4>2. QED
        BY <2>5, <4>1
    <3>3. ToSet(ws) \subseteq {a}
      BY <2>5, NoElement, OneElement
    <3> HIDE DEF saved, S
    <3>4. ToSet(ws \o saved) = ToSet(ws) \cup ToSet(saved)
      BY <3>1, <3>2, ConcatElements
    <3>5. QED
      BY <2>2, <3>1, <3>3, <3>4 DEF Waiting, saved
  <2>8. /\ \E v \in Waiting' : OrderWrite(v, oid)
        /\ \A v \in Waiting' :
             \/ v.op \in {"save_ticket", "delete_ticket"} /\ v.id = po.tid
             \/ OrderWrite(v, oid) /\ v.row = [tid |-> po.tid, status |-> po.status]
             \/ v.op = "save_seq"
    BY <2>4, <2>7 DEF OrderWrite
  <2>9. SeqsAgree'
    BY <1>1, <1>2, <2>2, <2>4, <2>7, SeqsKept
  <2>10. QED
    BY <1>1, <1>2, <2>1, <2>2, <2>3, <2>8, <2>9, PhoneDurable
<1>3. CASE PhoneCheckout(oid)
  <2> DEFINE po == [orders[oid] EXCEPT !.status = "COMPLETED"]
             ws == <<SaveTicket(po.tid, Reopened(po))>>
  <2>1. /\ tickets' = [tickets EXCEPT ![po.tid] = Reopened(po)]
        /\ orders' = [orders EXCEPT ![oid] = po]
        /\ Writes(ws \o SavePhoneOrder(oid, po))
        /\ UNCHANGED <<seq, archived, taxRate>>
    BY <1>3 DEF PhoneCheckout
  <2>2. "COMPLETED" \in OrderStatuses /\ ws = <<SaveTicket(po.tid, Reopened(po))>>
        /\ po = [orders[oid] EXCEPT !.status = "COMPLETED"]
    BY DEF OrderStatuses
  <2> HIDE DEF po, ws
  <2>3. QED
    BY <1>2, <2>1, <2>2
<1>4. CASE PhoneCancel(oid)
  <2> DEFINE po == [orders[oid] EXCEPT !.status = "CANCELLED"]
             ws == <<>>
  <2>1. /\ tickets' = tickets /\ orders' = [orders EXCEPT ![oid] = po]
        /\ Writes(SavePhoneOrder(oid, po))
        /\ UNCHANGED <<seq, archived, taxRate>>
    BY <1>4 DEF PhoneCancel
  <2>2. ws \o SavePhoneOrder(oid, po) = SavePhoneOrder(oid, po)
    BY DEF SavePhoneOrder
  <2>3. Writes(ws \o SavePhoneOrder(oid, po))
    BY <2>1, <2>2
  <2>4. "CANCELLED" \in OrderStatuses /\ ws = <<>>
        /\ po = [orders[oid] EXCEPT !.status = "CANCELLED"]
    BY DEF OrderStatuses
  <2> HIDE DEF po, ws
  <2>5. QED
    BY <1>2, <2>1, <2>3, <2>4
<1>5. CASE PhoneEdit(oid)
  BY <1>1, <1>5, HoldingShape, StoreDurable DEF PhoneEdit
<1>6. QED
  BY <1>3, <1>4, <1>5 DEF PhoneOps

LEMMA SetTaxRateDurable ==
  ASSUME IInv, DInv, NEW bps \in TaxRates, SetTaxRate(bps)
  PROVE  DInv' /\ OrderedStay
<1> DEFINE w == SaveTaxRate(bps)
<1>1. /\ Ready /\ pending' = <<w>> /\ db' = db /\ up' /\ taxRate' = bps
      /\ UNCHANGED <<tickets, orders, seq, archived>>
  BY DEF SetTaxRate, Writes, Ready
<1>2. w.op = "save_setting" /\ w.bps = bps
  BY DEF SaveTaxRate
<1> HIDE DEF w
<1>3. Waiting' = {w}
  BY <1>1, OneElement DEF Waiting
<1>4. /\ OrdersAgree' /\ OrderedStay /\ SeqsAgree' /\ ReportsAgree'
  BY <1>1, <1>2, <1>3, OrdersKept, SeqsKept, ReportsKept
<1>5. TicketsAgree'
  BY <1>1, <1>2, <1>3, <1>4, TicketsKept
<1>6. RateAgrees'
  BY <1>1, <1>2, <1>3 DEF RateAgrees, RateWrite
<1>7. QED
  BY <1>1, <1>4, <1>5, <1>6 DEF DInv, RowsAreStored

LEMMA TicketOpsDurable ==
  ASSUME IInv, IInv', OInv, DInv, NEW id \in Ids, TicketOps(id)
  PROVE  DInv' /\ OrderedStay
<1>1. Ready
  BY TicketOpsStore
<1>2. ASSUME NEW t, Store(id, t) PROVE DInv' /\ OrderedStay
  BY <1>1, <1>2, StoreDurable
<1>3. ASSUME NEW legs \in Payments, NEW fee \in CardFees, CheckoutRefused(id, legs, fee)
      PROVE  DInv' /\ OrderedStay
  BY <1>3, RefusedDurable
<1>4. CASE /\ ~InMemory(id)
           /\ Writes(<<SetTicketPrinted(id, TRUE)>>) /\ UNCHANGED memory
  BY <1>1, <1>4, MarkRowDurable DEF InMemory
<1>5. CASE CreatePhoneOrder(id)
  BY <1>5, CreatePhoneOrderDurable
<1>6. QED
  BY <1>2, <1>3, <1>4, <1>5, TicketOpsStore

-----------------------------------------------------------------------------
(* Commits, crashes and the invariant *)

\* A commit makes its cell agree, and takes nothing from what was agreed.
LEMMA CommitDurable ==
  ASSUME NoRowIsNoRate, IInv, DInv, CommitWrite
  PROVE  DInv' /\ OrderedStay
<1> DEFINE w == Head(pending)
<1>1. /\ up /\ up' /\ pending # <<>> /\ db' = Apply(db, w) /\ pending' = Tail(pending)
      /\ UNCHANGED <<tickets, orders, seq, archived, taxRate>>
  BY DEF CommitWrite, memory
<1>2. pending \in Seq(GoodWrite)
  BY IInvParts DEF Frame
<1>3. w \in GoodWrite /\ Waiting = {w} \cup Waiting'
  <2>1. /\ Len(pending) \in Nat \ {0} /\ w = pending[1] /\ w \in GoodWrite
        /\ Tail(pending) \in Seq(GoodWrite)
        /\ Len(Tail(pending)) = Len(pending) - 1
        /\ \A i \in 1..Len(Tail(pending)) : Tail(pending)[i] = pending[i + 1]
    BY <1>1, <1>2, LenProperties, EmptySeq, HeadTailProperties
  <2> DEFINE rest == Tail(pending)
  <2>2. DOMAIN pending = 1..Len(pending) /\ DOMAIN rest = 1..Len(rest)
    BY <1>2, <2>1
  <2> HIDE DEF w, rest
  <2>3. ASSUME NEW i \in 1..Len(pending), i # 1
        PROVE  i - 1 \in 1..Len(rest) /\ rest[i - 1] = pending[i]
    <3>1. /\ Len(pending) \in Nat /\ Len(rest) = Len(pending) - 1
          /\ \A k \in 1..Len(rest) : rest[k] = pending[k + 1]
      BY <2>1 DEF rest
    <3>2. i - 1 \in 1..Len(rest) /\ (i - 1) + 1 = i
      BY <2>3, <3>1
    <3>3. QED
      BY <3>1, <3>2
  <2>4. \A i \in 1..Len(rest) : i + 1 \in 1..Len(pending) /\ rest[i] = pending[i + 1]
    BY <2>1 DEF rest
  <2>5. ToSet(pending) = {w} \cup ToSet(rest)
    <3>1. ASSUME NEW e \in ToSet(pending) PROVE e \in {w} \cup ToSet(rest)
      <4>1. PICK i \in 1..Len(pending) : e = pending[i]
        BY <2>2, <3>1 DEF ToSet
      <4>2. CASE i = 1
        BY <2>1, <4>1, <4>2
      <4>3. CASE i # 1
        <5>1. i - 1 \in 1..Len(rest) /\ rest[i - 1] = pending[i]
          BY <2>3, <4>3
        <5>2. QED
          BY <2>2, <4>1, <5>1 DEF ToSet
      <4>4. QED
        BY <4>2, <4>3
    <3>2. ASSUME NEW e \in ToSet(rest) PROVE e \in ToSet(pending)
      <4>1. PICK i \in 1..Len(rest) : e = rest[i]
        BY <2>2, <3>2 DEF ToSet
      <4>2. i + 1 \in 1..Len(pending) /\ e = pending[i + 1]
        BY <2>4, <4>1
      <4>3. QED
        BY <2>2, <4>2 DEF ToSet
    <3>3. w \in ToSet(pending)
      BY <2>1, <2>2 DEF ToSet
    <3>4. QED
      BY <3>1, <3>2, <3>3
  <2>6. QED
    BY <1>1, <2>1, <2>5 DEF Waiting, rest
<1> HIDE DEF w
<1>4. TicketsAgree /\ OrdersAgree /\ SeqsAgree /\ ReportsAgree /\ RateAgrees /\ RowsAreStored
  BY <1>1 DEF DInv
<1>5. \A id \in Ids : db'.tickets[id] =
        IF w.op = "save_ticket" /\ w.id = id THEN Row(w.ticket)
        ELSE IF w.op = "delete_ticket" /\ w.id = id THEN NoRow
        ELSE IF w.op = "set_ticket_printed" /\ w.id = id /\ db.tickets[id] # NoRow
             THEN [db.tickets[id] EXCEPT !.printed = w.printed]
        ELSE db.tickets[id]
  BY <1>1, <1>3, ApplyCells
<1>6. \A oid \in Oids : db'.orders[oid] =
        IF ~OrderWrite(w, oid) THEN db.orders[oid]
        ELSE IF db.orders[oid] = NoRow THEN w.row
        ELSE [db.orders[oid] EXCEPT !.status = w.row.status]
  BY <1>1, <1>3, ApplyCells
<1>7. OrderedStay
  <2>1. db.orders \in [Oids -> OrderRow \cup {NoRow}]
    BY IInvParts DEF Frame, GoodTables, TablesOf
  <2>2. ASSUME NEW oid \in Oids, db.orders[oid] # NoRow
        PROVE  db'.orders[oid] # NoRow /\ db'.orders[oid].tid = db.orders[oid].tid
    <3> DEFINE r == [db.orders[oid] EXCEPT !.status = w.row.status]
    <3>1. CASE OrderWrite(w, oid)
      <4>1. w.row \in OrderRow
        BY <1>3, <3>1, WriteFields DEF OrderWrite
      <4>2. r \in OrderRow /\ r.tid = db.orders[oid].tid
        BY <2>1, <2>2, <4>1 DEF OrderRow
      <4>3. db'.orders[oid] = r
        BY <1>6, <2>2, <3>1
      <4> HIDE DEF r
      <4>4. QED
        BY <4>2, <4>3, RowsAreNotMissing
    <3>2. CASE ~OrderWrite(w, oid)
      BY <1>6, <2>2, <3>2
    <3>3. QED
      BY <3>1, <3>2
  <2>3. QED
    BY <1>1, <2>2 DEF OrderedStay, InAnOrder
<1>8. TicketsAgree'
  <2>1. SUFFICES ASSUME NEW id \in Slips, ~InAnOrder(id)'
        PROVE /\ \/ SameTicket(tickets'[id], db'.tickets[id])
                 \/ \E v \in Waiting' : RowWrite(v, id)
              /\ \A v \in Waiting' :
                   /\ RowWrite(v, id) => Leaves(v, tickets'[id])
                   /\ (v.op = "set_ticket_printed" /\ v.id = id) => tickets'[id] = NoRow
    BY DEF TicketsAgree
  <2>2. id \in Ids /\ ~InAnOrder(id)
    BY <1>7, <2>1 DEF OrderedStay, Slips
  <2>3. /\ \/ SameTicket(tickets[id], db.tickets[id])
           \/ \E v \in Waiting : RowWrite(v, id)
        /\ \A v \in Waiting :
             /\ RowWrite(v, id) => Leaves(v, tickets[id])
             /\ (v.op = "set_ticket_printed" /\ v.id = id) => tickets[id] = NoRow
    BY <1>4, <2>1, <2>2 DEF TicketsAgree
  <2>4. CASE RowWrite(w, id)
    BY <1>1, <1>3, <1>5, <2>2, <2>3, <2>4 DEF RowWrite, Leaves, SameTicket
  <2>5. CASE ~RowWrite(w, id)
    <3>1. CASE \E v \in Waiting' : RowWrite(v, id)
      BY <1>1, <1>3, <2>3, <3>1
    <3>2. CASE ~ \E v \in Waiting' : RowWrite(v, id)
      <4>1. SameTicket(tickets[id], db.tickets[id])
        BY <1>3, <2>3, <2>5, <3>2
      <4>2. db'.tickets[id] = db.tickets[id]
        <5>1. (w.op = "set_ticket_printed" /\ w.id = id) => db.tickets[id] = NoRow
          BY <1>3, <2>3, <4>1 DEF SameTicket
        <5>2. QED
          BY <1>5, <2>2, <2>5, <5>1 DEF RowWrite
      <4>3. QED
        BY <1>1, <1>3, <2>3, <4>1, <4>2
    <3>3. QED
      BY <3>1, <3>2
  <2>6. QED
    BY <2>4, <2>5
<1>9. OrdersAgree'
  <2>1. SUFFICES ASSUME NEW oid \in Oids
        PROVE /\ \/ SameOrder(orders'[oid], db'.orders[oid])
                 \/ \E v \in Waiting' : OrderWrite(v, oid)
              /\ \A v \in Waiting' : OrderWrite(v, oid) =>
                   /\ SameOrder(orders'[oid], v.row) /\ orders'[oid].tid = v.row.tid
                   /\ db'.orders[oid] # NoRow =>
                        orders'[oid].tid \in {db'.orders[oid].tid, NoId}
    BY DEF OrdersAgree
  <2>2. /\ \/ SameOrder(orders[oid], db.orders[oid])
           \/ \E v \in Waiting : OrderWrite(v, oid)
        /\ \A v \in Waiting : OrderWrite(v, oid) =>
             /\ SameOrder(orders[oid], v.row) /\ orders[oid].tid = v.row.tid
             /\ db.orders[oid] # NoRow => orders[oid].tid \in {db.orders[oid].tid, NoId}
    BY <1>4 DEF OrdersAgree
  <2>3. CASE ~OrderWrite(w, oid)
    BY <1>1, <1>3, <1>6, <2>2, <2>3
  <2>4. CASE OrderWrite(w, oid) /\ db.orders[oid] = NoRow
    <3>1. db'.orders[oid] = w.row /\ SameOrder(orders[oid], w.row) /\ w.row # NoRow
      BY <1>3, <1>6, <2>2, <2>4, WriteFields, RowsAreNotMissing DEF OrderWrite
    <3>2. orders[oid].tid \in {w.row.tid, NoId}
      BY <3>1 DEF SameOrder
    <3>3. QED
      BY <1>1, <1>3, <2>2, <3>1, <3>2
  <2>5. CASE OrderWrite(w, oid) /\ db.orders[oid] # NoRow
    <3> DEFINE r == [db.orders[oid] EXCEPT !.status = w.row.status]
    <3>1. /\ db'.orders[oid] = r /\ w.row \in OrderRow
          /\ SameOrder(orders[oid], w.row)
          /\ orders[oid].tid \in {db.orders[oid].tid, NoId}
      BY <1>3, <1>6, <2>2, <2>5, WriteFields DEF OrderWrite
    <3>2. r \in OrderRow /\ r.tid = db.orders[oid].tid /\ r.status = w.row.status
      <4>1. db.orders[oid] \in OrderRow
        BY <2>5, IInvParts DEF Frame, GoodTables, TablesOf
      <4>2. QED
        BY <3>1, <4>1 DEF OrderRow
    <3> HIDE DEF r
    <3>3. r # NoRow /\ w.row # NoRow
      BY <3>1, <3>2, RowsAreNotMissing
    <3>4. SameOrder(orders[oid], r)
      BY <3>1, <3>2, <3>3 DEF SameOrder
    <3>5. QED
      BY <1>1, <1>3, <2>2, <3>1, <3>2, <3>4
  <2>6. QED
    BY <2>3, <2>4, <2>5
<1>10. SeqsAgree'
  <2>1. \A name \in SeqNames : db'.seq[name] =
          IF SeqWrite(w, name) THEN w.value ELSE db.seq[name]
    BY <1>1, <1>3, ApplyCells
  <2>2. QED
    BY <1>1, <1>3, <1>4, <2>1 DEF SeqsAgree
<1>11. ReportsAgree'
  <2>1. \A d \in Dates : db'.reports[d] =
          IF ReportWrite(w, d) THEN w.report ELSE db.reports[d]
    BY <1>1, <1>3, ApplyCells
  <2>2. QED
    BY <1>1, <1>3, <1>4, <2>1 DEF ReportsAgree
<1>12. RowsAreStored'
  <2>1. SUFFICES ASSUME NEW id \in Ids, db'.tickets[id] # NoRow
        PROVE StoredLines(LoadedLines(db'.tickets[id].items)) = db'.tickets[id].items
    BY DEF RowsAreStored
  <2>2. CASE w.op = "save_ticket" /\ w.id = id
    <3>1. w.ticket \in GoodTicket /\ db'.tickets[id] = Row(w.ticket)
      BY <1>3, <1>5, <2>2, WriteFields
    <3>2. w.ticket.items \in Seq(Line) /\ Row(w.ticket).items = StoredLines(w.ticket.items)
      BY <3>1 DEF GoodTicket, Ticket, TicketOf, Items, Row
    <3>3. QED
      BY <3>1, <3>2, StoredAgain
  <2>3. CASE ~(w.op = "save_ticket" /\ w.id = id)
    <3>1. db.tickets[id] # NoRow
      BY <1>5, <2>1, <2>3
    <3>2. db.tickets[id] \in GoodRow
      BY <3>1, IInvParts DEF Frame, GoodTables, TablesOf
    <3>3. db'.tickets[id].items = db.tickets[id].items
      <4>1. [db.tickets[id] EXCEPT !.printed = w.printed].items = db.tickets[id].items
        BY <3>2 DEF GoodRow, TicketRow, TicketOf
      <4>2. QED
        BY <1>5, <2>1, <2>3, <4>1
    <3>4. QED
      BY <1>4, <3>1, <3>3 DEF RowsAreStored
  <2>4. QED
    BY <2>2, <2>3
<1>13. RateAgrees'
  <2>1. db'.taxRate = IF RateWrite(w) THEN w.bps ELSE db.taxRate
    BY <1>1, <1>3, ApplyCells
  <2>2. RateWrite(w) => w.bps # NoRow
    BY <1>3, WriteFields DEF RateWrite, NoRowIsNoRate
  <2>3. QED
    BY <1>1, <1>3, <1>4, <2>1, <2>2 DEF RateAgrees, SavedRate
<1>14. QED
  BY <1>1, <1>7, <1>8, <1>9, <1>10, <1>11, <1>12, <1>13 DEF DInv

\* A crash between two operations leaves the tables, and nothing waits.
LEMMA CrashDurable ==
  ASSUME AtomicHandlers, IInv, DInv, Crash
  PROVE  DInv' /\ OrderedStay
<1>1. /\ Ready /\ ~up' /\ db' = db /\ \A oid \in Oids : orders'[oid] = NoRow
  BY DEF Crash, AtomicHandlers, Ready
<1>2. ASSUME NEW id \in Slips, InAnOrder(id) PROVE InAnOrder(id)'
  <2>1. id # NoId
    BY DEF Slips
  <2>2. PICK oid \in Oids : \/ orders[oid] # NoRow /\ orders[oid].tid = id
                            \/ db.orders[oid] # NoRow /\ db.orders[oid].tid = id
    BY <1>2 DEF InAnOrder
  <2>3. db.orders[oid] # NoRow /\ db.orders[oid].tid = id
    BY <1>1, <2>1, <2>2, IdleAgrees DEF SameOrder
  <2>4. QED
    BY <1>1, <2>3 DEF InAnOrder
<1>3. QED
  BY <1>1, <1>2 DEF DInv, RowsAreStored, OrderedStay

\* A restart reads every table back.
LEMMA RestartDurable ==
  ASSUME IInv, OInv, DInv, Restart
  PROVE  DInv' /\ OrderedStay
<1>1. /\ ~up /\ up' /\ pending' = <<>> /\ db' = db /\ seq' = db.seq
      /\ tickets' = LoadTickets(db)
      /\ orders' = LoadOrders(db, NoId, EmptyTicket)
      /\ archived' = db.reports /\ taxRate' = SavedRate
  BY DEF Restart, Load, OInv, SavedRate
<1>2. Waiting' = {}
  BY <1>1, NoElement DEF Waiting
<1>3. /\ db.tickets \in [Ids -> GoodRow \cup {NoRow}]
      /\ db.orders \in [Oids -> OrderRow \cup {NoRow}]
  BY IInvParts DEF Frame, GoodTables, TablesOf
<1>4. \A oid \in Oids : orders[oid] = NoRow
  BY <1>1 DEF DInv
<1>5. OrderedStay
  BY <1>1, <1>4 DEF OrderedStay, InAnOrder
<1>6. TicketsAgree'
  <2>1. SUFFICES ASSUME NEW id \in Ids PROVE SameTicket(tickets'[id], db.tickets[id])
    BY <1>1, <1>2, <2>1 DEF TicketsAgree, Slips
  <2>2. tickets'[id] = IF db.tickets[id] = NoRow THEN NoRow ELSE Loaded(db.tickets[id])
    BY <1>1, <1>3 DEF LoadTickets
  <2>3. CASE db.tickets[id] = NoRow
    BY <2>2, <2>3 DEF SameTicket
  <2>4. CASE db.tickets[id] # NoRow
    <3>1. /\ db.tickets[id] \in GoodRow
          /\ StoredLines(LoadedLines(db.tickets[id].items)) = db.tickets[id].items
      BY <1>3, <2>4 DEF DInv, RowsAreStored
    <3>2. QED
      BY <2>2, <2>4, <3>1, LoadedIsSame
  <2>5. QED
    BY <2>3, <2>4
<1>7. OrdersAgree'
  <2>1. SUFFICES ASSUME NEW oid \in Oids PROVE SameOrder(orders'[oid], db.orders[oid])
    BY <1>1, <1>2, <2>1 DEF OrdersAgree
  <2> DEFINE row == db.orders[oid]
             lost  == [tid |-> NoId, ticket |-> EmptyTicket, status |-> row.status]
             found == [tid |-> row.tid, ticket |-> Loaded(db.tickets[row.tid]),
                       status |-> row.status]
  <2>2. orders'[oid] = IF row = NoRow THEN NoRow
                       ELSE IF db.tickets[row.tid] = NoRow THEN lost ELSE found
    BY <1>1, <1>3 DEF LoadOrders
  <2>3. CASE row = NoRow
    BY <2>2, <2>3 DEF SameOrder
  <2>4. CASE row # NoRow
    <3>1. lost # NoRow /\ (db.tickets[row.tid] # NoRow => found # NoRow)
      <4>1. row.status \in OrderStatuses /\ row.tid \in Ids /\ NoId \in Ids
        BY <1>3, <2>4, BoundsAssumption DEF OrderRow, Ids, NoId
      <4>2. lost \in PhoneOrderOf(GoodTicket)
        BY <4>1, EmptyTicketShape DEF PhoneOrderOf
      <4>3. db.tickets[row.tid] # NoRow => found \in PhoneOrderOf(GoodTicket)
        BY <1>3, <4>1, LoadedShape DEF PhoneOrderOf
      <4>4. QED
        BY <4>2, <4>3, RowsAreNotMissing
    <3>2. lost.status = row.status /\ lost.tid = NoId
          /\ found.status = row.status /\ found.tid = row.tid
      OBVIOUS
    <3> HIDE DEF lost, found
    <3>3. QED
      BY <2>2, <2>4, <3>1, <3>2 DEF SameOrder
  <2>5. QED
    BY <2>3, <2>4
<1>8. SeqsAgree' /\ ReportsAgree' /\ RateAgrees' /\ RowsAreStored'
  BY <1>1, <1>2 DEF SeqsAgree, ReportsAgree, RateAgrees, SavedRate, RowsAreStored, DInv
<1>9. QED
  BY <1>1, <1>5, <1>6, <1>7, <1>8 DEF DInv

LEMMA InitDInv == Init => DInv
<1> SUFFICES ASSUME Init PROVE DInv
  OBVIOUS
<1>1. /\ up /\ pending = <<>> /\ taxRate = DefaultTaxRate /\ db.taxRate = NoRow
      /\ \A id \in Ids : tickets[id] = NoRow /\ db.tickets[id] = NoRow
      /\ \A oid \in Oids : orders[oid] = NoRow /\ db.orders[oid] = NoRow
      /\ \A name \in SeqNames : seq[name] = db.seq[name]
      /\ \A d \in Dates : archived[d] = db.reports[d]
  BY DEF Init, EmptyDb
<1>2. Waiting = {}
  BY <1>1, NoElement DEF Waiting
<1>3. TicketsAgree
  BY <1>1, <1>2 DEF TicketsAgree, SameTicket, Slips
<1>4. OrdersAgree
  BY <1>1, <1>2 DEF OrdersAgree, SameOrder
<1>5. SeqsAgree /\ ReportsAgree /\ RateAgrees /\ RowsAreStored
  BY <1>1, <1>2 DEF SeqsAgree, ReportsAgree, RateAgrees, SavedRate, RowsAreStored
<1>6. QED
  BY <1>1, <1>3, <1>4, <1>5 DEF DInv

\* Every step keeps tables and memory in agreement, and no ticket leaves the
\* orders.
LEMMA NextDInv ==
  ASSUME AtomicHandlers, NoRowIsNoRate, IInv, IInv', OInv, DInv, [Next]_vars
  PROVE  DInv' /\ OrderedStay
<1>1. CASE NewTicket
  BY <1>1, NewTicketDurable
<1>2. CASE EndDay
  BY <1>2, EndDayDurable
<1>3. ASSUME NEW id \in Ids, TicketOps(id) PROVE DInv' /\ OrderedStay
  BY <1>3, TicketOpsDurable
<1>4. ASSUME NEW oid \in Oids, PhoneOps(oid) PROVE DInv' /\ OrderedStay
  BY <1>4, PhoneOpsDurable
<1>5. ASSUME NEW bps \in TaxRates, SetTaxRate(bps) PROVE DInv' /\ OrderedStay
  BY <1>5, SetTaxRateDurable
<1>6. CASE CommitWrite
  BY <1>6, CommitDurable
<1>7. CASE WriteFails
  <2>1. failures \in 0..MaxFailures /\ failures < MaxFailures /\ MaxFailures = 0
    BY <1>7, IInvParts DEF WriteFails, Frame, AtomicHandlers
  <2>2. QED
    BY <2>1
<1>8. CASE Crash
  BY <1>8, CrashDurable
<1>9. CASE Restart
  BY <1>9, RestartDurable
<1>10. CASE NextDay \/ UNCHANGED vars
  <2>1. UNCHANGED <<tickets, orders, seq, archived, taxRate, db, pending, up>>
    BY <1>10 DEF NextDay, vars, memory
  <2>2. \A id \in Ids : InAnOrder(id)' = InAnOrder(id)
    BY <2>1 DEF InAnOrder
  <2>3. OrderedStay
    BY <2>2 DEF OrderedStay, Slips
  <2>4. Waiting' = Waiting
    BY <2>1 DEF Waiting
  <2>5. TicketsAgree' = TicketsAgree
    BY <2>1, <2>2, <2>4 DEF TicketsAgree, Slips
  <2>6. /\ OrdersAgree' = OrdersAgree /\ SeqsAgree' = SeqsAgree
        /\ ReportsAgree' = ReportsAgree /\ RateAgrees' = RateAgrees
        /\ RowsAreStored' = RowsAreStored
    BY <2>1, <2>4 DEF OrdersAgree, SeqsAgree, ReportsAgree, RateAgrees, SavedRate,
                      RowsAreStored
  <2>7. QED
    BY <2>1, <2>3, <2>5, <2>6 DEF DInv
<1>11. QED
  BY <1>1, <1>2, <1>3, <1>4, <1>5, <1>6, <1>7, <1>8, <1>9, <1>10 DEF Next

LEMMA AlwaysDInv ==
  ASSUME AtomicHandlers, NoRowIsNoRate
  PROVE  Spec => [](IInv /\ OInv /\ DInv)
<1>1. Init => IInv /\ OInv /\ DInv
  BY InitIInv, InitOInv, InitDInv
<1>2. (IInv /\ OInv /\ DInv) /\ [Next]_vars => (IInv /\ OInv /\ DInv)'
  <2> SUFFICES ASSUME IInv, OInv, DInv, [Next]_vars PROVE (IInv /\ OInv /\ DInv)'
    OBVIOUS
  <2>1. IInv' /\ OInv'
    BY NextIInv, NextOInv
  <2>2. QED
    BY <2>1, NextDInv
<1>3. QED
  BY <1>1, <1>2, PTL DEF Spec

\* What was acknowledged is durable: whenever no operation is under way, the
\* tables hold the sequences, the reports, the tax rate, the state of every
\* phone order and every numbered ticket that was never in one, so a restart of
\* the daemon loses none of them (the save_ calls of pos_manager.cpp).
THEOREM AcknowledgedIsDurable ==
  ASSUME AtomicHandlers, NoRowIsNoRate
  PROVE  Spec => []DurableWhenIdle
<1>1. IInv /\ DInv => DurableWhenIdle
  <2> SUFFICES ASSUME IInv, DInv, Ready PROVE DurableWhenIdle
    BY DEF DurableWhenIdle
  <2>1. /\ seq \in [SeqNames -> Nat] /\ archived \in [Dates -> {NoRow} \cup ReportOf(GoodTicket)]
        /\ db.seq \in [SeqNames -> Nat]
        /\ db.reports \in [Dates -> {NoRow} \cup ReportOf(GoodTicket)]
    BY IInvParts DEF Memory, Frame, GoodTables, TablesOf
  <2>2. seq = db.seq /\ archived = db.reports
    BY <2>1, IdleAgrees
  <2>3. \A oid \in Oids :
          /\ (orders[oid] = NoRow) = (db.orders[oid] = NoRow)
          /\ orders[oid] # NoRow =>
               /\ orders[oid].status = db.orders[oid].status
               /\ orders[oid].tid \in {db.orders[oid].tid, NoId}
    BY IdleAgrees DEF SameOrder
  <2>4. QED
    BY <2>2, <2>3, IdleAgrees DEF DurableWhenIdle, SavedRate
<1>2. QED
  BY <1>1, AlwaysDInv, PTL


-----------------------------------------------------------------------------
(* The mark of a printed receipt *)

\* The inductive invariant: a ticket whose row is marked is marked in memory.
MarkInv ==
  up => \A id \in Slips :
          (/\ ~InAnOrder(id) /\ tickets[id] # NoRow /\ db.tickets[id] # NoRow
           /\ db.tickets[id].printed) => tickets[id].printed

\* The mark of one ticket that stays in memory outside of every order.
MarkStays(id) ==
  (/\ ~InAnOrder(id)' /\ tickets[id] # NoRow /\ tickets'[id] # NoRow
   /\ tickets[id].printed) => tickets'[id].printed

LEMMA SameMark ==
  ASSUME NEW t \in GoodTicket, NEW r \in GoodRow, SameTicket(t, r)
  PROVE  t.printed = r.printed
<1>1. t \in Ticket /\ r \in TicketOf(SUBSET Line) /\ t # NoRow /\ r # NoRow
  BY RowsAreNotMissing DEF GoodTicket, GoodRow, TicketRow
<1>2. Row(t).printed = t.printed
  BY <1>1 DEF Row, Ticket, TicketOf
<1>3. CASE t.status = "OPEN"
  <2>1. [r EXCEPT !.fee = t.fee] = Row(t)
    BY <1>1, <1>3 DEF SameTicket
  <2>2. [r EXCEPT !.fee = t.fee].printed = r.printed
    BY <1>1 DEF TicketOf
  <2>3. QED
    BY <1>2, <2>1, <2>2
<1>4. CASE t.status # "OPEN"
  BY <1>1, <1>2, <1>4 DEF SameTicket
<1>5. QED
  BY <1>3, <1>4

\* An operation starts from tables that agree with the memory.
LEMMA OperationMark ==
  ASSUME IInv, DInv, Ready, db' = db, OrderedStay, \A id \in Slips : MarkStays(id)
  PROVE  MarkInv'
<1>1. SUFFICES ASSUME NEW id \in Slips, ~InAnOrder(id)', tickets'[id] # NoRow,
                      db.tickets[id] # NoRow, db.tickets[id].printed
               PROVE  tickets'[id].printed
  BY DEF MarkInv
<1>2. ~InAnOrder(id) /\ id \in Ids
  BY <1>1 DEF OrderedStay, Slips
<1>3. SameTicket(tickets[id], db.tickets[id])
  BY <1>2, IdleAgrees
<1>4. tickets[id] # NoRow
  BY <1>1, <1>3 DEF SameTicket
<1>5. tickets[id] \in GoodTicket /\ db.tickets[id] \in GoodRow
  BY <1>1, <1>2, <1>4, IInvParts DEF Memory, Frame, GoodTables, TablesOf
<1>6. tickets[id].printed
  BY <1>1, <1>3, <1>5, SameMark
<1>7. QED
  BY <1>1, <1>4, <1>6 DEF MarkStays

\* One ticket is replaced by another with its mark.
LEMMA ReplacedMark ==
  ASSUME IInv, NEW id \in Ids, NEW t, tickets' = [tickets EXCEPT ![id] = t],
         tickets[id].printed => t.printed
  PROVE  \A i \in Slips : MarkStays(i)
<1>1. \A i \in Slips : tickets'[i] = IF i = id THEN t ELSE tickets[i]
  BY IInvParts DEF Memory, Slips
<1>2. QED
  BY <1>1 DEF MarkStays

\* No operation on a ticket takes its mark away.
LEMMA TicketOpsMark ==
  ASSUME IInv, NEW id \in Ids, TicketOps(id)
  PROVE  db' = db /\ Ready /\ \A i \in Slips : MarkStays(i)
<1> DEFINE Stays == db' = db /\ \A i \in Slips : MarkStays(i)
<1>1. ASSUME NEW t, Store(id, t), tickets[id].printed => t.printed PROVE Stays
  BY <1>1, ReplacedMark DEF Store, Writes
<1>2. InMemory(id) => tickets[id] \in Ticket
  BY InMemoryShape
<1>3. ASSUME NEW items, IsOpen(id), EditLines(id, items) PROVE Stays
  <2> DEFINE t == Recalculated([tickets[id] EXCEPT !.items = items], taxRate)
  <2>1. t.printed = tickets[id].printed
    BY <1>2, <1>3 DEF IsOpen, Recalculated, Ticket, TicketOf
  <2>2. Store(id, t)
    BY <1>3 DEF EditLines
  <2> HIDE DEF t
  <2>3. QED
    BY <1>1, <2>1, <2>2
<1> HIDE DEF Stays
<1>4. ASSUME NEW key \in LineKeys, NEW qty \in 1..MaxQty, AddItem(id, key, qty)
      PROVE  Stays
  BY <1>3, <1>4 DEF AddItem
<1>5. ASSUME NEW i \in 1..MaxLines, RemoveItem(id, i) \/ DecreaseItem(id, i)
      PROVE  Stays
  BY <1>3, <1>5 DEF RemoveItem, DecreaseItem
<1>6. ASSUME NEW i \in 1..MaxLines, NEW key \in LineKeys, UpdateItem(id, i, key)
      PROVE  Stays
  BY <1>3, <1>6 DEF UpdateItem
<1>7. ASSUME NEW legs \in Payments, NEW fee \in CardFees, Checkout(id, legs, fee)
      PROVE  Stays
  <2> DEFINE t == Paid(tickets[id], legs, fee)
  <2>1. Store(id, t) /\ tickets[id] \in Ticket
    BY <1>2, <1>7 DEF Checkout, IsOpen
  <2>2. t.printed = tickets[id].printed
    BY <2>1 DEF Paid, Ticket, TicketOf
  <2> HIDE DEF t
  <2>3. QED
    BY <1>1, <2>1, <2>2
<1>8. ASSUME NEW legs \in Payments, NEW fee \in CardFees, CheckoutRefused(id, legs, fee)
      PROVE  Stays
  <2> DEFINE t == [tickets[id] EXCEPT !.fee = fee]
  <2>1. tickets' = [tickets EXCEPT ![id] = t] /\ db' = db /\ tickets[id] \in Ticket
    BY <1>2, <1>8 DEF CheckoutRefused, IsOpen, Writes
  <2>2. t.printed = tickets[id].printed
    BY <2>1 DEF Ticket, TicketOf
  <2> HIDE DEF t
  <2>3. QED
    BY <2>1, <2>2, ReplacedMark DEF Stays
<1>9. ASSUME VoidTicket(id) PROVE Stays
  <2> DEFINE t == [tickets[id] EXCEPT !.status = "VOIDED",
                     !.closed = IF @ = NoDate THEN today ELSE @]
  <2>1. Store(id, t) /\ tickets[id] \in Ticket
    BY <1>2, <1>9 DEF VoidTicket
  <2>2. t.printed = tickets[id].printed
    BY <2>1 DEF Ticket, TicketOf
  <2> HIDE DEF t
  <2>3. QED
    BY <1>1, <2>1, <2>2
<1>10. ASSUME NEW status, Settle(id, status) PROVE Stays
  <2> DEFINE t == [tickets[id] EXCEPT !.status = status]
  <2>1. Store(id, t) /\ tickets[id] \in Ticket
    BY <1>2, <1>10 DEF Settle
  <2>2. t.printed = tickets[id].printed
    BY <2>1 DEF Ticket, TicketOf
  <2> HIDE DEF t
  <2>3. QED
    BY <1>1, <2>1, <2>2
<1>11. ASSUME MarkTicketPrinted(id) PROVE Stays
  <2> DEFINE t == [tickets[id] EXCEPT !.printed = TRUE]
  <2>1. CASE InMemory(id)
    <3>1. Store(id, t) /\ t.printed = TRUE
      BY <1>2, <1>11, <2>1 DEF MarkTicketPrinted, Ticket, TicketOf
    <3> HIDE DEF t
    <3>2. QED
      BY <1>1, <3>1
  <2>2. CASE ~InMemory(id)
    BY <1>11, <2>2 DEF MarkTicketPrinted, memory, Writes, MarkStays, Stays
  <2>3. QED
    BY <2>1, <2>2
<1>12. ASSUME CreatePhoneOrder(id) PROVE Stays
  <2>1. tickets' = [tickets EXCEPT ![id] = NoRow] /\ db' = db
    BY <1>12 DEF CreatePhoneOrder, Writes
  <2>2. \A i \in Slips : tickets'[i] = IF i = id THEN NoRow ELSE tickets[i]
    BY <2>1, IInvParts DEF Memory, Slips
  <2>3. QED
    BY <2>1, <2>2 DEF MarkStays, Stays
<1>13. Stays
  BY <1>4, <1>5, <1>6, <1>7, <1>8, <1>9, <1>10, <1>11, <1>12
     DEF TicketOps, CompTicket, RefundTicket
<1>14. QED
  BY <1>13, TicketOpsStore DEF Stays

\* A phone order replaces its own ticket only.
LEMMA PhoneOpsMark ==
  ASSUME IInv, NEW oid \in Oids, PhoneOps(oid), OrderedStay
  PROVE  db' = db /\ Ready /\ \A i \in Slips : MarkStays(i)
<1>1. Ready /\ Holding(oid) /\ db' = db
  BY DEF PhoneOps, PhoneCheckout, PhoneCancel, PhoneEdit, Store, Writes
<1>2. \A i \in Ids : i # orders[oid].tid => tickets'[i] = tickets[i]
  <2> DEFINE po == [orders[oid] EXCEPT !.status = "COMPLETED"]
  <2>1. po.tid = orders[oid].tid
    BY <1>1, HoldingShape DEF PhoneOrderOf
  <2>2. \/ tickets' = tickets
        \/ tickets' = [tickets EXCEPT ![po.tid] = Reopened(po)]
        \/ tickets' = [tickets EXCEPT ![orders[oid].tid] = Reopened(orders[oid])]
    BY DEF PhoneOps, PhoneCheckout, PhoneCancel, PhoneEdit, Store
  <2> HIDE DEF po
  <2>3. QED
    BY <2>1, <2>2, IInvParts DEF Memory
<1>3. ASSUME NEW i \in Slips PROVE MarkStays(i)
  <2>1. CASE i = orders[oid].tid
    BY <1>1, <2>1 DEF MarkStays, OrderedStay, InAnOrder, Holding
  <2>2. CASE i # orders[oid].tid
    BY <1>2, <2>2 DEF MarkStays, Slips
  <2>3. QED
    BY <2>1, <2>2
<1>4. QED
  BY <1>1, <1>3

\* What is left to say of a row that a commit changes.
MarkedRowStays ==
  \A id \in Slips :
    (~InAnOrder(id) /\ db.tickets[id] # NoRow /\ db.tickets'[id] # NoRow
       /\ db.tickets[id].printed) => db.tickets'[id].printed

LEMMA CommitMark ==
  ASSUME IInv, DInv, OrderedStay, MarkInv, CommitWrite
  PROVE  MarkedRowStays /\ MarkInv'
<1> DEFINE w == Head(pending)
<1>1. up /\ pending # <<>> /\ db' = Apply(db, w) /\ tickets' = tickets
  BY DEF CommitWrite, memory
<1>2. w \in GoodWrite /\ w \in Waiting
  <2>1. pending \in Seq(GoodWrite)
    BY IInvParts DEF Frame
  <2>2. Len(pending) \in Nat \ {0} /\ w = pending[1] /\ DOMAIN pending = 1..Len(pending)
    BY <1>1, <2>1, LenProperties, EmptySeq, HeadTailProperties
  <2>3. 1 \in 1..Len(pending)
    BY <2>2
  <2> HIDE DEF w
  <2>4. pending[1] \in GoodWrite
    BY <2>1, <2>3
  <2>5. QED
    BY <2>2, <2>3, <2>4 DEF Waiting, ToSet
<1> HIDE DEF w
<1>3. SUFFICES ASSUME NEW id \in Slips, ~InAnOrder(id), db'.tickets[id] # NoRow
               PROVE  /\ (db.tickets[id] # NoRow /\ db.tickets[id].printed) =>
                           db'.tickets[id].printed
                      /\ (tickets[id] # NoRow /\ db'.tickets[id].printed) =>
                           tickets[id].printed
  BY <1>1 DEF MarkedRowStays, MarkInv, OrderedStay
<1>4. id \in Ids
  BY DEF Slips
<1>5. db'.tickets[id] =
        IF w.op = "save_ticket" /\ w.id = id THEN Row(w.ticket)
        ELSE IF w.op = "delete_ticket" /\ w.id = id THEN NoRow
        ELSE IF w.op = "set_ticket_printed" /\ w.id = id /\ db.tickets[id] # NoRow
             THEN [db.tickets[id] EXCEPT !.printed = w.printed]
        ELSE db.tickets[id]
  BY <1>1, <1>2, <1>4, ApplyCells
<1>6. CASE w.op = "save_ticket" /\ w.id = id
  <2>1. SameTicket(tickets[id], Row(w.ticket))
    BY <1>1, <1>2, <1>3, <1>6 DEF DInv, TicketsAgree, RowWrite, Leaves
  <2>2. tickets[id] # NoRow
    BY <1>3, <1>5, <1>6, <2>1 DEF SameTicket
  <2>3. tickets[id] \in GoodTicket /\ Row(w.ticket) \in GoodRow
    BY <1>2, <1>4, <1>6, <2>2, IInvParts, WriteFields, RowShape DEF Memory
  <2>4. tickets[id].printed = db'.tickets[id].printed
    BY <1>5, <1>6, <2>1, <2>3, SameMark
  <2>5. QED
    BY <1>1, <1>3, <2>2, <2>4 DEF MarkInv
<1>7. CASE w.op = "set_ticket_printed" /\ w.id = id /\ db.tickets[id] # NoRow
  <2>1. tickets[id] = NoRow
    BY <1>1, <1>2, <1>3, <1>7 DEF DInv, TicketsAgree
  <2>2. db.tickets[id] \in GoodRow /\ w.printed = TRUE
    BY <1>2, <1>4, <1>7, IInvParts, WriteFields DEF Frame, GoodTables, TablesOf
  <2>3. [db.tickets[id] EXCEPT !.printed = TRUE].printed
    BY <2>2 DEF GoodRow, TicketRow, TicketOf
  <2>4. db'.tickets[id].printed
    BY <1>5, <1>7, <2>2, <2>3
  <2>5. QED
    BY <2>1, <2>4
<1>8. CASE db'.tickets[id] = db.tickets[id]
  BY <1>1, <1>3, <1>8 DEF MarkInv
<1>9. QED
  BY <1>3, <1>5, <1>6, <1>7, <1>8

\* A restart reads the marks back.
LEMMA RestartMark ==
  ASSUME OInv, IInv', DInv', Restart
  PROVE  MarkInv'
<1>1. up' /\ pending' = <<>>
  BY DEF Restart, OInv
<1>2. Waiting' = {}
  BY <1>1, NoElement DEF Waiting
<1>3. SUFFICES ASSUME NEW id \in Slips, ~InAnOrder(id)', tickets'[id] # NoRow,
                      db'.tickets[id] # NoRow, db'.tickets[id].printed
               PROVE  tickets'[id].printed
  BY DEF MarkInv
<1>4. SameTicket(tickets'[id], db'.tickets[id])
  BY <1>1, <1>2, <1>3 DEF DInv, TicketsAgree, SameTicket
<1>5. tickets'[id] \in GoodTicket /\ db'.tickets[id] \in GoodRow
  BY <1>3, IInvPartsNext DEF Memory, Frame, GoodTables, TablesOf, Slips
<1>6. QED
  BY <1>3, <1>4, <1>5, SameMark

LEMMA NextMark ==
  ASSUME AtomicHandlers, IInv, IInv', FInv, OInv, DInv, DInv', OrderedStay, MarkInv,
         [Next]_vars
  PROVE  MarkedRowStays /\ MarkInv'
<1>1. db' = db => MarkedRowStays
  BY DEF MarkedRowStays
<1>2. CASE NewTicket
  <2> DEFINE n == seq["ticket"] + 1
  <2>1. /\ Ready /\ db' = db /\ seq["ticket"] < MaxTickets
        /\ tickets' = [tickets EXCEPT ![n] = EmptyTicket]
    BY <1>2 DEF NewTicket, Writes
  <2>2. seq["ticket"] \in Nat
    BY IInvParts, IdsAreNumbers DEF Memory
  <2>3. n \in Ids /\ ~(n <= seq["ticket"])
    BY <2>1, <2>2, BoundsAssumption DEF Ids
  <2> HIDE DEF n
  <2>4. tickets[n] = NoRow
    BY <2>1, <2>3, NumbersGivenOut
  <2>5. \A i \in Slips : tickets'[i] = IF i = n THEN EmptyTicket ELSE tickets[i]
    BY <2>1, IInvParts DEF Memory, Slips
  <2>6. \A i \in Slips : MarkStays(i)
    BY <2>4, <2>5 DEF MarkStays
  <2>7. QED
    BY <1>1, <2>1, <2>6, OperationMark
<1>3. CASE EndDay
  <2>1. /\ Ready /\ db' = db
        /\ \A i \in Slips : tickets'[i] = NoRow \/ tickets'[i] = tickets[i]
    BY <1>3 DEF EndDay, Writes, Slips
  <2>2. \A i \in Slips : MarkStays(i)
    BY <2>1 DEF MarkStays
  <2>3. QED
    BY <1>1, <2>1, <2>2, OperationMark
<1>4. ASSUME NEW id \in Ids, TicketOps(id) PROVE MarkedRowStays /\ MarkInv'
  BY <1>1, <1>4, TicketOpsMark, OperationMark
<1>5. ASSUME NEW oid \in Oids, PhoneOps(oid) PROVE MarkedRowStays /\ MarkInv'
  BY <1>1, <1>5, PhoneOpsMark, OperationMark
<1>6. ASSUME NEW bps \in TaxRates, SetTaxRate(bps) PROVE MarkedRowStays /\ MarkInv'
  <2>1. Ready /\ db' = db /\ \A i \in Slips : MarkStays(i)
    BY <1>6 DEF SetTaxRate, Writes, MarkStays
  <2>2. QED
    BY <1>1, <2>1, OperationMark
<1>7. CASE CommitWrite
  BY <1>7, CommitMark
<1>8. CASE WriteFails
  <2>1. failures \in 0..MaxFailures /\ failures < MaxFailures /\ MaxFailures = 0
    BY <1>8, IInvParts DEF WriteFails, Frame, AtomicHandlers
  <2>2. QED
    BY <2>1
<1>9. CASE Crash
  BY <1>1, <1>9 DEF Crash, MarkInv
<1>10. CASE Restart
  BY <1>1, <1>10, RestartMark DEF Restart
<1>11. CASE NextDay \/ UNCHANGED vars
  <2>1. UNCHANGED <<tickets, orders, db, up>>
    BY <1>11 DEF NextDay, vars, memory
  <2>2. \A id \in Slips : InAnOrder(id)' = InAnOrder(id)
    BY <2>1 DEF InAnOrder
  <2>3. QED
    BY <1>1, <2>1, <2>2 DEF MarkInv
<1>12. QED
  BY <1>2, <1>3, <1>4, <1>5, <1>6, <1>7, <1>8, <1>9, <1>10, <1>11 DEF Next

\* A receipt that was marked as printed stays marked: no write of the row of a
\* numbered ticket that was never in a phone order takes the mark away, though
\* every operation writes the whole ticket from its copy in memory (save_ticket
\* and set_ticket_printed of database.cpp).
THEOREM MarksAreKept ==
  ASSUME AtomicHandlers, NoRowIsNoRate
  PROVE  Spec => PrintedIsKept
<1> DEFINE Inv == IInv /\ FInv /\ OInv /\ DInv /\ MarkInv
<1>1. Init => Inv
  <2>1. Init => MarkInv
    BY DEF Init, MarkInv, Slips
  <2>2. QED
    BY <2>1, InitIInv, InitFInv, InitOInv, InitDInv
<1>2. Inv /\ [Next]_vars => Inv' /\ MarkedRowStays
  <2> SUFFICES ASSUME Inv, [Next]_vars PROVE Inv' /\ MarkedRowStays
    OBVIOUS
  <2>1. IInv' /\ FInv' /\ OInv'
    BY NextIInv, NextFInv, NextOInv
  <2>2. DInv' /\ OrderedStay
    BY <2>1, NextDInv
  <2>3. QED
    BY <2>1, <2>2, NextMark
<1>3. Inv /\ [Next]_vars => Inv' /\ [MarkedRowStays]_vars
  BY <1>2
<1> HIDE DEF Inv
<1>4. QED
  BY <1>1, <1>3, PTL DEF Spec, PrintedIsKept, MarkedRowStays
=============================================================================

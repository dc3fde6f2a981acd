-------------------------- MODULE PosReportsProofs --------------------------
(***************************************************************************)
(* The reports of PosManager account for the money that was tendered, and  *)
(* the first end of day of a date leaves its figures as they were, for     *)
(* every value of the constants.                                           *)
(***************************************************************************)
EXTENDS PosReports, PosManagerProofs

USE DEF NoDate, NoId

-----------------------------------------------------------------------------
(* The figures of a day *)

\* The tickets of a report with a status are finitely many balanced ones.
LEMMA WithShape ==
  ASSUME NEW S \in ReportOf(GoodTicket), NEW status
  PROVE  /\ IsFiniteSet(With(S, status))
         /\ \A s \in With(S, status) :
              s[2] \in Ticket /\ Balanced(s[2]) /\ s[2].status = status
<1>1. IsFiniteSet(S) /\ S \subseteq Ids \X GoodTicket
  BY DEF ReportOf
<1>2. IsFiniteSet(With(S, status))
  BY <1>1, FS_Subset DEF With
<1>3. QED
  BY <1>1, <1>2 DEF With, GoodTicket

\* accumulate_report and finalize_report over any finite set of balanced
\* tickets: the tender is the revenue, the fees and the change.
LEMMA ReportAccounts ==
  ASSUME NEW S \in ReportOf(GoodTicket)
  PROVE  /\ Report(S).cash + Report(S).card
              = Report(S).revenue + Report(S).fees + ChangeGiven(S)
         /\ Report(S).revenue = Report(S).subtotal + Report(S).tax
<1> DEFINE sold     == With(S, "CLOSED")
           cash     == [s \in sold |-> s[2].payments.cash]
           card     == [s \in sold |-> s[2].payments.card]
           total    == [s \in sold |-> s[2].total]
           fee      == [s \in sold |-> s[2].fee]
           change   == [s \in sold |-> s[2].change]
           subtotal == [s \in sold |-> s[2].subtotal]
           tax      == [s \in sold |-> s[2].tax]
           paid     == [s \in sold |-> s[2].paid]
           due      == [s \in sold |-> s[2].total + s[2].fee]
<1>1. /\ Report(S).cash = SumFunctionOnSet(cash, sold)
      /\ Report(S).card = SumFunctionOnSet(card, sold)
      /\ Report(S).revenue = SumFunctionOnSet(total, sold)
      /\ Report(S).fees = SumFunctionOnSet(fee, sold)
      /\ Report(S).subtotal = SumFunctionOnSet(subtotal, sold)
      /\ Report(S).tax = SumFunctionOnSet(tax, sold)
      /\ ChangeGiven(S) = SumFunctionOnSet(change, sold)
  BY DEF Report, TotalOf, SumOf, ChangeGiven
<1>2. IsFiniteSet(sold)
  BY WithShape
<1>3. \A s \in sold :
        /\ s[2].payments.cash \in Int /\ s[2].payments.card \in Int
        /\ s[2].total \in Int /\ s[2].fee \in Int /\ s[2].change \in Int
        /\ s[2].subtotal \in Int /\ s[2].tax \in Int /\ s[2].paid \in Int
  BY WithShape DEF Ticket, TicketOf
<1>4. \A s \in sold :
        /\ s[2].paid = s[2].payments.cash + s[2].payments.card
        /\ s[2].paid = (s[2].total + s[2].fee) + s[2].change
        /\ s[2].total = s[2].subtotal + s[2].tax
  BY WithShape, <1>3 DEF Balanced, Settled
<1>5. /\ cash \in [sold -> Int] /\ card \in [sold -> Int] /\ total \in [sold -> Int]
      /\ fee \in [sold -> Int] /\ change \in [sold -> Int] /\ subtotal \in [sold -> Int]
      /\ tax \in [sold -> Int] /\ paid \in [sold -> Int] /\ due \in [sold -> Int]
  BY <1>3
<1>6. /\ \A s \in sold : paid[s] = cash[s] + card[s]
      /\ \A s \in sold : due[s] = total[s] + fee[s]
      /\ \A s \in sold : paid[s] = due[s] + change[s]
      /\ \A s \in sold : total[s] = subtotal[s] + tax[s]
  BY <1>4
<1> HIDE DEF sold, cash, card, total, fee, change, subtotal, tax, paid, due
<1>7. SumFunctionOnSet(paid, sold) = SumFunctionOnSet(cash, sold) + SumFunctionOnSet(card, sold)
  <2>1. /\ paid \in [sold -> Int] /\ cash \in [sold -> Int] /\ card \in [sold -> Int]
        /\ \A s \in sold : paid[s] = cash[s] + card[s]
    BY <1>5, <1>6
  <2>2. QED
    BY <1>2, <2>1, SumAdds
<1>8. SumFunctionOnSet(due, sold) = SumFunctionOnSet(total, sold) + SumFunctionOnSet(fee, sold)
  <2>1. /\ due \in [sold -> Int] /\ total \in [sold -> Int] /\ fee \in [sold -> Int]
        /\ \A s \in sold : due[s] = total[s] + fee[s]
    BY <1>5, <1>6
  <2>2. QED
    BY <1>2, <2>1, SumAdds
<1>9. SumFunctionOnSet(paid, sold) = SumFunctionOnSet(due, sold) + SumFunctionOnSet(change, sold)
  <2>1. /\ paid \in [sold -> Int] /\ due \in [sold -> Int] /\ change \in [sold -> Int]
        /\ \A s \in sold : paid[s] = due[s] + change[s]
    BY <1>5, <1>6
  <2>2. QED
    BY <1>2, <2>1, SumAdds
<1>10. SumFunctionOnSet(total, sold)
         = SumFunctionOnSet(subtotal, sold) + SumFunctionOnSet(tax, sold)
  <2>1. /\ total \in [sold -> Int] /\ subtotal \in [sold -> Int] /\ tax \in [sold -> Int]
        /\ \A s \in sold : total[s] = subtotal[s] + tax[s]
    BY <1>5, <1>6
  <2>2. QED
    BY <1>2, <2>1, SumAdds
<1>11. QED
  BY <1>1, <1>7, <1>8, <1>9, <1>10

\* The tickets get_daily_report answers from are finitely many and balanced.
LEMMA DayOfShape ==
  ASSUME IInv, NEW date \in Dates
  PROVE  DayOf(date) \in ReportOf(GoodTicket)
  BY ClosedOnShape, IInvParts DEF DayOf, Memory

LEMMA IInvTender == IInv => TenderIsAccountedFor
<1> SUFFICES ASSUME IInv, NEW d \in HistoryDates(HistoryDays)
             PROVE  LET r == DailyReport(d) IN
                    /\ r.cash + r.card = r.revenue + r.fees + ChangeGiven(DayOf(d))
                    /\ r.revenue = r.subtotal + r.tax
  BY DEF TenderIsAccountedFor
<1>1. d \in Dates
  BY DEF HistoryDates
<1>2. DayOf(d) \in ReportOf(GoodTicket)
  BY <1>1, DayOfShape
<1>3. QED
  BY <1>2, ReportAccounts DEF DailyReport

\* The drawer can be counted against the report of any day, archived or live,
\* in every state the engine reaches (accumulate_report, finalize_report and
\* all that changes the tickets they read).
THEOREM TenderIsAlwaysAccountedFor == Spec => []TenderIsAccountedFor
<1>1. QED
  BY AlwaysIInv, IInvTender, PTL


-----------------------------------------------------------------------------
(* The first end of day of a date.  A summary looks at the newest days of   *)
(* the history, so that today is among them rests on no ticket and no       *)
(* report having a later date.                                              *)

Dated(t) == t.closed <= today

DatedMemory ==
  /\ \A id \in Ids : tickets[id] # NoRow => Dated(tickets[id])
  /\ \A oid \in Oids : orders[oid] # NoRow => Dated(orders[oid].ticket)
  /\ \A d \in Dates : archived[d] # NoRow => d <= today

DatedTables ==
  /\ \A id \in Ids : db.tickets[id] # NoRow => Dated(db.tickets[id])
  /\ \A d \in Dates : db.reports[d] # NoRow => d <= today

DatedWrite(w) ==
  /\ w.op = "save_ticket" => Dated(w.ticket)
  /\ w.op = "save_report" => w.date <= today

\* The inductive invariant: nothing is dated after today, in memory, in the
\* tables and on its way to them.
DateInv ==
  /\ DatedMemory /\ DatedTables
  /\ \A i \in 1..Len(pending) : DatedWrite(pending[i])

LEMMA DatesAreNumbers == Dates \subseteq Nat /\ 0 \in Dates
  BY BoundsAssumption DEF Dates

\* Replacing one ticket by one that is not dated after today.
LEMMA StoreDated ==
  ASSUME DateInv, NEW id \in Ids, NEW t, Dated(t), Store(id, t)
  PROVE  DateInv'
<1>1. /\ today' = today /\ db' = db /\ orders' = orders /\ archived' = archived
      /\ tickets' = [tickets EXCEPT ![id] = t] /\ pending' = <<SaveTicket(id, t)>>
  BY DEF Store, Writes
<1>2. DatedMemory'
  BY <1>1 DEF DateInv, DatedMemory, Dated
<1>3. DatedTables'
  BY <1>1 DEF DateInv, DatedTables, Dated
<1>4. \A i \in 1..Len(pending') : pending'[i] = SaveTicket(id, t)
  BY <1>1
<1>5. \A i \in 1..Len(pending') : DatedWrite(pending[i])'
  BY <1>1, <1>4 DEF DatedWrite, SaveTicket, Dated
<1>6. QED
  BY <1>2, <1>3, <1>5 DEF DateInv

\* A ticket in memory or in an order has a date, not after today.
LEMMA DatedInMemory ==
  ASSUME IInv, DateInv, NEW id \in Ids, InMemory(id)
  PROVE  /\ tickets[id] \in Ticket /\ Dated(tickets[id])
         /\ today \in Nat /\ 0 <= today
<1>1. today \in Nat
  BY IInvParts DEF Frame
<1>2. QED
  BY <1>1, InMemoryShape DEF DateInv, DatedMemory, InMemory

LEMMA RecalculatedDated ==
  ASSUME NEW t \in Ticket, Dated(t), NEW items, NEW status, NEW bps
  PROVE  /\ Dated(Recalculated([t EXCEPT !.items = items], bps))
         /\ Dated(Recalculated([t EXCEPT !.status = status], bps))
  BY DEF Recalculated, Dated, Ticket, TicketOf

LEMMA EditLinesDated ==
  ASSUME IInv, DateInv, NEW id \in Ids, InMemory(id), NEW items, EditLines(id, items)
  PROVE  DateInv'
<1>1. Dated(Recalculated([tickets[id] EXCEPT !.items = items], taxRate))
  BY DatedInMemory, RecalculatedDated
<1>2. QED
  BY <1>1, StoreDated DEF EditLines

LEMMA TicketOpsDated ==
  ASSUME IInv, DateInv, NEW id \in Ids, TicketOps(id), ~CreatePhoneOrder(id)
  PROVE  DateInv'
<1>1. ASSUME NEW key, NEW qty, AddItem(id, key, qty) PROVE DateInv'
  BY <1>1, EditLinesDated DEF AddItem, IsOpen
<1>2. ASSUME NEW i, RemoveItem(id, i) \/ DecreaseItem(id, i) PROVE DateInv'
  BY <1>2, EditLinesDated DEF RemoveItem, DecreaseItem, IsOpen
<1>3. ASSUME NEW i, NEW key, UpdateItem(id, i, key) PROVE DateInv'
  BY <1>3, EditLinesDated DEF UpdateItem, IsOpen
<1>4. ASSUME NEW legs, NEW fee, Checkout(id, legs, fee) PROVE DateInv'
  <2>1. InMemory(id) /\ Store(id, Paid(tickets[id], legs, fee))
    BY <1>4 DEF Checkout, IsOpen
  <2>2. Dated(Paid(tickets[id], legs, fee))
    BY <2>1, DatedInMemory DEF Paid, Dated, Ticket, TicketOf
  <2>3. QED
    BY <2>1, <2>2, StoreDated
<1>5. ASSUME NEW legs, NEW fee, CheckoutRefused(id, legs, fee) PROVE DateInv'
  <2>1. /\ today' = today /\ db' = db /\ orders' = orders /\ archived' = archived
        /\ tickets' = [tickets EXCEPT ![id].fee = fee] /\ pending' = <<>> /\ InMemory(id)
    BY <1>5 DEF CheckoutRefused, Writes, IsOpen
  <2>2. tickets \in [Ids -> GoodTicket \cup {NoRow}]
    BY IInvParts DEF Memory
  <2>3. tickets'[id] = [tickets[id] EXCEPT !.fee = fee]
    BY <2>1, <2>2
  <2>4. tickets'[id].closed <= today
    BY <2>1, <2>3, DatedInMemory DEF Dated, Ticket, TicketOf
  <2>5. \A i \in Ids : i # id => tickets'[i] = tickets[i]
    BY <2>1, <2>2
  <2>6. DatedMemory' /\ DatedTables'
    BY <2>1, <2>4, <2>5 DEF DateInv, DatedMemory, DatedTables, Dated
  <2>7. QED
    BY <2>1, <2>6 DEF DateInv
<1>6. CASE VoidTicket(id)
  <2> DEFINE t == [tickets[id] EXCEPT !.status = "VOIDED",
                     !.closed = IF @ = NoDate THEN today ELSE @]
  <2>1. InMemory(id) /\ Store(id, t)
    BY <1>6 DEF VoidTicket
  <2>2. Dated(t)
    BY <2>1, DatedInMemory DEF Dated, Ticket, TicketOf
  <2> HIDE DEF t
  <2>3. QED
    BY <2>1, <2>2, StoreDated
<1>7. ASSUME NEW status, Settle(id, status) PROVE DateInv'
  <2> DEFINE t == [tickets[id] EXCEPT !.status = status]
  <2>1. InMemory(id) /\ Store(id, t)
    BY <1>7 DEF Settle
  <2>2. Dated(t)
    BY <2>1, DatedInMemory DEF Dated, Ticket, TicketOf
  <2> HIDE DEF t
  <2>3. QED
    BY <2>1, <2>2, StoreDated
<1>8. CASE MarkTicketPrinted(id) /\ InMemory(id)
  <2> DEFINE t == [tickets[id] EXCEPT !.printed = TRUE]
  <2>1. Store(id, t)
    BY <1>8 DEF MarkTicketPrinted
  <2>2. Dated(t)
    BY <1>8, DatedInMemory DEF Dated, Ticket, TicketOf
  <2> HIDE DEF t
  <2>3. QED
    BY <2>1, <2>2, StoreDated
<1>9. CASE MarkTicketPrinted(id) /\ ~InMemory(id)
  <2>1. UNCHANGED <<tickets, orders, archived, db, today>>
        /\ pending' = <<SetTicketPrinted(id, TRUE)>>
    BY <1>9 DEF MarkTicketPrinted, Writes, memory
  <2>2. \A i \in 1..Len(pending') : DatedWrite(pending[i])'
    BY <2>1 DEF DatedWrite, SetTicketPrinted
  <2>3. DatedMemory' /\ DatedTables'
    BY <2>1 DEF DateInv, DatedMemory, DatedTables, Dated
  <2>4. QED
    BY <2>2, <2>3 DEF DateInv
<1>10. QED
  BY <1>1, <1>2, <1>3, <1>4, <1>5, <1>6, <1>7, <1>8, <1>9
     DEF TicketOps, CompTicket, RefundTicket


LEMMA NewTicketDated == IInv /\ DateInv /\ NewTicket => DateInv'
<1> SUFFICES ASSUME IInv, DateInv, NewTicket PROVE DateInv'
  OBVIOUS
<1> DEFINE id == seq["ticket"] + 1
<1>1. /\ UNCHANGED <<orders, archived, db, today>>
      /\ tickets' = [tickets EXCEPT ![id] = EmptyTicket]
      /\ pending' = <<SaveTicket(id, EmptyTicket), SaveSeq("ticket", id)>>
  BY DEF NewTicket, Writes
<1> HIDE DEF id
<1>2. today \in Nat /\ EmptyTicket.closed = 0
  BY IInvParts DEF Frame, EmptyTicket
<1>3. EmptyTicket.closed <= today
  BY <1>2
<1>4. DatedMemory' /\ DatedTables'
  BY <1>1, <1>3 DEF DateInv, DatedMemory, DatedTables, Dated
<1>5. \A i \in 1..Len(pending') : DatedWrite(pending[i])'
  <2>1. \A i \in 1..Len(pending') :
          pending'[i] = SaveTicket(id, EmptyTicket) \/ pending'[i] = SaveSeq("ticket", id)
    BY <1>1
  <2>2. QED
    BY <1>1, <1>3, <2>1 DEF DatedWrite, SaveTicket, SaveSeq, Dated
<1>6. QED
  BY <1>4, <1>5 DEF DateInv

LEMMA CreatePhoneOrderDated ==
  ASSUME IInv, DateInv, NEW id \in Ids, CreatePhoneOrder(id)
  PROVE  DateInv'
<1> DEFINE oid == seq["phone_order"] + 1
           po  == [tid |-> id, ticket |-> tickets[id], status |-> "HOLDING"]
           del == DeleteTicket(id)
           num == SaveSeq("phone_order", oid)
           S   == {del, num, SaveTicket(id, tickets[id]),
                   SaveOrderRow(oid, [tid |-> id, status |-> "HOLDING"])}
<1>1. /\ UNCHANGED <<archived, db, today>> /\ InMemory(id)
      /\ tickets' = [tickets EXCEPT ![id] = NoRow]
      /\ orders' = [orders EXCEPT ![oid] = po]
      /\ pending' = <<del>> \o SavePhoneOrder(oid, po) \o <<num>>
  BY DEF CreatePhoneOrder, Writes, IsOpen
<1>2. Dated(tickets[id]) /\ po.ticket = tickets[id]
  BY <1>1, DatedInMemory
<1>3. SavePhoneOrder(oid, po) \in Seq(S) /\ del \in S /\ num \in S
  BY DEF SavePhoneOrder
<1>4. \A w \in S : /\ w.op = "save_ticket" => w.ticket = tickets[id]
                   /\ w.op # "save_report"
  BY DEF SaveTicket, SaveOrderRow, DeleteTicket, SaveSeq
<1> HIDE DEF oid, po, S, del, num
<1>5. pending' \in Seq(S)
  BY <1>1, <1>3, ConcatProperties
<1>6. \A i \in 1..Len(pending') : pending'[i] \in S
  BY <1>5, ElementOfSeq
<1>7. \A i \in 1..Len(pending') : DatedWrite(pending[i])'
  BY <1>1, <1>2, <1>4, <1>6 DEF DatedWrite, Dated
<1>8. DatedMemory' /\ DatedTables'
  BY <1>1, <1>2 DEF DateInv, DatedMemory, DatedTables, Dated
<1>9. QED
  BY <1>7, <1>8 DEF DateInv

\* The snapshot of an order on hold, also when it is put back.
LEMMA HoldingDated ==
  ASSUME IInv, DateInv, NEW oid \in Oids, Holding(oid), NEW status
  PROVE  LET po == [orders[oid] EXCEPT !.status = status] IN
         /\ po.tid = orders[oid].tid /\ po.tid \in Ids
         /\ Dated(po.ticket) /\ Dated(Reopened(po)) /\ Dated(Reopened(orders[oid]))
<1> DEFINE po == [orders[oid] EXCEPT !.status = status]
<1>1. /\ orders[oid] \in PhoneOrderOf(GoodTicket) /\ orders[oid].tid \in Ids
      /\ orders[oid].ticket \in Ticket /\ Dated(orders[oid].ticket)
  BY HoldingShape DEF GoodTicket, DateInv, DatedMemory, Holding
<1>2. po.tid = orders[oid].tid /\ po.ticket = orders[oid].ticket
  BY <1>1 DEF PhoneOrderOf
<1> HIDE DEF po
<1>3. Dated(Reopened(po)) /\ Dated(Reopened(orders[oid]))
  BY <1>1, <1>2, RecalculatedDated DEF Reopened
<1>4. QED
  BY <1>1, <1>2, <1>3 DEF po

LEMMA PhoneOpsDated ==
  ASSUME IInv, DateInv, NEW oid \in Oids, PhoneOps(oid)
  PROVE  DateInv'
<1>1. CASE PhoneCheckout(oid)
  <2> DEFINE po == [orders[oid] EXCEPT !.status = "COMPLETED"]
  <2>1. /\ UNCHANGED <<archived, db, today>> /\ Holding(oid)
        /\ tickets' = [tickets EXCEPT ![po.tid] = Reopened(po)]
        /\ orders' = [orders EXCEPT ![oid] = po]
        /\ pending' = <<SaveTicket(po.tid, Reopened(po))>> \o SavePhoneOrder(oid, po)
    BY <1>1 DEF PhoneCheckout, Writes
  <2>2. Dated(po.ticket) /\ Dated(Reopened(po))
    BY <2>1, HoldingDated
  <2> HIDE DEF po
  <2>3. DatedMemory' /\ DatedTables'
    BY <2>1, <2>2 DEF DateInv, DatedMemory, DatedTables, Dated
  <2> DEFINE t == Reopened(po)
  <2>4. \A i \in 1..Len(pending') :
          \/ pending'[i] = SaveTicket(po.tid, t)
          \/ pending'[i] = SaveTicket(po.tid, po.ticket)
          \/ pending'[i] = SaveOrderRow(oid, [tid |-> po.tid, status |-> po.status])
    BY <2>1 DEF SavePhoneOrder
  <2>5. t.closed <= today /\ po.ticket.closed <= today /\ today' = today
    BY <2>1, <2>2 DEF Dated
  <2> HIDE DEF t
  <2>6. \A i \in 1..Len(pending') : DatedWrite(pending[i])'
    BY <2>4, <2>5 DEF DatedWrite, SaveTicket, SaveOrderRow, Dated
  <2>7. QED
    BY <2>3, <2>6 DEF DateInv
<1>2. CASE PhoneCancel(oid)
  <2> DEFINE po == [orders[oid] EXCEPT !.status = "CANCELLED"]
  <2>1. /\ UNCHANGED <<tickets, archived, db, today>> /\ Holding(oid)
        /\ orders' = [orders EXCEPT ![oid] = po]
        /\ pending' = SavePhoneOrder(oid, po)
    BY <1>2 DEF PhoneCancel, Writes
  <2>2. Dated(po.ticket)
    BY <2>1, HoldingDated
  <2> HIDE DEF po
  <2>3. DatedMemory' /\ DatedTables'
    BY <2>1, <2>2 DEF DateInv, DatedMemory, DatedTables, Dated
  <2>4. \A i \in 1..Len(pending') :
          \/ pending'[i] = SaveTicket(po.tid, po.ticket)
          \/ pending'[i] = SaveOrderRow(oid, [tid |-> po.tid, status |-> po.status])
    BY <2>1 DEF SavePhoneOrder
  <2>5. \A i \in 1..Len(pending') : DatedWrite(pending[i])'
    BY <2>1, <2>2, <2>4 DEF DatedWrite, SaveTicket, SaveOrderRow, Dated
  <2>6. QED
    BY <2>3, <2>5 DEF DateInv
<1>3. CASE PhoneEdit(oid)
  <2>1. Holding(oid) /\ Store(orders[oid].tid, Reopened(orders[oid]))
    BY <1>3 DEF PhoneEdit
  <2>2. orders[oid].tid \in Ids /\ Dated(Reopened(orders[oid]))
    BY <2>1, HoldingShape, HoldingDated
  <2>3. QED
    BY <2>1, <2>2, StoreDated
<1>4. QED
  BY <1>1, <1>2, <1>3 DEF PhoneOps

LEMMA EndDayDated == IInv /\ DateInv /\ EndDay => DateInv'
<1> SUFFICES ASSUME IInv, DateInv, EndDay PROVE DateInv'
  OBVIOUS
<1> DEFINE z == ClosedOn(today)
           gone == {id \in Ids : Deletable(id)}
<1>1. PICK order \in SetToSeqs(gone) :
        Writes([i \in DOMAIN order |-> DeleteTicket(order[i])] \o <<SaveReport(today, z)>>)
  BY DEF EndDay
<1>2. /\ archived' = [archived EXCEPT ![today] = z]
      /\ tickets' = [id \in Ids |-> IF id \in gone THEN NoRow ELSE tickets[id]]
      /\ UNCHANGED <<orders, db, today>>
  BY <1>1 DEF EndDay, Writes
<1>3. today \in Dates /\ today \in Nat /\ archived \in [Dates -> {NoRow} \cup ReportOf(GoodTicket)]
  BY IInvParts, BoundsAssumption DEF Frame, Memory, Dates
<1> DEFINE dels == [i \in DOMAIN order |-> DeleteTicket(order[i])]
<1>4. pending' = dels \o <<SaveReport(today, z)>>
  BY <1>1 DEF Writes
<1>5. dels \in Seq({DeleteTicket(id) : id \in Ids})
  <2>1. IsFiniteSet(Ids)
    BY BoundsAssumption, FS_Interval DEF Ids
  <2>2. Cardinality(gone) \in Nat
    BY <2>1, FS_Subset, FS_CardinalityType
  <2>3. order \in [1..Cardinality(gone) -> gone]
    BY <1>1 DEF SetToSeqs
  <2> HIDE DEF gone
  <2>4. DOMAIN order = 1..Cardinality(gone)
    BY <2>3
  <2>5. \A i \in 1..Cardinality(gone) : order[i] \in Ids
    BY <2>3 DEF gone
  <2>6. dels \in [1..Cardinality(gone) -> {DeleteTicket(id) : id \in Ids}]
    BY <2>4, <2>5
  <2> HIDE DEF dels
  <2>7. QED
    BY <2>2, <2>6
<1> HIDE DEF dels, z, gone
<1>6. \A i \in 1..Len(pending') :
        (\E id \in Ids : pending'[i] = DeleteTicket(id)) \/ pending'[i] = SaveReport(today, z)
  <2> DEFINE D == {DeleteTicket(id) : id \in Ids}
             x == SaveReport(today, z)
  <2>1. dels \in Seq(D)
    BY <1>5
  <2> HIDE DEF D, x
  <2>2. \A i \in 1..Len(dels \o <<x>>) : (dels \o <<x>>)[i] \in D \/ (dels \o <<x>>)[i] = x
    BY <2>1
  <2>3. QED
    BY <1>4, <2>2 DEF D, x
<1>7. \A i \in 1..Len(pending') : DatedWrite(pending[i])'
  <2>1. ASSUME NEW i \in 1..Len(pending')
        PROVE  DatedWrite(pending[i])'
    <3>1. CASE \E id \in Ids : pending'[i] = DeleteTicket(id)
      BY <3>1 DEF DatedWrite, DeleteTicket
    <3>2. CASE pending'[i] = SaveReport(today, z)
      <4>1. pending'[i].op = "save_report" /\ pending'[i].date = today
        BY <3>2 DEF SaveReport
      <4>2. QED
        BY <1>2, <1>3, <4>1 DEF DatedWrite
    <3>3. QED
      BY <1>6, <3>1, <3>2
  <2>2. QED
    BY <2>1
<1>8. DatedMemory' /\ DatedTables'
  <2>1. DatedTables'
    BY <1>2 DEF DateInv, DatedTables, Dated
  <2>2. \A d \in Dates : archived'[d] # NoRow => d <= today
    BY <1>2, <1>3 DEF DateInv, DatedMemory
  <2>3. \A id \in Ids : tickets'[id] = NoRow \/ tickets'[id] = tickets[id]
    BY <1>2
  <2>4. DatedMemory'
    BY <1>2, <2>2, <2>3 DEF DateInv, DatedMemory, Dated
  <2>5. QED
    BY <2>1, <2>4
<1>9. QED
  BY <1>7, <1>8 DEF DateInv

\* A committed write brings nothing dated after today into the tables.
LEMMA CommitWriteDated == IInv /\ DateInv /\ CommitWrite => DateInv'
<1> SUFFICES ASSUME IInv, DateInv, CommitWrite PROVE DateInv'
  OBVIOUS
<1> DEFINE w == Head(pending)
<1>1. /\ pending \in Seq(GoodWrite) /\ pending # <<>>
      /\ db' = Apply(db, w) /\ pending' = Tail(pending)
      /\ UNCHANGED <<tickets, orders, archived, today>>
  BY IInvParts DEF CommitWrite, memory, Frame
<1>2. /\ w = pending[1] /\ 1 \in 1..Len(pending)
      /\ \A i \in 1..Len(pending') : i + 1 \in 1..Len(pending) /\ pending'[i] = pending[i + 1]
  BY <1>1, LenProperties
<1>3. w \in GoodWrite /\ DatedWrite(w)
  BY <1>2, GoodWriteFields DEF DateInv
<1> HIDE DEF w
<1>4. DatedMemory'
  BY <1>1 DEF DateInv, DatedMemory, Dated
<1>5. \A i \in 1..Len(pending') : DatedWrite(pending[i])'
  BY <1>1, <1>2 DEF DateInv, DatedWrite, Dated
<1>6. DatedTables'
  <2>1. /\ db.tickets \in [Ids -> GoodRow \cup {NoRow}]
        /\ db.reports \in [Dates -> {NoRow} \cup ReportOf(GoodTicket)]
        /\ db \in GoodTables
    BY IInvParts DEF Frame, GoodTables, TablesOf
  <2>2. CASE w.op = "save_ticket"
    <3>1. db' = [db EXCEPT !.tickets[w.id] = Row(w.ticket)]
      BY <1>1, <2>2 DEF Apply
    <3>2. Row(w.ticket).closed <= today
      <4>1. w.ticket \in Ticket
        BY <1>3, <2>2, WriteFields DEF GoodTicket
      <4>2. QED
        BY <1>3, <2>2, <4>1 DEF DatedWrite, Dated, Row, Ticket, TicketOf
    <3>3. /\ db'.reports = db.reports
          /\ \A id \in Ids : db'.tickets[id] = IF id = w.id THEN Row(w.ticket) ELSE db.tickets[id]
      BY <2>1, <3>1 DEF GoodTables, TablesOf
    <3>4. QED
      BY <1>1, <3>2, <3>3 DEF DateInv, DatedTables, Dated
  <2>3. CASE w.op = "delete_ticket"
    <3>1. db' = [db EXCEPT !.tickets[w.id] = NoRow]
      BY <1>1, <2>3 DEF Apply
    <3>2. /\ db'.reports = db.reports
          /\ \A id \in Ids : db'.tickets[id] = IF id = w.id THEN NoRow ELSE db.tickets[id]
      BY <2>1, <3>1 DEF GoodTables, TablesOf
    <3>3. QED
      BY <1>1, <3>2 DEF DateInv, DatedTables, Dated
  <2>4. CASE w.op = "set_ticket_printed"
    <3>1. db' = IF db.tickets[w.id] = NoRow THEN db
                ELSE [db EXCEPT !.tickets[w.id].printed = w.printed]
      BY <1>1, <2>4 DEF Apply
    <3>2. CASE db.tickets[w.id] # NoRow
      <4> DEFINE r == [db.tickets[w.id] EXCEPT !.printed = w.printed]
      <4>1. w.id \in Ids
        BY <1>3, <2>4, WriteFields
      <4>2. r.closed = db.tickets[w.id].closed
        BY <2>1, <3>2, <4>1 DEF GoodRow, TicketRow, TicketOf
      <4>3. db' = [db EXCEPT !.tickets[w.id] = r]
        BY <2>1, <3>1, <3>2, <4>1 DEF GoodTables, TablesOf
      <4> HIDE DEF r
      <4>4. /\ db'.reports = db.reports
            /\ \A id \in Ids : db'.tickets[id] = IF id = w.id THEN r ELSE db.tickets[id]
        BY <2>1, <4>3 DEF GoodTables, TablesOf
      <4>5. QED
        BY <1>1, <3>2, <4>1, <4>2, <4>4 DEF DateInv, DatedTables, Dated
    <3>3. CASE db.tickets[w.id] = NoRow
      BY <1>1, <3>1, <3>3 DEF DateInv, DatedTables, Dated
    <3>4. QED
      BY <3>2, <3>3
  <2>5. CASE w.op = "save_report"
    <3>1. db' = [db EXCEPT !.reports[w.date] = w.report]
      BY <1>1, <2>5 DEF Apply
    <3>2. /\ db'.tickets = db.tickets
          /\ \A d \in Dates : db'.reports[d] = IF d = w.date THEN w.report ELSE db.reports[d]
      BY <2>1, <3>1 DEF GoodTables, TablesOf
    <3>3. QED
      BY <1>1, <1>3, <2>5, <3>2 DEF DateInv, DatedTables, DatedWrite, Dated
  <2>6. CASE w.op \in {"save_phone_order", "save_seq", "save_setting"}
    <3>1. db'.tickets = db.tickets /\ db'.reports = db.reports
      BY <1>1, <2>1, <2>6 DEF Apply, GoodTables, TablesOf
    <3>2. QED
      BY <1>1, <3>1 DEF DateInv, DatedTables, Dated
  <2>7. QED
    BY <1>3, <2>2, <2>3, <2>4, <2>5, <2>6, WriteFields
<1>7. QED
  BY <1>4, <1>5, <1>6 DEF DateInv

LEMMA WriteFailsDated == IInv /\ DateInv /\ WriteFails => DateInv'
<1> SUFFICES ASSUME IInv, DateInv, WriteFails PROVE DateInv'
  OBVIOUS
<1>1. /\ pending \in Seq(GoodWrite) /\ pending # <<>>
      /\ pending' = <<>> \/ pending' = Tail(pending)
      /\ UNCHANGED <<tickets, orders, archived, db, today>>
  BY IInvParts DEF WriteFails, memory, Frame
<1>2. \A i \in 1..Len(pending') : i + 1 \in 1..Len(pending) /\ pending'[i] = pending[i + 1]
  <2>1. CASE pending' = <<>>
    BY <2>1
  <2>2. CASE pending' = Tail(pending)
    BY <1>1, <2>2, LenProperties
  <2>3. QED
    BY <1>1, <2>1, <2>2
<1>3. \A i \in 1..Len(pending') : DatedWrite(pending[i])'
  BY <1>1, <1>2 DEF DateInv, DatedWrite, Dated
<1>4. DatedMemory' /\ DatedTables'
  BY <1>1 DEF DateInv, DatedMemory, DatedTables, Dated
<1>5. QED
  BY <1>3, <1>4 DEF DateInv

\* What a restart reads back is what the tables have.
LEMMA RestartDated == IInv /\ DateInv /\ Restart => DateInv'
<1> SUFFICES ASSUME IInv, DateInv, Restart PROVE DateInv'
  OBVIOUS
<1>1. /\ tickets' = LoadTickets(db) /\ archived' = db.reports
      /\ orders' = LoadOrders(db, NoId, EmptyTicket)
      /\ UNCHANGED <<db, pending, today>>
  BY DEF Restart, Load
<1>2. /\ db.tickets \in [Ids -> GoodRow \cup {NoRow}]
      /\ db.orders \in [Oids -> OrderRow \cup {NoRow}]
      /\ today \in Nat
  BY IInvParts DEF Frame, GoodTables, TablesOf
<1>3. \A id \in Ids : db.tickets[id] # NoRow => Dated(Loaded(db.tickets[id]))
  <2>1. ASSUME NEW id \in Ids, db.tickets[id] # NoRow
        PROVE  Dated(Loaded(db.tickets[id]))
    <3>1. db.tickets[id] \in TicketOf(SUBSET Line) /\ Dated(db.tickets[id])
      BY <1>2, <2>1 DEF DateInv, DatedTables, GoodRow, TicketRow
    <3>2. Loaded(db.tickets[id]).closed = db.tickets[id].closed
      BY <3>1 DEF Loaded, TicketOf
    <3>3. QED
      BY <3>1, <3>2 DEF Dated
  <2>2. QED
    BY <2>1
<1>4. Dated(EmptyTicket)
  BY <1>2 DEF Dated, EmptyTicket
<1>5. \A id \in Ids : tickets'[id] # NoRow => Dated(tickets'[id])
  BY <1>1, <1>2, <1>3 DEF LoadTickets
<1>6. \A oid \in Oids : orders'[oid] # NoRow => Dated(orders'[oid].ticket)
  <2>1. ASSUME NEW oid \in Oids, orders'[oid] # NoRow
        PROVE  Dated(orders'[oid].ticket)
    <3>1. db.orders[oid] # NoRow /\ db.orders[oid].tid \in Ids
      BY <1>1, <1>2, <2>1 DEF LoadOrders, OrderRow
    <3>2. orders'[oid].ticket = EmptyTicket
            \/ (db.tickets[db.orders[oid].tid] # NoRow
                  /\ orders'[oid].ticket = Loaded(db.tickets[db.orders[oid].tid]))
      BY <1>1, <1>2, <3>1 DEF LoadOrders
    <3>3. QED
      BY <1>3, <1>4, <3>1, <3>2
  <2>2. QED
    BY <2>1
<1>7. DatedMemory'
  BY <1>1, <1>5, <1>6 DEF DateInv, DatedMemory, DatedTables, Dated
<1>8. QED
  BY <1>1, <1>7 DEF DateInv, DatedTables, DatedWrite, Dated

\* Tomorrow nothing is dated after today either.
LEMMA NextDayDated == IInv /\ DateInv /\ NextDay => DateInv'
<1> SUFFICES ASSUME IInv, DateInv, NextDay PROVE DateInv'
  OBVIOUS
<1>1. /\ today \in Nat /\ today' = today + 1
      /\ UNCHANGED <<tickets, orders, archived, db, pending>>
  BY IInvParts DEF Frame, NextDay, memory
<1>2. \A d \in Dates : d <= today => d <= today + 1
  BY <1>1, DatesAreNumbers
<1>3. \A t \in Ticket \cup GoodRow : Dated(t) => t.closed <= today + 1
  <2>1. \A t \in Ticket \cup GoodRow : t.closed \in Dates
    BY DEF GoodRow, TicketRow, Ticket, TicketOf
  <2>2. QED
    BY <1>2, <2>1 DEF Dated
<1>4. DatedMemory'
  <2>1. /\ \A id \in Ids : tickets[id] # NoRow => tickets[id] \in Ticket
        /\ \A oid \in Oids : orders[oid] # NoRow => orders[oid].ticket \in Ticket
    BY IInvParts DEF Memory, GoodTicket, PhoneOrderOf
  <2>2. QED
    BY <1>1, <1>2, <1>3, <2>1 DEF DateInv, DatedMemory, Dated
<1>5. DatedTables'
  <2>1. \A id \in Ids : db.tickets[id] # NoRow => db.tickets[id] \in GoodRow
    BY IInvParts DEF Frame, GoodTables, TablesOf
  <2>2. QED
    BY <1>1, <1>2, <1>3, <2>1 DEF DateInv, DatedTables, Dated
<1>6. \A i \in 1..Len(pending') : DatedWrite(pending[i])'
  <2>1. ASSUME NEW i \in 1..Len(pending)
        PROVE  /\ pending[i].op = "save_ticket" => pending[i].ticket \in Ticket
               /\ pending[i].op = "save_report" => pending[i].date \in Dates
    <3>1. pending[i] \in GoodWrite
      BY GoodWriteFields
    <3>2. QED
      BY <3>1, WriteFields DEF GoodTicket
  <2>2. QED
    BY <1>1, <1>2, <1>3, <2>1 DEF DateInv, DatedWrite, Dated
<1>7. QED
  BY <1>4, <1>5, <1>6 DEF DateInv

LEMMA InitDateInv == Init => DateInv
  BY DEF Init, EmptyDb, DateInv, DatedMemory, DatedTables

LEMMA NextDateInv == IInv /\ DateInv /\ [Next]_vars => DateInv'
<1> SUFFICES ASSUME IInv, DateInv, [Next]_vars PROVE DateInv'
  OBVIOUS
<1>1. CASE NewTicket \/ EndDay
  BY <1>1, NewTicketDated, EndDayDated
<1>2. ASSUME NEW id \in Ids, TicketOps(id) PROVE DateInv'
  BY <1>2, TicketOpsDated, CreatePhoneOrderDated
<1>3. ASSUME NEW oid \in Oids, PhoneOps(oid) PROVE DateInv'
  BY <1>3, PhoneOpsDated
<1>4. ASSUME NEW bps \in TaxRates, SetTaxRate(bps) PROVE DateInv'
  <2>1. UNCHANGED <<tickets, orders, archived, db, today>> /\ pending' = <<SaveTaxRate(bps)>>
    BY <1>4 DEF SetTaxRate, Writes
  <2>2. DatedMemory' /\ DatedTables'
    BY <2>1 DEF DateInv, DatedMemory, DatedTables, Dated
  <2>3. \A i \in 1..Len(pending') : DatedWrite(pending[i])'
    BY <2>1 DEF DatedWrite, SaveTaxRate
  <2>4. QED
    BY <2>2, <2>3 DEF DateInv
<1>5. CASE CommitWrite \/ WriteFails \/ Restart \/ NextDay
  BY <1>5, CommitWriteDated, WriteFailsDated, RestartDated, NextDayDated
<1>6. CASE Crash
  BY <1>6 DEF Crash, DateInv, DatedMemory, DatedTables, Dated
<1>7. CASE UNCHANGED vars
  BY <1>7 DEF vars, memory, DateInv, DatedMemory, DatedTables, DatedWrite, Dated
<1>8. QED
  BY <1>1, <1>2, <1>3, <1>4, <1>5, <1>6, <1>7 DEF Next


\* What a summary says of a range of one day.
Summary(r) ==
  [tickets |-> r.tickets, revenue |-> r.revenue, tax |-> r.tax,
   subtotal |-> 0, fees |-> 0, cash |-> r.cash, card |-> r.card,
   comped |-> r.comped, refunded |-> r.refunded,
   net |-> r.revenue - r.refunded - r.comped, collected |-> 0]

TodayIsSummedUp == RangeReport(today, today) = Summary(DailyReport(today))

\* The figures of a report are integers.
LEMMA ReportType ==
  ASSUME NEW S \in ReportOf(GoodTicket)
  PROVE  /\ Report(S).tickets \in Int /\ Report(S).revenue \in Int
         /\ Report(S).tax \in Int /\ Report(S).cash \in Int /\ Report(S).card \in Int
         /\ Report(S).comped \in Int /\ Report(S).refunded \in Int
<1>1. ASSUME NEW status PROVE TotalOf(With(S, status)) \in Int
  <2> DEFINE F == [s \in With(S, status) |-> s[2].total]
  <2>1. \A s \in With(S, status) : s[2].total \in Int
    BY WithShape DEF Ticket, TicketOf
  <2>2. F \in [With(S, status) -> Int]
    BY <2>1
  <2>3. TotalOf(With(S, status)) = SumFunctionOnSet(F, With(S, status))
    BY DEF TotalOf, SumOf
  <2> HIDE DEF F
  <2>4. QED
    BY <2>2, <2>3, WithShape, SumType
<1> DEFINE sold == With(S, "CLOSED")
           tax  == [s \in sold |-> s[2].tax]
           cash == [s \in sold |-> s[2].payments.cash]
           card == [s \in sold |-> s[2].payments.card]
<1>2. IsFiniteSet(sold) /\ Cardinality(sold) \in Int
  BY WithShape, FS_CardinalityType
<1>3. \A s \in sold : s[2].tax \in Int /\ s[2].payments.cash \in Int /\ s[2].payments.card \in Int
  BY WithShape DEF Ticket, TicketOf
<1>4. tax \in [sold -> Int] /\ cash \in [sold -> Int] /\ card \in [sold -> Int]
  BY <1>3
<1>5. /\ Report(S).tax = SumFunctionOnSet(tax, sold)
      /\ Report(S).cash = SumFunctionOnSet(cash, sold)
      /\ Report(S).card = SumFunctionOnSet(card, sold)
      /\ Report(S).tickets = Cardinality(sold) /\ Report(S).revenue = TotalOf(sold)
      /\ Report(S).comped = TotalOf(With(S, "COMPED"))
      /\ Report(S).refunded = TotalOf(With(S, "REFUNDED"))
  BY DEF Report, SumOf
<1> HIDE DEF sold, tax, cash, card
<1>6. /\ SumFunctionOnSet(tax, sold) \in Int
      /\ SumFunctionOnSet(cash, sold) \in Int /\ SumFunctionOnSet(card, sold) \in Int
  BY <1>2, <1>4, SumType
<1>7. TotalOf(sold) \in Int /\ TotalOf(With(S, "COMPED")) \in Int
      /\ TotalOf(With(S, "REFUNDED")) \in Int
  BY <1>1 DEF sold
<1>8. QED
  BY <1>2, <1>5, <1>6, <1>7

\* A day without a ticket has no figures.
LEMMA ReportOfNothing ==
  /\ Report({}).tickets = 0 /\ Report({}).revenue = 0 /\ Report({}).tax = 0
  /\ Report({}).cash = 0 /\ Report({}).card = 0
  /\ Report({}).comped = 0 /\ Report({}).refunded = 0
<1>1. \A status : With({}, status) = {}
  BY DEF With
<1>2. Cardinality({}) = 0
  BY FS_EmptySet
<1>3. /\ [s \in {} |-> s[2].total] \in [{} -> Int] /\ [s \in {} |-> s[2].tax] \in [{} -> Int]
      /\ [s \in {} |-> s[2].payments.cash] \in [{} -> Int]
      /\ [s \in {} |-> s[2].payments.card] \in [{} -> Int]
  OBVIOUS
<1>4. /\ SumFunctionOnSet([s \in {} |-> s[2].total], {}) = 0
      /\ SumFunctionOnSet([s \in {} |-> s[2].tax], {}) = 0
      /\ SumFunctionOnSet([s \in {} |-> s[2].payments.cash], {}) = 0
      /\ SumFunctionOnSet([s \in {} |-> s[2].payments.card], {}) = 0
  BY <1>3, SumOfNothing
<1>5. QED
  BY <1>1, <1>2, <1>4 DEF Report, TotalOf, SumOf

\* Today is in the history as soon as it has a report or a closed ticket, and
\* in the summary of today it is then the only day.
LEMMA DaysOfToday ==
  ASSUME IInv, DateInv
  PROVE  LET days == HistoryDates(HistoryDays) \cap (today..today) IN
         days = {today} \/ (days = {} /\ DayOf(today) = {})
<1> DEFINE days == HistoryDates(HistoryDays) \cap (today..today)
           all  == {d \in Dates \ {NoDate} :
                      \/ archived[d] # NoRow
                      \/ \E id \in Ids : InMemory(id) /\ tickets[id].closed = d}
           newer == {e \in all : e > today}
<1>1. today \in Nat /\ today \in Dates \ {NoDate} /\ today..today = {today}
  BY IInvParts, BoundsAssumption DEF Frame, Dates
<1>2. newer = {}
  <2>1. ASSUME NEW e \in newer PROVE FALSE
    <3>1. e \in Nat /\ e > today
      BY DatesAreNumbers
    <3>2. e <= today
      BY DEF DateInv, DatedMemory, Dated, InMemory
    <3>3. QED
      BY <1>1, <3>1, <3>2
  <2>2. QED
    BY <2>1
<1>3. Cardinality(newer) < HistoryDays
  BY <1>2, FS_EmptySet, HistoryAssumption
<1>4. HistoryDates(HistoryDays)
        = {d \in all : Cardinality({e \in all : e > d}) < HistoryDays}
  BY DEF HistoryDates
<1>5. today \in HistoryDates(HistoryDays) <=> today \in all
  BY <1>3, <1>4
<1>6. CASE today \in all
  BY <1>1, <1>5, <1>6
<1>7. CASE today \notin all
  <2>1. days = {}
    BY <1>1, <1>5, <1>7
  <2>2. DayOf(today) = {}
    BY <1>1, <1>7 DEF DayOf, ClosedOn
  <2>3. QED
    BY <2>1, <2>2
<1>8. QED
  BY <1>6, <1>7

LEMMA IInvSummedUp == IInv /\ DateInv => TodayIsSummedUp
<1> SUFFICES ASSUME IInv, DateInv PROVE TodayIsSummedUp
  OBVIOUS
<1> DEFINE days == HistoryDates(HistoryDays) \cap (today..today)
           r == DailyReport(today)
           tickts   == [d \in days |-> DailyReport(d).tickets]
           revenue  == [d \in days |-> DailyReport(d).revenue]
           tax      == [d \in days |-> DailyReport(d).tax]
           cash     == [d \in days |-> DailyReport(d).cash]
           card     == [d \in days |-> DailyReport(d).card]
           comped   == [d \in days |-> DailyReport(d).comped]
           refunded == [d \in days |-> DailyReport(d).refunded]
<1>1. RangeReport(today, today) =
        [tickets |-> SumFunctionOnSet(tickts, days),
         revenue |-> SumFunctionOnSet(revenue, days),
         tax |-> SumFunctionOnSet(tax, days), subtotal |-> 0, fees |-> 0,
         cash |-> SumFunctionOnSet(cash, days), card |-> SumFunctionOnSet(card, days),
         comped |-> SumFunctionOnSet(comped, days),
         refunded |-> SumFunctionOnSet(refunded, days),
         net |-> SumFunctionOnSet(revenue, days) - SumFunctionOnSet(refunded, days)
                   - SumFunctionOnSet(comped, days),
         collected |-> 0]
  BY DEF RangeReport
<1>2. days = {today} \/ (days = {} /\ DayOf(today) = {})
  BY DaysOfToday
<1>3. /\ SumFunctionOnSet(tickts, days) = r.tickets
      /\ SumFunctionOnSet(revenue, days) = r.revenue
      /\ SumFunctionOnSet(tax, days) = r.tax
      /\ SumFunctionOnSet(cash, days) = r.cash
      /\ SumFunctionOnSet(card, days) = r.card
      /\ SumFunctionOnSet(comped, days) = r.comped
      /\ SumFunctionOnSet(refunded, days) = r.refunded
  <2>1. CASE days = {today}
    <3>1. DayOf(today) \in ReportOf(GoodTicket)
      BY <2>1, DayOfShape DEF HistoryDates
    <3>2. /\ r.tickets \in Int /\ r.revenue \in Int /\ r.tax \in Int /\ r.cash \in Int
          /\ r.card \in Int /\ r.comped \in Int /\ r.refunded \in Int
      BY <3>1, ReportType DEF DailyReport
    <3> HIDE DEF days
    <3>3. /\ tickts \in [{today} -> Int] /\ revenue \in [{today} -> Int]
          /\ tax \in [{today} -> Int] /\ cash \in [{today} -> Int]
          /\ card \in [{today} -> Int] /\ comped \in [{today} -> Int]
          /\ refunded \in [{today} -> Int]
      BY <2>1, <3>2
    <3>4. /\ tickts[today] = r.tickets /\ revenue[today] = r.revenue
          /\ tax[today] = r.tax /\ cash[today] = r.cash /\ card[today] = r.card
          /\ comped[today] = r.comped /\ refunded[today] = r.refunded
      BY <2>1
    <3> HIDE DEF tickts, revenue, tax, cash, card, comped, refunded, r
    <3>5. QED
      BY <2>1, <3>3, <3>4, SumOfOne
  <2>2. CASE days = {} /\ DayOf(today) = {}
    <3>1. /\ r.tickets = 0 /\ r.revenue = 0 /\ r.tax = 0 /\ r.cash = 0
          /\ r.card = 0 /\ r.comped = 0 /\ r.refunded = 0
      BY <2>2, ReportOfNothing DEF DailyReport
    <3> HIDE DEF days
    <3>2. /\ tickts \in [{} -> Int] /\ revenue \in [{} -> Int]
          /\ tax \in [{} -> Int] /\ cash \in [{} -> Int] /\ card \in [{} -> Int]
          /\ comped \in [{} -> Int] /\ refunded \in [{} -> Int]
      BY <2>2
    <3> HIDE DEF tickts, revenue, tax, cash, card, comped, refunded, r
    <3>3. QED
      BY <2>2, <3>1, <3>2, SumOfNothing
  <2>3. QED
    BY <1>2, <2>1, <2>2
<1> HIDE DEF days, tickts, revenue, tax, cash, card, comped, refunded, r
<1>4. RangeReport(today, today) = Summary(r)
  BY <1>1, <1>3 DEF Summary
<1>5. QED
  BY <1>4 DEF TodayIsSummedUp, r

LEMMA AlwaysSummedUp == Spec => [](IInv /\ DateInv /\ TodayIsSummedUp)
<1>1. IInv /\ DateInv /\ [Next]_vars => IInv' /\ DateInv'
  BY NextIInv, NextDateInv
<1>2. QED
  BY <1>1, InitIInv, InitDateInv, IInvSummedUp, PTL DEF Spec

\* Only the end of day gives today an archived report while the daemon runs,
\* and it archives what the live tickets said.
LEMMA FirstZ ==
  ASSUME IInv, [Next]_vars, up, up', archived[today] = NoRow, archived'[today] # NoRow
  PROVE  today' = today /\ DayOf(today)' = DayOf(today)
<1>1. EndDay
  <2> SUFFICES ASSUME ~EndDay PROVE archived' = archived
    OBVIOUS
  <2>1. ASSUME NEW id \in Ids, TicketOps(id) PROVE archived' = archived
    BY <2>1 DEF TicketOps, AddItem, RemoveItem, DecreaseItem, UpdateItem, EditLines,
                CheckoutRefused, Checkout, VoidTicket, CompTicket, RefundTicket,
                Settle, MarkTicketPrinted, CreatePhoneOrder, Store, memory
  <2>2. ASSUME NEW oid \in Oids, PhoneOps(oid) PROVE archived' = archived
    BY <2>2 DEF PhoneOps, PhoneCheckout, PhoneCancel, PhoneEdit, Store
  <2>3. CASE Crash \/ Restart
    BY <2>3 DEF Crash, Restart
  <2>4. CASE NewTicket \/ (\E bps \in TaxRates : SetTaxRate(bps)) \/ CommitWrite
             \/ WriteFails \/ NextDay \/ UNCHANGED vars
    BY <2>4 DEF NewTicket, SetTaxRate, CommitWrite, WriteFails, NextDay, vars, memory
  <2>5. QED
    BY <2>1, <2>2, <2>3, <2>4 DEF Next
<1>2. today' = today /\ archived' = [archived EXCEPT ![today] = ClosedOn(today)]
  BY <1>1 DEF EndDay, Writes
<1>3. today \in Dates /\ archived \in [Dates -> {NoRow} \cup ReportOf(GoodTicket)]
  BY IInvParts, BoundsAssumption DEF Frame, Memory, Dates
<1>4. archived'[today'] = ClosedOn(today) /\ archived'[today'] # NoRow
  BY <1>2, <1>3
<1>5. DayOf(today)' = ClosedOn(today)
  BY <1>4 DEF DayOf
<1>6. DayOf(today) = ClosedOn(today)
  BY DEF DayOf
<1>7. QED
  BY <1>2, <1>5, <1>6

\* The first end_day of a date changes no figure of it, whatever the range
\* queries look at and however many days and restarts lie behind.
THEOREM FirstZIsFaithful == Spec => FirstZKeepsTheFigures
<1> DEFINE Step == (up /\ up' /\ archived[today] = NoRow /\ archived'[today] # NoRow) =>
                     /\ DailyReport(today)' = DailyReport(today)
                     /\ RangeReport(today, today)' = RangeReport(today, today)
<1>1. /\ IInv /\ TodayIsSummedUp /\ TodayIsSummedUp' /\ [Next]_vars => Step
  <2> SUFFICES ASSUME IInv, TodayIsSummedUp, TodayIsSummedUp', [Next]_vars, up, up',
                      archived[today] = NoRow, archived'[today] # NoRow
               PROVE  /\ DailyReport(today)' = DailyReport(today)
                      /\ RangeReport(today, today)' = RangeReport(today, today)
    OBVIOUS
  <2>1. today' = today /\ DayOf(today)' = DayOf(today)
    BY FirstZ
  <2>2. DailyReport(today)' = DailyReport(today)
    BY <2>1 DEF DailyReport
  <2>3. QED
    BY <2>2 DEF TodayIsSummedUp, Summary
<1>2. Step => [Step]_vars
  OBVIOUS
<1>3. QED
  BY <1>1, <1>2, AlwaysSummedUp, PTL DEF Spec, FirstZKeepsTheFigures
=============================================================================

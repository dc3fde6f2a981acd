------------------------- MODULE PosManagerBookProofs -------------------------
(***************************************************************************)
(* PosManager implements SalesBook, for every value of the constants, when *)
(* handlers are atomic: the refinement of PosManagerBook.                  *)
(***************************************************************************)
EXTENDS PosManagerDurableProofs, PosManagerBook

\* The placeholder of a missing row is not taken for an entry of the book.
NoRowIsNoEntry ==
  \A status, closed, sale :
    NoRow # [status |-> status, closed |-> closed, sale |-> sale]

\* Where the book is: in memory while the daemon runs, else in the tables.
Kept(id)  == IF up THEN tickets[id] ELSE db.tickets[id]
Report(d) == IF up THEN archived[d] ELSE db.reports[d]

Reported(id) == \E d \in Dates : Report(d) # NoRow /\ \E s \in Report(d) : s[1] = id

\* The inductive invariant: an OPEN ticket that was never in an order has no
\* date, and one that was reported is gone and its number was given out.
KInv ==
  \A id \in Slips : ~InAnOrder(id) =>
    /\ Kept(id) # NoRow /\ Kept(id).status = "OPEN" => Kept(id).closed = NoDate
    /\ Reported(id) => Kept(id) = NoRow /\ id <= LastNumber

Rung(t) == EntryOf(t, StoredLines(t.items))

\* The entry of one slip, and what is left of a report.
Entry(id) ==
  IF InAnOrder(id) \/ Kept(id) = NoRow THEN NoRow
  ELSE IF Kept(id).status = "OPEN" THEN NoRow
  ELSE EntryOf(Kept(id), IF up THEN StoredLines(Kept(id).items) ELSE Kept(id).items)

Entries(rpt) ==
  IF rpt = NoRow THEN NoRow
  ELSE {<<s[1], Rung(s[2])>> : s \in {s \in rpt : s[1] \in Slips /\ ~InAnOrder(s[1])}}

BookStep == Book!BookNext \/ UNCHANGED <<TheBook, TheReports, today>>

LEMMA BookEntries ==
  /\ TheBook = [id \in Slips |-> Entry(id)]
  /\ TheReports = [d \in Dates |-> Entries(Report(d))]
  BY DEF TheBook, TheReports, Entry, Entries, Kept, Report, Rung

LEMMA BookEntriesNext ==
  /\ TheBook' = [id \in Slips |-> Entry(id)']
  /\ TheReports' = [d \in Dates |-> Entries(Report(d))']
  BY DEF TheBook, TheReports, Entry, Entries, Kept, Report, Rung

LEMMA RungIsThere ==
  ASSUME NoRowIsNoEntry, NEW t, NEW rows
  PROVE  EntryOf(t, rows) # NoRow
  BY DEF NoRowIsNoEntry, EntryOf

-----------------------------------------------------------------------------
(* Steps of the book *)

LEMMA SameBook ==
  ASSUME \A id \in Slips : Entry(id)' = Entry(id)
  PROVE  TheBook' = TheBook
  BY BookEntries, BookEntriesNext

\* The reports stay when tickets come to be in an order that none has.
LEMMA SameReports ==
  ASSUME \A d \in Dates : Report(d)' = Report(d),
         \A id \in Slips : InAnOrder(id)' = InAnOrder(id) \/ ~Reported(id)
  PROVE  TheReports' = TheReports
<1>1. ASSUME NEW d \in Dates PROVE Entries(Report(d))' = Entries(Report(d))
  <2> DEFINE rpt == Report(d)
             old == {s \in rpt : s[1] \in Slips /\ ~InAnOrder(s[1])}
             new == {s \in rpt : s[1] \in Slips /\ ~InAnOrder(s[1])'}
  <2>1. rpt' = rpt
    OBVIOUS
  <2>2. CASE rpt = NoRow
    BY <2>1, <2>2 DEF Entries
  <2>3. CASE rpt # NoRow
    <3>1. ASSUME NEW s \in rpt, s[1] \in Slips PROVE InAnOrder(s[1])' = InAnOrder(s[1])
      BY <2>3, <3>1 DEF Reported
    <3>2. old = new
      BY <3>1
    <3>3. Entries(rpt) = {<<s[1], Rung(s[2])>> : s \in old}
      BY <2>3 DEF Entries
    <3>4. Entries(rpt)' = {<<s[1], Rung(s[2])>> : s \in new}
      BY <2>1, <2>3 DEF Entries, Rung, EntryOf
    <3>5. QED
      BY <3>2, <3>3, <3>4
  <2>4. QED
    BY <2>2, <2>3
<1>2. QED
  BY <1>1, BookEntries, BookEntriesNext

LEMMA EnterStep ==
  ASSUME NEW id \in Slips, TheBook[id] = NoRow, NEW e, e # NoRow,
         e.status \in {"CLOSED", "VOIDED"}, e.closed = today,
         TheBook' = [TheBook EXCEPT ![id] = e],
         UNCHANGED <<TheReports, today>>
  PROVE  BookStep
<1>1. TheBook'[id] = e
  BY BookEntries
<1>2. Book!OnlyEntry(id)
  BY <1>1 DEF Book!OnlyEntry
<1>3. Book!Enter(id)
  BY <1>1, <1>2 DEF Book!Enter
<1>4. QED
  BY <1>3 DEF BookStep, Book!BookNext

LEMMA AdjustStep ==
  ASSUME NEW id \in Slips, TheBook[id] # NoRow, TheBook[id].status = "CLOSED",
         NEW status \in {"VOIDED", "COMPED", "REFUNDED"},
         TheBook' = [TheBook EXCEPT ![id].status = status],
         UNCHANGED <<TheReports, today>>
  PROVE  BookStep
<1>1. Book!Adjust(id, status)
  BY DEF Book!Adjust
<1>2. QED
  BY <1>1 DEF BookStep, Book!BookNext

-----------------------------------------------------------------------------
(* One ticket of the memory *)

\* A step of the running daemon that puts the ticket t in the place of one.
Puts(id, t) ==
  /\ up /\ up'
  /\ tickets' = [tickets EXCEPT ![id] = t]
  /\ \A n \in Ids : n <= seq["ticket"] => n <= seq'["ticket"]
  /\ UNCHANGED <<orders, archived, db, today>>

LEMMA StorePuts ==
  ASSUME Ready, NEW id, NEW t, Store(id, t)
  PROVE  Puts(id, t)
  BY DEF Ready, Store, Writes, Puts

LEMMA PutsOrders ==
  ASSUME NEW id, NEW t, Puts(id, t)
  PROVE  /\ \A i \in Slips : InAnOrder(i)' = InAnOrder(i)
         /\ \A d \in Dates : Report(d)' = Report(d)
         /\ \A i \in Slips : Reported(i)' = Reported(i)
         /\ TheReports' = TheReports
<1>1. \A i \in Slips : InAnOrder(i)' = InAnOrder(i)
  BY DEF Puts, InAnOrder
<1>2. \A d \in Dates : Report(d)' = Report(d)
  BY DEF Puts, Report
<1>3. \A i \in Slips : Reported(i)' = Reported(i)
  BY <1>2 DEF Reported
<1>4. QED
  BY <1>1, <1>2, <1>3, SameReports

LEMMA PutsEntries ==
  ASSUME IInv, NEW id \in Ids, NEW t, t # NoRow, Puts(id, t)
  PROVE  /\ \A i \in Slips : i # id => Entry(i)' = Entry(i)
         /\ id \in Slips =>
              Entry(id)' = IF InAnOrder(id) \/ t.status = "OPEN" THEN NoRow ELSE Rung(t)
         /\ \A i \in Slips : Kept(i)' = IF i = id THEN t ELSE Kept(i)
<1>1. /\ up /\ up' /\ \A i \in Slips : tickets'[i] = IF i = id THEN t ELSE tickets[i]
  BY IInvParts DEF Puts, Memory, Slips
<1>2. \A i \in Slips : Kept(i)' = IF i = id THEN t ELSE Kept(i)
  BY <1>1 DEF Kept
<1>3. \A i \in Slips : InAnOrder(i)' = InAnOrder(i)
  BY PutsOrders
<1>4. ASSUME NEW i \in Slips, i # id PROVE Entry(i)' = Entry(i)
  BY <1>1, <1>2, <1>3, <1>4 DEF Entry, EntryOf
<1>5. ASSUME id \in Slips
      PROVE  Entry(id)' = IF InAnOrder(id) \/ t.status = "OPEN" THEN NoRow ELSE Rung(t)
  BY <1>1, <1>2, <1>3, <1>5 DEF Entry, Rung
<1>6. QED
  BY <1>2, <1>4, <1>5

\* A ticket in the place of one that was not reported.
LEMMA PutsKInv ==
  ASSUME IInv, KInv, NEW id \in Ids, NEW t, t # NoRow, Puts(id, t),
         (id \in Slips /\ ~InAnOrder(id)) =>
           /\ t.status = "OPEN" => t.closed = NoDate
           /\ ~Reported(id)
  PROVE  KInv'
<1>1. SUFFICES ASSUME NEW i \in Slips, ~InAnOrder(i)'
               PROVE  /\ Kept(i)' # NoRow /\ Kept(i)'.status = "OPEN" =>
                           Kept(i)'.closed = NoDate
                      /\ Reported(i)' => Kept(i)' = NoRow /\ i <= LastNumber'
  BY DEF KInv
<1>2. ~InAnOrder(i) /\ Reported(i)' = Reported(i)
  BY <1>1, PutsOrders
<1>3. Kept(i)' = IF i = id THEN t ELSE Kept(i)
  BY PutsEntries
<1>4. i <= LastNumber => i <= LastNumber'
  BY DEF LastNumber, Puts, Slips
<1>5. QED
  BY <1>1, <1>2, <1>3, <1>4 DEF KInv

\* The book stays when the entry of the ticket does.
LEMMA PutsSame ==
  ASSUME IInv, NEW id \in Ids, NEW t, t # NoRow, Puts(id, t),
         (id \in Slips /\ ~InAnOrder(id)) =>
           Entry(id) = IF t.status = "OPEN" THEN NoRow ELSE Rung(t)
  PROVE  BookStep
<1>1. id \in Slips => Entry(id)' = Entry(id)
  BY PutsEntries DEF Entry
<1>2. TheBook' = TheBook
  BY <1>1, PutsEntries, SameBook
<1>3. QED
  BY <1>2, PutsOrders DEF BookStep, Puts

\* Otherwise the book has a new entry for the slip.
LEMMA PutsEntry ==
  ASSUME IInv, NEW id \in Slips, NEW t, t # NoRow, t.status # "OPEN", Puts(id, t),
         ~InAnOrder(id)
  PROVE  /\ TheBook' = [TheBook EXCEPT ![id] = Rung(t)]
         /\ UNCHANGED <<TheReports, today>>
         /\ TheBook[id] = IF tickets[id] = NoRow THEN NoRow
                          ELSE IF tickets[id].status = "OPEN" THEN NoRow
                          ELSE Rung(tickets[id])
<1>1. id \in Ids /\ up
  BY DEF Slips, Puts
<1>2. Entry(id)' = Rung(t) /\ \A i \in Slips : i # id => Entry(i)' = Entry(i)
  BY <1>1, PutsEntries
<1>3. TheBook' = [TheBook EXCEPT ![id] = Rung(t)]
  BY <1>2, BookEntries, BookEntriesNext
<1>4. TheBook[id] = Entry(id)
  BY BookEntries
<1>5. QED
  BY <1>1, <1>3, <1>4, PutsOrders DEF Puts, Entry, Kept, Rung

\* The ticket the daemon has in memory was not reported.
LEMMA InMemoryIsNotReported ==
  ASSUME KInv, up, NEW id \in Slips, ~InAnOrder(id), tickets[id] # NoRow
  PROVE  ~Reported(id) /\ (tickets[id].status = "OPEN" => tickets[id].closed = NoDate)
  BY DEF KInv, Kept

-----------------------------------------------------------------------------
(* Tickets *)

LEMMA StoredIsGood ==
  ASSUME IInv', NEW id \in Ids, NEW t, Store(id, t)
  PROVE  t \in GoodTicket /\ t # NoRow
<1> DEFINE w == SaveTicket(id, t)
<1>1. pending' = <<w>> /\ pending' \in Seq(GoodWrite)
  BY IInvPartsNext DEF Store, Writes, Frame
<1>2. w.op = "save_ticket" /\ w.ticket = t
  BY DEF SaveTicket
<1> HIDE DEF w
<1>3. w \in GoodWrite
  BY <1>1
<1>4. QED
  BY <1>2, <1>3, WriteFields, RowsAreNotMissing

\* An open ticket that stays one has no entry, before and after.
LEMMA OpenStays ==
  ASSUME IInv, KInv, NEW id \in Ids, IsOpen(id), NEW t, t # NoRow,
         t.status = "OPEN", t.closed = tickets[id].closed, Puts(id, t)
  PROVE  BookStep /\ KInv'
<1>1. up /\ tickets[id] # NoRow /\ tickets[id].status = "OPEN"
  BY DEF IsOpen, InMemory, Puts
<1>2. (id \in Slips /\ ~InAnOrder(id)) => Entry(id) = NoRow
  BY <1>1 DEF Entry, Kept
<1>3. BookStep
  BY <1>2, PutsSame
<1>4. KInv'
  BY <1>1, InMemoryIsNotReported, PutsKInv
<1>5. QED
  BY <1>3, <1>4

LEMMA RecalculatedKeeps ==
  ASSUME NEW t \in Ticket, NEW items, NEW bps
  PROVE  /\ Recalculated([t EXCEPT !.items = items], bps).status = t.status
         /\ Recalculated([t EXCEPT !.items = items], bps).closed = t.closed
  BY DEF Recalculated, Ticket, TicketOf

LEMMA EditLinesBook ==
  ASSUME IInv, IInv', KInv, NEW id \in Ids, Ready, IsOpen(id), NEW items,
         EditLines(id, items)
  PROVE  BookStep /\ KInv'
<1> DEFINE t == Recalculated([tickets[id] EXCEPT !.items = items], taxRate)
<1>1. tickets[id] \in Ticket /\ tickets[id].status = "OPEN"
  BY InMemoryShape DEF IsOpen, GoodTicket
<1>2. t.status = "OPEN" /\ t.closed = tickets[id].closed
  BY <1>1, RecalculatedKeeps
<1>3. Store(id, t)
  BY DEF EditLines
<1> HIDE DEF t
<1>4. t # NoRow /\ Puts(id, t)
  BY <1>3, StoredIsGood, StorePuts
<1>5. QED
  BY <1>2, <1>4, OpenStays

LEMMA RefusedBook ==
  ASSUME IInv, KInv, NEW id \in Ids, NEW legs \in Payments, NEW fee \in CardFees,
         CheckoutRefused(id, legs, fee)
  PROVE  BookStep /\ KInv'
<1> DEFINE t == [tickets[id] EXCEPT !.fee = fee]
<1>1. IsOpen(id) /\ Puts(id, t)
  BY DEF CheckoutRefused, Ready, Writes, Puts
<1>2. tickets[id] \in Ticket /\ tickets[id].status = "OPEN" /\ fee \in Nat
  BY <1>1, InMemoryShape, MoneyAssumption DEF IsOpen, GoodTicket
<1>3. t \in Ticket /\ t.status = "OPEN" /\ t.closed = tickets[id].closed
  BY <1>2 DEF Ticket, TicketOf
<1> HIDE DEF t
<1>4. t # NoRow
  BY <1>3, NoRowAssumption
<1>5. QED
  BY <1>1, <1>3, <1>4, OpenStays

\* An open ticket is paid or voided: the sale is entered with its day.
LEMMA ClosedIsEntered ==
  ASSUME NoRowIsNoEntry, IInv, KInv, NEW id \in Ids, IsOpen(id), NEW t, t # NoRow,
         t.status \in {"CLOSED", "VOIDED"},
         tickets[id].closed = NoDate => t.closed = today,
         Puts(id, t)
  PROVE  BookStep /\ KInv'
<1>1. up /\ tickets[id] # NoRow /\ tickets[id].status = "OPEN"
  BY DEF IsOpen, InMemory, Puts
<1>2. (id \in Slips /\ ~InAnOrder(id)) => ~Reported(id) /\ tickets[id].closed = NoDate
  BY <1>1, InMemoryIsNotReported
<1>3. KInv'
  BY <1>2, PutsKInv
<1>4. CASE id \in Slips /\ ~InAnOrder(id)
  <2> DEFINE e == Rung(t)
  <2>1. e # NoRow /\ e.status = t.status /\ e.closed = today
    BY <1>2, <1>4, RungIsThere DEF Rung, EntryOf
  <2>2. /\ TheBook' = [TheBook EXCEPT ![id] = e] /\ UNCHANGED <<TheReports, today>>
        /\ TheBook[id] = NoRow
    BY <1>1, <1>4, PutsEntry
  <2> HIDE DEF e
  <2>3. QED
    BY <1>3, <1>4, <2>1, <2>2, EnterStep
<1>5. CASE ~(id \in Slips /\ ~InAnOrder(id))
  BY <1>3, <1>5, PutsSame
<1>6. QED
  BY <1>4, <1>5

\* A paid ticket is voided, comped or refunded: its entry is adjusted.
LEMMA SettledIsAdjusted ==
  ASSUME NoRowIsNoEntry, IInv, KInv, NEW id \in Ids, InMemory(id),
         tickets[id].status = "CLOSED",
         NEW status \in {"VOIDED", "COMPED", "REFUNDED"},
         NEW t, t = [tickets[id] EXCEPT !.status = status], Puts(id, t)
  PROVE  BookStep /\ KInv'
<1>1. up /\ tickets[id] # NoRow /\ tickets[id] \in Ticket
  BY InMemoryShape DEF InMemory, Puts, GoodTicket
<1>2. t \in Ticket /\ t.status = status
  BY <1>1 DEF Ticket, TicketOf, Statuses, Settled
<1>3. t # NoRow
  BY <1>2, NoRowAssumption
<1>4. KInv'
  BY <1>1, <1>2, <1>3, InMemoryIsNotReported, PutsKInv
<1>5. CASE id \in Slips /\ ~InAnOrder(id)
  <2> DEFINE e == Rung(tickets[id])
  <2>1. Rung(t) = [e EXCEPT !.status = status]
    BY <1>1 DEF Rung, EntryOf, Ticket, TicketOf
  <2>2. e # NoRow /\ e.status = "CLOSED"
    BY RungIsThere DEF Rung, EntryOf
  <2>3. /\ TheBook' = [TheBook EXCEPT ![id] = Rung(t)] /\ UNCHANGED <<TheReports, today>>
        /\ TheBook[id] = e
    BY <1>1, <1>2, <1>3, <1>5, PutsEntry
  <2> HIDE DEF e
  <2>4. TheBook' = [TheBook EXCEPT ![id].status = status]
    BY <2>1, <2>3
  <2>5. QED
    BY <1>4, <1>5, <2>2, <2>3, <2>4, AdjustStep
<1>6. CASE ~(id \in Slips /\ ~InAnOrder(id))
  BY <1>3, <1>4, <1>6, PutsSame
<1>7. QED
  BY <1>5, <1>6

\* The mark of a print is not in the book.
LEMMA MarkBook ==
  ASSUME IInv, KInv, NEW id \in Ids, InMemory(id),
         NEW t, t = [tickets[id] EXCEPT !.printed = TRUE], Puts(id, t)
  PROVE  BookStep /\ KInv'
<1>1. up /\ tickets[id] # NoRow /\ tickets[id] \in Ticket
  BY InMemoryShape DEF InMemory, Puts, GoodTicket
<1>2. /\ t \in Ticket /\ t.status = tickets[id].status /\ t.closed = tickets[id].closed
      /\ Rung(t) = Rung(tickets[id])
  BY <1>1 DEF Ticket, TicketOf, Rung, EntryOf
<1>3. t # NoRow
  BY <1>2, NoRowAssumption
<1>4. KInv'
  BY <1>1, <1>2, <1>3, InMemoryIsNotReported, PutsKInv
<1>5. (id \in Slips /\ ~InAnOrder(id)) =>
        Entry(id) = IF t.status = "OPEN" THEN NoRow ELSE Rung(t)
  BY <1>1, <1>2 DEF Entry, Kept, Rung
<1>6. BookStep
  BY <1>3, <1>5, PutsSame
<1>7. QED
  BY <1>4, <1>6

\* A step that changes, if any, a ticket that is in an order.
LEMMA QuietStep ==
  ASSUME IInv, KInv, up, up', NEW tid,
         tid \in Slips => InAnOrder(tid),
         \A i \in Ids : i # tid => tickets'[i] = tickets[i],
         \A i \in Slips : InAnOrder(i)' = InAnOrder(i),
         UNCHANGED <<archived, seq, today>>
  PROVE  BookStep /\ KInv'
<1>1. \A d \in Dates : Report(d)' = Report(d)
  BY DEF Report
<1>2. \A i \in Slips : Reported(i)' = Reported(i)
  BY <1>1 DEF Reported
<1>3. TheReports' = TheReports
  BY <1>1, SameReports
<1>4. ASSUME NEW i \in Slips, ~InAnOrder(i)
      PROVE  Kept(i)' = Kept(i) /\ Entry(i)' = Entry(i)
  <2>1. i \in Ids /\ i # tid
    BY <1>4 DEF Slips
  <2>2. tickets'[i] = tickets[i]
    BY <2>1
  <2>3. QED
    BY <2>2 DEF Kept, Entry, EntryOf
<1>5. \A i \in Slips : Entry(i)' = Entry(i)
  BY <1>4 DEF Entry
<1>6. TheBook' = TheBook
  BY <1>5, SameBook
<1>7. KInv'
  BY <1>2, <1>4 DEF KInv, LastNumber
<1>8. QED
  BY <1>3, <1>6, <1>7 DEF BookStep

\* create_phone_order takes a ticket that has no entry out of the book's sight.
LEMMA CreatePhoneOrderBook ==
  ASSUME IInv, OInv, KInv, NEW id \in Ids, CreatePhoneOrder(id)
  PROVE  BookStep /\ KInv'
<1> DEFINE n  == seq["phone_order"] + 1
           po == [tid |-> id, ticket |-> tickets[id], status |-> "HOLDING"]
<1>1. /\ Ready /\ up /\ up' /\ IsOpen(id) /\ seq["phone_order"] < MaxOrders
      /\ orders' = [orders EXCEPT ![n] = po]
      /\ tickets' = [tickets EXCEPT ![id] = NoRow]
      /\ seq' = [seq EXCEPT !["phone_order"] = n]
      /\ UNCHANGED <<db, archived, today>>
  BY DEF CreatePhoneOrder, Writes, Ready
<1>2. n \in Oids /\ orders[n] = NoRow
  <2>1. n \in Oids /\ ~(n <= seq["phone_order"])
    BY <1>1, OrdersGivenOut, BoundsAssumption DEF Oids
  <2>2. QED
    BY <1>1, <2>1, OrdersGivenOut DEF OrderExists
<1>3. po \in PhoneOrderOf(GoodTicket) /\ po.tid = id
  BY <1>1, InMemoryShape DEF IsOpen, PhoneOrderOf, OrderStatuses
<1>4. po # NoRow
  BY <1>3, RowsAreNotMissing
<1>5. seq'["ticket"] = seq["ticket"]
  BY <1>1, IInvParts DEF Memory
<1> HIDE DEF n, po
<1>6. \A o \in Oids : orders'[o] = IF o = n THEN po ELSE orders[o]
  BY <1>1, IInvParts DEF Memory
<1>7. ASSUME NEW i \in Slips
      PROVE  /\ i # id => InAnOrder(i)' = InAnOrder(i)
             /\ InAnOrder(id)'
  BY <1>1, <1>2, <1>3, <1>4, <1>6 DEF InAnOrder
<1>8. \A d \in Dates : Report(d)' = Report(d)
  BY <1>1 DEF Report
<1>9. \A i \in Slips : Reported(i)' = Reported(i)
  BY <1>8 DEF Reported
<1>10. id \in Slips => InAnOrder(id) \/ ~Reported(id)
  BY <1>1, InMemoryIsNotReported DEF IsOpen, InMemory
<1>11. TheReports' = TheReports
  <2>1. ASSUME NEW i \in Slips PROVE InAnOrder(i)' = InAnOrder(i) \/ ~Reported(i)
    <3>1. CASE i # id
      BY <1>7, <3>1
    <3>2. CASE i = id
      <4>1. InAnOrder(id) => InAnOrder(id)' = InAnOrder(id)
        BY <1>7, <3>2 DEF InAnOrder
      <4>2. QED
        BY <1>10, <3>2, <4>1
    <3>3. QED
      BY <3>1, <3>2
  <2>2. QED
    BY <1>8, <2>1, SameReports
<1>12. ASSUME NEW i \in Slips, i # id
       PROVE  Kept(i)' = Kept(i) /\ Entry(i)' = Entry(i)
  <2>1. tickets'[i] = tickets[i]
    BY <1>1, <1>12, IInvParts DEF Memory, Slips
  <2>2. QED
    BY <1>1, <1>7, <1>12, <2>1 DEF Kept, Entry, EntryOf
<1>13. id \in Slips => Entry(id)' = Entry(id)
  BY <1>1, <1>7 DEF Entry, Kept, IsOpen
<1>14. TheBook' = TheBook
  BY <1>12, <1>13, SameBook
<1>15. KInv'
  BY <1>1, <1>5, <1>7, <1>9, <1>12 DEF KInv, LastNumber
<1>16. QED
  BY <1>1, <1>11, <1>14, <1>15 DEF BookStep

LEMMA TicketOpsBook ==
  ASSUME NoRowIsNoEntry, IInv, IInv', OInv, KInv, NEW id \in Ids, TicketOps(id)
  PROVE  BookStep /\ KInv'
<1>1. Ready /\ up
  BY TicketOpsStore DEF Ready
<1>2. ASSUME NEW key \in LineKeys, NEW qty \in 1..MaxQty, AddItem(id, key, qty)
      PROVE  BookStep /\ KInv'
  BY <1>1, <1>2, EditLinesBook DEF AddItem
<1>3. ASSUME NEW i \in 1..MaxLines, RemoveItem(id, i) \/ DecreaseItem(id, i)
      PROVE  BookStep /\ KInv'
  BY <1>1, <1>3, EditLinesBook DEF RemoveItem, DecreaseItem
<1>4. ASSUME NEW i \in 1..MaxLines, NEW key \in LineKeys, UpdateItem(id, i, key)
      PROVE  BookStep /\ KInv'
  BY <1>1, <1>4, EditLinesBook DEF UpdateItem
<1>5. ASSUME NEW legs \in Payments, NEW fee \in CardFees, Checkout(id, legs, fee)
      PROVE  BookStep /\ KInv'
  <2> DEFINE t == Paid(tickets[id], legs, fee)
  <2>1. IsOpen(id) /\ Store(id, t) /\ tickets[id] \in Ticket
    BY <1>5, InMemoryShape DEF Checkout, IsOpen, GoodTicket
  <2>2. t.status = "CLOSED" /\ t.closed = today
    BY <2>1 DEF Paid, Ticket, TicketOf
  <2> HIDE DEF t
  <2>3. QED
    BY <1>1, <2>1, <2>2, StoredIsGood, StorePuts, ClosedIsEntered
<1>6. ASSUME NEW legs \in Payments, NEW fee \in CardFees, CheckoutRefused(id, legs, fee)
      PROVE  BookStep /\ KInv'
  BY <1>6, RefusedBook
<1>7. CASE VoidTicket(id)
  <2> DEFINE t == [tickets[id] EXCEPT !.status = "VOIDED",
                     !.closed = IF @ = NoDate THEN today ELSE @]
  <2>1. /\ InMemory(id) /\ Store(id, t) /\ tickets[id] \in GoodTicket
        /\ tickets[id].status \in {"OPEN", "CLOSED"}
    BY <1>7, InMemoryShape DEF VoidTicket
  <2>2. tickets[id] \in Ticket /\ Balanced(tickets[id])
    BY <2>1 DEF GoodTicket
  <2>3. t.status = "VOIDED" /\ (tickets[id].closed = NoDate => t.closed = today)
    BY <2>2 DEF Ticket, TicketOf
  <2>4. tickets[id].closed # NoDate => t = [tickets[id] EXCEPT !.status = "VOIDED"]
    BY <2>2 DEF Ticket, TicketOf
  <2> HIDE DEF t
  <2>5. t # NoRow /\ Puts(id, t)
    BY <1>1, <2>1, StoredIsGood, StorePuts
  <2>6. CASE tickets[id].status = "OPEN"
    BY <2>1, <2>3, <2>5, <2>6, ClosedIsEntered DEF IsOpen
  <2>7. CASE tickets[id].status = "CLOSED"
    <3>1. tickets[id].closed # NoDate
      BY <2>2, <2>7 DEF Balanced, Settled
    <3>2. QED
      BY <2>1, <2>4, <2>5, <2>7, <3>1, SettledIsAdjusted
  <2>8. QED
    BY <2>1, <2>6, <2>7
<1>8. ASSUME NEW status \in {"COMPED", "REFUNDED"}, Settle(id, status)
      PROVE  BookStep /\ KInv'
  <2> DEFINE t == [tickets[id] EXCEPT !.status = status]
  <2>1. InMemory(id) /\ tickets[id].status = "CLOSED" /\ Store(id, t)
    BY <1>8 DEF Settle
  <2>2. Puts(id, t)
    BY <1>1, <2>1, StorePuts
  <2>3. QED
    BY <2>1, <2>2, SettledIsAdjusted
<1>9. CASE MarkTicketPrinted(id)
  <2>1. CASE InMemory(id)
    <3> DEFINE t == [tickets[id] EXCEPT !.printed = TRUE]
    <3>1. Store(id, t)
      BY <1>9, <2>1 DEF MarkTicketPrinted
    <3>2. Puts(id, t)
      BY <1>1, <3>1, StorePuts
    <3>3. QED
      BY <2>1, <3>2, MarkBook
  <2>2. CASE ~InMemory(id)
    <3>1. UNCHANGED <<tickets, orders, seq, archived, db, up, today>>
      BY <1>9, <2>2 DEF MarkTicketPrinted, memory, Writes
    <3>2. \A i \in Slips : InAnOrder(i)' = InAnOrder(i)
      BY <3>1 DEF InAnOrder
    <3>3. NoId \notin Slips
      BY DEF Slips
    <3>4. QED
      BY <1>1, <3>1, <3>2, <3>3, QuietStep
  <2>3. QED
    BY <2>1, <2>2
<1>10. CASE CreatePhoneOrder(id)
  BY <1>10, CreatePhoneOrderBook
<1>11. QED
  BY <1>2, <1>3, <1>4, <1>5, <1>6, <1>7, <1>8, <1>9, <1>10
     DEF TicketOps, CompTicket, RefundTicket

\* A new ticket takes a number that no entry and no report has.
LEMMA NewTicketBook ==
  ASSUME IInv, FInv, KInv, NewTicket
  PROVE  BookStep /\ KInv'
<1> DEFINE n == seq["ticket"] + 1
<1>1. /\ Ready /\ up /\ seq["ticket"] < MaxTickets /\ Puts(n, EmptyTicket)
  <2>1. \A i \in Ids : i <= seq["ticket"] => i <= seq'["ticket"]
    <3>1. seq' = [seq EXCEPT !["ticket"] = n] /\ seq["ticket"] \in Nat
      BY IInvParts, IdsAreNumbers DEF NewTicket, Memory
    <3>2. seq'["ticket"] = n
      BY <3>1, IInvParts, IdsAreNumbers DEF Memory
    <3>3. QED
      BY <3>1, <3>2, IdsAreNumbers
  <2>2. QED
    BY <2>1 DEF NewTicket, Ready, Writes, Puts
<1>2. seq["ticket"] \in Nat
  BY IInvParts, IdsAreNumbers DEF Memory
<1>3. n \in Ids /\ ~(n <= seq["ticket"])
  BY <1>1, <1>2, BoundsAssumption DEF Ids
<1> HIDE DEF n
<1>4. EmptyTicket # NoRow /\ EmptyTicket.status = "OPEN" /\ EmptyTicket.closed = NoDate
  BY EmptyTicketShape, RowsAreNotMissing DEF EmptyTicket
<1>5. tickets[n] = NoRow
  BY <1>1, <1>3, NumbersGivenOut
<1>6. (n \in Slips /\ ~InAnOrder(n)) => ~Reported(n) /\ Entry(n) = NoRow
  BY <1>1, <1>3, <1>5 DEF KInv, LastNumber, Entry, Kept
<1>7. KInv'
  BY <1>1, <1>3, <1>4, <1>6, PutsKInv
<1>8. BookStep
  BY <1>1, <1>3, <1>4, <1>6, PutsSame
<1>9. QED
  BY <1>7, <1>8

-----------------------------------------------------------------------------
(* End of day, phone orders, settings *)

LEMMA EndDayBook ==
  ASSUME NoRowIsNoReport, NoRowIsNoEntry, IInv, FInv, KInv, EndDay
  PROVE  BookStep /\ KInv'
<1> DEFINE z == ClosedOn(today)
<1>1. /\ Ready /\ up /\ up'
      /\ tickets' = [i \in Ids |-> IF i \in {j \in Ids : Deletable(j)} THEN NoRow ELSE tickets[i]]
      /\ archived' = [archived EXCEPT ![today] = z]
      /\ UNCHANGED <<orders, seq, db, today>>
  BY DEF EndDay, Ready, Writes
<1>2. /\ today \in Dates /\ today # NoDate /\ z # NoRow
      /\ \A d \in Dates : archived'[d] = IF d = today THEN z ELSE archived[d]
  <2>1. today \in Dates /\ today # NoDate
    BY IInvParts, BoundsAssumption DEF Frame, Dates, NoDate
  <2>2. z \in ReportOf(Ticket)
    BY ClosedOnShape DEF ReportOf, GoodTicket
  <2>3. z # NoRow
    BY <2>2 DEF NoRowIsNoReport
  <2> HIDE DEF z
  <2>4. QED
    BY <1>1, <2>1, <2>3, IInvParts DEF Memory
<1>3. \A i \in Slips : InAnOrder(i)' = InAnOrder(i)
  BY <1>1 DEF InAnOrder
<1>4. ASSUME NEW i \in Slips
      PROVE  Kept(i)' = IF Deletable(i) THEN NoRow ELSE tickets[i]
  BY <1>1 DEF Kept, Slips
\* What is closed today was paid or voided, and has an entry.
<1>5. ASSUME NEW i \in Slips, ~InAnOrder(i), InMemory(i), tickets[i].closed = today
      PROVE  tickets[i].status # "OPEN" /\ Deletable(i) /\ i <= seq["ticket"]
  <2>1. tickets[i].status # "OPEN"
    BY <1>1, <1>2, <1>5, InMemoryIsNotReported DEF InMemory
  <2>2. QED
    BY <1>1, <1>5, <2>1, NumbersGivenOut DEF Deletable, InMemory, Slips
<1>6. KInv'
  <2>1. SUFFICES ASSUME NEW i \in Slips, ~InAnOrder(i)'
                 PROVE  /\ Kept(i)' # NoRow /\ Kept(i)'.status = "OPEN" =>
                             Kept(i)'.closed = NoDate
                        /\ Reported(i)' => Kept(i)' = NoRow /\ i <= LastNumber'
    BY DEF KInv
  <2>2. ~InAnOrder(i) /\ Kept(i) = tickets[i]
        /\ LastNumber = seq["ticket"] /\ LastNumber' = seq["ticket"]
    BY <1>1, <1>3, <2>1 DEF Kept, LastNumber
  <2>3. Kept(i)' # NoRow /\ Kept(i)'.status = "OPEN" => Kept(i)'.closed = NoDate
    BY <1>4, <2>2 DEF KInv
  <2>4. ASSUME Reported(i)' PROVE Kept(i)' = NoRow /\ i <= LastNumber'
    <3>1. PICK d \in Dates : archived'[d] # NoRow /\ \E s \in archived'[d] : s[1] = i
      BY <1>1, <2>4 DEF Reported, Report
    <3>2. CASE d = today
      <4>1. InMemory(i) /\ tickets[i].closed = today
        <5>1. PICK s \in z : s[1] = i
          BY <1>2, <3>1, <3>2
        <5>2. PICK j \in Ids : s = <<j, tickets[j]>> /\ InMemory(j) /\ tickets[j].closed = today
          BY <5>1 DEF ClosedOn
        <5>3. QED
          BY <5>1, <5>2
      <4>2. QED
        BY <1>4, <1>5, <2>2, <4>1
    <3>3. CASE d # today
      <4>1. Reported(i)
        BY <1>1, <1>2, <3>1, <3>3 DEF Reported, Report
      <4>2. QED
        BY <1>4, <2>2, <4>1 DEF KInv
    <3>4. QED
      BY <3>2, <3>3
  <2>5. QED
    BY <2>3, <2>4
<1>7. ASSUME NEW i \in Slips PROVE Entry(i)' = NoRow
  BY <1>3, <1>4 DEF Entry, Deletable, InMemory
<1>8. TheBook' = Book!Empty
  BY <1>7, BookEntriesNext DEF Book!Empty
<1> DEFINE told == {<<slip, TheBook[slip]>> : slip \in Book!Entered(today)}
<1>9. ASSUME NEW i \in Slips
      PROVE  /\ i \in Book!Entered(today) <=>
                  ~InAnOrder(i) /\ InMemory(i) /\ tickets[i].closed = today
             /\ i \in Book!Entered(today) => TheBook[i] = Rung(tickets[i])
  <2>1. TheBook[i] = Entry(i) /\ Kept(i) = tickets[i]
    BY <1>1, BookEntries DEF Kept
  <2>2. i \in Book!Entered(today) <=> Entry(i) # NoRow /\ Entry(i).closed = today
    BY <2>1 DEF Book!Entered
  <2>3. Rung(tickets[i]).closed = tickets[i].closed /\ Rung(tickets[i]) # NoRow
    BY RungIsThere DEF Rung, EntryOf
  <2>4. Entry(i) = IF InAnOrder(i) \/ tickets[i] = NoRow THEN NoRow
                   ELSE IF tickets[i].status = "OPEN" THEN NoRow ELSE Rung(tickets[i])
    BY <1>1, <2>1 DEF Entry, Rung
  <2>5. QED
    BY <1>5, <2>1, <2>2, <2>3, <2>4 DEF InMemory
<1>10. ASSUME NEW d \in Dates, d = today PROVE Entries(Report(d))' = told
  <2> DEFINE left == {s \in z : s[1] \in Slips /\ ~InAnOrder(s[1])}
             left2 == {s \in z : s[1] \in Slips /\ ~InAnOrder(s[1])'}
  <2>1. Report(d)' = z
    BY <1>1, <1>2, <1>10 DEF Report
  <2>2. left2 = left
    BY <1>3
  <2>3. Entries(Report(d))' = {<<s[1], Rung(s[2])>> : s \in left2}
    BY <1>2, <2>1 DEF Entries, Rung, EntryOf
  <2>4. ASSUME NEW s \in left PROVE <<s[1], Rung(s[2])>> \in told
    <3>1. PICK i \in Ids : s = <<i, tickets[i]>> /\ InMemory(i) /\ tickets[i].closed = today
      BY <2>4 DEF ClosedOn
    <3>2. i \in Slips /\ ~InAnOrder(i) /\ s[1] = i /\ s[2] = tickets[i]
      BY <2>4, <3>1
    <3>3. i \in Book!Entered(today) /\ TheBook[i] = Rung(tickets[i])
      BY <1>9, <3>1, <3>2
    <3>4. QED
      BY <3>2, <3>3
  <2>5. ASSUME NEW i \in Book!Entered(today)
        PROVE  <<i, TheBook[i]>> \in {<<s[1], Rung(s[2])>> : s \in left}
    <3>1. i \in Slips /\ i \in Ids
      BY DEF Book!Entered, Slips
    <3>2. /\ ~InAnOrder(i) /\ InMemory(i) /\ tickets[i].closed = today
          /\ TheBook[i] = Rung(tickets[i])
      BY <1>9, <3>1
    <3> DEFINE s == <<i, tickets[i]>>
    <3>3. s \in left /\ s[1] = i /\ s[2] = tickets[i]
      BY <3>1, <3>2 DEF ClosedOn
    <3>4. QED
      BY <3>2, <3>3
  <2>6. QED
    BY <2>2, <2>3, <2>4, <2>5
<1>11. ASSUME NEW d \in Dates, d # today PROVE Entries(Report(d))' = Entries(Report(d))
  <2>1. Report(d)' = Report(d)
    BY <1>1, <1>2, <1>11 DEF Report
  <2> DEFINE rpt == Report(d)
             old == {s \in rpt : s[1] \in Slips /\ ~InAnOrder(s[1])}
             new == {s \in rpt : s[1] \in Slips /\ ~InAnOrder(s[1])'}
  <2>2. old = new
    BY <1>3
  <2>3. CASE rpt = NoRow
    BY <2>1, <2>3 DEF Entries
  <2>4. CASE rpt # NoRow
    <3>1. Entries(rpt) = {<<s[1], Rung(s[2])>> : s \in old}
      BY <2>4 DEF Entries
    <3>2. Entries(rpt)' = {<<s[1], Rung(s[2])>> : s \in new}
      BY <2>1, <2>4 DEF Entries, Rung, EntryOf
    <3>3. QED
      BY <2>2, <3>1, <3>2
  <2>5. QED
    BY <2>3, <2>4
<1> HIDE DEF told
<1>12. TheReports' = [TheReports EXCEPT ![today] = told]
  <2>1. ASSUME NEW d \in Dates
        PROVE  Entries(Report(d))' = IF d = today THEN told ELSE Entries(Report(d))
    <3>1. CASE d = today
      BY <1>10, <3>1
    <3>2. CASE d # today
      BY <1>11, <3>2
    <3>3. QED
      BY <3>1, <3>2
  <2>2. TheReports' = [d \in Dates |-> IF d = today THEN told ELSE Entries(Report(d))]
    BY <2>1, BookEntriesNext
  <2>3. QED
    BY <1>2, <2>2, BookEntries
<1>13. Book!EndOfDay
  BY <1>1, <1>8, <1>12 DEF Book!EndOfDay, told
<1>14. QED
  BY <1>6, <1>13 DEF BookStep, Book!BookNext

LEMMA PhoneOpsBook ==
  ASSUME IInv, KInv, NEW oid \in Oids, PhoneOps(oid)
  PROVE  BookStep /\ KInv'
<1> DEFINE tid == orders[oid].tid
<1>1. Ready /\ up /\ up' /\ Holding(oid) /\ UNCHANGED <<archived, seq, db, today>>
  BY DEF PhoneOps, PhoneCheckout, PhoneCancel, PhoneEdit, Store, Ready, Writes
<1>2. orders[oid] \in PhoneOrderOf(GoodTicket) /\ orders[oid] # NoRow
  BY <1>1, HoldingShape DEF Holding
<1>3. tid \in Slips => InAnOrder(tid)
  BY <1>2 DEF InAnOrder
<1>4. ASSUME NEW status \in OrderStatuses, NEW po,
             po = [orders[oid] EXCEPT !.status = status],
             orders' = [orders EXCEPT ![oid] = po]
      PROVE  \A i \in Slips : InAnOrder(i)' = InAnOrder(i)
  <2>1. po \in PhoneOrderOf(GoodTicket) /\ po.tid = tid
    BY <1>2, <1>4 DEF PhoneOrderOf
  <2>2. po # NoRow
    BY <2>1, RowsAreNotMissing
  <2>3. \A o \in Oids : orders'[o] = IF o = oid THEN po ELSE orders[o]
    BY <1>4, IInvParts DEF Memory
  <2>4. QED
    BY <1>1, <1>2, <2>1, <2>2, <2>3 DEF InAnOrder
<1>5. /\ \A i \in Ids : i # tid => tickets'[i] = tickets[i]
      /\ \A i \in Slips : InAnOrder(i)' = InAnOrder(i)
  <2>1. CASE PhoneCheckout(oid)
    <3> DEFINE po == [orders[oid] EXCEPT !.status = "COMPLETED"]
               t  == Reopened(po)
    <3>1. /\ orders' = [orders EXCEPT ![oid] = po]
          /\ tickets' = [tickets EXCEPT ![po.tid] = t]
      BY <2>1 DEF PhoneCheckout
    <3>2. po.tid = tid
      BY <1>2 DEF PhoneOrderOf
    <3>3. \A i \in Slips : InAnOrder(i)' = InAnOrder(i)
      BY <1>4, <3>1 DEF OrderStatuses
    <3> HIDE DEF po, t
    <3>4. QED
      BY <3>1, <3>2, <3>3, IInvParts DEF Memory
  <2>2. CASE PhoneCancel(oid)
    <3> DEFINE po == [orders[oid] EXCEPT !.status = "CANCELLED"]
    <3>1. orders' = [orders EXCEPT ![oid] = po] /\ tickets' = tickets
      BY <2>2 DEF PhoneCancel
    <3>2. QED
      BY <1>4, <3>1 DEF OrderStatuses
  <2>3. CASE PhoneEdit(oid)
    <3>1. orders' = orders /\ \E t : tickets' = [tickets EXCEPT ![tid] = t]
      BY <2>3 DEF PhoneEdit, Store
    <3>2. \A i \in Slips : InAnOrder(i)' = InAnOrder(i)
      BY <1>1, <3>1 DEF InAnOrder
    <3>3. QED
      BY <3>1, <3>2, IInvParts DEF Memory
  <2>4. QED
    BY <2>1, <2>2, <2>3 DEF PhoneOps
<1> HIDE DEF tid
<1>6. QED
  BY <1>1, <1>3, <1>5, QuietStep

LEMMA SetTaxRateBook ==
  ASSUME IInv, KInv, NEW bps \in TaxRates, SetTaxRate(bps)
  PROVE  BookStep /\ KInv'
<1>1. up /\ up' /\ UNCHANGED <<tickets, orders, seq, archived, db, today>>
  BY DEF SetTaxRate, Writes, Ready
<1>2. \A i \in Slips : InAnOrder(i)' = InAnOrder(i)
  BY <1>1 DEF InAnOrder
<1>3. NoId \notin Slips
  BY DEF Slips
<1>4. QED
  BY <1>1, <1>2, <1>3, QuietStep

-----------------------------------------------------------------------------
(* Commits, crashes and the refinement *)

\* A commit writes no ticket into an order that was not in it.
LEMMA CommitBook ==
  ASSUME IInv, DInv, OrderedStay, KInv, CommitWrite
  PROVE  BookStep /\ KInv'
<1> DEFINE w == Head(pending)
<1>1. /\ up /\ up' /\ pending # <<>> /\ db' = Apply(db, w)
      /\ UNCHANGED <<tickets, orders, seq, archived, taxRate, today>>
  BY DEF CommitWrite, memory
<1>2. w \in GoodWrite /\ w \in Waiting
  <2>1. pending \in Seq(GoodWrite)
    BY IInvParts DEF Frame
  <2>2. Len(pending) \in Nat \ {0} /\ w = pending[1] /\ DOMAIN pending = 1..Len(pending)
    BY <1>1, <2>1, LenProperties, EmptySeq, HeadTailProperties
  <2>3. 1 \in 1..Len(pending)
    BY <2>2
  <2> HIDE DEF w
  <2>4. QED
    BY <2>1, <2>2, <2>3 DEF Waiting, ToSet
<1> HIDE DEF w
<1>3. \A oid \in Oids : db'.orders[oid] =
        IF ~OrderWrite(w, oid) THEN db.orders[oid]
        ELSE IF db.orders[oid] = NoRow THEN w.row
        ELSE [db.orders[oid] EXCEPT !.status = w.row.status]
  BY <1>1, <1>2, ApplyCells
<1>4. ASSUME NEW oid \in Oids, db'.orders[oid] # NoRow
      PROVE  \/ db.orders[oid] # NoRow /\ db.orders[oid].tid = db'.orders[oid].tid
             \/ orders[oid] # NoRow /\ orders[oid].tid = db'.orders[oid].tid
  <2>1. CASE ~OrderWrite(w, oid)
    BY <1>3, <1>4, <2>1
  <2>2. CASE OrderWrite(w, oid) /\ db.orders[oid] = NoRow
    <3>1. db'.orders[oid] = w.row
      BY <1>3, <2>2
    <3>2. SameOrder(orders[oid], w.row) /\ orders[oid].tid = w.row.tid
      BY <1>1, <1>2, <2>2 DEF DInv, OrdersAgree
    <3>3. QED
      BY <1>4, <3>1, <3>2 DEF SameOrder
  <2>3. CASE OrderWrite(w, oid) /\ db.orders[oid] # NoRow
    <3> DEFINE r == [db.orders[oid] EXCEPT !.status = w.row.status]
    <3>1. db.orders[oid] \in OrderRow
      BY <2>3, IInvParts DEF Frame, GoodTables, TablesOf
    <3>2. r.tid = db.orders[oid].tid /\ db'.orders[oid] = r
      BY <1>3, <2>3, <3>1 DEF OrderRow
    <3> HIDE DEF r
    <3>3. QED
      BY <2>3, <3>2
  <2>4. QED
    BY <2>1, <2>2, <2>3
<1>5. ASSUME NEW i \in Slips PROVE InAnOrder(i)' = InAnOrder(i)
  <2>1. InAnOrder(i) => InAnOrder(i)'
    BY DEF OrderedStay
  <2>2. InAnOrder(i)' => InAnOrder(i)
    BY <1>1, <1>4 DEF InAnOrder
  <2>3. QED
    BY <2>1, <2>2 DEF InAnOrder
<1>6. NoId \notin Slips
  BY DEF Slips
<1>7. QED
  BY <1>1, <1>5, <1>6, QuietStep

\* A ticket and the row that agrees with it have the same entry.
LEMMA SameEntry ==
  ASSUME NEW t \in GoodTicket, NEW r \in GoodRow, SameTicket(t, r)
  PROVE  /\ t.status = r.status /\ t.closed = r.closed
         /\ t.status # "OPEN" => Rung(t) = EntryOf(r, r.items)
<1>1. t \in Ticket /\ r \in TicketOf(SUBSET Line) /\ t # NoRow /\ r # NoRow
  BY RowsAreNotMissing DEF GoodTicket, GoodRow, TicketRow
<1>2. Row(t) = [t EXCEPT !.items = StoredLines(t.items)]
  BY DEF Row
<1>3. CASE t.status = "OPEN"
  <2>1. [r EXCEPT !.fee = t.fee] = Row(t)
    BY <1>1, <1>3 DEF SameTicket
  <2>2. [r EXCEPT !.fee = t.fee].status = r.status /\ [r EXCEPT !.fee = t.fee].closed = r.closed
    BY <1>1 DEF TicketOf
  <2>3. Row(t).status = t.status /\ Row(t).closed = t.closed
    BY <1>1, <1>2 DEF Ticket, TicketOf
  <2>4. QED
    BY <1>3, <2>1, <2>2, <2>3
<1>4. CASE t.status # "OPEN"
  <2>1. r = Row(t)
    BY <1>1, <1>4 DEF SameTicket
  <2>2. QED
    BY <1>1, <1>2, <2>1 DEF Rung, EntryOf, Ticket, TicketOf
<1>5. QED
  BY <1>3, <1>4

\* When the daemon dies or starts, every ticket moves to the row that agrees
\* with it, or back, and every report likewise.
LEMMA MovedBook ==
  ASSUME KInv, today' = today, LastNumber' = LastNumber,
         \A d \in Dates : Report(d)' = Report(d),
         \A i \in Slips : InAnOrder(i)' = InAnOrder(i),
         \A i \in Slips : ~InAnOrder(i) =>
           /\ (Kept(i)' = NoRow) = (Kept(i) = NoRow)
           /\ Kept(i) # NoRow => /\ Kept(i)'.status = Kept(i).status
                                 /\ Kept(i)'.closed = Kept(i).closed
           /\ Entry(i)' = Entry(i)
  PROVE  BookStep /\ KInv'
<1>1. TheReports' = TheReports
  BY SameReports
<1>2. \A i \in Slips : Entry(i)' = Entry(i)
  BY DEF Entry
<1>3. TheBook' = TheBook
  BY <1>2, SameBook
<1>4. \A i \in Slips : Reported(i)' = Reported(i)
  BY DEF Reported
<1>5. KInv'
  BY <1>4 DEF KInv
<1>6. QED
  BY <1>1, <1>3, <1>5 DEF BookStep

LEMMA CrashBook ==
  ASSUME AtomicHandlers, IInv, FInv, DInv, KInv, Crash
  PROVE  BookStep /\ KInv'
<1>1. /\ Ready /\ up /\ ~up' /\ UNCHANGED <<db, today>>
      /\ \A oid \in Oids : orders'[oid] = NoRow
  BY DEF Crash, AtomicHandlers, Ready
<1>2. ASSUME NEW i \in Slips PROVE InAnOrder(i)' = InAnOrder(i)
  <2>1. i # NoId
    BY DEF Slips
  <2>2. InAnOrder(i)' <=> \E oid \in Oids : db.orders[oid] # NoRow /\ db.orders[oid].tid = i
    BY <1>1 DEF InAnOrder
  <2>3. \A oid \in Oids : (orders[oid] # NoRow /\ orders[oid].tid = i) =>
                            (db.orders[oid] # NoRow /\ db.orders[oid].tid = i)
    BY <1>1, <2>1, IdleAgrees DEF SameOrder
  <2>4. InAnOrder(i)' <=> InAnOrder(i)
    BY <2>2, <2>3 DEF InAnOrder
  <2>5. QED
    BY <2>4 DEF InAnOrder
<1>3. \A d \in Dates : Report(d)' = Report(d)
  BY <1>1, IdleAgrees DEF Report
<1>4. LastNumber' = LastNumber
  BY <1>1, NumbersGivenOut DEF LastNumber
<1>5. ASSUME NEW i \in Slips, ~InAnOrder(i)
      PROVE  /\ (Kept(i)' = NoRow) = (Kept(i) = NoRow)
             /\ Kept(i) # NoRow => /\ Kept(i)'.status = Kept(i).status
                                   /\ Kept(i)'.closed = Kept(i).closed
             /\ Entry(i)' = Entry(i)
  <2>1. Kept(i) = tickets[i] /\ Kept(i)' = db.tickets[i]
    BY <1>1 DEF Kept
  <2>2. SameTicket(tickets[i], db.tickets[i])
    BY <1>1, <1>5, IdleAgrees
  <2>3. ~InAnOrder(i)'
    BY <1>2, <1>5
  <2>4. /\ tickets[i] \in GoodTicket \cup {NoRow}
        /\ db.tickets[i] \in GoodRow \cup {NoRow}
    BY IInvParts DEF Memory, Frame, GoodTables, TablesOf, Slips
  <2>5. CASE tickets[i] = NoRow
    <3>1. db.tickets[i] = NoRow
      BY <2>2, <2>5 DEF SameTicket
    <3>2. QED
      BY <2>1, <2>5, <3>1 DEF Entry
  <2>6. CASE tickets[i] # NoRow
    <3>1. db.tickets[i] # NoRow
      BY <2>2, <2>6 DEF SameTicket
    <3>2. /\ tickets[i].status = db.tickets[i].status
          /\ tickets[i].closed = db.tickets[i].closed
          /\ tickets[i].status # "OPEN" =>
               Rung(tickets[i]) = EntryOf(db.tickets[i], db.tickets[i].items)
      BY <2>2, <2>4, <2>6, <3>1, SameEntry
    <3>3. Entry(i) = IF tickets[i].status = "OPEN" THEN NoRow ELSE Rung(tickets[i])
      BY <1>1, <1>5, <2>1, <2>6 DEF Entry, Rung
    <3>4. Entry(i)' = IF db.tickets[i].status = "OPEN" THEN NoRow
                      ELSE EntryOf(db.tickets[i], db.tickets[i].items)
      BY <1>1, <2>1, <2>3, <3>1 DEF Entry
    <3>5. QED
      BY <2>1, <2>6, <3>1, <3>2, <3>3, <3>4
  <2>7. QED
    BY <2>5, <2>6
<1>6. QED
  BY <1>1, <1>2, <1>3, <1>4, <1>5, MovedBook

LEMMA RestartBook ==
  ASSUME IInv, DInv, KInv, Restart, DInv', IInv', OInv
  PROVE  BookStep /\ KInv'
<1>1. /\ ~up /\ up' /\ UNCHANGED <<db, today>> /\ pending' = <<>>
      /\ \A oid \in Oids : orders[oid] = NoRow
      /\ archived' = db.reports /\ seq' = db.seq
  BY DEF Restart, Load, DInv, OInv
<1>2. /\ \A oid \in Oids : SameOrder(orders'[oid], db.orders[oid])
      /\ \A id \in Slips : ~InAnOrder(id)' => SameTicket(tickets'[id], db.tickets[id])
  <2>1. Waiting' = {}
    BY <1>1, NoElement DEF Waiting
  <2>2. QED
    BY <1>1, <2>1 DEF DInv, OrdersAgree, TicketsAgree
<1>3. ASSUME NEW i \in Slips PROVE InAnOrder(i)' = InAnOrder(i)
  <2>1. i # NoId
    BY DEF Slips
  <2>2. InAnOrder(i) <=> \E oid \in Oids : db.orders[oid] # NoRow /\ db.orders[oid].tid = i
    BY <1>1 DEF InAnOrder
  <2>3. \A oid \in Oids : (orders'[oid] # NoRow /\ orders'[oid].tid = i) =>
                            (db.orders[oid] # NoRow /\ db.orders[oid].tid = i)
    BY <1>2, <2>1 DEF SameOrder
  <2>4. InAnOrder(i)' <=> InAnOrder(i)
    BY <1>1, <2>2, <2>3 DEF InAnOrder
  <2>5. QED
    BY <2>4 DEF InAnOrder
<1>4. \A d \in Dates : Report(d)' = Report(d)
  BY <1>1 DEF Report
<1>5. LastNumber' = LastNumber
  BY <1>1 DEF LastNumber
<1>6. ASSUME NEW i \in Slips, ~InAnOrder(i)
      PROVE  /\ (Kept(i)' = NoRow) = (Kept(i) = NoRow)
             /\ Kept(i) # NoRow => /\ Kept(i)'.status = Kept(i).status
                                   /\ Kept(i)'.closed = Kept(i).closed
             /\ Entry(i)' = Entry(i)
  <2>1. Kept(i) = db.tickets[i] /\ Kept(i)' = tickets'[i]
    BY <1>1 DEF Kept
  <2>2. ~InAnOrder(i)'
    BY <1>3, <1>6
  <2>3. SameTicket(tickets'[i], db.tickets[i])
    BY <1>2, <2>2
  <2>4. /\ tickets'[i] \in GoodTicket \cup {NoRow}
        /\ db.tickets[i] \in GoodRow \cup {NoRow}
    BY IInvParts, IInvPartsNext DEF Memory, Frame, GoodTables, TablesOf, Slips
  <2>5. CASE tickets'[i] = NoRow
    <3>1. db.tickets[i] = NoRow
      BY <2>3, <2>5 DEF SameTicket
    <3>2. QED
      BY <2>1, <2>5, <3>1 DEF Entry
  <2>6. CASE tickets'[i] # NoRow
    <3>1. db.tickets[i] # NoRow
      BY <2>3, <2>6 DEF SameTicket
    <3>2. /\ tickets'[i].status = db.tickets[i].status
          /\ tickets'[i].closed = db.tickets[i].closed
          /\ tickets'[i].status # "OPEN" =>
               Rung(tickets'[i]) = EntryOf(db.tickets[i], db.tickets[i].items)
      BY <2>3, <2>4, <2>6, <3>1, SameEntry
    <3>3. Entry(i)' = IF tickets'[i].status = "OPEN" THEN NoRow ELSE Rung(tickets'[i])
      BY <1>1, <2>1, <2>2, <2>6 DEF Entry, Rung
    <3>4. Entry(i) = IF db.tickets[i].status = "OPEN" THEN NoRow
                     ELSE EntryOf(db.tickets[i], db.tickets[i].items)
      BY <1>1, <1>6, <2>1, <3>1 DEF Entry
    <3>5. QED
      BY <2>1, <2>6, <3>1, <3>2, <3>3, <3>4
  <2>7. QED
    BY <2>5, <2>6
<1>7. QED
  BY <1>1, <1>3, <1>4, <1>5, <1>6, MovedBook

LEMMA InitBook == Init => Book!BookInit /\ KInv
<1> SUFFICES ASSUME Init PROVE Book!BookInit /\ KInv
  OBVIOUS
<1>1. /\ up /\ today = 1
      /\ \A id \in Slips : tickets[id] = NoRow
      /\ \A d \in Dates : archived[d] = NoRow
  BY DEF Init, Slips
<1>2. TheBook = Book!Empty
  BY <1>1, BookEntries DEF Entry, Kept, Book!Empty
<1>3. TheReports = [d \in 0..MaxDay |-> NoRow]
  BY <1>1, BookEntries DEF Entries, Report, Dates
<1>4. KInv
  BY <1>1 DEF KInv, Kept, Reported, Report
<1>5. QED
  BY <1>1, <1>2, <1>3, <1>4 DEF Book!BookInit

\* Every step of the engine is one step of the book, or none.
LEMMA NextBook ==
  ASSUME AtomicHandlers, NoRowIsNoReport, NoRowIsNoRate, NoRowIsNoEntry,
         IInv, FInv, OInv, DInv, KInv, [Next]_vars
  PROVE  BookStep /\ KInv'
<1>1. IInv' /\ DInv' /\ OrderedStay
  BY NextIInv, NextDInv
<1>2. CASE NewTicket
  BY <1>2, NewTicketBook
<1>3. CASE EndDay
  BY <1>3, EndDayBook
<1>4. ASSUME NEW id \in Ids, TicketOps(id) PROVE BookStep /\ KInv'
  BY <1>1, <1>4, TicketOpsBook
<1>5. ASSUME NEW oid \in Oids, PhoneOps(oid) PROVE BookStep /\ KInv'
  BY <1>5, PhoneOpsBook
<1>6. ASSUME NEW bps \in TaxRates, SetTaxRate(bps) PROVE BookStep /\ KInv'
  BY <1>6, SetTaxRateBook
<1>7. CASE CommitWrite
  BY <1>1, <1>7, CommitBook
<1>8. CASE WriteFails
  <2>1. failures \in 0..MaxFailures /\ failures < MaxFailures /\ MaxFailures = 0
    BY <1>8, IInvParts DEF WriteFails, Frame, AtomicHandlers
  <2>2. QED
    BY <2>1
<1>9. CASE Crash
  BY <1>9, CrashBook
<1>10. CASE Restart
  BY <1>1, <1>10, RestartBook
<1>11. CASE NextDay \/ UNCHANGED vars
  <2>1. UNCHANGED <<tickets, orders, seq, archived, db, up>>
    BY <1>11 DEF NextDay, vars, memory
  <2>2. /\ \A i \in Slips : InAnOrder(i)' = InAnOrder(i)
        /\ \A d \in Dates : Report(d)' = Report(d)
        /\ \A i \in Slips : Kept(i)' = Kept(i)
    BY <2>1 DEF InAnOrder, Report, Kept
  <2>3. \A i \in Slips : Entry(i)' = Entry(i)
    BY <2>1, <2>2 DEF Entry, EntryOf
  <2>4. TheBook' = TheBook /\ TheReports' = TheReports
    BY <2>2, <2>3, SameBook, SameReports
  <2>5. \A i \in Slips : Reported(i)' = Reported(i)
    BY <2>2 DEF Reported
  <2>6. LastNumber' = LastNumber
    BY <2>1 DEF LastNumber
  <2>7. KInv'
    BY <2>2, <2>5, <2>6 DEF KInv
  <2>8. CASE NextDay
    <3>1. Book!Tomorrow
      BY <2>4, <2>8 DEF NextDay, Book!Tomorrow
    <3>2. QED
      BY <2>7, <3>1 DEF BookStep, Book!BookNext
  <2>9. CASE UNCHANGED vars
    BY <2>4, <2>7, <2>9 DEF BookStep, vars
  <2>10. QED
    BY <1>11, <2>8, <2>9
<1>12. QED
  BY <1>2, <1>3, <1>4, <1>5, <1>6, <1>7, <1>8, <1>9, <1>10, <1>11 DEF Next

\* The daemon keeps the book: whatever it does, restarts included, is a step of
\* SalesBook or changes nothing of it.  No sale is lost, entered twice, changed
\* by a later operation or a reload, or cleared without being reported on its
\* day (checkout, void_ticket, comp_ticket, refund_ticket, end_day and
\* load_from_database of pos_manager.cpp).
THEOREM TheBookIsKept ==
  ASSUME AtomicHandlers, NoRowIsNoReport, NoRowIsNoRate, NoRowIsNoEntry
  PROVE  Spec => KeepsTheBook
<1> DEFINE Inv == IInv /\ FInv /\ OInv /\ DInv /\ KInv
<1>1. Init => Inv /\ Book!BookInit
  BY InitIInv, InitFInv, InitOInv, InitDInv, InitBook
<1>2. Inv /\ [Next]_vars => Inv' /\ [Book!BookNext]_(Book!bookVars)
  <2> SUFFICES ASSUME Inv, [Next]_vars PROVE Inv' /\ [Book!BookNext]_(Book!bookVars)
    OBVIOUS
  <2>1. IInv' /\ FInv' /\ OInv'
    BY NextIInv, NextFInv, NextOInv
  <2>2. DInv'
    BY <2>1, NextDInv
  <2>3. BookStep /\ KInv'
    BY NextBook
  <2>4. QED
    BY <2>1, <2>2, <2>3 DEF BookStep, Book!bookVars
<1> HIDE DEF Inv
<1>3. QED
  BY <1>1, <1>2, PTL DEF Spec, KeepsTheBook, Book!BookSpec
=============================================================================

------------------------- MODULE PosManagerStepProofs -------------------------
(***************************************************************************)
(* Step properties of PosManager for every value of the constants.  Two of *)
(* them rest on ticket numbers being new ones, and hold when handlers are  *)
(* not cut short and every write reaches the disk (AtomicHandlers).        *)
(* Without it a number can be given out twice: see the README, section 4.  *)
(***************************************************************************)
EXTENDS PosManagerProofs

AtomicHandlers == ~TornHandlers /\ MaxFailures = 0

\* The placeholder of a missing row is not taken for a report.  TLC cannot
\* evaluate this of a model value, so it is a hypothesis and no ASSUME.
NoRowIsNoReport == NoRow \notin ReportOf(Ticket)

\* A write gives no ticket a number above n, and saves n as the last one.
Numbered(w, n) ==
  /\ w.op = "save_ticket" => w.id <= n
  /\ w.op = "save_phone_order" => w.row.tid <= n
  /\ (w.op = "save_seq" /\ w.name = "ticket") => w.value = n

LastNumber == IF up THEN seq["ticket"] ELSE db.seq["ticket"]

\* The last number is saved, or is the last thing the operation will save.
LastIsSaved ==
  \/ db.seq["ticket"] = seq["ticket"]
  \/ pending # <<>> /\ pending[Len(pending)] = SaveSeq("ticket", seq["ticket"])

\* The inductive invariant: no number in use is above the last one.
FInv ==
  /\ \A i \in 1..Len(pending) : Numbered(pending[i], seq["ticket"])
  /\ \A id \in Ids : IdIsInUse(id) => id <= LastNumber
  /\ up => LastIsSaved
  /\ ~up => pending = <<>>

LEMMA IdsAreNumbers == Ids \subseteq Nat /\ "ticket" \in SeqNames
  BY BoundsAssumption DEF Ids, SeqNames

\* While the daemon is idle its tickets and orders have numbers given out.
LEMMA NumbersGivenOut ==
  ASSUME IInv, FInv, Ready
  PROVE  /\ seq["ticket"] \in Nat /\ db.seq["ticket"] = seq["ticket"]
         /\ \A id \in Ids : tickets[id] # NoRow => id <= seq["ticket"]
         /\ \A oid \in Oids : orders[oid] # NoRow =>
              orders[oid].tid \in Ids /\ orders[oid].tid <= seq["ticket"]
<1>1. seq["ticket"] \in Nat
  BY IInvParts, IdsAreNumbers DEF Memory
<1>2. db.seq["ticket"] = seq["ticket"]
  BY DEF FInv, LastIsSaved, Ready
<1>3. \A id \in Ids : tickets[id] # NoRow => id <= seq["ticket"]
  BY DEF FInv, IdIsInUse, InMemory, LastNumber, Ready
<1>4. ASSUME NEW oid \in Oids, orders[oid] # NoRow
      PROVE  orders[oid].tid \in Ids /\ orders[oid].tid <= seq["ticket"]
  <2>1. orders[oid].tid \in Ids
    BY <1>4, IInvParts DEF Memory, PhoneOrderOf
  <2>2. IdIsInUse(orders[oid].tid)
    BY <1>4 DEF IdIsInUse, InAnOrder
  <2>3. QED
    BY <2>1, <2>2 DEF FInv, LastNumber, Ready
<1>5. QED
  BY <1>1, <1>2, <1>3, <1>4

\* An operation that gives out no number keeps the invariant when its tickets,
\* orders and writes have numbers given out before.
LEMMA OperationNumbers ==
  ASSUME IInv, FInv, Ready, NEW S, NEW ws \in Seq(S),
         \A w \in S : Numbered(w, seq["ticket"]),
         Writes(ws), seq'["ticket"] = seq["ticket"],
         \A id \in Ids : tickets'[id] # NoRow => id <= seq["ticket"],
         \A oid \in Oids : orders'[oid] # NoRow => orders'[oid].tid <= seq["ticket"]
  PROVE  FInv'
<1>1. pending' = ws /\ db' = db /\ up' /\ up
  BY DEF Writes, Ready
<1>2. \A i \in 1..Len(ws) : ws[i] \in S
  OBVIOUS
<1>3. (\A i \in 1..Len(pending) : Numbered(pending[i], seq["ticket"]))'
  BY <1>1, <1>2 DEF Numbered
<1>4. LastIsSaved'
  BY <1>1, NumbersGivenOut DEF LastIsSaved
<1>5. ASSUME NEW id \in Ids, IdIsInUse(id)' PROVE id <= seq["ticket"]
  <2>1. CASE tickets'[id] # NoRow
    BY <2>1
  <2>2. CASE db.tickets[id] # NoRow
    BY <1>1, <2>2 DEF FInv, IdIsInUse, LastNumber
  <2>3. CASE \E oid \in Oids : orders'[oid] # NoRow /\ orders'[oid].tid = id
    BY <2>3
  <2>4. CASE \E oid \in Oids : db.orders[oid] # NoRow /\ db.orders[oid].tid = id
    BY <1>1, <2>4 DEF FInv, IdIsInUse, InAnOrder, LastNumber
  <2>5. QED
    BY <1>1, <1>5, <2>1, <2>2, <2>3, <2>4 DEF IdIsInUse, InMemory, InAnOrder
<1>6. QED
  BY <1>1, <1>3, <1>4, <1>5 DEF FInv, LastNumber

LEMMA StoreNumbers ==
  ASSUME IInv, FInv, Ready, NEW id \in Ids, id <= seq["ticket"], NEW t, Store(id, t)
  PROVE  FInv'
<1> DEFINE w == SaveTicket(id, t)
<1>1. /\ tickets' = [tickets EXCEPT ![id] = t]
      /\ Writes(<<w>>) /\ UNCHANGED <<orders, seq>>
  BY DEF Store
<1>2. Numbered(w, seq["ticket"])
  BY DEF Numbered, SaveTicket
<1> HIDE DEF w
<1>3. <<w>> \in Seq({w})
  OBVIOUS
<1>4. \A i \in Ids : tickets'[i] # NoRow => i <= seq["ticket"]
  BY <1>1, NumbersGivenOut, IInvParts DEF Memory
<1>5. \A oid \in Oids : orders'[oid] # NoRow => orders'[oid].tid <= seq["ticket"]
  BY <1>1, NumbersGivenOut
<1> DEFINE S == {w}
<1>6. <<w>> \in Seq(S) /\ \A x \in S : Numbered(x, seq["ticket"])
  BY <1>2, <1>3
<1> HIDE DEF S
<1>7. QED
  BY <1>1, <1>4, <1>5, <1>6, OperationNumbers

-----------------------------------------------------------------------------
(* Operations *)

\* The operations that end in storing the ticket they were called for.
LEMMA TicketOpsStore ==
  ASSUME NEW id \in Ids, TicketOps(id)
  PROVE  /\ Ready
         /\ \/ InMemory(id) /\ \E t : Store(id, t)
            \/ \E legs \in Payments, fee \in CardFees : CheckoutRefused(id, legs, fee)
            \/ /\ ~InMemory(id)
               /\ Writes(<<SetTicketPrinted(id, TRUE)>>) /\ UNCHANGED memory
            \/ CreatePhoneOrder(id)
<1>1. ASSUME NEW key \in LineKeys, NEW qty \in 1..MaxQty, AddItem(id, key, qty)
      PROVE  Ready /\ InMemory(id) /\ \E t : Store(id, t)
  BY <1>1 DEF AddItem, EditLines, IsOpen
<1>2. ASSUME NEW i \in 1..MaxLines, RemoveItem(id, i) \/ DecreaseItem(id, i)
      PROVE  Ready /\ InMemory(id) /\ \E t : Store(id, t)
  BY <1>2 DEF RemoveItem, DecreaseItem, EditLines, IsOpen
<1>3. ASSUME NEW i \in 1..MaxLines, NEW key \in LineKeys, UpdateItem(id, i, key)
      PROVE  Ready /\ InMemory(id) /\ \E t : Store(id, t)
  BY <1>3 DEF UpdateItem, EditLines, IsOpen
<1>4. ASSUME NEW legs \in Payments, NEW fee \in CardFees, Checkout(id, legs, fee)
      PROVE  Ready /\ InMemory(id) /\ \E t : Store(id, t)
  BY <1>4 DEF Checkout, IsOpen
<1>5. ASSUME NEW legs \in Payments, NEW fee \in CardFees, CheckoutRefused(id, legs, fee)
      PROVE  Ready
  BY <1>5 DEF CheckoutRefused
<1>6. CASE VoidTicket(id) \/ CompTicket(id) \/ RefundTicket(id)
  BY <1>6 DEF VoidTicket, CompTicket, RefundTicket, Settle
<1>7. CASE MarkTicketPrinted(id)
  BY <1>7 DEF MarkTicketPrinted
<1>8. CASE CreatePhoneOrder(id)
  BY <1>8 DEF CreatePhoneOrder
<1>9. QED
  BY <1>1, <1>2, <1>3, <1>4, <1>5, <1>6, <1>7, <1>8 DEF TicketOps

LEMMA CreatePhoneOrderNumbers ==
  ASSUME IInv, FInv, NEW id \in Ids, CreatePhoneOrder(id)
  PROVE  FInv'
<1> DEFINE oid == seq["phone_order"] + 1
           po  == [tid |-> id, ticket |-> tickets[id], status |-> "HOLDING"]
           row == [tid |-> po.tid, status |-> po.status]
           S   == {DeleteTicket(id), SaveTicket(id, tickets[id]),
                   SaveOrderRow(oid, row), SaveSeq("phone_order", oid)}
           ws  == <<DeleteTicket(id)>> \o SavePhoneOrder(oid, po)
                    \o <<SaveSeq("phone_order", oid)>>
<1>1. /\ Ready /\ InMemory(id) /\ Writes(ws)
      /\ seq' = [seq EXCEPT !["phone_order"] = oid]
      /\ orders' = [orders EXCEPT ![oid] = po]
      /\ tickets' = [tickets EXCEPT ![id] = NoRow]
  BY DEF CreatePhoneOrder, IsOpen
<1>2. id <= seq["ticket"]
  BY <1>1, NumbersGivenOut DEF InMemory
<1>3. ws \in Seq(S)
  <2>1. SavePhoneOrder(oid, po) = <<SaveTicket(id, tickets[id]), SaveOrderRow(oid, row)>>
    BY DEF SavePhoneOrder
  <2> HIDE DEF oid, po, row
  <2>2. SavePhoneOrder(oid, po) \in Seq(S)
    BY <2>1
  <2>3. <<DeleteTicket(id)>> \in Seq(S) /\ <<SaveSeq("phone_order", oid)>> \in Seq(S)
    OBVIOUS
  <2> HIDE DEF S
  <2>4. QED
    BY <2>2, <2>3, ConcatProperties
<1>4. \A w \in S : Numbered(w, seq["ticket"])
  BY <1>2 DEF Numbered, DeleteTicket, SaveTicket, SaveOrderRow, SaveSeq
<1>5. seq'["ticket"] = seq["ticket"]
  BY <1>1, IInvParts DEF Memory
<1>6. \A i \in Ids : tickets'[i] # NoRow => i <= seq["ticket"]
  BY <1>1, NumbersGivenOut, IInvParts DEF Memory
<1>7. \A o \in Oids : orders'[o] # NoRow => orders'[o].tid <= seq["ticket"]
  BY <1>1, <1>2, NumbersGivenOut, IInvParts DEF Memory
<1> HIDE DEF S, ws
<1>8. QED
  BY <1>1, <1>3, <1>4, <1>5, <1>6, <1>7, OperationNumbers

LEMMA TicketOpsNumbers ==
  ASSUME IInv, FInv, NEW id \in Ids, TicketOps(id)
  PROVE  FInv'
<1>1. Ready
  BY TicketOpsStore
<1>2. ASSUME InMemory(id), NEW t, Store(id, t) PROVE FInv'
  BY <1>1, <1>2, NumbersGivenOut, StoreNumbers DEF InMemory
<1>3. ASSUME NEW legs \in Payments, NEW fee \in CardFees, CheckoutRefused(id, legs, fee)
      PROVE  FInv'
  <2>1. /\ tickets' = [tickets EXCEPT ![id].fee = fee] /\ tickets[id] # NoRow
        /\ Writes(<<>>) /\ UNCHANGED <<orders, seq>>
    BY <1>3 DEF CheckoutRefused, IsOpen, InMemory
  <2>2. \A i \in Ids : tickets'[i] # NoRow => i <= seq["ticket"]
    BY <1>1, <2>1, NumbersGivenOut, IInvParts DEF Memory
  <2>3. \A oid \in Oids : orders'[oid] # NoRow => orders'[oid].tid <= seq["ticket"]
    BY <1>1, <2>1, NumbersGivenOut
  <2> DEFINE S == {}
             ws == <<>>
  <2>4. ws \in Seq(S) /\ \A w \in S : Numbered(w, seq["ticket"])
    OBVIOUS
  <2>5. Writes(ws) /\ seq'["ticket"] = seq["ticket"]
    BY <2>1
  <2> HIDE DEF S, ws
  <2>6. QED
    BY <1>1, <2>2, <2>3, <2>4, <2>5, OperationNumbers
<1>4. CASE Writes(<<SetTicketPrinted(id, TRUE)>>) /\ UNCHANGED memory
  <2> DEFINE w == SetTicketPrinted(id, TRUE)
             S == {w}
  <2>1. <<w>> \in Seq(S)
    <3> HIDE DEF w
    <3>1. QED
      OBVIOUS
  <2>2. \A x \in S : Numbered(x, seq["ticket"])
    BY DEF Numbered, SetTicketPrinted
  <2>3. \A i \in Ids : tickets'[i] # NoRow => i <= seq["ticket"]
    BY <1>1, <1>4, NumbersGivenOut DEF memory
  <2>4. \A oid \in Oids : orders'[oid] # NoRow => orders'[oid].tid <= seq["ticket"]
    BY <1>1, <1>4, NumbersGivenOut DEF memory
  <2>5. seq'["ticket"] = seq["ticket"] /\ Writes(<<w>>)
    BY <1>4 DEF memory
  <2> HIDE DEF S, w
  <2>6. QED
    BY <1>1, <2>1, <2>2, <2>3, <2>4, <2>5, OperationNumbers
<1>5. CASE CreatePhoneOrder(id)
  BY <1>5, CreatePhoneOrderNumbers
<1>6. QED
  BY <1>2, <1>3, <1>4, <1>5, TicketOpsStore

LEMMA NewTicketNumbers ==
  ASSUME IInv, FInv, NewTicket
  PROVE  FInv'
<1> DEFINE n == seq["ticket"] + 1
<1>1. /\ Ready /\ up' /\ db' = db
      /\ seq' = [seq EXCEPT !["ticket"] = n]
      /\ tickets' = [tickets EXCEPT ![n] = EmptyTicket]
      /\ pending' = <<SaveTicket(n, EmptyTicket), SaveSeq("ticket", n)>>
      /\ orders' = orders
  BY DEF NewTicket, Writes, Ready
<1>2. seq["ticket"] \in Nat /\ seq'["ticket"] = n /\ n > seq["ticket"]
  BY <1>1, NumbersGivenOut, IInvParts, IdsAreNumbers DEF Memory
<1>3. \A w \in {SaveTicket(n, EmptyTicket), SaveSeq("ticket", n)} : Numbered(w, n)
  BY <1>2 DEF Numbered, SaveTicket, SaveSeq
<1>4. LastIsSaved'
  BY <1>1, <1>2 DEF LastIsSaved
<1>5. ASSUME NEW id \in Ids, IdIsInUse(id)' PROVE id <= n
  <2>1. CASE id = n
    BY <2>1, <1>2
  <2>2. CASE id # n
    <3>1. tickets'[id] = tickets[id]
      BY <1>1, <2>2, IInvParts DEF Memory
    <3>2. IdIsInUse(id)
      BY <1>1, <1>5, <3>1 DEF IdIsInUse, InMemory, InAnOrder
    <3>3. id <= seq["ticket"]
      BY <1>1, <3>2 DEF FInv, LastNumber, Ready
    <3>4. QED
      BY <1>2, <3>3, IdsAreNumbers
  <2>3. QED
    BY <2>1, <2>2
<1> HIDE DEF n
<1>6. (\A i \in 1..Len(pending) : Numbered(pending[i], seq["ticket"]))'
  BY <1>1, <1>2, <1>3
<1>7. QED
  BY <1>1, <1>2, <1>4, <1>5, <1>6 DEF FInv, LastNumber

LEMMA EndDayNumbers ==
  ASSUME IInv, FInv, EndDay
  PROVE  FInv'
<1> DEFINE z == ClosedOn(today)
           gone == {id \in Ids : Deletable(id)}
           S == {DeleteTicket(id) : id \in Ids} \cup {SaveReport(today, z)}
<1>1. PICK order \in SetToSeqs(gone) :
        Writes([i \in DOMAIN order |-> DeleteTicket(order[i])] \o <<SaveReport(today, z)>>)
  BY DEF EndDay
<1>2. /\ tickets' = [id \in Ids |-> IF id \in gone THEN NoRow ELSE tickets[id]]
      /\ UNCHANGED <<orders, seq>> /\ Ready
  BY DEF EndDay
<1>3. [i \in DOMAIN order |-> DeleteTicket(order[i])] \in Seq(S)
  <2>1. order \in [1..Cardinality(gone) -> gone]
    BY <1>1 DEF SetToSeqs
  <2>2. IsFiniteSet(gone)
    <3>1. IsFiniteSet(Ids)
      BY BoundsAssumption, FS_Interval DEF Ids
    <3>2. QED
      BY <3>1, FS_Subset
  <2>3. Cardinality(gone) \in Nat
    BY <2>2, FS_CardinalityType
  <2>4. \A i \in 1..Cardinality(gone) : DeleteTicket(order[i]) \in S
    BY <2>1
  <2> HIDE DEF gone, S
  <2>5. QED
    BY <2>1, <2>3, <2>4
<1>4. <<SaveReport(today, z)>> \in Seq(S)
  <2> DEFINE w == SaveReport(today, z)
  <2>1. w \in S
    OBVIOUS
  <2> HIDE DEF w, S
  <2>2. <<w>> \in Seq(S)
    BY <2>1
  <2>3. QED
    BY <2>2 DEF w
<1>5. \A w \in S : Numbered(w, seq["ticket"])
  BY DEF Numbered, DeleteTicket, SaveReport
<1> DEFINE ws == [i \in DOMAIN order |-> DeleteTicket(order[i])] \o <<SaveReport(today, z)>>
<1>6. \A id \in Ids : tickets'[id] # NoRow => id <= seq["ticket"]
  BY <1>2, NumbersGivenOut
<1>7. \A oid \in Oids : orders'[oid] # NoRow => orders'[oid].tid <= seq["ticket"]
  BY <1>2, NumbersGivenOut
<1> HIDE DEF S, z, gone
<1>8. ws \in Seq(S) /\ Writes(ws)
  BY <1>1, <1>3, <1>4, ConcatProperties
<1> HIDE DEF ws
<1>9. QED
  BY <1>2, <1>5, <1>6, <1>7, <1>8, OperationNumbers

\* CHECKOUT and CANCEL: the order is replaced by po, and saved after ws.
LEMMA OrderNumbers ==
  ASSUME IInv, FInv, Ready, NEW oid \in Oids, orders[oid] # NoRow,
         NEW id, id = orders[oid].tid, NEW po, po.tid = id,
         NEW t, NEW ws \in {<<>>, <<SaveTicket(id, t)>>},
         Writes(ws \o SavePhoneOrder(oid, po)),
         orders' = [orders EXCEPT ![oid] = po], seq' = seq,
         \A i \in Ids : tickets'[i] # NoRow => i <= seq["ticket"]
  PROVE  FInv'
<1> DEFINE row == [tid |-> po.tid, status |-> po.status]
           S   == {SaveTicket(id, t), SaveTicket(id, po.ticket), SaveOrderRow(oid, row)}
<1>1. id \in Ids /\ id <= seq["ticket"]
  BY NumbersGivenOut
<1>2. \A w \in S : Numbered(w, seq["ticket"])
  BY <1>1 DEF Numbered, SaveTicket, SaveOrderRow
<1>3. SavePhoneOrder(oid, po) = <<SaveTicket(id, po.ticket), SaveOrderRow(oid, row)>>
  BY DEF SavePhoneOrder
<1>4. \A o \in Oids : orders'[o] # NoRow => orders'[o].tid <= seq["ticket"]
  <2>1. orders'[oid] = po
    BY IInvParts DEF Memory
  <2>2. \A o \in Oids \ {oid} : orders'[o] = orders[o]
    BY IInvParts DEF Memory
  <2>3. QED
    BY <1>1, <2>1, <2>2, NumbersGivenOut
<1> HIDE DEF row
<1>5. ws \in Seq(S)
  <2> DEFINE w == SaveTicket(id, t)
  <2>1. (ws = <<>> \/ ws = <<w>>) /\ w \in S
    OBVIOUS
  <2> HIDE DEF w, S
  <2>2. <<>> \in Seq(S) /\ (w \in S => <<w>> \in Seq(S))
    OBVIOUS
  <2>3. QED
    BY <2>1, <2>2, Zenon
<1>6. SavePhoneOrder(oid, po) \in Seq(S)
  <2> DEFINE v == SaveTicket(id, po.ticket)
             w == SaveOrderRow(oid, row)
  <2>1. SavePhoneOrder(oid, po) = <<v, w>> /\ v \in S /\ w \in S
    BY <1>3
  <2> HIDE DEF v, w, S
  <2>2. QED
    BY <2>1
<1> DEFINE all == ws \o SavePhoneOrder(oid, po)
<1> HIDE DEF S
<1>7. all \in Seq(S) /\ Writes(all)
  BY <1>5, <1>6, ConcatProperties
<1> HIDE DEF all
<1>8. QED
  BY <1>2, <1>4, <1>7, OperationNumbers

LEMMA PhoneOpsNumbers ==
  ASSUME IInv, FInv, NEW oid \in Oids, PhoneOps(oid)
  PROVE  FInv'
<1> DEFINE id == orders[oid].tid
<1>1. Ready /\ Holding(oid) /\ id \in Ids /\ id <= seq["ticket"]
  <2>1. Ready /\ Holding(oid)
    BY DEF PhoneOps, PhoneCheckout, PhoneCancel, PhoneEdit
  <2>2. QED
    BY <2>1, NumbersGivenOut DEF Holding
<1>2. CASE PhoneCheckout(oid)
  <2> DEFINE po == [orders[oid] EXCEPT !.status = "COMPLETED"]
             ws == <<SaveTicket(id, Reopened(po))>>
  <2>1. po.tid = id
    BY <1>1, HoldingShape DEF PhoneOrderOf
  <2>2. /\ tickets' = [tickets EXCEPT ![id] = Reopened(po)]
        /\ orders' = [orders EXCEPT ![oid] = po] /\ seq' = seq
        /\ Writes(ws \o SavePhoneOrder(oid, po))
    BY <1>2, <2>1 DEF PhoneCheckout
  <2>3. \A i \in Ids : tickets'[i] # NoRow => i <= seq["ticket"]
    BY <1>1, <2>2, NumbersGivenOut, IInvParts DEF Memory
  <2>4. ws \in {<<>>, <<SaveTicket(id, Reopened(po))>>} /\ orders[oid] # NoRow
    BY <1>1 DEF Holding
  <2> HIDE DEF ws, po
  <2>5. QED
    BY <1>1, <2>1, <2>2, <2>3, <2>4, OrderNumbers
<1>3. CASE PhoneCancel(oid)
  <2> DEFINE po == [orders[oid] EXCEPT !.status = "CANCELLED"]
             ws == <<>>
  <2>1. /\ orders' = [orders EXCEPT ![oid] = po] /\ UNCHANGED <<tickets, seq>>
        /\ Writes(SavePhoneOrder(oid, po))
    BY <1>3 DEF PhoneCancel
  <2>2. ws \o SavePhoneOrder(oid, po) = SavePhoneOrder(oid, po)
    BY DEF SavePhoneOrder
  <2>3. \A i \in Ids : tickets'[i] # NoRow => i <= seq["ticket"]
    BY <1>1, <2>1, NumbersGivenOut
  <2>4. ws \in {<<>>, <<SaveTicket(id, EmptyTicket)>>} /\ orders[oid] # NoRow
    BY <1>1 DEF Holding
  <2>5. po.tid = id
    BY <1>1, HoldingShape DEF PhoneOrderOf
  <2> HIDE DEF ws, po
  <2>6. QED
    BY <1>1, <2>1, <2>2, <2>3, <2>4, <2>5, OrderNumbers
<1>4. CASE PhoneEdit(oid)
  <2>1. Store(id, Reopened(orders[oid]))
    BY <1>4 DEF PhoneEdit
  <2> HIDE DEF id
  <2>2. QED
    BY <1>1, <2>1, StoreNumbers
<1>5. QED
  BY <1>2, <1>3, <1>4 DEF PhoneOps

LEMMA SetTaxRateNumbers ==
  ASSUME IInv, FInv, NEW bps \in TaxRates, SetTaxRate(bps)
  PROVE  FInv'
<1> DEFINE w == SaveTaxRate(bps)
           S == {w}
<1>1. Ready /\ Writes(<<w>>) /\ UNCHANGED <<tickets, orders, seq>>
  BY DEF SetTaxRate
<1>2. \A x \in S : Numbered(x, seq["ticket"])
  BY DEF Numbered, SaveTaxRate
<1> HIDE DEF w
<1>3. <<w>> \in Seq(S)
  OBVIOUS
<1> HIDE DEF S
<1>4. QED
  BY <1>1, <1>2, <1>3, NumbersGivenOut, OperationNumbers

-----------------------------------------------------------------------------
(* Commits, crashes and the invariant *)

\* Which rows a commit brings into the tables, and what it does to the numbers.
LEMMA ApplyNumbers ==
  ASSUME IInv, NEW w \in GoodWrite, NEW n \in Nat, Numbered(w, n)
  PROVE  /\ \A id \in Ids : Apply(db, w).tickets[id] # NoRow =>
              db.tickets[id] # NoRow \/ id <= n
         /\ \A oid \in Oids : Apply(db, w).orders[oid] # NoRow =>
              \/ db.orders[oid] # NoRow /\ Apply(db, w).orders[oid].tid = db.orders[oid].tid
              \/ Apply(db, w).orders[oid].tid <= n
         /\ Apply(db, w).seq["ticket"] =
              IF w.op = "save_seq" /\ w.name = "ticket" THEN n ELSE db.seq["ticket"]
<1>1. db \in GoodTables
  BY IInvParts DEF Frame
<1>2. /\ db.tickets \in [Ids -> GoodRow \cup {NoRow}]
      /\ db.orders \in [Oids -> OrderRow \cup {NoRow}]
      /\ db.seq \in [SeqNames -> Nat]
  BY <1>1 DEF GoodTables, TablesOf
<1>3. CASE w.op = "save_ticket"
  <2>1. w.id \in Ids /\ w.id <= n
    BY <1>3, WriteFields DEF Numbered
  <2>2. Apply(db, w) = [db EXCEPT !.tickets[w.id] = Row(w.ticket)]
    BY <1>3 DEF Apply
  <2> DEFINE r == Row(w.ticket)
  <2>3. Apply(db, w) = [db EXCEPT !.tickets[w.id] = r]
    BY <2>2
  <2> HIDE DEF r
  <2>4. /\ Apply(db, w).tickets = [db.tickets EXCEPT ![w.id] = r]
        /\ Apply(db, w).orders = db.orders /\ Apply(db, w).seq = db.seq
    BY <1>1, <2>3 DEF GoodTables, TablesOf
  <2>5. QED
    BY <1>2, <1>3, <2>1, <2>4
<1>4. CASE w.op = "delete_ticket"
  <2>1. w.id \in Ids
    BY <1>4, WriteFields
  <2>2. Apply(db, w) = [db EXCEPT !.tickets[w.id] = NoRow]
    BY <1>4 DEF Apply
  <2>3. /\ Apply(db, w).tickets = [db.tickets EXCEPT ![w.id] = NoRow]
        /\ Apply(db, w).orders = db.orders /\ Apply(db, w).seq = db.seq
    BY <1>1, <2>2 DEF GoodTables, TablesOf
  <2>4. QED
    BY <1>2, <1>4, <2>1, <2>3
<1>5. CASE w.op = "set_ticket_printed"
  <2>1. w.id \in Ids
    BY <1>5, WriteFields
  <2>2. CASE db.tickets[w.id] = NoRow
    <3>1. Apply(db, w) = db
      BY <1>5, <2>2 DEF Apply
    <3>2. QED
      BY <1>5, <3>1
  <2>3. CASE db.tickets[w.id] # NoRow
    <3> DEFINE r == [db.tickets[w.id] EXCEPT !.printed = w.printed]
    <3>1. Apply(db, w) = [db EXCEPT !.tickets[w.id] = r]
      BY <1>5, <2>3 DEF Apply
    <3> HIDE DEF r
    <3>2. /\ Apply(db, w).tickets = [db.tickets EXCEPT ![w.id] = r]
          /\ Apply(db, w).orders = db.orders /\ Apply(db, w).seq = db.seq
      BY <1>1, <3>1 DEF GoodTables, TablesOf
    <3>3. QED
      BY <1>2, <1>5, <2>1, <2>3, <3>2
  <2>4. QED
    BY <2>2, <2>3
<1>6. CASE w.op = "save_phone_order"
  <2>1. w.oid \in Oids /\ w.row \in OrderRow /\ w.row.tid <= n
    BY <1>6, WriteFields DEF Numbered
  <2>2. CASE db.orders[w.oid] = NoRow
    <3>1. Apply(db, w) = [db EXCEPT !.orders[w.oid] = w.row]
      BY <1>6, <2>2 DEF Apply
    <3>2. /\ Apply(db, w).orders = [db.orders EXCEPT ![w.oid] = w.row]
          /\ Apply(db, w).tickets = db.tickets /\ Apply(db, w).seq = db.seq
      BY <1>1, <3>1 DEF GoodTables, TablesOf
    <3>3. QED
      BY <1>2, <1>6, <2>1, <3>2
  <2>3. CASE db.orders[w.oid] # NoRow
    <3> DEFINE r == [db.orders[w.oid] EXCEPT !.status = w.row.status]
    <3>1. Apply(db, w) = [db EXCEPT !.orders[w.oid] = r]
      BY <1>6, <2>3 DEF Apply
    <3>2. r.tid = db.orders[w.oid].tid
      BY <1>2, <2>1, <2>3 DEF OrderRow
    <3> HIDE DEF r
    <3>3. /\ Apply(db, w).orders = [db.orders EXCEPT ![w.oid] = r]
          /\ Apply(db, w).tickets = db.tickets /\ Apply(db, w).seq = db.seq
      BY <1>1, <3>1 DEF GoodTables, TablesOf
    <3>4. QED
      BY <1>2, <1>6, <2>1, <2>3, <3>2, <3>3
  <2>4. QED
    BY <2>2, <2>3
<1>7. CASE w.op = "save_seq"
  <2>1. w.name \in SeqNames /\ (w.name = "ticket" => w.value = n)
    BY <1>7, WriteFields DEF Numbered
  <2>2. Apply(db, w) = [db EXCEPT !.seq[w.name] = w.value]
    BY <1>7 DEF Apply
  <2>3. /\ Apply(db, w).seq = [db.seq EXCEPT ![w.name] = w.value]
        /\ Apply(db, w).tickets = db.tickets /\ Apply(db, w).orders = db.orders
    BY <1>1, <2>2 DEF GoodTables, TablesOf
  <2>4. QED
    BY <1>2, <1>7, <2>1, <2>3, IdsAreNumbers
<1>8. CASE w.op = "save_report"
  <2>1. Apply(db, w) = [db EXCEPT !.reports[w.date] = w.report]
    BY <1>8 DEF Apply
  <2>2. /\ Apply(db, w).tickets = db.tickets
        /\ Apply(db, w).orders = db.orders /\ Apply(db, w).seq = db.seq
    BY <1>1, <2>1 DEF GoodTables, TablesOf
  <2>3. QED
    BY <1>8, <2>2
<1>9. CASE w.op = "save_setting"
  <2>1. Apply(db, w) = [db EXCEPT !.taxRate = w.bps]
    BY <1>9 DEF Apply
  <2>2. /\ Apply(db, w).tickets = db.tickets
        /\ Apply(db, w).orders = db.orders /\ Apply(db, w).seq = db.seq
    BY <1>1, <2>1 DEF GoodTables, TablesOf
  <2>3. QED
    BY <1>9, <2>2
<1>10. QED
  BY <1>3, <1>4, <1>5, <1>6, <1>7, <1>8, <1>9, WriteFields

LEMMA CommitNumbers ==
  ASSUME IInv, FInv, CommitWrite
  PROVE  FInv'
<1> DEFINE n == seq["ticket"]
           w == Head(pending)
<1>1. /\ up /\ up' /\ pending # <<>> /\ db' = Apply(db, w) /\ pending' = Tail(pending)
      /\ tickets' = tickets /\ orders' = orders /\ seq' = seq
  BY DEF CommitWrite, memory
<1>2. n \in Nat
  BY IInvParts, IdsAreNumbers DEF Memory
<1>3. pending \in Seq(GoodWrite)
  BY IInvParts DEF Frame
<1>4. /\ Len(pending) \in Nat \ {0} /\ w = pending[1] /\ w \in GoodWrite
      /\ Tail(pending) \in Seq(GoodWrite)
      /\ Len(Tail(pending)) = Len(pending) - 1
      /\ \A i \in 1..Len(Tail(pending)) : Tail(pending)[i] = pending[i + 1]
  BY <1>1, <1>3, LenProperties, EmptySeq, HeadTailProperties
<1>5. Numbered(w, n)
  BY <1>4 DEF FInv
<1> HIDE DEF w
<1>6. /\ \A id \in Ids : db'.tickets[id] # NoRow => db.tickets[id] # NoRow \/ id <= n
      /\ \A oid \in Oids : db'.orders[oid] # NoRow =>
           \/ db.orders[oid] # NoRow /\ db'.orders[oid].tid = db.orders[oid].tid
           \/ db'.orders[oid].tid <= n
      /\ db'.seq["ticket"] =
           IF w.op = "save_seq" /\ w.name = "ticket" THEN n ELSE db.seq["ticket"]
  BY <1>1, <1>2, <1>4, <1>5, ApplyNumbers
<1>7. (\A i \in 1..Len(pending) : Numbered(pending[i], seq["ticket"]))'
  <2>1. ASSUME NEW i \in 1..Len(Tail(pending))
        PROVE  Numbered(Tail(pending)[i], n)
    BY <1>4, <2>1 DEF FInv
  <2>2. QED
    BY <1>1, <2>1
<1>8. ASSUME NEW id \in Ids, IdIsInUse(id)' PROVE id <= n
  <2>1. CASE IdIsInUse(id)
    BY <1>1, <2>1 DEF FInv, LastNumber
  <2>2. CASE ~IdIsInUse(id)
    BY <1>1, <1>6, <1>8, <2>2 DEF IdIsInUse, InMemory, InAnOrder
  <2>3. QED
    BY <2>1, <2>2
<1>9. LastIsSaved'
  <2>1. CASE db.seq["ticket"] = n
    BY <1>1, <1>6, <2>1 DEF LastIsSaved
  <2>2. CASE pending[Len(pending)] = SaveSeq("ticket", n) /\ Len(pending) = 1
    <3>1. w.op = "save_seq" /\ w.name = "ticket"
      BY <1>4, <2>2 DEF SaveSeq
    <3>2. QED
      BY <1>1, <1>6, <3>1 DEF LastIsSaved
  <2>3. CASE pending[Len(pending)] = SaveSeq("ticket", n) /\ Len(pending) # 1
    <3>1. Len(Tail(pending)) \in 1..Len(Tail(pending))
      BY <1>4, <2>3
    <3>2. Tail(pending)[Len(Tail(pending))] = pending[Len(pending)]
      BY <1>4, <3>1
    <3>3. Len(Tail(pending)) # 0 /\ Len(<<>>) = 0
      BY <1>4, <2>3
    <3>4. Tail(pending) # <<>>
      BY <3>3
    <3>5. QED
      BY <1>1, <2>3, <3>2, <3>4 DEF LastIsSaved
  <2>4. QED
    BY <1>1, <2>1, <2>2, <2>3 DEF FInv, LastIsSaved
<1>10. QED
  BY <1>1, <1>7, <1>8, <1>9 DEF FInv, LastNumber

\* A crash between two operations forgets no number, and a restart reads back
\* the last one.
LEMMA CrashNumbers ==
  ASSUME AtomicHandlers, IInv, FInv, Crash
  PROVE  FInv'
<1>1. /\ Ready /\ ~up' /\ pending' = <<>> /\ db' = db
      /\ tickets' = [id \in Ids |-> NoRow]
      /\ orders' = [oid \in Oids |-> NoRow]
  BY DEF Crash, AtomicHandlers, Ready
<1>2. ASSUME NEW id \in Ids, IdIsInUse(id)' PROVE id <= db.seq["ticket"]
  <2>1. IdIsInUse(id)
    BY <1>1, <1>2 DEF IdIsInUse, InMemory, InAnOrder
  <2>2. QED
    BY <1>1, <2>1, NumbersGivenOut DEF FInv, LastNumber, Ready
<1>3. (\A i \in 1..Len(pending) : Numbered(pending[i], seq["ticket"]))'
  BY <1>1, EmptySeq
<1>4. QED
  BY <1>1, <1>2, <1>3 DEF FInv, LastNumber

LEMMA RestartNumbers ==
  ASSUME IInv, FInv, Restart
  PROVE  FInv'
<1>1. /\ ~up /\ up' /\ pending' = <<>> /\ db' = db /\ seq' = db.seq
      /\ tickets' = LoadTickets(db) /\ orders' = LoadOrders(db, NoId, EmptyTicket)
  BY DEF Restart, Load, FInv
<1>2. /\ db.tickets \in [Ids -> GoodRow \cup {NoRow}]
      /\ db.orders \in [Oids -> OrderRow \cup {NoRow}]
      /\ db.seq["ticket"] \in Nat
  BY IInvParts, IdsAreNumbers DEF Frame, GoodTables, TablesOf
<1>3. \A id \in Ids : tickets'[id] # NoRow => db.tickets[id] # NoRow
  BY <1>1, <1>2 DEF LoadTickets
<1>4. \A oid \in Oids : orders'[oid] # NoRow =>
        orders'[oid].tid = 0 \/ (db.orders[oid] # NoRow /\ orders'[oid].tid = db.orders[oid].tid)
  <2>1. SUFFICES ASSUME NEW oid \in Oids, orders'[oid] # NoRow
        PROVE orders'[oid].tid = 0 \/ (db.orders[oid] # NoRow /\ orders'[oid].tid = db.orders[oid].tid)
    OBVIOUS
  <2>2. CASE db.orders[oid] = NoRow
    BY <1>1, <1>2, <2>1, <2>2 DEF LoadOrders
  <2>3. CASE db.orders[oid] # NoRow /\ db.tickets[db.orders[oid].tid] = NoRow
    <3>1. orders'[oid] = [tid |-> 0, ticket |-> EmptyTicket, status |-> db.orders[oid].status]
      BY <1>1, <1>2, <2>3 DEF LoadOrders, NoId
    <3>2. QED
      BY <3>1
  <2>4. CASE db.orders[oid] # NoRow /\ db.tickets[db.orders[oid].tid] # NoRow
    <3>1. orders'[oid] = [tid |-> db.orders[oid].tid,
                          ticket |-> Loaded(db.tickets[db.orders[oid].tid]),
                          status |-> db.orders[oid].status]
      BY <1>1, <1>2, <2>4 DEF LoadOrders
    <3>2. QED
      BY <2>4, <3>1
  <2>5. QED
    BY <2>2, <2>3, <2>4
<1>5. ASSUME NEW id \in Ids, IdIsInUse(id)' PROVE id <= db.seq["ticket"]
  <2>1. IdIsInUse(id) \/ id = 0
    BY <1>1, <1>3, <1>4, <1>5 DEF IdIsInUse, InMemory, InAnOrder
  <2>2. QED
    BY <1>1, <1>2, <2>1 DEF FInv, LastNumber
<1>6. (\A i \in 1..Len(pending) : Numbered(pending[i], seq["ticket"]))'
  BY <1>1, EmptySeq
<1>7. QED
  BY <1>1, <1>5, <1>6 DEF FInv, LastNumber, LastIsSaved

LEMMA InitFInv == Init => FInv
<1> SUFFICES ASSUME Init PROVE FInv
  OBVIOUS
<1>1. /\ tickets = [id \in Ids |-> NoRow] /\ orders = [oid \in Oids |-> NoRow]
      /\ db.tickets = [id \in Ids |-> NoRow] /\ db.orders = [oid \in Oids |-> NoRow]
      /\ seq["ticket"] = 0 /\ db.seq["ticket"] = 0 /\ pending = <<>> /\ up
  BY IdsAreNumbers DEF Init, EmptyDb
<1>2. \A id \in Ids : ~IdIsInUse(id)
  BY <1>1 DEF IdIsInUse, InMemory, InAnOrder
<1>3. QED
  BY <1>1, <1>2, EmptySeq DEF FInv, LastIsSaved

\* Every step keeps the numbers in use at or below the last one given out.
LEMMA NextFInv == AtomicHandlers /\ IInv /\ FInv /\ [Next]_vars => FInv'
<1> SUFFICES ASSUME AtomicHandlers, IInv, FInv, [Next]_vars PROVE FInv'
  OBVIOUS
<1>1. CASE NewTicket \/ EndDay
  BY <1>1, NewTicketNumbers, EndDayNumbers
<1>2. ASSUME NEW id \in Ids, TicketOps(id) PROVE FInv'
  BY <1>2, TicketOpsNumbers
<1>3. ASSUME NEW oid \in Oids, PhoneOps(oid) PROVE FInv'
  BY <1>3, PhoneOpsNumbers
<1>4. ASSUME NEW bps \in TaxRates, SetTaxRate(bps) PROVE FInv'
  BY <1>4, SetTaxRateNumbers
<1>5. CASE CommitWrite
  BY <1>5, CommitNumbers
<1>6. CASE WriteFails
  <2>1. failures \in 0..MaxFailures /\ failures < MaxFailures /\ MaxFailures = 0
    BY <1>6, IInvParts DEF WriteFails, Frame, AtomicHandlers
  <2>2. QED
    BY <2>1
<1>7. CASE Crash \/ Restart
  BY <1>7, CrashNumbers, RestartNumbers
<1>8. CASE NextDay \/ UNCHANGED vars
  <2>1. UNCHANGED <<memory, db, pending, up>>
    BY <1>8 DEF NextDay, vars
  <2>2. QED
    BY <2>1 DEF memory, FInv, LastNumber, LastIsSaved, IdIsInUse, InMemory, InAnOrder
<1>9. QED
  BY <1>1, <1>2, <1>3, <1>4, <1>5, <1>6, <1>7, <1>8 DEF Next

LEMMA AlwaysFInv ==
  ASSUME AtomicHandlers
  PROVE  Spec => [](IInv /\ FInv)
<1>1. Init => IInv /\ FInv
  BY InitIInv, InitFInv
<1>2. IInv /\ FInv /\ [Next]_vars => IInv' /\ FInv'
  BY NextIInv, NextFInv
<1>3. QED
  BY <1>1, <1>2, PTL DEF Spec

-----------------------------------------------------------------------------
(* Step properties *)

\* Outside of new_ticket no step gives out a ticket number while the daemon
\* runs.
LEMMA OnlyNewTicketCounts ==
  ASSUME IInv, [Next]_vars, up, up', seq'["ticket"] # seq["ticket"]
  PROVE  NewTicket
<1>1. ASSUME NEW id \in Ids, TicketOps(id) PROVE FALSE
  <2>1. CASE \E t : Store(id, t)
    BY <2>1 DEF Store
  <2>2. CASE \E legs \in Payments, fee \in CardFees : CheckoutRefused(id, legs, fee)
    BY <2>2 DEF CheckoutRefused
  <2>3. CASE UNCHANGED memory
    BY <2>3 DEF memory
  <2>4. CASE CreatePhoneOrder(id)
    BY <2>4, IInvParts DEF CreatePhoneOrder, Memory
  <2>5. QED
    BY <1>1, <2>1, <2>2, <2>3, <2>4, TicketOpsStore
<1>2. ASSUME NEW oid \in Oids, PhoneOps(oid) PROVE FALSE
  BY <1>2 DEF PhoneOps, PhoneCheckout, PhoneCancel, PhoneEdit, Store
<1>3. CASE EndDay
  BY <1>3 DEF EndDay
<1>4. ASSUME NEW bps \in TaxRates, SetTaxRate(bps) PROVE FALSE
  BY <1>4 DEF SetTaxRate
<1>5. CASE CommitWrite \/ WriteFails \/ NextDay \/ UNCHANGED vars
  BY <1>5 DEF CommitWrite, WriteFails, NextDay, vars, memory
<1>6. CASE Crash \/ Restart
  BY <1>6 DEF Crash, Restart
<1>7. QED
  BY <1>1, <1>2, <1>3, <1>4, <1>5, <1>6 DEF Next

\* new_ticket (pos_manager.cpp) never hands out the number of a ticket, row
\* or phone order there is, when no handler is torn and every write succeeds:
\* the sequence is saved by the handler that moves it.
THEOREM NumbersAreFresh ==
  ASSUME AtomicHandlers
  PROVE  Spec => NewIdIsFresh
<1>1. IInv /\ FInv /\ [Next]_vars =>
        [(up /\ up' /\ seq["ticket"] # seq'["ticket"]) => ~IdIsInUse(seq'["ticket"])]_vars
  <2> SUFFICES ASSUME IInv, FInv, [Next]_vars, up, up', seq["ticket"] # seq'["ticket"]
               PROVE  ~IdIsInUse(seq'["ticket"])
    OBVIOUS
  <2>1. NewTicket
    BY OnlyNewTicketCounts
  <2>2. seq["ticket"] \in Nat /\ seq'["ticket"] = seq["ticket"] + 1
        /\ seq["ticket"] < MaxTickets
    BY <2>1, IInvParts, IdsAreNumbers DEF NewTicket, Memory
  <2>3. seq'["ticket"] \in Ids /\ ~(seq'["ticket"] <= seq["ticket"])
    BY <2>2, BoundsAssumption DEF Ids
  <2>4. QED
    BY <2>3 DEF FInv, LastNumber
<1>2. QED
  BY <1>1, AlwaysFInv, PTL DEF Spec, NewIdIsFresh

-----------------------------------------------------------------------------
(* A sale is final *)

\* What SaleIsFinal allows a step to do to a paid ticket.
KeptSale(id) ==
  /\ InMemory(id)'
  /\ Sale(tickets[id])' = Sale(tickets[id])
  /\ tickets[id].status # tickets'[id].status =>
       tickets[id].status = "CLOSED" /\ tickets'[id].status # "OPEN"

ReportedSale(id) ==
  /\ ~InMemory(id)'
  /\ archived'[today] # NoRow
  /\ tickets[id].closed = today => <<id, tickets[id]>> \in archived'[today]

SoldForGood(id) == InMemory(id) /\ tickets[id].status \in Settled /\ ~OnHold(id)

\* A step that leaves the ticket itself alone.
LEMMA UntouchedIsKept ==
  ASSUME NEW id \in Ids, InMemory(id), tickets'[id] = tickets[id]
  PROVE  KeptSale(id)
  BY DEF KeptSale, InMemory, Sale

\* An operation on another ticket.
LEMMA OtherTicketIsKept ==
  ASSUME IInv, NEW id \in Ids, InMemory(id), NEW other, other # id, NEW t,
         tickets' = [tickets EXCEPT ![other] = t]
  PROVE  KeptSale(id)
<1>1. tickets'[id] = tickets[id]
  BY IInvParts DEF Memory
<1>2. QED
  BY <1>1, UntouchedIsKept

\* void, comp, refund and the printed mark: the ticket with another status
\* and the same sale.
LEMMA RestatedIsKept ==
  ASSUME IInv, NEW id \in Ids, InMemory(id), NEW t \in GoodTicket,
         Sale(t) = Sale(tickets[id]),
         t.status # tickets[id].status => tickets[id].status = "CLOSED" /\ t.status # "OPEN",
         Store(id, t)
  PROVE  KeptSale(id)
<1>1. tickets'[id] = t
  BY IInvParts DEF Memory, Store
<1>2. t # NoRow
  BY NoRowAssumption DEF GoodTicket
<1>3. QED
  BY <1>1, <1>2 DEF KeptSale, InMemory, Sale

LEMMA VoidIsKept ==
  ASSUME IInv, NEW id \in Ids, SoldForGood(id), VoidTicket(id)
  PROVE  KeptSale(id)
<1> DEFINE t == [tickets[id] EXCEPT !.status = "VOIDED",
                   !.closed = IF @ = NoDate THEN today ELSE @]
<1>1. tickets[id] \in Ticket /\ Balanced(tickets[id]) /\ tickets[id].status = "CLOSED"
      /\ InMemory(id)
  BY InMemoryShape DEF SoldForGood, VoidTicket, GoodTicket, Settled
<1>2. tickets[id].closed # NoDate
  BY <1>1 DEF Balanced, Settled
<1>3. t = [tickets[id] EXCEPT !.status = "VOIDED"]
  BY <1>1, <1>2 DEF Ticket, TicketOf
<1>4. Store(id, t)
  BY DEF VoidTicket
<1> HIDE DEF t
<1>5. t \in Ticket /\ Balanced(t) /\ t.status = "VOIDED"
  BY <1>1, <1>3 DEF Ticket, TicketOf, Statuses, Balanced, Settled
<1>6. t \in GoodTicket
  BY <1>5 DEF GoodTicket
<1>7. Sale(t) = Sale(tickets[id])
  BY <1>1, <1>3 DEF Sale, Ticket, TicketOf
<1>8. QED
  BY <1>1, <1>4, <1>5, <1>6, <1>7, RestatedIsKept

LEMMA SettleIsKept ==
  ASSUME IInv, NEW id \in Ids, NEW status \in {"COMPED", "REFUNDED"}, Settle(id, status)
  PROVE  KeptSale(id)
<1> DEFINE t == [tickets[id] EXCEPT !.status = status]
<1>1. tickets[id] \in Ticket /\ Balanced(tickets[id]) /\ tickets[id].status = "CLOSED"
      /\ InMemory(id)
  BY InMemoryShape DEF Settle, GoodTicket
<1>2. Store(id, t)
  BY DEF Settle
<1>3. t \in Ticket /\ t.status = status
  BY <1>1 DEF Ticket, TicketOf, Statuses, Settled
<1>4. Balanced(t)
  BY <1>1 DEF Balanced, Settled, Ticket, TicketOf
<1>5. Sale(t) = Sale(tickets[id])
  BY <1>1 DEF Sale, Ticket, TicketOf
<1> HIDE DEF t
<1>6. QED
  BY <1>1, <1>2, <1>3, <1>4, <1>5, RestatedIsKept DEF GoodTicket

LEMMA MarkPrintedIsKept ==
  ASSUME IInv, NEW id \in Ids, SoldForGood(id), MarkTicketPrinted(id)
  PROVE  KeptSale(id)
<1> DEFINE t == [tickets[id] EXCEPT !.printed = TRUE]
<1>1. tickets[id] \in Ticket /\ Balanced(tickets[id]) /\ InMemory(id)
  BY InMemoryShape DEF SoldForGood, GoodTicket
<1>2. Store(id, t)
  BY <1>1 DEF MarkTicketPrinted
<1>3. t \in Ticket /\ t.status = tickets[id].status
  BY <1>1 DEF Ticket, TicketOf
<1>4. Balanced(t)
  BY <1>1 DEF Balanced, Settled, Ticket, TicketOf
<1>5. Sale(t) = Sale(tickets[id])
  BY <1>1 DEF Sale, Ticket, TicketOf
<1> HIDE DEF t
<1>6. QED
  BY <1>1, <1>2, <1>3, <1>4, <1>5, RestatedIsKept DEF GoodTicket

\* Every other operation wants an OPEN ticket, which a paid one is not.
LEMMA TicketOpsKeepSales ==
  ASSUME IInv, NEW id \in Ids, SoldForGood(id), NEW other \in Ids, TicketOps(other)
  PROVE  KeptSale(id)
<1>1. InMemory(id) /\ ~IsOpen(id)
  BY DEF SoldForGood, IsOpen, Settled
<1>2. CASE other # id
  <2>1. (\E t : tickets' = [tickets EXCEPT ![other] = t]) \/ tickets' = tickets
    <3>1. ASSUME NEW legs \in Payments, NEW fee \in CardFees,
                 CheckoutRefused(other, legs, fee)
          PROVE  \E t : tickets' = [tickets EXCEPT ![other] = t]
      <4> DEFINE t == [tickets[other] EXCEPT !.fee = fee]
      <4>1. tickets' = [tickets EXCEPT ![other] = t]
        BY <3>1 DEF CheckoutRefused
      <4> HIDE DEF t
      <4>2. QED
        BY <4>1
    <3>2. CASE CreatePhoneOrder(other)
      BY <3>2 DEF CreatePhoneOrder
    <3>3. QED
      BY <3>1, <3>2, TicketOpsStore DEF Store, memory
  <2>2. QED
    BY <1>1, <1>2, <2>1, OtherTicketIsKept, UntouchedIsKept
<1>3. CASE other = id
  <2>1. CASE VoidTicket(id)
    BY <2>1, VoidIsKept
  <2>2. CASE CompTicket(id) \/ RefundTicket(id)
    BY <2>2, SettleIsKept DEF CompTicket, RefundTicket
  <2>3. CASE MarkTicketPrinted(id)
    BY <2>3, MarkPrintedIsKept
  <2>4. VoidTicket(id) \/ CompTicket(id) \/ RefundTicket(id) \/ MarkTicketPrinted(id)
    BY <1>1, <1>3 DEF TicketOps, AddItem, RemoveItem, DecreaseItem, UpdateItem,
         Checkout, CheckoutRefused, CreatePhoneOrder
  <2>5. QED
    BY <2>1, <2>2, <2>3, <2>4
<1>4. QED
  BY <1>2, <1>3

\* end_day takes a paid ticket out of memory only into the report of its day.
LEMMA EndDayReportsSales ==
  ASSUME NoRowIsNoReport, IInv, NEW id \in Ids, SoldForGood(id), EndDay
  PROVE  KeptSale(id) \/ ReportedSale(id)
<1>1. /\ tickets' = [i \in Ids |-> IF i \in {j \in Ids : Deletable(j)} THEN NoRow ELSE tickets[i]]
      /\ archived' = [archived EXCEPT ![today] = ClosedOn(today)]
  BY DEF EndDay
<1>2. today \in Dates /\ archived'[today] = ClosedOn(today)
  <2>1. today \in Dates
    BY IInvParts, BoundsAssumption DEF Frame, Dates
  <2>2. QED
    BY <1>1, <2>1, IInvParts DEF Memory
<1>3. tickets'[id] = NoRow
  BY <1>1 DEF SoldForGood, Deletable, Settled
<1>4. ClosedOn(today) # NoRow
  <2>1. ClosedOn(today) \in ReportOf(Ticket)
    BY ClosedOnShape DEF ReportOf, GoodTicket
  <2>2. QED
    BY <2>1 DEF NoRowIsNoReport
<1>5. QED
  BY <1>2, <1>3, <1>4 DEF ReportedSale, InMemory, ClosedOn, SoldForGood

LEMMA PhoneOpsKeepSales ==
  ASSUME IInv, NEW id \in Ids, SoldForGood(id), NEW oid \in Oids, PhoneOps(oid)
  PROVE  KeptSale(id)
<1>1. InMemory(id) /\ ~OnHold(id)
  BY DEF SoldForGood
<1>2. Holding(oid)
  BY DEF PhoneOps, PhoneCheckout, PhoneCancel, PhoneEdit
<1>3. orders[oid].tid # id
  BY <1>1, <1>2 DEF OnHold
<1>4. CASE PhoneCheckout(oid)
  <2> DEFINE po == [orders[oid] EXCEPT !.status = "COMPLETED"]
             t == Reopened(po)
  <2>1. po.tid = orders[oid].tid
    BY <1>2, HoldingShape DEF PhoneOrderOf
  <2>2. tickets' = [tickets EXCEPT ![po.tid] = t]
    BY <1>4 DEF PhoneCheckout
  <2> HIDE DEF po, t
  <2>3. QED
    BY <1>1, <1>3, <2>1, <2>2, OtherTicketIsKept
<1>5. CASE PhoneCancel(oid)
  BY <1>1, <1>5, UntouchedIsKept DEF PhoneCancel
<1>6. CASE PhoneEdit(oid)
  BY <1>1, <1>3, <1>6, OtherTicketIsKept DEF PhoneEdit, Store
<1>7. QED
  BY <1>4, <1>5, <1>6 DEF PhoneOps

\* new_ticket puts no empty ticket over a paid one: its number is new.
LEMMA NewTicketKeepsSales ==
  ASSUME IInv, FInv, NEW id \in Ids, SoldForGood(id), NewTicket
  PROVE  KeptSale(id)
<1>1. id <= seq["ticket"]
  BY NumbersGivenOut DEF NewTicket, SoldForGood, InMemory
<1>2. seq["ticket"] + 1 # id
  BY <1>1, IInvParts, IdsAreNumbers DEF Memory
<1>3. tickets' = [tickets EXCEPT ![seq["ticket"] + 1] = EmptyTicket] /\ InMemory(id)
  BY DEF NewTicket, SoldForGood
<1> DEFINE n == seq["ticket"] + 1
<1>4. n # id /\ tickets' = [tickets EXCEPT ![n] = EmptyTicket]
  BY <1>2, <1>3
<1> HIDE DEF n
<1>5. QED
  BY <1>3, <1>4, OtherTicketIsKept

\* What a customer paid is what the book shows: while the daemon runs no
\* operation of pos_manager.cpp changes a sale that no phone order holds, and
\* only end_day takes it away, into the report of its day.
THEOREM SalesAreFinal ==
  ASSUME AtomicHandlers, NoRowIsNoReport
  PROVE  Spec => SaleIsFinal
<1> DEFINE Step == \A id \in Ids :
       (up /\ up' /\ InMemory(id) /\ tickets[id].status \in Settled /\ ~OnHold(id)) =>
         \/ /\ InMemory(id)'
            /\ Sale(tickets[id])' = Sale(tickets[id])
            /\ tickets[id].status # tickets'[id].status =>
                 tickets[id].status = "CLOSED" /\ tickets'[id].status # "OPEN"
         \/ /\ ~InMemory(id)'
            /\ archived'[today] # NoRow
            /\ tickets[id].closed = today => <<id, tickets[id]>> \in archived'[today]
<1>1. IInv /\ FInv /\ [Next]_vars => Step
  <2> SUFFICES ASSUME IInv, FInv, [Next]_vars, up, up', NEW id \in Ids, SoldForGood(id)
               PROVE  KeptSale(id) \/ ReportedSale(id)
    BY DEF SoldForGood, KeptSale, ReportedSale
  <2>1. CASE NewTicket \/ EndDay
    BY <2>1, NewTicketKeepsSales, EndDayReportsSales
  <2>2. ASSUME NEW other \in Ids, TicketOps(other) PROVE KeptSale(id)
    BY <2>2, TicketOpsKeepSales
  <2>3. ASSUME NEW oid \in Oids, PhoneOps(oid) PROVE KeptSale(id)
    BY <2>3, PhoneOpsKeepSales
  <2>4. CASE tickets' = tickets
    BY <2>4, UntouchedIsKept DEF SoldForGood
  <2>5. CASE Crash \/ Restart
    BY <2>5 DEF Crash, Restart
  <2>6. CASE (\E bps \in TaxRates : SetTaxRate(bps)) \/ CommitWrite \/ WriteFails
             \/ NextDay \/ UNCHANGED vars
    BY <2>4, <2>6 DEF SetTaxRate, CommitWrite, WriteFails, NextDay, vars, memory
  <2>7. QED
    BY <2>1, <2>2, <2>3, <2>5, <2>6 DEF Next
<1>2. Step => [Step]_vars
  OBVIOUS
<1>3. QED
  BY <1>1, <1>2, AlwaysFInv, PTL DEF Spec, SaleIsFinal

-----------------------------------------------------------------------------
(* Reports *)

\* The report of a day that is over is not touched by any operation: end_day
\* replaces the report of today only.
THEOREM PastReportsAreKept == Spec => PastReportsStay
<1> DEFINE Step == \A d \in Dates :
       (up /\ up' /\ d # today /\ archived[d] # NoRow) => archived'[d] = archived[d]
<1>1. IInv /\ [Next]_vars => Step
  <2> SUFFICES ASSUME IInv, [Next]_vars, up, up', NEW d \in Dates, d # today
               PROVE  archived'[d] = archived[d]
    OBVIOUS
  <2>1. CASE EndDay
    <3>1. archived' = [archived EXCEPT ![today] = ClosedOn(today)]
      BY <2>1 DEF EndDay
    <3>2. QED
      BY <3>1, IInvParts DEF Memory
  <2>2. CASE archived' = archived
    BY <2>2
  <2>3. ASSUME NEW id \in Ids, TicketOps(id) PROVE archived' = archived
    BY <2>3, TicketOpsStore DEF Store, CheckoutRefused, CreatePhoneOrder, memory
  <2>4. ASSUME NEW oid \in Oids, PhoneOps(oid) PROVE archived' = archived
    BY <2>4 DEF PhoneOps, PhoneCheckout, PhoneCancel, PhoneEdit, Store
  <2>5. CASE Crash \/ Restart
    BY <2>5 DEF Crash, Restart
  <2>6. CASE NewTicket \/ (\E bps \in TaxRates : SetTaxRate(bps)) \/ CommitWrite
             \/ WriteFails \/ NextDay \/ UNCHANGED vars
    BY <2>6 DEF NewTicket, SetTaxRate, CommitWrite, WriteFails, NextDay, vars, memory
  <2>7. QED
    BY <2>1, <2>3, <2>4, <2>5, <2>6 DEF Next
<1>2. Step => [Step]_vars
  OBVIOUS
<1>3. QED
  BY <1>1, <1>2, AlwaysIInv, PTL DEF Spec, PastReportsStay

-----------------------------------------------------------------------------
(* No operation drops an order in progress.  create_phone_order moves the  *)
(* ticket into the hold list under the next phone-order number, so the     *)
(* theorem rests on that number being a new one.                           *)

\* A write gives no phone order a number above n, and saves n as the last one.
OrderNumbered(w, n) ==
  /\ w.op = "save_phone_order" => w.oid <= n
  /\ (w.op = "save_seq" /\ w.name = "phone_order") => w.value = n

LastOrder == IF up THEN seq["phone_order"] ELSE db.seq["phone_order"]

\* The last number is saved, or is the last thing the operation will save.
LastOrderIsSaved ==
  \/ db.seq["phone_order"] = seq["phone_order"]
  \/ pending # <<>> /\ pending[Len(pending)] = SaveSeq("phone_order", seq["phone_order"])

OrderExists(oid) == orders[oid] # NoRow \/ db.orders[oid] # NoRow

\* The inductive invariant: no phone order has a number above the last one.
OInv ==
  /\ \A i \in 1..Len(pending) : OrderNumbered(pending[i], seq["phone_order"])
  /\ \A oid \in Oids : OrderExists(oid) => oid <= LastOrder
  /\ up => LastOrderIsSaved
  /\ ~up => pending = <<>>

LEMMA OidsAreNumbers == Oids \subseteq Nat /\ "phone_order" \in SeqNames
  BY BoundsAssumption DEF Oids, SeqNames

\* While the daemon is idle its orders have numbers given out.
LEMMA OrdersGivenOut ==
  ASSUME IInv, OInv, Ready
  PROVE  /\ seq["phone_order"] \in Nat /\ db.seq["phone_order"] = seq["phone_order"]
         /\ \A oid \in Oids : OrderExists(oid) => oid <= seq["phone_order"]
<1>1. seq["phone_order"] \in Nat
  BY IInvParts, OidsAreNumbers DEF Memory
<1>2. QED
  BY <1>1 DEF OInv, LastOrderIsSaved, LastOrder, Ready

\* An operation that gives out no number keeps the invariant when its orders
\* and writes have numbers given out before.
LEMMA OperationOrders ==
  ASSUME IInv, OInv, Ready, NEW S, NEW ws \in Seq(S),
         \A w \in S : OrderNumbered(w, seq["phone_order"]),
         Writes(ws), seq'["phone_order"] = seq["phone_order"],
         \A oid \in Oids : orders'[oid] # NoRow => OrderExists(oid)
  PROVE  OInv'
<1>1. pending' = ws /\ db' = db /\ up' /\ up
  BY DEF Writes, Ready
<1>2. \A i \in 1..Len(ws) : ws[i] \in S
  OBVIOUS
<1>3. (\A i \in 1..Len(pending) : OrderNumbered(pending[i], seq["phone_order"]))'
  BY <1>1, <1>2 DEF OrderNumbered
<1>4. LastOrderIsSaved'
  BY <1>1, OrdersGivenOut DEF LastOrderIsSaved
<1>5. \A oid \in Oids : OrderExists(oid)' => oid <= seq["phone_order"]
  BY <1>1, OrdersGivenOut DEF OrderExists
<1>6. QED
  BY <1>1, <1>3, <1>4, <1>5 DEF OInv, LastOrder

\* An operation of one write that leaves the orders alone.
LEMMA OneWriteOrders ==
  ASSUME IInv, OInv, Ready, NEW w, OrderNumbered(w, seq["phone_order"]),
         Writes(<<w>>), orders' = orders, seq' = seq
  PROVE  OInv'
<1> DEFINE S == {w}
           ws == <<w>>
<1>1. ws \in Seq(S) /\ \A x \in S : OrderNumbered(x, seq["phone_order"])
  OBVIOUS
<1>2. \A oid \in Oids : orders'[oid] # NoRow => OrderExists(oid)
  BY DEF OrderExists
<1>3. Writes(ws) /\ seq'["phone_order"] = seq["phone_order"]
  OBVIOUS
<1> HIDE DEF S, ws
<1>4. QED
  BY <1>1, <1>2, <1>3, OperationOrders

LEMMA StoreOrders ==
  ASSUME IInv, OInv, Ready, NEW id, NEW t, Store(id, t)
  PROVE  OInv'
<1> DEFINE w == SaveTicket(id, t)
<1>1. Writes(<<w>>) /\ orders' = orders /\ seq' = seq
  BY DEF Store
<1>2. OrderNumbered(w, seq["phone_order"])
  BY DEF OrderNumbered, SaveTicket
<1> HIDE DEF w
<1>3. QED
  BY <1>1, <1>2, OneWriteOrders

-----------------------------------------------------------------------------
(* Operations *)

LEMMA AppendedLast ==
  ASSUME NEW S, NEW ws \in Seq(S), NEW d \in S, NEW s, s = ws \o <<d>>
  PROVE  s # <<>> /\ s[Len(s)] = d /\ \A i \in 1..Len(s) : s[i] \in S
<1>1. Len(s) = Len(ws) + 1 /\ s[Len(ws) + 1] = d
      /\ \A i \in 1..Len(ws) : s[i] = ws[i]
  OBVIOUS
<1>2. s # <<>>
  BY <1>1, EmptySeq
<1>3. \A i \in 1..Len(s) : i \in 1..Len(ws) \/ i = Len(ws) + 1
  BY <1>1
<1>4. QED
  BY <1>1, <1>2, <1>3

LEMMA CreatePhoneOrderOrders ==
  ASSUME IInv, OInv, NEW id \in Ids, CreatePhoneOrder(id)
  PROVE  OInv'
<1> DEFINE n   == seq["phone_order"] + 1
           po  == [tid |-> id, ticket |-> tickets[id], status |-> "HOLDING"]
           row == [tid |-> po.tid, status |-> po.status]
           a   == DeleteTicket(id)
           b   == SaveTicket(id, tickets[id])
           c   == SaveOrderRow(n, row)
           d   == SaveSeq("phone_order", n)
<1>1. /\ Ready /\ up' /\ db' = db
      /\ pending' = <<DeleteTicket(id)>> \o SavePhoneOrder(n, po) \o <<SaveSeq("phone_order", n)>>
      /\ seq' = [seq EXCEPT !["phone_order"] = n]
      /\ orders' = [orders EXCEPT ![n] = po]
  BY DEF CreatePhoneOrder, Writes, Ready
<1>2. SavePhoneOrder(n, po) = <<b, c>>
  BY DEF SavePhoneOrder
<1>3. n \in Nat /\ n > seq["phone_order"] /\ seq'["phone_order"] = n
  BY <1>1, OrdersGivenOut, OidsAreNumbers, IInvParts DEF Memory
<1>4. OrderNumbered(a, n) /\ OrderNumbered(b, n) /\ OrderNumbered(c, n) /\ OrderNumbered(d, n)
  BY <1>3 DEF OrderNumbered, DeleteTicket, SaveTicket, SaveOrderRow, SaveSeq
<1> DEFINE S == {a, b, c, d}
           ws == <<a>> \o <<b, c>>
<1>5. pending' = ws \o <<d>>
  BY <1>1, <1>2
<1>6. \A w \in S : OrderNumbered(w, n)
  BY <1>4
<1>7. d = SaveSeq("phone_order", seq'["phone_order"])
  BY <1>3
<1> HIDE DEF a, b, c, d
<1>8. <<a>> \in Seq(S) /\ <<b, c>> \in Seq(S) /\ d \in S
  OBVIOUS
<1> HIDE DEF S
<1>9. ws \in Seq(S)
  BY <1>8, ConcatProperties
<1> HIDE DEF ws
<1>10. /\ pending' # <<>> /\ pending'[Len(pending')] = d
       /\ \A i \in 1..Len(pending') : pending'[i] \in S
  BY <1>5, <1>8, <1>9, AppendedLast
<1>11. LastOrderIsSaved'
  BY <1>7, <1>10 DEF LastOrderIsSaved
<1>12. (\A i \in 1..Len(pending) : OrderNumbered(pending[i], seq["phone_order"]))'
  BY <1>3, <1>6, <1>10
<1>13. ASSUME NEW oid \in Oids, OrderExists(oid)' PROVE oid <= n
  <2>1. CASE oid = n
    BY <1>3, <2>1
  <2>2. CASE oid # n
    <3>1. orders'[oid] = orders[oid]
      BY <1>1, <2>2, IInvParts DEF Memory
    <3>2. oid <= seq["phone_order"]
      BY <1>1, <1>13, <3>1, OrdersGivenOut DEF OrderExists
    <3>3. QED
      BY <1>3, <3>2, OrdersGivenOut, OidsAreNumbers, <1>1
  <2>3. QED
    BY <2>1, <2>2
<1>14. QED
  BY <1>1, <1>3, <1>11, <1>12, <1>13 DEF OInv, LastOrder

LEMMA TicketOpsOrders ==
  ASSUME IInv, OInv, NEW id \in Ids, TicketOps(id)
  PROVE  OInv'
<1>1. Ready
  BY TicketOpsStore
<1>2. ASSUME NEW t, Store(id, t) PROVE OInv'
  BY <1>1, <1>2, StoreOrders
<1>3. ASSUME NEW legs \in Payments, NEW fee \in CardFees, CheckoutRefused(id, legs, fee)
      PROVE  OInv'
  <2>1. pending' = <<>> /\ db' = db /\ up' /\ orders' = orders /\ seq' = seq
    BY <1>1, <1>3 DEF CheckoutRefused, Writes, Ready
  <2>2. QED
    BY <1>1, <2>1, OrdersGivenOut, EmptySeq
    DEF OInv, LastOrder, LastOrderIsSaved, OrderExists
<1>4. CASE Writes(<<SetTicketPrinted(id, TRUE)>>) /\ UNCHANGED memory
  <2> DEFINE w == SetTicketPrinted(id, TRUE)
  <2>1. OrderNumbered(w, seq["phone_order"])
    BY DEF OrderNumbered, SetTicketPrinted
  <2>2. Writes(<<w>>) /\ orders' = orders /\ seq' = seq
    BY <1>4 DEF memory
  <2> HIDE DEF w
  <2>3. QED
    BY <1>1, <2>1, <2>2, OneWriteOrders
<1>5. CASE CreatePhoneOrder(id)
  BY <1>5, CreatePhoneOrderOrders
<1>6. QED
  BY <1>2, <1>3, <1>4, <1>5, TicketOpsStore

LEMMA NewTicketOrders ==
  ASSUME IInv, OInv, NewTicket
  PROVE  OInv'
<1> DEFINE n == seq["ticket"] + 1
           v == SaveTicket(n, EmptyTicket)
           w == SaveSeq("ticket", n)
           S == {v, w}
           ws == <<v, w>>
<1>1. Ready /\ Writes(ws) /\ orders' = orders /\ seq' = [seq EXCEPT !["ticket"] = n]
  BY DEF NewTicket
<1>2. \A x \in S : OrderNumbered(x, seq["phone_order"])
  BY DEF OrderNumbered, SaveTicket, SaveSeq
<1>3. seq'["phone_order"] = seq["phone_order"]
  BY <1>1, IInvParts DEF Memory
<1> HIDE DEF v, w
<1>4. ws \in Seq(S)
  OBVIOUS
<1>5. \A oid \in Oids : orders'[oid] # NoRow => OrderExists(oid)
  BY <1>1 DEF OrderExists
<1> HIDE DEF S, ws
<1>6. QED
  BY <1>1, <1>2, <1>3, <1>4, <1>5, OperationOrders

LEMMA EndDayOrders ==
  ASSUME IInv, OInv, EndDay
  PROVE  OInv'
<1> DEFINE z == ClosedOn(today)
           gone == {id \in Ids : Deletable(id)}
           S == {DeleteTicket(id) : id \in Ids} \cup {SaveReport(today, z)}
<1>1. PICK order \in SetToSeqs(gone) :
        Writes([i \in DOMAIN order |-> DeleteTicket(order[i])] \o <<SaveReport(today, z)>>)
  BY DEF EndDay
<1>2. UNCHANGED <<orders, seq>> /\ Ready
  BY DEF EndDay
<1>3. [i \in DOMAIN order |-> DeleteTicket(order[i])] \in Seq(S)
  <2>1. order \in [1..Cardinality(gone) -> gone]
    BY <1>1 DEF SetToSeqs
  <2>2. Cardinality(gone) \in Nat
    <3>1. IsFiniteSet(Ids)
      BY BoundsAssumption, FS_Interval DEF Ids
    <3>2. IsFiniteSet(gone)
      BY <3>1, FS_Subset
    <3>3. QED
      BY <3>2, FS_CardinalityType
  <2>3. \A i \in 1..Cardinality(gone) : DeleteTicket(order[i]) \in S
    BY <2>1
  <2> HIDE DEF gone, S
  <2>4. QED
    BY <2>1, <2>2, <2>3
<1>4. <<SaveReport(today, z)>> \in Seq(S)
  <2> DEFINE w == SaveReport(today, z)
  <2>1. w \in S
    OBVIOUS
  <2> HIDE DEF w, S
  <2>2. <<w>> \in Seq(S)
    BY <2>1
  <2>3. QED
    BY <2>2 DEF w
<1>5. \A w \in S : OrderNumbered(w, seq["phone_order"])
  BY DEF OrderNumbered, DeleteTicket, SaveReport
<1> DEFINE ws == [i \in DOMAIN order |-> DeleteTicket(order[i])] \o <<SaveReport(today, z)>>
<1> HIDE DEF S, z, gone
<1>6. ws \in Seq(S) /\ Writes(ws)
  BY <1>1, <1>3, <1>4, ConcatProperties
<1>7. \A oid \in Oids : orders'[oid] # NoRow => OrderExists(oid)
  BY <1>2 DEF OrderExists
<1> HIDE DEF ws
<1>8. QED
  BY <1>2, <1>5, <1>6, <1>7, OperationOrders

\* CHECKOUT and CANCEL: the order is replaced by po, and saved after ws.
LEMMA ReplacedOrderOrders ==
  ASSUME IInv, OInv, Ready, NEW oid \in Oids, orders[oid] # NoRow, NEW po,
         NEW id, NEW t, NEW ws \in {<<>>, <<SaveTicket(id, t)>>},
         Writes(ws \o SavePhoneOrder(oid, po)),
         orders' = [orders EXCEPT ![oid] = po], seq' = seq
  PROVE  OInv'
<1> DEFINE a == SaveTicket(id, t)
           b == SaveTicket(po.tid, po.ticket)
           c == SaveOrderRow(oid, [tid |-> po.tid, status |-> po.status])
           S == {a, b, c}
           all == ws \o SavePhoneOrder(oid, po)
<1>1. oid <= seq["phone_order"]
  BY OrdersGivenOut DEF OrderExists
<1>2. \A w \in S : OrderNumbered(w, seq["phone_order"])
  BY <1>1 DEF OrderNumbered, SaveTicket, SaveOrderRow
<1>3. SavePhoneOrder(oid, po) = <<b, c>> /\ (ws = <<>> \/ ws = <<a>>)
  BY DEF SavePhoneOrder
<1> HIDE DEF a, b, c
<1>4. ws \in Seq(S) /\ SavePhoneOrder(oid, po) \in Seq(S)
  <2>1. <<>> \in Seq(S) /\ <<a>> \in Seq(S) /\ <<b, c>> \in Seq(S)
    OBVIOUS
  <2> HIDE DEF S
  <2>2. QED
    BY <1>3, <2>1
<1>5. \A o \in Oids : orders'[o] # NoRow => OrderExists(o)
  BY IInvParts DEF Memory, OrderExists
<1> HIDE DEF S
<1>6. all \in Seq(S) /\ Writes(all)
  BY <1>4, ConcatProperties
<1> HIDE DEF all
<1>7. QED
  BY <1>2, <1>5, <1>6, OperationOrders

LEMMA PhoneOpsOrders ==
  ASSUME IInv, OInv, NEW oid \in Oids, PhoneOps(oid)
  PROVE  OInv'
<1>1. Ready /\ orders[oid] # NoRow
  BY DEF PhoneOps, PhoneCheckout, PhoneCancel, PhoneEdit, Holding
<1>2. CASE PhoneCheckout(oid)
  <2> DEFINE po == [orders[oid] EXCEPT !.status = "COMPLETED"]
             ws == <<SaveTicket(po.tid, Reopened(po))>>
  <2>1. /\ orders' = [orders EXCEPT ![oid] = po] /\ seq' = seq
        /\ Writes(ws \o SavePhoneOrder(oid, po))
    BY <1>2 DEF PhoneCheckout
  <2>2. ws \in {<<>>, <<SaveTicket(po.tid, Reopened(po))>>}
    OBVIOUS
  <2> HIDE DEF ws, po
  <2>3. QED
    BY <1>1, <2>1, <2>2, ReplacedOrderOrders
<1>3. CASE PhoneCancel(oid)
  <2> DEFINE po == [orders[oid] EXCEPT !.status = "CANCELLED"]
             ws == <<>>
  <2>1. /\ orders' = [orders EXCEPT ![oid] = po] /\ seq' = seq
        /\ Writes(SavePhoneOrder(oid, po))
    BY <1>3 DEF PhoneCancel
  <2>2. ws \o SavePhoneOrder(oid, po) = SavePhoneOrder(oid, po)
    BY DEF SavePhoneOrder
  <2>3. Writes(ws \o SavePhoneOrder(oid, po))
    BY <2>1, <2>2
  <2>4. ws \in {<<>>, <<SaveTicket(0, EmptyTicket)>>}
    OBVIOUS
  <2> HIDE DEF ws, po
  <2>5. QED
    BY <1>1, <2>1, <2>3, <2>4, ReplacedOrderOrders
<1>4. CASE PhoneEdit(oid)
  BY <1>1, <1>4, StoreOrders DEF PhoneEdit
<1>5. QED
  BY <1>2, <1>3, <1>4 DEF PhoneOps

LEMMA SetTaxRateOrders ==
  ASSUME IInv, OInv, NEW bps \in TaxRates, SetTaxRate(bps)
  PROVE  OInv'
<1> DEFINE w == SaveTaxRate(bps)
<1>1. Ready /\ Writes(<<w>>) /\ orders' = orders /\ seq' = seq
  BY DEF SetTaxRate
<1>2. OrderNumbered(w, seq["phone_order"])
  BY DEF OrderNumbered, SaveTaxRate
<1> HIDE DEF w
<1>3. QED
  BY <1>1, <1>2, OneWriteOrders

-----------------------------------------------------------------------------
(* Commits, crashes and the invariant *)

\* Which order rows a commit brings in, and what it does to the last number.
LEMMA ApplyOrders ==
  ASSUME IInv, NEW w \in GoodWrite, NEW n \in Nat, OrderNumbered(w, n)
  PROVE  /\ \A oid \in Oids : Apply(db, w).orders[oid] # NoRow =>
              db.orders[oid] # NoRow \/ oid <= n
         /\ Apply(db, w).seq["phone_order"] =
              IF w.op = "save_seq" /\ w.name = "phone_order" THEN n
              ELSE db.seq["phone_order"]
<1>1. db \in GoodTables
  BY IInvParts DEF Frame
<1>2. db.orders \in [Oids -> OrderRow \cup {NoRow}] /\ db.seq \in [SeqNames -> Nat]
  BY <1>1 DEF GoodTables, TablesOf
<1>3. CASE Apply(db, w).orders = db.orders /\ Apply(db, w).seq = db.seq
           /\ w.op # "save_seq"
  BY <1>3
<1>4. CASE w.op = "save_ticket"
  <2> DEFINE r == Row(w.ticket)
  <2>1. Apply(db, w) = [db EXCEPT !.tickets[w.id] = r]
    BY <1>4 DEF Apply
  <2> HIDE DEF r
  <2>2. QED
    BY <1>1, <1>3, <1>4, <2>1 DEF GoodTables, TablesOf
<1>5. CASE w.op = "delete_ticket"
  <2>1. Apply(db, w) = [db EXCEPT !.tickets[w.id] = NoRow]
    BY <1>5 DEF Apply
  <2>2. QED
    BY <1>1, <1>3, <1>5, <2>1 DEF GoodTables, TablesOf
<1>6. CASE w.op = "set_ticket_printed"
  <2> DEFINE r == [db.tickets[w.id] EXCEPT !.printed = w.printed]
  <2>1. Apply(db, w) = db \/ Apply(db, w) = [db EXCEPT !.tickets[w.id] = r]
    BY <1>6 DEF Apply
  <2> HIDE DEF r
  <2>2. QED
    BY <1>1, <1>3, <1>6, <2>1 DEF GoodTables, TablesOf
<1>7. CASE w.op = "save_phone_order"
  <2>1. w.oid \in Oids /\ w.oid <= n
    BY <1>7, WriteFields DEF OrderNumbered
  <2> DEFINE r == [db.orders[w.oid] EXCEPT !.status = w.row.status]
  <2>2. Apply(db, w) = [db EXCEPT !.orders[w.oid] = w.row]
        \/ Apply(db, w) = [db EXCEPT !.orders[w.oid] = r]
    BY <1>7 DEF Apply
  <2> HIDE DEF r
  <2>3. PICK row : Apply(db, w) = [db EXCEPT !.orders[w.oid] = row]
    BY <2>2
  <2>4. Apply(db, w).orders = [db.orders EXCEPT ![w.oid] = row]
        /\ Apply(db, w).seq = db.seq
    BY <1>1, <2>3 DEF GoodTables, TablesOf
  <2>5. QED
    BY <1>2, <1>7, <2>1, <2>4
<1>8. CASE w.op = "save_seq"
  <2>1. w.name \in SeqNames /\ (w.name = "phone_order" => w.value = n)
    BY <1>8, WriteFields DEF OrderNumbered
  <2>2. Apply(db, w) = [db EXCEPT !.seq[w.name] = w.value]
    BY <1>8 DEF Apply
  <2>3. /\ Apply(db, w).seq = [db.seq EXCEPT ![w.name] = w.value]
        /\ Apply(db, w).orders = db.orders
    BY <1>1, <2>2 DEF GoodTables, TablesOf
  <2>4. QED
    BY <1>2, <1>8, <2>1, <2>3, OidsAreNumbers
<1>9. CASE w.op = "save_report"
  <2>1. Apply(db, w) = [db EXCEPT !.reports[w.date] = w.report]
    BY <1>9 DEF Apply
  <2>2. QED
    BY <1>1, <1>3, <1>9, <2>1 DEF GoodTables, TablesOf
<1>10. CASE w.op = "save_setting"
  <2>1. Apply(db, w) = [db EXCEPT !.taxRate = w.bps]
    BY <1>10 DEF Apply
  <2>2. QED
    BY <1>1, <1>3, <1>10, <2>1 DEF GoodTables, TablesOf
<1>11. QED
  BY <1>4, <1>5, <1>6, <1>7, <1>8, <1>9, <1>10, WriteFields

LEMMA CommitOrders ==
  ASSUME IInv, OInv, CommitWrite
  PROVE  OInv'
<1> DEFINE n == seq["phone_order"]
           w == Head(pending)
<1>1. /\ up /\ up' /\ pending # <<>> /\ db' = Apply(db, w) /\ pending' = Tail(pending)
      /\ orders' = orders /\ seq' = seq
  BY DEF CommitWrite, memory
<1>2. n \in Nat
  BY IInvParts, OidsAreNumbers DEF Memory
<1>3. pending \in Seq(GoodWrite)
  BY IInvParts DEF Frame
<1>4. /\ Len(pending) \in Nat \ {0} /\ w = pending[1] /\ w \in GoodWrite
      /\ Tail(pending) \in Seq(GoodWrite)
      /\ Len(Tail(pending)) = Len(pending) - 1
      /\ \A i \in 1..Len(Tail(pending)) : Tail(pending)[i] = pending[i + 1]
  BY <1>1, <1>3, LenProperties, EmptySeq, HeadTailProperties
<1>5. OrderNumbered(w, n)
  BY <1>4 DEF OInv
<1> HIDE DEF w
<1>6. /\ \A oid \in Oids : db'.orders[oid] # NoRow => db.orders[oid] # NoRow \/ oid <= n
      /\ db'.seq["phone_order"] =
           IF w.op = "save_seq" /\ w.name = "phone_order" THEN n ELSE db.seq["phone_order"]
  BY <1>1, <1>2, <1>4, <1>5, ApplyOrders
<1>7. (\A i \in 1..Len(pending) : OrderNumbered(pending[i], seq["phone_order"]))'
  <2>1. ASSUME NEW i \in 1..Len(Tail(pending))
        PROVE  OrderNumbered(Tail(pending)[i], n)
    BY <1>4, <2>1 DEF OInv
  <2>2. QED
    BY <1>1, <2>1
<1>8. ASSUME NEW oid \in Oids, OrderExists(oid)' PROVE oid <= n
  BY <1>1, <1>6, <1>8 DEF OrderExists, OInv, LastOrder
<1>9. LastOrderIsSaved'
  <2>1. CASE db.seq["phone_order"] = n
    BY <1>1, <1>6, <2>1 DEF LastOrderIsSaved
  <2>2. CASE pending[Len(pending)] = SaveSeq("phone_order", n) /\ Len(pending) = 1
    <3>1. w.op = "save_seq" /\ w.name = "phone_order"
      BY <1>4, <2>2 DEF SaveSeq
    <3>2. QED
      BY <1>1, <1>6, <3>1 DEF LastOrderIsSaved
  <2>3. CASE pending[Len(pending)] = SaveSeq("phone_order", n) /\ Len(pending) # 1
    <3>1. Len(Tail(pending)) \in 1..Len(Tail(pending))
      BY <1>4, <2>3
    <3>2. Tail(pending)[Len(Tail(pending))] = pending[Len(pending)]
      BY <1>4, <3>1
    <3>3. Len(Tail(pending)) # 0 /\ Len(<<>>) = 0
      BY <1>4, <2>3
    <3>4. Tail(pending) # <<>>
      BY <3>3
    <3>5. QED
      BY <1>1, <2>3, <3>2, <3>4 DEF LastOrderIsSaved
  <2>4. QED
    BY <1>1, <2>1, <2>2, <2>3 DEF OInv, LastOrderIsSaved
<1>10. QED
  BY <1>1, <1>7, <1>8, <1>9 DEF OInv, LastOrder

\* A crash between two operations forgets no phone-order number.
LEMMA CrashOrders ==
  ASSUME AtomicHandlers, IInv, OInv, Crash
  PROVE  OInv'
<1>1. /\ Ready /\ ~up' /\ pending' = <<>> /\ db' = db
      /\ orders' = [oid \in Oids |-> NoRow]
  BY DEF Crash, AtomicHandlers, Ready
<1>2. ASSUME NEW oid \in Oids, OrderExists(oid)' PROVE oid <= db.seq["phone_order"]
  BY <1>1, <1>2, OrdersGivenOut DEF OrderExists
<1>3. (\A i \in 1..Len(pending) : OrderNumbered(pending[i], seq["phone_order"]))'
  BY <1>1, EmptySeq
<1>4. QED
  BY <1>1, <1>2, <1>3 DEF OInv, LastOrder

\* A restart reads back the orders that have a row, and the last number.
LEMMA RestartOrders ==
  ASSUME IInv, OInv, Restart
  PROVE  OInv'
<1>1. /\ ~up /\ up' /\ pending' = <<>> /\ db' = db /\ seq' = db.seq
      /\ orders' = LoadOrders(db, NoId, EmptyTicket)
  BY DEF Restart, Load, OInv
<1>2. db.orders \in [Oids -> OrderRow \cup {NoRow}]
  BY IInvParts DEF Frame, GoodTables, TablesOf
<1>3. \A oid \in Oids : orders'[oid] # NoRow => db.orders[oid] # NoRow
  <2> SUFFICES ASSUME NEW oid \in Oids, orders'[oid] # NoRow, db.orders[oid] = NoRow
               PROVE  FALSE
    OBVIOUS
  <2>1. DOMAIN db.orders = Oids
    BY <1>2
  <2>2. orders'[oid] = NoRow
    BY <1>1, <2>1 DEF LoadOrders
  <2>3. QED
    BY <2>2
<1>4. ASSUME NEW oid \in Oids, OrderExists(oid)' PROVE oid <= db.seq["phone_order"]
  BY <1>1, <1>3, <1>4 DEF OrderExists, OInv, LastOrder
<1>5. (\A i \in 1..Len(pending) : OrderNumbered(pending[i], seq["phone_order"]))'
  BY <1>1, EmptySeq
<1>6. QED
  BY <1>1, <1>4, <1>5 DEF OInv, LastOrder, LastOrderIsSaved

LEMMA InitOInv == Init => OInv
<1> SUFFICES ASSUME Init PROVE OInv
  OBVIOUS
<1>1. /\ orders = [oid \in Oids |-> NoRow] /\ db.orders = [oid \in Oids |-> NoRow]
      /\ seq["phone_order"] = 0 /\ db.seq["phone_order"] = 0 /\ pending = <<>> /\ up
  BY OidsAreNumbers DEF Init, EmptyDb
<1>2. \A oid \in Oids : ~OrderExists(oid)
  BY <1>1 DEF OrderExists
<1>3. QED
  BY <1>1, <1>2, EmptySeq DEF OInv, LastOrderIsSaved

\* Every step keeps the phone orders at or below the last number.
LEMMA NextOInv == AtomicHandlers /\ IInv /\ OInv /\ [Next]_vars => OInv'
<1> SUFFICES ASSUME AtomicHandlers, IInv, OInv, [Next]_vars PROVE OInv'
  OBVIOUS
<1>1. CASE NewTicket \/ EndDay
  BY <1>1, NewTicketOrders, EndDayOrders
<1>2. ASSUME NEW id \in Ids, TicketOps(id) PROVE OInv'
  BY <1>2, TicketOpsOrders
<1>3. ASSUME NEW oid \in Oids, PhoneOps(oid) PROVE OInv'
  BY <1>3, PhoneOpsOrders
<1>4. ASSUME NEW bps \in TaxRates, SetTaxRate(bps) PROVE OInv'
  BY <1>4, SetTaxRateOrders
<1>5. CASE CommitWrite
  BY <1>5, CommitOrders
<1>6. CASE WriteFails
  <2>1. failures \in 0..MaxFailures /\ failures < MaxFailures /\ MaxFailures = 0
    BY <1>6, IInvParts DEF WriteFails, Frame, AtomicHandlers
  <2>2. QED
    BY <2>1
<1>7. CASE Crash \/ Restart
  BY <1>7, CrashOrders, RestartOrders
<1>8. CASE NextDay \/ UNCHANGED vars
  <2>1. UNCHANGED <<memory, db, pending, up>>
    BY <1>8 DEF NextDay, vars
  <2>2. QED
    BY <2>1 DEF memory, OInv, LastOrder, LastOrderIsSaved, OrderExists
<1>9. QED
  BY <1>1, <1>2, <1>3, <1>4, <1>5, <1>6, <1>7, <1>8 DEF Next

LEMMA AlwaysOInv ==
  ASSUME AtomicHandlers
  PROVE  Spec => [](IInv /\ OInv)
<1>1. Init => IInv /\ OInv
  BY InitIInv, InitOInv
<1>2. IInv /\ OInv /\ [Next]_vars => IInv' /\ OInv'
  BY NextIInv, NextOInv
<1>3. QED
  BY <1>1, <1>2, PTL DEF Spec

-----------------------------------------------------------------------------
(* An order in progress is kept *)

\* What OpenOrderIsKept allows a step to do to an order in progress.
KeptOrder(id) ==
  \/ InMemory(id)'
  \/ \E oid \in Oids :
       /\ ~(orders[oid] # NoRow) /\ Holding(oid)'
       /\ orders'[oid].tid = id /\ orders'[oid].ticket = tickets[id]

InProgress(id) == IsOpen(id) /\ tickets[id].items # <<>>

\* A step that puts a ticket, the same or another, in the place of one.
LEMMA ReplacedTicketIsKept ==
  ASSUME IInv, NEW id \in Ids, InMemory(id), NEW other, NEW t, t # NoRow,
         tickets' = [tickets EXCEPT ![other] = t]
  PROVE  KeptOrder(id)
<1>1. tickets'[id] = t \/ tickets'[id] = tickets[id]
  BY IInvParts DEF Memory
<1>2. QED
  BY <1>1 DEF KeptOrder, InMemory

LEMMA GoodTicketIsThere ==
  ASSUME NEW t \in GoodTicket
  PROVE  t # NoRow
  BY NoRowAssumption DEF GoodTicket

\* Whatever an operation stores is a ticket: it was one before.
LEMMA StoredTicketIsThere ==
  ASSUME IInv, IInv', NEW id \in Ids, NEW other \in Ids, InMemory(id), NEW t, Store(other, t)
  PROVE  KeptOrder(id)
<1>1. /\ tickets' = [tickets EXCEPT ![other] = t]
      /\ pending' = <<SaveTicket(other, t)>>
  BY DEF Store, Writes
<1> DEFINE w == SaveTicket(other, t)
<1>2. w.op = "save_ticket" /\ w.ticket = t
  BY DEF SaveTicket
<1>3. pending' \in Seq(GoodWrite)
  BY IInvPartsNext DEF Frame
<1>4. pending' = <<w>>
  BY <1>1
<1> HIDE DEF w
<1>5. w \in GoodWrite
  BY <1>3, <1>4
<1>6. t # NoRow
  BY <1>2, <1>5, WriteFields, GoodTicketIsThere
<1>7. QED
  BY <1>1, <1>6, ReplacedTicketIsKept

\* create_phone_order: the number is new, so the snapshot is a new order's.
LEMMA CreatePhoneOrderKeeps ==
  ASSUME IInv, OInv, NEW id \in Ids, InMemory(id), NEW other \in Ids,
         CreatePhoneOrder(other)
  PROVE  KeptOrder(id)
<1> DEFINE n  == seq["phone_order"] + 1
           po == [tid |-> other, ticket |-> tickets[other], status |-> "HOLDING"]
<1>1. /\ Ready /\ seq["phone_order"] < MaxOrders
      /\ orders' = [orders EXCEPT ![n] = po]
      /\ tickets' = [tickets EXCEPT ![other] = NoRow]
  BY DEF CreatePhoneOrder
<1>2. CASE other # id
  <2>1. tickets'[id] = tickets[id]
    BY <1>1, <1>2, IInvParts DEF Memory
  <2>2. QED
    BY <2>1 DEF KeptOrder, InMemory
<1>3. CASE other = id
  <2>1. n \in Oids /\ ~(n <= seq["phone_order"])
    BY <1>1, OrdersGivenOut, BoundsAssumption DEF Oids
  <2>2. orders[n] = NoRow
    BY <1>1, <2>1, OrdersGivenOut DEF OrderExists
  <2> HIDE DEF n
  <2>3. orders'[n] = po
    BY <1>1, <2>1, IInvParts DEF Memory
  <2>4. po # NoRow
    <3>1. po \in PhoneOrderOf(Ticket)
      BY <1>3, InMemoryShape DEF PhoneOrderOf, OrderStatuses
    <3> HIDE DEF po
    <3>2. QED
      BY <3>1, NoRowAssumption
  <2>5. po.tid = id /\ po.ticket = tickets[id] /\ po.status = "HOLDING"
    BY <1>3
  <2> HIDE DEF po
  <2>6. QED
    BY <2>1, <2>2, <2>3, <2>4, <2>5 DEF KeptOrder, Holding
<1>4. QED
  BY <1>2, <1>3

LEMMA TicketOpsKeepOrders ==
  ASSUME IInv, IInv', OInv, NEW id \in Ids, InMemory(id), NEW other \in Ids,
         TicketOps(other)
  PROVE  KeptOrder(id)
<1>1. ASSUME NEW t, Store(other, t) PROVE KeptOrder(id)
  BY <1>1, StoredTicketIsThere
<1>2. ASSUME NEW legs \in Payments, NEW fee \in CardFees, CheckoutRefused(other, legs, fee)
      PROVE  KeptOrder(id)
  <2> DEFINE t == [tickets[other] EXCEPT !.fee = fee]
  <2>1. tickets' = [tickets EXCEPT ![other] = t] /\ IsOpen(other)
    BY <1>2 DEF CheckoutRefused
  <2>2. tickets'[other] = t
    BY <2>1, IInvParts DEF Memory
  <2>3. t # NoRow
    <3>1. tickets[other] \in Ticket /\ fee \in Nat
      BY <2>1, InMemoryShape, MoneyAssumption DEF IsOpen
    <3>2. t \in Ticket
      BY <3>1 DEF Ticket, TicketOf
    <3> HIDE DEF t
    <3>3. QED
      BY <3>2, NoRowAssumption
  <2> HIDE DEF t
  <2>4. QED
    BY <2>1, <2>3, ReplacedTicketIsKept
<1>3. CASE UNCHANGED memory
  BY <1>3 DEF memory, KeptOrder, InMemory
<1>4. CASE CreatePhoneOrder(other)
  BY <1>4, CreatePhoneOrderKeeps
<1>5. QED
  BY <1>1, <1>2, <1>3, <1>4, TicketOpsStore

LEMMA PhoneOpsKeepOrders ==
  ASSUME IInv, IInv', NEW id \in Ids, InMemory(id), NEW oid \in Oids, PhoneOps(oid)
  PROVE  KeptOrder(id)
<1>1. Holding(oid)
  BY DEF PhoneOps, PhoneCheckout, PhoneCancel, PhoneEdit
<1>2. CASE PhoneCheckout(oid)
  <2> DEFINE po == [orders[oid] EXCEPT !.status = "COMPLETED"]
             t  == Reopened(po)
  <2>1. tickets' = [tickets EXCEPT ![po.tid] = t]
    BY <1>2 DEF PhoneCheckout
  <2>2. po \in PhoneOrderOf(GoodTicket)
    BY <1>1, HoldingShape, StatusShape DEF OrderStatuses
  <2> HIDE DEF po
  <2>3. t # NoRow
    BY <2>2, ReopenedShape, GoodTicketIsThere
  <2> HIDE DEF t
  <2>4. QED
    BY <2>1, <2>3, ReplacedTicketIsKept
<1>3. CASE PhoneCancel(oid)
  BY <1>3 DEF PhoneCancel, KeptOrder, InMemory
<1>4. CASE PhoneEdit(oid)
  BY <1>1, <1>4, HoldingShape, StoredTicketIsThere DEF PhoneEdit
<1>5. QED
  BY <1>2, <1>3, <1>4 DEF PhoneOps

\* An OPEN ticket with items is in no way lost while the daemon runs: no
\* operation of pos_manager.cpp takes it out of memory but create_phone_order,
\* which holds it, as it was, in an order that did not exist before.
THEOREM OrdersAreKept ==
  ASSUME AtomicHandlers
  PROVE  Spec => OpenOrderIsKept
<1> DEFINE Step == \A id \in Ids :
       (up /\ up' /\ IsOpen(id) /\ tickets[id].items # <<>>) =>
         \/ InMemory(id)'
         \/ \E oid \in Oids :
              /\ ~(orders[oid] # NoRow) /\ Holding(oid)'
              /\ orders'[oid].tid = id /\ orders'[oid].ticket = tickets[id]
<1>1. IInv /\ IInv' /\ OInv /\ [Next]_vars => Step
  <2> SUFFICES ASSUME IInv, IInv', OInv, [Next]_vars, up, up', NEW id \in Ids,
                      InProgress(id)
               PROVE  KeptOrder(id)
    BY DEF InProgress, KeptOrder
  <2>1. InMemory(id)
    BY DEF InProgress, IsOpen
  <2>2. CASE NewTicket
    <3> DEFINE n == seq["ticket"] + 1
    <3>1. tickets' = [tickets EXCEPT ![n] = EmptyTicket] /\ EmptyTicket # NoRow
      BY <2>2, EmptyTicketShape, GoodTicketIsThere DEF NewTicket
    <3> HIDE DEF n
    <3>2. QED
      BY <2>1, <3>1, ReplacedTicketIsKept
  <2>3. CASE EndDay
    <3>1. tickets'[id] = tickets[id]
      BY <2>3 DEF EndDay, Deletable, InProgress, IsOpen
    <3>2. QED
      BY <2>1, <3>1 DEF KeptOrder, InMemory
  <2>4. ASSUME NEW other \in Ids, TicketOps(other) PROVE KeptOrder(id)
    BY <2>1, <2>4, TicketOpsKeepOrders
  <2>5. ASSUME NEW oid \in Oids, PhoneOps(oid) PROVE KeptOrder(id)
    BY <2>1, <2>5, PhoneOpsKeepOrders
  <2>6. CASE Crash \/ Restart
    BY <2>6 DEF Crash, Restart
  <2>7. CASE (\E bps \in TaxRates : SetTaxRate(bps)) \/ CommitWrite \/ WriteFails
             \/ NextDay \/ UNCHANGED vars
    <3>1. tickets' = tickets
      BY <2>7 DEF SetTaxRate, CommitWrite, WriteFails, NextDay, vars, memory
    <3>2. QED
      BY <2>1, <3>1 DEF KeptOrder, InMemory
  <2>8. QED
    BY <2>2, <2>3, <2>4, <2>5, <2>6, <2>7 DEF Next
<1>2. Step => [Step]_vars
  OBVIOUS
<1>3. QED
  BY <1>1, <1>2, AlwaysOInv, PTL DEF Spec, OpenOrderIsKept
=============================================================================

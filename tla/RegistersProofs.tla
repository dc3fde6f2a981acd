--------------------------- MODULE RegistersProofs ---------------------------
(***************************************************************************)
(* A register at rest shows its ticket as the engine has it, and what was  *)
(* sold was sent to the kitchen, for any number of registers, tickets,     *)
(* orders and print handlers, whatever the staff tap between two RPCs.     *)
(* Prices, taxes and the sums of a ticket play no part in it.              *)
(***************************************************************************)
EXTENDS Registers, WellFoundedInduction, TLAPS

-----------------------------------------------------------------------------
(* The engine, as far as the registers see it *)

\* A ticket has its fields: EXCEPT has a meaning at a field that is there.
HasFields(t) ==
  DOMAIN t = {"status", "items", "subtotal", "tax", "total", "payments", "paid",
              "change", "fee", "closed", "printed"}

IsOrder(po) ==
  /\ DOMAIN po = {"tid", "ticket", "status"}
  /\ po.tid \in Slips /\ HasFields(po.ticket)

\* No ticket and no order has the empty id: the daemon lives, so no order is
\* loaded without its ticket.
EngineInv ==
  /\ DOMAIN tickets = Ids /\ DOMAIN orders = Oids
  /\ \A id \in Ids : InMemory(id) => id # NoId /\ HasFields(tickets[id])
  /\ \A oid \in Oids : orders[oid] # NoRow => IsOrder(orders[oid])
  /\ seq \in [SeqNames -> Nat]

-----------------------------------------------------------------------------
(* The inductive invariant of the screens *)

\* Between two RPCs of its own the register may go on with the ticket it shows.
Shows(r) == doing[r].step \notin {"opening", "ordering"}

\* A ticket nobody has taken up twice is the business of one register.
OneAtEach == \A id \in Slips : id \notin shared => \A r, s \in At(id) : r = s

\* The ticket a register shows is OPEN and as shown; one it puts a line back
\* into has changed since.
ScreenOf(r) ==
  LET id == screen[r].id IN
  (Shows(r) /\ InMemory(id) /\ id \notin shared) =>
     IsOpen(id) /\ (doing[r].step # "adding" => screen[r] = Copy(id, tickets[id]))

\* A ticket that a register is about to show is OPEN too.
FetchOf(r) ==
  doing[r].step = "fetching" =>
    /\ doing[r].id \in Slips
    /\ (InMemory(doing[r].id) /\ doing[r].id \notin shared) => IsOpen(doing[r].id)

ScreenInv ==
  /\ DOMAIN screen = Regs /\ DOMAIN doing = Regs
  /\ \A r \in Regs : screen[r].id \in Ids
  /\ OneAtEach
  /\ \A r \in Regs : ScreenOf(r) /\ FetchOf(r)

-----------------------------------------------------------------------------
(* The inductive invariant of the kitchen *)

Lefts(own) ==
  IF own THEN {<<"receipt", "mark", "kitchen">>, <<"mark", "kitchen">>, <<"kitchen">>}
  ELSE {<<"receipt", "mark">>, <<"mark">>, <<"kitchen">>}

\* The handler of a phone order has its lines with it, the others have not.
IsJob(job) ==
  /\ DOMAIN job = {"id", "items", "left", "waiting"}
  /\ job.id \in Ids /\ job.left \in Lefts(job.items # Unknown)

\* These lines are cooked, or a handler of this phone order will have them so.
CookedOrComing(id, items) ==
  \/ items \in cooked[id]
  \/ \E job \in jobs : job.id = id /\ job.items = items /\ items # Unknown

\* A quiet payment is for the lines a phone order was put on hold with.
FromOrder(id) ==
  (InMemory(id) /\ id \notin shared) => CookedOrComing(id, tickets[id].items)

QuietOf(r) ==
  /\ (doing[r].step = "paying" /\ doing[r].quiet) => FromOrder(screen[r].id)
  /\ (doing[r].step = "fetching" /\ doing[r].then = "quiet") => FromOrder(doing[r].id)

SoldLines(id) ==
  (InMemory(id) /\ tickets[id].status = "CLOSED" /\ id \notin early \cup shared) =>
     CookedOrComing(id, tickets[id].items) \/ KitchenJob(id) \in jobs

\* An OPEN ticket that is marked, and a snapshot that is, were marked early.
MarkedEarly ==
  /\ \A id \in Ids : (IsOpen(id) /\ tickets[id].printed) => id \in early
  /\ \A oid \in Oids :
       (orders[oid] # NoRow /\ orders[oid].ticket.printed) => orders[oid].tid \in early

OrdersAreCooked ==
  \A oid \in Oids :
    orders[oid] # NoRow => CookedOrComing(orders[oid].tid, orders[oid].ticket.items)

KitchenInv ==
  /\ cooked = [id \in Ids |-> cooked[id]] /\ \A job \in jobs : IsJob(job)
  /\ MarkedEarly /\ OrdersAreCooked
  /\ \A r \in Regs : QuietOf(r)
  /\ \A id \in Ids : SoldLines(id)


-----------------------------------------------------------------------------
(* What the operations of the engine do to tickets and orders *)

\* One ticket is replaced, the orders are not.
Puts(id, t) ==
  /\ id \in Slips /\ HasFields(t)
  /\ tickets' = [tickets EXCEPT ![id] = t]
  /\ UNCHANGED <<orders, seq>>

\* An OPEN ticket stays OPEN and is marked as it was.
Edits(id, t) ==
  /\ IsOpen(id) /\ Puts(id, t)
  /\ t.status = "OPEN" /\ t.printed = tickets[id].printed

\* The ticket of an order goes back among the tickets as its snapshot has it.
Reopens(oid, t) ==
  /\ oid \in Oids /\ Holding(oid) /\ orders[oid].tid \in Slips /\ HasFields(t)
  /\ tickets' = [tickets EXCEPT ![orders[oid].tid] = t]
  /\ t.status = "OPEN"
  /\ t.items = orders[oid].ticket.items /\ t.printed = orders[oid].ticket.printed

\* The orders are the ones there were, with the same snapshots.
OrdersStay ==
  /\ DOMAIN orders' = Oids
  /\ \A oid \in Oids : orders'[oid] # NoRow =>
       /\ orders[oid] # NoRow /\ IsOrder(orders'[oid])
       /\ orders'[oid].tid = orders[oid].tid /\ orders'[oid].ticket = orders[oid].ticket

LEMMA OpenIsSlip ==
  ASSUME EngineInv, NEW id \in Ids, InMemory(id)
  PROVE  id \in Slips /\ HasFields(tickets[id])
BY DEF EngineInv, Slips

LEMMA EditLinesEdits ==
  ASSUME EngineInv, NEW id \in Ids, IsOpen(id), NEW items, EditLines(id, items)
  PROVE  \E t : Edits(id, t)
<1> DEFINE t == Recalculated([tickets[id] EXCEPT !.items = items], taxRate)
<1>1. id \in Slips /\ HasFields(tickets[id]) /\ tickets[id].status = "OPEN"
  BY OpenIsSlip DEF IsOpen
<1>2. HasFields(t) /\ t.status = "OPEN" /\ t.printed = tickets[id].printed
  BY <1>1 DEF HasFields, Recalculated
<1>3. tickets' = [tickets EXCEPT ![id] = t] /\ UNCHANGED <<orders, seq>>
  BY DEF EditLines, Store
<1> HIDE DEF t
<1>4. Edits(id, t)
  BY <1>1, <1>2, <1>3 DEF Edits, Puts
<1>5. QED
  BY <1>4

LEMMA AddItemEdits ==
  ASSUME EngineInv, NEW id \in Ids, NEW key, NEW qty, AddItem(id, key, qty)
  PROVE  \E t : Edits(id, t)
BY EditLinesEdits DEF AddItem

LEMMA LineOpsEdit ==
  ASSUME EngineInv, NEW id \in Ids, NEW i, NEW key,
         RemoveItem(id, i) \/ DecreaseItem(id, i) \/ UpdateItem(id, i, key)
  PROVE  \E t : Edits(id, t)
BY EditLinesEdits DEF RemoveItem, DecreaseItem, UpdateItem

\* A refused payment leaves its fee: nothing a register looks at.
LEMMA RefusalEdits ==
  ASSUME EngineInv, NEW id \in Ids, NEW legs, NEW fee, CheckoutRefused(id, legs, fee)
  PROVE  \E t : Edits(id, t) /\ t.items = tickets[id].items /\ t.total = tickets[id].total
<1> DEFINE t == [tickets[id] EXCEPT !.fee = fee]
<1>1. id \in Slips /\ HasFields(tickets[id]) /\ IsOpen(id)
  BY OpenIsSlip DEF IsOpen, CheckoutRefused
<1>2. HasFields(t) /\ t.status = "OPEN" /\ t.printed = tickets[id].printed
      /\ t.items = tickets[id].items /\ t.total = tickets[id].total
  BY <1>1 DEF HasFields, IsOpen
<1>3. tickets' = [tickets EXCEPT ![id] = t] /\ UNCHANGED <<orders, seq>>
  BY DEF CheckoutRefused
<1> HIDE DEF t
<1>4. QED
  BY <1>1, <1>2, <1>3 DEF Edits, Puts

LEMMA CheckoutPuts ==
  ASSUME EngineInv, NEW id \in Ids, NEW legs, NEW fee, Checkout(id, legs, fee)
  PROVE  /\ IsOpen(id)
         /\ \E t : /\ Puts(id, t) /\ t.items = tickets[id].items
                   /\ t.printed = tickets[id].printed
<1> DEFINE t == Paid(tickets[id], legs, fee)
<1>1. id \in Slips /\ HasFields(tickets[id]) /\ IsOpen(id)
  BY OpenIsSlip DEF IsOpen, Checkout
<1>2. HasFields(t) /\ t.printed = tickets[id].printed /\ t.items = tickets[id].items
  BY <1>1 DEF HasFields, Paid
<1>3. tickets' = [tickets EXCEPT ![id] = t] /\ UNCHANGED <<orders, seq>>
  BY DEF Checkout, Store
<1> HIDE DEF t
<1>4. QED
  BY <1>1, <1>2, <1>3 DEF Puts

LEMMA MarkPuts ==
  ASSUME EngineInv, NEW id \in Ids, MarkTicketPrinted(id)
  PROVE  \/ UNCHANGED memory
         \/ \E t : /\ InMemory(id) /\ Puts(id, t) /\ t.items = tickets[id].items
                   /\ t.total = tickets[id].total /\ t.status = tickets[id].status
<1> DEFINE t == [tickets[id] EXCEPT !.printed = TRUE]
<1>1. SUFFICES ASSUME InMemory(id), Store(id, t) PROVE \E u :
        /\ Puts(id, u) /\ u.items = tickets[id].items
        /\ u.total = tickets[id].total /\ u.status = tickets[id].status
  BY DEF MarkTicketPrinted
<1>2. id \in Slips /\ HasFields(tickets[id])
  BY <1>1, OpenIsSlip
<1>3. HasFields(t) /\ t.status = tickets[id].status /\ t.items = tickets[id].items
      /\ t.total = tickets[id].total
  BY <1>2 DEF HasFields
<1>4. tickets' = [tickets EXCEPT ![id] = t] /\ UNCHANGED <<orders, seq>>
  BY <1>1 DEF Store
<1> HIDE DEF t
<1>5. QED
  BY <1>2, <1>3, <1>4 DEF Puts

LEMMA NewTicketPuts ==
  ASSUME EngineInv, NewTicket
  PROVE  /\ seq'["ticket"] \in Slips /\ seq' \in [SeqNames -> Nat] /\ UNCHANGED orders
         /\ tickets' = [tickets EXCEPT ![seq'["ticket"]] = EmptyTicket]
         /\ HasFields(EmptyTicket)
<1>1. /\ seq["ticket"] \in Nat /\ seq["ticket"] < MaxTickets
      /\ seq' = [seq EXCEPT !["ticket"] = seq["ticket"] + 1]
      /\ tickets' = [tickets EXCEPT ![seq["ticket"] + 1] = EmptyTicket] /\ UNCHANGED orders
  BY DEF EngineInv, NewTicket, SeqNames
<1>2. seq'["ticket"] = seq["ticket"] + 1 /\ seq' \in [SeqNames -> Nat]
  BY <1>1 DEF EngineInv, SeqNames
<1>3. seq["ticket"] + 1 \in Slips
  BY <1>1, BoundsAssumption DEF Slips, Ids, NoId
<1>4. HasFields(EmptyTicket)
  BY DEF HasFields, EmptyTicket
<1>5. QED
  BY <1>1, <1>2, <1>3, <1>4

LEMMA ReopenedFields ==
  ASSUME EngineInv, NEW oid \in Oids, Holding(oid)
  PROVE  /\ HasFields(Reopened(orders[oid])) /\ Reopened(orders[oid]).status = "OPEN"
         /\ Reopened(orders[oid]).items = orders[oid].ticket.items
         /\ Reopened(orders[oid]).printed = orders[oid].ticket.printed
<1>1. HasFields(orders[oid].ticket)
  BY DEF EngineInv, Holding, IsOrder
<1>2. QED
  BY <1>1 DEF HasFields, Reopened, Recalculated

LEMMA StatusKeepsOrders ==
  ASSUME EngineInv, NEW oid \in Oids, Holding(oid), NEW s,
         orders' = [orders EXCEPT ![oid] = [orders[oid] EXCEPT !.status = s]]
  PROVE  OrdersStay
BY DEF OrdersStay, EngineInv, IsOrder, Holding

LEMMA PhoneCheckoutReopens ==
  ASSUME EngineInv, NEW oid \in Oids, PhoneCheckout(oid)
  PROVE  OrdersStay /\ UNCHANGED seq /\ \E t : Reopens(oid, t)
<1> DEFINE po == [orders[oid] EXCEPT !.status = "COMPLETED"]
<1>1. /\ Holding(oid) /\ tickets' = [tickets EXCEPT ![po.tid] = Reopened(po)]
      /\ orders' = [orders EXCEPT ![oid] = po] /\ UNCHANGED seq
  BY DEF PhoneCheckout
<1>2. IsOrder(orders[oid])
  BY <1>1 DEF EngineInv, Holding
<1>3. po.tid = orders[oid].tid /\ po.ticket = orders[oid].ticket
  BY <1>2 DEF IsOrder
<1>4. Reopened(po) = Reopened(orders[oid])
  BY <1>3 DEF Reopened
<1>5. Reopens(oid, Reopened(orders[oid]))
  BY <1>1, <1>2, <1>3, <1>4, ReopenedFields DEF Reopens, IsOrder
<1>6. QED
  BY <1>1, <1>5, StatusKeepsOrders

LEMMA PhoneEditReopens ==
  ASSUME EngineInv, NEW oid \in Oids, PhoneEdit(oid)
  PROVE  OrdersStay /\ UNCHANGED seq /\ \E t : Reopens(oid, t)
<1>1. /\ Holding(oid) /\ tickets' = [tickets EXCEPT ![orders[oid].tid] = Reopened(orders[oid])]
      /\ UNCHANGED <<orders, seq>>
  BY DEF PhoneEdit, Store
<1>2. IsOrder(orders[oid])
  BY <1>1 DEF EngineInv, Holding
<1>3. Reopens(oid, Reopened(orders[oid]))
  BY <1>1, <1>2, ReopenedFields DEF Reopens, IsOrder
<1>4. OrdersStay
  BY <1>1 DEF OrdersStay, EngineInv
<1>5. QED
  BY <1>1, <1>3, <1>4

LEMMA PhoneCancelStays ==
  ASSUME EngineInv, NEW oid \in Oids, PhoneCancel(oid)
  PROVE  OrdersStay /\ UNCHANGED <<tickets, seq>>
BY StatusKeepsOrders DEF PhoneCancel

LEMMA EndDayDrops ==
  ASSUME EngineInv, EndDay
  PROVE  /\ DOMAIN tickets' = Ids /\ UNCHANGED <<orders, seq>>
         /\ \A id \in Ids : tickets'[id] = tickets[id] \/ ~InMemory(id)'
BY DEF EndDay, InMemory

LEMMA CreatePhoneOrderMoves ==
  ASSUME EngineInv, NEW id \in Ids, CreatePhoneOrder(id)
  PROVE  /\ IsOpen(id) /\ id \in Slips /\ tickets[id].items # <<>>
         /\ tickets' = [tickets EXCEPT ![id] = NoRow]
         /\ seq' \in [SeqNames -> Nat] /\ DOMAIN orders' = Oids
         /\ \E oid \in Oids :
              /\ orders'[oid].tid = id /\ orders'[oid].ticket = tickets[id]
              /\ IsOrder(orders'[oid])
              /\ \A o \in Oids \ {oid} : orders'[o] = orders[o]
<1> DEFINE n == seq["phone_order"]
           po == [tid |-> id, ticket |-> tickets[id], status |-> "HOLDING"]
<1>1. /\ IsOpen(id) /\ tickets[id].items # <<>> /\ n < MaxOrders
      /\ seq' = [seq EXCEPT !["phone_order"] = n + 1]
      /\ orders' = [orders EXCEPT ![n + 1] = po] /\ tickets' = [tickets EXCEPT ![id] = NoRow]
  BY DEF CreatePhoneOrder
<1>2. n \in Nat /\ n + 1 \in Oids /\ seq' \in [SeqNames -> Nat]
  BY <1>1, BoundsAssumption DEF EngineInv, SeqNames, Oids
<1>3. id \in Slips /\ HasFields(tickets[id])
  BY <1>1, OpenIsSlip DEF IsOpen
<1>4. IsOrder(po)
  BY <1>3 DEF IsOrder
<1>5. orders'[n + 1] = po /\ \A o \in Oids \ {n + 1} : orders'[o] = orders[o]
  BY <1>1, <1>2 DEF EngineInv
<1>6. QED
  BY <1>1, <1>2, <1>3, <1>4, <1>5 DEF EngineInv


-----------------------------------------------------------------------------
(* What a step leaves of the invariants *)

LEMMA PutsKeepsEngine ==
  ASSUME EngineInv, NEW id, NEW t, Puts(id, t)
  PROVE  EngineInv' /\ OrdersStay /\ tickets'[id] = t
         /\ \A other \in Ids \ {id} : tickets'[other] = tickets[other]
<1>1. /\ tickets'[id] = t /\ DOMAIN tickets' = Ids
      /\ \A other \in Ids \ {id} : tickets'[other] = tickets[other]
  BY DEF EngineInv, Puts, Slips
<1>2. OrdersStay
  BY DEF EngineInv, Puts, OrdersStay
<1>3. QED
  BY <1>1, <1>2 DEF EngineInv, Puts, InMemory, Slips, OrdersStay

LEMMA EngineRests ==
  ASSUME EngineInv, UNCHANGED <<tickets, orders, seq>>
  PROVE  EngineInv' /\ OrdersStay
BY DEF EngineInv, InMemory, OrdersStay

\* A screen, a fetch or a payment that looks at this ticket sees no change.
Same(id) ==
  InMemory(id)' =>
    /\ InMemory(id)
    /\ tickets'[id].status = tickets[id].status /\ tickets'[id].items = tickets[id].items
    /\ tickets'[id].total = tickets[id].total

LEMMA UnchangedIsSame ==
  ASSUME NEW id, tickets'[id] = tickets[id] \/ ~InMemory(id)'
  PROVE  Same(id)
BY DEF Same, InMemory

\* The step is the business of the registers in A: the others go on as they
\* were, or open a ticket, and no ticket they are at has changed unshared.
Untouched(A) ==
  /\ DOMAIN screen' = Regs /\ DOMAIN doing' = Regs /\ shared \subseteq shared'
  /\ \A s \in Regs \ A : /\ screen'[s] = screen[s]
                         /\ doing'[s] = doing[s] \/ doing'[s] = Opening
  /\ \A id \in Ids : Same(id) \/ id \in shared' \/ At(id) \subseteq A

LEMMA ShownIsAt ==
  ASSUME NEW s \in Regs
  PROVE  s \in At(screen[s].id) /\ (doing[s].step = "fetching" => s \in At(doing[s].id))
BY DEF At

LEMMA OthersScreens ==
  ASSUME ScreenInv, NEW A, Untouched(A), NEW s \in Regs \ A
  PROVE  screen'[s].id \in Ids /\ ScreenOf(s)' /\ FetchOf(s)'
<1>1. /\ screen'[s] = screen[s] /\ screen[s].id \in Ids /\ ScreenOf(s) /\ FetchOf(s)
      /\ doing'[s] = doing[s] \/ doing'[s] = Opening
  BY DEF Untouched, ScreenInv
<1>2. CASE doing'[s] = Opening
  BY <1>1, <1>2 DEF ScreenOf, FetchOf, Shows, Opening
<1>3. CASE doing'[s] = doing[s]
  <2>1. \A id \in Ids : (s \in At(id) /\ id \notin shared') => Same(id) /\ id \notin shared
    BY DEF Untouched
  <2>2. ScreenOf(s)'
    <3> DEFINE id == screen[s].id
    <3>1. SUFFICES ASSUME Shows(s), InMemory(id)', id \notin shared'
                   PROVE  /\ IsOpen(id)'
                          /\ doing[s].step # "adding" => screen[s] = Copy(id, tickets'[id])
      BY <1>1, <1>3 DEF ScreenOf, Shows, InMemory, IsOpen
    <3>2. Same(id) /\ id \notin shared
      BY <1>1, <2>1, <3>1, ShownIsAt
    <3>3. IsOpen(id) /\ (doing[s].step # "adding" => screen[s] = Copy(id, tickets[id]))
      BY <1>1, <3>1, <3>2 DEF ScreenOf, Same
    <3>4. QED
      BY <1>1, <3>1, <3>2, <3>3 DEF Same, IsOpen, Copy, InMemory
  <2>3. FetchOf(s)'
    <3> DEFINE id == doing[s].id
    <3>1. SUFFICES ASSUME doing[s].step = "fetching"
                   PROVE  id \in Slips /\ ((InMemory(id)' /\ id \notin shared') => IsOpen(id)')
      BY <1>3 DEF FetchOf, InMemory, IsOpen
    <3>2. id \in Slips /\ id \in Ids
      BY <1>1, <3>1 DEF FetchOf, Slips
    <3>3. ASSUME InMemory(id)', id \notin shared' PROVE IsOpen(id)'
      <4>1. Same(id) /\ id \notin shared
        BY <2>1, <3>1, <3>2, <3>3, ShownIsAt
      <4>2. IsOpen(id)
        BY <1>1, <3>1, <3>3, <4>1 DEF FetchOf, Same
      <4>3. QED
        BY <1>3, <3>3, <4>1, <4>2 DEF Same, IsOpen, InMemory
    <3>4. QED
      BY <3>2, <3>3
  <2>4. QED
    BY <1>1, <2>2, <2>3
<1>4. QED
  BY <1>1, <1>2, <1>3

\* The registers that are at a ticket stay the ones they were, or become one.
LEMMA StillOneAtEach ==
  ASSUME ScreenInv, shared \subseteq shared',
         \A id \in Slips : id \notin shared' =>
            At(id)' \subseteq At(id) \/ \E r : At(id)' \subseteq {r}
  PROVE  OneAtEach'
BY DEF ScreenInv, OneAtEach

LEMMA ScreensOf ==
  ASSUME ScreenInv, NEW A, Untouched(A), OneAtEach',
         \A r \in Regs \cap A : screen'[r].id \in Ids /\ ScreenOf(r)' /\ FetchOf(r)'
  PROVE  ScreenInv'
<1>1. \A s \in Regs : screen'[s].id \in Ids /\ ScreenOf(s)' /\ FetchOf(s)'
  BY OthersScreens
<1>2. QED
  BY <1>1 DEF ScreenInv, Untouched


-----------------------------------------------------------------------------
(* What one register does to the screens *)

Moves(r) ==
  /\ DOMAIN screen' = Regs /\ DOMAIN doing' = Regs /\ shared \subseteq shared'
  /\ \A s \in Regs \ {r} : screen'[s] = screen[s] /\ doing'[s] = doing[s]

LEMMA MovesUntouched ==
  ASSUME NEW r \in Regs, Moves(r),
         \A id \in Ids : Same(id) \/ id \in shared' \/ At(id) \subseteq {r}
  PROVE  Untouched({r})
BY DEF Moves, Untouched

LEMMA Alone ==
  ASSUME ScreenInv, NEW r \in Regs, NEW id \in Slips, r \in At(id)
  PROVE  id \in shared \/ At(id) \subseteq {r}
BY DEF ScreenInv, OneAtEach

\* A register that starts to fetch nothing is at no other ticket than before.
LEMMA AtShrinks ==
  ASSUME NEW r \in Regs, Moves(r), doing'[r].step # "fetching",
         screen'[r].id \in {screen[r].id, NoId}, NEW id \in Slips
  PROVE  At(id)' \subseteq At(id)
<1>1. SUFFICES ASSUME NEW s \in Regs,
                      screen'[s].id = id \/ (doing'[s].step = "fetching" /\ doing'[s].id = id)
               PROVE  screen[s].id = id \/ (doing[s].step = "fetching" /\ doing[s].id = id)
  BY DEF At
<1>2. CASE s = r
  BY <1>1, <1>2 DEF Slips
<1>3. CASE s # r
  BY <1>1, <1>3 DEF Moves
<1>4. QED
  BY <1>2, <1>3

\* The engine stays as it is; the register shows what it showed, or turns to
\* opening a ticket.
LEMMA QuietMove ==
  ASSUME ScreenInv, NEW r \in Regs, Moves(r), UNCHANGED tickets,
         doing'[r].step # "fetching", screen'[r].id \in {screen[r].id, NoId},
         \/ ~Shows(r)'
         \/ /\ screen'[r] = screen[r] /\ Shows(r)
            /\ doing[r].step # "adding" \/ ~IsOpen(screen[r].id)
  PROVE  Untouched({r}) /\ ScreenInv'
<1>1. Untouched({r})
  BY MovesUntouched, UnchangedIsSame
<1>2. OneAtEach'
  BY AtShrinks, StillOneAtEach DEF Moves
<1>3. screen'[r].id \in Ids
  BY BoundsAssumption DEF ScreenInv, Ids, NoId
<1>4. FetchOf(r)'
  BY DEF FetchOf
<1>5. ScreenOf(r)'
  <2>1. CASE ~Shows(r)'
    BY <2>1 DEF ScreenOf
  <2>2. CASE /\ screen'[r] = screen[r] /\ Shows(r)
             /\ doing[r].step # "adding" \/ ~IsOpen(screen[r].id)
    <3>1. ScreenOf(r) /\ shared \subseteq shared'
      BY DEF ScreenInv, Moves
    <3>2. QED
      BY <2>2, <3>1 DEF ScreenOf, InMemory, IsOpen
  <2>3. QED
    BY <2>1, <2>2
<1>6. QED
  BY <1>1, <1>2, <1>3, <1>4, <1>5, ScreensOf

\* The register changes its own ticket, which stays OPEN.
LEMMA OwnEdit ==
  ASSUME EngineInv, ScreenInv, NEW r \in Regs, Moves(r), NEW t, Edits(screen[r].id, t),
         doing'[r].step # "fetching", screen'[r].id = screen[r].id,
         screen[r].id \notin shared =>
            doing'[r].step = "adding" \/ screen'[r] = Copy(screen[r].id, t)
  PROVE  Untouched({r}) /\ ScreenInv'
<1> DEFINE id == screen[r].id
<1>1. /\ id \in Slips /\ id \in Ids /\ tickets'[id] = t /\ t.status = "OPEN"
      /\ \A other \in Ids \ {id} : tickets'[other] = tickets[other]
  BY PutsKeepsEngine DEF Edits, Puts, Slips
<1>2. id \in shared \/ At(id) \subseteq {r}
  BY <1>1, Alone, ShownIsAt
<1>3. \A other \in Ids : Same(other) \/ other \in shared' \/ At(other) \subseteq {r}
  BY <1>1, <1>2, UnchangedIsSame DEF Moves
<1>4. Untouched({r})
  BY <1>3, MovesUntouched
<1>5. OneAtEach'
  BY AtShrinks, StillOneAtEach DEF Moves
<1>6. FetchOf(r)'
  BY DEF FetchOf
<1>7. ScreenOf(r)'
  <2>1. shared \subseteq shared'
    BY DEF Moves
  <2>2. QED
    BY <1>1, <2>1 DEF ScreenOf, InMemory, IsOpen
<1>8. QED
  BY <1>1, <1>4, <1>5, <1>6, <1>7, ScreensOf

\* The register shows a ticket that is OPEN, or shared by now.
LEMMA ShowTicket ==
  ASSUME ScreenInv, NEW r \in Regs, DOMAIN doing' = Regs,
         \A s \in Regs \ {r} : doing'[s] = doing[s],
         NEW id \in Slips, Show(r, Copy(id, tickets'[id])),
         \A other \in Ids \ {id} : tickets'[other] = tickets[other],
         doing'[r].step # "fetching",
         (InMemory(id)' /\ id \notin shared') => IsOpen(id)'
  PROVE  Untouched({r}) /\ ScreenInv'
<1>1. /\ screen' = [screen EXCEPT ![r] = Copy(id, tickets'[id])]
      /\ shared' = IF At(id) \ {r} # {} THEN shared \cup {id} ELSE shared
      /\ id \in Ids
  BY DEF Show, Copy, Slips
<1>2. /\ Moves(r) /\ screen'[r] = Copy(id, tickets'[id]) /\ screen'[r].id = id
  BY <1>1 DEF Moves, ScreenInv, Copy
<1>3. id \in shared' \/ At(id) \subseteq {r}
  BY <1>1
<1>4. Untouched({r})
  BY <1>2, <1>3, MovesUntouched, UnchangedIsSame
<1>5. OneAtEach'
  <2>1. ASSUME NEW other \in Slips, other # id PROVE At(other)' \subseteq At(other)
    BY <1>2, <2>1 DEF At, Moves
  <2>2. At(id)' \subseteq At(id) \cup {r}
    BY <1>2 DEF At, Moves
  <2>3. id \in shared' \/ At(id)' \subseteq {r}
    BY <1>3, <2>2
  <2>4. QED
    BY <1>2, <2>1, <2>3, StillOneAtEach DEF Moves
<1>6. FetchOf(r)'
  BY DEF FetchOf
<1>7. ScreenOf(r)'
  BY <1>2 DEF ScreenOf, IsOpen, InMemory
<1>8. QED
  BY <1>1, <1>2, <1>4, <1>5, <1>6, <1>7, ScreensOf

\* The register is about to show a ticket of a list, which is OPEN.
LEMMA TakeUpTicket ==
  ASSUME ScreenInv, NEW r \in Regs, Free(r), UNCHANGED screen,
         NEW id \in Slips, NEW then, TakeUp(r, id, then),
         \A other \in Ids \ {id} : tickets'[other] = tickets[other],
         tickets'[id].status = "OPEN"
  PROVE  Untouched({r}) /\ ScreenInv'
<1>1. /\ doing' = [doing EXCEPT ![r] = Fetching(id, then)]
      /\ shared' = IF At(id) # {} THEN shared \cup {id} ELSE shared
      /\ id \in Ids
  BY DEF TakeUp, Now, Slips
<1>2. /\ Moves(r) /\ doing'[r].step = "fetching" /\ doing'[r].id = id
  BY <1>1 DEF Moves, ScreenInv, Fetching
<1>3. id \in shared' \/ At(id) = {}
  BY <1>1
<1>4. Untouched({r})
  BY <1>2, <1>3, MovesUntouched, UnchangedIsSame
<1>5. OneAtEach'
  <2>1. ASSUME NEW other \in Slips, other # id PROVE At(other)' \subseteq At(other)
    BY <1>2, <2>1 DEF At, Moves
  <2>2. At(id)' \subseteq At(id) \cup {r}
    BY <1>2 DEF At, Moves
  <2>3. id \in shared' \/ At(id)' \subseteq {r}
    BY <1>3, <2>2
  <2>4. QED
    BY <1>2, <2>1, <2>3, StillOneAtEach DEF Moves
<1>6. FetchOf(r)'
  BY <1>2 DEF FetchOf, IsOpen, InMemory
<1>7. ScreenOf(r)'
  <2>1. doing[r].step = "nothing" /\ ScreenOf(r) /\ shared \subseteq shared'
    BY <1>2 DEF Free, Idle, ScreenInv, Moves
  <2>2. CASE screen[r].id = id
    <3>1. id \in shared'
      BY <1>3, <2>2, ShownIsAt
    <3>2. QED
      BY <2>2, <3>1 DEF ScreenOf
  <2>3. CASE screen[r].id # id
    <3>1. tickets'[screen[r].id] = tickets[screen[r].id]
      BY <2>3 DEF ScreenInv
    <3>2. Shows(r)
      BY <2>1 DEF Shows
    <3>3. QED
      BY <2>1, <3>1, <3>2 DEF ScreenOf, IsOpen, InMemory
  <2>4. QED
    BY <2>2, <2>3
<1>8. QED
  BY <1>4, <1>5, <1>6, <1>7, ScreensOf DEF ScreenInv

\* A ticket goes: it is sold, or put on hold, and its register turns away.
LEMMA TurnAway ==
  ASSUME ScreenInv, NEW r \in Regs, Moves(r), UNCHANGED screen, ~Shows(r)',
         doing'[r].step # "fetching", screen[r].id \in Slips,
         \A other \in Ids \ {screen[r].id} : tickets'[other] = tickets[other]
  PROVE  Untouched({r}) /\ ScreenInv'
<1>1. screen[r].id \in shared \/ At(screen[r].id) \subseteq {r}
  BY Alone, ShownIsAt
<1>2. Untouched({r})
  BY <1>1, MovesUntouched, UnchangedIsSame DEF Moves
<1>3. OneAtEach'
  BY AtShrinks, StillOneAtEach DEF Moves
<1>4. FetchOf(r)' /\ ScreenOf(r)' /\ screen'[r].id \in Ids
  BY DEF FetchOf, ScreenOf, ScreenInv
<1>5. QED
  BY <1>2, <1>3, <1>4, ScreensOf

\* No register acts: a ticket may leave, and a register be told to open one.
LEMMA NoMove ==
  ASSUME ScreenInv, UNCHANGED <<screen, shared>>, \A id \in Ids : Same(id),
         DOMAIN doing' = Regs, \A s \in Regs : doing'[s] = doing[s] \/ doing'[s] = Opening
  PROVE  Untouched({}) /\ ScreenInv'
<1>1. Untouched({})
  BY DEF Untouched, ScreenInv
<1>2. \A id \in Slips : At(id)' \subseteq At(id)
  BY DEF At, Opening
<1>3. OneAtEach'
  BY <1>2, StillOneAtEach
<1>4. QED
  BY <1>1, <1>3, ScreensOf


-----------------------------------------------------------------------------
(* What a step leaves of the kitchen's invariant *)

\* CookedOrComing after the step.
StillComing(id, items) ==
  \/ items \in cooked'[id]
  \/ \E job \in jobs' : job.id = id /\ job.items = items /\ items # Unknown

\* Nothing that is cooked or on its way is lost.
CookingGoesOn ==
  /\ early \subseteq early'
  /\ \A id \in Ids : \A items : CookedOrComing(id, items) => StillComing(id, items)

LEMMA OthersPayments ==
  ASSUME ScreenInv, KitchenInv, NEW A, Untouched(A), CookingGoesOn, NEW s \in Regs \ A
  PROVE  QuietOf(s)'
<1>1. /\ screen'[s] = screen[s] /\ screen[s].id \in Ids /\ QuietOf(s) /\ FetchOf(s)
      /\ doing'[s] = doing[s] \/ doing'[s] = Opening
  BY DEF Untouched, ScreenInv, KitchenInv
<1>2. CASE doing'[s] = Opening
  BY <1>1, <1>2 DEF QuietOf, Opening
<1>3. CASE doing'[s] = doing[s]
  <2>1. ASSUME NEW id \in Ids, s \in At(id), FromOrder(id),
               InMemory(id)', id \notin shared'
        PROVE  StillComing(id, tickets'[id].items)
    <3>1. Same(id) /\ id \notin shared
      BY <2>1 DEF Untouched
    <3>2. CookedOrComing(id, tickets[id].items) /\ tickets'[id].items = tickets[id].items
      BY <2>1, <3>1 DEF FromOrder, Same
    <3>3. QED
      BY <3>2 DEF CookingGoesOn
  <2>2. (doing[s].step = "paying" /\ doing[s].quiet) => FromOrder(screen[s].id)'
    BY <1>1, <2>1, ShownIsAt DEF QuietOf, FromOrder, CookedOrComing, StillComing
  <2>3. (doing[s].step = "fetching" /\ doing[s].then = "quiet") => FromOrder(doing[s].id)'
    BY <1>1, <1>3, <2>1, ShownIsAt
       DEF QuietOf, FromOrder, FetchOf, Slips, CookedOrComing, StillComing
  <2>4. QED
    BY <1>1, <1>3, <2>2, <2>3 DEF QuietOf
<1>4. QED
  BY <1>1, <1>2, <1>3

LEMMA SoldStays ==
  ASSUME KitchenInv, NEW id \in Ids, Same(id), CookingGoesOn, shared \subseteq shared',
         KitchenJob(id) \in jobs => KitchenJob(id) \in jobs'
  PROVE  SoldLines(id)'
<1>1. SUFFICES ASSUME InMemory(id)', tickets'[id].status = "CLOSED", id \notin early' \cup shared'
               PROVE  StillComing(id, tickets'[id].items) \/ KitchenJob(id) \in jobs'
  BY DEF SoldLines, CookedOrComing, StillComing, InMemory, KitchenJob, Job
<1>2. /\ InMemory(id) /\ tickets[id].status = "CLOSED" /\ tickets'[id].items = tickets[id].items
      /\ id \notin early \cup shared
  BY <1>1 DEF Same, CookingGoesOn
<1>3. CookedOrComing(id, tickets[id].items) \/ KitchenJob(id) \in jobs
  BY <1>2 DEF KitchenInv, SoldLines
<1>4. QED
  BY <1>2, <1>3 DEF CookingGoesOn

LEMMA OrdersStayCooked ==
  ASSUME EngineInv, KitchenInv, OrdersStay, CookingGoesOn
  PROVE  /\ OrdersAreCooked'
         /\ \A oid \in Oids :
              (orders'[oid] # NoRow /\ orders'[oid].ticket.printed) => orders'[oid].tid \in early'
<1>1. ASSUME NEW oid \in Oids, orders'[oid] # NoRow
      PROVE  /\ StillComing(orders'[oid].tid, orders'[oid].ticket.items)
             /\ orders'[oid].ticket.printed => orders'[oid].tid \in early'
  <2>1. /\ orders[oid] # NoRow /\ orders'[oid].tid = orders[oid].tid
        /\ orders'[oid].ticket = orders[oid].ticket /\ orders[oid].tid \in Ids
    BY <1>1 DEF OrdersStay, EngineInv, IsOrder, Slips
  <2>2. CookedOrComing(orders[oid].tid, orders[oid].ticket.items)
    BY <2>1 DEF KitchenInv, OrdersAreCooked
  <2>3. orders[oid].ticket.printed => orders[oid].tid \in early
    BY <2>1 DEF KitchenInv, MarkedEarly
  <2>4. QED
    BY <2>1, <2>2, <2>3 DEF CookingGoesOn
<1>2. QED
  BY <1>1 DEF OrdersAreCooked, CookedOrComing, StillComing

LEMMA KitchenKeeps ==
  ASSUME EngineInv, ScreenInv, KitchenInv, NEW A, Untouched(A), OrdersStay, CookingGoesOn,
         cooked' = [id \in Ids |-> cooked'[id]], \A job \in jobs' : IsJob(job),
         \A r \in Regs \cap A : QuietOf(r)', \A id \in Ids : SoldLines(id)',
         \A id \in Ids : (IsOpen(id)' /\ tickets'[id].printed) => id \in early'
  PROVE  KitchenInv'
<1>1. \A r \in Regs : QuietOf(r)'
  BY OthersPayments
<1>2. OrdersAreCooked' /\ MarkedEarly'
  BY OrdersStayCooked DEF MarkedEarly
<1>3. QED
  BY <1>1, <1>2 DEF KitchenInv, IsJob

\* No handler acts; a ticket that changes is OPEN then.
LEMMA KitchenRests ==
  ASSUME EngineInv, ScreenInv, KitchenInv, NEW A, Untouched(A), OrdersStay,
         UNCHANGED <<jobs, cooked, early>>, \A r \in Regs \cap A : QuietOf(r)',
         \A id \in Ids :
            \/ tickets'[id] = tickets[id]
            \/ ~InMemory(id)'
            \/ tickets'[id].status = "OPEN" /\ (tickets'[id].printed => id \in early)
  PROVE  KitchenInv'
<1>1. CookingGoesOn
  BY DEF CookingGoesOn, CookedOrComing, StillComing
<1>2. ASSUME NEW id \in Ids PROVE SoldLines(id)'
  <2>1. CASE tickets'[id] = tickets[id] \/ ~InMemory(id)'
    BY <1>1, <2>1, UnchangedIsSame, SoldStays DEF Untouched
  <2>2. CASE tickets'[id].status = "OPEN"
    BY <2>2 DEF SoldLines
  <2>3. QED
    BY <2>1, <2>2
<1>3. \A id \in Ids : (IsOpen(id)' /\ tickets'[id].printed) => id \in early'
  BY DEF KitchenInv, MarkedEarly, IsOpen, InMemory
<1>4. cooked' = [id \in Ids |-> cooked'[id]] /\ \A job \in jobs' : IsJob(job)
  BY DEF KitchenInv
<1>5. QED
  BY <1>1, <1>2, <1>3, <1>4, KitchenKeeps


-----------------------------------------------------------------------------
(* The steps of a register *)

\* The inductive invariant of registers, engine and kitchen together.
RegistersInv == EngineInv /\ ScreenInv /\ KitchenInv

LEMMA IdleIsFree ==
  ASSUME NEW r, Free(r)
  PROVE  /\ doing[r] = Idle /\ doing[r].step = "nothing" /\ Shows(r)
BY DEF Free, Idle, Shows

\* The engine rests, no handler acts and the payment begun is not a quiet one.
LEMMA RestStep ==
  ASSUME RegistersInv, NEW r \in Regs, UNCHANGED <<tickets, orders, seq, jobs, cooked, early>>,
         Untouched({r}), ScreenInv', QuietOf(r)'
  PROVE  RegistersInv'
<1>1. EngineInv' /\ OrdersStay
  BY EngineRests DEF RegistersInv
<1>2. KitchenInv'
  BY <1>1, KitchenRests DEF RegistersInv
<1>3. QED
  BY <1>1, <1>2 DEF RegistersInv

LEMMA CloseWindowStep ==
  ASSUME RegistersInv, NEW r \in Regs, CloseWindow(r)
  PROVE  RegistersInv'
<1>1. /\ UNCHANGED <<tickets, orders, seq, jobs, cooked, early, shared>>
      /\ screen' = [screen EXCEPT ![r] = Blank] /\ doing' = [doing EXCEPT ![r] = Opening]
  BY DEF CloseWindow, Now, vars, memory
<1>2. Moves(r) /\ screen'[r].id = NoId /\ doing'[r].step = "opening"
  BY <1>1 DEF RegistersInv, ScreenInv, Moves, Blank, Copy, Opening
<1>3. QuietOf(r)' /\ ~Shows(r)'
  BY <1>2 DEF QuietOf, Shows
<1>4. Untouched({r}) /\ ScreenInv'
  BY <1>1, <1>2, <1>3, QuietMove DEF RegistersInv
<1>5. QED
  BY <1>1, <1>3, <1>4, RestStep

LEMMA TapCheckoutStep ==
  ASSUME RegistersInv, NEW r \in Regs, TapCheckout(r)
  PROVE  RegistersInv'
<1>1. /\ UNCHANGED <<tickets, orders, seq, screen, jobs, cooked, early, shared>>
      /\ doing' = [doing EXCEPT ![r] = Paying(FALSE)]
      /\ doing[r].step = "nothing" /\ Shows(r)
  BY IdleIsFree DEF TapCheckout, Now, vars, memory
<1>2. Moves(r) /\ doing'[r].step = "paying" /\ ~doing'[r].quiet
  BY <1>1 DEF RegistersInv, ScreenInv, Moves, Paying
<1>3. QuietOf(r)'
  BY <1>2 DEF QuietOf
<1>4. Untouched({r}) /\ ScreenInv'
  BY <1>1, <1>2, QuietMove DEF RegistersInv
<1>5. QED
  BY <1>1, <1>3, <1>4, RestStep

\* The register goes back to rest with the ticket it shows.
LEMMA BackToRest ==
  ASSUME RegistersInv, NEW r \in Regs,
         UNCHANGED <<tickets, orders, seq, screen, jobs, cooked, early, shared>>,
         Now(r, Idle), Shows(r), doing[r].step # "adding" \/ ~IsOpen(screen[r].id)
  PROVE  RegistersInv'
<1>1. Moves(r) /\ doing'[r].step = "nothing"
  BY DEF RegistersInv, ScreenInv, Moves, Now, Idle
<1>2. QuietOf(r)'
  BY <1>1 DEF QuietOf
<1>3. Untouched({r}) /\ ScreenInv'
  BY <1>1, QuietMove DEF RegistersInv
<1>4. QED
  BY <1>2, <1>3, RestStep

LEMMA CancelPaymentStep ==
  ASSUME RegistersInv, NEW r \in Regs, CancelPayment(r)
  PROVE  RegistersInv'
<1>1. /\ UNCHANGED <<tickets, orders, seq, screen, jobs, cooked, early, shared>>
      /\ Now(r, Idle) /\ doing[r].step # "adding" /\ Shows(r)
  BY DEF CancelPayment, vars, memory, Shows
<1>2. QED
  BY <1>1, BackToRest

\* The register edits its own ticket and has the reply of its last RPC.
LEMMA OwnEditStep ==
  ASSUME RegistersInv, NEW r \in Regs, NEW t, Edits(screen[r].id, t),
         UNCHANGED <<jobs, cooked, early, shared>>, Moves(r),
         doing'[r].step \notin {"fetching", "paying"}, screen'[r].id = screen[r].id,
         screen[r].id \notin shared =>
            doing'[r].step = "adding" \/ screen'[r] = Copy(screen[r].id, t)
  PROVE  RegistersInv'
<1>1. /\ EngineInv' /\ OrdersStay /\ tickets'[screen[r].id] = t
      /\ \A other \in Ids \ {screen[r].id} : tickets'[other] = tickets[other]
      /\ t.status = "OPEN" /\ t.printed = tickets[screen[r].id].printed
      /\ IsOpen(screen[r].id) /\ screen[r].id \in Ids
  BY PutsKeepsEngine DEF RegistersInv, Edits, ScreenInv
<1>2. Untouched({r}) /\ ScreenInv'
  BY OwnEdit DEF RegistersInv
<1>3. QuietOf(r)'
  BY DEF QuietOf
<1>4. t.printed => screen[r].id \in early
  BY <1>1 DEF RegistersInv, KitchenInv, MarkedEarly
<1>5. KitchenInv'
  BY <1>1, <1>2, <1>3, <1>4, KitchenRests DEF RegistersInv
<1>6. QED
  BY <1>1, <1>2, <1>5 DEF RegistersInv

LEMMA ShowReplyMoves ==
  ASSUME RegistersInv, NEW r \in Regs, NEW t, Puts(screen[r].id, t), ShowReply(r),
         DOMAIN doing' = Regs, \A s \in Regs \ {r} : doing'[s] = doing[s], UNCHANGED shared
  PROVE  Moves(r) /\ screen'[r] = Copy(screen[r].id, t) /\ screen'[r].id = screen[r].id
<1>1. tickets'[screen[r].id] = t
  BY PutsKeepsEngine DEF RegistersInv
<1>2. screen' = [screen EXCEPT ![r] = Copy(screen[r].id, t)]
  BY <1>1 DEF ShowReply
<1>3. QED
  BY <1>2 DEF RegistersInv, ScreenInv, Moves, Copy

LEMMA TapAddStep ==
  ASSUME RegistersInv, NEW r \in Regs, TapAdd(r)
  PROVE  RegistersInv'
<1>1. /\ UNCHANGED <<doing, jobs, cooked, early, shared>> /\ ShowReply(r)
      /\ doing[r].step = "nothing" /\ screen[r].id \in Ids /\ EngineInv
      /\ DOMAIN doing' = Regs
  BY IdleIsFree DEF TapAdd, RegistersInv, ScreenInv
<1>2. PICK t : Edits(screen[r].id, t)
  BY <1>1, AddItemEdits DEF TapAdd
<1>3. Moves(r) /\ screen'[r] = Copy(screen[r].id, t) /\ screen'[r].id = screen[r].id
  BY <1>1, <1>2, ShowReplyMoves DEF Edits
<1>4. QED
  BY <1>1, <1>2, <1>3, OwnEditStep

LEMMA TapLineStep ==
  ASSUME RegistersInv, NEW r \in Regs, TapLine(r)
  PROVE  RegistersInv'
<1>1. /\ UNCHANGED <<doing, jobs, cooked, early, shared>> /\ ShowReply(r)
      /\ doing[r].step = "nothing" /\ screen[r].id \in Ids /\ EngineInv
      /\ DOMAIN doing' = Regs
  BY IdleIsFree DEF TapLine, RegistersInv, ScreenInv
<1>2. PICK t : Edits(screen[r].id, t)
  BY <1>1, LineOpsEdit DEF TapLine
<1>3. Moves(r) /\ screen'[r] = Copy(screen[r].id, t) /\ screen'[r].id = screen[r].id
  BY <1>1, <1>2, ShowReplyMoves DEF Edits
<1>4. QED
  BY <1>1, <1>2, <1>3, OwnEditStep

LEMMA TapLowerStep ==
  ASSUME RegistersInv, NEW r \in Regs, TapLower(r)
  PROVE  RegistersInv'
<1>1. /\ UNCHANGED <<screen, jobs, cooked, early, shared>>
      /\ screen[r].id \in Ids /\ EngineInv /\ DOMAIN doing = Regs /\ DOMAIN screen = Regs
  BY DEF TapLower, RegistersInv, ScreenInv
<1>2. PICK t : Edits(screen[r].id, t)
  BY <1>1, LineOpsEdit DEF TapLower
<1>3. \E key, qty : doing' = [doing EXCEPT ![r] = Adding(key, qty)]
  BY DEF TapLower, Now
<1>4. Moves(r) /\ doing'[r].step = "adding"
  BY <1>1, <1>3 DEF Moves, Adding
<1>5. QED
  BY <1>1, <1>2, <1>4, OwnEditStep

LEMMA AddAgainStep ==
  ASSUME RegistersInv, NEW r \in Regs, AddAgain(r)
  PROVE  RegistersInv'
<1>1. /\ UNCHANGED <<jobs, cooked, early, shared>> /\ Now(r, Idle)
      /\ doing[r].step = "adding" /\ Shows(r) /\ screen[r].id \in Ids /\ EngineInv
      /\ DOMAIN doing = Regs
  BY DEF AddAgain, RegistersInv, ScreenInv, Shows
<1>2. CASE AddItem(screen[r].id, doing[r].key, doing[r].qty) /\ ShowReply(r)
  <2>1. PICK t : Edits(screen[r].id, t)
    BY <1>1, <1>2, AddItemEdits
  <2>2. /\ DOMAIN doing' = Regs /\ \A s \in Regs \ {r} : doing'[s] = doing[s]
        /\ doing'[r].step = "nothing"
    BY <1>1 DEF Now, Idle
  <2>3. Moves(r) /\ screen'[r] = Copy(screen[r].id, t) /\ screen'[r].id = screen[r].id
    BY <1>1, <1>2, <2>1, <2>2, ShowReplyMoves DEF Edits
  <2>4. QED
    BY <1>1, <2>1, <2>2, <2>3, OwnEditStep
<1>3. CASE ~IsOpen(screen[r].id) /\ UNCHANGED <<vars, screen>>
  BY <1>1, <1>3, BackToRest DEF vars, memory
<1>4. QED
  BY <1>2, <1>3 DEF AddAgain

LEMMA PaymentRefusedStep ==
  ASSUME RegistersInv, NEW r \in Regs, PaymentRefused(r)
  PROVE  RegistersInv'
<1>1. /\ UNCHANGED <<screen, jobs, cooked, early, shared>> /\ Now(r, Idle)
      /\ doing[r].step = "paying" /\ Shows(r) /\ screen[r].id \in Ids /\ EngineInv
      /\ DOMAIN doing = Regs /\ DOMAIN screen = Regs
  BY DEF PaymentRefused, RegistersInv, ScreenInv, Shows
<1>2. CASE CheckoutRefused(screen[r].id, Tender(r), 0)
  <2>1. PICK t : /\ Edits(screen[r].id, t) /\ t.items = tickets[screen[r].id].items
                 /\ t.total = tickets[screen[r].id].total
    BY <1>1, <1>2, RefusalEdits
  <2>2. Moves(r) /\ doing'[r].step = "nothing"
    BY <1>1 DEF Moves, Now, Idle
  <2>3. screen[r].id \notin shared => screen[r] = Copy(screen[r].id, tickets[screen[r].id])
    BY <1>1, <2>1 DEF RegistersInv, ScreenInv, ScreenOf, Edits, IsOpen
  <2>4. screen[r].id \notin shared => screen'[r] = Copy(screen[r].id, t)
    BY <1>1, <2>1, <2>3 DEF Copy
  <2>5. QED
    BY <1>1, <2>1, <2>2, <2>4, OwnEditStep
<1>3. CASE UNCHANGED vars
  BY <1>1, <1>3, BackToRest DEF vars, memory
<1>4. QED
  BY <1>2, <1>3 DEF PaymentRefused


\* A set of naturals that is not empty has a least element.
LEMMA LeastOf ==
  ASSUME NEW S, S \subseteq Nat, S # {}
  PROVE  \E m \in S : \A n \in S : m <= n
<1> DEFINE R == {ss \in Nat \X Nat : ss[1] < ss[2]}
<1>1. IsWellFoundedOn(R, Nat)
  BY NatLessThanWellFounded DEF OpToRel
<1>2. \A x, y \in Nat : x < y => <<x, y>> \in R
  OBVIOUS
<1> HIDE DEF R
<1>3. PICK x \in S : \A y \in S : ~(<<y, x>> \in R)
  BY <1>1, WFMin
<1>4. \A y \in S : ~(y < x)
  BY <1>2, <1>3
<1>5. QED
  BY <1>4

\* The newest of some tickets is one of them.
LEMMA NewestIsOne ==
  ASSUME NEW S \in SUBSET Ids, S # {}
  PROVE  Newest(S) \in S
<1> DEFINE D == {MaxTickets - id : id \in S}
<1>1. \A id \in S : id \in Nat /\ MaxTickets - id \in Nat /\ MaxTickets \in Nat
  BY BoundsAssumption DEF Ids
<1>2. D \subseteq Nat /\ D # {}
  BY <1>1
<1> HIDE DEF D
<1>3. PICK m \in D : \A n \in D : m <= n
  BY <1>2, LeastOf
<1>4. PICK id \in S : m = MaxTickets - id
  BY <1>3 DEF D
<1>5. \A other \in S : MaxTickets - id <= MaxTickets - other
  BY <1>3, <1>4 DEF D
<1>6. \A other \in S : other <= id
  BY <1>1, <1>5
<1>7. QED
  BY <1>6 DEF Newest

\* The register shows a ticket it has opened or fetched; no handler acts.
LEMMA ShowStep ==
  ASSUME RegistersInv, NEW r \in Regs, NEW id \in Slips, Show(r, Copy(id, tickets'[id])),
         \A other \in Ids \ {id} : tickets'[other] = tickets[other],
         UNCHANGED <<jobs, cooked, early>>, EngineInv', OrdersStay, NEW what, Now(r, what),
         what.step # "fetching", QuietOf(r)',
         \/ tickets'[id] = tickets[id] /\ (id \notin shared => IsOpen(id))
         \/ tickets'[id].status = "OPEN" /\ ~tickets'[id].printed
  PROVE  RegistersInv'
<1>1. /\ DOMAIN doing' = Regs /\ \A s \in Regs \ {r} : doing'[s] = doing[s]
      /\ doing'[r] = what
  BY DEF RegistersInv, ScreenInv, Now
<1>2. shared \subseteq shared'
  BY DEF Show
<1>3. (InMemory(id)' /\ id \notin shared') => IsOpen(id)'
  BY <1>2 DEF InMemory, IsOpen
<1>4. Untouched({r}) /\ ScreenInv'
  BY <1>1, <1>3, ShowTicket DEF RegistersInv
<1>5. KitchenInv'
  BY <1>4, KitchenRests DEF RegistersInv
<1>6. QED
  BY <1>4, <1>5 DEF RegistersInv

LEMMA OpenTicketStep ==
  ASSUME RegistersInv, NEW r \in Regs, OpenTicket(r)
  PROVE  RegistersInv'
<1>1. /\ UNCHANGED <<jobs, cooked, early>> /\ Now(r, Idle) /\ EngineInv
      /\ Idle.step = "nothing" /\ r \in DOMAIN doing
  BY DEF OpenTicket, Idle, RegistersInv, ScreenInv
<1>2. QuietOf(r)'
  BY <1>1 DEF QuietOf, Now
<1>3. CASE EmptyOpen # {} /\ Show(r, Copy(Newest(EmptyOpen), tickets[Newest(EmptyOpen)]))
           /\ UNCHANGED vars
  <2> DEFINE id == Newest(EmptyOpen)
  <2>1. id \in EmptyOpen
    BY <1>3, NewestIsOne DEF EmptyOpen
  <2>2. PICK n \in Slips : n = id /\ IsOpen(n)
    BY <1>1, <2>1, OpenIsSlip DEF EmptyOpen, IsOpen
  <2>3. Show(r, Copy(n, tickets'[n])) /\ UNCHANGED <<tickets, orders, seq>>
    BY <1>3, <2>2 DEF vars, memory
  <2>4. EngineInv' /\ OrdersStay
    BY <1>1, <2>3, EngineRests
  <2>5. QED
    BY <1>1, <1>2, <2>2, <2>3, <2>4, ShowStep
<1>4. CASE NewTicket /\ Show(r, Copy(seq'["ticket"], EmptyTicket))
  <2>1. PICK n \in Slips : /\ n = seq'["ticket"] /\ seq' \in [SeqNames -> Nat]
                           /\ tickets' = [tickets EXCEPT ![n] = EmptyTicket]
                           /\ UNCHANGED orders /\ HasFields(EmptyTicket)
    BY <1>1, <1>4, NewTicketPuts
  <2>2. /\ tickets'[n] = EmptyTicket /\ DOMAIN tickets' = Ids
        /\ \A other \in Ids \ {n} : tickets'[other] = tickets[other]
    BY <1>1, <2>1 DEF EngineInv, Slips
  <2>3. EngineInv' /\ OrdersStay
    BY <1>1, <2>1, <2>2 DEF EngineInv, OrdersStay, InMemory, Slips
  <2>4. Show(r, Copy(n, tickets'[n]))
    BY <1>4, <2>1, <2>2
  <2>5. tickets'[n].status = "OPEN" /\ ~tickets'[n].printed
    BY <2>2 DEF EmptyTicket
  <2>6. QED
    BY <1>1, <1>2, <2>2, <2>3, <2>4, <2>5, ShowStep
<1>5. QED
  BY <1>3, <1>4 DEF OpenTicket

LEMMA FetchedStep ==
  ASSUME RegistersInv, NEW r \in Regs, Fetched(r)
  PROVE  RegistersInv'
<1>1. /\ UNCHANGED <<tickets, orders, seq, jobs, cooked, early>>
      /\ doing[r].step = "fetching" /\ Shows(r) /\ FetchOf(r) /\ QuietOf(r)
      /\ r \in DOMAIN doing /\ r \in DOMAIN screen /\ EngineInv
  BY DEF Fetched, vars, memory, Shows, RegistersInv, ScreenInv, KitchenInv
<1>2. PICK id \in Slips : id = doing[r].id /\ ((InMemory(id) /\ id \notin shared) => IsOpen(id))
  BY <1>1 DEF FetchOf
<1>3. CASE /\ InMemory(id) /\ Show(r, Copy(id, tickets[id]))
           /\ Now(r, IF doing[r].then = "edit" \/ tickets[id].items = <<>> THEN Idle
                     ELSE Paying(doing[r].then = "quiet"))
  <2>1. PICK what : /\ Now(r, what)
                    /\ what = Idle \/ what = Paying(doing[r].then = "quiet")
    BY <1>3
  <2>2. /\ what.step # "fetching"
        /\ (what.step = "paying" /\ what.quiet) => doing[r].then = "quiet"
    <3>1. CASE what = Idle
      BY <3>1 DEF Idle
    <3>2. CASE what = Paying(doing[r].then = "quiet")
      <4>1. what.quiet = (doing[r].then = "quiet")
        BY <3>2, Zenon DEF Paying
      <4>2. what.step = "paying"
        BY <3>2 DEF Paying
      <4>3. QED
        BY <4>1, <4>2
    <3>3. QED
      BY <2>1, <3>1, <3>2
  <2>3. Show(r, Copy(id, tickets'[id])) /\ screen'[r].id = id /\ shared \subseteq shared'
        /\ doing'[r] = what
    BY <1>1, <1>3, <2>1 DEF Show, Copy, Now
  <2>4. QuietOf(r)'
    BY <1>1, <1>2, <2>2, <2>3 DEF QuietOf, FromOrder, CookedOrComing, InMemory
  <2>5. EngineInv' /\ OrdersStay
    BY <1>1, EngineRests
  <2>6. tickets'[id] = tickets[id] /\ (id \notin shared => IsOpen(id))
    BY <1>1, <1>2, <1>3
  <2>7. QED
    BY <1>1, <2>1, <2>2, <2>3, <2>4, <2>5, <2>6, ShowStep
<1>4. CASE Now(r, Idle) /\ UNCHANGED <<screen, shared>>
  BY <1>1, <1>4, BackToRest
<1>5. QED
  BY <1>2, <1>3, <1>4 DEF Fetched

\* A ticket of a list is OPEN when it is taken up.
LEMMA TakeUpStep ==
  ASSUME RegistersInv, NEW r \in Regs, Free(r), NEW id \in Slips, NEW then, TakeUp(r, id, then),
         UNCHANGED <<screen, jobs, cooked, early>>, EngineInv', OrdersStay,
         \A other \in Ids \ {id} : tickets'[other] = tickets[other],
         tickets'[id].status = "OPEN", tickets'[id].printed => id \in early,
         then = "quiet" => CookedOrComing(id, tickets'[id].items)
  PROVE  RegistersInv'
<1>1. Untouched({r}) /\ ScreenInv'
  BY TakeUpTicket DEF RegistersInv
<1>2. doing'[r] = Fetching(id, then)
  BY DEF TakeUp, Now, RegistersInv, ScreenInv
<1>3. QuietOf(r)'
  BY <1>2 DEF QuietOf, FromOrder, CookedOrComing, Fetching
<1>4. KitchenInv'
  BY <1>1, <1>3, KitchenRests DEF RegistersInv
<1>5. QED
  BY <1>1, <1>4 DEF RegistersInv

LEMMA PickPastStep ==
  ASSUME RegistersInv, NEW r \in Regs, NEW id \in Ids, PickPast(r, id)
  PROVE  RegistersInv'
<1>1. /\ UNCHANGED <<tickets, orders, seq, screen, jobs, cooked, early>> /\ Free(r)
      /\ IsOpen(id) /\ EngineInv /\ MarkedEarly
  BY DEF PickPast, vars, memory, RegistersInv, KitchenInv
<1>2. PICK then \in {"edit", "pay"} : TakeUp(r, id, then)
  BY DEF PickPast
<1>3. id \in Slips
  BY <1>1, OpenIsSlip DEF IsOpen
<1>4. EngineInv' /\ OrdersStay
  BY <1>1, EngineRests
<1>5. tickets[id].status = "OPEN" /\ (tickets[id].printed => id \in early)
  BY <1>1 DEF MarkedEarly, IsOpen
<1>6. then # "quiet"
  BY <1>2
<1>7. QED
  BY <1>1, <1>2, <1>3, <1>4, <1>5, <1>6, TakeUpStep

LEMMA ListOpenStep ==
  ASSUME RegistersInv, NEW r \in Regs, NEW oid \in Oids, ListCheckout(r, oid) \/ ListEdit(r, oid)
  PROVE  RegistersInv'
<1>1. Free(r) /\ UNCHANGED <<screen, jobs, cooked, early>> /\ EngineInv
  BY DEF ListCheckout, ListEdit, RegistersInv
<1>2. PICK then : TakeUp(r, orders[oid].tid, then)
  BY DEF ListCheckout, ListEdit
<1>3. PICK t : OrdersStay /\ UNCHANGED seq /\ Reopens(oid, t)
  BY <1>1, PhoneCheckoutReopens, PhoneEditReopens DEF ListCheckout, ListEdit
<1>4. PICK id \in Slips : id = orders[oid].tid
  BY <1>3 DEF Reopens
<1>5. /\ tickets'[id] = t /\ DOMAIN tickets' = Ids /\ HasFields(t)
      /\ \A other \in Ids \ {id} : tickets'[other] = tickets[other]
      /\ t.status = "OPEN" /\ orders[oid] # NoRow
      /\ t.items = orders[oid].ticket.items /\ t.printed = orders[oid].ticket.printed
  BY <1>1, <1>3, <1>4 DEF Reopens, EngineInv, Holding, Slips
<1>6. EngineInv'
  BY <1>1, <1>3, <1>4, <1>5 DEF EngineInv, OrdersStay, InMemory, Slips
<1>7. CookedOrComing(id, t.items) /\ (t.printed => id \in early)
  BY <1>4, <1>5 DEF RegistersInv, KitchenInv, MarkedEarly, OrdersAreCooked
<1>8. tickets'[id].status = "OPEN" /\ (tickets'[id].printed => id \in early)
      /\ CookedOrComing(id, tickets'[id].items)
  BY <1>5, <1>7
<1>9. QED
  BY <1>1, <1>2, <1>3, <1>4, <1>5, <1>6, <1>8, TakeUpStep


LEMMA ListCancelStep ==
  ASSUME RegistersInv, NEW r \in Regs, NEW oid \in Oids, ListCancel(r, oid)
  PROVE  RegistersInv'
<1>1. /\ UNCHANGED <<screen, doing, jobs, cooked, early, shared>>
      /\ doing[r].step = "nothing" /\ Shows(r) /\ EngineInv /\ ScreenInv
  BY IdleIsFree DEF ListCancel, RegistersInv
<1>2. OrdersStay /\ UNCHANGED <<tickets, seq>>
  BY <1>1, PhoneCancelStays DEF ListCancel
<1>3. EngineInv'
  BY <1>1, <1>2 DEF EngineInv, OrdersStay, InMemory
<1>4. Moves(r)
  BY <1>1 DEF ScreenInv, Moves
<1>5. Untouched({r}) /\ ScreenInv'
  BY <1>1, <1>2, <1>4, QuietMove
<1>6. QuietOf(r)'
  BY <1>1 DEF QuietOf
<1>7. KitchenInv'
  BY <1>2, <1>1, <1>5, <1>6, KitchenRests DEF RegistersInv
<1>8. QED
  BY <1>3, <1>5, <1>7 DEF RegistersInv

LEMMA TapEndDayStep ==
  ASSUME RegistersInv, NEW r \in Regs, TapEndDay(r)
  PROVE  RegistersInv'
<1>1. /\ UNCHANGED <<screen, doing, jobs, cooked, early, shared>> /\ EngineInv /\ ScreenInv
  BY DEF TapEndDay, RegistersInv
<1>2. /\ DOMAIN tickets' = Ids /\ UNCHANGED <<orders, seq>>
      /\ \A id \in Ids : tickets'[id] = tickets[id] \/ ~InMemory(id)'
  BY <1>1, EndDayDrops DEF TapEndDay
<1>3. EngineInv' /\ OrdersStay
  BY <1>1, <1>2 DEF EngineInv, OrdersStay, InMemory
<1>4. Untouched({}) /\ ScreenInv'
  BY <1>1, <1>2, UnchangedIsSame, NoMove DEF ScreenInv
<1>5. KitchenInv'
  BY <1>1, <1>2, <1>3, <1>4, KitchenRests DEF RegistersInv
<1>6. QED
  BY <1>3, <1>4, <1>5 DEF RegistersInv

\* A handler more is one that cooks, and takes nothing away.
LEMMA MoreJobs ==
  ASSUME KitchenInv, UNCHANGED <<cooked, early>>, jobs \subseteq jobs'
  PROVE  CookingGoesOn /\ cooked' = [id \in Ids |-> cooked'[id]]
BY DEF KitchenInv, CookingGoesOn, CookedOrComing, StillComing

LEMMA HandlersAreJobs ==
  ASSUME NEW id \in Ids
  PROVE  /\ IsJob(ReceiptJob(id)) /\ IsJob(KitchenJob(id))
         /\ \A items, r : items # Unknown => IsJob(OrderJob(id, items, r))
BY DEF IsJob, ReceiptJob, KitchenJob, OrderJob, Job, Lefts

LEMMA ReprintStep ==
  ASSUME RegistersInv, NEW r \in Regs, NEW id \in Ids, Reprint(r, id)
  PROVE  RegistersInv'
<1>1. /\ UNCHANGED <<tickets, orders, seq, screen, doing, cooked, early, shared>>
      /\ jobs' = jobs \cup {ReceiptJob(id)}
      /\ doing[r].step = "nothing" /\ Shows(r) /\ EngineInv /\ ScreenInv /\ KitchenInv
  BY IdleIsFree DEF Reprint, vars, memory, RegistersInv
<1>2. EngineInv' /\ OrdersStay
  BY <1>1, EngineRests
<1>3. Untouched({}) /\ ScreenInv'
  BY <1>1, UnchangedIsSame, NoMove DEF ScreenInv
<1>4. CookingGoesOn /\ cooked' = [i \in Ids |-> cooked'[i]]
  BY <1>1, MoreJobs
<1>5. \A job \in jobs' : IsJob(job)
  BY <1>1, HandlersAreJobs DEF KitchenInv
<1>6. \A i \in Ids : SoldLines(i)'
  BY <1>1, <1>4, UnchangedIsSame, SoldStays
<1>7. \A i \in Ids : (IsOpen(i)' /\ tickets'[i].printed) => i \in early'
  BY <1>1 DEF KitchenInv, MarkedEarly, IsOpen, InMemory
<1>8. KitchenInv'
  BY <1>1, <1>2, <1>3, <1>4, <1>5, <1>6, <1>7, KitchenKeeps
<1>9. QED
  BY <1>2, <1>3, <1>8 DEF RegistersInv

\* A sale that is not quiet sends its lines to the kitchen; a quiet one is for
\* lines that were sent when they were put on hold.
LEMMA PayStep ==
  ASSUME RegistersInv, NEW r \in Regs, Pay(r)
  PROVE  RegistersInv'
<1> DEFINE id == screen[r].id
<1>1. /\ UNCHANGED <<screen, cooked, early, shared>> /\ jobs' = jobs \cup SalePrints(r)
      /\ doing' = [doing EXCEPT ![r] = Opening] /\ doing[r].step = "paying"
      /\ id \in Ids /\ EngineInv /\ ScreenInv /\ KitchenInv
  BY DEF Pay, Now, RegistersInv, ScreenInv
<1>2. PICK t : /\ IsOpen(id) /\ Puts(id, t) /\ t.items = tickets[id].items
               /\ t.printed = tickets[id].printed
  BY <1>1, CheckoutPuts DEF Pay
<1>3. /\ EngineInv' /\ OrdersStay /\ tickets'[id] = t /\ id \in Slips
      /\ \A other \in Ids \ {id} : tickets'[other] = tickets[other]
  BY <1>1, <1>2, PutsKeepsEngine DEF Puts
<1>4. Moves(r) /\ ~Shows(r)' /\ doing'[r].step = "opening"
  BY <1>1 DEF ScreenInv, Moves, Shows, Opening
<1>5. Untouched({r}) /\ ScreenInv'
  BY <1>1, <1>3, <1>4, TurnAway
<1>6. QuietOf(r)'
  BY <1>4 DEF QuietOf
<1>7. CookingGoesOn /\ cooked' = [i \in Ids |-> cooked'[i]]
  BY <1>1, MoreJobs
<1>8. \A job \in jobs' : IsJob(job)
  BY <1>1, HandlersAreJobs DEF KitchenInv, SalePrints
<1>9. ASSUME NEW i \in Ids PROVE SoldLines(i)'
  <2>1. CASE i # id
    BY <1>1, <1>3, <1>7, <2>1, UnchangedIsSame, SoldStays
  <2>2. CASE i = id
    <3>1. SUFFICES ASSUME id \notin early \cup shared
                   PROVE  StillComing(id, tickets[id].items) \/ KitchenJob(id) \in jobs'
      BY <1>1, <1>2, <1>3, <2>2 DEF SoldLines, CookedOrComing, StillComing, KitchenJob, Job
    <3>2. CASE doing[r].quiet
      <4>1. CookedOrComing(id, tickets[id].items)
        BY <1>1, <1>2, <3>1, <3>2 DEF KitchenInv, QuietOf, FromOrder, IsOpen
      <4>2. QED
        BY <1>1, <1>7, <4>1 DEF CookingGoesOn
    <3>3. CASE ~doing[r].quiet
      <4>1. ~tickets[id].printed
        BY <1>1, <1>2, <3>1 DEF KitchenInv, MarkedEarly
      <4>2. QED
        BY <1>1, <3>3, <4>1 DEF SalePrints
    <3>4. QED
      BY <3>2, <3>3
  <2>3. QED
    BY <2>1, <2>2
<1>10. ASSUME NEW i \in Ids, IsOpen(i)', tickets'[i].printed PROVE i \in early'
  <2>1. CASE i # id
    BY <1>1, <1>3, <1>10, <2>1 DEF KitchenInv, MarkedEarly, IsOpen, InMemory
  <2>2. CASE i = id
    BY <1>1, <1>2, <1>3, <1>10, <2>2 DEF KitchenInv, MarkedEarly
  <2>3. QED
    BY <2>1, <2>2
<1>11. KitchenInv'
  BY <1>1, <1>3, <1>5, <1>6, <1>7, <1>8, <1>9, <1>10, KitchenKeeps
<1>12. QED
  BY <1>3, <1>5, <1>11 DEF RegistersInv

LEMMA TapPhoneOrderStep ==
  ASSUME RegistersInv, NEW r \in Regs, TapPhoneOrder(r)
  PROVE  RegistersInv'
<1> DEFINE id == screen[r].id
           items == tickets[id].items
<1>1. /\ UNCHANGED <<screen, cooked, early, shared>> /\ jobs' = jobs \cup {OrderJob(id, items, r)}
      /\ doing' = [doing EXCEPT ![r] = Ordering]
      /\ id \in Ids /\ EngineInv /\ ScreenInv /\ KitchenInv
  BY DEF TapPhoneOrder, Now, RegistersInv, ScreenInv
<1>2. PICK oid \in Oids :
        /\ orders'[oid].tid = id /\ orders'[oid].ticket = tickets[id] /\ IsOrder(orders'[oid])
        /\ \A o \in Oids \ {oid} : orders'[o] = orders[o]
  BY <1>1, CreatePhoneOrderMoves DEF TapPhoneOrder
<1>3. /\ IsOpen(id) /\ id \in Slips /\ items # Unknown
      /\ tickets' = [tickets EXCEPT ![id] = NoRow]
      /\ seq' \in [SeqNames -> Nat] /\ DOMAIN orders' = Oids
  BY <1>1, CreatePhoneOrderMoves DEF TapPhoneOrder, Unknown
<1>4. ~InMemory(id)' /\ \A other \in Ids \ {id} : tickets'[other] = tickets[other]
  BY <1>1, <1>3 DEF EngineInv, InMemory
<1>5. EngineInv'
  BY <1>1, <1>2, <1>3, <1>4 DEF EngineInv, InMemory
<1>6. Moves(r) /\ ~Shows(r)' /\ doing'[r].step = "ordering"
  BY <1>1 DEF ScreenInv, Moves, Shows, Ordering
<1>7. Untouched({r}) /\ ScreenInv'
  BY <1>1, <1>3, <1>4, <1>6, TurnAway
<1>8. CookingGoesOn /\ cooked' = [i \in Ids |-> cooked'[i]]
  BY <1>1, MoreJobs
<1>9. \A job \in jobs' : IsJob(job)
  BY <1>1, <1>3, HandlersAreJobs DEF KitchenInv
<1>10. \A s \in Regs : QuietOf(s)'
  <2>1. QuietOf(r)'
    BY <1>6 DEF QuietOf
  <2>2. QED
    BY <1>1, <1>7, <1>8, <2>1, OthersPayments
<1>11. \A i \in Ids : SoldLines(i)'
  BY <1>1, <1>4, <1>8, UnchangedIsSame, SoldStays
<1>12. \A i \in Ids : (IsOpen(i)' /\ tickets'[i].printed) => i \in early'
  BY <1>1, <1>4 DEF KitchenInv, MarkedEarly, IsOpen, InMemory
<1>13. ASSUME NEW o \in Oids, orders'[o] # NoRow
       PROVE  /\ StillComing(orders'[o].tid, orders'[o].ticket.items)
              /\ orders'[o].ticket.printed => orders'[o].tid \in early
  <2>1. CASE o = oid
    <3>1. OrderJob(id, items, r).id = id /\ OrderJob(id, items, r).items = items
      BY DEF OrderJob, Job
    <3>2. StillComing(id, items)
      BY <1>1, <1>3, <3>1 DEF StillComing
    <3>3. tickets[id].printed => id \in early
      BY <1>1, <1>3 DEF KitchenInv, MarkedEarly
    <3>4. QED
      BY <1>2, <2>1, <3>2, <3>3
  <2>2. CASE o # oid
    <3>1. orders'[o] = orders[o] /\ orders[o].tid \in Ids
      BY <1>1, <1>2, <1>13, <2>2 DEF EngineInv, IsOrder, Slips
    <3>2. /\ CookedOrComing(orders[o].tid, orders[o].ticket.items)
          /\ orders[o].ticket.printed => orders[o].tid \in early
      BY <1>1, <1>13, <3>1 DEF KitchenInv, MarkedEarly, OrdersAreCooked
    <3>3. QED
      BY <1>8, <3>1, <3>2 DEF CookingGoesOn
  <2>3. QED
    BY <2>1, <2>2
<1>14. MarkedEarly' /\ OrdersAreCooked'
  BY <1>1, <1>12, <1>13 DEF MarkedEarly, OrdersAreCooked, CookedOrComing, StillComing
<1>15. KitchenInv'
  BY <1>8, <1>9, <1>10, <1>11, <1>14 DEF KitchenInv, IsJob
<1>16. QED
  BY <1>5, <1>7, <1>15 DEF RegistersInv


-----------------------------------------------------------------------------
(* The steps of a print handler *)

\* What is left of a handler after a step.
LEMMA LeftAfter ==
  ASSUME NEW own \in BOOLEAN, NEW left \in Lefts(own)
  PROVE  /\ Tail(left) # <<>> => Tail(left) \in Lefts(own)
         /\ (own /\ Tail(left) = <<>>) => Head(left) = "kitchen"
         /\ left = <<"kitchen">> => Head(left) = "kitchen"
<1>1. ASSUME NEW a, NEW b, NEW c
      PROVE  /\ Tail(<<a, b, c>>) = <<b, c>> /\ Tail(<<b, c>>) = <<c>> /\ Tail(<<c>>) = <<>>
             /\ Head(<<c>>) = c /\ <<b, c>> # <<>> /\ <<c>> # <<>>
  OBVIOUS
<1>2. CASE own
  <2>1. CASE left = <<"receipt", "mark", "kitchen">>
    <3>1. Tail(left) = <<"mark", "kitchen">> /\ left # <<"kitchen">>
      BY <1>1, <2>1
    <3>2. QED
      BY <1>1, <1>2, <3>1 DEF Lefts
  <2>2. CASE left = <<"mark", "kitchen">>
    <3>1. Tail(left) = <<"kitchen">> /\ left # <<"kitchen">>
      BY <1>1, <2>2
    <3>2. QED
      BY <1>1, <1>2, <3>1 DEF Lefts
  <2>3. CASE left = <<"kitchen">>
    BY <1>1, <2>3
  <2>4. QED
    BY <1>2, <2>1, <2>2, <2>3 DEF Lefts
<1>3. CASE ~own
  BY <1>1, <1>3 DEF Lefts
<1>4. QED
  BY <1>2, <1>3

\* Only the handler that acts changes; one with lines of its own goes on until
\* it has cooked them.
LEMMA StepDoneJobs ==
  ASSUME RegistersInv, NEW job \in jobs, StepDone(job)
  PROVE  /\ \A j \in jobs' : IsJob(j)
         /\ DOMAIN doing' = Regs /\ \A s \in Regs : doing'[s] = doing[s] \/ doing'[s] = Opening
         /\ \A j \in jobs : j # job => j \in jobs'
         /\ (job.items # Unknown /\ Head(job.left) # "kitchen") =>
              \E j \in jobs' : j.id = job.id /\ j.items = job.items
<1> DEFINE rest == Tail(job.left)
           next == [job EXCEPT !.left = rest]
<1>1. IsJob(job) /\ \A j \in jobs : IsJob(j)
  BY DEF RegistersInv, KitchenInv
<1>2. /\ rest # <<>> => rest \in Lefts(job.items # Unknown)
      /\ (job.items # Unknown /\ rest = <<>>) => Head(job.left) = "kitchen"
  BY <1>1, LeftAfter DEF IsJob
<1>3. DOMAIN doing' = Regs /\ \A s \in Regs : doing'[s] = doing[s] \/ doing'[s] = Opening
  BY DEF StepDone, RegistersInv, ScreenInv
<1>4. CASE rest = <<>>
  BY <1>1, <1>2, <1>3, <1>4 DEF StepDone
<1>5. CASE rest # <<>>
  <2>1. jobs' = (jobs \ {job}) \cup {next}
    BY <1>5 DEF StepDone
  <2>2. next.id = job.id /\ next.items = job.items /\ IsJob(next)
    BY <1>1, <1>2, <1>5 DEF IsJob
  <2>3. QED
    BY <1>1, <1>3, <2>1, <2>2
<1>6. QED
  BY <1>4, <1>5

LEMMA KitchenJobIsLast ==
  ASSUME NEW id
  PROVE  /\ Head(KitchenJob(id).left) = "kitchen" /\ KitchenJob(id).items = Unknown
         /\ KitchenJob(id).id = id
BY DEF KitchenJob, Job

\* A step that is not the kitchen's loses nothing that is on its way there.
LEMMA OtherPrints ==
  ASSUME RegistersInv, NEW job \in jobs, StepDone(job), Head(job.left) # "kitchen",
         UNCHANGED cooked, early \subseteq early'
  PROVE  /\ CookingGoesOn /\ cooked' = [id \in Ids |-> cooked'[id]]
         /\ \A id \in Ids : KitchenJob(id) \in jobs => KitchenJob(id) \in jobs'
<1>1. \A id \in Ids : \A items : CookedOrComing(id, items) => StillComing(id, items)
  BY StepDoneJobs DEF CookedOrComing, StillComing
<1>2. \A id \in Ids : KitchenJob(id) \in jobs => KitchenJob(id) \in jobs'
  BY StepDoneJobs, KitchenJobIsLast
<1>3. QED
  BY <1>1, <1>2 DEF CookingGoesOn, RegistersInv, KitchenInv

LEMMA TicketGoneStep ==
  ASSUME RegistersInv, NEW job \in jobs, TicketGone(job)
  PROVE  RegistersInv'
<1>1. /\ UNCHANGED <<tickets, orders, seq, screen, doing, cooked, early, shared>>
      /\ jobs' = jobs \ {job} /\ job.items = Unknown /\ ~InMemory(job.id)
      /\ EngineInv /\ ScreenInv /\ KitchenInv
  BY DEF TicketGone, vars, memory, RegistersInv
<1>2. EngineInv' /\ OrdersStay
  BY <1>1, EngineRests
<1>3. Untouched({}) /\ ScreenInv'
  BY <1>1, UnchangedIsSame, NoMove DEF ScreenInv
<1>4. CookingGoesOn /\ cooked' = [i \in Ids |-> cooked'[i]]
  BY <1>1 DEF KitchenInv, CookingGoesOn, CookedOrComing, StillComing
<1>5. ASSUME NEW i \in Ids PROVE SoldLines(i)'
  <2>1. CASE KitchenJob(i) = job
    <3>1. ~InMemory(i)'
      BY <1>1, <2>1, KitchenJobIsLast DEF InMemory
    <3>2. QED
      BY <3>1 DEF SoldLines
  <2>2. CASE KitchenJob(i) # job
    BY <1>1, <1>4, <2>2, UnchangedIsSame, SoldStays
  <2>3. QED
    BY <2>1, <2>2
<1>6. \A i \in Ids : (IsOpen(i)' /\ tickets'[i].printed) => i \in early'
  BY <1>1 DEF KitchenInv, MarkedEarly, IsOpen, InMemory
<1>7. KitchenInv'
  BY <1>1, <1>2, <1>3, <1>4, <1>5, <1>6, KitchenKeeps DEF KitchenInv
<1>8. QED
  BY <1>2, <1>3, <1>7 DEF RegistersInv

LEMMA PrintReceiptStep ==
  ASSUME RegistersInv, NEW job \in jobs, PrintReceipt(job)
  PROVE  RegistersInv'
<1>1. /\ UNCHANGED <<tickets, orders, seq, screen, cooked, early, shared>>
      /\ StepDone(job) /\ Head(job.left) # "kitchen"
      /\ EngineInv /\ ScreenInv /\ KitchenInv
  BY DEF PrintReceipt, vars, memory, RegistersInv
<1>2. EngineInv' /\ OrdersStay
  BY <1>1, EngineRests
<1>3. Untouched({}) /\ ScreenInv'
  BY <1>1, UnchangedIsSame, NoMove, StepDoneJobs
<1>4. /\ CookingGoesOn /\ cooked' = [i \in Ids |-> cooked'[i]]
      /\ \A i \in Ids : KitchenJob(i) \in jobs => KitchenJob(i) \in jobs'
  BY <1>1, OtherPrints
<1>5. \A i \in Ids : SoldLines(i)'
  BY <1>1, <1>4, UnchangedIsSame, SoldStays
<1>6. \A i \in Ids : (IsOpen(i)' /\ tickets'[i].printed) => i \in early'
  BY <1>1 DEF KitchenInv, MarkedEarly, IsOpen, InMemory
<1>7. \A j \in jobs' : IsJob(j)
  BY <1>1, StepDoneJobs
<1>8. KitchenInv'
  BY <1>1, <1>2, <1>3, <1>4, <1>5, <1>6, <1>7, KitchenKeeps
<1>9. QED
  BY <1>2, <1>3, <1>8 DEF RegistersInv

\* The mark changes nothing a screen or the kitchen looks at; an OPEN ticket
\* that gets it is an early one.
LEMMA MarkStep ==
  ASSUME RegistersInv, NEW job \in jobs, Mark(job)
  PROVE  RegistersInv'
<1> DEFINE id == job.id
<1>1. /\ UNCHANGED <<screen, cooked, shared>> /\ StepDone(job) /\ Head(job.left) # "kitchen"
      /\ early' = IF IsOpen(id) THEN early \cup {id} ELSE early
      /\ id \in Ids /\ EngineInv /\ ScreenInv /\ KitchenInv
  BY DEF Mark, RegistersInv, KitchenInv, IsJob
<1>2. \/ UNCHANGED memory
      \/ \E t : /\ InMemory(id) /\ Puts(id, t) /\ t.items = tickets[id].items
                /\ t.total = tickets[id].total /\ t.status = tickets[id].status
  BY <1>1, MarkPuts DEF Mark
<1>3. /\ EngineInv' /\ OrdersStay /\ \A i \in Ids : Same(i)
      /\ \A i \in Ids \ {id} : tickets'[i] = tickets[i]
  <2>1. CASE UNCHANGED memory
    BY <1>1, <2>1, EngineRests, UnchangedIsSame DEF memory
  <2>2. CASE \E t : /\ InMemory(id) /\ Puts(id, t) /\ t.items = tickets[id].items
                    /\ t.total = tickets[id].total /\ t.status = tickets[id].status
    <3>1. PICK t : /\ InMemory(id) /\ Puts(id, t) /\ t.items = tickets[id].items
                   /\ t.total = tickets[id].total /\ t.status = tickets[id].status
      BY <2>2
    <3>2. /\ EngineInv' /\ OrdersStay /\ tickets'[id] = t
          /\ \A i \in Ids \ {id} : tickets'[i] = tickets[i]
      BY <1>1, <3>1, PutsKeepsEngine
    <3>3. Same(id)
      BY <3>1, <3>2 DEF Same
    <3>4. QED
      BY <3>2, <3>3, UnchangedIsSame
  <2>3. QED
    BY <1>2, <2>1, <2>2
<1>4. Untouched({}) /\ ScreenInv'
  BY <1>1, <1>3, NoMove, StepDoneJobs
<1>5. early \subseteq early'
  BY <1>1
<1>6. /\ CookingGoesOn /\ cooked' = [i \in Ids |-> cooked'[i]]
      /\ \A i \in Ids : KitchenJob(i) \in jobs => KitchenJob(i) \in jobs'
  BY <1>1, <1>5, OtherPrints
<1>7. \A i \in Ids : SoldLines(i)'
  BY <1>1, <1>3, <1>6, SoldStays
<1>8. ASSUME NEW i \in Ids, IsOpen(i)', tickets'[i].printed PROVE i \in early'
  <2>1. CASE i = id
    BY <1>1, <1>3, <1>8, <2>1 DEF Same, IsOpen
  <2>2. CASE i # id
    BY <1>1, <1>3, <1>5, <1>8, <2>2 DEF KitchenInv, MarkedEarly, IsOpen, InMemory
  <2>3. QED
    BY <2>1, <2>2
<1>9. \A j \in jobs' : IsJob(j)
  BY <1>1, StepDoneJobs
<1>10. KitchenInv'
  BY <1>1, <1>3, <1>4, <1>6, <1>7, <1>8, <1>9, KitchenKeeps
<1>11. QED
  BY <1>3, <1>4, <1>10 DEF RegistersInv

LEMMA PrintKitchenStep ==
  ASSUME RegistersInv, NEW job \in jobs, PrintKitchen(job)
  PROVE  RegistersInv'
<1> DEFINE id == job.id
<1>1. /\ UNCHANGED <<tickets, orders, seq, screen, early, shared>> /\ StepDone(job)
      /\ cooked' = [cooked EXCEPT ![id] = @ \cup {Lines(job)}]
      /\ id \in Ids /\ EngineInv /\ ScreenInv /\ KitchenInv
  BY DEF PrintKitchen, vars, memory, RegistersInv, KitchenInv, IsJob
<1>2. EngineInv' /\ OrdersStay
  BY <1>1, EngineRests
<1>3. Untouched({}) /\ ScreenInv'
  BY <1>1, UnchangedIsSame, NoMove, StepDoneJobs
<1>4. /\ cooked' = [i \in Ids |-> cooked'[i]] /\ Lines(job) \in cooked'[id]
      /\ \A i \in Ids : cooked[i] \subseteq cooked'[i]
  BY <1>1 DEF KitchenInv
<1>5. CookingGoesOn
  <2>1. ASSUME NEW i \in Ids, NEW items, CookedOrComing(i, items) PROVE StillComing(i, items)
    <3>1. CASE items \in cooked[i]
      BY <1>4, <3>1 DEF StillComing
    <3>2. ASSUME NEW j \in jobs, j.id = i, j.items = items, items # Unknown
          PROVE  StillComing(i, items)
      <4>1. CASE j = job
        BY <1>4, <3>2, <4>1 DEF Lines, StillComing
      <4>2. CASE j # job
        BY <1>1, <3>2, <4>2, StepDoneJobs DEF StillComing
      <4>3. QED
        BY <4>1, <4>2
    <3>3. QED
      BY <2>1, <3>1, <3>2 DEF CookedOrComing
  <2>2. QED
    BY <1>1, <2>1 DEF CookingGoesOn
<1>6. ASSUME NEW i \in Ids PROVE SoldLines(i)'
  <2>1. CASE KitchenJob(i) = job
    <3>1. i = id /\ Lines(job) = tickets[id].items
      BY <2>1, KitchenJobIsLast DEF Lines
    <3>2. QED
      BY <1>1, <1>4, <3>1 DEF SoldLines, CookedOrComing
  <2>2. CASE KitchenJob(i) # job
    BY <1>1, <1>5, <2>2, UnchangedIsSame, SoldStays, StepDoneJobs
  <2>3. QED
    BY <2>1, <2>2
<1>7. \A i \in Ids : (IsOpen(i)' /\ tickets'[i].printed) => i \in early'
  BY <1>1 DEF KitchenInv, MarkedEarly, IsOpen, InMemory
<1>8. \A j \in jobs' : IsJob(j)
  BY <1>1, StepDoneJobs
<1>9. KitchenInv'
  BY <1>1, <1>2, <1>3, <1>4, <1>5, <1>6, <1>7, <1>8, KitchenKeeps
<1>10. QED
  BY <1>2, <1>3, <1>9 DEF RegistersInv

-----------------------------------------------------------------------------
(* The theorems *)

\* A commit, and a step that changes nothing, are not seen by the registers.
LEMMA UnseenStep ==
  ASSUME RegistersInv,
         UNCHANGED <<tickets, orders, seq, screen, doing, jobs, cooked, early, shared>>
  PROVE  RegistersInv'
<1>1. EngineInv' /\ OrdersStay
  BY EngineRests DEF RegistersInv
<1>2. Untouched({}) /\ ScreenInv'
  BY UnchangedIsSame, NoMove DEF RegistersInv, ScreenInv
<1>3. KitchenInv'
  BY <1>1, <1>2, KitchenRests DEF RegistersInv
<1>4. QED
  BY <1>1, <1>2, <1>3 DEF RegistersInv

LEMMA RegistersInvInit == RegistersInit => RegistersInv
<1> SUFFICES ASSUME RegistersInit PROVE RegistersInv
  OBVIOUS
<1>1. /\ \A id \in Ids : ~InMemory(id) /\ \A oid \in Oids : orders[oid] = NoRow
      /\ \A r \in Regs : screen[r].id = NoId /\ doing[r].step = "opening"
      /\ DOMAIN tickets = Ids /\ DOMAIN orders = Oids /\ seq \in [SeqNames -> Nat]
      /\ jobs = {} /\ cooked = [id \in Ids |-> {}]
      /\ DOMAIN screen = Regs /\ DOMAIN doing = Regs /\ NoId \in Ids
  BY BoundsAssumption DEF RegistersInit, Init, InMemory, Blank, Copy, Opening, Ids, NoId
<1>2. EngineInv
  BY <1>1 DEF EngineInv
<1>3. \A id \in Slips : At(id) = {}
  BY <1>1 DEF At, Slips
<1>4. ScreenInv
  BY <1>1, <1>3 DEF ScreenInv, OneAtEach, ScreenOf, FetchOf, Shows
<1>5. KitchenInv
  BY <1>1 DEF KitchenInv, MarkedEarly, OrdersAreCooked, QuietOf, SoldLines, IsOpen
<1>6. QED
  BY <1>2, <1>4, <1>5 DEF RegistersInv

LEMMA RegistersInvNext == RegistersInv /\ [RegistersNext]_allVars => RegistersInv'
<1> SUFFICES ASSUME RegistersInv, [RegistersNext]_allVars PROVE RegistersInv'
  OBVIOUS
<1>1. ASSUME NEW r \in Regs, Tap(r) PROVE RegistersInv'
  <2>1. CASE CloseWindow(r) \/ TapAdd(r) \/ TapLine(r) \/ TapLower(r) \/ TapCheckout(r)
    BY <2>1, CloseWindowStep, TapAddStep, TapLineStep, TapLowerStep, TapCheckoutStep
  <2>2. CASE \E id \in Ids : PickPast(r, id) \/ Reprint(r, id)
    BY <2>2, PickPastStep, ReprintStep
  <2>3. CASE TapPhoneOrder(r) \/ TapEndDay(r)
    BY <2>3, TapPhoneOrderStep, TapEndDayStep
  <2>4. CASE \E oid \in Oids : ListCheckout(r, oid) \/ ListEdit(r, oid) \/ ListCancel(r, oid)
    BY <2>4, ListOpenStep, ListCancelStep
  <2>5. QED
    BY <1>1, <2>1, <2>2, <2>3, <2>4 DEF Tap
<1>2. ASSUME NEW r \in Regs, GoOn(r) PROVE RegistersInv'
  BY <1>2, OpenTicketStep, AddAgainStep, FetchedStep, CancelPaymentStep, PayStep,
     PaymentRefusedStep DEF GoOn
<1>3. ASSUME NEW job \in jobs, JobStep(job) PROVE RegistersInv'
  BY <1>3, TicketGoneStep, PrintReceiptStep, MarkStep, PrintKitchenStep DEF JobStep
<1>4. CASE Commit \/ UNCHANGED allVars
  BY <1>4, UnseenStep DEF Commit, CommitWrite, allVars, vars, memory
<1>5. QED
  BY <1>1, <1>2, <1>3, <1>4 DEF RegistersNext

LEMMA AlwaysRegistersInv == RegistersSpec => []RegistersInv
BY RegistersInvInit, RegistersInvNext, PTL DEF RegistersSpec

\* What the customer is asked for is what is sold: a register at rest shows its
\* ticket as the engine has it, for any number of registers, whatever they do
\* between two RPCs of one tap (register_screen.dart and pos_manager.cpp).
THEOREM ScreenIsTrue == RegistersSpec => []ScreenIsTicket
<1>1. RegistersInv => ScreenIsTicket
  <2>1. ASSUME RegistersInv, NEW r \in Regs, Free(r), InMemory(screen[r].id),
               screen[r].id \notin shared
        PROVE  IsOpen(screen[r].id) /\ screen[r] = Copy(screen[r].id, tickets[screen[r].id])
    BY <2>1, IdleIsFree DEF RegistersInv, ScreenInv, ScreenOf
  <2>2. QED
    BY <2>1 DEF ScreenIsTicket
<1>2. QED
  BY AlwaysRegistersInv, <1>1, PTL

\* What was sold was sent to the kitchen, as a plain sale or as a phone order
\* that was put on hold, edited, taken up again and paid, for any number of
\* registers and handlers in any order (SalePrints, CreatePhoneOrder).
THEOREM SalesAreCooked == RegistersSpec => []SoldIsCooked
<1>1. RegistersInv => SoldIsCooked
  <2>1. ASSUME RegistersInv, NEW id \in Ids, InMemory(id), tickets[id].status = "CLOSED",
               ~Printing(id), id \notin early \cup shared
        PROVE  tickets[id].items \in cooked[id]
    <3>1. CookedOrComing(id, tickets[id].items) \/ KitchenJob(id) \in jobs
      BY <2>1 DEF RegistersInv, KitchenInv, SoldLines
    <3>2. QED
      BY <2>1, <3>1, KitchenJobIsLast DEF CookedOrComing, Printing
  <2>2. QED
    BY <2>1 DEF SoldIsCooked
<1>2. QED
  BY AlwaysRegistersInv, <1>1, PTL
=============================================================================

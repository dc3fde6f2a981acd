------------------------------ MODULE Registers ------------------------------
(***************************************************************************)
(* Registers (register_screen.dart) at work on one daemon: the ticket each *)
(* shows, what it is in the middle of, and the print handlers that run     *)
(* behind its back.                                                        *)
(*                                                                         *)
(* A tap is one or several RPCs and every await between two of them is a   *)
(* place where the other registers act.  A dialog (payment, replace) is    *)
(* modal; a register is taken to wait for the reply of a tap on a line.    *)
(* The prints of a sale are requested and not waited for.                  *)
(*                                                                         *)
(* Both printers are enabled and print, money is tendered exactly and      *)
(* without a fee, and the daemon lives: the rest of PosManager is in its   *)
(* own runs.                                                               *)
(***************************************************************************)
EXTENDS PosManager

CONSTANTS
  Regs,    \* registers
  MaxTaps, \* bound: things the staff do
  MaxJobs  \* bound: print handlers under way

VARIABLES
  screen,  \* _ticketNotifier of a register: a copy of its ticket
  doing,   \* what the register is in the middle of
  jobs,    \* print handlers under way
  cooked,  \* what the kitchen tickets printed for a ticket said
  early,   \* tickets whose receipt was marked printed while they were OPEN
  shared,  \* tickets taken up while a register was at them
  taps     \* things the staff have done

allVars == <<vars, screen, doing, jobs, cooked, early, shared, taps>>

\* What a reply carries of a ticket, as far as the screen uses it.
Copy(id, t) == [id |-> id, items |-> t.items, due |-> t.total]
Blank       == Copy(NoId, EmptyTicket)

Idle               == [step |-> "nothing"]
Opening            == [step |-> "opening"]   \* newTicket is to be called
Fetching(id, then) == [step |-> "fetching", id |-> id, then |-> then]
Paying(quiet)      == [step |-> "paying", quiet |-> quiet]   \* quiet: skipPrint
Ordering           == [step |-> "ordering"]  \* createPhoneOrder runs
Adding(key, qty)   == [step |-> "adding", key |-> key, qty |-> qty]

Free(r)      == doing[r] = Idle /\ screen[r] # Blank
Now(r, what) == doing' = [doing EXCEPT ![r] = what]

\* The registers that show a ticket or are about to.
At(id) ==
  {r \in Regs : \/ screen[r].id = id
                \/ doing[r].step = "fetching" /\ doing[r].id = id}

\* A print handler: the steps it has left, the lines it prints (an RPC of its
\* own has still to look its ticket up) and the register that waits for it.
Unknown == <<>>
Job(id, items, left, waiting) ==
  [id |-> id, items |-> items, left |-> left, waiting |-> waiting]
ReceiptJob(id) == Job(id, Unknown, <<"receipt", "mark">>, {})
KitchenJob(id) == Job(id, Unknown, <<"kitchen">>, {})
OrderJob(id, items, r) == Job(id, items, <<"receipt", "mark", "kitchen">>, {r})

Show(r, copy) ==
  /\ screen' = [screen EXCEPT ![r] = copy]
  /\ shared' = IF At(copy.id) \ {r} # {} THEN shared \cup {copy.id} ELSE shared

\* The register takes the reply of an RPC that has just changed its ticket.
ShowReply(r) ==
  LET id == screen[r].id IN screen' = [screen EXCEPT ![r] = Copy(id, tickets'[id])]

-----------------------------------------------------------------------------
(* The ticket of a register *)

\* new_ticket hands out the newest empty OPEN ticket, whoever shows it.
EmptyOpen == {id \in Ids : IsOpen(id) /\ tickets[id].items = <<>>}
Newest(ids) == CHOOSE id \in ids : \A other \in ids : other <= id

\* bootstrap, and the end of a checkout and of a phone order.
OpenTicket(r) ==
  /\ doing[r] = Opening
  /\ \/ /\ Ready /\ EmptyOpen # {}
        /\ Show(r, Copy(Newest(EmptyOpen), tickets[Newest(EmptyOpen)]))
        /\ UNCHANGED vars
     \/ NewTicket /\ Show(r, Copy(seq'["ticket"], EmptyTicket))
  /\ Now(r, Idle)
  /\ UNCHANGED <<jobs, cooked, early>>

\* The window is closed and opened again.
CloseWindow(r) ==
  /\ Free(r)
  /\ screen' = [screen EXCEPT ![r] = Blank] /\ Now(r, Opening)
  /\ UNCHANGED <<vars, jobs, cooked, early, shared>>

\* addItem and increaseItem.
TapAdd(r) ==
  /\ Free(r)
  /\ \E key \in LineKeys : AddItem(screen[r].id, key, 1)
  /\ ShowReply(r)
  /\ UNCHANGED <<doing, jobs, cooked, early, shared>>

\* The line of the ticket that has the key of a line on the screen.
LineOf(r, i) ==
  IF InMemory(screen[r].id)
  THEN FirstWithKey(tickets[screen[r].id].items, screen[r].items[i].key) ELSE 0

\* decreaseItem, removeItem and editItem.
TapLine(r) ==
  /\ Free(r)
  /\ \E i \in DOMAIN screen[r].items :
       /\ LineOf(r, i) # 0
       /\ \/ DecreaseItem(screen[r].id, LineOf(r, i))
          \/ RemoveItem(screen[r].id, LineOf(r, i))
          \/ \E key \in LineKeys : UpdateItem(screen[r].id, LineOf(r, i), key)
  /\ ShowReply(r)
  /\ UNCHANGED <<doing, jobs, cooked, early, shared>>

\* setItemQuantity with a lower quantity removes the line, whose reply it does
\* not look at, and adds it again.
TapLower(r) ==
  /\ Free(r)
  /\ \E i \in DOMAIN screen[r].items :
       /\ screen[r].items[i].qty > 1 /\ LineOf(r, i) # 0
       /\ RemoveItem(screen[r].id, LineOf(r, i))
       /\ Now(r, Adding(screen[r].items[i].key, screen[r].items[i].qty - 1))
  /\ UNCHANGED <<screen, jobs, cooked, early, shared>>

\* Mutant of AddAgain: the second reply is dropped like the first.
AddAgainUnseen(r) ==
  /\ doing[r].step = "adding" /\ Ready
  /\ \/ AddItem(screen[r].id, doing[r].key, doing[r].qty) /\ UNCHANGED screen
     \/ ~IsOpen(screen[r].id) /\ UNCHANGED <<vars, screen>>
  /\ Now(r, Idle)
  /\ UNCHANGED <<jobs, cooked, early, shared>>

\* The ticket may have been sold, cleared or put on hold in between: then the
\* register shows an error, and the line it has removed.
AddAgain(r) ==
  /\ doing[r].step = "adding" /\ Ready
  /\ \/ AddItem(screen[r].id, doing[r].key, doing[r].qty) /\ ShowReply(r)
     \/ ~IsOpen(screen[r].id) /\ UNCHANGED <<vars, screen>>
  /\ Now(r, Idle)
  /\ UNCHANGED <<jobs, cooked, early, shared>>

-----------------------------------------------------------------------------
(* Payment *)

TapCheckout(r) ==
  /\ Free(r) /\ screen[r].items # <<>>
  /\ Now(r, Paying(FALSE))
  /\ UNCHANGED <<vars, screen, jobs, cooked, early, shared>>

CancelPayment(r) ==
  /\ doing[r].step = "paying"
  /\ Now(r, Idle)
  /\ UNCHANGED <<vars, screen, jobs, cooked, early, shared>>

\* The total on the screen, in cash.
Tender(r) == [cash |-> screen[r].due, card |-> 0]

\* The prints of a sale, unless the flow is a quiet one or the ticket comes
\* back marked as printed.  (The staff may also choose not to print; not here.)
SalePrints(r) ==
  LET id == screen[r].id IN
  IF doing[r].quiet \/ tickets[id].printed THEN {} ELSE {ReceiptJob(id), KitchenJob(id)}

Pay(r) ==
  /\ doing[r].step = "paying"
  /\ Checkout(screen[r].id, Tender(r), 0)
  /\ Cardinality(jobs) + 2 <= MaxJobs
  /\ jobs' = jobs \cup SalePrints(r)
  /\ Now(r, Opening)
  /\ UNCHANGED <<screen, cooked, early, shared>>

\* The ticket is no longer OPEN, or costs more by now than the screen says.
PaymentRefused(r) ==
  /\ doing[r].step = "paying"
  /\ \/ CheckoutRefused(screen[r].id, Tender(r), 0)
     \/ Ready /\ ~IsOpen(screen[r].id) /\ UNCHANGED vars
  /\ Now(r, Idle)
  /\ UNCHANGED <<screen, jobs, cooked, early, shared>>

-----------------------------------------------------------------------------
(* Past orders and phone orders *)

\* A ticket of a list is picked.  A register, this one included, may be showing
\* it, and the snapshot of a phone order goes back over what was edited since.
TakeUp(r, id, then) ==
  /\ Now(r, Fetching(id, then))
  /\ shared' = IF At(id) # {} THEN shared \cup {id} ELSE shared

\* The Past Orders dialog offers EDIT and CHECKOUT for an OPEN ticket.
PickPast(r, id) ==
  /\ Free(r) /\ Ready /\ IsOpen(id)
  /\ \E then \in {"edit", "pay"} : TakeUp(r, id, then)
  /\ UNCHANGED <<vars, screen, jobs, cooked, early>>

\* getTicket, and the question whether the ticket on the screen may go, which
\* is taken to be answered at once.  An empty ticket is not taken to payment.
Fetched(r) ==
  /\ doing[r].step = "fetching" /\ Ready
  /\ LET id == doing[r].id IN
     \/ /\ InMemory(id)
        /\ Show(r, Copy(id, tickets[id]))
        /\ Now(r, IF doing[r].then = "edit" \/ tickets[id].items = <<>> THEN Idle
                  ELSE Paying(doing[r].then = "quiet"))
     \/ /\ ~InMemory(id) \/ screen[r].items # <<>>
        /\ Now(r, Idle)
        /\ UNCHANGED <<screen, shared>>
  /\ UNCHANGED <<vars, jobs, cooked, early>>

\* Reprint, offered for every ticket of the list, OPEN ones included.
Reprint(r, id) ==
  /\ Free(r) /\ Ready /\ InMemory(id)
  /\ Cardinality(jobs) < MaxJobs
  /\ jobs' = jobs \cup {ReceiptJob(id)}
  /\ UNCHANGED <<vars, screen, doing, cooked, early, shared>>

\* Mutant of TapPhoneOrder: the order is not sent to the kitchen.
TapPhoneOrderUncooked(r) ==
  /\ Free(r) /\ Cardinality(jobs) < MaxJobs
  /\ CreatePhoneOrder(screen[r].id)
  /\ jobs' = jobs \cup {Job(screen[r].id, tickets[screen[r].id].items, <<"receipt", "mark">>, {r})}
  /\ Now(r, Ordering)
  /\ UNCHANGED <<screen, cooked, early, shared>>

\* The order is on the hold list before its handler has printed anything.
TapPhoneOrder(r) ==
  /\ Free(r) /\ Cardinality(jobs) < MaxJobs
  /\ CreatePhoneOrder(screen[r].id)
  /\ jobs' = jobs \cup {OrderJob(screen[r].id, tickets[screen[r].id].items, r)}
  /\ Now(r, Ordering)
  /\ UNCHANGED <<screen, cooked, early, shared>>

\* The phone order list.
ListCheckout(r, oid) ==
  /\ Free(r) /\ PhoneCheckout(oid)
  /\ TakeUp(r, orders[oid].tid, "quiet")
  /\ UNCHANGED <<screen, jobs, cooked, early>>
ListEdit(r, oid) ==
  /\ Free(r) /\ PhoneEdit(oid)
  /\ TakeUp(r, orders[oid].tid, "edit")
  /\ UNCHANGED <<screen, jobs, cooked, early>>
ListCancel(r, oid) ==
  /\ Free(r) /\ PhoneCancel(oid)
  /\ UNCHANGED <<screen, doing, jobs, cooked, early, shared>>

\* The admin panel.
TapEndDay(r) ==
  /\ Free(r) /\ EndDay
  /\ UNCHANGED <<screen, doing, jobs, cooked, early, shared>>

-----------------------------------------------------------------------------
(* Print handlers *)

\* The handler has made a step; when it was its last, the register that waits
\* gets its answer.
StepDone(job) ==
  LET rest == Tail(job.left) IN
  IF rest = <<>>
  THEN /\ jobs' = jobs \ {job}
       /\ doing' = [r \in Regs |-> IF r \in job.waiting THEN Opening ELSE doing[r]]
  ELSE /\ jobs' = (jobs \ {job}) \cup {[job EXCEPT !.left = rest]}
       /\ UNCHANGED doing

\* get_ticket finds nothing: the RPC answers with an error.
TicketGone(job) ==
  /\ job.items = Unknown /\ Head(job.left) # "mark"
  /\ Ready /\ ~InMemory(job.id)
  /\ jobs' = jobs \ {job}
  /\ UNCHANGED <<vars, screen, doing, cooked, early, shared>>

Lines(job) == IF job.items = Unknown THEN tickets[job.id].items ELSE job.items

PrintReceipt(job) ==
  /\ Head(job.left) = "receipt"
  /\ job.items = Unknown => Ready /\ InMemory(job.id)
  /\ StepDone(job)
  /\ UNCHANGED <<vars, screen, cooked, early, shared>>

Mark(job) ==
  /\ Head(job.left) = "mark"
  /\ MarkTicketPrinted(job.id)
  /\ early' = IF IsOpen(job.id) THEN early \cup {job.id} ELSE early
  /\ StepDone(job)
  /\ UNCHANGED <<screen, cooked, shared>>

PrintKitchen(job) ==
  /\ Head(job.left) = "kitchen"
  /\ job.items = Unknown => Ready /\ InMemory(job.id)
  /\ cooked' = [cooked EXCEPT ![job.id] = @ \cup {Lines(job)}]
  /\ StepDone(job)
  /\ UNCHANGED <<vars, screen, early, shared>>

\* Nothing but the disk sees the commits of an operation one by one.
Commit ==
  /\ CommitWrite
  /\ UNCHANGED <<screen, doing, jobs, cooked, early, shared>>

-----------------------------------------------------------------------------
RegistersInit ==
  /\ Init
  /\ screen = [r \in Regs |-> Blank] /\ doing = [r \in Regs |-> Opening]
  /\ jobs = {} /\ cooked = [id \in Ids |-> {}] /\ early = {}
  /\ shared = {} /\ taps = 0

\* What the staff begin, and what the register goes on with.
Tap(r) ==
  \/ CloseWindow(r) \/ TapAdd(r) \/ TapLine(r) \/ TapLower(r) \/ TapCheckout(r)
  \/ \E id \in Ids : PickPast(r, id) \/ Reprint(r, id)
  \/ TapPhoneOrder(r)
  \/ \E oid \in Oids : ListCheckout(r, oid) \/ ListEdit(r, oid) \/ ListCancel(r, oid)
  \/ TapEndDay(r)

GoOn(r) ==
  \/ OpenTicket(r) \/ AddAgain(r) \/ Fetched(r)
  \/ CancelPayment(r) \/ Pay(r) \/ PaymentRefused(r)

JobStep(job) == TicketGone(job) \/ PrintReceipt(job) \/ Mark(job) \/ PrintKitchen(job)

RegistersNext ==
  \/ pending = <<>> /\ taps < MaxTaps /\ taps' = taps + 1 /\ \E r \in Regs : Tap(r)
  \/ pending = <<>> /\ UNCHANGED taps /\ \E r \in Regs : GoOn(r)
  \/ pending = <<>> /\ UNCHANGED taps /\ \E job \in jobs : JobStep(job)
  \/ Commit /\ UNCHANGED taps

RegistersSpec == RegistersInit /\ [][RegistersNext]_allVars

-----------------------------------------------------------------------------
(* Properties *)

\* A register at rest shows its ticket as the engine has it, OPEN, unless the
\* ticket was taken up a second time meanwhile or the engine no longer has it:
\* what the customer is asked for is what is sold (the reply of every RPC that
\* changes the ticket reaches the screen, whatever other registers do between
\* two RPCs of one tap).
ScreenIsTicket ==
  \A r \in Regs :
    LET id == screen[r].id IN
    (Free(r) /\ InMemory(id) /\ id \notin shared) =>
       IsOpen(id) /\ screen[r] = Copy(id, tickets[id])

Printing(id) == \E job \in jobs : job.id = id

\* What was sold was sent to the kitchen: once the print handlers are through,
\* a kitchen ticket had the very lines a CLOSED ticket was paid for, as a plain
\* sale or as a phone order that was put on hold, edited, taken up again and
\* paid.  The screen makes one exception, a ticket whose receipt was printed
\* before it was paid (early), and a ticket that two registers are at is another.
SoldIsCooked ==
  \A id \in Ids :
    (InMemory(id) /\ tickets[id].status = "CLOSED" /\ ~Printing(id)
       /\ id \notin early \cup shared) =>
       tickets[id].items \in cooked[id]
=============================================================================

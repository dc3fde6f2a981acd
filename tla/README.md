# Verification of ViewTouchF

ViewTouchF is a point of sale for a restaurant. One daemon, `vt_daemon` (C++),
keeps the state of the business in memory and in a SQLite file; registers
(Flutter) reach it over gRPC. This directory holds TLA+ modules of the daemon's
engine and database, of its start, service and end, and of the registers that
work on it; the TLC configurations that check them on small instances; and
proofs that TLAPS checks for all instances.

Paths below are those of the repository; `PM` is `src/core/pos_manager.cpp`,
`DB` is `src/core/database.cpp`, `RS` is
`flutter_ui/lib/screens/register_screen.dart`.

## 1. Inventory

| Component | State | Operations | Hard behaviour | What makes it correct |
|---|---|---|---|---|
| **Ticket lines and totals** (`core/ticket.*`, line code in PM) | `Ticket::items`, the money fields | add, remove, decrease, update a line; `compute_line_key`; `recalculate` | lines are found by key or by item; the key omits the price; rounding; `int32_t` sums | totals follow from the lines; a line has at least one unit; one line per key |
| **PosManager** (PM, `core/pos_manager.h`) | `tickets_`, `phone_orders_`, `ticket_seq_`, `phone_order_seq_`, `archived_reports_`, menu, settings, all under `mu_` | tickets, checkout, void/comp/refund, phone orders, end of day, settings, load | one operation changes memory at once and the disk in several commits; phone orders keep a *snapshot* of a ticket that may live on; end of day deletes | money of a paid ticket balances and stays; no order in progress is lost; numbers are unique; memory and disk agree |
| **Database** (DB, `core/database.h`) | tables `tickets` (+ lines, modifiers, payments), `phone_orders`, `sequences`, `archived_reports`, `settings`, `menu_items` | one `save_*`/`delete_*` per write, one `load_*` per table | `save_ticket`, `save_report` are transactions and throw; the other writes drop the result of `sqlite3_step`; a snapshot's row is an ordinary ticket row | what was acknowledged is read back at the next start |
| **Reports** (PM 544–714) | none of their own (archived reports are PosManager's) | `accumulate_report`, `finalize_report`, daily, history, range | live and archived days mix; comps and refunds; history is cut before the range is taken | the money of a report accounts for the tenders of its tickets |
| **Menu and seeding** (PM 152–230, `server/main.cpp` 76–573) | `menu_`, `menu_index_`, `menu_seeded` | load, add, update, delete, seed at first start | two containers and three tables kept in step; tables rewritten whole, ids unique over all dishes; GCP01 added at every start | list, index and tables agree; a start keeps the menu that was saved |
| **Settings** (PM 76–156, service 367–408) | name, tax rate, printers, card fee; the header of the printer | one setter each; `UpdateSettings` calls them in turn | not atomic as an RPC; the header under no lock | name and header agree |
| **gRPC service** (`server/pos_service_impl.cpp`) | none; calls PosManager and the printer | 29 RPCs on a thread pool | RPCs of several calls interleave: `PrintReceipt`, `WatchPrintStatus`, `CreatePhoneOrder`, `UpdateSettings`, `TicketAction VOID` | what was printed is what the ticket says; streams end |
| **Printing** (`printing/cups_printer.cpp`) | CUPS jobs (outside the process) | print receipt, kitchen, report; query job | printer absent, job never final, a query that fails or looks in another queue | a printed ticket is marked once, a failed one is not |
| **Daemon start and shutdown** (`server/main.cpp`) | `g_shutdown_requested`, `g_server` | load, seed, serve; signal/RPC sets a flag that a thread polls | crash at any point; shutdown racing RPCs | every acknowledged operation survives; a requested shutdown ends |
| **Migrations** (DB 120–331) | `user_version` | `migrate_to_1..5`, each in a transaction | crash between them; `ALTER TABLE` run twice | a version number says which columns exist |
| **Register screen** (`flutter_ui/lib/screens/register_screen.dart`) | the current ticket, menu, phone-order count | one or several RPCs per tap | two registers share a reused empty ticket; remove-then-add; checkout-then-new-ticket; recovery at start | no tap loses a line; each register sells its own ticket |
| **Admin screens, vtctl, generated code, packaging** | forms; files on disk | RPC calls; backup, restore, start | — | outside the engine's logic |

**Interaction.** A tap is a sequence of RPCs; an RPC is one or several calls of
`PosManager`; each call holds `mu_` from its first statement to its last,
database writes included, so calls are atomic towards one another but *not*
towards the end of the process: each write is a commit of its own. At start
`main` opens the database, migrates it, loads it into a new `PosManager`
(`load_from_database`), seeds the menu and serves.

The code's hazards, each at its line and with the properties aimed at it, are
the `hazards` of `PROJECT.json`.

## 2. Modules

```
                          SalesBook <─ refined by ─ PosManagerBook ─┐
                                                         │          │
TicketLines ── Database ── PosManager ─┬─ PosManagerClaims ── MCPosManager
                                       ├─ PosReports ──────── MCPosReports
                                       ├─ Registers ─┬─────── MCRegisters
                                       │             └─ RegistersProofs
                                       └─ PosManagerProofs ─┬─ PosReportsProofs
                                                            └─ PosManagerStepProofs
                                            ── PosManagerDurableProofs
                                            ── PosManagerBookProofs (with PosManagerBook)

Menu ── DaemonStart ─┬─ MCDaemonStart          Serving ─┬─ MCServing
                     └─ DaemonStartProofs               └─ ServingProofs
```

| Module | What it is |
|---|---|
| `TicketLines` | Pure operators: line keys, the searches of the line operations, the loop and rounding of `recalculate`, and what a save and a load make of the lines. |
| `Database` | The writes as values (`SaveTicket`, `DeleteTicket`, …), `Apply` (one committed write on the tables), `Throws` (whose failure leaves the operation), `LoadTickets` / `LoadOrders`. |
| `PosManager` | The state machine: memory, tables, process. |
| `PosReports` | The figures of the reports as functions of the state of `PosManager`; no action of its own, since the queries change nothing. |
| `SalesBook` | What a till promises its owner, without memory, tables or restarts: a sale is entered once, at most adjusted, reported on its day, and the book is emptied by the end of the day only. |
| `PosManagerBook` | The refinement mapping: while the daemon is up the book is in memory, while it is down in the tables. |
| `Registers` | Two (or more) register screens and the print handlers, composed with all of `PosManager`. |
| `Menu` | Pure operators: the menu, what the three menu tables keep of it and give back. |
| `DaemonStart` | `main` from the `Database` constructor to `Wait`: migrations, load, seed, the plate, and the menu RPCs afterwards; kills and failures anywhere. |
| `Serving` | The serving process as threads: signal, `Shutdown` RPC and its timer, watcher, `Server::Shutdown`, `main`; and the handlers of `WatchPrintStatus` and `UpdateSettings` step by step. |
| `PosManagerClaims` | Statements of the repository that the engine does not keep. |
| `MC*` | Instances: a toy menu, payments, fees, files of earlier releases, requests. |
| `*Proofs` | Lemmas and theorems. |

### State of PosManager and the code

| Variable | Code |
|---|---|
| `tickets` | `tickets_`, by ticket number; `NoRow` where the map has no entry. Id 0 is the empty string. |
| `orders` | `phone_orders_`; `ticket` is the snapshot, `tid` its id |
| `seq`, `archived`, `taxRate` | `ticket_seq_` and `phone_order_seq_`, `archived_reports_`, `tax_rate_bps_` |
| `db` | the tables behind `Database::db_` |
| `pending` | the writes the operation that holds `mu_` has still to make, in program order |
| `up`, `today`, `crashes`, `failures` | the process, `today_str()`, and two bounds |

An operation is one action, enabled only when `mu_` is free (`Ready`); it changes
the memory and leaves its writes in `pending`. `CommitWrite` commits the first;
`WriteFails` makes it fail, which drops the rest of the operation when the write
throws (`save_ticket`, `save_report`) and only that write when the result code is
ignored; `Crash` forgets memory and whatever is pending; `Restart` is
`load_from_database`. With `TornHandlers = FALSE` the daemon dies only between
operations. The actions carry the names of the functions they model: `NewTicket`,
`AddItem`, `RemoveItem`, `DecreaseItem`, `UpdateItem`, `Checkout` (and
`CheckoutRefused`, which leaves the card fee in the ticket), `VoidTicket`,
`CompTicket`, `RefundTicket`, `MarkTicketPrinted`, `EndDay`, `CreatePhoneOrder`,
`PhoneCheckout`, `PhoneCancel`, `PhoneEdit`, `SetTaxRate`.

Abstractions: a ticket is known by the number its sequence gave it; a line by its
key, unit price (modifiers included) and quantity; payments are pooled by type; a
`DailyReport` stands for the set of tickets accumulated into it and `PosReports`
computes its figures; times and names are left out. `UpdateItem` takes the price
of a line from its new key, as the code does (the dish's price stays, the
modifiers' change).

### The registers

| Variable of `Registers` | Code |
|---|---|
| `screen[r]` | `_ticketNotifier` (RS 28): the copy of the ticket in the last reply (`Copy`: id, lines, total) |
| `doing[r]` | where the `async` method of the last tap stands: `Opening` (before `newTicket`), `Adding` (between `removeItem` and `addItem`), `Paying` (payment dialog), `Fetching` (before `getTicket`), `Ordering` (`createPhoneOrder` runs) |
| `jobs` | handlers of `PrintReceipt`, `PrintKitchen` and `CreatePhoneOrder` in a gRPC thread, with the steps they have left |
| `cooked`, `early`, `shared` | history: what the kitchen was sent, tickets marked printed while OPEN, tickets two registers were at |

Each `await` between two RPCs of a tap is a point where the other register and
the print handlers act; each RPC is the `PosManager` action of that name. A
receipt job prints and marks in two steps (service 305, 310); the kitchen ticket
and the receipt of a sale are not waited for (RS 452); a phone order's are made
by the handler of `CreatePhoneOrder` after the order is on the list (service 785).

### The start

`DaemonStart` keeps the database file (`user_version`, which migrations' columns
it has, the menu tables, the modifiers of sold lines, `menu_seeded`), `menu_` and
`menu_index_`, and where `main` is. The constant `OldFiles` is what the first
start may find. `Migrate` is one transaction of `migrate()`; `MigrationRaises` is
one that throws (a column that is there; a NULL in `migrate_to_4`); `main` catches
nothing, so every exception is the end of the process (`StartFails`, `Ends`), and
`Boot` is systemd's restart. `SeedMenu` and `RecordSeed` are two commits. The menu
RPCs save first and adopt then (`SaveThenAdopt`).

### The serving process

| Variable of `Serving` | Code |
|---|---|
| `flag`, `server`, `watcher`, `main`, `timer` | `g_shutdown_requested`; `g_server`; the watcher thread (main.cpp 606); `main` in `Wait`, `join` or past them; the detached thread of the `Shutdown` RPC (service 851) |
| `call` | each call: not made, in its handler, answered |
| `job`, `polls`, `told` | the IPP state of the CUPS job; attempts and events of the watch (of an event's message only what it is about: the job, the query, the print) |
| `seen`, `left` | history: the statuses that were true of the job while it was watched; whether the client has left |
| `req`, `next`, `live`, `header` | the request of an `UpdateSettings` and the setter it calls next; the settings (memory and row: one lock); `CupsPrinter::store_name_` |

`store_name_` is a `std::string` assigned by handlers without a common lock; when
two are about to assign it, the result is either value or `Torn` (`Racing`).

`Answers` is what `query_job` may answer: what it makes of the job's state, while CUPS
has the job in its history, and at any time the ERROR of a job that is not found.
The code reads that from a list that is empty or could not be had, a default queue
that is not the one the job was sent to, or no default; the CUPS default and its
reachability are therefore not variables of the model. A stopped job may be resumed,
a finished one printed again (`JobSteps`). `mark_ticket_printed`, which the handler
calls after the submission, is in `PosManager` and `Registers`.

## 3. Runs

| Run | Question | Bounds |
|---|---|---|
| `sales` | Does anything rewrite a finished sale, lose the printed mark of a ticket that never was a phone order, unbalance its money, or break the abstract book (`SaleIsFinal`, `PrintedIsKept`, `SettledBalance`, `KeepsTheBook`)? | 1 ticket, 1 phone order, a split payment with a fee, 2 restarts |
| `orders` | Is anything acknowledged lost, an open order dropped or a number used twice when the daemon dies between operations (`DurableWhenIdle`, `OpenOrderIsKept`, `NewIdIsFresh`)? | 2 tickets, 1 order, 1 crash |
| `torn` | What holds when it dies *inside* an operation and a write fails (`TypeOK`, `SettledBalance`)? | 1 ticket, 2 line keys, a tax rate, 3 tenders, card fee or none, 1 crash, 1 failed write |
| `reports_days` | Does tender equal revenue, fees and change (`TenderIsAccountedFor`), does the first end of day change no figure (`FirstZKeepsTheFigures`), do reports of past days stay (`PastReportsStay`), is the book kept across days (`KeepsTheBook`)? | 2 tickets, 2 dates, fee, tax, split tender, change, 1 crash |
| `start` | From a file of any earlier release, with kills and failures: is the schema always that of its version, is the menu that is shown the one on disk, does a start keep it, and does the daemon serve again (`SchemaMatchesVersion`, `MenuIsDurable`, `MenuSurvivesStart`, `DaemonComesBack`)? | 12 files, 3 dishes (one in two versions, two that share a group id), 1 kill, 1 failure |
| `serve` | Does a daemon asked to end end, without cutting a call off; is a watch answered, to the end and with nothing that was not so; is the header the restaurant's name (`ShutdownEnds`, `NothingIsCutOff`, `WatchEnds`, `WatchTellsTheJob`, `HeaderIsTheName`)? | 2 updates, 1 watch of 2 polls, a job that moves at will, 2 starts |
| `registers` | Does a register at rest show its ticket as it is, and is what is sold sent to the kitchen (`ScreenIsTicket`, `SoldIsCooked`)? | 2 registers, 2 tickets, 1 phone order, 2 units, 6 taps, 2 print handlers at once |

Deadlock is checked in every run but two, `serve` (with `MaxStarts` starts used up
a daemon that has ended stays ended) and `registers` (the taps are bounded). In
`PosManager` `end_day` can always be called while the daemon is idle, a dead
daemon can always be started and a pending write can always commit.

*Bounds.* They are the smallest in which the cases meet. Two tickets are enough
for one to be reused, cleared or renumbered while another lives; the actions never
relate three. One phone order meets its own ticket in every status, which is the
whole of their interaction, because an order touches no other order. Two dates
give a past day, with and without a report, and today. One crash at every point of
every operation is the question of most runs; `sales` has two, because an order
that lost its ticket comes back without a number after the first and is written
back under the empty number before the second. Two keys and two units tell "first line with the key"
from "first line of the item", and an update from a merge. Prices are small so
that amounts above, at and below a total are all tried. In `start` the files cover
each schema version with the flag, with and without a modifier sold that left the
menu, and each release without the flag. In `serve` a watch
of two polls meets "a further attempt" and "the last attempt"; 60 differs in the
number of repetitions only; nobody reads the job of a watch that has ended, so it
stands still from there on. In `registers` six taps are enough to put an order on
hold, edit it on the other register and pay it; the run also passes with seven
(4.3 million states, not kept for its time). Registers are interchangeable
(`SYMMETRY`; no liveness is checked there).

*What the properties leave out.* `TypeOK` and `SettledBalance` need no assumption
on failures and are proved (§5). The other properties of `PosManager` are about
the time the process is up: a step that starts or ends it is judged by
`DurableWhenIdle`, which says that at the moment the daemon may die idle the
tables hold the same sequences, reports, rate, orders and never-on-hold tickets as
the memory, and by `KeepsTheBook`, which follows the sales through it. Tickets
that are or were in a phone order are excluded in both and in `PrintedIsKept`
because the code does lose state for them: that is what §4 shows. So is the ticket
without a number that an order with a lost ticket brings back (`Slips`).
`SaleIsFinal` likewise exempts a ticket an order on hold still holds.
`WatchTellsTheJob` takes the ERROR of a query that found no job for what it is, not
for a statement on the job. `DaemonComesBack` is about files that `migrate_to_4` can
migrate (§4; `OnlyOrphansRaise`, §5),
`MenuIsDurable` about menus without a shared group or modifier id,
`HeaderIsTheName` about starts in which no two updates overlapped, `ScreenIsTicket`
and `SoldIsCooked` about tickets not taken up twice, and `SoldIsCooked` about
tickets whose receipt was not printed before they were paid.

*Fairness.* `start`: `main` is a thread that runs, and systemd starts the daemon
again (`deploy/vt-daemon.service`, `Restart=always`): weak fairness of
`MainStep`. Kills and failures are bounded, as a failure that never ends would
keep any program down. `serve`: each thread of the process runs: weak fairness of
each handler's own steps, of the timer, the watcher, the draining server and
`main`. The steps of a watch contain calls of libcups, which are taken to return
(with a failure, if need be). Otherwise nothing is assumed of CUPS (a job may never
become final, and no query need find it), of its administrator, of clients (they may
never call or cancel) or of signals. `PosManager` waits for nothing and has no fairness.

*Mutants.* Each property has one in `PROJECT.json`: an operator next to the
definition it replaces, with a plausible bug of that code, that breaks the
property in the same run.

## 4. Where the repository says otherwise

Each of these runs ends in a counterexample. `PROJECT.json` quotes the line that
is contradicted.

| Run | Counterexample |
|---|---|
| `v_second_z` | Sell, `end_day`, `end_day`: the second report of the date, without the sale, replaces the first. |
| `v_edit` | Hold, EDIT, change the lines, CHECKOUT: the old lines are back. |
| `reports_v_collected` | Sell, refund: Total Collected is minus the sale. |
| `v_migration` | A file of schema 1 to 3 in which a modifier was sold that has left the menu: `migrate_to_4` writes NULL into a NOT NULL column, throws, and throws at each start systemd makes. |
| `v_seed` | A file without `menu_seeded`, as releases before the flag left it: the first start replaces the menu by the demo. |

Other consequences of the same code that a reader of the model will meet; no run
is spent on them, and the properties of §3 are stated so as not to claim their
opposite.

Engine and tables:

- `new_ticket` commits the row and then the sequence (PM 324): a crash or a failed
  write in between hands the number out again.
- `end_day` reports the tickets closed today and deletes the settled ones of every
  date (PM 728, 741); it commits the deletions before the report (PM 746, 753).
- `create_phone_order` (PM 787) commits the deletion of the ticket before it
  saves the order: a crash in between loses the order.
- After a restart the ticket of an order on hold is also an open ticket (PM 43).
- EDIT, then void, empty or sell, then `end_day`, then a restart: the order holds
  a default-constructed ticket whose id is the empty string (DB 773).
- Hold, EDIT, pay: the order is still pending and can be sold again (PM 871).
- CHECKOUT writes the snapshot last over the row of its live ticket (PM 864), and
  with it a receipt mark of before (DB 723).
- `update_item` can give two lines one key (PM 839); the table keeps one of them
  while the total counts both (DB 576).
- The summary of a range shows no subtotal, card fees and collected total
  (PM 682), and no day older than the newest 365 (PM 677).
- A sale made after `end_day` on the same date is hidden by the archived report
  (PM 613).

Start and menu:

- GCP01 is added at each start when it is not on the menu (`main.cpp` 478), also
  when it was deleted.
- A second dish that is saved with a group or modifier id of another one keeps it
  until the next start (DB 428): the insert of the table is refused and nobody
  looks.
- When the write of `menu_seeded` fails unnoticed (DB 373), the next start seeds
  again.

Handlers and registers:

- Two overlapping `UpdateSettings` can leave the name of the settings and the
  header of the receipts different until the next start; `set_store_name` is a data
  race (`cups_printer.cpp` 78).
- `query_job` answers ERROR, which ends the watch, of a job that did not fail: when
  the CUPS default is another queue *now* or there is none (`cups_printer.cpp` 614),
  when `cupsGetJobs` fails or the job has left the history of CUPS (621, 648), and
  when the job is only stopped and will be resumed (638). Only the message of the
  event tells the first two from the last, and `WatchTellsTheJob` goes by it.
- `PrintReceipt` takes the queue of the command line or the CUPS default and not
  the `receipt_printer_name` of the settings.
- A receipt reprinted for an OPEN ticket suppresses receipt *and* kitchen ticket of
  its sale (RS 449).
- An EDITed phone order paid at the register prints a second receipt when the
  snapshot was taken before its mark; one that was made while the printer was off
  gets none when it is checked out from the list (RS 668).
- `end_day` deletes the empty ticket a register shows; the register gets errors
  until it opens another (PM 741).
- Two registers, or one that declines the replace dialog after a second EDIT, can
  be at one ticket: the other screen is stale (RS 513).
- Two taps whose replies cross leave the older reply on the screen (RS 234).

## 5. Proofs

| Theorem | Says | Assumes |
|---|---|---|
| `PosManagerProofs!TaxIsNearestCent` | the tax is an integer within half a cent of the exact one, halves away from zero, for every subtotal and rate | – |
| `PosManagerProofs!BillFollowsTheLines` | adding, removing and decreasing change the subtotal by exactly what was added or taken off, at the price the line has, whatever the ticket held | – |
| `PosManagerProofs!OnlyEditsClash` | adding, removing and decreasing never give two lines one key; an edit does just when it takes the key of another line | – |
| `PosManagerProofs!BillSurvivesRestart` | the lines a load gives back add up to the subtotal of those that were saved, when no two have one key | – |
| `PosManagerProofs!TypeCorrect` | `Spec => []TypeOK` | the three below |
| `PosManagerProofs!SettledAlwaysBalances` | `Spec => []SettledBalance` | the three below |
| `PosManagerStepProofs!PastReportsAreKept` | `Spec => PastReportsStay` | the three below |
| `PosManagerStepProofs!NumbersAreFresh` | `Spec => NewIdIsFresh` | and `AtomicHandlers` |
| `PosManagerStepProofs!SalesAreFinal` | `Spec => SaleIsFinal` | and `AtomicHandlers`, `NoRowIsNoReport` |
| `PosManagerStepProofs!OrdersAreKept` | `Spec => OpenOrderIsKept` | and `AtomicHandlers` |
| `PosManagerDurableProofs!AcknowledgedIsDurable` | `Spec => []DurableWhenIdle` | and `AtomicHandlers`, `NoRowIsNoRate` |
| `PosManagerDurableProofs!MarksAreKept` | `Spec => PrintedIsKept` | and `AtomicHandlers`, `NoRowIsNoRate` |
| `PosManagerBookProofs!TheBookIsKept` | `Spec => KeepsTheBook` | and `AtomicHandlers`, `NoRowIsNoReport`, `NoRowIsNoRate`, `NoRowIsNoEntry` |
| `PosReportsProofs!TenderIsAlwaysAccountedFor` | `Spec => []TenderIsAccountedFor` | the three below |
| `PosReportsProofs!FirstZIsFaithful` | `Spec => FirstZKeepsTheFigures` | the three below |
| `RegistersProofs!ScreenIsTrue` | `RegistersSpec => []ScreenIsTicket` | `BoundsAssumption` |
| `RegistersProofs!SalesAreCooked` | `RegistersSpec => []SoldIsCooked` | `BoundsAssumption` |
| `DaemonStartProofs!SchemaSafe` | `Spec => []SchemaMatchesVersion` | `OldFilesAssumption` |
| `DaemonStartProofs!OnlyOrphansRaise` | on a file whose schema is that of its version, a migration raises only in `migrate_to_4` and only for a modifier that left the menu | `OldFilesAssumption` |
| `DaemonStartProofs!MenuIsSafe` | `Spec => []MenuIsDurable` | `OldFilesAssumption`, `DishesAssumption`, `PlateAssumption` |
| `DaemonStartProofs!StartsKeepMenus` | `Spec => MenuSurvivesStart` | the same |
| `ServingProofs!EndSafe` | `Spec => []NothingIsCutOff` | – |
| `ServingProofs!WatchIsTrue` | `Spec => []WatchTellsTheJob` | `ServingAssumption` |
| `ServingProofs!HeaderSafe` | `Spec => []HeaderIsTheName` | `ServingAssumption` |

Every invariant and every action property of the runs that pass is stated by one of
these. *Only model-checked*: the liveness properties `DaemonComesBack`,
`ShutdownEnds` and `WatchEnds`; liveness under fairness and `ENABLED` are beyond
the prover.

*Assumptions on constants.* `PosManager` names three: `BoundsAssumption` (bounds are
naturals, at least one day and one unit), `MoneyAssumption` (prices are integers,
rates, payments and fees natural) and `NoRowAssumption` (`NoRow` is not a ticket and
not an order). `OldFilesAssumption` says of each file a first start may find that its
schema is that of its version, or that it is at version 0 with the tables of release
2.6.0, and that no two rows of a menu table have one id, their primary key (DB 201,
208, 215). `DishesAssumption` says that the dishes of the demo have ids of their own,
groups and modifiers included, as the 16 dishes of `main.cpp` 80–471 have, and that
no dish names two of its own groups or modifiers alike: the editor of the admin
screen draws their ids (`_uniqueId`, `admin_menu_tab.dart` 279) and refuses a modifier
id given twice (447); two groups of one dish are alike only when somebody types the
same id over both. `PlateAssumption` says that no other dish has a group with an id of
the plate's (`GCP1_…`, `main.cpp` 486): the plate is added to a menu the restaurant
wrote, and if one of its groups landed under another dish the start would change that
dish. Without the two the theorems about the menu are false, for the reason of the
second point under *Start and menu* in §4. TLC evaluates all of them on the instances. `ServingAssumption` says that the
update calls are not the other two and what the settings' names are.

Some theorems have hypotheses of their own. `AtomicHandlers` (the daemon dies only
between operations and writes succeed) is needed: without it the properties are
false (§4, first points), but for `OpenOrderIsKept`, whose proof rests on it where
a phone order is given a number. `NoRowIsNoReport`, `NoRowIsNoRate` and
`NoRowIsNoEntry` say that the value for "no row" is not a report, not a tax rate and
not an entry of the book; TLC cannot compare a model
value with a set, so they are hypotheses of the theorems and not assumptions of the
module.

*Arguments.* `SettledBalance` is not inductive by itself: a ticket reaches memory
from a row (`Restart`), a row from a pending write (`CommitWrite`), a write from
memory, a report from tickets and a live ticket from an order's snapshot, and the
arithmetic needs the types. The inductive invariant is therefore the shape of the
whole state with every place a ticket can be in (memory, snapshots, tables,
reports, pending writes) filled by *good* tickets: `IInv ==
ShapeOK(GoodTicket, GoodRow)`, where a good ticket has the ticket's type and is
`Balanced`. `ShapeOK(Ticket, TicketRow)` is `TypeOK`. The lemmas
`RecalculatedShape`, `PaidShape`, `RowShape`, `LoadedShape` say that what an
operation makes of a good ticket is good (recalculation only of OPEN ones; the
card fee of a refused payment only in OPEN ones); `ApplyShape` and `LoadShape`
carry that through the tables; one lemma per action gives the step; `NextIInv`
collects them. Since `WriteFails` and torn `Crash` are steps of `Next`, the
theorems hold through every partial write.

`NumbersAreFresh` needs that no number in use, in memory, in an order, in a row or
in a pending write, is above the last one handed out, and that after the writes
under way the tables will hold that last number: `FInv`, inductive together with
`IInv` under `AtomicHandlers`. `SalesAreFinal` rests on it where a new ticket might
take the place of a sale. `PastReportsAreKept` looks at the writers of
`archived_reports_`: only `EndDay`, and only today's entry.

`OrdersAreKept` needs the same of the numbers of phone orders (`OInv`): the snapshot
that takes a ticket out of memory must not land on an order that exists.

`AcknowledgedIsDurable` needs to say what is on its way. `DInv` says of every cell
of every table that it agrees with the memory or that a waiting write will make it
agree, and that no waiting write leaves anything but what is in memory; every
operation establishes it from the agreement of the idle state, and a commit keeps
it. Two more parts carry it through a restart: a row's lines survive a load and a
save (`RowsAreStored`; the lemma `StoredAgain` of `PosManagerProofs`), and a ticket
that was ever in an order stays excluded (`OrderedStay`), whichever of memory and
table remembers it.

`MarksAreKept` adds that a ticket whose row is marked as printed is marked in memory
(`MarkInv`), so that a later save of the whole ticket writes the mark again; an
operation starts from tables that agree with the memory and keeps the mark.

`TheBookIsKept` shows that `PosManager` implements `SalesBook`. It takes all four
invariants and one more, `KInv`: an OPEN ticket that never was in an order has no
date, so that the date it is closed with is today's (`closed_at` is only set when
empty); and a ticket in a report is gone from memory and its number handed out, so
that it neither comes back nor gets onto hold. `FInv` gives that a new number has no
entry, `OInv` that a ticket on hold stays out, `DInv` that the book in the tables is
the book in memory at the moment the daemon dies or starts (`SameEntry`,
`MovedBook`). Each action is then `Enter`, `Adjust`, `EndOfDay`, `Tomorrow` or a
stutter of the book.

`SchemaSafe` needs `FileInv`: the file keeps its fields, its version is one of
0..5 and its schema is that of the version; only `Migrate` changes either, both in
one commit. `EndSafe` needs `EndInv`: no call runs once the server has stopped,
because a draining server takes none and stops only when none is left, and `main`
passes `Wait` only then. `WatchIsTrue` needs `WatchInv`: a watch that goes on has
been told nothing final, one without a job nothing at all, and the status of a job
that CUPS still has is among those it had (`seen`), so that every answer of a query
is so (`AnswerIsSo`) and stays so while the job moves on.

`HeaderSafe` needs to say where an update stands (`HeaderInv`): while no two have
overlapped since the start, at most one is under way; before its name setter the
settings and the header still agree, between that setter and the printer's the
settings already have the name the header is about to get, and a blank name reaches
neither.

`TenderIsAlwaysAccountedFor` needs nothing beyond `IInv`: every report is a finite
set of good tickets, and a good ticket that was sold has paid what it owed, its fee
and the change it got back, and the total is subtotal and tax. `ReportAccounts` adds
that up. `FirstZIsFaithful` needs a reason why the live report and the archived one
are about the same tickets: nothing is dated after today, in memory, in the tables or
on its way to them (`DateInv`), so the range query over today finds one report, live
before `end_day` and archived after it (`TodayIsSummedUp`).

*Sums.* What a fold computes is an induction over data, for which the prover has no
rule. `SumFunctionOnSet` is defined by a recursive function on the subsets of a set,
though, and facts about it follow from a set of naturals having a least element: a
least cardinality at which the function would not exist (`SumsAreSums`), or at which a
family would miss a subset (`BySubsets`), leads to a contradiction. From that come the
type of a sum (`SumType`), sums of two figures, sums over two sets that correspond
(`SumMoves`) and a set without one element (`SumWithout`). The subtotal of a ticket is
such a sum over the positions of its lines. `BillFollowsTheLines` changes one figure,
appends one or moves those after a gap up by one; `BillSurvivesRestart` matches each
loaded line with the one that was saved. `OnlyEditsClash` names the exception of
`BillSurvivesRestart`: after an edit onto the key of another line the table has one of
the two and the total counts both (§4).

`ScreenIsTrue` and `SalesAreCooked` are about `PosManager` under the registers, but
need of it only `EngineInv` (a ticket in memory has its fields and a number) and what
each operation does to tickets and orders (`Puts`, `Edits`, `Reopens`); prices and
sums play no part. `ScreenInv` says that of each ticket nobody has taken up twice at
most one register is the owner (`OneAtEach`), that the ticket a register shows is OPEN
and, unless a line is being put back, as shown, and that a ticket about to be fetched
is OPEN. `KitchenInv` says where the lines of a sale are on their way to the kitchen:
a handler that is under way (`KitchenJob`), the handler of the phone order, or the
quiet payment of lines that a phone order was held with (`QuietOf`, `FromOrder`); that
no ticket is marked as printed while OPEN unless it is in `early`; and that every
order's snapshot is cooked or coming (`OrdersAreCooked`).

`MenuIsSafe` and `StartsKeepMenus` rest on `MenuInv`: the tables are keyed and keep the
plate's groups for the plate, the dishes in memory have different ids, list and index
agree, and the tables give back the menu: always until `main` has made sure of the
plate, afterwards as long as the admin keeps the ids of groups and modifiers apart.
`SaveLoads` shows that a menu with ids of its own comes back from the tables as it was
saved, `LoadedShape` that what a load gives is such a menu, whichever release wrote
the tables, and `PlateLeavesTheMenu` that appending the plate changes no row of
another dish.

## 6. Not modelled, and why

- `int32_t` overflow: the amounts of a restaurant's tickets are far from it. The
  theorems about subtotals are about integers.
- A single statement that fails inside a transaction that still commits
  (`DB` 536–592 ignores results): only the cases that the code brings about by
  itself, two lines with one key (`StoredLines`) and two dishes with one id
  (`SavedGroups`, `SavedModifiers`), are in.
- A read that fails while tables are loaded: `load_setting` and the loops
  of `load_menu` drop the end code of `sqlite3_step` (`DB` 361–371, 448–505), so a
  row that could not be read is taken for the last one.
- A file with a `user_version` above 5 (a downgrade).
- The price of a line after a price change of its dish (PM 360): `PosManager` has
  a fixed menu, `DaemonStart` has no tickets.
- In `Registers`: void, comp and refund from the lists, the staff's own "no print",
  the time the replace question is open, two taps of one register at once, printers
  that are off or fail, network failures. In `Serving`: the write of a setting that
  fails (it is in `PosManager` for the tax rate).
- Item sales and leg counts of reports; the read-only RPCs; `PrintReport`,
  `ListPrinters`.
- Admin screens, vtctl, ESC/POS layout, generated code, packaging: no state of
  their own that the engine depends on.

## 7. Plan

Done: lines, database, engine and reports; the refinement of `SalesBook`, checked and
proved; menu, migrations and start; the serving process with its liveness; the
registers; a theorem for each invariant and action property of the passing runs.
Worth adding next, in this order:

1. Price changes: the menu of `DaemonStart` composed with the lines of
   `TicketLines`, for the key that leaves the price out.
2. Replies that cross on one register, and network failures in `Registers`.
3. `% 2^32` arithmetic of `recalculate` as a pure module.
4. `OpenOrderIsKept` without `AtomicHandlers`; what of `DurableWhenIdle` holds
   after a torn operation (which cells may differ, and until when).

------------------------------- MODULE Serving -------------------------------
(***************************************************************************)
(* vt_daemon while it serves: the threads that end it, and the RPC handlers *)
(* that run side by side and hold no lock from their first statement to    *)
(* their last.                                                             *)
(*                                                                         *)
(* SIGTERM and the Shutdown RPC only set g_shutdown_requested; a thread    *)
(* polls it and calls Server::Shutdown, which refuses new calls and waits  *)
(* for those under way; main sleeps in Server::Wait.  The calls modelled   *)
(* are Shutdown, one WatchPrintStatus, which follows its CUPS job for up   *)
(* to 60 polls, and the UpdateSettings of several admin screens.           *)
(***************************************************************************)
EXTENDS Integers, Sequences, SequencesExt

CONSTANTS
  Updaters,    \* UpdateSettings calls
  Fields,      \* the settings of the instance, among AllSettings
  Requests,    \* what a client may send: a value, or Blank, for each field
  Blank,       \* the empty name, the tax rate that is not above 0
  Torn,        \* a store_name_ two threads have written at once
  Defaults,    \* the settings of a new installation
  MaxPolls,    \* polls of WatchPrintStatus: 60 in the code
  MaxStarts    \* bound: starts of the daemon

ShutdownCall == "Shutdown"
WatchCall    == "WatchPrintStatus"
Calls == {ShutdownCall, WatchCall} \cup Updaters

AllSettings ==
  {"restaurant_name", "tax_rate_bps", "receipt_printer_name", "receipt_printer_enabled",
   "kitchen_printer_name", "kitchen_printer_enabled", "cc_fee_cents", "cc_fee_bps"}

\* UpdateSettings calls these one after the other.  store_name is the header
\* CupsPrinter prints, it has no row in the settings table.
Chosen(f) == IF f \in Fields THEN <<f>> ELSE <<>>
Setters ==
  Chosen("restaurant_name") \o Chosen("tax_rate_bps") \o <<"store_name">> \o
  Chosen("receipt_printer_name") \o Chosen("receipt_printer_enabled") \o
  Chosen("kitchen_printer_name") \o Chosen("kitchen_printer_enabled") \o
  Chosen("cc_fee_cents") \o Chosen("cc_fee_bps")

\* store_name takes the name of the request.
Sent(req, f) == req[IF f = "store_name" THEN "restaurant_name" ELSE f]
Optional(f)  == f \in {"restaurant_name", "tax_rate_bps", "store_name"}

ASSUME ServingAssumption ==
  /\ {ShutdownCall, WatchCall} \cap Updaters = {}
  /\ "restaurant_name" \in Fields /\ Fields \subseteq AllSettings
  /\ DOMAIN Defaults = Fields /\ Defaults = [f \in Fields |-> Defaults[f]]
  /\ MaxPolls \in Nat \ {0}
  /\ MaxStarts \in Nat \ {0}

VARIABLES
  flag,        \* g_shutdown_requested
  server,      \* g_server: up, draining (in Shutdown), stopped
  watcher,     \* shutdown_watcher: polling, calling (Shutdown), done
  main,        \* waiting (in Wait), joining, exited
  timer,       \* the detached thread of the Shutdown RPC
  call,        \* the state of each call: idle, running, done
  req, next,   \* of an updater: its request, the setter it calls next
  live,        \* the settings in memory, and in their table: see Assign
  header,      \* CupsPrinter::store_name_
  overlapped,  \* two updates have been under way at once
  job,         \* the state of the CUPS job
  polls, told, \* of the watch: attempts made, events streamed
  left,        \* history: its client has left
  seen,        \* history: what could have been told of the job so far
  starts

daemon   == <<flag, server, watcher, main, timer>>
settings == <<req, next, live, header, overlapped>>
printing == <<job, polls, told, left, seen>>
vars     == <<daemon, call, settings, printing, starts>>

Running == {c \in Calls : call[c] = "running"}
Updating == Running \cap Updaters

NoJob   == "none"
Final   == {"COMPLETE", "ERROR"}
\* An event has a status and a message; the message says what it is about.
\* last_state: "none" is the empty string it starts with.
LastTold == IF told = <<>> THEN "none" ELSE Last(told).status

-----------------------------------------------------------------------------
(* Calls: gRPC gives each a thread while the server takes calls *)

Accept(c) == server = "up" /\ call[c] = "idle" /\ call' = [call EXCEPT ![c] = "running"]
Answer(c) == call' = [call EXCEPT ![c] = "done"]

AcceptShutdown ==
  /\ Accept(ShutdownCall)
  /\ UNCHANGED <<daemon, settings, printing, starts>>

\* Mutant of AnswerShutdown: the handler itself shuts the server down, and
\* returns when that is done.
ShutdownInHandler ==
  /\ call[ShutdownCall] = "running"
  /\ \/ server = "up" /\ server' = "draining" /\ UNCHANGED call
     \/ server = "stopped" /\ Answer(ShutdownCall) /\ UNCHANGED server
  /\ UNCHANGED <<flag, watcher, main, timer, settings, printing, starts>>

\* The handler leaves a thread behind that sets the flag 200 ms later.
AnswerShutdown ==
  /\ call[ShutdownCall] = "running"
  /\ timer' = "asleep"
  /\ Answer(ShutdownCall)
  /\ UNCHANGED <<flag, server, watcher, main, settings, printing, starts>>

TimerFires ==
  /\ timer = "asleep" /\ main # "exited"
  /\ timer' = "done" /\ flag' = TRUE
  /\ UNCHANGED <<server, watcher, main, call, settings, printing, starts>>

-----------------------------------------------------------------------------
(* WatchPrintStatus *)

AcceptWatch ==
  /\ Accept(WatchCall)
  /\ UNCHANGED <<daemon, settings, printing, starts>>

\* get_ticket has no ticket of that id: NOT_FOUND, and no event.
TicketNotFound ==
  /\ call[WatchCall] = "running" /\ job = NoJob
  /\ Answer(WatchCall)
  /\ UNCHANGED <<daemon, settings, printing, starts>>

\* resolve_printer, when no --printer was given; cupsPrintFile may refuse.
PrintFails ==
  /\ call[WatchCall] = "running" /\ job = NoJob
  /\ told' = <<[status |-> "ERROR", about |-> "print"]>>
  /\ Answer(WatchCall)
  /\ UNCHANGED <<daemon, settings, job, polls, left, seen, starts>>

\* The mark the handler sets next is the one of MarkPrinted in PosManager.
Submit ==
  /\ call[WatchCall] = "running" /\ job = NoJob
  /\ job' = "PENDING"
  /\ seen' = {"QUEUED"}
  /\ UNCHANGED <<daemon, call, settings, polls, told, left, starts>>

\* query_job: what it makes of a state of IPP.  PENDING is also held, STOPPED
\* also canceled or aborted.
Status(s) ==
  CASE s = "PENDING"    -> "QUEUED"
    [] s = "PROCESSING" -> "PRINTING"
    [] s = "COMPLETED"  -> "COMPLETE"
    [] OTHER            -> "ERROR"

\* "No printer configured", "Job ID not found in CUPS queue".
NotFound == [status |-> "ERROR", about |-> "queue"]
Found    == IF job = "GONE" THEN {} ELSE {[status |-> Status(job), about |-> "job"]}

\* Mutant of Answers: a job that is not found must be through.
GoneIsComplete == Found \cup {[NotFound EXCEPT !.status = "COMPLETE"]}

\* query_job looks for the job in the queue that is the CUPS default now: any
\* query may meet another default than the job was sent to, or none, or a
\* scheduler that is restarted or out of reach, which libcups answers with no
\* default or a list of no jobs.
Answers == Found \cup {NotFound}

\* Mutant of Poll: it waits for CUPS to tell of a change.
PollForChange ==
  /\ call[WatchCall] = "running" /\ job # NoJob
  /\ polls' = polls + 1
  /\ \E js \in Found :
       /\ js.status # LastTold /\ told' = Append(told, js)
       /\ IF js.status \in Final \/ polls' = MaxPolls THEN Answer(WatchCall)
          ELSE UNCHANGED call
  /\ UNCHANGED <<daemon, settings, job, left, seen, starts>>

\* One turn of the loop: an event when the status is new, and the end after a
\* final one or the last attempt.
Poll ==
  /\ call[WatchCall] = "running" /\ job # NoJob
  /\ polls' = polls + 1
  /\ \E js \in Answers :
       /\ told' = IF js.status # LastTold THEN Append(told, js) ELSE told
       /\ IF js.status \in Final \/ polls' = MaxPolls THEN Answer(WatchCall)
          ELSE UNCHANGED call
  /\ UNCHANGED <<daemon, settings, job, left, seen, starts>>

\* The client went away: the loop sees it before its next attempt.
WatchCancelled ==
  /\ call[WatchCall] = "running" /\ job # NoJob
  /\ left' = TRUE
  /\ Answer(WatchCall)
  /\ UNCHANGED <<daemon, settings, job, polls, told, seen, starts>>

\* CUPS and its administrator: a stopped job can be resumed, and a finished one
\* be printed again or be purged from the history.
JobSteps(s) ==
  CASE s = "PENDING"    -> {"PROCESSING", "STOPPED"}
    [] s = "PROCESSING" -> {"PENDING", "STOPPED", "COMPLETED"}
    [] s = "STOPPED"    -> {"PENDING", "PROCESSING", "GONE"}
    [] s = "COMPLETED"  -> {"PENDING", "GONE"}
    [] OTHER            -> {}

\* What becomes of a job that nobody watches any more is not followed.
JobMoves ==
  /\ call[WatchCall] = "running"
  /\ \E s \in JobSteps(job) :
       /\ job' = s
       /\ seen' = IF s = "GONE" THEN seen ELSE seen \cup {Status(s)}
  /\ UNCHANGED <<daemon, call, settings, polls, told, left, starts>>

-----------------------------------------------------------------------------
(* UpdateSettings *)

AcceptUpdate(u) ==
  /\ Accept(u)
  /\ req' \in {[req EXCEPT ![u] = r] : r \in Requests}
  /\ overlapped' = (overlapped \/ Updating # {})
  /\ UNCHANGED <<daemon, next, live, header, printing, starts>>

\* Another handler is about to assign store_name_ too: no lock keeps the two
\* assignments apart.
Racing(u) ==
  {v \in Updating \ {u} : /\ next[v] <= Len(Setters) /\ Setters[next[v]] = "store_name"
                          /\ Sent(req[v], "store_name") # Blank}

\* Mutant of Assign: the empty name of a request reaches the header.
AssignAnyName(u, f) ==
  LET v == Sent(req[u], f) IN
  IF f = "store_name"
  THEN /\ header' \in IF Racing(u) = {} THEN {v}
                      ELSE {v, Torn} \cup {Sent(req[w], f) : w \in Racing(u)}
       /\ UNCHANGED live
  ELSE IF Optional(f) /\ v = Blank THEN UNCHANGED <<live, header>>
  ELSE live' = [live EXCEPT ![f] = v] /\ UNCHANGED header

\* One setter: the memory and its row under one lock (PosManager has the write
\* that fails), the header under none.
Assign(u, f) ==
  LET v == Sent(req[u], f) IN
  IF Optional(f) /\ v = Blank THEN UNCHANGED <<live, header>>
  ELSE IF f = "store_name"
  THEN /\ header' \in IF Racing(u) = {} THEN {v}
                      ELSE {v, Torn} \cup {Sent(req[w], f) : w \in Racing(u)}
       /\ UNCHANGED live
  ELSE live' = [live EXCEPT ![f] = v] /\ UNCHANGED header

SetNext(u) ==
  /\ call[u] = "running" /\ next[u] <= Len(Setters)
  /\ Assign(u, Setters[next[u]])
  /\ next' = [next EXCEPT ![u] = @ + 1]
  /\ UNCHANGED <<daemon, call, req, overlapped, printing, starts>>

AnswerUpdate(u) ==
  /\ call[u] = "running" /\ next[u] > Len(Setters)
  /\ Answer(u)
  /\ UNCHANGED <<daemon, settings, printing, starts>>

-----------------------------------------------------------------------------
(* The end of the daemon, and its next start *)

\* signal_handler.
Signal ==
  /\ main # "exited" /\ ~flag
  /\ flag' = TRUE
  /\ UNCHANGED <<server, watcher, main, timer, call, settings, printing, starts>>

WatcherShutsDown ==
  /\ watcher = "polling" /\ flag
  /\ watcher' = "calling"
  /\ server' = IF server = "up" THEN "draining" ELSE server
  /\ UNCHANGED <<flag, main, timer, call, settings, printing, starts>>

\* Mutant of Drained: Shutdown has a deadline.
DrainedAtOnce ==
  /\ server = "draining"
  /\ server' = "stopped"
  /\ UNCHANGED <<flag, watcher, main, timer, call, settings, printing, starts>>

\* Server::Shutdown without a deadline waits for every call under way.
Drained ==
  /\ server = "draining" /\ Running = {}
  /\ server' = "stopped"
  /\ UNCHANGED <<flag, watcher, main, timer, call, settings, printing, starts>>

WatcherReturns ==
  /\ watcher = "calling" /\ server = "stopped"
  /\ watcher' = "done"
  /\ UNCHANGED <<flag, server, main, timer, call, settings, printing, starts>>

MainStep ==
  /\ \/ main = "waiting" /\ server = "stopped" /\ main' = "joining"
     \/ main = "joining" /\ watcher = "done" /\ main' = "exited"
  /\ UNCHANGED <<flag, server, watcher, timer, call, settings, printing, starts>>

\* systemd starts the daemon again: load_from_database, and a CupsPrinter that
\* is given the name that was loaded.
StartAgain ==
  /\ main = "exited" /\ starts < MaxStarts
  /\ starts' = starts + 1
  /\ flag' = FALSE /\ server' = "up" /\ watcher' = "polling" /\ main' = "waiting"
  /\ timer' = "none"
  /\ header' = live["restaurant_name"]
  /\ overlapped' = FALSE
  /\ UNCHANGED <<call, req, next, live, printing>>

-----------------------------------------------------------------------------
Init ==
  /\ flag = FALSE /\ server = "up" /\ watcher = "polling" /\ main = "waiting"
  /\ timer = "none"
  /\ call = [c \in Calls |-> "idle"]
  /\ req = [u \in Updaters |-> Defaults] /\ next = [u \in Updaters |-> 1]
  /\ live = Defaults /\ header = Defaults["restaurant_name"]
  /\ overlapped = FALSE
  /\ job = NoJob /\ polls = 0 /\ told = <<>> /\ left = FALSE /\ seen = {}
  /\ starts = 1

\* What a handler does by itself.
WatchStep     == TicketNotFound \/ PrintFails \/ Submit \/ Poll
UpdateStep(u) == SetNext(u) \/ AnswerUpdate(u)

Next ==
  \/ AcceptShutdown \/ AnswerShutdown \/ TimerFires
  \/ AcceptWatch \/ WatchStep \/ WatchCancelled \/ JobMoves
  \/ \E u \in Updaters : AcceptUpdate(u) \/ UpdateStep(u)
  \/ Signal \/ WatcherShutsDown \/ Drained \/ WatcherReturns \/ MainStep \/ StartAgain

\* Every thread of the process runs, and a call of libcups returns.  Nothing is
\* asked of clients, of signals or of what CUPS answers.
Fairness ==
  /\ WF_vars(AnswerShutdown) /\ WF_vars(TimerFires) /\ WF_vars(WatchStep)
  /\ \A u \in Updaters : WF_vars(UpdateStep(u))
  /\ WF_vars(WatcherShutsDown) /\ WF_vars(Drained) /\ WF_vars(WatcherReturns)
  /\ WF_vars(MainStep)

Spec == Init /\ [][Next]_vars /\ Fairness

-----------------------------------------------------------------------------
(* Properties *)

\* A daemon that is asked to end, by a signal or by the RPC, ends, whatever
\* calls are under way (main.cpp:603, no deadlock in Shutdown).
ShutdownEnds == (flag \/ call[ShutdownCall] = "running") ~> (main = "exited")

\* A client that follows a print job is answered in the end, also when CUPS
\* never finishes the job (60 polls).
WatchEnds == (call[WatchCall] = "running") ~> (call[WatchCall] = "done")

\* main returns, and takes mgr, the database and the printer with it, only when
\* no handler is using them.
NothingIsCutOff == main \in {"joining", "exited"} => Running = {}

\* What a client is sent of its print job.  No status is sent twice in a row and
\* nothing follows a final one.  A status is one the job had: COMPLETE is only
\* said of a job that completed; the ERROR that its message does not ascribe to
\* the job says nothing of it.  And a client that stays is sent an event, and a
\* final one unless the attempts have run out.
WatchTellsTheJob ==
  /\ \A i \in 1..(Len(told) - 1) :
       told[i].status # told[i + 1].status /\ told[i].status \notin Final
  /\ \A i \in 1..Len(told) :
       told[i].status \in seen \/ (told[i].status = "ERROR" /\ told[i].about # "job")
  /\ (call[WatchCall] = "done" /\ job # NoJob /\ ~left) =>
       told # <<>> /\ (LastTold \in Final \/ polls = MaxPolls)

\* Receipts carry the restaurant's name: while no update is under way and none
\* have overlapped since the start, the header of the printer is the name in
\* the settings, across restarts (two copies, the second under no lock).
HeaderIsTheName ==
  (Updating = {} /\ ~overlapped) => header = live["restaurant_name"]
=============================================================================

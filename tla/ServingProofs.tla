---------------------------- MODULE ServingProofs ----------------------------
(***************************************************************************)
(* main never returns under a handler, a watch is told the truth, and the  *)
(* header of receipts is the name in the settings, for any number of admin *)
(* screens, forms, polls and restarts.                                     *)
(***************************************************************************)
EXTENDS Serving, TLAPS

\* main goes on only when the server has stopped, and a stopped server has no
\* call under way: the second part is what makes the first one safe.
EndInv ==
  /\ DOMAIN call = Calls
  /\ server = "stopped" => Running = {}
  /\ main \in {"joining", "exited"} => server = "stopped"

\* A step that accepts no call and leaves server and main alone keeps EndInv.
LEMMA NoNewCall ==
  ASSUME EndInv, UNCHANGED <<server, main>>,
         DOMAIN call' = Calls,
         \A c \in Calls : call'[c] = "running" => call[c] = "running"
  PROVE  EndInv'
BY DEF EndInv, Running

LEMMA AnswerEndsACall ==
  ASSUME EndInv, NEW c \in Calls, Answer(c), UNCHANGED <<server, main>>
  PROVE  EndInv'
<1>1. DOMAIN call' = Calls
  BY DEF EndInv, Answer
<1>2. \A d \in Calls : call'[d] = "running" => call[d] = "running"
  BY DEF EndInv, Answer
<1> QED BY <1>1, <1>2, NoNewCall

LEMMA IdleStep ==
  ASSUME EndInv, UNCHANGED <<server, main, call>>
  PROVE  EndInv'
BY NoNewCall DEF EndInv

\* A call is accepted while the server is up.
LEMMA AcceptIsEarly ==
  ASSUME EndInv, NEW c \in Calls, Accept(c), UNCHANGED <<server, main>>
  PROVE  EndInv'
BY DEF EndInv, Accept

LEMMA EndInvInit == Init => EndInv
BY DEF Init, EndInv, Running

LEMMA EndInvNext == EndInv /\ [Next]_vars => EndInv'
<1> SUFFICES ASSUME EndInv, [Next]_vars PROVE EndInv'
  OBVIOUS
<1> USE DEF daemon, settings, printing
<1>0. /\ ShutdownCall \in Calls /\ WatchCall \in Calls
      /\ \A u \in Updaters : u \in Calls
  BY DEF Calls
<1>1. CASE AcceptShutdown \/ AcceptWatch
  BY <1>0, <1>1, AcceptIsEarly DEF AcceptShutdown, AcceptWatch
<1>2. ASSUME NEW u \in Updaters, AcceptUpdate(u) PROVE EndInv'
  BY <1>0, <1>2, AcceptIsEarly DEF AcceptUpdate
<1>3. CASE AnswerShutdown
  BY <1>0, <1>3, AnswerEndsACall DEF AnswerShutdown
<1>4. CASE WatchStep \/ WatchCancelled
  <2>1. CASE TicketNotFound \/ PrintFails \/ WatchCancelled
    BY <1>0, <2>1, AnswerEndsACall DEF TicketNotFound, PrintFails, WatchCancelled
  <2>2. CASE Submit
    BY <2>2, IdleStep DEF Submit
  <2>3. CASE Poll
    BY <1>0, <2>3, AnswerEndsACall, IdleStep DEF Poll
  <2> QED BY <1>4, <2>1, <2>2, <2>3 DEF WatchStep
<1>5. ASSUME NEW u \in Updaters, UpdateStep(u) PROVE EndInv'
  <2>1. CASE SetNext(u)
    BY <2>1, IdleStep DEF SetNext
  <2>2. CASE AnswerUpdate(u)
    BY <1>0, <2>2, AnswerEndsACall DEF AnswerUpdate
  <2> QED BY <1>5, <2>1, <2>2 DEF UpdateStep
<1>6. CASE TimerFires \/ JobMoves \/ Signal \/ WatcherReturns
  BY <1>6, IdleStep DEF TimerFires, JobMoves, Signal, WatcherReturns
<1>7. CASE WatcherShutsDown
  BY <1>7 DEF WatcherShutsDown, EndInv, Running
<1>8. CASE Drained
  BY <1>8 DEF Drained, EndInv, Running
<1>9. CASE MainStep
  BY <1>9 DEF MainStep, EndInv, Running
<1>10. CASE StartAgain
  BY <1>10 DEF StartAgain, EndInv, Running
<1>11. CASE UNCHANGED vars
  BY <1>11, IdleStep DEF vars
<1> QED BY <1>1, <1>2, <1>3, <1>4, <1>5, <1>6, <1>7, <1>8, <1>9, <1>10, <1>11 DEF Next

\* The manager, the database and the printer outlive every call that uses them
\* (main.cpp:613: Wait, join, return), whatever the calls do.
THEOREM EndSafe == Spec => []NothingIsCutOff
<1>1. EndInv => NothingIsCutOff
  BY DEF EndInv, NothingIsCutOff
<1> QED BY EndInvInit, EndInvNext, <1>1, PTL DEF Spec

-----------------------------------------------------------------------------
(* What a watch is told *)

JobStates == {NoJob, "PENDING", "PROCESSING", "STOPPED", "COMPLETED", "GONE"}
Statuses  == {"QUEUED", "PRINTING", "COMPLETE", "ERROR"}
Events    == [status : Statuses, about : {"job", "queue", "print"}]

\* The parts of WatchTellsTheJob: the order of the events, what one says, and
\* the end of the watch.
InOrder(s) ==
  \A i \in 1..(Len(s) - 1) : s[i].status # s[i + 1].status /\ s[i].status \notin Final
IsSo(e, had) == e.status \in had \/ (e.status = "ERROR" /\ e.about # "job")
AllSo == \A i \in 1..Len(told) : IsSo(told[i], seen)
ToldToTheEnd ==
  (call[WatchCall] = "done" /\ job # NoJob /\ ~left) =>
    told # <<>> /\ (LastTold \in Final \/ polls = MaxPolls)

\* One event more: when it may be sent, and the sequence n it leads to.
MayFollow(e, s) ==
  s # <<>> => s[Len(s)].status # e.status /\ s[Len(s)].status \notin Final
Grown(n, s, e) ==
  /\ n \in Seq(Events) /\ n # <<>> /\ n[Len(n)] = e
  /\ Len(n) = Len(s) + 1 /\ \A i \in 1..Len(s) : n[i] = s[i]
  /\ InOrder(n)

\* The inductive invariant: a watch that goes on has been told nothing final,
\* one without a job nothing at all, and the job has had the state it is in.
WatchInv ==
  /\ told \in Seq(Events) /\ job \in JobStates
  /\ call[WatchCall] = "idle" => told = <<>> /\ job = NoJob
  /\ call[WatchCall] = "running" =>
       LastTold \notin Final /\ (job = NoJob => told = <<>>)
  /\ job \notin {NoJob, "GONE"} => Status(job) \in seen
  /\ InOrder(told) /\ AllSo /\ ToldToTheEnd

LEMMA AppendedEvent ==
  ASSUME NEW e \in Events, NEW s \in Seq(Events), NEW n, n = Append(s, e),
         InOrder(s), MayFollow(e, s)
  PROVE  Grown(n, s, e)
<1>1. /\ n \in Seq(Events) /\ Len(n) = Len(s) + 1 /\ Len(s) \in Nat
      /\ n[Len(s) + 1] = e /\ \A i \in 1..Len(s) : n[i] = s[i]
  OBVIOUS
<1>2. ASSUME NEW i \in 1..(Len(n) - 1)
      PROVE  n[i].status # n[i + 1].status /\ n[i].status \notin Final
  <2>1. CASE i = Len(s)
    <3>1. s # <<>> /\ n[i] = s[Len(s)] /\ n[i + 1] = e
      BY <1>1, <1>2, <2>1
    <3>2. QED
      BY <3>1 DEF MayFollow
  <2>2. CASE i # Len(s)
    <3>1. i \in 1..(Len(s) - 1) /\ i + 1 \in 1..Len(s) /\ i \in 1..Len(s)
      BY <1>1, <1>2, <2>2
    <3>2. n[i] = s[i] /\ n[i + 1] = s[i + 1]
      BY <1>1, <3>1
    <3>3. QED
      BY <3>1, <3>2 DEF InOrder
  <2>3. QED
    BY <2>1, <2>2
<1>3. n # <<>>
  BY <1>1
<1>4. QED
  BY <1>1, <1>2, <1>3 DEF InOrder, Grown

\* Before the first event there is nothing to say of the events.
LEMMA NothingTold ==
  ASSUME told = <<>>
  PROVE  told \in Seq(Events) /\ LastTold \notin Final /\ InOrder(told) /\ AllSo
<1>1. told \in Seq(Events) /\ Len(told) = 0
  OBVIOUS
<1>2. 1..(0 - 1) = {} /\ 1..0 = {}
  OBVIOUS
<1>3. 1..(Len(told) - 1) = {} /\ 1..Len(told) = {}
  BY <1>1, <1>2
<1>4. LastTold \notin Final
  BY DEF LastTold, Final
<1>5. QED
  BY <1>1, <1>3, <1>4 DEF InOrder, AllSo

LEMMA NothingToldNext ==
  ASSUME told' = <<>>
  PROVE  told' \in Seq(Events) /\ LastTold' \notin Final /\ InOrder(told)' /\ AllSo'
<1>1. told' \in Seq(Events) /\ Len(told') = 0
  OBVIOUS
<1>2. 1..(0 - 1) = {} /\ 1..0 = {}
  OBVIOUS
<1>3. 1..(Len(told') - 1) = {} /\ 1..Len(told') = {}
  BY <1>1, <1>2
<1>4. LastTold' \notin Final
  BY DEF LastTold, Final
<1>5. QED
  BY <1>1, <1>3, <1>4 DEF InOrder, AllSo

\* The watch and its job stay as they are; without a job it may end.
LEMMA WatchRests ==
  ASSUME WatchInv, UNCHANGED printing,
         call'[WatchCall] = call[WatchCall] \/ (call'[WatchCall] = "done" /\ job = NoJob)
  PROVE  WatchInv'
<1>1. UNCHANGED <<told, job, polls, left, seen>>
  BY DEF printing
<1>2. LastTold' = LastTold
  BY <1>1 DEF LastTold
<1>3. InOrder(told)' /\ AllSo' /\ ToldToTheEnd'
  BY <1>1, <1>2 DEF WatchInv, InOrder, AllSo, ToldToTheEnd
<1>4. QED
  BY <1>1, <1>2, <1>3 DEF WatchInv, Status

\* A query answers with an event that is so.
LEMMA AnswerIsSo ==
  ASSUME WatchInv, job # NoJob, NEW js \in Answers
  PROVE  js \in Events /\ IsSo(js, seen)
<1>1. CASE js = NotFound
  BY <1>1 DEF NotFound, Events, Statuses, IsSo
<1>2. CASE js \in Found
  <2>1. job # "GONE" /\ js = [status |-> Status(job), about |-> "job"]
    BY <1>2 DEF Found
  <2>2. Status(job) \in Statuses
    BY DEF Status, Statuses
  <2>3. QED
    BY <2>1, <2>2 DEF WatchInv, Events, IsSo
<1>3. QED
  BY <1>1, <1>2 DEF Answers

LEMMA PollInv ==
  ASSUME EndInv, WatchInv, Poll
  PROVE  WatchInv'
<1>1. PICK js \in Answers :
        /\ told' = IF js.status # LastTold THEN Append(told, js) ELSE told
        /\ IF js.status \in Final \/ polls' = MaxPolls THEN Answer(WatchCall)
           ELSE UNCHANGED call
  BY DEF Poll
<1>2. /\ call[WatchCall] = "running" /\ job # NoJob /\ UNCHANGED <<job, left, seen>>
      /\ js.status \in Final \/ polls' = MaxPolls => call'[WatchCall] = "done"
      /\ ~(js.status \in Final \/ polls' = MaxPolls) => call'[WatchCall] = "running"
  BY <1>1 DEF Poll, Answer, EndInv, Calls
<1>3. js \in Events /\ IsSo(js, seen) /\ js.status # "none"
  BY <1>2, AnswerIsSo DEF Events, Statuses
<1>4. LastTold \notin Final /\ told \in Seq(Events) /\ InOrder(told) /\ AllSo
  BY <1>2 DEF WatchInv
<1>5. /\ told' \in Seq(Events) /\ told' # <<>> /\ LastTold' = js.status
      /\ InOrder(told)' /\ AllSo'
  <2>1. CASE js.status = LastTold
    <3>1. told' = told
      BY <1>1, <2>1
    <3>2. LastTold' = LastTold
      BY <3>1 DEF LastTold
    <3>3. told # <<>>
      BY <1>3, <2>1 DEF LastTold
    <3>4. AllSo' /\ InOrder(told)'
      BY <1>2, <1>4, <3>1 DEF AllSo, InOrder
    <3>5. QED
      BY <1>4, <2>1, <3>1, <3>2, <3>3, <3>4
  <2>2. CASE js.status # LastTold
    <3>1. MayFollow(js, told)
      BY <1>4, <2>2 DEF LastTold, Last, MayFollow
    <3>2. told' = Append(told, js)
      BY <1>1, <2>2
    <3>3. /\ told' \in Seq(Events) /\ told' # <<>> /\ told'[Len(told')] = js
          /\ Len(told') = Len(told) + 1 /\ \A i \in 1..Len(told) : told'[i] = told[i]
          /\ InOrder(told')
      <4>1. js \in Events /\ told \in Seq(Events) /\ InOrder(told)
        BY <1>3, <1>4
      <4>2. Grown(told', told, js)
        BY <3>1, <3>2, <4>1, AppendedEvent
      <4>3. QED
        BY <4>2 DEF Grown
    <3>4. LastTold' = js.status
      BY <3>3 DEF LastTold, Last
    <3>5. ASSUME NEW i \in 1..Len(told') PROVE IsSo(told'[i], seen)
      <4>1. Len(told) \in Nat
        BY <1>4
      <4>2. CASE i = Len(told')
        BY <1>3, <3>3, <4>2
      <4>3. CASE i # Len(told')
        <5>1. i \in 1..Len(told)
          BY <3>3, <3>5, <4>1, <4>3
        <5>2. QED
          BY <1>4, <3>3, <5>1 DEF AllSo
      <4>4. QED
        BY <4>2, <4>3
    <3>6. QED
      BY <1>2, <3>3, <3>4, <3>5 DEF AllSo, InOrder
  <2>3. QED
    BY <2>1, <2>2
<1>6. ToldToTheEnd'
  BY <1>2, <1>5 DEF ToldToTheEnd
<1>7. call'[WatchCall] = "running" => LastTold' \notin Final
  BY <1>2, <1>5
<1>8. call'[WatchCall] # "idle"
  BY <1>2
<1>9. job' \in JobStates /\ (job' \notin {NoJob, "GONE"} => Status(job)' \in seen')
  BY <1>2 DEF WatchInv, Status
<1>10. QED
  BY <1>2, <1>5, <1>6, <1>7, <1>8, <1>9 DEF WatchInv

LEMMA SubmitInv ==
  ASSUME WatchInv, Submit
  PROVE  WatchInv'
<1>1. /\ call[WatchCall] = "running" /\ told = <<>> /\ job' = "PENDING" /\ seen' = {"QUEUED"}
      /\ UNCHANGED <<call, told>>
  BY DEF Submit, WatchInv
<1>2. told' \in Seq(Events) /\ LastTold' \notin Final /\ InOrder(told)' /\ AllSo'
  BY <1>1, NothingToldNext
<1>3. job' \in JobStates /\ job' # NoJob /\ Status(job)' \in seen'
  BY <1>1 DEF JobStates, Status, NoJob
<1>4. ToldToTheEnd'
  BY <1>1 DEF ToldToTheEnd
<1>5. QED
  BY <1>1, <1>2, <1>3, <1>4 DEF WatchInv

LEMMA PrintFailsInv ==
  ASSUME EndInv, WatchInv, PrintFails
  PROVE  WatchInv'
<1> DEFINE e == [status |-> "ERROR", about |-> "print"]
<1>1. /\ job = NoJob /\ told' = <<e>> /\ call'[WatchCall] = "done" /\ UNCHANGED job
  BY DEF PrintFails, Answer, EndInv, Calls
<1>2. e \in Events /\ \A had : IsSo(e, had)
  BY DEF Events, Statuses, IsSo
<1> HIDE DEF e
<1>3. told' \in Seq(Events) /\ Len(told') = 1 /\ told'[1] = e
  BY <1>1, <1>2
<1>4. InOrder(told)'
  BY <1>3 DEF InOrder
<1>5. AllSo'
  BY <1>2, <1>3 DEF AllSo
<1>6. ToldToTheEnd'
  BY <1>1 DEF ToldToTheEnd
<1>7. QED
  BY <1>1, <1>3, <1>4, <1>5, <1>6 DEF WatchInv

LEMMA WatchCancelledInv ==
  ASSUME EndInv, WatchInv, WatchCancelled
  PROVE  WatchInv'
<1>1. call'[WatchCall] = "done" /\ left' = TRUE /\ UNCHANGED <<told, job, seen>>
  BY DEF WatchCancelled, Answer, EndInv, Calls
<1>2. InOrder(told)' /\ AllSo' /\ ToldToTheEnd'
  BY <1>1 DEF WatchInv, InOrder, AllSo, ToldToTheEnd
<1>3. QED
  BY <1>1, <1>2 DEF WatchInv, Status

LEMMA JobMovesInv ==
  ASSUME WatchInv, JobMoves
  PROVE  WatchInv'
<1>1. PICK s \in JobSteps(job) :
        job' = s /\ seen' = IF s = "GONE" THEN seen ELSE seen \cup {Status(s)}
  BY DEF JobMoves
<1>2. /\ s \in JobStates \ {NoJob} /\ job # NoJob
  BY <1>1 DEF JobSteps, JobStates, NoJob
<1>3. UNCHANGED <<call, told, polls, left>> /\ call[WatchCall] = "running"
  BY DEF JobMoves
<1>4. LastTold' = LastTold
  BY <1>3 DEF LastTold
<1>5. seen \subseteq seen' /\ (s # "GONE" => Status(s) \in seen')
  BY <1>1
<1>6. ASSUME NEW i \in 1..Len(told) PROVE IsSo(told[i], seen')
  BY <1>5, <1>6 DEF WatchInv, AllSo, IsSo
<1>7. InOrder(told)' /\ AllSo' /\ ToldToTheEnd'
  BY <1>3, <1>6 DEF WatchInv, InOrder, AllSo, ToldToTheEnd
<1>8. s # "GONE" => Status(job)' \in seen'
  BY <1>1, <1>5 DEF Status
<1>9. QED
  BY <1>1, <1>2, <1>3, <1>4, <1>7, <1>8 DEF WatchInv

LEMMA WatchInvInit == Init => WatchInv
<1> SUFFICES ASSUME Init PROVE WatchInv
  OBVIOUS
<1>1. told = <<>> /\ job = NoJob /\ call[WatchCall] = "idle"
  BY DEF Init, Calls
<1>2. told \in Seq(Events) /\ InOrder(told) /\ AllSo
  BY <1>1, NothingTold
<1>3. ToldToTheEnd
  BY <1>1 DEF ToldToTheEnd
<1>4. QED
  BY <1>1, <1>2, <1>3 DEF WatchInv, JobStates

LEMMA WatchInvNext == EndInv /\ WatchInv /\ [Next]_vars => WatchInv'
<1> SUFFICES ASSUME EndInv, WatchInv, [Next]_vars PROVE WatchInv'
  OBVIOUS
<1>1. /\ ShutdownCall \in Calls /\ WatchCall \in Calls /\ ShutdownCall # WatchCall
      /\ \A u \in Updaters : u \in Calls /\ u # WatchCall
  BY ServingAssumption DEF Calls, ShutdownCall, WatchCall
<1>2. CASE AcceptShutdown \/ AnswerShutdown
  BY <1>1, <1>2, WatchRests DEF AcceptShutdown, AnswerShutdown, Accept, Answer, EndInv
<1>3. CASE AcceptWatch
  <2>1. /\ call[WatchCall] = "idle" /\ call'[WatchCall] = "running"
        /\ UNCHANGED <<told, job>>
    BY <1>1, <1>3 DEF AcceptWatch, Accept, EndInv, printing
  <2>2. told' = <<>> /\ job' = NoJob
    BY <2>1 DEF WatchInv
  <2>3. told' \in Seq(Events) /\ LastTold' \notin Final /\ InOrder(told)' /\ AllSo'
    BY <2>2, NothingToldNext
  <2>4. ToldToTheEnd'
    BY <2>1 DEF ToldToTheEnd
  <2>5. QED
    BY <2>1, <2>2, <2>3, <2>4 DEF WatchInv, JobStates
<1>4. CASE WatchStep
  <2>1. CASE TicketNotFound
    BY <1>1, <2>1, WatchRests DEF TicketNotFound, Answer, EndInv
  <2>2. CASE PrintFails \/ Submit \/ Poll
    BY <2>2, PrintFailsInv, SubmitInv, PollInv
  <2>3. QED
    BY <1>4, <2>1, <2>2 DEF WatchStep
<1>5. CASE WatchCancelled
  BY <1>5, WatchCancelledInv
<1>6. CASE JobMoves
  BY <1>6, JobMovesInv
<1>7. ASSUME NEW u \in Updaters, AcceptUpdate(u) \/ UpdateStep(u) PROVE WatchInv'
  <2>1. UNCHANGED printing
    BY <1>7 DEF AcceptUpdate, UpdateStep, SetNext, AnswerUpdate
  <2>2. call'[WatchCall] = call[WatchCall]
    BY <1>1, <1>7 DEF AcceptUpdate, UpdateStep, SetNext, AnswerUpdate, Accept, Answer, EndInv
  <2>3. QED
    BY <2>1, <2>2, WatchRests
<1>8. CASE \/ TimerFires \/ Signal \/ WatcherShutsDown \/ Drained \/ WatcherReturns
           \/ MainStep \/ StartAgain
  BY <1>8, WatchRests
     DEF TimerFires, Signal, WatcherShutsDown, Drained, WatcherReturns, MainStep, StartAgain
<1>9. CASE UNCHANGED vars
  BY <1>9, WatchRests DEF vars
<1>10. QED
  BY <1>2, <1>3, <1>4, <1>5, <1>6, <1>7, <1>8, <1>9 DEF Next

\* What a client is told of its print job is so and is told to the end, for any
\* number of polls, whatever becomes of the job and whichever queries do not
\* find it (WatchPrintStatus and query_job).
THEOREM WatchIsTrue == Spec => []WatchTellsTheJob
<1>1. EndInv /\ WatchInv => WatchTellsTheJob
  BY DEF WatchInv, InOrder, AllSo, IsSo, ToldToTheEnd, WatchTellsTheJob
<1>2. Init => EndInv /\ WatchInv
  BY EndInvInit, WatchInvInit
<1>3. EndInv /\ WatchInv /\ [Next]_vars => (EndInv /\ WatchInv)'
  BY EndInvNext, WatchInvNext
<1> QED BY <1>1, <1>2, <1>3, PTL DEF Spec


-----------------------------------------------------------------------------
(* The two copies of the restaurant's name *)

NoNewName(f) == f \notin {"restaurant_name", "store_name"}
SetterNames  == AllSettings \cup {"store_name"}

\* The name is the first setting that is written, the header the k-th, and
\* neither is written twice.
NamesAt(s, k) ==
  /\ s \in Seq(SetterNames) /\ k \in 2..Len(s)
  /\ s[1] = "restaurant_name" /\ s[k] = "store_name"
  /\ \A i \in 1..Len(s) : /\ s[i] = "restaurant_name" => i = 1
                          /\ s[i] = "store_name" => i = k

LEMMA OneMoreSetter ==
  ASSUME NEW S, NEW s \in Seq(S), NEW e \in S
  PROVE  /\ s \o <<e>> \in Seq(S) /\ Len(s \o <<e>>) = Len(s) + 1
         /\ (s \o <<e>>)[Len(s) + 1] = e
         /\ \A i \in 1..Len(s) : (s \o <<e>>)[i] = s[i]
OBVIOUS

LEMMA OneSetter ==
  ASSUME NEW S, NEW e \in S
  PROVE  <<e>> \in Seq(S) /\ Len(<<e>>) = 1 /\ <<e>>[1] = e
OBVIOUS

LEMMA LaterSetter ==
  ASSUME NEW s, NEW k, NamesAt(s, k), NEW f \in SetterNames, NoNewName(f)
  PROVE  NamesAt(s \o Chosen(f), k)
<1>1. CASE f \in Fields
  <2>1. Chosen(f) = <<f>>
    BY <1>1 DEF Chosen
  <2>2. /\ s \o <<f>> \in Seq(SetterNames) /\ Len(s \o <<f>>) = Len(s) + 1 /\ Len(s) \in Nat
        /\ (s \o <<f>>)[Len(s) + 1] = f
        /\ \A i \in 1..Len(s) : (s \o <<f>>)[i] = s[i]
    BY OneMoreSetter DEF NamesAt
  <2>3. QED
    BY <2>1, <2>2 DEF NamesAt, NoNewName
<1>2. CASE f \notin Fields
  <2>1. s \o Chosen(f) = s
    BY <1>2 DEF Chosen, NamesAt
  <2>2. QED
    BY <2>1
<1>3. QED
  BY <1>1, <1>2

HeaderStep == IF "tax_rate_bps" \in Fields THEN 3 ELSE 2

LEMMA SettersInOrder == NamesAt(Setters, HeaderStep)
<1> DEFINE s0 == Chosen("restaurant_name") \o Chosen("tax_rate_bps") \o <<"store_name">>
           s1 == s0 \o Chosen("receipt_printer_name")
           s2 == s1 \o Chosen("receipt_printer_enabled")
           s3 == s2 \o Chosen("kitchen_printer_name")
           s4 == s3 \o Chosen("kitchen_printer_enabled")
           s5 == s4 \o Chosen("cc_fee_cents")
           s6 == s5 \o Chosen("cc_fee_bps")
<1>1. Chosen("restaurant_name") = <<"restaurant_name">>
  BY ServingAssumption DEF Chosen
<1> DEFINE n == <<"restaurant_name">>
           r == n \o Chosen("tax_rate_bps")
<1>2. NamesAt(s0, HeaderStep)
  <2>1. "restaurant_name" \in SetterNames /\ "tax_rate_bps" \in SetterNames
        /\ "store_name" \in SetterNames
    BY DEF SetterNames, AllSettings
  <2>2. n \in Seq(SetterNames) /\ Len(n) = 1 /\ n[1] = "restaurant_name"
    BY <2>1, OneSetter
  <2>3. s0 = r \o <<"store_name">>
    BY <1>1
  <2> HIDE DEF n, s0
  <2>4. CASE "tax_rate_bps" \in Fields
    <3>1. r = n \o <<"tax_rate_bps">>
      BY <2>4 DEF Chosen
    <3> HIDE DEF r
    <3>2. /\ r \in Seq(SetterNames) /\ Len(r) = 2
          /\ r[1] = "restaurant_name" /\ r[2] = "tax_rate_bps"
      <4>1. /\ r \in Seq(SetterNames) /\ Len(r) = Len(n) + 1 /\ r[Len(n) + 1] = "tax_rate_bps"
            /\ \A i \in 1..Len(n) : r[i] = n[i]
        BY <2>1, <2>2, <3>1, OneMoreSetter
      <4>2. QED
        BY <2>2, <4>1
    <3>3. /\ s0 \in Seq(SetterNames) /\ Len(s0) = 3
          /\ s0[1] = "restaurant_name" /\ s0[2] = "tax_rate_bps" /\ s0[3] = "store_name"
      <4>1. /\ s0 \in Seq(SetterNames) /\ Len(s0) = Len(r) + 1 /\ s0[Len(r) + 1] = "store_name"
            /\ \A i \in 1..Len(r) : s0[i] = r[i]
        <5>1. r \in Seq(SetterNames) /\ "store_name" \in SetterNames
          BY <2>1, <3>2
        <5>2. QED
          BY <2>3, <5>1, OneMoreSetter
      <4>2. QED
        BY <3>2, <4>1
    <3>4. \A i \in 1..3 : i = 1 \/ i = 2 \/ i = 3
      OBVIOUS
    <3>5. NamesAt(s0, 3)
      BY <3>3, <3>4 DEF NamesAt
    <3>6. QED
      BY <2>4, <3>5 DEF HeaderStep
  <2>5. CASE "tax_rate_bps" \notin Fields
    <3>1. r = n
      BY <2>2, <2>5 DEF Chosen
    <3> HIDE DEF r
    <3>2. /\ s0 \in Seq(SetterNames) /\ Len(s0) = 2
          /\ s0[1] = "restaurant_name" /\ s0[2] = "store_name"
      <4>1. /\ s0 \in Seq(SetterNames) /\ Len(s0) = Len(n) + 1 /\ s0[Len(n) + 1] = "store_name"
            /\ \A i \in 1..Len(n) : s0[i] = n[i]
        <5>1. r \in Seq(SetterNames) /\ "store_name" \in SetterNames /\ r = n
          BY <2>1, <2>2, <3>1
        <5>2. s0 = r \o <<"store_name">>
          BY <2>3
        <5>3. QED
          BY <5>1, <5>2, OneMoreSetter
      <4>2. QED
        BY <2>2, <4>1
    <3>3. \A i \in 1..2 : i = 1 \/ i = 2
      OBVIOUS
    <3>4. NamesAt(s0, 2)
      BY <3>2, <3>3 DEF NamesAt
    <3>5. QED
      BY <2>5, <3>4 DEF HeaderStep
  <2>6. QED
    BY <2>4, <2>5
<1> HIDE DEF s0
<1>11. \A f \in AllSettings \ {"restaurant_name"} : f \in SetterNames /\ NoNewName(f)
  BY DEF AllSettings, SetterNames, NoNewName
<1>12. {"receipt_printer_name", "receipt_printer_enabled", "kitchen_printer_name",
        "kitchen_printer_enabled", "cc_fee_cents", "cc_fee_bps"}
         \subseteq AllSettings \ {"restaurant_name"}
  BY DEF AllSettings
<1>3. NamesAt(s1, HeaderStep)
  BY <1>2, <1>11, <1>12, LaterSetter
<1> HIDE DEF s1
<1>4. NamesAt(s2, HeaderStep)
  BY <1>3, <1>11, <1>12, LaterSetter
<1> HIDE DEF s2
<1>5. NamesAt(s3, HeaderStep)
  BY <1>4, <1>11, <1>12, LaterSetter
<1> HIDE DEF s3
<1>6. NamesAt(s4, HeaderStep)
  BY <1>5, <1>11, <1>12, LaterSetter
<1> HIDE DEF s4
<1>7. NamesAt(s5, HeaderStep)
  BY <1>6, <1>11, <1>12, LaterSetter
<1> HIDE DEF s5
<1>8. NamesAt(s6, HeaderStep)
  BY <1>7, <1>11, <1>12, LaterSetter
<1>9. s6 = Setters
  BY DEF Setters, s0, s1, s2, s3, s4, s5, s6
<1>10. QED
  BY <1>8, <1>9

Name      == live["restaurant_name"]
NewName(u) == Sent(req[u], "restaurant_name")

\* Where the only update under way stands: the two copies are the same, or the
\* name is the new one and the header is still to come.
InStep(u) ==
  /\ (next[u] = 1 \/ next[u] > HeaderStep \/ NewName(u) = Blank) => header = Name
  /\ (next[u] \in 2..HeaderStep /\ NewName(u) # Blank) => Name = NewName(u)

\* The inductive invariant: updates start with their first setter, one at a
\* time until they overlap.
HeaderInv ==
  /\ next \in [Updaters -> Nat \ {0}] /\ DOMAIN req = Updaters
  /\ live = [f \in Fields |-> live[f]]
  /\ \A u \in Updaters : call[u] = "idle" => next[u] = 1
  /\ ~overlapped =>
       /\ \A u, v \in Updating : u = v
       /\ \A u \in Updating : InStep(u)
       /\ Updating = {} => header = Name


LEMMA UpdatingIsRunning ==
  /\ Updating = {u \in Updaters : call[u] = "running"}
  /\ Updating' = {u \in Updaters : call'[u] = "running"}
BY DEF Updating, Running, Calls

LEMMA HeaderStepIsStep == HeaderStep \in {2, 3} /\ Len(Setters) \in Nat /\ HeaderStep <= Len(Setters)
<1>1. HeaderStep \in {2, 3}
  BY DEF HeaderStep
<1>2. QED
  BY <1>1, SettersInOrder DEF NamesAt

\* The settings stay as they are, and so do the updates under way.
LEMMA HeaderRests ==
  ASSUME HeaderInv, UNCHANGED settings, \A u \in Updaters : call'[u] = call[u]
  PROVE  HeaderInv'
<1>1. Updating' = Updating
  BY UpdatingIsRunning
<1>2. UNCHANGED <<req, next, live, header, overlapped>>
  BY DEF settings
<1>3. \A u : InStep(u)' <=> InStep(u)
  BY <1>2 DEF InStep, NewName, Name, Sent
<1>4. Name' = Name
  BY <1>2 DEF Name
<1>5. QED
  BY <1>1, <1>2, <1>3, <1>4 DEF HeaderInv

\* The first update under way starts where the two copies are the same.
LEMMA AcceptUpdateInv ==
  ASSUME EndInv, HeaderInv, NEW u \in Updaters, AcceptUpdate(u)
  PROVE  HeaderInv'
<1>1. /\ call[u] = "idle" /\ call' = [call EXCEPT ![u] = "running"] /\ u \in DOMAIN call
      /\ UNCHANGED <<next, live, header>> /\ overlapped' = (overlapped \/ Updating # {})
  BY DEF AcceptUpdate, Accept, EndInv, Calls
<1>2. DOMAIN req' = Updaters
  BY DEF AcceptUpdate, HeaderInv
<1>3. \A v \in Updaters : call'[v] = IF v = u THEN "running" ELSE call[v]
  BY <1>1 DEF EndInv, Calls
<1>4. Updating' = Updating \cup {u}
  BY <1>3, UpdatingIsRunning
<1>5. next[u] = 1 /\ \A v \in Updaters : call'[v] = "idle" => next'[v] = 1
  BY <1>1, <1>3 DEF HeaderInv
<1>6. Name' = Name
  BY <1>1 DEF Name
<1>7. ASSUME ~overlapped' PROVE Updating' = {u} /\ InStep(u)'
  <2>1. ~overlapped /\ Updating = {}
    BY <1>1, <1>7
  <2>2. header' = Name'
    BY <1>1, <1>6, <2>1 DEF HeaderInv
  <2>3. next'[u] = 1 /\ next'[u] \notin 2..HeaderStep
    BY <1>1, <1>5, HeaderStepIsStep
  <2>4. QED
    BY <1>4, <2>1, <2>2, <2>3 DEF InStep
<1>8. QED
  BY <1>1, <1>2, <1>5, <1>7 DEF HeaderInv

\* An update that has called its last setter leaves the copies the same.
LEMMA AnswerUpdateInv ==
  ASSUME EndInv, HeaderInv, NEW u \in Updaters, AnswerUpdate(u)
  PROVE  HeaderInv'
<1>1. /\ call[u] = "running" /\ call' = [call EXCEPT ![u] = "done"] /\ u \in DOMAIN call
      /\ next[u] > Len(Setters) /\ UNCHANGED <<req, next, live, header, overlapped>>
  BY DEF AnswerUpdate, Answer, EndInv, Calls, settings
<1>2. \A v \in Updaters : call'[v] = IF v = u THEN "done" ELSE call[v]
  BY <1>1 DEF EndInv, Calls
<1>3. u \in Updating /\ Updating' = Updating \ {u}
  BY <1>1, <1>2, UpdatingIsRunning
<1>4. Name' = Name
  BY <1>1 DEF Name
<1>5. ASSUME ~overlapped' PROVE Updating' = {} /\ header' = Name'
  <2>1. Updating = {u} /\ InStep(u)
    BY <1>1, <1>3, <1>5 DEF HeaderInv
  <2>2. next[u] > HeaderStep
    BY <1>1, HeaderStepIsStep DEF HeaderInv
  <2>3. QED
    BY <1>1, <1>3, <1>4, <2>1, <2>2 DEF InStep
<1>6. \A v \in Updaters : call'[v] = "idle" => next'[v] = 1
  BY <1>1, <1>2 DEF HeaderInv
<1>7. QED
  BY <1>1, <1>5, <1>6 DEF HeaderInv

\* One setter of the only update: the name, the header, or neither.
LEMMA SetOneInStep ==
  ASSUME HeaderInv, NEW u \in Updaters, InStep(u), Updating = {u},
         next[u] <= Len(Setters), Assign(u, Setters[next[u]]),
         next' = [next EXCEPT ![u] = @ + 1], UNCHANGED req
  PROVE  InStep(u)'
<1> DEFINE i == next[u]
           f == Setters[i]
           v == Sent(req[u], f)
<1>1. i \in 1..Len(Setters) /\ next'[u] = i + 1
  BY HeaderStepIsStep DEF HeaderInv
<1>2. /\ f = "restaurant_name" => i = 1
      /\ f = "store_name" => i = HeaderStep
      /\ i = 1 => f = "restaurant_name"
      /\ i = HeaderStep => f = "store_name"
  BY <1>1, SettersInOrder DEF NamesAt
<1>3. Racing(u) = {}
  BY DEF Racing
<1>4. NewName(u)' = NewName(u)
  BY DEF NewName
<1>5. CASE i = 1
  <2>1. f = "restaurant_name" /\ v = NewName(u) /\ Optional(f)
    BY <1>2, <1>5 DEF NewName, Optional
  <2>2. header = Name
    BY <1>5 DEF InStep
  <2>3. CASE v = Blank
    <3>1. UNCHANGED <<live, header>>
      BY <2>1, <2>3 DEF Assign
    <3>2. QED
      BY <1>4, <2>1, <2>2, <2>3, <3>1 DEF InStep, Name
  <2>4. CASE v # Blank
    <3>1. live' = [live EXCEPT !["restaurant_name"] = v]
      BY <2>1, <2>4 DEF Assign
    <3>2. live'["restaurant_name"] = v
      BY <3>1, ServingAssumption DEF HeaderInv
    <3>3. next'[u] = 2
      BY <1>1, <1>5
    <3>4. QED
      BY <1>4, <2>1, <2>4, <3>2, <3>3, HeaderStepIsStep DEF InStep, Name
  <2>5. QED
    BY <2>3, <2>4
<1>6. CASE i = HeaderStep
  <2>1. f = "store_name" /\ v = NewName(u) /\ Optional(f)
    BY <1>2, <1>6 DEF NewName, Optional, Sent
  <2>2. i \in 2..HeaderStep /\ next'[u] > HeaderStep
    BY <1>1, <1>6, HeaderStepIsStep
  <2>3. CASE v = Blank
    <3>1. UNCHANGED <<live, header>>
      BY <2>1, <2>3 DEF Assign
    <3>2. QED
      BY <1>4, <2>1, <2>3, <3>1 DEF InStep, Name
  <2>4. CASE v # Blank
    <3>1. header' = v /\ UNCHANGED live
      BY <1>3, <2>1, <2>4 DEF Assign
    <3>2. Name = v
      BY <2>1, <2>2, <2>4 DEF InStep
    <3>3. header' = Name'
      BY <3>1, <3>2 DEF Name
    <3>4. next'[u] \notin 2..HeaderStep
      BY <2>2, HeaderStepIsStep, <1>1
    <3>5. QED
      BY <3>3, <3>4 DEF InStep
  <2>5. QED
    BY <2>3, <2>4
<1>7. CASE i # 1 /\ i # HeaderStep
  <2>1. f # "restaurant_name" /\ f # "store_name"
    BY <1>2, <1>7
  <2>2. UNCHANGED header /\ (UNCHANGED live \/ live' = [live EXCEPT ![f] = v])
    BY <2>1 DEF Assign
  <2>3. Name' = Name
    <3>1. CASE UNCHANGED live
      BY <3>1 DEF Name
    <3>2. CASE live' = [live EXCEPT ![f] = v]
      BY <2>1, <3>2, ServingAssumption DEF HeaderInv, Name
    <3>3. QED
      BY <2>2, <3>1, <3>2
  <2>4. /\ next'[u] # 1 /\ i # 1
        /\ next'[u] > HeaderStep => i > HeaderStep
        /\ next'[u] \in 2..HeaderStep => i \in 2..HeaderStep
    BY <1>1, <1>7, HeaderStepIsStep
  <2>5. QED
    BY <1>4, <2>2, <2>3, <2>4 DEF InStep
<1>8. QED
  BY <1>5, <1>6, <1>7

LEMMA SetNextInv ==
  ASSUME EndInv, HeaderInv, NEW u \in Updaters, SetNext(u)
  PROVE  HeaderInv'
<1>1. /\ call[u] = "running" /\ next[u] <= Len(Setters) /\ Assign(u, Setters[next[u]])
      /\ next' = [next EXCEPT ![u] = @ + 1] /\ UNCHANGED <<call, req, overlapped>>
  BY DEF SetNext
<1>2. next' \in [Updaters -> Nat \ {0}]
  BY <1>1 DEF HeaderInv
<1>3. live' = [f \in Fields |-> live'[f]]
  <2>1. UNCHANGED live \/ \E f, v : live' = [live EXCEPT ![f] = v]
    BY <1>1 DEF Assign
  <2>2. QED
    BY <2>1 DEF HeaderInv
<1>4. \A v \in Updaters : call'[v] = "idle" => next'[v] = 1
  BY <1>1 DEF HeaderInv
<1>5. Updating' = Updating /\ u \in Updating
  BY <1>1, UpdatingIsRunning
<1>6. ASSUME ~overlapped' PROVE Updating' = {u} /\ InStep(u)'
  <2>1. Updating = {u} /\ InStep(u)
    BY <1>1, <1>5, <1>6 DEF HeaderInv
  <2>2. QED
    BY <1>1, <1>5, <2>1, SetOneInStep
<1>7. QED
  BY <1>1, <1>2, <1>3, <1>4, <1>6 DEF HeaderInv

LEMMA HeaderInvInit == Init => HeaderInv
<1> SUFFICES ASSUME Init PROVE HeaderInv
  OBVIOUS
<1>1. /\ next = [u \in Updaters |-> 1] /\ DOMAIN req = Updaters
      /\ live = Defaults /\ header = Defaults["restaurant_name"]
      /\ call = [c \in Calls |-> "idle"]
  BY DEF Init
<1>2. Updating = {}
  BY <1>1 DEF Updating, Running
<1>3. live = [f \in Fields |-> live[f]] /\ header = Name
  BY <1>1, ServingAssumption DEF Name
<1>4. next \in [Updaters -> Nat \ {0}] /\ \A u \in Updaters : next[u] = 1
  BY <1>1
<1>5. QED
  BY <1>1, <1>2, <1>3, <1>4 DEF HeaderInv

LEMMA HeaderInvNext == EndInv /\ HeaderInv /\ [Next]_vars => HeaderInv'
<1> SUFFICES ASSUME EndInv, HeaderInv, [Next]_vars PROVE HeaderInv'
  OBVIOUS
<1>1. \A u \in Updaters : u \in Calls /\ u # ShutdownCall /\ u # WatchCall
  BY ServingAssumption DEF Calls
<1>2. CASE AcceptShutdown \/ AcceptWatch \/ AnswerShutdown
  BY <1>1, <1>2, HeaderRests
     DEF AcceptShutdown, AcceptWatch, AnswerShutdown, Accept, Answer, EndInv
<1>3. CASE WatchStep \/ WatchCancelled
  BY <1>1, <1>3, HeaderRests
     DEF WatchStep, TicketNotFound, PrintFails, Submit, Poll, WatchCancelled, Answer, EndInv
<1>4. ASSUME NEW u \in Updaters, AcceptUpdate(u) \/ UpdateStep(u) PROVE HeaderInv'
  BY <1>4, AcceptUpdateInv, SetNextInv, AnswerUpdateInv DEF UpdateStep
<1>5. CASE \/ TimerFires \/ JobMoves \/ Signal \/ WatcherShutsDown
           \/ Drained \/ WatcherReturns \/ MainStep
  BY <1>5, HeaderRests
     DEF TimerFires, JobMoves, Signal, WatcherShutsDown, Drained,
         WatcherReturns, MainStep
<1>6. CASE StartAgain
  <2>1. /\ UNCHANGED <<call, req, next, live>> /\ header' = Name /\ main = "exited"
    BY <1>6 DEF StartAgain, Name
  <2>2. Updating = {} /\ Updating' = {}
    BY <2>1, UpdatingIsRunning DEF EndInv, Running, Calls
  <2>3. Name' = Name
    BY <2>1 DEF Name
  <2>4. QED
    BY <2>1, <2>2, <2>3 DEF HeaderInv
<1>7. CASE UNCHANGED vars
  BY <1>7, HeaderRests DEF vars
<1>8. QED
  BY <1>2, <1>3, <1>4, <1>5, <1>6, <1>7 DEF Next

\* Receipts carry the name in the settings whenever no update is under way and
\* none have overlapped since the start, for any number of admin screens, forms
\* and restarts (UpdateSettings, and main, which hands the printer the name).
THEOREM HeaderSafe == Spec => []HeaderIsTheName
<1>1. HeaderInv => HeaderIsTheName
  BY DEF HeaderInv, HeaderIsTheName, Name
<1>2. Init => EndInv /\ HeaderInv
  BY EndInvInit, HeaderInvInit
<1>3. EndInv /\ HeaderInv /\ [Next]_vars => (EndInv /\ HeaderInv)'
  BY EndInvNext, HeaderInvNext
<1> QED BY <1>1, <1>2, <1>3, PTL DEF Spec
=============================================================================

----------------------------- MODULE PosReports -----------------------------
(***************************************************************************)
(* The reports of PosManager: the figures accumulate_report and            *)
(* finalize_report make of the tickets of a day, and the three queries     *)
(* that read them.  The queries change nothing, so this module adds no     *)
(* action to PosManager; its invariants say what the queries would answer  *)
(* in each state.                                                          *)
(*                                                                         *)
(* cash_count and card_count (payment legs) and the item sales are left    *)
(* out; so is the payment_type of tickets older than the payments table.   *)
(***************************************************************************)
EXTENDS PosManager

CONSTANT HistoryDays   \* the 365 get_date_range_report asks the history for

ASSUME HistoryAssumption == HistoryDays \in Nat \ {0}

\* <<id, ticket>> pairs in S with a status, and a sum over the tickets.
With(S, status) == {s \in S : s[2].status = status}
SumOf(S, f(_)) == SumFunctionOnSet([s \in S |-> f(s[2])], S)
TotalOf(S) == SumOf(S, LAMBDA t : t.total)

\* Mutant of Report: the card fees are left in the revenue.
ReportWithFeesInRevenue(S) ==
  LET sold == With(S, "CLOSED")
      fees == SumOf(sold, LAMBDA t : t.fee) IN
  [tickets |-> Cardinality(sold), revenue |-> TotalOf(sold) + fees,
   tax |-> SumOf(sold, LAMBDA t : t.tax),
   subtotal |-> SumOf(sold, LAMBDA t : t.subtotal), fees |-> fees,
   cash |-> SumOf(sold, LAMBDA t : t.payments.cash),
   card |-> SumOf(sold, LAMBDA t : t.payments.card),
   comped |-> TotalOf(With(S, "COMPED")), refunded |-> TotalOf(With(S, "REFUNDED")),
   net |-> TotalOf(sold), collected |-> TotalOf(sold) + fees]

\* accumulate_report over S, then finalize_report: only CLOSED tickets are
\* sales, and comps and refunds are taken off the net all the same.
Report(S) ==
  LET sold     == With(S, "CLOSED")
      revenue  == TotalOf(sold)
      fees     == SumOf(sold, LAMBDA t : t.fee)
      comped   == TotalOf(With(S, "COMPED"))
      refunded == TotalOf(With(S, "REFUNDED"))
      net      == revenue - refunded - comped IN
  [tickets |-> Cardinality(sold), revenue |-> revenue,
   tax |-> SumOf(sold, LAMBDA t : t.tax),
   subtotal |-> SumOf(sold, LAMBDA t : t.subtotal), fees |-> fees,
   cash |-> SumOf(sold, LAMBDA t : t.payments.cash),
   card |-> SumOf(sold, LAMBDA t : t.payments.card),
   comped |-> comped, refunded |-> refunded,
   net |-> net, collected |-> net + fees]

\* Mutant of DayOf: the archive is not looked at.
DayOfLiveTickets(date) == ClosedOn(date)

\* The tickets get_daily_report answers from: the archived report of the date
\* when there is one, the live tickets closed on the date otherwise.
DayOf(date)       == IF archived[date] # NoRow THEN archived[date] ELSE ClosedOn(date)
DailyReport(date) == Report(DayOf(date))

\* get_report_history: the dates with an archived report or a closed ticket,
\* the newest daysBack of them.
HistoryDates(daysBack) ==
  LET all == {d \in Dates \ {NoDate} :
                \/ archived[d] # NoRow
                \/ \E id \in Ids : InMemory(id) /\ tickets[id].closed = d} IN
  {d \in all : Cardinality({e \in all : e > d}) < daysBack}

\* get_date_range_report adds up the days of the history in the range.  It
\* leaves subtotal, fees and collected at 0.
RangeReport(first, last) ==
  LET days == HistoryDates(HistoryDays) \cap (first..last)
      Add(f(_)) == SumFunctionOnSet([d \in days |-> f(DailyReport(d))], days)
      revenue  == Add(LAMBDA r : r.revenue)
      comped   == Add(LAMBDA r : r.comped)
      refunded == Add(LAMBDA r : r.refunded) IN
  [tickets |-> Add(LAMBDA r : r.tickets), revenue |-> revenue,
   tax |-> Add(LAMBDA r : r.tax), subtotal |-> 0, fees |-> 0,
   cash |-> Add(LAMBDA r : r.cash), card |-> Add(LAMBDA r : r.card),
   comped |-> comped, refunded |-> refunded,
   net |-> revenue - refunded - comped, collected |-> 0]

-----------------------------------------------------------------------------
(* Properties *)

ChangeGiven(S) == SumOf(With(S, "CLOSED"), LAMBDA t : t.change)

\* The drawer can be counted against the report of any day, archived or live:
\* what was tendered in cash and by card is the revenue, the card fees and the
\* change given back, and the revenue is subtotal and tax (accumulate_report
\* over tickets checkout, phone orders, comps and end_day have been at).
TenderIsAccountedFor ==
  up => \A d \in HistoryDates(HistoryDays) :
          LET r == DailyReport(d) IN
          /\ r.cash + r.card = r.revenue + r.fees + ChangeGiven(DayOf(d))
          /\ r.revenue = r.subtotal + r.tax

\* The first end_day of a date changes no figure of it: its daily report and
\* its summary as a range are the same before, from the live tickets, and
\* after, from the archive, also when tickets of other days are cleared with
\* it or the date had no sale at all (end_day against get_daily_report).
FirstZKeepsTheFigures ==
  [][(up /\ up' /\ archived[today] = NoRow /\ archived'[today] # NoRow) =>
       /\ DailyReport(today)' = DailyReport(today)
       /\ RangeReport(today, today)' = RangeReport(today, today)]_vars

-----------------------------------------------------------------------------
(* What a comment says of the reports and the code does not do.  It is      *)
(* checked by a run of its own, which ends in a counterexample.             *)

\* pos_manager.h:41, "grand total actually collected (revenue + cc fees)": the
\* money the tenders of the day's sales left in the drawer (finalize_report
\* takes comps and refunds off a revenue they were never part of).
CollectedIsWhatStayed ==
  up => \A d \in HistoryDates(HistoryDays) :
          LET r == DailyReport(d) IN
          r.collected = r.cash + r.card - ChangeGiven(DayOf(d))
=============================================================================

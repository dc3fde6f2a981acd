---------------------------- MODULE TicketLines ----------------------------
(***************************************************************************)
(* The lines of a ticket: what PosManager does to Ticket::items, and what  *)
(* Ticket::recalculate makes of them.                                      *)
(*                                                                         *)
(* A line is the code's TicketItem.  Its key is what compute_line_key      *)
(* builds, item + sorted "ACTION:modifier" parts + special instructions;   *)
(* sorting makes the key a function of the SET of parts, so that is how it *)
(* is written here.  The price is that of one unit, modifiers included: it *)
(* is a snapshot taken when the line is created and is not in the key.     *)
(***************************************************************************)
EXTENDS Integers, Sequences, SequencesExt

\* compute_line_key: price adjustments and modifier names do not reach the key.
LineKey(item, modifiers, instructions) ==
  [item         |-> item,
   parts        |-> {<<m.action, m.id>> : m \in modifiers},
   instructions |-> instructions]

\* std::find_if over ticket.items: the first line with this key, 0 when none.
FirstWithKey(items, key) == SelectInSeq(items, LAMBDA l : l.key = key)

\* The same search when the caller gives no line key, only a menu item.
FirstWithItem(items, item) == SelectInSeq(items, LAMBDA l : l.key.item = item)

\* Where the search of remove_item and decrease_item can end: (line_key, any
\* item) or ("", item).
Findable(items) ==
  {i \in 1..Len(items) : \/ i = FirstWithKey(items, items[i].key)
                         \/ i = FirstWithItem(items, items[i].key.item)}

\* add_item: the quantity joins the first line with the same key, which keeps
\* the price it already has; otherwise a new line goes to the end.
AddLine(items, line) ==
  LET i == FirstWithKey(items, line.key) IN
  IF i = 0 THEN Append(items, line)
           ELSE [items EXCEPT ![i].qty = @ + line.qty]

\* remove_item erases the line it found.
RemoveLine(items, i) == RemoveAt(items, i)

\* Mutant of DecreaseLine: the line stays when its last unit is gone.
DecreaseLineKeepsZero(items, i) == [items EXCEPT ![i].qty = @ - 1]

\* decrease_item takes one unit off, and the line with its last unit.
DecreaseLine(items, i) ==
  IF items[i].qty > 1 THEN [items EXCEPT ![i].qty = @ - 1]
                      ELSE RemoveAt(items, i)

\* update_item rewrites modifiers, instructions and key in place.  It does
\* not look for another line that already has the new key.
UpdateLine(items, i, key, price) ==
  [items EXCEPT ![i].key = key, ![i].price = price]

\* Ticket::recalculate, the loop over the items.
LinesSubtotal(items) ==
  SumFunctionOnSet([i \in DOMAIN items |-> items[i].price * items[i].qty], DOMAIN items)

\* llround(subtotal * bps / 10000.0): to the nearest cent, halves away from 0.
RoundedTax(subtotal, bps) ==
  IF subtotal >= 0 THEN (2 * subtotal * bps + 10000) \div 20000
                   ELSE -((2 * (-subtotal) * bps + 10000) \div 20000)

\* Database::save_ticket inserts the lines in order under PRIMARY KEY
\* (ticket_id, line_key) and ignores the result of each insert: of two lines
\* with one key only the first reaches the table, which is a set of rows.
StoredLines(items) ==
  {items[i] : i \in {j \in 1..Len(items) :
                       FirstWithKey(items, items[j].key) = j}}

\* load_all_tickets reads the rows back with no ORDER BY: some sequence of them.
LoadedLines(rows) == SetToSeq(rows)
=============================================================================

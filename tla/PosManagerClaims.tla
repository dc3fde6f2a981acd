-------------------------- MODULE PosManagerClaims --------------------------
(***************************************************************************)
(* What the changelog, the headers and the comments of the repository say  *)
(* of the engine and PosManager does not do.  Each property is checked by  *)
(* a run of its own, which ends in the counterexample the README explains. *)
(***************************************************************************)
EXTENDS PosManager

\* CHANGELOG 255, "Z-Report generation aggregating the full day's activity":
\* a report made for a day keeps every sale an earlier report of that day had
\* (end_day archives what is in memory now in place of the report before it).
ZReportCoversTheDay ==
  [][\A d \in Dates :
       (up /\ up' /\ archived[d] # NoRow) =>
         {s[1] : s \in archived[d]} \subseteq {s[1] : s \in archived'[d]}]_vars

\* CHANGELOG 149, "restores the ticket for editing while keeping the phone
\* order on hold, so staff can add/remove items before checkout": an action on
\* a phone order leaves the items of a ticket that is being edited alone
\* (CHECKOUT and a second EDIT put the old snapshot over it).
EditsOfPhoneOrderAreKept ==
  [][\A oid \in Oids :
       LET id == orders[oid].tid IN
       (PhoneOps(oid) /\ IsOpen(id)) => tickets'[id].items = tickets[id].items]_vars
=============================================================================

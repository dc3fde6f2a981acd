---------------------------- MODULE MCPosReports ----------------------------
(***************************************************************************)
(* The reports over small instances of PosManager.                         *)
(***************************************************************************)
EXTENDS PosReports, PosManagerBook

Plain    == LineKey("burger", {}, "")
OneKey   == {Plain}
OnePrice == Plain :> 2

\* The dish costs 3 with tax and 4 with the fee: exact change, a split with
\* change, and an amount checkout refuses.
NoTax   == {}
Tenders == {[cash |-> 4, card |-> 0], [cash |-> 2, card |-> 3], [cash |-> 3, card |-> 0]}
FlatFee == {1}
=============================================================================

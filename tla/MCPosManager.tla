---------------------------- MODULE MCPosManager ----------------------------
(***************************************************************************)
(* PosManager on small instances.  Prices are cents of a toy menu with one *)
(* dish, plain or without onions; the numbers are chosen so that totals,   *)
(* card fees and change are told apart.                                    *)
(***************************************************************************)
EXTENDS PosManagerClaims, PosManagerBook

Plain    == LineKey("burger", {}, "")
NoOnions == LineKey("burger", {[action |-> "NO", id |-> "onion"]}, "")

OneKey  == {Plain}
TwoKeys == {Plain, NoOnions}
OnePrice  == Plain :> 2
TwoPrices == (Plain :> 2) @@ (NoOnions :> 1)

NoTax  == {}
OneTax == {2500}

CashOf(n) == [cash |-> n, card |-> 0]
CardOf(n) == [cash |-> 0, card |-> n]
NoPayment  == {}
OnePayment == {CashOf(3)}
ExactSplit == {[cash |-> 1, card |-> 2]}
SplitPayments == {CashOf(2), CardOf(3), [cash |-> 1, card |-> 2]}
NoFee  == {0}
FlatFee == {1}
AFee   == {0, 1}
=============================================================================

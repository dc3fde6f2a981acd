----------------------------- MODULE MCRegisters -----------------------------
(***************************************************************************)
(* Two registers, one dish, two tickets and one phone order.               *)
(***************************************************************************)
EXTENDS Registers, TLC

Plain == LineKey("burger", {}, "")
OneKey == {Plain}
OnePrice == Plain :> 1
Nothing == {}
RegisterSymmetry == Permutations(Regs)
=============================================================================

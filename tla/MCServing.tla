------------------------------ MODULE MCServing ------------------------------
(***************************************************************************)
(* The serving daemon with two admin screens and a watch of two polls.     *)
(***************************************************************************)
EXTENDS Serving

NameOnly   == {"restaurant_name"}
NewInstall == [f \in NameOnly |-> "initial"]
\* A new name, and a form with an empty name.
TwoRequests == {[f \in NameOnly |-> "new"], [f \in NameOnly |-> ""]}
=============================================================================

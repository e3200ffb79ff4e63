----------------------------- MODULE MCFlowRules ------------------------------
(***************************************************************************)
(* A ring of four switches with the S-GW at 0: one eNB beside it, one at the   *)
(* S-GW's switch, two opposite, that share a switch.                         *)
(***************************************************************************)
EXTENDS FlowRules

MCEnb     == {"near", "local", "far", "far2"}
MCEnbSw   == [e \in MCEnb |-> CASE e = "near" -> 3 [] e = "local" -> 0 [] OTHER -> 2]
MCMetered == {{"DL", "UL"}, {"DL"}}
==============================================================================

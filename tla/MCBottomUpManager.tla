--------------------------- MODULE MCBottomUpManager --------------------------
(* Two agents, the first with two accounts; two of three validators decide. *)
EXTENDS BottomUpManager, TLC, FiniteSets

CONSTANTS a1, a2, v1, v2, v3, x

MCAccountsOf == (a1 :> <<v1, v2>>) @@ (a2 :> <<x, v3>>)
MCMajority == {q \in SUBSET Validators : Cardinality(q) >= 2}
===============================================================================

----------------------------- MODULE MCActivation -----------------------------
(* Activation with three graphs, two of which have one configuration.         *)
EXTENDS Activation

GraphsMC == {"g1", "g2", "g3"}
ConfMC == [g \in GraphsMC |-> IF g = "g3" THEN "other" ELSE "same"]
===============================================================================

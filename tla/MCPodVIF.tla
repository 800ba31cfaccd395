------------------------------ MODULE MCPodVIF ------------------------------
(* Two pods of a node, one of them with an additional vif.                 *)
EXTENDS PodVIF

CONSTANTS p1, p2

MCWanted == [p \in {p1, p2} |-> IF p = p1 THEN 2 ELSE 1]
=============================================================================

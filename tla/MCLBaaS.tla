------------------------------ MODULE MCLBaaS -------------------------------
(***************************************************************************)
(* Instances of LBaaS for TLC: one service whose pods come and go.  Ports  *)
(* 1 and 2 have one number and two protocols, port 3 another number.       *)
(***************************************************************************)
EXTENDS LBaaS

CONSTANTS src

TheClash == [p \in Ports |-> IF p \in {1, 2} THEN {1, 2} \ {p} ELSE {}]
ThePortSets == {{1}, {1, 2}, {3}}
TheAllowed == [p \in Ports |-> {src}]
=============================================================================

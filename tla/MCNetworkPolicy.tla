--------------------------- MODULE MCNetworkPolicy --------------------------
(* One policy, pods in and outside its namespace, two labels for pods and  *)
(* namespaces alike.                                                       *)
EXTENDS NetworkPolicy

CONSTANTS p1, p2, home, away, a, b

MCSpaceOf == [p \in {p1, p2} |-> IF p = p1 THEN home ELSE away]

(* Pods labelled a, of the namespaces labelled a; the pods of the policy's *)
(* namespace labelled a, and all of the namespaces labelled b.             *)
MCSpecs == {[sel |-> Any, peers |-> {[ns |-> a, pod |-> a]}],
            [sel |-> a, peers |-> {[ns |-> None, pod |-> a], [ns |-> b, pod |-> Any]}]}
=============================================================================

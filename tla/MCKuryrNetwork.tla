--------------------------- MODULE MCKuryrNetwork ---------------------------
(* A namespace with a pod on one node.                                     *)
EXTENDS KuryrNetwork

CONSTANT p1
=============================================================================

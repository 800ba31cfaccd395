---------------------------- MODULE MCNestedPool ----------------------------
(* A node with two pods.                                                   *)
EXTENDS NestedPool

CONSTANTS p1, p2
=============================================================================

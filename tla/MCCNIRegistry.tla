--------------------------- MODULE MCCNIRegistry ---------------------------
(***************************************************************************)
(* Instances of CNIRegistry for TLC: two pods take one name, the first has *)
(* two containers.                                                         *)
(***************************************************************************)
EXTENDS CNIRegistry

CONSTANTS u1, u2, s3

TwoPodOf == [s \in Containers |-> IF s = s3 THEN u2 ELSE u1]
=============================================================================

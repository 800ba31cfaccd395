----------------------------- MODULE MCVIFPool -----------------------------
(***************************************************************************)
(* Instances of VIFPool for TLC: one pool of one network, so that every    *)
(* port and every pod meet in it.                                          *)
(***************************************************************************)
EXTENDS VIFPoolInv

CONSTANTS thePool, theNet, PlainPods

OneNetOf == [k \in Pools |-> theNet]
OnePoolOf == [p \in Ports |-> thePool]
OnePodPool == [c \in Pods |-> thePool]
(* PlainPods ask for no security group, the others for all of them. *)
TwoPodSGs == [c \in Pods |-> IF c \in PlainPods THEN {} ELSE SGs]

PortSymmetry == Permutations(Ports)
=============================================================================

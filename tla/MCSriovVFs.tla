----------------------------- MODULE MCSriovVFs -----------------------------
(* A pod with two networks, whose VFs one container requests or two do,  *)
(* and a pod with one, on a node with two VFs.                           *)
EXTENDS SriovVFs, TLC

CONSTANTS p1, p2, v1, v2

MCRequests == p1 :> {1 :> 2 @@ 2 :> 0, 1 :> 1 @@ 2 :> 1} @@ p2 :> {1 :> 0 @@ 2 :> 1}
MCNetworks == p1 :> 2 @@ p2 :> 1
=============================================================================

----------------------------- MODULE PortLease -----------------------------
(***************************************************************************)
(* What a driver of pod vifs promises, whatever it keeps in its pools:     *)
(* every Neutron port is created once and deleted at most once, serves one *)
(* pod at a time, and is neither given out nor deleted while a pod has it. *)
(***************************************************************************)
CONSTANTS Pods, Ports

VARIABLES
    life,     \* of a port: "unborn", "live" or "deleted"
    holders   \* the pods that a port has been given to

lease == <<life, holders>>

Init ==
    /\ life = [p \in Ports |-> "unborn"]
    /\ holders = [p \in Ports |-> {}]

(* Neutron creates the ports S. *)
Create(S) ==
    /\ \A p \in S : life[p] = "unborn"
    /\ life' = [p \in Ports |-> IF p \in S THEN "live" ELSE life[p]]
    /\ UNCHANGED holders

(* Pod c, which has no port, is given the live port p, which has no pod. *)
Take(c, p) ==
    /\ life[p] = "live" /\ holders[p] = {}
    /\ \A q \in Ports : c \notin holders[q]
    /\ holders' = [holders EXCEPT ![p] = {c}]
    /\ UNCHANGED life

(* The pods C lose their ports: one pod that leaves, or fails to be wired;  *)
(* many when the controller restarts.                                       *)
Leave(C) ==
    /\ holders' = [p \in Ports |-> holders[p] \ C]
    /\ UNCHANGED life

(* A port without a pod is deleted. *)
Delete(p) ==
    /\ life[p] = "live" /\ holders[p] = {}
    /\ life' = [life EXCEPT ![p] = "deleted"]
    /\ UNCHANGED holders

Next ==
    \/ \E S \in SUBSET Ports : Create(S)
    \/ \E c \in Pods, p \in Ports : Take(c, p)
    \/ \E C \in SUBSET Pods : Leave(C)
    \/ \E p \in Ports : Delete(p)

Spec == Init /\ [][Next]_lease
=============================================================================

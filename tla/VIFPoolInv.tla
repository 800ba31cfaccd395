----------------------------- MODULE VIFPoolInv -----------------------------
(***************************************************************************)
(* The inductive invariant behind the safety of VIFPool: every port the    *)
(* controller knows is in one place.                                       *)
(***************************************************************************)
EXTENDS VIFPool

Jobs == {<<k, g>> : k \in Pools, g \in Groups}

(* The places: the lists of the pools, the pods, the populating threads, the *)
(* recyclable ports, the list that remove_sg_from_pools is moving, and the   *)
(* ports that the start-up recovery has yet to list.                         *)
ListPlace(k, g) == <<"list", k, g>>
PodPlace(c) == <<"pod", c, c>>
JobPlace(j) == <<"job", j, j>>
Recyclable == <<"recyclable", NoPort, NoPort>>
Moving == <<"moving", NoPort, NoPort>>
ToRecover == <<"found", NoPort, NoPort>>

Places ==
    UNION {{ListPlace(k, g) : k \in Pools, g \in AllGroups},
           {JobPlace(j) : j \in Jobs}, {PodPlace(c) : c \in Pods},
           {Recyclable, Moving, ToRecover}}

(* Port p is in place x. *)
At(p, x) ==
    \/ \E k \in Pools, g \in AllGroups : x = ListPlace(k, g) /\ p \in ToSet(avail[k][g])
    \/ \E j \in Jobs : x = JobPlace(j) /\ p \in ToSet(created[j])
    \/ \E c \in Pods : x = PodPlace(c) /\ held[c] = p
    \/ x = Recyclable /\ p \in recyclable
    \/ x = Moving /\ p \in ToSet(sgJob.ports)
    \/ x = ToRecover /\ found[p] # NoGroup

PlacesOf(p) == {x \in Places : At(p, x)}

(* The controller knows the port, apart from its recovery. *)
Known(p) == PlacesOf(p) \ {ToRecover} # {}

(* A pod has a port while its handler wires it and while it runs. *)
PodsConsistent ==
    \A c \in Pods :
        /\ c \in annotated <=> pc[c] = "running"
        /\ held[c] # NoPort <=> pc[c] \in {"updating", "annotating", "running"}
        /\ c \in removed => pc[c] \notin {"absent", "gone"}

(* No list names a port twice. *)
ListsInjective ==
    /\ \A k \in Pools, g \in AllGroups : IsInjective(avail[k][g])
    /\ IsInjective(sgJob.ports)
    /\ \A j \in Jobs : IsInjective(created[j])

(* No port is in two places. *)
OneOwner ==
    \A p \in Ports : \A x, y \in PlacesOf(p) : x = y

(* Neutron has created the ports that are in a place. *)
PlacedAreBorn ==
    \A p \in Ports : PlacesOf(p) # {} => life[p] # "unborn"

(* Nothing is populated before the recovery is over. *)
Populating ==
    \A j \in Jobs : /\ phase # "ready" => wanted[j] = 0
                    /\ wanted[j] = 0 => created[j] = <<>>

(* Until the recovery has listed Neutron's ports, the controller knows those *)
(* of the pods it has listed, or is going to list.                           *)
Recovering ==
    /\ \A p \in Ports : found[p] # NoGroup => phase = "recovering"
    /\ phase \in {"starting", "reset"} =>
          /\ removed = {}
          /\ \A p \in Ports : Known(p) => \E c \in annotated : held[c] = p
    /\ phase = "listed" => \A p \in Ports : Known(p) => p \in inUse

(* A port to recycle is still recyclable. *)
Recycling == recycler.todo \subseteq recyclable

OnePlace ==
    /\ PodsConsistent
    /\ ListsInjective
    /\ OneOwner
    /\ PlacedAreBorn
    /\ Populating
    /\ Recovering
    /\ Recycling
-----------------------------------------------------------------------------
(* What the deletion of ports adds: only those that nothing may give out are *)
(* deleted.                                                                  *)

Deserted(k) == NetOf[k] \in deadNets

(* Port p is, or may come to be, the port of a pod. *)
Useful(p) ==
    \/ \E k \in Pools, g \in AllGroups : p \in ToSet(avail[k][g]) /\ ~Deserted(k)
    \/ \E k \in sgJob.cur : p \in ToSet(sgJob.ports) /\ ~Deserted(k)
    \/ \E j \in Jobs : p \in ToSet(created[j])
    \/ \E c \in Pods : held[c] = p
    \/ p \in recyclable
    \/ found[p] # NoGroup

UsefulAlive ==
    \A p \in Ports : Useful(p) => life[p] = "live" /\ p \notin netJob.ports

(* The pods of a deleted network do not ask for ports. *)
NetsQuiet ==
    \A c \in Pods : Deserted(PodPool[c]) => pc[c] \in {"absent", "running", "gone"}

(* delete_network_pools deletes ports of the pools of deleted networks.      *)
Deserting ==
    /\ \A p \in netJob.ports : life[p] # "unborn"
    /\ netJob.net \subseteq deadNets
    /\ \A k \in netJob.pools : Deserted(k)
    /\ netJob.pc = "idle" => netJob.ports = {}
    /\ netJob.pc # "idle" => phase = "ready"

(* It waits while it recycles the ports. *)
Triggered == recycler.pc = "loop" /\ recycler.by = "net" => netJob.pc = "trigger"

(* remove_sg_from_pools has the ports of one pool at a time. *)
OnePool ==
    /\ \A k, l \in sgJob.cur : k = l
    /\ sgJob.pc # "ports" => sgJob.ports = <<>>

DeletedUnused ==
    /\ UsefulAlive
    /\ NetsQuiet
    /\ Deserting
    /\ Triggered
    /\ OnePool
-----------------------------------------------------------------------------
(* What the security groups add: the groups under which a port is kept, or   *)
(* was asked for, are the port's.                                            *)

(* Port p is kept, or about to be kept or handed out, under the groups g.    *)
Under(p, g) ==
    \/ \E k \in Pools : p \in ToSet(avail[k][g]) \/ p \in ToSet(created[<<k, g>>])
    \/ found[p] = g
    \/ p \in recycler.todo /\ recycler.seen[p] = g
    \/ \E c \in Pods : pc[c] = "annotating" /\ held[c] = p /\ PodSGs[c] = g

GroupsRight == \A p \in Ports, g \in Groups : Under(p, g) => portSG[p] = g

(* A network policy's handler is at the port of a pod that has it.           *)
PolicyPod ==
    polJob # NoPolJob =>
        \E c \in annotated \ removed : polJob.pod = {c} /\ polJob.port = held[c]

SGsRight == GroupsRight /\ PolicyPod
-----------------------------------------------------------------------------
(* What it takes to lose no port: while no call has failed and no network    *)
(* has been deleted, the driver has the vifs of the ports that it may give   *)
(* out, and finds the ports of Neutron after a restart.                      *)

(* The controller has port p somewhere.                                      *)
Somewhere(p) ==
    \/ \E k \in Pools, g \in AllGroups : p \in ToSet(avail[k][g])
    \/ \E j \in Jobs : p \in ToSet(created[j])
    \/ \E c \in Pods : held[c] = p
    \/ p \in recyclable \cup ToSet(sgJob.ports)
    \/ found[p] # NoGroup

(* The driver will look up the vif of port p.                                *)
LooksUp(p) ==
    \/ \E k \in Pools, g \in AllGroups : p \in ToSet(avail[k][g])
    \/ p \in recyclable \cup ToSet(sgJob.ports)
    \/ \E c \in Pods : pc[c] = "updating" /\ held[c] = p

(* It has them all.                                                          *)
VifsKnown == \A p \in Ports : LooksUp(p) => p \in existing

(* It has every port of Neutron, as far as it has listed them.               *)
AllPlaced ==
    /\ phase = "listed" => \A p \in inUse \cap Ports : life[p] = "live" => Somewhere(p)
    /\ phase \in {"recovering", "ready"} =>
          \A p \in Ports : life[p] = "live" => Somewhere(p)

Untroubled == ~faulty /\ deadNets = {}

NothingLost ==
    /\ sgJob.pc \in {"groups", "ports"} => sgJob.cur # {}
    /\ deadNets = {} => netJob = NoNetJob /\ UsefulAlive
    /\ Untroubled => VifsKnown /\ AllPlaced
=============================================================================

----------------------------- MODULE NestedPool -----------------------------
(***************************************************************************)
(* The pool of a network on a node that is a VM (NestedVIFPool and         *)
(* NestedVlanPodVIFDriver): its ports are subports of the trunk of the     *)
(* node, each under a vlan id that the controller hands out.               *)
(*                                                                         *)
(* Concurrently: the threads of pods, which pop ports and release them;    *)
(* those that fill the pool; the recycler; the pool manager, an HTTP       *)
(* server that frees the pool; and a restart, which recovers the pool from *)
(* Neutron.  Security groups, and how often a pool may be filled, are as   *)
(* in VIFPool, and left out here.                                          *)
(***************************************************************************)
EXTENDS Naturals, FiniteSets

CONSTANTS
    Pods,       \* pods of the network on the node
    Ports,      \* ids of Neutron ports, each used once; the quota
    Vlans,      \* the vlan ids of the segmentation driver
    PoolMin, PoolMax, Batch,   \* ports_pool_min, ports_pool_max, ports_pool_batch
    None,
    Races,      \* timings of the environment that are let in
    MaxChanges, MaxTroubles

ASSUME NestedPoolAssumption ==
    /\ Ports \subseteq Nat /\ Vlans \subseteq Nat \ {0} /\ None \notin Ports
    /\ IsFiniteSet(Ports) /\ IsFiniteSet(Vlans)
    /\ PoolMin \in Nat /\ PoolMax \in Nat /\ Batch \in Nat \ {0}

VARIABLES
    ports, trunk,     \* in Neutron: the ports, those attached to the trunk
    vlan,             \* vlan[q]: the vlan id of q's vif, 0 before q exists
    held,             \* ids that the segmentation driver has handed out
    available, recyclable, existing,    \* the pool's tables
    opened,           \* the pool's key has groups in _available_ports_pools
    recovered,        \* _recovered_pools
    pod,              \* pods in the API: st, the annotated vif
    popped,           \* what the thread of each pod has popped and not annotated
    filler,           \* the threads that fill the pool
    recycler,         \* who runs _trigger_return_to_pool, and on which ports
    freed,            \* what free_pool has still to remove
    alive, changes, troubles

poolVars == <<ports, trunk, vlan, held, available, recyclable, existing, opened,
              recovered, pod, popped, filler, recycler, freed>>
neutron  == <<ports, trunk, vlan, held>>
tables   == <<available, recyclable, existing, opened, recovered>>
threads  == <<popped, filler, recycler, freed>>
counters == <<alive, changes, troubles>>

Fillers   == {"pods", "namespace"}
NoFill    == [pc |-> "idle", busy |-> {}, n |-> 0, new |-> {}]
NoRecycle == [by |-> "none", todo |-> {}, port |-> None]
NoFree    == [todo |-> {}, port |-> None]

PoolInit ==
    /\ ports = {} /\ trunk = {} /\ vlan = [q \in Ports |-> 0] /\ held = {}
    /\ available = {} /\ recyclable = {} /\ existing = {} /\ opened = FALSE
    /\ recovered = TRUE
    /\ pod = [p \in Pods |-> [st |-> "none", vif |-> None]]
    /\ popped = [p \in Pods |-> None]
    /\ filler = [f \in Fillers |-> NoFill] /\ recycler = NoRecycle /\ freed = NoFree
    /\ alive = TRUE /\ changes = 0 /\ troubles = 0

Change  == changes < MaxChanges /\ changes' = changes + 1 /\ UNCHANGED <<alive, troubles>>
Trouble == troubles < MaxTroubles /\ troubles' = troubles + 1 /\ UNCHANGED <<alive, changes>>
GivenUp == alive' = FALSE /\ UNCHANGED <<changes, troubles>>

InUse     == {vlan[q] : q \in trunk}
Annotated == {pod[p].vif : p \in {r \in Pods : pod[r].st = "present"}} \ {None}
Bigger(a, b) == IF a > b THEN a ELSE b
Rank(S, x) == Cardinality({y \in S : y <= x})
Least(S, k) == {x \in S : Rank(S, x) <= k}

(* free_pool works on ports that others work on: the race                  *)
(* "free_while_busy".                                                      *)
Undisturbed == "free_while_busy" \in Races \/ freed = NoFree

-----------------------------------------------------------------------------
(* Filling the pool (_populate_pool, request_vifs).                        *)

Fill(f, w) == filler' = [filler EXCEPT ![f] = w]

(* The ids in use are read from the trunk.                                 *)
Reads(n) == [pc |-> "create", busy |-> InUse, n |-> n, new |-> {}]

(* _populate_pool, in a thread of its own unless one is at it; s: the ports*)
(* that the pool has.                                                      *)
Spawned(s) ==
    IF filler["pods"].pc = "idle" /\ recovered /\ Cardinality(s) < PoolMin
    THEN [filler EXCEPT !["pods"] = Reads(Bigger(Batch, PoolMin - Cardinality(s)))]
    ELSE filler

(* Mutant: the trunk is not looked at.                                     *)
FreeIdsUnread(f) == Vlans \ held

FreeIds(f) == Vlans \ (filler[f].busy \cup held)

Unused == {q \in Ports : vlan[q] = 0}

(* As many as there are ids for.  If the ports cannot be created, for lack *)
(* of quota too, the ids stay handed out, and nothing but the exception is *)
(* left; exists: whether the network does.                                 *)
FillCreate(f, exists) ==
    /\ filler[f].pc = "create"
    /\ LET ids == Least(FreeIds(f), filler[f].n)
           new == Least(Unused, Cardinality(ids))
           can == exists /\ Cardinality(new) = Cardinality(ids)
       IN \/ /\ can \/ ids = {}
             /\ ports' = ports \cup new
             /\ vlan' = [q \in Ports |->
                    IF q \in new
                    THEN CHOOSE i \in ids : Rank(ids, i) = Rank(new, q) ELSE vlan[q]]
             /\ held' = held \cup ids
             /\ Fill(f, IF ids = {} THEN NoFill
                        ELSE [NoFill EXCEPT !.pc = "attach", !.new = new])
             /\ UNCHANGED counters
          \/ /\ ids # {}
             /\ troubles' = IF can THEN troubles + 1 ELSE troubles
             /\ troubles' <= MaxTroubles
             /\ alive' = (alive /\ f = "pods") /\ UNCHANGED changes
             /\ held' = held \cup ids
             /\ Fill(f, NoFill)
             /\ UNCHANGED <<ports, vlan>>
    /\ UNCHANGED <<trunk, tables, pod, popped, recycler, freed>>

(* All subports or none; the ports that could not be attached are deleted, *)
(* their ids stay handed out.                                              *)
CanAttach(f) ==
    /\ filler[f].new \subseteq ports
    /\ {vlan[q] : q \in filler[f].new} \cap InUse = {}

FillAttach(f) ==
    /\ filler[f].pc = "attach"
    /\ \/ /\ CanAttach(f) /\ trunk' = trunk \cup filler[f].new
          /\ Fill(f, [filler[f] EXCEPT !.pc = "register"])
          /\ UNCHANGED <<ports, counters>>
       \/ /\ IF CanAttach(f) THEN Trouble ELSE UNCHANGED counters
          /\ ports' = ports \ filler[f].new
          /\ Fill(f, NoFill)
          /\ UNCHANGED trunk
    /\ UNCHANGED <<vlan, held, tables, pod, popped, recycler, freed>>

FillRegister(f) ==
    /\ filler[f].pc = "register"
    /\ existing' = existing \cup filler[f].new
    /\ available' = available \cup filler[f].new
    /\ opened' = TRUE
    /\ Fill(f, NoFill)
    /\ UNCHANGED <<neutron, recyclable, recovered, pod, popped, recycler, freed, counters>>

-----------------------------------------------------------------------------
(* Pods: creation and deletion, and VIFHandler's thread of each.           *)

CreatePod(p) ==
    /\ Change /\ pod[p].st = "none"
    /\ pod' = [pod EXCEPT ![p].st = "present"]
    /\ UNCHANGED <<neutron, tables, threads>>

(* A pod is deleted between the watch's list of pods and sync_pools, which *)
(* recovers its port before the port is released: "deleted_in_sync".       *)
DeletePod(p) ==
    /\ pod[p].st = "present" /\ ("deleted_in_sync" \in Races \/ recovered)
    /\ pod' = [pod EXCEPT ![p].st = "gone"]
    /\ UNCHANGED <<neutron, tables, threads>>

Requests(p) == pod[p].st = "present" /\ pod[p].vif = None /\ popped[p] = None /\ Undisturbed

(* A port that the pool has no vif of is popped for nothing.               *)
Pop(p) ==
    /\ Requests(p) /\ recovered
    /\ \E q \in available :
          /\ available' = available \ {q}
          /\ IF q \in existing
             THEN popped' = [popped EXCEPT ![p] = q] /\ UNCHANGED counters
             ELSE GivenUp /\ UNCHANGED popped
    /\ filler' = Spawned(available')
    /\ UNCHANGED <<neutron, recyclable, existing, opened, recovered, pod, recycler, freed>>

(* Mutant: the pod is handled again, but the pool is not filled.           *)
PoolIsEmptyOnly(p) ==
    /\ Requests(p) /\ available = {}
    /\ UNCHANGED <<poolVars, counters>>

(* ResourceNotReady, and the pod is handled again.                         *)
PoolIsEmpty(p) ==
    /\ Requests(p) /\ available = {}
    /\ filler' = Spawned({})
    /\ UNCHANGED <<neutron, tables, pod, popped, recycler, freed, counters>>

(* release_vif: it is enough to know the port.                             *)
Release(q) == recyclable' = recyclable \cup {q} /\ existing' = existing \cup {q}

(* A pod that cannot be annotated gives its port back.                     *)
Annotate(p) ==
    /\ popped[p] # None
    /\ popped' = [popped EXCEPT ![p] = None]
    /\ \/ /\ pod[p].st = "present"
          /\ pod' = [pod EXCEPT ![p].vif = popped[p]]
          /\ UNCHANGED <<recyclable, existing, counters>>
       \/ /\ IF pod[p].st = "present" THEN Trouble ELSE UNCHANGED counters
          /\ Release(popped[p])
          /\ UNCHANGED pod
    /\ UNCHANGED <<neutron, available, opened, recovered, filler, recycler, freed>>

PodGone(p) ==
    /\ pod[p].st = "gone" /\ popped[p] = None
    /\ IF pod[p].vif = None THEN UNCHANGED <<recyclable, existing>>
       ELSE recovered /\ Release(pod[p].vif)
    /\ pod' = [pod EXCEPT ![p] = [st |-> "none", vif |-> None]]
    /\ UNCHANGED <<neutron, available, opened, recovered, threads, counters>>

-----------------------------------------------------------------------------
(* Recycling (_trigger_return_to_pool), under the lock                     *)
(* 'return_to_pool_nested', which populate_pool takes as well.             *)

Unlocked == recycler.by = "none" /\ filler["namespace"].pc = "idle"

Recycles(by) == recycler' = [by |-> by, todo |-> recyclable, port |-> None]

Room == PoolMax = 0 \/ Cardinality(available) < PoolMax

(* A round that would change nothing is left out.                          *)
RecycleStart ==
    /\ Unlocked /\ Undisturbed
    /\ \E q \in recyclable : Room \/ q \in trunk
    /\ Recycles("recycler")
    /\ UNCHANGED <<neutron, tables, pod, popped, filler, freed, counters>>

(* The next port: back to the pool, or out of the trunk if the pool is     *)
(* full; what cannot be detached is left for another time.                 *)
Recycle ==
    /\ recycler.by # "none" /\ recycler.port = None
    /\ \E q \in recycler.todo :
       LET left == [recycler EXCEPT !.todo = @ \ {q}] IN
       IF Room
       THEN /\ available' = available \cup {q} /\ opened' = TRUE
            /\ recyclable' = recyclable \ {q}
            /\ recycler' = left
            /\ UNCHANGED <<trunk, counters>>
       ELSE /\ UNCHANGED <<available, opened, recyclable>>
            /\ \/ q \in trunk /\ trunk' = trunk \ {q} /\ UNCHANGED counters
                  /\ recycler' = [left EXCEPT !.port = q]
               \/ /\ IF q \in trunk THEN Trouble ELSE UNCHANGED counters
                  /\ recycler' = left /\ UNCHANGED trunk
    /\ UNCHANGED <<ports, vlan, held, existing, recovered, pod, popped, filler, freed>>

(* If the port cannot be deleted it stays recyclable, though its vif is    *)
(* forgotten: the race "delete_fails".  A vif that is not known has its    *)
(* port left behind.                                                       *)
RecycleDelete ==
    /\ recycler.port # None
    /\ LET q == recycler.port IN
       /\ recycler' = [recycler EXCEPT !.port = None]
       /\ held' = IF q \in existing THEN held \ {vlan[q]} ELSE held
       /\ existing' = existing \ {q}
       /\ \/ /\ ports' = IF q \in existing THEN ports \ {q} ELSE ports
             /\ recyclable' = recyclable \ {q}
             /\ UNCHANGED counters
          \/ /\ "delete_fails" \in Races /\ q \in existing /\ Trouble
             /\ UNCHANGED <<ports, recyclable>>
    /\ UNCHANGED <<trunk, vlan, available, opened, recovered, pod, popped, filler, freed>>

RecycleEnd ==
    /\ recycler.by = "recycler" /\ recycler.port = None /\ recycler.todo = {}
    /\ recycler' = NoRecycle
    /\ UNCHANGED <<neutron, tables, pod, popped, filler, freed, counters>>

-----------------------------------------------------------------------------
(* The pool manager: free_pool.                                            *)

(* The pods are asked for before the ports.                                *)
FreePool ==
    /\ Change /\ recovered /\ freed = NoFree
    /\ \/ "free_while_busy" \in Races
       \/ /\ recyclable = {} /\ recycler = NoRecycle
          /\ \A p \in Pods : popped[p] = None /\ (pod[p].st = "gone" => pod[p].vif = None)
          /\ \A f \in Fillers : filler[f].pc = "idle"
    /\ freed' = [todo |-> trunk \ Annotated, port |-> None]
    /\ UNCHANGED <<neutron, tables, pod, popped, filler, recycler>>

(* What has been detached by others is skipped.  A port that is detached   *)
(* and cannot be deleted stays in the pool: "delete_fails".                *)
FreePort ==
    /\ freed.port = None
    /\ \E q \in freed.todo :
          \/ /\ freed' = [todo |-> freed.todo \ {q}, port |-> IF q \in trunk THEN q ELSE None]
             /\ IF q \in trunk THEN trunk' = trunk \ {q} /\ ports' = ports \ {q}
                ELSE UNCHANGED <<trunk, ports>>
             /\ UNCHANGED counters
          \/ /\ "delete_fails" \in Races /\ Trouble
             /\ freed' = [freed EXCEPT !.todo = @ \ {q}]
             /\ trunk' = trunk \ {q} /\ UNCHANGED ports
    /\ UNCHANGED <<vlan, held, tables, pod, popped, filler, recycler>>

FreeForget ==
    /\ freed.port # None
    /\ LET q == freed.port IN
       /\ freed' = [freed EXCEPT !.port = None]
       /\ held' = held \ {vlan[q]}
       /\ existing' = existing \ {q}
       /\ available' = IF q \in existing THEN available \ {q} ELSE available
    /\ UNCHANGED <<ports, trunk, vlan, recyclable, opened, recovered, pod, popped, filler,
                   recycler, counters>>

-----------------------------------------------------------------------------
(* A restart forgets the tables and the ids; sync_pools recovers subports  *)
(* that no pod is annotated with, and deletes ports that are not attached. *)

ForgetsPool ==
    /\ held' = {} /\ available' = {} /\ recyclable' = {} /\ existing' = {}
    /\ opened' = FALSE /\ recovered' = FALSE
    /\ popped' = [p \in Pods |-> None]
    /\ filler' = [f \in Fillers |-> NoFill] /\ recycler' = NoRecycle /\ freed' = NoFree
    /\ pod' = [p \in Pods |-> IF pod[p].st = "gone" THEN [st |-> "none", vif |-> None]
                              ELSE pod[p]]
    /\ UNCHANGED <<ports, trunk, vlan>>

(* Mutant: the subports of pods too.                                       *)
RecoverAll ==
    /\ ~recovered /\ recovered' = TRUE
    /\ available' = trunk /\ existing' = trunk /\ opened' = (trunk # {})
    /\ ports' = trunk
    /\ UNCHANGED <<trunk, vlan, held, recyclable, pod, popped, filler, recycler, freed, counters>>

Recover ==
    /\ ~recovered /\ recovered' = TRUE
    /\ LET found == trunk \ Annotated IN
       available' = found /\ existing' = found /\ opened' = (found # {})
    /\ ports' = trunk
    /\ UNCHANGED <<trunk, vlan, held, recyclable, pod, popped, filler, recycler, freed, counters>>

-----------------------------------------------------------------------------
(* The pool by itself: its network is there, and no one deletes it.        *)

PodThread(p) == Pop(p) \/ PoolIsEmpty(p) \/ Annotate(p) \/ PodGone(p)
FillThread   == FillCreate("pods", TRUE) \/ FillAttach("pods") \/ FillRegister("pods")
Recycler     == RecycleStart \/ Recycle \/ RecycleDelete \/ RecycleEnd
Manager      == FreePort \/ FreeForget

PoolRestart == Trouble /\ ForgetsPool

PoolNext ==
    \/ \E p \in Pods : CreatePod(p) \/ (DeletePod(p) /\ UNCHANGED counters) \/ PodThread(p)
    \/ FillThread \/ Recycler \/ FreePool \/ Manager \/ Recover \/ PoolRestart

(* Retry calls the handler of a pod again; greenlets are scheduled in turn.*)
PoolSpec ==
    /\ PoolInit /\ [][PoolNext]_<<poolVars, counters>>
    /\ \A p \in Pods : WF_<<poolVars, counters>>(PodThread(p))
    /\ WF_<<poolVars, counters>>(FillThread) /\ WF_<<poolVars, counters>>(Recycler)
    /\ WF_<<poolVars, counters>>(Manager) /\ WF_<<poolVars, counters>>(Recover)

(* A port of the pool, one a pod is about to get and one it has are        *)
(* attached to the trunk; a pod's is no other's, and not in the pool.      *)
PortsUsable ==
    /\ available \ (freed.todo \cup {freed.port}) \subseteq trunk \cap existing
    /\ \A p \in Pods : pod[p].st = "present" =>
          LET mine == {pod[p].vif, popped[p]} \ {None} IN
          /\ mine \subseteq trunk \ (available \cup recyclable)
          /\ \A r \in Pods \ {p} : mine \cap {pod[r].vif, popped[r]} = {}

(* One controller never meets the conflict of vlan ids on the trunk.       *)
NoConflict == \A f \in Fillers : filler[f].pc = "attach" =>
                  {vlan[q] : q \in filler[f].new} \cap InUse = {}

(* A pod that waits for a port gets one, or goes.                          *)
EventuallyServed ==
    \A p \in Pods : pod[p].st = "present" /\ pod[p].vif = None
                        ~> pod[p].vif # None \/ pod[p].st # "present"
=============================================================================

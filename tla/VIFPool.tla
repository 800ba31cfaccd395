------------------------------ MODULE VIFPool ------------------------------
(***************************************************************************)
(* The pool of Neutron ports of a bare-metal kuryr-controller              *)
(* (controller/drivers/vif_pool.py: BaseVIFPool and NeutronVIFPool, with   *)
(* port_debug off) and the part of VIFHandler that takes ports from it and *)
(* gives them back (controller/handlers/vif.py).                           *)
(*                                                                         *)
(* The controller is one process of green threads: a thread loses the CPU  *)
(* only at a call to Neutron or to the Kubernetes API.  Each action below  *)
(* runs from one such call to the next, so the interleavings of the model  *)
(* are those of the threads: the handlers of the pods, the populating      *)
(* threads they spawn, the periodic recycling thread, the handlers that    *)
(* delete a network or a security group, and the start-up recovery.        *)
(*                                                                         *)
(* Abstractions.  A tuple of security groups is a set.  A pool key (host,  *)
(* project, network) is a member of Pools; a port id is created for one    *)
(* pool and never reused.  A missing key of a dict of ports and an empty   *)
(* list are one value, as every reader treats them alike.  A timestamp of  *)
(* _last_update is kept as "recent": less than ports_pool_update_frequency *)
(* ago.                                                                    *)
(***************************************************************************)
EXTENDS Integers, Sequences, FiniteSets, SequencesExt

CONSTANTS
    Pods,        \* pods ever created (a pod's uid is never reused)
    Ports,       \* the port ids Neutron can give out
    Pools,       \* the pool keys
    Nets,        \* the networks
    SGs,         \* the security groups
    NetOf,       \* the network of each pool key (_get_pool_key_net)
    PoolOf,      \* the pool key a port id is created for
    PodPool,     \* the pool key of each pod: its node, project and network
    PodSGs,      \* the security groups a pod asks its port to have
    PoolMin,     \* ports_pool_min
    PoolMax,     \* ports_pool_max, 0 when disabled
    PoolBatch,   \* ports_pool_batch
    NoPort,      \* no port
    NoSG,        \* marks the key None
    Races,       \* the environment's inconvenient timings that are allowed
    Troubles,    \* the kinds of trouble that happen, among TroubleNames
    MaxTroubles  \* bound: how many troubles happen in a run

(* A map over SUBSET SGs, which TLC enumerates once for all its workers. *)
Groups == {g : g \in SUBSET SGs}
(* The key None of a pool, or no groups at all. *)
NoGroup == {NoSG}
AllGroups == Groups \cup {NoGroup}

(***************************************************************************)
(* "event_during_sync": a pod leaves the API after the watch has started   *)
(*   and before the start-up recovery has listed the pods.                 *)
(* "late_policy_update": a network policy handler updates the port of a    *)
(*   pod that has left the API since the handler listed the pods.          *)
(* "request_during_net_delete": delete_network_pools runs while a pod of   *)
(*   the network is still being given a port.                              *)
(* "paged_listing": Neutron lists the ports page by page, and a port that is *)
(*   released between two pages is missing from the listing.               *)
(***************************************************************************)
RaceNames == {"event_during_sync", "late_policy_update",
              "request_during_net_delete", "paged_listing"}

(* Calls to Neutron or Kubernetes fail, the controller restarts, networks are *)
(* deleted, network policies are changed and deleted.                         *)
TroubleNames == {"failure", "restart", "net deletion", "policy"}

ASSUME ConstantsAssumption ==
    /\ NoPort \notin Ports
    /\ NoSG \notin SGs
    /\ IsFiniteSet(SGs)
    /\ NetOf \in [Pools -> Nets]
    /\ PoolOf \in [Ports -> Pools]
    /\ PodPool \in [Pods -> Pools]
    /\ PodSGs \in [Pods -> Groups]
    /\ PoolMin \in Nat /\ PoolMax \in Nat /\ PoolBatch \in Nat
    /\ MaxTroubles \in Nat
    /\ Races \subseteq RaceNames /\ Troubles \subseteq TroubleNames

VARIABLES
    \* Neutron
    life,        \* of a port: "unborn", "live" or "deleted"
    portSG,      \* the security groups Neutron applies to a port
    \* Kubernetes and the pod handlers
    pc,          \* where the handler of a pod stands
    held,        \* the port the pod has been given (its vif), or NoPort
    annotated,   \* pods whose vif is in the pod's annotation
    removed,     \* pods that have left the API, DELETED not yet handled
    \* the pool driver
    phase,       \* "starting": no dicts yet (hasattr fails) ... "ready"
    inUse,       \* recovery: the ports of the listed pods
    found,       \* recovery: unhandled listed ports with their groups
    avail,       \* _available_ports_pools: pool key -> groups -> list
    existing,    \* the keys of _existing_vifs
    recyclable,  \* the keys of _recyclable_ports (their value is PoolOf)
    lastUpdate,  \* _last_update: pool key -> its only group and date
    spawned,     \* populating threads not yet run
    wanted,      \* ports a populating thread has asked Neutron for
    created,     \* ports Neutron has created for it, response under way
    \* the other threads
    recycler,    \* _trigger_return_to_pool: the holder of its lock
    timerAlive,  \* the thread of _return_ports_to_pool is running
    netJob,      \* delete_network_pools
    deadNets,    \* networks that delete_network_pools was called for
    sgJob,       \* remove_sg_from_pools
    polJob,      \* update_vif_sgs by a network policy handler
    faulty,      \* a call has failed since the controller started
    troubles     \* the bound's counter

k8sVars == <<pc, held, annotated, removed>>
neutronVars == <<life, portSG>>
syncVars == <<phase, inUse, found>>
popVars == <<spawned, wanted, created>>
poolVars == <<avail, existing, recyclable, lastUpdate>>
recycleVars == <<recycler, timerAlive>>
netVars == <<netJob, deadNets>>
policyVars == <<sgJob, polJob>>
jobVars == <<recycleVars, netVars, policyVars>>
bounds == <<faulty, troubles>>
coreVars == <<k8sVars, neutronVars, syncVars, poolVars, popVars>>
vars == <<coreVars, jobVars, bounds>>

-----------------------------------------------------------------------------
(* Helpers and initial values *)

NoUpdate == [sg |-> NoGroup, recent |-> FALSE]
NoNetJob == [pc |-> "idle", net |-> {}, pools |-> {}, cur |-> {}, ports |-> {}]
NoSGJob == [pc |-> "idle", sg |-> {}, pools |-> {}, cur |-> {},
            groups |-> {}, ports |-> <<>>]
NoPolJob == [port |-> NoPort, pod |-> {}, sg |-> {}]

(* The dicts of ports, without the ports of the pools K. *)
Without(K) ==
    [k \in Pools |-> [g \in AllGroups |-> IF k \in K THEN <<>> ELSE avail[k][g]]]

(* Nobody holds the lock of _trigger_return_to_pool. *)
Unlocked(r) ==
    r = [pc |-> "idle", by |-> "timer", todo |-> {},
         seen |-> [p \in Ports |-> NoGroup]]

(* _get_pool_size of a pool's dict *)
PoolSize(pool) ==
    Cardinality(UNION {{g} \X DOMAIN pool[g] : g \in AllGroups})

(* Mutant: all the ports with a vif. *)
KnownPorts(pool) == existing

(* The ports listed in a pool's dict. *)
PoolPorts(pool) == UNION {ToSet(pool[g]) : g \in AllGroups}

(* Mutant: ports without known groups are left out. *)
ListingKnown(k, g, s) ==
    IF g = NoGroup THEN UNCHANGED avail
    ELSE avail' = [avail EXCEPT ![k][g] = @ \o s]

(* self._available_ports_pools.setdefault(key, {}).setdefault(g, []).append *)
Listing(k, g, s) == avail' = [avail EXCEPT ![k][g] = @ \o s]

(* Mutant: no thread is spawned. *)
SpawnNothing(c) == UNCHANGED spawned

(* The populating thread a request spawns for the pool of pod c. *)
Spawn(c) == spawned' = spawned \cup {<<PodPool[c], PodSGs[c]>>}

(* release_vif: the port becomes recyclable, with a known vif. *)
Release(p) ==
    /\ existing' = existing \cup {p}
    /\ recyclable' = recyclable \cup {p}

(* A trouble of kind t happens. *)
Trouble(t) ==
    /\ t \in Troubles /\ troubles < MaxTroubles
    /\ troubles' = troubles + 1
    /\ faulty' = (t = "failure" \/ (faulty /\ t # "restart"))

CallFails == Trouble("failure")

(* A call of a job that is itself a trouble fails: it is not counted again.  *)
JobFails ==
    /\ "failure" \in Troubles
    /\ faulty' = TRUE
    /\ UNCHANGED troubles

Requesting(c) == pc[c] \in {"pending", "backoff", "updating", "annotating"}

-----------------------------------------------------------------------------
(* The pods in the Kubernetes API *)

(* A pod is scheduled; its ADDED event reaches VIFHandler.on_present. *)
CreatePod(c) ==
    /\ pc[c] = "absent"
    /\ NetOf[PodPool[c]] \notin deadNets
    /\ pc' = [pc EXCEPT ![c] = "pending"]
    /\ UNCHANGED <<held, annotated, removed, neutronVars, syncVars, poolVars,
                   popVars, jobVars, bounds>>

(* The pod object is deleted from the API; its DELETED event is queued       *)
(* behind whatever its handler is doing.                                     *)
RemovePod(c) ==
    /\ pc[c] \notin {"absent", "gone"} /\ c \notin removed
    /\ \/ phase \in {"listed", "recovering", "ready"}
       \/ "event_during_sync" \in Races
    /\ c \notin polJob.pod \/ "late_policy_update" \in Races
    /\ removed' = removed \cup {c}
    /\ UNCHANGED <<pc, held, annotated, neutronVars, syncVars, poolVars,
                   popVars, jobVars, bounds>>

(* VIFHandler.on_deleted: an annotated vif is released.  Before sync_pools   *)
(* has created the dicts release_vif raises ResourceNotReady, and Retry      *)
(* calls the handler again.                                                  *)
HandleDeleted(c) ==
    /\ c \in removed
    /\ pc[c] \in {"pending", "backoff", "running", "stuck"}
    /\ IF c \in annotated
       THEN phase # "starting" /\ Release(held[c])
       ELSE UNCHANGED <<existing, recyclable>>
    /\ pc' = [pc EXCEPT ![c] = "gone"]
    /\ held' = [held EXCEPT ![c] = NoPort]
    /\ annotated' = annotated \ {c}
    /\ removed' = removed \ {c}
    /\ UNCHANGED <<neutronVars, syncVars, avail, lastUpdate, popVars, jobVars,
                   bounds>>

(* Retry after ResourceNotReady, while the pod still exists; or, after       *)
(* another exception, the pod's next event.                                  *)
NextTry(c) ==
    /\ pc[c] \in {"backoff", "stuck"} /\ c \notin removed
    /\ pc' = [pc EXCEPT ![c] = "pending"]
    /\ UNCHANGED <<held, annotated, removed, neutronVars, syncVars, poolVars,
                   popVars, jobVars, bounds>>

-----------------------------------------------------------------------------
(* request_vif and _get_port_from_pool *)

(* The end of _get_port_from_pool: populate a pool that got too small and    *)
(* return the port's vif.  KeyError when _existing_vifs has lost it: the     *)
(* handler fails and the port, popped from its list, is forgotten.           *)
HandOut(c, p, pool) ==
    /\ IF PoolSize(pool) < PoolMin THEN Spawn(c) ELSE UNCHANGED spawned
    /\ pc' = [pc EXCEPT ![c] = IF p \in existing THEN "annotating" ELSE "stuck"]
    /\ held' = [held EXCEPT ![c] = IF p \in existing THEN p ELSE NoPort]

(* The groups of pool k a port may be taken from when the list of the asked  *)
(* groups is empty: the least recently updated ones that have ports, any of  *)
(* them when the pool has no update information.                             *)
OtherGroups(k) ==
    LET u == lastUpdate[k].sg
    IN {g \in IF u = NoGroup THEN AllGroups ELSE {u} : avail[k][g] # <<>>}

(* A port of the asked groups is available: no call is needed. *)
RequestExact(c) ==
    LET k == PodPool[c]
        list == avail[k][PodSGs[c]]
    IN  /\ pc[c] = "pending"
        /\ list # <<>>
        /\ avail' = [avail EXCEPT ![k][PodSGs[c]] = Front(list)]
        /\ HandOut(c, Last(list), avail'[k])
        /\ UNCHANGED <<annotated, removed, neutronVars, syncVars, existing,
                       recyclable, lastUpdate, wanted, created, jobVars,
                       bounds>>

(* Mutant: the port stays in its list. *)
RequestOtherPeeking(c, g) ==
    LET k == PodPool[c]
    IN  /\ pc[c] = "pending"
        /\ avail[k][PodSGs[c]] = <<>>
        /\ g \in OtherGroups(k)
        /\ UNCHANGED avail
        /\ held' = [held EXCEPT ![c] = Last(avail[k][g])]
        /\ pc' = [pc EXCEPT ![c] = "updating"]
        /\ UNCHANGED <<annotated, removed, neutronVars, syncVars, existing,
                       recyclable, lastUpdate, popVars, jobVars, bounds>>

(* A port of other groups is taken; update_port is called for its groups. *)
RequestOther(c, g) ==
    LET k == PodPool[c]
    IN  /\ pc[c] = "pending"
        /\ avail[k][PodSGs[c]] = <<>>
        /\ g \in OtherGroups(k)
        /\ avail' = [avail EXCEPT ![k][g] = Front(avail[k][g])]
        /\ held' = [held EXCEPT ![c] = Last(avail[k][g])]
        /\ pc' = [pc EXCEPT ![c] = "updating"]
        /\ UNCHANGED <<annotated, removed, neutronVars, syncVars, existing,
                       recyclable, lastUpdate, popVars, jobVars, bounds>>

(* No port: ResourceNotReady, and a thread to populate the pool. *)
RequestRefused(c) ==
    /\ pc[c] = "pending"
    /\ avail[PodPool[c]][PodSGs[c]] = <<>>
    /\ OtherGroups(PodPool[c]) = {}
    /\ Spawn(c)
    /\ pc' = [pc EXCEPT ![c] = "backoff"]
    /\ UNCHANGED <<held, annotated, removed, neutronVars, syncVars, poolVars,
                   wanted, created, jobVars, bounds>>

(* Mutant: the groups of the port are not updated. *)
PortUpdatedLater(c) ==
    /\ pc[c] = "updating" /\ life[held[c]] = "live"
    /\ HandOut(c, held[c], avail[PodPool[c]])
    /\ UNCHANGED <<annotated, removed, neutronVars, syncVars, poolVars, wanted,
                   created, jobVars, bounds>>

PortUpdated(c) ==
    /\ pc[c] = "updating" /\ life[held[c]] = "live"
    /\ portSG' = [portSG EXCEPT ![held[c]] = PodSGs[c]]
    /\ HandOut(c, held[c], avail[PodPool[c]])
    /\ UNCHANGED <<annotated, removed, life, syncVars, poolVars, wanted,
                   created, jobVars, bounds>>

(* update_port raises (always for a port that is gone): nobody gives the     *)
(* port back, the controller has forgotten it.                               *)
PortUpdateFails(c) ==
    /\ pc[c] = "updating"
    /\ IF life[held[c]] = "live" THEN CallFails ELSE UNCHANGED bounds
    /\ pc' = [pc EXCEPT ![c] = "stuck"]
    /\ held' = [held EXCEPT ![c] = NoPort]
    /\ UNCHANGED <<annotated, removed, neutronVars, syncVars, poolVars, popVars,
                   jobVars>>

(* _set_pod_state: the vif is stored in the pod's annotation. *)
Annotate(c) ==
    /\ pc[c] = "annotating" /\ c \notin removed
    /\ annotated' = annotated \cup {c}
    /\ pc' = [pc EXCEPT ![c] = "running"]
    /\ UNCHANGED <<held, removed, neutronVars, syncVars, poolVars, popVars,
                   jobVars, bounds>>

(* The annotation is refused, as the pod is gone or for another reason: the  *)
(* vif is released.                                                          *)
AnnotateFails(c) ==
    /\ pc[c] = "annotating"
    /\ IF c \in removed THEN UNCHANGED bounds ELSE CallFails
    /\ Release(held[c])
    /\ pc' = [pc EXCEPT ![c] = "stuck"]
    /\ held' = [held EXCEPT ![c] = NoPort]
    /\ UNCHANGED <<annotated, removed, neutronVars, syncVars, avail, lastUpdate,
                   popVars, jobVars>>

-----------------------------------------------------------------------------
(* _populate_pool, for the pool of key j[1] and the groups j[2] *)

FreshPorts(k) == {p \in Ports : life[p] = "unborn" /\ PoolOf[p] = k}

(* How many ports a pool of the given size asks for. *)
NumPorts(size) ==
    IF size >= PoolMin THEN 0
    ELSE IF PoolBatch > PoolMin - size THEN PoolBatch ELSE PoolMin - size

(* The thread runs up to the bulk request.  Not before the recovery, and not *)
(* twice within the update frequency for the same groups.  Bound: one bulk   *)
(* request at a time for the same pool and groups.                           *)
PopulateStart(j) ==
    LET k == j[1]
    IN  /\ j \in spawned /\ wanted[j] = 0
        /\ spawned' = spawned \ {j}
        /\ IF phase # "ready" \/ lastUpdate[k] = [sg |-> j[2], recent |-> TRUE]
           THEN UNCHANGED <<lastUpdate, wanted>>
           ELSE /\ lastUpdate' =
                       [lastUpdate EXCEPT ![k] = [sg |-> j[2], recent |-> TRUE]]
                /\ wanted' = [wanted EXCEPT ![j] = NumPorts(PoolSize(avail[k]))]
        /\ UNCHANGED <<k8sVars, neutronVars, syncVars, avail, existing,
                       recyclable, created, jobVars, bounds>>

(* Neutron creates the ports; the answer is on its way. *)
PortsCreated(j) ==
    /\ wanted[j] > 0 /\ created[j] = <<>>
    /\ \E s \in Injection(1..wanted[j], FreshPorts(j[1])) :
          /\ created' = [created EXCEPT ![j] = s]
          /\ life' = [p \in Ports |-> IF p \in ToSet(s) THEN "live" ELSE life[p]]
          /\ portSG' = [p \in Ports |-> IF p \in ToSet(s) THEN j[2] ELSE portSG[p]]
    /\ UNCHANGED <<k8sVars, syncVars, poolVars, spawned, wanted, jobVars,
                   bounds>>

(* Neutron refuses, over quota or by a failure: the thread dies. *)
PortsRefused(j) ==
    /\ wanted[j] > 0 /\ created[j] = <<>>
    /\ IF Cardinality(FreshPorts(j[1])) < wanted[j]
       THEN UNCHANGED bounds ELSE CallFails
    /\ wanted' = [wanted EXCEPT ![j] = 0]
    /\ UNCHANGED <<k8sVars, neutronVars, syncVars, poolVars, spawned, created,
                   jobVars>>

PopulateFinish(j) ==
    /\ created[j] # <<>>
    /\ existing' = existing \cup ToSet(created[j])
    /\ Listing(j[1], j[2], created[j])
    /\ created' = [created EXCEPT ![j] = <<>>]
    /\ wanted' = [wanted EXCEPT ![j] = 0]
    /\ UNCHANGED <<k8sVars, neutronVars, syncVars, recyclable, lastUpdate,
                   spawned, jobVars, bounds>>

(* The binding of the new ports cannot be fetched: they are in no list. *)
PopulateFails(j) ==
    /\ created[j] # <<>>
    /\ CallFails
    /\ created' = [created EXCEPT ![j] = <<>>]
    /\ wanted' = [wanted EXCEPT ![j] = 0]
    /\ UNCHANGED <<k8sVars, neutronVars, syncVars, poolVars, spawned, jobVars>>

(* ports_pool_update_frequency has passed since the pool's last update. *)
Tick(k) ==
    /\ lastUpdate[k].recent
    /\ lastUpdate' = [lastUpdate EXCEPT ![k].recent = FALSE]
    /\ UNCHANGED <<k8sVars, neutronVars, syncVars, avail, existing, recyclable,
                   popVars, jobVars, bounds>>

-----------------------------------------------------------------------------
(* _trigger_return_to_pool, run by the timer of _return_ports_to_pool or by  *)
(* delete_network_pools, one at a time under the lock return_to_pool         *)

(* The caller may enter: the timer's thread, or delete_network_pools. *)
MayRecycle(by) ==
    \/ by = "timer" /\ timerAlive
    \/ by = "net" /\ netJob.pc = "trigger"

(* An exception leaves the caller: the timer's thread dies with its loop,    *)
(* the handler of the network gives up.                                      *)
CallerFails(by) ==
    IF by = "timer" THEN timerAlive' = FALSE /\ UNCHANGED netJob
    ELSE netJob' = NoNetJob /\ UNCHANGED timerAlive

(* Neutron lists the ports, and the groups of those that are recyclable are  *)
(* kept.  Then list(self._recyclable_ports.items()).                         *)
RecycleBegin(by) ==
    /\ phase # "starting"
    /\ recycler.pc = "idle" /\ MayRecycle(by)
    /\ \E missed \in IF "paged_listing" \in Races THEN SUBSET recyclable ELSE {{}} :
          recycler' = [pc |-> "loop", by |-> by, todo |-> recyclable,
                       seen |-> [p \in Ports |->
                               IF p \in recyclable \ missed /\ life[p] = "live"
                               THEN portSG[p] ELSE NoGroup]]
    /\ UNCHANGED <<coreVars, timerAlive, netVars, policyVars, bounds>>

(* The listing fails. *)
RecycleFails(by) ==
    /\ phase # "starting"
    /\ recycler.pc = "idle" /\ MayRecycle(by)
    /\ CallFails
    /\ CallerFails(by)
    /\ UNCHANGED <<coreVars, recycler, deadNets, policyVars>>

Processed(p) == [recycler EXCEPT !.todo = @ \ {p}, !.seen[p] = NoGroup]

HasRoom(k) == PoolMax = 0 \/ PoolSize(avail[k]) < PoolMax

(* Mutant: the port stays recyclable. *)
RecyclePortTwice(p) ==
    /\ recycler.pc = "loop" /\ p \in recycler.todo
    /\ HasRoom(PoolOf[p])
    /\ Listing(PoolOf[p], recycler.seen[p], <<p>>)
    /\ recycler' = Processed(p)
    /\ UNCHANGED <<k8sVars, neutronVars, syncVars, existing, recyclable, lastUpdate,
                   popVars, timerAlive, netVars, policyVars, bounds>>

(* The pool has room: the port is listed under the groups it was seen with,  *)
(* under None when the listing did not show it.                              *)
RecyclePort(p) ==
    /\ recycler.pc = "loop" /\ p \in recycler.todo
    /\ HasRoom(PoolOf[p])
    /\ Listing(PoolOf[p], recycler.seen[p], <<p>>)
    /\ recyclable' = recyclable \ {p}
    /\ recycler' = Processed(p)
    /\ UNCHANGED <<k8sVars, neutronVars, syncVars, existing, lastUpdate,
                   popVars, timerAlive, netVars, policyVars, bounds>>

(* The pool is full: the port is deleted, unless its vif is unknown. *)
DeletePort(p) ==
    /\ recycler.pc = "loop" /\ p \in recycler.todo
    /\ ~HasRoom(PoolOf[p])
    /\ existing' = existing \ {p}
    /\ life' = [life EXCEPT ![p] = IF p \in existing THEN "deleted" ELSE @]
    /\ recyclable' = recyclable \ {p}
    /\ recycler' = Processed(p)
    /\ UNCHANGED <<k8sVars, portSG, syncVars, avail, lastUpdate, popVars,
                   timerAlive, netVars, policyVars, bounds>>

(* delete_port raises: the port stays recyclable but its vif is forgotten. *)
DeletePortFails(p) ==
    /\ recycler.pc = "loop" /\ p \in recycler.todo
    /\ ~HasRoom(PoolOf[p])
    /\ p \in existing /\ existing' = existing \ {p}
    /\ CallFails
    /\ CallerFails(recycler.by)
    /\ Unlocked(recycler')
    /\ UNCHANGED <<k8sVars, neutronVars, syncVars, avail, recyclable,
                   lastUpdate, popVars, deadNets, policyVars>>

(* Mutant: the lock is not given back. *)
RecycleEndLocked == recycler.todo = {} /\ UNCHANGED vars

RecycleEnd ==
    /\ recycler.pc = "loop" /\ recycler.todo = {}
    /\ Unlocked(recycler')
    /\ IF recycler.by = "net" THEN netJob' = [netJob EXCEPT !.pc = "returned"]
       ELSE UNCHANGED netJob
    /\ UNCHANGED <<coreVars, timerAlive, deadNets, policyVars, bounds>>

-----------------------------------------------------------------------------
(* delete_network_pools *)

(* The pools of net n, with the keys that may be in the dict without ports. *)
PoolsOfNet(n) == {k \in Pools : NetOf[k] = n}
KeysOfNet(n) ==
    {K \in SUBSET PoolsOfNet(n) :
        \A k \in PoolsOfNet(n) : PoolPorts(avail[k]) # {} => k \in K}

(* KuryrNetwork's on_finalize calls it for a namespace that is going away.   *)
(* It first returns the recyclable ports to the pools.                       *)
NetDeleteStart(n) ==
    /\ Trouble("net deletion")
    /\ phase = "ready" /\ netJob.pc = "idle"
    /\ \/ "request_during_net_delete" \in Races
       \/ \A c \in Pods : NetOf[PodPool[c]] = n => ~Requesting(c) /\ pc[c] # "stuck"
    /\ netJob' = [NoNetJob EXCEPT !.pc = "trigger", !.net = {n}]
    /\ deadNets' = deadNets \cup {n}
    /\ UNCHANGED <<coreVars, recycleVars, policyVars>>

NetDeletePools ==
    /\ netJob.pc = "returned"
    /\ \E n \in netJob.net : \E K \in KeysOfNet(n) :
          netJob' = [netJob EXCEPT !.pc = "pools", !.pools = K]
    /\ UNCHANGED <<coreVars, recycleVars, deadNets, policyVars, bounds>>

(* The next pool: the ids of its ports are copied. *)
NetDeletePool(k) ==
    /\ netJob.pc = "pools" /\ k \in netJob.pools
    /\ netJob' = [netJob EXCEPT !.pc = "ports", !.pools = @ \ {k}, !.cur = {k},
                                !.ports = PoolPorts(avail[k])]
    /\ UNCHANGED <<coreVars, recycleVars, deadNets, policyVars, bounds>>

NetDeletePort(p) ==
    /\ netJob.pc = "ports" /\ p \in netJob.ports
    /\ existing' = existing \ {p}
    /\ life' = [life EXCEPT ![p] = "deleted"]
    /\ netJob' = [netJob EXCEPT !.ports = @ \ {p}]
    /\ UNCHANGED <<k8sVars, portSG, syncVars, avail, recyclable, lastUpdate,
                   popVars, recycleVars, deadNets, policyVars, bounds>>

(* delete_port raises, after the port's vif was forgotten. *)
NetDeletePortFails(p) ==
    /\ netJob.pc = "ports" /\ p \in netJob.ports
    /\ JobFails
    /\ existing' = existing \ {p}
    /\ netJob' = NoNetJob
    /\ UNCHANGED <<k8sVars, neutronVars, syncVars, avail, recyclable,
                   lastUpdate, popVars, recycleVars, deadNets, policyVars>>

(* self._available_ports_pools[pool_key] = {} *)
NetClearPool ==
    /\ netJob.pc = "ports" /\ netJob.ports = {}
    /\ avail' = Without(netJob.cur)
    /\ netJob' = [netJob EXCEPT !.pc = "pools", !.cur = {}]
    /\ UNCHANGED <<k8sVars, neutronVars, syncVars, existing, recyclable,
                   lastUpdate, popVars, recycleVars, deadNets, policyVars,
                   bounds>>

NetDeleteEnd ==
    /\ netJob.pc = "pools" /\ netJob.pools = {}
    /\ netJob' = NoNetJob
    /\ UNCHANGED <<coreVars, recycleVars, deadNets, policyVars, bounds>>

-----------------------------------------------------------------------------
(* remove_sg_from_pools, called when a network policy is deleted.            *)
(* Bound: one such call at a time.                                           *)

RemoveSGStart(sg, n) ==
    /\ Trouble("policy")
    /\ phase # "starting" /\ sgJob.pc = "idle"
    /\ \E K \in KeysOfNet(n) :
          sgJob' = [NoSGJob EXCEPT !.pc = "pools", !.sg = {sg}, !.pools = K]
    /\ UNCHANGED <<coreVars, recycleVars, netVars, polJob>>

(* The next pool: the keys of its dict with the security group, those that   *)
(* may be left without ports included, and the key None.                     *)
RemoveSGPool(k) ==
    /\ sgJob.pc = "pools" /\ k \in sgJob.pools
    /\ \E G \in SUBSET {g \in Groups : sgJob.sg \subseteq g} :
          /\ \A g \in Groups \ G : sgJob.sg \subseteq g => avail[k][g] = <<>>
          /\ sgJob' = [sgJob EXCEPT !.pc = "groups", !.pools = @ \ {k}, !.cur = {k},
                 !.groups = IF avail[k][NoGroup] = <<>> THEN G ELSE G \cup {NoGroup}]
    /\ UNCHANGED <<coreVars, recycleVars, netVars, polJob, bounds>>

(* The next key: its list is removed and its ports are moved one by one; a    *)
(* key that is no longer there is skipped.  For the key None, "sg_id not in   *)
(* None" raises TypeError and the handler fails.                              *)
RemoveSGGroup(k, g) ==
    /\ sgJob.pc = "groups" /\ k \in sgJob.cur /\ g \in sgJob.groups
    /\ \/ /\ g = NoGroup
          /\ UNCHANGED avail /\ sgJob' = NoSGJob
       \/ /\ g # NoGroup
          /\ avail' = [avail EXCEPT ![k][g] = <<>>]
          /\ sgJob' = [sgJob EXCEPT !.pc = "ports", !.groups = @ \ {g},
                                    !.ports = avail[k][g]]
       \/ /\ g # NoGroup /\ avail[k][g] = <<>>
          /\ UNCHANGED avail /\ sgJob' = [sgJob EXCEPT !.groups = @ \ {g}]
    /\ UNCHANGED <<k8sVars, neutronVars, syncVars, existing, recyclable,
                   lastUpdate, popVars, recycleVars, netVars, polJob, bounds>>

(* update_port takes all groups off the next port, which joins the groups () *)
RemoveSGPort(k) ==
    /\ sgJob.pc = "ports" /\ sgJob.ports # <<>> /\ k \in sgJob.cur
    /\ life[Head(sgJob.ports)] = "live"
    /\ portSG' = [portSG EXCEPT ![Head(sgJob.ports)] = {}]
    /\ Listing(k, {}, <<Head(sgJob.ports)>>)
    /\ sgJob' = [sgJob EXCEPT !.ports = Tail(@)]
    /\ UNCHANGED <<k8sVars, life, syncVars, existing, recyclable, lastUpdate,
                   popVars, recycleVars, netVars, polJob, bounds>>

(* update_port raises: the ports not yet moved are in no list any more. *)
RemoveSGPortFails ==
    /\ sgJob.pc = "ports" /\ sgJob.ports # <<>>
    /\ IF life[Head(sgJob.ports)] = "live" THEN JobFails ELSE UNCHANGED bounds
    /\ sgJob' = NoSGJob
    /\ UNCHANGED <<coreVars, recycleVars, netVars, polJob>>

(* The groups () become the pool's only, and oldest, update. *)
RemoveSGGroupDone(k) ==
    /\ sgJob.pc = "ports" /\ sgJob.ports = <<>> /\ k \in sgJob.cur
    /\ lastUpdate' = [lastUpdate EXCEPT ![k] = [sg |-> {}, recent |-> FALSE]]
    /\ sgJob' = [sgJob EXCEPT !.pc = "groups"]
    /\ UNCHANGED <<k8sVars, neutronVars, syncVars, avail, existing, recyclable,
                   popVars, recycleVars, netVars, polJob, bounds>>

(* Done with the pool. *)
RemoveSGPoolDone ==
    /\ sgJob.pc = "groups" /\ sgJob.groups = {}
    /\ sgJob' = [sgJob EXCEPT !.pc = "pools", !.cur = {}]
    /\ UNCHANGED <<coreVars, recycleVars, netVars, polJob, bounds>>

RemoveSGEnd ==
    /\ sgJob.pc = "pools" /\ sgJob.pools = {}
    /\ sgJob' = NoSGJob
    /\ UNCHANGED <<coreVars, recycleVars, netVars, polJob, bounds>>

-----------------------------------------------------------------------------
(* A network policy changes the groups of a pod's port: the handler lists    *)
(* the affected pods, then calls update_vif_sgs with the pod it has listed.  *)
(* Bound: one such update at a time.                                         *)

PolicyUpdate(c, g) ==
    /\ Trouble("policy")
    /\ polJob = NoPolJob
    /\ c \in annotated /\ c \notin removed
    /\ polJob' = [port |-> held[c], pod |-> {c}, sg |-> g]
    /\ UNCHANGED <<coreVars, recycleVars, netVars, sgJob>>

(* update_port; it raises NotFound for a port that is gone. *)
PolicyUpdateEnd ==
    /\ polJob # NoPolJob
    /\ portSG' = [p \in Ports |->
                     IF p = polJob.port /\ life[p] = "live" THEN polJob.sg
                     ELSE portSG[p]]
    /\ polJob' = NoPolJob
    /\ UNCHANGED <<k8sVars, life, syncVars, poolVars, popVars, recycleVars,
                   netVars, sgJob, bounds>>

-----------------------------------------------------------------------------
(* Start-up: sync_pools, after the watches have been started; and a restart  *)

(* The dicts are created. *)
SyncReset ==
    /\ phase = "starting"
    /\ phase' = "reset"
    /\ UNCHANGED <<k8sVars, neutronVars, inUse, found, poolVars, popVars,
                   jobVars, bounds>>

(* _get_in_use_ports: the ports in the annotations of the pods in the API. *)
InUsePorts == {held[c] : c \in annotated \ removed}

SyncListPods ==
    /\ phase = "reset"
    /\ inUse' = InUsePorts
    /\ phase' = "listed"
    /\ UNCHANGED <<k8sVars, neutronVars, found, poolVars, popVars, jobVars,
                   bounds>>

(* _recover_precreated_ports: Neutron lists kuryr's ports and those in use   *)
(* are left out.  os_net.ports() is a generator: its request is sent when    *)
(* the list is walked, after the pods have been listed.                      *)
SyncListPorts ==
    /\ phase = "listed"
    /\ found' = [p \in Ports |->
                    IF life[p] = "live" /\ p \notin inUse THEN portSG[p] ELSE NoGroup]
    /\ inUse' = {}
    /\ phase' = "recovering"
    /\ UNCHANGED <<k8sVars, neutronVars, poolVars, popVars, jobVars, bounds>>

(* One port is recovered, its subnet having been fetched. *)
RecoverPort(p) ==
    /\ phase = "recovering" /\ found[p] # NoGroup
    /\ existing' = existing \cup {p}
    /\ Listing(PoolOf[p], found[p], <<p>>)
    /\ found' = [found EXCEPT ![p] = NoGroup]
    /\ UNCHANGED <<k8sVars, neutronVars, phase, inUse, recyclable, lastUpdate,
                   popVars, jobVars, bounds>>

SyncDone ==
    /\ phase = "recovering" /\ \A p \in Ports : found[p] = NoGroup
    /\ phase' = "ready"
    /\ UNCHANGED <<k8sVars, neutronVars, inUse, found, poolVars, popVars,
                   jobVars, bounds>>

(* The controller dies and starts again: dicts and threads are lost.  The    *)
(* new watch shows the pods in the API as ADDED, those with an annotation    *)
(* need no port; the DELETED events of the others will never come.           *)
Restart ==
    /\ Trouble("restart")
    /\ phase' = "starting" /\ inUse' = {}
    /\ found' = [p \in Ports |-> NoGroup]
    /\ pc' = [c \in Pods |->
                 IF pc[c] = "absent" THEN "absent"
                 ELSE IF c \in removed \/ pc[c] = "gone" THEN "gone"
                 ELSE IF c \in annotated THEN "running" ELSE "pending"]
    /\ held' = [c \in Pods |->
                   IF c \in annotated \ removed THEN held[c] ELSE NoPort]
    /\ annotated' = annotated \ removed
    /\ removed' = {}
    /\ avail' = Without(Pools)
    /\ existing' = {} /\ recyclable' = {}
    /\ lastUpdate' = [k \in Pools |-> NoUpdate]
    /\ spawned' = {}
    /\ wanted' = [j \in Pools \X Groups |-> 0]
    /\ created' = [j \in Pools \X Groups |-> <<>>]
    /\ Unlocked(recycler') /\ timerAlive' = TRUE
    /\ netJob' = NoNetJob /\ sgJob' = NoSGJob /\ polJob' = NoPolJob
    /\ UNCHANGED <<neutronVars, deadNets>>

-----------------------------------------------------------------------------
Init ==
    /\ life = [p \in Ports |-> "unborn"] /\ portSG = [p \in Ports |-> {}]
    /\ pc = [c \in Pods |-> "absent"] /\ held = [c \in Pods |-> NoPort]
    /\ annotated = {} /\ removed = {}
    /\ phase = "starting" /\ inUse = {} /\ found = [p \in Ports |-> NoGroup]
    /\ avail = [k \in Pools |-> [g \in AllGroups |-> <<>>]]
    /\ existing = {} /\ recyclable = {}
    /\ lastUpdate = [k \in Pools |-> NoUpdate]
    /\ spawned = {}
    /\ wanted = [j \in Pools \X Groups |-> 0]
    /\ created = [j \in Pools \X Groups |-> <<>>]
    /\ Unlocked(recycler) /\ timerAlive = TRUE
    /\ netJob = NoNetJob /\ deadNets = {} /\ sgJob = NoSGJob
    /\ polJob = NoPolJob
    /\ faulty = FALSE /\ troubles = 0

PodStep(c) ==
    \/ HandleDeleted(c) \/ NextTry(c)
    \/ RequestExact(c) \/ RequestRefused(c)
    \/ \E g \in AllGroups : RequestOther(c, g)
    \/ PortUpdated(c) \/ PortUpdateFails(c)
    \/ Annotate(c) \/ AnnotateFails(c)

PopulateStep(j) ==
    \/ PopulateStart(j) \/ PortsCreated(j) \/ PortsRefused(j)
    \/ PopulateFinish(j) \/ PopulateFails(j)

RecycleStep ==
    \/ \E by \in {"timer", "net"} : RecycleBegin(by) \/ RecycleFails(by)
    \/ \E p \in Ports : RecyclePort(p) \/ DeletePort(p) \/ DeletePortFails(p)
    \/ RecycleEnd

NetDeleteStep ==
    \/ NetDeletePools \/ NetClearPool \/ NetDeleteEnd
    \/ \E k \in Pools : NetDeletePool(k)
    \/ \E p \in Ports : NetDeletePort(p) \/ NetDeletePortFails(p)

RemoveSGStep ==
    \/ RemoveSGPortFails \/ RemoveSGPoolDone \/ RemoveSGEnd
    \/ \E k \in Pools : RemoveSGPool(k) \/ RemoveSGPort(k) \/ RemoveSGGroupDone(k)
    \/ \E k \in Pools, g \in AllGroups : RemoveSGGroup(k, g)

SyncStep ==
    \/ SyncReset \/ SyncListPorts \/ SyncListPods \/ SyncDone
    \/ \E p \in Ports : RecoverPort(p)

Next ==
    \/ \E c \in Pods : CreatePod(c) \/ RemovePod(c) \/ PodStep(c)
    \/ \E j \in Pools \X Groups : PopulateStep(j)
    \/ \E k \in Pools : Tick(k)
    \/ RecycleStep
    \/ \E n \in Nets : NetDeleteStart(n)
    \/ NetDeleteStep
    \/ \E sg \in SGs, n \in Nets : RemoveSGStart(sg, n)
    \/ RemoveSGStep
    \/ \E c \in Pods, g \in Groups : PolicyUpdate(c, g)
    \/ PolicyUpdateEnd
    \/ SyncStep
    \/ Restart

Spec == Init /\ [][Next]_vars

-----------------------------------------------------------------------------
(* Properties *)

NeutronTypes ==
    /\ life \in [Ports -> {"unborn", "live", "deleted"}]
    /\ portSG \in [Ports -> Groups]

PodTypes ==
    /\ pc \in [Pods -> {"absent", "pending", "backoff", "updating", "annotating",
                        "running", "stuck", "gone"}]
    /\ held \in [Pods -> Ports \cup {NoPort}]
    /\ annotated \subseteq Pods /\ removed \subseteq Pods

SyncTypes ==
    /\ phase \in {"starting", "reset", "listed", "recovering", "ready"}
    /\ inUse \subseteq Ports \cup {NoPort}
    /\ found \in [Ports -> AllGroups]

PoolTypes ==
    /\ avail \in [Pools -> [AllGroups -> Seq(Ports)]]
    /\ existing \subseteq Ports /\ recyclable \subseteq Ports
    /\ lastUpdate \in [Pools -> [sg : AllGroups, recent : BOOLEAN]]

PopulateTypes ==
    /\ spawned \subseteq Pools \X Groups
    /\ wanted \in [Pools \X Groups -> Nat]
    /\ created \in [Pools \X Groups -> Seq(Ports)]

RecycleTypes ==
    /\ recycler \in [pc : {"idle", "loop"}, by : {"timer", "net"},
                     todo : SUBSET Ports, seen : [Ports -> AllGroups]]
    /\ timerAlive \in BOOLEAN

NetTypes ==
    /\ netJob \in [pc : {"idle", "trigger", "returned", "pools", "ports"},
                   net : SUBSET Nets, pools : SUBSET Pools, cur : SUBSET Pools,
                   ports : SUBSET Ports]
    /\ deadNets \subseteq Nets

PolicyTypes ==
    /\ sgJob \in [pc : {"idle", "pools", "groups", "ports"}, sg : SUBSET SGs,
                  pools : SUBSET Pools, cur : SUBSET Pools,
                  groups : SUBSET AllGroups, ports : Seq(Ports)]
    /\ polJob \in [port : Ports \cup {NoPort}, pod : SUBSET Pods, sg : Groups]

BoundTypes == faulty \in BOOLEAN /\ troubles \in 0..MaxTroubles

(* The types of the variables. *)
TypeOK ==
    /\ NeutronTypes /\ PodTypes /\ SyncTypes /\ PoolTypes /\ PopulateTypes
    /\ RecycleTypes /\ NetTypes /\ PolicyTypes /\ BoundTypes

(* The ports in some list of _available_ports_pools. *)
Available == UNION {PoolPorts(avail[k]) : k \in Pools}

(* A port serves one pod: no two pods are given the same vif.  The lists,    *)
(* the recyclable ports and the recovery must never name a port twice.       *)
NoPortShared ==
    \A c, d \in Pods : c # d /\ held[c] # NoPort => held[c] # held[d]

(* A port that a pod uses can neither be given out nor recycled. *)
UsedPortNotFree ==
    \A c \in Pods : held[c] \notin Available \cup recyclable

(* A port that a pod uses exists in Neutron: neither the recycling of a full *)
(* pool nor the deletion of a network's pools deletes it.                    *)
UsedPortAlive ==
    \A c \in Pods : held[c] # NoPort => life[held[c]] = "live"

(* A vif returned by request_vif has the security groups the pod asked for,  *)
(* whatever lists and groups its port has been through.                      *)
HandedOutWithSGs ==
    \A c \in Pods : pc[c] = "annotating" => portSG[held[c]] = PodSGs[c]

(* The controller never forgets a port that Neutron still has: it is listed, *)
(* recyclable, used by a pod, or being moved or created; a restart finds     *)
(* again what an earlier failure lost.  Claimed while no call has failed     *)
(* since the start and no network has been deleted.                          *)
NoPortLost ==
    phase = "ready" /\ ~faulty /\ deadNets = {} =>
        \A p \in Ports : life[p] = "live" =>
            \/ p \in Available \cup recyclable \cup ToSet(sgJob.ports)
            \/ \E c \in Pods : held[c] = p
            \/ \E j \in Pools \X Groups : p \in ToSet(created[j])

(* The pool implements the leases of PortLease: seen from Neutron and from   *)
(* the pods, all the lists, threads and jobs only ever create ports, give a  *)
(* free live port to a pod that has none, take it back, and delete free ones.*)
Holders == [p \in Ports |-> {c \in Pods : held[c] = p}]
Lease == INSTANCE PortLease WITH holders <- Holders
ImplementsLease == Lease!Spec

-----------------------------------------------------------------------------
(* Every thread that can run does; the timer's sleep and the update          *)
(* frequency end; Neutron and Kubernetes answer.                             *)
Fairness ==
    /\ \A c \in Pods : WF_vars(PodStep(c))
    /\ \A j \in Pools \X Groups : WF_vars(PopulateStep(j))
    /\ \A k \in Pools : WF_vars(Tick(k))
    /\ WF_vars(RecycleStep)
    /\ WF_vars(SyncStep)

FairSpec == Spec /\ Fairness

(* A released port is returned to its pool or deleted. *)
EventuallyRecycled ==
    \A p \in Ports : p \in recyclable ~> p \notin recyclable

(* A pod that asks for a port is given one, or leaves. *)
EventuallyServed ==
    \A c \in Pods : pc[c] = "pending" ~> pc[c] \in {"running", "gone"}
=============================================================================

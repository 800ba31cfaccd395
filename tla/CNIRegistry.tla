---------------------------- MODULE CNIRegistry ----------------------------
(***************************************************************************)
(* The registry of kuryr-daemon: the ADD and DEL requests of kubelet       *)
(* (cni/plugins/k8s_cni_registry.py), the watcher's callbacks and the      *)
(* failure count (cni/daemon/service.py).                                  *)
(*                                                                         *)
(* The watcher is one process; every request runs in a process of its own. *)
(* They share the registry, a dict of multiprocessing.Manager, and one     *)
(* lock per pod name.  Each action below is one access to the registry,    *)
(* one block under the lock, or one call that plugs or unplugs a vif.      *)
(*                                                                         *)
(* Entries of different names never meet: the model has one name, which    *)
(* pods take one after the other (as those of a StatefulSet do), with one  *)
(* vif each.  A sandbox container is created for one pod and never reused. *)
(***************************************************************************)
EXTENDS Integers, Sequences

CONSTANTS
    Pods,         \* the pods with the name, in the course of time
    Containers,   \* the sandbox containers kubelet creates
    PodOf,        \* the pod of each container
    NoContainer,  \* containerid None
    NoPod,        \* no vif plugged, no entry
    MaxFailures,  \* cni_failures_count
    Races,        \* the environment's inconvenient timings that are allowed
    MaxRestarts   \* bound: restarts of the daemon

(***************************************************************************)
(* "overlap": kubelet sends a DEL for one container of the name while an   *)
(*   ADD for another one is being processed.                               *)
(* "late_del": after a restart of the daemon, a DEL arrives for a          *)
(*   container that another one has replaced.                              *)
(* "removal_after_retry": a pod leaves the API before its container is     *)
(*   taken off the network, and kubelet had tried another one before.      *)
(* "reuse": a pod takes the name before kubelet and the daemon are done    *)
(*   with the last one, or a DEL comes for the last one's containers.      *)
(***************************************************************************)
RaceNames == {"overlap", "late_del", "removal_after_retry", "reuse"}

ASSUME ConstantsAssumption ==
    /\ PodOf \in [Containers -> Pods]
    /\ NoContainer \notin Containers
    /\ NoPod \notin Pods
    /\ MaxFailures \in Nat /\ MaxRestarts \in Nat
    /\ Races \subseteq RaceNames

VARIABLES
    pod,       \* a pod in the API: "absent", "bare" (no annotation),
               \* "inactive", "active" (its vif's state) or "deleted"
    events,    \* the watch's events that the watcher has yet to handle
    entry,     \* self.registry[pod_name]
    pc,        \* where the request for a container stands
    view,      \* the pod whose vif the request has read
    plugged,   \* the container a pod's vif is plugged into
    failures,  \* failure_count
    healthy,   \* the flag that the health server reports
    restarts   \* the bound's counter

apiVars == <<pod, events>>
requestVars == <<pc, view>>
healthVars == <<failures, healthy>>
vars == <<apiVars, entry, requestVars, plugged, healthVars, restarts>>

NoEntry == [vifOf |-> NoPod, active |-> FALSE, containerid |-> NoContainer,
            unplugged |-> FALSE, delReceived |-> FALSE]

(* self.registry[pod_name] does not raise KeyError. *)
InRegistry == entry.vifOf # NoPod

Adding(s) == pc[s] \in {"find", "connect", "save"}
Deleting(s) == pc[s] \in {"check", "delfind", "disconnect", "mark"}
InAPI(u) == pod[u] \in {"bare", "inactive", "active"}
Annotated(u) == pod[u] \in {"inactive", "active"}

ContainersOf(u) == {s \in Containers : PodOf[s] = u}
Stages(u) == {pc[s] : s \in ContainersOf(u)}
(* The registry and the watch know of no other pod of the name. *)
Alone(u) ==
    /\ entry.vifOf \in {NoPod, u}
    /\ \A v \in Pods \ {u} : ~InAPI(v)
    /\ \A i \in DOMAIN events : events[i].pod = u

(* _check_failure *)
CheckFailure ==
    IF failures < MaxFailures
    THEN failures' = failures + 1 /\ UNCHANGED healthy
    ELSE healthy' = FALSE /\ UNCHANGED failures

Goto(s, l) == pc' = [pc EXCEPT ![s] = l]

-----------------------------------------------------------------------------
(* The Kubernetes API and kuryr-controller *)

Emit(type, u, active) ==
    events' = Append(events, [type |-> type, pod |-> u, active |-> active])

(* A pod takes the name that no other pod has. *)
CreatePod(u) ==
    /\ pod[u] = "absent" /\ \A v \in Pods : ~InAPI(v)
    /\ \/ Alone(u) /\ \A v \in Pods : Stages(v) \subseteq {"none", "down"}
       \/ "reuse" \in Races
    /\ pod' = [pod EXCEPT ![u] = "bare"]
    /\ UNCHANGED <<events, entry, requestVars, plugged, healthVars, restarts>>

(* The controller annotates the pod with its vif: MODIFIED *)
AnnotatePod(u, active) ==
    /\ pod[u] = "bare" \/ (pod[u] = "inactive" /\ active)
    /\ pod' = [pod EXCEPT ![u] = IF active THEN "active" ELSE "inactive"]
    /\ Emit("present", u, active)
    /\ UNCHANGED <<entry, requestVars, plugged, healthVars, restarts>>

(* The pod leaves the API: DELETED *)
RemovePod(u) ==
    /\ InAPI(u)
    /\ \/ Stages(u) \subseteq {"none", "down"}
       \/ \A s, t \in ContainersOf(u) : pc[s] # "none" /\ pc[t] # "none" => s = t
       \/ "removal_after_retry" \in Races
    /\ pod' = [pod EXCEPT ![u] = "deleted"]
    /\ Emit("deleted", u, FALSE)
    /\ UNCHANGED <<entry, requestVars, plugged, healthVars, restarts>>

-----------------------------------------------------------------------------
(* The watcher *)

(* Mutant: an entry that exists is never updated. *)
OnDoneOnce ==
    /\ events # <<>> /\ Head(events).type = "present"
    /\ events' = Tail(events)
    /\ LET e == Head(events)
       IN  entry' = IF InRegistry THEN entry
                    ELSE [NoEntry EXCEPT !.vifOf = e.pod, !.active = e.active]
    /\ UNCHANGED <<pod, requestVars, plugged, healthVars, restarts>>

(* on_done: a vif is shown.  The entry of a name that is in the registry only *)
(* gets other vifs when their state has changed.                             *)
OnDone ==
    /\ events # <<>> /\ Head(events).type = "present"
    /\ events' = Tail(events)
    /\ LET e == Head(events)
       IN  entry' = IF ~InRegistry
                    THEN [NoEntry EXCEPT !.vifOf = e.pod, !.active = e.active]
                    ELSE IF entry.active # e.active
                    THEN [entry EXCEPT !.vifOf = e.pod, !.active = e.active]
                    ELSE entry
    /\ UNCHANGED <<pod, requestVars, plugged, healthVars, restarts>>

(* Mutant: the entry of an unplugged vif is kept, too. *)
OnDeletedKeeping ==
    /\ events # <<>> /\ Head(events).type = "deleted"
    /\ events' = Tail(events)
    /\ entry' = IF InRegistry THEN [entry EXCEPT !.delReceived = TRUE] ELSE entry
    /\ UNCHANGED <<pod, requestVars, plugged, healthVars, restarts>>

(* on_deleted: DEL has already unplugged the vif, or will delete the entry.  *)
OnDeleted ==
    /\ events # <<>> /\ Head(events).type = "deleted"
    /\ events' = Tail(events)
    /\ entry' = IF ~InRegistry \/ entry.unplugged THEN NoEntry
                ELSE [entry EXCEPT !.delReceived = TRUE]
    /\ UNCHANGED <<pod, requestVars, plugged, healthVars, restarts>>

-----------------------------------------------------------------------------
(* ADD *)

(* kubelet starts a container for a pod that has none, or none that works.   *)
StartAdd(s) ==
    /\ pc[s] = "none" /\ InAPI(PodOf[s])
    /\ \A t \in Containers \ {s} :
          /\ t \in ContainersOf(PodOf[s]) => pc[t] \notin {"wait", "up"} /\ ~Adding(t)
          /\ Deleting(t) => "overlap" \in Races
    /\ Goto(s, "find")
    /\ UNCHANGED <<apiVars, entry, view, plugged, healthVars, restarts>>

(* find: the entry is in the registry, its vif is read. *)
AddFind(s) ==
    /\ pc[s] = "find" /\ InRegistry
    /\ view' = [view EXCEPT ![s] = entry.vifOf]
    /\ Goto(s, "connect")
    /\ UNCHANGED <<apiVars, entry, plugged, healthVars, restarts>>

(* b_base.connect: a leftover of the vif is removed first. *)
AddConnect(s) ==
    /\ pc[s] = "connect"
    /\ plugged' = [plugged EXCEPT ![view[s]] = s]
    /\ Goto(s, "save")
    /\ UNCHANGED <<apiVars, entry, view, healthVars, restarts>>

(* Under the lock, the container is saved. *)
AddSave(s) ==
    /\ pc[s] = "save" /\ InRegistry
    /\ entry' = [entry EXCEPT !.containerid = s]
    /\ Goto(s, "wait")
    /\ UNCHANGED <<apiVars, view, plugged, healthVars, restarts>>

(* wait_for_active: every vif is active. *)
AddDone(s) ==
    /\ pc[s] = "wait" /\ InRegistry /\ entry.active
    /\ Goto(s, "up")
    /\ UNCHANGED <<apiVars, entry, view, plugged, healthVars, restarts>>

(* No entry or no active vif before the timeout, KeyError when the container *)
(* is to be saved, or an exception of the binding driver.                    *)
AddFails(s) ==
    /\ \/ pc[s] = "connect"
       \/ pc[s] \in {"find", "save"} /\ ~InRegistry
       \/ pc[s] = "wait" /\ ~entry.active
    /\ Goto(s, "failed")
    /\ CheckFailure
    /\ UNCHANGED <<apiVars, entry, view, plugged, restarts>>

-----------------------------------------------------------------------------
(* DEL *)

(* kubelet takes a container off the network, maybe once more. *)
StartDel(s) ==
    /\ pc[s] \in {"up", "failed", "down"}
    /\ Alone(PodOf[s]) \/ "reuse" \in Races
    /\ \A t \in Containers \ {s} :
          /\ Adding(t) => "overlap" \in Races
          /\ pc[t] \in {"wait", "up"} => restarts = 0 \/ "late_del" \in Races
    /\ Goto(s, "check")
    /\ UNCHANGED <<apiVars, entry, view, plugged, healthVars, restarts>>

(* Mutant: every DEL is taken for one of the latest ADD. *)
DelCheckNothing(s) ==
    /\ pc[s] = "check"
    /\ Goto(s, "delfind")
    /\ UNCHANGED <<apiVars, entry, view, plugged, healthVars, restarts>>

(* A DEL for another container than the one of the latest ADD is ignored.    *)
DelCheck(s) ==
    /\ pc[s] = "check"
    /\ IF entry.containerid \notin {NoContainer, s} THEN Goto(s, "down")
       ELSE Goto(s, "delfind")
    /\ UNCHANGED <<apiVars, entry, view, plugged, healthVars, restarts>>

DelFind(s) ==
    /\ pc[s] = "delfind" /\ InRegistry
    /\ view' = [view EXCEPT ![s] = entry.vifOf]
    /\ Goto(s, "disconnect")
    /\ UNCHANGED <<apiVars, entry, plugged, healthVars, restarts>>

(* ResourceNotReady when the timeout has passed: kubelet is told to move on. *)
DelFindTimeout(s) ==
    /\ pc[s] = "delfind" /\ ~InRegistry
    /\ Goto(s, "down")
    /\ UNCHANGED <<apiVars, entry, view, plugged, healthVars, restarts>>

(* b_base.disconnect *)
DelDisconnect(s) ==
    /\ pc[s] = "disconnect"
    /\ plugged' = [plugged EXCEPT ![view[s]] = NoContainer]
    /\ Goto(s, "mark")
    /\ UNCHANGED <<apiVars, entry, view, healthVars, restarts>>

(* The binding driver raises: kubelet has to send DEL again. *)
DelFails(s) ==
    /\ pc[s] = "disconnect"
    /\ Goto(s, "failed")
    /\ CheckFailure
    /\ UNCHANGED <<apiVars, entry, view, plugged, restarts>>

(* Mutant: the entry is deleted at once. *)
DelMarkDeletes(s) ==
    /\ pc[s] = "mark"
    /\ entry' = NoEntry
    /\ Goto(s, "down")
    /\ UNCHANGED <<apiVars, view, plugged, healthVars, restarts>>

(* Mutant: del_received is not looked at. *)
DelMarkOnly(s) ==
    /\ pc[s] = "mark"
    /\ entry' = IF InRegistry THEN [entry EXCEPT !.unplugged = TRUE] ELSE entry
    /\ Goto(s, "down")
    /\ UNCHANGED <<apiVars, view, plugged, healthVars, restarts>>

(* Under the lock: DELETED has been seen, or will delete the entry. *)
DelMark(s) ==
    /\ pc[s] = "mark"
    /\ entry' = IF ~InRegistry \/ entry.delReceived THEN NoEntry
                ELSE [entry EXCEPT !.unplugged = TRUE]
    /\ Goto(s, "down")
    /\ UNCHANGED <<apiVars, view, plugged, healthVars, restarts>>

-----------------------------------------------------------------------------
(* The daemon is killed, by its liveness probe or otherwise: the registry and *)
(* the requests are lost; the new watch shows the pods in the API as ADDED.  *)
Restart ==
    /\ restarts < MaxRestarts
    /\ restarts' = restarts + 1
    /\ entry' = NoEntry
    /\ failures' = 0 /\ healthy' = TRUE
    /\ pc' = [s \in Containers |->
                 IF pc[s] \in {"none", "up", "down"} THEN pc[s] ELSE "failed"]
    /\ \/ (\A u \in Pods : ~Annotated(u)) /\ events' = <<>>
       \/ \E u \in Pods :
             /\ Annotated(u)
             /\ events' = <<[type |-> "present", pod |-> u, active |-> pod[u] = "active"]>>
    /\ UNCHANGED <<pod, view, plugged>>

-----------------------------------------------------------------------------
Init ==
    /\ pod = [u \in Pods |-> "absent"] /\ events = <<>>
    /\ entry = NoEntry
    /\ pc = [s \in Containers |-> "none"]
    /\ view = [s \in Containers |-> NoPod]
    /\ plugged = [u \in Pods |-> NoContainer]
    /\ failures = 0 /\ healthy = TRUE
    /\ restarts = 0

WatcherStep == OnDone \/ OnDeleted

(* A request goes on. *)
RequestStep(s) ==
    \/ AddFind(s) \/ AddConnect(s) \/ AddSave(s) \/ AddDone(s) \/ AddFails(s)
    \/ DelCheck(s) \/ DelFind(s) \/ DelFindTimeout(s)
    \/ DelDisconnect(s) \/ DelFails(s) \/ DelMark(s)

Next ==
    \/ \E u \in Pods : CreatePod(u) \/ RemovePod(u)
    \/ \E u \in Pods, active \in BOOLEAN : AnnotatePod(u, active)
    \/ WatcherStep
    \/ \E s \in Containers : StartAdd(s) \/ StartDel(s) \/ RequestStep(s)
    \/ Restart

Spec == Init /\ [][Next]_vars

-----------------------------------------------------------------------------
(* Properties *)

Event == [type : {"present", "deleted"}, pod : Pods, active : BOOLEAN]
Entry == [vifOf : Pods \cup {NoPod}, active : BOOLEAN,
          containerid : Containers \cup {NoContainer},
          unplugged : BOOLEAN, delReceived : BOOLEAN]
Stage == {"none", "find", "connect", "save", "wait", "up", "failed", "check",
          "delfind", "disconnect", "mark", "down"}

(* The types of the variables. *)
TypeOK ==
    /\ pod \in [Pods -> {"absent", "bare", "inactive", "active", "deleted"}]
    /\ events \in Seq(Event)
    /\ entry \in Entry
    /\ pc \in [Containers -> Stage]
    /\ view \in [Containers -> Pods \cup {NoPod}]
    /\ plugged \in [Pods -> Containers \cup {NoContainer}]
    /\ failures \in 0..MaxFailures /\ healthy \in BOOLEAN
    /\ restarts \in 0..MaxRestarts

(* DEL and DELETED never leave the entry to each other: whichever comes last *)
(* deletes it ("ensure that we delete the registry entry exactly once").     *)
NeverLeftOver == ~(entry.unplugged /\ entry.delReceived)

(* A container that kubelet runs keeps its vif: a DEL of an older container  *)
(* does not unplug it.                                                       *)
KeepsVif == \A s \in Containers : pc[s] = "up" => plugged[view[s]] = s

(* The entry of a pod is deleted when the pod has left the API and its vif   *)
(* is plugged into no container; while one is, DEL must find the vif.        *)
DeletedAfterUse ==
    [][InRegistry /\ ~InRegistry' /\ restarts' = restarts =>
          /\ pod[entry.vifOf] = "deleted"
          /\ plugged[entry.vifOf] = NoContainer]_vars

(* The requests that were begun are ended, the watch's events are handled.   *)
Fairness ==
    /\ WF_vars(WatcherStep)
    /\ \A s \in Containers : WF_vars(RequestStep(s))

FairSpec == Spec /\ Fairness

(* When a DEL has unplugged the vif of a pod that has left the API, the      *)
(* entry goes.                                                               *)
EntryReleased ==
    \A s \in Containers :
        pc[s] = "mark" /\ pod[view[s]] = "deleted" ~> entry.vifOf # view[s]

(* The server eventually has the vif of the pod that has the name. *)
VifEventuallyThere ==
    \A u \in Pods : pod[u] = "active" ~>
        (entry.vifOf = u /\ entry.active) \/ pod[u] = "deleted"
=============================================================================

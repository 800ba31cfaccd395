------------------------------ MODULE SriovVFs ------------------------------
(***************************************************************************)
(* Virtual functions (VFs) of a network card for pods.  The containers of  *)
(* a pod request VFs, and kubelet gives it some of the node; a network     *)
(* annotation asks for additional vifs.  NPWGMultiVIFDriver has            *)
(* SriovVIFDriver create a port for each as long as VFs are left; the CNI  *)
(* (VIFSriovDriver) finds a VF of the pod for each, sets it up, records it *)
(* in an annotation of the pod, and tells Neutron through an annotation of *)
(* the node, which VIFHandler reads.                                       *)
(*                                                                         *)
(* One resource and one physical network, for a kernel driver or one of    *)
(* userspace.  The main vif, the registry of the CNI and the retries of    *)
(* annotate are in PodVIF and CNIRegistry.                                 *)
(***************************************************************************)
EXTENDS Naturals, FiniteSetsExt

CONSTANTS
    Pods,         \* pods of one node
    VFs,          \* the VFs of the node
    Ports,        \* ids of Neutron ports
    Containers,   \* containers of a pod: a set of naturals, in their order
    Requests,     \* Requests[p]: what its containers may request, [Containers -> Nat]
    Networks,     \* Networks[p]: the SR-IOV networks in the annotation of p
    None,
    Races,        \* timings of the environment that are let in
    MaxChanges, MaxTroubles

ASSUME SriovAssumption ==
    /\ Containers \subseteq Nat /\ Requests \in [Pods -> SUBSET [Containers -> Nat]]
    /\ Networks \in [Pods -> Nat] /\ None \notin VFs \cup Ports

VARIABLES
    userspace,  \* resource_driver_mappings: the driver is one of userspace
    pod,        \* pods in the API: st, what they request, whether they are annotated
                \* with vifs, whether these are active, the annotation of devices, news
                \* for VIFHandler
    work,       \* the thread of VIFHandler for each pod
    ports,      \* ports in Neutron
    profile,    \* profile[q]: the VF in the binding profile of a port
    info,       \* info[q]: the node's annotation for a port
    vf,         \* the driver, address and network namespace of a VF
    given,      \* given[p]: the VFs that kubelet has given to p
    cni,        \* the request of the CNI for each pod, and what it has come to
    alive, changes, troubles

vars == <<userspace, pod, work, ports, profile, info, vf, given, cni, alive, changes, troubles>>
neutron == <<ports, profile>>
counters == <<alive, changes, troubles>>

NoDevices == [v \in VFs |-> [port |-> None, swapped |-> FALSE]]
NoRequest == [c \in Containers |-> 0]
NoPod     == [st |-> "none", requests |-> NoRequest, vifs |-> {}, annotated |-> FALSE, active |-> FALSE,
              devices |-> NoDevices, news |-> FALSE]
Idle      == [pc |-> "idle", left |-> NoRequest, net |-> 0, vifs |-> {},
              todo |-> {}, read |-> None]
NoSandbox == [pc |-> "none", todo |-> {}, port |-> None, vf |-> None, swapped |-> FALSE]
Unused    == [driver |-> "kernel", mac |-> None, ns |-> None]

(* What json makes of a VF that was not found.                             *)
Null == "null"

Init ==
    /\ userspace \in BOOLEAN
    /\ pod = [p \in Pods |-> NoPod] /\ work = [p \in Pods |-> Idle]
    /\ ports = {} /\ profile = [q \in Ports |-> None] /\ info = [q \in Ports |-> None]
    /\ vf = [v \in VFs |-> Unused] /\ given = [p \in Pods |-> {}]
    /\ cni = [p \in Pods |-> NoSandbox]
    /\ alive = TRUE /\ changes = 0 /\ troubles = 0

(* The VFs that the containers of a pod request.                           *)
Total(requests) == MapThenSumSet(LAMBDA c : requests[c], Containers)

(* One of S, where the order is of no matter.                              *)
OneOf(S) == CHOOSE x \in S : TRUE

Exists(p) == pod[p].st \in {"pending", "running", "terminating"}

Change  == changes < MaxChanges /\ changes' = changes + 1 /\ UNCHANGED <<alive, troubles>>
Trouble == troubles < MaxTroubles /\ troubles' = troubles + 1 /\ UNCHANGED <<alive, changes>>

-----------------------------------------------------------------------------
(* Users and kubelet.  A pod is scheduled to the node if there are VFs for *)
(* it, and keeps them until it is gone; VFs that are given to another pod  *)
(* before the CNI has returned them are the race "given_early".  Several   *)
(* containers that request VFs with a driver of the kernel are the race    *)
(* "several".                                                              *)

CreatePod(p) ==
    /\ Change /\ pod[p].st = "none" /\ given[p] = {} /\ cni[p].pc = "none"
    /\ \E requests \in Requests[p] :
          LET fit == kSubset(Total(requests), VFs \ UNION {given[r] : r \in Pods}) IN
          /\ userspace \/ "several" \in Races
             \/ \E c \in Containers : Total(requests) = requests[c]
          /\ fit # {} /\ given' = [given EXCEPT ![p] = OneOf(fit)]
          /\ pod' = [pod EXCEPT ![p] = [NoPod EXCEPT !.st = "pending", !.requests = requests,
                                                     !.news = TRUE]]
    /\ UNCHANGED <<userspace, work, neutron, info, vf, cni>>

(* With grace: the CNI is called first.  Without, the pod is gone at once; *)
(* after the CNI has begun with a vif, this is the race "forced".          *)
DeletePod(p) ==
    /\ Change /\ pod[p].st \in {"pending", "running"}
    /\ \E st \in {"terminating", "gone"} :
          /\ st = "gone" => \/ "forced" \in Races \/ cni[p].pc = "none"
                            \/ cni[p].pc = "connect" /\ cni[p].todo = pod[p].vifs
          /\ pod' = [pod EXCEPT ![p].st = st, ![p].news = TRUE]
    /\ UNCHANGED <<userspace, work, neutron, info, vf, given, cni>>

PodRuns(p) ==
    /\ pod[p].st = "pending" /\ cni[p].pc = "done"
    /\ pod' = [pod EXCEPT ![p].st = "running", ![p].news = TRUE]
    /\ UNCHANGED <<userspace, work, neutron, info, vf, given, cni, counters>>

FreeVFs(p) ==
    /\ pod[p].st \in {"terminating", "gone", "none"} /\ given[p] # {}
    /\ "given_early" \in Races \/ cni[p].pc = "none"
    /\ given' = [given EXCEPT ![p] = {}]
    /\ UNCHANGED <<userspace, pod, work, neutron, info, vf, cni, counters>>

PodGone(p) ==
    /\ pod[p].st = "terminating" /\ cni[p].pc = "none"
    /\ pod' = [pod EXCEPT ![p].st = "gone", ![p].news = TRUE]
    /\ UNCHANGED <<userspace, work, neutron, info, vf, given, cni, counters>>

-----------------------------------------------------------------------------
(* VIFHandler, NPWGMultiVIFDriver and SriovVIFDriver.                      *)

Ends(p) == work' = [work EXCEPT ![p] = Idle]

(* Mutant: the profiles of vifs that are active are not updated.           *)
CalledInactive(p) ==
    LET at(pc) == [Idle EXCEPT !.pc = pc, !.left = pod[p].requests, !.net = 1,
                               !.vifs = pod[p].vifs, !.todo = pod[p].vifs]
    IN CASE pod[p].st = "gone"                      -> at("release")
         [] pod[p].st # "gone" /\ pod[p].annotated  ->
                IF pod[p].active THEN Idle ELSE at("profile")
         [] OTHER                                   -> at("request")

(* The amounts are those of the event's pod, which the driver changes.     *)
Called(p) ==
    LET at(pc) == [Idle EXCEPT !.pc = pc, !.left = pod[p].requests, !.net = 1,
                               !.vifs = pod[p].vifs, !.todo = pod[p].vifs]
    IN CASE pod[p].st = "gone"                      -> at("release")
         [] pod[p].st # "gone" /\ pod[p].annotated  -> at("profile")
         [] OTHER                                   -> at("request")

Take(p) ==
    /\ work[p].pc = "idle" /\ pod[p].news
    /\ work' = [work EXCEPT ![p] = Called(p)]
    /\ pod' = [pod EXCEPT ![p].news = FALSE]
    /\ UNCHANGED <<userspace, neutron, info, vf, given, cni, counters>>

(* _get_remaining_sriov_vfs                                                *)
Remaining(w) == Total(w.left)

(* Mutant: a VF is taken from every container, whatever the driver.        *)
ReducedAll(left) == [c \in Containers |-> IF left[c] > 0 THEN left[c] - 1 ELSE 0]

(* _reduce_remaining_sriov_vfs: a VF of every container that has any; with *)
(* a driver of userspace, of the first.                                    *)
Reduced(left) ==
    LET some == {c \in Containers : left[c] > 0}
    IN [c \in Containers |->
           IF c \in some /\ (userspace => \A d \in some : c <= d) THEN left[c] - 1 ELSE left[c]]

(* Ids of ports that something still refers to.                            *)
Known == ports \cup UNION {pod[p].vifs \cup work[p].vifs \cup cni[p].todo : p \in Pods}
               \cup {q \in Ports : info[q] # None}

(* The next network: no vif if no VF is left.                              *)
Request(p) ==
    /\ work[p].pc = "request" /\ work[p].net <= Networks[p]
    /\ IF Remaining(work[p]) = 0
       THEN work' = [work EXCEPT ![p].net = @ + 1] /\ UNCHANGED ports
       ELSE LET q == OneOf(Ports \ Known) IN
            /\ Ports \ Known # {}
            /\ ports' = ports \cup {q}
            /\ work' = [work EXCEPT ![p].net = @ + 1, ![p].vifs = @ \cup {q},
                                    ![p].left = Reduced(@)]
    /\ UNCHANGED <<userspace, pod, profile, info, vf, given, cni, counters>>

(* The ports that have been created are left behind, and the handler is    *)
(* called again with what the event has left, or not.  Failing after one   *)
(* has been created is the race "request_fails".                           *)
RequestFails(p) ==
    /\ work[p].pc = "request" /\ troubles < MaxTroubles
    /\ "request_fails" \in Races \/ work[p].vifs = {}
    /\ troubles' = troubles + 1 /\ UNCHANGED changes
    /\ \/ work' = [work EXCEPT ![p].net = 1, ![p].vifs = {}] /\ UNCHANGED alive
       \/ Ends(p) /\ alive' = FALSE
    /\ UNCHANGED <<userspace, pod, neutron, info, vf, given, cni>>

(* The vifs are released if the pod has gone meanwhile.                    *)
Annotate(p) ==
    /\ work[p].pc = "request" /\ work[p].net > Networks[p]
    /\ IF pod[p].st = "gone"
       THEN work' = [work EXCEPT ![p].pc = "release", ![p].todo = work[p].vifs] /\ UNCHANGED pod
       ELSE /\ pod' = [pod EXCEPT ![p].vifs = work[p].vifs, ![p].annotated = TRUE,
                                  ![p].news = TRUE]
            /\ Ends(p)
    /\ UNCHANGED <<userspace, neutron, info, vf, given, cni, counters>>

(* update_port_pci_info: an annotation that is not there yet, or not any   *)
(* more, makes the profile empty.                                          *)
ReadInfo(p) ==
    /\ work[p].pc = "profile" /\ work[p].todo # {}
    /\ LET q == OneOf(work[p].todo) IN
          work' = [work EXCEPT ![p].pc = "update", ![p].read = info[q], ![p].todo = {q},
                               ![p].vifs = work[p].todo \ {q}]
    /\ UNCHANGED <<userspace, pod, neutron, info, vf, given, cni, counters>>

UpdatePort(p) ==
    /\ work[p].pc = "update"
    /\ profile' = [q \in Ports |-> IF q \in work[p].todo THEN work[p].read ELSE profile[q]]
    /\ work' = [work EXCEPT ![p].pc = "profile", ![p].todo = work[p].vifs, ![p].vifs = {}]
    /\ UNCHANGED <<userspace, pod, ports, info, vf, given, cni, counters>>

(* Activation needs no call; the vifs become active in the annotation.  If *)
(* the pod has gone they are released, which DELETED does again.           *)
Activate(p) ==
    /\ work[p].pc = "profile" /\ work[p].todo = {}
    /\ IF pod[p].active THEN Ends(p) /\ UNCHANGED pod
       ELSE IF pod[p].st = "gone"
       THEN work' = [work EXCEPT ![p].pc = "release", ![p].todo = pod[p].vifs] /\ UNCHANGED pod
       ELSE pod' = [pod EXCEPT ![p].active = TRUE, ![p].news = TRUE] /\ Ends(p)
    /\ UNCHANGED <<userspace, neutron, info, vf, given, cni, counters>>

(* Every vif; delete_port does not mind a port that has gone.              *)
Release(p) ==
    /\ work[p].pc = "release"
    /\ ports' = ports \ work[p].todo
    /\ profile' = [q \in Ports |-> IF q \in work[p].todo THEN None ELSE profile[q]]
    /\ pod' = IF pod[p].st = "gone" /\ ~pod[p].news
              THEN [pod EXCEPT ![p] = IF cni[p].pc = "none" THEN NoPod ELSE [@ EXCEPT !.st = "none"]]
              ELSE pod
    /\ Ends(p)
    /\ UNCHANGED <<userspace, info, vf, given, cni, counters>>

-----------------------------------------------------------------------------
(* The CNI: ADD.                                                           *)

(* kubelet asks for the network of a sandbox; the daemon waits for the     *)
(* annotation.                                                             *)
Add(p) ==
    /\ pod[p].st = "pending" /\ pod[p].annotated /\ cni[p].pc = "none"
    /\ cni' = [cni EXCEPT ![p] = [NoSandbox EXCEPT !.pc = "connect", !.todo = pod[p].vifs]]
    /\ UNCHANGED <<userspace, pod, work, neutron, info, vf, given, counters>>

Recorded(p) == {v \in VFs : pod[p].devices[v].port # None}

(* Used by kubelet's pod, and not yet by one of its vifs.                  *)
Appropriate(p) == given[p] \ Recorded(p)

(* _process_vif: a VF for the next vif.  One that is to be moved must be   *)
(* on the host.  If there is none, nothing is set up for the vif; then     *)
(* configuring it fails, unless the driver is one of userspace.            *)
Connect(p) ==
    /\ cni[p].pc = "connect" /\ cni[p].todo # {} /\ Exists(p)
    /\ LET q == OneOf(cni[p].todo)
           v == OneOf(Appropriate(p))
           at(pc, w, sw) == cni' = [cni EXCEPT ![p] = [pc |-> pc, todo |-> @.todo \ {q},
                                                       port |-> q, vf |-> w, swapped |-> sw]]
       IN \/ /\ Appropriate(p) # {}
             /\ IF userspace
                THEN /\ vf' = [vf EXCEPT ![v].driver = "user", ![v].mac = q]
                     /\ at("record", v, vf[v].driver = "kernel")
                ELSE IF vf[v].ns = None
                THEN vf' = [vf EXCEPT ![v].mac = q, ![v].ns = p] /\ at("record", v, FALSE)
                ELSE at("failed", None, FALSE) /\ UNCHANGED vf
          \/ Appropriate(p) = {} /\ at("save", None, FALSE) /\ UNCHANGED vf
    /\ UNCHANGED <<userspace, pod, work, neutron, info, given, counters>>

(* _annotate_device                                                        *)
Record(p) ==
    /\ cni[p].pc = "record" /\ Exists(p)
    /\ pod' = [pod EXCEPT ![p].news = TRUE,
                  ![p].devices[cni[p].vf] = [port |-> cni[p].port, swapped |-> cni[p].swapped]]
    /\ cni' = [cni EXCEPT ![p].pc = "save"]
    /\ UNCHANGED <<userspace, work, neutron, info, vf, given, counters>>

SaveInfo(p) ==
    /\ cni[p].pc = "save"
    /\ info' = [info EXCEPT ![cni[p].port] = IF cni[p].vf = None THEN Null ELSE cni[p].vf]
    /\ cni' = [cni EXCEPT ![p].pc =
                  IF cni[p].vf = None /\ ~userspace THEN "failed" ELSE "connect"]
    /\ UNCHANGED <<userspace, pod, work, neutron, vf, given, counters>>

Connected(p) ==
    /\ cni[p].pc = "connect" /\ cni[p].todo = {} /\ pod[p].active
    /\ cni' = [cni EXCEPT ![p] = [NoSandbox EXCEPT !.pc = "done"]]
    /\ UNCHANGED <<userspace, pod, work, neutron, info, vf, given, counters>>

(* A call fails, or the vifs are not active in time: the race "add_fails". *)
(* A pod that has gone cannot be read or annotated.                        *)
AddFails(p) ==
    /\ cni[p].pc \in {"connect", "record", "save"}
    /\ \/ "add_fails" \in Races /\ Trouble
       \/ ~Exists(p) /\ (cni[p].pc = "connect" => cni[p].todo # {}) /\ cni[p].pc # "save"
          /\ UNCHANGED counters
    /\ cni' = [cni EXCEPT ![p].pc = "failed"]
    /\ UNCHANGED <<userspace, pod, work, neutron, info, vf, given>>

-----------------------------------------------------------------------------
(* The CNI: DEL, for each of the vifs; then the network namespace goes,    *)
(* and what is in it returns to the host.                                  *)

Del(p) ==
    /\ \/ cni[p].pc = "done" /\ pod[p].st \notin {"pending", "running"}
       \/ cni[p].pc = "failed"
    /\ cni' = [cni EXCEPT ![p] = [NoSandbox EXCEPT !.pc = "disconnect", !.todo = pod[p].vifs]]
    /\ UNCHANGED <<userspace, pod, work, neutron, info, vf, given, counters>>

(* Mutant: the driver is not changed back.                                 *)
ReturnDriverNot(p, q) == vf' = vf

(* _return_device_driver: for every VF that is recorded for the port, and  *)
(* had another driver; binding fails if it has that driver already.        *)
ReturnDriver(p, q) ==
    LET back == {v \in VFs : pod[p].devices[v] = [port |-> q, swapped |-> TRUE]}
    IN /\ \A v \in back : vf[v].driver = "user"
       /\ vf' = [v \in VFs |-> IF v \in back THEN [vf[v] EXCEPT !.driver = "kernel"] ELSE vf[v]]

Disconnect(p) ==
    /\ cni[p].pc = "disconnect" /\ cni[p].todo # {} /\ Exists(p)
    /\ LET q == OneOf(cni[p].todo) IN
          ReturnDriver(p, q) /\ cni' = [cni EXCEPT ![p].pc = "forget", ![p].port = q]
    /\ UNCHANGED <<userspace, pod, work, neutron, info, given, counters>>

(* _remove_pci_info: an annotation that is not there cannot be removed.    *)
RemoveInfo(p) ==
    /\ cni[p].pc = "forget" /\ info[cni[p].port] # None
    /\ info' = [info EXCEPT ![cni[p].port] = None]
    /\ cni' = [cni EXCEPT ![p].pc = "disconnect", ![p].todo = @ \ {cni[p].port}]
    /\ UNCHANGED <<userspace, pod, work, neutron, vf, given, counters>>

Disconnected(p) ==
    /\ cni[p].pc = "disconnect" /\ cni[p].todo = {}
    /\ cni' = [cni EXCEPT ![p] = NoSandbox]
    /\ vf' = [v \in VFs |-> IF vf[v].ns = p THEN [vf[v] EXCEPT !.ns = None] ELSE vf[v]]
    /\ UNCHANGED <<userspace, pod, work, neutron, info, given, counters>>

(* A DEL that fails is repeated by kubelet.  Failing after it has changed  *)
(* anything is the race "del_fails".                                       *)
DelFails(p) ==
    /\ Trouble /\ cni[p].pc \in {"disconnect", "forget"}
    /\ \/ "del_fails" \in Races
       \/ cni[p].pc = "disconnect" /\ cni[p].todo = pod[p].vifs
    /\ cni' = [cni EXCEPT ![p] = [NoSandbox EXCEPT !.pc = "failed"]]
    /\ UNCHANGED <<userspace, pod, work, neutron, info, vf, given>>

-----------------------------------------------------------------------------
(* A restart of the controller lists the pods again; the ports of a        *)
(* request under way, and of pods that go meanwhile, are left behind: the  *)
(* race "crash".                                                           *)
Restart ==
    /\ IF alive THEN troubles < MaxTroubles /\ troubles' = troubles + 1 ELSE UNCHANGED troubles
    /\ "crash" \in Races
       \/ \A p \in Pods : work[p].pc \in {"idle", "profile", "update"} /\ pod[p].st # "gone"
    /\ alive' = TRUE /\ UNCHANGED changes
    /\ work' = [p \in Pods |-> Idle]
    /\ pod' = [p \in Pods |-> IF pod[p].st = "gone" THEN NoPod
                              ELSE [pod[p] EXCEPT !.news = pod[p].st # "none"]]
    /\ UNCHANGED <<userspace, neutron, info, vf, given, cni>>

Handler(p) ==
    \/ Take(p) \/ Request(p) \/ Annotate(p) \/ ReadInfo(p) \/ UpdatePort(p) \/ Activate(p)
    \/ Release(p)

Daemon(p) ==
    \/ Add(p) \/ Connect(p) \/ Record(p) \/ SaveInfo(p) \/ Connected(p)
    \/ Del(p) \/ Disconnect(p) \/ RemoveInfo(p) \/ Disconnected(p)
    \/ (~Exists(p) /\ AddFails(p))

Kubelet(p) == PodRuns(p) \/ FreeVFs(p) \/ PodGone(p)

Next ==
    \/ \E p \in Pods : \/ CreatePod(p) \/ DeletePod(p) \/ Kubelet(p) \/ Handler(p) \/ Daemon(p)
                       \/ RequestFails(p) \/ AddFails(p) \/ DelFails(p)
    \/ Restart

(* Threads go on, kubelet asks again, and restarts what is unhealthy.      *)
Spec == /\ Init /\ [][Next]_vars
        /\ \A p \in Pods : WF_vars(Handler(p)) /\ WF_vars(Daemon(p)) /\ WF_vars(Kubelet(p))
        /\ WF_vars(~alive /\ Restart)

-----------------------------------------------------------------------------
(* Properties.                                                             *)

SetUp(p, q, v) ==
    /\ v \in given[p] /\ vf[v].mac = q
    /\ IF userspace THEN vf[v].driver = "user" ELSE vf[v].ns = p

Fewest(a, b) == IF a < b THEN a ELSE b

(* "In the above example two SR-IOV devices will be attached to pod.":     *)
(* once the ADD has succeeded, each network of the pod has a VF of the     *)
(* pod's, as far as it has requested any, which is set up for it.          *)
Attached ==
    \A p \in Pods : cni[p].pc = "done" /\ Exists(p) =>
        /\ Cardinality(pod[p].vifs) = Fewest(Networks[p], Total(pod[p].requests))
        /\ \A q \in pod[p].vifs : \E v \in VFs : SetUp(p, q, v)

(* VFs that no pod has are back on the host with their driver; a pod that  *)
(* has gone leaves no port, and nothing on the node.                       *)
NothingLeft ==
    /\ \A v \in VFs \ UNION {given[p] : p \in Pods} :
          vf[v].driver = "kernel" /\ vf[v].ns = None
    /\ (\A p \in Pods : pod[p].st = "none" /\ work[p].pc = "idle") /\ alive
       => ports = {} /\ info = [q \in Ports |-> None]

(* A pod gets to run, and the profiles of its ports get to name its VFs;   *)
(* one that is being deleted goes.                                         *)
EventuallySettled ==
    \A p \in Pods : pod[p].st \in {"pending", "terminating"} ~>
        \/ ~Exists(p)
        \/ pod[p].st = "running" /\ \A q \in pod[p].vifs : profile[q] \in given[p]
=============================================================================

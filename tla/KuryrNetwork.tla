---------------------------- MODULE KuryrNetwork ----------------------------
(***************************************************************************)
(* The network of a namespace, from the creation of the namespace to its   *)
(* end: NamespaceHandler keeps a KuryrNetwork CRD for the namespace,       *)
(* KuryrNetworkHandler builds what the CRD stands for and takes it down    *)
(* again, KuryrNetworkPopulationHandler fills the pool of the new network  *)
(* on the node (NestedPool).                                               *)
(*                                                                         *)
(* The two handlers of the CRD are called one after the other by one       *)
(* thread, with the CRD as it was when the event was sent.                 *)
(***************************************************************************)
EXTENDS NestedPool

CONSTANT Labels  \* the labels that a namespace may have, the first of them 1

(* What has no labels yet has 0.                                           *)
ASSUME LabelsAssumption == Labels \subseteq Nat \ {0} /\ 1 \in Labels

VARIABLES
    ns,      \* the namespace in the API: st, labels, news for NamespaceHandler
    crd,     \* the KuryrNetwork in the API, and the event the watch has to tell
    nsWork,  \* the thread of the namespace
    work,    \* the thread of the CRD
    built,   \* what there is in Neutron for the namespace
    rules    \* labels that security group rules were last made for

netVars == <<ns, crd, nsWork, work, built, rules>>
vars == <<poolVars, counters, netVars>>

Parts  == <<"net", "subnet", "router">>
NoCRD  == [st |-> "none", parts |-> {}, spec |-> 0, labels |-> 0, populated |-> FALSE,
           news |-> "none"]
NsIdle == [pc |-> "idle", labels |-> 0, found |-> FALSE, status |-> FALSE, crdLabels |-> 0]
Idle   == [pc |-> "idle", obj |-> NoCRD, step |-> 1, todo |-> {}]

(* A namespace has been created.                                           *)
Init ==
    /\ PoolInit
    /\ ns = [st |-> "active", labels |-> 1, news |-> TRUE]
    /\ crd = NoCRD /\ nsWork = NsIdle /\ work = Idle /\ built = {} /\ rules = 0

-----------------------------------------------------------------------------
(* Users, and Kubernetes' deletion of a namespace and all that is in it.   *)

(* Labels that the namespace has had before come back: "labels_back".      *)
Relabel ==
    /\ Change /\ ns.st = "active"
    /\ \E l \in Labels \ {ns.labels} :
          /\ "labels_back" \in Races \/ l > ns.labels
          /\ ns' = [ns EXCEPT !.labels = l, !.news = TRUE]
    /\ UNCHANGED <<poolVars, crd, nsWork, work, built, rules>>

(* Before the CRD has got any status: the race "deleted_before_status".    *)
DeleteNamespace ==
    /\ Change /\ ns.st = "active"
    /\ "deleted_before_status" \in Races \/ crd.parts # {}
    /\ ns' = [ns EXCEPT !.st = "terminating", !.news = TRUE]
    /\ UNCHANGED <<poolVars, crd, nsWork, work, built, rules>>

(* The CRD has a finalizer.                                                *)
DeleteCRD ==
    /\ ns.st = "terminating" /\ crd.st = "live"
    /\ crd' = [crd EXCEPT !.st = "deleting", !.news = "MODIFIED"]
    /\ UNCHANGED <<poolVars, counters, ns, nsWork, work, built, rules>>

NamespaceGone ==
    /\ ns.st = "terminating" /\ crd.st = "none" /\ \A p \in Pods : pod[p].st = "none"
    /\ ns' = [ns EXCEPT !.st = "gone", !.news = FALSE]
    /\ UNCHANGED <<poolVars, counters, crd, nsWork, work, built, rules>>

-----------------------------------------------------------------------------
(* NamespaceHandler.on_present.                                            *)

(* A patch makes an event, unless it changes nothing.  Async has its       *)
(* thread skip all events but the last, so that a CRD that has just been   *)
(* added may be seen as one that was modified.                             *)
Patched(c) == crd' = [c EXCEPT !.news = IF c = crd THEN @ ELSE "MODIFIED"]

(* It gets the CRD first.  A namespace that is being deleted is left alone.*)
Looks(labels) == [pc |-> "write", labels |-> labels, found |-> crd.st # "none",
                  status |-> crd.parts # {}, crdLabels |-> crd.labels]

NsTake ==
    /\ nsWork.pc = "idle" /\ ns.news
    /\ ns' = [ns EXCEPT !.news = FALSE]
    /\ nsWork' = IF ns.st = "active" THEN Looks(ns.labels) ELSE NsIdle
    /\ UNCHANGED <<poolVars, counters, crd, work, built, rules>>

NsAgain ==
    /\ nsWork.pc = "again"
    /\ nsWork' = IF ns.st = "gone" THEN NsIdle ELSE Looks(nsWork.labels)
    /\ UNCHANGED <<poolVars, counters, ns, crd, work, built, rules>>

(* _add_kuryrnetwork_crd; a failure is ResourceNotReady.                   *)
AddCRD ==
    /\ nsWork.pc = "write" /\ ~nsWork.found
    /\ \/ /\ ns.st = "active" /\ crd.st = "none"
          /\ crd' = [NoCRD EXCEPT !.st = "live", !.spec = nsWork.labels, !.news = "ADDED"]
          /\ nsWork' = NsIdle /\ UNCHANGED counters
       \/ /\ IF ns.st = "active" /\ crd.st = "none" THEN Trouble ELSE UNCHANGED counters
          /\ nsWork' = [NsIdle EXCEPT !.pc = "again", !.labels = nsWork.labels]
          /\ UNCHANGED crd
    /\ UNCHANGED <<poolVars, ns, work, built, rules>>

(* _update_labels; a CRD that has gone is none of its business.            *)
UpdateLabels ==
    /\ nsWork.pc = "write" /\ nsWork.found
    /\ IF crd.st # "none" /\ ~(nsWork.status /\ nsWork.crdLabels = nsWork.labels)
              THEN Patched([crd EXCEPT !.spec = nsWork.labels])
              ELSE UNCHANGED crd
    /\ nsWork' = NsIdle
    /\ UNCHANGED <<poolVars, counters, ns, work, built, rules>>

-----------------------------------------------------------------------------
(* KuryrNetworkHandler.on_present.                                         *)

(* The parts that the event does not have are built, from the first of     *)
(* them on; then, or if the labels have changed, the rules are made.       *)
Called(obj) ==
    LET missing == {i \in 1..3 : Parts[i] \notin obj.parts}
        at(pc) == [Idle EXCEPT !.pc = pc, !.obj = obj]
    IN CASE crd.st = "none"         -> Idle
         [] obj.st = "deleting"     ->
                [at("finalize") EXCEPT !.obj = [NoCRD EXCEPT !.st = "deleting", !.parts = obj.parts]]
         [] obj.st = "live" /\ missing # {} ->
                [at("build") EXCEPT !.step = CHOOSE i \in missing : missing \subseteq i..3]
         [] obj.st = "live" /\ missing = {} ->
                at(IF obj.labels # obj.spec THEN "rules" ELSE "populate")

Take ==
    /\ work.pc = "idle" /\ crd.news # "none"
    /\ work' = Called(crd)
    /\ crd' = [crd EXCEPT !.news = "none"]
    /\ UNCHANGED <<poolVars, counters, ns, nsWork, built, rules>>

RetryAgain ==
    /\ work.pc = "again"
    /\ work' = Called(work.obj)
    /\ UNCHANGED <<poolVars, counters, ns, crd, nsWork, built, rules>>

Retried == work' = [Idle EXCEPT !.pc = "again", !.obj = work.obj]

(* The deadline of Retry, or an exception that it does not handle.         *)
GiveUp ==
    /\ work.pc \in {"again", "build", "record", "rules", "labels", "detach", "subnet", "remove"}
    /\ troubles < MaxTroubles
    /\ troubles' = troubles + 1 /\ alive' = FALSE /\ UNCHANGED changes
    /\ work' = Idle
    /\ UNCHANGED <<poolVars, ns, crd, nsWork, built, rules>>

(* create_network, create_subnet, add_subnet_to_router: each finds what    *)
(* there is already.  create_subnet is retried if Neutron is busy.         *)
Build ==
    /\ work.pc = "build"
    /\ \/ /\ built' = built \cup {Parts[work.step]}
          /\ work' = [work EXCEPT !.pc = "record"] /\ UNCHANGED counters
       \/ work.step = 2 /\ Trouble /\ Retried /\ UNCHANGED built
    /\ UNCHANGED <<poolVars, ns, crd, nsWork, rules>>

(* With the router the CRD is not populated any more.                      *)
Record ==
    /\ work.pc = "record"
    /\ Patched([crd EXCEPT !.parts = @ \cup {Parts[work.step]},
                           !.populated = @ /\ work.step < 3])
    /\ work' = IF work.step < 3 THEN [work EXCEPT !.pc = "build", !.step = @ + 1]
               ELSE [work EXCEPT !.pc = "rules"]
    /\ UNCHANGED <<poolVars, counters, ns, nsWork, built, rules>>

(* The rules are made for the namespace as it is now, the labels of the    *)
(* event are recorded.                                                     *)
UpdateRules ==
    /\ work.pc = "rules"
    /\ rules' = ns.labels
    /\ work' = [work EXCEPT !.pc = "labels"]
    /\ UNCHANGED <<poolVars, counters, ns, crd, nsWork, built>>

(* Mutant: the labels that are in the CRD by now.                          *)
RecordLatestLabels ==
    /\ work.pc = "labels"
    /\ Patched([crd EXCEPT !.labels = crd.spec])
    /\ work' = [work EXCEPT !.pc = "populate"]
    /\ UNCHANGED <<poolVars, counters, ns, nsWork, built, rules>>

RecordLabels ==
    /\ work.pc = "labels"
    /\ Patched([crd EXCEPT !.labels = work.obj.spec])
    /\ work' = [work EXCEPT !.pc = "populate"]
    /\ UNCHANGED <<poolVars, counters, ns, nsWork, built, rules>>

-----------------------------------------------------------------------------
(* KuryrNetworkPopulationHandler.on_added, and populate_pool.              *)

(* A CRD that has no status is an error that Retry does not handle.        *)
PopulateStart ==
    /\ work.pc = "populate"
    /\ IF work.obj.news # "ADDED" \/ ("subnet" \notin work.obj.parts /\ work.obj.parts # {})
          \/ work.obj.populated
       THEN work' = Idle /\ UNCHANGED <<crd, counters>>
       ELSE IF work.obj.parts = {} THEN work' = Idle /\ GivenUp /\ UNCHANGED crd
       ELSE /\ Patched([crd EXCEPT !.populated = TRUE])
            /\ work' = [work EXCEPT !.pc = "populating", !.step = 1] /\ UNCHANGED counters
    /\ UNCHANGED <<poolVars, ns, nsWork, built, rules>>

(* Under the lock.  Half of a batch is no integer, and range() fails if it *)
(* is not less than ports_pool_min.                                        *)
Populate ==
    /\ work.pc = "populating" /\ work.step = 1 /\ Unlocked
    /\ IF ~recovered
       THEN Patched([crd EXCEPT !.populated = FALSE]) /\ Retried /\ UNCHANGED <<filler, counters>>
       ELSE /\ UNCHANGED crd
            /\ IF opened THEN work' = Idle /\ UNCHANGED <<filler, counters>>
               ELSE IF Batch >= 2 * PoolMin THEN work' = Idle /\ GivenUp /\ UNCHANGED filler
               ELSE /\ Fill("namespace", Reads(PoolMin))
                    /\ work' = [work EXCEPT !.step = 2] /\ UNCHANGED counters
    /\ UNCHANGED <<neutron, tables, pod, popped, recycler, freed, ns, nsWork, built, rules>>

Populated ==
    /\ work.pc = "populating" /\ work.step = 2 /\ filler["namespace"].pc = "idle"
    /\ work' = Idle
    /\ UNCHANGED <<poolVars, counters, ns, crd, nsWork, built, rules>>

-----------------------------------------------------------------------------
(* KuryrNetworkHandler.on_finalize, and delete_network_pools.              *)

(* While delete_network_pools empties the pool, ports come to it, which it *)
(* forgets at the end, or go: the race "pool_changes_in_delete".           *)
PoolKept == "pool_changes_in_delete" \in Races \/ work.pc # "detach"

(* The ports that are to be recycled are recycled first.                   *)
Finalize ==
    /\ work.pc = "finalize"
    /\ IF work.obj.parts = {} THEN work' = Idle /\ GivenUp /\ UNCHANGED recycler
       ELSE /\ UNCHANGED counters
            /\ IF ~recovered THEN Retried /\ UNCHANGED recycler
               ELSE Unlocked /\ Recycles("network") /\ work' = [work EXCEPT !.pc = "recycling"]
    /\ UNCHANGED <<neutron, tables, pod, popped, filler, freed, ns, crd, nsWork, built, rules>>

(* _remove_subports: all of the pool's, or none if one is not attached; if *)
(* it fails the pool is left as it is.                                     *)
RemoveSubports ==
    /\ "pool_changes_in_delete" \in Races \/ filler["pods"] = NoFill
    /\ work.pc = "recycling" /\ recycler.todo = {} /\ recycler.port = None
    /\ recycler' = NoRecycle
    /\ \/ /\ available \subseteq trunk /\ trunk' = trunk \ available
          /\ work' = [work EXCEPT !.pc = "detach", !.todo = available] /\ UNCHANGED counters
       \/ /\ IF available \subseteq trunk THEN Trouble ELSE UNCHANGED counters
          /\ work' = [work EXCEPT !.pc = "subnet"] /\ UNCHANGED trunk
    /\ UNCHANGED <<ports, vlan, held, tables, pod, popped, filler, freed, ns, crd, nsWork,
                   built, rules>>

DeletePoolPort ==
    /\ work.pc = "detach" /\ work.todo # {}
    /\ \E q \in work.todo :
          /\ held' = IF q \in existing THEN held \ {vlan[q]} ELSE held
          /\ existing' = existing \ {q} /\ ports' = ports \ {q}
          /\ work' = [work EXCEPT !.todo = @ \ {q}]
    /\ UNCHANGED <<trunk, vlan, available, recyclable, opened, recovered, pod, popped, filler,
                   recycler, freed, counters, ns, crd, nsWork, built, rules>>

ForgetPool ==
    /\ work.pc = "detach" /\ work.todo = {}
    /\ available' = {} /\ opened' = FALSE
    /\ work' = [work EXCEPT !.pc = "subnet"]
    /\ UNCHANGED <<neutron, recyclable, existing, recovered, pod, popped, filler, recycler,
                   freed, counters, ns, crd, nsWork, built, rules>>

(* Mutant: the conflict is ignored.                                        *)
DeleteSubnetAnyway ==
    /\ work.pc = "subnet"
    /\ built' = IF ports = {} THEN {} ELSE built \ {"router"}
    /\ rules' = 0 /\ work' = [work EXCEPT !.pc = "remove"]
    /\ UNCHANGED <<ports, trunk, vlan, held, tables, pod, popped, filler, recycler, freed,
                   counters, ns, crd, nsWork>>

(* Mutant: after a conflict the handler is not called again.               *)
DeleteSubnetOnce ==
    /\ work.pc = "subnet"
    /\ LET kept == IF "subnet" \in work.obj.parts THEN built \ {"router"} ELSE built IN
       IF ports # {} \/ "router" \in kept
       THEN work' = Idle /\ built' = kept /\ ports' = trunk /\ UNCHANGED rules
       ELSE built' = {} /\ rules' = 0 /\ work' = [work EXCEPT !.pc = "remove"]
            /\ UNCHANGED ports
    /\ UNCHANGED <<trunk, vlan, held, tables, pod, popped, filler, recycler, freed, counters,
                   ns, crd, nsWork>>

(* delete_namespace_subnet: the network cannot be deleted while it has     *)
(* ports; those that are down are deleted, and the handler is called again.*)
DeleteSubnet ==
    /\ work.pc = "subnet"
    /\ LET kept == IF "subnet" \in work.obj.parts THEN built \ {"router"} ELSE built IN
       IF ports # {} \/ "router" \in kept
       THEN Retried /\ built' = kept /\ ports' = trunk /\ UNCHANGED rules
       ELSE built' = {} /\ rules' = 0 /\ work' = [work EXCEPT !.pc = "remove"]
            /\ UNCHANGED ports
    /\ UNCHANGED <<trunk, vlan, held, tables, pod, popped, filler, recycler, freed, counters,
                   ns, crd, nsWork>>

(* The finalizer is removed, and with it the CRD.                          *)
RemoveFinalizer ==
    /\ work.pc = "remove"
    /\ crd' = NoCRD /\ work' = Idle
    /\ UNCHANGED <<poolVars, counters, ns, nsWork, built, rules>>

-----------------------------------------------------------------------------
(* A restart lists the namespace and the CRD again.                        *)
Restart ==
    /\ IF alive THEN troubles < MaxTroubles /\ troubles' = troubles + 1
       ELSE UNCHANGED troubles
    /\ alive' = TRUE /\ UNCHANGED changes
    /\ ForgetsPool
    /\ ns' = [ns EXCEPT !.news = ns.st \in {"active", "terminating"}]
    /\ crd' = [crd EXCEPT !.news = IF crd.st = "none" THEN "none" ELSE "ADDED"]
    /\ nsWork' = NsIdle /\ work' = Idle
    /\ UNCHANGED <<built, rules>>

NsThread == NsTake \/ NsAgain \/ AddCRD \/ UpdateLabels

FillSteps(f) == FillCreate(f, "subnet" \in built) \/ FillAttach(f) \/ FillRegister(f)

RecycleSteps == (PoolKept /\ RecycleStart) \/ Recycle \/ RecycleDelete \/ RecycleEnd

NetThread ==
    \/ Take \/ RetryAgain \/ Build \/ Record \/ UpdateRules \/ RecordLabels
    \/ PopulateStart \/ Populate \/ Populated
    \/ Finalize \/ RemoveSubports \/ DeletePoolPort \/ ForgetPool \/ DeleteSubnet
    \/ RemoveFinalizer
    \/ (FillSteps("namespace") /\ UNCHANGED netVars)

PoolThreads ==
    /\ \/ \E p \in Pods : "subnet" \in crd.parts /\ PoolKept /\ (Pop(p) \/ PoolIsEmpty(p))
       \/ FillSteps("pods")
       \/ RecycleSteps
    /\ UNCHANGED netVars

(* What a namespace that is being deleted waits for.                       *)
DeletionThread ==
    \/ DeleteCRD \/ NamespaceGone
    \/ /\ \E p \in Pods : \/ ns.st = "terminating" /\ DeletePod(p) /\ UNCHANGED counters
                          \/ Annotate(p) \/ PodGone(p)
       /\ UNCHANGED netVars

Startup == (~alive /\ Restart) \/ (Recover /\ UNCHANGED netVars)

(* The pool manager is left out here.                                      *)
Users ==
    \/ Relabel \/ DeleteNamespace
    \/ /\ ns.st = "active"
       /\ \E p \in Pods : CreatePod(p) \/ (Change /\ DeletePod(p))
       /\ UNCHANGED netVars

Next == NsThread \/ NetThread \/ PoolThreads \/ DeletionThread \/ Users \/ GiveUp \/ Startup \/ Restart

(* Threads go on; kubelet restarts what is unhealthy; Kubernetes deletes   *)
(* what is in a namespace that is being deleted.                           *)
Spec ==
    /\ Init /\ [][Next]_vars
    /\ WF_vars(Startup) /\ WF_vars(DeletionThread) /\ WF_vars(NetThread)
    /\ WF_vars(FillSteps("pods") /\ UNCHANGED netVars) /\ WF_vars(RecycleSteps /\ UNCHANGED netVars)

-----------------------------------------------------------------------------
(* Properties.                                                             *)

(* Nothing is left in Neutron of a namespace that has gone.                *)
NothingLeft == ns.st = "gone" => ports = {} /\ built = {} /\ rules = 0

(* A namespace that is deleted goes, whatever its pool and its pods were   *)
(* about.                                                                  *)
EventuallyGone == ns.st = "terminating" ~> ns.st = "gone"

(* "Labels are already up to date, nothing to do": once all is handled the *)
(* rules have been made for the labels of the namespace.                   *)
LabelsFollow ==
    ns.st = "active" /\ ~ns.news /\ nsWork = NsIdle /\ work = Idle /\ crd.news = "none" /\ alive
    => rules = ns.labels /\ crd.labels = ns.labels
=============================================================================

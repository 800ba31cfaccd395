------------------------------- MODULE PodVIF -------------------------------
(***************************************************************************)
(* The vifs of a pod from its creation to its end, without a pool.         *)
(*                                                                         *)
(* VIFHandler (controller/handlers/vif.py) requests the main vif of a pod  *)
(* and the additional ones, annotates the pod with them, activates them,   *)
(* and releases them when the pod has completed, is deleted, or cannot be  *)
(* annotated.  The vifs are those of the nested macvlan driver: a port of  *)
(* Neutron, and a pair in the allowed_address_pairs of the node's own      *)
(* port, which the threads of all pods of the node read and write back     *)
(* with its revision number.                                               *)
(*                                                                         *)
(* The thread of a pod works on a snapshot of the pod, the event, and      *)
(* Retry calls the handler again with the same snapshot.                   *)
(***************************************************************************)
EXTENDS Naturals, FiniteSets

CONSTANTS
    Pods,         \* pods of one node
    Ports,        \* ids of Neutron ports
    Wanted,       \* Wanted[p]: the vifs that p asks for, additional ones included
    Attempts,     \* rev_update_attempts
    None,
    Races,        \* timings of the environment that are let in
    MaxChanges,   \* how often pods change
    MaxTroubles   \* how many calls fail and restarts happen

ASSUME PodVIFAssumption ==
    /\ Wanted \in [Pods -> Nat \ {0}] /\ Attempts \in Nat \ {0}
    /\ None \notin Ports /\ MaxChanges \in Nat /\ MaxTroubles \in Nat

VARIABLES
    pod,      \* pods in the API: st, annotated vifs, whether these are active,
              \* news: whether the watch has yet to tell
    event,    \* event[p]: what waits in the queue of p, the last of it
    work,     \* what the thread of each pod does
    ports,    \* ports in Neutron
    pairs,    \* ports that have a pair in allowed_address_pairs of the node
    alive,    \* VIFHandler has not reported itself unhealthy
    changes, troubles

vars == <<pod, event, work, ports, pairs, alive, changes, troubles>>

States  == {"none", "pending", "running", "completed", "gone"}
NoEvent == [st |-> "none", vifs |-> {}, active |-> FALSE]
Idle    == [pc |-> "idle", obj |-> NoEvent, vifs |-> {}, port |-> None, read |-> {},
            fresh |-> FALSE, tries |-> Attempts]

ObjType  == [st : States, vifs : SUBSET Ports, active : BOOLEAN]
PodType  == [st : States, vifs : SUBSET Ports, active : BOOLEAN, news : BOOLEAN]
WorkType == [pc : {"idle", "again", "request", "pair", "annotate", "activate",
                   "release", "unpair", "delete", "clear"},
             obj : ObjType, vifs : SUBSET Ports, port : Ports \cup {None},
             read : SUBSET Ports, fresh : BOOLEAN, tries : 1..Attempts]

TypeOK ==
    /\ pod \in [Pods -> PodType]
    /\ event \in [Pods -> ObjType]
    /\ work \in [Pods -> WorkType]
    /\ ports \subseteq Ports /\ pairs \subseteq Ports
    /\ alive \in BOOLEAN /\ changes \in 0..MaxChanges /\ troubles \in 0..MaxTroubles

Init ==
    /\ pod = [p \in Pods |-> [st |-> "none", vifs |-> {}, active |-> FALSE, news |-> FALSE]]
    /\ event = [p \in Pods |-> NoEvent] /\ work = [p \in Pods |-> Idle]
    /\ ports = {} /\ pairs = {} /\ alive = TRUE /\ changes = 0 /\ troubles = 0

Change  == changes < MaxChanges /\ changes' = changes + 1
Trouble == troubles < MaxTroubles /\ troubles' = troubles + 1

Is(p, pc) == work[p].pc = pc
Ends(p) == work' = [work EXCEPT ![p] = Idle]
Retried(p) == work' = [work EXCEPT ![p] = [Idle EXCEPT !.pc = "again", !.obj = work[p].obj]]

(* Releasing vs, the vifs of work[p], one by one.                          *)
Releases(p, vs) == work' = [work EXCEPT ![p].pc = "release", ![p].vifs = vs,
                                        ![p].tries = Attempts]

(* The exception is not one that Retry handles.                            *)
GivenUp(p) == Ends(p) /\ alive' = FALSE

-----------------------------------------------------------------------------
(* Users, kubelet, and the watch of pods.                                  *)

CreatePod(p) ==
    /\ Change /\ pod[p].st = "none"
    /\ pod' = [pod EXCEPT ![p].st = "pending", ![p].news = TRUE]
    /\ UNCHANGED <<event, work, ports, pairs, alive, troubles>>

(* Something that VIFHandler does not look at.                             *)
TouchPod(p) ==
    /\ Change /\ pod[p].st \notin {"none", "gone"} /\ ~pod[p].news
    /\ pod' = [pod EXCEPT ![p].news = TRUE]
    /\ UNCHANGED <<event, work, ports, pairs, alive, troubles>>

(* The CNI has plugged the vifs of the annotation.                         *)
PodRuns(p) ==
    /\ pod[p].st = "pending" /\ pod[p].active
    /\ pod' = [pod EXCEPT ![p].st = "running", ![p].news = TRUE]
    /\ UNCHANGED <<event, work, ports, pairs, alive, changes, troubles>>

PodCompletes(p) ==
    /\ Change /\ pod[p].st \in {"pending", "running"}
    /\ pod' = [pod EXCEPT ![p].st = "completed", ![p].news = TRUE]
    /\ UNCHANGED <<event, work, ports, pairs, alive, troubles>>

DeletePod(p) ==
    /\ Change /\ pod[p].st \notin {"none", "gone"}
    /\ pod' = [pod EXCEPT ![p].st = "gone", ![p].news = TRUE]
    /\ UNCHANGED <<event, work, ports, pairs, alive, troubles>>

Seen(p) == [st |-> pod[p].st, vifs |-> pod[p].vifs, active |-> pod[p].active]

(* Async has its thread skip all events but the last.                      *)
Deliver(p) ==
    /\ pod[p].news
    /\ event' = [event EXCEPT ![p] = Seen(p)]
    /\ pod' = [pod EXCEPT ![p].news = FALSE]
    /\ UNCHANGED <<work, ports, pairs, alive, changes, troubles>>

-----------------------------------------------------------------------------
(* The handler is called with obj: on_present, on_deleted.                 *)

(* Retry looks whether a present object is still there.                    *)
Start(p, obj) ==
    LET at(pc, vs) == [Idle EXCEPT !.pc = pc, !.obj = obj, !.vifs = vs] IN
    CASE obj.st # "gone" /\ pod[p].st = "gone"          -> Idle
      [] obj.st \in {"gone", "completed"} /\ obj.vifs # {} -> at("release", obj.vifs)
      [] obj.st = "pending" /\ obj.vifs = {}            -> at("request", {})
      [] obj.st = "pending" /\ obj.vifs # {} /\ ~obj.active -> at("activate", obj.vifs)
      [] OTHER                                          -> Idle

(* An event from before the annotation is handled after it: the race       *)
(* "stale_event".                                                          *)
Take(p) ==
    /\ Is(p, "idle") /\ event[p] # NoEvent
    /\ "stale_event" \in Races \/ event[p].vifs = pod[p].vifs
    /\ work' = [work EXCEPT ![p] = Start(p, event[p])]
    /\ event' = [event EXCEPT ![p] = NoEvent]
    /\ UNCHANGED <<pod, ports, pairs, alive, changes, troubles>>

(* Mutant: an event is not handled again.                                  *)
RetryAgainNot(p) ==
    /\ Is(p, "again") /\ Ends(p)
    /\ UNCHANGED <<pod, event, ports, pairs, alive, changes, troubles>>

RetryAgain(p) ==
    /\ Is(p, "again")
    /\ work' = [work EXCEPT ![p] = Start(p, work[p].obj)]
    /\ UNCHANGED <<pod, event, ports, pairs, alive, changes, troubles>>

(* The deadline; or a call to Neutron fails, and what has been created so  *)
(* far, or is still to be released, is left behind: "neutron_fails".       *)
GiveUp(p) ==
    /\ \/ Is(p, "again")
       \/ "neutron_fails" \in Races /\ work[p].pc \in {"request", "release", "delete"}
    /\ Trouble /\ GivenUp(p)
    /\ UNCHANGED <<pod, event, ports, pairs, changes>>

-----------------------------------------------------------------------------
(* The address pairs of the node's port (NestedMacvlanPodVIFDriver).       *)

(* Reading them with the revision; an update by anyone makes what others   *)
(* have read out of date.                                                  *)
ReadPairs(w) == [w EXCEPT !.read = pairs, !.fresh = TRUE]
Unread(w) == [w EXCEPT !.read = {}, !.fresh = FALSE]
Updating(p, w) == work' = [q \in Pods |-> IF q = p THEN w ELSE [work[q] EXCEPT !.fresh = FALSE]]
Holding(p) == work[p].pc \in {"pair", "unpair"}

(* The revision has changed at every attempt: the race "contention".       *)
MayUpdate(p) ==
    /\ work[p].fresh
    /\ "contention" \in Races
       \/ \A q \in Pods \ {p} : ~(Holding(q) /\ work[q].fresh /\ work[q].tries = 1)

(* _try_update_port: the number of attempts, then the exception.  A call   *)
(* that fails for another reason is retried too; "neutron_fails" lets it   *)
(* fail at the last attempt.                                               *)
PairRefused(p) ==
    /\ Holding(p)
    /\ \/ ~work[p].fresh /\ UNCHANGED troubles
       \/ Trouble /\ ("neutron_fails" \in Races \/ work[p].tries > 1)
    /\ IF work[p].tries > 1
       THEN /\ work' = [work EXCEPT ![p] = [Unread(@) EXCEPT !.tries = work[p].tries - 1,
                            !.pc = IF Is(p, "pair") THEN "request" ELSE "release"]]
            /\ UNCHANGED alive
       ELSE GivenUp(p)
    /\ UNCHANGED <<pod, event, ports, pairs, changes>>

-----------------------------------------------------------------------------
(* Requesting: the main vif, then the additional ones.                     *)

(* Ids are not used again.                                                 *)
Known == ports \cup pairs \cup UNION {pod[p].vifs \cup event[p].vifs \cup work[p].vifs
                                      \cup work[p].obj.vifs : p \in Pods}
NewPort == CHOOSE q \in Ports \ Known : TRUE

(* The pairs are read first, and the port is created at the first attempt. *)
CreatePort(p) ==
    /\ Is(p, "request") /\ Ports \ Known # {}
    /\ LET q == IF work[p].port = None THEN NewPort ELSE work[p].port IN
       /\ ports' = ports \cup {q}
       /\ work' = [work EXCEPT ![p] = [ReadPairs(@) EXCEPT !.port = q, !.pc = "pair"]]
    /\ UNCHANGED <<pod, event, pairs, alive, changes, troubles>>

(* The vif is added to those that have been requested.                     *)
Requested(p) ==
    LET vs == work[p].vifs \cup {work[p].port} IN
    [Unread(work[p]) EXCEPT !.vifs = vs, !.port = None, !.tries = Attempts,
                    !.pc = IF Cardinality(vs) < Wanted[p] THEN "request" ELSE "annotate"]

(* Mutant: whatever the revision.                                          *)
AddPairAnyway(p) ==
    /\ Is(p, "pair")
    /\ pairs' = work[p].read \cup {work[p].port}
    /\ Updating(p, Requested(p))
    /\ UNCHANGED <<pod, event, ports, alive, changes, troubles>>

AddPair(p) ==
    /\ Is(p, "pair") /\ MayUpdate(p)
    /\ pairs' = work[p].read \cup {work[p].port}
    /\ Updating(p, Requested(p))
    /\ UNCHANGED <<pod, event, ports, alive, changes, troubles>>

-----------------------------------------------------------------------------
(* Annotating (_set_pod_state, K8sClient.annotate).                        *)

(* A conflict of versions makes annotate read the version and patch again: *)
(* whatever the annotation holds is written over.                          *)
Stores(p, vs, act) ==
    pod' = [pod EXCEPT ![p].vifs = vs, ![p].active = act,
                       ![p].news = @ \/ pod[p].vifs # vs \/ pod[p].active # act]

Annotate(p) ==
    /\ Is(p, "annotate") /\ pod[p].st # "gone"
    /\ Stores(p, work[p].vifs, FALSE) /\ Ends(p)
    /\ UNCHANGED <<event, ports, pairs, alive, changes, troubles>>

(* Mutant: nothing is released.                                            *)
AnnotateRefusedOnly(p) ==
    /\ Is(p, "annotate") /\ pod[p].st = "gone" /\ Ends(p)
    /\ UNCHANGED <<pod, event, ports, pairs, alive, changes, troubles>>

(* The vifs are released, without another try: if no other event comes,    *)
(* the pod stays without, the race "not_retried".  If the connection is    *)
(* lost, after or before the annotation is stored, the handler starts      *)
(* again with the event without annotation: the race "connection_lost".    *)
AnnotateRefused(p) ==
    /\ Is(p, "annotate")
    /\ IF pod[p].st = "gone" THEN UNCHANGED <<pod, troubles>> /\ Releases(p, work[p].vifs)
       ELSE /\ Trouble
            /\ \/ pod' = [pod EXCEPT ![p].news = TRUE] /\ Releases(p, work[p].vifs)
               \/ "not_retried" \in Races /\ UNCHANGED pod /\ Releases(p, work[p].vifs)
               \/ /\ "connection_lost" \in Races /\ Retried(p)
                  /\ Stores(p, work[p].vifs, FALSE) \/ UNCHANGED pod
    /\ UNCHANGED <<event, ports, pairs, alive, changes>>

(* There is nothing to wait for; the vifs become active in the annotation. *)
Activate(p) ==
    /\ Is(p, "activate")
    /\ IF pod[p].st = "gone" THEN Releases(p, work[p].vifs) /\ UNCHANGED pod
       ELSE Stores(p, work[p].vifs, TRUE) /\ Ends(p)
    /\ UNCHANGED <<event, ports, pairs, alive, changes, troubles>>

(* A completed pod is rid of its annotation; that it is gone is taken for  *)
(* any other error, and the event is handled again.                        *)
Clear(p) ==
    /\ Is(p, "clear")
    /\ IF pod[p].st = "gone" THEN Retried(p) /\ UNCHANGED pod
       ELSE Stores(p, {}, FALSE) /\ Ends(p)
    /\ UNCHANGED <<event, ports, pairs, alive, changes, troubles>>

(* If clearing fails, the vifs, which the event still has, are released    *)
(* again: the race "completed_again".                                      *)
AnnotationFails(p) ==
    /\ Trouble
    /\ Is(p, "activate") \/ (Is(p, "clear") /\ "completed_again" \in Races)
    /\ Retried(p)
    /\ UNCHANGED <<pod, event, ports, pairs, alive, changes>>

-----------------------------------------------------------------------------
(* Releasing, one vif after the other.                                     *)

ItsPort(p) == IF work[p].port = None THEN CHOOSE q \in work[p].vifs : TRUE ELSE work[p].port

FetchPort(p) ==
    /\ Is(p, "release") /\ ItsPort(p) \in ports
    /\ work' = [work EXCEPT ![p] = [ReadPairs(@) EXCEPT !.port = ItsPort(p), !.pc = "unpair"]]
    /\ UNCHANGED <<pod, event, ports, pairs, alive, changes, troubles>>

(* A port that has gone is an error that Retry does not handle.            *)
PortNotFound(p) ==
    /\ Is(p, "release") /\ ItsPort(p) \notin ports
    /\ GivenUp(p)
    /\ UNCHANGED <<pod, event, ports, pairs, changes, troubles>>

RemovePair(p) ==
    /\ Is(p, "unpair")
    /\ LET w == [Unread(work[p]) EXCEPT !.pc = "delete"] IN
       IF work[p].port \in work[p].read
       THEN MayUpdate(p) /\ pairs' = work[p].read \ {work[p].port} /\ Updating(p, w)
       ELSE work' = [work EXCEPT ![p] = w] /\ UNCHANGED pairs
    /\ UNCHANGED <<pod, event, ports, alive, changes, troubles>>

DeletePort(p) ==
    /\ Is(p, "delete")
    /\ ports' = ports \ {work[p].port}
    /\ LET left == work[p].vifs \ {work[p].port} IN
       work' = [work EXCEPT ![p] =
           IF left # {} THEN [@ EXCEPT !.vifs = left, !.port = None, !.tries = Attempts,
                                       !.pc = "release"]
           ELSE IF @.obj.st = "completed" THEN [Idle EXCEPT !.pc = "clear", !.obj = work[p].obj]
           ELSE Idle]
    /\ UNCHANGED <<pod, event, pairs, alive, changes, troubles>>

-----------------------------------------------------------------------------
(* A restart lists the pods that are there.  It leaves behind the vifs     *)
(* that are not annotated yet, and those of pods that go meanwhile: the    *)
(* race "crash"; and releases again those of a completed pod.              *)
Restart ==
    /\ IF alive THEN Trouble ELSE UNCHANGED troubles
    /\ "crash" \in Races
       \/ \A p \in Pods : /\ work[p].pc \in {"idle", "again", "activate"}
                          /\ pod[p].st = "gone" => ~pod[p].news /\ event[p] = NoEvent
    /\ alive' = TRUE
    /\ work' = [p \in Pods |-> Idle]
    /\ event' = [p \in Pods |-> IF pod[p].st \in {"none", "gone"} THEN NoEvent ELSE Seen(p)]
    /\ pod' = [p \in Pods |-> [pod[p] EXCEPT !.news = FALSE]]
    /\ UNCHANGED <<ports, pairs, changes>>

PodStep(p) ==
    \/ Take(p) \/ RetryAgain(p) \/ CreatePort(p) \/ AddPair(p) \/ Annotate(p)
    \/ (pod[p].st = "gone" /\ AnnotateRefused(p))
    \/ Activate(p) \/ Clear(p) \/ FetchPort(p) \/ PortNotFound(p) \/ RemovePair(p)
    \/ DeletePort(p) \/ (~work[p].fresh /\ PairRefused(p))

Fails(p) == GiveUp(p) \/ PairRefused(p) \/ AnnotateRefused(p) \/ AnnotationFails(p)

Next == \/ \E p \in Pods : \/ CreatePod(p) \/ TouchPod(p) \/ PodRuns(p) \/ PodCompletes(p)
                           \/ DeletePod(p) \/ Deliver(p) \/ PodStep(p) \/ Fails(p)
        \/ Restart

(* Handlers go on, the watch tells, kubelet restarts what is unhealthy.    *)
Spec == /\ Init /\ [][Next]_vars
        /\ \A p \in Pods : WF_vars(PodStep(p)) /\ WF_vars(Deliver(p))
        /\ WF_vars(~alive /\ Restart)

-----------------------------------------------------------------------------
(* Properties.                                                             *)

Settled == /\ alive
           /\ \A p \in Pods : Is(p, "idle") /\ ~pod[p].news /\ event[p] = NoEvent

Needed == UNION {pod[p].vifs : p \in {q \in Pods : pod[q].st \in {"pending", "running"}}}

(* The vifs that a pod is annotated with have their ports and their pairs, *)
(* whatever other pods' threads write to the node's port.                  *)
VifsWork == Needed \subseteq ports \cap pairs

(* Once all is handled, Neutron has no port and the node's port no pair    *)
(* but those of the annotations of pods that have not completed.           *)
NothingLeft == Settled => ports = Needed /\ pairs = Needed

(* A pod that waits for its vifs gets them.                                *)
EventuallyServed == \A p \in Pods : pod[p].st = "pending" ~> (pod[p].active \/ pod[p].st # "pending")

=============================================================================

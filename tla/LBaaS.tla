------------------------------- MODULE LBaaS --------------------------------
(***************************************************************************)
(* One Kubernetes service and its Octavia load balancer.                   *)
(*                                                                         *)
(* LBaaSSpecHandler (controller/handlers/lbaas.py) writes what the service *)
(* asks for into the annotations of its endpoints and of the service;      *)
(* LoadBalancerHandler reads it from the endpoints' events and makes       *)
(* Octavia follow through LBaaSv2Driver (controller/drivers/lbaasv2.py),   *)
(* saving what it has built in another annotation of the endpoints.  A     *)
(* policy handler writes that second annotation too (update_lbaas_sg).     *)
(*                                                                         *)
(* Each object has a thread and a queue of its own (EventPipeline).  An    *)
(* event is a snapshot of the object: the handler works from the state     *)
(* annotation of the EVENT, which may be old.  An action runs from one     *)
(* call to Octavia, Neutron or Kubernetes to the next.                     *)
(*                                                                         *)
(* annotate() retries a conflict with the version it has just read         *)
(* (k8s_client.py:212), so it overwrites the key whatever was written in   *)
(* between: here it is one unconditional write of that key.                *)
(***************************************************************************)
EXTENDS Naturals, Sequences, FiniteSets

CONSTANTS
    Pods,            \* pods behind the service
    Ports,           \* ports a service may have, numbered in order of protocol
    IPs,             \* cluster IPs
    PortSets,        \* the sets of ports its specification goes through
    Clash,           \* Clash[p]: ports with the number of p, other protocol
    DoubleListeners, \* Octavia takes two listeners on one port number
    PublicIp,        \* is the service of type LoadBalancer? ({TRUE, FALSE}: either)
    Allowed,         \* Allowed[p]: sources the network policies let reach p
    AnySource,             \* the source of a rule without remote_ip_prefix
    Acls,            \* Octavia has listener ACLs (allowed_cidrs)
    None,
    Races,           \* timings of the environment that are let in
    MaxChanges,      \* how often the user changes the service or its pods
    MaxTroubles      \* how many calls fail, load balancers break, restarts

ASSUME PortsAssumption ==
    /\ Ports \subseteq Nat \ {0}
    /\ PortSets \subseteq (SUBSET Ports) \ {{}}
    /\ Clash \in [Ports -> SUBSET Ports]
    /\ None \notin Pods \cup IPs

VARIABLES
    svc,       \* the service: live, ip, public, ports, spec (its annotation)
    ep,        \* its endpoints: live, pods, spec and state (annotations)
    svcQueue,  \* events of the service not handled yet
    queue,     \* events of the endpoints not handled yet
    writing,   \* the spec set_lbaas_spec has still to put on the service
    hand,      \* the thread of the endpoints in LoadBalancerHandler
    oct,       \* what exists in Octavia, and the floating IPs of Neutron
    broken,    \* ids of the load balancers in provisioning status ERROR
    rules,     \* <<lb, port, source>>: what the VIP's group (or the ACLs) lets in
    policy,    \* do network policies select the pods of the service?
    update,    \* a policy handler in update_lbaas_sg: pc, the state read, ports left
    cleanup,   \* load balancers _cleanup_leftover_lbaas is releasing
    alive,     \* no handler has reported itself unhealthy
    lost,      \* history: ids on which an attempt that did not save left the
               \* annotation and Octavia in disagreement
    changes, troubles

vars == <<svc, ep, svcQueue, queue, writing, hand, oct, broken, rules, policy,
          update, cleanup, alive, lost, changes, troubles>>

-----------------------------------------------------------------------------
(* Data.  A load balancer, a listener, a pool, a member and a floating IP  *)
(* are things with an id that hang below another one.                      *)

Kinds == {"lb", "listener", "pool", "member", "fip"}
MaxId == 20          \* more than are ever remembered at once
Thing == [id : 1..MaxId, kind : Kinds, ip : IPs \cup {None}, port : Ports \cup {0},
          pod : Pods \cup {None}, up : 0..MaxId]

Spec_  == [ip : IPs, ports : SUBSET Ports]
Event  == [type : {"present", "deleted"}, pods : SUBSET Pods,
           spec : Spec_ \cup {None}, state : SUBSET Thing \cup {{None}}]

NoState == {None}    \* the annotation is not there
Ids(S)  == {x.id : x \in S \ NoState}
Of(kind, S) == {x \in S \ NoState : x.kind = kind}
At(id, S)   == {x \in S \ NoState : x.id = id}

(* Ids are UUIDs: fresh is what nobody remembers.                          *)
Remembered == Ids(oct) \cup Ids(ep.state) \cup Ids(hand.st) \cup Ids(update.st)
              \cup Ids(hand.ev.state)
              \cup UNION {Ids(queue[i].state) : i \in DOMAIN queue} \cup lost \cup cleanup
Fresh == CHOOSE n \in 1..MaxId : /\ n \notin Remembered
                                 /\ \A m \in 1..(n-1) : m \in Remembered

(* delete_load_balancer(cascade) and the other deletions take what hangs   *)
(* below along; a floating IP only loses its port.                         *)
Children(ids, S) == {x \in S : x.up \in ids /\ x.kind # "fip"}
Below(ids, S) == LET a == ids \cup Ids(Children(ids, S))
                     b == a \cup Ids(Children(a, S))
                 IN  b \cup Ids(Children(b, S))
Without(ids, S) == LET gone == Below(ids, S) IN
                   {[x EXCEPT !.up = IF @ \in gone THEN 0 ELSE @] :
                    x \in {y \in S : y.id \notin gone}}

Idle == [pc |-> "idle", st |-> {}, changed |-> FALSE, policy |-> FALSE,
         ev |-> [type |-> "present", pods |-> {}, spec |-> None, state |-> NoState]]

NoUpdate == [pc |-> "idle", st |-> NoState, left |-> {}]

Snapshot(type, e) == [type |-> type, pods |-> e.pods, spec |-> e.spec, state |-> e.state]
SvcSnapshot(s) == [ip |-> s.ip, ports |-> s.ports, spec |-> s.spec]

(* The API server tells the watch every modification, and none when        *)
(* nothing is modified.                                                    *)
PutEndpoints(e) ==
    /\ ep' = e
    /\ queue' = IF e = ep THEN queue ELSE Append(queue, Snapshot("present", e))
PutService(s) ==
    /\ svc' = s
    /\ svcQueue' = IF s = svc THEN svcQueue ELSE Append(svcQueue, SvcSnapshot(s))

Init ==
    /\ \E ip \in IPs, ports \in PortSets, public \in PublicIp :
           svc = [live |-> TRUE, ip |-> ip, public |-> public, ports |-> ports, spec |-> None]
    /\ ep = [live |-> TRUE, pods |-> {}, spec |-> None, state |-> NoState]
    /\ svcQueue = <<SvcSnapshot(svc)>> /\ queue = <<Snapshot("present", ep)>>
    /\ writing = None /\ hand = Idle
    /\ oct = {} /\ broken = {} /\ rules = {} /\ policy = FALSE /\ update = NoUpdate
    /\ cleanup = {} /\ alive = TRUE /\ lost = {} /\ changes = 0 /\ troubles = 0

Trouble == troubles < MaxTroubles /\ troubles' = troubles + 1
Change  == changes < MaxChanges /\ changes' = changes + 1

-----------------------------------------------------------------------------
(* The user, Kubernetes and Octavia.                                       *)

ChangePorts(P) ==
    /\ Change /\ svc.live /\ P # svc.ports
    /\ PutService([svc EXCEPT !.ports = P])
    /\ UNCHANGED <<ep, queue, writing, hand, oct, broken, rules, policy, update,
                   cleanup, alive, lost, troubles>>

ChangePods(S) ==
    /\ Change /\ ep.live /\ svc.live /\ S # ep.pods
    /\ PutEndpoints([ep EXCEPT !.pods = S])
    /\ UNCHANGED <<svc, svcQueue, writing, hand, oct, broken, rules, policy, update,
                   cleanup, alive, lost, troubles>>

(* Deleted and created again before the endpoints controller looks: the    *)
(* endpoints live on.  Bound: not while an event of the old service is     *)
(* being handled, which would be another thread.  The floating IP is taken *)
(* off the old load balancer and never put on the new one: the race        *)
(* "address_with_public_ip".  The clean-up of a restart has chosen what it *)
(* releases before: the race "address_in_cleanup".                         *)
ReplaceService(ip) ==
    /\ Change /\ svc.live /\ ip # svc.ip /\ svcQueue = <<>> /\ writing = None
    /\ ~svc.public \/ "address_with_public_ip" \in Races
    /\ (\A x \in oct : x.id \in cleanup => x.ip # ip) \/ "address_in_cleanup" \in Races
    /\ PutService([svc EXCEPT !.ip = ip, !.spec = None])
    /\ UNCHANGED <<ep, queue, writing, hand, oct, broken, rules, policy, update,
                   cleanup, alive, lost, troubles>>

DeleteService ==
    /\ Change /\ svc.live
    /\ svc' = [svc EXCEPT !.live = FALSE]
    /\ UNCHANGED <<ep, svcQueue, queue, writing, hand, oct, broken, rules, policy,
                   update, cleanup, alive, lost, troubles>>

DeleteEndpoints ==
    /\ ~svc.live /\ ep.live
    /\ ep' = [ep EXCEPT !.live = FALSE]
    /\ queue' = Append(queue, Snapshot("deleted", ep))
    /\ UNCHANGED <<svc, svcQueue, writing, hand, oct, broken, rules, policy, update,
                   cleanup, alive, lost, changes, troubles>>

(* A load balancer turns to ERROR.  Once the annotation names it, or will  *)
(* without another call to Octavia, nothing in the code creates it again:  *)
(* the race "annotated_error".                                             *)
LBBreaks(x) ==
    /\ Trouble /\ x.id \notin broken
    /\ \/ "annotated_error" \in Races
       \/ /\ x.id \notin Ids(ep.state) \cup UNION {Ids(queue[i].state) : i \in DOMAIN queue}
                         \cup Ids(update.st) \cup Ids(hand.ev.state)
          /\ hand.pc \in {"idle", "try", "down", "lb", "up"}
          /\ \A f \in Of("fip", oct) : f.up # x.id
    /\ broken' = broken \cup {x.id}
    /\ UNCHANGED <<svc, ep, svcQueue, queue, writing, hand, oct, rules, policy, update,
                   cleanup, alive, lost, changes>>

-----------------------------------------------------------------------------
(* LBaaSSpecHandler.on_present: spec changes go to the endpoints first,    *)
(* then to the service.                                                    *)

Asked(e) == [ip |-> e.ip, ports |-> e.ports]
HasSpecChanges(e) == e.spec # Asked(e)

AnnotateEndpoints ==
    /\ alive /\ writing = None /\ svcQueue # <<>>
    /\ LET e == Head(svcQueue)
       IN  \/ /\ ~HasSpecChanges(e) \/ ~svc.live      \* nothing to do; Retry drops it
              /\ svcQueue' = Tail(svcQueue)
              /\ UNCHANGED <<ep, queue, writing>>
           \/ /\ HasSpecChanges(e) /\ svc.live /\ ep.live
              /\ PutEndpoints([ep EXCEPT !.spec = Asked(e)])
              /\ writing' = Asked(e)
              /\ svcQueue' = Tail(svcQueue)
    /\ UNCHANGED <<svc, hand, oct, broken, rules, policy, update, cleanup, alive, lost,
                   changes, troubles>>

AnnotateService ==
    /\ writing # None
    /\ writing' = None
    /\ IF svc.live THEN PutService([svc EXCEPT !.spec = writing])
                   ELSE UNCHANGED <<svc, svcQueue>>
    /\ UNCHANGED <<ep, queue, hand, oct, broken, rules, policy, update, cleanup, alive,
                   lost, changes, troubles>>

-----------------------------------------------------------------------------
(* LoadBalancerHandler: an attempt at an event.                            *)

Others == <<svc, svcQueue, writing, policy, update, cleanup, changes>>

(* What the annotation and Octavia do not agree on is left so when an      *)
(* attempt ends without saving and is not tried again.                     *)
Disagree == (Ids(oct) \ Ids(ep.state)) \cup (Ids(ep.state) \ Ids(oct))
Leave    == lost' = lost \cup Disagree

NextEvent ==
    /\ alive /\ hand.pc = "idle" /\ queue # <<>>
    /\ hand' = [Idle EXCEPT !.pc = "try", !.ev = Head(queue)]
    /\ queue' = Tail(queue)
    /\ UNCHANGED <<Others, ep, oct, broken, rules, alive, lost, troubles>>

(* Retry asks whether the object is still there before each attempt.       *)
GoneMeanwhile ==
    /\ hand.pc = "try" /\ hand.ev.type = "present" /\ ~ep.live
    /\ hand' = Idle /\ Leave
    /\ UNCHANGED <<Others, ep, queue, oct, broken, rules, alive, troubles>>

(* _should_ignore: not annotated yet, no pods, or - once the service has    *)
(* been read - an annotation older than the service's ports.               *)
Due == hand.ev.spec # None /\ hand.ev.pods # {}

(* A retry may be ignored, too: what the attempt before it has built for   *)
(* ports that are no longer asked for is then left.                        *)
Ignore ==
    /\ hand.pc = "try" /\ hand.ev.type = "present" /\ ep.live
    /\ ~(Due /\ (svc.live => svc.ports = hand.ev.spec.ports))
    /\ hand' = Idle /\ Leave
    /\ UNCHANGED <<Others, ep, queue, oct, broken, rules, alive, troubles>>

(* _svc_handler_annotations_updated gets a service that has gone: the      *)
(* K8sResourceNotFound is not one that Retry retries.                      *)
ServiceGone ==
    /\ hand.pc = "try" /\ hand.ev.type = "present" /\ ep.live
    /\ Due /\ ~svc.live
    /\ hand' = Idle /\ alive' = FALSE /\ Leave
    /\ UNCHANGED <<Others, ep, queue, oct, broken, rules, troubles>>

StartSync ==
    /\ hand.pc = "try" /\ hand.ev.type = "present" /\ ep.live
    /\ Due /\ svc.live /\ svc.ports = hand.ev.spec.ports
    /\ hand' = [hand EXCEPT !.pc = "down", !.st = hand.ev.state \ NoState, !.changed = FALSE]
    /\ UNCHANGED <<Others, ep, queue, oct, broken, rules, alive, lost, troubles>>

(* on_deleted: what the last state annotation names is released.           *)
StartDeleted ==
    /\ hand.pc = "try" /\ hand.ev.type = "deleted"
    /\ hand' = IF hand.ev.state = NoState THEN Idle
               ELSE [hand EXCEPT !.pc = "release", !.st = hand.ev.state]
    /\ UNCHANGED <<Others, ep, queue, oct, broken, rules, alive, lost, troubles>>

(* A call ends in ResourceNotReady: the attempt starts over from the event.*)
(* A floating IP that is allocated and not associated is not found again:  *)
(* the race "associate_fails".                                             *)
CallFails ==
    /\ Trouble /\ hand.pc \notin {"idle", "try"}
    /\ hand.pc # "associate" \/ "associate_fails" \in Races
    /\ hand' = [Idle EXCEPT !.pc = "try", !.ev = hand.ev]
    /\ UNCHANGED <<Others, ep, queue, oct, broken, rules, alive, lost>>

(* --- removals: members, then pools, then listeners --------------------- *)

LB(S) == Of("lb", S)
PortOf(x) == {l.port : l \in At(x.up, hand.st)}    \* the port of a pool's listener
InSpec(pool) == PortOf(pool) \cap hand.ev.spec.ports # {}

UnusedMembers == {m \in Of("member", hand.st) :
                    m.pod \notin hand.ev.pods
                    \/ \A p \in At(m.up, hand.st) : p.kind # "pool" \/ ~InSpec(p)}
UnusedPools == {p \in Of("pool", hand.st) : ~InSpec(p)}
UnusedListeners == {l \in Of("listener", hand.st) :
                      \A p \in Of("pool", hand.st) : p.up # l.id}

(* The deletion takes effect in Octavia, or finds nothing (NotFound).      *)
Released(x) ==
    /\ oct' = Without({x.id}, oct)
    /\ hand' = [hand EXCEPT !.changed = TRUE,
                            !.st = {y \in @ : y # x /\ (y.kind = "member" => y.up # x.id)}]

RemoveMember ==
    /\ hand.pc = "down"
    /\ \E m \in UnusedMembers : Released(m)
    /\ UNCHANGED <<Others, ep, queue, broken, rules, alive, lost, troubles>>

RemovePool ==
    /\ hand.pc = "down" /\ UnusedMembers = {}
    /\ \E p \in UnusedPools : Released(p)
    /\ UNCHANGED <<Others, ep, queue, broken, rules, alive, lost, troubles>>

RulesOf(lb, p) == {r \in rules : r[1] = lb /\ r[2] = p}

(* release_listener also takes a rule with the listener's name off the     *)
(* VIP's group: the first it is given, whichever that is.  Octavia takes   *)
(* its own; ACLs go with the listener.                                     *)
RemoveListener ==
    /\ hand.pc = "down" /\ UnusedMembers = {} /\ UnusedPools = {}
    /\ \E l \in UnusedListeners :
          LET its   == RulesOf(l.up, l.port)
              named == its \ {<<l.up, l.port, AnySource>>} IN
          /\ Released(l)
          /\ IF Acls \/ named = {} THEN rules' = rules \ its
             ELSE \E r \in named : rules' = rules \ {r, <<l.up, l.port, AnySource>>}
    /\ UNCHANGED <<Others, ep, queue, broken, alive, lost, troubles>>

RemovalsDone ==
    /\ hand.pc = "down" /\ UnusedMembers = {} /\ UnusedPools = {} /\ UnusedListeners = {}
    /\ hand' = [hand EXCEPT !.pc = "lb"]
    /\ UNCHANGED <<Others, ep, queue, oct, broken, rules, alive, lost, troubles>>

(* --- the load balancer ------------------------------------------------- *)

RulesWithout(id) == {r \in rules : r[1] # id}
Again == [Idle EXCEPT !.pc = "try", !.ev = hand.ev]

(* The address has changed: the floating IP is taken off, the load         *)
(* balancer goes with all it holds.  The state keeps the floating IP.      *)
DropLB ==
    /\ hand.pc = "lb"
    /\ \E x \in LB(hand.st) :
          /\ x.ip # hand.ev.spec.ip
          /\ oct' = Without({x.id}, {[y EXCEPT !.up = IF y.id \in Ids(Of("fip", hand.st))
                                                    THEN 0 ELSE @] : y \in oct})
          /\ rules' = RulesWithout(x.id)
          /\ broken' = broken \ {x.id}
          /\ hand' = [hand EXCEPT !.st = Of("fip", @), !.changed = TRUE]
    /\ UNCHANGED <<Others, ep, queue, alive, lost, troubles>>

KeepLB ==
    /\ hand.pc = "lb"
    /\ \E x \in LB(hand.st) : x.ip = hand.ev.spec.ip
    /\ hand' = [hand EXCEPT !.pc = "up"]
    /\ UNCHANGED <<Others, ep, queue, oct, broken, rules, alive, lost, troubles>>

New(kind, ip, port, pod, up) ==
    [id |-> Fresh, kind |-> kind, ip |-> ip, port |-> port, pod |-> pod, up |-> up]
Twins(x) == {y \in oct : [y EXCEPT !.id = 0] = [x EXCEPT !.id = 0]}

(* Mutant: what an earlier attempt created is not looked for.              *)
EnsuredNew(x) ==
    /\ oct' = oct \cup {x}
    /\ hand' = [hand EXCEPT !.st = @ \cup {x}, !.changed = TRUE,
                            !.pc = IF @ = "lb" THEN "up" ELSE @]

(* _ensure: create, or find what an earlier attempt created (409, 500).    *)
Ensured(x) ==
    LET found == Twins(x)
        got   == IF found = {} THEN {x} ELSE found
    IN  /\ oct' = oct \cup got
        /\ hand' = [hand EXCEPT !.st = @ \cup got, !.changed = TRUE,
                                !.pc = IF @ = "lb" THEN "up" ELSE @]

EnsureLB ==
    /\ hand.pc = "lb" /\ LB(hand.st) = {}
    /\ LET x == New("lb", hand.ev.spec.ip, 0, None, 0) IN
       /\ Ids(Twins(x)) \cap broken = {}
       /\ Ensured(x)
    /\ UNCHANGED <<Others, ep, queue, broken, rules, alive, lost, troubles>>

Usable == Ids(LB(hand.st)) \subseteq Ids(oct) \ broken
Lsn    == Of("listener", hand.st)

(* Ports in order of protocol; one whose number is taken is passed over.   *)
MissingPorts == {p \in hand.ev.spec.ports :
                   \A l \in Lsn : l.port # p /\ (DoubleListeners \/ l.port \notin Clash[p])}
Bare == {l \in Lsn : \A p \in Of("pool", hand.st) : p.up # l.id}

Missing == {<<c, p>> \in hand.ev.pods \X {x \in Of("pool", hand.st) : InSpec(x)} :
              ~\E m \in Of("member", hand.st) : m.pod = c /\ m.up = p.id}

(* The load balancer the attempt works on, or finds under its name.        *)
InHand == LB(hand.st) \cup
          (IF hand.pc = "lb" /\ LB(hand.st) = {}
           THEN Twins(New("lb", hand.ev.spec.ip, 0, None, 0)) ELSE {})

(* Mutant: the broken load balancer is left for the next attempt to find.  *)
ReleaseBrokenNot ==
    /\ hand.pc \in {"lb", "up"} /\ MissingPorts # {}
    /\ Ids(InHand) \cap broken # {}
    /\ hand' = Again
    /\ UNCHANGED <<Others, ep, queue, oct, broken, rules, alive, lost, troubles>>

(* _find_loadbalancer or _wait_for_provisioning sees ERROR: the load       *)
(* balancer is released, ResourceNotReady starts the attempt over.         *)
ReleaseBroken ==
    /\ \/ hand.pc = "lb"
       \/ hand.pc = "up" /\ MissingPorts # {}
       \/ hand.pc = "pools" /\ Bare # {}
       \/ hand.pc = "members" /\ Missing # {}
    /\ \E x \in InHand :
          /\ x.id \in broken /\ x.id \in Ids(oct)
          /\ oct' = Without({x.id}, oct)
          /\ rules' = RulesWithout(x.id)
          /\ broken' = broken \ {x.id}
    /\ hand' = Again
    /\ UNCHANGED <<Others, ep, queue, alive, lost, troubles>>

(* --- additions: listeners, then pools, then members -------------------- *)

AddListener ==
    /\ hand.pc = "up" /\ Usable
    /\ \E p \in MissingPorts, x \in LB(hand.st) :
          LET l == New("listener", None, p, None, x.id) IN
          /\ \A q \in MissingPorts : p <= q
          /\ Ensured(l)
          /\ rules' = IF Twins(l) = {} THEN rules \cup {<<x.id, p, AnySource>>} ELSE rules
    /\ UNCHANGED <<Others, ep, queue, broken, alive, lost, troubles>>

(* ensure_listener takes any error of Octavia for a protocol that is not   *)
(* supported and goes on without the listener; so it does when the load    *)
(* balancer has gone.  The race "listener_error" lets other errors in.     *)
ListenersDone ==
    /\ hand.pc = "up"
    /\ \/ MissingPorts = {}
       \/ ~Ids(LB(hand.st)) \subseteq Ids(oct)
       \/ "listener_error" \in Races
    /\ hand' = [hand EXCEPT !.pc = "pools"]
    /\ UNCHANGED <<Others, ep, queue, oct, broken, rules, alive, lost, troubles>>

AddPool ==
    /\ hand.pc = "pools" /\ Usable
    /\ \E l \in Bare : Ensured(New("pool", None, 0, None, l.id))
    /\ UNCHANGED <<Others, ep, queue, broken, rules, alive, lost, troubles>>

(* _sync_lbaas_sgs reads which groups the pods of the service have.        *)
PoolsDone ==
    /\ hand.pc = "pools" /\ Bare = {}
    /\ hand' = [hand EXCEPT !.pc = "members", !.policy = policy]
    /\ UNCHANGED <<Others, ep, queue, oct, broken, rules, alive, lost, troubles>>

(* What is let in to port p with and without policies.                     *)
RulesFor(lb, p, pol) == {<<lb, p, s>> : s \in IF pol THEN Allowed[p] ELSE {AnySource}}
(* Mutant: the rules that are there stay.                                  *)
ApplyMembersSGsAdding(R, lb, p, pol) == R \cup RulesFor(lb, p, pol)

(* _apply_members_security_groups for the listener of port p.              *)
ApplyMembersSGs(R, lb, p, pol) ==
    RulesFor(lb, p, pol) \cup
    {r \in R : /\ <<r[1], r[2]>> # <<lb, p>>
               /\ ~Acls /\ pol /\ Allowed[p] # {} /\ r[1] = lb => r[3] # AnySource}

(* The first member of a pool has the policies applied to its listener.    *)
AddMember ==
    /\ hand.pc = "members" /\ Usable
    /\ \E w \in Missing :
          LET pool == w[2] IN
          /\ pool.id \in Ids(oct)
          /\ Ensured(New("member", None, 0, w[1], pool.id))
          /\ rules' = IF \E m \in Of("member", hand.st) : m.up = pool.id THEN rules
                      ELSE LET l == CHOOSE x \in Lsn : x.id = pool.up
                           IN  ApplyMembersSGs(rules, l.up, l.port, hand.policy)
    /\ UNCHANGED <<Others, ep, queue, broken, alive, lost, troubles>>

(* What the pool or the member should hang below is no longer there:       *)
(* NotFound, or no answer until the deadline.  Liveness goes.              *)
ParentGone ==
    /\ \/ hand.pc = "pools" /\ Bare # {} /\ ~Ids(LB(hand.st)) \subseteq Ids(oct)
       \/ hand.pc = "members" /\ \E w \in Missing : w[2].id \notin Ids(oct)
    /\ hand' = Idle /\ alive' = FALSE /\ Leave
    /\ UNCHANGED <<Others, ep, queue, oct, broken, rules, troubles>>

(* Nothing is saved, and no public IP looked for, if nothing has changed.  *)
MembersDone ==
    /\ hand.pc = "members" /\ Missing = {}
    /\ hand' = IF ~hand.changed THEN Idle
               ELSE [hand EXCEPT !.pc = IF svc.public /\ Of("fip", hand.st) = {} THEN "fip"
                                        ELSE "save"]
    /\ UNCHANGED <<Others, ep, queue, oct, broken, rules, alive, lost, troubles>>

(* --- the public IP, the annotation ------------------------------------- *)

(* allocate_ip: the floating IP of the VIP's port if it has one.           *)
AcquireIp ==
    /\ hand.pc = "fip"
    /\ LET there == {x \in Of("fip", oct) : x.up \in Ids(LB(hand.st))}
           got == IF there = {} THEN {New("fip", None, 0, None, 0)} ELSE there
       IN  /\ oct' = oct \cup got
           /\ hand' = [hand EXCEPT !.st = @ \cup got, !.pc = "associate"]
    /\ UNCHANGED <<Others, ep, queue, broken, rules, alive, lost, troubles>>

(* Mutant: saved before it is associated.                                  *)
AssociateNever ==
    /\ hand.pc = "associate"
    /\ hand' = [hand EXCEPT !.pc = "save"]
    /\ UNCHANGED <<Others, ep, queue, oct, broken, rules, alive, lost, troubles>>

(* associate_pub_ip, and the status of the service.                        *)
Associate ==
    /\ hand.pc = "associate"
    /\ LET ids == Ids(Of("fip", hand.st))
           On(S) == {[x EXCEPT !.up = IF x.id \in ids THEN y.id ELSE @] :
                     x \in S, y \in LB(hand.st)}
       IN  /\ oct' = On(oct)
           /\ hand' = [hand EXCEPT !.st = On(@), !.pc = "save"]
    /\ UNCHANGED <<Others, ep, queue, broken, rules, alive, lost, troubles>>

Save ==
    /\ hand.pc = "save" /\ ep.live
    /\ PutEndpoints([ep EXCEPT !.state = hand.st])
    /\ lost' = lost \ (Ids(hand.st) \cap Ids(oct))
    /\ hand' = Idle
    /\ UNCHANGED <<Others, oct, broken, rules, alive, troubles>>

(* Mutant: nothing is rolled back.                                         *)
SaveNotFoundIgnored ==
    /\ hand.pc = "save" /\ ~ep.live
    /\ hand' = Idle
    /\ UNCHANGED <<Others, ep, queue, oct, broken, rules, alive, lost, troubles>>

(* The endpoints have been deleted: K8sResourceNotFound, roll back.        *)
SaveNotFound ==
    /\ hand.pc = "save" /\ ~ep.live
    /\ hand' = [hand EXCEPT !.pc = "release"]
    /\ UNCHANGED <<Others, ep, queue, oct, broken, rules, alive, lost, troubles>>

ReleaseLB ==
    /\ hand.pc = "release"
    /\ \E x \in LB(hand.st) :
          /\ oct' = Without({x.id}, oct)
          /\ rules' = RulesWithout(x.id)
          /\ broken' = broken \ {x.id}
          /\ hand' = [hand EXCEPT !.st = Of("fip", @)]
    /\ UNCHANGED <<Others, ep, queue, alive, lost, troubles>>

ReleaseIp ==
    /\ hand.pc = "release" /\ LB(hand.st) = {}
    /\ oct' = {x \in oct : x.id \notin Ids(hand.st)}
    /\ hand' = Idle
    /\ UNCHANGED <<Others, ep, queue, broken, rules, alive, lost, troubles>>

-----------------------------------------------------------------------------
(* A policy handler.  Which pods the policies select changes; the handler  *)
(* reads the endpoints' annotation, writes it back with the new groups,    *)
(* then applies them to the listeners the annotation named when read.      *)

UOthers == <<svc, svcQueue, writing, hand, oct, broken, cleanup, alive, lost, troubles>>

(* Without "policy_during_sync" no handler of the endpoints has read the   *)
(* groups it applies to listeners that the annotation does not name yet.   *)
Applied == {"members", "fip", "associate", "save"}

PolicyChanges ==
    /\ Change /\ update.pc = "idle"
    /\ "policy_during_sync" \in Races \/ hand.pc \notin Applied
    /\ policy' = ~policy
    /\ update' = [update EXCEPT !.pc = "read"]
    /\ UNCHANGED <<UOthers, ep, queue, rules>>

(* No annotation yet: ResourceNotReady, the policy is handled again.       *)
UpdateRead ==
    /\ update.pc = "read" /\ (ep.live /\ svc.live => ep.state # NoState)
    /\ update' = IF ep.live /\ svc.live
                 THEN [pc |-> "write", st |-> ep.state, left |-> {}] ELSE NoUpdate
    /\ UNCHANGED <<UOthers, ep, queue, rules, policy, changes>>

UpdateWrite ==
    /\ update.pc = "write"
    /\ IF ep.live
       THEN /\ PutEndpoints([ep EXCEPT !.state = update.st])
            /\ update' = [update EXCEPT !.pc = "ports", !.left = svc.ports]
       ELSE update' = NoUpdate /\ UNCHANGED <<ep, queue>>
    /\ UNCHANGED <<UOthers, rules, policy, changes>>

UpdatePort ==
    /\ update.pc = "ports"
    /\ \E p \in update.left :
          /\ \/ /\ \A l \in Of("listener", update.st) : l.port # p
                /\ UNCHANGED rules
             \/ \E l \in Of("listener", update.st) :
                   l.port = p /\ rules' = ApplyMembersSGs(rules, l.up, p, policy)
          /\ update' = IF update.left = {p} THEN NoUpdate
                       ELSE [update EXCEPT !.left = @ \ {p}]
    /\ UNCHANGED <<UOthers, ep, queue, policy, changes>>

-----------------------------------------------------------------------------
(* Restart of the controller, by kubelet when it is not healthy: the watch *)
(* tells what there is, _cleanup_leftover_lbaas lists what is in the way.  *)
(* A policy that is there is handled again; that one has been deleted is   *)
(* forgotten: the race "policy_deletion_lost".  A spec that has reached    *)
(* the endpoints and not the service may be taken for the one asked for    *)
(* when the service is changed back: the race "crash_between_annotations". *)
(* Floating IPs of endpoints deleted meanwhile are not looked for.         *)

Restart ==
    /\ \/ ~alive /\ UNCHANGED troubles
       \/ alive /\ Trouble
    /\ writing = None \/ "crash_between_annotations" \in Races
    /\ update.pc # "idle" /\ ep.state # NoState =>
       policy \/ "policy_deletion_lost" \in Races
    /\ alive' = TRUE /\ hand' = Idle /\ writing' = None
    /\ update' = IF policy THEN [NoUpdate EXCEPT !.pc = "read"] ELSE NoUpdate
    /\ queue' = IF ep.live THEN <<Snapshot("present", ep)>> ELSE <<>>
    /\ svcQueue' = IF svc.live THEN <<SvcSnapshot(svc)>> ELSE <<>>
    /\ cleanup' = {x.id : x \in {y \in LB(oct) : ~svc.live \/ y.ip # svc.ip}}
    /\ lost' = lost \cup Disagree \cup (IF ep.live THEN {} ELSE Ids(Of("fip", oct)))
    /\ UNCHANGED <<svc, ep, oct, broken, rules, policy, changes>>

CleanupRelease ==
    /\ \E id \in cleanup :
          /\ oct' = Without({id}, oct)
          /\ rules' = RulesWithout(id)
          /\ broken' = broken \ {id}
          /\ cleanup' = cleanup \ {id}
    /\ UNCHANGED <<svc, ep, svcQueue, queue, writing, hand, policy, update, alive, lost,
                   changes, troubles>>

-----------------------------------------------------------------------------
Environment ==
    \/ \E P \in PortSets : ChangePorts(P)
    \/ \E S \in SUBSET Pods : ChangePods(S)
    \/ \E ip \in IPs : ReplaceService(ip)
    \/ DeleteService
    \/ \E x \in LB(oct) : LBBreaks(x)
    \/ PolicyChanges
    \/ CallFails

SpecHandler == AnnotateEndpoints \/ AnnotateService
Down   == RemoveMember \/ RemovePool \/ RemoveListener \/ RemovalsDone
Up     == AddListener \/ ListenersDone \/ AddPool \/ PoolsDone \/ AddMember
          \/ MembersDone \/ ParentGone
Finish == AcquireIp \/ Associate \/ Save \/ SaveNotFound \/ ReleaseLB \/ ReleaseIp
Handler ==
    \/ NextEvent \/ GoneMeanwhile \/ Ignore \/ ServiceGone \/ StartSync \/ StartDeleted
    \/ Down \/ DropLB \/ KeepLB \/ EnsureLB \/ ReleaseBroken \/ Up \/ Finish
Updater == UpdateRead \/ UpdateWrite \/ UpdatePort

Next == Environment \/ DeleteEndpoints \/ SpecHandler \/ Handler \/ Updater \/ Restart
        \/ CleanupRelease

(* Green threads that can run do; the endpoints controller deletes the     *)
(* endpoints of a service that has gone; kubelet restarts an unhealthy     *)
(* controller.                                                             *)
Spec == /\ Init /\ [][Next]_vars
        /\ WF_vars(SpecHandler) /\ WF_vars(Handler) /\ WF_vars(Updater)
        /\ WF_vars(DeleteEndpoints) /\ WF_vars(CleanupRelease)
        /\ WF_vars(~alive /\ Restart)

-----------------------------------------------------------------------------
(* Properties.                                                             *)

Settled == /\ queue = <<>> /\ svcQueue = <<>> /\ writing = None /\ hand.pc = "idle"
           /\ (update.pc = "idle" \/ (update.pc = "read" /\ ep.state = NoState /\ ep.live))
           /\ cleanup = {} /\ alive /\ broken = {}

Kept == {x \in oct : x.id \notin lost}
PortsOf(S) == {l.port : l \in Of("listener", S)}

(* Every port asked for has a listener, unless its number is taken.        *)
Serves(S, ports) ==
    /\ PortsOf(S) \subseteq ports
    /\ \A p \in ports : p \in PortsOf(S) \/ (~DoubleListeners /\ Clash[p] \cap PortsOf(S) # {})

(* When nothing is left to do, the annotation names exactly what exists in *)
(* Octavia, and that is what the service and its pods ask for - but for    *)
(* what an attempt left when it ended without saving (lbaas.py:207-216).   *)
SettledInSync ==
    Settled /\ ep.live /\ svc.live /\ ep.pods # {} =>
    /\ Ids(ep.state) \ lost = Ids(Kept)
    /\ Ids(ep.state) \cap lost = {} =>
       /\ {x.ip : x \in LB(Kept)} = {svc.ip}
       /\ Serves(Kept, svc.ports)
       /\ \A l \in Of("listener", Kept) : \E p \in Of("pool", Kept) :
             p.up = l.id /\ {m.pod : m \in {y \in Of("member", Kept) : y.up = p.id}} = ep.pods

(* The endpoints have gone: what their annotation named has gone too, even *)
(* when they are deleted while the handler is building.                    *)
NothingLeft == Settled /\ ~ep.live => Kept = {}

(* The VIP lets in what the policies allow, and everything without them.   *)
RulesFollowPolicy ==
    Settled /\ ep.live /\ svc.live =>
    \A l \in Of("listener", Kept) : RulesOf(l.up, l.port) = RulesFor(l.up, l.port, policy)

(* A floating IP of a service that is set up leads to its load balancer.   *)
PublicIpAttached ==
    Settled /\ ep.live /\ svc.live /\ ep.pods # {} =>
    \A f \in Of("fip", Kept) : f.up \in Ids(LB(Kept))

(* Work comes to an end whatever fails along the way.                      *)
EventuallySettled == []<>Settled
=============================================================================

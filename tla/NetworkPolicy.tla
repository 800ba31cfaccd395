---------------------------- MODULE NetworkPolicy ---------------------------
(***************************************************************************)
(* Network policies as Neutron security groups.                            *)
(*                                                                         *)
(* NetworkPolicyHandler (controller/handlers/policy.py) gives each policy  *)
(* a security group, parses it into rules, and records group and rules in  *)
(* a KuryrNetPolicy (here crd).  Pods that come, go or are relabelled      *)
(* (handlers/vif.py, handlers/pod_label.py) and namespaces that are        *)
(* relabelled or go (handlers/kuryrnetwork.py) edit the recorded rules:    *)
(* each reads the record, changes Neutron, and writes the record back      *)
(* whole, without a version.                                               *)
(*                                                                         *)
(* The threads are those of the event pipeline: one for each policy, pod   *)
(* and namespace.  A handler takes its object as it is when it starts.     *)
(* One direction is modelled, ingress: egress is handled in the same way.  *)
(***************************************************************************)
EXTENDS Naturals, Sequences, FiniteSets

CONSTANTS
    Policies,     \* network policies, all of one namespace
    Home,         \* that namespace
    Spaces,       \* namespaces
    Pods,
    SpaceOf,      \* SpaceOf[p]: the namespace of pod p
    Labels,       \* what a pod or a namespace may be labelled with
    Specs,        \* specifications a policy may have
    Groups,       \* ids of security groups, numbers
    Default,      \* the group of pods that no policy selects
    World,        \* the source of a rule without remote_ip_prefix
    Any,          \* the selector {}
    None,
    Races,        \* timings of the environment that are let in
    MaxChanges,   \* how often users change pods, labels and policies
    MaxTroubles   \* how many calls fail and restarts happen

Threads == Policies \cup Pods \cup Spaces

ASSUME NetworkPolicyAssumption ==
    /\ Home \in Spaces /\ SpaceOf \in [Pods -> Spaces]
    /\ Groups \subseteq Nat /\ Default \notin Groups
    /\ None \notin Groups \cup {Default} /\ None # "delete"
    /\ {Any, None} \cap (Labels \cup Pods \cup Spaces) = {}
    /\ World \notin Pods \cup Spaces
    /\ Policies \cap (Pods \cup Spaces) = {} /\ Pods \cap Spaces = {}

VARIABLES
    pod,      \* st, label, noted (its label annotation), groups of its port
    space,    \* st, label, noted (nsLabels in the status of its KuryrNetwork)
    np,       \* the policies: live, spec, and the event to handle
    crd,      \* crd[n]: NoCrd, or group, selector, spec and rules recorded
    groups,   \* security groups that exist in Neutron
    rules,    \* <<group, source>>: rules that exist in Neutron
    work,     \* what each thread is doing, and has read
    alive,    \* no handler has reported itself unhealthy
    changes, troubles

vars == <<pod, space, np, crd, groups, rules, work, alive, changes, troubles>>

-----------------------------------------------------------------------------
(* Data.  A recorded rule names its source - a pod's address, a            *)
(* namespace's subnet, or none - and the namespace it is there for.        *)

Rule   == [cidr : Pods \cup Spaces \cup {World}, ns : Spaces \cup {None}]
Peer   == [ns : Labels \cup {Any, None}, pod : Labels \cup {Any}]
NoSpec == [sel |-> Any, peers |-> {}]
NoCrd  == [sg |-> None, spec |-> NoSpec, rules |-> {}]
Idle   == [pc |-> "idle", todo |-> <<>>, seen |-> [n \in Policies |-> NoCrd], left |-> {},
           at |-> None, label |-> None, spec |-> NoSpec, sg |-> None, rules |-> {}]

Recorded == {n \in Policies : crd[n] # NoCrd}
Sources(R) == {r.cidr : r \in R}

Init ==
    /\ \E ls \in [Pods -> Labels], up \in SUBSET Pods :
           pod = [p \in Pods |-> [st |-> IF p \in up THEN "running" ELSE "out", leaving |-> FALSE,
                                  label |-> ls[p], noted |-> ls[p],
                                  groups |-> IF p \in up THEN {Default} ELSE {}]]
    /\ \E ls \in [Spaces -> Labels] :
           space = [s \in Spaces |-> [st |-> "there", label |-> ls[s], noted |-> ls[s]]]
    /\ np = [n \in Policies |-> [live |-> FALSE, spec |-> NoSpec, ev |-> "none"]]
    /\ crd = [n \in Policies |-> NoCrd] /\ groups = {} /\ rules = {}
    /\ work = [t \in Threads |-> Idle] /\ alive = TRUE /\ changes = 0 /\ troubles = 0

Trouble == troubles < MaxTroubles /\ troubles' = troubles + 1
Change  == changes < MaxChanges /\ changes' = changes + 1

Is(t, pc) == work[t].pc = pc
Goes(t, pc) == work' = [work EXCEPT ![t].pc = pc]
Ends(t) == work' = [work EXCEPT ![t] = Idle]
Ready(t) == work[t].pc \in {"idle", "failed"}

(* Nothing keeps a thread from reading the records while another one has   *)
(* yet to write what it has read: the race "lost_update".                  *)
Editing(t) == work[t].pc \in {"edit", "patch", "rules", "post", "delete", "create", "store"}
EditsAlone == "lost_update" \in Races \/ \A t \in Threads : ~Editing(t)

(* A pod's groups are looked up, then given to its port and the port to    *)
(* the pod, while a new or a deleted policy goes through the pods that     *)
(* have a port: the race "late_groups".                                    *)
GroupsAlone(T) == \/ "late_groups" \in Races
                  \/ \A t \in T : work[t].pc \notin {"annotate", "put", "pods"}

-----------------------------------------------------------------------------
(* Selectors (match_selector, get_pods, get_namespaces).                   *)

Matches(sel, label) == sel \in {Any, label}

PeerSpaces(peer) ==
    CASE peer.ns = Any  -> Spaces
      [] peer.ns = None -> {Home}
      [] OTHER          -> {s \in Spaces : space[s].st # "gone" /\ space[s].label = peer.ns}

(* _get_pods keeps the pods of the last of the namespaces that match.      *)
PodSpaces(peer) ==
    LET S == PeerSpaces(peer) IN
    IF peer.ns \in Labels /\ S # {} THEN {CHOOSE s \in S : TRUE} ELSE S

(* parse_network_policy_rules: pods have an address once kubelet has       *)
(* reported it (status.podIP).                                             *)
OfPeer(peer) ==
    IF peer.pod = Any
    THEN IF peer.ns = Any THEN {[cidr |-> World, ns |-> None]}
         ELSE {[cidr |-> s, ns |-> s] : s \in PeerSpaces(peer)}
    ELSE {[cidr |-> p, ns |-> SpaceOf[p]] :
          p \in {q \in Pods : /\ pod[q].st = "running" /\ ~pod[q].leaving
                              /\ SpaceOf[q] \in PodSpaces(peer)
                              /\ Matches(peer.pod, pod[q].label)}}
Parse(spec) == UNION {OfPeer(peer) : peer \in spec.peers}

(* Mutant: any peer that matches the pod's labels counts, of whatever      *)
(* namespace.                                                              *)
OnPodAnywhere(spec, p, label) ==
    {[cidr |-> p, ns |-> SpaceOf[p]] :
     peer \in {x \in spec.peers : x.pod # Any /\ Matches(x.pod, label)}}

(* _parse_rules for a pod, whose address is in its annotation.             *)
OnPod(spec, p, label) ==
    {[cidr |-> p, ns |-> IF peer.ns = Any THEN None ELSE SpaceOf[p]] :
     peer \in {x \in spec.peers : /\ x.pod # Any /\ Matches(x.pod, label)
                                  /\ SpaceOf[p] \in PeerSpaces(x)}}

(* _parse_rules for a namespace.                                           *)
OnSpace(spec, s) ==
    LET its == {x \in spec.peers : x.ns \in Labels /\ x.ns = space[s].label} IN
    {[cidr |-> s, ns |-> s] : x \in {y \in its : y.pod = Any}}
    \cup {[cidr |-> p, ns |-> s] : p \in {q \in Pods :
            /\ SpaceOf[q] = s /\ pod[q].st \in {"vif", "active", "running"} /\ ~pod[q].leaving
            /\ \E x \in its : x.pod # Any /\ Matches(x.pod, pod[q].label)}}

(* _get_pod_sgs: the groups of the policies that select the pod.           *)
GroupsFor(p, label) ==
    LET its == {crd[n].sg : n \in {m \in Recorded : /\ SpaceOf[p] = Home
                                                    /\ Matches(crd[m].spec.sel, label)}}
    IN  IF its = {} THEN {Default} ELSE its

-----------------------------------------------------------------------------
(* Users and kubelet.                                                      *)

(* A rule for the policy's own namespace, or for pods of any, is taken     *)
(* away when that namespace is relabelled, and not put back: the race      *)
(* "own_space_relabelled".  Of several namespaces that match, the pods of  *)
(* one are kept: the race "several_spaces".                                *)
Allows(spec, label, noted) ==
    /\ \/ "own_space_relabelled" \in Races
       \/ label = noted /\ \A s \in Spaces : work[s].label \in {None, label[s]}
       \/ \A x \in spec.peers : x.ns \in Labels
    /\ \/ "several_spaces" \in Races
       \/ \A x \in spec.peers : x.ns \in Labels /\ x.pod # Any =>
             Cardinality({s \in Spaces : label[s] = x.ns}) <= 1
(* A handler has a record to edit, or groups to set, and a group of them   *)
(* is gone: it will fail for good, and changes that come before it does    *)
(* are not taken up if they take the labels back to those noted, the race  *)
(* "group_gone".                                                           *)
Doomed(t) ==
    \/ /\ work[t].pc \in {"edit", "patch"}
       /\ \E n \in work[t].left : work[t].seen[n].sg \notin groups
    \/ t \in Pods /\ Is(t, "put") /\ ~(work[t].left \subseteq groups \cup {Default})

(* A rule that a failing handler has added to Neutron is recorded when it  *)
(* is tried again - unless what it is there for changes before: the race   *)
(* "unrecorded".                                                           *)
MayChange(c) ==
    /\ "group_gone" \in Races \/ ~Doomed(c)
    /\ \/ "unrecorded" \in Races \/ troubles = 0
       \/ \A r \in rules : r[2] = c =>
             \E n \in Recorded : crd[n].sg = r[1] /\ c \in Sources(crd[n].rules)

(* The selector of a policy has changed, the pods of the one before being  *)
(* still to be updated: nothing remembers them if this fails, the race     *)
(* "selector_forgotten".                                                   *)
NewSelector(n) ==
    /\ "selector_forgotten" \notin Races
    /\ work[n].seen[n] # NoCrd /\ work[n].seen[n].spec.sel # work[n].spec.sel

(* What no later event takes up: the rules that a pod's activation has     *)
(* still to add, the vif being active now, and the rules of labels that    *)
(* have been reverted meanwhile to those noted last.  The race "forgotten" *)
(* lets handlers stop there.                                               *)
Forgettable(t) ==
    /\ "forgotten" \notin Races
    /\ \/ t \in Pods /\ work[t].todo # <<>> /\ work[t].todo[1] = "add" /\ Len(work[t].todo) # 2
       \/ t \in Pods /\ work[t].todo # <<>> /\ pod[t].label = pod[t].noted /\ ~pod[t].leaving
       \/ t \in Spaces /\ work[t].todo # <<>> /\ space[t].label = space[t].noted
                       /\ space[t].st = "there"

(* A policy's group goes before its record does.  Who reads the record in  *)
(* between, or has read it, fails for good at the group: the race          *)
(* "group_gone", if what it then leaves undone is not taken up later.      *)
GroupsThere == "group_gone" \in Races \/ \A n \in Recorded : crd[n].sg \in groups
MayDeleteGroup(n) ==
    \/ "group_gone" \in Races \/ work[n].sg \notin groups
    \/ \A t \in Threads :
          /\ ~Forgettable(t)
          /\ t \in Policies /\ work[t].pc \in {"list", "pods"} => ~NewSelector(t)

LabelsOf == [s \in Spaces |-> space[s].label]
NotedOf  == [s \in Spaces |-> space[s].noted]

(* Each event is handled by itself: labels change again once the change    *)
(* before has been taken up, by a handler that is at work or has ended.    *)
TakenUp(t, noted) == IF work[t].label = None THEN noted ELSE work[t].label

CreatePod(p, l) ==
    /\ Change /\ pod[p].st = "out" /\ Is(p, "idle") /\ space[SpaceOf[p]].st = "there"
    /\ \A n \in Policies, m \in Labels : <<p, m>> \notin work[n].left
    /\ pod' = [pod EXCEPT ![p] = [st |-> "new", leaving |-> FALSE, label |-> l, noted |-> l,
                                  groups |-> {}]]
    /\ UNCHANGED <<space, np, crd, groups, rules, work, alive, troubles>>

RelabelPod(p, l) ==
    /\ Change /\ pod[p].st # "out" /\ ~pod[p].leaving /\ l # pod[p].label /\ MayChange(p)
    /\ pod[p].label = TakenUp(p, pod[p].noted)
    /\ pod' = [pod EXCEPT ![p].label = l]
    /\ UNCHANGED <<space, np, crd, groups, rules, work, alive, troubles>>

DeletePod(p) ==
    /\ Change /\ pod[p].st # "out" /\ ~pod[p].leaving /\ MayChange(p)
    /\ \A n \in Policies, l \in Labels : <<p, l>> \in work[n].left => ~NewSelector(n)
    /\ pod' = [pod EXCEPT ![p].leaving = TRUE]
    /\ UNCHANGED <<space, np, crd, groups, rules, work, alive, troubles>>

(* The CNI has wired the pod: kubelet reports its address.                 *)
PodRuns(p) ==
    /\ pod[p].st = "active"
    /\ pod' = [pod EXCEPT ![p].st = "running"]
    /\ UNCHANGED <<space, np, crd, groups, rules, work, alive, changes, troubles>>

RelabelSpace(s, l) ==
    /\ Change /\ space[s].st = "there" /\ l # space[s].label /\ MayChange(s)
    /\ space[s].label = TakenUp(s, space[s].noted)
    /\ \A n \in Policies :
          /\ np[n].live => Allows(np[n].spec, [LabelsOf EXCEPT ![s] = l], NotedOf)
          /\ n \in Recorded => Allows(crd[n].spec, [LabelsOf EXCEPT ![s] = l], NotedOf)
    /\ space' = [space EXCEPT ![s].label = l]
    /\ UNCHANGED <<pod, np, crd, groups, rules, work, alive, troubles>>

(* Kubernetes deletes the pods of a namespace first.                       *)
DeleteSpace(s) ==
    /\ Change /\ space[s].st = "there" /\ s # Home /\ MayChange(s)
    /\ \A p \in Pods : SpaceOf[p] = s => pod[p].st = "out" /\ Is(p, "idle")
    /\ space' = [space EXCEPT ![s].st = "leaving"]
    /\ UNCHANGED <<pod, np, crd, groups, rules, work, alive, troubles>>

PutPolicy(n, spec) ==
    /\ Change /\ (np[n].live => spec # np[n].spec) /\ np[n].ev # "deleted"
    /\ np[n].live \/ (crd[n] = NoCrd /\ Is(n, "idle"))
    /\ Allows(spec, LabelsOf, NotedOf)
    /\ \A s \in Pods \cup Spaces : MayChange(s)
    /\ np' = [np EXCEPT ![n] = [live |-> TRUE, spec |-> spec, ev |-> "present"]]
    /\ UNCHANGED <<pod, space, crd, groups, rules, work, alive, troubles>>

(* A deletion takes the group off the pods that the policy selected last.  *)
(* If an update before it has not been handled, or one before that is      *)
(* still being handled, other pods keep the group: the race                *)
(* "updated_then_deleted".                                                 *)
DeletePolicy(n) ==
    /\ Change /\ np[n].live
    /\ \/ "updated_then_deleted" \in Races
       \/ /\ crd[n] # NoCrd => crd[n].spec.sel = np[n].spec.sel
          /\ work[n].pc \notin {"idle", "failed", "again"} =>
                work[n].spec.sel = np[n].spec.sel
    /\ np' = [np EXCEPT ![n].live = FALSE, ![n].ev = "deleted"]
    /\ UNCHANGED <<pod, space, crd, groups, rules, work, alive, troubles>>

-----------------------------------------------------------------------------
(* Editing the records, in the threads of pods and namespaces: the phases  *)
(* in todo, one after the other, over the records listed at its start.     *)

Does(t, phases) == work' = [work EXCEPT ![t].pc = "next", ![t].todo = phases]

(* The rules a phase takes from a record, and those it adds.               *)
Taken(t, n) ==
    IF Head(work[t].todo) # "drop" THEN {}
    ELSE IF t \in Pods THEN {r \in work[t].seen[n].rules : r.cidr = t}
                       ELSE {r \in work[t].seen[n].rules : r.ns = t}
Given(t, n) ==
    LET spec == work[t].seen[n].spec IN
    IF Head(work[t].todo) # "add" THEN {}
    ELSE IF t \in Pods THEN OnPod(spec, t, work[t].label) ELSE OnSpace(spec, t)

ListRecords(t) ==
    /\ Is(t, "next") /\ work[t].todo # <<>> /\ Head(work[t].todo) \in {"drop", "add"}
    /\ EditsAlone /\ GroupsThere
    /\ work' = [work EXCEPT ![t].pc = "edit", ![t].seen = crd, ![t].left = Recorded]
    /\ UNCHANGED <<pod, space, np, crd, groups, rules, alive, changes, troubles>>

(* Neutron knows a rule by its address; adding one to a group that is gone *)
(* fails for good.                                                         *)
EditRules(t, n) ==
    LET its == work[t].seen[n]
        kept == (its.rules \ Taken(t, n)) \cup Given(t, n) IN
    /\ Is(t, "edit") /\ n \in work[t].left
    /\ Given(t, n) = {} \/ its.sg \in groups
    /\ rules' = (rules \ {<<its.sg, c>> : c \in Sources(Taken(t, n))})
                \cup {<<its.sg, c>> : c \in Sources(Given(t, n))}
    /\ work' = IF Taken(t, n) \cup Given(t, n) = {}
               THEN [work EXCEPT ![t].left = @ \ {n}]
               ELSE [work EXCEPT ![t].left = @ \ {n}, ![t].seen[n].rules = kept,
                                 ![t].pc = "patch", ![t].at = n]
    /\ UNCHANGED <<pod, space, np, crd, groups, alive, changes, troubles>>

(* The whole specification is written, of the policy too; a record that    *)
(* has gone is passed over.                                                *)
PatchCrd(t) ==
    LET n == work[t].at IN
    /\ Is(t, "patch")
    /\ crd' = IF crd[n] = NoCrd THEN crd
              ELSE [crd EXCEPT ![n].spec = work[t].seen[n].spec,
                               ![n].rules = work[t].seen[n].rules]
    /\ Goes(t, "edit")
    /\ UNCHANGED <<pod, space, np, groups, rules, alive, changes, troubles>>

EndPhase(t) ==
    /\ Is(t, "edit") /\ work[t].left = {}
    /\ work' = [work EXCEPT ![t].pc = "next", ![t].todo = Tail(@)]
    /\ UNCHANGED <<pod, space, np, crd, groups, rules, alive, changes, troubles>>

Last(t, phase) == Is(t, "next") /\ work[t].todo = <<phase>>

-----------------------------------------------------------------------------
(* Pods (VIFHandler and PodLabelHandler).                                  *)

(* A group that its policy has lost already makes the creation fail.       *)
RequestVif(p) ==
    LET its == GroupsFor(p, pod[p].label) IN
    /\ Ready(p) /\ pod[p].st = "new" /\ ~pod[p].leaving
    /\ GroupsAlone(Policies)
    /\ its \subseteq groups \cup {Default}
    /\ work' = [work EXCEPT ![p] = [Idle EXCEPT !.pc = "annotate", !.label = pod[p].label]]
    /\ pod' = [pod EXCEPT ![p].groups = its]
    /\ UNCHANGED <<space, np, crd, groups, rules, alive, changes, troubles>>

AnnotateVif(p) ==
    /\ Is(p, "annotate") /\ Ends(p)
    /\ pod' = IF pod[p].leaving THEN [pod EXCEPT ![p].groups = {}]
              ELSE [pod EXCEPT ![p].st = "vif", ![p].noted = work[p].label]
    /\ UNCHANGED <<space, np, crd, groups, rules, alive, changes, troubles>>

(* The activation writes the labels too; PodLabelHandler, next with the    *)
(* same event, still sees the ones noted before.                           *)
ActivateVif(p) ==
    /\ Ready(p) /\ pod[p].st = "vif" /\ ~pod[p].leaving
    /\ pod' = [pod EXCEPT ![p].st = "active", ![p].noted = pod[p].label]
    /\ work' = [work EXCEPT ![p] = [Idle EXCEPT !.pc = "next", !.label = pod[p].label,
            !.todo = IF pod[p].label = pod[p].noted THEN <<"add">>
                     ELSE <<"add", "drop", "add", "put">>]]
    /\ UNCHANGED <<space, np, crd, groups, rules, alive, changes, troubles>>

Relabelled(p) ==
    /\ Ready(p) /\ pod[p].st \in {"active", "running"} /\ ~pod[p].leaving
    /\ pod[p].label # pod[p].noted
    /\ work' = [work EXCEPT ![p] = [Idle EXCEPT !.pc = "next", !.label = pod[p].label,
                                                !.todo = <<"drop", "add", "put">>]]
    /\ UNCHANGED <<pod, space, np, crd, groups, rules, alive, changes, troubles>>

LookUpGroups(p) ==
    /\ p \in Pods /\ Last(p, "put") /\ GroupsAlone(Policies) /\ GroupsThere
    /\ work' = [work EXCEPT ![p].pc = "put", ![p].left = GroupsFor(p, work[p].label)]
    /\ UNCHANGED <<pod, space, np, crd, groups, rules, alive, changes, troubles>>

PutGroups(p) ==
    /\ Is(p, "put") /\ work[p].left \subseteq groups \cup {Default}
    /\ pod' = [pod EXCEPT ![p].groups = work[p].left, ![p].noted = work[p].label]
    /\ Ends(p)
    /\ UNCHANGED <<space, np, crd, groups, rules, alive, changes, troubles>>

PodDeleted(p) ==
    /\ Ready(p) /\ pod[p].leaving
    /\ IF pod[p].st = "new"
       THEN pod' = [pod EXCEPT ![p].st = "out", ![p].leaving = FALSE] /\ Ends(p)
       ELSE Does(p, <<"drop", "out">>) /\ UNCHANGED pod
    /\ UNCHANGED <<space, np, crd, groups, rules, alive, changes, troubles>>

ReleaseVif(p) ==
    /\ Last(p, "out") /\ Ends(p)
    /\ pod' = [pod EXCEPT ![p].st = "out", ![p].leaving = FALSE, ![p].groups = {}]
    /\ UNCHANGED <<space, np, crd, groups, rules, alive, changes, troubles>>

(* The phases of a handler end with its last event.                        *)
PodDone(p) ==
    /\ p \in Pods /\ Is(p, "next") /\ work[p].todo = <<>> /\ Ends(p)
    /\ UNCHANGED <<pod, space, np, crd, groups, rules, alive, changes, troubles>>

-----------------------------------------------------------------------------
(* Namespaces (KuryrNetworkHandler).                                       *)

SpaceRelabelled(s) ==
    /\ Ready(s) /\ space[s].st = "there" /\ space[s].label # space[s].noted
    /\ work' = [work EXCEPT ![s] = [Idle EXCEPT !.pc = "next", !.label = space[s].label,
                                                !.todo = <<"drop", "add", "note">>]]
    /\ UNCHANGED <<pod, space, np, crd, groups, rules, alive, changes, troubles>>

NoteLabels(s) ==
    /\ Last(s, "note") /\ Ends(s)
    /\ space' = [space EXCEPT ![s].noted = work[s].label]
    /\ UNCHANGED <<pod, np, crd, groups, rules, alive, changes, troubles>>

SpaceDeleted(s) ==
    /\ Ready(s) /\ space[s].st = "leaving"
    /\ Does(s, <<"drop", "gone">>)
    /\ UNCHANGED <<pod, space, np, crd, groups, rules, alive, changes, troubles>>

RemoveFinalizer(s) ==
    /\ Last(s, "gone") /\ Ends(s)
    /\ space' = [space EXCEPT ![s].st = "gone"]
    /\ UNCHANGED <<pod, np, crd, groups, rules, alive, changes, troubles>>

-----------------------------------------------------------------------------
(* Policies (NetworkPolicyHandler, NetworkPolicyDriver).                   *)

(* A pod that has no address yet, or that kubelet has not reported, is     *)
(* left out of the rules.  "ip_later": it is not added afterwards, if it   *)
(* had its turn before.  "terminating": a namespace that is on its way out *)
(* is still listed.                                                        *)
MayParse ==
    /\ EditsAlone
    /\ "ip_later" \in Races \/ \A p \in Pods : pod[p].st # "active"
    /\ "terminating" \in Races \/ \A s \in Spaces : space[s].st # "leaving"

(* A retry is of the same event, with the policy as it was, and is given   *)
(* up if the policy has gone.                                              *)
Handles(n) == /\ np[n].live
              /\ Is(n, "again") \/ (Ready(n) /\ np[n].ev = "present")
ItsSpec(n) == IF Is(n, "again") THEN work[n].spec ELSE np[n].spec

NoNeed(n) ==
    /\ Is(n, "again") /\ ~np[n].live /\ Ends(n)
    /\ UNCHANGED <<pod, space, np, crd, groups, rules, alive, changes, troubles>>

(* An id that nothing still refers to: Neutron never gives one twice.      *)
Referred ==
    groups \cup {crd[n].sg : n \in Policies} \cup {work[t].sg : t \in Threads}
    \cup {work[t].seen[n].sg : t \in Threads, n \in Policies}
    \cup UNION {pod[p].groups \cup (IF Is(p, "put") THEN work[p].left ELSE {}) : p \in Pods}

CreateGroup(n) ==
    /\ Handles(n) /\ crd[n] = NoCrd
    /\ Groups \ Referred # {}
    /\ LET g == CHOOSE x \in Groups \ Referred : TRUE IN
       /\ groups' = groups \cup {g}
       /\ work' = [work EXCEPT ![n] = [Idle EXCEPT !.pc = "sg", !.sg = g, !.spec = ItsSpec(n)]]
    /\ UNCHANGED <<pod, space, np, crd, rules, alive, changes, troubles>>

ParsePolicy(n) ==
    /\ Is(n, "sg") /\ MayParse
    /\ work' = [work EXCEPT ![n].pc = "rules", ![n].rules = Parse(work[n].spec)]
    /\ UNCHANGED <<pod, space, np, crd, groups, rules, alive, changes, troubles>>

CreateRules(n) ==
    /\ \/ Is(n, "rules") /\ Goes(n, "post")
       \/ Is(n, "create") /\ Goes(n, "store")
    /\ rules' = rules \cup {<<work[n].sg, c>> : c \in Sources(work[n].rules)}
    /\ UNCHANGED <<pod, space, np, crd, groups, alive, changes, troubles>>

PostCrd(n) ==
    /\ Is(n, "post") /\ Goes(n, "list")
    /\ crd' = [crd EXCEPT ![n] = [sg |-> work[n].sg, spec |-> work[n].spec,
                                  rules |-> work[n].rules]]
    /\ UNCHANGED <<pod, space, np, groups, rules, alive, changes, troubles>>

ReadCrd(n) ==
    /\ Handles(n) /\ crd[n] # NoCrd
    /\ MayParse
    /\ work' = [work EXCEPT ![n] = [Idle EXCEPT !.pc = "delete", !.sg = crd[n].sg, !.seen = crd,
                                                !.spec = ItsSpec(n), !.rules = Parse(ItsSpec(n))]]
    /\ UNCHANGED <<pod, space, np, crd, groups, rules, alive, changes, troubles>>

(* The rules that are to be kept get their id back, which makes them       *)
(* different from the parsed ones: all the recorded rules are deleted, and *)
(* all the parsed ones are created.                                        *)
DeleteRules(n) ==
    /\ Is(n, "delete") /\ Goes(n, "create")
    /\ rules' = rules \ {<<work[n].sg, c>> : c \in Sources(work[n].seen[n].rules)}
    /\ UNCHANGED <<pod, space, np, crd, groups, alive, changes, troubles>>

(* Mutant: the record keeps the rules it had.                              *)
StoreRulesNot(n) ==
    /\ Is(n, "store") /\ Goes(n, "list")
    /\ crd' = [crd EXCEPT ![n].spec = work[n].spec]
    /\ UNCHANGED <<pod, space, np, groups, rules, alive, changes, troubles>>

StoreRules(n) ==
    /\ Is(n, "store") /\ Goes(n, "list")
    /\ crd' = [crd EXCEPT ![n].spec = work[n].spec, ![n].rules = work[n].rules]
    /\ UNCHANGED <<pod, space, np, groups, rules, alive, changes, troubles>>

(* The pods of the previous selector, if it changed, and of the present    *)
(* one: those that have a port, with their labels.                         *)
Selected(sel) ==
    {<<p, pod[p].label>> : p \in {q \in Pods :
        /\ SpaceOf[q] = Home /\ pod[q].st \in {"vif", "active", "running"} /\ ~pod[q].leaving
        /\ Matches(sel, pod[q].label)}}

(* Mutant: pods that the previous selector alone matched are not listed.   *)
ListPodsNow(n) ==
    /\ Is(n, "list") /\ GroupsAlone(Pods) /\ GroupsThere
    /\ work' = [work EXCEPT ![n].pc = "pods", ![n].left = Selected(work[n].spec.sel)]
    /\ UNCHANGED <<pod, space, np, crd, groups, rules, alive, changes, troubles>>

ListPods(n) ==
    /\ Is(n, "list") /\ GroupsAlone(Pods) /\ GroupsThere
    /\ LET old == work[n].seen[n] IN
       work' = [work EXCEPT ![n].pc = "pods", ![n].left = Selected(work[n].spec.sel)
                    \cup IF old = NoCrd \/ old.spec.sel = work[n].spec.sel THEN {}
                         ELSE Selected(old.spec.sel)]
    /\ UNCHANGED <<pod, space, np, crd, groups, rules, alive, changes, troubles>>

(* Mutant: on_present leaves the group of its policy out as well.          *)
NewGroupsOthers(n, p, l) ==
    LET its == GroupsFor(p, l) \ {work[n].sg} IN IF its = {} THEN {Default} ELSE its

(* on_deleted leaves the group of its policy out.                          *)
NewGroups(n, p, l) ==
    LET its == IF work[n].at = "delete" THEN GroupsFor(p, l) \ {work[n].sg} ELSE GroupsFor(p, l)
    IN  IF its = {} THEN {Default} ELSE its

Updatable(n, p, l) == /\ pod[p].st \in {"vif", "active", "running"}
                      /\ NewGroups(n, p, l) \subseteq groups \cup {Default}

UpdatePod(n, p, l) ==
    /\ Is(n, "pods") /\ <<p, l>> \in work[n].left /\ Updatable(n, p, l)
    /\ pod' = [pod EXCEPT ![p].groups = NewGroups(n, p, l)]
    /\ work' = [work EXCEPT ![n].left = @ \ {<<p, l>>}]
    /\ UNCHANGED <<space, np, crd, groups, rules, alive, changes, troubles>>

Updated(n) ==
    /\ Is(n, "pods") /\ work[n].left = {}
    /\ IF work[n].at = "delete" THEN Goes(n, "unuse") /\ UNCHANGED np
       ELSE Ends(n) /\ np' = [np EXCEPT ![n].ev = IF np[n].spec = work[n].spec /\ np[n].live
                                                  THEN "none" ELSE @]
    /\ UNCHANGED <<pod, space, crd, groups, rules, alive, changes, troubles>>

(* Mutant: the group is deleted without being taken off the pods first.    *)
PolicyDeletedAtOnce(n) ==
    /\ Ready(n) /\ np[n].ev = "deleted" /\ GroupsAlone(Pods)
    /\ IF crd[n] = NoCrd
       THEN np' = [np EXCEPT ![n].ev = "none"] /\ UNCHANGED work
       ELSE /\ work' = [work EXCEPT ![n] = [Idle EXCEPT !.pc = "unuse", !.at = "delete",
                            !.sg = crd[n].sg]]
            /\ UNCHANGED np
    /\ UNCHANGED <<pod, space, crd, groups, rules, alive, changes, troubles>>

PolicyDeleted(n) ==
    /\ Ready(n) /\ np[n].ev = "deleted" /\ GroupsAlone(Pods)
    /\ IF crd[n] = NoCrd
       THEN np' = [np EXCEPT ![n].ev = "none"] /\ UNCHANGED work
       ELSE /\ work' = [work EXCEPT ![n] = [Idle EXCEPT !.pc = "pods", !.at = "delete",
                            !.sg = crd[n].sg, !.left = Selected(np[n].spec.sel)]]
            /\ UNCHANGED np
    /\ UNCHANGED <<pod, space, crd, groups, rules, alive, changes, troubles>>

(* A group that a port still has cannot be deleted: the whole deletion is  *)
(* tried again.                                                            *)
DeleteGroup(n) ==
    /\ Is(n, "unuse") /\ MayDeleteGroup(n)
    /\ IF \E p \in Pods : work[n].sg \in pod[p].groups
       THEN Ends(n) /\ UNCHANGED <<groups, rules>>
       ELSE /\ Goes(n, "uncrd")
            /\ groups' = groups \ {work[n].sg}
            /\ rules' = {r \in rules : r[1] # work[n].sg}
    /\ UNCHANGED <<pod, space, np, crd, alive, changes, troubles>>

DeleteCrd(n) ==
    /\ Is(n, "uncrd") /\ Ends(n)
    /\ crd' = [crd EXCEPT ![n] = NoCrd] /\ np' = [np EXCEPT ![n].ev = "none"]
    /\ UNCHANGED <<pod, space, groups, rules, alive, changes, troubles>>

-----------------------------------------------------------------------------
(* Failures.                                                               *)

(* Retry calls the handler again with the same event; a pod's event is     *)
(* first VIFHandler's, then PodLabelHandler's.                             *)
Again(t) ==
    CASE t \in Pods /\ work[t].todo # <<>> /\ Head(work[t].todo) = "add" /\ Len(work[t].todo) # 2 ->
             [work[t] EXCEPT !.pc = "next", !.left = {}]
      [] t \in Pods /\ Len(work[t].todo) \in 1..3 /\ work[t].todo[Len(work[t].todo)] = "put" ->
             [work[t] EXCEPT !.pc = "next", !.left = {}, !.todo = <<"drop", "add", "put">>]
      [] t \in Spaces /\ space[t].st = "there" ->
             [work[t] EXCEPT !.pc = "next", !.left = {}, !.todo = <<"drop", "add", "note">>]
      [] t \in Policies /\ work[t].at # "delete" -> [Idle EXCEPT !.pc = "again", !.spec = work[t].spec]
      [] OTHER -> Idle

(* A handler stops between adding rules and recording them, and what the   *)
(* rules are there for, or the policy, has changed since: "unrecorded"     *)
(* again.                                                                  *)
Unrecorded(t) ==
    /\ "unrecorded" \notin Races
    /\ \/ t \in Policies /\ Is(t, "store")
          /\ \/ Parse(np[t].spec) # work[t].rules
             \/ \E s \in Spaces : space[s].st = "leaving"
       \/ t \notin Policies /\ Is(t, "patch") /\ np[work[t].at].live
          /\ np[work[t].at].spec # work[t].seen[work[t].at].spec
       \/ t \in Pods /\ Is(t, "patch") /\ (pod[t].leaving \/ pod[t].label # work[t].label)
       \/ t \in Spaces /\ Is(t, "patch") /\ space[t].label # work[t].label

GivenUp(t) == work' = [work EXCEPT ![t] = [Idle EXCEPT !.pc = "failed"]] /\ alive' = FALSE

(* Mutant: without the roll-back.                                          *)
CallFailsNoRollback(t) ==
    /\ Trouble /\ work[t].pc \notin {"idle", "failed", "again", "annotate"}
    /\ t \in Policies /\ work[t].pc \in {"list", "pods"} => ~NewSelector(t)
    /\ ~Unrecorded(t)
    /\ \/ work' = [work EXCEPT ![t] = Again(t)] /\ UNCHANGED alive
       \/ ~Forgettable(t) /\ GivenUp(t)
    /\ UNCHANGED <<pod, space, np, crd, groups, rules, changes>>

(* The group of a new policy is deleted again when something fails before  *)
(* the policy is recorded.                                                 *)
CallFails(t) ==
    /\ Trouble /\ work[t].pc \notin {"idle", "failed", "again", "annotate"}
    /\ t \in Policies /\ work[t].pc \in {"list", "pods"} => ~NewSelector(t)
    /\ ~Unrecorded(t)
    /\ \/ work' = [work EXCEPT ![t] = Again(t)] /\ UNCHANGED alive
       \/ ~Forgettable(t) /\ GivenUp(t)
    /\ IF work[t].pc \in {"sg", "rules", "post"}
       THEN groups' = groups \ {work[t].sg} /\ rules' = {r \in rules : r[1] # work[t].sg}
       ELSE UNCHANGED <<groups, rules>>
    /\ UNCHANGED <<pod, space, np, crd, changes>>

(* A group or a port that has gone meanwhile fails the handler at once;    *)
(* on_deleted is tried again.                                              *)
NotFound(t) ==
    /\ \/ Is(t, "edit") /\ \E n \in work[t].left : Given(t, n) # {} /\ work[t].seen[n].sg \notin groups
       \/ Is(t, "put") /\ ~(work[t].left \subseteq groups \cup {Default})
       \/ t \in Pods /\ Ready(t) /\ pod[t].st = "new" /\ ~pod[t].leaving
          /\ ~(GroupsFor(t, pod[t].label) \subseteq groups \cup {Default})
       \/ Is(t, "pods") /\ \E x \in work[t].left : ~Updatable(t, x[1], x[2])
    /\ IF work[t].at = "delete" THEN Ends(t) /\ UNCHANGED alive ELSE GivenUp(t)
    /\ UNCHANGED <<pod, space, np, crd, groups, rules, changes, troubles>>

(* Of what went while nobody watched there is no event: the race           *)
(* "deletion_lost".  A group whose policy was not recorded yet is left     *)
(* behind: "crash_in_create".                                              *)
Restart ==
    /\ IF alive THEN Trouble ELSE UNCHANGED troubles
    /\ \/ "deletion_lost" \in Races
       \/ /\ \A p \in Pods : ~pod[p].leaving
          /\ \A n \in Policies : np[n].ev # "deleted"
    /\ "crash_in_create" \in Races \/ \A n \in Policies : work[n].pc \notin {"sg", "rules", "post"}
    /\ \A t \in Threads : ~Forgettable(t) /\ ~Unrecorded(t)
    /\ \A n \in Policies : work[n].pc \in {"list", "pods"} => ~NewSelector(n)
    /\ alive' = TRUE /\ work' = [t \in Threads |-> Idle]
    /\ np' = [n \in Policies |-> [np[n] EXCEPT !.ev = IF np[n].live THEN "present" ELSE "none"]]
    /\ pod' = [p \in Pods |->
           IF pod[p].leaving THEN [pod[p] EXCEPT !.st = "out", !.leaving = FALSE, !.groups = {}]
           ELSE IF pod[p].st = "new" THEN [pod[p] EXCEPT !.groups = {}] ELSE pod[p]]
    /\ UNCHANGED <<space, crd, groups, rules, changes>>

-----------------------------------------------------------------------------
EditStep(t) == \/ ListRecords(t) \/ PatchCrd(t) \/ EndPhase(t)
               \/ \E n \in Policies : EditRules(t, n)

PodStep(p) == \/ RequestVif(p) \/ AnnotateVif(p) \/ ActivateVif(p) \/ Relabelled(p)
              \/ LookUpGroups(p) \/ PutGroups(p) \/ PodDeleted(p) \/ ReleaseVif(p) \/ PodDone(p)
              \/ EditStep(p) \/ NotFound(p)

SpaceStep(s) == \/ SpaceRelabelled(s) \/ NoteLabels(s) \/ SpaceDeleted(s) \/ RemoveFinalizer(s)
                \/ EditStep(s) \/ NotFound(s)

PolicyStep(n) == \/ NoNeed(n) \/ CreateGroup(n) \/ ParsePolicy(n) \/ CreateRules(n) \/ PostCrd(n)
                 \/ ReadCrd(n) \/ DeleteRules(n) \/ StoreRules(n) \/ ListPods(n) \/ Updated(n)
                 \/ \E p \in Pods, l \in Labels : UpdatePod(n, p, l)
                 \/ PolicyDeleted(n) \/ DeleteGroup(n) \/ DeleteCrd(n) \/ NotFound(n)

Users == \/ \E p \in Pods, l \in Labels : CreatePod(p, l) \/ RelabelPod(p, l)
         \/ \E p \in Pods : DeletePod(p)
         \/ \E s \in Spaces, l \in Labels : RelabelSpace(s, l)
         \/ \E s \in Spaces : DeleteSpace(s)
         \/ \E n \in Policies, spec \in Specs : PutPolicy(n, spec)
         \/ \E n \in Policies : DeletePolicy(n)

Next == \/ \E p \in Pods : PodStep(p) \/ PodRuns(p)
        \/ \E s \in Spaces : SpaceStep(s)
        \/ \E n \in Policies : PolicyStep(n)
        \/ Users \/ Restart \/ \E t \in Threads : CallFails(t)

(* Handlers go on, kubelet reports and restarts what is unhealthy; users   *)
(* and failures need not come.  A deletion that is tried again goes        *)
(* through the pods each time, ever later (Retry's back-off): a pod's      *)
(* handler gets its turn in between.                                       *)
Spec == /\ Init /\ [][Next]_vars
        /\ \A p \in Pods : SF_vars(PodStep(p)) /\ WF_vars(PodRuns(p))
        /\ \A s \in Spaces : WF_vars(SpaceStep(s))
        /\ \A n \in Policies : WF_vars(PolicyStep(n))
        /\ WF_vars(~alive /\ Restart)

-----------------------------------------------------------------------------
(* Properties.                                                             *)

(* Nothing is left to handle.                                              *)
Settled ==
    /\ alive /\ \A t \in Threads : Is(t, "idle")
    /\ \A p \in Pods : pod[p].st \in {"out", "running"} /\ ~pod[p].leaving
                        /\ (pod[p].st = "running" => pod[p].label = pod[p].noted)
    /\ \A s \in Spaces : space[s].st # "leaving"
                          /\ (space[s].st = "there" => space[s].label = space[s].noted)
    /\ \A n \in Policies : np[n].ev = "none"

(* What a policy says of a pod, as Kubernetes defines it.                  *)
Selects(peer, p) ==
    /\ CASE peer.ns = Any  -> TRUE
         [] peer.ns = None -> SpaceOf[p] = Home
         [] OTHER          -> space[SpaceOf[p]].label = peer.ns
    /\ Matches(peer.pod, pod[p].label)
Admitted(g, p) == \E c \in {p, SpaceOf[p], World} : <<g, c>> \in rules

(* Once everything is handled, a policy's group admits exactly the pods    *)
(* that the policy names, and no address that a pod has left or subnet     *)
(* that went with its namespace.                                           *)
Enforced ==
    Settled => \A n \in Policies : np[n].live =>
        /\ \A p \in Pods : pod[p].st = "running" =>
              (Admitted(crd[n].sg, p) <=> \E peer \in np[n].spec.peers : Selects(peer, p))
        /\ \A p \in Pods : pod[p].st = "out" => <<crd[n].sg, p>> \notin rules
        /\ \A s \in Spaces : space[s].st = "gone" => <<crd[n].sg, s>> \notin rules

(* The rules that Neutron has are those that the KuryrNetPolicies record:  *)
(* a rule that is not recorded is never deleted.                           *)
CrdIsRecord ==
    Settled => rules = UNION {{<<crd[n].sg, c>> : c \in Sources(crd[n].rules)} : n \in Recorded}

(* Each port has the groups of the policies that select its pod, the       *)
(* default group if there are none.                                        *)
GroupsFollow ==
    Settled => \A p \in Pods : pod[p].st = "running" =>
        LET its == {crd[n].sg : n \in {m \in Policies : /\ np[m].live /\ SpaceOf[p] = Home
                                        /\ Matches(np[m].spec.sel, pod[p].label)}}
        IN  pod[p].groups = IF its = {} THEN {Default} ELSE its

(* A deleted policy leaves nothing behind, and neither does an attempt to  *)
(* create one that failed.                                                 *)
NoGroupLeft ==
    Settled => /\ groups = {crd[n].sg : n \in Recorded}
               /\ Recorded = {n \in Policies : np[n].live}

(* The handler of p has still to set the groups for its labels, which the  *)
(* activation notes before.                                                *)
Regroups(p) == work[p].todo # <<>> /\ work[p].todo[Len(work[p].todo)] = "put"

(* A port does not lose the group of a policy, not even for a moment,      *)
(* while the policy stands as recorded and selects the pod by labels that  *)
(* have been handled: neither updates nor failures open it.                *)
StaysProtected ==
    [][\A n \in Policies, p \in Pods :
          (/\ np[n].live /\ np'[n] = np[n] /\ crd[n] # NoCrd /\ crd[n].spec = np[n].spec
           /\ crd[n].sg \in pod[p].groups
           /\ Matches(np[n].spec.sel, pod[p].label)
           /\ pod[p].label = pod[p].noted /\ ~Regroups(p) /\ pod'[p].label = pod[p].label)
          => crd[n].sg \in pod'[p].groups \/ pod[p].leaving \/ pod[p].st = "new"]_vars

(* Changes of policies, pods and namespaces are all handled in the end.    *)
EventuallySettled == []<>Settled

(* "Create new rules that weren't already on the security group": a rule   *)
(* that stays in the policy is not deleted.                                *)
KeptRulesStay ==
    [][\A n \in Policies : Is(n, "delete") =>
          \A r \in rules \ rules' : r[1] = work[n].sg => r[2] \notin Sources(work[n].rules)]_vars
=============================================================================

---------------------------- MODULE SriovVFsProofs ---------------------------
(***************************************************************************)
(* That a pod which has gone leaves nothing behind, and a virtual function *)
(* which nobody has is as it was (NothingLeft), for any pods, functions,   *)
(* ports, containers and networks.                                         *)
(*                                                                         *)
(* The argument is who will undo what has been done: which pod's sandbox   *)
(* is yet to give a function back to the host (Moved), or its driver back  *)
(* (Returns), to take an annotation of the node away (Forgets), and which  *)
(* pod's thread is yet to delete a port (Deletes).                         *)
(***************************************************************************)
EXTENDS SriovVFs, TLAPS

-----------------------------------------------------------------------------
(* The inductive invariant.                                                *)

(* The timings that leave something behind.                                *)
NoLoss == {"given_early", "forced", "request_fails", "crash"} \cap Races = {}

Shape(p) == /\ DOMAIN pod[p] = DOMAIN NoPod
            /\ DOMAIN work[p] = DOMAIN Idle
            /\ DOMAIN cni[p] = DOMAIN NoSandbox
            /\ DOMAIN pod[p].devices = VFs
Shapes == /\ DOMAIN pod = Pods /\ DOMAIN work = Pods /\ DOMAIN cni = Pods
          /\ DOMAIN given = Pods /\ info = [q \in Ports |-> info[q]]
          /\ DOMAIN vf = VFs /\ \A v \in VFs : DOMAIN vf[v] = DOMAIN Unused
          /\ \A p \in Pods : Shape(p)

(* What a pod is annotated with stays until the pod has gone; the handler  *)
(* works for a pod that is there, and releases all that is annotated; the  *)
(* CNI works for the vifs that are annotated, and sets one up for a pod    *)
(* that exists, with a function that is the pod's and not yet recorded.    *)
Stage(p) ==
    /\ pod[p].st \in {"none", "pending", "running", "terminating", "gone"}
    /\ pod[p].vifs \subseteq Ports
    /\ ~pod[p].annotated => pod[p].vifs = {} /\ cni[p].pc = "none"
    /\ pod[p].st = "none" => work[p].pc = "idle" /\ ~pod[p].news
    /\ work[p].pc = "request" => ~pod[p].annotated /\ work[p].vifs \subseteq Ports
    /\ work[p].pc = "release" => pod[p].vifs \subseteq work[p].todo
    /\ cni[p].todo \subseteq pod[p].vifs
    /\ cni[p].pc = "none" => cni[p].todo = {}
    /\ cni[p].pc \in {"record", "save"} => Exists(p) /\ cni[p].port \in pod[p].vifs \ cni[p].todo
    /\ cni[p].pc = "record" => cni[p].vf \in given[p] \ Recorded(p)
Stages == \A p \in Pods : Stage(p)

(* No port is annotated, or requested, for two pods.                       *)
Owned(p) == pod[p].vifs \cup (IF work[p].pc = "request" THEN work[p].vifs ELSE {})
Apart == \A p, r \in Pods : p # r => Owned(p) \cap Owned(r) = {}

Given == /\ \A p \in Pods : given[p] \subseteq VFs
         /\ \A p, r \in Pods : p # r => given[p] \cap given[r] = {}

(* A function is in the network namespace of the pod that has it.          *)
Moved == \A v \in VFs : vf[v].ns # None =>
            /\ vf[v].ns \in Pods /\ v \in given[vf[v].ns] /\ cni[vf[v].ns].pc # "none"

(* An ADD that failed after it had set up a function and before it told    *)
(* the node so: the DEL cannot take away what is not there, and never      *)
(* ends, so that kubelet does not give the function away.                  *)
Stuck(p) ==
    /\ cni[p].pc \in {"failed", "disconnect", "forget"}
    /\ \E q \in pod[p].vifs : info[q] = None /\ (cni[p].pc # "failed" => q \in cni[p].todo)

(* The driver of a function is to be returned: the function is about to be *)
(* recorded, or recorded for a vif that is not disconnected.               *)
Returns(p, v) ==
    /\ v \in given[p]
    /\ \/ cni[p].pc = "record" /\ cni[p].vf = v /\ cni[p].swapped = TRUE
       \/ Stuck(p)
       \/ /\ pod[p].devices[v] = [port |-> pod[p].devices[v].port, swapped |-> TRUE]
          /\ pod[p].devices[v].port \in pod[p].vifs
          /\ cni[p].pc # "none"
          /\ cni[p].pc \in {"disconnect", "forget"} => pod[p].devices[v].port \in cni[p].todo
          /\ cni[p].pc = "forget" => pod[p].devices[v].port # cni[p].port
Drivers == \A v \in VFs : vf[v].driver # "kernel" =>
              vf[v].driver = "user" /\ \E p \in Pods : Returns(p, v)

(* The annotation of the node for a vif that has been connected is to be   *)
(* taken away.                                                             *)
Forgets(p, q) ==
    /\ Exists(p) /\ q \in pod[p].vifs /\ cni[p].pc # "none"
    /\ cni[p].pc \in {"connect", "record", "save"} => q \notin cni[p].todo
    /\ cni[p].pc \in {"record", "save"} => q # cni[p].port
    /\ cni[p].pc \in {"disconnect", "forget"} => q \in cni[p].todo
Infos == \A q \in Ports : info[q] # None => \E p \in Pods : Forgets(p, q)

(* A port is to be deleted: it has been requested for a pod, annotated, or *)
(* is being released.                                                      *)
Deletes(p, q) ==
    /\ pod[p].st # "none"
    /\ \/ q \in pod[p].vifs
       \/ work[p].pc = "request" /\ q \in work[p].vifs
       \/ work[p].pc = "release" /\ q \in work[p].todo
PortsKept == \A q \in ports : \E p \in Pods : Deletes(p, q)

VFInv == Shapes /\ Stages /\ Apart /\ Given /\ Moved /\ Drivers /\ Infos /\ PortsKept

-----------------------------------------------------------------------------
(* A step of one pod: what the others are to undo is as before.            *)
LEMMA OfOne ==
    ASSUME VFInv, NEW p \in Pods, Shapes', Stage(p)',
           \A r \in Pods \ {p} : /\ pod'[r] = pod[r] /\ work'[r] = work[r]
                                 /\ cni'[r] = cni[r] /\ given'[r] = given[r],
           \A r \in Pods \ {p} : Owned(p)' \cap Owned(r) = {},
           given'[p] \subseteq VFs, \A r \in Pods \ {p} : given'[p] \cap given[r] = {},
           \A q \in Ports : info'[q] = info[q] \/ info'[q] = None \/ q \in pod[p].vifs,
           \A v \in VFs : \/ vf'[v].ns = None
                          \/ vf'[v].ns = vf[v].ns /\ vf[v].ns # p
                          \/ vf'[v].ns = p /\ v \in given'[p] /\ cni'[p].pc # "none",
           \A v \in VFs : \/ vf'[v].driver = "kernel"
                          \/ vf'[v].driver = "user" /\ Returns(p, v)'
                          \/ vf'[v].driver = vf[v].driver /\ ~Returns(p, v),
           \A q \in Ports : \/ info'[q] = None \/ Forgets(p, q)'
                            \/ info'[q] = info[q] /\ ~Forgets(p, q),
           \A q \in ports' : Deletes(p, q)' \/ (q \in ports /\ ~Deletes(p, q))
    PROVE  VFInv'
<1> USE DEF VFInv
<1>1. Stages'
  BY DEF Stages, Stage, Exists, Recorded
<1>2. \A r \in Pods \ {p} : Owned(r)' = Owned(r)
  BY DEF Owned
<1>3. Apart'
  BY <1>2 DEF Apart
<1>4. Given'
  BY DEF Given
<1>5. Moved'
  BY DEF Moved
<1>6. \A r \in Pods \ {p} : Stuck(r) => Stuck(r)'
  <2> SUFFICES ASSUME NEW r \in Pods \ {p}, Stuck(r) PROVE Stuck(r)'
    OBVIOUS
  <2>1. PICK q \in pod[r].vifs : info[q] = None /\ (cni[r].pc # "failed" => q \in cni[r].todo)
    BY DEF Stuck
  <2>2. q \in Ports /\ q \notin pod[p].vifs
    BY DEF Stages, Stage, Apart, Owned
  <2>3. info'[q] = None
    BY <2>1, <2>2
  <2> QED BY <2>1, <2>3 DEF Stuck
<1>7. \A r \in Pods \ {p}, v \in VFs : Returns(r, v) => Returns(r, v)'
  BY <1>6 DEF Returns
<1>8. Drivers'
  BY <1>7 DEF Drivers
<1>9. \A r \in Pods \ {p}, q \in Ports : Forgets(r, q) => Forgets(r, q)'
  BY DEF Forgets, Exists
<1>10. Infos'
  BY <1>9 DEF Infos
<1>11. \A q : \A r \in Pods \ {p} : Deletes(r, q) => Deletes(r, q)'
  BY DEF Deletes
<1>12. PortsKept'
  BY <1>11 DEF PortsKept
<1> QED BY <1>1, <1>3, <1>4, <1>5, <1>8, <1>10, <1>12

(* A step of users, kubelet or a handler: nothing changes on the node, nor *)
(* for the sandbox of the pod, if there is one.                            *)
LEMMA Aside ==
    ASSUME VFInv, NEW p \in Pods, Shapes', Stage(p)', UNCHANGED <<vf, info, cni>>,
           \A r \in Pods \ {p} : /\ pod'[r] = pod[r] /\ work'[r] = work[r]
                                 /\ given'[r] = given[r],
           \A r \in Pods \ {p} : Owned(p)' \cap Owned(r) = {},
           \/ cni[p].pc = "none" /\ given'[p] \subseteq VFs
                                 /\ \A r \in Pods \ {p} : given'[p] \cap given[r] = {}
           \/ /\ given'[p] = given[p] /\ (Exists(p)' <=> Exists(p))
              /\ pod'[p].vifs = pod[p].vifs /\ pod'[p].devices = pod[p].devices,
           \A q \in ports' : Deletes(p, q)' \/ (q \in ports /\ ~Deletes(p, q))
    PROVE  VFInv'
<1>1. /\ given'[p] \subseteq VFs /\ \A r \in Pods \ {p} : given'[p] \cap given[r] = {}
  BY DEF VFInv, Given
<1>2. \A v \in VFs : vf[v].ns # None /\ vf[v].ns = p => v \in given'[p] /\ cni[p].pc # "none"
  BY DEF VFInv, Moved
<1>3. \A v \in VFs : Returns(p, v) => Returns(p, v)'
  BY DEF Returns, Stuck
<1>4. \A v \in VFs : vf[v].driver \in {"kernel", "user"}
  BY DEF VFInv, Drivers
<1>5. \A q \in Ports : Forgets(p, q) => Forgets(p, q)'
  BY DEF Forgets
<1> QED BY <1>1, <1>2, <1>3, <1>4, <1>5, OfOne

-----------------------------------------------------------------------------
(* Users and kubelet.                                                      *)

LEMMA CreatePodKeeps ==
    ASSUME VFInv, NEW p \in Pods, CreatePod(p)
    PROVE  VFInv'
<1> USE DEF VFInv
<1>1. PICK requests \in Requests[p] :
        LET fit == kSubset(Total(requests), VFs \ UNION {given[r] : r \in Pods}) IN
        /\ fit # {} /\ given' = [given EXCEPT ![p] = OneOf(fit)]
        /\ pod' = [pod EXCEPT ![p] = [NoPod EXCEPT !.st = "pending", !.requests = requests,
                                                   !.news = TRUE]]
  BY DEF CreatePod
<1>2. /\ pod[p].st = "none" /\ cni[p].pc = "none" /\ work[p].pc = "idle"
      /\ UNCHANGED <<work, ports, info, vf, cni>>
  BY DEF CreatePod, neutron, Stages, Stage
<1>3. /\ DOMAIN given' = Pods /\ \A r \in Pods \ {p} : given'[r] = given[r]
      /\ given'[p] \subseteq VFs \ UNION {given[r] : r \in Pods}
  BY <1>1 DEF kSubset, OneOf, Shapes
<1>4. /\ DOMAIN pod' = Pods /\ \A r \in Pods \ {p} : pod'[r] = pod[r]
      /\ DOMAIN pod'[p] = DOMAIN NoPod /\ pod'[p].devices = NoDevices
      /\ pod'[p].st = "pending" /\ pod'[p].vifs = {} /\ ~pod'[p].annotated
  BY <1>1 DEF Shapes, NoPod
<1>5. Shapes'
  BY <1>2, <1>3, <1>4 DEF Shapes, Shape, NoDevices
<1>6. Stage(p)'
  BY <1>2, <1>4 DEF Stages, Stage
<1>7. Owned(p)' = {}
  BY <1>2, <1>4 DEF Owned
<1>8. \A q \in ports' : q \in ports /\ ~Deletes(p, q)
  BY <1>2 DEF Deletes
<1> QED BY <1>2, <1>3, <1>4, <1>5, <1>6, <1>7, <1>8, Aside

LEMMA DeletePodKeeps ==
    ASSUME NoLoss, VFInv, NEW p \in Pods, DeletePod(p)
    PROVE  VFInv'
<1> USE DEF VFInv
<1>1. PICK st \in {"terminating", "gone"} :
        /\ st = "gone" => \/ cni[p].pc = "none"
                          \/ cni[p].pc = "connect" /\ cni[p].todo = pod[p].vifs
        /\ pod' = [pod EXCEPT ![p].st = st, ![p].news = TRUE]
  BY DEF DeletePod, NoLoss
<1>2. pod[p].st \in {"pending", "running"} /\ UNCHANGED <<work, ports, info, vf, given, cni>>
  BY DEF DeletePod, neutron
<1>3. /\ DOMAIN pod' = Pods /\ \A r \in Pods \ {p} : pod'[r] = pod[r]
      /\ DOMAIN pod'[p] = DOMAIN NoPod /\ pod'[p].st = st
      /\ \A f \in {"vifs", "annotated", "devices"} : pod'[p][f] = pod[p][f]
  BY <1>1 DEF Shapes, Shape, NoPod
<1>4. pod'[p].vifs = pod[p].vifs /\ pod'[p].annotated = pod[p].annotated
      /\ pod'[p].devices = pod[p].devices
  BY <1>3
<1>5. Shapes'
  BY <1>2, <1>3, <1>4 DEF Shapes, Shape
<1>6. Stage(p)'
  BY <1>1, <1>2, <1>3, <1>4 DEF Stages, Stage, Exists, Recorded
<1>7. \A r \in Pods \ {p} : Owned(p)' \cap Owned(r) = {}
  BY <1>2, <1>4 DEF Owned, Apart
<1>8. \A q \in ports' : Deletes(p, q)' \/ (q \in ports /\ ~Deletes(p, q))
  BY <1>2, <1>3, <1>4 DEF Deletes
<1>9. CASE Exists(p)' <=> Exists(p)
  BY <1>2, <1>3, <1>4, <1>5, <1>6, <1>7, <1>8, <1>9, Aside
<1>10. CASE ~(Exists(p)' <=> Exists(p))
  <2>1. st = "gone"
    BY <1>2, <1>3, <1>10 DEF Exists
  <2>2. CASE cni[p].pc = "none"
    BY <1>2, <1>3, <1>5, <1>6, <1>7, <1>8, <2>2, Aside DEF Given
  <2>3. CASE cni[p].pc = "connect" /\ cni[p].todo = pod[p].vifs
    <3>1. \A q \in Ports : ~Forgets(p, q)
      BY <2>3 DEF Forgets
    <3>2. \A v \in VFs : Returns(p, v) => Returns(p, v)'
      BY <1>2, <1>4 DEF Returns, Stuck
    <3>3. \A v \in VFs : vf[v].driver \in {"kernel", "user"}
      BY DEF Drivers
    <3>4. \A v \in VFs : vf[v].ns # None /\ vf[v].ns = p => v \in given[p]
      BY DEF Moved
    <3> QED BY <1>2, <1>3, <1>4, <1>5, <1>6, <1>7, <1>8, <2>3, <3>1, <3>2, <3>3, <3>4, OfOne
            DEF Given
  <2> QED BY <1>1, <2>1, <2>2, <2>3
<1> QED BY <1>9, <1>10

LEMMA KubeletKeeps ==
    ASSUME NoLoss, VFInv, NEW p \in Pods, Kubelet(p)
    PROVE  VFInv'
<1> USE DEF VFInv
<1>1. CASE PodRuns(p) \/ PodGone(p)
  <2>1. PICK st \in {"running", "gone"} : pod' = [pod EXCEPT ![p].st = st, ![p].news = TRUE]
    BY <1>1 DEF PodRuns, PodGone
  <2>2. /\ pod[p].st \in {"pending", "terminating"} /\ (st = "gone" => cni[p].pc = "none")
        /\ UNCHANGED <<work, ports, info, vf, given, cni>>
    <3>1. CASE PodRuns(p)
      <4>1. st = "running"
        BY <2>1, <3>1 DEF PodRuns, Shapes, Shape, NoPod
      <4> QED BY <3>1, <4>1 DEF PodRuns, neutron
    <3>2. CASE PodGone(p) BY <3>2 DEF PodGone, neutron
    <3> QED BY <1>1, <3>1, <3>2
  <2>3. /\ DOMAIN pod' = Pods /\ \A r \in Pods \ {p} : pod'[r] = pod[r]
        /\ DOMAIN pod'[p] = DOMAIN NoPod /\ pod'[p].st = st
        /\ pod'[p].vifs = pod[p].vifs /\ pod'[p].annotated = pod[p].annotated
        /\ pod'[p].devices = pod[p].devices
    BY <2>1 DEF Shapes, Shape, NoPod
  <2>4. Shapes'
    BY <2>2, <2>3 DEF Shapes, Shape
  <2>5. Stage(p)'
    BY <2>2, <2>3 DEF Stages, Stage, Exists, Recorded
  <2>6. \A r \in Pods \ {p} : Owned(p)' \cap Owned(r) = {}
    BY <2>2, <2>3 DEF Owned, Apart
  <2>7. \A q \in ports' : Deletes(p, q)' \/ (q \in ports /\ ~Deletes(p, q))
    BY <2>2, <2>3 DEF Deletes
  <2>8. cni[p].pc = "none" \/ (Exists(p)' <=> Exists(p))
    BY <2>2, <2>3 DEF Exists
  <2> QED BY <2>2, <2>3, <2>4, <2>5, <2>6, <2>7, <2>8, Aside DEF Given
<1>2. CASE FreeVFs(p)
  <2>1. /\ cni[p].pc = "none" /\ given' = [given EXCEPT ![p] = {}]
        /\ UNCHANGED <<pod, work, ports, info, vf, cni>>
    BY <1>2 DEF FreeVFs, NoLoss, neutron
  <2>2. Shapes' /\ Stage(p)'
    BY <2>1 DEF Shapes, Shape, Stages, Stage, Exists, Recorded
  <2>3. \A r \in Pods \ {p} : Owned(p)' \cap Owned(r) = {}
    BY <2>1 DEF Owned, Apart
  <2>4. \A q \in ports' : Deletes(p, q)' \/ (q \in ports /\ ~Deletes(p, q))
    BY <2>1 DEF Deletes
  <2> QED BY <2>1, <2>2, <2>3, <2>4, Aside DEF Shapes
<1> QED BY <1>1, <1>2 DEF Kubelet

-----------------------------------------------------------------------------
(* Handlers.                                                               *)

(* A handler that changes its own thread only.                             *)
LEMMA ThreadGoes ==
    ASSUME VFInv, NEW p \in Pods, UNCHANGED <<pod, info, vf, given, cni>>,
           DOMAIN work' = Pods, \A r \in Pods \ {p} : work'[r] = work[r],
           DOMAIN work'[p] = DOMAIN Idle, pod[p].st # "none",
           work'[p].pc = "request" => ~pod[p].annotated /\ work'[p].vifs \subseteq Ports,
           work'[p].pc = "release" => pod[p].vifs \subseteq work'[p].todo,
           \A r \in Pods \ {p} : Owned(p)' \cap Owned(r) = {},
           \A q \in ports' : Deletes(p, q)' \/ (q \in ports /\ ~Deletes(p, q))
    PROVE  VFInv'
<1>1. Shapes'
  BY DEF VFInv, Shapes, Shape
<1>2. Stage(p)'
  BY DEF VFInv, Stages, Stage, Exists, Recorded
<1> QED BY <1>1, <1>2, Aside DEF Exists

LEMMA TakeKeeps ==
    ASSUME VFInv, NEW p \in Pods, Take(p)
    PROVE  VFInv'
<1> USE DEF VFInv
<1>1. /\ work[p].pc = "idle" /\ pod[p].news /\ work' = [work EXCEPT ![p] = Called(p)]
      /\ pod' = [pod EXCEPT ![p].news = FALSE] /\ UNCHANGED <<ports, info, vf, given, cni>>
  BY DEF Take, neutron
<1>2. pod[p].st # "none"
  BY <1>1 DEF Stages, Stage
<1>3. /\ DOMAIN pod' = Pods /\ \A r \in Pods \ {p} : pod'[r] = pod[r]
      /\ DOMAIN pod'[p] = DOMAIN NoPod /\ pod'[p].st = pod[p].st
      /\ pod'[p].vifs = pod[p].vifs /\ pod'[p].annotated = pod[p].annotated
      /\ pod'[p].devices = pod[p].devices
  BY <1>1 DEF Shapes, Shape, NoPod
<1>4. /\ DOMAIN work' = Pods /\ \A r \in Pods \ {p} : work'[r] = work[r]
      /\ work'[p] = Called(p)
  BY <1>1 DEF Shapes
<1>5. /\ DOMAIN Called(p) = DOMAIN Idle
      /\ Called(p).vifs = pod[p].vifs /\ Called(p).todo = pod[p].vifs
      /\ Called(p).pc = "request" => ~pod[p].annotated
  BY DEF Called, Idle
<1>6. Shapes'
  BY <1>1, <1>3, <1>4, <1>5 DEF Shapes, Shape
<1>7. Stage(p)'
  BY <1>1, <1>2, <1>3, <1>4, <1>5 DEF Stages, Stage, Exists, Recorded
<1>8. Owned(p)' \subseteq Owned(p)
  BY <1>3, <1>4, <1>5 DEF Owned
<1>9. \A q \in ports' : Deletes(p, q)' \/ (q \in ports /\ ~Deletes(p, q))
  BY <1>1, <1>3 DEF Deletes
<1> QED BY <1>1, <1>3, <1>4, <1>6, <1>7, <1>8, <1>9, Aside DEF Exists, Apart

LEMMA RequestKeeps ==
    ASSUME VFInv, NEW p \in Pods, Request(p)
    PROVE  VFInv'
<1> USE DEF VFInv
<1>1. /\ work[p].pc = "request" /\ pod[p].st # "none" /\ ~pod[p].annotated
      /\ work[p].vifs \subseteq Ports /\ UNCHANGED <<pod, info, vf, given, cni>>
  BY DEF Request, Stages, Stage
<1>2. CASE Remaining(work[p]) = 0
  <2>1. work' = [work EXCEPT ![p].net = @ + 1] /\ ports' = ports
    BY <1>2 DEF Request
  <2>2. /\ DOMAIN work' = Pods /\ \A r \in Pods \ {p} : work'[r] = work[r]
        /\ DOMAIN work'[p] = DOMAIN Idle /\ work'[p].pc = "request"
        /\ work'[p].vifs = work[p].vifs
    BY <1>1, <2>1 DEF Shapes, Shape, Idle
  <2>3. Owned(p)' = Owned(p)
    BY <1>1, <2>2 DEF Owned
  <2>4. \A q \in ports' : Deletes(p, q)' \/ (q \in ports /\ ~Deletes(p, q))
    BY <1>1, <2>1, <2>2 DEF Deletes
  <2> QED BY <1>1, <2>2, <2>3, <2>4, ThreadGoes DEF Apart
<1>3. CASE Remaining(work[p]) # 0
  <2> DEFINE q == OneOf(Ports \ Known)
  <2>1. /\ Ports \ Known # {} /\ ports' = ports \cup {q}
        /\ work' = [work EXCEPT ![p].net = @ + 1, ![p].vifs = @ \cup {q},
                                ![p].left = Reduced(@)]
    BY <1>3 DEF Request
  <2>2. q \in Ports /\ q \notin Known
    BY <2>1 DEF OneOf
  <2> HIDE DEF q
  <2>3. /\ DOMAIN work' = Pods /\ \A r \in Pods \ {p} : work'[r] = work[r]
        /\ DOMAIN work'[p] = DOMAIN Idle /\ work'[p].pc = "request"
        /\ work'[p].vifs = work[p].vifs \cup {q}
    BY <1>1, <2>1 DEF Shapes, Shape, Idle
  <2>4. Owned(p)' = Owned(p) \cup {q}
    BY <1>1, <2>3 DEF Owned
  <2>5. \A r \in Pods : q \notin Owned(r)
    <3> SUFFICES ASSUME NEW r \in Pods PROVE q \notin pod[r].vifs \cup work[r].vifs
      BY DEF Owned
    <3>1. pod[r].vifs \cup work[r].vifs \cup cni[r].todo
            \in {pod[x].vifs \cup work[x].vifs \cup cni[x].todo : x \in Pods}
      OBVIOUS
    <3> QED BY <2>2, <3>1 DEF Known
  <2>6. \A x \in ports' : Deletes(p, x)' \/ (x \in ports /\ ~Deletes(p, x))
    BY <1>1, <2>1, <2>3 DEF Deletes
  <2> QED BY <1>1, <2>2, <2>3, <2>4, <2>5, <2>6, ThreadGoes DEF Apart
<1> QED BY <1>2, <1>3

(* Nothing has been created for a request that fails.                      *)
LEMMA RequestFailsKeeps ==
    ASSUME NoLoss, VFInv, NEW p \in Pods, RequestFails(p)
    PROVE  VFInv'
<1> USE DEF VFInv
<1>1. /\ work[p].pc = "request" /\ pod[p].st # "none" /\ ~pod[p].annotated
      /\ work[p].vifs = {} /\ UNCHANGED <<pod, ports, info, vf, given, cni>>
      /\ \/ work' = [work EXCEPT ![p].net = 1, ![p].vifs = {}]
         \/ work' = [work EXCEPT ![p] = Idle]
  BY DEF RequestFails, NoLoss, Ends, Stages, Stage, neutron
<1>2. /\ DOMAIN work' = Pods /\ \A r \in Pods \ {p} : work'[r] = work[r]
      /\ DOMAIN work'[p] = DOMAIN Idle /\ work'[p].pc \in {"request", "idle"}
      /\ work'[p].vifs = {}
  BY <1>1 DEF Shapes, Shape, Idle
<1>3. Owned(p)' = Owned(p)
  BY <1>1, <1>2 DEF Owned
<1>4. \A q \in ports' : Deletes(p, q)' \/ (q \in ports /\ ~Deletes(p, q))
  BY <1>1, <1>2 DEF Deletes
<1> QED BY <1>1, <1>2, <1>3, <1>4, ThreadGoes DEF Apart

LEMMA AnnotateKeeps ==
    ASSUME VFInv, NEW p \in Pods, Annotate(p)
    PROVE  VFInv'
<1> USE DEF VFInv
<1>1. /\ work[p].pc = "request" /\ pod[p].st # "none" /\ ~pod[p].annotated
      /\ work[p].vifs \subseteq Ports /\ UNCHANGED <<ports, info, vf, given, cni>>
      /\ pod[p].vifs = {} /\ cni[p].pc = "none" /\ cni[p].todo = {}
  BY DEF Annotate, Stages, Stage, neutron
<1>2. CASE pod[p].st = "gone"
  <2>1. /\ work' = [work EXCEPT ![p].pc = "release", ![p].todo = work[p].vifs]
        /\ pod' = pod
    BY <1>2 DEF Annotate
  <2>2. /\ DOMAIN work' = Pods /\ \A r \in Pods \ {p} : work'[r] = work[r]
        /\ DOMAIN work'[p] = DOMAIN Idle /\ work'[p].pc = "release"
        /\ work'[p].todo = work[p].vifs
    BY <2>1 DEF Shapes, Shape, Idle
  <2>3. Owned(p)' = {}
    BY <1>1, <2>1, <2>2 DEF Owned
  <2>4. \A q \in ports' : Deletes(p, q)' \/ (q \in ports /\ ~Deletes(p, q))
    BY <1>1, <2>1, <2>2 DEF Deletes
  <2> QED BY <1>1, <2>1, <2>2, <2>3, <2>4, ThreadGoes
<1>3. CASE pod[p].st # "gone"
  <2>1. /\ pod' = [pod EXCEPT ![p].vifs = work[p].vifs, ![p].annotated = TRUE, ![p].news = TRUE]
        /\ work' = [work EXCEPT ![p] = Idle]
    BY <1>3 DEF Annotate, Ends
  <2>2. /\ DOMAIN pod' = Pods /\ \A r \in Pods \ {p} : pod'[r] = pod[r]
        /\ DOMAIN pod'[p] = DOMAIN NoPod /\ pod'[p].st = pod[p].st
        /\ pod'[p].vifs = work[p].vifs /\ pod'[p].annotated = TRUE
        /\ pod'[p].devices = pod[p].devices
        /\ DOMAIN work' = Pods /\ \A r \in Pods \ {p} : work'[r] = work[r]
        /\ DOMAIN work'[p] = DOMAIN Idle /\ work'[p].pc = "idle"
    BY <2>1 DEF Shapes, Shape, NoPod, Idle
  <2>3. Shapes'
    BY <1>1, <2>2 DEF Shapes, Shape
  <2>4. Stage(p)'
    BY <1>1, <2>2 DEF Stages, Stage, Exists, Recorded
  <2>5. Owned(p)' = Owned(p)
    BY <1>1, <2>2 DEF Owned
  <2>6. \A q \in ports' : Deletes(p, q)' \/ (q \in ports /\ ~Deletes(p, q))
    BY <1>1, <2>2 DEF Deletes
  <2> QED BY <1>1, <2>2, <2>3, <2>4, <2>5, <2>6, Aside DEF Apart, Given
<1> QED BY <1>2, <1>3

(* The profiles of ports are written, and the vifs become active.          *)
LEMMA ProfileKeeps ==
    ASSUME VFInv, NEW p \in Pods, ReadInfo(p) \/ UpdatePort(p) \/ Activate(p)
    PROVE  VFInv'
<1> USE DEF VFInv
<1>1. /\ work[p].pc \in {"profile", "update"} /\ pod[p].st # "none"
      /\ UNCHANGED <<ports, info, vf, given, cni>>
  BY DEF ReadInfo, UpdatePort, Activate, Stages, Stage, neutron
<1>2. /\ DOMAIN work' = Pods /\ \A r \in Pods \ {p} : work'[r] = work[r]
      /\ DOMAIN work'[p] = DOMAIN Idle
      /\ \/ work'[p].pc \in {"profile", "update", "idle"}
         \/ work'[p].pc = "release" /\ work'[p].todo = pod[p].vifs /\ pod' = pod
  <2>1. CASE ReadInfo(p)
    BY <2>1 DEF ReadInfo, Shapes, Shape, Idle
  <2>2. CASE UpdatePort(p)
    BY <2>2 DEF UpdatePort, Shapes, Shape, Idle
  <2>3. CASE Activate(p)
    <3>1. \/ work' = [work EXCEPT ![p] = Idle]
          \/ work' = [work EXCEPT ![p].pc = "release", ![p].todo = pod[p].vifs] /\ pod' = pod
      BY <2>3 DEF Activate, Ends
    <3> QED BY <3>1 DEF Shapes, Shape, Idle
  <2> QED BY <2>1, <2>2, <2>3
<1>3. \/ pod' = pod
      \/ pod' = [pod EXCEPT ![p].active = TRUE, ![p].news = TRUE]
  BY DEF ReadInfo, UpdatePort, Activate
<1>4. /\ DOMAIN pod' = Pods /\ \A r \in Pods \ {p} : pod'[r] = pod[r]
      /\ DOMAIN pod'[p] = DOMAIN NoPod /\ pod'[p].st = pod[p].st
      /\ pod'[p].vifs = pod[p].vifs /\ pod'[p].annotated = pod[p].annotated
      /\ pod'[p].devices = pod[p].devices
  BY <1>3 DEF Shapes, Shape, NoPod
<1>5. Shapes'
  BY <1>1, <1>2, <1>4 DEF Shapes, Shape
<1>6. Stage(p)'
  BY <1>1, <1>2, <1>4 DEF Stages, Stage, Exists, Recorded
<1>7. Owned(p)' = Owned(p)
  BY <1>1, <1>2, <1>4 DEF Owned
<1>8. \A q \in ports' : Deletes(p, q)' \/ (q \in ports /\ ~Deletes(p, q))
  BY <1>1, <1>2, <1>4 DEF Deletes
<1> QED BY <1>1, <1>2, <1>4, <1>5, <1>6, <1>7, <1>8, Aside DEF Exists, Apart

(* All that the pod is annotated with is deleted, before it is forgotten.  *)
LEMMA ReleaseKeeps ==
    ASSUME VFInv, NEW p \in Pods, Release(p)
    PROVE  VFInv'
<1> USE DEF VFInv
<1>1. /\ work[p].pc = "release" /\ pod[p].st # "none" /\ pod[p].vifs \subseteq work[p].todo
      /\ ports' = ports \ work[p].todo /\ work' = [work EXCEPT ![p] = Idle]
      /\ UNCHANGED <<info, vf, given, cni>>
  BY DEF Release, Ends, Stages, Stage
<1>2. /\ DOMAIN work' = Pods /\ \A r \in Pods \ {p} : work'[r] = work[r]
      /\ DOMAIN work'[p] = DOMAIN Idle /\ work'[p].pc = "idle"
  BY <1>1 DEF Shapes, Idle
<1>3. \A q \in ports' : q \in ports /\ ~Deletes(p, q)
  BY <1>1 DEF Deletes
<1>4. CASE pod' = pod
  <2>1. Owned(p)' \subseteq Owned(p)
    BY <1>2, <1>4 DEF Owned
  <2> QED BY <1>1, <1>2, <1>3, <1>4, <2>1, ThreadGoes DEF Apart
<1>5. CASE pod' # pod
  <2>1. /\ pod[p].st = "gone" /\ ~pod[p].news
        /\ pod' = [pod EXCEPT ![p] = IF cni[p].pc = "none" THEN NoPod
                                     ELSE [@ EXCEPT !.st = "none"]]
    BY <1>5 DEF Release
  <2>2. DOMAIN pod' = Pods /\ \A r \in Pods \ {p} : pod'[r] = pod[r]
    BY <2>1 DEF Shapes
  <2>3. /\ DOMAIN pod'[p] = DOMAIN NoPod /\ pod'[p].st = "none" /\ ~pod'[p].news
        /\ DOMAIN pod'[p].devices = VFs
        /\ cni[p].pc # "none" => /\ pod'[p].vifs = pod[p].vifs
                                 /\ pod'[p].annotated = pod[p].annotated
                                 /\ pod'[p].devices = pod[p].devices
        /\ cni[p].pc = "none" => pod'[p].vifs = {}
    <3>1. pod'[p] = IF cni[p].pc = "none" THEN NoPod ELSE [pod[p] EXCEPT !.st = "none"]
      BY <2>1 DEF Shapes
    <3>2. CASE cni[p].pc = "none"
      BY <3>1, <3>2 DEF NoPod, NoDevices
    <3>3. CASE cni[p].pc # "none"
      <4>1. DOMAIN pod[p] = DOMAIN NoPod /\ DOMAIN pod[p].devices = VFs /\ ~pod[p].news
        BY <2>1 DEF Shapes, Shape
      <4> QED BY <3>1, <3>3, <4>1 DEF NoPod
    <3> QED BY <3>2, <3>3
  <2>4. Shapes'
    BY <1>1, <1>2, <2>2, <2>3 DEF Shapes, Shape
  <2>5. Stage(p)'
    <3>1. ~Exists(p) /\ ~Exists(p)'
      BY <2>1, <2>3 DEF Exists
    <3>2. CASE cni[p].pc = "none"
      BY <1>1, <1>2, <2>3, <3>1, <3>2 DEF Stages, Stage
    <3>3. CASE cni[p].pc # "none"
      BY <1>1, <1>2, <2>3, <3>1, <3>3 DEF Stages, Stage
    <3> QED BY <3>2, <3>3
  <2>6. Owned(p)' \subseteq Owned(p)
    BY <1>2, <2>3 DEF Owned
  <2>7. Exists(p)' <=> Exists(p)
    BY <2>1, <2>3 DEF Exists
  <2> QED BY <1>1, <1>2, <1>3, <2>2, <2>3, <2>4, <2>5, <2>6, <2>7, Aside DEF Apart, Given
<1> QED BY <1>4, <1>5
-----------------------------------------------------------------------------
(* The CNI.                                                                *)

(* A step of a sandbox, which changes nothing of the API.                  *)
LEMMA SandboxGoes ==
    ASSUME VFInv, NEW p \in Pods, UNCHANGED <<pod, work, ports, given>>,
           DOMAIN cni' = Pods, \A r \in Pods \ {p} : cni'[r] = cni[r],
           DOMAIN cni'[p] = DOMAIN NoSandbox, info' = [q \in Ports |-> info'[q]],
           DOMAIN vf' = VFs, \A v \in VFs : DOMAIN vf'[v] = DOMAIN Unused,
           pod[p].annotated \/ cni'[p].pc = "none", cni'[p].todo \subseteq pod[p].vifs,
           cni'[p].pc = "none" => cni'[p].todo = {},
           cni'[p].pc \in {"record", "save"} =>
              Exists(p) /\ cni'[p].port \in pod[p].vifs \ cni'[p].todo,
           cni'[p].pc = "record" => cni'[p].vf \in given[p] \ Recorded(p),
           \A q \in Ports : info'[q] = info[q] \/ info'[q] = None \/ q \in pod[p].vifs,
           \A v \in VFs : \/ vf'[v].ns = None
                          \/ vf'[v].ns = vf[v].ns /\ vf[v].ns # p
                          \/ vf'[v].ns = p /\ v \in given[p] /\ cni'[p].pc # "none",
           \A v \in VFs : \/ vf'[v].driver = "kernel"
                          \/ vf'[v].driver = "user" /\ Returns(p, v)'
                          \/ vf'[v].driver = vf[v].driver /\ ~Returns(p, v),
           \A q \in Ports : \/ info'[q] = None \/ Forgets(p, q)'
                            \/ info'[q] = info[q] /\ ~Forgets(p, q)
    PROVE  VFInv'
<1> USE DEF VFInv
<1>1. Shapes'
  BY DEF Shapes, Shape
<1>2. Exists(p)' = Exists(p) /\ Recorded(p)' = Recorded(p)
  BY DEF Exists, Recorded
<1>3. Stage(p)'
  BY <1>2 DEF Stages, Stage
<1>4. Owned(p)' = Owned(p)
  BY DEF Owned
<1>5. \A q \in ports' : Deletes(p, q)' \/ (q \in ports /\ ~Deletes(p, q))
  BY DEF Deletes
<1>6. /\ given'[p] \subseteq VFs /\ \A r \in Pods \ {p} : given'[p] \cap given[r] = {}
      /\ \A r \in Pods \ {p} : Owned(p)' \cap Owned(r) = {}
  BY <1>4 DEF Given, Apart
<1>7. \A r \in Pods \ {p} : /\ pod'[r] = pod[r] /\ work'[r] = work[r]
                            /\ cni'[r] = cni[r] /\ given'[r] = given[r]
  OBVIOUS
<1>8. \A v \in VFs : \/ vf'[v].ns = None
                     \/ vf'[v].ns = vf[v].ns /\ vf[v].ns # p
                     \/ vf'[v].ns = p /\ v \in given'[p] /\ cni'[p].pc # "none"
  OBVIOUS
<1> HIDE DEF VFInv
<1> QED BY <1>1, <1>3, <1>5, <1>6, <1>7, <1>8, OfOne

(* A step of a sandbox that changes nothing on the node.                   *)
LEMMA SandboxWaits ==
    ASSUME VFInv, NEW p \in Pods, UNCHANGED <<pod, work, ports, given, vf, info>>,
           DOMAIN cni' = Pods, \A r \in Pods \ {p} : cni'[r] = cni[r],
           DOMAIN cni'[p] = DOMAIN NoSandbox, pod[p].annotated,
           cni'[p].pc \notin {"none", "record", "save"}, cni'[p].todo \subseteq pod[p].vifs,
           \A v \in VFs : Returns(p, v) => Returns(p, v)',
           \A q \in Ports : Forgets(p, q) => Forgets(p, q)'
    PROVE  VFInv'
<1>1. /\ info' = [q \in Ports |-> info'[q]]
      /\ DOMAIN vf' = VFs /\ \A v \in VFs : DOMAIN vf'[v] = DOMAIN Unused
  BY DEF VFInv, Shapes
<1>2. \A v \in VFs : \/ vf'[v].ns = None
                     \/ vf'[v].ns = vf[v].ns /\ vf[v].ns # p
                     \/ vf'[v].ns = p /\ v \in given[p] /\ cni'[p].pc # "none"
  BY DEF VFInv, Moved
<1>3. \A v \in VFs : \/ vf'[v].driver = "kernel"
                     \/ vf'[v].driver = "user" /\ Returns(p, v)'
                     \/ vf'[v].driver = vf[v].driver /\ ~Returns(p, v)
  BY DEF VFInv, Drivers
<1> QED BY <1>1, <1>2, <1>3, SandboxGoes

(* A vif that is about to be recorded, or being connected, is not in an    *)
(* annotation of the node.                                                 *)
LEMMA NotYetSaved ==
    ASSUME VFInv, NEW p \in Pods, cni[p].pc = "record"
    PROVE  cni[p].port \in pod[p].vifs /\ info[cni[p].port] = None
<1>1. cni[p].port \in pod[p].vifs /\ cni[p].port \in Ports
  BY DEF VFInv, Stages, Stage
<1>2. \A r \in Pods : ~Forgets(r, cni[p].port)
  BY <1>1 DEF VFInv, Apart, Owned, Forgets
<1> QED BY <1>1, <1>2 DEF VFInv, Infos

LEMMA AddKeeps ==
    ASSUME VFInv, NEW p \in Pods, Add(p)
    PROVE  VFInv'
<1>1. /\ cni[p].pc = "none" /\ pod[p].annotated /\ UNCHANGED <<pod, work, ports, given, vf, info>>
      /\ cni' = [cni EXCEPT ![p] = [NoSandbox EXCEPT !.pc = "connect", !.todo = pod[p].vifs]]
  BY DEF Add, neutron
<1>2. /\ DOMAIN cni' = Pods /\ \A r \in Pods \ {p} : cni'[r] = cni[r]
      /\ DOMAIN cni'[p] = DOMAIN NoSandbox /\ cni'[p].pc = "connect"
      /\ cni'[p].todo = pod[p].vifs
  BY <1>1 DEF VFInv, Shapes, NoSandbox
<1>3. \A v \in VFs : ~Returns(p, v)
  BY <1>1 DEF Returns, Stuck
<1>4. \A q \in Ports : ~Forgets(p, q)
  BY <1>1 DEF Forgets
<1> QED BY <1>1, <1>2, <1>3, <1>4, SandboxWaits

LEMMA ConnectedKeeps ==
    ASSUME VFInv, NEW p \in Pods, Connected(p)
    PROVE  VFInv'
<1>1. /\ cni[p].pc = "connect" /\ cni[p].todo = {}
      /\ UNCHANGED <<pod, work, ports, given, vf, info>>
      /\ cni' = [cni EXCEPT ![p] = [NoSandbox EXCEPT !.pc = "done"]]
  BY DEF Connected, neutron
<1>2. /\ DOMAIN cni' = Pods /\ \A r \in Pods \ {p} : cni'[r] = cni[r]
      /\ DOMAIN cni'[p] = DOMAIN NoSandbox /\ cni'[p].pc = "done" /\ cni'[p].todo = {}
  BY <1>1 DEF VFInv, Shapes, NoSandbox
<1>3. pod[p].annotated
  BY <1>1 DEF VFInv, Stages, Stage
<1>4. \A v \in VFs : Returns(p, v) => Returns(p, v)'
  BY <1>1, <1>2 DEF Returns, Stuck
<1>5. \A q \in Ports : Forgets(p, q) => Forgets(p, q)'
  BY <1>1, <1>2 DEF Forgets, Exists
<1> QED BY <1>1, <1>2, <1>3, <1>4, <1>5, SandboxWaits

(* One that fails before its function is recorded is stuck.                *)
LEMMA AddFailsKeeps ==
    ASSUME VFInv, NEW p \in Pods, AddFails(p)
    PROVE  VFInv'
<1>1. /\ cni[p].pc \in {"connect", "record", "save"}
      /\ UNCHANGED <<pod, work, ports, given, vf, info>>
      /\ cni' = [cni EXCEPT ![p].pc = "failed"]
  BY DEF AddFails, neutron
<1>2. /\ DOMAIN cni' = Pods /\ \A r \in Pods \ {p} : cni'[r] = cni[r]
      /\ DOMAIN cni'[p] = DOMAIN NoSandbox /\ cni'[p].pc = "failed"
      /\ cni'[p].todo = cni[p].todo
  BY <1>1 DEF VFInv, Shapes, Shape, NoSandbox
<1>3. pod[p].annotated /\ cni[p].todo \subseteq pod[p].vifs
  BY <1>1 DEF VFInv, Stages, Stage
<1>4. ASSUME NEW v \in VFs, Returns(p, v) PROVE Returns(p, v)'
  <2>1. CASE cni[p].pc = "record" /\ cni[p].vf = v /\ cni[p].swapped = TRUE
    <3>1. cni[p].port \in pod[p].vifs /\ info[cni[p].port] = None
      BY <2>1, NotYetSaved
    <3>2. Stuck(p)'
      BY <1>1, <1>2, <3>1 DEF Stuck
    <3> QED BY <1>1, <1>4, <3>2 DEF Returns
  <2>2. CASE ~(cni[p].pc = "record" /\ cni[p].vf = v /\ cni[p].swapped = TRUE)
    BY <1>1, <1>2, <1>4, <2>2 DEF Returns, Stuck
  <2> QED BY <2>1, <2>2
<1>5. \A q \in Ports : Forgets(p, q) => Forgets(p, q)'
  BY <1>1, <1>2 DEF Forgets, Exists
<1> QED BY <1>1, <1>2, <1>3, <1>4, <1>5, SandboxWaits

LEMMA DelKeeps ==
    ASSUME VFInv, NEW p \in Pods, Del(p) \/ DelFails(p)
    PROVE  VFInv'
<1>1. /\ cni[p].pc \in {"done", "failed", "disconnect", "forget"}
      /\ UNCHANGED <<pod, work, ports, given, vf, info>>
      /\ \/ cni' = [cni EXCEPT ![p] = [NoSandbox EXCEPT !.pc = "disconnect",
                                                        !.todo = pod[p].vifs]]
         \/ cni' = [cni EXCEPT ![p] = [NoSandbox EXCEPT !.pc = "failed"]]
  BY DEF Del, DelFails, neutron
<1>2. /\ DOMAIN cni' = Pods /\ \A r \in Pods \ {p} : cni'[r] = cni[r]
      /\ DOMAIN cni'[p] = DOMAIN NoSandbox /\ cni'[p].todo \subseteq pod[p].vifs
      /\ \/ cni'[p].pc = "disconnect" /\ cni'[p].todo = pod[p].vifs
         \/ cni'[p].pc = "failed"
  BY <1>1 DEF VFInv, Shapes, NoSandbox
<1>3. pod[p].annotated /\ cni[p].todo \subseteq pod[p].vifs
  BY <1>1 DEF VFInv, Stages, Stage
<1>4. Stuck(p) => Stuck(p)'
  BY <1>1, <1>2 DEF Stuck
<1>5. \A v \in VFs : Returns(p, v) => Returns(p, v)'
  BY <1>1, <1>2, <1>4 DEF Returns
<1>6. \A q \in Ports : Forgets(p, q) => Forgets(p, q)'
  BY <1>1, <1>2 DEF Forgets, Exists
<1> QED BY <1>1, <1>2, <1>3, <1>5, <1>6, SandboxWaits
(* A function that gets another driver is to be recorded as such.          *)
LEMMA ConnectKeeps ==
    ASSUME VFInv, NEW p \in Pods, Connect(p)
    PROVE  VFInv'
<1> DEFINE q == OneOf(cni[p].todo)
           v == OneOf(Appropriate(p))
           To(pc, w, sw) == cni' = [cni EXCEPT ![p] = [pc |-> pc, todo |-> @.todo \ {q},
                                                       port |-> q, vf |-> w, swapped |-> sw]]
<1>1. /\ cni[p].pc = "connect" /\ cni[p].todo # {} /\ Exists(p)
      /\ UNCHANGED <<pod, work, ports, given, info>>
      /\ \/ /\ Appropriate(p) # {} /\ vf' = [vf EXCEPT ![v].driver = "user", ![v].mac = q]
            /\ To("record", v, vf[v].driver = "kernel")
         \/ /\ Appropriate(p) # {} /\ vf[v].ns = None
            /\ vf' = [vf EXCEPT ![v].mac = q, ![v].ns = p] /\ To("record", v, FALSE)
         \/ To("failed", None, FALSE) /\ UNCHANGED vf
         \/ To("save", None, FALSE) /\ UNCHANGED vf
  BY DEF Connect, neutron
<1>2. /\ q \in cni[p].todo /\ q \in pod[p].vifs /\ pod[p].vifs \subseteq Ports
      /\ cni[p].todo \subseteq pod[p].vifs /\ pod[p].annotated
  BY <1>1 DEF OneOf, VFInv, Stages, Stage
<1>3. Appropriate(p) # {} => v \in given[p] \ Recorded(p) /\ v \in VFs
  BY DEF OneOf, Appropriate, VFInv, Given
<1> HIDE DEF q, v
<1>4. ASSUME NEW pc, NEW w, NEW sw, To(pc, w, sw)
      PROVE  /\ DOMAIN cni' = Pods /\ \A r \in Pods \ {p} : cni'[r] = cni[r]
             /\ DOMAIN cni'[p] = DOMAIN NoSandbox /\ cni'[p].pc = pc
             /\ cni'[p].todo = cni[p].todo \ {q} /\ cni'[p].port = q
             /\ cni'[p].vf = w /\ cni'[p].swapped = sw
  BY <1>4 DEF VFInv, Shapes, NoSandbox
<1> DEFINE Swaps == /\ cni'[p].pc = "record" /\ cni'[p].vf = v /\ v \in given[p] \ Recorded(p)
                    /\ vf' = [vf EXCEPT ![v].driver = "user", ![v].mac = q]
                    /\ cni'[p].swapped = (vf[v].driver = "kernel")
           Moves == /\ cni'[p].pc = "record" /\ cni'[p].vf = v /\ v \in given[p] \ Recorded(p)
                    /\ vf[v].ns = None /\ vf' = [vf EXCEPT ![v].mac = q, ![v].ns = p]
           NoVF == cni'[p].pc \in {"failed", "save"} /\ vf' = vf
<1>5. /\ DOMAIN cni' = Pods /\ \A r \in Pods \ {p} : cni'[r] = cni[r]
      /\ DOMAIN cni'[p] = DOMAIN NoSandbox
      /\ cni'[p].todo = cni[p].todo \ {q} /\ cni'[p].port = q
      /\ Swaps \/ Moves \/ NoVF
  <2> HIDE DEF To
  <2>1. CASE /\ Appropriate(p) # {} /\ vf' = [vf EXCEPT ![v].driver = "user", ![v].mac = q]
             /\ To("record", v, vf[v].driver = "kernel")
    BY <1>3, <1>4, <2>1
  <2>2. CASE /\ Appropriate(p) # {} /\ vf[v].ns = None
             /\ vf' = [vf EXCEPT ![v].mac = q, ![v].ns = p] /\ To("record", v, FALSE)
    BY <1>3, <1>4, <2>2
  <2>3. CASE To("failed", None, FALSE) /\ UNCHANGED vf
    BY <1>4, <2>3
  <2>4. CASE To("save", None, FALSE) /\ UNCHANGED vf
    BY <1>4, <2>4
  <2> QED BY <1>1, <2>1, <2>2, <2>3, <2>4
<1> HIDE DEF To
<1>6. /\ DOMAIN vf' = VFs /\ \A x \in VFs : DOMAIN vf'[x] = DOMAIN Unused
      /\ \A x \in VFs : \/ vf'[x].ns = vf[x].ns
                        \/ x \in given[p] /\ vf'[x].ns = p
      /\ \A x \in VFs : \/ vf'[x].driver = vf[x].driver
                        \/ x = v /\ vf'[x].driver = "user" /\ Swaps
  <2>1. DOMAIN vf = VFs /\ \A x \in VFs : DOMAIN vf[x] = DOMAIN Unused
    BY DEF VFInv, Shapes
  <2>2. CASE Swaps
    BY <2>1, <2>2 DEF Unused
  <2>3. CASE Moves
    BY <2>1, <2>3 DEF Unused
  <2>4. CASE NoVF
    BY <2>1, <2>4
  <2> QED BY <1>5, <2>2, <2>3, <2>4
<1>7. \A x \in VFs : \/ vf'[x].ns = None
                     \/ vf'[x].ns = vf[x].ns /\ vf[x].ns # p
                     \/ vf'[x].ns = p /\ x \in given[p] /\ cni'[p].pc # "none"
  BY <1>5, <1>6 DEF VFInv, Moved
<1>8. \A x \in VFs : Returns(p, x) => Returns(p, x)'
  BY <1>1, <1>5 DEF Returns, Stuck
<1>9. ASSUME NEW x \in VFs PROVE \/ vf'[x].driver = "kernel"
                                 \/ vf'[x].driver = "user" /\ Returns(p, x)'
                                 \/ vf'[x].driver = vf[x].driver /\ ~Returns(p, x)
  <2>1. vf[x].driver \in {"kernel", "user"}
    BY DEF VFInv, Drivers
  <2>2. CASE vf'[x].driver = vf[x].driver
    BY <1>8, <2>1, <2>2
  <2>3. CASE vf'[x].driver # vf[x].driver
    <3>1. x = v /\ vf'[x].driver = "user" /\ Swaps
      BY <1>6, <2>3
    <3>2. CASE vf[v].driver = "kernel"
      BY <1>1, <3>1, <3>2 DEF Returns
    <3>3. CASE vf[v].driver = "user"
      BY <2>1, <2>3, <3>1, <3>3
    <3> QED BY <2>1, <3>1, <3>2, <3>3
  <2> QED BY <2>2, <2>3
<1>10. \A x \in Ports : Forgets(p, x) => Forgets(p, x)'
  BY <1>1, <1>2, <1>5 DEF Forgets, Exists
<1>11. /\ cni'[p].todo \subseteq pod[p].vifs /\ cni'[p].port \in pod[p].vifs \ cni'[p].todo
       /\ cni'[p].pc = "record" => cni'[p].vf \in given[p] \ Recorded(p)
       /\ cni'[p].pc # "none" /\ info' = [x \in Ports |-> info'[x]]
  BY <1>1, <1>2, <1>5 DEF VFInv, Shapes
<1> HIDE DEF Swaps, Moves, NoVF
<1> QED BY <1>1, <1>2, <1>5, <1>6, <1>7, <1>9, <1>10, <1>11, SandboxGoes

LEMMA RecordKeeps ==
    ASSUME VFInv, NEW p \in Pods, Record(p)
    PROVE  VFInv'
<1> DEFINE w == cni[p].vf
           device == [port |-> cni[p].port, swapped |-> cni[p].swapped]
<1>1. /\ cni[p].pc = "record" /\ Exists(p) /\ UNCHANGED <<work, ports, given, vf, info>>
      /\ pod' = [pod EXCEPT ![p].news = TRUE, ![p].devices[w] = device]
      /\ cni' = [cni EXCEPT ![p].pc = "save"]
  BY DEF Record, neutron
<1>2. /\ w \in given[p] \ Recorded(p) /\ w \in VFs /\ cni[p].port \in pod[p].vifs \ cni[p].todo
      /\ pod[p].vifs \subseteq Ports /\ None \notin Ports
  BY <1>1, SriovAssumption DEF VFInv, Stages, Stage, Given
<1>3. /\ DOMAIN cni' = Pods /\ \A r \in Pods \ {p} : cni'[r] = cni[r]
      /\ DOMAIN cni'[p] = DOMAIN NoSandbox /\ cni'[p].pc = "save"
      /\ cni'[p].todo = cni[p].todo /\ cni'[p].port = cni[p].port
  BY <1>1 DEF VFInv, Shapes, Shape, NoSandbox
<1>4. /\ DOMAIN pod' = Pods /\ \A r \in Pods \ {p} : pod'[r] = pod[r]
      /\ DOMAIN pod'[p] = DOMAIN NoPod /\ pod'[p].st = pod[p].st
      /\ pod'[p].vifs = pod[p].vifs /\ pod'[p].annotated = pod[p].annotated
      /\ DOMAIN pod'[p].devices = VFs /\ pod'[p].devices[w] = device
      /\ \A x \in VFs \ {w} : pod'[p].devices[x] = pod[p].devices[x]
  BY <1>1, <1>2 DEF VFInv, Shapes, Shape, NoPod
<1> HIDE DEF device
<1>5. Shapes'
  BY <1>1, <1>3, <1>4 DEF VFInv, Shapes, Shape
<1>6. Exists(p)' = Exists(p)
  BY <1>4 DEF Exists
<1>7. Stage(p)'
  BY <1>1, <1>2, <1>3, <1>4, <1>6 DEF VFInv, Stages, Stage, Exists
<1>8. Owned(p)' = Owned(p)
  BY <1>1, <1>4 DEF Owned
<1>9. ASSUME NEW x \in VFs, Returns(p, x) PROVE Returns(p, x)'
  <2>1. CASE x = w
    <3>1. pod[p].devices[x].port = None
      BY <1>2, <2>1 DEF Recorded
    <3>2. cni[p].swapped = TRUE
      BY <1>1, <1>2, <1>9, <3>1 DEF Returns, Stuck
    <3>3. pod'[p].devices[x] = [port |-> cni[p].port, swapped |-> TRUE]
      BY <1>4, <2>1, <3>2 DEF device
    <3>4. pod'[p].devices[x].port = cni[p].port
      BY <3>3
    <3>5. pod'[p].devices[x] = [port |-> pod'[p].devices[x].port, swapped |-> TRUE]
      BY <3>3, <3>4
    <3>6. x \in given'[p] /\ pod'[p].devices[x].port \in pod'[p].vifs
      BY <1>1, <1>2, <1>4, <2>1, <3>4
    <3> QED BY <1>3, <3>5, <3>6 DEF Returns
  <2>2. CASE x # w
    BY <1>1, <1>3, <1>4, <1>9, <2>2 DEF Returns, Stuck
  <2> QED BY <2>1, <2>2
<1>10. \A v \in VFs : \/ vf'[v].driver = "kernel"
                      \/ vf'[v].driver = "user" /\ Returns(p, v)'
                      \/ vf'[v].driver = vf[v].driver /\ ~Returns(p, v)
  BY <1>1, <1>9 DEF VFInv, Drivers
<1>11. \A q \in Ports : Forgets(p, q) => Forgets(p, q)'
  BY <1>1, <1>3, <1>4, <1>6 DEF Forgets
<1>12. \A v \in VFs : \/ vf'[v].ns = None
                      \/ vf'[v].ns = vf[v].ns /\ vf[v].ns # p
                      \/ vf'[v].ns = p /\ v \in given'[p] /\ cni'[p].pc # "none"
  BY <1>1, <1>3 DEF VFInv, Moved
<1>13. \A q \in ports' : Deletes(p, q)' \/ (q \in ports /\ ~Deletes(p, q))
  BY <1>1, <1>4 DEF Deletes
<1>14. /\ given'[p] \subseteq VFs /\ \A r \in Pods \ {p} : given'[p] \cap given[r] = {}
       /\ \A r \in Pods \ {p} : Owned(p)' \cap Owned(r) = {}
  BY <1>1, <1>8 DEF VFInv, Given, Apart
<1> QED BY <1>1, <1>3, <1>4, <1>5, <1>7, <1>10, <1>11, <1>12, <1>13, <1>14, OfOne

LEMMA SaveInfoKeeps ==
    ASSUME VFInv, NEW p \in Pods, SaveInfo(p)
    PROVE  VFInv'
<1>1. /\ cni[p].pc = "save" /\ UNCHANGED <<pod, work, ports, given, vf>>
      /\ \E x : info' = [info EXCEPT ![cni[p].port] = x]
      /\ \E pc \in {"failed", "connect"} : cni' = [cni EXCEPT ![p].pc = pc]
  BY DEF SaveInfo, neutron
<1>2. /\ DOMAIN cni' = Pods /\ \A r \in Pods \ {p} : cni'[r] = cni[r]
      /\ DOMAIN cni'[p] = DOMAIN NoSandbox /\ cni'[p].pc \in {"failed", "connect"}
      /\ cni'[p].todo = cni[p].todo
  BY <1>1 DEF VFInv, Shapes, Shape, NoSandbox
<1>3. /\ Exists(p) /\ cni[p].port \in pod[p].vifs \ cni[p].todo /\ cni[p].todo \subseteq pod[p].vifs
      /\ pod[p].vifs \subseteq Ports /\ pod[p].annotated
  BY <1>1 DEF VFInv, Stages, Stage
<1>4. info' = [q \in Ports |-> info'[q]] /\ \A q \in Ports \ {cni[p].port} : info'[q] = info[q]
  BY <1>1 DEF VFInv, Shapes
<1>5. \A q \in Ports : Forgets(p, q) \/ q = cni[p].port => Forgets(p, q)'
  BY <1>1, <1>2, <1>3 DEF Forgets, Exists
<1>6. \A v \in VFs : Returns(p, v) => Returns(p, v)'
  BY <1>1, <1>2 DEF Returns, Stuck
<1>7. \A v \in VFs : \/ vf'[v].driver = "kernel"
                     \/ vf'[v].driver = "user" /\ Returns(p, v)'
                     \/ vf'[v].driver = vf[v].driver /\ ~Returns(p, v)
  BY <1>1, <1>6 DEF VFInv, Drivers
<1>8. \A v \in VFs : \/ vf'[v].ns = None
                     \/ vf'[v].ns = vf[v].ns /\ vf[v].ns # p
                     \/ vf'[v].ns = p /\ v \in given[p] /\ cni'[p].pc # "none"
  BY <1>1, <1>2 DEF VFInv, Moved
<1>9. DOMAIN vf' = VFs /\ \A v \in VFs : DOMAIN vf'[v] = DOMAIN Unused
  BY <1>1 DEF VFInv, Shapes
<1>10. \A q \in Ports : /\ info'[q] = info[q] \/ info'[q] = None \/ q \in pod[p].vifs
                        /\ \/ info'[q] = None \/ Forgets(p, q)'
                           \/ info'[q] = info[q] /\ ~Forgets(p, q)
  BY <1>3, <1>4, <1>5
<1> QED BY <1>1, <1>2, <1>3, <1>4, <1>7, <1>8, <1>9, <1>10, SandboxGoes

LEMMA DisconnectKeeps ==
    ASSUME VFInv, NEW p \in Pods, Disconnect(p)
    PROVE  VFInv'
<1> DEFINE q == OneOf(cni[p].todo)
           back == {v \in VFs : pod[p].devices[v] = [port |-> q, swapped |-> TRUE]}
<1>1. /\ cni[p].pc = "disconnect" /\ UNCHANGED <<pod, work, ports, given, info>>
      /\ vf' = [v \in VFs |-> IF v \in back THEN [vf[v] EXCEPT !.driver = "kernel"] ELSE vf[v]]
      /\ cni' = [cni EXCEPT ![p].pc = "forget", ![p].port = q]
  BY DEF Disconnect, ReturnDriver, neutron
<1> HIDE DEF q
<1>2. /\ DOMAIN cni' = Pods /\ \A r \in Pods \ {p} : cni'[r] = cni[r]
      /\ DOMAIN cni'[p] = DOMAIN NoSandbox /\ cni'[p].pc = "forget"
      /\ cni'[p].todo = cni[p].todo /\ cni'[p].port = q
  BY <1>1 DEF VFInv, Shapes, Shape, NoSandbox
<1>3. /\ DOMAIN vf' = VFs /\ info' = [x \in Ports |-> info'[x]]
      /\ \A v \in VFs : /\ DOMAIN vf'[v] = DOMAIN Unused /\ vf'[v].ns = vf[v].ns
                        /\ v \in back => vf'[v].driver = "kernel"
                        /\ v \notin back => vf'[v] = vf[v]
  BY <1>1 DEF VFInv, Shapes, Unused
<1>4. pod[p].annotated /\ cni[p].todo \subseteq pod[p].vifs
  BY <1>1 DEF VFInv, Stages, Stage
<1>5. \A v \in VFs \ back : Returns(p, v) => Returns(p, v)'
  BY <1>1, <1>2 DEF Returns, Stuck
<1>6. \A v \in VFs : \/ vf'[v].driver = "kernel"
                     \/ vf'[v].driver = "user" /\ Returns(p, v)'
                     \/ vf'[v].driver = vf[v].driver /\ ~Returns(p, v)
  BY <1>3, <1>5 DEF VFInv, Drivers
<1>7. \A v \in VFs : \/ vf'[v].ns = None
                     \/ vf'[v].ns = vf[v].ns /\ vf[v].ns # p
                     \/ vf'[v].ns = p /\ v \in given[p] /\ cni'[p].pc # "none"
  BY <1>2, <1>3 DEF VFInv, Moved
<1>8. \A x \in Ports : Forgets(p, x) => Forgets(p, x)'
  BY <1>1, <1>2 DEF Forgets, Exists
<1>9. \A x \in Ports : \/ info'[x] = None \/ Forgets(p, x)'
                       \/ info'[x] = info[x] /\ ~Forgets(p, x)
  BY <1>1, <1>8
<1>10. UNCHANGED <<pod, work, ports, given, info>> /\ cni'[p].pc \notin {"none", "record", "save"}
  BY <1>1, <1>2
<1>11. \A v \in VFs : DOMAIN vf'[v] = DOMAIN Unused
  BY <1>3
<1>12. cni'[p].todo \subseteq pod[p].vifs
  BY <1>2, <1>4
<1>13. DOMAIN vf' = VFs /\ info' = [x \in Ports |-> info'[x]]
  BY <1>3
<1> QED BY <1>2, <1>4, <1>6, <1>7, <1>9, <1>10, <1>11, <1>12, <1>13, SandboxGoes

LEMMA RemoveInfoKeeps ==
    ASSUME VFInv, NEW p \in Pods, RemoveInfo(p)
    PROVE  VFInv'
<1>1. /\ cni[p].pc = "forget" /\ info[cni[p].port] # None
      /\ UNCHANGED <<pod, work, ports, given, vf>>
      /\ info' = [info EXCEPT ![cni[p].port] = None]
      /\ cni' = [cni EXCEPT ![p].pc = "disconnect", ![p].todo = @ \ {cni[p].port}]
  BY DEF RemoveInfo, neutron
<1>2. /\ DOMAIN cni' = Pods /\ \A r \in Pods \ {p} : cni'[r] = cni[r]
      /\ DOMAIN cni'[p] = DOMAIN NoSandbox /\ cni'[p].pc = "disconnect"
      /\ cni'[p].todo = cni[p].todo \ {cni[p].port}
  BY <1>1 DEF VFInv, Shapes, Shape, NoSandbox
<1>3. /\ info' = [q \in Ports |-> info'[q]] /\ \A q \in Ports \ {cni[p].port} : info'[q] = info[q]
      /\ cni[p].port \in Ports => info'[cni[p].port] = None
  BY <1>1 DEF VFInv, Shapes
<1>4. pod[p].annotated /\ pod[p].vifs \subseteq Ports /\ cni[p].todo \subseteq pod[p].vifs
  BY <1>1 DEF VFInv, Stages, Stage
<1>5. Stuck(p) => Stuck(p)'
  BY <1>1, <1>2, <1>3, <1>4 DEF Stuck
<1>6. \A v \in VFs : Returns(p, v) => Returns(p, v)'
  BY <1>1, <1>2, <1>5 DEF Returns
<1>7. \A v \in VFs : \/ vf'[v].driver = "kernel"
                     \/ vf'[v].driver = "user" /\ Returns(p, v)'
                     \/ vf'[v].driver = vf[v].driver /\ ~Returns(p, v)
  BY <1>1, <1>6 DEF VFInv, Drivers
<1>8. \A v \in VFs : \/ vf'[v].ns = None
                     \/ vf'[v].ns = vf[v].ns /\ vf[v].ns # p
                     \/ vf'[v].ns = p /\ v \in given[p] /\ cni'[p].pc # "none"
  BY <1>1, <1>2 DEF VFInv, Moved
<1>9. \A q \in Ports \ {cni[p].port} : Forgets(p, q) => Forgets(p, q)'
  BY <1>1, <1>2 DEF Forgets, Exists
<1>10. \A q \in Ports : /\ info'[q] = info[q] \/ info'[q] = None
                        /\ \/ info'[q] = None \/ Forgets(p, q)'
                           \/ info'[q] = info[q] /\ ~Forgets(p, q)
  BY <1>3, <1>9
<1>11. DOMAIN vf' = VFs /\ \A v \in VFs : DOMAIN vf'[v] = DOMAIN Unused
  BY <1>1 DEF VFInv, Shapes
<1> QED BY <1>1, <1>2, <1>3, <1>4, <1>7, <1>8, <1>10, <1>11, SandboxGoes

(* All vifs have been disconnected: what is left is to return to the host. *)
LEMMA DisconnectedKeeps ==
    ASSUME VFInv, NEW p \in Pods, Disconnected(p)
    PROVE  VFInv'
<1>1. /\ cni[p].pc = "disconnect" /\ cni[p].todo = {}
      /\ UNCHANGED <<pod, work, ports, given, info>> /\ cni' = [cni EXCEPT ![p] = NoSandbox]
      /\ vf' = [v \in VFs |-> IF vf[v].ns = p THEN [vf[v] EXCEPT !.ns = None] ELSE vf[v]]
  BY DEF Disconnected, neutron
<1>2. /\ DOMAIN cni' = Pods /\ \A r \in Pods \ {p} : cni'[r] = cni[r]
      /\ DOMAIN cni'[p] = DOMAIN NoSandbox /\ cni'[p].pc = "none" /\ cni'[p].todo = {}
  BY <1>1 DEF VFInv, Shapes, NoSandbox
<1>3. /\ DOMAIN vf' = VFs /\ info' = [q \in Ports |-> info'[q]]
      /\ \A v \in VFs : /\ DOMAIN vf'[v] = DOMAIN Unused /\ vf'[v].driver = vf[v].driver
                        /\ \/ vf'[v].ns = None
                           \/ vf'[v].ns = vf[v].ns /\ vf[v].ns # p
  BY <1>1 DEF VFInv, Shapes, Unused
<1>4. \A v \in VFs : ~Returns(p, v)
  BY <1>1 DEF Returns, Stuck
<1>5. \A q \in Ports : ~Forgets(p, q)
  BY <1>1 DEF Forgets
<1> QED BY <1>1, <1>2, <1>3, <1>4, <1>5, SandboxGoes
-----------------------------------------------------------------------------
(* A restart of the controller when nothing is requested or released.      *)
LEMMA RestartKeeps ==
    ASSUME NoLoss, VFInv, Restart
    PROVE  VFInv'
<1> USE DEF VFInv
<1>1. /\ \A p \in Pods : work[p].pc \in {"idle", "profile", "update"} /\ pod[p].st # "gone"
      /\ work' = [p \in Pods |-> Idle]
      /\ pod' = [p \in Pods |-> IF pod[p].st = "gone" THEN NoPod
                                ELSE [pod[p] EXCEPT !.news = pod[p].st # "none"]]
      /\ UNCHANGED <<ports, info, vf, given, cni>>
  BY DEF Restart, NoLoss, neutron
<1>2. /\ DOMAIN work' = Pods
      /\ \A p \in Pods : DOMAIN work'[p] = DOMAIN Idle /\ work'[p].pc = "idle"
  BY <1>1 DEF Idle
<1>3. /\ DOMAIN pod' = Pods
      /\ \A p \in Pods : /\ DOMAIN pod'[p] = DOMAIN NoPod /\ pod'[p].st = pod[p].st
                         /\ pod'[p].vifs = pod[p].vifs /\ pod'[p].annotated = pod[p].annotated
                         /\ pod'[p].devices = pod[p].devices
                         /\ pod'[p].news = (pod[p].st # "none")
  BY <1>1 DEF Shapes, Shape, NoPod
<1>4. Shapes'
  BY <1>1, <1>2, <1>3 DEF Shapes, Shape
<1>5. Stages'
  <2> SUFFICES ASSUME NEW p \in Pods PROVE Stage(p)'
    BY DEF Stages
  <2>1. Exists(p)' = Exists(p) /\ Recorded(p)' = Recorded(p)
    BY <1>3 DEF Exists, Recorded
  <2>2. work'[p].pc = "idle" /\ cni'[p] = cni[p] /\ given'[p] = given[p]
    BY <1>1, <1>2
  <2>3. Stage(p) /\ pod[p].st # "gone" /\ work[p].pc # "request"
    BY <1>1 DEF Stages
  <2>4. /\ pod'[p].st = pod[p].st /\ pod'[p].vifs = pod[p].vifs
        /\ pod'[p].annotated = pod[p].annotated
        /\ pod'[p].news <=> pod[p].st # "none"
    BY <1>3
  <2> HIDE DEF VFInv
  <2> QED BY <2>1, <2>2, <2>3, <2>4 DEF Stage
<1>6. Apart'
  BY <1>1, <1>2, <1>3 DEF Apart, Owned
<1>7. Given' /\ Moved'
  BY <1>1 DEF Given, Moved
<1>8. \A p \in Pods, v \in VFs : Returns(p, v) => Returns(p, v)'
  <2> TAKE p \in Pods, v \in VFs
  <2>1. Stuck(p) => Stuck(p)'
    BY <1>1, <1>3 DEF Stuck
  <2>2. pod'[p].devices = pod[p].devices /\ pod'[p].vifs = pod[p].vifs
    BY <1>3
  <2> QED BY <1>1, <2>1, <2>2 DEF Returns
<1>9. \A p \in Pods, q \in Ports : Forgets(p, q) => Forgets(p, q)'
  BY <1>1, <1>3 DEF Forgets, Exists
<1>10. Drivers' /\ Infos'
  BY <1>1, <1>8, <1>9 DEF Drivers, Infos
<1>11. PortsKept'
  BY <1>1, <1>2, <1>3 DEF PortsKept, Deletes
<1> QED BY <1>4, <1>5, <1>6, <1>7, <1>10, <1>11

-----------------------------------------------------------------------------
(* The theorems.                                                           *)

LEMMA InitVF == Init => VFInv
<1> SUFFICES ASSUME Init PROVE VFInv
  OBVIOUS
<1>1. /\ \A p \in Pods : pod[p] = NoPod /\ work[p] = Idle /\ cni[p] = NoSandbox /\ given[p] = {}
      /\ \A v \in VFs : vf[v] = Unused
      /\ ports = {} /\ \A q \in Ports : info[q] = None
      /\ DOMAIN pod = Pods /\ DOMAIN work = Pods /\ DOMAIN cni = Pods
      /\ DOMAIN given = Pods /\ info = [q \in Ports |-> info[q]] /\ DOMAIN vf = VFs
  BY DEF Init
<1>2. /\ NoPod.st = "none" /\ NoPod.vifs = {} /\ ~NoPod.news /\ ~NoPod.annotated
      /\ NoPod.devices = NoDevices /\ DOMAIN NoDevices = VFs
      /\ Idle.pc = "idle" /\ NoSandbox.pc = "none" /\ NoSandbox.todo = {}
      /\ Unused.driver = "kernel" /\ Unused.ns = None
  BY DEF NoPod, NoDevices, Idle, NoSandbox, Unused
<1>3. Shapes
  BY <1>1, <1>2 DEF Shapes, Shape
<1>4. Stages
  BY <1>1, <1>2 DEF Stages, Stage
<1>5. Apart /\ Given
  BY <1>1, <1>2 DEF Apart, Owned, Given
<1>6. Moved /\ Drivers /\ Infos /\ PortsKept
  BY <1>1, <1>2 DEF Moved, Drivers, Infos, PortsKept
<1> QED BY <1>3, <1>4, <1>5, <1>6 DEF VFInv

LEMMA NextVF == NoLoss /\ VFInv /\ [Next]_vars => VFInv'
<1> SUFFICES ASSUME NoLoss, VFInv, [Next]_vars PROVE VFInv'
  OBVIOUS
<1>1. ASSUME NEW p \in Pods, CreatePod(p) \/ DeletePod(p) \/ Kubelet(p) PROVE VFInv'
  BY <1>1, CreatePodKeeps, DeletePodKeeps, KubeletKeeps
<1>2. ASSUME NEW p \in Pods, Handler(p) \/ RequestFails(p) PROVE VFInv'
  BY <1>2, TakeKeeps, RequestKeeps, RequestFailsKeeps, AnnotateKeeps, ProfileKeeps, ReleaseKeeps
     DEF Handler
<1>3. ASSUME NEW p \in Pods, Daemon(p) \/ AddFails(p) \/ DelFails(p) PROVE VFInv'
  BY <1>3, AddKeeps, ConnectKeeps, RecordKeeps, SaveInfoKeeps, ConnectedKeeps, AddFailsKeeps,
     DelKeeps, DisconnectKeeps, RemoveInfoKeeps, DisconnectedKeeps DEF Daemon
<1>4. CASE Restart
  BY <1>4, RestartKeeps
<1>5. CASE UNCHANGED vars
  BY <1>5 DEF vars, neutron, VFInv, Shapes, Shape, Stages, Stage, Exists, Recorded, Apart, Owned,
     Given, Moved, Drivers, Returns, Stuck, Infos, Forgets, PortsKept, Deletes
<1> QED BY <1>1, <1>2, <1>3, <1>4, <1>5 DEF Next

(* SriovVIFDriver, VIFSriovDriver: for all that has been done to the node  *)
(* or in Neutron for a pod, there is a sandbox or a thread of the handler  *)
(* that will undo it, without the timings of NoLoss.                       *)
THEOREM WillBeUndone ==
    ASSUME NoLoss
    PROVE  Spec => []VFInv
<1>1. VFInv /\ [Next]_vars => VFInv'
  BY NextVF
<1> QED BY <1>1, InitVF, PTL DEF Spec

LEMMA UndoneIsLeft == VFInv => NothingLeft
<1> SUFFICES ASSUME VFInv PROVE NothingLeft
  OBVIOUS
<1> USE DEF VFInv
<1>1. ASSUME NEW v \in VFs \ UNION {given[p] : p \in Pods}
      PROVE  vf[v].driver = "kernel" /\ vf[v].ns = None
  <2>1. \A p \in Pods : v \notin given[p]
    <3> TAKE p \in Pods
    <3>1. given[p] \in {given[r] : r \in Pods}
      OBVIOUS
    <3> QED BY <3>1
  <2> QED BY <2>1 DEF Moved, Drivers, Returns
<1>2. ASSUME \A p \in Pods : pod[p].st = "none" /\ work[p].pc = "idle"
      PROVE  ports = {} /\ info = [q \in Ports |-> None]
  <2>1. ports = {}
    BY <1>2 DEF PortsKept, Deletes
  <2>2. \A q \in Ports : info[q] = None
    BY <1>2 DEF Infos, Forgets, Exists
  <2>3. info = [q \in Ports |-> info[q]]
    BY DEF Shapes
  <2> QED BY <2>1, <2>2, <2>3
<1> QED BY <1>1, <1>2 DEF NothingLeft

(* release_vif, _return_device_driver, _remove_pci_info: a function that   *)
(* nobody has is on the host with the driver of the kernel, and once all   *)
(* pods have gone there is no port, nor an annotation of the node.         *)
THEOREM LeavesNothing ==
    ASSUME NoLoss
    PROVE  Spec => []NothingLeft
BY WillBeUndone, UndoneIsLeft, PTL
=============================================================================

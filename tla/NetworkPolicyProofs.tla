------------------------- MODULE NetworkPolicyProofs ------------------------
(***************************************************************************)
(* That no security group outlives its policy (NoGroupLeft), that a port   *)
(* keeps the groups of the policies that stand (StaysProtected), and that  *)
(* in the end it has those of the policies that select its pod and no      *)
(* others (GroupsFollow), for any number of policies, pods and namespaces, *)
(* by inductive invariants.                                                *)
(*                                                                         *)
(* A group belongs to a policy from its creation to its deletion: first    *)
(* by what the policy's thread remembers (sg, while the record is still    *)
(* to be written), then by the record.  The argument is who holds a group  *)
(* (Held), that no two policies hold the same (Apart), what each stage of  *)
(* a handler may rely on (Stages), and which event is still to come for a  *)
(* policy that has a record and is gone, or has none and is there          *)
(* (Wanted).                                                               *)
(***************************************************************************)
EXTENDS NetworkPolicy, TLAPS

-----------------------------------------------------------------------------
(* The inductive invariant.                                                *)

IsWork(w) == DOMAIN w = DOMAIN Idle
IsCrd(c)  == DOMAIN c = DOMAIN NoCrd
IsNp(o)   == /\ DOMAIN o = {"live", "spec", "ev"}
             /\ o.live \in BOOLEAN /\ o.ev \in {"none", "present", "deleted"}

Creating == {"sg", "rules", "post"}
PolicyPcs == {"idle", "failed", "again", "delete", "create", "store", "list", "pods",
              "unuse", "uncrd"} \cup Creating
ObjectPcs == {"idle", "failed", "next", "edit", "patch", "annotate", "put"}

Shapes == /\ DOMAIN work = Threads /\ \A t \in Threads : IsWork(work[t])
          /\ DOMAIN crd = Policies /\ \A n \in Policies : IsCrd(crd[n])
          /\ DOMAIN np = Policies /\ \A n \in Policies : IsNp(np[n])

Pcs == /\ \A n \in Policies : work[n].pc \in PolicyPcs
       /\ \A t \in Pods \cup Spaces : work[t].pc \in ObjectPcs

(* The stages of a policy's thread: a group is being given to a policy     *)
(* that has no record; the other stages work on a record; a deletion knows *)
(* the group recorded, and has deleted it before it deletes the record.    *)
Stage(n) ==
    /\ work[n].pc \in Creating => crd[n] = NoCrd /\ work[n].sg \in groups
    /\ work[n].pc \in {"delete", "create", "store", "list", "pods"} => crd[n] # NoCrd
    /\ work[n].pc \in {"unuse", "uncrd"} => work[n].at = "delete"
    /\ work[n].pc = "uncrd" => work[n].sg \notin groups
    /\ work[n].at = "delete" => /\ work[n].pc \in {"pods", "unuse", "uncrd"}
                                /\ np[n].ev = "deleted"
                                /\ crd[n] # NoCrd /\ work[n].sg = crd[n].sg
Stages == \A n \in Policies : Stage(n)

(* A policy that is there without a record has an event to come, and so    *)
(* has one that is gone with a record, or while one is made.               *)
Want(n) ==
    /\ np[n].ev = "deleted" => ~np[n].live
    /\ (np[n].live /\ np[n].ev = "none") => crd[n] # NoCrd
    /\ (~np[n].live /\ (crd[n] # NoCrd \/ work[n].pc \in Creating)) => np[n].ev = "deleted"
Wanted == \A n \in Policies : Want(n)

Holds(n) == crd[n] # NoCrd \/ work[n].pc \in Creating
ItsGroup(n) == IF crd[n] # NoCrd THEN crd[n].sg ELSE work[n].sg

(* Every group is held by a policy; the recorded ones exist, except while  *)
(* a deletion is under way.                                                *)
Record(n) == crd[n] # NoCrd => /\ crd[n].sg # None
                               /\ np[n].ev # "deleted" => crd[n].sg \in groups
Held == /\ groups \subseteq Groups
        /\ \A g \in groups : \E n \in Policies : Holds(n) /\ ItsGroup(n) = g
        /\ \A n \in Policies : Record(n)
Apart == \A n, m \in Policies : (n # m /\ Holds(n) /\ Holds(m)) => ItsGroup(n) # ItsGroup(m)

GroupInv == Shapes /\ Pcs /\ Stages /\ Wanted /\ Held /\ Apart

-----------------------------------------------------------------------------
(* Steps that leave each policy as it is.                                  *)

(* What GroupInv says is of policies: of their threads, the events, the    *)
(* groups, and of a record only that it is there and its group.  So it     *)
(* stands when none of these changes.                                      *)
LEMMA Aside ==
    ASSUME GroupInv, Shapes', Pcs', groups' = groups,
           \A n \in Policies :
               /\ work'[n].pc = work[n].pc /\ work'[n].at = work[n].at /\ work'[n].sg = work[n].sg
               /\ np'[n].live = np[n].live /\ np'[n].ev = np[n].ev
               /\ crd'[n].sg = crd[n].sg /\ (crd'[n] = NoCrd <=> crd[n] = NoCrd)
    PROVE  GroupInv'
<1> USE DEF GroupInv
<1>1. \A n \in Policies : /\ Holds(n)' <=> Holds(n)
                          /\ Holds(n) => ItsGroup(n)' = ItsGroup(n)
  BY DEF Holds, ItsGroup
<1>2. Stages'
  BY DEF Stages, Stage
<1>3. Wanted'
  BY DEF Wanted, Want
<1>4. Held'
  <2>1. \A n \in Policies : Record(n)'
    BY DEF Held, Record
  <2>2. \A g \in groups' : \E n \in Policies : Holds(n)' /\ ItsGroup(n)' = g
    BY <1>1 DEF Held
  <2> QED BY <2>1, <2>2 DEF Held
<1>5. Apart'
  BY <1>1 DEF Apart
<1> QED BY <1>2, <1>3, <1>4, <1>5

(* A step of one policy's thread: the others are as before, and so are     *)
(* their groups.                                                           *)
LEMMA OfOne ==
    ASSUME GroupInv, Shapes', Pcs', NEW n \in Policies,
           groups' \subseteq Groups,
           Stage(n)', Want(n)', Record(n)',
           \A m \in Policies \ {n} :
               /\ work'[m] = work[m] /\ np'[m] = np[m] /\ crd'[m] = crd[m]
               /\ Holds(m) => (ItsGroup(m) \in groups' <=> ItsGroup(m) \in groups)
               /\ Holds(m) /\ Holds(n)' => ItsGroup(m) # ItsGroup(n)',
           \A g \in groups' : g \in groups \/ (Holds(n)' /\ g = ItsGroup(n)'),
           Holds(n) /\ ItsGroup(n) \in groups' => Holds(n)' /\ ItsGroup(n)' = ItsGroup(n)
    PROVE  GroupInv'
<1> USE DEF GroupInv
<1>1. \A m \in Policies \ {n} : (Holds(m)' <=> Holds(m)) /\ ItsGroup(m)' = ItsGroup(m)
  BY DEF Holds, ItsGroup
<1>2. Stages'
  <2> SUFFICES ASSUME NEW m \in Policies, m # n PROVE Stage(m)'
    BY DEF Stages
  <2>1. Stage(m) /\ work'[m] = work[m] /\ np'[m] = np[m] /\ crd'[m] = crd[m]
    BY DEF Stages
  <2>2. work[m].pc \in Creating => work[m].sg \in groups'
    <3> SUFFICES ASSUME work[m].pc \in Creating PROVE work[m].sg \in groups'
      OBVIOUS
    <3>1. crd[m] = NoCrd /\ work[m].sg \in groups
      BY <2>1 DEF Stage
    <3>2. Holds(m) /\ ItsGroup(m) = work[m].sg
      BY <3>1 DEF Holds, ItsGroup
    <3> QED BY <3>1, <3>2
  <2>3. work[m].pc = "uncrd" => work[m].sg \notin groups'
    <3> SUFFICES ASSUME work[m].pc = "uncrd" PROVE work[m].sg \notin groups'
      OBVIOUS
    <3>1. crd[m] # NoCrd /\ work[m].sg = crd[m].sg /\ work[m].sg \notin groups
      BY <2>1 DEF Stage
    <3>2. Holds(m) /\ ItsGroup(m) = work[m].sg
      BY <3>1 DEF Holds, ItsGroup
    <3> QED BY <3>1, <3>2
  <2> QED BY <2>1, <2>2, <2>3 DEF Stage
<1>3. Wanted'
  BY DEF Wanted, Want
<1>4. Held'
  <2>1. ASSUME NEW m \in Policies PROVE Record(m)'
    <3>1. CASE m = n BY <3>1
    <3>2. CASE m # n
      <4>1. Record(m) /\ np'[m] = np[m] /\ crd'[m] = crd[m]
        BY <3>2 DEF Held
      <4>2. crd[m] # NoCrd => Holds(m) /\ ItsGroup(m) = crd[m].sg
        BY DEF Holds, ItsGroup
      <4> QED BY <3>2, <4>1, <4>2 DEF Record
    <3> QED BY <3>1, <3>2
  <2>2. ASSUME NEW g \in groups' PROVE \E m \in Policies : Holds(m)' /\ ItsGroup(m)' = g
    <3>1. CASE g \in groups
      <4>1. PICK m \in Policies : Holds(m) /\ ItsGroup(m) = g
        BY <3>1 DEF Held
      <4> QED BY <1>1, <4>1
    <3> QED BY <3>1
  <2> QED BY <2>1, <2>2 DEF Held
<1>5. Apart'
  <2> SUFFICES ASSUME NEW k \in Policies, NEW m \in Policies, k # m, Holds(k)', Holds(m)'
               PROVE  ItsGroup(k)' # ItsGroup(m)'
    BY DEF Apart
  <2>1. CASE k = n BY <1>1, <2>1
  <2>2. CASE m = n BY <1>1, <2>2
  <2>3. CASE k # n /\ m # n BY <1>1, <2>3 DEF Apart
  <2> QED BY <2>1, <2>2, <2>3
<1> QED BY <1>2, <1>3, <1>4, <1>5

-----------------------------------------------------------------------------
(* The threads of pods and namespaces.                                     *)

(* One of these threads goes on: nothing GroupInv says is of it.           *)
LEMMA ObjectGoes ==
    ASSUME NetworkPolicyAssumption, GroupInv, NEW t \in Pods \cup Spaces,
           DOMAIN work' = Threads, \A s \in Threads \ {t} : work'[s] = work[s],
           IsWork(work'[t]), work'[t].pc \in ObjectPcs,
           UNCHANGED <<np, crd, groups>>
    PROVE  GroupInv'
<1>1. t \in Threads /\ t \notin Policies
  BY DEF Threads, NetworkPolicyAssumption
<1>2. Shapes'
  BY <1>1 DEF GroupInv, Shapes
<1>3. Pcs'
  BY <1>1 DEF GroupInv, Shapes, Pcs, Threads
<1>4. \A n \in Policies : work'[n] = work[n]
  BY <1>1 DEF GroupInv, Shapes, Threads
<1> QED BY <1>2, <1>3, <1>4, Aside

(* No thread goes on at all.                                               *)
LEMMA NobodyGoes ==
    ASSUME GroupInv, UNCHANGED <<work, np, crd, groups>>
    PROVE  GroupInv'
<1>1. Shapes' /\ Pcs'
  BY DEF GroupInv, Shapes, Pcs
<1> QED BY <1>1, Aside

(* Editing the records keeps their groups.                                 *)
LEMMA EditKeeps ==
    ASSUME NetworkPolicyAssumption, GroupInv, NEW t \in Pods \cup Spaces, EditStep(t)
    PROVE  GroupInv'
<1>0. t \in Threads /\ IsWork(work[t]) /\ work[t].pc \in ObjectPcs
  BY DEF GroupInv, Shapes, Pcs, Threads
<1>1. CASE ListRecords(t)
  BY <1>0, <1>1, ObjectGoes DEF ListRecords, GroupInv, Shapes, IsWork, ObjectPcs
<1>2. CASE PatchCrd(t)
  <2> DEFINE w == [work[t] EXCEPT !.pc = "edit"]
             m == work[t].at
  <2>1. /\ work' = [work EXCEPT ![t] = w] /\ UNCHANGED <<np, groups>>
        /\ crd' = IF crd[m] = NoCrd THEN crd
                  ELSE [crd EXCEPT ![m].spec = work[t].seen[m].spec,
                                   ![m].rules = work[t].seen[m].rules]
    BY <1>2 DEF PatchCrd, Goes
  <2>2. IsWork(w) /\ w.pc \in ObjectPcs
    BY <1>0 DEF IsWork, Idle, ObjectPcs
  <2>3. t \notin Policies
    BY DEF NetworkPolicyAssumption
  <2>4. /\ DOMAIN crd' = Policies /\ \A n \in Policies : IsCrd(crd'[n])
        /\ \A n \in Policies : crd'[n].sg = crd[n].sg
    BY <2>1 DEF GroupInv, Shapes, IsCrd, NoCrd
  <2>5. \A n \in Policies : crd'[n] = NoCrd <=> crd[n] = NoCrd
    <3> SUFFICES ASSUME NEW n \in Policies PROVE crd'[n] = NoCrd <=> crd[n] = NoCrd
      OBVIOUS
    <3>1. CASE crd[m] = NoCrd \/ m # n
      BY <2>1, <3>1 DEF GroupInv, Shapes
    <3>2. CASE crd[m] # NoCrd /\ m = n
      <4>1. crd[n] # NoCrd /\ crd[n].sg # None
        BY <3>2 DEF GroupInv, Held, Record
      <4>2. NoCrd.sg = None
        BY DEF NoCrd
      <4> QED BY <2>4, <4>1, <4>2
    <3> QED BY <3>1, <3>2
  <2>6. DOMAIN work' = Threads /\ \A s \in Threads : IsWork(work'[s])
    BY <2>1, <2>2, <1>0 DEF GroupInv, Shapes
  <2>7. Shapes'
    BY <2>1, <2>4, <2>6 DEF GroupInv, Shapes
  <2>8. Pcs'
    BY <2>1, <2>2, <2>3, <1>0 DEF GroupInv, Shapes, Pcs, Threads
  <2>9. \A n \in Policies : work'[n] = work[n]
    BY <2>1, <2>3 DEF GroupInv, Shapes, Threads
  <2> QED BY <2>1, <2>4, <2>5, <2>7, <2>8, <2>9, Aside
<1>3. CASE EndPhase(t)
  BY <1>0, <1>3, ObjectGoes DEF EndPhase, GroupInv, Shapes, IsWork, ObjectPcs
<1>4. ASSUME NEW n \in Policies, EditRules(t, n) PROVE GroupInv'
  BY <1>0, <1>4, ObjectGoes DEF EditRules, GroupInv, Shapes, IsWork, ObjectPcs
<1> QED BY <1>1, <1>2, <1>3, <1>4 DEF EditStep

(* The other steps of pods' threads.                                       *)
LEMMA PodKeeps ==
    ASSUME NetworkPolicyAssumption, GroupInv, NEW p \in Pods, PodStep(p)
    PROVE  GroupInv'
<1>0. p \in Threads /\ IsWork(work[p]) /\ work[p].pc \in ObjectPcs
  BY DEF GroupInv, Shapes, Pcs, Threads
<1>1. CASE RequestVif(p)
  BY <1>0, <1>1, ObjectGoes
  DEF RequestVif, GroupInv, Shapes, IsWork, Idle, ObjectPcs
<1>2. CASE AnnotateVif(p)
  BY <1>0, <1>2, ObjectGoes
  DEF AnnotateVif, Ends, GroupInv, Shapes, IsWork, Idle, ObjectPcs
<1>3. CASE ActivateVif(p)
  BY <1>0, <1>3, ObjectGoes
  DEF ActivateVif, GroupInv, Shapes, IsWork, Idle, ObjectPcs
<1>4. CASE Relabelled(p)
  BY <1>0, <1>4, ObjectGoes
  DEF Relabelled, GroupInv, Shapes, IsWork, Idle, ObjectPcs
<1>5. CASE LookUpGroups(p)
  BY <1>0, <1>5, ObjectGoes
  DEF LookUpGroups, GroupInv, Shapes, IsWork, Idle, ObjectPcs
<1>6. CASE PutGroups(p)
  BY <1>0, <1>6, ObjectGoes
  DEF PutGroups, Ends, GroupInv, Shapes, IsWork, Idle, ObjectPcs
<1>7. CASE PodDeleted(p)
  BY <1>0, <1>7, ObjectGoes
  DEF PodDeleted, Ends, Does, GroupInv, Shapes, IsWork, Idle, ObjectPcs
<1>8. CASE ReleaseVif(p)
  BY <1>0, <1>8, ObjectGoes
  DEF ReleaseVif, Ends, GroupInv, Shapes, IsWork, Idle, ObjectPcs
<1>9. CASE PodDone(p)
  BY <1>0, <1>9, ObjectGoes
  DEF PodDone, Ends, GroupInv, Shapes, IsWork, Idle, ObjectPcs
<1>10. CASE NotFound(p)
  BY <1>0, <1>10, ObjectGoes
  DEF NotFound, Ends, GivenUp, GroupInv, Shapes, IsWork, Idle, ObjectPcs
<1>11. CASE EditStep(p)
  BY <1>11, EditKeeps
<1> QED BY <1>1, <1>2, <1>3, <1>4, <1>5, <1>6, <1>7, <1>8, <1>9, <1>10, <1>11 DEF PodStep

(* The other steps of namespaces' threads.                                 *)
LEMMA SpaceKeeps ==
    ASSUME NetworkPolicyAssumption, GroupInv, NEW s \in Spaces, SpaceStep(s)
    PROVE  GroupInv'
<1>0. s \in Threads /\ IsWork(work[s]) /\ work[s].pc \in ObjectPcs
  BY DEF GroupInv, Shapes, Pcs, Threads
<1>1. CASE SpaceRelabelled(s)
  BY <1>0, <1>1, ObjectGoes
  DEF SpaceRelabelled, GroupInv, Shapes, IsWork, Idle, ObjectPcs
<1>2. CASE NoteLabels(s)
  BY <1>0, <1>2, ObjectGoes
  DEF NoteLabels, Ends, GroupInv, Shapes, IsWork, Idle, ObjectPcs
<1>3. CASE SpaceDeleted(s)
  BY <1>0, <1>3, ObjectGoes
  DEF SpaceDeleted, Does, GroupInv, Shapes, IsWork, Idle, ObjectPcs
<1>4. CASE RemoveFinalizer(s)
  BY <1>0, <1>4, ObjectGoes
  DEF RemoveFinalizer, Ends, GroupInv, Shapes, IsWork, Idle, ObjectPcs
<1>5. CASE NotFound(s)
  BY <1>0, <1>5, ObjectGoes
  DEF NotFound, Ends, GivenUp, GroupInv, Shapes, IsWork, Idle, ObjectPcs
<1>6. CASE EditStep(s)
  BY <1>6, EditKeeps
<1> QED BY <1>1, <1>2, <1>3, <1>4, <1>5, <1>6 DEF SpaceStep

(* A call of theirs fails: it is tried again, or given up.                 *)
LEMMA ObjectFails ==
    ASSUME NetworkPolicyAssumption, GroupInv, NEW t \in Pods \cup Spaces, CallFails(t)
    PROVE  GroupInv'
<1>0. /\ t \in Threads /\ t \notin Policies /\ IsWork(work[t])
      /\ work[t].pc \in ObjectPcs
  BY DEF GroupInv, Shapes, Pcs, Threads, NetworkPolicyAssumption
<1>1. UNCHANGED <<np, crd, groups>>
  BY <1>0 DEF CallFails, ObjectPcs
<1>2. CASE work' = [work EXCEPT ![t] = Again(t)]
  <2>1. IsWork(Again(t)) /\ Again(t).pc \in ObjectPcs
    BY <1>0 DEF Again, IsWork, Idle, ObjectPcs
  <2> QED BY <1>0, <1>1, <1>2, <2>1, ObjectGoes DEF GroupInv, Shapes
<1>3. CASE GivenUp(t)
  BY <1>0, <1>1, <1>3, ObjectGoes DEF GivenUp, GroupInv, Shapes, IsWork, Idle, ObjectPcs
<1> QED BY <1>2, <1>3 DEF CallFails

-----------------------------------------------------------------------------
(* The threads of policies.                                                *)

(* The step is of the policy n alone.                                      *)
Alone(n) ==
    /\ DOMAIN work' = Threads /\ DOMAIN crd' = Policies /\ DOMAIN np' = Policies
    /\ \A t \in Threads \ {n} : work'[t] = work[t]
    /\ \A m \in Policies \ {n} : crd'[m] = crd[m] /\ np'[m] = np[m]
    /\ IsWork(work'[n]) /\ IsCrd(crd'[n]) /\ IsNp(np'[n])
    /\ work'[n].pc \in PolicyPcs

LEMMA AloneShaped ==
    ASSUME NetworkPolicyAssumption, GroupInv, NEW n \in Policies, Alone(n)
    PROVE  Shapes' /\ Pcs'
<1>1. n \in Threads /\ n \notin Pods \cup Spaces
  BY DEF Threads, NetworkPolicyAssumption
<1> QED BY <1>1 DEF Alone, GroupInv, Shapes, Pcs, Threads

(* What a policy may rely on.                                              *)
LEMMA Relies ==
    ASSUME GroupInv, NEW n \in Policies
    PROVE  /\ n \in Threads /\ DOMAIN work = Threads /\ DOMAIN crd = Policies
           /\ DOMAIN np = Policies
           /\ IsWork(work[n]) /\ IsCrd(crd[n]) /\ IsNp(np[n]) /\ work[n].pc \in PolicyPcs
           /\ Stage(n) /\ Want(n) /\ Record(n)
BY DEF GroupInv, Shapes, Pcs, Stages, Wanted, Held, Threads

(* A step that neither creates nor deletes a group, and changes nobody's.  *)
LEMMA PolicyGoes ==
    ASSUME NetworkPolicyAssumption, GroupInv, NEW n \in Policies, Alone(n),
           groups' = groups, Stage(n)', Want(n)', Record(n)',
           Holds(n)' <=> Holds(n), Holds(n) => ItsGroup(n)' = ItsGroup(n)
    PROVE  GroupInv'
<1>1. Shapes' /\ Pcs'
  BY AloneShaped
<1>2. \A m \in Policies \ {n} : work'[m] = work[m] /\ np'[m] = np[m] /\ crd'[m] = crd[m]
  BY DEF Alone, Threads
<1>3. \A m \in Policies \ {n} : Holds(m) /\ Holds(n)' => ItsGroup(m) # ItsGroup(n)'
  BY DEF GroupInv, Apart
<1>4. groups' \subseteq Groups
  BY DEF GroupInv, Held
<1> QED BY <1>1, <1>2, <1>3, <1>4, OfOne

(* Parsing, rules, the record, the pods.                                   *)
LEMMA PolicyKeeps ==
    ASSUME NetworkPolicyAssumption, GroupInv, NEW n \in Policies,
           \/ NoNeed(n) \/ ParsePolicy(n) \/ CreateRules(n) \/ PostCrd(n)
           \/ ReadCrd(n) \/ DeleteRules(n) \/ StoreRules(n) \/ ListPods(n)
           \/ Updated(n) \/ (\E p \in Pods, l \in Labels : UpdatePod(n, p, l))
           \/ PolicyDeleted(n) \/ NotFound(n)
    PROVE  GroupInv'
<1>0. /\ n \in Threads /\ n \notin Pods /\ DOMAIN work = Threads /\ DOMAIN crd = Policies
      /\ DOMAIN np = Policies
      /\ IsWork(work[n]) /\ IsCrd(crd[n]) /\ IsNp(np[n]) /\ work[n].pc \in PolicyPcs
      /\ Stage(n) /\ Want(n) /\ Record(n) /\ None # "delete" /\ None \notin Groups
      /\ groups \subseteq Groups
  BY Relies DEF NetworkPolicyAssumption, GroupInv, Held
<1>1. CASE NoNeed(n)
  <2>1. Alone(n) /\ groups' = groups
    BY <1>0, <1>1 DEF NoNeed, Is, Ends, Alone, IsWork, Idle, PolicyPcs
  <2>2. Stage(n)' /\ Want(n)' /\ Record(n)'
    BY <1>0, <1>1 DEF NoNeed, Is, Ends, Stage, Want, Record, IsWork, Idle, Creating
  <2>3. (Holds(n)' <=> Holds(n)) /\ (Holds(n) => ItsGroup(n)' = ItsGroup(n))
    BY <1>0, <1>1 DEF NoNeed, Is, Ends, Stage, Holds, ItsGroup, IsWork, Idle, Creating
  <2> QED BY <2>1, <2>2, <2>3, PolicyGoes
<1>2. CASE ParsePolicy(n)
  <2>1. Alone(n) /\ groups' = groups
    BY <1>0, <1>2 DEF ParsePolicy, Is, Alone, IsWork, Idle, PolicyPcs, Creating
  <2>2. Stage(n)' /\ Want(n)' /\ Record(n)'
    BY <1>0, <1>2 DEF ParsePolicy, Is, Stage, Want, Record, IsWork, Idle, Creating
  <2>3. (Holds(n)' <=> Holds(n)) /\ (Holds(n) => ItsGroup(n)' = ItsGroup(n))
    BY <1>0, <1>2 DEF ParsePolicy, Is, Stage, Holds, ItsGroup, IsWork, Idle, Creating
  <2> QED BY <2>1, <2>2, <2>3, PolicyGoes
<1>3. CASE CreateRules(n)
  <2>1. Alone(n) /\ groups' = groups
    BY <1>0, <1>3 DEF CreateRules, Is, Goes, Alone, IsWork, Idle, PolicyPcs, Creating
  <2>2. Stage(n)' /\ Want(n)' /\ Record(n)'
    BY <1>0, <1>3 DEF CreateRules, Is, Goes, Stage, Want, Record, IsWork, Idle, Creating
  <2>3. (Holds(n)' <=> Holds(n)) /\ (Holds(n) => ItsGroup(n)' = ItsGroup(n))
    BY <1>0, <1>3
    DEF CreateRules, Is, Goes, Stage, Holds, ItsGroup, IsWork, Idle, Creating
  <2> QED BY <2>1, <2>2, <2>3, PolicyGoes
<1>4. CASE PostCrd(n)
  <2>1. Alone(n) /\ groups' = groups
    BY <1>0, <1>4 DEF PostCrd, Is, Goes, Alone, IsWork, IsCrd, Idle, NoCrd, PolicyPcs
  <2>2. Stage(n)' /\ Want(n)' /\ Record(n)'
    BY <1>0, <1>4
    DEF PostCrd, Is, Goes, Stage, Want, Record, IsWork, IsCrd, Idle, NoCrd, Creating
  <2>3. (Holds(n)' <=> Holds(n)) /\ (Holds(n) => ItsGroup(n)' = ItsGroup(n))
    BY <1>0, <1>4
    DEF PostCrd, Is, Goes, Stage, Holds, ItsGroup, IsWork, IsCrd, Idle, NoCrd, Creating
  <2> QED BY <2>1, <2>2, <2>3, PolicyGoes
<1>5. CASE ReadCrd(n)
  <2>1. Alone(n) /\ groups' = groups
    BY <1>0, <1>5 DEF ReadCrd, Handles, Ready, Is, Alone, IsWork, Idle, PolicyPcs
  <2>2. Stage(n)' /\ Want(n)' /\ Record(n)'
    BY <1>0, <1>5
    DEF ReadCrd, Handles, Ready, Is, Stage, Want, Record, IsWork, Idle, Creating
  <2>3. (Holds(n)' <=> Holds(n)) /\ (Holds(n) => ItsGroup(n)' = ItsGroup(n))
    BY <1>0, <1>5
    DEF ReadCrd, Handles, Ready, Is, Stage, Holds, ItsGroup, IsWork, Idle, Creating
  <2> QED BY <2>1, <2>2, <2>3, PolicyGoes
<1>6. CASE DeleteRules(n)
  <2>1. Alone(n) /\ groups' = groups
    BY <1>0, <1>6 DEF DeleteRules, Is, Goes, Alone, IsWork, Idle, PolicyPcs
  <2>2. Stage(n)' /\ Want(n)' /\ Record(n)'
    BY <1>0, <1>6 DEF DeleteRules, Is, Goes, Stage, Want, Record, IsWork, Idle, Creating
  <2>3. (Holds(n)' <=> Holds(n)) /\ (Holds(n) => ItsGroup(n)' = ItsGroup(n))
    BY <1>0, <1>6
    DEF DeleteRules, Is, Goes, Stage, Holds, ItsGroup, IsWork, Idle, Creating
  <2> QED BY <2>1, <2>2, <2>3, PolicyGoes
<1>7. CASE StoreRules(n)
  <2>1. Alone(n) /\ groups' = groups
    BY <1>0, <1>7 DEF StoreRules, Is, Goes, Alone, IsWork, IsCrd, Idle, NoCrd, PolicyPcs
  <2>2. Stage(n)' /\ Want(n)' /\ Record(n)'
    BY <1>0, <1>7
    DEF StoreRules, Is, Goes, Stage, Want, Record, IsWork, IsCrd, Idle, NoCrd, Creating
  <2>3. (Holds(n)' <=> Holds(n)) /\ (Holds(n) => ItsGroup(n)' = ItsGroup(n))
    <3>1. crd[n] # NoCrd
      BY <1>0, <1>7 DEF StoreRules, Is, Stage
    <3>2. crd'[n] # NoCrd
      <4>1. work'[n].pc = "list"
        BY <1>0, <1>7 DEF StoreRules, Goes, IsWork, Idle
      <4> QED BY <2>2, <4>1 DEF Stage
    <3>3. crd'[n].sg = crd[n].sg
      BY <1>0, <1>7 DEF StoreRules, IsCrd, NoCrd
    <3> QED BY <3>1, <3>2, <3>3 DEF Holds, ItsGroup
  <2> QED BY <2>1, <2>2, <2>3, PolicyGoes
<1>8. CASE ListPods(n)
  <2>1. Alone(n) /\ groups' = groups
    BY <1>0, <1>8 DEF ListPods, Is, Alone, IsWork, Idle, PolicyPcs
  <2>2. Stage(n)' /\ Want(n)' /\ Record(n)'
    BY <1>0, <1>8 DEF ListPods, Is, Stage, Want, Record, IsWork, Idle, Creating
  <2>3. (Holds(n)' <=> Holds(n)) /\ (Holds(n) => ItsGroup(n)' = ItsGroup(n))
    BY <1>0, <1>8 DEF ListPods, Is, Stage, Holds, ItsGroup, IsWork, Idle, Creating
  <2> QED BY <2>1, <2>2, <2>3, PolicyGoes
<1>9. CASE Updated(n)
  <2>1. Alone(n) /\ groups' = groups
    BY <1>0, <1>9 DEF Updated, Is, Goes, Ends, Alone, IsWork, IsNp, Idle, PolicyPcs
  <2>2. Stage(n)' /\ Want(n)' /\ Record(n)'
    BY <1>0, <1>9
    DEF Updated, Is, Goes, Ends, Stage, Want, Record, IsWork, IsNp, Idle, Creating
  <2>3. (Holds(n)' <=> Holds(n)) /\ (Holds(n) => ItsGroup(n)' = ItsGroup(n))
    BY <1>0, <1>9
    DEF Updated, Is, Goes, Ends, Stage, Holds, ItsGroup, IsWork, Idle, Creating
  <2> QED BY <2>1, <2>2, <2>3, PolicyGoes
<1>10. CASE (\E p \in Pods, l \in Labels : UpdatePod(n, p, l))
  <2>1. Alone(n) /\ groups' = groups
    BY <1>0, <1>10 DEF UpdatePod, Is, Alone, IsWork, Idle, PolicyPcs
  <2>2. Stage(n)' /\ Want(n)' /\ Record(n)'
    BY <1>0, <1>10 DEF UpdatePod, Is, Stage, Want, Record, IsWork, Idle, Creating
  <2>3. (Holds(n)' <=> Holds(n)) /\ (Holds(n) => ItsGroup(n)' = ItsGroup(n))
    BY <1>0, <1>10 DEF UpdatePod, Is, Stage, Holds, ItsGroup, IsWork, Idle, Creating
  <2> QED BY <2>1, <2>2, <2>3, PolicyGoes
<1>11. CASE PolicyDeleted(n)
  <2>0. /\ work[n].pc \in {"idle", "failed"} /\ np[n].ev = "deleted" /\ ~np[n].live
        /\ groups' = groups /\ crd' = crd
    BY <1>0, <1>11 DEF PolicyDeleted, Ready, Want
  <2>1. CASE crd[n] = NoCrd
    <3>1. work' = work /\ np' = [np EXCEPT ![n].ev = "none"]
      BY <1>11, <2>1 DEF PolicyDeleted
    <3>2. np'[n].ev = "none" /\ np'[n].live = np[n].live
      BY <1>0, <3>1 DEF IsNp
    <3>3. Alone(n)
      BY <1>0, <2>0, <3>1, <3>2 DEF Alone, IsNp
    <3>4. ~Holds(n) /\ ~Holds(n)'
      BY <2>0, <2>1, <3>1 DEF Holds, Creating
    <3>5. Stage(n)' /\ Want(n)' /\ Record(n)'
      BY <1>0, <2>0, <2>1, <3>1, <3>2 DEF Stage, Want, Record, Creating
    <3> QED BY <2>0, <3>3, <3>4, <3>5, PolicyGoes
  <2>2. CASE crd[n] # NoCrd
    <3>1. /\ np' = np
          /\ work' = [work EXCEPT ![n] = [Idle EXCEPT !.pc = "pods", !.at = "delete",
                          !.sg = crd[n].sg, !.left = Selected(np[n].spec.sel)]]
      BY <1>11, <2>2 DEF PolicyDeleted
    <3>2. work'[n].pc = "pods" /\ work'[n].at = "delete" /\ work'[n].sg = crd[n].sg
      BY <1>0, <3>1 DEF Idle
    <3>3. Alone(n)
      BY <1>0, <2>0, <3>1, <3>2 DEF Alone, IsWork, PolicyPcs
    <3>4. Stage(n)' /\ Want(n)' /\ Record(n)'
      BY <1>0, <2>0, <2>2, <3>1, <3>2 DEF Stage, Want, Record, Creating
    <3>5. Holds(n)' /\ Holds(n) /\ ItsGroup(n)' = ItsGroup(n)
      BY <2>0, <2>2 DEF Holds, ItsGroup
    <3> QED BY <2>0, <3>3, <3>4, <3>5, PolicyGoes
  <2> QED BY <2>1, <2>2
<1>12. CASE NotFound(n)
  <2>1. Alone(n) /\ groups' = groups
    BY <1>0, <1>12 DEF NotFound, Is, Ends, GivenUp, Alone, IsWork, Idle, PolicyPcs
  <2>2. Stage(n)' /\ Want(n)' /\ Record(n)'
    BY <1>0, <1>12
    DEF NotFound, Is, Ends, GivenUp, Stage, Want, Record, IsWork, Idle, Creating
  <2>3. (Holds(n)' <=> Holds(n)) /\ (Holds(n) => ItsGroup(n)' = ItsGroup(n))
    BY <1>0, <1>12
    DEF NotFound, Is, Ends, GivenUp, Stage, Holds, ItsGroup, IsWork, Idle, Creating
  <2> QED BY <2>1, <2>2, <2>3, PolicyGoes
<1> QED BY <1>1, <1>2, <1>3, <1>4, <1>5, <1>6, <1>7, <1>8, <1>9, <1>10, <1>11, <1>12

(* The group that is created is nobody's.                                  *)
LEMMA CreateKeeps ==
    ASSUME NetworkPolicyAssumption, GroupInv, NEW n \in Policies, CreateGroup(n)
    PROVE  GroupInv'
<1>0. /\ n \in Threads /\ DOMAIN work = Threads /\ DOMAIN crd = Policies /\ DOMAIN np = Policies
      /\ IsWork(work[n]) /\ IsCrd(crd[n]) /\ IsNp(np[n]) /\ work[n].pc \in PolicyPcs
      /\ Stage(n) /\ Want(n) /\ Record(n) /\ None # "delete"
  BY Relies DEF NetworkPolicyAssumption
<1> DEFINE g == CHOOSE x \in Groups \ Referred : TRUE
<1>1. g \in Groups /\ g \notin Referred
  BY DEF CreateGroup
<1>2. /\ work[n].pc \in {"idle", "failed", "again"} /\ np[n].live /\ crd[n] = NoCrd
      /\ groups' = groups \cup {g} /\ crd' = crd /\ np' = np
      /\ work' = [work EXCEPT ![n] = [Idle EXCEPT !.pc = "sg", !.sg = g, !.spec = ItsSpec(n)]]
  BY DEF CreateGroup, Handles, Ready, Is
<1>3. work'[n].pc = "sg" /\ work'[n].sg = g /\ work'[n].at = None
  BY <1>0, <1>2 DEF Idle
<1>4. Alone(n)
  BY <1>0, <1>2, <1>3 DEF Alone, IsWork, PolicyPcs, Creating
<1>5. Shapes' /\ Pcs'
  BY <1>4, AloneShaped
<1>6. Stage(n)' /\ Want(n)' /\ Record(n)'
  BY <1>0, <1>2, <1>3 DEF Stage, Want, Record, Creating
<1>7. Holds(n)' /\ ItsGroup(n)' = g /\ ~Holds(n)
  BY <1>2, <1>3 DEF Holds, ItsGroup, Creating
<1>8. ASSUME NEW m \in Policies PROVE ItsGroup(m) # g
  <2>1. crd[m].sg \in {crd[k].sg : k \in Policies} /\ m \in Threads
    BY DEF Threads
  <2>2. work[m].sg \in {work[t].sg : t \in Threads}
    BY <2>1
  <2>3. crd[m].sg \in Referred /\ work[m].sg \in Referred
    BY <2>1, <2>2 DEF Referred
  <2> QED BY <1>1, <2>3 DEF ItsGroup
<1>9. groups' \subseteq Groups
  BY <1>1, <1>2 DEF GroupInv, Held
<1>10. \A m \in Policies \ {n} : work'[m] = work[m] /\ np'[m] = np[m] /\ crd'[m] = crd[m]
  BY <1>4 DEF Alone, Threads
<1> QED BY <1>2, <1>5, <1>6, <1>7, <1>8, <1>9, <1>10, OfOne

(* The end of a deletion: the group goes first, then the record.           *)
LEMMA DeleteKeeps ==
    ASSUME NetworkPolicyAssumption, GroupInv, NEW n \in Policies,
           DeleteGroup(n) \/ DeleteCrd(n)
    PROVE  GroupInv'
<1>0. /\ n \in Threads /\ DOMAIN work = Threads /\ DOMAIN crd = Policies /\ DOMAIN np = Policies
      /\ IsWork(work[n]) /\ IsCrd(crd[n]) /\ IsNp(np[n]) /\ work[n].pc \in PolicyPcs
      /\ Stage(n) /\ Want(n) /\ Record(n) /\ None # "delete"
  BY Relies DEF NetworkPolicyAssumption
<1>1. /\ work[n].at = "delete" /\ np[n].ev = "deleted" /\ ~np[n].live
      /\ crd[n] # NoCrd /\ work[n].sg = crd[n].sg
  BY <1>0 DEF DeleteGroup, DeleteCrd, Is, Stage, Want
<1>2. Holds(n) /\ ItsGroup(n) = crd[n].sg
  BY <1>1 DEF Holds, ItsGroup
<1>3. \A m \in Policies \ {n} : Holds(m) => ItsGroup(m) # crd[n].sg
  BY <1>2 DEF GroupInv, Apart
<1>4. CASE DeleteGroup(n) /\ groups' = groups /\ work' = [work EXCEPT ![n] = Idle]
  <2>1. np' = np /\ crd' = crd /\ work'[n].pc = "idle" /\ work'[n].at = None
    BY <1>0, <1>4 DEF DeleteGroup, Idle
  <2>2. Alone(n)
    BY <1>0, <1>4, <2>1 DEF Alone, IsWork, PolicyPcs
  <2>3. Stage(n)' /\ Want(n)' /\ Record(n)'
    BY <1>0, <1>1, <1>4, <2>1 DEF Stage, Want, Record, Creating
  <2>4. Holds(n)' /\ ItsGroup(n)' = ItsGroup(n)
    BY <1>1, <1>2, <2>1 DEF Holds, ItsGroup
  <2> QED BY <1>2, <1>4, <2>2, <2>3, <2>4, PolicyGoes
<1>5. CASE DeleteGroup(n) /\ groups' = groups \ {work[n].sg} /\ Goes(n, "uncrd")
  <2>1. /\ np' = np /\ crd' = crd /\ work'[n].pc = "uncrd"
        /\ work'[n].at = "delete" /\ work'[n].sg = work[n].sg
    BY <1>0, <1>1, <1>5 DEF DeleteGroup, Goes, IsWork, Idle
  <2>2. Alone(n)
    BY <1>0, <1>5, <2>1 DEF Alone, Goes, IsWork, PolicyPcs
  <2>3. Shapes' /\ Pcs'
    BY <2>2, AloneShaped
  <2>4. Stage(n)' /\ Want(n)' /\ Record(n)'
    BY <1>0, <1>1, <1>5, <2>1 DEF Stage, Want, Record, Creating
  <2>5. Holds(n)' /\ ItsGroup(n)' = ItsGroup(n)
    BY <1>1, <1>2, <2>1 DEF Holds, ItsGroup
  <2>6. \A m \in Policies \ {n} : work'[m] = work[m] /\ np'[m] = np[m] /\ crd'[m] = crd[m]
    BY <2>2 DEF Alone, Threads
  <2>7. groups' \subseteq Groups /\ \A m \in Policies \ {n} :
                Holds(m) => (ItsGroup(m) \in groups' <=> ItsGroup(m) \in groups)
    BY <1>1, <1>3, <1>5 DEF GroupInv, Held
  <2> QED BY <1>2, <1>3, <1>5, <2>3, <2>4, <2>5, <2>6, <2>7, OfOne
<1>6. CASE DeleteCrd(n)
  <2>1. /\ work' = [work EXCEPT ![n] = Idle] /\ crd' = [crd EXCEPT ![n] = NoCrd]
        /\ np' = [np EXCEPT ![n].ev = "none"] /\ groups' = groups
        /\ crd[n].sg \notin groups
    BY <1>0, <1>1, <1>6 DEF DeleteCrd, Is, Ends, Stage
  <2>2. /\ work'[n].pc = "idle" /\ work'[n].at = None /\ crd'[n] = NoCrd
        /\ np'[n].ev = "none" /\ np'[n].live = np[n].live
    BY <1>0, <2>1 DEF Idle, IsNp
  <2>3. Alone(n)
    BY <1>0, <2>1, <2>2 DEF Alone, IsWork, IsCrd, IsNp, PolicyPcs
  <2>4. Shapes' /\ Pcs'
    BY <2>3, AloneShaped
  <2>5. Stage(n)' /\ Want(n)' /\ Record(n)'
    BY <1>0, <1>1, <2>2 DEF Stage, Want, Record, Creating
  <2>6. ~Holds(n)'
    BY <2>2 DEF Holds, Creating
  <2>7. \A m \in Policies \ {n} : work'[m] = work[m] /\ np'[m] = np[m] /\ crd'[m] = crd[m]
    BY <2>3 DEF Alone, Threads
  <2>8. groups' \subseteq Groups
    BY <2>1 DEF GroupInv, Held
  <2> QED BY <1>2, <2>1, <2>4, <2>5, <2>6, <2>7, <2>8, OfOne
<1> QED BY <1>4, <1>5, <1>6 DEF DeleteGroup, Ends

(* A call fails: a group that is not recorded yet is deleted again.        *)
LEMMA PolicyFails ==
    ASSUME NetworkPolicyAssumption, GroupInv, NEW n \in Policies, CallFails(n)
    PROVE  GroupInv'
<1>0. /\ n \in Threads /\ n \notin Pods \cup Spaces
      /\ DOMAIN work = Threads /\ DOMAIN crd = Policies /\ DOMAIN np = Policies
      /\ IsWork(work[n]) /\ IsCrd(crd[n]) /\ IsNp(np[n]) /\ work[n].pc \in PolicyPcs
      /\ Stage(n) /\ Want(n) /\ Record(n) /\ None # "delete"
  BY Relies DEF NetworkPolicyAssumption
<1>1. np' = np /\ crd' = crd /\ work[n].pc \notin {"idle", "failed", "again"}
  BY DEF CallFails
<1>2. /\ DOMAIN work' = Threads /\ \A t \in Threads \ {n} : work'[t] = work[t]
      /\ IsWork(work'[n]) /\ work'[n].pc \in {"idle", "failed", "again"}
      /\ work'[n].at = None
  <2>1. CASE work' = [work EXCEPT ![n] = Again(n)]
    <3>1. Again(n) = Idle \/ Again(n) = [Idle EXCEPT !.pc = "again", !.spec = work[n].spec]
      BY <1>0 DEF Again
    <3>2. IsWork(Again(n)) /\ Again(n).pc \in {"idle", "again"} /\ Again(n).at = None
      <4>1. CASE Again(n) = Idle
        BY <4>1 DEF IsWork, Idle
      <4>2. CASE Again(n) = [Idle EXCEPT !.pc = "again", !.spec = work[n].spec]
        BY <4>2 DEF IsWork, Idle
      <4> QED BY <3>1, <4>1, <4>2
    <3> QED BY <1>0, <2>1, <3>2
  <2>2. CASE GivenUp(n)
    BY <1>0, <2>2 DEF GivenUp, IsWork, Idle
  <2> QED BY <2>1, <2>2 DEF CallFails
<1>3. Alone(n)
  BY <1>0, <1>1, <1>2 DEF Alone, PolicyPcs
<1>4. Stage(n)' /\ Want(n)'
  BY <1>0, <1>1, <1>2 DEF Stage, Want, Creating
<1>5. CASE work[n].pc \in Creating
  <2>1. groups' = groups \ {work[n].sg} /\ crd[n] = NoCrd
    BY <1>0, <1>5 DEF CallFails, Creating, Stage
  <2>2. Holds(n) /\ ItsGroup(n) = work[n].sg /\ ~Holds(n)'
    BY <1>1, <1>2, <1>5, <2>1 DEF Holds, ItsGroup, Creating
  <2>3. Record(n)'
    BY <1>1, <2>1 DEF Record
  <2>4. Shapes' /\ Pcs'
    BY <1>3, AloneShaped
  <2>5. \A m \in Policies \ {n} : work'[m] = work[m] /\ np'[m] = np[m] /\ crd'[m] = crd[m]
    BY <1>3 DEF Alone, Threads
  <2>6. \A m \in Policies \ {n} : Holds(m) => ItsGroup(m) # work[n].sg
    BY <2>2 DEF GroupInv, Apart
  <2>7. groups' \subseteq Groups /\ \A m \in Policies \ {n} :
                Holds(m) => (ItsGroup(m) \in groups' <=> ItsGroup(m) \in groups)
    BY <2>1, <2>6 DEF GroupInv, Held
  <2> QED BY <1>4, <2>1, <2>2, <2>3, <2>4, <2>5, <2>6, <2>7, OfOne
<1>6. CASE work[n].pc \notin Creating
  <2>1. groups' = groups
    BY <1>6 DEF CallFails, Creating
  <2>2. Record(n)'
    BY <1>0, <1>1, <2>1 DEF Record
  <2>3. (Holds(n)' <=> Holds(n)) /\ (Holds(n) => ItsGroup(n)' = ItsGroup(n))
    BY <1>1, <1>2, <1>6 DEF Holds, ItsGroup, Creating
  <2> QED BY <1>3, <1>4, <2>1, <2>2, <2>3, PolicyGoes
<1> QED BY <1>5, <1>6

-----------------------------------------------------------------------------
(* Users and restarts.                                                     *)

(* A policy is created, changed or deleted.                                *)
LEMMA UsersKeep ==
    ASSUME NetworkPolicyAssumption, GroupInv, Users
    PROVE  GroupInv'
<1>1. CASE UNCHANGED <<work, np, crd, groups>>
  BY <1>1, NobodyGoes
<1>2. ASSUME NEW n \in Policies,
             (\E spec \in Specs : PutPolicy(n, spec)) \/ DeletePolicy(n)
      PROVE  GroupInv'
  <2>0. /\ n \in Threads
        /\ DOMAIN work = Threads /\ DOMAIN crd = Policies /\ DOMAIN np = Policies
        /\ IsWork(work[n]) /\ IsCrd(crd[n]) /\ IsNp(np[n]) /\ work[n].pc \in PolicyPcs
        /\ Stage(n) /\ Want(n) /\ Record(n)
    BY Relies
  <2>1. work' = work /\ crd' = crd /\ groups' = groups
    BY <1>2 DEF PutPolicy, DeletePolicy
  <2>2. DOMAIN np' = Policies /\ IsNp(np'[n]) /\ \A m \in Policies \ {n} : np'[m] = np[m]
    <3>1. CASE \E spec \in Specs : PutPolicy(n, spec)
      <4>1. PICK spec \in Specs : PutPolicy(n, spec)
        BY <3>1
      <4> QED BY <2>0, <4>1 DEF PutPolicy, IsNp
    <3>2. CASE DeletePolicy(n)
      BY <2>0, <3>2 DEF DeletePolicy, IsNp
    <3> QED BY <1>2, <3>1, <3>2
  <2>3. Alone(n)
    BY <2>0, <2>1, <2>2 DEF Alone
  <2>4. Holds(n)' = Holds(n) /\ ItsGroup(n)' = ItsGroup(n)
    BY <2>1 DEF Holds, ItsGroup
  <2>5. CASE \E spec \in Specs : PutPolicy(n, spec)
    <3>1. np'[n].live /\ np'[n].ev = "present" /\ np[n].ev # "deleted"
      BY <2>0, <2>5 DEF PutPolicy
    <3>2. Stage(n)' /\ Want(n)' /\ Record(n)'
      BY <2>0, <2>1, <3>1 DEF Stage, Want, Record
    <3> QED BY <2>1, <2>3, <2>4, <3>2, PolicyGoes
  <2>6. CASE DeletePolicy(n)
    <3>1. ~np'[n].live /\ np'[n].ev = "deleted"
      BY <2>0, <2>6 DEF DeletePolicy, IsNp
    <3>2. Stage(n)' /\ Want(n)' /\ Record(n)'
      BY <2>0, <2>1, <3>1 DEF Stage, Want, Record
    <3> QED BY <2>1, <2>3, <2>4, <3>2, PolicyGoes
  <2> QED BY <1>2, <2>5, <2>6
<1> QED BY <1>1, <1>2 DEF Users, CreatePod, RelabelPod, DeletePod, RelabelSpace, DeleteSpace

(* What is excluded for the theorem: that a policy is deleted while the    *)
(* controller is down, and that it stops between the creation of a group   *)
(* and of its record; either leaves a group that nothing deletes.          *)
NoLostGroup == {"deletion_lost", "crash_in_create"} \cap Races = {}

(* The threads start anew, and what they held is recorded.                 *)
LEMMA RestartKeeps ==
    ASSUME NetworkPolicyAssumption, NoLostGroup, GroupInv, Restart
    PROVE  GroupInv'
<1>1. /\ work' = [t \in Threads |-> Idle] /\ crd' = crd /\ groups' = groups
      /\ np' = [n \in Policies |->
                  [np[n] EXCEPT !.ev = IF np[n].live THEN "present" ELSE "none"]]
  BY DEF Restart
<1>2. \A n \in Policies : np[n].ev # "deleted" /\ work[n].pc \notin Creating
  BY DEF Restart, NoLostGroup, Creating
<1>3. Shapes'
  BY <1>1 DEF GroupInv, Shapes, IsWork, IsNp
<1>4. Pcs'
  BY <1>1 DEF Pcs, Threads, Idle, PolicyPcs, ObjectPcs
<1>5. \A n \in Policies : /\ work'[n].pc = "idle" /\ work'[n].at = None
                          /\ np'[n].live = np[n].live
                          /\ np'[n].ev = IF np[n].live THEN "present" ELSE "none"
  BY <1>1 DEF GroupInv, Shapes, IsNp, Threads, Idle
<1>6. Stages'
  BY <1>5 DEF Stages, Stage, Creating, NetworkPolicyAssumption
<1>7. Wanted'
  BY <1>1, <1>2, <1>5 DEF GroupInv, Wanted, Want, Creating
<1>8. \A n \in Policies : (Holds(n)' <=> Holds(n)) /\ (Holds(n) => ItsGroup(n)' = ItsGroup(n))
  BY <1>1, <1>2, <1>5 DEF Holds, ItsGroup, Creating
<1>9. Held'
  <2>1. \A n \in Policies : Record(n)'
    BY <1>1, <1>2 DEF GroupInv, Held, Record
  <2> QED BY <1>1, <1>8, <2>1 DEF GroupInv, Held
<1>10. Apart'
  BY <1>8 DEF GroupInv, Apart
<1> QED BY <1>3, <1>4, <1>6, <1>7, <1>9, <1>10 DEF GroupInv

-----------------------------------------------------------------------------
(* The theorem.                                                            *)

LEMMA InitHolds == Init => GroupInv
<1> SUFFICES ASSUME Init PROVE GroupInv
  OBVIOUS
<1>1. \A n \in Policies : /\ crd[n] = NoCrd /\ work[n].pc = "idle"
                          /\ work[n].at = None /\ np[n].ev = "none" /\ ~np[n].live
  BY DEF Init, Threads, Idle
<1>2. Shapes
  BY DEF Init, Shapes, IsWork, IsCrd, IsNp
<1>3. Pcs
  BY DEF Init, Pcs, Threads, Idle, PolicyPcs, ObjectPcs
<1>4. Stages /\ Wanted
  BY <1>1, NetworkPolicyAssumption
  DEF Stages, Stage, Wanted, Want, Creating, NetworkPolicyAssumption
<1>5. Held /\ Apart
  BY <1>1 DEF Init, Held, Record, Apart, Holds, Creating
<1> QED BY <1>2, <1>3, <1>4, <1>5 DEF GroupInv

LEMMA NextKeeps ==
    ASSUME NoLostGroup, GroupInv, [Next]_vars
    PROVE  GroupInv'
<1> USE NetworkPolicyAssumption
<1>1. ASSUME NEW p \in Pods, PodStep(p) PROVE GroupInv'
  BY <1>1, PodKeeps
<1>2. ASSUME NEW p \in Pods, PodRuns(p) PROVE GroupInv'
  BY <1>2, NobodyGoes DEF PodRuns
<1>3. ASSUME NEW s \in Spaces, SpaceStep(s) PROVE GroupInv'
  BY <1>3, SpaceKeeps
<1>4. ASSUME NEW n \in Policies, PolicyStep(n) PROVE GroupInv'
  BY <1>4, PolicyKeeps, CreateKeeps, DeleteKeeps DEF PolicyStep
<1>5. CASE Users
  BY <1>5, UsersKeep
<1>6. CASE Restart
  BY <1>6, RestartKeeps
<1>7. ASSUME NEW t \in Threads, CallFails(t) PROVE GroupInv'
  BY <1>7, ObjectFails, PolicyFails DEF Threads
<1>8. CASE UNCHANGED vars
  BY <1>8, NobodyGoes DEF vars
<1> QED BY <1>1, <1>2, <1>3, <1>4, <1>5, <1>6, <1>7, <1>8 DEF Next

(* When nothing is under way each group is recorded, by a policy that is   *)
(* there, and each policy that is there has a record.                      *)
LEMMA SettledClean == GroupInv => NoGroupLeft
<1> SUFFICES ASSUME GroupInv, Settled PROVE NoGroupLeft
  BY DEF NoGroupLeft
<1>1. \A n \in Policies : work[n].pc = "idle" /\ np[n].ev = "none"
  BY DEF Settled, Is, Threads
<1>2. \A n \in Policies : Holds(n) <=> n \in Recorded
  BY <1>1 DEF Holds, Recorded, Creating
<1>3. Recorded = {n \in Policies : np[n].live}
  BY <1>1 DEF GroupInv, Wanted, Want, Recorded
<1>4. \A n \in Recorded : crd[n].sg \in groups /\ ItsGroup(n) = crd[n].sg
  BY <1>1 DEF GroupInv, Held, Record, Recorded, ItsGroup
<1>5. groups = {crd[n].sg : n \in Recorded}
  BY <1>2, <1>4 DEF GroupInv, Held
<1> QED BY <1>3, <1>5 DEF NoGroupLeft

(* NoGroupLeft, for any policies, pods, namespaces and groups, with all    *)
(* failures and restarts (on_present's roll-back, on_deleted's retries):   *)
(* a deleted policy leaves no security group and no record, and a failed   *)
(* creation no group.                                                      *)
THEOREM GroupsGo ==
    ASSUME NoLostGroup
    PROVE  Spec => []NoGroupLeft
<1>1. GroupInv /\ [Next]_vars => GroupInv'
  BY NextKeeps
<1> QED BY InitHolds, SettledClean, <1>1, PTL DEF Spec

-----------------------------------------------------------------------------
(* Ports keep their groups.                                                *)
(*                                                                         *)
(* A port's groups are changed while a policy goes through the pods: by    *)
(* the labels the pod had when it was listed.  So the argument is what is  *)
(* known of a listed pod until its turn comes (AsListed), that its own     *)
(* handler does not set groups meanwhile (PutsAlone), that it still will   *)
(* when the labels noted have not been acted on (Task, Reading).           *)

(* What the handlers of a pod have still to do.                            *)
Putting == {<<"add", "put">>, <<"put">>, <<"drop", "add", "put">>,
            <<"add", "drop", "add", "put">>}
Leaving == {<<"drop", "out">>, <<"out">>}
Phases  == {<<>>, <<"add">>} \cup Putting \cup Leaving

PodShapes ==
    /\ DOMAIN pod = Pods
    /\ \A p \in Pods : /\ DOMAIN pod[p] = {"st", "leaving", "label", "noted", "groups"}
                       /\ pod[p].st \in {"out", "new", "vif", "active", "running"}
                       /\ pod[p].leaving \in BOOLEAN /\ pod[p].label \in Labels

(* How the stage of a pod's thread goes with the pod: a port is there from *)
(* RequestVif to ReleaseVif, and labels that a handler without groups to   *)
(* set works with have been noted.                                         *)
Task(p) ==
    /\ work[p].todo \in Phases
    /\ work[p].pc \in {"idle", "failed", "annotate"} => work[p].todo = <<>>
    /\ work[p].pc \in {"idle", "failed"} => work[p].label = None
    /\ work[p].pc \in {"edit", "patch"} => work[p].todo \notin {<<>>, <<"put">>, <<"out">>}
    /\ work[p].pc = "put" => work[p].todo = <<"put">>
    /\ work[p].todo \in Leaving => pod[p].leaving
    /\ work[p].pc = "annotate" => pod[p].st = "new"
    /\ pod[p].st = "out" => work[p].pc = "idle" /\ ~pod[p].leaving /\ pod[p].groups = {}
    /\ pod[p].st = "new" => /\ work[p].pc \in {"idle", "failed", "annotate"}
                            /\ work[p].pc # "annotate" => pod[p].groups = {}
    /\ (work[p].label # None /\ work[p].pc # "annotate" /\ work[p].todo \notin Putting)
         => work[p].label = pod[p].noted

(* A pod that a policy has listed: its labels are still those, or they     *)
(* have changed and its own handler has the groups to set after this.      *)
AsListed(p, l) ==
    /\ SpaceOf[p] = Home /\ pod[p].st # "new"
    /\ \/ l = pod[p].label \/ pod[p].label # pod[p].noted
       \/ work[p].todo \in Putting \/ pod[p].leaving \/ pod[p].st = "out"
Listing(n) ==
    work[n].pc = "pods" =>
        \A p \in Pods, l \in Labels : <<p, l>> \in work[n].left => AsListed(p, l)

PutsAlone(p) == work[p].pc = "put" => \A n \in Policies : work[n].pc # "pods"

(* A handler with a record to edit whose group is gone fails for good; if  *)
(* it then forgets the groups, the labels are not those noted.             *)
Reading(p) ==
    work[p].pc \in {"edit", "patch"} =>
        /\ DOMAIN work[p].seen = Policies /\ work[p].left \subseteq Policies
        /\ \A m \in work[p].left :
              /\ work[p].seen[m].sg \in groups \/ pod[p].label # pod[p].noted \/ pod[p].leaving
              /\ \A n \in Policies : work[n].pc \in Creating => work[n].sg # work[p].seen[m].sg

PodInv == /\ PodShapes /\ \A n \in Policies : Listing(n)
          /\ \A p \in Pods : Task(p) /\ PutsAlone(p) /\ Reading(p)

(* Timings excluded: those in which a pod's groups are looked up while a   *)
(* policy goes through the pods, a group is deleted under a reader, or     *)
(* handlers stop at what nothing takes up.                                 *)
GroupsInOrder == NoLostGroup /\ {"late_groups", "group_gone", "forgotten"} \cap Races = {}

(* Which phases set the groups, and how they are left.                     *)
LEMMA PhasesEnd ==
    ASSUME NEW s \in Phases
    PROVE  /\ s \in Putting <=> (s # <<>> /\ s[Len(s)] = "put")
           /\ s \notin {<<>>, <<"put">>, <<"out">>} =>
                /\ Tail(s) \in Phases
                /\ Tail(s) \in Putting <=> s \in Putting
                /\ Tail(s) \in Leaving <=> s \in Leaving
           /\ (s # <<>> /\ Head(s) \in {"drop", "add"}) => s \notin {<<>>, <<"put">>, <<"out">>}
<1>1. CASE s = <<>> BY <1>1 DEF Putting, Leaving, Phases
<1>2. CASE s = <<"add">> BY <1>2 DEF Putting, Leaving, Phases
<1>3. CASE s = <<"add", "put">> BY <1>3 DEF Putting, Leaving, Phases
<1>4. CASE s = <<"put">> BY <1>4 DEF Putting, Leaving, Phases
<1>5. CASE s = <<"drop", "add", "put">> BY <1>5 DEF Putting, Leaving, Phases
<1>6. CASE s = <<"add", "drop", "add", "put">> BY <1>6 DEF Putting, Leaving, Phases
<1>7. CASE s = <<"drop", "out">> BY <1>7 DEF Putting, Leaving, Phases
<1>8. CASE s = <<"out">> BY <1>8 DEF Putting, Leaving, Phases
<1> QED BY <1>1, <1>2, <1>3, <1>4, <1>5, <1>6, <1>7, <1>8 DEF Putting, Leaving, Phases

(* Retry takes up the groups again where they were still to be set.        *)
LEMMA PhasesAgain ==
    ASSUME NetworkPolicyAssumption, NEW p \in Pods, IsWork(work[p]), work[p].todo \in Phases
    PROVE  /\ DOMAIN Again(p) = DOMAIN Idle
           /\ \/ Again(p) = Idle /\ work[p].todo \notin Putting
              \/ /\ Again(p).pc = "next" /\ Again(p).label = work[p].label
                 /\ Again(p).todo \in Phases \ Leaving /\ Again(p).todo # <<>>
                 /\ Again(p).todo \in Putting <=> work[p].todo \in Putting
<1>0. p \notin Spaces /\ p \notin Policies
  BY DEF NetworkPolicyAssumption
<1> DEFINE s == work[p].todo
<1>1. CASE s = <<>>
  <2>1. Again(p) = Idle BY <1>0, <1>1 DEF Again
  <2> QED BY <1>1, <2>1 DEF Putting
<1>2. CASE s = <<"add">> \/ s = <<"add", "drop", "add", "put">>
  <2>0. /\ s # <<>> /\ Head(s) = "add" /\ Len(s) # 2
        /\ ~(Len(s) \in 1..3 /\ s[Len(s)] = "put")
    <3>1. CASE s = <<"add">> BY <3>1
    <3>2. CASE s = <<"add", "drop", "add", "put">> BY <3>2
    <3> QED BY <1>2, <3>1, <3>2
  <2>1. Again(p) = [work[p] EXCEPT !.pc = "next", !.left = {}]
    BY <1>0, <2>0, Zenon DEF Again
  <2>2. DOMAIN Again(p) = DOMAIN Idle BY <2>1 DEF IsWork
  <2>3. Again(p).pc = "next" /\ Again(p).label = work[p].label /\ Again(p).todo = s
    BY <2>1 DEF IsWork, Idle
  <2> QED BY <1>2, <2>2, <2>3 DEF Phases, Putting, Leaving
<1>3. CASE s = <<"add", "put">> \/ s = <<"put">> \/ s = <<"drop", "add", "put">>
  <2>0. /\ ~(s # <<>> /\ Head(s) = "add" /\ Len(s) # 2)
        /\ Len(s) \in 1..3 /\ s[Len(s)] = "put"
    <3>1. CASE s = <<"add", "put">> BY <3>1
    <3>2. CASE s = <<"put">> BY <3>2
    <3>3. CASE s = <<"drop", "add", "put">> BY <3>3
    <3> QED BY <1>3, <3>1, <3>2, <3>3
  <2>1. Again(p) = [work[p] EXCEPT !.pc = "next", !.left = {}, !.todo = <<"drop", "add", "put">>]
    BY <1>0, <2>0, Zenon DEF Again
  <2>2. DOMAIN Again(p) = DOMAIN Idle BY <2>1 DEF IsWork
  <2>3. /\ Again(p).pc = "next" /\ Again(p).label = work[p].label
        /\ Again(p).todo = <<"drop", "add", "put">>
    BY <2>1 DEF IsWork, Idle
  <2>4. s \in Putting
    BY <1>3 DEF Putting
  <2>5. /\ <<"drop", "add", "put">> \in Phases \ Leaving /\ <<"drop", "add", "put">> # <<>>
        /\ <<"drop", "add", "put">> \in Putting
    BY DEF Phases, Putting, Leaving
  <2> QED BY <2>2, <2>3, <2>4, <2>5
<1>4. CASE s = <<"drop", "out">> \/ s = <<"out">>
  <2>1. Again(p) = Idle BY <1>0, <1>4 DEF Again
  <2> QED BY <1>4, <2>1 DEF Putting
<1> QED BY <1>1, <1>2, <1>3, <1>4 DEF Phases, Putting, Leaving

(* A step of one pod, by its own thread or by its user.                    *)
LEMMA OfPod ==
    ASSUME NetworkPolicyAssumption, PodInv, NEW p \in Pods,
           \A q \in Pods \ {p} : work'[q] = work[q] /\ pod'[q] = pod[q],
           \A n \in Policies : work'[n] = work[n],
           groups' = groups, PodShapes', Task(p)', PutsAlone(p)', Reading(p)',
           \A n \in Policies, l \in Labels :
               (work[n].pc = "pods" /\ <<p, l>> \in work[n].left /\ AsListed(p, l))
                   => AsListed(p, l)'
    PROVE  PodInv'
<1>1. ASSUME NEW q \in Pods, q # p PROVE Task(q)' /\ PutsAlone(q)' /\ Reading(q)'
  <2>1. work'[q] = work[q] /\ pod'[q] = pod[q] /\ Task(q) /\ PutsAlone(q) /\ Reading(q)
    BY <1>1 DEF PodInv
  <2>2. Task(q)'
    BY <2>1 DEF Task
  <2>3. PutsAlone(q)'
    BY <2>1 DEF PutsAlone
  <2>4. Reading(q)'
    BY <2>1 DEF Reading
  <2> QED BY <2>2, <2>3, <2>4
<1>2. ASSUME NEW n \in Policies PROVE Listing(n)'
  <2> SUFFICES ASSUME work[n].pc = "pods", NEW q \in Pods, NEW l \in Labels,
                      <<q, l>> \in work[n].left
               PROVE  AsListed(q, l)'
    BY DEF Listing
  <2>1. AsListed(q, l)
    BY DEF PodInv, Listing
  <2>2. CASE q = p
    BY <2>1, <2>2
  <2>3. CASE q # p
    BY <2>1, <2>3 DEF AsListed
  <2> QED BY <2>2, <2>3
<1> QED BY <1>1, <1>2 DEF PodInv

(* What a pod may rely on.                                                 *)
Relied(p) ==
    /\ p \in Threads /\ p \notin Policies /\ p \notin Spaces /\ Policies \subseteq Threads
    /\ DOMAIN work = Threads /\ IsWork(work[p]) /\ work[p].pc \in ObjectPcs
    /\ DOMAIN pod = Pods
    /\ DOMAIN pod[p] = {"st", "leaving", "label", "noted", "groups"}
    /\ pod[p].st \in {"out", "new", "vif", "active", "running"}
    /\ pod[p].leaving \in BOOLEAN /\ pod[p].label \in Labels
    /\ Task(p) /\ PutsAlone(p) /\ Reading(p)

LEMMA PodRelies ==
    ASSUME NetworkPolicyAssumption, GroupInv, PodInv, NEW p \in Pods
    PROVE  Relied(p)
BY DEF GroupInv, Shapes, Pcs, PodInv, PodShapes, Threads, NetworkPolicyAssumption, Relied

LEMMA NothingToDo == <<>> \in Phases /\ <<>> \notin Putting /\ <<>> \notin Leaving
BY DEF Phases, Putting, Leaving

(* The pod alone, or its thread alone, as the actions change them.         *)
LEMMA OthersStay ==
    ASSUME NetworkPolicyAssumption, GroupInv, PodInv, NEW p \in Pods,
           work' = work \/ work' = [work EXCEPT ![p] = work'[p]],
           pod' = pod \/ pod' = [pod EXCEPT ![p] = pod'[p]]
    PROVE  /\ \A q \in Pods \ {p} : work'[q] = work[q] /\ pod'[q] = pod[q]
           /\ \A n \in Policies : work'[n] = work[n]
           /\ DOMAIN pod' = Pods
<1>0. Relied(p)
  BY PodRelies
<1> USE <1>0 DEF Relied
<1>1. \A t \in Threads \ {p} : work'[t] = work[t]
  OBVIOUS
<1>2. DOMAIN pod' = Pods /\ \A q \in Pods \ {p} : pod'[q] = pod[q]
  OBVIOUS
<1> QED BY <1>1, <1>2 DEF Threads

(* The pod keeps its shape.                                                *)
LEMMA StaysShaped ==
    ASSUME PodInv, NEW p \in Pods, DOMAIN pod' = Pods,
           \A q \in Pods \ {p} : pod'[q] = pod[q],
           DOMAIN pod'[p] = DOMAIN pod[p],
           pod'[p].st \in {"out", "new", "vif", "active", "running"},
           pod'[p].leaving \in BOOLEAN, pod'[p].label \in Labels
    PROVE  PodShapes'
BY DEF PodInv, PodShapes

(* The port is created, recorded and activated.                            *)
LEMMA VifKeeps ==
    ASSUME NetworkPolicyAssumption, GroupsInOrder, GroupInv, PodInv, NEW p \in Pods,
           RequestVif(p) \/ AnnotateVif(p) \/ ActivateVif(p)
    PROVE  PodInv'
<1>0. Relied(p)
  BY PodRelies
<1> USE <1>0 DEF Relied
<1>1. CASE RequestVif(p)
  <2> DEFINE w == [Idle EXCEPT !.pc = "annotate", !.label = pod[p].label]
             its == GroupsFor(p, pod[p].label)
  <2>1. /\ work' = [work EXCEPT ![p] = w] /\ pod' = [pod EXCEPT ![p].groups = its]
        /\ groups' = groups /\ pod[p].st = "new"
    BY <1>1 DEF RequestVif
  <2>2. w.pc = "annotate" /\ w.todo = <<>>
    BY DEF Idle
  <2> HIDE DEF w, its
  <2>3. work'[p] = w /\ pod'[p] = [pod[p] EXCEPT !.groups = its]
    BY <2>1
  <2>4. /\ pod'[p].st = "new" /\ pod'[p].label = pod[p].label /\ pod'[p].leaving = pod[p].leaving
        /\ DOMAIN pod'[p] = DOMAIN pod[p]
    BY <2>1, <2>3
  <2>5. /\ \A q \in Pods \ {p} : work'[q] = work[q] /\ pod'[q] = pod[q]
        /\ \A n \in Policies : work'[n] = work[n]
        /\ DOMAIN pod' = Pods
    BY <2>1, <2>3, OthersStay
  <2>6. PodShapes'
    BY <2>4, <2>5, StaysShaped
  <2>7. Task(p)' /\ PutsAlone(p)' /\ Reading(p)'
    BY <2>2, <2>3, <2>4, NothingToDo DEF Task, PutsAlone, Reading
  <2>8. \A l : ~AsListed(p, l)
    BY <2>1 DEF AsListed
  <2> QED BY <2>1, <2>5, <2>6, <2>7, <2>8, OfPod
<1>2. CASE AnnotateVif(p)
  <2> DEFINE o == IF pod[p].leaving THEN [pod[p] EXCEPT !.groups = {}]
                  ELSE [pod[p] EXCEPT !.st = "vif", !.noted = work[p].label]
  <2>1. work' = [work EXCEPT ![p] = Idle] /\ groups' = groups /\ work[p].pc = "annotate"
    BY <1>2 DEF AnnotateVif, Ends, Is
  <2>2. pod' = [pod EXCEPT ![p] = o]
    BY <1>2 DEF AnnotateVif
  <2>3. Idle.pc = "idle" /\ Idle.todo = <<>> /\ Idle.label = None
    BY DEF Idle
  <2>4. pod[p].st = "new"
    BY <2>1 DEF Task
  <2>5. /\ (o.st = "new" /\ o.groups = {}) \/ o.st = "vif"
        /\ o.leaving = pod[p].leaving /\ o.label = pod[p].label /\ DOMAIN o = DOMAIN pod[p]
    BY <2>4
  <2> HIDE DEF o
  <2>6. work'[p] = Idle /\ pod'[p] = o
    BY <2>1, <2>2
  <2>7. /\ \A q \in Pods \ {p} : work'[q] = work[q] /\ pod'[q] = pod[q]
        /\ \A n \in Policies : work'[n] = work[n]
        /\ DOMAIN pod' = Pods
    BY <2>1, <2>2, <2>6, OthersStay
  <2>8. PodShapes'
    BY <2>5, <2>6, <2>7, StaysShaped
  <2>9. Task(p)' /\ PutsAlone(p)' /\ Reading(p)'
    BY <2>3, <2>5, <2>6, NothingToDo DEF Task, PutsAlone, Reading
  <2>10. \A l : ~AsListed(p, l)
    BY <2>4 DEF AsListed
  <2> QED BY <2>1, <2>7, <2>8, <2>9, <2>10, OfPod
<1>3. CASE ActivateVif(p)
  <2> DEFINE w == [Idle EXCEPT !.pc = "next", !.label = pod[p].label,
                       !.todo = IF pod[p].label = pod[p].noted THEN <<"add">>
                                ELSE <<"add", "drop", "add", "put">>]
             o == [pod[p] EXCEPT !.st = "active", !.noted = pod[p].label]
  <2>1. /\ work' = [work EXCEPT ![p] = w] /\ pod' = [pod EXCEPT ![p] = o]
        /\ groups' = groups /\ work[p].pc \in {"idle", "failed"}
        /\ pod[p].st = "vif" /\ ~pod[p].leaving
    BY <1>3 DEF ActivateVif, Ready
  <2>2. /\ w.pc = "next" /\ w.label = pod[p].label
        /\ w.todo = IF pod[p].label = pod[p].noted THEN <<"add">>
                    ELSE <<"add", "drop", "add", "put">>
    BY DEF Idle
  <2>3. /\ o.st = "active" /\ o.leaving = pod[p].leaving /\ o.label = pod[p].label
        /\ o.noted = pod[p].label /\ DOMAIN o = DOMAIN pod[p]
    OBVIOUS
  <2> HIDE DEF w, o
  <2>4. work'[p] = w /\ pod'[p] = o
    BY <2>1
  <2>5. /\ \A q \in Pods \ {p} : work'[q] = work[q] /\ pod'[q] = pod[q]
        /\ \A n \in Policies : work'[n] = work[n]
        /\ DOMAIN pod' = Pods
    BY <2>1, <2>4, OthersStay
  <2>6. PodShapes'
    BY <2>3, <2>4, <2>5, StaysShaped
  <2>7. w.todo \in Phases \ Leaving /\ (pod[p].label # pod[p].noted => w.todo \in Putting)
    <3>1. <<"add">> \in Phases \ Leaving /\ <<"add", "drop", "add", "put">> \in Phases \ Leaving
      BY DEF Phases, Putting, Leaving
    <3> QED BY <2>2, <3>1 DEF Putting
  <2>8. Task(p)' /\ PutsAlone(p)' /\ Reading(p)'
    BY <2>2, <2>3, <2>4, <2>7 DEF Task, PutsAlone, Reading
  <2>9. \A l : AsListed(p, l) => AsListed(p, l)'
    <3>1. work[p].todo \notin Putting
      BY <2>1, NothingToDo DEF Task
    <3> QED BY <2>1, <2>3, <2>4, <2>7, <3>1 DEF AsListed
  <2> QED BY <2>1, <2>5, <2>6, <2>8, <2>9, OfPod
<1> QED BY <1>1, <1>2, <1>3

(* A pod's thread goes on, and the pod is as it was.                       *)
LEMMA ThreadGoes ==
    ASSUME NetworkPolicyAssumption, GroupInv, PodInv, NEW p \in Pods,
           pod' = pod, groups' = groups, work' = [work EXCEPT ![p] = work'[p]],
           Task(p)', PutsAlone(p)', Reading(p)',
           \/ work[p].todo \in Putting => work'[p].todo \in Putting
           \/ pod[p].label # pod[p].noted \/ pod[p].leaving
    PROVE  PodInv'
<1>1. PodShapes'
  BY DEF PodInv, PodShapes
<1>2. \A l : AsListed(p, l) => AsListed(p, l)'
  BY DEF AsListed
<1>3. /\ \A q \in Pods \ {p} : work'[q] = work[q] /\ pod'[q] = pod[q]
      /\ \A n \in Policies : work'[n] = work[n]
  BY OthersStay
<1> QED BY <1>1, <1>2, <1>3, OfPod

(* The handlers of pods, but for the records.                              *)
LEMMA HandlersKeep ==
    ASSUME NetworkPolicyAssumption, GroupsInOrder, GroupInv, PodInv, NEW p \in Pods,
           Relabelled(p) \/ LookUpGroups(p) \/ PutGroups(p) \/ PodDone(p)
    PROVE  PodInv'
<1>0. Relied(p)
  BY PodRelies
<1> USE <1>0 DEF Relied
<1>1. CASE Relabelled(p)
  <2> DEFINE w == [Idle EXCEPT !.pc = "next", !.label = pod[p].label,
                               !.todo = <<"drop", "add", "put">>]
  <2>1. /\ work' = [work EXCEPT ![p] = w] /\ pod' = pod /\ groups' = groups
        /\ pod[p].st \in {"active", "running"} /\ ~pod[p].leaving
    BY <1>1 DEF Relabelled
  <2>2. w.pc = "next" /\ w.todo = <<"drop", "add", "put">>
    BY DEF Idle
  <2> HIDE DEF w
  <2>3. work'[p] = w
    BY <2>1
  <2>4. w.todo \in Phases /\ w.todo \in Putting /\ w.todo \notin Leaving
    BY <2>2 DEF Phases, Putting, Leaving
  <2>5. Task(p)' /\ PutsAlone(p)' /\ Reading(p)'
    BY <2>1, <2>2, <2>3, <2>4 DEF Task, PutsAlone, Reading
  <2> QED BY <2>1, <2>3, <2>4, <2>5, ThreadGoes
<1>2. CASE LookUpGroups(p)
  <2> DEFINE w == [work[p] EXCEPT !.pc = "put", !.left = GroupsFor(p, work[p].label)]
  <2>1. /\ work' = [work EXCEPT ![p] = w] /\ pod' = pod /\ groups' = groups
        /\ work[p].pc = "next" /\ work[p].todo = <<"put">> /\ GroupsAlone(Policies)
    BY <1>2 DEF LookUpGroups, Last, Is
  <2>2. w.pc = "put" /\ w.todo = work[p].todo /\ w.label = work[p].label
    BY DEF IsWork, Idle
  <2> HIDE DEF w
  <2>3. work'[p] = w
    BY <2>1
  <2>4. \A n \in Policies : work[n].pc # "pods" /\ work'[n] = work[n]
    BY <2>1 DEF GroupsAlone, GroupsInOrder
  <2>5. Task(p)' /\ PutsAlone(p)' /\ Reading(p)'
    BY <2>1, <2>2, <2>3, <2>4 DEF Task, PutsAlone, Reading
  <2> QED BY <2>1, <2>2, <2>3, <2>5, ThreadGoes
<1>3. CASE PutGroups(p)
  <2> DEFINE o == [pod[p] EXCEPT !.groups = work[p].left, !.noted = work[p].label]
  <2>1. /\ work' = [work EXCEPT ![p] = Idle] /\ pod' = [pod EXCEPT ![p] = o]
        /\ groups' = groups /\ work[p].pc = "put"
    BY <1>3 DEF PutGroups, Ends, Is
  <2>2. Idle.pc = "idle" /\ Idle.todo = <<>> /\ Idle.label = None
    BY DEF Idle
  <2>3. /\ o.st = pod[p].st /\ o.leaving = pod[p].leaving /\ o.label = pod[p].label
        /\ DOMAIN o = DOMAIN pod[p]
    OBVIOUS
  <2>4. pod[p].st \notin {"out", "new"}
    BY <2>1 DEF Task
  <2> HIDE DEF o
  <2>5. work'[p] = Idle /\ pod'[p] = o
    BY <2>1
  <2>6. /\ \A q \in Pods \ {p} : work'[q] = work[q] /\ pod'[q] = pod[q]
        /\ \A n \in Policies : work'[n] = work[n]
        /\ DOMAIN pod' = Pods
    BY <2>1, <2>5, OthersStay
  <2>7. PodShapes'
    BY <2>3, <2>5, <2>6, StaysShaped
  <2>8. Task(p)' /\ PutsAlone(p)' /\ Reading(p)'
    BY <2>2, <2>3, <2>4, <2>5, NothingToDo DEF Task, PutsAlone, Reading
  <2>9. \A n \in Policies : work[n].pc # "pods"
    BY <2>1 DEF PutsAlone
  <2> QED BY <2>1, <2>6, <2>7, <2>8, <2>9, OfPod
<1>4. CASE PodDone(p)
  <2>1. /\ work' = [work EXCEPT ![p] = Idle] /\ pod' = pod /\ groups' = groups
        /\ work[p].pc = "next" /\ work[p].todo = <<>>
    BY <1>4 DEF PodDone, Ends, Is
  <2>2. Idle.pc = "idle" /\ Idle.todo = <<>> /\ Idle.label = None
    BY DEF Idle
  <2>3. work'[p] = Idle
    BY <2>1
  <2>4. Task(p)' /\ PutsAlone(p)' /\ Reading(p)'
    BY <2>1, <2>2, <2>3, NothingToDo DEF Task, PutsAlone, Reading
  <2> QED BY <2>1, <2>3, <2>4, NothingToDo, ThreadGoes
<1> QED BY <1>1, <1>2, <1>3, <1>4

(* A pod goes.                                                             *)
LEMMA GoingKeeps ==
    ASSUME NetworkPolicyAssumption, GroupsInOrder, GroupInv, PodInv, NEW p \in Pods,
           PodDeleted(p) \/ ReleaseVif(p)
    PROVE  PodInv'
<1>0. Relied(p)
  BY PodRelies
<1> USE <1>0 DEF Relied
<1>1. CASE PodDeleted(p) /\ pod[p].st # "new"
  <2> DEFINE w == [work[p] EXCEPT !.pc = "next", !.todo = <<"drop", "out">>]
  <2>1. /\ work' = [work EXCEPT ![p] = w] /\ pod' = pod /\ groups' = groups
        /\ work[p].pc \in {"idle", "failed"} /\ pod[p].leaving
    BY <1>1 DEF PodDeleted, Does, Ready
  <2>2. w.pc = "next" /\ w.todo = <<"drop", "out">> /\ w.label = work[p].label
    BY DEF IsWork, Idle
  <2> HIDE DEF w
  <2>3. work'[p] = w
    BY <2>1
  <2>4. w.todo \in Phases /\ w.todo \in Leaving
    BY <2>2 DEF Phases, Leaving
  <2>5. Task(p)' /\ PutsAlone(p)' /\ Reading(p)'
    BY <1>1, <2>1, <2>2, <2>3, <2>4 DEF Task, PutsAlone, Reading
  <2> QED BY <2>1, <2>3, <2>5, ThreadGoes
<1>2. CASE (PodDeleted(p) /\ pod[p].st = "new") \/ ReleaseVif(p)
  <2>1. /\ work' = [work EXCEPT ![p] = Idle] /\ groups' = groups
        /\ pod' = [pod EXCEPT ![p] = pod'[p]]
        /\ pod'[p].st = "out" /\ ~pod'[p].leaving /\ pod'[p].label = pod[p].label
        /\ pod'[p].groups = {} /\ DOMAIN pod'[p] = DOMAIN pod[p]
        /\ pod'[p].leaving \in BOOLEAN
    <3>1. CASE PodDeleted(p) /\ pod[p].st = "new"
      <4>1. pod' = [pod EXCEPT ![p] = [pod[p] EXCEPT !.st = "out", !.leaving = FALSE]]
        BY <3>1 DEF PodDeleted
      <4>2. work[p].pc \in {"idle", "failed"} /\ pod[p].groups = {}
        BY <3>1 DEF PodDeleted, Ready, Task
      <4> QED BY <3>1, <4>1, <4>2 DEF PodDeleted, Ends
    <3>2. CASE ReleaseVif(p)
      BY <3>2 DEF ReleaseVif, Ends
    <3> QED BY <1>2, <3>1, <3>2
  <2>2. Idle.pc = "idle" /\ Idle.todo = <<>> /\ Idle.label = None
    BY DEF Idle
  <2>3. work'[p] = Idle
    BY <2>1
  <2>4. /\ \A q \in Pods \ {p} : work'[q] = work[q] /\ pod'[q] = pod[q]
        /\ \A n \in Policies : work'[n] = work[n]
        /\ DOMAIN pod' = Pods
    BY <2>1, <2>3, OthersStay
  <2>5. PodShapes'
    BY <2>1, <2>4, StaysShaped
  <2>6. Task(p)' /\ PutsAlone(p)' /\ Reading(p)'
    BY <2>1, <2>2, <2>3, NothingToDo DEF Task, PutsAlone, Reading
  <2>7. \A l : AsListed(p, l) => AsListed(p, l)'
    BY <2>1 DEF AsListed
  <2> QED BY <2>1, <2>4, <2>5, <2>6, <2>7, OfPod
<1> QED BY <1>1, <1>2

(* Editing the records: a handler starts with groups that are all there,   *)
(* and none of them is being given to a policy.                            *)
LEMMA EditPreserves ==
    ASSUME NetworkPolicyAssumption, GroupsInOrder, GroupInv, PodInv, NEW p \in Pods, EditStep(p)
    PROVE  PodInv'
<1>0. Relied(p)
  BY PodRelies
<1> USE <1>0 DEF Relied
<1>1. CASE ListRecords(p)
  <2> DEFINE w == [work[p] EXCEPT !.pc = "edit", !.seen = crd, !.left = Recorded]
  <2>1. /\ work' = [work EXCEPT ![p] = w] /\ pod' = pod /\ groups' = groups
        /\ work[p].pc = "next" /\ work[p].todo # <<>> /\ Head(work[p].todo) \in {"drop", "add"}
        /\ GroupsThere
    BY <1>1 DEF ListRecords, Is
  <2>2. /\ w.pc = "edit" /\ w.todo = work[p].todo /\ w.label = work[p].label
        /\ w.seen = crd /\ w.left = Recorded
    BY DEF IsWork, Idle
  <2> HIDE DEF w
  <2>3. work'[p] = w
    BY <2>1
  <2>4. work[p].todo \notin {<<>>, <<"put">>, <<"out">>}
    BY <2>1, PhasesEnd DEF Task
  <2>5. Task(p)' /\ PutsAlone(p)'
    BY <2>1, <2>2, <2>3, <2>4 DEF Task, PutsAlone
  <2>6. DOMAIN crd = Policies /\ Recorded \subseteq Policies
    BY DEF GroupInv, Shapes, Recorded
  <2>7. \A m \in Recorded : crd[m].sg \in groups
    BY <2>1 DEF GroupsThere, GroupsInOrder
  <2>8. ASSUME NEW m \in Recorded, NEW n \in Policies, work[n].pc \in Creating
        PROVE  work[n].sg # crd[m].sg
    <3>1. crd[n] = NoCrd /\ crd[m] # NoCrd
      BY <2>8 DEF GroupInv, Stages, Stage, Recorded
    <3>2. /\ n # m /\ Holds(n) /\ Holds(m)
          /\ ItsGroup(n) = work[n].sg /\ ItsGroup(m) = crd[m].sg
      BY <2>8, <3>1 DEF Holds, ItsGroup
    <3> QED BY <2>6, <3>2 DEF GroupInv, Apart
  <2>9. \A n \in Policies : work'[n] = work[n]
    BY <2>1, <2>3, OthersStay
  <2>10. Reading(p)'
    BY <2>1, <2>2, <2>3, <2>6, <2>7, <2>8, <2>9 DEF Reading
  <2> QED BY <2>1, <2>2, <2>3, <2>5, <2>10, ThreadGoes
<1>2. CASE PatchCrd(p)
  <2> DEFINE w == [work[p] EXCEPT !.pc = "edit"]
  <2>1. /\ work' = [work EXCEPT ![p] = w] /\ pod' = pod /\ groups' = groups
        /\ work[p].pc = "patch"
    BY <1>2 DEF PatchCrd, Is, Goes
  <2>2. /\ w.pc = "edit" /\ w.todo = work[p].todo /\ w.label = work[p].label
        /\ w.seen = work[p].seen /\ w.left = work[p].left
    BY DEF IsWork, Idle
  <2> HIDE DEF w
  <2>3. work'[p] = w
    BY <2>1
  <2>4. Task(p)' /\ PutsAlone(p)'
    BY <2>1, <2>2, <2>3 DEF Task, PutsAlone
  <2>5. \A n \in Policies : work'[n] = work[n]
    BY <2>1, <2>3, OthersStay
  <2>6. Reading(p)'
    BY <2>1, <2>2, <2>3, <2>5 DEF Reading
  <2> QED BY <2>1, <2>2, <2>3, <2>4, <2>6, ThreadGoes
<1>3. CASE EndPhase(p)
  <2> DEFINE w == [work[p] EXCEPT !.pc = "next", !.todo = Tail(work[p].todo)]
  <2>1. /\ work' = [work EXCEPT ![p] = w] /\ pod' = pod /\ groups' = groups
        /\ work[p].pc = "edit"
    BY <1>3 DEF EndPhase, Is
  <2>2. w.pc = "next" /\ w.todo = Tail(work[p].todo) /\ w.label = work[p].label
    BY DEF IsWork, Idle
  <2> HIDE DEF w
  <2>3. work'[p] = w
    BY <2>1
  <2>4. /\ work[p].todo \in Phases
        /\ work[p].todo \notin {<<>>, <<"put">>, <<"out">>}
    BY <2>1 DEF Task
  <2>5. /\ w.todo \in Phases
        /\ w.todo \in Putting <=> work[p].todo \in Putting
        /\ w.todo \in Leaving <=> work[p].todo \in Leaving
    BY <2>2, <2>4, PhasesEnd
  <2>6. Task(p)' /\ PutsAlone(p)' /\ Reading(p)'
    BY <2>1, <2>2, <2>3, <2>5 DEF Task, PutsAlone, Reading
  <2> QED BY <2>1, <2>3, <2>5, <2>6, ThreadGoes
<1>4. ASSUME NEW n \in Policies, EditRules(p, n) PROVE PodInv'
  <2> DEFINE kept == (work[p].seen[n].rules \ Taken(p, n)) \cup Given(p, n)
  <2>1. pod' = pod /\ groups' = groups /\ work[p].pc = "edit" /\ n \in work[p].left
    BY <1>4 DEF EditRules, Is
  <2>2. DOMAIN work[p].seen = Policies /\ work[p].left \subseteq Policies
    BY <2>1 DEF Reading
  <2>3. /\ \A t \in Threads \ {p} : work'[t] = work[t]
        /\ work'[p].pc \in {"edit", "patch"} /\ work'[p].todo = work[p].todo
        /\ work'[p].label = work[p].label /\ work'[p].left = work[p].left \ {n}
        /\ DOMAIN work'[p].seen = Policies
        /\ \A m \in work[p].left \ {n} : work'[p].seen[m].sg = work[p].seen[m].sg
    <3>1. CASE Taken(p, n) \cup Given(p, n) = {}
      <4>1. work' = [work EXCEPT ![p].left = @ \ {n}]
        BY <1>4, <3>1 DEF EditRules
      <4> QED BY <2>1, <2>2, <4>1 DEF IsWork, Idle
    <3>2. CASE Taken(p, n) \cup Given(p, n) # {}
      <4>1. work' = [work EXCEPT ![p].left = @ \ {n}, ![p].seen[n].rules = kept,
                                 ![p].pc = "patch", ![p].at = n]
        BY <1>4, <3>2 DEF EditRules
      <4> HIDE DEF kept
      <4> QED BY <2>1, <2>2, <4>1 DEF IsWork, Idle
    <3> QED BY <3>1, <3>2
  <2>4. Task(p)' /\ PutsAlone(p)'
    BY <2>1, <2>3 DEF Task, PutsAlone
  <2>5. Reading(p)'
    BY <2>1, <2>2, <2>3 DEF Reading
  <2>6. PodShapes'
    BY <2>1 DEF PodInv, PodShapes
  <2>7. \A l : AsListed(p, l) => AsListed(p, l)'
    BY <2>1, <2>3 DEF AsListed
  <2>8. \A q \in Pods \ {p} : work'[q] = work[q] /\ pod'[q] = pod[q]
    BY <2>1, <2>3 DEF Threads
  <2>9. \A m \in Policies : work'[m] = work[m]
    BY <2>3
  <2> QED BY <2>1, <2>4, <2>5, <2>6, <2>7, <2>8, <2>9, OfPod
<1> QED BY <1>1, <1>2, <1>3, <1>4 DEF EditStep

(* A handler of a pod fails: Retry calls it again, with the groups still   *)
(* to be set, or it is given up for other labels than those noted, or not  *)
(* while a policy goes through the pods.                                   *)
LEMMA FailureKeeps ==
    ASSUME NetworkPolicyAssumption, GroupsInOrder, GroupInv, PodInv, NEW p \in Pods,
           NotFound(p) \/ CallFails(p)
    PROVE  PodInv'
<1>0. Relied(p)
  BY PodRelies
<1> USE <1>0 DEF Relied
<1> DEFINE w == [Idle EXCEPT !.pc = "failed"]
<1>1. /\ w.pc = "failed" /\ w.todo = <<>> /\ w.label = None
      /\ Idle.pc = "idle" /\ Idle.todo = <<>> /\ Idle.label = None
  BY DEF Idle
<1>2. pod' = pod
  BY DEF NotFound, CallFails
<1>3. groups' = groups
  BY DEF NotFound, CallFails, ObjectPcs
<1> HIDE DEF w
<1>4. CASE work' = [work EXCEPT ![p] = Again(p)] /\ CallFails(p)
  <2>1. work'[p] = Again(p)
    BY <1>4
  <2>2. work[p].pc \notin {"idle", "failed", "annotate"}
    BY <1>4 DEF CallFails
  <2>3. work[p].todo \in Phases
    BY DEF Task
  <2>4. \/ Again(p) = Idle /\ work[p].todo \notin Putting
        \/ /\ Again(p).pc = "next" /\ Again(p).label = work[p].label
           /\ Again(p).todo \in Phases \ Leaving /\ Again(p).todo # <<>>
           /\ Again(p).todo \in Putting <=> work[p].todo \in Putting
    BY <2>3, PhasesAgain
  <2>5. CASE Again(p) = Idle /\ work[p].todo \notin Putting
    <3>1. Task(p)' /\ PutsAlone(p)' /\ Reading(p)'
      BY <1>1, <1>2, <2>1, <2>2, <2>5, NothingToDo DEF Task, PutsAlone, Reading
    <3> QED BY <1>2, <1>3, <1>4, <2>1, <2>5, <3>1, ThreadGoes
  <2>6. CASE /\ Again(p).pc = "next" /\ Again(p).label = work[p].label
             /\ Again(p).todo \in Phases \ Leaving
             /\ Again(p).todo \in Putting <=> work[p].todo \in Putting
    <3>1. Task(p)' /\ PutsAlone(p)' /\ Reading(p)'
      BY <1>2, <2>1, <2>2, <2>6 DEF Task, PutsAlone, Reading
    <3> QED BY <1>2, <1>3, <1>4, <2>1, <2>6, <3>1, ThreadGoes
  <2> QED BY <2>4, <2>5, <2>6
<1>5. CASE work' = [work EXCEPT ![p] = work'[p]] /\ (work'[p] = w \/ work'[p] = Idle)
  <2>1. work[p].pc # "annotate" /\ (pod[p].st = "out" => FALSE)
    <3>1. CASE CallFails(p)
      BY <3>1 DEF CallFails, Task
    <3>2. CASE NotFound(p)
      BY <3>2 DEF NotFound, Task, Is, Ready
    <3> QED BY <3>1, <3>2
  <2>2. Task(p)' /\ PutsAlone(p)' /\ Reading(p)'
    BY <1>1, <1>2, <1>5, <2>1, NothingToDo DEF Task, PutsAlone, Reading
  <2>3. CASE work[p].todo \notin Putting \/ pod[p].label # pod[p].noted \/ pod[p].leaving
    BY <1>2, <1>3, <1>5, <2>2, <2>3, ThreadGoes
  <2>4. CASE \A n \in Policies : work[n].pc # "pods"
    <3>1. /\ \A q \in Pods \ {p} : work'[q] = work[q] /\ pod'[q] = pod[q]
          /\ \A n \in Policies : work'[n] = work[n]
      BY <1>2, <1>5, OthersStay
    <3>2. PodShapes'
      BY <1>2 DEF PodInv, PodShapes
    <3> QED BY <1>3, <2>2, <2>4, <3>1, <3>2, OfPod
  <2>5. CASE work[p].pc = "put"
    BY <2>4, <2>5 DEF PutsAlone
  <2>6. CASE work[p].pc # "put" /\ NotFound(p)
    <3>1. CASE Is(p, "edit") /\ \E n \in work[p].left : work[p].seen[n].sg \notin groups
      BY <2>3, <3>1 DEF Reading, Is
    <3>2. CASE Ready(p)
      BY <2>3, <3>2, NothingToDo DEF Ready, Task
    <3> QED BY <2>6, <3>1, <3>2 DEF NotFound, Is, ObjectPcs
  <2>7. CASE CallFails(p)
    <3>1. CASE ~Forgettable(p)
      BY <2>3, <2>7, <3>1, NothingToDo DEF Forgettable, GroupsInOrder
    <3>2. CASE work' = [work EXCEPT ![p] = Again(p)]
      BY <1>4, <2>7, <3>2
    <3> QED BY <2>7, <3>1, <3>2 DEF CallFails
  <2> QED BY <2>5, <2>6, <2>7
<1>6. CASE CallFails(p)
  BY <1>4, <1>5, <1>6 DEF CallFails, GivenUp, w
<1>7. CASE NotFound(p)
  BY <1>5, <1>7 DEF NotFound, GivenUp, Ends, w
<1> QED BY <1>6, <1>7

(* Users and kubelet.  A user relabels a pod when the labels before have   *)
(* been taken up: by a handler that still sets the groups, or they are the *)
(* labels noted, and then the new ones are not.                            *)
LEMMA PodChangeKeeps ==
    ASSUME NetworkPolicyAssumption, GroupsInOrder, GroupInv, PodInv, NEW p \in Pods,
           \/ \E l \in Labels : CreatePod(p, l) \/ RelabelPod(p, l)
           \/ DeletePod(p) \/ PodRuns(p)
    PROVE  PodInv'
<1>0. Relied(p)
  BY PodRelies
<1> USE <1>0 DEF Relied
<1>1. ASSUME NEW l \in Labels, CreatePod(p, l) PROVE PodInv'
  <2> DEFINE o == [st |-> "new", leaving |-> FALSE, label |-> l, noted |-> l, groups |-> {}]
  <2>1. /\ work' = work /\ pod' = [pod EXCEPT ![p] = o] /\ groups' = groups
        /\ work[p].pc = "idle"
        /\ \A n \in Policies, m \in Labels : <<p, m>> \notin work[n].left
    BY <1>1 DEF CreatePod, Is
  <2>2. /\ o.st = "new" /\ ~o.leaving /\ o.label = l /\ o.groups = {}
        /\ o.leaving \in BOOLEAN /\ DOMAIN o = DOMAIN pod[p]
    OBVIOUS
  <2> HIDE DEF o
  <2>3. pod'[p] = o
    BY <2>1
  <2>4. /\ \A q \in Pods \ {p} : work'[q] = work[q] /\ pod'[q] = pod[q]
        /\ \A n \in Policies : work'[n] = work[n]
        /\ DOMAIN pod' = Pods
    BY <2>1, <2>3, OthersStay
  <2>5. PodShapes'
    BY <2>2, <2>3, <2>4, StaysShaped
  <2>6. Task(p)' /\ PutsAlone(p)' /\ Reading(p)'
    BY <2>1, <2>2, <2>3, NothingToDo DEF Task, PutsAlone, Reading
  <2> QED BY <2>1, <2>4, <2>5, <2>6, OfPod
<1>2. ASSUME NEW l \in Labels, RelabelPod(p, l) PROVE PodInv'
  <2> DEFINE o == [pod[p] EXCEPT !.label = l]
  <2>1. /\ work' = work /\ pod' = [pod EXCEPT ![p] = o] /\ groups' = groups
        /\ pod[p].st # "out" /\ l # pod[p].label
        /\ pod[p].label = TakenUp(p, pod[p].noted) /\ ~Doomed(p)
    BY <1>2 DEF RelabelPod, MayChange, GroupsInOrder
  <2>2. /\ o.st = pod[p].st /\ o.leaving = pod[p].leaving /\ o.label = l
        /\ o.groups = pod[p].groups /\ o.noted = pod[p].noted /\ DOMAIN o = DOMAIN pod[p]
    OBVIOUS
  <2> HIDE DEF o
  <2>3. pod'[p] = o
    BY <2>1
  <2>4. /\ \A q \in Pods \ {p} : work'[q] = work[q] /\ pod'[q] = pod[q]
        /\ \A n \in Policies : work'[n] = work[n]
        /\ DOMAIN pod' = Pods
    BY <2>1, <2>3, OthersStay
  <2>5. PodShapes'
    BY <2>2, <2>3, <2>4, StaysShaped
  <2>6. Task(p)' /\ PutsAlone(p)'
    BY <2>1, <2>2, <2>3 DEF Task, PutsAlone
  <2>7. Reading(p)'
    BY <2>1, <2>3 DEF Reading, Doomed
  <2>8. \A m : AsListed(p, m) => AsListed(p, m)'
    <3>1. pod[p].st = "new" \/ work[p].todo \in Putting \/ pod[p].label = pod[p].noted
      BY <2>1 DEF Task, TakenUp
    <3> QED BY <2>1, <2>2, <2>3, <3>1 DEF AsListed
  <2> QED BY <2>1, <2>4, <2>5, <2>6, <2>7, <2>8, OfPod
<1>3. CASE DeletePod(p) \/ PodRuns(p)
  <2>1. /\ work' = work /\ pod' = [pod EXCEPT ![p] = pod'[p]] /\ groups' = groups
        /\ pod[p].st # "out" /\ pod'[p].st # "out" /\ (pod'[p].st = "new" <=> pod[p].st = "new")
        /\ pod'[p].st \in {"out", "new", "vif", "active", "running"}
        /\ pod[p].leaving => pod'[p].leaving
        /\ pod'[p].leaving \in BOOLEAN /\ pod'[p].label = pod[p].label
        /\ pod'[p].noted = pod[p].noted /\ pod'[p].groups = pod[p].groups
        /\ DOMAIN pod'[p] = DOMAIN pod[p]
    <3>1. CASE DeletePod(p)
      <4>1. /\ work' = work /\ pod' = [pod EXCEPT ![p].leaving = TRUE] /\ groups' = groups
            /\ pod[p].st # "out"
        BY <3>1 DEF DeletePod
      <4> QED BY <4>1
    <3>2. CASE PodRuns(p)
      <4>1. /\ work' = work /\ pod' = [pod EXCEPT ![p].st = "running"] /\ groups' = groups
            /\ pod[p].st = "active"
        BY <3>2 DEF PodRuns
      <4> QED BY <4>1
    <3> QED BY <1>3, <3>1, <3>2
  <2>2. /\ \A q \in Pods \ {p} : work'[q] = work[q] /\ pod'[q] = pod[q]
        /\ \A n \in Policies : work'[n] = work[n]
        /\ DOMAIN pod' = Pods
    BY <2>1, OthersStay
  <2>3. PodShapes'
    BY <2>1, <2>2, StaysShaped
  <2>4. Task(p)' /\ PutsAlone(p)' /\ Reading(p)'
    BY <2>1 DEF Task, PutsAlone, Reading
  <2>5. \A m : AsListed(p, m) => AsListed(p, m)'
    BY <2>1 DEF AsListed
  <2> QED BY <2>1, <2>2, <2>3, <2>4, <2>5, OfPod
<1> QED BY <1>1, <1>2, <1>3

(* A step of a namespace's thread, or of nobody's.                         *)
LEMMA Elsewhere ==
    ASSUME PodInv, pod' = pod, groups' = groups,
           \A t \in Pods \cup Policies : work'[t] = work[t]
    PROVE  PodInv'
<1>1. PodShapes'
  BY DEF PodInv, PodShapes
<1>2. \A n \in Policies : Listing(n)'
  BY DEF PodInv, Listing, AsListed
<1>3. \A p \in Pods : Task(p)'
  BY DEF PodInv, Task
<1>4. \A p \in Pods : PutsAlone(p)'
  BY DEF PodInv, PutsAlone
<1>5. \A p \in Pods : Reading(p)'
  BY DEF PodInv, Reading
<1> QED BY <1>1, <1>2, <1>3, <1>4, <1>5 DEF PodInv

LEMMA SpacesKeep ==
    ASSUME NetworkPolicyAssumption, GroupInv, PodInv, NEW s \in Spaces,
           SpaceStep(s) \/ CallFails(s)
    PROVE  PodInv'
<1>0. /\ s \in Threads /\ s \notin Pods /\ s \notin Policies /\ DOMAIN work = Threads
      /\ Pods \cup Policies \subseteq Threads /\ work[s].pc \in ObjectPcs
  BY DEF GroupInv, Shapes, Pcs, Threads, NetworkPolicyAssumption
<1>1. /\ pod' = pod /\ groups' = groups
      /\ work' = [work EXCEPT ![s] = work'[s]]
         \/ \A t \in Threads \ {s} : work'[t] = work[t]
  <2>1. CASE SpaceRelabelled(s) \/ NoteLabels(s) \/ SpaceDeleted(s) \/ RemoveFinalizer(s)
    BY <1>0, <2>1 DEF SpaceRelabelled, NoteLabels, SpaceDeleted, RemoveFinalizer, Ends, Does
  <2>2. CASE ListRecords(s) \/ PatchCrd(s) \/ EndPhase(s)
    BY <1>0, <2>2 DEF ListRecords, PatchCrd, EndPhase, Goes
  <2>3. ASSUME NEW n \in Policies, EditRules(s, n)
        PROVE  /\ pod' = pod /\ groups' = groups
               /\ \A t \in Threads \ {s} : work'[t] = work[t]
    BY <1>0, <2>3 DEF EditRules
  <2>4. CASE NotFound(s)
    BY <1>0, <2>4 DEF NotFound, Ends, GivenUp
  <2>5. CASE CallFails(s)
    BY <1>0, <2>5 DEF CallFails, GivenUp, ObjectPcs
  <2> QED BY <2>1, <2>2, <2>3, <2>4, <2>5 DEF SpaceStep, EditStep
<1> QED BY <1>0, <1>1, Elsewhere

(* A step of a policy's thread: pods change in their groups only, and      *)
(* those only of pods that have a port.                                    *)
LEMMA OfPolicy ==
    ASSUME NetworkPolicyAssumption, GroupInv, PodInv, NEW n \in Policies,
           \A t \in Threads \ {n} : work'[t] = work[t],
           PodShapes',
           \A p \in Pods :
               /\ pod'[p].st = pod[p].st /\ pod'[p].leaving = pod[p].leaving
               /\ pod'[p].label = pod[p].label /\ pod'[p].noted = pod[p].noted
               /\ pod[p].st \in {"out", "new"} => pod'[p].groups = pod[p].groups,
           Listing(n)',
           work'[n].pc = "pods" => \/ work[n].pc = "pods"
                                   \/ \A p \in Pods : work[p].pc # "put",
           \A p \in Pods : Reading(p)'
    PROVE  PodInv'
<1>1. \A t \in Pods \cup (Policies \ {n}) : work'[t] = work[t]
  BY DEF Threads, NetworkPolicyAssumption
<1>2. \A m \in Policies \ {n} : Listing(m)'
  BY <1>1 DEF PodInv, Listing, AsListed
<1>3. \A p \in Pods : Task(p)'
  BY <1>1 DEF PodInv, Task
<1>4. \A p \in Pods : PutsAlone(p)'
  BY <1>1 DEF PodInv, PutsAlone
<1> QED BY <1>2, <1>3, <1>4 DEF PodInv

(* A step that changes no pod and no group, and after which the policy     *)
(* does not go through the pods, nor is its group newly being given.       *)
LEMMA PolicyElsewhere ==
    ASSUME NetworkPolicyAssumption, GroupInv, PodInv, NEW n \in Policies,
           \A t \in Threads \ {n} : work'[t] = work[t],
           pod' = pod, groups' = groups, work'[n].pc # "pods",
           work'[n].pc \in Creating => work[n].pc \in Creating /\ work'[n].sg = work[n].sg
    PROVE  PodInv'
<1>1. PodShapes' /\ Listing(n)'
  BY DEF PodInv, PodShapes, Listing
<1>2. \A t \in Pods \cup (Policies \ {n}) : work'[t] = work[t]
  BY DEF Threads, NetworkPolicyAssumption
<1>3. \A p \in Pods : Reading(p)'
  BY <1>2 DEF PodInv, Reading
<1> QED BY <1>1, <1>3, OfPolicy

(* The pods that a policy lists are selected by the labels they have.      *)
LEMMA SelectedNow ==
    ASSUME NEW sel, NEW p \in Pods, NEW l, <<p, l>> \in Selected(sel)
    PROVE  /\ SpaceOf[p] = Home /\ l = pod[p].label
           /\ pod[p].st \in {"vif", "active", "running"}
BY DEF Selected

LEMMA PolicyRuns ==
    ASSUME NetworkPolicyAssumption, GroupsInOrder, GroupInv, PodInv, NEW n \in Policies,
           \/ NoNeed(n) \/ ParsePolicy(n) \/ CreateRules(n) \/ PostCrd(n) \/ ReadCrd(n)
           \/ DeleteRules(n) \/ StoreRules(n) \/ Updated(n) \/ DeleteCrd(n) \/ NotFound(n)
    PROVE  PodInv'
<1>0. /\ n \in Threads /\ n \notin Pods /\ DOMAIN work = Threads /\ IsWork(work[n])
      /\ work[n].pc \in PolicyPcs
  BY Relies DEF NetworkPolicyAssumption
<1> USE <1>0
<1>1. Idle.pc = "idle"
  BY DEF Idle
<1>2. CASE NoNeed(n) \/ Updated(n) \/ DeleteCrd(n) \/ NotFound(n)
  <2>1. pod' = pod /\ groups' = groups
    BY <1>2 DEF NoNeed, Updated, DeleteCrd, NotFound
  <2>2. \/ work' = [work EXCEPT ![n] = Idle] \/ work' = [work EXCEPT ![n].pc = "unuse"]
        \/ work' = [work EXCEPT ![n] = [Idle EXCEPT !.pc = "failed"]]
    BY <1>2 DEF NoNeed, Updated, DeleteCrd, NotFound, Ends, Goes, GivenUp
  <2>3. work'[n].pc \in {"idle", "failed", "unuse"}
    BY <1>1, <2>2 DEF IsWork, Idle
  <2>4. \A t \in Threads \ {n} : work'[t] = work[t]
    BY <2>2
  <2> QED BY <2>1, <2>3, <2>4, PolicyElsewhere DEF Creating
<1>3. CASE ParsePolicy(n) \/ CreateRules(n) \/ PostCrd(n) \/ DeleteRules(n) \/ StoreRules(n)
  <2>1. pod' = pod /\ groups' = groups /\ \A t \in Threads \ {n} : work'[t] = work[t]
    BY <1>3 DEF ParsePolicy, CreateRules, PostCrd, DeleteRules, StoreRules, Goes
  <2>2. /\ work'[n].pc \in {"rules", "post", "list", "create", "store"} /\ work'[n].sg = work[n].sg
        /\ work'[n].pc \in Creating => work[n].pc \in Creating
    <3>1. CASE ParsePolicy(n)
      BY <3>1 DEF ParsePolicy, IsWork, Idle, Creating, Is
    <3>2. CASE CreateRules(n)
      BY <3>2 DEF CreateRules, IsWork, Idle, Creating, Is, Goes
    <3>3. CASE PostCrd(n)
      BY <3>3 DEF PostCrd, IsWork, Idle, Creating, Is, Goes
    <3>4. CASE DeleteRules(n)
      BY <3>4 DEF DeleteRules, IsWork, Idle, Creating, Is, Goes
    <3>5. CASE StoreRules(n)
      BY <3>5 DEF StoreRules, IsWork, Idle, Creating, Is, Goes
    <3> QED BY <1>3, <3>1, <3>2, <3>3, <3>4, <3>5
  <2> QED BY <2>1, <2>2, PolicyElsewhere
<1>4. CASE ReadCrd(n)
  <2>1. pod' = pod /\ groups' = groups /\ \A t \in Threads \ {n} : work'[t] = work[t]
    BY <1>4 DEF ReadCrd
  <2>2. work'[n].pc = "delete"
    BY <1>4 DEF ReadCrd, Idle
  <2> QED BY <2>1, <2>2, PolicyElsewhere DEF Creating
<1> QED BY <1>2, <1>3, <1>4

(* A policy lists the pods, and goes through them.                         *)
LEMMA GoingThrough ==
    ASSUME NetworkPolicyAssumption, GroupsInOrder, GroupInv, PodInv, NEW n \in Policies,
           \/ ListPods(n) \/ PolicyDeleted(n)
           \/ \E p \in Pods, l \in Labels : UpdatePod(n, p, l)
    PROVE  PodInv'
<1>0. /\ n \in Threads /\ n \notin Pods /\ DOMAIN work = Threads /\ IsWork(work[n])
      /\ work[n].pc \in PolicyPcs
  BY Relies DEF NetworkPolicyAssumption
<1> USE <1>0
<1>1. CASE ListPods(n) \/ (PolicyDeleted(n) /\ crd[n] # NoCrd)
  <2>1. /\ pod' = pod /\ groups' = groups /\ \A t \in Threads \ {n} : work'[t] = work[t]
        /\ GroupsAlone(Pods)
    BY <1>1 DEF ListPods, PolicyDeleted
  <2>2. \E X, Y : /\ work'[n].left \subseteq Selected(X) \cup Selected(Y)
    <3>1. CASE ListPods(n)
      <4> DEFINE X == work[n].spec.sel
                 Y == work[n].seen[n].spec.sel
      <4>1. \/ work'[n].left = Selected(X)
            \/ work'[n].left = Selected(X) \cup Selected(Y)
        <5>1. CASE work[n].seen[n] = NoCrd \/ Y = X
          BY <3>1, <5>1 DEF ListPods, IsWork, Idle
        <5>2. CASE ~(work[n].seen[n] = NoCrd \/ Y = X)
          BY <3>1, <5>2 DEF ListPods, IsWork, Idle
        <5> QED BY <5>1, <5>2
      <4> HIDE DEF X, Y
      <4>2. work'[n].left \subseteq Selected(X) \cup Selected(Y)
        BY <4>1
      <4> QED BY <4>2
    <3>2. CASE PolicyDeleted(n) /\ crd[n] # NoCrd
      <4>1. work'[n].left = Selected(np[n].spec.sel)
        BY <3>2 DEF PolicyDeleted, Idle
      <4> QED BY <4>1
    <3> QED BY <1>1, <3>1, <3>2
  <2>3. \A p \in Pods : work'[p] = work[p]
    BY <2>1 DEF Threads, NetworkPolicyAssumption
  <2>4. Listing(n)'
    <3> SUFFICES ASSUME NEW p \in Pods, NEW l \in Labels, <<p, l>> \in work'[n].left
                 PROVE  AsListed(p, l)'
      BY DEF Listing
    <3>1. PICK X, Y : work'[n].left \subseteq Selected(X) \cup Selected(Y)
      BY <2>2
    <3>2. <<p, l>> \in Selected(X) \/ <<p, l>> \in Selected(Y)
      BY <3>1
    <3>3. SpaceOf[p] = Home /\ l = pod[p].label /\ pod[p].st # "new"
      BY <3>2, SelectedNow
    <3> QED BY <2>1, <3>3 DEF AsListed
  <2>5. PodShapes'
    BY <2>1 DEF PodInv, PodShapes
  <2>6. work'[n].pc = "pods"
    <3>1. CASE ListPods(n)
      BY <3>1 DEF ListPods, IsWork, Idle
    <3>2. CASE PolicyDeleted(n) /\ crd[n] # NoCrd
      BY <3>2 DEF PolicyDeleted, Idle
    <3> QED BY <1>1, <3>1, <3>2
  <2>7. \A p \in Pods : work[p].pc # "put"
    BY <2>1 DEF GroupsAlone, GroupsInOrder
  <2>8. \A p \in Pods : Reading(p)'
    <3>1. \A m \in Policies \ {n} : work'[m] = work[m]
      BY <2>1 DEF Threads
    <3> QED BY <2>1, <2>3, <2>6, <3>1 DEF PodInv, Reading, Creating
  <2> QED BY <2>1, <2>4, <2>5, <2>7, <2>8, OfPolicy
<1>2. CASE PolicyDeleted(n) /\ crd[n] = NoCrd
  <2>1. UNCHANGED <<pod, groups, work>>
    BY <1>2 DEF PolicyDeleted
  <2> QED BY <2>1, Elsewhere
<1>3. ASSUME NEW p \in Pods, NEW l \in Labels, UpdatePod(n, p, l) PROVE PodInv'
  <2>1. /\ work' = [work EXCEPT ![n].left = @ \ {<<p, l>>}] /\ work[n].pc = "pods"
        /\ pod' = [pod EXCEPT ![p].groups = NewGroups(n, p, l)] /\ groups' = groups
        /\ pod[p].st \in {"vif", "active", "running"}
    BY <1>3 DEF UpdatePod, Is, Updatable
  <2>2. DOMAIN pod = Pods /\ \A q \in Pods : DOMAIN pod[q] = {"st", "leaving", "label", "noted", "groups"}
    BY DEF PodInv, PodShapes
  <2>3. /\ \A t \in Threads \ {n} : work'[t] = work[t]
        /\ work'[n].pc = "pods" /\ work'[n].left \subseteq work[n].left
    BY <2>1 DEF IsWork, Idle
  <2>4. \A q \in Pods :
            /\ pod'[q].st = pod[q].st /\ pod'[q].leaving = pod[q].leaving
            /\ pod'[q].label = pod[q].label /\ pod'[q].noted = pod[q].noted
            /\ pod[q].st \in {"out", "new"} => pod'[q].groups = pod[q].groups
            /\ DOMAIN pod'[q] = DOMAIN pod[q]
    <3>1. \A q \in Pods \ {p} : pod'[q] = pod[q]
      BY <2>1, <2>2
    <3>2. pod'[p] = [pod[p] EXCEPT !.groups = NewGroups(n, p, l)]
      BY <2>1, <2>2
    <3> QED BY <2>1, <2>2, <3>1, <3>2
  <2>5. DOMAIN pod' = Pods
    BY <2>1, <2>2
  <2>6. PodShapes'
    BY <2>4, <2>5 DEF PodInv, PodShapes
  <2>7. \A q \in Pods : work'[q] = work[q]
    BY <2>3 DEF Threads, NetworkPolicyAssumption
  <2>8. Listing(n)'
    <3> SUFFICES ASSUME NEW q \in Pods, NEW m \in Labels, <<q, m>> \in work'[n].left
                 PROVE  AsListed(q, m)'
      BY DEF Listing
    <3>1. AsListed(q, m)
      BY <2>1, <2>3 DEF PodInv, Listing
    <3> QED BY <2>4, <2>7, <3>1 DEF AsListed
  <2>9. \A q \in Pods : Reading(q)'
    <3>1. \A m \in Policies \ {n} : work'[m] = work[m]
      BY <2>3 DEF Threads
    <3> QED BY <2>1, <2>3, <2>4, <2>7, <3>1 DEF PodInv, Reading, Creating
  <2> QED BY <2>1, <2>3, <2>4, <2>6, <2>8, <2>9, OfPolicy
<1> QED BY <1>1, <1>2, <1>3

(* Groups come and go: a new one is nobody's before, and one is deleted    *)
(* only when no handler that has it to edit would forget its labels.       *)
LEMMA GroupsChange ==
    ASSUME NetworkPolicyAssumption, GroupsInOrder, GroupInv, PodInv, NEW n \in Policies,
           CreateGroup(n) \/ DeleteGroup(n) \/ CallFails(n)
    PROVE  PodInv'
<1>0. /\ n \in Threads /\ n \notin Pods /\ DOMAIN work = Threads /\ IsWork(work[n])
      /\ work[n].pc \in PolicyPcs /\ Pods \cup Policies \subseteq Threads
  BY Relies DEF NetworkPolicyAssumption, Threads
<1> USE <1>0
<1>1. pod' = pod /\ PodShapes'
  BY DEF CreateGroup, DeleteGroup, CallFails, PodInv, PodShapes
<1>2. CASE CreateGroup(n)
  <2> DEFINE g == CHOOSE x \in Groups \ Referred : TRUE
  <2>1. /\ groups' = groups \cup {g} /\ Groups \ Referred # {}
        /\ work' = [work EXCEPT ![n] = [Idle EXCEPT !.pc = "sg", !.sg = g, !.spec = ItsSpec(n)]]
    BY <1>2 DEF CreateGroup
  <2>2. g \notin Referred
    BY <2>1
  <2> HIDE DEF g
  <2>3. work'[n].pc = "sg" /\ work'[n].sg = g /\ \A t \in Threads \ {n} : work'[t] = work[t]
    BY <2>1 DEF Idle
  <2>4. \A p \in Pods, m \in Policies : work[p].seen[m].sg # g
    BY <2>2 DEF Referred
  <2>5. \A p \in Pods : Reading(p)'
    <3> SUFFICES ASSUME NEW p \in Pods, work[p].pc \in {"edit", "patch"}
                 PROVE  Reading(p)'
      BY <2>3 DEF Reading
    <3>1. Reading(p)
      BY DEF PodInv
    <3> QED BY <1>1, <2>1, <2>3, <2>4, <3>1 DEF Reading
  <2>6. Listing(n)'
    BY <2>3 DEF Listing
  <2> QED BY <1>1, <2>3, <2>5, <2>6, OfPolicy
<1>3. CASE DeleteGroup(n)
  <2>1. /\ \A t \in Threads \ {n} : work'[t] = work[t]
        /\ work'[n].pc \in {"idle", "uncrd"}
        /\ groups' = groups \/ groups' = groups \ {work[n].sg}
    BY <1>3 DEF DeleteGroup, Ends, Goes, Idle, IsWork
  <2>2. \/ groups' = groups
        \/ \A p \in Pods : ~Forgettable(p)
    <3>1. CASE work[n].sg \notin groups
      BY <2>1, <3>1
    <3>2. CASE work[n].sg \in groups
      BY <1>3, <3>2 DEF DeleteGroup, MayDeleteGroup, GroupsInOrder
    <3> QED BY <3>1, <3>2
  <2>3. \A p \in Pods : Reading(p)'
    <3> SUFFICES ASSUME NEW p \in Pods, work[p].pc \in {"edit", "patch"}
                 PROVE  Reading(p)'
      BY <2>1 DEF Reading
    <3>1. Reading(p) /\ Task(p)
      BY DEF PodInv
    <3>2. groups' = groups \/ pod[p].label # pod[p].noted \/ pod[p].leaving
      BY <2>2, <3>1 DEF Forgettable, GroupsInOrder, Task
    <3>3. /\ work'[p] = work[p]
          /\ \A m \in Policies : work'[m].pc \in Creating => work'[m] = work[m]
      BY <2>1 DEF Creating
    <3> QED BY <1>1, <2>1, <3>1, <3>2, <3>3 DEF Reading
  <2>4. Listing(n)'
    BY <2>1 DEF Listing
  <2> QED BY <1>1, <2>1, <2>3, <2>4, OfPolicy
<1>4. CASE CallFails(n)
  <2>1. /\ \A t \in Threads \ {n} : work'[t] = work[t]
        /\ work'[n].pc \in {"idle", "failed", "again"}
    <3>1. CASE work' = [work EXCEPT ![n] = Again(n)]
      <4>1. Again(n) = Idle \/ Again(n) = [Idle EXCEPT !.pc = "again", !.spec = work[n].spec]
        BY DEF Again, NetworkPolicyAssumption
      <4>2. Again(n).pc \in {"idle", "again"}
        <5>1. CASE Again(n) = Idle
          BY <5>1 DEF Idle
        <5>2. CASE Again(n) = [Idle EXCEPT !.pc = "again", !.spec = work[n].spec]
          BY <5>2 DEF Idle
        <5> QED BY <4>1, <5>1, <5>2
      <4> QED BY <3>1, <4>2
    <3>2. CASE GivenUp(n)
      BY <3>2 DEF GivenUp, Idle
    <3> QED BY <1>4, <3>1, <3>2 DEF CallFails
  <2>2. \/ groups' = groups
        \/ groups' = groups \ {work[n].sg} /\ work[n].pc \in Creating
    BY <1>4 DEF CallFails, Creating
  <2>3. \A p \in Pods : Reading(p)'
    <3> SUFFICES ASSUME NEW p \in Pods, work[p].pc \in {"edit", "patch"}
                 PROVE  Reading(p)'
      BY <2>1 DEF Reading
    <3>1. Reading(p)
      BY DEF PodInv
    <3>2. /\ work'[p] = work[p]
          /\ \A m \in Policies : work'[m].pc \in Creating => work'[m] = work[m]
      BY <2>1 DEF Creating
    <3> QED BY <1>1, <2>2, <3>1, <3>2 DEF Reading
  <2>4. Listing(n)'
    BY <2>1 DEF Listing
  <2> QED BY <1>1, <2>1, <2>3, <2>4, OfPolicy
<1> QED BY <1>2, <1>3, <1>4

(* The threads start anew, and nobody goes through the pods.               *)
LEMMA RestartPods ==
    ASSUME NetworkPolicyAssumption, GroupInv, PodInv, Restart
    PROVE  PodInv'
<1>1. /\ work' = [t \in Threads |-> Idle]
      /\ pod' = [p \in Pods |->
             IF pod[p].leaving THEN [pod[p] EXCEPT !.st = "out", !.leaving = FALSE, !.groups = {}]
             ELSE IF pod[p].st = "new" THEN [pod[p] EXCEPT !.groups = {}] ELSE pod[p]]
  BY DEF Restart
<1>2. Idle.pc = "idle" /\ Idle.todo = <<>> /\ Idle.label = None
  BY DEF Idle
<1>3. \A t \in Threads : work'[t] = Idle
  BY <1>1
<1>4. ASSUME NEW p \in Pods
      PROVE  /\ DOMAIN pod'[p] = {"st", "leaving", "label", "noted", "groups"}
             /\ pod'[p].st \in {"out", "new", "vif", "active", "running"}
             /\ pod'[p].leaving \in BOOLEAN /\ pod'[p].label \in Labels
             /\ pod'[p].st = "out" => ~pod'[p].leaving /\ pod'[p].groups = {}
             /\ pod'[p].st = "new" => pod'[p].groups = {}
  <2>1. /\ DOMAIN pod[p] = {"st", "leaving", "label", "noted", "groups"}
        /\ pod[p].st \in {"out", "new", "vif", "active", "running"}
        /\ pod[p].leaving \in BOOLEAN /\ pod[p].label \in Labels /\ Task(p)
    BY DEF PodInv, PodShapes
  <2>2. CASE pod[p].leaving
    <3>1. pod'[p] = [pod[p] EXCEPT !.st = "out", !.leaving = FALSE, !.groups = {}]
      BY <1>1, <2>2
    <3> QED BY <2>1, <3>1
  <2>3. CASE ~pod[p].leaving /\ pod[p].st = "new"
    <3>1. pod'[p] = [pod[p] EXCEPT !.groups = {}]
      BY <1>1, <2>3
    <3> QED BY <2>1, <2>3, <3>1
  <2>4. CASE ~pod[p].leaving /\ pod[p].st # "new"
    <3>1. pod'[p] = pod[p]
      BY <1>1, <2>4
    <3> QED BY <2>1, <2>4, <3>1 DEF Task
  <2> QED BY <2>2, <2>3, <2>4
<1>5. PodShapes'
  BY <1>1, <1>4 DEF PodShapes
<1>6. \A n \in Policies : Listing(n)'
  BY <1>2, <1>3 DEF Listing, Threads
<1>7. \A p \in Pods : Task(p)'
  BY <1>2, <1>3, <1>4, NothingToDo DEF Task, Threads
<1>8. \A p \in Pods : PutsAlone(p)' /\ Reading(p)'
  BY <1>2, <1>3 DEF PutsAlone, Reading, Threads
<1> QED BY <1>5, <1>6, <1>7, <1>8 DEF PodInv

LEMMA PodsStart == Init => PodInv
<1> SUFFICES ASSUME Init PROVE PodInv
  OBVIOUS
<1>1. Idle.pc = "idle" /\ Idle.todo = <<>> /\ Idle.label = None
  BY DEF Idle
<1>2. \A t \in Threads : work[t] = Idle
  BY DEF Init
<1>3. PICK ls \in [Pods -> Labels], up \in SUBSET Pods :
          pod = [p \in Pods |-> [st |-> IF p \in up THEN "running" ELSE "out", leaving |-> FALSE,
                                 label |-> ls[p], noted |-> ls[p],
                                 groups |-> IF p \in up THEN {Default} ELSE {}]]
  BY DEF Init
<1>4. PodShapes
  BY <1>3 DEF PodShapes
<1>5. \A p \in Pods : /\ pod[p].st \in {"out", "running"} /\ ~pod[p].leaving
                      /\ pod[p].st = "out" => pod[p].groups = {}
  BY <1>3
<1>6. \A n \in Policies : Listing(n)
  BY <1>1, <1>2 DEF Listing, Threads
<1>7. \A p \in Pods : Task(p)
  BY <1>1, <1>2, <1>5, NothingToDo DEF Task, Threads
<1>8. \A p \in Pods : PutsAlone(p) /\ Reading(p)
  BY <1>1, <1>2 DEF PutsAlone, Reading, Threads
<1> QED BY <1>4, <1>6, <1>7, <1>8 DEF PodInv

LEMMA PodsKeep ==
    ASSUME GroupsInOrder, GroupInv, PodInv, [Next]_vars
    PROVE  PodInv'
<1> USE NetworkPolicyAssumption
<1>1. ASSUME NEW p \in Pods, PodStep(p) PROVE PodInv'
  BY <1>1, VifKeeps, HandlersKeep, GoingKeeps, EditPreserves, FailureKeeps DEF PodStep
<1>2. ASSUME NEW p \in Pods, PodRuns(p) PROVE PodInv'
  BY <1>2, PodChangeKeeps
<1>3. ASSUME NEW s \in Spaces, SpaceStep(s) PROVE PodInv'
  BY <1>3, SpacesKeep
<1>4. ASSUME NEW n \in Policies, PolicyStep(n) PROVE PodInv'
  BY <1>4, PolicyRuns, GoingThrough, GroupsChange DEF PolicyStep
<1>5. CASE Users
  <2>1. CASE \/ \E p \in Pods, l \in Labels : CreatePod(p, l) \/ RelabelPod(p, l)
             \/ \E p \in Pods : DeletePod(p)
    BY <2>1, PodChangeKeeps
  <2>2. CASE \/ \E s \in Spaces, l \in Labels : RelabelSpace(s, l)
             \/ \E s \in Spaces : DeleteSpace(s)
             \/ \E n \in Policies, spec \in Specs : PutPolicy(n, spec)
             \/ \E n \in Policies : DeletePolicy(n)
    <3>1. UNCHANGED <<pod, groups, work>>
      BY <2>2 DEF RelabelSpace, DeleteSpace, PutPolicy, DeletePolicy
    <3> QED BY <3>1, Elsewhere
  <2> QED BY <1>5, <2>1, <2>2 DEF Users
<1>6. CASE Restart
  BY <1>6, RestartPods
<1>7. ASSUME NEW t \in Threads, CallFails(t) PROVE PodInv'
  BY <1>7, FailureKeeps, SpacesKeep, GroupsChange DEF Threads
<1>8. CASE UNCHANGED vars
  BY <1>8, Elsewhere DEF vars
<1> QED BY <1>1, <1>2, <1>3, <1>4, <1>5, <1>6, <1>7, <1>8 DEF Next

(* Who changes the groups of a port whose pod stays: its own handler when  *)
(* it has them to set, and a policy that goes through the pods.            *)
LEMMA WhoRegroups ==
    ASSUME GroupsInOrder, GroupInv, PodInv, [Next]_vars, NEW p \in Pods,
           ~pod[p].leaving, pod[p].st \notin {"new", "out"}, work[p].todo \notin Putting
    PROVE  \/ pod'[p].groups = pod[p].groups
           \/ \E n \in Policies, l \in Labels : UpdatePod(n, p, l)
<1> USE NetworkPolicyAssumption
<1>0. Relied(p)
  BY PodRelies
<1> USE <1>0 DEF Relied
<1> DEFINE Stand == pod'[p].groups = pod[p].groups
<1>1. ASSUME NEW q \in Pods, PodStep(q) \/ PodRuns(q) PROVE Stand
  <2>1. CASE RequestVif(q) \/ AnnotateVif(q)
    <3>1. pod[q].st = "new"
      <4>1. CASE RequestVif(q)
        BY <4>1 DEF RequestVif
      <4>2. CASE AnnotateVif(q)
        BY <4>2, PodRelies DEF AnnotateVif, Is, Task
      <4> QED BY <2>1, <4>1, <4>2
    <3>2. CASE RequestVif(q)
      BY <3>1, <3>2 DEF RequestVif
    <3>3. CASE AnnotateVif(q)
      BY <3>1, <3>3 DEF AnnotateVif
    <3> QED BY <2>1, <3>2, <3>3
  <2>2. CASE ActivateVif(q) \/ PodRuns(q)
    BY <2>2 DEF ActivateVif, PodRuns
  <2>3. CASE PutGroups(q)
    <3>1. work[q].todo \in Putting
      BY <2>3, PodRelies DEF PutGroups, Is, Task, Putting
    <3> QED BY <2>3, <3>1 DEF PutGroups
  <2>4. CASE PodDeleted(q) \/ ReleaseVif(q)
    <3>1. pod[q].leaving
      <4>1. CASE PodDeleted(q)
        BY <4>1 DEF PodDeleted
      <4>2. CASE ReleaseVif(q)
        BY <4>2, PodRelies DEF ReleaseVif, Last, Task, Leaving
      <4> QED BY <2>4, <4>1, <4>2
    <3> QED BY <2>4, <3>1 DEF PodDeleted, ReleaseVif
  <2>5. CASE EditStep(q)
    BY <2>5 DEF EditStep, ListRecords, PatchCrd, EndPhase, EditRules
  <2>6. CASE Relabelled(q) \/ LookUpGroups(q) \/ PodDone(q) \/ NotFound(q)
    BY <2>6 DEF Relabelled, LookUpGroups, PodDone, NotFound
  <2> QED BY <1>1, <2>1, <2>2, <2>3, <2>4, <2>5, <2>6 DEF PodStep
<1>2. ASSUME NEW s \in Spaces, SpaceStep(s) PROVE Stand
  <2>1. CASE EditStep(s)
    BY <2>1 DEF EditStep, ListRecords, PatchCrd, EndPhase, EditRules
  <2>2. CASE \/ SpaceRelabelled(s) \/ NoteLabels(s) \/ SpaceDeleted(s) \/ RemoveFinalizer(s)
             \/ NotFound(s)
    BY <2>2 DEF SpaceRelabelled, NoteLabels, SpaceDeleted, RemoveFinalizer, NotFound
  <2> QED BY <1>2, <2>1, <2>2 DEF SpaceStep
<1>3. ASSUME NEW n \in Policies, PolicyStep(n)
      PROVE  Stand \/ \E l \in Labels : UpdatePod(n, p, l)
  <2>1. ASSUME NEW q \in Pods, NEW l \in Labels, UpdatePod(n, q, l), q # p
        PROVE  Stand
    BY <2>1 DEF UpdatePod
  <2>2. CASE \/ NoNeed(n) \/ CreateGroup(n) \/ ParsePolicy(n) \/ CreateRules(n) \/ PostCrd(n)
             \/ ReadCrd(n) \/ DeleteRules(n) \/ StoreRules(n) \/ ListPods(n) \/ Updated(n)
             \/ PolicyDeleted(n) \/ DeleteGroup(n) \/ DeleteCrd(n) \/ NotFound(n)
    BY <2>2 DEF NoNeed, CreateGroup, ParsePolicy, CreateRules, PostCrd, ReadCrd, DeleteRules,
                StoreRules, ListPods, Updated, PolicyDeleted, DeleteGroup, DeleteCrd, NotFound
  <2> QED BY <1>3, <2>1, <2>2 DEF PolicyStep
<1>4. CASE Users
  <2>1. ASSUME NEW q \in Pods, NEW l \in Labels, CreatePod(q, l) PROVE Stand
    BY <2>1 DEF CreatePod
  <2>2. ASSUME NEW q \in Pods, NEW l \in Labels, RelabelPod(q, l) PROVE Stand
    BY <2>2 DEF RelabelPod
  <2>3. ASSUME NEW q \in Pods, DeletePod(q) PROVE Stand
    BY <2>3 DEF DeletePod
  <2>4. CASE \/ \E s \in Spaces, l \in Labels : RelabelSpace(s, l)
             \/ \E s \in Spaces : DeleteSpace(s)
             \/ \E n \in Policies, spec \in Specs : PutPolicy(n, spec)
             \/ \E n \in Policies : DeletePolicy(n)
    BY <2>4 DEF RelabelSpace, DeleteSpace, PutPolicy, DeletePolicy
  <2> QED BY <1>4, <2>1, <2>2, <2>3, <2>4 DEF Users
<1>5. CASE Restart
  BY <1>5 DEF Restart
<1>6. ASSUME NEW t \in Threads, CallFails(t) PROVE Stand
  BY <1>6 DEF CallFails
<1>7. CASE UNCHANGED vars
  BY <1>7 DEF vars
<1> QED BY <1>1, <1>2, <1>3, <1>4, <1>5, <1>6, <1>7 DEF Next

(* A policy that goes through the pods leaves a port the groups of all the *)
(* policies recorded for the labels it has, but that of a policy deleted.  *)
LEMMA Regrouped ==
    ASSUME GroupInv, PodInv, NEW m \in Policies, NEW p \in Pods, NEW l \in Labels,
           UpdatePod(m, p, l),
           ~pod[p].leaving, pod[p].label = pod[p].noted, work[p].todo \notin Putting,
           NEW n \in Policies, np[n].live, crd[n] # NoCrd,
           Matches(crd[n].spec.sel, pod[p].label)
    PROVE  crd[n].sg \in pod'[p].groups
<1>1. /\ work[m].pc = "pods" /\ <<p, l>> \in work[m].left
      /\ pod[p].st \in {"vif", "active", "running"}
      /\ pod' = [pod EXCEPT ![p].groups = NewGroups(m, p, l)]
  BY DEF UpdatePod, Is, Updatable
<1>2. SpaceOf[p] = Home /\ l = pod[p].label
  BY <1>1 DEF PodInv, Listing, AsListed
<1>3. crd[n].sg \in GroupsFor(p, l)
  <2> DEFINE its == {crd[k].sg : k \in {m_1 \in Recorded : /\ SpaceOf[p] = Home
                                                 /\ Matches(crd[m_1].spec.sel, l)}}
  <2>1. crd[n].sg \in its
    BY <1>2 DEF Recorded
  <2> QED BY <2>1 DEF GroupsFor
<1>4. work[m].at = "delete" => crd[n].sg # work[m].sg
  <2> SUFFICES ASSUME work[m].at = "delete" PROVE crd[n].sg # work[m].sg
    OBVIOUS
  <2>1. Stage(m) /\ Want(m)
    BY DEF GroupInv, Stages, Wanted
  <2>2. ~np[m].live /\ crd[m] # NoCrd /\ work[m].sg = crd[m].sg
    BY <2>1 DEF Stage, Want
  <2>3. n # m /\ Holds(n) /\ Holds(m) /\ ItsGroup(n) = crd[n].sg /\ ItsGroup(m) = crd[m].sg
    BY <2>2 DEF Holds, ItsGroup
  <2> QED BY <2>2, <2>3 DEF GroupInv, Apart
<1>5. crd[n].sg \in NewGroups(m, p, l)
  BY <1>3, <1>4 DEF NewGroups
<1>6. p \in DOMAIN pod /\ "groups" \in DOMAIN pod[p]
  BY DEF PodInv, PodShapes
<1> QED BY <1>1, <1>5, <1>6

(* StaysProtected, for any policies, pods, namespaces and groups and any   *)
(* number of changes, with failures, retries and restarts: while a policy  *)
(* stands as recorded, and selects a pod by labels that have been handled, *)
(* no handler takes its group off the pod's port, not even between two     *)
(* calls (update_vif_sgs in the handlers of policies and pods).            *)
THEOREM PortsStayProtected ==
    ASSUME GroupsInOrder
    PROVE  Spec => StaysProtected
<1>1. GroupInv /\ PodInv /\ [Next]_vars => GroupInv' /\ PodInv'
  BY NextKeeps, PodsKeep DEF GroupsInOrder
<1>2. ASSUME GroupInv, PodInv, [Next]_vars, NEW n \in Policies, NEW p \in Pods,
             np[n].live, np'[n] = np[n], crd[n] # NoCrd, crd[n].spec = np[n].spec,
             crd[n].sg \in pod[p].groups,
             Matches(np[n].spec.sel, pod[p].label),
             pod[p].label = pod[p].noted, ~Regroups(p), pod'[p].label = pod[p].label,
             ~pod[p].leaving, pod[p].st # "new"
      PROVE  crd[n].sg \in pod'[p].groups
  <2>1. Task(p)
    BY <1>2 DEF PodInv
  <2>2. work[p].todo \notin Putting
    BY <1>2, <2>1, PhasesEnd DEF Task, Regroups
  <2>3. pod[p].st # "out"
    BY <1>2, <2>1 DEF Task
  <2>4. \/ pod'[p].groups = pod[p].groups
        \/ \E m \in Policies, l \in Labels : UpdatePod(m, p, l)
    BY <1>2, <2>2, <2>3, WhoRegroups
  <2>5. ASSUME NEW m \in Policies, NEW l \in Labels, UpdatePod(m, p, l)
        PROVE  crd[n].sg \in pod'[p].groups
    BY <1>2, <2>2, <2>5, Regrouped
  <2> QED BY <1>2, <2>4, <2>5
<1>3. (GroupInv /\ PodInv /\ [Next]_vars) =>
        [\A n \in Policies, p \in Pods :
          (/\ np[n].live /\ np'[n] = np[n] /\ crd[n] # NoCrd /\ crd[n].spec = np[n].spec
           /\ crd[n].sg \in pod[p].groups
           /\ Matches(np[n].spec.sel, pod[p].label)
           /\ pod[p].label = pod[p].noted /\ ~Regroups(p) /\ pod'[p].label = pod[p].label)
          => crd[n].sg \in pod'[p].groups \/ pod[p].leaving \/ pod[p].st = "new"]_vars
  BY <1>2
<1> QED BY InitHolds, PodsStart, <1>1, <1>3, PTL DEF Spec, StaysProtected

-----------------------------------------------------------------------------
(* The groups of a port follow the policies.                               *)
(*                                                                         *)
(* A port has the group of a policy when the policy's record selects its   *)
(* pod, unless the policy is still to go through the pods (Coming), or is  *)
(* still to take the group off (Going): so for each pod whose groups are   *)
(* not its own handler's to set (OwnToSet), and for the groups that its    *)
(* handler has looked up and is about to set (PodFollows).  It rests on    *)
(* what is recorded: one handler edits at a time, what it has read is      *)
(* current (Fresh), and a policy's thread knows the specification that the *)
(* record has and the one it had (Updates).                                *)

OneEdits == \A s, t \in Threads : s # t => ~(Editing(s) /\ Editing(t))

Fresh(t) ==
    work[t].pc \in {"edit", "patch"} =>
        /\ DOMAIN work[t].seen = Policies /\ \A m \in Policies : IsCrd(work[t].seen[m])
        /\ work[t].left \subseteq Policies /\ (work[t].pc = "patch" => work[t].at \in Policies)
        /\ \A m \in Policies :
              (m \in work[t].left \/ (work[t].pc = "patch" /\ m = work[t].at)) =>
                  crd[m] = NoCrd \/ crd[m].spec = work[t].seen[m].spec

(* While a policy goes through the pods for a new selector, they have a    *)
(* port, and the groups are all there: nothing can stop it.                *)
Unhindered(n) ==
    (work[n].pc = "pods" /\ NewSelector(n)) =>
        /\ \A m \in Recorded : crd[m].sg \in groups
        /\ \A q \in Pods, l \in Labels : <<q, l>> \in work[n].left =>
              ~pod[q].leaving /\ pod[q].st \in {"vif", "active", "running"}
Updates(n) ==
    /\ work[n].pc \notin {"idle", "failed"} => np[n].ev # "none"
    /\ work[n].pc \in {"delete", "create", "store"} =>
          work[n].seen[n] # NoCrd /\ work[n].seen[n].spec = crd[n].spec
    /\ (work[n].pc \in {"list", "pods"} /\ work[n].at # "delete") => crd[n].spec = work[n].spec
    /\ (np[n].live /\ np[n].ev = "none") => crd[n].spec = np[n].spec
    /\ work[n].at = "delete" => work[n].seen[n] = NoCrd
    /\ work[n].pc = "pods" => work[n].left \subseteq Pods \X Labels

SpecInv == /\ OneEdits /\ \A t \in Pods \cup Spaces : Fresh(t)
           /\ \A n \in Policies : Updates(n) /\ Unhindered(n)

(* Timings excluded besides: handlers that write over each other's         *)
(* records, and a failure by which the pods of a selector are forgotten.   *)
GroupsTraced == GroupsInOrder /\ {"lost_update", "selector_forgotten"} \cap Races = {}

(* Nobody starts to edit while another one does.                           *)
LEMMA EditsInTurn ==
    ASSUME GroupsTraced, OneEdits, NEW t \in Threads,
           \A s \in Threads \ {t} : work'[s] = work[s],
           Editing(t)' => Editing(t) \/ EditsAlone
    PROVE  OneEdits'
<1> SUFFICES ASSUME NEW s \in Threads, NEW r \in Threads, s # r, Editing(s)', Editing(r)'
             PROVE  FALSE
  BY DEF OneEdits
<1>1. \A q \in Threads \ {t} : Editing(q)' <=> Editing(q)
  BY DEF Editing
<1>2. CASE s # t /\ r # t
  BY <1>1, <1>2 DEF OneEdits
<1>3. CASE s = t \/ r = t
  <2>1. PICK q \in Threads \ {t} : Editing(q)'
    BY <1>3
  <2>2. Editing(t)' /\ Editing(q)
    BY <1>1, <1>3, <2>1
  <2>3. Editing(t)
    BY <2>2 DEF EditsAlone, GroupsTraced
  <2> QED BY <2>2, <2>3 DEF OneEdits
<1> QED BY <1>2, <1>3

(* What a handler has read stays current while the records do.             *)
LEMMA FreshStays ==
    ASSUME NEW t, Fresh(t), work'[t] = work[t],
           \A m \in Policies : \/ crd'[m] = NoCrd
                               \/ crd[m] # NoCrd /\ crd'[m].spec = crd[m].spec
    PROVE  Fresh(t)'
BY DEF Fresh

(* A step of a pod or a namespace, by its thread or its user: the records  *)
(* keep their groups and specifications.                                   *)
LEMMA SpecsOfObject ==
    ASSUME NetworkPolicyAssumption, GroupsTraced, GroupInv, SpecInv, NEW t \in Pods \cup Spaces,
           \A s \in Threads \ {t} : work'[s] = work[s],
           np' = np, groups' = groups,
           \A m \in Policies : /\ crd'[m] = NoCrd <=> crd[m] = NoCrd
                               /\ crd'[m].spec = crd[m].spec /\ crd'[m].sg = crd[m].sg,
           \A q \in Pods, l \in Labels :
               (/\ ~pod[q].leaving /\ pod[q].st \in {"vif", "active", "running"}
                /\ \E n \in Policies : /\ work[n].pc = "pods" /\ NewSelector(n)
                                       /\ <<q, l>> \in work[n].left)
                   => ~pod'[q].leaving /\ pod'[q].st \in {"vif", "active", "running"},
           Editing(t)' => Editing(t) \/ EditsAlone,
           Fresh(t)'
    PROVE  SpecInv'
<1>0. t \in Threads /\ t \notin Policies /\ Pods \cup Spaces \cup Policies \subseteq Threads
  BY DEF Threads, NetworkPolicyAssumption
<1>1. OneEdits'
  BY <1>0, EditsInTurn DEF SpecInv
<1>2. \A s \in Pods \cup Spaces : Fresh(s)'
  <2> SUFFICES ASSUME NEW s \in Pods \cup Spaces, s # t PROVE Fresh(s)'
    OBVIOUS
  <2>1. Fresh(s) /\ work'[s] = work[s]
    BY <1>0 DEF SpecInv
  <2> QED BY <2>1, FreshStays
<1>3. ASSUME NEW n \in Policies PROVE Updates(n)' /\ Unhindered(n)'
  <2>1. Updates(n) /\ Unhindered(n) /\ work'[n] = work[n]
    BY <1>0 DEF SpecInv
  <2>2. Updates(n)'
    BY <2>1 DEF Updates
  <2>3. Unhindered(n)'
    <3> SUFFICES ASSUME work'[n].pc = "pods", NewSelector(n)'
                 PROVE  /\ \A m \in Recorded' : crd'[m].sg \in groups'
                        /\ \A q \in Pods, l \in Labels : <<q, l>> \in work'[n].left =>
                              ~pod'[q].leaving /\ pod'[q].st \in {"vif", "active", "running"}
      BY DEF Unhindered
    <3>1. work[n].pc = "pods" /\ NewSelector(n)
      BY <2>1 DEF NewSelector
    <3>2. \A m \in Recorded' : m \in Recorded /\ crd'[m].sg = crd[m].sg
      BY DEF Recorded
    <3> QED BY <2>1, <3>1, <3>2 DEF Unhindered
  <2> QED BY <2>2, <2>3
<1> QED BY <1>1, <1>2, <1>3 DEF SpecInv

(* A step of a policy's thread.                                            *)
LEMMA SpecsOfPolicy ==
    ASSUME NetworkPolicyAssumption, GroupsTraced, GroupInv, SpecInv, NEW n \in Policies,
           \A s \in Threads \ {n} : work'[s] = work[s],
           \A m \in Policies \ {n} : np'[m] = np[m] /\ crd'[m] = crd[m],
           \A q \in Pods : pod'[q].st = pod[q].st /\ pod'[q].leaving = pod[q].leaving,
           \/ \A m \in Recorded : crd[m].sg \in groups => crd[m].sg \in groups'
           \/ \A m \in Policies : ~(work[m].pc = "pods" /\ NewSelector(m)),
           n \in Recorded' => \/ crd'[n].sg \in groups'
                             \/ (n \in Recorded /\ crd'[n].sg = crd[n].sg),
           \/ crd'[n] = NoCrd
           \/ crd'[n].spec = crd[n].spec /\ crd[n] # NoCrd
           \/ Editing(n),
           Editing(n)' => Editing(n) \/ EditsAlone,
           Updates(n)', Unhindered(n)'
    PROVE  SpecInv'
<1>0. n \in Threads /\ n \notin Pods \cup Spaces /\ Pods \cup Spaces \cup Policies \subseteq Threads
  BY DEF Threads, NetworkPolicyAssumption
<1>1. OneEdits'
  BY <1>0, EditsInTurn DEF SpecInv
<1>2. ASSUME NEW s \in Pods \cup Spaces PROVE Fresh(s)'
  <2>1. Fresh(s) /\ work'[s] = work[s] /\ s \in Threads /\ s # n
    BY <1>0 DEF SpecInv
  <2>2. CASE Editing(n)
    <3>1. ~Editing(s)
      BY <1>0, <2>1, <2>2 DEF SpecInv, OneEdits
    <3> QED BY <2>1, <3>1 DEF Editing, Fresh
  <2>3. CASE ~Editing(n)
    <3>1. \A m \in Policies : crd'[m] = NoCrd \/ (crd[m] # NoCrd /\ crd'[m].spec = crd[m].spec)
      BY <2>3
    <3> QED BY <2>1, <3>1, FreshStays
  <2> QED BY <2>2, <2>3
<1>3. ASSUME NEW m \in Policies, m # n PROVE Updates(m)' /\ Unhindered(m)'
  <2>1. Updates(m) /\ Unhindered(m) /\ work'[m] = work[m] /\ np'[m] = np[m] /\ crd'[m] = crd[m]
    BY <1>0, <1>3 DEF SpecInv
  <2>2. Updates(m)'
    BY <2>1 DEF Updates
  <2>3. Unhindered(m)'
    <3> SUFFICES ASSUME work'[m].pc = "pods", NewSelector(m)'
                 PROVE  /\ \A k \in Recorded' : crd'[k].sg \in groups'
                        /\ \A q \in Pods, l \in Labels : <<q, l>> \in work'[m].left =>
                              ~pod'[q].leaving /\ pod'[q].st \in {"vif", "active", "running"}
      BY DEF Unhindered
    <3>1. work[m].pc = "pods" /\ NewSelector(m)
      BY <2>1 DEF NewSelector
    <3>2. ASSUME NEW k \in Recorded' PROVE crd'[k].sg \in groups'
      <4>1. CASE k \in Recorded /\ crd'[k].sg = crd[k].sg
        <5>1. crd[k].sg \in groups
          BY <2>1, <3>1, <4>1 DEF Unhindered
        <5> QED BY <3>1, <4>1, <5>1
      <4>2. CASE ~(k \in Recorded /\ crd'[k].sg = crd[k].sg)
        BY <4>2 DEF Recorded
      <4> QED BY <4>1, <4>2
    <3> QED BY <2>1, <3>1, <3>2 DEF Unhindered
  <2> QED BY <2>2, <2>3
<1> QED BY <1>1, <1>2, <1>3 DEF SpecInv


(* A thread of a pod or a namespace goes on, without a record to edit.     *)
LEMMA ObjectSpecs ==
    ASSUME NetworkPolicyAssumption, GroupsTraced, GroupInv, SpecInv, NEW t \in Pods \cup Spaces,
           \A s \in Threads \ {t} : work'[s] = work[s],
           UNCHANGED <<np, crd, groups>>,
           work'[t].pc \in {"idle", "failed", "next", "annotate", "put"},
           \A q \in Pods, l \in Labels :
               (/\ ~pod[q].leaving /\ pod[q].st \in {"vif", "active", "running"}
                /\ \E n \in Policies : /\ work[n].pc = "pods" /\ NewSelector(n)
                                       /\ <<q, l>> \in work[n].left)
                   => ~pod'[q].leaving /\ pod'[q].st \in {"vif", "active", "running"}
    PROVE  SpecInv'
<1>1. Fresh(t)' /\ ~Editing(t)'
  BY DEF Fresh, Editing
<1> QED BY <1>1, SpecsOfObject

(* Users, kubelet, nobody: the threads stay where they are.                *)
LEMMA SpecsStay ==
    ASSUME GroupsTraced, SpecInv, UNCHANGED <<work, crd, groups>>,
           \A n \in Policies : np'[n] = np[n] \/ np'[n].ev # "none",
           \A q \in Pods, l \in Labels :
               (/\ ~pod[q].leaving /\ pod[q].st \in {"vif", "active", "running"}
                /\ \E n \in Policies : /\ work[n].pc = "pods" /\ NewSelector(n)
                                       /\ <<q, l>> \in work[n].left)
                   => ~pod'[q].leaving /\ pod'[q].st \in {"vif", "active", "running"}
    PROVE  SpecInv'
<1>1. OneEdits' /\ \A t \in Pods \cup Spaces : Fresh(t)'
  BY DEF SpecInv, OneEdits, Editing, Fresh
<1>2. ASSUME NEW n \in Policies PROVE Updates(n)' /\ Unhindered(n)'
  <2>1. Updates(n) /\ Unhindered(n)
    BY DEF SpecInv
  <2>2. Updates(n)'
    BY <2>1 DEF Updates
  <2>3. Unhindered(n)'
    BY <2>1 DEF Unhindered, NewSelector, Recorded
  <2> QED BY <2>2, <2>3
<1> QED BY <1>1, <1>2 DEF SpecInv

(* A handler of a pod or a namespace edits the records: the specification  *)
(* that it writes is the one that the record has.                          *)
LEMMA EditSpecs ==
    ASSUME NetworkPolicyAssumption, GroupsTraced, GroupInv, SpecInv, NEW t \in Pods \cup Spaces,
           EditStep(t)
    PROVE  SpecInv'
<1>0. /\ t \in Threads /\ DOMAIN work = Threads /\ IsWork(work[t]) /\ Fresh(t)
      /\ DOMAIN crd = Policies /\ \A n \in Policies : IsCrd(crd[n]) /\ Record(n)
  BY DEF GroupInv, Shapes, Held, Threads, SpecInv
<1> USE <1>0
<1>1. CASE ListRecords(t)
  <2> DEFINE w == [work[t] EXCEPT !.pc = "edit", !.seen = crd, !.left = Recorded]
  <2>1. /\ work' = [work EXCEPT ![t] = w] /\ UNCHANGED <<pod, np, crd, groups>> /\ EditsAlone
    BY <1>1 DEF ListRecords
  <2>2. w.pc = "edit" /\ w.seen = crd /\ w.left = Recorded
    BY DEF IsWork, Idle
  <2> HIDE DEF w
  <2>3. work'[t] = w /\ \A s \in Threads \ {t} : work'[s] = work[s]
    BY <2>1
  <2>4. Fresh(t)'
    BY <2>1, <2>2, <2>3 DEF Fresh, Recorded
  <2> QED BY <2>1, <2>3, <2>4, SpecsOfObject
<1>2. CASE PatchCrd(t)
  <2> DEFINE n == work[t].at
             w == [work[t] EXCEPT !.pc = "edit"]
  <2>1. /\ work' = [work EXCEPT ![t] = w] /\ UNCHANGED <<pod, np, groups>> /\ work[t].pc = "patch"
    BY <1>2 DEF PatchCrd, Is, Goes
  <2>2. w.pc = "edit" /\ w.seen = work[t].seen /\ w.left = work[t].left
    BY DEF IsWork, Idle
  <2> HIDE DEF w
  <2>3. work'[t] = w /\ \A s \in Threads \ {t} : work'[s] = work[s]
    BY <2>1
  <2>4. n \in Policies /\ (crd[n] = NoCrd \/ crd[n].spec = work[t].seen[n].spec)
    BY <2>1 DEF Fresh
  <2>5. \A m \in Policies : /\ crd'[m] = NoCrd <=> crd[m] = NoCrd
                            /\ crd'[m].spec = crd[m].spec /\ crd'[m].sg = crd[m].sg
    <3>1. CASE crd[n] = NoCrd
      BY <1>2, <3>1 DEF PatchCrd
    <3>2. CASE crd[n] # NoCrd
      <4> DEFINE c == [crd[n] EXCEPT !.spec = work[t].seen[n].spec, !.rules = work[t].seen[n].rules]
      <4>1. crd' = [crd EXCEPT ![n] = c]
        BY <1>2, <3>2 DEF PatchCrd
      <4>2. c.spec = crd[n].spec /\ c.sg = crd[n].sg
        BY <2>4, <3>2 DEF IsCrd, NoCrd
      <4>3. c.sg # None
        BY <2>4, <3>2, <4>2 DEF Record
      <4>4. c # NoCrd
        BY <4>3 DEF NoCrd
      <4> HIDE DEF c
      <4> QED BY <2>4, <3>2, <4>1, <4>2, <4>4
    <3> QED BY <3>1, <3>2
  <2>6. Fresh(t)'
    BY <2>1, <2>2, <2>3, <2>5 DEF Fresh
  <2>7. Editing(t)
    BY <2>1 DEF Editing
  <2> HIDE DEF n
  <2> QED BY <2>1, <2>3, <2>5, <2>6, <2>7, SpecsOfObject
<1>3. CASE EndPhase(t)
  <2>1. /\ work' = [work EXCEPT ![t].pc = "next", ![t].todo = Tail(@)]
        /\ UNCHANGED <<pod, np, crd, groups>>
    BY <1>3 DEF EndPhase
  <2>2. work'[t].pc = "next" /\ \A s \in Threads \ {t} : work'[s] = work[s]
    BY <2>1 DEF IsWork, Idle
  <2> QED BY <2>1, <2>2, ObjectSpecs
<1>4. ASSUME NEW n \in Policies, EditRules(t, n) PROVE SpecInv'
  <2> DEFINE kept == (work[t].seen[n].rules \ Taken(t, n)) \cup Given(t, n)
  <2>1. UNCHANGED <<pod, np, crd, groups>> /\ work[t].pc = "edit" /\ n \in work[t].left
    BY <1>4 DEF EditRules, Is
  <2>2. /\ DOMAIN work[t].seen = Policies /\ \A m \in Policies : IsCrd(work[t].seen[m])
        /\ work[t].left \subseteq Policies
    BY <2>1 DEF Fresh
  <2>3. /\ \A s \in Threads \ {t} : work'[s] = work[s]
        /\ work'[t].pc \in {"edit", "patch"} /\ work'[t].left = work[t].left \ {n}
        /\ DOMAIN work'[t].seen = Policies
        /\ \A m \in Policies : IsCrd(work'[t].seen[m]) /\ work'[t].seen[m].spec = work[t].seen[m].spec
        /\ work'[t].pc = "patch" => work'[t].at = n
    <3>1. CASE Taken(t, n) \cup Given(t, n) = {}
      <4>1. work' = [work EXCEPT ![t].left = @ \ {n}]
        BY <1>4, <3>1 DEF EditRules
      <4> QED BY <2>1, <2>2, <4>1 DEF IsWork, Idle
    <3>2. CASE Taken(t, n) \cup Given(t, n) # {}
      <4>1. work' = [work EXCEPT ![t].left = @ \ {n}, ![t].seen[n].rules = kept,
                                 ![t].pc = "patch", ![t].at = n]
        BY <1>4, <3>2 DEF EditRules
      <4> HIDE DEF kept
      <4>2. /\ work'[t].pc = "patch" /\ work'[t].at = n /\ work'[t].left = work[t].left \ {n}
            /\ work'[t].seen = [work[t].seen EXCEPT ![n].rules = kept]
            /\ \A s \in Threads \ {t} : work'[s] = work[s]
        BY <2>1, <2>2, <4>1 DEF IsWork, Idle
      <4>3. \A m \in Policies : /\ DOMAIN work'[t].seen[m] = DOMAIN work[t].seen[m]
                                /\ work'[t].seen[m].spec = work[t].seen[m].spec
        BY <2>2, <4>2 DEF IsCrd, NoCrd
      <4> QED BY <2>2, <4>2, <4>3 DEF IsCrd
    <3> QED BY <3>1, <3>2
  <2>4. Fresh(t)'
    BY <2>1, <2>2, <2>3 DEF Fresh
  <2>5. Editing(t)
    BY <2>1 DEF Editing
  <2> QED BY <2>1, <2>3, <2>4, <2>5, SpecsOfObject
<1> QED BY <1>1, <1>2, <1>3, <1>4 DEF EditStep

(* The handlers of pods and namespaces, and their users: no pod loses its  *)
(* port while a policy with a new selector goes through the pods.          *)
LEMMA PodSpecs ==
    ASSUME NetworkPolicyAssumption, GroupsTraced, GroupInv, PodInv, SpecInv, NEW p \in Pods,
           PodStep(p) \/ CallFails(p)
    PROVE  SpecInv'
<1>0. Relied(p)
  BY PodRelies
<1> USE <1>0 DEF Relied
<1>1. CASE \/ RequestVif(p) \/ AnnotateVif(p) \/ ActivateVif(p) \/ Relabelled(p) \/ LookUpGroups(p)
           \/ PutGroups(p) \/ PodDeleted(p) \/ ReleaseVif(p) \/ PodDone(p)
  <2> DEFINE Stays == \A q \in Pods :
                 ~pod[q].leaving /\ pod[q].st \in {"vif", "active", "running"}
                     => ~pod'[q].leaving /\ pod'[q].st \in {"vif", "active", "running"}
  <2>1. /\ \A s \in Threads \ {p} : work'[s] = work[s]
        /\ UNCHANGED <<np, crd, groups>>
    BY <1>1 DEF RequestVif, AnnotateVif, ActivateVif, Relabelled, LookUpGroups, PutGroups,
                PodDeleted, ReleaseVif, PodDone, Ends, Does
  <2>2. work'[p].pc \in {"idle", "next", "annotate", "put"} /\ Stays
    <3>1. CASE RequestVif(p)
      BY <3>1 DEF RequestVif, Idle
    <3>2. CASE AnnotateVif(p)
      <4>1. work'[p] = Idle /\ pod[p].st = "new" /\ \A q \in Pods \ {p} : pod'[q] = pod[q]
        BY <3>2 DEF AnnotateVif, Ends, Is, Task
      <4> QED BY <4>1 DEF Idle
    <3>3. CASE ActivateVif(p)
      <4>1. work'[p].pc = "next"
        BY <3>3 DEF ActivateVif, Idle
      <4> QED BY <3>3, <4>1 DEF ActivateVif
    <3>4. CASE Relabelled(p)
      BY <3>4 DEF Relabelled, Idle
    <3>5. CASE LookUpGroups(p)
      BY <3>5 DEF LookUpGroups, IsWork, Idle
    <3>6. CASE PutGroups(p)
      <4>1. work'[p] = Idle
        BY <3>6 DEF PutGroups, Ends
      <4> QED BY <3>6, <4>1 DEF PutGroups, Idle
    <3>7. CASE PodDeleted(p)
      <4>1. pod[p].leaving /\ \A q \in Pods \ {p} : pod'[q] = pod[q]
        BY <3>7 DEF PodDeleted
      <4>2. work'[p].pc \in {"idle", "next"}
        BY <3>7 DEF PodDeleted, Ends, Does, IsWork, Idle
      <4> QED BY <4>1, <4>2
    <3>8. CASE ReleaseVif(p)
      <4>1. work[p].todo \in Leaving
        BY <3>8 DEF ReleaseVif, Last, Leaving
      <4>2. /\ pod[p].leaving /\ \A q \in Pods \ {p} : pod'[q] = pod[q]
            /\ work'[p] = Idle
        BY <3>8, <4>1 DEF ReleaseVif, Ends, Task
      <4> QED BY <4>2 DEF Idle
    <3>9. CASE PodDone(p)
      BY <3>9 DEF PodDone, Ends, Idle
    <3> QED BY <1>1, <3>1, <3>2, <3>3, <3>4, <3>5, <3>6, <3>7, <3>8, <3>9
  <2> QED BY <2>1, <2>2, ObjectSpecs
<1>2. CASE NotFound(p) \/ CallFails(p)
  <2>1. UNCHANGED <<pod, np, crd>>
    BY <1>2 DEF NotFound, CallFails
  <2>2. groups' = groups
    BY <1>2 DEF NotFound, CallFails, ObjectPcs
  <2>3. \/ work' = [work EXCEPT ![p] = Idle] \/ work' = [work EXCEPT ![p] = Again(p)]
        \/ work' = [work EXCEPT ![p] = [Idle EXCEPT !.pc = "failed"]]
    BY <1>2 DEF NotFound, CallFails, Ends, GivenUp
  <2>4. Again(p).pc \in {"idle", "next"} /\ Idle.pc = "idle"
    BY PhasesAgain DEF Idle, Task
  <2>5. /\ work'[p].pc \in {"idle", "failed", "next"}
        /\ \A s \in Threads \ {p} : work'[s] = work[s]
    BY <2>3, <2>4 DEF Idle
  <2> QED BY <2>1, <2>2, <2>5, ObjectSpecs
<1> QED BY <1>1, <1>2, EditSpecs DEF PodStep

LEMMA SpaceSpecs ==
    ASSUME NetworkPolicyAssumption, GroupsTraced, GroupInv, SpecInv, NEW s \in Spaces,
           SpaceStep(s) \/ CallFails(s)
    PROVE  SpecInv'
<1>0. /\ s \in Threads /\ s \notin Pods /\ s \notin Policies /\ DOMAIN work = Threads
      /\ IsWork(work[s]) /\ work[s].pc \in ObjectPcs
  BY DEF GroupInv, Shapes, Pcs, Threads, NetworkPolicyAssumption
<1> USE <1>0
<1>1. CASE SpaceRelabelled(s) \/ NoteLabels(s) \/ SpaceDeleted(s) \/ RemoveFinalizer(s)
  <2>1. UNCHANGED <<pod, np, crd, groups>> /\ \A t \in Threads \ {s} : work'[t] = work[t]
    BY <1>1 DEF SpaceRelabelled, NoteLabels, SpaceDeleted, RemoveFinalizer, Ends, Does
  <2>2. work'[s].pc \in {"idle", "next"}
    <3>1. CASE SpaceRelabelled(s)
      BY <3>1 DEF SpaceRelabelled, Idle
    <3>2. CASE NoteLabels(s) \/ RemoveFinalizer(s)
      BY <3>2 DEF NoteLabels, RemoveFinalizer, Ends, Idle
    <3>3. CASE SpaceDeleted(s)
      BY <3>3 DEF SpaceDeleted, Does, IsWork, Idle
    <3> QED BY <1>1, <3>1, <3>2, <3>3
  <2> QED BY <2>1, <2>2, ObjectSpecs
<1>2. CASE NotFound(s) \/ CallFails(s)
  <2>1. UNCHANGED <<pod, np, crd, groups>>
    BY <1>2 DEF NotFound, CallFails, ObjectPcs
  <2>2. \/ work' = [work EXCEPT ![s] = Idle] \/ work' = [work EXCEPT ![s] = Again(s)]
        \/ work' = [work EXCEPT ![s] = [Idle EXCEPT !.pc = "failed"]]
    BY <1>2 DEF NotFound, CallFails, Ends, GivenUp
  <2>3. Again(s).pc \in {"idle", "next"} /\ Idle.pc = "idle"
    <3>1. \/ Again(s) = Idle
          \/ Again(s) = [work[s] EXCEPT !.pc = "next", !.left = {}, !.todo = <<"drop", "add", "note">>]
      BY DEF Again
    <3>2. CASE Again(s) = Idle
      BY <3>2 DEF Idle
    <3>3. CASE Again(s) = [work[s] EXCEPT !.pc = "next", !.left = {}, !.todo = <<"drop", "add", "note">>]
      BY <3>3 DEF IsWork, Idle
    <3> QED BY <3>1, <3>2, <3>3
  <2>4. /\ work'[s].pc \in {"idle", "failed", "next"}
        /\ \A t \in Threads \ {s} : work'[t] = work[t]
    BY <2>2, <2>3 DEF Idle
  <2> QED BY <2>1, <2>4, ObjectSpecs
<1> QED BY <1>1, <1>2, EditSpecs DEF SpaceStep

LEMMA UserSpecs ==
    ASSUME NetworkPolicyAssumption, GroupsTraced, GroupInv, PodInv, SpecInv,
           Users \/ (\E p \in Pods : PodRuns(p)) \/ UNCHANGED vars
    PROVE  SpecInv'
<1> DEFINE Stay == \A q \in Pods, l \in Labels :
               (/\ ~pod[q].leaving /\ pod[q].st \in {"vif", "active", "running"}
                /\ \E n \in Policies : /\ work[n].pc = "pods" /\ NewSelector(n)
                                       /\ <<q, l>> \in work[n].left)
                   => ~pod'[q].leaving /\ pod'[q].st \in {"vif", "active", "running"}
           Noticed == \A n \in Policies : np'[n] = np[n] \/ np'[n].ev # "none"
<1>0. DOMAIN np = Policies /\ DOMAIN pod = Pods
  BY DEF GroupInv, Shapes, PodInv, PodShapes
<1>1. ASSUME NEW p \in Pods, NEW l \in Labels, CreatePod(p, l) \/ RelabelPod(p, l)
      PROVE  UNCHANGED <<work, crd, groups>> /\ Stay /\ Noticed
  <2>1. CASE CreatePod(p, l)
    BY <1>0, <2>1 DEF CreatePod
  <2>2. CASE RelabelPod(p, l)
    BY <1>0, <2>2 DEF RelabelPod
  <2> QED BY <1>1, <2>1, <2>2
<1>2. ASSUME NEW p \in Pods, DeletePod(p) PROVE UNCHANGED <<work, crd, groups>> /\ Stay /\ Noticed
  BY <1>0, <1>2 DEF DeletePod
<1>3. ASSUME NEW p \in Pods, PodRuns(p) PROVE UNCHANGED <<work, crd, groups>> /\ Stay /\ Noticed
  BY <1>0, <1>3 DEF PodRuns
<1>4. CASE \/ \E s \in Spaces, l \in Labels : RelabelSpace(s, l)
           \/ \E s \in Spaces : DeleteSpace(s)
  <2>1. UNCHANGED <<work, crd, groups, pod, np>>
    BY <1>4 DEF RelabelSpace, DeleteSpace
  <2> QED BY <2>1, SpecsStay
<1>5. CASE \/ \E n \in Policies, spec \in Specs : PutPolicy(n, spec)
           \/ \E n \in Policies : DeletePolicy(n)
  <2>1. UNCHANGED <<work, crd, groups, pod>>
    BY <1>5 DEF PutPolicy, DeletePolicy
  <2>2. Noticed
    <3>1. ASSUME NEW n \in Policies, NEW spec \in Specs, PutPolicy(n, spec) PROVE Noticed
      <4>1. np' = [np EXCEPT ![n] = [live |-> TRUE, spec |-> spec, ev |-> "present"]]
        BY <3>1 DEF PutPolicy
      <4> QED BY <1>0, <4>1
    <3>2. ASSUME NEW n \in Policies, DeletePolicy(n) PROVE Noticed
      <4>1. np' = [np EXCEPT ![n].live = FALSE, ![n].ev = "deleted"] /\ IsNp(np[n])
        BY <3>2 DEF DeletePolicy, GroupInv, Shapes
      <4> QED BY <1>0, <4>1 DEF IsNp
    <3> QED BY <1>5, <3>1, <3>2
  <2> QED BY <2>1, <2>2, SpecsStay
<1>6. CASE UNCHANGED vars
  <2>1. UNCHANGED <<work, crd, groups, pod, np>>
    BY <1>6 DEF vars
  <2> QED BY <2>1, SpecsStay
<1> QED BY <1>1, <1>2, <1>3, <1>4, <1>5, <1>6, SpecsStay DEF Users

(* A policy's handler, up to the record; it has the event until it ends.   *)
LEMMA RecordSpecs ==
    ASSUME NetworkPolicyAssumption, GroupsTraced, GroupInv, SpecInv, NEW n \in Policies,
           \/ NoNeed(n) \/ CreateGroup(n) \/ ParsePolicy(n) \/ CreateRules(n) \/ PostCrd(n)
           \/ ReadCrd(n) \/ DeleteRules(n) \/ StoreRules(n)
    PROVE  SpecInv'
<1>0. /\ n \in Threads /\ DOMAIN work = Threads /\ DOMAIN crd = Policies
      /\ IsWork(work[n]) /\ IsCrd(crd[n]) /\ work[n].pc \in PolicyPcs
      /\ Stage(n) /\ Want(n) /\ Record(n) /\ None # "delete"
      /\ Updates(n) /\ Unhindered(n)
  BY Relies DEF NetworkPolicyAssumption, SpecInv
<1> USE <1>0
<1> DEFINE Safe == /\ \A t \in Threads \ {n} : work'[t] = work[t]
                   /\ pod' = pod /\ np' = np
                   /\ \A m \in Policies \ {n} : crd'[m] = crd[m]
                   /\ groups' = groups \/ \E g : groups' = groups \cup {g}
                   /\ \/ crd'[n] = crd[n]
                      \/ /\ Editing(n)
                         /\ crd'[n].sg \in groups' \/ (crd[n] # NoCrd /\ crd'[n].sg = crd[n].sg)
                   /\ Editing(n)' => Editing(n) \/ EditsAlone
                   /\ Updates(n)' /\ work'[n].pc # "pods"
<1>7. Safe => SpecInv'
  <2> SUFFICES ASSUME Safe PROVE SpecInv'
    OBVIOUS
  <2>1. Unhindered(n)'
    BY DEF Unhindered
  <2> QED BY <2>1, SpecsOfPolicy DEF Recorded
<1> SUFFICES Safe
  BY <1>7
<1>1. CASE NoNeed(n)
  <2>1. work' = [work EXCEPT ![n] = Idle] /\ UNCHANGED <<pod, np, crd, groups>> /\ ~np[n].live
    BY <1>1 DEF NoNeed, Ends
  <2>2. work'[n] = Idle
    BY <2>1
  <2>3. Updates(n)' /\ ~Editing(n)' /\ work'[n].pc # "pods"
    BY <2>1, <2>2 DEF Updates, Editing, Idle
  <2> QED BY <2>1, <2>3
<1>2. CASE CreateGroup(n)
  <2>1. /\ \A t \in Threads \ {n} : work'[t] = work[t]
        /\ UNCHANGED <<pod, np, crd>> /\ \E g : groups' = groups \cup {g}
        /\ work'[n].pc = "sg" /\ work'[n].at = None
    BY <1>2 DEF CreateGroup, Idle
  <2>2. np[n].ev # "none"
    BY <1>2 DEF CreateGroup, Handles, Updates, Is
  <2>3. Updates(n)' /\ ~Editing(n)'
    BY <2>1, <2>2 DEF Updates, Editing
  <2> QED BY <2>1, <2>3
<1>3. CASE ParsePolicy(n)
  <2>1. /\ \A t \in Threads \ {n} : work'[t] = work[t]
        /\ UNCHANGED <<pod, np, crd, groups>> /\ EditsAlone
        /\ work[n].pc = "sg" /\ work'[n].pc = "rules"
        /\ work'[n].at = work[n].at /\ work'[n].seen = work[n].seen
    BY <1>3 DEF ParsePolicy, MayParse, IsWork, Idle, Is
  <2>2. Updates(n)'
    BY <2>1 DEF Updates
  <2> QED BY <2>1, <2>2
<1>4. CASE CreateRules(n) \/ DeleteRules(n)
  <2>1. /\ \A t \in Threads \ {n} : work'[t] = work[t]
        /\ UNCHANGED <<pod, np, crd, groups>>
        /\ \/ work[n].pc = "rules" /\ work'[n].pc = "post"
           \/ work[n].pc = "create" /\ work'[n].pc = "store"
           \/ work[n].pc = "delete" /\ work'[n].pc = "create"
        /\ work'[n].at = work[n].at /\ work'[n].seen = work[n].seen
    BY <1>4 DEF CreateRules, DeleteRules, IsWork, Idle, Is, Goes
  <2>2. Updates(n)' /\ Editing(n)
    BY <2>1 DEF Updates, Editing
  <2> QED BY <2>1, <2>2
<1>5. CASE PostCrd(n) \/ StoreRules(n)
  <2>1. /\ \A t \in Threads \ {n} : work'[t] = work[t]
        /\ UNCHANGED <<pod, np, groups>>
        /\ work[n].pc \in {"post", "store"} /\ work'[n].pc = "list"
        /\ work'[n].at = work[n].at /\ work'[n].seen = work[n].seen /\ work'[n].spec = work[n].spec
    BY <1>5 DEF PostCrd, StoreRules, IsWork, Idle, Is, Goes
  <2>2. /\ \A m \in Policies \ {n} : crd'[m] = crd[m]
        /\ crd'[n].spec = work[n].spec
        /\ crd'[n].sg \in groups \/ (crd[n] # NoCrd /\ crd'[n].sg = crd[n].sg)
    <3>1. CASE PostCrd(n)
      BY <3>1 DEF PostCrd, Is, Stage, Creating
    <3>2. CASE StoreRules(n)
      <4>1. crd[n] # NoCrd
        BY <3>2 DEF StoreRules, Is, Stage
      <4> QED BY <3>2, <4>1 DEF StoreRules, IsCrd, NoCrd
    <3> QED BY <1>5, <3>1, <3>2
  <2>3. Updates(n)' /\ Editing(n)
    BY <2>1, <2>2 DEF Updates, Editing
  <2> QED BY <2>1, <2>2, <2>3
<1>6. CASE ReadCrd(n)
  <2>1. /\ \A t \in Threads \ {n} : work'[t] = work[t]
        /\ UNCHANGED <<pod, np, crd, groups>> /\ EditsAlone /\ crd[n] # NoCrd
        /\ work'[n].pc = "delete" /\ work'[n].at = None /\ work'[n].seen = crd
    BY <1>6 DEF ReadCrd, MayParse, Idle
  <2>2. np[n].ev # "none"
    BY <1>6 DEF ReadCrd, Handles, Updates, Is
  <2>3. Updates(n)'
    BY <2>1, <2>2 DEF Updates
  <2> QED BY <2>1, <2>3
<1> QED BY <1>1, <1>2, <1>3, <1>4, <1>5, <1>6

(* The pods it lists have a port, and labels.                              *)
LEMMA SelectedPods ==
    ASSUME PodInv, NEW sel
    PROVE  /\ Selected(sel) \subseteq Pods \X Labels
           /\ \A q \in Pods, l \in Labels : <<q, l>> \in Selected(sel) =>
                 ~pod[q].leaving /\ pod[q].st \in {"vif", "active", "running"}
BY DEF Selected, PodInv, PodShapes

(* It goes through the pods; a deletion does so for the selector that the  *)
(* policy had last.                                                        *)
LEMMA ThroughSpecs ==
    ASSUME NetworkPolicyAssumption, GroupsTraced, GroupInv, PodInv, SpecInv, NEW n \in Policies,
           \/ ListPods(n) \/ PolicyDeleted(n)
           \/ \E p \in Pods, l \in Labels : UpdatePod(n, p, l)
    PROVE  SpecInv'
<1>0. /\ n \in Threads /\ DOMAIN work = Threads /\ DOMAIN np = Policies
      /\ IsWork(work[n]) /\ IsNp(np[n]) /\ work[n].pc \in PolicyPcs
      /\ Stage(n) /\ Want(n) /\ Record(n) /\ None # "delete"
      /\ Updates(n) /\ Unhindered(n)
  BY Relies DEF NetworkPolicyAssumption, SpecInv
<1> USE <1>0
<1>1. CASE ListPods(n)
  <2>1. /\ UNCHANGED <<pod, np, crd, groups>> /\ \A t \in Threads \ {n} : work'[t] = work[t]
        /\ work[n].pc = "list" /\ GroupsThere
        /\ work'[n].pc = "pods" /\ work'[n].at = work[n].at /\ work'[n].seen = work[n].seen
        /\ work'[n].spec = work[n].spec
    BY <1>1 DEF ListPods, Is, IsWork, Idle
  <2>2. /\ work'[n].left \subseteq Pods \X Labels
        /\ \A q \in Pods, l \in Labels : <<q, l>> \in work'[n].left =>
              ~pod[q].leaving /\ pod[q].st \in {"vif", "active", "running"}
    <3> DEFINE X == work[n].spec.sel
               Y == work[n].seen[n].spec.sel
    <3>1. \/ work'[n].left = Selected(X)
          \/ work'[n].left = Selected(X) \cup Selected(Y)
      <4>1. CASE work[n].seen[n] = NoCrd \/ Y = X
        BY <1>1, <4>1 DEF ListPods, IsWork, Idle
      <4>2. CASE ~(work[n].seen[n] = NoCrd \/ Y = X)
        BY <1>1, <4>2 DEF ListPods, IsWork, Idle
      <4> QED BY <4>1, <4>2
    <3> HIDE DEF X, Y
    <3> QED BY <3>1, SelectedPods
  <2>3. \A m \in Recorded : crd[m].sg \in groups
    BY <2>1 DEF GroupsThere, GroupsTraced, GroupsInOrder
  <2>4. Unhindered(n)'
    BY <2>1, <2>2, <2>3 DEF Unhindered, Recorded
  <2>5. Updates(n)' /\ ~Editing(n)'
    BY <2>1, <2>2 DEF Updates, Editing
  <2> QED BY <2>1, <2>4, <2>5, SpecsOfPolicy DEF Recorded
<1>2. CASE PolicyDeleted(n) /\ crd[n] = NoCrd
  <2>1. UNCHANGED <<work, pod, crd, groups>> /\ np' = [np EXCEPT ![n].ev = "none"]
        /\ np[n].ev = "deleted"
    BY <1>2 DEF PolicyDeleted
  <2>2. work[n].pc \in {"idle", "failed"}
    BY <1>2 DEF PolicyDeleted, Ready
  <2>3. /\ np'[n].live = np[n].live /\ ~np[n].live
        /\ \A m \in Policies \ {n} : np'[m] = np[m]
    BY <2>1 DEF IsNp, Want
  <2>4. Updates(n)' /\ Unhindered(n)'
    BY <2>1, <2>2, <2>3 DEF Updates, Unhindered
  <2>5. Editing(n)' => Editing(n)
    BY <2>1 DEF Editing
  <2> QED BY <2>1, <2>3, <2>4, <2>5, <1>2, SpecsOfPolicy DEF Recorded
<1>3. CASE PolicyDeleted(n) /\ crd[n] # NoCrd
  <2>1. /\ UNCHANGED <<pod, np, crd, groups>> /\ \A t \in Threads \ {n} : work'[t] = work[t]
        /\ np[n].ev = "deleted"
        /\ work'[n].pc = "pods" /\ work'[n].at = "delete" /\ work'[n].seen[n] = NoCrd
        /\ work'[n].left = Selected(np[n].spec.sel)
    <3> DEFINE w == [Idle EXCEPT !.pc = "pods", !.at = "delete", !.sg = crd[n].sg,
                                 !.left = Selected(np[n].spec.sel)]
    <3>1. /\ w.pc = "pods" /\ w.at = "delete" /\ w.seen[n] = NoCrd
          /\ w.left = Selected(np[n].spec.sel)
      BY DEF Idle
    <3>2. /\ UNCHANGED <<pod, np, crd, groups>> /\ np[n].ev = "deleted"
          /\ work' = [work EXCEPT ![n] = w]
      BY <1>3 DEF PolicyDeleted
    <3> HIDE DEF w
    <3> QED BY <3>1, <3>2
  <2>2. Updates(n)' /\ Unhindered(n)' /\ ~Editing(n)'
    BY <2>1, SelectedPods DEF Updates, Unhindered, NewSelector, Editing
  <2> QED BY <2>1, <2>2, SpecsOfPolicy DEF Recorded
<1>4. ASSUME NEW p \in Pods, NEW l \in Labels, UpdatePod(n, p, l) PROVE SpecInv'
  <2>1. /\ UNCHANGED <<np, crd, groups>> /\ \A t \in Threads \ {n} : work'[t] = work[t]
        /\ work[n].pc = "pods" /\ work'[n].pc = "pods" /\ work'[n].at = work[n].at
        /\ work'[n].seen = work[n].seen /\ work'[n].spec = work[n].spec
        /\ work'[n].left \subseteq work[n].left
    BY <1>4 DEF UpdatePod, Is, IsWork, Idle
  <2>2. \A q \in Pods : pod'[q].st = pod[q].st /\ pod'[q].leaving = pod[q].leaving
    BY <1>4 DEF UpdatePod, PodInv, PodShapes
  <2>3. Updates(n)' /\ ~Editing(n)'
    BY <2>1 DEF Updates, Editing
  <2>4. Unhindered(n)'
    BY <2>1, <2>2 DEF Unhindered, NewSelector, Recorded
  <2> QED BY <2>1, <2>2, <2>3, <2>4, SpecsOfPolicy DEF Recorded
<1> QED BY <1>1, <1>2, <1>3, <1>4

(* It ends, or fails; a new selector's pods are not forgotten.             *)
LEMMA EndSpecs ==
    ASSUME NetworkPolicyAssumption, GroupsTraced, GroupInv, SpecInv, NEW n \in Policies,
           Updated(n) \/ DeleteGroup(n) \/ DeleteCrd(n) \/ NotFound(n) \/ CallFails(n)
    PROVE  SpecInv'
<1>0. /\ n \in Threads /\ n \notin Pods /\ n \notin Spaces /\ DOMAIN work = Threads
      /\ DOMAIN np = Policies /\ DOMAIN crd = Policies
      /\ IsWork(work[n]) /\ IsNp(np[n]) /\ work[n].pc \in PolicyPcs
      /\ Stage(n) /\ Want(n) /\ Record(n) /\ None # "delete"
      /\ Updates(n) /\ Unhindered(n)
  BY Relies DEF NetworkPolicyAssumption, SpecInv
<1> USE <1>0
<1> DEFINE Over == /\ \A t \in Threads \ {n} : work'[t] = work[t]
                   /\ pod' = pod /\ \A m \in Policies \ {n} : crd'[m] = crd[m] /\ np'[m] = np[m]
                   /\ crd'[n] = crd[n] \/ crd'[n] = NoCrd
                   /\ \/ \A m \in Recorded : crd[m].sg \in groups => crd[m].sg \in groups'
                      \/ \A m \in Policies : ~(work[m].pc = "pods" /\ NewSelector(m))
                   /\ work'[n].pc \in {"idle", "failed", "again", "unuse", "uncrd"}
                   /\ Updates(n)'
<1>1. Over => SpecInv'
  <2> SUFFICES ASSUME Over PROVE SpecInv'
    OBVIOUS
  <2>1. ~Editing(n)' /\ Unhindered(n)'
    BY DEF Editing, Unhindered
  <2>2. n \in Recorded' => n \in Recorded /\ crd'[n].sg = crd[n].sg
    BY DEF Recorded
  <2>3. crd'[n] = NoCrd \/ (crd'[n].spec = crd[n].spec /\ crd[n] # NoCrd)
    OBVIOUS
  <2> QED BY <2>1, <2>2, <2>3, SpecsOfPolicy
<1> SUFFICES Over
  BY <1>1
<1>2. CASE Updated(n)
  <2>1. /\ UNCHANGED <<pod, crd, groups>> /\ \A t \in Threads \ {n} : work'[t] = work[t]
        /\ work[n].pc = "pods"
    BY <1>2 DEF Updated, Is, Goes, Ends
  <2>2. CASE work[n].at = "delete"
    <3>1. np' = np /\ work'[n].pc = "unuse" /\ work'[n].seen = work[n].seen
      BY <1>2, <2>2 DEF Updated, Goes, IsWork, Idle
    <3>2. Updates(n)'
      BY <2>1, <2>2, <3>1 DEF Updates
    <3> QED BY <2>1, <3>1, <3>2
  <2>3. CASE work[n].at # "delete"
    <3>1. /\ work'[n] = Idle
          /\ np' = [np EXCEPT ![n].ev = IF np[n].spec = work[n].spec /\ np[n].live
                                        THEN "none" ELSE @]
      BY <1>2, <2>3 DEF Updated, Ends
    <3>2. /\ np'[n].live = np[n].live /\ np'[n].spec = np[n].spec
          /\ np'[n].ev # "none" \/ np[n].spec = work[n].spec
          /\ \A m \in Policies \ {n} : np'[m] = np[m]
      BY <2>1, <3>1 DEF IsNp, Updates
    <3>3. work'[n].pc = "idle" /\ work'[n].at = None
      BY <3>1 DEF Idle
    <3>4. Updates(n)'
      BY <2>1, <2>3, <3>2, <3>3 DEF Updates
    <3> QED BY <2>1, <3>2, <3>3, <3>4
  <2> QED BY <2>2, <2>3
<1>3. CASE DeleteGroup(n)
  <2>1. /\ UNCHANGED <<pod, np, crd>> /\ \A t \in Threads \ {n} : work'[t] = work[t]
        /\ work[n].pc = "unuse"
        /\ \/ work'[n] = Idle /\ groups' = groups
           \/ /\ work'[n].pc = "uncrd" /\ work'[n].at = work[n].at /\ work'[n].seen = work[n].seen
              /\ groups' = groups \ {work[n].sg}
    <3>1. /\ UNCHANGED <<pod, np, crd>> /\ work[n].pc = "unuse"
          /\ \/ work' = [work EXCEPT ![n] = Idle] /\ groups' = groups
             \/ work' = [work EXCEPT ![n].pc = "uncrd"] /\ groups' = groups \ {work[n].sg}
      BY <1>3 DEF DeleteGroup, Ends, Goes, Is
    <3>2. CASE work' = [work EXCEPT ![n] = Idle] /\ groups' = groups
      BY <3>1, <3>2
    <3>3. CASE work' = [work EXCEPT ![n].pc = "uncrd"] /\ groups' = groups \ {work[n].sg}
      BY <3>1, <3>3 DEF IsWork, Idle
    <3> QED BY <3>1, <3>2, <3>3
  <2>2. \/ groups' = groups
        \/ \A m \in Policies : ~(work[m].pc = "pods" /\ NewSelector(m))
    <3>1. CASE work[n].sg \notin groups
      BY <2>1, <3>1
    <3>2. CASE work[n].sg \in groups
      BY <1>3, <3>2 DEF DeleteGroup, MayDeleteGroup, GroupsTraced, GroupsInOrder, Threads
    <3> QED BY <3>1, <3>2
  <2>3. Updates(n)' /\ work'[n].pc \in {"idle", "uncrd"}
    BY <2>1 DEF Updates, Idle
  <2> QED BY <2>1, <2>2, <2>3
<1>4. CASE DeleteCrd(n)
  <2>1. /\ UNCHANGED <<pod, groups>> /\ \A t \in Threads \ {n} : work'[t] = work[t]
        /\ work[n].pc = "uncrd" /\ work'[n] = Idle
        /\ crd' = [crd EXCEPT ![n] = NoCrd] /\ np' = [np EXCEPT ![n].ev = "none"]
    BY <1>4 DEF DeleteCrd, Is, Ends
  <2>2. /\ ~np'[n].live /\ crd'[n] = NoCrd
        /\ \A m \in Policies \ {n} : crd'[m] = crd[m] /\ np'[m] = np[m]
    BY <2>1 DEF Stage, Want, IsNp
  <2>3. Updates(n)' /\ work'[n].pc = "idle"
    BY <2>1, <2>2 DEF Updates, Idle
  <2> QED BY <2>1, <2>2, <2>3
<1>5. CASE NotFound(n) \/ CallFails(n)
  <2>1. UNCHANGED <<pod, np, crd>> /\ work[n].pc \notin {"idle", "failed"}
    BY <1>5 DEF NotFound, CallFails, Is, PolicyPcs, Creating
  <2>2. \/ groups' = groups
        \/ groups' = groups \ {work[n].sg} /\ work[n].pc \in Creating
    BY <1>5 DEF NotFound, CallFails, Creating
  <2>3. \A m \in Recorded : crd[m].sg \in groups => crd[m].sg \in groups'
    <3> SUFFICES ASSUME NEW m \in Recorded, work[n].pc \in Creating
                 PROVE  crd[m].sg # work[n].sg
      BY <2>2
    <3>1. crd[n] = NoCrd /\ crd[m] # NoCrd
      BY DEF Stage, Recorded
    <3>2. n # m /\ Holds(n) /\ Holds(m) /\ ItsGroup(n) = work[n].sg /\ ItsGroup(m) = crd[m].sg
      BY <3>1 DEF Holds, ItsGroup
    <3> QED BY <3>2 DEF GroupInv, Apart, Recorded
  <2>4. /\ \A t \in Threads \ {n} : work'[t] = work[t]
        /\ work'[n].pc \in {"idle", "failed", "again"} /\ work'[n].at = None
    <3>1. \/ work' = [work EXCEPT ![n] = Again(n)] \/ work' = [work EXCEPT ![n] = Idle]
          \/ work' = [work EXCEPT ![n] = [Idle EXCEPT !.pc = "failed"]]
      BY <1>5 DEF NotFound, CallFails, Ends, GivenUp
    <3>2. Again(n) = Idle \/ Again(n) = [Idle EXCEPT !.pc = "again", !.spec = work[n].spec]
      BY DEF Again
    <3>3. /\ Idle.pc = "idle" /\ Idle.at = None
          /\ [Idle EXCEPT !.pc = "again", !.spec = work[n].spec].pc = "again"
          /\ [Idle EXCEPT !.pc = "again", !.spec = work[n].spec].at = None
          /\ [Idle EXCEPT !.pc = "failed"].pc = "failed"
          /\ [Idle EXCEPT !.pc = "failed"].at = None
      BY DEF Idle
    <3>4. Again(n).pc \in {"idle", "again"} /\ Again(n).at = None
      BY <3>2, <3>3
    <3> HIDE <3>2
    <3> QED BY <3>1, <3>3, <3>4
  <2>5. Updates(n)'
    BY <2>1, <2>4 DEF Updates
  <2> QED BY <2>1, <2>3, <2>4, <2>5
<1> QED BY <1>2, <1>3, <1>4, <1>5

LEMMA RestartSpecs ==
    ASSUME NetworkPolicyAssumption, GroupInv, Restart
    PROVE  SpecInv'
<1>1. \A t \in Threads : work'[t] = Idle
  BY DEF Restart
<1>2. Idle.pc = "idle" /\ Idle.at = None /\ None # "delete"
  BY DEF Idle, NetworkPolicyAssumption
<1>3. OneEdits' /\ \A t \in Pods \cup Spaces : Fresh(t)'
  BY <1>1, <1>2 DEF OneEdits, Editing, Fresh, Threads
<1>4. ASSUME NEW n \in Policies PROVE Updates(n)' /\ Unhindered(n)'
  <2>1. n \in Threads /\ IsNp(np[n])
    BY DEF Threads, GroupInv, Shapes
  <2>2. np'[n].live => np'[n].ev = "present"
    BY <2>1 DEF Restart, IsNp
  <2> QED BY <1>1, <1>2, <2>1, <2>2 DEF Updates, Unhindered
<1> QED BY <1>3, <1>4 DEF SpecInv

LEMMA SpecsStart == Init => SpecInv
<1> SUFFICES ASSUME Init PROVE SpecInv
  OBVIOUS
<1>1. \A t \in Threads : work[t] = Idle
  BY DEF Init
<1>2. Idle.pc = "idle" /\ Idle.at = None /\ None # "delete"
  BY NetworkPolicyAssumption DEF Idle, NetworkPolicyAssumption
<1>3. OneEdits /\ \A t \in Pods \cup Spaces : Fresh(t)
  BY <1>1, <1>2 DEF OneEdits, Editing, Fresh, Threads
<1>4. ASSUME NEW n \in Policies PROVE Updates(n) /\ Unhindered(n)
  <2>1. n \in Threads /\ ~np[n].live
    BY DEF Threads, Init
  <2> QED BY <1>1, <1>2, <2>1 DEF Updates, Unhindered
<1> QED BY <1>3, <1>4 DEF SpecInv

LEMMA SpecsKeep ==
    ASSUME GroupsTraced, GroupInv, PodInv, SpecInv, [Next]_vars
    PROVE  SpecInv'
<1> USE NetworkPolicyAssumption
<1>1. ASSUME NEW p \in Pods, PodStep(p) PROVE SpecInv'
  BY <1>1, PodSpecs
<1>2. ASSUME NEW s \in Spaces, SpaceStep(s) PROVE SpecInv'
  BY <1>2, SpaceSpecs
<1>3. ASSUME NEW n \in Policies, PolicyStep(n) PROVE SpecInv'
  BY <1>3, RecordSpecs, ThroughSpecs, EndSpecs DEF PolicyStep
<1>4. ASSUME NEW t \in Threads, CallFails(t) PROVE SpecInv'
  BY <1>4, PodSpecs, SpaceSpecs, EndSpecs DEF Threads
<1> QED BY <1>1, <1>2, <1>3, <1>4, UserSpecs, RestartSpecs DEF Next

(* What the record of n says of a pod labelled l; what is to come to its   *)
(* port, and what is still to be taken off.                                *)
Sel(n, p, l) == SpaceOf[p] = Home /\ Matches(crd[n].spec.sel, l)
Coming(n, p, l) ==
    \/ work[n].pc = "list"
    \/ work[n].pc = "pods" /\ (work[n].at = "delete" \/ <<p, l>> \in work[n].left)
    \/ work[n].pc \notin {"list", "pods"} /\ np[n].ev # "none"
Going(n, p, l) ==
    /\ SpaceOf[p] = Home /\ NewSelector(n) /\ Matches(work[n].seen[n].spec.sel, l)
    /\ work[n].pc = "list" \/ (work[n].pc = "pods" /\ <<p, l>> \in work[n].left)
Clean(n, p, g, l) ==
    crd[n] # NoCrd => /\ (Sel(n, p, l) /\ crd[n].sg \notin g) => Coming(n, p, l)
                      /\ (crd[n].sg \in g /\ ~Sel(n, p, l)) => Going(n, p, l)
Follows(p, g, l) == \A n \in Policies : Clean(n, p, g, l)

(* The groups of a port are its handler's to set, for other labels.        *)
OwnToSet(p) == \/ pod[p].leaving \/ pod[p].st \in {"out", "new"} \/ pod[p].label # pod[p].noted
               \/ work[p].todo \in Putting
(* Where groups g stand for labels l: at a port, at one being created, and *)
(* with the handler that sets them.                                        *)
View(p, g, l) ==
    \/ ~OwnToSet(p) /\ g = pod[p].groups /\ l = pod[p].label
    \/ work[p].pc = "annotate" /\ g = pod[p].groups /\ l = work[p].label
    \/ work[p].pc = "put" /\ g = work[p].left /\ l = work[p].label
PodFollows(p) == \A g, l : View(p, g, l) => Follows(p, g, l)

(* The groups of a port exist and are recorded; so are those that are to   *)
(* be set, unless a group is gone, and then the labels are others again.   *)
Known(g) == \E m \in Recorded : crd[m].sg = g
Whole(gs) == gs # {} /\ (Default \in gs => gs = {Default})
PortSound(p) ==
    /\ \A g \in pod[p].groups : g = Default \/ (g \in groups /\ Known(g))
    /\ (pod[p].st \notin {"out", "new"} \/ work[p].pc = "annotate") => Whole(pod[p].groups)
PutSound(p) ==
    work[p].pc = "put" =>
        /\ \A g \in work[p].left : g = Default \/ g \notin groups \/ Known(g)
        /\ Whole(work[p].left)
        /\ \/ work[p].left \subseteq groups \cup {Default}
           \/ pod[p].label # pod[p].noted \/ pod[p].leaving

FollowInv == /\ \A n \in Recorded : crd[n].sg \in Groups
             /\ \A p \in Pods : PortSound(p) /\ PutSound(p) /\ PodFollows(p)

(* The groups that are looked up are those of the policies that select.    *)
LEMMA LookedUp ==
    ASSUME NetworkPolicyAssumption, GroupInv, FollowInv, NEW p \in Pods, NEW l
    PROVE  /\ \A n \in Recorded : crd[n].sg \in GroupsFor(p, l) <=> Sel(n, p, l)
           /\ Whole(GroupsFor(p, l))
           /\ \A g \in GroupsFor(p, l) : g = Default \/ Known(g)
<1> DEFINE picks == {m \in Recorded : SpaceOf[p] = Home /\ Matches(crd[m].spec.sel, l)}
           its == {crd[n].sg : n \in picks}
<1>1. GroupsFor(p, l) = IF its = {} THEN {Default} ELSE its
  BY DEF GroupsFor
<1>2. \A n \in Recorded : crd[n].sg # Default
  BY DEF FollowInv, NetworkPolicyAssumption
<1>3. \A n \in Recorded : n \in picks <=> Sel(n, p, l)
  BY DEF Sel
<1>4. \A n, m \in Recorded : crd[n].sg = crd[m].sg => n = m
  BY DEF GroupInv, Apart, Recorded, Holds, ItsGroup
<1>5. \A n \in Recorded : crd[n].sg \in its <=> n \in picks
  <2> SUFFICES ASSUME NEW n \in Recorded, crd[n].sg \in its PROVE n \in picks
    OBVIOUS
  <2>1. PICK m \in picks : crd[n].sg = crd[m].sg
    OBVIOUS
  <2>2. m \in Recorded
    OBVIOUS
  <2> HIDE DEF picks
  <2> QED BY <1>4, <2>1, <2>2
<1>6. Default \notin its /\ \A g \in its : Known(g)
  BY <1>2 DEF Known
<1> HIDE DEF its, picks
<1>7. CASE its = {}
  BY <1>1, <1>2, <1>3, <1>5, <1>7 DEF Whole
<1>8. CASE its # {}
  BY <1>1, <1>3, <1>5, <1>6, <1>8 DEF Whole
<1> QED BY <1>7, <1>8

LEMMA LookedUpFollows ==
    ASSUME NEW p \in Pods, NEW g, NEW l,
           \A n \in Recorded : crd[n].sg \in g <=> Sel(n, p, l)
    PROVE  Follows(p, g, l)
BY DEF Follows, Clean, Recorded

(* The records keep their groups and specifications.                       *)
SameRecords ==
    \A m \in Policies : /\ crd'[m] = NoCrd <=> crd[m] = NoCrd
                        /\ crd'[m].spec = crd[m].spec /\ crd'[m].sg = crd[m].sg
LEMMA CleanStays ==
    ASSUME NEW n \in Policies, work'[n] = work[n],
           np'[n].ev = np[n].ev \/ np'[n].ev # "none",
           crd'[n] = NoCrd <=> crd[n] = NoCrd,
           crd'[n].spec = crd[n].spec, crd'[n].sg = crd[n].sg,
           NEW p, NEW g, NEW l, Clean(n, p, g, l)
    PROVE  Clean(n, p, g, l)'
<1>1. Sel(n, p, l)' <=> Sel(n, p, l)
  BY DEF Sel
<1>2. Going(n, p, l)' <=> Going(n, p, l)
  BY DEF Going, NewSelector
<1>3. Coming(n, p, l) => Coming(n, p, l)'
  BY DEF Coming
<1> QED BY <1>1, <1>2, <1>3 DEF Clean

(* A step of a pod or of a namespace: only this pod's groups are concerned.*)
LEMMA FollowOfPod ==
    ASSUME FollowInv, NEW p, groups' = groups, SameRecords,
           \A n \in Policies : work'[n] = work[n] /\ (np'[n].ev = np[n].ev \/ np'[n].ev # "none"),
           \A q \in Pods \ {p} : pod'[q] = pod[q] /\ work'[q] = work[q],
           p \in Pods => PortSound(p)' /\ PutSound(p)',
           p \in Pods => \A g, l : View(p, g, l)' => View(p, g, l) \/ Follows(p, g, l)
    PROVE  FollowInv'
<1>0. /\ Recorded' = Recorded /\ \A n \in Recorded : crd'[n].sg = crd[n].sg
      /\ \A g : Known(g)' <=> Known(g)
  BY DEF SameRecords, Recorded, Known
<1>1. \A n \in Recorded' : crd'[n].sg \in Groups
  BY <1>0 DEF FollowInv
<1>2. ASSUME NEW q \in Pods PROVE PortSound(q)' /\ PutSound(q)'
  <2>1. CASE q = p
    BY <2>1
  <2>2. CASE q # p
    BY <1>0, <2>2 DEF FollowInv, PortSound, PutSound
  <2> QED BY <2>1, <2>2
<1>3. ASSUME NEW q \in Pods, NEW g, NEW l, View(q, g, l)' PROVE Follows(q, g, l)'
  <2>1. View(q, g, l) \/ Follows(q, g, l)
    <3>1. CASE q = p
      BY <1>3, <3>1
    <3>2. CASE q # p
      BY <1>3, <3>2 DEF View, OwnToSet
    <3> QED BY <3>1, <3>2
  <2>2. Follows(q, g, l)
    BY <2>1 DEF FollowInv, PodFollows
  <2> QED BY <2>2, CleanStays DEF Follows, SameRecords
<1> QED BY <1>1, <1>2, <1>3 DEF FollowInv, PodFollows

(* The port loses groups at most when it goes.                             *)
LEMMA SoundStays ==
    ASSUME NEW p \in Pods, PortSound(p), PutSound(p), groups' = groups, SameRecords,
           pod'[p].groups = pod[p].groups \/ pod'[p].groups = {},
           (pod'[p].st \notin {"out", "new"} \/ work'[p].pc = "annotate") =>
               /\ pod'[p].groups = pod[p].groups
               /\ pod[p].st \notin {"out", "new"} \/ work[p].pc = "annotate",
           work'[p].pc = "put" =>
               /\ work[p].pc = "put" /\ work'[p].left = work[p].left
               /\ \/ work[p].left \subseteq groups \cup {Default}
                  \/ pod'[p].label # pod'[p].noted \/ pod'[p].leaving
    PROVE  PortSound(p)' /\ PutSound(p)'
<1>1. \A g : Known(g)' <=> Known(g)
  BY DEF SameRecords, Recorded, Known
<1>2. PortSound(p)'
  <2>1. \A g \in pod'[p].groups : g = Default \/ (g \in groups' /\ Known(g)')
    BY <1>1 DEF PortSound
  <2>2. (pod'[p].st \notin {"out", "new"} \/ work'[p].pc = "annotate") => Whole(pod'[p].groups)
    BY DEF PortSound
  <2> QED BY <2>1, <2>2 DEF PortSound, Whole
<1>3. PutSound(p)'
  <2> SUFFICES ASSUME work'[p].pc = "put" PROVE PutSound(p)'
    BY DEF PutSound
  <2> QED BY <1>1 DEF PutSound, Whole
<1> QED BY <1>2, <1>3

(* What FollowInv says of a pod, and what a step of its thread leaves.     *)
LEMMA PodFollowed ==
    ASSUME FollowInv, NEW p \in Pods
    PROVE  PortSound(p) /\ PutSound(p) /\ PodFollows(p)
BY DEF FollowInv

(* The port is created with the groups looked up; it has them, and the     *)
(* labels they stand for are noted, when the pod is annotated.             *)
LEMMA VifFollows ==
    ASSUME NetworkPolicyAssumption, GroupsTraced, GroupInv, PodInv, FollowInv, NEW p \in Pods,
           RequestVif(p) \/ AnnotateVif(p) \/ ActivateVif(p)
    PROVE  FollowInv'
<1>0. Relied(p) /\ PortSound(p) /\ PutSound(p)
  BY PodRelies, PodFollowed
<1> USE <1>0 DEF Relied
<1>1. CASE RequestVif(p)
  <2> DEFINE w == [Idle EXCEPT !.pc = "annotate", !.label = pod[p].label]
             its == GroupsFor(p, pod[p].label)
  <2>1. /\ work' = [work EXCEPT ![p] = w] /\ pod' = [pod EXCEPT ![p].groups = its]
        /\ UNCHANGED <<np, crd, groups>> /\ pod[p].st = "new" /\ its \subseteq groups \cup {Default}
    BY <1>1 DEF RequestVif
  <2>2. w.pc = "annotate" /\ w.label = pod[p].label
    BY DEF Idle
  <2>3. /\ \A n \in Recorded : crd[n].sg \in its <=> Sel(n, p, pod[p].label)
        /\ Whole(its) /\ \A g \in its : g = Default \/ Known(g)
    BY LookedUp
  <2> HIDE DEF w, its
  <2>4. /\ work'[p] = w /\ pod'[p].st = "new" /\ pod'[p].label = pod[p].label
        /\ pod'[p].groups = its
    BY <2>1
  <2>5. SameRecords /\ \A g : Known(g) => Known(g)'
    BY <2>1 DEF SameRecords, Known, Recorded
  <2>6. /\ \A n \in Policies : work'[n] = work[n]
        /\ \A q \in Pods \ {p} : pod'[q] = pod[q] /\ work'[q] = work[q]
    BY <2>1, <2>4, OthersStay
  <2>7. PortSound(p)' /\ PutSound(p)'
    <3>1. \A g \in its : g = Default \/ (g \in groups' /\ Known(g)')
      BY <2>1, <2>3, <2>5
    <3> QED BY <2>2, <2>3, <2>4, <3>1 DEF PortSound, PutSound, Whole
  <2>8. Follows(p, its, pod[p].label)
    BY <2>3, LookedUpFollows
  <2>9. \A g, l : View(p, g, l)' => Follows(p, g, l)
    BY <2>2, <2>4, <2>8 DEF View, OwnToSet
  <2> QED BY <2>1, <2>5, <2>6, <2>7, <2>9, FollowOfPod
<1>2. CASE AnnotateVif(p)
  <2> DEFINE o == IF pod[p].leaving THEN [pod[p] EXCEPT !.groups = {}]
                  ELSE [pod[p] EXCEPT !.st = "vif", !.noted = work[p].label]
  <2>1. /\ work' = [work EXCEPT ![p] = Idle] /\ work[p].pc = "annotate"
        /\ UNCHANGED <<np, crd, groups>> /\ pod' = [pod EXCEPT ![p] = o]
    BY <1>2 DEF AnnotateVif, Ends, Is
  <2>2. Idle.pc = "idle" /\ Idle.todo = <<>>
    BY DEF Idle
  <2>3. /\ pod[p].leaving => o.st = "new" /\ o.groups = {} /\ o.leaving
        /\ ~pod[p].leaving => o.st = "vif" /\ o.groups = pod[p].groups /\ o.noted = work[p].label
        /\ o.label = pod[p].label
    BY <2>1 DEF Task
  <2> HIDE DEF o
  <2>4. work'[p] = Idle /\ pod'[p] = o
    BY <2>1
  <2>5. SameRecords
    BY <2>1 DEF SameRecords
  <2>6. /\ \A n \in Policies : work'[n] = work[n]
        /\ \A q \in Pods \ {p} : pod'[q] = pod[q] /\ work'[q] = work[q]
    BY <2>1, <2>4, OthersStay
  <2>7. PortSound(p)' /\ PutSound(p)'
    BY <2>1, <2>2, <2>3, <2>4, <2>5, SoundStays
  <2>8. \A g, l : View(p, g, l)' => View(p, g, l)
    BY <2>1, <2>2, <2>3, <2>4 DEF View, OwnToSet
  <2> QED BY <2>1, <2>5, <2>6, <2>7, <2>8, FollowOfPod
<1>3. CASE ActivateVif(p)
  <2> DEFINE w == [Idle EXCEPT !.pc = "next", !.label = pod[p].label,
                       !.todo = IF pod[p].label = pod[p].noted THEN <<"add">>
                                ELSE <<"add", "drop", "add", "put">>]
             o == [pod[p] EXCEPT !.st = "active", !.noted = pod[p].label]
  <2>1. /\ work' = [work EXCEPT ![p] = w] /\ pod' = [pod EXCEPT ![p] = o]
        /\ UNCHANGED <<np, crd, groups>> /\ work[p].pc \in {"idle", "failed"}
        /\ pod[p].st = "vif" /\ ~pod[p].leaving
    BY <1>3 DEF ActivateVif, Ready
  <2>2. /\ w.pc = "next"
        /\ pod[p].label # pod[p].noted => w.todo = <<"add", "drop", "add", "put">>
    BY DEF Idle
  <2>3. /\ o.st = "active" /\ o.leaving = pod[p].leaving /\ o.label = pod[p].label
        /\ o.groups = pod[p].groups
    OBVIOUS
  <2> HIDE DEF w, o
  <2>4. work'[p] = w /\ pod'[p] = o
    BY <2>1
  <2>5. SameRecords
    BY <2>1 DEF SameRecords
  <2>6. /\ \A n \in Policies : work'[n] = work[n]
        /\ \A q \in Pods \ {p} : pod'[q] = pod[q] /\ work'[q] = work[q]
    BY <2>1, <2>4, OthersStay
  <2>7. PortSound(p)' /\ PutSound(p)'
    BY <2>1, <2>2, <2>3, <2>4, <2>5, SoundStays
  <2>8. pod[p].label # pod[p].noted => w.todo \in Putting
    BY <2>2 DEF Putting
  <2>9. work[p].todo \notin Putting
    BY <2>1, NothingToDo DEF Task
  <2>10. \A g, l : View(p, g, l)' => View(p, g, l)
    BY <2>1, <2>2, <2>3, <2>4, <2>8, <2>9 DEF View, OwnToSet
  <2> QED BY <2>1, <2>5, <2>6, <2>7, <2>10, FollowOfPod
<1> QED BY <1>1, <1>2, <1>3

(* The handler of new labels looks the groups up, and sets them.           *)
LEMMA HandlerFollows ==
    ASSUME NetworkPolicyAssumption, GroupsTraced, GroupInv, PodInv, FollowInv, NEW p \in Pods,
           Relabelled(p) \/ LookUpGroups(p) \/ PutGroups(p) \/ PodDone(p)
    PROVE  FollowInv'
<1>0. Relied(p) /\ PortSound(p) /\ PutSound(p)
  BY PodRelies, PodFollowed
<1> USE <1>0 DEF Relied
<1>1. CASE Relabelled(p) \/ PodDone(p)
  <2>1. /\ UNCHANGED <<pod, np, crd, groups>> /\ \A t \in Threads \ {p} : work'[t] = work[t]
        /\ work'[p].pc \in {"idle", "next"}
        /\ work[p].todo \in Putting => pod[p].label # pod[p].noted
    <3>1. CASE Relabelled(p)
      BY <3>1 DEF Relabelled, Idle
    <3>2. CASE PodDone(p)
      BY <3>2, NothingToDo DEF PodDone, Ends, Idle
    <3> QED BY <1>1, <3>1, <3>2
  <2>2. SameRecords
    BY <2>1 DEF SameRecords
  <2>3. PortSound(p)' /\ PutSound(p)'
    BY <2>1, <2>2, SoundStays
  <2>4. \A g, l : View(p, g, l)' => View(p, g, l)
    BY <2>1 DEF View, OwnToSet
  <2>5. /\ \A n \in Policies : work'[n] = work[n]
        /\ \A q \in Pods \ {p} : pod'[q] = pod[q] /\ work'[q] = work[q]
    BY <2>1 DEF Threads
  <2> QED BY <2>1, <2>2, <2>3, <2>4, <2>5, FollowOfPod
<1>2. CASE LookUpGroups(p)
  <2> DEFINE its == GroupsFor(p, work[p].label)
             w == [work[p] EXCEPT !.pc = "put", !.left = its]
  <2>1. /\ work' = [work EXCEPT ![p] = w] /\ UNCHANGED <<pod, np, crd, groups>>
        /\ work[p].todo = <<"put">> /\ GroupsThere
    BY <1>2 DEF LookUpGroups, Last
  <2>2. w.pc = "put" /\ w.todo = work[p].todo /\ w.label = work[p].label /\ w.left = its
    BY DEF IsWork, Idle
  <2>3. /\ \A n \in Recorded : crd[n].sg \in its <=> Sel(n, p, work[p].label)
        /\ Whole(its) /\ \A g \in its : g = Default \/ Known(g)
    BY LookedUp
  <2> HIDE DEF w, its
  <2>4. work'[p] = w
    BY <2>1
  <2>5. SameRecords /\ \A g : Known(g) => Known(g)'
    BY <2>1 DEF SameRecords, Known, Recorded
  <2>6. /\ \A n \in Policies : work'[n] = work[n]
        /\ \A q \in Pods \ {p} : pod'[q] = pod[q] /\ work'[q] = work[q]
    BY <2>1, <2>4, OthersStay
  <2>7. PortSound(p)'
    BY <2>1, <2>2, <2>4, <2>5 DEF PortSound, Whole
  <2>8. PutSound(p)'
    <3>1. \A n \in Recorded : crd[n].sg \in groups
      BY <2>1 DEF GroupsThere, GroupsTraced, GroupsInOrder
    <3>2. its \subseteq groups \cup {Default}
      BY <2>3, <3>1 DEF Known
    <3> QED BY <2>1, <2>2, <2>3, <2>4, <2>5, <3>2 DEF PutSound, Whole
  <2>9. Follows(p, its, work[p].label)
    BY <2>3, LookedUpFollows
  <2>10. w.todo \in Putting
    BY <2>1, <2>2 DEF Putting
  <2>11. \A g, l : View(p, g, l)' => Follows(p, g, l)
    BY <2>2, <2>4, <2>9, <2>10 DEF View, OwnToSet
  <2> QED BY <2>1, <2>5, <2>6, <2>7, <2>8, <2>11, FollowOfPod
<1>3. CASE PutGroups(p)
  <2> DEFINE o == [pod[p] EXCEPT !.groups = work[p].left, !.noted = work[p].label]
  <2>1. /\ work' = [work EXCEPT ![p] = Idle] /\ pod' = [pod EXCEPT ![p] = o]
        /\ UNCHANGED <<np, crd, groups>> /\ work[p].pc = "put"
        /\ work[p].left \subseteq groups \cup {Default}
    BY <1>3 DEF PutGroups, Ends, Is
  <2>2. Idle.pc = "idle"
    BY DEF Idle
  <2>3. o.groups = work[p].left /\ o.noted = work[p].label /\ o.label = pod[p].label
    OBVIOUS
  <2> HIDE DEF o
  <2>4. work'[p] = Idle /\ pod'[p] = o
    BY <2>1
  <2>5. SameRecords /\ \A g : Known(g) => Known(g)'
    BY <2>1 DEF SameRecords, Known, Recorded
  <2>6. /\ \A n \in Policies : work'[n] = work[n]
        /\ \A q \in Pods \ {p} : pod'[q] = pod[q] /\ work'[q] = work[q]
    BY <2>1, <2>4, OthersStay
  <2>7. PortSound(p)' /\ PutSound(p)'
    <3>1. \A g \in work[p].left : g = Default \/ (g \in groups' /\ Known(g)')
      BY <2>1, <2>5 DEF PutSound
    <3> QED BY <2>1, <2>2, <2>3, <2>4, <3>1 DEF PutSound, PortSound, Whole
  <2>8. \A g, l : View(p, g, l)' => View(p, g, l)
    BY <2>1, <2>2, <2>3, <2>4 DEF View, OwnToSet
  <2> QED BY <2>1, <2>5, <2>6, <2>7, <2>8, FollowOfPod
<1> QED BY <1>1, <1>2, <1>3

(* A pod goes: its port's groups are nobody's to follow.                   *)
LEMMA GoingFollows ==
    ASSUME NetworkPolicyAssumption, GroupsTraced, GroupInv, PodInv, FollowInv, NEW p \in Pods,
           PodDeleted(p) \/ ReleaseVif(p)
    PROVE  FollowInv'
<1>0. Relied(p) /\ PortSound(p) /\ PutSound(p)
  BY PodRelies, PodFollowed
<1> USE <1>0 DEF Relied
<1>1. /\ UNCHANGED <<np, crd, groups>> /\ \A t \in Threads \ {p} : work'[t] = work[t]
      /\ \A q \in Pods \ {p} : pod'[q] = pod[q]
  BY DEF PodDeleted, ReleaseVif, Ends, Does
<1>2. SameRecords
  BY <1>1 DEF SameRecords
<1>3. /\ work'[p].pc \in {"idle", "next"}
      /\ pod'[p].leaving \/ pod'[p].st = "out"
      /\ pod'[p].groups = pod[p].groups \/ pod'[p].groups = {}
      /\ pod'[p].st # "out" => pod'[p] = pod[p]
  <2>1. CASE PodDeleted(p) /\ pod[p].st = "new"
    BY <2>1 DEF PodDeleted, Ends, Idle
  <2>2. CASE PodDeleted(p) /\ pod[p].st # "new"
    <3>1. work' = [work EXCEPT ![p].pc = "next", ![p].todo = <<"drop", "out">>]
          /\ pod' = pod /\ pod[p].leaving
      BY <2>2 DEF PodDeleted, Does
    <3> QED BY <3>1 DEF IsWork, Idle
  <2>3. CASE ReleaseVif(p)
    BY <2>3 DEF ReleaseVif, Ends, Idle
  <2> QED BY <2>1, <2>2, <2>3
<1>4. PortSound(p)' /\ PutSound(p)'
  BY <1>1, <1>2, <1>3, SoundStays
<1>5. \A g, l : ~View(p, g, l)'
  BY <1>3 DEF View, OwnToSet
<1>6. /\ \A n \in Policies : work'[n] = work[n]
      /\ \A q \in Pods \ {p} : pod'[q] = pod[q] /\ work'[q] = work[q]
  BY <1>1 DEF Threads
<1> QED BY <1>1, <1>2, <1>4, <1>5, <1>6, FollowOfPod

(* Editing leaves the records their groups and specifications: what is     *)
(* written is what was read, and that is current.                          *)
LEMMA PatchSame ==
    ASSUME NetworkPolicyAssumption, GroupInv, SpecInv, NEW t \in Pods \cup Spaces, EditStep(t)
    PROVE  SameRecords
<1>0. /\ t \in Threads /\ Fresh(t) /\ DOMAIN crd = Policies
      /\ \A n \in Policies : IsCrd(crd[n]) /\ Record(n)
  BY DEF GroupInv, Shapes, Held, Threads, SpecInv
<1>1. CASE crd' = crd
  BY <1>1 DEF SameRecords
<1>2. CASE PatchCrd(t) /\ crd[work[t].at] # NoCrd
  <2> DEFINE n == work[t].at
             c == [crd[n] EXCEPT !.spec = work[t].seen[n].spec, !.rules = work[t].seen[n].rules]
  <2>1. crd' = [crd EXCEPT ![n] = c] /\ work[t].pc = "patch"
    BY <1>2 DEF PatchCrd, Is
  <2>2. n \in Policies /\ crd[n].spec = work[t].seen[n].spec
    BY <1>0, <1>2, <2>1 DEF Fresh
  <2>3. c.spec = crd[n].spec /\ c.sg = crd[n].sg /\ c.sg # None
    BY <1>0, <1>2, <2>2 DEF IsCrd, NoCrd, Record
  <2>4. c # NoCrd
    BY <2>3 DEF NoCrd
  <2> HIDE DEF c
  <2>5. crd'[n] = c /\ \A m \in Policies \ {n} : crd'[m] = crd[m]
    BY <1>0, <2>1, <2>2
  <2> QED BY <1>2, <2>2, <2>3, <2>4, <2>5 DEF SameRecords
<1> QED BY <1>1, <1>2 DEF EditStep, ListRecords, PatchCrd, EndPhase, EditRules

LEMMA EditFollows ==
    ASSUME NetworkPolicyAssumption, GroupsTraced, GroupInv, PodInv, SpecInv, FollowInv,
           NEW p \in Pods, EditStep(p)
    PROVE  FollowInv'
<1>0. Relied(p) /\ PortSound(p) /\ PutSound(p)
  BY PodRelies, PodFollowed
<1> USE <1>0 DEF Relied
<1>1. SameRecords
  BY PatchSame
<1>2. /\ UNCHANGED <<pod, np, groups>> /\ \A t \in Threads \ {p} : work'[t] = work[t]
  BY DEF EditStep, ListRecords, PatchCrd, EndPhase, EditRules, Goes
<1>3. /\ work'[p].pc \in {"next", "edit", "patch"}
      /\ work[p].todo \in Putting => work'[p].todo \in Putting
  <2>1. CASE ListRecords(p)
    BY <2>1 DEF ListRecords, IsWork, Idle
  <2>2. CASE PatchCrd(p)
    BY <2>2 DEF PatchCrd, Goes, IsWork, Idle
  <2>3. CASE EndPhase(p)
    <3>1. work' = [work EXCEPT ![p].pc = "next", ![p].todo = Tail(@)] /\ work[p].pc = "edit"
      BY <2>3 DEF EndPhase, Is
    <3>2. Tail(work[p].todo) \in Putting <=> work[p].todo \in Putting
      BY <3>1, PhasesEnd DEF Task
    <3>3. work'[p].pc = "next" /\ work'[p].todo = Tail(work[p].todo)
      BY <3>1 DEF IsWork, Idle
    <3> QED BY <3>2, <3>3
  <2>4. ASSUME NEW n \in Policies, EditRules(p, n)
        PROVE  work'[p].pc \in {"edit", "patch"} /\ work'[p].todo = work[p].todo
    <3> DEFINE kept == (work[p].seen[n].rules \ Taken(p, n)) \cup Given(p, n)
    <3>1. work[p].pc = "edit"
      BY <2>4 DEF EditRules, Is
    <3>2. CASE Taken(p, n) \cup Given(p, n) = {}
      <4>1. work' = [work EXCEPT ![p].left = @ \ {n}]
        BY <2>4, <3>2 DEF EditRules
      <4> QED BY <3>1, <4>1 DEF IsWork, Idle
    <3>3. CASE Taken(p, n) \cup Given(p, n) # {}
      <4>1. work' = [work EXCEPT ![p].left = @ \ {n}, ![p].seen[n].rules = kept,
                                 ![p].pc = "patch", ![p].at = n]
        BY <2>4, <3>3 DEF EditRules
      <4> HIDE DEF kept
      <4> QED BY <3>1, <4>1 DEF IsWork, Idle
    <3> QED BY <3>2, <3>3
  <2> QED BY <2>1, <2>2, <2>3, <2>4 DEF EditStep
<1>4. PortSound(p)' /\ PutSound(p)'
  BY <1>1, <1>2, <1>3, SoundStays
<1>5. \A g, l : View(p, g, l)' => View(p, g, l)
  BY <1>2, <1>3 DEF View, OwnToSet
<1>6. /\ \A n \in Policies : work'[n] = work[n]
      /\ \A q \in Pods \ {p} : pod'[q] = pod[q] /\ work'[q] = work[q]
  BY <1>2 DEF Threads
<1> QED BY <1>1, <1>2, <1>4, <1>5, <1>6, FollowOfPod

(* The handler fails: it keeps the groups to set, or the labels are others *)
(* than those noted, and an event is to come.                              *)
LEMMA FailureFollows ==
    ASSUME NetworkPolicyAssumption, GroupsTraced, GroupInv, PodInv, FollowInv, NEW p \in Pods,
           NotFound(p) \/ CallFails(p)
    PROVE  FollowInv'
<1>0. Relied(p) /\ PortSound(p) /\ PutSound(p)
  BY PodRelies, PodFollowed
<1> USE <1>0 DEF Relied
<1>1. UNCHANGED <<pod, np, crd, groups>>
  BY DEF NotFound, CallFails, ObjectPcs
<1>2. SameRecords
  BY <1>1 DEF SameRecords
<1>3. /\ \A t \in Threads \ {p} : work'[t] = work[t]
      /\ work'[p].pc \in {"idle", "failed", "next"}
      /\ \/ work[p].todo \in Putting => work'[p].todo \in Putting
         \/ pod[p].label # pod[p].noted \/ pod[p].leaving
  <2>1. CASE work' = [work EXCEPT ![p] = Again(p)]
    <3>1. /\ Again(p).pc \in {"idle", "next"}
          /\ work[p].todo \in Putting => Again(p).todo \in Putting
      BY PhasesAgain DEF Idle, Task
    <3> QED BY <2>1, <3>1
  <2>2. CASE /\ ~Forgettable(p)
             /\ GivenUp(p)
    <3>1. \A t \in Threads \ {p} : work'[t] = work[t]
      BY <2>2 DEF GivenUp
    <3>2. work'[p].pc = "failed"
      BY <2>2 DEF GivenUp, Idle
    <3>3. work[p].todo = <<>> \/ pod[p].label # pod[p].noted \/ pod[p].leaving
      BY <2>2 DEF Forgettable, GroupsTraced, GroupsInOrder
    <3> QED BY <3>1, <3>2, <3>3, NothingToDo
  <2>3. CASE NotFound(p)
    <3>1. /\ \A t \in Threads \ {p} : work'[t] = work[t]
          /\ work'[p].pc \in {"idle", "failed"}
      <4>1. work' = [work EXCEPT ![p] = Idle] \/ work' = [work EXCEPT ![p] = [Idle EXCEPT !.pc = "failed"]]
        BY <2>3 DEF NotFound, Ends, GivenUp
      <4>2. Idle.pc = "idle" /\ [Idle EXCEPT !.pc = "failed"].pc = "failed"
        BY DEF Idle
      <4> QED BY <4>1, <4>2
    <3>2. work[p].pc \in {"idle", "failed"} => work[p].todo \notin Putting
      BY NothingToDo DEF Task
    <3>3. ASSUME work[p].pc = "edit", NEW n \in work[p].left, work[p].seen[n].sg \notin groups
          PROVE  pod[p].label # pod[p].noted \/ pod[p].leaving
      BY <3>3 DEF Reading
    <3>4. ASSUME work[p].pc = "put", ~(work[p].left \subseteq groups \cup {Default})
          PROVE  pod[p].label # pod[p].noted \/ pod[p].leaving
      BY <3>4 DEF PutSound
    <3>5. work[p].pc # "pods"
      BY DEF ObjectPcs
    <3> QED BY <2>3, <3>1, <3>2, <3>3, <3>4, <3>5 DEF NotFound, Is, Ready
  <2> QED BY <2>1, <2>2, <2>3 DEF CallFails
<1>4. PortSound(p)' /\ PutSound(p)'
  BY <1>1, <1>2, <1>3, SoundStays
<1>5. \A g, l : View(p, g, l)' => View(p, g, l)
  BY <1>1, <1>3 DEF View, OwnToSet
<1>6. /\ \A n \in Policies : work'[n] = work[n]
      /\ \A q \in Pods \ {p} : pod'[q] = pod[q] /\ work'[q] = work[q]
  BY <1>1, <1>3 DEF Threads
<1> QED BY <1>1, <1>2, <1>4, <1>5, <1>6, FollowOfPod

LEMMA SpaceFollows ==
    ASSUME NetworkPolicyAssumption, GroupsTraced, GroupInv, SpecInv, FollowInv, NEW s \in Spaces,
           SpaceStep(s) \/ CallFails(s)
    PROVE  FollowInv'
<1>0. /\ s \in Threads /\ s \notin Pods /\ s \notin Policies /\ work[s].pc \in ObjectPcs
      /\ Pods \cup Policies \subseteq Threads /\ DOMAIN work = Threads
  BY DEF GroupInv, Shapes, Pcs, Threads, NetworkPolicyAssumption
<1> USE <1>0
<1>1. CASE EditStep(s)
  <2>1. SameRecords
    BY <1>1, PatchSame
  <2>2. /\ UNCHANGED <<pod, np, groups>> /\ \A t \in Threads \ {s} : work'[t] = work[t]
    BY <1>1 DEF EditStep, ListRecords, PatchCrd, EndPhase, EditRules, Goes
  <2>3. /\ \A n \in Policies : work'[n] = work[n]
        /\ \A q \in Pods \ {s} : pod'[q] = pod[q] /\ work'[q] = work[q]
    BY <2>2
  <2> QED BY <2>1, <2>2, <2>3, FollowOfPod
<1>2. CASE \/ SpaceRelabelled(s) \/ NoteLabels(s) \/ SpaceDeleted(s) \/ RemoveFinalizer(s)
           \/ NotFound(s) \/ CallFails(s)
  <2>1. UNCHANGED <<pod, np, crd, groups>> /\ \A t \in Threads \ {s} : work'[t] = work[t]
    <3>1. CASE SpaceRelabelled(s) \/ NoteLabels(s) \/ SpaceDeleted(s) \/ RemoveFinalizer(s)
      BY <3>1 DEF SpaceRelabelled, NoteLabels, SpaceDeleted, RemoveFinalizer, Ends, Does
    <3>2. CASE NotFound(s) \/ CallFails(s)
      BY <3>2 DEF NotFound, CallFails, ObjectPcs, GivenUp, Ends
    <3> QED BY <1>2, <3>1, <3>2
  <2>2. SameRecords
    BY <2>1 DEF SameRecords
  <2> QED BY <2>1, <2>2, FollowOfPod
<1> QED BY <1>1, <1>2 DEF SpaceStep

(* Users: a pod that is relabelled again had its labels taken up, by a     *)
(* handler that has the groups to set, or they were those noted.           *)
LEMMA UsersFollow ==
    ASSUME NetworkPolicyAssumption, GroupsTraced, GroupInv, PodInv, FollowInv,
           Users \/ (\E p \in Pods : PodRuns(p)) \/ UNCHANGED vars
    PROVE  FollowInv'
<1>1. ASSUME NEW p \in Pods,
             \/ \E l \in Labels : CreatePod(p, l) \/ RelabelPod(p, l)
             \/ DeletePod(p) \/ PodRuns(p)
      PROVE  FollowInv'
  <2>0. Relied(p) /\ PortSound(p) /\ PutSound(p)
    BY PodRelies, PodFollowed
  <2> USE <2>0 DEF Relied
  <2>1. /\ UNCHANGED <<work, np, crd, groups>>
        /\ \A q \in Pods \ {p} : pod'[q] = pod[q]
    BY <1>1 DEF CreatePod, RelabelPod, DeletePod, PodRuns
  <2>2. SameRecords
    BY <2>1 DEF SameRecords
  <2> SUFFICES /\ PortSound(p)' /\ PutSound(p)'
               /\ \A g, l : View(p, g, l)' => View(p, g, l)
    BY <2>1, <2>2, FollowOfPod
  <2>3. ASSUME NEW l \in Labels, CreatePod(p, l)
        PROVE  /\ PortSound(p)' /\ PutSound(p)'
               /\ \A g, m : View(p, g, m)' => View(p, g, m)
    <3>1. work[p].pc = "idle" /\ pod'[p].st = "new" /\ pod'[p].groups = {}
      BY <2>3 DEF CreatePod, Is
    <3> QED BY <2>1, <2>2, <3>1, SoundStays DEF View, OwnToSet
  <2>4. ASSUME NEW l \in Labels, RelabelPod(p, l)
        PROVE  /\ PortSound(p)' /\ PutSound(p)'
               /\ \A g, m : View(p, g, m)' => View(p, g, m)
    <3>1. /\ pod' = [pod EXCEPT ![p].label = l]
          /\ pod[p].st # "out" /\ l # pod[p].label
          /\ pod[p].label = TakenUp(p, pod[p].noted) /\ ~Doomed(p)
      BY <2>4 DEF RelabelPod, MayChange, GroupsTraced, GroupsInOrder
    <3>2. /\ pod'[p].st = pod[p].st /\ pod'[p].groups = pod[p].groups /\ pod'[p].label = l
          /\ pod'[p].noted = pod[p].noted /\ pod'[p].leaving = pod[p].leaving
      BY <3>1
    <3>3. work[p].pc = "put" => work[p].left \subseteq groups \cup {Default}
      BY <3>1 DEF Doomed, Is
    <3>4. PortSound(p)' /\ PutSound(p)'
      BY <2>1, <2>2, <3>2, <3>3, SoundStays
    <3>5. pod[p].st = "new" \/ work[p].todo \in Putting \/ pod[p].label = pod[p].noted
      BY <3>1 DEF Task, TakenUp
    <3>6. OwnToSet(p)'
      BY <2>1, <3>1, <3>2, <3>5 DEF OwnToSet
    <3> QED BY <2>1, <3>2, <3>4, <3>6 DEF View
  <2>5. CASE DeletePod(p)
    <3>1. pod' = [pod EXCEPT ![p].leaving = TRUE]
      BY <2>5 DEF DeletePod
    <3>2. pod'[p].leaving /\ pod'[p].st = pod[p].st /\ pod'[p].groups = pod[p].groups
      BY <3>1
    <3> QED BY <2>1, <2>2, <3>2, SoundStays DEF View, OwnToSet
  <2>6. CASE PodRuns(p)
    <3>1. pod' = [pod EXCEPT ![p].st = "running"] /\ pod[p].st = "active"
      BY <2>6 DEF PodRuns
    <3>2. /\ pod'[p].leaving = pod[p].leaving /\ pod'[p].groups = pod[p].groups
          /\ pod'[p].label = pod[p].label /\ pod'[p].noted = pod[p].noted
      BY <3>1
    <3>3. PortSound(p)' /\ PutSound(p)'
      <4>1. work[p].pc = "put" => \/ work[p].left \subseteq groups \cup {Default}
                                  \/ pod[p].label # pod[p].noted \/ pod[p].leaving
        BY DEF PutSound
      <4> QED BY <2>1, <2>2, <3>1, <3>2, <4>1, SoundStays
    <3> QED BY <2>1, <3>1, <3>2, <3>3 DEF View, OwnToSet
  <2> QED BY <1>1, <2>3, <2>4, <2>5, <2>6
<1>2. CASE \/ \E s \in Spaces, l \in Labels : RelabelSpace(s, l)
           \/ \E s \in Spaces : DeleteSpace(s)
           \/ \E n \in Policies, spec \in Specs : PutPolicy(n, spec)
           \/ \E n \in Policies : DeletePolicy(n)
           \/ UNCHANGED vars
  <2>1. UNCHANGED <<work, crd, groups, pod>>
    BY <1>2 DEF RelabelSpace, DeleteSpace, PutPolicy, DeletePolicy, vars
  <2>2. \A n \in Policies : np'[n].ev = np[n].ev \/ np'[n].ev # "none"
    <3>0. DOMAIN np = Policies /\ \A n \in Policies : IsNp(np[n])
      BY DEF GroupInv, Shapes
    <3>1. ASSUME NEW n \in Policies, NEW spec \in Specs, PutPolicy(n, spec)
          PROVE  \A m \in Policies : np'[m].ev = np[m].ev \/ np'[m].ev # "none"
      <4>1. np' = [np EXCEPT ![n] = [live |-> TRUE, spec |-> spec, ev |-> "present"]]
        BY <3>1 DEF PutPolicy
      <4> QED BY <3>0, <4>1
    <3>2. ASSUME NEW n \in Policies, DeletePolicy(n)
          PROVE  \A m \in Policies : np'[m].ev = np[m].ev \/ np'[m].ev # "none"
      <4>1. np' = [np EXCEPT ![n].live = FALSE, ![n].ev = "deleted"]
        BY <3>2 DEF DeletePolicy
      <4> QED BY <3>0, <4>1 DEF IsNp
    <3> QED BY <1>2, <3>1, <3>2 DEF RelabelSpace, DeleteSpace, vars
  <2>3. SameRecords
    BY <2>1 DEF SameRecords
  <2>4. \A p \in Pods : PortSound(p)' /\ PutSound(p)'
    BY <2>1 DEF FollowInv, PortSound, PutSound, Known, Recorded
  <2>5. ASSUME NEW p \in Pods, NEW g, NEW l, View(p, g, l)' PROVE Follows(p, g, l)'
    <3>1. View(p, g, l)
      BY <2>1, <2>5 DEF View, OwnToSet
    <3>2. Follows(p, g, l)
      BY <3>1 DEF FollowInv, PodFollows
    <3> QED BY <2>1, <2>2, <2>3, <3>2, CleanStays DEF Follows, SameRecords
  <2>6. \A n \in Recorded' : crd'[n].sg \in Groups
    BY <2>1 DEF FollowInv, Recorded
  <2> QED BY <2>4, <2>5, <2>6 DEF FollowInv, PodFollows
<1> QED BY <1>1, <1>2 DEF Users

(* Every policy that is there comes again, and none is half-way through    *)
(* with a new selector.                                                    *)
LEMMA RestartFollows ==
    ASSUME NetworkPolicyAssumption, GroupsTraced, GroupInv, PodInv, FollowInv, Restart
    PROVE  FollowInv'
<1>1. /\ UNCHANGED <<crd, groups>> /\ \A t \in Threads : work'[t] = Idle
      /\ Idle.pc = "idle" /\ Pods \cup Policies \subseteq Threads
  BY DEF Restart, Idle, Threads
<1>2. ASSUME NEW p \in Pods
      PROVE  \/ pod'[p] = pod[p] /\ ~pod[p].leaving
             \/ pod'[p].st \in {"out", "new"} /\ pod'[p].groups = {}
  <2>1. DOMAIN pod[p] = {"st", "leaving", "label", "noted", "groups"}
    BY DEF PodInv, PodShapes
  <2>2. CASE pod[p].leaving
    <3>1. pod'[p] = [pod[p] EXCEPT !.st = "out", !.leaving = FALSE, !.groups = {}]
      BY <2>2 DEF Restart
    <3> QED BY <2>1, <3>1
  <2>3. CASE ~pod[p].leaving /\ pod[p].st = "new"
    <3>1. pod'[p] = [pod[p] EXCEPT !.groups = {}]
      BY <2>3 DEF Restart
    <3> QED BY <2>1, <2>3, <3>1
  <2>4. CASE ~pod[p].leaving /\ pod[p].st # "new"
    BY <2>4 DEF Restart
  <2> QED BY <2>2, <2>3, <2>4
<1>3. \A g : Known(g)' <=> Known(g)
  BY <1>1 DEF Known, Recorded
<1>4. ASSUME NEW p \in Pods PROVE PortSound(p)' /\ PutSound(p)'
  <2>1. PortSound(p)
    BY DEF FollowInv
  <2>2. PutSound(p)' /\ work'[p].pc = "idle"
    BY <1>1 DEF PutSound
  <2>3. PortSound(p)'
    BY <1>1, <1>2, <1>3, <2>1, <2>2 DEF PortSound, Whole
  <2> QED BY <2>2, <2>3
<1>5. ASSUME NEW p \in Pods, NEW g, NEW l, View(p, g, l)', NEW n \in Policies
      PROVE  Clean(n, p, g, l)'
  <2>1. ~OwnToSet(p)' /\ g = pod'[p].groups /\ l = pod'[p].label
    BY <1>1, <1>5 DEF View
  <2>2. pod'[p] = pod[p]
    BY <1>2, <2>1 DEF OwnToSet
  <2>3. work[p].todo \notin Putting
    <3>1. ~Forgettable(p) /\ ~pod[p].leaving /\ pod[p].label = pod[p].noted
      BY <1>1, <2>1, <2>2 DEF Restart, OwnToSet
    <3> QED BY <3>1, NothingToDo DEF Forgettable, GroupsTraced, GroupsInOrder
  <2>4. Follows(p, g, l)
    BY <2>1, <2>2, <2>3 DEF FollowInv, PodFollows, View, OwnToSet
  <2> SUFFICES ASSUME crd[n] # NoCrd PROVE Clean(n, p, g, l)'
    BY <1>1 DEF Clean
  <2>5. Clean(n, p, g, l) /\ (Sel(n, p, l)' <=> Sel(n, p, l))
    BY <1>1, <2>4 DEF Follows, Sel
  <2>6. ~Going(n, p, l)
    BY DEF Restart, Going
  <2>7. Coming(n, p, l)'
    <3>1. np[n].live
      BY DEF Restart, GroupsTraced, GroupsInOrder, NoLostGroup, GroupInv, Wanted, Want
    <3>2. np'[n].ev = "present"
      <4>1. IsNp(np[n])
        BY DEF GroupInv, Shapes
      <4> QED BY <3>1, <4>1 DEF Restart, IsNp
    <3> QED BY <1>1, <3>2 DEF Coming
  <2> QED BY <1>1, <2>5, <2>6, <2>7 DEF Clean
<1>6. \A n \in Recorded' : crd'[n].sg \in Groups
  BY <1>1 DEF FollowInv, Recorded
<1> QED BY <1>4, <1>5, <1>6 DEF FollowInv, PodFollows, Follows

LEMMA FollowStarts == Init => FollowInv
<1> SUFFICES ASSUME Init PROVE FollowInv
  OBVIOUS
<1>1. /\ \A t \in Threads : work[t] = Idle
      /\ Idle.pc = "idle" /\ Pods \cup Policies \subseteq Threads
      /\ \A n \in Policies : crd[n] = NoCrd
  BY DEF Init, Idle, Threads
<1>2. ASSUME NEW p \in Pods
      PROVE  \/ pod[p].groups = {} /\ pod[p].st = "out"
             \/ pod[p].groups = {Default}
  <2>1. PICK ls \in [Pods -> Labels], up \in SUBSET Pods :
            pod = [q \in Pods |-> [st |-> IF q \in up THEN "running" ELSE "out", leaving |-> FALSE,
                                   label |-> ls[q], noted |-> ls[q],
                                   groups |-> IF q \in up THEN {Default} ELSE {}]]
    BY DEF Init
  <2> QED BY <2>1
<1>3. \A p \in Pods : PortSound(p) /\ PutSound(p)
  BY <1>1, <1>2 DEF PortSound, PutSound, Whole
<1>4. \A p, g, l : Follows(p, g, l)
  BY <1>1 DEF Follows, Clean
<1>5. Recorded = {}
  BY <1>1 DEF Recorded
<1> QED BY <1>3, <1>4, <1>5 DEF FollowInv, PodFollows

(* A step of a policy's thread, the pods being as they were.               *)
LEMMA FollowOfPolicy ==
    ASSUME FollowInv, NEW n \in Policies,
           \A m \in Policies \ {n} : work'[m] = work[m] /\ np'[m] = np[m] /\ crd'[m] = crd[m],
           pod' = pod, \A p \in Pods : work'[p] = work[p],
           crd'[n] = NoCrd \/ crd'[n].sg \in Groups,
           \A g : Known(g) /\ g \in groups' => Known(g)',
           \A p \in Pods : \A g \in pod[p].groups : g \in groups => g \in groups',
           \A p \in Pods : work[p].pc = "put" =>
               /\ \A g \in work[p].left : g \in groups' => g \in groups
               /\ work[p].left \subseteq groups \cup {Default} =>
                     \/ work[p].left \subseteq groups' \cup {Default}
                     \/ pod[p].label # pod[p].noted \/ pod[p].leaving,
           \A p \in Pods : \A g, l : View(p, g, l) /\ Clean(n, p, g, l) => Clean(n, p, g, l)'
    PROVE  FollowInv'
<1>1. \A m \in Recorded' : crd'[m].sg \in Groups
  BY DEF FollowInv, Recorded
<1>2. ASSUME NEW p \in Pods PROVE PortSound(p)' /\ PutSound(p)'
  <2>1. PortSound(p) /\ PutSound(p) /\ work'[p] = work[p]
    BY DEF FollowInv
  <2>2. PortSound(p)'
    <3>1. \A g \in pod'[p].groups : g = Default \/ (g \in groups' /\ Known(g)')
      BY <2>1 DEF PortSound
    <3> QED BY <2>1, <3>1 DEF PortSound, Whole
  <2>3. PutSound(p)'
    <3> SUFFICES ASSUME work[p].pc = "put"
                 PROVE  PutSound(p)'
      BY <2>1 DEF PutSound
    <3>1. \A g \in work[p].left : g = Default \/ g \notin groups' \/ Known(g)'
      BY <2>1 DEF PutSound
    <3>2. \/ work[p].left \subseteq groups' \cup {Default}
          \/ pod[p].label # pod[p].noted \/ pod[p].leaving
      BY <2>1 DEF PutSound
    <3>3. Whole(work[p].left)
      BY <2>1 DEF PutSound
    <3> QED BY <2>1, <3>1, <3>2, <3>3 DEF PutSound, Whole
  <2> QED BY <2>2, <2>3
<1>3. ASSUME NEW p \in Pods, NEW g, NEW l, View(p, g, l)', NEW m \in Policies
      PROVE  Clean(m, p, g, l)'
  <2>1. View(p, g, l)
    BY <1>3 DEF View, OwnToSet
  <2>2. Clean(m, p, g, l)
    BY <2>1 DEF FollowInv, PodFollows, Follows
  <2>3. CASE m = n
    BY <2>1, <2>2, <2>3
  <2>4. CASE m # n
    BY <2>2, <2>4, CleanStays
  <2> QED BY <2>3, <2>4
<1> QED BY <1>1, <1>2, <1>3 DEF FollowInv, PodFollows, Follows

(* What a view shows of groups that exist is recorded.                     *)
LEMMA ViewKnown ==
    ASSUME NetworkPolicyAssumption, GroupInv, FollowInv, NEW p \in Pods, NEW g, NEW l, View(p, g, l),
           NEW x \in groups, x \in g
    PROVE  Known(x)
<1>1. x # Default
  BY DEF GroupInv, Held, NetworkPolicyAssumption
<1> QED BY <1>1 DEF View, FollowInv, PortSound, PutSound

(* A group that is being given to a policy is not recorded.                *)
LEMMA NotKnown ==
    ASSUME GroupInv, NEW n \in Policies, work[n].pc \in Creating
    PROVE  work[n].sg \in groups /\ ~Known(work[n].sg)
<1>1. crd[n] = NoCrd /\ work[n].sg \in groups
  BY DEF GroupInv, Stages, Stage
<1>2. ASSUME NEW m \in Recorded PROVE crd[m].sg # work[n].sg
  <2>1. n # m /\ Holds(n) /\ Holds(m) /\ ItsGroup(n) = work[n].sg /\ ItsGroup(m) = crd[m].sg
    BY <1>1 DEF Holds, ItsGroup, Recorded
  <2> QED BY <2>1 DEF GroupInv, Apart, Recorded
<1> QED BY <1>1, <1>2 DEF Known

(* The policy is still to go through the pods, and has taken its group off *)
(* those that it does not select.                                          *)
LEMMA StillComing ==
    ASSUME NEW n \in Policies, crd'[n] = crd[n],
           \/ work'[n].pc \notin {"list", "pods"} /\ np'[n].ev # "none"
           \/ work'[n].pc = "pods" /\ work'[n].at = "delete",
           \/ work[n].pc \notin {"list", "pods"} \/ ~NewSelector(n)
           \/ work[n].pc = "pods" /\ work[n].left = {},
           NEW p, NEW g, NEW l, Clean(n, p, g, l)
    PROVE  Clean(n, p, g, l)'
<1>1. Coming(n, p, l)'
  BY DEF Coming
<1>2. ~Going(n, p, l)
  BY DEF Going
<1>3. Sel(n, p, l)' <=> Sel(n, p, l)
  BY DEF Sel
<1> QED BY <1>1, <1>2, <1>3 DEF Clean

(* Up to the record, and the record.                                       *)
LEMMA RecordFollows ==
    ASSUME NetworkPolicyAssumption, GroupsTraced, GroupInv, PodInv, SpecInv, FollowInv,
           NEW n \in Policies,
           \/ NoNeed(n) \/ CreateGroup(n) \/ ParsePolicy(n) \/ CreateRules(n) \/ PostCrd(n)
           \/ ReadCrd(n) \/ DeleteRules(n) \/ StoreRules(n)
    PROVE  FollowInv'
<1>0. /\ n \in Threads /\ n \notin Pods /\ Pods \cup Policies \subseteq Threads
      /\ DOMAIN work = Threads /\ DOMAIN crd = Policies
      /\ IsWork(work[n]) /\ IsCrd(crd[n]) /\ work[n].pc \in PolicyPcs
      /\ Stage(n) /\ Want(n) /\ Record(n) /\ None # "delete"
      /\ Updates(n) /\ groups \subseteq Groups
      /\ crd[n] # NoCrd => crd[n].sg \in Groups
  BY Relies DEF NetworkPolicyAssumption, SpecInv, Threads, GroupInv, Held, FollowInv, Recorded
<1> USE <1>0
<1> DEFINE CleanToo == \A p \in Pods : \A g, l : View(p, g, l) /\ Clean(n, p, g, l) => Clean(n, p, g, l)'
<1>1. CASE CreateGroup(n)
  <2> DEFINE x == CHOOSE y \in Groups \ Referred : TRUE
  <2>1. /\ \A t \in Threads \ {n} : work'[t] = work[t]
        /\ UNCHANGED <<pod, np, crd>> /\ groups' = groups \cup {x} /\ crd[n] = NoCrd
        /\ Groups \ Referred # {}
    BY <1>1 DEF CreateGroup
  <2>2. x \notin Referred
    BY <2>1
  <2> HIDE DEF x
  <2>3. \A p \in Pods : work[p].pc = "put" => x \notin work[p].left
    BY <2>2 DEF Referred, Is
  <2>4. \A g : Known(g) => Known(g)'
    BY <2>1 DEF Known, Recorded
  <2>5. CleanToo
    BY <2>1 DEF Clean
  <2>6. \A p \in Pods : work[p].pc = "put" =>
            /\ \A g \in work[p].left : g \in groups' => g \in groups
            /\ work[p].left \subseteq groups \cup {Default} =>
                  \/ work[p].left \subseteq groups' \cup {Default}
                  \/ pod[p].label # pod[p].noted \/ pod[p].leaving
    BY <2>1, <2>3
  <2>7. /\ \A m \in Policies \ {n} : work'[m] = work[m]
        /\ \A p \in Pods : work'[p] = work[p]
    BY <2>1
  <2> HIDE DEF CleanToo
  <2> QED BY <2>1, <2>4, <2>5, <2>6, <2>7, FollowOfPolicy DEF CleanToo
<1> DEFINE Plain == /\ \A t \in Threads \ {n} : work'[t] = work[t]
                    /\ UNCHANGED <<pod, np, groups>>
                    /\ \A m \in Policies \ {n} : crd'[m] = crd[m]
                    /\ crd'[n] = crd[n] \/ crd'[n].sg \in Groups
                    /\ crd[n] # NoCrd => crd'[n] # NoCrd /\ crd'[n].sg = crd[n].sg
                    /\ CleanToo
<1>2. ASSUME Plain PROVE FollowInv'
  <2>1. \A g : Known(g) => Known(g)'
    BY <1>2 DEF Known, Recorded
  <2>2. /\ \A m \in Policies \ {n} : work'[m] = work[m]
        /\ \A p \in Pods : work'[p] = work[p]
    BY <1>2
  <2> HIDE DEF CleanToo
  <2> QED BY <1>2, <2>1, <2>2, FollowOfPolicy DEF CleanToo
<1> SUFFICES ASSUME ~CreateGroup(n) PROVE Plain
  BY <1>1, <1>2
<1>3. CASE NoNeed(n)
  <2>1. /\ \A t \in Threads \ {n} : work'[t] = work[t]
        /\ UNCHANGED <<pod, np, crd, groups>> /\ work[n].pc = "again" /\ ~np[n].live
        /\ work'[n].pc = "idle"
    BY <1>3 DEF NoNeed, Is, Ends, Idle
  <2>2. CASE crd[n] = NoCrd
    BY <2>1, <2>2 DEF Clean
  <2>3. CASE crd[n] # NoCrd
    <3>1. np'[n].ev # "none"
      BY <2>1, <2>3 DEF Want
    <3>2. CleanToo
      BY <2>1, <3>1, StillComing
    <3> QED BY <2>1, <3>2
  <2> QED BY <2>2, <2>3
<1>4. CASE ParsePolicy(n) \/ (CreateRules(n) /\ work[n].pc = "rules")
  <2>1. /\ \A t \in Threads \ {n} : work'[t] = work[t]
        /\ UNCHANGED <<pod, np, crd, groups>> /\ work[n].pc \in Creating
    BY <1>4 DEF ParsePolicy, CreateRules, Goes, Is, Creating
  <2>2. crd[n] = NoCrd
    BY <2>1 DEF Stage
  <2> QED BY <2>1, <2>2 DEF Clean
<1>5. CASE (CreateRules(n) /\ work[n].pc = "create") \/ DeleteRules(n) \/ ReadCrd(n)
  <2>1. /\ \A t \in Threads \ {n} : work'[t] = work[t]
        /\ UNCHANGED <<pod, np, crd, groups>>
        /\ work[n].pc \in {"create", "delete", "again", "idle", "failed"}
        /\ work'[n].pc \in {"store", "create", "delete"}
    <3>1. CASE CreateRules(n) /\ work[n].pc = "create"
      BY <3>1 DEF CreateRules, Goes, Is, IsWork, Idle
    <3>2. CASE DeleteRules(n)
      BY <3>2 DEF DeleteRules, Goes, Is, IsWork, Idle
    <3>3. CASE ReadCrd(n)
      BY <3>3 DEF ReadCrd, Handles, Ready, Is, Idle
    <3> QED BY <1>5, <3>1, <3>2, <3>3
  <2>2. np[n].ev # "none"
    BY <1>5, <2>1 DEF Updates, DeleteRules, ReadCrd, Handles, Is
  <2>3. CleanToo
    BY <2>1, <2>2, StillComing
  <2> QED BY <2>1, <2>3
<1>6. CASE PostCrd(n)
  <2>1. /\ \A t \in Threads \ {n} : work'[t] = work[t]
        /\ UNCHANGED <<pod, np, groups>> /\ work[n].pc \in Creating
        /\ work'[n].pc = "list" /\ crd'[n].sg = work[n].sg
        /\ \A m \in Policies \ {n} : crd'[m] = crd[m]
    BY <1>6 DEF PostCrd, Goes, Is, Creating, IsWork, Idle
  <2>2. work[n].sg \in groups /\ ~Known(work[n].sg) /\ crd[n] = NoCrd
    BY <2>1, NotKnown DEF Stage
  <2>3. ASSUME NEW p \in Pods, NEW g, NEW l, View(p, g, l) PROVE Clean(n, p, g, l)'
    <3>1. work[n].sg \notin g
      BY <2>2, <2>3, ViewKnown
    <3> QED BY <2>1, <3>1 DEF Clean, Coming
  <2> QED BY <2>1, <2>2, <2>3
<1>7. CASE StoreRules(n)
  <2>1. /\ \A t \in Threads \ {n} : work'[t] = work[t]
        /\ UNCHANGED <<pod, np, groups>> /\ work[n].pc = "store"
        /\ work'[n].pc = "list" /\ work'[n].seen = work[n].seen /\ work'[n].spec = work[n].spec
        /\ \A m \in Policies \ {n} : crd'[m] = crd[m]
    BY <1>7 DEF StoreRules, Goes, Is, IsWork, Idle
  <2>2. /\ crd[n] # NoCrd /\ work[n].seen[n] # NoCrd /\ work[n].seen[n].spec = crd[n].spec
    BY <2>1 DEF Stage, Updates
  <2>3. crd'[n].spec = work[n].spec /\ crd'[n].sg = crd[n].sg
    BY <1>7, <2>2 DEF StoreRules, IsCrd, NoCrd
  <2>4. crd'[n] # NoCrd
    BY <2>2, <2>3 DEF Record, NoCrd
  <2>5. ASSUME NEW p \in Pods, NEW g, NEW l, Clean(n, p, g, l) PROVE Clean(n, p, g, l)'
    <3>1. Coming(n, p, l)'
      BY <2>1 DEF Coming
    <3>2. ~Going(n, p, l)
      BY <2>1 DEF Going
    <3>3. Sel(n, p, l) /\ ~Sel(n, p, l)' => Going(n, p, l)'
      BY <2>1, <2>2, <2>3 DEF Sel, Going, NewSelector, GroupsTraced
    <3> QED BY <2>2, <2>3, <2>5, <3>1, <3>2, <3>3 DEF Clean
  <2> QED BY <2>1, <2>2, <2>3, <2>4, <2>5
<1> QED BY <1>3, <1>4, <1>5, <1>6, <1>7 DEF CreateRules, Is

(* A pod that has a port and the labels noted is listed by its labels.     *)
LEMMA IsListed ==
    ASSUME PodInv, NEW p \in Pods, ~OwnToSet(p), SpaceOf[p] = Home,
           NEW sel, Matches(sel, pod[p].label)
    PROVE  <<p, pod[p].label>> \in Selected(sel)
BY DEF PodInv, PodShapes, OwnToSet, Selected

(* Listing the pods.                                                       *)
LEMMA ListFollows ==
    ASSUME NetworkPolicyAssumption, GroupsTraced, GroupInv, PodInv, SpecInv, FollowInv,
           NEW n \in Policies, ListPods(n) \/ PolicyDeleted(n)
    PROVE  FollowInv'
<1>0. /\ n \in Threads /\ n \notin Pods /\ Pods \cup Policies \subseteq Threads
      /\ DOMAIN work = Threads /\ DOMAIN np = Policies
      /\ IsWork(work[n]) /\ IsNp(np[n]) /\ work[n].pc \in PolicyPcs
      /\ Stage(n) /\ None # "delete" /\ Updates(n)
      /\ crd[n] # NoCrd => crd[n].sg \in Groups
  BY Relies DEF NetworkPolicyAssumption, SpecInv, Threads, FollowInv, Recorded
<1> USE <1>0
<1> DEFINE CleanToo == \A p \in Pods : \A g, l : View(p, g, l) /\ Clean(n, p, g, l) => Clean(n, p, g, l)'
<1>1. /\ \A t \in Threads \ {n} : work'[t] = work[t]
      /\ UNCHANGED <<pod, crd, groups>> /\ \A m \in Policies \ {n} : np'[m] = np[m]
      /\ GroupsAlone(Pods)
  BY DEF ListPods, PolicyDeleted
<1>2. ASSUME CleanToo PROVE FollowInv'
  <2>1. \A g : Known(g) => Known(g)'
    BY <1>1 DEF Known, Recorded
  <2>2. /\ \A m \in Policies \ {n} : work'[m] = work[m]
        /\ \A p \in Pods : work'[p] = work[p]
    BY <1>1
  <2> HIDE DEF CleanToo
  <2> QED BY <1>1, <1>2, <2>1, <2>2, FollowOfPolicy DEF CleanToo
<1> SUFFICES CleanToo
  BY <1>2
<1>3. CASE ListPods(n)
  <2> DEFINE X == work[n].spec.sel
             Y == work[n].seen[n].spec.sel
  <2>1. /\ work[n].pc = "list" /\ work'[n].pc = "pods" /\ work'[n].at = work[n].at
        /\ work'[n].seen = work[n].seen /\ work'[n].spec = work[n].spec
    BY <1>3 DEF ListPods, Is, IsWork, Idle
  <2>2. Selected(X) \subseteq work'[n].left
    BY <1>3 DEF ListPods, Is, IsWork, Idle
  <2>3. NewSelector(n) => Selected(Y) \subseteq work'[n].left
    <3>1. CASE NewSelector(n)
      <4>1. ~(work[n].seen[n] = NoCrd \/ Y = X)
        BY <3>1 DEF NewSelector
      <4>2. work'[n].left = Selected(X) \cup Selected(Y)
        BY <1>3, <4>1 DEF ListPods, IsWork, Idle
      <4> QED BY <4>2
    <3> QED BY <3>1
  <2>4. crd[n].spec.sel = X /\ (NewSelector(n)' <=> NewSelector(n))
    BY <2>1 DEF Updates, Stage, NewSelector
  <2>5. ASSUME NEW p \in Pods, NEW g, NEW l, View(p, g, l), Clean(n, p, g, l)
        PROVE  Clean(n, p, g, l)'
    <3>1. ~OwnToSet(p) /\ l = pod[p].label
      BY <1>1, <2>5 DEF View, GroupsAlone, GroupsTraced, GroupsInOrder
    <3>2. Sel(n, p, l)' <=> Sel(n, p, l)
      BY <1>1 DEF Sel
    <3>3. Sel(n, p, l) => Coming(n, p, l)'
      BY <2>1, <2>2, <2>4, <3>1, IsListed DEF Sel, Coming
    <3>4. Going(n, p, l) => Going(n, p, l)'
      <4> SUFFICES ASSUME Going(n, p, l) PROVE Going(n, p, l)'
        OBVIOUS
      <4>1. SpaceOf[p] = Home /\ NewSelector(n) /\ Matches(Y, l)
        BY DEF Going
      <4>2. <<p, l>> \in work'[n].left
        BY <2>3, <3>1, <4>1, IsListed
      <4> QED BY <2>1, <2>4, <4>1, <4>2 DEF Going
    <3> QED BY <1>1, <2>5, <3>2, <3>3, <3>4 DEF Clean
  <2> HIDE DEF X, Y
  <2> QED BY <2>5
<1>4. CASE PolicyDeleted(n) /\ crd[n] = NoCrd
  BY <1>1, <1>4 DEF Clean
<1>5. CASE PolicyDeleted(n) /\ crd[n] # NoCrd
  <2> DEFINE w == [Idle EXCEPT !.pc = "pods", !.at = "delete", !.sg = crd[n].sg,
                               !.left = Selected(np[n].spec.sel)]
  <2>1. work' = [work EXCEPT ![n] = w] /\ w.pc = "pods" /\ w.at = "delete"
    BY <1>5 DEF PolicyDeleted, Idle
  <2>2. work[n].pc \notin {"list", "pods"}
    BY <1>5 DEF PolicyDeleted, Ready
  <2> HIDE DEF w
  <2>3. work'[n].pc = "pods" /\ work'[n].at = "delete"
    BY <2>1
  <2> QED BY <1>1, <2>2, <2>3, StillComing
<1> QED BY <1>3, <1>4, <1>5

(* The groups that a policy sets, which leave out its own when it is       *)
(* deleted.                                                                *)
LEMMA NewOnes ==
    ASSUME NetworkPolicyAssumption, GroupInv, FollowInv, NEW n \in Policies,
           work[n].pc = "pods", NEW p \in Pods, NEW l
    PROVE  /\ Whole(NewGroups(n, p, l))
           /\ \A g \in NewGroups(n, p, l) : g = Default \/ Known(g)
           /\ \A m \in Recorded : \/ m = n /\ work[n].at = "delete"
                                  \/ crd[m].sg \in NewGroups(n, p, l) <=> Sel(m, p, l)
           /\ work[n].at = "delete" => crd[n].sg \notin NewGroups(n, p, l)
<1> DEFINE all == GroupsFor(p, l)
           its == IF work[n].at = "delete" THEN all \ {work[n].sg} ELSE all
<1>1. NewGroups(n, p, l) = IF its = {} THEN {Default} ELSE its
  BY DEF NewGroups
<1>2. /\ \A m \in Recorded : crd[m].sg \in all <=> Sel(m, p, l)
      /\ Whole(all) /\ \A g \in all : g = Default \/ Known(g)
  BY LookedUp
<1>3. \A m \in Recorded : crd[m].sg # Default
  BY DEF FollowInv, NetworkPolicyAssumption
<1>4. /\ work[n].at = "delete" => n \in Recorded /\ work[n].sg = crd[n].sg
      /\ \A m \in Recorded : m # n /\ n \in Recorded => crd[m].sg # crd[n].sg
  BY DEF GroupInv, Stages, Stage, Apart, Recorded, Holds, ItsGroup
<1> HIDE DEF all
<1>5. CASE work[n].at = "delete"
  <2>1. its = all \ {crd[n].sg} /\ n \in Recorded
    BY <1>4, <1>5
  <2>2. \A m \in Recorded : m # n => (crd[m].sg \in its <=> Sel(m, p, l))
    BY <1>2, <1>4, <2>1
  <2> HIDE DEF its
  <2>3. CASE its = {}
    BY <1>1, <1>3, <1>5, <2>1, <2>2, <2>3 DEF Whole
  <2>4. CASE its # {}
    BY <1>1, <1>2, <1>3, <1>5, <2>1, <2>2, <2>4 DEF Whole
  <2> QED BY <2>3, <2>4
<1>6. CASE work[n].at # "delete"
  <2>1. its = all
    BY <1>6
  <2>2. its # {}
    BY <1>2, <2>1 DEF Whole
  <2> QED BY <1>1, <1>2, <1>6, <2>1, <2>2
<1> QED BY <1>5, <1>6

(* A pod gets its groups from a policy's thread.                           *)
LEMMA UpdateFollows ==
    ASSUME NetworkPolicyAssumption, GroupsTraced, GroupInv, PodInv, SpecInv, FollowInv,
           NEW n \in Policies, NEW q \in Pods, NEW k \in Labels, UpdatePod(n, q, k)
    PROVE  FollowInv'
<1>0. /\ n \in Threads /\ n \notin Pods /\ Pods \cup Policies \subseteq Threads
      /\ DOMAIN work = Threads /\ IsWork(work[n]) /\ Relied(q)
  BY Relies, PodRelies DEF NetworkPolicyAssumption, Threads
<1> DEFINE its == NewGroups(n, q, k)
<1>1. /\ UNCHANGED <<np, crd, groups>> /\ \A t \in Threads \ {n} : work'[t] = work[t]
      /\ work[n].pc = "pods" /\ work'[n].pc = "pods" /\ work'[n].at = work[n].at
      /\ work'[n].seen = work[n].seen /\ work'[n].spec = work[n].spec
      /\ work'[n].left = work[n].left \ {<<q, k>>}
      /\ <<q, k>> \in work[n].left
  BY <1>0 DEF UpdatePod, Is, IsWork, Idle
<1>2. /\ pod[q].st \in {"vif", "active", "running"} /\ its \subseteq groups \cup {Default}
      /\ pod'[q].groups = its /\ \A p \in Pods \ {q} : pod'[p] = pod[p]
      /\ pod'[q].st = pod[q].st /\ pod'[q].leaving = pod[q].leaving
      /\ pod'[q].label = pod[q].label /\ pod'[q].noted = pod[q].noted
  BY <1>0 DEF UpdatePod, Updatable, Relied
<1>3. /\ Whole(its) /\ \A g \in its : g = Default \/ Known(g)
      /\ \A m \in Recorded : \/ m = n /\ work[n].at = "delete"
                             \/ crd[m].sg \in its <=> Sel(m, q, k)
      /\ work[n].at = "delete" => crd[n].sg \notin its
  BY <1>1, NewOnes
<1> HIDE DEF its
<1>4. /\ Recorded' = Recorded /\ \A g : Known(g)' <=> Known(g)
      /\ \A p \in Pods : work'[p] = work[p] /\ work[p].pc # "put"
      /\ \A m \in Policies \ {n} : work'[m] = work[m]
      /\ work[q].pc # "annotate"
  BY <1>0, <1>1, <1>2 DEF Known, Recorded, PodInv, PutsAlone, Relied, Task
<1>5. ASSUME NEW p \in Pods PROVE PortSound(p)' /\ PutSound(p)'
  <2>1. PutSound(p)'
    BY <1>4 DEF PutSound
  <2>2. CASE p = q
    <3>1. \A g \in pod'[p].groups : g = Default \/ (g \in groups' /\ Known(g)')
      BY <1>1, <1>2, <1>3, <1>4, <2>2
    <3> QED BY <1>2, <1>3, <2>1, <2>2, <3>1 DEF PortSound, Whole
  <2>3. CASE p # q
    <3>1. PortSound(p) /\ pod'[p] = pod[p]
      BY <1>2, <2>3 DEF FollowInv
    <3> QED BY <1>1, <1>4, <2>1, <3>1 DEF PortSound, Whole
  <2> QED BY <2>2, <2>3
<1>6. ASSUME NEW p \in Pods, NEW g, NEW l, View(p, g, l)', NEW m \in Policies
      PROVE  Clean(m, p, g, l)'
  <2>1. CASE p # q
    <3>1. Clean(m, p, g, l)
      <4>1. View(p, g, l)
        BY <1>2, <1>4, <1>6, <2>1 DEF View, OwnToSet
      <4> QED BY <4>1 DEF FollowInv, PodFollows, Follows
    <3>2. CASE m = n
      <4>1. <<p, l>> \in work'[n].left <=> <<p, l>> \in work[n].left
        BY <1>1, <2>1
      <4>2. /\ Sel(n, p, l)' <=> Sel(n, p, l)
            /\ Coming(n, p, l)' <=> Coming(n, p, l)
            /\ Going(n, p, l)' <=> Going(n, p, l)
        BY <1>1, <4>1 DEF Sel, Coming, Going, NewSelector
      <4> QED BY <1>1, <3>1, <3>2, <4>2 DEF Clean
    <3>3. CASE m # n
      BY <1>1, <1>4, <3>1, <3>3, CleanStays
    <3> QED BY <3>2, <3>3
  <2>2. CASE p = q
    <3>1. ~OwnToSet(q) /\ g = its /\ l = pod[q].label
      BY <1>2, <1>4, <1>6, <2>2 DEF View, OwnToSet
    <3>2. l = k
      <4>1. AsListed(q, k)
        BY <1>1 DEF PodInv, Listing
      <4> QED BY <3>1, <4>1 DEF AsListed, OwnToSet
    <3>3. CASE m = n /\ work[n].at = "delete"
      <4>1. Coming(m, p, l)' /\ crd'[m].sg \notin g
        BY <1>1, <1>3, <3>1, <3>3 DEF Coming
      <4> QED BY <4>1 DEF Clean
    <3>4. CASE ~(m = n /\ work[n].at = "delete")
      <4>1. m \in Recorded => (crd[m].sg \in g <=> Sel(m, p, l))
        BY <1>3, <2>2, <3>1, <3>2, <3>4
      <4>2. Sel(m, p, l)' <=> Sel(m, p, l)
        BY <1>1 DEF Sel
      <4> QED BY <1>1, <4>1, <4>2 DEF Clean, Recorded
    <3> QED BY <3>3, <3>4
  <2> QED BY <2>1, <2>2
<1>7. \A m \in Recorded' : crd'[m].sg \in Groups
  BY <1>1, <1>4 DEF FollowInv
<1> QED BY <1>5, <1>6, <1>7 DEF FollowInv, PodFollows, Follows

(* The policy's thread ends or fails, or goes on to delete the group.      *)
LEMMA EndFollows ==
    ASSUME NetworkPolicyAssumption, GroupsTraced, GroupInv, PodInv, SpecInv, FollowInv,
           NEW n \in Policies,
           Updated(n) \/ DeleteGroup(n) \/ DeleteCrd(n) \/ NotFound(n) \/ CallFails(n)
    PROVE  FollowInv'
<1>0. /\ n \in Threads /\ n \notin Pods /\ n \notin Spaces /\ Pods \cup Policies \subseteq Threads
      /\ DOMAIN work = Threads /\ DOMAIN np = Policies /\ DOMAIN crd = Policies
      /\ IsWork(work[n]) /\ IsNp(np[n]) /\ work[n].pc \in PolicyPcs
      /\ Stage(n) /\ None # "delete" /\ Updates(n) /\ Unhindered(n)
      /\ groups \subseteq Groups /\ Default \notin Groups
      /\ crd[n] # NoCrd => crd[n].sg \in Groups
  BY Relies DEF NetworkPolicyAssumption, SpecInv, Threads, FollowInv, Recorded, GroupInv, Held
<1> USE <1>0
<1> DEFINE CleanToo == \A p \in Pods : \A g, l : View(p, g, l) /\ Clean(n, p, g, l) => Clean(n, p, g, l)'
           Kept == /\ \A g : Known(g) /\ g \in groups' => Known(g)'
                   /\ \A p \in Pods : \A g \in pod[p].groups : g \in groups => g \in groups'
                   /\ \A p \in Pods : work[p].pc = "put" =>
                         /\ \A g \in work[p].left : g \in groups' => g \in groups
                         /\ work[p].left \subseteq groups \cup {Default} =>
                               \/ work[p].left \subseteq groups' \cup {Default}
                               \/ pod[p].label # pod[p].noted \/ pod[p].leaving
           Over == /\ \A t \in Threads \ {n} : work'[t] = work[t]
                   /\ pod' = pod /\ \A m \in Policies \ {n} : crd'[m] = crd[m] /\ np'[m] = np[m]
                   /\ crd'[n] = crd[n] \/ crd'[n] = NoCrd
                   /\ Kept /\ CleanToo
<1>1. Over => FollowInv'
  <2> SUFFICES ASSUME Over PROVE FollowInv'
    OBVIOUS
  <2>1. /\ \A m \in Policies \ {n} : work'[m] = work[m]
        /\ \A p \in Pods : work'[p] = work[p]
        /\ crd'[n] = NoCrd \/ crd'[n].sg \in Groups
    OBVIOUS
  <2> HIDE DEF CleanToo
  <2> QED BY <2>1, FollowOfPolicy DEF CleanToo
<1> SUFFICES Over
  BY <1>1
<1>2. groups' = groups /\ crd' = crd => Kept
  BY DEF Known, Recorded
<1>3. ASSUME crd' = crd, work'[n].pc \notin {"list", "pods"}, np'[n].ev # "none",
             \/ work[n].pc \notin {"list", "pods"} \/ ~NewSelector(n)
             \/ work[n].pc = "pods" /\ work[n].left = {}
      PROVE  CleanToo
  BY <1>3, StillComing
<1>4. CASE Updated(n)
  <2>1. /\ UNCHANGED <<pod, crd, groups>> /\ \A t \in Threads \ {n} : work'[t] = work[t]
        /\ work[n].pc = "pods" /\ work[n].left = {} /\ \A m \in Policies \ {n} : np'[m] = np[m]
    BY <1>4 DEF Updated, Is, Goes, Ends
  <2>2. CASE work[n].at = "delete"
    <3>1. np' = np /\ work'[n].pc = "unuse"
      BY <1>4, <2>2 DEF Updated, Goes, IsWork, Idle
    <3>2. np'[n].ev # "none"
      BY <2>2, <3>1 DEF Stage
    <3>3. CleanToo
      BY <1>3, <2>1, <3>1, <3>2
    <3> QED BY <1>2, <2>1, <3>3
  <2>3. CASE work[n].at # "delete"
    <3>1. ASSUME NEW p \in Pods, NEW g, NEW l, Clean(n, p, g, l) PROVE Clean(n, p, g, l)'
      <4>1. ~Coming(n, p, l) /\ ~Going(n, p, l) /\ (Sel(n, p, l)' <=> Sel(n, p, l))
        BY <2>1, <2>3 DEF Coming, Going, Sel
      <4> QED BY <2>1, <3>1, <4>1 DEF Clean
    <3>2. CleanToo
      BY <3>1
    <3> QED BY <1>2, <2>1, <3>2
  <2> QED BY <2>2, <2>3
<1>5. CASE DeleteGroup(n)
  <2>1. /\ UNCHANGED <<pod, np, crd>> /\ work[n].pc = "unuse" /\ MayDeleteGroup(n)
        /\ \A t \in Threads \ {n} : work'[t] = work[t]
        /\ work'[n].pc \in {"idle", "uncrd"}
        /\ \/ groups' = groups
           \/ /\ groups' = groups \ {work[n].sg}
              /\ \A p \in Pods : work[n].sg \notin pod[p].groups
    BY <1>5 DEF DeleteGroup, Is, Ends, Goes, IsWork, Idle
  <2>2. np'[n].ev # "none"
    BY <2>1 DEF Stage
  <2>3. CleanToo
    BY <1>3, <2>1, <2>2
  <2>4. Kept
    <3>1. CASE groups' = groups
      BY <1>2, <2>1, <3>1
    <3>2. CASE work[n].sg \in groups /\ groups' = groups \ {work[n].sg}
      <4>1. \A t \in Threads : ~Forgettable(t)
        BY <2>1, <3>2 DEF MayDeleteGroup, GroupsTraced, GroupsInOrder
      <4>2. \A p \in Pods : work[p].pc = "put" => pod[p].label # pod[p].noted \/ pod[p].leaving
        <5> SUFFICES ASSUME NEW p \in Pods, work[p].pc = "put"
                     PROVE  pod[p].label # pod[p].noted \/ pod[p].leaving
          OBVIOUS
        <5>1. work[p].todo = <<"put">> /\ <<"put">> # <<>>
          BY DEF PodInv, Task
        <5>2. ~Forgettable(p)
          BY <4>1
        <5> QED BY <5>1, <5>2 DEF Forgettable, GroupsTraced, GroupsInOrder
      <4>3. \A g : Known(g) => Known(g)'
        BY <2>1 DEF Known, Recorded
      <4> QED BY <2>1, <3>2, <4>2, <4>3
    <3>3. work[n].sg \notin groups => groups \ {work[n].sg} = groups
      OBVIOUS
    <3> QED BY <2>1, <3>1, <3>2, <3>3
  <2> HIDE DEF CleanToo, Kept
  <2> QED BY <2>1, <2>3, <2>4
<1>6. CASE DeleteCrd(n)
  <2>1. /\ UNCHANGED <<pod, groups>> /\ \A t \in Threads \ {n} : work'[t] = work[t]
        /\ work[n].pc = "uncrd"
        /\ crd' = [crd EXCEPT ![n] = NoCrd] /\ np' = [np EXCEPT ![n].ev = "none"]
    BY <1>6 DEF DeleteCrd, Is, Ends
  <2>2. /\ crd'[n] = NoCrd /\ crd[n].sg \notin groups
        /\ \A m \in Policies \ {n} : crd'[m] = crd[m] /\ np'[m] = np[m]
    BY <2>1 DEF Stage
  <2>3. CleanToo
    BY <2>2 DEF Clean
  <2>4. Kept
    BY <2>1, <2>2 DEF Known, Recorded
  <2> HIDE DEF CleanToo, Kept
  <2> QED BY <2>1, <2>2, <2>3, <2>4
<1>7. CASE NotFound(n) \/ CallFails(n)
  <2>1. UNCHANGED <<pod, np, crd>> /\ work[n].pc \notin {"idle", "failed"}
    BY <1>7 DEF NotFound, CallFails, Is, PolicyPcs, Creating
  <2>2. \A t \in Threads \ {n} : work'[t] = work[t]
    BY <1>7 DEF NotFound, CallFails, Ends, GivenUp
  <2>3. work'[n].pc \in {"idle", "failed", "again"}
    <3>1. \/ work' = [work EXCEPT ![n] = Again(n)] \/ work' = [work EXCEPT ![n] = Idle]
          \/ work' = [work EXCEPT ![n] = [Idle EXCEPT !.pc = "failed"]]
      BY <1>7 DEF NotFound, CallFails, Ends, GivenUp
    <3>2. Again(n) = Idle \/ Again(n) = [Idle EXCEPT !.pc = "again", !.spec = work[n].spec]
      BY DEF Again
    <3>3. /\ Idle.pc = "idle"
          /\ [Idle EXCEPT !.pc = "again", !.spec = work[n].spec].pc = "again"
          /\ [Idle EXCEPT !.pc = "failed"].pc = "failed"
      BY DEF Idle
    <3>4. Again(n).pc \in {"idle", "again"}
      BY <3>2, <3>3
    <3> HIDE <3>2
    <3> QED BY <3>1, <3>3, <3>4
  <2>4. np'[n].ev # "none"
    BY <2>1 DEF Updates
  <2>5. work[n].pc \in {"list", "pods"} => ~NewSelector(n)
    <3>1. CASE CallFails(n)
      BY <3>1 DEF CallFails
    <3>2. CASE NotFound(n)
      <4> SUFFICES ASSUME work[n].pc \in {"list", "pods"}, NewSelector(n) PROVE FALSE
        OBVIOUS
      <4>1. work[n].pc = "pods" /\ \E x \in work[n].left : ~Updatable(n, x[1], x[2])
        BY <3>2 DEF NotFound, Is, Ready
      <4>2. PICK x \in work[n].left : ~Updatable(n, x[1], x[2])
        BY <4>1
      <4>3. x[1] \in Pods /\ x[2] \in Labels /\ x = <<x[1], x[2]>>
        BY <4>1 DEF Updates
      <4>4. /\ pod[x[1]].st \in {"vif", "active", "running"}
            /\ \A m \in Recorded : crd[m].sg \in groups
        BY <4>1, <4>2, <4>3 DEF Unhindered
      <4>5. \A g \in NewGroups(n, x[1], x[2]) : g = Default \/ Known(g)
        BY <4>1, <4>3, NewOnes
      <4>6. NewGroups(n, x[1], x[2]) \subseteq groups \cup {Default}
        BY <4>4, <4>5 DEF Known
      <4> QED BY <4>2, <4>4, <4>6 DEF Updatable
    <3> QED BY <1>7, <3>1, <3>2
  <2>6. CleanToo
    BY <1>3, <2>1, <2>3, <2>4, <2>5
  <2>7. Kept
    <3>1. CASE groups' = groups
      BY <1>2, <2>1, <3>1
    <3>2. CASE groups' # groups
      <4>1. groups' = groups \ {work[n].sg} /\ work[n].pc \in Creating
        BY <1>7, <3>2 DEF NotFound, CallFails, Creating
      <4>2. work[n].sg \in groups /\ ~Known(work[n].sg) /\ work[n].sg # Default
        BY <4>1, NotKnown
      <4>3. \A g : Known(g) => Known(g)'
        BY <2>1 DEF Known, Recorded
      <4>4. \A p \in Pods : /\ work[n].sg \notin pod[p].groups
                            /\ work[p].pc = "put" => work[n].sg \notin work[p].left
        BY <4>2 DEF FollowInv, PortSound, PutSound
      <4> QED BY <4>1, <4>3, <4>4
    <3> QED BY <3>1, <3>2
  <2> HIDE DEF CleanToo, Kept
  <2> QED BY <2>1, <2>2, <2>6, <2>7
<1> QED BY <1>4, <1>5, <1>6, <1>7

LEMMA FollowKeeps ==
    ASSUME GroupsTraced, GroupInv, PodInv, SpecInv, FollowInv, [Next]_vars
    PROVE  FollowInv'
<1> USE NetworkPolicyAssumption
<1>1. ASSUME NEW p \in Pods, PodStep(p) PROVE FollowInv'
  BY <1>1, VifFollows, HandlerFollows, GoingFollows, EditFollows, FailureFollows DEF PodStep
<1>2. ASSUME NEW s \in Spaces, SpaceStep(s) PROVE FollowInv'
  BY <1>2, SpaceFollows
<1>3. ASSUME NEW n \in Policies, PolicyStep(n) PROVE FollowInv'
  BY <1>3, RecordFollows, ListFollows, UpdateFollows, EndFollows DEF PolicyStep
<1>4. ASSUME NEW t \in Threads, CallFails(t) PROVE FollowInv'
  BY <1>4, FailureFollows, SpaceFollows, EndFollows DEF Threads
<1> QED BY <1>1, <1>2, <1>3, <1>4, UsersFollow, RestartFollows DEF Next

(* When nothing is under way, what a port's groups follow are the policies *)
(* that users have put last.                                               *)
LEMMA SettledFollow ==
    ASSUME NetworkPolicyAssumption, GroupInv, PodInv, SpecInv, FollowInv
    PROVE  GroupsFollow
<1> SUFFICES ASSUME Settled, NEW p \in Pods, pod[p].st = "running"
             PROVE  LET its == {crd[n].sg : n \in {m \in Policies :
                                    /\ np[m].live /\ SpaceOf[p] = Home
                                    /\ Matches(np[m].spec.sel, pod[p].label)}}
                    IN  pod[p].groups = IF its = {} THEN {Default} ELSE its
  BY DEF GroupsFollow
<1>1. /\ \A t \in Pods \cup Policies : work[t].pc = "idle"
      /\ \A n \in Policies : np[n].ev = "none"
      /\ ~pod[p].leaving /\ pod[p].label = pod[p].noted
  BY DEF Settled, Is, Threads
<1>2. View(p, pod[p].groups, pod[p].label)
  <2>1. work[p].todo \notin Putting
    BY <1>1, NothingToDo DEF PodInv, Task
  <2> QED BY <1>1, <2>1 DEF View, OwnToSet
<1>3. \A n \in Recorded : crd[n].sg \in pod[p].groups <=> Sel(n, p, pod[p].label)
  <2> SUFFICES ASSUME NEW n \in Recorded
               PROVE  crd[n].sg \in pod[p].groups <=> Sel(n, p, pod[p].label)
    OBVIOUS
  <2>1. Clean(n, p, pod[p].groups, pod[p].label)
    BY <1>2 DEF FollowInv, PodFollows, Follows, Recorded
  <2>2. ~Coming(n, p, pod[p].label) /\ ~Going(n, p, pod[p].label)
    BY <1>1 DEF Coming, Going, Recorded
  <2> QED BY <2>1, <2>2 DEF Clean, Recorded
<1>4. \A n \in Policies : /\ np[n].live <=> n \in Recorded
                          /\ np[n].live => crd[n].spec = np[n].spec
  BY <1>1 DEF GroupInv, Wanted, Want, SpecInv, Updates, Recorded
<1> DEFINE picks == {m \in Policies : /\ np[m].live /\ SpaceOf[p] = Home
                                      /\ Matches(np[m].spec.sel, pod[p].label)}
           its == {crd[n].sg : n \in picks}
<1>5. \A m \in Policies : m \in picks <=> m \in Recorded /\ Sel(m, p, pod[p].label)
  BY <1>4 DEF Sel
<1>6. picks \subseteq Recorded
  BY <1>5
<1> HIDE DEF picks
<1>7. \A g \in its : g \in pod[p].groups /\ g # Default
  BY <1>3, <1>5, <1>6 DEF FollowInv, NetworkPolicyAssumption, Recorded
<1>8. \A g \in pod[p].groups : g = Default \/ g \in its
  <2> SUFFICES ASSUME NEW g \in pod[p].groups, g # Default PROVE g \in its
    OBVIOUS
  <2>1. Known(g)
    BY DEF FollowInv, PortSound
  <2>2. PICK m \in Recorded : crd[m].sg = g
    BY <2>1 DEF Known
  <2>3. m \in picks
    BY <1>3, <1>5, <2>2 DEF Recorded
  <2> QED BY <2>2, <2>3
<1>9. Whole(pod[p].groups)
  BY DEF FollowInv, PortSound
<1>10. pod[p].groups = IF its = {} THEN {Default} ELSE its
  <2> HIDE DEF its
  <2> QED BY <1>7, <1>8, <1>9 DEF Whole
<1> QED BY <1>10 DEF picks

(* GroupsFollow, for any policies, pods, namespaces and groups, with all   *)
(* failures and restarts: once everything is handled each port has the     *)
(* groups of the policies that select its pod, and the default group if    *)
(* there are none (update_vif_sgs, in the handlers of policies and pods).  *)
THEOREM PortsFollowPolicies ==
    ASSUME GroupsTraced
    PROVE  Spec => []GroupsFollow
<1> DEFINE AllInv == GroupInv /\ PodInv /\ SpecInv /\ FollowInv
<1>1. Init => AllInv
  BY InitHolds, PodsStart, SpecsStart, FollowStarts
<1>2. AllInv /\ [Next]_vars => AllInv'
  BY NextKeeps, PodsKeep, SpecsKeep, FollowKeeps DEF GroupsTraced, GroupsInOrder
<1>3. AllInv => GroupsFollow
  BY SettledFollow, NetworkPolicyAssumption
<1> QED BY <1>1, <1>2, <1>3, PTL DEF Spec
=============================================================================

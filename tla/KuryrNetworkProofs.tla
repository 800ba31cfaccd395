------------------------- MODULE KuryrNetworkProofs -------------------------
(***************************************************************************)
(* Theorems of KuryrNetwork: types, that nothing of a namespace that has   *)
(* gone is left in Neutron, and that the rules follow its labels.          *)
(***************************************************************************)
EXTENDS KuryrNetwork, NestedPoolProofs

PartSet == {"net", "subnet", "router"}
States  == {"none", "live", "deleting"}
CRDType == [st : States, parts : SUBSET PartSet, spec : Nat, labels : Nat,
            populated : BOOLEAN, news : {"none", "ADDED", "MODIFIED"}]
Building  == {"build", "record", "rules", "labels", "populate", "populating"}
Finishing == {"finalize", "recycling", "detach", "subnet", "remove"}

NsTypeOK ==
    /\ ns \in [st : {"active", "terminating", "gone"}, labels : Nat, news : BOOLEAN]
    /\ nsWork \in [pc : {"idle", "again", "write"}, labels : Nat, found : BOOLEAN,
                   status : BOOLEAN, crdLabels : Nat]

NetTypeOK ==
    /\ crd \in CRDType
    /\ work \in [pc : {"idle", "again"} \cup Building \cup Finishing, obj : CRDType,
                 step : 1..3, todo : SUBSET Ports]
    /\ built \subseteq PartSet /\ rules \in Nat

NetTypes == TypeOK /\ NsTypeOK /\ NetTypeOK

(* All ports that something knows of, but the threads that fill.           *)
Named == trunk \cup available \cup existing \cup recyclable \cup recycler.todo \cup work.todo
         \cup {q \in Ports : q = recycler.port \/ \E p \in Pods : q \in Has(p)}

Created == {q \in Ports : vlan[q] # 0}

Attaching(f) == filler[f].pc = "attach"

(* The ports that a thread is about to attach are known to it alone.       *)
NewOnes ==
    /\ Named \subseteq Created
    /\ \A f \in Fillers : filler[f].new \subseteq Created
    /\ \A f \in Fillers : Attaching(f) => filler[f].new \cap Named = {}
    /\ \A f, g \in Fillers : f # g => filler[f].new \cap filler[g].new = {}

(* What is about to be deleted is detached.                                *)
Detached ==
    /\ trunk \subseteq ports
    /\ recycler.port \notin trunk /\ work.todo \cap trunk = {}

(* Ports are in a subnet; what there is in Neutron has a CRD, and the CRD  *)
(* a namespace.                                                            *)
NetStands ==
    /\ "subnet" \notin built => ports = {}
    /\ crd.st = "none" => crd.news = "none" /\ work = Idle /\ built = {} /\ rules = 0
    /\ work.pc = "remove" => built = {} /\ rules = 0
    /\ ns.st = "gone" => crd.st = "none"

(* A handler goes on with the event that it was called with.               *)
Handles ==
    /\ work.pc \in Building => work.obj.st = "live"
    /\ work.pc \in Finishing => work.obj.st = "deleting"
    /\ work.pc = "again" => work.obj.st # "none"

NetInv == NewOnes /\ Detached /\ NetStands /\ Handles

-----------------------------------------------------------------------------
(* Types.                                                                  *)

LEMMA NetConstants ==
    /\ NoCRD \in CRDType /\ NoCRD.st = "none"
    /\ NsIdle \in [pc : {"idle", "again", "write"}, labels : Nat, found : BOOLEAN,
                   status : BOOLEAN, crdLabels : Nat]
    /\ Idle \in [pc : {"idle", "again"} \cup Building \cup Finishing, obj : CRDType,
                 step : 1..3, todo : SUBSET Ports]
    /\ Idle.pc = "idle" /\ Idle.todo = {} /\ NsIdle.pc = "idle"
BY DEF NoCRD, CRDType, States, NsIdle, Idle, Building, Finishing

(* Users, and the thread of the namespace.                                 *)
NsSteps == Relabel \/ DeleteNamespace \/ DeleteCRD \/ NamespaceGone \/ NsThread

LEMMA NsTypes ==
    ASSUME NetTypes, NsSteps
    PROVE  NetTypes'
<1> USE DEF NetTypes, NsTypeOK, NetTypeOK
<1>1. CASE Relabel
  <2>1. PICK l \in Labels : ns' = [ns EXCEPT !.labels = l, !.news = TRUE]
    BY <1>1 DEF Relabel
  <2>2. TypeOK'
    BY <1>1 DEF Relabel, TypeOK, poolVars
  <2>3. l \in Nat
    BY LabelsAssumption
  <2>4. UNCHANGED <<crd, nsWork, work, built, rules>>
    BY <1>1 DEF Relabel
  <2> QED
    BY <2>1, <2>2, <2>3, <2>4
<1>2. CASE DeleteNamespace \/ NamespaceGone
  <2>1. TypeOK'
    BY <1>2 DEF DeleteNamespace, NamespaceGone, TypeOK, poolVars
  <2>2. /\ UNCHANGED <<crd, nsWork, work, built, rules>>
        /\ \E st \in {"terminating", "gone"}, news \in BOOLEAN :
              ns' = [ns EXCEPT !.st = st, !.news = news]
    BY <1>2 DEF DeleteNamespace, NamespaceGone
  <2> QED
    BY <2>1, <2>2
<1>3. CASE DeleteCRD
  <2>1. TypeOK'
    BY <1>3 DEF DeleteCRD, TypeOK, poolVars
  <2>2. crd' = [crd EXCEPT !.st = "deleting", !.news = "MODIFIED"]
    BY <1>3 DEF DeleteCRD
  <2>3. crd' \in CRDType
    <3>1. crd \in CRDType
      OBVIOUS
    <3> QED
      BY ONLY <2>2, <3>1 DEF CRDType, States
  <2>4. UNCHANGED <<ns, nsWork, work, built, rules>>
    BY <1>3 DEF DeleteCRD
  <2> QED
    BY <2>1, <2>3, <2>4
<1>4. CASE NsTake \/ NsAgain
  <2>1. TypeOK'
    BY <1>4 DEF NsTake, NsAgain, TypeOK, poolVars
  <2>2. \A l \in Nat : Looks(l) \in [pc : {"idle", "again", "write"}, labels : Nat,
                                     found : BOOLEAN, status : BOOLEAN, crdLabels : Nat]
    BY DEF Looks, CRDType
  <2>3. /\ UNCHANGED <<crd, work, built, rules>>
        /\ ns' = ns \/ ns' = [ns EXCEPT !.news = FALSE]
        /\ nsWork' = NsIdle \/ nsWork' = Looks(ns.labels) \/ nsWork' = Looks(nsWork.labels)
    BY <1>4 DEF NsTake, NsAgain
  <2>4. nsWork' \in [pc : {"idle", "again", "write"}, labels : Nat, found : BOOLEAN,
                     status : BOOLEAN, crdLabels : Nat]
    <3>1. ns.labels \in Nat /\ nsWork.labels \in Nat
      OBVIOUS
    <3> QED
      BY ONLY <2>2, <2>3, <3>1, NetConstants
  <2>5. ns' \in [st : {"active", "terminating", "gone"}, labels : Nat, news : BOOLEAN]
    BY <2>3
  <2> QED
    BY <2>1, <2>3, <2>4, <2>5
<1>5. CASE AddCRD
  <2>1. TypeOK'
    BY <1>5 DEF AddCRD, TypeOK, poolVars
  <2>2. crd' \in CRDType
    <3>1. crd' = crd \/ crd' = [NoCRD EXCEPT !.st = "live", !.spec = nsWork.labels, !.news = "ADDED"]
      BY <1>5 DEF AddCRD
    <3>2. nsWork.labels \in Nat /\ crd \in CRDType
      OBVIOUS
    <3> QED
      BY ONLY <3>1, <3>2, NetConstants DEF CRDType, States
  <2>3. nsWork' \in [pc : {"idle", "again", "write"}, labels : Nat, found : BOOLEAN,
                     status : BOOLEAN, crdLabels : Nat]
    <3>1. nsWork' = NsIdle \/ nsWork' = [NsIdle EXCEPT !.pc = "again", !.labels = nsWork.labels]
      BY <1>5 DEF AddCRD
    <3> QED
      BY <3>1, NetConstants
  <2>4. UNCHANGED <<ns, work, built, rules>>
    BY <1>5 DEF AddCRD
  <2> QED
    BY <2>1, <2>2, <2>3, <2>4
<1>6. CASE UpdateLabels
  <2>1. TypeOK'
    BY <1>6 DEF UpdateLabels, TypeOK, poolVars
  <2>2. crd' \in CRDType
    BY <1>6 DEF UpdateLabels, Patched, CRDType
  <2> QED
    BY <1>6, <2>1, <2>2, NetConstants DEF UpdateLabels
<1> QED
  BY <1>1, <1>2, <1>3, <1>4, <1>5, <1>6 DEF NsSteps, NsThread

(* What the handlers of the CRD are called with.                           *)
LEMMA Calls ==
    ASSUME NEW obj \in CRDType, obj.st # "none", crd.st # "none"
    PROVE  /\ Called(obj) \in [pc : {"idle", "again"} \cup Building \cup Finishing,
                               obj : CRDType, step : 1..3, todo : SUBSET Ports]
           /\ Called(obj).todo = {} /\ Called(obj).obj.st = obj.st
           /\ obj.st = "deleting" => Called(obj).pc = "finalize"
           /\ obj.st = "live" =>
                 /\ Called(obj).obj = obj
                 /\ \/ Called(obj).pc = "build"
                    \/ Called(obj).pc = "rules"
                    \/ Called(obj).pc = "populate" /\ obj.labels = obj.spec
<1> DEFINE missing == {i \in 1..3 : Parts[i] \notin obj.parts}
           at(pc) == [Idle EXCEPT !.pc = pc, !.obj = obj]
<1>1. Idle = [pc |-> "idle", obj |-> NoCRD, step |-> 1, todo |-> {}]
  BY DEF Idle
<1>2. CASE obj.st = "deleting"
  <2> DEFINE x == [NoCRD EXCEPT !.st = "deleting", !.parts = obj.parts]
  <2>1. Called(obj) = [at("finalize") EXCEPT !.obj = x]
    BY <1>2 DEF Called
  <2>2. x \in CRDType /\ x.st = "deleting"
    BY NetConstants DEF CRDType, States
  <2> HIDE DEF x
  <2>3. Called(obj) = [pc |-> "finalize", obj |-> x, step |-> 1, todo |-> {}]
    BY <1>1, <2>1
  <2>4. "finalize" \in Finishing
    BY DEF Finishing
  <2> QED
    BY <1>2, <2>2, <2>3, <2>4
<1>3. CASE obj.st = "live" /\ missing # {}
  <2> DEFINE s == CHOOSE i \in missing : missing \subseteq i..3
  <2>1. Called(obj) = [at("build") EXCEPT !.step = s]
    BY <1>3 DEF Called
  <2>2. \E i \in missing : missing \subseteq i..3
    <3>1. CASE 1 \in missing
      BY <3>1
    <3>2. CASE 1 \notin missing /\ 2 \in missing
      BY <3>2
    <3>3. CASE 1 \notin missing /\ 2 \notin missing
      <4>1. PICK i \in missing : TRUE
        BY <1>3
      <4>2. \A k \in missing : k = 3
        <5>1. \A k \in missing : k \in 1..3 /\ k # 1 /\ k # 2
          BY <3>3
        <5> HIDE DEF missing
        <5> QED
          BY <5>1
      <4> HIDE DEF missing
      <4> QED
        BY <4>1, <4>2
    <3> QED
      BY <3>1, <3>2, <3>3
  <2>3. s \in missing
    BY <2>2
  <2>4. s \in 1..3
    BY <2>3
  <2> HIDE DEF s
  <2> QED
    BY <1>1, <1>3, <2>1, <2>4 DEF Building
<1>4. CASE obj.st = "live" /\ missing = {}
  <2>1. Called(obj) = at(IF obj.labels # obj.spec THEN "rules" ELSE "populate")
    BY <1>4 DEF Called
  <2>2. ASSUME NEW pc \in Building, Called(obj) = at(pc)
        PROVE  /\ Called(obj) \in [pc : {"idle", "again"} \cup Building \cup Finishing,
                                   obj : CRDType, step : 1..3, todo : SUBSET Ports]
               /\ Called(obj).todo = {} /\ Called(obj).obj = obj /\ Called(obj).pc = pc
    <3>1. Called(obj) = [pc |-> pc, obj |-> obj, step |-> 1, todo |-> {}]
      BY <1>1, <2>2
    <3> QED
      BY <3>1
  <2>3. CASE obj.labels # obj.spec
    <3>1. Called(obj) = at("rules") /\ "rules" \in Building
      BY <2>1, <2>3 DEF Building
    <3> HIDE DEF at, missing
    <3> QED
      BY <1>4, <2>2, <2>3, <3>1
  <2>4. CASE obj.labels = obj.spec
    <3>1. Called(obj) = at("populate") /\ "populate" \in Building
      BY <2>1, <2>4 DEF Building
    <3> HIDE DEF at, missing
    <3> QED
      BY <1>4, <2>2, <2>4, <3>1
  <2> QED
    BY <2>3, <2>4
<1> QED
  BY <1>2, <1>3, <1>4 DEF CRDType, States

WorkType == [pc : {"idle", "again"} \cup Building \cup Finishing, obj : CRDType,
             step : 1..3, todo : SUBSET Ports]

LEMMA StepTypes ==
    ASSUME NEW w \in WorkType, NEW pc \in Building, NEW step \in 1..3
    PROVE  [w EXCEPT !.pc = pc, !.step = step] \in WorkType
BY DEF WorkType

LEMMA PatchTypes ==
    ASSUME NEW c \in CRDType, Patched(c)
    PROVE  crd' \in CRDType
BY DEF Patched, CRDType

LEMMA RetriedTypes ==
    ASSUME NetTypes, Retried
    PROVE  work' \in WorkType /\ work'.pc = "again" /\ work'.obj = work.obj /\ work'.todo = {}
BY NetConstants DEF Retried, NetTypes, NetTypeOK, WorkType, Idle

(* The handler that builds.                                                *)
BuildSteps == Take \/ RetryAgain \/ Build \/ Record \/ UpdateRules \/ RecordLabels

LEMMA BuildTypes ==
    ASSUME NetTypes, NetStands, Handles, BuildSteps
    PROVE  NetTypes'
<1> USE DEF NetTypes, NsTypeOK, NetTypeOK
<1>1. TypeOK' /\ NsTypeOK'
  <2>1. CASE Take \/ RetryAgain \/ Build
    BY <2>1 DEF Take, RetryAgain, Build, TypeOK, poolVars
  <2>2. CASE Record \/ UpdateRules \/ RecordLabels
    BY <2>2 DEF Record, UpdateRules, RecordLabels, TypeOK, poolVars
  <2> QED
    BY <2>1, <2>2 DEF BuildSteps
<1>2. CASE Take
  <2>1. crd \in CRDType /\ crd.st # "none"
    BY <1>2 DEF Take, NetStands
  <2>2. work' \in WorkType
    BY <1>2, <2>1, Calls DEF Take, WorkType
  <2>3. crd' \in CRDType
    BY <1>2 DEF Take, CRDType
  <2> QED
    BY <1>1, <1>2, <2>2, <2>3 DEF Take, WorkType
<1>3. CASE RetryAgain
  <2>1. work.obj \in CRDType /\ work.obj.st # "none" /\ crd.st # "none"
    BY <1>3, NetConstants DEF RetryAgain, NetStands, Handles
  <2>2. work' \in WorkType
    BY <1>3, <2>1, Calls DEF RetryAgain, WorkType
  <2> QED
    BY <1>1, <1>3, <2>2 DEF RetryAgain, WorkType
<1>4. CASE Build
  <2>1. work' \in WorkType
    BY <1>4, RetriedTypes DEF Build, WorkType, Building
  <2>2. Parts[work.step] \in PartSet
    BY DEF Parts, PartSet
  <2>3. built' \subseteq PartSet
    BY <1>4, <2>2 DEF Build
  <2> QED
    BY <1>1, <1>4, <2>1, <2>3 DEF Build, WorkType
<1>5. CASE Record
  <2>1. Parts[work.step] \in PartSet
    BY DEF Parts, PartSet
  <2>2. crd' \in CRDType
    <3> DEFINE b == crd.populated /\ work.step < 3
               c == [crd EXCEPT !.parts = @ \cup {Parts[work.step]}, !.populated = b]
    <3>1. b \in BOOLEAN
      OBVIOUS
    <3>2. Patched(c)
      BY <1>5 DEF Record
    <3> HIDE DEF b
    <3>3. c \in CRDType
      BY <2>1, <3>1 DEF CRDType
    <3> HIDE DEF c
    <3> QED
      BY <3>2, <3>3, PatchTypes
  <2>3. work' \in WorkType
    <3>1. \/ work.step + 1 \in 1..3 /\ work' = [work EXCEPT !.pc = "build", !.step = @ + 1]
          \/ work' = [work EXCEPT !.pc = "rules"]
      BY <1>5 DEF Record
    <3> QED
      BY <3>1 DEF WorkType, Building
  <2> QED
    BY <1>1, <1>5, <2>2, <2>3 DEF Record, WorkType
<1>6. CASE UpdateRules
  BY <1>1, <1>6 DEF UpdateRules, Building
<1>7. CASE RecordLabels
  <2>1. work.obj.spec \in Nat
    BY DEF CRDType
  <2>2. [crd EXCEPT !.labels = work.obj.spec] \in CRDType
    BY <2>1 DEF CRDType
  <2>3. crd' \in CRDType
    BY <1>7, <2>2, PatchTypes DEF RecordLabels
  <2> QED
    BY <1>1, <1>7, <2>3 DEF RecordLabels, Building
<1> QED
  BY <1>2, <1>3, <1>4, <1>5, <1>6, <1>7 DEF BuildSteps

(* The handler that fills the pool.                                        *)
LEMMA PopulateTypes ==
    ASSUME NetTypes, PopulateStart \/ Populate \/ Populated
    PROVE  NetTypes'
<1> USE DEF NetTypes, NsTypeOK, NetTypeOK
<1>1. \A b \in BOOLEAN : [crd EXCEPT !.populated = b] \in CRDType
  BY DEF CRDType
<1>2. CASE PopulateStart
  <2>1. TypeOK' /\ NsTypeOK'
    BY <1>2 DEF PopulateStart, TypeOK, poolVars
  <2>2. crd' \in CRDType
    BY <1>1, <1>2, PatchTypes DEF PopulateStart
  <2>3. work' \in WorkType
    <3>1. work' = Idle \/ work' = [work EXCEPT !.pc = "populating", !.step = 1]
      BY <1>2 DEF PopulateStart
    <3>2. Idle \in WorkType /\ work \in WorkType
      BY NetConstants DEF WorkType
    <3>3. [work EXCEPT !.pc = "populating", !.step = 1] \in WorkType
      <4>1. "populating" \in Building /\ 1 \in 1..3
        BY DEF Building
      <4> QED
        BY ONLY <3>2, <4>1, StepTypes
    <3> QED
      BY <3>1, <3>2, <3>3
  <2> QED
    BY <1>2, <2>1, <2>2, <2>3 DEF PopulateStart, WorkType
<1>3. CASE Populate
  <2>1. Reads(PoolMin) \in FillerType
    BY NestedPoolAssumption DEF Reads, FillerType, InUse, TypeOK
  <2>2. filler' \in [Fillers -> FillerType]
    BY <1>3, <2>1, Constants DEF Populate, Fill, TypeOK, FillerType
  <2>3. TypeOK' /\ NsTypeOK'
    BY <1>3, <2>2 DEF Populate, TypeOK, FillerType, neutron, tables
  <2>4. crd' \in CRDType
    BY <1>1, <1>3, PatchTypes DEF Populate
  <2>5. work' \in WorkType
    BY <1>3, NetConstants, RetriedTypes DEF Populate, WorkType
  <2> QED
    BY <1>3, <2>3, <2>4, <2>5 DEF Populate, WorkType
<1>4. CASE Populated
  <2>1. TypeOK' /\ NsTypeOK'
    BY <1>4 DEF Populated, TypeOK, poolVars
  <2> QED
    BY <1>4, <2>1, NetConstants DEF Populated
<1> QED
  BY <1>2, <1>3, <1>4

(* The handler that takes down.                                            *)
FinishSteps ==
    Finalize \/ RemoveSubports \/ DeletePoolPort \/ ForgetPool \/ DeleteSubnet \/ RemoveFinalizer

LEMMA FinishTypes ==
    ASSUME NetTypes, FinishSteps
    PROVE  NetTypes'
<1> USE DEF NetTypes, NsTypeOK, NetTypeOK
<1>1. CASE Finalize
  <2>1. TypeOK' /\ NsTypeOK'
    BY <1>1 DEF Finalize, Recycles, TypeOK, neutron, tables
  <2>2. work' \in WorkType
    BY <1>1, NetConstants, RetriedTypes DEF Finalize, WorkType, Finishing
  <2> QED
    BY <1>1, <2>1, <2>2 DEF Finalize, WorkType
<1>2. CASE RemoveSubports
  <2>1. TypeOK' /\ NsTypeOK'
    BY <1>2, Constants DEF RemoveSubports, TypeOK, tables
  <2>2. work' \in WorkType
    <3>1. \/ work' = [work EXCEPT !.pc = "detach", !.todo = available]
          \/ work' = [work EXCEPT !.pc = "subnet"]
      BY <1>2 DEF RemoveSubports
    <3>2. work \in WorkType /\ available \in SUBSET Ports
      BY DEF WorkType, TypeOK
    <3> QED
      BY ONLY <3>1, <3>2 DEF WorkType, Finishing
  <2> QED
    BY <1>2, <2>1, <2>2 DEF RemoveSubports, WorkType
<1>3. CASE DeletePoolPort
  <2>1. TypeOK' /\ NsTypeOK'
    BY <1>3 DEF DeletePoolPort, TypeOK
  <2> QED
    BY <1>3, <2>1 DEF DeletePoolPort
<1>4. CASE ForgetPool
  <2>1. TypeOK' /\ NsTypeOK'
    <3>1. available' = {} /\ opened' = FALSE
      BY <1>4 DEF ForgetPool
    <3>2. UNCHANGED <<neutron, recyclable, existing, recovered, pod, popped, filler, recycler,
                      freed, ns, nsWork>>
      BY <1>4 DEF ForgetPool
    <3>3. TypeOK'
      BY <3>1, <3>2 DEF TypeOK, neutron
    <3> QED
      BY <3>2, <3>3
  <2>2. UNCHANGED <<crd, built, rules>> /\ work' = [work EXCEPT !.pc = "subnet"]
    BY <1>4 DEF ForgetPool
  <2> QED
    BY <2>1, <2>2 DEF Finishing
<1>5. CASE DeleteSubnet
  <2>1. ports' = ports \/ ports' = trunk
    BY <1>5 DEF DeleteSubnet
  <2>2. TypeOK' /\ NsTypeOK'
    BY <1>5, <2>1 DEF DeleteSubnet, TypeOK, tables
  <2>3. work' \in WorkType
    BY <1>5, RetriedTypes DEF DeleteSubnet, WorkType, Finishing
  <2>4. built' \subseteq PartSet /\ rules' \in Nat
    BY <1>5 DEF DeleteSubnet
  <2> QED
    BY <1>5, <2>2, <2>3, <2>4 DEF DeleteSubnet, WorkType
<1>6. CASE RemoveFinalizer
  <2>1. TypeOK' /\ NsTypeOK'
    BY <1>6 DEF RemoveFinalizer, TypeOK, poolVars
  <2> QED
    BY <1>6, <2>1, NetConstants DEF RemoveFinalizer
<1> QED
  BY <1>1, <1>2, <1>3, <1>4, <1>5, <1>6 DEF FinishSteps

LEMMA RestartTypes ==
    ASSUME NetTypes, GiveUp \/ Restart
    PROVE  NetTypes'
<1> USE DEF NetTypes, NsTypeOK, NetTypeOK
<1>1. CASE GiveUp
  <2>1. TypeOK' /\ NsTypeOK'
    BY <1>1 DEF GiveUp, TypeOK, poolVars
  <2> QED
    BY <1>1, <2>1, NetConstants DEF GiveUp
<1>2. CASE Restart
  <2>1. TypeOK'
    BY <1>2, OtherTypes DEF Restart
  <2>2. NsTypeOK'
    <3> DEFINE b == ns.st \in {"active", "terminating"}
    <3>1. b \in BOOLEAN /\ ns' = [ns EXCEPT !.news = b] /\ nsWork' = NsIdle
      BY <1>2 DEF Restart
    <3> HIDE DEF b
    <3> QED
      BY <3>1, NetConstants
  <2>3. crd' \in CRDType
    BY <1>2 DEF Restart, CRDType
  <2> QED
    BY <1>2, <2>1, <2>2, <2>3, NetConstants DEF Restart
<1> QED
  BY <1>1, <1>2

(* The pool's own steps, with what a namespace changes of them.            *)
PoolSteps ==
    /\ \/ \E f \in Fillers : FillSteps(f)
       \/ Recycler \/ Recover
       \/ \E p \in Pods : CreatePod(p) \/ (DeletePod(p) /\ UNCHANGED alive) \/ PodThread(p)
    /\ UNCHANGED netVars

LEMMA PoolTypes ==
    ASSUME NetTypes, PoolSteps
    PROVE  NetTypes'
<1>1. TypeOK'
  BY PodTypes, FillTypesOf, OtherTypes DEF PoolSteps, NetTypes, FillSteps
<1> QED
  BY <1>1 DEF PoolSteps, netVars, NetTypes, NsTypeOK, NetTypeOK

-----------------------------------------------------------------------------
(* What the pool's own steps keep.                                         *)

(* No thread takes ports that it has not had.                              *)
FillersGoOn == \A f \in Fillers :
    /\ filler'[f].new \subseteq filler[f].new
    /\ filler'[f].pc = "attach" => filler[f].pc = "attach"

(* Nothing new is known of, and no one attaches who has not before.        *)
LEMMA NewKept ==
    ASSUME NewOnes, UNCHANGED vlan, Named' \subseteq Named,
           FillersGoOn
    PROVE  NewOnes'
<1>1. Created' = Created
  BY DEF Created
<1> HIDE DEF Named
<1> QED
  BY <1>1 DEF NewOnes, Attaching, FillersGoOn

(* A thread makes known what it has attached.                              *)
LEMMA NewMoved ==
    ASSUME TypeOK, NewOnes, UNCHANGED vlan, NEW f \in Fillers, NEW w, Fill(f, w),
           Named' \subseteq Named \cup filler[f].new,
           w.new \subseteq filler[f].new, w.pc # "attach"
    PROVE  NewOnes'
<1>1. Created' = Created
  BY DEF Created
<1>2. filler'[f] = w /\ \A g \in Fillers \ {f} : filler'[g] = filler[g]
  BY DEF TypeOK, Fill
<1> HIDE DEF Named
<1>3. Named' \subseteq Created' /\ \A g \in Fillers : filler'[g].new \subseteq Created'
  BY <1>1, <1>2 DEF NewOnes
<1>4. \A g \in Fillers : Attaching(g)' => filler'[g].new \cap Named' = {}
  BY <1>2 DEF NewOnes, Attaching
<1>5. \A g, h \in Fillers : g # h => filler'[g].new \cap filler'[h].new = {}
  BY <1>2 DEF NewOnes
<1> QED
  BY <1>3, <1>4, <1>5 DEF NewOnes

(* A thread that starts has no ports yet.                                  *)
LEMMA NewSpawned ==
    ASSUME TypeOK, NEW s \in SUBSET Ports, filler' = Spawned(s)
    PROVE  FillersGoOn
<1>1. ASSUME NEW n \in Nat, filler' = [filler EXCEPT !["pods"] = Reads(n)]
      PROVE  FillersGoOn
  <2>1. Reads(n).new = {} /\ Reads(n).pc = "create"
    BY DEF Reads
  <2>2. \A f \in Fillers : filler'[f] = filler[f] \/ filler'[f] = Reads(n)
    BY <1>1 DEF TypeOK
  <2> QED
    BY <2>1, <2>2 DEF FillersGoOn
<1> QED
  BY <1>1, Spawns DEF FillersGoOn

Kept == NewOnes' /\ Detached' /\ (ports' \subseteq ports \/ "subnet" \in built)

LEMMA KeptByPods ==
    ASSUME TypeOK, NewOnes, Detached, UNCHANGED work, NEW p \in Pods,
           CreatePod(p) \/ DeletePod(p) \/ PodThread(p)
    PROVE  Kept
<1>1. CASE CreatePod(p) \/ DeletePod(p)
  <2>1. \A r \in Pods : Has(r)' = Has(r)
    BY <1>1 DEF CreatePod, DeletePod, threads, TypeOK, Has
  <2>2. Named' = Named
    BY <1>1, <2>1 DEF CreatePod, DeletePod, neutron, tables, threads, Named
  <2> QED
    BY <1>1, <2>2, NewKept DEF CreatePod, DeletePod, neutron, tables, threads, Kept, Detached, FillersGoOn
<1>2. CASE Pop(p)
  <2>1. PICK q \in available : /\ available' = available \ {q}
                               /\ popped' = [popped EXCEPT ![p] = q] \/ UNCHANGED popped
    BY <1>2 DEF Pop
  <2>2. \A r \in Pods : Has(r)' \subseteq Has(r) \cup {q}
    BY <1>2, <2>1 DEF Pop, TypeOK, Has
  <2>3. Named' \subseteq Named
    BY <1>2, <2>1, <2>2 DEF Pop, neutron, Named
  <2>4. filler' = Spawned(available') /\ available' \in SUBSET Ports
    BY <1>2, <2>1 DEF Pop, TypeOK
  <2>5. FillersGoOn
    BY <2>4, NewSpawned
  <2> QED
    BY <1>2, <2>3, <2>5, NewKept DEF Pop, neutron, Kept, Detached
<1>3. CASE PoolIsEmpty(p)
  <2>1. Named' = Named
    BY <1>3 DEF PoolIsEmpty, neutron, tables, Named, Has
  <2>2. FillersGoOn
    BY <1>3, NewSpawned DEF PoolIsEmpty
  <2> QED
    BY <1>3, <2>1, <2>2, NewKept DEF PoolIsEmpty, neutron, tables, Kept, Detached
<1>4. CASE Annotate(p)
  <2>1. popped[p] \in Has(p) /\ popped[p] \in Ports
    BY <1>4 DEF Annotate, TypeOK, Has
  <2>2. \A r \in Pods : Has(r)' \subseteq Has(r)
    BY <1>4, <2>1 DEF Annotate, TypeOK, Has
  <2>3. recyclable' \subseteq recyclable \cup {popped[p]} /\ existing' \subseteq existing \cup {popped[p]}
    BY <1>4 DEF Annotate, Release
  <2>4. Named' \subseteq Named
    BY <1>4, <2>1, <2>2, <2>3 DEF Annotate, neutron, Named
  <2> QED
    BY <1>4, <2>4, NewKept DEF Annotate, neutron, Kept, Detached, FillersGoOn
<1>5. CASE PodGone(p)
  <2>1. \A r \in Pods : Has(r)' \subseteq Has(r)
    BY <1>5 DEF PodGone, threads, TypeOK, Has
  <2>2. /\ recyclable' \subseteq recyclable \cup Has(p) /\ existing' \subseteq existing \cup Has(p)
        /\ Has(p) \subseteq Ports
    BY <1>5 DEF PodGone, Release, TypeOK, Has
  <2>3. Named' \subseteq Named
    BY <1>5, <2>1, <2>2 DEF PodGone, neutron, threads, Named
  <2> QED
    BY <1>5, <2>3, NewKept DEF PodGone, neutron, threads, Kept, Detached, FillersGoOn
<1> QED
  BY <1>1, <1>2, <1>3, <1>4, <1>5 DEF PodThread

LEMMA KeptByFillers ==
    ASSUME TypeOK, NewOnes, Detached, UNCHANGED netVars, NEW f \in Fillers, FillSteps(f)
    PROVE  Kept
<1>1. CASE FillCreate(f, "subnet" \in built)
  <2>1. UNCHANGED <<trunk, tables, pod, popped, recycler, freed>>
    BY <1>1, FillCreatesIf
  <2>2. Named' = Named
    BY <2>1 DEF Named, tables, Has, netVars
  <2>3. CASE Fill(f, NoFill) /\ UNCHANGED <<ports, vlan>>
    <3>1. \A g \in Fillers : filler'[g] = filler[g] \/ filler'[g] = NoFill
      BY <2>3 DEF TypeOK, Fill
    <3>2. NewOnes'
      BY <2>2, <2>3, <3>1, NewKept DEF NoFill, FillersGoOn
    <3> QED
      BY <2>1, <2>3, <3>2 DEF Kept, Detached, netVars
  <2>4. ASSUME NEW new, NEW ids, Creates(f, new, ids), ("subnet" \in built) \/ ports' = ports
        PROVE  Kept
    <3>1. /\ \A q \in Created : vlan'[q] = vlan[q] /\ q \notin new
          /\ \A q \in new : q \in Ports /\ vlan'[q] # 0
      BY <2>4, NestedPoolAssumption DEF Creates, Unused, Created, FreeIds
    <3>2. Created \subseteq Created' /\ new \subseteq Created' /\ new \cap Created = {}
      BY <3>1 DEF Created
    <3>3. filler'[f].new \subseteq new /\ \A g \in Fillers \ {f} : filler'[g] = filler[g]
      <4>1. \/ filler'[f] = NoFill \/ filler'[f] = [NoFill EXCEPT !.pc = "attach", !.new = new]
        BY <2>4 DEF TypeOK, Creates, Fill
      <4>2. \A g \in Fillers \ {f} : filler'[g] = filler[g]
        BY <2>4 DEF TypeOK, Creates, Fill
      <4>3. NoFill.new = {} /\ [NoFill EXCEPT !.pc = "attach", !.new = new].new = new
        BY DEF NoFill
      <4> QED
        BY <4>1, <4>2, <4>3
    <3>4. NewOnes'
      <4> HIDE DEF Named, Created
      <4>1. Named' \subseteq Created' /\ \A g \in Fillers : filler'[g].new \subseteq Created'
        BY <2>2, <3>2, <3>3 DEF NewOnes
      <4>2. \A g \in Fillers : Attaching(g)' => filler'[g].new \cap Named' = {}
        BY <2>2, <3>2, <3>3 DEF NewOnes, Attaching
      <4>3. \A g, h \in Fillers : g # h => filler'[g].new \cap filler'[h].new = {}
        BY <3>2, <3>3 DEF NewOnes
      <4> QED
        BY <4>1, <4>2, <4>3 DEF NewOnes
    <3> QED
      BY <2>1, <2>4, <3>4 DEF Kept, Detached, netVars, Creates
  <2>5. \/ /\ \E new, ids \in SUBSET Nat : Creates(f, new, ids)
           /\ ("subnet" \in built) \/ ports' = ports
        \/ Fill(f, NoFill) /\ UNCHANGED <<ports, vlan>>
    <3>1. CASE "subnet" \in built
      <4>1. FillCreate(f, TRUE)
        BY <1>1, <3>1
      <4> QED
        BY <3>1, <4>1, FillCreates
    <3>2. CASE "subnet" \notin built
      <4>1. FillCreate(f, FALSE)
        <5>1. ("subnet" \in built) = FALSE
          BY <3>2
        <5> QED
          BY <1>1, <5>1
      <4> QED
        BY <4>1, FillCreatesIf
    <3> QED
      BY <3>1, <3>2
  <2> QED
    BY <2>3, <2>4, <2>5
<1>2. CASE FillAttach(f)
  <2>1. CASE /\ CanAttach(f) /\ trunk' = trunk \cup filler[f].new /\ UNCHANGED ports
             /\ Fill(f, [filler[f] EXCEPT !.pc = "register"])
    <3>1. Named' \subseteq Named \cup filler[f].new
      BY <1>2, <2>1 DEF FillAttach, tables, Named, Has, netVars
    <3>2. NewOnes'
      <4>1. filler[f] \in FillerType
        BY DEF TypeOK, FillerType
      <4>2. /\ [filler[f] EXCEPT !.pc = "register"].new = filler[f].new
            /\ [filler[f] EXCEPT !.pc = "register"].pc = "register"
        BY <4>1 DEF FillerType
      <4> QED
        BY <1>2, <2>1, <3>1, <4>2, NewMoved DEF FillAttach
    <3>3. /\ filler[f].new \cap Named = {} /\ work.todo \subseteq Named
          /\ recycler.port \in Ports => recycler.port \in Named
      BY <1>2 DEF FillAttach, NewOnes, Attaching, Named
    <3>4. filler[f].new \subseteq Ports
      BY DEF TypeOK
    <3> HIDE DEF Named
    <3>5. Detached'
      BY <1>2, <2>1, <3>3, <3>4 DEF FillAttach, CanAttach, Detached, netVars
    <3> QED
      BY <2>1, <3>2, <3>5 DEF Kept
  <2>2. CASE UNCHANGED trunk /\ ports' = ports \ filler[f].new /\ Fill(f, NoFill)
    <3>1. Named' = Named
      BY <1>2, <2>2 DEF FillAttach, tables, Named, Has, netVars
    <3>2. NewOnes'
      <4>1. \A g \in Fillers : filler'[g] = filler[g] \/ filler'[g] = NoFill
        BY <2>2 DEF TypeOK, Fill
      <4> QED
        BY <1>2, <3>1, <4>1, NewKept DEF FillAttach, NoFill, FillersGoOn
    <3>3. filler[f].new \cap trunk = {}
      BY <1>2 DEF FillAttach, NewOnes, Attaching, Named
    <3> QED
      BY <1>2, <2>2, <3>2, <3>3 DEF FillAttach, Kept, Detached, netVars
  <2> QED
    BY <1>2, <2>1, <2>2 DEF FillAttach
<1>3. CASE FillRegister(f)
  <2>1. Named' \subseteq Named \cup filler[f].new
    BY <1>3 DEF FillRegister, neutron, Named, Has, netVars
  <2>2. NewOnes'
    <3>1. NoFill.new = {} /\ NoFill.pc = "idle"
      BY DEF NoFill
    <3> QED
      BY <1>3, <2>1, <3>1, NewMoved DEF FillRegister, neutron
  <2> QED
    BY <1>3, <2>2 DEF FillRegister, neutron, Kept, Detached, netVars
<1> QED
  BY <1>1, <1>2, <1>3 DEF FillSteps

LEMMA KeptByRecycler ==
    ASSUME TypeOK, NewOnes, Detached, UNCHANGED netVars, Recycler \/ Recover
    PROVE  Kept
<1> FillersGoOn
  BY DEF Recycler, RecycleStart, Recycle, RecycleDelete, RecycleEnd, Recover, FillersGoOn
<1> UNCHANGED <<vlan, work>>
  BY DEF Recycler, RecycleStart, Recycle, RecycleDelete, RecycleEnd, Recover, neutron, netVars
<1> None \notin trunk
  BY NestedPoolAssumption DEF TypeOK
<1>1. CASE RecycleStart
  <2>1. Named' \subseteq Named
    BY <1>1, NestedPoolAssumption
       DEF RecycleStart, Recycles, neutron, tables, Named, Has, TypeOK
  <2> QED
    BY <1>1, <2>1, NewKept DEF RecycleStart, Recycles, neutron, tables, Kept, Detached
<1>2. CASE Recycle
  <2>1. PICK q \in recycler.todo :
           /\ \/ trunk' = trunk \/ trunk' = trunk \ {q}
           /\ \/ UNCHANGED <<available, opened, recyclable>>
              \/ available' = available \cup {q} /\ recyclable' = recyclable \ {q}
           /\ \/ recycler' = [recycler EXCEPT !.todo = @ \ {q}]
              \/ /\ recycler' = [[recycler EXCEPT !.todo = @ \ {q}] EXCEPT !.port = q]
                 /\ trunk' = trunk \ {q}
    BY <1>2 DEF Recycle
  <2>2. /\ recycler'.todo \subseteq recycler.todo
        /\ \/ recycler'.port = recycler.port
           \/ recycler'.port = q /\ q \notin trunk'
    <3>1. recycler = [by |-> recycler.by, todo |-> recycler.todo, port |-> recycler.port]
      BY DEF TypeOK
    <3>2. CASE recycler' = [recycler EXCEPT !.todo = @ \ {q}]
      <4>1. recycler'.todo = recycler.todo \ {q} /\ recycler'.port = recycler.port
        BY ONLY <3>1, <3>2
      <4> QED
        BY <4>1
    <3>3. CASE /\ recycler' = [[recycler EXCEPT !.todo = @ \ {q}] EXCEPT !.port = q]
               /\ trunk' = trunk \ {q}
      <4>1. recycler'.todo = recycler.todo \ {q} /\ recycler'.port = q
        BY ONLY <3>1, <3>3
      <4> QED
        BY <3>3, <4>1
    <3> QED
      BY <2>1, <3>2, <3>3
  <2>3. trunk' \subseteq trunk /\ UNCHANGED <<ports, existing, pod, popped>>
    BY <1>2, <2>1 DEF Recycle
  <2>4. Named' \subseteq Named
    BY <2>1, <2>2, <2>3 DEF Named, Has
  <2> QED
    BY <2>2, <2>3, <2>4, NewKept DEF Kept, Detached
<1>3. CASE RecycleDelete
  <2>1. /\ recycler'.port = None /\ recycler'.todo = recycler.todo
        /\ trunk' = trunk /\ existing' \subseteq existing /\ recyclable' \subseteq recyclable
        /\ ports' = ports \/ ports' = ports \ {recycler.port}
        /\ UNCHANGED <<available, pod, popped>>
    BY <1>3 DEF RecycleDelete, TypeOK
  <2>2. Named' \subseteq Named
    BY <2>1, NestedPoolAssumption DEF Named, Has
  <2> QED
    BY <2>1, <2>2, NewKept DEF Kept, Detached
<1>4. CASE RecycleEnd
  <2>1. Named' \subseteq Named
    BY <1>4, NestedPoolAssumption DEF RecycleEnd, NoRecycle, neutron, tables, Named, Has, TypeOK
  <2> QED
    BY <1>4, <2>1, NewKept DEF RecycleEnd, NoRecycle, neutron, tables, Kept, Detached
<1>5. CASE Recover
  <2>1. Named' \subseteq Named
    BY <1>5 DEF Recover, Named, Has
  <2> QED
    BY <1>5, <2>1, NewKept DEF Recover, Kept, Detached
<1> QED
  BY <1>1, <1>2, <1>3, <1>4, <1>5 DEF Recycler

(* The pool's own steps keep the network's invariant.                      *)
LEMMA NetPool ==
    ASSUME NetTypes, NetInv, PoolSteps
    PROVE  NetInv'
<1>1. UNCHANGED netVars /\ UNCHANGED <<ns, crd, nsWork, work, built, rules>>
  BY DEF PoolSteps, netVars
<1>2. Kept
  BY <1>1, KeptByPods, KeptByFillers, KeptByRecycler DEF PoolSteps, NetTypes, NetInv
<1>3. NetStands' /\ Handles'
  BY <1>1, <1>2 DEF Kept, NetInv, NetStands, Handles
<1> QED
  BY <1>2, <1>3 DEF Kept, NetInv

-----------------------------------------------------------------------------
(* What the network's steps keep.                                          *)

(* Nothing of the pool but what the thread of the CRD is about to delete.  *)
LEMMA NewSame ==
    ASSUME NewOnes, Detached, UNCHANGED poolVars, work'.todo \subseteq work.todo
    PROVE  NewOnes' /\ Detached'
<1>1. FillersGoOn
  BY DEF FillersGoOn, poolVars
<1>2. Named' \subseteq Named
  BY DEF Named, Has, poolVars
<1> QED
  BY <1>1, <1>2, NewKept DEF Detached, poolVars

LEMMA NetNs ==
    ASSUME NetTypes, NetInv, NsSteps
    PROVE  NetInv'
<1>1. UNCHANGED <<poolVars, work, built, rules>>
  BY DEF NsSteps, NsThread, Relabel, DeleteNamespace, DeleteCRD, NamespaceGone, NsTake, NsAgain,
         AddCRD, UpdateLabels
<1>2. NewOnes' /\ Detached'
  <2>1. Named' = Named
    BY <1>1 DEF Named, Has, poolVars
  <2>2. FillersGoOn
    BY <1>1 DEF FillersGoOn, poolVars
  <2> QED
    BY <1>1, <2>1, <2>2, NewKept DEF NetInv, Detached, poolVars
<1>3. crd'.st = "none" => crd' = crd
  BY NetConstants DEF NsSteps, NsThread, Relabel, DeleteNamespace, DeleteCRD, NamespaceGone,
     NsTake, NsAgain, AddCRD, UpdateLabels, Patched, NetTypes, NetTypeOK, CRDType
<1>4. ns'.st = "gone" => crd'.st = "none"
  <2>1. CASE Relabel \/ DeleteNamespace
    BY <2>1 DEF Relabel, DeleteNamespace, NetTypes, NsTypeOK, NetInv, NetStands
  <2>2. CASE DeleteCRD \/ NamespaceGone
    BY <2>2 DEF DeleteCRD, NamespaceGone, NetTypes, NsTypeOK, NetInv, NetStands
  <2>3. CASE NsTake \/ NsAgain \/ AddCRD
    BY <2>3 DEF NsTake, NsAgain, AddCRD, NetTypes, NsTypeOK, NetInv, NetStands
  <2>4. CASE UpdateLabels
    BY <2>4 DEF UpdateLabels, NetTypes, NsTypeOK, NetInv, NetStands
  <2> QED
    BY <2>1, <2>2, <2>3, <2>4 DEF NsSteps, NsThread
<1>5. NetStands' /\ Handles'
  BY <1>1, <1>3, <1>4 DEF NetInv, NetStands, Handles, poolVars
<1> QED
  BY <1>2, <1>5 DEF NetInv

(* A handler at work has a CRD, and patches keep it.                       *)
LEMMA Busy ==
    ASSUME NetTypes, NetStands, work.pc # "idle"
    PROVE  crd.st # "none"
BY NetConstants DEF NetStands

LEMMA PatchKeeps ==
    ASSUME NEW c \in CRDType, Patched(c)
    PROVE  /\ crd'.st = c.st /\ crd'.spec = c.spec /\ crd'.labels = c.labels
           /\ crd'.news = "none" => c = crd
BY DEF Patched, CRDType

LEMMA NetBuild ==
    ASSUME NetTypes, NetInv, BuildSteps
    PROVE  NetInv'
<1> USE DEF NetTypes, NetTypeOK
<1>1. UNCHANGED <<poolVars, ns>>
  BY DEF BuildSteps, Take, RetryAgain, Build, Record, UpdateRules, RecordLabels
<1>2. (work.pc # "idle" => crd.st # "none") /\ ns.st # "gone"
  BY Busy DEF NetInv, NetStands, BuildSteps, Take, RetryAgain, Build, Record, UpdateRules,
     RecordLabels
<1> DEFINE Goes ==
             /\ work'.todo \subseteq work.todo /\ work'.pc # "remove"
             /\ crd'.st # "none" /\ built \subseteq built'
             /\ Handles'
<1>3. Goes
  <2>1. CASE Take
    <3>1. crd.st # "none"
      BY <2>1 DEF Take, NetInv, NetStands
    <3>2. crd'.st = crd.st
      BY <2>1 DEF Take, CRDType
    <3>3. /\ work'.todo = {} /\ work'.obj.st = crd.st
          /\ \/ work'.pc \in Building /\ crd.st = "live"
             \/ work'.pc = "finalize" /\ crd.st = "deleting"
      BY <2>1, <3>1, Calls DEF Take, CRDType, States, Building
    <3> QED
      BY <2>1, <3>1, <3>2, <3>3 DEF Take, Handles, Building, Finishing
  <2>2. CASE RetryAgain
    <3>1. crd.st # "none" /\ work.obj.st # "none" /\ work.obj \in CRDType
      BY <1>2, <2>2 DEF RetryAgain, NetInv, Handles
    <3>2. /\ work'.todo = {} /\ work'.obj.st = work.obj.st
          /\ \/ work'.pc \in Building /\ work.obj.st = "live"
             \/ work'.pc = "finalize" /\ work.obj.st = "deleting"
      BY <2>2, <3>1, Calls DEF RetryAgain, CRDType, States, Building
    <3> QED
      BY <2>2, <3>1, <3>2 DEF RetryAgain, Handles, Building, Finishing
  <2>3. CASE Build
    <3>1. /\ work'.todo \subseteq work.todo /\ work'.obj = work.obj
          /\ work'.pc = "record" \/ work'.pc = "again"
      BY <2>3, RetriedTypes DEF Build
    <3> QED
      BY <1>2, <2>3, <3>1 DEF Build, NetInv, Handles, Building, Finishing
  <2>4. CASE Record
    <3>1. /\ work'.todo = work.todo /\ work'.obj = work.obj
          /\ work'.pc = "build" \/ work'.pc = "rules"
      BY <2>4 DEF Record
    <3>2. crd'.st = crd.st
      BY <2>4 DEF Record, Patched, CRDType
    <3> QED
      BY <1>2, <2>4, <3>1, <3>2 DEF Record, NetInv, Handles, Building, Finishing
  <2>5. CASE UpdateRules \/ RecordLabels
    <3>1. /\ work'.todo = work.todo /\ work'.obj = work.obj
          /\ work'.pc = "labels" \/ work'.pc = "populate"
      BY <2>5 DEF UpdateRules, RecordLabels
    <3>2. crd'.st = crd.st
      BY <2>5 DEF UpdateRules, RecordLabels, Patched, CRDType
    <3> QED
      BY <1>2, <2>5, <3>1, <3>2 DEF UpdateRules, RecordLabels, NetInv, Handles, Building, Finishing
  <2> QED
    BY <2>1, <2>2, <2>3, <2>4, <2>5 DEF BuildSteps
<1>4. NewOnes' /\ Detached'
  BY <1>1, <1>3, NewSame DEF NetInv
<1>5. NetStands'
  BY <1>1, <1>2, <1>3 DEF NetInv, NetStands, poolVars
<1> QED
  BY <1>3, <1>4, <1>5 DEF NetInv

LEMMA NetPopulate ==
    ASSUME NetTypes, NetInv, PopulateStart \/ Populate \/ Populated
    PROVE  NetInv'
<1> USE DEF NetTypes, NetTypeOK
<1>1. crd.st # "none" /\ ns.st # "gone"
  BY Busy DEF NetInv, NetStands, PopulateStart, Populate, Populated
<1>2. /\ UNCHANGED <<neutron, tables, pod, popped, recycler, freed, ns, built, rules>>
      /\ \/ UNCHANGED filler
         \/ Fill("namespace", Reads(PoolMin))
  BY DEF PopulateStart, Populate, Populated, poolVars, neutron, tables
<1>3. crd'.st = crd.st
  BY DEF PopulateStart, Populate, Populated, Patched, CRDType
<1>4. /\ work'.todo \subseteq work.todo /\ work'.pc \notin Finishing
      /\ Handles'
  <2>1. CASE work' = Idle
    BY <2>1, NetConstants DEF Handles, Building, Finishing
  <2>2. CASE Retried /\ work.pc \in Building
    BY <2>2, RetriedTypes DEF NetInv, Handles, Building, Finishing
  <2>3. ASSUME NEW n \in 1..3, work.pc \in Building,
               work' = [work EXCEPT !.pc = "populating", !.step = n]
        PROVE  /\ work'.todo \subseteq work.todo /\ work'.pc \notin Finishing
               /\ Handles'
    <3>1. work'.todo = work.todo /\ work'.pc = "populating" /\ work'.obj = work.obj
      BY <2>3
    <3> QED
      BY <2>3, <3>1 DEF NetInv, Handles, Building, Finishing
  <2>4. CASE Populate
    <3>1. work' = [work EXCEPT !.step = 2] => work' = [work EXCEPT !.pc = "populating", !.step = 2]
      BY <2>4 DEF Populate
    <3>2. 2 \in 1..3 /\ work.pc \in Building
      BY <2>4 DEF Populate, Building
    <3> QED
      BY <2>1, <2>2, <2>3, <2>4, <3>1, <3>2 DEF Populate
  <2>5. CASE PopulateStart
    <3>1. 1 \in 1..3 /\ work.pc \in Building
      BY <2>5 DEF PopulateStart, Building
    <3> QED
      BY <2>1, <2>3, <2>5, <3>1 DEF PopulateStart
  <2> QED
    BY <2>1, <2>4, <2>5 DEF Populated
<1>5. FillersGoOn
  <2>1. Reads(PoolMin).new = {} /\ Reads(PoolMin).pc = "create"
    BY DEF Reads
  <2>2. \A f \in Fillers : filler'[f] = filler[f] \/ filler'[f] = Reads(PoolMin)
    BY <1>2 DEF Fill, TypeOK
  <2> QED
    BY <2>1, <2>2 DEF FillersGoOn
<1>6. Named' \subseteq Named
  BY <1>2, <1>4 DEF Named, Has, neutron, tables
<1>7. NewOnes' /\ Detached'
  BY <1>2, <1>4, <1>5, <1>6, NewKept DEF NetInv, Detached, neutron
<1>8. NetStands'
  BY <1>1, <1>2, <1>3, <1>4 DEF NetInv, NetStands, neutron, Finishing
<1> QED
  BY <1>4, <1>7, <1>8 DEF NetInv

LEMMA NetFinish ==
    ASSUME NetTypes, NetInv, FinishSteps
    PROVE  NetInv'
<1> USE DEF NetTypes, NetTypeOK
<1>1. crd.st # "none" /\ ns.st # "gone"
  BY Busy DEF NetInv, NetStands, FinishSteps, Finalize, RemoveSubports, DeletePoolPort,
     ForgetPool, DeleteSubnet, RemoveFinalizer
<1>2. FillersGoOn /\ UNCHANGED <<vlan, ns, pod, popped>>
  BY DEF FinishSteps, Finalize, RemoveSubports, DeletePoolPort, ForgetPool, DeleteSubnet,
     RemoveFinalizer, FillersGoOn, neutron, poolVars
<1>3. None \notin trunk
  BY NestedPoolAssumption DEF TypeOK
<1>4. CASE Finalize
  <2>1. UNCHANGED <<neutron, tables, crd, built, rules>>
    BY <1>4 DEF Finalize
  <2>2. \/ UNCHANGED recycler
        \/ recycler'.todo = recyclable /\ recycler'.port = None
    BY <1>4 DEF Finalize, Recycles
  <2>3. /\ work'.todo \subseteq work.todo /\ work'.pc # "remove"
        /\ Handles'
    <3>1. CASE work' = Idle
      BY <3>1, NetConstants DEF Handles, Building, Finishing
    <3>2. CASE Retried
      BY <1>4, <3>2, RetriedTypes DEF Finalize, NetInv, Handles, Building, Finishing
    <3>3. CASE work' = [work EXCEPT !.pc = "recycling"]
      BY <1>4, <3>3 DEF Finalize, NetInv, Handles, Building, Finishing
    <3> QED
      BY <1>4, <3>1, <3>2, <3>3 DEF Finalize
  <2>4. Named' \subseteq Named
    BY <1>2, <2>1, <2>2, <2>3, NestedPoolAssumption DEF Named, Has, neutron, tables
  <2>5. NewOnes' /\ Detached'
    BY <1>2, <1>3, <2>1, <2>2, <2>3, <2>4, NewKept DEF NetInv, Detached, neutron
  <2>6. NetStands'
    BY <1>1, <1>2, <2>1, <2>3 DEF NetInv, NetStands, neutron
  <2> QED
    BY <2>3, <2>5, <2>6 DEF NetInv
<1>5. CASE RemoveSubports
  <2>1. /\ recycler' = NoRecycle /\ UNCHANGED <<ports, tables, crd, built, rules>>
        /\ trunk' \subseteq trunk
    BY <1>5 DEF RemoveSubports
  <2>2. NoRecycle.todo = {} /\ NoRecycle.port = None
    BY DEF NoRecycle
  <2>3. /\ work'.todo \subseteq work.todo \cup available /\ work'.todo \cap trunk' = {}
        /\ work'.obj = work.obj
        /\ work'.pc = "detach" \/ work'.pc = "subnet"
    BY <1>5 DEF RemoveSubports, NetInv, Detached
  <2>4. Handles' /\ work'.pc # "remove"
    BY <1>5, <2>3 DEF RemoveSubports, NetInv, Handles, Building, Finishing
  <2>5. Named' \subseteq Named
    BY <1>2, <2>1, <2>2, <2>3, NestedPoolAssumption DEF Named, Has, tables
  <2>6. NewOnes' /\ Detached'
    BY <1>2, <1>3, <2>1, <2>2, <2>3, <2>5, NewKept DEF NetInv, Detached
  <2>7. NetStands'
    BY <1>1, <1>2, <2>1, <2>4 DEF NetInv, NetStands
  <2> QED
    BY <2>4, <2>6, <2>7 DEF NetInv
<1>6. CASE DeletePoolPort
  <2>1. PICK q \in work.todo : ports' = ports \ {q}
    BY <1>6 DEF DeletePoolPort
  <2>2. /\ UNCHANGED <<trunk, available, recyclable, recycler, crd, built, rules>>
        /\ existing' \subseteq existing /\ work'.todo \subseteq work.todo
        /\ work'.obj = work.obj /\ work'.pc = "detach" /\ work.pc = "detach"
    BY <1>6 DEF DeletePoolPort
  <2>3. Handles'
    BY <2>2 DEF NetInv, Handles, Building, Finishing
  <2>4. Named' \subseteq Named
    BY <1>2, <2>2 DEF Named, Has
  <2>5. NewOnes' /\ Detached'
    BY <1>2, <2>1, <2>2, <2>4, NewKept DEF NetInv, Detached
  <2>6. NetStands'
    BY <1>1, <1>2, <2>1, <2>2 DEF NetInv, NetStands
  <2> QED
    BY <2>3, <2>5, <2>6 DEF NetInv
<1>7. CASE ForgetPool
  <2>1. /\ UNCHANGED <<ports, trunk, recyclable, existing, recycler, crd, built, rules>>
        /\ available' = {} /\ work'.todo = work.todo
        /\ work'.obj = work.obj /\ work'.pc = "subnet" /\ work.pc = "detach"
    BY <1>7 DEF ForgetPool, neutron
  <2>2. Handles'
    BY <2>1 DEF NetInv, Handles, Building, Finishing
  <2>3. Named' \subseteq Named
    BY <1>2, <2>1 DEF Named, Has
  <2>4. NewOnes' /\ Detached'
    BY <1>2, <2>1, <2>3, NewKept DEF NetInv, Detached
  <2>5. NetStands'
    BY <1>1, <1>2, <2>1 DEF NetInv, NetStands
  <2> QED
    BY <2>2, <2>4, <2>5 DEF NetInv
<1>8. CASE DeleteSubnet
  <2>1. UNCHANGED <<trunk, tables, recycler, crd>> /\ work.pc = "subnet"
    BY <1>8 DEF DeleteSubnet
  <2>2. /\ \/ ports' = trunk
           \/ ports' = ports /\ ports = {}
        /\ \/ "subnet" \notin built' => "subnet" \notin built
           \/ ports' = {}
    BY <1>8 DEF DeleteSubnet
  <2>3. \/ Retried
        \/ work' = [work EXCEPT !.pc = "remove"] /\ built' = {} /\ rules' = 0
    BY <1>8 DEF DeleteSubnet
  <2>4. /\ Handles' /\ work'.todo \subseteq work.todo
        /\ work'.pc = "remove" => built' = {} /\ rules' = 0
    <3>1. CASE Retried
      BY <2>1, <3>1, RetriedTypes DEF NetInv, Handles, Building, Finishing
    <3>2. CASE work' = [work EXCEPT !.pc = "remove"] /\ built' = {} /\ rules' = 0
      BY <2>1, <3>2 DEF NetInv, Handles, Building, Finishing
    <3> QED
      BY <2>3, <3>1, <3>2
  <2>5. Named' \subseteq Named
    BY <1>2, <2>1, <2>4 DEF Named, Has, tables
  <2>6. NewOnes' /\ Detached'
    BY <1>2, <2>1, <2>2, <2>4, <2>5, NewKept DEF NetInv, Detached
  <2>7. NetStands'
    BY <1>1, <1>2, <2>1, <2>2, <2>4 DEF NetInv, NetStands, Detached
  <2> QED
    BY <2>4, <2>6, <2>7 DEF NetInv
<1>9. CASE RemoveFinalizer
  <2>1. work'.todo \subseteq work.todo
    BY <1>9, NetConstants DEF RemoveFinalizer
  <2>2. NewOnes' /\ Detached'
    BY <1>9, <2>1, NewSame DEF RemoveFinalizer, NetInv
  <2>3. Handles' /\ work'.pc # "remove"
    BY <1>9, NetConstants DEF RemoveFinalizer, Handles, Building, Finishing
  <2>4. NetStands'
    <3>1. built' = {} /\ rules' = 0 /\ ports' = ports /\ built = {}
      BY <1>9 DEF RemoveFinalizer, NetInv, NetStands, poolVars
    <3>2. crd' = NoCRD /\ work' = Idle /\ NoCRD.news = "none" /\ NoCRD.st = "none"
      BY <1>9 DEF RemoveFinalizer, NoCRD
    <3> QED
      BY <1>1, <1>2, <2>3, <3>1, <3>2 DEF NetInv, NetStands
  <2> QED
    BY <2>2, <2>3, <2>4 DEF NetInv
<1> QED
  BY <1>4, <1>5, <1>6, <1>7, <1>8, <1>9 DEF FinishSteps

LEMMA NetRestart ==
    ASSUME NetTypes, NetInv, GiveUp \/ Restart
    PROVE  NetInv'
<1>1. /\ work' = Idle /\ UNCHANGED <<built, rules, ports, trunk, vlan>>
      /\ ns'.st = ns.st /\ crd'.st = crd.st
      /\ crd.st = "none" => crd'.news = "none"
  BY DEF GiveUp, Restart, ForgetsPool, poolVars, NetTypes, NsTypeOK, NetTypeOK, CRDType, NetInv,
         NetStands
<1>2. Handles' /\ work'.pc # "remove" /\ work'.todo = {}
  BY <1>1, NetConstants DEF Handles, Building, Finishing
<1>3. CASE GiveUp
  BY <1>1, <1>2, <1>3, NewSame DEF GiveUp, NetInv, NetStands, poolVars
<1>4. CASE Restart
  <2>1. /\ available' = {} /\ recyclable' = {} /\ existing' = {} /\ recycler' = NoRecycle
        /\ popped' = [p \in Pods |-> None] /\ filler' = [f \in Fillers |-> NoFill]
    BY <1>4 DEF Restart, ForgetsPool
  <2>2. /\ NoRecycle.todo = {} /\ NoRecycle.port = None /\ NoFill.new = {} /\ NoFill.pc = "idle"
        /\ None \notin Ports
    BY NestedPoolAssumption DEF NoRecycle, NoFill
  <2>3. \A p \in Pods : Has(p)' \subseteq Has(p)
    BY <1>4, <2>1 DEF Restart, ForgetsPool, Has
  <2>4. FillersGoOn
    BY <2>1, <2>2 DEF FillersGoOn
  <2>5. Named' \subseteq Named
    BY <1>1, <1>2, <2>1, <2>2, <2>3 DEF Named
  <2>6. NewOnes' /\ Detached'
    BY <1>1, <1>2, <2>1, <2>2, <2>4, <2>5, NewKept DEF NetInv, Detached, NetTypes, TypeOK
  <2>7. NetStands'
    BY <1>1, <1>2 DEF NetInv, NetStands
  <2> QED
    BY <1>2, <2>6, <2>7 DEF NetInv
<1> QED
  BY <1>3, <1>4

-----------------------------------------------------------------------------
(* Theorems.                                                               *)

(* Each step is one of the groups above.                                   *)
LEMMA NetSteps ==
    ASSUME Next
    PROVE  \/ NsSteps \/ BuildSteps \/ PopulateStart \/ Populate \/ Populated
           \/ FinishSteps \/ GiveUp \/ Restart \/ PoolSteps
<1>1. "pods" \in Fillers /\ "namespace" \in Fillers
  BY DEF Fillers
<1> QED
  BY <1>1
     DEF Next, NsThread, NetThread, PoolThreads, DeletionThread, Users, Startup, NsSteps, BuildSteps,
         FinishSteps, PoolSteps, RecycleSteps, Recycler, PodThread, Change, counters

(* The variables have their types, and the network stands as NetInv says,  *)
(* whatever the timings.                                                   *)
THEOREM NetStanding == Spec => [](NetTypes /\ NetInv)
<1>1. Init => NetTypes /\ NetInv
  <2> SUFFICES ASSUME Init PROVE NetTypes /\ NetInv
    OBVIOUS
  <2>1. TypeOK
    <3>1. filler \in [Fillers -> FillerType]
      BY Constants DEF Init, PoolInit
    <3>2. pod \in [Pods -> PodType]
      BY DEF Init, PoolInit, PodType
    <3> QED
      BY <3>1, <3>2, Constants DEF Init, PoolInit, TypeOK, FillerType, PodType
  <2>2. NsTypeOK /\ NetTypeOK
    BY NetConstants DEF Init, NsTypeOK, NetTypeOK
  <2>3. Named = {} /\ \A f \in Fillers : filler[f].new = {}
    BY NestedPoolAssumption, NetConstants
       DEF Init, PoolInit, Named, Has, NoRecycle, NoFill
  <2>4. NewOnes
    BY <2>3 DEF NewOnes
  <2>5. Detached /\ Handles
    BY NetConstants DEF Init, PoolInit, Detached, Handles, Building, Finishing
  <2>6. NetStands
    BY NetConstants DEF Init, PoolInit, NetStands, NoCRD
  <2> QED
    BY <2>1, <2>2, <2>4, <2>5, <2>6 DEF NetTypes, NetInv
<1>2. NetTypes /\ NetInv /\ [Next]_vars => (NetTypes /\ NetInv)'
  <2>1. ASSUME NetTypes, NetInv, UNCHANGED vars
        PROVE  (NetTypes /\ NetInv)'
    <3>1. UNCHANGED poolVars /\ UNCHANGED netVars
      BY <2>1 DEF vars
    <3>2. NetTypes'
      BY <2>1, <3>1 DEF poolVars, netVars, NetTypes, TypeOK, NsTypeOK, NetTypeOK
    <3>3. NewOnes' /\ Detached'
      BY <2>1, <3>1, NewSame DEF NetInv, netVars
    <3>4. NetStands' /\ Handles'
      BY <2>1, <3>1 DEF NetInv, NetStands, Handles, poolVars, netVars
    <3> QED
      BY <3>2, <3>3, <3>4 DEF NetInv
  <2>2. ASSUME NetTypes, NetInv, Next
        PROVE  NetTypes'
    BY <2>2, NetSteps, NsTypes, BuildTypes, PopulateTypes, FinishTypes, RestartTypes, PoolTypes
       DEF NetInv
  <2>3. ASSUME NetTypes, NetInv, Next
        PROVE  NetInv'
    BY <2>3, NetSteps, NetNs, NetBuild, NetPopulate, NetFinish, NetRestart, NetPool
  <2> QED
    BY <2>1, <2>2, <2>3
<1> QED
  BY <1>1, <1>2, PTL DEF Spec

(* Nothing is left in Neutron of a namespace that has gone, whatever       *)
(* happens while it is built, filled and taken down.                       *)
THEOREM GoneIsClean == Spec => []NothingLeft
<1>1. NetTypes /\ NetInv => NothingLeft
  BY DEF NetInv, NetStands, NothingLeft
<1> QED
  BY <1>1, NetStanding, PTL

-----------------------------------------------------------------------------
(* The rules follow the labels of the namespace.                           *)

Live == crd.st = "live"

(* The thread of the namespace: it works on labels that are at least those *)
(* of the CRD, and once there is no event left for it, on the last ones.   *)
NsFollows ==
    /\ nsWork.pc # "idle" =>
          /\ nsWork.labels <= ns.labels
          /\ Live => crd.spec <= nsWork.labels
          /\ ~ns.news /\ ns.st = "active" => nsWork.labels = ns.labels
    /\ nsWork.pc = "write" /\ nsWork.found =>
          /\ Live => nsWork.crdLabels <= crd.spec
          /\ ns.st = "active" => Live
    /\ ns.st = "active" => crd.st # "deleting"
    /\ ns.st = "active" /\ ~ns.news /\ nsWork.pc = "idle" => Live /\ crd.spec = ns.labels

(* The thread of the CRD: what it records has rules, and as long as no     *)
(* event is due it works on the CRD as it is.                              *)
CRDFollows ==
    Live =>
        /\ crd.labels <= crd.spec /\ crd.spec <= ns.labels
        /\ crd.labels <= rules /\ rules <= ns.labels
        /\ work.pc # "idle" => work.obj.st = "live" /\ work.obj.spec <= crd.spec
        /\ work.pc = "labels" => work.obj.spec <= rules
        /\ crd.news = "none" =>
              /\ work.pc # "idle" =>
                    work.obj.spec = crd.spec /\ work.obj.labels = crd.labels
              /\ work.pc \in {"populate", "populating"} => crd.labels = crd.spec
              /\ work.pc = "idle" /\ alive => crd.labels = crd.spec

Following == NsFollows /\ CRDFollows

(* A namespace does not get labels back that it has had before.            *)
NoReturn == "labels_back" \notin Races

LEMMA FollowNs ==
    ASSUME NoReturn, NetTypes, NetInv, Following, NsSteps
    PROVE  Following'
<1> USE DEF NetTypes, NsTypeOK, NetTypeOK
<1>1. /\ ns.labels \in Nat /\ crd.spec \in Nat /\ crd.labels \in Nat /\ nsWork.labels \in Nat
      /\ nsWork.crdLabels \in Nat /\ work.obj.spec \in Nat /\ work.obj.labels \in Nat
  BY DEF CRDType
<1>2. CASE Relabel
  <2>1. PICK l \in Labels : ns' = [ns EXCEPT !.labels = l, !.news = TRUE] /\ l > ns.labels
    BY <1>2 DEF Relabel, NoReturn
  <2>2. l \in Nat /\ ns'.labels = l /\ ns'.news /\ ns'.st = ns.st
    BY <2>1, LabelsAssumption
  <2>3. UNCHANGED <<crd, nsWork, work, rules, alive>>
    BY <1>2 DEF Relabel, Change
  <2>4. NsFollows'
    BY <1>1, <2>1, <2>2, <2>3 DEF Following, NsFollows, Live
  <2>5. CRDFollows'
    BY <1>1, <2>1, <2>2, <2>3 DEF Following, CRDFollows, Live
  <2> QED
    BY <2>4, <2>5 DEF Following
<1>3. CASE DeleteNamespace \/ NamespaceGone
  <2>1. /\ UNCHANGED <<crd, nsWork, work, rules, alive>>
        /\ ns'.labels = ns.labels /\ ns'.st # "active"
    BY <1>3 DEF DeleteNamespace, NamespaceGone, Change, counters
  <2>2. NsFollows' /\ CRDFollows'
    BY <2>1 DEF Following, NsFollows, CRDFollows, Live
  <2> QED
    BY <2>2 DEF Following
<1>4. CASE DeleteCRD
  <2>1. ns.st # "active" /\ crd'.st = "deleting" /\ UNCHANGED <<ns, nsWork>>
    BY <1>4 DEF DeleteCRD, CRDType
  <2>2. NsFollows' /\ CRDFollows'
    BY <2>1 DEF Following, NsFollows, CRDFollows, Live
  <2> QED
    BY <2>2 DEF Following
<1>5. CASE NsTake \/ NsAgain
  <2>1. UNCHANGED <<crd, work, rules, alive>>
    BY <1>5 DEF NsTake, NsAgain, counters
  <2>2. ns'.labels = ns.labels /\ ns'.st = ns.st
    BY <1>5 DEF NsTake, NsAgain
  <2>3. CRDFollows'
    BY <2>1, <2>2 DEF Following, CRDFollows, Live
  <2>4. ASSUME NEW l \in Nat, nsWork' = Looks(l), l <= ns.labels,
               Live => crd.spec <= l,
               ~ns'.news /\ ns.st = "active" => l = ns.labels
        PROVE  NsFollows'
    <3>1. /\ nsWork'.pc = "write" /\ nsWork'.labels = l /\ nsWork'.crdLabels = crd.labels
          /\ nsWork'.found => crd.st # "none"
      BY <2>4 DEF Looks
    <3>2. crd.st \in States
      BY DEF CRDType
    <3> QED
      BY <1>1, <2>1, <2>2, <2>4, <3>1, <3>2 DEF Following, NsFollows, CRDFollows, Live, States
  <2>5. CASE NsTake /\ ns.st = "active"
    <3>1. nsWork' = Looks(ns.labels) /\ (Live => crd.spec <= ns.labels)
      BY <2>5 DEF NsTake, Following, CRDFollows
    <3> QED
      BY <1>1, <2>3, <2>4, <3>1 DEF Following
  <2>6. CASE NsTake /\ ns.st # "active"
    <3>1. nsWork' = NsIdle
      BY <2>6 DEF NsTake
    <3> QED
      BY <2>1, <2>2, <2>3, <2>6, <3>1, NetConstants DEF Following, NsFollows, Live
  <2>7. CASE NsAgain /\ ns.st # "gone"
    <3>1. nsWork' = Looks(nsWork.labels) /\ nsWork.pc = "again" /\ ns' = ns
      BY <2>7 DEF NsAgain
    <3> QED
      BY <1>1, <2>3, <2>4, <3>1 DEF Following, NsFollows
  <2>8. CASE NsAgain /\ ns.st = "gone"
    <3>1. nsWork' = NsIdle
      BY <2>8 DEF NsAgain
    <3> QED
      BY <2>1, <2>2, <2>3, <2>8, <3>1, NetConstants DEF Following, NsFollows, Live
  <2> QED
    BY <1>5, <2>5, <2>6, <2>7, <2>8
<1>6. CASE AddCRD
  <2>1. UNCHANGED <<ns, work, rules>> /\ nsWork.pc = "write" /\ ~nsWork.found
    BY <1>6 DEF AddCRD
  <2>2. CASE /\ ns.st = "active" /\ crd.st = "none"
             /\ crd' = [NoCRD EXCEPT !.st = "live", !.spec = nsWork.labels, !.news = "ADDED"]
             /\ nsWork' = NsIdle /\ UNCHANGED counters
    <3>1. /\ crd'.st = "live" /\ crd'.spec = nsWork.labels /\ crd'.labels = 0 /\ crd'.news = "ADDED"
          /\ nsWork'.pc = "idle"
      BY <2>2, NetConstants DEF NoCRD
    <3>2. rules = 0 /\ work.pc = "idle"
      BY <2>2, NetConstants DEF NetInv, NetStands
    <3>3. nsWork.labels <= ns.labels /\ (~ns.news => nsWork.labels = ns.labels)
      BY <2>1, <2>2 DEF Following, NsFollows
    <3>4. NsFollows'
      BY <1>1, <2>1, <2>2, <3>1, <3>3 DEF NsFollows, Live
    <3>5. CRDFollows'
      BY <1>1, <2>1, <3>1, <3>2, <3>3 DEF CRDFollows, Live
    <3> QED
      BY <3>4, <3>5 DEF Following
  <2>3. CASE UNCHANGED crd /\ nsWork' = [NsIdle EXCEPT !.pc = "again", !.labels = nsWork.labels]
    <3>1. nsWork'.pc = "again" /\ nsWork'.labels = nsWork.labels
      BY <2>3 DEF NsIdle
    <3>2. alive' = alive
      BY <1>6 DEF AddCRD, Trouble, counters
    <3>3. NsFollows'
      BY <2>1, <2>3, <3>1 DEF Following, NsFollows, Live
    <3>4. CRDFollows'
      BY <2>1, <2>3, <3>2 DEF Following, CRDFollows, Live
    <3> QED
      BY <3>3, <3>4 DEF Following
  <2> QED
    BY <1>6, <2>2, <2>3 DEF AddCRD
<1>7. CASE UpdateLabels
  <2>1. /\ UNCHANGED <<ns, work, rules, alive>> /\ nsWork.pc = "write" /\ nsWork.found
        /\ nsWork'.pc = "idle"
    BY <1>7, NetConstants DEF UpdateLabels, counters
  <2>2. nsWork.labels <= ns.labels /\ (Live => crd.spec <= nsWork.labels)
    BY <2>1 DEF Following, NsFollows
  <2>3. CASE Patched([crd EXCEPT !.spec = nsWork.labels])
    <3> DEFINE c == [crd EXCEPT !.spec = nsWork.labels]
    <3>1. /\ c \in CRDType /\ c.spec = nsWork.labels /\ c.labels = crd.labels /\ c.st = crd.st
          /\ c = crd => crd.spec = nsWork.labels
      BY <1>1 DEF CRDType
    <3>2. Patched(c)
      BY <2>3
    <3> HIDE DEF c
    <3>3. /\ crd'.spec = nsWork.labels /\ crd'.labels = crd.labels /\ crd'.st = crd.st
          /\ crd'.news = "none" => crd.spec = nsWork.labels
          /\ crd'.news = "none" => crd' = crd
      BY <3>1, <3>2, PatchKeeps DEF Patched, CRDType
    <3>4. NsFollows'
      BY <1>1, <2>1, <2>2, <3>3 DEF Following, NsFollows, Live
    <3>5. CRDFollows'
      BY <1>1, <2>1, <2>2, <3>3 DEF Following, CRDFollows, Live
    <3> QED
      BY <3>4, <3>5 DEF Following
  <2>4. CASE /\ UNCHANGED crd
             /\ crd.st = "none" \/ nsWork.crdLabels = nsWork.labels
    <3>1. NsFollows'
      BY <1>1, <2>1, <2>2, <2>4 DEF Following, NsFollows, Live
    <3>2. CRDFollows'
      BY <2>1, <2>4 DEF Following, CRDFollows, Live
    <3> QED
      BY <3>1, <3>2 DEF Following
  <2> QED
    BY <1>7, <2>3, <2>4 DEF UpdateLabels
<1> QED
  BY <1>2, <1>3, <1>4, <1>5, <1>6, <1>7 DEF NsSteps, NsThread

(* A handler that goes on with the CRD as it was.                          *)
LEMMA FollowSame ==
    ASSUME NetTypes, Following, UNCHANGED <<ns, crd, nsWork>>, rules' = rules \/ rules' = ns.labels,
           alive' => alive, work.pc # "idle", work'.pc # "labels", work'.obj = work.obj,
           \/ work'.pc \in {"build", "record", "rules", "again"} \cup Finishing
           \/ work'.pc \in {"populate", "populating"} /\ work.pc \in {"populate", "populating"}
    PROVE  Following'
<1>1. ns.labels \in Nat /\ crd.spec \in Nat /\ crd.labels \in Nat /\ rules \in Nat
  BY DEF NetTypes, NsTypeOK, NetTypeOK, CRDType
<1>2. NsFollows'
  BY DEF Following, NsFollows, Live
<1>3. work'.pc # "idle"
  BY DEF Finishing
<1>4. work'.pc \in {"populate", "populating"} => work.pc \in {"populate", "populating"}
  BY DEF Finishing
<1>5. CRDFollows'
  BY <1>1, <1>3, <1>4 DEF Following, CRDFollows, Live
<1> QED
  BY <1>2, <1>5 DEF Following

(* It records something in the CRD.                                        *)
LEMMA FollowPatch ==
    ASSUME NetTypes, Following, UNCHANGED <<ns, nsWork, rules>>,
           NEW c \in CRDType, Patched(c), c.st = crd.st, c.spec = crd.spec,
           \/ c.labels = crd.labels
           \/ work.pc = "labels" /\ c.labels = work.obj.spec,
           work.pc # "idle", work'.pc \notin {"idle", "labels"}, work'.obj = work.obj,
           work'.pc \in {"populate", "populating"} =>
               \/ work.pc \in {"populate", "populating"}
               \/ work.pc = "labels" /\ c.labels = work.obj.spec
    PROVE  Following'
<1>1. /\ ns.labels \in Nat /\ crd.spec \in Nat /\ crd.labels \in Nat /\ rules \in Nat
      /\ work.obj.spec \in Nat /\ nsWork.labels \in Nat /\ nsWork.crdLabels \in Nat
  BY DEF NetTypes, NsTypeOK, NetTypeOK, CRDType
<1>2. /\ crd'.st = crd.st /\ crd'.spec = crd.spec /\ crd'.labels = c.labels
      /\ crd'.news = "none" => c = crd /\ crd' = crd
  BY PatchKeeps DEF Patched, NetTypes, NetTypeOK, CRDType
<1>3. NsFollows'
  BY <1>2 DEF Following, NsFollows, Live
<1>4. CRDFollows'
  <2> SUFFICES ASSUME Live' PROVE CRDFollows'
    BY DEF CRDFollows
  <2>1. Live
    BY <1>2 DEF Live
  <2>2. c.labels <= crd.spec /\ c.labels <= rules
    BY <2>1 DEF Following, CRDFollows
  <2>3. /\ crd'.labels <= crd'.spec /\ crd'.spec <= ns'.labels
        /\ crd'.labels <= rules' /\ rules' <= ns'.labels
        /\ work'.obj.st = "live" /\ work'.obj.spec <= crd'.spec
    BY <1>2, <2>1, <2>2 DEF Following, CRDFollows
  <2>4. crd'.news = "none" =>
           /\ work'.obj.spec = crd'.spec /\ work'.obj.labels = crd'.labels
           /\ work'.pc \in {"populate", "populating"} => crd'.labels = crd'.spec
    BY <1>2, <2>1 DEF Following, CRDFollows
  <2> QED
    BY <2>3, <2>4 DEF CRDFollows
<1> QED
  BY <1>3, <1>4 DEF Following

(* It ends with everything recorded, or not healthy, or without a CRD.     *)
LEMMA FollowEnd ==
    ASSUME NetTypes, Following, UNCHANGED <<ns, crd, nsWork>>, rules' = rules, alive' => alive,
           work' = Idle,
           work.pc \in {"populate", "populating"} \/ ~alive' \/ ~Live
    PROVE  Following'
<1>1. work'.pc = "idle"
  BY NetConstants
<1>2. NsFollows'
  BY DEF Following, NsFollows, Live
<1>3. CRDFollows'
  BY <1>1 DEF Following, CRDFollows, Live
<1> QED
  BY <1>2, <1>3 DEF Following

LEMMA FollowBuild ==
    ASSUME NetTypes, NetInv, Following, BuildSteps
    PROVE  Following'
<1> USE DEF NetTypes, NetTypeOK
<1>1. UNCHANGED <<ns, nsWork, alive>>
  BY DEF BuildSteps, Take, RetryAgain, Build, Record, UpdateRules, RecordLabels, Trouble, counters
<1>2. ASSUME NEW obj \in CRDType, obj.st # "none", crd.st # "none", work' = Called(obj),
             rules' = rules, crd' = [crd EXCEPT !.news = crd'.news],
             Live => obj.st = "live" /\ obj.spec <= crd.spec,
             Live /\ crd'.news = "none" => obj.spec = crd.spec /\ obj.labels = crd.labels
      PROVE  Following'
  <2>1. crd'.st = crd.st /\ crd'.spec = crd.spec /\ crd'.labels = crd.labels
    BY <1>2 DEF CRDType
  <2>2. NsFollows'
    BY <1>1, <2>1 DEF Following, NsFollows, Live
  <2>3. Live =>
          /\ work'.obj = obj
          /\ \/ work'.pc \in {"build", "rules"}
             \/ work'.pc = "populate" /\ obj.labels = obj.spec
    BY <1>2, Calls
  <2>4. CRDFollows'
    BY <1>1, <1>2, <2>1, <2>3 DEF Following, CRDFollows, Live
  <2> QED
    BY <2>2, <2>4 DEF Following
<1>3. CASE Take
  <2>1. crd.st # "none"
    BY <1>3 DEF Take, NetInv, NetStands
  <2>2. /\ work' = Called(crd) /\ rules' = rules /\ crd' = [crd EXCEPT !.news = "none"]
        /\ crd.spec \in Nat
    BY <1>3 DEF Take, CRDType
  <2>3. crd' = [crd EXCEPT !.news = crd'.news]
    BY <2>2 DEF CRDType
  <2> QED
    BY <1>2, <2>1, <2>2, <2>3 DEF Live
<1>4. CASE RetryAgain
  <2>1. crd.st # "none" /\ work.obj.st # "none" /\ work.obj \in CRDType
    BY <1>4, Busy DEF RetryAgain, NetInv, Handles
  <2>2. /\ work' = Called(work.obj) /\ rules' = rules /\ crd' = crd
        /\ work.pc = "again"
    BY <1>4 DEF RetryAgain
  <2>3. crd' = [crd EXCEPT !.news = crd'.news]
    BY <2>2 DEF CRDType
  <2> QED
    BY <1>2, <2>1, <2>2, <2>3 DEF Following, CRDFollows
<1>5. CASE Build
  <2>1. /\ work'.obj = work.obj /\ work'.pc \in {"record", "again"} /\ work.pc = "build"
        /\ UNCHANGED <<crd, rules>>
    BY <1>5, RetriedTypes DEF Build
  <2> QED
    BY <1>1, <2>1, FollowSame
<1>6. CASE Record
  <2>1. /\ work'.obj = work.obj /\ work.pc = "record" /\ UNCHANGED rules
        /\ work'.pc = "build" \/ work'.pc = "rules"
    BY <1>6 DEF Record
  <2> DEFINE b == crd.populated /\ work.step < 3
             c == [crd EXCEPT !.parts = @ \cup {Parts[work.step]}, !.populated = b]
  <2>2. b \in BOOLEAN /\ Parts[work.step] \in PartSet
    BY DEF Parts, PartSet
  <2>3. Patched(c)
    BY <1>6 DEF Record
  <2> HIDE DEF b
  <2>4. c \in CRDType /\ c.st = crd.st /\ c.spec = crd.spec /\ c.labels = crd.labels
    BY <2>2 DEF CRDType
  <2> HIDE DEF c
  <2> QED
    BY <1>1, <2>1, <2>3, <2>4, FollowPatch
<1>7. CASE UpdateRules
  <2>1. /\ rules' = ns.labels /\ work'.pc = "labels" /\ work'.obj = work.obj /\ work.pc = "rules"
        /\ UNCHANGED crd
    BY <1>7 DEF UpdateRules
  <2>2. ns.labels \in Nat /\ crd.spec \in Nat /\ crd.labels \in Nat /\ work.obj.spec \in Nat
    BY DEF NsTypeOK, CRDType
  <2>3. NsFollows'
    BY <1>1, <2>1 DEF Following, NsFollows, Live
  <2>4. CRDFollows'
    BY <1>1, <2>1, <2>2 DEF Following, CRDFollows, Live
  <2> QED
    BY <2>3, <2>4 DEF Following
<1>8. CASE RecordLabels
  <2> DEFINE c == [crd EXCEPT !.labels = work.obj.spec]
  <2>1. /\ c \in CRDType /\ c.st = crd.st /\ c.spec = crd.spec /\ c.labels = work.obj.spec
    BY DEF CRDType
  <2>2. /\ Patched(c) /\ work'.obj = work.obj /\ work.pc = "labels" /\ UNCHANGED rules
        /\ work'.pc = "populate"
    BY <1>8 DEF RecordLabels
  <2> HIDE DEF c
  <2> QED
    BY <1>1, <2>1, <2>2, FollowPatch
<1> QED
  BY <1>3, <1>4, <1>5, <1>6, <1>7, <1>8 DEF BuildSteps

LEMMA FollowPopulate ==
    ASSUME NetTypes, NetInv, Following, PopulateStart \/ Populate \/ Populated
    PROVE  Following'
<1> USE DEF NetTypes, NetTypeOK
<1>1. UNCHANGED <<ns, nsWork, rules>> /\ work.pc \in {"populate", "populating"}
  BY DEF PopulateStart, Populate, Populated
<1>2. alive' => alive
  BY DEF PopulateStart, Populate, Populated, GivenUp, counters
<1>3. ASSUME NEW b \in BOOLEAN, Patched([crd EXCEPT !.populated = b]),
             work'.obj = work.obj, work'.pc \notin {"idle", "labels"}
      PROVE  Following'
  <2> DEFINE c == [crd EXCEPT !.populated = b]
  <2>1. c \in CRDType /\ c.st = crd.st /\ c.spec = crd.spec /\ c.labels = crd.labels
    BY DEF CRDType
  <2>2. Patched(c)
    BY <1>3
  <2> HIDE DEF c
  <2> QED
    BY <1>1, <1>3, <2>1, <2>2, FollowPatch
<1>4. CASE UNCHANGED crd /\ work' = Idle
  BY <1>1, <1>2, <1>4, FollowEnd
<1>5. CASE PopulateStart
  <2>1. CASE /\ Patched([crd EXCEPT !.populated = TRUE])
             /\ work' = [work EXCEPT !.pc = "populating", !.step = 1]
    <3>1. work'.obj = work.obj /\ work'.pc = "populating"
      BY <2>1
    <3> QED
      BY <1>3, <2>1, <3>1
  <2> QED
    BY <1>4, <1>5, <2>1 DEF PopulateStart
<1>6. CASE Populate
  <2>1. CASE Patched([crd EXCEPT !.populated = FALSE]) /\ Retried
    BY <1>3, <2>1, RetriedTypes
  <2>2. CASE UNCHANGED crd /\ work' = [work EXCEPT !.step = 2]
    <3>1. work'.obj = work.obj /\ work'.pc = work.pc
      BY <2>2
    <3> QED
      BY <1>1, <1>2, <2>2, <3>1, FollowSame
  <2> QED
    BY <1>4, <1>6, <2>1, <2>2 DEF Populate
<1>7. CASE Populated
  BY <1>4, <1>7 DEF Populated
<1> QED
  BY <1>5, <1>6, <1>7

LEMMA FollowFinish ==
    ASSUME NetTypes, NetInv, Following, FinishSteps
    PROVE  Following'
<1> USE DEF NetTypes, NetTypeOK
<1>1. UNCHANGED <<ns, nsWork>> /\ work.pc \in Finishing
  BY DEF FinishSteps, Finalize, RemoveSubports, DeletePoolPort, ForgetPool, DeleteSubnet,
     RemoveFinalizer, Finishing
<1>2. crd'.st = crd.st \/ crd'.st = "none"
  BY NetConstants DEF FinishSteps, Finalize, RemoveSubports, DeletePoolPort, ForgetPool,
     DeleteSubnet, RemoveFinalizer
<1>3. work.pc # "idle" /\ work.obj.st = "deleting"
  BY <1>1 DEF NetInv, Handles, Finishing
<1>4. ~Live
  BY <1>3 DEF Following, CRDFollows
<1>5. ns.st # "active"
  <2>1. crd.st # "none"
    BY <1>3, Busy DEF NetInv
  <2> QED
    BY <1>4, <2>1 DEF Following, NsFollows, Live, CRDType, States
<1>6. ~Live' /\ ns'.st # "active"
  BY <1>1, <1>2, <1>4, <1>5 DEF Live
<1>7. NsFollows'
  BY <1>1, <1>6 DEF Following, NsFollows
<1> QED
  BY <1>6, <1>7 DEF Following, CRDFollows

LEMMA FollowRestart ==
    ASSUME NetTypes, NetInv, Following, GiveUp \/ Restart
    PROVE  Following'
<1> USE DEF NetTypes, NetTypeOK
<1>1. CASE GiveUp
  <2>1. UNCHANGED <<ns, crd, nsWork, rules>> /\ ~alive' /\ work' = Idle
    BY <1>1 DEF GiveUp
  <2> QED
    BY <2>1, FollowEnd
<1>2. CASE Restart
  <2>1. /\ ns'.labels = ns.labels /\ ns'.st = ns.st
        /\ ns.st = "active" => ns'.news
        /\ rules' = rules /\ work' = Idle /\ nsWork' = NsIdle
    BY <1>2 DEF Restart, NsTypeOK
  <2>2. /\ crd'.st = crd.st /\ crd'.spec = crd.spec /\ crd'.labels = crd.labels
        /\ crd.st # "none" => crd'.news = "ADDED"
    BY <1>2 DEF Restart, CRDType
  <2>3. work'.pc = "idle" /\ nsWork'.pc = "idle"
    BY <2>1, NetConstants
  <2>4. NsFollows'
    BY <2>1, <2>2, <2>3 DEF Following, NsFollows, Live
  <2>5. CRDFollows'
    BY <2>1, <2>2, <2>3 DEF Following, CRDFollows, Live
  <2> QED
    BY <2>4, <2>5 DEF Following
<1> QED
  BY <1>1, <1>2

LEMMA FollowPool ==
    ASSUME Following, PoolSteps
    PROVE  Following'
<1>1. UNCHANGED <<ns, crd, nsWork, work, built, rules>>
  BY DEF PoolSteps, netVars
<1>2. alive' => alive
  <2>1. ASSUME NEW f \in Fillers, FillSteps(f)
        PROVE  alive' => alive
    <3>1. CASE FillCreate(f, "subnet" \in built)
      <4>1. alive' = alive \/ alive' = (alive /\ f = "pods")
        BY <3>1 DEF FillCreate, counters
      <4> QED
        BY <4>1
    <3> QED
      BY <2>1, <3>1 DEF FillSteps, FillAttach, FillRegister, Trouble, counters
  <2>2. CASE Recycler \/ Recover
    BY <2>2 DEF Recycler, RecycleStart, Recycle, RecycleDelete, RecycleEnd, Recover, Trouble,
       counters
  <2>3. ASSUME NEW p \in Pods, CreatePod(p) \/ (DeletePod(p) /\ UNCHANGED alive) \/ PodThread(p)
        PROVE  alive' => alive
    BY <2>3 DEF CreatePod, PodThread, Pop, PoolIsEmpty, Annotate, PodGone, Change,
       Trouble, GivenUp, counters
  <2> QED
    BY <2>1, <2>2, <2>3 DEF PoolSteps
<1>3. NsFollows' /\ CRDFollows'
  BY <1>1, <1>2 DEF Following, NsFollows, CRDFollows, Live
<1> QED
  BY <1>3 DEF Following

(* As long as a namespace gets no labels back that it has had before, what *)
(* is recorded never runs ahead of the rules, and nothing is lost between  *)
(* the two threads.                                                        *)
THEOREM StaysFollowing ==
    ASSUME NoReturn
    PROVE  Spec => []Following
<1>1. Init => Following
  BY NetConstants DEF Init, NoCRD, Following, NsFollows, CRDFollows, Live
<1>2. NetTypes /\ NetInv /\ Following /\ [Next]_vars => Following'
  <2>1. ASSUME Following, UNCHANGED vars
        PROVE  Following'
    <3>1. UNCHANGED <<ns, crd, nsWork, work, rules, alive>>
      BY <2>1 DEF vars, netVars, counters
    <3> QED
      BY <2>1, <3>1 DEF Following, NsFollows, CRDFollows, Live
  <2>2. ASSUME NetTypes, NetInv, Following, Next
        PROVE  Following'
    BY <2>2, NetSteps, FollowNs, FollowBuild, FollowPopulate, FollowFinish, FollowRestart, FollowPool
  <2> QED
    BY <2>1, <2>2
<1> QED
  BY <1>1, <1>2, NetStanding, PTL DEF Spec

(* As long as a namespace gets no labels back that it has had before: once *)
(* all events are handled the rules have been made for its labels, through *)
(* relabelling, retries, failures and restarts.                            *)
THEOREM RulesAreCurrent ==
    ASSUME NoReturn
    PROVE  Spec => []LabelsFollow
<1>1. NetTypes /\ Following => LabelsFollow
  <2> SUFFICES ASSUME NetTypes, Following, ns.st = "active", ~ns.news, nsWork = NsIdle,
                      work = Idle, crd.news = "none", alive
               PROVE  rules = ns.labels /\ crd.labels = ns.labels
    BY DEF LabelsFollow
  <2>1. Live /\ crd.spec = ns.labels
    BY NetConstants DEF Following, NsFollows
  <2>2. crd.labels = crd.spec /\ crd.labels <= rules /\ rules <= ns.labels
    BY <2>1, NetConstants DEF Following, CRDFollows
  <2>3. crd.labels \in Nat /\ rules \in Nat /\ ns.labels \in Nat
    BY DEF NetTypes, NsTypeOK, NetTypeOK, CRDType
  <2> QED
    BY <2>1, <2>2, <2>3
<1> QED
  BY <1>1, NetStanding, StaysFollowing, PTL
=============================================================================

-------------------------- MODULE NestedPoolProofs --------------------------
(***************************************************************************)
(* Theorems of NestedPool: types, that vlan ids do not meet on the trunk,  *)
(* and that the ports of the pool and of the pods are attached and apart.  *)
(***************************************************************************)
EXTENDS NestedPool, FiniteSetTheorems, TLAPS

(* The thread that deletes a network recycles too ("network": KuryrNetwork).*)
TypeOK ==
    /\ ports \subseteq Ports /\ trunk \subseteq Ports
    /\ vlan \in [Ports -> Vlans \cup {0}] /\ held \subseteq Vlans
    /\ available \subseteq Ports /\ recyclable \subseteq Ports /\ existing \subseteq Ports
    /\ opened \in BOOLEAN /\ recovered \in BOOLEAN
    /\ pod \in [Pods -> [st : {"none", "present", "gone"}, vif : Ports \cup {None}]]
    /\ popped \in [Pods -> Ports \cup {None}]
    /\ filler \in [Fillers -> [pc : {"idle", "create", "attach", "register"},
                               busy : SUBSET (Vlans \cup {0}), n : Nat, new : SUBSET Ports]]
    /\ recycler \in [by : {"none", "recycler", "network"}, todo : SUBSET Ports,
                     port : Ports \cup {None}]
    /\ freed \in [todo : SUBSET Ports, port : Ports \cup {None}]

(* The ports that the thread that fills the pool is at.                    *)
New == filler["pods"].new

(* The port that a pod has or is about to get.                             *)
Has(p) == {pod[p].vif, popped[p]} \ {None}

(* What the controller has seen of the trunk when it chooses ids is still  *)
(* there, and the ids that it has chosen are not; two subports have two    *)
(* ids.                                                                    *)
Filling ==
    /\ filler["namespace"] = NoFill
    /\ LET w == filler["pods"] IN
       /\ w.pc = "create" => InUse \subseteq w.busy
       /\ w.pc \in {"idle", "create"} => w.new = {}
       /\ w.pc = "attach" => \A q \in w.new, r \in trunk : q # r /\ vlan[q] # vlan[r]
       /\ w.pc = "attach" => \A q, r \in w.new : vlan[q] = vlan[r] => q = r

OwnIds ==
    /\ \A q, r \in trunk : vlan[q] = vlan[r] => q = r
    /\ \A q \in trunk \cup New : vlan[q] # 0

Ids == Filling /\ OwnIds

(* No port is in two places; those of the pool are known.                  *)
Apart ==
    /\ available \cap (recyclable \cup New) = {} /\ recyclable \cap New = {}
    /\ \A p \in Pods : Has(p) \cap (available \cup recyclable \cup New) = {}
    /\ \A p, r \in Pods : p # r => Has(p) \cap Has(r) = {}
    /\ available \cup recyclable \subseteq existing
    /\ \A p \in Pods : popped[p] \in existing \cup {None}

(* What is known is attached, but for the port that is being deleted.      *)
OnTrunk ==
    /\ available \ {freed.port} \subseteq trunk
    /\ recyclable \ {recycler.port} \subseteq trunk
    /\ \A p \in Pods : Has(p) \subseteq trunk
    /\ filler["pods"].pc = "register" => New \subseteq trunk
    /\ trunk \subseteq ports

(* The recycler works on recyclable ports, of which it has detached one.   *)
Recycling ==
    /\ recycler.by = "none" => recycler = NoRecycle
    /\ recycler.todo \subseteq recyclable \ {recycler.port}
    /\ recycler.port # None => recycler.port \in recyclable \ trunk

(* free_pool works alone, on ports that no pod has.                        *)
Freeing ==
    freed # NoFree =>
        /\ recycler = NoRecycle /\ New = {} /\ filler["pods"].pc = "idle"
        /\ \A p \in Pods : popped[p] = None /\ freed.todo \cap Has(p) = {}
        /\ freed.todo \cap recyclable = {}
        /\ freed.todo \subseteq trunk
        /\ freed.port # None => freed.port \notin trunk

(* A pod has a port from its annotation on, or is about to.                *)
Served == \A p \in Pods :
    /\ popped[p] # None => pod[p].st # "none" /\ pod[p].vif = None
    /\ pod[p].st = "none" => pod[p].vif = None

(* Before the recovery the pool is empty and does nothing.                 *)
Starting ==
    ~recovered =>
        /\ available = {} /\ recyclable = {} /\ existing = {}
        /\ filler["pods"] = NoFill /\ recycler = NoRecycle /\ freed = NoFree
        /\ \A p \in Pods : popped[p] = None /\ pod[p].st # "gone"

(* What is known has been created.                                         *)
Known == \A q \in existing : vlan[q] # 0

PlacesInv ==
    /\ Apart /\ OnTrunk /\ Recycling /\ Freeing /\ Served /\ Starting /\ Known

(* None of the timings that are let in.                                    *)
Quiet ==
    /\ "free_while_busy" \notin Races /\ "delete_fails" \notin Races
    /\ "deleted_in_sync" \notin Races

poolState == <<poolVars, counters>>

-----------------------------------------------------------------------------
(* The ranks of the members of a finite set are its members' numbers.      *)

LEMMA RankSteps ==
    ASSUME NEW S, S \subseteq Nat, IsFiniteSet(S)
    PROVE  /\ \A x \in S : Rank(S, x) \in 1..Cardinality(S)
           /\ \A x, y \in S : Rank(S, x) = Rank(S, y) => x = y
<1> DEFINE Upto(x) == {y \in S : y <= x}
<1>1. Cardinality(S) \in Nat
  BY FS_CardinalityType
<1>2. ASSUME NEW x \in S
      PROVE  IsFiniteSet(Upto(x)) /\ Cardinality(Upto(x)) \in 1..Cardinality(S)
  <2>1. IsFiniteSet(Upto(x)) /\ Cardinality(Upto(x)) <= Cardinality(S)
    BY FS_Subset
  <2>2. Upto(x) # {} /\ Cardinality(Upto(x)) \in Nat
    BY <2>1, FS_CardinalityType
  <2>3. Cardinality(Upto(x)) # 0
    BY <2>1, <2>2, FS_EmptySet
  <2> HIDE DEF Upto
  <2> QED
    BY <1>1, <2>1, <2>2, <2>3
<1>3. ASSUME NEW x \in S, NEW y \in S, x < y
      PROVE  Cardinality(Upto(x)) # Cardinality(Upto(y))
  <2>1. x \in Nat /\ y \in Nat
    OBVIOUS
  <2>2. Upto(x) \in SUBSET Upto(y)
    <3>1. \A z \in S : z <= x => z <= y
      BY <1>3, <2>1
    <3> QED
      BY <3>1
  <2>3. y \in Upto(y) /\ y \notin Upto(x)
    BY <1>3, <2>1
  <2>4. IsFiniteSet(Upto(y))
    BY <1>2
  <2> HIDE DEF Upto
  <2> QED
    BY <2>2, <2>3, <2>4, FS_Subset
<1>4. ASSUME NEW x \in S, NEW y \in S, Cardinality(Upto(x)) = Cardinality(Upto(y))
      PROVE  x = y
  <2>1. x < y \/ y < x \/ x = y
    OBVIOUS
  <2> HIDE DEF Upto
  <2> QED
    BY <1>3, <1>4, <2>1
<1> QED
  BY <1>2, <1>4 DEF Rank

(* There is a member for each number.                                      *)
LEMMA RankReaches ==
    ASSUME NEW S, S \subseteq Nat, IsFiniteSet(S), NEW n \in 1..Cardinality(S)
    PROVE  \E x \in S : Rank(S, x) = n
<1> DEFINE f == [x \in S |-> Rank(S, x)]
           N == 1..Cardinality(S)
<1>1. Cardinality(S) \in Nat
  BY FS_CardinalityType
<1>2. f \in Injection(S, N)
  BY RankSteps DEF Injection, IsInjective
<1>3. IsFiniteSet(N) /\ Cardinality(N) = Cardinality(S)
  BY <1>1, FS_Interval
<1>4. f \in Surjection(S, N)
  <2> HIDE DEF f, N
  <2> QED
    BY <1>2, <1>3, FS_Injection
<1>5. PICK x \in S : f[x] = n
  BY <1>4 DEF Surjection
<1> QED
  BY <1>5

(* The ids that FillCreate hands to the new ports.                         *)
LEMMA NewIds ==
    ASSUME TypeOK, NEW new \in SUBSET Ports, NEW ids \in SUBSET Vlans,
           Cardinality(new) = Cardinality(ids),
           vlan' = [q \in Ports |->
                      IF q \in new
                      THEN CHOOSE i \in ids : Rank(ids, i) = Rank(new, q) ELSE vlan[q]]
    PROVE  /\ \A q \in new : vlan'[q] \in ids
           /\ \A q, r \in new : vlan'[q] = vlan'[r] => q = r
           /\ \A q \in Ports \ new : vlan'[q] = vlan[q]
           /\ vlan' \in [Ports -> Vlans \cup {0}]
<1>1. /\ new \subseteq Nat /\ IsFiniteSet(new)
      /\ ids \subseteq Nat /\ IsFiniteSet(ids)
  BY NestedPoolAssumption, FS_Subset
<1>2. ASSUME NEW q \in new
      PROVE  vlan'[q] \in ids /\ Rank(ids, vlan'[q]) = Rank(new, q)
  <2>1. Rank(new, q) \in 1..Cardinality(ids)
    BY <1>1, RankSteps
  <2>2. \E i \in ids : Rank(ids, i) = Rank(new, q)
    BY <1>1, <2>1, RankReaches
  <2>3. vlan'[q] = CHOOSE i \in ids : Rank(ids, i) = Rank(new, q)
    OBVIOUS
  <2> QED
    BY <2>2, <2>3
<1>3. ASSUME NEW q \in new, NEW r \in new, vlan'[q] = vlan'[r]
      PROVE  q = r
  <2>1. Rank(new, q) = Rank(new, r)
    BY <1>2, <1>3
  <2> QED
    BY <1>1, <2>1, RankSteps
<1>4. \A q \in Ports \ new : vlan'[q] = vlan[q]
  OBVIOUS
<1>5. \A q \in Ports : vlan'[q] \in Vlans \cup {0}
  BY <1>2, <1>4 DEF TypeOK
<1> QED
  BY <1>2, <1>3, <1>4, <1>5

(* None of a set.                                                          *)
LEMMA LeastNone ==
    ASSUME NEW S, S \subseteq Nat, IsFiniteSet(S)
    PROVE  Least(S, 0) = {}
<1>1. Cardinality(S) \in Nat
  BY FS_CardinalityType
<1>2. ASSUME NEW x \in S
      PROVE  ~(Rank(S, x) <= 0)
  <2> DEFINE n == Rank(S, x)
  <2>1. n \in 1..Cardinality(S)
    BY RankSteps
  <2> HIDE DEF n
  <2>2. ~(n <= 0)
    BY <1>1, <2>1
  <2> QED
    BY <2>2 DEF n
<1> QED
  BY <1>2 DEF Least

(* What FillCreate does when it succeeds.                                  *)
Creates(f, new, ids) ==
    /\ new \in SUBSET Unused /\ ids \in SUBSET FreeIds(f)
    /\ \A q \in new : vlan'[q] \in ids
    /\ \A q, r \in new : vlan'[q] = vlan'[r] => q = r
    /\ \A q \in Ports \ new : vlan'[q] = vlan[q]
    /\ vlan' \in [Ports -> Vlans \cup {0}]
    /\ ports' = ports \cup new /\ held' = held \cup ids
    /\ \/ new = {} /\ Fill(f, NoFill)
       \/ Fill(f, [NoFill EXCEPT !.pc = "attach", !.new = new])

LEMMA FillCreatesIf ==
    ASSUME TypeOK, NEW f \in Fillers, NEW exists, FillCreate(f, exists)
    PROVE  /\ filler[f].pc = "create"
           /\ UNCHANGED <<trunk, tables, pod, popped, recycler, freed>>
           /\ \/ /\ \E new, ids \in SUBSET Nat : Creates(f, new, ids)
                 /\ exists \/ ports' = ports
              \/ /\ Fill(f, NoFill) /\ UNCHANGED <<ports, vlan>>
                 /\ held \subseteq held' /\ held' \subseteq Vlans
<1> DEFINE ids == Least(FreeIds(f), filler[f].n)
           new == Least(Unused, Cardinality(ids))
           can == exists /\ Cardinality(new) = Cardinality(ids)
<1>1. ids \in SUBSET Vlans /\ ids \in SUBSET FreeIds(f) /\ ids \in SUBSET Nat
  BY NestedPoolAssumption DEF Least, FreeIds
<1>2. IsFiniteSet(ids) /\ Cardinality(ids) \in Nat
  BY <1>1, NestedPoolAssumption, FS_Subset, FS_CardinalityType
<1>3. new \in SUBSET Unused /\ new \in SUBSET Ports /\ new \in SUBSET Nat
  BY NestedPoolAssumption DEF Least, Unused
<1>4. ids = {} => Cardinality(new) = Cardinality(ids)
  <2>1. ids = {} => Cardinality(ids) = 0
    BY FS_EmptySet
  <2>2. Unused \subseteq Nat /\ IsFiniteSet(Unused)
    BY NestedPoolAssumption, FS_Subset DEF Unused
  <2>3. Least(Unused, 0) = {}
    BY <2>2, LeastNone
  <2> HIDE DEF ids
  <2> QED
    BY <2>1, <2>3, FS_EmptySet
<1>5. filler[f].pc = "create" /\ UNCHANGED <<trunk, tables, pod, popped, recycler, freed>>
  BY DEF FillCreate
<1>6. \/ /\ can \/ ids = {}
         /\ ports' = ports \cup new
         /\ vlan' = [q \in Ports |->
                IF q \in new
                THEN CHOOSE i \in ids : Rank(ids, i) = Rank(new, q) ELSE vlan[q]]
         /\ held' = held \cup ids
         /\ Fill(f, IF ids = {} THEN NoFill
                    ELSE [NoFill EXCEPT !.pc = "attach", !.new = new])
      \/ /\ held' = held \cup ids
         /\ Fill(f, NoFill)
         /\ UNCHANGED <<ports, vlan>>
  BY DEF FillCreate
<1> HIDE DEF ids, new
<1>7. CASE /\ can \/ ids = {}
           /\ ports' = ports \cup new
           /\ vlan' = [q \in Ports |->
                  IF q \in new
                  THEN CHOOSE i \in ids : Rank(ids, i) = Rank(new, q) ELSE vlan[q]]
           /\ held' = held \cup ids
           /\ Fill(f, IF ids = {} THEN NoFill
                      ELSE [NoFill EXCEPT !.pc = "attach", !.new = new])
  <2>1. Cardinality(new) = Cardinality(ids)
    BY <1>4, <1>7
  <2>2. ids = {} => new = {}
    <3>1. IsFiniteSet(new)
      BY <1>3, NestedPoolAssumption, FS_Subset
    <3> QED
      BY <2>1, <3>1, FS_EmptySet
  <2>3. Creates(f, new, ids)
    BY <1>1, <1>3, <1>7, <2>1, <2>2, NewIds DEF Creates
  <2>4. exists \/ ports' = ports
    BY <1>7, <2>2
  <2> QED
    BY <1>1, <1>3, <1>5, <2>3, <2>4
<1>8. CASE /\ held' = held \cup ids
           /\ Fill(f, NoFill)
           /\ UNCHANGED <<ports, vlan>>
  BY <1>1, <1>5, <1>8 DEF TypeOK
<1> QED
  BY <1>6, <1>7, <1>8

(* When the network is there.                                              *)
LEMMA FillCreates ==
    ASSUME TypeOK, NEW f \in Fillers, FillCreate(f, TRUE)
    PROVE  /\ filler[f].pc = "create"
           /\ UNCHANGED <<trunk, tables, pod, popped, recycler, freed>>
           /\ \/ \E new, ids \in SUBSET Nat : Creates(f, new, ids)
              \/ /\ Fill(f, NoFill) /\ UNCHANGED <<ports, vlan>>
                 /\ held \subseteq held' /\ held' \subseteq Vlans
BY FillCreatesIf

-----------------------------------------------------------------------------
(* Types.                                                                  *)

FillerType == [pc : {"idle", "create", "attach", "register"},
               busy : SUBSET (Vlans \cup {0}), n : Nat, new : SUBSET Ports]
PodType == [st : {"none", "present", "gone"}, vif : Ports \cup {None}]

LEMMA Constants ==
    /\ NoFill \in FillerType
    /\ NoRecycle \in [by : {"none", "recycler", "network"}, todo : SUBSET Ports,
                      port : Ports \cup {None}]
    /\ NoFree \in [todo : SUBSET Ports, port : Ports \cup {None}]
    /\ "pods" \in Fillers /\ "namespace" \in Fillers
BY DEF NoFill, NoRecycle, NoFree, Fillers, FillerType

(* The thread that a request starts, if it does.                           *)
LEMMA Spawns ==
    ASSUME TypeOK, NEW s \in SUBSET Ports, filler' = Spawned(s)
    PROVE  \/ filler' = filler
           \/ /\ filler["pods"].pc = "idle" /\ recovered
              /\ \E n \in Nat : filler' = [filler EXCEPT !["pods"] = Reads(n)]
<1> DEFINE k == Cardinality(s)
<1>1. k \in Nat
  BY NestedPoolAssumption, FS_Subset, FS_CardinalityType
<1> HIDE DEF k
<1>2. k < PoolMin => Bigger(Batch, PoolMin - k) \in Nat
  BY <1>1, NestedPoolAssumption DEF Bigger
<1> QED
  BY <1>2 DEF Spawned, k

LEMMA SpawnType ==
    ASSUME TypeOK, NEW s \in SUBSET Ports, filler' = Spawned(s)
    PROVE  filler' \in [Fillers -> FillerType]
<1>1. InUse \subseteq Vlans \cup {0}
  BY DEF InUse, TypeOK
<1>2. \A n \in Nat : Reads(n) \in FillerType
  BY <1>1 DEF Reads, FillerType
<1> QED
  BY <1>2, Spawns DEF TypeOK, FillerType

LEMMA PodTypes ==
    ASSUME TypeOK, NEW p \in Pods,
           CreatePod(p) \/ DeletePod(p) \/ PodThread(p)
    PROVE  TypeOK'
<1> USE DEF TypeOK
<1>1. CASE CreatePod(p) \/ DeletePod(p)
  <2>1. \A st \in {"present", "gone"} : [pod[p] EXCEPT !.st = st] \in PodType
    BY DEF PodType
  <2>2. pod' \in [Pods -> PodType]
    <3>1. pod \in [Pods -> PodType]
      BY DEF PodType
    <3>2. \E st \in {"present", "gone"} : pod' = [pod EXCEPT ![p] = [pod[p] EXCEPT !.st = st]]
      BY <1>1, <3>1 DEF CreatePod, DeletePod
    <3> QED
      BY <2>1, <3>1, <3>2
  <2> QED
    BY <1>1, <2>2 DEF CreatePod, DeletePod, neutron, tables, threads, PodType
<1>2. CASE Pop(p)
  <2>1. PICK q \in available :
           /\ available' = available \ {q}
           /\ popped' = [popped EXCEPT ![p] = q] \/ UNCHANGED popped
    BY <1>2 DEF Pop
  <2>2. filler' \in [Fillers -> FillerType]
    BY <1>2, <2>1, SpawnType DEF Pop
  <2> QED
    BY <1>2, <2>1, <2>2 DEF Pop, neutron, FillerType
<1>3. CASE PoolIsEmpty(p)
  <2>1. filler' \in [Fillers -> FillerType]
    BY <1>3, SpawnType DEF PoolIsEmpty
  <2> QED
    BY <1>3, <2>1 DEF PoolIsEmpty, neutron, tables, FillerType
<1>4. CASE Annotate(p)
  BY <1>4 DEF Annotate, Release, neutron
<1>5. CASE PodGone(p)
  <2>1. pod' \in [Pods -> PodType]
    BY <1>5 DEF PodGone, PodType
  <2>2. recyclable' \subseteq Ports /\ existing' \subseteq Ports
    BY <1>5 DEF PodGone, Release
  <2> QED
    BY <1>5, <2>1, <2>2 DEF PodGone, neutron, threads, PodType
<1> QED
  BY <1>1, <1>2, <1>3, <1>4, <1>5 DEF PodThread

LEMMA FillTypesOf ==
    ASSUME TypeOK, NEW f \in Fillers, NEW exists,
           FillCreate(f, exists) \/ FillAttach(f) \/ FillRegister(f)
    PROVE  TypeOK'
<1> USE DEF TypeOK
<1>1. CASE FillCreate(f, exists)
  <2>1. UNCHANGED <<trunk, tables, pod, popped, recycler, freed>>
    BY <1>1, Constants, FillCreatesIf
  <2>2. CASE \E new, ids \in SUBSET Nat : Creates(f, new, ids)
    <3>1. PICK new \in SUBSET Nat, ids \in SUBSET Nat : Creates(f, new, ids)
      BY <2>2
    <3>2. new \subseteq Ports /\ ids \subseteq Vlans
      BY <3>1 DEF Creates, Unused, FreeIds
    <3>3. [NoFill EXCEPT !.pc = "attach", !.new = new] \in FillerType
      BY <3>2 DEF NoFill, FillerType
    <3>4. filler' \in [Fillers -> FillerType]
      BY <3>1, <3>3, Constants DEF Creates, Fill, FillerType
    <3> QED
      BY <2>1, <3>1, <3>2, <3>4 DEF Creates, tables, FillerType
  <2>3. CASE Fill(f, NoFill) /\ UNCHANGED <<ports, vlan>> /\ held' \subseteq Vlans
    BY <2>1, <2>3, Constants DEF Fill, tables, FillerType
  <2> QED
    BY <1>1, <2>2, <2>3, Constants, FillCreatesIf
<1>2. CASE FillAttach(f)
  <2>1. filler' \in [Fillers -> FillerType]
    <3>1. [filler[f] EXCEPT !.pc = "register"] \in FillerType
      BY Constants DEF FillerType
    <3>2. \/ Fill(f, [filler[f] EXCEPT !.pc = "register"])
          \/ Fill(f, NoFill)
      BY <1>2 DEF FillAttach
    <3> QED
      BY <3>1, <3>2, Constants DEF Fill, FillerType
  <2>2. ports' \subseteq Ports /\ trunk' \subseteq Ports
    BY <1>2, Constants DEF FillAttach, FillerType
  <2> QED
    BY <1>2, <2>1, <2>2 DEF FillAttach, tables, FillerType
<1>3. CASE FillRegister(f)
  BY <1>3, Constants DEF FillRegister, Fill, neutron, FillerType
<1> QED
  BY <1>1, <1>2, <1>3

LEMMA FillTypes ==
    ASSUME TypeOK, FillThread
    PROVE  TypeOK'
BY FillTypesOf, Constants DEF FillThread

LEMMA OtherTypes ==
    ASSUME TypeOK, Recycler \/ FreePool \/ Manager \/ Recover \/ ForgetsPool
    PROVE  TypeOK'
<1> USE DEF TypeOK
<1>1. CASE RecycleStart
  BY <1>1 DEF RecycleStart, Recycles, neutron, tables
<1>2. CASE Recycle
  <2>1. PICK q \in recycler.todo :
           /\ \/ trunk' = trunk \/ trunk' = trunk \ {q}
           /\ \/ UNCHANGED <<available, opened, recyclable>>
              \/ /\ available' = available \cup {q} /\ opened' = TRUE
                 /\ recyclable' = recyclable \ {q}
           /\ \/ recycler' = [recycler EXCEPT !.todo = @ \ {q}]
              \/ recycler' = [[recycler EXCEPT !.todo = @ \ {q}] EXCEPT !.port = q]
    BY <1>2 DEF Recycle
  <2>2. recycler' \in [by : {"none", "recycler", "network"}, todo : SUBSET Ports,
                       port : Ports \cup {None}]
    <3>1. q \in Ports /\ recycler.todo \ {q} \subseteq Ports
      OBVIOUS
    <3> QED
      BY <2>1, <3>1
  <2>3. /\ trunk' \subseteq Ports /\ available' \subseteq Ports /\ recyclable' \subseteq Ports
        /\ opened' \in BOOLEAN
    BY <2>1
  <2> QED
    BY <1>2, <2>2, <2>3 DEF Recycle
<1>3. CASE RecycleDelete
  BY <1>3 DEF RecycleDelete
<1>4. CASE RecycleEnd
  BY <1>4, Constants DEF RecycleEnd, neutron, tables
<1>5. CASE FreePool
  BY <1>5 DEF FreePool, neutron, tables
<1>6. CASE FreePort
  <2>1. ports' \subseteq Ports /\ trunk' \subseteq Ports
    BY <1>6 DEF FreePort
  <2>2. freed' \in [todo : SUBSET Ports, port : Ports \cup {None}]
    BY <1>6 DEF FreePort
  <2> QED
    BY <1>6, <2>1, <2>2 DEF FreePort, tables
<1>7. CASE FreeForget
  BY <1>7 DEF FreeForget
<1>8. CASE Recover
  BY <1>8 DEF Recover
<1>9. CASE ForgetsPool
  <2>1. pod' \in [Pods -> PodType]
    BY <1>9 DEF ForgetsPool, PodType
  <2>2. filler' \in [Fillers -> FillerType]
    BY <1>9, Constants DEF ForgetsPool
  <2> QED
    BY <1>9, <2>1, <2>2, Constants DEF ForgetsPool, PodType, FillerType
<1> QED
  BY <1>1, <1>2, <1>3, <1>4, <1>5, <1>6, <1>7, <1>8, <1>9 DEF Recycler, Manager

(* The variables have their types, for any pods, ports, ids and sizes.     *)
THEOREM Types == PoolSpec => []TypeOK
<1>1. PoolInit => TypeOK
  <2> SUFFICES ASSUME PoolInit PROVE TypeOK
    OBVIOUS
  <2>1. filler \in [Fillers -> FillerType]
    BY Constants DEF PoolInit
  <2>2. pod \in [Pods -> PodType]
    BY DEF PoolInit, PodType
  <2> QED
    BY <2>1, <2>2, Constants DEF PoolInit, TypeOK, FillerType, PodType
<1>2. TypeOK /\ [PoolNext]_poolState => TypeOK'
  <2>1. TypeOK /\ UNCHANGED poolState => TypeOK'
    BY DEF TypeOK, poolState, poolVars
  <2> QED
    BY <2>1, PodTypes, FillTypes, OtherTypes DEF PoolNext, PoolRestart
<1> QED
  BY <1>1, <1>2, PTL DEF PoolSpec, poolState

-----------------------------------------------------------------------------
(* The vlan ids of the trunk.                                              *)

(* Only ports that leave the trunk, and no thread that goes on.            *)
LEMMA IdsLeave ==
    ASSUME TypeOK, Ids, trunk' \subseteq trunk, UNCHANGED <<vlan, filler>>
    PROVE  Ids'
<1>1. InUse' \subseteq InUse
  BY DEF InUse
<1>2. Filling'
  BY <1>1 DEF Ids, Filling
<1>3. OwnIds'
  BY DEF Ids, OwnIds, New
<1> QED
  BY <1>2, <1>3 DEF Ids

(* A thread is started that reads the trunk.                               *)
LEMMA IdsSpawn ==
    ASSUME TypeOK, Ids, UNCHANGED <<trunk, vlan>>, NEW s \in SUBSET Ports,
           filler' = Spawned(s)
    PROVE  Ids'
<1>1. CASE filler' = filler
  BY <1>1, IdsLeave
<1>2. ASSUME NEW n \in Nat, filler["pods"].pc = "idle",
             filler' = [filler EXCEPT !["pods"] = Reads(n)]
      PROVE  Ids'
  <2>1. filler'["pods"] = Reads(n) /\ filler'["namespace"] = filler["namespace"]
    BY <1>2, Constants DEF TypeOK, Fillers
  <2>2. InUse' = InUse
    BY DEF InUse
  <2>3. Filling'
    BY <2>1, <2>2 DEF Ids, Filling, Reads
  <2>4. OwnIds'
    BY <2>1 DEF Ids, OwnIds, New, Reads
  <2> QED
    BY <2>3, <2>4 DEF Ids
<1> QED
  BY <1>1, <1>2, Spawns

(* The thread ends.                                                        *)
LEMMA IdsEnd ==
    ASSUME TypeOK, Ids, UNCHANGED <<trunk, vlan>>, Fill("pods", NoFill)
    PROVE  Ids'
<1>1. filler'["pods"] = NoFill /\ filler'["namespace"] = filler["namespace"]
  BY Constants DEF TypeOK, Fill, Fillers
<1>2. Filling'
  BY <1>1 DEF Ids, Filling, NoFill
<1>3. OwnIds'
  BY <1>1 DEF Ids, OwnIds, New, NoFill
<1> QED
  BY <1>2, <1>3 DEF Ids

LEMMA IdsCreate ==
    ASSUME TypeOK, Ids, FillCreate("pods", TRUE)
    PROVE  Ids'
<1>1. filler["pods"].pc = "create" /\ UNCHANGED trunk
  BY Constants, FillCreates
<1>2. InUse \subseteq filler["pods"].busy
  BY <1>1 DEF Ids, Filling
<1>3. CASE Fill("pods", NoFill) /\ UNCHANGED <<ports, vlan>>
  BY <1>1, <1>3, IdsEnd
<1>4. ASSUME NEW new, NEW ids, Creates("pods", new, ids)
      PROVE  Ids'
  <2>1. \A q \in trunk : vlan'[q] = vlan[q] /\ vlan[q] # 0 /\ q \notin new
    BY <1>4 DEF Ids, OwnIds, Creates, Unused, TypeOK
  <2>2. \A q \in new, r \in trunk : q # r /\ vlan'[q] # vlan'[r]
    BY <1>2, <1>4, <2>1 DEF Creates, FreeIds, InUse
  <2>3. \A q \in new : vlan'[q] # 0
    BY <1>4, NestedPoolAssumption DEF Creates, FreeIds
  <2>4. \A q, r \in trunk : vlan'[q] = vlan'[r] => q = r
    BY <2>1 DEF Ids, OwnIds
  <2>5. CASE new = {} /\ Fill("pods", NoFill)
    <3>1. vlan' = vlan
      BY <1>4, <2>5 DEF Creates, TypeOK
    <3> QED
      BY <1>1, <2>5, <3>1, IdsEnd
  <2>6. CASE Fill("pods", [NoFill EXCEPT !.pc = "attach", !.new = new])
    <3>1. /\ filler'["pods"].pc = "attach" /\ filler'["pods"].new = new
          /\ filler'["namespace"] = filler["namespace"]
      BY <2>6, Constants DEF TypeOK, Fill, Fillers, NoFill
    <3>2. \A q, r \in new : vlan'[q] = vlan'[r] => q = r
      BY <1>4 DEF Creates
    <3>3. Filling'
      BY <1>1, <2>2, <3>1, <3>2 DEF Ids, Filling
    <3>4. OwnIds'
      BY <1>1, <2>1, <2>3, <2>4, <3>1 DEF OwnIds, New
    <3> QED
      BY <3>3, <3>4 DEF Ids
  <2> QED
    BY <1>4, <2>5, <2>6 DEF Creates
<1> QED
  BY <1>3, <1>4, Constants, FillCreates

LEMMA IdsAttach ==
    ASSUME TypeOK, Ids, FillAttach("pods")
    PROVE  Ids'
<1> DEFINE new == filler["pods"].new
<1>1. filler["pods"].pc = "attach" /\ UNCHANGED vlan
  BY DEF FillAttach
<1>2. CASE UNCHANGED trunk /\ Fill("pods", NoFill)
  BY <1>1, <1>2, IdsEnd
<1>3. CASE trunk' = trunk \cup new /\ Fill("pods", [filler["pods"] EXCEPT !.pc = "register"])
  <2>1. /\ filler'["pods"].pc = "register" /\ filler'["pods"].new = new
        /\ filler'["namespace"] = filler["namespace"]
    BY <1>3, Constants DEF TypeOK, Fill, Fillers
  <2>2. Filling'
    BY <2>1 DEF Ids, Filling
  <2>3. /\ \A q \in new, r \in trunk : vlan[q] # vlan[r]
        /\ \A q, r \in new : vlan[q] = vlan[r] => q = r
    BY <1>1 DEF Ids, Filling
  <2>4. OwnIds'
    BY <1>1, <1>3, <2>1, <2>3 DEF Ids, OwnIds, New
  <2> QED
    BY <2>2, <2>4 DEF Ids
<1> QED
  BY <1>2, <1>3 DEF FillAttach

LEMMA IdsStep ==
    ASSUME TypeOK, Ids, PoolNext
    PROVE  Ids'
<1>1. ASSUME NEW p \in Pods, CreatePod(p) \/ DeletePod(p) \/ PodThread(p)
      PROVE  Ids'
  <2>1. CASE CreatePod(p) \/ DeletePod(p) \/ Annotate(p) \/ PodGone(p)
    BY <2>1, IdsLeave DEF CreatePod, DeletePod, Annotate, PodGone, neutron, threads
  <2>2. CASE Pop(p)
    <3>1. available' \in SUBSET Ports
      BY <2>2 DEF Pop, TypeOK
    <3> QED
      BY <2>2, <3>1, IdsSpawn DEF Pop, neutron
  <2>3. CASE PoolIsEmpty(p)
    BY <2>3, IdsSpawn DEF PoolIsEmpty, neutron
  <2> QED
    BY <1>1, <2>1, <2>2, <2>3 DEF PodThread
<1>2. CASE FillRegister("pods")
  BY <1>2, IdsEnd DEF FillRegister, neutron
<1>3. CASE Recycler \/ FreePool \/ Manager \/ Recover
  <2>1. trunk' \subseteq trunk /\ UNCHANGED <<vlan, filler>>
    BY <1>3 DEF Recycler, RecycleStart, Recycle, RecycleDelete, RecycleEnd, FreePool,
                Manager,
                FreePort, FreeForget, Recover, neutron
  <2> QED
    BY <2>1, IdsLeave
<1>4. CASE PoolRestart
  <2>1. UNCHANGED <<trunk, vlan>> /\ filler' = [f \in Fillers |-> NoFill]
    BY <1>4 DEF PoolRestart, ForgetsPool
  <2>2. Filling'
    BY <2>1, Constants DEF Filling, NoFill
  <2>3. OwnIds'
    BY <2>1, Constants DEF Ids, OwnIds, New, NoFill
  <2> QED
    BY <2>2, <2>3 DEF Ids
<1> QED
  BY <1>1, <1>2, <1>3, <1>4, IdsCreate, IdsAttach DEF PoolNext, FillThread

(* No two subports of the trunk have one vlan id, whatever races, failures *)
(* and restarts there are: FreeIds looks at the trunk and at what has been *)
(* handed out, and the trunk may lose ports but not get others meanwhile.  *)
THEOREM OneIdEach == PoolSpec => []Ids
<1>1. PoolInit => Ids
  BY Constants DEF PoolInit, Ids, Filling, OwnIds, New, NoFill
<1>2. TypeOK /\ Ids /\ [PoolNext]_poolState => Ids'
  <2>1. UNCHANGED poolState => UNCHANGED <<trunk, vlan, filler>>
    BY DEF poolState, poolVars
  <2> QED
    BY <2>1, IdsLeave, IdsStep
<1> QED
  BY <1>1, <1>2, Types, PTL DEF PoolSpec, poolState

(* The controller never attaches ports under vlan ids that are in use.     *)
THEOREM NoIdConflict == PoolSpec => []NoConflict
<1>1. TypeOK /\ Ids => NoConflict
  <2> SUFFICES ASSUME TypeOK, Ids, NEW f \in Fillers, filler[f].pc = "attach"
               PROVE  {vlan[q] : q \in filler[f].new} \cap InUse = {}
    BY DEF NoConflict
  <2>1. f = "pods"
    BY DEF Ids, Filling, Fillers, NoFill
  <2> QED
    BY <2>1 DEF Ids, Filling, InUse
<1> QED
  BY <1>1, Types, OneIdEach, PTL

-----------------------------------------------------------------------------
(* The places of the ports: one lemma per action. *)

(* A pod is created.                                                       *)
LEMMA PlacesCreatePod ==
    ASSUME TypeOK, Ids, PlacesInv, Quiet, NEW p \in Pods, CreatePod(p)
    PROVE  PlacesInv'
<1>1. \A r \in Pods : Has(r)' = Has(r)
  BY DEF CreatePod, neutron, tables, threads, counters, TypeOK, Has
<1>2. Apart'
  BY <1>1 DEF CreatePod, neutron, tables, threads, counters, PlacesInv, Apart, New
<1>3. OnTrunk'
  BY <1>1 DEF CreatePod, neutron, tables, threads, counters, PlacesInv, OnTrunk, New
<1>4. Recycling'
  BY <1>1 DEF CreatePod, neutron, tables, threads, counters, PlacesInv, Recycling,
              NoRecycle
<1>5. Freeing'
  BY <1>1 DEF CreatePod, neutron, tables, threads, PlacesInv, Freeing, New
<1>6. Served'
  BY <1>1 DEF CreatePod, neutron, tables, threads, counters, PlacesInv, Served
<1>7. Starting'
  BY DEF CreatePod, tables, threads, PlacesInv, Starting
<1>8. Known'
  BY <1>1 DEF CreatePod, neutron, tables, threads, counters, PlacesInv, Known
<1> QED
  BY <1>2, <1>3, <1>4, <1>5, <1>6, <1>7, <1>8 DEF PlacesInv

(* A pod is deleted from the API.                                          *)
LEMMA PlacesDeletePod ==
    ASSUME TypeOK, Ids, PlacesInv, Quiet, NEW p \in Pods, DeletePod(p)
    PROVE  PlacesInv'
<1>1. \A r \in Pods : Has(r)' = Has(r)
  BY DEF DeletePod, neutron, tables, threads, TypeOK, Has
<1>2. Apart'
  BY <1>1 DEF DeletePod, neutron, tables, threads, PlacesInv, Apart, New
<1>3. OnTrunk'
  BY <1>1 DEF DeletePod, neutron, tables, threads, PlacesInv, OnTrunk, New
<1>4. Recycling'
  BY <1>1 DEF DeletePod, neutron, tables, threads, PlacesInv, Recycling, NoRecycle
<1>5. Freeing'
  BY <1>1 DEF DeletePod, neutron, tables, threads, PlacesInv, Freeing, New, NoFree
<1>6. Served'
  BY <1>1 DEF DeletePod, neutron, tables, threads, PlacesInv, Served
<1>7. Starting'
  BY DEF DeletePod, tables, Quiet, Starting
<1>8. Known'
  BY <1>1 DEF DeletePod, neutron, tables, threads, PlacesInv, Known
<1> QED
  BY <1>2, <1>3, <1>4, <1>5, <1>6, <1>7, <1>8 DEF PlacesInv

(* A pod's thread annotates the port it has popped, or releases it.        *)
LEMMA PlacesAnnotate ==
    ASSUME TypeOK, Ids, PlacesInv, Quiet, NEW p \in Pods, Annotate(p)
    PROVE  PlacesInv'
<1>1. /\ \A r \in Pods \ {p} : Has(r)' = Has(r) /\ popped'[r] = popped[r]
      /\ popped[p] \in Has(p) /\ popped'[p] = None /\ UNCHANGED <<available, filler>>
      /\ \/ Has(p)' = Has(p) /\ UNCHANGED <<recyclable, existing>>
         \/ /\ Has(p)' = {} /\ recyclable' = recyclable \cup {popped[p]}
            /\ existing' = existing \cup {popped[p]}
  BY DEF Annotate, Release, TypeOK, Has, PlacesInv, Served
<1>2. Has(p) \subseteq Ports /\ popped[p] \in Ports
  BY DEF Annotate, Release, neutron, TypeOK, Has
<1>3. Apart'
  <2>1. (available \cap (recyclable \cup New) = {} /\ recyclable \cap New = {})'
    BY <1>1, <1>2 DEF Annotate, Release, neutron, PlacesInv, Apart, New
  <2>2. (\A r \in Pods : Has(r) \cap (available \cup recyclable \cup New) = {})'
    BY <1>1, <1>2 DEF Annotate, Release, neutron, PlacesInv, Apart, New
  <2>3. (\A s, r \in Pods : s # r => Has(s) \cap Has(r) = {})'
    BY <1>1, <1>2 DEF Annotate, Release, neutron, PlacesInv, Apart, New
  <2>4. (available \cup recyclable \subseteq existing)'
    BY <1>1, <1>2 DEF Annotate, Release, neutron, PlacesInv, Apart, New
  <2>5. (\A r \in Pods : popped[r] \in existing \cup {None})'
    BY <1>1, <1>2 DEF Annotate, Release, neutron, PlacesInv, Apart, New
  <2> QED
    BY <2>1, <2>2, <2>3, <2>4, <2>5 DEF Apart
<1>4. OnTrunk'
  <2>1. CASE pod[p].vif = None /\ pod'[p].vif = popped[p]
    BY <1>1, <1>2, <2>1 DEF Annotate, Release, neutron, PlacesInv, OnTrunk, New
  <2>2. CASE UNCHANGED pod
    BY <1>1, <1>2, <2>2 DEF Annotate, Release, neutron, PlacesInv, OnTrunk, New
  <2> QED
    BY <2>1, <2>2 DEF Annotate, Release, neutron, TypeOK, PlacesInv, Served
<1>5. Recycling'
  BY <1>1, <1>2 DEF Annotate, Release, neutron, PlacesInv, Recycling, NoRecycle
<1>6. Freeing'
  BY <1>1, <1>2 DEF Annotate, Release, neutron, PlacesInv, Freeing, New, NoFree
<1>7. Served'
  BY DEF Annotate, TypeOK, PlacesInv, Served
<1>8. Starting'
  BY DEF Annotate, PlacesInv, Starting
<1>9. Known'
  BY DEF Annotate, Release, neutron, PlacesInv, Apart, Known
<1> QED
  BY <1>3, <1>4, <1>5, <1>6, <1>7, <1>8, <1>9 DEF PlacesInv

(* The port of a pod that is gone becomes recyclable.                      *)
LEMMA PlacesPodGone ==
    ASSUME TypeOK, Ids, PlacesInv, Quiet, NEW p \in Pods, PodGone(p)
    PROVE  PlacesInv'
<1>1. /\ \A r \in Pods \ {p} : Has(r)' = Has(r)
      /\ Has(p)' = {} /\ recyclable' = recyclable \cup Has(p)
      /\ existing' = existing \cup Has(p)
  BY DEF PodGone, Release, neutron, threads, TypeOK, Has
<1>2. Has(p) \subseteq Ports
  BY DEF PodGone, Release, neutron, threads, TypeOK, Has
<1>3. Apart'
  <2>1. (available \cap (recyclable \cup New) = {} /\ recyclable \cap New = {})'
    BY <1>1, <1>2 DEF PodGone, Release, neutron, threads, PlacesInv, Apart, New
  <2>2. (\A r \in Pods : Has(r) \cap (available \cup recyclable \cup New) = {})'
    BY <1>1, <1>2 DEF PodGone, Release, neutron, threads, PlacesInv, Apart, New
  <2>3. (\A s, r \in Pods : s # r => Has(s) \cap Has(r) = {})'
    BY <1>1, <1>2 DEF PodGone, Release, neutron, threads, PlacesInv, Apart, New
  <2>4. (available \cup recyclable \subseteq existing)'
    BY <1>1, <1>2 DEF PodGone, Release, neutron, threads, PlacesInv, Apart, New
  <2>5. (\A r \in Pods : popped[r] \in existing \cup {None})'
    BY <1>1, <1>2 DEF PodGone, Release, neutron, threads, PlacesInv, Apart, New
  <2> QED
    BY <2>1, <2>2, <2>3, <2>4, <2>5 DEF Apart
<1>4. OnTrunk'
  BY <1>1, <1>2 DEF PodGone, Release, neutron, threads, PlacesInv, OnTrunk, New
<1>5. Recycling'
  BY <1>1, <1>2 DEF PodGone, Release, neutron, threads, PlacesInv, Recycling, NoRecycle
<1>6. Freeing'
  BY <1>1 DEF PodGone, neutron, threads, PlacesInv, Freeing, New
<1>7. Served'
  BY <1>1, <1>2 DEF PodGone, Release, neutron, threads, PlacesInv, Served
<1>8. Starting'
  BY DEF PodGone, PlacesInv, Starting
<1>9. Known'
  BY <1>1 DEF PodGone, neutron, Ids, OwnIds, PlacesInv, OnTrunk, Known
<1> QED
  BY <1>3, <1>4, <1>5, <1>6, <1>7, <1>8, <1>9 DEF PlacesInv

(* The recycler takes the recyclable ports.                                *)
LEMMA PlacesRecycleStart ==
    ASSUME TypeOK, Ids, PlacesInv, Quiet, RecycleStart
    PROVE  PlacesInv'
<1>1. \A r \in Pods : Has(r)' = Has(r) /\ popped[r] \in Has(r) \cup {None}
  BY DEF RecycleStart, Recycles, Unlocked, Undisturbed, neutron, tables, TypeOK, Has
<1>2. Apart'
  BY <1>1 DEF RecycleStart, tables, PlacesInv, Apart, New
<1>3. OnTrunk'
  BY <1>1 DEF RecycleStart, Recycles, Unlocked, neutron, tables, PlacesInv, OnTrunk,
              Recycling, New, NoRecycle
<1>4. Recycling'
  BY NestedPoolAssumption DEF RecycleStart, Recycles, tables, TypeOK, Recycling
<1>5. Freeing'
  BY DEF RecycleStart, Undisturbed, Quiet, Freeing
<1>6. Served'
  BY <1>1 DEF RecycleStart, Recycles, Unlocked, Undisturbed, neutron, tables,
              PlacesInv, Served
<1>7. Starting'
  BY DEF RecycleStart, tables, PlacesInv, Starting
<1>8. Known'
  BY <1>1 DEF RecycleStart, Recycles, Unlocked, Undisturbed, neutron, tables,
              PlacesInv, Known
<1> QED
  BY <1>2, <1>3, <1>4, <1>5, <1>6, <1>7, <1>8 DEF PlacesInv

(* It returns a port to the pool, or detaches it.                          *)
LEMMA PlacesRecycle ==
    ASSUME TypeOK, Ids, PlacesInv, Quiet, Recycle
    PROVE  PlacesInv'
<1>1. \A r \in Pods : Has(r)' = Has(r) /\ popped[r] \in Has(r) \cup {None}
  BY DEF Recycle, TypeOK, Has
<1>2. PICK q \in recycler.todo :
         /\ recycler'.todo = recycler.todo \ {q} /\ recycler'.by = recycler.by
         /\ \/ /\ available' = available \cup {q} /\ recyclable' = recyclable \ {q}
               /\ recycler'.port = None /\ trunk' = trunk
            \/ /\ UNCHANGED <<available, recyclable>>
               /\ recycler'.port = q /\ trunk' = trunk \ {q}
            \/ /\ UNCHANGED <<available, recyclable, trunk>>
               /\ recycler'.port = None
  <2>1. PICK q \in recycler.todo :
         \/ /\ recycler' = [recycler EXCEPT !.todo = @ \ {q}]
            /\ \/ /\ available' = available \cup {q} /\ recyclable' = recyclable \ {q}
                  /\ trunk' = trunk
               \/ UNCHANGED <<available, recyclable, trunk>>
         \/ /\ recycler' = [[recycler EXCEPT !.todo = @ \ {q}] EXCEPT !.port = q]
            /\ UNCHANGED <<available, recyclable>> /\ trunk' = trunk \ {q}
    BY DEF Recycle
  <2>2. recycler.port = None
    BY DEF Recycle
  <2> QED
    BY <2>1, <2>2 DEF TypeOK
<1>3. Apart'
  BY <1>1 DEF Recycle, PlacesInv, Apart, Recycling, New
<1>4. OnTrunk'
  BY <1>1, <1>2, NestedPoolAssumption DEF Recycle, TypeOK, PlacesInv, Apart, OnTrunk,
                                          Recycling, New
<1>5. Recycling'
  BY <1>1, <1>2 DEF Recycle, PlacesInv, Recycling, NoRecycle
<1>6. Freeing'
  BY DEF Recycle, PlacesInv, Freeing, NoRecycle
<1>7. Served'
  BY <1>1, <1>2 DEF Recycle, PlacesInv, Served
<1>8. Starting'
  BY <1>1, <1>2 DEF Recycle, PlacesInv, Starting, NoFill, NoRecycle, NoFree
<1>9. Known'
  BY <1>1, <1>2 DEF Recycle, PlacesInv, Known
<1> QED
  BY <1>3, <1>4, <1>5, <1>6, <1>7, <1>8, <1>9 DEF PlacesInv

(* It deletes the port it has detached.                                    *)
LEMMA PlacesRecycleDelete ==
    ASSUME TypeOK, Ids, PlacesInv, Quiet, RecycleDelete
    PROVE  PlacesInv'
<1>1. \A r \in Pods : Has(r)' = Has(r) /\ popped[r] \in Has(r) \cup {None}
  BY DEF RecycleDelete, TypeOK, Has
<1>2. Apart'
  <2>1. (available \cap (recyclable \cup New) = {} /\ recyclable \cap New = {})'
    BY <1>1 DEF RecycleDelete, PlacesInv, Apart, New
  <2>2. (\A r \in Pods : Has(r) \cap (available \cup recyclable \cup New) = {})'
    BY <1>1 DEF RecycleDelete, PlacesInv, Apart, New
  <2>3. (\A s, r \in Pods : s # r => Has(s) \cap Has(r) = {})'
    BY <1>1 DEF RecycleDelete, PlacesInv, Apart, New
  <2>4. (available \cup recyclable \subseteq existing)'
    BY DEF RecycleDelete, PlacesInv, Quiet, Apart, Recycling
  <2>5. (\A r \in Pods : popped[r] \in existing \cup {None})'
    BY <1>1 DEF RecycleDelete, PlacesInv, Apart, Recycling
  <2> QED
    BY <2>1, <2>2, <2>3, <2>4, <2>5 DEF Apart
<1>3. OnTrunk'
  BY <1>1 DEF RecycleDelete, PlacesInv, Quiet, OnTrunk, New, Recycling
<1>4. Recycling'
  BY NestedPoolAssumption DEF RecycleDelete, TypeOK, PlacesInv, Recycling, NoRecycle
<1>5. Freeing'
  BY DEF RecycleDelete, PlacesInv, Freeing, NoRecycle
<1>6. Served'
  BY <1>1 DEF RecycleDelete, PlacesInv, Served
<1>7. Starting'
  BY <1>1 DEF RecycleDelete, PlacesInv, Starting, NoFill, NoRecycle, NoFree
<1>8. Known'
  BY <1>1 DEF RecycleDelete, PlacesInv, Known
<1> QED
  BY <1>2, <1>3, <1>4, <1>5, <1>6, <1>7, <1>8 DEF PlacesInv

(* It is done.                                                             *)
LEMMA PlacesRecycleEnd ==
    ASSUME TypeOK, Ids, PlacesInv, Quiet, RecycleEnd
    PROVE  PlacesInv'
<1>1. \A r \in Pods : Has(r)' = Has(r) /\ popped[r] \in Has(r) \cup {None}
  BY DEF RecycleEnd, neutron, tables, TypeOK, Has
<1>2. Apart'
  BY <1>1 DEF RecycleEnd, neutron, tables, PlacesInv, Apart, New
<1>3. OnTrunk'
  BY <1>1 DEF RecycleEnd, neutron, tables, PlacesInv, OnTrunk, New, NoRecycle
<1>4. Recycling'
  BY <1>1 DEF RecycleEnd, neutron, tables, PlacesInv, Recycling, NoRecycle
<1>5. Freeing'
  BY <1>1 DEF RecycleEnd, neutron, tables, PlacesInv, Freeing, New, NoFree
<1>6. Served'
  BY <1>1 DEF RecycleEnd, neutron, tables, PlacesInv, Served
<1>7. Starting'
  BY <1>1 DEF RecycleEnd, neutron, tables, PlacesInv, Starting, NoFill, NoRecycle,
              NoFree
<1>8. Known'
  BY <1>1 DEF RecycleEnd, neutron, tables, PlacesInv, Known
<1> QED
  BY <1>2, <1>3, <1>4, <1>5, <1>6, <1>7, <1>8 DEF PlacesInv

(* The pool manager takes the ports that no pod has.                       *)
LEMMA PlacesFreePool ==
    ASSUME TypeOK, Ids, PlacesInv, Quiet, FreePool
    PROVE  PlacesInv'
<1>1. \A r \in Pods : popped[r] = None /\ Has(r) \subseteq Annotated
  BY DEF FreePool, Annotated, TypeOK, Has, PlacesInv, Served, Quiet
<1>2. \A r \in Pods : Has(r)' = Has(r)
  BY DEF FreePool, Annotated, neutron, tables, TypeOK, Has
<1>3. /\ freed'.todo = trunk \ Annotated /\ freed'.port = None
      /\ recycler = NoRecycle /\ New = {} /\ recyclable = {} /\ filler["pods"].pc = "idle"
  BY Constants DEF FreePool, Ids, Filling, Quiet, New
<1>4. Apart'
  BY <1>2 DEF FreePool, tables, PlacesInv, Apart, New
<1>5. OnTrunk'
  BY <1>2 DEF FreePool, neutron, tables, PlacesInv, OnTrunk, New, NoFree
<1>6. Recycling'
  BY <1>3 DEF FreePool, Recycling, NoRecycle
<1>7. Freeing'
  BY <1>1, <1>2, <1>3 DEF FreePool, neutron, tables, Freeing, New
<1>8. Served'
  BY <1>1, <1>2, <1>3 DEF FreePool, Annotated, neutron, tables, PlacesInv, Served
<1>9. Starting'
  BY DEF FreePool, tables, Starting
<1>10. Known'
  BY <1>1, <1>2, <1>3 DEF FreePool, Annotated, neutron, tables, PlacesInv, Known
<1> QED
  BY <1>4, <1>5, <1>6, <1>7, <1>8, <1>9, <1>10 DEF PlacesInv

(* It deletes one of them.                                                 *)
LEMMA PlacesFreePort ==
    ASSUME TypeOK, Ids, PlacesInv, Quiet, FreePort
    PROVE  PlacesInv'
<1>1. \A r \in Pods : Has(r)' = Has(r) /\ popped[r] \in Has(r) \cup {None}
  BY DEF FreePort, tables, TypeOK, Has
<1>2. Apart'
  BY <1>1 DEF FreePort, tables, PlacesInv, Apart, New
<1>3. OnTrunk'
  BY <1>1, NestedPoolAssumption DEF FreePort, tables, TypeOK, PlacesInv, Quiet,
                                    NoFree, OnTrunk, Freeing
<1>4. Recycling'
  BY <1>1 DEF FreePort, tables, PlacesInv, Recycling, NoRecycle
<1>5. Freeing'
  BY <1>1 DEF FreePort, tables, TypeOK, PlacesInv, Freeing, New, NoFree
<1>6. Served'
  BY <1>1 DEF FreePort, tables, PlacesInv, Served
<1>7. Starting'
  BY <1>1 DEF FreePort, tables, PlacesInv, Starting, NoFill, NoRecycle, NoFree
<1>8. Known'
  BY <1>1 DEF FreePort, tables, PlacesInv, Known
<1> QED
  BY <1>2, <1>3, <1>4, <1>5, <1>6, <1>7, <1>8 DEF PlacesInv

(* It takes the port it has deleted out of the pool.                       *)
LEMMA PlacesFreeForget ==
    ASSUME TypeOK, Ids, PlacesInv, Quiet, FreeForget
    PROVE  PlacesInv'
<1>1. \A r \in Pods : Has(r)' = Has(r) /\ popped[r] \in Has(r) \cup {None}
  BY DEF FreeForget, TypeOK, Has
<1>2. Apart'
  BY <1>1 DEF FreeForget, PlacesInv, Apart, OnTrunk, Freeing, New, NoRecycle, NoFree
<1>3. OnTrunk'
  BY <1>1 DEF FreeForget, PlacesInv, Apart, OnTrunk, New
<1>4. Recycling'
  BY <1>1 DEF FreeForget, PlacesInv, Recycling, NoRecycle
<1>5. Freeing'
  BY <1>1 DEF FreeForget, PlacesInv, Freeing, New, NoFree
<1>6. Served'
  BY <1>1 DEF FreeForget, PlacesInv, Served
<1>7. Starting'
  BY <1>1 DEF FreeForget, PlacesInv, Starting, NoFill, NoRecycle, NoFree
<1>8. Known'
  BY <1>1 DEF FreeForget, PlacesInv, Known
<1> QED
  BY <1>2, <1>3, <1>4, <1>5, <1>6, <1>7, <1>8 DEF PlacesInv

(* After a restart the pool is recovered from the trunk.                   *)
LEMMA PlacesRecover ==
    ASSUME TypeOK, Ids, PlacesInv, Quiet, Recover
    PROVE  PlacesInv'
<1>1. \A r \in Pods : popped[r] = None /\ Has(r) \subseteq Annotated /\ Has(r)' = Has(r)
  BY DEF Recover, Annotated, TypeOK, PlacesInv, Served, Starting, Has
<1>2. recyclable = {} /\ New = {} /\ UNCHANGED <<recyclable, filler>>
  BY DEF Recover, PlacesInv, Starting, New, NoFill
<1>3. Apart'
  <2>1. (available \cap (recyclable \cup New) = {} /\ recyclable \cap New = {})'
    BY <1>1, <1>2 DEF Recover, Annotated, PlacesInv, Apart, New
  <2>2. (\A r \in Pods : Has(r) \cap (available \cup recyclable \cup New) = {})'
    BY <1>1, <1>2 DEF Recover, Annotated, PlacesInv, Apart, New
  <2>3. (\A s, r \in Pods : s # r => Has(s) \cap Has(r) = {})'
    BY <1>1, <1>2 DEF Recover, Annotated, PlacesInv, Apart, New
  <2>4. (available \cup recyclable \subseteq existing)'
    BY <1>1, <1>2 DEF Recover, Annotated, PlacesInv, Apart, New
  <2>5. (\A r \in Pods : popped[r] \in existing \cup {None})'
    BY <1>1, <1>2 DEF Recover, Annotated, PlacesInv, Apart, New
  <2> QED
    BY <2>1, <2>2, <2>3, <2>4, <2>5 DEF Apart
<1>4. OnTrunk'
  BY <1>1, <1>2 DEF Recover, Annotated, PlacesInv, OnTrunk, New
<1>5. Recycling'
  BY <1>1, <1>2 DEF Recover, Annotated, PlacesInv, Recycling, NoRecycle
<1>6. Freeing'
  BY <1>1, <1>2 DEF Recover, Annotated, PlacesInv, Freeing, New, NoFree
<1>7. Served'
  BY <1>1, <1>2 DEF Recover, Annotated, PlacesInv, Served
<1>8. Starting'
  BY <1>1, <1>2 DEF Recover, Annotated, PlacesInv, Starting, NoFill, NoRecycle, NoFree
<1>9. Known'
  BY DEF Recover, Ids, OwnIds, Known
<1> QED
  BY <1>3, <1>4, <1>5, <1>6, <1>7, <1>8, <1>9 DEF PlacesInv

(* A restart forgets the pool.                                             *)
LEMMA PlacesPoolRestart ==
    ASSUME TypeOK, Ids, PlacesInv, Quiet, PoolRestart
    PROVE  PlacesInv'
<1>1. \A r \in Pods : popped'[r] = None /\ Has(r)' \subseteq Has(r)
  BY DEF PoolRestart, ForgetsPool, TypeOK, Has
<1>2. Apart'
  BY <1>1, Constants DEF PoolRestart, ForgetsPool, PlacesInv, Apart, New, NoFill
<1>3. OnTrunk'
  BY <1>1, Constants DEF PoolRestart, ForgetsPool, PlacesInv, OnTrunk, NoFill
<1>4. Recycling'
  BY <1>1 DEF PoolRestart, ForgetsPool, PlacesInv, Recycling, NoRecycle
<1>5. Freeing'
  BY <1>1 DEF PoolRestart, ForgetsPool, PlacesInv, Freeing, New, NoFree
<1>6. Served'
  BY <1>1 DEF PoolRestart, ForgetsPool, PlacesInv, Served
<1>7. Starting'
  BY Constants DEF PoolRestart, ForgetsPool, Starting
<1>8. Known'
  BY <1>1 DEF PoolRestart, ForgetsPool, PlacesInv, Known
<1> QED
  BY <1>2, <1>3, <1>4, <1>5, <1>6, <1>7, <1>8 DEF PlacesInv

(* The ports that are created and attached join the pool.                  *)
LEMMA PlacesFillRegister ==
    ASSUME TypeOK, Ids, PlacesInv, Quiet, FillRegister("pods")
    PROVE  PlacesInv'
<1>1. \A r \in Pods : Has(r)' = Has(r) /\ popped[r] \in Has(r) \cup {None}
  BY DEF FillRegister, Fill, neutron, TypeOK, Has
<1>2. Apart'
  <2>1. (available \cap (recyclable \cup New) = {} /\ recyclable \cap New = {})'
    BY Constants DEF FillRegister, Fill, TypeOK, PlacesInv, Apart, New, NoFill
  <2>2. (\A r \in Pods : Has(r) \cap (available \cup recyclable \cup New) = {})'
    BY <1>1 DEF FillRegister, Fill, PlacesInv, Apart, New, NoFill
  <2>3. (\A s, r \in Pods : s # r => Has(s) \cap Has(r) = {})'
    BY <1>1 DEF FillRegister, Fill, neutron, PlacesInv, Apart, New
  <2>4. (available \cup recyclable \subseteq existing)'
    BY <1>1 DEF FillRegister, Fill, neutron, PlacesInv, Apart, New
  <2>5. (\A r \in Pods : popped[r] \in existing \cup {None})'
    BY <1>1 DEF FillRegister, Fill, neutron, PlacesInv, Apart, New
  <2> QED
    BY <2>1, <2>2, <2>3, <2>4, <2>5 DEF Apart
<1>3. OnTrunk'
  BY <1>1 DEF FillRegister, Fill, neutron, PlacesInv, OnTrunk, New, NoFill
<1>4. Recycling'
  BY <1>1 DEF FillRegister, Fill, neutron, PlacesInv, Recycling, NoRecycle
<1>5. Freeing'
  BY <1>1 DEF FillRegister, Fill, neutron, PlacesInv, Freeing, New, NoFree
<1>6. Served'
  BY <1>1 DEF FillRegister, Fill, neutron, PlacesInv, Served
<1>7. Starting'
  BY <1>1 DEF FillRegister, Fill, neutron, PlacesInv, Starting, NoFill, NoRecycle,
              NoFree
<1>8. Known'
  BY DEF FillRegister, neutron, Ids, OwnIds, PlacesInv, Known, New
<1> QED
  BY <1>2, <1>3, <1>4, <1>5, <1>6, <1>7, <1>8 DEF PlacesInv

(* They are attached to the trunk.                                         *)
LEMMA PlacesFillAttach ==
    ASSUME TypeOK, Ids, PlacesInv, Quiet, FillAttach("pods")
    PROVE  PlacesInv'
<1>1. \A r \in Pods : Has(r)' = Has(r) /\ popped[r] \in Has(r) \cup {None}
  BY DEF FillAttach, CanAttach, Fill, tables, TypeOK, Has
<1>2. Apart'
  BY <1>1 DEF FillAttach, CanAttach, Fill, tables, TypeOK, PlacesInv, Apart, New, NoFill
<1>3. OnTrunk'
  BY <1>1 DEF FillAttach, CanAttach, Fill, tables, TypeOK, PlacesInv, OnTrunk, New,
              Ids, Filling, NoFill
<1>4. Recycling'
  BY DEF FillAttach, tables, PlacesInv, Apart, Recycling, New
<1>5. Freeing'
  BY <1>1 DEF FillAttach, CanAttach, Fill, tables, PlacesInv, Freeing, New, NoFree
<1>6. Served'
  BY <1>1 DEF FillAttach, CanAttach, Fill, tables, PlacesInv, Served
<1>7. Starting'
  BY DEF FillAttach, tables, PlacesInv, Starting, NoFill
<1>8. Known'
  BY <1>1 DEF FillAttach, CanAttach, Fill, tables, PlacesInv, Known
<1> QED
  BY <1>2, <1>3, <1>4, <1>5, <1>6, <1>7, <1>8 DEF PlacesInv

(* A thread that starts has no ports yet.                                  *)
LEMMA PlacesSpawn ==
    ASSUME TypeOK, Ids, NEW s \in SUBSET Ports, filler' = Spawned(s)
    PROVE  /\ New' = New
           /\ filler' = filler \/ recovered
           /\ filler'["pods"].pc = "register" => filler["pods"].pc = "register"
<1>1. CASE filler' = filler
  BY <1>1 DEF New
<1>2. ASSUME NEW n \in Nat, filler["pods"].pc = "idle",
             filler' = [filler EXCEPT !["pods"] = Reads(n)]
      PROVE  filler'["pods"].pc = "create" /\ filler'["pods"].new = {} /\ New = {}
  BY <1>2, Constants DEF TypeOK, Reads, Ids, Filling, New
<1> QED
  BY <1>1, <1>2, Spawns DEF New

(* A pod's thread pops a port.                                             *)
LEMMA PlacesPop ==
    ASSUME TypeOK, Ids, PlacesInv, Quiet, NEW p \in Pods, Pop(p)
    PROVE  PlacesInv'
<1>1. PICK q \in available :
         available' = available \ {q} /\ popped' = [popped EXCEPT ![p] = q]
  BY DEF Pop, PlacesInv, Apart
<1>2. available' \in SUBSET Ports /\ filler' = Spawned(available')
  BY <1>1 DEF Pop, TypeOK
<1>3. /\ New' = New
      /\ filler'["pods"].pc = "register" => filler["pods"].pc = "register"
      /\ recovered /\ freed = NoFree /\ pod[p].st = "present" /\ pod[p].vif = None
      /\ popped[p] = None
      /\ UNCHANGED <<neutron, recyclable, existing, opened, recovered, pod, recycler, freed>>
  BY <1>2, PlacesSpawn DEF Pop, Requests, Undisturbed, Quiet
<1>4. /\ \A r \in Pods \ {p} : Has(r)' = Has(r) /\ popped'[r] = popped[r]
      /\ Has(p)' = {q} /\ Has(p) = {} /\ popped'[p] = q
      /\ q \in trunk /\ q \notin recyclable \cup New /\ q \in existing /\ q # None
  BY <1>1, <1>3, Constants, NestedPoolAssumption
     DEF Has, TypeOK, PlacesInv, OnTrunk, Apart, NoFree
<1>5. Apart'
  BY <1>1, <1>3, <1>4 DEF PlacesInv, Apart
<1>6. OnTrunk'
  BY <1>1, <1>3, <1>4 DEF PlacesInv, OnTrunk, neutron
<1>7. (Recycling /\ Freeing /\ Served /\ Starting /\ Known)'
  BY <1>3, <1>4 DEF PlacesInv, Recycling, Freeing, Served, Starting, Known, neutron
<1> QED
  BY <1>5, <1>6, <1>7 DEF PlacesInv

(* It finds none, and has the pool filled.                                 *)
LEMMA PlacesIsEmpty ==
    ASSUME TypeOK, Ids, PlacesInv, Quiet, NEW p \in Pods, PoolIsEmpty(p)
    PROVE  PlacesInv'
<1>1. /\ New' = New
      /\ filler' = filler \/ recovered
      /\ filler'["pods"].pc = "register" => filler["pods"].pc = "register"
      /\ freed = NoFree
      /\ UNCHANGED <<neutron, tables, pod, popped, recycler, freed>>
  BY PlacesSpawn DEF PoolIsEmpty, Requests, Undisturbed, Quiet
<1>2. \A r \in Pods : Has(r)' = Has(r)
  BY <1>1 DEF Has
<1>3. Apart' /\ OnTrunk'
  BY <1>1, <1>2 DEF PlacesInv, Apart, OnTrunk, neutron, tables
<1>4. (Recycling /\ Freeing /\ Served /\ Starting /\ Known)'
  BY <1>1, <1>2 DEF PlacesInv, Recycling, Freeing, Served, Starting, Known, neutron,
                    tables
<1> QED
  BY <1>3, <1>4 DEF PlacesInv

(* The ports that are created are known to no one.                         *)
LEMMA PlacesFillCreate ==
    ASSUME TypeOK, Ids, PlacesInv, FillCreate("pods", TRUE)
    PROVE  PlacesInv'
<1>1. /\ filler["pods"].pc = "create" /\ New = {}
      /\ UNCHANGED <<trunk, tables, pod, popped, recycler, freed>>
  BY Constants, FillCreates DEF Ids, Filling, New
<1>2. filler["pods"] # NoFill /\ recovered /\ freed = NoFree
  BY <1>1 DEF NoFill, PlacesInv, Freeing, Starting
<1> DEFINE Unknown ==
             /\ ports \subseteq ports' /\ New' \cap (trunk \cup existing) = {}
             /\ filler'["pods"].pc # "register"
             /\ \A q \in existing : vlan'[q] # 0
<1>3. Unknown
  <2>1. CASE Fill("pods", NoFill) /\ UNCHANGED <<ports, vlan>>
    BY <2>1, Constants DEF TypeOK, Fill, NoFill, New, PlacesInv, Known
  <2>2. ASSUME NEW new, NEW ids, Creates("pods", new, ids)
        PROVE  Unknown
    <3>1. New' \subseteq new /\ filler'["pods"].pc # "register"
      <4>1. filler'["pods"] = NoFill \/ filler'["pods"] = [NoFill EXCEPT !.pc = "attach", !.new = new]
        BY <2>2, Constants DEF TypeOK, Creates, Fill
      <4>2. NoFill.new = {} /\ NoFill.pc = "idle"
        BY DEF NoFill
      <4>3. filler'["pods"].new \subseteq new /\ filler'["pods"].pc # "register"
        <5>1. CASE filler'["pods"] = NoFill
          BY <4>2, <5>1
        <5>2. CASE filler'["pods"] = [NoFill EXCEPT !.pc = "attach", !.new = new]
          BY <5>2 DEF NoFill
        <5> QED
          BY <4>1, <5>1, <5>2
      <4> QED
        BY <4>3 DEF New
    <3>2. new \cap (trunk \cup existing) = {}
      BY <2>2 DEF Creates, Unused, PlacesInv, Known, Ids, OwnIds
    <3>3. \A q \in existing : vlan'[q] # 0
      BY <2>2, <3>2 DEF Creates, PlacesInv, Known, TypeOK
    <3> QED
      BY <2>2, <3>1, <3>2, <3>3 DEF Creates
  <2> QED
    BY <2>1, <2>2, Constants, FillCreates
<1>4. \A r \in Pods : Has(r)' = Has(r) /\ Has(r) \subseteq trunk
  BY <1>1 DEF Has, PlacesInv, OnTrunk
<1>5. Apart'
  BY <1>1, <1>3, <1>4 DEF PlacesInv, Apart, tables
<1>6. OnTrunk'
  BY <1>1, <1>3, <1>4 DEF PlacesInv, OnTrunk, tables
<1>7. (Recycling /\ Freeing /\ Served /\ Starting /\ Known)'
  BY <1>1, <1>2, <1>3, <1>4
     DEF PlacesInv, Recycling, Freeing, Served, Starting, Known, tables
<1> QED
  BY <1>5, <1>6, <1>7 DEF PlacesInv

(* A step keeps the places.                                                *)
LEMMA PlacesStep ==
    ASSUME TypeOK, Ids, PlacesInv, Quiet, PoolNext
    PROVE  PlacesInv'
<1>1. ASSUME NEW p \in Pods, CreatePod(p) \/ DeletePod(p) \/ PodThread(p)
      PROVE  PlacesInv'
  BY <1>1, PlacesCreatePod, PlacesDeletePod, PlacesPop, PlacesIsEmpty, PlacesAnnotate,
     PlacesPodGone DEF PodThread
<1>2. CASE FillThread
  BY <1>2, PlacesFillCreate, PlacesFillAttach, PlacesFillRegister DEF FillThread
<1>3. CASE Recycler
  BY <1>3, PlacesRecycleStart, PlacesRecycle, PlacesRecycleDelete, PlacesRecycleEnd
     DEF Recycler
<1>4. CASE FreePool \/ Manager
  BY <1>4, PlacesFreePool, PlacesFreePort, PlacesFreeForget DEF Manager
<1>5. CASE Recover \/ PoolRestart
  BY <1>5, PlacesRecover, PlacesPoolRestart
<1> QED
  BY <1>1, <1>2, <1>3, <1>4, <1>5 DEF PoolNext

(* Without those races, each port is in one place at most, and what the    *)
(* pool and the pods have is attached to the trunk: through restarts,      *)
(* failures, recycling and freeing, for any pods, ports, ids and sizes.    *)
THEOREM PoolApart ==
    ASSUME Quiet
    PROVE  PoolSpec => []PlacesInv
<1>1. PoolInit => PlacesInv
  <2> SUFFICES ASSUME PoolInit PROVE PlacesInv
    OBVIOUS
  <2>1. filler["pods"] = NoFill /\ New = {} /\ \A p \in Pods : Has(p) = {} /\ popped[p] = None
    BY Constants DEF PoolInit, New, NoFill, Has
  <2>2. /\ trunk = {} /\ ports = {} /\ available = {} /\ recyclable = {} /\ existing = {}
        /\ recycler = NoRecycle /\ freed = NoFree /\ recovered
        /\ \A p \in Pods : pod[p].vif = None
    BY DEF PoolInit
  <2> QED
    BY <2>1, <2>2
       DEF NoFill, NoRecycle, PlacesInv, Apart, OnTrunk, Recycling, Freeing, Served, Starting, Known
<1>2. TypeOK /\ Ids /\ PlacesInv /\ [PoolNext]_poolState => PlacesInv'
  <2>1. ASSUME PlacesInv, UNCHANGED poolState
        PROVE  PlacesInv'
    BY <2>1 DEF poolState, poolVars, PlacesInv, Apart, OnTrunk, Recycling, Freeing, Served,
                Starting, Known, New, Has
  <2> QED
    BY <2>1, PlacesStep
<1> QED
  BY <1>1, <1>2, Types, OneIdEach, PTL DEF PoolSpec, poolState

(* Without those races, a port that the pool would give to a pod, that is  *)
(* being given to one or that one has is attached, is not in the pool at   *)
(* the same time, and is no other pod's.                                   *)
THEOREM Usable ==
    ASSUME Quiet
    PROVE  PoolSpec => []PortsUsable
<1>1. PlacesInv => PortsUsable
  BY DEF PlacesInv, Apart, OnTrunk, PortsUsable, Has
<1> QED
  BY <1>1, PoolApart, PTL
=============================================================================

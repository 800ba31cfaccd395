---------------------------- MODULE VIFPoolProofs ----------------------------
(***************************************************************************)
(* Proofs about VIFPool, for any pods, ports, pools and options.           *)
(***************************************************************************)
EXTENDS VIFPoolInv, FiniteSetTheorems, TLAPS

-----------------------------------------------------------------------------
(* Lemmas about the operators of the model *)

(* The ports of a list are ports. *)
LEMMA ToSetType ==
    ASSUME NEW S, NEW s \in Seq(S)
    PROVE  ToSet(s) \subseteq S
BY DEF ToSet

(* Popping the last port of a list, as list.pop() does. *)
LEMMA PopType ==
    ASSUME NEW S, NEW s \in Seq(S), s # <<>>
    PROVE  Front(s) \in Seq(S) /\ Last(s) \in S
BY DEF Front, Last

(* The sizes of the pools are numbers. *)
LEMMA PoolSizeNat ==
    ASSUME NEW pool \in [AllGroups -> Seq(Ports)]
    PROVE  PoolSize(pool) \in Nat
<1>1. IsFiniteSet(AllGroups)
  <2>1. IsFiniteSet(Groups)
    BY ConstantsAssumption, FS_SUBSET DEF Groups
  <2> QED
    BY <2>1, FS_Union, FS_Singleton DEF AllGroups
<1> DEFINE Slots(g) == {g} \X DOMAIN pool[g]
           All == {Slots(g) : g \in AllGroups}
<1>2. IsFiniteSet(All)
  <2> DEFINE f == [g \in AllGroups |-> Slots(g)]
  <2>1. f \in Surjection(AllGroups, All)
    BY DEF Surjection
  <2> QED
    BY <1>1, <2>1, FS_Surjection
<1>3. \A g \in AllGroups : IsFiniteSet(Slots(g))
  <2> SUFFICES ASSUME NEW g \in AllGroups
               PROVE  IsFiniteSet(Slots(g))
    OBVIOUS
  <2>1. DOMAIN pool[g] = 1..Len(pool[g]) /\ Len(pool[g]) \in Nat
    OBVIOUS
  <2>2. IsFiniteSet(DOMAIN pool[g])
    BY <2>1, FS_Interval
  <2> QED
    BY <2>2, FS_Singleton, FS_Product
<1>4. IsFiniteSet(UNION All)
  BY <1>2, <1>3, FS_UNION
<1> QED
  BY <1>4, FS_CardinalityType DEF PoolSize

(* Lists of one port and of none. *)
LEMMA ShortLists ==
    /\ IsInjective(<<>>) /\ ToSet(<<>>) = {}
    /\ \A p : IsInjective(<<p>>) /\ ToSet(<<p>>) = {p}
BY DEF IsInjective, ToSet

(* Popping the last port leaves the others in the list. *)
LEMMA PopKeeps ==
    ASSUME NEW S, NEW s \in Seq(S), s # <<>>, IsInjective(s)
    PROVE  /\ IsInjective(Front(s)) /\ Last(s) \in ToSet(s)
           /\ ToSet(Front(s)) = ToSet(s) \ {Last(s)}
<1>1. /\ Front(s) \in Seq(S) /\ Len(s) \in Nat \ {0}
      /\ DOMAIN s = 1..Len(s) /\ DOMAIN Front(s) = 1..(Len(s) - 1)
      /\ \A i \in 1..(Len(s) - 1) : Front(s)[i] = s[i]
  BY DEF Front
<1>2. IsInjective(Front(s)) /\ Last(s) \in ToSet(s)
  BY <1>1 DEF IsInjective, Last, ToSet
<1>3. ToSet(Front(s)) \subseteq ToSet(s) \ {Last(s)}
  BY <1>1 DEF IsInjective, Last, ToSet
<1>4. ASSUME NEW x \in ToSet(s) \ {Last(s)} PROVE x \in ToSet(Front(s))
  <2> PICK i \in 1..Len(s) : x = s[i]
    BY <1>1, <1>4 DEF ToSet
  <2>1. i \in 1..(Len(s) - 1)
    BY <1>1, <1>4 DEF Last
  <2> QED
    BY <1>1, <2>1 DEF ToSet
<1> QED
  BY <1>2, <1>3, <1>4

(* So does taking the first one. *)
LEMMA TailKeeps ==
    ASSUME NEW S, NEW s \in Seq(S), s # <<>>, IsInjective(s)
    PROVE  /\ IsInjective(Tail(s)) /\ Head(s) \in ToSet(s)
           /\ ToSet(Tail(s)) = ToSet(s) \ {Head(s)}
<1>1. /\ Tail(s) \in Seq(S) /\ Len(s) \in Nat \ {0}
      /\ DOMAIN s = 1..Len(s) /\ DOMAIN Tail(s) = 1..(Len(s) - 1)
      /\ \A i \in 1..(Len(s) - 1) : Tail(s)[i] = s[i + 1]
      /\ Head(s) = s[1]
  OBVIOUS
<1>2. IsInjective(Tail(s)) /\ Head(s) \in ToSet(s)
  BY <1>1 DEF IsInjective, ToSet
<1>3. ToSet(Tail(s)) \subseteq ToSet(s) \ {Head(s)}
  BY <1>1 DEF IsInjective, ToSet
<1>4. ASSUME NEW x \in ToSet(s) \ {Head(s)} PROVE x \in ToSet(Tail(s))
  <2> PICK i \in 1..Len(s) : x = s[i]
    BY <1>1, <1>4 DEF ToSet
  <2>1. i - 1 \in 1..(Len(s) - 1) /\ Tail(s)[i - 1] = x
    BY <1>1, <1>4
  <2> QED
    BY <1>1, <2>1 DEF ToSet
<1> QED
  BY <1>2, <1>3, <1>4

(* Adding ports that are not in a list. *)
LEMMA AppendKeeps ==
    ASSUME NEW S, NEW s \in Seq(S), NEW t \in Seq(S),
           IsInjective(s), IsInjective(t), ToSet(s) \cap ToSet(t) = {}
    PROVE  IsInjective(s \o t) /\ ToSet(s \o t) = ToSet(s) \cup ToSet(t)
<1>1. /\ s \o t \in Seq(S) /\ Len(s) \in Nat /\ Len(t) \in Nat
      /\ DOMAIN s = 1..Len(s) /\ DOMAIN t = 1..Len(t)
      /\ DOMAIN (s \o t) = 1..(Len(s) + Len(t))
      /\ \A i \in 1..Len(s) : (s \o t)[i] = s[i]
      /\ \A i \in 1..Len(t) : (s \o t)[Len(s) + i] = t[i]
  OBVIOUS
<1>2. \A i \in DOMAIN (s \o t) :
         \/ i \in DOMAIN s /\ (s \o t)[i] = s[i]
         \/ i - Len(s) \in DOMAIN t /\ (s \o t)[i] = t[i - Len(s)]
  BY <1>1
<1>3. \A i \in DOMAIN s, j \in DOMAIN t : s[i] # t[j]
  BY DEF ToSet
<1>4. IsInjective(s \o t)
  BY <1>1, <1>2, <1>3 DEF IsInjective
<1>5. ToSet(s \o t) \subseteq ToSet(s) \cup ToSet(t)
  BY <1>2 DEF ToSet
<1>6. ToSet(s) \subseteq ToSet(s \o t)
  BY <1>1 DEF ToSet
<1>7. ASSUME NEW j \in DOMAIN t PROVE t[j] \in ToSet(s \o t)
  <2>1. j \in 1..Len(t)
    BY <1>1, <1>7
  <2>2. Len(s) + j \in 1..(Len(s) + Len(t))
    BY <1>1, <2>1
  <2>3. Len(s) + j \in DOMAIN (s \o t) /\ (s \o t)[Len(s) + j] = t[j]
    BY <1>1, <2>1, <2>2
  <2> QED
    BY <2>3 DEF ToSet
<1>8. ToSet(t) \subseteq ToSet(s \o t)
  BY <1>7 DEF ToSet
<1> QED
  BY <1>4, <1>5, <1>6, <1>8

(* A pool asks for a natural number of ports. *)
LEMMA NumPortsNat ==
    ASSUME NEW pool \in [AllGroups -> Seq(Ports)]
    PROVE  NumPorts(PoolSize(pool)) \in Nat
BY PoolSizeNat, ConstantsAssumption DEF NumPorts

(* The ports listed in a pool are ports. *)
LEMMA PoolPortsType ==
    ASSUME NEW pool \in [AllGroups -> Seq(Ports)]
    PROVE  PoolPorts(pool) \subseteq Ports
BY ToSetType DEF PoolPorts

(* What Neutron answers to a bulk request is a list of ports. *)
LEMMA BulkType ==
    ASSUME NEW n \in Nat, NEW k, NEW s \in Injection(1..n, FreshPorts(k))
    PROVE  s \in Seq(Ports) /\ ToSet(s) \subseteq FreshPorts(k) /\ IsInjective(s)
<1>1. s \in [1..n -> Ports] /\ IsInjective(s)
  BY DEF Injection, FreshPorts
<1>2. s \in Seq(Ports)
  BY <1>1
<1>3. ToSet(s) \subseteq FreshPorts(k)
  BY DEF Injection, ToSet
<1> QED
  BY <1>1, <1>2, <1>3

(* Replacing a list of a pool by a list of ports. *)
LEMMA SetListType ==
    ASSUME NEW k \in Pools, NEW g \in AllGroups, NEW s \in Seq(Ports),
           PoolTypes
    PROVE  [avail EXCEPT ![k][g] = s] \in [Pools -> [AllGroups -> Seq(Ports)]]
BY DEF PoolTypes

(* Adding ports to a list of a pool. *)
LEMMA ListingType ==
    ASSUME NEW k \in Pools, NEW g \in AllGroups, NEW s \in Seq(Ports),
           PoolTypes, Listing(k, g, s)
    PROVE  avail' \in [Pools -> [AllGroups -> Seq(Ports)]]
<1>1. avail[k][g] \in Seq(Ports)
  BY DEF PoolTypes
<1>2. avail[k][g] \o s \in Seq(Ports)
  BY <1>1
<1>3. avail' = [avail EXCEPT ![k][g] = avail[k][g] \o s]
  BY DEF Listing
<1> HIDE DEF PoolTypes
<1> QED
  BY <1>2, <1>3, SetListType

(* A counted trouble. *)
LEMMA TroubleTypes ==
    ASSUME NEW t, BoundTypes, Trouble(t)
    PROVE  BoundTypes'
BY ConstantsAssumption DEF BoundTypes, Trouble

(* The groups of a pod are groups of ports, and so is None. *)
LEMMA GroupTypes ==
    /\ Groups \subseteq AllGroups /\ NoGroup \in AllGroups /\ {} \in Groups
    /\ \A c \in Pods : PodPool[c] \in Pools /\ PodSGs[c] \in Groups
    /\ \A p \in Ports : PoolOf[p] \in Pools
BY ConstantsAssumption DEF AllGroups, Groups

(* A group of variables that does not change keeps its types. *)
LEMMA SameTypes ==
    /\ UNCHANGED neutronVars => (NeutronTypes => NeutronTypes')
    /\ UNCHANGED k8sVars => (PodTypes => PodTypes')
    /\ UNCHANGED syncVars => (SyncTypes => SyncTypes')
    /\ UNCHANGED poolVars => (PoolTypes => PoolTypes')
    /\ UNCHANGED popVars => (PopulateTypes => PopulateTypes')
    /\ UNCHANGED recycleVars => (RecycleTypes => RecycleTypes')
    /\ UNCHANGED netVars => (NetTypes => NetTypes')
    /\ UNCHANGED policyVars => (PolicyTypes => PolicyTypes')
    /\ UNCHANGED bounds => (BoundTypes => BoundTypes')
BY DEF neutronVars, k8sVars, syncVars, poolVars, popVars, recycleVars, netVars,
       policyVars, bounds, NeutronTypes, PodTypes, SyncTypes, PoolTypes,
       PopulateTypes, RecycleTypes, NetTypes, PolicyTypes, BoundTypes

-----------------------------------------------------------------------------
(* Types *)

(* A step keeps the types of the variables. *)
LEMMA TypeStep ==
    ASSUME TypeOK, PodsConsistent, Next
    PROVE  TypeOK'
<1> USE DEF TypeOK
<1>1. ASSUME NEW c \in Pods, CreatePod(c) PROVE TypeOK'
  <2>1. PodTypes'
    BY <1>1 DEF CreatePod, PodTypes
  <2> QED
    BY <1>1, <2>1, SameTypes DEF CreatePod, coreVars, jobVars
<1>2. ASSUME NEW c \in Pods, RemovePod(c) PROVE TypeOK'
  <2>1. PodTypes'
    BY <1>2 DEF RemovePod, PodTypes
  <2> QED
    BY <1>2, <2>1, SameTypes DEF RemovePod, coreVars, jobVars
<1>3. ASSUME NEW c \in Pods, HandleDeleted(c) PROVE TypeOK'
  <2>1. PodTypes'
    BY <1>3 DEF HandleDeleted, PodTypes
  <2>2. PoolTypes'
    BY <1>3 DEF HandleDeleted, PoolTypes, Release, PodTypes, PodsConsistent
  <2> QED
    BY <1>3, <2>1, <2>2, SameTypes DEF HandleDeleted, coreVars, jobVars
<1>4. ASSUME NEW c \in Pods, NextTry(c) PROVE TypeOK'
  <2>1. PodTypes'
    BY <1>4 DEF NextTry, PodTypes
  <2> QED
    BY <1>4, <2>1, SameTypes DEF NextTry, coreVars, jobVars
<1>5. ASSUME NEW c \in Pods, RequestExact(c) PROVE TypeOK'
  <2>1. PodTypes'
    BY <1>5, PopType, ConstantsAssumption DEF RequestExact, PodTypes, HandOut, PoolTypes, AllGroups
  <2>2. PoolTypes'
    <3> DEFINE s == avail[PodPool[c]][PodSGs[c]]
    <3>1. s \in Seq(Ports) /\ PodSGs[c] \in AllGroups
      BY GroupTypes DEF PoolTypes
    <3>2. Front(s) \in Seq(Ports)
      BY <1>5, <3>1, PopType DEF RequestExact
    <3> QED
      BY <1>5, <3>1, <3>2, SetListType, GroupTypes DEF RequestExact, PoolTypes
  <2>3. PopulateTypes'
    BY <1>5, ConstantsAssumption DEF RequestExact, PopulateTypes, HandOut, Spawn
  <2> QED
    BY <1>5, <2>1, <2>2, <2>3, SameTypes DEF RequestExact, coreVars, jobVars
<1>6. ASSUME NEW c \in Pods, NEW g \in AllGroups, RequestOther(c, g)
      PROVE TypeOK'
  <2>1. PodTypes'
    <3>1. avail[PodPool[c]][g] \in Seq(Ports) /\ avail[PodPool[c]][g] # <<>>
      BY <1>6, GroupTypes DEF RequestOther, OtherGroups, PoolTypes
    <3>2. Last(avail[PodPool[c]][g]) \in Ports
      BY <3>1, PopType
    <3> QED
      BY <1>6, <3>2 DEF RequestOther, PodTypes
  <2>2. PoolTypes'
    BY <1>6, PopType, ConstantsAssumption DEF RequestOther, PoolTypes, OtherGroups
  <2> QED
    BY <1>6, <2>1, <2>2, SameTypes DEF RequestOther, coreVars, jobVars
<1>7. ASSUME NEW c \in Pods, RequestRefused(c) PROVE TypeOK'
  <2>1. PodTypes'
    BY <1>7 DEF RequestRefused, PodTypes
  <2>2. PopulateTypes'
    BY <1>7, ConstantsAssumption DEF RequestRefused, PopulateTypes, Spawn
  <2> QED
    BY <1>7, <2>1, <2>2, SameTypes DEF RequestRefused, coreVars, jobVars
<1>8. ASSUME NEW c \in Pods, PortUpdated(c) PROVE TypeOK'
  <2>1. NeutronTypes'
    BY <1>8, ConstantsAssumption DEF PortUpdated, NeutronTypes
  <2>2. PodTypes'
    BY <1>8 DEF PortUpdated, PodTypes, HandOut
  <2>3. PopulateTypes'
    BY <1>8, ConstantsAssumption DEF PortUpdated, PopulateTypes, HandOut, Spawn
  <2> QED
    BY <1>8, <2>1, <2>2, <2>3, SameTypes DEF PortUpdated, coreVars, jobVars
<1>9. ASSUME NEW c \in Pods, PortUpdateFails(c) PROVE TypeOK'
  <2>1. PodTypes'
    BY <1>9 DEF PortUpdateFails, PodTypes
  <2>2. BoundTypes'
    BY <1>9, TroubleTypes, SameTypes DEF PortUpdateFails, CallFails
  <2> QED
    BY <1>9, <2>1, <2>2, SameTypes DEF PortUpdateFails, coreVars, jobVars
<1>10. ASSUME NEW c \in Pods, Annotate(c) PROVE TypeOK'
  <2>1. PodTypes'
    BY <1>10 DEF Annotate, PodTypes
  <2> QED
    BY <1>10, <2>1, SameTypes DEF Annotate, coreVars, jobVars
<1>11. ASSUME NEW c \in Pods, AnnotateFails(c) PROVE TypeOK'
  <2>1. PodTypes'
    BY <1>11 DEF AnnotateFails, PodTypes
  <2>2. PoolTypes'
    BY <1>11 DEF AnnotateFails, PoolTypes, Release, PodTypes, PodsConsistent
  <2>3. BoundTypes'
    BY <1>11, TroubleTypes, SameTypes DEF AnnotateFails, CallFails
  <2> QED
    BY <1>11, <2>1, <2>2, <2>3, SameTypes DEF AnnotateFails, coreVars, jobVars
<1>12. ASSUME NEW j \in Jobs, PopulateStart(j) PROVE TypeOK'
  <2>1. PoolTypes'
    <3>1. j[1] \in Pools /\ [sg |-> j[2], recent |-> TRUE] \in [sg : AllGroups, recent : BOOLEAN]
      BY GroupTypes DEF Jobs
    <3>2. \/ lastUpdate' = lastUpdate
          \/ lastUpdate' = [lastUpdate EXCEPT ![j[1]] = [sg |-> j[2], recent |-> TRUE]]
      BY <1>12 DEF PopulateStart
    <3>3. lastUpdate' \in [Pools -> [sg : AllGroups, recent : BOOLEAN]]
      BY <3>1, <3>2 DEF PoolTypes
    <3> QED
      BY <1>12, <3>3 DEF PopulateStart, PoolTypes
  <2>2. PopulateTypes'
    <3>1. NumPorts(PoolSize(avail[j[1]])) \in Nat
      BY NumPortsNat DEF PoolTypes, Jobs
    <3> QED
      BY <1>12, <3>1 DEF PopulateStart, PopulateTypes, Jobs
  <2> QED
    BY <1>12, <2>1, <2>2, SameTypes DEF PopulateStart, coreVars, jobVars
<1>13. ASSUME NEW j \in Jobs, PortsCreated(j) PROVE TypeOK'
  <2>1. NeutronTypes'
    BY <1>13 DEF PortsCreated, NeutronTypes, Jobs
  <2>2. PopulateTypes'
    BY <1>13, BulkType DEF PortsCreated, PopulateTypes, Jobs
  <2> QED
    BY <1>13, <2>1, <2>2, SameTypes DEF PortsCreated, coreVars, jobVars
<1>14. ASSUME NEW j \in Jobs, PortsRefused(j) PROVE TypeOK'
  <2>1. PopulateTypes'
    BY <1>14 DEF PortsRefused, PopulateTypes, Jobs
  <2>2. BoundTypes'
    BY <1>14, TroubleTypes, SameTypes DEF PortsRefused, CallFails
  <2> QED
    BY <1>14, <2>1, <2>2, SameTypes DEF PortsRefused, coreVars, jobVars
<1>15. ASSUME NEW j \in Jobs, PopulateFails(j) PROVE TypeOK'
  <2>1. PopulateTypes'
    BY <1>15 DEF PopulateFails, PopulateTypes, Jobs
  <2>2. BoundTypes'
    BY <1>15, TroubleTypes, SameTypes DEF PopulateFails, CallFails
  <2> QED
    BY <1>15, <2>1, <2>2, SameTypes DEF PopulateFails, coreVars, jobVars
<1>16. ASSUME NEW j \in Jobs, PopulateFinish(j) PROVE TypeOK'
  <2>1. PoolTypes'
    <3>1. created[j] \in Seq(Ports) /\ j[1] \in Pools /\ j[2] \in AllGroups
      BY GroupTypes DEF PopulateTypes, Jobs
    <3>2. avail' \in [Pools -> [AllGroups -> Seq(Ports)]]
      BY <1>16, <3>1, ListingType DEF PopulateFinish
    <3> QED
      BY <1>16, <3>1, <3>2, ToSetType DEF PopulateFinish, PoolTypes
  <2>2. PopulateTypes'
    BY <1>16 DEF PopulateFinish, PopulateTypes, Jobs
  <2> QED
    BY <1>16, <2>1, <2>2, SameTypes DEF PopulateFinish, coreVars, jobVars
<1>17. ASSUME NEW k \in Pools, Tick(k) PROVE TypeOK'
  <2>1. PoolTypes'
    BY <1>17 DEF Tick, PoolTypes
  <2> QED
    BY <1>17, <2>1, SameTypes DEF Tick, coreVars, jobVars
<1>18. ASSUME NEW by \in {"timer", "net"}, RecycleBegin(by) PROVE TypeOK'
  <2>1. RecycleTypes'
    BY <1>18 DEF RecycleBegin, RecycleTypes, NeutronTypes, PoolTypes, AllGroups, Groups, NoGroup
  <2> QED
    BY <1>18, <2>1, SameTypes DEF RecycleBegin, coreVars, jobVars
<1>19. ASSUME NEW by \in {"timer", "net"}, RecycleFails(by) PROVE TypeOK'
  <2>1. RecycleTypes'
    BY <1>19 DEF RecycleFails, RecycleTypes, CallerFails
  <2>2. NetTypes'
    BY <1>19 DEF RecycleFails, NetTypes, CallerFails, NoNetJob
  <2>3. BoundTypes'
    BY <1>19, TroubleTypes, SameTypes DEF RecycleFails, CallFails
  <2> QED
    BY <1>19, <2>1, <2>2, <2>3, SameTypes DEF RecycleFails, coreVars, jobVars
<1>20. ASSUME NEW p \in Ports, RecyclePort(p) PROVE TypeOK'
  <2>1. PoolTypes'
    <3>1. <<p>> \in Seq(Ports) /\ recycler.seen[p] \in AllGroups
      BY DEF RecycleTypes
    <3>2. avail' \in [Pools -> [AllGroups -> Seq(Ports)]]
      BY <1>20, <3>1, ListingType, GroupTypes DEF RecyclePort
    <3> QED
      BY <1>20, <3>2 DEF RecyclePort, PoolTypes
  <2>2. RecycleTypes'
    BY <1>20 DEF RecyclePort, RecycleTypes, Processed, AllGroups, Groups, NoGroup
  <2> QED
    BY <1>20, <2>1, <2>2, SameTypes DEF RecyclePort, coreVars, jobVars
<1>21. ASSUME NEW p \in Ports, DeletePort(p) PROVE TypeOK'
  <2>1. NeutronTypes'
    BY <1>21 DEF DeletePort, NeutronTypes
  <2>2. PoolTypes'
    BY <1>21 DEF DeletePort, PoolTypes
  <2>3. RecycleTypes'
    BY <1>21 DEF DeletePort, RecycleTypes, Processed, AllGroups, Groups, NoGroup
  <2> QED
    BY <1>21, <2>1, <2>2, <2>3, SameTypes DEF DeletePort, coreVars, jobVars
<1>22. ASSUME NEW p \in Ports, DeletePortFails(p) PROVE TypeOK'
  <2>1. PoolTypes'
    BY <1>22 DEF DeletePortFails, PoolTypes
  <2>2. RecycleTypes'
    BY <1>22 DEF DeletePortFails, RecycleTypes, CallerFails, Unlocked, AllGroups, Groups, NoGroup
  <2>3. NetTypes'
    BY <1>22 DEF DeletePortFails, NetTypes, CallerFails, NoNetJob
  <2>4. BoundTypes'
    BY <1>22, TroubleTypes, SameTypes DEF DeletePortFails, CallFails
  <2> QED
    BY <1>22, <2>1, <2>2, <2>3, <2>4, SameTypes DEF DeletePortFails, coreVars, jobVars
<1>23. ASSUME RecycleEnd PROVE TypeOK'
  <2>1. RecycleTypes'
    BY <1>23 DEF RecycleEnd, RecycleTypes, Unlocked, AllGroups, Groups, NoGroup
  <2>2. NetTypes'
    BY <1>23 DEF RecycleEnd, NetTypes
  <2> QED
    BY <1>23, <2>1, <2>2, SameTypes DEF RecycleEnd, coreVars, jobVars
<1>24. ASSUME NEW n \in Nets, NetDeleteStart(n) PROVE TypeOK'
  <2>1. NetTypes'
    BY <1>24 DEF NetDeleteStart, NetTypes, NoNetJob
  <2>2. BoundTypes'
    BY <1>24, TroubleTypes, SameTypes DEF NetDeleteStart
  <2> QED
    BY <1>24, <2>1, <2>2, SameTypes DEF NetDeleteStart, coreVars, jobVars
<1>25. ASSUME NetDeletePools PROVE TypeOK'
  <2>1. NetTypes'
    BY <1>25 DEF NetDeletePools, NetTypes, KeysOfNet, PoolsOfNet
  <2> QED
    BY <1>25, <2>1, SameTypes DEF NetDeletePools, coreVars, jobVars
<1>26. ASSUME NEW k \in Pools, NetDeletePool(k) PROVE TypeOK'
  <2>1. NetTypes'
    BY <1>26, PoolPortsType DEF NetDeletePool, NetTypes, PoolTypes
  <2> QED
    BY <1>26, <2>1, SameTypes DEF NetDeletePool, coreVars, jobVars
<1>27. ASSUME NEW p \in Ports, NetDeletePort(p) PROVE TypeOK'
  <2>1. NeutronTypes'
    BY <1>27 DEF NetDeletePort, NeutronTypes
  <2>2. PoolTypes'
    BY <1>27 DEF NetDeletePort, PoolTypes
  <2>3. NetTypes'
    BY <1>27 DEF NetDeletePort, NetTypes
  <2> QED
    BY <1>27, <2>1, <2>2, <2>3, SameTypes DEF NetDeletePort, coreVars, jobVars
<1>28. ASSUME NEW p \in Ports, NetDeletePortFails(p) PROVE TypeOK'
  <2>1. PoolTypes'
    BY <1>28 DEF NetDeletePortFails, PoolTypes
  <2>2. NetTypes'
    BY <1>28 DEF NetDeletePortFails, NetTypes, NoNetJob
  <2>3. BoundTypes'
    BY <1>28, TroubleTypes, SameTypes DEF NetDeletePortFails, JobFails, BoundTypes
  <2> QED
    BY <1>28, <2>1, <2>2, <2>3, SameTypes DEF NetDeletePortFails, coreVars, jobVars
<1>29. ASSUME NetClearPool PROVE TypeOK'
  <2>1. PoolTypes'
    BY <1>29 DEF NetClearPool, PoolTypes, Without
  <2>2. NetTypes'
    BY <1>29 DEF NetClearPool, NetTypes
  <2> QED
    BY <1>29, <2>1, <2>2, SameTypes DEF NetClearPool, coreVars, jobVars
<1>30. ASSUME NetDeleteEnd PROVE TypeOK'
  <2>1. NetTypes'
    BY <1>30 DEF NetDeleteEnd, NetTypes, NoNetJob
  <2> QED
    BY <1>30, <2>1, SameTypes DEF NetDeleteEnd, coreVars, jobVars
<1>31. ASSUME NEW a \in SGs, NEW n \in Nets, RemoveSGStart(a, n) PROVE TypeOK'
  <2>1. PolicyTypes'
    <3> PICK K \in SUBSET Pools :
            sgJob' = [NoSGJob EXCEPT !.pc = "pools", !.sg = {a}, !.pools = K]
      BY <1>31 DEF RemoveSGStart, KeysOfNet, PoolsOfNet
    <3>1. NoSGJob \in [pc : {"idle", "pools", "groups", "ports"}, sg : SUBSET SGs,
                      pools : SUBSET Pools, cur : SUBSET Pools,
                      groups : SUBSET AllGroups, ports : Seq(Ports)]
      BY DEF NoSGJob
    <3>2. polJob' = polJob
      BY <1>31 DEF RemoveSGStart
    <3> QED
      BY <3>1, <3>2 DEF PolicyTypes
  <2>2. BoundTypes'
    BY <1>31, TroubleTypes, SameTypes DEF RemoveSGStart
  <2> QED
    BY <1>31, <2>1, <2>2, SameTypes DEF RemoveSGStart, coreVars, jobVars
<1>32. ASSUME NEW k \in Pools, RemoveSGPool(k) PROVE TypeOK'
  <2>1. PolicyTypes'
    <3> PICK G \in SUBSET Groups :
            sgJob' = [sgJob EXCEPT !.pc = "groups", !.pools = @ \ {k}, !.cur = {k},
              !.groups = IF avail[k][NoGroup] = <<>> THEN G ELSE G \cup {NoGroup}]
      BY <1>32 DEF RemoveSGPool
    <3>1. G \subseteq AllGroups /\ G \cup {NoGroup} \subseteq AllGroups
      BY GroupTypes
    <3> QED
      BY <1>32, <3>1 DEF RemoveSGPool, PolicyTypes
  <2> QED
    BY <1>32, <2>1, SameTypes DEF RemoveSGPool, coreVars, jobVars
<1>33. ASSUME NEW k \in Pools, NEW g \in AllGroups, RemoveSGGroup(k, g)
       PROVE TypeOK'
  <2>1. PoolTypes'
    <3>1. <<>> \in Seq(Ports)
      OBVIOUS
    <3>2. PICK s \in Seq(Ports) :
              avail' = avail \/ avail' = [avail EXCEPT ![k][g] = s]
      BY <1>33, <3>1 DEF RemoveSGGroup
    <3>3. [avail EXCEPT ![k][g] = s] \in [Pools -> [AllGroups -> Seq(Ports)]]
      BY SetListType
    <3>4. avail' \in [Pools -> [AllGroups -> Seq(Ports)]]
      BY <3>2, <3>3 DEF PoolTypes
    <3> QED
      BY <1>33, <3>4 DEF RemoveSGGroup, PoolTypes
  <2>2. PolicyTypes'
    <3>1. avail[k][g] \in Seq(Ports) /\ <<>> \in Seq(Ports)
      BY DEF PoolTypes
    <3>2. polJob' = polJob
      BY <1>33 DEF RemoveSGGroup
    <3>3. CASE sgJob' = NoSGJob
      BY <3>1, <3>2, <3>3 DEF PolicyTypes, NoSGJob
    <3>4. CASE sgJob' = [sgJob EXCEPT !.pc = "ports", !.groups = @ \ {g},
                                      !.ports = avail[k][g]]
      BY <3>1, <3>2, <3>4 DEF PolicyTypes
    <3>5. CASE sgJob' = [sgJob EXCEPT !.groups = @ \ {g}]
      BY <3>1, <3>2, <3>5 DEF PolicyTypes
    <3> QED
      BY <1>33, <3>3, <3>4, <3>5 DEF RemoveSGGroup
  <2> QED
    BY <1>33, <2>1, <2>2, SameTypes DEF RemoveSGGroup, coreVars, jobVars
<1>34. ASSUME NEW k \in Pools, RemoveSGPort(k) PROVE TypeOK'
  <2>1. NeutronTypes'
    BY <1>34 DEF RemoveSGPort, NeutronTypes, Groups
  <2>2. PoolTypes'
    <3>1. <<Head(sgJob.ports)>> \in Seq(Ports)
      BY <1>34 DEF RemoveSGPort, PolicyTypes
    <3>2. avail' \in [Pools -> [AllGroups -> Seq(Ports)]]
      BY <1>34, <3>1, ListingType, GroupTypes DEF RemoveSGPort
    <3> QED
      BY <1>34, <3>2 DEF RemoveSGPort, PoolTypes
  <2>3. PolicyTypes'
    <3>1. Tail(sgJob.ports) \in Seq(Ports)
      BY <1>34 DEF RemoveSGPort, PolicyTypes
    <3> QED
      BY <1>34, <3>1 DEF RemoveSGPort, PolicyTypes
  <2> QED
    BY <1>34, <2>1, <2>2, <2>3, SameTypes DEF RemoveSGPort, coreVars, jobVars
<1>35. ASSUME RemoveSGPortFails PROVE TypeOK'
  <2>1. PolicyTypes'
    BY <1>35 DEF RemoveSGPortFails, PolicyTypes, NoSGJob
  <2>2. BoundTypes'
    BY <1>35, TroubleTypes, SameTypes DEF RemoveSGPortFails, JobFails, BoundTypes
  <2> QED
    BY <1>35, <2>1, <2>2, SameTypes DEF RemoveSGPortFails, coreVars, jobVars
<1>36. ASSUME NEW k \in Pools, RemoveSGGroupDone(k) PROVE TypeOK'
  <2>1. PoolTypes'
    BY <1>36 DEF RemoveSGGroupDone, PoolTypes, AllGroups, Groups, NoGroup
  <2>2. PolicyTypes'
    BY <1>36 DEF RemoveSGGroupDone, PolicyTypes
  <2> QED
    BY <1>36, <2>1, <2>2, SameTypes DEF RemoveSGGroupDone, coreVars, jobVars
<1>37. ASSUME RemoveSGPoolDone PROVE TypeOK'
  <2>1. PolicyTypes'
    BY <1>37 DEF RemoveSGPoolDone, PolicyTypes
  <2> QED
    BY <1>37, <2>1, SameTypes DEF RemoveSGPoolDone, coreVars, jobVars
<1>38. ASSUME RemoveSGEnd PROVE TypeOK'
  <2>1. PolicyTypes'
    BY <1>38 DEF RemoveSGEnd, PolicyTypes, NoSGJob
  <2> QED
    BY <1>38, <2>1, SameTypes DEF RemoveSGEnd, coreVars, jobVars
<1>39. ASSUME NEW c \in Pods, NEW g \in Groups, PolicyUpdate(c, g)
       PROVE TypeOK'
  <2>1. PolicyTypes'
    BY <1>39 DEF PolicyUpdate, PolicyTypes, PodTypes
  <2>2. BoundTypes'
    BY <1>39, TroubleTypes, SameTypes DEF PolicyUpdate
  <2> QED
    BY <1>39, <2>1, <2>2, SameTypes DEF PolicyUpdate, coreVars, jobVars
<1>40. ASSUME PolicyUpdateEnd PROVE TypeOK'
  <2>1. NeutronTypes'
    BY <1>40 DEF PolicyUpdateEnd, NeutronTypes, PolicyTypes
  <2>2. PolicyTypes'
    BY <1>40 DEF PolicyUpdateEnd, PolicyTypes, NoPolJob, Groups
  <2> QED
    BY <1>40, <2>1, <2>2, SameTypes DEF PolicyUpdateEnd, coreVars, jobVars
<1>41. ASSUME SyncReset PROVE TypeOK'
  <2>1. SyncTypes'
    BY <1>41 DEF SyncReset, SyncTypes
  <2> QED
    BY <1>41, <2>1, SameTypes DEF SyncReset, coreVars, jobVars
<1>42. ASSUME SyncListPods PROVE TypeOK'
  <2>1. SyncTypes'
    BY <1>42 DEF SyncListPods, SyncTypes, InUsePorts, PodTypes
  <2> QED
    BY <1>42, <2>1, SameTypes DEF SyncListPods, coreVars, jobVars
<1>43. ASSUME SyncListPorts PROVE TypeOK'
  <2>1. SyncTypes'
    BY <1>43 DEF SyncListPorts, SyncTypes, NeutronTypes, AllGroups, Groups, NoGroup
  <2> QED
    BY <1>43, <2>1, SameTypes DEF SyncListPorts, coreVars, jobVars
<1>44. ASSUME NEW p \in Ports, RecoverPort(p) PROVE TypeOK'
  <2>1. SyncTypes'
    BY <1>44 DEF RecoverPort, SyncTypes, AllGroups, Groups, NoGroup
  <2>2. PoolTypes'
    <3>1. <<p>> \in Seq(Ports) /\ found[p] \in AllGroups
      BY DEF SyncTypes
    <3>2. avail' \in [Pools -> [AllGroups -> Seq(Ports)]]
      BY <1>44, <3>1, ListingType, GroupTypes DEF RecoverPort
    <3> QED
      BY <1>44, <3>2 DEF RecoverPort, PoolTypes
  <2> QED
    BY <1>44, <2>1, <2>2, SameTypes DEF RecoverPort, coreVars, jobVars
<1>45. ASSUME SyncDone PROVE TypeOK'
  <2>1. SyncTypes'
    BY <1>45 DEF SyncDone, SyncTypes
  <2> QED
    BY <1>45, <2>1, SameTypes DEF SyncDone, coreVars, jobVars
<1>46. ASSUME Restart PROVE TypeOK'
  <2>1. PodTypes'
    BY <1>46 DEF Restart, PodTypes
  <2>2. SyncTypes'
    BY <1>46 DEF Restart, SyncTypes, AllGroups, Groups, NoGroup
  <2>3. PoolTypes'
    BY <1>46 DEF Restart, PoolTypes, Without, NoUpdate, AllGroups, Groups, NoGroup
  <2>4. PopulateTypes'
    BY <1>46 DEF Restart, PopulateTypes
  <2>5. RecycleTypes'
    BY <1>46 DEF Restart, RecycleTypes, Unlocked, AllGroups, Groups, NoGroup
  <2>6. NetTypes'
    BY <1>46 DEF Restart, NetTypes, NoNetJob
  <2>7. PolicyTypes'
    BY <1>46, GroupTypes DEF Restart, PolicyTypes, NoSGJob, NoPolJob
  <2>8. BoundTypes'
    BY <1>46, TroubleTypes, SameTypes DEF Restart
  <2> QED
    BY <1>46, <2>1, <2>2, <2>3, <2>4, <2>5, <2>6, <2>7, <2>8, SameTypes DEF Restart, coreVars, jobVars
<1> QED
  BY <1>1, <1>2, <1>3, <1>4, <1>5, <1>6, <1>7, <1>8, <1>9, <1>10, <1>11, <1>12, <1>13, <1>14, <1>15, <1>16, <1>17, <1>18, <1>19, <1>20, <1>21, <1>22, <1>23, <1>24, <1>25, <1>26, <1>27, <1>28, <1>29, <1>30, <1>31, <1>32, <1>33, <1>34, <1>35, <1>36, <1>37, <1>38, <1>39, <1>40, <1>41, <1>42, <1>43, <1>44, <1>45, <1>46
  DEF Next, PodStep, PopulateStep, RecycleStep, NetDeleteStep, RemoveSGStep,
      SyncStep, Jobs

-----------------------------------------------------------------------------
(* Pods *)

(* Which steps concern the pods. *)
LEMMA PodsFrame ==
    ASSUME Next
    PROVE  \/ \E c \in Pods : CreatePod(c) \/ RemovePod(c) \/ PodStep(c)
           \/ Restart
           \/ UNCHANGED k8sVars
<1>1. ASSUME NEW j \in Jobs, PopulateStep(j) PROVE UNCHANGED k8sVars
  BY <1>1 DEF PopulateStep, PopulateStart, PortsCreated, PortsRefused, PopulateFinish,
              PopulateFails
<1>2. ASSUME RecycleStep PROVE UNCHANGED k8sVars
  BY <1>2 DEF RecycleStep, RecycleBegin, RecycleFails, RecyclePort, DeletePort,
              DeletePortFails, RecycleEnd, coreVars
<1>3. ASSUME NetDeleteStep \/ \E n \in Nets : NetDeleteStart(n)
      PROVE  UNCHANGED k8sVars
  BY <1>3 DEF NetDeleteStep, NetDeleteStart, NetDeletePools, NetDeletePool,
              NetDeletePort, NetDeletePortFails, NetClearPool, NetDeleteEnd, coreVars
<1>4. ASSUME RemoveSGStep \/ \E sg \in SGs, n \in Nets : RemoveSGStart(sg, n)
      PROVE  UNCHANGED k8sVars
  BY <1>4 DEF RemoveSGStep, RemoveSGStart, RemoveSGPool, RemoveSGGroup,
              RemoveSGPort, RemoveSGPortFails, RemoveSGGroupDone,
              RemoveSGPoolDone, RemoveSGEnd, coreVars
<1>5. ASSUME SyncStep PROVE UNCHANGED k8sVars
  BY <1>5 DEF SyncStep, SyncReset, SyncListPods, SyncListPorts, RecoverPort, SyncDone
<1>6. ASSUME \/ \E k \in Pools : Tick(k)
             \/ \E c \in Pods, g \in Groups : PolicyUpdate(c, g)
             \/ PolicyUpdateEnd
      PROVE  UNCHANGED k8sVars
  BY <1>6 DEF Tick, PolicyUpdate, PolicyUpdateEnd, coreVars
<1> QED
  BY <1>1, <1>2, <1>3, <1>4, <1>5, <1>6 DEF Next, Jobs

(* A step keeps the pods consistent. *)
LEMMA PodsStep ==
    ASSUME TypeOK, PodsConsistent, Next
    PROVE  PodsConsistent'
<1> USE DEF PodsConsistent
<1>1. ASSUME NEW c \in Pods, CreatePod(c) PROVE PodsConsistent'
  BY <1>1 DEF CreatePod, TypeOK, PodTypes
<1>2. ASSUME NEW c \in Pods, RemovePod(c) PROVE PodsConsistent'
  BY <1>2 DEF RemovePod, TypeOK, PodTypes
<1>3. ASSUME NEW c \in Pods, HandleDeleted(c) PROVE PodsConsistent'
  BY <1>3 DEF HandleDeleted, TypeOK, PodTypes
<1>4. ASSUME NEW c \in Pods, NextTry(c) PROVE PodsConsistent'
  BY <1>4 DEF NextTry, TypeOK, PodTypes
<1>5. ASSUME NEW c \in Pods, RequestExact(c) PROVE PodsConsistent'
  <2>1. avail[PodPool[c]][PodSGs[c]] \in Seq(Ports)
    BY GroupTypes DEF TypeOK, PoolTypes
  <2>2. Last(avail[PodPool[c]][PodSGs[c]]) # NoPort
    BY <1>5, <2>1, PopType, ConstantsAssumption DEF RequestExact
  <2> QED
    BY <1>5, <2>2 DEF RequestExact, HandOut, TypeOK, PodTypes
<1>6. ASSUME NEW c \in Pods, NEW g \in AllGroups, RequestOther(c, g)
      PROVE  PodsConsistent'
  <2>1. avail[PodPool[c]][g] \in Seq(Ports) /\ avail[PodPool[c]][g] # <<>>
    BY <1>6, GroupTypes DEF RequestOther, OtherGroups, TypeOK, PoolTypes
  <2>2. Last(avail[PodPool[c]][g]) # NoPort
    BY <2>1, PopType, ConstantsAssumption
  <2> QED
    BY <1>6, <2>2 DEF RequestOther, TypeOK, PodTypes
<1>7. ASSUME NEW c \in Pods, RequestRefused(c) PROVE PodsConsistent'
  BY <1>7 DEF RequestRefused, TypeOK, PodTypes
<1>8. ASSUME NEW c \in Pods, PortUpdated(c) PROVE PodsConsistent'
  BY <1>8 DEF PortUpdated, HandOut, TypeOK, PodTypes
<1>9. ASSUME NEW c \in Pods, PortUpdateFails(c) PROVE PodsConsistent'
  BY <1>9 DEF PortUpdateFails, TypeOK, PodTypes
<1>10. ASSUME NEW c \in Pods, Annotate(c) PROVE PodsConsistent'
  BY <1>10 DEF Annotate, TypeOK, PodTypes
<1>11. ASSUME NEW c \in Pods, AnnotateFails(c) PROVE PodsConsistent'
  BY <1>11 DEF AnnotateFails, TypeOK, PodTypes
<1>12. ASSUME Restart PROVE PodsConsistent'
  BY <1>12 DEF Restart, TypeOK, PodTypes
<1>13. ASSUME UNCHANGED k8sVars PROVE PodsConsistent'
  BY <1>13 DEF k8sVars
<1> QED
  BY <1>1, <1>2, <1>3, <1>4, <1>5, <1>6, <1>7, <1>8, <1>9, <1>10, <1>11, <1>12,
     <1>13, PodsFrame DEF PodStep

(* The initial state. *)
LEMMA InitTypes ==
    ASSUME Init
    PROVE  TypeOK /\ PodsConsistent
<1> USE DEF Init
<1>1. NeutronTypes /\ PodTypes
  BY GroupTypes DEF NeutronTypes, PodTypes
<1>2. SyncTypes
  BY GroupTypes DEF SyncTypes
<1>3. PoolTypes
  BY GroupTypes DEF PoolTypes, NoUpdate
<1>4. PopulateTypes
  BY DEF PopulateTypes
<1>5. RecycleTypes
  BY GroupTypes DEF RecycleTypes, Unlocked
<1>6. NetTypes
  BY DEF NetTypes, NoNetJob
<1>7. PolicyTypes
  BY GroupTypes DEF PolicyTypes, NoSGJob, NoPolJob
<1>8. BoundTypes
  <2>1. troubles \in 0..MaxTroubles
    BY ConstantsAssumption
  <2>2. faulty \in BOOLEAN
    OBVIOUS
  <2> QED
    BY <2>1, <2>2 DEF BoundTypes
<1>9. PodsConsistent
  BY DEF PodsConsistent
<1> QED
  BY <1>1, <1>2, <1>3, <1>4, <1>5, <1>6, <1>7, <1>8, <1>9 DEF TypeOK

(* The types hold whatever fails, restarts or races: no handler ever stores  *)
(* anything but a port in the pool's lists, nor anything but groups of ports *)
(* in the groups of a port.                                                  *)
THEOREM Types == Spec => []TypeOK
<1> DEFINE Inv == TypeOK /\ PodsConsistent
<1>1. Init => Inv
  BY InitTypes
<1>2. Inv /\ [Next]_vars => Inv'
  <2>1. CASE Next
    BY <2>1, TypeStep, PodsStep
  <2>2. CASE UNCHANGED vars
    <3>1. Inv => TypeOK'
      BY <2>2, SameTypes DEF vars, coreVars, jobVars, TypeOK
    <3>2. Inv => PodsConsistent'
      BY <2>2 DEF vars, coreVars, k8sVars, PodsConsistent
    <3> QED
      BY <3>1, <3>2
  <2> QED
    BY <2>1, <2>2
<1>3. Inv => TypeOK
  OBVIOUS
<1> QED
  BY <1>1, <1>2, <1>3, PTL DEF Spec

-----------------------------------------------------------------------------
(* Places *)

(* A port leaves some of its places and enters none. *)
Shrinks(p) == \A x \in Places : At(p, x)' => At(p, x)

(* A port that is in a place ends up in place y only. *)
MovesTo(p, y) ==
    /\ \A x \in Places : At(p, x)' => x = y
    /\ \E z \in Places : At(p, z)

(* A step that moves ports between places. *)
Moving1 == \A p \in Ports : Shrinks(p) \/ \E y \in Places : MovesTo(p, y)

(* No port is created anew. *)
NoneUnborn == \A p \in Ports : life'[p] = "unborn" => life[p] = "unborn"

(* The places are different. *)
LEMMA PlacesDiffer ==
    /\ \A k, l, g, h : ListPlace(k, g) = ListPlace(l, h) => k = l /\ g = h
    /\ \A c, d : PodPlace(c) = PodPlace(d) => c = d
    /\ \A i, j : JobPlace(i) = JobPlace(j) => i = j
    /\ \A k, g, j : ListPlace(k, g) # JobPlace(j)
    /\ \A k, g, c : ListPlace(k, g) # PodPlace(c)
    /\ \A c, j : PodPlace(c) # JobPlace(j)
    /\ \A k, g : ListPlace(k, g) \notin {Recyclable, Moving, ToRecover}
    /\ \A j : JobPlace(j) \notin {Recyclable, Moving, ToRecover}
    /\ \A c : PodPlace(c) \notin {Recyclable, Moving, ToRecover}
    /\ Recyclable # Moving /\ Recyclable # ToRecover /\ Moving # ToRecover
BY DEF ListPlace, PodPlace, JobPlace, Recyclable, Moving, ToRecover

(* The places are places. *)
LEMMA PlacesArePlaces ==
    /\ \A k \in Pools, g \in AllGroups : ListPlace(k, g) \in Places \ {ToRecover}
    /\ \A j \in Jobs : JobPlace(j) \in Places \ {ToRecover}
    /\ \A c \in Pods : PodPlace(c) \in Places \ {ToRecover}
    /\ Recyclable \in Places \ {ToRecover} /\ Moving \in Places \ {ToRecover}
    /\ ToRecover \in Places
BY PlacesDiffer DEF Places

(* Moving ports between places keeps each in one. *)
LEMMA MovingKeeps ==
    ASSUME OneOwner, PlacedAreBorn, Moving1, NoneUnborn
    PROVE  /\ OneOwner' /\ PlacedAreBorn'
           /\ \A p \in Ports : Known(p)' => Known(p) \/ found[p] # NoGroup
<1>1. OneOwner'
  BY DEF OneOwner, PlacesOf, Moving1, Shrinks, MovesTo
<1>2. PlacedAreBorn'
  BY DEF PlacedAreBorn, PlacesOf, Moving1, Shrinks, MovesTo, NoneUnborn
<1>3. \A p \in Ports : Known(p)' => Known(p) \/ found[p] # NoGroup
  <2>1. \A p \in Ports : At(p, ToRecover) => found[p] # NoGroup
    BY PlacesDiffer DEF At
  <2> QED
    BY <2>1 DEF Known, PlacesOf, Moving1, Shrinks, MovesTo
<1> QED
  BY <1>1, <1>2, <1>3

(* The places of a port that the lists and the pods only lose. *)
LEMMA LosingShrinks ==
    ASSUME NEW p \in Ports,
           \A k \in Pools, g \in AllGroups :
              p \in ToSet(avail'[k][g]) => p \in ToSet(avail[k][g]),
           \A j \in Jobs : p \in ToSet(created'[j]) => p \in ToSet(created[j]),
           \A c \in Pods : held'[c] = p => held[c] = p,
           p \in recyclable' => p \in recyclable,
           p \in ToSet(sgJob'.ports) => p \in ToSet(sgJob.ports),
           found'[p] # NoGroup => found[p] # NoGroup
    PROVE  Shrinks(p)
BY DEF Shrinks, At

(* Nothing about the places changes. *)
LEMMA SamePlaces ==
    ASSUME UNCHANGED <<avail, created, held, recyclable, found>>,
           sgJob'.ports \in {sgJob.ports, <<>>}
    PROVE  Moving1
BY LosingShrinks, ShortLists DEF Moving1

(* Before Neutron's ports are listed, the ports are those of running pods. *)
LEMMA EarlyPlaces ==
    ASSUME TypeOK, OnePlace, phase \in {"starting", "reset"},
           NEW p \in Ports, NEW x \in Places, At(p, x)
    PROVE  \E c \in annotated : x = PodPlace(c)
<1>1. x # ToRecover
  BY PlacesDiffer DEF OnePlace, Recovering, At
<1>2. PICK c \in annotated : held[c] = p
  BY <1>1 DEF OnePlace, Recovering, Known, PlacesOf
<1>3. c \in Pods /\ At(p, PodPlace(c))
  BY <1>2 DEF At, TypeOK, PodTypes
<1> QED
  BY <1>3, PlacesArePlaces DEF OnePlace, OneOwner, PlacesOf

(* Then no handler is giving a port to a pod. *)
LEMMA EarlyPods ==
    ASSUME TypeOK, OnePlace, phase \in {"starting", "reset"},
           NEW c \in Pods, held[c] # NoPort
    PROVE  pc[c] = "running"
<1>1. held[c] \in Ports
  BY DEF TypeOK, PodTypes
<1>2. PICK d \in annotated : PodPlace(c) = PodPlace(d)
  BY <1>1, EarlyPlaces, PlacesArePlaces DEF At
<1> QED
  BY <1>2, PlacesDiffer DEF OnePlace, PodsConsistent

(* A port that leaves place z for y, if for any. *)
LEMMA Leaving ==
    ASSUME OneOwner, NEW p \in Ports, NEW y, NEW z \in Places, At(p, z),
           \A x \in Places : At(p, x)' => x = y \/ (At(p, x) /\ x # z)
    PROVE  MovesTo(p, y)
BY DEF OneOwner, PlacesOf, MovesTo

(* What a step that moves ports has to keep besides. *)
LEMMA MovingStep ==
    ASSUME OnePlace, PodsConsistent', Moving1, NoneUnborn,
           UNCHANGED <<phase, inUse>>,
           \A p \in Ports : found'[p] # NoGroup => found[p] # NoGroup,
           phase \in {"starting", "reset"} =>
               removed' = {} /\ held' = held /\ annotated \subseteq annotated',
           ListsInjective', Populating', Recycling'
    PROVE  OnePlace'
<1>1. /\ OneOwner' /\ PlacedAreBorn'
      /\ \A p \in Ports : Known(p)' => Known(p) \/ found[p] # NoGroup
  BY MovingKeeps DEF OnePlace
<1>2. Recovering'
  BY <1>1 DEF OnePlace, Recovering
<1> QED
  BY <1>1, <1>2 DEF OnePlace

(* A step that leaves the places alone. *)
LEMMA SameStep ==
    ASSUME OnePlace, PodsConsistent', NoneUnborn,
           UNCHANGED <<avail, created, held, recyclable, found>>,
           sgJob'.ports \in {sgJob.ports, <<>>},
           UNCHANGED <<phase, inUse>>,
           phase \in {"starting", "reset"} =>
               removed' = {} /\ annotated \subseteq annotated',
           Populating', Recycling'
    PROVE  OnePlace'
<1>1. Moving1
  BY SamePlaces
<1>2. ListsInjective'
  BY ShortLists DEF OnePlace, ListsInjective
<1> QED
  BY <1>1, <1>2, MovingStep


(* The steps that leave the ports where they are. *)
QuietStep ==
    \/ \E c \in Pods : CreatePod(c) \/ RemovePod(c) \/ NextTry(c)
                        \/ RequestRefused(c) \/ Annotate(c)
    \/ \E j \in Jobs : PopulateStart(j) \/ PortsRefused(j)
    \/ \E k \in Pools : Tick(k) \/ NetDeletePool(k) \/ RemoveSGPool(k)
                         \/ RemoveSGGroupDone(k)
    \/ \E by \in {"timer", "net"} : RecycleBegin(by) \/ RecycleFails(by)
    \/ \E p \in Ports : DeletePortFails(p) \/ NetDeletePort(p)
                         \/ NetDeletePortFails(p)
    \/ RecycleEnd \/ NetDeletePools \/ NetDeleteEnd
    \/ \E n \in Nets : NetDeleteStart(n)
    \/ \E a \in SGs, n \in Nets : RemoveSGStart(a, n)
    \/ RemoveSGPoolDone \/ RemoveSGEnd \/ RemoveSGPortFails
    \/ \E c \in Pods, g \in Groups : PolicyUpdate(c, g)
    \/ PolicyUpdateEnd

(* The steps that leave the places of the ports alone. *)
LEMMA QuietSteps ==
    ASSUME TypeOK, OnePlace, PodsConsistent', "event_during_sync" \notin Races,
           QuietStep
    PROVE  OnePlace'
<1> USE DEF coreVars, jobVars, k8sVars, neutronVars, syncVars, poolVars, popVars,
            recycleVars, netVars, policyVars, TypeOK, NeutronTypes
<1>1. ASSUME NEW c \in Pods, CreatePod(c) PROVE OnePlace'
  <2>1. /\ UNCHANGED <<avail, created, held, recyclable, found>>
        /\ sgJob'.ports \in {sgJob.ports, <<>>}
        /\ UNCHANGED <<phase, inUse>> /\ NoneUnborn
        /\ phase \in {"starting", "reset"} =>
               removed' = {} /\ annotated \subseteq annotated'
    BY <1>1 DEF CreatePod, NoneUnborn, OnePlace, Recovering
  <2>2. Populating' /\ Recycling'
    BY <1>1 DEF CreatePod, OnePlace, Populating, Recycling
  <2> QED
    BY <2>1, <2>2, SameStep
<1>2. ASSUME NEW c \in Pods, RemovePod(c) PROVE OnePlace'
  <2>1. /\ UNCHANGED <<avail, created, held, recyclable, found>>
        /\ sgJob'.ports \in {sgJob.ports, <<>>}
        /\ UNCHANGED <<phase, inUse>> /\ NoneUnborn
        /\ phase \in {"starting", "reset"} =>
               removed' = {} /\ annotated \subseteq annotated'
    BY <1>2 DEF RemovePod, NoneUnborn, OnePlace, Recovering
  <2>2. Populating' /\ Recycling'
    BY <1>2 DEF RemovePod, OnePlace, Populating, Recycling
  <2> QED
    BY <2>1, <2>2, SameStep
<1>3. ASSUME NEW c \in Pods, NextTry(c) PROVE OnePlace'
  <2>1. /\ UNCHANGED <<avail, created, held, recyclable, found>>
        /\ sgJob'.ports \in {sgJob.ports, <<>>}
        /\ UNCHANGED <<phase, inUse>> /\ NoneUnborn
        /\ phase \in {"starting", "reset"} =>
               removed' = {} /\ annotated \subseteq annotated'
    BY <1>3 DEF NextTry, NoneUnborn, OnePlace, Recovering
  <2>2. Populating' /\ Recycling'
    BY <1>3 DEF NextTry, OnePlace, Populating, Recycling
  <2> QED
    BY <2>1, <2>2, SameStep
<1>4. ASSUME NEW c \in Pods, RequestRefused(c) PROVE OnePlace'
  <2>1. /\ UNCHANGED <<avail, created, held, recyclable, found>>
        /\ sgJob'.ports \in {sgJob.ports, <<>>}
        /\ UNCHANGED <<phase, inUse>> /\ NoneUnborn
        /\ phase \in {"starting", "reset"} =>
               removed' = {} /\ annotated \subseteq annotated'
    BY <1>4 DEF RequestRefused, Spawn, NoneUnborn, OnePlace, Recovering
  <2>2. Populating' /\ Recycling'
    BY <1>4 DEF RequestRefused, Spawn, OnePlace, Populating, Recycling
  <2> QED
    BY <2>1, <2>2, SameStep
<1>5. ASSUME NEW c \in Pods, Annotate(c) PROVE OnePlace'
  <2>1. /\ UNCHANGED <<avail, created, held, recyclable, found>>
        /\ sgJob'.ports \in {sgJob.ports, <<>>}
        /\ UNCHANGED <<phase, inUse>> /\ NoneUnborn
        /\ phase \in {"starting", "reset"} =>
               removed' = {} /\ annotated \subseteq annotated'
    BY <1>5 DEF Annotate, NoneUnborn, OnePlace, Recovering
  <2>2. Populating' /\ Recycling'
    BY <1>5 DEF Annotate, OnePlace, Populating, Recycling
  <2> QED
    BY <2>1, <2>2, SameStep
<1>6. ASSUME NEW j \in Jobs, PopulateStart(j) PROVE OnePlace'
  <2>1. /\ UNCHANGED <<avail, created, held, recyclable, found>>
        /\ sgJob'.ports \in {sgJob.ports, <<>>}
        /\ UNCHANGED <<phase, inUse>> /\ NoneUnborn
        /\ phase \in {"starting", "reset"} =>
               removed' = {} /\ annotated \subseteq annotated'
    BY <1>6 DEF PopulateStart, NoneUnborn, OnePlace, Recovering
  <2>2. Populating' /\ Recycling'
    BY <1>6 DEF PopulateStart, OnePlace, Populating, Recycling, PopulateTypes, Jobs
  <2> QED
    BY <2>1, <2>2, SameStep
<1>7. ASSUME NEW j \in Jobs, PortsRefused(j) PROVE OnePlace'
  <2>1. /\ UNCHANGED <<avail, created, held, recyclable, found>>
        /\ sgJob'.ports \in {sgJob.ports, <<>>}
        /\ UNCHANGED <<phase, inUse>> /\ NoneUnborn
        /\ phase \in {"starting", "reset"} =>
               removed' = {} /\ annotated \subseteq annotated'
    BY <1>7 DEF PortsRefused, NoneUnborn, OnePlace, Recovering
  <2>2. Populating' /\ Recycling'
    BY <1>7 DEF PortsRefused, OnePlace, Populating, Recycling, PopulateTypes, Jobs
  <2> QED
    BY <2>1, <2>2, SameStep
<1>8. ASSUME NEW k \in Pools, Tick(k) PROVE OnePlace'
  <2>1. /\ UNCHANGED <<avail, created, held, recyclable, found>>
        /\ sgJob'.ports \in {sgJob.ports, <<>>}
        /\ UNCHANGED <<phase, inUse>> /\ NoneUnborn
        /\ phase \in {"starting", "reset"} =>
               removed' = {} /\ annotated \subseteq annotated'
    BY <1>8 DEF Tick, NoneUnborn, OnePlace, Recovering
  <2>2. Populating' /\ Recycling'
    BY <1>8 DEF Tick, OnePlace, Populating, Recycling
  <2> QED
    BY <2>1, <2>2, SameStep
<1>9. ASSUME NEW by \in {"timer", "net"}, RecycleBegin(by) PROVE OnePlace'
  <2>1. /\ UNCHANGED <<avail, created, held, recyclable, found>>
        /\ sgJob'.ports \in {sgJob.ports, <<>>}
        /\ UNCHANGED <<phase, inUse>> /\ NoneUnborn
        /\ phase \in {"starting", "reset"} =>
               removed' = {} /\ annotated \subseteq annotated'
    BY <1>9 DEF RecycleBegin, NoneUnborn, OnePlace, Recovering
  <2>2. Populating' /\ Recycling'
    BY <1>9 DEF RecycleBegin, OnePlace, Populating, Recycling
  <2> QED
    BY <2>1, <2>2, SameStep
<1>10. ASSUME NEW by \in {"timer", "net"}, RecycleFails(by) PROVE OnePlace'
  <2>1. /\ UNCHANGED <<avail, created, held, recyclable, found>>
        /\ sgJob'.ports \in {sgJob.ports, <<>>}
        /\ UNCHANGED <<phase, inUse>> /\ NoneUnborn
        /\ phase \in {"starting", "reset"} =>
               removed' = {} /\ annotated \subseteq annotated'
    BY <1>10 DEF RecycleFails, CallerFails, NoneUnborn, OnePlace, Recovering
  <2>2. Populating' /\ Recycling'
    BY <1>10 DEF RecycleFails, CallerFails, OnePlace, Populating, Recycling
  <2> QED
    BY <2>1, <2>2, SameStep
<1>11. ASSUME NEW p \in Ports, DeletePortFails(p) PROVE OnePlace'
  <2>1. /\ UNCHANGED <<avail, created, held, recyclable, found>>
        /\ sgJob'.ports \in {sgJob.ports, <<>>}
        /\ UNCHANGED <<phase, inUse>> /\ NoneUnborn
        /\ phase \in {"starting", "reset"} =>
               removed' = {} /\ annotated \subseteq annotated'
    BY <1>11 DEF DeletePortFails, CallerFails, Unlocked, NoneUnborn, OnePlace, Recovering
  <2>2. Populating' /\ Recycling'
    BY <1>11 DEF DeletePortFails, CallerFails, Unlocked, OnePlace, Populating, Recycling
  <2> QED
    BY <2>1, <2>2, SameStep
<1>12. ASSUME RecycleEnd PROVE OnePlace'
  <2>1. /\ UNCHANGED <<avail, created, held, recyclable, found>>
        /\ sgJob'.ports \in {sgJob.ports, <<>>}
        /\ UNCHANGED <<phase, inUse>> /\ NoneUnborn
        /\ phase \in {"starting", "reset"} =>
               removed' = {} /\ annotated \subseteq annotated'
    BY <1>12 DEF RecycleEnd, Unlocked, NoneUnborn, OnePlace, Recovering
  <2>2. Populating' /\ Recycling'
    BY <1>12 DEF RecycleEnd, Unlocked, OnePlace, Populating, Recycling
  <2> QED
    BY <2>1, <2>2, SameStep
<1>13. ASSUME NEW n \in Nets, NetDeleteStart(n) PROVE OnePlace'
  <2>1. /\ UNCHANGED <<avail, created, held, recyclable, found>>
        /\ sgJob'.ports \in {sgJob.ports, <<>>}
        /\ UNCHANGED <<phase, inUse>> /\ NoneUnborn
        /\ phase \in {"starting", "reset"} =>
               removed' = {} /\ annotated \subseteq annotated'
    BY <1>13 DEF NetDeleteStart, NoneUnborn, OnePlace, Recovering
  <2>2. Populating' /\ Recycling'
    BY <1>13 DEF NetDeleteStart, OnePlace, Populating, Recycling
  <2> QED
    BY <2>1, <2>2, SameStep
<1>14. ASSUME NetDeletePools PROVE OnePlace'
  <2>1. /\ UNCHANGED <<avail, created, held, recyclable, found>>
        /\ sgJob'.ports \in {sgJob.ports, <<>>}
        /\ UNCHANGED <<phase, inUse>> /\ NoneUnborn
        /\ phase \in {"starting", "reset"} =>
               removed' = {} /\ annotated \subseteq annotated'
    BY <1>14 DEF NetDeletePools, NoneUnborn, OnePlace, Recovering
  <2>2. Populating' /\ Recycling'
    BY <1>14 DEF NetDeletePools, OnePlace, Populating, Recycling
  <2> QED
    BY <2>1, <2>2, SameStep
<1>15. ASSUME NEW k \in Pools, NetDeletePool(k) PROVE OnePlace'
  <2>1. /\ UNCHANGED <<avail, created, held, recyclable, found>>
        /\ sgJob'.ports \in {sgJob.ports, <<>>}
        /\ UNCHANGED <<phase, inUse>> /\ NoneUnborn
        /\ phase \in {"starting", "reset"} =>
               removed' = {} /\ annotated \subseteq annotated'
    BY <1>15 DEF NetDeletePool, NoneUnborn, OnePlace, Recovering
  <2>2. Populating' /\ Recycling'
    BY <1>15 DEF NetDeletePool, OnePlace, Populating, Recycling
  <2> QED
    BY <2>1, <2>2, SameStep
<1>16. ASSUME NEW p \in Ports, NetDeletePort(p) PROVE OnePlace'
  <2>1. /\ UNCHANGED <<avail, created, held, recyclable, found>>
        /\ sgJob'.ports \in {sgJob.ports, <<>>}
        /\ UNCHANGED <<phase, inUse>> /\ NoneUnborn
        /\ phase \in {"starting", "reset"} =>
               removed' = {} /\ annotated \subseteq annotated'
    BY <1>16 DEF NetDeletePort, NoneUnborn, OnePlace, Recovering
  <2>2. Populating' /\ Recycling'
    BY <1>16 DEF NetDeletePort, OnePlace, Populating, Recycling
  <2> QED
    BY <2>1, <2>2, SameStep
<1>17. ASSUME NEW p \in Ports, NetDeletePortFails(p) PROVE OnePlace'
  <2>1. /\ UNCHANGED <<avail, created, held, recyclable, found>>
        /\ sgJob'.ports \in {sgJob.ports, <<>>}
        /\ UNCHANGED <<phase, inUse>> /\ NoneUnborn
        /\ phase \in {"starting", "reset"} =>
               removed' = {} /\ annotated \subseteq annotated'
    BY <1>17 DEF NetDeletePortFails, NoneUnborn, OnePlace, Recovering
  <2>2. Populating' /\ Recycling'
    BY <1>17 DEF NetDeletePortFails, OnePlace, Populating, Recycling
  <2> QED
    BY <2>1, <2>2, SameStep
<1>18. ASSUME NetDeleteEnd PROVE OnePlace'
  <2>1. /\ UNCHANGED <<avail, created, held, recyclable, found>>
        /\ sgJob'.ports \in {sgJob.ports, <<>>}
        /\ UNCHANGED <<phase, inUse>> /\ NoneUnborn
        /\ phase \in {"starting", "reset"} =>
               removed' = {} /\ annotated \subseteq annotated'
    BY <1>18 DEF NetDeleteEnd, NoneUnborn, OnePlace, Recovering
  <2>2. Populating' /\ Recycling'
    BY <1>18 DEF NetDeleteEnd, OnePlace, Populating, Recycling
  <2> QED
    BY <2>1, <2>2, SameStep
<1>19. ASSUME NEW a \in SGs, NEW n \in Nets, RemoveSGStart(a, n)
       PROVE OnePlace'
  <2>1. /\ UNCHANGED <<avail, created, held, recyclable, found>>
        /\ sgJob'.ports \in {sgJob.ports, <<>>}
        /\ UNCHANGED <<phase, inUse>> /\ NoneUnborn
        /\ phase \in {"starting", "reset"} =>
               removed' = {} /\ annotated \subseteq annotated'
    BY <1>19 DEF RemoveSGStart, NoSGJob, NoneUnborn, OnePlace, Recovering
  <2>2. Populating' /\ Recycling'
    BY <1>19 DEF RemoveSGStart, NoSGJob, OnePlace, Populating, Recycling
  <2> QED
    BY <2>1, <2>2, SameStep
<1>20. ASSUME NEW k \in Pools, RemoveSGPool(k) PROVE OnePlace'
  <2>1. /\ UNCHANGED <<avail, created, held, recyclable, found>>
        /\ sgJob'.ports \in {sgJob.ports, <<>>}
        /\ UNCHANGED <<phase, inUse>> /\ NoneUnborn
        /\ phase \in {"starting", "reset"} =>
               removed' = {} /\ annotated \subseteq annotated'
    BY <1>20 DEF RemoveSGPool, NoneUnborn, OnePlace, Recovering
  <2>2. Populating' /\ Recycling'
    BY <1>20 DEF RemoveSGPool, OnePlace, Populating, Recycling
  <2> QED
    BY <2>1, <2>2, SameStep
<1>21. ASSUME NEW k \in Pools, RemoveSGGroupDone(k) PROVE OnePlace'
  <2>1. /\ UNCHANGED <<avail, created, held, recyclable, found>>
        /\ sgJob'.ports \in {sgJob.ports, <<>>}
        /\ UNCHANGED <<phase, inUse>> /\ NoneUnborn
        /\ phase \in {"starting", "reset"} =>
               removed' = {} /\ annotated \subseteq annotated'
    BY <1>21 DEF RemoveSGGroupDone, NoneUnborn, OnePlace, Recovering
  <2>2. Populating' /\ Recycling'
    BY <1>21 DEF RemoveSGGroupDone, OnePlace, Populating, Recycling
  <2> QED
    BY <2>1, <2>2, SameStep
<1>22. ASSUME RemoveSGPoolDone PROVE OnePlace'
  <2>1. /\ UNCHANGED <<avail, created, held, recyclable, found>>
        /\ sgJob'.ports \in {sgJob.ports, <<>>}
        /\ UNCHANGED <<phase, inUse>> /\ NoneUnborn
        /\ phase \in {"starting", "reset"} =>
               removed' = {} /\ annotated \subseteq annotated'
    BY <1>22 DEF RemoveSGPoolDone, NoneUnborn, OnePlace, Recovering
  <2>2. Populating' /\ Recycling'
    BY <1>22 DEF RemoveSGPoolDone, OnePlace, Populating, Recycling
  <2> QED
    BY <2>1, <2>2, SameStep
<1>23. ASSUME RemoveSGEnd PROVE OnePlace'
  <2>1. /\ UNCHANGED <<avail, created, held, recyclable, found>>
        /\ sgJob'.ports \in {sgJob.ports, <<>>}
        /\ UNCHANGED <<phase, inUse>> /\ NoneUnborn
        /\ phase \in {"starting", "reset"} =>
               removed' = {} /\ annotated \subseteq annotated'
    BY <1>23 DEF RemoveSGEnd, NoSGJob, NoneUnborn, OnePlace, Recovering
  <2>2. Populating' /\ Recycling'
    BY <1>23 DEF RemoveSGEnd, NoSGJob, OnePlace, Populating, Recycling
  <2> QED
    BY <2>1, <2>2, SameStep
<1>24. ASSUME RemoveSGPortFails PROVE OnePlace'
  <2>1. /\ UNCHANGED <<avail, created, held, recyclable, found>>
        /\ sgJob'.ports \in {sgJob.ports, <<>>}
        /\ UNCHANGED <<phase, inUse>> /\ NoneUnborn
        /\ phase \in {"starting", "reset"} =>
               removed' = {} /\ annotated \subseteq annotated'
    BY <1>24 DEF RemoveSGPortFails, NoSGJob, NoneUnborn, OnePlace, Recovering
  <2>2. Populating' /\ Recycling'
    BY <1>24 DEF RemoveSGPortFails, NoSGJob, OnePlace, Populating, Recycling
  <2> QED
    BY <2>1, <2>2, SameStep
<1>25. ASSUME NEW c \in Pods, NEW g \in Groups, PolicyUpdate(c, g)
       PROVE OnePlace'
  <2>1. /\ UNCHANGED <<avail, created, held, recyclable, found>>
        /\ sgJob'.ports \in {sgJob.ports, <<>>}
        /\ UNCHANGED <<phase, inUse>> /\ NoneUnborn
        /\ phase \in {"starting", "reset"} =>
               removed' = {} /\ annotated \subseteq annotated'
    BY <1>25 DEF PolicyUpdate, NoneUnborn, OnePlace, Recovering
  <2>2. Populating' /\ Recycling'
    BY <1>25 DEF PolicyUpdate, OnePlace, Populating, Recycling
  <2> QED
    BY <2>1, <2>2, SameStep
<1>26. ASSUME PolicyUpdateEnd PROVE OnePlace'
  <2>1. /\ UNCHANGED <<avail, created, held, recyclable, found>>
        /\ sgJob'.ports \in {sgJob.ports, <<>>}
        /\ UNCHANGED <<phase, inUse>> /\ NoneUnborn
        /\ phase \in {"starting", "reset"} =>
               removed' = {} /\ annotated \subseteq annotated'
    BY <1>26 DEF PolicyUpdateEnd, NoneUnborn, OnePlace, Recovering
  <2>2. Populating' /\ Recycling'
    BY <1>26 DEF PolicyUpdateEnd, OnePlace, Populating, Recycling
  <2> QED
    BY <2>1, <2>2, SameStep
<1> QED
  BY <1>1, <1>2, <1>3, <1>4, <1>5, <1>6, <1>7, <1>8, <1>9, <1>10, <1>11,
     <1>12, <1>13, <1>14, <1>15, <1>16, <1>17, <1>18, <1>19, <1>20, <1>21,
     <1>22, <1>23, <1>24, <1>25, <1>26 DEF QuietStep

(* A port that leaves place z for y, list by list. *)
LEMMA LeavingFor ==
    ASSUME OneOwner, NEW p \in Ports, NEW y, NEW z \in Places, At(p, z),
           \A k \in Pools, g \in AllGroups :
              p \in ToSet(avail'[k][g]) =>
                 \/ ListPlace(k, g) = y
                 \/ p \in ToSet(avail[k][g]) /\ ListPlace(k, g) # z,
           \A j \in Jobs :
              p \in ToSet(created'[j]) => p \in ToSet(created[j]) /\ JobPlace(j) # z,
           \A c \in Pods :
              held'[c] = p => PodPlace(c) = y \/ (held[c] = p /\ PodPlace(c) # z),
           p \in recyclable' => Recyclable = y \/ (p \in recyclable /\ Recyclable # z),
           p \in ToSet(sgJob'.ports) =>
              Moving = y \/ (p \in ToSet(sgJob.ports) /\ Moving # z),
           found'[p] # NoGroup => found[p] # NoGroup /\ ToRecover # z
    PROVE  MovesTo(p, y)
<1>1. \A x \in Places : At(p, x)' => x = y \/ (At(p, x) /\ x # z)
  BY DEF At
<1> QED
  BY <1>1, Leaving

(* A handler takes the last port of a list. *)
LEMMA Popping ==
    ASSUME TypeOK, OnePlace, NEW c \in Pods, NEW k \in Pools, NEW g \in AllGroups,
           avail[k][g] # <<>>,
           avail' = [avail EXCEPT ![k][g] = Front(avail[k][g])],
           \A d \in Pods : held'[d] \in Ports =>
               held'[d] = IF d = c THEN Last(avail[k][g]) ELSE held[d],
           UNCHANGED <<created, recyclable, sgJob, found>>
    PROVE  Moving1 /\ ListsInjective' /\ phase \notin {"starting", "reset"}
<1> DEFINE q == Last(avail[k][g])
<1>1. avail[k][g] \in Seq(Ports) /\ IsInjective(avail[k][g])
  BY DEF TypeOK, PoolTypes, OnePlace, ListsInjective
<1>2. /\ IsInjective(Front(avail[k][g])) /\ q \in ToSet(avail[k][g]) /\ q \in Ports
      /\ ToSet(Front(avail[k][g])) = ToSet(avail[k][g]) \ {q}
  BY <1>1, PopKeeps, ToSetType
<1>3. \A l \in Pools, h \in AllGroups :
         avail'[l][h] = IF l = k /\ h = g THEN Front(avail[k][g]) ELSE avail[l][h]
  BY DEF TypeOK, PoolTypes
<1>4. At(q, ListPlace(k, g))
  BY <1>2 DEF At
<1>5. MovesTo(q, PodPlace(c))
  <2>1. \A l \in Pools, h \in AllGroups :
           q \in ToSet(avail'[l][h]) =>
               q \in ToSet(avail[l][h]) /\ ListPlace(l, h) # ListPlace(k, g)
    BY <1>2, <1>3, PlacesDiffer
  <2>2. OneOwner
    BY DEF OnePlace
  <2>3. /\ \A j \in Jobs : JobPlace(j) # ListPlace(k, g)
        /\ \A d \in Pods : PodPlace(d) # ListPlace(k, g)
        /\ ListPlace(k, g) \notin {Recyclable, Moving, ToRecover}
    BY PlacesDiffer
  <2>4. \A d \in Pods : held'[d] = q => PodPlace(d) = PodPlace(c) \/ held[d] = q
    BY <1>2
  <2> HIDE DEF q
  <2> QED
    BY <1>2, <1>4, <2>1, <2>2, <2>3, <2>4, PlacesArePlaces, LeavingFor
<1>6. ASSUME NEW p \in Ports, p # q PROVE Shrinks(p)
  <2>1. \A l \in Pools, h \in AllGroups :
           p \in ToSet(avail'[l][h]) => p \in ToSet(avail[l][h])
    BY <1>2, <1>3
  <2> QED
    BY <1>6, <2>1, LosingShrinks
<1>7. Moving1
  BY <1>5, <1>6, PlacesArePlaces DEF Moving1
<1>8. ListsInjective'
  BY <1>2, <1>3 DEF OnePlace, ListsInjective
<1>9. phase \notin {"starting", "reset"}
  BY <1>2, <1>4, EarlyPlaces, PlacesDiffer, PlacesArePlaces DEF TypeOK, PodTypes
<1> QED
  BY <1>7, <1>8, <1>9

(* A pod's port becomes recyclable. *)
LEMMA GivingBack ==
    ASSUME TypeOK, OnePlace, NEW c \in Pods, held[c] \in Ports,
           held' = [held EXCEPT ![c] = NoPort],
           recyclable' = recyclable \cup {held[c]},
           UNCHANGED <<avail, created, sgJob, found>>
    PROVE  Moving1
<1>1. \A d \in Pods : held'[d] = IF d = c THEN NoPort ELSE held[d]
  BY DEF TypeOK, PodTypes
<1>2. At(held[c], PodPlace(c)) /\ OneOwner
  BY DEF At, OnePlace
<1>3. MovesTo(held[c], Recyclable)
  <2>1. \A d \in Pods : held'[d] = held[c] => held[d] = held[c] /\ PodPlace(d) # PodPlace(c)
    BY <1>1, PlacesDiffer, ConstantsAssumption
  <2>2. /\ \A j \in Jobs : JobPlace(j) # PodPlace(c)
        /\ \A k \in Pools, g \in AllGroups : ListPlace(k, g) # PodPlace(c)
        /\ PodPlace(c) \notin {Recyclable, Moving, ToRecover}
    BY PlacesDiffer
  <2> DEFINE q == held[c]
  <2>3. q \in Ports /\ At(q, PodPlace(c)) /\ \A d \in Pods : held'[d] = q => held[d] = q /\ PodPlace(d) # PodPlace(c)
    BY <1>2, <2>1
  <2>4. MovesTo(q, Recyclable)
    <3> HIDE DEF q
    <3> QED
      BY <1>2, <2>2, <2>3, PlacesArePlaces, LeavingFor
  <2> QED
    BY <2>4
<1>4. ASSUME NEW p \in Ports, p # held[c] PROVE Shrinks(p)
  BY <1>1, <1>4, LosingShrinks, ConstantsAssumption
<1> QED
  BY <1>3, <1>4, PlacesArePlaces DEF Moving1

(* Ports are listed that were in place z. *)
LEMMA ListingMoves ==
    ASSUME TypeOK, OnePlace, NEW k \in Pools, NEW g \in AllGroups,
           NEW s \in Seq(Ports), IsInjective(s), Listing(k, g, s),
           NEW z \in Places, \A l, h : ListPlace(l, h) # z, \A c : PodPlace(c) # z,
           \A p \in ToSet(s) : At(p, z),
           UNCHANGED held,
           \A j \in Jobs : \A p \in ToSet(created'[j]) :
              p \in ToSet(created[j]) /\ (p \in ToSet(s) => JobPlace(j) # z),
           \A p \in recyclable' :
              p \in recyclable /\ (p \in ToSet(s) => Recyclable # z),
           \A p \in ToSet(sgJob'.ports) :
              p \in ToSet(sgJob.ports) /\ (p \in ToSet(s) => Moving # z),
           \A p \in Ports : found'[p] # NoGroup =>
              found[p] # NoGroup /\ (p \in ToSet(s) => ToRecover # z)
    PROVE  /\ Moving1
           /\ \A l \in Pools, h \in AllGroups : IsInjective(avail'[l][h])
<1>1. \A l \in Pools, h \in AllGroups :
         avail'[l][h] = IF l = k /\ h = g THEN avail[k][g] \o s ELSE avail[l][h]
  BY DEF Listing, TypeOK, PoolTypes
<1>2. avail[k][g] \in Seq(Ports) /\ IsInjective(avail[k][g]) /\ OneOwner
  BY DEF TypeOK, PoolTypes, OnePlace, ListsInjective
<1>3. ToSet(s) \subseteq Ports
  BY ToSetType
<1>4. ASSUME NEW p \in ToSet(s) PROVE p \notin ToSet(avail[k][g])
  <2>1. p \in ToSet(avail[k][g]) => At(p, ListPlace(k, g))
    BY DEF At
  <2> QED
    BY <1>2, <1>3, <2>1, PlacesArePlaces DEF OneOwner, PlacesOf
<1>5. /\ IsInjective(avail[k][g] \o s)
      /\ ToSet(avail[k][g] \o s) = ToSet(avail[k][g]) \cup ToSet(s)
  BY <1>2, <1>4, AppendKeeps
<1>6. ASSUME NEW p \in ToSet(s) PROVE MovesTo(p, ListPlace(k, g))
  <2>1. \A l \in Pools, h \in AllGroups :
           p \in ToSet(avail'[l][h]) =>
               \/ ListPlace(l, h) = ListPlace(k, g)
               \/ p \in ToSet(avail[l][h]) /\ ListPlace(l, h) # z
    BY <1>1
  <2>2. p \in Ports /\ At(p, z)
    BY <1>3
  <2> QED
    BY <1>2, <2>1, <2>2, LeavingFor
<1>7. ASSUME NEW p \in Ports \ ToSet(s) PROVE Shrinks(p)
  <2>1. \A l \in Pools, h \in AllGroups :
           p \in ToSet(avail'[l][h]) => p \in ToSet(avail[l][h])
    BY <1>1, <1>5
  <2> QED
    BY <2>1, LosingShrinks
<1>8. Moving1
  BY <1>6, <1>7, PlacesArePlaces DEF Moving1
<1> QED
  BY <1>1, <1>5, <1>8 DEF OnePlace, ListsInjective

-----------------------------------------------------------------------------
(* The steps that move ports *)

(* A handler drops a port. *)
LEMMA DroppingStep ==
    ASSUME TypeOK, OnePlace, PodsConsistent',
           NEW c \in Pods, PortUpdated(c) \/ PortUpdateFails(c)
    PROVE  OnePlace'
<1>1. /\ \A d \in Pods : held'[d] \in {held[d], NoPort}
      /\ held[c] # NoPort /\ pc[c] = "updating"
  BY DEF PortUpdated, PortUpdateFails, HandOut, TypeOK, PodTypes, OnePlace, PodsConsistent
<1>2. /\ UNCHANGED <<avail, created, recyclable, sgJob, found, phase, inUse>>
      /\ UNCHANGED <<life, wanted, recycler>>
  BY DEF PortUpdated, PortUpdateFails, poolVars, popVars, syncVars, jobVars,
         recycleVars, policyVars, neutronVars
<1>3. Moving1
  BY <1>1, <1>2, LosingShrinks, ConstantsAssumption DEF Moving1
<1>4. phase \notin {"starting", "reset"}
  BY <1>1, EarlyPods
<1>5. /\ NoneUnborn /\ ListsInjective' /\ Populating' /\ Recycling'
      /\ \A p \in Ports : found'[p] # NoGroup => found[p] # NoGroup
  BY <1>2 DEF NoneUnborn, OnePlace, ListsInjective, Populating, Recycling
<1> QED
  BY <1>2, <1>3, <1>4, <1>5, MovingStep

(* A handler gives back a port. *)
LEMMA ReleasingStep ==
    ASSUME TypeOK, OnePlace, PodsConsistent',
           NEW c \in Pods, HandleDeleted(c) \/ AnnotateFails(c)
    PROVE  OnePlace'
<1>1. /\ UNCHANGED <<avail, created, sgJob, found, phase, inUse>>
      /\ UNCHANGED <<life, wanted, recycler>>
      /\ held' = [held EXCEPT ![c] = NoPort]
  BY DEF HandleDeleted, AnnotateFails, poolVars, popVars, syncVars, jobVars,
         recycleVars, policyVars, neutronVars
<1>2. Moving1
  <2>1. CASE held[c] \in Ports
    <3>1. recyclable' = recyclable \cup {held[c]}
      BY <2>1, ConstantsAssumption DEF HandleDeleted, AnnotateFails, Release, OnePlace, PodsConsistent
    <3> QED
      BY <1>1, <2>1, <3>1, GivingBack
  <2>2. CASE held[c] = NoPort
    <3>1. recyclable' = recyclable
      BY <2>2 DEF HandleDeleted, AnnotateFails, OnePlace, PodsConsistent
    <3>2. held' = held
      BY <1>1, <2>2 DEF TypeOK, PodTypes
    <3> QED
      BY <1>1, <3>1, <3>2, SamePlaces
  <2> QED
    BY <2>1, <2>2 DEF TypeOK, PodTypes
<1>3. phase \notin {"starting", "reset"}
  <2>1. CASE HandleDeleted(c)
    BY <2>1 DEF HandleDeleted, OnePlace, Recovering
  <2>2. CASE AnnotateFails(c)
    BY <2>2, EarlyPods DEF AnnotateFails, OnePlace, PodsConsistent
  <2> QED
    BY <2>1, <2>2
<1>4. recyclable \subseteq recyclable'
  BY DEF HandleDeleted, AnnotateFails, Release
<1>5. /\ NoneUnborn /\ ListsInjective' /\ Populating' /\ Recycling'
      /\ \A p \in Ports : found'[p] # NoGroup => found[p] # NoGroup
  BY <1>1, <1>4 DEF NoneUnborn, OnePlace, ListsInjective, Populating, Recycling
<1> QED
  BY <1>1, <1>2, <1>3, <1>5, MovingStep

(* A handler takes a port. *)
LEMMA RequestingStep ==
    ASSUME TypeOK, OnePlace, PodsConsistent',
           NEW c \in Pods, RequestExact(c) \/ \E g \in AllGroups : RequestOther(c, g)
    PROVE  OnePlace'
<1>1. /\ UNCHANGED <<created, recyclable, sgJob, found, phase, inUse>>
      /\ UNCHANGED <<life, wanted, recycler>>
  BY DEF RequestExact, RequestOther, popVars, syncVars, jobVars, recycleVars,
         policyVars, neutronVars
<1>2. PICK g \in AllGroups :
         /\ avail[PodPool[c]][g] # <<>>
         /\ avail' = [avail EXCEPT ![PodPool[c]][g] = Front(avail[PodPool[c]][g])]
         /\ \/ held' = [held EXCEPT ![c] = Last(avail[PodPool[c]][g])]
            \/ held' = [held EXCEPT ![c] = NoPort]
  <2>1. CASE RequestExact(c)
    <3>1. PodSGs[c] \in AllGroups
      BY GroupTypes
    <3> QED
      BY <2>1, <3>1 DEF RequestExact, HandOut
  <2>2. CASE \E g \in AllGroups : RequestOther(c, g)
    BY <2>2 DEF RequestOther, OtherGroups
  <2> QED
    BY <2>1, <2>2
<1>3. \A d \in Pods : held'[d] \in Ports =>
         held'[d] = IF d = c THEN Last(avail[PodPool[c]][g]) ELSE held[d]
  BY <1>2, ConstantsAssumption DEF TypeOK, PodTypes
<1>4. Moving1 /\ ListsInjective' /\ phase \notin {"starting", "reset"}
  BY <1>1, <1>2, <1>3, GroupTypes, Popping
<1>5. /\ NoneUnborn /\ Populating' /\ Recycling'
      /\ \A p \in Ports : found'[p] # NoGroup => found[p] # NoGroup
  BY <1>1 DEF NoneUnborn, OnePlace, Populating, Recycling
<1> QED
  BY <1>1, <1>4, <1>5, MovingStep

(* The ports Neutron has just created are listed. *)
LEMMA PopulateFinishStep ==
    ASSUME TypeOK, OnePlace, PodsConsistent', NEW j \in Jobs, PopulateFinish(j)
    PROVE  OnePlace'
<1>1. /\ UNCHANGED <<held, annotated, removed, recyclable, sgJob, found>>
      /\ UNCHANGED <<phase, inUse, life, recycler>>
      /\ created' = [created EXCEPT ![j] = <<>>]
      /\ wanted' = [wanted EXCEPT ![j] = 0]
  BY DEF PopulateFinish, k8sVars, syncVars, neutronVars, jobVars, recycleVars, policyVars
<1>2. /\ j[1] \in Pools /\ j[2] \in AllGroups
      /\ created[j] \in Seq(Ports) /\ IsInjective(created[j])
  BY DEF Jobs, AllGroups, TypeOK, PopulateTypes, OnePlace, ListsInjective
<1>3. /\ \A i \in Jobs : created'[i] = IF i = j THEN <<>> ELSE created[i]
      /\ \A i \in Jobs : wanted'[i] = IF i = j THEN 0 ELSE wanted[i]
  BY <1>1 DEF TypeOK, PopulateTypes, Jobs
<1>4. \A p \in ToSet(created[j]) : At(p, JobPlace(j))
  BY DEF At
<1>5. Listing(j[1], j[2], created[j])
  BY DEF PopulateFinish
<1>6. /\ Moving1
      /\ \A l \in Pools, h \in AllGroups : IsInjective(avail'[l][h])
  <2>1. \A i \in Jobs : \A p \in ToSet(created'[i]) :
           p \in ToSet(created[i]) /\ JobPlace(i) # JobPlace(j)
    BY <1>3, ShortLists, PlacesDiffer
  <2>2. /\ JobPlace(j) \in Places /\ JobPlace(j) \notin {Recyclable, Moving, ToRecover}
        /\ \A l, h : ListPlace(l, h) # JobPlace(j)
        /\ \A c : PodPlace(c) # JobPlace(j)
    BY PlacesDiffer, PlacesArePlaces
  <2> QED
    BY <1>1, <1>2, <1>4, <1>5, <2>1, <2>2, ListingMoves
<1>7. ListsInjective' /\ Populating'
  BY <1>1, <1>3, <1>6, ShortLists DEF OnePlace, ListsInjective, Populating
<1>8. /\ NoneUnborn /\ Recycling'
      /\ phase \in {"starting", "reset"} => removed' = {}
  BY <1>1 DEF NoneUnborn, OnePlace, Recycling, Recovering
<1> QED
  BY <1>1, <1>6, <1>7, <1>8, MovingStep

(* The ports Neutron has just created are forgotten. *)
LEMMA PopulateFailsStep ==
    ASSUME TypeOK, OnePlace, PodsConsistent', NEW j \in Jobs, PopulateFails(j)
    PROVE  OnePlace'
<1>1. /\ UNCHANGED <<held, annotated, removed, avail, recyclable, sgJob, found>>
      /\ UNCHANGED <<phase, inUse, life, recycler>>
  BY DEF PopulateFails, k8sVars, syncVars, neutronVars, poolVars, jobVars,
         recycleVars, policyVars
<1>2. /\ \A i \in Jobs : created'[i] = IF i = j THEN <<>> ELSE created[i]
      /\ \A i \in Jobs : wanted'[i] = IF i = j THEN 0 ELSE wanted[i]
  BY DEF PopulateFails, TypeOK, PopulateTypes, Jobs
<1>3. Moving1
  BY <1>1, <1>2, ShortLists, LosingShrinks DEF Moving1
<1>4. ListsInjective' /\ Populating'
  BY <1>1, <1>2, ShortLists DEF OnePlace, ListsInjective, Populating
<1>5. /\ NoneUnborn /\ Recycling'
      /\ phase \in {"starting", "reset"} => removed' = {}
  BY <1>1 DEF NoneUnborn, OnePlace, Recycling, Recovering
<1> QED
  BY <1>1, <1>3, <1>4, <1>5, MovingStep

(* A recyclable port is listed again. *)
LEMMA RecyclePortStep ==
    ASSUME TypeOK, OnePlace, PodsConsistent', NEW p \in Ports, RecyclePort(p)
    PROVE  OnePlace'
<1>1. /\ UNCHANGED <<held, annotated, removed, created, wanted, sgJob, found>>
      /\ UNCHANGED <<phase, inUse, life>>
      /\ recyclable' = recyclable \ {p}
  BY DEF RecyclePort, k8sVars, syncVars, neutronVars, popVars, policyVars
<1>2. recycler'.todo = recycler.todo \ {p}
  BY DEF RecyclePort, Processed, TypeOK, RecycleTypes
<1>3. p \in recyclable /\ At(p, Recyclable)
  BY DEF RecyclePort, OnePlace, Recycling, At
<1> DEFINE k == PoolOf[p]
           g == recycler.seen[p]
<1>4. k \in Pools /\ g \in AllGroups /\ <<p>> \in Seq(Ports)
  BY GroupTypes DEF TypeOK, RecycleTypes
<1>5. PICK s \in Seq(Ports) : IsInjective(s) /\ ToSet(s) = {p} /\ Listing(k, g, s)
  BY <1>4, ShortLists DEF RecyclePort
<1>6. /\ Moving1
      /\ \A l \in Pools, h \in AllGroups : IsInjective(avail'[l][h])
  <2> HIDE DEF k, g
  <2> QED
    BY <1>1, <1>3, <1>4, <1>5, PlacesDiffer, PlacesArePlaces, ListingMoves
<1>7. ListsInjective' /\ Populating'
  BY <1>1, <1>6 DEF OnePlace, ListsInjective, Populating
<1>8. /\ NoneUnborn /\ Recycling'
      /\ phase \in {"starting", "reset"} => removed' = {}
  BY <1>1, <1>2 DEF NoneUnborn, OnePlace, Recycling, Recovering
<1> QED
  BY <1>1, <1>6, <1>7, <1>8, MovingStep

(* A recovered port is listed. *)
LEMMA RecoverPortStep ==
    ASSUME TypeOK, OnePlace, PodsConsistent', NEW p \in Ports, RecoverPort(p)
    PROVE  OnePlace'
<1>1. /\ UNCHANGED <<held, annotated, removed, created, wanted, sgJob, recyclable>>
      /\ UNCHANGED <<phase, inUse, life, recycler>>
      /\ found' = [found EXCEPT ![p] = NoGroup]
  BY DEF RecoverPort, k8sVars, neutronVars, popVars, jobVars, recycleVars, policyVars
<1>2. \A q \in Ports : found'[q] # NoGroup => found[q] # NoGroup /\ q # p
  BY <1>1 DEF TypeOK, SyncTypes
<1>3. At(p, ToRecover)
  BY DEF RecoverPort, At
<1> DEFINE k == PoolOf[p]
           g == found[p]
<1>4. k \in Pools /\ g \in AllGroups /\ <<p>> \in Seq(Ports)
  BY GroupTypes DEF TypeOK, SyncTypes
<1>5. PICK s \in Seq(Ports) : IsInjective(s) /\ ToSet(s) = {p} /\ Listing(k, g, s)
  BY <1>4, ShortLists DEF RecoverPort
<1>6. /\ Moving1
      /\ \A l \in Pools, h \in AllGroups : IsInjective(avail'[l][h])
  <2> HIDE DEF k, g
  <2> QED
    BY <1>1, <1>2, <1>3, <1>4, <1>5, PlacesDiffer, PlacesArePlaces, ListingMoves
<1>7. ListsInjective' /\ Populating'
  BY <1>1, <1>6 DEF OnePlace, ListsInjective, Populating
<1>8. /\ NoneUnborn /\ Recycling'
      /\ phase \in {"starting", "reset"} => removed' = {}
  BY <1>1 DEF NoneUnborn, OnePlace, Recycling, Recovering
<1> QED
  BY <1>1, <1>2, <1>6, <1>7, <1>8, MovingStep

(* remove_sg_from_pools takes a list out of the pool. *)
LEMMA RemoveSGGroupStep ==
    ASSUME TypeOK, OnePlace, PodsConsistent',
           NEW k \in Pools, NEW g \in AllGroups, RemoveSGGroup(k, g)
    PROVE  OnePlace'
<1>1. /\ UNCHANGED <<held, annotated, removed, created, wanted, recyclable>>
      /\ UNCHANGED <<phase, inUse, found, life, recycler>>
  BY DEF RemoveSGGroup, k8sVars, neutronVars, syncVars, popVars, recycleVars
<1>2. /\ NoneUnborn /\ Populating' /\ Recycling'
      /\ phase \in {"starting", "reset"} => removed' = {}
  BY <1>1 DEF NoneUnborn, OnePlace, Populating, Recycling, Recovering
<1>3. CASE avail' = avail /\ sgJob'.ports \in {sgJob.ports, <<>>}
  BY <1>1, <1>2, <1>3, SameStep
<1>4. CASE avail' = [avail EXCEPT ![k][g] = <<>>] /\ sgJob'.ports = avail[k][g]
  <2>1. sgJob'.ports = avail[k][g]
    BY <1>4
  <2>2. \A l \in Pools, h \in AllGroups :
           avail'[l][h] = IF l = k /\ h = g THEN <<>> ELSE avail[l][h]
    BY <1>4 DEF TypeOK, PoolTypes
  <2>3. avail[k][g] \in Seq(Ports) /\ IsInjective(avail[k][g]) /\ OneOwner
    BY DEF TypeOK, PoolTypes, OnePlace, ListsInjective
  <2>4. ASSUME NEW p \in ToSet(avail[k][g]) PROVE MovesTo(p, Moving)
    <3>1. p \in Ports /\ At(p, ListPlace(k, g))
      BY <2>3, ToSetType DEF At
    <3>2. /\ \A j \in Jobs : JobPlace(j) # ListPlace(k, g)
          /\ \A c \in Pods : PodPlace(c) # ListPlace(k, g)
          /\ ListPlace(k, g) \notin {Recyclable, Moving, ToRecover}
      BY PlacesDiffer
    <3>3. \A l \in Pools, h \in AllGroups :
             p \in ToSet(avail'[l][h]) =>
                 p \in ToSet(avail[l][h]) /\ ListPlace(l, h) # ListPlace(k, g)
      BY <2>2, ShortLists, PlacesDiffer
    <3> QED
      BY <1>1, <2>3, <3>1, <3>2, <3>3, PlacesArePlaces, LeavingFor
  <2>5. ASSUME NEW p \in Ports \ ToSet(avail[k][g]) PROVE Shrinks(p)
    BY <1>1, <2>1, <2>2, ShortLists, LosingShrinks
  <2>6. Moving1
    BY <2>4, <2>5, PlacesArePlaces DEF Moving1
  <2>7. ListsInjective'
    BY <1>1, <2>1, <2>2, <2>3, ShortLists DEF OnePlace, ListsInjective
  <2> QED
    BY <1>1, <1>2, <2>6, <2>7, MovingStep
<1>5. \/ avail' = avail /\ sgJob'.ports \in {sgJob.ports, <<>>}
      \/ avail' = [avail EXCEPT ![k][g] = <<>>] /\ sgJob'.ports = avail[k][g]
  <2>1. CASE sgJob' = NoSGJob /\ avail' = avail
    BY <2>1 DEF NoSGJob
  <2>2. CASE /\ sgJob' = [sgJob EXCEPT !.pc = "ports", !.groups = @ \ {g},
                                       !.ports = avail[k][g]]
             /\ avail' = [avail EXCEPT ![k][g] = <<>>]
    BY <2>2 DEF TypeOK, PolicyTypes
  <2>3. CASE sgJob' = [sgJob EXCEPT !.groups = @ \ {g}] /\ avail' = avail
    BY <2>3 DEF TypeOK, PolicyTypes
  <2> QED
    BY <2>1, <2>2, <2>3 DEF RemoveSGGroup
<1> QED
  BY <1>3, <1>4, <1>5

(* It lists one of the ports again. *)
LEMMA RemoveSGPortStep ==
    ASSUME TypeOK, OnePlace, PodsConsistent', NEW k \in Pools, RemoveSGPort(k)
    PROVE  OnePlace'
<1>1. /\ UNCHANGED <<held, annotated, removed, created, wanted, recyclable>>
      /\ UNCHANGED <<phase, inUse, found, life, recycler>>
  BY DEF RemoveSGPort, k8sVars, syncVars, popVars, recycleVars
<1>2. sgJob'.ports = Tail(sgJob.ports)
  BY DEF RemoveSGPort, TypeOK, PolicyTypes
<1> DEFINE t == sgJob.ports
           p == Head(t)
<1>3. t \in Seq(Ports) /\ t # <<>> /\ IsInjective(t)
  BY DEF RemoveSGPort, TypeOK, PolicyTypes, OnePlace, ListsInjective
<1>4. /\ IsInjective(Tail(t)) /\ p \in ToSet(t) /\ p \in Ports
      /\ ToSet(Tail(t)) = ToSet(t) \ {p}
  BY <1>3, TailKeeps, ToSetType
<1>5. At(p, Moving)
  BY <1>4 DEF At
<1>6. <<p>> \in Seq(Ports) /\ {} \in AllGroups
  BY <1>4, GroupTypes
<1>7. PICK s \in Seq(Ports) : IsInjective(s) /\ ToSet(s) = {p} /\ Listing(k, {}, s)
  BY <1>6, ShortLists DEF RemoveSGPort
<1>8. /\ Moving1
      /\ \A l \in Pools, h \in AllGroups : IsInjective(avail'[l][h])
  <2>1. \A q \in ToSet(sgJob'.ports) : q \in ToSet(sgJob.ports) /\ q # p
    BY <1>2, <1>4
  <2> HIDE DEF p
  <2> QED
    BY <1>1, <1>4, <1>5, <1>6, <1>7, <2>1, PlacesDiffer, PlacesArePlaces, ListingMoves
<1>9. ListsInjective' /\ Populating'
  BY <1>1, <1>2, <1>4, <1>8 DEF OnePlace, ListsInjective, Populating
<1>10. /\ NoneUnborn /\ Recycling'
       /\ phase \in {"starting", "reset"} => removed' = {}
  BY <1>1 DEF NoneUnborn, OnePlace, Recycling, Recovering
<1> QED
  BY <1>1, <1>8, <1>9, <1>10, MovingStep

(* A port of a full pool is deleted. *)
LEMMA DeletePortStep ==
    ASSUME TypeOK, OnePlace, PodsConsistent', NEW p \in Ports, DeletePort(p)
    PROVE  OnePlace'
<1>1. /\ UNCHANGED <<held, annotated, removed, created, wanted, avail, sgJob>>
      /\ UNCHANGED <<phase, inUse, found>>
      /\ recyclable' = recyclable \ {p}
  BY DEF DeletePort, k8sVars, syncVars, popVars, policyVars
<1>2. recycler'.todo = recycler.todo \ {p}
  BY DEF DeletePort, Processed, TypeOK, RecycleTypes
<1>3. NoneUnborn
  BY DEF DeletePort, NoneUnborn, TypeOK, NeutronTypes
<1>4. Moving1
  BY <1>1, LosingShrinks DEF Moving1
<1>5. /\ ListsInjective' /\ Populating' /\ Recycling'
      /\ phase \in {"starting", "reset"} => removed' = {}
  BY <1>1, <1>2 DEF OnePlace, ListsInjective, Populating, Recycling, Recovering
<1> QED
  BY <1>1, <1>3, <1>4, <1>5, MovingStep

(* A pool is emptied. *)
LEMMA NetClearPoolStep ==
    ASSUME TypeOK, OnePlace, PodsConsistent', NetClearPool
    PROVE  OnePlace'
<1>1. /\ UNCHANGED <<held, annotated, removed, created, wanted, recyclable, sgJob>>
      /\ UNCHANGED <<phase, inUse, found, life, recycler>>
  BY DEF NetClearPool, k8sVars, neutronVars, syncVars, popVars, recycleVars, policyVars
<1>2. \A l \in Pools, h \in AllGroups : avail'[l][h] \in {avail[l][h], <<>>}
  BY DEF NetClearPool, Without
<1>3. Moving1
  BY <1>1, <1>2, ShortLists, LosingShrinks DEF Moving1
<1>4. ListsInjective' /\ Populating'
  BY <1>1, <1>2, ShortLists DEF OnePlace, ListsInjective, Populating
<1>5. /\ NoneUnborn /\ Recycling'
      /\ phase \in {"starting", "reset"} => removed' = {}
  BY <1>1 DEF NoneUnborn, OnePlace, Recycling, Recovering
<1> QED
  BY <1>1, <1>3, <1>4, <1>5, MovingStep

(* Neutron creates ports: they are nowhere else. *)
LEMMA PortsCreatedStep ==
    ASSUME TypeOK, OnePlace, PodsConsistent', NEW j \in Jobs, PortsCreated(j)
    PROVE  OnePlace'
<1>1. /\ UNCHANGED <<held, annotated, removed, wanted, avail, recyclable, sgJob>>
      /\ UNCHANGED <<phase, inUse, found, recycler>>
  BY DEF PortsCreated, k8sVars, syncVars, poolVars, popVars, jobVars, recycleVars,
         policyVars
<1>2. wanted[j] \in Nat /\ wanted[j] > 0 /\ wanted[j] # 0
  BY DEF PortsCreated, TypeOK, PopulateTypes, Jobs
<1>3. PICK s \in Injection(1..wanted[j], FreshPorts(j[1])) :
         /\ created' = [created EXCEPT ![j] = s]
         /\ life' = [p \in Ports |-> IF p \in ToSet(s) THEN "live" ELSE life[p]]
  BY DEF PortsCreated
<1>4. IsInjective(s) /\ ToSet(s) \subseteq FreshPorts(j[1])
  BY <1>2, <1>3, BulkType
<1>5. \A i \in Jobs : created'[i] = IF i = j THEN s ELSE created[i]
  BY <1>3 DEF TypeOK, PopulateTypes, Jobs
<1>6. \A p \in ToSet(s) : p \in Ports /\ PlacesOf(p) = {}
  BY <1>4 DEF FreshPorts, OnePlace, PlacedAreBorn
<1>7. \A p \in Ports, x \in Places : At(p, x)' =>
         At(p, x) \/ (p \in ToSet(s) /\ x = JobPlace(j))
  BY <1>1, <1>5 DEF At
<1>8. OneOwner'
  BY <1>6, <1>7 DEF OnePlace, OneOwner, PlacesOf
<1>9. PlacedAreBorn'
  BY <1>3, <1>7 DEF OnePlace, PlacedAreBorn, PlacesOf
<1>10. ListsInjective' /\ Populating'
  BY <1>1, <1>2, <1>4, <1>5 DEF OnePlace, ListsInjective, Populating
<1>11. Recovering'
  BY <1>1, <1>2 DEF OnePlace, Populating, Recovering
<1>12. Recycling'
  BY <1>1 DEF OnePlace, Recycling
<1> QED
  BY <1>8, <1>9, <1>10, <1>11, <1>12 DEF OnePlace

(* The start-up recovery, up to the listing of the pods. *)
LEMMA SyncPodsStep ==
    ASSUME TypeOK, OnePlace, PodsConsistent', SyncReset \/ SyncListPods
    PROVE  OnePlace'
<1>1. /\ UNCHANGED <<held, annotated, removed, created, wanted, avail, recyclable>>
      /\ UNCHANGED <<sgJob, found, life, recycler>>
  BY DEF SyncReset, SyncListPods, k8sVars, neutronVars, poolVars, popVars, jobVars,
         recycleVars, policyVars
<1>2. Moving1 /\ NoneUnborn
  BY <1>1, SamePlaces DEF NoneUnborn
<1>3. \A p \in Ports : Known(p)' => Known(p)
  BY <1>1 DEF Known, PlacesOf, At
<1>4. OneOwner' /\ PlacedAreBorn'
  BY <1>2, MovingKeeps DEF OnePlace
<1>5. ListsInjective' /\ Recycling'
  BY <1>1 DEF OnePlace, ListsInjective, Recycling
<1>6. phase # "ready" /\ phase' # "ready" /\ Populating'
  BY <1>1 DEF SyncReset, SyncListPods, OnePlace, Populating
<1>7. Recovering'
  <2>1. CASE SyncReset
    BY <1>1, <1>3, <2>1 DEF SyncReset, OnePlace, Recovering
  <2>2. CASE SyncListPods
    BY <1>1, <1>3, <2>2 DEF SyncListPods, InUsePorts, OnePlace, Recovering
  <2> QED
    BY <2>1, <2>2
<1> QED
  BY <1>4, <1>5, <1>6, <1>7 DEF OnePlace

(* The ports that the recovery finds are known nowhere. *)
LEMMA SyncListPortsStep ==
    ASSUME TypeOK, OnePlace, PodsConsistent', SyncListPorts
    PROVE  OnePlace'
<1>1. /\ UNCHANGED <<held, annotated, removed, created, wanted, avail, recyclable>>
      /\ UNCHANGED <<sgJob, life, recycler>>
  BY DEF SyncListPorts, k8sVars, neutronVars, poolVars, popVars, jobVars,
         recycleVars, policyVars
<1>2. \A p \in Ports : found'[p] # NoGroup => life[p] = "live" /\ p \notin inUse
  BY DEF SyncListPorts
<1>3. \A p \in Ports : found'[p] # NoGroup => PlacesOf(p) \subseteq {ToRecover}
  BY <1>2 DEF SyncListPorts, OnePlace, Recovering, Known
<1>4. \A p \in Ports, x \in Places : At(p, x)' =>
         At(p, x) \/ (x = ToRecover /\ found'[p] # NoGroup)
  BY <1>1 DEF At
<1>5. OneOwner' /\ PlacedAreBorn'
  BY <1>1, <1>2, <1>3, <1>4 DEF OnePlace, OneOwner, PlacedAreBorn, PlacesOf
<1>6. ListsInjective' /\ Recycling' /\ Populating'
  BY <1>1 DEF SyncListPorts, OnePlace, ListsInjective, Recycling, Populating
<1>7. Recovering'
  BY DEF SyncListPorts, Recovering
<1> QED
  BY <1>5, <1>6, <1>7 DEF OnePlace

(* The recovery is over. *)
LEMMA SyncDoneStep ==
    ASSUME TypeOK, OnePlace, PodsConsistent', SyncDone
    PROVE  OnePlace'
<1>1. /\ UNCHANGED <<held, annotated, removed, created, wanted, avail, recyclable>>
      /\ UNCHANGED <<sgJob, found, life, recycler>>
  BY DEF SyncDone, k8sVars, neutronVars, poolVars, popVars, jobVars, recycleVars,
         policyVars
<1>2. Moving1 /\ NoneUnborn
  BY <1>1, SamePlaces DEF NoneUnborn
<1>3. OneOwner' /\ PlacedAreBorn'
  BY <1>2, MovingKeeps DEF OnePlace
<1>4. ListsInjective' /\ Recycling' /\ Populating' /\ Recovering'
  BY <1>1 DEF SyncDone, OnePlace, ListsInjective, Recycling, Populating, Recovering
<1> QED
  BY <1>3, <1>4 DEF OnePlace

(* After a restart only the annotated pods have ports. *)
LEMMA RestartStep ==
    ASSUME TypeOK, OnePlace, PodsConsistent', Restart
    PROVE  OnePlace'
<1>1. /\ \A l \in Pools, h \in AllGroups : avail'[l][h] = <<>>
      /\ \A i \in Jobs : created'[i] = <<>> /\ wanted'[i] = 0
      /\ recyclable' = {} /\ sgJob'.ports = <<>> /\ recycler'.todo = {}
      /\ \A p \in Ports : found'[p] = NoGroup
      /\ removed' = {} /\ life' = life /\ phase' = "starting"
  BY DEF Restart, Without, NoSGJob, Unlocked, neutronVars, Jobs
<1>2. \A c \in Pods : held'[c] \in Ports => held'[c] = held[c] /\ c \in annotated'
  BY ConstantsAssumption DEF Restart
<1>3. \A p \in Ports, x \in Places :
         At(p, x)' => \E c \in annotated' : held'[c] = p /\ held[c] = p /\ x = PodPlace(c)
  BY <1>1, <1>2, ShortLists DEF At
<1>4. \A p \in Ports : Shrinks(p)
  <2>1. annotated' \subseteq Pods
    BY DEF Restart, TypeOK, PodTypes
  <2> QED
    BY <1>3, <2>1 DEF Shrinks, At
<1>5. OneOwner' /\ PlacedAreBorn'
  BY <1>1, <1>4, MovingKeeps DEF OnePlace, Moving1, NoneUnborn
<1>6. ListsInjective' /\ Populating' /\ Recycling'
  BY <1>1, ShortLists DEF ListsInjective, Populating, Recycling
<1>7. Recovering'
  BY <1>1, <1>3 DEF Recovering, Known, PlacesOf
<1> QED
  BY <1>5, <1>6, <1>7 DEF OnePlace


(* A step keeps every port in one place. *)
LEMMA PlacesStep ==
    ASSUME TypeOK, OnePlace, "event_during_sync" \notin Races, Next
    PROVE  OnePlace'
<1>1. PodsConsistent'
  BY PodsStep DEF OnePlace
<1>2. ASSUME NEW c \in Pods, CreatePod(c) \/ RemovePod(c) \/ PodStep(c)
      PROVE  OnePlace'
  BY <1>1, <1>2, QuietSteps, DroppingStep, ReleasingStep, RequestingStep
     DEF PodStep, QuietStep
<1>3. ASSUME NEW j \in Jobs, PopulateStep(j) PROVE OnePlace'
  BY <1>1, <1>3, QuietSteps, PortsCreatedStep, PopulateFinishStep,
     PopulateFailsStep
     DEF PopulateStep, QuietStep
<1>4. ASSUME RecycleStep PROVE OnePlace'
  BY <1>1, <1>4, QuietSteps, RecyclePortStep, DeletePortStep DEF RecycleStep, QuietStep
<1>5. ASSUME NetDeleteStep \/ \E n \in Nets : NetDeleteStart(n) PROVE OnePlace'
  BY <1>1, <1>5, QuietSteps, NetClearPoolStep DEF NetDeleteStep, QuietStep
<1>6. ASSUME RemoveSGStep \/ \E sg \in SGs, n \in Nets : RemoveSGStart(sg, n)
      PROVE  OnePlace'
  BY <1>1, <1>6, QuietSteps, RemoveSGGroupStep, RemoveSGPortStep
     DEF RemoveSGStep, QuietStep
<1>7. ASSUME \/ \E k \in Pools : Tick(k)
             \/ \E c \in Pods, g \in Groups : PolicyUpdate(c, g)
             \/ PolicyUpdateEnd
      PROVE  OnePlace'
  BY <1>1, <1>7, QuietSteps DEF QuietStep
<1>8. ASSUME SyncStep PROVE OnePlace'
  BY <1>1, <1>8, SyncPodsStep, SyncListPortsStep, RecoverPortStep, SyncDoneStep
     DEF SyncStep
<1>9. ASSUME Restart PROVE OnePlace'
  BY <1>1, <1>9, RestartStep
<1> QED
  BY <1>2, <1>3, <1>4, <1>5, <1>6, <1>7, <1>8, <1>9 DEF Next, Jobs

(* At first no port is anywhere. *)
LEMMA InitPlaces ==
    ASSUME Init
    PROVE  OnePlace
<1>1. \A p \in Ports, x \in Places : ~At(p, x)
  BY ShortLists, ConstantsAssumption DEF Init, At, NoSGJob, Jobs
<1>2. PodsConsistent
  BY InitTypes
<1>3. OneOwner /\ PlacedAreBorn
  BY <1>1 DEF OneOwner, PlacedAreBorn, PlacesOf
<1>4. ListsInjective /\ Populating
  BY ShortLists DEF Init, ListsInjective, Populating, NoSGJob, Jobs
<1>5. Recovering /\ Recycling
  BY <1>1 DEF Init, Recovering, Recycling, Known, PlacesOf, Unlocked
<1> QED
  BY <1>2, <1>3, <1>4, <1>5 DEF OnePlace

-----------------------------------------------------------------------------
(* Every port the controller knows is in one place, for any number of pods,  *)
(* ports, pools and groups, whatever calls fail, whenever it restarts and    *)
(* whichever threads interleave, unless a pod leaves the API while the       *)
(* start-up recovery is about to list the pods.                              *)
THEOREM Placed ==
    ASSUME "event_during_sync" \notin Races
    PROVE  Spec => []OnePlace
<1> DEFINE Inv == TypeOK /\ OnePlace
<1>1. Init => Inv
  BY InitTypes, InitPlaces
<1>2. Inv /\ [Next]_vars => Inv'
  <2>1. CASE Next
    BY <2>1, TypeStep, PlacesStep DEF OnePlace
  <2>2. CASE UNCHANGED vars
    <3>1. Inv => TypeOK'
      BY <2>2, SameTypes DEF vars, coreVars, jobVars, TypeOK
    <3>2. Inv => OnePlace'
      <4> USE DEF vars, coreVars, jobVars, k8sVars, neutronVars, syncVars, poolVars,
                  popVars, recycleVars, policyVars
      <4>1. PodsConsistent => PodsConsistent'
        BY <2>2 DEF PodsConsistent
      <4>2. OnePlace => NoneUnborn /\ Populating' /\ Recycling'
        BY <2>2 DEF NoneUnborn, OnePlace, Populating, Recycling
      <4>3. /\ UNCHANGED <<avail, created, held, recyclable, found, phase, inUse>>
            /\ UNCHANGED <<removed, annotated, sgJob>>
        BY <2>2
      <4>4. OnePlace /\ phase \in {"starting", "reset"} => removed = {}
        BY DEF OnePlace, Recovering
      <4> QED
        BY <4>1, <4>2, <4>3, <4>4, SameStep DEF OnePlace
    <3> QED
      BY <3>1, <3>2
  <2> QED
    BY <2>1, <2>2
<1>3. Inv => OnePlace
  OBVIOUS
<1> QED
  BY <1>1, <1>2, <1>3, PTL DEF Spec

(* No two pods are ever given the same port. *)
THEOREM NotShared ==
    ASSUME "event_during_sync" \notin Races
    PROVE  Spec => []NoPortShared
<1>1. TypeOK /\ OnePlace => NoPortShared
  <2> SUFFICES ASSUME TypeOK, OnePlace, NEW c \in Pods, NEW d \in Pods, c # d,
                      held[c] # NoPort
               PROVE  held[c] # held[d]
    BY DEF NoPortShared
  <2>1. held[c] \in Ports /\ At(held[c], PodPlace(c))
    BY DEF TypeOK, PodTypes, At
  <2>2. held[c] = held[d] => At(held[c], PodPlace(d))
    BY DEF At
  <2> QED
    BY <2>1, <2>2, PlacesArePlaces, PlacesDiffer DEF OnePlace, OneOwner, PlacesOf
<1> QED
  BY <1>1, Types, Placed, PTL

(* The port of a pod is in no list that gives out or recycles ports. *)
THEOREM UsedNotFree ==
    ASSUME "event_during_sync" \notin Races
    PROVE  Spec => []UsedPortNotFree
<1>1. TypeOK /\ OnePlace => UsedPortNotFree
  <2> SUFFICES ASSUME TypeOK, OnePlace, NEW c \in Pods,
                      held[c] \in Available \cup recyclable
               PROVE  FALSE
    BY DEF UsedPortNotFree
  <2>1. held[c] \in Ports
    <3>1. Available \subseteq Ports
      BY PoolPortsType DEF Available, TypeOK, PoolTypes
    <3> QED
      BY <3>1 DEF TypeOK, PoolTypes
  <2>2. At(held[c], PodPlace(c))
    BY DEF At
  <2>3. \E y \in Places : y # PodPlace(c) /\ At(held[c], y)
    <3>1. CASE held[c] \in recyclable
      BY <3>1, PlacesArePlaces, PlacesDiffer DEF At
    <3>2. CASE held[c] \in Available
      <4>1. PICK k \in Pools, g \in AllGroups : held[c] \in ToSet(avail[k][g])
        BY <3>2 DEF Available, PoolPorts
      <4>2. At(held[c], ListPlace(k, g))
        BY <4>1 DEF At
      <4> QED
        BY <4>2, PlacesArePlaces, PlacesDiffer
    <3> QED
      BY <3>1, <3>2
  <2> QED
    BY <2>1, <2>2, <2>3, PlacesArePlaces DEF OnePlace, OneOwner, PlacesOf
<1> QED
  BY <1>1, Types, Placed, PTL
-----------------------------------------------------------------------------
(* The pool deletes no port that a pod has or may be given, and implements *)
(* PortLease; a pod is given a port with the security groups it asks for;  *)
(* and the controller loses no port.                                       *)

-----------------------------------------------------------------------------
(* What the steps concern. *)

(* Which steps concern the deletion of networks. *)
LEMMA NetFrame ==
    ASSUME Next
    PROVE  \/ NetDeleteStep \/ \E n \in Nets : NetDeleteStart(n)
           \/ \E by \in {"timer", "net"} : RecycleFails(by)
           \/ \E p \in Ports : DeletePortFails(p)
           \/ RecycleEnd \/ Restart \/ UNCHANGED netVars
<1>1. ASSUME NEW c \in Pods, CreatePod(c) \/ RemovePod(c) \/ PodStep(c)
      PROVE  UNCHANGED netVars
  BY <1>1 DEF CreatePod, RemovePod, PodStep, HandleDeleted, NextTry, RequestExact,
              RequestRefused, RequestOther, PortUpdated, PortUpdateFails, Annotate,
              AnnotateFails, jobVars
<1>2. ASSUME NEW j \in Jobs, PopulateStep(j) PROVE UNCHANGED netVars
  BY <1>2 DEF PopulateStep, PopulateStart, PortsCreated, PortsRefused, PopulateFinish,
              PopulateFails, jobVars
<1>3. ASSUME \/ \E by \in {"timer", "net"} : RecycleBegin(by)
             \/ \E p \in Ports : RecyclePort(p) \/ DeletePort(p)
      PROVE  UNCHANGED netVars
  BY <1>3 DEF RecycleBegin, RecyclePort, DeletePort
<1>4. ASSUME RemoveSGStep \/ \E sg \in SGs, n \in Nets : RemoveSGStart(sg, n)
      PROVE  UNCHANGED netVars
  BY <1>4 DEF RemoveSGStep, RemoveSGStart, RemoveSGPool, RemoveSGGroup,
              RemoveSGPort, RemoveSGPortFails, RemoveSGGroupDone,
              RemoveSGPoolDone, RemoveSGEnd
<1>5. ASSUME SyncStep PROVE UNCHANGED netVars
  BY <1>5 DEF SyncStep, SyncReset, SyncListPods, SyncListPorts, RecoverPort, SyncDone,
              jobVars
<1>6. ASSUME \/ \E k \in Pools : Tick(k)
             \/ \E c \in Pods, g \in Groups : PolicyUpdate(c, g)
             \/ PolicyUpdateEnd
      PROVE  UNCHANGED netVars
  BY <1>6 DEF Tick, PolicyUpdate, PolicyUpdateEnd, jobVars
<1> QED
  BY <1>1, <1>2, <1>3, <1>4, <1>5, <1>6 DEF Next, Jobs, RecycleStep

(* Which steps concern the recycling. *)
LEMMA RecyclerFrame ==
    ASSUME Next
    PROVE  RecycleStep \/ Restart \/ UNCHANGED recycler
<1>1. ASSUME NEW c \in Pods, CreatePod(c) \/ RemovePod(c) \/ PodStep(c)
      PROVE  UNCHANGED recycler
  BY <1>1 DEF CreatePod, RemovePod, PodStep, HandleDeleted, NextTry, RequestExact,
              RequestRefused, RequestOther, PortUpdated, PortUpdateFails, Annotate,
              AnnotateFails, jobVars, recycleVars
<1>2. ASSUME NEW j \in Jobs, PopulateStep(j) PROVE UNCHANGED recycler
  BY <1>2 DEF PopulateStep, PopulateStart, PortsCreated, PortsRefused, PopulateFinish,
              PopulateFails, jobVars, recycleVars
<1>3. ASSUME NetDeleteStep \/ \E n \in Nets : NetDeleteStart(n)
      PROVE  UNCHANGED recycler
  BY <1>3 DEF NetDeleteStep, NetDeleteStart, NetDeletePools, NetDeletePool,
              NetDeletePort, NetDeletePortFails, NetClearPool, NetDeleteEnd, recycleVars
<1>4. ASSUME RemoveSGStep \/ \E sg \in SGs, n \in Nets : RemoveSGStart(sg, n)
      PROVE  UNCHANGED recycler
  BY <1>4 DEF RemoveSGStep, RemoveSGStart, RemoveSGPool, RemoveSGGroup,
              RemoveSGPort, RemoveSGPortFails, RemoveSGGroupDone,
              RemoveSGPoolDone, RemoveSGEnd, recycleVars
<1>5. ASSUME SyncStep PROVE UNCHANGED recycler
  BY <1>5 DEF SyncStep, SyncReset, SyncListPods, SyncListPorts, RecoverPort, SyncDone,
              jobVars, recycleVars
<1>6. ASSUME \/ \E k \in Pools : Tick(k)
             \/ \E c \in Pods, g \in Groups : PolicyUpdate(c, g)
             \/ PolicyUpdateEnd
      PROVE  UNCHANGED recycler
  BY <1>6 DEF Tick, PolicyUpdate, PolicyUpdateEnd, jobVars, recycleVars
<1> QED
  BY <1>1, <1>2, <1>3, <1>4, <1>5, <1>6 DEF Next, Jobs

(* Which steps concern the removal of security groups. *)
LEMMA SGFrame ==
    ASSUME Next
    PROVE  \/ RemoveSGStep \/ \E sg \in SGs, n \in Nets : RemoveSGStart(sg, n)
           \/ Restart \/ UNCHANGED sgJob
<1>1. ASSUME NEW c \in Pods, CreatePod(c) \/ RemovePod(c) \/ PodStep(c)
      PROVE  UNCHANGED sgJob
  BY <1>1 DEF CreatePod, RemovePod, PodStep, HandleDeleted, NextTry, RequestExact,
              RequestRefused, RequestOther, PortUpdated, PortUpdateFails, Annotate,
              AnnotateFails, jobVars, policyVars
<1>2. ASSUME NEW j \in Jobs, PopulateStep(j) PROVE UNCHANGED sgJob
  BY <1>2 DEF PopulateStep, PopulateStart, PortsCreated, PortsRefused, PopulateFinish,
              PopulateFails, jobVars, policyVars
<1>3. ASSUME RecycleStep PROVE UNCHANGED sgJob
  BY <1>3 DEF RecycleStep, RecycleBegin, RecycleFails, RecyclePort, DeletePort,
              DeletePortFails, RecycleEnd, policyVars
<1>4. ASSUME NetDeleteStep \/ \E n \in Nets : NetDeleteStart(n)
      PROVE  UNCHANGED sgJob
  BY <1>4 DEF NetDeleteStep, NetDeleteStart, NetDeletePools, NetDeletePool,
              NetDeletePort, NetDeletePortFails, NetClearPool, NetDeleteEnd, policyVars
<1>5. ASSUME SyncStep PROVE UNCHANGED sgJob
  BY <1>5 DEF SyncStep, SyncReset, SyncListPods, SyncListPorts, RecoverPort, SyncDone,
              jobVars, policyVars
<1>6. ASSUME \/ \E k \in Pools : Tick(k)
             \/ \E c \in Pods, g \in Groups : PolicyUpdate(c, g)
             \/ PolicyUpdateEnd
      PROVE  UNCHANGED sgJob
  BY <1>6 DEF Tick, PolicyUpdate, PolicyUpdateEnd, jobVars, policyVars
<1> QED
  BY <1>1, <1>2, <1>3, <1>4, <1>5, <1>6 DEF Next, Jobs

(* Which steps concern the phase of the start-up. *)
LEMMA PhaseFrame ==
    ASSUME Next
    PROVE  SyncStep \/ Restart \/ UNCHANGED <<phase, inUse>>
<1>1. ASSUME NEW c \in Pods, CreatePod(c) \/ RemovePod(c) \/ PodStep(c)
      PROVE  UNCHANGED <<phase, inUse>>
  BY <1>1 DEF CreatePod, RemovePod, PodStep, HandleDeleted, NextTry, RequestExact,
              RequestRefused, RequestOther, PortUpdated, PortUpdateFails, Annotate,
              AnnotateFails, syncVars
<1>2. ASSUME NEW j \in Jobs, PopulateStep(j) PROVE UNCHANGED <<phase, inUse>>
  BY <1>2 DEF PopulateStep, PopulateStart, PortsCreated, PortsRefused, PopulateFinish,
              PopulateFails, syncVars
<1>3. ASSUME RecycleStep PROVE UNCHANGED <<phase, inUse>>
  BY <1>3 DEF RecycleStep, RecycleBegin, RecycleFails, RecyclePort, DeletePort,
              DeletePortFails, RecycleEnd, coreVars, syncVars
<1>4. ASSUME NetDeleteStep \/ \E n \in Nets : NetDeleteStart(n)
      PROVE  UNCHANGED <<phase, inUse>>
  BY <1>4 DEF NetDeleteStep, NetDeleteStart, NetDeletePools, NetDeletePool,
              NetDeletePort, NetDeletePortFails, NetClearPool, NetDeleteEnd, coreVars,
              syncVars
<1>5. ASSUME RemoveSGStep \/ \E sg \in SGs, n \in Nets : RemoveSGStart(sg, n)
      PROVE  UNCHANGED <<phase, inUse>>
  BY <1>5 DEF RemoveSGStep, RemoveSGStart, RemoveSGPool, RemoveSGGroup,
              RemoveSGPort, RemoveSGPortFails, RemoveSGGroupDone,
              RemoveSGPoolDone, RemoveSGEnd, coreVars, syncVars
<1>6. ASSUME \/ \E k \in Pools : Tick(k)
             \/ \E c \in Pods, g \in Groups : PolicyUpdate(c, g)
             \/ PolicyUpdateEnd
      PROVE  UNCHANGED <<phase, inUse>>
  BY <1>6 DEF Tick, PolicyUpdate, PolicyUpdateEnd, coreVars, syncVars
<1> QED
  BY <1>1, <1>2, <1>3, <1>4, <1>5, <1>6 DEF Next, Jobs

(* Which steps concern the lives of ports. *)
LEMMA LifeFrame ==
    ASSUME Next
    PROVE  \/ \E j \in Jobs : PortsCreated(j)
           \/ \E p \in Ports : DeletePort(p) \/ NetDeletePort(p)
           \/ UNCHANGED life
<1>1. ASSUME NEW c \in Pods, CreatePod(c) \/ RemovePod(c) \/ PodStep(c)
      PROVE  UNCHANGED life
  BY <1>1 DEF CreatePod, RemovePod, PodStep, HandleDeleted, NextTry, RequestExact,
              RequestRefused, RequestOther, PortUpdated, PortUpdateFails, Annotate,
              AnnotateFails, neutronVars
<1>2. ASSUME NEW j \in Jobs, PopulateStep(j), ~PortsCreated(j) PROVE UNCHANGED life
  BY <1>2 DEF PopulateStep, PopulateStart, PortsRefused, PopulateFinish,
              PopulateFails, neutronVars
<1>3. ASSUME RecycleStep, ~\E p \in Ports : DeletePort(p) PROVE UNCHANGED life
  BY <1>3 DEF RecycleStep, RecycleBegin, RecycleFails, RecyclePort,
              DeletePortFails, RecycleEnd, coreVars, neutronVars
<1>4. ASSUME NetDeleteStep \/ \E n \in Nets : NetDeleteStart(n),
             ~\E p \in Ports : NetDeletePort(p)
      PROVE  UNCHANGED life
  BY <1>4 DEF NetDeleteStep, NetDeleteStart, NetDeletePools, NetDeletePool,
              NetDeletePortFails, NetClearPool, NetDeleteEnd, coreVars, neutronVars
<1>5. ASSUME RemoveSGStep \/ \E sg \in SGs, n \in Nets : RemoveSGStart(sg, n)
      PROVE  UNCHANGED life
  BY <1>5 DEF RemoveSGStep, RemoveSGStart, RemoveSGPool, RemoveSGGroup,
              RemoveSGPort, RemoveSGPortFails, RemoveSGGroupDone,
              RemoveSGPoolDone, RemoveSGEnd, coreVars, neutronVars
<1>6. ASSUME \/ \E k \in Pools : Tick(k)
             \/ \E c \in Pods, g \in Groups : PolicyUpdate(c, g)
             \/ PolicyUpdateEnd \/ SyncStep \/ Restart
      PROVE  UNCHANGED life
  BY <1>6 DEF Tick, PolicyUpdate, PolicyUpdateEnd, SyncStep, SyncReset, SyncListPods,
              SyncListPorts, RecoverPort, SyncDone, Restart, coreVars, neutronVars
<1> QED
  BY <1>1, <1>2, <1>3, <1>4, <1>5, <1>6 DEF Next, Jobs

-----------------------------------------------------------------------------
(* The jobs that delete ports and move them *)

(* The pods of a deleted network stay quiet. *)
LEMMA NetsQuietStep ==
    ASSUME TypeOK, PodsConsistent, NetsQuiet, Next,
           "request_during_net_delete" \notin Races
    PROVE  NetsQuiet'
<1> USE DEF NetsQuiet, Deserted
<1>1. ASSUME UNCHANGED pc, deadNets' = deadNets PROVE NetsQuiet'
  BY <1>1
<1>2. ASSUME NEW c \in Pods, CreatePod(c) \/ RemovePod(c) PROVE NetsQuiet'
  BY <1>2 DEF CreatePod, RemovePod, jobVars, netVars, TypeOK, PodTypes
<1>3. ASSUME NEW c \in Pods, PodStep(c) PROVE NetsQuiet'
  <2>1. /\ deadNets' = deadNets
        /\ \A d \in Pods : d # c => pc'[d] = pc[d]
        /\ pc[c] \notin {"absent", "gone"}
    BY <1>3 DEF PodStep, HandleDeleted, NextTry, RequestExact, RequestRefused,
                RequestOther, PortUpdated, PortUpdateFails, Annotate, AnnotateFails,
                HandOut, jobVars, netVars, TypeOK, PodTypes
  <2>2. pc[c] = "running" => pc'[c] = "gone"
    BY <1>3 DEF PodStep, HandleDeleted, NextTry, RequestExact, RequestRefused,
                RequestOther, PortUpdated, PortUpdateFails, Annotate, AnnotateFails,
                TypeOK, PodTypes
  <2> QED
    BY <2>1, <2>2
<1>4. ASSUME NEW n \in Nets, NetDeleteStart(n) PROVE NetsQuiet'
  BY <1>4 DEF NetDeleteStart, Requesting, coreVars, k8sVars, TypeOK, PodTypes
<1>5. ASSUME Restart PROVE NetsQuiet'
  BY <1>5 DEF Restart, PodsConsistent
<1>6. ASSUME UNCHANGED k8sVars, ~\E n \in Nets : NetDeleteStart(n), ~Restart
      PROVE  NetsQuiet'
  <2>1. deadNets' = deadNets
    BY <1>6, NetFrame
       DEF NetDeleteStep, NetDeletePools, NetDeletePool, NetDeletePort, NetDeletePortFails,
           NetClearPool, NetDeleteEnd, RecycleFails, DeletePortFails, RecycleEnd, netVars
  <2> QED
    BY <1>1, <1>6, <2>1 DEF k8sVars
<1> QED
  BY <1>2, <1>3, <1>4, <1>5, <1>6, PodsFrame

(* No port is unborn again. *)
LEMMA StaysBorn ==
    ASSUME TypeOK, Next
    PROVE  NoneUnborn
<1>1. ASSUME NEW j \in Jobs, PortsCreated(j) PROVE NoneUnborn
  BY <1>1 DEF PortsCreated, NoneUnborn
<1>2. ASSUME NEW p \in Ports, DeletePort(p) \/ NetDeletePort(p) PROVE NoneUnborn
  BY <1>2 DEF DeletePort, NetDeletePort, NoneUnborn, TypeOK, NeutronTypes
<1> QED
  BY <1>1, <1>2, LifeFrame DEF NoneUnborn

(* What is listed in a pool has been created. *)
LEMMA ListedIsBorn ==
    ASSUME TypeOK, OnePlace, NEW k \in Pools, NEW p \in PoolPorts(avail[k])
    PROVE  p \in Ports /\ life[p] # "unborn"
           /\ \E g \in AllGroups : p \in ToSet(avail[k][g]) /\ At(p, ListPlace(k, g))
<1>1. PICK g \in AllGroups : p \in ToSet(avail[k][g])
  BY DEF PoolPorts
<1>2. p \in Ports
  BY <1>1, ToSetType DEF TypeOK, PoolTypes
<1>3. At(p, ListPlace(k, g))
  BY <1>1 DEF At
<1> QED
  BY <1>1, <1>2, <1>3, PlacesArePlaces DEF OnePlace, PlacedAreBorn, PlacesOf

(* delete_network_pools waits while it recycles. *)
LEMMA TriggeredStep ==
    ASSUME TypeOK, Triggered, Next
    PROVE  Triggered'
<1> USE DEF Triggered
<1>1. ASSUME recycler'.pc # "loop" PROVE Triggered'
  BY <1>1
<1>2. ASSUME NEW by \in {"timer", "net"}, RecycleBegin(by) PROVE Triggered'
  <2>1. recycler'.by = by /\ netJob' = netJob
    BY <1>2 DEF RecycleBegin, netVars
  <2> QED
    BY <1>2, <2>1 DEF RecycleBegin, MayRecycle
<1>3. ASSUME NEW by \in {"timer", "net"}, RecycleFails(by) PROVE Triggered'
  BY <1>3 DEF RecycleFails
<1>4. ASSUME NEW p \in Ports, RecyclePort(p) \/ DeletePort(p) PROVE Triggered'
  BY <1>4 DEF RecyclePort, DeletePort, Processed, netVars, TypeOK, RecycleTypes
<1>5. ASSUME (\E p \in Ports : DeletePortFails(p)) \/ RecycleEnd \/ Restart
      PROVE  Triggered'
  BY <1>1, <1>5 DEF DeletePortFails, RecycleEnd, Restart, Unlocked
<1>6. ASSUME NetDeleteStep \/ \E n \in Nets : NetDeleteStart(n) PROVE Triggered'
  BY <1>6 DEF NetDeleteStep, NetDeleteStart, NetDeletePools, NetDeletePool,
              NetDeletePort, NetDeletePortFails, NetClearPool, NetDeleteEnd, recycleVars,
              TypeOK, NetTypes
<1>7. ASSUME UNCHANGED netVars, ~RecycleStep, ~Restart PROVE Triggered'
  <2>1. UNCHANGED recycler
    BY <1>7, RecyclerFrame
       DEF NetDeleteStep, NetDeleteStart, NetDeletePools, NetDeletePool, NetDeletePort,
           NetDeletePortFails, NetClearPool, NetDeleteEnd, recycleVars
  <2> QED
    BY <1>7, <2>1 DEF netVars
<1> QED
  BY <1>2, <1>3, <1>4, <1>5, <1>6, <1>7, NetFrame DEF RecycleStep

(* delete_network_pools keeps to the pools of deleted networks. *)
LEMMA DesertingStep ==
    ASSUME TypeOK, OnePlace, Deserting, Triggered, Next
    PROVE  Deserting'
<1> USE DEF Deserting, Deserted
<1>1. NoneUnborn
  BY StaysBorn
<1>2. netJob.ports \subseteq Ports
  BY DEF TypeOK, NetTypes
<1>3. ASSUME NEW n \in Nets, NetDeleteStart(n) PROVE Deserting'
  BY <1>3 DEF NetDeleteStart, NoNetJob, coreVars, syncVars
<1>4. ASSUME NetDeletePools PROVE Deserting'
  <2>1. PICK n \in netJob.net : \E K \in KeysOfNet(n) :
           netJob' = [netJob EXCEPT !.pc = "pools", !.pools = K]
    BY <1>4 DEF NetDeletePools
  <2>2. PICK K \in KeysOfNet(n) : netJob' = [netJob EXCEPT !.pc = "pools", !.pools = K]
    BY <2>1
  <2>3. netJob'.ports = netJob.ports /\ netJob'.net = netJob.net
        /\ netJob'.pools = K /\ netJob'.pc = "pools"
    BY <2>2 DEF TypeOK, NetTypes
  <2>4. \A k \in K : NetOf[k] = n
    BY DEF KeysOfNet, PoolsOfNet
  <2>5. netJob.pc # "idle" /\ deadNets' = deadNets /\ phase' = phase
    BY <1>4 DEF NetDeletePools, coreVars, syncVars
  <2> QED
    BY <1>1, <1>2, <2>1, <2>3, <2>4, <2>5 DEF NoneUnborn
<1>5. ASSUME NEW k \in Pools, NetDeletePool(k) PROVE Deserting'
  <2>1. /\ netJob'.ports = PoolPorts(avail[k]) /\ netJob'.net = netJob.net
        /\ netJob'.pools \subseteq netJob.pools /\ netJob'.pc = "ports"
    BY <1>5 DEF NetDeletePool, TypeOK, NetTypes
  <2>2. netJob.pc # "idle" /\ UNCHANGED <<deadNets, phase, life>>
    BY <1>5 DEF NetDeletePool, coreVars, syncVars, neutronVars
  <2> QED
    BY <2>1, <2>2, ListedIsBorn
<1>6. ASSUME NEW p \in Ports, NetDeletePort(p) PROVE Deserting'
  <2>1. /\ netJob'.ports \subseteq netJob.ports /\ netJob'.net = netJob.net
        /\ netJob'.pools = netJob.pools /\ netJob'.pc = netJob.pc /\ netJob.pc = "ports"
    BY <1>6 DEF NetDeletePort, TypeOK, NetTypes
  <2>2. UNCHANGED <<deadNets, phase>>
    BY <1>6 DEF NetDeletePort, syncVars
  <2> QED
    BY <1>1, <1>2, <2>1, <2>2 DEF NoneUnborn
<1>7. ASSUME NetClearPool PROVE Deserting'
  <2>1. /\ netJob'.ports = netJob.ports /\ netJob'.net = netJob.net
        /\ netJob'.pools = netJob.pools /\ netJob'.pc = "pools" /\ netJob.pc = "ports"
    BY <1>7 DEF NetClearPool, TypeOK, NetTypes
  <2>2. UNCHANGED <<deadNets, phase>>
    BY <1>7 DEF NetClearPool, syncVars
  <2> QED
    BY <1>1, <1>2, <2>1, <2>2 DEF NoneUnborn
<1>8. ASSUME RecycleEnd PROVE Deserting'
  <2>1. UNCHANGED <<deadNets, phase, life>>
    BY <1>8 DEF RecycleEnd, coreVars, syncVars, neutronVars
  <2>2. CASE netJob' = netJob
    BY <2>1, <2>2
  <2>3. CASE netJob' = [netJob EXCEPT !.pc = "returned"] /\ netJob.pc # "idle"
    <3>1. /\ netJob'.ports = netJob.ports /\ netJob'.net = netJob.net
          /\ netJob'.pools = netJob.pools /\ netJob'.pc = "returned"
      BY <2>3 DEF TypeOK, NetTypes
    <3> QED
      BY <2>1, <2>3, <3>1
  <2> QED
    BY <1>8, <2>2, <2>3 DEF RecycleEnd, Triggered
<1>9. ASSUME netJob' = NoNetJob, deadNets' = deadNets PROVE Deserting'
  BY <1>9 DEF NoNetJob
<1>10. ASSUME UNCHANGED netVars, SyncStep \/ UNCHANGED phase PROVE Deserting'
  <2>1. netJob.pc # "idle" => phase' = phase
    <3>1. SyncStep => phase \in {"starting", "reset", "listed"} \/ SyncDone \/ phase' = phase
      BY DEF SyncStep, SyncReset, SyncListPods, SyncListPorts, RecoverPort
    <3> QED
      BY <1>10, <3>1 DEF SyncDone
  <2>2. \A p \in netJob.ports : life'[p] # "unborn"
    BY <1>1, <1>2 DEF NoneUnborn
  <2>3. netJob' = netJob /\ deadNets' = deadNets
    BY <1>10 DEF netVars
  <2> QED
    BY <2>1, <2>2, <2>3
<1>11. UNCHANGED netVars => SyncStep \/ UNCHANGED phase \/ Restart
  BY PhaseFrame
<1>12. ASSUME NetDeleteEnd \/ \E p \in Ports : NetDeletePortFails(p) PROVE Deserting'
  BY <1>9, <1>12 DEF NetDeleteEnd, NetDeletePortFails
<1>13. ASSUME Restart PROVE Deserting'
  BY <1>9, <1>13 DEF Restart
<1>14. ASSUME \/ \E by \in {"timer", "net"} : RecycleFails(by)
              \/ \E p \in Ports : DeletePortFails(p)
       PROVE  Deserting'
  <2>1. UNCHANGED <<deadNets, phase, life>>
    BY <1>14 DEF RecycleFails, DeletePortFails, coreVars, syncVars, neutronVars
  <2>2. netJob' \in {netJob, NoNetJob}
    BY <1>14 DEF RecycleFails, DeletePortFails, CallerFails
  <2> QED
    BY <1>9, <2>1, <2>2
<1> QED
  BY <1>3, <1>4, <1>5, <1>6, <1>7, <1>8, <1>10, <1>11, <1>12, <1>13, <1>14, NetFrame
     DEF NetDeleteStep

(* remove_sg_from_pools keeps to one pool at a time. *)
LEMMA OnePoolStep ==
    ASSUME TypeOK, OnePool, Next
    PROVE  OnePool'
<1> USE DEF OnePool
<1>1. ASSUME sgJob' \in {sgJob, NoSGJob} PROVE OnePool'
  BY <1>1 DEF NoSGJob
<1>2. ASSUME \E sg \in SGs, n \in Nets : RemoveSGStart(sg, n) PROVE OnePool'
  <2>1. sgJob'.cur = {} /\ sgJob'.ports = <<>>
    BY <1>2 DEF RemoveSGStart, NoSGJob
  <2> QED
    BY <2>1
<1>3. ASSUME NEW k \in Pools, RemoveSGPool(k) PROVE OnePool'
  <2>1. sgJob'.cur = {k} /\ sgJob'.ports = sgJob.ports /\ sgJob.pc = "pools"
    BY <1>3 DEF RemoveSGPool, TypeOK, PolicyTypes
  <2> QED
    BY <2>1
<1>4. ASSUME NEW k \in Pools, NEW g \in AllGroups, RemoveSGGroup(k, g) PROVE OnePool'
  <2>1. CASE sgJob' = [sgJob EXCEPT !.pc = "ports", !.groups = @ \ {g},
                                    !.ports = avail[k][g]]
    BY <2>1 DEF TypeOK, PolicyTypes
  <2>2. CASE sgJob' = [sgJob EXCEPT !.groups = @ \ {g}]
    BY <2>2 DEF TypeOK, PolicyTypes
  <2> QED
    BY <1>1, <1>4, <2>1, <2>2 DEF RemoveSGGroup
<1>5. ASSUME NEW k \in Pools, RemoveSGPort(k) PROVE OnePool'
  BY <1>5 DEF RemoveSGPort, TypeOK, PolicyTypes
<1>6. ASSUME NEW k \in Pools, RemoveSGGroupDone(k) PROVE OnePool'
  BY <1>6 DEF RemoveSGGroupDone, TypeOK, PolicyTypes
<1>7. ASSUME RemoveSGPoolDone PROVE OnePool'
  BY <1>7 DEF RemoveSGPoolDone, TypeOK, PolicyTypes
<1>8. ASSUME RemoveSGPortFails \/ RemoveSGEnd \/ Restart \/ UNCHANGED sgJob
      PROVE  OnePool'
  BY <1>1, <1>8 DEF RemoveSGPortFails, RemoveSGEnd, Restart
<1> QED
  BY <1>2, <1>3, <1>4, <1>5, <1>6, <1>7, <1>8, SGFrame DEF RemoveSGStep

-----------------------------------------------------------------------------
(* Useful ports *)

(* A step that makes no other port useful, and deletes none. *)
LEMMA UsefulKept ==
    ASSUME UsefulAlive, life' = life,
           \A p \in netJob'.ports : p \in netJob.ports \/ ~Useful(p),
           \A p \in Ports : Useful(p)' => Useful(p)
    PROVE  UsefulAlive'
BY DEF UsefulAlive

(* A step that puts ports in no list, nor in the hands of pods. *)
Losing ==
    /\ \A k \in Pools, g \in AllGroups : avail'[k][g] \in {avail[k][g], <<>>}
    /\ \A j \in Jobs : created'[j] \in {created[j], <<>>}
    /\ \A c \in Pods : held'[c] \in {held[c], NoPort}
    /\ recyclable' \subseteq recyclable \cup {held[c] : c \in Pods}
    /\ \A p \in Ports : found'[p] \in {found[p], NoGroup}
    /\ deadNets \subseteq deadNets'
    /\ sgJob'.ports = <<>> \/ (sgJob'.ports = sgJob.ports /\ sgJob'.cur = sgJob.cur)

(* It makes no port useful. *)
LEMMA LosingUse ==
    ASSUME Losing, NEW p \in Ports, Useful(p)'
    PROVE  Useful(p)
<1>1. NoPort # p
  BY ConstantsAssumption
<1>2. \A k \in Pools : ~Deserted(k)' => ~Deserted(k)
  BY DEF Deserted, Losing
<1>3. ASSUME NEW k \in sgJob'.cur, p \in ToSet(sgJob'.ports), ~Deserted(k)'
      PROVE  Useful(p)
  BY <1>3, ShortLists DEF Useful, Deserted, Losing
<1>4. CASE \E c \in Pods : held'[c] = p
  BY <1>1, <1>4 DEF Useful, Losing
<1>5. CASE p \in recyclable'
  BY <1>5 DEF Useful, Losing
<1>6. CASE \E k \in Pools, g \in AllGroups : p \in ToSet(avail'[k][g]) /\ ~Deserted(k)'
  BY <1>2, <1>6, ShortLists DEF Useful, Losing
<1>7. CASE \E j \in Jobs : p \in ToSet(created'[j])
  BY <1>7, ShortLists DEF Useful, Losing
<1>8. CASE found'[p] # NoGroup
  BY <1>8 DEF Useful, Losing
<1> QED
  BY <1>3, <1>4, <1>5, <1>6, <1>7, <1>8 DEF Useful

(* The steps of pods but for requests. *)
LEMMA PodsLose ==
    ASSUME TypeOK, PodsConsistent, NEW c \in Pods,
           \/ CreatePod(c) \/ RemovePod(c) \/ HandleDeleted(c) \/ NextTry(c)
           \/ RequestRefused(c) \/ PortUpdated(c) \/ PortUpdateFails(c)
           \/ Annotate(c) \/ AnnotateFails(c)
    PROVE  Losing
<1>1. UNCHANGED <<avail, created, found, deadNets, sgJob>>
  BY DEF CreatePod, RemovePod, HandleDeleted, NextTry, RequestRefused, PortUpdated,
         PortUpdateFails, Annotate, AnnotateFails, popVars, poolVars, syncVars, jobVars,
         netVars, policyVars
<1>2. \A d \in Pods : held'[d] \in {held[d], NoPort}
  BY DEF CreatePod, RemovePod, HandleDeleted, NextTry, RequestRefused, PortUpdated,
         PortUpdateFails, Annotate, AnnotateFails, HandOut, TypeOK, PodTypes
<1>3. recyclable' \in {recyclable, recyclable \cup {held[c]}}
  BY DEF CreatePod, RemovePod, HandleDeleted, NextTry, RequestRefused, PortUpdated,
         PortUpdateFails, Annotate, AnnotateFails, Release, poolVars
<1> QED
  BY <1>1, <1>2, <1>3 DEF Losing

(* The steps of the populating threads that list nothing, and of the timers. *)
LEMMA JobsLose ==
    ASSUME TypeOK,
           \/ \E j \in Jobs : PopulateStart(j) \/ PortsRefused(j) \/ PopulateFails(j)
           \/ \E k \in Pools : Tick(k)
           \/ \E by \in {"timer", "net"} : RecycleBegin(by) \/ RecycleFails(by)
           \/ \E p \in Ports : DeletePort(p) \/ DeletePortFails(p)
           \/ RecycleEnd
           \/ \E c \in Pods, g \in Groups : PolicyUpdate(c, g)
           \/ PolicyUpdateEnd
    PROVE  Losing
<1> USE DEF coreVars, k8sVars, popVars, poolVars, syncVars, jobVars, netVars, policyVars
<1>1. ASSUME NEW j \in Jobs, PopulateStart(j) \/ PortsRefused(j) PROVE Losing
  BY <1>1 DEF PopulateStart, PortsRefused, Losing
<1>2. ASSUME NEW j \in Jobs, PopulateFails(j) PROVE Losing
  <2>1. \A i \in Jobs : created'[i] \in {created[i], <<>>}
    BY <1>2 DEF PopulateFails, TypeOK, PopulateTypes, Jobs
  <2> QED
    BY <1>2, <2>1 DEF PopulateFails, Losing
<1>3. ASSUME NEW k \in Pools, Tick(k) PROVE Losing
  BY <1>3 DEF Tick, Losing
<1>4. ASSUME NEW by \in {"timer", "net"}, RecycleBegin(by) \/ RecycleFails(by)
      PROVE  Losing
  BY <1>4 DEF RecycleBegin, RecycleFails, Losing
<1>5. ASSUME NEW p \in Ports, DeletePort(p) \/ DeletePortFails(p) PROVE Losing
  BY <1>5 DEF DeletePort, DeletePortFails, Losing
<1>6. ASSUME RecycleEnd PROVE Losing
  BY <1>6 DEF RecycleEnd, Losing
<1>7. ASSUME (\E c \in Pods, g \in Groups : PolicyUpdate(c, g)) \/ PolicyUpdateEnd
      PROVE  Losing
  BY <1>7 DEF PolicyUpdate, PolicyUpdateEnd, Losing
<1> QED
  BY <1>1, <1>2, <1>3, <1>4, <1>5, <1>6, <1>7

(* The steps of delete_network_pools. *)
LEMMA NetLoses ==
    ASSUME NetDeleteStep \/ \E n \in Nets : NetDeleteStart(n)
    PROVE  Losing
<1> USE DEF coreVars, k8sVars, popVars, poolVars, syncVars, policyVars
<1>1. ASSUME NEW n \in Nets, NetDeleteStart(n) PROVE Losing
  BY <1>1 DEF NetDeleteStart, Losing
<1>2. ASSUME NetClearPool PROVE Losing
  BY <1>2 DEF NetClearPool, Without, Losing
<1>3. ASSUME NetDeletePools \/ NetDeleteEnd PROVE Losing
  BY <1>3 DEF NetDeletePools, NetDeleteEnd, Losing
<1>4. ASSUME NEW k \in Pools, NetDeletePool(k) PROVE Losing
  BY <1>4 DEF NetDeletePool, Losing
<1>5. ASSUME NEW p \in Ports, NetDeletePort(p) \/ NetDeletePortFails(p) PROVE Losing
  BY <1>5 DEF NetDeletePort, NetDeletePortFails, Losing
<1> QED
  BY <1>1, <1>2, <1>3, <1>4, <1>5 DEF NetDeleteStep

(* The steps of remove_sg_from_pools that leave the lists alone. *)
LEMMA RemoveSGLoses ==
    ASSUME TypeOK, OnePool,
           \/ \E sg \in SGs, n \in Nets : RemoveSGStart(sg, n)
           \/ \E k \in Pools : RemoveSGPool(k) \/ RemoveSGGroupDone(k)
           \/ RemoveSGPortFails \/ RemoveSGPoolDone \/ RemoveSGEnd
    PROVE  Losing
<1>1. /\ UNCHANGED <<avail, created, held, recyclable, found, deadNets>>
  BY DEF RemoveSGStart, RemoveSGPool, RemoveSGGroupDone, RemoveSGPortFails,
         RemoveSGPoolDone, RemoveSGEnd, coreVars, k8sVars, popVars, poolVars, syncVars,
         netVars
<1>2. sgJob'.ports = <<>> \/ (sgJob'.ports = sgJob.ports /\ sgJob'.cur = sgJob.cur)
  <2>1. CASE \E sg \in SGs, n \in Nets : RemoveSGStart(sg, n)
    BY <2>1 DEF RemoveSGStart, NoSGJob
  <2>2. ASSUME NEW k \in Pools, RemoveSGPool(k) PROVE sgJob'.ports = <<>>
    BY <2>2 DEF RemoveSGPool, OnePool, TypeOK, PolicyTypes
  <2>3. CASE (\E k \in Pools : RemoveSGGroupDone(k)) \/ RemoveSGPoolDone
    BY <2>3 DEF RemoveSGGroupDone, RemoveSGPoolDone, OnePool, TypeOK, PolicyTypes
  <2>4. CASE RemoveSGPortFails \/ RemoveSGEnd
    BY <2>4 DEF RemoveSGPortFails, RemoveSGEnd, NoSGJob
  <2> QED
    BY <2>1, <2>2, <2>3, <2>4
<1> QED
  BY <1>1, <1>2 DEF Losing

(* The steps of the recovery that list nothing, and a restart. *)
LEMMA SyncLoses ==
    ASSUME SyncReset \/ SyncListPods \/ SyncDone \/ Restart
    PROVE  Losing
<1>1. ASSUME SyncReset \/ SyncListPods \/ SyncDone PROVE Losing
  BY <1>1 DEF SyncReset, SyncListPods, SyncDone, k8sVars, popVars, poolVars, jobVars,
              netVars, policyVars, Losing
<1>2. ASSUME Restart PROVE Losing
  BY <1>2 DEF Restart, Without, NoSGJob, Jobs, Losing
<1> QED
  BY <1>1, <1>2

(* A handler takes a port of its pool, which is not deserted. *)
LEMMA RequestsUse ==
    ASSUME TypeOK, PodsConsistent, NetsQuiet, NEW c \in Pods,
           RequestExact(c) \/ \E g \in AllGroups : RequestOther(c, g),
           NEW p \in Ports, Useful(p)'
    PROVE  Useful(p)
<1> DEFINE k == PodPool[c]
<1>1. /\ UNCHANGED <<created, found, recyclable, deadNets, sgJob>>
      /\ pc[c] = "pending"
  BY DEF RequestExact, RequestOther, popVars, syncVars, jobVars, netVars, policyVars
<1>2. k \in Pools /\ ~Deserted(k)
  BY <1>1, GroupTypes DEF NetsQuiet
<1>3. PICK g \in AllGroups :
         /\ avail[k][g] # <<>>
         /\ avail' = [avail EXCEPT ![k][g] = Front(avail[k][g])]
         /\ \/ held' = [held EXCEPT ![c] = Last(avail[k][g])]
            \/ held' = [held EXCEPT ![c] = NoPort]
  <2>1. CASE RequestExact(c)
    <3>1. PodSGs[c] \in AllGroups
      BY GroupTypes
    <3> QED
      BY <2>1, <3>1 DEF RequestExact, HandOut
  <2>2. CASE \E g \in AllGroups : RequestOther(c, g)
    BY <2>2 DEF RequestOther, OtherGroups
  <2> QED
    BY <2>1, <2>2
<1> HIDE DEF k
<1>4. avail[k][g] \in Seq(Ports)
  BY <1>2 DEF TypeOK, PoolTypes
<1>5. ToSet(Front(avail[k][g])) \subseteq ToSet(avail[k][g]) /\ Last(avail[k][g]) \in ToSet(avail[k][g])
  BY <1>3, <1>4 DEF Front, Last, ToSet
<1>6. \A l \in Pools, h \in AllGroups : ToSet(avail'[l][h]) \subseteq ToSet(avail[l][h])
  <2>1. \A l \in Pools, h \in AllGroups :
           avail'[l][h] = IF l = k /\ h = g THEN Front(avail[k][g]) ELSE avail[l][h]
    BY <1>3 DEF TypeOK, PoolTypes
  <2> QED
    BY <1>5, <2>1
<1>7. ASSUME NEW d \in Pods, held'[d] = p PROVE Useful(p)
  <2>1. held[d] = p \/ p = Last(avail[k][g])
    BY <1>3, <1>7, ConstantsAssumption DEF TypeOK, PodTypes
  <2> QED
    BY <1>2, <1>5, <2>1 DEF Useful
<1>8. \A l : Deserted(l)' <=> Deserted(l)
  BY <1>1 DEF Deserted
<1> QED
  BY <1>1, <1>6, <1>7, <1>8 DEF Useful

(* Ports are listed that were useful already, or in a deserted pool. *)
LEMMA ListingUse ==
    ASSUME TypeOK, NEW k \in Pools, NEW g \in AllGroups, NEW s \in Seq(Ports),
           Listing(k, g, s),
           \A p \in ToSet(s) : Useful(p) \/ Deserted(k),
           UNCHANGED <<held, deadNets>>, recyclable' \subseteq recyclable,
           sgJob'.cur = sgJob.cur, ToSet(sgJob'.ports) \subseteq ToSet(sgJob.ports),
           \A j \in Jobs : created'[j] \in {created[j], <<>>},
           \A p \in Ports : found'[p] \in {found[p], NoGroup},
           NEW p \in Ports, Useful(p)'
    PROVE  Useful(p)
<1>1. \A l \in Pools, h \in AllGroups :
         avail'[l][h] = IF l = k /\ h = g THEN avail[k][g] \o s ELSE avail[l][h]
  BY DEF Listing, TypeOK, PoolTypes
<1>2. ToSet(avail[k][g] \o s) \subseteq ToSet(avail[k][g]) \cup ToSet(s)
  <2>1. avail[k][g] \in Seq(Ports)
    BY DEF TypeOK, PoolTypes
  <2> QED
    BY <2>1 DEF ToSet
<1>3. \A l : Deserted(l)' <=> Deserted(l)
  BY DEF Deserted
<1>4. ASSUME NEW l \in Pools, NEW h \in AllGroups, p \in ToSet(avail'[l][h]), ~Deserted(l)
      PROVE  Useful(p)
  BY <1>1, <1>2, <1>4 DEF Useful
<1>5. ASSUME NEW j \in Jobs, p \in ToSet(created'[j]) PROVE Useful(p)
  BY <1>5, ShortLists DEF Useful
<1> QED
  BY <1>3, <1>4, <1>5 DEF Useful

(* The steps that list ports. *)
LEMMA ListingsUse ==
    ASSUME TypeOK, OnePlace,
           \/ \E j \in Jobs : PopulateFinish(j)
           \/ \E q \in Ports : RecyclePort(q) \/ RecoverPort(q)
           \/ \E k \in Pools : RemoveSGPort(k),
           NEW p \in Ports, Useful(p)'
    PROVE  Useful(p)
<1>1. ASSUME NEW j \in Jobs, PopulateFinish(j) PROVE Useful(p)
  <2>1. /\ UNCHANGED <<held, deadNets, recyclable, sgJob, found>>
        /\ \A i \in Jobs : created'[i] \in {created[i], <<>>}
    BY <1>1 DEF PopulateFinish, k8sVars, syncVars, jobVars, netVars, policyVars, TypeOK,
                PopulateTypes, Jobs
  <2>2. /\ j[1] \in Pools /\ j[2] \in AllGroups /\ created[j] \in Seq(Ports)
        /\ Listing(j[1], j[2], created[j])
    BY <1>1 DEF PopulateFinish, Jobs, AllGroups, TypeOK, PopulateTypes
  <2>3. \A q \in ToSet(created[j]) : Useful(q)
    BY DEF Useful
  <2> QED
    BY <2>1, <2>2, <2>3, ListingUse
<1>2. ASSUME NEW q \in Ports, RecyclePort(q) PROVE Useful(p)
  <2>1. UNCHANGED <<held, deadNets, created, sgJob, found>> /\ recyclable' \subseteq recyclable
    BY <1>2 DEF RecyclePort, k8sVars, syncVars, popVars, netVars, policyVars
  <2>2. recycler.seen[q] \in AllGroups /\ PoolOf[q] \in Pools /\ <<q>> \in Seq(Ports)
    BY GroupTypes DEF TypeOK, RecycleTypes
  <2>3. q \in recyclable /\ Listing(PoolOf[q], recycler.seen[q], <<q>>)
    BY <1>2 DEF RecyclePort, OnePlace, Recycling
  <2>4. \A r \in ToSet(<<q>>) : Useful(r)
    BY <2>3, ShortLists DEF Useful
  <2> QED
    BY <2>1, <2>2, <2>3, <2>4, ListingUse
<1>3. ASSUME NEW q \in Ports, RecoverPort(q) PROVE Useful(p)
  <2>1. /\ UNCHANGED <<held, deadNets, created, sgJob, recyclable>>
        /\ \A r \in Ports : found'[r] \in {found[r], NoGroup}
    BY <1>3 DEF RecoverPort, k8sVars, popVars, jobVars, netVars, policyVars, TypeOK,
                SyncTypes
  <2>2. found[q] \in AllGroups /\ PoolOf[q] \in Pools /\ <<q>> \in Seq(Ports)
    BY GroupTypes DEF TypeOK, SyncTypes
  <2>3. found[q] # NoGroup /\ Listing(PoolOf[q], found[q], <<q>>)
    BY <1>3 DEF RecoverPort
  <2>4. \A r \in ToSet(<<q>>) : Useful(r)
    BY <2>3, ShortLists DEF Useful
  <2> QED
    BY <2>1, <2>2, <2>3, <2>4, ListingUse
<1>4. ASSUME NEW k \in Pools, RemoveSGPort(k) PROVE Useful(p)
  <2> DEFINE q == Head(sgJob.ports)
  <2>1. sgJob.ports \in Seq(Ports) /\ sgJob.ports # <<>> /\ k \in sgJob.cur
    BY <1>4 DEF RemoveSGPort, TypeOK, PolicyTypes
  <2>2. sgJob'.ports = Tail(sgJob.ports) /\ sgJob'.cur = sgJob.cur
    BY <1>4 DEF RemoveSGPort, TypeOK, PolicyTypes
  <2>3. q \in ToSet(sgJob.ports) /\ ToSet(sgJob'.ports) \subseteq ToSet(sgJob.ports)
    BY <2>1, <2>2 DEF ToSet
  <2>4. q \in Ports /\ <<q>> \in Seq(Ports) /\ {} \in AllGroups
    BY <2>1, GroupTypes
  <2>5. UNCHANGED <<held, deadNets, created, found, recyclable>>
    BY <1>4 DEF RemoveSGPort, k8sVars, popVars, syncVars, netVars
  <2>6. Listing(k, {}, <<q>>)
    BY <1>4 DEF RemoveSGPort
  <2>7. \A r \in ToSet(<<q>>) : Useful(r) \/ Deserted(k)
    BY <2>1, <2>3, ShortLists DEF Useful
  <2> HIDE DEF q
  <2> QED
    BY <2>2, <2>3, <2>4, <2>5, <2>6, <2>7, ListingUse
<1> QED
  BY <1>1, <1>2, <1>3, <1>4

(* remove_sg_from_pools takes the list of a pool that is not deserted. *)
LEMMA RemoveSGGroupUse ==
    ASSUME TypeOK, OnePool, NEW k \in Pools, NEW g \in AllGroups, RemoveSGGroup(k, g),
           NEW p \in Ports, Useful(p)'
    PROVE  Useful(p)
<1>1. UNCHANGED <<held, deadNets, created, found, recyclable>> /\ k \in sgJob.cur
  BY DEF RemoveSGGroup, k8sVars, popVars, syncVars, netVars
<1>2. \A l : Deserted(l)' <=> Deserted(l)
  BY <1>1 DEF Deserted
<1>3. \A l \in Pools, h \in AllGroups : avail'[l][h] \in {avail[l][h], <<>>}
  <2>1. CASE avail' = [avail EXCEPT ![k][g] = <<>>]
    BY <2>1 DEF TypeOK, PoolTypes
  <2>2. CASE avail' = avail
    BY <2>2
  <2> QED
    BY <2>1, <2>2 DEF RemoveSGGroup
<1>4. \/ sgJob'.ports \in {sgJob.ports, <<>>} /\ sgJob'.cur \subseteq sgJob.cur
      \/ sgJob'.ports = avail[k][g] /\ sgJob'.cur = sgJob.cur
  <2>1. CASE sgJob' = NoSGJob
    BY <2>1 DEF NoSGJob
  <2>2. CASE sgJob' = [sgJob EXCEPT !.pc = "ports", !.groups = @ \ {g},
                                    !.ports = avail[k][g]]
    BY <2>2 DEF TypeOK, PolicyTypes
  <2>3. CASE sgJob' = [sgJob EXCEPT !.groups = @ \ {g}]
    BY <2>3 DEF TypeOK, PolicyTypes
  <2> QED
    BY <2>1, <2>2, <2>3 DEF RemoveSGGroup
<1>5. ASSUME NEW l \in sgJob'.cur, p \in ToSet(sgJob'.ports), ~Deserted(l)
      PROVE  Useful(p)
  <2>1. l = k
    BY <1>1, <1>4 DEF OnePool
  <2> QED
    BY <1>4, <1>5, <2>1, ShortLists DEF Useful
<1>6. ASSUME NEW l \in Pools, NEW h \in AllGroups, p \in ToSet(avail'[l][h]), ~Deserted(l)
      PROVE  Useful(p)
  BY <1>3, <1>6, ShortLists DEF Useful
<1> QED
  BY <1>1, <1>2, <1>5, <1>6 DEF Useful

(* A port that is in a place of its own is nowhere else. *)
LEMMA OnlyThere ==
    ASSUME OnePlace, NEW p \in Ports, NEW z \in Places, At(p, z)
    PROVE  \A x \in Places : At(p, x) => x = z
BY DEF OnePlace, OneOwner, PlacesOf

(* Recycling deletes a port that is then nowhere. *)
LEMMA DeletePortUse ==
    ASSUME TypeOK, OnePlace, UsefulAlive, NEW q \in Ports, DeletePort(q)
    PROVE  UsefulAlive'
<1>1. /\ UNCHANGED <<held, avail, created, sgJob, found, netJob, deadNets>>
      /\ recyclable' = recyclable \ {q} /\ q \in recyclable
      /\ \A p \in Ports : p # q => life'[p] = life[p]
  BY DEF DeletePort, k8sVars, syncVars, popVars, netVars, policyVars, OnePlace, Recycling,
         TypeOK, NeutronTypes
<1>2. At(q, Recyclable)
  BY <1>1 DEF At
<1>3. ~Useful(q)'
  <2>1. \A x \in Places : At(q, x) => x = Recyclable
    BY <1>2, OnlyThere, PlacesArePlaces
  <2>2. \A k \in Pools, g \in AllGroups : q \notin ToSet(avail[k][g])
    BY <2>1, PlacesArePlaces, PlacesDiffer DEF At
  <2>3. \A j \in Jobs : q \notin ToSet(created[j])
    BY <2>1, PlacesArePlaces, PlacesDiffer DEF At
  <2>4. \A c \in Pods : held[c] # q
    BY <2>1, PlacesArePlaces, PlacesDiffer DEF At
  <2>5. q \notin ToSet(sgJob.ports) /\ found[q] = NoGroup
    BY <2>1, PlacesArePlaces, PlacesDiffer DEF At
  <2> QED
    BY <1>1, <2>2, <2>3, <2>4, <2>5 DEF Useful
<1>4. Losing
  BY JobsLose
<1> QED
  BY <1>1, <1>3, <1>4, LosingUse DEF UsefulAlive

(* delete_network_pools deletes a port that was not useful. *)
LEMMA NetDeletePortUse ==
    ASSUME TypeOK, UsefulAlive, NEW q \in Ports, NetDeletePort(q)
    PROVE  UsefulAlive'
<1>1. /\ netJob'.ports \subseteq netJob.ports /\ q \in netJob.ports
      /\ \A p \in Ports : p # q => life'[p] = life[p]
  BY DEF NetDeletePort, TypeOK, NeutronTypes, NetTypes
<1>2. Losing
  BY NetLoses DEF NetDeleteStep
<1> QED
  BY <1>1, <1>2, LosingUse DEF UsefulAlive

(* It takes up a deserted pool, the ports of which are nowhere else. *)
LEMMA NetDeletePoolUse ==
    ASSUME TypeOK, OnePlace, UsefulAlive, Deserting, NEW k \in Pools, NetDeletePool(k)
    PROVE  UsefulAlive'
<1>1. netJob'.ports = PoolPorts(avail[k]) /\ Deserted(k) /\ life' = life
  BY DEF NetDeletePool, Deserting, coreVars, neutronVars, TypeOK, NetTypes
<1>2. ASSUME NEW q \in PoolPorts(avail[k]) PROVE ~Useful(q)
  <2>1. PICK g \in AllGroups : At(q, ListPlace(k, g)) /\ q \in Ports
    BY ListedIsBorn
  <2>2. \A x \in Places : At(q, x) => x = ListPlace(k, g)
    BY <2>1, OnlyThere, PlacesArePlaces
  <2>3. \A l \in Pools, h \in AllGroups : q \in ToSet(avail[l][h]) => l = k
    BY <2>2, PlacesArePlaces, PlacesDiffer DEF At
  <2>4. \A j \in Jobs : q \notin ToSet(created[j])
    BY <2>2, PlacesArePlaces, PlacesDiffer DEF At
  <2>5. (\A c \in Pods : held[c] # q) /\ q \notin recyclable
    BY <2>2, PlacesArePlaces, PlacesDiffer DEF At
  <2>6. q \notin ToSet(sgJob.ports) /\ found[q] = NoGroup
    BY <2>2, PlacesArePlaces, PlacesDiffer DEF At
  <2> QED
    BY <1>1, <2>3, <2>4, <2>5, <2>6 DEF Useful
<1>3. Losing
  BY NetLoses DEF NetDeleteStep
<1> QED
  BY <1>1, <1>2, <1>3, LosingUse, UsefulKept

(* Neutron creates ports that were not there. *)
LEMMA PortsCreatedUse ==
    ASSUME TypeOK, UsefulAlive, Deserting, NEW j \in Jobs, PortsCreated(j)
    PROVE  UsefulAlive'
<1>1. /\ UNCHANGED <<held, avail, recyclable, sgJob, found, netJob, deadNets>>
      /\ wanted[j] \in Nat /\ wanted[j] > 0
  BY DEF PortsCreated, k8sVars, syncVars, poolVars, jobVars, netVars, policyVars, TypeOK,
         PopulateTypes, Jobs
<1>2. PICK s \in Injection(1..wanted[j], FreshPorts(j[1])) :
         /\ created' = [created EXCEPT ![j] = s]
         /\ life' = [p \in Ports |-> IF p \in ToSet(s) THEN "live" ELSE life[p]]
  BY DEF PortsCreated
<1>3. ToSet(s) \subseteq FreshPorts(j[1])
  BY <1>1, <1>2, BulkType
<1>4. \A i \in Jobs : created'[i] = IF i = j THEN s ELSE created[i]
  BY <1>2 DEF TypeOK, PopulateTypes, Jobs
<1>5. ASSUME NEW p \in Ports, Useful(p)', p \notin ToSet(s) PROVE Useful(p)
  BY <1>1, <1>4, <1>5 DEF Useful, Deserted
<1>6. \A p \in ToSet(s) : p \notin netJob.ports
  BY <1>3 DEF FreshPorts, Deserting
<1> QED
  BY <1>1, <1>2, <1>5, <1>6 DEF UsefulAlive

(* The recovery finds ports that are there, and none is being deleted. *)
LEMMA SyncListPortsUse ==
    ASSUME UsefulAlive, Deserting, SyncListPorts
    PROVE  UsefulAlive'
<1>1. UNCHANGED <<held, avail, created, recyclable, sgJob, netJob, deadNets, life>>
  BY DEF SyncListPorts, k8sVars, neutronVars, poolVars, popVars, jobVars, netVars,
         policyVars
<1>2. \A p \in Ports : found'[p] # NoGroup => life[p] = "live"
  BY DEF SyncListPorts
<1>3. netJob.ports = {}
  BY DEF SyncListPorts, Deserting
<1>4. ASSUME NEW p \in Ports, Useful(p)', found'[p] = NoGroup PROVE Useful(p)
  BY <1>1, <1>4 DEF Useful, Deserted
<1> QED
  BY <1>1, <1>2, <1>3, <1>4 DEF UsefulAlive

(* Which ports delete_network_pools adds to those it deletes. *)
LEMMA NetPorts ==
    ASSUME TypeOK, Next
    PROVE  netJob'.ports \subseteq netJob.ports \/ \E k \in Pools : NetDeletePool(k)
<1>1. CASE netJob' \in {netJob, NoNetJob}
  BY <1>1 DEF NoNetJob
<1>2. CASE \E n \in Nets : NetDeleteStart(n)
  BY <1>2 DEF NetDeleteStart, NoNetJob
<1>3. CASE NetDeletePools
  BY <1>3 DEF NetDeletePools, TypeOK, NetTypes
<1>4. CASE \E p \in Ports : NetDeletePort(p)
  BY <1>4 DEF NetDeletePort, TypeOK, NetTypes
<1>5. CASE NetClearPool
  BY <1>5 DEF NetClearPool, TypeOK, NetTypes
<1>6. CASE RecycleEnd
  BY <1>6 DEF RecycleEnd, TypeOK, NetTypes
<1>7. CASE \/ \E by \in {"timer", "net"} : RecycleFails(by)
           \/ \E p \in Ports : DeletePortFails(p) \/ NetDeletePortFails(p)
           \/ NetDeleteEnd \/ Restart \/ UNCHANGED netVars
  BY <1>1, <1>7 DEF RecycleFails, DeletePortFails, CallerFails, NetDeletePortFails,
                    NetDeleteEnd, Restart, netVars
<1> QED
  BY <1>2, <1>3, <1>4, <1>5, <1>6, <1>7, NetFrame DEF NetDeleteStep

(* A step keeps the ports that are useful. *)
LEMMA UsefulStep ==
    ASSUME TypeOK, OnePlace, DeletedUnused, Next
    PROVE  UsefulAlive'
<1> USE DEF DeletedUnused
<1>1. CASE \E j \in Jobs : PortsCreated(j)
  BY <1>1, PortsCreatedUse
<1>2. CASE \E p \in Ports : DeletePort(p) \/ NetDeletePort(p)
  BY <1>2, DeletePortUse, NetDeletePortUse
<1>3. CASE \E k \in Pools : NetDeletePool(k)
  BY <1>3, NetDeletePoolUse
<1>4. CASE SyncListPorts
  BY <1>4, SyncListPortsUse
<1>5. ASSUME \A p \in Ports : Useful(p)' => Useful(p),
             ~\E j \in Jobs : PortsCreated(j),
             ~\E p \in Ports : DeletePort(p) \/ NetDeletePort(p),
             ~\E k \in Pools : NetDeletePool(k)
      PROVE  UsefulAlive'
  BY <1>5, LifeFrame, NetPorts, UsefulKept
<1>6. ASSUME NEW c \in Pods, CreatePod(c) \/ RemovePod(c) \/ PodStep(c)
      PROVE  \A p \in Ports : Useful(p)' => Useful(p)
  BY <1>6, PodsLose, LosingUse, RequestsUse DEF PodStep, OnePlace
<1>7. ASSUME NEW j \in Jobs, PopulateStep(j), ~PortsCreated(j)
      PROVE  \A p \in Ports : Useful(p)' => Useful(p)
  BY <1>7, JobsLose, LosingUse, ListingsUse DEF PopulateStep
<1>8. ASSUME \/ RecycleStep
             \/ \E k \in Pools : Tick(k)
             \/ \E c \in Pods, g \in Groups : PolicyUpdate(c, g)
             \/ PolicyUpdateEnd
      PROVE  \A p \in Ports : Useful(p)' => Useful(p)
  BY <1>8, JobsLose, LosingUse, ListingsUse DEF RecycleStep
<1>9. ASSUME NetDeleteStep \/ \E n \in Nets : NetDeleteStart(n)
      PROVE  \A p \in Ports : Useful(p)' => Useful(p)
  BY <1>9, NetLoses, LosingUse
<1>10. ASSUME RemoveSGStep \/ \E sg \in SGs, n \in Nets : RemoveSGStart(sg, n)
       PROVE  \A p \in Ports : Useful(p)' => Useful(p)
  BY <1>10, RemoveSGLoses, LosingUse, ListingsUse, RemoveSGGroupUse DEF RemoveSGStep
<1>11. ASSUME SyncStep \/ Restart, ~SyncListPorts
       PROVE  \A p \in Ports : Useful(p)' => Useful(p)
  BY <1>11, SyncLoses, LosingUse, ListingsUse DEF SyncStep
<1>12. ASSUME ~SyncListPorts, ~\E j \in Jobs : PortsCreated(j)
       PROVE  \A p \in Ports : Useful(p)' => Useful(p)
  BY <1>6, <1>7, <1>8, <1>9, <1>10, <1>11, <1>12 DEF Next, Jobs
<1> QED
  BY <1>1, <1>2, <1>3, <1>4, <1>5, <1>12

-----------------------------------------------------------------------------
(* No port that is useful is deleted or being deleted, for any pods, ports,  *)
(* pools and options, whatever fails and restarts, unless a network is       *)
(* deleted while a pod of it asks for a port (or a pod leaves before it can  *)
(* be listed, see Placed).                                                   *)
THEOREM Used ==
    ASSUME "event_during_sync" \notin Races, "request_during_net_delete" \notin Races
    PROVE  Spec => []DeletedUnused
<1>1. Init => DeletedUnused
  <2> SUFFICES ASSUME Init PROVE DeletedUnused
    OBVIOUS
  <2>1. UsefulAlive
    BY ShortLists, ConstantsAssumption DEF Init, UsefulAlive, Useful, NoSGJob, Jobs
  <2>2. NetsQuiet /\ Deserting /\ Triggered /\ OnePool
    BY DEF Init, NetsQuiet, Deserting, Triggered, OnePool, NoNetJob, NoSGJob, Unlocked
  <2> QED
    BY <2>1, <2>2 DEF DeletedUnused
<1>2. TypeOK /\ OnePlace /\ DeletedUnused /\ [Next]_vars => DeletedUnused'
  <2> SUFFICES ASSUME TypeOK, OnePlace, DeletedUnused, [Next]_vars
               PROVE  DeletedUnused'
    OBVIOUS
  <2>1. CASE Next
    <3>1. NetsQuiet' /\ Deserting' /\ Triggered' /\ OnePool'
      BY <2>1, NetsQuietStep, DesertingStep, TriggeredStep, OnePoolStep
         DEF DeletedUnused, OnePlace
    <3> QED
      BY <2>1, <3>1, UsefulStep DEF DeletedUnused
  <2>2. CASE UNCHANGED vars
    <3> USE <2>2 DEF vars, coreVars, jobVars, k8sVars, neutronVars, syncVars, poolVars,
                     popVars, recycleVars, netVars, policyVars, DeletedUnused, Deserted
    <3>1. UsefulAlive'
      BY DEF UsefulAlive, Useful
    <3>2. NetsQuiet' /\ Deserting' /\ Triggered' /\ OnePool'
      BY DEF NetsQuiet, Deserting, Triggered, OnePool
    <3> QED
      BY <3>1, <3>2
  <2> QED
    BY <2>1, <2>2
<1> QED
  BY <1>1, <1>2, Types, Placed, PTL DEF Spec

(* The port of a pod is never deleted: neither the recycling of a full pool  *)
(* nor the deletion of a network's pools does it.                            *)
THEOREM UsedAlive ==
    ASSUME "event_during_sync" \notin Races, "request_during_net_delete" \notin Races
    PROVE  Spec => []UsedPortAlive
<1>1. TypeOK /\ DeletedUnused => UsedPortAlive
  BY DEF TypeOK, PodTypes, DeletedUnused, UsefulAlive, Useful, UsedPortAlive
<1> QED
  BY <1>1, Types, Used, PTL

-----------------------------------------------------------------------------
(* The leases *)

(* A step that deletes and creates nothing and gives no port to a pod: pods  *)
(* leave, if it changes anything.                                            *)
LEMMA Leaves ==
    ASSUME TypeOK, life' = life, \A c \in Pods : held'[c] \in {held[c], NoPort}
    PROVE  Lease!Next
<1> DEFINE C == {c \in Pods : held'[c] = NoPort}
<1>1. Holders' = [p \in Ports |-> Holders[p] \ C]
  <2>1. ASSUME NEW p \in Ports
        PROVE  {c \in Pods : held'[c] = p} = {c \in Pods : held[c] = p} \ C
    BY ConstantsAssumption
  <2> QED
    BY <2>1 DEF Holders
<1>2. C \in SUBSET Pods
  OBVIOUS
<1>3. Lease!Leave(C)
  BY <1>1 DEF Lease!Leave
<1> QED
  BY <1>2, <1>3 DEF Lease!Next

(* A pod that has no port gets one that nobody has. *)
LEMMA Takes ==
    ASSUME TypeOK, NEW c \in Pods, NEW p \in Ports, held[c] = NoPort,
           \A d \in Pods : held[d] # p, life[p] = "live", life' = life,
           held' = [held EXCEPT ![c] = p]
    PROVE  Lease!Next
<1>1. Holders[p] = {} /\ \A q \in Ports : c \notin Holders[q]
  BY ConstantsAssumption DEF Holders
<1>2. Holders' = [Holders EXCEPT ![p] = {c}]
  <2>1. \A d \in Pods : held'[d] = IF d = c THEN p ELSE held[d]
    BY DEF TypeOK, PodTypes
  <2>2. ASSUME NEW q \in Ports
        PROVE  {d \in Pods : held'[d] = q}
                  = IF q = p THEN {c} ELSE {d \in Pods : held[d] = q}
    BY <2>1, ConstantsAssumption
  <2> QED
    BY <2>2 DEF Holders
<1>3. Lease!Take(c, p)
  BY <1>1, <1>2 DEF Lease!Take
<1> QED
  BY <1>3 DEF Lease!Next

(* A port without a pod is deleted, if it is not yet. *)
LEMMA Deletes ==
    ASSUME TypeOK, NEW p \in Ports, held' = held, life[p] # "unborn",
           life' = [life EXCEPT ![p] = "deleted"], \A d \in Pods : held[d] # p
    PROVE  Lease!Next \/ UNCHANGED Lease!lease
<1>1. Holders' = Holders /\ Holders[p] = {}
  BY DEF Holders
<1>2. CASE life[p] = "live"
  <2>1. Lease!Delete(p)
    BY <1>1, <1>2 DEF Lease!Delete
  <2> QED
    BY <2>1 DEF Lease!Next
<1>3. CASE life[p] = "deleted"
  <2>1. life' = life
    BY <1>3 DEF TypeOK, NeutronTypes
  <2> QED
    BY <1>1, <2>1 DEF Lease!lease
<1> QED
  BY <1>2, <1>3 DEF TypeOK, NeutronTypes

(* A request is a lease, unless the driver does not know the port. *)
LEMMA RequestLeases ==
    ASSUME TypeOK, OnePlace, DeletedUnused, NEW c \in Pods,
           RequestExact(c) \/ \E g \in AllGroups : RequestOther(c, g)
    PROVE  Lease!Next
<1> DEFINE k == PodPool[c]
<1>1. /\ life' = life /\ pc[c] = "pending" /\ held[c] = NoPort
      /\ k \in Pools /\ ~Deserted(k)
  <2>1. life' = life /\ pc[c] = "pending"
    BY DEF RequestExact, RequestOther, neutronVars
  <2>2. held[c] = NoPort /\ k \in Pools /\ ~Deserted(k)
    BY <2>1, GroupTypes DEF OnePlace, PodsConsistent, DeletedUnused, NetsQuiet
  <2> QED
    BY <2>1, <2>2
<1>2. PICK g \in AllGroups :
         /\ avail[k][g] # <<>>
         /\ \/ held' = [held EXCEPT ![c] = Last(avail[k][g])]
            \/ held' = [held EXCEPT ![c] = NoPort]
  <2>1. CASE RequestExact(c)
    <3>1. PodSGs[c] \in AllGroups
      BY GroupTypes
    <3> QED
      BY <2>1, <3>1 DEF RequestExact, HandOut
  <2>2. CASE \E g \in AllGroups : RequestOther(c, g)
    BY <2>2 DEF RequestOther, OtherGroups
  <2> QED
    BY <2>1, <2>2
<1> HIDE DEF k
<1> DEFINE p == Last(avail[k][g])
<1>3. p \in ToSet(avail[k][g]) /\ p \in Ports
  <2>1. avail[k][g] \in Seq(Ports)
    BY <1>1 DEF TypeOK, PoolTypes
  <2> QED
    BY <1>2, <2>1, PopType DEF Last, ToSet
<1>4. At(p, ListPlace(k, g)) /\ life[p] = "live"
  BY <1>1, <1>3 DEF At, DeletedUnused, UsefulAlive, Useful
<1>5. \A d \in Pods : held[d] # p
  <2>1. \A d \in Pods : ~At(p, PodPlace(d))
    BY <1>1, <1>3, <1>4, OnlyThere, PlacesArePlaces, PlacesDiffer
  <2> QED
    BY <2>1 DEF At
<1>6. CASE held' = [held EXCEPT ![c] = p]
  <2> HIDE DEF p
  <2> QED
    BY <1>1, <1>3, <1>4, <1>5, <1>6, Takes
<1>7. CASE held' = [held EXCEPT ![c] = NoPort]
  <2>1. \A d \in Pods : held'[d] \in {held[d], NoPort}
    BY <1>7 DEF TypeOK, PodTypes
  <2> QED
    BY <1>1, <2>1, Leaves
<1> QED
  BY <1>2, <1>6, <1>7

(* The ports of a bulk request are created. *)
LEMMA PopulateLeases ==
    ASSUME TypeOK, NEW j \in Jobs, PortsCreated(j)
    PROVE  Lease!Next
<1>1. Holders' = Holders
  BY DEF PortsCreated, k8sVars, Holders
<1>2. wanted[j] \in Nat /\ wanted[j] > 0
  BY DEF PortsCreated, TypeOK, PopulateTypes, Jobs
<1>3. PICK s \in Injection(1..wanted[j], FreshPorts(j[1])) :
         life' = [p \in Ports |-> IF p \in ToSet(s) THEN "live" ELSE life[p]]
  BY DEF PortsCreated
<1>4. ToSet(s) \subseteq FreshPorts(j[1])
  BY <1>2, <1>3, BulkType
<1>5. ToSet(s) \in SUBSET Ports /\ \A p \in ToSet(s) : life[p] = "unborn"
  BY <1>4 DEF FreshPorts
<1>6. Lease!Create(ToSet(s))
  BY <1>1, <1>3, <1>5 DEF Lease!Create
<1> QED
  BY <1>5, <1>6 DEF Lease!Next

(* The steps that delete ports delete those without a pod. *)
LEMMA DeletionLeases ==
    ASSUME TypeOK, OnePlace, DeletedUnused, NEW p \in Ports,
           DeletePort(p) \/ NetDeletePort(p)
    PROVE  Lease!Next \/ UNCHANGED Lease!lease
<1>1. held' = held
  BY DEF DeletePort, NetDeletePort, k8sVars
<1>2. CASE DeletePort(p)
  <2>1. p \in recyclable /\ At(p, Recyclable)
    BY <1>2 DEF DeletePort, OnePlace, Recycling, At
  <2>2. \A d \in Pods : ~At(p, PodPlace(d))
    BY <2>1, OnlyThere, PlacesArePlaces, PlacesDiffer
  <2>3. (\A d \in Pods : held[d] # p) /\ life[p] = "live"
    BY <2>1, <2>2 DEF At, DeletedUnused, UsefulAlive, Useful
  <2>4. life' = [life EXCEPT ![p] = "deleted"] \/ life' = life
    BY <1>2 DEF DeletePort, TypeOK, NeutronTypes
  <2> QED
    BY <1>1, <2>3, <2>4, Deletes, Leaves
<1>3. CASE NetDeletePort(p)
  <2>1. p \in netJob.ports /\ life' = [life EXCEPT ![p] = "deleted"]
    BY <1>3 DEF NetDeletePort
  <2>2. (\A d \in Pods : held[d] # p) /\ life[p] # "unborn"
    BY <2>1 DEF DeletedUnused, UsefulAlive, Useful, Deserting
  <2> QED
    BY <1>1, <2>1, <2>2, Deletes
<1> QED
  BY <1>2, <1>3

(* Every step of the pool is a step of the leases, or none. *)
LEMMA LeaseStep ==
    ASSUME TypeOK, OnePlace, DeletedUnused, Next
    PROVE  Lease!Next \/ UNCHANGED Lease!lease
<1>1. CASE \E j \in Jobs : PortsCreated(j)
  BY <1>1, PopulateLeases
<1>2. CASE \E p \in Ports : DeletePort(p) \/ NetDeletePort(p)
  BY <1>2, DeletionLeases
<1>3. CASE \E c \in Pods : RequestExact(c) \/ \E g \in AllGroups : RequestOther(c, g)
  BY <1>3, RequestLeases
<1>4. ASSUME life' = life,
             ~\E c \in Pods : RequestExact(c) \/ \E g \in AllGroups : RequestOther(c, g)
      PROVE  Lease!Next
  <2>1. Losing \/ UNCHANGED held
    BY <1>4, PodsFrame, PodsLose, SyncLoses DEF PodStep, OnePlace, k8sVars
  <2>2. \A c \in Pods : held'[c] \in {held[c], NoPort}
    BY <2>1 DEF Losing
  <2> QED
    BY <1>4, <2>2, Leaves
<1> QED
  BY <1>1, <1>2, <1>3, <1>4, LifeFrame

(* The pool implements the leases, for any pods, ports, pools and options,   *)
(* whatever fails and restarts and whichever threads interleave: it creates  *)
(* ports, gives a free one that is alive to a pod without one, and deletes   *)
(* only free ones.                                                           *)
THEOREM Leased ==
    ASSUME "event_during_sync" \notin Races, "request_during_net_delete" \notin Races
    PROVE  Spec => ImplementsLease
<1>1. Init => Lease!Init
  BY ConstantsAssumption DEF Init, Lease!Init, Holders
<1>2. TypeOK /\ OnePlace /\ DeletedUnused /\ [Next]_vars => [Lease!Next]_(Lease!lease)
  <2>1. UNCHANGED vars => UNCHANGED Lease!lease
    BY DEF vars, coreVars, k8sVars, neutronVars, Lease!lease, Holders
  <2> QED
    BY <2>1, LeaseStep
<1> QED
  BY <1>1, <1>2, Types, Placed, Used, PTL DEF Spec, ImplementsLease, Lease!Spec

-----------------------------------------------------------------------------
(* The security groups of the ports *)

(* Which steps change the groups of ports in Neutron. *)
LEMMA GroupsFrame ==
    ASSUME Next
    PROVE  \/ \E c \in Pods : PortUpdated(c)
           \/ \E j \in Jobs : PortsCreated(j)
           \/ \E k \in Pools : RemoveSGPort(k)
           \/ PolicyUpdateEnd
           \/ UNCHANGED portSG
<1>1. ASSUME NEW c \in Pods, CreatePod(c) \/ RemovePod(c) \/ PodStep(c), ~PortUpdated(c)
      PROVE  UNCHANGED portSG
  BY <1>1 DEF CreatePod, RemovePod, PodStep, HandleDeleted, NextTry, RequestExact,
              RequestRefused, RequestOther, PortUpdateFails, Annotate, AnnotateFails,
              neutronVars
<1>2. ASSUME NEW j \in Jobs, PopulateStep(j), ~PortsCreated(j) PROVE UNCHANGED portSG
  BY <1>2 DEF PopulateStep, PopulateStart, PortsRefused, PopulateFinish,
              PopulateFails, neutronVars
<1>3. ASSUME RecycleStep PROVE UNCHANGED portSG
  BY <1>3 DEF RecycleStep, RecycleBegin, RecycleFails, RecyclePort, DeletePort,
              DeletePortFails, RecycleEnd, coreVars, neutronVars
<1>4. ASSUME NetDeleteStep \/ \E n \in Nets : NetDeleteStart(n)
      PROVE  UNCHANGED portSG
  BY <1>4 DEF NetDeleteStep, NetDeleteStart, NetDeletePools, NetDeletePool, NetDeletePort,
              NetDeletePortFails, NetClearPool, NetDeleteEnd, coreVars, neutronVars
<1>5. ASSUME RemoveSGStep \/ \E sg \in SGs, n \in Nets : RemoveSGStart(sg, n),
             ~\E k \in Pools : RemoveSGPort(k)
      PROVE  UNCHANGED portSG
  BY <1>5 DEF RemoveSGStep, RemoveSGStart, RemoveSGPool, RemoveSGGroup,
              RemoveSGPortFails, RemoveSGGroupDone, RemoveSGPoolDone, RemoveSGEnd,
              coreVars, neutronVars
<1>6. ASSUME \/ \E k \in Pools : Tick(k)
             \/ \E c \in Pods, g \in Groups : PolicyUpdate(c, g)
             \/ SyncStep \/ Restart
      PROVE  UNCHANGED portSG
  BY <1>6 DEF Tick, PolicyUpdate, SyncStep, SyncReset, SyncListPods, SyncListPorts,
              RecoverPort, SyncDone, Restart, coreVars, neutronVars
<1> QED
  BY <1>1, <1>2, <1>3, <1>4, <1>5, <1>6 DEF Next, Jobs

(* Which steps concern the policy handlers. *)
LEMMA PolicyFrame ==
    ASSUME Next
    PROVE  \/ \E c \in Pods, g \in Groups : PolicyUpdate(c, g)
           \/ PolicyUpdateEnd \/ Restart
           \/ UNCHANGED polJob
<1>1. ASSUME NEW c \in Pods, CreatePod(c) \/ RemovePod(c) \/ PodStep(c)
      PROVE  UNCHANGED polJob
  BY <1>1 DEF CreatePod, RemovePod, PodStep, HandleDeleted, NextTry, RequestExact,
              RequestRefused, RequestOther, PortUpdated, PortUpdateFails, Annotate,
              AnnotateFails, jobVars, policyVars
<1>2. ASSUME NEW j \in Jobs, PopulateStep(j) PROVE UNCHANGED polJob
  BY <1>2 DEF PopulateStep, PopulateStart, PortsCreated, PortsRefused, PopulateFinish,
              PopulateFails, jobVars, policyVars
<1>3. ASSUME RecycleStep PROVE UNCHANGED polJob
  BY <1>3 DEF RecycleStep, RecycleBegin, RecycleFails, RecyclePort, DeletePort,
              DeletePortFails, RecycleEnd, policyVars
<1>4. ASSUME NetDeleteStep \/ \E n \in Nets : NetDeleteStart(n)
      PROVE  UNCHANGED polJob
  BY <1>4 DEF NetDeleteStep, NetDeleteStart, NetDeletePools, NetDeletePool,
              NetDeletePort, NetDeletePortFails, NetClearPool, NetDeleteEnd, policyVars
<1>5. ASSUME RemoveSGStep \/ \E sg \in SGs, n \in Nets : RemoveSGStart(sg, n)
      PROVE  UNCHANGED polJob
  BY <1>5 DEF RemoveSGStep, RemoveSGStart, RemoveSGPool, RemoveSGGroup, RemoveSGPort,
              RemoveSGPortFails, RemoveSGGroupDone, RemoveSGPoolDone, RemoveSGEnd
<1>6. ASSUME SyncStep \/ \E k \in Pools : Tick(k) PROVE UNCHANGED polJob
  BY <1>6 DEF SyncStep, SyncReset, SyncListPods, SyncListPorts, RecoverPort, SyncDone,
              Tick, jobVars, policyVars
<1> QED
  BY <1>1, <1>2, <1>3, <1>4, <1>5, <1>6 DEF Next, Jobs

(* A network policy's pod stays while its port is updated. *)
LEMMA PolicyPodStep ==
    ASSUME TypeOK, PodsConsistent, PolicyPod, Next, "late_policy_update" \notin Races
    PROVE  PolicyPod'
<1> USE DEF PolicyPod
<1>1. ASSUME NEW c \in Pods, NEW g \in Groups, PolicyUpdate(c, g) PROVE PolicyPod'
  BY <1>1 DEF PolicyUpdate, coreVars, k8sVars
<1>2. CASE PolicyUpdateEnd \/ Restart
  BY <1>2 DEF PolicyUpdateEnd, Restart
<1>3. ASSUME UNCHANGED polJob, UNCHANGED k8sVars PROVE PolicyPod'
  BY <1>3 DEF k8sVars
<1>4. ASSUME UNCHANGED polJob, NEW c \in Pods, CreatePod(c) \/ RemovePod(c)
      PROVE PolicyPod'
  BY <1>4 DEF CreatePod, RemovePod
<1>5. ASSUME UNCHANGED polJob, NEW c \in Pods, PodStep(c)
      PROVE PolicyPod'
  <2>1. CASE HandleDeleted(c)
    BY <1>5, <2>1 DEF HandleDeleted, TypeOK, PodTypes
  <2>2. CASE ~HandleDeleted(c)
    <3>1. /\ c \notin annotated /\ annotated \subseteq annotated' /\ removed' = removed
          /\ \A d \in Pods \ {c} : held'[d] = held[d]
      BY <1>5, <2>2
         DEF PodStep, NextTry, RequestExact, RequestRefused, RequestOther, PortUpdated,
             PortUpdateFails, Annotate, AnnotateFails, HandOut, PodsConsistent, TypeOK,
             PodTypes
    <3> QED
      BY <1>5, <3>1 DEF TypeOK, PodTypes
  <2> QED
    BY <2>1, <2>2
<1> QED
  BY <1>1, <1>2, <1>3, <1>4, <1>5, PodsFrame, PolicyFrame

(* A step after which a port is only where it was, or has the groups that it *)
(* is under.                                                                 *)
LEMMA GroupsKept ==
    ASSUME GroupsRight,
           \A p \in Ports, g \in Groups :
              Under(p, g)' => \/ Under(p, g) /\ portSG'[p] = portSG[p]
                              \/ portSG'[p] = g
    PROVE  GroupsRight'
BY DEF GroupsRight

(* NoGroup is no tuple of groups. *)
LEMMA NoGroupIsNone == NoGroup \notin Groups
BY ConstantsAssumption DEF NoGroup, Groups

(* Ports that leave lists, and pods that are given none. *)
LEMMA LosingUnder ==
    ASSUME TypeOK, Losing,
           \A c \in Pods : pc'[c] = "annotating" /\ held'[c] # NoPort =>
                              pc[c] = "annotating" /\ held'[c] = held[c],
           recycler'.todo \subseteq recycler.todo,
           \A p \in recycler'.todo : recycler'.seen[p] = recycler.seen[p],
           NEW p \in Ports, NEW g \in Groups, Under(p, g)'
    PROVE  Under(p, g)
<1>1. g # NoGroup /\ g \in AllGroups /\ p # NoPort
  BY NoGroupIsNone, GroupTypes, ConstantsAssumption
<1>2. CASE \E k \in Pools : p \in ToSet(avail'[k][g]) \/ p \in ToSet(created'[<<k, g>>])
  BY <1>1, <1>2, ShortLists DEF Losing, Under, Jobs
<1>3. CASE found'[p] = g
  BY <1>1, <1>3 DEF Losing, Under
<1>4. CASE p \in recycler'.todo /\ recycler'.seen[p] = g
  BY <1>4 DEF Under
<1>5. CASE \E c \in Pods : pc'[c] = "annotating" /\ held'[c] = p /\ PodSGs[c] = g
  BY <1>1, <1>5 DEF Under
<1> QED
  BY <1>2, <1>3, <1>4, <1>5 DEF Under

(* The requests take a port from a list: of its groups, or to change them.   *)
LEMMA RequestsUnder ==
    ASSUME TypeOK, PodsConsistent, NEW c \in Pods,
           RequestExact(c) \/ \E g \in AllGroups : RequestOther(c, g),
           NEW p \in Ports, NEW g \in Groups, Under(p, g)'
    PROVE  Under(p, g)
<1> DEFINE k == PodPool[c]
<1>1. UNCHANGED <<created, found, recycler>> /\ k \in Pools
  BY GroupTypes DEF RequestExact, RequestOther, popVars, syncVars, jobVars, recycleVars
<1>2. PICK h \in AllGroups :
         /\ avail[k][h] # <<>>
         /\ avail' = [avail EXCEPT ![k][h] = Front(avail[k][h])]
         /\ \/ pc'[c] # "annotating"
            \/ h = PodSGs[c] /\ held'[c] \in {Last(avail[k][h]), NoPort}
         /\ \A d \in Pods \ {c} : pc'[d] = pc[d] /\ held'[d] = held[d]
  <2>1. CASE RequestExact(c)
    <3>1. PodSGs[c] \in AllGroups
      BY GroupTypes
    <3> QED
      BY <2>1, <3>1 DEF RequestExact, HandOut, TypeOK, PodTypes
  <2>2. CASE \E h \in AllGroups : RequestOther(c, h)
    BY <2>2 DEF RequestOther, OtherGroups, TypeOK, PodTypes
  <2> QED
    BY <2>1, <2>2
<1> HIDE DEF k
<1>3. avail[k][h] \in Seq(Ports)
  BY <1>1 DEF TypeOK, PoolTypes
<1>4. /\ ToSet(Front(avail[k][h])) \subseteq ToSet(avail[k][h])
      /\ Last(avail[k][h]) \in ToSet(avail[k][h])
  BY <1>2, <1>3 DEF Front, Last, ToSet
<1>5. \A l \in Pools : ToSet(avail'[l][g]) \subseteq ToSet(avail[l][g])
  <2>1. \A l \in Pools :
           avail'[l][g] = IF l = k /\ g = h THEN Front(avail[k][h]) ELSE avail[l][g]
    BY <1>2, GroupTypes DEF TypeOK, PoolTypes
  <2> QED
    BY <1>4, <2>1
<1>6. ASSUME NEW d \in Pods, pc'[d] = "annotating", held'[d] = p, PodSGs[d] = g
      PROVE  Under(p, g)
  <2>1. CASE d = c
    <3>1. h = g /\ p = Last(avail[k][h])
      BY <1>2, <1>6, <2>1, ConstantsAssumption
    <3> QED
      BY <1>1, <1>4, <3>1 DEF Under
  <2>2. CASE d # c
    BY <1>2, <1>6, <2>2 DEF Under
  <2> QED
    BY <2>1, <2>2
<1> QED
  BY <1>1, <1>5, <1>6 DEF Under

(* Ports are listed under groups that they were under already.               *)
LEMMA ListingUnder ==
    ASSUME TypeOK, NEW k \in Pools, NEW h \in AllGroups, NEW s \in Seq(Ports),
           Listing(k, h, s),
           UNCHANGED <<held, pc>>, recycler'.todo \subseteq recycler.todo,
           \A p \in recycler'.todo : recycler'.seen[p] = recycler.seen[p],
           \A j \in Jobs : created'[j] \in {created[j], <<>>},
           \A p \in Ports : found'[p] \in {found[p], NoGroup},
           NEW p \in Ports, NEW g \in Groups, Under(p, g)'
    PROVE  Under(p, g) \/ (g = h /\ p \in ToSet(s))
<1>1. g # NoGroup
  BY NoGroupIsNone
<1>2. \A l \in Pools :
         avail'[l][g] = IF l = k /\ g = h THEN avail[k][h] \o s ELSE avail[l][g]
  BY GroupTypes DEF Listing, TypeOK, PoolTypes
<1>3. ToSet(avail[k][h] \o s) \subseteq ToSet(avail[k][h]) \cup ToSet(s)
  <2>1. avail[k][h] \in Seq(Ports)
    BY DEF TypeOK, PoolTypes
  <2> QED
    BY <2>1 DEF ToSet
<1>4. ASSUME NEW l \in Pools, p \in ToSet(avail'[l][g])
      PROVE  Under(p, g) \/ (g = h /\ p \in ToSet(s))
  BY <1>2, <1>3, <1>4 DEF Under
<1>5. ASSUME NEW l \in Pools, p \in ToSet(created'[<<l, g>>]) PROVE Under(p, g)
  <2>1. created'[<<l, g>>] = created[<<l, g>>]
    BY <1>5, ShortLists DEF Jobs
  <2> QED
    BY <1>5, <2>1 DEF Under
<1>6. found'[p] = g => Under(p, g)
  BY <1>1 DEF Under
<1>7. p \in recycler'.todo /\ recycler'.seen[p] = g => Under(p, g)
  BY DEF Under
<1>8. (\E c \in Pods : pc'[c] = "annotating" /\ held'[c] = p /\ PodSGs[c] = g) => Under(p, g)
  BY DEF Under
<1> QED
  BY <1>4, <1>5, <1>6, <1>7, <1>8 DEF Under

(* The steps that list ports.                                                *)
LEMMA ListingsUnder ==
    ASSUME TypeOK, OnePlace,
           \/ \E j \in Jobs : PopulateFinish(j)
           \/ \E q \in Ports : RecyclePort(q) \/ RecoverPort(q),
           NEW p \in Ports, NEW g \in Groups, Under(p, g)'
    PROVE  Under(p, g)
<1>1. ASSUME NEW j \in Jobs, PopulateFinish(j) PROVE Under(p, g)
  <2>1. /\ UNCHANGED <<held, pc, recycler, found>>
        /\ \A i \in Jobs : created'[i] \in {created[i], <<>>}
    BY <1>1 DEF PopulateFinish, k8sVars, syncVars, jobVars, recycleVars, TypeOK,
                PopulateTypes, Jobs
  <2>2. /\ j[1] \in Pools /\ j[2] \in AllGroups /\ created[j] \in Seq(Ports)
        /\ Listing(j[1], j[2], created[j]) /\ j = <<j[1], j[2]>>
    BY <1>1 DEF PopulateFinish, Jobs, AllGroups, TypeOK, PopulateTypes
  <2>3. g = j[2] /\ p \in ToSet(created[j]) => Under(p, g)
    BY <2>2 DEF Under
  <2> QED
    BY <2>1, <2>2, <2>3, ListingUnder
<1>2. ASSUME NEW q \in Ports, RecyclePort(q) PROVE Under(p, g)
  <2>1. /\ UNCHANGED <<held, pc, created, found>>
        /\ recycler'.todo \subseteq recycler.todo
        /\ \A r \in recycler'.todo : recycler'.seen[r] = recycler.seen[r]
    BY <1>2 DEF RecyclePort, Processed, k8sVars, syncVars, popVars, TypeOK, RecycleTypes
  <2>2. recycler.seen[q] \in AllGroups /\ PoolOf[q] \in Pools /\ <<q>> \in Seq(Ports)
    BY GroupTypes DEF TypeOK, RecycleTypes
  <2>3. q \in recycler.todo /\ Listing(PoolOf[q], recycler.seen[q], <<q>>)
    BY <1>2 DEF RecyclePort
  <2>4. g = recycler.seen[q] /\ p \in ToSet(<<q>>) => Under(p, g)
    BY <2>3, ShortLists DEF Under
  <2> QED
    BY <2>1, <2>2, <2>3, <2>4, ListingUnder
<1>3. ASSUME NEW q \in Ports, RecoverPort(q) PROVE Under(p, g)
  <2>1. /\ UNCHANGED <<held, pc, created, recycler>>
        /\ \A r \in Ports : found'[r] \in {found[r], NoGroup}
    BY <1>3 DEF RecoverPort, k8sVars, popVars, jobVars, recycleVars, TypeOK, SyncTypes
  <2>2. found[q] \in AllGroups /\ PoolOf[q] \in Pools /\ <<q>> \in Seq(Ports)
    BY GroupTypes DEF TypeOK, SyncTypes
  <2>3. Listing(PoolOf[q], found[q], <<q>>)
    BY <1>3 DEF RecoverPort
  <2>4. g = found[q] /\ p \in ToSet(<<q>>) => Under(p, g)
    BY ShortLists DEF Under
  <2> QED
    BY <2>1, <2>2, <2>3, <2>4, ListingUnder
<1> QED
  BY <1>1, <1>2, <1>3

(* remove_sg_from_pools takes a list.                                        *)
LEMMA RemoveSGGroupUnder ==
    ASSUME TypeOK, NEW k \in Pools, NEW h \in AllGroups, RemoveSGGroup(k, h),
           NEW p \in Ports, NEW g \in Groups, Under(p, g)'
    PROVE  Under(p, g)
<1>1. UNCHANGED <<held, pc, created, found, recycler>>
  BY DEF RemoveSGGroup, k8sVars, popVars, syncVars, recycleVars
<1>2. \A l \in Pools : avail'[l][g] \in {avail[l][g], <<>>}
  <2>1. CASE avail' = [avail EXCEPT ![k][h] = <<>>]
    BY <2>1, GroupTypes DEF TypeOK, PoolTypes
  <2>2. CASE avail' = avail
    BY <2>2
  <2> QED
    BY <2>1, <2>2 DEF RemoveSGGroup
<1> QED
  BY <1>1, <1>2, ShortLists DEF Under

(* A port that a pod has, and that is not yet handed out, is under nothing;  *)
(* so is one that is being moved.                                            *)
LEMMA NotUnder ==
    ASSUME OnePlace, NEW p \in Ports, NEW g \in Groups, Under(p, g)
    PROVE  /\ ~At(p, Moving)
           /\ \A c \in Pods : held[c] = p => pc[c] = "annotating" /\ PodSGs[c] = g
<1> DEFINE Where(x) ==
             \/ \E k \in Pools : x = ListPlace(k, g) \/ x = JobPlace(<<k, g>>)
             \/ x = ToRecover \/ x = Recyclable
             \/ \E c \in Pods : x = PodPlace(c) /\ pc[c] = "annotating" /\ PodSGs[c] = g
<1>1. PICK x \in Places : Where(x) /\ At(p, x)
  <2>1. CASE \E k \in Pools : p \in ToSet(avail[k][g])
    BY <2>1, PlacesArePlaces, GroupTypes DEF At
  <2>2. CASE \E k \in Pools : p \in ToSet(created[<<k, g>>])
    BY <2>2, PlacesArePlaces DEF At, Jobs
  <2>3. CASE found[p] = g
    BY <2>3, PlacesArePlaces, NoGroupIsNone DEF At
  <2>4. CASE p \in recycler.todo
    BY <2>4, PlacesArePlaces DEF At, OnePlace, Recycling
  <2>5. CASE \E c \in Pods : pc[c] = "annotating" /\ held[c] = p /\ PodSGs[c] = g
    BY <2>5, PlacesArePlaces DEF At
  <2> QED
    BY <2>1, <2>2, <2>3, <2>4, <2>5 DEF Under
<1>2. ~At(p, Moving)
  <2>1. At(p, Moving) => x = Moving
    BY <1>1, OnlyThere, PlacesArePlaces
  <2> QED
    BY <1>1, <2>1, PlacesDiffer
<1>3. ASSUME NEW c \in Pods, held[c] = p PROVE pc[c] = "annotating" /\ PodSGs[c] = g
  <2>1. At(p, PodPlace(c)) /\ x = PodPlace(c)
    BY <1>1, <1>3, OnlyThere, PlacesArePlaces DEF At
  <2> QED
    BY <1>1, <2>1, PlacesDiffer
<1> QED
  BY <1>2, <1>3

(* The steps that leave the groups of ports alone.                           *)
LEMMA UnderStep ==
    ASSUME TypeOK, OnePlace, OnePool, Next, UNCHANGED portSG
    PROVE  \A p \in Ports, g \in Groups : Under(p, g)' => Under(p, g) \/ portSG[p] = g
<1> DEFINE Quiet(a, b) == /\ b.todo \subseteq a.todo
                          /\ \A p \in b.todo : b.seen[p] = a.seen[p]
           Handing == \A c \in Pods : pc'[c] = "annotating" /\ held'[c] # NoPort =>
                              pc[c] = "annotating" /\ held'[c] = held[c]
           Goal == \A p \in Ports, g \in Groups : Under(p, g)' => Under(p, g) \/ portSG[p] = g
<1> USE DEF OnePlace
<1>1. ASSUME Losing, Handing, Quiet(recycler, recycler') PROVE Goal
  BY <1>1, LosingUnder
<1>2. ASSUME UNCHANGED k8sVars PROVE Handing
  BY <1>2 DEF k8sVars
<1>3. ASSUME recycler' = recycler \/ Unlocked(recycler') PROVE Quiet(recycler, recycler')
  BY <1>3 DEF Unlocked
<1>4. ASSUME NEW c \in Pods, CreatePod(c) \/ RemovePod(c) \/ PodStep(c)
      PROVE  Goal
  <2>1. recycler' = recycler
    BY <1>4, RecyclerFrame
       DEF CreatePod, RemovePod, PodStep, HandleDeleted, NextTry, RequestExact,
           RequestRefused, RequestOther, PortUpdated, PortUpdateFails, Annotate,
           AnnotateFails, jobVars, recycleVars
  <2>2. CASE RequestExact(c) \/ \E g \in AllGroups : RequestOther(c, g)
    BY <2>2, RequestsUnder
  <2>3. CASE PortUpdated(c)
    <3>1. held[c] \in Ports /\ portSG[held[c]] = PodSGs[c]
      BY <2>3 DEF PortUpdated, PodsConsistent, TypeOK, PodTypes, NeutronTypes
    <3>2. /\ UNCHANGED <<avail, created, found, recycler>>
          /\ \A d \in Pods \ {c} : pc'[d] = pc[d] /\ held'[d] = held[d]
          /\ held'[c] \in {held[c], NoPort}
      BY <2>1, <2>3 DEF PortUpdated, HandOut, TypeOK, PodTypes, poolVars, syncVars
    <3>3. ASSUME NEW p \in Ports, NEW g \in Groups, NEW d \in Pods,
                 pc'[d] = "annotating", held'[d] = p, PodSGs[d] = g
          PROVE  Under(p, g) \/ portSG[p] = g
      <4>1. CASE d = c
        BY <3>1, <3>2, <3>3, <4>1, ConstantsAssumption
      <4>2. CASE d # c
        BY <3>2, <3>3, <4>2 DEF Under
      <4> QED
        BY <4>1, <4>2
    <3> QED
      BY <3>2, <3>3 DEF Under
  <2>4. CASE ~PortUpdated(c) /\ ~RequestExact(c) /\ ~\E g \in AllGroups : RequestOther(c, g)
    <3>1. Handing
      BY <1>4, <2>4
         DEF CreatePod, RemovePod, PodStep, HandleDeleted, NextTry, RequestRefused,
             PortUpdateFails, Annotate, AnnotateFails, TypeOK, PodTypes
    <3>2. Losing
      BY <1>4, <2>4, PodsLose DEF PodStep
    <3> QED
      BY <1>1, <1>3, <2>1, <3>1, <3>2
  <2> QED
    BY <2>2, <2>3, <2>4
<1>5. ASSUME NEW j \in Jobs, PopulateStep(j) PROVE Goal
  <2>1. recycler' = recycler /\ UNCHANGED k8sVars
    BY <1>5 DEF PopulateStep, PopulateStart, PortsCreated, PortsRefused, PopulateFinish,
                PopulateFails, jobVars, recycleVars
  <2>2. CASE PopulateFinish(j)
    BY <2>2, ListingsUnder
  <2>3. CASE PortsCreated(j)
    <3>1. PICK s \in Injection(1..wanted[j], FreshPorts(j[1])) :
             /\ created' = [created EXCEPT ![j] = s]
             /\ portSG' = [p \in Ports |-> IF p \in ToSet(s) THEN j[2] ELSE portSG[p]]
      BY <2>3 DEF PortsCreated
    <3>2. \A p \in ToSet(s) \cap Ports : portSG[p] = j[2]
      BY <3>1
    <3>3. ASSUME NEW k \in Pools, NEW g \in Groups, <<k, g>> # j
          PROVE  created'[<<k, g>>] = created[<<k, g>>]
      BY <3>1, <3>3 DEF TypeOK, PopulateTypes
    <3>4. created'[j] = s /\ \E k \in Pools : j = <<k, j[2]>>
      BY <3>1 DEF TypeOK, PopulateTypes, Jobs
    <3>5. UNCHANGED <<avail, found, recycler, pc, held>>
      BY <2>1, <2>3 DEF PortsCreated, poolVars, syncVars, k8sVars
    <3>6. ASSUME NEW p \in Ports, NEW g \in Groups, NEW k \in Pools,
                 p \in ToSet(created'[<<k, g>>])
          PROVE  Under(p, g) \/ portSG[p] = g
      <4>1. CASE <<k, g>> = j
        BY <3>2, <3>4, <3>6, <4>1
      <4>2. CASE <<k, g>> # j
        BY <3>3, <3>6, <4>2 DEF Under
      <4> QED
        BY <4>1, <4>2
    <3> QED
      BY <3>5, <3>6 DEF Under
  <2>4. CASE ~PopulateFinish(j) /\ ~PortsCreated(j)
    <3>1. Losing
      BY <1>5, <2>4, JobsLose DEF PopulateStep
    <3> QED
      BY <1>1, <1>2, <1>3, <2>1, <3>1
  <2> QED
    BY <2>2, <2>3, <2>4
<1>6. ASSUME RecycleStep PROVE Goal
  <2>1. UNCHANGED k8sVars
    BY <1>6 DEF RecycleStep, RecycleBegin, RecycleFails, RecyclePort, DeletePort,
                DeletePortFails, RecycleEnd, coreVars
  <2>2. CASE \E p \in Ports : RecyclePort(p)
    BY <2>2, ListingsUnder
  <2>3. ASSUME NEW by, RecycleBegin(by) PROVE Goal
    <3>1. /\ UNCHANGED <<avail, created, found, pc, held>>
          /\ \A p \in Ports : recycler'.seen[p] \in {portSG[p], NoGroup}
      BY <2>3 DEF RecycleBegin, coreVars, k8sVars, poolVars, popVars, syncVars
    <3> QED
      BY <3>1, NoGroupIsNone DEF Under
  <2>4. CASE ~(\E p \in Ports : RecyclePort(p)) /\ ~\E by : RecycleBegin(by)
    <3>1. Quiet(recycler, recycler')
      <4>1. ASSUME NEW p \in Ports, recycler' = Processed(p)
            PROVE  Quiet(recycler, recycler')
        BY <4>1 DEF Processed, TypeOK, RecycleTypes
      <4>2. \/ \E p \in Ports : recycler' = Processed(p)
            \/ recycler' = recycler \/ Unlocked(recycler')
        BY <1>6, <2>4
           DEF RecycleStep, RecycleFails, DeletePort, DeletePortFails, RecycleEnd
      <4> QED
        BY <1>3, <4>1, <4>2
    <3>2. Losing
      BY <1>6, <2>4, JobsLose DEF RecycleStep
    <3> QED
      BY <1>1, <1>2, <2>1, <3>1, <3>2
  <2> QED
    BY <2>2, <2>3, <2>4
<1>7. ASSUME NetDeleteStep \/ \E n \in Nets : NetDeleteStart(n) PROVE Goal
  <2>1. recycler' = recycler /\ UNCHANGED k8sVars
    BY <1>7 DEF NetDeleteStep, NetDeleteStart, NetDeletePools, NetDeletePool,
                NetDeletePort, NetDeletePortFails, NetClearPool, NetDeleteEnd,
                recycleVars, coreVars
  <2> QED
    BY <1>1, <1>2, <1>3, <1>7, <2>1, NetLoses
<1>8. ASSUME RemoveSGStep \/ \E sg \in SGs, n \in Nets : RemoveSGStart(sg, n) PROVE Goal
  <2>1. recycler' = recycler /\ UNCHANGED k8sVars
    BY <1>8 DEF RemoveSGStep, RemoveSGStart, RemoveSGPool, RemoveSGGroup,
                RemoveSGPort, RemoveSGPortFails, RemoveSGGroupDone,
                RemoveSGPoolDone, RemoveSGEnd, recycleVars, coreVars
  <2>2. CASE \E k \in Pools, g \in AllGroups : RemoveSGGroup(k, g)
    BY <2>2, RemoveSGGroupUnder
  <2>3. ASSUME NEW k \in Pools, RemoveSGPort(k) PROVE Goal
    <3> DEFINE q == Head(sgJob.ports)
    <3>1. q \in Ports /\ <<q>> \in Seq(Ports) /\ {} \in AllGroups
      BY <2>3, GroupTypes DEF RemoveSGPort, TypeOK, PolicyTypes
    <3>2. portSG[q] = {}
      BY <2>3, <3>1 DEF RemoveSGPort, TypeOK, NeutronTypes
    <3>3. Listing(k, {}, <<q>>) /\ UNCHANGED <<created, found, recycler, pc, held>>
      BY <2>1, <2>3 DEF RemoveSGPort, popVars, syncVars, k8sVars
    <3> HIDE DEF q
    <3>4. \A p \in Ports, g \in Groups :
             Under(p, g)' => Under(p, g) \/ (g = {} /\ p \in ToSet(<<q>>))
      BY <3>1, <3>3, ListingUnder
    <3> QED
      BY <3>2, <3>4, ShortLists
  <2>4. CASE ~(\E k \in Pools, g \in AllGroups : RemoveSGGroup(k, g))
             /\ ~\E k \in Pools : RemoveSGPort(k)
    <3>1. Losing
      BY <1>8, <2>4, RemoveSGLoses DEF RemoveSGStep
    <3> QED
      BY <1>1, <1>2, <1>3, <2>1, <3>1
  <2> QED
    BY <2>2, <2>3, <2>4
<1>9. ASSUME SyncStep PROVE Goal
  <2>1. recycler' = recycler /\ UNCHANGED k8sVars
    BY <1>9 DEF SyncStep, SyncReset, SyncListPods, SyncListPorts, RecoverPort, SyncDone,
                jobVars, recycleVars
  <2>2. CASE \E p \in Ports : RecoverPort(p)
    BY <2>2, ListingsUnder
  <2>3. CASE SyncListPorts
    <3>1. /\ UNCHANGED <<avail, created, recycler, pc, held>>
          /\ \A p \in Ports : found'[p] \in {portSG[p], NoGroup}
      BY <2>1, <2>3 DEF SyncListPorts, poolVars, popVars, k8sVars
    <3> QED
      BY <3>1, NoGroupIsNone DEF Under
  <2>4. CASE SyncReset \/ SyncListPods \/ SyncDone
    BY <1>1, <1>2, <1>3, <2>1, <2>4, SyncLoses
  <2> QED
    BY <1>9, <2>2, <2>3, <2>4 DEF SyncStep
<1>10. ASSUME \/ \E k \in Pools : Tick(k)
              \/ \E c \in Pods, g \in Groups : PolicyUpdate(c, g)
              \/ PolicyUpdateEnd
       PROVE  Goal
  <2>1. recycler' = recycler /\ UNCHANGED k8sVars
    BY <1>10 DEF Tick, PolicyUpdate, PolicyUpdateEnd, jobVars, recycleVars, coreVars
  <2>2. Losing
    BY <1>10, JobsLose
  <2> QED
    BY <1>1, <1>2, <1>3, <2>1, <2>2
<1>11. ASSUME Restart PROVE Goal
  <2>1. Handing
    BY <1>11 DEF Restart
  <2>2. Quiet(recycler, recycler')
    BY <1>3, <1>11 DEF Restart
  <2> QED
    BY <1>1, <1>11, <2>1, <2>2, SyncLoses
<1> QED
  BY <1>4, <1>5, <1>6, <1>7, <1>8, <1>9, <1>10, <1>11 DEF Next, Jobs

(* Neutron has created the ports that are under some groups.                 *)
LEMMA UnderBorn ==
    ASSUME OnePlace, NEW p \in Ports, NEW g \in Groups, Under(p, g)
    PROVE  life[p] # "unborn"
<1>1. \E x \in Places : At(p, x)
  <2>1. CASE \E k \in Pools : p \in ToSet(avail[k][g])
    BY <2>1, PlacesArePlaces, GroupTypes DEF At
  <2>2. CASE \E k \in Pools : p \in ToSet(created[<<k, g>>])
    BY <2>2, PlacesArePlaces DEF At, Jobs
  <2>3. CASE found[p] = g \/ p \in recycler.todo
    BY <2>3, PlacesArePlaces, NoGroupIsNone DEF At, OnePlace, Recycling
  <2>4. CASE \E c \in Pods : held[c] = p
    BY <2>4, PlacesArePlaces DEF At
  <2> QED
    BY <2>1, <2>2, <2>3, <2>4 DEF Under
<1> QED
  BY <1>1 DEF OnePlace, PlacedAreBorn, PlacesOf

(* The step of a handler whose port has now the groups its pod asks for.     *)
LEMMA PortUpdatedUnder ==
    ASSUME TypeOK, OnePlace, NEW c \in Pods, PortUpdated(c),
           NEW p \in Ports, NEW g \in Groups, Under(p, g)'
    PROVE  \/ Under(p, g) /\ portSG'[p] = portSG[p]
           \/ portSG'[p] = g
<1>1. /\ UNCHANGED <<avail, created, found, recycler>>
      /\ \A d \in Pods \ {c} : pc'[d] = pc[d] /\ held'[d] = held[d]
      /\ held'[c] \in {held[c], NoPort}
      /\ pc[c] = "updating"
  BY DEF PortUpdated, HandOut, TypeOK, PodTypes, poolVars, syncVars, jobVars, recycleVars
<1>2. held[c] \in Ports /\ PodSGs[c] \in Groups
  BY <1>1, GroupTypes DEF OnePlace, PodsConsistent, TypeOK, PodTypes
<1>3. portSG'[p] = IF p = held[c] THEN PodSGs[c] ELSE portSG[p]
  BY <1>2 DEF PortUpdated, TypeOK, NeutronTypes
<1>4. Under(p, g) => p # held[c]
  BY <1>1, NotUnder
<1>5. CASE Under(p, g)
  BY <1>3, <1>4, <1>5
<1>6. CASE ~Under(p, g)
  <2>1. PICK d \in Pods : pc'[d] = "annotating" /\ held'[d] = p /\ PodSGs[d] = g
    BY <1>1, <1>6 DEF Under
  <2>2. d = c
    BY <1>1, <1>6, <2>1 DEF Under
  <2> QED
    BY <1>1, <1>3, <2>1, <2>2, ConstantsAssumption
<1> QED
  BY <1>5, <1>6

(* New ports have the groups they were asked for.                            *)
LEMMA PortsCreatedUnder ==
    ASSUME TypeOK, OnePlace, NEW j \in Jobs, PortsCreated(j),
           NEW p \in Ports, NEW g \in Groups, Under(p, g)'
    PROVE  \/ Under(p, g) /\ portSG'[p] = portSG[p]
           \/ portSG'[p] = g
<1>1. UNCHANGED <<avail, found, recycler, pc, held>>
  BY DEF PortsCreated, poolVars, syncVars, k8sVars, jobVars, recycleVars
<1>2. PICK s \in Injection(1..wanted[j], FreshPorts(j[1])) :
         /\ created' = [created EXCEPT ![j] = s]
         /\ portSG' = [q \in Ports |-> IF q \in ToSet(s) THEN j[2] ELSE portSG[q]]
  BY DEF PortsCreated
<1>3. \A i \in Jobs : created'[i] = IF i = j THEN s ELSE created[i]
  BY <1>2 DEF TypeOK, PopulateTypes, Jobs
<1>4. portSG'[p] = IF p \in ToSet(s) THEN j[2] ELSE portSG[p]
  BY <1>2
<1>5. Under(p, g) => p \notin ToSet(s)
  <2>1. wanted[j] \in Nat
    BY DEF TypeOK, PopulateTypes, Jobs
  <2>2. ToSet(s) \subseteq FreshPorts(j[1])
    BY <1>2, <2>1, BulkType DEF PortsCreated
  <2>3. p \in ToSet(s) => life[p] = "unborn"
    BY <2>2 DEF FreshPorts
  <2> QED
    BY <2>3, UnderBorn
<1>6. CASE Under(p, g)
  BY <1>4, <1>5, <1>6
<1>7. CASE ~Under(p, g)
  <2>1. PICK k \in Pools : p \in ToSet(created'[<<k, g>>])
    BY <1>1, <1>7 DEF Under
  <2>2. <<k, g>> \in Jobs
    BY DEF Jobs
  <2>3. <<k, g>> = j /\ p \in ToSet(s)
    BY <1>3, <1>7, <2>1, <2>2 DEF Under
  <2>4. j[2] = g
    BY <2>3
  <2> QED
    BY <1>4, <2>3, <2>4
<1> QED
  BY <1>6, <1>7

(* The port that remove_sg_from_pools lists has no groups any more.          *)
LEMMA RemoveSGPortUnder ==
    ASSUME TypeOK, OnePlace, NEW k \in Pools, RemoveSGPort(k),
           NEW p \in Ports, NEW g \in Groups, Under(p, g)'
    PROVE  \/ Under(p, g) /\ portSG'[p] = portSG[p]
           \/ portSG'[p] = g
<1> DEFINE q == Head(sgJob.ports)
<1>1. q \in Ports /\ <<q>> \in Seq(Ports) /\ {} \in AllGroups /\ q \in ToSet(sgJob.ports)
  BY GroupTypes DEF RemoveSGPort, TypeOK, PolicyTypes, ToSet
<1>2. portSG'[p] = IF p = q THEN {} ELSE portSG[p]
  BY <1>1 DEF RemoveSGPort, TypeOK, NeutronTypes
<1>3. Listing(k, {}, <<q>>) /\ UNCHANGED <<created, found, recycler, pc, held>>
  BY DEF RemoveSGPort, popVars, syncVars, k8sVars, recycleVars
<1> HIDE DEF q
<1>4. Under(p, g) \/ (g = {} /\ p \in ToSet(<<q>>))
  BY <1>1, <1>3, ListingUnder
<1>5. Under(p, g) => p # q
  <2>1. At(q, Moving)
    BY <1>1 DEF At
  <2> QED
    BY <2>1, NotUnder
<1> QED
  BY <1>2, <1>4, <1>5, ShortLists

(* A policy's handler changes the groups of a running pod's port.            *)
LEMMA PolicyUpdateUnder ==
    ASSUME TypeOK, OnePlace, PolicyPod, PolicyUpdateEnd,
           NEW p \in Ports, NEW g \in Groups, Under(p, g)'
    PROVE  Under(p, g) /\ portSG'[p] = portSG[p]
<1>1. PICK c \in annotated : polJob.port = held[c]
  BY DEF PolicyUpdateEnd, PolicyPod
<1>2. c \in Pods /\ pc[c] = "running"
  BY <1>1 DEF OnePlace, PodsConsistent, TypeOK, PodTypes
<1>3. Under(p, g)
  BY DEF PolicyUpdateEnd, Under, k8sVars, poolVars, popVars, syncVars, recycleVars
<1>4. p # polJob.port
  BY <1>1, <1>2, <1>3, NotUnder
<1> QED
  BY <1>3, <1>4 DEF PolicyUpdateEnd

(* A step keeps the groups of ports right.                                   *)
LEMMA SGsStep ==
    ASSUME TypeOK, OnePlace, OnePool, SGsRight, Next,
           "late_policy_update" \notin Races
    PROVE  SGsRight'
<1>1. PolicyPod'
  BY PolicyPodStep DEF OnePlace, SGsRight
<1>2. ASSUME NEW p \in Ports, NEW g \in Groups, Under(p, g)'
      PROVE  \/ Under(p, g) /\ portSG'[p] = portSG[p]
             \/ portSG'[p] = g
  <2>1. CASE \E c \in Pods : PortUpdated(c)
    BY <1>2, <2>1, PortUpdatedUnder
  <2>2. CASE \E j \in Jobs : PortsCreated(j)
    BY <1>2, <2>2, PortsCreatedUnder
  <2>3. CASE \E k \in Pools : RemoveSGPort(k)
    BY <1>2, <2>3, RemoveSGPortUnder
  <2>4. CASE PolicyUpdateEnd
    BY <1>2, <2>4, PolicyUpdateUnder DEF SGsRight
  <2>5. CASE UNCHANGED portSG
    BY <1>2, <2>5, UnderStep
  <2> QED
    BY <2>1, <2>2, <2>3, <2>4, <2>5, GroupsFrame
<1> QED
  BY <1>1, <1>2, GroupsKept DEF SGsRight

(* The pods and the ports are as they were.                                  *)
LEMMA SGsSame ==
    ASSUME OnePool, SGsRight, UNCHANGED vars
    PROVE  OnePool' /\ SGsRight'
<1>1. /\ UNCHANGED <<life, portSG, pc, held, annotated, removed, found, avail, created>>
      /\ UNCHANGED <<recycler, sgJob, polJob>>
  BY DEF vars, coreVars, jobVars, k8sVars, neutronVars, syncVars, poolVars, popVars,
         recycleVars, policyVars
<1>2. OnePool' /\ PolicyPod'
  BY <1>1 DEF OnePool, SGsRight, PolicyPod
<1>3. \A p \in Ports, g \in Groups : Under(p, g)' => Under(p, g)
  BY <1>1 DEF Under
<1> QED
  BY <1>1, <1>2, <1>3 DEF SGsRight, GroupsRight

LEMMA InitSGs == ASSUME Init PROVE OnePool /\ SGsRight
<1>1. OnePool /\ PolicyPod
  BY DEF Init, OnePool, NoSGJob, PolicyPod
<1>2. \A p \in Ports, g \in Groups : ~Under(p, g)
  BY NoGroupIsNone, GroupTypes, ShortLists DEF Init, Under, Unlocked
<1> QED
  BY <1>1, <1>2 DEF SGsRight, GroupsRight

(* The vif that request_vif returns is of a port with the groups that the    *)
(* pod asks for (HandedOutWithSGs), whatever lists it has been in.           *)
THEOREM RightGroups ==
    ASSUME "event_during_sync" \notin Races, "late_policy_update" \notin Races
    PROVE  Spec => []HandedOutWithSGs
<1> DEFINE Inv == TypeOK /\ OnePlace /\ OnePool /\ SGsRight
<1>1. Init => OnePool /\ SGsRight
  BY InitSGs
<1>2. TypeOK /\ OnePlace /\ OnePool /\ SGsRight /\ [Next]_vars => OnePool' /\ SGsRight'
  BY OnePoolStep, SGsStep, SGsSame
<1>3. TypeOK /\ OnePlace /\ SGsRight => HandedOutWithSGs
  <2>1. ASSUME TypeOK, OnePlace, SGsRight, NEW c \in Pods, pc[c] = "annotating"
        PROVE  portSG[held[c]] = PodSGs[c]
    <3>1. held[c] \in Ports /\ PodSGs[c] \in Groups
      BY <2>1, GroupTypes DEF OnePlace, PodsConsistent, TypeOK, PodTypes
    <3> QED
      BY <2>1, <3>1 DEF SGsRight, GroupsRight, Under
  <2> QED
    BY <2>1 DEF HandedOutWithSGs
<1>4. Spec => []TypeOK
  BY Types
<1>5. Spec => []OnePlace
  BY Placed
<1> QED
  BY <1>1, <1>2, <1>3, <1>4, <1>5, PTL DEF Spec
-----------------------------------------------------------------------------
(* No port is lost *)

(* Only a restart ends the troubles.                                         *)
LEMMA TroubleFrame ==
    ASSUME Next, ~Restart
    PROVE  (faulty => faulty') /\ deadNets \subseteq deadNets'
<1> USE DEF bounds, CallFails, JobFails, Trouble
<1>1. ASSUME NEW c \in Pods, CreatePod(c) \/ RemovePod(c) \/ PodStep(c)
      PROVE  faulty => faulty'
  BY <1>1 DEF CreatePod, RemovePod, PodStep, HandleDeleted, NextTry, RequestExact,
              RequestRefused, RequestOther, PortUpdated, PortUpdateFails, Annotate,
              AnnotateFails
<1>2. ASSUME NEW j \in Jobs, PopulateStep(j) PROVE faulty => faulty'
  BY <1>2 DEF PopulateStep, PopulateStart, PortsCreated, PortsRefused, PopulateFinish,
              PopulateFails
<1>3. ASSUME RecycleStep PROVE faulty => faulty'
  BY <1>3 DEF RecycleStep, RecycleBegin, RecycleFails, RecyclePort, DeletePort,
              DeletePortFails, RecycleEnd
<1>4. ASSUME NetDeleteStep \/ \E n \in Nets : NetDeleteStart(n)
      PROVE  faulty => faulty'
  BY <1>4 DEF NetDeleteStep, NetDeleteStart, NetDeletePools, NetDeletePool,
              NetDeletePort, NetDeletePortFails, NetClearPool, NetDeleteEnd
<1>5. ASSUME RemoveSGStep \/ \E sg \in SGs, n \in Nets : RemoveSGStart(sg, n)
      PROVE  faulty => faulty'
  BY <1>5 DEF RemoveSGStep, RemoveSGStart, RemoveSGPool, RemoveSGGroup,
              RemoveSGPort, RemoveSGPortFails, RemoveSGGroupDone, RemoveSGPoolDone,
              RemoveSGEnd
<1>6. ASSUME \/ \E k \in Pools : Tick(k)
             \/ \E c \in Pods, g \in Groups : PolicyUpdate(c, g)
             \/ PolicyUpdateEnd \/ SyncStep
      PROVE  faulty => faulty'
  BY <1>6 DEF Tick, PolicyUpdate, PolicyUpdateEnd, SyncStep, SyncReset, SyncListPods,
              SyncListPorts, RecoverPort, SyncDone
<1>7. deadNets \subseteq deadNets'
  BY NetFrame
     DEF NetDeleteStep, NetDeleteStart, NetDeletePools, NetDeletePool, NetDeletePort,
         NetDeletePortFails, NetClearPool, NetDeleteEnd, RecycleFails, DeletePortFails,
         RecycleEnd, netVars
<1> QED
  BY <1>1, <1>2, <1>3, <1>4, <1>5, <1>6, <1>7 DEF Next, Jobs

(* remove_sg_from_pools has a pool while it moves ports.                     *)
LEMMA CurStep ==
    ASSUME TypeOK, Next, sgJob.pc \in {"groups", "ports"} => sgJob.cur # {}
    PROVE  sgJob'.pc \in {"groups", "ports"} => sgJob'.cur # {}
<1>1. ASSUME NEW k \in Pools,
             RemoveSGPool(k) \/ RemoveSGPort(k) \/ RemoveSGGroupDone(k)
      PROVE  sgJob'.cur # {}
  <2>1. k \in sgJob'.cur
    <3>1. CASE RemoveSGPool(k)
      BY <3>1 DEF RemoveSGPool, TypeOK, PolicyTypes
    <3>2. CASE RemoveSGPort(k)
      BY <3>2 DEF RemoveSGPort, TypeOK, PolicyTypes
    <3>3. CASE RemoveSGGroupDone(k)
      BY <3>3 DEF RemoveSGGroupDone, TypeOK, PolicyTypes
    <3> QED
      BY <1>1, <3>1, <3>2, <3>3
  <2> QED
    BY <2>1
<1>2. ASSUME NEW k \in Pools, NEW g \in AllGroups, RemoveSGGroup(k, g)
      PROVE  sgJob'.cur # {} \/ sgJob'.pc = "idle"
  <2>1. CASE sgJob' = NoSGJob
    BY <2>1 DEF NoSGJob
  <2>2. CASE sgJob' # NoSGJob
    <3>1. k \in sgJob.cur
      BY <1>2 DEF RemoveSGGroup
    <3>2. sgJob'.cur = sgJob.cur
      BY <1>2, <2>2 DEF RemoveSGGroup, TypeOK, PolicyTypes
    <3> QED
      BY <3>1, <3>2
  <2> QED
    BY <2>1, <2>2
<1>3. ASSUME \/ \E sg \in SGs, n \in Nets : RemoveSGStart(sg, n)
             \/ RemoveSGPoolDone \/ RemoveSGEnd \/ RemoveSGPortFails \/ Restart
      PROVE  sgJob'.pc \in {"idle", "pools"}
  <2>1. CASE \E sg \in SGs, n \in Nets : RemoveSGStart(sg, n)
    BY <2>1 DEF RemoveSGStart, NoSGJob
  <2>2. CASE RemoveSGPoolDone
    BY <2>2 DEF RemoveSGPoolDone, TypeOK, PolicyTypes
  <2>3. CASE RemoveSGEnd \/ RemoveSGPortFails \/ Restart
    BY <2>3 DEF RemoveSGEnd, RemoveSGPortFails, Restart, NoSGJob
  <2> QED
    BY <1>3, <2>1, <2>2, <2>3
<1> QED
  BY <1>1, <1>2, <1>3, SGFrame DEF RemoveSGStep

(* Until a network is deleted the handler that deletes its ports is idle.    *)
LEMMA NoNetStep ==
    ASSUME TypeOK, OnePlace, OnePool, Triggered, Next, deadNets' = {},
           deadNets = {} => netJob = NoNetJob /\ UsefulAlive
    PROVE  netJob' = NoNetJob /\ UsefulAlive'
<1>1. CASE Restart
  <2>1. netJob' = NoNetJob
    BY <1>1 DEF Restart
  <2>2. UsefulAlive'
    <3>1. CASE deadNets = {}
      <4>1. Losing /\ UNCHANGED life /\ UsefulAlive /\ netJob = NoNetJob
        BY <1>1, <3>1, SyncLoses DEF Restart, neutronVars
      <4> QED
        BY <2>1, <4>1, LosingUse, UsefulKept
    <3>2. CASE deadNets # {}
      BY <1>1, <3>2 DEF Restart
    <3> QED
      BY <3>1, <3>2
  <2> QED
    BY <2>1, <2>2
<1>2. CASE ~Restart
  <2>1. deadNets = {} /\ netJob = NoNetJob /\ UsefulAlive
    BY <1>2, TroubleFrame
  <2>2. netJob.pc = "idle" /\ netJob.ports = {} /\ netJob.net = {} /\ netJob.pools = {}
    BY <2>1 DEF NoNetJob
  <2>3. DeletedUnused
    BY <2>1, <2>2 DEF DeletedUnused, NetsQuiet, Deserting, Deserted
  <2>4. netJob' = NoNetJob
    BY <1>2, <2>1, <2>2, NetFrame
       DEF NetDeleteStep, NetDeleteStart, NetDeletePools, NetDeletePool, NetDeletePort,
           NetDeletePortFails, NetClearPool, NetDeleteEnd, RecycleFails, DeletePortFails,
           CallerFails, RecycleEnd, Triggered, netVars
  <2> QED
    BY <2>3, <2>4, UsefulStep
<1> QED
  BY <1>1, <1>2

(* After a step the driver still has port p, and knows its vif if it is      *)
(* going to look it up.                                                      *)
Keeps(p) ==
    /\ Somewhere(p) /\ life'[p] = "live" => Somewhere(p)'
    /\ LooksUp(p)' => p \in existing'

(* A step that leaves the ports where they are.                              *)
LEMMA KeepsSame ==
    ASSUME VifsKnown, UNCHANGED <<avail, created, held, recyclable, existing>>,
           sgJob'.ports = sgJob.ports,
           \A p \in Ports : found[p] # NoGroup => found'[p] # NoGroup,
           \A c \in Pods : pc'[c] = "updating" => pc[c] = "updating",
           NEW p \in Ports
    PROVE  Keeps(p)
BY DEF Keeps, VifsKnown, Somewhere, LooksUp

(* Those steps.                                                              *)
LEMMA KeepsQuiet ==
    ASSUME TypeOK, OnePool, VifsKnown, NEW p \in Ports,
           \/ \E c \in Pods : CreatePod(c) \/ RemovePod(c) \/ NextTry(c)
                              \/ RequestRefused(c) \/ Annotate(c)
           \/ \E j \in Jobs : PopulateStart(j) \/ PortsRefused(j)
           \/ \E k \in Pools : Tick(k) \/ RemoveSGPool(k) \/ RemoveSGGroupDone(k)
           \/ \E by \in {"timer", "net"} : RecycleBegin(by) \/ RecycleFails(by)
           \/ RecycleEnd \/ RemoveSGPoolDone
           \/ \E c \in Pods, g \in Groups : PolicyUpdate(c, g)
           \/ PolicyUpdateEnd
           \/ SyncReset \/ SyncListPods \/ SyncDone
    PROVE  Keeps(p)
<1> USE DEF coreVars, k8sVars, popVars, poolVars, syncVars, jobVars, policyVars
<1>1. UNCHANGED <<avail, created, held, recyclable, existing, found>>
  BY DEF CreatePod, RemovePod, NextTry, RequestRefused, Annotate, PopulateStart,
         PortsRefused, Tick, RemoveSGPool, RemoveSGGroupDone, RecycleBegin, RecycleFails,
         RecycleEnd, RemoveSGPoolDone, PolicyUpdate, PolicyUpdateEnd, SyncReset,
         SyncListPods, SyncDone
<1>2. sgJob'.ports = sgJob.ports
  BY DEF CreatePod, RemovePod, NextTry, RequestRefused, Annotate, PopulateStart,
         PortsRefused, Tick, RemoveSGPool, RemoveSGGroupDone, RecycleBegin, RecycleFails,
         RecycleEnd, RemoveSGPoolDone, PolicyUpdate, PolicyUpdateEnd, SyncReset,
         SyncListPods, SyncDone, TypeOK, PolicyTypes
<1>3. \A c \in Pods : pc'[c] = "updating" => pc[c] = "updating"
  BY DEF CreatePod, RemovePod, NextTry, RequestRefused, Annotate, PopulateStart,
         PortsRefused, Tick, RemoveSGPool, RemoveSGGroupDone, RecycleBegin, RecycleFails,
         RecycleEnd, RemoveSGPoolDone, PolicyUpdate, PolicyUpdateEnd, SyncReset,
         SyncListPods, SyncDone, TypeOK, PodTypes
<1> QED
  BY <1>1, <1>2, <1>3, KeepsSame

(* A pod's vif is kept or released.                                          *)
LEMMA KeepsHeld ==
    ASSUME TypeOK, PodsConsistent, UsefulAlive, VifsKnown, ~faulty', NEW c \in Pods,
           HandleDeleted(c) \/ PortUpdated(c) \/ PortUpdateFails(c) \/ AnnotateFails(c),
           NEW p \in Ports
    PROVE  Keeps(p)
<1>1. UNCHANGED <<avail, created, found, sgJob>>
  BY DEF HandleDeleted, PortUpdated, PortUpdateFails, AnnotateFails, popVars, poolVars,
         syncVars, jobVars, policyVars
<1>2. /\ recyclable' \in {recyclable, recyclable \cup {held[c]}}
      /\ existing \subseteq existing'
      /\ held[c] \in recyclable' => held[c] \in recyclable \cup existing'
  BY DEF HandleDeleted, PortUpdated, PortUpdateFails, AnnotateFails, Release, poolVars
<1>3. /\ \A d \in Pods \ {c} : pc'[d] = pc[d] /\ held'[d] = held[d]
      /\ pc'[c] # "updating"
  BY DEF HandleDeleted, PortUpdated, PortUpdateFails, AnnotateFails, HandOut, TypeOK,
         PodTypes
<1>4. ASSUME held[c] = p
      PROVE  held'[c] = p \/ p \in recyclable'
  <2>1. CASE HandleDeleted(c)
    BY <1>4, <2>1, ConstantsAssumption DEF HandleDeleted, Release, PodsConsistent
  <2>2. CASE PortUpdated(c)
    <3>1. p \in existing
      BY <1>4, <2>2 DEF PortUpdated, VifsKnown, LooksUp
    <3> QED
      BY <1>4, <2>2, <3>1 DEF PortUpdated, HandOut, TypeOK, PodTypes
  <2>3. CASE PortUpdateFails(c)
    <3>1. life[p] = "live"
      BY <1>4 DEF UsefulAlive, Useful
    <3> QED
      BY <1>4, <2>3, <3>1 DEF PortUpdateFails, CallFails, Trouble
  <2>4. CASE AnnotateFails(c)
    BY <1>4, <2>4 DEF AnnotateFails, Release
  <2> QED
    BY <2>1, <2>2, <2>3, <2>4
<1>5. Somewhere(p) => Somewhere(p)'
  BY <1>1, <1>2, <1>3, <1>4 DEF Somewhere
<1>6. LooksUp(p)' => LooksUp(p) \/ p \in existing'
  BY <1>1, <1>2, <1>3 DEF LooksUp
<1> QED
  BY <1>2, <1>5, <1>6 DEF Keeps, VifsKnown

(* A handler takes a port from a list, to hand it out or to update it.       *)
LEMMA KeepsRequest ==
    ASSUME TypeOK, OnePlace, VifsKnown, NEW c \in Pods,
           RequestExact(c) \/ \E g \in AllGroups : RequestOther(c, g),
           NEW p \in Ports
    PROVE  Keeps(p)
<1> DEFINE k == PodPool[c]
<1>1. /\ UNCHANGED <<created, found, recyclable, existing, sgJob>> /\ k \in Pools
      /\ held[c] = NoPort
  BY GroupTypes DEF RequestExact, RequestOther, popVars, syncVars, jobVars, policyVars,
                    OnePlace, PodsConsistent
<1>2. PICK g \in AllGroups :
         /\ avail[k][g] # <<>>
         /\ avail' = [avail EXCEPT ![k][g] = Front(avail[k][g])]
         /\ held'[c] = Last(avail[k][g]) \/ Last(avail[k][g]) \notin existing
         /\ held'[c] \in {Last(avail[k][g]), NoPort}
         /\ \A d \in Pods \ {c} : pc'[d] = pc[d] /\ held'[d] = held[d]
  <2>1. CASE RequestExact(c)
    <3>1. PodSGs[c] \in AllGroups
      BY GroupTypes
    <3> QED
      BY <2>1, <3>1 DEF RequestExact, HandOut, TypeOK, PodTypes
  <2>2. CASE \E g \in AllGroups : RequestOther(c, g)
    BY <2>2 DEF RequestOther, OtherGroups, TypeOK, PodTypes
  <2> QED
    BY <2>1, <2>2
<1> DEFINE q == Last(avail[k][g])
<1> HIDE DEF k
<1>3. avail[k][g] \in Seq(Ports) /\ IsInjective(avail[k][g])
  BY <1>1 DEF TypeOK, PoolTypes, OnePlace, ListsInjective
<1>4. /\ ToSet(Front(avail[k][g])) \subseteq ToSet(avail[k][g])
      /\ ToSet(avail[k][g]) \subseteq ToSet(Front(avail[k][g])) \cup {q}
      /\ q \in ToSet(avail[k][g])
  BY <1>2, <1>3, PopKeeps
<1>5. \A l \in Pools, h \in AllGroups :
         avail'[l][h] = IF l = k /\ h = g THEN Front(avail[k][g]) ELSE avail[l][h]
  BY <1>2 DEF TypeOK, PoolTypes
<1>6. q \in Ports /\ q \in existing
  BY <1>1, <1>3, <1>4, ToSetType DEF VifsKnown, LooksUp
<1>7. held'[c] = q
  BY <1>2, <1>6
<1> HIDE DEF q
<1>8. ASSUME NEW l \in Pools, NEW h \in AllGroups, p \in ToSet(avail[l][h])
      PROVE  p \in ToSet(avail'[l][h]) \/ held'[c] = p
  BY <1>4, <1>5, <1>7, <1>8
<1>9. ASSUME NEW d \in Pods, held[d] = p PROVE held'[d] = p
  BY <1>1, <1>2, <1>9, ConstantsAssumption
<1>10. Somewhere(p) => Somewhere(p)'
  BY <1>1, <1>8, <1>9 DEF Somewhere
<1>11. ASSUME NEW l \in Pools, NEW h \in AllGroups, p \in ToSet(avail'[l][h])
       PROVE  p \in ToSet(avail[l][h])
  BY <1>4, <1>5, <1>11
<1>12. ASSUME NEW d \in Pods, pc'[d] = "updating", held'[d] = p
       PROVE  LooksUp(p)
  BY <1>1, <1>2, <1>4, <1>7, <1>12 DEF LooksUp
<1>13. LooksUp(p)' => LooksUp(p)
  BY <1>1, <1>11, <1>12 DEF LooksUp
<1> QED
  BY <1>1, <1>10, <1>13 DEF Keeps, VifsKnown

(* The ports of two lists.                                                   *)
LEMMA ConcatSet ==
    ASSUME NEW S, NEW s \in Seq(S), NEW t \in Seq(S)
    PROVE  ToSet(s \o t) = ToSet(s) \cup ToSet(t)
<1>1. /\ DOMAIN s = 1..Len(s) /\ DOMAIN t = 1..Len(t) /\ Len(s) \in Nat /\ Len(t) \in Nat
      /\ DOMAIN (s \o t) = 1..(Len(s) + Len(t))
      /\ \A i \in 1..(Len(s) + Len(t)) :
            (s \o t)[i] = IF i <= Len(s) THEN s[i] ELSE t[i - Len(s)]
  OBVIOUS
<1>2. ASSUME NEW i \in 1..Len(t) PROVE t[i] \in ToSet(s \o t)
  <2>1. Len(s) + i \in 1..(Len(s) + Len(t)) /\ (s \o t)[Len(s) + i] = t[i]
    BY <1>1
  <2> QED
    BY <1>1, <2>1 DEF ToSet
<1>3. ASSUME NEW i \in 1..Len(s) PROVE s[i] \in ToSet(s \o t)
  <2>1. i \in 1..(Len(s) + Len(t)) /\ (s \o t)[i] = s[i]
    BY <1>1
  <2> QED
    BY <1>1, <2>1 DEF ToSet
<1>4. ToSet(s \o t) \subseteq ToSet(s) \cup ToSet(t)
  BY <1>1 DEF ToSet
<1> QED
  BY <1>1, <1>2, <1>3, <1>4 DEF ToSet

(* Ports are listed that the driver knew, or comes to know.                  *)
LEMMA KeepsListing ==
    ASSUME TypeOK, VifsKnown, NEW k \in Pools, NEW g \in AllGroups, NEW s \in Seq(Ports),
           Listing(k, g, s),
           \A p \in ToSet(s) : p \in existing',
           UNCHANGED <<held, pc>>, existing \subseteq existing',
           \A p \in Ports \ ToSet(s) :
              /\ \A j \in Jobs : p \in ToSet(created[j]) => p \in ToSet(created'[j])
              /\ p \in recyclable <=> p \in recyclable'
              /\ p \in ToSet(sgJob.ports) => p \in ToSet(sgJob'.ports)
              /\ found[p] # NoGroup => found'[p] # NoGroup,
           ToSet(sgJob'.ports) \subseteq ToSet(sgJob.ports),
           NEW p \in Ports
    PROVE  Keeps(p)
<1>1. avail[k][g] \in Seq(Ports)
  BY DEF TypeOK, PoolTypes
<1>2. ToSet(avail[k][g] \o s) = ToSet(avail[k][g]) \cup ToSet(s)
  BY <1>1, ConcatSet
<1>3. \A l \in Pools, h \in AllGroups :
         avail'[l][h] = IF l = k /\ h = g THEN avail[k][g] \o s ELSE avail[l][h]
  BY DEF Listing, TypeOK, PoolTypes
<1>4. \A l \in Pools, h \in AllGroups : p \in ToSet(avail[l][h]) => p \in ToSet(avail'[l][h])
  BY <1>2, <1>3
<1>5. p \in ToSet(s) => p \in ToSet(avail'[k][g])
  BY <1>2, <1>3
<1>6. Somewhere(p) => Somewhere(p)'
  BY <1>4, <1>5 DEF Somewhere
<1>7. \A l \in Pools, h \in AllGroups :
         p \in ToSet(avail'[l][h]) => p \in ToSet(avail[l][h]) \/ p \in ToSet(s)
  BY <1>2, <1>3
<1>8. LooksUp(p)' => LooksUp(p) \/ p \in ToSet(s)
  BY <1>7 DEF LooksUp
<1> QED
  BY <1>6, <1>8 DEF Keeps, VifsKnown

(* The steps that list ports.                                                *)
LEMMA KeepsListings ==
    ASSUME TypeOK, OnePlace, VifsKnown,
           \/ \E j \in Jobs : PopulateFinish(j)
           \/ \E q \in Ports : RecyclePort(q) \/ RecoverPort(q)
           \/ \E k \in Pools : RemoveSGPort(k),
           NEW p \in Ports
    PROVE  Keeps(p)
<1>1. ASSUME NEW j \in Jobs, PopulateFinish(j) PROVE Keeps(p)
  <2>1. /\ UNCHANGED <<held, pc, recyclable, sgJob, found>>
        /\ \A i \in Jobs : i # j => created'[i] = created[i]
        /\ existing' = existing \cup ToSet(created[j])
    BY <1>1 DEF PopulateFinish, k8sVars, syncVars, jobVars, policyVars, TypeOK,
                PopulateTypes, Jobs
  <2>2. /\ j[1] \in Pools /\ j[2] \in AllGroups /\ created[j] \in Seq(Ports)
        /\ Listing(j[1], j[2], created[j])
    BY <1>1 DEF PopulateFinish, Jobs, AllGroups, TypeOK, PopulateTypes
  <2>3. \A q \in Ports \ ToSet(created[j]), i \in Jobs :
           q \in ToSet(created[i]) => q \in ToSet(created'[i])
    BY <2>1
  <2> QED
    BY <2>1, <2>2, <2>3, KeepsListing
<1>2. ASSUME NEW q \in Ports, RecyclePort(q) PROVE Keeps(p)
  <2>1. /\ UNCHANGED <<held, pc, created, sgJob, found, existing>>
        /\ recyclable' = recyclable \ {q}
    BY <1>2 DEF RecyclePort, k8sVars, syncVars, popVars, policyVars
  <2>2. recycler.seen[q] \in AllGroups /\ PoolOf[q] \in Pools /\ <<q>> \in Seq(Ports)
    BY GroupTypes DEF TypeOK, RecycleTypes
  <2>3. q \in recyclable /\ Listing(PoolOf[q], recycler.seen[q], <<q>>)
    BY <1>2 DEF RecyclePort, OnePlace, Recycling
  <2>4. ToSet(<<q>>) = {q} /\ q \in existing
    BY <2>3, ShortLists DEF VifsKnown, LooksUp
  <2> QED
    BY <2>1, <2>2, <2>3, <2>4, KeepsListing
<1>3. ASSUME NEW q \in Ports, RecoverPort(q) PROVE Keeps(p)
  <2>1. /\ UNCHANGED <<held, pc, created, sgJob, recyclable>>
        /\ \A r \in Ports : r # q => found'[r] = found[r]
        /\ existing' = existing \cup {q}
    BY <1>3 DEF RecoverPort, k8sVars, popVars, jobVars, policyVars, TypeOK, SyncTypes
  <2>2. found[q] \in AllGroups /\ PoolOf[q] \in Pools /\ <<q>> \in Seq(Ports)
    BY GroupTypes DEF TypeOK, SyncTypes
  <2>3. Listing(PoolOf[q], found[q], <<q>>)
    BY <1>3 DEF RecoverPort
  <2>4. ToSet(<<q>>) = {q}
    BY ShortLists
  <2> QED
    BY <2>1, <2>2, <2>3, <2>4, KeepsListing
<1>4. ASSUME NEW k \in Pools, RemoveSGPort(k) PROVE Keeps(p)
  <2> DEFINE q == Head(sgJob.ports)
  <2>1. sgJob.ports \in Seq(Ports) /\ sgJob.ports # <<>>
    BY <1>4 DEF RemoveSGPort, TypeOK, PolicyTypes
  <2>2. sgJob'.ports = Tail(sgJob.ports)
    BY <1>4 DEF RemoveSGPort, TypeOK, PolicyTypes
  <2>3. /\ ToSet(sgJob'.ports) \subseteq ToSet(sgJob.ports)
        /\ ToSet(sgJob.ports) \subseteq ToSet(sgJob'.ports) \cup {q}
    BY <1>4, <2>1, <2>2, TailKeeps DEF OnePlace, ListsInjective
  <2>4. q \in Ports /\ q \in ToSet(sgJob.ports) /\ <<q>> \in Seq(Ports) /\ {} \in AllGroups
    BY <2>1, GroupTypes DEF ToSet
  <2>5. UNCHANGED <<held, pc, created, found, recyclable, existing>>
    BY <1>4 DEF RemoveSGPort, k8sVars, popVars, syncVars
  <2>6. Listing(k, {}, <<q>>)
    BY <1>4 DEF RemoveSGPort
  <2>7. ToSet(<<q>>) = {q} /\ q \in existing
    BY <2>4, ShortLists DEF VifsKnown, LooksUp
  <2> HIDE DEF q
  <2> QED
    BY <2>3, <2>4, <2>5, <2>6, <2>7, KeepsListing
<1> QED
  BY <1>1, <1>2, <1>3, <1>4

(* remove_sg_from_pools takes a list to move its ports.                      *)
LEMMA KeepsRemoveSGGroup ==
    ASSUME TypeOK, OnePool, VifsKnown, NEW k \in Pools, NEW g \in AllGroups,
           RemoveSGGroup(k, g), NEW p \in Ports
    PROVE  Keeps(p)
<1>1. /\ UNCHANGED <<held, pc, created, found, recyclable, existing>>
      /\ sgJob.ports = <<>>
  BY DEF RemoveSGGroup, k8sVars, popVars, syncVars, OnePool
<1>2. CASE avail' = avail
  <2>1. sgJob'.ports = sgJob.ports \/ (sgJob'.ports = avail[k][g] /\ avail[k][g] = <<>>)
    <3>1. CASE sgJob' = NoSGJob
      BY <1>1, <3>1 DEF NoSGJob
    <3>2. CASE sgJob' = [sgJob EXCEPT !.groups = @ \ {g}]
      BY <3>2 DEF TypeOK, PolicyTypes
    <3>3. CASE /\ sgJob' = [sgJob EXCEPT !.pc = "ports", !.groups = @ \ {g},
                                         !.ports = avail[k][g]]
               /\ avail' = [avail EXCEPT ![k][g] = <<>>]
      BY <1>2, <3>3 DEF TypeOK, PolicyTypes, PoolTypes
    <3> QED
      BY <3>1, <3>2, <3>3 DEF RemoveSGGroup
  <2> QED
    BY <1>1, <1>2, <2>1, KeepsSame
<1>3. CASE avail' # avail
  <2>1. /\ avail' = [avail EXCEPT ![k][g] = <<>>]
        /\ sgJob'.ports = avail[k][g]
    BY <1>3 DEF RemoveSGGroup, TypeOK, PolicyTypes
  <2>2. \A l \in Pools, h \in AllGroups :
           avail'[l][h] = IF l = k /\ h = g THEN <<>> ELSE avail[l][h]
    BY <2>1 DEF TypeOK, PoolTypes
  <2>3. Somewhere(p) => Somewhere(p)'
    BY <1>1, <2>1, <2>2, ShortLists DEF Somewhere
  <2>4. LooksUp(p)' => LooksUp(p)
    BY <1>1, <2>1, <2>2, ShortLists DEF LooksUp
  <2> QED
    BY <1>1, <2>3, <2>4 DEF Keeps, VifsKnown
<1> QED
  BY <1>2, <1>3

(* Neutron creates ports.                                                    *)
LEMMA KeepsCreated ==
    ASSUME TypeOK, VifsKnown, NEW j \in Jobs, PortsCreated(j), NEW p \in Ports
    PROVE  /\ Keeps(p)
           /\ life'[p] = "live" => life[p] = "live" \/ Somewhere(p)'
<1>1. /\ UNCHANGED <<avail, held, pc, recyclable, existing, sgJob, found>>
      /\ created[j] = <<>>
  BY DEF PortsCreated, k8sVars, poolVars, syncVars, jobVars, policyVars
<1>2. PICK s \in Injection(1..wanted[j], FreshPorts(j[1])) :
         /\ created' = [created EXCEPT ![j] = s]
         /\ life' = [q \in Ports |-> IF q \in ToSet(s) THEN "live" ELSE life[q]]
  BY DEF PortsCreated
<1>3. \A i \in Jobs : created'[i] = IF i = j THEN s ELSE created[i]
  BY <1>2 DEF TypeOK, PopulateTypes, Jobs
<1>4. Somewhere(p) => Somewhere(p)'
  BY <1>1, <1>3, ShortLists DEF Somewhere
<1>5. LooksUp(p)' => LooksUp(p)
  BY <1>1 DEF LooksUp
<1>6. p \in ToSet(s) => Somewhere(p)'
  BY <1>3 DEF Somewhere
<1> QED
  BY <1>1, <1>2, <1>4, <1>5, <1>6 DEF Keeps, VifsKnown

(* Recycling deletes a port of a full pool.                                  *)
LEMMA KeepsDeleted ==
    ASSUME TypeOK, OnePlace, VifsKnown, NEW q \in Ports, DeletePort(q), NEW p \in Ports
    PROVE  Keeps(p)
<1>1. /\ UNCHANGED <<avail, held, pc, created, sgJob, found>>
      /\ recyclable' = recyclable \ {q} /\ q \in recyclable
      /\ existing' = existing \ {q}
  BY DEF DeletePort, k8sVars, popVars, syncVars, policyVars, OnePlace, Recycling
<1>2. life'[q] = "deleted"
  BY <1>1 DEF DeletePort, VifsKnown, LooksUp, TypeOK, NeutronTypes
<1>3. ~LooksUp(q)'
  <2>1. \A x \in Places : At(q, x) => x = Recyclable
    BY <1>1, OnlyThere, PlacesArePlaces DEF At
  <2>2. \A k \in Pools, g \in AllGroups : q \notin ToSet(avail[k][g])
    BY <2>1, PlacesArePlaces, PlacesDiffer DEF At
  <2>3. (\A c \in Pods : held[c] # q) /\ q \notin ToSet(sgJob.ports)
    BY <2>1, PlacesArePlaces, PlacesDiffer DEF At
  <2> QED
    BY <1>1, <2>2, <2>3 DEF LooksUp
<1>4. p # q /\ Somewhere(p) => Somewhere(p)'
  BY <1>1 DEF Somewhere
<1>5. LooksUp(p)' => LooksUp(p)
  BY <1>1 DEF LooksUp
<1> QED
  BY <1>1, <1>2, <1>3, <1>4, <1>5 DEF Keeps, VifsKnown

(* remove_sg_from_pools starts, ends, or loses the ports it moves.           *)
LEMMA KeepsRemoveSGEnds ==
    ASSUME TypeOK, OnePool, VifsKnown, UsefulAlive, ~faulty', deadNets = {},
           sgJob.pc \in {"groups", "ports"} => sgJob.cur # {},
           \/ \E sg \in SGs, n \in Nets : RemoveSGStart(sg, n)
           \/ RemoveSGEnd \/ RemoveSGPortFails,
           NEW p \in Ports
    PROVE  Keeps(p)
<1>1. ~RemoveSGPortFails
  <2> SUFFICES ASSUME RemoveSGPortFails PROVE FALSE
    OBVIOUS
  <2>1. /\ sgJob.ports \in Seq(Ports) /\ sgJob.ports # <<>>
        /\ sgJob.cur # {} /\ sgJob.cur \subseteq Pools
    BY DEF RemoveSGPortFails, TypeOK, PolicyTypes
  <2>2. Head(sgJob.ports) \in Ports /\ Head(sgJob.ports) \in ToSet(sgJob.ports)
    BY <2>1 DEF ToSet
  <2>3. life[Head(sgJob.ports)] = "live"
    BY <2>1, <2>2 DEF UsefulAlive, Useful, Deserted
  <2> QED
    BY <2>3 DEF RemoveSGPortFails, JobFails
<1>2. UNCHANGED <<avail, created, held, pc, recyclable, existing, found>>
  BY <1>1 DEF RemoveSGStart, RemoveSGEnd, coreVars, k8sVars, popVars, poolVars, syncVars
<1>3. sgJob'.ports = sgJob.ports
  <2>1. sgJob.ports = <<>>
    BY <1>1 DEF RemoveSGStart, RemoveSGEnd, OnePool
  <2>2. sgJob'.ports = <<>>
    <3>1. CASE \E sg \in SGs, n \in Nets : RemoveSGStart(sg, n)
      BY <3>1 DEF RemoveSGStart, NoSGJob
    <3>2. CASE RemoveSGEnd
      BY <3>2 DEF RemoveSGEnd, NoSGJob
    <3> QED
      BY <1>1, <3>1, <3>2
  <2> QED
    BY <2>1, <2>2
<1> QED
  BY <1>2, <1>3, KeepsSame

(* The recovery lists the ports.                                             *)
LEMMA KeepsSyncListPorts ==
    ASSUME TypeOK, OnePlace, VifsKnown, SyncListPorts, NEW p \in Ports
    PROVE  Keeps(p)
<1>1. UNCHANGED <<avail, created, held, pc, recyclable, existing, sgJob>>
  BY DEF SyncListPorts, k8sVars, popVars, poolVars, jobVars, policyVars
<1>2. \A q \in Ports : found[q] = NoGroup
  BY DEF SyncListPorts, OnePlace, Recovering
<1> QED
  BY <1>1, <1>2, KeepsSame

(* A step without trouble keeps every port.                                  *)
LEMMA KeepsStep ==
    ASSUME TypeOK, OnePlace, OnePool, NothingLost, Next, ~Restart, Untroubled',
           NEW p \in Ports
    PROVE  Keeps(p)
<1>1. Untroubled /\ VifsKnown /\ netJob.pc = "idle" /\ UsefulAlive
  BY TroubleFrame DEF Untroubled, NothingLost, NoNetJob
<1> USE DEF OnePlace
<1>2. ASSUME NEW c \in Pods, CreatePod(c) \/ RemovePod(c) \/ PodStep(c) PROVE Keeps(p)
  BY <1>1, <1>2, KeepsQuiet, KeepsHeld, KeepsRequest DEF PodStep, Untroubled
<1>3. ASSUME NEW j \in Jobs, PopulateStep(j) PROVE Keeps(p)
  <2>1. ~PopulateFails(j)
    BY DEF PopulateFails, CallFails, Trouble, Untroubled
  <2> QED
    BY <1>1, <1>3, <2>1, KeepsQuiet, KeepsCreated, KeepsListings DEF PopulateStep
<1>4. ASSUME RecycleStep PROVE Keeps(p)
  <2>1. \A q \in Ports : ~DeletePortFails(q)
    BY DEF DeletePortFails, CallFails, Trouble, Untroubled
  <2> QED
    BY <1>1, <1>4, <2>1, KeepsQuiet, KeepsDeleted, KeepsListings DEF RecycleStep
<1>5. ~NetDeleteStep /\ ~\E n \in Nets : NetDeleteStart(n)
  BY <1>1
     DEF NetDeleteStep, NetDeleteStart, NetDeletePools, NetDeletePool, NetDeletePort,
         NetDeletePortFails, NetClearPool, NetDeleteEnd, Untroubled
<1>6. ASSUME RemoveSGStep \/ \E sg \in SGs, n \in Nets : RemoveSGStart(sg, n)
      PROVE  Keeps(p)
  BY <1>1, <1>6, KeepsQuiet, KeepsListings, KeepsRemoveSGGroup, KeepsRemoveSGEnds
     DEF RemoveSGStep, Untroubled, NothingLost
<1>7. ASSUME SyncStep PROVE Keeps(p)
  BY <1>1, <1>7, KeepsQuiet, KeepsListings, KeepsSyncListPorts DEF SyncStep
<1>8. ASSUME \/ \E k \in Pools : Tick(k)
             \/ \E c \in Pods, g \in Groups : PolicyUpdate(c, g)
             \/ PolicyUpdateEnd
      PROVE  Keeps(p)
  BY <1>1, <1>8, KeepsQuiet
<1> QED
  BY <1>2, <1>3, <1>4, <1>5, <1>6, <1>7, <1>8 DEF Next, Jobs

(* The ports that the recovery finds, or that it leaves to the pods it has   *)
(* listed, are all the ports that Neutron has.                               *)
LEMMA AllPlacedStep ==
    ASSUME TypeOK, OnePlace, OnePool, NothingLost, Next, ~Restart, Untroubled'
    PROVE  AllPlaced'
<1>1. AllPlaced /\ VifsKnown
  BY TroubleFrame DEF Untroubled, NothingLost
<1>2. \A p \in Ports : Somewhere(p) /\ life'[p] = "live" => Somewhere(p)'
  BY KeepsStep DEF Keeps
<1>3. \A p \in Ports : life'[p] = "live" => life[p] = "live" \/ Somewhere(p)'
  <2>1. CASE \E j \in Jobs : PortsCreated(j)
    BY <1>1, <2>1, KeepsCreated
  <2>2. CASE ~\E j \in Jobs : PortsCreated(j)
    BY <2>2, LifeFrame DEF DeletePort, NetDeletePort, TypeOK, NeutronTypes
  <2> QED
    BY <2>1, <2>2
<1>4. CASE UNCHANGED <<phase, inUse>>
  BY <1>1, <1>2, <1>3, <1>4 DEF AllPlaced
<1>5. CASE SyncStep
  <2>1. CASE SyncListPods
    <3>1. /\ inUse' = InUsePorts /\ phase' = "listed" /\ held' = held
      BY <2>1 DEF SyncListPods, k8sVars
    <3>2. \A p \in inUse' \cap Ports : Somewhere(p)'
      BY <3>1 DEF InUsePorts, Somewhere, TypeOK, PodTypes
    <3> QED
      BY <3>1, <3>2 DEF AllPlaced
  <2>2. CASE SyncListPorts
    <3>1. /\ UNCHANGED life /\ phase = "listed" /\ phase' = "recovering"
          /\ \A p \in Ports : life[p] = "live" /\ p \notin inUse =>
                                 found'[p] = portSG[p]
      BY <2>2 DEF SyncListPorts, neutronVars
    <3>2. \A p \in Ports : portSG[p] # NoGroup
      BY NoGroupIsNone DEF TypeOK, NeutronTypes
    <3>3. \A p \in Ports : life[p] = "live" /\ p \notin inUse => Somewhere(p)'
      BY <3>1, <3>2 DEF Somewhere
    <3>4. \A p \in Ports : life[p] = "live" /\ p \in inUse => Somewhere(p)
      BY <1>1, <3>1 DEF AllPlaced
    <3> QED
      BY <1>2, <3>1, <3>3, <3>4 DEF AllPlaced
  <2>3. CASE SyncReset \/ SyncDone \/ \E p \in Ports : RecoverPort(p)
    <3>1. \/ phase' = "reset"
          \/ phase = "recovering" /\ phase' \in {"recovering", "ready"}
      BY <2>3 DEF SyncReset, SyncDone, RecoverPort
    <3> QED
      BY <1>1, <1>2, <1>3, <3>1 DEF AllPlaced
  <2> QED
    BY <1>5, <2>1, <2>2, <2>3 DEF SyncStep
<1> QED
  BY <1>4, <1>5, PhaseFrame

(* A step loses nothing.                                                     *)
LEMMA NothingLostStep ==
    ASSUME TypeOK, OnePlace, OnePool, Triggered, NothingLost, Next
    PROVE  NothingLost'
<1>1. /\ sgJob'.pc \in {"groups", "ports"} => sgJob'.cur # {}
      /\ deadNets' = {} => netJob' = NoNetJob /\ UsefulAlive'
  BY CurStep, NoNetStep DEF NothingLost
<1>2. CASE Restart
  <2>1. \A p \in Ports : ~LooksUp(p)'
    BY <1>2, ShortLists DEF Restart, LooksUp, Without, NoSGJob
  <2>2. phase' = "starting"
    BY <1>2 DEF Restart
  <2> QED
    BY <1>1, <2>1, <2>2 DEF NothingLost, VifsKnown, AllPlaced
<1>3. CASE ~Restart
  <2>1. Untroubled' => VifsKnown' /\ AllPlaced'
    BY <1>3, KeepsStep, AllPlacedStep DEF Keeps, VifsKnown
  <2> QED
    BY <1>1, <2>1 DEF NothingLost
<1> QED
  BY <1>2, <1>3

LEMMA InitNothingLost ==
    ASSUME Init
    PROVE  NothingLost /\ Triggered /\ OnePool
<1>1. OnePool /\ Triggered /\ netJob = NoNetJob /\ sgJob.pc = "idle" /\ phase = "starting"
  BY DEF Init, OnePool, Triggered, NoSGJob, Unlocked
<1>2. \A p \in Ports : ~Useful(p) /\ ~LooksUp(p)
  BY ShortLists, ConstantsAssumption DEF Init, Useful, LooksUp, NoSGJob, Jobs
<1> QED
  BY <1>1, <1>2 DEF NothingLost, UsefulAlive, VifsKnown, AllPlaced

LEMMA NothingLostSame ==
    ASSUME OnePool, Triggered, NothingLost, UNCHANGED vars
    PROVE  OnePool' /\ Triggered' /\ NothingLost'
<1>1. /\ UNCHANGED <<life, pc, held, phase, inUse, found, avail, existing, recyclable>>
      /\ UNCHANGED <<created, recycler, netJob, deadNets, sgJob, faulty>>
  BY DEF vars, coreVars, jobVars, k8sVars, neutronVars, syncVars, poolVars, popVars,
         recycleVars, netVars, policyVars, bounds
<1>2. OnePool' /\ Triggered'
  BY <1>1 DEF OnePool, Triggered
<1>3. /\ UsefulAlive => UsefulAlive'
      /\ VifsKnown => VifsKnown'
      /\ AllPlaced => AllPlaced'
  BY <1>1 DEF UsefulAlive, Useful, Deserted, VifsKnown, LooksUp, AllPlaced, Somewhere
<1> QED
  BY <1>1, <1>2, <1>3 DEF NothingLost, Untroubled

(* The controller forgets no port that Neutron has (NoPortLost), until a     *)
(* call fails or a network is deleted; a restart finds again those that were *)
(* lost by a failure.                                                        *)
THEOREM Kept ==
    ASSUME "event_during_sync" \notin Races
    PROVE  Spec => []NoPortLost
<1> DEFINE Inv == OnePool /\ Triggered /\ NothingLost
<1>1. Init => Inv
  BY InitNothingLost
<1>2. TypeOK /\ OnePlace /\ Inv /\ [Next]_vars => Inv'
  BY OnePoolStep, TriggeredStep, NothingLostStep, NothingLostSame
<1>3. TypeOK /\ OnePlace /\ Inv => NoPortLost
  <2> SUFFICES ASSUME TypeOK, OnePlace, Inv, phase = "ready", Untroubled,
                      NEW p \in Ports, life[p] = "live"
               PROVE  \/ p \in Available \cup recyclable \cup ToSet(sgJob.ports)
                      \/ \E c \in Pods : held[c] = p
                      \/ \E j \in Pools \X Groups : p \in ToSet(created[j])
    BY DEF NoPortLost, Untroubled
  <2>1. Somewhere(p)
    BY DEF NothingLost, AllPlaced
  <2>2. found[p] = NoGroup
    BY DEF OnePlace, Recovering
  <2>3. \A k \in Pools, g \in AllGroups : p \in ToSet(avail[k][g]) => p \in Available
    BY DEF Available, PoolPorts
  <2> QED
    BY <2>1, <2>2, <2>3 DEF Somewhere, Jobs
<1>4. Spec => []TypeOK
  BY Types
<1>5. Spec => []OnePlace
  BY Placed
<1> QED
  BY <1>1, <1>2, <1>3, <1>4, <1>5, PTL DEF Spec
==============================================================================

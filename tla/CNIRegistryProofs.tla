------------------------- MODULE CNIRegistryProofs -------------------------
(***************************************************************************)
(* Theorems of CNIRegistry, for any pods, containers, races and restarts.  *)
(***************************************************************************)
EXTENDS CNIRegistry, SequenceTheorems, TLAPS

(* No entry is an entry. *)
LEMMA NoEntryType == NoEntry \in Entry
BY DEF NoEntry, Entry

(* The watcher takes an event of its queue. *)
LEMMA HeadType ==
    ASSUME events \in Seq(Event), events # <<>>
    PROVE  Head(events) \in Event /\ Tail(events) \in Seq(Event)
OBVIOUS

(* A counted failure. *)
LEMMA FailureTypes ==
    ASSUME failures \in 0..MaxFailures, healthy \in BOOLEAN, CheckFailure
    PROVE  failures' \in 0..MaxFailures /\ healthy' \in BOOLEAN
<1>1. CASE failures < MaxFailures
  <2>1. failures' = failures + 1 /\ healthy' = healthy
    BY <1>1, Zenon DEF CheckFailure
  <2>2. failures' \in 0..MaxFailures
    BY <1>1, <2>1, ConstantsAssumption
  <2> QED BY <2>1, <2>2, Zenon
<1>2. CASE ~(failures < MaxFailures)
  BY <1>2, Zenon DEF CheckFailure
<1> QED BY <1>1, <1>2

(* A request goes to another stage. *)
LEMMA GotoType ==
    ASSUME pc \in [Containers -> Stage], NEW s, NEW l \in Stage, Goto(s, l)
    PROVE  pc' \in [Containers -> Stage]
BY DEF Goto

(* A step keeps the types of the variables. *)
LEMMA TypeStep ==
    ASSUME TypeOK, [Next]_vars
    PROVE  TypeOK'
<1> USE ConstantsAssumption DEF TypeOK
<1>1. ASSUME NEW u \in Pods, CreatePod(u) PROVE TypeOK'
  BY <1>1 DEF CreatePod, requestVars, healthVars
<1>2. ASSUME NEW u \in Pods, RemovePod(u) PROVE TypeOK'
  <2>1. [type |-> "deleted", pod |-> u, active |-> FALSE] \in Event
    BY DEF Event
  <2>2. events' \in Seq(Event)
    BY <1>2, <2>1 DEF RemovePod, Emit
  <2> QED BY <1>2, <2>2 DEF RemovePod, requestVars, healthVars
<1>3. ASSUME NEW u \in Pods, NEW active \in BOOLEAN, AnnotatePod(u, active)
      PROVE  TypeOK'
  <2>1. [type |-> "present", pod |-> u, active |-> active] \in Event
    BY DEF Event
  <2>2. events' \in Seq(Event)
    BY <1>3, <2>1 DEF AnnotatePod, Emit
  <2> QED BY <1>3, <2>2 DEF AnnotatePod, requestVars, healthVars
<1>4. CASE OnDone
  <2>1. Head(events) \in Event /\ Tail(events) \in Seq(Event)
    BY <1>4, HeadType DEF OnDone
  <2>2. entry' \in Entry
    BY <1>4, <2>1, NoEntryType DEF OnDone, Entry, Event, NoEntry
  <2> QED BY <1>4, <2>1, <2>2 DEF OnDone, requestVars, healthVars
<1>5. CASE OnDeleted
  <2>1. Tail(events) \in Seq(Event)
    BY <1>5, HeadType DEF OnDeleted
  <2>2. entry' \in Entry
    BY <1>5, NoEntryType DEF OnDeleted, Entry
  <2> QED BY <1>5, <2>1, <2>2 DEF OnDeleted, requestVars, healthVars
<1>6. ASSUME NEW s \in Containers, StartAdd(s) \/ StartDel(s) \/ RequestStep(s)
      PROVE  TypeOK'
  <2> USE DEF apiVars, requestVars, healthVars
  <2>1. CASE StartAdd(s) \/ StartDel(s) \/ AddDone(s) \/ DelCheck(s) \/ DelFindTimeout(s)
    BY <2>1, GotoType DEF StartAdd, StartDel, AddDone, DelCheck, DelFindTimeout, Stage
  <2>2. CASE AddFind(s) \/ DelFind(s)
    <3>1. entry.vifOf \in Pods \cup {NoPod}
      BY DEF Entry
    <3> QED BY <2>2, <3>1, GotoType DEF AddFind, DelFind, Stage
  <2>3. CASE AddConnect(s) \/ DelDisconnect(s)
    BY <2>3, GotoType DEF AddConnect, DelDisconnect, Stage
  <2>4. CASE AddSave(s)
    <3>1. entry' \in Entry
      BY <2>4 DEF AddSave, Entry
    <3> QED BY <2>4, <3>1, GotoType DEF AddSave, Stage
  <2>5. CASE AddFails(s) \/ DelFails(s)
    BY <2>5, GotoType, FailureTypes DEF AddFails, DelFails, Stage
  <2>6. CASE DelMark(s)
    <3>1. entry' \in Entry
      BY <2>6, NoEntryType DEF DelMark, Entry
    <3> QED BY <2>6, <3>1, GotoType DEF DelMark, Stage
  <2> QED BY <1>6, <2>1, <2>2, <2>3, <2>4, <2>5, <2>6 DEF RequestStep
<1>7. CASE Restart
  <2>1. pc' \in [Containers -> Stage]
    BY <1>7 DEF Restart, Stage
  <2>2. \A u \in Pods : [type |-> "present", pod |-> u, active |-> pod[u] = "active"] \in Event
    BY DEF Event
  <2>3. events' \in Seq(Event)
    <3>1. CASE events' = <<>>
      BY <3>1
    <3>2. ASSUME NEW u \in Pods,
                 events' = <<[type |-> "present", pod |-> u, active |-> pod[u] = "active"]>>
          PROVE  events' \in Seq(Event)
      <4> DEFINE e == [type |-> "present", pod |-> u, active |-> pod[u] = "active"]
      <4>1. e \in Event
        BY <2>2
      <4> HIDE DEF e
      <4> QED BY <3>2, <4>1 DEF e
    <3> QED BY <1>7, <3>1, <3>2, Zenon DEF Restart
  <2> QED BY <1>7, <2>1, <2>3, NoEntryType DEF Restart
<1>8. CASE UNCHANGED vars
  BY <1>8 DEF vars, apiVars, requestVars, healthVars
<1> QED
  BY <1>1, <1>2, <1>3, <1>4, <1>5, <1>6, <1>7, <1>8 DEF Next, WatcherStep

(* The variables have their types: what the daemon keeps of a pod, a request *)
(* or a failure is always of the shape its readers expect.                   *)
THEOREM Types == Spec => []TypeOK
<1>1. Init => TypeOK
  BY NoEntryType, ConstantsAssumption DEF Init, TypeOK, Stage
<1> QED BY <1>1, TypeStep, PTL DEF Spec

-----------------------------------------------------------------------------
(* DEL and DELETED take the entry over from each other, in any order and with *)
(* any other requests in between: its flags are never both set.              *)
THEOREM LeftOver == Spec => []NeverLeftOver
<1>1. Init => NeverLeftOver
  BY DEF Init, NeverLeftOver, NoEntry
<1>2. ASSUME TypeOK, NeverLeftOver, [Next]_vars PROVE NeverLeftOver'
  <2> USE DEF NeverLeftOver, NoEntry
  <2>0. entry \in Entry
    BY <1>2 DEF TypeOK
  <2>1. CASE UNCHANGED entry
    BY <1>2, <2>1
  <2>2. CASE OnDone
    BY <1>2, <2>0, <2>2 DEF OnDone, Entry
  <2>3. CASE OnDeleted
    BY <1>2, <2>0, <2>3 DEF OnDeleted, Entry
  <2>4. ASSUME NEW s \in Containers, AddSave(s) PROVE NeverLeftOver'
    BY <1>2, <2>0, <2>4 DEF AddSave, Entry
  <2>5. ASSUME NEW s \in Containers, DelMark(s) PROVE NeverLeftOver'
    BY <1>2, <2>0, <2>5 DEF DelMark, Entry
  <2>6. CASE Restart
    BY <2>6 DEF Restart
  <2>7. ASSUME NEW s \in Containers,
               StartAdd(s) \/ StartDel(s) \/ AddFind(s) \/ AddConnect(s) \/ AddDone(s)
               \/ AddFails(s) \/ DelCheck(s) \/ DelFind(s) \/ DelFindTimeout(s)
               \/ DelDisconnect(s) \/ DelFails(s)
        PROVE  UNCHANGED entry
    BY <2>7 DEF StartAdd, StartDel, AddFind, AddConnect, AddDone, AddFails,
                DelCheck, DelFind, DelFindTimeout, DelDisconnect, DelFails
  <2>8. ASSUME NEW u \in Pods, NEW active \in BOOLEAN,
               CreatePod(u) \/ RemovePod(u) \/ AnnotatePod(u, active)
        PROVE  UNCHANGED entry
    BY <2>8 DEF CreatePod, RemovePod, AnnotatePod
  <2> QED
    BY <1>2, <2>1, <2>2, <2>3, <2>4, <2>5, <2>6, <2>7, <2>8
    DEF Next, WatcherStep, RequestStep, vars
<1> QED BY <1>1, <1>2, Types, PTL DEF Spec
-----------------------------------------------------------------------------
(* A running container keeps its vif.                                      *)

Busy(u) == InAPI(u) \/ \E s \in ContainersOf(u) : pc[s] \notin {"none", "down"}

(* The registry and the watch know of the pod whose turn it is, only.      *)
OneAtATime == \A u \in Pods : Busy(u) => Alone(u)

(* Nothing can put an entry into the registry any more.                    *)
Over == ~InRegistry /\ events = <<>> /\ \A v \in Pods : ~InAPI(v)

(* What the registry and the watch's events know of pods.                  *)
Known ==
    /\ ~InRegistry => entry = NoEntry
    /\ InRegistry => pod[entry.vifOf] # "absent"
    /\ \A i \in DOMAIN events : pod[events[i].pod] # "absent"
    /\ \A i \in DOMAIN events : events[i].type = "deleted" =>
          i = Len(events) /\ pod[events[i].pod] = "deleted"
    /\ entry.delReceived => events = <<>> /\ \A v \in Pods : ~InAPI(v)

(* Requests read the vif of their pod.                                     *)
OwnVif == \A s \in Containers :
    pc[s] \in {"connect", "save", "wait", "up", "disconnect", "mark"} => view[s] = PodOf[s]

Serving(s) == pc[s] \in {"wait", "up"}

(* A container that is added is alone with its pod, and no DEL is under    *)
(* way.                                                                    *)
Apart == \A s, t \in Containers : s # t /\ Adding(t) =>
    /\ ~Deleting(s)
    /\ PodOf[s] = PodOf[t] => ~Adding(s) /\ ~Serving(s)

(* DEL for another container of the pod does not get to the vif: either    *)
(* the registry has the later container, or the entry has gone for good.   *)
Guarded ==
    /\ \A s \in Containers : restarts = 0 /\ Serving(s) => entry.containerid = s \/ Over
    /\ \A s, t \in Containers : s # t /\ PodOf[s] = PodOf[t] /\ Serving(s) /\ Deleting(t) =>
          /\ restarts = 0
          /\ pc[t] = "check" \/ (pc[t] = "delfind" /\ Over)

Plugged == \A s \in Containers : pc[s] = "save" \/ Serving(s) => plugged[PodOf[s]] = s

KeepInv == TypeOK /\ OneAtATime /\ Known /\ OwnVif /\ Apart /\ Guarded /\ Plugged
Untimely == {"overlap", "late_del", "reuse"}

(* A step of a request is a step of its container only.                    *)
LEMMA Going ==
    ASSUME TypeOK, NEW s \in Containers, NEW l, Goto(s, l)
    PROVE  pc'[s] = l /\ \A t \in Containers \ {s} : pc'[t] = pc[t]
BY DEF TypeOK, Goto

(* Two pods whose containers are at work leave the registry without entry. *)
LEMMA Disjoint ==
    ASSUME TypeOK, OneAtATime, NEW u \in Pods, NEW v \in Pods, u # v, Busy(u), Busy(v)
    PROVE  ~InRegistry
BY ConstantsAssumption DEF OneAtATime, Alone, InRegistry

LEMMA OneAtATimeKept ==
    ASSUME KeepInv, Next, Untimely \cap Races = {}
    PROVE  OneAtATime'
<1> USE DEF KeepInv
<1>1. ASSUME NEW u \in Pods, CreatePod(u) PROVE OneAtATime'
  <2>1. /\ Alone(u) /\ \A v \in Pods : ~InAPI(v) /\ Stages(v) \subseteq {"none", "down"}
        /\ pod' = [pod EXCEPT ![u] = "bare"] /\ UNCHANGED <<events, entry, pc>>
    BY <1>1 DEF CreatePod, Untimely, requestVars
  <2>2. \A v \in Pods \ {u} : ~InAPI(v)' /\ ~Busy(v)'
    BY <2>1 DEF InAPI, Busy, Stages, ContainersOf, TypeOK
  <2>3. Alone(u)'
    BY <2>1, <2>2 DEF Alone
  <2> QED BY <2>2, <2>3 DEF OneAtATime
<1>2. ASSUME NEW u \in Pods, RemovePod(u) \/ AnnotatePod(u, TRUE) \/ AnnotatePod(u, FALSE)
      PROVE  OneAtATime'
  <2>1. /\ InAPI(u) /\ UNCHANGED <<entry, pc>> /\ \A v \in Pods \ {u} : pod'[v] = pod[v]
        /\ \E f : f.pod = u /\ events' = Append(events, f)
    BY <1>2 DEF RemovePod, AnnotatePod, Emit, InAPI, requestVars, TypeOK
  <2>2. Alone(u) /\ Busy(u)
    BY <2>1 DEF OneAtATime, Busy
  <2>3. \A i \in DOMAIN events' : events'[i].pod = u
    BY <2>1, <2>2 DEF TypeOK, Alone
  <2>4. \A v \in Pods \ {u} : ~InAPI(v)'
    BY <2>1, <2>2 DEF Alone, InAPI
  <2>5. Alone(u)'
    BY <2>1, <2>2, <2>3, <2>4 DEF Alone
  <2>6. ASSUME NEW v \in Pods \ {u} PROVE ~Busy(v)'
    <3>1. ~Busy(v)
      BY <2>1, <2>2 DEF OneAtATime, Alone
    <3> QED BY <2>1, <2>4, <3>1 DEF Busy, ContainersOf
  <2> QED BY <2>5, <2>6 DEF OneAtATime
<1>3. CASE WatcherStep
  <2>1. /\ events # <<>> /\ events' = Tail(events) /\ UNCHANGED <<pod, pc>>
        /\ entry'.vifOf \in {NoPod, entry.vifOf, Head(events).pod}
    <3>1. /\ events # <<>> /\ events' = Tail(events) /\ UNCHANGED <<pod, pc>>
      BY <1>3 DEF WatcherStep, OnDone, OnDeleted, requestVars
    <3>0. entry \in Entry /\ Head(events) \in Event
      BY <3>1, HeadType DEF TypeOK
    <3>2. CASE OnDone
      <4> DEFINE e == Head(events)
                 new == [NoEntry EXCEPT !.vifOf = e.pod, !.active = e.active]
                 changed == [entry EXCEPT !.vifOf = e.pod, !.active = e.active]
      <4>1. entry' \in {new, changed, entry}
        BY <3>2 DEF OnDone
      <4>2. new.vifOf = e.pod
        BY DEF NoEntry
      <4>3. changed.vifOf = e.pod
        BY <3>0 DEF Entry
      <4> HIDE DEF new, changed, e
      <4>4. e = Head(events)
        BY DEF e
      <4> QED BY <3>1, <4>1, <4>2, <4>3, <4>4
    <3>3. CASE OnDeleted
      <4> DEFINE marked == [entry EXCEPT !.delReceived = TRUE]
      <4>1. entry' \in {NoEntry, marked}
        BY <3>3 DEF OnDeleted
      <4>2. NoEntry.vifOf = NoPod
        BY DEF NoEntry
      <4>3. marked.vifOf = entry.vifOf
        BY <3>0 DEF Entry
      <4> HIDE DEF marked
      <4> QED BY <3>1, <4>1, <4>2, <4>3
    <3> QED BY <1>3, <3>1, <3>2, <3>3 DEF WatcherStep
  <2>2. /\ Head(events) = events[1] /\ 1 \in DOMAIN events
        /\ \A i \in DOMAIN events' : \E j \in DOMAIN events : events'[i] = events[j]
    BY <2>1 DEF TypeOK
  <2>3. \A u \in Pods : Alone(u) => Alone(u)'
    BY <2>1, <2>2 DEF Alone, InAPI
  <2>4. \A u \in Pods : Busy(u)' => Busy(u)
    BY <2>1 DEF Busy, InAPI, ContainersOf
  <2> QED BY <2>3, <2>4 DEF OneAtATime
<1>4. ASSUME NEW s \in Containers, StartAdd(s) \/ StartDel(s) \/ RequestStep(s)
      PROVE  OneAtATime'
  <2>1. /\ UNCHANGED <<pod, events>> /\ \A t \in Containers \ {s} : pc'[t] = pc[t]
        /\ entry'.vifOf \in {NoPod, entry.vifOf}
        /\ pc[s] \in {"none", "down"} => Alone(PodOf[s])
    <3>1. CASE StartAdd(s)
      BY <3>1, Going, ConstantsAssumption DEF StartAdd, apiVars, OneAtATime, Busy
    <3>2. CASE StartDel(s)
      BY <3>2, Going DEF StartDel, apiVars, Untimely
    <3>3. CASE RequestStep(s)
      <4>1. /\ UNCHANGED <<pod, events>> /\ pc[s] \notin {"none", "down"}
            /\ \A t \in Containers \ {s} : pc'[t] = pc[t]
        BY <3>3, Going DEF RequestStep, AddFind, AddConnect, AddSave, AddDone, AddFails,
           DelCheck, DelFind, DelFindTimeout, DelDisconnect, DelFails, DelMark, apiVars
      <4>2. entry'.vifOf \in {NoPod, entry.vifOf}
        BY <3>3 DEF RequestStep, AddFind, AddConnect, AddSave, AddDone, AddFails,
           DelCheck, DelFind, DelFindTimeout, DelDisconnect, DelFails, DelMark, NoEntry,
           TypeOK, Entry
      <4> QED BY <4>1, <4>2
    <3> QED BY <1>4, <3>1, <3>2, <3>3
  <2>2. \A u \in Pods : Alone(u) => Alone(u)'
    BY <2>1 DEF Alone, InAPI
  <2>3. \A u \in Pods : Busy(u)' => Busy(u) \/ Alone(u)
    BY <2>1 DEF Busy, InAPI, ContainersOf
  <2> QED BY <2>2, <2>3 DEF OneAtATime
<1>5. CASE Restart
  <2>1. /\ UNCHANGED pod /\ entry' = NoEntry
        /\ \A s \in Containers : pc'[s] \notin {"none", "down"} => pc[s] \notin {"none", "down"}
    BY <1>5 DEF Restart
  <2>2. \A u \in Pods : Busy(u)' => Busy(u)
    BY <2>1 DEF Busy, InAPI, ContainersOf
  <2>3. \A u \in Pods : Alone(u) => Alone(u)'
    <3> SUFFICES ASSUME NEW u \in Pods, Alone(u) PROVE Alone(u)'
      OBVIOUS
    <3>1. \A v \in Pods \ {u} : ~InAPI(v) /\ ~InAPI(v)'
      BY <2>1 DEF Alone, InAPI
    <3>2. \A i \in DOMAIN events' : events'[i].pod = u
      <4>1. CASE events' = <<>>
        BY <4>1
      <4>2. ASSUME NEW v \in Pods, Annotated(v),
                   events' = <<[type |-> "present", pod |-> v, active |-> pod[v] = "active"]>>
            PROVE  \A i \in DOMAIN events' : events'[i].pod = u
        <5>1. v = u
          BY <3>1, <4>2 DEF Annotated, InAPI
        <5> DEFINE b == pod[v] = "active"
        <5> HIDE DEF b
        <5>2. events' = <<[type |-> "present", pod |-> v, active |-> b]>>
          BY <4>2 DEF b
        <5> QED BY <5>1, <5>2
      <4> QED BY <1>5, <4>1, <4>2, Zenon DEF Restart
    <3> QED BY <2>1, <3>1, <3>2 DEF Alone, NoEntry
  <2> QED BY <2>2, <2>3 DEF OneAtATime
<1> QED BY <1>1, <1>2, <1>3, <1>4, <1>5 DEF Next

LEMMA KnownKept ==
    ASSUME KeepInv, Next, TypeOK', Untimely \cap Races = {}
    PROVE  Known'
<1> USE DEF KeepInv
<1>1. ASSUME NEW u \in Pods, CreatePod(u) PROVE Known'
  <2>1. /\ Alone(u) /\ pod[u] = "absent" /\ UNCHANGED <<events, entry>>
        /\ pod' = [pod EXCEPT ![u] = "bare"]
    BY <1>1 DEF CreatePod, Untimely
  <2>2. ~entry.delReceived
    BY <2>1 DEF Known, Alone, InRegistry, NoEntry
  <2>3. \A v \in Pods : pod[v] # "absent" => pod'[v] = pod[v]
    BY <2>1 DEF TypeOK
  <2>4. \A i \in DOMAIN events : events[i].pod \in Pods
    <3>1. \A i \in DOMAIN events : events[i] \in Event
      BY DEF TypeOK
    <3> QED BY <3>1 DEF Event
  <2>5. InRegistry => entry.vifOf \in Pods
    BY DEF TypeOK, Entry, InRegistry
  <2> QED BY <2>1, <2>2, <2>3, <2>4, <2>5 DEF Known, InRegistry
<1>2. ASSUME NEW u \in Pods, RemovePod(u) \/ AnnotatePod(u, TRUE) \/ AnnotatePod(u, FALSE)
      PROVE  Known'
  <2>1. /\ InAPI(u) /\ entry' = entry /\ \A v \in Pods \ {u} : pod'[v] = pod[v]
        /\ pod'[u] # "absent"
    BY <1>2 DEF RemovePod, AnnotatePod, InAPI, TypeOK
  <2>f. PICK f \in Event : /\ f.pod = u /\ events' = Append(events, f)
                           /\ f.type = "deleted" => pod'[u] = "deleted"
    <3>1. /\ [type |-> "deleted", pod |-> u, active |-> FALSE] \in Event
          /\ \A b \in BOOLEAN : [type |-> "present", pod |-> u, active |-> b] \in Event
      BY DEF Event
    <3> QED BY <1>2, <3>1 DEF RemovePod, AnnotatePod, Emit, TypeOK
  <2>2. ~entry.delReceived /\ Alone(u)
    BY <2>1 DEF Known, OneAtATime, Busy
  <2>3. \A i \in DOMAIN events : events[i].type # "deleted"
    BY <2>1, <2>2 DEF Known, Alone, InAPI
  <2>4. \A i \in DOMAIN events' : /\ events'[i].pod = u
                                  /\ events'[i].type = "deleted" => i = Len(events')
                                                                  /\ pod'[u] = "deleted"
    <3>0. events \in Seq(Event)
      BY DEF TypeOK
    <3>1. Len(events') = Len(events) + 1 /\ events'[Len(events')] = f
      BY <2>f, <3>0, AppendProperties
    <3>2. \A i \in DOMAIN events' : i # Len(events') =>
              i \in DOMAIN events /\ events'[i] = events[i]
      BY <2>f, <3>0, <3>1, AppendProperties
    <3>3. \A i \in DOMAIN events : events[i].pod = u
      BY <2>2 DEF Alone
    <3> QED BY <2>3, <2>f, <3>1, <3>2, <3>3
  <2>5. InRegistry => entry.vifOf = u
    BY <2>2 DEF Alone, InRegistry
  <2>6. ~InRegistry' => entry' = NoEntry
    BY <2>1 DEF Known, InRegistry
  <2>7. InRegistry' => pod'[entry'.vifOf] # "absent"
    BY <2>1, <2>5 DEF InRegistry
  <2>8. ~entry'.delReceived
    BY <2>1, <2>2
  <2>9. \A i \in DOMAIN events' : pod'[events'[i].pod] # "absent"
    BY <2>1, <2>4, Zenon
  <2>10. \A i \in DOMAIN events' : events'[i].type = "deleted" =>
              i = Len(events') /\ pod'[events'[i].pod] = "deleted"
    BY <2>4, Zenon
  <2>11. ~entry'.delReceived
    BY <2>8
  <2> QED BY <2>6, <2>7, <2>9, <2>10, <2>11 DEF Known
<1>3. CASE OnDone
  <2>1. /\ events # <<>> /\ events' = Tail(events) /\ UNCHANGED pod
        /\ ~entry.delReceived
    BY <1>3 DEF OnDone, Known
  <2>2. /\ Head(events) = events[1] /\ 1 \in DOMAIN events /\ Head(events) \in Event
        /\ \A i \in DOMAIN events' : /\ i + 1 \in DOMAIN events /\ events'[i] = events[i + 1]
        /\ Len(events) = Len(events') + 1
    BY <2>1 DEF TypeOK
  <2>3. /\ entry'.vifOf \in {entry.vifOf, Head(events).pod} \ {NoPod}
        /\ ~entry'.delReceived
    BY <1>3, <2>1, <2>2, ConstantsAssumption DEF OnDone, NoEntry, TypeOK, Entry, Event, InRegistry
  <2>4. pod[entry'.vifOf] # "absent"
    BY <2>2, <2>3 DEF Known, InRegistry
  <2>5. \A i \in DOMAIN events' : pod[events'[i].pod] # "absent"
    BY <2>2 DEF Known
  <2>6. \A i \in DOMAIN events' : events'[i].type = "deleted" =>
            i = Len(events') /\ pod[events'[i].pod] = "deleted"
    <3> SUFFICES ASSUME NEW i \in DOMAIN events', events'[i].type = "deleted"
                 PROVE  i = Len(events') /\ pod[events'[i].pod] = "deleted"
      OBVIOUS
    <3>1. i + 1 = Len(events) /\ pod[events[i + 1].pod] = "deleted"
      BY <2>2 DEF Known
    <3> QED BY <2>2, <3>1 DEF TypeOK
  <2> QED BY <2>1, <2>3, <2>4, <2>5, <2>6 DEF Known, InRegistry
<1>4. CASE OnDeleted
  <2>1. /\ events # <<>> /\ events' = Tail(events) /\ UNCHANGED pod
        /\ Head(events).type = "deleted"
    BY <1>4 DEF OnDeleted
  <2>2. Head(events) = events[1] /\ 1 \in DOMAIN events
    BY <2>1 DEF TypeOK
  <2>3. 1 = Len(events) /\ pod[events[1].pod] = "deleted"
    BY <2>1, <2>2 DEF Known
  <2>4. events' = <<>>
    BY <2>1, <2>3 DEF TypeOK
  <2>5. \A v \in Pods : ~InAPI(v)
    BY <2>2, <2>3 DEF OneAtATime, Busy, Alone, InAPI
  <2>6. \/ entry' = NoEntry
        \/ InRegistry /\ entry' = [entry EXCEPT !.delReceived = TRUE]
    BY <1>4 DEF OnDeleted
  <2>7. CASE entry' = NoEntry
    BY <2>1, <2>4, <2>5, <2>7 DEF Known, InRegistry, NoEntry, InAPI
  <2>8. CASE InRegistry /\ entry' = [entry EXCEPT !.delReceived = TRUE]
    <3>1. entry'.vifOf = entry.vifOf
      BY <2>8 DEF TypeOK, Entry
    <3> QED BY <2>1, <2>4, <2>5, <2>8, <3>1 DEF Known, InRegistry, InAPI
  <2> QED BY <2>6, <2>7, <2>8
<1>5. ASSUME NEW s \in Containers, StartAdd(s) \/ StartDel(s) \/ RequestStep(s)
      PROVE  Known'
  <2>1. UNCHANGED <<pod, events>>
    BY <1>5 DEF StartAdd, StartDel, RequestStep, AddFind, AddConnect, AddSave, AddDone,
       AddFails, DelCheck, DelFind, DelFindTimeout, DelDisconnect, DelFails, DelMark, apiVars
  <2>2. \/ entry' \in {entry, NoEntry}
        \/ /\ InRegistry /\ entry'.vifOf = entry.vifOf
           /\ entry'.delReceived = entry.delReceived
    BY <1>5 DEF StartAdd, StartDel, RequestStep, AddFind, AddConnect, AddSave, AddDone,
       AddFails, DelCheck, DelFind, DelFindTimeout, DelDisconnect, DelFails, DelMark, TypeOK, Entry
  <2>3. CASE entry' = NoEntry
    BY <2>1, <2>3 DEF Known, InRegistry, NoEntry, InAPI
  <2>4. CASE entry' = entry
    BY <2>1, <2>4 DEF Known, InRegistry, InAPI
  <2>5. CASE InRegistry /\ entry'.vifOf = entry.vifOf /\ entry'.delReceived = entry.delReceived
    BY <2>1, <2>5 DEF Known, InRegistry, InAPI
  <2> QED BY <2>2, <2>3, <2>4, <2>5
<1>6. CASE Restart
  <2>1. UNCHANGED pod /\ entry' = NoEntry
    BY <1>6 DEF Restart
  <2>2. \A i \in DOMAIN events' : /\ pod[events'[i].pod] # "absent"
                                  /\ events'[i].type # "deleted"
    <3>1. CASE events' = <<>>
      BY <3>1
    <3>2. ASSUME NEW v \in Pods, Annotated(v),
                 events' = <<[type |-> "present", pod |-> v, active |-> pod[v] = "active"]>>
          PROVE  \A i \in DOMAIN events' : /\ pod[events'[i].pod] # "absent"
                                           /\ events'[i].type # "deleted"
      <4> DEFINE b == pod[v] = "active"
      <4> HIDE DEF b
      <4>1. events' = <<[type |-> "present", pod |-> v, active |-> b]>>
        BY <3>2 DEF b
      <4> QED BY <3>2, <4>1 DEF Annotated
    <3> QED BY <1>6, <3>1, <3>2, Zenon DEF Restart
  <2> QED BY <2>1, <2>2 DEF Known, InRegistry, NoEntry
<1> QED BY <1>1, <1>2, <1>3, <1>4, <1>5, <1>6 DEF Next, WatcherStep

(* Steps by who takes them.                                                *)
ApiStep == \E u \in Pods : \/ CreatePod(u) \/ RemovePod(u)
                           \/ \E active \in BOOLEAN : AnnotatePod(u, active)
KubeletStep(s) == StartAdd(s) \/ StartDel(s) \/ RequestStep(s)

LEMMA Steps ==
    ASSUME Next
    PROVE  ApiStep \/ WatcherStep \/ (\E s \in Containers : KubeletStep(s)) \/ Restart
BY DEF Next, ApiStep, KubeletStep

(* What a step of the API or the watcher leaves alone.                     *)
LEMMA Elsewhere ==
    ASSUME ApiStep \/ WatcherStep
    PROVE  /\ UNCHANGED <<pc, view, plugged, restarts>>
           /\ ApiStep => entry' = entry
BY DEF ApiStep, CreatePod, RemovePod, AnnotatePod, WatcherStep, OnDone, OnDeleted, requestVars

(* The stages a request goes through.                                      *)
LEMMA Moves ==
    ASSUME TypeOK, NEW s \in Containers, KubeletStep(s)
    PROVE  /\ UNCHANGED <<apiVars, restarts>>
           /\ \A t \in Containers \ {s} : pc'[t] = pc[t]
           /\ \/ StartAdd(s) /\ pc[s] = "none" /\ pc'[s] = "find"
              \/ StartDel(s) /\ pc[s] \in {"up", "failed", "down"} /\ pc'[s] = "check"
              \/ AddFind(s) /\ pc[s] = "find" /\ pc'[s] = "connect"
              \/ AddConnect(s) /\ pc[s] = "connect" /\ pc'[s] = "save"
              \/ AddSave(s) /\ pc[s] = "save" /\ pc'[s] = "wait"
              \/ AddDone(s) /\ pc[s] = "wait" /\ pc'[s] = "up"
              \/ AddFails(s) /\ pc'[s] = "failed"
              \/ DelCheck(s) /\ pc[s] = "check" /\ pc'[s] \in {"delfind", "down"}
              \/ DelFind(s) /\ pc[s] = "delfind" /\ pc'[s] = "disconnect"
              \/ DelFindTimeout(s) /\ pc'[s] = "down"
              \/ DelDisconnect(s) /\ pc[s] = "disconnect" /\ pc'[s] = "mark"
              \/ DelFails(s) /\ pc'[s] = "failed"
              \/ DelMark(s) /\ pc[s] = "mark" /\ pc'[s] = "down"
BY Going DEF KubeletStep, StartAdd, StartDel, RequestStep, AddFind, AddConnect, AddSave, AddDone, AddFails,
   DelCheck, DelFind, DelFindTimeout, DelDisconnect, DelFails, DelMark

(* The requests that plug and unplug, or write to the entry: the others    *)
(* leave both alone.                                                       *)
LEMMA Untouched ==
    ASSUME NEW s \in Containers, KubeletStep(s)
    PROVE  /\ plugged' = plugged \/ AddConnect(s) \/ DelDisconnect(s)
           /\ entry' = entry \/ AddSave(s) \/ DelMark(s)
           /\ view' = view \/ AddFind(s) \/ DelFind(s)
BY DEF KubeletStep, StartAdd, StartDel, RequestStep, AddFind, AddConnect, AddSave, AddDone, AddFails,
   DelCheck, DelFind, DelFindTimeout, DelDisconnect, DelFails, DelMark

(* A restart breaks off what was under way.                                *)
LEMMA Restarted ==
    ASSUME Restart, NEW s \in Containers
    PROVE  /\ pc'[s] \in {"none", "up", "down", "failed"}
           /\ pc'[s] = "up" => pc[s] = "up"
           /\ UNCHANGED <<view, plugged>> /\ restarts' = restarts + 1
BY DEF Restart

(* While a container runs, its pod does not get an entry once more.        *)
LEMMA OverStays ==
    ASSUME KeepInv, Next, Untimely \cap Races = {}, Over,
           NEW s \in Containers, Serving(s), ~Restart
    PROVE  Over'
<1> USE DEF KeepInv
<1>1. CASE ApiStep
  <2>1. pc[s] \in Stages(PodOf[s]) /\ PodOf[s] \in Pods
    BY ConstantsAssumption DEF Stages, ContainersOf
  <2>2. ASSUME NEW u \in Pods, CreatePod(u) PROVE FALSE
    BY <2>1, <2>2 DEF CreatePod, Untimely, Serving
  <2>3. ASSUME NEW u \in Pods, NEW active \in BOOLEAN, RemovePod(u) \/ AnnotatePod(u, active)
        PROVE  FALSE
    BY <2>3 DEF RemovePod, AnnotatePod, Over, InAPI
  <2>4. TRUE \in BOOLEAN
    OBVIOUS
  <2> QED BY <1>1, <2>2, <2>3, <2>4 DEF ApiStep
<1>3. CASE WatcherStep
  BY <1>3 DEF WatcherStep, OnDone, OnDeleted, Over
<1>4. ASSUME NEW r \in Containers, KubeletStep(r) PROVE Over'
  <2>1. UNCHANGED <<pod, events>>
    BY <1>4, Moves DEF apiVars
  <2>2. entry' \in {entry, NoEntry}
    <3>1. ~AddSave(r)
      BY DEF AddSave, Over
    <3>2. DelMark(r) => entry' = NoEntry
      BY DEF DelMark, Over
    <3> QED BY <1>4, <3>1, <3>2, Untouched
  <2>3. ~InRegistry'
    BY <2>2 DEF Over, InRegistry, NoEntry
  <2> QED BY <2>1, <2>3 DEF Over, InAPI
<1> QED BY <1>1, <1>3, <1>4, Steps

LEMMA OwnVifKept ==
    ASSUME KeepInv, Next
    PROVE  OwnVif'
<1> USE DEF KeepInv
<1>1. CASE ApiStep \/ WatcherStep
  BY <1>1, Elsewhere DEF OwnVif
<1>2. ASSUME NEW r \in Containers, KubeletStep(r) PROVE OwnVif'
  <2>1. CASE AddFind(r) \/ DelFind(r)
    <3>1. /\ pc[r] \in {"find", "delfind"} /\ InRegistry /\ view' = [view EXCEPT ![r] = entry.vifOf]
          /\ \A t \in Containers \ {r} : pc'[t] = pc[t]
      BY <2>1, Going DEF AddFind, DelFind
    <3>2. Busy(PodOf[r]) /\ PodOf[r] \in Pods
      BY <3>1, ConstantsAssumption DEF Busy, ContainersOf
    <3>3. entry.vifOf = PodOf[r]
      BY <3>1, <3>2 DEF OneAtATime, Alone, InRegistry
    <3>4. view'[r] = PodOf[r] /\ \A t \in Containers \ {r} : view'[t] = view[t]
      BY <3>1, <3>3 DEF TypeOK
    <3> QED BY <3>1, <3>4 DEF OwnVif
  <2>2. CASE view' = view
    BY <1>2, <2>1, <2>2, Moves DEF OwnVif
  <2> QED BY <1>2, <2>1, <2>2, Untouched
<1>3. CASE Restart
  BY <1>3, Restarted DEF OwnVif
<1> QED BY <1>1, <1>2, <1>3, Steps

LEMMA ApartKept ==
    ASSUME KeepInv, Next, Untimely \cap Races = {}
    PROVE  Apart'
<1> USE DEF KeepInv, Adding, Deleting, Serving
<1>1. CASE ApiStep \/ WatcherStep
  BY <1>1, Elsewhere DEF Apart
<1>2. ASSUME NEW r \in Containers, KubeletStep(r) PROVE Apart'
  <2> SUFFICES ASSUME NEW s \in Containers, NEW t \in Containers, s # t, Adding(t)'
               PROVE  /\ ~Deleting(s)'
                      /\ PodOf[s] = PodOf[t] => ~Adding(s)' /\ ~Serving(s)'
    BY DEF Apart
  <2>1. CASE t # r /\ s # r
    BY <1>2, <2>1, Moves DEF Apart
  <2>2. CASE t = r
    <3>1. pc'[s] = pc[s]
      BY <1>2, <2>2, Moves
    <3>2. CASE StartAdd(r)
      BY <2>2, <3>1, <3>2 DEF StartAdd, ContainersOf, Untimely
    <3>3. CASE ~StartAdd(r)
      <4>1. Adding(t)
        BY <1>2, <2>2, <3>3, Moves
      <4> QED BY <3>1, <4>1 DEF Apart
    <3> QED BY <3>2, <3>3
  <2>3. CASE s = r
    <3>1. pc'[t] = pc[t] /\ Adding(t)
      BY <1>2, <2>3, Moves
    <3>2. /\ ~Deleting(s)
          /\ PodOf[s] = PodOf[t] => ~Adding(s) /\ ~Serving(s)
      BY <3>1 DEF Apart
    <3>3. ~StartDel(r)
      BY <2>3, <3>1 DEF StartDel, Untimely
    <3>4. PodOf[s] = PodOf[t] => ~StartAdd(r)
      BY <2>3, <3>1 DEF StartAdd, ContainersOf
    <3>5. Deleting(s)' => Deleting(s)
      BY <1>2, <2>3, <3>3, Moves
    <3>6. Adding(s)' => Adding(s) \/ StartAdd(r)
      BY <1>2, <2>3, Moves
    <3>7. Serving(s)' => Serving(s) \/ Adding(s)
      BY <1>2, <2>3, Moves
    <3> QED BY <3>2, <3>4, <3>5, <3>6, <3>7
  <2> QED BY <2>1, <2>2, <2>3
<1>3. CASE Restart
  BY <1>3, Restarted DEF Apart
<1> QED BY <1>1, <1>2, <1>3, Steps

LEMMA GuardedKept ==
    ASSUME KeepInv, Next, TypeOK', Known', Untimely \cap Races = {}
    PROVE  Guarded'
<1> USE DEF KeepInv
<1>1. CASE Restart
  <2>0. restarts \in Nat /\ restarts' = restarts + 1
    BY <1>1, ConstantsAssumption DEF Restart, TypeOK
  <2>1. restarts' # 0 /\ \A t \in Containers : ~Deleting(t)'
    BY <1>1, <2>0, Restarted DEF Deleting
  <2> QED BY <2>1 DEF Guarded
<1>2. CASE ~Restart
  (* What the pods, the watcher and the other requests do.                 *)
  <2>0. restarts' = restarts
    BY <1>2, Elsewhere, Moves, Steps
  <2>1. ASSUME NEW s \in Containers, restarts' = 0, Serving(s)'
        PROVE  entry'.containerid = s \/ Over'
    <3>1. CASE ~Serving(s)
      <4>1. PICK r \in Containers : KubeletStep(r)
        BY <1>2, <2>1, <3>1, Elsewhere, Steps DEF Serving
      <4>2. AddSave(s)
        BY <2>1, <3>1, <4>1, Moves DEF Serving
      <4>3. entry' = [entry EXCEPT !.containerid = s] /\ entry \in Entry
        BY <4>2 DEF AddSave, TypeOK
      <4> QED BY <4>3 DEF Entry
    <3>2. CASE Serving(s) /\ Over
      BY <1>2, <3>2, OverStays
    <3>3. CASE Serving(s) /\ ~Over
      <4>1. entry.containerid = s /\ InRegistry /\ entry \in Entry
        BY <2>0, <2>1, <3>3, ConstantsAssumption DEF Guarded, Known, NoEntry, TypeOK
      <4>2. CASE ApiStep
        BY <4>1, <4>2, Elsewhere
      <4>3. CASE OnDone
        <5>1. \/ entry' = entry
              \/ entry' = [entry EXCEPT !.vifOf = Head(events).pod, !.active = Head(events).active]
          BY <4>1, <4>3 DEF OnDone
        <5> QED BY <4>1, <5>1 DEF Entry
      <4>4. CASE OnDeleted
        <5>1. CASE entry' = [entry EXCEPT !.delReceived = TRUE]
          BY <4>1, <5>1 DEF Entry
        <5>2. CASE entry' = NoEntry
          <6>1. /\ events # <<>> /\ events' = Tail(events) /\ UNCHANGED pod
                /\ Head(events).type = "deleted"
            BY <4>4 DEF OnDeleted
          <6>2. Head(events) = events[1] /\ 1 \in DOMAIN events
            BY <6>1 DEF TypeOK
          <6>3. 1 = Len(events) /\ pod[events[1].pod] = "deleted"
            BY <6>1, <6>2 DEF Known
          <6>4. events' = <<>>
            BY <6>1, <6>3 DEF TypeOK
          <6>5. \A v \in Pods : ~InAPI(v)
            BY <6>2, <6>3 DEF OneAtATime, Busy, Alone, InAPI
          <6> QED BY <5>2, <6>1, <6>4, <6>5 DEF Over, InRegistry, NoEntry, InAPI
        <5> QED BY <4>1, <4>4, <5>1, <5>2 DEF OnDeleted
      <4>5. ASSUME NEW r \in Containers, KubeletStep(r)
            PROVE  entry'.containerid = s \/ Over'
        <5>1. CASE AddSave(r)
          <6>1. pc[r] = "save" /\ r # s
            BY <3>3, <5>1 DEF AddSave, Serving
          <6>2. PodOf[r] # PodOf[s]
            BY <3>3, <6>1 DEF Apart, Adding
          <6>3. Busy(PodOf[r]) /\ Busy(PodOf[s]) /\ PodOf[r] \in Pods /\ PodOf[s] \in Pods
            BY <3>3, <6>1, ConstantsAssumption DEF Busy, ContainersOf, Serving
          <6> QED BY <4>1, <6>2, <6>3, Disjoint
        <5>2. CASE DelMark(r)
          <6>1. CASE entry' = [entry EXCEPT !.unplugged = TRUE]
            BY <4>1, <6>1 DEF Entry
          <6>2. CASE entry' = NoEntry /\ entry.delReceived
            BY <5>2, <6>2 DEF DelMark, apiVars, Known, Over, InRegistry, NoEntry, InAPI
          <6> QED BY <4>1, <5>2, <6>1, <6>2 DEF DelMark
        <5> QED BY <4>1, <4>5, <5>1, <5>2, Untouched
      <4> QED BY <1>2, <4>2, <4>3, <4>4, <4>5, Steps DEF WatcherStep
    <3> QED BY <3>1, <3>2, <3>3
  <2>2. ASSUME NEW s \in Containers, NEW t \in Containers,
               s # t, PodOf[s] = PodOf[t], Serving(s)', Deleting(t)'
        PROVE  /\ restarts' = 0
               /\ pc'[t] = "check" \/ (pc'[t] = "delfind" /\ Over')
    <3>1. CASE pc'[s] = pc[s] /\ pc'[t] = pc[t]
      <4>1. Serving(s) /\ Deleting(t)
        BY <2>2, <3>1 DEF Serving, Deleting
      <4>2. restarts = 0 /\ (pc[t] = "check" \/ (pc[t] = "delfind" /\ Over))
        BY <2>2, <4>1 DEF Guarded
      <4> QED BY <1>2, <2>0, <3>1, <4>1, <4>2, OverStays
    <3>2. ASSUME NEW r \in {s, t}, KubeletStep(r)
          PROVE  /\ restarts' = 0
                 /\ pc'[t] = "check" \/ (pc'[t] = "delfind" /\ Over')
      <4>1. CASE r = s
        <5>1. pc'[t] = pc[t] /\ Deleting(t)
          BY <2>2, <3>2, <4>1, Moves DEF Deleting
        <5>2. pc[s] # "save"
          BY <2>2, <5>1 DEF Apart, Adding
        <5>3. Serving(s)
          BY <2>2, <3>2, <4>1, <5>2, Moves DEF Serving
        <5>4. restarts = 0 /\ (pc[t] = "check" \/ (pc[t] = "delfind" /\ Over))
          BY <2>2, <5>1, <5>3 DEF Guarded
        <5> QED BY <1>2, <2>0, <5>1, <5>3, <5>4, OverStays
      <4>2. CASE r = t
        <5>1. pc'[s] = pc[s] /\ Serving(s)
          BY <2>2, <3>2, <4>2, Moves DEF Serving
        <5>2. CASE StartDel(t)
          <6>1. pc'[t] = "check"
            BY <5>2, Going DEF StartDel
          <6>2. restarts = 0
            BY <2>2, <5>1, <5>2 DEF StartDel, Serving, Untimely
          <6> QED BY <2>0, <6>1, <6>2
        <5>3. CASE DelCheck(t)
          <6>1. pc[t] = "check" /\ restarts = 0
            BY <2>2, <5>1, <5>3 DEF DelCheck, Guarded, Deleting
          <6>2. pc'[t] = "delfind"
            BY <2>2, <3>2, <4>2, <5>3, <6>1, Moves DEF Deleting
          <6>3. entry.containerid # s
            BY <2>2, <5>3, <6>2, Going, ConstantsAssumption DEF DelCheck
          <6>4. Over
            BY <5>1, <6>1, <6>3 DEF Guarded
          <6> QED BY <1>2, <2>0, <5>1, <6>1, <6>2, <6>4, OverStays
        <5>4. CASE ~StartDel(t) /\ ~DelCheck(t)
          <6>1. DelFind(t) \/ DelDisconnect(t)
            BY <2>2, <3>2, <4>2, <5>4, Moves DEF Deleting
          <6>2. pc[t] \in {"delfind", "disconnect"} /\ (pc[t] = "delfind" => InRegistry)
            BY <6>1 DEF DelFind, DelDisconnect
          <6>3. pc[t] = "delfind" /\ Over
            BY <2>2, <5>1, <6>2 DEF Guarded, Deleting
          <6> QED BY <6>2, <6>3 DEF Over
        <5> QED BY <5>2, <5>3, <5>4
      <4> QED BY <4>1, <4>2
    <3> QED BY <1>2, <3>1, <3>2, Elsewhere, Moves, Steps
  <2> QED BY <2>1, <2>2 DEF Guarded
<1> QED BY <1>1, <1>2

LEMMA PluggedKept ==
    ASSUME KeepInv, Next
    PROVE  Plugged'
<1> USE DEF KeepInv
<1>1. CASE ApiStep \/ WatcherStep
  BY <1>1, Elsewhere DEF Plugged, Serving
<1>2. ASSUME NEW r \in Containers, KubeletStep(r) PROVE Plugged'
  <2> SUFFICES ASSUME NEW s \in Containers, pc'[s] = "save" \/ Serving(s)'
               PROVE  plugged'[PodOf[s]] = s
    BY DEF Plugged
  <2>0. PodOf[r] \in Pods /\ PodOf[s] \in Pods
    BY ConstantsAssumption
  <2>1. CASE r = s /\ AddConnect(s)
    <3>1. plugged' = [plugged EXCEPT ![PodOf[s]] = s]
      BY <2>1 DEF AddConnect, OwnVif
    <3> QED BY <2>0, <3>1 DEF TypeOK
  <2>2. CASE ~(r = s /\ AddConnect(s))
    <3>1. pc[s] = "save" \/ Serving(s)
      BY <1>2, <2>2, Moves DEF Serving
    <3>2. plugged[PodOf[s]] = s
      BY <3>1 DEF Plugged
    <3>3. CASE AddConnect(r)
      <4>1. r # s /\ pc[r] = "connect" /\ plugged' = [plugged EXCEPT ![PodOf[r]] = r]
        BY <2>2, <3>3 DEF AddConnect, OwnVif
      <4>2. PodOf[r] # PodOf[s]
        BY <3>1, <4>1 DEF Apart, Adding
      <4> QED BY <2>0, <3>2, <4>1, <4>2 DEF TypeOK
    <3>4. CASE DelDisconnect(r)
      <4>1. /\ pc[r] = "disconnect" /\ r # s
            /\ plugged' = [plugged EXCEPT ![PodOf[r]] = NoContainer]
        BY <3>1, <3>4 DEF DelDisconnect, OwnVif, Serving
      <4>2. PodOf[r] # PodOf[s]
        BY <3>1, <4>1 DEF Apart, Adding, Guarded, Deleting
      <4> QED BY <2>0, <3>2, <4>1, <4>2 DEF TypeOK
    <3> QED BY <1>2, <3>2, <3>3, <3>4, Untouched
  <2> QED BY <2>1, <2>2
<1>3. CASE Restart
  BY <1>3, Restarted DEF Plugged, Serving
<1> QED BY <1>1, <1>2, <1>3, Steps

LEMMA KeepInit == Init => KeepInv
<1> SUFFICES ASSUME Init PROVE KeepInv
  OBVIOUS
<1>1. TypeOK
  BY NoEntryType, ConstantsAssumption DEF Init, TypeOK, Stage
<1>2. Known
  BY DEF Init, Known, InRegistry, NoEntry
<1>3. OneAtATime /\ OwnVif /\ Apart /\ Guarded /\ Plugged
  BY DEF Init, OneAtATime, Busy, InAPI, ContainersOf, OwnVif, Apart, Adding, Guarded,
         Serving, Deleting, Plugged
<1> QED BY <1>1, <1>2, <1>3 DEF KeepInv

LEMMA KeepStep ==
    ASSUME Untimely \cap Races = {}, KeepInv, [Next]_vars
    PROVE  KeepInv'
<1>1. CASE Next
  <2>1. TypeOK'
    BY <1>1, TypeStep DEF KeepInv
  <2>2. OneAtATime' /\ Known'
    BY <1>1, <2>1, OneAtATimeKept, KnownKept
  <2>3. OwnVif' /\ Apart' /\ Plugged'
    BY <1>1, OwnVifKept, ApartKept, PluggedKept
  <2>4. Guarded'
    BY <1>1, <2>1, <2>2, GuardedKept
  <2> QED BY <2>1, <2>2, <2>3, <2>4 DEF KeepInv
<1>2. CASE UNCHANGED vars
  BY <1>2 DEF vars, apiVars, requestVars, healthVars, KeepInv, TypeOK, OneAtATime, Busy,
     InAPI, ContainersOf, Alone, Known, InRegistry, OwnVif, Apart, Adding, Deleting, Guarded,
     Serving, Over, Plugged
<1> QED BY <1>1, <1>2

(* A container that kubelet runs keeps its vif, whatever containers kubelet   *)
(* had tried before it and however often the daemon restarts: provided that   *)
(* requests of one pod do not overlap, that a name is taken again only when   *)
(* the pod before is done with, and that no DEL comes late after a restart.   *)
THEOREM Keeps ==
    ASSUME Untimely \cap Races = {}
    PROVE  Spec => []KeepsVif
<1>1. KeepInv /\ [Next]_vars => KeepInv'
  BY KeepStep
<1>2. KeepInv => KeepsVif
  BY DEF KeepInv, OwnVif, Plugged, Serving, KeepsVif
<1> QED BY <1>1, <1>2, KeepInit, PTL DEF Spec

-----------------------------------------------------------------------------
(* An entry is deleted after its last use.                                 *)

(* The registry and the watch know of one pod at a time, whether or not    *)
(* anything is under way with it.                                          *)
OneName ==
    /\ \A i \in DOMAIN events : InRegistry => events[i].pod = entry.vifOf
    /\ \A i, j \in DOMAIN events : events[i].pod = events[j].pod

(* A vif is plugged into a container of its pod, and no one plugs it again *)
(* before the DEL that has unplugged it has said so.                       *)
OwnContainers == \A u \in Pods : plugged[u] \in ContainersOf(u) \cup {NoContainer}
Marking == \A s \in Containers : pc[s] = "mark" => plugged[PodOf[s]] = NoContainer

(* vif_unplugged was set by the DEL of a container, which is done with.    *)
Released == entry.unplugged =>
    \E s \in ContainersOf(entry.vifOf) :
        pc[s] # "none" /\ ~Adding(s) /\ plugged[entry.vifOf] # s

(* If the vif has been plugged again since, then by the container that the *)
(* registry knows: its DEL will get to the vif.                            *)
Latest == entry.unplugged =>
    \A s \in ContainersOf(entry.vifOf) : plugged[entry.vifOf] = s =>
        \/ pc[s] = "save"
        \/ entry.containerid = s /\ pc[s] \notin {"none", "find", "connect", "down"}

(* Once the pod has left the API nothing plugs it again.                   *)
Unused == entry.unplugged /\ pod[entry.vifOf] = "deleted" =>
    /\ plugged[entry.vifOf] = NoContainer
    /\ \A s \in ContainersOf(entry.vifOf) : ~Adding(s)

UseInv == KeepInv /\ OneName /\ OwnContainers /\ Marking /\ Released /\ Latest /\ Unused
Early == Untimely \cup {"removal_after_retry"}

(* Whoever is at work, the registry has the vif of its pod.                *)
LEMMA Turn ==
    ASSUME KeepInv, InRegistry, NEW s \in Containers, pc[s] \notin {"none", "down"}
    PROVE  entry.vifOf = PodOf[s]
<1>1. PodOf[s] \in Pods /\ Busy(PodOf[s])
  BY ConstantsAssumption DEF Busy, ContainersOf
<1> QED BY <1>1 DEF KeepInv, OneAtATime, Alone, InRegistry

(* vif_unplugged goes with its entry only.                                 *)
LEMMA Unplugged ==
    ASSUME KeepInv, entry.unplugged
    PROVE  InRegistry /\ entry.vifOf \in Pods
<1>1. InRegistry
  BY DEF KeepInv, Known, NoEntry
<1> QED BY <1>1 DEF KeepInv, TypeOK, Entry, InRegistry

(* DELETED is the last event of a pod.                                     *)
LEMMA LastEvent ==
    ASSUME KeepInv, InRegistry, events # <<>>, Head(events).type = "deleted"
    PROVE  pod[entry.vifOf] = "deleted"
<1>1. Head(events) = events[1] /\ 1 \in DOMAIN events
  BY DEF KeepInv, TypeOK
<1>2. pod[events[1].pod] = "deleted"
  BY <1>1 DEF KeepInv, Known
<1>3. entry.vifOf \in Pods /\ pod[entry.vifOf] # "absent"
  BY DEF KeepInv, TypeOK, Entry, Known, InRegistry
<1>4. ~InAPI(entry.vifOf)
  BY <1>1, <1>2, <1>3 DEF KeepInv, OneAtATime, Busy, Alone, InAPI
<1> QED BY <1>3, <1>4 DEF KeepInv, TypeOK, InAPI

(* What the watcher and restarts make of the entry.                        *)
LEMMA Shown ==
    ASSUME KeepInv, OneName, ApiStep \/ WatcherStep \/ Restart
    PROVE  \/ ~entry'.unplugged
           \/ /\ entry'.vifOf = entry.vifOf /\ entry'.unplugged = entry.unplugged
              /\ entry'.containerid = entry.containerid
<1>0. entry \in Entry
  BY DEF KeepInv, TypeOK
<1>1. CASE ApiStep
  BY <1>1, Elsewhere
<1>2. CASE OnDone
  <2>1. CASE entry' = entry
    BY <2>1
  <2>2. CASE ~InRegistry
    BY <1>2, <2>2 DEF OnDone, NoEntry
  <2>3. CASE InRegistry /\ entry' # entry
    <3>1. /\ events # <<>>
          /\ entry' = [entry EXCEPT !.vifOf = Head(events).pod, !.active = Head(events).active]
      BY <1>2, <2>3 DEF OnDone
    <3>2. Head(events) = events[1] /\ 1 \in DOMAIN events
      BY <3>1 DEF KeepInv, TypeOK
    <3>3. Head(events).pod = entry.vifOf
      BY <2>3, <3>2 DEF OneName
    <3> QED BY <1>0, <3>1, <3>3 DEF Entry
  <2> QED BY <2>1, <2>2, <2>3
<1>3. CASE OnDeleted
  <2>1. entry' = NoEntry \/ entry' = [entry EXCEPT !.delReceived = TRUE]
    BY <1>3 DEF OnDeleted
  <2> QED BY <1>0, <2>1 DEF Entry, NoEntry
<1>4. CASE Restart
  BY <1>4 DEF Restart, NoEntry
<1> QED BY <1>1, <1>2, <1>3, <1>4 DEF WatcherStep

LEMMA OneNameKept ==
    ASSUME KeepInv, OneName, Next
    PROVE  OneName'
<1>1. ASSUME NEW u \in Pods, CreatePod(u) PROVE OneName'
  BY <1>1 DEF CreatePod, OneName, InRegistry
<1>2. ASSUME NEW u \in Pods, RemovePod(u) \/ AnnotatePod(u, TRUE) \/ AnnotatePod(u, FALSE)
      PROVE  OneName'
  <2>1. /\ InAPI(u) /\ entry' = entry
        /\ \E f : f.pod = u /\ events' = Append(events, f)
    BY <1>2 DEF RemovePod, AnnotatePod, Emit, InAPI
  <2>2. Alone(u)
    BY <2>1 DEF KeepInv, OneAtATime, Busy
  <2>3. \A i \in DOMAIN events' : events'[i].pod = u
    BY <2>1, <2>2 DEF KeepInv, TypeOK, Alone
  <2> QED BY <2>1, <2>2, <2>3 DEF OneName, Alone, InRegistry
<1>3. CASE WatcherStep
  <2>1. events # <<>> /\ events' = Tail(events)
    BY <1>3 DEF WatcherStep, OnDone, OnDeleted
  <2>2. /\ Head(events) = events[1] /\ 1 \in DOMAIN events /\ Head(events) \in Event
        /\ \A i \in DOMAIN events' : i + 1 \in DOMAIN events /\ events'[i] = events[i + 1]
    BY <2>1 DEF KeepInv, TypeOK
  <2>3. entry'.vifOf \in {NoPod, entry.vifOf, events[1].pod}
    <3>1. CASE OnDone
      BY <2>2, <3>1 DEF OnDone, NoEntry, KeepInv, TypeOK, Entry
    <3>2. CASE OnDeleted
      BY <3>2 DEF OnDeleted, NoEntry, KeepInv, TypeOK, Entry
    <3> QED BY <1>3, <3>1, <3>2 DEF WatcherStep
  <2>4. \A i \in DOMAIN events' : InRegistry' => events'[i].pod = entry'.vifOf
    BY <2>2, <2>3 DEF OneName, InRegistry
  <2>5. \A i, j \in DOMAIN events' : events'[i].pod = events'[j].pod
    BY <2>2 DEF OneName
  <2> QED BY <2>4, <2>5 DEF OneName
<1>4. ASSUME NEW s \in Containers, KubeletStep(s) PROVE OneName'
  <2>1. events' = events
    BY <1>4, Moves DEF KeepInv, apiVars
  <2>2. entry'.vifOf \in {NoPod, entry.vifOf}
    BY <1>4, Untouched DEF AddSave, DelMark, NoEntry, KeepInv, TypeOK, Entry
  <2> QED BY <2>1, <2>2 DEF OneName, InRegistry
<1>5. CASE Restart
  <2>1. ~InRegistry'
    BY <1>5 DEF Restart, InRegistry, NoEntry
  <2>2. \A i, j \in DOMAIN events' : i = j
    <3>1. CASE events' = <<>>
      BY <3>1
    <3>2. ASSUME NEW e, events' = <<e>> PROVE \A i, j \in DOMAIN events' : i = j
      BY <3>2
    <3> QED BY <1>5, <3>1, <3>2, Zenon DEF Restart
  <2> QED BY <2>1, <2>2 DEF OneName
<1> QED BY <1>1, <1>2, <1>3, <1>4, <1>5 DEF Next, KubeletStep

(* Requests.                                                               *)
LEMMA UsesVif ==
    ASSUME UseInv, NEW s \in Containers, KubeletStep(s)
    PROVE  /\ UNCHANGED <<pod, events, restarts>>
           /\ \A u \in Pods \ {PodOf[s]} : plugged'[u] = plugged[u]
           /\ plugged' = plugged \/ AddConnect(s) \/ DelDisconnect(s)
           /\ AddConnect(s) => plugged'[PodOf[s]] = s
           /\ DelDisconnect(s) => plugged'[PodOf[s]] = NoContainer
           /\ \/ entry' = entry
              \/ /\ AddSave(s) /\ entry'.vifOf = entry.vifOf
                 /\ entry'.unplugged = entry.unplugged /\ entry'.containerid = s
              \/ DelMark(s) /\ entry'.vifOf = entry.vifOf /\ entry'.unplugged
              \/ ~entry'.unplugged
<1> USE DEF UseInv, KeepInv
<1>1. UNCHANGED <<pod, events, restarts>>
  BY Moves DEF apiVars
<1>0. ~(AddConnect(s) /\ DelDisconnect(s))
  BY DEF AddConnect, DelDisconnect
<1>2. CASE AddConnect(s)
  <2>1. plugged' = [plugged EXCEPT ![PodOf[s]] = s] /\ entry' = entry
    BY <1>2 DEF AddConnect, OwnVif
  <2> QED BY <1>0, <1>1, <1>2, <2>1, ConstantsAssumption DEF TypeOK
<1>3. CASE DelDisconnect(s)
  <2>1. plugged' = [plugged EXCEPT ![PodOf[s]] = NoContainer] /\ entry' = entry
    BY <1>3 DEF DelDisconnect, OwnVif
  <2> QED BY <1>0, <1>1, <1>3, <2>1, ConstantsAssumption DEF TypeOK
<1>4. CASE AddSave(s)
  BY <1>1, <1>4 DEF AddSave, AddConnect, DelDisconnect, TypeOK, Entry
<1>5. CASE DelMark(s)
  BY <1>1, <1>5 DEF DelMark, AddConnect, DelDisconnect, TypeOK, Entry, NoEntry
<1>6. CASE plugged' = plugged /\ entry' = entry /\ ~AddConnect(s) /\ ~DelDisconnect(s)
  BY <1>1, <1>6
<1> QED BY <1>2, <1>3, <1>4, <1>5, <1>6, Untouched

LEMMA PluggedByRequests ==
    ASSUME UseInv, NEW s \in Containers, KubeletStep(s)
    PROVE  OwnContainers' /\ Marking'
<1> USE DEF UseInv, KeepInv
<1>1. OwnContainers'
  BY UsesVif, ConstantsAssumption DEF OwnContainers, ContainersOf
<1>2. ASSUME NEW t \in Containers, pc'[t] = "mark"
      PROVE  plugged'[PodOf[t]] = NoContainer
  <2>1. CASE t = s
    BY <1>2, <2>1, Moves, UsesVif
  <2>2. CASE t # s
    <3>1. pc[t] = "mark" /\ plugged[PodOf[t]] = NoContainer
      BY <1>2, <2>2, Moves DEF Marking
    <3>2. ~AddConnect(s)
      BY <2>2, <3>1 DEF AddConnect, Apart, Adding, Deleting
    <3> QED BY <3>1, <3>2, UsesVif, ConstantsAssumption
  <2> QED BY <2>1, <2>2
<1> QED BY <1>1, <1>2 DEF Marking

LEMMA ReleasedByRequests ==
    ASSUME UseInv, NEW s \in Containers, KubeletStep(s)
    PROVE  Released'
<1> USE DEF UseInv, Adding
<1> SUFFICES ASSUME entry'.unplugged
             PROVE  \E t \in ContainersOf(entry'.vifOf) :
                        pc'[t] # "none" /\ ~Adding(t)' /\ plugged'[entry'.vifOf] # t
  BY DEF Released, ContainersOf
<1>1. CASE DelMark(s) /\ entry' # entry
  <2>1. InRegistry /\ pc[s] = "mark" /\ entry'.vifOf = entry.vifOf
    BY <1>1, UsesVif DEF DelMark, NoEntry, AddSave
  <2>2. entry'.vifOf = PodOf[s] /\ plugged[PodOf[s]] = NoContainer
    BY <2>1, Turn DEF Marking
  <2>3. pc'[s] = "down" /\ plugged' = plugged
    BY <1>1, Going DEF DelMark, KeepInv
  <2> QED BY <2>2, <2>3, ConstantsAssumption DEF ContainersOf
<1>2. CASE ~(DelMark(s) /\ entry' # entry)
  <2>1. entry.unplugged /\ entry'.vifOf = entry.vifOf
    BY <1>2, UsesVif
  <2>2. PICK t \in ContainersOf(entry.vifOf) :
            pc[t] # "none" /\ ~Adding(t) /\ plugged[entry.vifOf] # t
    BY <2>1 DEF Released
  <2>3. t \in Containers /\ entry.vifOf \in Pods
    BY <2>1, Unplugged DEF ContainersOf
  <2>4. pc'[t] # "none" /\ ~Adding(t)'
    BY <2>2, <2>3, Moves DEF KeepInv
  <2>5. plugged'[entry.vifOf] # t
    BY <2>2, <2>3, UsesVif, ConstantsAssumption DEF AddConnect
  <2> QED BY <2>1, <2>2, <2>4, <2>5
<1> QED BY <1>1, <1>2

LEMMA LatestByRequests ==
    ASSUME UseInv, NEW s \in Containers, KubeletStep(s)
    PROVE  Latest'
<1> USE DEF UseInv
<1> SUFFICES ASSUME entry'.unplugged, NEW t \in ContainersOf(entry'.vifOf),
                    plugged'[entry'.vifOf] = t
             PROVE  \/ pc'[t] = "save"
                    \/ /\ entry'.containerid = t
                       /\ pc'[t] \notin {"none", "find", "connect", "down"}
  BY DEF Latest, ContainersOf
<1>0. t \in Containers /\ t # NoContainer
  BY ConstantsAssumption DEF ContainersOf
<1>1. CASE DelMark(s)
  <2>1. InRegistry /\ pc[s] = "mark" /\ entry'.vifOf = entry.vifOf
    BY <1>1, UsesVif DEF DelMark, NoEntry, AddSave
  <2>2. entry'.vifOf = PodOf[s] /\ plugged[PodOf[s]] = NoContainer
    BY <2>1, Turn DEF Marking
  <2>3. plugged' = plugged
    BY <1>1 DEF DelMark
  <2> QED BY <1>0, <2>2, <2>3
<1>2. CASE ~DelMark(s)
  <2>1. /\ entry.unplugged /\ entry'.vifOf = entry.vifOf
        /\ InRegistry /\ entry.vifOf \in Pods
    BY <1>2, UsesVif, Unplugged
  <2>2. CASE AddConnect(s)
    <3>1. PodOf[s] = entry.vifOf /\ pc'[s] = "save"
      BY <2>1, <2>2, Turn, Going DEF AddConnect, KeepInv
    <3>2. plugged'[PodOf[s]] = s
      BY <2>2, UsesVif
    <3> QED BY <2>1, <3>1, <3>2
  <2>3. CASE DelDisconnect(s)
    <3>1. PodOf[s] = entry.vifOf /\ plugged'[PodOf[s]] = NoContainer
      BY <2>1, <2>3, Turn, UsesVif DEF DelDisconnect
    <3> QED BY <1>0, <2>1, <3>1
  <2>4. CASE plugged' = plugged
    <3>1. \/ pc[t] = "save"
          \/ entry.containerid = t /\ pc[t] \notin {"none", "find", "connect", "down"}
      BY <2>1, <2>4 DEF Latest
    <3>2. CASE t # s
      <4>1. ~AddSave(s)
        <5>1. AddSave(s) => PodOf[s] = entry.vifOf /\ plugged[PodOf[s]] = s
          BY <2>1, Turn DEF AddSave, KeepInv, Plugged
        <5> QED BY <2>1, <2>4, <3>2, <5>1
      <4>2. entry' = entry /\ pc'[t] = pc[t]
        BY <1>0, <1>2, <3>2, <4>1, Moves, Untouched DEF KeepInv
      <4> QED BY <3>1, <4>2
    <3>3. CASE t = s /\ pc[s] = "save"
      <4>1. AddSave(s)
        BY <2>1, <3>3 DEF KubeletStep, StartAdd, StartDel, RequestStep, AddFind, AddConnect,
           AddDone, AddFails, DelCheck, DelFind, DelFindTimeout, DelDisconnect, DelFails, DelMark
      <4>2. pc'[s] = "wait" /\ entry'.containerid = s
        BY <4>1, Going DEF AddSave, KeepInv, TypeOK, Entry
      <4> QED BY <3>3, <4>2
    <3>4. CASE t = s /\ pc[s] # "save"
      <4>1. entry.containerid = s /\ pc[s] \notin {"none", "find", "connect", "down"}
        BY <3>1, <3>4
      <4>2. entry' = entry
        BY <1>2, <3>4, Untouched DEF AddSave
      <4>3. pc'[s] \notin {"none", "find", "connect"}
        BY <4>1, Moves DEF KeepInv
      <4>4. pc'[s] # "down"
        <5>1. ~DelFindTimeout(s)
          BY <2>1 DEF DelFindTimeout
        <5>2. DelCheck(s) => pc'[s] = "delfind"
          BY <4>1, Going DEF DelCheck, KeepInv
        <5> QED BY <1>2, <5>1, <5>2, Moves DEF KeepInv
      <4> QED BY <3>4, <4>1, <4>2, <4>3, <4>4
    <3> QED BY <3>2, <3>3, <3>4
  <2> QED BY <2>2, <2>3, <2>4, Untouched
<1> QED BY <1>1, <1>2

LEMMA UnusedByRequests ==
    ASSUME UseInv, NEW s \in Containers, KubeletStep(s)
    PROVE  Unused'
<1> USE DEF UseInv, Adding
<1> SUFFICES ASSUME entry'.unplugged, pod'[entry'.vifOf] = "deleted"
             PROVE  /\ plugged'[entry'.vifOf] = NoContainer
                    /\ \A t \in ContainersOf(entry'.vifOf) : ~Adding(t)'
  BY DEF Unused, ContainersOf
<1>1. CASE DelMark(s)
  <2>1. InRegistry /\ pc[s] = "mark" /\ entry'.vifOf = entry.vifOf
    BY <1>1, UsesVif DEF DelMark, NoEntry, AddSave
  <2>2. entry'.vifOf = PodOf[s] /\ plugged[PodOf[s]] = NoContainer
    BY <2>1, Turn DEF Marking
  <2>3. pc'[s] = "down" /\ plugged' = plugged
    BY <1>1, Going DEF DelMark, KeepInv
  <2>4. ASSUME NEW t \in Containers \ {s} PROVE ~Adding(t)'
    BY <2>1, Moves DEF KeepInv, Apart, Deleting
  <2> QED BY <2>2, <2>3, <2>4 DEF ContainersOf
<1>2. CASE ~DelMark(s)
  <2>1. /\ entry.unplugged /\ entry'.vifOf = entry.vifOf /\ pod' = pod
        /\ InRegistry /\ entry.vifOf \in Pods
    BY <1>2, UsesVif, Unplugged
  <2>2. /\ plugged[entry.vifOf] = NoContainer
        /\ \A t \in ContainersOf(entry.vifOf) : ~Adding(t)
    BY <2>1 DEF Unused
  <2>3. PodOf[s] = entry.vifOf => ~AddConnect(s) /\ ~StartAdd(s)
    BY <2>1, <2>2 DEF ContainersOf, AddConnect, StartAdd, InAPI
  <2>4. plugged'[entry.vifOf] = NoContainer
    BY <2>1, <2>2, <2>3, UsesVif
  <2>5. ASSUME NEW t \in ContainersOf(entry.vifOf) PROVE ~Adding(t)'
    BY <2>2, <2>3, Moves DEF KeepInv, ContainersOf
  <2> QED BY <2>1, <2>4, <2>5
<1> QED BY <1>1, <1>2

(* A pod leaves the API.                                                   *)
LEMMA UnusedOnRemoval ==
    ASSUME UseInv, "removal_after_retry" \notin Races, NEW u \in Pods, RemovePod(u),
           entry.unplugged, entry.vifOf = u
    PROVE  /\ plugged[u] = NoContainer
           /\ \A s \in ContainersOf(u) : ~Adding(s)
<1> USE DEF UseInv
<1>1. PICK s \in ContainersOf(u) : pc[s] # "none" /\ ~Adding(s) /\ plugged[u] # s
  BY DEF Released
<1>2. \A t \in ContainersOf(u) : plugged[u] = t => pc[t] \notin {"none", "down"}
  BY DEF Latest
<1>3. plugged[u] \in ContainersOf(u) \cup {NoContainer}
  BY DEF OwnContainers
<1>4. CASE Stages(u) \subseteq {"none", "down"}
  <2>1. \A t \in ContainersOf(u) : pc[t] \in {"none", "down"}
    BY <1>4 DEF Stages
  <2> QED BY <1>2, <1>3, <2>1 DEF Adding
<1>5. CASE \A t, r \in ContainersOf(u) : pc[t] # "none" /\ pc[r] # "none" => t = r
  <2>1. \A t \in ContainersOf(u) : pc[t] # "none" => t = s
    BY <1>1, <1>5
  <2> QED BY <1>1, <1>2, <1>3, <2>1 DEF Adding
<1> QED BY <1>4, <1>5 DEF RemovePod

LEMMA UseStep ==
    ASSUME Early \cap Races = {}, UseInv, Next
    PROVE  UseInv'
<1> USE DEF UseInv
<1>0. Untimely \cap Races = {} /\ "removal_after_retry" \notin Races
  BY DEF Early
<1>1. KeepInv' /\ OneName'
  BY <1>0, KeepStep, OneNameKept
<1>2. CASE ApiStep \/ WatcherStep
  <2>1. UNCHANGED <<pc, plugged>>
    BY <1>2, Elsewhere
  <2>2. OwnContainers' /\ Marking'
    BY <2>1 DEF OwnContainers, Marking
  <2>3. Released' /\ Latest'
    BY <1>2, <2>1, Shown DEF Released, Latest, ContainersOf, Adding
  <2>4. Unused'
    <3>1. CASE \E u \in Pods : RemovePod(u)
      <4>1. PICK u \in Pods : RemovePod(u)
        BY <3>1
      <4>2. entry' = entry /\ \A v \in Pods \ {u} : pod'[v] = pod[v]
        BY <4>1 DEF RemovePod, KeepInv, TypeOK
      <4> QED BY <1>0, <2>1, <4>1, <4>2, UnusedOnRemoval, Unplugged DEF Unused, ContainersOf, Adding
    <3>2. CASE ~\E u \in Pods : RemovePod(u)
      <4>1. \A v \in Pods : pod'[v] = "deleted" => pod[v] = "deleted"
        BY <1>2, <3>2 DEF ApiStep, CreatePod, AnnotatePod, WatcherStep, OnDone, OnDeleted,
           KeepInv, TypeOK
      <4> QED BY <1>2, <2>1, <4>1, Shown, Unplugged DEF Unused, ContainersOf, Adding
    <3> QED BY <3>1, <3>2
  <2> QED BY <1>1, <2>2, <2>3, <2>4
<1>3. ASSUME NEW s \in Containers, KubeletStep(s) PROVE UseInv'
  BY <1>1, <1>3, PluggedByRequests, ReleasedByRequests, LatestByRequests, UnusedByRequests
<1>4. CASE Restart
  <2>1. ~entry'.unplugged /\ plugged' = plugged
    BY <1>4 DEF Restart, NoEntry
  <2>2. \A s \in Containers : pc'[s] # "mark"
    BY <1>4, Restarted
  <2> QED BY <1>1, <2>1, <2>2 DEF OwnContainers, Marking, Released, Latest, Unused
<1> QED BY <1>2, <1>3, <1>4, Steps

(* An entry is deleted when its pod has left the API and nothing has its vif  *)
(* plugged in, whichever of DEL and DELETED comes last: provided that         *)
(* requests and names do not overlap, that no DEL comes late, and that a pod  *)
(* that needed a second container leaves the API after its last DEL.          *)
THEOREM DeletesAfterUse ==
    ASSUME Early \cap Races = {}
    PROVE  Spec => DeletedAfterUse
<1> DEFINE Gone == InRegistry /\ ~InRegistry' /\ restarts' = restarts =>
                       /\ pod[entry.vifOf] = "deleted"
                       /\ plugged[entry.vifOf] = NoContainer
<1>1. Init => UseInv
  <2> SUFFICES ASSUME Init PROVE UseInv
    OBVIOUS
  <2>1. KeepInv
    BY KeepInit
  <2>2. OneName /\ OwnContainers /\ Marking
    BY DEF Init, OneName, OwnContainers, Marking
  <2>3. Released /\ Latest /\ Unused
    BY DEF Init, NoEntry, Released, Latest, Unused
  <2> QED BY <2>1, <2>2, <2>3 DEF UseInv
<1>2. UseInv /\ [Next]_vars => UseInv'
  <2> SUFFICES ASSUME UseInv, UNCHANGED vars PROVE UseInv'
    BY UseStep
  <2>1. KeepInv'
    BY KeepStep DEF UseInv, Early
  <2> QED
    BY <2>1 DEF vars, apiVars, requestVars, UseInv, OneName, InRegistry, OwnContainers, Marking,
       Released, Latest, Unused, Adding, ContainersOf
<1>3. UseInv /\ Next => Gone
  <2> SUFFICES ASSUME UseInv, Next, InRegistry, ~InRegistry', restarts' = restarts
               PROVE  pod[entry.vifOf] = "deleted" /\ plugged[entry.vifOf] = NoContainer
    OBVIOUS
  <2> USE DEF UseInv
  <2>0. entry \in Entry /\ entry' # entry
    BY DEF KeepInv, TypeOK, InRegistry
  <2>1. ~ApiStep
    BY <2>0, Elsewhere
  <2>2. ~Restart
    BY ConstantsAssumption DEF Restart, KeepInv, TypeOK
  <2>3. ~OnDone
    <3> SUFFICES ASSUME OnDone PROVE FALSE
      OBVIOUS
    <3>1. /\ events # <<>> /\ events \in Seq(Event)
          /\ entry' = [entry EXCEPT !.vifOf = Head(events).pod, !.active = Head(events).active]
      BY <2>0 DEF OnDone, KeepInv, TypeOK
    <3>2. Head(events).pod # NoPod
      BY <3>1, HeadType, ConstantsAssumption DEF Event
    <3> QED BY <2>0, <3>1, <3>2 DEF InRegistry, Entry
  <2>4. CASE OnDeleted
    <3>1. entry.unplugged /\ pod[entry.vifOf] = "deleted"
      BY <2>0, <2>4, LastEvent DEF OnDeleted, InRegistry, Entry
    <3> QED BY <3>1 DEF Unused
  <2>5. ASSUME NEW s \in Containers, KubeletStep(s)
        PROVE  pod[entry.vifOf] = "deleted" /\ plugged[entry.vifOf] = NoContainer
    <3>1. DelMark(s)
      BY <2>0, <2>5, Untouched DEF AddSave, InRegistry, Entry
    <3>2. pc[s] = "mark" /\ entry.delReceived
      BY <2>0, <3>1 DEF DelMark, InRegistry, Entry
    <3>3. entry.vifOf = PodOf[s] /\ entry.vifOf \in Pods
      BY <3>2, Turn, ConstantsAssumption
    <3>4. pod[entry.vifOf] # "absent" /\ ~InAPI(entry.vifOf)
      BY <3>2, <3>3 DEF KeepInv, Known
    <3> QED BY <3>2, <3>3, <3>4 DEF Marking, KeepInv, TypeOK, InAPI
  <2> QED BY <2>1, <2>2, <2>3, <2>4, <2>5, Steps DEF WatcherStep
<1>4. UseInv /\ [Next]_vars => [Gone]_vars
  BY <1>3
<1> QED BY <1>1, <1>2, <1>4, PTL DEF Spec, DeletedAfterUse
=============================================================================

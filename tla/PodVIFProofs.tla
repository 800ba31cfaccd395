---------------------------- MODULE PodVIFProofs ----------------------------
(***************************************************************************)
(* Theorems of PodVIF: types, that the vifs of the annotations work, and   *)
(* that no others are left behind.                                         *)
(***************************************************************************)
EXTENDS PodVIF, TLAPS

Over == {"completed", "gone"}

(* The ports that a pod, its event or its thread names.                    *)
Names(p) == pod[p].vifs \cup event[p].vifs \cup work[p].obj.vifs \cup work[p].vifs
            \cup ({work[p].port} \ {None})

(* No two pods name one port.                                              *)
Apart == \A p, q \in Pods : p # q => Names(p) \cap Names(q) = {}

(* A thread whose revision is the last has read what the node's port has.  *)
Current == \A p \in Pods : work[p].fresh => work[p].read = pairs

(* The vifs that the pod is annotated with, or was as far as its event and *)
(* the snapshot of its thread know.                                        *)
Told(p) == pod[p].vifs \cup event[p].vifs \cup work[p].obj.vifs

(* A snapshot is of the past of the pod.                                   *)
Past(p) == event[p].st \in Over \/ work[p].obj.st \in Over => pod[p].st \in Over

(* What a thread that requests has requested is there and has never been   *)
(* annotated; what is released is not the vifs of a pod that needs them.   *)
Requesting(p) ==
    /\ work[p].vifs \subseteq ports \cap pairs /\ work[p].vifs \cap Told(p) = {}
    /\ work[p].port # None => work[p].port \in ports \ Told(p)
    /\ work[p].pc = "pair" => work[p].port # None
    /\ work[p].pc = "annotate" => work[p].vifs # {} /\ work[p].port = None

Releasing(p) ==
    /\ pod[p].st \in Over \/ work[p].vifs \cap Told(p) = {}
    /\ work[p].vifs # {}
    /\ work[p].port # None => work[p].port \in work[p].vifs
    /\ work[p].pc # "release" => work[p].port # None

Thread(p) ==
    /\ work[p].pc \in {"request", "pair", "annotate"} => Requesting(p)
    /\ work[p].pc \in {"release", "unpair", "delete"} => Releasing(p)
    /\ work[p].pc = "activate" => work[p].vifs = work[p].obj.vifs /\ work[p].vifs # {}
    /\ work[p].pc \in {"idle", "again", "activate", "clear"} => work[p].port = None

Works(p) == pod[p].st \notin Over => Told(p) \subseteq ports \cap pairs

Fits(p) == Past(p) /\ Thread(p) /\ Works(p)

PodInv == TypeOK /\ Apart /\ Current /\ \A p \in Pods : Fits(p)

-----------------------------------------------------------------------------
Acts(p) == CreatePod(p) \/ TouchPod(p) \/ PodRuns(p) \/ PodCompletes(p)
           \/ DeletePod(p) \/ Deliver(p) \/ PodStep(p) \/ Fails(p)

LEMMA IdleType == Idle \in WorkType /\ NoEvent \in ObjType
BY PodVIFAssumption DEF Idle, NoEvent, ObjType, WorkType, States

LEMMA TriesIn == Attempts \in 1..Attempts /\ \A n \in 1..Attempts : n > 1 => n - 1 \in 1..Attempts
BY PodVIFAssumption

(* Updates of a thread's record keep its type.                             *)
LEMMA WorkUpdates ==
    ASSUME NEW w \in WorkType, NEW vs \in SUBSET Ports, NEW n \in 1..Attempts,
           NEW pc \in {"request", "annotate", "release"}, NEW q \in Ports \cup {None}
    PROVE  /\ [w EXCEPT !.pc = "release", !.vifs = vs, !.tries = Attempts] \in WorkType
           /\ [w EXCEPT !.tries = n, !.pc = pc] \in WorkType
           /\ [w EXCEPT !.vifs = vs, !.port = q, !.tries = n, !.pc = pc] \in WorkType
           /\ Unread(w) \in WorkType
<1>1. [w EXCEPT !.pc = "release", !.vifs = vs, !.tries = Attempts] \in WorkType
  BY TriesIn DEF WorkType
<1>2. [w EXCEPT !.tries = n, !.pc = pc] \in WorkType
  BY DEF WorkType
<1>3. [w EXCEPT !.vifs = vs, !.port = q, !.tries = n, !.pc = pc] \in WorkType
  BY DEF WorkType
<1>4. Unread(w) \in WorkType
  BY DEF WorkType, Unread
<1> QED BY <1>1, <1>2, <1>3, <1>4

(* The types after a step of a pod's users, watch or thread.               *)
LEMMA TypeStep ==
    ASSUME TypeOK, NEW p \in Pods, Acts(p), Is(p, "pair") => work[p].port # None
    PROVE  TypeOK'
<1> USE DEF TypeOK
<1> USE PodVIFAssumption
<1>o. pod[p] \in PodType /\ event[p] \in ObjType /\ work[p] \in WorkType /\ work[p].obj \in ObjType
  BY DEF WorkType
<1>s. Seen(p) \in ObjType
  BY <1>o DEF Seen, PodType, ObjType
<1>c. ASSUME Change PROVE changes' \in 0..MaxChanges
  BY <1>c DEF Change
<1>t. ASSUME Trouble PROVE troubles' \in 0..MaxTroubles
  BY <1>t DEF Trouble
<1>e. ASSUME Ends(p) PROVE work' \in [Pods -> WorkType]
  BY <1>e, IdleType DEF Ends
<1>g. ASSUME GivenUp(p) PROVE work' \in [Pods -> WorkType] /\ alive' \in BOOLEAN
  BY <1>g, <1>e DEF GivenUp
<1>r. ASSUME Retried(p) PROVE work' \in [Pods -> WorkType]
  <2>1. [Idle EXCEPT !.pc = "again", !.obj = work[p].obj] \in WorkType
    BY IdleType, <1>o DEF WorkType
  <2> QED BY <1>r, <2>1 DEF Retried
<1>l. ASSUME Releases(p, work[p].vifs) PROVE work' \in [Pods -> WorkType]
  <2>1. [work[p] EXCEPT !.pc = "release", !.vifs = work[p].vifs, !.tries = Attempts] \in WorkType
    <3>1. work[p].vifs \in SUBSET Ports
      BY <1>o DEF WorkType
    <3> QED BY <1>o, <3>1, WorkUpdates, TriesIn
  <2> QED BY <1>l, <2>1 DEF Releases
<1>v. ASSUME NEW vs \in SUBSET Ports, NEW act \in BOOLEAN, Stores(p, vs, act)
      PROVE  pod' \in [Pods -> PodType]
  <2>1. [pod[p] EXCEPT !.vifs = vs, !.active = act,
                       !.news = @ \/ pod[p].vifs # vs \/ pod[p].active # act] \in PodType
    BY <1>o DEF PodType
  <2> QED BY <1>v, <2>1 DEF Stores
<1>1. CASE CreatePod(p)
  BY <1>c, <1>1 DEF CreatePod, PodType, States
<1>2. CASE TouchPod(p)
  BY <1>c, <1>2 DEF TouchPod, PodType
<1>3. CASE PodRuns(p)
  BY <1>3 DEF PodRuns, PodType, States
<1>4. CASE PodCompletes(p)
  BY <1>c, <1>4 DEF PodCompletes, PodType, States
<1>5. CASE DeletePod(p)
  BY <1>c, <1>5 DEF DeletePod, PodType, States
<1>6. CASE Deliver(p)
  BY <1>s, <1>6 DEF Deliver, PodType
<1>7. ASSUME NEW obj \in ObjType PROVE Start(p, obj) \in WorkType
  <2>1. ASSUME NEW pc \in {"again", "release", "request", "activate"}, NEW vs \in SUBSET Ports
        PROVE  [Idle EXCEPT !.pc = pc, !.obj = obj, !.vifs = vs] \in WorkType
    BY IdleType DEF WorkType
  <2>2. obj.vifs \in SUBSET Ports /\ {} \in SUBSET Ports
    BY DEF ObjType
  <2> QED BY <2>1, <2>2, IdleType DEF Start
<1>8. CASE Take(p)
  BY <1>7, <1>o, <1>8, IdleType DEF Take
<1>9. CASE RetryAgain(p)
  BY <1>7, <1>o, <1>9 DEF RetryAgain
<1>10. CASE GiveUp(p)
  BY <1>g, <1>t, <1>10 DEF GiveUp
<1>11. CASE PairRefused(p)
  <2>1. troubles' \in 0..MaxTroubles
    BY <1>t, <1>11 DEF PairRefused
  <2>2. CASE work[p].tries > 1
    <3> DEFINE pc == IF Is(p, "pair") THEN "request" ELSE "release"
    <3>1. work[p].tries - 1 \in 1..Attempts
      BY <1>o, <2>2, TriesIn DEF WorkType
    <3>2. Unread(work[p]) \in WorkType
      BY <1>o, <3>1, WorkUpdates
    <3>3. [Unread(work[p]) EXCEPT !.tries = work[p].tries - 1, !.pc = pc] \in WorkType
      BY <3>1, <3>2, WorkUpdates
    <3> QED BY <1>11, <2>1, <2>2, <3>3 DEF PairRefused
  <2>3. CASE ~(work[p].tries > 1)
    BY <1>g, <1>11, <2>1, <2>3 DEF PairRefused
  <2> QED BY <2>2, <2>3
<1>12. CASE CreatePort(p)
  <2> DEFINE q == IF work[p].port = None THEN NewPort ELSE work[p].port
  <2>1. q \in Ports
    BY <1>o, <1>12 DEF CreatePort, NewPort, WorkType
  <2>2. [ReadPairs(work[p]) EXCEPT !.port = q, !.pc = "pair"] \in WorkType
    BY <1>o, <2>1 DEF WorkType, ReadPairs
  <2> QED BY <2>1, <2>2, <1>12 DEF CreatePort
<1>u. ASSUME NEW w \in WorkType, Updating(p, w) PROVE work' \in [Pods -> WorkType]
  BY <1>u DEF Updating, WorkType
<1>13. CASE AddPair(p)
  <2>1. work[p].port \in Ports
    BY <1>o, <1>13 DEF AddPair, WorkType
  <2>2. Requested(p) \in WorkType
    <3>1. work[p].vifs \cup {work[p].port} \in SUBSET Ports
      BY <1>o, <2>1 DEF WorkType
    <3>2. Unread(work[p]) \in WorkType
      BY <1>o, <3>1, WorkUpdates, TriesIn
    <3> QED BY <3>1, <3>2, WorkUpdates, TriesIn DEF Requested
  <2> QED BY <1>o, <1>u, <1>13, <2>1, <2>2 DEF AddPair, WorkType
<1>14. CASE Annotate(p)
  BY <1>e, <1>v, <1>o, <1>14 DEF Annotate, WorkType
<1>15. CASE AnnotateRefused(p)
  <2>1. work' \in [Pods -> WorkType]
    BY <1>r, <1>l, <1>15 DEF AnnotateRefused
  <2>2. work[p].vifs \in SUBSET Ports
    BY <1>o DEF WorkType
  <2>3. [pod EXCEPT ![p].news = TRUE] \in [Pods -> PodType]
    BY <1>o DEF PodType
  <2>4. pod' \in [Pods -> PodType]
    BY <1>v, <1>15, <2>2, <2>3 DEF AnnotateRefused
  <2>5. troubles' \in 0..MaxTroubles
    BY <1>t, <1>15 DEF AnnotateRefused
  <2> QED BY <1>15, <2>1, <2>4, <2>5 DEF AnnotateRefused
<1>16. CASE Activate(p)
  BY <1>l, <1>e, <1>v, <1>o, <1>16 DEF Activate, WorkType
<1>17. CASE Clear(p)
  BY <1>r, <1>e, <1>v, <1>17 DEF Clear
<1>18. CASE AnnotationFails(p)
  BY <1>r, <1>t, <1>18 DEF AnnotationFails
<1>19. CASE FetchPort(p)
  <2>1. [ReadPairs(work[p]) EXCEPT !.port = ItsPort(p), !.pc = "unpair"] \in WorkType
    BY <1>o, <1>19 DEF FetchPort, ReadPairs, WorkType
  <2> QED BY <1>19, <2>1 DEF FetchPort
<1>20. CASE PortNotFound(p)
  BY <1>g, <1>20 DEF PortNotFound
<1>21. CASE RemovePair(p)
  <2>1. [Unread(work[p]) EXCEPT !.pc = "delete"] \in WorkType
    BY <1>o DEF Unread, WorkType
  <2> QED BY <1>o, <1>u, <1>21, <2>1 DEF RemovePair, WorkType
<1>22. CASE DeletePort(p)
  <2> DEFINE left == work[p].vifs \ {work[p].port}
  <2>1. [Idle EXCEPT !.pc = "clear", !.obj = work[p].obj] \in WorkType
    BY <1>o, IdleType DEF WorkType
  <2>2. [work[p] EXCEPT !.vifs = left, !.port = None, !.tries = Attempts, !.pc = "release"] \in WorkType
    <3>1. left \in SUBSET Ports
      BY <1>o DEF WorkType
    <3> QED BY <1>o, <3>1, WorkUpdates, TriesIn
  <2> QED BY <2>1, <2>2, <1>22, IdleType DEF DeletePort
<1> QED
  BY <1>1, <1>2, <1>3, <1>4, <1>5, <1>6, <1>8, <1>9, <1>10, <1>11, <1>12, <1>13, <1>14, <1>15,
     <1>16, <1>17, <1>18, <1>19, <1>20, <1>21, <1>22 DEF Acts, PodStep, Fails

LEMMA TypeRestart ==
    ASSUME TypeOK, Restart
    PROVE  TypeOK'
<1>1. troubles' \in 0..MaxTroubles
  BY PodVIFAssumption DEF TypeOK, Restart, Trouble
<1>2. \A p \in Pods : [pod[p] EXCEPT !.news = FALSE] \in PodType
  BY DEF TypeOK, PodType
<1>3. \A p \in Pods : Seen(p) \in ObjType
  BY DEF TypeOK, Seen, PodType, ObjType
<1> QED BY <1>1, <1>2, <1>3, IdleType DEF TypeOK, Restart

-----------------------------------------------------------------------------
(* What a step of p leaves of the others.                                  *)
Alone(p) ==
    /\ \A q \in Pods \ {p} :
          /\ pod'[q] = pod[q] /\ event'[q] = event[q]
          /\ work'[q].pc = work[q].pc /\ work'[q].obj = work[q].obj
          /\ work'[q].vifs = work[q].vifs /\ work'[q].port = work[q].port
    /\ ports \ Names(p) \subseteq ports' /\ pairs \ Names(p) \subseteq pairs'
    /\ \A q \in Pods \ {p} : Names(p)' \cap Names(q) \subseteq Names(p)

(* It is enough to look at p.                                              *)
LEMMA OthersFit ==
    ASSUME PodInv, NEW p \in Pods, Alone(p), TypeOK', Current', Fits(p)'
    PROVE  PodInv'
<1>1. ASSUME NEW q \in Pods \ {p} PROVE Names(q)' = Names(q)
  BY DEF Alone, Names
<1>2. Apart'
  <2> SUFFICES ASSUME NEW q \in Pods, NEW r \in Pods, q # r
               PROVE  Names(q)' \cap Names(r)' = {}
    BY DEF Apart
  <2>1. Names(q) \cap Names(r) = {}
    BY DEF PodInv, Apart
  <2>2. CASE q # p /\ r # p
    BY <1>1, <2>1, <2>2
  <2>3. CASE q = p
    BY <1>1, <2>1, <2>3 DEF Alone
  <2>4. CASE r = p
    BY <1>1, <2>1, <2>4 DEF Alone
  <2> QED BY <2>2, <2>3, <2>4
<1>3. ASSUME NEW q \in Pods \ {p} PROVE Fits(q)'
  <2>1. Fits(q) /\ Names(q) \cap Names(p) = {}
    BY DEF PodInv, Apart
  <2>2. pod[q].vifs \subseteq Names(q) /\ work[q].vifs \subseteq Names(q)
        /\ (work[q].port # None => work[q].port \in Names(q))
    BY DEF Names
  <2>3. /\ \A x \in Names(q) : (x \in ports => x \in ports') /\ (x \in pairs => x \in pairs')
    BY <2>1 DEF Alone
  <2>4. Past(q)'
    BY <2>1 DEF Alone, Fits, Past
  <2>t. Told(q)' = Told(q) /\ Told(q) \subseteq Names(q)
    BY DEF Alone, Told, Names
  <2>5. Works(q)'
    BY <2>1, <2>3, <2>t DEF Alone, Fits, Works
  <2>6. Requesting(q) => Requesting(q)'
    BY <2>2, <2>3, <2>t DEF Alone, Requesting
  <2>7. Releasing(q) => Releasing(q)'
    BY <2>t DEF Alone, Releasing
  <2>8. Thread(q)'
    BY <2>1, <2>6, <2>7 DEF Alone, Fits, Thread
  <2> QED BY <2>4, <2>5, <2>8 DEF Fits
<1> QED BY <1>2, <1>3 DEF PodInv

(* Pods change and events are told without the threads.                    *)
LEMMA PodChanges ==
    ASSUME PodInv, NEW p \in Pods, NEW x \in PodType, TypeOK',
           x.vifs = pod[p].vifs, pod[p].st \in Over => x.st \in Over,
           pod' = [pod EXCEPT ![p] = x],
           event' = event \/ event' = [event EXCEPT ![p] = Seen(p)],
           UNCHANGED <<work, ports, pairs>>
    PROVE  PodInv'
<1>1. /\ pod'[p] = x
      /\ \A q \in Pods \ {p} : pod'[q] = pod[q] /\ event'[q] = event[q]
      /\ event'[p] = event[p] \/ event'[p] = Seen(p)
  BY DEF PodInv, TypeOK
<1>2. Seen(p).st = pod[p].st /\ Seen(p).vifs = pod[p].vifs
  BY DEF Seen
<1>3. Alone(p)
  BY <1>1, <1>2 DEF Alone, Names
<1>4. Current'
  BY DEF PodInv, Current
<1>5. Fits(p)
  BY DEF PodInv
<1>6. Past(p)'
  BY <1>1, <1>2, <1>5 DEF Fits, Past
<1>t. Told(p)' \subseteq Told(p)
  BY <1>1, <1>2 DEF Told
<1>7. Works(p)'
  BY <1>1, <1>5, <1>t DEF Fits, Works
<1>8. (Requesting(p) => Requesting(p)') /\ (Releasing(p) => Releasing(p)')
  BY <1>1, <1>t DEF Requesting, Releasing
<1>9. Thread(p)'
  BY <1>1, <1>5, <1>8 DEF Fits, Thread
<1> QED BY <1>3, <1>4, <1>6, <1>7, <1>9, OthersFit DEF Fits

(* The thread goes on from w, and only the thread.                         *)
LEMMA ThreadGoesOn ==
    ASSUME PodInv, NEW p \in Pods, NEW w \in WorkType, TypeOK',
           work' = [work EXCEPT ![p] = w], w.fresh => w.read = pairs,
           \A q \in Pods \ {p} : pod'[q] = pod[q] /\ event'[q] = event[q],
           ports \ Names(p) \subseteq ports', pairs' = pairs,
           \A q \in Pods \ {p} : Names(p)' \cap Names(q) \subseteq Names(p),
           Fits(p)'
    PROVE  PodInv'
<1>1. work'[p] = w /\ \A q \in Pods \ {p} : work'[q] = work[q]
  BY DEF PodInv, TypeOK
<1>2. Alone(p)
  BY <1>1 DEF Alone
<1>3. Current'
  BY <1>1 DEF PodInv, Current
<1> QED BY <1>2, <1>3, OthersFit

(* The handler's thread at the start, and after it has ended.              *)
LEMMA StartFits ==
    ASSUME PodInv, NEW p \in Pods, NEW obj \in ObjType, TypeOK',
           obj.vifs \subseteq Told(p), obj.st \in Over => pod[p].st \in Over,
           work' = [work EXCEPT ![p] = Start(p, obj)],
           event' = event \/ event' = [event EXCEPT ![p] = NoEvent],
           UNCHANGED <<pod, ports, pairs>>
    PROVE  PodInv'
<1> DEFINE w == Start(p, obj)
<1>1. /\ w.pc \in {"idle", "release", "request", "activate"}
      /\ ~w.fresh /\ w.port = None /\ w.vifs \subseteq obj.vifs
      /\ w.obj \in {obj, NoEvent} /\ (w.pc # "idle" => w.obj = obj)
  BY DEF Start, Idle
<1>2. /\ w.pc = "release" => w.vifs # {} /\ obj.st \in Over
      /\ w.pc = "request" => w.vifs = {} /\ obj.vifs = {}
      /\ w.pc = "activate" => w.vifs # {} /\ w.vifs = obj.vifs
  BY DEF Start, Idle, Over
<1>3. work'[p] = w /\ w \in WorkType /\ NoEvent.vifs = {} /\ NoEvent.st \notin Over
  BY DEF PodInv, TypeOK, NoEvent, Over
<1>4. /\ \A q \in Pods \ {p} : event'[q] = event[q]
      /\ event'[p] \in {event[p], NoEvent}
  BY DEF PodInv, TypeOK
<1>t. Told(p)' \subseteq Told(p) /\ Told(p) \subseteq Names(p)
  BY <1>1, <1>3, <1>4 DEF Told, Names
<1>5. Names(p)' \subseteq Names(p)
  <2>1. Names(p)' = Told(p)' \cup w.vifs
    BY <1>1, <1>3 DEF Names, Told
  <2> QED BY <1>1, <1>t, <2>1
<1>6. Fits(p)
  BY DEF PodInv
<1>7. Past(p)'
  BY <1>1, <1>3, <1>4, <1>6 DEF Fits, Past
<1>8. Thread(p)'
  BY <1>1, <1>2, <1>3 DEF Thread, Requesting, Releasing
<1>9. Works(p)'
  BY <1>6, <1>t DEF Fits, Works
<1> QED BY <1>1, <1>3, <1>4, <1>5, <1>7, <1>8, <1>9, ThreadGoesOn DEF Fits

(* The thread ends or waits to try again, whatever it leaves behind; the   *)
(* annotation stays as it was, or is emptied, or names what is there.      *)
LEMMA StopFits ==
    ASSUME PodInv, NEW p \in Pods, TypeOK', Ends(p) \/ Retried(p),
           \A q \in Pods \ {p} : pod'[q] = pod[q], pod'[p].st = pod[p].st,
           pod'[p].vifs \subseteq Names(p),
           pod[p].st \notin Over => pod'[p].vifs \subseteq ports \cap pairs,
           UNCHANGED <<event, ports, pairs>>
    PROVE  PodInv'
<1> DEFINE again == [Idle EXCEPT !.pc = "again", !.obj = work[p].obj]
<1>1. PICK w \in {Idle, again} : work' = [work EXCEPT ![p] = w]
  BY DEF Ends, Retried
<1>2. /\ work'[p] = w /\ w.vifs = {} /\ w.port = None /\ ~w.fresh
      /\ w.pc \in {"idle", "again"} /\ w.obj \in {NoEvent, work[p].obj}
  <2>1. work'[p] = w
    BY <1>1 DEF PodInv, TypeOK
  <2>2. /\ Idle.vifs = {} /\ Idle.port = None /\ ~Idle.fresh /\ Idle.pc = "idle"
        /\ Idle.obj = NoEvent
    BY DEF Idle
  <2>3. /\ again.vifs = {} /\ again.port = None /\ ~again.fresh /\ again.pc = "again"
        /\ again.obj = work[p].obj
    BY DEF Idle
  <2> QED BY <2>1, <2>2, <2>3
<1>3. NoEvent.vifs = {} /\ NoEvent.st \notin Over
  BY DEF NoEvent, Over
<1>4. w \in WorkType
  BY <1>2 DEF TypeOK
<1>5. Told(p)' \subseteq Told(p) \cup pod'[p].vifs /\ Names(p)' = Told(p)'
  BY <1>2, <1>3 DEF Told, Names
<1>6. Names(p)' \subseteq Names(p)
  BY <1>5 DEF Told, Names
<1>7. Past(p)' /\ Thread(p)'
  BY <1>2, <1>3 DEF PodInv, Fits, Past, Thread
<1>8. Works(p)'
  BY <1>5 DEF PodInv, Fits, Works
<1> QED BY <1>1, <1>2, <1>4, <1>6, <1>7, <1>8, ThreadGoesOn DEF Fits

(* Releasing begins with vifs that the pod does not need.                  *)
LEMMA ReleasesFits ==
    ASSUME PodInv, NEW p \in Pods, TypeOK', work[p].pc \in {"annotate", "activate"},
           Releases(p, work[p].vifs), pod[p].st \in Over \/ work[p].vifs \cap Told(p) = {},
           \A q \in Pods \ {p} : pod'[q] = pod[q],
           pod'[p].st = pod[p].st, pod'[p].vifs = pod[p].vifs,
           UNCHANGED <<event, ports, pairs>>
    PROVE  PodInv'
<1> DEFINE w == [work[p] EXCEPT !.pc = "release", !.vifs = work[p].vifs, !.tries = Attempts]
<1>1. work' = [work EXCEPT ![p] = w]
  BY DEF Releases
<1>2. work[p] \in WorkType /\ Fits(p) /\ (work[p].fresh => work[p].read = pairs)
  BY DEF PodInv, TypeOK, Current
<1>3. /\ work'[p] = w /\ w.pc = "release" /\ w.vifs = work[p].vifs /\ w.port = work[p].port
      /\ w.obj = work[p].obj /\ (w.fresh => w.read = pairs)
  BY <1>1, <1>2 DEF PodInv, TypeOK, WorkType
<1>4. w \in WorkType
  BY <1>3 DEF TypeOK
<1>5. Names(p)' \subseteq Names(p) /\ Told(p)' = Told(p)
  BY <1>3 DEF Names, Told
<1>6. w.port = None /\ w.vifs # {}
  BY <1>2, <1>3 DEF Fits, Thread, Requesting
<1>7. Past(p)' /\ Works(p)' /\ Releasing(p)'
  BY <1>2, <1>3, <1>5, <1>6 DEF Fits, Past, Releasing, Works
<1>8. Fits(p)'
  BY <1>3, <1>7 DEF Fits, Thread
<1> QED BY <1>1, <1>3, <1>4, <1>5, <1>8, ThreadGoesOn
-----------------------------------------------------------------------------
(* What is stored replaces the vifs of the annotation, and nothing else    *)
(* that matters here.                                                      *)
LEMMA Stored ==
    ASSUME TypeOK, NEW p \in Pods, NEW vs, NEW act, Stores(p, vs, act)
    PROVE  /\ pod'[p].vifs = vs /\ pod'[p].st = pod[p].st
           /\ \A q \in Pods \ {p} : pod'[q] = pod[q]
BY DEF TypeOK, PodType, Stores

LEMMA AllKnown == ASSUME PodInv, NEW q \in Pods PROVE Names(q) \subseteq Known
<1>1. work[q].port # None => work[q].port \in ports \cup work[q].vifs
  BY DEF PodInv, TypeOK, WorkType, Fits, Thread, Requesting, Releasing
<1>2. pod[q].vifs \cup event[q].vifs \cup work[q].vifs \cup work[q].obj.vifs \subseteq Known
  BY DEF Known
<1>3. ports \subseteq Known
  BY DEF Known
<1> QED BY <1>1, <1>2, <1>3 DEF Names

(* A port is created with an id that no one knows.                         *)
LEMMA CreatePortFits ==
    ASSUME PodInv, NEW p \in Pods, TypeOK', CreatePort(p)
    PROVE  PodInv'
<1> DEFINE q == IF work[p].port = None THEN NewPort ELSE work[p].port
           w == [ReadPairs(work[p]) EXCEPT !.port = q, !.pc = "pair"]
<1>1. /\ work[p] \in WorkType /\ Fits(p)
      /\ Is(p, "request") /\ ports' = ports \cup {q} /\ work' = [work EXCEPT ![p] = w]
      /\ UNCHANGED <<pod, event, pairs>>
  BY DEF CreatePort, PodInv, TypeOK
<1>2. NewPort \in Ports \ Known
  BY DEF CreatePort, NewPort
<1>3. q \in Ports /\ q # None
  BY <1>1, <1>2, PodVIFAssumption DEF WorkType
<1>4. /\ work'[p] = w /\ w.pc = "pair" /\ w.port = q /\ w.read = pairs
      /\ w.vifs = work[p].vifs /\ w.obj = work[p].obj
  BY <1>1 DEF PodInv, TypeOK, WorkType, ReadPairs
<1>5. w \in WorkType
  BY <1>4 DEF TypeOK
<1>6. Names(p)' \subseteq Names(p) \cup {q}
  BY <1>1, <1>4 DEF Names
<1>7. \A r \in Pods \ {p} : q \notin Names(p) => q \notin Names(r)
  <2>1. CASE work[p].port = None
    BY <1>2, <2>1, AllKnown
  <2>2. CASE work[p].port # None
    BY <2>2 DEF Names
  <2> QED BY <2>1, <2>2
<1>t. Told(p)' = Told(p) /\ q \notin Told(p)
  <2>1. Told(p)' = Told(p)
    BY <1>1, <1>4 DEF Told
  <2>2. Told(p) \subseteq Known
    BY DEF Told, Known
  <2> QED BY <1>1, <1>2, <2>1, <2>2 DEF Is, Fits, Thread, Requesting
<1>8. Requesting(p)'
  BY <1>1, <1>3, <1>4, <1>t DEF Is, Fits, Thread, Requesting
<1>9. Fits(p)'
  <2>1. Past(p)' /\ Works(p)'
    BY <1>1, <1>4, <1>t DEF Fits, Past, Works
  <2> QED BY <1>4, <1>8, <2>1 DEF Fits, Thread
<1> HIDE DEF q, w
<1> QED BY <1>1, <1>4, <1>5, <1>6, <1>7, <1>9, ThreadGoesOn

(* The revision is the last, so the others' pairs are written as they are. *)
LEMMA AddPairFits ==
    ASSUME PodInv, NEW p \in Pods, TypeOK', AddPair(p)
    PROVE  PodInv'
<1> DEFINE w == Requested(p)
<1>1. /\ work[p] \in WorkType /\ Fits(p) /\ Is(p, "pair") /\ work[p].read = pairs
      /\ pairs' = pairs \cup {work[p].port} /\ Updating(p, w)
      /\ UNCHANGED <<pod, event, ports>>
  BY DEF AddPair, MayUpdate, PodInv, TypeOK, Current
<1>2. Requesting(p) /\ work[p].port # None
  BY <1>1 DEF Is, Fits, Thread, Requesting
<1>3. /\ w.vifs = work[p].vifs \cup {work[p].port} /\ w.port = None /\ ~w.fresh
      /\ w.obj = work[p].obj /\ w.pc \in {"request", "annotate"}
  BY <1>1 DEF Requested, Unread, WorkType
<1>4. work'[p] = w
  BY <1>1 DEF Updating
<1>5. \A q \in Pods \ {p} : /\ work'[q].pc = work[q].pc /\ work'[q].obj = work[q].obj
                            /\ work'[q].vifs = work[q].vifs /\ work'[q].port = work[q].port
                            /\ ~work'[q].fresh
  BY <1>1 DEF Updating, PodInv, TypeOK, WorkType
<1>6. Current'
  BY <1>3, <1>4, <1>5 DEF Current
<1>7. Names(p)' \subseteq Names(p)
  BY <1>1, <1>2, <1>3, <1>4 DEF Names
<1>8. Alone(p)
  BY <1>1, <1>5, <1>7 DEF Alone
<1>t. Told(p)' = Told(p)
  BY <1>1, <1>3, <1>4 DEF Told
<1>9. Requesting(p)'
  BY <1>1, <1>2, <1>3, <1>4, <1>t DEF Requesting
<1>10. Fits(p)'
  <2>1. Past(p)' /\ Works(p)'
    BY <1>1, <1>3, <1>4, <1>t DEF Fits, Past, Works
  <2> QED BY <1>3, <1>4, <1>9, <2>1 DEF Fits, Thread
<1> QED BY <1>6, <1>8, <1>10, OthersFit

LEMMA FetchPortFits ==
    ASSUME PodInv, NEW p \in Pods, TypeOK', FetchPort(p)
    PROVE  PodInv'
<1> DEFINE w == [ReadPairs(work[p]) EXCEPT !.port = ItsPort(p), !.pc = "unpair"]
<1>1. /\ work[p] \in WorkType /\ Fits(p) /\ Is(p, "release") /\ ItsPort(p) \in ports
      /\ work' = [work EXCEPT ![p] = w] /\ UNCHANGED <<pod, event, ports, pairs>>
  BY DEF FetchPort, PodInv, TypeOK
<1>2. Releasing(p)
  BY <1>1 DEF Is, Fits, Thread
<1>3. ItsPort(p) \in work[p].vifs /\ ItsPort(p) # None
  BY <1>1, <1>2, PodVIFAssumption DEF ItsPort, Releasing, PodInv, TypeOK
<1>4. /\ work'[p] = w /\ w.pc = "unpair" /\ w.port = ItsPort(p) /\ w.read = pairs
      /\ w.vifs = work[p].vifs /\ w.obj = work[p].obj
  BY <1>1 DEF PodInv, TypeOK, WorkType, ReadPairs
<1>5. w \in WorkType
  BY <1>4 DEF TypeOK
<1>6. Names(p)' \subseteq Names(p)
  BY <1>1, <1>3, <1>4 DEF Names
<1>t. Told(p)' = Told(p)
  BY <1>1, <1>4 DEF Told
<1>7. Releasing(p)'
  BY <1>1, <1>2, <1>3, <1>4, <1>t DEF Releasing
<1>8. Fits(p)'
  <2>1. Past(p)' /\ Works(p)'
    BY <1>1, <1>4, <1>t DEF Fits, Past, Works
  <2> QED BY <1>4, <1>7, <2>1 DEF Fits, Thread
<1> QED BY <1>1, <1>4, <1>5, <1>6, <1>8, ThreadGoesOn

LEMMA RemovePairFits ==
    ASSUME PodInv, NEW p \in Pods, TypeOK', RemovePair(p)
    PROVE  PodInv'
<1> DEFINE w == [Unread(work[p]) EXCEPT !.pc = "delete"]
<1>1. /\ work[p] \in WorkType /\ Fits(p) /\ Is(p, "unpair")
      /\ UNCHANGED <<pod, event, ports>>
  BY DEF RemovePair, PodInv, TypeOK
<1>2. Releasing(p) /\ work[p].port # None
  BY <1>1 DEF Is, Fits, Thread, Releasing
<1>3. /\ w.vifs = work[p].vifs /\ w.port = work[p].port /\ ~w.fresh
      /\ w.obj = work[p].obj /\ w.pc = "delete"
  BY <1>1 DEF Unread, WorkType
<1>4. /\ work'[p] = w
      /\ \A q \in Pods \ {p} : \/ work'[q] = work[q] /\ pairs' = pairs
                             \/ work'[q] = [work[q] EXCEPT !.fresh = FALSE]
      /\ pairs' \in {pairs, pairs \ {work[p].port}}
  <2>1. CASE work[p].port \in work[p].read
    BY <2>1 DEF RemovePair, MayUpdate, Updating, PodInv, Current
  <2>2. CASE work[p].port \notin work[p].read
    BY <2>2 DEF RemovePair, PodInv, TypeOK
  <2> QED BY <2>1, <2>2
<1>5. \A q \in Pods \ {p} : /\ work'[q].pc = work[q].pc /\ work'[q].obj = work[q].obj
                            /\ work'[q].vifs = work[q].vifs /\ work'[q].port = work[q].port
  <2> SUFFICES ASSUME NEW q \in Pods \ {p}
               PROVE  /\ work'[q].pc = work[q].pc /\ work'[q].obj = work[q].obj
                      /\ work'[q].vifs = work[q].vifs /\ work'[q].port = work[q].port
    OBVIOUS
  <2>1. CASE work'[q] = [work[q] EXCEPT !.fresh = FALSE]
    BY <2>1 DEF PodInv, TypeOK, WorkType
  <2> QED BY <1>4, <2>1
<1>6. Current'
  <2> SUFFICES ASSUME NEW q \in Pods, work'[q].fresh PROVE work'[q].read = pairs'
    BY DEF Current
  <2>1. CASE q = p
    BY <1>3, <1>4, <2>1
  <2>2. CASE q # p /\ work'[q] = work[q] /\ pairs' = pairs
    BY <2>2 DEF PodInv, Current
  <2>3. CASE q # p /\ work'[q] = [work[q] EXCEPT !.fresh = FALSE]
    BY <2>3 DEF PodInv, TypeOK, WorkType
  <2> QED BY <1>4, <2>1, <2>2, <2>3
<1>7. Names(p)' = Names(p) /\ work[p].port \in Names(p)
  BY <1>1, <1>2, <1>3, <1>4 DEF Names
<1>8. Alone(p)
  BY <1>1, <1>4, <1>5, <1>7 DEF Alone
<1>t. Told(p)' = Told(p)
  BY <1>1, <1>3, <1>4 DEF Told
<1>9. Releasing(p)'
  BY <1>1, <1>2, <1>3, <1>4, <1>t DEF Releasing
<1>10. Works(p)'
  <2>1. pod[p].st \notin Over => work[p].port \notin Told(p)
    BY <1>2 DEF Releasing
  <2> QED BY <1>1, <1>4, <1>t, <2>1 DEF Fits, Works
<1>11. Fits(p)'
  BY <1>1, <1>3, <1>4, <1>9, <1>10 DEF Is, Fits, Past, Thread
<1> QED BY <1>6, <1>8, <1>11, OthersFit

LEMMA DeletePortFits ==
    ASSUME PodInv, NEW p \in Pods, TypeOK', DeletePort(p)
    PROVE  PodInv'
<1> DEFINE left == work[p].vifs \ {work[p].port}
           more == [work[p] EXCEPT !.vifs = left, !.port = None, !.tries = Attempts,
                                   !.pc = "release"]
           clear == [Idle EXCEPT !.pc = "clear", !.obj = work[p].obj]
           w == IF left # {} THEN more ELSE IF work[p].obj.st = "completed" THEN clear ELSE Idle
<1>1. /\ work[p] \in WorkType /\ Fits(p) /\ Is(p, "delete")
      /\ work' = [work EXCEPT ![p] = w] /\ work'[p] = w /\ ports' = ports \ {work[p].port}
      /\ UNCHANGED <<pod, event, pairs>>
  BY DEF DeletePort, PodInv, TypeOK
<1>2. Releasing(p) /\ work[p].port \in Names(p)
  BY <1>1 DEF Is, Fits, Thread, Releasing, Names
<1>3. w \in WorkType
  BY <1>1 DEF TypeOK
<1>4. /\ w.port = None /\ w.vifs \subseteq work[p].vifs
      /\ w.obj \in {work[p].obj, NoEvent} /\ (w.pc # "idle" => w.obj = work[p].obj)
      /\ w.pc \in {"release", "clear", "idle"} /\ (w.pc = "release" => w.vifs # {})
      /\ w.fresh => w.read = pairs
  <2>1. CASE w = more /\ left # {}
    <3>1. /\ more.vifs = left /\ more.port = None /\ more.pc = "release"
          /\ more.obj = work[p].obj /\ more.fresh = work[p].fresh /\ more.read = work[p].read
      BY <1>1 DEF WorkType
    <3> QED BY <2>1, <3>1 DEF PodInv, Current
  <2>2. CASE w = clear
    <3>1. /\ clear.vifs = {} /\ clear.port = None /\ clear.pc = "clear"
          /\ clear.obj = work[p].obj /\ ~clear.fresh
      BY DEF Idle
    <3> QED BY <2>2, <3>1
  <2>3. CASE w = Idle
    BY <2>3 DEF Idle
  <2> QED BY <2>1, <2>2, <2>3
<1>5. NoEvent.vifs = {} /\ NoEvent.st \notin Over
  BY DEF NoEvent, Over
<1>6. Names(p)' \subseteq Names(p)
  BY <1>1, <1>4, <1>5 DEF Names
<1>7. Past(p)'
  BY <1>1, <1>4, <1>5 DEF Is, Fits, Past
<1>t. Told(p)' \subseteq Told(p)
  BY <1>1, <1>4, <1>5 DEF Told
<1>8. Releasing(p)' \/ w.pc # "release"
  BY <1>1, <1>2, <1>4, <1>t DEF Releasing
<1>9. Thread(p)'
  BY <1>1, <1>4, <1>8 DEF Thread
<1>10. Works(p)'
  <2>1. pod[p].st \notin Over => work[p].port \notin Told(p)
    BY <1>1, <1>2 DEF Is, Releasing
  <2> QED BY <1>1, <1>t, <2>1 DEF Fits, Works
<1> QED BY <1>1, <1>2, <1>3, <1>4, <1>6, <1>7, <1>9, <1>10, ThreadGoesOn DEF Fits

(* Neutron refuses the update of the pairs.                                *)
LEMMA PairRefusedFits ==
    ASSUME PodInv, NEW p \in Pods, TypeOK', PairRefused(p)
    PROVE  PodInv'
<1> DEFINE pc == IF Is(p, "pair") THEN "request" ELSE "release"
           w == [Unread(work[p]) EXCEPT !.tries = work[p].tries - 1, !.pc = pc]
<1>1. /\ work[p] \in WorkType /\ Fits(p) /\ Holding(p)
      /\ UNCHANGED <<pod, event, ports, pairs>>
  BY DEF PairRefused, PodInv, TypeOK
<1>2. CASE ~(work[p].tries > 1)
  <2>1. /\ Ends(p) /\ pod[p].vifs \subseteq Names(p)
        /\ pod[p].st \notin Over => pod[p].vifs \subseteq ports \cap pairs
    BY <1>1, <1>2 DEF PairRefused, GivenUp, Names, Fits, Works, Told
  <2> QED BY <1>1, <2>1, StopFits
<1>3. CASE work[p].tries > 1
  <2>1. work' = [work EXCEPT ![p] = w] /\ work'[p] = w
    BY <1>3 DEF PairRefused, PodInv, TypeOK
  <2>2. /\ w.vifs = work[p].vifs /\ w.port = work[p].port /\ ~w.fresh
        /\ w.obj = work[p].obj /\ w.pc = pc
    BY <1>1 DEF Unread, WorkType
  <2>3. w \in WorkType
    BY <2>1 DEF TypeOK
  <2>4. Names(p)' \subseteq Names(p)
    BY <1>1, <2>1, <2>2 DEF Names
  <2>5. IF Is(p, "pair") THEN Requesting(p) ELSE Releasing(p)
    BY <1>1 DEF Holding, Is, Fits, Thread
  <2>t. Told(p)' = Told(p)
    BY <1>1, <2>1, <2>2 DEF Told
  <2>6. IF Is(p, "pair") THEN Requesting(p)' ELSE Releasing(p)'
    BY <1>1, <2>1, <2>2, <2>5, <2>t DEF Requesting, Releasing
  <2>7. Thread(p)'
    <3>1. CASE Is(p, "pair")
      <4>1. work'[p].pc = "request" /\ Requesting(p)'
        BY <2>1, <2>2, <2>6, <3>1
      <4> QED BY <4>1 DEF Thread
    <3>2. CASE ~Is(p, "pair")
      <4>1. work'[p].pc = "release" /\ Releasing(p)'
        BY <2>1, <2>2, <2>6, <3>2
      <4> QED BY <4>1 DEF Thread
    <3> QED BY <3>1, <3>2
  <2>8. Past(p)' /\ Works(p)'
    BY <1>1, <2>1, <2>2, <2>t DEF Fits, Past, Works
  <2> QED BY <1>1, <2>1, <2>2, <2>3, <2>4, <2>7, <2>8, ThreadGoesOn DEF Fits
<1> QED BY <1>2, <1>3

LEMMA RestartFits ==
    ASSUME PodInv, TypeOK', Restart
    PROVE  PodInv'
<1>1. \A p \in Pods : /\ pod'[p].st = pod[p].st /\ pod'[p].vifs = pod[p].vifs
                      /\ work'[p] = Idle /\ event'[p] \in {NoEvent, Seen(p)}
  BY DEF Restart, PodInv, TypeOK, PodType
<1>2. /\ NoEvent.vifs = {} /\ NoEvent.st \notin Over
      /\ Idle.vifs = {} /\ Idle.port = None /\ ~Idle.fresh /\ Idle.pc = "idle"
      /\ Idle.obj = NoEvent
      /\ \A p \in Pods : Seen(p).vifs = pod[p].vifs /\ Seen(p).st = pod[p].st
  BY DEF Idle, NoEvent, Over, Seen
<1>3. Current'
  BY <1>1, <1>2 DEF Current
<1>4. \A p \in Pods : Names(p)' \subseteq Names(p)
  BY <1>1, <1>2 DEF Names
<1>5. Apart'
  BY <1>4 DEF PodInv, Apart
<1>6. ASSUME NEW p \in Pods PROVE Fits(p)'
  <2>0. Told(p)' = pod[p].vifs
    BY <1>1, <1>2 DEF Told
  <2>1. Works(p)'
    BY <1>1, <2>0 DEF Restart, PodInv, Fits, Works, Told
  <2> QED BY <1>1, <1>2, <2>1 DEF Fits, Past, Thread
<1> QED BY <1>3, <1>5, <1>6 DEF PodInv
-----------------------------------------------------------------------------
(* Every step of a pod keeps the invariant.                                *)
LEMMA Step ==
    ASSUME PodInv, NEW p \in Pods, Acts(p)
    PROVE  PodInv'
<1>1. /\ TypeOK /\ Fits(p) /\ pod[p] \in PodType /\ event[p] \in ObjType
      /\ work[p] \in WorkType /\ work[p].obj \in ObjType
  BY DEF PodInv, TypeOK, WorkType
<1>2. TypeOK'
  BY <1>1, TypeStep DEF Fits, Thread, Requesting, Is
<1>3. CASE CreatePod(p)
  <2> DEFINE x == [pod[p] EXCEPT !.st = "pending", !.news = TRUE]
  <2>1. x \in PodType /\ x.vifs = pod[p].vifs /\ (pod[p].st \in Over => x.st \in Over)
    BY <1>1, <1>3 DEF CreatePod, PodType, States, Over
  <2>2. pod' = [pod EXCEPT ![p] = x] /\ UNCHANGED <<event, work, ports, pairs>>
    BY <1>3 DEF CreatePod
  <2> QED BY <1>2, <2>1, <2>2, PodChanges
<1>4. CASE TouchPod(p)
  <2> DEFINE x == [pod[p] EXCEPT !.news = TRUE]
  <2>1. x \in PodType /\ x.vifs = pod[p].vifs /\ (pod[p].st \in Over => x.st \in Over)
    BY <1>1 DEF PodType
  <2>2. pod' = [pod EXCEPT ![p] = x] /\ UNCHANGED <<event, work, ports, pairs>>
    BY <1>4 DEF TouchPod
  <2> QED BY <1>2, <2>1, <2>2, PodChanges
<1>5. CASE PodRuns(p)
  <2> DEFINE x == [pod[p] EXCEPT !.st = "running", !.news = TRUE]
  <2>1. x \in PodType /\ x.vifs = pod[p].vifs /\ (pod[p].st \in Over => x.st \in Over)
    BY <1>1, <1>5 DEF PodRuns, PodType, States, Over
  <2>2. pod' = [pod EXCEPT ![p] = x] /\ UNCHANGED <<event, work, ports, pairs>>
    BY <1>5 DEF PodRuns
  <2> QED BY <1>2, <2>1, <2>2, PodChanges
<1>6. CASE PodCompletes(p)
  <2> DEFINE x == [pod[p] EXCEPT !.st = "completed", !.news = TRUE]
  <2>1. x \in PodType /\ x.vifs = pod[p].vifs /\ (pod[p].st \in Over => x.st \in Over)
    BY <1>1 DEF PodType, States, Over
  <2>2. pod' = [pod EXCEPT ![p] = x] /\ UNCHANGED <<event, work, ports, pairs>>
    BY <1>6 DEF PodCompletes
  <2> QED BY <1>2, <2>1, <2>2, PodChanges
<1>7. CASE DeletePod(p)
  <2> DEFINE x == [pod[p] EXCEPT !.st = "gone", !.news = TRUE]
  <2>1. x \in PodType /\ x.vifs = pod[p].vifs /\ (pod[p].st \in Over => x.st \in Over)
    BY <1>1 DEF PodType, States, Over
  <2>2. pod' = [pod EXCEPT ![p] = x] /\ UNCHANGED <<event, work, ports, pairs>>
    BY <1>7 DEF DeletePod
  <2> QED BY <1>2, <2>1, <2>2, PodChanges
<1>8. CASE Deliver(p)
  <2> DEFINE x == [pod[p] EXCEPT !.news = FALSE]
  <2>1. x \in PodType /\ x.vifs = pod[p].vifs /\ (pod[p].st \in Over => x.st \in Over)
    BY <1>1 DEF PodType
  <2>2. /\ pod' = [pod EXCEPT ![p] = x] /\ event' = [event EXCEPT ![p] = Seen(p)]
        /\ UNCHANGED <<work, ports, pairs>>
    BY <1>8 DEF Deliver
  <2> QED BY <1>2, <2>1, <2>2, PodChanges
<1>9. CASE Take(p)
  BY <1>1, <1>2, <1>9, StartFits DEF Take, Fits, Past, Told
<1>10. CASE RetryAgain(p)
  BY <1>1, <1>2, <1>10, StartFits DEF RetryAgain, Fits, Past, Told
<1>11. /\ pod[p].vifs \subseteq Names(p) /\ work[p].vifs \subseteq Names(p) /\ {} \subseteq Names(p)
       /\ pod[p].st \notin Over => Told(p) \subseteq ports \cap pairs
       /\ pod[p].vifs \subseteq Told(p)
  BY <1>1 DEF Names, Told, Fits, Works
<1>12. CASE GiveUp(p)
  BY <1>2, <1>11, <1>12, StopFits DEF GiveUp, GivenUp
<1>13. CASE PairRefused(p)
  BY <1>2, <1>13, PairRefusedFits
<1>14. CASE CreatePort(p)
  BY <1>2, <1>14, CreatePortFits
<1>15. CASE AddPair(p)
  BY <1>2, <1>15, AddPairFits
(* Where vifs are stored, they are there, or they are none.                *)
<1>n. ASSUME NEW vs \in {work[p].vifs, {}}, NEW act, Stores(p, vs, act), Ends(p) \/ Retried(p),
             work[p].pc \in {"annotate", "activate", "clear"}, vs = {} \/ work[p].pc # "clear",
             UNCHANGED <<event, ports, pairs>>
      PROVE  PodInv'
  <2>1. /\ pod'[p].vifs = vs /\ pod'[p].st = pod[p].st
        /\ \A q \in Pods \ {p} : pod'[q] = pod[q]
    BY <1>1, <1>n, Stored
  <2>2. CASE vs = {}
    BY <1>2, <1>n, <1>11, <2>1, <2>2, StopFits
  <2>3. CASE work[p].pc = "annotate"
    <3>1. Requesting(p)
      BY <1>1, <2>3 DEF Fits, Thread
    <3>2. vs \subseteq ports \cap pairs /\ vs \subseteq Names(p)
      BY <1>11, <3>1 DEF Requesting
    <3> QED BY <1>2, <1>n, <2>1, <3>2, StopFits
  <2>4. CASE work[p].pc = "activate"
    <3>1. work[p].vifs = work[p].obj.vifs
      BY <1>1, <2>4 DEF Fits, Thread
    <3>2. vs \subseteq Told(p) /\ vs \subseteq Names(p)
      BY <1>11, <3>1 DEF Told
    <3> QED BY <1>2, <1>n, <1>11, <2>1, <3>2, StopFits
  <2> QED BY <1>n, <2>2, <2>3, <2>4
<1>16. CASE Annotate(p)
  BY <1>16, <1>n DEF Annotate, Is
<1>17. CASE AnnotateRefused(p)
  <2>1. Is(p, "annotate") /\ work[p].vifs \cap Told(p) = {} /\ UNCHANGED <<event, ports, pairs>>
    BY <1>1, <1>17 DEF AnnotateRefused, Is, Fits, Thread, Requesting
  <2>2. CASE Releases(p, work[p].vifs) /\ (pod' = pod \/ pod' = [pod EXCEPT ![p].news = TRUE])
    <3>1. /\ pod'[p].vifs = pod[p].vifs /\ pod'[p].st = pod[p].st
          /\ \A q \in Pods \ {p} : pod'[q] = pod[q]
      BY <1>1, <2>2 DEF TypeOK, PodType
    <3> QED BY <1>2, <2>1, <2>2, <3>1, ReleasesFits DEF Is
  <2>3. CASE Retried(p) /\ pod' = pod
    BY <1>2, <1>11, <2>1, <2>3, StopFits
  <2>4. CASE Retried(p) /\ Stores(p, work[p].vifs, FALSE)
    BY <1>n, <2>1, <2>4 DEF Is
  <2> QED BY <1>17, <2>2, <2>3, <2>4 DEF AnnotateRefused
<1>18. CASE Activate(p)
  <2>1. CASE pod[p].st = "gone"
    BY <1>2, <1>18, <2>1, ReleasesFits DEF Activate, Is, Over
  <2>2. CASE pod[p].st # "gone"
    BY <1>18, <1>n, <2>2 DEF Activate, Is
  <2> QED BY <2>1, <2>2
<1>19. CASE Clear(p)
  <2>1. CASE pod[p].st = "gone"
    BY <1>2, <1>11, <1>19, <2>1, StopFits DEF Clear
  <2>2. CASE pod[p].st # "gone"
    BY <1>19, <1>n, <2>2 DEF Clear, Is
  <2> QED BY <2>1, <2>2
<1>20. CASE AnnotationFails(p)
  BY <1>2, <1>11, <1>20, StopFits DEF AnnotationFails
<1>21. CASE FetchPort(p)
  BY <1>2, <1>21, FetchPortFits
<1>22. CASE PortNotFound(p)
  BY <1>2, <1>11, <1>22, StopFits DEF PortNotFound, GivenUp
<1>23. CASE RemovePair(p)
  BY <1>2, <1>23, RemovePairFits
<1>24. CASE DeletePort(p)
  BY <1>2, <1>24, DeletePortFits
<1> QED
  BY <1>3, <1>4, <1>5, <1>6, <1>7, <1>8, <1>9, <1>10, <1>12, <1>13, <1>14, <1>15, <1>16, <1>17,
     <1>18, <1>19, <1>20, <1>21, <1>22, <1>23, <1>24 DEF Acts, PodStep, Fails

LEMMA InitFits == Init => PodInv
<1> SUFFICES ASSUME Init PROVE PodInv
  OBVIOUS
<1>1. TypeOK
  <2>1. [st |-> "none", vifs |-> {}, active |-> FALSE, news |-> FALSE] \in PodType
    BY DEF PodType, States
  <2> QED BY <2>1, IdleType, PodVIFAssumption DEF Init, TypeOK
<1>2. \A p \in Pods : /\ pod[p].st = "none" /\ pod[p].vifs = {} /\ event[p] = NoEvent
                      /\ work[p] = Idle
  BY DEF Init
<1>3. /\ NoEvent.vifs = {} /\ NoEvent.st \notin Over
      /\ Idle.vifs = {} /\ Idle.port = None /\ ~Idle.fresh /\ Idle.pc = "idle"
      /\ Idle.obj = NoEvent
  BY DEF Idle, NoEvent, Over
<1>4. Apart /\ Current
  BY <1>2, <1>3 DEF Apart, Names, Current
<1>5. \A p \in Pods : Fits(p)
  BY <1>2, <1>3 DEF Fits, Past, Thread, Works, Told
<1> QED BY <1>1, <1>4, <1>5 DEF PodInv

(* The threads of a node's pods do not get in each other's way, whatever   *)
(* fails, however often the controller restarts, and whichever version of  *)
(* its pod a handler sees (VIFHandler.on_present).                         *)
THEOREM Kept == Spec => []PodInv
<1>1. PodInv /\ [Next]_vars => PodInv'
  <2> SUFFICES ASSUME PodInv, [Next]_vars PROVE PodInv'
    OBVIOUS
  <2>1. CASE Restart
    BY <2>1, TypeRestart, RestartFits DEF PodInv
  <2>2. CASE UNCHANGED vars
    BY <2>2 DEF vars, PodInv, TypeOK, Apart, Names, Told, Current, Fits, Past, Thread,
                Requesting, Releasing, Works
  <2>3. CASE \E p \in Pods : Acts(p)
    BY <2>3, Step
  <2> QED BY <2>1, <2>2, <2>3 DEF Next, Acts
<1> QED BY <1>1, InitFits, PTL DEF Spec

(* Pods, events, threads and the node's port have their types.             *)
THEOREM Types == Spec => []TypeOK
<1>1. PodInv => TypeOK
  BY DEF PodInv
<1> QED BY <1>1, Kept, PTL

(* The vifs of an annotation have their ports in Neutron and their pairs   *)
(* on the node's port (NestedMacvlanPodVIFDriver._try_update_port).        *)
THEOREM VifsKept == Spec => []VifsWork
<1>1. PodInv => VifsWork
  BY DEF PodInv, Fits, Works, Told, VifsWork, Needed, Over
<1> QED BY <1>1, Kept, PTL

-----------------------------------------------------------------------------
(* No port is left behind: who will release what.  The stages in which the *)
(* thread requests vifs, and releases them.                                *)
Asking == {"request", "pair", "annotate"}
Giving == {"release", "unpair", "delete"}

(* What the thread of p is to annotate or to release, and what p is        *)
(* annotated with unless it is over and all of that has been handled.      *)
Owned(p) ==
    (IF work[p].pc \in Asking \cup Giving THEN work[p].vifs \cup {work[p].port} ELSE {})
    \cup (IF pod[p].st \notin Over \/ pod[p].news \/ event[p] # NoEvent
          THEN pod[p].vifs ELSE {})

(* Every port of Neutron is someone's, and what has a pair is a port.      *)
Accounted ==
    /\ \A q \in ports : \E p \in Pods : q \in Owned(p)
    /\ pairs \subseteq ports

(* Nothing has happened to the pod that its thread will not come to know,  *)
(* and its annotation is what the thread knows.                            *)
InStep(p) ==
    /\ ~pod[p].news => event[p] \in {NoEvent, Seen(p)}
    /\ work[p].pc # "idle" => work[p].obj.vifs = pod[p].vifs
    /\ work[p].pc \in Asking => pod[p].vifs = {}
    /\ pod[p].st = "none" => /\ pod[p].vifs = {} /\ ~pod[p].news
                             /\ event[p] = NoEvent /\ work[p].pc = "idle"

(* Vifs are released all, or have been released all.                       *)
AllOrNone(vs) == vs \subseteq ports \/ vs \cap ports = {}

Whole(p) ==
    IF work[p].pc \in Giving
    THEN /\ AllOrNone(work[p].vifs) /\ pod[p].vifs \cap ports \subseteq work[p].vifs
         /\ work[p].pc # "release" => work[p].port \in ports
    ELSE /\ AllOrNone(pod[p].vifs)
         /\ work[p].pc = "clear" => pod[p].vifs \cap ports = {}

(* A pair is removed before its port, in one of the attempts.              *)
Unpairs(p) ==
    /\ work[p].pc = "unpair" /\ work[p].port \in pairs => work[p].port \in work[p].read
    /\ work[p].pc = "delete" => work[p].port \notin pairs
    /\ Holding(p) /\ work[p].tries = 1 => work[p].fresh

Tidy(p) == InStep(p) /\ Whole(p) /\ Unpairs(p)

LeftInv == Accounted /\ \A p \in Pods : Tidy(p)

(* The timings that leave vifs behind.                                     *)
Quiet ==
    /\ "stale_event" \notin Races /\ "contention" \notin Races
    /\ "neutron_fails" \notin Races /\ "connection_lost" \notin Races
    /\ "crash" \notin Races

-----------------------------------------------------------------------------
(* The other threads.                                                      *)

(* What a step of p leaves of the others and their ports.                  *)
Aside(p) ==
    /\ \A q \in Pods \ {p} :
          /\ pod'[q] = pod[q] /\ event'[q] = event[q]
          /\ work'[q].pc = work[q].pc /\ work'[q].obj = work[q].obj
          /\ work'[q].vifs = work[q].vifs /\ work'[q].port = work[q].port
          /\ work'[q].read = work[q].read /\ work'[q].tries = work[q].tries
          /\ Holding(q) /\ work[q].tries = 1 => work'[q].fresh = work[q].fresh
    /\ ports \ ports' \subseteq Names(p) /\ pairs' \ pairs \subseteq Names(p)'

LEMMA OwnNames ==
    ASSUME PodInv, NEW q \in Pods
    PROVE  /\ Owned(q) \ {None} \subseteq Names(q) /\ None \notin ports
           /\ pod[q].vifs \subseteq Names(q) /\ work[q].vifs \subseteq Names(q)
           /\ work[q].pc \in Giving => Releasing(q) /\ work[q].port \in Names(q) \cup {None}
BY PodVIFAssumption DEF PodInv, TypeOK, Owned, Names, Giving, Fits, Thread

(* It is enough to look at p.                                              *)
LEMMA OthersTidy ==
    ASSUME PodInv, PodInv', LeftInv, NEW p \in Pods, Aside(p), Tidy(p)',
           Owned(p) \cap ports' \subseteq Owned(p)', ports' \ ports \subseteq Owned(p)',
           pairs' \subseteq ports'
    PROVE  LeftInv'
<1>1. ASSUME NEW q \in Pods \ {p}
      PROVE  /\ Names(q)' = Names(q) /\ Owned(q)' = Owned(q) /\ Seen(q)' = Seen(q)
             /\ \A x \in Names(q) : (x \in ports' <=> x \in ports) /\ (x \in pairs' => x \in pairs)
  <2>1. Names(q)' = Names(q) /\ Owned(q)' = Owned(q) /\ Seen(q)' = Seen(q)
    BY DEF Aside, Names, Owned, Seen
  <2>2. Names(q) \cap Names(p) = {} /\ Names(q) \cap Names(p)' = {}
    BY <2>1 DEF PodInv, Apart
  <2>3. ports' \ ports \subseteq Names(p)'
    <3>1. (Owned(p) \ {None} \subseteq Names(p) /\ None \notin ports)'
      BY OwnNames, PodVIFAssumption DEF PodInv, TypeOK, Owned, Names
    <3> QED BY <3>1
  <2> QED BY <2>1, <2>2, <2>3 DEF Aside
<1>2. ASSUME NEW q \in Pods \ {p} PROVE Tidy(q)'
  <2>1. Tidy(q) /\ pod[q].vifs \subseteq Names(q) /\ work[q].vifs \subseteq Names(q)
    BY OwnNames DEF LeftInv
  <2>2. InStep(q)'
    BY <1>1, <2>1 DEF Aside, Tidy, InStep
  <2>3. Whole(q)'
    <3>1. AllOrNone(work[q].vifs) => AllOrNone(work[q].vifs)'
      BY <1>1, <2>1 DEF Aside, AllOrNone
    <3>2. AllOrNone(pod[q].vifs) => AllOrNone(pod[q].vifs)'
      BY <1>1, <2>1 DEF Aside, AllOrNone
    <3>3. pod'[q].vifs \cap ports' = pod[q].vifs \cap ports
      BY <1>1, <2>1 DEF Aside
    <3>4. work[q].pc \in Giving /\ work[q].port \in ports => work[q].port \in ports'
      BY <1>1, OwnNames
    <3>5. work'[q].pc = work[q].pc /\ work'[q].vifs = work[q].vifs /\ work'[q].port = work[q].port
      BY DEF Aside
    <3> QED BY <2>1, <3>1, <3>2, <3>3, <3>4, <3>5 DEF Tidy, Whole
  <2>4. Unpairs(q)'
    <3>1. work[q].pc \in {"unpair", "delete"} /\ work[q].port \in pairs' => work[q].port \in pairs
      <4>1. work[q].pc \in {"unpair", "delete"} => work[q].port \in Names(q)
        BY OwnNames DEF Giving, Releasing
      <4> QED BY <1>1, <4>1
    <3> QED BY <2>1, <3>1 DEF Aside, Tidy, Unpairs, Holding
  <2> QED BY <2>2, <2>3, <2>4 DEF Tidy
<1>3. Accounted'
  <2> SUFFICES ASSUME NEW x \in ports' PROVE \E q \in Pods : x \in Owned(q)'
    BY DEF Accounted
  <2>1. CASE x \notin ports
    BY <2>1
  <2>2. CASE x \in ports
    <3>1. PICK q \in Pods : x \in Owned(q)
      BY <2>2 DEF LeftInv, Accounted
    <3> QED BY <1>1, <3>1
  <2> QED BY <2>1, <2>2
<1> QED BY <1>2, <1>3 DEF LeftInv

(* The thread of p goes on from w, and no pair is added.                   *)
LEMMA ThreadTidy ==
    ASSUME PodInv, PodInv', LeftInv, NEW p \in Pods, NEW w,
           work' = [work EXCEPT ![p] = w],
           \A q \in Pods \ {p} : pod'[q] = pod[q] /\ event'[q] = event[q],
           ports \ ports' \subseteq Names(p), pairs' \subseteq pairs \cap ports', Tidy(p)',
           Owned(p) \cap ports' \subseteq Owned(p)', ports' \ ports \subseteq Owned(p)'
    PROVE  LeftInv'
<1>1. \A q \in Pods \ {p} : work'[q] = work[q]
  BY DEF PodInv, TypeOK
<1>2. Aside(p)
  BY <1>1 DEF Aside
<1> QED BY <1>2, OthersTidy

-----------------------------------------------------------------------------
(* The steps of p.                                                         *)

(* The thread and Neutron stay as they are.                                *)
LEMMA PodRest ==
    ASSUME PodInv, PodInv', LeftInv, NEW p \in Pods, pod'[p].vifs = pod[p].vifs,
           \A q \in Pods \ {p} : pod'[q] = pod[q] /\ event'[q] = event[q],
           InStep(p)', Owned(p) \subseteq Owned(p)', UNCHANGED <<work, ports, pairs>>
    PROVE  LeftInv'
<1>1. Aside(p) /\ pairs \subseteq ports /\ Tidy(p)
  BY DEF Aside, LeftInv, Accounted
<1>2. Whole(p)' /\ Unpairs(p)'
  BY <1>1 DEF Tidy, Whole, AllOrNone, Unpairs, Holding
<1> QED BY <1>1, <1>2, OthersTidy DEF Tidy

(* Pods change, and events are told.                                       *)
LEMMA PodTidy ==
    ASSUME PodInv, PodInv', LeftInv, NEW p \in Pods, NEW x,
           pod' = [pod EXCEPT ![p] = x], x.vifs = pod[p].vifs,
           \/ x.news /\ x.st # "none" /\ event' = event
           \/ /\ ~x.news /\ x.st = pod[p].st /\ x.active = pod[p].active /\ pod[p].news
              /\ event' = [event EXCEPT ![p] = Seen(p)],
           UNCHANGED <<work, ports, pairs>>
    PROVE  LeftInv'
<1>1. /\ pod'[p] = x /\ Tidy(p)
      /\ \A q \in Pods \ {p} : pod'[q] = pod[q] /\ event'[q] = event[q]
      /\ event'[p] = event[p] \/ event'[p] = Seen(p)
  BY DEF PodInv, TypeOK, LeftInv
<1>2. pod[p].st # "none" => Seen(p) # NoEvent
  BY DEF Seen, NoEvent
<1>3. CASE x.news /\ x.st # "none" /\ event' = event
  <2>1. InStep(p)'
    BY <1>1, <1>3 DEF Tidy, InStep
  <2>2. Owned(p) \subseteq Owned(p)'
    BY <1>1, <1>3 DEF Owned
  <2> QED BY <1>1, <2>1, <2>2, PodRest
<1>4. CASE /\ ~x.news /\ x.st = pod[p].st /\ x.active = pod[p].active /\ pod[p].news
           /\ event' = [event EXCEPT ![p] = Seen(p)]
  <2>1. event'[p] = Seen(p) /\ Seen(p)' = Seen(p) /\ pod[p].st # "none"
    BY <1>1, <1>4 DEF PodInv, TypeOK, Seen, Tidy, InStep
  <2>2. InStep(p)'
    BY <1>1, <1>4, <2>1 DEF Tidy, InStep
  <2>3. Owned(p) \subseteq Owned(p)'
    BY <1>1, <1>2, <1>4, <2>1 DEF Owned
  <2> QED BY <1>1, <2>2, <2>3, PodRest
<1> QED BY <1>3, <1>4

(* What the handler starts with is the annotation, of which all is there   *)
(* or nothing.                                                             *)
LEMMA StartTidy ==
    ASSUME PodInv, PodInv', LeftInv, NEW p \in Pods, NEW obj \in ObjType,
           work[p].pc \in {"idle", "again"}, obj.vifs = pod[p].vifs, pod[p].st # "none",
           work' = [work EXCEPT ![p] = Start(p, obj)],
           \/ event' = event
           \/ /\ event' = [event EXCEPT ![p] = NoEvent]
              /\ obj = event[p],
           UNCHANGED <<pod, ports, pairs>>
    PROVE  LeftInv'
<1> DEFINE w == Start(p, obj)
<1>1. /\ w.pc \in {"idle", "release", "request", "activate"}
      /\ w.port = None
      /\ w.pc # "idle" => w.obj = obj /\ w.vifs = obj.vifs
      /\ w.pc = "request" => obj.vifs = {}
      /\ \/ w.pc = "release" \/ obj.vifs = {}
         \/ obj.st \notin {"gone", "completed"}
         \/ obj.st = "completed" /\ pod[p].st = "gone"
  BY DEF Start, Idle
<1>2. /\ work'[p] = w /\ Tidy(p)
      /\ \A q \in Pods \ {p} : event'[q] = event[q]
      /\ \/ event'[p] = event[p]
         \/ event'[p] = NoEvent /\ obj = event[p]
  BY DEF PodInv, TypeOK, LeftInv
<1> HIDE DEF w
<1>3. InStep(p)'
  <2>1. Seen(p)' = Seen(p)
    BY DEF Seen
  <2> QED BY <1>1, <1>2, <2>1 DEF Tidy, InStep, Asking
<1>4. AllOrNone(pod[p].vifs)
  BY <1>2 DEF Tidy, Whole, Giving
<1>5. Whole(p)'
  BY <1>1, <1>2, <1>4 DEF Whole, AllOrNone, Giving
<1>6. Unpairs(p)'
  BY <1>1, <1>2 DEF Unpairs, Holding
<1>7. Owned(p) \subseteq Owned(p)'
  <2>1. Owned(p) \subseteq pod[p].vifs
    BY DEF Owned, Asking, Giving
  <2>2. CASE pod[p].st \notin Over \/ pod[p].news \/ event'[p] # NoEvent
    BY <2>1, <2>2 DEF Owned
  <2>3. CASE event'[p] = event[p]
    BY <2>3 DEF Owned, Asking, Giving
  <2>4. CASE pod[p].st \in Over /\ ~pod[p].news /\ obj = event[p] /\ event[p] # NoEvent
    <3>1. obj = Seen(p)
      BY <1>2, <2>4 DEF Tidy, InStep
    <3>2. obj.st = pod[p].st
      BY <3>1 DEF Seen
    <3>3. w.pc = "release" \/ obj.vifs = {}
      BY <1>1, <2>4, <3>2 DEF Over
    <3> QED BY <1>1, <1>2, <2>1, <3>3 DEF Owned, Giving
  <2> QED BY <1>2, <2>2, <2>3, <2>4
<1> QED BY <1>2, <1>3, <1>5, <1>6, <1>7, ThreadTidy DEF Tidy, LeftInv, Accounted

(* The thread ends, or waits to try again.                                 *)
LEMMA StopTidy ==
    ASSUME PodInv, PodInv', LeftInv, NEW p \in Pods,
           \/ Ends(p)
           \/ Retried(p) /\ pod'[p].vifs = pod[p].vifs /\ work[p].pc # "idle",
           \A q \in Pods \ {p} : pod'[q] = pod[q],
           \/ pod'[p] = pod[p]
           \/ pod'[p].news /\ pod'[p].st = pod[p].st /\ pod[p].st # "none",
           AllOrNone(pod'[p].vifs), Owned(p) \cap ports \subseteq Owned(p)',
           UNCHANGED <<event, ports, pairs>>
    PROVE  LeftInv'
<1> DEFINE again == [Idle EXCEPT !.pc = "again", !.obj = work[p].obj]
<1>1. PICK w \in {Idle, again} : /\ work' = [work EXCEPT ![p] = w]
                                 /\ \/ w = Idle
                                    \/ /\ w = again /\ pod'[p].vifs = pod[p].vifs
                                       /\ work[p].pc # "idle"
  BY DEF Ends, Retried
<1>2. Idle.pc = "idle" /\ again.pc = "again" /\ again.obj = work[p].obj
  BY DEF Idle
<1>3. work'[p] = w /\ Tidy(p)
  BY <1>1 DEF PodInv, TypeOK, LeftInv
<1> HIDE DEF again
<1>4. InStep(p)'
  <2>1. CASE pod'[p] = pod[p]
    <3>1. Seen(p)' = Seen(p)
      BY <2>1 DEF Seen
    <3> QED BY <1>1, <1>2, <1>3, <2>1, <3>1 DEF Tidy, InStep, Asking
  <2>2. CASE pod'[p].news /\ pod'[p].st = pod[p].st /\ pod[p].st # "none"
    BY <1>1, <1>2, <1>3, <2>2 DEF Tidy, InStep, Asking
  <2> QED BY <2>1, <2>2
<1>5. Whole(p)' /\ Unpairs(p)'
  BY <1>1, <1>2, <1>3 DEF Whole, AllOrNone, Unpairs, Holding, Giving
<1> QED BY <1>1, <1>4, <1>5, ThreadTidy DEF Tidy, LeftInv, Accounted

(* What a handler that is not asking or giving owns is the annotation's.   *)
LEMMA NothingElse ==
    ASSUME NEW p, work[p].pc \notin Asking \cup Giving, pod'[p] = pod[p], event' = event
    PROVE  Owned(p) \subseteq Owned(p)'
BY DEF Owned

(* The annotation is written.                                              *)
LEMMA StoresTidy ==
    ASSUME PodInv, PodInv', LeftInv, NEW p \in Pods, NEW vs, NEW act \in BOOLEAN,
           Stores(p, vs, act), Ends(p), pod[p].st # "none",
           AllOrNone(vs), Owned(p) \cap ports \subseteq vs,
           work[p].pc \in {"activate", "clear"} \/ vs # pod[p].vifs,
           UNCHANGED <<event, ports, pairs>>
    PROVE  LeftInv'
<1>1. /\ pod'[p].vifs = vs /\ pod'[p].st = pod[p].st
      /\ pod'[p] = pod[p] \/ pod'[p].news
      /\ vs # pod[p].vifs => pod'[p].news
      /\ \A q \in Pods \ {p} : pod'[q] = pod[q]
  <2>1. pod[p] \in PodType /\ TypeOK
    BY DEF PodInv, TypeOK
  <2>2. pod'[p] = [pod[p] EXCEPT !.vifs = vs, !.active = act,
                       !.news = pod[p].news \/ pod[p].vifs # vs \/ pod[p].active # act]
    BY <2>1 DEF TypeOK, Stores
  <2>3. pod'[p].news = (pod[p].news \/ pod[p].vifs # vs \/ pod[p].active # act)
    BY <2>1, <2>2 DEF PodType
  <2>4. pod[p].vifs = vs /\ pod[p].active = act => pod'[p] = pod[p]
    <3> SUFFICES ASSUME pod[p].vifs = vs, pod[p].active = act PROVE pod'[p] = pod[p]
      OBVIOUS
    <3>1. pod'[p].news = pod[p].news
      BY <2>1, <2>3 DEF PodType
    <3>2. pod'[p].vifs = pod[p].vifs /\ pod'[p].st = pod[p].st /\ pod'[p].active = pod[p].active
      BY <2>1, <2>2 DEF PodType
    <3>3. pod'[p] \in PodType
      BY DEF PodInv, TypeOK
    <3> QED BY <2>1, <3>1, <3>2, <3>3 DEF PodType
  <2> QED BY <2>1, <2>3, <2>4, Stored
<1>2. Owned(p) \cap ports \subseteq Owned(p)'
  <2>1. CASE pod'[p].news
    BY <1>1, <2>1 DEF Owned
  <2>2. CASE pod'[p] = pod[p] /\ work[p].pc \in {"activate", "clear"}
    BY <2>2, NothingElse DEF Asking, Giving
  <2> QED BY <1>1, <2>1, <2>2
<1> QED BY <1>1, <1>2, StopTidy

(* Releasing begins.                                                       *)
LEMMA ReleasesTidy ==
    ASSUME PodInv, PodInv', LeftInv, NEW p \in Pods, work[p].pc \in {"annotate", "activate"},
           Releases(p, work[p].vifs), pod' = pod \/ pod' = [pod EXCEPT ![p].news = TRUE],
           UNCHANGED <<event, ports, pairs>>
    PROVE  LeftInv'
<1> DEFINE w == [work[p] EXCEPT !.pc = "release", !.vifs = work[p].vifs, !.tries = Attempts]
<1>1. work' = [work EXCEPT ![p] = w]
  BY DEF Releases
<1>2. work[p] \in WorkType /\ Fits(p) /\ Tidy(p)
  BY DEF PodInv, TypeOK, LeftInv
<1>3. /\ work'[p] = w /\ w.pc = "release" /\ w.vifs = work[p].vifs /\ w.port = work[p].port
      /\ w.obj = work[p].obj
  BY <1>1, <1>2 DEF PodInv, TypeOK, WorkType
<1>4. /\ \A q \in Pods \ {p} : pod'[q] = pod[q]
      /\ pod'[p].vifs = pod[p].vifs /\ pod'[p].st = pod[p].st
      /\ pod'[p] = pod[p] \/ pod'[p].news
  BY DEF PodInv, TypeOK, PodType
<1> HIDE DEF w
<1>5. InStep(p)'
  <2>1. pod'[p] = pod[p] => Seen(p)' = Seen(p)
    BY DEF Seen
  <2> QED BY <1>2, <1>3, <1>4, <2>1 DEF Tidy, InStep, Asking
<1>6. Whole(p)'
  <2>1. CASE work[p].pc = "annotate"
    <3>1. pod[p].vifs = {} /\ work[p].vifs \subseteq ports
      BY <1>2, <2>1 DEF Tidy, InStep, Asking, Fits, Thread, Requesting
    <3> QED BY <1>3, <1>4, <3>1 DEF Whole, AllOrNone
  <2>2. CASE work[p].pc = "activate"
    <3>1. work[p].vifs = pod[p].vifs
      BY <1>2, <2>2 DEF Tidy, InStep, Fits, Thread
    <3>2. AllOrNone(pod[p].vifs)
      BY <1>2, <2>2 DEF Tidy, Whole, Giving
    <3> QED BY <1>3, <1>4, <3>1, <3>2 DEF Whole, AllOrNone
  <2> QED BY <2>1, <2>2
<1>7. Unpairs(p)' /\ Owned(p) \subseteq Owned(p)'
  BY <1>3, <1>4 DEF Unpairs, Holding, Owned, Asking, Giving
<1> QED BY <1>1, <1>4, <1>5, <1>6, <1>7, ThreadTidy DEF Tidy, LeftInv, Accounted

-----------------------------------------------------------------------------
(* Ports and pairs.                                                        *)

LEMMA CreatePortTidy ==
    ASSUME PodInv, PodInv', LeftInv, NEW p \in Pods, CreatePort(p)
    PROVE  LeftInv'
<1> DEFINE q == IF work[p].port = None THEN NewPort ELSE work[p].port
           w == [ReadPairs(work[p]) EXCEPT !.port = q, !.pc = "pair"]
<1>1. /\ work[p] \in WorkType /\ Tidy(p) /\ work[p].pc = "request"
      /\ ports' = ports \cup {q} /\ work' = [work EXCEPT ![p] = w]
      /\ UNCHANGED <<pod, event, pairs>>
  BY DEF CreatePort, Is, PodInv, TypeOK, LeftInv
<1>2. /\ work'[p] = w /\ w.pc = "pair" /\ w.port = q /\ w.fresh
      /\ w.vifs = work[p].vifs /\ w.obj = work[p].obj
  BY <1>1 DEF PodInv, TypeOK, WorkType, ReadPairs
<1>3. q = work[p].port \/ work[p].port = None
  OBVIOUS
<1> HIDE DEF q, w
<1>4. InStep(p)'
  <2>1. Seen(p)' = Seen(p)
    BY <1>1 DEF Seen
  <2> QED BY <1>1, <1>2, <2>1 DEF Tidy, InStep, Asking
<1>5. pod[p].vifs = {}
  BY <1>1 DEF Tidy, InStep, Asking
<1>6. Whole(p)' /\ Unpairs(p)'
  BY <1>1, <1>2, <1>5 DEF Whole, AllOrNone, Unpairs, Holding, Giving
<1>7. None \notin ports'
  BY OwnNames, PodVIFAssumption DEF PodInv, TypeOK
<1>8. Owned(p) \cap ports' \subseteq Owned(p)' /\ ports' \ ports \subseteq Owned(p)'
  BY <1>1, <1>2, <1>3, <1>7 DEF Owned, Asking
<1>9. pairs \subseteq ports
  BY DEF LeftInv, Accounted
<1> QED BY <1>1, <1>4, <1>6, <1>8, <1>9, ThreadTidy DEF Tidy

(* What an update of the pairs leaves of the other threads.                *)
LEMMA UpdatingAside ==
    ASSUME PodInv, PodInv', LeftInv, NEW p \in Pods, NEW w, Quiet, MayUpdate(p), Updating(p, w),
           UNCHANGED <<pod, event, ports>>, pairs' \ pairs \subseteq Names(p)'
    PROVE  Aside(p)
<1> SUFFICES ASSUME NEW q \in Pods \ {p}
             PROVE  /\ work'[q].pc = work[q].pc /\ work'[q].obj = work[q].obj
                    /\ work'[q].vifs = work[q].vifs /\ work'[q].port = work[q].port
                    /\ work'[q].read = work[q].read /\ work'[q].tries = work[q].tries
                    /\ Holding(q) /\ work[q].tries = 1 => work'[q].fresh = work[q].fresh
  BY DEF Aside
<1>1. work'[q] = [work[q] EXCEPT !.fresh = FALSE] /\ work[q] \in WorkType
  BY DEF Updating, PodInv, TypeOK
<1>2. ~(Holding(q) /\ work[q].fresh /\ work[q].tries = 1)
  BY DEF MayUpdate, Quiet
<1>3. work'[q].fresh = FALSE /\ work[q].fresh \in BOOLEAN
  BY <1>1 DEF WorkType
<1>4. /\ work'[q].pc = work[q].pc /\ work'[q].obj = work[q].obj
      /\ work'[q].vifs = work[q].vifs /\ work'[q].port = work[q].port
      /\ work'[q].read = work[q].read /\ work'[q].tries = work[q].tries
  BY <1>1 DEF WorkType
<1> QED BY <1>2, <1>3, <1>4

LEMMA AddPairTidy ==
    ASSUME PodInv, PodInv', LeftInv, NEW p \in Pods, Quiet, AddPair(p)
    PROVE  LeftInv'
<1> DEFINE w == Requested(p)
<1>1. /\ work[p] \in WorkType /\ Tidy(p) /\ work[p].pc = "pair" /\ Requesting(p)
      /\ work[p].port \in ports
      /\ pairs' = pairs \cup {work[p].port} /\ Updating(p, w) /\ MayUpdate(p)
      /\ UNCHANGED <<pod, event, ports>>
  BY DEF AddPair, MayUpdate, Is, PodInv, TypeOK, LeftInv, Current, Fits, Thread, Requesting
<1>2. /\ w.vifs = work[p].vifs \cup {work[p].port} /\ w.port = None
      /\ w.obj = work[p].obj /\ w.pc \in {"request", "annotate"}
  BY <1>1 DEF Requested, Unread, WorkType
<1>3. work'[p] = w
  BY <1>1 DEF Updating
<1> HIDE DEF w
<1>4. InStep(p)'
  <2>1. Seen(p)' = Seen(p)
    BY <1>1 DEF Seen
  <2> QED BY <1>1, <1>2, <1>3, <2>1 DEF Tidy, InStep, Asking
<1>5. Whole(p)' /\ Unpairs(p)'
  <2>1. pod[p].vifs = {}
    BY <1>1 DEF Tidy, InStep, Asking
  <2> QED BY <1>1, <1>2, <1>3, <2>1 DEF Whole, AllOrNone, Unpairs, Holding, Giving
<1>6. Owned(p) \subseteq Owned(p)'
  BY <1>1, <1>2, <1>3 DEF Owned, Asking
<1>7. pairs' \ pairs \subseteq Names(p)' /\ pairs' \subseteq ports'
  BY <1>1, <1>2, <1>3 DEF Names, LeftInv, Accounted
<1>8. Aside(p)
  BY <1>1, <1>7, UpdatingAside
<1> QED BY <1>1, <1>4, <1>5, <1>6, <1>7, <1>8, OthersTidy DEF Tidy

LEMMA FetchPortTidy ==
    ASSUME PodInv, PodInv', LeftInv, NEW p \in Pods, FetchPort(p)
    PROVE  LeftInv'
<1> DEFINE w == [ReadPairs(work[p]) EXCEPT !.port = ItsPort(p), !.pc = "unpair"]
<1>1. /\ work[p] \in WorkType /\ Tidy(p) /\ work[p].pc = "release" /\ ItsPort(p) \in ports
      /\ work' = [work EXCEPT ![p] = w] /\ UNCHANGED <<pod, event, ports, pairs>>
  BY DEF FetchPort, Is, PodInv, TypeOK, LeftInv
<1>2. /\ work'[p] = w /\ w.pc = "unpair" /\ w.port = ItsPort(p) /\ w.read = pairs /\ w.fresh
      /\ w.vifs = work[p].vifs /\ w.obj = work[p].obj
  BY <1>1 DEF PodInv, TypeOK, WorkType, ReadPairs
<1> HIDE DEF w
<1>3. InStep(p)'
  <2>1. Seen(p)' = Seen(p)
    BY <1>1 DEF Seen
  <2> QED BY <1>1, <1>2, <2>1 DEF Tidy, InStep, Asking
<1>4. Whole(p)' /\ Unpairs(p)'
  BY <1>1, <1>2 DEF Tidy, Whole, AllOrNone, Unpairs, Holding, Giving
<1>5. Owned(p) \cap ports \subseteq Owned(p)'
  <2>1. Releasing(p) /\ None \notin ports
    BY <1>1, OwnNames DEF Giving
  <2> QED BY <1>1, <1>2, <2>1 DEF Owned, Giving, Releasing
<1> QED BY <1>1, <1>3, <1>4, <1>5, ThreadTidy DEF Tidy, LeftInv, Accounted

LEMMA RemovePairTidy ==
    ASSUME PodInv, PodInv', LeftInv, NEW p \in Pods, Quiet, RemovePair(p)
    PROVE  LeftInv'
<1> DEFINE w == [Unread(work[p]) EXCEPT !.pc = "delete"]
<1>1. /\ work[p] \in WorkType /\ Tidy(p) /\ work[p].pc = "unpair"
      /\ UNCHANGED <<pod, event, ports>> /\ pairs \subseteq ports
  BY DEF RemovePair, Is, PodInv, TypeOK, LeftInv, Accounted
<1>2. /\ w.vifs = work[p].vifs /\ w.port = work[p].port /\ w.obj = work[p].obj /\ w.pc = "delete"
  BY <1>1 DEF Unread, WorkType
<1>3. \/ MayUpdate(p) /\ pairs' = pairs \ {work[p].port} /\ Updating(p, w)
      \/ work' = [work EXCEPT ![p] = w] /\ pairs' = pairs /\ work[p].port \notin pairs
  BY <1>1 DEF RemovePair, MayUpdate, PodInv, Current, Tidy, Unpairs
<1>4. work'[p] = w /\ pairs' \subseteq pairs /\ work[p].port \notin pairs'
  BY <1>3 DEF Updating, PodInv, TypeOK
<1> HIDE DEF w
<1>5. InStep(p)'
  <2>1. Seen(p)' = Seen(p)
    BY <1>1 DEF Seen
  <2> QED BY <1>1, <1>2, <1>4, <2>1 DEF Tidy, InStep, Asking
<1>6. Whole(p)' /\ Unpairs(p)'
  BY <1>1, <1>2, <1>4 DEF Tidy, Whole, AllOrNone, Unpairs, Holding, Giving
<1>7. Owned(p) \subseteq Owned(p)'
  BY <1>1, <1>2, <1>4 DEF Owned, Giving, Asking
<1>8. CASE Updating(p, w) /\ MayUpdate(p)
  <2>1. Aside(p)
    BY <1>1, <1>4, <1>8, UpdatingAside
  <2> QED BY <1>1, <1>4, <1>5, <1>6, <1>7, <2>1, OthersTidy DEF Tidy
<1>9. CASE work' = [work EXCEPT ![p] = w]
  BY <1>1, <1>4, <1>5, <1>6, <1>7, <1>9, ThreadTidy DEF Tidy
<1> QED BY <1>3, <1>8, <1>9

LEMMA DeletePortTidy ==
    ASSUME PodInv, PodInv', LeftInv, NEW p \in Pods, DeletePort(p)
    PROVE  LeftInv'
<1> DEFINE left == work[p].vifs \ {work[p].port}
           more == [work[p] EXCEPT !.vifs = left, !.port = None, !.tries = Attempts,
                                   !.pc = "release"]
           clear == [Idle EXCEPT !.pc = "clear", !.obj = work[p].obj]
           w == IF left # {} THEN more ELSE IF work[p].obj.st = "completed" THEN clear ELSE Idle
<1>1. /\ work[p] \in WorkType /\ Tidy(p) /\ work[p].pc = "delete"
      /\ work' = [work EXCEPT ![p] = w] /\ work'[p] = w /\ ports' = ports \ {work[p].port}
      /\ UNCHANGED <<pod, event, pairs>>
  BY DEF DeletePort, Is, PodInv, TypeOK, LeftInv
<1>2. /\ Releasing(p) /\ work[p].port \in Names(p) \cup {None} /\ None \notin ports
      /\ work[p].port \in work[p].vifs /\ work[p].port \in ports
  <2>1. Releasing(p) /\ work[p].port \in Names(p) \cup {None} /\ None \notin ports
    BY <1>1, OwnNames DEF Giving
  <2> QED BY <1>1, <2>1 DEF Releasing, Tidy, Whole, Giving
<1>3. \/ left # {} /\ w.vifs = left /\ w.pc = "release" /\ w.obj = work[p].obj
      \/ left = {} /\ w.pc = "clear" /\ w.obj = work[p].obj
      \/ left = {} /\ w.pc = "idle"
  <2>1. more.vifs = left /\ more.pc = "release" /\ more.obj = work[p].obj
    BY <1>1 DEF WorkType
  <2>2. clear.pc = "clear" /\ clear.obj = work[p].obj /\ Idle.pc = "idle"
    BY DEF Idle
  <2> HIDE DEF more, clear, left
  <2> QED BY <2>1, <2>2
<1>4. work[p].vifs \subseteq ports /\ pod[p].vifs \cap ports \subseteq work[p].vifs
  BY <1>1, <1>2 DEF Tidy, Whole, AllOrNone, Giving
<1>5. left \subseteq ports' /\ pod[p].vifs \cap ports' \subseteq left
      /\ \A x \in ports' : x \in work[p].vifs \cup {work[p].port} => x \in left
  BY <1>1, <1>4
<1>6. pairs' \subseteq ports' /\ ports \ ports' \subseteq Names(p)
  BY <1>1, <1>2 DEF LeftInv, Accounted, Tidy, Unpairs
<1> HIDE DEF left, w
<1>7. InStep(p)'
  <2>1. Seen(p)' = Seen(p)
    BY <1>1 DEF Seen
  <2> QED BY <1>1, <1>3, <2>1 DEF Tidy, InStep, Asking
<1>8. Whole(p)' /\ Unpairs(p)'
  BY <1>1, <1>3, <1>5 DEF Whole, AllOrNone, Unpairs, Holding, Giving
<1>9. Owned(p) \cap ports' \subseteq Owned(p)'
  BY <1>1, <1>3, <1>5 DEF Owned, Asking, Giving
<1> QED BY <1>1, <1>6, <1>7, <1>8, <1>9, ThreadTidy DEF Tidy

(* The last attempt is not refused.                                        *)
LEMMA PairRefusedTidy ==
    ASSUME PodInv, PodInv', LeftInv, NEW p \in Pods, Quiet, PairRefused(p)
    PROVE  LeftInv'
<1> DEFINE pc == IF Is(p, "pair") THEN "request" ELSE "release"
           w == [Unread(work[p]) EXCEPT !.tries = work[p].tries - 1, !.pc = pc]
<1>1. /\ work[p] \in WorkType /\ Tidy(p) /\ Holding(p)
      /\ UNCHANGED <<pod, event, ports, pairs>>
  BY DEF PairRefused, PodInv, TypeOK, LeftInv
<1>2. work[p].tries > 1
  <2>1. work[p].tries \in 1..Attempts /\ Attempts \in Nat
    BY <1>1, PodVIFAssumption DEF WorkType
  <2>2. work[p].tries = 1 => work[p].fresh
    BY <1>1 DEF Tidy, Unpairs
  <2>3. work[p].tries # 1
    BY <2>1, <2>2 DEF PairRefused, Quiet
  <2> QED BY <2>1, <2>3
<1>3. work' = [work EXCEPT ![p] = w] /\ work'[p] = w
  BY <1>2 DEF PairRefused, PodInv, TypeOK
<1>4. w.vifs = work[p].vifs /\ w.port = work[p].port /\ w.obj = work[p].obj /\ w.pc = pc
  BY <1>1 DEF Unread, WorkType
<1>5. \/ work[p].pc = "pair" /\ pc = "request"
      \/ work[p].pc = "unpair" /\ pc = "release"
  BY <1>1 DEF Holding, Is
<1> HIDE DEF w, pc
<1>6. InStep(p)'
  <2>1. Seen(p)' = Seen(p)
    BY <1>1 DEF Seen
  <2> QED BY <1>1, <1>3, <1>4, <1>5, <2>1 DEF Tidy, InStep, Asking
<1>7. Whole(p)' /\ Unpairs(p)'
  BY <1>1, <1>3, <1>4, <1>5 DEF Tidy, Whole, AllOrNone, Unpairs, Holding, Giving
<1>8. Owned(p) \subseteq Owned(p)'
  BY <1>1, <1>3, <1>4, <1>5 DEF Owned, Asking, Giving
<1> QED BY <1>1, <1>3, <1>6, <1>7, <1>8, ThreadTidy DEF Tidy, LeftInv, Accounted

-----------------------------------------------------------------------------
(* A restart finds no thread that is asking or giving, and no pod that has *)
(* gone unnoticed; the others are told of anew.                            *)
LEMMA RestartTidy ==
    ASSUME PodInv, PodInv', LeftInv, Quiet, Restart
    PROVE  LeftInv'
<1>1. ASSUME NEW p \in Pods
      PROVE  /\ pod'[p].st = pod[p].st /\ pod'[p].vifs = pod[p].vifs /\ ~pod'[p].news
             /\ pod'[p].active = pod[p].active
             /\ work'[p] = Idle
             /\ event'[p] = IF pod[p].st \in {"none", "gone"} THEN NoEvent ELSE Seen(p)
             /\ work[p].pc \in {"idle", "again", "activate"}
             /\ pod[p].st = "gone" => ~pod[p].news /\ event[p] = NoEvent
             /\ Tidy(p)
  BY DEF Restart, Quiet, PodInv, TypeOK, PodType, LeftInv
<1>2. Idle.pc = "idle"
  BY DEF Idle
<1>3. ASSUME NEW p \in Pods PROVE Tidy(p)'
  <2>1. Seen(p)' = Seen(p)
    BY <1>1 DEF Seen
  <2>2. InStep(p)'
    BY <1>1, <1>2, <2>1 DEF Tidy, InStep, Asking
  <2>3. Whole(p)' /\ Unpairs(p)'
    BY <1>1, <1>2 DEF Restart, Tidy, Whole, AllOrNone, Unpairs, Holding, Giving
  <2> QED BY <2>2, <2>3 DEF Tidy
<1>4. ASSUME NEW p \in Pods PROVE Owned(p) \subseteq Owned(p)'
  <2>1. Owned(p) \subseteq pod[p].vifs
    BY <1>1 DEF Owned, Asking, Giving
  <2>2. CASE pod[p].st = "gone"
    <3>1. Owned(p) = {}
      BY <1>1, <2>2 DEF Owned, Asking, Giving, Over
    <3> QED BY <3>1
  <2>3. CASE pod[p].st = "completed"
    <3>1. event'[p] = Seen(p)
      BY <1>1, <2>3
    <3>2. Seen(p).st = "completed" /\ NoEvent.st = "none"
      BY <2>3 DEF Seen, NoEvent
    <3> QED BY <1>1, <2>1, <3>1, <3>2 DEF Owned
  <2>4. CASE pod[p].st \notin Over
    BY <1>1, <2>1, <2>4 DEF Owned
  <2> QED BY <2>2, <2>3, <2>4 DEF Over
<1>5. Accounted'
  BY <1>4 DEF LeftInv, Accounted, Restart
<1> QED BY <1>3, <1>5 DEF LeftInv

(* Every step of a pod keeps the accounts.                                 *)
LEMMA LeftStep ==
    ASSUME PodInv, PodInv', LeftInv, Quiet, NEW p \in Pods, Acts(p)
    PROVE  LeftInv'
<1>1. /\ Tidy(p) /\ Fits(p) /\ pod[p] \in PodType /\ event[p] \in ObjType
      /\ work[p] \in WorkType /\ work[p].obj \in ObjType
      /\ None \notin ports
  BY OwnNames DEF PodInv, TypeOK, WorkType, LeftInv
<1>2. /\ work[p].pc # "idle" => pod[p].st # "none"
      /\ pod[p].news \/ event[p] # NoEvent => pod[p].st # "none"
  BY <1>1 DEF Tidy, InStep
<1>3. CASE CreatePod(p)
  <2> DEFINE x == [pod[p] EXCEPT !.st = "pending", !.news = TRUE]
  <2>1. x.vifs = pod[p].vifs /\ x.news /\ x.st = "pending"
    BY <1>1 DEF PodType
  <2>2. /\ pod' = [pod EXCEPT ![p] = x] /\ event' = event
        /\ UNCHANGED <<work, ports, pairs>>
    BY <1>3 DEF CreatePod
  <2> HIDE DEF x
  <2> QED BY <2>1, <2>2, PodTidy
<1>4. CASE TouchPod(p)
  <2> DEFINE x == [pod[p] EXCEPT !.news = TRUE]
  <2>1. x.vifs = pod[p].vifs /\ x.news /\ x.st # "none"
    BY <1>1, <1>4 DEF TouchPod, PodType
  <2>2. /\ pod' = [pod EXCEPT ![p] = x] /\ event' = event
        /\ UNCHANGED <<work, ports, pairs>>
    BY <1>4 DEF TouchPod
  <2> HIDE DEF x
  <2> QED BY <2>1, <2>2, PodTidy
<1>5. CASE PodRuns(p)
  <2> DEFINE x == [pod[p] EXCEPT !.st = "running", !.news = TRUE]
  <2>1. x.vifs = pod[p].vifs /\ x.news /\ x.st = "running"
    BY <1>1 DEF PodType
  <2>2. /\ pod' = [pod EXCEPT ![p] = x] /\ event' = event
        /\ UNCHANGED <<work, ports, pairs>>
    BY <1>5 DEF PodRuns
  <2> HIDE DEF x
  <2> QED BY <2>1, <2>2, PodTidy
<1>6. CASE PodCompletes(p)
  <2> DEFINE x == [pod[p] EXCEPT !.st = "completed", !.news = TRUE]
  <2>1. x.vifs = pod[p].vifs /\ x.news /\ x.st = "completed"
    BY <1>1 DEF PodType
  <2>2. /\ pod' = [pod EXCEPT ![p] = x] /\ event' = event
        /\ UNCHANGED <<work, ports, pairs>>
    BY <1>6 DEF PodCompletes
  <2> HIDE DEF x
  <2> QED BY <2>1, <2>2, PodTidy
<1>7. CASE DeletePod(p)
  <2> DEFINE x == [pod[p] EXCEPT !.st = "gone", !.news = TRUE]
  <2>1. x.vifs = pod[p].vifs /\ x.news /\ x.st = "gone"
    BY <1>1 DEF PodType
  <2>2. /\ pod' = [pod EXCEPT ![p] = x] /\ event' = event
        /\ UNCHANGED <<work, ports, pairs>>
    BY <1>7 DEF DeletePod
  <2> HIDE DEF x
  <2> QED BY <2>1, <2>2, PodTidy
<1>8. CASE Deliver(p)
  <2> DEFINE x == [pod[p] EXCEPT !.news = FALSE]
  <2>1. x.vifs = pod[p].vifs /\ ~x.news /\ x.st = pod[p].st /\ x.active = pod[p].active
    BY <1>1 DEF PodType
  <2>2. /\ pod' = [pod EXCEPT ![p] = x] /\ event' = [event EXCEPT ![p] = Seen(p)] /\ pod[p].news
        /\ UNCHANGED <<work, ports, pairs>>
    BY <1>8 DEF Deliver
  <2> HIDE DEF x
  <2> QED BY <2>1, <2>2, PodTidy
<1>9. CASE Take(p)
  <2>1. work[p].pc = "idle" /\ event[p].vifs = pod[p].vifs /\ pod[p].st # "none"
    BY <1>2, <1>9 DEF Take, Is, Quiet
  <2> QED BY <1>1, <1>9, <2>1, StartTidy DEF Take
<1>10. CASE RetryAgain(p)
  <2>1. work[p].pc = "again" /\ work[p].obj.vifs = pod[p].vifs /\ pod[p].st # "none"
    BY <1>1, <1>2, <1>10 DEF RetryAgain, Is, Tidy, InStep
  <2> QED BY <1>1, <1>10, <2>1, StartTidy DEF RetryAgain
(* The thread stops with nothing of its own.                               *)
<1>s. ASSUME work[p].pc \in {"again", "activate", "clear"}, Ends(p) \/ Retried(p),
             UNCHANGED <<pod, event, ports, pairs>>
      PROVE  LeftInv'
  <2>1. AllOrNone(pod[p].vifs)
    BY <1>1, <1>s DEF Tidy, Whole, Giving
  <2>2. Owned(p) \subseteq Owned(p)'
    BY <1>s, NothingElse DEF Asking, Giving
  <2> QED BY <1>s, <2>1, <2>2, StopTidy
<1>11. CASE GiveUp(p)
  BY <1>11, <1>s DEF GiveUp, GivenUp, Quiet, Is
<1>12. CASE PairRefused(p)
  BY <1>12, PairRefusedTidy
<1>13. CASE CreatePort(p)
  BY <1>13, CreatePortTidy
<1>14. CASE AddPair(p)
  BY <1>14, AddPairTidy
<1>15. CASE Annotate(p)
  <2>1. /\ work[p].pc = "annotate" /\ pod[p].vifs = {}
        /\ work[p].vifs \subseteq ports /\ work[p].vifs # {} /\ work[p].port = None
    BY <1>1, <1>15 DEF Annotate, Is, Tidy, InStep, Asking, Fits, Thread, Requesting
  <2>2. Owned(p) \cap ports \subseteq work[p].vifs
    BY <1>1, <2>1 DEF Owned
  <2> QED BY <1>2, <1>15, <2>1, <2>2, StoresTidy DEF Annotate, AllOrNone
<1>16. CASE AnnotateRefused(p)
  BY <1>16, ReleasesTidy DEF AnnotateRefused, Is, Quiet
<1>17. CASE Activate(p)
  <2>1. work[p].pc = "activate" /\ work[p].vifs = pod[p].vifs /\ AllOrNone(pod[p].vifs)
    BY <1>1, <1>17 DEF Activate, Is, Tidy, InStep, Whole, Giving, Fits, Thread
  <2>2. CASE pod[p].st = "gone"
    BY <1>17, <2>1, <2>2, ReleasesTidy DEF Activate
  <2>3. CASE pod[p].st # "gone"
    <3>1. Owned(p) \subseteq work[p].vifs
      BY <2>1 DEF Owned, Asking, Giving
    <3> QED BY <1>2, <1>17, <2>1, <2>3, <3>1, StoresTidy DEF Activate
  <2> QED BY <2>2, <2>3
<1>18. CASE Clear(p)
  <2>1. work[p].pc = "clear" /\ pod[p].vifs \cap ports = {}
    BY <1>1, <1>18 DEF Clear, Is, Tidy, Whole, Giving
  <2>2. CASE pod[p].st = "gone"
    BY <1>18, <1>s, <2>1, <2>2 DEF Clear
  <2>3. CASE pod[p].st # "gone"
    <3>1. Owned(p) \cap ports \subseteq {}
      BY <2>1 DEF Owned, Asking, Giving
    <3> QED BY <1>2, <1>18, <2>1, <2>3, <3>1, StoresTidy DEF Clear, AllOrNone
  <2> QED BY <2>2, <2>3
<1>19. CASE AnnotationFails(p)
  BY <1>19, <1>s DEF AnnotationFails, Is
<1>20. CASE FetchPort(p)
  BY <1>20, FetchPortTidy
<1>21. CASE PortNotFound(p)
  <2>1. /\ work[p].pc = "release" /\ Releasing(p) /\ ItsPort(p) \notin ports
        /\ AllOrNone(work[p].vifs) /\ pod[p].vifs \cap ports \subseteq work[p].vifs
    BY <1>1, <1>21 DEF PortNotFound, Is, Fits, Thread, Tidy, Whole, Giving
  <2>2. ItsPort(p) \in work[p].vifs
    BY <2>1 DEF ItsPort, Releasing
  <2>3. work[p].vifs \cap ports = {} /\ pod[p].vifs \cap ports = {}
    BY <2>1, <2>2 DEF AllOrNone
  <2>4. Owned(p) \cap ports = {}
    BY <1>1, <2>1, <2>3 DEF Owned, Releasing
  <2> QED BY <1>21, <2>3, <2>4, StopTidy DEF PortNotFound, GivenUp, AllOrNone
<1>22. CASE RemovePair(p)
  BY <1>22, RemovePairTidy
<1>23. CASE DeletePort(p)
  BY <1>23, DeletePortTidy
<1> QED
  BY <1>3, <1>4, <1>5, <1>6, <1>7, <1>8, <1>9, <1>10, <1>11, <1>12, <1>13, <1>14, <1>15, <1>16,
     <1>17, <1>18, <1>19, <1>20, <1>21, <1>22, <1>23 DEF Acts, PodStep, Fails

LEMMA InitTidy == Init => LeftInv
<1> SUFFICES ASSUME Init PROVE LeftInv
  OBVIOUS
<1>1. \A p \in Pods : /\ pod[p].st = "none" /\ pod[p].vifs = {} /\ ~pod[p].news
                      /\ event[p] = NoEvent /\ work[p].pc = "idle"
  BY DEF Init, Idle
<1>2. ASSUME NEW p \in Pods PROVE Tidy(p)
  BY <1>1 DEF Tidy, InStep, Whole, AllOrNone, Unpairs, Holding, Asking, Giving
<1> QED BY <1>2 DEF Init, LeftInv, Accounted

(* Every port of Neutron is someone's, who will release it unless a pod    *)
(* needs it: VIFHandler.on_present and on_deleted together.                *)
THEOREM AllAccounted ==
    ASSUME Quiet
    PROVE  Spec => []LeftInv
<1>1. PodInv /\ PodInv' /\ LeftInv /\ [Next]_vars => LeftInv'
  <2> SUFFICES ASSUME PodInv, PodInv', LeftInv, [Next]_vars PROVE LeftInv'
    OBVIOUS
  <2>1. CASE Restart
    BY <2>1, RestartTidy
  <2>2. CASE UNCHANGED vars
    BY <2>2 DEF vars, LeftInv, Accounted, Owned, Tidy, InStep, Seen, Whole, AllOrNone, Unpairs,
                Holding
  <2>3. CASE \E p \in Pods : Acts(p)
    BY <2>3, LeftStep
  <2> QED BY <2>1, <2>2, <2>3 DEF Next, Acts
<1> QED BY <1>1, InitTidy, Kept, PTL DEF Spec

(* When all is handled, Neutron has the ports and the node's port has the  *)
(* pairs of the annotations of pods that have not ended, and no others.    *)
THEOREM LeftClean ==
    ASSUME Quiet
    PROVE  Spec => []NothingLeft
<1>1. PodInv /\ LeftInv => NothingLeft
  <2> SUFFICES ASSUME PodInv, LeftInv, Settled PROVE ports = Needed /\ pairs = Needed
    BY DEF NothingLeft
  <2>1. Needed \subseteq ports \cap pairs
    BY DEF PodInv, Fits, Works, Told, Needed, Over
  <2>2. ASSUME NEW x \in ports PROVE x \in Needed
    <3>1. PICK p \in Pods : x \in Owned(p)
      BY DEF LeftInv, Accounted
    <3>2. work[p].pc = "idle" /\ ~pod[p].news /\ event[p] = NoEvent
      BY DEF Settled, Is
    <3>3. x \in pod[p].vifs /\ pod[p].st \notin Over
      BY <3>1, <3>2 DEF Owned, Asking, Giving
    <3>4. pod[p].st \in States /\ pod[p].st # "none"
      BY <3>3 DEF PodInv, TypeOK, PodType, LeftInv, Tidy, InStep
    <3> QED BY <3>3, <3>4 DEF Needed, Over, States
  <2> QED BY <2>1, <2>2 DEF LeftInv, Accounted
<1> QED BY <1>1, Kept, AllAccounted, PTL

=============================================================================

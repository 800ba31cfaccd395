------------------------ MODULE EventPipelineProofs ------------------------
(***************************************************************************)
(* Theorems of Watcher and EventPipeline, for any paths, objects, depth of *)
(* the queues, elections and failures: no path is left unwatched and none  *)
(* is watched by a controller that has been stopped; no queue exceeds its  *)
(* depth; and the handlers never go back to an older version.              *)
(***************************************************************************)
EXTENDS EventPipeline, SequenceTheorems, FiniteSetTheorems, TLAPS

(* The inductive invariant of the watcher: a path is in _watching exactly    *)
(* while it has a thread, and no thread is left when the process has ended.  *)
WatcherInv ==
    /\ WatcherTypes
    /\ watching = {p \in Paths : thread[p] # "none"}
    /\ \A p \in Paths : thread[p] # "none" => up
    /\ PathsWatched
    /\ StandbyQuiet

(* The watcher is started: every path that has no thread gets one. *)
LEMMA StartKeeps ==
    ASSUME WatcherInv, StartWatcher
    PROVE  /\ watching' = Paths /\ running' = TRUE
           /\ up' = up /\ alive' = alive
           /\ thread' \in [Paths -> ThreadStages]
           /\ \A p \in Paths : thread'[p] # "none"
BY DEF WatcherInv, WatcherTypes, StartWatcher, ThreadStages

(* The watcher is stopped: only the threads that are in the handler stay, or *)
(* the process ends.                                                         *)
LEMMA StopKeeps ==
    ASSUME WatcherInv, StopWatcher
    PROVE  /\ watching' = {p \in Paths : thread'[p] # "none"} /\ running' = FALSE
           /\ up' \in BOOLEAN /\ alive' = alive
           /\ thread' \in [Paths -> ThreadStages]
           /\ \A p \in Paths : thread'[p] \in {"none", "handling"}
           /\ up' = up \/ \A p \in Paths : thread'[p] = "none"
<1> DEFINE busy == {p \in watching : ~Idle(p)}
<1>1. CASE Exit
  BY <1>1 DEF Exit, StopWatcher, ThreadStages
<1>2. CASE /\ running' = FALSE /\ watching' = busy /\ UNCHANGED up
           /\ thread' = [p \in Paths |-> IF p \in busy THEN "handling" ELSE "none"]
  BY <1>2 DEF WatcherInv, WatcherTypes, StopWatcher, ThreadStages
<1> QED BY <1>1, <1>2 DEF StopWatcher

(* The thread of a path ends, and perhaps the process. *)
LEMMA ExitKeeps ==
    ASSUME WatcherInv, NEW p \in Paths, GracefulExit(p)
    PROVE  /\ watching' = {q \in Paths : thread'[q] # "none"}
           /\ up' \in BOOLEAN /\ thread' \in [Paths -> ThreadStages]
           /\ \A q \in Paths : thread'[q] \in {"none", thread[q]}
           /\ \/ running' = running
              \/ running' = FALSE /\ \A q \in Paths : thread'[q] = "none"
           /\ up' = up \/ \A q \in Paths : thread'[q] = "none"
<1>1. CASE Exit
  BY <1>1 DEF Exit, ThreadStages
<1>2. CASE /\ watching' = watching \ {p}
           /\ thread' = [thread EXCEPT ![p] = "none"]
           /\ UNCHANGED <<up, running>>
  BY <1>2 DEF WatcherInv, WatcherTypes, ThreadStages
<1> QED BY <1>1, <1>2 DEF GracefulExit

(* A step of a thread that goes on to another stage. *)
LEMMA StageKeeps ==
    ASSUME WatcherInv, NEW p \in Paths, NEW l \in ThreadStages \ {"none"},
           thread[p] # "none",
           running \/ (thread[p] = "handling" /\ l = "handling"),
           thread' = [thread EXCEPT ![p] = l],
           UNCHANGED <<up, electorVars, leaderVars, running, watching, alive>>
    PROVE  WatcherInv'
BY DEF WatcherInv, WatcherTypes, PathsWatched, StandbyQuiet, ThreadStages,
       electorVars, leaderVars

(* The watcher's steps keep the invariant. *)
LEMMA WatcherStepKeeps ==
    ASSUME WatcherInv, [WatcherNext]_watcherVars
    PROVE  WatcherInv'
<1> USE WatcherAssumption DEF ThreadStages
<1>1. ASSUME NEW l \in {"self", "other", "error"}, Elect(l) PROVE WatcherInv'
  BY <1>1 DEF Elect, WatcherInv, WatcherTypes, PathsWatched, StandbyQuiet,
              leaderVars, watchVars
<1>2. CASE BecomeLeader
  BY <1>2, StartKeeps DEF BecomeLeader, WatcherInv, WatcherTypes, PathsWatched,
                          StandbyQuiet, electorVars
<1>3. CASE SyncEnds
  BY <1>3 DEF SyncEnds, WatcherInv, WatcherTypes, PathsWatched, StandbyQuiet,
              electorVars, watchVars
<1>4. CASE SyncFails
  <2>1. CASE UNCHANGED <<up, watchVars>>
    BY <1>4, <2>1 DEF SyncFails, WatcherInv, WatcherTypes, PathsWatched,
                      StandbyQuiet, electorVars, watchVars
  <2>2. CASE Exit /\ UNCHANGED alive
    BY <1>4, <2>2 DEF SyncFails, Exit, WatcherInv, WatcherTypes, PathsWatched,
                      StandbyQuiet, electorVars
  <2> QED BY <1>4, <2>1, <2>2 DEF SyncFails
<1>5. CASE RevokeLeader
  <2>1. CASE StopWatcher
    BY <1>5, <2>1, StopKeeps DEF RevokeLeader, WatcherInv, WatcherTypes,
                                 PathsWatched, StandbyQuiet, electorVars
  <2>2. CASE UNCHANGED <<up, watchVars>>
    BY <1>5, <2>2 DEF RevokeLeader, WatcherInv, WatcherTypes, PathsWatched,
                      StandbyQuiet, electorVars, watchVars
  <2> QED BY <1>5, <2>1, <2>2 DEF RevokeLeader
<1>6. CASE ContinueLeader
  <2>1. CASE StartWatcher
    BY <1>6, <2>1, StartKeeps DEF ContinueLeader, WatcherInv, WatcherTypes,
                     PathsWatched, StandbyQuiet, electorVars, leaderVars
  <2>2. CASE UNCHANGED <<up, watchVars>>
    BY <1>6, <2>2 DEF ContinueLeader, WatcherInv, WatcherTypes, PathsWatched,
                      StandbyQuiet, electorVars, leaderVars, watchVars
  <2> QED BY <1>6, <2>1, <2>2 DEF ContinueLeader
<1>7. CASE StandBy
  BY <1>7 DEF StandBy, WatcherInv, WatcherTypes, PathsWatched, StandbyQuiet,
              electorVars, watchVars
<1>8. ASSUME NEW p \in Paths, ThreadStep(p) PROVE WatcherInv'
  <2>1. CASE WatchStarts(p) \/ WatchRetries(p)
    <3>1. running
      BY <2>1 DEF WatchStarts, WatchRetries, WatcherInv, StandbyQuiet
    <3> QED BY <2>1, <3>1, StageKeeps DEF WatchStarts, WatchRetries, EnterLoop
  <2>2. CASE WatchOpens(p) \/ WatchFails(p) \/ WatchTakes(p)
    <3>1. running
      BY <2>2 DEF WatchOpens, WatchFails, WatchTakes, WatcherInv, StandbyQuiet
    <3> QED BY <2>2, <3>1, StageKeeps DEF WatchOpens, WatchFails, WatchTakes
  <2>3. CASE WatchGivesUp(p)
    BY <2>3, ExitKeeps DEF WatchGivesUp, WatcherInv, WatcherTypes, PathsWatched,
                           StandbyQuiet, electorVars, leaderVars
  <2>4. CASE WatchGoesOn(p) /\ running
    <3>1. /\ thread[p] = "handling" /\ thread' = [thread EXCEPT ![p] = "listening"]
          /\ UNCHANGED <<up, electorVars, leaderVars, running, watching, alive>>
      BY <2>4, Zenon DEF WatchGoesOn
    <3>2. thread[p] # "none" /\ "listening" \in ThreadStages \ {"none"}
      BY <3>1
    <3>3. running
      BY <2>4
    <3> QED BY <3>1, <3>2, <3>3, StageKeeps, Zenon
  <2>5. CASE WatchGoesOn(p) /\ ~running
    BY <2>5, ExitKeeps DEF WatchGoesOn, WatcherInv, WatcherTypes, PathsWatched,
                           StandbyQuiet, electorVars, leaderVars
  <2> QED BY <1>8, <2>1, <2>2, <2>3, <2>4, <2>5 DEF ThreadStep
<1>9. CASE Restarted
  BY <1>9 DEF Restarted, Fresh, WatcherInv, WatcherTypes, PathsWatched,
              StandbyQuiet, electorVars
<1>10. CASE UNCHANGED watcherVars
  BY <1>10 DEF watcherVars, WatcherInv, WatcherTypes, PathsWatched, StandbyQuiet,
               electorVars, leaderVars, watchVars
<1> QED BY <1>1, <1>2, <1>3, <1>4, <1>5, <1>6, <1>7, <1>8, <1>9, <1>10
        DEF WatcherNext, MonitorStep

LEMMA WatcherInitInv == WatcherInit => WatcherInv
<1> SUFFICES ASSUME WatcherInit PROVE WatcherInv
  OBVIOUS
<1>1. up /\ up \in BOOLEAN /\ alive \in BOOLEAN
  BY Zenon DEF WatcherInit
<1>2. /\ elector \in {"self", "other", "error"} /\ elections \in 0..MaxElections
      /\ currentLeader \in {"none", "self", "other"}
  BY WatcherAssumption DEF WatcherInit
<1>3. CASE HA
  <2>1. /\ ~running /\ running \in BOOLEAN
    BY <1>3, WatcherAssumption, Zenon DEF WatcherInit
  <2>2. /\ watching = {} /\ monitor = "waiting"
        /\ thread = [p \in Paths |-> "none"]
    BY <1>3, WatcherAssumption, Zenon DEF WatcherInit
  <2> QED BY <1>1, <1>2, <2>1, <2>2
          DEF WatcherInv, WatcherTypes, PathsWatched, StandbyQuiet, ThreadStages
<1>4. CASE ~HA
  <2>1. /\ running /\ running \in BOOLEAN
    BY <1>4, WatcherAssumption, Zenon DEF WatcherInit
  <2>2. /\ watching = Paths /\ monitor = "syncing"
        /\ thread = [p \in Paths |-> "new"]
    BY <1>4, WatcherAssumption, Zenon DEF WatcherInit
  <2> QED BY <1>1, <1>2, <2>1, <2>2
          DEF WatcherInv, WatcherTypes, PathsWatched, StandbyQuiet, ThreadStages
<1> QED BY <1>3, <1>4

LEMMA NextWatches ==
    ASSUME [Next]_vars
    PROVE  [WatcherNext]_watcherVars
<1>1. ASSUME NEW o \in Objects, Change(o) \/ Delete(o) \/ WorkerStep(o)
      PROVE  UNCHANGED watcherVars
  BY <1>1 DEF Change, Delete, WorkerStep, GetEvent, SkipStale, CallHandlers,
              WorkerEnds, NoNeed, Attempt, Succeeds, FailsForNow, NextAttempt,
              FailsForGood, Done, Worker
<1>2. ASSUME NEW p \in Paths, WatchStep(p) \/ FailWatch(p)
      PROVE  ThreadStep(p)
  BY <1>2 DEF WatchStep, OpenWatch, FailWatch, GiveUpWatch, TakeEvent, PutEvent,
              Closing, ThreadStep
<1>3. ASSUME NEW p \in Paths, Relist(p) PROVE UNCHANGED watcherVars
  BY <1>3 DEF Relist
<1>4. CASE Monitor
  BY <1>4 DEF Monitor, Closing, MonitorStep, WatcherNext
<1>5. CASE Election
  BY <1>5 DEF Election, WatcherNext
<1>6. CASE Restart
  BY <1>6 DEF Restart, WatcherNext
<1>7. CASE UNCHANGED vars
  BY <1>7 DEF vars
<1> QED BY <1>1, <1>2, <1>3, <1>4, <1>5, <1>6, <1>7 DEF Next, WatcherNext

(* The pipeline only adds to what the watcher does: its events, queues and   *)
(* handlers never start, stop or end a watch in another way.                 *)
THEOREM PipelineWatches == Spec => WatcherSpec
<1>1. Init => WatcherInit
  BY DEF Init
<1>2. [Next]_vars => [WatcherNext]_watcherVars
  BY NextWatches
<1> QED BY <1>1, <1>2, PTL DEF Spec, WatcherSpec

(* A path with a watch always has a living thread, as long as the watcher     *)
(* says that it is alive, through elections, failures and restarts.          *)
THEOREM Watches == Spec => []PathsWatched
<1>1. WatcherInv => PathsWatched
  BY DEF WatcherInv
<1> QED BY <1>1, WatcherInitInv, WatcherStepKeeps, PipelineWatches, PTL
        DEF WatcherSpec

(* A controller that is not the leader takes no event. *)
THEOREM Standby == Spec => []StandbyQuiet
<1>1. WatcherInv => StandbyQuiet
  BY DEF WatcherInv
<1> QED BY <1>1, WatcherInitInv, WatcherStepKeeps, PipelineWatches, PTL
        DEF WatcherSpec

-----------------------------------------------------------------------------
(* The order of the versions of an object on their way: the handlers' last   *)
(* one, the one at work, those in the queue, those in the watch, the API's.  *)

PipeTypes ==
    /\ version \in [Objects -> 0..MaxVersion] /\ deleted \subseteq Objects
    /\ stream \in [Paths -> Seq(Objects \X (1..MaxVersion))]
    /\ queue \in [Objects -> Seq(1..MaxVersion)]
    /\ \A o \in Objects : Len(queue[o]) <= QueueDepth
    /\ worker \in [Objects -> WorkerStages]
    /\ current \in [Objects -> 0..MaxVersion]
    /\ handled \in [Objects -> 0..MaxVersion] /\ dropped \in [Objects -> 0..MaxVersion]
    /\ healthy \in BOOLEAN /\ failures \in 0..MaxFailures

Working == {"stale", "calling", "running", "asleep"}

WorkInOrder ==
    /\ \A o \in Objects : handled[o] <= version[o] /\ current[o] <= version[o]
    /\ \A o \in Objects : worker[o] \in Working => handled[o] <= current[o]
    /\ \A o \in Objects : \A i \in 1..Len(queue[o]) :
          handled[o] <= queue[o][i] /\ current[o] <= queue[o][i] /\ queue[o][i] <= version[o]
    /\ \A o \in Objects : \A i, j \in 1..Len(queue[o]) :
          i <= j => queue[o][i] <= queue[o][j]

(* Event e of the watch of path p is not older than what has left the watch. *)
Follows(p, e) ==
    /\ PathOf[e[1]] = p /\ e[2] <= version[e[1]]
    /\ handled[e[1]] <= e[2] /\ current[e[1]] <= e[2]
    /\ \A i \in 1..Len(queue[e[1]]) : queue[e[1]][i] <= e[2]

WatchInOrder ==
    /\ \A p \in Paths : \A i \in 1..Len(stream[p]) : Follows(p, stream[p][i])
    /\ \A p \in Paths : \A i, j \in 1..Len(stream[p]) :
          i <= j /\ stream[p][i][1] = stream[p][j][1] => stream[p][i][2] <= stream[p][j][2]

(* A thread that is in the handler has the event that it has given to it. *)
HoldsEvent == \A p \in Paths : thread[p] = "handling" => stream[p] # <<>>

PipeInv == PipeTypes /\ WorkInOrder /\ WatchInOrder

(* Only a step that takes an event brings a thread into the handler. *)
LEMMA NoneTaken ==
    ASSUME WatcherInv, NEW p \in Paths, thread'[p] = "handling",
           \/ MonitorStep
           \/ \E l \in {"self", "other", "error"} : Elect(l)
           \/ \E q \in Paths : WatchStarts(q) \/ WatchOpens(q) \/ WatchFails(q)
                              \/ WatchRetries(q) \/ WatchGivesUp(q)
           \/ Restarted
    PROVE  thread[p] = "handling"
<1> USE DEF ThreadStages, WatcherInv, WatcherTypes
<1>1. CASE StartWatcher
  BY <1>1 DEF StartWatcher
<1>2. CASE StopWatcher
  BY <1>2 DEF StopWatcher, Exit, Idle
<1>3. CASE Exit
  BY <1>3 DEF Exit
<1>4. CASE thread' = thread
  BY <1>4
<1>5. CASE MonitorStep
  BY <1>1, <1>2, <1>3, <1>4, <1>5
  DEF MonitorStep, BecomeLeader, SyncEnds, SyncFails, RevokeLeader, ContinueLeader,
      StandBy, watchVars
<1>6. ASSUME NEW l \in {"self", "other", "error"}, Elect(l) PROVE thread[p] = "handling"
  BY <1>4, <1>6 DEF Elect, watchVars
<1>7. ASSUME NEW q \in Paths, WatchStarts(q) \/ WatchOpens(q) \/ WatchFails(q)
                              \/ WatchRetries(q) \/ WatchGivesUp(q)
      PROVE  thread[p] = "handling"
  <2>1. CASE WatchGivesUp(q)
    BY <2>1, ExitKeeps DEF WatchGivesUp
  <2>2. PICK l \in ThreadStages \ {"handling"} : thread' = [thread EXCEPT ![q] = l]
        \/ WatchGivesUp(q)
    BY <1>7 DEF WatchStarts, WatchOpens, WatchFails, WatchRetries, EnterLoop
  <2> QED BY <2>1, <2>2
<1>8. CASE Restarted
  BY <1>8 DEF Restarted, Fresh
<1> QED BY <1>5, <1>6, <1>7, <1>8

(* A step that moves no version. *)
LEMMA SameKeeps ==
    ASSUME PipeInv, UNCHANGED <<apiVars, stream, queue, current, doneVars>>,
           worker' \in [Objects -> WorkerStages],
           \A o \in Objects : worker'[o] \in Working => worker[o] \in Working,
           healthy' \in BOOLEAN, failures' \in 0..MaxFailures
    PROVE  PipeInv'
BY DEF PipeInv, PipeTypes, WorkInOrder, WatchInOrder, Follows, apiVars, doneVars

LEMMA EndsKeep ==
    ASSUME PipeInv, PipelineEnds, UNCHANGED <<apiVars, doneVars>>,
           failures' \in 0..MaxFailures
    PROVE  PipeInv'
BY PipelineAssumption
DEF PipeInv, PipeTypes, WorkInOrder, WatchInOrder, Follows, apiVars, doneVars,
    PipelineEnds, WorkerStages, Working

(* Watches that are closed. *)
LEMMA ClosedKeep ==
    ASSUME PipeInv, NEW S,
           stream' = [p \in Paths |-> IF p \in S THEN stream[p] ELSE <<>>],
           UNCHANGED <<apiVars, doneVars, workVars, healthy>>,
           failures' \in 0..MaxFailures
    PROVE  PipeInv'
<1>1. PipeTypes' /\ WorkInOrder'
  BY DEF PipeInv, PipeTypes, WorkInOrder, apiVars, doneVars, workVars
<1>2. ASSUME NEW p \in Paths, NEW i \in 1..Len(stream'[p])
      PROVE  stream'[p] = stream[p]
  BY <1>2 DEF PipeInv, PipeTypes
<1>3. WatchInOrder'
  <2>1. ASSUME NEW p \in Paths, NEW i \in 1..Len(stream'[p])
        PROVE  Follows(p, stream[p][i])'
    <3>1. stream'[p] = stream[p] /\ Follows(p, stream[p][i])
      BY <1>2, <2>1 DEF PipeInv, WatchInOrder
    <3> QED BY <3>1 DEF Follows, apiVars, doneVars, workVars
  <2>2. ASSUME NEW p \in Paths, NEW i \in 1..Len(stream'[p]), NEW j \in 1..Len(stream'[p]),
               i <= j, stream'[p][i][1] = stream'[p][j][1]
        PROVE  stream'[p][i][2] <= stream'[p][j][2]
    BY <1>2, <2>2 DEF PipeInv, WatchInOrder
  <2> QED BY <2>1, <2>2 DEF WatchInOrder
<1> QED BY <1>1, <1>3 DEF PipeInv

(* A function on 1..n is a sequence. *)
LEMMA FunctionIsSeq ==
    ASSUME NEW S, NEW n \in Nat, NEW f \in [1..n -> S]
    PROVE  f \in Seq(S) /\ Len(f) = n
OBVIOUS

(* A watch that begins with the objects as they are. *)
LEMMA ListingKeeps ==
    ASSUME PipeInv, NEW p \in Paths, NEW s \in Listings(p),
           stream' = [stream EXCEPT ![p] = s],
           UNCHANGED <<apiVars, doneVars, workVars, healthy>>,
           failures' \in 0..MaxFailures
    PROVE  PipeInv'
<1> DEFINE E == {o \in Objects : PathOf[o] = p /\ InAPI(o)}
<1>1. Cardinality(E) \in Nat
  BY PipelineAssumption, FS_Subset, FS_CardinalityType
<1>2. s \in [1..Cardinality(E) -> {<<o, version[o]>> : o \in E}]
  BY DEF Listings
<1>3. s \in Seq({<<o, version[o]>> : o \in E})
  <2> HIDE DEF E
  <2> QED BY <1>1, <1>2, FunctionIsSeq
<1>4. \A o \in E : version[o] \in 1..MaxVersion /\ PathOf[o] = p
  BY DEF PipeInv, PipeTypes, InAPI
<1>5. \A i \in 1..Len(s) : \E o \in E : s[i] = <<o, version[o]>>
  <2> HIDE DEF E
  <2> QED BY <1>3, ElementOfSeq
<1>6. {<<o, version[o]>> : o \in E} \subseteq Objects \X (1..MaxVersion)
  BY <1>4
<1>7. s \in Seq(Objects \X (1..MaxVersion))
  BY <1>3, <1>6, SeqMonotonic
<1>8. PipeTypes'
  BY <1>7 DEF PipeInv, PipeTypes, apiVars, doneVars, workVars
<1>9. WorkInOrder'
  BY DEF PipeInv, WorkInOrder, apiVars, doneVars, workVars
<1>10. \A o \in E : Follows(p, <<o, version[o]>>)'
  BY <1>4 DEF PipeInv, PipeTypes, WorkInOrder, Follows, apiVars, doneVars, workVars
<1>11. WatchInOrder'
  <2>1. ASSUME NEW q \in Paths, q # p PROVE stream'[q] = stream[q]
    BY <2>1 DEF PipeInv, PipeTypes
  <2>2. stream'[p] = s
    BY DEF PipeInv, PipeTypes
  <2>3. ASSUME NEW q \in Paths, NEW i \in 1..Len(stream'[q])
        PROVE  Follows(q, stream[q][i])'
    <3>1. CASE q = p
      <4>1. PICK o \in E : s[i] = <<o, version[o]>>
        BY <1>5, <2>2, <2>3, <3>1
      <4>2. stream'[q][i] = <<o, version[o]>> /\ version'[o] = version[o]
        BY <2>2, <3>1, <4>1 DEF apiVars
      <4> QED BY <1>10, <3>1, <4>2 DEF Follows
    <3>2. CASE q # p
      <4>1. stream'[q] = stream[q] /\ Follows(q, stream[q][i])
        BY <2>1, <2>3, <3>2 DEF PipeInv, WatchInOrder
      <4> QED BY <4>1 DEF Follows, apiVars, doneVars, workVars
    <3> QED BY <3>1, <3>2
  <2>4. \A i, j \in 1..Len(s) : s[i][1] = s[j][1] => s[i][2] <= s[j][2]
    BY <1>5, <1>4
  <2>5. ASSUME NEW q \in Paths, NEW i \in 1..Len(stream'[q]), NEW j \in 1..Len(stream'[q]),
               i <= j, stream'[q][i][1] = stream'[q][j][1]
        PROVE  stream'[q][i][2] <= stream'[q][j][2]
    <3>1. CASE q = p
      BY <2>2, <2>4, <2>5, <3>1
    <3>2. CASE q # p
      BY <2>1, <2>5, <3>2 DEF PipeInv, WatchInOrder
    <3> QED BY <3>1, <3>2
  <2> QED BY <2>3, <2>5 DEF WatchInOrder
<1> QED BY <1>8, <1>9, <1>11 DEF PipeInv

(* Where the versions lie, and that an event follows what has left its watch. *)
LEMMA Versions ==
    ASSUME PipeInv
    PROVE  /\ \A o \in Objects : version[o] \in Nat /\ current[o] \in Nat /\ handled[o] \in Nat
           /\ \A o \in Objects : Len(queue[o]) \in Nat
           /\ \A o \in Objects : \A i \in 1..Len(queue[o]) : queue[o][i] \in Nat
           /\ \A p \in Paths : Len(stream[p]) \in Nat
           /\ \A p \in Paths : \A i \in 1..Len(stream[p]) :
                /\ stream[p][i] \in Objects \X (1..MaxVersion)
                /\ stream[p][i][1] \in Objects /\ stream[p][i][2] \in Nat
                /\ Follows(p, stream[p][i])
<1>1. MaxVersion \in Nat /\ PipeTypes
  BY PipelineAssumption DEF PipeInv
<1>2. \A o \in Objects : \A i \in 1..Len(queue[o]) : queue[o][i] \in 1..MaxVersion
  BY <1>1, ElementOfSeq DEF PipeTypes
<1>3. \A p \in Paths : \A i \in 1..Len(stream[p]) : stream[p][i] \in Objects \X (1..MaxVersion)
  BY <1>1, ElementOfSeq DEF PipeTypes
<1>4. \A o \in Objects : version[o] \in Nat /\ current[o] \in Nat /\ handled[o] \in Nat
  BY <1>1 DEF PipeTypes
<1>5. /\ \A o \in Objects : Len(queue[o]) \in Nat
      /\ \A p \in Paths : Len(stream[p]) \in Nat
  BY <1>1 DEF PipeTypes
<1>6. \A p \in Paths : \A i \in 1..Len(stream[p]) : Follows(p, stream[p][i])
  BY DEF PipeInv, WatchInOrder
<1> QED BY <1>1, <1>2, <1>3, <1>4, <1>5, <1>6

(* An object has a new version, which its watch, if it is open, yields last.  *)
LEMMA NewVersionKeeps ==
    ASSUME PipeInv, NEW o \in Objects, version[o] < MaxVersion,
           version' = [version EXCEPT ![o] = @ + 1], deleted' \subseteq Objects,
           Emit(o), UNCHANGED <<workVars, healthy, doneVars, failures>>
    PROVE  PipeInv'
<1> DEFINE p == PathOf[o]
           e == <<o, version'[o]>>
           FollowsNow(q, d) ==
              /\ PathOf[d[1]] = q /\ d[2] <= version'[d[1]]
              /\ handled'[d[1]] <= d[2] /\ current'[d[1]] <= d[2]
              /\ \A i \in 1..Len(queue'[d[1]]) : queue'[d[1]][i] <= d[2]
<1>1. p \in Paths /\ stream[p] \in Seq(Objects \X (1..MaxVersion))
  BY PipelineAssumption DEF PipeInv, PipeTypes
<1>2. /\ version' \in [Objects -> 0..MaxVersion] /\ version'[o] = version[o] + 1
      /\ \A x \in Objects : version[x] <= version'[x]
      /\ e \in Objects \X (1..MaxVersion)
  BY PipelineAssumption DEF PipeInv, PipeTypes
<1>3. WorkInOrder'
  <2>1. UNCHANGED <<handled, current, queue, worker>>
    BY DEF workVars, doneVars
  <2>2. \A x \in Objects : version'[x] \in Nat
    BY <1>2, PipelineAssumption
  <2> QED BY <1>2, <2>1, <2>2, Versions DEF PipeInv, WorkInOrder
<1>4. \A q \in Paths : \A i \in 1..Len(stream[q]) :
        /\ stream[q][i] \in Objects \X (1..MaxVersion)
        /\ Follows(q, stream[q][i])
  BY ElementOfSeq DEF PipeInv, PipeTypes, WatchInOrder
<1>5. ASSUME NEW q \in Paths, NEW d \in Objects \X (1..MaxVersion), Follows(q, d)
      PROVE  FollowsNow(q, d)
  BY <1>2, <1>5 DEF Follows, PipeInv, PipeTypes, workVars, doneVars
<1>6. CASE stream' = stream
  <2>1. PipeTypes'
    BY <1>2, <1>6 DEF PipeInv, PipeTypes, workVars, doneVars
  <2>2. ASSUME NEW q \in Paths, NEW i \in 1..Len(stream'[q])
        PROVE  Follows(q, stream[q][i])'
    BY <1>4, <1>5, <1>6, <2>2 DEF Follows
  <2>3. WatchInOrder'
    BY <2>2, <1>6 DEF WatchInOrder, PipeInv
  <2> QED BY <1>3, <2>1, <2>3 DEF PipeInv
<1>7. CASE stream' = [stream EXCEPT ![p] = Append(@, e)]
  <2>1. stream'[p] = Append(stream[p], e) /\ \A q \in Paths \ {p} : stream'[q] = stream[q]
    BY <1>1, <1>7 DEF PipeInv, PipeTypes
  <2>2. PipeTypes'
    <3>1. stream' \in [Paths -> Seq(Objects \X (1..MaxVersion))]
      <4> HIDE DEF e
      <4>1. Append(stream[p], e) \in Seq(Objects \X (1..MaxVersion))
        BY <1>1, <1>2, AppendProperties
      <4> QED BY <1>1, <1>7, <4>1 DEF PipeInv, PipeTypes
    <3> QED BY <1>2, <3>1 DEF PipeInv, PipeTypes, workVars, doneVars
  <2>3. FollowsNow(p, e)
    <3>1. UNCHANGED <<handled, current, queue>>
      BY DEF workVars, doneVars
    <3>2. /\ handled[o] <= version[o] /\ current[o] <= version[o]
          /\ \A i \in 1..Len(queue[o]) : queue[o][i] <= version[o] /\ queue[o][i] \in Nat
          /\ handled[o] \in Nat /\ current[o] \in Nat /\ version[o] \in Nat
      BY Versions DEF PipeInv, WorkInOrder
    <3> QED BY <1>2, <3>1, <3>2
  <2>4. /\ Len(stream'[p]) = Len(stream[p]) + 1 /\ stream'[p][Len(stream[p]) + 1] = e
        /\ \A i \in 1..Len(stream[p]) : stream'[p][i] = stream[p][i]
    BY <1>1, <1>2, <2>1
  <2>5. ASSUME NEW q \in Paths, NEW i \in 1..Len(stream'[q])
        PROVE  Follows(q, stream[q][i])'
    <3>1. CASE q = p /\ i = Len(stream[p]) + 1
      <4>1. stream'[q][i] = e
        BY <2>4, <3>1
      <4>2. FollowsNow(q, stream'[q][i])
        <5> HIDE DEF FollowsNow, e
        <5> QED BY <2>3, <3>1, <4>1
      <4> QED BY <4>2 DEF Follows
    <3>2. CASE ~(q = p /\ i = Len(stream[p]) + 1)
      <4>1. i \in 1..Len(stream[q]) /\ stream'[q][i] = stream[q][i]
        <5>1. CASE q = p
          <6>1. Len(stream[p]) \in Nat
            BY <1>1, Versions
          <6> HIDE DEF e, p
          <6> QED BY <2>4, <2>5, <3>2, <5>1, <6>1
        <5>2. CASE q # p
          BY <2>1, <2>5, <5>2
        <5> QED BY <5>1, <5>2
      <4>2. FollowsNow(q, stream'[q][i])
        <5> HIDE DEF FollowsNow
        <5> QED BY <1>4, <1>5, <4>1
      <4> QED BY <4>2 DEF Follows
    <3> QED BY <3>1, <3>2
  <2>6. ASSUME NEW q \in Paths, NEW i \in 1..Len(stream'[q]), NEW j \in 1..Len(stream'[q]),
               i <= j, stream'[q][i][1] = stream'[q][j][1]
        PROVE  stream'[q][i][2] <= stream'[q][j][2]
    <3>1. CASE j \in 1..Len(stream[q]) /\ i \in 1..Len(stream[q])
      <4>1. stream'[q][i] = stream[q][i] /\ stream'[q][j] = stream[q][j]
        BY <2>1, <2>4, <3>1
      <4> QED BY <2>6, <3>1, <4>1 DEF PipeInv, WatchInOrder
    <3>2. CASE q = p /\ j = Len(stream[p]) + 1 /\ i \in 1..Len(stream[p])
      <4>1. stream'[q][i] = stream[q][i] /\ stream'[q][j] = e /\ stream[q][i][1] = o
        BY <2>4, <2>6, <3>2
      <4>2. stream[q][i][2] <= version[o] /\ stream[q][i][2] \in Nat /\ version[o] \in Nat
        BY <3>2, <4>1, Versions DEF Follows
      <4>3. stream'[q][i][2] = stream[q][i][2] /\ stream'[q][j][2] = version[o] + 1
        BY <1>2, <4>1
      <4>4. stream[q][i][2] <= version[o] + 1
        BY <4>2
      <4> QED BY <4>2, <4>3, <4>4
    <3>3. CASE q = p /\ j = Len(stream[p]) + 1 /\ i = j
      BY <1>2, <2>4, <3>3, PipelineAssumption
    <3>4. CASE q = p
      <4>1. i \in 1..(Len(stream[p]) + 1) /\ j \in 1..(Len(stream[p]) + 1) /\ Len(stream[p]) \in Nat
        BY <1>1, <2>4, <3>4, Versions
      <4> HIDE DEF p
      <4> QED BY <2>6, <3>1, <3>2, <3>3, <3>4, <4>1
    <3>5. CASE q # p
      BY <2>1, <3>1, <3>5
    <3> QED BY <3>4, <3>5
  <2> QED BY <1>3, <2>2, <2>5, <2>6 DEF PipeInv, WatchInOrder
<1> QED BY <1>6, <1>7 DEF Emit

(* The thread of an object has dealt with its event, or given it up. *)
LEMMA DoneKeeps ==
    ASSUME PipeInv, NEW o \in Objects, worker[o] \in Working, Done(o),
           handled' = handled \/ handled' = [handled EXCEPT ![o] = current[o]],
           dropped' \in [Objects -> 0..MaxVersion], healthy' \in BOOLEAN,
           failures' \in 0..MaxFailures
    PROVE  PipeInv' /\ \A x \in Objects : handled'[x] >= handled[x]
<1>1. \A x \in Objects : /\ handled'[x] \in {handled[x], current[x]}
                         /\ handled[x] <= handled'[x] /\ current'[x] <= current[x]
  BY DEF PipeInv, PipeTypes, WorkInOrder, Done
<1>2. PipeTypes'
  <2>1. worker' \in [Objects -> WorkerStages] /\ current' \in [Objects -> 0..MaxVersion]
    BY PipelineAssumption DEF PipeInv, PipeTypes, Done, Worker, WorkerStages
  <2>2. handled' \in [Objects -> 0..MaxVersion]
    BY DEF PipeInv, PipeTypes
  <2>3. UNCHANGED <<version, deleted, stream, queue>>
    BY DEF Done, Worker, apiVars
  <2> QED BY <2>1, <2>2, <2>3 DEF PipeInv, PipeTypes
<1>3. UNCHANGED <<version, queue, stream>>
  BY DEF Done, Worker, apiVars
<1>4. WorkInOrder'
  <2>1. \A x \in Objects : worker'[x] \in Working => worker[x] \in Working /\ x # o
    BY DEF Done, Worker, PipeInv, PipeTypes, Working
  <2>2. \A x \in Objects : x # o => handled'[x] = handled[x] /\ current'[x] = current[x]
    BY DEF Done, PipeInv, PipeTypes
  <2>3. \A x \in Objects : /\ handled'[x] <= version'[x] /\ current'[x] <= version'[x]
                           /\ \A i \in 1..Len(queue'[x]) : handled'[x] <= queue'[x][i]
                                                           /\ current'[x] <= queue'[x][i]
    <3> TAKE x \in Objects
    <3>1. /\ handled[x] <= version[x] /\ current[x] <= version[x]
          /\ \A i \in 1..Len(queue[x]) : handled[x] <= queue[x][i] /\ current[x] <= queue[x][i]
      BY DEF PipeInv, WorkInOrder
    <3>2. handled'[x] \in Nat /\ current'[x] \in Nat
      BY <1>2, PipelineAssumption DEF PipeTypes
    <3> QED BY <1>1, <1>3, <3>1, <3>2, Versions
  <2> QED BY <1>3, <2>1, <2>2, <2>3 DEF PipeInv, WorkInOrder
<1>5. ASSUME NEW p \in Paths, NEW i \in 1..Len(stream[p])
      PROVE  Follows(p, stream[p][i])'
  <2> DEFINE d == stream[p][i]
  <2>1. Follows(p, d) /\ d[1] \in Objects /\ d[2] \in Nat
    BY <1>5, Versions
  <2>2. handled'[d[1]] <= d[2] /\ current'[d[1]] <= d[2]
    <3> HIDE DEF d
    <3>1. handled'[d[1]] \in Nat /\ current'[d[1]] \in Nat
      BY <1>2, <2>1, PipelineAssumption DEF PipeTypes
    <3>2. /\ handled'[d[1]] \in {handled[d[1]], current[d[1]]} /\ current'[d[1]] <= current[d[1]]
          /\ current[d[1]] \in Nat
      BY <1>1, <2>1, Versions
    <3>3. handled[d[1]] <= d[2] /\ current[d[1]] <= d[2]
      BY <2>1 DEF Follows
    <3> QED BY <2>1, <3>1, <3>2, <3>3
  <2> QED BY <1>3, <2>1, <2>2 DEF Follows
<1>6. WatchInOrder'
  BY <1>3, <1>5 DEF PipeInv, WatchInOrder
<1>7. \A x \in Objects : handled'[x] >= handled[x]
  BY <1>1 DEF PipeInv, PipeTypes
<1> QED BY <1>2, <1>4, <1>6, <1>7 DEF PipeInv

(* The thread of an object takes an event of its queue: the first one, or the *)
(* last of all.                                                               *)
LEMMA TakenKeeps ==
    ASSUME PipeInv, NEW o \in Objects, NEW n \in 1..Len(queue[o]),
           current' = [current EXCEPT ![o] = queue[o][n]],
           queue' = [queue EXCEPT ![o] = SubSeq(@, n + 1, Len(@))],
           Worker(o, "stale", {"waiting", "stale"}),
           UNCHANGED <<healthy, doneVars, failures>>
    PROVE  PipeInv'
<1> DEFINE m == queue[o][n]
<1>1. /\ m \in 1..MaxVersion /\ handled[o] <= m /\ m <= version[o] /\ n \in Nat
      /\ m \in Nat
  <2>1. m \in 1..MaxVersion
    BY ElementOfSeq DEF PipeInv, PipeTypes
  <2>2. handled[o] <= m /\ m <= version[o] /\ m \in Nat
    BY Versions DEF PipeInv, WorkInOrder
  <2>3. n \in Nat
    BY Versions
  <2> QED BY <2>1, <2>2, <2>3
<1>2. UNCHANGED <<version, deleted, stream, handled, dropped, healthy, failures>>
  BY DEF Worker, apiVars, doneVars
<1>3. /\ Len(queue'[o]) = Len(queue[o]) - n /\ queue'[o] \in Seq(1..MaxVersion)
      /\ \A i \in 1..Len(queue'[o]) : queue'[o][i] = queue[o][i + n]
  <2>1. queue[o] \in Seq(1..MaxVersion) /\ queue'[o] = SubSeq(queue[o], n + 1, Len(queue[o]))
    BY DEF PipeInv, PipeTypes
  <2>2. n \in 1..Len(queue[o]) /\ Len(queue[o]) \in Nat
    BY Versions
  <2> DEFINE k == Len(queue[o])
  <2>3. \A i \in (n + 1)..k : queue[o][i] \in 1..MaxVersion
    <3>1. (n + 1)..k \subseteq 1..Len(queue[o])
      BY <2>2
    <3> HIDE DEF k
    <3> QED BY <2>1, <3>1, ElementOfSeq
  <2> HIDE DEF k
  <2>4. n \in Nat /\ k \in Nat /\ n <= k
    BY <2>2 DEF k
  <2>5. /\ SubSeq(queue[o], n + 1, k) \in Seq(1..MaxVersion)
        /\ Len(SubSeq(queue[o], n + 1, k)) = IF n + 1 <= k THEN k - (n + 1) + 1 ELSE 0
        /\ \A i \in 1..(k - (n + 1) + 1) : SubSeq(queue[o], n + 1, k)[i] = queue[o][n + 1 + i - 1]
    BY <2>3, <2>4, SubSeqProperties
  <2>6. /\ Len(queue'[o]) = k - n /\ queue'[o] \in Seq(1..MaxVersion)
        /\ \A i \in 1..Len(queue'[o]) : queue'[o][i] = queue[o][i + n]
    <3>1. queue'[o] = SubSeq(queue[o], n + 1, k)
      BY <2>1 DEF k
    <3>2. Len(queue'[o]) = k - n
      BY <2>4, <2>5, <3>1
    <3>3. ASSUME NEW i \in 1..Len(queue'[o]) PROVE queue'[o][i] = queue[o][i + n]
      <4>1. i \in 1..(k - (n + 1) + 1) /\ n + 1 + i - 1 = i + n
        BY <2>4, <3>2
      <4> QED BY <2>5, <3>1, <4>1
    <3> QED BY <2>5, <3>1, <3>2, <3>3
  <2> QED BY <2>6 DEF k
<1>4. /\ current'[o] = m /\ worker'[o] = "stale"
      /\ \A x \in Objects \ {o} : /\ queue'[x] = queue[x] /\ current'[x] = current[x]
                                  /\ worker'[x] = worker[x]
  BY DEF PipeInv, PipeTypes, Worker
<1>5. PipeTypes'
  <2>1. queue' \in [Objects -> Seq(1..MaxVersion)]
    BY <1>3 DEF PipeInv, PipeTypes
  <2>2. worker' \in [Objects -> WorkerStages] /\ current' \in [Objects -> 0..MaxVersion]
    BY <1>1, PipelineAssumption DEF PipeInv, PipeTypes, Worker, WorkerStages
  <2>3. \A x \in Objects : Len(queue'[x]) <= QueueDepth
    BY <1>1, <1>3, <1>4, Versions, PipelineAssumption DEF PipeInv, PipeTypes
  <2> QED BY <1>2, <2>1, <2>2, <2>3 DEF PipeInv, PipeTypes
<1>6. \A i \in 1..Len(queue'[o]) : i + n \in 1..Len(queue[o]) /\ m <= queue'[o][i]
  <2> TAKE i \in 1..Len(queue'[o])
  <2>1. i + n \in 1..Len(queue[o]) /\ n <= i + n
    BY <1>1, <1>3, Versions
  <2> QED BY <1>3, <2>1 DEF PipeInv, WorkInOrder
<1>7. WorkInOrder'
  <2>1. \A i, j \in 1..Len(queue'[o]) : i <= j => queue'[o][i] <= queue'[o][j]
    <3> TAKE i, j \in 1..Len(queue'[o])
    <3> HAVE i <= j
    <3>1. /\ queue'[o][i] = queue[o][i + n] /\ queue'[o][j] = queue[o][j + n]
          /\ i + n \in 1..Len(queue[o]) /\ j + n \in 1..Len(queue[o]) /\ i + n <= j + n
      BY <1>1, <1>3, <1>6
    <3> QED BY <3>1 DEF PipeInv, WorkInOrder
  <2>2. \A i \in 1..Len(queue'[o]) : handled'[o] <= queue'[o][i] /\ queue'[o][i] <= version'[o]
    BY <1>2, <1>3, <1>6 DEF PipeInv, WorkInOrder
  <2>3. handled'[o] <= version'[o] /\ current'[o] <= version'[o] /\ handled'[o] <= current'[o]
    BY <1>1, <1>2, <1>4 DEF PipeInv, WorkInOrder
  <2>4. ASSUME NEW x \in Objects, x # o
        PROVE  /\ handled'[x] = handled[x] /\ current'[x] = current[x]
               /\ queue'[x] = queue[x] /\ worker'[x] = worker[x] /\ version'[x] = version[x]
    BY <1>2, <1>4, <2>4
  <2>5. \A i \in 1..Len(queue'[o]) : current'[o] <= queue'[o][i]
    BY <1>4, <1>6
  <2>6. ASSUME NEW x \in Objects, x # o
        PROVE  /\ handled'[x] <= version'[x] /\ current'[x] <= version'[x]
               /\ worker'[x] \in Working => handled'[x] <= current'[x]
               /\ \A i \in 1..Len(queue'[x]) : /\ handled'[x] <= queue'[x][i]
                                               /\ current'[x] <= queue'[x][i]
                                               /\ queue'[x][i] <= version'[x]
               /\ \A i, j \in 1..Len(queue'[x]) : i <= j => queue'[x][i] <= queue'[x][j]
    BY <2>4, <2>6 DEF PipeInv, WorkInOrder
  <2> QED BY <2>1, <2>2, <2>3, <2>5, <2>6 DEF WorkInOrder
<1>8. ASSUME NEW p \in Paths, NEW i \in 1..Len(stream[p])
      PROVE  Follows(p, stream[p][i])'
  <2>1. Follows(p, stream[p][i]) /\ stream[p][i][1] \in Objects
    BY <1>8, Versions
  <2>2. CASE stream[p][i][1] = o
    <3> DEFINE d == stream[p][i]
    <3>1. /\ PathOf[o] = p /\ d[2] <= version'[o] /\ handled'[o] <= d[2]
          /\ \A j \in 1..Len(queue[o]) : queue[o][j] <= d[2]
      BY <1>2, <2>1, <2>2 DEF Follows
    <3> HIDE DEF d
    <3>2. \A j \in 1..Len(queue'[o]) : queue'[o][j] <= d[2]
      BY <1>3, <1>6, <3>1
    <3>3. current'[o] <= d[2]
      BY <1>4, <3>1
    <3> USE DEF d
    <3> QED BY <1>2, <2>2, <3>1, <3>2, <3>3 DEF Follows
  <2>3. CASE stream[p][i][1] # o
    BY <1>2, <1>4, <2>1, <2>3 DEF Follows
  <2> QED BY <2>2, <2>3
<1>9. WatchInOrder'
  BY <1>2, <1>8 DEF PipeInv, WatchInOrder
<1> QED BY <1>5, <1>7, <1>9 DEF PipeInv

(* The event that the watch of path p has given to the handler joins the      *)
(* queue of its object.                                                       *)
LEMMA PutKeeps ==
    ASSUME PipeInv, NEW p \in Paths, stream[p] # <<>>, NEW rest,
           rest = Tail(stream[p]) \/ rest = <<>>,
           NEW o, o = Head(stream[p])[1], HasRoom(o),
           stream' = [stream EXCEPT ![p] = rest],
           queue' = [queue EXCEPT ![o] = Append(@, Head(stream[p])[2])],
           worker' = [worker EXCEPT ![o] = IF @ = "none" THEN "waiting" ELSE @],
           UNCHANGED <<current, healthy, apiVars, doneVars, failures>>
    PROVE  PipeInv'
<1> DEFINE m == Head(stream[p])[2]
<1>1. 1 \in 1..Len(stream[p]) /\ Head(stream[p]) = stream[p][1]
  BY EmptySeq, Versions DEF PipeInv, PipeTypes
<1>2. /\ o \in Objects /\ PathOf[o] = p /\ m \in 1..MaxVersion /\ m <= version[o]
      /\ handled[o] <= m /\ current[o] <= m /\ \A i \in 1..Len(queue[o]) : queue[o][i] <= m
  BY <1>1, Versions DEF Follows
<1>3. /\ Len(queue'[o]) = Len(queue[o]) + 1 /\ queue'[o] \in Seq(1..MaxVersion)
      /\ queue'[o][Len(queue[o]) + 1] = m
      /\ \A i \in 1..Len(queue[o]) : queue'[o][i] = queue[o][i]
      /\ \A x \in Objects \ {o} : queue'[x] = queue[x]
  <2>1. queue[o] \in Seq(1..MaxVersion)
    BY <1>2 DEF PipeInv, PipeTypes
  <2>2. queue'[o] = Append(queue[o], m) /\ \A x \in Objects \ {o} : queue'[x] = queue[x]
    BY <1>2 DEF PipeInv, PipeTypes
  <2> HIDE DEF m
  <2>3. /\ Append(queue[o], m) \in Seq(1..MaxVersion) /\ Len(Append(queue[o], m)) = Len(queue[o]) + 1
        /\ Append(queue[o], m)[Len(queue[o]) + 1] = m
        /\ \A i \in 1..Len(queue[o]) : Append(queue[o], m)[i] = queue[o][i]
    BY <1>2, <2>1, AppendProperties
  <2> QED BY <2>2, <2>3
<1>4. /\ rest \in Seq(Objects \X (1..MaxVersion)) /\ Len(rest) \in Nat
      /\ \A i \in 1..Len(rest) : i + 1 \in 1..Len(stream[p]) /\ rest[i] = stream[p][i + 1]
  <2>1. stream[p] \in Seq(Objects \X (1..MaxVersion))
    BY DEF PipeInv, PipeTypes
  <2>2. CASE rest = <<>>
    BY <2>2
  <2>3. CASE rest = Tail(stream[p])
    <3>1. Tail(stream[p]) \in Seq(Objects \X (1..MaxVersion))
      BY <2>1, HeadTailProperties
    <3>2. Len(rest) = Len(stream[p]) - 1 /\ \A i \in 1..Len(rest) : rest[i] = stream[p][i + 1]
      BY <2>1, <2>3, HeadTailProperties
    <3> QED BY <2>3, <3>1, <3>2, Versions
  <2> QED BY <2>2, <2>3
<1>5. /\ m \in Nat /\ Len(queue[o]) \in Nat /\ Len(queue[o]) < QueueDepth /\ QueueDepth \in Nat
       /\ \A i \in 1..Len(queue[o]) : queue[o][i] \in Nat
  BY <1>2, Versions, PipelineAssumption DEF HasRoom
<1>6. ASSUME NEW i \in 1..Len(queue'[o])
       PROVE  \/ i \in 1..Len(queue[o]) /\ queue'[o][i] = queue[o][i]
              \/ i = Len(queue[o]) + 1 /\ queue'[o][i] = m
  <2> HIDE DEF m
  <2>1. i \in 1..(Len(queue[o]) + 1)
    BY <1>3, <1>6
  <2>2. i \in 1..Len(queue[o]) \/ i = Len(queue[o]) + 1
    BY <1>5, <2>1
  <2> QED BY <1>3, <2>2
<1>7. ASSUME NEW i \in 1..Len(queue'[o])
       PROVE  /\ handled[o] <= queue'[o][i] /\ current[o] <= queue'[o][i]
              /\ queue'[o][i] <= version[o] /\ queue'[o][i] <= m /\ queue'[o][i] \in Nat
  <2> HIDE DEF m
  <2>1. CASE i \in 1..Len(queue[o]) /\ queue'[o][i] = queue[o][i]
    BY <1>2, <1>5, <2>1 DEF PipeInv, WorkInOrder
  <2>2. CASE queue'[o][i] = m
    BY <1>2, <1>5, <2>2
  <2> QED BY <1>6, <2>1, <2>2
<1>8. stream'[p] = rest /\ \A q \in Paths \ {p} : stream'[q] = stream[q]
  BY DEF PipeInv, PipeTypes
<1>9. UNCHANGED <<version, deleted, handled, dropped, current>>
  BY DEF apiVars, doneVars
<1>10. PipeTypes'
  <2>1. queue' \in [Objects -> Seq(1..MaxVersion)]
    BY <1>3 DEF PipeInv, PipeTypes
  <2>2. worker' \in [Objects -> WorkerStages]
    BY DEF PipeInv, PipeTypes, WorkerStages
  <2>3. \A x \in Objects : Len(queue'[x]) <= QueueDepth
    <3>1. Len(queue'[o]) <= QueueDepth
      BY <1>3, <1>5
    <3> QED BY <1>3, <3>1 DEF PipeInv, PipeTypes
  <2>4. stream' \in [Paths -> Seq(Objects \X (1..MaxVersion))]
    BY <1>4 DEF PipeInv, PipeTypes
  <2> QED BY <1>9, <2>1, <2>2, <2>3, <2>4 DEF PipeInv, PipeTypes
<1>11. WorkInOrder'
  <2>1. ASSUME NEW i \in 1..Len(queue'[o]), NEW j \in 1..Len(queue'[o]), i <= j
        PROVE  queue'[o][i] <= queue'[o][j]
    <3> HIDE DEF m
    <3>1. CASE j \in 1..Len(queue[o]) /\ queue'[o][j] = queue[o][j]
      <4>1. i \in 1..Len(queue[o]) /\ queue'[o][i] = queue[o][i]
        BY <1>5, <1>6, <2>1, <3>1
      <4>2. queue[o][i] <= queue[o][j]
        BY <1>2, <2>1, <3>1, <4>1 DEF PipeInv, WorkInOrder
      <4> QED BY <3>1, <4>1, <4>2
    <3>2. CASE queue'[o][j] = m
      BY <1>7, <3>2
    <3>3. \/ j \in 1..Len(queue[o]) /\ queue'[o][j] = queue[o][j]
          \/ queue'[o][j] = m
      BY <1>6
    <3> QED BY <3>1, <3>2, <3>3, Zenon
  <2>2. \A x \in Objects : worker'[x] \in Working => worker[x] \in Working
    BY DEF PipeInv, PipeTypes, Working
  <2>3. ASSUME NEW x \in Objects, x # o
        PROVE  /\ handled'[x] = handled[x] /\ current'[x] = current[x]
               /\ queue'[x] = queue[x] /\ version'[x] = version[x]
    BY <1>3, <1>9, <2>3
  <2> QED BY <1>7, <1>9, <2>1, <2>2, <2>3 DEF PipeInv, WorkInOrder
<1>12. ASSUME NEW i \in 1..Len(rest), rest[i][1] = o PROVE m <= rest[i][2]
  <2>1. /\ 1 \in 1..Len(stream[p]) /\ i + 1 \in 1..Len(stream[p]) /\ 1 <= i + 1
        /\ stream[p][i + 1] = rest[i] /\ stream[p][1][1] = rest[i][1] /\ stream[p][1][2] = m
    BY <1>1, <1>4, <1>12
  <2> QED BY <2>1 DEF PipeInv, WatchInOrder
<1>13. ASSUME NEW q \in Paths, NEW i \in 1..Len(stream'[q])
       PROVE  Follows(q, stream[q][i])'
  <2> DEFINE d == stream'[q][i]
  <2>1. Follows(q, d) /\ d[1] \in Objects /\ d[2] \in Nat
    <3>1. CASE q = p
      BY <1>4, <1>8, <1>13, <3>1, Versions
    <3>2. CASE q # p
      BY <1>8, <1>13, <3>2, Versions
    <3> QED BY <3>1, <3>2
  <2>2. d[1] = o => q = p /\ m <= d[2]
    BY <1>2, <1>8, <1>12, <1>13, <2>1 DEF Follows
  <2>3. \A j \in 1..Len(queue'[d[1]]) : queue'[d[1]][j] <= d[2]
    <3>1. CASE d[1] = o
      <4> HIDE DEF m, d
      <4>1. m <= d[2] /\ d[2] \in Nat /\ m \in Nat
        BY <1>5, <2>1, <2>2, <3>1
      <4>2. ASSUME NEW j \in 1..Len(queue'[o]) PROVE queue'[o][j] <= d[2]
        <5>1. queue'[o][j] <= m /\ queue'[o][j] \in Nat
          BY <1>7
        <5> QED BY <4>1, <5>1
      <4> QED BY <3>1, <4>2
    <3>2. CASE d[1] # o
      BY <1>3, <2>1, <3>2 DEF Follows
    <3> QED BY <3>1, <3>2
  <2> QED BY <1>9, <2>1, <2>3 DEF Follows
<1>14. ASSUME NEW q \in Paths, NEW i \in 1..Len(stream'[q]), NEW j \in 1..Len(stream'[q]),
              i <= j, stream'[q][i][1] = stream'[q][j][1]
       PROVE  stream'[q][i][2] <= stream'[q][j][2]
  <2>1. CASE q = p
    <3>1. /\ i + 1 \in 1..Len(stream[p]) /\ j + 1 \in 1..Len(stream[p]) /\ i + 1 <= j + 1
          /\ stream'[q][i] = stream[p][i + 1] /\ stream'[q][j] = stream[p][j + 1]
      BY <1>4, <1>8, <1>14, <2>1
    <3> QED BY <1>14, <3>1 DEF PipeInv, WatchInOrder
  <2>2. CASE q # p
    BY <1>8, <1>14, <2>2 DEF PipeInv, WatchInOrder
  <2> QED BY <2>1, <2>2
<1> QED BY <1>10, <1>11, <1>13, <1>14 DEF PipeInv, WatchInOrder

(* A step of the watcher that leaves the events alone, or closes watches. *)
LEMMA HoldsOn ==
    ASSUME WatcherInv, HoldsEvent,
           \/ MonitorStep
           \/ \E l \in {"self", "other", "error"} : Elect(l)
           \/ \E q \in Paths : WatchStarts(q) \/ WatchOpens(q) \/ WatchFails(q)
                              \/ WatchRetries(q) \/ WatchGivesUp(q)
           \/ Restarted,
           \A p \in Paths : thread'[p] = "handling" => stream'[p] = stream[p]
    PROVE  HoldsEvent'
BY NoneTaken DEF HoldsEvent

LEMMA FailureCounted ==
    ASSUME PipeInv, NEW kind, Fails(kind)
    PROVE  failures' \in 0..MaxFailures
BY PipelineAssumption DEF Fails, PipeInv, PipeTypes

LEMMA ClosingKeeps ==
    ASSUME WatcherInv, PipeInv, HoldsEvent, MonitorStep \/ \E q \in Paths : WatchFails(q) \/ WatchGivesUp(q),
           Closing(TRUE), failures' \in 0..MaxFailures, WatcherInv'
    PROVE  PipeInv' /\ HoldsEvent' /\ UNCHANGED handled
<1>1. UNCHANGED <<apiVars, doneVars>>
  BY DEF Closing
<1>2. CASE up'
  <2> DEFINE S == {p \in Paths : Watched(p)'}
  <2>1. /\ stream' = [p \in Paths |-> IF Watched(p)' THEN stream[p] ELSE <<>>]
        /\ UNCHANGED <<workVars, healthy>>
    BY <1>2 DEF Closing
  <2>2. stream' = [p \in Paths |-> IF p \in S THEN stream[p] ELSE <<>>]
    BY <2>1
  <2>3. PipeInv'
    <3> HIDE DEF S
    <3> QED BY <1>1, <2>1, <2>2, ClosedKeep
  <2>4. \A p \in Paths : thread'[p] = "handling" => stream'[p] = stream[p]
    BY <2>1 DEF Watched
  <2> QED BY <1>1, <2>3, <2>4, HoldsOn DEF doneVars
<1>3. CASE ~up'
  <2>1. PipelineEnds
    BY <1>3 DEF Closing
  <2>2. PipeInv'
    BY <1>1, <2>1, EndsKeep
  <2>3. \A p \in Paths : thread'[p] = "none"
    BY <1>3 DEF WatcherInv
  <2> QED BY <1>1, <2>2, <2>3 DEF HoldsEvent, doneVars
<1> QED BY <1>2, <1>3

PipelineInv == WatcherInv /\ PipeInv /\ HoldsEvent

LEMMA PipelineInit == Init => PipelineInv
<1> SUFFICES ASSUME Init PROVE PipelineInv
  OBVIOUS
<1>1. WatcherInv
  BY WatcherInitInv DEF Init
<1>2. PipeTypes
  BY PipelineAssumption DEF Init, PipeTypes, WorkerStages
<1>3. WorkInOrder /\ WatchInOrder
  BY PipelineAssumption DEF Init, WorkInOrder, WatchInOrder, Follows, Working
<1>4. HoldsEvent
  BY WatcherAssumption DEF Init, WatcherInit, HoldsEvent
<1> QED BY <1>1, <1>2, <1>3, <1>4 DEF PipelineInv, PipeInv

(* A step of the thread of an object. *)
LEMMA WorkerStepKeeps ==
    ASSUME PipeInv, NEW o \in Objects, WorkerStep(o)
    PROVE  PipeInv' /\ \A x \in Objects : handled'[x] >= handled[x]
<1>1. failures' \in 0..MaxFailures
  <2>1. failures' = failures \/ \E kind \in FailureNames : Fails(kind)
    BY DEF WorkerStep, GetEvent, SkipStale, CallHandlers, WorkerEnds, NoNeed, Attempt,
           Succeeds, FailsForNow, NextAttempt, FailsForGood, FailureNames
  <2> QED BY <2>1, FailureCounted DEF PipeInv, PipeTypes
<1>2. CASE GetEvent(o)
  <2>1. 1 \in 1..Len(queue[o]) /\ Head(queue[o]) = queue[o][1]
        /\ Tail(queue[o]) = SubSeq(queue[o], 2, Len(queue[o]))
    BY <1>2, EmptySeq, TailIsSubSeq, Versions DEF GetEvent, PipeInv, PipeTypes
  <2>2. PipeInv'
    <3>1. /\ current' = [current EXCEPT ![o] = queue[o][1]]
          /\ queue' = [queue EXCEPT ![o] = SubSeq(@, 1 + 1, Len(@))]
          /\ UNCHANGED <<healthy, doneVars, failures>>
      <4>1. /\ current' = [current EXCEPT ![o] = Head(queue[o])]
            /\ queue' = [queue EXCEPT ![o] = Tail(queue[o])]
            /\ UNCHANGED <<healthy, doneVars, failures>>
        BY <1>2 DEF GetEvent
      <4>2. 1 + 1 = 2
        OBVIOUS
      <4> QED BY <2>1, <4>1, <4>2, Zenon
    <3>2. Worker(o, "stale", {"waiting", "stale"})
      BY <1>2 DEF GetEvent, Worker
    <3> QED BY <2>1, <3>1, <3>2, TakenKeeps
  <2> QED BY <1>2, <2>2, Versions DEF GetEvent, doneVars
<1>3. CASE SkipStale(o)
  <2>1. Len(queue[o]) \in 1..Len(queue[o]) /\ Last(queue[o]) = queue[o][Len(queue[o])]
        /\ SubSeq(queue[o], Len(queue[o]) + 1, Len(queue[o])) = <<>>
    BY <1>3, EmptySeq, Versions DEF SkipStale, PipeInv, PipeTypes, Last
  <2>2. PipeInv'
    BY <1>3, <2>1, TakenKeeps DEF SkipStale, Worker
  <2> QED BY <1>3, <2>2, Versions DEF SkipStale, doneVars
<1>4. CASE \/ CallHandlers(o) \/ WorkerEnds(o) \/ Attempt(o) \/ FailsForNow(o) \/ NextAttempt(o)
  <2>1. /\ UNCHANGED <<apiVars, stream, queue, current, doneVars, healthy>>
        /\ \E l \in WorkerStages : /\ worker' = [worker EXCEPT ![o] = l]
                                   /\ l \in Working => worker[o] \in Working
    BY <1>4 DEF CallHandlers, WorkerEnds, Attempt, FailsForNow, NextAttempt, Worker,
                WorkerStages, Working
  <2>2. /\ worker' \in [Objects -> WorkerStages] /\ healthy' \in BOOLEAN
        /\ \A x \in Objects : worker'[x] \in Working => worker[x] \in Working
    <3>1. PICK l \in WorkerStages : /\ worker' = [worker EXCEPT ![o] = l]
                                    /\ l \in Working => worker[o] \in Working
      BY <2>1
    <3>2. worker \in [Objects -> WorkerStages] /\ healthy' \in BOOLEAN
      BY <2>1 DEF PipeInv, PipeTypes
    <3>3. worker' \in [Objects -> WorkerStages]
      BY <3>1, <3>2
    <3>4. ASSUME NEW x \in Objects, worker'[x] \in Working PROVE worker[x] \in Working
      <4>1. CASE x = o
        BY <3>1, <3>2, <3>4, <4>1
      <4>2. CASE x # o
        BY <3>1, <3>2, <3>4, <4>2
      <4> QED BY <4>1, <4>2
    <3> QED BY <3>2, <3>3, <3>4
  <2>3. PipeInv'
    BY <1>1, <2>1, <2>2, SameKeeps
  <2> QED BY <2>1, <2>3, Versions DEF doneVars
<1>5. CASE NoNeed(o)
  BY <1>1, <1>5, DoneKeeps DEF NoNeed, Working, doneVars, PipeInv, PipeTypes
<1>6. CASE Succeeds(o)
  BY <1>1, <1>6, DoneKeeps DEF Succeeds, Working, PipeInv, PipeTypes
<1>7. CASE FailsForGood(o)
  BY <1>1, <1>7, DoneKeeps DEF FailsForGood, Working, PipeInv, PipeTypes
<1> QED BY <1>2, <1>3, <1>4, <1>5, <1>6, <1>7 DEF WorkerStep

LEMMA PipelineStep ==
    ASSUME PipelineInv, [Next]_vars
    PROVE  PipelineInv' /\ \A o \in Objects : handled'[o] >= handled[o]
<1>1. WatcherInv /\ PipeInv /\ HoldsEvent
  BY DEF PipelineInv
<1>2. WatcherInv'
  BY <1>1, NextWatches, WatcherStepKeeps
<1> SUFFICES (PipeInv' /\ HoldsEvent') /\ \A o \in Objects : handled'[o] >= handled[o]
  BY <1>2 DEF PipelineInv
<1>3. UNCHANGED handled => \A o \in Objects : handled'[o] >= handled[o]
  BY <1>1, Versions
<1>4. ASSUME NEW o \in Objects, Change(o) \/ Delete(o)
      PROVE  PipeInv' /\ HoldsEvent' /\ UNCHANGED handled
  <2>1. PipeInv' /\ UNCHANGED <<thread, handled>>
    BY <1>1, <1>4, NewVersionKeeps
    DEF Change, Delete, InAPI, workVars, doneVars, watcherVars, watchVars, PipeInv, PipeTypes
  <2>2. \A p \in Paths : stream[p] # <<>> => stream'[p] # <<>>
    <3>1. stream' = stream \/ \E e : stream' = [stream EXCEPT ![PathOf[o]] = Append(@, e)]
      BY <1>4 DEF Change, Delete, Emit
    <3>2. CASE stream' = stream
      BY <3>2
    <3>3. ASSUME NEW e, stream' = [stream EXCEPT ![PathOf[o]] = Append(@, e)],
                 NEW p \in Paths, stream[p] # <<>>
          PROVE  stream'[p] # <<>>
      <4>1. CASE p = PathOf[o]
        <5>1. stream'[p] = Append(stream[p], e)
          BY <1>1, <3>3, <4>1 DEF PipeInv, PipeTypes
        <5>2. Len(stream'[p]) # 0
          BY <1>1, <5>1, Versions DEF PipeInv, PipeTypes
        <5> QED BY <5>2
      <4>2. CASE p # PathOf[o]
        BY <1>1, <3>3, <4>2 DEF PipeInv, PipeTypes
      <4> QED BY <4>1, <4>2
    <3> QED BY <3>1, <3>2, <3>3
  <2> QED BY <1>1, <2>1, <2>2 DEF HoldsEvent
<1>5. ASSUME NEW o \in Objects, WorkerStep(o)
      PROVE  PipeInv' /\ HoldsEvent' /\ \A x \in Objects : handled'[x] >= handled[x]
  <2>1. UNCHANGED <<thread, stream>>
    BY <1>5 DEF WorkerStep, GetEvent, SkipStale, CallHandlers, WorkerEnds, NoNeed, Attempt,
                Succeeds, FailsForNow, NextAttempt, FailsForGood, Done, Worker, watcherVars,
                watchVars
  <2> QED BY <1>1, <1>5, <2>1, WorkerStepKeeps DEF HoldsEvent
<1>6. ASSUME NEW p \in Paths, WatchStarts(p) \/ WatchRetries(p),
             UNCHANGED <<apiVars, pipeVars, doneVars, failures>>
      PROVE  PipeInv' /\ HoldsEvent' /\ UNCHANGED handled
  <2>1. PipeInv'
    BY <1>1, <1>6, SameKeeps DEF pipeVars, workVars, PipeInv, PipeTypes
  <2>2. HoldsEvent'
    BY <1>1, <1>6, HoldsOn DEF pipeVars
  <2> QED BY <1>6, <2>1, <2>2 DEF doneVars
<1>7. ASSUME NEW p \in Paths, OpenWatch(p) \/ Relist(p)
      PROVE  PipeInv' /\ HoldsEvent' /\ UNCHANGED handled
  <2>1. PICK s \in Listings(p) : stream' = [stream EXCEPT ![p] = s]
    BY <1>7 DEF OpenWatch, Relist
  <2>2. /\ UNCHANGED <<apiVars, doneVars, workVars, healthy>>
        /\ failures' = failures \/ Fails("watch")
    BY <1>7 DEF OpenWatch, Relist
  <2>3. PipeInv'
    BY <1>1, <2>1, <2>2, ListingKeeps, FailureCounted DEF PipeInv, PipeTypes
  <2>4. thread'[p] # "handling"
        /\ \A q \in Paths : q # p => thread'[q] = thread[q] /\ stream'[q] = stream[q]
    BY <1>1, <1>7, <2>1 DEF OpenWatch, Relist, WatchOpens, WatcherInv, WatcherTypes,
                            watcherVars, watchVars, PipeInv, PipeTypes
  <2> QED BY <1>1, <2>2, <2>3, <2>4 DEF HoldsEvent, doneVars
<1>8. ASSUME NEW p \in Paths, FailWatch(p) \/ GiveUpWatch(p)
      PROVE  PipeInv' /\ HoldsEvent' /\ UNCHANGED handled
  <2>1. Closing(TRUE) /\ (WatchFails(p) \/ WatchGivesUp(p))
        /\ (failures' = failures \/ Fails("watch"))
    BY <1>8 DEF FailWatch, GiveUpWatch, Closing
  <2> QED BY <1>1, <1>2, <2>1, ClosingKeeps, FailureCounted DEF PipeInv, PipeTypes
<1>9. ASSUME NEW p \in Paths, TakeEvent(p)
      PROVE  PipeInv' /\ HoldsEvent' /\ UNCHANGED handled
  <2>1. PipeInv'
    BY <1>1, <1>9, SameKeeps DEF TakeEvent, pipeVars, workVars, PipeInv, PipeTypes
  <2>2. \A q \in Paths : q # p => thread'[q] = thread[q]
    BY <1>1, <1>9 DEF TakeEvent, WatchTakes, WatcherInv, WatcherTypes
  <2> QED BY <1>1, <1>9, <2>1, <2>2 DEF HoldsEvent, TakeEvent, pipeVars, doneVars
<1>10. ASSUME NEW p \in Paths, PutEvent(p)
       PROVE  PipeInv' /\ HoldsEvent' /\ UNCHANGED handled
  <2>1. UNCHANGED <<apiVars, doneVars, failures>> /\ WatchGoesOn(p) /\ thread[p] = "handling"
    BY <1>10 DEF PutEvent, WatchGoesOn
  <2>2. CASE ~up'
    <3>1. PipelineEnds
      BY <1>10, <2>2 DEF PutEvent
    <3>2. PipeInv'
      BY <1>1, <2>1, <3>1, EndsKeep DEF PipeInv, PipeTypes
    <3>3. HoldsEvent'
      BY <1>2, <2>2 DEF HoldsEvent, WatcherInv
    <3> QED BY <2>1, <3>2, <3>3 DEF doneVars
  <2>3. CASE up'
    <3> DEFINE o == Head(stream[p])[1]
               rest == IF thread'[p] = "none" THEN <<>> ELSE Tail(stream[p])
    <3>1. /\ HasRoom(o) /\ stream' = [stream EXCEPT ![p] = rest]
          /\ queue' = [queue EXCEPT ![o] = Append(@, Head(stream[p])[2])]
          /\ worker' = [worker EXCEPT ![o] = IF @ = "none" THEN "waiting" ELSE @]
          /\ UNCHANGED <<current, healthy>>
      BY <1>10, <2>3 DEF PutEvent
    <3>2. stream[p] # <<>> /\ (rest = Tail(stream[p]) \/ rest = <<>>)
      BY <1>1, <2>1 DEF HoldsEvent
    <3>3. PipeInv'
      <4> HIDE DEF rest
      <4> QED BY <1>1, <2>1, <3>1, <3>2, PutKeeps
    <3>4. \A q \in Paths : thread'[q] = "handling" => q # p /\ thread[q] = "handling"
      <4>1. CASE running
        BY <1>1, <2>1, <4>1 DEF WatchGoesOn, WatcherInv, WatcherTypes
      <4>2. CASE ~running
        BY <1>1, <2>1, <2>3, <4>2 DEF WatchGoesOn, GracefulExit, Exit, WatcherInv, WatcherTypes
      <4> QED BY <4>1, <4>2
    <3>5. \A q \in Paths : q # p => stream'[q] = stream[q]
      BY <1>1, <3>1 DEF PipeInv, PipeTypes
    <3> QED BY <1>1, <2>1, <3>3, <3>4, <3>5 DEF HoldsEvent, doneVars
  <2> QED BY <2>2, <2>3
<1>11. CASE Monitor
  <2>1. CASE /\ BecomeLeader \/ SyncEnds \/ ContinueLeader \/ StandBy
             /\ UNCHANGED <<apiVars, pipeVars, doneVars, failures>>
    <3>1. PipeInv'
      BY <1>1, <2>1, SameKeeps DEF pipeVars, workVars, PipeInv, PipeTypes
    <3>2. HoldsEvent'
      BY <1>1, <2>1, HoldsOn DEF pipeVars, MonitorStep
    <3> QED BY <1>3, <2>1, <3>1, <3>2 DEF doneVars
  <2>2. CASE Closing(RevokeLeader) /\ UNCHANGED failures
    <3>1. Closing(TRUE) /\ MonitorStep /\ UNCHANGED failures
      BY <2>2 DEF Closing, MonitorStep
    <3> QED BY <1>1, <1>2, <1>3, <3>1, ClosingKeeps DEF PipeInv, PipeTypes
  <2>3. CASE Closing(SyncFails) /\ Fails("sync")
    <3>1. Closing(TRUE) /\ MonitorStep
      BY <2>3 DEF Closing, MonitorStep
    <3> QED BY <1>1, <1>2, <1>3, <2>3, <3>1, ClosingKeeps, FailureCounted
  <2> QED BY <1>11, <2>1, <2>2, <2>3 DEF Monitor
<1>12. CASE Election
  <2>1. PipeInv'
    BY <1>1, <1>12, SameKeeps DEF Election, pipeVars, workVars, PipeInv, PipeTypes
  <2>2. HoldsEvent'
    BY <1>1, <1>12 DEF Election, Elect, watchVars, pipeVars, HoldsEvent
  <2> QED BY <1>3, <1>12, <2>1, <2>2 DEF Election, doneVars
<1>13. CASE Restart
  <2>1. PipeInv'
    BY <1>1, <1>13, EndsKeep DEF Restart, PipeInv, PipeTypes
  <2>2. HoldsEvent'
    BY <1>13 DEF Restart, Restarted, Fresh, HoldsEvent
  <2> QED BY <1>3, <1>13, <2>1, <2>2 DEF Restart, doneVars
<1>14. CASE UNCHANGED vars
  <2>1. PipeInv'
    BY <1>1, <1>14, SameKeeps DEF vars, pipeVars, workVars, PipeInv, PipeTypes
  <2>2. HoldsEvent'
    BY <1>1, <1>14 DEF vars, watcherVars, watchVars, pipeVars, HoldsEvent
  <2> QED BY <1>3, <1>14, <2>1, <2>2 DEF vars, doneVars
<1>15. ASSUME NEW p \in Paths, WatchStep(p) \/ FailWatch(p) \/ Relist(p)
       PROVE  PipeInv' /\ HoldsEvent' /\ UNCHANGED handled
  BY <1>6, <1>7, <1>8, <1>9, <1>10, <1>15 DEF WatchStep
<1> QED BY <1>3, <1>4, <1>5, <1>11, <1>12, <1>13, <1>14, <1>15 DEF Next

(* The variables keep their types, and no queue exceeds its depth. *)
THEOREM TypesKept == Spec => []TypeOK
<1>1. PipelineInv => TypeOK
  BY DEF PipelineInv, PipeInv, PipeTypes, WatcherInv, TypeOK
<1>2. PipelineInv /\ [Next]_vars => PipelineInv'
  BY PipelineStep
<1> QED BY <1>1, <1>2, PipelineInit, PTL DEF Spec

(* The handlers never go back to an older version of an object, whatever the  *)
(* elections, failures and restarts.                                          *)
THEOREM NoStepBack == Spec => NeverBackwards
<1>1. PipelineInv /\ [Next]_vars => [\A o \in Objects : handled'[o] >= handled[o]]_vars
  BY PipelineStep
<1>2. PipelineInv /\ [Next]_vars => PipelineInv'
  BY PipelineStep
<1> QED BY <1>1, <1>2, PipelineInit, PTL DEF Spec, NeverBackwards
=============================================================================

--------------------------- MODULE EventPipeline ---------------------------
(***************************************************************************)
(* The way of an event through the controller: the watch of its path       *)
(* (Watcher), the queue and the thread of its object                       *)
(* (handlers/asynchronous.py), and the calls of its handlers               *)
(* (handlers/retry.py, dispatch.py, logging.py, controller/handlers/       *)
(* pipeline.py).                                                           *)
(*                                                                         *)
(* The handlers of an object's kind are one handler, which works on the    *)
(* version of the object in the event.  An object is created as version 1, *)
(* changed, and deleted, which gives it a last version; its uid is never   *)
(* reused.  The resources a handler has made outlive the controller, so    *)
(* handled[o] does, too.                                                   *)
(***************************************************************************)
EXTENDS Watcher, Sequences, SequencesExt

CONSTANTS
    Objects,
    PathOf,       \* the path on which an object is watched
    QueueDepth,   \* queue_depth
    MaxVersion,   \* bound: the versions of an object
    Failures,     \* the kinds of failure that happen, among FailureNames
    MaxFailures   \* bound: how many failures happen in a run

(***************************************************************************)
(* "watch": an exception that the client's watch does not handle, the end  *)
(*   of the retries of a watch, or an ERROR event; "sync": of sync_pools;  *)
(* "not ready": one of Retry's exceptions, until the deadline or before;   *)
(* "conflict": ConflictException of OpenStack, as of an exceeded quota,    *)
(*   which is tried again, or another one, which is not;                   *)
(* "other": any other exception of a handler.                              *)
(***************************************************************************)
FailureNames == {"watch", "sync", "not ready", "conflict", "other"}

ASSUME PipelineAssumption ==
    /\ IsFiniteSet(Objects) /\ PathOf \in [Objects -> Paths]
    /\ QueueDepth \in Nat \ {0}
    /\ MaxVersion \in Nat /\ MaxFailures \in Nat
    /\ Failures \subseteq FailureNames

VARIABLES
    version,    \* of an object in the API; 0: not created yet
    deleted,    \* the objects that have been deleted from the API
    stream,     \* what the open watch of a path has yet to yield
    queue,      \* _queues: the versions in the events of an object
    worker,     \* the thread of an object
    current,    \* the version in the event that the thread has taken, or 0
    handled,    \* the version that the handlers have last dealt with
    dropped,    \* the version whose event was last dropped and not reported
    healthy,    \* no handler is reported not alive
    failures    \* the bound's counter

apiVars == <<version, deleted>>
workVars == <<queue, worker, current>>
pipeVars == <<stream, workVars, healthy>>
doneVars == <<handled, dropped>>
vars == <<watcherVars, apiVars, pipeVars, doneVars, failures>>

(* The threads of Async: none, waiting for an event, skipping stale ones,    *)
(* about to call the handlers, in a handler, sleeping until the next attempt.*)
WorkerStages == {"none", "waiting", "stale", "calling", "running", "asleep"}

InAPI(o) == version[o] > 0 /\ o \notin deleted
(* DELETED is the event of a deleted object's last version. *)
Gone(o, v) == o \in deleted /\ v = version[o]

(* Mutant: a watch that is opened again starts with the first events. *)
ListingsReplayed(p) ==
    LET E == {o \in Objects : PathOf[o] = p /\ InAPI(o)}
    IN  {s \in [1..Cardinality(E) -> {<<o, 1>> : o \in E}] : IsInjective(s)}

(* The objects of a path in some order: what a watch without resourceVersion *)
(* yields first.                                                             *)
Listings(p) ==
    LET E == {o \in Objects : PathOf[o] = p /\ InAPI(o)}
    IN  {s \in [1..Cardinality(E) -> {<<o, version[o]>> : o \in E}] : IsInjective(s)}

Watched(p) == thread[p] \in {"listening", "handling"}

Fails(kind) ==
    /\ kind \in Failures /\ failures < MaxFailures
    /\ failures' = failures + 1

PipelineEnds ==
    /\ stream' = [p \in Paths |-> <<>>]
    /\ queue' = [o \in Objects |-> <<>>]
    /\ worker' = [o \in Objects |-> "none"]
    /\ current' = [o \in Objects |-> 0]
    /\ healthy' = TRUE

(* A step of the watcher that ends watches, or the process with all threads. *)
Closing(Step) ==
    /\ Step
    /\ IF up' THEN /\ stream' = [p \in Paths |-> IF Watched(p)' THEN stream[p] ELSE <<>>]
                   /\ UNCHANGED <<workVars, healthy>>
       ELSE PipelineEnds
    /\ UNCHANGED <<apiVars, doneVars>>

-----------------------------------------------------------------------------
(* The Kubernetes API: an object is created or changed, or deleted.          *)

Emit(o) ==
    LET p == PathOf[o]
    IN  stream' = IF up /\ Watched(p)
                  THEN [stream EXCEPT ![p] = Append(@, <<o, version'[o]>>)] ELSE stream

Change(o) ==
    /\ o \notin deleted /\ version[o] < MaxVersion
    /\ version' = [version EXCEPT ![o] = @ + 1]
    /\ Emit(o)
    /\ UNCHANGED <<watcherVars, deleted, workVars, healthy, doneVars, failures>>

Delete(o) ==
    /\ InAPI(o) /\ version[o] < MaxVersion
    /\ version' = [version EXCEPT ![o] = @ + 1]
    /\ deleted' = deleted \cup {o}
    /\ Emit(o)
    /\ UNCHANGED <<watcherVars, workVars, healthy, doneVars, failures>>

-----------------------------------------------------------------------------
(* The watch of a path.  A connection that is lost and opened again with the *)
(* last event's resourceVersion goes on where it was, and is no step here.   *)

OpenWatch(p) ==
    /\ WatchOpens(p)
    /\ \E s \in Listings(p) : stream' = [stream EXCEPT ![p] = s]
    /\ UNCHANGED <<apiVars, workVars, healthy, doneVars, failures>>

FailWatch(p) == Closing(WatchFails(p)) /\ Fails("watch")

GiveUpWatch(p) == Closing(WatchGivesUp(p)) /\ UNCHANGED failures

(* An ERROR event, which no handler takes, resets resourceVersion: the next   *)
(* connection shows the objects as ADDED, and not what was missed.           *)
Relist(p) ==
    /\ up /\ thread[p] = "listening" /\ Fails("watch")
    /\ \E s \in Listings(p) : stream' = [stream EXCEPT ![p] = s]
    /\ UNCHANGED <<watcherVars, apiVars, workVars, healthy, doneVars>>

TakeEvent(p) ==
    /\ WatchTakes(p)
    /\ stream[p] # <<>>
    /\ UNCHANGED <<apiVars, pipeVars, doneVars, failures>>

-----------------------------------------------------------------------------
(* Async *)

HasRoom(o) == Len(queue[o]) < QueueDepth

(* __call__: the event joins its object's queue, for which a thread is made  *)
(* when there is none.  A full queue holds up the watch of the path.         *)
PutEvent(p) ==
    LET o == Head(stream[p])[1]
    IN  /\ WatchGoesOn(p)
        /\ HasRoom(o)
        /\ IF up'
           THEN /\ stream' = [stream EXCEPT ![p] = IF thread'[p] = "none" THEN <<>> ELSE Tail(@)]
                /\ queue' = [queue EXCEPT ![o] = Append(@, Head(stream[p])[2])]
                /\ worker' = [worker EXCEPT ![o] = IF @ = "none" THEN "waiting" ELSE @]
                /\ UNCHANGED <<current, healthy>>
           ELSE PipelineEnds
        /\ UNCHANGED <<apiVars, doneVars, failures>>

(* A step of the thread of object o, which goes to stage l. *)
Worker(o, l, from) ==
    /\ up /\ worker[o] \in from
    /\ worker' = [worker EXCEPT ![o] = l]
    /\ UNCHANGED <<watcherVars, apiVars, stream>>

(* _run takes an event. *)
GetEvent(o) ==
    /\ Worker(o, "stale", {"waiting"})
    /\ queue[o] # <<>>
    /\ current' = [current EXCEPT ![o] = Head(queue[o])]
    /\ queue' = [queue EXCEPT ![o] = Tail(@)]
    /\ UNCHANGED <<healthy, doneVars, failures>>

(* Mutant: the first of the events that have come is handled. *)
SkipNewer(o) ==
    /\ Worker(o, "stale", {"stale"})
    /\ queue[o] # <<>>
    /\ queue' = [queue EXCEPT ![o] = <<>>]
    /\ UNCHANGED <<current, healthy, doneVars, failures>>

(* STALE_PERIOD has passed and more events have come: only the last is kept. *)
SkipStale(o) ==
    /\ Worker(o, "stale", {"stale"})
    /\ queue[o] # <<>>
    /\ current' = [current EXCEPT ![o] = Last(queue[o])]
    /\ queue' = [queue EXCEPT ![o] = <<>>]
    /\ UNCHANGED <<healthy, doneVars, failures>>

CallHandlers(o) ==
    /\ Worker(o, "calling", {"stale"})
    /\ queue[o] = <<>>
    /\ UNCHANGED <<queue, current, healthy, doneVars, failures>>

(* Mutant: the thread ends whatever has come. *)
WorkerEndsAnyway(o) ==
    /\ Worker(o, "none", {"waiting"})
    /\ queue' = [queue EXCEPT ![o] = <<>>]
    /\ UNCHANGED <<current, healthy, doneVars, failures>>

(* The queue has been empty for the grace period: _run returns, and _done     *)
(* removes the queue before any other thread runs.                           *)
WorkerEnds(o) ==
    /\ Worker(o, "none", {"waiting"})
    /\ queue[o] = <<>>
    /\ UNCHANGED <<queue, current, healthy, doneVars, failures>>

-----------------------------------------------------------------------------
(* Retry *)

(* The event has been dealt with: the thread waits for the next one. *)
Done(o) ==
    /\ Worker(o, "waiting", {"calling", "running"})
    /\ current' = [current EXCEPT ![o] = 0]
    /\ UNCHANGED queue

(* No attempt for an ADDED or MODIFIED object that is gone. *)
NoNeed(o) ==
    /\ worker[o] = "calling"
    /\ ~Gone(o, current[o]) /\ ~InAPI(o)
    /\ Done(o)
    /\ UNCHANGED <<healthy, doneVars, failures>>

Attempt(o) ==
    /\ Worker(o, "running", {"calling"})
    /\ Gone(o, current[o]) \/ InAPI(o)
    /\ UNCHANGED <<queue, current, healthy, doneVars, failures>>

Succeeds(o) ==
    /\ worker[o] = "running"
    /\ Done(o)
    /\ handled' = [handled EXCEPT ![o] = current[o]]
    /\ UNCHANGED <<healthy, dropped, failures>>

(* The attempt fails, and another one will be made. *)
FailsForNow(o) ==
    /\ Worker(o, "asleep", {"running"})
    /\ Fails("not ready") \/ Fails("conflict")
    /\ UNCHANGED <<queue, current, healthy, doneVars>>

NextAttempt(o) ==
    /\ Worker(o, "calling", {"asleep"})
    /\ UNCHANGED <<queue, current, healthy, doneVars, failures>>

(* The deadline is over, or the exception is not one to try again for.  A    *)
(* ConflictException is not reported to the health manager.                  *)
FailsForGood(o) ==
    /\ worker[o] = "running"
    /\ Done(o)
    /\ \/ /\ Fails("not ready") \/ Fails("other")
          /\ healthy' = FALSE /\ UNCHANGED dropped
       \/ /\ Fails("conflict") /\ UNCHANGED healthy
          /\ dropped' = [dropped EXCEPT ![o] = current[o]]
    /\ UNCHANGED handled

-----------------------------------------------------------------------------
(* kubelet starts the container again when the process has ended or one of   *)
(* the components is not alive.                                              *)
Restart ==
    /\ ~up \/ ~alive \/ ~healthy
    /\ Restarted
    /\ PipelineEnds
    /\ UNCHANGED <<apiVars, doneVars, failures>>

Election ==
    /\ \E l \in {"self", "other", "error"} : Elect(l)
    /\ UNCHANGED <<apiVars, pipeVars, doneVars, failures>>

Monitor ==
    \/ /\ BecomeLeader \/ SyncEnds \/ ContinueLeader \/ StandBy
       /\ UNCHANGED <<apiVars, pipeVars, doneVars, failures>>
    \/ Closing(RevokeLeader) /\ UNCHANGED failures
    \/ Closing(SyncFails) /\ Fails("sync")

WatchStep(p) ==
    \/ /\ WatchStarts(p) \/ WatchRetries(p)
       /\ UNCHANGED <<apiVars, pipeVars, doneVars, failures>>
    \/ OpenWatch(p) \/ GiveUpWatch(p) \/ TakeEvent(p) \/ PutEvent(p)

WorkerStep(o) ==
    \/ GetEvent(o) \/ SkipStale(o) \/ CallHandlers(o) \/ WorkerEnds(o)
    \/ NoNeed(o) \/ Attempt(o) \/ Succeeds(o) \/ FailsForNow(o)
    \/ NextAttempt(o) \/ FailsForGood(o)

Init ==
    /\ WatcherInit
    /\ version = [o \in Objects |-> 0] /\ deleted = {}
    /\ stream = [p \in Paths |-> <<>>]
    /\ queue = [o \in Objects |-> <<>>]
    /\ worker = [o \in Objects |-> "none"]
    /\ current = [o \in Objects |-> 0]
    /\ handled = [o \in Objects |-> 0] /\ dropped = [o \in Objects |-> 0]
    /\ healthy = TRUE /\ failures = 0

Next ==
    \/ \E o \in Objects : Change(o) \/ Delete(o) \/ WorkerStep(o)
    \/ \E p \in Paths : WatchStep(p) \/ FailWatch(p) \/ Relist(p)
    \/ Monitor \/ Election \/ Restart

Spec == Init /\ [][Next]_vars

-----------------------------------------------------------------------------
(* Properties *)

(* The types of the variables; a queue never exceeds its depth. *)
TypeOK ==
    /\ WatcherTypes
    /\ version \in [Objects -> 0..MaxVersion] /\ deleted \subseteq Objects
    /\ stream \in [Paths -> Seq(Objects \X (1..MaxVersion))]
    /\ queue \in [Objects -> Seq(1..MaxVersion)]
    /\ \A o \in Objects : Len(queue[o]) <= QueueDepth
    /\ worker \in [Objects -> WorkerStages]
    /\ current \in [Objects -> 0..MaxVersion]
    /\ handled \in [Objects -> 0..MaxVersion] /\ dropped \in [Objects -> 0..MaxVersion]
    /\ healthy \in BOOLEAN /\ failures \in 0..MaxFailures

(* The handlers never go back to an older version of an object: not through  *)
(* the queues, the retries, the watches that are opened again, nor a restart.*)
NeverBackwards == [][\A o \in Objects : handled'[o] >= handled[o]]_vars

(* The threads that can run do; kubelet starts the container again. *)
Fairness ==
    /\ WF_vars(Monitor) /\ WF_vars(Restart)
    /\ \A p \in Paths : WF_vars(WatchStep(p))
    /\ \A o \in Objects : WF_vars(WorkerStep(o))

FairSpec == Spec /\ Fairness

(* While a controller keeps the leadership, the last version of each object  *)
(* comes to be handled, whatever fails before; only a ConflictException that *)
(* is not reported leaves it aside.                                          *)
LatestHandled ==
    <>[](elector = "self") =>
        \A o \in Objects :
            <>[](InAPI(o) => version[o] \in {handled[o], dropped[o]})

(* Without failures or elections a deleted object, of which the handlers know, *)
(* has its deletion handled.                                                 *)
DeletionHandled ==
    [](failures = 0 /\ elector = "self") =>
        \A o \in Objects :
            o \in deleted /\ handled[o] > 0 ~> handled[o] = version[o]
=============================================================================

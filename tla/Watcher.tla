------------------------------ MODULE Watcher ------------------------------
(***************************************************************************)
(* The controller's service and its watcher: one green thread per watched  *)
(* path, started and stopped as the leadership comes and goes              *)
(* (watcher.py, controller/service.py).                                    *)
(*                                                                         *)
(* A green thread loses the CPU where it sleeps, reads from the API or     *)
(* waits for the handler; an action runs from one such point to the next.  *)
(* What the handler does with an event is EventPipeline.  Paths are added  *)
(* before the watcher starts, and never removed.                           *)
(***************************************************************************)
EXTENDS Integers, FiniteSets

CONSTANTS
    Paths,         \* watcher._resources
    HA,            \* controller_ha
    MaxElections   \* bound: how often the elector's answer changes

ASSUME WatcherAssumption == HA \in BOOLEAN /\ MaxElections \in Nat

VARIABLES
    up,             \* the process runs
    elector,        \* the leader-elector: "self", "other" or "error"
    currentLeader,  \* current_leader; "none" for None
    monitor,        \* "waiting", or "syncing": in sync_pools
    running,        \* _running
    watching,       \* the keys of _watching
    thread,         \* the thread of a path
    alive,          \* the watcher's _alive
    elections       \* the bound's counter

electorVars == <<elector, elections>>
leaderVars == <<currentLeader, monitor>>
watchVars == <<running, watching, thread, alive>>
watcherVars == <<up, electorVars, leaderVars, watchVars>>

(* Where _watch stands: not started yet, opening the watch, waiting for an   *)
(* event, in the handler, sleeping after an exception.                       *)
ThreadStages == {"none", "new", "opening", "listening", "handling", "backoff"}

(* _idle is FALSE while an event is handled, and only then. *)
Idle(p) == thread[p] # "handling"

-----------------------------------------------------------------------------
(* start, stop, _start_watch, _stop_watch, _graceful_watch_exit *)

StartWatcher ==
    /\ running' = TRUE
    /\ watching' = Paths
    /\ thread' = [p \in Paths |-> IF p \in watching THEN thread[p] ELSE "new"]
    /\ UNCHANGED <<up, alive>>

(* sys.exit: every thread of the process is gone. *)
Exit ==
    /\ up' = FALSE
    /\ running' = FALSE
    /\ watching' = {} /\ thread' = [p \in Paths |-> "none"]

(* Mutant: a thread is killed and _watching keeps its path. *)
StopWatcherKeeping ==
    LET busy == {p \in watching : ~Idle(p)}
    IN  /\ running' = FALSE
        /\ thread' = [p \in Paths |-> IF p \in busy THEN "handling" ELSE "none"]
        /\ UNCHANGED <<up, watching, alive>>

(* The idle threads are killed.  One that had started goes through _watch's  *)
(* "finally" to _graceful_watch_exit, which ends the process when it was the *)
(* last of all; for one that had not, _stop_watch removes the path itself.   *)
StopWatcher ==
    LET busy == {p \in watching : ~Idle(p)}
        started == {p \in watching : Idle(p) /\ thread[p] # "new"}
    IN  /\ UNCHANGED alive
        /\ \/ busy = {} /\ started # {} /\ Exit
           \/ /\ busy # {} \/ started = {} \/ watching \ (busy \cup started) # {}
              /\ running' = FALSE
              /\ watching' = busy
              /\ thread' = [p \in Paths |-> IF p \in busy THEN "handling" ELSE "none"]
              /\ UNCHANGED up

(* _graceful_watch_exit: "No remaining active watchers, Exiting..." *)
GracefulExit(p) ==
    IF watching = {p} THEN Exit
    ELSE /\ watching' = watching \ {p}
         /\ thread' = [thread EXCEPT ![p] = "none"]
         /\ UNCHANGED <<up, running>>

-----------------------------------------------------------------------------
(* monitor_leader, every five seconds.  The leader-elector runs beside it.   *)

Elect(l) ==
    /\ elections < MaxElections /\ l # elector
    /\ elector' = l
    /\ elections' = elections + 1
    /\ UNCHANGED <<up, leaderVars, watchVars>>

(* on_become_leader: the watcher is started, the pools are recovered. *)
BecomeLeader ==
    /\ up /\ HA /\ monitor = "waiting"
    /\ elector = "self" /\ currentLeader # "self"
    /\ StartWatcher
    /\ monitor' = "syncing"
    /\ UNCHANGED <<electorVars, currentLeader>>

(* The pools are recovered. *)
SyncEnds ==
    /\ up /\ monitor = "syncing"
    /\ currentLeader' = IF HA THEN "self" ELSE currentLeader
    /\ monitor' = "waiting"
    /\ UNCHANGED <<up, electorVars, watchVars>>

(* sync_pools raises.  current_leader stays as it was, and the next round     *)
(* takes the leader for a new one again; without HA the process ends.        *)
SyncFails ==
    /\ up /\ monitor = "syncing"
    /\ monitor' = "waiting"
    /\ IF HA THEN UNCHANGED <<up, watchVars>> ELSE Exit /\ UNCHANGED alive
    /\ UNCHANGED <<electorVars, currentLeader>>

(* on_revoke_leader, also when the elector does not answer. *)
RevokeLeader ==
    /\ up /\ HA /\ monitor = "waiting"
    /\ elector = "error" \/ (elector = "other" /\ currentLeader = "self")
    /\ IF running THEN StopWatcher ELSE UNCHANGED <<up, watchVars>>
    /\ currentLeader' = IF elector = "error" THEN "none" ELSE "other"
    /\ UNCHANGED <<electorVars, monitor>>

(* on_continue_leader *)
ContinueLeader ==
    /\ up /\ HA /\ monitor = "waiting"
    /\ elector = "self" /\ currentLeader = "self"
    /\ IF running THEN UNCHANGED <<up, watchVars>> ELSE StartWatcher
    /\ UNCHANGED <<electorVars, leaderVars>>

(* Another controller is the leader, as before or in place of a third one. *)
StandBy ==
    /\ up /\ HA /\ monitor = "waiting"
    /\ elector = "other" /\ currentLeader # "self"
    /\ currentLeader' = "other"
    /\ UNCHANGED <<up, electorVars, monitor, watchVars>>

-----------------------------------------------------------------------------
(* _watch, the thread of a path *)

(* Its loop is entered; or left at once, as the watcher has been stopped:    *)
(* then nobody removes the path from _watching.                              *)
EnterLoop(p) ==
    /\ thread' = [thread EXCEPT ![p] = IF running THEN "opening" ELSE "none"]
    /\ UNCHANGED <<up, electorVars, leaderVars, running, watching, alive>>

WatchStarts(p) == up /\ thread[p] = "new" /\ EnterLoop(p)

WatchOpens(p) ==
    /\ up /\ thread[p] = "opening"
    /\ thread' = [thread EXCEPT ![p] = "listening"]
    /\ UNCHANGED <<up, electorVars, leaderVars, running, watching, alive>>

(* An exception that the client does not handle. *)
WatchFails(p) ==
    /\ up /\ thread[p] \in {"opening", "listening"}
    /\ thread' = [thread EXCEPT ![p] = "backoff"]
    /\ UNCHANGED <<up, electorVars, leaderVars, running, watching, alive>>

(* exponential_sleep is over. *)
WatchRetries(p) == up /\ thread[p] = "backoff" /\ EnterLoop(p)

(* watch_retry_timeout is exceeded. *)
WatchGivesUp(p) ==
    /\ up /\ thread[p] = "backoff" /\ running
    /\ alive' = FALSE
    /\ GracefulExit(p)
    /\ UNCHANGED <<electorVars, leaderVars>>

(* An event is given to the handler. *)
WatchTakes(p) ==
    /\ up /\ thread[p] = "listening"
    /\ thread' = [thread EXCEPT ![p] = "handling"]
    /\ UNCHANGED <<up, electorVars, leaderVars, running, watching, alive>>

(* The handler has returned; the watcher may have been stopped meanwhile. *)
WatchGoesOn(p) ==
    /\ up /\ thread[p] = "handling"
    /\ IF running
       THEN /\ thread' = [thread EXCEPT ![p] = "listening"]
            /\ UNCHANGED <<up, running, watching>>
       ELSE GracefulExit(p)
    /\ UNCHANGED <<electorVars, leaderVars, alive>>

-----------------------------------------------------------------------------
(* The process starts.  Without HA the watcher is started at once. *)
Fresh ==
    /\ up' = TRUE
    /\ currentLeader' = "none" /\ alive' = TRUE
    /\ monitor' = IF HA THEN "waiting" ELSE "syncing"
    /\ running' = ~HA
    /\ watching' = IF HA THEN {} ELSE Paths
    /\ thread' = [p \in Paths |-> IF HA THEN "none" ELSE "new"]

WatcherInit ==
    /\ up = TRUE
    /\ elector \in {"self", "other"}
    /\ currentLeader = "none" /\ alive = TRUE
    /\ monitor = IF HA THEN "waiting" ELSE "syncing"
    /\ running = ~HA
    /\ watching = IF HA THEN {} ELSE Paths
    /\ thread = [p \in Paths |-> IF HA THEN "none" ELSE "new"]
    /\ elections = 0

(* kubelet starts the container again, after its end or for its liveness. *)
Restarted ==
    /\ Fresh
    /\ UNCHANGED electorVars

MonitorStep ==
    BecomeLeader \/ SyncEnds \/ SyncFails \/ RevokeLeader \/ ContinueLeader \/ StandBy

ThreadStep(p) ==
    \/ WatchStarts(p) \/ WatchOpens(p) \/ WatchFails(p) \/ WatchRetries(p)
    \/ WatchGivesUp(p) \/ WatchTakes(p) \/ WatchGoesOn(p)

WatcherNext ==
    \/ \E l \in {"self", "other", "error"} : Elect(l)
    \/ MonitorStep
    \/ \E p \in Paths : ThreadStep(p)
    \/ Restarted

WatcherSpec == WatcherInit /\ [][WatcherNext]_watcherVars

-----------------------------------------------------------------------------
(* Properties *)

(* The types of the watcher's variables. *)
WatcherTypes ==
    /\ up \in BOOLEAN
    /\ elector \in {"self", "other", "error"}
    /\ currentLeader \in {"none", "self", "other"}
    /\ monitor \in {"waiting", "syncing"}
    /\ running \in BOOLEAN /\ alive \in BOOLEAN
    /\ watching \subseteq Paths
    /\ thread \in [Paths -> ThreadStages]
    /\ elections \in 0..MaxElections

(* A watcher that is running watches every path, or is reported not alive:   *)
(* no path is taken for watched whose thread has ended or been killed.       *)
PathsWatched ==
    running /\ alive => \A p \in Paths : thread[p] # "none"

(* A controller that has lost the leadership opens no watch and takes no     *)
(* event: a thread is at most at the end of an event it had taken before.    *)
StandbyQuiet ==
    ~running => \A p \in Paths : thread[p] \in {"none", "handling"}
=============================================================================

------------------------------- MODULE Supervisor -------------------------------
(***************************************************************************)
(* The life of the daemon's services: Service.start/stop and its task      *)
(* runner (service.py), the supervisor that runs every service as one of   *)
(* its own tasks (supervisor.py), and the shutdown in lifespan.py.         *)
(*                                                                         *)
(* One action is the code between two suspension points of the loop.  The  *)
(* locks are uncontended or held over no suspension, so they are left out. *)
(* What a service does while it serves is ScheduledService; here its two   *)
(* critical tasks are one child, its jobs in flight one flag.              *)
(***************************************************************************)
EXTENDS Naturals, Sequences, FiniteSets, SequencesExt

CONSTANTS
  Order,  \* the names of the services in the order of registration
  Faults  \* what may happen: "start_error", "task_error", "early_stop"

Services == ToSet(Order)

ASSUME SupervisorAssumption ==
  /\ IsInjective(Order)
  /\ Faults \subseteq {"start_error", "task_error", "early_stop"}

VARIABLES
  registered, \* names in ServiceSupervisor._services
  runner,     \* the supervisor's task that starts and serves the service
  running,    \* Service._running
  stopEv,     \* Service._stop_event
  stoppedEv,  \* Service._stopped_event
  specs,      \* whether Service._task_specs is filled
  child,      \* the service's critical tasks in its _tg
  jobs,       \* whether ephemeral tasks are in flight
  daemon,     \* the supervisor's own life
  todo,       \* services _on_stop has still to stop, the current one first
  step,       \* how far stop() of the current one has come
  err         \* an exception is on its way out of the supervisor's stop()

vars == <<registered, runner, running, stopEv, stoppedEv, specs, child, jobs,
          daemon, todo, step, err>>
service == <<running, stopEv, stoppedEv, specs, child, jobs>>
stopping == <<daemon, todo, step, err>>

TypeOK ==
  /\ registered \subseteq Services
  /\ runner \in [Services -> {"fresh", "starting", "serving", "cancelling",
                              "retry", "done", "cancelled"}]
  /\ running \in [Services -> BOOLEAN]
  /\ stopEv \in [Services -> BOOLEAN]
  /\ stoppedEv \in [Services -> BOOLEAN]
  /\ specs \in [Services -> BOOLEAN]
  /\ child \in [Services -> {"none", "alive", "ended", "failed"}]
  /\ jobs \in [Services -> BOOLEAN]
  /\ daemon \in {"up", "stopping", "joining", "stopped", "raised"}
  /\ todo \in Seq(Services)
  /\ step \in {"next", "hook", "join"}
  /\ err \in BOOLEAN

(* Daemon._on_start registers the services; start() creates their runners. *)
Init ==
  /\ registered = Services
  /\ runner = [s \in Services |-> "fresh"]
  /\ running = [s \in Services |-> FALSE]
  /\ stopEv = [s \in Services |-> FALSE]
  /\ stoppedEv = [s \in Services |-> TRUE]
  /\ specs = [s \in Services |-> FALSE]
  /\ child = [s \in Services |-> "none"]
  /\ jobs = [s \in Services |-> FALSE]
  /\ daemon = "up"
  /\ todo = <<>>
  /\ step = "next"
  /\ err = FALSE

-----------------------------------------------------------------------------
(* An exception leaves start() or serve_forever(): the name is popped, and *)
(* the task runner sleeps for default_backoff_delay before the next try.   *)
RunnerRaises(s) ==
  /\ registered' = registered \ {s}
  /\ runner' = [runner EXCEPT ![s] = "retry"]

(* start() of the one instance that register_service has made.             *)
AttemptBegins(s) ==
  /\ runner[s] \in {"fresh", "retry"}
  /\ ~running[s]
  /\ running' = [running EXCEPT ![s] = TRUE]
  /\ stopEv' = [stopEv EXCEPT ![s] = FALSE]
  /\ stoppedEv' = [stoppedEv EXCEPT ![s] = FALSE]
  /\ runner' = [runner EXCEPT ![s] = "starting"]
  /\ UNCHANGED <<registered, specs, child, jobs, stopping>>

(* "Service already running"                                               *)
AttemptRefused(s) ==
  /\ runner[s] = "retry"
  /\ running[s]
  /\ RunnerRaises(s)
  /\ UNCHANGED <<service, stopping>>

(* _on_start: preload, register the two tasks, subscribe.  The first and   *)
(* the last may raise; the second does when the tasks are registered.      *)
StartRaises(s) ==
  /\ runner[s] = "starting"
  /\ \/ specs[s] /\ UNCHANGED specs
     \/ "start_error" \in Faults /\ UNCHANGED specs
     \/ "start_error" \in Faults /\ specs' = [specs EXCEPT ![s] = TRUE]
  /\ RunnerRaises(s)
  /\ UNCHANGED <<running, stopEv, stoppedEv, child, jobs, stopping>>

(* The task groups are entered and the tasks created, unless stop() has    *)
(* come in between: then _start_task raises "Service not running".         *)
StartReturns(s) ==
  /\ runner[s] = "starting"
  /\ ~specs[s]
  /\ specs' = [specs EXCEPT ![s] = TRUE]
  /\ IF running[s]
     THEN /\ child' = [child EXCEPT ![s] = "alive"]
          /\ runner' = [runner EXCEPT ![s] = "serving"]
          /\ UNCHANGED registered
     ELSE RunnerRaises(s) /\ UNCHANGED child
  /\ UNCHANGED <<running, stopEv, stoppedEv, jobs, stopping>>

(* _stop_event is set: serve_forever returns, the runner is done.          *)
RunnerReturns(s) ==
  /\ runner[s] = "serving"
  /\ stopEv[s]
  /\ registered' = registered \ {s}
  /\ runner' = [runner EXCEPT ![s] = "done"]
  /\ UNCHANGED <<service, stopping>>

-----------------------------------------------------------------------------
(* The critical tasks.  A failure makes the task group cancel the task     *)
(* that entered it, which is the runner, if that is still there.           *)
ChildFails(s) ==
  /\ "task_error" \in Faults
  /\ child[s] = "alive"
  /\ child' = [child EXCEPT ![s] = "failed"]
  /\ runner' = [runner EXCEPT ![s] = IF @ = "serving" THEN "cancelling" ELSE @]
  /\ UNCHANGED <<registered, running, stopEv, stoppedEv, specs, jobs, stopping>>

(* Mutant: the cancelled runner clears _running and is tried again.        *)
RunnerRestarts(s) ==
  /\ runner[s] = "cancelling"
  /\ registered' = registered \ {s}
  /\ runner' = [runner EXCEPT ![s] = "retry"]
  /\ running' = [running EXCEPT ![s] = FALSE]
  /\ UNCHANGED <<stopEv, stoppedEv, specs, child, jobs, stopping>>

(* CancelledError passes through both runners; nothing retries it.         *)
RunnerCancelled(s) ==
  /\ runner[s] = "cancelling"
  /\ registered' = registered \ {s}
  /\ runner' = [runner EXCEPT ![s] = "cancelled"]
  /\ UNCHANGED <<service, stopping>>

ChildEnds(s) ==
  /\ child[s] = "alive"
  /\ stopEv[s]
  /\ child' = [child EXCEPT ![s] = "ended"]
  /\ UNCHANGED <<registered, runner, running, stopEv, stoppedEv, specs, jobs, stopping>>

(* create_ephemeral_task, and the end of the last ephemeral task.          *)
JobStarts(s) ==
  /\ child[s] = "alive"
  /\ ~stopEv[s]
  /\ ~jobs[s]
  /\ jobs' = [jobs EXCEPT ![s] = TRUE]
  /\ UNCHANGED <<registered, runner, running, stopEv, stoppedEv, specs, child, stopping>>

JobEnds(s) ==
  /\ jobs[s]
  /\ jobs' = [jobs EXCEPT ![s] = FALSE]
  /\ UNCHANGED <<registered, runner, running, stopEv, stoppedEv, specs, child, stopping>>

-----------------------------------------------------------------------------
(* lifespan: daemon_app.stop().  The supervisor's _on_stop takes a snapshot *)
(* of _services.  The runners had their first turn long before.             *)
DaemonStops ==
  /\ daemon = "up"
  /\ \A s \in Services : runner[s] # "fresh"
  /\ "early_stop" \in Faults \/ \A s \in Services : runner[s] # "starting"
  /\ daemon' = "stopping"
  /\ todo' = SelectSeq(Order, LAMBDA s : s \in registered)
  /\ step' = "next"
  /\ UNCHANGED <<registered, runner, service, err>>

(* Mutant: stop() does not set _stop_event.                                *)
BeginsWithoutEvent ==
  /\ daemon = "stopping" /\ step = "next" /\ todo # <<>>
  /\ Head(todo) \in registered
  /\ step' = "hook"
  /\ UNCHANGED <<registered, runner, running, stopEv, stoppedEv, specs, child, jobs,
                 daemon, todo, err>>

(* stop_service(name), up to the suspension in the service's _on_stop.     *)
StopServiceBegins ==
  /\ daemon = "stopping" /\ step = "next" /\ todo # <<>>
  /\ Head(todo) \in registered
  /\ stopEv' = [stopEv EXCEPT ![Head(todo)] = TRUE]
  /\ step' = "hook"
  /\ UNCHANGED <<registered, runner, running, stoppedEv, specs, child, jobs, daemon, todo, err>>

(* "Service is not registered": the exception leaves _on_stop, and the     *)
(* finally of the supervisor's stop() waits for the runners.               *)
StopServiceUnknown ==
  /\ daemon = "stopping" /\ step = "next" /\ todo # <<>>
  /\ Head(todo) \notin registered
  /\ err' = TRUE
  /\ daemon' = "joining"
  /\ UNCHANGED <<registered, runner, service, todo, step>>

(* The end of stop() and stop_service() for the current service.           *)
ServiceStopped(s) ==
  /\ running' = [running EXCEPT ![s] = FALSE]
  /\ stoppedEv' = [stoppedEv EXCEPT ![s] = TRUE]
  /\ registered' = registered \ {s}
  /\ todo' = Tail(todo)
  /\ step' = "next"

(* Mutant: the supervisor does not wait for its runners.                   *)
JoinsAtOnce ==
  /\ daemon = "joining"
  /\ daemon' = IF err THEN "raised" ELSE "stopped"
  /\ UNCHANGED <<registered, runner, service, todo, step, err>>

(* _on_stop has returned; the ephemeral tasks are cancelled and awaited.   *)
(* A service still in its _on_start has no task groups to wait for.        *)
StopHookReturns ==
  /\ daemon = "stopping" /\ step = "hook"
  /\ LET s == Head(todo) IN
     /\ jobs' = [jobs EXCEPT ![s] = FALSE]
     /\ IF child[s] = "none"
        THEN ServiceStopped(s)
        ELSE step' = "join" /\ UNCHANGED <<registered, running, stoppedEv, todo>>
  /\ UNCHANGED <<runner, stopEv, specs, child, daemon, err>>

(* _tg.__aexit__ returns, or raises what a critical task raised.           *)
StopJoinsTasks ==
  /\ daemon = "stopping" /\ step = "join"
  /\ LET s == Head(todo) IN
     \/ /\ child[s] = "ended"
        /\ ServiceStopped(s)
        /\ UNCHANGED <<daemon, err>>
     \/ /\ child[s] = "failed"
        /\ err' = TRUE
        /\ daemon' = "joining"
        /\ UNCHANGED <<registered, running, stoppedEv, todo, step>>
  /\ UNCHANGED <<runner, stopEv, specs, child, jobs>>

AllServicesStopped ==
  /\ daemon = "stopping" /\ step = "next" /\ todo = <<>>
  /\ daemon' = "joining"
  /\ UNCHANGED <<registered, runner, service, todo, step, err>>

(* The supervisor's own _tg.__aexit__ waits for every runner.              *)
DaemonJoins ==
  /\ daemon = "joining"
  /\ \A s \in Services : runner[s] \in {"done", "cancelled"}
  /\ daemon' = IF err THEN "raised" ELSE "stopped"
  /\ UNCHANGED <<registered, runner, service, todo, step, err>>

-----------------------------------------------------------------------------
Runner(s) ==
  AttemptBegins(s) \/ AttemptRefused(s) \/ StartRaises(s) \/ StartReturns(s)
    \/ RunnerReturns(s) \/ RunnerCancelled(s)

Shutdown ==
  StopServiceBegins \/ StopServiceUnknown \/ StopHookReturns \/ StopJoinsTasks
    \/ AllServicesStopped \/ DaemonJoins

Next ==
  \/ \E s \in Services : Runner(s) \/ ChildFails(s) \/ ChildEnds(s)
                           \/ JobStarts(s) \/ JobEnds(s)
  \/ DaemonStops
  \/ Shutdown

Spec == Init /\ [][Next]_vars

(* The loop resumes every task that can go on, and awaited I/O completes    *)
(* (that the tasks of a service end once _stop_event is set is StopTerminates *)
(* of ScheduledService).  Faults, jobs and the shutdown itself are free.    *)
Fairness ==
  /\ \A s \in Services : WF_vars(Runner(s)) /\ WF_vars(ChildEnds(s))
  /\ WF_vars(Shutdown)

FairSpec == Spec /\ Fairness

-----------------------------------------------------------------------------
(* A start attempt never runs beside tasks of an earlier one: two schedulers *)
(* would pop one heap.  A failed start has created no task, and the runner   *)
(* of a service that has some is cancelled, never tried again.               *)
OneGeneration ==
  \A s \in Services :
    runner[s] = "starting" => child[s] = "none" /\ ~jobs[s]

(* A shutdown that returns has stopped every service and left it no task,   *)
(* whatever failed before or meanwhile, except those lost to a critical     *)
(* failure, whose runner was cancelled before.                              *)
ShutdownLeavesOnlyLost ==
  daemon = "stopped" =>
    \A s \in Services :
      \/ runner[s] = "cancelled"
      \/ stoppedEv[s] /\ ~running[s] /\ ~jobs[s] /\ child[s] \in {"none", "ended"}

(* While no start and no critical task fails, stop() of the supervisor      *)
(* returns or raises; after a failure, runners nobody stops any more may    *)
(* keep it waiting in _tg.__aexit__.                                        *)
Failure == \E s \in Services : runner[s] = "retry" \/ child[s] = "failed"
ShutdownTerminates ==
  []~Failure => (daemon = "stopping" ~> daemon \in {"stopped", "raised"})

=============================================================================

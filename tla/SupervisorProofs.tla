--------------------------- MODULE SupervisorProofs ---------------------------
(* What Supervisor guarantees for any number of services and whatever fails. *)
EXTENDS Supervisor, TLAPS

(* The types of what the argument needs; the order of todo does not matter. *)
Types ==
  /\ registered \subseteq Services
  /\ runner \in [Services -> {"fresh", "starting", "serving", "cancelling",
                              "retry", "done", "cancelled"}]
  /\ running \in [Services -> BOOLEAN]
  /\ stopEv \in [Services -> BOOLEAN]
  /\ stoppedEv \in [Services -> BOOLEAN]
  /\ child \in [Services -> {"none", "alive", "ended", "failed"}]
  /\ jobs \in [Services -> BOOLEAN]
  /\ step \in {"next", "hook", "join"}
  /\ err \in BOOLEAN

(* Tasks are created by a start that succeeds, after which the runner only  *)
(* serves and ends.                                                         *)
Early == \A s \in Services :
  runner[s] \in {"fresh", "starting", "retry"} => child[s] = "none" /\ ~jobs[s]

(* The service whose stop() is under way, and one whose stop() has ended.   *)
Current(s) == daemon = "stopping" /\ step # "next" /\ s = Head(todo)
Emptied(s) == stoppedEv[s] /\ ~running[s] /\ ~jobs[s] /\ child[s] \in {"none", "ended"}

(* A registered service is running once its runner has had its turn, which  *)
(* is before the shutdown.                                                  *)
Alive ==
  /\ \A s \in registered : runner[s] # "fresh" => running[s]
  /\ daemon # "up" => \A s \in Services : runner[s] # "fresh"

(* A service that is being stopped keeps _running, so nothing resets its    *)
(* event; stop() has cancelled the jobs before it waits for the tasks, and  *)
(* no new job starts once the event is set.                                 *)
Joining ==
  daemon = "stopping" /\ step # "next" =>
    /\ Head(todo) \in Services
    /\ stopEv[Head(todo)] /\ running[Head(todo)]
    /\ step = "join" => ~jobs[Head(todo)] /\ child[Head(todo)] # "none"

(* A service that was told to stop is being stopped or empty, unless stop() *)
(* gave up; a runner is done only when its service was told to.             *)
Told == \A s \in Services :
  /\ stopEv[s] => Current(s) \/ Emptied(s) \/ err
  /\ runner[s] = "done" => stopEv[s]

Joined ==
  daemon = "stopped" => ~err /\ \A s \in Services : runner[s] \in {"done", "cancelled"}

IInv == Types /\ Early /\ Alive /\ Joining /\ Told /\ Joined

-----------------------------------------------------------------------------
(* Before the first runner has had its turn nothing runs.                   *)
LEMMA InitIInv == Init => IInv
BY DEF Init, IInv, Types, Early, Alive, Joining, Told, Joined

(* The steps of a runner.                                                   *)
LEMMA RunnerKeeps ==
  ASSUME IInv, NEW s \in Services, Runner(s)
  PROVE  IInv'
<1> USE DEF Runner, AttemptBegins, AttemptRefused, StartRaises, StartReturns, RunnerReturns,
        RunnerCancelled, RunnerRaises, service, stopping
<1>1. Types'
  BY DEF IInv, Types
<1>2. Early'
  BY DEF IInv, Types, Early
<1>3. Alive' /\ Joining'
  BY DEF IInv, Types, Alive, Joining
<1>4. Told'
  BY DEF IInv, Types, Early, Told, Current, Emptied
<1>5. Joined'
  BY DEF IInv, Types, Joined
<1>6. QED
  BY <1>1, <1>2, <1>3, <1>4, <1>5 DEF IInv

(* The steps of a service's tasks and jobs.                                 *)
LEMMA TasksKeep ==
  ASSUME IInv, NEW s \in Services,
         ChildFails(s) \/ ChildEnds(s) \/ JobStarts(s) \/ JobEnds(s)
  PROVE  IInv'
<1> USE DEF ChildFails, ChildEnds, JobStarts, JobEnds, stopping
<1>1. Types'
  BY DEF IInv, Types
<1>2. Early'
  BY DEF IInv, Types, Early
<1>3. Alive' /\ Joining'
  BY DEF IInv, Types, Alive, Joining
<1>4. Told'
  BY DEF IInv, Types, Told, Current, Emptied
<1>5. Joined'
  BY DEF IInv, Types, Joined
<1>6. QED
  BY <1>1, <1>2, <1>3, <1>4, <1>5 DEF IInv

(* The steps of the shutdown.                                               *)
LEMMA ShutdownKeeps ==
  ASSUME IInv, DaemonStops \/ Shutdown
  PROVE  IInv'
<1> USE DEF service
<1>1. CASE DaemonStops
  BY <1>1 DEF DaemonStops, IInv, Types, Early, Alive, Joining, Told, Joined, Current, Emptied
<1>2. CASE StopServiceBegins
  <2> USE <1>2 DEF StopServiceBegins
  <2>1. Types' /\ Early' /\ Alive' /\ Joining'
    BY DEF IInv, Types, Early, Alive, Joining
  <2>2. Told'
    BY DEF IInv, Types, Told, Current, Emptied
  <2>3. Joined'
    BY DEF IInv, Types, Joined
  <2>4. QED
    BY <2>1, <2>2, <2>3 DEF IInv
<1>3. CASE StopServiceUnknown \/ AllServicesStopped \/ DaemonJoins
  <2> USE <1>3 DEF StopServiceUnknown, AllServicesStopped, DaemonJoins
  <2>1. Types' /\ Early'
    BY DEF IInv, Types, Early
  <2>2. Alive' /\ Joining'
    BY DEF IInv, Types, Alive, Joining
  <2>3. Told' /\ Joined'
    BY DEF IInv, Types, Told, Current, Emptied, Joined
  <2>4. QED
    BY <2>1, <2>2, <2>3 DEF IInv
<1>4. CASE StopHookReturns
  <2> USE <1>4 DEF StopHookReturns, ServiceStopped
  <2>1. Types' /\ Early'
    BY DEF IInv, Types, Early, Joining
  <2>2. Alive' /\ Joining'
    BY DEF IInv, Types, Alive, Joining
  <2>3. Told' /\ Joined'
    BY DEF IInv, Types, Joining, Told, Current, Emptied, Joined
  <2>4. QED
    BY <2>1, <2>2, <2>3 DEF IInv
<1>5. CASE StopJoinsTasks
  <2> USE <1>5 DEF StopJoinsTasks, ServiceStopped
  <2>1. Types' /\ Early'
    BY DEF IInv, Types, Early, Joining
  <2>2. Alive' /\ Joining'
    BY DEF IInv, Types, Alive, Joining
  <2>3. Told' /\ Joined'
    BY DEF IInv, Types, Joining, Told, Current, Emptied, Joined
  <2>4. QED
    BY <2>1, <2>2, <2>3 DEF IInv
<1>6. QED
  BY <1>1, <1>2, <1>3, <1>4, <1>5 DEF Shutdown

(* The invariant holds throughout.                                          *)
LEMMA Invariance == Spec => []IInv
<1>1. IInv /\ UNCHANGED vars => IInv'
  BY DEF vars, IInv, Types, Early, Alive, Joining, Told, Joined, Current, Emptied
<1>2. IInv /\ [Next]_vars => IInv'
  BY <1>1, RunnerKeeps, TasksKeep, ShutdownKeeps DEF Next
<1>3. QED
  BY <1>2, InitIInv, PTL DEF Spec

(* For any number of services and whatever fails: a start attempt never     *)
(* runs beside the tasks of an earlier one.                                 *)
THEOREM GenerationsDoNotMeet == Spec => []OneGeneration
<1>1. IInv => OneGeneration
  BY DEF IInv, Early, OneGeneration
<1>2. QED
  BY <1>1, Invariance, PTL

(* For any number of services and whatever fails: a shutdown that returns   *)
(* leaves no task, but for services whose runner was cancelled.             *)
THEOREM ShutdownIsClean == Spec => []ShutdownLeavesOnlyLost
<1>1. IInv => ShutdownLeavesOnlyLost
  BY DEF IInv, Joined, Told, Current, Emptied, ShutdownLeavesOnlyLost
<1>2. QED
  BY <1>1, Invariance, PTL
=============================================================================

--------------------------- MODULE ScheduledService ---------------------------
(***************************************************************************)
(* The in-memory job scheduler that every daemon service inherits          *)
(* (app/daemon/services/service/scheduled.py): a priority heap fed by the  *)
(* pub/sub subscriber and by finished jobs, one scheduler task that pops   *)
(* it, one ephemeral task per job in flight, a semaphore, and the stop     *)
(* sequence of service.py that drains all of them.                         *)
(*                                                                         *)
(* The code runs on one asyncio loop, so an action is the code between two *)
(* suspension points.  _job_condition's lock is never held across one, so  *)
(* the lock itself is not modelled, only the waiting and the notification. *)
(* Times are kept as delays from now: Tick lets one unit pass.  An overdue *)
(* entry has delay 0, ties are popped in any order (the heap orders them   *)
(* by microseconds and job id, below the resolution of the model).         *)
(***************************************************************************)
EXTENDS Naturals, Sequences, FiniteSets, Functions

CONSTANTS
  Jobs,             \* job ids
  Slots,            \* places for ephemeral _handle_job tasks
  Concurrency,      \* job_concurrency: permits of _job_semaphore
  Interval,         \* job_interval_hours, in ticks
  ShouldReschedule, \* the class variable _should_reschedule
  HookAwaits,       \* whether _on_job_success suspends (it updates last_fetch)
  Instructions,     \* what _resolve_job_instruction can answer
  Published,        \* bound: the ids that are published while the service runs
  MaxOutstanding,   \* bound: copies of one job id published and not yet popped
  NoJob             \* marks an idle slot or subscriber

ASSUME ServiceAssumption ==
  /\ Concurrency \in Nat \ {0}
  /\ Interval \in Nat
  /\ Published \subseteq Jobs
  /\ MaxOutstanding \in Nat
  /\ ShouldReschedule \in BOOLEAN
  /\ HookAwaits \in BOOLEAN
  /\ NoJob \notin Jobs
  /\ IsFiniteSet(Slots)

Delays == 0..Interval

(* JobLoadInstruction: None, skip, an exception, or a moment to run at (an *)
(* execution_time, now, or last_execution + interval).                     *)
Answers == [kind: {"none", "skip", "error"}, delay: {0}]
             \cup [kind: {"at"}, delay: Delays]

ASSUME InstructionsAssumption == Instructions \subseteq Answers

VARIABLES
  heap,    \* _job_heap: how many entries (job, delay) it holds
  active,  \* _active_job_ids
  sem,     \* free permits of _job_semaphore
  phase,   \* where each ephemeral task is in _handle_job
  hjob,    \* the job it handles
  wait,    \* what is left of its asyncio.sleep
  sched,   \* the job_scheduler task
  sub,     \* the job_subscriber task
  subJob,  \* the id whose instruction it is resolving
  channel, \* messages Redis has sent to the subscription
  svc      \* Service: running, or how far stop() has come

vars == <<heap, active, sem, phase, hjob, wait, sched, sub, subJob, channel, svc>>
handlers == <<active, sem, phase, hjob, wait>>

Phases == {"idle", "sleep", "queued", "exec", "hook", "cancelled", "unwinding"}
Unsub == "unsubscribe"
Entries == Jobs \X Delays

InHeap(j) == \E d \in Delays : heap[<<j, d>>] > 0
HeapEmpty == \A j \in Jobs : ~InHeap(j)
Handled(j) == \E s \in Slots : phase[s] # "idle" /\ hjob[s] = j
StopSet == svc # "running"

TypeOK ==
  /\ heap \in [Entries -> Nat]
  /\ active \in SUBSET Jobs
  /\ sem \in 0..Concurrency
  /\ phase \in [Slots -> Phases]
  /\ hjob \in [Slots -> Jobs \cup {NoJob}]
  /\ wait \in [Slots -> Delays]
  /\ sched \in {"loop", "wait", "done", "cancelled"}
  /\ sub \in {"listen", "resolving", "done", "failed"}
  /\ subJob \in Jobs \cup {NoJob}
  /\ channel \in Seq(Jobs \cup {Unsub})
  /\ svc \in {"running", "unsubscribing", "cancelling", "draining", "stopped", "raised"}

-----------------------------------------------------------------------------
(* _preload_jobs: any set of stored records, due now or later.             *)
Init ==
  /\ heap \in {[e \in Entries |-> IF e \in L THEN 1 ELSE 0] :
                 L \in {S \in SUBSET Entries :
                          \A e, f \in S : e[1] = f[1] => e = f}}
  /\ active = {}
  /\ sem = Concurrency
  /\ phase = [s \in Slots |-> "idle"]
  /\ hjob = [s \in Slots |-> NoJob]
  /\ wait = [s \in Slots |-> 0]
  /\ sched = "loop"
  /\ sub = "listen"
  /\ subJob = NoJob
  /\ channel = <<>>
  /\ svc = "running"

(* Condition.notify: only the scheduler ever waits.                        *)
Notify == sched' = IF sched = "wait" THEN "loop" ELSE sched

Push(j, d) == heap' = [heap EXCEPT ![<<j, d>>] = @ + 1]

-----------------------------------------------------------------------------
(* _job_scheduler                                                          *)
SchedulerStops ==
  /\ sched = "loop"
  /\ StopSet
  /\ sched' = "done"
  /\ UNCHANGED <<heap, handlers, sub, subJob, channel, svc>>

SchedulerWaits ==
  /\ sched = "loop"
  /\ ~StopSet
  /\ HeapEmpty
  /\ sched' = "wait"
  /\ UNCHANGED <<heap, handlers, sub, subJob, channel, svc>>

(* heappop: an entry no other entry precedes.                              *)
PopMin(j, d) ==
  /\ heap[<<j, d>>] > 0
  /\ \A i \in Jobs, c \in Delays : heap[<<i, c>>] > 0 => d <= c
  /\ heap' = [heap EXCEPT ![<<j, d>>] = @ - 1]

SchedulerSkips(j, d) ==
  /\ sched = "loop"
  /\ ~StopSet
  /\ PopMin(j, d)
  /\ j \in active
  /\ UNCHANGED <<handlers, sched, sub, subJob, channel, svc>>

(* Mutant: the test against _active_job_ids is dropped.                    *)
SpawnsUnchecked(j, d, s) ==
  /\ sched = "loop"
  /\ ~StopSet
  /\ PopMin(j, d)
  /\ phase[s] = "idle"
  /\ active' = active \cup {j}
  /\ phase' = [phase EXCEPT ![s] = "sleep"]
  /\ hjob' = [hjob EXCEPT ![s] = j]
  /\ wait' = [wait EXCEPT ![s] = d]
  /\ UNCHANGED <<sem, sched, sub, subJob, channel, svc>>

(* create_ephemeral_task(_handle_job(job_id, execution_time)) *)
SchedulerSpawns(j, d, s) ==
  /\ sched = "loop"
  /\ ~StopSet
  /\ PopMin(j, d)
  /\ j \notin active
  /\ phase[s] = "idle"
  /\ active' = active \cup {j}
  /\ phase' = [phase EXCEPT ![s] = "sleep"]
  /\ hjob' = [hjob EXCEPT ![s] = j]
  /\ wait' = [wait EXCEPT ![s] = d]
  /\ UNCHANGED <<sem, sched, sub, subJob, channel, svc>>

-----------------------------------------------------------------------------
(* _job_subscriber *)
SubscriberReceives ==
  /\ sub = "listen"
  /\ channel # <<>>
  /\ channel' = Tail(channel)
  /\ IF StopSet
     THEN sub' = "done" /\ UNCHANGED subJob
     ELSE sub' = "resolving" /\ subJob' = Head(channel)
  /\ UNCHANGED <<heap, handlers, sched, svc>>

(* _load_job: where an instruction puts the job; without one, at the end of *)
(* the queue (_get_latest_execution_time, one microsecond later).           *)
LoadsAt(instruction, d) ==
  \/ instruction.kind = "at" /\ d = instruction.delay
  \/ instruction.kind = "none" /\ HeapEmpty /\ d = 0
  \/ /\ instruction.kind = "none"
     /\ \E j \in Jobs : heap[<<j, d>>] > 0
     /\ \A j \in Jobs, c \in Delays : heap[<<j, c>>] > 0 => c <= d

SubscriberLoads(instruction) ==
  /\ sub = "resolving"
  /\ sub' = "listen"
  /\ subJob' = NoJob
  /\ \/ instruction.kind = "error" /\ UNCHANGED <<heap, sched>>
     \/ instruction.kind = "skip" /\ UNCHANGED heap /\ Notify
     \/ \E d \in Delays : LoadsAt(instruction, d) /\ Push(subJob, d) /\ Notify
  /\ UNCHANGED <<handlers, channel, svc>>

(* listen() raises: the task is critical, so the task group cancels its    *)
(* siblings; once the runner that entered the group is gone it no longer   *)
(* does, and the error waits for __aexit__.                                *)
SubscriberFails ==
  /\ sub \in {"listen", "resolving"}
  /\ sub' = "failed"
  /\ subJob' = NoJob
  /\ \/ sched' = IF sched = "done" THEN sched ELSE "cancelled"
     \/ StopSet /\ UNCHANGED sched
  /\ UNCHANGED <<heap, handlers, channel, svc>>

-----------------------------------------------------------------------------
(* _handle_job *)
HandlerWakes(s) ==
  /\ phase[s] = "sleep"
  /\ wait[s] = 0
  /\ phase' = [phase EXCEPT ![s] = "queued"]
  /\ UNCHANGED <<heap, active, sem, hjob, wait, sched, sub, subJob, channel, svc>>

HandlerAcquires(s) ==
  /\ phase[s] = "queued"
  /\ sem > 0
  /\ sem' = sem - 1
  /\ phase' = [phase EXCEPT ![s] = "exec"]
  /\ UNCHANGED <<heap, active, hjob, wait, sched, sub, subJob, channel, svc>>

(* Mutants: the id is not discarded; the waiter is not notified; a failed   *)
(* job is not scheduled again; a failed job keeps its permit.               *)
FinishKeepsId(s) ==
  /\ phase' = [phase EXCEPT ![s] = "idle"]
  /\ hjob' = [hjob EXCEPT ![s] = NoJob]
  /\ IF ShouldReschedule
     THEN Push(hjob[s], Interval) /\ Notify
     ELSE UNCHANGED <<heap, sched>>
  /\ UNCHANGED active

FinishSilently(s) ==
  /\ phase' = [phase EXCEPT ![s] = "idle"]
  /\ hjob' = [hjob EXCEPT ![s] = NoJob]
  /\ active' = active \ {hjob[s]}
  /\ IF ShouldReschedule THEN Push(hjob[s], Interval) ELSE UNCHANGED heap
  /\ UNCHANGED sched

ErrorEndsJob(s, ok) ==
  /\ phase[s] = "exec"
  /\ sem' = sem + 1
  /\ IF ok
     THEN phase' = [phase EXCEPT ![s] = "hook"] /\ UNCHANGED <<active, hjob>>
     ELSE /\ phase' = [phase EXCEPT ![s] = "idle"]
          /\ hjob' = [hjob EXCEPT ![s] = NoJob]
          /\ active' = active \ {hjob[s]}
  /\ UNCHANGED <<heap, sched, wait, sub, subJob, channel, svc>>

ErrorKeepsPermit(s, ok) ==
  /\ phase[s] = "exec"
  /\ sem' = IF ok THEN sem + 1 ELSE sem
  /\ IF ok /\ HookAwaits
     THEN /\ phase' = [phase EXCEPT ![s] = "hook"]
          /\ UNCHANGED <<heap, active, hjob, sched>>
     ELSE /\ phase' = [phase EXCEPT ![s] = "idle"]
          /\ hjob' = [hjob EXCEPT ![s] = NoJob]
          /\ active' = active \ {hjob[s]}
          /\ heap' = [heap EXCEPT ![<<hjob[s], Interval>>] = @ + 1]
          /\ Notify
  /\ UNCHANGED <<wait, sub, subJob, channel, svc>>

(* The end of _handle_job: push the next run, discard, notify; or only     *)
(* discard.                                                                *)
Finish(s) ==
  /\ phase' = [phase EXCEPT ![s] = "idle"]
  /\ hjob' = [hjob EXCEPT ![s] = NoJob]
  /\ active' = active \ {hjob[s]}
  /\ IF ShouldReschedule
     THEN Push(hjob[s], Interval) /\ Notify
     ELSE UNCHANGED <<heap, sched>>

(* _execute_job returned or raised; the permit is released.                *)
HandlerExecuted(s, ok) ==
  /\ phase[s] = "exec"
  /\ sem' = sem + 1
  /\ IF ok /\ HookAwaits
     THEN /\ phase' = [phase EXCEPT ![s] = "hook"]
          /\ UNCHANGED <<heap, active, hjob, sched>>
     ELSE Finish(s)
  /\ UNCHANGED <<wait, sub, subJob, channel, svc>>

HandlerHookDone(s) ==
  /\ phase[s] = "hook"
  /\ Finish(s)
  /\ UNCHANGED <<sem, wait, sub, subJob, channel, svc>>

(* CancelledError leaves _handle_job without discarding the id.            *)
HandlerUnwinds(s) ==
  /\ phase[s] \in {"cancelled", "unwinding"}
  /\ phase' = [phase EXCEPT ![s] = "idle"]
  /\ hjob' = [hjob EXCEPT ![s] = NoJob]
  /\ sem' = IF phase[s] = "unwinding" THEN sem + 1 ELSE sem
  /\ UNCHANGED <<heap, active, wait, sched, sub, subJob, channel, svc>>

-----------------------------------------------------------------------------
(* Service.stop and the hooks of ScheduledService.  A service whose runner *)
(* was cancelled by a critical failure is no longer known to anyone who    *)
(* could stop it.                                                          *)
Stop ==
  /\ svc = "running"
  /\ sub # "failed"
  /\ svc' = "unsubscribing"
  /\ UNCHANGED <<heap, handlers, sched, sub, subJob, channel>>

(* Mutant: _on_stop does not unsubscribe.                                  *)
CancelSubscribed ==
  /\ svc = "unsubscribing"
  /\ svc' = "cancelling"
  /\ Notify
  /\ phase' = [s \in Slots |->
                 CASE phase[s] = "idle" -> "idle"
                   [] phase[s] = "exec" -> "unwinding"
                   [] OTHER -> "cancelled"]
  /\ UNCHANGED <<heap, active, sem, hjob, wait, sub, subJob, channel>>

(* unsubscribe() has been sent; _on_stop notifies, stop() cancels.         *)
StopCancels ==
  /\ svc = "unsubscribing"
  /\ svc' = "cancelling"
  /\ channel' = Append(channel, Unsub)
  /\ Notify
  /\ phase' = [s \in Slots |->
                 CASE phase[s] = "idle" -> "idle"
                   [] phase[s] = "exec" -> "unwinding"
                   [] OTHER -> "cancelled"]
  /\ UNCHANGED <<heap, active, sem, hjob, wait, sub, subJob>>

StopDrainsJobs ==
  /\ svc = "cancelling"
  /\ \A s \in Slots : phase[s] = "idle"
  /\ svc' = "draining"
  /\ UNCHANGED <<heap, handlers, sched, sub, subJob, channel>>

(* _tg.__aexit__ returns, or raises the subscriber's error.                *)
StopCompletes ==
  /\ svc = "draining"
  /\ sched \in {"done", "cancelled"}
  /\ sub \in {"done", "failed"}
  /\ svc' = IF sub = "failed" THEN "raised" ELSE "stopped"
  /\ UNCHANGED <<heap, handlers, sched, sub, subJob, channel>>

-----------------------------------------------------------------------------
(* A publisher; Redis keeps nothing for a channel without a subscriber.    *)
Outstanding(j) ==
  SumFunctionOnSet(heap, {j} \X Delays)
    + Cardinality({i \in DOMAIN channel : channel[i] = j})

Publish(j) ==
  /\ svc \in {"running", "unsubscribing"}
  /\ j \in Published
  /\ Outstanding(j) < MaxOutstanding
  /\ channel' = Append(channel, j)
  /\ UNCHANGED <<heap, handlers, sched, sub, subJob, svc>>

(* One unit of time.                                                       *)
Tick ==
  /\ wait' = [s \in Slots |-> IF wait[s] > 0 THEN wait[s] - 1 ELSE 0]
  /\ heap' = [e \in Entries |->
                CASE e[2] = 0 /\ Interval > 0 -> heap[e] + heap[<<e[1], 1>>]
                  [] e[2] > 0 /\ e[2] < Interval -> heap[<<e[1], e[2] + 1>>]
                  [] e[2] > 0 /\ e[2] = Interval -> 0
                  [] OTHER -> heap[e]]
  /\ UNCHANGED <<active, sem, phase, hjob, sched, sub, subJob, channel, svc>>

-----------------------------------------------------------------------------
Pops(j) ==
  \E d \in Delays : SchedulerSkips(j, d) \/ \E s \in Slots : SchedulerSpawns(j, d, s)

Scheduler ==
  \/ SchedulerStops
  \/ SchedulerWaits
  \/ \E j \in Jobs : Pops(j)

Handler(s) ==
  \/ HandlerWakes(s)
  \/ HandlerAcquires(s)
  \/ \E ok \in BOOLEAN : HandlerExecuted(s, ok)
  \/ HandlerHookDone(s)
  \/ HandlerUnwinds(s)

Next ==
  \/ Scheduler
  \/ SubscriberReceives
  \/ \E instruction \in Instructions : SubscriberLoads(instruction)
  \/ SubscriberFails
  \/ \E s \in Slots : Handler(s)
  \/ Stop
  \/ StopCancels
  \/ StopDrainsJobs
  \/ StopCompletes
  \/ \E j \in Jobs : Publish(j)
  \/ Tick

Spec == Init /\ [][Next]_vars

(* Every suspended task is eventually resumed by the loop, time passes, and *)
(* awaited I/O completes.  A semaphore serves its waiters in FIFO order,    *)
(* which is what the strong fairness of HandlerAcquires stands for.  The    *)
(* heap orders overdue entries, all of delay 0 here, by execution_time, so  *)
(* new entries cannot overtake an old one for ever: strong fairness of      *)
(* Pops.  Nobody is obliged to publish, to stop the service or to lose the  *)
(* connection.                                                              *)
Fairness ==
  /\ WF_vars(Tick)
  /\ WF_vars(Scheduler)
  /\ \A j \in Jobs : SF_vars(Pops(j))
  /\ WF_vars(SubscriberReceives)
  /\ WF_vars(\E instruction \in Instructions : SubscriberLoads(instruction))
  /\ WF_vars(StopCancels)
  /\ WF_vars(StopDrainsJobs)
  /\ WF_vars(StopCompletes)
  /\ \A s \in Slots : /\ WF_vars(Handler(s))
                      /\ SF_vars(HandlerAcquires(s))

FairSpec == Spec /\ Fairness

-----------------------------------------------------------------------------
(* No job id is ever handled by two ephemeral tasks at once: what           *)
(* _active_job_ids is for.                                                  *)
NoOverlap ==
  \A s, t \in Slots :
    phase[s] # "idle" /\ phase[t] # "idle" /\ hjob[s] = hjob[t] => s = t

(* _active_job_ids names exactly the jobs with a live task until stop()     *)
(* cancels them; an id left behind would silence its job for good.          *)
ActiveExact ==
  svc \in {"running", "unsubscribing"} => active = {j \in Jobs : Handled(j)}

(* Permits are neither leaked nor minted by success, error or cancellation, *)
(* so at most Concurrency jobs execute at once.                             *)
Holding == {s \in Slots : phase[s] \in {"exec", "unwinding"}}
PermitsConserved == sem + Cardinality(Holding) = Concurrency

(* No lost wakeup: the scheduler sleeps on _job_condition only while there  *)
(* is nothing to pop and stop() has still to notify it.                     *)
NoLostWakeup ==
  sched = "wait" => HeapEmpty /\ svc \in {"running", "unsubscribing"}

(* stop() returns only when scheduler, subscriber and every job task ended. *)
StoppedMeansQuiet ==
  svc \in {"stopped", "raised"} =>
    /\ sched \in {"done", "cancelled"}
    /\ sub \in {"done", "failed"}
    /\ \A s \in Slots : phase[s] = "idle"

(* A recurring job, once loaded, is in the heap or in hand in every later   *)
(* state of the running service: neither the skip of a duplicate nor an     *)
(* exception in _execute_job loses it.                                      *)
Scheduled(j) == InHeap(j) \/ j \in active
RecurringNeverLost ==
  [][ShouldReschedule /\ svc' = "running"
       => \A j \in Jobs : Scheduled(j) => Scheduled(j)']_vars

(* Every job in the heap or in hand is executed, however many others there  *)
(* are, unless the service is stopped or its subscriber fails.              *)
Executing(j) == \E s \in Slots : phase[s] = "exec" /\ hjob[s] = j
Ended == StopSet \/ sub = "failed"
JobsRun == \A j \in Jobs : InHeap(j) ~> Executing(j) \/ Ended

(* stop() terminates, whatever the tasks are waiting for.                   *)
StopTerminates == StopSet ~> svc \in {"stopped", "raised"}

=============================================================================

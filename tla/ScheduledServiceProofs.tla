------------------------ MODULE ScheduledServiceProofs ------------------------
(* What ScheduledService guarantees for any number of jobs, slots and       *)
(* permits, any interval and any set of instructions.                       *)
EXTENDS ScheduledService, FiniteSetTheorems, TLAPS

(* Before stop() cancels, no task is unwinding, every active id has its     *)
(* task and only job ids are in the channel; afterwards tasks only unwind.  *)
BeforeCancel ==
  svc \in {"running", "unsubscribing"} =>
    /\ \A s \in Slots : phase[s] \notin {"cancelled", "unwinding"}
    /\ \A j \in active : Handled(j)
    /\ channel \in Seq(Jobs)

AfterCancel ==
  svc \notin {"running", "unsubscribing"} =>
    \A s \in Slots : phase[s] \in {"idle", "cancelled", "unwinding"}

Drained ==
  svc \in {"draining", "stopped", "raised"} => \A s \in Slots : phase[s] = "idle"

(* The inductive invariant: ActiveExact is split into the two inclusions,   *)
(* and the phases of stop() say what may still be alive.                    *)
IInv ==
  /\ TypeOK
  /\ \A s \in Slots : phase[s] # "idle" => hjob[s] \in active
  /\ NoOverlap
  /\ BeforeCancel
  /\ AfterCancel
  /\ Drained
  /\ PermitsConserved
  /\ NoLostWakeup
  /\ sub = "resolving" => subJob \in Jobs
  /\ svc \in {"stopped", "raised"} =>
       sched \in {"done", "cancelled"} /\ sub \in {"done", "failed"}

-----------------------------------------------------------------------------
(* The preloaded heap, with nothing in flight, satisfies the invariant.     *)
LEMMA InitIInv == Init => IInv
<1> SUFFICES ASSUME Init PROVE IInv
  OBVIOUS
<1> USE DEF Init
<1>1. TypeOK
  BY ServiceAssumption DEF TypeOK, Phases, Delays
<1>2. PermitsConserved
  <2>1. Holding = {}
    BY DEF Holding
  <2>2. Cardinality(Holding) = 0
    BY <2>1, FS_EmptySet
  <2>3. QED
    BY <2>2, ServiceAssumption DEF PermitsConserved
<1>3. channel \in Seq(Jobs)
  OBVIOUS
<1>4. QED
  BY <1>1, <1>2, <1>3 DEF IInv, NoOverlap, BeforeCancel, AfterCancel, Drained, NoLostWakeup

(* A step that moves no task into or out of the semaphore keeps the count.  *)
LEMMA PermitsKept ==
  ASSUME PermitsConserved, sem' = sem, Holding' = Holding
  PROVE  PermitsConserved'
  BY DEF PermitsConserved

(* Releasing a permit as its task leaves the semaphore keeps the count.     *)
LEMMA PermitsReleased ==
  ASSUME TypeOK, PermitsConserved, NEW s \in Holding,
         sem' = sem + 1, Holding' = Holding \ {s}
  PROVE  PermitsConserved' /\ sem' \in 0..Concurrency
<1>1. IsFiniteSet(Holding)
  BY ServiceAssumption, FS_Subset DEF Holding
<1>2. Cardinality(Holding \ {s}) = Cardinality(Holding) - 1
  BY <1>1, FS_RemoveElement
<1>3. Cardinality(Holding) \in Nat /\ Cardinality(Holding \ {s}) \in Nat
  BY <1>1, FS_CardinalityType, FS_RemoveElement
<1>4. QED
  BY <1>2, <1>3, ServiceAssumption DEF PermitsConserved, TypeOK

(* Taking a permit as a task enters keeps the count.                        *)
LEMMA PermitsTaken ==
  ASSUME TypeOK, PermitsConserved, NEW s \in Slots \ Holding, sem > 0,
         sem' = sem - 1, Holding' = Holding \cup {s}
  PROVE  PermitsConserved' /\ sem' \in 0..Concurrency
<1>1. IsFiniteSet(Holding)
  BY ServiceAssumption, FS_Subset DEF Holding
<1>2. Cardinality(Holding \cup {s}) = Cardinality(Holding) + 1
  BY <1>1, FS_AddElement
<1>3. Cardinality(Holding) \in Nat
  BY <1>1, FS_CardinalityType
<1>4. QED
  BY <1>2, <1>3, ServiceAssumption DEF PermitsConserved, TypeOK

-----------------------------------------------------------------------------
(* The scheduler's steps preserve the invariant.                            *)
LEMMA SchedulerIInv == IInv /\ Scheduler => IInv'
<1> SUFFICES ASSUME IInv, Scheduler PROVE IInv'
  OBVIOUS
<1> USE DEF IInv
<1>1. CASE SchedulerStops \/ SchedulerWaits
  <2>1. Holding' = Holding /\ sem' = sem
    BY <1>1 DEF SchedulerStops, SchedulerWaits, handlers, Holding
  <2>2. PermitsConserved'
    BY <2>1, PermitsKept
  <2>3. TypeOK' /\ NoOverlap' /\ BeforeCancel' /\ AfterCancel'
    BY <1>1 DEF SchedulerStops, SchedulerWaits, handlers, TypeOK, NoOverlap, BeforeCancel,
       AfterCancel, Handled, StopSet
  <2>4. Drained' /\ NoLostWakeup'
    BY <1>1 DEF SchedulerStops, SchedulerWaits, handlers, TypeOK, Drained, NoLostWakeup,
       HeapEmpty, InHeap, Handled, StopSet
  <2>5. QED
    BY <1>1, <2>2, <2>3, <2>4 DEF SchedulerStops, SchedulerWaits, handlers, StopSet
<1>2. ASSUME NEW j \in Jobs, NEW d \in Delays, SchedulerSkips(j, d)
      PROVE  IInv'
  <2>1. Holding' = Holding /\ sem' = sem
    BY <1>2 DEF SchedulerSkips, handlers, Holding
  <2>2. PermitsConserved'
    BY <2>1, PermitsKept
  <2>3. heap' \in [Entries -> Nat]
    BY <1>2 DEF SchedulerSkips, PopMin, TypeOK, Entries
  <2>4. QED
    BY <1>2, <2>2, <2>3 DEF SchedulerSkips, handlers, TypeOK, NoOverlap,
       BeforeCancel, AfterCancel, Drained, NoLostWakeup, Handled, StopSet
<1>3. ASSUME NEW j \in Jobs, NEW d \in Delays, NEW s \in Slots, SchedulerSpawns(j, d, s)
      PROVE  IInv'
  <2> USE <1>3 DEF SchedulerSpawns
  <2>1. Holding' = Holding /\ sem' = sem
    BY DEF Holding, TypeOK
  <2>2. PermitsConserved'
    BY <2>1, PermitsKept
  <2>3. heap' \in [Entries -> Nat]
    BY DEF PopMin, TypeOK, Entries
  <2>4. TypeOK'
    BY <2>3 DEF TypeOK, Phases
  <2>5. NoOverlap'
    BY DEF NoOverlap, TypeOK
  <2>6. svc = "running" /\ svc' = svc
    BY DEF StopSet
  <2>7. \A i \in active' : Handled(i)'
    BY <2>6 DEF BeforeCancel, Handled, TypeOK
  <2>8. BeforeCancel'
    BY <2>6, <2>7 DEF BeforeCancel, TypeOK
  <2>9. QED
    BY <2>2, <2>4, <2>5, <2>6, <2>8 DEF AfterCancel, Drained, NoLostWakeup, TypeOK
<1>4. QED
  BY <1>1, <1>2, <1>3 DEF Scheduler, Pops

(* The subscriber's steps preserve the invariant: what it pushes, it also   *)
(* notifies.                                                                *)
LEMMA SubscriberIInv ==
  ASSUME IInv,
         \/ SubscriberReceives
         \/ SubscriberFails
         \/ \E instruction \in Instructions : SubscriberLoads(instruction)
  PROVE  IInv'
<1> USE DEF IInv
<1>1. Holding' = Holding /\ sem' = sem
  BY DEF SubscriberReceives, SubscriberFails, SubscriberLoads, handlers, Holding
<1>2. PermitsConserved'
  BY <1>1, PermitsKept
<1>3. CASE SubscriberReceives
  <2>1. channel' \in Seq(Jobs \cup {Unsub})
    BY <1>3 DEF SubscriberReceives, TypeOK
  <2>2. ~StopSet => /\ channel' \in Seq(Jobs)
                    /\ Head(channel) \in Jobs
    BY <1>3 DEF SubscriberReceives, BeforeCancel, StopSet
  <2>3. svc = "unsubscribing" => channel' \in Seq(Jobs)
    BY <1>3 DEF SubscriberReceives, BeforeCancel
  <2>4. TypeOK' /\ (sub' = "resolving" => subJob' \in Jobs)
    BY <1>3, <2>1, <2>2 DEF SubscriberReceives, handlers, TypeOK, StopSet
  <2>5. BeforeCancel'
    BY <1>3, <2>2, <2>3 DEF SubscriberReceives, handlers, BeforeCancel, Handled, StopSet
  <2>6. QED
    BY <1>2, <1>3, <2>4, <2>5 DEF SubscriberReceives, handlers, NoOverlap, AfterCancel,
       Drained, NoLostWakeup, HeapEmpty, InHeap
<1>4. CASE SubscriberFails
  BY <1>2, <1>4 DEF SubscriberFails, handlers, TypeOK, NoOverlap, BeforeCancel, AfterCancel,
     Drained, NoLostWakeup, HeapEmpty, InHeap, Handled, StopSet
<1>5. ASSUME NEW instruction \in Instructions, SubscriberLoads(instruction)
      PROVE  IInv'
  <2> USE <1>5 DEF SubscriberLoads
  <2>1. ASSUME NEW d \in Delays, Push(subJob, d)
        PROVE  heap' \in [Entries -> Nat]
    BY <2>1 DEF Push, TypeOK, Entries
  <2>3. heap' \in [Entries -> Nat]
    BY <2>1 DEF TypeOK
  <2>4. TypeOK'
    BY <2>3 DEF TypeOK, Notify, handlers
  <2>5. sched' = "wait" => heap' = heap /\ sched = "wait"
    BY DEF Notify
  <2>6. NoLostWakeup'
    BY <2>5 DEF NoLostWakeup, HeapEmpty, InHeap
  <2>7. QED
    BY <1>2, <2>4, <2>6 DEF handlers, NoOverlap, BeforeCancel, AfterCancel, Drained,
       Handled, Notify
<1>6. QED
  BY <1>3, <1>4, <1>5

(* Finishing a job frees its slot and its id together.                      *)
LEMMA FinishIInv ==
  ASSUME IInv, NEW s \in Slots, phase[s] \in {"exec", "hook"}, Finish(s),
         PermitsConserved', sem' \in 0..Concurrency,
         UNCHANGED <<wait, sub, subJob, channel, svc>>
  PROVE  IInv'
<1> USE DEF IInv, Finish
<1>1. hjob[s] \in active /\ hjob[s] \in Jobs
  BY DEF TypeOK
<1>2. svc \in {"running", "unsubscribing"}
  BY DEF AfterCancel
<1>3. heap' \in [Entries -> Nat]
  <2>1. <<hjob[s], Interval>> \in Entries
    BY <1>1, ServiceAssumption DEF Entries, Delays
  <2>2. heap' = heap \/ heap' = [heap EXCEPT ![<<hjob[s], Interval>>] = @ + 1]
    BY DEF Push
  <2>3. heap \in [Entries -> Nat]
    BY DEF TypeOK
  <2>4. QED
    BY ONLY <2>1, <2>2, <2>3
<1>4. TypeOK'
  BY <1>3 DEF TypeOK, Phases, Notify
<1>5. \A t \in Slots : phase'[t] # "idle" => hjob'[t] \in active'
  BY <1>1 DEF NoOverlap, TypeOK
<1>6. NoOverlap'
  BY DEF NoOverlap, TypeOK
<1>7. BeforeCancel'
  BY <1>2 DEF BeforeCancel, Handled, TypeOK
<1>8. NoLostWakeup'
  BY <1>2 DEF NoLostWakeup, Notify, HeapEmpty, InHeap
<1>9. QED
  BY <1>2, <1>4, <1>5, <1>6, <1>7, <1>8 DEF AfterCancel, Drained

(* A task that goes on to its next phase keeps its id active.               *)
LEMMA AdvanceIInv ==
  ASSUME IInv, NEW s \in Slots, phase[s] \in {"sleep", "queued", "exec"},
         NEW p \in {"queued", "exec", "hook"}, phase' = [phase EXCEPT ![s] = p],
         PermitsConserved', sem' \in 0..Concurrency,
         UNCHANGED <<heap, active, hjob, wait, sched, sub, subJob, channel, svc>>
  PROVE  IInv'
<1> USE DEF IInv
<1>1. svc \in {"running", "unsubscribing"}
  BY DEF AfterCancel
<1>2. TypeOK'
  BY DEF TypeOK, Phases
<1>3. NoOverlap'
  BY DEF NoOverlap, TypeOK
<1>4. BeforeCancel'
  BY DEF BeforeCancel, Handled, TypeOK
<1>5. NoLostWakeup'
  BY DEF NoLostWakeup, HeapEmpty, InHeap
<1>6. QED
  BY <1>1, <1>2, <1>3, <1>4, <1>5 DEF AfterCancel, Drained, TypeOK

(* Every step of _handle_job preserves the invariant.                       *)
LEMMA HandlerIInv == ASSUME IInv, NEW s \in Slots, Handler(s) PROVE IInv'
<1> USE DEF IInv
<1>1. CASE HandlerWakes(s)
  <2> USE <1>1 DEF HandlerWakes
  <2>1. Holding' = Holding /\ sem' = sem
    BY DEF Holding, TypeOK
  <2>2. PermitsConserved'
    BY <2>1, PermitsKept
  <2>3. QED
    BY <2>2, AdvanceIInv DEF TypeOK, Phases
<1>2. CASE HandlerAcquires(s)
  <2> USE <1>2 DEF HandlerAcquires
  <2>1. s \in Slots \ Holding /\ Holding' = Holding \cup {s}
    BY DEF Holding, TypeOK
  <2>2. PermitsConserved' /\ sem' \in 0..Concurrency
    BY <2>1, PermitsTaken
  <2>3. QED
    BY <2>2, AdvanceIInv DEF TypeOK, Phases
<1>3. ASSUME NEW ok \in BOOLEAN, HandlerExecuted(s, ok)
      PROVE  IInv'
  <2>1. s \in Holding /\ Holding' = Holding \ {s} /\ sem' = sem + 1
    BY <1>3 DEF HandlerExecuted, Finish, Holding, TypeOK
  <2>2. PermitsConserved' /\ sem' \in 0..Concurrency
    BY <2>1, PermitsReleased
  <2>3. CASE ok /\ HookAwaits
    BY <1>3, <2>2, <2>3, AdvanceIInv DEF HandlerExecuted
  <2>4. CASE ~(ok /\ HookAwaits)
    BY <1>3, <2>2, <2>4, FinishIInv DEF HandlerExecuted
  <2>5. QED
    BY <2>3, <2>4
<1>4. CASE HandlerHookDone(s)
  <2>1. Holding' = Holding /\ sem' = sem
    BY <1>4 DEF HandlerHookDone, Finish, Holding, TypeOK
  <2>2. PermitsConserved'
    BY <2>1, PermitsKept
  <2>3. QED
    BY <1>4, <2>1, <2>2, FinishIInv DEF HandlerHookDone, TypeOK
<1>5. CASE HandlerUnwinds(s)
  <2> USE <1>5 DEF HandlerUnwinds
  <2>1. PermitsConserved' /\ sem' \in 0..Concurrency
    <3>1. CASE phase[s] = "unwinding"
      <4>1. s \in Holding /\ Holding' = Holding \ {s} /\ sem' = sem + 1
        BY <3>1 DEF Holding, TypeOK
      <4>2. QED
        BY <4>1, PermitsReleased
    <3>2. CASE phase[s] = "cancelled"
      <4>1. Holding' = Holding /\ sem' = sem
        BY <3>2 DEF Holding, TypeOK
      <4>2. QED
        BY <4>1, PermitsKept DEF TypeOK
    <3>3. QED
      BY <3>1, <3>2
  <2>2. svc \notin {"running", "unsubscribing"}
    BY DEF BeforeCancel
  <2>3. QED
    BY <2>1, <2>2 DEF TypeOK, Phases, NoOverlap, BeforeCancel, AfterCancel, Drained, NoLostWakeup
<1>6. QED
  BY <1>1, <1>2, <1>3, <1>4, <1>5 DEF Handler

(* The four steps of stop() preserve the invariant.                         *)
LEMMA StopIInv ==
  ASSUME IInv, Stop \/ StopCancels \/ StopDrainsJobs \/ StopCompletes
  PROVE  IInv'
<1> USE DEF IInv
<1>1. Holding' = Holding /\ sem' = sem
  BY DEF Stop, StopCancels, StopDrainsJobs, StopCompletes, handlers, Holding, TypeOK,
     BeforeCancel, Phases
<1>2. PermitsConserved'
  BY <1>1, PermitsKept
<1>3. CASE Stop \/ StopDrainsJobs \/ StopCompletes
  <2>1. /\ UNCHANGED <<heap, handlers, sched, sub, subJob, channel>>
        /\ svc' \in {"unsubscribing", "draining", "raised", "stopped"}
        /\ svc' = "unsubscribing" => svc = "running"
        /\ svc' # "unsubscribing" => /\ svc \notin {"running", "unsubscribing"}
                                     /\ \A s \in Slots : phase[s] = "idle"
        /\ svc' \in {"stopped", "raised"} =>
             sched \in {"done", "cancelled"} /\ sub \in {"done", "failed"}
    BY <1>3 DEF Stop, StopDrainsJobs, StopCompletes, Drained
  <2>2. TypeOK' /\ NoOverlap'
    BY <2>1 DEF TypeOK, handlers, NoOverlap
  <2>3. BeforeCancel' /\ AfterCancel' /\ Drained'
    BY <2>1 DEF BeforeCancel, AfterCancel, Drained, handlers, Handled
  <2>4. NoLostWakeup'
    BY <2>1 DEF NoLostWakeup, HeapEmpty, InHeap
  <2>5. QED
    BY <1>2, <2>1, <2>2, <2>3, <2>4 DEF handlers
<1>4. CASE StopCancels
  <2>1. channel' \in Seq(Jobs \cup {Unsub})
    BY <1>4 DEF StopCancels, TypeOK
  <2>2. \A s \in Slots : /\ phase'[s] \in {"idle", "cancelled", "unwinding"}
                         /\ phase'[s] = "idle" <=> phase[s] = "idle"
    BY <1>4 DEF StopCancels
  <2>3. phase' \in [Slots -> Phases]
    BY <1>4 DEF StopCancels, Phases, TypeOK
  <2>4. QED
    BY <1>2, <1>4, <2>1, <2>2, <2>3 DEF StopCancels, TypeOK, NoOverlap, BeforeCancel,
       AfterCancel, Drained, NoLostWakeup, Notify
<1>5. QED
  BY <1>3, <1>4

(* Publishing and the passing of time preserve the invariant: a tick moves  *)
(* entries towards 0 and drops none.                                        *)
LEMMA EnvironmentIInv ==
  ASSUME IInv, Tick \/ \E j \in Jobs : Publish(j)
  PROVE  IInv'
<1> USE DEF IInv
<1>1. Holding' = Holding /\ sem' = sem
  BY DEF Tick, Publish, handlers, Holding
<1>2. PermitsConserved'
  BY <1>1, PermitsKept
<1>3. ASSUME NEW j \in Jobs, Publish(j)
      PROVE  IInv'
  <2>1. channel' \in Seq(Jobs \cup {Unsub}) /\ (channel \in Seq(Jobs) => channel' \in Seq(Jobs))
    BY <1>3 DEF Publish, TypeOK
  <2>2. QED
    BY <1>2, <1>3, <2>1 DEF Publish, handlers, TypeOK, NoOverlap, BeforeCancel, AfterCancel,
       Drained, NoLostWakeup, HeapEmpty, InHeap, Handled
<1>4. CASE Tick
  <2>1. heap' \in [Entries -> Nat] /\ wait' \in [Slots -> Delays]
    BY <1>4, ServiceAssumption DEF Tick, TypeOK, Entries, Delays
  <2>2. HeapEmpty => HeapEmpty'
    <3> SUFFICES ASSUME HeapEmpty, NEW j \in Jobs, NEW d \in Delays
                 PROVE  heap'[<<j, d>>] = 0
      BY DEF HeapEmpty, InHeap
    <3>1. \A c \in Delays : <<j, c>> \in Entries /\ heap[<<j, c>>] = 0
      <4>1. \A c \in Delays : <<j, c>> \in Entries
        BY DEF Entries
      <4>2. \A c \in Delays : heap[<<j, c>>] \in Nat
        BY <4>1 DEF TypeOK
      <4>3. \A c \in Delays : ~(heap[<<j, c>>] > 0)
        BY DEF HeapEmpty, InHeap
      <4>4. QED
        BY ONLY <4>1, <4>2, <4>3
    <3>2. /\ Interval > 0 => 1 \in Delays
          /\ d < Interval => d + 1 \in Delays
      BY ServiceAssumption DEF Delays
    <3>3. QED
      BY <1>4, <3>1, <3>2, ServiceAssumption DEF Tick, Delays
  <2>3. QED
    BY <1>2, <1>4, <2>1, <2>2 DEF Tick, TypeOK, NoOverlap, BeforeCancel, AfterCancel,
       Drained, NoLostWakeup, Handled
<1>5. QED
  BY <1>3, <1>4

(* The invariant is inductive.                                              *)
LEMMA NextIInv == IInv /\ [Next]_vars => IInv'
<1> SUFFICES ASSUME IInv, [Next]_vars PROVE IInv'
  OBVIOUS
<1>1. CASE UNCHANGED vars
  BY <1>1 DEF vars, IInv, TypeOK, NoOverlap, BeforeCancel, AfterCancel, Drained,
     PermitsConserved, Holding, NoLostWakeup, HeapEmpty, InHeap, Handled
<1>2. CASE Next
  BY <1>2, SchedulerIInv, SubscriberIInv, HandlerIInv, StopIInv, EnvironmentIInv DEF Next
<1>3. QED
  BY <1>1, <1>2

(* Every reachable state satisfies the inductive invariant.                 *)
LEMMA Invariance == Spec => []IInv
  BY InitIInv, NextIInv, PTL DEF Spec

-----------------------------------------------------------------------------
(* The state of the scheduler is well typed throughout.                     *)
THEOREM TypeCorrect == Spec => []TypeOK
<1>1. IInv => TypeOK
  BY DEF IInv
<1>2. QED
  BY <1>1, Invariance, PTL

(* _handle_job never runs twice at once for one id, for any number of jobs, *)
(* pub/sub messages and slots.                                              *)
THEOREM JobsDoNotOverlap == Spec => []NoOverlap
<1>1. IInv => NoOverlap
  BY DEF IInv
<1>2. QED
  BY <1>1, Invariance, PTL

(* Until stop() cancels, _active_job_ids is exactly the set of jobs with a  *)
(* live _handle_job task.                                                   *)
THEOREM ActiveIdsExact == Spec => []ActiveExact
<1>1. IInv => ActiveExact
  BY DEF IInv, ActiveExact, BeforeCancel, Handled, TypeOK
<1>2. QED
  BY <1>1, Invariance, PTL

(* _job_semaphore's permits are conserved, cancellation included.           *)
THEOREM PermitsNeverLeak == Spec => []PermitsConserved
<1>1. IInv => PermitsConserved
  BY DEF IInv
<1>2. QED
  BY <1>1, Invariance, PTL

(* _job_scheduler never sleeps on _job_condition beside a loaded job.       *)
THEOREM WakeupsNotLost == Spec => []NoLostWakeup
<1>1. IInv => NoLostWakeup
  BY DEF IInv
<1>2. QED
  BY <1>1, Invariance, PTL

(* Nothing of the service runs once stop() has returned or raised.          *)
THEOREM StoppedIsQuiet == Spec => []StoppedMeansQuiet
<1>1. IInv => StoppedMeansQuiet
  BY DEF IInv, StoppedMeansQuiet, Drained
<1>2. QED
  BY <1>1, Invariance, PTL

-----------------------------------------------------------------------------
(* Pushing an entry takes none out.                                         *)
LEMMA PushKeeps ==
  ASSUME TypeOK, NEW i \in Jobs, NEW d \in Delays, Push(i, d), NEW j \in Jobs
  PROVE  InHeap(i)' /\ (InHeap(j) => InHeap(j)')
<1>1. \A k \in Jobs, c \in Delays : <<k, c>> \in Entries
  BY DEF Entries
<1>2. heap \in [Entries -> Nat] /\ heap' = [heap EXCEPT ![<<i, d>>] = @ + 1]
  BY DEF Push, TypeOK
<1>3. heap'[<<i, d>>] > 0 /\ \A e \in Entries : heap[e] > 0 => heap'[e] > 0
  BY <1>1, <1>2
<1>4. InHeap(j) => InHeap(j)'
  BY <1>1, <1>3 DEF InHeap
<1>5. QED
  BY <1>3, <1>4 DEF InHeap

(* Popping an entry of one job leaves those of the others.                  *)
LEMMA PopKeeps ==
  ASSUME TypeOK, NEW i \in Jobs, NEW d \in Delays, PopMin(i, d), NEW j \in Jobs, i # j
  PROVE  InHeap(j) => InHeap(j)'
<1>1. \A c \in Delays : <<j, c>> \in Entries /\ <<j, c>> # <<i, d>>
  BY DEF Entries
<1>2. \A c \in Delays : heap'[<<j, c>>] = heap[<<j, c>>]
  BY <1>1 DEF PopMin, TypeOK
<1>3. QED
  BY <1>2 DEF InHeap

(* A tick moves an entry to the delay below, or leaves it at 0.             *)
LEMMA TickKeeps ==
  ASSUME TypeOK, Tick, NEW j \in Jobs, InHeap(j)
  PROVE  InHeap(j)'
<1>1. PICK d \in Delays : heap[<<j, d>>] > 0
  BY DEF InHeap
<1>2. \A c \in Delays : <<j, c>> \in Entries /\ heap[<<j, c>>] \in Nat
  BY DEF TypeOK, Entries
<1>3. /\ 0 \in Delays
      /\ Interval > 0 => 1 \in Delays
      /\ d > 0 => d - 1 \in Delays /\ d - 1 < Interval
  BY ServiceAssumption DEF Delays
<1>4. CASE d = 0
  <2>1. heap'[<<j, 0>>] > 0
    BY <1>1, <1>2, <1>3, <1>4, ServiceAssumption DEF Tick
  <2>2. QED
    BY <1>3, <2>1 DEF InHeap
<1>5. CASE d > 0
  <2>1. heap'[<<j, d - 1>>] > 0
    BY <1>1, <1>2, <1>3, <1>5, ServiceAssumption DEF Tick, Delays
  <2>2. QED
    BY <1>3, <1>5, <2>1 DEF InHeap
<1>6. QED
  BY <1>4, <1>5 DEF Delays

(* One step never loses a recurring job.                                    *)
LEMMA StepKeepsJobs ==
  ASSUME IInv, [Next]_vars, ShouldReschedule, NEW j \in Jobs, Scheduled(j)
  PROVE  Scheduled(j)'
<1> USE DEF Scheduled
<1>1. CASE UNCHANGED <<heap, active>>
  BY <1>1 DEF InHeap
<1>2. ASSUME NEW i \in Jobs, NEW d \in Delays,
             SchedulerSkips(i, d) \/ \E s \in Slots : SchedulerSpawns(i, d, s)
      PROVE  Scheduled(j)'
  BY <1>2, PopKeeps DEF IInv, SchedulerSkips, SchedulerSpawns, handlers
<1>3. ASSUME NEW instruction \in Instructions, SubscriberLoads(instruction)
      PROVE  Scheduled(j)'
  BY <1>1, <1>3, PushKeeps DEF IInv, SubscriberLoads, handlers
<1>4. ASSUME NEW s \in Slots, phase[s] \in {"exec", "hook"}, Finish(s)
      PROVE  Scheduled(j)'
  <2>1. hjob[s] \in Jobs /\ Interval \in Delays
    BY <1>4, ServiceAssumption DEF IInv, TypeOK, Delays
  <2>2. QED
    BY <1>4, <2>1, PushKeeps DEF IInv, Finish
<1>5. CASE Tick
  BY <1>5, TickKeeps DEF IInv, Tick
<1>6. ASSUME NEW s \in Slots, Handler(s)
      PROVE  Scheduled(j)'
  BY <1>1, <1>4, <1>6 DEF Handler, HandlerWakes, HandlerAcquires, HandlerExecuted,
     HandlerHookDone, HandlerUnwinds
<1>7. CASE \/ SchedulerStops \/ SchedulerWaits \/ SubscriberReceives \/ SubscriberFails
           \/ Stop \/ StopCancels \/ StopDrainsJobs \/ StopCompletes
           \/ \E i \in Jobs : Publish(i)
           \/ UNCHANGED vars
  BY <1>1, <1>7 DEF SchedulerStops, SchedulerWaits, SubscriberReceives, SubscriberFails,
     Stop, StopCancels, StopDrainsJobs, StopCompletes, Publish, handlers, vars
<1>8. QED
  BY <1>2, <1>3, <1>5, <1>6, <1>7 DEF Next, Scheduler, Pops

(* A recurring job that was once loaded is in the heap or in hand in every  *)
(* later state of the running service.                                      *)
THEOREM RecurringJobsKept == Spec => RecurringNeverLost
<1>1. IInv /\ [Next]_vars =>
        [ShouldReschedule /\ svc' = "running"
           => \A j \in Jobs : Scheduled(j) => Scheduled(j)']_vars
  BY StepKeepsJobs
<1>2. QED
  BY <1>1, Invariance, PTL DEF Spec, RecurringNeverLost

=============================================================================

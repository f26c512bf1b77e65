------------------------ MODULE RequestPipelineProofs ------------------------
(* What RequestPipeline guarantees for any number of clients, requests,     *)
(* pending messages and attempts, whatever faults are allowed.              *)
EXTENDS RequestPipeline, TLAPS

(* MaxRequests is never exceeded: a row is deleted only while an id is left. *)
Bounded ==
  /\ row = None => nextId \in Ids
  /\ del.pc # "idle" => row # None /\ nextId \in Ids
  /\ h.pc = "backoff" => h.tries < MaxAttempts
  /\ \A i \in Ids : v[i].pc = "backoff" => v[i].tries < MaxAttempts

(* Whatever names a request names one that was created.                     *)
Created(i) == i \in Ids /\ i < nextId
NamesCreated ==
  /\ row # None => Created(row.id)
  /\ h.pc \in {"dispatch", "announce"} => Created(h.id)
  /\ \A i \in Ids : vmsgs[i] > 0 \/ v[i].pc # "idle" => Created(i)

(* What a job has come to know on its way: the author, the verdict.         *)
JobsKnow ==
  /\ h.pc \in {"archive", "add"} => h.by \in Posters
  /\ \A i \in Ids : v[i].pc = "reject" => i \in decided
  /\ \A i \in Ids :
       v[i].pc = "complete" /\ lost = {} /\ row # None /\ row.id = i => i \in decided

(* The inductive invariant.                                                 *)
IInv ==
  /\ TypeOK
  /\ Bounded
  /\ NamesCreated
  /\ JobsKnow
  /\ OpenIsServed
  /\ UndecidedIsServed

-----------------------------------------------------------------------------
(* Writing a field keeps a task a task, and one that is completed or failed  *)
(* is not open.                                                             *)
LEMMA TaskWrites ==
  /\ \A p \in Posters \cup {None} : Fresh(p) \in Tasks
  /\ \A t \in Tasks \cup {None} :
       /\ Failed(t) \in Tasks /\ Failed(t).failed /\ ~Open(Failed(t))
       /\ Completed(t) \in Tasks /\ ~Open(Completed(t))
  /\ \A t \in Tasks \cup {None} : Readable(t) => t \in Tasks /\ t.by \in Posters
<1>1. \A p \in Posters \cup {None} : Fresh(p) \in Tasks
  BY DEF Fresh, Tasks
<1>2. ASSUME NEW t \in Tasks \cup {None}
      PROVE  Failed(t) \in Tasks /\ Failed(t).failed /\ ~Open(Failed(t))
  BY DEF Failed, Open, Readable, Tasks
<1>3. ASSUME NEW t \in Tasks \cup {None}
      PROVE  Completed(t) \in Tasks /\ ~Open(Completed(t))
  BY DEF Completed, Open, Readable, Tasks
<1>4. ASSUME NEW t \in Tasks \cup {None}, Readable(t)
      PROVE  t \in Tasks /\ t.by \in Posters
  BY <1>4 DEF Readable, Tasks
<1>5. QED
  BY <1>1, <1>2, <1>3, <1>4

(* A job stays a job wherever it goes.                                      *)
LEMMA JobWrites ==
  /\ NoJob \in Job
  /\ \A j \in Job, s \in JobSteps :
       /\ [j EXCEPT !.pc = s] \in Job
       /\ \A u \in Posters \cup {None} : [j EXCEPT !.pc = s, !.by = u] \in Job
       /\ \A i \in Ids \cup {0} : [j EXCEPT !.pc = s, !.id = i] \in Job
       /\ \A n \in 0..MaxAttempts : [j EXCEPT !.pc = s, !.tries = n] \in Job
<1>1. NoJob \in Job
  BY PipelineAssumption DEF NoJob, Job, JobSteps
<1>2. ASSUME NEW j \in Job, NEW s \in JobSteps
      PROVE  /\ [j EXCEPT !.pc = s] \in Job
             /\ \A u \in Posters \cup {None} : [j EXCEPT !.pc = s, !.by = u] \in Job
             /\ \A i \in Ids \cup {0} : [j EXCEPT !.pc = s, !.id = i] \in Job
             /\ \A n \in 0..MaxAttempts : [j EXCEPT !.pc = s, !.tries = n] \in Job
  BY DEF Job
<1>3. QED
  BY <1>1, <1>2

(* Nothing stored and nothing under way satisfies the invariant.            *)
LEMMA InitIInv == Init => IInv
<1> SUFFICES ASSUME Init PROVE IInv
  OBVIOUS
<1> USE PipelineAssumption DEF Init
<1>1. TypeOK
  BY DEF TypeOK, PostSteps, Job, JobSteps, NoJob, Ids
<1>2. Bounded /\ NamesCreated /\ JobsKnow
  BY DEF Bounded, NamesCreated, JobsKnow, Ids, NoJob
<1>3. OpenIsServed /\ UndecidedIsServed
  BY DEF OpenIsServed, UndecidedIsServed, Open, Readable, Ids
<1>4. QED
  BY <1>1, <1>2, <1>3 DEF IInv

(* A POST moves only itself and the task, and may publish it.               *)
LEMMA PostKeeps ==
  ASSUME IInv, NEW p \in Posters, Post(p)
  PROVE  IInv'
<1> USE PipelineAssumption DEF Post, PostChecks, PostLooksForTask, PostReadsTask, PostPurgesTask,
        PostRefused, PostStores, PostPublishes, PostPublishFails, Goto, handling, validating
<1> TypeOK
  BY DEF IInv
<1>1. TypeOK'
  <2>1. post' \in [Posters -> PostSteps]
    BY DEF TypeOK, PostSteps
  <2>2. task' \in Tasks \cup {None}
    BY TaskWrites DEF TypeOK
  <2>3. msgs' \in 0..MaxMessages
    BY DEF TypeOK
  <2>4. lost' \subseteq {"crash", "publish_error", "fetch_error", "job_error"}
    BY DEF TypeOK
  <2>5. UNCHANGED <<row, nextId, h, vtask, vmsgs, v, del, decided>>
    OBVIOUS
  <2>6. QED
    BY <2>1, <2>2, <2>3, <2>4, <2>5 DEF TypeOK
<1>2. Bounded' /\ NamesCreated' /\ JobsKnow'
  BY DEF IInv, TypeOK, Bounded, NamesCreated, Created, JobsKnow
<1>3. OpenIsServed'
  BY DEF IInv, TypeOK, OpenIsServed, Open, Readable
<1>4. UndecidedIsServed'
  BY DEF IInv, UndecidedIsServed
<1>5. QED
  BY <1>1, <1>2, <1>3, <1>4 DEF IInv

(* The handler pops an id: its job starts, unless one is under way.         *)
LEMMA HandlerPopsKeeps == IInv /\ HandlerPops => IInv'
<1> SUFFICES ASSUME IInv, HandlerPops PROVE IInv'
  OBVIOUS
<1> USE PipelineAssumption DEF HandlerPops, validating
<1> TypeOK
  BY DEF IInv
<1>1. TypeOK'
  <2>1. 1 \in 0..MaxAttempts /\ "read" \in JobSteps /\ h \in Job
    BY DEF TypeOK, JobSteps
  <2>2. h' \in Job
    BY <2>1, JobWrites
  <2>3. QED
    BY <2>2 DEF TypeOK
<1>2. Bounded' /\ NamesCreated' /\ JobsKnow'
  BY DEF IInv, TypeOK, Job, NoJob, Bounded, NamesCreated, Created, JobsKnow
<1>3. OpenIsServed' /\ UndecidedIsServed'
  BY DEF IInv, TypeOK, Job, NoJob, OpenIsServed, Open, Readable, UndecidedIsServed
<1>4. QED
  BY <1>1, <1>2, <1>3 DEF IInv

(* A step of the handler's job.                                             *)
LEMMA HandlerKeeps == IInv /\ Handler => IInv'
<1> SUFFICES ASSUME IInv, Handler PROVE IInv'
  OBVIOUS
<1> USE PipelineAssumption, NoneAssumption DEF HandlerGoes, handling, validating
<1>T. TypeOK /\ Ids \subseteq Nat /\ 0 \notin Ids
  BY DEF IInv, Ids
<1>1. CASE HandlerReads
  <2>0. \/ h' = [h EXCEPT !.pc = "fail"]
        \/ \E u \in Posters : h' = [h EXCEPT !.pc = "archive", !.by = u]
    <3>1. Readable(task) => task.by \in Posters
      BY <1>T, TaskWrites DEF TypeOK
    <3>2. QED
      BY <1>1, <3>1 DEF HandlerReads
  <2>1. h' \in Job /\ h'.pc \in {"fail", "archive"} /\ (h'.pc = "archive" => h'.by \in Posters)
    <3>1. h \in Job
      BY <1>T DEF TypeOK
    <3>2. CASE h' = [h EXCEPT !.pc = "fail"]
      BY <3>1, <3>2 DEF Job, JobSteps
    <3>3. CASE \E u \in Posters : h' = [h EXCEPT !.pc = "archive", !.by = u]
      BY <3>1, <3>3 DEF Job, JobSteps
    <3>4. QED
      BY <2>0, <3>2, <3>3
  <2>2. TypeOK' /\ Bounded' /\ NamesCreated' /\ JobsKnow'
    BY <1>T, <1>1, <2>1 DEF HandlerReads, IInv, TypeOK, Bounded, NamesCreated, Created, JobsKnow
  <2>3. OpenIsServed' /\ UndecidedIsServed'
    BY <1>T, <1>1, <2>1 DEF HandlerReads, IInv, TypeOK, OpenIsServed, Open, Readable, UndecidedIsServed
  <2>4. QED
    BY <2>2, <2>3 DEF IInv
<1>2. CASE HandlerArchives
  <2>1. TypeOK'
    BY <1>T, <1>2 DEF HandlerArchives, TypeOK, Job, JobSteps
  <2>2. Bounded' /\ NamesCreated' /\ JobsKnow'
    BY <1>T, <1>2 DEF HandlerArchives, IInv, TypeOK, Job, Bounded, NamesCreated, Created, JobsKnow
  <2>3. OpenIsServed' /\ UndecidedIsServed'
    BY <1>T, <1>2 DEF HandlerArchives, IInv, TypeOK, Job, OpenIsServed, Open, Readable, UndecidedIsServed
  <2>4. QED
    BY <2>1, <2>2, <2>3 DEF IInv
<1>3. CASE HandlerErrs
  <2>1. TypeOK'
    BY <1>T, <1>3 DEF HandlerErrs, TypeOK, Job, JobSteps
  <2>2. Bounded' /\ NamesCreated' /\ JobsKnow'
    BY <1>T, <1>3 DEF HandlerErrs, IInv, TypeOK, Job, Bounded, NamesCreated, Created, JobsKnow
  <2>3. OpenIsServed' /\ UndecidedIsServed'
    BY <1>T, <1>3 DEF HandlerErrs, IInv, TypeOK, Job, OpenIsServed, Open, Readable, UndecidedIsServed
  <2>4. QED
    BY <2>1, <2>2, <2>3 DEF IInv
<1>4. CASE HandlerAdds
  <2> USE DEF HandlerAdds
  <2>1. row' # None /\ row' \in Requests /\ row'.id \in Ids
    BY <1>T, <1>4 DEF IInv, TypeOK, Bounded, JobsKnow, Statuses, Requests
  <2>2. nextId' \in 1..(MaxRequests + 1) /\ row'.id < nextId'
    BY <1>T, <1>4 DEF IInv, TypeOK, Bounded, NamesCreated, Created, Ids
  <2>3. TypeOK'
    BY <1>T, <1>4, <2>1, <2>2 DEF TypeOK, Job, JobSteps
  <2>4. Bounded' /\ NamesCreated'
    BY <1>T, <1>4, <2>1, <2>2 DEF IInv, TypeOK, Job, Bounded, NamesCreated, Created
  <2>5. JobsKnow'
    BY <1>T, <1>4, <2>1, <2>2 DEF IInv, TypeOK, Job, NamesCreated, Created, JobsKnow
  <2>6. OpenIsServed' /\ UndecidedIsServed'
    BY <1>T, <1>4, <2>1 DEF IInv, TypeOK, Job, OpenIsServed, Open, Readable, UndecidedIsServed
  <2>7. QED
    BY <2>3, <2>4, <2>5, <2>6 DEF IInv
<1>5. CASE HandlerDispatches
  <2> USE DEF HandlerDispatches
  <2>1. TypeOK'
    BY <1>T, <1>5 DEF TypeOK, Job, JobSteps, Tasks, Fresh
  <2>2. Bounded' /\ NamesCreated' /\ JobsKnow'
    BY <1>T, <1>5 DEF IInv, TypeOK, Job, Bounded, NamesCreated, Created, JobsKnow
  <2>3. OpenIsServed'
    BY <1>T, <1>5 DEF IInv, TypeOK, Job, OpenIsServed, Open, Readable
  <2>4. UndecidedIsServed'
    BY <1>T, <1>5 DEF IInv, TypeOK, Job, UndecidedIsServed, NamesCreated, Created
  <2>5. QED
    BY <2>1, <2>2, <2>3, <2>4 DEF IInv
<1>6. CASE HandlerAnnounces
  <2> USE DEF HandlerAnnounces
  <2>1. TypeOK'
    <3>1. h' \in Job
      <4>1. "complete" \in JobSteps /\ h \in Job
        BY <1>T DEF TypeOK, JobSteps
      <4>2. QED
        BY <1>6, <4>1, JobWrites
    <3>2. vmsgs' \in [Ids -> 0..MaxMessages]
      BY <1>T, <1>6 DEF IInv, TypeOK, NamesCreated, Created
    <3>3. QED
      BY <1>T, <1>6, <3>1, <3>2 DEF TypeOK
  <2>2. Bounded' /\ NamesCreated' /\ JobsKnow'
    BY <1>T, <1>6 DEF IInv, TypeOK, Job, Bounded, NamesCreated, Created, JobsKnow
  <2>3. OpenIsServed'
    BY <1>T, <1>6 DEF IInv, TypeOK, Job, OpenIsServed, Open, Readable
  <2>4. UndecidedIsServed'
    BY <1>T, <1>6 DEF IInv, TypeOK, Job, UndecidedIsServed, NamesCreated, Created
  <2>5. QED
    BY <2>1, <2>2, <2>3, <2>4 DEF IInv
<1>7. CASE HandlerPublishFails
  <2> USE DEF HandlerPublishFails
  <2>1. TypeOK'
    BY <1>T, <1>7 DEF TypeOK, Job, JobSteps
  <2>2. Bounded' /\ NamesCreated' /\ JobsKnow'
    BY <1>T, <1>7 DEF IInv, TypeOK, Job, Bounded, NamesCreated, Created, JobsKnow
  <2>3. OpenIsServed' /\ UndecidedIsServed'
    BY <1>T, <1>7 DEF IInv, TypeOK, Job, OpenIsServed, UndecidedIsServed
  <2>4. QED
    BY <2>1, <2>2, <2>3 DEF IInv
<1>8. CASE HandlerCompletes
  <2> USE DEF HandlerCompletes
  <2>1. TypeOK'
    BY <1>T, <1>8, TaskWrites, JobWrites DEF TypeOK
  <2>2. Bounded' /\ NamesCreated' /\ JobsKnow'
    BY <1>T, <1>8 DEF IInv, TypeOK, Job, NoJob, Bounded, NamesCreated, Created, JobsKnow
  <2>3. ~Open(task')
    BY <1>T, <1>8, TaskWrites DEF TypeOK
  <2>4. OpenIsServed'
    BY <1>T, <1>8, <2>3 DEF IInv, TypeOK, OpenIsServed, Open, Readable
  <2>5. UndecidedIsServed'
    BY <1>T, <1>8 DEF IInv, TypeOK, UndecidedIsServed
  <2>6. QED
    BY <2>1, <2>2, <2>4, <2>5 DEF IInv
<1>9. CASE HandlerFails
  <2> USE DEF HandlerFails
  <2>1. TypeOK'
    <3>1. h' \in Job
      <4>1. "backoff" \in JobSteps /\ h \in Job
        BY <1>T DEF TypeOK, JobSteps
      <4>2. QED
        BY <1>9, <4>1, JobWrites
    <3>2. QED
      BY <1>T, <1>9, <3>1, TaskWrites DEF TypeOK
  <2>2. Bounded' /\ NamesCreated' /\ JobsKnow'
    BY <1>T, <1>9 DEF IInv, TypeOK, Job, NoJob, Bounded, NamesCreated, Created, JobsKnow
  <2>3. ~Open(task')
    BY <1>T, <1>9, TaskWrites DEF TypeOK
  <2>4. OpenIsServed'
    BY <1>T, <1>9, <2>3 DEF IInv, TypeOK, OpenIsServed, Open, Readable
  <2>5. UndecidedIsServed'
    BY <1>T, <1>9 DEF IInv, TypeOK, UndecidedIsServed
  <2>6. QED
    BY <2>1, <2>2, <2>4, <2>5 DEF IInv
<1>10. CASE HandlerRetries
  <2> USE DEF HandlerRetries
  <2>1. TypeOK'
    <3>1. h.tries + 1 \in 0..MaxAttempts
      BY <1>T, <1>10 DEF IInv, TypeOK, Bounded, Job
    <3>2. h' \in Job
      BY <1>T, <1>10, <3>1, JobWrites DEF TypeOK, JobSteps
    <3>3. QED
      BY <1>T, <1>10, <3>2 DEF TypeOK
  <2>2. Bounded' /\ NamesCreated' /\ JobsKnow'
    BY <1>T, <1>10 DEF IInv, TypeOK, Job, Bounded, NamesCreated, Created, JobsKnow
  <2>3. OpenIsServed' /\ UndecidedIsServed'
    BY <1>T, <1>10 DEF IInv, TypeOK, Job, OpenIsServed, Open, Readable, UndecidedIsServed
  <2>4. QED
    BY <2>1, <2>2, <2>3 DEF IInv
<1>11. QED
  BY <1>1, <1>2, <1>3, <1>4, <1>5, <1>6, <1>7, <1>8, <1>9, <1>10 DEF Handler

(* A validation moves alone.                                                *)
LEMMA ValidatorMoves ==
  ASSUME TypeOK, NEW i \in Ids, NEW s \in JobSteps, ValidatorGoes(i, s)
  PROVE  /\ v' \in [Ids -> Job]
         /\ v'[i].pc = s /\ v'[i].tries = v[i].tries
         /\ \A j \in Ids \ {i} : v'[j] = v[j]
BY DEF ValidatorGoes, TypeOK, Job

(* The validator pops an id: the validation starts, unless it is under way. *)
LEMMA ValidatorPopsKeeps ==
  ASSUME IInv, NEW i \in Ids, ValidatorPops(i)
  PROVE  IInv'
<1> USE PipelineAssumption DEF ValidatorPops, handling
<1>T. TypeOK /\ (row # None => row.id \in Ids)
  BY DEF IInv, TypeOK, Requests
<1>1. /\ v' \in [Ids -> Job]
      /\ v'[i].pc # "idle" /\ (v'[i].pc # "read" => v'[i] = v[i])
      /\ \A j \in Ids \ {i} : v'[j] = v[j]
  <2>1. CASE v[i].pc = "idle"
    <3> DEFINE j == [v[i] EXCEPT !.pc = "read", !.tries = 1]
    <3>1. v[i] \in Job /\ "read" \in JobSteps /\ 1 \in 0..MaxAttempts
      BY <1>T DEF TypeOK, JobSteps
    <3>2. j \in Job /\ j.pc = "read"
      BY <3>1 DEF Job
    <3>3. v' = [v EXCEPT ![i] = j]
      BY <1>T, <2>1 DEF TypeOK
    <3>4. QED
      BY <1>T, <3>2, <3>3 DEF TypeOK
  <2>2. QED
    BY <1>T, <2>1 DEF TypeOK
<1>2. /\ vmsgs' \in [Ids -> 0..MaxMessages]
      /\ \A j \in Ids \ {i} : vmsgs'[j] = vmsgs[j]
  BY <1>T DEF TypeOK
<1>3. TypeOK'
  BY <1>T, <1>1, <1>2 DEF TypeOK
<1>4. Bounded' /\ NamesCreated' /\ JobsKnow'
  BY <1>T, <1>1, <1>2 DEF IInv, TypeOK, Bounded, NamesCreated, Created, JobsKnow
<1>5. OpenIsServed'
  BY <1>T, <1>1, <1>2 DEF IInv, TypeOK, OpenIsServed
<1>5a. UndecidedIsServed'
  BY <1>T, <1>1, <1>2 DEF IInv, UndecidedIsServed
<1>6. QED
  BY <1>3, <1>4, <1>5, <1>5a DEF IInv

(* A step of the validation of request i.                                   *)
LEMMA ValidatorKeeps ==
  ASSUME IInv, NEW i \in Ids, Validator(i)
  PROVE  IInv'
<1> USE PipelineAssumption, NoneAssumption DEF handling
<1>T. TypeOK /\ (row # None => row.id \in Ids)
  BY DEF IInv, TypeOK, Requests
<1>S. {"load", "fail", "fetch", "complete", "run", "reject", "timeout"} \subseteq JobSteps
  BY DEF JobSteps
<1>1. ASSUME \/ ValidatorReads(i) \/ ValidatorErrs(i) \/ ValidatorFetches(i)
      PROVE  IInv'
  <2> USE <1>1 DEF ValidatorReads, ValidatorErrs, ValidatorFetches
  <2>1. /\ v' \in [Ids -> Job]
        /\ v'[i].pc \in {"load", "fail", "run"} \/ (v'[i].pc = "complete" /\ lost' # {})
        /\ \A j \in Ids \ {i} : v'[j] = v[j]
    BY <1>T, <1>S, ValidatorMoves
  <2>2. TypeOK'
    BY <1>T, <2>1 DEF TypeOK
  <2>3. Bounded' /\ NamesCreated' /\ JobsKnow'
    BY <1>T, <2>1 DEF IInv, TypeOK, Bounded, NamesCreated, Created, JobsKnow
  <2>4. OpenIsServed'
    BY <1>T, <2>1 DEF IInv, TypeOK, OpenIsServed
  <2>4a. UndecidedIsServed'
    BY <1>T, <2>1 DEF IInv, UndecidedIsServed
  <2>5. QED
    BY <2>2, <2>3, <2>4, <2>4a DEF IInv
<1>2. ASSUME ValidatorLoads(i) \/ ValidatorRuns(i)
      PROVE  IInv'
  <2> USE <1>2 DEF ValidatorLoads, ValidatorRuns
  <2>1. /\ v' \in [Ids -> Job]
        /\ v'[i].pc \in {"fetch", "timeout", "complete", "reject"}
        /\ v'[i].pc = "reject" => i \in decided'
        /\ v'[i].pc = "complete" /\ row # None /\ row.id = i => i \in decided'
        /\ \A j \in Ids \ {i} : v'[j] = v[j]
    BY <1>T, <1>S, ValidatorMoves
  <2>2. decided \subseteq decided' /\ decided' \subseteq Ids
    BY <1>T DEF TypeOK
  <2>3. TypeOK'
    BY <1>T, <2>1, <2>2 DEF TypeOK
  <2>4. Bounded' /\ NamesCreated' /\ JobsKnow'
    BY <1>T, <2>1, <2>2 DEF IInv, TypeOK, Bounded, NamesCreated, Created, JobsKnow
  <2>5. OpenIsServed'
    BY <1>T, <2>1, <2>2 DEF IInv, TypeOK, OpenIsServed
  <2>5a. UndecidedIsServed'
    BY <1>T, <2>1, <2>2 DEF IInv, UndecidedIsServed
  <2>6. QED
    BY <2>3, <2>4, <2>5, <2>5a DEF IInv
<1>3. CASE ValidatorRejects(i)
  <2> USE <1>3 DEF ValidatorRejects
  <2>1. /\ v' \in [Ids -> Job]
        /\ v'[i].pc \in {"complete", "fail"}
        /\ \A j \in Ids \ {i} : v'[j] = v[j]
    BY <1>T, <1>S, ValidatorMoves
  <2>2. /\ row' \in Requests \cup {None}
        /\ row' = None <=> row = None
        /\ row # None => row'.id = row.id
    BY <1>T DEF TypeOK, Requests, Statuses
  <2>3. i \in decided
    BY DEF IInv, JobsKnow
  <2>4. TypeOK'
    BY <1>T, <2>1, <2>2 DEF TypeOK
  <2>5. Bounded' /\ NamesCreated' /\ JobsKnow'
    BY <1>T, <2>1, <2>2, <2>3 DEF IInv, TypeOK, Bounded, NamesCreated, Created, JobsKnow
  <2>6. OpenIsServed'
    BY <1>T, <2>1, <2>2, <2>3 DEF IInv, TypeOK, OpenIsServed
  <2>6a. UndecidedIsServed'
    BY <1>T, <2>1, <2>2, <2>3 DEF IInv, UndecidedIsServed
  <2>7. QED
    BY <2>4, <2>5, <2>6, <2>6a DEF IInv
<1>4. CASE ValidatorCompletes(i)
  <2> USE <1>4 DEF ValidatorCompletes
  <2>1. v' \in [Ids -> Job] /\ v'[i] = NoJob /\ \A j \in Ids \ {i} : v'[j] = v[j]
    BY <1>T, JobWrites DEF TypeOK
  <2>2. /\ vtask' \in [Ids -> Tasks \cup {None}] /\ ~Open(vtask'[i])
        /\ \A j \in Ids \ {i} : vtask'[j] = vtask[j]
    BY <1>T, TaskWrites DEF TypeOK
  <2>3. TypeOK'
    BY <1>T, <2>1, <2>2 DEF TypeOK
  <2>4. Bounded' /\ NamesCreated' /\ JobsKnow'
    BY <1>T, <2>1 DEF IInv, TypeOK, NoJob, Bounded, NamesCreated, Created, JobsKnow
  <2>5. OpenIsServed'
    BY <1>T, <2>1, <2>2 DEF IInv, TypeOK, OpenIsServed
  <2>6. UndecidedIsServed'
    BY <1>T, <2>1, <2>2 DEF IInv, TypeOK, JobsKnow, UndecidedIsServed
  <2>7. QED
    BY <2>3, <2>4, <2>5, <2>6 DEF IInv
<1>5. CASE ValidatorFails(i)
  <2> USE <1>5 DEF ValidatorFails
  <2>1. /\ v' \in [Ids -> Job] /\ \A j \in Ids \ {i} : v'[j] = v[j]
        /\ v'[i].pc = "idle" \/ (v'[i].pc = "backoff" /\ v'[i].tries < MaxAttempts)
    BY <1>T DEF TypeOK, Job, JobSteps, NoJob
  <2>2. /\ vtask' \in [Ids -> Tasks \cup {None}]
        /\ ~Open(vtask'[i]) /\ vtask'[i] # None /\ vtask'[i].failed
        /\ \A j \in Ids \ {i} : vtask'[j] = vtask[j]
    BY <1>T, TaskWrites DEF TypeOK
  <2>3. TypeOK'
    BY <1>T, <2>1, <2>2 DEF TypeOK
  <2>4. Bounded' /\ NamesCreated' /\ JobsKnow'
    BY <1>T, <2>1 DEF IInv, TypeOK, Bounded, NamesCreated, Created, JobsKnow
  <2>5. OpenIsServed'
    BY <1>T, <2>1, <2>2 DEF IInv, TypeOK, OpenIsServed
  <2>5a. UndecidedIsServed'
    BY <1>T, <2>1, <2>2 DEF IInv, UndecidedIsServed
  <2>6. QED
    BY <2>3, <2>4, <2>5, <2>5a DEF IInv
<1>6. CASE ValidatorRetries(i)
  <2> USE <1>6 DEF ValidatorRetries
  <2>1. v' \in [Ids -> Job] /\ v'[i].pc = "read" /\ \A j \in Ids \ {i} : v'[j] = v[j]
    BY <1>T DEF IInv, Bounded, TypeOK, Job, JobSteps
  <2>2. TypeOK' /\ Bounded' /\ NamesCreated' /\ JobsKnow'
    BY <1>T, <2>1 DEF IInv, TypeOK, Bounded, NamesCreated, Created, JobsKnow
  <2>3. OpenIsServed'
    BY <1>T, <2>1 DEF IInv, TypeOK, OpenIsServed
  <2>3a. UndecidedIsServed'
    BY <1>T, <2>1 DEF IInv, UndecidedIsServed
  <2>4. QED
    BY <2>2, <2>3, <2>3a DEF IInv
<1>7. QED
  BY <1>1, <1>2, <1>3, <1>4, <1>5, <1>6 DEF Validator

(* A PATCH changes the status and nothing else.                             *)
LEMMA PatchKeeps ==
  ASSUME IInv, NEW s \in Statuses, Patch(s)
  PROVE  IInv'
<1> USE DEF Patch, handling, validating
<1>1. /\ row' \in Requests /\ row' # None /\ row'.id = row.id
      /\ row # None
  BY NoneAssumption DEF IInv, TypeOK, Requests
<1>2. TypeOK'
  BY <1>1 DEF IInv, TypeOK
<1>3. Bounded' /\ NamesCreated' /\ JobsKnow'
  BY <1>1 DEF IInv, Bounded, NamesCreated, Created, JobsKnow
<1>4. OpenIsServed' /\ UndecidedIsServed'
  BY <1>1 DEF IInv, OpenIsServed, UndecidedIsServed
<1>5. QED
  BY <1>2, <1>3, <1>4 DEF IInv

(* A DELETE removes the tasks before the row, and only rows that were       *)
(* followed by a free id.                                                   *)
LEMMA DeleteKeeps == IInv /\ Delete => IInv'
<1> SUFFICES ASSUME IInv, Delete PROVE IInv'
  OBVIOUS
<1> USE DEF DeleteReads, DeleteTask, DeleteValidationTask, DeleteRow, handling, validating
<1>T. TypeOK /\ (row # None => row.id \in Ids)
  BY DEF IInv, TypeOK, Requests
<1>1. /\ del' \in [pc: {"idle", "found", "task", "vtask"}, id: Ids \cup {0}]
      /\ task' \in {task, None}
      /\ row' \in {row, None}
      /\ row' = None => nextId \in Ids
      /\ del'.pc # "idle" => row' = row /\ row # None /\ nextId \in Ids
      /\ row' # None => row' = row /\ (del.id = row.id => del'.id = row.id)
  BY <1>T DEF Delete, IInv, TypeOK, Bounded
<1>2. /\ vtask' \in [Ids -> Tasks \cup {None}]
      /\ \A i \in Ids : vtask'[i] # None => vtask'[i] = vtask[i]
      /\ \A i \in Ids : vtask'[i] = vtask[i] \/ (del.id = i /\ del'.id = i)
  BY <1>T DEF Delete, TypeOK
<1>3. TypeOK'
  BY <1>T, <1>1, <1>2 DEF Delete, TypeOK
<1>4. Bounded' /\ NamesCreated' /\ JobsKnow'
  BY <1>T, <1>1 DEF Delete, IInv, TypeOK, Bounded, NamesCreated, Created, JobsKnow
<1>5. OpenIsServed'
  <2>1. /\ Open(task') => Open(task)
        /\ \A i \in Ids : Open(vtask'[i]) => Open(vtask[i])
    BY <1>1, <1>2 DEF Open, Readable
  <2>2. QED
    BY <1>T, <2>1 DEF Delete, IInv, OpenIsServed
<1>6. UndecidedIsServed'
  BY <1>T, <1>1, <1>2 DEF Delete, IInv, UndecidedIsServed
<1>7. QED
  BY <1>3, <1>4, <1>5, <1>6 DEF IInv

(* What a restart leaves is not open, and it loses what was under way.      *)
LEMMA CrashKeeps == IInv /\ CrashAndRestart => IInv'
<1> SUFFICES ASSUME IInv, CrashAndRestart PROVE IInv'
  OBVIOUS
<1> USE PipelineAssumption DEF CrashAndRestart
<1>1. task' \in Tasks \cup {None} /\ ~Open(task')
  <2>1. task \in Tasks \cup {None}
    BY DEF IInv, TypeOK
  <2>2. QED
    BY <2>1 DEF Kept, Open, Readable
<1>2. TypeOK'
  <2>1. post' \in [Posters -> PostSteps]
    BY DEF PostSteps
  <2>2. h' \in Job /\ v' \in [Ids -> Job]
    BY JobWrites
  <2>3. vmsgs' \in [Ids -> 0..MaxMessages] /\ vtask' \in [Ids -> Tasks \cup {None}]
    OBVIOUS
  <2>4. QED
    BY <1>1, <2>1, <2>2, <2>3 DEF IInv, TypeOK
<1>3. Bounded' /\ NamesCreated' /\ JobsKnow'
  BY DEF IInv, Bounded, NamesCreated, Created, JobsKnow, NoJob
<1>4. OpenIsServed' /\ UndecidedIsServed'
  BY <1>1 DEF OpenIsServed, UndecidedIsServed, Open, Readable
<1>5. QED
  BY <1>2, <1>3, <1>4 DEF IInv

-----------------------------------------------------------------------------
(* Every step keeps the invariant.                                          *)
LEMMA NextKeeps == IInv /\ [Next]_vars => IInv'
<1> SUFFICES ASSUME IInv, [Next]_vars PROVE IInv'
  OBVIOUS
<1>1. CASE UNCHANGED vars
  BY <1>1 DEF vars, IInv, TypeOK, Bounded, NamesCreated, Created, JobsKnow, OpenIsServed,
     UndecidedIsServed
<1>2. CASE Next
  BY <1>2, PostKeeps, HandlerPopsKeeps, HandlerKeeps, ValidatorPopsKeeps, ValidatorKeeps,
     PatchKeeps, DeleteKeeps, CrashKeeps DEF Next
<1>3. QED
  BY <1>1, <1>2

(* The invariant holds throughout.                                          *)
LEMMA Invariance == Spec => []IInv
BY InitIInv, NextKeeps, PTL DEF Spec

(* For any number of clients, requests and attempts: an open task has       *)
(* someone to finish it unless a publication has failed.                    *)
THEOREM TasksServed == Spec => []OpenIsServed
<1>1. IInv => OpenIsServed
  BY DEF IInv
<1>2. QED
  BY <1>1, Invariance, PTL

(* For any number of clients, requests and attempts: a request without a    *)
(* verdict is on its way to one, marked failed or being deleted, unless a   *)
(* restart or a failed dispatch, publication or fetch has lost it.          *)
THEOREM UndecidedServed == Spec => []UndecidedIsServed
<1>1. IInv => UndecidedIsServed
  BY DEF IInv
<1>2. QED
  BY <1>1, Invariance, PTL

-----------------------------------------------------------------------------
(* Work that is given up, and steps that QueuedRequest does not see.        *)
LEMMA GivesUp ==
  ASSUME Asked' \subseteq Asked, Rejecting' \subseteq Rejecting,
         UNCHANGED <<row, nextId, decided>>
  PROVE  [Promised!Next]_Promised!vars
BY DEF Promised!Next, Promised!GiveUp

(* A POST that stores its task asks; its other steps are not seen, or give  *)
(* up a task that was there.                                                *)
LEMMA PostImplements ==
  ASSUME IInv, NEW p \in Posters, Post(p)
  PROVE  [Promised!Next]_Promised!vars
<1> USE DEF handling, validating
<1>1. CASE PostStores(p)
  <2>1. p \in Asked' /\ Asked' \subseteq Asked \cup {p} /\ Rejecting' = Rejecting
    BY <1>1, PipelineAssumption, NoneAssumption, TaskWrites
    DEF PostStores, Asked, Rejecting, Fresh, Readable
  <2>2. Promised!Ask(p)
    BY <1>1, <2>1 DEF PostStores, Promised!Ask
  <2>3. QED
    BY <2>2 DEF Promised!Next
<1>2. CASE ~PostStores(p)
  <2>1. /\ task' \in {task, None}
        /\ UNCHANGED <<row, nextId, h, v, decided>>
    BY <1>2 DEF Post, PostChecks, PostLooksForTask, PostReadsTask, PostPurgesTask, PostRefused,
       PostPublishes, PostPublishFails
  <2>2. Asked' \subseteq Asked /\ Rejecting' \subseteq Rejecting
    BY <2>1 DEF Asked, Rejecting, Readable
  <2>3. QED
    BY <2>1, <2>2, GivesUp
<1>3. QED
  BY <1>1, <1>2

(* The handler's job admits the request that was asked for, or gives up.    *)
LEMMA HandlerImplements ==
  ASSUME IInv, HandlerPops \/ Handler
  PROVE  [Promised!Next]_Promised!vars
<1> USE DEF handling, validating, HandlerGoes
<1>T. TypeOK /\ h \in Job /\ h.by \in Posters \cup {None}
  BY DEF IInv, TypeOK, Job
<1>1. CASE HandlerAdds /\ row = None
  <2>1. h.by \in Posters
    BY <1>1 DEF HandlerAdds, IInv, JobsKnow
  <2>2. h.by \in Asked /\ Asked' = Asked /\ Rejecting' = Rejecting
    BY <1>T, <1>1, <2>1, PipelineAssumption DEF HandlerAdds, Asked, Rejecting, Readable, Job
  <2>3. nextId \in Nat /\ nextId' = nextId + 1
    BY <1>T, <1>1, PipelineAssumption DEF HandlerAdds, TypeOK
  <2>4. Promised!Admit(h.by)
    BY <1>1, <2>2, <2>3 DEF HandlerAdds, Promised!Admit
  <2>5. QED
    BY <2>1, <2>4 DEF Promised!Next
<1>2. CASE ~(HandlerAdds /\ row = None)
  <2>1. UNCHANGED <<row, nextId, v, decided>>
    BY <1>2 DEF HandlerPops, Handler, HandlerReads, HandlerArchives, HandlerErrs, HandlerAdds,
       HandlerDispatches, HandlerAnnounces, HandlerPublishFails, HandlerCompletes, HandlerFails,
       HandlerRetries
  <2>2. Asked' \subseteq Asked
    <3>1. h'.by \in {h.by, None} \/ (Readable(task) /\ h'.by = task.by)
      <4>1. CASE HandlerReads
        BY <1>T, <4>1 DEF HandlerReads, Job
      <4>2. CASE HandlerPops \/ HandlerCompletes
        <5>1. [NoJob EXCEPT !.pc = "read", !.tries = 1].by = None /\ NoJob.by = None
          BY DEF NoJob
        <5>2. QED
          BY <4>2, <5>1 DEF HandlerPops, HandlerCompletes
      <4>3. CASE HandlerFails
        BY <1>T, <4>3 DEF HandlerFails, Job, NoJob
      <4>4. CASE \/ HandlerArchives \/ HandlerErrs \/ HandlerDispatches \/ HandlerAnnounces
                 \/ HandlerPublishFails \/ HandlerRetries
        BY <1>T, <4>4 DEF HandlerArchives, HandlerErrs, HandlerDispatches, HandlerAnnounces,
           HandlerPublishFails, HandlerRetries, Job
      <4>5. CASE HandlerAdds
        BY <1>T, <4>5 DEF HandlerAdds, Job
      <4>6. QED
        BY <4>1, <4>2, <4>3, <4>4, <4>5 DEF Handler
    <3>2. task' = task \/ task' = Failed(task) \/ task' = Completed(task)
      BY DEF HandlerPops, Handler, HandlerReads, HandlerArchives, HandlerErrs, HandlerAdds,
         HandlerDispatches, HandlerAnnounces, HandlerPublishFails, HandlerCompletes, HandlerFails,
         HandlerRetries
    <3>3. Readable(task') => Readable(task) /\ task'.by = task.by
      BY <1>T, <3>2 DEF TypeOK, Tasks, Failed, Completed, Readable
    <3>4. QED
      BY <3>1, <3>3 DEF Asked
  <2>3. Rejecting' = Rejecting
    BY <2>1 DEF Rejecting
  <2>4. QED
    BY <2>1, <2>2, <2>3, GivesUp
<1>3. QED
  BY <1>1, <1>2

(* A validation judges its request, rejects it, or gives up.                *)
LEMMA ValidatorImplements ==
  ASSUME IInv, NEW i \in Ids, ValidatorPops(i) \/ Validator(i)
  PROVE  [Promised!Next]_Promised!vars
<1> USE DEF handling
<1>T. TypeOK
  BY DEF IInv
<1>S. {"load", "fail", "fetch", "complete", "run", "reject", "timeout"} \subseteq JobSteps
  BY DEF JobSteps
<1>C. v[i].pc # "idle" => i \in 1..(nextId - 1)
  BY <1>T DEF IInv, TypeOK, NamesCreated, Created, Ids
<1>1. ASSUME UNCHANGED <<task, h, row, nextId, decided>>,
             v' \in [Ids -> Job], v'[i].pc # "reject", \A j \in Ids \ {i} : v'[j] = v[j]
      PROVE  [Promised!Next]_Promised!vars
  <2>1. Asked' = Asked /\ Rejecting' \subseteq Rejecting
    BY <1>1 DEF Asked, Rejecting
  <2>2. QED
    BY <1>1, <2>1, GivesUp
<1>2. CASE ValidatorPops(i)
  <2>1. Asked' = Asked /\ Rejecting' \subseteq Rejecting
    BY <1>T, <1>2 DEF ValidatorPops, Asked, Rejecting, TypeOK, Job
  <2>2. QED
    BY <1>2, <2>1, GivesUp DEF ValidatorPops
<1>3. CASE ValidatorReads(i) \/ ValidatorErrs(i) \/ ValidatorFetches(i)
  BY <1>T, <1>S, <1>1, <1>3, ValidatorMoves DEF ValidatorReads, ValidatorErrs, ValidatorFetches
<1>4. CASE ValidatorLoads(i) \/ ValidatorRuns(i)
  <2>1. /\ UNCHANGED <<task, h, row, nextId>> /\ v[i].pc # "idle"
        /\ v' \in [Ids -> Job] /\ \A j \in Ids \ {i} : v'[j] = v[j]
        /\ \/ decided' = decided /\ v'[i].pc # "reject"
           \/ decided' = decided \cup {i}
    BY <1>T, <1>S, <1>4, ValidatorMoves DEF ValidatorLoads, ValidatorRuns
  <2>2. CASE decided' = decided /\ v'[i].pc # "reject"
    BY <1>1, <2>1, <2>2
  <2>3. CASE decided' = decided \cup {i}
    <3>1. Asked' = Asked /\ v[i].pc # "reject"
      BY <1>4, <2>1 DEF Asked, ValidatorLoads, ValidatorRuns
    <3>2. Rejecting' \in {Rejecting, Rejecting \cup {i}}
      BY <1>T, <2>1, <3>1 DEF Rejecting
    <3>3. Promised!Judge(i)
      BY <1>C, <2>1, <2>3, <3>1, <3>2 DEF Promised!Judge
    <3>4. QED
      BY <1>C, <2>1, <3>3 DEF Promised!Next
  <2>4. QED
    BY <2>1, <2>2, <2>3
<1>5. CASE ValidatorRejects(i)
  <2>1. /\ v' \in [Ids -> Job] /\ v'[i].pc # "reject" /\ v[i].pc = "reject"
        /\ \A j \in Ids \ {i} : v'[j] = v[j]
    BY <1>T, <1>S, <1>5, ValidatorMoves DEF ValidatorRejects
  <2>2. CASE row # None /\ row.id = i
    <3>1. Asked' = Asked /\ Rejecting' = Rejecting \ {i} /\ i \in Rejecting
      BY <1>5, <2>1 DEF ValidatorRejects, Asked, Rejecting
    <3>2. i \in decided
      BY <2>1 DEF IInv, JobsKnow
    <3>3. Promised!Reject(i)
      BY <1>5, <2>2, <3>1, <3>2 DEF ValidatorRejects, Promised!Reject
    <3>4. QED
      BY <1>C, <2>1, <3>3 DEF Promised!Next
  <2>3. CASE ~(row # None /\ row.id = i)
    BY <1>1, <1>5, <2>1, <2>3 DEF ValidatorRejects
  <2>4. QED
    BY <2>2, <2>3
<1>6. CASE ValidatorCompletes(i) \/ ValidatorFails(i) \/ ValidatorRetries(i)
  <2>1. UNCHANGED <<task, h, row, nextId, decided>> /\ Asked' = Asked
    BY <1>6 DEF ValidatorCompletes, ValidatorFails, ValidatorRetries, Asked
  <2>2. Rejecting' \subseteq Rejecting
    BY <1>T, <1>6 DEF ValidatorCompletes, ValidatorFails, ValidatorRetries, Rejecting, TypeOK, Job, NoJob
  <2>3. QED
    BY <2>1, <2>2, GivesUp
<1>7. QED
  BY <1>2, <1>3, <1>4, <1>5, <1>6 DEF Validator

(* Every step of the pipeline is one of QueuedRequest or not seen there.    *)
LEMMA StepImplements ==
  ASSUME IInv, [Next]_vars
  PROVE  [Promised!Next]_Promised!vars
<1> USE DEF handling, validating
<1>1. CASE UNCHANGED vars
  <2>1. Asked' = Asked /\ Rejecting' = Rejecting
    BY <1>1 DEF vars, Asked, Rejecting
  <2>2. QED
    BY <1>1, <2>1, GivesUp DEF vars
<1>2. ASSUME NEW s \in Statuses, Patch(s)
      PROVE  [Promised!Next]_Promised!vars
  <2>1. Asked' = Asked /\ Rejecting' = Rejecting
    BY <1>2 DEF Patch, Asked, Rejecting
  <2>2. Promised!Manage(s)
    BY <1>2, <2>1 DEF Patch, Promised!Manage
  <2>3. QED
    BY <2>2 DEF Promised!Next, Statuses
<1>3. CASE Delete
  <2>1. /\ task' \in {task, None} /\ UNCHANGED <<h, v, nextId, decided>>
        /\ row' = row \/ (row' = None /\ task' = task)
    BY <1>3 DEF Delete, DeleteReads, DeleteTask, DeleteValidationTask, DeleteRow
  <2>2. Asked' \subseteq Asked /\ (task' = task => Asked' = Asked) /\ Rejecting' = Rejecting
    BY <2>1 DEF Asked, Rejecting, Readable
  <2>3. CASE row' = row
    BY <2>1, <2>2, <2>3, GivesUp
  <2>4. CASE row' = None /\ task' = task
    <3>1. Promised!Withdraw
      BY <2>1, <2>2, <2>4 DEF Promised!Withdraw
    <3>2. QED
      BY <3>1 DEF Promised!Next
  <2>5. QED
    BY <2>1, <2>3, <2>4
<1>4. CASE CrashAndRestart
  <2>1. Asked' \subseteq Asked /\ Rejecting' \subseteq Rejecting
    BY <1>4 DEF CrashAndRestart, Asked, Rejecting, Readable, Kept, NoJob
  <2>2. QED
    BY <1>4, <2>1, GivesUp DEF CrashAndRestart
<1>5. QED
  BY <1>1, <1>2, <1>3, <1>4, PostImplements, HandlerImplements, ValidatorImplements DEF Next

(* For any number of clients, requests and attempts and whatever faults     *)
(* happen, the pipeline implements QueuedRequest: one request at a time,    *)
(* under an id of its own, for someone who asked, and rejected only on a    *)
(* verdict about that request.                                              *)
THEOREM PipelineImplements == Spec => ImplementsPromise
<1>1. Init => Promised!Init
  BY PipelineAssumption DEF Init, Promised!Init, Asked, Rejecting, Readable, NoJob
<1>2. IInv /\ [Next]_vars => [Promised!Next]_Promised!vars
  BY StepImplements
<1>3. QED
  BY <1>1, <1>2, Invariance, PTL DEF Spec, ImplementsPromise, Promised!Spec
=============================================================================

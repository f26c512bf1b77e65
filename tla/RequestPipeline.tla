----------------------------- MODULE RequestPipeline -----------------------------
(***************************************************************************)
(* How a beatmapset gets into a queue: POST /requests stores a task in     *)
(* Redis and publishes its id, QueueRequestHandler turns the task into a   *)
(* Request row and dispatches a validation task, RuleValidationService     *)
(* runs the Tier-3 rules and may reject the row; PATCH and DELETE work on  *)
(* the row meanwhile, and a restart cleans up.                             *)
(*                                                                         *)
(* The id of a task is a hash of queue and beatmapset and a row is unique  *)
(* for them, so one such pair is modelled: keys do not interact.  Every    *)
(* await of the code ends an action; a Redis command and its reply are one *)
(* step, since all parts share one event loop and one server.  Both        *)
(* services are ScheduledServices: an id popped while its job is active is *)
(* dropped (SchedulerSkips there).                                         *)
(***************************************************************************)
EXTENDS Naturals, FiniteSets

CONSTANTS
  Posters,      \* clients that POST for the pair
  MaxRequests,  \* bound: rows ever created for the pair
  MaxMessages,  \* bound: published ids not yet popped
  MaxAttempts,  \* auto_retry's max_attempts
  Events,       \* what may happen beside the normal course, see Allowed
  None

Allowed == {"timeout", "job_error", "refusal", "delete", "patch", "crash",
            "publish_error", "fetch_error"}

ASSUME PipelineAssumption ==
  /\ MaxRequests \in Nat \ {0}
  /\ MaxMessages \in Nat \ {0}
  /\ MaxAttempts \in Nat \ {0}
  /\ Events \subseteq Allowed
  /\ None \notin Posters

Ids == 1..MaxRequests
Statuses == {"PENDING", "ACCEPTED", "REJECTED"}

(* A Request row, as far as it matters here.                                *)
Requests == [id: Ids, by: Posters, status: Statuses]

(* A Redis hash of a task.  One that HSET has brought into being to hold a  *)
(* completed_at or failed_at lacks the fields of the task: it has no author. *)
Tasks == [by: Posters \cup {None}, completed: BOOLEAN, failed: BOOLEAN]

ASSUME NoneAssumption == None \notin Tasks \cup Requests

VARIABLES
  post,     \* where each POST is
  task,     \* the handler task, or None
  row,      \* the Request row, or None
  nextId,   \* the id sequence of Request
  msgs,     \* ids published or in the handler's heap
  h,        \* the handler's job
  vtask,    \* the validation task of each request id, or None
  vmsgs,    \* ids published or in the validator's heap
  v,        \* the validator's job for each request id
  del,      \* the DELETE in progress
  decided,  \* history: ids for which Tier-3 rules gave a verdict
  lost      \* history: what has happened that the code does not recover
            \* from: a crash, a failed publication, fetch or dispatch

vars == <<post, task, row, nextId, msgs, h, vtask, vmsgs, v, del, decided, lost>>
handling == <<msgs, h>>
validating == <<vmsgs, v, decided>>

PostSteps == {"idle", "checked", "found", "purge", "reserve", "stored"}
JobSteps == {"idle", "read", "archive", "add", "dispatch", "announce", "load", "fetch",
             "run", "reject", "complete", "fail", "timeout", "backoff"}
Job == [pc: JobSteps, by: Posters \cup {None}, id: Ids \cup {0}, tries: 0..MaxAttempts]
NoJob == [pc |-> "idle", by |-> None, id |-> 0, tries |-> 0]

TypeOK ==
  /\ post \in [Posters -> PostSteps]
  /\ task \in Tasks \cup {None}
  /\ row \in Requests \cup {None}
  /\ nextId \in 1..(MaxRequests + 1)
  /\ msgs \in 0..MaxMessages
  /\ h \in Job
  /\ vtask \in [Ids -> Tasks \cup {None}]
  /\ vmsgs \in [Ids -> 0..MaxMessages]
  /\ v \in [Ids -> Job]
  /\ del \in [pc: {"idle", "found", "task", "vtask"}, id: Ids \cup {0}]
  /\ decided \subseteq Ids
  /\ lost \subseteq {"crash", "publish_error", "fetch_error", "job_error"}

Init ==
  /\ post = [p \in Posters |-> "idle"]
  /\ task = None
  /\ row = None
  /\ nextId = 1
  /\ msgs = 0
  /\ h = NoJob
  /\ vtask = [i \in Ids |-> None]
  /\ vmsgs = [i \in Ids |-> 0]
  /\ v = [i \in Ids |-> NoJob]
  /\ del = [pc |-> "idle", id |-> 0]
  /\ decided = {}
  /\ lost = {}

Fresh(p) == [by |-> p, completed |-> FALSE, failed |-> FALSE]
Readable(t) == t # None /\ t.by # None
Open(t) == Readable(t) /\ ~t.completed /\ ~t.failed

(* HSET of one field, on a hash that may not be there any more.            *)
Failed(t) == IF t = None THEN [by |-> None, completed |-> FALSE, failed |-> TRUE]
                         ELSE [t EXCEPT !.failed = TRUE]
Completed(t) == IF t = None THEN [by |-> None, completed |-> TRUE, failed |-> FALSE]
                            ELSE [t EXCEPT !.completed = TRUE]

-----------------------------------------------------------------------------
(* POST /requests.  A refusal that comes before anything is written is no  *)
(* step.                                                                   *)
Goto(p, s) == post' = [post EXCEPT ![p] = s]

(* No such Request; then the osu! API and the Phase-1 rules.               *)
PostChecks(p) ==
  /\ post[p] = "idle"
  /\ row = None
  /\ Goto(p, "checked")
  /\ UNCHANGED <<task, row, nextId, handling, vtask, validating, del, lost>>

PostLooksForTask(p) ==
  /\ post[p] = "checked"
  /\ Goto(p, IF task = None THEN "reserve" ELSE "found")
  /\ UNCHANGED <<task, row, nextId, handling, vtask, validating, del, lost>>

(* A task that does not deserialize is a 500, an open or completed one a   *)
(* Conflict.                                                               *)
PostReadsTask(p) ==
  /\ post[p] = "found"
  /\ Goto(p, IF Readable(task) /\ task.failed THEN "purge" ELSE "idle")
  /\ UNCHANGED <<task, row, nextId, handling, vtask, validating, del, lost>>

PostPurgesTask(p) ==
  /\ post[p] = "purge"
  /\ task' = None
  /\ Goto(p, "reserve")
  /\ UNCHANGED <<row, nextId, handling, vtask, validating, del, lost>>

(* reserve_stateful_rules raises.                                          *)
PostRefused(p) ==
  /\ "refusal" \in Events
  /\ post[p] = "reserve"
  /\ Goto(p, "idle")
  /\ UNCHANGED <<task, row, nextId, handling, vtask, validating, del, lost>>

PostStores(p) ==
  /\ post[p] = "reserve"
  /\ task' = Fresh(p)
  /\ Goto(p, "stored")
  /\ UNCHANGED <<row, nextId, handling, vtask, validating, del, lost>>

PostPublishes(p) ==
  /\ post[p] = "stored"
  /\ msgs < MaxMessages
  /\ msgs' = msgs + 1
  /\ Goto(p, "idle")
  /\ UNCHANGED <<task, row, nextId, h, vtask, validating, del, lost>>

(* publish raises: the reservations are rolled back, the task stays.       *)
PostPublishFails(p) ==
  /\ "publish_error" \in Events
  /\ post[p] = "stored"
  /\ Goto(p, "idle")
  /\ UNCHANGED <<task, row, nextId, handling, vtask, validating, del>>
  /\ lost' = lost \cup {"publish_error"}

-----------------------------------------------------------------------------
(* QueueRequestHandler._execute_job under auto_retry.                      *)
HandlerPops ==
  /\ msgs > 0
  /\ msgs' = msgs - 1
  /\ h' = IF h.pc = "idle" THEN [NoJob EXCEPT !.pc = "read", !.tries = 1] ELSE h
  /\ UNCHANGED <<post, task, row, nextId, vtask, validating, del, lost>>

HandlerGoes(s) == h' = [h EXCEPT !.pc = s]

HandlerReads ==
  /\ h.pc = "read"
  /\ IF Readable(task) THEN h' = [h EXCEPT !.pc = "archive", !.by = task.by]
                       ELSE HandlerGoes("fail")
  /\ UNCHANGED <<post, task, row, nextId, msgs, vtask, validating, del, lost>>

HandlerArchives ==
  /\ h.pc = "archive"
  /\ \/ HandlerGoes("add")
     \/ "timeout" \in Events /\ HandlerGoes("timeout")
  /\ UNCHANGED <<post, task, row, nextId, msgs, vtask, validating, del, lost>>

(* An exception that is not retried, before the validation is dispatched.  *)
HandlerErrs ==
  /\ "job_error" \in Events
  /\ h.pc \in {"archive", "add", "dispatch"}
  /\ HandlerGoes("fail")
  /\ lost' = IF h.pc = "dispatch" THEN lost \cup {"job_error"} ELSE lost
  /\ UNCHANGED <<post, task, row, nextId, msgs, vtask, validating, del>>

(* db.add resolves the row by its unique constraint or creates it.         *)
HandlerAdds ==
  /\ h.pc = "add"
  /\ IF row = None
     THEN /\ row' = [id |-> nextId, by |-> h.by, status |-> "PENDING"]
          /\ nextId' = nextId + 1
     ELSE UNCHANGED <<row, nextId>>
  /\ h' = [h EXCEPT !.pc = "dispatch", !.id = row'.id]
  /\ UNCHANGED <<post, task, msgs, vtask, validating, del, lost>>

(* Mutants: no validation task is stored; it is not published.             *)
DispatchSkipped ==
  /\ h.pc = "dispatch"
  /\ HandlerGoes("complete")
  /\ UNCHANGED <<post, task, row, nextId, msgs, vtask, validating, del, lost>>

DispatchUnpublished ==
  /\ h.pc = "dispatch"
  /\ vtask' = [vtask EXCEPT ![h.id] = Fresh(h.by)]
  /\ HandlerGoes("complete")
  /\ UNCHANGED <<post, task, row, nextId, msgs, validating, del, lost>>

HandlerDispatches ==
  /\ h.pc = "dispatch"
  /\ vtask' = [vtask EXCEPT ![h.id] = Fresh(h.by)]
  /\ HandlerGoes("announce")
  /\ UNCHANGED <<post, task, row, nextId, msgs, validating, del, lost>>

HandlerAnnounces ==
  /\ h.pc = "announce"
  /\ vmsgs[h.id] < MaxMessages
  /\ vmsgs' = [vmsgs EXCEPT ![h.id] = @ + 1]
  /\ HandlerGoes("complete")
  /\ UNCHANGED <<post, task, row, nextId, msgs, vtask, v, decided, del, lost>>

(* publish raises: the validation task stays.                              *)
HandlerPublishFails ==
  /\ "publish_error" \in Events
  /\ h.pc = "announce"
  /\ HandlerGoes("fail")
  /\ UNCHANGED <<post, task, row, nextId, msgs, vtask, validating, del>>
  /\ lost' = lost \cup {"publish_error"}

HandlerCompletes ==
  /\ h.pc = "complete"
  /\ task' = Completed(task)
  /\ h' = NoJob
  /\ UNCHANGED <<post, row, nextId, msgs, vtask, validating, del, lost>>

(* Mutant: the failure is not recorded.                                    *)
FailUnrecorded ==
  /\ h.pc \in {"fail", "timeout"}
  /\ h' = IF h.pc = "timeout" /\ h.tries < MaxAttempts
          THEN [h EXCEPT !.pc = "backoff"] ELSE NoJob
  /\ UNCHANGED <<post, task, row, nextId, msgs, vtask, validating, del, lost>>

HandlerFails ==
  /\ h.pc \in {"fail", "timeout"}
  /\ task' = Failed(task)
  /\ h' = IF h.pc = "timeout" /\ h.tries < MaxAttempts
          THEN [h EXCEPT !.pc = "backoff"] ELSE NoJob
  /\ UNCHANGED <<post, row, nextId, msgs, vtask, validating, del, lost>>

HandlerRetries ==
  /\ h.pc = "backoff"
  /\ h' = [h EXCEPT !.pc = "read", !.tries = @ + 1]
  /\ UNCHANGED <<post, task, row, nextId, msgs, vtask, validating, del, lost>>

-----------------------------------------------------------------------------
(* RuleValidationService._execute_job for request i, under auto_retry.     *)
ValidatorPops(i) ==
  /\ vmsgs[i] > 0
  /\ vmsgs' = [vmsgs EXCEPT ![i] = @ - 1]
  /\ v' = IF v[i].pc = "idle" THEN [v EXCEPT ![i].pc = "read", ![i].tries = 1] ELSE v
  /\ UNCHANGED <<post, task, row, nextId, handling, vtask, decided, del, lost>>

ValidatorGoes(i, s) == v' = [v EXCEPT ![i].pc = s]

ValidatorReads(i) ==
  /\ v[i].pc = "read"
  /\ ValidatorGoes(i, IF Readable(vtask[i]) THEN "load" ELSE "fail")
  /\ UNCHANGED <<post, task, row, nextId, handling, vtask, vmsgs, decided, del, lost>>

(* _run_validation: no such row, or no Tier-3 rule in the snapshot.        *)
ValidatorLoads(i) ==
  /\ v[i].pc = "load"
  /\ IF row # None /\ row.id = i
     THEN \/ ValidatorGoes(i, "fetch") /\ UNCHANGED decided
          \/ ValidatorGoes(i, "complete") /\ decided' = decided \cup {i}
     ELSE ValidatorGoes(i, "complete") /\ UNCHANGED decided
  /\ UNCHANGED <<post, task, row, nextId, handling, vtask, vmsgs, del, lost>>

(* get_beatmapset; any exception is logged and the validation returns.     *)
ValidatorFetches(i) ==
  /\ v[i].pc = "fetch"
  /\ \/ ValidatorGoes(i, "run") /\ UNCHANGED lost
     \/ /\ "fetch_error" \in Events
        /\ ValidatorGoes(i, "complete")
        /\ lost' = lost \cup {"fetch_error"}
  /\ UNCHANGED <<post, task, row, nextId, handling, vtask, vmsgs, decided, del>>

(* Phase2Runner: pass, violation, or RetryableValidationError.             *)
ValidatorRuns(i) ==
  /\ v[i].pc = "run"
  /\ \/ \E s \in {"complete", "reject"} : ValidatorGoes(i, s) /\ decided' = decided \cup {i}
     \/ "timeout" \in Events /\ ValidatorGoes(i, "timeout") /\ UNCHANGED decided
  /\ UNCHANGED <<post, task, row, nextId, handling, vtask, vmsgs, del, lost>>

(* An exception that is neither caught nor retried.                        *)
ValidatorErrs(i) ==
  /\ "job_error" \in Events
  /\ v[i].pc \in {"load", "run", "reject"}
  /\ ValidatorGoes(i, "fail")
  /\ UNCHANGED <<post, task, row, nextId, handling, vtask, vmsgs, decided, del, lost>>

(* Mutant: the row is not checked to be the one that was judged.           *)
RejectsAnyRow(i) ==
  /\ v[i].pc = "reject"
  /\ IF row # None
     THEN row' = [row EXCEPT !.status = "REJECTED"] /\ ValidatorGoes(i, "complete")
     ELSE ValidatorGoes(i, "fail") /\ UNCHANGED row
  /\ UNCHANGED <<post, task, nextId, handling, vtask, vmsgs, decided, del, lost>>

(* db.update raises for a row that is gone.                                *)
ValidatorRejects(i) ==
  /\ v[i].pc = "reject"
  /\ IF row # None /\ row.id = i
     THEN row' = [row EXCEPT !.status = "REJECTED"] /\ ValidatorGoes(i, "complete")
     ELSE ValidatorGoes(i, "fail") /\ UNCHANGED row
  /\ UNCHANGED <<post, task, nextId, handling, vtask, vmsgs, decided, del, lost>>

ValidatorCompletes(i) ==
  /\ v[i].pc = "complete"
  /\ vtask' = [vtask EXCEPT ![i] = Completed(@)]
  /\ v' = [v EXCEPT ![i] = NoJob]
  /\ UNCHANGED <<post, task, row, nextId, handling, vmsgs, decided, del, lost>>

ValidatorFails(i) ==
  /\ v[i].pc \in {"fail", "timeout"}
  /\ vtask' = [vtask EXCEPT ![i] = Failed(@)]
  /\ v' = [v EXCEPT ![i] = IF @.pc = "timeout" /\ @.tries < MaxAttempts
                           THEN [@ EXCEPT !.pc = "backoff"] ELSE NoJob]
  /\ UNCHANGED <<post, task, row, nextId, handling, vmsgs, decided, del, lost>>

ValidatorRetries(i) ==
  /\ v[i].pc = "backoff"
  /\ v' = [v EXCEPT ![i].pc = "read", ![i].tries = @ + 1]
  /\ UNCHANGED <<post, task, row, nextId, handling, vtask, vmsgs, decided, del, lost>>

-----------------------------------------------------------------------------
(* PATCH /requests/{id}: the update writes the status whatever it is now.  *)
Patch(s) ==
  /\ "patch" \in Events
  /\ row # None
  /\ row' = [row EXCEPT !.status = s]
  /\ UNCHANGED <<post, task, nextId, handling, vtask, validating, del, lost>>

(* DELETE /requests/{id}: the row is read, both tasks are deleted, then it. *)
DeleteReads ==
  /\ "delete" \in Events
  /\ del.pc = "idle"
  /\ row # None
  /\ nextId \in Ids
  /\ del' = [pc |-> "found", id |-> row.id]
  /\ UNCHANGED <<post, task, row, nextId, handling, vtask, validating, lost>>

DeleteTask ==
  /\ del.pc = "found"
  /\ task' = None
  /\ del' = [del EXCEPT !.pc = "task"]
  /\ UNCHANGED <<post, row, nextId, handling, vtask, validating, lost>>

DeleteValidationTask ==
  /\ del.pc = "task"
  /\ vtask' = [vtask EXCEPT ![del.id] = None]
  /\ del' = [del EXCEPT !.pc = "vtask"]
  /\ UNCHANGED <<post, task, row, nextId, handling, validating, lost>>

DeleteRow ==
  /\ del.pc = "vtask"
  /\ row' = None
  /\ del' = [pc |-> "idle", id |-> 0]
  /\ UNCHANGED <<post, task, nextId, handling, vtask, validating, lost>>

(* The process dies: requests, jobs and published ids are gone.  The new    *)
(* one runs cleanup_stale_tasks before it serves.  The key of a validation  *)
(* task hashes a string, which differs in every process: the tasks of the   *)
(* old one are never looked up again.                                       *)
KeptUnchecked(t) == t  \* mutant
Kept(t) == IF t # None /\ ~t.completed /\ ~t.failed THEN None ELSE t

CrashAndRestart ==
  /\ "crash" \in Events
  /\ post' = [p \in Posters |-> "idle"]
  /\ msgs' = 0
  /\ h' = NoJob
  /\ vmsgs' = [i \in Ids |-> 0]
  /\ v' = [i \in Ids |-> NoJob]
  /\ del' = [pc |-> "idle", id |-> 0]
  /\ task' = Kept(task)
  /\ vtask' = [i \in Ids |-> None]
  /\ UNCHANGED <<row, nextId, decided>>
  /\ lost' = lost \cup {"crash"}

-----------------------------------------------------------------------------
Post(p) ==
  \/ PostChecks(p) \/ PostLooksForTask(p) \/ PostReadsTask(p) \/ PostPurgesTask(p)
  \/ PostRefused(p) \/ PostStores(p) \/ PostPublishes(p) \/ PostPublishFails(p)

Handler ==
  \/ HandlerReads \/ HandlerArchives \/ HandlerErrs \/ HandlerAdds \/ HandlerDispatches
  \/ HandlerAnnounces \/ HandlerPublishFails \/ HandlerCompletes \/ HandlerFails
  \/ HandlerRetries

Validator(i) ==
  \/ ValidatorReads(i) \/ ValidatorLoads(i) \/ ValidatorFetches(i) \/ ValidatorRuns(i)
  \/ ValidatorErrs(i) \/ ValidatorRejects(i) \/ ValidatorCompletes(i)
  \/ ValidatorFails(i) \/ ValidatorRetries(i)

Delete == DeleteReads \/ DeleteTask \/ DeleteValidationTask \/ DeleteRow

Next ==
  \/ \E p \in Posters : Post(p)
  \/ HandlerPops
  \/ Handler
  \/ \E i \in Ids : ValidatorPops(i) \/ Validator(i)
  \/ \E s \in Statuses : Patch(s)
  \/ Delete
  \/ CrashAndRestart

Spec == Init /\ [][Next]_vars

(* A request that has begun is served to its end, and both services pop and *)
(* run their jobs (JobsRun of ScheduledService).  Nobody has to POST or     *)
(* DELETE.                                                                  *)
Fairness ==
  /\ \A p \in Posters : WF_vars(post[p] # "idle" /\ Post(p))
  /\ WF_vars(HandlerPops)
  /\ WF_vars(Handler)
  /\ \A i \in Ids : WF_vars(ValidatorPops(i)) /\ WF_vars(Validator(i))
  /\ WF_vars(del.pc # "idle" /\ Delete)

FairSpec == Spec /\ Fairness

-----------------------------------------------------------------------------
(* An open task has someone to finish it: its POST, or the handler, about    *)
(* to publish it, a published id, or the active job that drops further ids;  *)
(* across duplicate POSTs and dispatches, retries and restarts.  Otherwise   *)
(* every later POST answers that it "is currently being processed", as it    *)
(* does once a publication has failed.                                       *)
OpenIsServed ==
  "publish_error" \notin lost =>
    /\ Open(task) => \/ \E p \in Posters : post[p] = "stored"
                     \/ msgs > 0
                     \/ h.pc # "idle"
    /\ \A i \in Ids :
         Open(vtask[i]) => \/ h.pc = "announce" /\ h.id = i
                           \/ vmsgs[i] > 0
                           \/ v[i].pc # "idle"

(* A request whose Tier-3 rules gave no verdict yet will be validated, its   *)
(* validation is marked failed, or it is being deleted: it does not slip     *)
(* into the queue, unless a restart, a failed dispatch, publication or fetch *)
(* has lost it.                                                              *)
UndecidedIsServed ==
  lost = {} /\ row # None /\ row.id \notin decided =>
    \/ h.id = row.id /\ h.pc \in {"dispatch", "announce"}
    \/ vmsgs[row.id] > 0
    \/ v[row.id].pc # "idle"
    \/ vtask[row.id] # None /\ vtask[row.id].failed
    \/ del.id = row.id

(* An accepted POST is processed.  Its task does not stay open, which would  *)
(* refuse every later POST for the pair; and it ends with a request row, or  *)
(* is marked failed, or is withdrawn by a DELETE or a restart.  Two cases    *)
(* are left out: a failed publication, and a POST that is stored while a job *)
(* is past its INSERT (h.id # 0) and a DELETE has taken that job's row: the  *)
(* job then completes the new task, which never gets a row of its own.       *)
AcceptedIsProcessed ==
  /\ Open(task) ~> ~Open(task) \/ "publish_error" \in lost
  /\ Open(task) ~> \/ row # None
                   \/ ~Readable(task) \/ task.failed
                   \/ h.id # 0 \/ "publish_error" \in lost

(* Every row gets its verdict, unless it is deleted or its validation is     *)
(* marked failed.                                                            *)
Posted(i) == row # None /\ row.id = i
RowIsDecided ==
  \A i \in Ids :
    Posted(i) ~> \/ i \in decided \/ ~Posted(i)
                 \/ vtask[i] # None /\ vtask[i].failed
                 \/ lost # {}

(* The pipeline implements QueuedRequest: whatever tasks, redeliveries,      *)
(* retries, deletions and restarts do, a request is admitted only for an     *)
(* author whose task or job is there, ids are never reused, and a validation *)
(* that outlives its request does not reject the one that replaced it.       *)
Asked == (IF Readable(task) THEN {task.by} ELSE {}) \cup ({h.by} \ {None})
Rejecting == {i \in Ids : v[i].pc = "reject"}
Promised == INSTANCE QueuedRequest WITH
  Users <- Posters,
  asked <- Asked,
  request <- row,
  last <- nextId - 1,
  verdicts <- decided,
  rejecting <- Rejecting
ImplementsPromise == Promised!Spec
=============================================================================

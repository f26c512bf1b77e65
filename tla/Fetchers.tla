------------------------------- MODULE Fetchers -------------------------------
(***************************************************************************)
(* ProfileFetcher and ScoreFetcher: how a new user's tasks come to their   *)
(* jobs, from the insert listeners through Redis pub/sub, the preload at   *)
(* start and the polling subscriber, and how a profile job takes the lock  *)
(* of the profile, twice, next to an archiver that populates the profile.  *)
(*                                                                         *)
(* The heap, the active ids and the permits are ScheduledService's: a      *)
(* loaded id is a number of heap entries here, a handled one has left      *)
(* "idle", and the execution times are abstracted to "some day".  Time is  *)
(* counted only where it decides, in the seconds of the profile lock.  The *)
(* services share nothing but the user's row, so a behaviour has one of    *)
(* them on.                                                                *)
(***************************************************************************)
EXTENDS Naturals, Sequences, FiniteSets

CONSTANTS
  Users,        \* user ids; a user's records have the same id here
  QueryLimit,   \* QUERY_DEFAULT_LIMIT, which get_many applies to the preload
  OtherTasks,   \* how many enabled tasks, of users not looked at, may precede theirs
  LockExpiry,   \* LOCK_EXPIRY, in seconds
  LockTimeout,  \* LOCK_ACQUISITION_TIMEOUT, in seconds
  MaxHeap,      \* bound: heap entries of one id
  MaxFaults,    \* bound: faults in one behaviour
  Faults,       \* which faults may happen, see Allowed
  None

Allowed == {"rollback", "publish_error", "restart", "http", "read_timeout",
            "connect_timeout", "archiver", "resolve_error"}

ASSUME FetchersAssumption ==
  /\ Users \subseteq Nat \ {0}
  /\ {QueryLimit, LockExpiry, LockTimeout, MaxHeap} \subseteq Nat \ {0}
  /\ MaxFaults \in Nat
  /\ OtherTasks \subseteq Nat
  /\ Faults \subseteq Allowed
  /\ None \notin Users

Services == {"profile", "score"}

VARIABLES
  acct,     \* the User row and its two task rows: none, in an open
            \* transaction, or committed
  rec,      \* the task rows: per service and user, enabled and last_fetch
  profile,  \* whether the user's Profile row is committed
  login,    \* logins of a user that have set enabled and not committed yet
  phase,    \* each service: off, down, its preload read, or subscribed
  inbox,    \* messages delivered to a subscriber, in order
  sub,      \* the id whose record a subscriber polls for, or None
  heap,     \* heap entries of an id
  job,      \* the step of the job of an id
  left,     \* seconds until a profile job gives up the lock
  lock,     \* the profile lock: its holder and the seconds it has to live
  arch,     \* the archiver's step for a user
  faults,   \* faults so far
  missed,   \* history: ids whose message reached no subscriber, or failed
            \* there, since the service last preloaded
  cut       \* history: enabled ids that its preload left out

vars == <<acct, rec, profile, login, phase, inbox, sub, heap, job, left, lock,
          arch, faults, missed, cut>>
rows == <<acct, rec, profile, login>>
intake == <<phase, inbox, sub, missed, cut>>
locking == <<left, lock, arch>>

JobSteps == {"idle", "begin", "mark", "try", "sleep", "fetch", "read", "add",
             "blocked", "disable", "success", "finish"}
Free == [by |-> None, ttl |-> 0]

TypeOK ==
  /\ acct \in [Users -> {"none", "open", "there"}]
  /\ rec \in [Services -> [Users -> [enabled: BOOLEAN, last: BOOLEAN]]]
  /\ profile \in [Users -> BOOLEAN]
  /\ login \in [Users -> 0..2]
  /\ phase \in [Services -> {"off", "down", "read", "up"}]
  /\ \A s \in Services : inbox[s] \in Seq(Users)
  /\ sub \in [Services -> Users \cup {None}]
  /\ heap \in [Services -> [Users -> 0..MaxHeap]]
  /\ job \in [Services -> [Users -> JobSteps]]
  /\ left \in [Users -> 0..LockTimeout]
  /\ lock \in [Users -> [by: {None, "mark", "job", "archiver"}, ttl: 0..LockExpiry]]
  /\ arch \in [Users -> {"idle", "held", "absent", "added"}]
  /\ faults \in 0..MaxFaults
  /\ missed \in [Services -> SUBSET Users]
  /\ cut \in [Services -> SUBSET Users]

Init ==
  /\ acct = [u \in Users |-> "none"]
  /\ rec = [s \in Services |-> [u \in Users |-> [enabled |-> s = "profile", last |-> FALSE]]]
  /\ profile = [u \in Users |-> FALSE]
  /\ login = [u \in Users |-> 0]
  /\ \E on \in Services : phase = [s \in Services |-> IF s = on THEN "down" ELSE "off"]
  /\ inbox = [s \in Services |-> << >>]
  /\ sub = [s \in Services |-> None]
  /\ heap = [s \in Services |-> [u \in Users |-> 0]]
  /\ job = [s \in Services |-> [u \in Users |-> "idle"]]
  /\ left = [u \in Users |-> 0]
  /\ lock = [u \in Users |-> Free]
  /\ arch = [u \in Users |-> "idle"]
  /\ faults = 0
  /\ missed = [s \in Services |-> {}]
  /\ cut = [s \in Services |-> {}]

Fault(f) == f \in Faults /\ faults < MaxFaults /\ faults' = faults + 1

-----------------------------------------------------------------------------
(* Publishing.  PUBLISH reaches the subscribers of the moment.  An error is *)
(* logged and the transaction goes on.                                      *)
Delivered(s, u) ==
  IF phase[s] = "up"
  THEN /\ inbox' = [inbox EXCEPT ![s] = Append(@, u)]
       /\ missed' = [missed EXCEPT ![s] = @ \ {u}]
  ELSE missed' = [missed EXCEPT ![s] = @ \cup {u}] /\ UNCHANGED inbox

Publish(s, u) ==
  \/ Delivered(s, u) /\ UNCHANGED faults
  \/ /\ Fault("publish_error")
     /\ missed' = [missed EXCEPT ![s] = @ \cup {u}]
     /\ UNCHANGED inbox

(* db.add(User) flushes: the listener inserts both tasks in the open        *)
(* transaction and publishes the id of the ProfileFetcherTask.              *)
InsertUser(u) ==
  /\ acct[u] = "none"
  /\ acct' = [acct EXCEPT ![u] = "open"]
  /\ Publish("profile", u)
  /\ UNCHANGED <<rec, profile, login, phase, sub, cut, heap, job, locking>>

CommitUser(u) ==
  /\ acct[u] = "open"
  /\ acct' = [acct EXCEPT ![u] = "there"]
  /\ UNCHANGED <<rec, profile, login, intake, heap, job, locking, faults>>

RollbackUser(u) ==
  /\ acct[u] = "open"
  /\ Fault("rollback")
  /\ acct' = [acct EXCEPT ![u] = "none"]
  /\ UNCHANGED <<rec, profile, login, intake, heap, job, locking>>

(* POST /token: a task that was never enabled nor run is enabled; setting   *)
(* the attribute publishes, before the update commits.  Two logins of one   *)
(* user may both come this far.                                             *)
LoginEnables(u) ==
  /\ phase["score"] # "off"
  /\ acct[u] = "there"
  /\ login[u] < 2
  /\ ~rec["score"][u].enabled
  /\ ~rec["score"][u].last
  /\ login' = [login EXCEPT ![u] = @ + 1]
  /\ Publish("score", u)
  /\ UNCHANGED <<acct, rec, profile, phase, sub, cut, heap, job, locking>>

LoginCommits(u) ==
  /\ login[u] > 0
  /\ login' = [login EXCEPT ![u] = @ - 1]
  /\ rec' = [rec EXCEPT !["score"][u].enabled = TRUE]
  /\ UNCHANGED <<acct, profile, intake, heap, job, locking, faults>>

-----------------------------------------------------------------------------
(* Start: preload, then subscribe.  get_many returns the first QueryLimit   *)
(* rows in the order of their ids, some of them of other users.             *)
Enabled(s) == {u \in Users : acct[u] = "there" /\ rec[s][u].enabled}
Rank(u, S) == Cardinality({w \in S : w <= u})

Preloaded(s, others) == {u \in Enabled(s) : others + Rank(u, Enabled(s)) <= QueryLimit}

Preload(s) ==
  /\ phase[s] = "down"
  /\ phase' = [phase EXCEPT ![s] = "read"]
  /\ \E others \in OtherTasks :
       /\ heap' = [heap EXCEPT ![s] = [u \in Users |-> IF u \in Preloaded(s, others) THEN 1 ELSE 0]]
       /\ cut' = [cut EXCEPT ![s] = Enabled(s) \ Preloaded(s, others)]
  /\ missed' = [missed EXCEPT ![s] = {u \in Users : acct[u] = "open"}
                                     \cup {u \in Users : s = "score" /\ login[u] > 0}]
  /\ UNCHANGED <<rows, inbox, sub, job, locking, faults>>

Subscribe(s) ==
  /\ phase[s] = "read"
  /\ phase' = [phase EXCEPT ![s] = "up"]
  /\ UNCHANGED <<rows, inbox, sub, missed, cut, heap, job, locking, faults>>

(* The subscriber takes one message at a time and polls for its record.     *)
SubscriberReceives(s) ==
  /\ phase[s] = "up"
  /\ sub[s] = None
  /\ inbox[s] # << >>
  /\ sub' = [sub EXCEPT ![s] = Head(inbox[s])]
  /\ inbox' = [inbox EXCEPT ![s] = Tail(@)]
  /\ UNCHANGED <<rows, phase, missed, cut, heap, job, locking, faults>>

(* The record is there and its job is loaded, or the time is up and the job *)
(* is loaded for fallback_delay_hours later: both are a heap entry.         *)
(* Mutant: the fallback is forgotten.                                       *)
LoadsFound(s) ==
  /\ sub[s] # None
  /\ heap[s][sub[s]] < MaxHeap
  /\ heap' = IF acct[sub[s]] = "there" THEN [heap EXCEPT ![s][sub[s]] = @ + 1] ELSE heap
  /\ sub' = [sub EXCEPT ![s] = None]
  /\ UNCHANGED <<rows, phase, inbox, missed, cut, job, locking, faults>>

SubscriberLoads(s) ==
  /\ sub[s] # None
  /\ heap[s][sub[s]] < MaxHeap
  /\ heap' = [heap EXCEPT ![s][sub[s]] = @ + 1]
  /\ sub' = [sub EXCEPT ![s] = None]
  /\ UNCHANGED <<rows, phase, inbox, missed, cut, job, locking, faults>>

(* The reading of the record raises: logged, and the message is gone.       *)
SubscriberFails(s) ==
  /\ sub[s] # None
  /\ Fault("resolve_error")
  /\ missed' = [missed EXCEPT ![s] = @ \cup {sub[s]}]
  /\ sub' = [sub EXCEPT ![s] = None]
  /\ UNCHANGED <<rows, phase, inbox, cut, heap, job, locking>>

-----------------------------------------------------------------------------
(* Jobs, as ScheduledService runs them: an id popped while its job is       *)
(* active is dropped.                                                       *)
Goto(s, u, step) == job' = [job EXCEPT ![s][u] = step]

JobPops(s, u) ==
  /\ phase[s] \in {"read", "up"}
  /\ heap[s][u] > 0
  /\ heap' = [heap EXCEPT ![s][u] = @ - 1]
  /\ IF job[s][u] = "idle" THEN Goto(s, u, "begin") ELSE UNCHANGED job
  /\ UNCHANGED <<rows, intake, locking, faults>>

(* The record is not found: ValueError.  An error skips _on_job_success.    *)
JobBegins(s, u) ==
  /\ job[s][u] = "begin"
  /\ Goto(s, u, CASE acct[u] # "there" -> "finish"
                  [] s = "profile"     -> "mark"
                  [] OTHER             -> "fetch")
  /\ UNCHANGED <<rows, intake, heap, locking, faults>>

(* SET NX "locked"; the key is taken: another procedure is at work.         *)
(* Mutant: the answer of SET is read the wrong way round.                   *)
MarkInverted(u) ==
  /\ job["profile"][u] = "mark"
  /\ IF lock[u].ttl = 0
     THEN /\ lock' = [lock EXCEPT ![u] = [by |-> "mark", ttl |-> LockExpiry]]
          /\ Goto("profile", u, "success")
          /\ UNCHANGED left
     ELSE /\ left' = [left EXCEPT ![u] = LockTimeout]
          /\ Goto("profile", u, "try")
          /\ UNCHANGED lock
  /\ UNCHANGED <<rows, intake, heap, arch, faults>>

JobMarks(u) ==
  /\ job["profile"][u] = "mark"
  /\ IF lock[u].ttl = 0
     THEN /\ lock' = [lock EXCEPT ![u] = [by |-> "mark", ttl |-> LockExpiry]]
          /\ left' = [left EXCEPT ![u] = LockTimeout]
          /\ Goto("profile", u, "try")
     ELSE Goto("profile", u, "success") /\ UNCHANGED <<lock, left>>
  /\ UNCHANGED <<rows, intake, heap, arch, faults>>

WaitOver(u, step) == Goto("profile", u, step) /\ left' = [left EXCEPT ![u] = 0]

(* lock_ctx on the same key: SET NX, then the deadline, then a second of    *)
(* sleep.  RedisLockTimeoutError is logged and the job ends well.           *)
(* Mutant: the deadline is a second early.                                  *)
TryLockEarly(u) ==
  /\ job["profile"][u] = "try"
  /\ CASE lock[u].ttl = 0 -> /\ lock' = [lock EXCEPT ![u] = [by |-> "job", ttl |-> LockExpiry]]
                             /\ WaitOver(u, "fetch")
       [] lock[u].ttl > 0 /\ left[u] = 1 -> WaitOver(u, "success") /\ UNCHANGED lock
       [] OTHER -> Goto("profile", u, "sleep") /\ UNCHANGED <<lock, left>>
  /\ UNCHANGED <<rows, intake, heap, arch, faults>>

JobTriesLock(u) ==
  /\ job["profile"][u] = "try"
  /\ CASE lock[u].ttl = 0 -> /\ lock' = [lock EXCEPT ![u] = [by |-> "job", ttl |-> LockExpiry]]
                             /\ WaitOver(u, "fetch")
       [] lock[u].ttl > 0 /\ left[u] = 0 -> WaitOver(u, "success") /\ UNCHANGED lock
       [] OTHER -> Goto("profile", u, "sleep") /\ UNCHANGED <<lock, left>>
  /\ UNCHANGED <<rows, intake, heap, arch, faults>>

(* A second passes for the key and for whoever waits for it; a waiting job  *)
(* tries once a second.                                                     *)
Second(u) ==
  /\ lock[u].ttl > 0 \/ job["profile"][u] = "sleep"
  /\ job["profile"][u] # "try"
  /\ lock' = [lock EXCEPT ![u] = IF @.ttl <= 1 THEN Free ELSE [@ EXCEPT !.ttl = @ - 1]]
  /\ IF job["profile"][u] = "sleep"
     THEN left' = [left EXCEPT ![u] = @ - 1] /\ Goto("profile", u, "try")
     ELSE UNCHANGED <<left, job>>
  /\ UNCHANGED <<rows, intake, heap, arch, faults>>

(* lock_ctx ends: only the owner's key is deleted.                          *)
Released(u, who) == IF lock[u].by = who THEN [lock EXCEPT ![u] = Free] ELSE lock

JobEnds(u, step) == Goto("profile", u, step) /\ lock' = Released(u, "job")

(* get_user.  An HTTP status disables the task, a read timeout is logged,   *)
(* and auto_retry begins anew after a connect timeout.                      *)
JobFetches(u) ==
  /\ job["profile"][u] = "fetch"
  /\ \/ Goto("profile", u, "read") /\ UNCHANGED <<lock, faults>>
     \/ Fault("http") /\ JobEnds(u, "disable")
     \/ Fault("read_timeout") /\ JobEnds(u, "success")
     \/ Fault("connect_timeout") /\ JobEnds(u, "begin")
  /\ UNCHANGED <<rows, intake, heap, left, arch>>

(* The committed profile is updated, or one is to be added.                 *)
JobReadsProfile(u) ==
  /\ job["profile"][u] = "read"
  /\ IF profile[u] THEN JobEnds(u, "success")
                   ELSE Goto("profile", u, "add") /\ UNCHANGED lock
  /\ UNCHANGED <<rows, intake, heap, left, arch, faults>>

(* db.add resolves a committed profile or inserts; the insert waits for the *)
(* transaction of an archiver that has inserted one.                        *)
JobAddsProfile(u) ==
  /\ job["profile"][u] = "add"
  /\ IF arch[u] = "added" /\ ~profile[u]
     THEN Goto("profile", u, "blocked") /\ UNCHANGED <<lock, profile>>
     ELSE JobEnds(u, "success") /\ profile' = [profile EXCEPT ![u] = TRUE]
  /\ UNCHANGED <<acct, rec, login, intake, heap, left, arch, faults>>

(* The archiver is done: IntegrityError if it has committed.                *)
JobUnblocks(u) ==
  /\ job["profile"][u] = "blocked"
  /\ arch[u] # "added"
  /\ JobEnds(u, IF profile[u] THEN "finish" ELSE "success")
  /\ profile' = [profile EXCEPT ![u] = TRUE]
  /\ UNCHANGED <<acct, rec, login, intake, heap, left, arch, faults>>

JobDisables(u) ==
  /\ job["profile"][u] = "disable"
  /\ rec' = [rec EXCEPT !["profile"][u].enabled = FALSE]
  /\ Goto("profile", u, "success")
  /\ UNCHANGED <<acct, profile, login, intake, heap, locking, faults>>

(* ScoreFetcher: the rows of the leaderboards are ids already, so reading   *)
(* their beatmap_id raises as soon as there is one; without one, no score   *)
(* is eligible and the loop over the scores adds nothing.                   *)
ScoresFetched(u) ==
  /\ job["score"][u] = "fetch"
  /\ \E leaderboards \in BOOLEAN :
       Goto("score", u, IF leaderboards THEN "finish" ELSE "success")
  /\ UNCHANGED <<rows, intake, heap, locking, faults>>

(* _on_job_success.                                                         *)
JobSucceeds(s, u) ==
  /\ job[s][u] = "success"
  /\ rec' = [rec EXCEPT ![s][u].last = TRUE]
  /\ Goto(s, u, "finish")
  /\ UNCHANGED <<acct, profile, login, intake, heap, locking, faults>>

(* Every job is scheduled again, whatever its record says by now.           *)
JobFinishes(s, u) ==
  /\ job[s][u] = "finish"
  /\ heap[s][u] < MaxHeap
  /\ heap' = [heap EXCEPT ![s][u] = @ + 1]
  /\ Goto(s, u, "idle")
  /\ UNCHANGED <<rows, intake, locking, faults>>

-----------------------------------------------------------------------------
(* BeatmapManager._populate_profile inside the transaction of an archive(), *)
(* of a user that is not restricted.                                        *)
ArchiverLocks(u) ==
  /\ "archiver" \in Faults
  /\ phase["profile"] # "off"
  /\ acct[u] = "there"
  /\ arch[u] = "idle"
  /\ lock[u].ttl = 0
  /\ lock' = [lock EXCEPT ![u] = [by |-> "archiver", ttl |-> LockExpiry]]
  /\ arch' = [arch EXCEPT ![u] = "held"]
  /\ UNCHANGED <<rows, intake, heap, job, left, faults>>

ArchiverReads(u) ==
  /\ arch[u] = "held"
  /\ IF profile[u]
     THEN arch' = [arch EXCEPT ![u] = "idle"] /\ lock' = Released(u, "archiver")
     ELSE arch' = [arch EXCEPT ![u] = "absent"] /\ UNCHANGED lock
  /\ UNCHANGED <<rows, intake, heap, job, left, faults>>

(* The lock is given back before the transaction ends.                      *)
ArchiverAdds(u) ==
  /\ arch[u] = "absent"
  /\ arch' = [arch EXCEPT ![u] = "added"]
  /\ lock' = Released(u, "archiver")
  /\ UNCHANGED <<rows, intake, heap, job, left, faults>>

ArchiverEnds(u) ==
  /\ arch[u] = "added"
  /\ arch' = [arch EXCEPT ![u] = "idle"]
  /\ \/ /\ profile' = [profile EXCEPT ![u] = TRUE]
        /\ rec' = [rec EXCEPT !["profile"][u].last = TRUE]
        /\ UNCHANGED faults
     \/ Fault("rollback") /\ UNCHANGED <<profile, rec>>
  /\ UNCHANGED <<acct, login, intake, heap, job, left, lock>>

(* The process dies.  Rows and the keys of Redis stay.                      *)
Restart ==
  /\ Fault("restart")
  /\ acct' = [u \in Users |-> IF acct[u] = "open" THEN "none" ELSE acct[u]]
  /\ login' = [u \in Users |-> 0]
  /\ phase' = [s \in Services |-> IF phase[s] = "off" THEN "off" ELSE "down"]
  /\ inbox' = [s \in Services |-> << >>]
  /\ sub' = [s \in Services |-> None]
  /\ heap' = [s \in Services |-> [u \in Users |-> 0]]
  /\ job' = [s \in Services |-> [u \in Users |-> "idle"]]
  /\ arch' = [u \in Users |-> "idle"]
  /\ UNCHANGED <<rec, profile, left, lock, missed, cut>>

-----------------------------------------------------------------------------
Serve(s) == Preload(s) \/ Subscribe(s) \/ SubscriberReceives(s) \/ SubscriberLoads(s)

ProfileJob(u) ==
  \/ JobMarks(u) \/ JobTriesLock(u) \/ JobFetches(u) \/ JobReadsProfile(u)
  \/ JobAddsProfile(u) \/ JobUnblocks(u) \/ JobDisables(u)

Job(s, u) == JobBegins(s, u) \/ JobSucceeds(s, u) \/ JobFinishes(s, u)

Archiver(u) == ArchiverReads(u) \/ ArchiverAdds(u) \/ ArchiverEnds(u)

Next ==
  \/ \E u \in Users :
       \/ InsertUser(u) \/ CommitUser(u) \/ RollbackUser(u)
       \/ LoginEnables(u) \/ LoginCommits(u)
       \/ ProfileJob(u) \/ ScoresFetched(u) \/ Second(u)
       \/ ArchiverLocks(u) \/ Archiver(u)
       \/ \E s \in Services : JobPops(s, u) \/ Job(s, u)
  \/ \E s \in Services : Serve(s) \/ SubscriberFails(s)
  \/ Restart

Spec == Init /\ [][Next]_vars

(* Transactions and archives come to their end, the services start and run  *)
(* (JobsRun of ScheduledService), and seconds pass.  Nobody has to insert a *)
(* user or to log in.                                                       *)
Fairness ==
  /\ \A s \in Services : WF_vars(Serve(s))
  /\ \A u \in Users :
       /\ WF_vars(CommitUser(u)) /\ WF_vars(LoginCommits(u))
       /\ WF_vars(ProfileJob(u)) /\ WF_vars(ScoresFetched(u)) /\ WF_vars(Second(u))
       /\ WF_vars(Archiver(u))
       /\ \A s \in Services : WF_vars(JobPops(s, u)) /\ WF_vars(Job(s, u))

FairSpec == Spec /\ Fairness

-----------------------------------------------------------------------------
Served(s, u) ==
  \/ u \in {inbox[s][i] : i \in DOMAIN inbox[s]}
  \/ sub[s] = u
  \/ heap[s][u] > 0
  \/ job[s][u] # "idle"

(* "Load enabled profile fetch jobs into the scheduler at startup" and a new *)
(* user's job "will be picked up by this service" (ProfileFetcher): once a   *)
(* service is up, every committed and enabled task has a message, a heap     *)
(* entry or a running job, whatever was published before its commit, rolled  *)
(* back, timed out or restarted.  There are two ways to go unserved: the     *)
(* task's message met no subscriber or failed in it (missed, which the next  *)
(* preload mends), or the last preload, which reads QueryLimit rows, did not *)
(* come to it (cut).                                                         *)
EnabledIsServed ==
  \A s \in Services :
    phase[s] = "up" => \A u \in Enabled(s) : u \in missed[s] \cup cut[s] \/ Served(s, u)

(* The profile of every user is stored some day, though the job waits for   *)
(* its own key to expire, an archiver may take the key from under it, and   *)
(* the archiver's uncommitted profile makes its insert fail; unless the API  *)
(* answered with an error status, or the task is missed or cut as above.    *)
ProfileAppears ==
  \A u \in Users :
    acct[u] = "there" ~> \/ profile[u] \/ ~rec["profile"][u].enabled
                         \/ u \in missed["profile"] \cup cut["profile"]

(* A profile job without competition never gives its own key up: it reaches *)
(* get_user, since the key lives no longer than lock_ctx waits.             *)
OwnKeyOutlived ==
  [][\A u \in Users :
       job["profile"][u] = "try" /\ job'["profile"][u] = "success" => lock[u].by = "archiver"]_vars

=============================================================================

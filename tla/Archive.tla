-------------------------------- MODULE Archive --------------------------------
(***************************************************************************)
(* BeatmapManager.archive (app/beatmaps/manager.py) for one beatmapset,    *)
(* called by the queue daemon and by POST /beatmapsets at the same time.   *)
(* A call is one Postgres transaction (READ COMMITTED) that runs a         *)
(* sequence of steps with an await between any two; the Redis locks, the   *)
(* advisory locks and the listeners of app/database/events are included.   *)
(* The number of a snapshot stands for its id too: both grow under the     *)
(* advisory lock of the beatmapset.  One user hosts and owns everything.   *)
(***************************************************************************)
EXTENDS Integers, Sequences, FiniteSets, FiniteSetsExt, SequencesExt

CONSTANTS
  Archivers,   \* concurrent callers of archive()
  Requests,    \* rows of the requests table for the beatmapset
  Maps,        \* the beatmaps, in the order of the payload
  Sums,        \* the versions of a beatmap: its checksums
  MaxArchives, \* bound: calls of archive()
  MaxUploads,  \* bound: changes of a beatmap on osu!
  MaxFaults    \* bound: crashes, HTTP errors and lock timeouts

ASSUME ArchiveAssumption ==
  /\ Sums \subseteq Nat /\ Sums # {}
  /\ {MaxArchives, MaxUploads, MaxFaults} \subseteq Nat
  /\ IsInjective(Maps)

VARIABLES
  osu,      \* the current version of every beatmap on osu!
  cache,    \* the cached beatmapset in Redis: {} or its version
  lock,     \* holders of the Redis locks "set" and "profile": {} or {archiver}
  db,       \* the committed rows
  tx,       \* the uncommitted rows of each call
  todo,     \* the steps each call has left
  ver,      \* the payload each call works on
  outcome,  \* how the last call of each archiver ended
  pending,  \* uncommitted request rows: the snapshot each is bound to, or 0
  late,     \* requests whose insert overlapped the newest snapshot's
  file,     \* .osu files on disk, by beatmap and snapshot number
  used      \* calls, uploads and faults so far

vars == <<osu, cache, lock, db, tx, todo, ver, outcome, pending, late, file, used>>

MapSet == ToSet(Maps)
Versions == [MapSet -> Sums]
Entities == {"user", "profile", "beatmapset", "tags"} \cup MapSet
Numbers == 1..(MaxArchives + 1)
MapSnaps == [map: MapSet, n: Numbers, sum: Sums]
SetSnaps == [n: Numbers, version: Versions]
Locks == {"set", "profile"}
Kinds == {"lock", "unlock", "look", "add", "insert", "check", "mapLook", "mapAdd", "mapFlush",
          "setAdd", "setFlush", "update", "download", "commit"}

NoRows == [ents |-> {}, maps |-> {}, sets |-> {}, moved |-> {}, missed |-> {}]
Nobody == {}
Missing == -1
Partial == -2
Dead == "dead"
Outcomes == {"new", "ok", "duplicate", "timeout", "missing", "network", "crash"}

-----------------------------------------------------------------------------
(* What a statement of call a sees: the committed rows and its own.        *)
SeenEnts(a) == db.ents \cup tx[a].ents
SeenMaps(a) == db.maps \cup tx[a].maps
SeenSets(a) == db.sets \cup tx[a].sets

(* The highest number, 0 without rows.                                     *)
Top(rows) == Max({r.n : r \in rows} \cup {0})
MapRows(rows, m) == {r \in rows : r.map = m}

(* pg_advisory_xact_lock is held from the insert until the transaction     *)
(* ends, so the holders are the calls with an uncommitted row.             *)
MapLocked(a, m) == \E b \in Archivers \ {a} : MapRows(tx[b].maps, m) # {}
SetLocked(a) == \E b \in Archivers \ {a} : tx[b].sets # {}

-----------------------------------------------------------------------------
(* The steps of the methods of BeatmapManager.                             *)
Step(kind, arg) == <<kind, arg>>
Ensure(e) == Step("look", e)

PopulateProfile == <<Step("lock", "profile"), Ensure("profile"), Step("unlock", "profile")>>
PopulateUser == <<Ensure("user")>> \o PopulateProfile
PopulateBeatmaps == FlattenSeq([i \in DOMAIN Maps |-> PopulateUser \o <<Ensure(Maps[i])>>])
PopulateBeatmapset ==
  <<Step("lock", "set")>> \o PopulateUser \o <<Ensure("beatmapset")>> \o PopulateBeatmaps
    \o <<Step("unlock", "set")>>

SnapshotBeatmapset ==
  [i \in DOMAIN Maps |-> Step("mapLook", Maps[i])]
    \o <<Ensure("tags"), Step("setAdd", ""), Step("commit", "")>>
SnapshotBeatmap(m) == PopulateUser \o <<Step("mapAdd", m)>>
UpdateBeatmapset == [i \in DOMAIN Maps |-> Step("update", Maps[i])] \o <<Step("commit", "")>>

Idle(a) == todo[a] = <<>>
At(a, kind) == ~Idle(a) /\ Head(todo[a])[1] = kind
Arg(a) == Head(todo[a])[2]

(* Go on with the steps s instead of the current one.                      *)
Then(a, s) == todo' = [todo EXCEPT ![a] = s \o Tail(@)]
Done(a) == Then(a, <<>>)

(* The steps s come last, before the commit.                               *)
BeforeCommit(a, s) == Front(Tail(todo[a])) \o s \o <<Last(todo[a])>>

Count(what) == used[what] < (CASE what = "archives" -> MaxArchives
                               [] what = "uploads" -> MaxUploads
                               [] what = "faults" -> MaxFaults)
               /\ used' = [used EXCEPT ![what] = @ + 1]

(* An exception leaves archive(): the locks the call still owns are        *)
(* released and the transaction is rolled back.                            *)
Fail(a, reason) ==
  /\ todo' = [todo EXCEPT ![a] = <<>>]
  /\ tx' = [tx EXCEPT ![a] = NoRows]
  /\ lock' = [l \in Locks |-> lock[l] \ {a}]
  /\ outcome' = [outcome EXCEPT ![a] = reason]
  /\ UNCHANGED <<osu, cache, db, ver, pending, late>>

-----------------------------------------------------------------------------
First == CHOOSE s \in Sums : \A t \in Sums : s <= t

(* Nothing is stored but perhaps the user, who may have logged in before   *)
(* and have a profile; or the first version has been archived.             *)
NotArchived(ents) ==
  [ents |-> ents, maps |-> {}, sets |-> {}, listing |-> 0,
   mapListing |-> [m \in MapSet |-> 0], req |-> [r \in Requests |-> 0]]

Archived ==
  [ents |-> Entities,
   maps |-> {[map |-> m, n |-> 1, sum |-> First] : m \in MapSet},
   sets |-> {[n |-> 1, version |-> [m \in MapSet |-> First]]},
   listing |-> 1, mapListing |-> [m \in MapSet |-> 1], req |-> [r \in Requests |-> 0]]

Init ==
  /\ osu = [m \in MapSet |-> First]
  /\ cache = {}
  /\ lock = [l \in Locks |-> Nobody]
  /\ \/ /\ \E ents \in {{}, {"user"}, {"user", "profile"}} : db = NotArchived(ents)
        /\ file = [m \in MapSet |-> [n \in Numbers |-> Missing]]
     \/ /\ db = Archived
        /\ file = [m \in MapSet |-> [n \in Numbers |-> IF n = 1 THEN First ELSE Missing]]
  /\ tx = [a \in Archivers |-> NoRows]
  /\ todo = [a \in Archivers |-> <<>>]
  /\ ver = [a \in Archivers |-> osu]
  /\ outcome = [a \in Archivers |-> "new"]
  /\ pending = [r \in Requests |-> 0]
  /\ late = {}
  /\ used = [archives |-> 0, uploads |-> 0, faults |-> 0]

(* get_beatmapset: the cached payload, unless it has expired.              *)
Fetch(a) ==
  /\ Idle(a)
  /\ Count("archives")
  /\ \E v \in {osu} \cup cache :
       /\ cache' = {v}
       /\ ver' = [ver EXCEPT ![a] = v]
  /\ todo' = [todo EXCEPT ![a] = PopulateBeatmapset \o <<Step("check", "")>>]
  /\ UNCHANGED <<osu, lock, db, tx, outcome, pending, late, file>>

(* lock_ctx: SET NX, retried until it succeeds or the timeout passes.      *)
Lock(a) ==
  /\ At(a, "lock")
  /\ lock[Arg(a)] = Nobody
  /\ lock' = [lock EXCEPT ![Arg(a)] = {a}]
  /\ Done(a)
  /\ UNCHANGED <<osu, cache, db, tx, ver, outcome, pending, late, file, used>>

LockTimeout(a) ==
  /\ At(a, "lock")
  /\ lock[Arg(a)] # Nobody
  /\ Count("faults")
  /\ Fail(a, "timeout")
  /\ UNCHANGED file

(* Only the owner's token deletes the key.                                 *)
Unlock(a) ==
  /\ At(a, "unlock")
  /\ lock' = [lock EXCEPT ![Arg(a)] = @ \ {a}]
  /\ Done(a)
  /\ UNCHANGED <<osu, cache, db, tx, ver, outcome, pending, late, file, used>>

(* Mutant: a lock is renewed as long as its owner lives.                   *)
LockRenewed(l) ==
  /\ lock[l] = {Dead}
  /\ lock' = [lock EXCEPT ![l] = Nobody]
  /\ UNCHANGED <<osu, cache, db, tx, todo, ver, outcome, pending, late, file, used>>

(* LOCK_EXPIRY: the key goes, whatever its owner is doing.                 *)
LockExpires(l) ==
  /\ lock[l] # Nobody
  /\ lock' = [lock EXCEPT ![l] = Nobody]
  /\ UNCHANGED <<osu, cache, db, tx, todo, ver, outcome, pending, late, file, used>>

(* get, then add: the row is inserted when the select did not see it.      *)
Look(a) ==
  /\ At(a, "look") \/ At(a, "add")
  /\ Then(a, IF Arg(a) \in SeenEnts(a) THEN <<>> ELSE <<Step("insert", Arg(a))>>)
  /\ UNCHANGED <<osu, cache, lock, db, tx, ver, outcome, pending, late, file, used>>

(* get_user fails: RestrictedUserError, and a blank profile is added.      *)
UserRestricted(a) ==
  /\ At(a, "look") /\ Arg(a) = "profile"
  /\ "profile" \notin SeenEnts(a)
  /\ Count("faults")
  /\ Then(a, <<Step("unlock", "profile"), Step("lock", "profile"), Step("add", "profile")>>)
  /\ UNCHANGED <<osu, cache, lock, db, tx, ver, outcome, pending, late, file>>

(* The flush waits for an uncommitted row with the same key.  A committed  *)
(* one is an IntegrityError: where it is caught, the transaction is        *)
(* already lost and the next statement raises.                             *)
Insert(a) ==
  /\ At(a, "insert")
  /\ \A b \in Archivers \ {a} : Arg(a) \notin tx[b].ents
  /\ IF Arg(a) \in db.ents
     THEN Fail(a, "duplicate") /\ UNCHANGED <<file, used>>
     ELSE /\ tx' = [tx EXCEPT ![a].ents = @ \cup {Arg(a)}]
          /\ Done(a)
          /\ UNCHANGED <<osu, cache, lock, db, ver, outcome, pending, late, file, used>>

(* The lookup by checksum runs in a session of its own.                    *)
Check(a) ==
  /\ At(a, "check")
  /\ Then(a, IF \E s \in db.sets : s.version = ver[a] THEN UpdateBeatmapset ELSE SnapshotBeatmapset)
  /\ UNCHANGED <<osu, cache, lock, db, tx, ver, outcome, pending, late, file, used>>

-----------------------------------------------------------------------------
HasMap(rows, m, v) == \E r \in rows : r.map = m /\ r.sum = v[m]

(* Mutant: any snapshot of the beatmap is reused.                          *)
MapLookAny(a) ==
  /\ At(a, "mapLook")
  /\ Then(a, IF MapRows(SeenMaps(a), Arg(a)) # {} THEN <<>> ELSE SnapshotBeatmap(Arg(a)))
  /\ UNCHANGED <<osu, cache, lock, db, tx, ver, outcome, pending, late, file, used>>

(* _snapshot_beatmaps: reuse the snapshot with this checksum.              *)
MapLook(a) ==
  /\ At(a, "mapLook")
  /\ Then(a, IF HasMap(SeenMaps(a), Arg(a), ver[a]) THEN <<>> ELSE SnapshotBeatmap(Arg(a)))
  /\ UNCHANGED <<osu, cache, lock, db, tx, ver, outcome, pending, late, file, used>>

(* Mutant: a new beatmap is missing in the changelog.                      *)
MapAddUnlogged(a) ==
  /\ At(a, "mapAdd")
  /\ Then(a, IF HasMap(SeenMaps(a), Arg(a), ver[a]) THEN <<>> ELSE <<Step("mapFlush", Arg(a))>>)
  /\ UNCHANGED <<osu, cache, lock, db, tx, ver, outcome, pending, late, file, used>>

(* db.add resolves the checksum again; either way the beatmap goes into    *)
(* the changelog, and so into the download.                                *)
MapAdd(a) ==
  /\ At(a, "mapAdd")
  /\ LET rest == BeforeCommit(a, <<Step("download", Arg(a))>>)
         found == HasMap(SeenMaps(a), Arg(a), ver[a])
     IN todo' = [todo EXCEPT ![a] = IF found THEN rest ELSE <<Step("mapFlush", Arg(a))>> \o rest]
  /\ UNCHANGED <<osu, cache, lock, db, tx, ver, outcome, pending, late, file, used>>

(* Mutant: (latest or 1) + 1.                                              *)
NextNumberFromOne(rows) == Max({Top(rows), 1}) + 1

(* The number the listener gives.                                          *)
NextNumber(rows) == Top(rows) + 1

(* The advisory lock, the number, the insert.  BeatmapListing follows the  *)
(* new row when the transaction commits.                                   *)
MapFlush(a) ==
  /\ At(a, "mapFlush")
  /\ ~MapLocked(a, Arg(a))
  /\ IF HasMap(db.maps, Arg(a), ver[a])
     THEN Fail(a, "duplicate") /\ UNCHANGED <<file, used>>
     ELSE /\ tx' = [tx EXCEPT ![a].maps = @ \cup
                      {[map |-> Arg(a), n |-> NextNumber(MapRows(SeenMaps(a), Arg(a))),
                        sum |-> ver[a][Arg(a)]]}]
          /\ Done(a)
          /\ UNCHANGED <<osu, cache, lock, db, ver, outcome, pending, late, file, used>>

SetAdd(a) ==
  /\ At(a, "setAdd")
  /\ Then(a, IF \E s \in SeenSets(a) : s.version = ver[a] THEN <<>> ELSE <<Step("setFlush", "")>>)
  /\ UNCHANGED <<osu, cache, lock, db, tx, ver, outcome, pending, late, file, used>>

(* Mutant: the previous snapshot does not count as older.                  *)
MuchOlderRequests(n) == {r \in Requests : db.req[r] \in 1..(n - 2)}

(* The requests that the listener's UPDATE re-points: the committed ones.  *)
OlderRequests(n) == {r \in Requests : db.req[r] \in 1..(n - 1)}

SetFlush(a) ==
  /\ At(a, "setFlush")
  /\ ~SetLocked(a)
  /\ IF \E s \in db.sets : s.version = ver[a]
     THEN Fail(a, "duplicate") /\ UNCHANGED <<file, used>>
     ELSE /\ LET n == NextNumber(SeenSets(a))
             IN tx' = [tx EXCEPT ![a].sets = {[n |-> n, version |-> ver[a]]},
                                 ![a].moved = OlderRequests(n),
                                 ![a].missed = {r \in Requests : pending[r] # 0}]
          /\ Done(a)
          /\ UNCHANGED <<osu, cache, lock, db, ver, outcome, pending, late, file, used>>

(* _update_beatmaps reads the snapshot of the checksum, which must exist,  *)
(* and populates the owners again when a field has changed.                *)
Update(a) ==
  /\ At(a, "update")
  /\ IF HasMap(SeenMaps(a), Arg(a), ver[a])
     THEN /\ \E s \in {<<>>, PopulateUser} : Then(a, s)
          /\ UNCHANGED <<osu, cache, lock, db, tx, ver, outcome, pending, late, file, used>>
     ELSE Fail(a, "missing") /\ UNCHANGED <<file, used>>

(* The file of the newest snapshot the call sees gets what osu! serves.    *)
Write(a, m, content) ==
  file' = [file EXCEPT ![m][Top(MapRows(SeenMaps(a), m))] = content]

Download(a) ==
  /\ At(a, "download")
  /\ Write(a, Arg(a), osu[Arg(a)])
  /\ Done(a)
  /\ UNCHANGED <<osu, cache, lock, db, tx, ver, outcome, pending, late, used>>

(* The stream breaks off after the file has been opened for writing.       *)
DownloadFails(a) ==
  /\ At(a, "download")
  /\ Count("faults")
  /\ Write(a, Arg(a), Partial)
  /\ Fail(a, "network")

(* Mutant: a listing is created but never updated.                         *)
ListingOnce(old, rows) == IF rows # {} /\ old = 0 THEN Top(rows) ELSE old

(* The after_insert listeners create or update the listing.                *)
NewListing(old, rows) == IF rows = {} THEN old ELSE Top(rows)

(* The end of the session's block.                                         *)
Commit(a) ==
  /\ At(a, "commit")
  /\ LET t == tx[a]
         n == Top(t.sets)
     IN /\ db' = [ents |-> db.ents \cup t.ents,
                  maps |-> db.maps \cup t.maps,
                  sets |-> db.sets \cup t.sets,
                  listing |-> NewListing(db.listing, t.sets),
                  mapListing |-> [m \in MapSet |-> NewListing(db.mapListing[m], MapRows(t.maps, m))],
                  req |-> [r \in Requests |-> IF r \in t.moved THEN n ELSE db.req[r]]]
        /\ late' = IF n = 0 THEN late ELSE t.missed
  /\ tx' = [tx EXCEPT ![a] = NoRows]
  /\ outcome' = [outcome EXCEPT ![a] = "ok"]
  /\ Done(a)
  /\ UNCHANGED <<osu, cache, lock, ver, pending, file, used>>

-----------------------------------------------------------------------------
(* QueueRequestHandler adds the row: the listener binds it to the newest   *)
(* committed snapshot (max of an empty set raises), and it is committed    *)
(* a moment later.                                                         *)
BindRequest(r) ==
  /\ db.req[r] = 0 /\ pending[r] = 0
  /\ db.sets # {}
  /\ pending' = [pending EXCEPT ![r] = Top(db.sets)]
  /\ tx' = [a \in Archivers |-> IF tx[a].sets = {} THEN tx[a]
                                ELSE [tx[a] EXCEPT !.missed = @ \cup {r}]]
  /\ UNCHANGED <<osu, cache, lock, db, todo, ver, outcome, late, file, used>>

CommitRequest(r) ==
  /\ pending[r] # 0
  /\ db' = [db EXCEPT !.req[r] = pending[r]]
  /\ pending' = [pending EXCEPT ![r] = 0]
  /\ UNCHANGED <<osu, cache, lock, tx, todo, ver, outcome, late, file, used>>

(* A mapper changes a beatmap, or changes it back.                         *)
Upload ==
  /\ Count("uploads")
  /\ \E m \in MapSet, s \in Sums : s # osu[m] /\ osu' = [osu EXCEPT ![m] = s]
  /\ UNCHANGED <<cache, lock, db, tx, todo, ver, outcome, pending, late, file>>

(* The process dies: Postgres rolls back, Redis and the disk keep what     *)
(* they have.                                                              *)
Crash ==
  /\ Count("faults")
  /\ \E a \in Archivers : ~Idle(a)
  /\ tx' = [a \in Archivers |-> NoRows]
  /\ todo' = [a \in Archivers |-> <<>>]
  /\ pending' = [r \in Requests |-> 0]
  /\ outcome' = [a \in Archivers |-> IF Idle(a) THEN outcome[a] ELSE "crash"]
  /\ lock' = [l \in Locks |-> IF lock[l] = Nobody THEN Nobody ELSE {Dead}]
  /\ UNCHANGED <<osu, cache, db, ver, late, file>>

Work(a) ==
  \/ Lock(a) \/ Unlock(a) \/ Look(a) \/ Insert(a) \/ Check(a)
  \/ MapLook(a) \/ MapAdd(a) \/ MapFlush(a) \/ SetAdd(a) \/ SetFlush(a)
  \/ Update(a) \/ Download(a) \/ Commit(a)

Next ==
  \/ \E a \in Archivers :
       Fetch(a) \/ Work(a) \/ LockTimeout(a) \/ UserRestricted(a) \/ DownloadFails(a)
  \/ \E l \in Locks : LockExpires(l)
  \/ \E r \in Requests : BindRequest(r) \/ CommitRequest(r)
  \/ Upload \/ Crash

Spec == Init /\ [][Next]_vars

(* A call goes on unless it waits, and a Redis lock has an expiry.         *)
Fairness ==
  /\ \A a \in Archivers : WF_vars(Work(a))
  /\ \A l \in Locks : WF_vars(LockExpires(l))

FairSpec == Spec /\ Fairness

-----------------------------------------------------------------------------
(* Every variable has its type.                                            *)
TypeOK ==
  /\ osu \in Versions
  /\ cache \in SUBSET Versions /\ Cardinality(cache) <= 1
  /\ lock \in [Locks -> SUBSET (Archivers \cup {Dead})] /\ \A l \in Locks : Cardinality(lock[l]) <= 1
  /\ db.ents \subseteq Entities /\ db.maps \subseteq MapSnaps /\ db.sets \subseteq SetSnaps
  /\ db.listing \in {0} \cup Numbers
  /\ db.mapListing \in [MapSet -> {0} \cup Numbers]
  /\ db.req \in [Requests -> {0} \cup Numbers]
  /\ \A a \in Archivers :
       /\ tx[a].ents \subseteq Entities
       /\ tx[a].maps \subseteq MapSnaps
       /\ tx[a].sets \subseteq SetSnaps
       /\ tx[a].moved \cup tx[a].missed \subseteq Requests
       /\ \A i \in DOMAIN todo[a] : todo[a][i] \in Kinds \X (Entities \cup Locks \cup {""})
  /\ ver \in [Archivers -> Versions]
  /\ outcome \in [Archivers -> Outcomes]
  /\ pending \in [Requests -> {0} \cup Numbers]
  /\ late \subseteq Requests
  /\ file \in [MapSet -> [Numbers -> Sums \cup {Missing, Partial}]]
  /\ used \in [archives: 0..MaxArchives, uploads: 0..MaxUploads, faults: 0..MaxFaults]

(* The snapshots of the beatmapset, and of each beatmap, are numbered      *)
(* 1, 2, 3, ... without a gap, whatever calls were rolled back in between  *)
(* (the before_insert listeners).                                          *)
NumbersDense ==
  /\ {s.n : s \in db.sets} = 1..Cardinality(db.sets)
  /\ \A m \in MapSet : {r.n : r \in MapRows(db.maps, m)} = 1..Cardinality(MapRows(db.maps, m))

(* The listings show the snapshots with the highest numbers (the           *)
(* after_insert listeners).                                                *)
ListingIsNewest ==
  /\ db.listing = Top(db.sets)
  /\ \A m \in MapSet : db.mapListing[m] = Top(MapRows(db.maps, m))

(* A stored snapshot of the beatmapset has the snapshots of all its        *)
(* beatmaps, which _update_beatmaps reads without a test for None.         *)
SnapshotWhole ==
  \A s \in db.sets, m \in MapSet : HasMap(db.maps, m, s.version)

(* A request points at the newest snapshot, except when its own insert     *)
(* overlapped the transaction of that snapshot: the UPDATE of              *)
(* beatmapset_snapshot_after_insert sees committed rows only.              *)
RequestsFollow ==
  \A r \in Requests : db.req[r] \in {0, Top(db.sets)} \/ r \in late

(* Every stored beatmap snapshot has its .osu file: the download comes     *)
(* before the commit, so get_path finds it.                                *)
FilesThere ==
  \A r \in db.maps : file[r.map][r.n] # Missing

(* Every call of archive() ends, although a call may wait in Postgres for  *)
(* a row of another one that waits in Redis for a lock of the first.       *)
ArchiveEnds == \A a \in Archivers : ~Idle(a) ~> Idle(a)

=============================================================================

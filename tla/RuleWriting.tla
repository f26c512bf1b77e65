---------------------------- MODULE RuleWriting ----------------------------
(***************************************************************************)
(* How the rules of one queue are written: POST, PATCH, DELETE and PUT of  *)
(* /queues/{queue_id}/rules, by callers that may run at once.  Each writer *)
(* reads inside its own transaction (READ COMMITTED) and writes at its     *)
(* commit; no constraint of the table keeps two rules apart.               *)
(*                                                                         *)
(* The queue exists and the caller may write it; otherwise the handlers    *)
(* answer 404 or 403 before anything below happens.                        *)
(***************************************************************************)
EXTENDS RuleChecks, Bags

CONSTANTS
  Kinds,        \* the families of inputs
  Writers(_),   \* the concurrent callers of a kind
  Bodies(_),    \* the rules they POST: type, version, config
  Patches(_),   \* the updates they PATCH: some of config, version, is_active
  Lists(_),     \* the lists they PUT
  Contexts,     \* the contexts rules are evaluated in
  MaxId(_)      \* bound: rules ever created

VARIABLES
  kind,
  rules,   \* the table: rows with id, type, version, config, is_active; and, as a
           \* history, what was sent last for each column, and the columns repeated
           \* by a PATCH that found them changed (Remembered)
  nextId,
  w        \* for each writer: pc ("refused" after a 400), its request, the ids and the
           \* row it has read, and whether no other writer has committed since

vars == <<kind, rules, nextId, w>>

Idle == [pc |-> "idle", req |-> None, seen |-> {}, loaded |-> None, fresh |-> TRUE]

-----------------------------------------------------------------------------
(* _normalize_config: equal for configs that differ in the order of lists, *)
(* at any level.                                                           *)
BagOfSeq(s) == [e \in ToSet(s) |-> Cardinality({i \in DOMAIN s : s[i] = e})]

RECURSIVE normalize_config(_)
normalize_config(c) ==
  [f \in DOMAIN c |->
     CASE f \in {"target", "genre_ids", "language_ids", "allowed_modes", "tag_ids"} /\ c[f] # None ->
            BagOfSeq(c[f])
       [] f = "rules" ->
            BagOfSeq([i \in DOMAIN c.rules |->
                        [type |-> ChildType(c.rules[i]),
                         config |-> normalize_config(ChildConfig(c.rules[i]))]])
       [] OTHER -> c[f]]

Key(type, version, config) == <<type, version, normalize_config(config)>>
RowKey(r) == Key(r.type, r.version, r.config)

validate_rule_version(type, version) ==
  get_supported_versions(type) = None \/ version \in get_supported_versions(type)

Row(id, b) ==
  [id |-> id, type |-> b.type, version |-> b.version, config |-> model_dump(b.type, b.config),
   is_active |-> b.is_active, repeated |-> {},
   sent |-> [version |-> b.version, config |-> b.config, is_active |-> b.is_active]]

Rows(ids) == {r \in rules : r.id \in ids}
Ids(rows) == {r.id : r \in rows}

Reads(i, req, seen) ==
  w' = [w EXCEPT ![i] = [@ EXCEPT !.pc = "read", !.req = req, !.seen = seen]]
Answers(i, code) ==
  w' = [w EXCEPT ![i] = [Idle EXCEPT !.pc = IF code = 400 THEN "refused" ELSE "idle"]]
Commits(i) ==
  w' = [j \in DOMAIN w |-> IF j = i THEN Idle
                           ELSE [w[j] EXCEPT !.fresh = w[j].pc \notin {"selected", "read"}]]
Free(i) == i \in Writers(kind) /\ w[i].pc \in {"idle", "refused"}
Busy(i, op) == i \in Writers(kind) /\ w[i].pc = "read" /\ w[i].req.op = op

(* The bound on ids: room for n more rules besides those being written.    *)
Creates(req) == CASE req.op = "post" -> 1 [] req.op = "put" -> Len(req.list) [] OTHER -> 0
Room(n) ==
  LET busy == {i \in Writers(kind) : w[i].pc = "read"}
  IN nextId + MapThenSumSet(LAMBDA i : Creates(w[i].req), busy) + n <= MaxId(kind) + 1

-----------------------------------------------------------------------------
Init ==
  /\ kind \in Kinds
  /\ rules = {}
  /\ nextId = 1
  /\ w = [i \in Writers(kind) |-> Idle]

(* POST: the spec, RuleCreateSchema, the version, then the rules there are *)
PostReads(i) ==
  /\ Free(i) /\ Room(1)
  /\ \E b \in Bodies(kind) :
       LET req == [op |-> "post", body |-> b]
       IN IF ~(OneOf(b.config) /\ ConfigValid(b.type, b.config) /\ validate_rule_version(b.type, b.version))
          THEN Answers(i, 400)
          ELSE IF Key(b.type, b.version, model_dump(b.type, b.config)) \in {RowKey(r) : r \in rules}
          THEN Answers(i, 409)
          ELSE Reads(i, req, {})
  /\ UNCHANGED <<kind, rules, nextId>>

PostCommits(i) ==
  /\ Busy(i, "post")
  /\ rules' = rules \cup {Row(nextId, w[i].req.body)}
  /\ nextId' = nextId + 1
  /\ Commits(i)
  /\ UNCHANGED kind

\* Mutant: a version is accepted whatever the type of the rule.
PatchSelectsAnyVersion(i) ==
  /\ Free(i)
  /\ \E id \in 1..(nextId - 1), u \in Patches(kind) :
       LET req == [op |-> "patch", id |-> id, updates |-> u]
           row == CHOOSE r \in rules : r.id = id
       IN IF "config" \in DOMAIN u /\ ~OneOf(u.config) THEN Answers(i, 400)
          ELSE IF id \notin Ids(rules) THEN Answers(i, 404)
          ELSE IF "config" \in DOMAIN u /\ ~ConfigValid(row.type, u.config)
          THEN Answers(i, 400)
          ELSE w' = [w EXCEPT ![i] = [Idle EXCEPT !.pc = "selected", !.req = req, !.loaded = row]]
  /\ UNCHANGED <<kind, rules, nextId>>

(* PATCH selects the rule; its type decides what config and version it may *)
(* be given.                                                               *)
PatchSelects(i) ==
  /\ Free(i)
  /\ \E id \in 1..(nextId - 1), u \in Patches(kind) :
       LET req == [op |-> "patch", id |-> id, updates |-> u]
           row == CHOOSE r \in rules : r.id = id
       IN IF "config" \in DOMAIN u /\ ~OneOf(u.config) THEN Answers(i, 400)
          ELSE IF id \notin Ids(rules) THEN Answers(i, 404)
          ELSE IF \/ "config" \in DOMAIN u /\ ~ConfigValid(row.type, u.config)
                  \/ "version" \in DOMAIN u /\ ~validate_rule_version(row.type, u.version)
          THEN Answers(i, 400)
          ELSE w' = [w EXCEPT ![i] = [Idle EXCEPT !.pc = "selected", !.req = req, !.loaded = row]]
  /\ UNCHANGED <<kind, rules, nextId>>

(* What the row would hold, and whether another rule already does.         *)
Given(u, f, old) == IF f \in DOMAIN u THEN u[f] ELSE old
Updated(u, row) ==
  [row EXCEPT !.version = Given(u, "version", @),
              !.is_active = Given(u, "is_active", @),
              !.config = IF "config" \in DOMAIN u THEN model_dump(row.type, u.config) ELSE @]

\* Mutant: the rule is compared with the others as it was loaded.
PatchChecksLoaded(i) ==
  /\ i \in Writers(kind)
  /\ w[i].pc = "selected"
  /\ LET req == w[i].req
         others == {r \in rules : r.id # req.id}
     IN IF RowKey(w[i].loaded) \in {RowKey(r) : r \in others}
        THEN Answers(i, 409)
        ELSE Reads(i, req, {})
  /\ UNCHANGED <<kind, rules, nextId>>

PatchChecks(i) ==
  /\ i \in Writers(kind)
  /\ w[i].pc = "selected"
  /\ LET req == w[i].req
         others == {r \in rules : r.id # req.id}
     IN IF RowKey(Updated(req.updates, w[i].loaded)) \in {RowKey(r) : r \in others}
        THEN Answers(i, 409)
        ELSE Reads(i, req, {})
  /\ UNCHANGED <<kind, rules, nextId>>

\* Mutant: the UPDATE writes every column, those not given as they were loaded.
FlushedWhole(row, old, new) ==
  [row EXCEPT !.version = new.version, !.is_active = new.is_active, !.config = new.config]

(* The UPDATE names the columns whose value differs from the one loaded.   *)
(* A row that is gone by then makes the flush, or the refresh, raise.      *)
Flushed(row, old, new) ==
  [row EXCEPT !.version = IF new.version # old.version THEN new.version ELSE @,
              !.is_active = IF new.is_active # old.is_active THEN new.is_active ELSE @,
              !.config = IF new.config # old.config THEN new.config ELSE @]

(* The history: what u sent, and the columns it gives the value they were  *)
(* loaded with, though another PATCH has changed them since.               *)
Remembered(row, u, old, new) ==
  [Flushed(row, old, new) EXCEPT
     !.sent = [f \in DOMAIN @ |-> Given(u, f, @[f])],
     !.repeated = (@ \ DOMAIN u) \cup {f \in DOMAIN u : new[f] = old[f] /\ row[f] # old[f]}]

PatchCommits(i) ==
  /\ Busy(i, "patch")
  /\ LET req == w[i].req
         new == Updated(req.updates, w[i].loaded)
     IN IF req.id \notin Ids(rules) THEN Answers(i, 500) /\ UNCHANGED rules
        ELSE /\ rules' = {IF r.id = req.id THEN Remembered(r, req.updates, w[i].loaded, new) ELSE r :
                           r \in rules}
             /\ Commits(i)
  /\ UNCHANGED <<kind, nextId>>

DeleteSelects(i) ==
  /\ Free(i)
  /\ \E id \in 1..(nextId - 1) :
       LET req == [op |-> "delete", id |-> id]
       IN IF id \in Ids(rules) THEN Reads(i, req, {}) ELSE Answers(i, 404)
  /\ UNCHANGED <<kind, rules, nextId>>

(* A row that another writer has deleted meanwhile is only a warning.      *)
DeleteCommits(i) ==
  /\ Busy(i, "delete")
  /\ rules' = rules \ Rows({w[i].req.id})
  /\ Commits(i)
  /\ UNCHANGED <<kind, nextId>>

(* PUT: two items may not share type and config, whatever their versions.  *)
PutReads(i) ==
  /\ Free(i)
  /\ \E list \in Lists(kind) :
       LET req == [op |-> "put", list |-> list]
           key(b) == <<b.type, normalize_config(model_dump(b.type, b.config))>>
       IN IF \E k \in DOMAIN list : ~(/\ OneOf(list[k].config)
                                      /\ ConfigValid(list[k].type, list[k].config)
                                      /\ validate_rule_version(list[k].type, list[k].version))
          THEN Answers(i, 400)
          ELSE IF Cardinality({key(list[k]) : k \in DOMAIN list}) < Len(list)
          THEN Answers(i, 409)
          ELSE Room(Len(list)) /\ Reads(i, req, Ids(rules))
  /\ UNCHANGED <<kind, rules, nextId>>

(* The rows it has read go, those that came since stay.                    *)
PutCommits(i) ==
  /\ Busy(i, "put")
  /\ LET list == w[i].req.list
     IN /\ rules' = (rules \ Rows(w[i].seen))
                      \cup {Row(nextId + k - 1, list[k]) : k \in DOMAIN list}
        /\ nextId' = nextId + Len(list)
  /\ Commits(i)
  /\ UNCHANGED kind

Next ==
  \E i \in Writers(kind) :
    \/ PostReads(i) \/ PostCommits(i)
    \/ PatchSelects(i) \/ PatchChecks(i) \/ PatchCommits(i)
    \/ DeleteSelects(i) \/ DeleteCommits(i)
    \/ PutReads(i) \/ PutCommits(i)

Spec == Init /\ [][Next]_vars

-----------------------------------------------------------------------------
(* The reference: what a config means, as it was sent.  An absent or null  *)
(* field has its documented default; a bound that is absent is no bound; a *)
(* string is the value it spells.                                          *)
Sent(t, c, f) ==
  IF Lookup(c, f, None) # None
  THEN IF c[f] # Quoted THEN c[f] ELSE IF f \in Flags THEN FALSE ELSE Half(3)
  ELSE CASE f = "logic" -> IF t = "beatmap_duration" THEN "max" ELSE "any"
         [] f = "ruleset" -> "osu"
         [] f = "normalize_versions" -> TRUE
         [] OTHER -> None

Measures(t) ==
  CASE t = "beatmap_duration" -> [total_length |-> <<"min_seconds", "max_seconds">>]
    [] t = "beatmap_bpm" -> [bpm |-> <<"min_bpm", "max_bpm">>]
    [] t = "beatmap_length" -> [hit_length |-> <<"min_hit_length", "max_hit_length">>,
                                total_length |-> <<"min_total_length", "max_total_length">>]
    [] t = "beatmap_star_rating" -> [difficulty_rating |-> <<"min", "max">>]
    [] t = "beatmap_ar_range" -> [ar |-> <<"min", "max">>]
    [] t = "beatmap_od_range" -> [accuracy |-> <<"min", "max">>]
    [] t = "beatmap_hp_range" -> [drain |-> <<"min", "max">>]
    [] t = "beatmap_cs_range" -> [cs |-> <<"min", "max">>]
    [] t = "beatmap_drain_range" -> [hit_length |-> <<"min", "max">>]
    [] OTHER -> NoFields

(* times * v is within the bounds on attribute a, taken times over.        *)
Fits(t, c, a, v, times) ==
  LET lo == Sent(t, c, Measures(t)[a][1])
      hi == Sent(t, c, Measures(t)[a][2])
  IN (lo = None \/ v >= times * lo) /\ (hi = None \/ v <= times * hi)

MeasureMeans(t, c, bs) ==
  LET attrs == DOMAIN Measures(t)
      fits(b) == \A a \in attrs : Fits(t, c, a, b[a], 1)
      logic == Sent(t, c, "logic")
  IN /\ bs # <<>>
     /\ CASE logic = "any" -> \E b \in ToSet(bs) : fits(b)
          [] logic = "all" -> \A b \in ToSet(bs) : fits(b)
          [] logic = "max" -> \E b \in ToSet(bs) : fits(b) /\ \A a \in attrs, d \in ToSet(bs) : d[a] <= b[a]
          [] logic = "min" -> \E b \in ToSet(bs) : fits(b) /\ \A a \in attrs, d \in ToSet(bs) : d[a] >= b[a]
          [] logic = "avg" -> \A a \in attrs : Fits(t, c, a, MapThenSumSet(LAMBDA k : bs[k][a], DOMAIN bs), Len(bs))

(* Two songs are one when their artist and title agree in either script.   *)
SameText(a, b, strip) == a.word = b.word /\ (strip \/ a.mark = b.mark)
Scripts(s) ==
  {<<s.artist, s.title>>,
   <<OrElse(s.artist_unicode, s.artist), OrElse(s.title_unicode, s.title)>>}
SameSong(a, b, strip) ==
  \E p \in Scripts(a), q \in Scripts(b) : SameText(p[1], q[1], strip) /\ SameText(p[2], q[2], strip)

(* Ranked sets are looked for on the first MAX_SEARCH_PAGES pages.         *)
RECURSIVE Means(_, _, _)
Means(t, c, x) ==
  CASE t \in {"rate_limit", "cooldown"} -> TRUE
    [] t = "blacklist" -> x.user \notin ToSet(c.target)
    [] DOMAIN Measures(t) # {} -> MeasureMeans(t, c, x.beatmaps)
    [] t = "beatmap_difficulty_count" ->
         Inside(Half(Len(x.beatmaps)), Sent(t, c, "min"), Sent(t, c, "max"))
    [] t = "beatmap_genre" -> x.set.genre \in ToSet(c.genre_ids)
    [] t = "beatmap_language" -> x.set.language \in ToSet(c.language_ids)
    [] t = "beatmap_mode" ->
         x.beatmaps # <<>> /\ \A b \in ToSet(x.beatmaps) : b.mode \in ToSet(c.allowed_modes)
    [] t = "beatmap_storyboard" -> Sent(t, c, "allowed") \/ ~x.set.storyboard
    [] t = "beatmap_video" -> Sent(t, c, "allowed") \/ ~x.set.video
    [] t = "beatmap_tags" ->
         LET has(k) == \E b \in ToSet(x.beatmaps) : Number(k) \in b.top_tag_ids
         IN IF Sent(t, c, "logic") = "all" THEN \A k \in ToSet(c.tag_ids) : has(k)
                                           ELSE \E k \in ToSet(c.tag_ids) : has(k)
    [] t = "never_ranked" ->
         LET pages == x.ranked[Sent(t, c, "ruleset")]
         IN \A k \in DOMAIN pages : k <= MAX_SEARCH_PAGES =>
              \A s \in pages[k] : ~SameSong(x.set.song, s, Sent(t, c, "normalize_versions"))
    [] t = "unique_artist_title" ->
         \A r \in x.requested :
           r.beatmapset = x.set.id \/ ~SameSong(x.set.song, r.song, Sent(t, c, "normalize_versions"))
    [] t = "composite" ->
         LET child(k) == Means(c.rules[k].type, c.rules[k].config, x)
         IN CASE c.operator = "and" -> \A k \in DOMAIN c.rules : child(k)
              [] c.operator = "or" -> \E k \in DOMAIN c.rules : child(k)
              [] c.operator = "not" -> ~child(1)

(* No atom inside a composite is left empty, given a null, or given a      *)
(* string for a number or a Boolean, unless its check parses its config    *)
(* anew: those reach the checks as they were sent.                         *)
RECURSIVE Explicit(_, _)
Explicit(t, c) ==
  t = "composite" =>
    \A r \in ToSet(c.rules) :
      /\ {"type", "config"} \subseteq DOMAIN r
      /\ IF r.type = "composite" THEN Explicit(r.type, r.config)
         ELSE /\ DOMAIN r.config # {}
              /\ \A f \in DOMAIN r.config :
                   /\ r.config[f] # None
                   /\ r.config[f] = Quoted => r.type \in Tier3
                   /\ f = "tag_ids" => Quoted \notin ToSet(r.config[f])

-----------------------------------------------------------------------------
(* A stored rule runs: whichever of POST, PATCH and PUT wrote it last, the *)
(* runners do not skip it for its version, and neither build_rule_node nor *)
(* evaluate raises on its tree, however deep it was allowed to be.         *)
StoredRuns ==
  \A r \in rules :
    /\ validate_rule_version(r.type, r.version)
    /\ ~BuildRaises(r.type, r.config)
    /\ ~TooDeep(r.type, r.config, 0)

(* A stored rule means what was sent: after defaults are filled, nulls     *)
(* dropped and columns updated one at a time by racing PATCHes, its        *)
(* version and is_active are those committed last, and evaluating it on    *)
(* any beatmapset decides what the config committed last says, by the      *)
(* documentation of its type.  A column is excepted when its last PATCH    *)
(* repeated the value it had loaded and another had changed it meanwhile:  *)
(* the UPDATE leaves that column out, and the other's value stays.         *)
StoredMeansSent ==
  \A r \in rules :
    /\ \A f \in {"version", "is_active"} \ r.repeated : r[f] = r.sent[f]
    /\ "config" \notin r.repeated /\ Explicit(r.type, r.sent.config) =>
         \A x \in Contexts :
           (x.client <=> effective_rule_tier(r.type, r.config) = 3) =>
             (Evaluate(r.type, r.config, x) <=> Means(r.type, r.sent.config, x))

(* Two rules of a queue come to share type, version and config only by a   *)
(* write that raced another: one that committed between its reading of the *)
(* rules, or of the row it updates, and its own commit.                    *)
Distinct(rows) == \A r, s \in rows : RowKey(r) = RowKey(s) => r = s
DuplicatesNeedRace ==
  [][Distinct(rules) /\ ~Distinct(rules')
       => \E i \in Writers(kind) : w[i].pc = "read" /\ w'[i].pc = "idle" /\ ~w[i].fresh]_vars
=============================================================================

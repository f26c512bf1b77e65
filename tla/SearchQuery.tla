----------------------------- MODULE SearchQuery -----------------------------
(***************************************************************************)
(* The query that app/search/engine.py composes, run on a database.        *)
(*                                                                         *)
(* A search has a scope (the kind of row it returns), optional search      *)
(* terms, sorting options and filters.  The engine builds one SELECT out   *)
(* of common table expressions (app/database/ctes): the ids in which every *)
(* term occurs, a score per category of field, one ranked value per        *)
(* sorting option and one projected value per filter.                      *)
(*                                                                         *)
(* A database is a record:                                                 *)
(*   maps, snapshots, requests, queues, profiles   sets of row ids         *)
(*   pairs     beatmap snapshot / beatmapset snapshot association          *)
(*   setOf     the beatmapset of a beatmapset snapshot                     *)
(*   snapOf    Request.beatmapset_snapshot_id;  queueOf  Request.queue_id  *)
(*             (Request.beatmapset_id is the beatmapset of that snapshot)  *)
(*   owns      <<row, profile>> for the rows whose user has a profile      *)
(*   listed    the snapshots that have a listing                           *)
(*   text      <<row, field, term, pattern>>: LIKE matches                 *)
(*   val       the value, in each row, of the column sorted or filtered by *)
(*   ratings, lengths of beatmaps, json of beatmapset snapshots: what the  *)
(*             derived fields of a snapshot are computed from              *)
(* A text is known only by the patterns of each term it matches, a value   *)
(* by a number or Null.                                                    *)
(***************************************************************************)
EXTENDS SnapshotFields, SearchMappings

CONSTANTS
    Kinds,          \* of searches
    Databases(_),   \* the databases searched, and the
    Queries(_)      \* queries asked, in a kind

VARIABLES
    db,         \* the database, unchanged by a search
    query,      \* [scope, terms, weights, mults, sorting, filters, field, limit, offset]
    status,     \* "none" before the search, then "ok" or "KeyError"
    found       \* the page of rows

vars == <<db, query, status, found>>

-----------------------------------------------------------------------------
(* The rows of a scope and of a category. *)

CategoryRows(c) ==
    CASE c = "beatmap"    -> db.maps
      [] c = "beatmapset" -> db.snapshots
      [] c = "queue"      -> db.queues
      [] c = "request"    -> db.requests
      [] c = "profile"    -> db.profiles

\* The rows of the base SELECT: listed snapshots only, every queue, and the
\* requests joined with their snapshot (which a foreign key guarantees).
ScopeRows ==
    CASE query.scope = "beatmaps"    -> db.maps \cap db.listed
      [] query.scope = "beatmapsets" -> db.snapshots \cap db.listed
      [] query.scope = "queues"      -> db.queues
      [] query.scope = "requests"    -> db.requests

\* Beatmapset snapshots of the beatmapset that a request is for.
SameSet(r) == {s \in db.snapshots : db.setOf[s] = db.setOf[db.snapOf[r]]}

MapsOf(s) == {m \in db.maps : <<m, s>> \in db.pairs}

\* The derived field f of a snapshot, in Python and in SQL.
Ratings(s) == LET ms == SetToSeq(MapsOf(s)) IN [i \in DOMAIN ms |-> db.ratings[ms[i]]]
Lengths(s) == LET ms == SetToSeq(MapsOf(s)) IN [i \in DOMAIN ms |-> db.lengths[ms[i]]]
Shown(f, s) == PythonField(f, Ratings(s), Lengths(s), db.json[s])
Searched(f, s) == SqlField(f, Ratings(s), Lengths(s), db.json[s])

\* The target of the sorted or filtered field in the row that holds it.
Target(y) ==
    IF y \in db.snapshots /\ query.field # Null THEN Searched(query.field, y) ELSE db.val[y]

-----------------------------------------------------------------------------
(* Search terms: which ids are found (ctes/search_terms_filtered.py). *)

Weighted(c) == {f \in CATEGORY_MODEL_FIELDS[c] : query.weights[c][f] # Null}

\* The rows of category c whose field f contains the term.
Containing(f, c, t) ==
    {y \in CategoryRows(c) : <<y, f, t, "substring">> \in db.text}

\* get_filter_stmt, one definition per scope: the ids reached from the rows
\* in which the term occurs.  Queues and requests are joined with every
\* snapshot of the requested beatmapset.
BeatmapsFilter(c, hits) ==
    IF c = "beatmap" THEN hits
    ELSE {p[1] : p \in {p \in db.pairs : p[2] \in hits}}

BeatmapsetsFilter(c, hits) ==
    IF c = "beatmap" THEN {p[2] : p \in {p \in db.pairs : p[1] \in hits}}
    ELSE hits

RequestsFilter(c, hits) ==
    CASE c = "beatmap"    -> {r \in db.requests :
                                \E s \in SameSet(r) : MapsOf(s) \cap hits # {}}
      [] c = "beatmapset" -> {r \in db.requests : SameSet(r) \cap hits # {}}
      [] c = "request"    -> hits

QueuesFilter(c, hits) ==
    IF c = "queue" THEN hits
    ELSE {db.queueOf[r] : r \in RequestsFilter(c, hits)}

get_filter_stmt(c, hits) ==
    CASE query.scope = "beatmaps"    -> BeatmapsFilter(c, hits)
      [] query.scope = "beatmapsets" -> BeatmapsetsFilter(c, hits)
      [] query.scope = "queues"      -> QueuesFilter(c, hits)
      [] query.scope = "requests"    -> RequestsFilter(c, hits)

\* Some field of the scope is enabled; otherwise no term has a CTE and the
\* lookup of the first one fails.
SomeFieldEnabled ==
    \E c \in SCOPE_CATEGORIES[query.scope] : Weighted(c) # {}

\* Mutant: the ids in which some term occurs.
AnyTermFiltered ==
    UNION {UNION {UNION {get_filter_stmt(c, Containing(f, c, t)) : f \in Weighted(c)} :
                    c \in SCOPE_CATEGORIES[query.scope]} : t \in query.terms}

search_terms_filtered_cte ==
    LET TermIds(t) ==
            UNION {UNION {get_filter_stmt(c, Containing(f, c, t)) : f \in Weighted(c)} :
                     c \in SCOPE_CATEGORIES[query.scope]}
        first == CHOOSE t \in query.terms : TRUE
    IN  {x \in TermIds(first) : \A t \in query.terms \ {first} : x \in TermIds(t)}

-----------------------------------------------------------------------------
(* Search terms: scores (ctes/search_terms_scored.py). *)

Score(c, f, p) == query.weights[c][f] * query.mults[p]

\* The patterns with a multiplier that the field of the row matches.
Matching(f, y, t) ==
    {p \in DOMAIN query.mults : query.mults[p] # Null /\ <<y, f, t, p>> \in db.text}

\* row_number() = 1 by descending score: one pattern, any of the best ones.
BestScore(c, f, y, t) == Max({Score(c, f, p) : p \in Matching(f, y, t)})

generate_term_score_stmts(c, f, y, t) ==
    {p \in Matching(f, y, t) : Score(c, f, p) = BestScore(c, f, y, t)}

\* The fields of a group in which the row matches the term.
Hit(c, g, y, t) == {f \in g \cap Weighted(c) : Matching(f, y, t) # {}}

\* The totals that the rows of a group can add up to for one row and term:
\* the maximum per pattern, summed over the patterns that were retained.
process_field_groups(c, g, y, t) ==
    LET hit == Hit(c, g, y, t)
        Total(pick) ==
            MapThenSumSet(LAMBDA p : Max({Score(c, f, p) : f \in {f \in hit : pick[f] = p}}),
                          {pick[f] : f \in hit})
    IN  {Total(pick) : pick \in {k \in [hit -> DOMAIN query.mults] :
             \A f \in hit : k[f] \in generate_term_score_stmts(c, f, y, t)}}

\* All ways to add one member of each set.
SumOfEach(sets, S) ==
    FoldSet(LAMBDA i, acc : {a + b : a \in acc, b \in sets[i]}, {0}, S)

\* The score column of the category's CTE for a row (0 when it has none).
CategoryScores(c, y) ==
    LET keys == CATEGORY_FIELD_GROUPS(c) \X query.terms
    IN  SumOfEach([k \in keys |-> process_field_groups(c, k[1], y, k[2])], keys)

\* The score_details column, as far as an aggregation can see it: per group
\* and term, the score of each field's retained pattern.
ScoreDetails(c) ==
    LET Hits(y) == {k \in CATEGORY_FIELD_GROUPS(c) \X query.terms \X CATEGORY_MODEL_FIELDS[c] :
                        k[3] \in Hit(c, k[1], y, k[2])}
    IN  [y \in CategoryRows(c) |->
            {[field |-> k[1], term |-> k[2], score |-> BestScore(c, k[3], y, k[2])] :
                k \in Hits(y)}]

\* Mutant: without the ranking, every child's entries count.
AllChildScores(details, mapping) ==
    [x \in {m[2] : m \in mapping} |->
        UNION {details[m[1]] : m \in {m \in mapping : m[2] = x /\ m[1] \in DOMAIN details}}]

\* A parent keeps the best entry per field and term among its children's.
aggregated_child_scores_to_parent_cte(details, mapping) ==
    [x \in {m[2] : m \in mapping} |->
        LET all == UNION {details[m[1]] : m \in {m \in mapping : m[2] = x /\ m[1] \in DOMAIN details}}
        IN  {e \in all : \A e2 \in all :
                e2.field = e.field /\ e2.term = e.term => e.score >= e2.score}]

\* coalesce(score, 0) of an aggregated CTE joined on the id x.
Aggregated(details, x) ==
    IF x \in DOMAIN details THEN MapThenSumSet(LAMBDA e : e.score, details[x]) ELSE 0

\* The mapping tables, as <<child, parent>>.
MapToSet == db.pairs
SetToMap == {<<p[2], p[1]>> : p \in db.pairs}
SetToQueue == {<<db.snapOf[r], db.queueOf[r]>> : r \in db.requests}
RequestToQueue == {<<r, db.queueOf[r]>> : r \in db.requests}

Plus(scores, n) == {s + n : s \in scores}

\* total_score, one definition per scope.
BeatmapsScore(x) ==
    Plus(CategoryScores("beatmap", x),
         Aggregated(aggregated_child_scores_to_parent_cte(ScoreDetails("beatmapset"), SetToMap), x))

BeatmapsetsScore(x) ==
    Plus(CategoryScores("beatmapset", x),
         Aggregated(aggregated_child_scores_to_parent_cte(ScoreDetails("beatmap"), MapToSet), x))

QueuesScore(x) ==
    LET ofMaps == aggregated_child_scores_to_parent_cte(
                      aggregated_child_scores_to_parent_cte(ScoreDetails("beatmap"), MapToSet),
                      SetToQueue)
        ofSets == aggregated_child_scores_to_parent_cte(ScoreDetails("beatmapset"), SetToQueue)
        ofRequests == aggregated_child_scores_to_parent_cte(ScoreDetails("request"), RequestToQueue)
    IN  Plus(CategoryScores("queue", x),
             Aggregated(ofMaps, x) + Aggregated(ofSets, x) + Aggregated(ofRequests, x))

RequestsScore(x) ==
    LET ofMaps == aggregated_child_scores_to_parent_cte(ScoreDetails("beatmap"), MapToSet)
        own == {a + b : a \in CategoryScores("request", x),
                        b \in CategoryScores("beatmapset", db.snapOf[x])}
    IN  Plus(own, Aggregated(ofMaps, db.snapOf[x]))

TotalScores(x) ==
    CASE query.scope = "beatmaps"    -> BeatmapsScore(x)
      [] query.scope = "beatmapsets" -> BeatmapsetsScore(x)
      [] query.scope = "queues"      -> QueuesScore(x)
      [] query.scope = "requests"    -> RequestsScore(x)

(* The copy of the ranking used by the generic queries (crud/relevance.py). *)

apply_beatmaps_relevance(x) ==
    LET ofSets == aggregated_child_scores_to_parent_cte(ScoreDetails("beatmapset"), SetToMap)
    IN  Plus(CategoryScores("beatmap", x), Aggregated(ofSets, x))

apply_beatmapsets_relevance(x) ==
    LET ofMaps == aggregated_child_scores_to_parent_cte(ScoreDetails("beatmap"), MapToSet)
    IN  Plus(CategoryScores("beatmapset", x), Aggregated(ofMaps, x))

apply_queues_relevance(x) ==
    LET ofMaps == aggregated_child_scores_to_parent_cte(ScoreDetails("beatmap"), MapToSet)
        Queued(details, mapping) ==
            Aggregated(aggregated_child_scores_to_parent_cte(details, mapping), x)
    IN  Plus(CategoryScores("queue", x),
             Queued(ofMaps, SetToQueue) + Queued(ScoreDetails("beatmapset"), SetToQueue)
               + Queued(ScoreDetails("request"), RequestToQueue))

apply_requests_relevance(x) ==
    LET snapshot == db.snapOf[x]
        ofMaps == aggregated_child_scores_to_parent_cte(ScoreDetails("beatmap"), MapToSet)
    IN  UNION {Plus(CategoryScores("beatmapset", snapshot), n + Aggregated(ofMaps, snapshot)) :
                 n \in CategoryScores("request", x)}

SCOPE_RELEVANCE_HANDLERS(x) ==
    CASE query.scope = "beatmaps"    -> apply_beatmaps_relevance(x)
      [] query.scope = "beatmapsets" -> apply_beatmapsets_relevance(x)
      [] query.scope = "queues"      -> apply_queues_relevance(x)
      [] query.scope = "requests"    -> apply_requests_relevance(x)

-----------------------------------------------------------------------------
(* Sorting (ctes/*/sorting.py): the rows joined to the category of the      *)
(* sorted field, and of those the first per id in the requested order.      *)

\* A row of a join: the root row, the row that holds the target, and the
\* rows in between, which tell apart two ways to the same one.
Row(id, via, leaf) == [id |-> id, via |-> via, leaf |-> leaf]

\* <<map, set, request>> joined on Request.beatmapset_id = beatmapset_id.
MapRequests ==
    {<<p[1], p[2], r>> : <<p, r>> \in {pr \in db.pairs \X db.requests :
                                          pr[1][2] \in SameSet(pr[2])}}
SetRequests ==
    {sr \in db.snapshots \X db.requests : sr[1] \in SameSet(sr[2])}

\* <<request, map>> joined on Request.beatmapset_snapshot.
RequestMaps ==
    {rm \in db.requests \X db.maps : <<rm[2], db.snapOf[rm[1]]>> \in db.pairs}

Own(S) == {Row(x, x, x) : x \in S}

bms_ss_join(scope) ==
    CASE scope = "beatmaps"    -> {Row(p[1], p, p[2]) : p \in db.pairs}
      [] scope = "beatmapsets" -> Own(db.snapshots)
      [] scope = "queues"      -> {Row(db.queueOf[r], r, db.snapOf[r]) : r \in db.requests}
      [] scope = "requests"    -> {Row(r, r, db.snapOf[r]) : r \in db.requests}

bm_ss_join(scope) ==
    CASE scope = "beatmaps"    -> Own(db.maps)
      [] scope = "beatmapsets" -> {Row(p[2], p, p[1]) : p \in db.pairs}
      [] scope = "queues"      -> {Row(db.queueOf[rm[1]], rm, rm[2]) : rm \in RequestMaps}
      [] scope = "requests"    -> {Row(rm[1], rm, rm[2]) : rm \in RequestMaps}

queue_join(scope) ==
    CASE scope = "beatmaps"    -> {Row(mr[1], mr, db.queueOf[mr[3]]) : mr \in MapRequests}
      [] scope = "beatmapsets" -> {Row(sr[1], sr, db.queueOf[sr[2]]) : sr \in SetRequests}
      [] scope = "queues"      -> Own(db.queues)
      [] scope = "requests"    -> {Row(r, r, db.queueOf[r]) : r \in db.requests}

request_join(scope) ==
    CASE scope = "beatmaps"    -> {Row(mr[1], mr, mr[3]) : mr \in MapRequests}
      [] scope = "beatmapsets" -> {Row(sr[1], sr, sr[2]) : sr \in SetRequests}
      [] scope = "queues"      -> {Row(db.queueOf[r], r, r) : r \in db.requests}
      [] scope = "requests"    -> Own(db.requests)

\* The user of the row, or the owners of the beatmap, who have a profile.
profile_join(scope) ==
    {Row(o[1], o, o[2]) : o \in {o \in db.owns :
        o[1] \in CASE scope = "beatmaps"    -> db.maps
                   [] scope = "beatmapsets" -> db.snapshots
                   [] scope = "queues"      -> db.queues
                   [] scope = "requests"    -> db.requests}}

\* asc or desc of PostgreSQL, where NULL is the greatest value.
Before(order, a, b) ==
    IF order = "asc" THEN a # Null /\ (b = Null \/ a < b)
                     ELSE b # Null /\ (a = Null \/ b < a)

First(order, S) == CHOOSE a \in S : \A b \in S : ~Before(order, b, a)

\* Mutant: the window is ordered the same way for both directions.
RankedAscending(order, join) ==
    [x \in {j.id : j \in join} |->
        First("asc", {Target(j.leaf) : j \in {j \in join : j.id = x}})]

\* The row of rank 1.  DISTINCT ON (id) has no ORDER BY of its own: that it
\* keeps this row, the only one the engine then joins, rests on PostgreSQL
\* running it over the window's sort by (id, target).  Ids without a joined
\* row are not in the CTE.
Ranked(order, join) ==
    [x \in {j.id : j \in join} |->
        First(order, {Target(j.leaf) : j \in {j \in join : j.id = x}})]

bms_ss_sorting_cte(order) == Ranked(order, bms_ss_join(query.scope))
bm_ss_sorting_cte(order) == Ranked(order, bm_ss_join(query.scope))
queue_sorting_cte(order) == Ranked(order, queue_join(query.scope))
request_sorting_cte(order) == Ranked(order, request_join(query.scope))
profile_sorting_cte(order) == Ranked(order, profile_join(query.scope))

sorting_cte(o) ==
    CASE o.category = "beatmapset" -> bms_ss_sorting_cte(o.order)
      [] o.category = "beatmap"    -> bm_ss_sorting_cte(o.order)
      [] o.category = "queue"      -> queue_sorting_cte(o.order)
      [] o.category = "request"    -> request_sorting_cte(o.order)
      [] o.category = "profile"    -> profile_sorting_cte(o.order)

\* The inner joins with the sorting CTEs, one per option: a row keeps its
\* key, a row without one is gone.
apply_sorting(rows) ==
    FoldLeft(LAMBDA acc, o :
                 {[r EXCEPT !.keys = Append(@, sorting_cte(o)[r.id])] :
                    r \in {r \in acc : r.id \in DOMAIN sorting_cte(o)}},
             rows, query.sorting)

-----------------------------------------------------------------------------
(* Filters (ctes/*/filtering.py, get_filter_condition). *)

\* FilterOperator.method on one value; a comparison with NULL is not true.
\* A regular expression is the set of values it matches.
Holds(op, arg, v) ==
    CASE op = "is_null"   -> (v = Null) = arg
      [] v = Null         -> FALSE
      [] op = "eq"        -> v = arg
      [] op = "neq"       -> v # arg
      [] op = "gt"        -> v > arg
      [] op = "lt"        -> v < arg
      [] op = "gte"       -> v >= arg
      [] op = "lte"       -> v <= arg
      [] op \in {"in", "regex"}         -> v \in arg
      [] op \in {"not_in", "not_regex"} -> v \notin arg

\* Mutant: every operator asks for one value of the array.
HoldsForAny(op, arg, V) == \E v \in V : Holds(op, arg, v)

\* get_filter_condition with is_aggregated, on the values of array_agg.
HoldsAggregated(op, arg, V) ==
    CASE op = "neq"       -> \A v \in V : v # Null /\ v # arg
      [] op = "not_in"    -> \A v \in V : v \notin arg
      [] op = "is_null"   -> V = {Null}
      [] op = "not_regex" -> V # {Null} /\ \A v \in V : v \notin arg
      [] OTHER            -> \E v \in V : Holds(op, arg, v)

\* DISTINCT ON (id) without an order: some row of each id.
DistinctOn(rows) ==
    LET ids == {j.id : j \in rows}
    IN  {{pick[x] : x \in ids} : pick \in {k \in [ids -> rows] : \A x \in ids : k[x].id = x}}

\* The contents that each filtering CTE may have.
bms_ss_filtering_cte == {bms_ss_join(query.scope)}

profile_filtering_cte == {profile_join(query.scope)}

request_filtering_cte ==
    IF query.scope = "requests" THEN {request_join("requests")}
    ELSE DistinctOn(request_join(query.scope))

\* The selects name Queue's column without joining Queue, except in its own
\* scope, where queues without requests drop out of the join.
queue_filtering_cte ==
    LET Crossed(ids) == {Row(iq[1], iq, iq[2]) : iq \in ids \X db.queues}
    IN  CASE query.scope = "beatmaps"    -> DistinctOn(Crossed({mr[1] : mr \in MapRequests}))
          [] query.scope = "beatmapsets" -> DistinctOn(Crossed({sr[1] : sr \in SetRequests}))
          [] query.scope = "queues"      -> {Own({db.queueOf[r] : r \in db.requests})}
          [] query.scope = "requests"    -> DistinctOn(Crossed(db.requests))

bm_ss_filtering_cte(conditions) ==
    LET join == bm_ss_join(query.scope)
        Values(x) == {Target(j.leaf) : j \in {j \in join : j.id = x}}
    IN  IF query.scope = "beatmaps" THEN {join}
        ELSE {Own({x \in {j.id : j \in join} :
                     \A op \in DOMAIN conditions : HoldsAggregated(op, conditions[op], Values(x))})}

\* The rows of the query joined with one filter's CTE, for each content of it.
apply_filter(rows, f) ==
    LET aggregated == f.category = "beatmap" /\ query.scope # "beatmaps"
        Kept(j) == aggregated \/ \A op \in DOMAIN f.conditions :
                                    Holds(op, f.conditions[op], Target(j.leaf))
        ctes == CASE f.category = "beatmap"    -> bm_ss_filtering_cte(f.conditions)
                  [] f.category = "beatmapset" -> bms_ss_filtering_cte
                  [] f.category = "queue"      -> queue_filtering_cte
                  [] f.category = "request"    -> request_filtering_cte
                  [] f.category = "profile"    -> profile_filtering_cte
    IN  {{[rj[1] EXCEPT !.via = Append(@, rj[2].via)] :
            rj \in {rj \in rows \X cte : rj[1].id = rj[2].id /\ Kept(rj[2])}} : cte \in ctes}

apply_filters(rows) ==
    FoldLeft(LAMBDA acc, f : UNION {apply_filter(bag, f) : bag \in acc}, {rows}, query.filters)

-----------------------------------------------------------------------------
(* SearchEngine: composing the query and running it. *)

Composed ==
    LET ids == IF query.terms = {} THEN ScopeRows ELSE ScopeRows \cap search_terms_filtered_cte
    IN  apply_filters(apply_sorting({[id |-> x, keys |-> <<>>, via |-> <<>>] : x \in ids}))

\* The keys of a come before b's in the order of the sorting options.
KeysBefore(a, b) ==
    \E i \in DOMAIN query.sorting :
        /\ Before(query.sorting[i].order, a[i], b[i])
        /\ \A k \in 1..(i - 1) : a[k] = b[k]

\* The ORDER BY: the options, else the total score, else none.
Ordered(seq, score) ==
    \A i, j \in DOMAIN seq : i < j =>
        IF query.sorting # <<>> THEN ~KeysBefore(seq[j].keys, seq[i].keys)
        ELSE query.terms = {} \/ score[seq[i].id] >= score[seq[j].id]

Scorings(ids) ==
    IF query.terms = {} THEN {[x \in ids |-> 0]}
    ELSE {f \in [ids -> UNION {TotalScores(x) : x \in ids}] : \A x \in ids : f[x] \in TotalScores(x)}

Search ==
    /\ status = "none"
    /\ query.terms # {} => SomeFieldEnabled
    /\ status' = "ok"
    /\ \E bag \in Composed : \E score \in Scorings({r.id : r \in bag}) :
         \E seq \in {q \in SetToSeqs(bag) : Ordered(q, score)} :
            LET page == SubSeq(seq, query.offset + 1, Min({Len(seq), query.offset + query.limit}))
            IN  found' = [i \in DOMAIN page |-> [id |-> page[i].id, score |-> score[page[i].id]]]
    /\ UNCHANGED <<db, query>>

\* No field of the scope has a weight: there is no CTE for the first term.
SearchRefused ==
    /\ status = "none"
    /\ query.terms # {} /\ ~SomeFieldEnabled
    /\ status' = "KeyError"
    /\ UNCHANGED <<db, query, found>>

Init ==
    /\ \E k \in Kinds : db \in Databases(k) /\ query \in Queries(k)
    /\ status = "none" /\ found = <<>>

Next == Search \/ SearchRefused

Spec == Init /\ [][Next]_vars

-----------------------------------------------------------------------------
(* What a search means. *)

Answered == status = "ok"
FoundIds == {found[i].id : i \in DOMAIN found}

\* The page is the whole result: no row of the scope can be beyond it.
WholePage == query.offset = 0 /\ query.limit >= 100

\* The rows of category c that belong to a row x of the scope, read off the
\* relations and not off the joins.
Related(c, x) ==
    LET scope == query.scope
        sets == CASE scope = "beatmaps"    -> {s \in db.snapshots : <<x, s>> \in db.pairs}
                  [] scope = "beatmapsets" -> {x}
                  [] scope = "queues"      -> {db.snapOf[r] : r \in {r \in db.requests : db.queueOf[r] = x}}
                  [] scope = "requests"    -> {db.snapOf[x]}
        reqs == CASE scope = "queues"   -> {r \in db.requests : db.queueOf[r] = x}
                  [] scope = "requests" -> {x}
                  [] OTHER -> {r \in db.requests : \E s \in sets : db.setOf[s] = db.setOf[db.snapOf[r]]}
    IN  CASE c = "beatmap"    -> IF scope = "beatmaps" THEN {x} ELSE UNION {MapsOf(s) : s \in sets}
          [] c = "beatmapset" -> sets
          [] c = "request"    -> reqs
          [] c = "queue"      -> IF scope = "queues" THEN {x} ELSE {db.queueOf[r] : r \in reqs}
          [] c = "profile"    -> {o[2] : o \in {o \in db.owns : o[1] = x}}

\* The best a row can score for each group of fields and term, over all the
\* rows that belong to it.
BestTotal(x) ==
    LET Best(c, k) ==
            LET hits == {fy \in CATEGORY_MODEL_FIELDS[c] \X Related(c, x) :
                            fy[1] \in Hit(c, k[1], fy[2], k[2])}
            IN  IF hits = {} THEN 0 ELSE Max({BestScore(c, fy[1], fy[2], k[2]) : fy \in hits})
    IN  MapThenSumSet(
            LAMBDA c : MapThenSumSet(LAMBDA k : Best(c, k), CATEGORY_FIELD_GROUPS(c) \X query.terms),
            SCOPE_CATEGORIES[query.scope])

PositiveWeights ==
    \A c \in SCOPE_CATEGORIES[query.scope] : \A f \in Weighted(c) : query.weights[c][f] > 0

\* ScoreIsBest: the total score of a row counts, for every group of similar
\* fields and every term, the best match among all the rows that belong to
\* it, once, however many rows the joins and the two stages of aggregation
\* (map to set, set to queue) run through.  Where the beatmapset's own score
\* is used unaggregated, a group may count once per pattern, so the best is
\* a lower bound.  Both copies of the ranking (engine.py and relevance.py)
\* have it.
ScoreIsBest ==
    Answered /\ query.terms # {} =>
        \A x \in ScopeRows :
            /\ SCOPE_RELEVANCE_HANDLERS(x) = TotalScores(x)
            /\ query.scope \in {"beatmaps", "queues"} => TotalScores(x) = {BestTotal(x)}
            /\ PositiveWeights => \A n \in TotalScores(x) : n >= BestTotal(x)

\* The term matches a field of a row that belongs to x, and so adds to its
\* score.
Touches(t, x) ==
    \E c \in SCOPE_CATEGORIES[query.scope] : \E f \in Weighted(c) :
        \E y \in Related(c, x) : Matching(f, y, t) # {}

\* The term matches another snapshot of a requested beatmapset, or a beatmap
\* of one: the filter joins on beatmapset_id, the score on the snapshot.
TouchesOther(t, x) ==
    /\ query.scope \in {"queues", "requests"}
    /\ \E r \in Related("request", x) : \E s \in SameSet(r) \ {db.snapOf[r]} :
         \/ \E f \in Weighted("beatmapset") : Matching(f, s, t) # {}
         \/ \E m \in MapsOf(s) : \E f \in Weighted("beatmap") : Matching(f, m, t) # {}

\* FoundIsScored: a row is found (filter CTEs) exactly when every term matches
\* something that belongs to it, and each term that does adds to its score
\* (scoring CTEs, with joins of their own), so long as weights and the
\* substring multiplier are positive.  The one way to be found without a
\* score is a term that occurs only in another snapshot of a requested
\* beatmapset; with a single snapshot per beatmapset there is none.
FoundIsScored ==
    LET floor == Min({Score(cf[1], cf[2], "substring") :
                    cf \in {cf \in SCOPE_CATEGORIES[query.scope]
                                     \X UNION {Weighted(c) : c \in SCOPE_CATEGORIES[query.scope]} :
                               cf[2] \in Weighted(cf[1])}})
    IN  /\ Answered /\ query.terms # {} /\ PositiveWeights
        /\ query.mults["substring"] # Null /\ query.mults["substring"] > 0
        => /\ \A i \in DOMAIN found :
                LET touching == {t \in query.terms : Touches(t, found[i].id)}
                IN  /\ found[i].score >= floor * Cardinality(touching)
                    /\ \A t \in query.terms \ touching : TouchesOther(t, found[i].id)
           /\ WholePage /\ query.sorting = <<>> /\ query.filters = <<>> =>
                \A x \in ScopeRows \ FoundIds : \E t \in query.terms :
                    ~Touches(t, x) /\ ~TouchesOther(t, x)

\* SortedByBest: an explicitly sorted result has every row of the scope that
\* has something to be sorted by, once, however many related rows it has,
\* and is in the order of the best related value, option by option.
SortedByBest ==
    LET Key(x) == [i \in DOMAIN query.sorting |->
                      First(query.sorting[i].order,
                            {Target(y) : y \in Related(query.sorting[i].category, x)})]
    IN  Answered /\ query.sorting # <<>> /\ query.filters = <<>> =>
            /\ \A i, j \in DOMAIN found : i < j =>
                    /\ found[i].id # found[j].id
                    /\ ~KeysBefore(Key(found[j].id), Key(found[i].id))
            /\ WholePage /\ query.terms = {} =>
                 FoundIds = {x \in ScopeRows : \A i \in DOMAIN query.sorting :
                                Related(query.sorting[i].category, x) # {}}

\* The beatmaps of another row are asked together.
OfBeatmaps(f) == f.category = "beatmap" /\ query.scope # "beatmaps"

\* bool_and(IS NULL) does not look at the value of the condition.
ReadAsNull(f) ==
    OfBeatmaps(f) /\ "is_null" \in DOMAIN f.conditions /\ ~f.conditions["is_null"]

\* The filter's CTE has every related row.
Exact(f) ==
    \/ f.category \in {"beatmapset", "beatmap", "profile"}
    \/ f.category = "request" /\ query.scope = "requests"

\* What the API shows for the field of a row: for a derived field the value
\* of the Python property (hit lengths of a single beatmap aside).
Meant(y) ==
    IF y \in db.snapshots /\ query.field # Null
         /\ (query.field.kind \in {"sr_gaps", "hit_lengths"} => Several(Ratings(y)))
    THEN Shown(query.field, y) ELSE {Target(y)}

\* A row meets conditions for some value it may show, and for each of them.
MayMeet(conditions, y) ==
    \E v \in Meant(y) : \A op \in DOMAIN conditions : Holds(op, conditions[op], v)
MustMeet(conditions, y) ==
    \A v \in Meant(y) : \A op \in DOMAIN conditions : Holds(op, conditions[op], v)

\* Whether a row meets a filter: some related row meets all its conditions.
\* On the beatmaps of another row each condition is asked on its own.  An
\* excluded value is one that no beatmap may have, and NULL is among them for
\* neq; not_regex asks for some value besides.
MeetsFilter(f, x, Meet(_, _)) ==
    LET values == {Target(y) : y \in Related("beatmap", x)}
        Asked(op, arg) ==
            CASE op = "neq"       -> values \cap {arg, Null} = {}
              [] op = "not_in"    -> values \cap arg = {}
              [] op = "not_regex" -> values \cap arg = {} /\ values # {Null}
              [] op = "is_null"   -> (values = {Null}) = arg
              [] OTHER            -> \E v \in values : Holds(op, arg, v)
    IN  IF OfBeatmaps(f)
        THEN values # {} /\ \A op \in DOMAIN f.conditions : Asked(op, f.conditions[op])
        ELSE \E y \in Related(f.category, x) : Meet(f.conditions, y)

\* FiltersHold: a filtered result has only rows with a related row that meets
\* the filter, NULLs and derived fields included, and all of them where the
\* filter's CTE has every related row (a DISTINCT ON tests a single one).  Two
\* filters are left out: is_null FALSE on the beatmaps of another row, which
\* is read as is_null TRUE, and queue filters outside the scope of queues,
\* whose CTE does not join the request's queue.
FiltersHold ==
    LET counted == {i \in DOMAIN query.filters :
                      /\ ~ReadAsNull(query.filters[i])
                      /\ query.filters[i].category # "queue" \/ query.scope = "queues"}
    IN  Answered =>
          /\ \A x \in FoundIds : \A i \in counted : MeetsFilter(query.filters[i], x, MayMeet)
          /\ WholePage /\ query.terms = {} /\ query.sorting = <<>>
               /\ counted = DOMAIN query.filters
               /\ (\A i \in counted : Exact(query.filters[i]))
               => \A x \in ScopeRows :
                    (\A i \in counted : MeetsFilter(query.filters[i], x, MustMeet)) => x \in FoundIds

\* FieldsAgree: what a search sorts and filters by is what the API shows: the
\* SQL of a derived field has the value of the Python property, up to the
\* rounding of a half, and none where the property raises (the hit lengths of
\* a single beatmap, which SQL does not have, and hype_required, whose SQL
\* reads another column, aside).
FieldsAgree ==
    LET Fields == {Field(k, a) : k \in {"sr_gaps", "hit_lengths"}, a \in Aggs}
                    \cup {Field("num_difficulties", "")}
                    \cup {Field("json", key) : key \in DOMAIN ColumnOf \ {"required"}}
    IN  status # "none" =>
            \A s \in db.snapshots : \A f \in Fields :
                \/ f.kind = "hit_lengths" /\ ~Several(Lengths(s))
                \/ Searched(f, s) \in Shown(f, s)
                \/ Searched(f, s) = Null /\ Shown(f, s) = {Raised}

=============================================================================

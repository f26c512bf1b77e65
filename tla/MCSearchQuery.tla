---------------------------- MODULE MCSearchQuery ----------------------------
(***************************************************************************)
(* Small searches: two snapshots of one beatmapset that share a beatmap    *)
(* (or the newer one only), a second beatmapset, two queues, two requests. *)
(***************************************************************************)
EXTENDS SearchQuery

CONSTANTS m1, m2, m3, s1, s2, s3, r1, r2, q1, q2, p1, p2, t1, t2

Maps == {m1, m2, m3}
Snapshots == {s1, s2, s3}
Requests == {r1, r2}
QueueIds == {q1, q2}
ProfileIds == {p1, p2}
AllRows == Maps \cup Snapshots \cup Requests \cup QueueIds \cup ProfileIds

\* r1 asks for the older or the newer snapshot; r2 is in r1's queue or not.
TwoSnapshots ==
    {[maps |-> Maps, snapshots |-> Snapshots, requests |-> Requests,
      queues |-> QueueIds, profiles |-> ProfileIds,
      pairs |-> {<<m1, s1>>, <<m1, s2>>, <<m2, s2>>, <<m3, s3>>},
      setOf |-> (s1 :> 1 @@ s2 :> 1 @@ s3 :> 2),
      snapOf |-> (r1 :> s @@ r2 :> s3),
      queueOf |-> (r1 :> q1 @@ r2 :> q),
      owns |-> {<<m1, p1>>, <<m1, p2>>, <<m2, p2>>, <<s2, p1>>, <<q1, p1>>,
                <<q2, p2>>, <<r1, p2>>},
      listed |-> {s2, s3, m1, m2, m3}] : s \in {s1, s2}, q \in QueueIds}

\* Every beatmapset has one snapshot.
OneSnapshot ==
    {[d EXCEPT !.snapshots = {s2, s3}, !.setOf = (s2 :> 1 @@ s3 :> 2),
               !.pairs = {p \in @ : p[2] # s1}] : d \in {d \in TwoSnapshots : d.snapOf[r1] = s2}}

Shapes == TwoSnapshots \cup OneSnapshot

WithAll(shape, text, val, ratings, lengths, json) ==
    shape @@ [text |-> text, val |-> val, ratings |-> ratings, lengths |-> lengths,
              json |-> [s \in Snapshots |-> json]]

\* JSON columns: all there, the optional ones empty, and absent.
Jsons ==
    LET all == [availability |-> [download_disabled |-> 0], description |-> [description |-> 1],
                nominations_summary |-> [nominations |-> 2], genre |-> [id |-> 3],
                language |-> [language_id |-> 4], hype |-> [current |-> 5, required |-> 6]]
    IN  {all, [all EXCEPT !.genre = [name |-> 7], !.hype = [current |-> 5]],
         [all EXCEPT !.genre = Null, !.language = Null, !.hype = Null]}
OneJson == CHOOSE j \in Jsons : j.genre = [id |-> 3]

WithText(shape, text, val) ==
    WithAll(shape, text, val, [x \in Maps |-> 1], [x \in Maps |-> 1], OneJson)

Flat == [y \in AllRows |-> 1]
Fields == UNION {CATEGORY_MODEL_FIELDS[c] : c \in DOMAIN CATEGORY_MODEL_FIELDS}
Weights(w) ==
    [c \in DOMAIN CATEGORY_MODEL_FIELDS |->
        [f \in CATEGORY_MODEL_FIELDS[c] |-> IF f \in DOMAIN w THEN w[f] ELSE Null]]
SomeWeights == Weights([version |-> 2, title |-> 3, title_unicode |-> 3, name |-> 4, comment |-> 1])
Multipliers ==
    {[exact |-> 5, prefix |-> 2, suffix |-> 2, substring |-> 1],
     [exact |-> 3, prefix |-> Null, suffix |-> Null, substring |-> Null]}

QueryBy(field, scope, terms, weights, mults, sorting, filters, limit, offset) ==
    [field |-> field, scope |-> scope, terms |-> terms, weights |-> weights, mults |-> mults,
     sorting |-> sorting, filters |-> filters, limit |-> limit, offset |-> offset]
Query(scope, terms, weights, mults, sorting, filters, limit, offset) ==
    QueryBy(Null, scope, terms, weights, mults, sorting, filters, limit, offset)
Plain == CHOOSE m \in Multipliers : m.exact = 5
Scopes == DOMAIN SCOPE_CATEGORIES

-----------------------------------------------------------------------------
(* Search terms: texts made of up to three matches. *)

Levels == [exact |-> {"exact", "prefix", "suffix", "substring"},
           prefix |-> {"prefix", "substring"}, suffix |-> {"suffix", "substring"},
           substring |-> {"substring"}]
Match(y, f, t, level) == {<<y, f, t, p>> : p \in Levels[level]}
Matches ==
    {Match(m1, "version", t1, "substring"), Match(m2, "version", t1, "exact"),
     Match(m3, "version", t2, "prefix"), Match(m3, "version", t1, "substring"),
     Match(s1, "title", t1, "exact"), Match(s2, "title", t1, "prefix"),
     Match(s2, "title_unicode", t1, "suffix"), Match(s3, "title", t2, "exact"),
     Match(q1, "name", t2, "substring"), Match(r1, "comment", t1, "prefix"),
     Match(r2, "comment", t2, "substring")}
Texts == {UNION S : S \in {S \in SUBSET Matches : Cardinality(S) <= 2}}

TermQueries ==
    {Query(scope, terms, SomeWeights, m, <<>>, <<>>, 100, 0) :
        scope \in Scopes, m \in Multipliers, terms \in {{t1}, {t1, t2}}}
    \cup {Query(scope, {t1}, Weights([source |-> Null]), Plain, <<>>, <<>>, 100, 0) : scope \in Scopes}

-----------------------------------------------------------------------------
(* Sorting and filtering: every value of the rows of one category. *)

RowsOf == [beatmap |-> Maps, beatmapset |-> Snapshots, queue |-> QueueIds,
           request |-> Requests, profile |-> ProfileIds]
Categories == DOMAIN RowsOf
Values(c) == {v @@ Flat : v \in [RowsOf[c] -> {1, 2, Null}]}
Option(c, order) == [category |-> c, order |-> order]

SortQueries(c) ==
    {Query(scope, {}, SomeWeights, Plain, <<Option(c, order)>> \o more, <<>>, limit, 0) :
        scope \in Scopes, order \in {"asc", "desc"}, limit \in {1, 100},
        more \in {<<>>, <<Option("beatmapset", "asc")>>}}

Conditions ==
    {[gt |-> 1], [lt |-> 2], [eq |-> 1], [neq |-> 1], [gte |-> 2, lte |-> 2], [in |-> {1}],
     [not_in |-> {1}], [regex |-> {2}], [not_regex |-> {2}], [is_null |-> TRUE], [is_null |-> FALSE]}
Filter(c, conds) == [category |-> c, conditions |-> conds]

FilterQueries(c) ==
    {Query(scope, {}, SomeWeights, Plain, <<>>, <<Filter(c, conds)>> \o more, 100, 0) :
        scope \in Scopes, conds \in Conditions,
        more \in {<<>>, <<Filter("beatmapset", [gte |-> 1])>>}}

-----------------------------------------------------------------------------
(* Derived fields: ratings a hundredth apart, whose mean may be a half. *)

FieldConditions == {[gt |-> 1], [lte |-> 12], [is_null |-> TRUE]}
FieldQueries ==
    {QueryBy(f, scope, {}, SomeWeights, Plain, by[1], by[2], 100, 0) :
        scope \in {"beatmapsets", "queues"},
        f \in {Field("sr_gaps", "avg"), Field("hit_lengths", "max"), Field("num_difficulties", ""),
               Field("json", "id")},
        by \in {<<<<Option("beatmapset", "asc")>>, <<>>>>}
                 \cup {<<<<>>, <<Filter("beatmapset", c)>>>> : c \in FieldConditions}}

MCDatabases(k) ==
    CASE k[1] = "terms"  -> {WithText(shape, text, Flat) : shape \in Shapes, text \in Texts}
      [] k[1] = "fields" ->
            {WithAll([shape EXCEPT !.pairs = @ \cup {<<m3, s2>>}], {}, Flat, r, n, j) :
                shape \in {CHOOSE sh \in TwoSnapshots : sh.snapOf[r1] = s2},
                r \in [Maps -> {112, 124, 137}], n \in [Maps -> {1, 2}], j \in Jsons}
      [] OTHER -> {WithText(shape, {}, v) : shape \in Shapes, v \in Values(k[2])}

MCQueries(k) ==
    CASE k[1] = "terms"   -> TermQueries
      [] k[1] = "sorting" -> SortQueries(k[2])
      [] k[1] = "filters" -> FilterQueries(k[2])
      [] k[1] = "fields"  -> FieldQueries

MCKinds == {<<"terms", "">>, <<"fields", "">>} \cup {"sorting", "filters"} \X Categories
=============================================================================

---------------------------- MODULE SearchSchema ----------------------------
(***************************************************************************)
(* A search as a client states it (app/search/datastructures): its         *)
(* validation, and the bytes that a link to it carries.                    *)
(*                                                                         *)
(* A body has the fields of SearchSchema:                                  *)
(*   scope                                                                 *)
(*   search_terms  Null or [raw, case, mults, weights]: raw is             *)
(*                 [form |-> "str", words] (what shlex makes of the        *)
(*                 string, or Null) or [form |-> "list", words]; a term is *)
(*                 the bytes of its UTF-8 form; mults and weights are      *)
(*                 sequences over MULTIPLIERS and WEIGHTS                  *)
(*   sorting       Null or a sequence of [field, order]                    *)
(*   filters       Null or a function from category names to Null or to a  *)
(*                 function from field names to raw conditions             *)
(***************************************************************************)
EXTENDS SearchConditions, SearchMappings

CONSTANT ModelFields    \* sequence of [class, name, type]: the fields of the models

-----------------------------------------------------------------------------
(* Numbers that are written only where they differ from a default. *)

\* The order of the flags and the default of each.
MULTIPLIERS == <<[name |-> "exact", default |-> 5], [name |-> "prefix", default |-> 4],
                 [name |-> "suffix", default |-> 3], [name |-> "substring", default |-> 2]>>

Weight(c, f, d) == [category |-> c, field |-> f, default |-> d]
WEIGHTS ==
    <<Weight("beatmap", "version", 2), Weight("beatmapset", "title", 5),
      Weight("beatmapset", "title_unicode", 5), Weight("beatmapset", "artist", 4),
      Weight("beatmapset", "artist_unicode", 4), Weight("beatmapset", "creator", 3),
      Weight("beatmapset", "source", 2), Weight("beatmapset", "tags", 1),
      Weight("beatmapset", "description", 0), Weight("queue", "name", 6),
      Weight("queue", "description", 0), Weight("request", "comment", 0)>>

Defaults(spec) == [i \in DOMAIN spec |-> spec[i].default]

\* A mask of the changed values, a mask of the nulls, each of the width in bytes,
\* then the changed values.
Changes(values, defaults, kept, width) ==
    LET Pack(mask) == IF width = 1 THEN Byte(mask) ELSE Word(mask)
        changed == {i \in kept : values[i] # defaults[i]}
        present == SelectSeq([i \in DOMAIN values |-> i],
                             LAMBDA i : i \in changed /\ values[i] # Null)
    IN  Joined(<<Pack(Mask(ToSet(present))), Pack(Mask(changed \ ToSet(present)))>>
                \o [i \in DOMAIN present |-> SignedByte(values[present[i]])])

\* The values read back, from the masks and the offset after them.
Unchanged(data, present, nulls, defaults, at) ==
    LET Step(acc, i) ==
            CASE Flag(present, i) -> Decoded([acc.v EXCEPT ![i] = AsSigned(data[acc.at])], acc.at + 1)
              [] ~Flag(present, i) /\ Flag(nulls, i) -> [acc EXCEPT !.v[i] = Null]
              [] OTHER -> acc
    IN  FoldLeft(Step, Decoded(defaults, at), [i \in DOMAIN defaults |-> i])

multipliers_serialize(m) == Changes(m, Defaults(MULTIPLIERS), DOMAIN m, 1)

multipliers_deserialize(data, at) ==
    Unchanged(data, data[at], data[at + 1], Defaults(MULTIPLIERS), at + 2)

at_least_one_not_null(m) == \E i \in DOMAIN m : m[i] # Null

\* The weights of a scope's categories.
Applicable(scope) == {i \in DOMAIN WEIGHTS : WEIGHTS[i].category \in SCOPE_CATEGORIES[scope]}

\* A category given as None has all its weights disabled.
handle_disable_shorthand(weights) ==
    [i \in DOMAIN WEIGHTS |->
        IF WEIGHTS[i].category \in weights.off THEN Null ELSE weights.values[i]]

validate_against_scope(weights, scope) == \E i \in Applicable(scope) : weights[i] # Null

weights_serialize(weights, scope) == Changes(weights, Defaults(WEIGHTS), Applicable(scope), 2)

weights_deserialize(data, at) ==
    Unchanged(data, ReadWord(data, at), ReadWord(data, at + 2), Defaults(WEIGHTS), at + 4)

-----------------------------------------------------------------------------
(* Search terms. *)

Chars(term) == Cardinality({i \in DOMAIN term : term[i] \notin 128..191})
Blank(term) == \A i \in DOMAIN term : term[i] = 32

\* The terms that are not blank, at least one, none longer than MaxCount characters.
validate_terms(raw) ==
    LET terms == SelectSeq(raw.words, LAMBDA w : ~Blank(w))
    IN  IF raw.words = Null THEN ValueError
        ELSE IF terms = <<>> \/ \E i \in DOMAIN terms : Chars(terms[i]) > MaxCount THEN ValueError
        ELSE terms

terms_validated(st, scope) ==
    LET terms == validate_terms(st.raw)
        weights == handle_disable_shorthand(st.weights)
    IN  CASE terms \in Raises -> terms
          [] ~at_least_one_not_null(st.mults) -> ValueError
          [] ~validate_against_scope(weights, scope) -> ValueError
          [] OTHER -> [terms |-> terms, case |-> st.case, mults |-> st.mults, weights |-> weights]

terms_serialize(st, scope) ==
    Joined(<<Count(Len(st.terms))>>
            \o [i \in DOMAIN st.terms |-> Joined(<<Count(Len(st.terms[i])), st.terms[i]>>)]
            \o <<<<IF st.case THEN 1 ELSE 0>>, multipliers_serialize(st.mults),
                 weights_serialize(st.weights, scope)>>)

terms_deserialize(data, at) ==
    LET Step(acc, i) ==
            Decoded(Append(acc.v, SubSeq(data, acc.at + 1, acc.at + data[acc.at])),
                    acc.at + 1 + data[acc.at])
        terms == FoldLeft(Step, Decoded(<<>>, at + 1), [i \in 1..data[at] |-> i])
        mults == multipliers_deserialize(data, terms.at + 1)
        weights == weights_deserialize(data, mults.at)
    IN  Decoded([raw |-> [form |-> "list", words |-> terms.v], case |-> data[terms.at] % 2 = 1,
                 mults |-> mults.v, weights |-> [off |-> {}, values |-> weights.v]],
                weights.at)

-----------------------------------------------------------------------------
(* Sorting. *)

Orders == <<"asc", "desc">>
IdOf(seq, x) == CHOOSE i \in DOMAIN seq : seq[i] = x

\* order.name of an explicit None.
option_serialize(o) ==
    IF o.order = Null THEN AttributeError ELSE Joined(<<Byte(o.field), Byte(IdOf(Orders, o.order))>>)

sorting_serialize(s) == Joined(<<Count(Len(s))>> \o [i \in DOMAIN s |-> option_serialize(s[i])])

option_deserialize(data, at) ==
    Decoded([field |-> data[at], order |-> Orders[data[at + 1]]], at + 2)

\* Mutant: options in the reverse priority.
sorting_reversed(data, at) ==
    LET Step(acc, i) == LET o == option_deserialize(data, acc.at)
                        IN  Decoded(<<o.v>> \o acc.v, o.at)
    IN  FoldLeft(Step, Decoded(<<>>, at + 1), [i \in 1..data[at] |-> i])

sorting_deserialize(data, at) ==
    LET Step(acc, i) == LET o == option_deserialize(data, acc.at)
                        IN  Decoded(Append(acc.v, o.v), o.at)
    IN  FoldLeft(Step, Decoded(<<>>, at + 1), [i \in 1..data[at] |-> i])

-----------------------------------------------------------------------------
(* Filters. *)

\* SearchableFieldCategory: the categories in the order of their flags.
CATEGORIES == <<"profile", "beatmap", "beatmapset", "queue", "request">>
MODEL_CLASS == [profile |-> "Profile", beatmap |-> "BeatmapSnapshot",
                beatmapset |-> "BeatmapsetSnapshot", queue |-> "Queue", request |-> "Request"]

\* The number of the field of a model class, ValueError if there is none.
from_model_field_name(class, name) ==
    LET ids == {i \in DOMAIN ModelFields : ModelFields[i].class = class /\ ModelFields[i].name = name}
    IN  IF ids = {} THEN ValueError ELSE CHOOSE i \in ids : TRUE

\* isinstance, and an int for a float: a bool is an int too.
validate_type(expected, x) ==
    x.t \in CASE expected = "float" -> {"float", "int", "bool"}
              [] expected = "int"   -> {"int", "bool"}
              [] OTHER              -> {expected}

\* A field is known and its values have a type that its column takes.  (A
\* relationship asks for a FieldFilters, which a dictionary never becomes.)
validate_against_sqlalchemy_model(filters, class) ==
    \A name \in DOMAIN filters :
        LET id == from_model_field_name(class, name)
        IN  /\ id \notin Raises
            /\ LET values == values_for_validation(filters[name])
               IN  \A i \in DOMAIN values : validate_type(ModelFields[id].type, values[i])

FieldFiltersValidated(raws) == [name \in DOMAIN raws |-> model_validate(raws[name])]

validate_filters(filters) ==
    LET given == {c \in DOMAIN filters : c \notin DOMAIN MODEL_CLASS \/ filters[c] # Null}
        valid == [c \in given |-> FieldFiltersValidated(filters[c])]
    IN  IF \E c \in given : \/ c \notin DOMAIN MODEL_CLASS
                            \/ \E name \in DOMAIN valid[c] : valid[c][name] \in Raises
                            \/ ~validate_against_sqlalchemy_model(valid[c], MODEL_CLASS[c])
        THEN ValueError
        ELSE valid

\* The field is looked up by the name of its category, which is no model class.
field_filters_serialize(filters, category) ==
    LET names == SetToSeq(DOMAIN filters)
        Chunk(name) ==
            LET id == from_model_field_name(category, name)
            IN  IF id \in Raises THEN id ELSE Joined(<<Word(id), conditions_serialize(filters[name])>>)
    IN  Joined(<<Count(Len(names))>> \o [i \in DOMAIN names |-> Chunk(names[i])])

field_filters_deserialize(data, at) ==
    LET Step(acc, i) ==
            Using(conditions_deserialize(data, acc.at + 2),
                  LAMBDA v : (ModelFields[ReadWord(data, acc.at)].name :>
                                  [form |-> "dict", conditions |-> v]) @@ acc.v)
    IN  FoldLeft(Step, Decoded(<<>>, at + 1), [i \in 1..data[at] |-> i])

\* A category without fields is falsy and left out.
filters_serialize(filters) ==
    LET present == SelectSeq([i \in DOMAIN CATEGORIES |-> i],
                             LAMBDA i : CATEGORIES[i] \in DOMAIN filters
                                        /\ DOMAIN filters[CATEGORIES[i]] # {})
    IN  Joined(<<Byte(Mask(ToSet(present)))>>
                \o [i \in DOMAIN present |->
                      field_filters_serialize(filters[CATEGORIES[present[i]]], CATEGORIES[present[i]])])

filters_deserialize(data, at) ==
    LET Step(acc, i) ==
            IF ~Flag(data[at], i) THEN acc
            ELSE Using(field_filters_deserialize(data, acc.at),
                       LAMBDA v : (CATEGORIES[i] :> v) @@ acc.v)
    IN  FoldLeft(Step, Decoded(<<>>, at + 1), [i \in DOMAIN CATEGORIES |-> i])

-----------------------------------------------------------------------------
(* The whole search. *)

ScopeId == [beatmaps |-> 1, beatmapsets |-> 2, requests |-> 4, queues |-> 5]

\* SearchSchema.model_validate: the search, or an error.  Scores have no
\* categories to look a weight up in.
search_validated(body) ==
    LET st == IF body.search_terms = Null THEN Null
              ELSE IF body.scope = "scores" THEN TypeError
              ELSE terms_validated(body.search_terms, body.scope)
        filters == IF body.filters = Null THEN Null ELSE validate_filters(body.filters)
    IN  CASE st \in Raises      -> st
          [] filters \in Raises -> filters
          [] OTHER -> [scope |-> body.scope, search_terms |-> st, sorting |-> body.sorting,
                       filters |-> filters]

\* Sorting without options is falsy and left out; filters are not.
search_serialize(sq) ==
    LET parts == <<IF sq.search_terms = Null THEN Null ELSE terms_serialize(sq.search_terms, sq.scope),
                   IF sq.sorting = Null \/ sq.sorting = <<>> THEN Null ELSE sorting_serialize(sq.sorting),
                   IF sq.filters = Null THEN Null ELSE filters_serialize(sq.filters)>>
        present == SelectSeq(<<1, 2, 3>>, LAMBDA i : parts[i] # Null)
    IN  IF sq.scope \notin DOMAIN ScopeId THEN ValueError
        ELSE Joined(<<<<ScopeId[sq.scope], Mask(ToSet(present))>>>>
                     \o [i \in DOMAIN present |-> parts[present[i]]])

search_deserialize(data) ==
    LET Part(i, at, Decode(_, _)) == IF Flag(data[2], i) THEN Decode(data, at) ELSE Decoded(Null, at)
        st == Part(1, 3, terms_deserialize)
        sorting == Part(2, st.at, sorting_deserialize)
        filters == Part(3, sorting.at, filters_deserialize)
    IN  IF filters.at # Len(data) + 1 THEN ValueError
        ELSE search_validated([scope |-> CHOOSE s \in DOMAIN ScopeId : ScopeId[s] = data[1],
                               search_terms |-> st.v, sorting |-> sorting.v, filters |-> filters.v])
=============================================================================

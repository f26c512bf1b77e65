----------------------------- MODULE MCSearchApi -----------------------------
(***************************************************************************)
(* Small bodies around every boundary of the binary form: the widths of    *)
(* integers and lengths, masks with no, one and all flags, nulls, and the  *)
(* limits on terms, characters, bytes and list items (4 for 255).          *)
(***************************************************************************)
EXTENDS SearchApi

MCModelFields ==
    <<[class |-> "BeatmapSnapshot", name |-> "difficulty_rating", type |-> "float"],
      [class |-> "BeatmapSnapshot", name |-> "version", type |-> "str"],
      [class |-> "BeatmapsetSnapshot", name |-> "ranked", type |-> "int"],
      [class |-> "BeatmapsetSnapshot", name |-> "submitted_date", type |-> "datetime"],
      [class |-> "BeatmapsetSnapshot", name |-> "video", type |-> "bool"],
      [class |-> "BeatmapsetSnapshot", name |-> "artist", type |-> "str"],
      [class |-> "Queue", name |-> "user_id", type |-> "int"]>>
FieldFor == [int |-> "ranked", float |-> "ranked", bool |-> "video", str |-> "artist",
             datetime |-> "submitted_date"]

\* 1001 ms, one of the products that Python's floats round down.
MCFloatLow(us) == us = 1001000
MCFloatWidth(v) == CASE v = 2 -> 2 [] v = 6 -> 4 [] v = 10 -> 8 [] OTHER -> 0
Iso == <<50, 48>>
MCIsoFormat(text) == IF text = Iso THEN DatetimeValue(2000500, TRUE) ELSE Null
MCBrotliSize(bytes) == Len(bytes) + 1
MCRegexFaults(text) == IF text = <<40>> THEN {"invalid"} ELSE {}

Long(n, c) == [i \in 1..n |-> c]
Ints == {IntValue(n) : n \in {0, 1, 127, 128, 255, 256, 16383, 16384, -1, -128, -129, -8192, -8193}}
Floats == {FloatValue(v) : v \in {2, 4, 6, 10}}
Strs == {StrValue(s) : s \in {<<>>, <<97>>, Iso, Long(127, 97), Long(128, 98)}}
Dates == {DatetimeValue(us, aware) : us \in {0, 1001000, 1002000, 1002500, -500, -1000, -5000}, aware \in BOOLEAN}
Values == Ints \cup Floats \cup Strs \cup Dates \cup {BoolValue(TRUE), BoolValue(FALSE)}
Few == {IntValue(1), IntValue(2), IntValue(-300), BoolValue(TRUE), StrValue(<<97>>), StrValue(<<98>>),
        FloatValue(2), FloatValue(4), DatetimeValue(1001000, TRUE), DatetimeValue(1002000, TRUE),
        DatetimeValue(1002500, TRUE), DatetimeValue(1002500, FALSE)}
Compared == {"eq", "neq", "lt", "lte", "gt", "gte"}

-----------------------------------------------------------------------------

Body(scope, st, sorting, filters) ==
    [scope |-> scope, search_terms |-> st, sorting |-> sorting, filters |-> filters]
Dict(c) == [form |-> "dict", conditions |-> c]
Filtered(name, raw) == Body("beatmapsets", Null, Null, [beatmapset |-> (name :> raw)])

OneCondition == {Dict(op :> x) : op \in Compared, x \in Values}
TwoConditions ==
    {Dict((a :> x) @@ (b :> y)) : a \in Compared, b \in Compared, x \in Few, y \in Few}
ListConditions ==
    LET lists == {<<>>, <<IntValue(1)>>, <<IntValue(2), IntValue(1)>>, <<IntValue(1), StrValue(Iso)>>,
                  <<StrValue(<<97>>), StrValue(<<>>)>>, Long(4, IntValue(1)), Long(5, IntValue(1))}
        one == {op :> l : op \in Lists, l \in lists}
    IN  {Dict(c) : c \in one} \cup {Dict(c @@ ("eq" :> x)) : c \in one, x \in Few}
          \cup {Dict(c @@ ("not_in" :> <<IntValue(2)>>)) : c \in one}
OtherConditions ==
    {Dict("is_null" :> BoolValue(b)) : b \in BOOLEAN}
      \cup {Dict(("is_null" :> BoolValue(b)) @@ ("eq" :> x)) : b \in BOOLEAN, x \in {Null, IntValue(1)}}
      \cup {Dict(op :> StrValue(p)) : op \in Patterns, p \in {<<97>>, Iso, <<40>>}}
      \cup {Dict("eq" :> Null), Dict(("eq" :> Null) @@ ("gt" :> IntValue(1))), Dict("like" :> IntValue(1))}
      \cup {[form |-> "none"], [form |-> "list"]} \cup {[form |-> "value", value |-> x] : x \in Few}
Raws == OneCondition \cup TwoConditions \cup ListConditions \cup OtherConditions

TypeOf(raw) ==
    IF raw.form # "dict" \/ \E op \in DOMAIN raw.conditions : raw.conditions[op] = Null \/ op \in Lists
    THEN "int" ELSE raw.conditions[CHOOSE op \in DOMAIN raw.conditions : TRUE].t

-----------------------------------------------------------------------------

Off(values, null) == [off |-> null, values |-> values]
Defaulted == Defaults(WEIGHTS)
WeightChoices ==
    {Off(Defaulted, {}), Off(Defaulted, {"beatmapset"}), Off(Defaulted, {"beatmap", "beatmapset"}),
     Off(Long(12, -128), {}), Off(Long(12, Null), {}),
     Off([Defaulted EXCEPT ![1] = 127, ![12] = Null], {}), Off([Defaulted EXCEPT ![12] = -1], {"beatmap"})}
MultChoices == {<<5, 4, 3, 2>>, <<Null, 4, -128, 127>>, Long(4, Null)}
RawTerms ==
    {[form |-> "str", words |-> Null], [form |-> "str", words |-> <<>>],
     [form |-> "list", words |-> <<<<97>>, <<32>>, <<195, 169>>>>],
     [form |-> "list", words |-> <<<<32, 32>>>>], [form |-> "list", words |-> <<Long(5, 97)>>],
     [form |-> "list", words |-> <<Long(4, 97)>>], [form |-> "list", words |-> Long(4, <<97>>)],
     [form |-> "list", words |-> Long(5, <<97>>)],
     [form |-> "list", words |-> <<[i \in 1..6 |-> IF i % 2 = 1 THEN 195 ELSE 169]>>]}
Sortings ==
    {Null, <<>>, <<[field |-> 1, order |-> "desc"], [field |-> 7, order |-> "asc"]>>,
     <<[field |-> 2, order |-> Null]>>}
AllScopes == DOMAIN SCOPE_CATEGORIES \cup {"scores"}
SomeTerms == {[raw |-> r, case |-> c, mults |-> m, weights |-> w] :
                 r \in RawTerms, c \in BOOLEAN, m \in MultChoices, w \in WeightChoices}

MCKinds == {"terms", "sections", "filters", "fields"}
MCBodies(k) ==
    CASE k = "terms" -> {Body(s, t, Null, Null) : s \in AllScopes, t \in SomeTerms}
      [] k = "sections" ->
            {Body(s, t, o, f) : s \in AllScopes, o \in Sortings, f \in {Null, <<>>, [queue |-> Null]},
                t \in {Null, [raw |-> [form |-> "list", words |-> <<<<97>>>>], case |-> TRUE,
                              mults |-> <<5, 4, Null, 2>>, weights |-> Off(Defaulted, {"queue"})]}}
      [] k = "filters" -> {Filtered(FieldFor[TypeOf(raw)], raw) : raw \in Raws}
      [] k = "fields" -> {Body("beatmaps", Null, Null, (c :> ("user_id" :> Dict("eq" :> x)))) :
                             c \in {"queue", "beatmap", "score"}, x \in Few}
=============================================================================

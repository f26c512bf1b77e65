---------------------------- MODULE RuleConfigs ----------------------------
(***************************************************************************)
(* What a rule's config may be.  A config arrives as a JSON object, here a *)
(* record of the fields it gives (None is null), and meets two gates: the  *)
(* OpenAPI schema of the request body, and the pydantic class of its type, *)
(* which also fills defaults and drops nulls.                              *)
(*                                                                         *)
(* Numbers are in halves, so that 21 is 10.5; each field has the JSON type *)
(* its name implies, or is Quoted: a string that pydantic's lax mode reads *)
(* as a value of that type, "3" for a number and "false" for a Boolean.    *)
(***************************************************************************)
EXTENDS Integers, Sequences, FiniteSets, SequencesExt

CONSTANTS None, Quoted

Tier1 == {"rate_limit", "cooldown", "blacklist"}
Stats == {"beatmap_ar_range", "beatmap_od_range", "beatmap_hp_range", "beatmap_cs_range",
          "beatmap_drain_range"}
Tier3 == {"never_ranked", "unique_artist_title"}
RuleType ==
  Tier1 \cup Stats \cup Tier3 \cup
  {"beatmap_duration", "beatmap_star_rating", "beatmap_bpm", "beatmap_genre", "beatmap_language",
   "beatmap_mode", "beatmap_difficulty_count", "beatmap_storyboard", "beatmap_video",
   "beatmap_tags", "beatmap_length", "composite"}

Operators == {"and", "or", "not"}
Rulesets == {"osu", "taiko", "fruits", "mania"}
GenreIds == 0..14 \ {8}
LanguageIds == 0..14
Periods == {"day", "week", "month", "year", "60"}  \* "60" for any number of seconds
MAX_COMPOSITE_DEPTH == 10

NoFields == [f \in {} |-> None]
Half(n) == 2 * n
Whole(v) == v % 2 = 0

-----------------------------------------------------------------------------
(* The fields of each class: pairs of bounds, the values of "logic", the   *)
(* required fields, the defaults of the others.                            *)
Bounds(t) ==
  CASE t = "beatmap_duration" -> {<<"min_seconds", "max_seconds">>}
    [] t = "beatmap_bpm" -> {<<"min_bpm", "max_bpm">>}
    [] t = "beatmap_length" -> {<<"min_hit_length", "max_hit_length">>,
                                <<"min_total_length", "max_total_length">>}
    [] t \in Stats \cup {"beatmap_star_rating", "beatmap_difficulty_count"} -> {<<"min", "max">>}
    [] OTHER -> {}
BoundFields(t) == UNION {{b[1], b[2]} : b \in Bounds(t)}
Integral(t) == t \in {"beatmap_duration", "beatmap_length", "beatmap_difficulty_count"}

Logics(t) ==
  CASE t = "beatmap_duration" -> {"max", "min", "all"}
    [] t = "beatmap_star_rating" -> {"max", "min", "all", "any"}
    [] t = "beatmap_bpm" -> {"any", "all", "avg"}
    [] t \in Stats \cup {"beatmap_tags", "beatmap_length"} -> {"any", "all"}
    [] OTHER -> {}

Required(t) ==
  CASE t = "rate_limit" -> {"max_requests", "period"}
    [] t = "cooldown" -> {"cooldown_seconds"}
    [] t = "blacklist" -> {"target"}
    [] t = "beatmap_genre" -> {"genre_ids"}
    [] t = "beatmap_language" -> {"language_ids"}
    [] t = "beatmap_mode" -> {"allowed_modes"}
    [] t = "beatmap_tags" -> {"tag_ids"}
    [] t \in {"beatmap_storyboard", "beatmap_video"} -> {"allowed"}
    [] t = "composite" -> {"operator", "rules"}
    [] OTHER -> {}

Defaults(t) ==
  CASE t \in Tier1 -> [scope |-> "user"]
    [] t = "never_ranked" -> [ruleset |-> "osu", normalize_versions |-> TRUE]
    [] t = "unique_artist_title" -> [normalize_versions |-> TRUE]
    [] t = "beatmap_duration" -> [logic |-> "max"]
    [] Logics(t) # {} -> [logic |-> "any"]
    [] OTHER -> NoFields

Fields(t) ==
  Required(t) \cup DOMAIN Defaults(t) \cup BoundFields(t)
    \cup (IF t \in Tier1 THEN {"target"} ELSE {})

(* dict.get                                                                *)
Lookup(c, f, default) == IF f \in DOMAIN c THEN c[f] ELSE default

(* What pydantic reads.                                                    *)
Flags == {"allowed", "normalize_versions"}
Number(v) == IF v = Quoted THEN Half(3) ELSE v
Flag(v) == v # Quoted /\ v

-----------------------------------------------------------------------------
(* The field validators.                                                   *)
validate_target_ids(v) == (\A i \in DOMAIN v : v[i] >= 1) /\ IsInjective(v)

BoundValid(t, v) ==
  \/ v = None
  \/ /\ Number(v) >= IF t = "beatmap_difficulty_count" THEN Half(1) ELSE 0
     /\ Integral(t) => Whole(Number(v))

FieldValid(t, f, v) ==
  CASE f \in BoundFields(t) -> BoundValid(t, v)
    [] f = "logic" -> v \in Logics(t)
    [] f \in {"max_requests", "cooldown_seconds"} -> v >= 1
    [] f = "period" -> v \in Periods
    [] f = "scope" -> v = "user"
    [] f = "target" -> IF t = "blacklist" THEN v # None /\ v # <<>> /\ validate_target_ids(v)
                       ELSE v = None \/ validate_target_ids(v)
    [] f = "genre_ids" -> v # <<>> /\ ToSet(v) \subseteq GenreIds
    [] f = "language_ids" -> v # <<>> /\ ToSet(v) \subseteq LanguageIds
    [] f = "allowed_modes" -> v # <<>> /\ ToSet(v) \subseteq Rulesets
    [] f = "tag_ids" -> v # <<>> /\ \A i \in DOMAIN v : Number(v[i]) >= 1
    [] f \in Flags -> v \in BOOLEAN \cup {Quoted}
    [] f = "ruleset" -> v \in Rulesets
    [] f = "operator" -> v \in Operators
    [] f = "rules" -> TRUE

(* The model validators: at least one bound, and none above its partner.   *)
validate_bounds(t, c) ==
  Bounds(t) # {} =>
    /\ \E f \in BoundFields(t) : Lookup(c, f, None) # None
    /\ \A b \in Bounds(t) :
         LET lo == Lookup(c, b[1], None)
             hi == Lookup(c, b[2], None)
         IN lo # None /\ hi # None => Number(lo) <= Number(hi)

SchemaValid(t, c) ==
  /\ DOMAIN c \subseteq Fields(t)
  /\ Required(t) \subseteq DOMAIN c
  /\ \A f \in DOMAIN c : FieldValid(t, f, c[f])
  /\ validate_bounds(t, c)

(* A child of a composite is an object with perhaps a type and a config.   *)
ChildType(r) == Lookup(r, "type", "")
ChildConfig(r) == Lookup(r, "config", NoFields)

RECURSIVE ValidTree(_, _, _)
ValidTree(operator, rules, depth) ==
  /\ depth <= MAX_COMPOSITE_DEPTH
  /\ rules # <<>>
  /\ operator = "not" => Len(rules) = 1
  /\ \A i \in DOMAIN rules :
       LET t == ChildType(rules[i])
           c == ChildConfig(rules[i])
       IN IF t = "composite"
          THEN /\ Lookup(c, "operator", None) \in Operators
               /\ ValidTree(c.operator, Lookup(c, "rules", <<>>), depth + 1)
          ELSE t \in RuleType \ Tier1 /\ SchemaValid(t, c)

validate_composite_tree(operator, rules) == ValidTree(operator, rules, 1)

ConfigValid(t, c) ==
  /\ t \in RuleType
  /\ SchemaValid(t, c)
  /\ t = "composite" => validate_composite_tree(c.operator, c.rules)

(* model_dump(exclude_none=True): the defaults, without nulls.  What a     *)
(* composite holds is data to it, and keeps the form it was sent in.       *)
model_dump(t, c) ==
  LET full == [f \in DOMAIN c \cup DOMAIN Defaults(t) |->
                 IF f \in DOMAIN c THEN c[f] ELSE Defaults(t)[f]]
  IN [f \in {g \in DOMAIN full : full[g] # None} |-> full[f]]

-----------------------------------------------------------------------------
(* The OpenAPI schema of each config; "config" must match oneOf them.  It  *)
(* wants the JSON types themselves, but says nothing of a child's config.  *)
SpecRequired(t) ==
  Required(t) \cup (IF t \in Tier1 THEN {"scope"} ELSE {})

SpecMaximum(t) ==
  CASE t = "beatmap_ar_range" -> 21
    [] t \in Stats \ {"beatmap_drain_range"} -> Half(10)
    [] OTHER -> None

SpecFieldValid(t, f, v) ==
  CASE f \in BoundFields(t) ->
         /\ v # None
         /\ Integral(t) => Whole(v)
         /\ \/ t \in Stats /\ f = "max"
            \/ v >= IF t = "beatmap_difficulty_count" THEN Half(1) ELSE 0
         /\ f = "max" /\ SpecMaximum(t) # None => v <= SpecMaximum(t)
    [] f = "target" -> \/ v = None /\ t # "blacklist"
                       \/ /\ v # None
                          /\ t = "blacklist" => v # <<>>
                          /\ \A i \in DOMAIN v : v[i] >= 1
    [] f = "tag_ids" -> Quoted \notin ToSet(v)
    [] f = "rules" -> v # <<>>
    [] OTHER -> FieldValid(t, f, v)

SpecMatches(t, c) ==
  /\ DOMAIN c \subseteq Fields(t)
  /\ SpecRequired(t) \subseteq DOMAIN c
  /\ \A f \in DOMAIN c : c[f] # Quoted /\ SpecFieldValid(t, f, c[f])

(* The JSON-schema keyword, as connexion's body validator applies it.      *)
OneOf(c) == Cardinality({t \in RuleType : SpecMatches(t, c)}) = 1
=============================================================================

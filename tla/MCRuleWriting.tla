--------------------------- MODULE MCRuleWriting ---------------------------
(***************************************************************************)
(* Three families: two writers racing over a handful of rules, two writers *)
(* racing over the columns of one rule, and one writer with the configs at *)
(* the edges of every schema.                                              *)
(***************************************************************************)
EXTENDS RuleWriting

CONSTANTS w1, w2
WriterSymmetry == Permutations({w1, w2})

Rule(t, v, c) == [type |-> t, version |-> v, config |-> c, is_active |-> TRUE]
Some(f, values) == {f :> v : v \in values}
With(cs, more) == cs \cup {c @@ d : c \in cs, d \in more}

-----------------------------------------------------------------------------
Limit(n) == [max_requests |-> n, period |-> "day", scope |-> "user"]
Cool(target) == [cooldown_seconds |-> 30, scope |-> "user", target |-> target]
RaceBodies == {Rule("rate_limit", "1.0", Limit(1)), Rule("rate_limit", "1.1", Limit(1))}
RacePatches == {[version |-> "1.1"], [config |-> Limit(2), is_active |-> FALSE]}
RaceLists ==
  {<<Rule("rate_limit", "1.0", Limit(1)), Rule("rate_limit", "1.1", Limit(1))>>,
   <<Rule("rate_limit", "1.0", Limit(2)), Rule("cooldown", "1.0", Cool(<<1, 2>>))>>}

(* Configs that decide differently, one of them in two spellings.          *)
Long == [min_seconds |-> 6]
Short == [max_seconds |-> 6, logic |-> "min"]
ColumnPatches ==
  {[config |-> c] : c \in {Long, Long @@ [logic |-> "max"], Short}}
    \cup {[is_active |-> a] : a \in BOOLEAN}
    \cup {[config |-> Short, is_active |-> FALSE], [config |-> Long, version |-> "1.0"]}
ColumnBodies == {Rule("beatmap_duration", "1.0", c) : c \in {Long, Short}}

-----------------------------------------------------------------------------
BoundConfigs(t) ==
  LET b == CHOOSE p \in Bounds(t) : TRUE
      one == Some(b[1], {None, 0, 6, 7}) \cup Some(b[2], {-2, 0, 6, 14, 22})
      two == {(b[1] :> lo) @@ (b[2] :> hi) : lo \in {6, 8}, hi \in {None, 6, 8}}
  IN With(one \cup two \cup {NoFields}, Some("logic", {"max", "min", "all", "any", "avg"}))
LengthConfigs ==
  With({("min_hit_length" :> a) @@ ("min_total_length" :> b) : a \in {None, 6}, b \in {6, 8}}
         \cup {("max_hit_length" :> 6) @@ ("min_total_length" :> 8)},
       Some("logic", {"any", "all"}))
ListConfigs(f, lists) == With(Some(f, lists), Some("logic", {"any", "all"}))
Strictness == With({NoFields} \cup Some("normalize_versions", BOOLEAN), Some("ruleset", {"osu", "taiko", "x"}))

AtomConfigs(t) ==
  CASE t = "beatmap_length" -> LengthConfigs \cup BoundConfigs(t)
    [] Bounds(t) # {} -> BoundConfigs(t)
    [] t = "beatmap_genre" -> ListConfigs("genre_ids", {<<>>, <<4>>, <<4, 8>>, <<4, 5>>})
    [] t = "beatmap_language" -> ListConfigs("language_ids", {<<>>, <<2>>, <<3, 2>>, <<15>>})
    [] t = "beatmap_mode" -> ListConfigs("allowed_modes", {<<>>, <<"osu">>, <<"osu", "taiko">>, <<"x">>})
    [] t = "beatmap_tags" -> ListConfigs("tag_ids", {<<>>, <<1>>, <<1, 2>>, <<0>>})
    [] t \in {"beatmap_storyboard", "beatmap_video"} -> Some("allowed", BOOLEAN \cup {Quoted}) \cup {NoFields}
    [] t \in Tier3 -> Strictness
    [] t = "blacklist" -> With(Some("target", {None, <<>>, <<1>>, <<2, 2>>}), {[scope |-> "user"]})
    [] t = "cooldown" -> {[cooldown_seconds |-> n, scope |-> "user"] : n \in {0, 1}} \cup {Cool(<<1, 1>>), Cool(None)}
    [] t = "rate_limit" ->
         {[Limit(n) EXCEPT !.period = p] : n \in {0, 1}, p \in {"day", "60", "0", "fortnight"}}

Child(t, c) == [type |-> t, config |-> c]
Of(op, rs) == [operator |-> op, rules |-> rs]
RECURSIVE Chain(_)
Chain(n) == IF n = 1 THEN Of("not", <<Child("beatmap_ar_range", [min |-> 6])>>)
            ELSE Of("not", <<Child("composite", Chain(n - 1))>>)
ChildConfigs ==
  {Child(t, c) : t \in Stats \cup {"beatmap_difficulty_count"}, c \in {[min |-> 6], [max |-> 6, logic |-> "all"]}}
    \cup {Child("beatmap_duration", c) : c \in {[max_seconds |-> 6], [min_seconds |-> None, max_seconds |-> 6, logic |-> "all"]}}
    \cup {Child("beatmap_storyboard", [allowed |-> FALSE]), Child("beatmap_video", [allowed |-> FALSE]),
          Child("unique_artist_title", [normalize_versions |-> FALSE]), Child("never_ranked", NoFields),
          Child("beatmap_storyboard", [allowed |-> Quoted]), Child("beatmap_tags", [tag_ids |-> <<Quoted>>]),
          Child("beatmap_bpm", [min_bpm |-> Quoted, max_bpm |-> 6]), Child("beatmap_cs_range", [max |-> Quoted, min |-> 8]),
          Child("unique_artist_title", [normalize_versions |-> Quoted]),
          Child("never_ranked", [normalize_versions |-> Quoted]), Child("never_ranked", [ruleset |-> "osu"]),
          Child("cooldown", [cooldown_seconds |-> 1]), Child("x", [min |-> 6]), [config |-> NoFields],
          [type |-> "composite"], Child("composite", Of("nor", <<>>)), Child("composite", Of("or", <<>>))}
Trees ==
  {Of(op, <<r>>) : op \in Operators, r \in ChildConfigs}
    \cup {Of(op, <<Child("beatmap_cs_range", [min |-> 6]), Child("beatmap_hp_range", [max |-> 6])>>) :
            op \in Operators}
    \cup {Of("or", <<Child("beatmap_genre", [genre_ids |-> <<4>>]),
                     Child("composite", Of("not", <<Child("beatmap_ar_range", [max |-> 6])>>))>>)}
    \cup {Of("or", <<>>)} \cup {Chain(n) : n \in 9..13}

BroadBodies ==
  {Rule("composite", "1.0", c) : c \in Trees}
    \cup UNION {{Rule(t, "1.0", c) : c \in AtomConfigs(t)} : t \in RuleType \ {"composite"}}
BroadPatches ==
  {[version |-> v] : v \in {"1.1", "2.0"}}
    \cup {[config |-> c] : c \in {Limit(2), [min_seconds |-> 6], [min_seconds |-> 8, max_seconds |-> 6],
                                  [min |-> 6, logic |-> "max"], [min |-> 6], Chain(10), Chain(12)}}

-----------------------------------------------------------------------------
MCKinds == {"race", "columns", "broad"}
MCWriters(k) == IF k = "broad" THEN {w1} ELSE {w1, w2}
MCMaxId(k) == IF k = "race" THEN 3 ELSE 1
MCBodies(k) == CASE k = "race" -> RaceBodies [] k = "columns" -> ColumnBodies [] k = "broad" -> BroadBodies
MCPatches(k) == CASE k = "race" -> RacePatches [] k = "columns" -> ColumnPatches [] k = "broad" -> BroadPatches
MCLists(k) == IF k = "race" THEN RaceLists ELSE {<<>>}

-----------------------------------------------------------------------------
Attributes == {"ar", "accuracy", "drain", "cs", "hit_length", "total_length", "difficulty_rating", "bpm"}
Base == [a \in Attributes |-> 10] @@ [mode |-> "osu", top_tag_ids |-> {}]
Low(a) == [Base EXCEPT ![a] = 4]
Tagged(tags, mode) == [Base EXCEPT !.top_tag_ids = tags, !.mode = mode]
BeatmapLists ==
  {<<>>, <<Base>>, <<Low("hit_length"), Low("total_length")>>, <<Tagged({1}, "osu"), Tagged({2, 6}, "taiko")>>,
   <<Tagged({1}, "taiko"), Base, Low("bpm"), Low("bpm")>>}
    \cup {<<Low(a)>> : a \in Attributes} \cup {<<Base, Low(a)>> : a \in Attributes}

Plain(word) == [word |-> word, mark |-> FALSE]
Song(a, t, au, tu) == [artist |-> a, title |-> t, artist_unicode |-> au, title_unicode |-> tu]
Own == Song(Plain("a"), [word |-> "t", mark |-> TRUE], Plain("A"), Plain("T"))
Songs == {Song(Plain("a"), Plain("t"), NoText, NoText), Song(Plain("b"), Plain("u"), Plain("A"), Plain("T")),
          Song(Plain("a"), Plain("u"), NoText, NoText)}
NoPages == [r \in Rulesets |-> <<>>]
(* The song is ranked, and found on the page after n full ones.            *)
Buried(n) == [k \in 1..(n + 2) |->
                IF k <= n THEN {Song(Plain("a"), Plain("u"), NoText, NoText)}
                ELSE IF k = n + 1 THEN {Song(Plain("a"), Plain("t"), NoText, NoText)} ELSE {}]
Set(genre, language, flag) ==
  [id |-> 1, genre |-> genre, language |-> language, storyboard |-> flag, video |-> ~flag, song |-> Own]
Context(set, bs, client, ranked, requested) ==
  [user |-> 1, set |-> set, beatmaps |-> bs, client |-> client, ranked |-> ranked, requested |-> requested]

MCContexts ==
  {Context(Set(4, 2, TRUE), bs, FALSE, NoPages, {}) : bs \in BeatmapLists}
    \cup {Context(Set(None, None, FALSE), <<Base>>, FALSE, NoPages, {}),
          Context(Set(5, 3, FALSE), <<Base>>, FALSE, NoPages, {})}
    \cup {Context(Set(4, 2, TRUE), <<Base>>, TRUE, [NoPages EXCEPT ![r] = <<{s}, {}>>], {}) :
            r \in {"osu", "taiko"}, s \in Songs}
    \cup {Context(Set(4, 2, TRUE), <<Base>>, TRUE, [NoPages EXCEPT !["osu"] = Buried(n)], {}) : n \in 4..6}
    \cup {Context(Set(4, 2, TRUE), <<Base>>, TRUE, [NoPages EXCEPT !["osu"] = <<{}>>],
                  {[beatmapset |-> id, song |-> s]}) : id \in {1, 2}, s \in Songs}
=============================================================================

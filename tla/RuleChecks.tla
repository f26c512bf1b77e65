----------------------------- MODULE RuleChecks -----------------------------
(***************************************************************************)
(* What a rule decides: the check of every validator, and the evaluation   *)
(* of a rule tree.  A verdict is "pass", "violation" (RuleViolationError), *)
(* "forbidden", or "error" for any other exception.                        *)
(*                                                                         *)
(* A context x has the user, the beatmapset (None when unavailable), its   *)
(* beatmaps, whether an osu! client is at hand (Phase 2), the pages that   *)
(* the search for ranked sets returns, and the songs requested in the      *)
(* queue.  A text is [word, mark]: word stands for the texts equal but for *)
(* case, punctuation and space ("" for none), mark for a version marker.   *)
(***************************************************************************)
EXTENDS RuleConfigs

CONSTANT MAX_SEARCH_PAGES

Verdict(ok) == IF ok THEN "pass" ELSE "violation"

Above(v, lo) == lo = None \/ v >= lo
Below(v, hi) == hi = None \/ v <= hi
Inside(v, lo, hi) == Above(v, lo) /\ Below(v, hi)
Values(x, attr) == [i \in DOMAIN x.beatmaps |-> x.beatmaps[i][attr]]
Total(s) == FoldLeft(+, 0, s)

(* The shape the AR, OD, HP, CS and drain checks share.                    *)
AnyOrAll(c, values) ==
  LET ok(i) == Inside(values[i], Lookup(c, "min", None), Lookup(c, "max", None))
  IN Verdict(/\ values # <<>>
             /\ IF Lookup(c, "logic", "any") = "all"
                THEN \A i \in DOMAIN values : ok(i)
                ELSE \E i \in DOMAIN values : ok(i))

CheckAR(c, x) == AnyOrAll(c, Values(x, "ar"))
CheckOD(c, x) == AnyOrAll(c, Values(x, "accuracy"))
CheckHP(c, x) == AnyOrAll(c, Values(x, "drain"))
CheckCS(c, x) == AnyOrAll(c, Values(x, "cs"))
CheckDrain(c, x) == AnyOrAll(c, Values(x, "hit_length"))

CheckStarRating(c, x) ==
  LET values == Values(x, "difficulty_rating")
      lo == Lookup(c, "min", None)
      hi == Lookup(c, "max", None)
      logic == Lookup(c, "logic", "any")
  IN IF values = <<>> THEN "violation"
     ELSE IF logic \in {"max", "min"}
     THEN Verdict(Inside(IF logic = "max" THEN Max(ToSet(values)) ELSE Min(ToSet(values)), lo, hi))
     ELSE AnyOrAll(c, values)

(* With "all" the lower bound is not compared with None: a null there is a *)
(* TypeError at the first beatmap.                                         *)
CheckDuration(c, x) ==
  LET values == Values(x, "total_length")
      lo == Lookup(c, "min_seconds", None)
      hi == Lookup(c, "max_seconds", None)
      logic == Lookup(c, "logic", "max")
  IN IF values = <<>> THEN "violation"
     ELSE IF logic \in {"max", "min"}
     THEN Verdict(Inside(IF logic = "max" THEN Max(ToSet(values)) ELSE Min(ToSet(values)), lo, hi))
     ELSE IF "min_seconds" \in DOMAIN c /\ lo = None THEN "error"
     ELSE Verdict(\A i \in DOMAIN values : Inside(values[i], lo, hi))

CheckBPM(c, x) ==
  LET values == Values(x, "bpm")
      lo == Lookup(c, "min_bpm", None)
      hi == Lookup(c, "max_bpm", None)
      n == Len(values)
  IN IF values = <<>> THEN "violation"
     ELSE CASE Lookup(c, "logic", "any") = "avg" ->
                 Verdict(/\ lo = None \/ Total(values) >= n * lo
                         /\ hi = None \/ Total(values) <= n * hi)
            [] Lookup(c, "logic", "any") = "all" ->
                 Verdict(\A i \in DOMAIN values : Inside(values[i], lo, hi))
            [] OTHER -> Verdict(\E i \in DOMAIN values : Inside(values[i], lo, hi))

LengthInside(c, b) ==
  /\ Inside(b.hit_length, Lookup(c, "min_hit_length", None), Lookup(c, "max_hit_length", None))
  /\ Inside(b.total_length, Lookup(c, "min_total_length", None),
                            Lookup(c, "max_total_length", None))

CheckLength(c, x) ==
  LET n == DOMAIN x.beatmaps
  IN Verdict(IF Lookup(c, "logic", "any") = "all"
             THEN n # {} /\ \A i \in n : LengthInside(c, x.beatmaps[i])
             ELSE \E i \in n : LengthInside(c, x.beatmaps[i]))

CheckDifficultyCount(c, x) ==
  Verdict(Inside(Half(Len(x.beatmaps)), Lookup(c, "min", None), Lookup(c, "max", None)))

CheckGenre(c, x) == Verdict(x.set.genre # None /\ x.set.genre \in ToSet(Lookup(c, "genre_ids", <<>>)))
CheckLanguage(c, x) ==
  Verdict(x.set.language # None /\ x.set.language \in ToSet(Lookup(c, "language_ids", <<>>)))

CheckMode(c, x) ==
  Verdict(/\ x.beatmaps # <<>>
          /\ ToSet(Values(x, "mode")) \subseteq ToSet(Lookup(c, "allowed_modes", <<>>)))

(* These read the config as it is: any string is true.                     *)
Truthy(v) == v = Quoted \/ v
CheckStoryboard(c, x) == Verdict(Truthy(Lookup(c, "allowed", TRUE)) \/ ~x.set.storyboard)
CheckVideo(c, x) == Verdict(Truthy(Lookup(c, "allowed", TRUE)) \/ ~x.set.video)

CheckTags(c, x) ==
  LET required == ToSet(Lookup(c, "tag_ids", <<>>))
      present == UNION {b.top_tag_ids : b \in ToSet(x.beatmaps)}
  IN Verdict(\/ required = {}
             \/ /\ present # {}
                /\ IF Lookup(c, "logic", "any") = "all" THEN required \subseteq present
                                                        ELSE required \cap present # {})

CheckBlacklist(c, x) ==
  IF Lookup(c, "scope", "user") = "user" /\ x.user \in ToSet(Lookup(c, "target", <<>>))
  THEN "forbidden" ELSE "pass"

-----------------------------------------------------------------------------
normalize_text(text, strip) == IF strip THEN [text EXCEPT !.mark = FALSE] ELSE text
Blank(text) == text.word = "" /\ ~text.mark
OrElse(text, other) == IF Blank(text) THEN other ELSE text

normalized_identity_forms(s, strip) ==
  LET pairs == {<<s.artist, s.title>>,
                <<OrElse(s.artist_unicode, s.artist), OrElse(s.title_unicode, s.title)>>}
      normal == {<<normalize_text(p[1], strip), normalize_text(p[2], strip)>> : p \in pairs}
  IN {p \in normal : ~Blank(p[1]) /\ ~Blank(p[2])}

(* SongIdentityProvider: the beatmapset's own texts, or none.              *)
NoText == [word |-> "", mark |-> FALSE]
song_identity(x) ==
  IF x.set = None
  THEN [artist |-> NoText, title |-> NoText, artist_unicode |-> NoText, title_unicode |-> NoText]
  ELSE x.set.song

Shares(a, b, strip) ==
  normalized_identity_forms(a, strip) \cap normalized_identity_forms(b, strip) # {}

(* The pages are read up to the first empty one.                           *)
PagesRead(pages) ==
  {i \in DOMAIN pages : i <= MAX_SEARCH_PAGES /\ \A j \in 1..i : pages[j] # {}}

CheckNeverRanked(c, x) ==
  LET strip == Flag(Lookup(c, "normalize_versions", TRUE))
      ruleset == Lookup(c, "ruleset", "osu")
      pages == x.ranked[ruleset]
  IN Verdict(/\ x.client
             /\ normalized_identity_forms(song_identity(x), strip) # {}
             /\ \A i \in PagesRead(pages) : \A s \in pages[i] : ~Shares(song_identity(x), s, strip))

CheckUniqueArtistTitle(c, x) ==
  LET strip == Flag(Lookup(c, "normalize_versions", TRUE))
  IN Verdict(/\ x.client
             /\ normalized_identity_forms(song_identity(x), strip) # {}
             /\ \A r \in x.requested :
                  (x.set # None /\ r.beatmapset = x.set.id) \/ ~Shares(song_identity(x), r.song, strip))

-----------------------------------------------------------------------------
(* RestrictionBase.check and BeatmapRestrictionBase._check.  Rate limits   *)
(* and cooldowns are StatefulRules: here they let everything pass.  A      *)
(* bound that is a string is a TypeError once it is compared, and nothing  *)
(* passes without comparing it.                                            *)
Check(t, c, x) ==
  CASE DOMAIN c = {} -> "violation"
    [] t \in {"rate_limit", "cooldown"} -> "pass"
    [] t = "blacklist" -> CheckBlacklist(c, x)
    [] t = "never_ranked" -> CheckNeverRanked(c, x)
    [] t = "unique_artist_title" -> CheckUniqueArtistTitle(c, x)
    [] x.set = None -> "violation"
    [] \E f \in BoundFields(t) : Lookup(c, f, None) = Quoted -> "error"
    [] t = "beatmap_duration" -> CheckDuration(c, x)
    [] t = "beatmap_star_rating" -> CheckStarRating(c, x)
    [] t = "beatmap_ar_range" -> CheckAR(c, x)
    [] t = "beatmap_od_range" -> CheckOD(c, x)
    [] t = "beatmap_hp_range" -> CheckHP(c, x)
    [] t = "beatmap_cs_range" -> CheckCS(c, x)
    [] t = "beatmap_drain_range" -> CheckDrain(c, x)
    [] t = "beatmap_bpm" -> CheckBPM(c, x)
    [] t = "beatmap_genre" -> CheckGenre(c, x)
    [] t = "beatmap_language" -> CheckLanguage(c, x)
    [] t = "beatmap_mode" -> CheckMode(c, x)
    [] t = "beatmap_difficulty_count" -> CheckDifficultyCount(c, x)
    [] t = "beatmap_storyboard" -> CheckStoryboard(c, x)
    [] t = "beatmap_video" -> CheckVideo(c, x)
    [] t = "beatmap_tags" -> CheckTags(c, x)
    [] t = "beatmap_length" -> CheckLength(c, x)

(* build_rule_node raises on a "not" without exactly one child and on an   *)
(* unknown operator; a composite node raises below the maximal depth.      *)
RECURSIVE BuildRaises(_, _)
BuildRaises(t, c) ==
  /\ t = "composite"
  /\ LET rules == Lookup(c, "rules", <<>>)
         operator == Lookup(c, "operator", "and")
     IN \/ operator \notin Operators
        \/ operator = "not" /\ Len(rules) # 1
        \/ \E i \in DOMAIN rules : BuildRaises(ChildType(rules[i]), ChildConfig(rules[i]))

RECURSIVE TooDeep(_, _, _)
TooDeep(t, c, depth) ==
  /\ t = "composite"
  /\ \/ depth > MAX_COMPOSITE_DEPTH
     \/ \E i \in DOMAIN c.rules :
          TooDeep(ChildType(c.rules[i]), ChildConfig(c.rules[i]), depth + 1)

(* evaluate: a violation or an error of an atom is False, and so is an     *)
(* atom whose type has no validator.                                       *)
RECURSIVE Evaluate(_, _, _)
Evaluate(t, c, x) ==
  IF t # "composite" THEN t \in RuleType /\ Check(t, c, x) = "pass"
  ELSE LET child(i) == Evaluate(ChildType(c.rules[i]), ChildConfig(c.rules[i]), x)
       IN CASE c.operator = "and" -> \A i \in DOMAIN c.rules : child(i)
            [] c.operator = "or" -> \E i \in DOMAIN c.rules : child(i)
            [] c.operator = "not" -> ~child(1)

RECURSIVE effective_rule_tier(_, _)
effective_rule_tier(t, c) ==
  IF t = "composite"
  THEN Max({2} \cup {effective_rule_tier(ChildType(r), ChildConfig(r)) :
                       r \in ToSet(Lookup(c, "rules", <<>>))})
  ELSE CASE t \in Tier1 -> 1 [] t \in Tier3 -> 3 [] OTHER -> 2

(* get_supported_versions: None for a type without a validator.            *)
get_supported_versions(t) ==
  CASE t = "composite" -> None [] t = "rate_limit" -> {"1.0", "1.1"} [] OTHER -> {"1.0"}
=============================================================================

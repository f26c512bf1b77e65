--------------------------- MODULE SnapshotFields ---------------------------
(***************************************************************************)
(* The derived fields of a beatmapset snapshot, each written twice in the  *)
(* code: in Python, for the instance that the API shows                    *)
(* (models/beatmapset_snapshot.py), and in SQL, for searching, sorting and *)
(* filtering (database/ctes/bms_ss).                                       *)
(*                                                                         *)
(* A snapshot is seen through its beatmaps' star ratings and hit lengths   *)
(* (sequences, in the order the relationship has them) and its JSON        *)
(* columns (functions from keys to values, or Null).  Ratings and averages *)
(* are counted in hundredths, the precision both sides round to.           *)
(***************************************************************************)
EXTENDS Integers, Sequences, FiniteSets, FiniteSetsExt, SequencesExt

CONSTANTS Null,     \* SQL NULL and Python None
          Raised    \* the Python property raises

Ascending(s) == SortSeq(s, LAMBDA a, b : a < b)
Members(s) == {s[i] : i \in DOMAIN s}
SumOf(s) == FoldLeft(LAMBDA a, b : a + b, 0, s)

\* round(n / d, 0) of PostgreSQL's numeric, n >= 0: halves go up.
RoundUp(n, d) == (2 * n + d) \div (2 * d)

\* Python's round of the float nearest n / d: a half goes either way, since
\* the float lies on either side of it or the rule is half to even.
RoundFloat(n, d) ==
    LET q == n \div d
        r == n % d
    IN  CASE 2 * r < d -> {q}
          [] 2 * r > d -> {q + 1}
          [] OTHER     -> {q, q + 1}

-----------------------------------------------------------------------------
(* Python: the set of values a property may have. *)

num_difficulties(ratings) == {Len(ratings)}

sr_gaps(ratings) ==
    LET sorted == Ascending(ratings)
    IN  [i \in 1..(Len(sorted) - 1) |-> sorted[i + 1] - sorted[i]]

\* min, max or the rounded mean of a list; each raises on an empty one.
OfList(agg, s) ==
    CASE s = <<>>    -> {Raised}
      [] agg = "min" -> {Min(Members(s))}
      [] agg = "max" -> {Max(Members(s))}
      [] agg = "avg" -> RoundFloat(SumOf(s), Len(s))

sr_gaps_agg(agg, ratings) == OfList(agg, sr_gaps(ratings))

hit_lengths_agg(agg, lengths) ==
    IF agg = "avg" THEN OfList(agg, [i \in DOMAIN lengths |-> 100 * lengths[i]])
    ELSE OfList(agg, lengths)

\* availability, description and nominations_summary are indexed outright.
Indexed(column, key) ==
    IF column = Null \/ key \notin DOMAIN column THEN {Raised} ELSE {column[key]}

\* genre, hype and language may be missing, or miss the key.
Optional(column, key) ==
    IF column # Null /\ key \in DOMAIN column THEN {column[key]} ELSE {Null}

-----------------------------------------------------------------------------
(* SQL: the target of the field's CTE for the snapshot, Null when the CTE   *)
(* has no row for it.                                                       *)

num_difficulties_cte(ratings) == IF ratings = <<>> THEN Null ELSE Len(ratings)

\* Only snapshots with several beatmaps have rows in the two CTEs below.
Several(s) == Len(s) > 1

\* Mutant: a window without an order.
UnorderedLag(ratings) ==
    [i \in DOMAIN ratings |->
        CASE i = 1 -> Null
          [] i > 1 /\ ratings[i] >= ratings[i - 1] -> ratings[i] - ratings[i - 1]
          [] OTHER -> ratings[i - 1] - ratings[i]]

\* lag() over the ratings in order: the first row has no gap.
sr_gap_cte(ratings) ==
    LET sorted == Ascending(ratings)
    IN  [i \in DOMAIN sorted |-> IF i = 1 THEN Null ELSE sorted[i] - sorted[i - 1]]

\* min, max and avg skip NULLs.
Aggregate(agg, s) ==
    LET known == SelectSeq(s, LAMBDA v : v # Null)
    IN  CASE known = <<>> -> Null
          [] agg = "min"  -> Min(Members(known))
          [] agg = "max"  -> Max(Members(known))
          [] agg = "avg"  -> RoundUp(SumOf(known), Len(known))

sr_gap_agg_cte(agg, ratings) ==
    IF Several(ratings) THEN Aggregate(agg, sr_gap_cte(ratings)) ELSE Null

hit_length_agg_cte(agg, lengths) ==
    IF ~Several(lengths) THEN Null
    ELSE Aggregate(agg, IF agg = "avg" THEN [i \in DOMAIN lengths |-> 100 * lengths[i]]
                                       ELSE lengths)

\* column -> key, cast from text.
JsonPath(column, key) ==
    IF column # Null /\ key \in DOMAIN column THEN column[key] ELSE Null

-----------------------------------------------------------------------------
(* The fields by name. *)

Aggs == {"min", "max", "avg"}
Field(kind, arg) == [kind |-> kind, arg |-> arg]
ColumnOf == [download_disabled |-> "availability", description |-> "description",
             id |-> "genre", language_id |-> "language", current |-> "hype",
             required |-> "hype", nominations |-> "nominations_summary"]
MandatoryColumns == {"availability", "description", "nominations_summary"}

PythonField(f, ratings, lengths, json) ==
    CASE f.kind = "num_difficulties" -> num_difficulties(ratings)
      [] f.kind = "sr_gaps"          -> sr_gaps_agg(f.arg, ratings)
      [] f.kind = "hit_lengths"      -> hit_lengths_agg(f.arg, lengths)
      [] f.kind = "json" ->
            IF ColumnOf[f.arg] \in MandatoryColumns THEN Indexed(json[ColumnOf[f.arg]], f.arg)
            ELSE Optional(json[ColumnOf[f.arg]], f.arg)

\* hype_required_cte reads the genre column.
SqlColumn(key) == IF key = "required" THEN "genre" ELSE ColumnOf[key]

SqlField(f, ratings, lengths, json) ==
    CASE f.kind = "num_difficulties" -> num_difficulties_cte(ratings)
      [] f.kind = "sr_gaps"          -> sr_gap_agg_cte(f.arg, ratings)
      [] f.kind = "hit_lengths"      -> hit_length_agg_cte(f.arg, lengths)
      [] f.kind = "json"             -> JsonPath(json[SqlColumn(f.arg)], f.arg)
=============================================================================

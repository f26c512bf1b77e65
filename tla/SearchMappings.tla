--------------------------- MODULE SearchMappings ---------------------------
(***************************************************************************)
(* The scopes of a search, the categories of rows each scope searches and  *)
(* the text fields of a category (app/search/mappings.py).                 *)
(***************************************************************************)

SCOPE_CATEGORIES ==
    [beatmaps    |-> {"beatmap", "beatmapset"},
     beatmapsets |-> {"beatmap", "beatmapset"},
     queues      |-> {"beatmap", "beatmapset", "queue", "request"},
     requests    |-> {"beatmap", "beatmapset", "request"}]

CATEGORY_MODEL_FIELDS ==
    [beatmap    |-> {"version"},
     beatmapset |-> {"title", "title_unicode", "artist", "artist_unicode",
                     "creator", "source", "tags", "description"},
     queue      |-> {"name", "description"},
     request    |-> {"comment"}]

\* The fields scored as one: a configured group, or a field on its own.
CATEGORY_FIELD_GROUPS(c) ==
    LET paired == {{"title", "title_unicode"}, {"artist", "artist_unicode"}}
    IN  IF c = "beatmapset"
        THEN paired \cup {{f} : f \in CATEGORY_MODEL_FIELDS[c] \ UNION paired}
        ELSE {{f} : f \in CATEGORY_MODEL_FIELDS[c]}
=============================================================================

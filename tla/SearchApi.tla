------------------------------ MODULE SearchApi ------------------------------
(***************************************************************************)
(* POST /search and GET /search (api/v1/search): a client posts a search,  *)
(* gets a link with its compressed binary form, and follows it.            *)
(*                                                                         *)
(* Brotli is lossless, so a link is the bytes of the search and the length *)
(* of their base64 form.  The rows of a page are left to SearchQuery: here *)
(* a scope has `rows' matching rows.                                       *)
(***************************************************************************)
EXTENDS SearchSchema

CONSTANTS
    Kinds,          \* of bodies
    Bodies(_),      \* the bodies posted, in a kind
    Callers,        \* "anonymous", "token" (valid) or "expired"
    RowCounts,      \* rows a search matches
    BrotliSize(_),  \* the length of compressed bytes
    Limits, Offsets

VARIABLES
    body,       \* the body posted
    link,       \* what POST answered: q, Null before, or an error
    cache,      \* the keys of search_cache that have a value
    reply       \* the last answer: [status, next, prev]

vars == <<body, link, cache, reply>>

\* EXCEPTIONS become 400; any other exception is a 500.
BadRequest == {ValueError, TypeError}
ErrorStatus(e) == IF e \in BadRequest THEN 400 ELSE 500
Answer(status, next, prev) == [status |-> status, next |-> next, prev |-> prev]

Init ==
    /\ \E k \in Kinds : body \in Bodies(k)
    /\ link = Null
    /\ cache = {}
    /\ reply = Answer(0, Null, Null)

\* base64 has four characters for three bytes, here without the padding.
compress_query(bytes) ==
    LET n == BrotliSize(bytes)
    IN  [bytes |-> bytes, chars |-> 4 * (n \div 3) + <<0, 2, 3>>[1 + (n % 3)]]

\* Padded by len(q) % 4: the decoder wants groups of four and ignores more.
decompress_query(q) ==
    LET over == q.chars % 4
    IN  IF over = 0 \/ over + over >= 4 THEN q.bytes ELSE ValueError

\* post: validated, serialized, compressed, so long as nothing raises.
Unless(x, Then(_)) == IF x \in Raises THEN x ELSE Then(x)
PostLink == Unless(Unless(search_validated(body), search_serialize), compress_query)

Post ==
    /\ link = Null
    /\ link' = PostLink
    /\ reply' = Answer(IF link' \in Raises THEN ErrorStatus(link') ELSE 201, Null, Null)
    /\ UNCHANGED <<body, cache>>

-----------------------------------------------------------------------------

SCOPES_REQUIRING_AUTH == {"queues", "requests"}
authenticate_for_scope(scope, caller) == scope \notin SCOPES_REQUIRING_AUTH \/ caller = "token"

\* The scopes that have a TTL: CacheTTLConfig names them in the singular.
CacheTTLConfig == {"beatmap", "beatmapset", "profile", "request", "queue", "score", "user"}
make_key(sq, limit, offset) ==
    <<sq.scope, IF sq.search_terms = Null THEN Null ELSE sq.search_terms.terms, limit, offset>>

\* json.dumps has no form for a date; a large page is not stored; then the
\* TTL is looked up.
cache_set(scope, page) ==
    CASE page.dated -> TypeError
      [] page.large -> Null
      [] OTHER      -> IF scope \in CacheTTLConfig THEN Null ELSE KeyError

build_pagination_response(total, limit, offset) ==
    Answer(200, IF offset + limit < total THEN offset + limit ELSE Null,
                IF offset > 0 THEN Max({0, offset - limit}) ELSE Null)

\* What can be refused before the database is asked.
Refusal(sq, caller, includeOk) ==
    CASE sq \in Raises -> ErrorStatus(sq)
      [] ~authenticate_for_scope(sq.scope, caller) -> 401
      [] ~includeOk -> 400
      [] sq.sorting \notin {Null, <<>>} \/ sq.filters # Null -> 400  \* json.dumps of a model
      [] OTHER -> 0

\* What a search that was read (or what reading it raised) is answered, and
\* the keys it adds to the cache.
Page(sq, asked) ==
    LET refusal == Refusal(sq, asked.caller, asked.includeOk)
        key == make_key(sq, asked.limit, asked.offset)
        uncached == sq.scope = "queues"
        stored == IF uncached \/ key \in cache THEN Null ELSE cache_set(sq.scope, asked)
        Only(status) == [reply |-> Answer(status, Null, Null), keys |-> {}]
    IN  IF refusal # 0 THEN Only(refusal)
        ELSE IF stored \in Raises THEN Only(ErrorStatus(stored))
        ELSE [reply |-> build_pagination_response(asked.rows, asked.limit, asked.offset),
              keys |-> IF uncached \/ asked.large THEN {} ELSE {key}]

\* A caller, the page asked for, and the page found: whether its rows (those
\* that `include' leaves) have dates, and are more than MAX_VALUE_SIZE.
Asked ==
    {a \in [caller : Callers, includeOk : BOOLEAN, rows : RowCounts, limit : Limits,
            offset : Offsets, dated : BOOLEAN, large : BOOLEAN] :
        a.rows <= a.offset => ~a.dated /\ ~a.large}

ByLink(q) == Unless(decompress_query(q), search_deserialize)
ByBody == search_validated(body)

\* search, of the link or of the JSON of the body itself.
Get ==
    /\ link # Null
    /\ \E sq \in {ByBody} \cup {ByLink(q) : q \in {link} \ Raises}, asked \in Asked :
        LET page == Page(sq, asked)
        IN  reply' = page.reply /\ cache' = cache \cup page.keys
    /\ UNCHANGED <<body, link>>

Next == Post \/ Get

Spec == Init /\ [][Next]_vars

-----------------------------------------------------------------------------

Linked == link # Null /\ link \notin Raises

\* Two searches that ask the same: weights of categories outside the scope
\* and empty sections do not count.
SameSearch(a, b) ==
    /\ {a, b} \cap Raises = {}
    /\ a.scope = b.scope
    /\ (a.search_terms = Null) = (b.search_terms = Null)
    /\ a.search_terms # Null =>
         /\ a.search_terms.terms = b.search_terms.terms
         /\ a.search_terms.case = b.search_terms.case
         /\ a.search_terms.mults = b.search_terms.mults
         /\ \A i \in Applicable(a.scope) : a.search_terms.weights[i] = b.search_terms.weights[i]
    /\ a.sorting = b.sorting \/ {a.sorting, b.sorting} \subseteq {Null, <<>>}
    /\ \A x \in {a.filters, b.filters} : x = Null \/ \A c \in DOMAIN x : DOMAIN x[c] = {}

\* LinkKeepsSearch: the link that POST answers stands for the search that was
\* posted: its terms in order, case, multipliers and weights (defaults left
\* out of the bytes, nulls kept), and sorting; and GET answers the link as it
\* answers the search itself, to every caller and for every page.  (Neither
\* is a promise of a page: GET answers 400 to both when there is sorting.)
LinkKeepsSearch ==
    Linked => \A linked \in {ByLink(link)}, posted \in {ByBody} :
                /\ SameSearch(linked, posted)
                /\ \A asked \in Asked : Page(linked, asked) = Page(posted, asked)

\* The conditions of the body that are valid.
ValidConditions ==
    IF body.filters = Null THEN {}
    ELSE UNION {{model_validate(body.filters[c][f]) : f \in DOMAIN body.filters[c]} :
                   c \in {c \in DOMAIN body.filters : body.filters[c] # Null}} \ Raises

\* The values of an operator, and the datetimes of conditions.
ValuesOf(c, op) == IF op \in Lists THEN ToSet(c[op]) ELSE {c[op]}
GivenIn(c) == {op \in DOMAIN c : c[op] # Null}
Datetimes(c) == {x \in UNION {ValuesOf(c, op) : op \in GivenIn(c)} : x.t = "datetime"}

\* What has no binary form: a datetime before the epoch, a float of no width.
Unwritable(x) ==
    \/ x.t = "datetime" /\ x.us <= -1000
    \/ x.t = "float" /\ FloatWidth(x.q) = 0

\* What may become of a value: a datetime is naive and at most a millisecond
\* off, an integer below -2^ZigzagShift is another one.
ReadAs(x, y) ==
    CASE x.t = "datetime" -> y.t = "datetime" /\ ~y.aware /\ x.us - y.us \in -999..1000
      [] x.t = "int" /\ x.n < -(2^ZigzagShift) -> y.t = "int"
      [] OTHER -> y = x


\* Whether a value meets the conditions, and those that ask for more than a
\* range or for more than a set of values.
Meets(x, c) ==
    /\ Given(c, "eq") => Same(x, c["eq"])
    /\ Given(c, "neq") => ~Same(x, c["neq"])
    /\ Given(c, "lt") => Below(x, c["lt"])
    /\ Given(c, "lte") => AtMost(x, c["lte"])
    /\ Given(c, "gt") => Below(c["gt"], x)
    /\ Given(c, "gte") => AtMost(c["gte"], x)
    /\ Given(c, "in") => Among(x, c["in"])
    /\ Given(c, "not_in") => ~Among(x, c["not_in"])

\* BoundsExact: a pair of numeric bounds is accepted exactly when some number
\* lies between them, and a value asked for along with exclusions or a list
\* exactly when it is in the list and not excluded (a list that is not empty).
BoundsExact ==
    LET raws == IF body.filters = Null THEN {}
                ELSE UNION {{body.filters[c][f] : f \in DOMAIN body.filters[c]} :
                               c \in {c \in DOMAIN body.filters : body.filters[c] # Null}}
        Simple(c, ops) == DOMAIN c \subseteq ops /\ \A op \in DOMAIN c : c[op] # Null
        Quarters(c) == {Magnitude(c[op]) : op \in DOMAIN c}
    IN  \A raw \in {raw \in raws : raw.form = "dict"} :
          LET c == parse_datetime(raw.conditions)
          IN  /\ /\ Simple(c, {"lt", "lte", "gt", "gte"}) /\ Cardinality(DOMAIN c) = 2
                 /\ \A op \in DOMAIN c : c[op].t \in Numeric
                 /\ DOMAIN c \notin {{"lt", "lte"}, {"gt", "gte"}}
                 => (model_validate(raw) \in Raises)
                      = ~ \E n \in (Min(Quarters(c)) - 1)..(Max(Quarters(c)) + 1) :
                            Meets(FloatValue(n), c)
              /\ /\ Simple(c, {"eq", "neq", "in", "not_in"}) /\ "eq" \in DOMAIN c
                 /\ ensure_comparable_types(values_for_validation(c))
                 /\ validate_sequence_types(c)
                 /\ "in" \in DOMAIN c => c["in"] # <<>>
                 => (model_validate(raw) \in Raises) = ~Meets(c["eq"], c)
=============================================================================

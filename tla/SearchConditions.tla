-------------------------- MODULE SearchConditions --------------------------
(***************************************************************************)
(* The conditions of a filter (app/search/datastructures/conditions.py):   *)
(* their validation and their compact binary form.                         *)
(*                                                                         *)
(* A value is a record with its Python type t:                             *)
(*   [t |-> "int", n]        an integer                                    *)
(*   [t |-> "float", q]      q quarters; FloatWidth(q) is the narrowest    *)
(*                           width, in bytes, that has it exactly          *)
(*   [t |-> "str", s]        the bytes of its UTF-8 form                   *)
(*   [t |-> "bool", b]                                                     *)
(*   [t |-> "datetime", us, aware]   microseconds since the epoch, and     *)
(*                           whether it has a time zone                    *)
(* Conditions are a function from the operators that were set to their     *)
(* values (Null for an explicit None, a sequence of values for in and      *)
(* not_in).  Bytes are sequences of 0..255.                                *)
(***************************************************************************)
EXTENDS Integers, Sequences, FiniteSets, FiniteSetsExt, SequencesExt, Bitwise

CONSTANTS
    Null,                           \* None
    ValueError, TypeError,          \* what the code may raise
    StructError, AttributeError, KeyError,
    ZigzagShift,                    \* 63 in the code
    MaxCount,                       \* what a one-byte count can say: 255 in the code
    FloatWidth(_),
    FloatLow(_),                    \* timestamp() * 1000 falls just below the integer
    IsoFormat(_),                   \* the datetime a string stands for, or Null
    RegexFaults(_)                  \* the checks of validate_regex that a pattern fails

Raises == {ValueError, TypeError, StructError, AttributeError, KeyError}

-----------------------------------------------------------------------------
(* struct.pack, and chunks joined unless one raised. *)

Byte(n) == IF n \in 0..255 THEN <<n>> ELSE StructError
Count(n) == IF n <= MaxCount THEN <<n>> ELSE StructError
SignedByte(n) == IF n \in -128..127 THEN <<n % 256>> ELSE StructError
Word(n) == <<n \div 256, n % 256>>
AsSigned(b) == IF b > 127 THEN b - 256 ELSE b
ReadWord(data, at) == data[at] * 256 + data[at + 1]

Joined(chunks) ==
    LET bad == {i \in DOMAIN chunks : chunks[i] \in Raises}
    IN  IF bad # {} THEN chunks[Min(bad)] ELSE FlattenSeq(chunks)

\* A bit mask over numbered flags, and its test.
Mask(flags) == MapThenSumSet(LAMBDA i : 2^(i - 1), flags)
Flag(mask, i) == (mask \div 2^(i - 1)) % 2 = 1

\* A decoded value and the offset after it.
Decoded(v, at) == [v |-> v, at |-> at]

-----------------------------------------------------------------------------
(* Integers of any size. *)

RECURSIVE Base128(_)
Base128(n) == IF n > 127 THEN <<(n % 128) + 128>> \o Base128(n \div 128) ELSE <<n>>

\* bytearray.append refuses a negative number.
encode_varint(n) == IF n < 0 THEN ValueError ELSE Base128(n)

decode_varint(data, at) ==
    LET last == Min({i \in at..Len(data) : data[i] < 128})
    IN  Decoded(MapThenSumSet(LAMBDA i : (data[i] % 128) * 128^(i - at), at..last), last + 1)

\* ^ on Python integers, two's complement of a width beyond the numbers used.
Width == 2^30
Signed(u) == IF u >= Width \div 2 THEN u - Width ELSE u
XorInt(a, b) == Signed((a % Width) ^^ (b % Width))

encode_zigzag(n) == XorInt(2 * n, n \div 2^ZigzagShift)

decode_zigzag(n) == XorInt(n \div 2, -(n % 2))

-----------------------------------------------------------------------------
(* One value, with its type in front. *)

ConditionValueId ==
    [SIGNED_CHAR |-> 1, SIGNED_VARINT |-> 2, UNSIGNED_CHAR |-> 3, UNSIGNED_VARINT |-> 4,
     HALF_FLOAT |-> 5, FLOAT |-> 6, DOUBLE |-> 7, STR |-> 8, BOOL |-> 9, DATETIME |-> 10]
Id(name) == <<ConditionValueId[name]>>

IntValue(n) == [t |-> "int", n |-> n]
FloatValue(q) == [t |-> "float", q |-> q]
StrValue(bytes) == [t |-> "str", s |-> bytes]
BoolValue(b) == [t |-> "bool", b |-> b]
DatetimeValue(us, aware) == [t |-> "datetime", us |-> us, aware |-> aware]

\* int(value.timestamp() * 1000): whole milliseconds, towards zero, one less
\* when the product of the floats is just below a whole number.
Milliseconds(x) ==
    IF x.us >= 0 THEN x.us \div 1000 - (IF FloatLow(x.us) THEN 1 ELSE 0)
                 ELSE -((-x.us) \div 1000)

IntBytes(n) ==
    CASE n \in 0..255    -> Id("UNSIGNED_CHAR") \o Byte(n)
      [] n \in -128..-1  -> Id("SIGNED_CHAR") \o SignedByte(n)
      [] n > 255         -> Id("UNSIGNED_VARINT") \o encode_varint(n)
      [] n < -128        -> Id("SIGNED_VARINT") \o encode_varint(encode_zigzag(n))

\* The bytes of a float in a width that has it exactly (its number, here).
FloatBytes(q, width) == [i \in 1..width |-> IF i = 1 THEN q ELSE 0]

serialize_condition_value(x) ==
    CASE x.t = "int"   -> IntBytes(x.n)
      [] x.t = "float" ->
            CASE FloatWidth(x.q) = 2 -> Id("HALF_FLOAT") \o FloatBytes(x.q, 2)
              [] FloatWidth(x.q) = 4 -> Id("FLOAT") \o FloatBytes(x.q, 4)
              [] FloatWidth(x.q) = 8 -> Id("DOUBLE") \o FloatBytes(x.q, 8)
              [] OTHER               -> ValueError
      [] x.t = "str"   -> Id("STR") \o encode_varint(Len(x.s)) \o x.s
      [] x.t = "bool"  -> Id("BOOL") \o <<IF x.b THEN 1 ELSE 0>>
      [] x.t = "datetime" -> Joined(<<Id("DATETIME"), encode_varint(Milliseconds(x))>>)

deserialize_condition_value(data, offset) ==
    LET is(name) == data[offset] = ConditionValueId[name]
        at == offset + 1
        varint == decode_varint(data, at)
        Float(width) == Decoded(FloatValue(data[at]), at + width)
    IN  CASE is("SIGNED_CHAR")     -> Decoded(IntValue(AsSigned(data[at])), at + 1)
          [] is("SIGNED_VARINT")   -> Decoded(IntValue(decode_zigzag(varint.v)), varint.at)
          [] is("UNSIGNED_CHAR")   -> Decoded(IntValue(data[at]), at + 1)
          [] is("UNSIGNED_VARINT") -> Decoded(IntValue(varint.v), varint.at)
          [] is("HALF_FLOAT")      -> Float(2)
          [] is("FLOAT")           -> Float(4)
          [] is("DOUBLE")          -> Float(8)
          [] is("STR")  -> Decoded(StrValue(SubSeq(data, varint.at, varint.at + varint.v - 1)),
                                   varint.at + varint.v)
          [] is("BOOL") -> Decoded(BoolValue(data[at] = 1), at + 1)
          [] is("DATETIME") -> Decoded(DatetimeValue(varint.v * 1000, FALSE), varint.at)

-----------------------------------------------------------------------------
(* Validation. *)

Operators ==
    <<"eq", "neq", "lt", "lte", "gt", "gte", "in", "not_in", "is_null", "regex", "not_regex">>
Lists == {"in", "not_in"}
Patterns == {"regex", "not_regex"}

\* The value of an operator, None when it was not set.
ValueOf(c, op) == IF op \in DOMAIN c THEN c[op] ELSE Null
Given(c, op) == ValueOf(c, op) # Null

\* A shorthand is the value itself; None asks for NULL.
normalize_shorthand(raw) ==
    CASE raw.form = "dict"  -> raw.conditions
      [] raw.form = "value" -> "eq" :> raw.value
      [] raw.form = "none"  -> "is_null" :> BoolValue(TRUE)
      [] raw.form = "list"  -> TypeError

validate_condition_keys(c) == DOMAIN c \subseteq ToSet(Operators)

ParsedValue(x) == IF x.t = "str" /\ IsoFormat(x.s) # Null THEN IsoFormat(x.s) ELSE x

parse_datetime(c) ==
    [op \in DOMAIN c |->
        CASE c[op] = Null \/ op \in Patterns \cup {"is_null"} -> c[op]
          [] op \in Lists -> [i \in DOMAIN c[op] |-> ParsedValue(c[op][i])]
          [] OTHER        -> ParsedValue(c[op])]

validate_sequence_types(c) ==
    \A op \in Lists : Given(c, op) => \A i \in DOMAIN c[op] : c[op][i].t = c[op][1].t

validate_regex(c) == \A op \in Patterns : Given(c, op) => RegexFaults(c[op].s) = {}

\* The scalar values, in the order the code lists them.
values_for_validation(c) ==
    LET scalar == SelectSeq(<<"eq", "neq", "lt", "lte", "gt", "gte">>, LAMBDA op : Given(c, op))
        List(op) == IF Given(c, op) THEN c[op] ELSE <<>>
    IN  [i \in DOMAIN scalar |-> c[scalar[i]]] \o List("in") \o List("not_in")

Numeric == {"int", "float", "bool"}

ensure_comparable_types(values) ==
    \A i \in DOMAIN values :
        \/ values[1].t \in Numeric /\ values[i].t \in Numeric
        \/ values[1].t = values[i].t

\* Python's comparison; an aware and a naive datetime differ and have no order.
Magnitude(x) ==
    CASE x.t = "int"   -> 4 * x.n
      [] x.t = "float" -> x.q
      [] x.t = "bool"  -> IF x.b THEN 4 ELSE 0
      [] x.t = "datetime" -> x.us
RECURSIVE BytesBelow(_, _)
BytesBelow(a, b) ==
    /\ b # <<>>
    /\ \/ a = <<>>
       \/ Head(a) < Head(b)
       \/ Head(a) = Head(b) /\ BytesBelow(Tail(a), Tail(b))
Same(a, b) ==
    CASE a.t \in Numeric /\ b.t \in Numeric -> Magnitude(a) = Magnitude(b)
      [] OTHER -> a = b
Ordered(a, b) == a.t # "datetime" \/ a.aware = b.aware
Below(a, b) == IF a.t = "str" THEN BytesBelow(a.s, b.s) ELSE Magnitude(a) < Magnitude(b)
AtMost(a, b) == Below(a, b) \/ Same(a, b)
Among(x, list) == \E i \in DOMAIN list : Same(x, list[i])

EqualityCoherent(c) ==
    Given(c, "eq") =>
        /\ ~(Given(c, "neq") /\ Same(c["neq"], c["eq"]))
        /\ Given(c, "in") /\ c["in"] # <<>> => Among(c["eq"], c["in"])
        /\ Given(c, "not_in") => ~Among(c["eq"], c["not_in"])

\* Mutant: gt 1, lte 1 is let through.
LooseRangeCoherent(c) ==
    /\ ~(Given(c, "gt") /\ Given(c, "gte"))
    /\ ~(Given(c, "lt") /\ Given(c, "lte"))
    /\ \A lo \in {"gt", "gte"}, hi \in {"lt", "lte"} : Given(c, lo) /\ Given(c, hi) =>
          Ordered(c[lo], c[hi]) /\ IF hi = "lt" THEN Below(c[lo], c[hi]) ELSE AtMost(c[lo], c[hi])

RangeCoherent(c) ==
    /\ ~(Given(c, "gt") /\ Given(c, "gte"))
    /\ ~(Given(c, "lt") /\ Given(c, "lte"))
    /\ \A lo \in {"gt", "gte"}, hi \in {"lt", "lte"} : Given(c, lo) /\ Given(c, hi) =>
          /\ Ordered(c[lo], c[hi])
          /\ IF lo = "gte" /\ hi = "lte" THEN AtMost(c[lo], c[hi]) ELSE Below(c[lo], c[hi])

validate_logic(c) ==
    /\ \E op \in DOMAIN c : c[op] # Null
    /\ ensure_comparable_types(values_for_validation(c))
    /\ Given(c, "is_null") /\ c["is_null"].b => Cardinality(DOMAIN c) = 1
    /\ EqualityCoherent(c)
    /\ RangeCoherent(c)

\* Conditions.model_validate: the conditions, or an error.
model_validate(raw) ==
    LET c == normalize_shorthand(raw)
        parsed == parse_datetime(c)
    IN  CASE c \in Raises -> c
          [] ~validate_condition_keys(c) -> ValueError
          [] ~validate_sequence_types(parsed) \/ ~validate_regex(parsed) -> ValueError
          [] ~validate_logic(parsed) -> ValueError
          [] OTHER -> parsed

-----------------------------------------------------------------------------
(* The binary form of conditions: a mask of operators, then their values. *)

ConditionBytes(op, x) ==
    CASE op \in Lists ->
            Joined(<<Count(Len(x))>> \o [i \in DOMAIN x |-> serialize_condition_value(x[i])])
      [] op = "is_null" -> <<IF x.b THEN 1 ELSE 0>>
      [] OTHER -> serialize_condition_value(x)

Positions(c) == SelectSeq([i \in DOMAIN Operators |-> i], LAMBDA i : Given(c, Operators[i]))

conditions_serialize(c) ==
    LET flags == Positions(c)
    IN  Joined(<<Word(Mask(ToSet(flags)))>>
                \o [i \in DOMAIN flags |-> ConditionBytes(Operators[flags[i]], c[Operators[flags[i]]])])

\* What x decodes, put to use; reading goes on behind it.
Using(x, Put(_)) == Decoded(Put(x.v), x.at)

\* n values, one after the other.
DecodedList(data, at, n) ==
    FoldLeft(LAMBDA acc, i : Using(deserialize_condition_value(data, acc.at),
                                   LAMBDA v : Append(acc.v, v)),
             Decoded(<<>>, at), [i \in 1..n |-> i])

DecodedCondition(data, op, at) ==
    CASE op \in Lists     -> DecodedList(data, at + 1, data[at])
      [] op = "is_null"   -> Decoded(BoolValue(data[at] = 1), at + 1)
      [] OTHER            -> deserialize_condition_value(data, at)

conditions_deserialize(data, at) ==
    LET Step(acc, i) ==
            IF ~Flag(ReadWord(data, at), i) THEN acc
            ELSE Using(DecodedCondition(data, Operators[i], acc.at),
                       LAMBDA v : (Operators[i] :> v) @@ acc.v)
    IN  Using(FoldLeft(Step, Decoded(<<>>, at + 2), [i \in DOMAIN Operators |-> i]),
              LAMBDA v : model_validate([form |-> "dict", conditions |-> v]))
=============================================================================

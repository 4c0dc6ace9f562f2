------------------------------ MODULE GsiJson ------------------------------
(***************************************************************************)
(* The JSON parser of the normalizer (src/src/game_state.cpp): a           *)
(* recursive descent over a text, at a position.                           *)
(*                                                                         *)
(* A text is a sequence of symbols.  A symbol is a character, the ones     *)
(* with a meaning in JSON by their names, or one of these, which stand for *)
(* several: a literal, four hexadecimal digits, and a string literal       *)
(* without escapes ('a').  A text ends in "end".                           *)
(*                                                                         *)
(* A value is a tuple of its type and its content; a floating-point number *)
(* has none, for the normalizer reads none.  Where the code throws, an     *)
(* operator returns Fail.  A loop that collects what it parses is a        *)
(* function of the position: what is parsed there, before what is parsed   *)
(* from the next position on.                                              *)
(***************************************************************************)
EXTENDS GameState, Sequences, FiniteSetsExt

CONSTANTS
  LongBits,      \* the width of std::int64_t
  MaxExponent    \* the largest exponent for which a double is finite

\* What is absent has no type.
ASSUME JsonAssumption ==
  LongBits \in Nat \ {0} /\ MaxExponent \in Nat /\ None \notin {"object", "string", "int"}

Ok(value, next) == [ok |-> TRUE, value |-> value, next |-> next]
Fail == [ok |-> FALSE]

At(t, p) == IF p <= Len(t) THEN t[p] ELSE "end"

\* The first position from p on whose symbol is not in the set.
PastAll(t, p, symbols) == Min({q \in p .. Len(t) + 1 : At(t, q) \notin symbols})

SkipWs(t, p) == PastAll(t, p, {"space"})

-----------------------------------------------------------------------------
(* Numbers.                                                                *)

Digits == {"0", "1"}
DigitValue(d) == IF d = "0" THEN 0 ELSE 1

\* Each part takes the position it begins at to the one after it, or to 0 if
\* it is malformed.
SomeDigits(t, p) == IF At(t, p) \in Digits THEN PastAll(t, p, Digits) ELSE 0

IntegerPart(t, p) == IF At(t, p) = "0" THEN p + 1 ELSE SomeDigits(t, p)

FractionPart(t, p) == IF At(t, p) = "." THEN SomeDigits(t, p + 1) ELSE p

ExponentDigits(t, p) == IF At(t, p + 1) \in {"+", "-"} THEN p + 2 ELSE p + 1

ExponentPart(t, p) == IF At(t, p) = "e" THEN SomeDigits(t, ExponentDigits(t, p)) ELSE p

\* The value of the digits from p to before q, as std::from_chars and
\* std::strtod read them.
ValueOf(t, p, q) ==
  LET upTo[n \in p .. Len(t) + 1] ==
        IF n = p THEN 0 ELSE 10 * upTo[n - 1] + DigitValue(t[n - 1])
  IN  upTo[q]

FitsLong(n) == -(2 ^ (LongBits - 1)) <= n /\ n < 2 ^ (LongBits - 1)

\* strtod overflows on a large exponent, unless the number is zero.
IsFinite(t, p, e, end) ==
  \/ \A i \in p .. e - 1 : t[i] # "1"
  \/ e = end \/ t[e + 1] = "-"
  \/ ValueOf(t, ExponentDigits(t, e), end) <= MaxExponent

\* An integer that does not fit 64 bits is a floating-point number.
ParseNumber(t, p) ==
  LET begin == IF At(t, p) = "-" THEN p + 1 ELSE p
      point == IntegerPart(t, begin)
      e == FractionPart(t, point)
      end == ExponentPart(t, e)
      magnitude == ValueOf(t, begin, point)
      integer == IF begin > p THEN -magnitude ELSE magnitude
  IN  IF point = 0 \/ e = 0 \/ end = 0 THEN Fail
      ELSE IF end = point /\ FitsLong(integer) THEN Ok(<<"int", integer>>, end)
      ELSE IF IsFinite(t, p, e, end) THEN Ok(<<"double">>, end)
      ELSE Fail

-----------------------------------------------------------------------------
(* Strings.                                                                *)

\* What an escape of one character stands for; the other six are alike.
Escapes == {"quote", "backslash"}
Unescaped == [c \in Escapes |-> IF c = "quote" THEN "U+0022" ELSE "U+005C"]

\* parse_hex4 and append_utf8: groups of digits and the code points they encode.
HexGroups == {"0041", "D83D", "DE00"}
High == {"D83D"}
Low == {"DE00"}
CodePoint(groups) == IF groups = <<"0041">> THEN "U+0041" ELSE "U+1F600"

\* Mutant: a high surrogate may stand alone.
EscapedUnicodeAlone(t, p) ==
  LET group == At(t, p)
  IN  CASE group \in High ->
             IF At(t, p + 1) = "backslash" /\ At(t, p + 2) = "u" /\ At(t, p + 3) \in Low
             THEN Ok(CodePoint(<<group, t[p + 3]>>), p + 4) ELSE Ok("U+D83D", p + 1)
        [] group \in HexGroups \ (High \cup Low) -> Ok(CodePoint(<<group>>), p + 1)
        [] OTHER -> Fail

\* After "\u": a high surrogate with the escaped low one that must follow it, or
\* a group that is no surrogate.
EscapedUnicode(t, p) ==
  LET group == At(t, p)
  IN  CASE group \in High ->
             IF At(t, p + 1) = "backslash" /\ At(t, p + 2) = "u" /\ At(t, p + 3) \in Low
             THEN Ok(CodePoint(<<group, t[p + 3]>>), p + 4) ELSE Fail
        [] group \in HexGroups \ (High \cup Low) -> Ok(CodePoint(<<group>>), p + 1)
        [] OTHER -> Fail

\* One round of the loop of parse_string.
Character(t, p) ==
  CASE At(t, p) \in {"end", "control"} -> Fail
    [] At(t, p) = "backslash" /\ At(t, p + 1) \in Escapes -> Ok(Unescaped[t[p + 1]], p + 2)
    [] At(t, p) = "backslash" /\ At(t, p + 1) = "u" -> EscapedUnicode(t, p + 2)
    [] At(t, p) = "backslash" /\ At(t, p + 1) \notin Escapes \cup {"u"} -> Fail
    [] OTHER -> Ok(t[p], p + 1)

\* The loop: the content of a string from each position to its closing quote.
Characters(t) ==
  LET from[p \in 1 .. Len(t) + 1] ==
        LET one == Character(t, p)
            rest == from[one.next]
        IN  IF At(t, p) = "quote" THEN Ok(<<>>, p + 1)
            ELSE IF one.ok /\ rest.ok THEN Ok(<<one.value>> \o rest.value, rest.next)
            ELSE Fail
  IN  from

\* String literals that are one symbol, and their contents.
Quoted == {"'a'", "'b'"}
Content == [q \in Quoted |-> IF q = "'a'" THEN <<"a">> ELSE <<"b">>]

ParseString(t, p) ==
  CASE At(t, p) \in Quoted -> Ok(Content[t[p]], p + 1)
    [] At(t, p) = "quote" -> Characters(t)[p + 1]
    [] OTHER -> Fail

-----------------------------------------------------------------------------
(* Values.                                                                 *)

Literals == {"true", "false", "null"}
LiteralValue == [l \in Literals |-> IF l = "null" THEN <<"null">> ELSE <<"bool", l = "true">>]

\* Mutant: the first value of a key stays.
InsertFirst(key, value, rest) ==
  [k \in DOMAIN rest \cup {key} |-> IF k = key THEN value ELSE rest[k]]

\* insert_or_assign: a later member of the same key stays.
Insert(key, value, rest) ==
  [k \in DOMAIN rest \cup {key} |-> IF k \in DOMAIN rest THEN rest[k] ELSE value]

\* After a part: the end of what it is part of, or a comma and the loop again.
Rest(t, p, close, loop, parse) ==
  CASE At(t, p) = close -> Ok(<<>>, p + 1)
    [] At(t, p) = "comma" -> parse[<<loop, p + 1>>]
    [] OTHER -> Fail

\* The loop of parse_object.
MembersAt(t, p, parse) ==
  LET key == ParseString(t, SkipWs(t, p))
      colon == SkipWs(t, key.next)
      value == parse[<<"value", colon + 1>>]
      rest == Rest(t, SkipWs(t, value.next), "end_object", "members", parse)
  IN  IF key.ok /\ At(t, colon) = "colon" /\ value.ok /\ rest.ok
      THEN Ok(Insert(key.value, value.value, rest.value), rest.next) ELSE Fail

\* The loop of parse_array.
ElementsAt(t, p, parse) ==
  LET value == parse[<<"value", p>>]
      rest == Rest(t, SkipWs(t, value.next), "end_array", "elements", parse)
  IN  IF value.ok /\ rest.ok THEN Ok(<<value.value>> \o rest.value, rest.next) ELSE Fail

Typed(type, r) == IF r.ok THEN Ok(<<type, r.value>>, r.next) ELSE Fail

\* Objects and arrays, after what opens them.
Container(t, p, type, close, loop, parse) ==
  IF At(t, p) = close THEN Ok(<<type, <<>>>>, p + 1) ELSE Typed(type, parse[<<loop, p>>])

ValueAt(t, p, parse) ==
  LET q == SkipWs(t, p)
      symbol == At(t, q)
      inside == SkipWs(t, q + 1)
  IN  CASE symbol = "begin_object" -> Container(t, inside, "object", "end_object", "members", parse)
        [] symbol = "begin_array" -> Container(t, inside, "array", "end_array", "elements", parse)
        [] symbol \in {"quote"} \cup Quoted -> Typed("string", ParseString(t, q))
        [] symbol \in Literals -> Ok(LiteralValue[symbol], q + 1)
        [] symbol \in {"-"} \cup Digits -> ParseNumber(t, q)
        [] OTHER -> Fail

\* parse_value and the two loops, each at any position of a text.
Loops == {"members", "elements"}
Calls(t) == ({"value"} \cup Loops) \X (1 .. Len(t) + 1)

Parse(t, call, parse) ==
  CASE call[1] = "value"    -> ValueAt(t, call[2], parse)
    [] call[1] = "members"  -> MembersAt(t, call[2], parse)
    [] call[1] = "elements" -> ElementsAt(t, call[2], parse)

\* They call one another at later positions, except that an array begins with a
\* value.
Parser(t) == LET parse[call \in Calls(t)] == Parse(t, call, parse) IN parse

\* parse() and parse_json(); <<None>> when anything throws or data is left.
ParseJson(t) ==
  LET r == Parser(t)[<<"value", 1>>]
  IN  IF r.ok THEN IF SkipWs(t, r.next) = Len(t) + 1 THEN r.value ELSE <<None>> ELSE <<None>>

\* payload_valid.
PayloadValid(root) == root[1] = "object"

-----------------------------------------------------------------------------
(* What the normalizer reads.                                              *)

\* get() and find_path(); <<None>> for no such path.
Get(value, key) ==
  IF value[1] = "object" THEN IF key \in DOMAIN value[2] THEN value[2][key] ELSE <<None>>
  ELSE <<None>>

FindPath(root, path) ==
  LET found[n \in 0 .. Len(path)] == IF n = 0 THEN root ELSE Get(found[n - 1], path[n])
  IN  found[Len(path)]

ReadStringAt(root, path) ==
  LET value == FindPath(root, path) IN IF value[1] = "string" THEN value[2] ELSE None

\* Mutant: a floating-point number is rounded to an integer.
ReadIntRounded(root, path) ==
  LET value == FindPath(root, path)
  IN  CASE value[1] = "int" -> ReadInt(value[2]) [] value[1] = "double" -> 0 [] OTHER -> None

ReadIntAt(root, path) ==
  LET value == FindPath(root, path) IN IF value[1] = "int" THEN ReadInt(value[2]) ELSE None

=============================================================================

---------------------------- MODULE JsonGrammar ----------------------------
(***************************************************************************)
(* JSON as RFC 8259 defines it, over the symbols of GsiJson: not a parser  *)
(* but the texts a grammar generates, each with the value it denotes.      *)
(* Where the RFC leaves a choice it is the normalizer's: surrogates come   *)
(* in pairs, numbers are finite, and the last member of a key counts.      *)
(***************************************************************************)
EXTENDS GsiJson

\* Bounds on the lengths of the three kinds of text.
CONSTANTS MaxNumber, MaxString, MaxStructure

ASSUME GrammarAssumption ==
  MaxNumber \in Nat \ {0} /\ MaxString \in Nat \ {0, 1} /\ MaxStructure \in Nat \ {0, 1}

Means(symbols, denoted) == [text |-> symbols, value |-> denoted]

Together(x, y, most) == Len(x.text) + Len(y.text) <= most

\* The texts of two parts that are not too long, and what they denote.
Joined(left, right, most, Denote(_, _)) ==
  UNION {{Means(x.text \o y.text, Denote(x.value, y.value)) :
            y \in {z \in right : Together(x, z, most)}} : x \in left}

-----------------------------------------------------------------------------
(* Numbers: a sign, an integer, a fraction and an exponent.                *)

Digit == {Means(<<d>>, DigitValue(d)) : d \in Digits}

\* Digits, and the number they are in base ten.
Shifted(high, low) == 10 * high + low

DigitsOf[n \in 1 .. MaxNumber] ==
  IF n = 1 THEN Digit
  ELSE DigitsOf[n - 1] \cup Joined(DigitsOf[n - 1], Digit, n, Shifted)

SomeNumber == DigitsOf[MaxNumber]

Whole == {x \in SomeNumber : Len(x.text) = 1 \/ x.text[1] # "0"}

\* Signed or not.
Integral == Whole \cup {Means(<<"-">> \o x.text, -x.value) : x \in {y \in Whole : Len(y.text) < MaxNumber}}

Nonzero(integer, fraction) == integer # 0 \/ fraction # 0

Fractions == {Means(<<".">> \o x.text, x.value) : x \in SomeNumber}

\* Of a number with a fraction, all that is left to know is whether it is zero.
Fractional == Joined(Integral, Fractions, MaxNumber, Nonzero)

Signs == {<<>>, <<"+">>, <<"-">>}

Moderate(sign, exponent) == sign = <<"-">> \/ exponent <= MaxExponent

Exponents == {Means(<<"e">> \o sign \o x.text, Moderate(sign, x.value)) : sign \in Signs, x \in SomeNumber}

Mantissas == Fractional \cup {Means(x.text, Nonzero(x.value, 0)) : x \in Integral}

\* The value of a number with an exponent says whether it is finite.
Finite(nonzero, moderate) == nonzero => moderate

Scientific == Joined(Mantissas, Exponents, MaxNumber, Finite)

Numbers ==
       {Means(x.text, IF FitsLong(x.value) THEN <<"int", x.value>> ELSE <<"double">>) :
          x \in Integral}
  \cup {Means(x.text, <<"double">>) : x \in Fractional \cup {y \in Scientific : y.value}}

-----------------------------------------------------------------------------
(* Strings: characters and escapes between quotes.                         *)

Plain == HexGroups \cup {"u"}

Units ==
       {Means(<<symbol>>, <<symbol>>) : symbol \in Plain}
  \cup {Means(<<"backslash", symbol>>, <<Unescaped[symbol]>>) : symbol \in Escapes}
  \cup {Means(<<"backslash", "u", "0041">>, <<"U+0041">>),
        Means(<<"backslash", "u", "D83D", "backslash", "u", "DE00">>, <<"U+1F600">>)}

Followed(unit, s) == unit \o s

\* Contents of up to n units.
ContentsOf[n \in 0 .. MaxString - 2] ==
  IF n = 0 THEN {Means(<<>>, <<>>)}
  ELSE ContentsOf[n - 1]
       \cup Joined(Units, ContentsOf[n - 1], MaxString - 2, Followed)

Strings == {Means(<<"quote">> \o x.text \o <<"quote">>, <<"string", x.value>>) :
              x \in ContentsOf[MaxString - 2]}

-----------------------------------------------------------------------------
(* Objects and arrays, by the depth of their nesting.                      *)

Scalars == {Means(<<"'a'">>, <<"string", <<"a">>>>), Means(<<"'b'">>, <<"string", <<"b">>>>),
            Means(<<"null">>, <<"null">>)}

Keys == {Means(<<"'a'", "colon">>, <<"a">>), Means(<<"'b'", "colon">>, <<"b">>)}

\* An object has the last member of each key.
ObjectOf(members) ==
  [key \in {members[i][1] : i \in DOMAIN members} |->
     members[Max({i \in DOMAIN members : members[i][1] = key})][2]]

AfterComma(lists) == {Means(<<"comma">> \o x.text, x.value) : x \in lists}

Before(item, list) == <<item>> \o list

\* Lists of up to n items with commas between them.
ListsOf(items) ==
  LET alone == {Means(x.text, <<x.value>>) : x \in items}
      upTo[n \in 1 .. MaxStructure \div 2] ==
        IF n = 1 THEN alone
        ELSE alone \cup Joined(items, AfterComma(upTo[n - 1]), MaxStructure - 2, Before)
  IN  upTo

Lists(items) == ListsOf(items)[MaxStructure \div 2] \cup {Means(<<>>, <<>>)}

Enclosed(open, lists, close, type, Denote(_)) ==
  {Means(<<open>> \o x.text \o <<close>>, <<type, Denote(x.value)>>) :
     x \in {y \in lists : Len(y.text) <= MaxStructure - 2}}

ArrayOf(list) == list

Pair(key, v) == <<key, v>>

Members(values) == Joined(Keys, values, MaxStructure - 2, Pair)

\* Values whose parts are values of less depth.
Deeper(values) ==
  values
  \cup Enclosed("begin_array", Lists(values), "end_array", "array", ArrayOf)
  \cup Enclosed("begin_object", Lists(Members(values)), "end_object", "object", ObjectOf)

StructuresOf[depth \in 0 .. MaxStructure \div 2] ==
  IF depth = 0 THEN Scalars ELSE Deeper(StructuresOf[depth - 1])

Structures == StructuresOf[MaxStructure \div 2]

=============================================================================

----------------------------- MODULE JsonTexts -----------------------------
(***************************************************************************)
(* Every JSON text up to a length, and every text that differs from one in *)
(* one symbol, before the parser.  A text is over one alphabet at a time.  *)
(***************************************************************************)
EXTENDS JsonGrammar, SequencesExt

VARIABLES
  kind,    \* the alphabet
  text,
  edited   \* whether a symbol was changed

vars == <<kind, text, edited>>

Language == [number |-> Numbers, string |-> Strings, structure |-> Structures]

TextsOf(language) == {x.text : x \in language}

Texts == [number |-> TextsOf(Numbers), string |-> TextsOf(Strings),
          structure |-> TextsOf(Structures)]

Alphabet ==
  [number    |-> Digits \cup {"-", "+", ".", "e"},
   string    |-> {"quote", "backslash", "u", "control"} \cup HexGroups,
   structure |-> {"begin_object", "end_object", "begin_array", "end_array", "colon", "comma",
                 "null", "'a'", "'b'", "space"}]

Init ==
  /\ kind \in DOMAIN Language
  /\ text \in Texts[kind]
  /\ edited = FALSE

Edit(to) == ~edited /\ edited' = TRUE /\ text' = to /\ UNCHANGED kind

Next ==
  \/ \E i \in DOMAIN text : Edit(RemoveAt(text, i))
  \/ \E i \in DOMAIN text, s \in Alphabet[kind] : Edit(ReplaceAt(text, i, s))
  \/ \E i \in 1 .. Len(text) + 1, s \in Alphabet[kind] : Edit(InsertAt(text, i, s))

Spec == Init /\ [][Next]_vars

-----------------------------------------------------------------------------
(* Properties.                                                             *)

MaxOf == [number |-> MaxNumber, string |-> MaxString, structure |-> MaxStructure]

\* A text from each position on, without its white space.
BareFrom(t) ==
  LET from[p \in 1 .. Len(t) + 1] ==
        IF p > Len(t) THEN <<>>
        ELSE IF t[p] = "space" THEN from[p + 1] ELSE <<t[p]>> \o from[p + 1]
  IN  from

\* The parser (game_state.cpp:49-315) accepts the texts of the grammar and no
\* other, and its value is the one they denote: nothing is dropped by a missing
\* comma, a lone surrogate is not a character, the last member of a key wins,
\* and white space between symbols says nothing.
GrammarIsFollowed ==
  LET bare == BareFrom(text)[1]
      value == ParseJson(text)
  IN  Len(bare) <= MaxOf[kind] =>
        IF bare \in Texts[kind] THEN Means(bare, value) \in Language[kind]
        ELSE value = <<None>>

\* A text as the value of a member of an object, and its path.
Member == <<"begin_object", "'a'", "colon">> \o text \o <<"end_object">>
MemberPath == <<(<<"a">>)>>

\* read_int (game_state.cpp:337-345) gives a number that fits an int as it is,
\* gives one that only fits 64 bits a value in the range of int and congruent to
\* it, and reads nothing for a number with a fraction or an exponent or beyond 64
\* bits, although JSON has no such kinds of numbers, nor for what is no number.
IntegersAreRead ==
  kind = "number" /\ Len(text) <= MaxNumber =>
    LET read == ReadIntAt(ParseJson(Member), MemberPath)
        sent == {x.value : x \in {y \in Integral : y.text = text}}
        least == -(2 ^ (IntBits - 1))
    IN  IF sent = {} \/ \E n \in sent : ~FitsLong(n) THEN read = None
        ELSE \A n \in sent :
               /\ read \in least .. -least - 1
               /\ (read - n) % 2 ^ IntBits = 0

=============================================================================

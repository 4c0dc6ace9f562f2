--------------------------- MODULE GsiJson_proofs ---------------------------
(***************************************************************************)
(* Proofs about the JSON parser of GsiJson: that it is well defined, for   *)
(* its functions call one another at later positions only, and that what   *)
(* it parses ends after the position it began at.                          *)
(***************************************************************************)
EXTENDS GsiJson, SequenceTheorems, WellFoundedInduction, TLAPS

\* A set of natural numbers has a least element.
LEMMA Least ==
  ASSUME NEW S \in SUBSET Nat, S # {}
  PROVE  \E n \in S : \A k \in S : n <= k
  <1> DEFINE R == OpToRel(<, Nat)
  <1>1. IsWellFoundedOn(R, Nat)
    BY NatLessThanWellFounded
  <1>2. PICK n \in S : \A k \in S : ~(<<k, n>> \in R)
    <2> HIDE DEF R
    <2>1. QED
      BY <1>1, WFMin
  <1>3. ASSUME NEW k \in S PROVE n <= k
    <2>1. k < n => <<k, n>> \in R
      BY DEF OpToRel
    <2> HIDE DEF R
    <2>2. QED
      BY <1>2, <2>1
  <1> HIDE DEF R
  <1>4. QED
    BY <1>3

\* What holds of a number if it holds of the smaller ones holds of all.
LEMMA Upwards ==
  ASSUME NEW a \in Nat, NEW b \in Nat, NEW S,
         a \in S, \A n \in a .. b - 1 : n \in S => n + 1 \in S
  PROVE  \A n \in a .. b : n \in S
  <1> DEFINE T == {n \in a .. b : n \notin S}
  <1>1. SUFFICES ASSUME T # {} PROVE FALSE
    OBVIOUS
  <1>2. PICK n \in T : \A k \in T : n <= k
    <2>1. T \in SUBSET Nat
      OBVIOUS
    <2> HIDE DEF T
    <2>2. QED
      BY <1>1, <2>1, Least
  <1>3. n # a /\ n - 1 \in a .. b - 1 /\ n - 1 \in a .. b /\ n = (n - 1) + 1
    BY <1>2
  <1>4. n - 1 \in S
    BY <1>2, <1>3
  <1>5. QED
    BY <1>2, <1>3, <1>4

\* What holds of a number if it holds of the greater ones holds of all.
LEMMA Downwards ==
  ASSUME NEW a \in Nat, NEW b \in Nat, NEW S,
         \A n \in a .. b : (\A m \in n + 1 .. b : m \in S) => n \in S
  PROVE  \A n \in a .. b : n \in S
  <1> DEFINE T == {k \in 0 .. b : b - k \in a .. b /\ b - k \notin S}
  <1>1. SUFFICES ASSUME NEW n \in a .. b, n \notin S PROVE FALSE
    OBVIOUS
  <1>2. PICK k \in T : \A j \in T : k <= j
    <2>1. T \in SUBSET Nat /\ b - n \in T
      BY <1>1
    <2> HIDE DEF T
    <2>2. QED
      BY <2>1, Least
  <1>3. ASSUME NEW m \in (b - k) + 1 .. b PROVE m \in S
    <2>1. b - m \in 0 .. b /\ b - m < k /\ m \in a .. b /\ b - (b - m) = m
      BY <1>2
    <2>2. b - m \notin T
      BY <1>2, <2>1
    <2>3. QED
      BY <2>1, <2>2
  <1>4. QED
    BY <1>2, <1>3

LEMMA PastAllIs ==
  ASSUME NEW t, Len(t) \in Nat, NEW symbols, "end" \notin symbols, NEW p \in 1 .. Len(t) + 1
  PROVE  /\ PastAll(t, p, symbols) \in p .. Len(t) + 1
         /\ At(t, PastAll(t, p, symbols)) \notin symbols
         /\ \A q \in p .. PastAll(t, p, symbols) - 1 : At(t, q) \in symbols
  <1> DEFINE S == {q \in p .. Len(t) + 1 : At(t, q) \notin symbols}
  <1>1. S \in SUBSET Nat /\ Len(t) + 1 \in S
    BY DEF At
  <1>2. PICK n \in S : \A k \in S : n <= k
    BY <1>1, Least
  <1>3. PastAll(t, p, symbols) \in S /\ \A k \in S : PastAll(t, p, symbols) <= k
    BY <1>2 DEF PastAll, Min
  <1>4. ASSUME NEW q \in p .. PastAll(t, p, symbols) - 1 PROVE At(t, q) \in symbols
    BY <1>1, <1>3
  <1>5. QED
    BY <1>3, <1>4

LEMMA PastAllIf ==
  ASSUME NEW t, Len(t) \in Nat, NEW symbols, "end" \notin symbols, NEW p \in 1 .. Len(t) + 1,
         NEW q \in p .. Len(t) + 1, At(t, q) \notin symbols,
         \A i \in p .. q - 1 : At(t, i) \in symbols
  PROVE  PastAll(t, p, symbols) = q
  BY PastAllIs

LEMMA ValueOfIs ==
  ASSUME NEW t, Len(t) \in Nat, NEW p \in Nat \ {0}
  PROVE  /\ p <= Len(t) + 1 => ValueOf(t, p, p) = 0
         /\ \A q \in p .. Len(t) : ValueOf(t, p, q + 1) = 10 * ValueOf(t, p, q) + DigitValue(t[q])
  <1> DEFINE Body(f, n) == IF n = p THEN 0 ELSE 10 * f[n - 1] + DigitValue(t[n - 1])
             Is(f, m) == f = [n \in p .. m |-> Body(f, n)]
             S == {m \in Nat : \E f : Is(f, m)}
  <1>1. p \in S
    <2>1. Is([n \in p .. p |-> 0], p)
      OBVIOUS
    <2>2. QED
      BY <2>1
  <1>2. ASSUME NEW m \in p .. Len(t) + 1 - 1, m \in S PROVE m + 1 \in S
    <2>1. PICK f : Is(f, m)
      BY <1>2
    <2> DEFINE g == [n \in p .. m + 1 |-> IF n <= m THEN f[n] ELSE Body(f, n)]
    <2>2. ASSUME NEW n \in p .. m + 1 PROVE g[n] = Body(g, n)
      BY <2>1
    <2>3. Is(g, m + 1)
      <3> HIDE DEF Body
      <3> QED BY <2>2
    <2>4. m + 1 \in Nat
      OBVIOUS
    <2> HIDE DEF Is, g
    <2>5. QED
      BY <2>3, <2>4
  <1>3. ASSUME p <= Len(t) + 1 PROVE Len(t) + 1 \in S
    <2> HIDE DEF S
    <2>1. p \in Nat /\ Len(t) + 1 \in Nat
      OBVIOUS
    <2>3. \A m \in p .. (Len(t) + 1) - 1 : m \in S => m + 1 \in S
      BY <1>2
    <2>4. p \in S
      BY <1>1
    <2>2. \A n \in p .. Len(t) + 1 : n \in S
      BY <2>3, <2>4, <2>1, Upwards, <1>1, <1>2, <2>1, Upwards
    <2>5. QED
      BY <1>3, <2>2
  <1> DEFINE value == CHOOSE f : Is(f, Len(t) + 1)
  <1>4. ASSUME NEW q \in p .. Len(t) + 1
        PROVE  /\ ValueOf(t, p, q) = value[q]
               /\ value[q] = Body(value, q)
    <2>1. ValueOf(t, p, q) = value[q]
      BY DEF ValueOf
    <2>2. PICK f : Is(f, Len(t) + 1)
      <3> HIDE DEF Is
      <3> QED BY <1>3
    <2>3. Is(value, Len(t) + 1)
      <3> HIDE DEF Is
      <3> QED BY <2>2
    <2> HIDE DEF value, Body
    <2>4. QED
      BY <2>1, <2>3
  <1> HIDE DEF value
  <1>5. QED
    BY <1>4

LEMMA CharacterIs ==
  ASSUME NEW t, Len(t) \in Nat, NEW p \in 1 .. Len(t) + 1
  PROVE  /\ Character(t, p).ok \in BOOLEAN
         /\ Character(t, p).ok => Character(t, p).next \in p + 1 .. Len(t) + 1
  <1>1. ASSUME NEW q \in 1 .. Len(t) + 1
        PROVE  /\ EscapedUnicode(t, q).ok \in BOOLEAN
               /\ EscapedUnicode(t, q).ok => EscapedUnicode(t, q).next \in q + 1 .. Len(t) + 1
    <2>1. CASE At(t, q) \in High
      BY <2>1 DEF EscapedUnicode, Ok, Fail, At, Low, High
    <2>2. CASE At(t, q) \in HexGroups \ (High \cup Low)
      BY <2>2 DEF EscapedUnicode, Ok, Fail, At, HexGroups, High, Low
    <2>3. CASE At(t, q) \notin High /\ At(t, q) \notin HexGroups \ (High \cup Low)
      BY <2>3 DEF EscapedUnicode, Fail
    <2>4. QED
      BY <2>1, <2>2, <2>3
  <1>2. CASE At(t, p) \in {"end", "control"}
    BY <1>2 DEF Character, Fail
  <1>3. CASE At(t, p) = "backslash" /\ At(t, p + 1) \in Escapes
    <2>1. p + 1 <= Len(t)
      BY <1>3 DEF At, Escapes
    <2>2. Character(t, p) = Ok(Unescaped[t[p + 1]], p + 2)
      BY <1>3 DEF Character, Escapes
    <2>3. QED
      BY <2>1, <2>2 DEF Ok
  <1>4. CASE At(t, p) = "backslash" /\ At(t, p + 1) = "u"
    <2>1. p + 2 \in 1 .. Len(t) + 1
      BY <1>4 DEF At
    <2>2. Character(t, p) = EscapedUnicode(t, p + 2)
      BY <1>4 DEF Character, Escapes
    <2>3. QED
      BY <1>1, <2>1, <2>2
  <1>5. CASE At(t, p) = "backslash" /\ At(t, p + 1) \notin Escapes \cup {"u"}
    BY <1>5 DEF Character, Fail
  <1>6. CASE At(t, p) \notin {"end", "control", "backslash"}
    <2>1. p <= Len(t)
      BY <1>6 DEF At
    <2>2. Character(t, p) = Ok(t[p], p + 1)
      BY <1>6 DEF Character
    <2>3. QED
      BY <2>1, <2>2 DEF Ok
  <1>7. QED
    BY <1>2, <1>3, <1>4, <1>5, <1>6

LEMMA CharactersIs ==
  ASSUME NEW t, Len(t) \in Nat, NEW p \in 1 .. Len(t) + 1
  PROVE  Characters(t)[p] =
           LET one == Character(t, p)
               rest == Characters(t)[one.next]
           IN  IF At(t, p) = "quote" THEN Ok(<<>>, p + 1)
               ELSE IF one.ok /\ rest.ok THEN Ok(<<one.value>> \o rest.value, rest.next)
               ELSE Fail
  <1>0. PICK N \in Nat : N = Len(t) + 1
    OBVIOUS
  <1> DEFINE Body(f, q) == LET one == Character(t, q)
                               rest == f[one.next]
                           IN  IF At(t, q) = "quote" THEN Ok(<<>>, q + 1)
                               ELSE IF one.ok /\ rest.ok
                                    THEN Ok(<<one.value>> \o rest.value, rest.next)
                               ELSE Fail
             Is(f, m) == f = [q \in 1 .. N |-> IF q > N - m THEN Body(f, q) ELSE 0]
  <1> HIDE DEF Body
  <1>1. \E f : Is(f, 0)
    <2>1. Is([q \in 1 .. N |-> 0], 0)
      OBVIOUS
    <2> HIDE DEF Is
    <2>2. QED
      BY <2>1
  <1>2. ASSUME NEW m \in 0 .. N - 1, NEW f, Is(f, m) PROVE \E g : Is(g, m + 1)
    <2> DEFINE g == [q \in 1 .. N |-> IF q > N - m THEN f[q] ELSE IF q = N - m THEN Body(f, q) ELSE 0]
    <2> HIDE DEF Is
    <2>1. ASSUME NEW q \in 1 .. N, q > N - (m + 1) PROVE Body(g, q) = Body(f, q)
      <3>1. CASE Character(t, q).ok
        <4>1. Character(t, q).next \in 1 .. N /\ Character(t, q).next > N - m
          BY <1>0, <2>1, <3>1, CharacterIs
        <4>2. g[Character(t, q).next] = f[Character(t, q).next]
          BY <4>1
        <4> HIDE DEF g
        <4>3. QED
          BY <4>2 DEF Body
      <3>2. CASE ~Character(t, q).ok
        <4> HIDE DEF g
        <4> QED BY <3>2 DEF Body
      <3>3. QED
        BY <3>1, <3>2
    <2>2. ASSUME NEW q \in 1 .. N
          PROVE  g[q] = IF q > N - (m + 1) THEN Body(g, q) ELSE 0
      <3>1. CASE q > N - m
        <4>1. f[q] = Body(f, q)
          BY <1>2, <3>1 DEF Is
        <4>2. QED
          BY <2>1, <3>1, <4>1
      <3>2. CASE q = N - m
        BY <2>1, <3>2
      <3>3. CASE q < N - m
        BY <3>3
      <3>4. QED
        BY <3>1, <3>2, <3>3
    <2>3. Is(g, m + 1)
      BY <2>2 DEF Is
    <2> HIDE DEF g
    <2>4. QED
      BY <2>3
  <1>3. \E f : Is(f, N)
    <2> DEFINE S == {m \in Nat : \E f : Is(f, m)}
    <2> HIDE DEF Is
    <2>1. 0 \in S /\ \A m \in 0 .. N - 1 : m \in S => m + 1 \in S
      BY <1>1, <1>2
    <2>2. \A m \in 0 .. N : m \in S
      <3> HIDE DEF S
      <3> QED BY <2>1, Upwards
    <2>3. QED
      BY <2>2
  <1>4. \E f : f = [q \in 1 .. N |-> Body(f, q)]
    <2>1. PICK f : Is(f, N)
      BY <1>3
    <2>2. f = [q \in 1 .. N |-> Body(f, q)]
      BY <2>1
    <2> HIDE DEF Is
    <2>3. QED
      BY <2>2
  <1>5. Characters(t) = CHOOSE h : h = [q \in 1 .. N |-> Body(h, q)]
    BY <1>0 DEF Characters, Body
  <1>6. Characters(t) = [q \in 1 .. N |-> Body(Characters(t), q)]
    BY <1>4, <1>5
  <1>7. p \in 1 .. N
    BY <1>0
  <1>8. Characters(t)[p] = Body(Characters(t), p)
    BY <1>6, <1>7, Zenon
  <1>9. QED
    BY <1>8 DEF Body

\* Where skip_ws stops, and what it passes.
LEMMA SkipWsIs ==
  ASSUME NEW t, Len(t) \in Nat, NEW p \in 1 .. Len(t) + 1
  PROVE  /\ SkipWs(t, p) \in p .. Len(t) + 1
         /\ At(t, SkipWs(t, p)) # "space"
         /\ \A q \in p .. SkipWs(t, p) - 1 : At(t, q) = "space"
  <1>1. "end" \notin {"space"}
    OBVIOUS
  <1>2. QED
    BY <1>1, PastAllIs DEF SkipWs

\* The digits are passed to the last, if there are any.
LEMMA SomeDigitsIs ==
  ASSUME NEW t, Len(t) \in Nat, NEW p \in 1 .. Len(t) + 1
  PROVE  \/ /\ At(t, p) \in Digits
            /\ SomeDigits(t, p) \in p + 1 .. Len(t) + 1
            /\ \A q \in p .. SomeDigits(t, p) - 1 : At(t, q) \in Digits
            /\ At(t, SomeDigits(t, p)) \notin Digits
         \/ At(t, p) \notin Digits /\ SomeDigits(t, p) = 0
  <1>1. CASE At(t, p) \in Digits
    <2>1. "end" \notin Digits
      BY DEF Digits
    <2>2. SomeDigits(t, p) = PastAll(t, p, Digits)
      BY <1>1 DEF SomeDigits
    <2>3. QED
      BY <1>1, <2>1, <2>2, PastAllIs
  <1>2. CASE At(t, p) \notin Digits
    BY <1>2 DEF SomeDigits
  <1>3. QED
    BY <1>1, <1>2

\* A part of a number that is not malformed ends in the text.
LEMMA PartsAre ==
  ASSUME NEW t, Len(t) \in Nat, NEW p \in 1 .. Len(t) + 1
  PROVE  /\ IntegerPart(t, p) # 0 => IntegerPart(t, p) \in p + 1 .. Len(t) + 1
         /\ FractionPart(t, p) # 0 => FractionPart(t, p) \in p .. Len(t) + 1
         /\ ExponentPart(t, p) # 0 => ExponentPart(t, p) \in p .. Len(t) + 1
  <1>1. IntegerPart(t, p) # 0 => IntegerPart(t, p) \in p + 1 .. Len(t) + 1
    <2>1. At(t, p) = "0" => p <= Len(t)
      BY DEF At
    <2>2. QED
      BY <2>1, SomeDigitsIs DEF IntegerPart
  <1>2. FractionPart(t, p) # 0 => FractionPart(t, p) \in p .. Len(t) + 1
    <2>1. At(t, p) = "." => p + 1 \in 1 .. Len(t) + 1
      BY DEF At
    <2>2. QED
      BY <2>1, SomeDigitsIs DEF FractionPart
  <1>3. ExponentPart(t, p) # 0 => ExponentPart(t, p) \in p .. Len(t) + 1
    <2>1. At(t, p) = "e" => ExponentDigits(t, p) \in p + 1 .. Len(t) + 1
      <3>1. At(t, p) = "e" => p + 1 \in 1 .. Len(t) + 1
        BY DEF At
      <3>2. At(t, p + 1) \in {"+", "-"} => p + 1 <= Len(t)
        BY DEF At
      <3>3. QED
        BY <3>1, <3>2 DEF ExponentDigits
    <2>2. QED
      BY <2>1, SomeDigitsIs DEF ExponentPart
  <1>4. QED
    BY <1>1, <1>2, <1>3

\* The outcomes of parsing from a position: none, or one that ends later.
Outcome(r, p, t) == r.ok \in BOOLEAN /\ (r.ok => r.next \in p + 1 .. Len(t) + 1)

LEMMA OutcomeIs ==
  ASSUME NEW t, NEW p
  PROVE  /\ Outcome(Fail, p, t)
         /\ \A value, end : end \in p + 1 .. Len(t) + 1 => Outcome(Ok(value, end), p, t)
  BY DEF Outcome, Ok, Fail

\* parse_number ends after the position it began at.
LEMMA NumberEnds ==
  ASSUME NEW t, Len(t) \in Nat, NEW p \in 1 .. Len(t) + 1
  PROVE  Outcome(ParseNumber(t, p), p, t)
  <1> DEFINE begin == IF At(t, p) = "-" THEN p + 1 ELSE p
             point == IntegerPart(t, begin)
             e == FractionPart(t, point)
             end == ExponentPart(t, e)
  <1>1. begin \in p .. Len(t) + 1
    BY DEF At
  <1> HIDE DEF begin
  <1>2. point # 0 => point \in p + 1 .. Len(t) + 1
    BY <1>1, PartsAre
  <1> HIDE DEF point
  <1>3. point # 0 /\ e # 0 => e \in p + 1 .. Len(t) + 1
    BY <1>2, PartsAre
  <1> HIDE DEF e
  <1>4. point # 0 /\ e # 0 /\ end # 0 => end \in p + 1 .. Len(t) + 1
    BY <1>3, PartsAre
  <1> HIDE DEF end
  <1>5. \/ ParseNumber(t, p) = Fail
        \/ /\ point # 0 /\ e # 0 /\ end # 0
           /\ \E value : ParseNumber(t, p) = Ok(value, end)
    BY DEF ParseNumber, begin, point, e, end
  <1>6. QED
    BY <1>4, <1>5, OutcomeIs

\* parse_string does, too.
LEMMA StringEnds ==
  ASSUME NEW t, Len(t) \in Nat, NEW p \in 1 .. Len(t) + 1
  PROVE  Outcome(Characters(t)[p], p, t) /\ Outcome(ParseString(t, p), p, t)
  <1>1. ASSUME NEW q \in 1 .. Len(t) + 1,
               \A m \in q + 1 .. Len(t) + 1 : Outcome(Characters(t)[m], m, t)
        PROVE  Outcome(Characters(t)[q], q, t)
    <2> DEFINE one == Character(t, q)
               rest == Characters(t)[one.next]
    <2>1. CASE At(t, q) = "quote"
      <3>1. Characters(t)[q] = Ok(<<>>, q + 1) /\ q <= Len(t)
        BY <2>1, CharactersIs DEF At
      <3>2. QED
        BY <3>1 DEF Outcome, Ok
    <2>2. CASE At(t, q) # "quote" /\ one.ok /\ rest.ok
      <3>1. Characters(t)[q] = Ok(<<one.value>> \o rest.value, rest.next)
        BY <2>2, CharactersIs
      <3>2. one.next \in q + 1 .. Len(t) + 1
        BY <2>2, CharacterIs
      <3>3. rest.next \in one.next + 1 .. Len(t) + 1
        BY <1>1, <2>2, <3>2 DEF Outcome
      <3> HIDE DEF one, rest
      <3>4. QED
        BY <3>1, <3>2, <3>3 DEF Outcome, Ok
    <2>3. CASE At(t, q) # "quote" /\ ~(one.ok /\ rest.ok)
      <3>1. Characters(t)[q] = Fail
        BY <2>3, CharactersIs
      <3>2. QED
        BY <3>1, OutcomeIs
    <2>4. QED
      BY <2>1, <2>2, <2>3
  <1>2. \A q \in 1 .. Len(t) + 1 : Outcome(Characters(t)[q], q, t)
    <2> DEFINE S == {q \in 1 .. Len(t) + 1 : Outcome(Characters(t)[q], q, t)}
    <2>1. \A q \in 1 .. Len(t) + 1 : (\A m \in q + 1 .. Len(t) + 1 : m \in S) => q \in S
      BY <1>1
    <2>2. 1 \in Nat /\ Len(t) + 1 \in Nat
      OBVIOUS
    <2>3. \A q \in 1 .. Len(t) + 1 : q \in S
      <3> HIDE DEF S
      <3> QED BY <2>1, <2>2, Downwards
    <2>4. QED
      BY <2>3
  <1>4. CASE At(t, p) \in Quoted
    <2>1. p <= Len(t)
      BY <1>4 DEF At, Quoted
    <2>2. ParseString(t, p) = Ok(Content[t[p]], p + 1)
      BY <1>4 DEF ParseString, Quoted
    <2>3. p + 1 \in p + 1 .. Len(t) + 1
      BY <2>1
    <2>4. Outcome(ParseString(t, p), p, t)
      BY <2>2, <2>3, OutcomeIs
    <2>5. QED
      BY <1>2, <2>4
  <1>5. CASE At(t, p) = "quote"
    <2>1. p + 1 \in 1 .. Len(t) + 1
      BY <1>5 DEF At, Quoted
    <2>2. ParseString(t, p) = Characters(t)[p + 1]
      BY <1>5 DEF ParseString, Quoted
    <2>3. QED
      BY <1>2, <2>1, <2>2 DEF Outcome
  <1>6. CASE At(t, p) \notin Quoted \cup {"quote"}
    BY <1>2, <1>6, OutcomeIs DEF ParseString
  <1>7. QED
    BY <1>4, <1>5, <1>6

-----------------------------------------------------------------------------
(* A call reads the results of later calls only.                           *)

\* Two functions agree, on proper outcomes, at the calls after a position.
Agree(t, p, f, g) ==
  \A kind \in {"value"} \cup Loops, q \in p + 1 .. Len(t) + 1 :
    f[<<kind, q>>] = g[<<kind, q>>] /\ Outcome(f[<<kind, q>>], q, t)

\* What agrees after a position agrees after a later one.
LEMMA AgreeLater ==
  ASSUME NEW t, Len(t) \in Nat, NEW p \in 1 .. Len(t) + 1, NEW f, NEW g, Agree(t, p, f, g),
         NEW q \in p .. Len(t) + 1
  PROVE  Agree(t, q, f, g)
  <1>1. q + 1 .. Len(t) + 1 \subseteq p + 1 .. Len(t) + 1
    OBVIOUS
  <1>2. QED
    BY <1>1 DEF Agree

LEMMA RestIsLocal ==
  ASSUME NEW t, Len(t) \in Nat, NEW p \in 1 .. Len(t) + 1, NEW f, NEW g, Agree(t, p, f, g),
         NEW close \in {"end_object", "end_array"}, NEW loop \in Loops
  PROVE  Rest(t, p, close, loop, f) = Rest(t, p, close, loop, g)
           /\ Outcome(Rest(t, p, close, loop, f), p, t)
  <1>1. CASE At(t, p) = close
    <2>1. p <= Len(t)
      BY <1>1 DEF At
    <2>2. Rest(t, p, close, loop, f) = Ok(<<>>, p + 1) /\ Rest(t, p, close, loop, g) = Ok(<<>>, p + 1)
      BY <1>1 DEF Rest
    <2>3. QED
      BY <2>1, <2>2 DEF Outcome, Ok
  <1>2. CASE At(t, p) = "comma"
    <2>1. p + 1 \in p + 1 .. Len(t) + 1
      BY <1>2 DEF At
    <2>2. Rest(t, p, close, loop, f) = f[<<loop, p + 1>>] /\ Rest(t, p, close, loop, g) = g[<<loop, p + 1>>]
      BY <1>2 DEF Rest
    <2>3. f[<<loop, p + 1>>] = g[<<loop, p + 1>>] /\ Outcome(f[<<loop, p + 1>>], p + 1, t)
      BY <2>1 DEF Agree
    <2>4. QED
      BY <2>2, <2>3 DEF Outcome
  <1>3. CASE At(t, p) \notin {close, "comma"}
    BY <1>3 DEF Rest, Outcome, Fail
  <1>4. QED
    BY <1>1, <1>2, <1>3

\* So do the members of an object, whose keys come before their values.
LEMMA MembersAreLocal ==
  ASSUME NEW t, Len(t) \in Nat, NEW p \in 1 .. Len(t) + 1, NEW f, NEW g, Agree(t, p, f, g)
  PROVE  MembersAt(t, p, f) = MembersAt(t, p, g) /\ Outcome(MembersAt(t, p, f), p, t)
  <1> DEFINE key == ParseString(t, SkipWs(t, p))
             colon == SkipWs(t, key.next)
             value(h) == h[<<"value", colon + 1>>]
             next == SkipWs(t, value(f).next)
             rest(h) == Rest(t, SkipWs(t, value(h).next), "end_object", "members", h)
             good(h) == key.ok /\ At(t, colon) = "colon" /\ value(h).ok /\ rest(h).ok
  <1>1. \A h : MembersAt(t, p, h) =
                 IF good(h) THEN Ok(Insert(key.value, value(h).value, rest(h).value), rest(h).next)
                 ELSE Fail
    BY DEF MembersAt
  <1>2. CASE key.ok /\ At(t, colon) = "colon"
    <2>1. key.next \in p + 1 .. Len(t) + 1
      BY <1>2, SkipWsIs, StringEnds DEF Outcome
    <2>2. colon \in p + 1 .. Len(t)
      <3>1. colon \in p + 1 .. Len(t) + 1
        BY <2>1, SkipWsIs
      <3>2. colon <= Len(t)
        BY <1>2 DEF At
      <3>3. QED
        BY <3>1, <3>2
    <2> HIDE DEF key, colon
    <2>3. value(f) = value(g) /\ Outcome(value(f), colon + 1, t)
      BY <2>2 DEF Agree
    <2>4. CASE value(f).ok
      <3>1. next \in p + 1 .. Len(t) + 1
        BY <2>2, <2>3, <2>4, SkipWsIs DEF Outcome
      <3>2. Agree(t, next, f, g)
        <4> HIDE DEF next
        <4> QED BY <3>1, AgreeLater
      <3>3. rest(f) = rest(g) /\ Outcome(rest(f), next, t)
        BY <2>3, <3>1, <3>2, RestIsLocal DEF Loops
      <3>4. good(f) <=> good(g)
        BY <2>3, <3>3
      <3> HIDE DEF value, rest, next
      <3>5. CASE good(f)
        <4>1. rest(f).next \in p + 1 .. Len(t) + 1
          BY <3>1, <3>3, <3>5 DEF Outcome
        <4> HIDE DEF good
        <4>2. /\ MembersAt(t, p, f) = Ok(Insert(key.value, value(f).value, rest(f).value), rest(f).next)
               /\ MembersAt(t, p, g) = MembersAt(t, p, f)
          BY <1>1, <2>3, <3>3, <3>4, <3>5, Zenon
        <4>3. QED
          BY <4>1, <4>2 DEF Outcome, Ok
      <3>6. CASE ~good(f)
        <4> HIDE DEF good
        <4>1. MembersAt(t, p, f) = Fail /\ MembersAt(t, p, g) = Fail
          BY <1>1, <3>4, <3>6, Zenon
        <4>2. QED
          BY <4>1 DEF Outcome, Fail
      <3>7. QED
        BY <3>5, <3>6
    <2>5. CASE ~value(f).ok
      <3>1. ~good(f) /\ ~good(g)
        BY <2>3, <2>5
      <3> HIDE DEF good
      <3>2. MembersAt(t, p, f) = Fail /\ MembersAt(t, p, g) = Fail
        BY <1>1, <3>1, Zenon
      <3>3. QED
        BY <3>2 DEF Outcome, Fail
    <2>6. QED
      BY <2>4, <2>5
  <1>3. CASE ~(key.ok /\ At(t, colon) = "colon")
    <2>1. ~good(f) /\ ~good(g)
      BY <1>3
    <2> HIDE DEF good
    <2>2. MembersAt(t, p, f) = Fail /\ MembersAt(t, p, g) = Fail
      BY <1>1, <2>1, Zenon
    <2>3. QED
      BY <2>2 DEF Outcome, Fail
  <1>4. QED
    BY <1>2, <1>3

\* The elements of an array depend on the value at their own position as well.
LEMMA ElementsAreLocal ==
  ASSUME NEW t, Len(t) \in Nat, NEW p \in 1 .. Len(t) + 1, NEW f, NEW g, Agree(t, p, f, g),
         f[<<"value", p>>] = g[<<"value", p>>], Outcome(f[<<"value", p>>], p, t)
  PROVE  ElementsAt(t, p, f) = ElementsAt(t, p, g) /\ Outcome(ElementsAt(t, p, f), p, t)
  <1> DEFINE value(h) == h[<<"value", p>>]
             next == SkipWs(t, value(f).next)
             rest(h) == Rest(t, SkipWs(t, value(h).next), "end_array", "elements", h)
             good(h) == value(h).ok /\ rest(h).ok
  <1>1. \A h : ElementsAt(t, p, h) =
                 IF good(h) THEN Ok(<<value(h).value>> \o rest(h).value, rest(h).next) ELSE Fail
    BY DEF ElementsAt
  <1>2. value(f) = value(g) /\ Outcome(value(f), p, t)
    OBVIOUS
  <1>3. CASE value(f).ok
    <2>1. next \in p + 1 .. Len(t) + 1
      BY <1>2, <1>3, SkipWsIs DEF Outcome
    <2>2. Agree(t, next, f, g)
      <3> HIDE DEF next
      <3> QED BY <2>1, AgreeLater
    <2>3. rest(f) = rest(g) /\ Outcome(rest(f), next, t)
      BY <1>2, <2>1, <2>2, RestIsLocal DEF Loops
    <2>4. good(f) <=> good(g)
      BY <1>2, <2>3
    <2> HIDE DEF value, rest, next
    <2>5. CASE good(f)
      <3>1. rest(f).next \in p + 1 .. Len(t) + 1
        BY <2>1, <2>3, <2>5 DEF Outcome
      <3> HIDE DEF good
      <3>2. /\ ElementsAt(t, p, f) = Ok(<<value(f).value>> \o rest(f).value, rest(f).next)
             /\ ElementsAt(t, p, g) = ElementsAt(t, p, f)
        BY <1>1, <1>2, <2>3, <2>4, <2>5, Zenon
      <3>3. QED
        BY <3>1, <3>2 DEF Outcome, Ok
    <2>6. CASE ~good(f)
      <3> HIDE DEF good
      <3>1. ElementsAt(t, p, f) = Fail /\ ElementsAt(t, p, g) = Fail
        BY <1>1, <2>4, <2>6, Zenon
      <3>2. QED
        BY <3>1 DEF Outcome, Fail
    <2>7. QED
      BY <2>5, <2>6
  <1>4. CASE ~value(f).ok
    <2>1. ~good(f) /\ ~good(g)
      BY <1>2, <1>4
    <2> HIDE DEF good
    <2>2. ElementsAt(t, p, f) = Fail /\ ElementsAt(t, p, g) = Fail
      BY <1>1, <2>1, Zenon
    <2>3. QED
      BY <2>2 DEF Outcome, Fail
  <1>5. QED
    BY <1>3, <1>4

\* The value that each first symbol announces.
LEMMA ValueAtIs ==
  ASSUME NEW t, NEW p, NEW h, NEW q, q = SkipWs(t, p)
  PROVE  /\ At(t, q) = "begin_object" =>
              ValueAt(t, p, h) = Container(t, SkipWs(t, q + 1), "object", "end_object", "members", h)
         /\ At(t, q) = "begin_array" =>
              ValueAt(t, p, h) = Container(t, SkipWs(t, q + 1), "array", "end_array", "elements", h)
         /\ At(t, q) \in {"quote"} \cup Quoted => ValueAt(t, p, h) = Typed("string", ParseString(t, q))
         /\ At(t, q) \in Literals => ValueAt(t, p, h) = Ok(LiteralValue[At(t, q)], q + 1)
         /\ At(t, q) \in {"-"} \cup Digits => ValueAt(t, p, h) = ParseNumber(t, q)
         /\ At(t, q) \notin {"begin_object", "begin_array", "quote", "-"}
                           \cup Quoted \cup Literals \cup Digits =>
              ValueAt(t, p, h) = Fail
  <1> DEFINE c == At(t, q)
  <1>1. ValueAt(t, p, h) =
          CASE c = "begin_object" -> Container(t, SkipWs(t, q + 1), "object", "end_object", "members", h)
            [] c = "begin_array" -> Container(t, SkipWs(t, q + 1), "array", "end_array", "elements", h)
            [] c \in {"quote"} \cup Quoted -> Typed("string", ParseString(t, q))
            [] c \in Literals -> Ok(LiteralValue[c], q + 1)
            [] c \in {"-"} \cup Digits -> ParseNumber(t, q)
            [] OTHER -> Fail
    BY DEF ValueAt
  <1> HIDE DEF c
  <1>2. c \in Quoted => c = "'a'" \/ c = "'b'"
    BY DEF Quoted
  <1>3. c \in Literals => c = "true" \/ c = "false" \/ c = "null"
    BY DEF Literals
  <1>4. c \in Digits => c = "0" \/ c = "1"
    BY DEF Digits
  <1>5. c = "begin_object" =>
          ValueAt(t, p, h) = Container(t, SkipWs(t, q + 1), "object", "end_object", "members", h)
    BY <1>1, <1>2, <1>3, <1>4
  <1>6. c = "begin_array" =>
          ValueAt(t, p, h) = Container(t, SkipWs(t, q + 1), "array", "end_array", "elements", h)
    BY <1>1, <1>2, <1>3, <1>4
  <1>7. c \in {"quote"} \cup Quoted => ValueAt(t, p, h) = Typed("string", ParseString(t, q))
    BY <1>1, <1>2, <1>3, <1>4
  <1>8. c \in Literals => ValueAt(t, p, h) = Ok(LiteralValue[c], q + 1)
    BY <1>1, <1>2, <1>3, <1>4
  <1>9. c \in {"-"} \cup Digits => ValueAt(t, p, h) = ParseNumber(t, q)
    BY <1>1, <1>2, <1>3, <1>4
  <1>10. c \notin {"begin_object", "begin_array", "quote", "-"} \cup Quoted \cup Literals \cup Digits =>
           ValueAt(t, p, h) = Fail
    BY <1>1
  <1>11. QED
    BY <1>5, <1>6, <1>7, <1>8, <1>9, <1>10 DEF c

\* What a value is depends on the calls after its position only.
LEMMA ValueIsLocal ==
  ASSUME NEW t, Len(t) \in Nat, NEW p \in 1 .. Len(t) + 1, NEW f, NEW g, Agree(t, p, f, g)
  PROVE  ValueAt(t, p, f) = ValueAt(t, p, g) /\ Outcome(ValueAt(t, p, f), p, t)
  <1> DEFINE q == SkipWs(t, p)
             inside == SkipWs(t, q + 1)
  <1>1. q \in p .. Len(t) + 1
    BY SkipWsIs
  <1>2. ASSUME NEW type, NEW close \in {"end_object", "end_array"},
               NEW loop \in Loops, At(t, q) \in {"begin_object", "begin_array"}
        PROVE  /\ Container(t, inside, type, close, loop, f) = Container(t, inside, type, close, loop, g)
               /\ Outcome(Container(t, inside, type, close, loop, f), p, t)
    <2>1. q <= Len(t)
      BY <1>2 DEF At
    <2>2. inside \in p + 1 .. Len(t) + 1
      BY <1>1, <2>1, SkipWsIs
    <2> HIDE DEF inside, q
    <2>3. f[<<loop, inside>>] = g[<<loop, inside>>] /\ Outcome(f[<<loop, inside>>], inside, t)
      BY <2>2 DEF Agree
    <2>4. At(t, inside) = close => inside <= Len(t)
      BY DEF At
    <2>5. QED
      BY <2>2, <2>3, <2>4 DEF Container, Typed, Outcome, Ok, Fail
  <1>3. CASE At(t, q) = "begin_object"
    BY <1>2, <1>3, ValueAtIs DEF Loops
  <1>4. CASE At(t, q) = "begin_array"
    BY <1>2, <1>4, ValueAtIs DEF Loops
  <1>5. CASE At(t, q) \in {"quote"} \cup Quoted
    <2>1. ValueAt(t, p, f) = Typed("string", ParseString(t, q))
            /\ ValueAt(t, p, g) = Typed("string", ParseString(t, q))
      BY <1>5, ValueAtIs
    <2>2. Outcome(ParseString(t, q), q, t)
      BY <1>1, StringEnds
    <2> HIDE DEF q
    <2>3. QED
      BY <1>1, <2>1, <2>2 DEF Typed, Outcome, Ok, Fail
  <1>6. CASE At(t, q) \in Literals
    <2>1. ValueAt(t, p, f) = Ok(LiteralValue[At(t, q)], q + 1)
            /\ ValueAt(t, p, g) = Ok(LiteralValue[At(t, q)], q + 1)
      BY <1>6, ValueAtIs
    <2>2. q <= Len(t)
      BY <1>6 DEF At, Literals
    <2> HIDE DEF q
    <2>3. QED
      BY <1>1, <2>1, <2>2 DEF Outcome, Ok
  <1>7. CASE At(t, q) \in {"-"} \cup Digits
    <2>1. ValueAt(t, p, f) = ParseNumber(t, q) /\ ValueAt(t, p, g) = ParseNumber(t, q)
      BY <1>7, ValueAtIs
    <2>2. Outcome(ParseNumber(t, q), q, t)
      BY <1>1, NumberEnds
    <2> HIDE DEF q
    <2>3. QED
      BY <1>1, <2>1, <2>2 DEF Outcome
  <1>8. CASE At(t, q) \notin {"begin_object", "begin_array", "quote", "-"} \cup Quoted \cup Literals
               \cup Digits
    <2>1. ValueAt(t, p, f) = Fail /\ ValueAt(t, p, g) = Fail
      BY <1>8, ValueAtIs
    <2>2. QED
      BY <2>1 DEF Outcome, Fail
  <1>9. QED
    BY <1>3, <1>4, <1>5, <1>6, <1>7, <1>8

\* A bound on the calls below a call.
Rank(t, call) == 2 * (Len(t) + 1 - call[2]) + IF call[1] = "value" THEN 0 ELSE 1

\* A call depends on calls of lesser rank only.
LEMMA ParseIsLocal ==
  ASSUME NEW t, Len(t) \in Nat, NEW call \in Calls(t), NEW f, NEW g,
         \A d \in Calls(t) : Rank(t, d) < Rank(t, call) => f[d] = g[d] /\ Outcome(f[d], d[2], t)
  PROVE  Parse(t, call, f) = Parse(t, call, g) /\ Outcome(Parse(t, call, f), call[2], t)
  <1>1. PICK kind \in {"value"} \cup Loops : call[1] = kind
    BY DEF Calls
  <1>2. PICK p \in 1 .. Len(t) + 1 : call[2] = p
    BY DEF Calls
  <1>3. Agree(t, p, f, g)
    <2>1. SUFFICES ASSUME NEW k \in {"value"} \cup Loops, NEW q \in p + 1 .. Len(t) + 1
                   PROVE  f[<<k, q>>] = g[<<k, q>>] /\ Outcome(f[<<k, q>>], q, t)
      BY DEF Agree
    <2>2. <<k, q>> \in Calls(t) /\ <<k, q>>[1] = k /\ <<k, q>>[2] = q
      BY DEF Calls
    <2>3. Rank(t, <<k, q>>) < Rank(t, call)
      BY <1>2, <2>2 DEF Rank
    <2>4. f[<<k, q>>] = g[<<k, q>>] /\ Outcome(f[<<k, q>>], <<k, q>>[2], t)
      BY <2>2, <2>3
    <2>5. QED
      BY <2>2, <2>4
  <1>4. CASE kind = "value"
    <2>1. Parse(t, call, f) = ValueAt(t, p, f) /\ Parse(t, call, g) = ValueAt(t, p, g)
      BY <1>1, <1>2, <1>4 DEF Parse
    <2>2. QED
      BY <1>2, <1>3, <2>1, ValueIsLocal
  <1>5. CASE kind = "members"
    <2>1. Parse(t, call, f) = MembersAt(t, p, f) /\ Parse(t, call, g) = MembersAt(t, p, g)
      BY <1>1, <1>2, <1>5 DEF Parse
    <2>2. QED
      BY <1>2, <1>3, <2>1, MembersAreLocal
  <1>6. CASE kind = "elements"
    <2>1. Parse(t, call, f) = ElementsAt(t, p, f) /\ Parse(t, call, g) = ElementsAt(t, p, g)
      BY <1>1, <1>2, <1>6 DEF Parse
    <2>2. <<"value", p>> \in Calls(t) /\ <<"value", p>>[1] = "value" /\ <<"value", p>>[2] = p
      BY DEF Calls
    <2>3. Rank(t, <<"value", p>>) < Rank(t, call)
      BY <1>1, <1>2, <1>6, <2>2 DEF Rank
    <2>4. f[<<"value", p>>] = g[<<"value", p>>] /\ Outcome(f[<<"value", p>>], <<"value", p>>[2], t)
      BY <2>2, <2>3
    <2>5. Outcome(f[<<"value", p>>], p, t)
      BY <2>2, <2>4
    <2>6. QED
      BY <1>2, <1>3, <2>1, <2>4, <2>5, ElementsAreLocal
  <1>7. QED
    BY <1>4, <1>5, <1>6 DEF Loops

\* The parser is well defined: it satisfies its own equation at every call, and
\* every call ends after the position it began at.
THEOREM ParserIs ==
  ASSUME NEW t, Len(t) \in Nat, NEW call \in Calls(t)
  PROVE  /\ Parser(t)[call] = Parse(t, call, Parser(t))
         /\ Outcome(Parser(t)[call], call[2], t)
  <1>0. PICK N \in Nat : N = 2 * (Len(t) + 1)
    OBVIOUS
  <1>1. \A c \in Calls(t) : Rank(t, c) \in 0 .. N - 1
    <2>1. SUFFICES ASSUME NEW c \in Calls(t) PROVE Rank(t, c) \in 0 .. N - 1
      OBVIOUS
    <2>2. c[2] \in 1 .. Len(t) + 1
      BY DEF Calls
    <2>3. QED
      BY <1>0, <2>2 DEF Rank
  <1> DEFINE Is(f, m) == f = [c \in Calls(t) |-> IF Rank(t, c) < m THEN Parse(t, c, f) ELSE 0]
             Ends(f, m) == \A c \in Calls(t) : Rank(t, c) < m => Outcome(f[c], c[2], t)
  <1>2. \E f : Is(f, 0) /\ Ends(f, 0)
    <2>1. Is([c \in Calls(t) |-> 0], 0) /\ Ends([c \in Calls(t) |-> 0], 0)
      BY <1>1
    <2> HIDE DEF Is, Ends
    <2>2. QED
      BY <2>1
  <1>3. ASSUME NEW m \in 0 .. N - 1, NEW f, Is(f, m), Ends(f, m) PROVE \E g : Is(g, m + 1) /\ Ends(g, m + 1)
    <2> DEFINE g == [c \in Calls(t) |-> IF Rank(t, c) < m THEN f[c]
                                        ELSE IF Rank(t, c) = m THEN Parse(t, c, f) ELSE 0]
    <2> HIDE DEF Is, Ends
    <2>1. ASSUME NEW c \in Calls(t), Rank(t, c) < m + 1
          PROVE  Parse(t, c, f) = Parse(t, c, g) /\ Outcome(Parse(t, c, f), c[2], t)
      <3>1. ASSUME NEW d \in Calls(t), Rank(t, d) < Rank(t, c)
            PROVE  f[d] = g[d] /\ Outcome(f[d], d[2], t)
        <4>1. Rank(t, d) < m
          BY <1>1, <2>1, <3>1
        <4>2. QED
          BY <1>3, <4>1 DEF Ends
      <3> HIDE DEF g
      <3>2. QED
        BY <3>1, ParseIsLocal
    <2>2. ASSUME NEW c \in Calls(t)
          PROVE  g[c] = IF Rank(t, c) < m + 1 THEN Parse(t, c, g) ELSE 0
      <3>1. CASE Rank(t, c) < m
        <4>1. f[c] = Parse(t, c, f)
          BY <1>3, <3>1 DEF Is
        <4>2. QED
          BY <1>1, <2>1, <3>1, <4>1
      <3>2. CASE Rank(t, c) = m
        BY <2>1, <3>2
      <3>3. CASE Rank(t, c) > m
        BY <1>1, <3>3
      <3>4. QED
        BY <1>1, <3>1, <3>2, <3>3
    <2>3. Is(g, m + 1)
      BY <2>2 DEF Is
    <2> HIDE DEF g
    <2>4. Ends(g, m + 1)
      BY <2>1, <2>2 DEF Ends
    <2>5. QED
      BY <2>3, <2>4
  <1>4. \E f : Is(f, N) /\ Ends(f, N)
    <2> DEFINE S == {m \in Nat : \E f : Is(f, m) /\ Ends(f, m)}
    <2> HIDE DEF Is, Ends
    <2>1. 0 \in S /\ \A m \in 0 .. N - 1 : m \in S => m + 1 \in S
      BY <1>2, <1>3
    <2>2. \A m \in 0 .. N : m \in S
      <3> HIDE DEF S
      <3> QED BY <2>1, Upwards
    <2>3. QED
      BY <2>2
  <1>5. PICK f : Is(f, N) /\ Ends(f, N)
    <2> HIDE DEF Is, Ends
    <2> QED BY <1>4
  <1>6. f = [c \in Calls(t) |-> Parse(t, c, f)]
    BY <1>1, <1>5
  <1>7. Parser(t) = CHOOSE h : h = [c \in Calls(t) |-> Parse(t, c, h)]
    BY DEF Parser
  <1> HIDE DEF Is, Ends
  <1>8. Parser(t) = [c \in Calls(t) |-> Parse(t, c, Parser(t))]
    BY <1>6, <1>7
  <1>9. Parser(t)[call] = Parse(t, call, Parser(t))
    BY <1>8, Zenon
  <1>10. \A m \in 0 .. N : Ends(Parser(t), m)
    <2> DEFINE S == {m \in Nat : Ends(Parser(t), m)}
    <2>1. 0 \in S
      BY <1>1 DEF Ends
    <2>2. ASSUME NEW m \in 0 .. N - 1, Ends(Parser(t), m) PROVE Ends(Parser(t), m + 1)
      <3>1. SUFFICES ASSUME NEW c \in Calls(t), Rank(t, c) < m + 1
                     PROVE  Outcome(Parser(t)[c], c[2], t)
        BY DEF Ends
      <3>2. ASSUME NEW d \in Calls(t), Rank(t, d) < Rank(t, c) PROVE Outcome(Parser(t)[d], d[2], t)
        <4>1. Rank(t, d) < m
          BY <1>1, <3>1, <3>2
        <4>2. QED
          BY <2>2, <4>1 DEF Ends
      <3>3. Outcome(Parse(t, c, Parser(t)), c[2], t)
        BY <3>2, ParseIsLocal
      <3>4. Parser(t)[c] = Parse(t, c, Parser(t))
        BY <1>8, Zenon
      <3>5. QED
        BY <3>3, <3>4
    <2>3. \A m \in 0 .. N - 1 : m \in S => m + 1 \in S
      BY <2>2
    <2>4. \A m \in 0 .. N : m \in S
      <3> HIDE DEF S
      <3> QED BY <2>1, <2>3, Upwards
    <2>5. QED
      BY <2>4
  <1>11. Outcome(Parser(t)[call], call[2], t)
    BY <1>1, <1>10 DEF Ends
  <1>12. QED
    BY <1>9, <1>11

\* The equations of the three functions of the parser.
LEMMA CallsAre ==
  ASSUME NEW t, Len(t) \in Nat, NEW p \in 1 .. Len(t) + 1
  PROVE  /\ Parser(t)[<<"value", p>>] = ValueAt(t, p, Parser(t))
         /\ Parser(t)[<<"members", p>>] = MembersAt(t, p, Parser(t))
         /\ Parser(t)[<<"elements", p>>] = ElementsAt(t, p, Parser(t))
         /\ \A kind \in {"value"} \cup Loops : Outcome(Parser(t)[<<kind, p>>], p, t)
  <1>1. ASSUME NEW kind \in {"value"} \cup Loops
        PROVE  <<kind, p>> \in Calls(t) /\ <<kind, p>>[1] = kind /\ <<kind, p>>[2] = p
    BY DEF Calls
  <1>2. ASSUME NEW kind \in {"value"} \cup Loops
        PROVE  /\ Parser(t)[<<kind, p>>] = Parse(t, <<kind, p>>, Parser(t))
               /\ Outcome(Parser(t)[<<kind, p>>], p, t)
    <2>1. /\ Parser(t)[<<kind, p>>] = Parse(t, <<kind, p>>, Parser(t))
          /\ Outcome(Parser(t)[<<kind, p>>], <<kind, p>>[2], t)
      BY <1>1, ParserIs
    <2>2. QED
      BY <1>1, <2>1
  <1>3. "value" \in {"value"} \cup Loops /\ "members" \in {"value"} \cup Loops
        /\ "elements" \in {"value"} \cup Loops
    BY DEF Loops
  <1>4. /\ Parse(t, <<"value", p>>, Parser(t)) = ValueAt(t, p, Parser(t))
        /\ Parse(t, <<"members", p>>, Parser(t)) = MembersAt(t, p, Parser(t))
        /\ Parse(t, <<"elements", p>>, Parser(t)) = ElementsAt(t, p, Parser(t))
    BY DEF Parse
  <1>5. QED
    BY <1>2, <1>3, <1>4

\* A path of one key.
LEMMA FindPathIs ==
  ASSUME NEW root, NEW key
  PROVE  FindPath(root, <<key>>) = Get(root, key)
  <1> DEFINE path == <<key>>
             Body(f, n) == IF n = 0 THEN root ELSE Get(f[n - 1], path[n])
             Is(f) == f = [n \in 0 .. Len(path) |-> Body(f, n)]
             found == CHOOSE f : Is(f)
             one == [n \in 0 .. 1 |-> IF n = 0 THEN root ELSE Get(root, key)]
  <1>1. Len(path) = 1 /\ path[1] = key
    OBVIOUS
  <1>2. Is(one)
    <2>1. \A n \in 0 .. 1 : one[n] = Body(one, n)
      BY <1>1
    <2> HIDE DEF Body
    <2>2. QED
      BY <1>1, <2>1
  <1>3. Is(found)
    <2> HIDE DEF Is, one
    <2> QED BY <1>2
  <1>4. FindPath(root, path) = found[1]
    <2> HIDE DEF path
    <2> QED BY <1>1 DEF FindPath
  <1> HIDE DEF found
  <1>5. found[0] = Body(found, 0) /\ found[1] = Body(found, 1)
    <2> HIDE DEF Body, path
    <2> QED BY <1>1, <1>3
  <1>6. QED
    BY <1>1, <1>4, <1>5
=============================================================================

-------------------------- MODULE JsonTexts_proofs --------------------------
(***************************************************************************)
(* Proofs that the parser of GsiJson follows the grammar of JsonGrammar,   *)
(* for texts of any length: what is parsed is a text of the grammar, and a *)
(* text of the grammar is parsed, with what it denotes.                    *)
(*                                                                         *)
(* A number is parsed by the positions of its parts, and generated as a    *)
(* product of parts; a string is both unit by unit; a structure is parsed  *)
(* by position and generated by depth.  The lemmas of each kind say what   *)
(* the grammar is in terms of positions, and then compare.                 *)
(***************************************************************************)
EXTENDS JsonTexts, GsiJson_proofs

\* Every symbol of a text.
Symbols == UNION {Alphabet[k] : k \in DOMAIN Alphabet}

LEMMA SymbolsAre ==
  /\ Alphabet.number \subseteq Symbols
  /\ Alphabet.string \subseteq Symbols
  /\ Alphabet.structure \subseteq Symbols
  /\ Digits \subseteq Symbols
  BY DEF Symbols, Alphabet

\* Concatenation, by a name: its definition serves the lemmas about it alone.
Cat(a, b) == a \o b

\* What concatenation keeps and what it adds.
LEMMA CatIs ==
  ASSUME NEW S, NEW a \in Seq(S), NEW b \in Seq(S)
  PROVE  /\ Cat(a, b) \in Seq(S)
         /\ Len(Cat(a, b)) = Len(a) + Len(b)
         /\ \A i \in 1 .. Len(a) + Len(b) : Cat(a, b)[i] = IF i <= Len(a) THEN a[i] ELSE b[i - Len(a)]
         /\ Len(a) \in Nat /\ Len(b) \in Nat
  BY ConcatProperties DEF Cat

\* The symbols from one position to before another.
Segment(t, p, q) == SubSeq(t, p, q - 1)

\* A segment, symbol by symbol.
LEMMA SegmentIs ==
  ASSUME NEW t \in Seq(Symbols), NEW p \in 1 .. Len(t) + 1, NEW q \in p .. Len(t) + 1
  PROVE  /\ Segment(t, p, q) \in Seq(Symbols)
         /\ Len(Segment(t, p, q)) = q - p
         /\ \A i \in 1 .. q - p : Segment(t, p, q)[i] = t[p + i - 1]
         /\ q <= Len(t) => Segment(t, p, q + 1) = Cat(Segment(t, p, q), <<t[q]>>)
         /\ q <= Len(t) => Segment(t, q, q + 1) = <<t[q]>>
  <1>1. p \in Int /\ q - 1 \in Int /\ Len(t) \in Nat
    OBVIOUS
  <1>2. \A i \in p .. q - 1 : t[i] \in Symbols
    OBVIOUS
  <1>3. /\ Segment(t, p, q) \in Seq(Symbols)
        /\ Len(Segment(t, p, q)) = q - p
        /\ \A i \in 1 .. (q - 1) - p + 1 : Segment(t, p, q)[i] = t[p + i - 1]
    BY <1>1, <1>2, SubSeqProperties DEF Segment
  <1>4. ASSUME q <= Len(t) PROVE Segment(t, p, q + 1) = Cat(Segment(t, p, q), <<t[q]>>)
    <2>1. q \in p .. Len(t) /\ p \in 1 .. Len(t) /\ (q + 1) - 1 = q
      BY <1>4
    <2>2. SubSeq(t, p, q) = SubSeq(t, p, q - 1) \o <<t[q]>>
      BY <2>1, SubSeqRecursiveSecond
    <2>3. QED
      BY <2>1, <2>2 DEF Segment, Cat
  <1>5. ASSUME q <= Len(t) PROVE Segment(t, q, q + 1) = <<t[q]>>
    <2>1. (q + 1) - 1 = q /\ t[q] \in Symbols
      BY <1>5
    <2>2. q \in 1 .. Len(t) /\ q \in q .. Len(t)
      BY <1>5
    <2>3. SubSeq(t, q, q) = <<t[q]>> \o SubSeq(t, q + 1, q)
      BY <2>2, SubSeqRecursiveFirst
    <2>4. SubSeq(t, q + 1, q) = <<>>
      BY SubSeqEmpty
    <2>5. <<t[q]>> \o <<>> = <<t[q]>>
      BY <2>1, ConcatEmptySeq
    <2>6. QED
      BY <2>1, <2>3, <2>4, <2>5 DEF Segment
  <1>6. QED
    BY <1>3, <1>4, <1>5

\* Two segments that meet are one.
LEMMA SegmentsJoin ==
  ASSUME NEW t \in Seq(Symbols), NEW p \in 1 .. Len(t) + 1, NEW q \in p .. Len(t) + 1,
         NEW r \in q .. Len(t) + 1
  PROVE  Segment(t, p, r) = Cat(Segment(t, p, q), Segment(t, q, r))
  <1>1. q - 1 \in p - 1 .. Len(t) /\ r - 1 \in q - 1 .. Len(t) /\ (q - 1) + 1 = q
    OBVIOUS
  <1>2. SubSeq(t, p, q - 1) \o SubSeq(t, (q - 1) + 1, r - 1) = SubSeq(t, p, r - 1)
    BY <1>1, ConcatAdjacentSubSeq
  <1>3. QED
    BY <1>1, <1>2 DEF Segment, Cat

\* A segment that is two texts is two segments.
LEMMA SegmentsSplit ==
  ASSUME NEW t \in Seq(Symbols), NEW p \in 1 .. Len(t) + 1, NEW q \in p .. Len(t) + 1,
         NEW a \in Seq(Symbols), NEW b \in Seq(Symbols), Segment(t, p, q) = Cat(a, b)
  PROVE  \E r \in p .. q : /\ a = Segment(t, p, r) /\ r - p = Len(a)
                           /\ b = Segment(t, r, q) /\ q - r = Len(b)
  <1>1. /\ Len(a) \in Nat /\ Len(b) \in Nat /\ Len(Cat(a, b)) = Len(a) + Len(b)
        /\ \A i \in 1 .. Len(a) + Len(b) : Cat(a, b)[i] = IF i <= Len(a) THEN a[i] ELSE b[i - Len(a)]
    BY CatIs
  <1>2. Len(Segment(t, p, q)) = q - p /\ \A i \in 1 .. q - p : Segment(t, p, q)[i] = t[p + i - 1]
    BY SegmentIs
  <1>3. q - p = Len(a) + Len(b)
    BY <1>1, <1>2
  <1>4. PICK r \in p .. q : r = p + Len(a)
    BY <1>1, <1>3
  <1>5. r \in p .. Len(t) + 1 /\ r \in 1 .. Len(t) + 1 /\ q \in r .. Len(t) + 1
    BY Len(t) \in Nat
  <1>6. \A i \in 1 .. Len(a) + Len(b) : t[p + i - 1] = IF i <= Len(a) THEN a[i] ELSE b[i - Len(a)]
    BY ONLY <1>1, <1>2, <1>3, Segment(t, p, q) = Cat(a, b)
  <1>7. a = Segment(t, p, r)
    <2>1. /\ Segment(t, p, r) \in Seq(Symbols) /\ Len(Segment(t, p, r)) = r - p
          /\ \A i \in 1 .. r - p : Segment(t, p, r)[i] = t[p + i - 1]
      BY <1>5, SegmentIs
    <2>2. r - p = Len(a)
      BY <1>1, <1>4
    <2>3. ASSUME NEW i \in 1 .. Len(a) PROVE Segment(t, p, r)[i] = a[i]
      <3>1. i \in 1 .. r - p /\ i \in 1 .. Len(a) + Len(b) /\ i <= Len(a)
        BY <1>1, <2>2
      <3>2. QED
        BY <1>6, <2>1, <3>1
    <2>4. QED
      BY <2>1, <2>2, <2>3, SeqEqual
  <1>8. b = Segment(t, r, q)
    <2>1. /\ Segment(t, r, q) \in Seq(Symbols) /\ Len(Segment(t, r, q)) = q - r
          /\ \A i \in 1 .. q - r : Segment(t, r, q)[i] = t[r + i - 1]
      BY <1>5, SegmentIs
    <2>2. q - r = Len(b)
      BY <1>1, <1>3, <1>4
    <2>3. ASSUME NEW i \in 1 .. Len(b) PROVE Segment(t, r, q)[i] = b[i]
      <3>1. PICK j \in 1 .. Len(a) + Len(b) : j = Len(a) + i
        BY <1>1
      <3>2. p + j - 1 = r + i - 1 /\ j - Len(a) = i /\ ~(j <= Len(a))
        BY <1>1, <1>4, <3>1
      <3>3. t[p + j - 1] = b[j - Len(a)]
        BY <1>6, <3>2
      <3>4. Segment(t, r, q)[i] = t[r + i - 1]
        BY <2>1, <2>2
      <3>5. QED
        BY <3>2, <3>3, <3>4
    <2>4. QED
      BY <2>1, <2>2, <2>3, SeqEqual
  <1>9. r - p = Len(a) /\ q - r = Len(b)
    BY <1>1, <1>3, <1>4
  <1>10. QED
    BY <1>7, <1>8, <1>9

-----------------------------------------------------------------------------
(* Numbers.                                                                *)

\* Digits before one more.
Longer(numbers, n) == Joined(numbers, Digit, n, Shifted)

LEMMA LongerIs ==
  ASSUME NEW numbers, NEW n, NEW x
  PROVE  x \in Longer(numbers, n) <=>
           \E a \in numbers, b \in Digit :
             Together(a, b, n) /\ x = Means(Cat(a.text, b.text), Shifted(a.value, b.value))
  <1> DEFINE Row(a) == {Means(Cat(a.text, b.text), Shifted(a.value, b.value)) :
                          b \in {z \in Digit : Together(a, z, n)}}
  <1>1. Longer(numbers, n) = UNION {Row(a) : a \in numbers}
    BY DEF Longer, Joined, Cat
  <1>2. \A a : x \in Row(a) <=>
               \E b \in Digit : Together(a, b, n)
                               /\ x = Means(Cat(a.text, b.text), Shifted(a.value, b.value))
    OBVIOUS
  <1> HIDE DEF Row
  <1>3. QED
    BY <1>1, <1>2

LEMMA LongerSplits ==
  ASSUME NEW numbers, NEW n, NEW x \in Longer(numbers, n)
  PROVE  \E a \in numbers, b \in Digit :
           Together(a, b, n) /\ x = Means(Cat(a.text, b.text), Shifted(a.value, b.value))
  BY LongerIs

\* The digits the grammar generates, by their number.
LEMMA DigitsOfIs ==
  /\ DigitsOf[1] = Digit
  /\ \A n \in 1 .. MaxNumber - 1 : DigitsOf[n + 1] = DigitsOf[n] \cup Longer(DigitsOf[n], n + 1)
  <1> DEFINE Body(f, n) == IF n = 1 THEN Digit ELSE f[n - 1] \cup Longer(f[n - 1], n)
             Is(f, m) == f = [n \in 1 .. m |-> Body(f, n)]
  <1>1. \E f : Is(f, 1)
    <2>1. Is([n \in 1 .. 1 |-> Digit], 1)
      OBVIOUS
    <2> HIDE DEF Is
    <2>2. QED
      BY <2>1
  <1>2. ASSUME NEW m \in 1 .. MaxNumber - 1, NEW f, Is(f, m) PROVE \E g : Is(g, m + 1)
    <2> DEFINE g == [n \in 1 .. m + 1 |-> IF n <= m THEN f[n] ELSE Body(f, n)]
    <2>1. ASSUME NEW n \in 1 .. m + 1 PROVE g[n] = Body(g, n)
      <3>1. n = 1 \/ g[n - 1] = f[n - 1]
        BY GrammarAssumption
      <3>2. Body(g, n) = Body(f, n)
        BY <3>1
      <3> HIDE DEF Body
      <3>3. n <= m => f[n] = Body(f, n)
        BY <1>2, GrammarAssumption
      <3>4. QED
        BY <3>2, <3>3
    <2>2. Is(g, m + 1)
      <3> HIDE DEF Body
      <3> QED BY <2>1
    <2> HIDE DEF Is, g
    <2>3. QED
      BY <2>2
  <1>3. \E f : Is(f, MaxNumber)
    <2> DEFINE S == {m \in Nat : \E f : Is(f, m)}
    <2> HIDE DEF Is
    <2>1. 1 \in S /\ \A m \in 1 .. MaxNumber - 1 : m \in S => m + 1 \in S
      BY <1>1, <1>2
    <2>2. \A m \in 1 .. MaxNumber : m \in S
      <3> HIDE DEF S
      <3> QED BY <2>1, Upwards, GrammarAssumption
    <2>3. QED
      BY <2>2, GrammarAssumption
  <1>4. DigitsOf = CHOOSE f : Is(f, MaxNumber)
    BY DEF DigitsOf, Longer
  <1>5. Is(DigitsOf, MaxNumber)
    <2> HIDE DEF Is
    <2> QED BY <1>3, <1>4
  <1>6. ASSUME NEW n \in 1 .. MaxNumber PROVE DigitsOf[n] = Body(DigitsOf, n)
    <2> HIDE DEF Body
    <2> QED BY <1>5
  <1>7. DigitsOf[1] = Digit
    <2>1. 1 \in 1 .. MaxNumber
      BY GrammarAssumption
    <2>2. DigitsOf[1] = Body(DigitsOf, 1)
      <3> HIDE DEF Body
      <3> QED BY <1>6, <2>1
    <2>3. QED
      BY ONLY <2>2
  <1>8. ASSUME NEW n \in 1 .. MaxNumber - 1
        PROVE  DigitsOf[n + 1] = DigitsOf[n] \cup Longer(DigitsOf[n], n + 1)
    <2>1. n + 1 \in 1 .. MaxNumber /\ n + 1 # 1 /\ (n + 1) - 1 = n
      BY GrammarAssumption
    <2>2. DigitsOf[n + 1] = Body(DigitsOf, n + 1)
      <3> HIDE DEF Body
      <3> QED BY <1>6, <2>1
    <2>3. QED
      BY ONLY <2>1, <2>2
  <1>9. QED
    BY <1>7, <1>8

\* Up to so many digits, and a number.
Numerals(n) == {x \in [text : Seq(Digits), value : Nat] : Len(x.text) \in 1 .. n}

LEMMA DigitIs ==
  /\ Digit \subseteq Numerals(1)
  /\ \A x \in Digit : \E d \in Digits : x = Means(<<d>>, DigitValue(d)) /\ Len(x.text) = 1
  /\ \A d \in Digits : Means(<<d>>, DigitValue(d)) \in Digit
  <1>1. ASSUME NEW d \in Digits PROVE Means(<<d>>, DigitValue(d)) \in Numerals(1)
    <2>1. DigitValue(d) \in Nat
      BY DEF DigitValue
    <2>2. <<d>> \in Seq(Digits) /\ Len(<<d>>) = 1
      OBVIOUS
    <2>3. QED
      BY <2>1, <2>2 DEF Means, Numerals
  <1>2. \A x \in Digit : \E d \in Digits : x = Means(<<d>>, DigitValue(d))
    BY DEF Digit
  <1>3. \A d \in Digits : Means(<<d>>, DigitValue(d)) \in Digit
    BY DEF Digit
  <1>4. \A d : Len(Means(<<d>>, DigitValue(d)).text) = 1
    BY DEF Means
  <1>5. QED
    BY <1>1, <1>2, <1>3, <1>4

\* So many digits are generated as the index says.
LEMMA DigitsTyped ==
  ASSUME NEW n \in 1 .. MaxNumber
  PROVE  DigitsOf[n] \subseteq Numerals(n)
  <1> DEFINE S == {m \in Nat : DigitsOf[m] \subseteq Numerals(m)}
  <1>1. 1 \in S
    BY DigitsOfIs, DigitIs
  <1>2. ASSUME NEW m \in 1 .. MaxNumber - 1, DigitsOf[m] \subseteq Numerals(m)
        PROVE  DigitsOf[m + 1] \subseteq Numerals(m + 1)
    <2>1. SUFFICES ASSUME NEW x \in Longer(DigitsOf[m], m + 1) PROVE x \in Numerals(m + 1)
      <3>1. DigitsOf[m] \subseteq Numerals(m + 1)
        BY <1>2, GrammarAssumption DEF Numerals
      <3>2. DigitsOf[m + 1] = DigitsOf[m] \cup Longer(DigitsOf[m], m + 1)
        BY DigitsOfIs
      <3>3. QED
        BY <3>1, <3>2
    <2>2. PICK a \in DigitsOf[m], b \in Digit :
            Together(a, b, m + 1) /\ x = Means(Cat(a.text, b.text), Shifted(a.value, b.value))
      BY <2>1, LongerSplits
    <2>3. a \in Numerals(m) /\ b \in Numerals(1)
      BY <1>2, DigitIs
    <2>4. a.text \in Seq(Digits) /\ b.text \in Seq(Digits) /\ a.value \in Nat /\ b.value \in Nat
          /\ Len(a.text) \in 1 .. m /\ Len(b.text) \in 1 .. 1
      BY <2>3 DEF Numerals
    <2>5. Cat(a.text, b.text) \in Seq(Digits) /\ Len(Cat(a.text, b.text)) = Len(a.text) + Len(b.text)
      BY <2>4, CatIs
    <2>6. Shifted(a.value, b.value) \in Nat /\ Len(Cat(a.text, b.text)) \in 1 .. m + 1
      <3>1. m \in Nat
        BY GrammarAssumption
      <3>2. QED
        <4>1. Shifted(a.value, b.value) \in Nat
          BY <2>4 DEF Shifted
        <4>2. Len(Cat(a.text, b.text)) \in 1 .. m + 1
          <5>1. Len(a.text) + Len(b.text) <= m + 1
            BY <2>2 DEF Together
          <5>2. Len(a.text) \in 1 .. m /\ Len(b.text) \in 1 .. 1
            BY <2>4
          <5>3. Len(Cat(a.text, b.text)) = Len(a.text) + Len(b.text)
            BY <2>5
          <5>4. \A i \in 1 .. m, j \in 1 .. 1 : i + j \in 1 .. m + 1
            BY <3>1
          <5>5. Len(a.text) + Len(b.text) \in 1 .. m + 1
            BY <5>2, <5>4
          <5>6. QED
            BY <5>3, <5>5
        <4>3. QED
          BY <4>1, <4>2
    <2>7. x \in [text : Seq(Digits), value : Nat] /\ x.text = Cat(a.text, b.text)
      BY <2>2, <2>5, <2>6 DEF Means
    <2>8. QED
      BY <2>6, <2>7 DEF Numerals
  <1>3. \A m \in 1 .. MaxNumber - 1 : m \in S => m + 1 \in S
    BY <1>2, GrammarAssumption
  <1>4. \A m \in 1 .. MaxNumber : m \in S
    <2> HIDE DEF S
    <2> QED BY <1>1, <1>3, Upwards, GrammarAssumption
  <1>5. QED
    BY <1>4

LEMMA DigitsGrow ==
  ASSUME NEW n \in 1 .. MaxNumber
  PROVE  DigitsOf[n] \subseteq SomeNumber
  <1> DEFINE S == {m \in Nat : DigitsOf[n] \subseteq DigitsOf[m]}
  <1>1. n \in S /\ MaxNumber \in Nat /\ n \in Nat
    BY GrammarAssumption
  <1>2. ASSUME NEW m \in n .. MaxNumber - 1, m \in S PROVE m + 1 \in S
    <2>1. m \in 1 .. MaxNumber - 1 /\ m + 1 \in Nat
      BY GrammarAssumption
    <2>2. DigitsOf[m + 1] = DigitsOf[m] \cup Longer(DigitsOf[m], m + 1)
      BY <2>1, DigitsOfIs
    <2>3. QED
      BY <1>2, <2>1, <2>2
  <1>3. \A m \in n .. MaxNumber - 1 : m \in S => m + 1 \in S
    BY <1>2
  <1>4. MaxNumber \in S
    <2> HIDE DEF S
    <2>1. \A m \in n .. MaxNumber : m \in S
      BY <1>1, <1>3, Upwards
    <2>2. QED
      BY <1>1, <2>1
  <1>5. QED
    BY <1>4 DEF SomeNumber

\* There are digits only in a segment.
DigitsAt(t, p, q) == \A i \in p .. q - 1 : At(t, i) \in Digits

\* A segment one symbol longer, and its value.
LEMMA OneMore ==
  ASSUME NEW t \in Seq(Symbols), NEW p \in 1 .. Len(t), NEW r \in p .. Len(t)
  PROVE  /\ Segment(t, p, p + 1) = <<At(t, p)>>
         /\ Segment(t, p, r + 1) = Cat(Segment(t, p, r), <<At(t, r)>>)
         /\ ValueOf(t, p, p) = 0
         /\ ValueOf(t, p, r + 1) = Shifted(ValueOf(t, p, r), DigitValue(At(t, r)))
         /\ DigitsAt(t, p, r + 1) <=> DigitsAt(t, p, r) /\ At(t, r) \in Digits
  <1>1. Len(t) \in Nat /\ p \in Nat \ {0}
    OBVIOUS
  <1>2. At(t, p) = t[p] /\ At(t, r) = t[r]
    BY <1>1 DEF At
  <1>3. p \in 1 .. Len(t) + 1 /\ p \in p .. Len(t) + 1 /\ p <= Len(t) /\ r \in p .. Len(t) + 1
          /\ r <= Len(t)
    BY <1>1
  <1>4. Segment(t, p, p + 1) = <<t[p]>>
    BY <1>3, SegmentIs
  <1>5. Segment(t, p, r + 1) = Cat(Segment(t, p, r), <<t[r]>>)
    BY <1>3, SegmentIs
  <1>6. ValueOf(t, p, p) = 0 /\ ValueOf(t, p, r + 1) = Shifted(ValueOf(t, p, r), DigitValue(t[r]))
    BY <1>1, <1>3, ValueOfIs DEF Shifted
  <1>7. DigitsAt(t, p, r + 1) <=> DigitsAt(t, p, r) /\ At(t, r) \in Digits
    BY <1>1 DEF DigitsAt
  <1>8. QED
    BY <1>2, <1>4, <1>5, <1>6, <1>7

\* A segment of digits is generated, with its value.
LEMMA DigitsGenerated ==
  ASSUME NEW t \in Seq(Symbols), NEW p \in 1 .. Len(t), NEW q \in p + 1 .. Len(t) + 1,
         q - p <= MaxNumber, DigitsAt(t, p, q)
  PROVE  Means(Segment(t, p, q), ValueOf(t, p, q)) \in SomeNumber
  <1>1. Len(t) \in Nat /\ p \in Nat /\ q \in Nat /\ MaxNumber \in Nat
    BY GrammarAssumption
  <1> DEFINE S == {r \in Nat : Means(Segment(t, p, r), ValueOf(t, p, r)) \in DigitsOf[r - p]}
  <1>2. At(t, p) \in Digits
    BY <1>1 DEF DigitsAt
  <1>3. p + 1 \in S
    <2>1. p \in p .. Len(t) /\ (p + 1) - p = 1 /\ p + 1 \in Nat
      BY <1>1
    <2>2. ValueOf(t, p, p) = 0 /\ ValueOf(t, p, p + 1) = Shifted(0, DigitValue(At(t, p)))
          /\ Segment(t, p, p + 1) = <<At(t, p)>>
      BY <2>1, OneMore
    <2>3. DigitValue(At(t, p)) \in Nat
      BY DEF DigitValue
    <2>4. ValueOf(t, p, p + 1) = DigitValue(At(t, p))
      BY <2>2, <2>3 DEF Shifted
    <2>5. Means(<<At(t, p)>>, DigitValue(At(t, p))) \in DigitsOf[1]
      BY <1>2, DigitIs, DigitsOfIs
    <2>6. QED
      BY <2>1, <2>2, <2>4, <2>5
  <1>4. ASSUME NEW r \in p + 1 .. q - 1, Means(Segment(t, p, r), ValueOf(t, p, r)) \in DigitsOf[r - p]
        PROVE  Means(Segment(t, p, r + 1), ValueOf(t, p, r + 1)) \in DigitsOf[(r + 1) - p]
    <2>1. PICK n \in 1 .. MaxNumber - 1 : r - p = n /\ (r + 1) - p = n + 1
      BY <1>1
    <2>2. r \in p .. Len(t) /\ At(t, r) \in Digits
      BY <1>1 DEF DigitsAt
    <2>3. ValueOf(t, p, r + 1) = Shifted(ValueOf(t, p, r), DigitValue(At(t, r)))
          /\ Segment(t, p, r + 1) = Cat(Segment(t, p, r), <<At(t, r)>>)
      BY <2>2, OneMore
    <2> DEFINE a == Means(Segment(t, p, r), ValueOf(t, p, r))
               b == Means(<<At(t, r)>>, DigitValue(At(t, r)))
               x == Means(Segment(t, p, r + 1), ValueOf(t, p, r + 1))
    <2>4. a.text = Segment(t, p, r) /\ a.value = ValueOf(t, p, r)
          /\ b.text = <<At(t, r)>> /\ b.value = DigitValue(At(t, r))
      BY DEF Means
    <2>5. x = Means(Cat(a.text, b.text), Shifted(a.value, b.value))
      BY <2>3, <2>4
    <2>6. a \in DigitsOf[n] /\ b \in Digit
      BY <1>4, <2>1, <2>2, DigitIs
    <2> HIDE DEF a, b, x
    <2>7. Together(a, b, n + 1)
      <3>1. a \in Numerals(n)
        BY <2>6, DigitsTyped, GrammarAssumption
      <3>2. Len(a.text) \in 1 .. n
        BY <3>1 DEF Numerals
      <3>3. Len(b.text) = 1
        BY <2>6, DigitIs
      <3>4. QED
        BY <3>2, <3>3 DEF Together
    <2>8. x \in Longer(DigitsOf[n], n + 1)
      BY <2>5, <2>6, <2>7, LongerIs
    <2>9. x \in DigitsOf[n + 1]
      BY <2>8, DigitsOfIs
    <2>10. QED
      BY <2>1, <2>9 DEF x
  <1>5. \A r \in p + 1 .. q - 1 : r \in S => r + 1 \in S
    <2>1. \A r \in p + 1 .. q - 1 : r + 1 \in Nat
      BY <1>1
    <2>2. QED
      BY <1>4, <2>1
  <1>6. q \in S
    <2> HIDE DEF S
    <2>1. p + 1 \in Nat
      BY <1>1
    <2>2. \A r \in p + 1 .. q : r \in S
      BY <1>1, <1>3, <1>5, <2>1, Upwards
    <2>3. QED
      BY <1>1, <2>2
  <1>7. q - p \in 1 .. MaxNumber
    BY <1>1
  <1>8. Means(Segment(t, p, q), ValueOf(t, p, q)) \in DigitsOf[q - p]
    BY <1>6
  <1>9. QED
    BY <1>7, <1>8, DigitsGrow

\* A segment that ends in a symbol.
LEMMA LastSplit ==
  ASSUME NEW t \in Seq(Symbols), NEW p \in 1 .. Len(t) + 1, NEW r \in p .. Len(t) + 1,
         NEW s \in Seq(Symbols), NEW d \in Symbols, Segment(t, p, r) = Cat(s, <<d>>)
  PROVE  \E m \in p .. Len(t) : r = m + 1 /\ s = Segment(t, p, m) /\ At(t, m) = d
  <1>1. <<d>> \in Seq(Symbols) /\ Len(<<d>>) = 1 /\ <<d>>[1] = d
    OBVIOUS
  <1>2. PICK e \in Seq(Symbols) : e = <<d>>
    BY <1>1
  <1>3. Segment(t, p, r) = Cat(s, e) /\ Len(e) = 1
    BY <1>1, <1>2
  <1>4. PICK m \in p .. r : s = Segment(t, p, m) /\ e = Segment(t, m, r) /\ r - m = Len(e)
    <2>1. Segment(t, p, r) = Cat(s, e)
      BY <1>3
    <2> HIDE <1>3
    <2>2. QED
      BY <2>1, SegmentsSplit
  <1>5. Len(t) \in Nat
    OBVIOUS
  <1>6. m \in p .. Len(t) /\ r = m + 1 /\ m \in 1 .. Len(t) /\ m \in m .. Len(t)
    BY <1>3, <1>4, <1>5
  <1>7. Segment(t, m, m + 1) = <<At(t, m)>>
    BY <1>6, OneMore
  <1>8. At(t, m) = d
    BY <1>2, <1>4, <1>6, <1>7
  <1>9. QED
    BY <1>4, <1>6, <1>8

\* A segment that is generated as digits consists of digits and has their value.
LEMMA DigitsRead ==
  ASSUME NEW t \in Seq(Symbols), NEW p \in 1 .. Len(t) + 1, NEW q \in p .. Len(t) + 1, NEW v,
         Means(Segment(t, p, q), v) \in SomeNumber
  PROVE  q > p /\ DigitsAt(t, p, q) /\ v = ValueOf(t, p, q)
  <1>1. Len(t) \in Nat /\ p \in Nat /\ MaxNumber \in Nat /\ 1 \in 1 .. MaxNumber
          /\ MaxNumber \in 1 .. MaxNumber
    BY GrammarAssumption
  <1> DEFINE Read(n) == \A r \in p .. Len(t) + 1 : \A w : Means(Segment(t, p, r), w) \in DigitsOf[n] =>
                          r > p /\ DigitsAt(t, p, r) /\ w = ValueOf(t, p, r)
             S == {n \in Nat : Read(n)}
  <1>2. Read(1)
    <2>1. SUFFICES ASSUME NEW r \in p .. Len(t) + 1, NEW w, Means(Segment(t, p, r), w) \in Digit
                   PROVE  r > p /\ DigitsAt(t, p, r) /\ w = ValueOf(t, p, r)
      BY DigitsOfIs
    <2>2. PICK d \in Digits : Means(Segment(t, p, r), w) = Means(<<d>>, DigitValue(d))
      BY <2>1, DigitIs
    <2>3. Segment(t, p, r) = <<d>> /\ w = DigitValue(d)
      BY <2>2 DEF Means
    <2>4. Len(Segment(t, p, r)) = r - p /\ Len(<<d>>) = 1
      BY SegmentIs
    <2>5. r = p + 1 /\ p \in 1 .. Len(t) /\ p \in p .. Len(t)
      BY <1>1, <2>3, <2>4
    <2>6. /\ Segment(t, p, p + 1) = <<At(t, p)>>
          /\ ValueOf(t, p, p) = 0
          /\ ValueOf(t, p, p + 1) = Shifted(0, DigitValue(At(t, p)))
      BY <2>5, OneMore
    <2>7. At(t, p) = d
      BY <2>3, <2>5, <2>6
    <2>8. DigitValue(d) \in Nat
      BY DEF DigitValue
    <2>9. DigitsAt(t, p, r)
      BY <1>1, <2>5, <2>7 DEF DigitsAt
    <2>10. ValueOf(t, p, r) = DigitValue(d)
      BY <2>5, <2>6, <2>7, <2>8 DEF Shifted
    <2>11. QED
      BY <1>1, <2>3, <2>5, <2>9, <2>10
  <1>3. ASSUME NEW n \in 1 .. MaxNumber - 1, Read(n) PROVE Read(n + 1)
    <2>1. SUFFICES ASSUME NEW r \in p .. Len(t) + 1, NEW w,
                          Means(Segment(t, p, r), w) \in Longer(DigitsOf[n], n + 1)
                   PROVE  r > p /\ DigitsAt(t, p, r) /\ w = ValueOf(t, p, r)
      BY <1>3, DigitsOfIs
    <2>2. PICK a \in DigitsOf[n], b \in Digit :
            Means(Segment(t, p, r), w) = Means(Cat(a.text, b.text), Shifted(a.value, b.value))
      BY <2>1, LongerSplits
    <2>3. PICK d \in Digits : b = Means(<<d>>, DigitValue(d))
      BY DigitIs
    <2>4. Segment(t, p, r) = Cat(a.text, <<d>>) /\ w = Shifted(a.value, DigitValue(d))
      BY <2>2, <2>3 DEF Means
    <2>5. a \in Numerals(n) /\ a = Means(a.text, a.value)
      <3>1. a \in Numerals(n)
        BY DigitsTyped, GrammarAssumption
      <3>2. a = [text |-> a.text, value |-> a.value]
        BY <3>1 DEF Numerals
      <3>3. QED
        BY <3>1, <3>2 DEF Means
    <2>6. a.text \in Seq(Symbols) /\ <<d>> \in Seq(Symbols) /\ Len(<<d>>) = 1
      <3>1. a.text \in Seq(Digits)
        BY <2>5 DEF Numerals
      <3>2. Digits \subseteq Symbols
        BY SymbolsAre
      <3>3. a.text \in Seq(Symbols)
        BY <3>1, <3>2, SeqMonotonic
      <3>4. d \in Symbols
        BY <3>2
      <3>5. QED
        BY <3>3, <3>4
    <2>7. PICK m \in p .. Len(t) : r = m + 1 /\ a.text = Segment(t, p, m) /\ At(t, m) = d
      BY <2>4, <2>6, LastSplit
    <2>8. m \in p .. Len(t) + 1 /\ p \in 1 .. Len(t)
      BY <1>1
    <2>9. m > p /\ DigitsAt(t, p, m) /\ a.value = ValueOf(t, p, m)
      BY <1>3, <2>5, <2>7, <2>8
    <2>10. /\ ValueOf(t, p, m + 1) = Shifted(ValueOf(t, p, m), DigitValue(At(t, m)))
           /\ DigitsAt(t, p, m + 1) <=> DigitsAt(t, p, m) /\ At(t, m) \in Digits
      BY <2>8, OneMore
    <2>11. QED
      BY <1>1, <2>4, <2>7, <2>8, <2>9, <2>10
  <1>4. \A n \in 1 .. MaxNumber : n \in S
    <2>1. 1 \in S /\ \A n \in 1 .. MaxNumber - 1 : n \in S => n + 1 \in S
      <3> HIDE DEF Read
      <3> QED BY <1>1, <1>2, <1>3
    <2> HIDE DEF S
    <2>2. QED
      BY <1>1, <2>1, Upwards
  <1>5. Read(MaxNumber)
    <2> HIDE DEF Read
    <2> QED BY <1>1, <1>4
  <1>6. QED
    BY <1>1, <1>5 DEF SomeNumber

\* A segment that begins with a symbol.
LEMMA FirstSplit ==
  ASSUME NEW t \in Seq(Symbols), NEW p \in 1 .. Len(t) + 1, NEW q \in p .. Len(t) + 1,
         NEW s \in Seq(Symbols), NEW c \in Symbols, Segment(t, p, q) = Cat(<<c>>, s)
  PROVE  p \in 1 .. Len(t) /\ p + 1 <= q /\ At(t, p) = c /\ s = Segment(t, p + 1, q)
  <1>0. <<c>> \in Seq(Symbols)
    OBVIOUS
  <1>1. PICK e \in Seq(Symbols) : e = <<c>>
    BY <1>0
  <1>2. Len(e) = 1 /\ e[1] = c
    BY <1>1
  <1>3. Segment(t, p, q) = Cat(e, s)
    BY <1>1
  <1>4. PICK m \in p .. q : e = Segment(t, p, m) /\ m - p = Len(e) /\ s = Segment(t, m, q)
    <2> HIDE <1>1, <1>2
    <2> QED BY <1>3, SegmentsSplit
  <1>5. Len(t) \in Nat /\ p \in Nat
    OBVIOUS
  <1>6. m = p + 1 /\ p \in 1 .. Len(t) /\ p + 1 <= q /\ p \in p .. Len(t)
    BY <1>2, <1>4, <1>5
  <1>7. Segment(t, p, p + 1) = <<At(t, p)>>
    BY <1>6, OneMore
  <1>8. At(t, p) = c
    BY <1>1, <1>4, <1>6, <1>7
  <1>9. QED
    BY <1>4, <1>6, <1>8

LEMMA FirstJoin ==
  ASSUME NEW t \in Seq(Symbols), NEW p \in 1 .. Len(t), NEW q \in p + 1 .. Len(t) + 1
  PROVE  Segment(t, p, q) = Cat(<<At(t, p)>>, Segment(t, p + 1, q))
  <1>1. p \in 1 .. Len(t) + 1 /\ p + 1 \in p .. Len(t) + 1 /\ p \in p .. Len(t)
    BY Len(t) \in Nat
  <1>2. Segment(t, p, q) = Cat(Segment(t, p, p + 1), Segment(t, p + 1, q))
    BY <1>1, SegmentsJoin
  <1>3. QED
    BY <1>1, <1>2, OneMore

\* A segment of zero value has no other digit than zero.
NoOnes(t, p, q) == \A i \in p .. q - 1 : At(t, i) # "1"

LEMMA ValueOfNat ==
  ASSUME NEW t \in Seq(Symbols), NEW p \in 1 .. Len(t) + 1, NEW q \in p .. Len(t) + 1
  PROVE  /\ ValueOf(t, p, q) \in Nat
         /\ DigitsAt(t, p, q) => (ValueOf(t, p, q) = 0 <=> NoOnes(t, p, q))
  <1> DEFINE Good(r) == /\ ValueOf(t, p, r) \in Nat
                        /\ DigitsAt(t, p, r) => (ValueOf(t, p, r) = 0 <=> NoOnes(t, p, r))
             S == {r \in Nat : Good(r)}
  <1>1. Len(t) \in Nat /\ p \in Nat /\ q \in Nat
    OBVIOUS
  <1>2. Good(p)
    <2>1. ValueOf(t, p, p) = 0
      BY <1>1, ValueOfIs
    <2>2. NoOnes(t, p, p)
      BY <1>1 DEF NoOnes
    <2>3. QED
      BY <2>1, <2>2
  <1>3. ASSUME NEW r \in p .. q - 1, Good(r) PROVE Good(r + 1)
    <2>1. p \in 1 .. Len(t) /\ r \in p .. Len(t)
      BY <1>1
    <2>2. /\ ValueOf(t, p, r + 1) = Shifted(ValueOf(t, p, r), DigitValue(At(t, r)))
          /\ DigitsAt(t, p, r + 1) <=> DigitsAt(t, p, r) /\ At(t, r) \in Digits
      BY <2>1, OneMore
    <2>3. NoOnes(t, p, r + 1) <=> NoOnes(t, p, r) /\ At(t, r) # "1"
      BY <2>1, <1>1 DEF NoOnes
    <2>4. DigitValue(At(t, r)) \in {0, 1}
            /\ (At(t, r) \in Digits => (DigitValue(At(t, r)) = 0 <=> At(t, r) # "1"))
      BY DEF DigitValue, Digits
    <2>5. \A x \in Nat, y \in {0, 1} : Shifted(x, y) \in Nat /\ (Shifted(x, y) = 0 <=> x = 0 /\ y = 0)
      BY DEF Shifted
    <2>6. Shifted(ValueOf(t, p, r), DigitValue(At(t, r))) \in Nat
          /\ (Shifted(ValueOf(t, p, r), DigitValue(At(t, r))) = 0
                <=> ValueOf(t, p, r) = 0 /\ DigitValue(At(t, r)) = 0)
      BY <1>3, <2>4, <2>5
    <2>7. QED
      BY <1>3, <2>2, <2>3, <2>4, <2>6
  <1>4. p \in S /\ \A r \in p .. q - 1 : r \in S => r + 1 \in S
    <2> HIDE DEF Good
    <2>1. \A r \in p .. q - 1 : r + 1 \in Nat
      BY <1>1
    <2>2. QED
      BY <1>1, <1>2, <1>3, <2>1
  <1>5. q \in S
    <2> HIDE DEF S
    <2>1. \A r \in p .. q : r \in S
      BY <1>1, <1>4, Upwards
    <2>2. QED
      BY <1>1, <2>1
  <1>6. QED
    BY <1>5

\* A whole number at a position: digits without a leading zero.
WholeAt(t, p, q) == q > p /\ DigitsAt(t, p, q) /\ (q = p + 1 \/ At(t, p) # "0")

\* The whole numbers of the grammar are those segments.
LEMMA WholeIs ==
  ASSUME NEW t \in Seq(Symbols), NEW p \in 1 .. Len(t) + 1, NEW q \in p .. Len(t) + 1,
         q - p <= MaxNumber, NEW v
  PROVE  Means(Segment(t, p, q), v) \in Whole <=> WholeAt(t, p, q) /\ v = ValueOf(t, p, q)
  <1> DEFINE x == Means(Segment(t, p, q), v)
  <1>1. Len(t) \in Nat /\ p \in Nat /\ q \in Nat
    OBVIOUS
  <1>2. x.text = Segment(t, p, q)
    BY DEF Means
  <1>3. Len(Segment(t, p, q)) = q - p /\ \A i \in 1 .. q - p : Segment(t, p, q)[i] = t[p + i - 1]
    BY SegmentIs
  <1>4. q > p => Segment(t, p, q)[1] = At(t, p)
    BY <1>1, <1>3 DEF At
  <1>5. ASSUME q > p PROVE Len(x.text) = 1 \/ x.text[1] # "0" <=> q = p + 1 \/ At(t, p) # "0"
    BY <1>1, <1>2, <1>3, <1>4, <1>5
  <1>6. x \in SomeNumber <=> q > p /\ DigitsAt(t, p, q) /\ v = ValueOf(t, p, q)
    <2>1. ASSUME q > p, DigitsAt(t, p, q), v = ValueOf(t, p, q) PROVE x \in SomeNumber
      <3>1. p \in 1 .. Len(t) /\ q \in p + 1 .. Len(t) + 1
        BY <1>1, <2>1
      <3>2. QED
        BY <2>1, <3>1, DigitsGenerated
    <2>2. QED
      BY <2>1, DigitsRead
  <1> HIDE DEF x
  <1>7. QED
    BY <1>5, <1>6 DEF Whole, WholeAt, x

\* Where the digits of an integer begin.
BeginOf(t, p) == IF At(t, p) = "-" THEN p + 1 ELSE p

\* The value of an integer with its sign.
IntegerAt(t, p, q) ==
  IF BeginOf(t, p) > p THEN -ValueOf(t, BeginOf(t, p), q) ELSE ValueOf(t, BeginOf(t, p), q)

\* An integer at a position.
IntegralAt(t, p, q) == BeginOf(t, p) <= q /\ WholeAt(t, BeginOf(t, p), q)

LEMMA BeginOfIs ==
  ASSUME NEW t \in Seq(Symbols), NEW p \in 1 .. Len(t) + 1
  PROVE  /\ BeginOf(t, p) \in p .. Len(t) + 1
         /\ BeginOf(t, p) \in {p, p + 1}
         /\ BeginOf(t, p) = p + 1 <=> At(t, p) = "-"
  BY DEF BeginOf, At

LEMMA WholeTyped ==
  /\ Whole \subseteq SomeNumber
  /\ \A x \in SomeNumber : /\ x \in Numerals(MaxNumber)
                           /\ x = Means(x.text, x.value)
                           /\ x.text \in Seq(Symbols) /\ x.value \in Nat
                           /\ Len(x.text) \in 1 .. MaxNumber
  <1>1. Whole \subseteq SomeNumber
    BY DEF Whole
  <1>2. SUFFICES ASSUME NEW x \in SomeNumber
                 PROVE  /\ x \in Numerals(MaxNumber)
                        /\ x = Means(x.text, x.value)
                        /\ x.text \in Seq(Symbols) /\ x.value \in Nat
                        /\ Len(x.text) \in 1 .. MaxNumber
    BY <1>1
  <1>3. x \in Numerals(MaxNumber)
    <2>1. MaxNumber \in 1 .. MaxNumber
      BY GrammarAssumption
    <2>2. QED
      BY <2>1, DigitsTyped DEF SomeNumber
  <1>4. x.text \in Seq(Digits) /\ x.value \in Nat /\ Len(x.text) \in 1 .. MaxNumber
    BY <1>3 DEF Numerals
  <1>5. x = Means(x.text, x.value)
    BY <1>3 DEF Numerals, Means
  <1>6. x.text \in Seq(Symbols)
    <2>1. Digits \subseteq Symbols
      BY SymbolsAre
    <2>2. QED
      BY <1>4, <2>1, SeqMonotonic
  <1>7. QED
    BY <1>3, <1>4, <1>5, <1>6

LEMMA NegativeIs ==
  ASSUME NEW x
  PROVE  x \in Integral <=>
           \/ x \in Whole
           \/ \E y \in Whole : Len(y.text) < MaxNumber /\ x = Means(Cat(<<"-">>, y.text), -y.value)
  BY DEF Integral, Cat

LEMMA SignsAre == "-" \in Symbols /\ "+" \in Symbols /\ "." \in Symbols /\ "e" \in Symbols
  BY SymbolsAre DEF Alphabet

\* The integers of the grammar are those segments, with their values.
LEMMA IntegralIs ==
  ASSUME NEW t \in Seq(Symbols), NEW p \in 1 .. Len(t) + 1, NEW q \in p .. Len(t) + 1,
         q - p <= MaxNumber, NEW v
  PROVE  Means(Segment(t, p, q), v) \in Integral <=> IntegralAt(t, p, q) /\ v = IntegerAt(t, p, q)
  <1> DEFINE x == Means(Segment(t, p, q), v)
  <1>1. Len(t) \in Nat /\ p \in Nat /\ q \in Nat /\ MaxNumber \in Nat
    BY GrammarAssumption
  <1>2. x \in Whole <=> At(t, p) # "-" /\ IntegralAt(t, p, q) /\ v = IntegerAt(t, p, q)
    <2>1. x \in Whole <=> WholeAt(t, p, q) /\ v = ValueOf(t, p, q)
      BY WholeIs
    <2>2. WholeAt(t, p, q) => At(t, p) \in Digits
      BY <1>1 DEF WholeAt, DigitsAt
    <2>3. At(t, p) \in Digits => At(t, p) # "-"
      BY DEF Digits
    <2>4. At(t, p) # "-" => BeginOf(t, p) = p
      BY DEF BeginOf
    <2>5. ASSUME BeginOf(t, p) = p
          PROVE  /\ IntegralAt(t, p, q) <=> WholeAt(t, p, q)
                 /\ IntegerAt(t, p, q) = ValueOf(t, p, q)
      BY <1>1, <2>5 DEF IntegralAt, IntegerAt
    <2> HIDE DEF x
    <2>6. QED
      BY <2>1, <2>2, <2>3, <2>4, <2>5
  <1>3. ASSUME NEW y \in Whole, x = Means(Cat(<<"-">>, y.text), -y.value)
        PROVE  At(t, p) = "-" /\ IntegralAt(t, p, q) /\ v = IntegerAt(t, p, q)
    <2>1. Segment(t, p, q) = Cat(<<"-">>, y.text) /\ v = -y.value
      BY <1>3 DEF Means
    <2>2. y.text \in Seq(Symbols) /\ "-" \in Symbols /\ y.value \in Nat /\ y = Means(y.text, y.value)
      BY WholeTyped, SignsAre
    <2>3. p \in 1 .. Len(t) /\ p + 1 <= q /\ At(t, p) = "-" /\ y.text = Segment(t, p + 1, q)
      BY <2>1, <2>2, FirstSplit
    <2>4. p + 1 \in 1 .. Len(t) + 1 /\ q \in p + 1 .. Len(t) + 1 /\ q - (p + 1) <= MaxNumber
      BY <1>1, <2>3
    <2>5. Means(Segment(t, p + 1, q), y.value) \in Whole
      BY <2>2, <2>3
    <2>6. WholeAt(t, p + 1, q) /\ y.value = ValueOf(t, p + 1, q)
      BY <2>4, <2>5, WholeIs
    <2>7. BeginOf(t, p) = p + 1
      BY <2>3 DEF BeginOf
    <2>8. IntegerAt(t, p, q) = -ValueOf(t, p + 1, q)
      BY <1>1, <2>7 DEF IntegerAt
    <2>9. QED
      BY <2>1, <2>3, <2>6, <2>7, <2>8 DEF IntegralAt
  <1>4. ASSUME At(t, p) = "-", IntegralAt(t, p, q), v = IntegerAt(t, p, q) PROVE x \in Integral
    <2>1. BeginOf(t, p) = p + 1 /\ p \in 1 .. Len(t)
      BY <1>1, <1>4 DEF BeginOf, At
    <2>2. p + 1 \in 1 .. Len(t) + 1 /\ q \in p + 1 .. Len(t) + 1 /\ q - (p + 1) < MaxNumber
          /\ WholeAt(t, p + 1, q) /\ q - (p + 1) <= MaxNumber
      BY <1>1, <1>4, <2>1 DEF IntegralAt
    <2> DEFINE y == Means(Segment(t, p + 1, q), ValueOf(t, p + 1, q))
    <2>3. y \in Whole
      BY <2>2, WholeIs
    <2>4. y.text = Segment(t, p + 1, q) /\ y.value = ValueOf(t, p + 1, q)
      BY DEF Means
    <2>5. Len(y.text) < MaxNumber
      BY <2>2, <2>4, SegmentIs
    <2>6. Segment(t, p, q) = Cat(<<"-">>, y.text)
      BY <1>4, <2>1, <2>2, <2>4, FirstJoin
    <2>7. v = -y.value
      BY <1>1, <1>4, <2>1, <2>4 DEF IntegerAt
    <2>8. x = Means(Cat(<<"-">>, y.text), -y.value)
      BY <2>6, <2>7
    <2> HIDE DEF x, y
    <2>9. QED
      BY <2>3, <2>5, <2>8, NegativeIs
  <1> HIDE DEF x
  <1>5. QED
    BY <1>2, <1>3, <1>4, NegativeIs DEF x

\* Two segments are together as long as the one from end to end.
LEMMA TogetherIs ==
  ASSUME NEW t \in Seq(Symbols), NEW p \in 1 .. Len(t) + 1, NEW r \in p .. Len(t) + 1,
         NEW q \in r .. Len(t) + 1, NEW n, NEW a, NEW b,
         a.text = Segment(t, p, r), b.text = Segment(t, r, q)
  PROVE  Together(a, b, n) <=> q - p <= n
  <1>1. r \in 1 .. Len(t) + 1 /\ q \in p .. Len(t) + 1
    BY Len(t) \in Nat
  <1>2. Len(Segment(t, p, r)) = r - p /\ Len(Segment(t, r, q)) = q - r
    BY <1>1, SegmentIs
  <1>3. Len(a.text) + Len(b.text) = q - p
    BY <1>2
  <1>4. QED
    BY <1>3 DEF Together

LEMMA IntegralTyped ==
  ASSUME NEW x \in Integral
  PROVE  x = Means(x.text, x.value) /\ x.text \in Seq(Symbols) /\ x.value \in Int
  <1>1. CASE x \in Whole
    BY <1>1, WholeTyped
  <1>2. ASSUME NEW y \in Whole, x = Means(Cat(<<"-">>, y.text), -y.value)
        PROVE  x = Means(x.text, x.value) /\ x.text \in Seq(Symbols) /\ x.value \in Int
    <2>1. y.text \in Seq(Symbols) /\ y.value \in Nat /\ <<"-">> \in Seq(Symbols)
      BY WholeTyped, SignsAre
    <2>2. Cat(<<"-">>, y.text) \in Seq(Symbols)
      BY <2>1, CatIs
    <2>3. x.text = Cat(<<"-">>, y.text) /\ x.value = -y.value
      BY <1>2 DEF Means
    <2>4. QED
      BY <1>2, <2>1, <2>2, <2>3
  <1>3. QED
    BY <1>1, <1>2, NegativeIs

LEMMA FractionalIsJoined ==
  ASSUME NEW x
  PROVE  x \in Fractional <=>
           \E a \in Integral, b \in Fractions :
             /\ Together(a, b, MaxNumber)
             /\ x = Means(Cat(a.text, b.text), Nonzero(a.value, b.value))
  <1> DEFINE Row(a) == {Means(Cat(a.text, b.text), Nonzero(a.value, b.value)) :
                          b \in {z \in Fractions : Together(a, z, MaxNumber)}}
  <1>1. Fractional = UNION {Row(a) : a \in Integral}
    BY DEF Fractional, Joined, Cat
  <1>2. \A a : x \in Row(a) <=>
               \E b \in Fractions : Together(a, b, MaxNumber)
                                  /\ x = Means(Cat(a.text, b.text), Nonzero(a.value, b.value))
    OBVIOUS
  <1> HIDE DEF Row
  <1>3. QED
    BY <1>1, <1>2

\* A fraction, from its point on.
FractionAt(t, r, q) == r + 1 < q /\ At(t, r) = "." /\ DigitsAt(t, r + 1, q)

\* The fractions of the grammar are those segments.
LEMMA FractionIs ==
  ASSUME NEW t \in Seq(Symbols), NEW r \in 1 .. Len(t) + 1, NEW q \in r .. Len(t) + 1,
         q - r <= MaxNumber, NEW v
  PROVE  Means(Segment(t, r, q), v) \in Fractions <=> FractionAt(t, r, q) /\ v = ValueOf(t, r + 1, q)
  <1> DEFINE x == Means(Segment(t, r, q), v)
  <1>1. Len(t) \in Nat /\ r \in Nat /\ q \in Nat /\ MaxNumber \in Nat
    BY GrammarAssumption
  <1>2. x \in Fractions <=> \E y \in SomeNumber : x = Means(Cat(<<".">>, y.text), y.value)
    BY DEF Fractions, Cat
  <1>3. ASSUME NEW y \in SomeNumber, x = Means(Cat(<<".">>, y.text), y.value)
        PROVE  FractionAt(t, r, q) /\ v = ValueOf(t, r + 1, q)
    <2>1. Segment(t, r, q) = Cat(<<".">>, y.text) /\ v = y.value
      BY <1>3 DEF Means
    <2>2. y.text \in Seq(Symbols) /\ "." \in Symbols /\ y = Means(y.text, y.value)
      BY WholeTyped, SignsAre
    <2>3. r \in 1 .. Len(t) /\ r + 1 <= q /\ At(t, r) = "." /\ y.text = Segment(t, r + 1, q)
      BY <2>1, <2>2, FirstSplit
    <2>4. r + 1 \in 1 .. Len(t) + 1 /\ q \in r + 1 .. Len(t) + 1
      BY <1>1, <2>3
    <2>5. Means(Segment(t, r + 1, q), y.value) \in SomeNumber
      BY <2>2, <2>3
    <2>6. q > r + 1 /\ DigitsAt(t, r + 1, q) /\ y.value = ValueOf(t, r + 1, q)
      BY <2>4, <2>5, DigitsRead
    <2>7. QED
      BY <1>1, <2>1, <2>3, <2>6 DEF FractionAt
  <1>4. ASSUME FractionAt(t, r, q), v = ValueOf(t, r + 1, q) PROVE x \in Fractions
    <2>1. /\ r + 1 \in 1 .. Len(t) /\ q \in (r + 1) + 1 .. Len(t) + 1 /\ q - (r + 1) <= MaxNumber
          /\ r \in 1 .. Len(t) /\ q \in r + 1 .. Len(t) + 1
          /\ At(t, r) = "." /\ DigitsAt(t, r + 1, q)
      BY <1>1, <1>4 DEF FractionAt
    <2> DEFINE y == Means(Segment(t, r + 1, q), ValueOf(t, r + 1, q))
    <2>2. y \in SomeNumber
      BY <2>1, DigitsGenerated
    <2>3. y.text = Segment(t, r + 1, q) /\ y.value = ValueOf(t, r + 1, q)
      BY DEF Means
    <2>4. Segment(t, r, q) = Cat(<<".">>, y.text)
      BY <2>1, <2>3, FirstJoin
    <2>5. x = Means(Cat(<<".">>, y.text), y.value)
      BY <1>4, <2>3, <2>4
    <2> HIDE DEF x, y
    <2>6. QED
      BY <1>2, <2>2, <2>5
  <1> HIDE DEF x
  <1>5. QED
    BY <1>2, <1>3, <1>4 DEF x

\* A number with a fraction, and where its point is.
FractionalAt(t, p, r, q) == IntegralAt(t, p, r) /\ FractionAt(t, r, q)

\* So are the numbers with a fraction.
LEMMA FractionalIs ==
  ASSUME NEW t \in Seq(Symbols), NEW p \in 1 .. Len(t) + 1, NEW q \in p .. Len(t) + 1,
         q - p <= MaxNumber, NEW v
  PROVE  Means(Segment(t, p, q), v) \in Fractional <=>
           \E r \in p .. q : /\ FractionalAt(t, p, r, q)
                             /\ v = Nonzero(IntegerAt(t, p, r), ValueOf(t, r + 1, q))
  <1> DEFINE x == Means(Segment(t, p, q), v)
  <1>1. Len(t) \in Nat /\ p \in Nat /\ q \in Nat /\ MaxNumber \in Nat
    BY GrammarAssumption
  <1>2. ASSUME NEW r \in p .. q
        PROVE  /\ r \in 1 .. Len(t) + 1 /\ r \in p .. Len(t) + 1 /\ q \in r .. Len(t) + 1
               /\ r - p <= MaxNumber /\ q - r <= MaxNumber
    BY <1>1
  <1>3. ASSUME NEW a \in Integral, NEW b \in Fractions,
               x = Means(Cat(a.text, b.text), Nonzero(a.value, b.value))
        PROVE  \E r \in p .. q : /\ FractionalAt(t, p, r, q)
                                 /\ v = Nonzero(IntegerAt(t, p, r), ValueOf(t, r + 1, q))
    <2>1. Segment(t, p, q) = Cat(a.text, b.text) /\ v = Nonzero(a.value, b.value)
      BY <1>3 DEF Means
    <2>2. a = Means(a.text, a.value) /\ a.text \in Seq(Symbols)
      BY IntegralTyped
    <2>3. b = Means(b.text, b.value) /\ b.text \in Seq(Symbols)
      <3>1. PICK y \in SomeNumber : b = Means(Cat(<<".">>, y.text), y.value)
        BY DEF Fractions, Cat
      <3>2. Cat(<<".">>, y.text) \in Seq(Symbols)
        <4>1. y.text \in Seq(Symbols) /\ <<".">> \in Seq(Symbols)
          BY WholeTyped, SignsAre
        <4>2. QED
          BY <4>1, CatIs
      <3>3. b.text = Cat(<<".">>, y.text) /\ b.value = y.value
        BY <3>1 DEF Means
      <3>4. QED
        BY <3>1, <3>2, <3>3
    <2>4. PICK r \in p .. q : a.text = Segment(t, p, r) /\ b.text = Segment(t, r, q)
      BY <2>1, <2>2, <2>3, SegmentsSplit
    <2>5. Means(Segment(t, p, r), a.value) \in Integral /\ Means(Segment(t, r, q), b.value) \in Fractions
      BY <2>2, <2>3, <2>4
    <2>6. IntegralAt(t, p, r) /\ a.value = IntegerAt(t, p, r)
      BY <1>2, <2>5, IntegralIs
    <2>7. FractionAt(t, r, q) /\ b.value = ValueOf(t, r + 1, q)
      BY <1>2, <2>5, FractionIs
    <2>8. QED
      BY <2>1, <2>6, <2>7 DEF FractionalAt
  <1>4. ASSUME NEW r \in p .. q, FractionalAt(t, p, r, q),
               v = Nonzero(IntegerAt(t, p, r), ValueOf(t, r + 1, q))
        PROVE  x \in Fractional
    <2> DEFINE a == Means(Segment(t, p, r), IntegerAt(t, p, r))
               b == Means(Segment(t, r, q), ValueOf(t, r + 1, q))
    <2>1. a \in Integral
      BY <1>2, <1>4, IntegralIs DEF FractionalAt
    <2>2. b \in Fractions
      BY <1>2, <1>4, FractionIs DEF FractionalAt
    <2>3. /\ a.text = Segment(t, p, r) /\ a.value = IntegerAt(t, p, r)
          /\ b.text = Segment(t, r, q) /\ b.value = ValueOf(t, r + 1, q)
      BY DEF Means
    <2>4. Segment(t, p, q) = Cat(a.text, b.text)
      BY <1>2, <2>3, SegmentsJoin
    <2>5. x = Means(Cat(a.text, b.text), Nonzero(a.value, b.value))
      BY <1>4, <2>3, <2>4
    <2> HIDE DEF a, b
    <2>6. Together(a, b, MaxNumber)
      BY <1>2, <2>3, TogetherIs
    <2> HIDE DEF x
    <2>7. QED
      BY <2>1, <2>2, <2>5, <2>6, FractionalIsJoined
  <1> HIDE DEF x
  <1>5. QED
    BY <1>3, <1>4, FractionalIsJoined DEF x

\* An exponent, from its letter on.
SignAt(t, e) == IF At(t, e + 1) \in {"+", "-"} THEN <<At(t, e + 1)>> ELSE <<>>

\* A letter, perhaps a sign, and digits.
ExponentAt(t, e, q) ==
  /\ At(t, e) = "e"
  /\ ExponentDigits(t, e) < q
  /\ DigitsAt(t, ExponentDigits(t, e), q)

LEMMA ExponentSplits ==
  ASSUME NEW x
  PROVE  x \in Exponents <=>
           \E sign \in Signs, y \in SomeNumber :
             x = Means(Cat(Cat(<<"e">>, sign), y.text), Moderate(sign, y.value))
  BY DEF Exponents, Cat

LEMMA SignsTyped ==
  ASSUME NEW sign \in Signs
  PROVE  /\ sign \in Seq(Symbols)
         /\ Len(sign) \in {0, 1}
         /\ Len(sign) = 0 => sign = <<>>
         /\ Len(sign) = 1 => sign = <<"+">> \/ sign = <<"-">>
  <1>1. CASE sign = <<>>
    <2>1. <<>> \in Seq(Symbols) /\ Len(<<>>) = 0
      OBVIOUS
    <2>2. QED
      BY <1>1, <2>1
  <1>2. ASSUME NEW c \in {"+", "-"}, sign = <<c>>
        PROVE  sign \in Seq(Symbols) /\ Len(sign) = 1
    <2>1. c \in Symbols
      BY SignsAre
    <2>2. <<c>> \in Seq(Symbols) /\ Len(<<c>>) = 1
      BY <2>1
    <2>3. QED
      BY <1>2, <2>2
  <1>3. sign = <<>> \/ sign = <<"+">> \/ sign = <<"-">>
    BY DEF Signs
  <1>4. QED
    BY <1>1, <1>2, <1>3

\* The sign of an exponent is what comes before its digits.
LEMMA SignAtIs ==
  ASSUME NEW t \in Seq(Symbols), NEW e \in 1 .. Len(t), NEW d \in e + 1 .. Len(t) + 1
  PROVE  /\ d = ExponentDigits(t, e) =>
              Segment(t, e + 1, d) = SignAt(t, e) /\ SignAt(t, e) \in Signs
         /\ \A sign \in Signs :
              Segment(t, e + 1, d) = sign /\ (d <= Len(t) => At(t, d) \in Digits) =>
                d = ExponentDigits(t, e) /\ sign = SignAt(t, e)
  <1>1. Len(t) \in Nat /\ e \in Nat /\ e + 1 \in 1 .. Len(t) + 1 /\ e + 1 \in e + 1 .. Len(t) + 1
        /\ d \in Nat /\ d \in e + 1 .. Len(t) + 1
    OBVIOUS
  <1>2. Len(Segment(t, e + 1, d)) = d - (e + 1)
    BY <1>1, SegmentIs
  <1>3. \A sign \in Signs : Len(sign) \in {0, 1} /\ (Len(sign) = 0 => sign = <<>>)
                            /\ (Len(sign) = 1 => sign = <<"+">> \/ sign = <<"-">>)
    BY SignsTyped
  <1>4. CASE d = e + 1
    <2>1. Segment(t, e + 1, d) = <<>>
      BY <1>1, <1>4, SubSeqEmpty DEF Segment
    <2>2. (d <= Len(t) => At(t, d) \in Digits) => At(t, e + 1) \notin {"+", "-"}
      BY <1>1, <1>4 DEF At, Digits
    <2>3. d = ExponentDigits(t, e) <=> At(t, e + 1) \notin {"+", "-"}
      BY <1>1, <1>4 DEF ExponentDigits
    <2>4. At(t, e + 1) \notin {"+", "-"} => SignAt(t, e) = <<>>
      BY DEF SignAt
    <2>5. <<>> \in Signs
      BY DEF Signs
    <2>6. QED
      BY <2>1, <2>2, <2>3, <2>4, <2>5
  <1>5. CASE d = e + 2
    <2>1. e + 1 \in 1 .. Len(t) /\ e + 1 \in e + 1 .. Len(t) /\ (e + 1) + 1 = e + 2
      BY <1>1, <1>5
    <2>2. Segment(t, e + 1, d) = <<At(t, e + 1)>>
      BY <1>5, <2>1, OneMore
    <2>3. d = ExponentDigits(t, e) <=> At(t, e + 1) \in {"+", "-"}
      BY <1>1, <1>5 DEF ExponentDigits
    <2>4. At(t, e + 1) \in {"+", "-"} => SignAt(t, e) = <<At(t, e + 1)>> /\ SignAt(t, e) \in Signs
      BY DEF SignAt, Signs
    <2>5. ASSUME NEW sign \in Signs, Segment(t, e + 1, d) = sign PROVE At(t, e + 1) \in {"+", "-"}
      <3>1. <<At(t, e + 1)>> = sign
        BY <2>2, <2>5
      <3>2. sign = <<>> \/ sign = <<"+">> \/ sign = <<"-">>
        BY DEF Signs
      <3>3. QED
        BY <3>1, <3>2
    <2>6. QED
      BY <2>2, <2>3, <2>4, <2>5
  <1>6. CASE d > e + 2
    <2>1. d # ExponentDigits(t, e)
      BY <1>1, <1>6 DEF ExponentDigits
    <2>2. Len(Segment(t, e + 1, d)) \notin {0, 1}
      <3>1. d - (e + 1) \notin {0, 1}
        BY <1>1, <1>6
      <3>2. QED
        BY <1>2, <3>1
    <2>3. QED
      BY <1>3, <2>1, <2>2
  <1>7. QED
    BY <1>1, <1>4, <1>5, <1>6

\* The exponents of the grammar are those segments, moderate or not.
LEMMA ExponentIs ==
  ASSUME NEW t \in Seq(Symbols), NEW e \in 1 .. Len(t) + 1, NEW q \in e .. Len(t) + 1,
         q - e <= MaxNumber, NEW v
  PROVE  Means(Segment(t, e, q), v) \in Exponents <=>
           /\ ExponentAt(t, e, q)
           /\ v = Moderate(SignAt(t, e), ValueOf(t, ExponentDigits(t, e), q))
  <1> DEFINE x == Means(Segment(t, e, q), v)
             d == ExponentDigits(t, e)
  <1>1. Len(t) \in Nat /\ e \in Nat /\ q \in Nat /\ MaxNumber \in Nat
    BY GrammarAssumption
  <1>2. ASSUME NEW sign \in Signs, NEW y \in SomeNumber,
               x = Means(Cat(Cat(<<"e">>, sign), y.text), Moderate(sign, y.value))
        PROVE  ExponentAt(t, e, q) /\ v = Moderate(SignAt(t, e), ValueOf(t, d, q))
    <2> HIDE DEF d
    <2>1. Segment(t, e, q) = Cat(Cat(<<"e">>, sign), y.text) /\ v = Moderate(sign, y.value)
      BY <1>2 DEF Means
    <2>2. sign \in Seq(Symbols) /\ <<"e">> \in Seq(Symbols) /\ "e" \in Symbols
      BY SignsAre, SignsTyped
    <2>3. Cat(<<"e">>, sign) \in Seq(Symbols) /\ y.text \in Seq(Symbols) /\ y = Means(y.text, y.value)
      BY <2>2, CatIs, WholeTyped
    <2>4. PICK m \in e .. q : Cat(<<"e">>, sign) = Segment(t, e, m) /\ y.text = Segment(t, m, q)
      <3>1. PICK w \in Seq(Symbols) : w = Cat(<<"e">>, sign)
        BY <2>3
      <3>2. Segment(t, e, q) = Cat(w, y.text)
        BY <2>1, <3>1
      <3>3. \E m \in e .. q : w = Segment(t, e, m) /\ y.text = Segment(t, m, q)
        <4> HIDE <3>1
        <4> QED BY <2>3, <3>2, SegmentsSplit
      <3>4. QED
        BY <3>1, <3>3
    <2>5. m \in 1 .. Len(t) + 1 /\ m \in e .. Len(t) + 1 /\ q \in m .. Len(t) + 1
      BY <1>1
    <2>6. e \in 1 .. Len(t) /\ e + 1 <= m /\ At(t, e) = "e" /\ sign = Segment(t, e + 1, m)
      BY <2>2, <2>4, <2>5, FirstSplit
    <2>7. Means(Segment(t, m, q), y.value) \in SomeNumber
      BY <2>3, <2>4
    <2>8. q > m /\ DigitsAt(t, m, q) /\ y.value = ValueOf(t, m, q)
      BY <2>5, <2>7, DigitsRead
    <2>9. At(t, m) \in Digits /\ m \in e + 1 .. Len(t) + 1
      BY <1>1, <2>5, <2>6, <2>8 DEF DigitsAt
    <2>10. m = d /\ sign = SignAt(t, e)
      BY <2>6, <2>9, SignAtIs DEF d
    <2>11. QED
      BY <2>1, <2>6, <2>8, <2>10 DEF ExponentAt, d
  <1>3. ASSUME ExponentAt(t, e, q), v = Moderate(SignAt(t, e), ValueOf(t, d, q))
        PROVE  x \in Exponents
    <2>1. At(t, e) = "e" /\ d < q /\ DigitsAt(t, d, q) /\ d \in e + 1 .. e + 2
      BY <1>1, <1>3 DEF ExponentAt, ExponentDigits
    <2>2. /\ e \in 1 .. Len(t) /\ d \in e + 1 .. Len(t) + 1 /\ d \in 1 .. Len(t)
          /\ q \in d + 1 .. Len(t) + 1
          /\ q - d <= MaxNumber /\ d \in 1 .. Len(t) + 1 /\ q \in d .. Len(t) + 1 /\ d \in e .. Len(t) + 1
      BY <1>1, <2>1
    <2> DEFINE y == Means(Segment(t, d, q), ValueOf(t, d, q))
    <2>3. y \in SomeNumber
      BY <2>1, <2>2, DigitsGenerated
    <2>4. y.text = Segment(t, d, q) /\ y.value = ValueOf(t, d, q)
      BY DEF Means
    <2>5. Segment(t, e + 1, d) = SignAt(t, e) /\ SignAt(t, e) \in Signs
      BY <2>2, SignAtIs
    <2>6. Segment(t, e, d) = Cat(<<"e">>, SignAt(t, e))
      BY <2>1, <2>2, <2>5, FirstJoin
    <2>7. Segment(t, e, q) = Cat(Cat(<<"e">>, SignAt(t, e)), y.text)
      BY <2>2, <2>4, <2>6, SegmentsJoin
    <2>8. x = Means(Cat(Cat(<<"e">>, SignAt(t, e)), y.text), Moderate(SignAt(t, e), y.value))
      BY <1>3, <2>4, <2>7
    <2> HIDE DEF x, y, d
    <2>9. QED
      BY <2>3, <2>5, <2>8, ExponentSplits
  <1> HIDE DEF x
  <1>4. QED
    BY <1>2, <1>3, ExponentSplits DEF x

LEMMA MantissasAre ==
  ASSUME NEW x
  PROVE  x \in Mantissas <=>
           x \in Fractional \/ \E y \in Integral : x = Means(y.text, Nonzero(y.value, 0))
  BY DEF Mantissas

\* What comes before an exponent, and whether it is zero.
LEMMA MantissaIs ==
  ASSUME NEW t \in Seq(Symbols), NEW p \in 1 .. Len(t) + 1, NEW q \in p .. Len(t) + 1,
         q - p <= MaxNumber, NEW v
  PROVE  Means(Segment(t, p, q), v) \in Mantissas <=>
           \/ IntegralAt(t, p, q) /\ v = Nonzero(IntegerAt(t, p, q), 0)
           \/ \E r \in p .. q : /\ FractionalAt(t, p, r, q)
                                /\ v = Nonzero(IntegerAt(t, p, r), ValueOf(t, r + 1, q))
  <1> DEFINE x == Means(Segment(t, p, q), v)
  <1>1. ASSUME NEW y \in Integral, x = Means(y.text, Nonzero(y.value, 0))
        PROVE  IntegralAt(t, p, q) /\ v = Nonzero(IntegerAt(t, p, q), 0)
    <2>1. y = Means(Segment(t, p, q), y.value) /\ v = Nonzero(y.value, 0)
      BY <1>1, IntegralTyped DEF Means
    <2>2. IntegralAt(t, p, q) /\ y.value = IntegerAt(t, p, q)
      BY <2>1, IntegralIs
    <2>3. QED
      BY <2>1, <2>2
  <1>2. ASSUME IntegralAt(t, p, q), v = Nonzero(IntegerAt(t, p, q), 0)
        PROVE  \E y \in Integral : x = Means(y.text, Nonzero(y.value, 0))
    <2> DEFINE y == Means(Segment(t, p, q), IntegerAt(t, p, q))
    <2>1. y \in Integral
      BY <1>2, IntegralIs
    <2>2. y.text = Segment(t, p, q) /\ y.value = IntegerAt(t, p, q)
      BY DEF Means
    <2>3. x = Means(y.text, Nonzero(y.value, 0))
      BY <1>2, <2>2
    <2> HIDE DEF x, y
    <2>4. QED
      BY <2>1, <2>3
  <1>3. x \in Fractional <=>
          \E r \in p .. q : /\ FractionalAt(t, p, r, q)
                            /\ v = Nonzero(IntegerAt(t, p, r), ValueOf(t, r + 1, q))
    BY FractionalIs
  <1> HIDE DEF x
  <1>4. QED
    BY <1>1, <1>2, <1>3, MantissasAre DEF x

\* A number with or without a fraction.
MantissaAt(t, p, q) == IntegralAt(t, p, q) \/ \E r \in p .. q : FractionalAt(t, p, r, q)

\* A mantissa is zero when it has no digit but zero.
LEMMA NonzeroIs ==
  ASSUME NEW t \in Seq(Symbols), NEW p \in 1 .. Len(t) + 1, NEW q \in p .. Len(t) + 1
  PROVE  /\ IntegralAt(t, p, q) =>
              IntegerAt(t, p, q) \in Int /\ (Nonzero(IntegerAt(t, p, q), 0) <=> ~NoOnes(t, p, q))
         /\ \A r \in p .. q :
              FractionalAt(t, p, r, q) =>
                (Nonzero(IntegerAt(t, p, r), ValueOf(t, r + 1, q)) <=> ~NoOnes(t, p, q))
  <1>1. Len(t) \in Nat /\ p \in Nat
    OBVIOUS
  <1>2. ASSUME NEW r \in p .. Len(t) + 1, IntegralAt(t, p, r)
        PROVE  /\ IntegerAt(t, p, r) \in Int
               /\ IntegerAt(t, p, r) = 0 <=> NoOnes(t, p, r)
    <2> DEFINE b == BeginOf(t, p)
    <2>1. b \in 1 .. Len(t) + 1 /\ r \in b .. Len(t) + 1 /\ b \in {p, p + 1}
          /\ (b = p + 1 <=> At(t, p) = "-")
      BY <1>1, <1>2, BeginOfIs DEF IntegralAt
    <2>2. DigitsAt(t, b, r)
      BY <1>2 DEF IntegralAt, WholeAt
    <2>3. ValueOf(t, b, r) \in Nat /\ (ValueOf(t, b, r) = 0 <=> NoOnes(t, b, r))
      BY <2>1, <2>2, ValueOfNat
    <2>4. NoOnes(t, b, r) <=> NoOnes(t, p, r)
      BY <1>1, <2>1 DEF NoOnes
    <2>5. IntegerAt(t, p, r) = ValueOf(t, b, r) \/ IntegerAt(t, p, r) = -ValueOf(t, b, r)
      BY DEF IntegerAt
    <2> HIDE DEF b
    <2>6. QED
      BY <2>3, <2>4, <2>5
  <1>3. IntegralAt(t, p, q) =>
          IntegerAt(t, p, q) \in Int /\ (Nonzero(IntegerAt(t, p, q), 0) <=> ~NoOnes(t, p, q))
    BY <1>2 DEF Nonzero
  <1>4. ASSUME NEW r \in p .. q, FractionalAt(t, p, r, q)
        PROVE  Nonzero(IntegerAt(t, p, r), ValueOf(t, r + 1, q)) <=> ~NoOnes(t, p, q)
    <2>1. /\ IntegralAt(t, p, r) /\ r + 1 < q /\ At(t, r) = "." /\ DigitsAt(t, r + 1, q)
          /\ r \in p .. Len(t) + 1 /\ r + 1 \in 1 .. Len(t) + 1 /\ q \in r + 1 .. Len(t) + 1
      BY <1>1, <1>4 DEF FractionalAt, FractionAt
    <2>2. IntegerAt(t, p, r) = 0 <=> NoOnes(t, p, r)
      BY <1>2, <2>1
    <2>3. ValueOf(t, r + 1, q) = 0 <=> NoOnes(t, r + 1, q)
      BY <2>1, ValueOfNat
    <2>4. NoOnes(t, p, q) <=> NoOnes(t, p, r) /\ NoOnes(t, r + 1, q)
      <3>1. \A i \in p .. q - 1 : i \in p .. r - 1 \/ i = r \/ i \in r + 1 .. q - 1
        BY <1>1
      <3>2. \A i : i \in p .. r - 1 \/ i \in r + 1 .. q - 1 => i \in p .. q - 1
        BY <1>1, <2>1
      <3>3. QED
        BY <2>1, <3>1, <3>2 DEF NoOnes
    <2>5. QED
      BY <2>2, <2>3, <2>4 DEF Nonzero
  <1>5. QED
    BY <1>3, <1>4

LEMMA ScientificIsJoined ==
  ASSUME NEW x
  PROVE  x \in Scientific <=>
           \E a \in Mantissas, b \in Exponents :
             /\ Together(a, b, MaxNumber)
             /\ x = Means(Cat(a.text, b.text), Finite(a.value, b.value))
  <1> DEFINE Row(a) == {Means(Cat(a.text, b.text), Finite(a.value, b.value)) :
                          b \in {z \in Exponents : Together(a, z, MaxNumber)}}
  <1>1. Scientific = UNION {Row(a) : a \in Mantissas}
    BY DEF Scientific, Joined, Cat
  <1>2. \A a : x \in Row(a) <=>
               \E b \in Exponents : Together(a, b, MaxNumber)
                                  /\ x = Means(Cat(a.text, b.text), Finite(a.value, b.value))
    OBVIOUS
  <1> HIDE DEF Row
  <1>3. QED
    BY <1>1, <1>2

\* The parts of a number are texts.
LEMMA PartsTyped ==
  /\ \A x \in Mantissas : x = Means(x.text, x.value) /\ x.text \in Seq(Symbols)
  /\ \A x \in Fractional : x = Means(x.text, x.value) /\ x.text \in Seq(Symbols)
  /\ \A x \in Exponents : x = Means(x.text, x.value) /\ x.text \in Seq(Symbols)
  <1>1. ASSUME NEW x \in Fractional PROVE x = Means(x.text, x.value) /\ x.text \in Seq(Symbols)
    <2>1. PICK a \in Integral, b \in Fractions : x = Means(Cat(a.text, b.text), Nonzero(a.value, b.value))
      BY FractionalIsJoined
    <2>2. PICK y \in SomeNumber : b = Means(Cat(<<".">>, y.text), y.value)
      BY DEF Fractions, Cat
    <2>3. a.text \in Seq(Symbols) /\ y.text \in Seq(Symbols) /\ <<".">> \in Seq(Symbols)
      BY IntegralTyped, WholeTyped, SignsAre
    <2>4. b.text = Cat(<<".">>, y.text)
      BY <2>2 DEF Means
    <2>5. b.text \in Seq(Symbols)
      BY <2>3, <2>4, CatIs
    <2>6. Cat(a.text, b.text) \in Seq(Symbols)
      BY <2>3, <2>5, CatIs
    <2>7. QED
      BY <2>1, <2>6 DEF Means
  <1>2. ASSUME NEW x \in Mantissas PROVE x = Means(x.text, x.value) /\ x.text \in Seq(Symbols)
    <2>1. ASSUME NEW y \in Integral, x = Means(y.text, Nonzero(y.value, 0))
          PROVE  x = Means(x.text, x.value) /\ x.text \in Seq(Symbols)
      BY <2>1, IntegralTyped DEF Means
    <2>2. QED
      BY <1>1, <2>1, MantissasAre
  <1>3. ASSUME NEW x \in Exponents PROVE x = Means(x.text, x.value) /\ x.text \in Seq(Symbols)
    <2>1. PICK sign \in Signs, y \in SomeNumber :
            x = Means(Cat(Cat(<<"e">>, sign), y.text), Moderate(sign, y.value))
      BY ExponentSplits
    <2>2. sign \in Seq(Symbols) /\ <<"e">> \in Seq(Symbols) /\ y.text \in Seq(Symbols)
      BY SignsAre, SignsTyped, WholeTyped
    <2>3. Cat(<<"e">>, sign) \in Seq(Symbols)
      BY <2>2, CatIs
    <2>4. Cat(Cat(<<"e">>, sign), y.text) \in Seq(Symbols)
      BY <2>2, <2>3, CatIs
    <2>5. QED
      BY <2>1, <2>4 DEF Means
  <1>4. QED
    BY <1>1, <1>2, <1>3

\* A number with an exponent, finite, and where its exponent is.
ScientificAt(t, p, e, q) ==
  /\ MantissaAt(t, p, e)
  /\ ExponentAt(t, e, q)
  /\ NoOnes(t, p, e) \/ Moderate(SignAt(t, e), ValueOf(t, ExponentDigits(t, e), q))

\* The finite numbers with an exponent are those segments.
LEMMA ScientificIs ==
  ASSUME NEW t \in Seq(Symbols), NEW p \in 1 .. Len(t) + 1, NEW q \in p .. Len(t) + 1,
         q - p <= MaxNumber
  PROVE  (\E x \in Scientific : x.value /\ x.text = Segment(t, p, q)) <=>
           \E e \in p .. q : ScientificAt(t, p, e, q)
  <1>1. Len(t) \in Nat /\ p \in Nat /\ q \in Nat /\ MaxNumber \in Nat
    BY GrammarAssumption
  <1>2. ASSUME NEW e \in p .. q
        PROVE  /\ e \in 1 .. Len(t) + 1 /\ e \in p .. Len(t) + 1 /\ q \in e .. Len(t) + 1
               /\ e - p <= MaxNumber /\ q - e <= MaxNumber
    BY <1>1
  <1>3. ASSUME NEW a \in Mantissas, NEW b \in Exponents,
               Segment(t, p, q) = Cat(a.text, b.text), Finite(a.value, b.value)
        PROVE  \E e \in p .. q : ScientificAt(t, p, e, q)
    <2>1. /\ a = Means(a.text, a.value) /\ a.text \in Seq(Symbols)
          /\ b = Means(b.text, b.value) /\ b.text \in Seq(Symbols)
      BY PartsTyped
    <2>2. PICK e \in p .. q : a.text = Segment(t, p, e) /\ b.text = Segment(t, e, q)
      BY <1>3, <2>1, SegmentsSplit
    <2>3. Means(Segment(t, p, e), a.value) \in Mantissas /\ Means(Segment(t, e, q), b.value) \in Exponents
      BY <2>1, <2>2
    <2>4. ExponentAt(t, e, q) /\ b.value = Moderate(SignAt(t, e), ValueOf(t, ExponentDigits(t, e), q))
      BY <1>2, <2>3, ExponentIs
    <2>5. \/ IntegralAt(t, p, e) /\ a.value = Nonzero(IntegerAt(t, p, e), 0)
          \/ \E r \in p .. e : /\ FractionalAt(t, p, r, e)
                               /\ a.value = Nonzero(IntegerAt(t, p, r), ValueOf(t, r + 1, e))
      BY <1>2, <2>3, MantissaIs
    <2>6. MantissaAt(t, p, e) /\ (a.value \/ NoOnes(t, p, e))
      <3>1. CASE IntegralAt(t, p, e) /\ a.value = Nonzero(IntegerAt(t, p, e), 0)
        BY <1>2, <3>1, NonzeroIs DEF MantissaAt
      <3>2. ASSUME NEW r \in p .. e, FractionalAt(t, p, r, e),
                   a.value = Nonzero(IntegerAt(t, p, r), ValueOf(t, r + 1, e))
            PROVE  MantissaAt(t, p, e) /\ (a.value \/ NoOnes(t, p, e))
        BY <1>2, <3>2, NonzeroIs DEF MantissaAt
      <3>3. QED
        BY <2>5, <3>1, <3>2
    <2>7. a.value => b.value
      BY <1>3 DEF Finite
    <2>8. NoOnes(t, p, e) \/ Moderate(SignAt(t, e), ValueOf(t, ExponentDigits(t, e), q))
      BY <2>4, <2>6, <2>7
    <2>9. QED
      BY <2>4, <2>6, <2>8 DEF ScientificAt
  <1>4. ASSUME NEW e \in p .. q, ScientificAt(t, p, e, q)
        PROVE  \E x \in Scientific : x.value /\ x.text = Segment(t, p, q)
    <2>1. PICK nz : /\ Means(Segment(t, p, e), nz) \in Mantissas
                    /\ nz <=> ~NoOnes(t, p, e)
      <3>1. CASE IntegralAt(t, p, e)
        <4>1. Means(Segment(t, p, e), Nonzero(IntegerAt(t, p, e), 0)) \in Mantissas
          BY <1>2, <3>1, MantissaIs
        <4>2. QED
          BY <1>2, <3>1, <4>1, NonzeroIs
      <3>2. ASSUME NEW r \in p .. e, FractionalAt(t, p, r, e)
            PROVE  \E nz : Means(Segment(t, p, e), nz) \in Mantissas /\ (nz <=> ~NoOnes(t, p, e))
        <4>1. Means(Segment(t, p, e), Nonzero(IntegerAt(t, p, r), ValueOf(t, r + 1, e))) \in Mantissas
          BY <1>2, <3>2, MantissaIs
        <4>2. QED
          BY <1>2, <3>2, <4>1, NonzeroIs
      <3>3. QED
        BY <1>4, <3>1, <3>2 DEF ScientificAt, MantissaAt
    <2> DEFINE moderate == Moderate(SignAt(t, e), ValueOf(t, ExponentDigits(t, e), q))
               a == Means(Segment(t, p, e), nz)
               b == Means(Segment(t, e, q), moderate)
               x == Means(Cat(a.text, b.text), Finite(a.value, b.value))
    <2>2. b \in Exponents
      BY <1>2, <1>4, ExponentIs DEF ScientificAt
    <2>3. /\ a.text = Segment(t, p, e) /\ a.value = nz
          /\ b.text = Segment(t, e, q) /\ b.value = moderate
          /\ x.text = Cat(a.text, b.text) /\ x.value = Finite(a.value, b.value)
      BY DEF Means
    <2>4. Finite(a.value, b.value)
      <3>1. nz => moderate
        BY <1>4, <2>1 DEF ScientificAt
      <3> HIDE DEF moderate
      <3>2. QED
        BY <2>3, <3>1 DEF Finite
    <2>5. Segment(t, p, q) = Cat(a.text, b.text)
      BY <1>2, <2>3, SegmentsJoin
    <2>6. a \in Mantissas
      BY <2>1
    <2> HIDE DEF a, b
    <2>7. Together(a, b, MaxNumber)
      BY <1>2, <2>3, TogetherIs
    <2> HIDE DEF x, moderate
    <2>8. x \in Scientific
      BY <2>2, <2>6, <2>7, ScientificIsJoined DEF x
    <2>9. QED
      BY <2>3, <2>4, <2>5, <2>8
  <1>5. ASSUME NEW x \in Scientific, x.value, x.text = Segment(t, p, q)
        PROVE  \E a \in Mantissas, b \in Exponents :
                 Segment(t, p, q) = Cat(a.text, b.text) /\ Finite(a.value, b.value)
    <2>1. PICK a \in Mantissas, b \in Exponents :
            x = Means(Cat(a.text, b.text), Finite(a.value, b.value))
      BY <1>5, ScientificIsJoined
    <2>2. x.text = Cat(a.text, b.text) /\ x.value = Finite(a.value, b.value)
      BY <2>1 DEF Means
    <2>3. QED
      BY <1>5, <2>2
  <1>6. QED
    BY <1>3, <1>4, <1>5

\* Where the parts of a number end: its integer, fraction and exponent.
PartsAt(t, p, point, e, q) ==
  /\ IntegralAt(t, p, point)
  /\ e = point \/ FractionAt(t, point, e)
  /\ q = e \/ ExponentAt(t, e, q)

\* What a number with these parts is.
Denoted(t, p, point, q) ==
  IF q = point /\ FitsLong(IntegerAt(t, p, point)) THEN <<"int", IntegerAt(t, p, point)>> ELSE <<"double">>

\* A finite number with these parts and this value.
NumberAt(t, p, point, e, q, v) ==
  /\ PartsAt(t, p, point, e, q)
  /\ v = Denoted(t, p, point, q)
  /\ (q = point /\ FitsLong(IntegerAt(t, p, point))) \/ IsFinite(t, p, e, q)

\* The numbers of the grammar, by what they denote.
LEMMA NumbersAre ==
  ASSUME NEW s, NEW v
  PROVE  Means(s, v) \in Numbers <=>
           \/ \E x \in Integral :
                x.text = s /\ v = IF FitsLong(x.value) THEN <<"int", x.value>> ELSE <<"double">>
           \/ v = <<"double">> /\ ((\E x \in Fractional : x.text = s)
                                   \/ \E x \in Scientific : x.value /\ x.text = s)
  <1> DEFINE A == {Means(x.text, IF FitsLong(x.value) THEN <<"int", x.value>> ELSE <<"double">>) :
               x \in Integral}
             B == {Means(x.text, <<"double">>) : x \in Fractional \cup {y \in Scientific : y.value}}
  <1>1. Means(s, v) \in A <=> \E x \in Integral :
          x.text = s /\ v = IF FitsLong(x.value) THEN <<"int", x.value>> ELSE <<"double">>
    BY DEF Means
  <1>2. Means(s, v) \in B <=> v = <<"double">> /\ ((\E x \in Fractional : x.text = s)
                                   \/ \E x \in Scientific : x.value /\ x.text = s)
    BY DEF Means
  <1>3. Numbers = A \cup B
    BY DEF Numbers
  <1> HIDE DEF A, B
  <1>4. QED
    BY <1>1, <1>2, <1>3

\* The parts of a number, seen from the grammar, and when strtod overflows.
LEMMA PartsAtIs ==
  ASSUME NEW t \in Seq(Symbols), NEW p \in 1 .. Len(t) + 1, NEW q \in p .. Len(t) + 1,
         NEW point \in p .. q, NEW e \in p .. q, PartsAt(t, p, point, e, q)
  PROVE  /\ point <= e /\ e <= q /\ p < point
         /\ e = point => MantissaAt(t, p, e)
         /\ e # point => FractionalAt(t, p, point, e) /\ MantissaAt(t, p, e)
         /\ q = e \/ ExponentAt(t, e, q)
         /\ IsFinite(t, p, e, q) <=>
              q = e \/ NoOnes(t, p, e) \/ Moderate(SignAt(t, e), ValueOf(t, ExponentDigits(t, e), q))
  <1>1. Len(t) \in Nat /\ p \in Nat /\ q \in Nat
    OBVIOUS
  <1>2. point <= e /\ e <= q
    BY <1>1 DEF PartsAt, FractionAt
  <1>3. p < point
    BY <1>1, BeginOfIs DEF PartsAt, IntegralAt, WholeAt
  <1>4. e = point => MantissaAt(t, p, e)
    BY DEF PartsAt, MantissaAt
  <1>5. e # point => FractionalAt(t, p, point, e) /\ MantissaAt(t, p, e)
    <2>1. point \in p .. e
      BY <1>1, <1>2
    <2>2. QED
      BY <2>1 DEF PartsAt, MantissaAt, FractionalAt
  <1>6. q = e \/ ExponentAt(t, e, q)
    BY DEF PartsAt
  <1>7. (\A i \in p .. e - 1 : t[i] # "1") <=> NoOnes(t, p, e)
    <2>1. \A i \in p .. e - 1 : At(t, i) = t[i]
      BY <1>1 DEF At
    <2>2. QED
      BY <2>1 DEF NoOnes
  <1>8. ASSUME q # e
        PROVE  t[e + 1] = "-" \/ ValueOf(t, ExponentDigits(t, e), q) <= MaxExponent
                 <=> Moderate(SignAt(t, e), ValueOf(t, ExponentDigits(t, e), q))
    <2>1. e + 1 <= Len(t)
      BY <1>1, <1>6, <1>8 DEF ExponentAt, ExponentDigits
    <2>2. At(t, e + 1) = t[e + 1]
      BY <2>1 DEF At
    <2>3. SignAt(t, e) = <<"-">> <=> t[e + 1] = "-"
      <3>1. CASE t[e + 1] \in {"+", "-"}
        <4>1. SignAt(t, e) = <<t[e + 1]>>
          BY <2>2, <3>1 DEF SignAt
        <4>2. <<t[e + 1]>> = <<"-">> <=> t[e + 1] = "-"
          OBVIOUS
        <4>3. QED
          BY <4>1, <4>2
      <3>2. CASE t[e + 1] \notin {"+", "-"}
        <4>1. SignAt(t, e) = <<>>
          BY <2>2, <3>2 DEF SignAt
        <4>2. <<>> # <<"-">>
          OBVIOUS
        <4>3. QED
          BY <3>2, <4>1, <4>2
      <3>3. QED
        BY <3>1, <3>2
    <2>4. QED
      BY <2>3 DEF Moderate
  <1>9. IsFinite(t, p, e, q) <=>
          q = e \/ NoOnes(t, p, e) \/ Moderate(SignAt(t, e), ValueOf(t, ExponentDigits(t, e), q))
    BY <1>7, <1>8 DEF IsFinite
  <1>10. QED
    BY <1>2, <1>3, <1>4, <1>5, <1>6, <1>9

\* The numbers of the grammar are the segments that have those parts.
LEMMA NumbersAreRead ==
  ASSUME NEW t \in Seq(Symbols), NEW p \in 1 .. Len(t) + 1, NEW q \in p .. Len(t) + 1,
         q - p <= MaxNumber, NEW v
  PROVE  Means(Segment(t, p, q), v) \in Numbers <=>
           \E point \in p .. q, e \in p .. q : NumberAt(t, p, point, e, q, v)
  <1>1. Len(t) \in Nat /\ p \in Nat /\ q \in Nat
    OBVIOUS
  <1>2. ASSUME NEW x \in Integral, x.text = Segment(t, p, q),
               v = IF FitsLong(x.value) THEN <<"int", x.value>> ELSE <<"double">>
        PROVE  \E point \in p .. q, e \in p .. q : NumberAt(t, p, point, e, q, v)
    <2>1. IntegralAt(t, p, q) /\ x.value = IntegerAt(t, p, q)
      BY <1>2, IntegralTyped, IntegralIs
    <2>2. q \in p .. q /\ PartsAt(t, p, q, q, q)
      BY <1>1, <2>1 DEF PartsAt
    <2>3. v = Denoted(t, p, q, q)
      BY <1>2, <2>1 DEF Denoted
    <2>4. IsFinite(t, p, q, q)
      BY <2>2, PartsAtIs
    <2>5. QED
      BY <2>2, <2>3, <2>4 DEF NumberAt
  <1>3. ASSUME NEW x \in Fractional, x.text = Segment(t, p, q), v = <<"double">>
        PROVE  \E point \in p .. q, e \in p .. q : NumberAt(t, p, point, e, q, v)
    <2>1. Means(Segment(t, p, q), x.value) \in Fractional
      BY <1>3, PartsTyped
    <2>2. PICK r \in p .. q : FractionalAt(t, p, r, q)
      BY <2>1, FractionalIs
    <2>3. q \in p .. q /\ q # r /\ PartsAt(t, p, r, q, q)
      BY <1>1, <2>2 DEF PartsAt, FractionalAt, FractionAt
    <2>4. IsFinite(t, p, q, q)
      BY <2>3, PartsAtIs
    <2>5. QED
      BY <1>3, <2>3, <2>4 DEF NumberAt, Denoted
  <1>4. ASSUME NEW x \in Scientific, x.value, x.text = Segment(t, p, q), v = <<"double">>
        PROVE  \E point \in p .. q, e \in p .. q : NumberAt(t, p, point, e, q, v)
    <2>1. PICK e \in p .. q : ScientificAt(t, p, e, q)
      BY <1>4, ScientificIs
    <2>2. e # q
      <3>1. ExponentDigits(t, e) < q /\ ExponentDigits(t, e) \in {e + 1, e + 2}
        BY <2>1 DEF ScientificAt, ExponentAt, ExponentDigits
      <3>2. QED
        BY <1>1, <3>1
    <2>3. PICK point \in p .. e : PartsAt(t, p, point, e, q)
      <3>1. CASE IntegralAt(t, p, e)
        <4>1. e \in p .. e /\ PartsAt(t, p, e, e, q)
          BY <1>1, <2>1, <3>1 DEF ScientificAt, PartsAt
        <4>2. QED
          BY <4>1
      <3>2. ASSUME NEW r \in p .. e, FractionalAt(t, p, r, e)
            PROVE  PartsAt(t, p, r, e, q)
        BY <2>1, <3>2 DEF ScientificAt, PartsAt, FractionalAt
      <3>3. QED
        BY <2>1, <3>1, <3>2 DEF ScientificAt, MantissaAt
    <2>4. point \in p .. q /\ q # point
      BY <1>1, <2>2
    <2>5. IsFinite(t, p, e, q)
      BY <2>1, <2>3, <2>4, PartsAtIs DEF ScientificAt
    <2>6. QED
      BY <1>4, <2>3, <2>4, <2>5 DEF NumberAt, Denoted
  <1>5. ASSUME NEW point \in p .. q, NEW e \in p .. q, NumberAt(t, p, point, e, q, v)
        PROVE  Means(Segment(t, p, q), v) \in Numbers
    <2>1. PartsAt(t, p, point, e, q)
      BY <1>5 DEF NumberAt
    <2>2. CASE q = point
      <3>1. e = q
        BY <1>1, <2>1, <2>2, PartsAtIs
      <3> DEFINE x == Means(Segment(t, p, q), IntegerAt(t, p, q))
      <3>2. x \in Integral
        BY <2>1, <2>2, IntegralIs DEF PartsAt
      <3>3. x.text = Segment(t, p, q) /\ x.value = IntegerAt(t, p, q)
        BY DEF Means
      <3>4. v = IF FitsLong(x.value) THEN <<"int", x.value>> ELSE <<"double">>
        BY <1>5, <2>2, <3>3 DEF NumberAt, Denoted
      <3> HIDE DEF x
      <3>5. QED
        BY <3>2, <3>3, <3>4, NumbersAre
    <2>3. CASE q # point /\ q = e
      <3>1. FractionalAt(t, p, point, q)
        BY <2>1, <2>3, PartsAtIs
      <3> DEFINE x == Means(Segment(t, p, q), Nonzero(IntegerAt(t, p, point), ValueOf(t, point + 1, q)))
      <3>2. x \in Fractional /\ x.text = Segment(t, p, q)
        BY <3>1, FractionalIs DEF Means
      <3>3. v = <<"double">>
        BY <1>5, <2>3 DEF NumberAt, Denoted
      <3> HIDE DEF x
      <3>4. QED
        BY <3>2, <3>3, NumbersAre
    <2>4. CASE q # point /\ q # e
      <3>1. ScientificAt(t, p, e, q)
        BY <1>5, <2>1, <2>4, PartsAtIs DEF ScientificAt, NumberAt
      <3>2. \E x \in Scientific : x.value /\ x.text = Segment(t, p, q)
        BY <3>1, ScientificIs
      <3>3. v = <<"double">>
        BY <1>5, <2>4 DEF NumberAt, Denoted
      <3>4. QED
        BY <3>2, <3>3, NumbersAre
    <2>5. QED
      BY <2>2, <2>3, <2>4
  <1>6. QED
    BY <1>2, <1>3, <1>4, <1>5, NumbersAre

\* SomeDigits finds the end of the digits, and the digits it found.
LEMMA DigitsEnd ==
  ASSUME NEW t \in Seq(Symbols), NEW p \in 1 .. Len(t) + 1
  PROVE  /\ SomeDigits(t, p) # 0 =>
              SomeDigits(t, p) \in p + 1 .. Len(t) + 1 /\ DigitsAt(t, p, SomeDigits(t, p))
         /\ \A q \in p + 1 .. Len(t) + 1 :
              DigitsAt(t, p, q) /\ At(t, q) \notin Digits => SomeDigits(t, p) = q
  <1>1. Len(t) \in Nat
    OBVIOUS
  <1>2. SomeDigits(t, p) # 0 =>
          SomeDigits(t, p) \in p + 1 .. Len(t) + 1 /\ DigitsAt(t, p, SomeDigits(t, p))
    BY <1>1, SomeDigitsIs DEF DigitsAt
  <1>3. ASSUME NEW q \in p + 1 .. Len(t) + 1, DigitsAt(t, p, q), At(t, q) \notin Digits
        PROVE  SomeDigits(t, p) = q
    <2>1. At(t, p) \in Digits /\ "end" \notin Digits
      BY <1>1, <1>3 DEF DigitsAt, Digits
    <2>2. PastAll(t, p, Digits) = q
      BY <1>1, <1>3, <2>1, PastAllIf DEF DigitsAt
    <2>3. QED
      BY <2>1, <2>2 DEF SomeDigits
  <1>4. QED
    BY <1>2, <1>3

\* What parse_number passes are the parts of a number.
LEMMA PartsParsed ==
  ASSUME NEW t \in Seq(Symbols), NEW p \in 1 .. Len(t) + 1, NEW point, NEW e, NEW q,
         point = IntegerPart(t, BeginOf(t, p)), point # 0,
         e = FractionPart(t, point), e # 0, q = ExponentPart(t, e), q # 0
  PROVE  q \in p .. Len(t) + 1 /\ point \in p .. q /\ e \in p .. q /\ PartsAt(t, p, point, e, q)
  <1>1. Len(t) \in Nat
    OBVIOUS
  <1> DEFINE b == BeginOf(t, p)
  <1>2. b \in p .. Len(t) + 1
    BY BeginOfIs
  <1>3. point \in b + 1 .. Len(t) + 1 /\ WholeAt(t, b, point)
    <2> HIDE DEF b
    <2>1. CASE At(t, b) = "0"
      <3>1. point = b + 1 /\ b <= Len(t)
        BY <2>1 DEF IntegerPart, At, b
      <3>2. DigitsAt(t, b, b + 1)
        BY <1>2, <2>1 DEF DigitsAt, Digits
      <3>3. QED
        BY <1>1, <1>2, <3>1, <3>2 DEF WholeAt
    <2>2. CASE At(t, b) # "0"
      <3>1. point = SomeDigits(t, b)
        BY <2>2 DEF IntegerPart, b
      <3>2. b \in 1 .. Len(t) + 1
        BY <1>2
      <3>3. point \in b + 1 .. Len(t) + 1 /\ DigitsAt(t, b, point)
        BY <3>1, <3>2, DigitsEnd
      <3>4. QED
        BY <1>2, <2>2, <3>3 DEF WholeAt
    <2>3. QED
      BY <2>1, <2>2
  <1>4. IntegralAt(t, p, point)
    BY <1>1, <1>2, <1>3 DEF IntegralAt
  <1> HIDE DEF b
  <1>5. e \in point .. Len(t) + 1 /\ (e = point \/ FractionAt(t, point, e))
    <2>1. CASE At(t, point) = "."
      <3>1. e = SomeDigits(t, point + 1) /\ point <= Len(t)
        BY <2>1 DEF FractionPart, At
      <3>2. point + 1 \in 1 .. Len(t) + 1
        BY <1>1, <1>2, <1>3, <3>1
      <3>3. e \in (point + 1) + 1 .. Len(t) + 1 /\ DigitsAt(t, point + 1, e)
        BY <3>1, <3>2, DigitsEnd
      <3>4. QED
        BY <1>1, <1>2, <1>3, <2>1, <3>3 DEF FractionAt
    <2>2. CASE At(t, point) # "."
      <3>1. e = point
        BY <2>2 DEF FractionPart
      <3>2. QED
        BY <1>1, <1>2, <1>3, <3>1
    <2>3. QED
      BY <2>1, <2>2
  <1>6. q \in e .. Len(t) + 1 /\ (q = e \/ ExponentAt(t, e, q))
    <2>1. CASE At(t, e) = "e"
      <3> DEFINE d == ExponentDigits(t, e)
      <3>1. q = SomeDigits(t, d) /\ e <= Len(t)
        BY <2>1 DEF ExponentPart, At
      <3>2. d \in e + 1 .. Len(t) + 1
        BY <1>1, <1>2, <1>3, <1>5, <3>1 DEF ExponentDigits, At
      <3> HIDE DEF d
      <3>3. d \in 1 .. Len(t) + 1
        BY <1>1, <1>2, <1>3, <1>5, <3>2
      <3>4. q \in d + 1 .. Len(t) + 1 /\ DigitsAt(t, d, q)
        BY <3>1, <3>3, DigitsEnd
      <3>5. d < q /\ q \in e .. Len(t) + 1
        BY <1>1, <1>2, <1>3, <1>5, <3>2, <3>4
      <3>6. QED
        BY <2>1, <3>4, <3>5 DEF ExponentAt, d
    <2>2. CASE At(t, e) # "e"
      <3>1. q = e
        BY <2>2 DEF ExponentPart
      <3>2. QED
        BY <1>1, <1>2, <1>3, <1>5, <3>1
    <2>3. QED
      BY <2>1, <2>2
  <1>7. QED
    BY <1>1, <1>2, <1>3, <1>4, <1>5, <1>6 DEF PartsAt

\* A number that nothing continues is passed part by part.
LEMMA PartsFound ==
  ASSUME NEW t \in Seq(Symbols), NEW p \in 1 .. Len(t) + 1, NEW q \in p .. Len(t) + 1,
         NEW point \in p .. q, NEW e \in p .. q, PartsAt(t, p, point, e, q),
         At(t, q) \notin Alphabet.number
  PROVE  /\ point = IntegerPart(t, BeginOf(t, p)) /\ point # 0
         /\ e = FractionPart(t, point) /\ e # 0
         /\ q = ExponentPart(t, e) /\ q # 0
  <1>1. Len(t) \in Nat /\ p \in Nat /\ q \in Nat /\ point \in Nat /\ e \in Nat
    OBVIOUS
  <1> DEFINE b == BeginOf(t, p)
  <1>2. b \in p .. Len(t) + 1
    BY BeginOfIs
  <1> HIDE DEF b
  <1>3. At(t, q) \notin Digits /\ At(t, q) \notin {"-", "+", ".", "e"}
    BY DEF Alphabet
  <1>4. "e" \notin Digits /\ "." \notin Digits /\ "e" # "." /\ "0" \in Digits
    BY DEF Digits
  <1>5. WholeAt(t, b, point) /\ point <= e /\ e <= q /\ p < point
    BY PartsAtIs DEF PartsAt, IntegralAt, b
  <1>6. At(t, e) \notin Digits /\ At(t, e) # "."
    <2>1. e = q \/ At(t, e) = "e"
      BY DEF PartsAt, ExponentAt
    <2>2. QED
      BY <1>3, <1>4, <2>1
  <1>7. At(t, point) \notin Digits
    <2>1. e = point \/ At(t, point) = "."
      BY DEF PartsAt, FractionAt
    <2>2. QED
      BY <1>4, <1>6, <2>1
  <1>8. point = IntegerPart(t, b)
    <2>1. point > b /\ DigitsAt(t, b, point) /\ (point = b + 1 \/ At(t, b) # "0")
      BY <1>5 DEF WholeAt
    <2>2. CASE At(t, b) = "0"
      BY <2>1, <2>2 DEF IntegerPart
    <2>3. CASE At(t, b) # "0"
      <3>1. b \in 1 .. Len(t) + 1 /\ point \in b + 1 .. Len(t) + 1
        BY <1>1, <1>2, <2>1
      <3>2. SomeDigits(t, b) = point
        BY <1>7, <2>1, <3>1, DigitsEnd
      <3>3. QED
        BY <2>3, <3>2 DEF IntegerPart
    <2>4. QED
      BY <2>2, <2>3
  <1>9. e = FractionPart(t, point)
    <2>1. CASE FractionAt(t, point, e)
      <3>1. point + 1 < e /\ At(t, point) = "." /\ DigitsAt(t, point + 1, e)
        BY <2>1 DEF FractionAt
      <3>2. point + 1 \in 1 .. Len(t) + 1 /\ e \in (point + 1) + 1 .. Len(t) + 1
        BY <1>1, <3>1
      <3>3. SomeDigits(t, point + 1) = e
        BY <1>6, <3>1, <3>2, DigitsEnd
      <3>4. QED
        BY <3>1, <3>3 DEF FractionPart
    <2>2. CASE e = point
      BY <1>6, <2>2 DEF FractionPart
    <2>3. QED
      BY <2>1, <2>2 DEF PartsAt
  <1>10. q = ExponentPart(t, e)
    <2>1. CASE ExponentAt(t, e, q)
      <3> DEFINE d == ExponentDigits(t, e)
      <3>1. d < q /\ At(t, e) = "e" /\ DigitsAt(t, d, q)
        BY <2>1 DEF ExponentAt
      <3>2. d \in {e + 1, e + 2}
        BY DEF ExponentDigits
      <3> HIDE DEF d
      <3>3. d \in 1 .. Len(t) + 1 /\ q \in d + 1 .. Len(t) + 1
        BY <1>1, <3>1, <3>2
      <3>4. SomeDigits(t, d) = q
        BY <1>3, <3>1, <3>3, DigitsEnd
      <3>5. QED
        BY <3>1, <3>4 DEF ExponentPart, d
    <2>2. CASE q = e
      BY <1>3, <2>2 DEF ExponentPart
    <2>3. QED
      BY <2>1, <2>2 DEF PartsAt
  <1>11. QED
    BY <1>1, <1>5, <1>8, <1>9, <1>10 DEF b

\* What parse_number makes of the ends of the parts.
LEMMA ParseNumberIs ==
  ASSUME NEW t, NEW p, NEW point, NEW e, NEW q, Len(t) \in Nat, p \in 1 .. Len(t) + 1,
         point = IntegerPart(t, BeginOf(t, p)),
         e = FractionPart(t, point), q = ExponentPart(t, e)
  PROVE  ParseNumber(t, p) =
           IF point = 0 \/ e = 0 \/ q = 0 THEN Fail
           ELSE IF (q = point /\ FitsLong(IntegerAt(t, p, point))) \/ IsFinite(t, p, e, q)
                THEN Ok(Denoted(t, p, point, q), q)
           ELSE Fail
  <1> DEFINE begin == BeginOf(t, p)
             magnitude == ValueOf(t, begin, point)
             integer == IF begin > p THEN -magnitude ELSE magnitude
  <1>1. integer = IntegerAt(t, p, point)
    BY DEF IntegerAt
  <1>2. ParseNumber(t, p) =
          IF point = 0 \/ e = 0 \/ q = 0 THEN Fail
          ELSE IF q = point /\ FitsLong(integer) THEN Ok(<<"int", integer>>, q)
          ELSE IF IsFinite(t, p, e, q) THEN Ok(<<"double">>, q)
          ELSE Fail
    BY DEF ParseNumber, BeginOf
  <1> HIDE DEF integer
  <1>3. QED
    BY <1>1, <1>2 DEF Denoted

\* parse_number returns numbers of the grammar and their values, and returns every
\* number that nothing continues.
LEMMA NumberParsed ==
  ASSUME NEW t \in Seq(Symbols), NEW p \in 1 .. Len(t) + 1, NEW q \in p .. Len(t) + 1,
         q - p <= MaxNumber
  PROVE  /\ ParseNumber(t, p).ok /\ ParseNumber(t, p).next = q =>
              Means(Segment(t, p, q), ParseNumber(t, p).value) \in Numbers
         /\ At(t, q) \notin Alphabet.number =>
              \A v : Means(Segment(t, p, q), v) \in Numbers => ParseNumber(t, p) = Ok(v, q)
  <1>1. ASSUME ParseNumber(t, p).ok, ParseNumber(t, p).next = q
        PROVE  Means(Segment(t, p, q), ParseNumber(t, p).value) \in Numbers
    <2> DEFINE point == IntegerPart(t, BeginOf(t, p))
               e == FractionPart(t, point)
               end == ExponentPart(t, e)
    <2> HIDE DEF point, e, end
    <2>1. ParseNumber(t, p) =
           IF point = 0 \/ e = 0 \/ end = 0 THEN Fail
           ELSE IF (end = point /\ FitsLong(IntegerAt(t, p, point))) \/ IsFinite(t, p, e, end)
                THEN Ok(Denoted(t, p, point, end), end)
           ELSE Fail
      BY ParseNumberIs DEF point, e, end
    <2>2. ~Fail.ok
      BY DEF Fail
    <2>3. /\ point # 0 /\ e # 0 /\ end # 0
          /\ (end = point /\ FitsLong(IntegerAt(t, p, point))) \/ IsFinite(t, p, e, end)
          /\ ParseNumber(t, p) = Ok(Denoted(t, p, point, end), end)
      BY <1>1, <2>1, <2>2
    <2>4. ParseNumber(t, p).value = Denoted(t, p, point, end) /\ end = q
      BY <1>1, <2>3 DEF Ok
    <2>5. point \in p .. q /\ e \in p .. q /\ PartsAt(t, p, point, e, q)
      BY <2>3, <2>4, PartsParsed DEF point, e, end
    <2>6. NumberAt(t, p, point, e, q, ParseNumber(t, p).value)
      BY <2>3, <2>4, <2>5 DEF NumberAt
    <2>7. QED
      BY <2>5, <2>6, NumbersAreRead
  <1>2. ASSUME At(t, q) \notin Alphabet.number, NEW v, Means(Segment(t, p, q), v) \in Numbers
        PROVE  ParseNumber(t, p) = Ok(v, q)
    <2>1. PICK point \in p .. q, e \in p .. q : NumberAt(t, p, point, e, q, v)
      BY <1>2, NumbersAreRead
    <2>2. PartsAt(t, p, point, e, q)
      BY <2>1 DEF NumberAt
    <2>3. /\ point = IntegerPart(t, BeginOf(t, p)) /\ point # 0
          /\ e = FractionPart(t, point) /\ e # 0
          /\ q = ExponentPart(t, e) /\ q # 0
      BY <1>2, <2>2, PartsFound
    <2>4. ParseNumber(t, p) =
           IF (q = point /\ FitsLong(IntegerAt(t, p, point))) \/ IsFinite(t, p, e, q)
           THEN Ok(Denoted(t, p, point, q), q) ELSE Fail
      BY <2>3, ParseNumberIs
    <2>5. QED
      BY <2>1, <2>4 DEF NumberAt
  <1>3. QED
    BY <1>1, <1>2

-----------------------------------------------------------------------------
(* White space.                                                            *)

\* What is left of a text from a position on, without its white space.
Bare(t, p) == BareFrom(t)[p]

\* It leaves out white space, symbol by symbol.
LEMMA BareIs ==
  ASSUME NEW t \in Seq(Symbols)
  PROVE  /\ Bare(t, Len(t) + 1) = <<>>
         /\ \A p \in 1 .. Len(t) :
              Bare(t, p) = IF At(t, p) = "space" THEN Bare(t, p + 1) ELSE Cat(<<At(t, p)>>, Bare(t, p + 1))
  <1>0. PICK N \in Nat : N = Len(t) + 1
    OBVIOUS
  <1> DEFINE Body(f, p) == IF p > Len(t) THEN <<>>
                           ELSE IF t[p] = "space" THEN f[p + 1] ELSE Cat(<<t[p]>>, f[p + 1])
             Is(f, m) == f = [p \in 1 .. N |-> IF p > N - m THEN Body(f, p) ELSE 0]
  <1>1. \E f : Is(f, 0)
    <2>1. Is([p \in 1 .. N |-> 0], 0)
      OBVIOUS
    <2> HIDE DEF Is
    <2>2. QED
      BY <2>1
  <1>2. ASSUME NEW m \in 0 .. N - 1, NEW f, Is(f, m) PROVE \E g : Is(g, m + 1)
    <2> DEFINE g == [p \in 1 .. N |-> IF p > N - m THEN f[p] ELSE IF p = N - m THEN Body(f, p) ELSE 0]
    <2> HIDE DEF Is
    <2>1. ASSUME NEW p \in 1 .. N, p > N - (m + 1) PROVE Body(g, p) = Body(f, p)
      <3>1. p > Len(t) \/ g[p + 1] = f[p + 1]
        BY <1>0, <2>1
      <3> HIDE DEF g
      <3>2. QED
        BY <3>1
    <2> HIDE DEF Body
    <2>2. ASSUME NEW p \in 1 .. N
          PROVE  g[p] = IF p > N - (m + 1) THEN Body(g, p) ELSE 0
      <3>1. CASE p > N - m
        <4>1. f[p] = Body(f, p)
          BY <1>2, <3>1 DEF Is
        <4>2. QED
          BY <2>1, <3>1, <4>1
      <3>2. CASE p = N - m
        BY <2>1, <3>2
      <3>3. CASE p < N - m
        BY <3>3
      <3>4. QED
        BY <3>1, <3>2, <3>3
    <2>3. Is(g, m + 1)
      BY <2>2 DEF Is
    <2> HIDE DEF g
    <2>4. QED
      BY <2>3
  <1>3. \E f : Is(f, N)
    <2> DEFINE S == {m \in Nat : \E f : Is(f, m)}
    <2> HIDE DEF Is
    <2>1. 0 \in S /\ \A m \in 0 .. N - 1 : m \in S => m + 1 \in S
      BY <1>1, <1>2
    <2>2. \A m \in 0 .. N : m \in S
      <3> HIDE DEF S
      <3> QED BY <2>1, Upwards
    <2>3. QED
      BY <2>2
  <1>4. \E f : f = [p \in 1 .. N |-> Body(f, p)]
    <2>1. PICK f : Is(f, N)
      <3> HIDE DEF Is
      <3> QED BY <1>3
    <2> HIDE DEF Body
    <2>2. f = [p \in 1 .. N |-> Body(f, p)]
      BY <2>1
    <2> HIDE DEF Is
    <2>3. QED
      BY <2>2
  <1>5. BareFrom(t) = CHOOSE h : h = [p \in 1 .. N |-> Body(h, p)]
    BY <1>0 DEF BareFrom, Cat
  <1>6. BareFrom(t) = [p \in 1 .. N |-> Body(BareFrom(t), p)]
    <2> HIDE DEF Body
    <2> QED BY <1>4, <1>5
  <1>7. ASSUME NEW p \in 1 .. N PROVE BareFrom(t)[p] = Body(BareFrom(t), p)
    <2> HIDE DEF Body
    <2> QED BY <1>6, Zenon
  <1>8. Bare(t, Len(t) + 1) = <<>>
    <2>1. N \in 1 .. N /\ N > Len(t) /\ N = Len(t) + 1
      BY <1>0
    <2>2. BareFrom(t)[N] = Body(BareFrom(t), N)
      BY <1>7, <2>1
    <2>3. QED
      BY <2>1, <2>2 DEF Bare
  <1>9. ASSUME NEW p \in 1 .. Len(t)
        PROVE  Bare(t, p) = IF At(t, p) = "space" THEN Bare(t, p + 1) ELSE Cat(<<At(t, p)>>, Bare(t, p + 1))
    <2>1. p \in 1 .. N /\ ~(p > Len(t)) /\ At(t, p) = t[p]
      BY <1>0 DEF At
    <2>2. BareFrom(t)[p] = Body(BareFrom(t), p)
      BY <1>7, <2>1
    <2>3. QED
      BY <2>1, <2>2 DEF Bare
  <1>10. QED
    BY <1>8, <1>9

\* Symbols that are not white space.
Tokens == Symbols \ {"space"}

LEMMA BareTyped ==
  ASSUME NEW t \in Seq(Symbols), NEW p \in 1 .. Len(t) + 1
  PROVE  /\ Bare(t, p) \in Seq(Tokens)
         /\ Bare(t, p) \in Seq(Symbols)
         /\ Len(Bare(t, p)) <= Len(t) + 1 - p
  <1> DEFINE S == {q \in Nat : Bare(t, q) \in Seq(Tokens) /\ Len(Bare(t, q)) <= Len(t) + 1 - q}
             Good(q) == Bare(t, q) \in Seq(Tokens) /\ Len(Bare(t, q)) <= Len(t) + 1 - q
  <1>1. Len(t) \in Nat
    OBVIOUS
  <1>2. ASSUME NEW q \in 1 .. Len(t) + 1, \A m \in q + 1 .. Len(t) + 1 : Good(m)
        PROVE  Good(q)
    <2>1. CASE q = Len(t) + 1
      <3>1. Bare(t, q) = <<>>
        BY <2>1, BareIs
      <3>2. Len(<<>>) = 0 /\ <<>> \in Seq(Tokens)
        OBVIOUS
      <3>3. Bare(t, q) \in Seq(Tokens) /\ Len(Bare(t, q)) = 0
        BY <3>1, <3>2
      <3>4. 0 <= Len(t) + 1 - q
        BY <1>1, <2>1
      <3>5. QED
        BY <3>3, <3>4
    <2>2. CASE q # Len(t) + 1
      <3>1. q \in 1 .. Len(t) /\ q + 1 \in q + 1 .. Len(t) + 1
        BY <1>1, <2>2
      <3>2. Good(q + 1)
        BY <1>2, <3>1
      <3>3. CASE At(t, q) = "space"
        <4>1. Bare(t, q) = Bare(t, q + 1)
          BY <3>1, <3>3, BareIs
        <4>2. Len(Bare(t, q + 1)) \in Nat
          BY <3>2
        <4>3. QED
          BY <1>1, <3>2, <4>1, <4>2
      <3>4. CASE At(t, q) # "space"
        <4>1. Bare(t, q) = Cat(<<At(t, q)>>, Bare(t, q + 1))
          BY <3>1, <3>4, BareIs
        <4>2. At(t, q) \in Tokens
          BY <3>1, <3>4 DEF At, Tokens
        <4>3. <<At(t, q)>> \in Seq(Tokens) /\ Len(<<At(t, q)>>) = 1
          BY <4>2
        <4>4. /\ Cat(<<At(t, q)>>, Bare(t, q + 1)) \in Seq(Tokens)
              /\ Len(Cat(<<At(t, q)>>, Bare(t, q + 1))) = 1 + Len(Bare(t, q + 1))
              /\ Len(Bare(t, q + 1)) \in Nat
          BY <3>2, <4>3, CatIs
        <4>5. QED
          BY <1>1, <3>2, <4>1, <4>4
      <3>5. QED
        BY <3>3, <3>4
    <2>3. QED
      BY <2>1, <2>2
  <1>3. Good(p)
    <2>1. \A q \in 1 .. Len(t) + 1 : (\A m \in q + 1 .. Len(t) + 1 : m \in S) => q \in S
      <3>1. \A q \in 1 .. Len(t) + 1 : q \in S <=> Good(q)
        BY <1>1
      <3>2. \A q \in 1 .. Len(t) + 1 : \A m \in q + 1 .. Len(t) + 1 : m \in 1 .. Len(t) + 1
        BY <1>1
      <3> HIDE DEF S, Good
      <3>3. QED
        BY <1>2, <3>1, <3>2
    <2>2. \A q \in 1 .. Len(t) + 1 : q \in S
      <3> HIDE DEF S
      <3>1. 1 \in Nat /\ Len(t) + 1 \in Nat
        BY <1>1
      <3>2. QED
        BY <2>1, <3>1, Downwards
    <2>3. QED
      BY <2>2
  <1>4. Tokens \subseteq Symbols
    BY DEF Tokens
  <1>5. QED
    BY <1>3, <1>4, SeqMonotonic

\* To skip white space changes nothing of it.
LEMMA BareSkips ==
  ASSUME NEW t \in Seq(Symbols), NEW p \in 1 .. Len(t) + 1
  PROVE  Bare(t, p) = Bare(t, SkipWs(t, p))
  <1> DEFINE q == SkipWs(t, p)
             S == {r \in Nat : Bare(t, p) = Bare(t, r)}
  <1>1. Len(t) \in Nat /\ q \in p .. Len(t) + 1 /\ \A r \in p .. q - 1 : At(t, r) = "space"
    BY SkipWsIs
  <1> HIDE DEF q
  <1>2. ASSUME NEW r \in p .. q - 1 PROVE Bare(t, r) = Bare(t, r + 1) /\ r + 1 \in Nat
    <2>1. r \in 1 .. Len(t) /\ At(t, r) = "space" /\ r + 1 \in Nat
      BY <1>1
    <2>2. QED
      BY <2>1, BareIs
  <1>3. p \in S /\ \A r \in p .. q - 1 : r \in S => r + 1 \in S
    BY <1>2
  <1>4. q \in S
    <2> HIDE DEF S
    <2>1. p \in Nat /\ q \in Nat /\ q \in p .. q
      BY <1>1
    <2>2. \A r \in p .. q : r \in S
      BY <1>3, <2>1, Upwards
    <2>3. QED
      BY <2>1, <2>2
  <1>5. QED
    BY <1>4 DEF q

\* The first symbol that is not white space.
LEMMA FirstOfCat ==
  ASSUME NEW c \in Symbols, NEW d \in Symbols, NEW a \in Seq(Symbols), NEW b \in Seq(Symbols)
  PROVE  Cat(<<c>>, a) = Cat(<<d>>, b) => c = d /\ a = b
  <1>0. ASSUME NEW e \in Symbols, NEW s \in Seq(Symbols)
        PROVE  /\ Len(Cat(<<e>>, s)) = 1 + Len(s) /\ Len(s) \in Nat
               /\ \A i \in 1 .. 1 + Len(s) : Cat(<<e>>, s)[i] = IF i <= 1 THEN <<e>>[i] ELSE s[i - 1]
               /\ <<e>>[1] = e
    <2>1. <<e>> \in Seq(Symbols) /\ Len(<<e>>) = 1 /\ <<e>>[1] = e
      OBVIOUS
    <2>2. QED
      BY <2>1, CatIs
  <1>2. /\ Len(Cat(<<c>>, a)) = 1 + Len(a) /\ Len(a) \in Nat
        /\ \A i \in 1 .. 1 + Len(a) : Cat(<<c>>, a)[i] = IF i <= 1 THEN <<c>>[i] ELSE a[i - 1]
    BY <1>0
  <1>3. /\ Len(Cat(<<d>>, b)) = 1 + Len(b) /\ Len(b) \in Nat
        /\ \A i \in 1 .. 1 + Len(b) : Cat(<<d>>, b)[i] = IF i <= 1 THEN <<d>>[i] ELSE b[i - 1]
    BY <1>0
  <1> SUFFICES ASSUME Cat(<<c>>, a) = Cat(<<d>>, b) PROVE c = d /\ a = b
    OBVIOUS
  <1>4. Len(a) = Len(b)
    BY <1>2, <1>3
  <1>5. c = d
    <2>1. 1 \in 1 .. 1 + Len(a) /\ 1 \in 1 .. 1 + Len(b)
      BY <1>2, <1>3
    <2>2. Cat(<<c>>, a)[1] = <<c>>[1]
      BY <1>2, <2>1
    <2>3. Cat(<<d>>, b)[1] = <<d>>[1]
      BY <1>3, <2>1
    <2>4. QED
      BY <1>0, <2>2, <2>3
  <1>6. ASSUME NEW i \in 1 .. Len(a) PROVE a[i] = b[i]
    <2>1. PICK j \in Nat : j = i + 1 /\ j \in 1 .. 1 + Len(a) /\ j \in 1 .. 1 + Len(b) /\ ~(j <= 1)
                 /\ j - 1 = i
      BY <1>2, <1>4
    <2>2. Cat(<<c>>, a)[j] = a[i] /\ Cat(<<d>>, b)[j] = b[i]
      BY <1>2, <1>3, <2>1
    <2>3. QED
      BY <2>2
  <1>7. QED
    BY <1>4, <1>5, <1>6, SeqEqual

\* What skip_ws stops at is the first of it, or nothing is left.
LEMMA TokenIs ==
  ASSUME NEW t \in Seq(Symbols), NEW p \in 1 .. Len(t) + 1
  PROVE  LET q == SkipWs(t, p)
         IN  /\ q \in p .. Len(t) + 1
             /\ q = Len(t) + 1 => Bare(t, p) = <<>> /\ At(t, q) = "end"
             /\ q # Len(t) + 1 => /\ q \in 1 .. Len(t) /\ At(t, q) \in Tokens
                                  /\ q + 1 \in p + 1 .. Len(t) + 1
                                  /\ Bare(t, p) = Cat(<<At(t, q)>>, Bare(t, q + 1))
  <1> DEFINE q == SkipWs(t, p)
  <1>1. Len(t) \in Nat /\ q \in p .. Len(t) + 1 /\ At(t, q) # "space" /\ Bare(t, p) = Bare(t, q)
    BY SkipWsIs, BareSkips
  <1> HIDE DEF q
  <1>2. CASE q = Len(t) + 1
    BY <1>1, <1>2, BareIs DEF q, At
  <1>3. CASE q # Len(t) + 1
    <2>1. q \in 1 .. Len(t) /\ q + 1 \in p + 1 .. Len(t) + 1
      BY <1>1, <1>3
    <2>2. At(t, q) \in Tokens
      BY <1>1, <2>1 DEF At, Tokens
    <2>3. Bare(t, q) = Cat(<<At(t, q)>>, Bare(t, q + 1))
      BY <1>1, <2>1, BareIs
    <2>4. QED
      BY <1>1, <1>3, <2>1, <2>2, <2>3 DEF q
  <1>4. QED
    BY <1>2, <1>3

\* A text without white space is all of it.
LEMMA NoWhiteSpace ==
  ASSUME NEW t \in Seq(Tokens)
  PROVE  /\ t \in Seq(Symbols)
         /\ \A p \in 1 .. Len(t) + 1 : SkipWs(t, p) = p /\ Bare(t, p) = Segment(t, p, Len(t) + 1)
         /\ Bare(t, 1) = t
  <1>1. t \in Seq(Symbols) /\ Len(t) \in Nat
    BY SeqMonotonic DEF Tokens
  <1>2. ASSUME NEW p \in 1 .. Len(t) + 1 PROVE SkipWs(t, p) = p
    <2>1. At(t, p) # "space"
      BY <1>1 DEF At, Tokens
    <2>2. "end" \notin {"space"} /\ p \in p .. Len(t) + 1 /\ At(t, p) \notin {"space"}
          /\ \A i \in p .. p - 1 : At(t, i) \in {"space"}
      BY <1>1, <2>1
    <2>3. QED
      BY <1>1, <2>2, PastAllIf DEF SkipWs
  <1> DEFINE S == {p \in Nat : Bare(t, p) = Segment(t, p, Len(t) + 1)}
  <1>3. ASSUME NEW p \in 1 .. Len(t) + 1, p = Len(t) + 1 \/ Bare(t, p + 1) = Segment(t, p + 1, Len(t) + 1)
        PROVE  Bare(t, p) = Segment(t, p, Len(t) + 1)
    <2>1. CASE p = Len(t) + 1
      <3>1. Segment(t, p, Len(t) + 1) = <<>>
        BY <1>1, <2>1, SubSeqEmpty DEF Segment
      <3>2. QED
        BY <1>1, <2>1, <3>1, BareIs
    <2>2. CASE p # Len(t) + 1
      <3>1. p \in 1 .. Len(t) /\ Len(t) + 1 \in p + 1 .. Len(t) + 1
        BY <1>1, <2>2
      <3>2. At(t, p) # "space"
        BY <1>1, <3>1 DEF At, Tokens
      <3>3. Bare(t, p) = Cat(<<At(t, p)>>, Bare(t, p + 1))
        BY <1>1, <3>1, <3>2, BareIs
      <3>4. QED
        BY <1>1, <1>3, <2>2, <3>1, <3>3, FirstJoin
    <2>3. QED
      BY <2>1, <2>2
  <1>4. \A p \in 1 .. Len(t) + 1 : p \in S
    <2>1. \A p \in 1 .. Len(t) + 1 : (\A m \in p + 1 .. Len(t) + 1 : m \in S) => p \in S
      <3>1. \A p \in 1 .. Len(t) + 1 : p = Len(t) + 1 \/ p + 1 \in p + 1 .. Len(t) + 1
        BY <1>1
      <3>2. \A p \in 1 .. Len(t) + 1 : p \in Nat
        BY <1>1
      <3>3. QED
        BY <1>3, <3>1, <3>2
    <2> HIDE DEF S
    <2>2. 1 \in Nat /\ Len(t) + 1 \in Nat
      BY <1>1
    <2>3. QED
      BY <2>1, <2>2, Downwards
  <1>5. Bare(t, 1) = t
    <2>1. 1 \in 1 .. Len(t) + 1 /\ Len(t) + 1 - 1 = Len(t)
      BY <1>1
    <2>2. Bare(t, 1) = Segment(t, 1, Len(t) + 1)
      BY <1>4, <2>1
    <2>3. SubSeq(t, 1, Len(t)) = t
      BY <1>1, SubSeqFull
    <2>4. QED
      BY <1>1, <2>1, <2>2, <2>3 DEF Segment
  <1>6. QED
    BY <1>1, <1>2, <1>4, <1>5

-----------------------------------------------------------------------------
(* Whole texts.                                                            *)

\* What parse_value makes of a text.
Result(t) == Parser(t)[<<"value", 1>>]

\* It succeeds and leaves nothing over.
Accepted(t) == Result(t).ok /\ SkipWs(t, Result(t).next) = Len(t) + 1

\* A text that is accepted is of the language, with its value, and the other way
\* round.
Follows(t, language) ==
  /\ Accepted(t) => Means(Bare(t, 1), Result(t).value) \in language
  /\ Bare(t, 1) \in TextsOf(language) => Accepted(t)

\* Then ParseJson is as GrammarIsFollowed says.
LEMMA FollowsGrammar ==
  ASSUME NEW t, NEW language, Follows(t, language)
  PROVE  IF Bare(t, 1) \in TextsOf(language) THEN Means(Bare(t, 1), ParseJson(t)) \in language
         ELSE ParseJson(t) = <<None>>
  <1>1. ParseJson(t) = IF Accepted(t) THEN Result(t).value ELSE <<None>>
    BY DEF ParseJson, Accepted, Result
  <1>2. \A s, v : Means(s, v) \in language => s \in TextsOf(language)
    BY DEF TextsOf, Means
  <1>3. QED
    BY <1>1, <1>2 DEF Follows

LEMMA ResultIs ==
  ASSUME NEW t \in Seq(Symbols)
  PROVE  /\ Result(t) = ValueAt(t, 1, Parser(t))
         /\ Outcome(Result(t), 1, t)
  <1>1. 1 \in 1 .. Len(t) + 1 /\ Len(t) \in Nat
    OBVIOUS
  <1>2. QED
    BY <1>1, CallsAre DEF Result, Loops

LEMMA SkipNone ==
  ASSUME NEW t, Len(t) \in Nat, NEW p \in 1 .. Len(t) + 1, At(t, p) # "space"
  PROVE  SkipWs(t, p) = p
  <1>1. "end" \notin {"space"} /\ p \in p .. Len(t) + 1 /\ At(t, p) \notin {"space"}
        /\ \A i \in p .. p - 1 : At(t, i) \in {"space"}
    OBVIOUS
  <1>2. QED
    BY <1>1, PastAllIf DEF SkipWs

\* How a number begins, and what it is made of.
LEMMA NumberSymbols ==
  ASSUME NEW t \in Seq(Symbols), NEW p \in 1 .. Len(t) + 1, NEW q \in p .. Len(t) + 1,
         NEW point \in p .. q, NEW e \in p .. q, PartsAt(t, p, point, e, q)
  PROVE  /\ p < q
         /\ At(t, p) \in {"-"} \cup Digits
         /\ \A i \in p .. q - 1 : At(t, i) \in Alphabet.number
  <1>1. Len(t) \in Nat /\ p \in Nat /\ q \in Nat /\ point \in Nat /\ e \in Nat
    OBVIOUS
  <1>2. Digits \subseteq Alphabet.number /\ {"-", "+", ".", "e"} \subseteq Alphabet.number
    BY DEF Alphabet
  <1>3. p < point /\ point <= e /\ e <= q
    BY PartsAtIs
  <1> DEFINE b == BeginOf(t, p)
  <1>4. b \in {p, p + 1} /\ (b = p + 1 <=> At(t, p) = "-") /\ b < point /\ DigitsAt(t, b, point)
    BY BeginOfIs DEF PartsAt, IntegralAt, WholeAt
  <1> HIDE DEF b
  <1>5. At(t, p) \in {"-"} \cup Digits
    BY <1>1, <1>4 DEF DigitsAt
  <1>6. \A i \in p .. point - 1 : At(t, i) \in Alphabet.number
    <2>1. \A i \in p .. point - 1 : i = p \/ i \in b .. point - 1
      BY <1>1, <1>4
    <2>2. QED
      BY <1>2, <1>4, <1>5, <2>1 DEF DigitsAt
  <1>7. \A i \in point .. e - 1 : At(t, i) \in Alphabet.number
    <2>1. CASE e = point
      BY <1>1, <2>1
    <2>2. CASE FractionAt(t, point, e)
      <3>1. \A i \in point .. e - 1 : i = point \/ i \in point + 1 .. e - 1
        BY <1>1
      <3>2. QED
        BY <1>2, <2>2, <3>1 DEF FractionAt, DigitsAt
    <2>3. QED
      BY <2>1, <2>2 DEF PartsAt
  <1>8. \A i \in e .. q - 1 : At(t, i) \in Alphabet.number
    <2>1. CASE q = e
      BY <1>1, <2>1
    <2>2. CASE ExponentAt(t, e, q)
      <3> DEFINE d == ExponentDigits(t, e)
      <3>1. d \in {e + 1, e + 2} /\ (d = e + 2 => At(t, e + 1) \in {"+", "-"})
        BY <1>1 DEF ExponentDigits
      <3>2. At(t, e) = "e" /\ d < q /\ DigitsAt(t, d, q)
        BY <2>2 DEF ExponentAt
      <3> HIDE DEF d
      <3>3. \A i \in e .. q - 1 : i = e \/ (i = e + 1 /\ d = e + 2) \/ i \in d .. q - 1
        BY <1>1, <3>1
      <3>4. QED
        BY <1>2, <3>1, <3>2, <3>3 DEF DigitsAt
    <2>3. QED
      BY <2>1, <2>2 DEF PartsAt
  <1>9. \A i \in p .. q - 1 : i \in p .. point - 1 \/ i \in point .. e - 1 \/ i \in e .. q - 1
    BY <1>1
  <1>10. QED
    BY <1>1, <1>3, <1>5, <1>6, <1>7, <1>8, <1>9

LEMMA NumberTexts ==
  ASSUME NEW x \in Numbers
  PROVE  x = Means(x.text, x.value) /\ x.text \in Seq(Symbols)
  <1>1. ASSUME NEW y \in Integral,
               x = Means(y.text, IF FitsLong(y.value) THEN <<"int", y.value>> ELSE <<"double">>)
        PROVE  x = Means(x.text, x.value) /\ x.text \in Seq(Symbols)
    BY <1>1, IntegralTyped DEF Means
  <1>2. ASSUME NEW y \in Fractional, x = Means(y.text, <<"double">>)
        PROVE  x = Means(x.text, x.value) /\ x.text \in Seq(Symbols)
    BY <1>2, PartsTyped DEF Means
  <1>3. ASSUME NEW y \in Scientific, x = Means(y.text, <<"double">>)
        PROVE  x = Means(x.text, x.value) /\ x.text \in Seq(Symbols)
    <2>1. PICK a \in Mantissas, b \in Exponents : y = Means(Cat(a.text, b.text), Finite(a.value, b.value))
      BY <1>3, ScientificIsJoined
    <2>2. Cat(a.text, b.text) \in Seq(Symbols)
      BY PartsTyped, CatIs
    <2>3. QED
      BY <1>3, <2>1, <2>2 DEF Means
  <1>4. QED
    BY <1>1, <1>2, <1>3 DEF Numbers

\* The parser follows the grammar of numbers.
LEMMA NumbersFollow ==
  ASSUME NEW t \in Seq(Alphabet.number), Len(t) <= MaxNumber
  PROVE  Follows(t, Numbers)
  <1>1. /\ t \in Seq(Tokens) /\ t \in Seq(Symbols) /\ Len(t) \in Nat /\ Bare(t, 1) = t
        /\ \A p \in 1 .. Len(t) + 1 : SkipWs(t, p) = p
        /\ Bare(t, 1) = Segment(t, 1, Len(t) + 1)
    <2>1. Alphabet.number \subseteq Tokens
      BY SymbolsAre DEF Alphabet, Tokens, Digits
    <2>2. t \in Seq(Tokens)
      BY <2>1, SeqMonotonic
    <2>3. 1 \in 1 .. Len(t) + 1
      OBVIOUS
    <2>4. QED
      BY <2>2, <2>3, NoWhiteSpace
  <1> DEFINE q == Len(t) + 1
  <1>2. 1 \in 1 .. Len(t) + 1 /\ q \in 1 .. Len(t) + 1 /\ q - 1 <= MaxNumber /\ At(t, q) = "end"
        /\ SkipWs(t, 1) = 1 /\ SkipWs(t, q) = q
    BY <1>1 DEF At
  <1> HIDE DEF q
  <1>3. "end" \notin Alphabet.number
    BY DEF Alphabet, Digits
  <1>4. At(t, 1) \in {"-"} \cup Digits => Result(t) = ParseNumber(t, 1)
    BY <1>1, <1>2, ValueAtIs, ResultIs
  <1>5. At(t, 1) \notin {"-"} \cup Digits => Result(t) = Fail
    <2>1. At(t, 1) \in Alphabet.number \/ At(t, 1) = "end"
      BY <1>1 DEF At
    <2>2. At(t, 1) \notin {"-"} \cup Digits => At(t, 1) \in {"+", ".", "e", "end"}
      BY <2>1 DEF Alphabet
    <2>3. At(t, 1) \notin {"-"} \cup Digits =>
            At(t, 1) \notin {"begin_object", "begin_array", "quote", "-"} \cup Quoted \cup Literals
              \cup Digits
      BY <2>2 DEF Quoted, Literals
    <2>4. QED
      BY <1>1, <1>2, <2>3, ValueAtIs, ResultIs
  <1>6. ASSUME Accepted(t) PROVE Means(Bare(t, 1), Result(t).value) \in Numbers
    <2>1. Result(t).ok /\ SkipWs(t, Result(t).next) = q
      BY <1>6 DEF Accepted, q
    <2>2. Result(t) = ParseNumber(t, 1)
      BY <1>4, <1>5, <2>1 DEF Fail
    <2>3. Result(t).next \in 1 .. Len(t) + 1
      BY <1>1, <2>1, ResultIs DEF Outcome
    <2>4. Result(t).next = q
      BY <1>1, <2>1, <2>3
    <2>5. Means(Segment(t, 1, q), ParseNumber(t, 1).value) \in Numbers
      BY <1>1, <1>2, <2>1, <2>2, <2>4, NumberParsed
    <2>6. QED
      BY <1>1, <2>2, <2>5 DEF q
  <1>7. ASSUME NEW x \in Numbers, x.text = Bare(t, 1) PROVE Accepted(t)
    <2>1. Means(Segment(t, 1, q), x.value) \in Numbers
      BY <1>1, <1>7, NumberTexts DEF q
    <2>2. ParseNumber(t, 1) = Ok(x.value, q)
      BY <1>1, <1>2, <1>3, <2>1, NumberParsed
    <2>3. PICK point \in 1 .. q, e \in 1 .. q : NumberAt(t, 1, point, e, q, x.value)
      BY <1>1, <1>2, <2>1, NumbersAreRead
    <2>4. At(t, 1) \in {"-"} \cup Digits
      BY <1>1, <1>2, <2>3, NumberSymbols DEF NumberAt
    <2>5. Result(t).ok /\ Result(t).next = q
      BY <1>4, <2>2, <2>4 DEF Ok
    <2>6. QED
      BY <1>2, <2>5 DEF Accepted, q
  <1>8. QED
    BY <1>6, <1>7 DEF Follows, TextsOf

\* No number is longer than the bound.
LEMMA NumbersAreShort ==
  ASSUME NEW x \in Numbers
  PROVE  Len(x.text) <= MaxNumber
  <1>1. MaxNumber \in Nat
    BY GrammarAssumption
  <1>2. ASSUME NEW y \in Integral PROVE Len(y.text) <= MaxNumber
    <2>1. CASE y \in Whole
      BY <1>1, <2>1, WholeTyped
    <2>2. ASSUME NEW z \in Whole, Len(z.text) < MaxNumber, y = Means(Cat(<<"-">>, z.text), -z.value)
          PROVE  Len(y.text) <= MaxNumber
      <3>1. z.text \in Seq(Symbols) /\ <<"-">> \in Seq(Symbols) /\ Len(<<"-">>) = 1
        BY WholeTyped, SignsAre
      <3>2. y.text = Cat(<<"-">>, z.text)
        BY <2>2 DEF Means
      <3>3. Len(Cat(<<"-">>, z.text)) = Len(<<"-">>) + Len(z.text) /\ Len(z.text) \in Nat
        BY <3>1, CatIs
      <3>4. 1 + Len(z.text) <= MaxNumber
        BY <1>1, <2>2, <3>3
      <3>5. QED
        BY <3>1, <3>2, <3>3, <3>4
    <2>3. QED
      BY <2>1, <2>2, NegativeIs
  <1>3. ASSUME NEW a, NEW b, a.text \in Seq(Symbols), b.text \in Seq(Symbols), Together(a, b, MaxNumber)
        PROVE  Len(Cat(a.text, b.text)) <= MaxNumber
    <2>1. Len(Cat(a.text, b.text)) = Len(a.text) + Len(b.text)
      BY <1>3, CatIs
    <2>2. QED
      BY <1>3, <2>1 DEF Together
  <1>4. ASSUME NEW y \in Fractional PROVE Len(y.text) <= MaxNumber
    <2>1. PICK a \in Integral, b \in Fractions :
            Together(a, b, MaxNumber) /\ y = Means(Cat(a.text, b.text), Nonzero(a.value, b.value))
      BY FractionalIsJoined
    <2>2. PICK z \in SomeNumber : b = Means(Cat(<<".">>, z.text), z.value)
      BY DEF Fractions, Cat
    <2>3. z.text \in Seq(Symbols) /\ <<".">> \in Seq(Symbols) /\ a.text \in Seq(Symbols)
      BY WholeTyped, SignsAre, IntegralTyped
    <2>4. b.text = Cat(<<".">>, z.text)
      BY <2>2 DEF Means
    <2>5. b.text \in Seq(Symbols)
      BY <2>3, <2>4, CatIs
    <2>6. y.text = Cat(a.text, b.text)
      BY <2>1 DEF Means
    <2>7. QED
      BY <1>3, <2>1, <2>3, <2>5, <2>6
  <1>5. ASSUME NEW y \in Scientific PROVE Len(y.text) <= MaxNumber
    <2>1. PICK a \in Mantissas, b \in Exponents :
            Together(a, b, MaxNumber) /\ y = Means(Cat(a.text, b.text), Finite(a.value, b.value))
      BY ScientificIsJoined
    <2>2. a.text \in Seq(Symbols) /\ b.text \in Seq(Symbols)
      BY PartsTyped
    <2>3. y.text = Cat(a.text, b.text)
      BY <2>1 DEF Means
    <2>4. QED
      BY <1>3, <2>1, <2>2, <2>3
  <1>6. x \in Numbers => \E y \in Integral \cup Fractional \cup Scientific : x.text = y.text
    BY DEF Numbers, Means
  <1>7. QED
    BY <1>2, <1>4, <1>5, <1>6

LEMMA NumbersAreOverTheirAlphabet ==
  ASSUME NEW x \in Numbers
  PROVE  x.text \in Seq(Alphabet.number)
  <1> DEFINE t == x.text
             q == Len(t) + 1
  <1>1. t \in Seq(Symbols) /\ Len(t) \in Nat /\ Len(t) <= MaxNumber /\ x = Means(t, x.value)
    BY NumberTexts, NumbersAreShort
  <1>2. Segment(t, 1, q) = t
    <2>1. SubSeq(t, 1, Len(t)) = t /\ q - 1 = Len(t)
      BY <1>1, SubSeqFull
    <2>2. QED
      BY <2>1 DEF Segment
  <1>3. 1 \in 1 .. Len(t) + 1 /\ q \in 1 .. Len(t) + 1 /\ q - 1 <= MaxNumber
    BY <1>1
  <1>4. Means(Segment(t, 1, q), x.value) \in Numbers
    BY <1>1, <1>2
  <1> HIDE DEF t, q
  <1>5. PICK point \in 1 .. q, e \in 1 .. q : NumberAt(t, 1, point, e, q, x.value)
    BY <1>1, <1>3, <1>4, NumbersAreRead
  <1>6. \A i \in 1 .. q - 1 : At(t, i) \in Alphabet.number
    BY <1>1, <1>3, <1>5, NumberSymbols DEF NumberAt
  <1>7. \A i \in 1 .. Len(t) : t[i] \in Alphabet.number
    BY <1>1, <1>6 DEF At, q
  <1>8. t \in Seq(Alphabet.number)
    BY <1>1, <1>7
  <1>9. QED
    BY <1>8 DEF t

-----------------------------------------------------------------------------
(* Integers.                                                               *)

\* The cast to int keeps a number modulo the width of int, in the range of int.
LEMMA RangeOfReadInt ==
  ASSUME NEW n \in Int
  PROVE  /\ ReadInt(n) \in -(2 ^ (IntBits - 1)) .. 2 ^ (IntBits - 1) - 1
         /\ (ReadInt(n) - n) % 2 ^ IntBits = 0
  <1>1. PICK H \in Nat \ {0} : H = 2 ^ (IntBits - 1)
    BY GameStateAssumption
  <1>2. PICK M \in Nat \ {0} : M = 2 ^ IntBits
    BY GameStateAssumption
  <1>3. M = 2 * H
    BY <1>1, <1>2, GameStateAssumption
  <1>4. n # None
    BY NoneAssumption
  <1>5. ReadInt(n) = ((n + H) % M) - H
    BY <1>1, <1>2, <1>4 DEF ReadInt
  <1>6. (n + H) % M \in 0 .. M - 1
    OBVIOUS
  <1>7. ReadInt(n) \in -H .. H - 1
    BY <1>3, <1>5, <1>6
  <1>8. n + H = M * ((n + H) \div M) + ((n + H) % M) /\ (n + H) \div M \in Int
    OBVIOUS
  <1>9. ReadInt(n) - n = M * (-((n + H) \div M))
    BY <1>5, <1>8
  <1>10. \A k \in Int : (M * k) % M = 0
    OBVIOUS
  <1>11. QED
    BY <1>1, <1>2, <1>7, <1>8, <1>9, <1>10

\* The object around a number, symbol by symbol.
LEMMA MemberIs ==
  ASSUME text \in Seq(Alphabet.number), NEW n \in Nat, n = Len(text)
  PROVE  /\ Member \in Seq(Tokens) /\ Len(Member) = n + 4
         /\ At(Member, 1) = "begin_object" /\ At(Member, 2) = "'a'" /\ At(Member, 3) = "colon"
         /\ \A i \in 1 .. n : At(Member, i + 3) = text[i]
         /\ At(Member, n + 4) = "end_object"
         /\ Segment(Member, 4, n + 4) = text
  <1> DEFINE pre == <<"begin_object", "'a'", "colon">>
             post == <<"end_object">>
  <1>1. {"begin_object", "'a'", "colon", "end_object"} \subseteq Tokens /\ Alphabet.number \subseteq Tokens
    BY SymbolsAre DEF Alphabet, Tokens, Digits
  <1>2. /\ pre \in Seq(Tokens) /\ Len(pre) = 3
        /\ pre[1] = "begin_object" /\ pre[2] = "'a'" /\ pre[3] = "colon"
    BY <1>1
  <1>3. post \in Seq(Tokens) /\ Len(post) = 1 /\ post[1] = "end_object"
    BY <1>1
  <1>4. text \in Seq(Tokens)
    BY <1>1, SeqMonotonic
  <1>5. Member = Cat(Cat(pre, text), post)
    BY DEF Member, Cat
  <1> HIDE DEF pre, post
  <1>6. /\ Cat(pre, text) \in Seq(Tokens) /\ Len(Cat(pre, text)) = 3 + n
        /\ \A i \in 1 .. 3 + n : Cat(pre, text)[i] = IF i <= 3 THEN pre[i] ELSE text[i - 3]
    <2>1. /\ Cat(pre, text) \in Seq(Tokens) /\ Len(Cat(pre, text)) = Len(pre) + Len(text)
          /\ \A i \in 1 .. Len(pre) + Len(text) :
               Cat(pre, text)[i] = IF i <= Len(pre) THEN pre[i] ELSE text[i - Len(pre)]
      BY <1>2, <1>4, CatIs
    <2>2. Len(pre) = 3 /\ Len(text) = n
      BY <1>2
    <2>3. QED
      BY <2>1, <2>2
  <1>7. /\ Member \in Seq(Tokens) /\ Len(Member) = n + 4
        /\ \A i \in 1 .. n + 4 : Member[i] = IF i <= 3 + n THEN Cat(pre, text)[i] ELSE post[i - (3 + n)]
    <2> DEFINE w == Cat(pre, text)
    <2> HIDE DEF w
    <2>1. w \in Seq(Tokens)
      BY <1>6 DEF w
    <2>2. /\ Cat(w, post) \in Seq(Tokens) /\ Len(Cat(w, post)) = Len(w) + Len(post)
          /\ \A i \in 1 .. Len(w) + Len(post) :
               Cat(w, post)[i] = IF i <= Len(w) THEN w[i] ELSE post[i - Len(w)]
      BY <1>3, <2>1, CatIs
    <2>3. Len(w) = 3 + n /\ Len(post) = 1 /\ 3 + n + 1 = n + 4 /\ Member = Cat(w, post)
      BY <1>3, <1>5, <1>6 DEF w
    <2>4. /\ Member \in Seq(Tokens) /\ Len(Member) = 3 + n + 1
          /\ \A i \in 1 .. 3 + n + 1 : Member[i] = IF i <= 3 + n THEN w[i] ELSE post[i - (3 + n)]
      BY <2>2, <2>3
    <2>5. QED
      BY <2>3, <2>4 DEF w
  <1>8. \A i \in 1 .. n + 4 : At(Member, i) = Member[i]
    BY <1>7 DEF At
  <1>9. ASSUME NEW i \in 1 .. 3 PROVE At(Member, i) = pre[i]
    <2>1. i \in 1 .. n + 4 /\ i \in 1 .. 3 + n /\ i <= 3 /\ i <= 3 + n
      OBVIOUS
    <2>2. QED
      BY <1>6, <1>7, <1>8, <2>1
  <1>10. ASSUME NEW i \in 1 .. n PROVE At(Member, i + 3) = text[i]
    <2>1. PICK j \in 1 .. n + 4 : j = i + 3
      OBVIOUS
    <2>2. j \in 1 .. 3 + n /\ ~(j <= 3) /\ j <= 3 + n /\ j - 3 = i
      BY <2>1
    <2>3. At(Member, j) = text[j - 3]
      BY <1>6, <1>7, <1>8, <2>2
    <2>4. QED
      BY <2>1, <2>2, <2>3
  <1>11. At(Member, n + 4) = "end_object"
    <2>1. n + 4 \in 1 .. n + 4 /\ ~(n + 4 <= 3 + n) /\ n + 4 - (3 + n) = 1
      OBVIOUS
    <2>2. Member[n + 4] = post[n + 4 - (3 + n)]
      BY <1>7, <2>1
    <2>3. QED
      BY <1>3, <1>8, <2>1, <2>2
  <1>12. Segment(Member, 4, n + 4) = text
    <2>1. Member \in Seq(Symbols) /\ text \in Seq(Symbols)
      BY <1>4, <1>7, SeqMonotonic DEF Tokens
    <2>2. 4 \in 1 .. Len(Member) + 1 /\ n + 4 \in 4 .. Len(Member) + 1 /\ (n + 4) - 4 = n
      BY <1>7
    <2>3. /\ Segment(Member, 4, n + 4) \in Seq(Symbols) /\ Len(Segment(Member, 4, n + 4)) = n
          /\ \A i \in 1 .. n : Segment(Member, 4, n + 4)[i] = Member[4 + i - 1]
      <3>1. PICK whole \in Seq(Symbols) : whole = Member
        BY <2>1
      <3>2. PICK q \in 4 .. Len(whole) + 1 : q = n + 4 /\ q - 4 = n
        BY <2>2, <3>1
      <3>3. 4 \in 1 .. Len(whole) + 1
        BY <2>2, <3>1
      <3>4. /\ Segment(whole, 4, q) \in Seq(Symbols) /\ Len(Segment(whole, 4, q)) = q - 4
            /\ \A i \in 1 .. q - 4 : Segment(whole, 4, q)[i] = whole[4 + i - 1]
        <4> HIDE <3>1, <3>2
        <4> QED BY <3>3, SegmentIs
      <3>5. QED
        BY <3>1, <3>2, <3>4
    <2>4. ASSUME NEW i \in 1 .. n PROVE Segment(Member, 4, n + 4)[i] = text[i]
      <3>1. 4 + i - 1 = i + 3 /\ i + 3 \in 1 .. n + 4
        OBVIOUS
      <3>2. Segment(Member, 4, n + 4)[i] = Member[i + 3]
        BY <2>3, <3>1
      <3>3. QED
        BY <1>8, <1>10, <3>1, <3>2
    <2>5. QED
      BY <2>1, <2>3, <2>4, SeqEqual
  <1>13. At(Member, 1) = "begin_object" /\ At(Member, 2) = "'a'" /\ At(Member, 3) = "colon"
    BY <1>2, <1>9
  <1>14. QED
    BY <1>7, <1>10, <1>11, <1>12, <1>13

\* What is read of the member is what is parsed of the number in it.
LEMMA MemberParsed ==
  ASSUME text \in Seq(Alphabet.number), Len(text) <= MaxNumber, NEW n \in Nat, n = Len(text)
  PROVE  LET number == ParseNumber(Member, 4)
         IN  /\ \A v : Means(text, v) \in Numbers =>
                  number = Ok(v, n + 4) /\ ReadIntAt(ParseJson(Member), MemberPath) =
                                             IF v[1] = "int" THEN ReadInt(v[2]) ELSE None
             /\ (\A v : Means(text, v) \notin Numbers) =>
                  ReadIntAt(ParseJson(Member), MemberPath) = None
  <1>1. PICK t : t = Member
    OBVIOUS
  <1>2. /\ t \in Seq(Tokens) /\ Len(t) = n + 4
        /\ At(t, 1) = "begin_object" /\ At(t, 2) = "'a'" /\ At(t, 3) = "colon"
        /\ \A i \in 1 .. n : At(t, i + 3) = text[i]
        /\ At(t, n + 4) = "end_object"
        /\ Segment(t, 4, n + 4) = text
    BY <1>1, MemberIs
  <1>3. t \in Seq(Symbols) /\ Len(t) \in Nat /\ \A p \in 1 .. n + 5 : p \in 1 .. Len(t) + 1
          /\ SkipWs(t, p) = p
    <2>1. \A p \in 1 .. n + 5 : p \in 1 .. Len(t) + 1
      BY <1>2
    <2>2. QED
      BY <1>2, <2>1, NoWhiteSpace
  <1>4. \A i \in 4 .. n + 3 : At(t, i) \in Alphabet.number
    <2>1. \A i \in 4 .. n + 3 : i - 3 \in 1 .. n /\ (i - 3) + 3 = i
      OBVIOUS
    <2>2. \A i \in 1 .. n : text[i] \in Alphabet.number
      OBVIOUS
    <2>3. ASSUME NEW i \in 4 .. n + 3 PROVE At(t, i) \in Alphabet.number
      <3>1. At(t, (i - 3) + 3) = text[i - 3] /\ text[i - 3] \in Alphabet.number
        BY <1>2, <2>1, <2>2
      <3>2. QED
        BY <2>1, <3>1
    <2>4. QED
      BY <2>3
  <1> DEFINE P == Parser(t)
             number == ParseNumber(t, 4)
             value == P[<<"value", 4>>]
             members == P[<<"members", 2>>]
             rest == Rest(t, SkipWs(t, value.next), "end_object", "members", P)
  <1>5. Result(t) = Typed("object", members)
    <2>1. 1 \in 1 .. n + 5 /\ 2 \in 1 .. n + 5 /\ 1 + 1 = 2
      OBVIOUS
    <2>2. Result(t) = Container(t, SkipWs(t, 1 + 1), "object", "end_object", "members", P)
      BY <1>2, <1>3, <2>1, ResultIs, ValueAtIs
    <2>3. At(t, 2) # "end_object"
      BY <1>2
    <2> HIDE DEF P
    <2>4. QED
      BY <1>3, <2>1, <2>2, <2>3 DEF Container
  <1>6. members = IF value.ok /\ rest.ok
                  THEN Ok(Insert(<<"a">>, value.value, rest.value), rest.next) ELSE Fail
    <2>1. 2 \in 1 .. n + 5 /\ 3 \in 1 .. n + 5 /\ 2 + 1 = 3 /\ 3 + 1 = 4
      OBVIOUS
    <2>2. members = MembersAt(t, 2, P)
      BY <1>3, <2>1, CallsAre
    <2>3. t[2] = "'a'"
      BY <1>2 DEF At
    <2>4. ParseString(t, 2) = Ok(<<"a">>, 3)
      BY <1>2, <2>1, <2>3 DEF ParseString, Quoted, Content
    <2>5. SkipWs(t, 2) = 2 /\ SkipWs(t, 3) = 3
      BY <1>3, <2>1
    <2> HIDE DEF P
    <2>6. Ok(<<"a">>, 3).ok /\ Ok(<<"a">>, 3).next = 3 /\ Ok(<<"a">>, 3).value = <<"a">>
      BY DEF Ok
    <2>7. ParseString(t, SkipWs(t, 2)) = Ok(<<"a">>, 3) /\ SkipWs(t, Ok(<<"a">>, 3).next) = 3
      BY <2>4, <2>5, <2>6
    <2>8. MembersAt(t, 2, P) =
            IF Ok(<<"a">>, 3).ok /\ At(t, 3) = "colon" /\ value.ok /\ rest.ok
            THEN Ok(Insert(Ok(<<"a">>, 3).value, value.value, rest.value), rest.next) ELSE Fail
      BY <2>1, <2>7 DEF MembersAt
    <2> HIDE DEF value, rest, members
    <2>9. QED
      BY <1>2, <2>2, <2>6, <2>8
  <1>7. value = IF At(t, 4) \in {"-"} \cup Digits THEN number ELSE Fail
    <2>1. 4 \in 1 .. n + 5 /\ 4 \in 1 .. Len(t) + 1
      BY <1>2
    <2>2. value = ValueAt(t, 4, P) /\ SkipWs(t, 4) = 4
      BY <1>3, <2>1, CallsAre
    <2>3. At(t, 4) \in Alphabet.number \cup {"end_object"}
      <3>1. n = 0 \/ 4 \in 4 .. n + 3
        OBVIOUS
      <3>2. QED
        BY <1>2, <1>4, <3>1
    <2>4. At(t, 4) \notin {"-"} \cup Digits => At(t, 4) \in {"+", ".", "e", "end_object"}
      BY <2>3 DEF Alphabet
    <2>5. At(t, 4) \notin {"-"} \cup Digits =>
            At(t, 4) \notin {"begin_object", "begin_array", "quote", "-"} \cup Quoted \cup Literals
              \cup Digits
      BY <2>4 DEF Quoted, Literals
    <2> HIDE DEF P, number
    <2>6. QED
      BY <2>2, <2>5, ValueAtIs DEF number
  <1>8. ASSUME value.ok
        PROVE  /\ value = number /\ value.next \in 5 .. n + 4
               /\ IF value.next = n + 4 THEN rest = Ok(<<>>, n + 5) ELSE rest = Fail
    <2>1. value = number /\ At(t, 4) \in {"-"} \cup Digits
      BY <1>7, <1>8 DEF Fail
    <2>2. 4 \in 1 .. Len(t) + 1
      BY <1>2
    <2>3. number.next \in 5 .. n + 5
      <3>1. Outcome(number, 4, t) /\ number.ok
        BY <1>3, <1>8, <2>1, <2>2, NumberEnds
      <3> HIDE DEF number
      <3>2. QED
        BY <1>2, <3>1 DEF Outcome
    <2>4. number.next \in 5 .. n + 4
      <3> DEFINE point == IntegerPart(t, BeginOf(t, 4))
                 e == FractionPart(t, point)
                 end == ExponentPart(t, e)
      <3> HIDE DEF point, e, end
      <3>1. number =
             IF point = 0 \/ e = 0 \/ end = 0 THEN Fail
             ELSE IF (end = point /\ FitsLong(IntegerAt(t, 4, point))) \/ IsFinite(t, 4, e, end)
                  THEN Ok(Denoted(t, 4, point, end), end)
             ELSE Fail
        BY <1>3, <2>2, ParseNumberIs DEF point, e, end
      <3>2. number.ok /\ ~Fail.ok
        BY <1>8, <2>1 DEF Fail
      <3>3. point # 0 /\ e # 0 /\ end # 0 /\ number = Ok(Denoted(t, 4, point, end), end)
        BY <3>1, <3>2
      <3>4. number.next = end
        BY <3>3 DEF Ok
      <3>5. end \in 4 .. Len(t) + 1 /\ point \in 4 .. end /\ e \in 4 .. end /\ PartsAt(t, 4, point, e, end)
        BY <1>3, <2>2, <3>3, PartsParsed DEF point, e, end
      <3>6. \A i \in 4 .. end - 1 : At(t, i) \in Alphabet.number
        BY <1>3, <2>2, <3>5, NumberSymbols
      <3>7. "end_object" \notin Alphabet.number
        BY DEF Alphabet, Digits
      <3>8. end # n + 5
        <4>1. n + 4 \in 4 .. (n + 5) - 1
          OBVIOUS
        <4>2. QED
          BY <1>2, <3>6, <3>7, <4>1
      <3> HIDE DEF number
      <3>9. QED
        BY <2>3, <3>4, <3>8
    <2>5. value.next \in 5 .. n + 4 /\ SkipWs(t, value.next) = value.next
      <3>1. value.next \in 1 .. n + 5
        BY <2>1, <2>4
      <3>2. QED
        BY <1>3, <2>1, <2>4, <3>1
    <2>6. CASE value.next = n + 4
      <3>1. At(t, SkipWs(t, value.next)) = "end_object" /\ SkipWs(t, value.next) + 1 = n + 5
        BY <1>2, <2>5, <2>6
      <3>2. rest = Ok(<<>>, n + 5)
        BY <3>1 DEF Rest
      <3>3. QED
        BY <2>1, <2>5, <2>6, <3>2
    <2>7. CASE value.next # n + 4
      <3>1. value.next \in 4 .. n + 3
        BY <2>5, <2>7
      <3>2. At(t, SkipWs(t, value.next)) \in Alphabet.number
        BY <1>4, <2>5, <3>1
      <3>3. "end_object" \notin Alphabet.number /\ "comma" \notin Alphabet.number
        BY DEF Alphabet, Digits
      <3>4. rest = Fail
        BY <3>2, <3>3 DEF Rest
      <3>5. QED
        BY <2>1, <2>5, <2>7, <3>4
    <2>8. QED
      BY <2>6, <2>7
  <1>9. ParseJson(t) = IF value.ok /\ value.next = n + 4
                       THEN <<"object", Insert(<<"a">>, value.value, <<>>)>> ELSE <<None>>
    <2> HIDE DEF P, value, rest, number
    <2>1. CASE value.ok /\ value.next = n + 4
      <3>1. rest = Ok(<<>>, n + 5)
        BY <1>8, <2>1
      <3>2. rest.ok /\ rest.value = <<>> /\ rest.next = n + 5
        BY <3>1 DEF Ok
      <3>3. members = Ok(Insert(<<"a">>, value.value, <<>>), n + 5)
        BY <1>6, <2>1, <3>2
      <3> HIDE DEF members
      <3>4. Result(t) = Ok(<<"object", Insert(<<"a">>, value.value, <<>>)>>, n + 5)
        BY <1>5, <3>3 DEF Typed, Ok
      <3>5. /\ Result(t).ok /\ Result(t).next = n + 5
            /\ Result(t).value = <<"object", Insert(<<"a">>, value.value, <<>>)>>
        BY <3>4 DEF Ok
      <3>6. SkipWs(t, n + 5) = Len(t) + 1
        <4>1. n + 5 \in 1 .. n + 5 /\ Len(t) + 1 = n + 5
          BY <1>2
        <4>2. QED
          BY <1>3, <4>1
      <3>7. QED
        BY <2>1, <3>5, <3>6 DEF ParseJson, Result
    <2>2. CASE ~(value.ok /\ value.next = n + 4)
      <3>1. ~(value.ok /\ rest.ok)
        BY <1>8, <2>2 DEF Fail
      <3>2. members = Fail
        BY <1>6, <3>1
      <3> HIDE DEF members
      <3>3. ~Result(t).ok
        BY <1>5, <3>2 DEF Typed, Fail
      <3>4. QED
        BY <2>2, <3>3 DEF ParseJson, Result
    <2>3. QED
      BY <2>1, <2>2
  <1> DEFINE read == ReadIntAt(ParseJson(t), MemberPath)
  <1>10. FindPath(ParseJson(t), MemberPath) = Get(ParseJson(t), <<"a">>)
    BY FindPathIs DEF MemberPath
  <1>11. ASSUME value.ok, value.next = n + 4
         PROVE  read = IF value.value[1] = "int" THEN ReadInt(value.value[2]) ELSE None
    <2> DEFINE w == value.value
               object == Insert(<<"a">>, w, <<>>)
    <2> HIDE DEF value
    <2>1. DOMAIN object = {<<"a">>} /\ object[<<"a">>] = w
      <3>1. DOMAIN <<>> = {}
        OBVIOUS
      <3> HIDE DEF w
      <3>2. QED
        BY <3>1 DEF Insert
    <2> HIDE DEF w, object
    <2>2. ParseJson(t) = <<"object", object>>
      BY <1>9, <1>11 DEF w, object
    <2>3. Get(ParseJson(t), <<"a">>) = w
      <3>1. <<"object", object>>[1] = "object" /\ <<"object", object>>[2] = object
        OBVIOUS
      <3>2. <<"a">> \in DOMAIN object
        BY <2>1
      <3>3. Get(<<"object", object>>, <<"a">>) = object[<<"a">>]
        BY <3>1, <3>2 DEF Get
      <3>4. QED
        BY <2>1, <2>2, <3>3
    <2>4. QED
      BY <1>10, <2>3 DEF ReadIntAt, w
  <1>12. ASSUME ~(value.ok /\ value.next = n + 4) PROVE read = None
    <2> HIDE DEF value
    <2>1. ParseJson(t) = <<None>>
      BY <1>9, <1>12
    <2>2. <<None>>[1] = None /\ None # "object" /\ None # "int"
      BY JsonAssumption
    <2>3. Get(<<None>>, <<"a">>) = <<None>>
      BY <2>2 DEF Get
    <2>4. QED
      BY <1>10, <2>1, <2>2, <2>3 DEF ReadIntAt
  <1>13. 4 \in 1 .. Len(t) + 1 /\ n + 4 \in 4 .. Len(t) + 1 /\ (n + 4) - 4 <= MaxNumber
    BY <1>2
  <1>14. At(t, n + 4) \notin Alphabet.number
    BY <1>2 DEF Alphabet, Digits
  <1>15. ASSUME NEW v, Means(text, v) \in Numbers
         PROVE  number = Ok(v, n + 4) /\ read = IF v[1] = "int" THEN ReadInt(v[2]) ELSE None
    <2>1. number = Ok(v, n + 4)
      BY <1>2, <1>3, <1>13, <1>14, <1>15, NumberParsed
    <2>2. PICK point \in 4 .. n + 4, e \in 4 .. n + 4 : NumberAt(t, 4, point, e, n + 4, v)
      BY <1>2, <1>3, <1>13, <1>15, NumbersAreRead
    <2>3. At(t, 4) \in {"-"} \cup Digits
      BY <1>3, <1>13, <2>2, NumberSymbols DEF NumberAt
    <2>4. value = Ok(v, n + 4)
      BY <1>7, <2>1, <2>3
    <2>5. value.ok /\ value.next = n + 4 /\ value.value = v
      BY <2>4 DEF Ok
    <2> HIDE DEF value, read, number
    <2>6. QED
      BY <1>11, <2>1, <2>5
  <1>16. ASSUME \A v : Means(text, v) \notin Numbers PROVE read = None
    <2>1. ASSUME value.ok, value.next = n + 4 PROVE FALSE
      <3>1. value = number
        BY <1>8, <2>1
      <3>2. Means(Segment(t, 4, n + 4), number.value) \in Numbers
        BY <1>3, <1>13, <2>1, <3>1, NumberParsed
      <3>3. QED
        BY <1>2, <1>16, <3>2
    <2> HIDE DEF value, read
    <2>2. QED
      BY <1>12, <2>1
  <1> HIDE DEF read
  <1>17. QED
    BY <1>1, <1>15, <1>16 DEF read

\* read_int reads a number of the grammar as intended, and nothing else.
LEMMA IntegersRead ==
  ASSUME text \in Seq(Alphabet.number), Len(text) <= MaxNumber
  PROVE  IntegersAreRead
  <1> DEFINE read == ReadIntAt(ParseJson(Member), MemberPath)
             sent == {x.value : x \in {y \in Integral : y.text = text}}
             least == -(2 ^ (IntBits - 1))
             typed(n) == IF FitsLong(n) THEN <<"int", n>> ELSE <<"double">>
  <1>1. PICK n \in Nat : n = Len(text)
    OBVIOUS
  <1>2. ASSUME NEW v, Means(text, v) \in Numbers
        PROVE  read = IF v[1] = "int" THEN ReadInt(v[2]) ELSE None
    BY <1>1, <1>2, MemberParsed
  <1>3. (\A v : Means(text, v) \notin Numbers) => read = None
    BY <1>1, MemberParsed
  <1> HIDE DEF read
  <1>4. ASSUME NEW m \in sent PROVE m \in Int /\ Means(text, typed(m)) \in Numbers
    <2>1. PICK x \in Integral : x.text = text /\ x.value = m
      OBVIOUS
    <2>2. m \in Int
      BY <2>1, IntegralTyped
    <2>3. Means(text, typed(m)) \in Numbers
      BY <2>1, NumbersAre
    <2>4. QED
      BY <2>2, <2>3
  <1>5. ASSUME sent = {} PROVE read = None
    <2>1. \A v : Means(text, v) \in Numbers => v = <<"double">>
      <3>1. \A x \in Integral : x.text # text
        BY <1>5
      <3> HIDE DEF sent
      <3>2. QED
        BY <3>1, NumbersAre
    <2>2. <<"double">>[1] # "int"
      OBVIOUS
    <2> HIDE DEF sent
    <2>3. QED
      BY <1>2, <1>3, <2>1, <2>2
  <1>6. ASSUME NEW m \in sent, ~FitsLong(m) PROVE read = None
    <2>1. typed(m) = <<"double">>
      BY <1>6
    <2>2. Means(text, <<"double">>) \in Numbers
      BY <1>4, <2>1
    <2>3. <<"double">>[1] # "int"
      OBVIOUS
    <2>4. QED
      BY <1>2, <2>2, <2>3
  <1>7. ASSUME NEW m \in sent, FitsLong(m)
        PROVE  read \in least .. -least - 1 /\ (read - m) % 2 ^ IntBits = 0
    <2>1. typed(m) = <<"int", m>>
      BY <1>7
    <2>2. Means(text, <<"int", m>>) \in Numbers /\ m \in Int
      BY <1>4, <2>1
    <2>3. <<"int", m>>[1] = "int" /\ <<"int", m>>[2] = m
      OBVIOUS
    <2>4. read = ReadInt(m)
      BY <1>2, <2>2, <2>3
    <2>5. -least - 1 = 2 ^ (IntBits - 1) - 1
      BY GameStateAssumption
    <2>6. QED
      BY <2>2, <2>4, <2>5, RangeOfReadInt
  <1> HIDE DEF sent, least
  <1>8. IF sent = {} \/ \E m \in sent : ~FitsLong(m) THEN read = None
        ELSE \A m \in sent : read \in least .. -least - 1 /\ (read - m) % 2 ^ IntBits = 0
    BY <1>5, <1>6, <1>7
  <1>9. QED
    BY <1>8 DEF IntegersAreRead, read, sent, least

-----------------------------------------------------------------------------
(* Strings.                                                                *)

\* Segments of two, three and six symbols.
LEMMA Segment2Is ==
  ASSUME NEW t \in Seq(Symbols), NEW p \in 1 .. Len(t) + 1, p + 2 <= Len(t) + 1
  PROVE  Segment(t, p, p + 2) = <<At(t, p), At(t, p + 1)>>
  <1>1. Len(t) \in Nat /\ p \in Nat /\ p + 2 \in p .. Len(t) + 1 /\ (p + 2) - p = 2
    OBVIOUS
  <1>2. /\ Segment(t, p, p + 2) \in Seq(Symbols) /\ Len(Segment(t, p, p + 2)) = 2
        /\ \A i \in 1 .. 2 : Segment(t, p, p + 2)[i] = t[p + i - 1]
    BY <1>1, SegmentIs
  <1>3. \A i \in 0 .. 1 : At(t, p + i) = t[p + i] /\ t[p + i] \in Symbols
    BY <1>1 DEF At
  <1>4. /\ Segment(t, p, p + 2)[1] = At(t, p) /\ At(t, p) \in Symbols
        /\ Segment(t, p, p + 2)[2] = At(t, p + 1) /\ At(t, p + 1) \in Symbols
    <2>1. p + (1 - 1) = p + 0 /\ p + (2 - 1) = p + 1 /\ p + 0 = p
      BY <1>1
    <2>2. \A i \in 1 .. 2 : Segment(t, p, p + 2)[i] = At(t, p + (i - 1)) /\ At(t, p + (i - 1)) \in Symbols
      <3>1. \A i \in 1 .. 2 : i - 1 \in 0 .. 1 /\ p + i - 1 = p + (i - 1)
        BY <1>1
      <3>2. QED
        BY <1>2, <1>3, <3>1
    <2>3. QED
      BY <1>1, <2>1, <2>2
  <1> DEFINE tuple == <<At(t, p), At(t, p + 1)>>
  <1>5. tuple \in Seq(Symbols) /\ Len(tuple) = 2 /\ tuple[1] = At(t, p) /\ tuple[2] = At(t, p + 1)
    BY <1>4
  <1> HIDE DEF tuple
  <1>6. \A i \in 1 .. 2 : Segment(t, p, p + 2)[i] = tuple[i]
    <2>1. \A i \in 1 .. 2 : i = 1 \/ i = 2
      OBVIOUS
    <2>2. QED
      BY <1>4, <1>5, <2>1
  <1>7. Segment(t, p, p + 2) = tuple
    BY <1>2, <1>5, <1>6, SeqEqual
  <1>8. QED
    BY <1>7 DEF tuple

LEMMA Segment3Is ==
  ASSUME NEW t \in Seq(Symbols), NEW p \in 1 .. Len(t) + 1, p + 3 <= Len(t) + 1
  PROVE  Segment(t, p, p + 3) = <<At(t, p), At(t, p + 1), At(t, p + 2)>>
  <1>1. Len(t) \in Nat /\ p \in Nat /\ p + 3 \in p .. Len(t) + 1 /\ (p + 3) - p = 3
    OBVIOUS
  <1>2. /\ Segment(t, p, p + 3) \in Seq(Symbols) /\ Len(Segment(t, p, p + 3)) = 3
        /\ \A i \in 1 .. 3 : Segment(t, p, p + 3)[i] = t[p + i - 1]
    BY <1>1, SegmentIs
  <1>3. \A i \in 0 .. 2 : At(t, p + i) = t[p + i] /\ t[p + i] \in Symbols
    BY <1>1 DEF At
  <1>4. /\ Segment(t, p, p + 3)[1] = At(t, p) /\ At(t, p) \in Symbols
        /\ Segment(t, p, p + 3)[2] = At(t, p + 1) /\ At(t, p + 1) \in Symbols
        /\ Segment(t, p, p + 3)[3] = At(t, p + 2) /\ At(t, p + 2) \in Symbols
    <2>1. p + (1 - 1) = p + 0 /\ p + (2 - 1) = p + 1 /\ p + (3 - 1) = p + 2 /\ p + 0 = p
      BY <1>1
    <2>2. \A i \in 1 .. 3 : Segment(t, p, p + 3)[i] = At(t, p + (i - 1)) /\ At(t, p + (i - 1)) \in Symbols
      <3>1. \A i \in 1 .. 3 : i - 1 \in 0 .. 2 /\ p + i - 1 = p + (i - 1)
        BY <1>1
      <3>2. QED
        BY <1>2, <1>3, <3>1
    <2>3. QED
      BY <1>1, <2>1, <2>2
  <1> DEFINE tuple == <<At(t, p), At(t, p + 1), At(t, p + 2)>>
  <1>5. tuple \in Seq(Symbols) /\ Len(tuple) = 3 /\ tuple[1] = At(t, p) /\ tuple[2] = At(t, p + 1)
          /\ tuple[3] = At(t, p + 2)
    BY <1>4
  <1> HIDE DEF tuple
  <1>6. \A i \in 1 .. 3 : Segment(t, p, p + 3)[i] = tuple[i]
    <2>1. \A i \in 1 .. 3 : i = 1 \/ i = 2 \/ i = 3
      OBVIOUS
    <2>2. QED
      BY <1>4, <1>5, <2>1
  <1>7. Segment(t, p, p + 3) = tuple
    BY <1>2, <1>5, <1>6, SeqEqual
  <1>8. QED
    BY <1>7 DEF tuple

LEMMA Segment6Is ==
  ASSUME NEW t \in Seq(Symbols), NEW p \in 1 .. Len(t) + 1, p + 6 <= Len(t) + 1
  PROVE  Segment(t, p, p + 6) = <<At(t, p), At(t, p + 1), At(t, p + 2), At(t, p + 3), At(t, p + 4),
           At(t, p + 5)>>
  <1>1. Len(t) \in Nat /\ p \in Nat /\ p + 6 \in p .. Len(t) + 1 /\ (p + 6) - p = 6
    OBVIOUS
  <1>2. /\ Segment(t, p, p + 6) \in Seq(Symbols) /\ Len(Segment(t, p, p + 6)) = 6
        /\ \A i \in 1 .. 6 : Segment(t, p, p + 6)[i] = t[p + i - 1]
    BY <1>1, SegmentIs
  <1>3. \A i \in 0 .. 5 : At(t, p + i) = t[p + i] /\ t[p + i] \in Symbols
    BY <1>1 DEF At
  <1>4. /\ Segment(t, p, p + 6)[1] = At(t, p) /\ At(t, p) \in Symbols
        /\ Segment(t, p, p + 6)[2] = At(t, p + 1) /\ At(t, p + 1) \in Symbols
        /\ Segment(t, p, p + 6)[3] = At(t, p + 2) /\ At(t, p + 2) \in Symbols
        /\ Segment(t, p, p + 6)[4] = At(t, p + 3) /\ At(t, p + 3) \in Symbols
        /\ Segment(t, p, p + 6)[5] = At(t, p + 4) /\ At(t, p + 4) \in Symbols
        /\ Segment(t, p, p + 6)[6] = At(t, p + 5) /\ At(t, p + 5) \in Symbols
    <2>1. p + (1 - 1) = p + 0 /\ p + (2 - 1) = p + 1 /\ p + (3 - 1) = p + 2 /\ p + (4 - 1) = p + 3
            /\ p + (5 - 1) = p + 4 /\ p + (6 - 1) = p + 5 /\ p + 0 = p
      BY <1>1
    <2>2. \A i \in 1 .. 6 : Segment(t, p, p + 6)[i] = At(t, p + (i - 1)) /\ At(t, p + (i - 1)) \in Symbols
      <3>1. \A i \in 1 .. 6 : i - 1 \in 0 .. 5 /\ p + i - 1 = p + (i - 1)
        BY <1>1
      <3>2. QED
        BY <1>2, <1>3, <3>1
    <2>3. QED
      BY <1>1, <2>1, <2>2
  <1> DEFINE tuple == <<At(t, p), At(t, p + 1), At(t, p + 2), At(t, p + 3), At(t, p + 4), At(t, p + 5)>>
  <1>5. tuple \in Seq(Symbols) /\ Len(tuple) = 6 /\ tuple[1] = At(t, p) /\ tuple[2] = At(t, p + 1)
          /\ tuple[3] = At(t, p + 2) /\ tuple[4] = At(t, p + 3) /\ tuple[5] = At(t, p + 4)
          /\ tuple[6] = At(t, p + 5)
    BY <1>4
  <1> HIDE DEF tuple
  <1>6. \A i \in 1 .. 6 : Segment(t, p, p + 6)[i] = tuple[i]
    <2>1. \A i \in 1 .. 6 : i = 1 \/ i = 2 \/ i = 3 \/ i = 4 \/ i = 5 \/ i = 6
      OBVIOUS
    <2>2. QED
      BY <1>4, <1>5, <2>1
  <1>7. Segment(t, p, p + 6) = tuple
    BY <1>2, <1>5, <1>6, SeqEqual
  <1>8. QED
    BY <1>7 DEF tuple

\* The units of a string.
LEMMA UnitsAre ==
  ASSUME NEW x
  PROVE  x \in Units <=>
           \/ \E c \in Plain : x = Means(<<c>>, <<c>>)
           \/ \E c \in Escapes : x = Means(<<"backslash", c>>, <<Unescaped[c]>>)
           \/ x = Means(<<"backslash", "u", "0041">>, <<"U+0041">>)
           \/ x = Means(<<"backslash", "u", "D83D", "backslash", "u", "DE00">>, <<"U+1F600">>)
  BY DEF Units

\* A character that is parsed is a unit of the grammar.
LEMMA UnitParsed ==
  ASSUME NEW t \in Seq(Symbols), NEW p \in 1 .. Len(t), At(t, p) \in Alphabet.string \ {"quote"},
         Character(t, p).ok
  PROVE  Means(Segment(t, p, Character(t, p).next), <<Character(t, p).value>>) \in Units
  <1>1. Len(t) \in Nat /\ p \in 1 .. Len(t) + 1 /\ p \in p .. Len(t)
    OBVIOUS
  <1>2. Character(t, p).next \in p + 1 .. Len(t) + 1
    BY <1>1, CharacterIs
  <1>3. \A q \in Nat : At(t, q) = "end" \/ (q <= Len(t) /\ At(t, q) = t[q])
    BY <1>1 DEF At
  <1>4. CASE At(t, p) \in Plain
    <2>1. At(t, p) \notin {"end", "control"} /\ At(t, p) # "backslash" /\ At(t, p) = t[p]
      BY <1>1, <1>4 DEF Plain, HexGroups, At
    <2>2. Character(t, p) = Ok(t[p], p + 1)
      BY <2>1 DEF Character
    <2>3. Character(t, p).next = p + 1 /\ Character(t, p).value = At(t, p)
      BY <2>1, <2>2 DEF Ok
    <2>4. Segment(t, p, p + 1) = <<At(t, p)>>
      BY <1>1, OneMore
    <2>5. QED
      BY <1>4, <2>3, <2>4, UnitsAre
  <1>5. CASE At(t, p) = "backslash" /\ At(t, p + 1) \in Escapes
    <2>1. p + 2 <= Len(t) + 1 /\ At(t, p + 1) = t[p + 1]
      <3>1. At(t, p + 1) # "end"
        BY <1>5 DEF Escapes
      <3>2. p + 1 \in Nat /\ p + 1 <= Len(t) /\ At(t, p + 1) = t[p + 1]
        BY <1>1, <1>3, <3>1
      <3>3. QED
        BY <1>1, <3>2
    <2>2. Character(t, p) = Ok(Unescaped[t[p + 1]], p + 2)
      BY <1>5 DEF Character, Escapes
    <2>3. Character(t, p).next = p + 2 /\ Character(t, p).value = Unescaped[At(t, p + 1)]
      BY <2>1, <2>2 DEF Ok
    <2>4. Segment(t, p, p + 2) = <<"backslash", At(t, p + 1)>>
      BY <1>1, <1>5, <2>1, Segment2Is
    <2>5. QED
      BY <1>5, <2>3, <2>4, UnitsAre
  <1>6. CASE At(t, p) = "backslash" /\ At(t, p + 1) = "u"
    <2>1. Character(t, p) = EscapedUnicode(t, p + 2)
      BY <1>6 DEF Character, Escapes
    <2> DEFINE group == At(t, p + 2)
    <2>2. CASE group \in High
      <3>1. /\ At(t, (p + 2) + 1) = "backslash" /\ At(t, (p + 2) + 2) = "u" /\ At(t, (p + 2) + 3) \in Low
            /\ EscapedUnicode(t, p + 2) = Ok(CodePoint(<<group, t[(p + 2) + 3]>>), (p + 2) + 4)
        BY <1>1, <2>1, <2>2 DEF EscapedUnicode, Fail
      <3>2. (p + 2) + 1 = p + 3 /\ (p + 2) + 2 = p + 4 /\ (p + 2) + 3 = p + 5 /\ (p + 2) + 4 = p + 6
        BY <1>1
      <3>3. At(t, p + 5) = t[p + 5] /\ p + 6 <= Len(t) + 1 /\ At(t, p + 5) = "DE00" /\ group = "D83D"
        <4>1. At(t, p + 5) = "DE00" /\ group = "D83D"
          BY <2>2, <3>1, <3>2 DEF Low, High
        <4>2. p + 5 \in Nat /\ p + 5 <= Len(t) /\ At(t, p + 5) = t[p + 5]
          BY <1>1, <1>3, <4>1
        <4>3. QED
          BY <1>1, <4>1, <4>2
      <3>4. Character(t, p) = Ok(CodePoint(<<"D83D", "DE00">>), p + 6)
        BY <2>1, <3>1, <3>2, <3>3
      <3>5. CodePoint(<<"D83D", "DE00">>) = "U+1F600"
        <4>1. <<"D83D", "DE00">> # <<"0041">>
          <5>1. Len(<<"D83D", "DE00">>) = 2 /\ Len(<<"0041">>) = 1
            OBVIOUS
          <5>2. QED
            BY <5>1
        <4>2. QED
          BY <4>1 DEF CodePoint
      <3>6. Character(t, p).next = p + 6 /\ Character(t, p).value = "U+1F600"
        BY <3>4, <3>5 DEF Ok
      <3>7. Segment(t, p, p + 6) = <<"backslash", "u", "D83D", "backslash", "u", "DE00">>
        BY <1>1, <1>6, <3>1, <3>2, <3>3, Segment6Is
      <3>8. QED
        BY <3>6, <3>7, UnitsAre
    <2>3. CASE group \in HexGroups \ (High \cup Low)
      <3>1. group = "0041" /\ group \notin High
        BY <2>3 DEF HexGroups, High, Low
      <3>2. EscapedUnicode(t, p + 2) = Ok(CodePoint(<<group>>), (p + 2) + 1) /\ (p + 2) + 1 = p + 3
        BY <1>1, <2>3, <3>1 DEF EscapedUnicode
      <3>3. CodePoint(<<"0041">>) = "U+0041"
        BY DEF CodePoint
      <3>4. Character(t, p).next = p + 3 /\ Character(t, p).value = "U+0041"
        BY <2>1, <3>1, <3>2, <3>3 DEF Ok
      <3>5. p + 3 <= Len(t) + 1
        BY <1>1, <1>2, <3>4
      <3>6. Segment(t, p, p + 3) = <<"backslash", "u", "0041">>
        BY <1>1, <1>6, <3>1, <3>5, Segment3Is
      <3>7. QED
        BY <3>4, <3>6, UnitsAre
    <2>4. CASE group \notin High /\ group \notin HexGroups \ (High \cup Low)
      <3>1. EscapedUnicode(t, p + 2) = Fail
        BY <2>4 DEF EscapedUnicode
      <3>2. QED
        BY <2>1, <3>1 DEF Fail
    <2>5. QED
      BY <2>2, <2>3, <2>4
  <1>7. CASE At(t, p) = "control"
    BY <1>7 DEF Character, Fail
  <1>8. CASE At(t, p) = "backslash" /\ At(t, p + 1) \notin Escapes \cup {"u"}
    BY <1>8 DEF Character, Fail
  <1>9. QED
    BY <1>4, <1>5, <1>6, <1>7, <1>8 DEF Alphabet, Plain

\* A unit of the grammar is parsed as a character.
LEMMA UnitFound ==
  ASSUME NEW t \in Seq(Symbols), NEW p \in 1 .. Len(t) + 1, NEW q \in p .. Len(t) + 1,
         NEW x \in Units, x.text = Segment(t, p, q)
  PROVE  /\ p < q /\ At(t, p) # "quote"
         /\ Character(t, p).ok /\ Character(t, p).next = q
  <1> DEFINE segment == Segment(t, p, q)
  <1> HIDE DEF segment
  <1>1. Len(t) \in Nat /\ p \in Nat /\ q \in Nat /\ p <= q /\ q <= Len(t) + 1
    OBVIOUS
  <1>2. Len(segment) = q - p /\ x.text = segment
    BY <1>1, SegmentIs DEF segment
  <1>3. ASSUME NEW c \in Plain, x = Means(<<c>>, <<c>>)
        PROVE  p < q /\ At(t, p) # "quote" /\ Character(t, p).ok /\ Character(t, p).next = q
    <2>1. segment = <<c>> /\ Len(<<c>>) = 1
      BY <1>2, <1>3 DEF Means
    <2>2. q = p + 1 /\ p \in 1 .. Len(t) /\ p \in p .. Len(t)
      BY <1>1, <1>2, <2>1
    <2>3. At(t, p) = c
      <3>1. Segment(t, p, p + 1) = <<At(t, p)>>
        BY <1>1, <2>2, OneMore
      <3>2. Segment(t, p, p + 1) = <<c>>
        BY <2>1, <2>2 DEF segment
      <3>3. \A a, b : <<a>> = <<b>> => a = b
        OBVIOUS
      <3>4. QED
        BY <3>1, <3>2, <3>3
    <2>4. At(t, p) \notin {"end", "control"} /\ At(t, p) # "backslash" /\ At(t, p) # "quote"
      BY <2>3 DEF Plain, HexGroups
    <2>5. Character(t, p) = Ok(t[p], p + 1)
      BY <2>4 DEF Character
    <2>6. QED
      BY <1>1, <2>2, <2>4, <2>5 DEF Ok
  <1>4. ASSUME NEW c \in Escapes, x = Means(<<"backslash", c>>, <<Unescaped[c]>>)
        PROVE  p < q /\ At(t, p) # "quote" /\ Character(t, p).ok /\ Character(t, p).next = q
    <2>1. segment = <<"backslash", c>> /\ Len(<<"backslash", c>>) = 2
      BY <1>2, <1>4 DEF Means
    <2>2. q = p + 2
      BY <1>1, <1>2, <2>1
    <2>3. <<At(t, p), At(t, p + 1)>> = <<"backslash", c>>
      BY <1>1, <2>1, <2>2, Segment2Is DEF segment
    <2>4. At(t, p) = "backslash" /\ At(t, p + 1) = c
      BY <2>3
    <2>5. Character(t, p) = Ok(Unescaped[t[p + 1]], p + 2)
      BY <2>4 DEF Character, Escapes
    <2>6. QED
      BY <1>1, <2>2, <2>4, <2>5 DEF Ok
  <1>5. ASSUME x = Means(<<"backslash", "u", "0041">>, <<"U+0041">>)
        PROVE  p < q /\ At(t, p) # "quote" /\ Character(t, p).ok /\ Character(t, p).next = q
    <2>1. segment = <<"backslash", "u", "0041">> /\ Len(<<"backslash", "u", "0041">>) = 3
      BY <1>2, <1>5 DEF Means
    <2>2. q = p + 3
      BY <1>1, <1>2, <2>1
    <2>3. <<At(t, p), At(t, p + 1), At(t, p + 2)>> = <<"backslash", "u", "0041">>
      BY <1>1, <2>1, <2>2, Segment3Is DEF segment
    <2>4. At(t, p) = "backslash" /\ At(t, p + 1) = "u" /\ At(t, p + 2) = "0041"
      BY <2>3
    <2>5. Character(t, p) = EscapedUnicode(t, p + 2)
      BY <2>4 DEF Character, Escapes
    <2>6. EscapedUnicode(t, p + 2) = Ok(CodePoint(<<"0041">>), (p + 2) + 1) /\ (p + 2) + 1 = p + 3
      BY <1>1, <2>4 DEF EscapedUnicode, High, Low, HexGroups
    <2>7. QED
      BY <1>1, <2>2, <2>4, <2>5, <2>6 DEF Ok
  <1>6. ASSUME x = Means(<<"backslash", "u", "D83D", "backslash", "u", "DE00">>, <<"U+1F600">>)
        PROVE  p < q /\ At(t, p) # "quote" /\ Character(t, p).ok /\ Character(t, p).next = q
    <2>1. /\ segment = <<"backslash", "u", "D83D", "backslash", "u", "DE00">>
          /\ Len(<<"backslash", "u", "D83D", "backslash", "u", "DE00">>) = 6
      BY <1>2, <1>6 DEF Means
    <2>2. q = p + 6
      BY <1>1, <1>2, <2>1
    <2>3. <<At(t, p), At(t, p + 1), At(t, p + 2), At(t, p + 3), At(t, p + 4), At(t, p + 5)>>
            = <<"backslash", "u", "D83D", "backslash", "u", "DE00">>
      BY <1>1, <2>1, <2>2, Segment6Is DEF segment
    <2>4. /\ At(t, p) = "backslash" /\ At(t, p + 1) = "u" /\ At(t, p + 2) = "D83D"
          /\ At(t, p + 3) = "backslash" /\ At(t, p + 4) = "u" /\ At(t, p + 5) = "DE00"
      BY <2>3
    <2>5. Character(t, p) = EscapedUnicode(t, p + 2)
      BY <2>4 DEF Character, Escapes
    <2>6. (p + 2) + 1 = p + 3 /\ (p + 2) + 2 = p + 4 /\ (p + 2) + 3 = p + 5 /\ (p + 2) + 4 = p + 6
      BY <1>1
    <2>7. EscapedUnicode(t, p + 2) = Ok(CodePoint(<<"D83D", t[(p + 2) + 3]>>), (p + 2) + 4)
      BY <2>4, <2>6 DEF EscapedUnicode, High, Low
    <2>8. QED
      BY <1>1, <2>2, <2>4, <2>5, <2>6, <2>7 DEF Ok
  <1>7. QED
    BY <1>3, <1>4, <1>5, <1>6, UnitsAre

\* One unit more.
More(contents) == Joined(Units, contents, MaxString - 2, Followed)

LEMMA MoreIs ==
  ASSUME NEW contents, NEW x
  PROVE  x \in More(contents) <=>
           \E a \in Units, b \in contents :
             Together(a, b, MaxString - 2) /\ x = Means(Cat(a.text, b.text), Cat(a.value, b.value))
  <1> DEFINE Row(a) == {Means(Cat(a.text, b.text), Cat(a.value, b.value)) :
                          b \in {z \in contents : Together(a, z, MaxString - 2)}}
  <1>1. More(contents) = UNION {Row(a) : a \in Units}
    BY DEF More, Joined, Followed, Cat
  <1>2. \A a : x \in Row(a) <=>
               \E b \in contents : Together(a, b, MaxString - 2)
                                   /\ x = Means(Cat(a.text, b.text), Cat(a.value, b.value))
    OBVIOUS
  <1> HIDE DEF Row
  <1>3. QED
    BY <1>1, <1>2

LEMMA MaxStringIs == MaxString \in Nat /\ MaxString - 2 \in Nat
  BY GrammarAssumption

\* The contents of strings, by the number of their units.
LEMMA ContentsOfIs ==
  /\ ContentsOf[0] = {Means(<<>>, <<>>)}
  /\ \A n \in 0 .. MaxString - 2 - 1 : ContentsOf[n + 1] = ContentsOf[n] \cup More(ContentsOf[n])
  <1> DEFINE M == MaxString - 2
  <1>0. M \in Nat
    BY MaxStringIs
  <1> DEFINE Body(f, n) == IF n = 0 THEN {Means(<<>>, <<>>)} ELSE f[n - 1] \cup More(f[n - 1])
             Is(f, m) == f = [n \in 0 .. m |-> Body(f, n)]
  <1>4. ContentsOf = CHOOSE f : Is(f, M)
    BY DEF ContentsOf, More
  <1> HIDE DEF M
  <1>1. \E f : Is(f, 0)
    <2>1. Is([n \in 0 .. 0 |-> {Means(<<>>, <<>>)}], 0)
      OBVIOUS
    <2> HIDE DEF Is
    <2>2. QED
      BY <2>1
  <1>2. ASSUME NEW m \in 0 .. M - 1, NEW f, Is(f, m) PROVE \E g : Is(g, m + 1)
    <2> DEFINE g == [n \in 0 .. m + 1 |-> IF n <= m THEN f[n] ELSE Body(f, n)]
    <2>1. ASSUME NEW n \in 0 .. m + 1 PROVE g[n] = Body(g, n)
      <3>1. n = 0 \/ g[n - 1] = f[n - 1]
        BY <1>0
      <3>2. Body(g, n) = Body(f, n)
        BY <3>1
      <3> HIDE DEF Body
      <3>3. n <= m => f[n] = Body(f, n)
        BY <1>0, <1>2
      <3>4. QED
        BY <3>2, <3>3
    <2>2. Is(g, m + 1)
      <3> HIDE DEF Body
      <3> QED BY <2>1
    <2> HIDE DEF Is, g
    <2>3. QED
      BY <2>2
  <1>3. \E f : Is(f, M)
    <2> DEFINE S == {m \in Nat : \E f : Is(f, m)}
    <2> HIDE DEF Is
    <2>1. 0 \in S /\ \A m \in 0 .. M - 1 : m \in S => m + 1 \in S
      BY <1>0, <1>1, <1>2
    <2>2. \A m \in 0 .. M : m \in S
      <3> HIDE DEF S
      <3> QED BY <1>0, <2>1, Upwards
    <2>3. QED
      BY <1>0, <2>2
  <1>5. Is(ContentsOf, M)
    <2> HIDE DEF Is
    <2> QED BY <1>3, <1>4
  <1>6. ASSUME NEW n \in 0 .. M PROVE ContentsOf[n] = Body(ContentsOf, n)
    <2> HIDE DEF Body
    <2> QED BY <1>5
  <1>7. ContentsOf[0] = {Means(<<>>, <<>>)}
    <2>1. 0 \in 0 .. M
      BY <1>0
    <2>2. ContentsOf[0] = Body(ContentsOf, 0)
      <3> HIDE DEF Body
      <3> QED BY <1>6, <2>1
    <2>3. QED
      BY ONLY <2>2
  <1>8. ASSUME NEW n \in 0 .. M - 1
        PROVE  ContentsOf[n + 1] = ContentsOf[n] \cup More(ContentsOf[n])
    <2>1. n + 1 \in 0 .. M /\ n + 1 # 0 /\ (n + 1) - 1 = n
      BY <1>0
    <2>2. ContentsOf[n + 1] = Body(ContentsOf, n + 1)
      <3> HIDE DEF Body
      <3> QED BY <1>6, <2>1
    <2>3. QED
      BY ONLY <2>1, <2>2
  <1>9. QED
    BY <1>7, <1>8 DEF M

LEMMA UnitsTyped ==
  ASSUME NEW x \in Units
  PROVE  x = Means(x.text, x.value) /\ x.text \in Seq(Alphabet.string) /\ x.text \in Seq(Symbols)
  <1>0. \A S : /\ \A a \in S : <<a>> \in Seq(S)
               /\ \A a, b \in S : <<a, b>> \in Seq(S)
               /\ \A a, b, c \in S : <<a, b, c>> \in Seq(S)
               /\ \A a, b, c, d, e, f \in S : <<a, b, c, d, e, f>> \in Seq(S)
    OBVIOUS
  <1>1. \A c \in Plain \cup Escapes \cup {"0041", "D83D", "DE00"} : c \in Alphabet.string
    BY DEF Plain, Escapes, Alphabet, HexGroups
  <1>2. /\ "backslash" \in Alphabet.string /\ "u" \in Alphabet.string /\ "0041" \in Alphabet.string
        /\ "D83D" \in Alphabet.string /\ "DE00" \in Alphabet.string
    BY <1>1 DEF Alphabet
  <1>3. \A s, v : x = Means(s, v) => x = Means(x.text, x.value) /\ x.text = s
    BY DEF Means
  <1>4. x.text \in Seq(Alphabet.string) /\ x = Means(x.text, x.value)
    <2>1. ASSUME NEW c \in Plain, x = Means(<<c>>, <<c>>)
          PROVE  x.text \in Seq(Alphabet.string) /\ x = Means(x.text, x.value)
      <3>1. <<c>> \in Seq(Alphabet.string)
        BY <1>0, <1>1
      <3>2. QED
        BY <1>3, <2>1, <3>1
    <2>2. ASSUME NEW c \in Escapes, x = Means(<<"backslash", c>>, <<Unescaped[c]>>)
          PROVE  x.text \in Seq(Alphabet.string) /\ x = Means(x.text, x.value)
      <3>1. <<"backslash", c>> \in Seq(Alphabet.string)
        BY <1>0, <1>1, <1>2
      <3>2. QED
        BY <1>3, <2>2, <3>1
    <2>3. x = Means(<<"backslash", "u", "0041">>, <<"U+0041">>) =>
            x.text \in Seq(Alphabet.string) /\ x = Means(x.text, x.value)
      <3>1. <<"backslash", "u", "0041">> \in Seq(Alphabet.string)
        BY <1>0, <1>2
      <3>2. QED
        BY <1>3, <3>1
    <2>4. x = Means(<<"backslash", "u", "D83D", "backslash", "u", "DE00">>, <<"U+1F600">>) =>
            x.text \in Seq(Alphabet.string) /\ x = Means(x.text, x.value)
      <3>1. <<"backslash", "u", "D83D", "backslash", "u", "DE00">> \in Seq(Alphabet.string)
        BY <1>0, <1>2
      <3>2. QED
        BY <1>3, <3>1
    <2>5. QED
      BY <2>1, <2>2, <2>3, <2>4, UnitsAre
  <1>5. QED
    BY <1>4, SymbolsAre, SeqMonotonic

LEMMA ContentsTyped ==
  ASSUME NEW n \in 0 .. MaxString - 2, NEW x \in ContentsOf[n]
  PROVE  /\ x = Means(x.text, x.value)
         /\ x.text \in Seq(Alphabet.string) /\ x.text \in Seq(Symbols)
         /\ Len(x.text) <= MaxString - 2
  <1> DEFINE M == MaxString - 2
             Good(y) == /\ y = Means(y.text, y.value)
                        /\ y.text \in Seq(Alphabet.string)
                        /\ Len(y.text) <= M
             S == {m \in Nat : \A y \in ContentsOf[m] : Good(y)}
  <1>0. M \in Nat
    BY MaxStringIs
  <1>1. 0 \in S
    <2>1. Good(Means(<<>>, <<>>))
      <3>1. <<>> \in Seq(Alphabet.string) /\ Len(<<>>) = 0
        OBVIOUS
      <3>2. QED
        BY <1>0, <3>1 DEF Means
    <2> HIDE DEF Good
    <2>2. QED
      BY <2>1, ContentsOfIs
  <1>2. ASSUME NEW m \in 0 .. M - 1, \A y \in ContentsOf[m] : Good(y), NEW y \in More(ContentsOf[m])
        PROVE  Good(y)
    <2>1. PICK a \in Units, b \in ContentsOf[m] :
            Together(a, b, M) /\ y = Means(Cat(a.text, b.text), Cat(a.value, b.value))
      BY <1>2, MoreIs
    <2>2. a.text \in Seq(Alphabet.string) /\ b.text \in Seq(Alphabet.string)
      BY <1>2, UnitsTyped
    <2>3. /\ Cat(a.text, b.text) \in Seq(Alphabet.string)
          /\ Len(Cat(a.text, b.text)) = Len(a.text) + Len(b.text)
      BY <2>2, CatIs
    <2>4. Len(Cat(a.text, b.text)) <= M
      BY <2>1, <2>3 DEF Together
    <2>5. y.text = Cat(a.text, b.text) /\ y = Means(y.text, y.value)
      BY <2>1 DEF Means
    <2>6. QED
      BY <2>3, <2>4, <2>5
  <1>3. \A m \in 0 .. M - 1 : m \in S => m + 1 \in S
    <2> HIDE DEF Good
    <2>1. \A m \in 0 .. M - 1 : m \in Nat /\ m + 1 \in Nat
            /\ ContentsOf[m + 1] = ContentsOf[m] \cup More(ContentsOf[m])
      BY <1>0, ContentsOfIs
    <2>2. QED
      BY <1>2, <2>1
  <1>4. \A m \in 0 .. M : m \in S
    <2> HIDE DEF S, M
    <2> QED BY <1>0, <1>1, <1>3, Upwards
  <1>5. Good(x)
    <2> HIDE DEF Good
    <2> QED BY <1>4
  <1>6. QED
    BY <1>5, SymbolsAre, SeqMonotonic

\* The characters up to the closing quote are contents of the grammar.
LEMMA ContentsParsed ==
  ASSUME NEW t \in Seq(Alphabet.string), NEW p \in 1 .. Len(t) + 1,
         Characters(t)[p].ok, Characters(t)[p].next - 1 - p <= MaxString - 2
  PROVE  /\ Means(Segment(t, p, Characters(t)[p].next - 1),
              Characters(t)[p].value) \in ContentsOf[MaxString - 2]
         /\ At(t, Characters(t)[p].next - 1) = "quote"
  <1> DEFINE M == MaxString - 2
             from(o) == Characters(t)[o]
             Good(n, o) ==
               from(o).ok /\ from(o).next - 1 - o <= n =>
                 /\ Means(Segment(t, o, from(o).next - 1), from(o).value) \in ContentsOf[n]
                 /\ At(t, from(o).next - 1) = "quote"
             Read(n) == /\ Means(<<>>, <<>>) \in ContentsOf[n]
                        /\ \A o \in 1 .. Len(t) + 1 : Good(n, o)
             S == {n \in Nat : Read(n)}
  <1>0. M \in Nat /\ Len(t) \in Nat /\ t \in Seq(Symbols)
    BY MaxStringIs, SymbolsAre, SeqMonotonic
  <1>1. ASSUME NEW o \in 1 .. Len(t) + 1, At(t, o) = "quote", NEW n, Means(<<>>, <<>>) \in ContentsOf[n]
        PROVE  Good(n, o)
    <2>1. from(o) = Ok(<<>>, o + 1)
      BY <1>0, <1>1, CharactersIs
    <2>2. from(o).next = o + 1 /\ from(o).value = <<>>
      BY <2>1 DEF Ok
    <2>3. from(o).next - 1 = o
      BY <2>2
    <2>4. Segment(t, o, o) = <<>>
      BY <1>0, SubSeqEmpty DEF Segment
    <2> HIDE DEF from
    <2>5. QED
      BY <1>1, <2>2, <2>3, <2>4
  <1>2. ASSUME NEW o \in 1 .. Len(t) + 1, At(t, o) # "quote", from(o).ok
        PROVE  LET one == Character(t, o)
                   rest == from(one.next)
               IN  /\ one.ok /\ rest.ok /\ from(o).value = Cat(<<one.value>>, rest.value)
                   /\ from(o).next = rest.next
                   /\ one.next \in o + 1 .. Len(t) + 1 /\ rest.next \in one.next + 1 .. Len(t) + 1
                   /\ o \in 1 .. Len(t)
                   /\ Means(Segment(t, o, one.next), <<one.value>>) \in Units
    <2> DEFINE one == Character(t, o)
               rest == from(one.next)
    <2>1. from(o) = IF one.ok /\ rest.ok THEN Ok(Cat(<<one.value>>, rest.value), rest.next) ELSE Fail
      BY <1>0, <1>2, CharactersIs DEF Cat
    <2>2. one.ok \in BOOLEAN
      BY <1>0, CharacterIs
    <2>3. one.ok /\ rest.ok
      <3> HIDE DEF from, one, rest
      <3> QED BY <1>2, <2>1 DEF Fail
    <2>4. from(o).value = Cat(<<one.value>>, rest.value) /\ from(o).next = rest.next
      <3> HIDE DEF from, one, rest
      <3> QED BY <2>1, <2>3 DEF Ok
    <2>5. one.next \in o + 1 .. Len(t) + 1
      BY <1>0, <2>3, CharacterIs
    <2>6. rest.next \in one.next + 1 .. Len(t) + 1
      <3>1. one.next \in 1 .. Len(t) + 1
        BY <1>0, <2>5
      <3>2. QED
        BY <1>0, <2>3, <3>1, StringEnds DEF Outcome
    <2>7. o \in 1 .. Len(t)
      BY <1>0, <2>5
    <2>8. At(t, o) \in Alphabet.string \ {"quote"}
      BY <1>0, <1>2, <2>7 DEF At
    <2>9. QED
      BY <1>0, <2>3, <2>4, <2>5, <2>6, <2>7, <2>8, UnitParsed
  <1>3. Read(0)
    <2>1. Means(<<>>, <<>>) \in ContentsOf[0]
      BY ContentsOfIs
    <2>2. ASSUME NEW o \in 1 .. Len(t) + 1, At(t, o) # "quote", from(o).ok
          PROVE  ~(from(o).next - 1 - o <= 0)
      <3>1. \A i \in o + 1 .. Len(t) + 1 : \A j \in i + 1 .. Len(t) + 1 : ~(j - 1 - o <= 0)
        BY <1>0
      <3>2. PICK i \in o + 1 .. Len(t) + 1 : from(o).next \in i + 1 .. Len(t) + 1
        BY <1>2, <2>2
      <3> HIDE DEF from
      <3>3. QED
        BY <3>1, <3>2
    <2>3. QED
      BY <1>1, <2>1, <2>2
  <1>4. ASSUME NEW n \in 0 .. M - 1, Read(n) PROVE Read(n + 1)
    <2>1. ContentsOf[n + 1] = ContentsOf[n] \cup More(ContentsOf[n])
      BY ContentsOfIs
    <2>2. ASSUME NEW o \in 1 .. Len(t) + 1, At(t, o) # "quote", from(o).ok, from(o).next - 1 - o <= n + 1
          PROVE  /\ Means(Segment(t, o, from(o).next - 1), from(o).value) \in More(ContentsOf[n])
                 /\ At(t, from(o).next - 1) = "quote"
      <3> DEFINE one == Character(t, o)
                 rest == from(one.next)
                 end == rest.next - 1
      <3>1. /\ one.ok /\ rest.ok /\ from(o).value = Cat(<<one.value>>, rest.value)
            /\ from(o).next = rest.next
            /\ one.next \in o + 1 .. Len(t) + 1 /\ rest.next \in one.next + 1 .. Len(t) + 1
            /\ Means(Segment(t, o, one.next), <<one.value>>) \in Units
        BY <1>2, <2>2
      <3>2. one.next \in 1 .. Len(t) + 1 /\ end - one.next <= n /\ end - o <= M
            /\ end \in one.next .. Len(t) + 1 /\ one.next \in o .. Len(t) + 1
        <4>1. rest.next - 1 - o <= n + 1
          BY <2>2, <3>1
        <4>2. \A i \in o + 1 .. Len(t) + 1 : \A j \in i + 1 .. Len(t) + 1 :
                j - 1 - o <= n + 1 =>
                  /\ i \in 1 .. Len(t) + 1 /\ i \in o .. Len(t) + 1 /\ (j - 1) - i <= n
                  /\ (j - 1) - o <= M /\ j - 1 \in i .. Len(t) + 1
          <5> HIDE DEF M
          <5> QED BY <1>0
        <4> HIDE DEF one, rest, M
        <4>3. QED
          BY <3>1, <4>1, <4>2
      <3>3. Good(n, one.next)
        <4> HIDE DEF Good
        <4> QED BY <1>4, <3>2
      <3>4. Means(Segment(t, one.next, end), rest.value) \in ContentsOf[n] /\ At(t, end) = "quote"
        BY <3>1, <3>2, <3>3
      <3> DEFINE a == Means(Segment(t, o, one.next), <<one.value>>)
                 b == Means(Segment(t, one.next, end), rest.value)
      <3>5. a.text = Segment(t, o, one.next) /\ b.text = Segment(t, one.next, end)
            /\ a.value = <<one.value>> /\ b.value = rest.value
        BY DEF Means
      <3>6. Segment(t, o, end) = Cat(Segment(t, o, one.next), Segment(t, one.next, end))
        <4> HIDE DEF one, end
        <4> QED BY <1>0, <3>2, SegmentsJoin
      <3>7. a \in Units /\ b \in ContentsOf[n]
        BY <3>1, <3>4
      <3>8. Together(a, b, M)
        <4> HIDE DEF a, b, one, end, M
        <4> QED BY <1>0, <3>2, <3>5, TogetherIs
      <3>9. Means(Segment(t, o, end), Cat(<<one.value>>, rest.value))
              = Means(Cat(a.text, b.text), Cat(a.value, b.value))
        <4> HIDE DEF a, b, one, end, rest
        <4> QED BY <3>5, <3>6
      <3>10. Means(Segment(t, o, end), Cat(<<one.value>>, rest.value)) \in More(ContentsOf[n])
        <4> HIDE DEF a, b, one, end, rest
        <4> QED BY <3>7, <3>8, <3>9, MoreIs
      <3>11. QED
        BY <3>1, <3>4, <3>10
    <2>3. Means(<<>>, <<>>) \in ContentsOf[n + 1]
      BY <1>4, <2>1
    <2>4. QED
      BY <1>1, <2>1, <2>2, <2>3
  <1>5. \A n \in 0 .. M : n \in S
    <2>1. 0 \in S /\ \A n \in 0 .. M - 1 : n \in S => n + 1 \in S
      <3> HIDE DEF Read
      <3>1. \A n \in 0 .. M - 1 : n + 1 \in Nat
        BY <1>0
      <3>2. QED
        BY <1>3, <1>4, <3>1
    <2> HIDE DEF S, M
    <2>2. QED
      BY <1>0, <2>1, Upwards
  <1>6. Good(M, p)
    <2>1. M \in S
      <3> HIDE DEF S, M
      <3> QED BY <1>0, <1>5
    <2> HIDE DEF Good, M
    <2>2. QED
      BY <2>1
  <1>7. QED
    BY <1>6

\* Contents of the grammar are parsed up to the closing quote.
LEMMA ContentsFound ==
  ASSUME NEW t \in Seq(Symbols), NEW p \in 1 .. Len(t) + 1, NEW q \in p .. Len(t) + 1, NEW v,
         Means(Segment(t, p, q), v) \in ContentsOf[MaxString - 2], At(t, q) = "quote"
  PROVE  Characters(t)[p].ok /\ Characters(t)[p].next = q + 1
  <1> DEFINE M == MaxString - 2
             Found(n) == \A o \in 1 .. q : \A w : Means(Segment(t, o, q), w) \in ContentsOf[n] =>
                           Characters(t)[o].ok /\ Characters(t)[o].next = q + 1
             S == {n \in Nat : Found(n)}
  <1>0. M \in Nat /\ Len(t) \in Nat /\ q \in Nat /\ q \in 1 .. Len(t) + 1 /\ p \in 1 .. q
    BY MaxStringIs
  <1>1. Found(0)
    <2> SUFFICES ASSUME NEW o \in 1 .. q, NEW w, Means(Segment(t, o, q), w) \in ContentsOf[0]
                 PROVE  Characters(t)[o].ok /\ Characters(t)[o].next = q + 1
      OBVIOUS
    <2>1. o \in 1 .. Len(t) + 1 /\ q \in o .. Len(t) + 1
      BY <1>0
    <2>2. Segment(t, o, q) = <<>>
      BY ContentsOfIs DEF Means
    <2>3. Len(Segment(t, o, q)) = q - o
      BY <2>1, SegmentIs
    <2>4. o = q
      BY <1>0, <2>1, <2>2, <2>3
    <2>5. Characters(t)[o] = Ok(<<>>, o + 1)
      BY <1>0, <2>1, <2>4, CharactersIs
    <2>6. QED
      BY <2>4, <2>5 DEF Ok
  <1>2. ASSUME NEW n \in 0 .. M - 1, Found(n) PROVE Found(n + 1)
    <2> SUFFICES ASSUME NEW o \in 1 .. q, NEW w, Means(Segment(t, o, q), w) \in More(ContentsOf[n])
                 PROVE  Characters(t)[o].ok /\ Characters(t)[o].next = q + 1
      BY <1>2, ContentsOfIs
    <2>1. o \in 1 .. Len(t) + 1 /\ q \in o .. Len(t) + 1 /\ n \in 0 .. M
      BY <1>0
    <2>2. PICK a \in Units, b \in ContentsOf[n] :
            Means(Segment(t, o, q), w) = Means(Cat(a.text, b.text), Cat(a.value, b.value))
      BY MoreIs
    <2>3. Segment(t, o, q) = Cat(a.text, b.text)
      BY <2>2 DEF Means
    <2>4. a.text \in Seq(Symbols) /\ b.text \in Seq(Symbols) /\ b = Means(b.text, b.value)
      BY <2>1, UnitsTyped, ContentsTyped
    <2>5. PICK r \in o .. q : a.text = Segment(t, o, r) /\ b.text = Segment(t, r, q)
      BY <2>1, <2>3, <2>4, SegmentsSplit
    <2>6. r \in o .. Len(t) + 1 /\ r \in 1 .. q /\ r \in 1 .. Len(t) + 1
      BY <1>0, <2>1
    <2>7. At(t, o) # "quote" /\ Character(t, o).ok /\ Character(t, o).next = r
      BY <2>1, <2>5, <2>6, UnitFound
    <2>8. Characters(t)[r].ok /\ Characters(t)[r].next = q + 1
      BY <1>2, <2>4, <2>5, <2>6
    <2>9. Characters(t)[o] = Ok(<<Character(t, o).value>> \o Characters(t)[r].value, q + 1)
      BY <1>0, <2>1, <2>7, <2>8, CharactersIs
    <2>10. QED
      BY <2>9 DEF Ok
  <1>3. Found(M)
    <2>1. 0 \in S /\ \A n \in 0 .. M - 1 : n \in S => n + 1 \in S
      <3> HIDE DEF Found
      <3>1. \A n \in 0 .. M - 1 : n + 1 \in Nat
        BY <1>0
      <3>2. QED
        BY <1>1, <1>2, <3>1
    <2>2. \A n \in 0 .. M : n \in S
      <3> HIDE DEF S, M
      <3> QED BY <1>0, <2>1, Upwards
    <2>3. M \in S
      <3> HIDE DEF S, M
      <3> QED BY <1>0, <2>2
    <2> HIDE DEF Found, M
    <2>4. QED
      BY <2>3
  <1>4. QED
    BY <1>0, <1>3

LEMMA StringsAre ==
  ASSUME NEW x
  PROVE  x \in Strings <=>
           \E y \in ContentsOf[MaxString - 2] :
             x = Means(Cat(Cat(<<"quote">>, y.text), <<"quote">>), <<"string", y.value>>)
  BY DEF Strings, Cat

\* Strings are texts over their alphabet, within the bound.
LEMMA StringTexts ==
  ASSUME NEW x \in Strings
  PROVE  /\ x = Means(x.text, x.value)
         /\ x.text \in Seq(Alphabet.string) /\ x.text \in Seq(Symbols)
         /\ Len(x.text) <= MaxString
  <1>1. PICK y \in ContentsOf[MaxString - 2] :
          x = Means(Cat(Cat(<<"quote">>, y.text), <<"quote">>), <<"string", y.value>>)
    BY StringsAre
  <1>2. PICK q \in Seq(Alphabet.string) : q = <<"quote">>
    <2>1. \A S : \A c \in S : <<c>> \in Seq(S)
      OBVIOUS
    <2>2. "quote" \in Alphabet.string
      BY DEF Alphabet
    <2>3. QED
      BY <2>1, <2>2
  <1>3. Len(q) = 1
    BY <1>2
  <1>4. y.text \in Seq(Alphabet.string) /\ Len(y.text) <= MaxString - 2
    BY MaxStringIs, ContentsTyped
  <1>5. x.text = Cat(Cat(q, y.text), q) /\ x = Means(x.text, x.value)
    BY <1>1, <1>2 DEF Means
  <1>6. Cat(q, y.text) \in Seq(Alphabet.string) /\ Len(Cat(q, y.text)) = Len(q) + Len(y.text)
          /\ Len(y.text) \in Nat
    <2> HIDE <1>2
    <2> QED BY <1>4, CatIs
  <1>7. /\ Cat(Cat(q, y.text), q) \in Seq(Alphabet.string)
        /\ Len(Cat(Cat(q, y.text), q)) = Len(Cat(q, y.text)) + Len(q)
    <2> HIDE <1>2
    <2> QED BY <1>6, CatIs
  <1>8. Len(x.text) <= MaxString
    <2>1. \A n \in Nat : n <= MaxString - 2 => (1 + n) + 1 <= MaxString
      BY MaxStringIs
    <2>2. QED
      BY <1>3, <1>4, <1>5, <1>6, <1>7, <2>1
  <1>9. QED
    BY <1>5, <1>7, <1>8, SymbolsAre, SeqMonotonic

\* The parser follows the grammar of strings.
LEMMA StringsFollow ==
  ASSUME NEW t \in Seq(Alphabet.string), Len(t) <= MaxString
  PROVE  Follows(t, Strings)
  <1>1. /\ t \in Seq(Tokens) /\ t \in Seq(Symbols) /\ Len(t) \in Nat /\ Bare(t, 1) = t
        /\ \A p \in 1 .. Len(t) + 1 : SkipWs(t, p) = p
        /\ Bare(t, 1) = Segment(t, 1, Len(t) + 1)
    <2>1. Alphabet.string \subseteq Tokens
      BY SymbolsAre DEF Alphabet, Tokens, HexGroups
    <2>2. t \in Seq(Tokens)
      BY <2>1, SeqMonotonic
    <2>3. 1 \in 1 .. Len(t) + 1
      OBVIOUS
    <2>4. QED
      BY <2>2, <2>3, NoWhiteSpace
  <1>2. 1 \in 1 .. Len(t) + 1 /\ Len(t) + 1 \in 1 .. Len(t) + 1 /\ SkipWs(t, 1) = 1
        /\ SkipWs(t, Len(t) + 1) = Len(t) + 1
    BY <1>1
  <1> DEFINE r == Characters(t)[2]
  <1>3. At(t, 1) = "quote" => Result(t) = Typed("string", r) /\ 1 \in 1 .. Len(t)
    <2>1. At(t, 1) = "quote" => ParseString(t, 1) = r
      BY DEF ParseString, Quoted
    <2>2. At(t, 1) = "quote" => Result(t) = Typed("string", ParseString(t, 1))
      BY <1>1, <1>2, ValueAtIs, ResultIs
    <2>3. At(t, 1) = "quote" => 1 \in 1 .. Len(t)
      BY <1>1 DEF At
    <2>4. QED
      BY <2>1, <2>2, <2>3
  <1>4. At(t, 1) # "quote" => Result(t) = Fail
    <2>1. At(t, 1) \in Alphabet.string \/ At(t, 1) = "end"
      BY <1>1 DEF At
    <2>2. At(t, 1) # "quote" =>
            At(t, 1) \notin {"begin_object", "begin_array", "quote", "-"} \cup Quoted \cup Literals
              \cup Digits
      BY <2>1 DEF Alphabet, HexGroups, Quoted, Literals, Digits
    <2>3. QED
      BY <1>1, <1>2, <2>2, ValueAtIs, ResultIs
  <1>5. ASSUME Accepted(t) PROVE Means(Bare(t, 1), Result(t).value) \in Strings
    <2>1. Result(t).ok /\ SkipWs(t, Result(t).next) = Len(t) + 1
      BY <1>5 DEF Accepted
    <2>2. At(t, 1) = "quote" /\ 1 \in 1 .. Len(t)
      BY <1>3, <1>4, <2>1 DEF Fail
    <2>3. 2 \in 1 .. Len(t) + 1
      BY <1>1, <2>2
    <2>4. r.ok \in BOOLEAN /\ (r.ok => r.next \in 3 .. Len(t) + 1)
      BY <1>1, <2>3, StringEnds DEF Outcome
    <2>5. r.ok /\ Result(t).next = r.next /\ Result(t).value = <<"string", r.value>>
      <3> HIDE DEF r
      <3>1. r.ok
        BY <1>3, <2>1, <2>2, <2>4 DEF Typed, Fail
      <3>2. QED
        BY <1>3, <2>2, <3>1 DEF Typed, Ok
    <2>6. r.next = Len(t) + 1 /\ Len(t) \in 2 .. Len(t) + 1
      <3>1. r.next \in 3 .. Len(t) + 1 /\ r.next \in 1 .. Len(t) + 1
        BY <1>1, <2>4, <2>5
      <3> HIDE DEF r
      <3>2. r.next = Len(t) + 1
        BY <1>1, <2>1, <2>5, <3>1
      <3>3. QED
        BY <1>1, <3>1, <3>2
    <2>7. r.next - 1 = Len(t) /\ r.next - 1 - 2 <= MaxString - 2
      <3> HIDE DEF r
      <3> QED BY <1>1, <2>6, MaxStringIs
    <2>8. Means(Segment(t, 2, Len(t)), r.value) \in ContentsOf[MaxString - 2] /\ At(t, Len(t)) = "quote"
      BY <2>3, <2>5, <2>7, ContentsParsed
    <2>9. Segment(t, 1, Len(t)) = Cat(<<"quote">>, Segment(t, 2, Len(t)))
      <3>1. 1 + 1 = 2 /\ Len(t) \in 1 + 1 .. Len(t) + 1
        BY <1>1, <2>6
      <3>2. QED
        BY <1>1, <2>2, <3>1, FirstJoin
    <2>10. Segment(t, 1, Len(t) + 1) = Cat(Segment(t, 1, Len(t)), <<"quote">>)
      <3>1. Len(t) \in 1 .. Len(t)
        BY <1>1, <2>6
      <3>2. QED
        BY <1>1, <2>2, <2>8, <3>1, OneMore
    <2> DEFINE y == Means(Segment(t, 2, Len(t)), r.value)
    <2>11. y.text = Segment(t, 2, Len(t)) /\ y.value = r.value
      BY DEF Means
    <2>12. y \in ContentsOf[MaxString - 2]
      BY <2>8
    <2>13. Bare(t, 1) = Cat(Cat(<<"quote">>, y.text), <<"quote">>)
             /\ Result(t).value = <<"string", y.value>>
      <3> HIDE DEF y, r
      <3> QED BY <1>1, <2>5, <2>9, <2>10, <2>11
    <2> HIDE DEF y, r
    <2>14. QED
      BY <2>12, <2>13, StringsAre
  <1>6. ASSUME NEW x \in Strings, x.text = Bare(t, 1) PROVE Accepted(t)
    <2>1. PICK y \in ContentsOf[MaxString - 2] :
            x = Means(Cat(Cat(<<"quote">>, y.text), <<"quote">>), <<"string", y.value>>)
      BY <1>6, StringsAre
    <2>2. y.text \in Seq(Symbols) /\ y = Means(y.text, y.value)
      BY MaxStringIs, ContentsTyped
    <2>3. "quote" \in Symbols
      BY SymbolsAre DEF Alphabet
    <2>4. PICK s \in Seq(Symbols) : s = Cat(<<"quote">>, y.text)
      <3>1. \A S : \A c \in S : <<c>> \in Seq(S)
        OBVIOUS
      <3>2. <<"quote">> \in Seq(Symbols)
        BY <2>3, <3>1
      <3>3. QED
        BY <2>2, <3>2, CatIs
    <2>5. Segment(t, 1, Len(t) + 1) = Cat(s, <<"quote">>)
      BY <1>1, <1>6, <2>1, <2>4 DEF Means
    <2>6. PICK m \in 1 .. Len(t) : Len(t) + 1 = m + 1 /\ s = Segment(t, 1, m) /\ At(t, m) = "quote"
      <3> HIDE <2>4
      <3> QED BY <1>1, <1>2, <2>3, <2>5, LastSplit
    <2>7. m \in 1 .. Len(t) + 1 /\ m = Len(t) /\ Len(t) \in Nat
      BY <1>1, <2>6
    <2>8. 1 \in 1 .. Len(t) /\ 1 + 1 <= m /\ At(t, 1) = "quote" /\ y.text = Segment(t, 1 + 1, m)
      <3>1. Segment(t, 1, m) = Cat(<<"quote">>, y.text)
        BY <2>4, <2>6
      <3>2. QED
        BY <1>1, <1>2, <2>2, <2>3, <2>7, <3>1, FirstSplit
    <2>9. 2 \in 1 .. Len(t) + 1 /\ m \in 2 .. Len(t) + 1 /\ y.text = Segment(t, 2, m)
      <3>1. 1 + 1 = 2
        OBVIOUS
      <3>2. y.text = Segment(t, 2, m)
        BY <2>8, <3>1
      <3>3. QED
        BY <2>7, <2>8, <3>2
    <2>10. r.ok /\ r.next = m + 1
      BY <1>1, <2>2, <2>6, <2>9, ContentsFound
    <2>11. Result(t).ok /\ Result(t).next = Len(t) + 1
      <3> HIDE DEF r
      <3> QED BY <1>3, <2>6, <2>8, <2>10 DEF Typed, Ok
    <2>12. QED
      BY <1>2, <2>11 DEF Accepted
  <1>7. QED
    BY <1>5, <1>6 DEF Follows, TextsOf


-----------------------------------------------------------------------------
(* Objects and arrays.                                                     *)

LEMMA CatAssociates ==
  ASSUME NEW S, NEW a \in Seq(S), NEW b \in Seq(S), NEW c \in Seq(S)
  PROVE  Cat(Cat(a, b), c) = Cat(a, Cat(b, c))
  BY ConcatAssociative DEF Cat

LEMMA CatEmpty ==
  ASSUME NEW S, NEW a \in Seq(S)
  PROVE  Cat(a, <<>>) = a /\ Cat(<<>>, a) = a
  BY ConcatEmptySeq DEF Cat

LEMMA OneSymbol ==
  ASSUME NEW S, NEW c \in S
  PROVE  <<c>> \in Seq(S) /\ Len(<<c>>) = 1
  OBVIOUS

\* Lists have as many items, and values as much depth.
Half == MaxStructure \div 2

LEMMA HalfIs ==
  /\ MaxStructure \in Nat /\ MaxStructure - 2 \in Nat
  /\ Half \in Nat \ {0} /\ 2 * Half <= MaxStructure /\ MaxStructure <= 2 * Half + 1
  BY GrammarAssumption DEF Half

\* Lists of one item.
Alone(items) == {Means(x.text, <<x.value>>) : x \in items}

\* An item before a list.
Lengthened(items, lists) == Joined(items, AfterComma(lists), MaxStructure - 2, Before)

LEMMA LengthenedIs ==
  ASSUME NEW items, NEW lists, NEW x
  PROVE  x \in Lengthened(items, lists) <=>
           \E a \in items, z \in AfterComma(lists) :
             Together(a, z, MaxStructure - 2) /\ x = Means(Cat(a.text, z.text), Cat(<<a.value>>, z.value))
  <1> DEFINE Row(a) == {Means(Cat(a.text, z.text), Cat(<<a.value>>, z.value)) :
                          z \in {y \in AfterComma(lists) : Together(a, y, MaxStructure - 2)}}
  <1>1. Lengthened(items, lists) = UNION {Row(a) : a \in items}
    BY DEF Lengthened, Joined, Before, Cat
  <1>2. \A a : x \in Row(a) <=>
               \E z \in AfterComma(lists) : Together(a, z, MaxStructure - 2)
                                   /\ x = Means(Cat(a.text, z.text), Cat(<<a.value>>, z.value))
    OBVIOUS
  <1> HIDE DEF Row
  <1>3. QED
    BY <1>1, <1>2

LEMMA AfterCommaIs ==
  ASSUME NEW lists, NEW z
  PROVE  z \in AfterComma(lists) <=> \E b \in lists : z = Means(Cat(<<"comma">>, b.text), b.value)
  BY DEF AfterComma, Cat

\* The lists of the grammar, by the number of their items.
LEMMA ListsOfIs ==
  ASSUME NEW items
  PROVE  /\ ListsOf(items)[1] = Alone(items)
         /\ \A n \in 1 .. Half - 1 :
              ListsOf(items)[n + 1] = Alone(items) \cup Lengthened(items, ListsOf(items)[n])
  <1> DEFINE lists == ListsOf(items)
             Body(f, n) == IF n = 1 THEN Alone(items) ELSE Alone(items) \cup Lengthened(items, f[n - 1])
             Is(f, m) == f = [n \in 1 .. m |-> Body(f, n)]
  <1>0. Half \in Nat \ {0}
    BY HalfIs
  <1>1. \E f : Is(f, 1)
    <2>1. Is([n \in 1 .. 1 |-> Alone(items)], 1)
      OBVIOUS
    <2> HIDE DEF Is
    <2>2. QED
      BY <2>1
  <1>2. ASSUME NEW m \in 1 .. Half - 1, NEW f, Is(f, m) PROVE \E g : Is(g, m + 1)
    <2> DEFINE g == [n \in 1 .. m + 1 |-> IF n <= m THEN f[n] ELSE Body(f, n)]
    <2>1. ASSUME NEW n \in 1 .. m + 1 PROVE g[n] = Body(g, n)
      <3>1. n = 1 \/ g[n - 1] = f[n - 1]
        BY <1>0
      <3>2. Body(g, n) = Body(f, n)
        BY <3>1
      <3> HIDE DEF Body
      <3>3. n <= m => f[n] = Body(f, n)
        BY <1>0, <1>2
      <3>4. QED
        BY <3>2, <3>3
    <2>2. Is(g, m + 1)
      <3> HIDE DEF Body
      <3> QED BY <2>1
    <2> HIDE DEF Is, g
    <2>3. QED
      BY <2>2
  <1>3. \E f : Is(f, Half)
    <2> DEFINE S == {m \in Nat : \E f : Is(f, m)}
    <2> HIDE DEF Is
    <2>1. 1 \in S /\ \A m \in 1 .. Half - 1 : m \in S => m + 1 \in S
      BY <1>0, <1>1, <1>2
    <2>2. \A m \in 1 .. Half : m \in S
      <3> HIDE DEF S
      <3> QED BY <1>0, <2>1, Upwards
    <2>3. QED
      BY <1>0, <2>2
  <1>4. lists = CHOOSE f : Is(f, Half)
    BY DEF ListsOf, Lengthened, Alone, Half
  <1> HIDE DEF lists
  <1>5. Is(lists, Half)
    <2> HIDE DEF Is
    <2> QED BY <1>3, <1>4
  <1>6. ASSUME NEW n \in 1 .. Half PROVE lists[n] = Body(lists, n)
    <2> HIDE DEF Body
    <2> QED BY <1>5
  <1>7. lists[1] = Alone(items)
    <2>1. 1 \in 1 .. Half
      BY <1>0
    <2>2. lists[1] = Body(lists, 1)
      <3> HIDE DEF Body
      <3> QED BY <1>6, <2>1
    <2>3. QED
      BY ONLY <2>2
  <1>8. ASSUME NEW n \in 1 .. Half - 1
        PROVE  lists[n + 1] = Alone(items) \cup Lengthened(items, lists[n])
    <2>1. n + 1 \in 1 .. Half /\ n + 1 # 1 /\ (n + 1) - 1 = n
      BY <1>0
    <2>2. lists[n + 1] = Body(lists, n + 1)
      <3> HIDE DEF Body
      <3> QED BY <1>6, <2>1
    <2>3. QED
      BY ONLY <2>1, <2>2
  <1>9. QED
    BY <1>7, <1>8 DEF lists

\* The values of the grammar, by their depth.
LEMMA StructuresOfIs ==
  /\ StructuresOf[0] = Scalars
  /\ \A n \in 0 .. Half - 1 : StructuresOf[n + 1] = Deeper(StructuresOf[n])
  <1> DEFINE Body(f, n) == IF n = 0 THEN Scalars ELSE Deeper(f[n - 1])
             Is(f, m) == f = [n \in 0 .. m |-> Body(f, n)]
  <1>0. Half \in Nat
    BY HalfIs
  <1>1. \E f : Is(f, 0)
    <2>1. Is([n \in 0 .. 0 |-> Scalars], 0)
      OBVIOUS
    <2> HIDE DEF Is
    <2>2. QED
      BY <2>1
  <1>2. ASSUME NEW m \in 0 .. Half - 1, NEW f, Is(f, m) PROVE \E g : Is(g, m + 1)
    <2> DEFINE g == [n \in 0 .. m + 1 |-> IF n <= m THEN f[n] ELSE Body(f, n)]
    <2>1. ASSUME NEW n \in 0 .. m + 1 PROVE g[n] = Body(g, n)
      <3>1. n = 0 \/ g[n - 1] = f[n - 1]
        BY <1>0
      <3>2. Body(g, n) = Body(f, n)
        BY <3>1
      <3> HIDE DEF Body
      <3>3. n <= m => f[n] = Body(f, n)
        BY <1>0, <1>2
      <3>4. QED
        BY <3>2, <3>3
    <2>2. Is(g, m + 1)
      <3> HIDE DEF Body
      <3> QED BY <2>1
    <2> HIDE DEF Is, g
    <2>3. QED
      BY <2>2
  <1>3. \E f : Is(f, Half)
    <2> DEFINE S == {m \in Nat : \E f : Is(f, m)}
    <2> HIDE DEF Is
    <2>1. 0 \in S /\ \A m \in 0 .. Half - 1 : m \in S => m + 1 \in S
      BY <1>0, <1>1, <1>2
    <2>2. \A m \in 0 .. Half : m \in S
      <3> HIDE DEF S
      <3> QED BY <1>0, <2>1, Upwards
    <2>3. QED
      BY <1>0, <2>2
  <1>4. StructuresOf = CHOOSE f : Is(f, Half)
    BY DEF StructuresOf, Half
  <1>5. Is(StructuresOf, Half)
    <2> HIDE DEF Is
    <2> QED BY <1>3, <1>4
  <1>6. ASSUME NEW n \in 0 .. Half PROVE StructuresOf[n] = Body(StructuresOf, n)
    <2> HIDE DEF Body
    <2> QED BY <1>5
  <1>7. StructuresOf[0] = Scalars
    <2>1. 0 \in 0 .. Half
      BY <1>0
    <2>2. StructuresOf[0] = Body(StructuresOf, 0)
      <3> HIDE DEF Body
      <3> QED BY <1>6, <2>1
    <2>3. QED
      BY ONLY <2>2
  <1>8. ASSUME NEW n \in 0 .. Half - 1 PROVE StructuresOf[n + 1] = Deeper(StructuresOf[n])
    <2>1. n + 1 \in 0 .. Half /\ n + 1 # 0 /\ (n + 1) - 1 = n
      BY <1>0
    <2>2. StructuresOf[n + 1] = Body(StructuresOf, n + 1)
      <3> HIDE DEF Body
      <3> QED BY <1>6, <2>1
    <2>3. QED
      BY ONLY <2>1, <2>2
  <1>9. QED
    BY <1>7, <1>8

\* A text between two symbols.
Around(open, x, close) == Cat(Cat(<<open>>, x), <<close>>)

\* A value of greater depth: one of less, an array or an object.
LEMMA DeeperIs ==
  ASSUME NEW values, NEW x
  PROVE  x \in Deeper(values) <=>
           \/ x \in values
           \/ \E y \in Lists(values) :
                /\ Len(y.text) <= MaxStructure - 2
                /\ x = Means(Around("begin_array", y.text, "end_array"), <<"array", y.value>>)
           \/ \E y \in Lists(Members(values)) :
                /\ Len(y.text) <= MaxStructure - 2
                /\ x = Means(Around("begin_object", y.text, "end_object"), <<"object", ObjectOf(y.value)>>)
  <1>1. \A lists : x \in Enclosed("begin_array", lists, "end_array", "array", ArrayOf) <=>
          \E y \in lists :
            /\ Len(y.text) <= MaxStructure - 2
            /\ x = Means(Around("begin_array", y.text, "end_array"), <<"array", y.value>>)
    BY DEF Enclosed, Around, Cat, ArrayOf
  <1>2. \A lists : x \in Enclosed("begin_object", lists, "end_object", "object", ObjectOf) <=>
          \E y \in lists :
            /\ Len(y.text) <= MaxStructure - 2
            /\ x = Means(Around("begin_object", y.text, "end_object"), <<"object", ObjectOf(y.value)>>)
    BY DEF Enclosed, Around, Cat
  <1>3. QED
    BY <1>1, <1>2 DEF Deeper

\* A member: a key and a value.
LEMMA MembersIs ==
  ASSUME NEW values, NEW x
  PROVE  x \in Members(values) <=>
           \E k \in Keys, v \in values :
             Together(k, v, MaxStructure - 2) /\ x = Means(Cat(k.text, v.text), <<k.value, v.value>>)
  <1> DEFINE Row(k) == {Means(Cat(k.text, v.text), <<k.value, v.value>>) :
                          v \in {z \in values : Together(k, z, MaxStructure - 2)}}
  <1>1. Members(values) = UNION {Row(k) : k \in Keys}
    BY DEF Members, Joined, Pair, Cat
  <1>2. \A k : x \in Row(k) <=>
               \E v \in values : Together(k, v, MaxStructure - 2)
                                 /\ x = Means(Cat(k.text, v.text), <<k.value, v.value>>)
    OBVIOUS
  <1> HIDE DEF Row
  <1>3. QED
    BY <1>1, <1>2

\* A text that is not empty, with what it denotes.
Written(x) ==
  /\ x = Means(x.text, x.value)
  /\ x.text \in Seq(Alphabet.structure) /\ x.text \in Seq(Symbols)
  /\ Len(x.text) \in Nat \ {0}

LEMMA WrittenIf ==
  ASSUME NEW s \in Seq(Alphabet.structure), Len(s) \in Nat \ {0}, NEW v, NEW x, x = Means(s, v)
  PROVE  Written(x)
  <1>1. s \in Seq(Symbols)
    BY SymbolsAre, SeqMonotonic
  <1>2. x.text = s /\ x.value = v
    BY DEF Means
  <1>3. QED
    BY <1>1, <1>2, x = Means(s, v) DEF Written

LEMMA StructureSymbols ==
  \A c \in Quoted \cup {"null", "comma", "colon", "begin_object", "end_object", "begin_array",
    "end_array"} :
    c \in Alphabet.structure /\ c \in Symbols /\ c \in Tokens
  <1>1. \A c \in Quoted \cup {"null", "comma", "colon", "begin_object", "end_object", "begin_array",
          "end_array"} :
          c \in Alphabet.structure /\ c # "space"
    BY DEF Alphabet, Quoted
  <1>2. QED
    BY <1>1, SymbolsAre DEF Tokens

LEMMA ScalarsAre ==
  /\ \A x : x \in Scalars <=> \/ \E c \in Quoted : x = Means(<<c>>, <<"string", Content[c]>>)
                              \/ x = Means(<<"null">>, <<"null">>)
  /\ \A x \in Scalars : Written(x) /\ \E c \in Quoted \cup {"null"} : x.text = <<c>>
  <1>1. \A x : x \in Scalars <=> \/ \E c \in Quoted : x = Means(<<c>>, <<"string", Content[c]>>)
                                 \/ x = Means(<<"null">>, <<"null">>)
    <2>1. Content["'a'"] = <<"a">> /\ Content["'b'"] = <<"b">>
      BY DEF Content, Quoted
    <2>2. QED
      BY <2>1 DEF Scalars, Quoted
  <1>2. ASSUME NEW c \in Quoted \cup {"null"}, NEW v, NEW x, x = Means(<<c>>, v)
        PROVE  Written(x) /\ x.text = <<c>>
    <2>1. c \in Alphabet.structure
      BY StructureSymbols
    <2>2. <<c>> \in Seq(Alphabet.structure) /\ Len(<<c>>) = 1
      BY <2>1, OneSymbol
    <2>3. x.text = <<c>>
      BY <1>2 DEF Means
    <2>4. QED
      BY <1>2, <2>2, <2>3, WrittenIf
  <1>3. ASSUME NEW x \in Scalars
        PROVE  Written(x) /\ \E c \in Quoted \cup {"null"} : x.text = <<c>>
    <2>1. \E c \in Quoted \cup {"null"} : \E v : x = Means(<<c>>, v)
      BY <1>1
    <2>2. QED
      BY <1>2, <2>1
  <1>4. QED
    BY <1>1, <1>3

LEMMA KeysAre ==
  /\ \A k \in Keys : \E c \in Quoted : k = Means(Cat(<<c>>, <<"colon">>), Content[c])
  /\ \A c \in Quoted : Means(Cat(<<c>>, <<"colon">>), Content[c]) \in Keys
  /\ \A k \in Keys : Written(k) /\ Len(k.text) = 2
  <1>1. Content["'a'"] = <<"a">> /\ Content["'b'"] = <<"b">>
    BY DEF Content, Quoted
  <1>2. \A c : <<c>> \o <<"colon">> = <<c, "colon">>
    <2> SUFFICES ASSUME NEW c PROVE <<c>> \o <<"colon">> = <<c, "colon">>
      OBVIOUS
    <2> DEFINE S == {c, "colon"}
    <2>1. \A T : \A d \in T, e \in T :
            /\ <<d>> \in Seq(T) /\ Len(<<d>>) = 1 /\ <<d>>[1] = d
            /\ <<d, e>> \in Seq(T) /\ Len(<<d, e>>) = 2 /\ <<d, e>>[1] = d /\ <<d, e>>[2] = e
      OBVIOUS
    <2>2. c \in S /\ "colon" \in S
      OBVIOUS
    <2> HIDE DEF S
    <2>3. PICK a \in Seq(S), b \in Seq(S), ab \in Seq(S) :
            /\ a = <<c>> /\ Len(a) = 1 /\ a[1] = c
            /\ b = <<"colon">> /\ Len(b) = 1 /\ b[1] = "colon"
            /\ ab = <<c, "colon">> /\ Len(ab) = 2 /\ ab[1] = c /\ ab[2] = "colon"
      <3>1. /\ <<c>> \in Seq(S) /\ Len(<<c>>) = 1 /\ <<c>>[1] = c
            /\ <<"colon">> \in Seq(S) /\ Len(<<"colon">>) = 1 /\ <<"colon">>[1] = "colon"
            /\ <<c, "colon">> \in Seq(S) /\ Len(<<c, "colon">>) = 2
            /\ <<c, "colon">>[1] = c /\ <<c, "colon">>[2] = "colon"
        BY <2>1, <2>2
      <3>2. QED
        BY <3>1, Zenon
    <2>4. /\ Cat(a, b) \in Seq(S)
          /\ Len(Cat(a, b)) = Len(a) + Len(b)
          /\ \A i \in 1 .. Len(a) + Len(b) : Cat(a, b)[i] = IF i <= Len(a) THEN a[i] ELSE b[i - Len(a)]
      <3> HIDE <2>3
      <3> QED BY CatIs
    <2>5. /\ Len(Cat(a, b)) = 2
          /\ \A i \in 1 .. 2 : Cat(a, b)[i] = IF i <= 1 THEN a[i] ELSE b[i - 1]
      BY <2>3, <2>4
    <2>6. Cat(a, b)[1] = c /\ Cat(a, b)[2] = "colon"
      BY <2>3, <2>5
    <2>7. \A i \in 1 .. 2 : i = 1 \/ i = 2
      OBVIOUS
    <2>8. \A i \in 1 .. 2 : Cat(a, b)[i] = ab[i]
      BY <2>3, <2>6, <2>7
    <2>9. Len(Cat(a, b)) = Len(ab) /\ \A i \in 1 .. Len(Cat(a, b)) : Cat(a, b)[i] = ab[i]
      BY <2>3, <2>5, <2>8
    <2>10. Cat(a, b) = ab
      BY <2>4, <2>9, SeqEqual
    <2>11. QED
      BY <2>3, <2>10 DEF Cat
  <1>3. Keys = {Means(Cat(<<"'a'">>, <<"colon">>), Content["'a'"]),
          Means(Cat(<<"'b'">>, <<"colon">>), Content["'b'"])}
    BY <1>1, <1>2 DEF Keys, Cat
  <1>4. ASSUME NEW c \in Quoted, NEW k, k = Means(Cat(<<c>>, <<"colon">>), Content[c])
        PROVE  Written(k) /\ Len(k.text) = 2
    <2>1. c \in Alphabet.structure /\ "colon" \in Alphabet.structure
      BY StructureSymbols
    <2>2. PICK a \in Seq(Alphabet.structure), b \in Seq(Alphabet.structure) :
            a = <<c>> /\ b = <<"colon">> /\ Len(a) = 1 /\ Len(b) = 1
      BY <2>1, OneSymbol
    <2>3. k = Means(Cat(a, b), Content[c])
      BY <1>4, <2>2
    <2>4. Cat(a, b) \in Seq(Alphabet.structure) /\ Len(Cat(a, b)) = Len(a) + Len(b)
      BY CatIs
    <2>5. Len(Cat(a, b)) = 2
      BY <2>2, <2>4
    <2>6. k.text = Cat(a, b)
      BY <2>3 DEF Means
    <2>7. Len(Cat(a, b)) \in Nat \ {0}
      BY <2>5
    <2>8. Written(k)
      BY <2>3, <2>4, <2>7, WrittenIf
    <2>9. QED
      BY <2>5, <2>6, <2>8
  <1>5. \A k \in Keys : \E c \in Quoted : k = Means(Cat(<<c>>, <<"colon">>), Content[c])
    BY <1>3 DEF Quoted
  <1>6. QED
    BY <1>3, <1>4, <1>5 DEF Quoted

LEMMA CatWritten ==
  ASSUME NEW a \in Seq(Alphabet.structure), NEW b \in Seq(Alphabet.structure),
         Len(a) \in Nat \ {0} \/ Len(b) \in Nat \ {0}, NEW v, NEW x, x = Means(Cat(a, b), v)
  PROVE  Written(x)
  <1>1. Cat(a, b) \in Seq(Alphabet.structure) /\ Len(Cat(a, b)) = Len(a) + Len(b)
        /\ Len(a) \in Nat /\ Len(b) \in Nat
    BY CatIs
  <1>2. Len(Cat(a, b)) \in Nat \ {0}
    BY <1>1
  <1>3. QED
    BY <1>1, <1>2, WrittenIf

LEMMA MembersWritten ==
  ASSUME NEW values, \A v \in values : Written(v)
  PROVE  \A x \in Members(values) : Written(x)
  <1> SUFFICES ASSUME NEW x \in Members(values) PROVE Written(x)
    OBVIOUS
  <1>1. PICK k \in Keys, v \in values : x = Means(Cat(k.text, v.text), <<k.value, v.value>>)
    BY MembersIs
  <1>2. Written(k) /\ Written(v)
    BY KeysAre
  <1>3. QED
    BY <1>1, <1>2, CatWritten DEF Written

LEMMA AfterCommaWritten ==
  ASSUME NEW lists, \A y \in lists : Written(y)
  PROVE  \A z \in AfterComma(lists) :
           /\ Written(z)
           /\ \E b \in lists : z.text = Cat(<<"comma">>, b.text) /\ z.value = b.value
                               /\ Len(z.text) = 1 + Len(b.text)
  <1> SUFFICES ASSUME NEW z \in AfterComma(lists)
               PROVE  /\ Written(z)
                      /\ \E b \in lists : z.text = Cat(<<"comma">>, b.text) /\ z.value = b.value
                                          /\ Len(z.text) = 1 + Len(b.text)
    OBVIOUS
  <1>1. PICK b \in lists : z = Means(Cat(<<"comma">>, b.text), b.value)
    BY AfterCommaIs
  <1>2. PICK c \in Seq(Alphabet.structure) : c = <<"comma">> /\ Len(c) = 1
    BY StructureSymbols, OneSymbol
  <1>3. Written(b)
    OBVIOUS
  <1>4. z = Means(Cat(c, b.text), b.value)
    BY <1>1, <1>2
  <1>5. Len(Cat(c, b.text)) = Len(c) + Len(b.text)
    <2>1. c \in Seq(Alphabet.structure) /\ b.text \in Seq(Alphabet.structure)
      BY <1>3 DEF Written
    <2>2. QED
      BY <2>1, CatIs
  <1>6. z.text = Cat(c, b.text) /\ z.value = b.value
    BY <1>4 DEF Means
  <1>7. Written(z)
    BY <1>2, <1>3, <1>4, CatWritten DEF Written
  <1>8. z.text = Cat(<<"comma">>, b.text) /\ Len(z.text) = 1 + Len(b.text)
    BY <1>2, <1>5, <1>6
  <1>9. QED
    BY <1>6, <1>7, <1>8

\* A list is not empty, and denotes a sequence of what its items denote.
LEMMA ListsWritten ==
  ASSUME NEW items, \A x \in items : Written(x)
  PROVE  \A n \in 1 .. Half : \A x \in ListsOf(items)[n] :
           Written(x) /\ x.value \in Seq({y.value : y \in items})
  <1> DEFINE V == {y.value : y \in items}
             Good(n) == \A x \in ListsOf(items)[n] : Written(x) /\ x.value \in Seq(V)
             S == {n \in Nat : Good(n)}
  <1>0. Half \in Nat \ {0} /\ \A y \in items : y.value \in V
    BY HalfIs
  <1> HIDE DEF V
  <1>1. ASSUME NEW x \in Alone(items) PROVE Written(x) /\ x.value \in Seq(V)
    <2>1. PICK a \in items : x = Means(a.text, <<a.value>>)
      BY <1>1 DEF Alone
    <2>2. Written(x)
      BY <2>1, WrittenIf DEF Written
    <2>3. x.value = <<a.value>>
      BY <2>1 DEF Means
    <2>4. a.value \in V
      BY <1>0
    <2>5. <<a.value>> \in Seq(V)
      BY <2>4, OneSymbol
    <2>6. QED
      BY <2>2, <2>3, <2>5
  <1>2. ASSUME NEW n \in 1 .. Half - 1, Good(n), NEW x \in Lengthened(items, ListsOf(items)[n])
        PROVE  Written(x) /\ x.value \in Seq(V)
    <2>1. PICK a \in items, z \in AfterComma(ListsOf(items)[n]) :
            x = Means(Cat(a.text, z.text), Cat(<<a.value>>, z.value))
      BY <1>2, LengthenedIs
    <2>2. \A y \in ListsOf(items)[n] : Written(y)
      BY <1>2
    <2>3. PICK b \in ListsOf(items)[n] : z.value = b.value
      BY <2>2, AfterCommaWritten
    <2>4. Written(a) /\ Written(z)
      BY <2>2, AfterCommaWritten
    <2>5. Written(x)
      BY <2>1, <2>4, CatWritten DEF Written
    <2>6. x.value = Cat(<<a.value>>, z.value)
      BY <2>1 DEF Means
    <2>7. a.value \in V /\ z.value \in Seq(V)
      BY <1>0, <1>2, <2>3
    <2>8. <<a.value>> \in Seq(V)
      BY <2>7, OneSymbol
    <2>9. Cat(<<a.value>>, z.value) \in Seq(V)
      BY <2>7, <2>8, CatIs
    <2>10. QED
      BY <2>5, <2>6, <2>9
  <1>3. 1 \in S
    <2>1. ListsOf(items)[1] = Alone(items)
      BY ListsOfIs
    <2>2. QED
      BY <1>1, <2>1
  <1>4. \A n \in 1 .. Half - 1 : n \in S => n + 1 \in S
    <2> SUFFICES ASSUME NEW n \in 1 .. Half - 1, Good(n) PROVE n + 1 \in Nat /\ Good(n + 1)
      OBVIOUS
    <2>1. ListsOf(items)[n + 1] = Alone(items) \cup Lengthened(items, ListsOf(items)[n])
      BY ListsOfIs
    <2>2. n + 1 \in Nat
      BY <1>0
    <2>3. QED
      BY <1>1, <1>2, <2>1, <2>2
  <1>5. \A n \in 1 .. Half : n \in S
    <2> HIDE DEF S
    <2> QED BY <1>0, <1>3, <1>4, Upwards
  <1>6. QED
    BY <1>5 DEF V

LEMMA ListsAre ==
  ASSUME NEW items, NEW y \in Lists(items), \A x \in items : Written(x)
  PROVE  /\ y = Means(<<>>, <<>>) \/ (y \in ListsOf(items)[Half] /\ Written(y))
         /\ y.text \in Seq(Alphabet.structure) /\ y.text \in Seq(Symbols)
         /\ y = Means(y.text, y.value)
  <1>1. Half \in 1 .. Half
    BY HalfIs
  <1>2. y \in ListsOf(items)[Half] \/ y = Means(<<>>, <<>>)
    BY DEF Lists, Half
  <1>3. y \in ListsOf(items)[Half] => Written(y)
    BY <1>1, ListsWritten
  <1>4. CASE y = Means(<<>>, <<>>)
    <2>1. y.text = <<>> /\ y = Means(y.text, y.value)
      BY <1>4 DEF Means
    <2>2. \A S : <<>> \in Seq(S)
      OBVIOUS
    <2>3. y.text \in Seq(Alphabet.structure) /\ y.text \in Seq(Symbols)
      BY <2>1, <2>2
    <2>4. QED
      BY <1>4, <2>1, <2>3
  <1>5. CASE y \in ListsOf(items)[Half] /\ Written(y)
    BY <1>5 DEF Written
  <1>6. QED
    BY <1>2, <1>3, <1>4, <1>5

LEMMA AroundIs ==
  ASSUME NEW S, NEW o \in S, NEW s \in Seq(S), NEW c \in S
  PROVE  /\ Around(o, s, c) \in Seq(S)
         /\ Len(Around(o, s, c)) = Len(s) + 2 /\ Len(s) \in Nat
         /\ \A y \in Seq(S) : Cat(Around(o, s, c), y) = Cat(<<o>>, Cat(s, Cat(<<c>>, y)))
  <1>1. PICK a \in Seq(S), b \in Seq(S) : a = <<o>> /\ b = <<c>> /\ Len(a) = 1 /\ Len(b) = 1
    BY OneSymbol
  <1>2. Around(o, s, c) = Cat(Cat(a, s), b)
    BY <1>1 DEF Around
  <1>3. Cat(a, s) \in Seq(S) /\ Len(Cat(a, s)) = Len(a) + Len(s) /\ Len(s) \in Nat
    BY CatIs
  <1>4. Cat(Cat(a, s), b) \in Seq(S) /\ Len(Cat(Cat(a, s), b)) = Len(Cat(a, s)) + Len(b)
    BY <1>3, CatIs
  <1>5. Len(Cat(Cat(a, s), b)) = Len(s) + 2
    BY <1>1, <1>3, <1>4
  <1>6. ASSUME NEW y \in Seq(S) PROVE Cat(Cat(Cat(a, s), b), y) = Cat(a, Cat(s, Cat(b, y)))
    <2>1. Cat(Cat(Cat(a, s), b), y) = Cat(Cat(a, s), Cat(b, y))
      BY <1>3, CatAssociates
    <2>2. Cat(b, y) \in Seq(S)
      BY CatIs
    <2>3. Cat(Cat(a, s), Cat(b, y)) = Cat(a, Cat(s, Cat(b, y)))
      BY <2>2, CatAssociates
    <2>4. QED
      BY <2>1, <2>3
  <1>7. QED
    BY <1>1, <1>2, <1>3, <1>4, <1>5, <1>6

\* What comes after it.
LEMMA AroundThen ==
  \A o \in Symbols : \A c \in Symbols : \A s \in Seq(Symbols) : \A y \in Seq(Symbols) :
    Cat(Around(o, s, c), y) = Cat(<<o>>, Cat(s, Cat(<<c>>, y)))
  <1> SUFFICES ASSUME NEW o \in Symbols, NEW c \in Symbols, NEW s \in Seq(Symbols), NEW y \in Seq(Symbols)
               PROVE  Cat(Around(o, s, c), y) = Cat(<<o>>, Cat(s, Cat(<<c>>, y)))
    OBVIOUS
  <1>1. QED
    BY AroundIs

\* Every value is a text that is not empty.
LEMMA StructuresWritten ==
  ASSUME NEW n \in 0 .. Half
  PROVE  \A x \in StructuresOf[n] : Written(x)
  <1> DEFINE Good(m) == \A x \in StructuresOf[m] : Written(x)
             S == {m \in Nat : Good(m)}
  <1>0. Half \in Nat
    BY HalfIs
  <1>1. 0 \in S
    BY StructuresOfIs, ScalarsAre
  <1>2. ASSUME NEW values, \A x \in values : Written(x), NEW x \in Deeper(values) PROVE Written(x)
    <2>1. ASSUME NEW items, NEW y \in Lists(items), \A z \in items : Written(z),
                 NEW o \in Alphabet.structure, NEW c \in Alphabet.structure, NEW v,
                 x = Means(Around(o, y.text, c), v)
          PROVE  Written(x)
      <3>1. y.text \in Seq(Alphabet.structure)
        BY <2>1, ListsAre
      <3>2. /\ Around(o, y.text, c) \in Seq(Alphabet.structure)
            /\ Len(Around(o, y.text, c)) = Len(y.text) + 2 /\ Len(y.text) \in Nat
        BY <3>1, AroundIs
      <3>3. Len(Around(o, y.text, c)) \in Nat \ {0}
        BY <3>2
      <3>4. QED
        BY <2>1, <3>2, <3>3, WrittenIf
    <2>2. \A z \in Members(values) : Written(z)
      BY <1>2, MembersWritten
    <2>3. /\ "begin_array" \in Alphabet.structure /\ "end_array" \in Alphabet.structure
          /\ "begin_object" \in Alphabet.structure /\ "end_object" \in Alphabet.structure
      BY StructureSymbols
    <2>4. ASSUME NEW y \in Lists(values),
                 x = Means(Around("begin_array", y.text, "end_array"), <<"array", y.value>>)
          PROVE  Written(x)
      BY <1>2, <2>1, <2>3, <2>4
    <2>5. ASSUME NEW y \in Lists(Members(values)),
                 x = Means(Around("begin_object", y.text, "end_object"), <<"object", ObjectOf(y.value)>>)
          PROVE  Written(x)
      BY <2>1, <2>2, <2>3, <2>5
    <2>6. QED
      BY <1>2, <2>4, <2>5, DeeperIs
  <1>3. \A m \in 0 .. Half - 1 : m \in S => m + 1 \in S
    <2>1. \A m \in 0 .. Half - 1 : m + 1 \in Nat
      BY <1>0
    <2>2. QED
      BY <1>2, <2>1, StructuresOfIs
  <1>4. \A m \in 0 .. Half : m \in S
    <2> HIDE DEF S
    <2> QED BY <1>0, <1>1, <1>3, Upwards
  <1>5. QED
    BY <1>4

\* What a loop adds to what the rest of the list gives.
Put(loop, item, rest) == IF loop = "elements" THEN Cat(<<item>>, rest) ELSE Insert(item[1], item[2], rest)

\* What a list denotes in an array and in an object.
Denotes(loop, list) == IF loop = "elements" THEN ArrayOf(list) ELSE ObjectOf(list)

\* The maximum of a bounded set.
LEMMA Greatest ==
  ASSUME NEW b \in Nat, NEW S \in SUBSET (1 .. b), S # {}
  PROVE  Max(S) \in S /\ \A k \in S : k <= Max(S)
  <1> DEFINE T == {b - k : k \in S}
  <1>1. T \in SUBSET Nat /\ T # {}
    <2>1. \A k \in S : b - k \in Nat
      OBVIOUS
    <2>2. PICK k \in S : TRUE
      OBVIOUS
    <2>3. b - k \in T
      OBVIOUS
    <2>4. QED
      BY <2>1, <2>3
  <1>2. PICK n \in T : \A k \in T : n <= k
    <2> HIDE DEF T
    <2> QED BY <1>1, Least
  <1>3. PICK m \in S : n = b - m
    BY <1>2
  <1>4. ASSUME NEW k \in S PROVE k <= m
    <2>1. b - k \in T
      OBVIOUS
    <2>2. b - m <= b - k
      BY <1>2, <1>3, <2>1
    <2>3. QED
      BY <2>2
  <1>5. \A k \in S : m >= k
    BY <1>4
  <1>6. Max(S) = CHOOSE x \in S : \A y \in S : x >= y
    BY DEF Max
  <1>7. Max(S) \in S /\ \A y \in S : Max(S) >= y
    BY <1>5, <1>6
  <1>8. QED
    BY <1>7

LEMMA GreatestIf ==
  ASSUME NEW b \in Nat, NEW S \in SUBSET (1 .. b), NEW n \in S, \A k \in S : k <= n
  PROVE  Max(S) = n
  <1> DEFINE m == Max(S)
  <1>1. m \in S /\ \A k \in S : k <= m
    <2>1. S # {}
      OBVIOUS
    <2>2. QED
      BY <2>1, Greatest
  <1> HIDE DEF m
  <1>2. m \in 1 .. b /\ n \in 1 .. b /\ m <= n /\ n <= m
    BY <1>1
  <1>3. m = n
    BY <1>2
  <1>4. QED
    BY <1>3 DEF m

\* The members of a list with a key.
Named(list, key) == {i \in DOMAIN list : list[i][1] = key}

\* The keys of a list of members.
KeysOf(list) == {list[i][1] : i \in DOMAIN list}

LEMMA ObjectOfIs ==
  ASSUME NEW list
  PROVE  ObjectOf(list) = [key \in KeysOf(list) |-> list[Max(Named(list, key))][2]]
  BY DEF ObjectOf, KeysOf, Named

\* A member before a list of members changes the object as insert_or_assign does:
\* only if no later member has its key.
LEMMA ObjectOfLonger ==
  ASSUME NEW S, NEW m \in S, NEW list \in Seq(S)
  PROVE  ObjectOf(Cat(<<m>>, list)) = Insert(m[1], m[2], ObjectOf(list))
  <1> DEFINE n == Len(list)
  <1>0. PICK a \in Seq(S) : a = <<m>> /\ Len(a) = 1 /\ a[1] = m
    <2>1. <<m>> \in Seq(S) /\ Len(<<m>>) = 1 /\ <<m>>[1] = m
      OBVIOUS
    <2>2. QED
      BY <2>1
  <1>1. PICK longer \in Seq(S) :
          /\ longer = Cat(<<m>>, list)
          /\ Len(longer) = 1 + n
          /\ \A i \in 1 .. 1 + n : longer[i] = IF i <= 1 THEN a[i] ELSE list[i - 1]
    <2>1. /\ Cat(a, list) \in Seq(S) /\ Len(Cat(a, list)) = Len(a) + n
          /\ \A i \in 1 .. Len(a) + n : Cat(a, list)[i] = IF i <= Len(a) THEN a[i] ELSE list[i - Len(a)]
      <3> HIDE <1>0
      <3> QED BY CatIs
    <2>2. /\ Cat(<<m>>, list) \in Seq(S) /\ Len(Cat(<<m>>, list)) = 1 + n
          /\ \A i \in 1 .. 1 + n : Cat(<<m>>, list)[i] = IF i <= 1 THEN a[i] ELSE list[i - 1]
      BY <1>0, <2>1
    <2>3. QED
      BY <2>2
  <1>2. /\ n \in Nat /\ DOMAIN list = 1 .. n /\ DOMAIN longer = 1 .. n + 1
        /\ longer[1] = m /\ \A i \in 1 .. n : longer[i + 1] = list[i]
    <2>1. n \in Nat /\ DOMAIN list = 1 .. n /\ DOMAIN longer = 1 .. n + 1
      BY <1>1
    <2>2. \A i \in 1 .. n : i + 1 \in 1 .. 1 + n /\ ~(i + 1 <= 1) /\ (i + 1) - 1 = i
      BY <2>1
    <2>3. 1 \in 1 .. 1 + n
      BY <2>1
    <2>4. QED
      BY <1>0, <1>1, <2>1, <2>2, <2>3
  <1> HIDE DEF n
  <1>3. \A i \in 1 .. n + 1 : i = 1 \/ (i - 1 \in 1 .. n /\ longer[i] = list[i - 1])
    <2> SUFFICES ASSUME NEW i \in 1 .. n + 1, i # 1 PROVE i - 1 \in 1 .. n /\ longer[i] = list[i - 1]
      OBVIOUS
    <2>1. i - 1 \in 1 .. n /\ (i - 1) + 1 = i
      BY <1>2
    <2>2. QED
      BY <1>2, <2>1
  <1>4. KeysOf(longer) = KeysOf(list) \cup {m[1]}
    <2>1. 1 \in 1 .. n + 1 /\ \A i \in 1 .. n : i + 1 \in 1 .. n + 1
      BY <1>2
    <2>2. \A i \in 1 .. n + 1 : longer[i][1] \in KeysOf(list) \cup {m[1]}
      BY <1>2, <1>3 DEF KeysOf
    <2>3. \A i \in 1 .. n : list[i][1] \in KeysOf(longer)
      BY <1>2, <2>1 DEF KeysOf
    <2>4. m[1] \in KeysOf(longer)
      BY <1>2, <2>1 DEF KeysOf
    <2>5. KeysOf(longer) \subseteq KeysOf(list) \cup {m[1]}
      BY <1>2, <2>2 DEF KeysOf
    <2>6. KeysOf(list) \subseteq KeysOf(longer)
      BY <1>2, <2>3 DEF KeysOf
    <2>7. QED
      BY <2>4, <2>5, <2>6
  <1>5. ASSUME NEW key \in KeysOf(list)
        PROVE  longer[Max(Named(longer, key))][2] = list[Max(Named(list, key))][2]
    <2> DEFINE last == Max(Named(list, key))
    <2>1. Named(list, key) \in SUBSET (1 .. n) /\ Named(list, key) # {}
      BY <1>2 DEF KeysOf, Named
    <2>2. last \in Named(list, key) /\ \A k \in Named(list, key) : k <= last
      BY <1>2, <2>1, Greatest
    <2> HIDE DEF last
    <2>3. last \in 1 .. n /\ list[last][1] = key
      BY <1>2, <2>2 DEF Named
    <2>4. last + 1 \in 1 .. n + 1 /\ longer[last + 1] = list[last]
      BY <1>2, <2>3
    <2>5. last + 1 \in Named(longer, key) /\ Named(longer, key) \in SUBSET (1 .. n + 1) /\ n + 1 \in Nat
      BY <1>2, <2>3, <2>4 DEF Named
    <2>6. ASSUME NEW k \in Named(longer, key) PROVE k <= last + 1
      <3>1. k \in 1 .. n + 1 /\ longer[k][1] = key
        BY <1>2 DEF Named
      <3>2. CASE k = 1
        BY <2>3, <3>2
      <3>3. CASE k # 1
        <4>1. k - 1 \in 1 .. n /\ longer[k] = list[k - 1]
          BY <1>3, <3>1, <3>3
        <4>2. k - 1 \in Named(list, key)
          BY <1>2, <3>1, <4>1 DEF Named
        <4>3. k - 1 <= last
          BY <2>2, <4>2
        <4>4. QED
          BY <2>3, <3>1, <4>3
      <3>4. QED
        BY <3>2, <3>3
    <2>7. Max(Named(longer, key)) = last + 1
      <3> DEFINE N == Named(longer, key)
      <3> HIDE DEF N
      <3>1. last + 1 \in N /\ N \in SUBSET (1 .. n + 1) /\ n + 1 \in Nat /\ \A k \in N : k <= last + 1
        BY <2>5, <2>6 DEF N
      <3>2. Max(N) = last + 1
        BY <3>1, GreatestIf
      <3>3. QED
        BY <3>2 DEF N
    <2>8. QED
      BY <2>4, <2>7 DEF last
  <1>6. ASSUME m[1] \notin KeysOf(list)
        PROVE  longer[Max(Named(longer, m[1]))][2] = m[2]
    <2>1. Named(longer, m[1]) = {1}
      <3>1. \A i \in 1 .. n : list[i][1] # m[1]
        BY <1>2, <1>6 DEF KeysOf
      <3>2. \A i \in 1 .. n + 1 : longer[i][1] = m[1] <=> i = 1
        BY <1>2, <1>3, <3>1
      <3>3. 1 \in 1 .. n + 1
        BY <1>2
      <3>4. QED
        BY <1>2, <3>2, <3>3 DEF Named
    <2>2. Max({1}) = 1
      <3>1. 1 \in {1} /\ {1} \in SUBSET (1 .. 1) /\ \A k \in {1} : k <= 1
        OBVIOUS
      <3>2. QED
        BY <3>1, GreatestIf
    <2>3. QED
      BY <1>2, <2>1, <2>2
  <1> DEFINE O == ObjectOf(list)
  <1>7. O = [key \in KeysOf(list) |-> list[Max(Named(list, key))][2]]
    BY ObjectOfIs
  <1>8. ObjectOf(longer) = [key \in KeysOf(longer) |-> longer[Max(Named(longer, key))][2]]
    BY ObjectOfIs
  <1>9. Insert(m[1], m[2], O) = [k \in DOMAIN O \cup {m[1]} |-> IF k \in DOMAIN O THEN O[k] ELSE m[2]]
    BY DEF Insert
  <1> HIDE DEF O
  <1>10. DOMAIN O = KeysOf(list) /\ \A key \in KeysOf(list) : O[key] = list[Max(Named(list, key))][2]
    BY <1>7
  <1>11. \A key \in KeysOf(longer) :
           longer[Max(Named(longer, key))][2] = IF key \in DOMAIN O THEN O[key] ELSE m[2]
    BY <1>4, <1>5, <1>6, <1>10
  <1>12. ObjectOf(longer) = Insert(m[1], m[2], O)
    BY <1>4, <1>8, <1>9, <1>10, <1>11
  <1>13. QED
    BY <1>1, <1>12 DEF O

LEMMA ObjectOfNone == ObjectOf(<<>>) = <<>>
  <1>1. DOMAIN <<>> = {} /\ KeysOf(<<>>) = {}
    BY DEF KeysOf
  <1>2. \A f : DOMAIN f = {} /\ f = [x \in DOMAIN f |-> f[x]] => f = <<>>
    OBVIOUS
  <1>3. QED
    BY <1>1, <1>2, ObjectOfIs

\* A list denotes what the loop of the parser builds, item by item.
LEMMA DenotesIs ==
  ASSUME NEW loop \in Loops
  PROVE  /\ Denotes(loop, <<>>) = <<>>
         /\ \A S : \A m \in S : \A list \in Seq(S) :
              Denotes(loop, Cat(<<m>>, list)) = Put(loop, m, Denotes(loop, list))
         /\ \A m : Denotes(loop, <<m>>) = Put(loop, m, <<>>)
  <1>1. Denotes(loop, <<>>) = <<>>
    BY ObjectOfNone DEF Denotes, ArrayOf
  <1>2. ASSUME NEW S, NEW m \in S, NEW list \in Seq(S)
        PROVE  Denotes(loop, Cat(<<m>>, list)) = Put(loop, m, Denotes(loop, list))
    BY ObjectOfLonger DEF Denotes, Put, ArrayOf
  <1>3. ASSUME NEW m PROVE Denotes(loop, <<m>>) = Put(loop, m, <<>>)
    <2>1. m \in {m} /\ <<>> \in Seq({m}) /\ <<m>> \in Seq({m})
      OBVIOUS
    <2>2. Denotes(loop, Cat(<<m>>, <<>>)) = Put(loop, m, Denotes(loop, <<>>))
      BY <1>2, <2>1
    <2>3. Cat(<<m>>, <<>>) = <<m>>
      BY <2>1, CatEmpty
    <2>4. QED
      BY <1>1, <2>2, <2>3
  <1>4. QED
    BY <1>1, <1>2, <1>3

\* Further on there is less left.
LEMMA BareShrinks ==
  ASSUME NEW t \in Seq(Symbols), NEW p \in 1 .. Len(t) + 1, NEW q \in p .. Len(t) + 1
  PROVE  Len(Bare(t, q)) \in Nat /\ Len(Bare(t, p)) \in Nat /\ Len(Bare(t, q)) <= Len(Bare(t, p))
  <1> DEFINE left(n) == Len(Bare(t, n))
             S == {n \in Nat : left(n) <= left(p)}
  <1>0. Len(t) \in Nat /\ p \in Nat /\ q \in Nat /\ q <= Len(t) + 1 /\ p <= q
    OBVIOUS
  <1>1. \A n \in 1 .. Len(t) + 1 : left(n) \in Nat
    BY BareTyped
  <1>2. ASSUME NEW n \in 1 .. Len(t) PROVE left(n + 1) <= left(n)
    <2>1. n + 1 \in 1 .. Len(t) + 1
      BY <1>0
    <2>2. CASE At(t, n) = "space"
      <3>1. left(n + 1) = left(n)
        BY <2>2, BareIs
      <3> HIDE DEF left
      <3>2. QED
        BY <1>1, <2>1, <3>1
    <2>3. CASE At(t, n) # "space"
      <3>1. Bare(t, n) = Cat(<<At(t, n)>>, Bare(t, n + 1))
        BY <2>3, BareIs
      <3>2. At(t, n) \in Symbols
        BY <1>0 DEF At
      <3>3. PICK a \in Seq(Symbols) : a = <<At(t, n)>> /\ Len(a) = 1
        BY <3>2, OneSymbol
      <3>4. Bare(t, n + 1) \in Seq(Symbols)
        BY <2>1, BareTyped
      <3>5. Len(Cat(a, Bare(t, n + 1))) = Len(a) + Len(Bare(t, n + 1))
        <4> HIDE <3>3
        <4> QED BY <3>4, CatIs
      <3>6. left(n) = 1 + left(n + 1)
        BY <3>1, <3>3, <3>5
      <3> HIDE DEF left
      <3>7. QED
        BY <1>1, <2>1, <3>6
    <2>4. QED
      BY <2>2, <2>3
  <1>3. \A n \in p .. q : n \in S
    <2> HIDE DEF left
    <2>1. p \in 1 .. Len(t) + 1
      OBVIOUS
    <2>2. left(p) \in Nat
      BY <1>1, <2>1
    <2>3. p \in S
      BY <1>0, <2>2
    <2>4. ASSUME NEW n \in p .. q - 1, n \in S PROVE n + 1 \in S
      <3>1. n \in 1 .. Len(t) /\ n \in 1 .. Len(t) + 1 /\ n + 1 \in 1 .. Len(t) + 1 /\ n + 1 \in Nat
        BY <1>0
      <3>2. left(n) \in Nat /\ left(n + 1) \in Nat /\ left(n + 1) <= left(n) /\ left(n) <= left(p)
        BY <1>1, <1>2, <2>4, <3>1
      <3>3. QED
        BY <2>2, <3>1, <3>2
    <2>5. \A n \in p .. q - 1 : n \in S => n + 1 \in S
      BY <2>4
    <2> HIDE DEF S
    <2>6. QED
      BY <1>0, <2>3, <2>5, Upwards
  <1>4. q \in p .. q
    BY <1>0
  <1>5. QED
    BY <1>1, <1>3, <1>4

LEMMA NoEnd == "end" \notin Symbols
  BY DEF Symbols, Alphabet, Digits, HexGroups

\* The next symbol that is not white space is read.
LEMMA TokenRead ==
  ASSUME NEW t \in Seq(Symbols), NEW p \in 1 .. Len(t) + 1, NEW q, q = SkipWs(t, p), At(t, q) \in Symbols
  PROVE  /\ q \in p .. Len(t) /\ q \in 1 .. Len(t) + 1
         /\ q + 1 \in p + 1 .. Len(t) + 1 /\ q + 1 \in 1 .. Len(t) + 1
         /\ Bare(t, p) = Cat(<<At(t, q)>>, Bare(t, q + 1))
         /\ Len(Bare(t, p)) = 1 + Len(Bare(t, q + 1))
  <1>1. /\ q \in p .. Len(t) + 1
        /\ q = Len(t) + 1 => At(t, q) = "end"
        /\ q # Len(t) + 1 => Bare(t, p) = Cat(<<At(t, q)>>, Bare(t, q + 1))
    BY TokenIs
  <1>2. q # Len(t) + 1
    BY <1>1, NoEnd
  <1>3. /\ q \in p .. Len(t) /\ q \in 1 .. Len(t) + 1
        /\ q + 1 \in p + 1 .. Len(t) + 1 /\ q + 1 \in 1 .. Len(t) + 1
    BY <1>1, <1>2
  <1>4. Len(Bare(t, p)) = 1 + Len(Bare(t, q + 1))
    <2>1. PICK a \in Seq(Symbols) : a = <<At(t, q)>> /\ Len(a) = 1
      BY OneSymbol
    <2>2. Bare(t, q + 1) \in Seq(Symbols)
      BY <1>3, BareTyped
    <2>3. Len(Cat(a, Bare(t, q + 1))) = Len(a) + Len(Bare(t, q + 1))
      <3> HIDE <2>1
      <3> QED BY <2>2, CatIs
    <2>4. QED
      BY <1>1, <1>2, <2>1, <2>3
  <1>5. QED
    BY <1>1, <1>2, <1>3, <1>4

\* A symbol that is next is found by skip_ws.
LEMMA TokenFound ==
  ASSUME NEW t \in Seq(Symbols), NEW p \in 1 .. Len(t) + 1, NEW q, q = SkipWs(t, p),
         NEW c \in Symbols, NEW y \in Seq(Symbols)
  PROVE  Bare(t, p) = Cat(<<c>>, y) =>
           At(t, q) = c /\ Bare(t, q + 1) = y /\ q + 1 \in p + 1 .. Len(t) + 1 /\ q + 1 \in 1 .. Len(t) + 1
  <1> SUFFICES ASSUME Bare(t, p) = Cat(<<c>>, y)
               PROVE  At(t, q) = c /\ Bare(t, q + 1) = y
                      /\ q + 1 \in p + 1 .. Len(t) + 1 /\ q + 1 \in 1 .. Len(t) + 1
    OBVIOUS
  <1>1. /\ q \in p .. Len(t) + 1
        /\ q = Len(t) + 1 => Bare(t, p) = <<>>
        /\ q # Len(t) + 1 => At(t, q) \in Tokens /\ Bare(t, p) = Cat(<<At(t, q)>>, Bare(t, q + 1))
    BY TokenIs
  <1>2. Bare(t, p) # <<>>
    <2>1. PICK a \in Seq(Symbols) : a = <<c>> /\ Len(a) = 1
      BY OneSymbol
    <2>2. Len(Cat(a, y)) = Len(a) + Len(y) /\ Len(y) \in Nat
      <3> HIDE <2>1
      <3> QED BY CatIs
    <2>3. Len(Bare(t, p)) = 1 + Len(y)
      BY <2>1, <2>2
    <2>4. Len(<<>>) = 0 /\ 1 + Len(y) # 0
      BY <2>2
    <2>5. QED
      BY <2>3, <2>4
  <1>3. At(t, q) \in Symbols /\ Cat(<<At(t, q)>>, Bare(t, q + 1)) = Cat(<<c>>, y)
    BY <1>1, <1>2 DEF Tokens
  <1>4. q + 1 \in p + 1 .. Len(t) + 1 /\ q + 1 \in 1 .. Len(t) + 1
    BY <1>3, TokenRead
  <1>5. Bare(t, q + 1) \in Seq(Symbols)
    BY <1>4, BareTyped
  <1>6. QED
    BY <1>3, <1>4, <1>5, FirstOfCat

\* What parse_value makes of a text at a position.
Value(t, p) == Parser(t)[<<"value", p>>]

\* The symbols of structures.
LEMMA StructureTyped ==
  ASSUME NEW t \in Seq(Alphabet.structure)
  PROVE  /\ t \in Seq(Symbols) /\ Len(t) \in Nat
         /\ \A p \in 1 .. Len(t) + 1 :
              At(t, SkipWs(t, p)) \in Quoted
                \cup {"null", "begin_object", "end_object", "begin_array", "end_array",
                                                    "colon", "comma", "end"}
  <1>1. t \in Seq(Symbols) /\ Len(t) \in Nat
    BY SymbolsAre, SeqMonotonic
  <1>2. ASSUME NEW p \in 1 .. Len(t) + 1
        PROVE  At(t, SkipWs(t, p)) \in Quoted
                 \cup {"null", "begin_object", "end_object", "begin_array", "end_array",
                                                     "colon", "comma", "end"}
    <2>1. SkipWs(t, p) \in p .. Len(t) + 1 /\ At(t, SkipWs(t, p)) # "space"
      BY <1>1, SkipWsIs
    <2>2. At(t, SkipWs(t, p)) \in Alphabet.structure \cup {"end"}
      BY <1>1, <2>1 DEF At
    <2>3. QED
      BY <2>1, <2>2 DEF Alphabet, Quoted
  <1>3. QED
    BY <1>1, <1>2

\* What each of them announces.
LEMMA ValueIs ==
  ASSUME NEW t \in Seq(Alphabet.structure), NEW p \in 1 .. Len(t) + 1, NEW q, q = SkipWs(t, p)
  PROVE  /\ At(t, q) = "begin_object" =>
              Value(t, p) = Container(t, SkipWs(t, q + 1), "object", "end_object", "members", Parser(t))
         /\ At(t, q) = "begin_array" =>
              Value(t, p) = Container(t, SkipWs(t, q + 1), "array", "end_array", "elements", Parser(t))
         /\ At(t, q) \in Quoted => Value(t, p) = Ok(<<"string", Content[At(t, q)]>>, q + 1)
         /\ At(t, q) = "null" => Value(t, p) = Ok(<<"null">>, q + 1)
         /\ At(t, q) \in {"end_object", "end_array", "colon", "comma", "end"} => Value(t, p) = Fail
  <1>1. t \in Seq(Symbols) /\ Len(t) \in Nat
    BY StructureTyped
  <1>2. Value(t, p) = ValueAt(t, p, Parser(t))
    BY <1>1, CallsAre DEF Value
  <1>3. At(t, q) \in Quoted => Value(t, p) = Ok(<<"string", Content[At(t, q)]>>, q + 1)
    <2> SUFFICES ASSUME At(t, q) \in Quoted PROVE Value(t, p) = Ok(<<"string", Content[At(t, q)]>>, q + 1)
      OBVIOUS
    <2>1. Value(t, p) = Typed("string", ParseString(t, q))
      BY <1>2, ValueAtIs
    <2>2. At(t, q) # "end"
      BY DEF Quoted
    <2>3. At(t, q) = t[q]
      BY <2>2 DEF At
    <2>4. ParseString(t, q) = Ok(Content[At(t, q)], q + 1)
      <3>1. At(t, q) # "quote"
        BY DEF Quoted
      <3>2. QED
        BY <2>3, <3>1 DEF ParseString
    <2>5. QED
      BY <2>1, <2>4 DEF Typed, Ok
  <1>4. At(t, q) = "null" => Value(t, p) = Ok(<<"null">>, q + 1)
    <2>1. "null" \in Literals /\ LiteralValue["null"] = <<"null">>
      BY DEF Literals, LiteralValue
    <2>2. QED
      BY <1>2, <2>1, ValueAtIs
  <1>5. At(t, q) \in {"end_object", "end_array", "colon", "comma", "end"} => Value(t, p) = Fail
    <2>1. \A c \in {"end_object", "end_array", "colon", "comma", "end"} :
            c \notin {"begin_object", "begin_array", "quote", "-"} \cup Quoted \cup Literals \cup Digits
      BY DEF Quoted, Literals, Digits
    <2>2. QED
      BY <1>2, <2>1, ValueAtIs
  <1>6. QED
    BY <1>2, <1>3, <1>4, <1>5, ValueAtIs

\* A value that is parsed is not empty, and begins with no bracket that closes.
LEMMA ValueShrinks ==
  ASSUME NEW t \in Seq(Alphabet.structure), NEW p \in 1 .. Len(t) + 1
  PROVE  /\ Value(t, p).ok \in BOOLEAN
         /\ Value(t, p).ok =>
              /\ Value(t, p).next \in p + 1 .. Len(t) + 1 /\ Value(t, p).next \in 1 .. Len(t) + 1
              /\ Len(Bare(t, Value(t, p).next)) < Len(Bare(t, p))
              /\ At(t, SkipWs(t, p)) \notin {"end_object", "end_array"}
  <1> DEFINE q == SkipWs(t, p)
             r == Value(t, p)
  <1>1. t \in Seq(Symbols) /\ Len(t) \in Nat
    BY StructureTyped
  <1>2. Outcome(r, p, t)
    BY <1>1, CallsAre DEF Value, Loops
  <1>3. r.ok \in BOOLEAN
    BY <1>2 DEF Outcome
  <1>4. ASSUME r.ok
        PROVE  /\ r.next \in p + 1 .. Len(t) + 1 /\ r.next \in 1 .. Len(t) + 1
               /\ Len(Bare(t, r.next)) < Len(Bare(t, p))
               /\ At(t, q) \notin {"end_object", "end_array"}
    <2>1. r.next \in p + 1 .. Len(t) + 1
      BY <1>2, <1>4 DEF Outcome
    <2>2. At(t, q) \notin {"end_object", "end_array", "colon", "comma", "end"}
      <3>1. At(t, q) \in {"end_object", "end_array", "colon", "comma", "end"} => r = Fail
        BY ValueIs
      <3>2. r # Fail
        <4> HIDE DEF r
        <4> QED BY <1>4 DEF Fail
      <3> HIDE DEF r, q
      <3>3. QED
        BY <3>1, <3>2
    <2>3. At(t, q) \in Quoted \cup {"null", "begin_object", "begin_array"}
      BY <2>2, StructureTyped
    <2>4. At(t, q) \in Symbols /\ At(t, q) # "space"
      BY <2>3, StructureSymbols DEF Tokens
    <2>5. /\ q \in 1 .. Len(t) + 1 /\ q + 1 \in 1 .. Len(t) + 1
          /\ Len(Bare(t, p)) = 1 + Len(Bare(t, q + 1))
      BY <1>1, <2>4, TokenRead
    <2>6. r = Value(t, q)
      <3>1. SkipWs(t, q) = SkipWs(t, p)
        <4> HIDE DEF q
        <4>1. SkipWs(t, q) = q
          BY <1>1, <2>4, <2>5, SkipNone
        <4>2. QED
          BY <4>1 DEF q
      <3>2. ValueAt(t, p, Parser(t)) = ValueAt(t, q, Parser(t))
        <4> HIDE DEF q
        <4> QED BY <3>1 DEF ValueAt
      <3>3. Value(t, p) = ValueAt(t, p, Parser(t)) /\ Value(t, q) = ValueAt(t, q, Parser(t))
        <4> HIDE DEF q
        <4> QED BY <1>1, <2>5, CallsAre DEF Value
      <3>4. QED
        BY <3>2, <3>3
    <2>7. r.next \in q + 1 .. Len(t) + 1
      <3> HIDE DEF q
      <3>1. Outcome(Value(t, q), q, t)
        BY <1>1, <2>5, CallsAre DEF Value, Loops
      <3>2. QED
        BY <1>4, <2>6, <3>1 DEF Outcome
    <2>8. Len(Bare(t, r.next)) \in Nat /\ Len(Bare(t, q + 1)) \in Nat
            /\ Len(Bare(t, r.next)) <= Len(Bare(t, q + 1))
      <3> HIDE DEF q, r
      <3> QED BY <1>1, <2>5, <2>7, BareShrinks
    <2>9. Len(Bare(t, r.next)) < Len(Bare(t, p))
      <3> HIDE DEF q, r
      <3> QED BY <2>5, <2>8
    <2>10. r.next \in 1 .. Len(t) + 1
      <3> HIDE DEF r
      <3> QED BY <1>1, <2>1
    <2>11. QED
      BY <2>1, <2>2, <2>9, <2>10
  <1>5. QED
    BY <1>3, <1>4

\* What a round of the loop of parse_object parses.
PairAt(t, p) ==
  LET key == ParseString(t, SkipWs(t, p))
      colon == SkipWs(t, key.next)
      value == Value(t, colon + 1)
  IN  IF key.ok /\ At(t, colon) = "colon" /\ value.ok
      THEN Ok(<<key.value, value.value>>, value.next) ELSE Fail

\* What a round of either loop parses first.
ItemAt(t, loop, p) == IF loop = "elements" THEN Value(t, p) ELSE PairAt(t, p)

\* What ends each loop.
Close == [loop \in Loops |-> IF loop = "elements" THEN "end_array" ELSE "end_object"]

\* A loop from a position on.
Looped(t, loop, p) == Parser(t)[<<loop, p>>]

\* What comes after an item.
RestAt(t, loop, p) == Rest(t, SkipWs(t, p), Close[loop], loop, Parser(t))

LEMMA CloseIs ==
  /\ Close["elements"] = "end_array" /\ Close["members"] = "end_object"
  /\ \A loop \in Loops : /\ loop \in {"elements", "members"}
                         /\ Close[loop] \in {"end_object", "end_array"}
                         /\ Close[loop] \in Symbols /\ Close[loop] # "comma"
                         /\ Close[loop] \in Alphabet.structure
  <1>1. Close["elements"] = "end_array" /\ Close["members"] = "end_object"
    BY DEF Close, Loops
  <1>2. \A loop \in Loops : loop \in {"elements", "members"}
    BY DEF Loops
  <1>3. QED
    BY <1>1, <1>2, StructureSymbols

\* A member is a key, a colon and a value.
LEMMA PairIs ==
  ASSUME NEW t \in Seq(Alphabet.structure), NEW p \in 1 .. Len(t) + 1,
         NEW q, q = SkipWs(t, p), NEW colon, colon = SkipWs(t, q + 1)
  PROVE  PairAt(t, p) =
           IF At(t, q) \in Quoted /\ At(t, colon) = "colon" /\ Value(t, colon + 1).ok
           THEN Ok(<<Content[At(t, q)], Value(t, colon + 1).value>>, Value(t, colon + 1).next)
           ELSE Fail
  <1>1. CASE At(t, q) \in Quoted
    <2>1. At(t, q) # "end" /\ At(t, q) # "quote"
      BY <1>1 DEF Quoted
    <2>2. ParseString(t, q) = Ok(Content[At(t, q)], q + 1)
      <3>1. At(t, q) = t[q]
        BY <2>1 DEF At
      <3>2. QED
        BY <1>1, <2>1, <3>1 DEF ParseString
    <2>3. ParseString(t, q).ok /\ ParseString(t, q).next = q + 1
            /\ ParseString(t, q).value = Content[At(t, q)]
      BY <2>2 DEF Ok
    <2>4. QED
      BY <1>1, <2>3 DEF PairAt
  <1>2. CASE At(t, q) \notin Quoted
    <2>1. At(t, q) # "quote"
      BY StructureTyped DEF Quoted
    <2>2. ParseString(t, q) = Fail
      BY <1>2, <2>1 DEF ParseString
    <2>3. ~ParseString(t, q).ok
      BY <2>2 DEF Fail
    <2>4. QED
      BY <1>2, <2>3 DEF PairAt
  <1>3. QED
    BY <1>1, <1>2

\* A loop is an item and the rest.
LEMMA LoopIs ==
  ASSUME NEW t \in Seq(Alphabet.structure), NEW loop \in Loops, NEW p \in 1 .. Len(t) + 1
  PROVE  LET item == ItemAt(t, loop, p)
             rest == RestAt(t, loop, item.next)
         IN  Looped(t, loop, p) =
               IF item.ok /\ rest.ok THEN Ok(Put(loop, item.value, rest.value), rest.next) ELSE Fail
  <1>0. t \in Seq(Symbols) /\ Len(t) \in Nat
    BY StructureTyped
  <1>1. CASE loop = "elements"
    <2>1. Looped(t, loop, p) = ElementsAt(t, p, Parser(t))
      BY <1>0, <1>1, CallsAre DEF Looped
    <2>2. QED
      BY <1>1, <2>1, CloseIs DEF ElementsAt, ItemAt, RestAt, Put, Value, Cat
  <1>2. CASE loop = "members"
    <2>1. Looped(t, loop, p) = MembersAt(t, p, Parser(t))
      BY <1>0, <1>2, CallsAre DEF Looped
    <2>2. ItemAt(t, loop, p) = PairAt(t, p)
      BY <1>2 DEF ItemAt
    <2> DEFINE key == ParseString(t, SkipWs(t, p))
               colon == SkipWs(t, key.next)
               value == Value(t, colon + 1)
               good == key.ok /\ At(t, colon) = "colon" /\ value.ok
    <2>3. PairAt(t, p) = IF good THEN Ok(<<key.value, value.value>>, value.next) ELSE Fail
      BY DEF PairAt
    <2>4. MembersAt(t, p, Parser(t)) =
            IF good /\ RestAt(t, loop, value.next).ok
            THEN Ok(Insert(key.value, value.value, RestAt(t, loop, value.next).value),
              RestAt(t, loop, value.next).next)
            ELSE Fail
      BY <1>2, CloseIs DEF MembersAt, Value, RestAt
    <2> HIDE DEF key, colon, value
    <2>5. CASE good
      <3>1. PairAt(t, p).ok /\ PairAt(t, p).next = value.next
              /\ PairAt(t, p).value = <<key.value, value.value>>
        BY <2>3, <2>5 DEF Ok
      <3>2. \A rest : Put(loop, PairAt(t, p).value, rest) = Insert(key.value, value.value, rest)
        BY <1>2, <3>1 DEF Put
      <3>3. QED
        BY <2>1, <2>2, <2>4, <2>5, <3>1, <3>2
    <2>6. CASE ~good
      <3>1. ~PairAt(t, p).ok
        BY <2>3, <2>6 DEF Fail
      <3>2. MembersAt(t, p, Parser(t)) = Fail
        BY <2>4, <2>6
      <3>3. QED
        BY <2>1, <2>2, <3>1, <3>2
    <2>7. QED
      BY <2>5, <2>6
  <1>3. QED
    BY <1>1, <1>2 DEF Loops

\* The rest is what closes, or a comma and the loop again.
LEMMA RestIs ==
  ASSUME NEW t, NEW loop \in Loops, NEW p, NEW q, q = SkipWs(t, p)
  PROVE  /\ At(t, q) = Close[loop] => RestAt(t, loop, p) = Ok(<<>>, q + 1)
         /\ At(t, q) = "comma" => RestAt(t, loop, p) = Looped(t, loop, q + 1)
         /\ At(t, q) \notin {Close[loop], "comma"} => RestAt(t, loop, p) = Fail
  <1>1. Close[loop] # "comma"
    BY CloseIs
  <1>2. QED
    BY <1>1 DEF RestAt, Rest, Looped

\* An item that is parsed is not empty.
LEMMA ItemShrinks ==
  ASSUME NEW t \in Seq(Alphabet.structure), NEW loop \in Loops, NEW p \in 1 .. Len(t) + 1
  PROVE  /\ ItemAt(t, loop, p).ok \in BOOLEAN
         /\ ItemAt(t, loop, p).ok =>
              /\ ItemAt(t, loop, p).next \in p + 1 .. Len(t) + 1
              /\ ItemAt(t, loop, p).next \in 1 .. Len(t) + 1
              /\ Len(Bare(t, ItemAt(t, loop, p).next)) < Len(Bare(t, p))
              /\ At(t, SkipWs(t, p)) # Close[loop]
  <1>0. t \in Seq(Symbols) /\ Len(t) \in Nat
    BY StructureTyped
  <1>1. CASE loop = "elements"
    BY <1>1, ValueShrinks, CloseIs DEF ItemAt
  <1>2. CASE loop = "members"
    <2>1. ItemAt(t, loop, p) = PairAt(t, p) /\ Close[loop] = "end_object"
      BY <1>2, CloseIs DEF ItemAt
    <2> DEFINE q == SkipWs(t, p)
               colon == SkipWs(t, q + 1)
               value == Value(t, colon + 1)
    <2>2. PairAt(t, p) =
            IF At(t, q) \in Quoted /\ At(t, colon) = "colon" /\ value.ok
            THEN Ok(<<Content[At(t, q)], value.value>>, value.next) ELSE Fail
      BY PairIs
    <2>3. ASSUME At(t, q) \in Quoted, At(t, colon) = "colon", value.ok
          PROVE  /\ value.next \in p + 1 .. Len(t) + 1 /\ value.next \in 1 .. Len(t) + 1
                 /\ Len(Bare(t, value.next)) < Len(Bare(t, p))
                 /\ At(t, q) # "end_object"
      <3>1. At(t, q) \in Symbols /\ At(t, colon) \in Symbols
        BY <2>3, StructureSymbols
      <3>2. /\ q + 1 \in p + 1 .. Len(t) + 1 /\ q + 1 \in 1 .. Len(t) + 1
            /\ Len(Bare(t, p)) = 1 + Len(Bare(t, q + 1))
        BY <1>0, <3>1, TokenRead
      <3>3. /\ colon + 1 \in (q + 1) + 1 .. Len(t) + 1 /\ colon + 1 \in 1 .. Len(t) + 1
            /\ Len(Bare(t, q + 1)) = 1 + Len(Bare(t, colon + 1))
        <4> HIDE DEF q
        <4> QED BY <1>0, <3>1, <3>2, TokenRead
      <3>4. /\ value.next \in (colon + 1) + 1 .. Len(t) + 1 /\ value.next \in 1 .. Len(t) + 1
            /\ Len(Bare(t, value.next)) < Len(Bare(t, colon + 1))
        <4> HIDE DEF colon
        <4> QED BY <2>3, <3>3, ValueShrinks
      <3>5. Len(Bare(t, value.next)) \in Nat /\ Len(Bare(t, colon + 1)) \in Nat
        <4> HIDE DEF colon, value
        <4> QED BY <1>0, <3>3, <3>4, BareShrinks
      <3>6. Len(Bare(t, value.next)) < Len(Bare(t, p)) /\ value.next \in p + 1 .. Len(t) + 1
        <4> HIDE DEF colon, value, q
        <4> QED BY <1>0, <3>2, <3>3, <3>4, <3>5
      <3>7. At(t, q) # "end_object"
        BY <2>3 DEF Quoted
      <3>8. QED
        BY <3>4, <3>6, <3>7
    <2>4. value.ok \in BOOLEAN \/ ~(At(t, q) \in Quoted /\ At(t, colon) = "colon")
      <3>1. ASSUME At(t, q) \in Quoted, At(t, colon) = "colon" PROVE value.ok \in BOOLEAN
        <4>1. At(t, q) \in Symbols /\ At(t, colon) \in Symbols
          BY <3>1, StructureSymbols
        <4>2. q + 1 \in 1 .. Len(t) + 1
          BY <1>0, <4>1, TokenRead
        <4>3. colon + 1 \in 1 .. Len(t) + 1
          <5> HIDE DEF q
          <5> QED BY <1>0, <4>1, <4>2, TokenRead
        <4>4. QED
          <5> HIDE DEF colon
          <5> QED BY <4>3, ValueShrinks
      <3>2. QED
        BY <3>1
    <2> DEFINE r == PairAt(t, p)
               good == At(t, q) \in Quoted /\ At(t, colon) = "colon" /\ value.ok
    <2>5. /\ good => r.ok = TRUE /\ r.next = value.next
          /\ ~good => r.ok = FALSE
      <3> HIDE DEF value, colon, q
      <3> QED BY <2>2 DEF Ok, Fail
    <2>6. r.ok \in BOOLEAN /\ (r.ok => r.next \in p + 1 .. Len(t) + 1 /\ r.next \in 1 .. Len(t) + 1
                                      /\ Len(Bare(t, r.next)) < Len(Bare(t, p))
                                      /\ At(t, q) # "end_object")
      <3>1. good \in BOOLEAN
        <4> HIDE DEF value, colon, q
        <4> QED BY <2>4
      <3>2. CASE good
        <4> HIDE DEF value, colon, q, r
        <4> QED BY <2>3, <2>5, <3>2
      <3>3. CASE ~good
        <4> HIDE DEF value, colon, q, r, good
        <4> QED BY <2>5, <3>3
      <3>4. QED
        <4> HIDE DEF value, colon, q, r, good
        <4> QED BY <3>1, <3>2, <3>3
    <2>7. QED
      <3> HIDE DEF value, colon
      <3> QED BY <2>1, <2>6
  <1>3. QED
    BY <1>1, <1>2, CloseIs

LEMMA LoopShrinks ==
  ASSUME NEW t \in Seq(Alphabet.structure), NEW loop \in Loops, NEW p \in 1 .. Len(t) + 1
  PROVE  /\ Looped(t, loop, p).ok \in BOOLEAN
         /\ Looped(t, loop, p).ok =>
              /\ ItemAt(t, loop, p).ok
              /\ Looped(t, loop, p).next \in p + 1 .. Len(t) + 1
              /\ Looped(t, loop, p).next \in 1 .. Len(t) + 1
  <1>0. t \in Seq(Symbols) /\ Len(t) \in Nat
    BY StructureTyped
  <1>1. Outcome(Looped(t, loop, p), p, t)
    BY <1>0, CallsAre DEF Looped
  <1>2. Looped(t, loop, p).ok => ItemAt(t, loop, p).ok
    <2>1. ~ItemAt(t, loop, p).ok => Looped(t, loop, p) = Fail
      BY LoopIs
    <2>2. QED
      BY <2>1 DEF Fail
  <1>3. \A n \in p + 1 .. Len(t) + 1 : n \in 1 .. Len(t) + 1
    BY <1>0
  <1>4. QED
    BY <1>1, <1>2, <1>3 DEF Outcome

\* A round that succeeds: an item, and what closes the list or a comma and more.
Round(t, loop, p, r, item, q) ==
  /\ item.ok /\ item.next \in 1 .. Len(t) + 1 /\ q + 1 \in 1 .. Len(t) + 1
  /\ r.next \in q + 1 .. Len(t) + 1 /\ r.next \in 1 .. Len(t) + 1
  /\ Bare(t, item.next) = Cat(<<At(t, q)>>, Bare(t, q + 1))
  /\ Len(Bare(t, item.next)) = 1 + Len(Bare(t, q + 1))
  /\ Len(Bare(t, item.next)) < Len(Bare(t, p))
  /\ Len(Bare(t, r.next)) <= Len(Bare(t, q + 1))
  /\ \/ At(t, q) = Close[loop] /\ r.value = Put(loop, item.value, <<>>) /\ r.next = q + 1
     \/ /\ At(t, q) = "comma" /\ Looped(t, loop, q + 1).ok
        /\ r.value = Put(loop, item.value, Looped(t, loop, q + 1).value)
        /\ r.next = Looped(t, loop, q + 1).next

\* A loop that succeeds does so round by round.
LEMMA RoundIs ==
  ASSUME NEW t \in Seq(Alphabet.structure), NEW loop \in Loops, NEW p \in 1 .. Len(t) + 1,
         NEW r, r = Looped(t, loop, p), r.ok,
         NEW item, item = ItemAt(t, loop, p), NEW q, q = SkipWs(t, item.next)
  PROVE  Round(t, loop, p, r, item, q)
  <1>0. t \in Seq(Symbols) /\ Len(t) \in Nat
    BY StructureTyped
  <1> DEFINE rest == RestAt(t, loop, item.next)
  <1>1. r = IF item.ok /\ rest.ok THEN Ok(Put(loop, item.value, rest.value), rest.next) ELSE Fail
    BY LoopIs
  <1>2. item.ok
    BY LoopShrinks, r = Looped(t, loop, p)
  <1>3. rest.ok
    <2>1. ~rest.ok => r = Fail
      BY <1>1
    <2>2. QED
      BY <2>1 DEF Fail
  <1>4. r.value = Put(loop, item.value, rest.value) /\ r.next = rest.next
    <2> HIDE DEF rest
    <2> QED BY <1>1, <1>2, <1>3 DEF Ok
  <1>5. item.next \in 1 .. Len(t) + 1 /\ Len(Bare(t, item.next)) < Len(Bare(t, p))
    BY <1>2, ItemShrinks
  <1>6. At(t, q) \in {Close[loop], "comma"}
    BY <1>3, RestIs DEF Fail
  <1>7. At(t, q) \in Symbols
    BY <1>6, CloseIs, StructureSymbols
  <1>8. /\ q + 1 \in 1 .. Len(t) + 1
        /\ Bare(t, item.next) = Cat(<<At(t, q)>>, Bare(t, q + 1))
        /\ Len(Bare(t, item.next)) = 1 + Len(Bare(t, q + 1))
    BY <1>0, <1>5, <1>7, TokenRead
  <1>9. CASE At(t, q) = Close[loop]
    <2>1. rest = Ok(<<>>, q + 1)
      BY <1>9, RestIs
    <2>2. rest.value = <<>> /\ rest.next = q + 1
      BY <2>1 DEF Ok
    <2> HIDE DEF rest
    <2>3. r.next = q + 1 /\ r.next \in q + 1 .. Len(t) + 1
      BY <1>0, <1>4, <1>8, <2>2
    <2>4. Len(Bare(t, r.next)) <= Len(Bare(t, q + 1))
      BY <1>0, <1>8, <2>3, BareShrinks
    <2>5. QED
      BY <1>2, <1>4, <1>5, <1>8, <1>9, <2>2, <2>3, <2>4 DEF Round
  <1>10. CASE At(t, q) = "comma"
    <2>1. rest = Looped(t, loop, q + 1)
      BY <1>10, RestIs
    <2>2. Looped(t, loop, q + 1).ok
      BY <1>3, <2>1
    <2>3. Looped(t, loop, q + 1).next \in (q + 1) + 1 .. Len(t) + 1
      BY <1>8, <2>2, LoopShrinks
    <2> HIDE DEF rest
    <2>4. r.next \in q + 1 .. Len(t) + 1 /\ r.next \in 1 .. Len(t) + 1
      <3>1. \A n \in (q + 1) + 1 .. Len(t) + 1 : n \in q + 1 .. Len(t) + 1 /\ n \in 1 .. Len(t) + 1
        BY <1>0, <1>8
      <3>2. QED
        BY <1>4, <2>1, <2>3, <3>1
    <2>5. Len(Bare(t, r.next)) <= Len(Bare(t, q + 1))
      BY <1>0, <1>8, <2>4, BareShrinks
    <2>6. QED
      BY <1>2, <1>4, <1>5, <1>8, <1>10, <2>1, <2>2, <2>4, <2>5 DEF Round
  <1>11. QED
    BY <1>6, <1>9, <1>10

\* How many symbols there are between two positions, without white space.
Span(t, p, q) == Len(Bare(t, p)) - Len(Bare(t, q))

\* A text between two positions is as long as their span.
LEMMA SpanIs ==
  ASSUME NEW t \in Seq(Symbols), NEW p \in 1 .. Len(t) + 1, NEW q \in 1 .. Len(t) + 1
  PROVE  \A s \in Seq(Symbols) : Bare(t, p) = Cat(s, Bare(t, q)) => Span(t, p, q) = Len(s)
  <1> SUFFICES ASSUME NEW s \in Seq(Symbols), Bare(t, p) = Cat(s, Bare(t, q)) PROVE Span(t, p, q) = Len(s)
    OBVIOUS
  <1>1. Bare(t, q) \in Seq(Symbols)
    BY BareTyped
  <1>2. Len(Cat(s, Bare(t, q))) = Len(s) + Len(Bare(t, q)) /\ Len(s) \in Nat /\ Len(Bare(t, q)) \in Nat
    BY <1>1, CatIs
  <1>3. Len(Bare(t, p)) = Len(s) + Len(Bare(t, q))
    BY <1>2
  <1>4. QED
    BY <1>2, <1>3 DEF Span

\* What a loop parses as an item within a span is one of the items.
ItemsParsed(t, loop, items, most) ==
  \A p \in 1 .. Len(t) + 1 :
    LET r == ItemAt(t, loop, p)
    IN  r.ok /\ Span(t, p, r.next) <= most =>
          \E x \in items : Bare(t, p) = Cat(x.text, Bare(t, r.next)) /\ x.value = r.value

\* A loop has parsed a list of the items, with the value it denotes.
ListedAt(t, loop, items, p, r) ==
  \E y \in ListsOf(items)[Half] :
    /\ Bare(t, p) = Cat(y.text, Cat(<<Close[loop]>>, Bare(t, r.next)))
    /\ Denotes(loop, y.value) = r.value

\* A loop that parses items parses lists of them: by the number of symbols, a round
\* takes at least two.
LEMMA ListParsed ==
  ASSUME NEW t \in Seq(Alphabet.structure), NEW loop \in Loops, NEW items, \A x \in items : Written(x),
         NEW most \in Nat, most <= MaxStructure - 2, ItemsParsed(t, loop, items, most),
         NEW p \in 1 .. Len(t) + 1, NEW r, r = Looped(t, loop, p), r.ok, Span(t, p, r.next) <= most + 1
  PROVE  ListedAt(t, loop, items, p, r)
  <1> SUFFICES \E y \in ListsOf(items)[Half] :
                 /\ Bare(t, p) = Cat(y.text, Cat(<<Close[loop]>>, Bare(t, r.next)))
                 /\ Denotes(loop, y.value) = r.value
    BY DEF ListedAt
  <1> DEFINE List(o, n) ==
               \E y \in ListsOf(items)[n] :
                 /\ Bare(t, o) = Cat(y.text, Cat(<<Close[loop]>>, Bare(t, Looped(t, loop, o).next)))
                 /\ Denotes(loop, y.value) = Looped(t, loop, o).value
             Good(n) == \A o \in 1 .. Len(t) + 1 :
                          /\ Looped(t, loop, o).ok
                          /\ Span(t, o, Looped(t, loop, o).next) <= most + 1
                          /\ Span(t, o, Looped(t, loop, o).next) <= 2 * n
                          => List(o, n)
             S == {n \in Nat : Good(n)}
  <1>0. /\ t \in Seq(Symbols) /\ Len(t) \in Nat
        /\ Half \in Nat \ {0} /\ MaxStructure \in Nat /\ MaxStructure <= 2 * Half + 1
    BY StructureTyped, HalfIs
  <1>1. \A n \in 1 .. Len(t) + 1 : Len(Bare(t, n)) \in Nat /\ Bare(t, n) \in Seq(Symbols)
    <2> SUFFICES ASSUME NEW n \in 1 .. Len(t) + 1
                 PROVE  Len(Bare(t, n)) \in Nat /\ Bare(t, n) \in Seq(Symbols)
      OBVIOUS
    <2>1. Bare(t, n) \in Seq(Symbols)
      BY <1>0, BareTyped
    <2>2. QED
      BY <2>1
  <1>2. Close[loop] \in Symbols
    BY CloseIs
  <1>3. PICK c \in Seq(Symbols) : c = <<Close[loop]>> /\ Len(c) = 1
    BY <1>2, OneSymbol
  <1>4. ASSUME NEW o \in 1 .. Len(t) + 1, NEW l, l = Looped(t, loop, o), l.ok,
               Span(t, o, l.next) <= most + 1,
               NEW item, item = ItemAt(t, loop, o), NEW q, q = SkipWs(t, item.next), At(t, q) = Close[loop],
               NEW n \in 1 .. Half
        PROVE  \E y \in ListsOf(items)[n] : /\ Bare(t, o) = Cat(y.text, Cat(c, Bare(t, l.next)))
                                            /\ Denotes(loop, y.value) = l.value
    <2>1. /\ item.ok /\ item.next \in 1 .. Len(t) + 1 /\ q + 1 \in 1 .. Len(t) + 1
          /\ Bare(t, item.next) = Cat(<<At(t, q)>>, Bare(t, q + 1))
          /\ Len(Bare(t, item.next)) = 1 + Len(Bare(t, q + 1))
          /\ l.value = Put(loop, item.value, <<>>) /\ l.next = q + 1
      <3>1. Round(t, loop, o, l, item, q)
        BY <1>4, RoundIs
      <3>2. At(t, q) # "comma"
        BY <1>4, CloseIs
      <3>3. QED
        BY <3>1, <3>2 DEF Round
    <2>2. Span(t, o, item.next) <= most
      <3>1. Len(Bare(t, o)) \in Nat /\ Len(Bare(t, item.next)) \in Nat /\ Len(Bare(t, q + 1)) \in Nat
        BY <1>1, <2>1
      <3>2. Len(Bare(t, o)) - Len(Bare(t, q + 1)) <= most + 1
        BY <1>4, <2>1 DEF Span
      <3>3. Len(Bare(t, o)) - Len(Bare(t, item.next)) <= most
        BY <2>1, <3>1, <3>2
      <3>4. QED
        BY <3>3 DEF Span
    <2>3. PICK a \in items : Bare(t, o) = Cat(a.text, Bare(t, item.next)) /\ a.value = item.value
      BY <1>4, <2>1, <2>2 DEF ItemsParsed
    <2> DEFINE y == Means(a.text, <<a.value>>)
    <2>4. y \in Alone(items) /\ y.text = a.text /\ y.value = <<a.value>>
      BY DEF Alone, Means
    <2>5. y \in ListsOf(items)[n]
      <3> HIDE DEF y
      <3>1. n = 1 \/ (n - 1 \in 1 .. Half - 1 /\ (n - 1) + 1 = n)
        BY <1>0
      <3>2. QED
        BY <2>4, <3>1, ListsOfIs
    <2>6. Denotes(loop, y.value) = l.value
      <3> HIDE DEF y
      <3> QED BY <2>1, <2>3, <2>4, DenotesIs
    <2>7. Bare(t, o) = Cat(y.text, Cat(c, Bare(t, l.next)))
      <3> HIDE DEF y
      <3> QED BY <1>3, <1>4, <2>1, <2>3, <2>4
    <2>8. QED
      BY <2>5, <2>6, <2>7
  <1>5. ASSUME NEW o \in 1 .. Len(t) + 1, NEW l, l = Looped(t, loop, o), l.ok,
               Span(t, o, l.next) <= most + 1,
               NEW item, item = ItemAt(t, loop, o), NEW q, q = SkipWs(t, item.next), At(t, q) = "comma"
        PROVE  LET later == Looped(t, loop, q + 1)
               IN  /\ q + 1 \in 1 .. Len(t) + 1 /\ later.ok /\ later.next = l.next
                   /\ Span(t, q + 1, later.next) <= Span(t, o, l.next) - 2
                   /\ Span(t, q + 1, later.next) > 0
                   /\ Span(t, q + 1, later.next) <= most + 1
                   /\ Span(t, o, l.next) \in Int /\ Span(t, q + 1, later.next) \in Int
                   /\ \A n \in 1 .. Half - 1 : List(q + 1, n) =>
                        \E y \in ListsOf(items)[n + 1] :
                          /\ Bare(t, o) = Cat(y.text, Cat(c, Bare(t, l.next)))
                                                         /\ Denotes(loop, y.value) = l.value
    <2> DEFINE later == Looped(t, loop, q + 1)
    <2>1. /\ item.ok /\ item.next \in 1 .. Len(t) + 1 /\ q + 1 \in 1 .. Len(t) + 1
          /\ l.next \in 1 .. Len(t) + 1
          /\ Bare(t, item.next) = Cat(<<"comma">>, Bare(t, q + 1))
          /\ Len(Bare(t, item.next)) = 1 + Len(Bare(t, q + 1))
          /\ Len(Bare(t, item.next)) < Len(Bare(t, o))
          /\ Len(Bare(t, l.next)) <= Len(Bare(t, q + 1))
          /\ later.ok /\ l.value = Put(loop, item.value, later.value) /\ l.next = later.next
      <3>1. Round(t, loop, o, l, item, q)
        BY <1>5, RoundIs
      <3>2. At(t, q) # Close[loop]
        BY <1>5, CloseIs
      <3>3. QED
        BY <1>5, <3>1, <3>2 DEF Round
    <2> HIDE DEF later
    <2>2. Len(Bare(t, l.next)) < Len(Bare(t, q + 1))
      <3> DEFINE first == ItemAt(t, loop, q + 1)
                 s == SkipWs(t, first.next)
      <3>1. /\ first.next \in 1 .. Len(t) + 1 /\ s + 1 \in 1 .. Len(t) + 1 /\ later.next \in 1 .. Len(t) + 1
            /\ Len(Bare(t, first.next)) = 1 + Len(Bare(t, s + 1))
            /\ Len(Bare(t, first.next)) < Len(Bare(t, q + 1))
            /\ Len(Bare(t, later.next)) <= Len(Bare(t, s + 1))
        <4>1. Round(t, loop, q + 1, later, first, s)
          BY <2>1, RoundIs DEF later
        <4> HIDE DEF first, s
        <4>2. QED
          BY <4>1 DEF Round
      <3>2. /\ Len(Bare(t, first.next)) \in Nat /\ Len(Bare(t, s + 1)) \in Nat
            /\ Len(Bare(t, later.next)) \in Nat
            /\ Len(Bare(t, q + 1)) \in Nat
        <4> HIDE DEF first, s
        <4> QED BY <1>1, <2>1, <3>1
      <3>3. Len(Bare(t, later.next)) < Len(Bare(t, q + 1))
        <4> HIDE DEF first, s
        <4> QED BY <3>1, <3>2
      <3>4. QED
        BY <2>1, <3>3
    <2>3. /\ Len(Bare(t, o)) \in Nat /\ Len(Bare(t, item.next)) \in Nat /\ Len(Bare(t, q + 1)) \in Nat
          /\ Len(Bare(t, l.next)) \in Nat
      BY <1>1, <2>1
    <2>4. Len(Bare(t, o)) - Len(Bare(t, l.next)) <= most + 1
      BY <1>5 DEF Span
    <2>5. /\ Len(Bare(t, q + 1)) - Len(Bare(t, l.next)) <= (Len(Bare(t, o)) - Len(Bare(t, l.next))) - 2
          /\ Len(Bare(t, q + 1)) - Len(Bare(t, l.next)) > 0
          /\ Len(Bare(t, q + 1)) - Len(Bare(t, l.next)) <= most + 1
          /\ Len(Bare(t, o)) - Len(Bare(t, item.next)) <= most
      <3>1. \A all, rest, inner, last \in Nat :
              rest = 1 + inner /\ rest < all /\ last < inner /\ all - last <= most + 1 =>
                /\ inner - last <= (all - last) - 2 /\ inner - last > 0
                /\ inner - last <= most + 1 /\ all - rest <= most
        OBVIOUS
      <3>2. QED
        BY <2>1, <2>2, <2>3, <2>4, <3>1
    <2>6. /\ Span(t, q + 1, later.next) <= Span(t, o, l.next) - 2
          /\ Span(t, q + 1, later.next) > 0
          /\ Span(t, q + 1, later.next) <= most + 1
          /\ Span(t, o, item.next) <= most
          /\ Span(t, o, l.next) \in Int /\ Span(t, q + 1, later.next) \in Int
      BY <2>1, <2>3, <2>5 DEF Span
    <2>7. PICK a \in items : Bare(t, o) = Cat(a.text, Bare(t, item.next)) /\ a.value = item.value
      BY <1>5, <2>1, <2>6 DEF ItemsParsed
    <2>8. ASSUME NEW n \in 1 .. Half - 1, List(q + 1, n)
          PROVE  \E y \in ListsOf(items)[n + 1] : /\ Bare(t, o) = Cat(y.text, Cat(c, Bare(t, l.next)))
                                                  /\ Denotes(loop, y.value) = l.value
      <3>1. PICK b \in ListsOf(items)[n] :
              Bare(t, q + 1) = Cat(b.text, Cat(c, Bare(t, l.next))) /\ Denotes(loop, b.value) = later.value
        BY <1>3, <2>1, <2>8 DEF later
      <3>2. n \in 1 .. Half
        BY <1>0
      <3>3. Written(b) /\ b.value \in Seq({x.value : x \in items})
        BY <3>2, ListsWritten
      <3>4. PICK k \in Seq(Symbols) : k = <<"comma">> /\ Len(k) = 1
        BY StructureSymbols, OneSymbol
      <3>5. /\ a.text \in Seq(Symbols) /\ b.text \in Seq(Symbols) /\ Bare(t, l.next) \in Seq(Symbols)
            /\ Bare(t, q + 1) \in Seq(Symbols)
            /\ Len(a.text) \in Nat /\ Len(b.text) \in Nat
        <4>1. /\ a.text \in Seq(Symbols) /\ b.text \in Seq(Symbols) /\ Bare(t, l.next) \in Seq(Symbols)
              /\ Bare(t, q + 1) \in Seq(Symbols)
          BY <1>1, <2>1, <3>3 DEF Written
        <4>2. \A s \in Seq(Symbols) : Len(s) \in Nat
          OBVIOUS
        <4>3. QED
          BY <4>1, <4>2
      <3> HIDE DEF List, Good, S
      <3> DEFINE z == Means(Cat(k, b.text), b.value)
                 end == Cat(c, Bare(t, l.next))
                 y == Means(Cat(a.text, z.text), Cat(<<a.value>>, z.value))
      <3>6. z \in AfterComma(ListsOf(items)[n])
        BY <3>4, AfterCommaIs
      <3>7. z.text = Cat(k, b.text) /\ z.value = b.value
        BY DEF Means
      <3>8. y.text = Cat(a.text, z.text) /\ y.value = Cat(<<a.value>>, z.value)
        BY DEF Means
      <3>9. Cat(k, b.text) \in Seq(Symbols) /\ Len(Cat(k, b.text)) = Len(k) + Len(b.text)
        <4> HIDE DEF z, end, y
        <4>1. \A u, v \in Seq(Symbols) : Cat(u, v) \in Seq(Symbols) /\ Len(Cat(u, v)) = Len(u) + Len(v)
          BY CatIs
        <4>2. QED
          BY <3>5, <4>1
      <3>10. end \in Seq(Symbols) /\ Len(end) = 1 + Len(Bare(t, l.next))
        <4>1. Cat(c, Bare(t, l.next)) \in Seq(Symbols)
              /\ Len(Cat(c, Bare(t, l.next))) = Len(c) + Len(Bare(t, l.next))
          <5> HIDE <1>3
          <5> QED BY <3>5, CatIs
        <4>2. QED
          BY <1>3, <4>1
      <3>11. Bare(t, o) = Cat(y.text, end)
        <4> HIDE DEF end, y
        <4>1. Bare(t, o) = Cat(a.text, Cat(k, Cat(b.text, end)))
          BY <2>1, <2>7, <3>1, <3>4 DEF end
        <4>2. Cat(k, Cat(b.text, end)) = Cat(Cat(k, b.text), end)
          <5> HIDE <3>4
          <5> QED BY <3>5, <3>10, CatAssociates
        <4>3. Cat(a.text, Cat(Cat(k, b.text), end)) = Cat(Cat(a.text, Cat(k, b.text)), end)
          <5> HIDE DEF z
          <5>1. PICK u \in Seq(Symbols) : u = a.text
            BY <3>5
          <5>2. PICK v \in Seq(Symbols) : v = Cat(k, b.text)
            BY <3>9
          <5>3. PICK w \in Seq(Symbols) : w = end
            BY <3>10
          <5>4. Cat(u, Cat(v, w)) = Cat(Cat(u, v), w)
            <6> HIDE <5>1, <5>2, <5>3
            <6> QED BY CatAssociates
          <5>5. QED
            BY <5>1, <5>2, <5>3, <5>4
        <4> HIDE DEF z
        <4>4. QED
          BY <3>7, <3>8, <4>1, <4>2, <4>3
      <3>12. Together(a, z, MaxStructure - 2)
        <4>1. Len(Bare(t, o)) - Len(Bare(t, item.next)) = Len(a.text)
          <5>1. Bare(t, o) = Cat(a.text, Bare(t, item.next))
            BY <2>7
          <5>2. Span(t, o, item.next) = Len(a.text)
            <6> HIDE DEF z, end, y
            <6>1. PICK i \in 1 .. Len(t) + 1 : i = item.next
              BY <2>1
            <6>2. PICK s \in Seq(Symbols) : s = a.text
              BY <3>5
            <6>3. Bare(t, o) = Cat(s, Bare(t, i)) => Span(t, o, i) = Len(s)
              <7> HIDE <6>1, <6>2
              <7> QED BY <1>0, SpanIs
            <6>4. QED
              BY <5>1, <6>1, <6>2, <6>3
          <5>3. QED
            BY <5>2 DEF Span
        <4>2. Len(Bare(t, q + 1)) = Len(b.text) + Len(end)
          <5>1. Len(Cat(b.text, end)) = Len(b.text) + Len(end)
            <6> HIDE DEF end
            <6> QED BY <3>5, <3>10, CatIs
          <5>2. QED
            BY <3>1, <5>1
        <4>3. Len(z.text) = 1 + Len(b.text)
          <5> HIDE DEF z
          <5> QED BY <3>4, <3>5, <3>7, <3>9
        <4>4. Len(a.text) + Len(z.text) <= most
          <5> HIDE DEF z, end
          <5>1. Len(a.text) \in Nat /\ Len(b.text) \in Nat
            <6> HIDE <4>1, <4>2, <4>3
            <6> QED BY <3>5
          <5>2. Len(Bare(t, item.next)) = 1 + Len(Bare(t, q + 1)) /\ Len(end) = 1 + Len(Bare(t, l.next))
            BY <2>1, <3>10
          <5>3. \A i, j \in Nat : \A from, at, to \in Nat :
                  from - to <= most + 1 /\ from - (1 + at) = i /\ at = j + (1 + to) => i + (1 + j) <= most
            OBVIOUS
          <5>4. Len(a.text) + (1 + Len(b.text)) <= most
            BY <2>3, <2>4, <4>1, <4>2, <5>1, <5>2, <5>3
          <5>5. QED
            BY <4>3, <5>4
        <4>5. Len(a.text) + Len(z.text) <= MaxStructure - 2
          <5> HIDE DEF z
          <5>1. Len(a.text) \in Nat /\ Len(z.text) \in Nat
            <6>1. \A j \in Nat : 1 + j \in Nat
              OBVIOUS
            <6>2. QED
              BY <3>5, <4>3, <6>1
          <5>2. \A i, j \in Nat : i + j <= most => i + j <= MaxStructure - 2
            BY <1>0
          <5>3. QED
            BY <4>4, <5>1, <5>2
        <4>6. QED
          BY <4>5 DEF Together
      <3>13. y \in Lengthened(items, ListsOf(items)[n])
        <4> HIDE DEF z
        <4> QED BY <3>6, <3>12, LengthenedIs
      <3>14. Denotes(loop, y.value) = l.value
        <4> DEFINE V == {x.value : x \in items}
        <4>1. a.value \in V /\ b.value \in Seq(V)
          BY <3>3
        <4> HIDE DEF V, y, z
        <4>2. Denotes(loop, Cat(<<a.value>>, b.value)) = Put(loop, a.value, Denotes(loop, b.value))
          BY <4>1, DenotesIs
        <4>3. QED
          BY <2>1, <2>7, <3>1, <3>7, <3>8, <4>2
      <3> HIDE DEF y
      <3>15. ListsOf(items)[n + 1] = Alone(items) \cup Lengthened(items, ListsOf(items)[n])
        BY ListsOfIs
      <3>16. y \in ListsOf(items)[n + 1]
        BY <3>13, <3>15
      <3>17. Bare(t, o) = Cat(y.text, Cat(c, Bare(t, l.next)))
        BY <3>11 DEF end
      <3>18. QED
        BY <3>14, <3>16, <3>17
    <2>9. QED
      BY <2>1, <2>6, <2>8 DEF later
  <1>6. ASSUME NEW o \in 1 .. Len(t) + 1, Looped(t, loop, o).ok
        PROVE  At(t, SkipWs(t, ItemAt(t, loop, o).next)) \in {Close[loop], "comma"}
    <2> DEFINE l == Looped(t, loop, o)
               item == ItemAt(t, loop, o)
               q == SkipWs(t, item.next)
    <2>1. Round(t, loop, o, l, item, q)
      BY <1>6, RoundIs
    <2> HIDE DEF l, item, q
    <2>2. At(t, q) \in {Close[loop], "comma"}
      BY <2>1 DEF Round
    <2>3. QED
      BY <2>2 DEF q, item
  <1>7. Good(1)
    <2> SUFFICES ASSUME NEW o \in 1 .. Len(t) + 1, Looped(t, loop, o).ok,
                        Span(t, o, Looped(t, loop, o).next) <= most + 1,
                        Span(t, o, Looped(t, loop, o).next) <= 2 * 1
                 PROVE  List(o, 1)
      OBVIOUS
    <2>1. 1 \in 1 .. Half
      BY <1>0
    <2>2. CASE At(t, SkipWs(t, ItemAt(t, loop, o).next)) = Close[loop]
      BY <1>3, <1>4, <2>1, <2>2
    <2>3. CASE At(t, SkipWs(t, ItemAt(t, loop, o).next)) = "comma"
      <3> DEFINE a == Span(t, o, Looped(t, loop, o).next)
                 q == SkipWs(t, ItemAt(t, loop, o).next)
                 b == Span(t, q + 1, Looped(t, loop, q + 1).next)
      <3>1. a \in Int /\ b \in Int /\ b <= a - 2 /\ b > 0 /\ a <= 2 * 1
        BY <1>5, <2>3
      <3> HIDE DEF a, b
      <3>2. QED
        BY <3>1
    <2>4. QED
      BY <1>6, <2>2, <2>3
  <1>8. ASSUME NEW n \in 1 .. Half - 1, Good(n) PROVE Good(n + 1)
    <2> SUFFICES ASSUME NEW o \in 1 .. Len(t) + 1, Looped(t, loop, o).ok,
                        Span(t, o, Looped(t, loop, o).next) <= most + 1,
                        Span(t, o, Looped(t, loop, o).next) <= 2 * (n + 1)
                 PROVE  List(o, n + 1)
      OBVIOUS
    <2>1. n + 1 \in 1 .. Half
      BY <1>0
    <2>2. CASE At(t, SkipWs(t, ItemAt(t, loop, o).next)) = Close[loop]
      BY <1>3, <1>4, <2>1, <2>2
    <2>3. CASE At(t, SkipWs(t, ItemAt(t, loop, o).next)) = "comma"
      <3> DEFINE a == Span(t, o, Looped(t, loop, o).next)
                 q == SkipWs(t, ItemAt(t, loop, o).next)
                 b == Span(t, q + 1, Looped(t, loop, q + 1).next)
      <3>1. /\ a \in Int /\ b \in Int /\ b <= a - 2 /\ a <= 2 * (n + 1) /\ b <= most + 1
            /\ q + 1 \in 1 .. Len(t) + 1 /\ Looped(t, loop, q + 1).ok
        BY <1>5, <2>3
      <3>2. b <= 2 * n
        <4> HIDE DEF a, b
        <4> QED BY <1>0, <3>1
      <3>3. List(q + 1, n)
        <4> HIDE DEF List
        <4> QED BY <1>8, <3>1, <3>2
      <3>4. \E y \in ListsOf(items)[n + 1] :
              /\ Bare(t, o) = Cat(y.text, Cat(c, Bare(t, Looped(t, loop, o).next)))
              /\ Denotes(loop, y.value) = Looped(t, loop, o).value
        <4> HIDE DEF List
        <4> QED BY <1>5, <2>3, <3>3
      <3>5. QED
        BY <1>3, <3>4
    <2>4. QED
      BY <1>6, <2>2, <2>3
  <1>9. Good(Half)
    <2>1. 1 \in S /\ \A n \in 1 .. Half - 1 : n \in S => n + 1 \in S
      <3> HIDE DEF Good
      <3>1. \A n \in 1 .. Half - 1 : n \in Nat /\ n + 1 \in Nat
        BY <1>0
      <3>2. QED
        BY <1>7, <1>8, <3>1
    <2>2. \A n \in 1 .. Half : n \in S
      <3> HIDE DEF S
      <3> QED BY <1>0, <2>1, Upwards
    <2>3. Half \in S
      <3> HIDE DEF S
      <3> QED BY <1>0, <2>2
    <2> HIDE DEF Good
    <2>4. QED
      BY <2>3
  <1>10. Span(t, p, r.next) <= 2 * Half
    <2>1. r.next \in 1 .. Len(t) + 1
      BY LoopShrinks
    <2>2. Len(Bare(t, p)) \in Nat /\ Len(Bare(t, r.next)) \in Nat
      BY <1>1, <2>1
    <2>3. Span(t, p, r.next) \in Int
      BY <2>2 DEF Span
    <2>4. most + 1 <= 2 * Half
      BY <1>0
    <2>5. QED
      BY <1>0, <2>3, <2>4
  <1>11. QED
    BY <1>9, <1>10

\* An item that is there is parsed, to its end.
ItemsFound(t, loop, items) ==
  \A x \in items : \A p \in 1 .. Len(t) + 1 : \A y \in Seq(Symbols) :
    Bare(t, p) = Cat(x.text, y) => ItemAt(t, loop, p).ok /\ Bare(t, ItemAt(t, loop, p).next) = y

LEMMA LoopSucceeds ==
  ASSUME NEW t \in Seq(Alphabet.structure), NEW loop \in Loops, NEW p \in 1 .. Len(t) + 1,
         NEW item, item = ItemAt(t, loop, p), item.ok, NEW rest, rest = RestAt(t, loop, item.next), rest.ok
  PROVE  Looped(t, loop, p).ok /\ Looped(t, loop, p).next = rest.next
  <1>1. Looped(t, loop, p) = Ok(Put(loop, item.value, rest.value), rest.next)
    BY LoopIs
  <1>2. QED
    BY <1>1 DEF Ok

\* A loop that finds items finds lists of them: by the number of items.
LEMMA ListFound ==
  ASSUME NEW t \in Seq(Alphabet.structure), NEW loop \in Loops, NEW items, \A x \in items : Written(x),
         ItemsFound(t, loop, items), NEW y \in ListsOf(items)[Half],
         NEW p \in 1 .. Len(t) + 1, NEW tail \in Seq(Symbols)
  PROVE  Bare(t, p) = Cat(y.text, Cat(<<Close[loop]>>, tail)) =>
           /\ Looped(t, loop, p).ok /\ Bare(t, Looped(t, loop, p).next) = tail
           /\ At(t, SkipWs(t, p)) # Close[loop]
  <1>0. t \in Seq(Symbols) /\ Len(t) \in Nat /\ Half \in Nat \ {0}
    BY StructureTyped, HalfIs
  <1>1. Close[loop] \in Symbols
    BY CloseIs
  <1>2. PICK c \in Seq(Symbols) : c = <<Close[loop]>> /\ Len(c) = 1
    BY <1>1, OneSymbol
  <1>3. PICK end \in Seq(Symbols) : end = Cat(c, tail)
    <2>1. Cat(c, tail) \in Seq(Symbols)
      <3> HIDE <1>2
      <3> QED BY CatIs
    <2>2. QED
      BY <2>1
  <1> DEFINE Ends(o) == /\ Looped(t, loop, o).ok /\ Bare(t, Looped(t, loop, o).next) = tail
                        /\ At(t, SkipWs(t, o)) # Close[loop]
             Good(n) == \A l \in ListsOf(items)[n] : \A o \in 1 .. Len(t) + 1 :
                          Bare(t, o) = Cat(l.text, end) => Ends(o)
             S == {n \in Nat : Good(n)}
  <1>4. ASSUME NEW l \in Alone(items), NEW o \in 1 .. Len(t) + 1, Bare(t, o) = Cat(l.text, end)
        PROVE  Ends(o)
    <2>1. PICK a \in items : l = Means(a.text, <<a.value>>)
      BY DEF Alone
    <2>2. Bare(t, o) = Cat(a.text, end)
      BY <1>4, <2>1 DEF Means
    <2> DEFINE item == ItemAt(t, loop, o)
               q == SkipWs(t, item.next)
    <2>3. item.ok /\ Bare(t, item.next) = Cat(<<Close[loop]>>, tail)
      BY <1>2, <1>3, <2>2 DEF ItemsFound
    <2>4. item.next \in 1 .. Len(t) + 1 /\ At(t, SkipWs(t, o)) # Close[loop]
      BY <2>3, ItemShrinks
    <2>5. At(t, q) = Close[loop] /\ Bare(t, q + 1) = tail
      <3> HIDE DEF item
      <3> QED BY <1>0, <1>1, <2>3, <2>4, TokenFound
    <2>6. RestAt(t, loop, item.next) = Ok(<<>>, q + 1)
      <3> HIDE DEF item
      <3> QED BY <2>5, RestIs
    <2>7. RestAt(t, loop, item.next).ok /\ RestAt(t, loop, item.next).next = q + 1
      <3> HIDE DEF item, q
      <3> QED BY <2>6 DEF Ok
    <2>8. Looped(t, loop, o).ok /\ Looped(t, loop, o).next = q + 1
      <3> HIDE DEF q
      <3> QED BY <2>3, <2>7, LoopSucceeds
    <2> HIDE DEF q
    <2>9. QED
      BY <2>4, <2>5, <2>8
  <1>5. ASSUME NEW n \in 1 .. Half - 1, Good(n), NEW l \in Lengthened(items, ListsOf(items)[n]),
               NEW o \in 1 .. Len(t) + 1, Bare(t, o) = Cat(l.text, end)
        PROVE  Ends(o)
    <2>0. \A x \in ListsOf(items)[n] : Written(x)
      <3>1. n \in 1 .. Half
        BY <1>0
      <3>2. QED
        BY <3>1, ListsWritten
    <2>1. PICK a \in items, z \in AfterComma(ListsOf(items)[n]) :
            l = Means(Cat(a.text, z.text), Cat(<<a.value>>, z.value))
      BY LengthenedIs
    <2>2. PICK b \in ListsOf(items)[n] : z.text = Cat(<<"comma">>, b.text)
      BY <2>0, AfterCommaWritten
    <2>3. a.text \in Seq(Symbols) /\ z.text \in Seq(Symbols) /\ b.text \in Seq(Symbols)
      BY <2>0, AfterCommaWritten DEF Written
    <2>4. PICK k \in Seq(Symbols) : k = <<"comma">>
      BY StructureSymbols, OneSymbol
    <2>5. PICK later \in Seq(Symbols) : later = Cat(b.text, end)
      <3>1. Cat(b.text, end) \in Seq(Symbols)
        <4> HIDE <1>3
        <4> QED BY <2>3, CatIs
      <3>2. QED
        BY <3>1
    <2>6. Bare(t, o) = Cat(a.text, Cat(<<"comma">>, later)) /\ Cat(<<"comma">>, later) \in Seq(Symbols)
      <3>1. Bare(t, o) = Cat(Cat(a.text, z.text), end)
        BY <1>5, <2>1 DEF Means
      <3>2. Cat(Cat(a.text, z.text), end) = Cat(a.text, Cat(z.text, end))
        <4> HIDE <1>3
        <4> QED BY <2>3, CatAssociates
      <3>3. Cat(Cat(k, b.text), end) = Cat(k, Cat(b.text, end))
        <4> HIDE <1>3, <2>4
        <4> QED BY <2>3, CatAssociates
      <3>4. Cat(k, later) \in Seq(Symbols)
        <4> HIDE <2>4, <2>5
        <4> QED BY CatIs
      <3>5. QED
        BY <2>2, <2>4, <2>5, <3>1, <3>2, <3>3, <3>4
    <2> DEFINE item == ItemAt(t, loop, o)
               q == SkipWs(t, item.next)
    <2>7. item.ok /\ Bare(t, item.next) = Cat(<<"comma">>, later)
      BY <2>6 DEF ItemsFound
    <2>8. item.next \in 1 .. Len(t) + 1 /\ At(t, SkipWs(t, o)) # Close[loop]
      BY <2>7, ItemShrinks
    <2>9. At(t, q) = "comma" /\ Bare(t, q + 1) = later /\ q + 1 \in 1 .. Len(t) + 1
      <3> HIDE DEF item
      <3>1. "comma" \in Symbols
        BY StructureSymbols
      <3>2. QED
        BY <1>0, <2>7, <2>8, <3>1, TokenFound
    <2>10. Looped(t, loop, q + 1).ok /\ Bare(t, Looped(t, loop, q + 1).next) = tail
      <3> HIDE DEF q
      <3> QED BY <1>5, <2>5, <2>9
    <2>11. RestAt(t, loop, item.next) = Looped(t, loop, q + 1)
      <3> HIDE DEF item
      <3> QED BY <2>9, RestIs
    <2>12. Looped(t, loop, o).ok /\ Looped(t, loop, o).next = Looped(t, loop, q + 1).next
      <3> HIDE DEF q
      <3> QED BY <2>7, <2>10, <2>11, LoopSucceeds
    <2> HIDE DEF q
    <2>13. QED
      BY <2>8, <2>10, <2>12
  <1>6. 1 \in S
    <2>1. ListsOf(items)[1] = Alone(items)
      BY ListsOfIs
    <2> HIDE DEF Ends
    <2>2. QED
      BY <1>4, <2>1
  <1>7. \A n \in 1 .. Half - 1 : n \in S => n + 1 \in S
    <2> SUFFICES ASSUME NEW n \in 1 .. Half - 1, Good(n) PROVE n + 1 \in Nat /\ Good(n + 1)
      OBVIOUS
    <2>1. ListsOf(items)[n + 1] = Alone(items) \cup Lengthened(items, ListsOf(items)[n])
      BY ListsOfIs
    <2>2. n + 1 \in Nat
      BY <1>0
    <2> HIDE DEF Ends
    <2>3. QED
      BY <1>4, <1>5, <2>1, <2>2
  <1>8. \A n \in 1 .. Half : n \in S
    <2> HIDE DEF S
    <2> QED BY <1>0, <1>6, <1>7, Upwards
  <1>9. Good(Half)
    <2>1. Half \in S
      <3> HIDE DEF S
      <3> QED BY <1>0, <1>8
    <2> HIDE DEF Good
    <2>2. QED
      BY <2>1
  <1>10. Bare(t, p) = Cat(y.text, end) => Ends(p)
    <2> HIDE DEF Ends
    <2> QED BY <1>9
  <1>11. QED
    BY <1>2, <1>3, <1>10

\* What follows the symbol that opens an object or an array.
Contained(t, loop, type, p) ==
  Container(t, SkipWs(t, SkipWs(t, p) + 1), type, Close[loop], loop, Parser(t))

\* How an object or array goes on after it is opened.
Opened(t, loop, type, p, q, inside, r) ==
  /\ q + 1 \in 1 .. Len(t) + 1 /\ inside \in 1 .. Len(t) + 1
  /\ Bare(t, p) = Cat(<<At(t, q)>>, Bare(t, q + 1))
  /\ Bare(t, q + 1) = Bare(t, inside) /\ SkipWs(t, inside) = inside
  /\ At(t, inside) = Close[loop] => r = Ok(<<type, <<>>>>, inside + 1)
  /\ At(t, inside) # Close[loop] => r = Typed(type, Looped(t, loop, inside))

LEMMA ContainedIs ==
  ASSUME NEW t \in Seq(Alphabet.structure), NEW loop \in Loops, NEW type, NEW p \in 1 .. Len(t) + 1,
         NEW q, q = SkipWs(t, p), At(t, q) \in Symbols, NEW inside, inside = SkipWs(t, q + 1),
         NEW r, r = Contained(t, loop, type, p)
  PROVE  Opened(t, loop, type, p, q, inside, r)
  <1>0. t \in Seq(Symbols) /\ Len(t) \in Nat
    BY StructureTyped
  <1>1. q + 1 \in 1 .. Len(t) + 1 /\ Bare(t, p) = Cat(<<At(t, q)>>, Bare(t, q + 1))
    BY <1>0, TokenRead
  <1>2. inside \in q + 1 .. Len(t) + 1 /\ At(t, inside) # "space"
    BY <1>0, <1>1, SkipWsIs
  <1>3. Bare(t, q + 1) = Bare(t, inside)
    BY <1>0, <1>1, BareSkips
  <1>4. inside \in 1 .. Len(t) + 1
    BY <1>0, <1>1, <1>2
  <1>5. SkipWs(t, inside) = inside
    BY <1>0, <1>2, <1>4, SkipNone
  <1>6. r = Container(t, inside, type, Close[loop], loop, Parser(t))
    BY DEF Contained
  <1>7. r = IF At(t, inside) = Close[loop] THEN Ok(<<type, <<>>>>, inside + 1)
            ELSE Typed(type, Looped(t, loop, inside))
    BY <1>6 DEF Container, Looped
  <1>8. QED
    BY <1>1, <1>3, <1>4, <1>5, <1>7 DEF Opened

\* A list of the items has been parsed between the symbols that open and close it.
EnclosedAt(t, loop, items, most, p, open, type, r) ==
  \E y \in Lists(items) :
    /\ Len(y.text) <= most
    /\ Bare(t, p) = Cat(Around(open, y.text, Close[loop]), Bare(t, r.next))
    /\ r.value = <<type, Denotes(loop, y.value)>>

\* An object or array whose loop parses items encloses a list of them.
LEMMA ContainedParsed ==
  ASSUME NEW t \in Seq(Alphabet.structure), NEW loop \in Loops, NEW items, \A x \in items : Written(x),
         NEW most \in Nat, most <= MaxStructure - 2, ItemsParsed(t, loop, items, most),
         NEW p \in 1 .. Len(t) + 1, NEW open, open = At(t, SkipWs(t, p)), open \in Symbols, NEW type,
         NEW r, r = Contained(t, loop, type, p), r.ok, r.next \in 1 .. Len(t) + 1,
           Span(t, p, r.next) <= most + 2
  PROVE  EnclosedAt(t, loop, items, most, p, open, type, r)
  <1> SUFFICES \E y \in Lists(items) :
                 /\ Len(y.text) <= most
                 /\ Bare(t, p) = Cat(Around(open, y.text, Close[loop]), Bare(t, r.next))
                 /\ r.value = <<type, Denotes(loop, y.value)>>
    BY DEF EnclosedAt
  <1>0. t \in Seq(Symbols) /\ Len(t) \in Nat /\ Half \in Nat \ {0}
    BY StructureTyped, HalfIs
  <1> DEFINE q == SkipWs(t, p)
             inside == SkipWs(t, q + 1)
  <1>1. /\ q + 1 \in 1 .. Len(t) + 1 /\ inside \in 1 .. Len(t) + 1
        /\ Bare(t, p) = Cat(<<open>>, Bare(t, q + 1))
        /\ Bare(t, q + 1) = Bare(t, inside) /\ SkipWs(t, inside) = inside
        /\ At(t, inside) = Close[loop] => r = Ok(<<type, <<>>>>, inside + 1)
        /\ At(t, inside) # Close[loop] => r = Typed(type, Looped(t, loop, inside))
    <2>1. At(t, q) = open /\ q = SkipWs(t, p) /\ inside = SkipWs(t, q + 1)
      OBVIOUS
    <2> HIDE DEF q, inside
    <2>2. Opened(t, loop, type, p, q, inside, r)
      BY <2>1, ContainedIs
    <2>3. QED
      BY <2>1, <2>2 DEF Opened
  <1> HIDE DEF q, inside
  <1>2. Close[loop] \in Symbols
    BY CloseIs
  <1>3. Bare(t, r.next) \in Seq(Symbols) /\ Bare(t, q + 1) \in Seq(Symbols)
    BY <1>0, <1>1, BareTyped
  <1>4. \A s \in Seq(Symbols) :
          Bare(t, inside) = Cat(s, Cat(<<Close[loop]>>, Bare(t, r.next))) =>
            Bare(t, p) = Cat(Around(open, s, Close[loop]), Bare(t, r.next))
    <2> SUFFICES ASSUME NEW s \in Seq(Symbols),
                        Bare(t, inside) = Cat(s, Cat(<<Close[loop]>>, Bare(t, r.next)))
                 PROVE  Bare(t, p) = Cat(Around(open, s, Close[loop]), Bare(t, r.next))
      OBVIOUS
    <2>1. Cat(Around(open, s, Close[loop]), Bare(t, r.next))
            = Cat(<<open>>, Cat(s, Cat(<<Close[loop]>>, Bare(t, r.next))))
      BY <1>2, <1>3, AroundThen
    <2>2. QED
      BY <1>1, <2>1
  <1>5. CASE At(t, inside) = Close[loop]
    <2> DEFINE y == Means(<<>>, <<>>)
    <2>1. y \in Lists(items) /\ y.text = <<>> /\ y.value = <<>>
      BY DEF Lists, Means
    <2>2. r.value = <<type, <<>>>> /\ r.next = inside + 1
      BY <1>1, <1>5 DEF Ok
    <2>3. Bare(t, inside) = Cat(<<Close[loop]>>, Bare(t, r.next))
      BY <1>0, <1>1, <1>2, <1>5, <2>2, TokenRead
    <2>4. PICK c \in Seq(Symbols) : c = <<Close[loop]>>
      BY <1>2, OneSymbol
    <2>5. Cat(c, Bare(t, r.next)) \in Seq(Symbols)
      <3> HIDE <2>4
      <3> QED BY <1>3, CatIs
    <2>6. Cat(<<>>, Cat(c, Bare(t, r.next))) = Cat(c, Bare(t, r.next)) /\ <<>> \in Seq(Symbols)
      BY <2>5, CatEmpty
    <2>7. Bare(t, p) = Cat(Around(open, <<>>, Close[loop]), Bare(t, r.next))
      BY <1>4, <2>3, <2>4, <2>6
    <2>8. Len(<<>>) = 0 /\ Denotes(loop, <<>>) = <<>>
      BY DenotesIs
    <2> HIDE DEF y
    <2>9. QED
      BY <2>1, <2>2, <2>7, <2>8
  <1>6. CASE At(t, inside) # Close[loop]
    <2> DEFINE l == Looped(t, loop, inside)
    <2>1. r = Typed(type, l)
      BY <1>1, <1>6
    <2>2. l.ok
      <3>1. ~l.ok => r = Fail
        BY <2>1 DEF Typed
      <3>2. QED
        BY <3>1 DEF Fail
    <2>3. r.value = <<type, l.value>> /\ r.next = l.next
      <3> HIDE DEF l
      <3> QED BY <2>1, <2>2 DEF Typed, Ok
    <2>4. PICK o \in Seq(Symbols) : o = <<open>> /\ Len(o) = 1
      BY OneSymbol
    <2>5. Len(Bare(t, p)) = 1 + Len(Bare(t, inside))
      <3>1. Len(Cat(o, Bare(t, q + 1))) = Len(o) + Len(Bare(t, q + 1))
        <4> HIDE <2>4
        <4> QED BY <1>3, CatIs
      <3>2. QED
        BY <1>1, <2>4, <3>1
    <2>6. Len(Bare(t, inside)) \in Nat /\ Len(Bare(t, l.next)) \in Nat
      <3> HIDE DEF l
      <3> QED BY <1>1, <1>3, <2>3
    <2>7. Span(t, inside, l.next) <= most + 1
      <3>1. Len(Bare(t, p)) - Len(Bare(t, l.next)) <= most + 2
        <4> HIDE DEF l
        <4> QED BY <2>3 DEF Span
      <3>2. Len(Bare(t, inside)) - Len(Bare(t, l.next)) <= most + 1
        <4> HIDE DEF l
        <4> QED BY <2>5, <2>6, <3>1
      <3>3. QED
        BY <3>2 DEF Span
    <2>8. PICK y \in ListsOf(items)[Half] :
            /\ Bare(t, inside) = Cat(y.text, Cat(<<Close[loop]>>, Bare(t, l.next)))
            /\ Denotes(loop, y.value) = l.value
      <3>1. ListedAt(t, loop, items, inside, l)
        <4>1. inside \in 1 .. Len(t) + 1 /\ l = Looped(t, loop, inside)
          BY <1>1
        <4> HIDE DEF l
        <4>2. QED
          BY <2>2, <2>7, <4>1, ListParsed
      <3> HIDE DEF l
      <3>2. QED
        BY <3>1 DEF ListedAt
    <2>9. y.text \in Seq(Symbols) /\ Len(y.text) \in Nat
      <3>1. Half \in 1 .. Half
        BY <1>0
      <3>2. QED
        BY <3>1, ListsWritten DEF Written
    <2>10. Len(y.text) <= most
      <3>1. PICK c \in Seq(Symbols) : c = <<Close[loop]>> /\ Len(c) = 1
        BY <1>2, OneSymbol
      <3>2. /\ Cat(c, Bare(t, r.next)) \in Seq(Symbols)
            /\ Len(Cat(c, Bare(t, r.next))) = Len(c) + Len(Bare(t, r.next))
        <4> HIDE <3>1
        <4> QED BY <1>3, CatIs
      <3>3. PICK e \in Seq(Symbols) : e = Cat(c, Bare(t, r.next)) /\ Len(e) = Len(c) + Len(Bare(t, r.next))
        <4> HIDE <3>1
        <4> QED BY <3>2
      <3>4. Len(Cat(y.text, e)) = Len(y.text) + Len(e)
        <4> HIDE <3>3
        <4> QED BY <2>9, CatIs
      <3> HIDE DEF l
      <3>5. Bare(t, inside) = Cat(y.text, e) /\ Len(e) = 1 + Len(Bare(t, l.next))
        BY <2>3, <2>8, <3>1, <3>3
      <3>6. Len(Bare(t, inside)) = Len(y.text) + (1 + Len(Bare(t, l.next)))
        BY <3>4, <3>5
      <3>7. Len(Bare(t, inside)) - Len(Bare(t, l.next)) <= most + 1
        BY <2>7 DEF Span
      <3>8. PICK a \in Nat : a = Len(y.text)
        BY <2>9
      <3>9. PICK b \in Nat : b = Len(Bare(t, l.next))
        BY <2>6
      <3>10. PICK d \in Nat : d = Len(Bare(t, inside))
        BY <2>6
      <3>11. d = a + (1 + b) /\ d - b <= most + 1
        BY <3>6, <3>7, <3>8, <3>9, <3>10
      <3>12. a <= most
        <4> HIDE <3>6, <3>7, <3>8, <3>9, <3>10
        <4> QED BY <3>11
      <3>13. QED
        BY <3>8, <3>12
    <2>11. y \in Lists(items)
      BY DEF Lists, Half
    <2> HIDE DEF l
    <2>12. QED
      BY <1>4, <2>3, <2>8, <2>9, <2>10, <2>11
  <1>7. QED
    BY <1>5, <1>6

\* A list of items that is enclosed there is parsed, to the symbol that closes it.
LEMMA ContainedFound ==
  ASSUME NEW t \in Seq(Alphabet.structure), NEW loop \in Loops, NEW items, \A x \in items : Written(x),
         ItemsFound(t, loop, items), NEW y \in Lists(items), NEW open \in Symbols, NEW type,
         NEW p \in 1 .. Len(t) + 1, NEW tail \in Seq(Symbols),
         NEW r, r = Contained(t, loop, type, p)
  PROVE  Bare(t, p) = Cat(Around(open, y.text, Close[loop]), tail) =>
           At(t, SkipWs(t, p)) = open /\ r.ok /\ Bare(t, r.next) = tail
  <1> SUFFICES ASSUME Bare(t, p) = Cat(Around(open, y.text, Close[loop]), tail)
               PROVE  At(t, SkipWs(t, p)) = open /\ r.ok /\ Bare(t, r.next) = tail
    OBVIOUS
  <1>0. t \in Seq(Symbols) /\ Len(t) \in Nat /\ Close[loop] \in Symbols
    BY StructureTyped, CloseIs
  <1>1. y.text \in Seq(Symbols) /\ (y = Means(<<>>, <<>>) \/ y \in ListsOf(items)[Half])
    BY ListsAre
  <1> DEFINE q == SkipWs(t, p)
             inside == SkipWs(t, q + 1)
             end == Cat(<<Close[loop]>>, tail)
             within == Cat(y.text, end)
  <1>2. PICK c \in Seq(Symbols) : c = <<Close[loop]>>
    BY <1>0, OneSymbol
  <1>3. end \in Seq(Symbols)
    <2>1. Cat(c, tail) \in Seq(Symbols)
      <3> HIDE <1>2
      <3> QED BY CatIs
    <2>2. QED
      BY <1>2, <2>1
  <1>4. within \in Seq(Symbols)
    <2> HIDE DEF end
    <2> QED BY <1>1, <1>3, CatIs
  <1>5. Bare(t, p) = Cat(<<open>>, within)
    BY <1>0, <1>1, AroundThen
  <1>6. At(t, q) = open /\ Bare(t, q + 1) = within
    <2> HIDE DEF within
    <2> QED BY <1>0, <1>4, <1>5, TokenFound
  <1>7. /\ q + 1 \in 1 .. Len(t) + 1 /\ inside \in 1 .. Len(t) + 1
        /\ Bare(t, q + 1) = Bare(t, inside) /\ SkipWs(t, inside) = inside
        /\ At(t, inside) = Close[loop] => r = Ok(<<type, <<>>>>, inside + 1)
        /\ At(t, inside) # Close[loop] => r = Typed(type, Looped(t, loop, inside))
    <2>1. At(t, q) \in Symbols /\ q = SkipWs(t, p) /\ inside = SkipWs(t, q + 1)
      BY <1>6
    <2> HIDE DEF q, inside
    <2>2. Opened(t, loop, type, p, q, inside, r)
      BY <2>1, ContainedIs
    <2>3. QED
      BY <2>2 DEF Opened
  <1>8. CASE y = Means(<<>>, <<>>)
    <2>1. within = end
      <3>1. y.text = <<>>
        BY <1>8 DEF Means
      <3> HIDE DEF end
      <3>2. QED
        BY <1>3, <3>1, CatEmpty
    <2>2. Bare(t, inside) = Cat(<<Close[loop]>>, tail)
      <3> HIDE DEF inside, q
      <3> QED BY <1>6, <1>7, <2>1
    <2> HIDE DEF inside, q
    <2>3. At(t, inside) = Close[loop] /\ Bare(t, inside + 1) = tail
      BY <1>0, <1>7, <2>2, TokenFound
    <2>4. r.ok /\ r.next = inside + 1
      BY <1>7, <2>3 DEF Ok
    <2>5. QED
      BY <1>6, <2>3, <2>4 DEF q
  <1>9. CASE y \in ListsOf(items)[Half]
    <2> HIDE DEF inside, q
    <2>1. Bare(t, inside) = Cat(y.text, Cat(<<Close[loop]>>, tail))
      BY <1>6, <1>7
    <2>2. /\ Looped(t, loop, inside).ok /\ Bare(t, Looped(t, loop, inside).next) = tail
          /\ At(t, SkipWs(t, inside)) # Close[loop]
      BY <1>7, <1>9, <2>1, ListFound
    <2>3. r = Typed(type, Looped(t, loop, inside))
      BY <1>7, <2>2
    <2>4. r.ok /\ r.next = Looped(t, loop, inside).next
      BY <2>2, <2>3 DEF Typed, Ok
    <2>5. QED
      BY <1>6, <2>2, <2>4 DEF q
  <1>10. QED
    BY <1>1, <1>8, <1>9

\* Two parts before a third and a fourth.
LEMMA CatFour ==
  \A a \in Seq(Symbols) : \A b \in Seq(Symbols) : \A s \in Seq(Symbols) : \A e \in Seq(Symbols) :
    /\ Cat(Cat(Cat(a, b), s), e) = Cat(a, Cat(b, Cat(s, e)))
    /\ Cat(s, e) \in Seq(Symbols) /\ Cat(b, Cat(s, e)) \in Seq(Symbols)
    /\ Len(Cat(s, e)) = Len(s) + Len(e)
  <1> SUFFICES ASSUME NEW a \in Seq(Symbols), NEW b \in Seq(Symbols), NEW s \in Seq(Symbols),
                      NEW e \in Seq(Symbols)
               PROVE  /\ Cat(Cat(Cat(a, b), s), e) = Cat(a, Cat(b, Cat(s, e)))
                      /\ Cat(s, e) \in Seq(Symbols) /\ Cat(b, Cat(s, e)) \in Seq(Symbols)
                      /\ Len(Cat(s, e)) = Len(s) + Len(e)
    OBVIOUS
  <1>1. PICK f \in Seq(Symbols) : f = Cat(s, e) /\ Len(f) = Len(s) + Len(e)
    BY CatIs
  <1>2. PICK g \in Seq(Symbols) : g = Cat(a, b)
    BY CatIs
  <1>3. Cat(Cat(g, s), e) = Cat(g, Cat(s, e))
    <2> HIDE <1>1, <1>2
    <2> QED BY CatAssociates
  <1>4. Cat(Cat(a, b), f) = Cat(a, Cat(b, f))
    <2> HIDE <1>1, <1>2
    <2> QED BY CatAssociates
  <1>5. Cat(b, f) \in Seq(Symbols)
    <2> HIDE <1>1, <1>2
    <2> QED BY CatIs
  <1>6. QED
    BY <1>1, <1>2, <1>3, <1>4, <1>5

\* A key and its colon, before the value.
Key(c) == Cat(<<c>>, <<"colon">>)

LEMMA KeyThen ==
  ASSUME NEW c \in Quoted, NEW s \in Seq(Symbols), NEW e \in Seq(Symbols)
  PROVE  /\ Cat(Cat(Key(c), s), e) = Cat(<<c>>, Cat(<<"colon">>, Cat(s, e)))
         /\ Cat(s, e) \in Seq(Symbols) /\ Cat(<<"colon">>, Cat(s, e)) \in Seq(Symbols)
         /\ Len(Cat(s, e)) = Len(s) + Len(e)
  <1>1. c \in Symbols /\ "colon" \in Symbols
    BY StructureSymbols
  <1>2. PICK a \in Seq(Symbols) : a = <<c>>
    BY <1>1, OneSymbol
  <1>3. PICK b \in Seq(Symbols) : b = <<"colon">>
    BY <1>1, OneSymbol
  <1>4. /\ Cat(Cat(Cat(a, b), s), e) = Cat(a, Cat(b, Cat(s, e)))
        /\ Cat(s, e) \in Seq(Symbols) /\ Cat(b, Cat(s, e)) \in Seq(Symbols)
        /\ Len(Cat(s, e)) = Len(s) + Len(e)
    <2> HIDE <1>2, <1>3
    <2> QED BY CatFour
  <1>5. QED
    BY <1>2, <1>3, <1>4 DEF Key

\* If values are parsed, members are.
LEMMA PairsParsed ==
  ASSUME NEW t \in Seq(Alphabet.structure), NEW values, \A x \in values : Written(x),
         NEW most \in Nat, most <= MaxStructure - 2, ItemsParsed(t, "elements", values, most)
  PROVE  ItemsParsed(t, "members", Members(values), most)
  <1>0. t \in Seq(Symbols) /\ Len(t) \in Nat /\ "members" \in Loops /\ "elements" \in Loops
    BY StructureTyped DEF Loops
  <1> SUFFICES ASSUME NEW p \in 1 .. Len(t) + 1, NEW r, r = ItemAt(t, "members", p), r.ok,
                      Span(t, p, r.next) <= most
               PROVE  \E m \in Members(values) : Bare(t, p) = Cat(m.text, Bare(t, r.next))
                        /\ m.value = r.value
    BY DEF ItemsParsed
  <1> DEFINE q == SkipWs(t, p)
             colon == SkipWs(t, q + 1)
             v == Value(t, colon + 1)
             c == At(t, q)
  <1>1. r = PairAt(t, p)
    BY DEF ItemAt
  <1>2. r.next \in 1 .. Len(t) + 1
    BY <1>0, ItemShrinks
  <1>3. r = IF c \in Quoted /\ At(t, colon) = "colon" /\ v.ok
            THEN Ok(<<Content[c], v.value>>, v.next) ELSE Fail
    BY <1>1, PairIs
  <1>4. c \in Quoted /\ At(t, colon) = "colon" /\ v.ok
    <2> HIDE DEF v, colon, q, c
    <2>1. ~(c \in Quoted /\ At(t, colon) = "colon" /\ v.ok) => r = Fail
      BY <1>3
    <2>2. QED
      BY <2>1 DEF Fail
  <1>5. r.value = <<Content[c], v.value>> /\ r.next = v.next
    <2> HIDE DEF v, colon, q, c
    <2>1. r = Ok(<<Content[c], v.value>>, v.next)
      BY <1>3, <1>4
    <2>2. QED
      BY <2>1 DEF Ok
  <1>6. c \in Symbols /\ "colon" \in Symbols
    BY <1>4, StructureSymbols
  <1>7. /\ q + 1 \in 1 .. Len(t) + 1
        /\ Bare(t, p) = Cat(<<c>>, Bare(t, q + 1)) /\ Len(Bare(t, p)) = 1 + Len(Bare(t, q + 1))
    BY <1>0, <1>6, TokenRead
  <1>8. /\ colon + 1 \in 1 .. Len(t) + 1
        /\ Bare(t, q + 1) = Cat(<<"colon">>, Bare(t, colon + 1))
        /\ Len(Bare(t, q + 1)) = 1 + Len(Bare(t, colon + 1))
    <2>1. colon = SkipWs(t, q + 1) /\ At(t, colon) \in Symbols
      BY <1>4, <1>6
    <2>2. QED
      BY <1>0, <1>4, <1>7, <2>1, TokenRead
  <1>9. Bare(t, v.next) \in Seq(Symbols) /\ Len(Bare(t, v.next)) \in Nat /\ Len(Bare(t, colon + 1)) \in Nat
    <2> HIDE DEF v, colon, q, c
    <2>1. v.next \in 1 .. Len(t) + 1 /\ colon + 1 \in 1 .. Len(t) + 1
      BY <1>2, <1>5, <1>8
    <2>2. \A i \in 1 .. Len(t) + 1 : Bare(t, i) \in Seq(Symbols) /\ Len(Bare(t, i)) \in Nat
      BY <1>0, BareTyped
    <2>3. QED
      BY <2>1, <2>2
  <1>10. Span(t, colon + 1, v.next) + 2 = Span(t, p, r.next)
    <2> HIDE DEF v, colon, q, c
    <2>1. Len(Bare(t, p)) = 2 + Len(Bare(t, colon + 1))
      BY <1>7, <1>8, <1>9
    <2>2. \A a \in Nat : \A b \in Nat : a - b + 2 = 2 + a - b
      OBVIOUS
    <2>3. QED
      BY <1>5, <1>9, <2>1, <2>2 DEF Span
  <1>11. Span(t, colon + 1, v.next) <= most
    <2> HIDE DEF v, colon, q, c
    <2>1. Span(t, colon + 1, v.next) \in Int
      BY <1>9 DEF Span
    <2>2. QED
      BY <1>10, <2>1
  <1>12. PICK x \in values : Bare(t, colon + 1) = Cat(x.text, Bare(t, v.next)) /\ x.value = v.value
    <2>1. v = ItemAt(t, "elements", colon + 1)
      BY DEF ItemAt
    <2> HIDE DEF v, colon, q, c
    <2>2. QED
      BY <1>4, <1>8, <1>11, <2>1 DEF ItemsParsed
  <1>13. x.text \in Seq(Symbols) /\ Len(x.text) \in Nat
    BY DEF Written
  <1> HIDE DEF v, colon, q, c
  <1>14. /\ Bare(t, p) = Cat(Cat(Key(c), x.text), Bare(t, r.next))
         /\ Len(Bare(t, colon + 1)) = Len(x.text) + Len(Bare(t, v.next))
    <2>1. PICK s \in Seq(Symbols) : s = x.text
      BY <1>13
    <2>2. PICK e \in Seq(Symbols) : e = Bare(t, v.next)
      BY <1>9
    <2>3. /\ Cat(Cat(Key(c), s), e) = Cat(<<c>>, Cat(<<"colon">>, Cat(s, e)))
          /\ Len(Cat(s, e)) = Len(s) + Len(e)
      <3> HIDE <2>1, <2>2
      <3> QED BY <1>4, KeyThen
    <2>4. QED
      BY <1>5, <1>7, <1>8, <1>12, <2>1, <2>2, <2>3
  <1>15. Means(Key(c), Content[c]) \in Keys
    BY <1>4, KeysAre DEF Key
  <1>16. PICK k \in Keys : k = Means(Key(c), Content[c]) /\ k.text = Key(c) /\ k.value = Content[c]
                /\ Len(k.text) = 2
    <2>1. Len(Means(Key(c), Content[c]).text) = 2
      BY <1>15, KeysAre
    <2>2. QED
      BY <1>15, <2>1 DEF Means
  <1>17. Together(k, x, MaxStructure - 2)
    <2>1. PICK a \in Nat : a = Len(x.text)
      BY <1>13
    <2>2. PICK b \in Nat : b = Len(Bare(t, v.next))
      BY <1>9
    <2>3. PICK d \in Nat : d = Len(Bare(t, colon + 1))
      BY <1>9
    <2>4. PICK u \in Int : u = Span(t, p, r.next)
      <3>1. Span(t, colon + 1, v.next) \in Int
        BY <1>9 DEF Span
      <3>2. Span(t, p, r.next) \in Int
        BY <1>10, <3>1
      <3>3. QED
        BY <3>2
    <2>5. d = a + b /\ d - b + 2 = u /\ u <= most
      BY <1>10, <1>14, <2>1, <2>2, <2>3, <2>4 DEF Span
    <2>6. MaxStructure - 2 \in Int
      BY GrammarAssumption
    <2>7. 2 + a <= MaxStructure - 2
      <3> HIDE <2>1, <2>2, <2>3, <2>4
      <3> QED BY <2>5, <2>6
    <2>8. QED
      BY <1>16, <2>1, <2>7 DEF Together
  <1> DEFINE m == Means(Cat(k.text, x.text), <<k.value, x.value>>)
  <1>18. m \in Members(values)
    BY <1>17, MembersIs
  <1>19. m.text = Cat(Key(c), x.text) /\ m.value = <<Content[c], x.value>>
    BY <1>16 DEF Means
  <1> HIDE DEF m
  <1>20. QED
    BY <1>5, <1>12, <1>14, <1>18, <1>19

\* If values are found, members are.
LEMMA PairsFound ==
  ASSUME NEW t \in Seq(Alphabet.structure), NEW values, \A x \in values : Written(x),
         ItemsFound(t, "elements", values)
  PROVE  ItemsFound(t, "members", Members(values))
  <1>0. t \in Seq(Symbols) /\ Len(t) \in Nat
    BY StructureTyped
  <1> SUFFICES ASSUME NEW x \in Members(values), NEW p \in 1 .. Len(t) + 1, NEW y \in Seq(Symbols),
                      Bare(t, p) = Cat(x.text, y)
               PROVE  ItemAt(t, "members", p).ok /\ Bare(t, ItemAt(t, "members", p).next) = y
    BY DEF ItemsFound
  <1>1. PICK k \in Keys, w \in values : x = Means(Cat(k.text, w.text), <<k.value, w.value>>)
    BY MembersIs
  <1>2. PICK c \in Quoted : k.text = Key(c)
    BY KeysAre DEF Key, Means
  <1>3. x.text = Cat(Key(c), w.text) /\ w.text \in Seq(Symbols)
    BY <1>1, <1>2 DEF Means, Written
  <1>4. PICK s \in Seq(Symbols) : s = w.text
    BY <1>3
  <1>5. /\ Cat(Cat(Key(c), s), y) = Cat(<<c>>, Cat(<<"colon">>, Cat(s, y)))
        /\ Cat(s, y) \in Seq(Symbols) /\ Cat(<<"colon">>, Cat(s, y)) \in Seq(Symbols)
    <2> HIDE <1>4
    <2> QED BY KeyThen
  <1>6. PICK e \in Seq(Symbols) : e = Cat(w.text, y)
    BY <1>4, <1>5
  <1>7. PICK f \in Seq(Symbols) : f = Cat(<<"colon">>, e)
    BY <1>4, <1>5, <1>6
  <1>8. Bare(t, p) = Cat(<<c>>, f)
    BY <1>3, <1>4, <1>5, <1>6, <1>7
  <1>9. c \in Symbols /\ "colon" \in Symbols
    BY StructureSymbols
  <1> DEFINE q == SkipWs(t, p)
             colon == SkipWs(t, q + 1)
             v == Value(t, colon + 1)
  <1>10. At(t, q) = c /\ Bare(t, q + 1) = f /\ q + 1 \in 1 .. Len(t) + 1
    <2> HIDE <1>7
    <2> QED BY <1>0, <1>8, <1>9, TokenFound
  <1>11. At(t, colon) = "colon" /\ Bare(t, colon + 1) = e /\ colon + 1 \in 1 .. Len(t) + 1
    <2>1. Bare(t, q + 1) = Cat(<<"colon">>, e)
      BY <1>7, <1>10
    <2> HIDE <1>6
    <2>2. colon = SkipWs(t, q + 1)
      OBVIOUS
    <2> HIDE DEF q, colon
    <2>3. QED
      BY <1>0, <1>9, <1>10, <2>1, <2>2, TokenFound
  <1>12. v.ok /\ Bare(t, v.next) = y
    <2>1. v = ItemAt(t, "elements", colon + 1)
      BY DEF ItemAt
    <2> HIDE DEF v, q, colon
    <2>2. Bare(t, colon + 1) = Cat(w.text, y)
      BY <1>6, <1>11
    <2>3. QED
      BY <1>11, <2>1, <2>2 DEF ItemsFound
  <1>13. ItemAt(t, "members", p) = Ok(<<Content[c], v.value>>, v.next)
    <2>1. PairAt(t, p) = IF At(t, q) \in Quoted /\ At(t, colon) = "colon" /\ v.ok
                         THEN Ok(<<Content[At(t, q)], v.value>>, v.next) ELSE Fail
      BY PairIs
    <2> HIDE DEF v, q, colon
    <2>2. QED
      BY <1>10, <1>11, <1>12, <2>1 DEF ItemAt
  <1> HIDE DEF v
  <1>14. QED
    BY <1>12, <1>13 DEF Ok

\* A value is an object, an array, or one symbol.
LEMMA ValueKinds ==
  ASSUME NEW t \in Seq(Alphabet.structure), NEW p \in 1 .. Len(t) + 1, NEW c, c = At(t, SkipWs(t, p))
  PROVE  /\ c = "begin_object" => Value(t, p) = Contained(t, "members", "object", p)
         /\ c = "begin_array" => Value(t, p) = Contained(t, "elements", "array", p)
         /\ c \in Quoted => Value(t, p) = Ok(<<"string", Content[c]>>, SkipWs(t, p) + 1)
         /\ c = "null" => Value(t, p) = Ok(<<"null">>, SkipWs(t, p) + 1)
         /\ Value(t, p).ok => c \in Quoted \cup {"null", "begin_object", "begin_array"}
  <1> DEFINE q == SkipWs(t, p)
  <1>1. c \in Quoted \cup {"null", "begin_object", "end_object", "begin_array", "end_array", "colon",
          "comma", "end"}
    BY StructureTyped
  <1>2. /\ c = "begin_object" =>
             Value(t, p) = Container(t, SkipWs(t, q + 1), "object", "end_object", "members", Parser(t))
        /\ c = "begin_array" =>
             Value(t, p) = Container(t, SkipWs(t, q + 1), "array", "end_array", "elements", Parser(t))
        /\ c \in Quoted => Value(t, p) = Ok(<<"string", Content[c]>>, q + 1)
        /\ c = "null" => Value(t, p) = Ok(<<"null">>, q + 1)
        /\ c \in {"end_object", "end_array", "colon", "comma", "end"} => Value(t, p) = Fail
    BY ValueIs
  <1>3. /\ Contained(t, "members", "object", p)
             = Container(t, SkipWs(t, q + 1), "object", "end_object", "members", Parser(t))
        /\ Contained(t, "elements", "array", p)
             = Container(t, SkipWs(t, q + 1), "array", "end_array", "elements", Parser(t))
    BY CloseIs DEF Contained
  <1>4. Value(t, p) = Fail => ~Value(t, p).ok
    BY DEF Fail
  <1>5. QED
    <2> HIDE DEF q
    <2>1. c = "begin_object" => Value(t, p) = Contained(t, "members", "object", p)
      BY <1>2, <1>3
    <2>2. c = "begin_array" => Value(t, p) = Contained(t, "elements", "array", p)
      BY <1>2, <1>3
    <2>3. QED
      BY <1>1, <1>2, <1>4, <2>1, <2>2 DEF q

\* A value of one symbol is parsed.
LEMMA ScalarParsed ==
  ASSUME NEW t \in Seq(Alphabet.structure), NEW p \in 1 .. Len(t) + 1, NEW c, c = At(t, SkipWs(t, p)),
         c \in Quoted \cup {"null"}, NEW r, r = Value(t, p)
  PROVE  \E x \in Scalars : Bare(t, p) = Cat(x.text, Bare(t, r.next)) /\ x.value = r.value
  <1>0. t \in Seq(Symbols) /\ c \in Symbols
    BY StructureTyped, StructureSymbols
  <1> DEFINE q == SkipWs(t, p)
             d == IF c = "null" THEN <<"null">> ELSE <<"string", Content[c]>>
             x == Means(<<c>>, d)
  <1>1. r = Ok(d, q + 1)
    <2>1. "null" \notin Quoted
      BY DEF Quoted
    <2>2. QED
      BY <2>1, ValueKinds
  <1>2. r.value = d /\ r.next = q + 1
    <2> HIDE DEF d, q
    <2> QED BY <1>1 DEF Ok
  <1>3. Bare(t, p) = Cat(<<c>>, Bare(t, q + 1))
    BY <1>0, TokenRead
  <1>4. x \in Scalars
    BY ScalarsAre
  <1>5. x.text = <<c>> /\ x.value = d
    <2> HIDE DEF d
    <2> QED BY DEF Means
  <1> HIDE DEF x, d, q
  <1>6. QED
    BY <1>2, <1>3, <1>4, <1>5

LEMMA ScalarFound ==
  ASSUME NEW t \in Seq(Alphabet.structure), NEW p \in 1 .. Len(t) + 1, NEW x \in Scalars,
         NEW y \in Seq(Symbols)
  PROVE  Bare(t, p) = Cat(x.text, y) => Value(t, p).ok /\ Bare(t, Value(t, p).next) = y
  <1> SUFFICES ASSUME Bare(t, p) = Cat(x.text, y)
               PROVE  Value(t, p).ok /\ Bare(t, Value(t, p).next) = y
    OBVIOUS
  <1>0. t \in Seq(Symbols)
    BY StructureTyped
  <1>1. PICK c \in Quoted \cup {"null"} : x.text = <<c>>
    BY ScalarsAre
  <1>2. c \in Symbols
    BY StructureSymbols
  <1> DEFINE q == SkipWs(t, p)
  <1>3. At(t, q) = c /\ Bare(t, q + 1) = y
    BY <1>0, <1>1, <1>2, TokenFound
  <1>4. PICK d : Value(t, p) = Ok(d, q + 1)
    BY <1>3, ValueKinds
  <1> HIDE DEF q
  <1>5. QED
    BY <1>3, <1>4 DEF Ok

LEMMA DenotesEither ==
  ASSUME NEW list
  PROVE  Denotes("elements", list) = list /\ Denotes("members", list) = ObjectOf(list)
  BY DEF Denotes, ArrayOf

\* What is parsed as a value is one of the grammar.
ValueDenoted(t, values, p, r) ==
  \E x \in values : Bare(t, p) = Cat(x.text, Bare(t, r.next)) /\ x.value = r.value

LEMMA ValueParsed ==
  ASSUME NEW t \in Seq(Alphabet.structure), NEW values, \A x \in values : Written(x),
         NEW most \in Nat, most <= MaxStructure - 2, ItemsParsed(t, "elements", values, most),
         NEW p \in 1 .. Len(t) + 1, NEW r, r = Value(t, p), r.ok, Span(t, p, r.next) <= most + 2
  PROVE  ValueDenoted(t, Scalars \cup Deeper(values), p, r)
  <1> DEFINE c == At(t, SkipWs(t, p))
  <1>0. /\ t \in Seq(Symbols) /\ Len(t) \in Nat /\ "members" \in Loops /\ "elements" \in Loops
        /\ Close["elements"] = "end_array" /\ Close["members"] = "end_object"
        /\ "begin_object" \in Symbols /\ "begin_array" \in Symbols
    BY StructureTyped, CloseIs, StructureSymbols DEF Loops
  <1>1. /\ c = "begin_object" => r = Contained(t, "members", "object", p)
        /\ c = "begin_array" => r = Contained(t, "elements", "array", p)
        /\ c \in Quoted \cup {"null", "begin_object", "begin_array"}
    BY ValueKinds
  <1>2. r.next \in 1 .. Len(t) + 1
    BY ValueShrinks
  <1>3. MaxStructure - 2 \in Int
    BY GrammarAssumption
  <1>4. CASE c \in Quoted \cup {"null"}
    <2>1. \E x \in Scalars : Bare(t, p) = Cat(x.text, Bare(t, r.next)) /\ x.value = r.value
      BY <1>4, ScalarParsed
    <2>2. QED
      BY <2>1 DEF ValueDenoted
  <1>5. CASE c = "begin_array"
    <2>1. EnclosedAt(t, "elements", values, most, p, "begin_array", "array", r)
      BY <1>0, <1>1, <1>2, <1>5, ContainedParsed
    <2>2. PICK y \in Lists(values) :
            /\ Len(y.text) <= most
            /\ Bare(t, p) = Cat(Around("begin_array", y.text, "end_array"), Bare(t, r.next))
            /\ r.value = <<"array", y.value>>
      BY <1>0, <2>1, DenotesEither DEF EnclosedAt
    <2>3. y.text \in Seq(Symbols) /\ Len(y.text) \in Nat
      BY ListsAre
    <2>4. Len(y.text) <= MaxStructure - 2
      BY <1>3, <2>2, <2>3
    <2> DEFINE x == Means(Around("begin_array", y.text, "end_array"), <<"array", y.value>>)
    <2>5. x \in Deeper(values)
      BY <2>4, DeeperIs
    <2>6. x.text = Around("begin_array", y.text, "end_array") /\ x.value = <<"array", y.value>>
      BY DEF Means
    <2> HIDE DEF x
    <2>7. QED
      BY <2>2, <2>5, <2>6 DEF ValueDenoted
  <1>6. CASE c = "begin_object"
    <2>1. ItemsParsed(t, "members", Members(values), most) /\ \A m \in Members(values) : Written(m)
      BY PairsParsed, MembersWritten
    <2>2. EnclosedAt(t, "members", Members(values), most, p, "begin_object", "object", r)
      <3>1. r = Contained(t, "members", "object", p) /\ "begin_object" = At(t, SkipWs(t, p))
        BY <1>1, <1>6
      <3> HIDE DEF c
      <3>2. QED
        BY <1>0, <1>2, <2>1, <3>1, ContainedParsed
    <2>3. PICK y \in Lists(Members(values)) :
            /\ Len(y.text) <= most
            /\ Bare(t, p) = Cat(Around("begin_object", y.text, "end_object"), Bare(t, r.next))
            /\ r.value = <<"object", ObjectOf(y.value)>>
      BY <1>0, <2>2, DenotesEither DEF EnclosedAt
    <2>4. y.text \in Seq(Symbols) /\ Len(y.text) \in Nat
      BY <2>1, ListsAre
    <2>5. Len(y.text) <= MaxStructure - 2
      BY <1>3, <2>3, <2>4
    <2> DEFINE x == Means(Around("begin_object", y.text, "end_object"), <<"object", ObjectOf(y.value)>>)
    <2>6. x \in Deeper(values)
      BY <2>5, DeeperIs
    <2>7. x.text = Around("begin_object", y.text, "end_object") /\ x.value = <<"object", ObjectOf(y.value)>>
      BY DEF Means
    <2> HIDE DEF x
    <2>8. QED
      BY <2>3, <2>6, <2>7 DEF ValueDenoted
  <1>7. QED
    BY <1>1, <1>4, <1>5, <1>6

\* The texts of objects and arrays are of two symbols at least.
LEMMA DeeperIsLonger ==
  ASSUME NEW x \in Deeper({})
  PROVE  x.text \in Seq(Symbols) /\ Len(x.text) >= 2
  <1>1. \A y \in Lists({}) : y.text \in Seq(Symbols)
    BY ListsAre
  <1>2. \A y \in Lists(Members({})) : y.text \in Seq(Symbols)
    <2>1. \A m \in Members({}) : Written(m)
      BY MembersWritten
    <2>2. QED
      BY <2>1, ListsAre
  <1>3. "begin_array" \in Symbols /\ "end_array" \in Symbols /\ "begin_object" \in Symbols
          /\ "end_object" \in Symbols
    BY StructureSymbols
  <1>4. \A o \in Symbols : \A s \in Seq(Symbols) : \A c \in Symbols :
          Around(o, s, c) \in Seq(Symbols) /\ Len(Around(o, s, c)) >= 2
    <2> SUFFICES ASSUME NEW o \in Symbols, NEW s \in Seq(Symbols), NEW c \in Symbols
                 PROVE  Around(o, s, c) \in Seq(Symbols) /\ Len(Around(o, s, c)) >= 2
      OBVIOUS
    <2>1. /\ Around(o, s, c) \in Seq(Symbols)
          /\ Len(Around(o, s, c)) = Len(s) + 2 /\ Len(s) \in Nat
      BY AroundIs
    <2>2. QED
      BY <2>1
  <1>5. \/ \E y \in Lists({}) : x.text = Around("begin_array", y.text, "end_array")
        \/ \E y \in Lists(Members({})) : x.text = Around("begin_object", y.text, "end_object")
    BY DeeperIs DEF Means
  <1>6. QED
    BY <1>1, <1>2, <1>3, <1>4, <1>5

LEMMA NoItems ==
  ASSUME NEW t \in Seq(Alphabet.structure)
  PROVE  ItemsParsed(t, "elements", {}, 0)
  <1>0. t \in Seq(Symbols) /\ Len(t) \in Nat /\ "elements" \in Loops
    BY StructureTyped DEF Loops
  <1> SUFFICES ASSUME NEW p \in 1 .. Len(t) + 1, NEW r, r = ItemAt(t, "elements", p), r.ok,
                      Span(t, p, r.next) <= 0
               PROVE  FALSE
    BY DEF ItemsParsed
  <1>1. r.next \in 1 .. Len(t) + 1 /\ Len(Bare(t, r.next)) < Len(Bare(t, p))
    BY <1>0, ItemShrinks
  <1>2. Len(Bare(t, r.next)) \in Nat /\ Len(Bare(t, p)) \in Nat
    <2>1. \A i \in 1 .. Len(t) + 1 : Len(Bare(t, i)) \in Nat
      BY <1>0, BareTyped
    <2>2. QED
      BY <1>1, <2>1
  <1>3. QED
    BY <1>1, <1>2 DEF Span

\* Within one symbol there is no object and no array.
LEMMA ScalarsParsed ==
  ASSUME NEW t \in Seq(Alphabet.structure), NEW most \in Nat, most <= 1
  PROVE  ItemsParsed(t, "elements", Scalars, most)
  <1>0. t \in Seq(Symbols) /\ Len(t) \in Nat
    BY StructureTyped
  <1> SUFFICES ASSUME NEW p \in 1 .. Len(t) + 1, NEW r, r = ItemAt(t, "elements", p), r.ok,
                      Span(t, p, r.next) <= most
               PROVE  \E x \in Scalars : Bare(t, p) = Cat(x.text, Bare(t, r.next)) /\ x.value = r.value
    BY DEF ItemsParsed
  <1>1. r = Value(t, p)
    BY DEF ItemAt
  <1>2. r.next \in 1 .. Len(t) + 1
    BY <1>1, ValueShrinks
  <1>3. Span(t, p, r.next) \in Int
    <2>1. \A i \in 1 .. Len(t) + 1 : Len(Bare(t, i)) \in Nat
      BY <1>0, BareTyped
    <2>2. QED
      BY <1>2, <2>1 DEF Span
  <1>4. ValueDenoted(t, Scalars \cup Deeper({}), p, r)
    <2>1. Span(t, p, r.next) <= 0 + 2 /\ 0 <= MaxStructure - 2
      BY <1>3, GrammarAssumption
    <2>2. QED
      BY <1>1, <2>1, NoItems, ValueParsed
  <1>5. PICK x \in Scalars \cup Deeper({}) : Bare(t, p) = Cat(x.text, Bare(t, r.next)) /\ x.value = r.value
    BY <1>4 DEF ValueDenoted
  <1>6. CASE x \in Deeper({})
    <2>1. x.text \in Seq(Symbols) /\ Len(x.text) >= 2
      BY <1>6, DeeperIsLonger
    <2>2. Span(t, p, r.next) = Len(x.text)
      BY <1>0, <1>2, <1>5, <2>1, SpanIs
    <2>3. QED
      BY <1>3, <2>1, <2>2
  <1>7. QED
    BY <1>5, <1>6

\* The values of each depth include those of one symbol.
LEMMA DeeperWritten ==
  ASSUME NEW k \in 0 .. Half
  PROVE  k \in Nat /\ Scalars \subseteq StructuresOf[k] /\ \A x \in StructuresOf[k] : Written(x)
  <1>0. Half \in Nat
    BY HalfIs
  <1> DEFINE S == {n \in Nat : Scalars \subseteq StructuresOf[n]}
  <1>1. 0 \in S
    BY StructuresOfIs
  <1>2. \A n \in 0 .. Half - 1 : n \in S => n + 1 \in S
    <2> SUFFICES ASSUME NEW n \in 0 .. Half - 1, Scalars \subseteq StructuresOf[n]
                 PROVE  n + 1 \in Nat /\ Scalars \subseteq StructuresOf[n + 1]
      OBVIOUS
    <2>1. StructuresOf[n + 1] = Deeper(StructuresOf[n])
      BY StructuresOfIs
    <2>2. \A x \in StructuresOf[n] : x \in Deeper(StructuresOf[n])
      BY DeeperIs
    <2>3. n + 1 \in Nat
      BY <1>0
    <2>4. QED
      BY <2>1, <2>2, <2>3
  <1>3. \A n \in 0 .. Half : n \in S
    <2> HIDE DEF S
    <2> QED BY <1>0, <1>1, <1>2, Upwards
  <1>4. QED
    BY <1>0, <1>3, StructuresWritten

\* What is parsed as a value of so many symbols is one of that depth.
LEMMA ValuesParsed ==
  ASSUME NEW t \in Seq(Alphabet.structure), NEW most \in Nat, most <= MaxStructure
  PROVE  ItemsParsed(t, "elements", Structures, most)
  <1>0. Half \in Nat \ {0} /\ MaxStructure \in Nat /\ MaxStructure <= 2 * Half + 1
    BY HalfIs, GrammarAssumption
  <1> DEFINE Good(k) == \A m \in Nat : m <= MaxStructure /\ m <= 2 * k + 1
               => ItemsParsed(t, "elements", StructuresOf[k], m)
             S == {k \in Nat : Good(k)}
  <1>1. 0 \in S
    BY StructuresOfIs, ScalarsParsed
  <1>2. \A k \in 0 .. Half - 1 : k \in S => k + 1 \in S
    <2> SUFFICES ASSUME NEW k \in 0 .. Half - 1, Good(k) PROVE k + 1 \in Nat /\ Good(k + 1)
      OBVIOUS
    <2>1. k \in Nat /\ k + 1 \in Nat /\ k \in 0 .. Half
      BY <1>0
    <2>2. Scalars \subseteq StructuresOf[k] /\ \A x \in StructuresOf[k] : Written(x)
      BY <2>1, DeeperWritten
    <2>3. StructuresOf[k + 1] = Deeper(StructuresOf[k])
      BY StructuresOfIs
    <2>4. Scalars \cup Deeper(StructuresOf[k]) = StructuresOf[k + 1]
      BY <2>2, <2>3, DeeperIs
    <2> SUFFICES ASSUME NEW m \in Nat, m <= MaxStructure, m <= 2 * (k + 1) + 1,
                        NEW p \in 1 .. Len(t) + 1,
                        NEW r, r = ItemAt(t, "elements", p), r.ok, Span(t, p, r.next) <= m
                 PROVE  \E x \in StructuresOf[k + 1] : Bare(t, p) = Cat(x.text, Bare(t, r.next))
                          /\ x.value = r.value
      BY <2>1 DEF ItemsParsed
    <2> HIDE DEF Good
    <2>5. r = Value(t, p)
      BY DEF ItemAt
    <2>6. PICK n \in Nat : n <= MaxStructure - 2 /\ n <= 2 * k + 1 /\ m <= n + 2
      <3>1. CASE m <= 2
        BY <2>1, <3>1, GrammarAssumption
      <3>2. CASE m > 2
        <4>1. m - 2 \in Nat /\ m - 2 <= MaxStructure - 2 /\ m - 2 <= 2 * k + 1 /\ m <= m - 2 + 2
          BY <1>0, <2>1, <3>2
        <4>2. QED
          BY <4>1
      <3>3. QED
        BY <3>1, <3>2
    <2>7. ItemsParsed(t, "elements", StructuresOf[k], n)
      <3>1. n <= MaxStructure
        BY <1>0, <2>6
      <3>2. QED
        BY <2>6, <3>1 DEF Good
    <2>8. Span(t, p, r.next) \in Int
      <3>1. t \in Seq(Symbols) /\ Len(t) \in Nat
        BY StructureTyped
      <3>2. \A i \in 1 .. Len(t) + 1 : Len(Bare(t, i)) \in Nat
        BY <3>1, BareTyped
      <3>3. r.next \in 1 .. Len(t) + 1
        BY <2>5, ValueShrinks
      <3>4. QED
        BY <3>2, <3>3 DEF Span
    <2>9. Span(t, p, r.next) <= n + 2
      BY <2>6, <2>8
    <2>10. ValueDenoted(t, Scalars \cup Deeper(StructuresOf[k]), p, r)
      BY <2>2, <2>5, <2>6, <2>7, <2>9, ValueParsed
    <2>11. QED
      BY <2>4, <2>10 DEF ValueDenoted
  <1>3. \A k \in 0 .. Half : k \in S
    <2> HIDE DEF S
    <2> QED BY <1>0, <1>1, <1>2, Upwards
  <1>4. Good(Half)
    <2>1. Half \in S
      <3> HIDE DEF S
      <3> QED BY <1>0, <1>3
    <2> HIDE DEF Good
    <2>2. QED
      BY <2>1
  <1>5. most <= 2 * Half + 1
    BY <1>0
  <1>6. QED
    BY <1>4, <1>5 DEF Structures, Half

\* The values of each depth are found where they are.
LEMMA DeeperFound ==
  ASSUME NEW t \in Seq(Alphabet.structure), NEW values, \A x \in values : Written(x),
         ItemsFound(t, "elements", values)
  PROVE  ItemsFound(t, "elements", Deeper(values))
  <1>0. /\ t \in Seq(Symbols) /\ Len(t) \in Nat /\ "members" \in Loops /\ "elements" \in Loops
        /\ Close["elements"] = "end_array" /\ Close["members"] = "end_object"
        /\ "begin_object" \in Symbols /\ "begin_array" \in Symbols
    BY StructureTyped, CloseIs, StructureSymbols DEF Loops
  <1> SUFFICES ASSUME NEW x \in Deeper(values), NEW p \in 1 .. Len(t) + 1, NEW y \in Seq(Symbols),
                      Bare(t, p) = Cat(x.text, y), NEW r, r = ItemAt(t, "elements", p)
               PROVE  r.ok /\ Bare(t, r.next) = y
    BY DEF ItemsFound
  <1>1. r = Value(t, p)
    BY DEF ItemAt
  <1>2. CASE x \in values
    BY <1>2 DEF ItemsFound
  <1>3. ASSUME NEW l \in Lists(values), x.text = Around("begin_array", l.text, "end_array")
        PROVE  r.ok /\ Bare(t, r.next) = y
    <2> DEFINE s == Contained(t, "elements", "array", p)
    <2>1. Bare(t, p) = Cat(Around("begin_array", l.text, Close["elements"]), y)
      BY <1>0, <1>3
    <2>2. At(t, SkipWs(t, p)) = "begin_array" /\ s.ok /\ Bare(t, s.next) = y
      <3>1. s = Contained(t, "elements", "array", p)
        OBVIOUS
      <3> HIDE DEF s
      <3>2. QED
        BY <1>0, <2>1, <3>1, ContainedFound
    <2>3. Value(t, p) = s
      BY <2>2, ValueKinds
    <2>4. QED
      BY <1>1, <2>2, <2>3
  <1>4. ASSUME NEW l \in Lists(Members(values)), x.text = Around("begin_object", l.text, "end_object")
        PROVE  r.ok /\ Bare(t, r.next) = y
    <2> DEFINE s == Contained(t, "members", "object", p)
    <2>1. Bare(t, p) = Cat(Around("begin_object", l.text, Close["members"]), y)
      BY <1>0, <1>4
    <2>2. ItemsFound(t, "members", Members(values)) /\ \A m \in Members(values) : Written(m)
      BY PairsFound, MembersWritten
    <2>3. At(t, SkipWs(t, p)) = "begin_object" /\ s.ok /\ Bare(t, s.next) = y
      <3>1. s = Contained(t, "members", "object", p)
        OBVIOUS
      <3> HIDE DEF s
      <3>2. QED
        BY <1>0, <2>1, <2>2, <3>1, ContainedFound
    <2>4. Value(t, p) = s
      BY <2>3, ValueKinds
    <2>5. QED
      BY <1>1, <2>3, <2>4
  <1>5. \/ x \in values
        \/ \E l \in Lists(values) : x.text = Around("begin_array", l.text, "end_array")
        \/ \E l \in Lists(Members(values)) : x.text = Around("begin_object", l.text, "end_object")
    BY DeeperIs DEF Means
  <1>6. QED
    BY <1>2, <1>3, <1>4, <1>5

\* Every value of the grammar is found where it is.
LEMMA ValuesFound ==
  ASSUME NEW t \in Seq(Alphabet.structure)
  PROVE  ItemsFound(t, "elements", Structures)
  <1>0. Half \in Nat \ {0}
    BY HalfIs
  <1> DEFINE Good(k) == ItemsFound(t, "elements", StructuresOf[k])
             S == {k \in Nat : Good(k)}
  <1>1. 0 \in S
    <2>1. ItemsFound(t, "elements", Scalars)
      BY ScalarFound DEF ItemsFound, ItemAt
    <2>2. QED
      BY <2>1, StructuresOfIs
  <1>2. \A k \in 0 .. Half - 1 : k \in S => k + 1 \in S
    <2> SUFFICES ASSUME NEW k \in 0 .. Half - 1, Good(k) PROVE k + 1 \in Nat /\ Good(k + 1)
      OBVIOUS
    <2>1. k + 1 \in Nat /\ k \in 0 .. Half
      BY <1>0
    <2>2. \A x \in StructuresOf[k] : Written(x)
      BY <2>1, DeeperWritten
    <2>3. StructuresOf[k + 1] = Deeper(StructuresOf[k])
      BY StructuresOfIs
    <2>4. QED
      BY <2>1, <2>2, <2>3, DeeperFound
  <1>3. \A k \in 0 .. Half : k \in S
    <2> HIDE DEF S
    <2> QED BY <1>0, <1>1, <1>2, Upwards
  <1>4. Half \in S
    <2> HIDE DEF S
    <2> QED BY <1>0, <1>3
  <1>5. QED
    BY <1>4 DEF Structures, Half

\* Before the end of a text there is nothing left of it, and nowhere else.
LEMMA NothingLeft ==
  ASSUME NEW t \in Seq(Symbols), NEW p \in 1 .. Len(t) + 1
  PROVE  SkipWs(t, p) = Len(t) + 1 <=> Bare(t, p) = <<>>
  <1> DEFINE q == SkipWs(t, p)
  <1>1. /\ q = Len(t) + 1 => Bare(t, p) = <<>>
        /\ q # Len(t) + 1 => /\ At(t, q) \in Tokens /\ q + 1 \in p + 1 .. Len(t) + 1
                             /\ Bare(t, p) = Cat(<<At(t, q)>>, Bare(t, q + 1))
    BY TokenIs
  <1>2. CASE q # Len(t) + 1
    <2>1. At(t, q) \in Symbols
      BY <1>1, <1>2 DEF Tokens
    <2>2. Bare(t, p) \in Seq(Symbols) /\ Len(Bare(t, p)) = 1 + Len(Bare(t, q + 1))
            /\ Len(Bare(t, q + 1)) \in Nat
      <3>1. q + 1 \in 1 .. Len(t) + 1 /\ Len(Bare(t, p)) = 1 + Len(Bare(t, q + 1))
        BY <2>1, TokenRead
      <3>2. \A i \in 1 .. Len(t) + 1 : Bare(t, i) \in Seq(Symbols) /\ Len(Bare(t, i)) \in Nat
        BY BareTyped
      <3>3. QED
        BY <3>1, <3>2
    <2>3. QED
      BY <1>2, <2>2
  <1>3. QED
    BY <1>1, <1>2

\* The parser follows the grammar of objects and arrays.
LEMMA StructuresFollow ==
  ASSUME NEW t \in Seq(Alphabet.structure), Len(Bare(t, 1)) <= MaxStructure
  PROVE  Follows(t, Structures)
  <1>0. t \in Seq(Symbols) /\ Len(t) \in Nat /\ 1 \in 1 .. Len(t) + 1
    BY StructureTyped
  <1>1. /\ Half \in 0 .. Half /\ Structures = StructuresOf[Half]
        /\ Bare(t, 1) \in Seq(Symbols) /\ Len(Bare(t, 1)) \in Nat
    BY <1>0, HalfIs, BareTyped DEF Structures, Half
  <1>2. \A x \in Structures : Written(x)
    BY <1>1, DeeperWritten
  <1> DEFINE r == Value(t, 1)
  <1>3. r = Result(t) /\ r = ItemAt(t, "elements", 1)
    BY DEF Value, Result, ItemAt
  <1>4. Accepted(t) <=> r.ok /\ SkipWs(t, r.next) = Len(t) + 1
    BY <1>3 DEF Accepted
  <1>5. r.ok => r.next \in 1 .. Len(t) + 1
    BY <1>0, ValueShrinks
  <1> HIDE DEF r
  <1>6. ASSUME Accepted(t)
        PROVE  Means(Bare(t, 1), Result(t).value) \in Structures
    <2>1. r.ok /\ r.next \in 1 .. Len(t) + 1 /\ Bare(t, r.next) = <<>>
      BY <1>0, <1>4, <1>5, <1>6, NothingLeft
    <2>2. Span(t, 1, r.next) <= Len(Bare(t, 1))
      BY <1>1, <2>1 DEF Span
    <2>3. PICK x \in Structures : Bare(t, 1) = Cat(x.text, Bare(t, r.next)) /\ x.value = r.value
      <3>1. PICK most \in Nat : most = Len(Bare(t, 1))
        BY <1>1
      <3>2. ItemsParsed(t, "elements", Structures, most)
        BY <3>1, ValuesParsed
      <3>3. QED
        BY <1>0, <1>3, <2>1, <2>2, <3>1, <3>2 DEF ItemsParsed
    <2>4. x = Means(x.text, x.value) /\ x.text \in Seq(Symbols)
      BY <1>2 DEF Written
    <2>5. Bare(t, 1) = x.text
      BY <2>1, <2>3, <2>4, CatEmpty
    <2>6. QED
      BY <1>3, <2>3, <2>4, <2>5
  <1>7. ASSUME Bare(t, 1) \in TextsOf(Structures)
        PROVE  Accepted(t)
    <2>1. PICK x \in Structures : x.text = Bare(t, 1)
      BY <1>7 DEF TextsOf
    <2>2. Bare(t, 1) = Cat(x.text, <<>>) /\ <<>> \in Seq(Symbols)
      BY <1>1, <2>1, CatEmpty
    <2>3. r.ok /\ Bare(t, r.next) = <<>>
      <3>1. ItemsFound(t, "elements", Structures)
        BY ValuesFound
      <3>2. \A y \in Seq(Symbols) : Bare(t, 1) = Cat(x.text, y) => r.ok /\ Bare(t, r.next) = y
        BY <1>0, <1>3, <3>1 DEF ItemsFound
      <3>3. QED
        BY <2>2, <3>2
    <2>4. QED
      BY <1>0, <1>4, <1>5, <2>3, NothingLeft
  <1>8. QED
    BY <1>6, <1>7 DEF Follows

-----------------------------------------------------------------------------
(* Every text.                                                             *)

\* A text is over its alphabet.
TextTyped == kind \in DOMAIN Language /\ text \in Seq(Alphabet[kind])

\* The three kinds of texts.
LEMMA KindsAre ==
  /\ DOMAIN Language = {"number", "string", "structure"}
  /\ Language["number"] = Numbers /\ Language["string"] = Strings /\ Language["structure"] = Structures
  /\ Texts["number"] = TextsOf(Numbers) /\ Texts["string"] = TextsOf(Strings)
  /\ Texts["structure"] = TextsOf(Structures)
  /\ MaxOf["number"] = MaxNumber /\ MaxOf["string"] = MaxString /\ MaxOf["structure"] = MaxStructure
  BY DEF Language, Texts, MaxOf

\* An edit by a symbol of an alphabet keeps a text over it.
LEMMA EditsTyped ==
  ASSUME NEW S, NEW t \in Seq(S), NEW c \in S
  PROVE  /\ \A i \in DOMAIN t : RemoveAt(t, i) \in Seq(S) /\ ReplaceAt(t, i, c) \in Seq(S)
         /\ \A i \in 1 .. Len(t) + 1 : InsertAt(t, i, c) \in Seq(S)
  <1>1. \A i \in DOMAIN t : ReplaceAt(t, i, c) \in Seq(S)
    BY DEF ReplaceAt
  <1>2. \A i \in DOMAIN t : RemoveAt(t, i) \in Seq(S)
    BY DEF RemoveAt
  <1>3. \A i \in 1 .. Len(t) + 1 : InsertAt(t, i, c) \in Seq(S)
    BY DEF InsertAt
  <1>4. QED
    BY <1>1, <1>2, <1>3

\* A text, edited or not, is over its alphabet.
THEOREM TextIsTyped == Spec => []TextTyped
  <1>1. Init => TextTyped
    <2> SUFFICES ASSUME Init PROVE TextTyped
      OBVIOUS
    <2>1. kind \in {"number", "string", "structure"} /\ text \in Texts[kind]
      BY KindsAre DEF Init
    <2>2. CASE kind = "number"
      <3>1. PICK x \in Numbers : text = x.text
        BY <2>1, <2>2, KindsAre DEF TextsOf
      <3>2. QED
        BY <2>2, <3>1, NumbersAreOverTheirAlphabet, KindsAre DEF TextTyped
    <2>3. CASE kind = "string"
      <3>1. PICK x \in Strings : text = x.text
        BY <2>1, <2>3, KindsAre DEF TextsOf
      <3>2. QED
        BY <2>3, <3>1, StringTexts, KindsAre DEF TextTyped
    <2>4. CASE kind = "structure"
      <3>1. PICK x \in Structures : text = x.text
        BY <2>1, <2>4, KindsAre DEF TextsOf
      <3>2. Half \in 0 .. Half /\ Structures = StructuresOf[Half]
        BY HalfIs DEF Structures, Half
      <3>3. text \in Seq(Alphabet.structure)
        BY <3>1, <3>2, DeeperWritten DEF Written
      <3>4. QED
        BY <2>4, <3>3, KindsAre DEF TextTyped
    <2>5. QED
      BY <2>1, <2>2, <2>3, <2>4
  <1>2. TextTyped /\ [Next]_vars => TextTyped'
    <2> SUFFICES ASSUME TextTyped, [Next]_vars PROVE TextTyped'
      OBVIOUS
    <2> USE DEF TextTyped
    <2>1. CASE \E i \in DOMAIN text : Edit(RemoveAt(text, i))
      <3>1. PICK i \in DOMAIN text : text' = RemoveAt(text, i) /\ kind' = kind
        BY <2>1 DEF Edit
      <3>2. text[i] \in Alphabet[kind]
        OBVIOUS
      <3>3. QED
        BY <3>1, <3>2, EditsTyped
    <2>2. CASE \E i \in DOMAIN text, s \in Alphabet[kind] : Edit(ReplaceAt(text, i, s))
      <3>1. PICK i \in DOMAIN text, s \in Alphabet[kind] : text' = ReplaceAt(text, i, s) /\ kind' = kind
        BY <2>2 DEF Edit
      <3>2. QED
        BY <3>1, EditsTyped
    <2>3. CASE \E i \in 1 .. Len(text) + 1, s \in Alphabet[kind] : Edit(InsertAt(text, i, s))
      <3>1. PICK i \in 1 .. Len(text) + 1, s \in Alphabet[kind] : text' = InsertAt(text, i, s)
                   /\ kind' = kind
        BY <2>3 DEF Edit
      <3>2. QED
        BY <3>1, EditsTyped
    <2>4. CASE UNCHANGED vars
      BY <2>4 DEF vars
    <2>5. QED
      BY <2>1, <2>2, <2>3, <2>4 DEF Next
  <1>3. QED
    BY <1>1, <1>2, PTL DEF Spec

\* read_int (game_state.cpp:337-345) reads every number as IntegersAreRead says, for
\* all widths of the integers and all lengths of the numbers: one that fits an int as
\* it is, one that fits 64 bits modulo the width of int, and no other.
THEOREM IntegersAreAlwaysRead == Spec => []IntegersAreRead
  <1>1. TextTyped => IntegersAreRead
    <2> SUFFICES ASSUME TextTyped, kind = "number" /\ Len(text) <= MaxNumber PROVE IntegersAreRead
      BY DEF IntegersAreRead
    <2>1. text \in Seq(Alphabet.number)
      BY DEF TextTyped
    <2>2. QED
      BY <2>1, IntegersRead
  <1>2. QED
    BY <1>1, TextIsTyped, PTL

\* In numbers and strings there is no white space.
LEMMA AlphabetsAreSymbols ==
  /\ Alphabet.number \subseteq Tokens /\ Alphabet.string \subseteq Tokens
  /\ \A t : (t \in Seq(Alphabet.number) \/ t \in Seq(Alphabet.string)) => t \in Seq(Tokens)
  <1>1. Alphabet.number \subseteq Tokens /\ Alphabet.string \subseteq Tokens
    BY SymbolsAre DEF Tokens, Alphabet, Digits, HexGroups
  <1>2. QED
    BY <1>1

\* The parser (game_state.cpp:49-315) accepts exactly the texts of the grammar and
\* returns what they denote, as GrammarIsFollowed says, for numbers, strings, objects
\* and arrays of any length, with any depth and any white space.
THEOREM GrammarIsAlwaysFollowed == Spec => []GrammarIsFollowed
  <1>1. TextTyped => GrammarIsFollowed
    <2> SUFFICES ASSUME TextTyped, Len(Bare(text, 1)) <= MaxOf[kind]
                 PROVE  IF Bare(text, 1) \in Texts[kind]
                        THEN Means(Bare(text, 1), ParseJson(text)) \in Language[kind]
                        ELSE ParseJson(text) = <<None>>
      BY DEF GrammarIsFollowed, Bare
    <2>1. kind \in {"number", "string", "structure"} /\ text \in Seq(Alphabet[kind])
      BY KindsAre DEF TextTyped
    <2>2. CASE kind = "number"
      <3>1. text \in Seq(Tokens) /\ text \in Seq(Alphabet.number)
        BY <2>1, <2>2, AlphabetsAreSymbols
      <3>2. Len(text) <= MaxNumber
        BY <2>2, <3>1, NoWhiteSpace, KindsAre
      <3>3. Follows(text, Numbers)
        BY <3>1, <3>2, NumbersFollow
      <3>4. QED
        BY <2>2, <3>3, FollowsGrammar, KindsAre
    <2>3. CASE kind = "string"
      <3>1. text \in Seq(Tokens) /\ text \in Seq(Alphabet.string)
        BY <2>1, <2>3, AlphabetsAreSymbols
      <3>2. Len(text) <= MaxString
        BY <2>3, <3>1, NoWhiteSpace, KindsAre
      <3>3. Follows(text, Strings)
        BY <3>1, <3>2, StringsFollow
      <3>4. QED
        BY <2>3, <3>3, FollowsGrammar, KindsAre
    <2>4. CASE kind = "structure"
      <3>1. text \in Seq(Alphabet.structure) /\ Len(Bare(text, 1)) <= MaxStructure
        BY <2>1, <2>4, KindsAre
      <3>2. Follows(text, Structures)
        BY <3>1, StructuresFollow
      <3>3. QED
        BY <2>4, <3>2, FollowsGrammar, KindsAre
    <2>5. QED
      BY <2>1, <2>2, <2>3, <2>4
  <1>2. QED
    BY <1>1, TextIsTyped, PTL
=============================================================================
